--------------------------- MODULE Bgpparser2_proofs ---------------------------
(***************************************************************************)
(* Proofs that the loop of Bgpparser2 has its safety properties for every  *)
(* header length and every set of well-formed files.                       *)
(*                                                                         *)
(* None of the properties is inductive by itself: each speaks of the head  *)
(* of the loop or of its end.  The strengthening says what holds inside    *)
(* one turn of the loop, and is built in layers, each of which may rely    *)
(* on the layers before it:                                                *)
(*   Position  where the stream stands while record mrt_id is handled      *)
(*   Tables    which table indexTbl is at that point                       *)
(*   Returned  what a message that came back says of its record            *)
(*   Output    what was shown so far, and what was not                     *)
(*   Errors    what count_error has counted so far                         *)
(***************************************************************************)
EXTENDS Bgpparser2, SequenceTheorems, TLAPS

\* The states in which a record is being handled.
Handling == pc \in {"header", "body", "payload", "returned"}

Position ==
  /\ pc = "ready" /\ pos < avail => mrt_id < Len(file) /\ pos = file[mrt_id + 1].at
  /\ pc = "ready" => \A i \in 1 .. Len(file) : i > mrt_id => file[i].at >= pos
  /\ Handling \/ pc = "thrown" => mrt_id \in 1 .. Len(file) /\ file[mrt_id].at < avail
  /\ pc = "header" => pos = file[mrt_id].at
  /\ pc \in {"body", "payload", "returned"} => cur = mrt_id
  /\ pc = "body" => pos = file[mrt_id].at + HeaderLen
  /\ pc \in {"payload", "returned"} => pos = EndOf(file[mrt_id])
  /\ pc = "thrown" => pos = avail /\ EndOf(file[mrt_id]) > avail
  /\ pc = "ended" => \A i \in 1 .. Len(file) : i > mrt_id => file[i].at >= avail
  /\ pc # "EOFException"

\* What TableFor(i) is, without CHOOSE.
IsTableFor(t, i) ==
  \/ t = NoTable /\ \A j \in 1 .. i - 1 : ~GoodTable(j)
  \/ t \in 1 .. i - 1 /\ GoodTable(t) /\ \A j \in 1 .. i - 1 : GoodTable(j) => j <= t

Tables ==
  /\ pc \in {"header", "body", "payload", "thrown"} => IsTableFor(indexTbl, mrt_id)
  /\ pc \in {"ready", "returned"} => IsTableFor(indexTbl, mrt_id + 1)

-----------------------------------------------------------------------------
(* How the records of a well-formed file lie, and the last good table     *)

\* What the layout of a file gives: types, order, and the next record's offset.
LEMMA FileFacts ==
  ASSUME NEW f, WellFormed(f)
  PROVE  /\ Len(f) \in Nat
         /\ DOMAIN f = 1 .. Len(f)
         /\ \A i \in 1 .. Len(f) : /\ f[i] \in Record
                                   /\ f[i].at \in Nat
                                   /\ f[i].len \in Nat
                                   /\ EndOf(f[i]) \in Nat
                                   /\ EndOf(f[i]) > f[i].at
         /\ \A i, j \in 1 .. Len(f) : i < j => EndOf(f[i]) <= f[j].at
         /\ FileEnd(f) \in Nat
         /\ Len(f) = 0 => FileEnd(f) = 0
         /\ Len(f) > 0 => f[1].at = 0 /\ FileEnd(f) = EndOf(f[Len(f)])
<1>1. /\ Len(f) \in Nat
      /\ DOMAIN f = 1 .. Len(f)
      /\ f \in Seq(Record)
  BY DEF WellFormed
<1>2. ASSUME NEW i \in 1 .. Len(f)
      PROVE  /\ f[i] \in Record
             /\ f[i].at \in Nat
             /\ f[i].len \in Nat
             /\ EndOf(f[i]) \in Nat
             /\ EndOf(f[i]) > f[i].at
  <2>1. f[i] \in Record
    BY <1>1
  <2>2. f[i].at \in Nat /\ f[i].len \in Nat
    BY <2>1 DEF Record
  <2> QED
    BY <2>1, <2>2, HeaderAssumption DEF EndOf
<1>3. \A i, j \in 1 .. Len(f) : i < j => EndOf(f[i]) <= f[j].at
  BY DEF WellFormed
<1>4. f = << >> <=> Len(f) = 0
  BY <1>1
<1>5. FileEnd(f) \in Nat
  BY <1>1, <1>2, <1>4 DEF FileEnd
<1> QED
  BY <1>1, <1>2, <1>3, <1>4, <1>5 DEF FileEnd, WellFormed

\* Two records of a file never start at the same offset.
LEMMA OffsetsDiffer ==
  ASSUME NEW f, WellFormed(f),
         NEW i \in 1 .. Len(f), NEW j \in 1 .. Len(f), f[i].at = f[j].at
  PROVE  i = j
<1>1. CASE i < j
  <2>1. EndOf(f[i]) <= f[j].at /\ EndOf(f[i]) > f[i].at /\ f[i].at \in Nat /\ EndOf(f[i]) \in Nat
    BY <1>1, FileFacts
  <2> QED
    BY <2>1
<1>2. CASE j < i
  <2>1. EndOf(f[j]) <= f[i].at /\ EndOf(f[j]) > f[j].at /\ f[j].at \in Nat /\ EndOf(f[j]) \in Nat
    BY <1>2, FileFacts
  <2> QED
    BY <2>1
<1> QED
  BY <1>1, <1>2, FileFacts

\* IsTableFor determines its first argument: it is TableFor.
LEMMA TableForIs ==
  ASSUME NEW i \in Nat, NEW t, IsTableFor(t, i)
  PROVE  TableFor(i) = t
<1> DEFINE tables == {j \in 1 .. i - 1 : GoodTable(j)}
<1>1. CASE t = NoTable /\ \A j \in 1 .. i - 1 : ~GoodTable(j)
  <2>1. tables = {}
    BY <1>1
  <2> QED
    BY <1>1, <2>1 DEF TableFor
<1>2. CASE t \in 1 .. i - 1 /\ GoodTable(t) /\ \A j \in 1 .. i - 1 : GoodTable(j) => j <= t
  <2>1. t \in tables /\ \A j \in tables : j <= t
    BY <1>2
  <2>2. \A u \in tables : (\A j \in tables : j <= u) => u = t
    BY <2>1
  <2>3. (CHOOSE u \in tables : \A j \in tables : j <= u) = t
    BY <2>1, <2>2
  <2>4. tables # {}
    BY <2>1
  <2> QED
    BY <2>3, <2>4 DEF TableFor
<1> QED
  BY <1>1, <1>2 DEF IsTableFor

\* Passing record i makes it the table in force if it is a good one.
LEMMA TableAdvances ==
  ASSUME NEW i \in Nat, i > 0, NEW t, IsTableFor(t, i)
  PROVE  /\ GoodTable(i) => IsTableFor(i, i + 1)
         /\ ~GoodTable(i) => IsTableFor(t, i + 1)
<1>1. \A j \in 1 .. (i + 1) - 1 : j \in 1 .. i - 1 \/ j = i
  OBVIOUS
<1>2. \A j \in 1 .. i - 1 : j \in 1 .. (i + 1) - 1 /\ j <= i
  OBVIOUS
<1>3. i \in 1 .. (i + 1) - 1 /\ i <= i
  OBVIOUS
<1> QED
  BY <1>1, <1>2, <1>3 DEF IsTableFor

-----------------------------------------------------------------------------
(* First layer: types and the position of the stream                       *)

LEMMA InitPosition == Init => TypeOK /\ Position
<1> SUFFICES ASSUME Init PROVE TypeOK /\ Position
  OBVIOUS
<1>1. WellFormed(file)
  BY FilesAssumption DEF Init, LibInit
<1>2. /\ Len(file) \in Nat
      /\ FileEnd(file) \in Nat
      /\ \A i \in 1 .. Len(file) : file[i].at \in Nat
      /\ Len(file) = 0 => FileEnd(file) = 0
      /\ Len(file) > 0 => file[1].at = 0
  BY <1>1, FileFacts
<1>3. msg \in Message
  BY DEF Init, LibInit, NoMessage, NoTable, Message, MessageTypes
<1>4. TypeOK
  BY <1>1, <1>2, <1>3 DEF Init, LibInit, TypeOK, LibTypeOK, NoTable
<1>5. Position
  BY <1>2 DEF Init, LibInit, Position, Handling
<1> QED
  BY <1>4, <1>5

\* Every step keeps the types and the position.
LEMMA NextPosition == TypeOK /\ Position /\ [Next]_vars => TypeOK' /\ Position'
<1> SUFFICES ASSUME TypeOK, Position, [Next]_vars PROVE TypeOK' /\ Position'
  OBVIOUS
<1> DEFINE n == Len(file)
<1>0. /\ WellFormed(file)
      /\ avail \in Nat /\ pos \in Nat /\ pos <= avail /\ avail <= FileEnd(file)
      /\ mrt_id \in 0 .. n /\ cur \in 0 .. n /\ indexTbl \in 0 .. n
      /\ count_error \in Nat /\ broken \in BOOLEAN
      /\ shown \in Seq([rec : Nat, tbl : Nat])
  <2>1. FileEnd(file) \in Nat
    BY FileFacts DEF TypeOK, LibTypeOK
  <2> QED
    BY <2>1 DEF TypeOK, LibTypeOK
<1>f. /\ n \in Nat
      /\ DOMAIN file = 1 .. n
      /\ \A i \in 1 .. n : /\ file[i].at \in Nat
                           /\ file[i].len \in Nat
                           /\ EndOf(file[i]) \in Nat
                           /\ EndOf(file[i]) > file[i].at
                           /\ EndOf(file[i]) = file[i].at + HeaderLen + file[i].len
      /\ \A i, j \in 1 .. n : i < j => EndOf(file[i]) <= file[j].at
      /\ \A i \in 1 .. n - 1 : file[i + 1].at = EndOf(file[i])
      /\ FileEnd(file) \in Nat
      /\ n = 0 => FileEnd(file) = 0
      /\ n > 0 => FileEnd(file) = EndOf(file[n])
  <2>1. \A i \in 1 .. n - 1 : file[i + 1].at = EndOf(file[i])
    BY <1>0 DEF WellFormed
  <2>2. \A i \in 1 .. n : EndOf(file[i]) = file[i].at + HeaderLen + file[i].len
    BY DEF EndOf
  <2> HIDE DEF n
  <2> QED
    BY <1>0, <2>1, <2>2, FileFacts DEF n
<1>h. HeaderLen \in Nat /\ HeaderLen > 0
  BY HeaderAssumption
<1> HIDE DEF n
\* The library's part of the state is left alone by the loop's own steps.
<1>1. CASE Peek
  <2>1. CASE pos < avail /\ pc' = "header" /\ mrt_id' = mrt_id + 1
    <3>1. mrt_id + 1 \in 1 .. n /\ file[mrt_id + 1].at = pos
      BY <1>0, <1>1, <1>f, <2>1 DEF Peek, Position, n
    <3>2. TypeOK'
      BY <1>0, <1>1, <1>f, <2>1, <3>1 DEF Peek, TypeOK, LibTypeOK, n
    <3>3. Position'
      BY <1>0, <1>1, <2>1, <3>1 DEF Peek, Position, Handling, n
    <3> QED
      BY <3>2, <3>3
  <2>2. CASE pos = avail /\ pc' = "ended" /\ mrt_id' = mrt_id
    <3>1. TypeOK'
      BY <1>0, <1>1, <2>2 DEF Peek, TypeOK, LibTypeOK
    <3>2. Position'
      BY <1>0, <1>1, <2>2 DEF Peek, Position, Handling
    <3> QED
      BY <3>1, <3>2
  <2> QED
    BY <1>1, <2>1, <2>2 DEF Peek
<1>2. CASE ReadHeader /\ UNCHANGED mainVars
  <2> USE DEF mainVars
  <2>0. mrt_id \in 1 .. n /\ pos = file[mrt_id].at /\ pos < avail
    BY <1>0, <1>2 DEF ReadHeader, Position, Handling, n
  <2>1. CASE /\ pos + HeaderLen <= avail
             /\ \E i \in DOMAIN file : file[i].at = pos /\ cur' = i
             /\ pos' = pos + HeaderLen
             /\ pc' = "body"
    <3>1. cur' = mrt_id
      <4>1. PICK i \in 1 .. n : file[i].at = pos /\ cur' = i
        BY <1>f, <2>1
      <4> QED
        BY <1>0, <2>0, <4>1, OffsetsDiffer DEF n
    <3>2. TypeOK'
      BY <1>0, <1>2, <1>h, <2>0, <2>1, <3>1 DEF ReadHeader, TypeOK, LibTypeOK, n
    <3>3. Position'
      BY <1>0, <1>2, <2>0, <2>1, <3>1 DEF ReadHeader, Position, Handling, n
    <3> QED
      BY <3>2, <3>3
  <2>2. CASE /\ pos + HeaderLen > avail
             /\ ShortRead(IF pos = avail THEN "EOFException" ELSE "thrown")
             /\ UNCHANGED cur
    <3>1. pos' = avail /\ pc' \in {"thrown", "failure"}
      BY <1>0, <2>0, <2>2 DEF ShortRead
    <3>2. TypeOK'
      BY <1>0, <1>2, <2>2, <3>1 DEF ReadHeader, TypeOK, LibTypeOK
    <3>3. EndOf(file[mrt_id]) > avail
      <4>1. /\ EndOf(file[mrt_id]) = file[mrt_id].at + HeaderLen + file[mrt_id].len
            /\ file[mrt_id].at \in Nat /\ file[mrt_id].len \in Nat
        BY <1>f, <2>0
      <4> QED
        BY <1>0, <1>h, <2>0, <2>2, <4>1
    <3>4. Position'
      BY <1>0, <1>2, <2>0, <2>2, <3>1, <3>3 DEF ReadHeader, Position, Handling, EndOf, n
    <3> QED
      BY <3>2, <3>4
  <2> QED
    BY <1>2, <2>1, <2>2 DEF ReadHeader
<1>3. CASE ReadBody /\ UNCHANGED mainVars
  <2> USE DEF mainVars
  <2>0. /\ mrt_id \in 1 .. n /\ cur = mrt_id /\ file[mrt_id].at < avail
        /\ BodyEnd(cur) = EndOf(file[mrt_id])
    BY <1>0, <1>3, <1>f, <1>h DEF ReadBody, Position, Handling, BodyEnd, n
  <2>1. CASE BodyEnd(cur) <= avail /\ pos' = BodyEnd(cur) /\ pc' = "payload"
    <3>1. TypeOK'
      BY <1>0, <1>3, <1>f, <2>0, <2>1 DEF ReadBody, TypeOK, LibTypeOK, n
    <3>2. Position'
      BY <1>0, <1>3, <2>0, <2>1 DEF ReadBody, Position, Handling, EndOf, n
    <3> QED
      BY <3>1, <3>2
  <2>2. CASE BodyEnd(cur) > avail /\ ShortRead("thrown")
    <3>1. pos' = avail /\ pc' \in {"thrown", "failure"}
      BY <2>2 DEF ShortRead
    <3>2. TypeOK'
      BY <1>0, <1>3, <3>1 DEF ReadBody, TypeOK, LibTypeOK
    <3>3. Position'
      BY <1>0, <1>3, <2>0, <2>2, <3>1 DEF ReadBody, Position, Handling, EndOf, n
    <3> QED
      BY <3>2, <3>3
  <2> QED
    BY <1>3, <2>1, <2>2 DEF ReadBody
\* Parsing moves neither the stream nor cur.
<1>4. ASSUME pc = "payload", pc' \in {"returned", "crashed"}, indexTbl' \in {indexTbl, cur},
             msg' \in Message, UNCHANGED <<file, avail, broken, pos, cur, mainVars>>
      PROVE  TypeOK' /\ Position'
  <2>1. TypeOK'
    BY <1>0, <1>4 DEF TypeOK, LibTypeOK, mainVars
  <2>2. Position'
    BY <1>0, <1>4 DEF Position, Handling, EndOf, mainVars
  <2> QED
    BY <2>1, <2>2
<1>5. ASSUME NEW t \in MessageTypes, Return(t)
      PROVE  msg' \in Message /\ pc' = "returned"
  BY <1>0, <1>5, <1>f DEF Return, Message, NoTable, n
<1>6. CASE /\ KeepHeader \/ ParseBgp \/ ParsePeerIndexTable \/ ParseRib \/ CatchPayloadError
           /\ UNCHANGED mainVars
  <2>1. /\ pc = "payload" /\ indexTbl' \in {indexTbl, cur}
        /\ UNCHANGED <<file, avail, broken, pos, cur, mainVars>>
    BY <1>6 DEF KeepHeader, ParseBgp, ParsePeerIndexTable, ParseRib, CatchPayloadError
  <2>2. \E t \in MessageTypes : Return(t)
    BY <1>6 DEF KeepHeader, ParseBgp, ParsePeerIndexTable, ParseRib, CatchPayloadError,
       MessageTypes, Kinds, RibKinds
  <2> QED
    BY <1>4, <1>5, <2>1, <2>2
<1>7. CASE ParseRibPastTable /\ UNCHANGED mainVars
  <2>1. /\ pc = "payload" /\ indexTbl' = indexTbl
        /\ UNCHANGED <<file, avail, broken, pos, cur, mainVars>>
    BY <1>7 DEF ParseRibPastTable
  <2>2. CASE pc' = "crashed" /\ msg' = msg
    BY <1>4, <2>1, <2>2 DEF TypeOK, LibTypeOK
  <2>3. CASE \E t \in MessageTypes : Return(t)
    BY <1>4, <1>5, <2>1, <2>3
  <2> QED
    BY <1>7, <2>2, <2>3 DEF ParseRibPastTable, MessageTypes, Kinds, RibKinds
\* A message is dealt with: the stream stands at the end of its record.
<1>8. ASSUME pc = "returned", pc' \in {"ready", "crashed"},
             UNCHANGED <<file, avail, broken, pos, cur, indexTbl, msg, ipv4, ipv6,
                         mrt_id, count_error>>,
             shown' \in Seq([rec : Nat, tbl : Nat])
      PROVE  TypeOK' /\ Position'
  <2>1. TypeOK'
    BY <1>0, <1>8 DEF TypeOK, LibTypeOK
  <2>2. /\ mrt_id \in 1 .. n /\ pos = EndOf(file[mrt_id])
    BY <1>8 DEF Position, Handling, n
  <2>3. pos < avail => mrt_id < n /\ pos = file[mrt_id + 1].at
    <3>1. mrt_id = n => pos >= avail
      BY <1>0, <1>f, <2>2
    <3>2. mrt_id \in 1 .. n - 1 => pos = file[mrt_id + 1].at
      BY <1>f, <2>2
    <3> QED
      BY <1>0, <1>f, <2>2, <3>1, <3>2
  <2>4. \A i \in 1 .. n : i > mrt_id => file[i].at >= pos
    BY <1>f, <2>2
  <2>5. Position'
    BY <1>8, <2>3, <2>4 DEF Position, Handling, n
  <2> QED
    BY <2>1, <2>5
<1>9. CASE Show
  <2>1. Shown(msg) \in [rec : Nat, tbl : Nat]
    BY DEF TypeOK, LibTypeOK, Shown, Message
  <2>2. Append(shown, Shown(msg)) \in Seq([rec : Nat, tbl : Nat])
    BY <1>0, <2>1, AppendProperties
  <2>3. shown' \in Seq([rec : Nat, tbl : Nat])
    BY <1>0, <1>9, <2>2 DEF Show
  <2> QED
    BY <1>8, <1>9, <2>3 DEF Show
<1>10. CASE PassOver
  BY <1>0, <1>8, <1>10 DEF PassOver, mainVars
<1>11. CASE CatchMRTException
  <2>1. TypeOK'
    BY <1>0, <1>11 DEF CatchMRTException, TypeOK, LibTypeOK
  <2>2. \A i \in 1 .. n : i > mrt_id => file[i].at >= avail
    BY <1>0, <1>11, <1>f DEF CatchMRTException, Position, n
  <2>3. Position'
    BY <1>0, <1>11, <2>2 DEF CatchMRTException, Position, Handling, n
  <2> QED
    BY <2>1, <2>3
<1>12. CASE ExitOnFailure
  <2>1. TypeOK'
    BY <1>12 DEF ExitOnFailure, TypeOK, LibTypeOK, mainVars
  <2>2. Position'
    BY <1>12 DEF ExitOnFailure, Position, Handling, mainVars
  <2> QED
    BY <2>1, <2>2
<1>13. CASE UNCHANGED vars
  <2>1. TypeOK'
    BY <1>13 DEF TypeOK, LibTypeOK, vars, libVars, mainVars
  <2>2. Position'
    BY <1>13 DEF Position, Handling, EndOf, vars, libVars, mainVars
  <2> QED
    BY <2>1, <2>2
<1> QED
  BY <1>1, <1>2, <1>3, <1>6, <1>7, <1>9, <1>10, <1>11, <1>12, <1>13
  DEF Next, ReadMessage, NewMessage, Stop

(***************************************************************************)
(* Type correctness: in particular mrt_id, cur and indexTbl never leave    *)
(* the file, and pos never passes what the stream delivers.                *)
(***************************************************************************)
THEOREM TypeCorrect == Spec => []TypeOK
<1>1. Init => TypeOK /\ Position
  BY InitPosition
<1>2. TypeOK /\ Position /\ [Next]_vars => (TypeOK /\ Position)'
  BY NextPosition
<1> QED
  BY <1>1, <1>2, PTL DEF Spec

\* Position follows the loop around, for every file.
LEMMA PositionHolds == Spec => [](TypeOK /\ Position)
<1>1. Init => TypeOK /\ Position
  BY InitPosition
<1>2. TypeOK /\ Position /\ [Next]_vars => (TypeOK /\ Position)'
  BY NextPosition
<1> QED
  BY <1>1, <1>2, PTL DEF Spec

(***************************************************************************)
(* Framing: whatever newMessage met in a payload, the next turn of the     *)
(* loop reads a header where the file has one.                             *)
(***************************************************************************)
THEOREM FramingHolds == Spec => []Framing
<1>1. Position => Framing
  BY DEF Position, Framing
<1> QED
  BY <1>1, PositionHolds, PTL

-----------------------------------------------------------------------------
(* Second layer: the peer index table in force                             *)

\* What every step of the loop leaves alone.
LEMMA FileStays == [Next]_vars => UNCHANGED <<file, avail, ipv4, ipv6>>
<1> SUFFICES ASSUME [Next]_vars PROVE UNCHANGED <<file, avail, ipv4, ipv6>>
  OBVIOUS
<1>1. CASE ReadMessage
  BY <1>1 DEF ReadMessage, mainVars, NewMessage, ReadHeader, ReadBody, KeepHeader, ParseBgp,
     ParsePeerIndexTable, ParseRib, ParseRibPastTable, CatchPayloadError
<1>2. CASE Peek \/ Show \/ PassOver \/ CatchMRTException \/ ExitOnFailure
  BY <1>2 DEF Peek, Show, PassOver, CatchMRTException, ExitOnFailure, mainVars
<1>3. CASE UNCHANGED vars
  BY <1>3 DEF vars, libVars, mainVars
<1> QED
  BY <1>1, <1>2, <1>3 DEF Next, Stop

LEMMA NextTables ==
  TypeOK /\ Position /\ Tables /\ [Next]_vars => Tables'
<1> SUFFICES ASSUME TypeOK, Position, Tables, [Next]_vars PROVE Tables'
  OBVIOUS
<1>0. UNCHANGED <<file, avail>> /\ mrt_id \in Nat
  BY FileStays DEF TypeOK, LibTypeOK
<1>s. \A t, i : IsTableFor(t, i)' <=> IsTableFor(t', i')
  BY <1>0 DEF IsTableFor, GoodTable, Complete, EndOf, NoTable
<1>1. CASE Peek
  BY <1>0, <1>1 DEF Peek, Tables, IsTableFor, GoodTable, Complete, EndOf, NoTable
<1>2. CASE ReadMessage /\ (ReadHeader \/ ReadBody)
  <2>1. /\ pc \in {"header", "body"}
        /\ pc' \in {"body", "payload", "thrown", "EOFException", "failure"}
        /\ UNCHANGED <<file, avail, mrt_id, indexTbl>>
    BY <1>2 DEF ReadMessage, mainVars, ReadHeader, ReadBody, ShortRead
  <2> QED
    BY <2>1 DEF Tables, IsTableFor, GoodTable, Complete, EndOf
\* After the payload: mrt_id is passed, and indexTbl changes only if it is a good table.
<1>3. ASSUME pc = "payload", pc' \in {"returned", "crashed"},
             UNCHANGED <<file, avail, mrt_id>>,
             indexTbl' = IF GoodTable(mrt_id) THEN mrt_id ELSE indexTbl
      PROVE  Tables'
  <2>1. IsTableFor(indexTbl, mrt_id) /\ mrt_id > 0
    BY <1>3 DEF Tables, Position, Handling
  <2>2. IsTableFor(indexTbl', mrt_id + 1)
    BY <1>0, <1>3, <2>1, TableAdvances
  <2> QED
    BY <1>3, <2>2 DEF Tables, IsTableFor, GoodTable, Complete, EndOf
<1>4. CASE ReadMessage /\ ParsePeerIndexTable
  <2>1. mrt_id \in 1 .. Len(file) /\ cur = mrt_id /\ Complete(mrt_id)
    BY <1>4 DEF ParsePeerIndexTable, Position, Handling, Complete, TypeOK, LibTypeOK
  <2> QED
    BY <1>3, <1>4, <2>1 DEF ReadMessage, mainVars, ParsePeerIndexTable, Return, GoodTable
<1>5. CASE /\ ReadMessage
           /\ KeepHeader \/ ParseBgp \/ ParseRib \/ ParseRibPastTable \/ CatchPayloadError
  <2>1. /\ pc = "payload" /\ pc' \in {"returned", "crashed"}
        /\ UNCHANGED <<file, avail, mrt_id, indexTbl>>
    BY <1>5 DEF ReadMessage, mainVars, KeepHeader, ParseBgp, ParseRib, ParseRibPastTable,
       CatchPayloadError, Return
  <2>2. cur = mrt_id
    BY <2>1 DEF Position
  <2>3. ~GoodTable(mrt_id)
    BY <1>5, <2>2 DEF KeepHeader, ParseBgp, ParseRib, ParseRibPastTable,
       CatchPayloadError, PayloadThrows, GoodTable, RibKinds
  <2> QED
    BY <1>3, <2>1, <2>3
<1>6. CASE Show \/ PassOver
  BY <1>6 DEF Show, PassOver, mainVars, Tables, IsTableFor, GoodTable, Complete, EndOf
<1>7. CASE CatchMRTException
  <2>0. /\ WellFormed(file) /\ FileEnd(file) \in Nat /\ avail \in Nat
        /\ mrt_id \in 1 .. Len(file)
        /\ EndOf(file[mrt_id]) \in Nat /\ EndOf(file[mrt_id]) > avail
    BY <1>7, FileFacts DEF CatchMRTException, Position, TypeOK, LibTypeOK
  <2>1. IsTableFor(indexTbl, mrt_id) /\ mrt_id > 0 /\ ~GoodTable(mrt_id)
    BY <1>7, <2>0 DEF CatchMRTException, Tables, GoodTable, Complete
  <2>2. IsTableFor(indexTbl, mrt_id + 1)
    BY <1>0, <2>1, TableAdvances
  <2> QED
    BY <1>7, <2>2 DEF CatchMRTException, Tables, IsTableFor, GoodTable, Complete, EndOf
<1>8. CASE ExitOnFailure
  BY <1>8 DEF ExitOnFailure, Tables
<1>9. CASE UNCHANGED vars
  BY <1>9 DEF vars, libVars, mainVars, Tables, IsTableFor, GoodTable, Complete, EndOf
<1> QED
  BY <1>1, <1>2, <1>4, <1>5, <1>6, <1>7, <1>8, <1>9
  DEF Next, ReadMessage, NewMessage, Stop

LEMMA TablesHold == Spec => []Tables
<1>1. Init => Tables
  BY DEF Init, LibInit, Tables, IsTableFor
<1> QED
  BY <1>1, NextTables, PositionHolds, PTL DEF Spec

(***************************************************************************)
(* The table in force: between two records indexTbl is the last peer index *)
(* table that parsed, for every interleaving of good and bad tables.       *)
(***************************************************************************)
THEOREM TableInForceHolds == Spec => []TableInForce
<1>1. TypeOK /\ Tables => TableInForce
  <2> SUFFICES ASSUME TypeOK, Tables, pc = "ready"
               PROVE  indexTbl = TableFor(mrt_id + 1)
    BY DEF TableInForce
  <2>1. mrt_id + 1 \in Nat
    BY DEF TypeOK
  <2>2. IsTableFor(indexTbl, mrt_id + 1)
    BY DEF Tables
  <2> QED
    BY <2>1, <2>2, TableForIs
<1> QED
  BY <1>1, PositionHolds, TablesHold, PTL

-----------------------------------------------------------------------------
(* Third layer: what a returned message says of its record                 *)

\* The table a RIB among the records is read against.
TableOf(i) == IF file[i].kind \in RibKinds THEN TableFor(i) ELSE NoTable

\* A record whose payload gives a message AsciiVisitor prints.
Printable(i) == file[i].kind \in Visible /\ file[i].sound /\ Resolvable(i)

Returned ==
  pc = "returned" =>
    /\ msg.rec = mrt_id
    /\ msg.type \in Visible => /\ msg.type = file[mrt_id].kind
                               /\ msg.tbl = TableOf(mrt_id)
                               /\ Printable(mrt_id) \/ PastTable(mrt_id)
    /\ msg.type \notin Visible => ~Printable(mrt_id)

\* Resolving in a table is having no miss there.
LEMMA MissesResolvable ==
  ASSUME NEW i, file[i].kind \in RibKinds, TableFor(i) # NoTable,
         \A k \in DOMAIN file[i].entries : file[i].entries[k] \in Nat,
         file[TableFor(i)].peers \in Nat
  PROVE  Resolvable(i) <=> Misses(i, TableFor(i)) = {}
BY DEF Resolvable, Misses

LEMMA NextReturned ==
  TypeOK /\ Position /\ Tables /\ Returned /\ [Next]_vars => Returned'
<1> SUFFICES ASSUME TypeOK, Position, Tables, Returned, [Next]_vars, pc' = "returned"
             PROVE  Returned'
  BY DEF Returned
<1>0. UNCHANGED <<file, avail>>
  BY FileStays
<1>s. \A i : /\ TableFor(i)' = TableFor(i')
             /\ TableOf(i)' = TableOf(i')
             /\ Printable(i)' = Printable(i')
             /\ PastTable(i)' = PastTable(i')
  BY <1>0 DEF TableOf, TableFor, GoodTable, Complete, EndOf, Printable, Resolvable, PastTable,
     ReadsPastTable, FirstMiss, Misses
<1>1. CASE pc = "payload" /\ ReadMessage
  <2>0. /\ cur = mrt_id /\ mrt_id' = mrt_id
        /\ mrt_id \in 1 .. Len(file)
        /\ indexTbl = TableFor(mrt_id)
        /\ WellFormed(file) /\ file[mrt_id] \in Record
    <3>1. cur = mrt_id /\ mrt_id \in 1 .. Len(file) /\ mrt_id \in Nat
      BY <1>1 DEF Position, Handling, TypeOK, LibTypeOK
    <3>2. indexTbl = TableFor(mrt_id)
      BY <1>1, <3>1, TableForIs DEF Tables
    <3> QED
      BY <1>1, <3>1, <3>2, FileFacts DEF ReadMessage, mainVars, TypeOK, LibTypeOK
  <2>1. ASSUME NEW t \in MessageTypes, Return(t),
               t \in Visible => /\ t = file[mrt_id].kind
                                /\ Printable(mrt_id) \/ PastTable(mrt_id),
               t \notin Visible => ~Printable(mrt_id)
        PROVE  Returned'
    <3>1. msg' = [type |-> t, rec |-> mrt_id,
                  tbl |-> IF t \in RibKinds THEN TableFor(mrt_id) ELSE NoTable]
      BY <2>0, <2>1 DEF Return
    <3>2. t \in Visible => msg'.tbl = TableOf(mrt_id)
      BY <2>1, <3>1 DEF TableOf
    <3>3. /\ TableOf(mrt_id)' = TableOf(mrt_id)
          /\ Printable(mrt_id)' = Printable(mrt_id)
          /\ PastTable(mrt_id)' = PastTable(mrt_id)
          /\ file[mrt_id]' = file[mrt_id]
      BY <1>0, <1>s, <2>0
    <3>4. msg'.type = t /\ msg'.rec = mrt_id
      BY <3>1
    <3> QED
      BY <1>0, <2>0, <2>1, <3>2, <3>3, <3>4 DEF Returned
  <2>2. CASE KeepHeader
    BY <2>0, <2>1, <2>2 DEF KeepHeader, MessageTypes, Visible, Printable
  <2>3. CASE ParseBgp
    <3>1. Printable(mrt_id)
      BY <2>0, <2>3 DEF ParseBgp, Printable, Visible, Resolvable, RibKinds
    <3> QED
      BY <2>0, <2>1, <2>3, <3>1 DEF ParseBgp, MessageTypes, Kinds, Visible
  <2>4. CASE ParsePeerIndexTable
    BY <2>0, <2>1, <2>4 DEF ParsePeerIndexTable, MessageTypes, Kinds, Visible, Printable
\* An index that resolves is a natural number below the table's size.
  <2>5. ASSUME file[mrt_id].kind \in RibKinds, indexTbl # NoTable
        PROVE  Resolvable(mrt_id) <=> Misses(mrt_id, indexTbl) = {}
    <3>1. indexTbl \in 1 .. Len(file)
      BY <2>5 DEF TypeOK, LibTypeOK, NoTable
    <3>2. file[indexTbl].peers \in Nat
      BY <2>0, <3>1, FileFacts DEF Record
    <3>3. \A k \in DOMAIN file[mrt_id].entries : file[mrt_id].entries[k] \in Nat
      <4>1. file[mrt_id].entries \in Seq(Nat)
        BY <2>0 DEF Record
      <4> QED
        BY <4>1
    <3> QED
      BY <2>0, <2>5, <3>2, <3>3, MissesResolvable
  <2>6. CASE ParseRib
    <3>1. Printable(mrt_id)
      BY <2>0, <2>5, <2>6 DEF ParseRib, Printable, Visible, RibKinds
    <3> QED
      BY <2>0, <2>1, <2>6, <3>1 DEF ParseRib, MessageTypes, Kinds, Visible, RibKinds
  <2>7. CASE ParseRibPastTable
    <3>1. PastTable(mrt_id)
      BY <2>0, <2>7 DEF ParseRibPastTable, PastTable
    <3>2. ~Printable(mrt_id)
      BY <2>0, <2>5, <2>7 DEF ParseRibPastTable, ReadsPastTable, Printable
    <3> QED
      BY <1>1, <2>0, <2>1, <2>7, <3>1, <3>2
      DEF ParseRibPastTable, MessageTypes, Kinds, Visible, RibKinds
  <2>8. CASE CatchPayloadError
    <3>1. ~Printable(mrt_id)
      <4>1. CASE file[mrt_id].kind \in RibKinds /\ indexTbl = NoTable
        BY <2>0, <4>1 DEF Printable, Resolvable
      <4>2. CASE file[mrt_id].kind \in RibKinds /\ indexTbl # NoTable
        BY <2>0, <2>5, <2>8, <4>2
        DEF CatchPayloadError, PayloadThrows, Printable, RefusedByGetPeer, RibKinds
      <4>3. CASE file[mrt_id].kind \notin RibKinds
        BY <2>0, <2>8, <4>3 DEF CatchPayloadError, PayloadThrows, Printable
      <4> QED
        BY <4>1, <4>2, <4>3
    <3> QED
      BY <2>0, <2>1, <2>8, <3>1 DEF CatchPayloadError, MessageTypes, Visible
  <2> QED
    BY <1>1, <2>2, <2>3, <2>4, <2>6, <2>7, <2>8
    DEF ReadMessage, NewMessage, ReadHeader, ReadBody
<1>2. CASE ReadMessage /\ (ReadHeader \/ ReadBody)
  BY <1>2 DEF ReadHeader, ReadBody, ShortRead
<1>3. CASE Peek \/ Show \/ PassOver \/ CatchMRTException \/ ExitOnFailure
  BY <1>3 DEF Peek, Show, PassOver, CatchMRTException, ExitOnFailure
<1>4. CASE UNCHANGED vars
  BY <1>4, <1>s DEF vars, libVars, mainVars, Returned
<1> QED
  BY <1>1, <1>2, <1>3, <1>4
  DEF Next, ReadMessage, NewMessage, Stop, KeepHeader, ParseBgp, ParsePeerIndexTable,
      ParseRib, ParseRibPastTable, CatchPayloadError

LEMMA ReturnedHolds == Spec => []Returned
<1>1. Init => Returned
  BY DEF Init, LibInit, Returned
<1> QED
  BY <1>1, NextReturned, PositionHolds, TablesHold, PTL DEF Spec

-----------------------------------------------------------------------------
(* Fourth layer: what was shown, and what was not                          *)

\* The records that were dealt with: the one being handled is not yet among them.
Done == IF Handling \/ pc = "thrown" THEN mrt_id - 1 ELSE mrt_id

ShownSoFar ==
  /\ \A k \in 1 .. Len(shown) : /\ shown[k].rec \in 1 .. Done
                                /\ MayShow(shown[k].rec)
                                /\ shown[k].tbl = TableOf(shown[k].rec)
  /\ \A j, k \in 1 .. Len(shown) : j < k => shown[j].rec < shown[k].rec

NothingLostSoFar ==
  pc \notin {"crashed", "failure", "exit10"} =>
    \A i \in 1 .. Done : MustShow(i) => \E k \in 1 .. Len(shown) : shown[k].rec = i

Output == ShownSoFar /\ NothingLostSoFar

\* The loop's filter passes the messages of the selected families.
LEMMA FilterSelects ==
  ASSUME TypeOK, msg.type \in Visible
  PROVE  CanPrint(msg) <=> Selected(file[msg.rec])
BY DEF TypeOK, CanPrint, Classify, Selected

\* Nothing but the records shown changes what Output says, as long as Done stays.
LEMMA OutputStays ==
  ASSUME Output, UNCHANGED <<file, avail, ipv4, ipv6, shown>>, Done' = Done,
         pc' \in {"crashed", "failure", "exit10"} \/ pc \notin {"crashed", "failure", "exit10"}
  PROVE  Output'
<1>1. \A i : MayShow(i)' <=> MayShow(i')
  BY DEF MayShow, MustShow, Complete, EndOf, Resolvable, Selected, PastTable, ReadsPastTable,
     FirstMiss, Misses, TableFor, GoodTable
<1>2. \A i : MustShow(i)' <=> MustShow(i')
  BY DEF MustShow, Complete, EndOf, Resolvable, Selected, TableFor, GoodTable
<1>3. \A i : TableOf(i)' = TableOf(i')
  BY DEF TableOf, TableFor, GoodTable, Complete, EndOf
<1>4. ShownSoFar'
  BY <1>1, <1>3 DEF Output, ShownSoFar
<1>5. NothingLostSoFar'
  BY <1>2 DEF Output, NothingLostSoFar
<1> QED
  BY <1>4, <1>5 DEF Output

\* Passing a record without showing it is right if it did not have to be shown.
LEMMA OutputAdvances ==
  ASSUME Output, UNCHANGED <<file, avail, ipv4, ipv6, shown>>, mrt_id \in Nat \ {0},
         Done = mrt_id - 1, Done' = mrt_id,
         ~MustShow(mrt_id) \/ pc' \in {"crashed", "failure", "exit10"},
         pc \notin {"crashed", "failure", "exit10"}
  PROVE  Output'
<1>1. \A i : MayShow(i)' <=> MayShow(i')
  BY DEF MayShow, MustShow, Complete, EndOf, Resolvable, Selected, PastTable, ReadsPastTable,
     FirstMiss, Misses, TableFor, GoodTable
<1>2. \A i : MustShow(i)' <=> MustShow(i')
  BY DEF MustShow, Complete, EndOf, Resolvable, Selected, TableFor, GoodTable
<1>3. \A i : TableOf(i)' = TableOf(i')
  BY DEF TableOf, TableFor, GoodTable, Complete, EndOf
<1>4. \A i \in 1 .. mrt_id : i \in 1 .. mrt_id - 1 \/ i = mrt_id
  OBVIOUS
<1>5. 1 .. mrt_id - 1 \subseteq 1 .. mrt_id
  OBVIOUS
<1>6. ShownSoFar'
  BY <1>1, <1>3, <1>5 DEF Output, ShownSoFar
<1>7. NothingLostSoFar'
  BY <1>2, <1>4 DEF Output, NothingLostSoFar
<1> QED
  BY <1>6, <1>7 DEF Output

LEMMA NextOutput ==
  TypeOK /\ Position /\ Returned /\ Output /\ [Next]_vars => Output'
<1> SUFFICES ASSUME TypeOK, Position, Returned, Output, [Next]_vars PROVE Output'
  OBVIOUS
<1>0. /\ UNCHANGED <<file, avail, ipv4, ipv6>>
      /\ mrt_id \in Nat
      /\ shown \in Seq([rec : Nat, tbl : Nat])
      /\ Len(shown) \in Nat
      /\ Handling \/ pc = "thrown" => mrt_id > 0
  BY FileStays DEF TypeOK, Position
\* Taking up a record and handling it show nothing, and it is not dealt with yet.
<1>1. CASE Peek
  <2>1. shown' = shown /\ Done' = Done
    BY <1>0, <1>1 DEF Peek, Done, Handling
  <2> QED
    BY <1>0, <1>1, <2>1, OutputStays DEF Peek
<1>2. CASE ReadMessage
  <2>1. /\ pc \in {"header", "body", "payload"}
        /\ pc' \in {"body", "payload", "returned", "thrown", "EOFException", "failure", "crashed"}
        /\ shown' = shown /\ mrt_id' = mrt_id
    BY <1>2 DEF ReadMessage, mainVars, NewMessage, ReadHeader, ReadBody, ShortRead, KeepHeader,
       ParseBgp, ParsePeerIndexTable, ParseRib, ParseRibPastTable, CatchPayloadError, Return
  <2>2. CASE pc' \in {"body", "payload", "returned", "thrown"}
    <3>1. Done' = Done
      BY <2>1, <2>2 DEF Done, Handling
    <3> QED
      BY <1>0, <2>1, <3>1, OutputStays
  <2>3. CASE pc' \in {"failure", "crashed"}
    <3>1. Done' = mrt_id /\ Done = mrt_id - 1 /\ mrt_id \in Nat \ {0}
      BY <1>0, <2>1, <2>3 DEF Done, Handling
    <3> QED
      BY <1>0, <2>1, <2>3, <3>1, OutputAdvances
  <2>4. CASE pc' = "EOFException"
    BY <2>4, NextPosition DEF Position
  <2> QED
    BY <2>1, <2>2, <2>3, <2>4
<1>3. CASE Show
  <2>0. /\ pc = "returned" /\ msg.rec = mrt_id
        /\ mrt_id \in 1 .. Len(file) /\ mrt_id \in Nat \ {0}
        /\ mrt_id' = mrt_id /\ Done = mrt_id - 1
    BY <1>0, <1>3 DEF Show, Returned, Position, Handling, Done
  <2>1. CASE shown' = Append(shown, Shown(msg)) /\ pc' = "ready"
    <3>1. Complete(mrt_id)
      BY <2>0 DEF Position, Complete, TypeOK, LibTypeOK
    <3>2. MayShow(mrt_id)
      BY <1>3, <2>0, <3>1, FilterSelects DEF Show, Returned, Printable, MayShow, MustShow
    <3>3. Shown(msg) = [rec |-> mrt_id, tbl |-> TableOf(mrt_id)]
      BY <1>3, <2>0 DEF Show, Returned, Shown
    <3>4. Shown(msg) \in [rec : Nat, tbl : Nat]
      BY DEF TypeOK, LibTypeOK, Shown, Message
    <3>5. /\ Len(shown') = Len(shown) + 1
          /\ \A k \in 1 .. Len(shown) : shown'[k] = shown[k]
          /\ shown'[Len(shown) + 1] = [rec |-> mrt_id, tbl |-> TableOf(mrt_id)]
      BY <1>0, <2>1, <3>3, <3>4, AppendProperties
    <3>6. Done' = mrt_id
      BY <2>0, <2>1 DEF Done, Handling
    <3>a. \A i : MayShow(i)' <=> MayShow(i')
      BY <1>0 DEF MayShow, MustShow, Complete, EndOf, Resolvable, Selected, PastTable,
         ReadsPastTable, FirstMiss, Misses, TableFor, GoodTable
    <3>b. \A i : MustShow(i)' <=> MustShow(i')
      BY <1>0 DEF MustShow, Complete, EndOf, Resolvable, Selected, TableFor, GoodTable
    <3>c. \A i : TableOf(i)' = TableOf(i')
      BY <1>0 DEF TableOf, TableFor, GoodTable, Complete, EndOf
    <3>7. ASSUME NEW k \in 1 .. Len(shown')
          PROVE  /\ shown'[k].rec \in 1 .. mrt_id
                 /\ MayShow(shown'[k].rec)
                 /\ shown'[k].tbl = TableOf(shown'[k].rec)
      <4>1. CASE k = Len(shown) + 1
        BY <2>0, <3>2, <3>5, <4>1
      <4>2. CASE k \in 1 .. Len(shown)
        BY <2>0, <3>5, <4>2 DEF Output, ShownSoFar
      <4> QED
        BY <1>0, <3>5, <4>1, <4>2
    <3>8. \A j, k \in 1 .. Len(shown') : j < k => shown'[j].rec < shown'[k].rec
      <4> SUFFICES ASSUME NEW j \in 1 .. Len(shown'), NEW k \in 1 .. Len(shown'), j < k
                   PROVE  shown'[j].rec < shown'[k].rec
        OBVIOUS
      <4>1. j \in 1 .. Len(shown) /\ shown[j].rec \in 1 .. mrt_id - 1
        BY <1>0, <2>0, <3>5 DEF Output, ShownSoFar
      <4>2. CASE k = Len(shown) + 1
        BY <2>0, <3>5, <4>1, <4>2
      <4>3. CASE k \in 1 .. Len(shown)
        BY <3>5, <4>1, <4>3 DEF Output, ShownSoFar
      <4> QED
        BY <1>0, <3>5, <4>2, <4>3
    <3>9. \A i \in 1 .. mrt_id : MustShow(i) => \E k \in 1 .. Len(shown') : shown'[k].rec = i
      <4> SUFFICES ASSUME NEW i \in 1 .. mrt_id, MustShow(i)
                   PROVE  \E k \in 1 .. Len(shown') : shown'[k].rec = i
        OBVIOUS
      <4>1. CASE i = mrt_id
        <5>1. Len(shown) + 1 \in 1 .. Len(shown')
          BY <1>0, <3>5
        <5> QED
          BY <3>5, <4>1, <5>1
      <4>2. CASE i \in 1 .. mrt_id - 1
        <5>1. PICK k \in 1 .. Len(shown) : shown[k].rec = i
          BY <2>0, <4>2 DEF Output, NothingLostSoFar
        <5> QED
          BY <1>0, <3>5, <5>1
      <4> QED
        BY <2>0, <4>1, <4>2
    <3>10. ShownSoFar'
      BY <3>6, <3>7, <3>8, <3>a, <3>c DEF ShownSoFar
    <3>11. NothingLostSoFar'
      BY <3>6, <3>9, <3>b DEF NothingLostSoFar
    <3> QED
      BY <3>10, <3>11 DEF Output
  <2>2. CASE pc' = "crashed" /\ shown' = shown
    <3>1. Done' = mrt_id
      BY <2>0, <2>2 DEF Done, Handling
    <3> QED
      BY <1>0, <2>0, <2>2, <3>1, OutputAdvances
  <2> QED
    BY <1>3, <2>1, <2>2 DEF Show
<1>4. CASE PassOver
  <2>1. /\ pc = "returned" /\ pc' = "ready" /\ shown' = shown
        /\ mrt_id \in Nat \ {0} /\ Done = mrt_id - 1 /\ Done' = mrt_id
    BY <1>0, <1>4 DEF PassOver, mainVars, Done, Handling
  <2>2. ~MustShow(mrt_id)
    BY <1>4, <2>1, FilterSelects DEF PassOver, Returned, MustShow, Printable
  <2> QED
    BY <1>0, <2>1, <2>2, OutputAdvances
<1>5. CASE CatchMRTException
  <2>1. /\ pc = "thrown" /\ pc' = "ready" /\ shown' = shown
        /\ mrt_id \in Nat \ {0} /\ Done = mrt_id - 1 /\ Done' = mrt_id
    BY <1>0, <1>5 DEF CatchMRTException, Done, Handling
  <2>2. ~Complete(mrt_id)
    <3>1. /\ WellFormed(file) /\ FileEnd(file) \in Nat /\ avail \in Nat
          /\ mrt_id \in 1 .. Len(file)
          /\ EndOf(file[mrt_id]) \in Nat /\ EndOf(file[mrt_id]) > avail
      BY <2>1, FileFacts DEF Position, TypeOK, LibTypeOK
    <3> QED
      BY <3>1 DEF Complete
  <2>3. ~MustShow(mrt_id)
    BY <2>2 DEF MustShow
  <2> QED
    BY <1>0, <2>1, <2>3, OutputAdvances
<1>6. CASE ExitOnFailure
  <2>1. shown' = shown /\ Done' = Done /\ pc' = "exit10"
    BY <1>0, <1>6 DEF ExitOnFailure, mainVars, Done, Handling
  <2> QED
    BY <1>0, <2>1, OutputStays
<1>7. CASE UNCHANGED vars
  <2>1. shown' = shown /\ Done' = Done /\ pc' = pc
    BY <1>7 DEF vars, libVars, mainVars, Done, Handling
  <2> QED
    BY <1>0, <2>1, OutputStays
<1> QED
  BY <1>1, <1>2, <1>3, <1>4, <1>5, <1>6, <1>7 DEF Next, Stop

LEMMA OutputHolds == Spec => []Output
<1>1. Init => Output
  <2> SUFFICES ASSUME Init PROVE Output
    OBVIOUS
  <2>1. Len(shown) = 0 /\ Done = 0
    BY DEF Init, LibInit, Done, Handling
  <2> QED
    BY <2>1 DEF Output, ShownSoFar, NothingLostSoFar
<1> QED
  BY <1>1, NextOutput, PositionHolds, ReturnedHolds, PTL DEF Spec

(***************************************************************************)
(* What is printed is right: a decodable, selected record, once, in file   *)
(* order, and a RIB against the last good table before it.                 *)
(***************************************************************************)
THEOREM ShownFaithfullyHolds == Spec => []ShownFaithfully
<1>1. TypeOK /\ Output => ShownFaithfully
  <2> SUFFICES ASSUME TypeOK, Output PROVE ShownFaithfully
    OBVIOUS
  <2>1. DOMAIN shown = 1 .. Len(shown) /\ mrt_id \in Nat
    BY DEF TypeOK
  <2>2. 1 .. Done \subseteq 1 .. mrt_id
    BY <2>1 DEF Done
  <2> QED
    BY <2>1, <2>2 DEF Output, ShownSoFar, ShownFaithfully, TableOf
<1> QED
  BY <1>1, PositionHolds, OutputHolds, PTL

(***************************************************************************)
(* Nothing is lost: no bad payload, filtered record or bad table costs     *)
(* another record its place in the output.                                 *)
(***************************************************************************)
THEOREM NothingLostHolds == Spec => []NothingLost
<1>1. TypeOK /\ Position /\ Output => NothingLost
  <2> SUFFICES ASSUME TypeOK, Position, Output PROVE NothingLost
    OBVIOUS
  <2>1. /\ WellFormed(file) /\ Len(file) \in Nat /\ DOMAIN file = 1 .. Len(file)
        /\ FileEnd(file) \in Nat /\ avail \in Nat
        /\ \A i \in 1 .. Len(file) : /\ file[i].at \in Nat /\ EndOf(file[i]) \in Nat
                                     /\ EndOf(file[i]) > file[i].at
        /\ DOMAIN shown = 1 .. Len(shown) /\ mrt_id \in Nat
    BY FileFacts DEF TypeOK, LibTypeOK
  <2>2. pc \in {"ready", "ended"} =>
          \A i \in 1 .. mrt_id : MustShow(i) => \E k \in DOMAIN shown : shown[k].rec = i
    BY <2>1 DEF Output, NothingLostSoFar, Done, Handling
  <2>3. pc = "ended" => \A i \in DOMAIN file : Complete(i) => i <= mrt_id
    BY <2>1 DEF Position, Complete
  <2> QED
    BY <2>2, <2>3 DEF NothingLost
<1> QED
  BY <1>1, PositionHolds, OutputHolds, PTL

-----------------------------------------------------------------------------
(* Fifth layer: what count_error counts                                    *)

Errors ==
  /\ pc \notin {"ready", "ended"} => count_error = 0
  /\ Handling \/ pc = "thrown" => \A i \in 1 .. mrt_id - 1 : Complete(i)
  /\ pc \in {"ready", "ended"} =>
       \/ count_error = 0 /\ \A i \in 1 .. mrt_id : Complete(i)
       \/ /\ count_error = 1
          /\ pos = avail
          /\ mrt_id \in 1 .. Len(file)
          /\ file[mrt_id].at < avail
          /\ ~Complete(mrt_id)

LEMMA NextErrors ==
  TypeOK /\ Position /\ Errors /\ [Next]_vars => Errors'
<1> SUFFICES ASSUME TypeOK, Position, Errors, [Next]_vars PROVE Errors'
  OBVIOUS
<1>0. /\ UNCHANGED <<file, avail>>
      /\ mrt_id \in Nat
      /\ WellFormed(file) /\ FileEnd(file) \in Nat /\ avail \in Nat /\ pos \in Nat
      /\ \A i \in 1 .. Len(file) : EndOf(file[i]) \in Nat
  BY FileStays, FileFacts DEF TypeOK, LibTypeOK
<1>c. \A i : Complete(i)' <=> Complete(i')
  BY <1>0 DEF Complete, EndOf
\* A record is begun only where the stream goes on, which it does not after a cut.
<1>1. CASE Peek
  <2>1. CASE pos < avail /\ pc' = "header" /\ mrt_id' = mrt_id + 1
    <3>1. count_error = 0 /\ \A i \in 1 .. mrt_id : Complete(i)
      BY <1>0, <1>1, <2>1 DEF Peek, Errors
    <3>2. count_error' = 0 /\ mrt_id' - 1 = mrt_id
      BY <1>0, <1>1, <2>1, <3>1 DEF Peek
    <3> QED
      BY <1>c, <2>1, <3>1, <3>2 DEF Errors, Handling
  <2>2. CASE pos = avail /\ pc' = "ended" /\ mrt_id' = mrt_id
    BY <1>0, <1>1, <1>c, <2>2 DEF Peek, Errors, Handling
  <2> QED
    BY <1>1, <2>1, <2>2 DEF Peek
<1>2. CASE ReadMessage
  <2>1. /\ pc \in {"header", "body", "payload"}
        /\ pc' \notin {"ready", "ended"}
        /\ UNCHANGED <<mrt_id, count_error>>
    BY <1>2 DEF ReadMessage, mainVars, NewMessage, ReadHeader, ReadBody, ShortRead, KeepHeader,
       ParseBgp, ParsePeerIndexTable, ParseRib, ParseRibPastTable, CatchPayloadError, Return
  <2> QED
    BY <1>c, <2>1 DEF Errors, Handling
<1>3. CASE Show \/ PassOver
  <2>1. /\ pc = "returned" /\ pc' \in {"ready", "crashed"}
        /\ UNCHANGED <<mrt_id, count_error>>
    BY <1>3 DEF Show, PassOver, mainVars
  <2>2. mrt_id \in 1 .. Len(file) /\ Complete(mrt_id)
    BY <1>0, <2>1 DEF Position, Handling, Complete, TypeOK, LibTypeOK
  <2>3. count_error = 0 /\ \A i \in 1 .. mrt_id : Complete(i)
    <3>1. \A i \in 1 .. mrt_id : i \in 1 .. mrt_id - 1 \/ i = mrt_id
      BY <1>0
    <3> QED
      BY <2>1, <2>2, <3>1 DEF Errors, Handling
  <2> QED
    BY <1>c, <2>1, <2>3 DEF Errors, Handling
<1>4. CASE CatchMRTException
  <2>1. /\ pc = "thrown" /\ pc' = "ready" /\ count_error' = 1
        /\ UNCHANGED <<mrt_id, pos>>
    BY <1>4 DEF CatchMRTException, Errors
  <2>2. /\ mrt_id \in 1 .. Len(file) /\ file[mrt_id].at < avail
        /\ pos = avail /\ ~Complete(mrt_id)
    BY <1>0, <2>1 DEF Position, Complete
  <2> QED
    BY <1>0, <1>c, <2>1, <2>2 DEF Errors, Handling
<1>5. CASE ExitOnFailure
  BY <1>5, <1>c DEF ExitOnFailure, mainVars, Errors, Handling
<1>6. CASE UNCHANGED vars
  BY <1>6, <1>c DEF vars, libVars, mainVars, Errors, Handling
<1> QED
  BY <1>1, <1>2, <1>3, <1>4, <1>5, <1>6 DEF Next, Stop

LEMMA ErrorsHold == Spec => []Errors
<1>1. Init => Errors
  BY DEF Init, LibInit, Errors, Handling
<1> QED
  BY <1>1, NextErrors, PositionHolds, PTL DEF Spec

(***************************************************************************)
(* count_error is 1 exactly when the stream stopped inside a record: no    *)
(* payload, however corrupt, is counted.                                   *)
(***************************************************************************)
THEOREM ErrorsAreCutsHolds == Spec => []ErrorsAreCuts
<1>1. TypeOK /\ Position /\ Errors => ErrorsAreCuts
  <2> SUFFICES ASSUME TypeOK, Position, Errors PROVE ErrorsAreCuts
    OBVIOUS
  <2>0. /\ WellFormed(file) /\ Len(file) \in Nat /\ DOMAIN file = 1 .. Len(file)
        /\ FileEnd(file) \in Nat /\ avail \in Nat /\ mrt_id \in Nat
        /\ \A i \in 1 .. Len(file) : file[i].at \in Nat
    BY FileFacts DEF TypeOK, LibTypeOK
  <2>1. count_error <= 1
    BY DEF Errors
  <2>2. ASSUME pc = "ended", count_error = 0
        PROVE  \A i \in DOMAIN file : file[i].at < avail => Complete(i)
    <3> SUFFICES ASSUME NEW i \in 1 .. Len(file), file[i].at < avail
                 PROVE  Complete(i)
      BY <2>0
    <3>1. ~(i > mrt_id)
      BY <2>0, <2>2 DEF Position
    <3> QED
      BY <2>0, <2>2, <3>1 DEF Errors
  <2>3. ASSUME pc = "ended", count_error = 1
        PROVE  \E i \in DOMAIN file : file[i].at < avail /\ ~Complete(i)
    BY <2>0, <2>3 DEF Errors
  <2>4. pc = "ended" => count_error \in {0, 1}
    BY DEF Errors
  <2> QED
    BY <2>1, <2>2, <2>3, <2>4 DEF ErrorsAreCuts
<1> QED
  BY <1>1, PositionHolds, ErrorsHold, PTL

-----------------------------------------------------------------------------
(* Refinement                                                              *)

LEMMA InitRefines == Init => Abstract!LogInit
<1> SUFFICES ASSUME Init PROVE Abstract!LogInit
  OBVIOUS
<1>1. WellFormed(file)
  BY FilesAssumption DEF Init, LibInit
<1>2. /\ Len(file) \in Nat /\ DOMAIN file = 1 .. Len(file)
      /\ \A i \in 1 .. Len(file) : file[i] \in Record
  BY <1>1, FileFacts
<1>3. \A i \in 1 .. Len(file) : file[i].kind \in Abstract!LogKinds
  BY <1>2 DEF Record, Kinds, Abstract!LogKinds
<1>4. Layout(file) \in [1 .. Len(file) -> Abstract!LogKinds]
  BY <1>2, <1>3 DEF Layout, Abstract!LogKinds
<1>5. Layout(file) \in Seq(Abstract!LogKinds)
  BY <1>2, <1>4
<1>6. /\ NextTaken = 1 /\ indexTbl = 0 /\ shown = << >> /\ Halted = FALSE
  BY DEF Init, LibInit, NextTaken, NoTable, Halted
<1> QED
  BY <1>5, <1>6 DEF Abstract!LogInit

LEMMA NextRefines ==
  TypeOK /\ Position /\ Tables /\ Returned /\ [Next]_vars
    => [Abstract!LogNext]_Abstract!logVars
<1> SUFFICES ASSUME TypeOK, Position, Tables, Returned, [Next]_vars
             PROVE  [Abstract!LogNext]_Abstract!logVars
  OBVIOUS
<1> DEFINE layout == Layout(file)
           stutter == UNCHANGED <<layout, NextTaken, indexTbl, shown, Halted>>
<1>0. /\ file' = file /\ layout' = layout
      /\ Len(file) \in Nat /\ DOMAIN file = 1 .. Len(file) /\ Len(layout) = Len(file)
      /\ mrt_id \in Nat
      /\ \A i \in 1 .. Len(file) :
           layout[i] = IF file[i].kind = "PEER_INDEX_TABLE" /\ ~file[i].sound
                       THEN "OTHER" ELSE file[i].kind
  <2>1. Len(file) \in Nat /\ DOMAIN file = 1 .. Len(file) /\ file' = file /\ mrt_id \in Nat
    BY FileFacts, FileStays DEF TypeOK, LibTypeOK
  <2>2. DOMAIN layout = 1 .. Len(file)
    BY <2>1 DEF Layout
  <2>3. Len(layout) = Len(file)
    BY <2>1, <2>2
  <2> QED
    BY <2>1, <2>3 DEF Layout
<1> HIDE DEF layout
<1>s. stutter => UNCHANGED Abstract!logVars
  BY DEF Abstract!logVars, layout
\* The steps of the abstract log, each from what the loop's steps have in common.
<1>e. ASSUME ~Halted, Halted', UNCHANGED <<NextTaken, indexTbl, shown>>
      PROVE  Abstract!LogNext
  BY <1>0, <1>e DEF Abstract!LogNext, Abstract!End, layout, Halted
<1>l. ASSUME ~Halted, ~Halted', NextTaken <= Len(layout), NextTaken' = NextTaken + 1,
             UNCHANGED <<indexTbl, shown>>
      PROVE  Abstract!LogNext
  BY <1>0, <1>l DEF Abstract!LogNext, Abstract!LeaveOut, Abstract!Remaining, layout, Halted
<1>1. CASE Peek
  <2>1. CASE pos < avail /\ pc' = "header" /\ mrt_id' = mrt_id + 1
    <3>1. NextTaken' = NextTaken /\ Halted' = Halted
      BY <1>1, <2>1 DEF Peek, NextTaken, Halted
    <3>2. stutter
      BY <1>0, <1>1, <3>1 DEF Peek
    <3> QED
      BY <1>s, <3>2
  <2>2. CASE pos = avail /\ pc' = "ended" /\ mrt_id' = mrt_id
    <3>1. ~Halted /\ Halted' /\ UNCHANGED <<NextTaken, indexTbl, shown>>
      BY <1>1, <2>2 DEF Peek, NextTaken, Halted
    <3> QED
      BY <1>e, <3>1
  <2> QED
    BY <1>1, <2>1, <2>2 DEF Peek
<1>2. CASE ReadMessage /\ (ReadHeader \/ ReadBody)
  <2>1. /\ pc \in {"header", "body"}
        /\ pc' \in {"body", "payload", "thrown", "EOFException", "failure"}
        /\ UNCHANGED <<mrt_id, indexTbl, shown>>
    BY <1>2 DEF ReadMessage, mainVars, ReadHeader, ReadBody, ShortRead
  <2>2. NextTaken' = NextTaken /\ Halted' = Halted
    BY <2>1 DEF NextTaken, Halted
  <2>3. stutter
    BY <1>0, <2>1, <2>2
  <2> QED
    BY <1>s, <2>3
<1>3. CASE ReadMessage /\ ParsePeerIndexTable
  <2>1. /\ pc = "payload" /\ pc' = "returned" /\ msg'.type = "PEER_INDEX_TABLE"
        /\ indexTbl' = mrt_id /\ mrt_id \in 1 .. Len(file)
        /\ UNCHANGED <<mrt_id, shown>>
        /\ file[mrt_id].kind = "PEER_INDEX_TABLE" /\ file[mrt_id].sound
    BY <1>3 DEF ReadMessage, mainVars, ParsePeerIndexTable, Return, Position, Handling
  <2>2. NextTaken = mrt_id /\ NextTaken' = mrt_id + 1 /\ ~Halted /\ ~Halted'
    BY <2>1 DEF NextTaken, Halted
  <2>3. layout[mrt_id] = "PEER_INDEX_TABLE"
    BY <1>0, <2>1
  <2>4. Abstract!TakeTable
    BY <1>0, <2>1, <2>2, <2>3
    DEF Abstract!TakeTable, Abstract!Remaining, Halted, layout
  <2> QED
    BY <2>4 DEF Abstract!LogNext
<1>4. CASE /\ ReadMessage
           /\ KeepHeader \/ ParseBgp \/ ParseRib \/ ParseRibPastTable \/ CatchPayloadError
  <2>1. /\ pc = "payload" /\ UNCHANGED <<mrt_id, indexTbl, shown>>
        /\ \/ pc' = "crashed"
           \/ pc' = "returned" /\ msg'.type # "PEER_INDEX_TABLE"
    BY <1>4 DEF ReadMessage, mainVars, KeepHeader, ParseBgp, ParseRib, ParseRibPastTable,
       CatchPayloadError, Return, RibKinds
  <2>2. NextTaken' = NextTaken /\ ~Halted
    BY <2>1 DEF NextTaken, Halted
  <2>3. CASE pc' = "crashed"
    BY <1>e, <2>1, <2>2, <2>3 DEF Halted
  <2>4. CASE pc' = "returned"
    <3>1. stutter
      BY <1>0, <2>1, <2>2, <2>4 DEF Halted
    <3> QED
      BY <1>s, <3>1
  <2> QED
    BY <2>1, <2>3, <2>4
<1>5. CASE Show
  <2>0. /\ pc = "returned" /\ msg.type \in Visible /\ msg.rec = mrt_id
        /\ msg.type = file[mrt_id].kind /\ mrt_id \in 1 .. Len(file)
        /\ mrt_id' = mrt_id /\ indexTbl' = indexTbl
        /\ msg.tbl = TableOf(mrt_id)
    BY <1>5 DEF Show, Returned, Position, Handling
  <2>1. NextTaken = mrt_id /\ ~Halted
    BY <2>0 DEF NextTaken, Halted, Visible
  <2>2. CASE shown' = Append(shown, Shown(msg)) /\ pc' = "ready"
    <3>1. NextTaken' = mrt_id + 1 /\ ~Halted'
      BY <2>0, <2>2 DEF NextTaken, Halted
    <3>2. layout[mrt_id] \in Visible /\ layout[mrt_id] = file[mrt_id].kind
      BY <1>0, <2>0 DEF Visible
\* A RIB is no table, so the table in force is still the one before it.
    <3>3. file[mrt_id].kind \in RibKinds => TableFor(mrt_id) = indexTbl
      <4> SUFFICES ASSUME file[mrt_id].kind \in RibKinds
                   PROVE  TableFor(mrt_id) = indexTbl
        OBVIOUS
      <4>1. IsTableFor(indexTbl, mrt_id + 1) /\ ~GoodTable(mrt_id)
        BY <2>0 DEF Tables, GoodTable, RibKinds
      <4>2. \A j \in 1 .. mrt_id - 1 : j \in 1 .. (mrt_id + 1) - 1
        BY <2>0
      <4>3. \A j \in 1 .. (mrt_id + 1) - 1 : GoodTable(j) => j \in 1 .. mrt_id - 1
        BY <2>0, <4>1
      <4>4. IsTableFor(indexTbl, mrt_id)
        BY <4>1, <4>2, <4>3 DEF IsTableFor
      <4> QED
        BY <1>0, <4>4, TableForIs
    <3>4. Shown(msg) = [rec |-> mrt_id,
                        tbl |-> IF layout[mrt_id] \in {"RIB", "RIB_GENERIC"}
                                THEN indexTbl ELSE 0]
      BY <2>0, <3>2, <3>3 DEF Shown, TableOf, RibKinds, NoTable
    <3>5. Abstract!TakeAndPutOut
      BY <1>0, <2>0, <2>1, <2>2, <3>1, <3>2, <3>4
      DEF Abstract!TakeAndPutOut, Abstract!Remaining, Halted, layout, Visible
    <3> QED
      BY <3>5 DEF Abstract!LogNext
  <2>3. CASE pc' = "crashed" /\ shown' = shown
    <3>1. Halted' /\ NextTaken' = mrt_id
      BY <2>0, <2>3 DEF NextTaken, Halted
    <3> QED
      BY <1>e, <2>0, <2>1, <2>3, <3>1
  <2> QED
    BY <1>5, <2>2, <2>3 DEF Show
<1>6. CASE PassOver
  <2>0. /\ pc = "returned" /\ pc' = "ready" /\ UNCHANGED <<mrt_id, indexTbl, shown>>
        /\ mrt_id \in 1 .. Len(file)
    BY <1>6 DEF PassOver, mainVars, Position, Handling
  <2>1. ~Halted /\ ~Halted' /\ NextTaken' = mrt_id + 1
    BY <2>0 DEF Halted, NextTaken
  <2>2. CASE msg.type = "PEER_INDEX_TABLE"
    <3>1. NextTaken = mrt_id + 1
      BY <2>0, <2>2 DEF NextTaken
    <3>2. stutter
      BY <1>0, <2>0, <2>1, <3>1 DEF Halted
    <3> QED
      BY <1>s, <3>2
  <2>3. CASE msg.type # "PEER_INDEX_TABLE"
    <3>1. NextTaken = mrt_id
      BY <2>0, <2>3 DEF NextTaken
    <3> QED
      BY <1>0, <1>l, <2>0, <2>1, <3>1
  <2> QED
    BY <2>2, <2>3
<1>7. CASE CatchMRTException
  <2>0. /\ pc = "thrown" /\ pc' = "ready" /\ UNCHANGED <<mrt_id, indexTbl, shown>>
        /\ mrt_id \in 1 .. Len(file)
    BY <1>7 DEF CatchMRTException, Position
  <2>1. ~Halted /\ ~Halted' /\ NextTaken' = mrt_id + 1 /\ NextTaken = mrt_id
    BY <2>0 DEF Halted, NextTaken
  <2> QED
    BY <1>0, <1>l, <2>0, <2>1
<1>8. CASE ExitOnFailure
  <2>1. ~Halted /\ Halted' /\ UNCHANGED <<NextTaken, indexTbl, shown>>
    BY <1>8 DEF ExitOnFailure, mainVars, Halted, NextTaken
  <2> QED
    BY <1>e, <2>1
<1>9. CASE UNCHANGED vars
  <2>1. stutter
    BY <1>0, <1>9 DEF vars, libVars, mainVars, NextTaken, Halted
  <2> QED
    BY <1>s, <2>1
<1> QED
  BY <1>1, <1>2, <1>3, <1>4, <1>5, <1>6, <1>7, <1>8, <1>9
  DEF Next, ReadMessage, NewMessage, Stop

(***************************************************************************)
(* The loop implements the promise of RecordLog for every file: every step *)
(* of it is a step of the abstract log or leaves the log alone.            *)
(***************************************************************************)
THEOREM Refinement == Spec => ImplementsRecordLog
<1>1. Init => Abstract!LogInit
  BY InitRefines
<1>2. TypeOK /\ Position /\ Tables /\ Returned /\ [Next]_vars
        => [Abstract!LogNext]_Abstract!logVars
  BY NextRefines
<1> QED
  BY <1>1, <1>2, PositionHolds, TablesHold, ReturnedHolds, PTL
  DEF Spec, ImplementsRecordLog, Abstract!LogSpec

=============================================================================
