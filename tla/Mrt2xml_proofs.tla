---------------------------- MODULE Mrt2xml_proofs ----------------------------
(***************************************************************************)
(* Proofs that the loop of Mrt2xml has its safety properties for every     *)
(* header length and every set of well-formed files.                       *)
(*                                                                         *)
(* The layers are those of Bgpparser2_proofs.  The program counts no       *)
(* records, so cur takes the place of mrt_id in them, with one difference: *)
(* a header that is cut off leaves cur at the record before.               *)
(*   Position  where the stream stands while record cur is handled         *)
(*   Tables    which tables indexTbl and dumperTbl are at that point       *)
(*   Returned  what a message that came back says of its record            *)
(*   Output    what was put out so far, and what was not                   *)
(***************************************************************************)
EXTENDS Mrt2xml, SequenceTheorems, TLAPS

\* The states in which record cur is being handled.
Handling == pc \in {"body", "payload", "returned"}

Position ==
  /\ pc \in {"ready", "header"} /\ pos < avail => cur < Len(file) /\ pos = file[cur + 1].at
  /\ pc = "header" => pos < avail
  /\ pc \in {"ready", "thrown", "failure", "ended", "terminated"} /\ pos = avail =>
       \A i \in 1 .. Len(file) : i > cur => ~Complete(i)
  /\ pc \in {"thrown", "failure", "ended", "terminated"} => pos = avail
  /\ Handling => cur \in 1 .. Len(file)
  /\ pc = "body" => pos = file[cur].at + HeaderLen
  /\ pc \in {"payload", "returned"} => pos = EndOf(file[cur])
  /\ pc = "returned" => msg.rec = cur
  /\ pc # "EOFException"

\* What TableFor(i) is, without CHOOSE.
IsTableFor(t, i) ==
  \/ t = NoTable /\ \A j \in 1 .. i - 1 : ~GoodTable(j)
  \/ t \in 1 .. i - 1 /\ GoodTable(t) /\ \A j \in 1 .. i - 1 : GoodTable(j) => j <= t

Tables ==
  /\ pc \in {"body", "payload"} => IsTableFor(indexTbl, cur)
  /\ pc \in {"ready", "header", "returned", "thrown"} => IsTableFor(indexTbl, cur + 1)
  /\ pc \in {"ready", "header", "body", "payload", "thrown"} => dumperTbl = indexTbl
  /\ pc = "returned" =>
       indexTbl = IF msg.type = "PEER_INDEX_TABLE" THEN msg.rec ELSE dumperTbl

-----------------------------------------------------------------------------
(* How the records of a well-formed file lie, and the last good table     *)

\* What the layout of a file gives: types, order, and the next record's offset.
LEMMA FileFacts ==
  ASSUME NEW f, WellFormed(f)
  PROVE  /\ Len(f) \in Nat
         /\ DOMAIN f = 1 .. Len(f)
         /\ \A i \in 1 .. Len(f) : /\ f[i] \in Record
                                   /\ f[i].at \in Nat
                                   /\ f[i].len \in Nat
                                   /\ EndOf(f[i]) \in Nat
                                   /\ EndOf(f[i]) > f[i].at
         /\ \A i, j \in 1 .. Len(f) : i < j => EndOf(f[i]) <= f[j].at
         /\ FileEnd(f) \in Nat
         /\ Len(f) = 0 => FileEnd(f) = 0
         /\ Len(f) > 0 => f[1].at = 0 /\ FileEnd(f) = EndOf(f[Len(f)])
<1>1. /\ Len(f) \in Nat
      /\ DOMAIN f = 1 .. Len(f)
      /\ f \in Seq(Record)
  BY DEF WellFormed
<1>2. ASSUME NEW i \in 1 .. Len(f)
      PROVE  /\ f[i] \in Record
             /\ f[i].at \in Nat
             /\ f[i].len \in Nat
             /\ EndOf(f[i]) \in Nat
             /\ EndOf(f[i]) > f[i].at
  <2>1. f[i] \in Record
    BY <1>1
  <2>2. f[i].at \in Nat /\ f[i].len \in Nat
    BY <2>1 DEF Record
  <2> QED
    BY <2>1, <2>2, HeaderAssumption DEF EndOf
<1>3. \A i, j \in 1 .. Len(f) : i < j => EndOf(f[i]) <= f[j].at
  BY DEF WellFormed
<1>4. f = << >> <=> Len(f) = 0
  BY <1>1
<1>5. FileEnd(f) \in Nat
  BY <1>1, <1>2, <1>4 DEF FileEnd
<1> QED
  BY <1>1, <1>2, <1>3, <1>4, <1>5 DEF FileEnd, WellFormed

\* Two records of a file never start at the same offset.
LEMMA OffsetsDiffer ==
  ASSUME NEW f, WellFormed(f),
         NEW i \in 1 .. Len(f), NEW j \in 1 .. Len(f), f[i].at = f[j].at
  PROVE  i = j
<1>1. CASE i < j
  <2>1. EndOf(f[i]) <= f[j].at /\ EndOf(f[i]) > f[i].at /\ f[i].at \in Nat /\ EndOf(f[i]) \in Nat
    BY <1>1, FileFacts
  <2> QED
    BY <2>1
<1>2. CASE j < i
  <2>1. EndOf(f[j]) <= f[i].at /\ EndOf(f[j]) > f[j].at /\ f[j].at \in Nat /\ EndOf(f[j]) \in Nat
    BY <1>2, FileFacts
  <2> QED
    BY <2>1
<1> QED
  BY <1>1, <1>2, FileFacts

\* IsTableFor determines its first argument: it is TableFor.
LEMMA TableForIs ==
  ASSUME NEW i \in Nat, NEW t, IsTableFor(t, i)
  PROVE  TableFor(i) = t
<1> DEFINE tables == {j \in 1 .. i - 1 : GoodTable(j)}
<1>1. CASE t = NoTable /\ \A j \in 1 .. i - 1 : ~GoodTable(j)
  <2>1. tables = {}
    BY <1>1
  <2> QED
    BY <1>1, <2>1 DEF TableFor
<1>2. CASE t \in 1 .. i - 1 /\ GoodTable(t) /\ \A j \in 1 .. i - 1 : GoodTable(j) => j <= t
  <2>1. t \in tables /\ \A j \in tables : j <= t
    BY <1>2
  <2>2. \A u \in tables : (\A j \in tables : j <= u) => u = t
    BY <2>1
  <2>3. (CHOOSE u \in tables : \A j \in tables : j <= u) = t
    BY <2>1, <2>2
  <2>4. tables # {}
    BY <2>1
  <2> QED
    BY <2>3, <2>4 DEF TableFor
<1> QED
  BY <1>1, <1>2 DEF IsTableFor

\* Passing record i makes it the table in force if it is a good one.
LEMMA TableAdvances ==
  ASSUME NEW i \in Nat, i > 0, NEW t, IsTableFor(t, i)
  PROVE  /\ GoodTable(i) => IsTableFor(i, i + 1)
         /\ ~GoodTable(i) => IsTableFor(t, i + 1)
<1>1. \A j \in 1 .. (i + 1) - 1 : j \in 1 .. i - 1 \/ j = i
  OBVIOUS
<1>2. \A j \in 1 .. i - 1 : j \in 1 .. (i + 1) - 1 /\ j <= i
  OBVIOUS
<1>3. i \in 1 .. (i + 1) - 1 /\ i <= i
  OBVIOUS
<1> QED
  BY <1>1, <1>2, <1>3 DEF IsTableFor

-----------------------------------------------------------------------------
(* First layer: types and the position of the stream                       *)

LEMMA InitPosition == Init => TypeOK /\ Position
<1> SUFFICES ASSUME Init PROVE TypeOK /\ Position
  OBVIOUS
<1>1. WellFormed(file)
  BY FilesAssumption DEF Init, LibInit
<1>2. /\ Len(file) \in Nat
      /\ FileEnd(file) \in Nat
      /\ \A i \in 1 .. Len(file) : file[i].at \in Nat /\ EndOf(file[i]) \in Nat
                                   /\ EndOf(file[i]) > file[i].at
      /\ Len(file) = 0 => FileEnd(file) = 0
      /\ Len(file) > 0 => file[1].at = 0
  BY <1>1, FileFacts
<1>3. msg \in Message
  BY DEF Init, LibInit, NoMessage, NoTable, Message, MessageTypes
<1>4. TypeOK
  BY <1>1, <1>2, <1>3 DEF Init, LibInit, TypeOK, LibTypeOK, NoTable
<1>5. avail = 0 => \A i \in 1 .. Len(file) : ~Complete(i)
  BY <1>2 DEF Complete
<1>6. Position
  BY <1>2, <1>5 DEF Init, LibInit, Position, Handling
<1> QED
  BY <1>4, <1>6

\* Every step keeps the types and the position.
LEMMA NextPosition == TypeOK /\ Position /\ [Next]_vars => TypeOK' /\ Position'
<1> SUFFICES ASSUME TypeOK, Position, [Next]_vars PROVE TypeOK' /\ Position'
  OBVIOUS
<1> DEFINE n == Len(file)
<1>0. /\ WellFormed(file)
      /\ avail \in Nat /\ pos \in Nat /\ pos <= avail /\ avail <= FileEnd(file)
      /\ cur \in 0 .. n /\ indexTbl \in 0 .. n /\ dumperTbl \in 0 .. n
      /\ broken \in BOOLEAN
      /\ dumped \in Seq([rec : Nat, tbl : Nat])
  <2>1. FileEnd(file) \in Nat
    BY FileFacts DEF TypeOK, LibTypeOK
  <2> QED
    BY <2>1 DEF TypeOK, LibTypeOK
<1>f. /\ n \in Nat
      /\ DOMAIN file = 1 .. n
      /\ \A i \in 1 .. n : /\ file[i].at \in Nat
                           /\ file[i].len \in Nat
                           /\ EndOf(file[i]) \in Nat
                           /\ EndOf(file[i]) > file[i].at
                           /\ EndOf(file[i]) = file[i].at + HeaderLen + file[i].len
      /\ \A i, j \in 1 .. n : i < j => EndOf(file[i]) <= file[j].at
      /\ \A i \in 1 .. n - 1 : file[i + 1].at = EndOf(file[i])
      /\ FileEnd(file) \in Nat
      /\ n = 0 => FileEnd(file) = 0
      /\ n > 0 => FileEnd(file) = EndOf(file[n])
  <2>1. \A i \in 1 .. n - 1 : file[i + 1].at = EndOf(file[i])
    BY <1>0 DEF WellFormed
  <2>2. \A i \in 1 .. n : EndOf(file[i]) = file[i].at + HeaderLen + file[i].len
    BY DEF EndOf
  <2> HIDE DEF n
  <2> QED
    BY <1>0, <2>1, <2>2, FileFacts DEF n
<1>h. HeaderLen \in Nat /\ HeaderLen > 0
  BY HeaderAssumption
<1> HIDE DEF n
\* Where the stream has ended inside record i, no later record is whole.
<1>i. ASSUME NEW i \in 1 .. n, EndOf(file[i]) > avail
      PROVE  \A j \in 1 .. n : j >= i => ~Complete(j)
  <2> SUFFICES ASSUME NEW j \in 1 .. n, j >= i PROVE ~Complete(j)
    OBVIOUS
  <2>1. /\ EndOf(file[i]) \in Nat /\ EndOf(file[j]) \in Nat /\ file[j].at \in Nat
        /\ EndOf(file[j]) > file[j].at
        /\ i < j => EndOf(file[i]) <= file[j].at
    BY <1>f
  <2>2. i \in Nat /\ j \in Nat /\ (i < j \/ i = j)
    BY <1>f
  <2>3. EndOf(file[j]) > avail
    BY <1>0, <1>i, <2>1, <2>2
  <2> QED
    BY <1>0, <2>1, <2>3 DEF Complete
<1>1. CASE Peek
  <2>1. TypeOK'
    BY <1>0, <1>1 DEF Peek, TypeOK, LibTypeOK, dumpVars
  <2>2. Position'
    BY <1>0, <1>1 DEF Peek, Position, Handling, Complete, EndOf, dumpVars
  <2> QED
    BY <2>1, <2>2
<1>2. CASE ReadHeader /\ UNCHANGED dumpVars
  <2> USE DEF dumpVars
  <2>0. cur + 1 \in 1 .. n /\ pos = file[cur + 1].at /\ pos < avail
    BY <1>0, <1>2, <1>f DEF ReadHeader, Position, n
  <2>1. CASE /\ pos + HeaderLen <= avail
             /\ \E i \in DOMAIN file : file[i].at = pos /\ cur' = i
             /\ pos' = pos + HeaderLen
             /\ pc' = "body"
    <3>1. cur' = cur + 1
      <4>1. PICK i \in 1 .. n : file[i].at = pos /\ cur' = i
        BY <1>f, <2>1
      <4> QED
        BY <1>0, <2>0, <4>1, OffsetsDiffer DEF n
    <3>2. TypeOK'
      BY <1>0, <1>2, <1>h, <2>0, <2>1, <3>1 DEF ReadHeader, TypeOK, LibTypeOK, n
    <3>3. Position'
      BY <1>0, <1>2, <2>0, <2>1, <3>1 DEF ReadHeader, Position, Handling, n
    <3> QED
      BY <3>2, <3>3
  <2>2. CASE /\ pos + HeaderLen > avail
             /\ ShortRead(IF pos = avail THEN "EOFException" ELSE "thrown")
             /\ UNCHANGED cur
    <3>1. pos' = avail /\ pc' \in {"thrown", "failure"}
      BY <1>0, <2>0, <2>2 DEF ShortRead
    <3>2. TypeOK'
      BY <1>0, <1>2, <2>2, <3>1 DEF ReadHeader, TypeOK, LibTypeOK
    <3>3. EndOf(file[cur + 1]) > avail
      <4>1. /\ EndOf(file[cur + 1]) = file[cur + 1].at + HeaderLen + file[cur + 1].len
            /\ file[cur + 1].at \in Nat /\ file[cur + 1].len \in Nat
        BY <1>f, <2>0
      <4>2. avail \in Nat /\ file[cur + 1].at + HeaderLen > avail
        BY <1>0, <2>0, <2>2 DEF TypeOK, LibTypeOK
      <4>3. \A a, h, l, v \in Nat : a + h > v => a + h + l > v
        OBVIOUS
      <4> QED
        BY <1>h, <4>1, <4>2, <4>3
    <3>4. \A i \in 1 .. n : i > cur => ~Complete(i)
      BY <1>0, <1>f, <1>i, <2>0, <3>3
    <3>5. Position'
      BY <1>0, <1>2, <2>2, <3>1, <3>4 DEF ReadHeader, Position, Handling, Complete, EndOf, n
    <3> QED
      BY <3>2, <3>5
  <2> QED
    BY <1>2, <2>1, <2>2 DEF ReadHeader
<1>3. CASE ReadBody /\ UNCHANGED dumpVars
  <2> USE DEF dumpVars
  <2>0. cur \in 1 .. n /\ BodyEnd(cur) = EndOf(file[cur])
    BY <1>0, <1>3, <1>f, <1>h DEF ReadBody, Position, Handling, BodyEnd, n
  <2>1. CASE BodyEnd(cur) <= avail /\ pos' = BodyEnd(cur) /\ pc' = "payload"
    <3>1. TypeOK'
      BY <1>0, <1>3, <1>f, <2>0, <2>1 DEF ReadBody, TypeOK, LibTypeOK, n
    <3>2. Position'
      BY <1>0, <1>3, <2>0, <2>1 DEF ReadBody, Position, Handling, EndOf, n
    <3> QED
      BY <3>1, <3>2
  <2>2. CASE BodyEnd(cur) > avail /\ ShortRead("thrown")
    <3>1. pos' = avail /\ pc' \in {"thrown", "failure"}
      BY <2>2 DEF ShortRead
    <3>2. TypeOK'
      BY <1>0, <1>3, <3>1 DEF ReadBody, TypeOK, LibTypeOK
    <3>3. \A i \in 1 .. n : i > cur => ~Complete(i)
      BY <1>0, <1>f, <1>i, <2>0, <2>2
    <3>4. Position'
      BY <1>0, <1>3, <3>1, <3>3 DEF ReadBody, Position, Handling, Complete, EndOf, n
    <3> QED
      BY <3>2, <3>4
  <2> QED
    BY <1>3, <2>1, <2>2 DEF ReadBody
\* Parsing moves neither the stream nor cur.
<1>4. ASSUME pc = "payload", pc' \in {"returned", "crashed"}, indexTbl' \in {indexTbl, cur},
             msg' \in Message, pc' = "returned" => msg'.rec = cur,
             UNCHANGED <<file, avail, broken, pos, cur, dumpVars>>
      PROVE  TypeOK' /\ Position'
  <2>1. TypeOK'
    BY <1>0, <1>4 DEF TypeOK, LibTypeOK, dumpVars
  <2>2. Position'
    BY <1>0, <1>4 DEF Position, Handling, EndOf, dumpVars
  <2> QED
    BY <2>1, <2>2
<1>5. ASSUME NEW t \in MessageTypes, Return(t)
      PROVE  msg' \in Message /\ msg'.rec = cur /\ pc' = "returned"
  BY <1>0, <1>5, <1>f DEF Return, Message, NoTable, n
<1>6. CASE /\ KeepHeader \/ ParseBgp \/ ParsePeerIndexTable \/ ParseRib \/ CatchPayloadError
           /\ UNCHANGED dumpVars
  <2>1. /\ pc = "payload" /\ indexTbl' \in {indexTbl, cur}
        /\ UNCHANGED <<file, avail, broken, pos, cur, dumpVars>>
    BY <1>6 DEF KeepHeader, ParseBgp, ParsePeerIndexTable, ParseRib, CatchPayloadError
  <2>2. \E t \in MessageTypes : Return(t)
    BY <1>6 DEF KeepHeader, ParseBgp, ParsePeerIndexTable, ParseRib, CatchPayloadError,
       MessageTypes, Kinds, RibKinds
  <2> QED
    BY <1>4, <1>5, <2>1, <2>2
<1>7. CASE ParseRibPastTable /\ UNCHANGED dumpVars
  <2>1. /\ pc = "payload" /\ indexTbl' = indexTbl
        /\ UNCHANGED <<file, avail, broken, pos, cur, dumpVars>>
    BY <1>7 DEF ParseRibPastTable
  <2>2. CASE pc' = "crashed" /\ msg' = msg
    BY <1>4, <2>1, <2>2 DEF TypeOK, LibTypeOK
  <2>3. CASE \E t \in MessageTypes : Return(t)
    BY <1>4, <1>5, <2>1, <2>3
  <2> QED
    BY <1>7, <2>2, <2>3 DEF ParseRibPastTable, MessageTypes, Kinds, RibKinds
\* A message is dealt with: the stream stands at the end of its record.
<1>8. ASSUME pc = "returned", pc' \in {"ready", "crashed"},
             UNCHANGED <<file, avail, broken, pos, cur, indexTbl, msg, flag_bgpdump>>,
             dumperTbl' \in {dumperTbl, msg.rec},
             dumped' \in Seq([rec : Nat, tbl : Nat])
      PROVE  TypeOK' /\ Position'
  <2>1. cur \in 1 .. n /\ pos = EndOf(file[cur]) /\ msg.rec = cur
    BY <1>8 DEF Position, Handling, n
  <2>2. TypeOK'
    BY <1>0, <1>8, <1>f, <2>1 DEF TypeOK, LibTypeOK, n
  <2>3. pos < avail => cur < n /\ pos = file[cur + 1].at
    <3>1. cur = n => pos >= avail
      BY <1>0, <1>f, <2>1
    <3>2. cur \in 1 .. n - 1 => pos = file[cur + 1].at
      BY <1>f, <2>1
    <3> QED
      BY <1>0, <1>f, <2>1, <3>1, <3>2
  <2>4. \A i \in 1 .. n : i > cur => EndOf(file[i]) > pos
    <3>1. SUFFICES ASSUME NEW i \in 1 .. n, i > cur PROVE EndOf(file[i]) > pos
      OBVIOUS
    <3>2. EndOf(file[cur]) <= file[i].at /\ file[i].at < EndOf(file[i])
      <4>1. cur < i
        BY <1>f, <2>1, <3>1
      <4> QED
        BY <1>f, <2>1, <3>1, <4>1
    <3>3. /\ pos = EndOf(file[cur]) /\ pos \in Nat
          /\ file[i].at \in Nat /\ EndOf(file[i]) \in Nat
      BY <1>f, <2>1, <3>1
    <3> QED
      BY <3>2, <3>3
  <2>5. pos = avail => \A i \in 1 .. n : i > cur => ~Complete(i)
    BY <1>0, <1>f, <2>4 DEF Complete
  <2>6. Position'
    BY <1>8, <2>3, <2>5 DEF Position, Handling, Complete, EndOf, n
  <2> QED
    BY <2>2, <2>6
\* What the dumpers put out is a record and a table.
<1>9. ASSUME NEW t \in Nat
      PROVE  Append(dumped, [rec |-> msg.rec, tbl |-> t]) \in Seq([rec : Nat, tbl : Nat])
  <2>1. [rec |-> msg.rec, tbl |-> t] \in [rec : Nat, tbl : Nat]
    BY <1>9 DEF TypeOK, LibTypeOK, Message
  <2> QED
    BY <1>0, <2>1, AppendProperties
<1>10. CASE DumpMessage
  <2>1. dumped' \in Seq([rec : Nat, tbl : Nat])
    BY <1>0, <1>9, <1>10 DEF DumpMessage, NoTable
  <2> QED
    BY <1>8, <1>10, <2>1 DEF DumpMessage
<1>11. CASE SetPeerIndexTbl
  BY <1>0, <1>8, <1>11 DEF SetPeerIndexTbl
<1>12. CASE DumpRib
  <2>1. dumperTbl \in Nat
    BY <1>0, <1>f
  <2>2. dumped' \in Seq([rec : Nat, tbl : Nat])
    BY <1>0, <1>9, <1>12, <2>1 DEF DumpRib
  <2> QED
    BY <1>8, <1>12, <2>2 DEF DumpRib
<1>13. CASE Undefined
  BY <1>0, <1>8, <1>13 DEF Undefined, dumpVars
<1>14. CASE CatchBGPParserError \/ Terminate
  <2>1. TypeOK'
    BY <1>0, <1>14 DEF CatchBGPParserError, Terminate, TypeOK, LibTypeOK, dumpVars
  <2>2. Position'
    BY <1>0, <1>14 DEF CatchBGPParserError, Terminate, Position, Handling, Complete, EndOf, dumpVars
  <2> QED
    BY <2>1, <2>2
<1>15. CASE UNCHANGED vars
  <2>1. TypeOK'
    BY <1>15 DEF TypeOK, LibTypeOK, vars, libVars, dumpVars
  <2>2. Position'
    BY <1>15 DEF Position, Handling, Complete, EndOf, vars, libVars, dumpVars
  <2> QED
    BY <2>1, <2>2
<1> QED
  BY <1>1, <1>2, <1>3, <1>6, <1>7, <1>10, <1>11, <1>12, <1>13, <1>14, <1>15
  DEF Next, ReadMessage, NewMessage, Stop

LEMMA PositionHolds == Spec => [](TypeOK /\ Position)
<1>1. Init => TypeOK /\ Position
  BY InitPosition
<1>2. TypeOK /\ Position /\ [Next]_vars => (TypeOK /\ Position)'
  BY NextPosition
<1> QED
  BY <1>1, <1>2, PTL DEF Spec

(***************************************************************************)
(* Type correctness: cur and both tables stay within the file, and pos     *)
(* never passes what the stream delivers.                                  *)
(***************************************************************************)
THEOREM TypeCorrect == Spec => []TypeOK
BY PositionHolds, PTL

-----------------------------------------------------------------------------
(* Second layer: the copies of the peer index table in force               *)

\* What every step of the loop leaves alone.
LEMMA FileStays == [Next]_vars => UNCHANGED <<file, avail>>
<1> SUFFICES ASSUME [Next]_vars PROVE UNCHANGED <<file, avail>>
  OBVIOUS
<1>1. CASE ReadMessage
  BY <1>1 DEF ReadMessage, NewMessage, ReadHeader, ReadBody, KeepHeader, ParseBgp,
     ParsePeerIndexTable, ParseRib, ParseRibPastTable, CatchPayloadError
<1>2. CASE \/ Peek \/ DumpMessage \/ SetPeerIndexTbl \/ DumpRib \/ Undefined
           \/ CatchBGPParserError \/ Terminate
  BY <1>2 DEF Peek, DumpMessage, SetPeerIndexTbl, DumpRib, Undefined, CatchBGPParserError, Terminate
<1>3. CASE UNCHANGED vars
  BY <1>3 DEF vars, libVars
<1> QED
  BY <1>1, <1>2, <1>3 DEF Next, Stop

LEMMA NextTables == TypeOK /\ Position /\ Tables /\ [Next]_vars => Tables'
<1> SUFFICES ASSUME TypeOK, Position, Tables, [Next]_vars PROVE Tables'
  OBVIOUS
<1>0. /\ UNCHANGED <<file, avail>>
      /\ cur \in Nat /\ WellFormed(file) /\ Len(file) \in Nat /\ cur <= Len(file)
  BY FileStays, FileFacts DEF TypeOK, LibTypeOK
<1>s. \A t, i : IsTableFor(t, i)' <=> IsTableFor(t', i')
  BY <1>0 DEF IsTableFor, GoodTable, Complete, EndOf, NoTable
<1>1. CASE Peek
  BY <1>0, <1>1 DEF Peek, dumpVars, Tables, IsTableFor, GoodTable, Complete, EndOf, NoTable
<1>2. CASE ReadMessage /\ ReadHeader
  <2>1. /\ pc = "header" /\ UNCHANGED <<file, avail, indexTbl, dumperTbl>>
        /\ \/ cur' = cur + 1 /\ pc' = "body"
           \/ cur' = cur /\ pc' \in {"thrown", "failure", "EOFException"}
    <3>1. CASE \E i \in DOMAIN file : file[i].at = pos /\ cur' = i
      <4>1. PICK i \in 1 .. Len(file) : file[i].at = pos /\ cur' = i
        BY <1>0, <3>1, FileFacts
      <4>2. cur + 1 \in 1 .. Len(file) /\ file[cur + 1].at = pos
        BY <1>0, <1>2 DEF ReadHeader, Position
      <4>3. i = cur + 1
        BY <1>0, <4>1, <4>2, OffsetsDiffer
      <4> QED
        BY <1>2, <4>1, <4>3 DEF ReadMessage, dumpVars, ReadHeader, ShortRead
    <3> QED
      BY <1>2, <3>1 DEF ReadMessage, dumpVars, ReadHeader, ShortRead
  <2> QED
    BY <2>1 DEF Tables, IsTableFor, GoodTable, Complete, EndOf
\* A record that is passed without changing the table is no good table.
<1>p. ASSUME ~GoodTable(cur), IsTableFor(indexTbl, cur), Handling
      PROVE  IsTableFor(indexTbl, cur + 1)
  <2>1. cur > 0
    BY <1>p DEF Position
  <2> QED
    BY <1>0, <1>p, <2>1, TableAdvances
<1>3. CASE ReadMessage /\ ReadBody
  <2>0. /\ pc = "body" /\ Handling /\ UNCHANGED <<file, avail, cur, indexTbl, dumperTbl>>
        /\ pc' \in {"payload", "thrown", "failure"}
    BY <1>3 DEF ReadMessage, dumpVars, ReadBody, ShortRead, Handling
  <2>1. CASE pc' = "thrown"
    <3>1. /\ cur \in 1 .. Len(file) /\ file[cur].at \in Nat /\ file[cur].len \in Nat
          /\ EndOf(file[cur]) \in Nat
      BY <1>0, <2>0, FileFacts DEF Position
    <3>2. avail \in Nat /\ HeaderLen \in Nat
      BY <1>0, FileFacts, HeaderAssumption DEF TypeOK, LibTypeOK
    <3>3. pos + file[cur].len > avail /\ pos = file[cur].at + HeaderLen
      BY <1>3, <2>0, <2>1 DEF ReadMessage, ReadBody, BodyEnd, Position
    <3>4. ~GoodTable(cur)
      BY <3>1, <3>2, <3>3 DEF GoodTable, Complete, EndOf
    <3>5. IsTableFor(indexTbl, cur + 1)
      BY <1>p, <2>0, <3>4 DEF Tables
    <3> QED
      BY <2>0, <2>1, <3>5 DEF Tables, IsTableFor, GoodTable, Complete, EndOf
  <2>2. CASE pc' \in {"payload", "failure"}
    BY <2>0, <2>2 DEF Tables, IsTableFor, GoodTable, Complete, EndOf
  <2> QED
    BY <2>0, <2>1, <2>2
<1>4. CASE ReadMessage /\ ParsePeerIndexTable
  <2>1. /\ pc = "payload" /\ pc' = "returned" /\ indexTbl' = cur
        /\ msg'.type = "PEER_INDEX_TABLE" /\ msg'.rec = cur
        /\ UNCHANGED <<file, avail, cur, dumperTbl>>
    BY <1>4 DEF ReadMessage, dumpVars, ParsePeerIndexTable, Return
  <2>2. cur \in 1 .. Len(file) /\ Complete(cur)
    BY <2>1 DEF Position, Handling, Complete, TypeOK, LibTypeOK
  <2>3. GoodTable(cur) /\ IsTableFor(indexTbl, cur)
    BY <1>4, <2>1, <2>2 DEF ParsePeerIndexTable, GoodTable, Tables
  <2>4. IsTableFor(cur, cur + 1)
    BY <1>0, <2>2, <2>3, TableAdvances
  <2> QED
    BY <2>1, <2>4 DEF Tables, IsTableFor, GoodTable, Complete, EndOf
<1>5. CASE /\ ReadMessage
           /\ KeepHeader \/ ParseBgp \/ ParseRib \/ ParseRibPastTable \/ CatchPayloadError
  <2>1. /\ pc = "payload" /\ Handling
        /\ \/ pc' = "crashed"
           \/ pc' = "returned" /\ msg'.type # "PEER_INDEX_TABLE"
        /\ UNCHANGED <<file, avail, cur, indexTbl, dumperTbl>>
    BY <1>5 DEF ReadMessage, dumpVars, KeepHeader, ParseBgp, ParseRib, ParseRibPastTable,
       CatchPayloadError, Return, RibKinds, Handling
  <2>2. ~GoodTable(cur)
    BY <1>5 DEF KeepHeader, ParseBgp, ParseRib, ParseRibPastTable,
       CatchPayloadError, PayloadThrows, GoodTable, RibKinds
  <2>3. IsTableFor(indexTbl, cur + 1)
    BY <1>p, <2>1, <2>2 DEF Tables
  <2> QED
    BY <2>1, <2>3 DEF Tables, IsTableFor, GoodTable, Complete, EndOf
\* A message is dealt with: the dumper's table is the library's again.
<1>6. CASE DumpMessage \/ SetPeerIndexTbl \/ DumpRib \/ Undefined
  <2>1. /\ pc = "returned" /\ pc' \in {"ready", "crashed"}
        /\ UNCHANGED <<file, avail, cur, indexTbl>>
        /\ dumperTbl' = IF msg.type = "PEER_INDEX_TABLE" THEN msg.rec ELSE dumperTbl
    BY <1>6 DEF DumpMessage, SetPeerIndexTbl, DumpRib, Undefined, dumpVars
  <2> QED
    BY <2>1 DEF Tables, IsTableFor, GoodTable, Complete, EndOf
<1>7. CASE CatchBGPParserError \/ Terminate
  BY <1>7 DEF CatchBGPParserError, Terminate, dumpVars, Position, Tables, IsTableFor, GoodTable,
              Complete, EndOf
<1>8. CASE UNCHANGED vars
  BY <1>8 DEF vars, libVars, dumpVars, Tables, IsTableFor, GoodTable, Complete, EndOf
<1> QED
  BY <1>1, <1>2, <1>3, <1>4, <1>5, <1>6, <1>7, <1>8 DEF Next, ReadMessage, NewMessage, Stop

LEMMA TablesHold == Spec => []Tables
<1>1. Init => Tables
  BY DEF Init, LibInit, Tables, IsTableFor
<1> QED
  BY <1>1, NextTables, PositionHolds, PTL DEF Spec

-----------------------------------------------------------------------------
(* Third layer: what a returned message says of its record                 *)

\* The types the loop has a dumper for.
Dumpable == {"RIB", "TABLE_DUMP", "BGP4MP"}

Returned ==
  pc = "returned" =>
    /\ msg.type \in Dumpable => msg.type = file[cur].kind /\ MayDump(cur)
    /\ msg.type \notin Dumpable => ~MustDump(cur)
    /\ msg.type \in RibKinds => msg.tbl # NoTable /\ msg.tbl = indexTbl
    /\ msg.type = "PEER_INDEX_TABLE" => file[cur].kind = "PEER_INDEX_TABLE" /\ file[cur].sound

LEMMA NextReturned ==
  TypeOK /\ Position /\ Tables /\ Returned /\ [Next]_vars => Returned'
<1> SUFFICES ASSUME TypeOK, Position, Tables, Returned, [Next]_vars, pc' = "returned"
             PROVE  Returned'
  BY DEF Returned
<1>0. UNCHANGED <<file, avail>>
  BY FileStays
<1>s. \A i : MayDump(i)' = MayDump(i') /\ MustDump(i)' = MustDump(i')
  BY <1>0 DEF MayDump, MustDump, InTable, TableFor, GoodTable, Complete, EndOf,
     ReadsPastTable, FirstMiss, Misses
<1>1. CASE pc = "payload" /\ ReadMessage
  <2>0. /\ cur \in 1 .. Len(file) /\ cur \in Nat
        /\ Complete(cur)
        /\ indexTbl = TableFor(cur)
    <3>1. cur \in 1 .. Len(file) /\ cur \in Nat /\ Complete(cur)
      BY <1>1 DEF Position, Handling, Complete, TypeOK, LibTypeOK
    <3>2. indexTbl = TableFor(cur)
      BY <1>1, <3>1, TableForIs DEF Tables
    <3> QED
      BY <3>1, <3>2
  <2>1. ASSUME NEW t \in MessageTypes, Return(t), cur' = cur,
               t \in Dumpable => t = file[cur].kind /\ MayDump(cur),
               t \notin Dumpable => ~MustDump(cur),
               t \in RibKinds => indexTbl # NoTable /\ indexTbl' = indexTbl,
               t = "PEER_INDEX_TABLE" => file[cur].kind = "PEER_INDEX_TABLE" /\ file[cur].sound
        PROVE  Returned'
    <3>1. msg'.type = t /\ msg'.tbl = IF t \in RibKinds THEN indexTbl ELSE NoTable
      BY <2>1 DEF Return
    <3>2. MayDump(cur)' = MayDump(cur) /\ MustDump(cur)' = MustDump(cur)
          /\ file[cur]' = file[cur]
      BY <1>0, <1>s, <2>1
    <3>3. NoTable' = NoTable
      BY DEF NoTable
    <3> QED
      BY <2>1, <3>1, <3>2, <3>3 DEF Returned
  <2>2. CASE KeepHeader
    BY <2>1, <2>2 DEF KeepHeader, MessageTypes, Dumpable, RibKinds, MustDump
  <2>3. CASE ParseBgp
    <3>1. MayDump(cur)
      BY <2>0, <2>3 DEF ParseBgp, MayDump, MustDump
    <3> QED
      BY <2>1, <2>3, <3>1 DEF ParseBgp, MessageTypes, Kinds, Dumpable, RibKinds
  <2>4. CASE ParsePeerIndexTable
    BY <2>1, <2>4 DEF ParsePeerIndexTable, MessageTypes, Kinds, Dumpable, RibKinds, MustDump
  <2>5. CASE ParseRib
    <3>1. file[cur].kind = "RIB" => MayDump(cur)
      BY <2>0, <2>5 DEF ParseRib, MayDump, MustDump, InTable
    <3> QED
      BY <2>1, <2>5, <3>1 DEF ParseRib, MessageTypes, Kinds, Dumpable, RibKinds, MustDump
  <2>6. CASE ParseRibPastTable
    <3>1. file[cur].kind = "RIB" => MayDump(cur)
      BY <2>0, <2>6 DEF ParseRibPastTable, MayDump
    <3>2. ~MustDump(cur)
      BY <2>0, <2>6 DEF ParseRibPastTable, ReadsPastTable, MustDump, InTable, RibKinds
    <3> QED
      BY <1>1, <2>1, <2>6, <3>1, <3>2
      DEF ParseRibPastTable, MessageTypes, Kinds, Dumpable, RibKinds
  <2>7. CASE CatchPayloadError
\* Refused by getPeer is a miss; the rest of the causes are no sound record or no table.
    <3>1. ~MustDump(cur)
      BY <2>0, <2>7 DEF CatchPayloadError, PayloadThrows, RefusedByGetPeer, MustDump, InTable,
         RibKinds
    <3> QED
      BY <2>1, <2>7, <3>1 DEF CatchPayloadError, MessageTypes, Dumpable, RibKinds
  <2> QED
    BY <1>1, <2>2, <2>3, <2>4, <2>5, <2>6, <2>7
    DEF ReadMessage, NewMessage, ReadHeader, ReadBody
<1>2. CASE ReadMessage /\ (ReadHeader \/ ReadBody)
  BY <1>2 DEF ReadHeader, ReadBody, ShortRead
<1>3. CASE \/ Peek \/ DumpMessage \/ SetPeerIndexTbl \/ DumpRib \/ Undefined
           \/ CatchBGPParserError \/ Terminate
  BY <1>3 DEF Peek, DumpMessage, SetPeerIndexTbl, DumpRib, Undefined, CatchBGPParserError, Terminate
<1>4. CASE UNCHANGED vars
  <2>1. /\ msg' = msg /\ cur' = cur /\ indexTbl' = indexTbl /\ pc = "returned"
        /\ MayDump(cur)' = MayDump(cur) /\ MustDump(cur)' = MustDump(cur)
        /\ NoTable' = NoTable
    BY <1>4, <1>s DEF vars, libVars, NoTable
  <2> QED
    BY <1>0, <2>1 DEF Returned
<1> QED
  BY <1>1, <1>2, <1>3, <1>4
  DEF Next, ReadMessage, NewMessage, Stop, KeepHeader, ParseBgp, ParsePeerIndexTable,
      ParseRib, ParseRibPastTable, CatchPayloadError

LEMMA ReturnedHolds == Spec => []Returned
<1>1. Init => Returned
  BY DEF Init, LibInit, Returned
<1> QED
  BY <1>1, NextReturned, PositionHolds, TablesHold, PTL DEF Spec

(***************************************************************************)
(* The library's table, the message's and the dumper's are the same one    *)
(* when a RIB is dumped, however tables and bad payloads alternate.        *)
(***************************************************************************)
THEOREM TablesAgreeHolds == Spec => []TablesAgree
<1>1. Tables /\ Returned => TablesAgree
  BY DEF Tables, Returned, TablesAgree, RibKinds
<1> QED
  BY <1>1, TablesHold, ReturnedHolds, PTL

-----------------------------------------------------------------------------
(* Fourth layer: what was put out, and what was not                        *)

\* The records that were dealt with: the one being handled is not yet among them.
Done == IF Handling THEN cur - 1 ELSE cur

\* The table a record is dumped against.
TableOf(i) == IF file[i].kind = "RIB" THEN TableFor(i) ELSE NoTable

DumpedSoFar ==
  /\ \A k \in 1 .. Len(dumped) : /\ dumped[k].rec \in 1 .. Done
                                 /\ MayDump(dumped[k].rec)
                                 /\ dumped[k].tbl = TableOf(dumped[k].rec)
  /\ \A j, k \in 1 .. Len(dumped) : j < k => dumped[j].rec < dumped[k].rec

NothingLostSoFar ==
  pc # "crashed" =>
    \A i \in 1 .. Done : MustDump(i) => \E k \in 1 .. Len(dumped) : dumped[k].rec = i

Output == DumpedSoFar /\ NothingLostSoFar

\* What Output says of single records depends on the file alone.
LEMMA RecordsStay ==
  ASSUME UNCHANGED <<file, avail>>
  PROVE  \A i : /\ MayDump(i)' <=> MayDump(i')
                /\ MustDump(i)' <=> MustDump(i')
                /\ TableOf(i)' = TableOf(i')
BY DEF MayDump, MustDump, InTable, TableOf, TableFor, GoodTable, Complete, EndOf,
   ReadsPastTable, FirstMiss, Misses

\* Nothing but what is put out changes what Output says, as long as Done stays.
LEMMA OutputStays ==
  ASSUME Output, UNCHANGED <<file, avail, dumped>>, Done' = Done,
         \/ pc' = "crashed"
         \/ pc # "crashed"
  PROVE  Output'
<1>1. DumpedSoFar'
  BY RecordsStay DEF Output, DumpedSoFar
<1>2. NothingLostSoFar'
  BY RecordsStay DEF Output, NothingLostSoFar
<1> QED
  BY <1>1, <1>2 DEF Output

\* Passing a record without dumping it is right if it did not have to be dumped.
LEMMA OutputAdvances ==
  ASSUME Output, UNCHANGED <<file, avail, dumped>>, cur \in Nat \ {0},
         Done = cur - 1, Done' = cur,
         ~MustDump(cur) \/ pc' = "crashed",
         pc # "crashed"
  PROVE  Output'
<1>1. \A i \in 1 .. cur : i \in 1 .. cur - 1 \/ i = cur
  OBVIOUS
<1>2. 1 .. cur - 1 \subseteq 1 .. cur
  OBVIOUS
<1>3. DumpedSoFar'
  BY <1>2, RecordsStay DEF Output, DumpedSoFar
<1>4. NothingLostSoFar'
  BY <1>1, RecordsStay DEF Output, NothingLostSoFar
<1> QED
  BY <1>3, <1>4 DEF Output

\* Putting out the record being handled is right if it may be dumped.
LEMMA OutputGrows ==
  ASSUME TypeOK, Output, UNCHANGED <<file, avail>>, cur \in Nat \ {0},
         Done = cur - 1, Done' = cur, pc = "returned",
         MayDump(cur), Append(dumped, [rec |-> cur, tbl |-> TableOf(cur)])
                         \in Seq([rec : Nat, tbl : Nat]),
         dumped' = Append(dumped, [rec |-> cur, tbl |-> TableOf(cur)])
  PROVE  Output'
<1>1. dumped \in Seq([rec : Nat, tbl : Nat]) /\ Len(dumped) \in Nat
  BY DEF TypeOK
<1>2. TableOf(cur) \in Nat
  <2>1. dumped' \in Seq([rec : Nat, tbl : Nat])
    OBVIOUS
  <2>2. /\ Len(dumped') = Len(dumped) + 1
        /\ dumped'[Len(dumped) + 1] = [rec |-> cur, tbl |-> TableOf(cur)]
    BY <1>1
  <2>3. Len(dumped) + 1 \in 1 .. Len(dumped')
    BY <1>1, <2>2
  <2>4. dumped'[Len(dumped) + 1] \in [rec : Nat, tbl : Nat]
    BY <2>1, <2>3
  <2> QED
    BY <2>2, <2>4
<1>3. /\ Len(dumped') = Len(dumped) + 1
      /\ \A k \in 1 .. Len(dumped) : dumped'[k] = dumped[k]
      /\ dumped'[Len(dumped) + 1] = [rec |-> cur, tbl |-> TableOf(cur)]
  <2>1. [rec |-> cur, tbl |-> TableOf(cur)] \in [rec : Nat, tbl : Nat]
    BY <1>2
  <2> QED
    BY <1>1, <2>1, AppendProperties
<1>4. ASSUME NEW k \in 1 .. Len(dumped')
      PROVE  /\ dumped'[k].rec \in 1 .. cur
             /\ MayDump(dumped'[k].rec)
             /\ dumped'[k].tbl = TableOf(dumped'[k].rec)
  <2>1. CASE k = Len(dumped) + 1
    BY <1>3, <2>1
  <2>2. CASE k \in 1 .. Len(dumped)
    BY <1>3, <2>2 DEF Output, DumpedSoFar
  <2> QED
    BY <1>1, <1>3, <2>1, <2>2
<1>5. ASSUME NEW j \in 1 .. Len(dumped'), NEW k \in 1 .. Len(dumped'), j < k
      PROVE  dumped'[j].rec < dumped'[k].rec
  <2>1. j \in 1 .. Len(dumped) /\ dumped[j].rec \in 1 .. cur - 1
    BY <1>1, <1>3, <1>5 DEF Output, DumpedSoFar
  <2>2. CASE k = Len(dumped) + 1
    BY <1>3, <2>1, <2>2
  <2>3. CASE k \in 1 .. Len(dumped)
    BY <1>3, <1>5, <2>1, <2>3 DEF Output, DumpedSoFar
  <2> QED
    BY <1>1, <1>3, <2>2, <2>3
<1>6. ASSUME NEW i \in 1 .. cur, MustDump(i)
      PROVE  \E k \in 1 .. Len(dumped') : dumped'[k].rec = i
  <2>1. CASE i = cur
    <3>1. Len(dumped) + 1 \in 1 .. Len(dumped')
      BY <1>1, <1>3
    <3> QED
      BY <1>3, <2>1, <3>1
  <2>2. CASE i \in 1 .. cur - 1
    <3>1. PICK k \in 1 .. Len(dumped) : dumped[k].rec = i
      BY <1>6, <2>2 DEF Output, NothingLostSoFar
    <3>2. k \in 1 .. Len(dumped')
      BY <1>1, <1>3
    <3>3. dumped'[k].rec = i
      BY <1>3, <3>1
    <3> QED
      BY <3>2, <3>3
  <2> QED
    BY <2>1, <2>2
<1>7. DumpedSoFar'
  BY <1>4, <1>5, RecordsStay DEF DumpedSoFar
<1>8. NothingLostSoFar'
  BY <1>6, RecordsStay DEF NothingLostSoFar
<1> QED
  BY <1>7, <1>8 DEF Output

LEMMA NextOutput ==
  TypeOK /\ Position /\ Tables /\ Returned /\ Output /\ [Next]_vars => Output'
<1> SUFFICES ASSUME TypeOK, Position, Tables, Returned, Output, [Next]_vars PROVE Output'
  OBVIOUS
<1>0. /\ UNCHANGED <<file, avail>>
      /\ cur \in Nat
      /\ Handling => cur \in 1 .. Len(file) /\ cur \in Nat \ {0}
      /\ (TypeOK /\ Position)'
  BY FileStays, NextPosition DEF TypeOK, LibTypeOK, Position
<1>1. CASE Peek
  <2>1. dumped' = dumped /\ Done' = Done /\ pc = "ready"
    BY <1>1 DEF Peek, dumpVars, Done, Handling
  <2> QED
    BY <1>0, <2>1, OutputStays
<1>2. CASE ReadMessage /\ ReadHeader
  <2>1. /\ pc = "header" /\ dumped' = dumped
        /\ \/ pc' = "body" /\ \E i \in DOMAIN file : file[i].at = pos /\ cur' = i
           \/ cur' = cur /\ pc' \in {"thrown", "failure", "EOFException"}
    BY <1>2 DEF ReadMessage, dumpVars, ReadHeader, ShortRead
  <2>2. pc' = "body" => cur' = cur + 1
    <3> SUFFICES ASSUME pc' = "body" PROVE cur' = cur + 1
      OBVIOUS
    <3>1. WellFormed(file) /\ Len(file) \in Nat /\ DOMAIN file = 1 .. Len(file)
      BY FileFacts DEF TypeOK, LibTypeOK
    <3>2. PICK i \in 1 .. Len(file) : file[i].at = pos /\ cur' = i
      BY <2>1, <3>1
    <3>3. cur + 1 \in 1 .. Len(file) /\ file[cur + 1].at = pos
      BY <1>0, <2>1, <3>1 DEF Position
    <3> QED
      BY <3>1, <3>2, <3>3, OffsetsDiffer
  <2>3. Done' = Done
    <3>1. CASE pc' = "body"
      <4>1. Done = cur /\ Done' = cur' - 1
        BY <2>1, <3>1 DEF Done, Handling
      <4> QED
        BY <1>0, <2>2, <3>1, <4>1
    <3>2. CASE cur' = cur /\ pc' \in {"thrown", "failure", "EOFException"}
      BY <2>1, <3>2 DEF Done, Handling
    <3> QED
      BY <2>1, <3>1, <3>2
  <2> QED
    BY <1>0, <2>1, <2>3, OutputStays
<1>3. CASE ReadMessage /\ ReadBody
  <2>1. /\ pc = "body" /\ dumped' = dumped /\ cur' = cur
        /\ pc' \in {"payload", "thrown", "failure"}
        /\ Done = cur - 1
    BY <1>3 DEF ReadMessage, dumpVars, ReadBody, ShortRead, Done, Handling
  <2>2. CASE pc' = "payload"
    <3>1. Done' = Done
      BY <2>1, <2>2 DEF Done, Handling
    <3> QED
      BY <1>0, <2>1, <3>1, OutputStays
  <2>3. CASE pc' \in {"thrown", "failure"}
    <3>1. Done' = cur
      BY <2>1, <2>3 DEF Done, Handling
    <3>2. ~Complete(cur)
      <4>1. cur \in 1 .. Len(file) /\ WellFormed(file)
        BY <1>0, <2>1 DEF Handling, TypeOK, LibTypeOK
      <4>2. /\ file[cur].at \in Nat /\ file[cur].len \in Nat /\ EndOf(file[cur]) \in Nat
            /\ avail \in Nat /\ HeaderLen \in Nat
        BY <4>1, FileFacts, HeaderAssumption DEF TypeOK, LibTypeOK
      <4>3. pos + file[cur].len > avail /\ pos = file[cur].at + HeaderLen
        BY <1>3, <2>1, <2>3 DEF ReadBody, BodyEnd, Position
      <4> QED
        BY <4>2, <4>3 DEF Complete, EndOf
    <3>3. ~MustDump(cur)
      BY <3>2 DEF MustDump
    <3> QED
      BY <1>0, <2>1, <3>1, <3>3, OutputAdvances DEF Handling
  <2> QED
    BY <2>1, <2>2, <2>3
<1>4. CASE /\ ReadMessage
           /\ \/ KeepHeader \/ ParseBgp \/ ParsePeerIndexTable \/ ParseRib
              \/ ParseRibPastTable \/ CatchPayloadError
  <2>1. /\ pc = "payload" /\ pc' \in {"returned", "crashed"}
        /\ dumped' = dumped /\ cur' = cur
    BY <1>4 DEF ReadMessage, dumpVars, KeepHeader, ParseBgp, ParsePeerIndexTable, ParseRib,
       ParseRibPastTable, CatchPayloadError, Return
  <2>2. CASE pc' = "returned"
    <3>1. Done' = Done
      BY <2>1, <2>2 DEF Done, Handling
    <3> QED
      BY <1>0, <2>1, <3>1, OutputStays
  <2>3. CASE pc' = "crashed"
    <3>1. Done = cur - 1 /\ Done' = cur
      BY <2>1, <2>3 DEF Done, Handling
    <3> QED
      BY <1>0, <2>1, <2>3, <3>1, OutputAdvances DEF Handling
  <2> QED
    BY <2>1, <2>2, <2>3
\* The four things the loop does with a message.
<1>5. ASSUME pc = "returned", pc' \in {"ready", "crashed"}, cur' = cur
      PROVE  /\ Done = cur - 1 /\ Done' = cur
             /\ cur \in Nat \ {0} /\ msg.rec = cur
  BY <1>0, <1>5 DEF Done, Handling, Position
<1>6. CASE DumpMessage
  <2>1. /\ pc = "returned" /\ pc' \in {"ready", "crashed"} /\ cur' = cur
        /\ msg.type \in {"TABLE_DUMP", "BGP4MP"}
    BY <1>6 DEF DumpMessage
  <2>2. /\ file[cur].kind \in {"TABLE_DUMP", "BGP4MP"}
        /\ MayDump(cur)
        /\ TableOf(cur) = NoTable
    BY <2>1 DEF Returned, Dumpable, TableOf
  <2>3. CASE pc' = "ready"
    <3>1. dumped' = Append(dumped, [rec |-> cur, tbl |-> TableOf(cur)])
      BY <1>5, <1>6, <2>1, <2>2, <2>3 DEF DumpMessage
    <3>2. Append(dumped, [rec |-> cur, tbl |-> TableOf(cur)]) \in Seq([rec : Nat, tbl : Nat])
      BY <1>0, <3>1 DEF TypeOK
    <3> QED
      BY <1>0, <1>5, <2>1, <2>2, <3>1, <3>2, OutputGrows
  <2>4. CASE pc' = "crashed"
    <3>1. dumped' = dumped
      BY <1>6, <2>4 DEF DumpMessage
    <3> QED
      BY <1>0, <1>5, <2>1, <2>4, <3>1, OutputAdvances
  <2> QED
    BY <2>1, <2>3, <2>4
<1>7. CASE DumpRib
  <2>1. /\ pc = "returned" /\ pc' \in {"ready", "crashed"} /\ cur' = cur
        /\ msg.type = "RIB"
    BY <1>7 DEF DumpRib
  <2>2. /\ file[cur].kind = "RIB"
        /\ MayDump(cur)
        /\ indexTbl = dumperTbl
    BY <2>1 DEF Returned, Dumpable, Tables
\* A RIB is no table, so the table in force is still the one before it.
  <2>3. TableOf(cur) = dumperTbl
    <3>1. IsTableFor(indexTbl, cur + 1) /\ ~GoodTable(cur)
      BY <2>1, <2>2 DEF Tables, GoodTable
    <3>2. /\ \A j \in 1 .. cur - 1 : j \in 1 .. (cur + 1) - 1
          /\ \A j \in 1 .. (cur + 1) - 1 : j \in 1 .. cur - 1 \/ j = cur
      BY <1>0
    <3>3. \A j \in 1 .. (cur + 1) - 1 : GoodTable(j) => j \in 1 .. cur - 1
      BY <3>1, <3>2
    <3>4. IsTableFor(indexTbl, cur)
      BY <3>1, <3>2, <3>3 DEF IsTableFor
    <3> QED
      BY <1>0, <2>2, <3>4, TableForIs DEF TableOf
  <2>4. CASE pc' = "ready"
    <3>1. dumped' = Append(dumped, [rec |-> cur, tbl |-> TableOf(cur)])
      BY <1>5, <1>7, <2>1, <2>3, <2>4 DEF DumpRib
    <3>2. Append(dumped, [rec |-> cur, tbl |-> TableOf(cur)]) \in Seq([rec : Nat, tbl : Nat])
      BY <1>0, <3>1 DEF TypeOK
    <3> QED
      BY <1>0, <1>5, <2>1, <2>2, <3>1, <3>2, OutputGrows
  <2>5. CASE pc' = "crashed"
    <3>1. dumped' = dumped
      BY <1>7, <2>5 DEF DumpRib
    <3> QED
      BY <1>0, <1>5, <2>1, <2>5, <3>1, OutputAdvances
  <2> QED
    BY <2>1, <2>4, <2>5
<1>8. CASE SetPeerIndexTbl \/ Undefined
  <2>1. /\ pc = "returned" /\ pc' = "ready" /\ cur' = cur /\ dumped' = dumped
        /\ msg.type \notin Dumpable
    BY <1>8 DEF SetPeerIndexTbl, Undefined, dumpVars, Dumpable
  <2>2. ~MustDump(cur)
    BY <2>1 DEF Returned
  <2> QED
    BY <1>0, <1>5, <2>1, <2>2, OutputAdvances
<1>9. CASE CatchBGPParserError \/ Terminate
  <2>1. /\ pc \in {"thrown", "EOFException", "failure"} /\ pc' \in {"ready", "terminated"}
        /\ dumped' = dumped /\ cur' = cur
        /\ pc = "failure" => pc' = "terminated"
    BY <1>9 DEF CatchBGPParserError, Terminate, dumpVars
  <2>2. Done' = Done
    BY <2>1 DEF Done, Handling
  <2> QED
    BY <1>0, <2>1, <2>2, OutputStays
<1>10. CASE UNCHANGED vars
  <2>1. dumped' = dumped /\ Done' = Done /\ pc' = pc
    BY <1>10 DEF vars, libVars, dumpVars, Done, Handling
  <2> QED
    BY <1>0, <2>1, OutputStays
<1> QED
  BY <1>1, <1>2, <1>3, <1>4, <1>6, <1>7, <1>8, <1>9, <1>10
  DEF Next, ReadMessage, NewMessage, Stop

LEMMA OutputHolds == Spec => []Output
<1>1. Init => Output
  <2> SUFFICES ASSUME Init PROVE Output
    OBVIOUS
  <2>1. Len(dumped) = 0 /\ Done = 0
    BY DEF Init, LibInit, Done, Handling
  <2> QED
    BY <2>1 DEF Output, DumpedSoFar, NothingLostSoFar
<1> QED
  BY <1>1, NextOutput, PositionHolds, TablesHold, ReturnedHolds, PTL DEF Spec

(***************************************************************************)
(* A run that does not crash has put out the decodable records, each once, *)
(* in order and against its table: for every file and every cut.           *)
(***************************************************************************)
THEOREM EndsWithAllDumpedHolds == Spec => []EndsWithAllDumped
<1>1. TypeOK /\ Position /\ Output => EndsWithAllDumped
  <2> SUFFICES ASSUME TypeOK, Position, Output, pc \in {"ended", "terminated"} PROVE EndsWithAllDumped
    BY DEF EndsWithAllDumped
  <2>1. /\ Len(file) \in Nat /\ DOMAIN file = 1 .. Len(file)
        /\ DOMAIN dumped = 1 .. Len(dumped) /\ cur \in 0 .. Len(file)
    BY FileFacts DEF TypeOK, LibTypeOK
  <2>2. Done = cur /\ pos = avail
    BY DEF Done, Handling, Position
  <2>3. ASSUME NEW i \in 1 .. Len(file), MustDump(i)
        PROVE  \E k \in 1 .. Len(dumped) : dumped[k].rec = i
    <3>1. ~(i > cur)
      BY <2>2, <2>3 DEF Position, MustDump
    <3>2. i \in 1 .. cur
      BY <2>1, <3>1
    <3> QED
      BY <2>2, <2>3, <3>2 DEF Output, NothingLostSoFar
  <2>4. 1 .. cur \subseteq 1 .. Len(file)
    BY <2>1
  <2> QED
    BY <2>1, <2>2, <2>3, <2>4 DEF Output, DumpedSoFar, EndsWithAllDumped, TableOf
<1> QED
  BY <1>1, PositionHolds, OutputHolds, PTL

-----------------------------------------------------------------------------
(* Refinement                                                              *)

\* What the abstract next is mapped to.
NextOf == IF Untaken THEN cur ELSE cur + 1

LEMMA InitRefines == Init => Abstract!LogInit
<1> SUFFICES ASSUME Init PROVE Abstract!LogInit
  OBVIOUS
<1>1. WellFormed(file)
  BY FilesAssumption DEF Init, LibInit
<1>2. /\ Len(file) \in Nat /\ DOMAIN file = 1 .. Len(file)
      /\ \A i \in 1 .. Len(file) : file[i] \in Record
  BY <1>1, FileFacts
<1>3. \A i \in 1 .. Len(file) : file[i].kind \in Abstract!LogKinds
  BY <1>2 DEF Record, Kinds, Abstract!LogKinds
<1>4. Layout(file) \in [1 .. Len(file) -> Abstract!LogKinds]
  BY <1>2, <1>3 DEF Layout, Abstract!LogKinds
<1>5. Layout(file) \in Seq(Abstract!LogKinds)
  BY <1>2, <1>4
<1>6. ~Untaken /\ cur = 0 /\ dumperTbl = 0 /\ dumped = << >> /\ Halted = FALSE
  BY DEF Init, LibInit, Untaken, NoTable, Halted
<1> QED
  BY <1>5, <1>6 DEF Abstract!LogInit

LEMMA NextRefines ==
  TypeOK /\ Position /\ Tables /\ Returned /\ [Next]_vars
    => [Abstract!LogNext]_Abstract!logVars
<1> SUFFICES ASSUME TypeOK, Position, Tables, Returned, [Next]_vars
             PROVE  [Abstract!LogNext]_Abstract!logVars
  OBVIOUS
<1> DEFINE layout == Layout(file)
           stutter == UNCHANGED <<layout, NextOf, dumperTbl, dumped, Halted>>
<1>0. /\ file' = file /\ avail' = avail /\ layout' = layout
      /\ WellFormed(file)
      /\ Len(file) \in Nat /\ DOMAIN file = 1 .. Len(file) /\ Len(layout) = Len(file)
      /\ cur \in Nat
      /\ \A i \in 1 .. Len(file) :
           layout[i] = IF file[i].kind = "PEER_INDEX_TABLE" /\ ~file[i].sound
                       THEN "OTHER" ELSE file[i].kind
  <2>1. /\ Len(file) \in Nat /\ DOMAIN file = 1 .. Len(file) /\ cur \in Nat
        /\ WellFormed(file) /\ file' = file /\ avail' = avail
    BY FileFacts, FileStays DEF TypeOK, LibTypeOK
  <2>2. DOMAIN layout = 1 .. Len(file)
    BY <2>1 DEF Layout
  <2>3. Len(layout) = Len(file)
    BY <2>1, <2>2
  <2> QED
    BY <2>1, <2>3 DEF Layout
<1> HIDE DEF layout
<1>s. stutter => UNCHANGED Abstract!logVars
  BY DEF Abstract!logVars, layout, NextOf
<1>c. \A i : Complete(i)' <=> Complete(i')
  BY <1>0 DEF Complete, EndOf
\* The steps of the abstract log, each from what the loop's steps have in common.
<1>e. ASSUME ~Halted, Halted', UNCHANGED <<NextOf, dumperTbl, dumped>>
      PROVE  Abstract!LogNext
  BY <1>0, <1>e DEF Abstract!LogNext, Abstract!End, layout, Halted, NextOf
<1>l. ASSUME ~Halted, ~Halted', NextOf = cur, NextOf' = cur + 1, cur \in 1 .. Len(file),
             UNCHANGED <<dumperTbl, dumped>>
      PROVE  Abstract!LogNext
  BY <1>0, <1>l DEF Abstract!LogNext, Abstract!LeaveOut, Abstract!Remaining, layout, Halted,
     NextOf
<1>1. CASE Peek
  <2>1. /\ NextOf = cur + 1 /\ NextOf' = cur + 1 /\ ~Halted
        /\ UNCHANGED <<dumperTbl, dumped>>
    BY <1>1 DEF Peek, dumpVars, NextOf, Untaken, Halted
  <2>2. CASE pc' = "header"
    <3>1. stutter
      BY <1>0, <2>1, <2>2 DEF Halted
    <3> QED
      BY <1>s, <3>1
  <2>3. CASE pc' = "ended"
    BY <1>e, <2>1, <2>3 DEF Halted
  <2> QED
    BY <1>1, <2>2, <2>3 DEF Peek
<1>2. CASE ReadMessage /\ ReadHeader
  <2>1. /\ pc = "header" /\ UNCHANGED <<dumperTbl, dumped>>
        /\ \/ pc' = "body" /\ \E i \in DOMAIN file : file[i].at = pos /\ cur' = i
           \/ cur' = cur /\ pc' \in {"thrown", "failure", "EOFException"}
    BY <1>2 DEF ReadMessage, dumpVars, ReadHeader, ShortRead
  <2>2. cur + 1 \in 1 .. Len(file) /\ file[cur + 1].at = pos /\ pos < avail
    BY <1>0, <2>1 DEF Position
  <2>3. NextOf = cur + 1 /\ ~Halted /\ ~Halted'
    BY <2>1 DEF NextOf, Untaken, Halted
  <2>4. CASE pc' = "body"
    <3>1. PICK i \in 1 .. Len(file) : file[i].at = pos /\ cur' = i
      BY <1>0, <2>1, <2>4
    <3>2. cur' = cur + 1
      BY <1>0, <2>2, <3>1, OffsetsDiffer
    <3>3. NextOf' = cur + 1
      BY <2>4, <3>2 DEF NextOf, Untaken
    <3>4. stutter
      BY <1>0, <2>1, <2>3, <3>3 DEF Halted
    <3> QED
      BY <1>s, <3>4
\* The record before the cut header is whole: the stream went on behind it.
  <2>5. CASE cur' = cur /\ pc' \in {"thrown", "failure", "EOFException"}
    <3>1. cur > 0 => Complete(cur)
      <4> SUFFICES ASSUME cur > 0 PROVE Complete(cur)
        OBVIOUS
      <4>1. cur \in 1 .. Len(file) /\ cur < cur + 1
        BY <1>0, <2>2
      <4>2. EndOf(file[cur]) <= file[cur + 1].at /\ EndOf(file[cur]) \in Nat
        BY <1>0, <2>2, <4>1, FileFacts
      <4>3. avail \in Nat /\ pos \in Nat
        BY <1>0, FileFacts DEF TypeOK, LibTypeOK
      <4> QED
        BY <2>2, <4>2, <4>3 DEF Complete
    <3>2. NextOf' = cur + 1
      BY <1>c, <2>5, <3>1 DEF NextOf, Untaken
    <3>3. stutter
      BY <1>0, <2>1, <2>3, <3>2 DEF Halted
    <3> QED
      BY <1>s, <3>3
  <2> QED
    BY <2>1, <2>4, <2>5
<1>3. CASE ReadMessage /\ ReadBody
  <2>1. /\ pc = "body" /\ cur' = cur /\ pc' \in {"payload", "thrown", "failure"}
        /\ UNCHANGED <<dumperTbl, dumped>>
    BY <1>3 DEF ReadMessage, dumpVars, ReadBody, ShortRead
  <2>2. pc' \in {"thrown", "failure"} => cur > 0 /\ ~Complete(cur)
    <3> SUFFICES ASSUME pc' \in {"thrown", "failure"} PROVE cur > 0 /\ ~Complete(cur)
      OBVIOUS
    <3>1. cur \in 1 .. Len(file)
      BY <2>1 DEF Position, Handling
    <3>2. /\ file[cur].at \in Nat /\ file[cur].len \in Nat /\ EndOf(file[cur]) \in Nat
          /\ avail \in Nat /\ HeaderLen \in Nat
      BY <1>0, <3>1, FileFacts, HeaderAssumption DEF TypeOK, LibTypeOK
    <3>3. pos + file[cur].len > avail /\ pos = file[cur].at + HeaderLen
      BY <1>3, <2>1 DEF ReadBody, BodyEnd, Position
    <3> QED
      BY <3>1, <3>2, <3>3 DEF Complete, EndOf
  <2>3. NextOf = cur /\ NextOf' = cur
    BY <1>c, <2>1, <2>2 DEF NextOf, Untaken
  <2>4. stutter
    BY <1>0, <2>1, <2>3 DEF Halted
  <2> QED
    BY <1>s, <2>4
<1>4. CASE /\ ReadMessage
           /\ \/ KeepHeader \/ ParseBgp \/ ParsePeerIndexTable \/ ParseRib
              \/ ParseRibPastTable \/ CatchPayloadError
  <2>1. /\ pc = "payload" /\ pc' \in {"returned", "crashed"} /\ cur' = cur
        /\ UNCHANGED <<dumperTbl, dumped>>
    BY <1>4 DEF ReadMessage, dumpVars, KeepHeader, ParseBgp, ParsePeerIndexTable, ParseRib,
       ParseRibPastTable, CatchPayloadError, Return
  <2>2. NextOf = cur /\ NextOf' = cur /\ ~Halted
    BY <2>1 DEF NextOf, Untaken, Halted
  <2>3. CASE pc' = "crashed"
    BY <1>e, <2>1, <2>2, <2>3 DEF Halted
  <2>4. CASE pc' = "returned"
    <3>1. stutter
      BY <1>0, <2>1, <2>2, <2>4 DEF Halted
    <3> QED
      BY <1>s, <3>1
  <2> QED
    BY <2>1, <2>3, <2>4
\* A message is dealt with: its record is taken, or the process ends.
<1>5. ASSUME pc = "returned", cur' = cur
      PROVE  /\ NextOf = cur /\ ~Halted /\ cur \in 1 .. Len(file) /\ msg.rec = cur
             /\ pc' = "ready" => NextOf' = cur + 1 /\ ~Halted'
             /\ pc' = "crashed" => NextOf' = cur /\ Halted'
  BY <1>5 DEF NextOf, Untaken, Halted, Position, Handling
<1>6. ASSUME NEW t, pc = "returned", pc' = "ready", cur' = cur,
             layout[cur] \notin {"PEER_INDEX_TABLE", "OTHER"},
             t = IF layout[cur] \in {"RIB", "RIB_GENERIC"} THEN dumperTbl ELSE 0,
             dumped' = Append(dumped, [rec |-> cur, tbl |-> t]),
             dumperTbl' = dumperTbl
      PROVE  Abstract!LogNext
  <2>1. Abstract!TakeAndPutOut
    BY <1>0, <1>5, <1>6 DEF Abstract!TakeAndPutOut, Abstract!Remaining, Halted, layout, NextOf
  <2> QED
    BY <2>1 DEF Abstract!LogNext
<1>7. CASE DumpMessage
  <2>1. /\ pc = "returned" /\ cur' = cur /\ dumperTbl' = dumperTbl
        /\ file[cur].kind \in {"TABLE_DUMP", "BGP4MP"}
    BY <1>7 DEF DumpMessage, Returned, Dumpable
  <2>2. CASE pc' = "ready"
    <3>1. layout[cur] \in {"TABLE_DUMP", "BGP4MP"}
      BY <1>0, <1>5, <2>1
    <3>2. dumped' = Append(dumped, [rec |-> cur, tbl |-> 0])
      BY <1>5, <1>7, <2>1, <2>2 DEF DumpMessage, NoTable
    <3> QED
      BY <1>6, <2>1, <2>2, <3>1, <3>2
  <2>3. CASE pc' = "crashed"
    <3>1. dumped' = dumped
      BY <1>7, <2>3 DEF DumpMessage
    <3> QED
      BY <1>5, <1>e, <2>1, <2>3, <3>1
  <2> QED
    BY <1>7, <2>2, <2>3 DEF DumpMessage
<1>8. CASE DumpRib
  <2>1. /\ pc = "returned" /\ cur' = cur /\ dumperTbl' = dumperTbl
        /\ file[cur].kind = "RIB"
    BY <1>8 DEF DumpRib, Returned, Dumpable
  <2>2. CASE pc' = "ready"
    <3>1. layout[cur] = "RIB"
      BY <1>0, <1>5, <2>1
    <3>2. dumped' = Append(dumped, [rec |-> cur, tbl |-> dumperTbl])
      BY <1>5, <1>8, <2>1, <2>2 DEF DumpRib
    <3> QED
      BY <1>6, <2>1, <2>2, <3>1, <3>2
  <2>3. CASE pc' = "crashed"
    <3>1. dumped' = dumped
      BY <1>8, <2>3 DEF DumpRib
    <3> QED
      BY <1>5, <1>e, <2>1, <2>3, <3>1
  <2> QED
    BY <1>8, <2>2, <2>3 DEF DumpRib
<1>9. CASE SetPeerIndexTbl
  <2>1. /\ pc = "returned" /\ pc' = "ready" /\ cur' = cur /\ dumped' = dumped
        /\ dumperTbl' = msg.rec
        /\ file[cur].kind = "PEER_INDEX_TABLE" /\ file[cur].sound
    BY <1>9 DEF SetPeerIndexTbl, Returned
  <2>2. layout[cur] = "PEER_INDEX_TABLE"
    BY <1>0, <1>5, <2>1
  <2>3. Abstract!TakeTable
    BY <1>0, <1>5, <2>1, <2>2
    DEF Abstract!TakeTable, Abstract!Remaining, Halted, layout, NextOf
  <2> QED
    BY <2>3 DEF Abstract!LogNext
<1>10. CASE Undefined
  <2>1. /\ pc = "returned" /\ pc' = "ready" /\ cur' = cur
        /\ UNCHANGED <<dumperTbl, dumped>>
    BY <1>10 DEF Undefined, dumpVars
  <2> QED
    BY <1>5, <1>l, <2>1
<1>11. CASE CatchBGPParserError
  <2>1. /\ pc = "thrown" /\ pc' = "ready" /\ cur' = cur
        /\ UNCHANGED <<dumperTbl, dumped>>
        /\ ~Halted /\ ~Halted' /\ NextOf' = cur + 1
    BY <1>11 DEF CatchBGPParserError, Position, dumpVars, Halted, NextOf, Untaken
  <2>2. CASE cur > 0 /\ ~Complete(cur)
    <3>1. NextOf = cur /\ cur \in 1 .. Len(file)
      BY <2>1, <2>2 DEF NextOf, Untaken, TypeOK, LibTypeOK
    <3> QED
      BY <1>l, <2>1, <3>1
  <2>3. CASE ~(cur > 0 /\ ~Complete(cur))
    <3>1. NextOf = cur + 1
      BY <2>1, <2>3 DEF NextOf, Untaken
    <3>2. stutter
      BY <1>0, <2>1, <3>1 DEF Halted
    <3> QED
      BY <1>s, <3>2
  <2> QED
    BY <2>2, <2>3
<1>12. CASE Terminate
  <2>1. /\ pc = "failure" /\ pc' = "terminated" /\ cur' = cur
        /\ UNCHANGED <<dumperTbl, dumped>>
    BY <1>12 DEF Terminate, dumpVars
  <2>2. NextOf' = NextOf
    BY <1>c, <2>1 DEF NextOf, Untaken
  <2> QED
    BY <1>e, <2>1, <2>2 DEF Halted
<1>13. CASE UNCHANGED vars
  <2>1. pc' = pc /\ cur' = cur /\ UNCHANGED <<dumperTbl, dumped>>
    BY <1>13 DEF vars, libVars, dumpVars
  <2>2. NextOf' = NextOf
    BY <1>c, <2>1 DEF NextOf, Untaken
  <2>3. stutter
    BY <1>0, <2>1, <2>2 DEF Halted
  <2> QED
    BY <1>s, <2>3
<1> QED
  BY <1>1, <1>2, <1>3, <1>4, <1>7, <1>8, <1>9, <1>10, <1>11, <1>12, <1>13
  DEF Next, ReadMessage, NewMessage, Stop

(***************************************************************************)
(* The loop of mrt2xml implements RecordLog as the loop of bgpparser2      *)
(* does, with the dumper's own table as the table in force.                *)
(***************************************************************************)
THEOREM Refinement == Spec => ImplementsRecordLog
<1>1. Init => Abstract!LogInit
  BY InitRefines
<1>2. TypeOK /\ Position /\ Tables /\ Returned /\ [Next]_vars
        => [Abstract!LogNext]_Abstract!logVars
  BY NextRefines
<1> QED
  BY <1>1, <1>2, PositionHolds, TablesHold, ReturnedHolds, PTL
  DEF Spec, ImplementsRecordLog, Abstract!LogSpec

=============================================================================
