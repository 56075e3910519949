------------------------------ MODULE Bgpparser2 ------------------------------
(***************************************************************************)
(* The program of dumper2/main.cpp: it calls newMessage until the stream   *)
(* is at its end, filters the messages by address family and shows them    *)
(* through AsciiVisitor.                                                   *)
(***************************************************************************)
EXTENDS MRTCommonHeader

VARIABLES
  ipv4, ipv6,   \* the two filter options, after defaulting
  mrt_id,       \* records begun
  count_error,  \* exceptions the loop body caught
  shown         \* messages handed to AsciiVisitor: record and table

mainVars == <<ipv4, ipv6, mrt_id, count_error, shown>>

vars == <<libVars, mainVars>>

\* Neither option given means both.
Init ==
  /\ LibInit
  /\ ipv4 \in BOOLEAN
  /\ ipv6 \in BOOLEAN
  /\ ipv4 \/ ipv6
  /\ mrt_id = 0
  /\ count_error = 0
  /\ shown = << >>

(***************************************************************************)
(* The head of the loop.  peek() reports the end of the stream and a       *)
(* decompressor that throws in the same way.                               *)
(***************************************************************************)
Peek ==
  /\ pc = "ready"
  /\ \/ /\ pos < avail
        /\ pc' = "header"
        /\ mrt_id' = mrt_id + 1
     \/ /\ pos = avail
        /\ pc' = "ended"
        /\ UNCHANGED mrt_id
  /\ UNCHANGED <<file, avail, broken, pos, cur, indexTbl, msg, ipv4, ipv6,
                 count_error, shown>>

ReadMessage == NewMessage /\ UNCHANGED mainVars

\* The message types AsciiVisitor prints something for.
Visible == {"RIB", "RIB_GENERIC", "TABLE_DUMP", "BGP4MP"}

\* IPTypeDiscoveryVisitor: a bare header and a peer index table have no family.
Classify(m) == IF m.type \in Visible THEN file[m.rec].family ELSE "UNKNOWN"

\* A bug: with both options set the filter tests one of them after the other.
CanPrintBothTests(m) ==
  /\ ipv4 => Classify(m) = "IPv4"
  /\ ipv6 => Classify(m) = "IPv6"

\* The filter is consulted only when one family was asked for.
CanPrint(m) ==
  ~ipv4 \/ ~ipv6 => /\ ipv4 => Classify(m) = "IPv4"
                    /\ ipv6 => Classify(m) = "IPv6"

\* Printing a RIB looks every peer up again, in the table the message holds.
ShowMayCrash(m) == m.type \in RibKinds /\ Misses(m.rec, m.tbl) # {}

Shown(m) == [rec |-> m.rec, tbl |-> m.tbl]

Show ==
  /\ pc = "returned"
  /\ CanPrint(msg)
  /\ msg.type \in Visible
  /\ \/ /\ shown' = Append(shown, Shown(msg))
        /\ pc' = "ready"
     \/ /\ ShowMayCrash(msg)
        /\ pc' = "crashed"
        /\ UNCHANGED shown
  /\ UNCHANGED <<file, avail, broken, pos, cur, indexTbl, msg, ipv4, ipv6,
                 mrt_id, count_error>>

\* Filtered out, or of a type AsciiVisitor visits without printing.
PassOver ==
  /\ pc = "returned"
  /\ ~CanPrint(msg) \/ msg.type \notin Visible
  /\ pc' = "ready"
  /\ UNCHANGED <<file, avail, broken, pos, cur, indexTbl, msg, mainVars>>

\* A bug: the handler is there for the end of the file alone.
CatchEOFException ==
  /\ pc = "EOFException"
  /\ count_error' = count_error + 1
  /\ pc' = "ready"
  /\ UNCHANGED <<file, avail, broken, pos, cur, indexTbl, msg, ipv4, ipv6,
                 mrt_id, shown>>

\* A bug: the rest of a record cut short is not counted as an error.
CatchSilently ==
  /\ pc = "thrown"
  /\ pc' = "ready"
  /\ UNCHANGED <<file, avail, broken, pos, cur, indexTbl, msg, mainVars>>

(***************************************************************************)
(* The handlers that can be reached.  An EOFException is ruled out by      *)
(* peek(), a BGPError or BGPTextError is caught in newMessage before, and  *)
(* the only BGPParserErrors that are none of these are MRTExceptions: were *)
(* one of them to reach main after all, this module would deadlock.        *)
(***************************************************************************)
CatchMRTException ==
  /\ pc = "thrown"
  /\ count_error' = count_error + 1
  /\ pc' = "ready"
  /\ UNCHANGED <<file, avail, broken, pos, cur, indexTbl, msg, ipv4, ipv6,
                 mrt_id, shown>>

\* istream::failure leaves the loop: exit(10).
ExitOnFailure ==
  /\ pc = "failure"
  /\ pc' = "exit10"
  /\ UNCHANGED <<file, avail, broken, pos, cur, indexTbl, msg, mainVars>>

Halted == pc \in {"ended", "exit10", "crashed"}

\* The process is gone.
Stop == Halted /\ UNCHANGED vars

Next ==
  \/ Peek
  \/ ReadMessage
  \/ Show
  \/ PassOver
  \/ CatchMRTException
  \/ ExitOnFailure
  \/ Stop

\* One thread runs the loop and nothing it waits for can withhold a step.
Spec == Init /\ [][Next]_vars /\ WF_vars(Next)

-----------------------------------------------------------------------------
(* Properties                                                              *)

\* The variables hold values of their types.
TypeOK ==
  /\ LibTypeOK
  /\ ipv4 \in BOOLEAN
  /\ ipv6 \in BOOLEAN
  /\ ipv4 \/ ipv6
  /\ mrt_id \in 0 .. Len(file)
  /\ count_error \in Nat
  /\ shown \in Seq([rec : Nat, tbl : Nat])

(***************************************************************************)
(* Whatever a payload holds and wherever its parser gave up, the loop is   *)
(* back at the first byte of the next record: newMessage consumes exactly  *)
(* the header and length bytes, and mrt_id counts the records passed.      *)
(***************************************************************************)
Framing ==
  pc = "ready" /\ pos < avail =>
    /\ mrt_id < Len(file)
    /\ pos = file[mrt_id + 1].at

(***************************************************************************)
(* Between two records indexTbl is the last peer index table that parsed:  *)
(* one that did not parse leaves the table before it in force.             *)
(***************************************************************************)
TableInForce == pc = "ready" => indexTbl = TableFor(mrt_id + 1)

Selected(r) == \/ ipv4 /\ ipv6
               \/ ipv4 /\ r.family = "IPv4"
               \/ ipv6 /\ r.family = "IPv6"

Resolvable(i) ==
  file[i].kind \in RibKinds =>
    /\ TableFor(i) # NoTable
    /\ \A k \in DOMAIN file[i].entries : file[i].entries[k] < file[TableFor(i)].peers

\* The one index past the table that getPeer lets through, see ParseRibPastTable.
PastTable(i) ==
  /\ file[i].kind \in RibKinds
  /\ TableFor(i) # NoTable
  /\ ReadsPastTable(i, TableFor(i))

MustShow(i) ==
  /\ Complete(i)
  /\ file[i].kind \in Visible
  /\ file[i].sound
  /\ Resolvable(i)
  /\ Selected(file[i])

MayShow(i) == \/ MustShow(i)
              \/ Complete(i) /\ PastTable(i) /\ Selected(file[i])

(***************************************************************************)
(* What is printed is a decodable record the filter selects, once, in file *)
(* order, and a RIB is printed against the last good table before it in    *)
(* the file, however many tables, good and bad, the file interleaves.      *)
(***************************************************************************)
ShownFaithfully ==
  /\ \A k \in DOMAIN shown :
       /\ shown[k].rec \in 1 .. mrt_id
       /\ MayShow(shown[k].rec)
       /\ shown[k].tbl = IF file[shown[k].rec].kind \in RibKinds
                         THEN TableFor(shown[k].rec) ELSE NoTable
  /\ \A j, k \in DOMAIN shown : j < k => shown[j].rec < shown[k].rec

(***************************************************************************)
(* No error of one record costs another: when the loop is back at its head *)
(* every decodable, selected record so far was printed, and a run that     *)
(* ends normally has passed every whole record of the stream.              *)
(***************************************************************************)
NothingLost ==
  /\ pc \in {"ready", "ended"} =>
       \A i \in 1 .. mrt_id : MustShow(i) => \E k \in DOMAIN shown : shown[k].rec = i
  /\ pc = "ended" => \A i \in DOMAIN file : Complete(i) => i <= mrt_id

(***************************************************************************)
(* count_error counts what no payload can cause: it is 1 exactly when the  *)
(* stream stopped inside a record, and never more.                         *)
(***************************************************************************)
ErrorsAreCuts ==
  /\ count_error <= 1
  /\ pc = "ended" =>
       (count_error = 1 <=> \E i \in DOMAIN file : file[i].at < avail /\ ~Complete(i))

(***************************************************************************)
(* "Corrupted PeerIndexTbl": a peer index that is not in the table is      *)
(* refused, so nothing is made or printed of a RIB that holds one and no   *)
(* access outside the table brings the process down.                       *)
(***************************************************************************)
CorruptIndexRefused ==
  /\ pc # "crashed"
  /\ pc = "returned" /\ msg.type \in RibKinds => Misses(msg.rec, msg.tbl) = {}

(***************************************************************************)
(* The program ends on every file, by the end of the stream, exit(10) or   *)
(* the undefined access of getPeer.                                        *)
(***************************************************************************)
Terminates == <>Halted

(***************************************************************************)
(* Refinement: a table that does not parse is no table to the user, a      *)
(* table record is taken when indexTbl is assigned, any other one when it  *)
(* is printed or passed over.                                              *)
(***************************************************************************)
Layout(f) == [i \in DOMAIN f |-> IF f[i].kind = "PEER_INDEX_TABLE" /\ ~f[i].sound
                                 THEN "OTHER" ELSE f[i].kind]

NextTaken ==
  IF \/ pc \in {"ready", "ended"}
     \/ pc = "returned" /\ msg.type = "PEER_INDEX_TABLE"
  THEN mrt_id + 1 ELSE mrt_id

Abstract == INSTANCE RecordLog WITH
  layout <- Layout(file), next <- NextTaken,
  table <- indexTbl, log <- shown, over <- Halted

\* The loop implements the promise of RecordLog.
ImplementsRecordLog == Abstract!LogSpec

=============================================================================
