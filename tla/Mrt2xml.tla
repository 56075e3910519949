-------------------------------- MODULE Mrt2xml --------------------------------
(***************************************************************************)
(* The program of dumper/mrt2xml.cpp.  Its loop calls newMessage as        *)
(* Bgpparser2 does but hands each message to a dumper of its type, and the *)
(* TABLE_DUMP_V2 dumper keeps a peer index table of its own, which the     *)
(* loop sets when newMessage returns one: a second copy of the state       *)
(* newMessage keeps in indexTbl and every RIB message keeps in itself.     *)
(***************************************************************************)
EXTENDS MRTCommonHeader

VARIABLES
  flag_bgpdump, \* option -B: lines and no XML
  dumperTbl,    \* MRTTblDumpV2Dumper::peerIndexTbl
  dumped        \* what the dumpers put out: record, and table its peers came from

dumpVars == <<flag_bgpdump, dumperTbl, dumped>>

vars == <<libVars, dumpVars>>

Init ==
  /\ LibInit
  /\ flag_bgpdump \in BOOLEAN
  /\ dumperTbl = NoTable
  /\ dumped = << >>

Peek ==
  /\ pc = "ready"
  /\ pc' = IF pos < avail THEN "header" ELSE "ended"
  /\ UNCHANGED <<file, avail, broken, pos, cur, indexTbl, msg, dumpVars>>

ReadMessage == NewMessage /\ UNCHANGED dumpVars

(***************************************************************************)
(* Undefined behaviour of the dumpers, each a call of a method of the null *)
(* a cast gives.  In the XML, the dumper of aggregators casts an           *)
(* AS4_AGGREGATOR to AGGREGATOR.  In both outputs, for an IPv6 TABLE_DUMP  *)
(* with an MP_REACH_NLRI, MRTTblDumpV1Dumper casts the pointer to the      *)
(* attribute instead of the one to its value.  Which attributes a record   *)
(* has is left open here: module Printing has them.                        *)
(***************************************************************************)
MayHaveAS4Aggregator(i) == file[i].kind = "RIB" => file[i].entries # << >>

CastUndefined(i) ==
  \/ ~flag_bgpdump /\ MayHaveAS4Aggregator(i)
  \/ file[i].kind = "TABLE_DUMP" /\ file[i].family = "IPv6"

\* A message without a table: the dumper is made for it.
DumpMessage ==
  /\ pc = "returned"
  /\ msg.type \in {"TABLE_DUMP", "BGP4MP"}
  /\ \/ /\ dumped' = Append(dumped, [rec |-> msg.rec, tbl |-> NoTable])
        /\ pc' = "ready"
     \/ /\ CastUndefined(msg.rec)
        /\ pc' = "crashed"
        /\ UNCHANGED dumped
  /\ UNCHANGED <<file, avail, broken, pos, cur, indexTbl, msg, dumperTbl, flag_bgpdump>>

\* A bug: the first table of the file is kept.
SetFirstPeerIndexTbl ==
  /\ pc = "returned"
  /\ msg.type = "PEER_INDEX_TABLE"
  /\ dumperTbl' = IF dumperTbl = NoTable THEN msg.rec ELSE dumperTbl
  /\ pc' = "ready"
  /\ UNCHANGED <<file, avail, broken, pos, cur, indexTbl, msg, dumped, flag_bgpdump>>

SetPeerIndexTbl ==
  /\ pc = "returned"
  /\ msg.type = "PEER_INDEX_TABLE"
  /\ dumperTbl' = msg.rec
  /\ pc' = "ready"
  /\ UNCHANGED <<file, avail, broken, pos, cur, indexTbl, msg, dumped, flag_bgpdump>>

\* A bug: the case of the RIBs falls through to the case of the tables.
DumpRibFallThrough ==
  /\ pc = "returned"
  /\ msg.type = "RIB"
  /\ dumped' = Append(dumped, [rec |-> msg.rec, tbl |-> dumperTbl])
  /\ dumperTbl' = NoTable
  /\ pc' = "ready"
  /\ UNCHANGED <<file, avail, broken, pos, cur, indexTbl, msg, flag_bgpdump>>

(***************************************************************************)
(* genXml and genAscii look every peer up in the dumper's table, not in    *)
(* the one the message was parsed with, and do not ask whether there is    *)
(* one.  TablesAgree says why getPeer refuses no index here.               *)
(***************************************************************************)
LookupUndefined(m) == dumperTbl # NoTable => Misses(m.rec, dumperTbl) # {}

DumpRib ==
  /\ pc = "returned"
  /\ msg.type = "RIB"
  /\ \/ /\ dumped' = Append(dumped, [rec |-> msg.rec, tbl |-> dumperTbl])
        /\ pc' = "ready"
     \/ /\ LookupUndefined(msg) \/ CastUndefined(msg.rec)
        /\ pc' = "crashed"
        /\ UNCHANGED dumped
  /\ UNCHANGED <<file, avail, broken, pos, cur, indexTbl, msg, dumperTbl, flag_bgpdump>>

\* "Undefined Type" or "Undefined Subtype": logged, RIB_GENERIC among them.
Undefined ==
  /\ pc = "returned"
  /\ msg.type \in {"HEADER", "MRT_INVALID", "RIB_GENERIC"}
  /\ pc' = "ready"
  /\ UNCHANGED <<file, avail, broken, pos, cur, indexTbl, msg, dumpVars>>

\* A bug: no handler for what the library throws.
CatchNothing ==
  /\ pc = "EOFException"
  /\ pc' = "ready"
  /\ UNCHANGED <<file, avail, broken, pos, cur, indexTbl, msg, dumpVars>>

\* Every BGPParserError: moving on to the next MRT entry.
CatchBGPParserError ==
  /\ pc \in {"thrown", "EOFException"}
  /\ pc' = "ready"
  /\ UNCHANGED <<file, avail, broken, pos, cur, indexTbl, msg, dumpVars>>

\* istream::failure is not a BGPParserError: it leaves main.
Terminate ==
  /\ pc = "failure"
  /\ pc' = "terminated"
  /\ UNCHANGED <<file, avail, broken, pos, cur, indexTbl, msg, dumpVars>>

Halted == pc \in {"ended", "terminated", "crashed"}

\* The process is gone.
Stop == Halted /\ UNCHANGED vars

Next ==
  \/ Peek
  \/ ReadMessage
  \/ DumpMessage
  \/ SetPeerIndexTbl
  \/ DumpRib
  \/ Undefined
  \/ CatchBGPParserError
  \/ Terminate
  \/ Stop

\* One thread runs the loop and nothing it waits for can withhold a step.
Spec == Init /\ [][Next]_vars /\ WF_vars(Next)

-----------------------------------------------------------------------------
(* Properties                                                              *)

\* The variables hold values of their types.
TypeOK ==
  /\ LibTypeOK
  /\ flag_bgpdump \in BOOLEAN
  /\ dumperTbl \in 0 .. Len(file)
  /\ dumped \in Seq([rec : Nat, tbl : Nat])

(***************************************************************************)
(* The three copies of "the current peer index table" agree when they are  *)
(* used: a RIB that is about to be dumped was parsed against the very      *)
(* table the dumper looks its peers up in, so the second lookup of a peer  *)
(* index gives what the first gave.                                        *)
(***************************************************************************)
TablesAgree ==
  /\ pc = "returned" /\ msg.type \in RibKinds =>
       msg.tbl # NoTable /\ msg.tbl = dumperTbl
  /\ pc = "ready" => dumperTbl = indexTbl

\* Every entry of a RIB has its peer in the table in force.
InTable(i) == TableFor(i) # NoTable /\ Misses(i, TableFor(i)) = {}

MustDump(i) ==
  /\ Complete(i)
  /\ file[i].kind \in {"RIB", "TABLE_DUMP", "BGP4MP"}
  /\ file[i].sound
  /\ file[i].kind = "RIB" => InTable(i)

\* The one index past the table that getPeer lets through, see ParseRibPastTable.
MayDump(i) ==
  \/ MustDump(i)
  \/ /\ Complete(i)
     /\ file[i].kind = "RIB"
     /\ TableFor(i) # NoTable
     /\ ReadsPastTable(i, TableFor(i))

(***************************************************************************)
(* A run that ends, normally or by the decompressor's exception, which     *)
(* nothing catches, has put out exactly the decodable records it has a     *)
(* dumper for (RIB_GENERIC has none), each once and in order, and against  *)
(* the last good table before it, in spite of bad payloads and a cut at    *)
(* the end.                                                                *)
(***************************************************************************)
EndsWithAllDumped ==
  pc \in {"ended", "terminated"} =>
    /\ \A i \in DOMAIN file : MustDump(i) => \E k \in DOMAIN dumped : dumped[k].rec = i
    /\ \A k \in DOMAIN dumped :
         LET i == dumped[k].rec
         IN  /\ i \in DOMAIN file
             /\ MayDump(i)
             /\ dumped[k].tbl = IF file[i].kind = "RIB" THEN TableFor(i) ELSE NoTable
    /\ \A j, k \in DOMAIN dumped : j < k => dumped[j].rec < dumped[k].rec

(***************************************************************************)
(* The program ends on every file: at the end of the stream, by the        *)
(* uncaught decompressor exception or an undefined access.                 *)
(***************************************************************************)
Terminates == <>Halted

(***************************************************************************)
(* Refinement: a table is taken when the dumper gets it.  A record counts  *)
(* as taken once the loop is past it; the read of a header that is cut off *)
(* takes none.                                                             *)
(***************************************************************************)
Layout(f) == [i \in DOMAIN f |-> IF f[i].kind = "PEER_INDEX_TABLE" /\ ~f[i].sound
                                 THEN "OTHER" ELSE f[i].kind]

Untaken ==
  \/ pc \in {"body", "payload", "returned", "crashed"}
  \/ pc \in {"thrown", "failure", "terminated"} /\ cur > 0 /\ ~Complete(cur)

Abstract == INSTANCE RecordLog WITH
  layout <- Layout(file), next <- IF Untaken THEN cur ELSE cur + 1,
  table <- dumperTbl, log <- dumped, over <- Halted

\* The loop implements the promise of RecordLog.
ImplementsRecordLog == Abstract!LogSpec

=============================================================================
