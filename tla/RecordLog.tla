------------------------------ MODULE RecordLog ------------------------------
(***************************************************************************)
(* What a program built on MRTCommonHeader::newMessage promises its user,  *)
(* whatever the file holds: the records are taken one at a time in file    *)
(* order and each at most once; a record may be left out of the output     *)
(* (undecodable, filtered, cut off), but what is put out is attributed to  *)
(* the peer index table in force when its record is taken; and only a      *)
(* PEER_INDEX_TABLE record changes which table that is.                    *)
(***************************************************************************)
EXTENDS Naturals, Sequences

\* What a record can be to the user; a table that does not parse is "OTHER".
LogKinds == {"PEER_INDEX_TABLE", "RIB", "RIB_GENERIC", "TABLE_DUMP", "BGP4MP", "OTHER"}

VARIABLES
  layout,       \* the kinds of the records of the file, in order
  next,         \* the first record not yet taken
  table,        \* the record the table in force was read from (0: none)
  log,          \* what was put out: the record and the table it refers to
  over          \* the program has ended, one way or another

logVars == <<layout, next, table, log, over>>

LogInit ==
  /\ layout \in Seq(LogKinds)
  /\ next = 1
  /\ table = 0
  /\ log = << >>
  /\ over = FALSE

Remaining == ~over /\ next <= Len(layout)

TakeTable ==
  /\ Remaining
  /\ layout[next] = "PEER_INDEX_TABLE"
  /\ table' = next
  /\ next' = next + 1
  /\ UNCHANGED <<layout, log, over>>

TakeAndPutOut ==
  /\ Remaining
  /\ layout[next] \notin {"PEER_INDEX_TABLE", "OTHER"}
  /\ log' = Append(log, [rec |-> next,
                         tbl |-> IF layout[next] \in {"RIB", "RIB_GENERIC"}
                                 THEN table ELSE 0])
  /\ next' = next + 1
  /\ UNCHANGED <<layout, table, over>>

LeaveOut ==
  /\ Remaining
  /\ next' = next + 1
  /\ UNCHANGED <<layout, table, log, over>>

End ==
  /\ ~over
  /\ over' = TRUE
  /\ UNCHANGED <<layout, next, table, log>>

LogNext == TakeTable \/ TakeAndPutOut \/ LeaveOut \/ End

LogSpec == LogInit /\ [][LogNext]_logVars

=============================================================================
