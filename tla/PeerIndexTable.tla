---------------------------- MODULE PeerIndexTable ----------------------------
(***************************************************************************)
(* The constructor of MRTTblDumpV2PeerIndexTbl: a view name that is taken  *)
(* octet by octet with get(), which does not fail at the end, and as many  *)
(* entries as the count says, each of one of four layouts told by its own  *)
(* first octet.  MRTCommonHeader knows of this only whether it parses and  *)
(* how many entries there are.                                             *)
(***************************************************************************)
EXTENDS OctetStream, Sequences, FiniteSets

CONSTANTS
  ViewNameLengths,   \* up to 2^16 - 1
  PeerCounts         \* up to 2^16 - 1

ASSUME TableInputsAssumption == ViewNameLengths \subseteq Nat /\ PeerCounts \subseteq Nat

VARIABLES viewNameLength, peerCount, peerEntries

table == <<viewNameLength, peerCount, peerEntries>>

InitTable ==
  /\ viewNameLength = 0
  /\ peerCount = 0
  /\ peerEntries = << >>

PeerEntries == [ipv6 : BOOLEAN, isAS4 : BOOLEAN]

\* Type, BGP identifier, address, AS number.
EntryOctets(e) == 1 + 4 + (IF e.ipv6 THEN 16 ELSE 4) + (IF e.isAS4 THEN 4 ELSE 2)

\* The collector's identifier and the length of the view's name.
ReadCollector ==
  /\ pc = "collector"
  /\ \/ Take(4 + 2, "viewName") /\ viewNameLength' \in ViewNameLengths
     \/ ~Has(4 + 2) /\ Refuse /\ UNCHANGED viewNameLength
  /\ UNCHANGED <<size, peerCount, peerEntries>>

\* A name that goes on after the end gets as many characters all the same, but
\* the count of peers cannot be read then.
ReadViewName ==
  /\ pc = "viewName"
  /\ \/ Take(viewNameLength + 2, "peerEntries") /\ peerCount' \in PeerCounts
     \/ ~Has(viewNameLength + 2) /\ Refuse /\ UNCHANGED peerCount
  /\ UNCHANGED <<size, viewNameLength, peerEntries>>

\* A bug: the error is tested once, before the loop over the entries.
ReadPeerEntryUnchecked ==
  /\ pc = "peerEntries"
  /\ Len(peerEntries) < peerCount
  /\ \E e \in PeerEntries :
       /\ pos' = IF Has(EntryOctets(e)) THEN pos + EntryOctets(e) ELSE size
       /\ peerEntries' = Append(peerEntries, e)
  /\ UNCHANGED <<size, pc, viewNameLength, peerCount>>

ReadPeerEntry ==
  /\ pc = "peerEntries"
  /\ Len(peerEntries) < peerCount
  /\ \E e \in PeerEntries :
       \/ Take(EntryOctets(e), pc) /\ peerEntries' = Append(peerEntries, e)
       \/ ~Has(EntryOctets(e)) /\ Refuse /\ UNCHANGED peerEntries
  /\ UNCHANGED <<size, viewNameLength, peerCount>>

EndOfTable ==
  /\ pc = "peerEntries"
  /\ Len(peerEntries) = peerCount
  /\ pc' = "accepted"
  /\ UNCHANGED <<size, pos, table>>

NextTable == ReadCollector \/ ReadViewName \/ ReadPeerEntry \/ EndOfTable

\* The octets of the entries read: the least that each has, and what the layouts add to it.
EntriesOctets ==
  11 * Len(peerEntries)
  + 12 * Cardinality({i \in DOMAIN peerEntries : peerEntries[i].ipv6})
  + 2 * Cardinality({i \in DOMAIN peerEntries : peerEntries[i].isAS4})

=============================================================================
