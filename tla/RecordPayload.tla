---------------------------- MODULE RecordPayload -----------------------------
(***************************************************************************)
(* The payloads of the records that are not routes: BGP4MP messages and    *)
(* state changes, in both widths of AS numbers, and peer index tables.     *)
(* MRTCommonHeader takes from here that a payload parses or does not.      *)
(***************************************************************************)
EXTENDS BGPMessage, PeerIndexTable

CONSTANT RecordLengths   \* octets of a payload

ASSUME RecordInputsAssumption == RecordLengths \subseteq Nat

MessageKinds == {"BGP4MP_MESSAGE", "BGP4MP_MESSAGE_AS4"}
StateChangeKinds == {"BGP4MP_STATE_CHANGE", "BGP4MP_STATE_CHANGE_AS4"}
Kinds == MessageKinds \cup StateChangeKinds \cup {"PEER_INDEX_TABLE"}

VARIABLE kind

vars == <<size, pos, pc, message, parameters, table, kind>>

Init ==
  /\ kind \in Kinds
  /\ size \in RecordLengths
  /\ pos = 0
  /\ pc = IF kind = "PEER_INDEX_TABLE" THEN "collector" ELSE "peers"
  /\ InitMessage
  /\ InitTable

\* Two AS numbers, the interface, the address family.
PacketSize ==
  IF kind \in {"BGP4MP_MESSAGE_AS4", "BGP4MP_STATE_CHANGE_AS4"} THEN 4 + 4 + 2 + 2
  ELSE 2 + 2 + 2 + 2

(***************************************************************************)
(* processIPs: the addresses of the peer and of the collector.  For any    *)
(* other family two reads of no octets are made, which report an error.    *)
(***************************************************************************)
ReadPeers(kinds, next) ==
  /\ pc = "peers"
  /\ kind \in kinds
  /\ \/ \E addressSize \in {4, 16} : TakeOrRefuse(PacketSize + 2 * addressSize, next)
     \/ Refuse
  /\ UNCHANGED <<size, message, parameters, table, kind>>

ReadMessagePeers == ReadPeers(MessageKinds, "header")
ReadStateChangePeers == ReadPeers(StateChangeKinds, "states")

\* processStates
ReadStates ==
  /\ pc = "states"
  /\ TakeOrRefuse(2 + 2, "accepted")
  /\ UNCHANGED <<size, message, parameters, table, kind>>

Stop == Ended /\ UNCHANGED vars

Next ==
  \/ ReadMessagePeers
  \/ ReadStateChangePeers
  \/ ReadStates
  \/ NextMessage /\ UNCHANGED <<table, kind>>
  \/ NextTable /\ UNCHANGED <<message, parameters, kind>>
  \/ Stop

\* A constructor runs to its end.
Spec == Init /\ [][Next]_vars /\ WF_vars(Next)

-----------------------------------------------------------------------------
(* Properties                                                              *)

\* The variables hold values of their types; no stream is passed.
TypeOK ==
  /\ kind \in Kinds
  /\ size \in Nat
  /\ pos \in 0 .. size
  /\ pc \in MessageTypes \cup {"peers", "states", "header", "optParams", "collector",
                              "viewName", "peerEntries", "accepted", "refused"}
  /\ type \in MessageTypes \cup {"NONE"}
  /\ data \in 0 .. CountModulus - 1
  /\ optParmLen \in OptParmLens \cup {0}
  /\ left \in Int
  /\ optParams \in Nat
  /\ filled \in BOOLEAN
  /\ viewNameLength \in ViewNameLengths \cup {0}
  /\ peerCount \in PeerCounts \cup {0}
  /\ peerEntries \in Seq(PeerEntries)

(***************************************************************************)
(* A NOTIFICATION that is accepted was read to its last octet and not      *)
(* beyond: its data length is 21 less than the message's, as the comment   *)
(* over the constructor has it, although it is worked out in unsigned      *)
(* numbers and the stream would give more.                                 *)
(***************************************************************************)
NotificationExact == pc = "accepted" /\ type = "NOTIFICATION" => pos = data

(***************************************************************************)
(* No parameter is lost to a short read: an OPEN that is accepted, each    *)
(* capability of which fills its parameter, was read at least as far as    *)
(* its optional parameters go, whether a parameter was read or skipped and *)
(* whatever the loop counts of it.                                         *)
(***************************************************************************)
OpenWhole ==
  pc = "accepted" /\ type = "OPEN" /\ filled => pos >= FixedOpen + optParmLen

(***************************************************************************)
(* A peer index table that is accepted has as many entries as it says, and *)
(* each was read whole: no RIB is resolved through an entry made of what a *)
(* short read left.                                                        *)
(***************************************************************************)
PeerTableWhole ==
  pc = "accepted" /\ kind = "PEER_INDEX_TABLE" =>
    /\ Len(peerEntries) = peerCount
    /\ pos = 4 + 2 + viewNameLength + 2 + EntriesOctets

(***************************************************************************)
(* Every payload is accepted or refused.  Parameters of no length are not  *)
(* counted, but each takes octets of the stream.                           *)
(***************************************************************************)
Decides == <>Ended

=============================================================================
