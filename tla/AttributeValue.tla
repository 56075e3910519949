---------------------------- MODULE AttributeValue ----------------------------
(***************************************************************************)
(* The value of a path attribute: AttributeType::newAttribute takes the    *)
(* octets out of the message or record, makes a stream over them alone and *)
(* calls the constructor for the type.  BGPUpdate and RibRecord say of the *)
(* same call only what it takes and that it may refuse.                    *)
(*                                                                         *)
(* Three kinds of constructor: a fixed layout, which ignores octets beyond *)
(* it; a list that goes on until a peek finds the end; and a list that     *)
(* counts octets down beside the stream, in integers of two signs.         *)
(***************************************************************************)
EXTENDS OctetStream

CONSTANTS
  Lengths,          \* attribute lengths met: up to 2^16 - 1
  FirstOctets,      \* the first octet of an MP_REACH_NLRI: up to 255
  NextHopLengths,   \* the lengths of next hops in the full encoding: up to 255
  PrefixLens,       \* the prefix lengths met in routes: up to 255
  SegmentLens,      \* how many numbers a segment of a path says it has: up to 255
  CountModulus      \* 2^32: CLUSTER_LIST counts in a uint32_t

AddressSize == [IPv4 |-> 4, IPv6 |-> 16]
MaxPrefixLen == 8 * AddressSize["IPv6"]

ASSUME ValueInputsAssumption ==
  /\ Lengths \subseteq Nat /\ FirstOctets \subseteq Nat /\ NextHopLengths \subseteq Nat
  /\ PrefixLens \subseteq Nat /\ SegmentLens \subseteq Nat
  /\ CountModulus \in Nat \ {0} /\ \A n \in Lengths : n < CountModulus

PeekedLists == {"AS_PATH", "NEW_AS_PATH", "COMMUNITIES", "EXT_COMMUNITIES"}

Types ==
  {"ORIGIN", "NEXT_HOP", "MULTI_EXIT_DISC", "LOCAL_PREF", "ATOMIC_AGGREGATE", "AGGREGATOR",
   "ORIGINATOR_ID", "CLUSTER_LIST", "MP_REACH_NLRI", "MP_UNREACH_NLRI", "NEW_AGGREGATOR",
   "ANY"} \cup PeekedLists

VARIABLES
  type, isAS4,            \* what newAttribute is called with
  elements,               \* segments, communities, clusters or routes so far
  asns,                   \* numbers in the segments
  left,                   \* the count beside the stream
  nextHopAddressLength,
  nextHopOctets,          \* octets written from nextHopAddress on, two addresses long
  abbreviated             \* the encoding of TABLE_DUMP_V2 was recognised

counts == <<elements, asns, left>>
nextHop == <<nextHopAddressLength, nextHopOctets, abbreviated>>
vars == <<size, pos, pc, type, isAS4, counts, nextHop>>

Init ==
  /\ size \in Lengths
  /\ pos = 0
  /\ pc = "newAttribute"
  /\ type \in Types
  /\ isAS4 \in BOOLEAN
  /\ elements = 0
  /\ asns = 0
  /\ left = 0
  /\ nextHopAddressLength = 0
  /\ nextHopOctets = 0
  /\ abbreviated = FALSE

(***************************************************************************)
(* The value is cut out whole or not at all; one of no octets is not read, *)
(* and the stream over it has no buffer.                                   *)
(***************************************************************************)
NewAttribute ==
  /\ pc = "newAttribute"
  /\ \/ size > 0 /\ Refuse /\ UNCHANGED left
     \/ /\ pc' = type
        /\ left' = IF type = "CLUSTER_LIST" THEN size ELSE 0
        /\ UNCHANGED pos
  /\ UNCHANGED <<size, type, isAS4, elements, asns, nextHop>>

-----------------------------------------------------------------------------
(* Fixed layouts                                                           *)

Fixed(t, octets) ==
  /\ pc = t
  /\ TakeOrRefuse(octets, "accepted")
  /\ UNCHANGED <<size, type, isAS4, counts, nextHop>>

Origin == Fixed("ORIGIN", 1)
MultiExitDisc == Fixed("MULTI_EXIT_DISC", 4)
LocalPref == Fixed("LOCAL_PREF", 4)
OriginatorID == Fixed("ORIGINATOR_ID", 4)
AtomicAggregate == Fixed("ATOMIC_AGGREGATE", 0)
UnknownAttribute == Fixed("ANY", 0)

\* The one fixed layout that tests its length.
NextHop ==
  /\ pc = "NEXT_HOP"
  /\ \/ \E f \in DOMAIN AddressSize : size = AddressSize[f] /\ Take(size, "accepted")
     \/ (\A f \in DOMAIN AddressSize : size # AddressSize[f]) /\ Refuse
  /\ UNCHANGED <<size, type, isAS4, counts, nextHop>>

\* The width of the number is told by the length, not by isAS4.
ASNumberSize == IF size = 6 THEN 2 ELSE 4

Aggregator == Fixed("AGGREGATOR", ASNumberSize + AddressSize["IPv4"])
AS4Aggregator == Fixed("NEW_AGGREGATOR", ASNumberSize + AddressSize["IPv4"])

-----------------------------------------------------------------------------
(* Lists read until a peek finds the end                                   *)

\* peek() gives -1 at the end, and through a null buffer too.
AtEnd == pos = size

PeekEnd ==
  /\ pc \in PeekedLists
  /\ AtEnd
  /\ pc' = "accepted"
  /\ UNCHANGED <<size, pos, type, isAS4, counts, nextHop>>

\* AS_PATH goes by the record it is in, AS4_PATH has 4 octets anywhere.
SegmentNumberSize == IF type = "NEW_AS_PATH" \/ isAS4 THEN 4 ELSE 2

\* A segment: its type, how many numbers it has, and the numbers one at a time.
Segment(n) ==
  \/ /\ Take(2 + n * SegmentNumberSize, pc)
     /\ asns' = asns + n
     /\ elements' = elements + 1
  \/ /\ ~Has(2 + n * SegmentNumberSize)
     /\ Refuse
     /\ UNCHANGED <<elements, asns>>

ASPathSegment ==
  /\ pc \in {"AS_PATH", "NEW_AS_PATH"}
  /\ ~AtEnd
  /\ \E n \in SegmentLens : Segment(n)
  /\ UNCHANGED <<size, type, isAS4, left, nextHop>>

Element(t, octets) ==
  /\ pc = t
  /\ ~AtEnd
  /\ \/ Take(octets, pc) /\ elements' = elements + 1
     \/ ~Has(octets) /\ Refuse /\ UNCHANGED elements
  /\ UNCHANGED <<size, type, isAS4, asns, left, nextHop>>

Community == Element("COMMUNITIES", 4)
ExtCommunity == Element("EXT_COMMUNITIES", 1 + 1 + 6)

-----------------------------------------------------------------------------
(* Lists with a count beside the stream                                    *)

\* A bug: a short read is not noticed.
ClusterUnchecked ==
  /\ pos' = IF Has(4) THEN pos + 4 ELSE size
  /\ left' = (left - 4) % CountModulus
  /\ UNCHANGED <<pc, elements>>

Cluster ==
  \/ /\ Take(4, pc)
     /\ elements' = elements + 1
     /\ left' = (left - 4) % CountModulus
  \/ ~Has(4) /\ Refuse /\ UNCHANGED <<elements, left>>

ClusterList ==
  /\ pc = "CLUSTER_LIST"
  /\ \/ left > 0 /\ Cluster
     \/ left = 0 /\ pc' = "accepted" /\ UNCHANGED <<pos, elements, left>>
  /\ UNCHANGED <<size, type, isAS4, asns, nextHop>>

\* length == 1 + testLength
IsAbbreviated(first) == size = 1 + first

(***************************************************************************)
(* MP_REACH_NLRI of TABLE_DUMP_V2: a length and a next hop, nothing else.  *)
(* The next hop is copied to nextHopAddress whatever its length: up to 32  *)
(* octets run on into nextHopAddressLocal, which comes next, and more into *)
(* what is not theirs.  A next hop of no octets is read for an error, and  *)
(* so is the peek of an empty value.                                       *)
(***************************************************************************)
MPReachPeek ==
  /\ pc = "MP_REACH_NLRI"
  /\ \/ AtEnd /\ Refuse /\ UNCHANGED nextHop
     \/ ~AtEnd /\ \E first \in FirstOctets :
          \/ /\ IsAbbreviated(first)
             /\ first > 0
             /\ TakeOrRefuse(1 + first, IF first > 2 * AddressSize["IPv6"] THEN "overrun"
                                        ELSE "accepted")
             /\ nextHopAddressLength' = first
             /\ nextHopOctets' = first
             /\ abbreviated' = TRUE
          \/ /\ IsAbbreviated(first)
             /\ first = 0
             /\ Refuse
             /\ UNCHANGED nextHop
          \/ /\ ~IsAbbreviated(first)
             /\ pc' = "nextHop"
             /\ UNCHANGED <<pos, nextHop>>
  /\ UNCHANGED <<size, type, isAS4, counts>>

\* A bug: the link-local half of a next hop is left where it is.
NextHopSizeGlobal(n) == IF n \in {16, 32} THEN 16 ELSE IF n = 4 THEN 4 ELSE 0

\* The next hops that are read; of any other length nothing is.
NextHopSize(n) == IF n \in {4, 16, 32} THEN n ELSE 0

\* AFI, SAFI, the next hop's length, the next hop, the number of SNPAs.
MPReachNextHop ==
  /\ pc = "nextHop"
  /\ \E n \in NextHopLengths :
       LET octets == 2 + 1 + 1 + NextHopSize(n) + 1 IN
       \/ /\ Take(octets, "snpa")
          /\ nextHopAddressLength' = n
          /\ nextHopOctets' = NextHopSize(n)
          /\ left' = size - 2 - 1 - 1 - n - 1
       \/ ~Has(octets) /\ Refuse /\ UNCHANGED <<nextHopAddressLength, nextHopOctets, left>>
  /\ UNCHANGED <<size, type, isAS4, elements, asns, abbreviated>>

\* The skip over an SNPA must return the SNPA's length, but io::seek returns the
\* position it ends at, which is always more: an attribute with SNPAs is refused.
MPReachSNPA ==
  /\ pc = "snpa"
  /\ \/ pc' = "routes" /\ UNCHANGED pos
     \/ Refuse
  /\ UNCHANGED <<size, type, isAS4, counts, nextHop>>

\* AFI and SAFI, each of one of two values or refused.
MPUnreachFamily ==
  /\ pc = "MP_UNREACH_NLRI"
  /\ \/ Take(2 + 1, "routes") /\ left' = size - 2 - 1
     \/ Refuse /\ UNCHANGED left
  /\ UNCHANGED <<size, type, isAS4, elements, asns, nextHop>>

NumOctets(prefixLen) == prefixLen \div 8 + (IF prefixLen % 8 = 0 THEN 0 ELSE 1)

Readable(prefixLen) == prefixLen <= MaxPrefixLen /\ Has(1 + NumOctets(prefixLen))

\* One turn of the loop over routes of either attribute, or its end.
Routes ==
  /\ pc = "routes"
  /\ \/ /\ left > 0
        /\ \E p \in PrefixLens :
             \/ /\ Readable(p)
                /\ Take(1 + NumOctets(p), pc)
                /\ left' = left - (1 + NumOctets(p))
                /\ elements' = elements + 1
             \/ ~Readable(p) /\ Refuse /\ UNCHANGED <<left, elements>>
     \/ left <= 0 /\ pc' = "accepted" /\ UNCHANGED <<pos, left, elements>>
  /\ UNCHANGED <<size, type, isAS4, asns, nextHop>>

-----------------------------------------------------------------------------

\* The constructor has returned, thrown, or written where it must not.
Stop == (Ended \/ pc = "overrun") /\ UNCHANGED vars

Next ==
  \/ NewAttribute
  \/ Origin \/ MultiExitDisc \/ LocalPref \/ OriginatorID \/ AtomicAggregate
  \/ UnknownAttribute \/ NextHop \/ Aggregator \/ AS4Aggregator
  \/ ASPathSegment \/ Community \/ ExtCommunity \/ PeekEnd
  \/ ClusterList
  \/ MPReachPeek \/ MPReachNextHop \/ MPReachSNPA \/ MPUnreachFamily \/ Routes
  \/ Stop

\* A constructor runs to its end.
Spec == Init /\ [][Next]_vars /\ WF_vars(Next)

-----------------------------------------------------------------------------
(* Properties                                                              *)

Lists == PeekedLists \cup {"CLUSTER_LIST", "MP_REACH_NLRI", "MP_UNREACH_NLRI"}

\* The variables hold values of their types; the value is never passed.
TypeOK ==
  /\ size \in Lengths
  /\ pos \in 0 .. size
  /\ pc \in Types \cup {"newAttribute", "nextHop", "snpa", "routes",
                       "accepted", "refused", "overrun"}
  /\ type \in Types
  /\ isAS4 \in BOOLEAN
  /\ elements \in Nat
  /\ asns \in Nat
  /\ left \in Int
  /\ type = "CLUSTER_LIST" => left \in 0 .. CountModulus - 1
  /\ nextHopAddressLength \in Nat
  /\ nextHopOctets \in Nat
  /\ abbreviated \in BOOLEAN

(***************************************************************************)
(* A list that is accepted was read to its last octet, whether the loop    *)
(* goes by the stream, by an unsigned count that would wrap, or by a       *)
(* signed one that an overshoot ends.  What may stay unread of an accepted *)
(* MP_REACH_NLRI is no more than the next hop that was not; the next hops  *)
(* speakers send are stored whole.                                         *)
(***************************************************************************)
WholeValueRead ==
  pc = "accepted" /\ type \in Lists =>
    /\ size - pos <= nextHopAddressLength - nextHopOctets
    /\ nextHopAddressLength \in {4, 16, 32} => nextHopOctets = nextHopAddressLength

\* Every value is accepted or refused, or overruns its object: no count keeps a loop going.
Decides == <>(Ended \/ pc = "overrun")

=============================================================================
