------------------------ MODULE AttributeValue_proofs -------------------------
(***************************************************************************)
(* Proofs about AttributeValue: its types, and that a list which is        *)
(* accepted was read to its end.                                           *)
(***************************************************************************)
EXTENDS AttributeValue, TLAPS

(***************************************************************************)
(* What the counts beside the stream mean: where the octets they believe   *)
(* are left begin, and what they do not know of.                           *)
(***************************************************************************)
Counts ==
  /\ type = "CLUSTER_LIST" /\ pc = "CLUSTER_LIST" => left = size - pos
  /\ pc = "routes" /\ type = "MP_UNREACH_NLRI" => left = size - pos
  /\ pc \in {"snpa", "routes"} /\ type = "MP_REACH_NLRI" =>
       size - pos = left + nextHopAddressLength - nextHopOctets

\* Which constructor control is in.
InConstructor ==
  /\ pc \in {"newAttribute", "MP_REACH_NLRI", "MP_UNREACH_NLRI", "nextHop"} => pos = 0
  /\ pc \in Types => pc = type
  /\ pc \in {"nextHop", "snpa"} => type = "MP_REACH_NLRI"
  /\ pc = "routes" => type \in {"MP_REACH_NLRI", "MP_UNREACH_NLRI"}

\* A next hop is stored whole if it is of a length speakers send.
NextHopStored ==
  \/ nextHopAddressLength = nextHopOctets
  \/ nextHopOctets = 0 /\ nextHopAddressLength \notin {4, 16, 32}

IInv == TypeOK /\ InConstructor /\ Counts /\ NextHopStored /\ WholeValueRead

\* Init establishes the invariant.
LEMMA Initially == Init => IInv
<1> SUFFICES ASSUME Init PROVE IInv
    OBVIOUS
<1> USE DEF Init
<1>1. TypeOK
  <2>1. pos \in 0 .. size
    BY ValueInputsAssumption
  <2>2. left \in Int /\ left \in 0 .. CountModulus - 1
    BY ValueInputsAssumption
  <2> QED
    BY <2>1, <2>2 DEF TypeOK
<1>2. pc \notin Types /\ pc = "newAttribute"
  BY DEF Types, PeekedLists
<1>3. InConstructor /\ Counts
  BY <1>2 DEF InConstructor, Counts
<1>4. NextHopStored /\ WholeValueRead
  BY <1>2 DEF NextHopStored, WholeValueRead
<1> QED
  BY <1>1, <1>3, <1>4 DEF IInv

-----------------------------------------------------------------------------
(* What is counted                                                         *)

\* A count that does not go below zero does not wrap.
LEMMA NoWrap ==
  ASSUME NEW M \in Nat \ {0}, NEW n \in 0 .. M - 1 PROVE n % M = n
BY SMT

LEMMA OctetsNat ==
  /\ \A p \in Nat : NumOctets(p) \in Nat
  /\ \A n \in Nat : n * SegmentNumberSize \in Nat
  /\ \A n \in Nat : NextHopSize(n) \in Nat /\ NextHopSize(n) \in {0, n}
BY DEF NumOctets, SegmentNumberSize, NextHopSize

\* A read ends within the value, at once after it or with a refusal.
LEMMA TakeStays ==
  ASSUME size \in Nat, pos \in 0 .. size, NEW n \in Nat, NEW next, TakeOrRefuse(n, next)
  PROVE  /\ pos' \in 0 .. size
         /\ \/ pc' = next /\ pos' = pos + n
            \/ pc' = "refused" /\ pos' = pos
BY DEF TakeOrRefuse, Take, Refuse, Has

-----------------------------------------------------------------------------
(* Steps                                                                   *)

Unchanged == UNCHANGED <<size, type, isAS4>>

\* The end of a value that is no list, or a refusal of any, disturbs nothing.
LEMMA EndingKeeps ==
  ASSUME IInv, UNCHANGED <<size, type, isAS4, counts, nextHop>>, pos' \in 0 .. size,
         \/ pc' = "refused"
         \/ pc' = "accepted" /\ type \notin Lists
  PROVE  IInv'
<1> USE DEF IInv, counts, nextHop
<1>1. TypeOK'
  BY DEF TypeOK
<1>2. pc' \notin Types
  BY DEF Types, PeekedLists
<1>3. InConstructor' /\ Counts' /\ NextHopStored' /\ WholeValueRead'
  BY <1>2 DEF InConstructor, Counts, NextHopStored, WholeValueRead
<1> QED
  BY <1>1, <1>3

\* The constructors of a fixed layout.
LEMMA FixedKeeps ==
  ASSUME IInv, NEW t \in Types \ Lists, NEW n \in Nat, Fixed(t, n) PROVE IInv'
<1>1. type = t
  BY DEF Fixed, IInv, InConstructor
<1>2. size \in Nat /\ pos \in 0 .. size
  BY ValueInputsAssumption DEF IInv, TypeOK
<1>3. pos' \in 0 .. size /\ pc' \in {"accepted", "refused"}
  BY <1>2, TakeStays DEF Fixed
<1> QED
  BY <1>1, <1>3, EndingKeeps DEF Fixed

LEMMA NextHopKeeps == IInv /\ NextHop => IInv'
<1> SUFFICES ASSUME IInv, NextHop PROVE IInv'
  OBVIOUS
<1>1. type = "NEXT_HOP" /\ size \in Nat /\ pos \in 0 .. size
  BY ValueInputsAssumption DEF NextHop, IInv, InConstructor, TypeOK, Types
<1>2. pos' \in 0 .. size /\ pc' \in {"accepted", "refused"}
  BY <1>1 DEF NextHop, Take, Refuse, Has
<1>3. type \notin Lists
  BY <1>1 DEF Lists, PeekedLists
<1> QED
  BY <1>2, <1>3, EndingKeeps DEF NextHop

\* The value is cut out: its constructor begins, CLUSTER_LIST with a count of all of it.
LEMMA NewAttributeKeeps == IInv /\ NewAttribute => IInv'
<1> SUFFICES ASSUME IInv, NewAttribute PROVE IInv'
  OBVIOUS
<1> USE DEF IInv
<1>1. CASE Refuse /\ UNCHANGED left
  <2>1. pos' \in 0 .. size /\ pc' = "refused"
    BY <1>1 DEF Refuse, TypeOK
  <2> QED
    BY <1>1, <2>1, EndingKeeps DEF NewAttribute, counts
<1>2. CASE /\ pc' = type /\ UNCHANGED pos
           /\ left' = IF type = "CLUSTER_LIST" THEN size ELSE 0
  <2>0. pc = "newAttribute" /\ Unchanged /\ UNCHANGED <<elements, asns, nextHop>>
    BY DEF NewAttribute, Unchanged
  <2> USE DEF Unchanged, nextHop
  <2>1. /\ size \in Nat /\ size < CountModulus /\ CountModulus \in Nat /\ CountModulus > 0
    BY ValueInputsAssumption DEF TypeOK
  <2>2. left' \in Int /\ left' \in 0 .. CountModulus - 1
    BY <1>2, <2>1
  <2>3. TypeOK'
    BY <1>2, <2>0, <2>2 DEF TypeOK
  <2>4. type \in Types \ {"accepted", "nextHop", "snpa", "routes"}
    BY DEF TypeOK, Types, PeekedLists
  <2>5. InConstructor' /\ NextHopStored' /\ WholeValueRead'
    BY <1>2, <2>0, <2>4 DEF InConstructor, NextHopStored, WholeValueRead
  <2>6. pos' = 0
    BY <1>2, <2>0 DEF InConstructor
  <2>7. Counts'
    BY <1>2, <2>0, <2>1, <2>4, <2>6 DEF Counts
  <2> QED
    BY <2>3, <2>5, <2>7
<1> QED
  BY <1>1, <1>2 DEF NewAttribute

\* An element of a list that a peek ends.
LEMMA ElementKeeps ==
  ASSUME IInv, pc \in PeekedLists, pc' = pc, pos' \in 0 .. size, elements' \in Nat, asns' \in Nat,
         UNCHANGED <<size, type, isAS4, left, nextHop>>
  PROVE  IInv'
<1> USE DEF IInv, nextHop
<1>1. TypeOK'
  BY DEF TypeOK
<1>2. pc' = type /\ type \in PeekedLists
  BY DEF InConstructor, Types
<1>3. pc' \notin {"newAttribute", "nextHop", "snpa", "routes", "accepted", "CLUSTER_LIST",
                  "MP_REACH_NLRI", "MP_UNREACH_NLRI"}
  BY <1>2 DEF PeekedLists
<1>4. InConstructor' /\ Counts' /\ NextHopStored' /\ WholeValueRead'
  BY <1>2, <1>3 DEF InConstructor, Counts, NextHopStored, WholeValueRead
<1> QED
  BY <1>1, <1>4

LEMMA PeekedListsKeep ==
  IInv /\ (ASPathSegment \/ Community \/ ExtCommunity \/ PeekEnd) => IInv'
<1> SUFFICES ASSUME IInv PROVE ASPathSegment \/ Community \/ ExtCommunity \/ PeekEnd => IInv'
  OBVIOUS
<1>0. /\ size \in Nat /\ pos \in 0 .. size /\ elements \in Nat /\ asns \in Nat
      /\ SegmentLens \subseteq Nat
  BY ValueInputsAssumption DEF IInv, TypeOK
<1>1. ASSUME ASPathSegment PROVE IInv'
  <2>1. PICK n \in SegmentLens : Segment(n)
    BY <1>1 DEF ASPathSegment
  <2> DEFINE octets == 2 + n * SegmentNumberSize
  <2>2. n \in Nat /\ octets \in Nat
    BY <1>0, OctetsNat
  <2> HIDE DEF octets
  <2>3. CASE Take(octets, pc) /\ asns' = asns + n /\ elements' = elements + 1
    <3>1. pos' \in 0 .. size /\ pc' = pc /\ asns' \in Nat /\ elements' \in Nat
      BY <1>0, <2>2, <2>3 DEF Take, Has
    <3>2. pc \in PeekedLists
      BY <1>1 DEF ASPathSegment, PeekedLists
    <3> QED
      BY <1>1, <3>1, <3>2, ElementKeeps DEF ASPathSegment
  <2>4. CASE Refuse /\ UNCHANGED <<elements, asns>>
    BY <1>0, <1>1, <2>4, EndingKeeps DEF ASPathSegment, Refuse, counts
  <2> QED
    BY <2>1, <2>3, <2>4 DEF Segment, octets
<1>2. ASSUME NEW t \in PeekedLists, NEW n \in Nat, Element(t, n) PROVE IInv'
  <2>1. CASE Take(n, pc) /\ elements' = elements + 1
    <3>1. pos' \in 0 .. size /\ pc' = pc /\ asns' \in Nat /\ elements' \in Nat
      BY <1>0, <1>2, <2>1 DEF Take, Has, Element
    <3> QED
      BY <1>2, <3>1, ElementKeeps DEF Element
  <2>2. CASE Refuse /\ UNCHANGED elements
    BY <1>0, <1>2, <2>2, EndingKeeps DEF Element, Refuse, counts
  <2> QED
    BY <1>2, <2>1, <2>2 DEF Element
<1>3. ASSUME Community \/ ExtCommunity PROVE IInv'
  BY <1>2, <1>3 DEF Community, ExtCommunity, PeekedLists
<1>4. ASSUME PeekEnd PROVE IInv'
  <2> USE <1>4 DEF PeekEnd, IInv, counts, nextHop
  <2>1. TypeOK'
    BY DEF TypeOK
  <2>2. pc' = "accepted" /\ pc' \notin Types
    BY DEF Types, PeekedLists
  <2>3. type \in PeekedLists /\ pc = type
    BY DEF InConstructor, Types
  <2>4. nextHopAddressLength' - nextHopOctets' >= 0
    BY DEF TypeOK, NextHopStored
  <2>5. WholeValueRead'
    BY <1>0, <2>4 DEF WholeValueRead, NextHopStored, AtEnd, TypeOK
  <2>6. InConstructor' /\ Counts' /\ NextHopStored'
    BY <2>2 DEF InConstructor, Counts, NextHopStored
  <2> QED
    BY <2>1, <2>5, <2>6
<1> QED
  BY <1>1, <1>3, <1>4

\* The count of CLUSTER_LIST is what the stream has left, so it never wraps.
LEMMA ClusterListKeeps == IInv /\ ClusterList => IInv'
<1> SUFFICES ASSUME IInv, ClusterList PROVE IInv'
  OBVIOUS
<1>0. /\ size \in Nat /\ pos \in 0 .. size /\ elements \in Nat
      /\ type = "CLUSTER_LIST" /\ pc = "CLUSTER_LIST" /\ left = size - pos
      /\ CountModulus \in Nat \ {0} /\ size < CountModulus
  BY ValueInputsAssumption DEF ClusterList, IInv, TypeOK, InConstructor, Counts, Types
<1> USE DEF IInv, ClusterList, nextHop
<1>1. CASE Take(4, pc) /\ elements' = elements + 1 /\ left' = (left - 4) % CountModulus
  <2>1. left - 4 \in 0 .. CountModulus - 1 /\ left - 4 = size - (pos + 4)
    BY <1>0, <1>1 DEF Take, Has
  <2>2. left' = left - 4
    BY <1>0, <1>1, <2>1, NoWrap
  <2>3. pos' \in 0 .. size /\ pos' = pos + 4 /\ pc' = "CLUSTER_LIST" /\ elements' \in Nat
    BY <1>0, <1>1 DEF Take, Has
  <2>4. left' = size - pos' /\ left' \in 0 .. CountModulus - 1
    BY <1>0, <2>1, <2>2, <2>3
  <2>5. TypeOK'
    BY <1>0, <2>3, <2>4 DEF TypeOK
  <2> QED
    BY <1>0, <2>3, <2>4, <2>5 DEF InConstructor, Counts, NextHopStored, WholeValueRead
<1>2. CASE Refuse /\ UNCHANGED <<elements, left>>
  BY <1>0, <1>2, EndingKeeps DEF Refuse, counts
<1>3. CASE left = 0 /\ pc' = "accepted" /\ UNCHANGED <<pos, elements, left>>
  <2>1. TypeOK'
    BY <1>0, <1>3 DEF TypeOK
  <2>2. pc' \notin Types
    BY <1>3 DEF Types, PeekedLists
  <2>3. nextHopAddressLength' - nextHopOctets' >= 0
    BY DEF TypeOK, NextHopStored
  <2> QED
    BY <1>0, <1>3, <2>1, <2>2, <2>3
       DEF InConstructor, Counts, NextHopStored, WholeValueRead, TypeOK
<1> QED
  BY <1>1, <1>2, <1>3 DEF Cluster

\* The multiprotocol attributes read something of a value of their own.
LEMMA MPReachPeekKeeps == IInv /\ MPReachPeek => IInv'
<1> SUFFICES ASSUME IInv, MPReachPeek PROVE IInv'
  OBVIOUS
<1>0. /\ size \in Nat /\ pos = 0 /\ type = "MP_REACH_NLRI" /\ pc = "MP_REACH_NLRI"
      /\ FirstOctets \subseteq Nat
  BY ValueInputsAssumption DEF MPReachPeek, IInv, TypeOK, InConstructor, Types
<1>r. ASSUME Refuse, UNCHANGED nextHop PROVE IInv'
  BY <1>0, <1>r, EndingKeeps DEF MPReachPeek, Refuse
<1>1. CASE AtEnd /\ Refuse /\ UNCHANGED nextHop
  BY <1>1, <1>r
<1>2. ASSUME NEW first \in FirstOctets, IsAbbreviated(first), first > 0,
             TakeOrRefuse(1 + first, IF first > 2 * AddressSize["IPv6"] THEN "overrun"
                                     ELSE "accepted"),
             nextHopAddressLength' = first, nextHopOctets' = first, abbreviated' = TRUE
      PROVE  IInv'
  <2>1. /\ pos' = size /\ pos' \in 0 .. size
        /\ pc' \in {"overrun", "accepted"}
    BY <1>0, <1>2 DEF TakeOrRefuse, Take, Has, IsAbbreviated
  <2>2. UNCHANGED <<size, type, isAS4, elements, asns, left>>
    BY DEF MPReachPeek, counts
  <2>3. first \in Nat /\ pc' \notin Types
    BY <1>0, <2>1 DEF Types, PeekedLists
  <2>4. TypeOK'
    BY <1>2, <2>1, <2>2, <2>3 DEF IInv, TypeOK
  <2>5. NextHopStored' /\ nextHopAddressLength' = nextHopOctets' /\ size' - pos' = 0
    BY <1>0, <1>2, <2>1, <2>2 DEF NextHopStored
  <2>6. nextHopAddressLength' - nextHopOctets' = 0
    BY <2>3, <1>2
  <2>7. WholeValueRead'
    BY <2>5, <2>6 DEF WholeValueRead
  <2>8. InConstructor' /\ Counts'
    BY <2>1, <2>3 DEF InConstructor, Counts
  <2> QED
    BY <2>4, <2>5, <2>7, <2>8 DEF IInv
<1>3. CASE pc' = "nextHop" /\ UNCHANGED <<pos, nextHop>>
  <2>1. UNCHANGED <<size, type, isAS4, elements, asns, left>>
    BY DEF MPReachPeek, counts
  <2>2. pc' \notin Types
    BY <1>3 DEF Types, PeekedLists
  <2>3. TypeOK'
    BY <1>3, <2>1 DEF IInv, TypeOK, nextHop
  <2>4. InConstructor' /\ Counts' /\ NextHopStored' /\ WholeValueRead'
    BY <1>0, <1>3, <2>1, <2>2
       DEF IInv, InConstructor, Counts, NextHopStored, WholeValueRead, nextHop
  <2> QED
    BY <2>3, <2>4 DEF IInv
<1> QED
  BY <1>1, <1>2, <1>3, <1>r DEF MPReachPeek

LEMMA MPReachNextHopKeeps == IInv /\ MPReachNextHop => IInv'
<1> SUFFICES ASSUME IInv, MPReachNextHop PROVE IInv'
  OBVIOUS
<1>0. /\ size \in Nat /\ pos = 0 /\ type = "MP_REACH_NLRI" /\ pc = "nextHop"
      /\ NextHopLengths \subseteq Nat
  BY ValueInputsAssumption DEF MPReachNextHop, IInv, TypeOK, InConstructor
<1>1. PICK n \in NextHopLengths :
        LET octets == 2 + 1 + 1 + NextHopSize(n) + 1 IN
        \/ /\ Take(octets, "snpa")
           /\ nextHopAddressLength' = n
           /\ nextHopOctets' = NextHopSize(n)
           /\ left' = size - 2 - 1 - 1 - n - 1
        \/ Refuse /\ UNCHANGED <<nextHopAddressLength, nextHopOctets, left>>
  BY DEF MPReachNextHop
<1>2. CASE /\ Take(2 + 1 + 1 + NextHopSize(n) + 1, "snpa")
           /\ nextHopAddressLength' = n
           /\ nextHopOctets' = NextHopSize(n)
           /\ left' = size - 2 - 1 - 1 - n - 1
  <2>1. n \in Nat /\ NextHopSize(n) \in Nat
    BY <1>0, OctetsNat
  <2>2. /\ pos' \in 0 .. size /\ pc' = "snpa" /\ left' \in Int
        /\ size - pos' = left' + n - NextHopSize(n)
    BY <1>0, <1>2, <2>1 DEF Take, Has
  <2>3. UNCHANGED <<size, type, isAS4, elements, asns, abbreviated>>
    BY DEF MPReachNextHop
  <2>4. TypeOK'
    BY <1>0, <1>2, <2>1, <2>2, <2>3 DEF IInv, TypeOK
  <2>5. NextHopStored'
    BY <1>2, <2>1 DEF NextHopStored, NextHopSize
  <2>6. pc' \notin Types
    BY <2>2 DEF Types, PeekedLists
  <2>7. InConstructor' /\ Counts' /\ WholeValueRead'
    BY <1>0, <1>2, <2>2, <2>3, <2>6 DEF InConstructor, Counts, WholeValueRead
  <2> QED
    BY <2>4, <2>5, <2>7 DEF IInv
<1>3. CASE Refuse /\ UNCHANGED <<nextHopAddressLength, nextHopOctets, left>>
  BY <1>0, <1>3, EndingKeeps DEF MPReachNextHop, Refuse, counts, nextHop
<1> QED
  BY <1>1, <1>2, <1>3

LEMMA FamilyKeeps == IInv /\ (MPReachSNPA \/ MPUnreachFamily) => IInv'
<1> SUFFICES ASSUME IInv, MPReachSNPA \/ MPUnreachFamily PROVE IInv'
  OBVIOUS
<1>0. /\ size \in Nat /\ pos \in 0 .. size /\ UNCHANGED <<size, type, isAS4, elements, asns, nextHop>>
  BY ValueInputsAssumption DEF MPReachSNPA, MPUnreachFamily, IInv, TypeOK, counts
<1>1. CASE Refuse /\ UNCHANGED left
  BY <1>0, <1>1, EndingKeeps DEF Refuse, counts
<1>2. ASSUME pc' = "routes", pos' \in 0 .. size, left' \in Int,
             \/ type = "MP_UNREACH_NLRI" /\ left' = size - pos'
             \/ /\ type = "MP_REACH_NLRI"
                /\ size - pos' = left' + nextHopAddressLength - nextHopOctets
      PROVE  IInv'
  <2>1. TypeOK'
    BY <1>0, <1>2 DEF IInv, TypeOK, nextHop
  <2>2. pc' \notin Types
    BY <1>2 DEF Types, PeekedLists
  <2> QED
    BY <1>0, <1>2, <2>1, <2>2
       DEF IInv, InConstructor, Counts, NextHopStored, WholeValueRead, nextHop
<1>3. CASE MPReachSNPA
  <2>1. CASE pc' = "routes" /\ UNCHANGED pos
    <3>1. type = "MP_REACH_NLRI" /\ left' = left /\ left \in Int
      BY <1>3 DEF MPReachSNPA, IInv, InConstructor, TypeOK, counts
    <3>2. size - pos' = left' + nextHopAddressLength - nextHopOctets
      BY <1>3, <2>1, <3>1 DEF MPReachSNPA, IInv, Counts
    <3> QED
      BY <1>0, <1>2, <2>1, <3>1, <3>2
  <2> QED
    BY <1>1, <1>3, <2>1 DEF MPReachSNPA, counts
<1>4. CASE MPUnreachFamily
  <2>1. CASE Take(2 + 1, "routes") /\ left' = size - 2 - 1
    <3>1. type = "MP_UNREACH_NLRI" /\ pos = 0
      BY <1>4 DEF MPUnreachFamily, IInv, InConstructor, Types
    <3>2. pc' = "routes" /\ pos' \in 0 .. size /\ left' \in Int /\ left' = size - pos'
      BY <1>0, <2>1, <3>1 DEF Take, Has
    <3> QED
      BY <1>2, <3>1, <3>2
  <2> QED
    BY <1>1, <1>4, <2>1 DEF MPUnreachFamily
<1> QED
  BY <1>3, <1>4

LEMMA RoutesKeep == IInv /\ Routes => IInv'
<1> SUFFICES ASSUME IInv, Routes PROVE IInv'
  OBVIOUS
<1>0. /\ size \in Nat /\ pos \in 0 .. size /\ left \in Int /\ elements \in Nat
      /\ nextHopAddressLength \in Nat /\ nextHopOctets \in Nat
      /\ pc = "routes" /\ type \in {"MP_REACH_NLRI", "MP_UNREACH_NLRI"}
      /\ PrefixLens \subseteq Nat
      /\ UNCHANGED <<size, type, isAS4, asns, nextHop>>
  BY ValueInputsAssumption DEF Routes, IInv, TypeOK, InConstructor
<1>1. ASSUME NEW p \in PrefixLens, Take(1 + NumOctets(p), pc),
             left' = left - (1 + NumOctets(p)), elements' = elements + 1
      PROVE  IInv'
  <2>1. p \in Nat /\ NumOctets(p) \in Nat
    BY <1>0, OctetsNat
  <2>2. /\ pos' \in 0 .. size /\ pc' = "routes" /\ left' \in Int /\ elements' \in Nat
        /\ (left = size - pos => left' = size - pos')
        /\ (size - pos = left + nextHopAddressLength - nextHopOctets =>
              size - pos' = left' + nextHopAddressLength - nextHopOctets)
    BY <1>0, <1>1, <2>1 DEF Take, Has
  <2>3. TypeOK'
    BY <1>0, <2>2 DEF IInv, TypeOK, nextHop
  <2>4. pc' \notin Types
    BY <2>2 DEF Types, PeekedLists
  <2>5. Counts'
    BY <1>0, <2>2 DEF IInv, Counts, nextHop
  <2> QED
    BY <1>0, <2>2, <2>3, <2>4, <2>5
       DEF IInv, InConstructor, NextHopStored, WholeValueRead, nextHop
<1>2. CASE Refuse /\ UNCHANGED <<left, elements>>
  BY <1>0, <1>2, EndingKeeps DEF Refuse, counts
<1>3. CASE left <= 0 /\ pc' = "accepted" /\ UNCHANGED <<pos, left, elements>>
  <2>1. TypeOK'
    BY <1>0, <1>3 DEF IInv, TypeOK, nextHop
  <2>2. pc' \notin Types
    BY <1>3 DEF Types, PeekedLists
  <2>3. nextHopAddressLength - nextHopOctets >= 0
    BY <1>0 DEF IInv, NextHopStored
  <2>4. size - pos <= nextHopAddressLength - nextHopOctets
    BY <1>0, <1>3, <2>3 DEF IInv, Counts
  <2>5. nextHopAddressLength \in {4, 16, 32} => nextHopOctets = nextHopAddressLength
    BY DEF IInv, NextHopStored
  <2>6. WholeValueRead'
    BY <1>0, <1>3, <2>4, <2>5 DEF WholeValueRead, nextHop
  <2> QED
    BY <1>0, <1>3, <2>1, <2>2, <2>6 DEF IInv, InConstructor, Counts, NextHopStored, nextHop
<1> QED
  BY <1>1, <1>2, <1>3 DEF Routes

-----------------------------------------------------------------------------
(* The theorems                                                            *)

LEMMA NextKeeps == IInv /\ [Next]_vars => IInv'
<1> SUFFICES ASSUME IInv, [Next]_vars PROVE IInv'
  OBVIOUS
<1>1. ASSUME \/ Origin \/ MultiExitDisc \/ LocalPref \/ OriginatorID \/ AtomicAggregate
             \/ UnknownAttribute \/ Aggregator \/ AS4Aggregator
      PROVE  IInv'
  <2>1. ASNumberSize + AddressSize["IPv4"] \in Nat
    BY DEF ASNumberSize, AddressSize
  <2>2. {"ORIGIN", "MULTI_EXIT_DISC", "LOCAL_PREF", "ORIGINATOR_ID", "ATOMIC_AGGREGATE", "ANY",
         "AGGREGATOR", "NEW_AGGREGATOR"} \subseteq Types \ Lists
    BY DEF Types, Lists, PeekedLists
  <2> QED
    BY <1>1, <2>1, <2>2, FixedKeeps
       DEF Origin, MultiExitDisc, LocalPref, OriginatorID, AtomicAggregate, UnknownAttribute,
           Aggregator, AS4Aggregator
<1>2. CASE UNCHANGED vars
  BY <1>2 DEF vars, counts, nextHop, IInv, TypeOK, InConstructor, Counts, NextHopStored,
              WholeValueRead
<1> QED
  BY <1>1, <1>2, NewAttributeKeeps, NextHopKeeps, PeekedListsKeep, ClusterListKeeps,
     MPReachPeekKeeps, MPReachNextHopKeeps, FamilyKeeps, RoutesKeep DEF Next, Stop

LEMMA InvariantHolds == Spec => []IInv
BY Initially, NextKeeps, PTL DEF Spec

\* Type correctness: no value is passed, and the count of CLUSTER_LIST stays in its width.
THEOREM TypeCorrect == Spec => []TypeOK
<1>1. IInv => TypeOK
  BY DEF IInv
<1> QED
  BY <1>1, InvariantHolds, PTL

(***************************************************************************)
(* A list that is accepted was read to its last octet, whichever way its   *)
(* constructor finds the end; of an MP_REACH_NLRI no more stays than the   *)
(* next hop that was not read.                                             *)
(***************************************************************************)
THEOREM WholeValueReadHolds == Spec => []WholeValueRead
<1>1. IInv => WholeValueRead
  BY DEF IInv
<1> QED
  BY <1>1, InvariantHolds, PTL

=============================================================================
