--------------------------- MODULE RibRecord_proofs ---------------------------
(***************************************************************************)
(* Proofs about RibRecord, for all sizes, attributes and bounds.           *)
(*                                                                         *)
(* The argument: in a RIB the octets the entries begun declare never reach *)
(* beyond what was read and what processAttributes believes is left; in a  *)
(* TABLE_DUMP those two add up to the record.  For the peer indices, all   *)
(* of a record not refused are at most the size of the table, and one that *)
(* misses the table has a first one that does.                             *)
(***************************************************************************)
EXTENDS RibRecord, TLAPS

Counts ==
  /\ pc = "preface" => pos = 0
  /\ pc \in {"preface", "prefix"} => declared = 0 /\ indices = << >>
  /\ kind = "TABLE_DUMP" =>
       /\ pc \in {"preface", "attributes", "accepted", "BGPError"}
       /\ TableDumpExact
  /\ kind # "TABLE_DUMP" =>
       /\ pc \in {"entries", "accepted"} => start + declared <= pos
       /\ pc = "attributes" => start + declared <= pos + left

FirstMissAt(m) ==
  /\ m \in 1 .. Len(indices)
  /\ indices[m] >= peers
  /\ \A k \in 1 .. m - 1 : indices[k] < peers

Lookups ==
  /\ \/ \A k \in 1 .. Len(indices) : indices[k] < peers
     \/ \E m \in 1 .. Len(indices) : FirstMissAt(m)
  /\ kind # "TABLE_DUMP" /\ ~hasTable => pc \in {"preface", "BGPError"}
  /\ pc # "BGPError" => \A k \in 1 .. Len(indices) : indices[k] <= peers
  /\ pc = "crashed" => \E k \in 1 .. Len(indices) : indices[k] = peers

IInv == TypeOK /\ Counts /\ Lookups

-----------------------------------------------------------------------------

LEMMA NumOctetsNat == \A p \in Nat : NumOctets(p) \in Nat
BY DEF NumOctets

LEMMA AttributeSize ==
  \A a \in Attributes : AttributeOctets(a) \in Nat /\ TotalSize(a) = AttributeOctets(a)
<1> SUFFICES ASSUME NEW a \in Attributes
             PROVE  AttributeOctets(a) \in Nat /\ TotalSize(a) = AttributeOctets(a)
  OBVIOUS
<1>1. a.len \in Nat
  BY InputsAssumption
<1> QED
  BY <1>1, SizesAssumption DEF AttributeOctets, TotalSize

LEMMA CompletionTypes ==
  ASSUME NEW S \in SUBSET AttributeTypes PROVE Completion(S) \subseteq AttributeTypes
BY DEF Completion, CompletedFrom

(***************************************************************************)
(* An entry's index at the end of the indices read keeps a first miss the  *)
(* first and otherwise becomes it, if it is one.                           *)
(***************************************************************************)
LEMMA AppendIndex ==
  ASSUME TypeOK, Lookups, NEW i \in Nat, indices' = Append(indices, i), peers' = peers
  PROVE  /\ indices' \in Seq(Nat) /\ Len(indices') = Len(indices) + 1
         /\ indices'[Len(indices')] = i
         /\ \A k \in 1 .. Len(indices) : indices'[k] = indices[k]
         /\ \/ \A k \in 1 .. Len(indices') : indices'[k] < peers'
            \/ \E m \in 1 .. Len(indices') : FirstMissAt(m)'
<1>0. /\ indices \in Seq(Nat) /\ peers \in Nat /\ Len(indices) \in Nat
      /\ \A k \in 1 .. Len(indices) : indices[k] \in Nat
  BY RibInputsAssumption DEF TypeOK
<1>1. /\ indices' \in Seq(Nat) /\ Len(indices') = Len(indices) + 1
      /\ indices'[Len(indices')] = i
      /\ \A k \in 1 .. Len(indices) : indices'[k] = indices[k]
  BY <1>0
<1>2. CASE \E m \in 1 .. Len(indices) : FirstMissAt(m)
  <2>1. PICK m \in 1 .. Len(indices) : FirstMissAt(m)
    BY <1>2
  <2>2. FirstMissAt(m)'
    BY <1>0, <1>1, <2>1 DEF FirstMissAt
  <2> QED
    BY <1>0, <1>1, <2>2
<1>3. CASE \A k \in 1 .. Len(indices) : indices[k] < peers
  <2>0. PICK n \in Nat : n = Len(indices) + 1
    BY <1>0
  <2>n. Len(indices') = n /\ peers' = peers /\ indices'[n] = i
        /\ \A k \in 1 .. n - 1 : indices'[k] < peers'
    BY <1>0, <1>1, <1>3, <2>0
  <2>1. CASE i < peers
    <3>1. \A k \in 1 .. n : k = n \/ k \in 1 .. n - 1
      BY <2>0
    <3>2. \A k \in 1 .. n : indices'[k] < peers'
      BY <2>n, <2>1, <3>1
    <3> QED
      BY <1>1, <2>n, <3>2
  <2>2. CASE i >= peers
    <3>1. n \in 1 .. Len(indices')
      BY <1>0, <2>0, <2>n
    <3>2. FirstMissAt(n)'
      BY <2>n, <2>2, <3>1 DEF FirstMissAt
    <3> QED
      BY <1>1, <3>1, <3>2
  <2> QED
    BY <1>0, <2>1, <2>2
<1> QED
  BY <1>1, <1>2, <1>3 DEF Lookups

-----------------------------------------------------------------------------
(* The invariant                                                           *)

LEMMA InitInvariant == Init => IInv
<1> SUFFICES ASSUME Init PROVE IInv
  OBVIOUS
<1>1. TypeOK
  BY RibInputsAssumption DEF Init, TypeOK
<1>2. Counts
  BY DEF Init, Counts, TableDumpExact
<1>3. Lookups
  BY DEF Init, Lookups
<1> QED
  BY <1>1, <1>2, <1>3 DEF IInv

LEMMA NextInvariant == IInv /\ [Next]_vars => IInv'
<1> SUFFICES ASSUME IInv, [Next]_vars PROVE IInv'
  OBVIOUS
<1>0. /\ TypeOK /\ Counts /\ Lookups
      /\ length \in Nat /\ pos \in Nat /\ pos <= length /\ left \in Int /\ peers \in Nat
      /\ start \in Nat /\ declared \in Nat /\ entryCount \in Nat
      /\ indices \in Seq(Nat) /\ Len(indices) \in Nat
  BY RibInputsAssumption DEF IInv, TypeOK
\* Where the indices and the input stay, so do the lookups, unless pc says more.
<1>u. ASSUME UNCHANGED <<input, indices>>,
             pc' \in {"crashed"} => pc = "crashed",
             pc' # "BGPError" => pc # "BGPError",
             kind # "TABLE_DUMP" /\ ~hasTable => pc' \in {"preface", "BGPError"}
      PROVE  Lookups'
  <2>1. \A m : FirstMissAt(m)' <=> FirstMissAt(m)
    BY <1>u DEF input, FirstMissAt
  <2> QED
    BY <1>0, <1>u, <2>1 DEF input, Lookups
<1>1. CASE ReadRibPreface
  <2> DEFINE size == IF kind = "RIB" THEN RibPrefaceSize ELSE GenericPrefaceSize
  <2>0. size \in Nat
    BY RibSizesAssumption
  <2>1. CASE pc' = "prefix" /\ Has(size) /\ pos' = pos + size /\ hasTable
    <3>1. TypeOK'
      BY <1>0, <1>1, <2>0, <2>1 DEF ReadRibPreface, TypeOK, Has, input
    <3>2. Counts'
      BY <1>0, <1>1, <2>1 DEF ReadRibPreface, Counts, TableDumpExact, input
    <3>3. Lookups'
      BY <1>1, <1>u, <2>1 DEF ReadRibPreface
    <3> QED
      BY <3>1, <3>2, <3>3 DEF IInv
  <2>2. CASE pc' = "BGPError" /\ pos' = pos
    <3>1. TypeOK'
      BY <1>0, <1>1, <2>2 DEF ReadRibPreface, TypeOK, input
    <3>2. Counts'
      BY <1>0, <1>1, <2>2 DEF ReadRibPreface, Counts, TableDumpExact, input
    <3>3. Lookups'
      BY <1>1, <1>u, <2>2 DEF ReadRibPreface
    <3> QED
      BY <3>1, <3>2, <3>3 DEF IInv
  <2> QED
    BY <1>1, <2>1, <2>2 DEF ReadRibPreface, BGPError
<1>2. CASE ReadTableDump
  <2>i. pc = "preface" /\ kind = "TABLE_DUMP"
        /\ UNCHANGED <<input, prefixLength, entryCount, indices, types, merged,
                       start, declared>>
    BY <1>2 DEF ReadTableDump
  <2>1. CASE /\ family # "UNKNOWN" /\ Has(DumpPreface)
             /\ pos' = pos + DumpPreface
             /\ left' = AttributesOfDump /\ pc' = "attributes"
    <3>0. DumpPreface \in Nat /\ AttributesOfDump = length - DumpPreface
      <4>1. family \in {"IPv4", "IPv6"} /\ length \in Nat
        BY <1>0, <2>1, RibInputsAssumption DEF TypeOK, Families
      <4>2. /\ DumpAddressSize[family] \in Nat
            /\ DumpNumbersSize \in Nat /\ DumpStatusSize \in Nat /\ DumpPeerSize \in Nat
        BY <4>1, RibSizesAssumption
      <4> QED
        BY <4>1, <4>2 DEF DumpPreface, AttributesOfDump
    <3>1. TypeOK'
      BY <1>0, <2>i, <2>1, <3>0 DEF TypeOK, Has, input
    <3>2. Counts'
      BY <1>0, <2>i, <2>1, <3>0 DEF Counts, TableDumpExact, input, TypeOK
    <3>3. Lookups'
      BY <1>u, <2>i, <2>1
    <3> QED
      BY <3>1, <3>2, <3>3 DEF IInv
  <2>2. CASE pc' = "BGPError" /\ UNCHANGED <<pos, left>>
    <3>1. TypeOK'
      BY <1>0, <2>i, <2>2 DEF TypeOK, input
    <3>2. Counts'
      BY <1>0, <2>i, <2>2 DEF Counts, TableDumpExact, input
    <3>3. Lookups'
      BY <1>u, <2>i, <2>2
    <3> QED
      BY <3>1, <3>2, <3>3 DEF IInv
  <2> QED
    BY <1>2, <2>1, <2>2 DEF ReadTableDump, BGPError
<1>3. CASE ReadPrefix
  <2>0. PICK p \in PrefixLens :
          LET size == 1 + NumOctets(p) + CountSize IN
          \/ /\ Has(size)
             /\ prefixLength' = p
             /\ entryCount' \in EntryCounts
             /\ pos' = pos + size
             /\ start' = pos'
             /\ pc' = "entries"
          \/ /\ ~Has(size)
             /\ BGPError
             /\ UNCHANGED <<prefixLength, entryCount, pos, start>>
          \/ /\ p > MaxPrefixLen
             /\ pc' = "overrun"
             /\ prefixLength' = p
             /\ UNCHANGED <<entryCount, pos, start>>
    BY <1>3 DEF ReadPrefix
  <2> DEFINE size == 1 + NumOctets(p) + CountSize
  <2>1. p \in Nat /\ size \in Nat
    BY InputsAssumption, RibSizesAssumption, NumOctetsNat
  <2>2. /\ prefixLength' \in Nat /\ entryCount' \in Nat /\ pos' \in 0 .. length
        /\ start' \in Nat /\ (pc' = "entries" => start' = pos')
        /\ pc' \in {"entries", "BGPError", "overrun"}
    <3> HIDE DEF size
    <3>1. CASE /\ Has(size) /\ prefixLength' = p /\ entryCount' \in EntryCounts
               /\ pos' = pos + size /\ start' = pos' /\ pc' = "entries"
      BY <1>0, <2>1, <3>1, RibInputsAssumption DEF Has
    <3>2. CASE pc' = "BGPError" /\ UNCHANGED <<prefixLength, entryCount, pos, start>>
      BY <1>0, <3>2 DEF TypeOK
    <3>3. CASE pc' = "overrun" /\ prefixLength' = p /\ UNCHANGED <<entryCount, pos, start>>
      BY <1>0, <2>1, <3>3
    <3> QED
      BY <2>0, <3>1, <3>2, <3>3 DEF size, BGPError
  <2>i. pc = "prefix" /\ UNCHANGED <<input, indices, left, types, merged, declared>>
    BY <1>3 DEF ReadPrefix
  <2>k. kind # "TABLE_DUMP" /\ hasTable
    BY <1>0, <2>i DEF Counts, Lookups
  <2>e. Len(indices) = 0
    BY <1>0, <2>i DEF Counts
  <2>3. TypeOK'
    BY <1>0, <2>2, <2>i, <2>e DEF TypeOK, input
  <2>4. Counts'
    <3>1. declared' = 0 /\ kind' = kind
      BY <1>0, <2>i DEF Counts, input
    <3>2. pc' = "entries" => start' + declared' <= pos'
      <4>1. PICK q \in Nat : pos' = q
        BY <1>0, <2>2
      <4> QED
        BY <2>2, <3>1, <4>1
    <3> QED
      BY <2>2, <2>k, <3>1, <3>2 DEF Counts, TableDumpExact
  <2>5. Lookups'
    BY <1>u, <2>2, <2>i, <2>k
  <2> QED
    BY <2>3, <2>4, <2>5 DEF IInv
<1>4. CASE BeginEntry
  <2>k. /\ pc = "entries" /\ kind # "TABLE_DUMP" /\ Len(indices) < entryCount
        /\ hasTable
    BY <1>0, <1>4 DEF BeginEntry, Counts, Lookups
  <2>u. UNCHANGED <<input, prefixLength, entryCount, merged, start>> /\ types' = {}
    BY <1>4 DEF BeginEntry
  <2>1. CASE pc' = "BGPError" /\ UNCHANGED <<pos, indices, left, declared>>
    <3>1. TypeOK'
      BY <1>0, <2>u, <2>1 DEF TypeOK, input
    <3>2. Counts'
      BY <1>0, <2>k, <2>u, <2>1 DEF Counts, TableDumpExact, input
    <3>3. Lookups'
      BY <1>u, <2>u, <2>1
    <3> QED
      BY <3>1, <3>2, <3>3 DEF IInv
  <2>2. ASSUME NEW i \in 0 .. MaxPeers + 1, NEW n \in AttributeLengths,
               Has(EntryHeaderSize), pos' = pos + EntryHeaderSize,
               indices' = Append(indices, i), left' = n,
               declared' = declared + EntryHeaderSize + n,
               \/ Refused(i) /\ BGPError
               \/ ~Refused(i) /\ pc' = "attributes"
               \/ PastTable(i) /\ pc' \in {"crashed", "BGPError"}
        PROVE  IInv'
    <3>0. i \in Nat /\ n \in Nat /\ EntryHeaderSize \in Nat
      BY RibInputsAssumption, RibSizesAssumption
    <3>1. /\ indices' \in Seq(Nat) /\ Len(indices') = Len(indices) + 1
          /\ indices'[Len(indices')] = i
          /\ \A k \in 1 .. Len(indices) : indices'[k] = indices[k]
          /\ \/ \A k \in 1 .. Len(indices') : indices'[k] < peers'
             \/ \E m \in 1 .. Len(indices') : FirstMissAt(m)'
      BY <1>0, <2>2, <2>u, <3>0, AppendIndex DEF input
    <3>2. TypeOK'
      BY <1>0, <2>2, <2>k, <2>u, <3>0, <3>1 DEF TypeOK, Has, BGPError, input
    <3>3. Counts'
      <4>1. start + declared <= pos
        BY <1>0, <2>k DEF Counts
      <4>2. /\ kind' = kind /\ start' = start
            /\ pc' \in {"attributes", "crashed", "BGPError"}
        BY <2>2, <2>u DEF BGPError, input
      <4>3. start' + declared' <= pos' + left'
        BY <1>0, <2>2, <3>0, <4>1, <4>2
      <4> QED
        BY <2>k, <4>2, <4>3 DEF Counts, TableDumpExact
    <3>4. Lookups'
      <4>1. \A k \in 1 .. Len(indices) : indices[k] <= peers /\ indices[k] \in Nat
        BY <1>0, <2>k DEF Lookups
      <4>2. pc' # "BGPError" => i <= peers
        BY <1>0, <2>2, <3>0 DEF Refused, PastTable, BGPError
      <4>3. pc' = "crashed" => i = peers
        BY <2>2 DEF PastTable, BGPError
      <4>4. peers' = peers /\ hasTable' = hasTable /\ kind' = kind
        BY <2>u DEF input
      <4>5. pc' # "BGPError" => \A k \in 1 .. Len(indices') : indices'[k] <= peers'
        <5>1. \A k \in 1 .. Len(indices') : k = Len(indices') \/ k \in 1 .. Len(indices)
          BY <1>0, <3>1
        <5> QED
          BY <3>1, <4>1, <4>2, <4>4, <5>1
      <4>6. pc' = "crashed" => indices'[Len(indices')] = peers' /\ Len(indices') \in 1 .. Len(indices')
        BY <1>0, <3>1, <4>3, <4>4
      <4> QED
        BY <2>k, <3>1, <4>4, <4>5, <4>6 DEF Lookups
    <3> QED
      BY <3>2, <3>3, <3>4 DEF IInv
  <2> QED
    BY <1>4, <2>1, <2>2 DEF BeginEntry, BGPError
<1>5. CASE ReadAttribute
  <2>k. /\ pc = "attributes" /\ UNCHANGED <<input, prefixLength, entryCount, indices, merged,
                                            start, declared>>
    BY <1>5 DEF ReadAttribute
  <2>1. ASSUME NEW a \in Attributes, Has(AttributeOctets(a)),
               pos' = pos + AttributeOctets(a), left' = left - TotalSize(a),
               types' = types \cup {a.type}, pc' = pc
        PROVE  IInv'
    <3>1. AttributeOctets(a) \in Nat /\ TotalSize(a) = AttributeOctets(a)
      BY AttributeSize
    <3>2. a.type \in AttributeTypes
      BY InputsAssumption
    <3>3. TypeOK'
      BY <1>0, <2>k, <2>1, <3>1, <3>2 DEF TypeOK, Has, input
    <3>4. Counts'
      <4>1. /\ kind' = kind /\ start' = start /\ declared' = declared /\ length' = length
            /\ pc' = "attributes"
        BY <2>k, <2>1 DEF input
      <4>2. pos' + left' = pos + left
        BY <1>0, <2>1, <3>1
      <4> QED
        BY <1>0, <2>k, <4>1, <4>2 DEF Counts, TableDumpExact
    <3>5. Lookups'
      BY <1>0, <1>u, <2>k, <2>1 DEF Lookups
    <3> QED
      BY <3>3, <3>4, <3>5 DEF IInv
  <2>2. CASE pc' = "BGPError" /\ UNCHANGED <<pos, left, types>>
    <3>1. TypeOK'
      BY <1>0, <2>k, <2>2 DEF TypeOK, input
    <3>2. Counts'
      BY <1>0, <2>k, <2>2 DEF Counts, TableDumpExact, input
    <3>3. Lookups'
      BY <1>u, <2>k, <2>2
    <3> QED
      BY <3>1, <3>2, <3>3 DEF IInv
  <2> QED
    BY <1>5, <2>1, <2>2 DEF ReadAttribute, BGPError
<1>6. CASE EndAttributes
  <2>1. Completion(types) \subseteq AttributeTypes
    BY <1>0, CompletionTypes DEF TypeOK
  <2>2. TypeOK'
    BY <1>0, <1>6, <2>1 DEF EndAttributes, TypeOK, input
  <2>3. Counts'
    BY <1>0, <1>6 DEF EndAttributes, Counts, TableDumpExact, input
  <2>4. Lookups'
    BY <1>0, <1>6, <1>u DEF EndAttributes, Lookups
  <2> QED
    BY <2>2, <2>3, <2>4 DEF IInv
<1>7. CASE Accept
  <2>1. TypeOK'
    BY <1>0, <1>7 DEF Accept, TypeOK, input
  <2>2. Counts'
    BY <1>0, <1>7 DEF Accept, Counts, TableDumpExact, input
  <2>3. Lookups'
    BY <1>0, <1>7, <1>u DEF Accept, Lookups
  <2> QED
    BY <2>1, <2>2, <2>3 DEF IInv
<1>8. CASE UNCHANGED vars
  <2>1. TypeOK'
    BY <1>0, <1>8 DEF vars, input, TypeOK
  <2>2. Counts'
    BY <1>0, <1>8 DEF vars, input, Counts, TableDumpExact
  <2>3. Lookups'
    BY <1>0, <1>8, <1>u DEF vars, Lookups
  <2> QED
    BY <2>1, <2>2, <2>3 DEF IInv
<1> QED
  BY <1>1, <1>2, <1>3, <1>4, <1>5, <1>6, <1>7, <1>8 DEF Next, Stop

LEMMA Invariant == Spec => []IInv
BY InitInvariant, NextInvariant, PTL DEF Spec

-----------------------------------------------------------------------------
(* Theorems                                                                *)

\* The types, and that no read passes the end of the payload.
THEOREM TypeCorrect == Spec => []TypeOK
<1>1. IInv => TypeOK
  BY DEF IInv
<1> QED
  BY <1>1, Invariant, PTL

(***************************************************************************)
(* A RIB whose entries declare exactly what the record holds was read as   *)
(* the entries delimit themselves.                                         *)
(***************************************************************************)
THEOREM DelimitedExactlyHolds == Spec => []DelimitedExactly
<1>1. IInv => DelimitedExactly
  BY DEF IInv, TypeOK, Counts, DelimitedExactly
<1> QED
  BY <1>1, Invariant, PTL

\* The attributes of an accepted TABLE_DUMP end with the record.
THEOREM TableDumpExactHolds == Spec => []TableDumpExact
<1>1. IInv => TableDumpExact
  BY DEF IInv, Counts, TableDumpExact
<1> QED
  BY <1>1, Invariant, PTL

(***************************************************************************)
(* What the file-level modules assume of a RIB's parser is what it does.   *)
(***************************************************************************)
THEOREM OutcomeAsFramedHolds == Spec => []OutcomeAsFramed
<1>1. IInv => OutcomeAsFramed
  <2> SUFFICES ASSUME IInv, kind # "TABLE_DUMP" PROVE OutcomeAsFramed
    BY DEF OutcomeAsFramed
  <2>0. /\ Lookups /\ peers \in Nat /\ indices \in Seq(Nat) /\ Len(indices) \in Nat
        /\ DOMAIN indices = 1 .. Len(indices)
        /\ \A k \in 1 .. Len(indices) : indices[k] \in Nat
    BY RibInputsAssumption DEF IInv, TypeOK
  <2> DEFINE missing == {k \in 1 .. Len(indices) : indices[k] >= peers}
             first == CHOOSE k \in missing : \A j \in missing : k <= j
  <2>1. Framed!Misses(2, 1) = missing
    BY <2>0 DEF Framed!Misses, AsRecord
  <2>2. Framed!FirstMiss(2, 1) = first
    BY <2>1 DEF Framed!FirstMiss
  <2>3. missing # {} => first \in missing
    <3>1. ASSUME NEW m \in 1 .. Len(indices), FirstMissAt(m)
          PROVE  m \in missing /\ \A j \in missing : m <= j
      BY <2>0, <3>1 DEF FirstMissAt
    <3>2. missing # {} => \E m \in 1 .. Len(indices) : FirstMissAt(m)
      BY <2>0 DEF Lookups
    <3>3. missing # {} => \E m \in missing : \A j \in missing : m <= j
      BY <3>1, <3>2
    <3> QED
      BY <3>3
  <2> HIDE DEF missing, first
  <2>4. /\ Framed!RefusedByGetPeer(2, 1) <=> missing # {} /\ indices[first] > peers
        /\ Framed!ReadsPastTable(2, 1) <=> missing # {} /\ indices[first] = peers
    BY <2>1, <2>2 DEF Framed!RefusedByGetPeer, Framed!ReadsPastTable, AsRecord
  <2>5. pc # "BGPError" /\ missing # {} => indices[first] = peers
    BY <2>0, <2>3 DEF Lookups, missing
  <2>6. pc = "crashed" => missing # {}
    BY <2>0 DEF Lookups, missing
  <2> QED
    BY <2>0, <2>4, <2>5, <2>6 DEF OutcomeAsFramed, Lookups
<1> QED
  BY <1>1, Invariant, PTL

=============================================================================
