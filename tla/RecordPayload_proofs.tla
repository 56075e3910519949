------------------------- MODULE RecordPayload_proofs -------------------------
(***************************************************************************)
(* Proofs about RecordPayload: its types, that an accepted NOTIFICATION    *)
(* was read exactly although its data length is unsigned, that an accepted *)
(* OPEN has all its parameters, and that an accepted peer index table was  *)
(* read whole.  The last is a layer of its own over the first invariant.   *)
(***************************************************************************)
EXTENDS RecordPayload, FiniteSetTheorems, TLAPS

\* Which constructor control is in, and that it begins at its stream's first octet.
InConstructor ==
  /\ pc \in {"peers", "states", "header", "collector", "viewName", "peerEntries"} => type = "NONE"
  /\ pc \in MessageTypes => type = pc /\ pos = 0 /\ optParams = 0
  /\ pc = "optParams" => type = "OPEN"
  /\ type = "NONE" => optParams = 0
  /\ type # "NONE" => size \in MessageLengths /\ data = DataLength(size)

\* What the loop over parameters has counted, and what it has read.
Counts ==
  /\ pc = "optParams" /\ filled => pos = FixedOpen + 2 * optParams + optParmLen - left
  /\ OpenWhole
  /\ NotificationExact

IInv == TypeOK /\ InConstructor /\ Counts

-----------------------------------------------------------------------------
(* Numbers                                                                 *)

\* An unsigned number, and one that has wrapped.
LEMMA WrapValue ==
  ASSUME NEW M \in Nat \ {0}
  PROVE  /\ \A x \in 0 .. M - 1 : x % M = x
         /\ \A x \in -M .. -1 : x % M = x + M
OBVIOUS

\* The lengths are small beside the modulus.
LEMMA Lengths ==
  ASSUME NEW n \in MessageLengths
  PROVE  /\ n \in Nat /\ CountModulus \in Nat \ {0} /\ 2 * (n + 19) < CountModulus
         /\ HeaderSize = 19
         /\ DataLength(n) \in 0 .. CountModulus - 1
         /\ n >= 19 => DataLength(n) = n - 19
         /\ n < 19 => DataLength(n) = n - 19 + CountModulus
<1>1. n \in Nat /\ CountModulus \in Nat \ {0} /\ HeaderSize = 19
  BY MessageInputsAssumption DEF HeaderSize
<1>2. 2 * (n + 19) < CountModulus
  BY <1>1, MessageInputsAssumption
<1>3. CASE n >= 19
  <2>1. n - 19 \in 0 .. CountModulus - 1
    BY <1>1, <1>2, <1>3
  <2>2. DataLength(n) = n - 19
    BY <1>1, <2>1, WrapValue DEF DataLength
  <2> QED
    BY <1>1, <1>2, <1>3, <2>1, <2>2
<1>4. CASE n < 19
  <2>1. n - 19 \in -CountModulus .. -1 /\ n - 19 + CountModulus \in 0 .. CountModulus - 1
    BY <1>1, <1>2, <1>4
  <2>2. DataLength(n) = n - 19 + CountModulus
    BY <1>1, <2>1, WrapValue DEF DataLength
  <2> QED
    BY <1>1, <1>2, <1>4, <2>1, <2>2
<1> QED
  BY <1>1, <1>3, <1>4

(***************************************************************************)
(* The data of a NOTIFICATION that its stream can give are the rest of the *)
(* message: where dataLength wraps there is no buffer or not so much of    *)
(* it.                                                                     *)
(***************************************************************************)
LEMMA ErrorDataExact ==
  ASSUME size \in MessageLengths, data = DataLength(size), data > 0, 2 + ErrorData <= size
  PROVE  2 + ErrorData = data /\ ErrorData \in Nat
<1>0. /\ size \in Nat /\ CountModulus \in Nat \ {0} /\ 2 * (size + 19) < CountModulus
      /\ HeaderSize = 19
      /\ size >= 19 => data = size - 19
  BY Lengths
<1>1. CASE size >= 21
  <2>1. size - 21 \in 0 .. CountModulus - 1
    BY <1>0, <1>1
  <2>2. ErrorData = size - 21
    BY <1>0, <2>1, WrapValue DEF ErrorData
  <2> QED
    BY <1>0, <1>1, <2>2
<1>2. CASE size < 21
  <2>1. size - 21 \in -CountModulus .. -1
    BY <1>0, <1>2
  <2>2. ErrorData = size - 21 + CountModulus
    BY <1>0, <2>1, WrapValue DEF ErrorData
  <2> QED
    BY <1>0, <1>2, <2>2
<1> QED
  BY <1>0, <1>1, <1>2

-----------------------------------------------------------------------------
(* Steps                                                                   *)

\* Init establishes the invariant.
LEMMA Initially == Init => IInv
<1> SUFFICES ASSUME Init PROVE IInv
  OBVIOUS
<1> USE DEF Init, InitMessage, InitTable
<1>1. size \in Nat /\ CountModulus \in Nat \ {0}
  BY RecordInputsAssumption, MessageInputsAssumption
<1>2. pos \in 0 .. size /\ data \in 0 .. CountModulus - 1
  BY <1>1
<1>3. pc \in {"collector", "peers"}
  OBVIOUS
<1>4. TypeOK
  BY <1>1, <1>2, <1>3 DEF TypeOK
<1>5. InConstructor /\ Counts
  BY <1>3 DEF InConstructor, Counts, OpenWhole, NotificationExact, MessageTypes
<1> QED
  BY <1>4, <1>5 DEF IInv

\* A refusal disturbs nothing.
LEMMA RefuseKeeps ==
  ASSUME IInv, Refuse, UNCHANGED <<size, message, parameters, table, kind>> PROVE IInv'
<1> USE DEF IInv, Refuse, message, parameters, table
<1>1. TypeOK'
  BY DEF TypeOK
<1>2. InConstructor' /\ Counts'
  BY DEF InConstructor, Counts, OpenWhole, NotificationExact, MessageTypes, DataLength
<1> QED
  BY <1>1, <1>2

\* A step of a constructor with no message yet.
LEMMA NoMessageKeeps ==
  ASSUME IInv, type = "NONE", UNCHANGED <<size, message, parameters, kind>>, pos' \in 0 .. size,
         pc' \in {"header", "states", "viewName", "peerEntries", "accepted"},
         viewNameLength' \in ViewNameLengths \cup {0}, peerCount' \in PeerCounts \cup {0},
         peerEntries' \in Seq(PeerEntries)
  PROVE  IInv'
<1> USE DEF IInv, message, parameters
<1>1. TypeOK'
  BY DEF TypeOK
<1>2. InConstructor' /\ Counts'
  BY DEF InConstructor, Counts, OpenWhole, NotificationExact, MessageTypes
<1> QED
  BY <1>1, <1>2

LEMMA PeersKeep == IInv /\ (ReadMessagePeers \/ ReadStateChangePeers \/ ReadStates) => IInv'
<1> SUFFICES ASSUME IInv, ReadMessagePeers \/ ReadStateChangePeers \/ ReadStates PROVE IInv'
  OBVIOUS
<1>0. /\ size \in Nat /\ pos \in 0 .. size /\ type = "NONE" /\ PacketSize \in Nat
      /\ viewNameLength \in ViewNameLengths \cup {0} /\ peerCount \in PeerCounts \cup {0}
      /\ peerEntries \in Seq(PeerEntries)
      /\ UNCHANGED <<size, message, parameters, table, kind>>
  BY DEF IInv, TypeOK, InConstructor, ReadMessagePeers, ReadStateChangePeers, ReadPeers, ReadStates,
         PacketSize
<1>1. ASSUME NEW n \in Nat, NEW next \in {"header", "states", "accepted"}, TakeOrRefuse(n, next)
      PROVE  IInv'
  <2>1. CASE Refuse
    BY <1>0, <2>1, RefuseKeeps
  <2>2. CASE Take(n, next)
    <3>1. pos' \in 0 .. size /\ pc' \in {"header", "states", "accepted"}
      BY <1>0, <2>2 DEF Take, Has
    <3> QED
      BY <1>0, <3>1, NoMessageKeeps DEF table
  <2> QED
    BY <1>1, <2>1, <2>2 DEF TakeOrRefuse
<1>2. CASE Refuse
  BY <1>0, <1>2, RefuseKeeps
<1>3. \A n \in {4, 16} : PacketSize + 2 * n \in Nat
  BY <1>0
<1> QED
  BY <1>1, <1>2, <1>3 DEF ReadMessagePeers, ReadStateChangePeers, ReadPeers, ReadStates

LEMMA EntryOctetsNat == \A e \in PeerEntries : EntryOctets(e) \in Nat
BY DEF EntryOctets

LEMMA TableKeeps == IInv /\ NextTable /\ UNCHANGED <<message, parameters, kind>> => IInv'
<1> SUFFICES ASSUME IInv, NextTable, UNCHANGED <<message, parameters, kind>> PROVE IInv'
  OBVIOUS
<1>0. /\ size \in Nat /\ pos \in 0 .. size /\ type = "NONE"
      /\ viewNameLength \in ViewNameLengths \cup {0} /\ peerCount \in PeerCounts \cup {0}
      /\ viewNameLength \in Nat
      /\ peerEntries \in Seq(PeerEntries)
      /\ UNCHANGED <<size, message, parameters, kind>>
  BY TableInputsAssumption
     DEF IInv, TypeOK, InConstructor, NextTable, ReadCollector, ReadViewName, ReadPeerEntry,
         EndOfTable
<1>1. CASE Refuse /\ UNCHANGED table
  BY <1>0, <1>1, RefuseKeeps
<1>2. ASSUME NEW n \in Nat, NEW next \in {"viewName", "peerEntries"}, Take(n, next)
      PROVE  pos' \in 0 .. size /\ pc' = next
  BY <1>0, <1>2 DEF Take, Has
<1>3. CASE ReadCollector
  <2>1. CASE Take(4 + 2, "viewName") /\ viewNameLength' \in ViewNameLengths
    BY <1>0, <1>2, <1>3, <2>1, NoMessageKeeps DEF ReadCollector
  <2> QED
    BY <1>1, <1>3, <2>1 DEF ReadCollector, table
<1>4. CASE ReadViewName
  <2>1. CASE Take(viewNameLength + 2, "peerEntries") /\ peerCount' \in PeerCounts
    <3>1. viewNameLength + 2 \in Nat
      BY <1>0
    <3> QED
      BY <1>0, <1>2, <1>4, <2>1, <3>1, NoMessageKeeps DEF ReadViewName
  <2> QED
    BY <1>1, <1>4, <2>1 DEF ReadViewName, table
<1>5. CASE ReadPeerEntry
  <2>1. PICK e \in PeerEntries :
          \/ Take(EntryOctets(e), pc) /\ peerEntries' = Append(peerEntries, e)
          \/ Refuse /\ UNCHANGED peerEntries
    BY <1>5 DEF ReadPeerEntry
  <2>2. CASE Take(EntryOctets(e), pc) /\ peerEntries' = Append(peerEntries, e)
    <3>1. EntryOctets(e) \in Nat /\ pc = "peerEntries" /\ UNCHANGED <<viewNameLength, peerCount>>
      BY <1>5, EntryOctetsNat DEF ReadPeerEntry
    <3>2. pos' \in 0 .. size /\ pc' = "peerEntries"
      BY <1>2, <2>2, <3>1
    <3>3. peerEntries' \in Seq(PeerEntries)
      BY <1>0, <2>2
    <3> QED
      BY <1>0, <3>1, <3>2, <3>3, NoMessageKeeps
  <2>3. CASE Refuse /\ UNCHANGED peerEntries
    BY <1>1, <1>5, <2>3 DEF ReadPeerEntry, table
  <2> QED
    BY <2>1, <2>2, <2>3
<1>6. CASE EndOfTable
  BY <1>0, <1>6, NoMessageKeeps DEF EndOfTable, table
<1> QED
  BY <1>3, <1>4, <1>5, <1>6 DEF NextTable

\* The message is cut out: its constructor begins.
LEMMA HeaderKeeps ==
  IInv /\ ReadCommonHeader /\ UNCHANGED <<table, kind>> => IInv'
<1> SUFFICES ASSUME IInv, ReadCommonHeader, UNCHANGED <<table, kind>> PROVE IInv'
  OBVIOUS
<1>0. type = "NONE" /\ optParams = 0 /\ UNCHANGED parameters
  BY DEF IInv, InConstructor, ReadCommonHeader
<1>1. CASE Refuse /\ UNCHANGED <<size, message>>
  BY <1>0, <1>1, RefuseKeeps
<1>2. CASE \E length \in MessageLengths, t \in MessageTypes :
             /\ type' = t
             /\ data' = DataLength(length)
             /\ size' = length
             /\ pos' = 0
             /\ pc' = t
  <2>1. PICK length \in MessageLengths, t \in MessageTypes :
          type' = t /\ data' = DataLength(length) /\ size' = length /\ pos' = 0 /\ pc' = t
    BY <1>2
  <2>2. length \in Nat /\ DataLength(length) \in 0 .. CountModulus - 1
    BY Lengths
  <2>3. TypeOK'
    BY <1>0, <2>1, <2>2 DEF IInv, TypeOK, parameters, table
  <2>4. t \notin {"peers", "states", "header", "collector", "viewName", "peerEntries",
                  "optParams", "accepted", "NONE"}
    BY DEF MessageTypes
  <2>5. DataLength(length) = data' /\ DataLength(size)' = data'
    BY <2>1 DEF DataLength
  <2>6. InConstructor'
    BY <1>0, <2>1, <2>4, <2>5 DEF InConstructor, parameters
  <2>7. Counts'
    BY <2>1, <2>4 DEF Counts, OpenWhole, NotificationExact
  <2> QED
    BY <2>3, <2>6, <2>7 DEF IInv
<1> QED
  BY <1>1, <1>2 DEF ReadCommonHeader

\* The messages other than OPEN and NOTIFICATION promise nothing more here.
LEMMA OtherMessageKeeps ==
  ASSUME IInv, type \notin {"OPEN", "NOTIFICATION", "NONE"}, pc' = "accepted", pos' \in 0 .. size,
         UNCHANGED <<size, message, parameters, table, kind>>
  PROVE  IInv'
<1> USE DEF IInv, message, parameters, table
<1>1. TypeOK'
  BY DEF TypeOK
<1>2. InConstructor' /\ Counts'
  BY DEF InConstructor, Counts, OpenWhole, NotificationExact, MessageTypes, DataLength
<1> QED
  BY <1>1, <1>2

LEMMA OtherMessagesKeep ==
  IInv /\ (ReadNothing \/ ReadUpdate \/ ReadRouteRefresh) /\ UNCHANGED <<table, kind>> => IInv'
<1> SUFFICES ASSUME IInv, ReadNothing \/ ReadUpdate \/ ReadRouteRefresh, UNCHANGED <<table, kind>>
             PROVE  IInv'
  OBVIOUS
<1>0. /\ size \in Nat /\ pos \in 0 .. size
      /\ UNCHANGED <<size, message, parameters, table, kind>>
      /\ type \notin {"OPEN", "NOTIFICATION", "NONE"}
  BY DEF IInv, TypeOK, InConstructor, MessageTypes, ReadNothing, ReadUpdate, ReadRouteRefresh
<1>1. CASE Refuse
  BY <1>0, <1>1, RefuseKeeps
<1>2. CASE pc' = "accepted" /\ pos' \in 0 .. size
  BY <1>0, <1>2, OtherMessageKeeps
<1>3. CASE TakeMessage(2 + 1 + 1, "accepted")
  <2>1. pc' = "accepted" /\ pos' \in 0 .. size
    BY <1>0, <1>3 DEF TakeMessage, Take, Has
  <2> QED
    BY <1>2, <2>1
<1> QED
  BY <1>0, <1>1, <1>2, <1>3 DEF ReadNothing, ReadUpdate, ReadRouteRefresh, RefuseMessage

LEMMA NotificationKeeps ==
  IInv /\ ReadNotification /\ UNCHANGED <<table, kind>> => IInv'
<1> SUFFICES ASSUME IInv, ReadNotification, UNCHANGED <<table, kind>> PROVE IInv'
  OBVIOUS
<1>0. /\ type = "NOTIFICATION" /\ size \in MessageLengths /\ data = DataLength(size)
      /\ size \in Nat /\ pos = 0 /\ UNCHANGED <<size, message, parameters, table, kind>>
  BY DEF IInv, TypeOK, InConstructor, MessageTypes, ReadNotification
<1>1. CASE TakeMessage(2 + ErrorData, "accepted")
  <2>1. ErrorData \in Int
    BY <1>0, MessageInputsAssumption DEF ErrorData, HeaderSize
  <2>2. data > 0 /\ 2 + ErrorData <= size /\ pc' = "accepted" /\ pos' = 2 + ErrorData
    BY <1>0, <1>1, <2>1 DEF TakeMessage, Take, Has
  <2>3. 2 + ErrorData = data /\ ErrorData \in Nat
    BY <1>0, <2>2, ErrorDataExact
  <2>4. pos' \in 0 .. size /\ pos' = data
    BY <1>0, <2>2, <2>3
  <2>5. TypeOK'
    BY <1>0, <2>2, <2>4 DEF IInv, TypeOK, message, parameters, table
  <2>6. InConstructor'
    BY <1>0, <2>2 DEF IInv, InConstructor, MessageTypes, DataLength, message, parameters
  <2>7. Counts'
    BY <1>0, <2>2, <2>4 DEF Counts, OpenWhole, NotificationExact, message
  <2> QED
    BY <2>5, <2>6, <2>7 DEF IInv
<1>2. CASE Refuse
  BY <1>0, <1>2, RefuseKeeps
<1> QED
  BY <1>1, <1>2 DEF ReadNotification, RefuseMessage

\* Taking a parameter: what it takes of the stream and of the count.
LEMMA ParameterCounts ==
  ASSUME NEW p \in [capability : BOOLEAN, length : ParameterLens, capLength : ParameterLens]
  PROVE  /\ p.length \in Nat /\ ParameterOctets(p) \in Nat
         /\ (p.capability => p.length = 2 + p.capLength) => ParameterOctets(p) = 2 + p.length
<1>1. p.length \in Nat /\ p.capLength \in Nat
  BY MessageInputsAssumption
<1> QED
  BY <1>1 DEF ParameterOctets

LEMMA OpenKeeps ==
  IInv /\ (ReadOpen \/ ReadParameter \/ EndOfParameters) /\ UNCHANGED <<table, kind>> => IInv'
<1> SUFFICES ASSUME IInv, ReadOpen \/ ReadParameter \/ EndOfParameters, UNCHANGED <<table, kind>>
             PROVE  IInv'
  OBVIOUS
<1>0. /\ size \in Nat /\ pos \in 0 .. size /\ type = "OPEN" /\ UNCHANGED <<size, message, table, kind>>
      /\ optParmLen \in Nat /\ left \in Int /\ optParams \in Nat /\ filled \in BOOLEAN
      /\ size \in MessageLengths /\ data = DataLength(size)
      /\ FixedOpen \in Nat /\ OptParmLens \subseteq Nat
  BY MessageInputsAssumption
     DEF IInv, TypeOK, InConstructor, MessageTypes, ReadOpen, ReadParameter, EndOfParameters, FixedOpen
<1>r. ASSUME Refuse, UNCHANGED parameters PROVE IInv'
  BY <1>0, <1>r, RefuseKeeps
\* Whatever a step does, once its numbers are right.
<1>s. ASSUME pc' \in {"optParams", "accepted"}, pos' \in 0 .. size, left' \in Int, optParams' \in Nat,
             optParmLen' \in OptParmLens \cup {0}, filled' \in BOOLEAN, Counts'
      PROVE  IInv'
  <2>1. TypeOK'
    BY <1>0, <1>s DEF IInv, TypeOK, message, table
  <2>2. InConstructor'
    BY <1>0, <1>s DEF InConstructor, MessageTypes, DataLength, message
  <2> QED
    BY <1>s, <2>1, <2>2 DEF IInv
<1>1. CASE ReadOpen
  <2>0. pos = 0 /\ optParams = 0
    BY <1>1 DEF ReadOpen, IInv, InConstructor, MessageTypes
  <2>1. CASE TakeMessage(FixedOpen, "optParams") /\ optParmLen' \in OptParmLens /\ left' = optParmLen'
    <3>1. /\ pc' = "optParams" /\ pos' = FixedOpen /\ pos' \in 0 .. size
          /\ UNCHANGED <<optParams, filled>> /\ optParmLen' \in Nat /\ left' \in Int
      BY <1>0, <1>1, <2>0, <2>1 DEF ReadOpen, TakeMessage, Take, Has
    <3>2. pos' = FixedOpen + 2 * optParams' + optParmLen' - left'
      <4>1. PICK n \in Nat, k \in Nat : n = optParmLen' /\ n = left' /\ k = optParams' /\ k = 0
        BY <1>0, <2>0, <2>1, <3>1
      <4>2. k = 0
        BY <4>1
      <4>3. FixedOpen + 2 * k + n - n = FixedOpen
        BY <1>0, <4>2
      <4> QED
        BY <3>1, <4>1, <4>3
    <3>3. Counts'
      BY <3>1, <3>2 DEF Counts, OpenWhole, NotificationExact
    <3> QED
      BY <1>0, <1>s, <2>1, <3>1, <3>3
  <2> QED
    BY <1>1, <1>r, <2>1 DEF ReadOpen, RefuseMessage, parameters
<1>2. CASE ReadParameter
  <2>1. PICK p \in [capability : BOOLEAN, length : ParameterLens, capLength : ParameterLens] :
          \/ /\ TakeMessage(ParameterOctets(p), pc)
             /\ optParams' = optParams + 1
             /\ filled' = (filled /\ (p.capability => p.length = 2 + p.capLength))
             /\ left' = CountParameter(p)
          \/ Refuse /\ UNCHANGED <<optParams, filled, left>>
    BY <1>2 DEF ReadParameter, RefuseMessage
  <2>2. CASE Refuse /\ UNCHANGED <<optParams, filled, left>>
    BY <1>2, <1>r, <2>2 DEF ReadParameter, parameters
  <2>3. CASE /\ TakeMessage(ParameterOctets(p), pc)
             /\ optParams' = optParams + 1
             /\ filled' = (filled /\ (p.capability => p.length = 2 + p.capLength))
             /\ left' = CountParameter(p)
    <3>1. /\ p.length \in Nat /\ ParameterOctets(p) \in Nat
          /\ (p.capability => p.length = 2 + p.capLength) => ParameterOctets(p) = 2 + p.length
      BY ParameterCounts
    <3>2. /\ pc = "optParams" /\ pc' = "optParams" /\ UNCHANGED optParmLen
          /\ pos' = pos + ParameterOctets(p) /\ pos' \in 0 .. size
          /\ left' = left - p.length /\ left' \in Int /\ optParams' \in Nat
      BY <1>0, <1>2, <2>3, <3>1 DEF ReadParameter, TakeMessage, Take, Has, CountParameter
    <3>3. filled' \in BOOLEAN
      BY <2>3
    <3>4. filled' => /\ pos = FixedOpen + 2 * optParams + optParmLen - left
                     /\ ParameterOctets(p) = 2 + p.length
      BY <2>3, <3>1, <3>2 DEF IInv, Counts
    <3>5. ASSUME filled' PROVE pos' = FixedOpen + 2 * optParams' + optParmLen' - left'
      <4>1. PICK k \in Nat, n \in Nat, l \in Int :
              k = optParams' /\ n = optParmLen' /\ l = left'
        BY <1>0, <3>2
      <4>2. k = optParams + 1 /\ n = optParmLen /\ l = left - p.length
        BY <2>3, <3>2, <4>1
      <4>3. pos + (2 + p.length) = FixedOpen + 2 * k + n - l
        BY <1>0, <3>1, <3>4, <3>5, <4>2
      <4> QED
        BY <3>2, <3>4, <3>5, <4>1, <4>3
    <3>6. Counts'
      BY <3>2, <3>5 DEF Counts, OpenWhole, NotificationExact
    <3>7. optParmLen' \in OptParmLens \cup {0}
      BY <3>2 DEF IInv, TypeOK
    <3> QED
      BY <1>s, <3>2, <3>3, <3>6, <3>7
  <2> QED
    BY <2>1, <2>2, <2>3
<1>3. CASE EndOfParameters
  <2>1. /\ pc' = "accepted" /\ pos' \in 0 .. size /\ left <= 0 /\ pc = "optParams"
        /\ UNCHANGED <<pos, optParmLen, left, optParams, filled>>
    BY <1>0, <1>3 DEF EndOfParameters, parameters
  <2>2. filled => pos >= FixedOpen + optParmLen
    BY <1>0, <2>1 DEF IInv, TypeOK, Counts
  <2>3. Counts'
    BY <1>0, <2>1, <2>2 DEF Counts, OpenWhole, NotificationExact, message
  <2>4. optParmLen' \in OptParmLens \cup {0} /\ left' \in Int /\ optParams' \in Nat
    BY <1>0, <2>1 DEF IInv, TypeOK
  <2>5. filled' \in BOOLEAN
    BY <1>0, <2>1
  <2> QED
    BY <1>s, <2>1, <2>3, <2>4, <2>5
<1> QED
  BY <1>1, <1>2, <1>3

-----------------------------------------------------------------------------
(* The peer index table                                                    *)

TablePcs == {"collector", "viewName", "peerEntries"}

\* Where the stream stands in a table: after its entries so far, and no record but a table is there.
TableRead ==
  /\ kind = "PEER_INDEX_TABLE" => pc \in TablePcs \cup {"accepted", "refused"}
  /\ kind # "PEER_INDEX_TABLE" => pc \notin TablePcs
  /\ pc = "collector" => pos = 0 /\ peerEntries = << >>
  /\ pc = "viewName" => pos = 4 + 2 /\ peerEntries = << >>
  /\ pc = "peerEntries" => pos = 4 + 2 + viewNameLength + 2 + EntriesOctets
  /\ PeerTableWhole

\* The indices below a length that have a property are finitely many; one more counts for one.
LEMMA CountNext ==
  ASSUME NEW n \in Nat, NEW S \in SUBSET (1 .. n)
  PROVE  /\ Cardinality(S) \in Nat
         /\ Cardinality(S \cup {n + 1}) = Cardinality(S) + 1
<1>1. IsFiniteSet(1 .. n)
  BY FS_Interval
<1>2. IsFiniteSet(S) /\ Cardinality(S) \in Nat
  BY <1>1, FS_Subset, FS_CardinalityType
<1>3. n + 1 \notin S
  OBVIOUS
<1> QED
  BY <1>2, <1>3, FS_AddElement

\* No entries take no octets, and one more takes what its layout says.
LEMMA EntriesOctetsNext ==
  /\ peerEntries = << >> => EntriesOctets = 0
  /\ \A e \in PeerEntries :
       peerEntries \in Seq(PeerEntries) /\ peerEntries' = Append(peerEntries, e)
         => /\ EntriesOctets \in Nat
            /\ EntriesOctets' = EntriesOctets + EntryOctets(e)
<1>1. ASSUME peerEntries = << >> PROVE EntriesOctets = 0
  <2>1. /\ {i \in DOMAIN peerEntries : peerEntries[i].ipv6} = {}
        /\ {i \in DOMAIN peerEntries : peerEntries[i].isAS4} = {}
        /\ Len(peerEntries) = 0
    BY <1>1
  <2> QED
    BY <2>1, FS_EmptySet DEF EntriesOctets
<1>2. ASSUME NEW e \in PeerEntries, peerEntries \in Seq(PeerEntries),
             peerEntries' = Append(peerEntries, e)
      PROVE  EntriesOctets \in Nat /\ EntriesOctets' = EntriesOctets + EntryOctets(e)
  <2> DEFINE n == Len(peerEntries)
             wide == {i \in DOMAIN peerEntries : peerEntries[i].ipv6}
             as4 == {i \in DOMAIN peerEntries : peerEntries[i].isAS4}
  <2>1. /\ n \in Nat /\ DOMAIN peerEntries = 1 .. n
        /\ n' = n + 1 /\ DOMAIN peerEntries' = 1 .. n + 1
        /\ peerEntries'[n + 1] = e
        /\ \A i \in 1 .. n : peerEntries'[i] = peerEntries[i]
    BY <1>2
  <2>2. wide \in SUBSET (1 .. n) /\ as4 \in SUBSET (1 .. n)
    BY <2>1
  <2>3. e.ipv6 \in BOOLEAN /\ e.isAS4 \in BOOLEAN
    BY DEF PeerEntries
  <2>4. wide' = (IF e.ipv6 THEN wide \cup {n + 1} ELSE wide)
    <3>1. \A i : i \in 1 .. n + 1 <=> i \in 1 .. n \/ i = n + 1
      BY <2>1
    <3>2. \A i \in 1 .. n : peerEntries'[i].ipv6 <=> peerEntries[i].ipv6
      BY <2>1
    <3>3. peerEntries'[n + 1].ipv6 <=> e.ipv6
      BY <2>1
    <3>4. \A i : i \in wide' <=> i \in 1 .. n + 1 /\ peerEntries'[i].ipv6
      BY <2>1
    <3>5. \A i : i \in wide <=> i \in 1 .. n /\ peerEntries[i].ipv6
      BY <2>1
    <3> HIDE DEF wide, n
    <3> QED
      BY <3>1, <3>2, <3>3, <3>4, <3>5, <2>3
  <2>5. as4' = (IF e.isAS4 THEN as4 \cup {n + 1} ELSE as4)
    <3>1. \A i : i \in 1 .. n + 1 <=> i \in 1 .. n \/ i = n + 1
      BY <2>1
    <3>2. \A i \in 1 .. n : peerEntries'[i].isAS4 <=> peerEntries[i].isAS4
      BY <2>1
    <3>3. peerEntries'[n + 1].isAS4 <=> e.isAS4
      BY <2>1
    <3>4. \A i : i \in as4' <=> i \in 1 .. n + 1 /\ peerEntries'[i].isAS4
      BY <2>1
    <3>5. \A i : i \in as4 <=> i \in 1 .. n /\ peerEntries[i].isAS4
      BY <2>1
    <3> HIDE DEF as4, n
    <3> QED
      BY <3>1, <3>2, <3>3, <3>4, <3>5, <2>3
  <2> HIDE DEF wide, as4, n
  <2>6. /\ Cardinality(wide) \in Nat
        /\ e.ipv6 => Cardinality(wide') = Cardinality(wide) + 1
        /\ ~e.ipv6 => Cardinality(wide') = Cardinality(wide)
    <3>1. Cardinality(wide) \in Nat /\ Cardinality(wide \cup {n + 1}) = Cardinality(wide) + 1
      BY <2>1, <2>2, CountNext
    <3> QED
      BY <2>3, <2>4, <3>1
  <2>8. /\ Cardinality(as4) \in Nat
        /\ e.isAS4 => Cardinality(as4') = Cardinality(as4) + 1
        /\ ~e.isAS4 => Cardinality(as4') = Cardinality(as4)
    <3>1. Cardinality(as4) \in Nat /\ Cardinality(as4 \cup {n + 1}) = Cardinality(as4) + 1
      BY <2>1, <2>2, CountNext
    <3> QED
      BY <2>3, <2>5, <3>1
  <2>7. /\ EntriesOctets = 11 * n + 12 * Cardinality(wide) + 2 * Cardinality(as4)
        /\ EntriesOctets' = 11 * n' + 12 * Cardinality(wide') + 2 * Cardinality(as4')
    BY DEF EntriesOctets, wide, as4, n
  <2>9. /\ EntryOctets(e) = 11 + (IF e.ipv6 THEN 12 ELSE 0) + (IF e.isAS4 THEN 2 ELSE 0)
    BY <2>3 DEF EntryOctets
  <2> HIDE DEF EntriesOctets
  <2>10. PICK k \in Nat, w \in Nat, a \in Nat :
           k = n /\ w = Cardinality(wide) /\ a = Cardinality(as4)
    BY <2>1, <2>6, <2>8
  <2>11. PICK dw \in {0, 1}, da \in {0, 1} :
           /\ Cardinality(wide') = w + dw /\ Cardinality(as4') = a + da
           /\ EntryOctets(e) = 11 + 12 * dw + 2 * da
    BY <2>3, <2>6, <2>8, <2>9, <2>10
  <2>12. EntriesOctets = 11 * k + 12 * w + 2 * a
    BY <2>7, <2>10
  <2>13. EntriesOctets' = 11 * (k + 1) + 12 * (w + dw) + 2 * (a + da)
    <3>1. n' = k + 1
      BY <2>1, <2>10
    <3> QED
      BY <2>7, <2>11, <3>1
  <2>14. dw \in Nat /\ da \in Nat
    OBVIOUS
  <2> QED
    BY <2>11, <2>12, <2>13, <2>14
<1> QED
  BY <1>1, <1>2

\* Init establishes the layer.
LEMMA TableReadInitially == Init => TableRead
BY DEF Init, InitTable, TableRead, TablePcs, PeerTableWhole, Kinds, MessageKinds, StateChangeKinds

\* The steps of a record that is not a table.
LEMMA OthersKeepTableRead ==
  ASSUME TableRead, UNCHANGED kind,
         ReadMessagePeers \/ ReadStateChangePeers \/ ReadStates \/ NextMessage
  PROVE  TableRead'
<1>1. pc \notin TablePcs \cup {"accepted", "refused"}
  BY DEF TablePcs, MessageTypes, ReadMessagePeers, ReadStateChangePeers, ReadPeers, ReadStates,
         NextMessage, ReadCommonHeader, ReadNothing, ReadUpdate, ReadRouteRefresh, ReadNotification,
         ReadOpen, ReadParameter, EndOfParameters
<1>2. kind # "PEER_INDEX_TABLE"
  BY <1>1 DEF TableRead
<1>3. pc' \notin TablePcs
  <2>1. CASE ReadMessagePeers \/ ReadStateChangePeers \/ ReadStates
    BY <2>1 DEF TablePcs, ReadMessagePeers, ReadStateChangePeers, ReadPeers, ReadStates, TakeOrRefuse,
                Take, Refuse
  <2>2. CASE ReadCommonHeader
    BY <2>2 DEF TablePcs, ReadCommonHeader, MessageTypes, Refuse
  <2>3. CASE ReadNothing \/ ReadUpdate \/ ReadRouteRefresh \/ ReadNotification
    BY <2>3 DEF TablePcs, ReadNothing, ReadUpdate, ReadRouteRefresh, ReadNotification, TakeMessage,
                RefuseMessage, Take, Refuse
  <2>4. CASE ReadOpen \/ ReadParameter \/ EndOfParameters
    BY <2>4 DEF TablePcs, ReadOpen, ReadParameter, EndOfParameters, TakeMessage, RefuseMessage, Take,
                Refuse
  <2> QED
    BY <2>1, <2>2, <2>3, <2>4 DEF NextMessage
<1> QED
  BY <1>2, <1>3 DEF TableRead, PeerTableWhole, TablePcs

\* The steps of a table.
LEMMA TableKeepsTableRead ==
  ASSUME IInv, TableRead, UNCHANGED kind, NextTable
  PROVE  TableRead'
<1>0. /\ kind = "PEER_INDEX_TABLE" /\ kind' = kind
      /\ pos \in Nat /\ viewNameLength \in Nat /\ peerEntries \in Seq(PeerEntries)
  BY TableInputsAssumption DEF TableRead, TablePcs, NextTable, ReadCollector, ReadViewName,
     ReadPeerEntry, EndOfTable, IInv, TypeOK
\* A table that is refused promises nothing.
<1>r. ASSUME Refuse PROVE TableRead'
  BY <1>0, <1>r DEF Refuse, TableRead, TablePcs, PeerTableWhole
<1>1. CASE ReadCollector
  <2>1. CASE Take(4 + 2, "viewName")
    BY <1>0, <1>1, <2>1 DEF ReadCollector, Take, TableRead, TablePcs, PeerTableWhole
  <2> QED
    BY <1>1, <1>r, <2>1 DEF ReadCollector
<1>2. CASE ReadViewName
  <2>1. CASE Take(viewNameLength + 2, "peerEntries")
    <3>1. /\ pc' = "peerEntries" /\ peerEntries' = << >> /\ viewNameLength' = viewNameLength
          /\ pos' = 4 + 2 + viewNameLength + 2
      BY <1>0, <1>2, <2>1 DEF ReadViewName, Take, TableRead
    <3>2. EntriesOctets' = 0
      <4>1. EntriesOctets = 0
        BY <1>2, EntriesOctetsNext DEF TableRead, ReadViewName
      <4>2. UNCHANGED EntriesOctets
        BY <1>2 DEF ReadViewName, EntriesOctets
      <4> QED
        BY <4>1, <4>2
    <3> HIDE DEF EntriesOctets
    <3> QED
      BY <1>0, <3>1, <3>2 DEF TableRead, TablePcs, PeerTableWhole
  <2> QED
    BY <1>2, <1>r, <2>1 DEF ReadViewName
<1>3. CASE ReadPeerEntry
  <2>1. PICK e \in PeerEntries :
          \/ Take(EntryOctets(e), pc) /\ peerEntries' = Append(peerEntries, e)
          \/ Refuse /\ UNCHANGED peerEntries
    BY <1>3 DEF ReadPeerEntry
  <2>2. CASE Take(EntryOctets(e), pc) /\ peerEntries' = Append(peerEntries, e)
    <3>1. /\ pc = "peerEntries" /\ pc' = "peerEntries" /\ pos' = pos + EntryOctets(e)
          /\ UNCHANGED viewNameLength
          /\ pos = 4 + 2 + viewNameLength + 2 + EntriesOctets
      BY <1>3, <2>2 DEF ReadPeerEntry, Take, TableRead
    <3>2. /\ EntriesOctets \in Nat /\ EntryOctets(e) \in Nat
          /\ EntriesOctets' = EntriesOctets + EntryOctets(e)
      BY <1>0, <2>2, EntriesOctetsNext, EntryOctetsNat
    <3>3. pos' = 4 + 2 + viewNameLength' + 2 + EntriesOctets'
      BY <1>0, <3>1, <3>2
    <3> QED
      BY <1>0, <3>1, <3>3 DEF TableRead, TablePcs, PeerTableWhole
  <2> QED
    BY <1>r, <2>1, <2>2
<1>4. CASE EndOfTable
  <2>1. /\ pc = "peerEntries" /\ pc' = "accepted" /\ Len(peerEntries) = peerCount
        /\ UNCHANGED <<pos, viewNameLength, peerCount, peerEntries>>
    BY <1>4 DEF EndOfTable, table
  <2>2. UNCHANGED EntriesOctets
    BY <2>1 DEF EntriesOctets
  <2> QED
    BY <1>0, <2>1, <2>2 DEF TableRead, TablePcs, PeerTableWhole
<1> QED
  BY <1>1, <1>2, <1>3, <1>4 DEF NextTable

LEMMA NextKeepsTableRead == IInv /\ TableRead /\ [Next]_vars => TableRead'
<1> SUFFICES ASSUME IInv, TableRead, [Next]_vars PROVE TableRead'
  OBVIOUS
<1>1. CASE UNCHANGED vars
  <2>1. UNCHANGED <<pos, pc, kind, viewNameLength, peerCount, peerEntries, EntriesOctets>>
    BY <1>1 DEF vars, table, EntriesOctets
  <2> QED
    BY <2>1 DEF TableRead, TablePcs, PeerTableWhole
<1>2. CASE ReadMessagePeers \/ ReadStateChangePeers \/ ReadStates \/ (NextMessage /\ UNCHANGED kind)
  <2>1. UNCHANGED kind
    BY <1>2 DEF ReadMessagePeers, ReadStateChangePeers, ReadPeers, ReadStates
  <2> QED
    BY <1>2, <2>1, OthersKeepTableRead
<1>3. CASE NextTable /\ UNCHANGED kind
  BY <1>3, TableKeepsTableRead
<1> QED
  BY <1>1, <1>2, <1>3 DEF Next, Stop

-----------------------------------------------------------------------------
(* The theorems                                                            *)

LEMMA NextKeeps == IInv /\ [Next]_vars => IInv'
<1> SUFFICES ASSUME IInv, [Next]_vars PROVE IInv'
  OBVIOUS
<1>1. CASE UNCHANGED vars
  BY <1>1 DEF vars, message, parameters, table, IInv, TypeOK, InConstructor, Counts, OpenWhole,
              NotificationExact, DataLength
<1> QED
  BY <1>1, PeersKeep, TableKeeps, HeaderKeeps, OtherMessagesKeep, NotificationKeeps, OpenKeeps
     DEF Next, NextMessage, Stop

LEMMA InvariantHolds == Spec => []IInv
BY Initially, NextKeeps, PTL DEF Spec

\* Type correctness: no stream is passed, and the message's length stays in its width.
THEOREM TypeCorrect == Spec => []TypeOK
<1>1. IInv => TypeOK
  BY DEF IInv
<1> QED
  BY <1>1, InvariantHolds, PTL

(***************************************************************************)
(* A NOTIFICATION that is accepted was read to its last octet and not      *)
(* beyond, although its data length is worked out in unsigned numbers.     *)
(***************************************************************************)
THEOREM NotificationExactHolds == Spec => []NotificationExact
<1>1. IInv => NotificationExact
  BY DEF IInv, Counts
<1> QED
  BY <1>1, InvariantHolds, PTL

(***************************************************************************)
(* An accepted OPEN whose capabilities fill their parameters has them all, *)
(* although the loop does not count their headers: for messages and        *)
(* parameters of every length.                                             *)
(***************************************************************************)
THEOREM OpenWholeHolds == Spec => []OpenWhole
<1>1. IInv => OpenWhole
  BY DEF IInv, Counts
<1> QED
  BY <1>1, InvariantHolds, PTL

(***************************************************************************)
(* A peer index table that is accepted has as many entries as it says, and *)
(* its stream was read to the end of the last: for tables of every length. *)
(***************************************************************************)
THEOREM PeerTableWholeHolds == Spec => []PeerTableWhole
<1>1. Spec => []TableRead
  BY InvariantHolds, TableReadInitially, NextKeepsTableRead, PTL DEF Spec
<1>2. TableRead => PeerTableWhole
  BY DEF TableRead
<1> QED
  BY <1>1, <1>2, PTL

=============================================================================
