------------------------------ MODULE RibRecord ------------------------------
(***************************************************************************)
(* How the payload of a table dump record is read: RIB and RIB_GENERIC     *)
(* (MRTTblDumpV2RibHeader, TblDumpV2RibEntry) and TABLE_DUMP (MRTTblDump), *)
(* which share processAttributes.                                          *)
(*                                                                         *)
(* The payload is a stream of its own and ends where the record does.      *)
(* Within it an entry of a RIB is delimited by its attribute length alone, *)
(* and processAttributes counts that down in a signed int: attributes that *)
(* overshoot their entry end the loop, and the next entry is read from     *)
(* where they ended.  The bytes read are arbitrary.                        *)
(***************************************************************************)
EXTENDS Integers, Sequences, PathAttributes

CONSTANTS
  RibPrefaceSize,     \* the sequence number: 4
  GenericPrefaceSize, \* sequence number, AFI and SAFI: 7
  CountSize,          \* sizeof(entryCount): 2
  EntryHeaderSize,    \* peer index, originated time, attribute length: 8
  DumpNumbersSize,    \* of TABLE_DUMP, view and sequence number: 4
  DumpAddressSize,    \* its prefix, and the peer's address, by family: 4, 16
  DumpStatusSize,     \* prefix length, status, originated time: 6
  DumpPeerSize,       \* the peer's AS and the attribute length: 4
  EntryCounts,        \* entry counts met: up to 2^16 - 1
  AttributeLengths,   \* attribute lengths met: up to 2^16 - 1
  MaxPeers,           \* bounds the size of the table
  MaxLength           \* bounds the length of the payload

ASSUME RibSizesAssumption ==
  /\ RibPrefaceSize \in Nat \ {0} /\ GenericPrefaceSize \in Nat \ {0}
  /\ CountSize \in Nat \ {0} /\ EntryHeaderSize \in Nat \ {0}
  /\ DumpNumbersSize \in Nat \ {0} /\ DumpStatusSize \in Nat \ {0} /\ DumpPeerSize \in Nat \ {0}
  /\ DumpAddressSize \in [{"IPv4", "IPv6"} -> Nat \ {0}]
ASSUME RibInputsAssumption ==
  /\ EntryCounts \subseteq Nat /\ AttributeLengths \subseteq Nat
  /\ MaxPeers \in Nat /\ MaxLength \in Nat

\* The subtype of a TABLE_DUMP.
Families == {"IPv4", "IPv6", "UNKNOWN"}

RecordKinds == {"RIB", "RIB_GENERIC", "TABLE_DUMP"}

VARIABLES
  kind, family,   \* what newMessage dispatched on; family matters to TABLE_DUMP
  length,         \* octets of the payload
  hasTable, peers,  \* whether there is a peer index table, and its entries
  pos,            \* offset in the payload
  prefixLength,
  entryCount,
  indices,        \* the peer index of each entry begun
  left,           \* what processAttributes believes is left of the attributes
  types, merged,  \* attribute types of the entry; what its path was completed from
  start, declared,  \* for the properties: where the entries start and how many
                    \* octets those begun have by their own account
  pc

input == <<kind, family, length, hasTable, peers>>

vars == <<input, pos, prefixLength, entryCount, indices, left, types, merged,
          start, declared, pc>>

Init ==
  /\ kind \in RecordKinds
  /\ family \in Families
  /\ kind # "TABLE_DUMP" => family = "IPv4"
  /\ length \in 0 .. MaxLength
  /\ hasTable \in BOOLEAN
  /\ peers \in 0 .. MaxPeers
  /\ ~hasTable => peers = 0
  /\ pos = 0
  /\ prefixLength = 0
  /\ entryCount = 0
  /\ indices = << >>
  /\ left = 0
  /\ types = {}
  /\ merged = {}
  /\ start = 0
  /\ declared = 0
  /\ pc = "preface"

\* A bug: the stream ends after the record, as the one BGPUpdate reads from does.
HasPastEnd(n) == pos + n <= length + EntryHeaderSize

\* The stream ends with the record.
Has(n) == pos + n <= length

BGPError == pc' = "BGPError"

-----------------------------------------------------------------------------
(* Up to the attributes                                                    *)

\* The fields of a TABLE_DUMP before its attributes, one read after the other.
DumpPreface ==
  DumpNumbersSize + DumpAddressSize[family] + DumpStatusSize
    + DumpAddressSize[family] + DumpPeerSize

\* A bug: the peer's address is read and not subtracted.
AttributesOfDumpOneAddress ==
  length - DumpNumbersSize - DumpAddressSize[family] - DumpStatusSize - DumpPeerSize

(***************************************************************************)
(* What is left for the attributes, subtracted by hand field after field   *)
(* from the record's length; attributeLength is not used.                  *)
(***************************************************************************)
AttributesOfDump ==
  length - DumpNumbersSize - DumpAddressSize[family] - DumpStatusSize
    - DumpAddressSize[family] - DumpPeerSize

\* Cut short, without a table, or (RIB_GENERIC) of a family unknown: BGPError.
ReadRibPreface ==
  /\ pc = "preface"
  /\ kind \in {"RIB", "RIB_GENERIC"}
  /\ LET size == IF kind = "RIB" THEN RibPrefaceSize ELSE GenericPrefaceSize IN
     \/ /\ Has(size)
        /\ hasTable
        /\ pos' = pos + size
        /\ pc' = "prefix"
     \/ /\ ~Has(size) \/ ~hasTable \/ kind = "RIB_GENERIC"
        /\ BGPError
        /\ UNCHANGED pos
  /\ UNCHANGED <<input, prefixLength, entryCount, indices, left, types, merged,
                 start, declared>>

ReadTableDump ==
  /\ pc = "preface"
  /\ kind = "TABLE_DUMP"
  /\ \/ /\ family # "UNKNOWN"
        /\ Has(DumpPreface)
        /\ pos' = pos + DumpPreface
        /\ left' = AttributesOfDump
        /\ pc' = "attributes"
     \/ /\ family # "UNKNOWN" => ~Has(DumpPreface)
        /\ BGPError
        /\ UNCHANGED <<pos, left>>
  /\ UNCHANGED <<input, prefixLength, entryCount, indices, types, merged,
                 start, declared>>

(***************************************************************************)
(* init: the route and the number of entries.  Nothing compares the prefix *)
(* length with MaxPrefixLen, as BGPUpdate does: a longer prefix overruns   *)
(* the address in Route, which is undefined and may go well or not.        *)
(***************************************************************************)
ReadPrefix ==
  /\ pc = "prefix"
  /\ \E prefixLen \in PrefixLens :
       LET size == 1 + NumOctets(prefixLen) + CountSize IN
       \/ /\ Has(size)
          /\ prefixLength' = prefixLen
          /\ entryCount' \in EntryCounts
          /\ pos' = pos + size
          /\ start' = pos'
          /\ pc' = "entries"
       \/ /\ ~Has(size)
          /\ BGPError
          /\ UNCHANGED <<prefixLength, entryCount, pos, start>>
       \/ /\ prefixLen > MaxPrefixLen
          /\ Has(1 + NumOctets(MaxPrefixLen) + 1)
          /\ pc' = "overrun"
          /\ prefixLength' = prefixLen
          /\ UNCHANGED <<entryCount, pos, start>>
  /\ UNCHANGED <<input, indices, left, types, merged, declared>>

-----------------------------------------------------------------------------
(* The entries of a RIB                                                    *)

\* A bug: the peer is looked up without a comparison.
RefusedUnchecked(peerIndex) == FALSE

\* getPeer lets the size itself through.
Refused(peerIndex) == peerIndex > peers

PastTable(peerIndex) == peerIndex = peers

(***************************************************************************)
(* The three fields of an entry, then getPeer: an index of the size reads  *)
(* past the vector's end and may be the end of the process.                *)
(***************************************************************************)
BeginEntry ==
  /\ pc = "entries"
  /\ Len(indices) < entryCount
  /\ \/ /\ ~Has(EntryHeaderSize)
        /\ BGPError
        /\ UNCHANGED <<pos, indices, left, declared>>
     \/ /\ Has(EntryHeaderSize)
        /\ pos' = pos + EntryHeaderSize
        /\ \E peerIndex \in 0 .. MaxPeers + 1, attributeLength \in AttributeLengths :
             /\ indices' = Append(indices, peerIndex)
             /\ left' = attributeLength
             /\ declared' = declared + EntryHeaderSize + attributeLength
             /\ \/ Refused(peerIndex) /\ BGPError
                \/ ~Refused(peerIndex) /\ pc' = "attributes"
                \/ PastTable(peerIndex) /\ pc' \in {"crashed", "BGPError"}
  /\ types' = {}
  /\ UNCHANGED <<input, prefixLength, entryCount, merged, start>>

\* A bug: an attribute that is cut short is passed over.
ReadAttributeLeniently ==
  /\ pc = "attributes"
  /\ left > 0
  /\ \E a \in Attributes :
       \/ /\ Has(AttributeOctets(a))
          /\ pos' = pos + AttributeOctets(a)
          /\ left' = left - TotalSize(a)
          /\ types' = types \cup {a.type}
       \/ /\ ~Has(AttributeOctets(a))
          /\ UNCHANGED <<pos, left, types>>
  /\ UNCHANGED <<input, prefixLength, entryCount, indices, merged, start, declared, pc>>

(***************************************************************************)
(* One turn of the loop of processAttributes; the value's parser may       *)
(* refuse it or read from the null data of an empty one, which newMessage  *)
(* catches alike.                                                          *)
(***************************************************************************)
ReadAttribute ==
  /\ pc = "attributes"
  /\ left > 0
  /\ \E a \in Attributes :
       \/ /\ Has(AttributeOctets(a))
          /\ pos' = pos + AttributeOctets(a)
          /\ left' = left - TotalSize(a)
          /\ types' = types \cup {a.type}
          /\ UNCHANGED pc
       \/ /\ BGPError
          /\ UNCHANGED <<pos, left, types>>
  /\ UNCHANGED <<input, prefixLength, entryCount, indices, merged, start, declared>>

\* What follows the loop; a TABLE_DUMP has no other entry.
EndAttributes ==
  /\ pc = "attributes"
  /\ left <= 0
  /\ merged' = Completion(types)
  /\ pc' = IF kind = "TABLE_DUMP" THEN "accepted" ELSE "entries"
  /\ UNCHANGED <<input, pos, prefixLength, entryCount, indices, left, types,
                 start, declared>>

\* Octets after the last entry are not looked at.
Accept ==
  /\ pc = "entries"
  /\ Len(indices) = entryCount
  /\ pc' = "accepted"
  /\ UNCHANGED <<input, pos, prefixLength, entryCount, indices, left, types, merged,
                 start, declared>>

Over == pc \in {"accepted", "BGPError", "crashed", "overrun"}

\* The constructor has returned or thrown, or the process is gone.
Stop == Over /\ UNCHANGED vars

Next ==
  \/ ReadRibPreface
  \/ ReadTableDump
  \/ ReadPrefix
  \/ BeginEntry
  \/ ReadAttribute
  \/ EndAttributes
  \/ Accept
  \/ Stop

\* A constructor runs to its end.
Spec == Init /\ [][Next]_vars /\ WF_vars(Next)

-----------------------------------------------------------------------------
(* Properties                                                              *)

\* The variables hold values of their types; the payload is never passed.
TypeOK ==
  /\ kind \in RecordKinds /\ family \in Families
  /\ length \in 0 .. MaxLength
  /\ hasTable \in BOOLEAN /\ peers \in 0 .. MaxPeers
  /\ pos \in 0 .. length
  /\ prefixLength \in Nat /\ entryCount \in Nat
  /\ indices \in Seq(Nat) /\ Len(indices) <= entryCount
  /\ left \in Int
  /\ types \subseteq AttributeTypes /\ merged \subseteq AttributeTypes
  /\ start \in Nat /\ declared \in Nat
  /\ pc \in {"preface", "prefix", "entries", "attributes", "accepted", "BGPError",
             "crashed", "overrun"}

(***************************************************************************)
(* An overshoot cannot hide in a RIB whose lengths add up: if the entries  *)
(* as read fill the record exactly by their own account, they were read as *)
(* they delimit themselves, to the record's last octet; and an accepted    *)
(* RIB never declares more than the record holds.                          *)
(***************************************************************************)
DelimitedExactly ==
  pc = "accepted" /\ kind # "TABLE_DUMP" =>
    /\ start + declared <= pos
    /\ start + declared = length => pos = length

(***************************************************************************)
(* What the constructor of a TABLE_DUMP subtracts by hand agrees with what *)
(* it reads: left is what the stream has whenever another attribute is     *)
(* read, so a record that its attributes fill is not refused, and one that *)
(* is accepted was read to its last octet.                                 *)
(***************************************************************************)
TableDumpExact ==
  kind = "TABLE_DUMP" =>
    /\ pc = "attributes" => pos + left = length
    /\ pc = "accepted" => pos = length /\ left = 0

\* Every record is accepted or refused, or meets an undefined access.
Decides == <>Over

(***************************************************************************)
(* What MRTCommonHeader assumes of a RIB: seen as a record of its kind     *)
(* with the indices read so far, behind the current table, it is refused   *)
(* when getPeer refuses an index or there is no table, and only an index   *)
(* one past the table may crash it.  (MRTCommonHeader knows no prefix      *)
(* that overruns the address.)                                             *)
(***************************************************************************)
AsRecord(k, p, e) ==
  [kind |-> k, at |-> 0, len |-> length, sound |-> FALSE, family |-> "UNKNOWN",
   peers |-> p, entries |-> e]

Framed == INSTANCE MRTCommonHeader WITH
  HeaderLen <- 12, Files <- {},
  file <- <<AsRecord("PEER_INDEX_TABLE", peers, << >>), AsRecord(kind, 0, indices)>>,
  avail <- length, broken <- FALSE, cur <- 2,
  indexTbl <- IF hasTable THEN 1 ELSE 0, msg <- << >>

OutcomeAsFramed ==
  kind # "TABLE_DUMP" =>
    /\ ~hasTable => pc \in {"preface", "BGPError"}
    /\ Framed!RefusedByGetPeer(2, 1) => pc = "BGPError"
    /\ pc = "crashed" => Framed!ReadsPastTable(2, 1)

=============================================================================
