---------------------------- MODULE PathAttributes ----------------------------
(***************************************************************************)
(* What UPDATE messages and the RIB records of a table dump have in        *)
(* common: the octets of a route and of a path attribute, and what is      *)
(* completed once all attributes are read.  The loops over attributes of   *)
(* BGPUpdate and RibRecord count the same octets in integers of different  *)
(* kinds, which is why they are modules of their own.                      *)
(***************************************************************************)
EXTENDS Naturals

CONSTANTS
  LengthSize,     \* sizeof(uint16_t) in the stream: 2
  MaxPrefixLen,   \* sizeof(IPAddress) * 8: 128
  PrefixLens,     \* the prefix lengths met in routes
  Attributes      \* the attributes met: type, extended-length flag, length

AttributeTypes == {"AS_PATH", "NEW_AS_PATH", "AGGREGATOR", "NEW_AGGREGATOR", "ANY"}

ASSUME SizesAssumption == LengthSize \in Nat \ {0} /\ MaxPrefixLen \in Nat
ASSUME InputsAssumption ==
  /\ PrefixLens \subseteq Nat
  /\ Attributes \subseteq [type : AttributeTypes, extended : BOOLEAN, len : Nat]

\* getNumOctets of a Route
NumOctets(prefixLen) == prefixLen \div 8 + (IF prefixLen % 8 = 0 THEN 0 ELSE 1)

\* Flags, type code, a length of one octet or two, and the value: what is read.
AttributeOctets(a) == 1 + 1 + (IF a.extended THEN LengthSize ELSE 1) + a.len

\* A bug: every attribute is taken for one with an extended length.
TotalSizeExtended(a) == 1 + 1 + LengthSize + a.len

\* What an attribute counts for.
TotalSize(a) == 1 + 1 + (IF a.extended THEN LengthSize ELSE 1) + a.len

\* The attribute to complete and, if it is there too, what it is completed with.
CompletedFrom(types, type, newType) ==
  IF type \in types THEN types \cap {type, newType} ELSE {}

\* The AS path and the aggregator are completed, by the 4-octet attribute if
\* there is one (ASPath says how).
Completion(types) ==
  CompletedFrom(types, "AS_PATH", "NEW_AS_PATH")
  \cup CompletedFrom(types, "AGGREGATOR", "NEW_AGGREGATOR")

=============================================================================
