------------------------------ MODULE BGPMessage ------------------------------
(***************************************************************************)
(* BGPCommonHeader::newMessage and the constructors of the messages other  *)
(* than UPDATE, which BGPUpdate models: what each reads of the stream that *)
(* is made over the message.                                               *)
(*                                                                         *)
(* The buffer holds the message without its header, and none is allocated  *)
(* for a message that is all header; the stream has the length that counts *)
(* the header.  What a constructor reads between the two is not the        *)
(* message's.                                                              *)
(***************************************************************************)
EXTENDS OctetStream

CONSTANTS
  MessageLengths,  \* the length fields met: up to 2^16 - 1
  OptParmLens,     \* the lengths of optional parameters met: up to 255
  ParameterLens,   \* the length of one: up to 255
  CountModulus     \* 2^32, for the counts that are a uint32_t

\* The marker, the length and the type.
HeaderSize == 16 + 2 + 1

ASSUME MessageInputsAssumption ==
  /\ MessageLengths \subseteq Nat /\ OptParmLens \subseteq Nat /\ ParameterLens \subseteq Nat
  /\ CountModulus \in Nat \ {0}
  /\ \A n \in MessageLengths : 2 * (n + HeaderSize) < CountModulus

MessageTypes == {"OPEN", "UPDATE", "NOTIFICATION", "KEEPALIVE", "ROUTE_REFRESH", "UNKNOWN"}

VARIABLES
  type,         \* of the message; "NONE" until one is read
  data,         \* octets of the message's buffer
  optParmLen,
  left,         \* what the loop over parameters believes is left of them
  optParams,    \* how many parameters were read
  filled        \* for the properties: each capability so far fills its parameter

message == <<type, data>>
parameters == <<optParmLen, left, optParams, filled>>

InitMessage ==
  /\ type = "NONE"
  /\ data = 0
  /\ optParmLen = 0
  /\ left = 0
  /\ optParams = 0
  /\ filled = TRUE

\* Reads through the message's stream: through a null buffer they throw.
TakeMessage(n, next) == data > 0 /\ Take(n, next)
RefuseMessage(n) == ~(data > 0 /\ Has(n)) /\ Refuse

\* msg_length: of a length below the header's it is more than any record has.
DataLength(length) == (length - HeaderSize) % CountModulus

(***************************************************************************)
(* The header, and the message cut out of the rest of its record; then the *)
(* stream is the message's own.                                            *)
(***************************************************************************)
ReadCommonHeader ==
  /\ pc = "header"
  /\ \/ \E length \in MessageLengths, t \in MessageTypes :
          /\ Has(HeaderSize + DataLength(length))
          /\ type' = t
          /\ data' = DataLength(length)
          /\ size' = length
          /\ pos' = 0
          /\ pc' = t
     \/ Refuse /\ UNCHANGED <<size, message>>
  /\ UNCHANGED parameters

\* KEEPALIVE reads nothing; the header of an unknown message is the message.
ReadNothing ==
  /\ pc \in {"KEEPALIVE", "UNKNOWN"}
  /\ pc' = "accepted"
  /\ UNCHANGED <<size, pos, message, parameters>>

\* As module BGPUpdate has it.
ReadUpdate ==
  /\ pc = "UPDATE"
  /\ \/ pc' = "accepted" /\ UNCHANGED pos
     \/ Refuse
  /\ UNCHANGED <<size, message, parameters>>

\* AFI, a reserved octet, SAFI.
ReadRouteRefresh ==
  /\ pc = "ROUTE_REFRESH"
  /\ \/ TakeMessage(2 + 1 + 1, "accepted")
     \/ RefuseMessage(2 + 1 + 1)
  /\ UNCHANGED <<size, message, parameters>>

\* A bug: the data are what the stream has left.
ErrorDataOfStream == size - 2

\* dataLength = getLength() - 21, in 32 bits.
ErrorData == (size - HeaderSize - 2) % CountModulus

\* Error code, subcode, data.
ReadNotification ==
  /\ pc = "NOTIFICATION"
  /\ \/ TakeMessage(2 + ErrorData, "accepted")
     \/ RefuseMessage(2 + ErrorData)
  /\ UNCHANGED <<size, message, parameters>>

\* Version, AS, hold time, identifier, length of the parameters.
FixedOpen == 1 + 2 + 2 + 4 + 1

ReadOpen ==
  /\ pc = "OPEN"
  /\ \/ /\ TakeMessage(FixedOpen, "optParams")
        /\ optParmLen' \in OptParmLens
        /\ left' = optParmLen'
     \/ RefuseMessage(FixedOpen) /\ UNCHANGED <<optParmLen, left>>
  /\ UNCHANGED <<size, message, optParams, filled>>

\* Type and length; then a capability's code, length and value, or a skip.
ParameterOctets(p) == IF p.capability THEN 2 + 2 + p.capLength ELSE 2 + p.length

\* What a parameter counts for; its own header does not count, so the loop may read on behind
\* the parameters until its count has come down.
CountParameter(p) == left - p.length

\* A bug: the error is tested after the loop; a parameter that is not there has length 0.
ReadParameterLeniently ==
  /\ pc = "optParams"
  /\ left > 0
  /\ \E p \in [capability : BOOLEAN, length : ParameterLens, capLength : ParameterLens] :
       \/ /\ TakeMessage(ParameterOctets(p), pc)
          /\ optParams' = optParams + 1
          /\ filled' = (filled /\ (p.capability => p.length = 2 + p.capLength))
          /\ left' = CountParameter(p)
       \/ /\ ~Has(ParameterOctets(p))
          /\ pos' = size
          /\ UNCHANGED <<pc, optParams, filled, left>>
  /\ UNCHANGED <<size, message, optParmLen>>

\* A bug: no error is thrown; what is cut short counts as what is there.
ReadParameterUnchecked ==
  /\ pc = "optParams"
  /\ left > 0
  /\ \E p \in [capability : BOOLEAN, length : ParameterLens, capLength : ParameterLens] :
       /\ \/ TakeMessage(ParameterOctets(p), pc)
          \/ ~Has(ParameterOctets(p)) /\ pos' = size /\ UNCHANGED pc
       /\ optParams' = optParams + 1
       /\ filled' = (filled /\ (p.capability => p.length = 2 + p.capLength))
       /\ left' = CountParameter(p)
  /\ UNCHANGED <<size, message, optParmLen>>

ReadParameter ==
  /\ pc = "optParams"
  /\ left > 0
  /\ \E p \in [capability : BOOLEAN, length : ParameterLens, capLength : ParameterLens] :
       \/ /\ TakeMessage(ParameterOctets(p), pc)
          /\ optParams' = optParams + 1
          /\ filled' = (filled /\ (p.capability => p.length = 2 + p.capLength))
          /\ left' = CountParameter(p)
       \/ RefuseMessage(ParameterOctets(p)) /\ UNCHANGED <<optParams, filled, left>>
  /\ UNCHANGED <<size, message, optParmLen>>

EndOfParameters ==
  /\ pc = "optParams"
  /\ left <= 0
  /\ pc' = "accepted"
  /\ UNCHANGED <<size, pos, message, parameters>>

NextMessage ==
  \/ ReadCommonHeader
  \/ ReadNothing \/ ReadUpdate \/ ReadRouteRefresh \/ ReadNotification
  \/ ReadOpen \/ ReadParameter \/ EndOfParameters

=============================================================================
