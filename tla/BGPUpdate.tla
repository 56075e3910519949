------------------------------ MODULE BGPUpdate ------------------------------
(***************************************************************************)
(* How an UPDATE message is taken apart: BGPCommonHeader::newMessage cuts  *)
(* the message out of its record and the constructor of BGPUpdate walks    *)
(* the three sections of it (withdrawn routes, path attributes, announced  *)
(* routes) by two declared lengths and one computed one.                   *)
(*                                                                         *)
(* All of the arithmetic is unsigned and of a fixed width, so a section    *)
(* whose last element overshoots its length does not stop the loop but     *)
(* wraps the count around; and the stream the constructor reads from is    *)
(* made with the length of the whole message, header included, over a      *)
(* buffer that holds the message without its header: its last HeaderSize   *)
(* bytes are not the message's.  The bytes read are arbitrary, those past  *)
(* the buffer included.                                                    *)
(***************************************************************************)
EXTENDS Integers, PathAttributes

CONSTANTS
  W,              \* 2^16: the lengths are of type uint16_t
  HeaderSize      \* MESSAGE_HEADER_SIZE: marker, length and type, 19 bytes

ASSUME WidthAssumption == W \in Nat /\ HeaderSize \in Nat /\ HeaderSize < W

VARIABLES
  length,                 \* the length field of the BGP header
  pos,                    \* offset in the stream over the message's data
  withdrawnRoutesLength, pathAttributesLength, nlriLength,
  left,                   \* what the current loop believes is left of its section
  types,                  \* the types of attributes read so far
  merged,                 \* what AS_PATH and AGGREGATOR were completed from
  pc

vars == <<length, pos, withdrawnRoutesLength, pathAttributesLength, nlriLength,
          left, types, merged, pc>>

Init ==
  /\ length = 0
  /\ pos = 0
  /\ withdrawnRoutesLength = 0
  /\ pathAttributesLength = 0
  /\ nlriLength = 0
  /\ left = 0
  /\ types = {}
  /\ merged = {}
  /\ pc = "header"

\* A bug: the count is signed, and an overshoot leaves it below zero.
SignedCount(x) == x

\* A bug: the count stops at zero.
SaturatedCount(x) == IF x < 0 THEN 0 ELSE x

\* Unsigned subtraction: what left -= n and the assignment to nlriLength compute.
Wrap(x) == x % W

\* The stream has n more bytes: it ends at length, HeaderSize past the message.
Has(n) == pos + n <= length

BGPError == pc' = "BGPError"

-----------------------------------------------------------------------------

(***************************************************************************)
(* The header.  msg_length is length - HeaderSize in 32 bits: a length     *)
(* below HeaderSize asks for more than any record holds, and a record may  *)
(* hold less than what it is asked for in any case.                        *)
(***************************************************************************)
ReadCommonHeader ==
  /\ pc = "header"
  /\ \/ BGPError /\ UNCHANGED length
     \/ /\ length' \in HeaderSize .. W - 1
        /\ pc' = "withdrawnRoutesLength"
  /\ UNCHANGED <<pos, withdrawnRoutesLength, pathAttributesLength, nlriLength,
                 left, types, merged>>

\* A message that is all header has no data, and a read from no data throws
\* istream::failure, which newMessage catches as it does a BGPError.
ReadWithdrawnRoutesLength ==
  /\ pc = "withdrawnRoutesLength"
  /\ \/ /\ length = HeaderSize
        /\ pc' = "failure"
        /\ UNCHANGED <<pos, withdrawnRoutesLength, left>>
     \/ /\ length > HeaderSize
        /\ ~Has(LengthSize)
        /\ BGPError
        /\ UNCHANGED <<pos, withdrawnRoutesLength, left>>
     \/ /\ length > HeaderSize
        /\ Has(LengthSize)
        /\ withdrawnRoutesLength' \in 0 .. W - 1
        /\ left' = withdrawnRoutesLength'
        /\ pos' = pos + LengthSize
        /\ pc' = "withdrawnRoutes"
  /\ UNCHANGED <<length, pathAttributesLength, nlriLength, types, merged>>

\* A bug: the octet of the prefix length is not counted.
RouteSizeBare(prefixLen) == NumOctets(prefixLen)

\* What a route counts for; what is read is 1 octet and NumOctets.
RouteSize(prefixLen) == 1 + NumOctets(prefixLen)

ReadableRoute(prefixLen) ==
  Has(1) /\ prefixLen <= MaxPrefixLen /\ Has(1 + NumOctets(prefixLen))

TakeRoute(prefixLen) ==
  /\ ReadableRoute(prefixLen)
  /\ pos' = pos + 1 + NumOctets(prefixLen)
  /\ left' = Wrap(left - RouteSize(prefixLen))
  /\ UNCHANGED pc

\* A bug: an impossible prefix is passed over instead of refused.
ReadRouteLeniently ==
  \E prefixLen \in PrefixLens :
    \/ TakeRoute(prefixLen)
    \/ ~ReadableRoute(prefixLen) /\ UNCHANGED <<pos, left, pc>>

\* One turn of either loop over routes: prefix length, check, prefix.
ReadRoute ==
  \E prefixLen \in PrefixLens :
    \/ TakeRoute(prefixLen)
    \/ ~ReadableRoute(prefixLen) /\ BGPError /\ UNCHANGED <<pos, left>>

ReadWithdrawnRoute ==
  /\ pc = "withdrawnRoutes"
  /\ left > 0
  /\ ReadRoute
  /\ UNCHANGED <<length, withdrawnRoutesLength, pathAttributesLength, nlriLength,
                 types, merged>>

ReadPathAttributesLength ==
  /\ pc = "withdrawnRoutes"
  /\ left = 0
  /\ \/ /\ ~Has(LengthSize)
        /\ BGPError
        /\ UNCHANGED <<pos, pathAttributesLength, left>>
     \/ /\ Has(LengthSize)
        /\ pathAttributesLength' \in 0 .. W - 1
        /\ left' = pathAttributesLength'
        /\ pos' = pos + LengthSize
        /\ pc' = "pathAttributes"
  /\ UNCHANGED <<length, withdrawnRoutesLength, nlriLength, types, merged>>

(***************************************************************************)
(* One turn of the loop over attributes: the BGPAttribute constructor      *)
(* takes the value out whole and parses it; the parser may refuse it, or   *)
(* read from the null data of an empty one.                                *)
(***************************************************************************)
ReadAttribute ==
  /\ pc = "pathAttributes"
  /\ left > 0
  /\ \E a \in Attributes :
       \/ /\ Has(AttributeOctets(a))
          /\ pos' = pos + AttributeOctets(a)
          /\ left' = Wrap(left - TotalSize(a))
          /\ types' = types \cup {a.type}
          /\ UNCHANGED pc
       \/ /\ BGPError
          /\ UNCHANGED <<pos, left, types>>
       \/ /\ Has(AttributeOctets(a))
          /\ a.len = 0
          /\ pc' = "failure"
          /\ UNCHANGED <<pos, left, types>>
  /\ UNCHANGED <<length, withdrawnRoutesLength, pathAttributesLength, nlriLength, merged>>

(***************************************************************************)
(* After the attributes: the AS path and the aggregator are completed, and *)
(* the length of the rest is computed, in 16 bits.                         *)
(***************************************************************************)
Complete ==
  /\ pc = "pathAttributes"
  /\ left = 0
  /\ merged' = Completion(types)
  /\ nlriLength' = Wrap(length - HeaderSize - LengthSize - LengthSize
                        - withdrawnRoutesLength - pathAttributesLength)
  /\ left' = nlriLength'
  /\ pc' = "announcedRoutes"
  /\ UNCHANGED <<length, pos, withdrawnRoutesLength, pathAttributesLength, types>>

ReadAnnouncedRoute ==
  /\ pc = "announcedRoutes"
  /\ left > 0
  /\ ReadRoute
  /\ UNCHANGED <<length, withdrawnRoutesLength, pathAttributesLength, nlriLength,
                 types, merged>>

Accept ==
  /\ pc = "announcedRoutes"
  /\ left = 0
  /\ pc' = "accepted"
  /\ UNCHANGED <<length, pos, withdrawnRoutesLength, pathAttributesLength, nlriLength,
                 left, types, merged>>

Refused == pc \in {"BGPError", "failure"}

\* The constructor has returned or thrown.
Stop == (pc = "accepted" \/ Refused) /\ UNCHANGED vars

Next ==
  \/ ReadCommonHeader
  \/ ReadWithdrawnRoutesLength
  \/ ReadWithdrawnRoute
  \/ ReadPathAttributesLength
  \/ ReadAttribute
  \/ Complete
  \/ ReadAnnouncedRoute
  \/ Accept
  \/ Stop

\* A constructor runs to its end.
Spec == Init /\ [][Next]_vars /\ WF_vars(Next)

-----------------------------------------------------------------------------
(* Properties                                                              *)

\* The variables hold values of their types; the stream is never passed.
TypeOK ==
  /\ length \in 0 .. W - 1
  /\ pos \in 0 .. length
  /\ withdrawnRoutesLength \in 0 .. W - 1
  /\ pathAttributesLength \in 0 .. W - 1
  /\ nlriLength \in 0 .. W - 1
  /\ left \in 0 .. W - 1
  /\ types \subseteq AttributeTypes
  /\ merged \subseteq AttributeTypes
  /\ pc \in {"header", "withdrawnRoutesLength", "withdrawnRoutes", "pathAttributes",
             "announcedRoutes", "accepted", "BGPError", "failure"}

(***************************************************************************)
(* A section that is left is one that was used up to the byte: although a  *)
(* count that is overshot wraps around, no loop ends after an overshoot,   *)
(* because the stream ends before the count can come around to zero.       *)
(***************************************************************************)
SectionsExact ==
  /\ pc = "withdrawnRoutes" /\ left = 0 => pos = LengthSize + withdrawnRoutesLength
  /\ pc = "pathAttributes" /\ left = 0 =>
       pos = LengthSize + withdrawnRoutesLength + LengthSize + pathAttributesLength

(***************************************************************************)
(* An UPDATE that is accepted was read from its first byte to its last and *)
(* not a byte further: neither the wrapped nlriLength of inconsistent      *)
(* section lengths nor the HeaderSize bytes the stream has too many ever   *)
(* contribute a route.                                                     *)
(***************************************************************************)
AcceptedExactly ==
  pc = "accepted" =>
    /\ pos = length - HeaderSize
    /\ LengthSize + withdrawnRoutesLength + LengthSize + pathAttributesLength + nlriLength
         = length - HeaderSize

(***************************************************************************)
(* Once a byte past the message has been taken for part of it, the message *)
(* is refused; in particular the loop over it ends.                        *)
(***************************************************************************)
OverreadRefused == pc # "header" /\ pos > length - HeaderSize ~> Refused

\* Every UPDATE is accepted or refused: no wrapped count keeps a loop going.
Decides == <>(pc = "accepted" \/ Refused)

=============================================================================
