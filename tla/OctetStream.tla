----------------------------- MODULE OctetStream -----------------------------
(***************************************************************************)
(* What the constructors of attributes, messages and records are given to  *)
(* read from: a stream over a buffer of their own, with a length that is   *)
(* not always that of the buffer.  A read takes all of its octets or sets  *)
(* the error flag, which is tested before anything else is done with what  *)
(* was read; a read through a null buffer throws istream::failure.  Either *)
(* way MRTCommonHeader::newMessage gives the record up, so both are a      *)
(* refusal here.  The octets are arbitrary.                                *)
(***************************************************************************)
EXTENDS Integers

VARIABLES
  size,   \* octets the stream claims to have
  pos,    \* how many of them were read
  pc

\* A bug: the octet after the last one is let through.
HasOneMore(n) == pos + n <= size + 1

Has(n) == pos + n <= size

\* The reads of n octets in all that a constructor makes before it tests for an error.
Take(n, next) == Has(n) /\ pos' = pos + n /\ pc' = next

Refuse == pc' = "refused" /\ UNCHANGED pos

TakeOrRefuse(n, next) ==
  \/ Take(n, next)
  \/ ~Has(n) /\ Refuse

Ended == pc \in {"accepted", "refused"}

=============================================================================
