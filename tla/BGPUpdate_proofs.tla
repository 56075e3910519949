--------------------------- MODULE BGPUpdate_proofs ---------------------------
(***************************************************************************)
(* Proofs that BGPUpdate accepts nothing but an exact parse, for every     *)
(* width W of the counters above the header's size, every set of prefix    *)
(* lengths and every set of attributes.                                    *)
(*                                                                         *)
(* The argument: within a section the count left and the octets taken add  *)
(* up to the declared length, or to W more than it once the section was    *)
(* overshot.  The stream is shorter than W, so in the second case left     *)
(* cannot be zero and the loop cannot end.  An nlriLength that wrapped     *)
(* stands for a negative rest of at least -HeaderSize, and what the stream *)
(* has left then falls short of it by W - HeaderSize.                      *)
(***************************************************************************)
EXTENDS BGPUpdate, TLAPS

\* The count in the section that starts at start and is declared to have n octets.
Counted(start, n) ==
  /\ start <= pos
  /\ \/ pos - start <= n /\ left = n - (pos - start)
     \/ pos - start > n /\ left = n - (pos - start) + W

AttributesStart == LengthSize + withdrawnRoutesLength + LengthSize
RoutesStart == AttributesStart + pathAttributesLength

Counts ==
  /\ pc \in {"header", "withdrawnRoutesLength"} => pos = 0
  /\ pc = "withdrawnRoutes" => Counted(LengthSize, withdrawnRoutesLength)
  /\ pc = "pathAttributes" => Counted(AttributesStart, pathAttributesLength)
  /\ pc = "announcedRoutes" =>
       /\ nlriLength = Wrap(length - HeaderSize - RoutesStart)
       /\ Counted(RoutesStart, nlriLength)
  /\ AcceptedExactly

IInv == TypeOK /\ Counts

-----------------------------------------------------------------------------
(* The arithmetic of the counters                                          *)

LEMMA WrapValue ==
  /\ \A x \in 0 .. W - 1 : Wrap(x) = x
  /\ \A x \in -W .. -1 : Wrap(x) = x + W
BY WidthAssumption DEF Wrap

LEMMA RouteSizeNat == \A p \in PrefixLens : NumOctets(p) \in Nat
BY InputsAssumption DEF NumOctets

LEMMA AttributeSizeNat == \A a \in Attributes : AttributeOctets(a) \in Nat
<1> SUFFICES ASSUME NEW a \in Attributes PROVE AttributeOctets(a) \in Nat
  OBVIOUS
<1>1. a.len \in Nat
  BY InputsAssumption
<1> QED
  BY <1>1, SizesAssumption DEF AttributeOctets

(***************************************************************************)
(* Taking size octets that the stream has keeps the count of the section   *)
(* right, whether it stays within the section, overshoots it or goes on    *)
(* past an overshoot.                                                      *)
(***************************************************************************)
LEMMA TakeCounts ==
  ASSUME TypeOK, NEW start \in Nat, NEW n \in 0 .. W - 1, NEW size \in Nat,
         Counted(start, n), left > 0, Has(size),
         pos' = pos + size, left' = Wrap(left - size), length' = length
  PROVE  /\ pos' \in 0 .. length' /\ left' \in 0 .. W - 1
         /\ start <= pos'
         /\ \/ pos' - start <= n /\ left' = n - (pos' - start)
            \/ pos' - start > n /\ left' = n - (pos' - start) + W
<1>0. /\ W \in Nat /\ length \in 0 .. W - 1 /\ pos \in 0 .. length /\ left \in 1 .. W - 1
      /\ pos + size <= length /\ start <= pos
  BY WidthAssumption DEF TypeOK, Has, Counted
<1>1. pos' \in 0 .. length' /\ start <= pos'
  BY <1>0
<1>2. CASE pos - start <= n /\ left = n - (pos - start)
  <2>1. CASE size <= left
    <3>1. left' = left - size
      BY <1>0, <2>1, WrapValue
    <3> QED
      BY <1>0, <1>1, <1>2, <2>1, <3>1
  <2>2. CASE size > left
    <3>1. left' = left - size + W
      BY <1>0, <2>2, WrapValue
    <3> QED
      BY <1>0, <1>1, <1>2, <2>2, <3>1
  <2> QED
    BY <1>0, <2>1, <2>2
<1>3. CASE pos - start > n /\ left = n - (pos - start) + W
  <2>1. left - size \in 0 .. W - 1
    BY <1>0, <1>3
  <2>2. left' = left - size
    BY <2>1, WrapValue
  <2> QED
    BY <1>0, <1>1, <1>3, <2>1, <2>2
<1> QED
  BY <1>2, <1>3 DEF Counted

\* Where the count is zero the section was used up exactly.
LEMMA ZeroIsExact ==
  ASSUME TypeOK, NEW start \in Nat, NEW n \in 0 .. W - 1, Counted(start, n), left = 0
  PROVE  pos = start + n
BY WidthAssumption DEF TypeOK, Counted

-----------------------------------------------------------------------------
(* The inductive invariant                                                 *)

LEMMA InitCounts == Init => IInv
<1> SUFFICES ASSUME Init PROVE IInv
  OBVIOUS
<1>1. TypeOK
  BY WidthAssumption DEF Init, TypeOK
<1>2. Counts
  BY DEF Init, Counts, AcceptedExactly
<1> QED
  BY <1>1, <1>2 DEF IInv

LEMMA NextCounts == IInv /\ [Next]_vars => IInv'
<1> SUFFICES ASSUME IInv, [Next]_vars PROVE IInv'
  OBVIOUS
<1> USE DEF IInv
<1>0. /\ W \in Nat /\ HeaderSize \in Nat /\ HeaderSize < W
      /\ LengthSize \in Nat /\ LengthSize > 0
      /\ length \in 0 .. W - 1 /\ pos \in 0 .. length /\ left \in 0 .. W - 1
      /\ withdrawnRoutesLength \in 0 .. W - 1 /\ pathAttributesLength \in 0 .. W - 1
      /\ nlriLength \in 0 .. W - 1
      /\ types \subseteq AttributeTypes /\ merged \subseteq AttributeTypes
      /\ AttributesStart \in Nat /\ RoutesStart \in Nat
  BY WidthAssumption, SizesAssumption DEF TypeOK, AttributesStart, RoutesStart
\* One turn of either loop over routes.
<1>r. ASSUME ReadRoute, NEW start \in Nat, NEW n \in 0 .. W - 1, Counted(start, n), left > 0,
             length' = length
      PROVE  \/ /\ pc' = pc
                /\ pos' \in 0 .. length' /\ left' \in 0 .. W - 1
                /\ start <= pos'
                /\ \/ pos' - start <= n /\ left' = n - (pos' - start)
                   \/ pos' - start > n /\ left' = n - (pos' - start) + W
             \/ pc' = "BGPError" /\ UNCHANGED <<pos, left>>
  <2>1. PICK p \in PrefixLens : \/ TakeRoute(p)
                                \/ BGPError /\ UNCHANGED <<pos, left>>
    BY <1>r DEF ReadRoute
  <2>2. CASE TakeRoute(p)
    <3>1. 1 + NumOctets(p) \in Nat
      BY RouteSizeNat
    <3>2. /\ Has(1 + NumOctets(p)) /\ pos' = pos + (1 + NumOctets(p))
          /\ left' = Wrap(left - (1 + NumOctets(p))) /\ pc' = pc
      BY <1>0, <2>2, RouteSizeNat DEF TakeRoute, ReadableRoute, RouteSize
    <3> QED
      BY <1>r, <3>1, <3>2, TakeCounts
  <2> QED
    BY <2>1, <2>2 DEF BGPError
<1>1. CASE ReadCommonHeader
  <2>1. TypeOK'
    BY <1>0, <1>1 DEF ReadCommonHeader, BGPError, TypeOK, Counts
  <2>2. Counts'
    BY <1>0, <1>1 DEF ReadCommonHeader, BGPError, Counts, AcceptedExactly
  <2> QED
    BY <2>1, <2>2
<1>2. CASE ReadWithdrawnRoutesLength
  <2>1. TypeOK'
    BY <1>0, <1>2 DEF ReadWithdrawnRoutesLength, Has, BGPError, TypeOK
  <2>2. Counts'
    BY <1>0, <1>2 DEF ReadWithdrawnRoutesLength, Has, BGPError, Counts, Counted, AcceptedExactly
  <2> QED
    BY <2>1, <2>2
<1>3. CASE ReadWithdrawnRoute
  <2>0. /\ pc = "withdrawnRoutes" /\ left > 0 /\ length' = length
        /\ UNCHANGED <<withdrawnRoutesLength, pathAttributesLength, nlriLength, types, merged>>
        /\ ReadRoute /\ Counted(LengthSize, withdrawnRoutesLength)
    BY <1>3 DEF ReadWithdrawnRoute, Counts
  <2>1. \/ /\ pc' = pc
           /\ pos' \in 0 .. length' /\ left' \in 0 .. W - 1
           /\ LengthSize <= pos'
           /\ \/ /\ pos' - LengthSize <= withdrawnRoutesLength
                 /\ left' = withdrawnRoutesLength - (pos' - LengthSize)
              \/ /\ pos' - LengthSize > withdrawnRoutesLength
                 /\ left' = withdrawnRoutesLength - (pos' - LengthSize) + W
        \/ pc' = "BGPError" /\ UNCHANGED <<pos, left>>
    BY <1>0, <1>r, <2>0
  <2>2. TypeOK'
    BY <1>0, <2>0, <2>1 DEF TypeOK
  <2>3. Counts'
    BY <2>0, <2>1 DEF Counts, Counted, AcceptedExactly
  <2> QED
    BY <2>2, <2>3
<1>4. CASE ReadPathAttributesLength
  <2>0. pos = LengthSize + withdrawnRoutesLength
    BY <1>0, <1>4, ZeroIsExact DEF ReadPathAttributesLength, Counts
  <2>1. TypeOK'
    BY <1>0, <1>4 DEF ReadPathAttributesLength, Has, BGPError, TypeOK
  <2>2. Counts'
    BY <1>0, <1>4, <2>0 DEF ReadPathAttributesLength, BGPError, Counts, Counted,
       AttributesStart, AcceptedExactly
  <2> QED
    BY <2>1, <2>2
<1>5. CASE ReadAttribute
  <2>0. /\ pc = "pathAttributes" /\ left > 0 /\ length' = length
        /\ UNCHANGED <<withdrawnRoutesLength, pathAttributesLength, nlriLength, merged>>
        /\ Counted(AttributesStart, pathAttributesLength)
    BY <1>5 DEF ReadAttribute, Counts
  <2>1. CASE pc' \in {"BGPError", "failure"} /\ UNCHANGED <<pos, left, types>>
    <3>1. TypeOK'
      BY <1>0, <2>0, <2>1 DEF TypeOK
    <3>2. Counts'
      BY <2>0, <2>1 DEF Counts, AcceptedExactly
    <3> QED
      BY <3>1, <3>2
  <2>2. ASSUME NEW a \in Attributes, Has(AttributeOctets(a)),
               pos' = pos + AttributeOctets(a), left' = Wrap(left - TotalSize(a)),
               types' = types \cup {a.type}, pc' = pc
        PROVE  TypeOK' /\ Counts'
    <3>1. AttributeOctets(a) \in Nat /\ TotalSize(a) = AttributeOctets(a)
      BY AttributeSizeNat DEF TotalSize, AttributeOctets
    <3>2. /\ pos' \in 0 .. length' /\ left' \in 0 .. W - 1
          /\ AttributesStart <= pos'
          /\ \/ /\ pos' - AttributesStart <= pathAttributesLength
                /\ left' = pathAttributesLength - (pos' - AttributesStart)
             \/ /\ pos' - AttributesStart > pathAttributesLength
                /\ left' = pathAttributesLength - (pos' - AttributesStart) + W
      BY <1>0, <2>0, <2>2, <3>1, TakeCounts
    <3>3. a.type \in AttributeTypes
      BY InputsAssumption
    <3>4. TypeOK'
      BY <1>0, <2>0, <2>2, <3>2, <3>3 DEF TypeOK
    <3>5. Counts'
      BY <2>0, <2>2, <3>2 DEF Counts, Counted, AttributesStart, AcceptedExactly
    <3> QED
      BY <3>4, <3>5
  <2> QED
    BY <1>5, <2>1, <2>2 DEF ReadAttribute, BGPError
<1>6. CASE Complete
  <2>0. /\ pc = "pathAttributes" /\ left = 0 /\ pc' = "announcedRoutes"
        /\ UNCHANGED <<length, pos, withdrawnRoutesLength, pathAttributesLength, types>>
        /\ left' = nlriLength'
        /\ nlriLength' = Wrap(length - HeaderSize - LengthSize - LengthSize
                              - withdrawnRoutesLength - pathAttributesLength)
        /\ merged' \subseteq AttributeTypes
    BY <1>0, <1>6 DEF Complete, Completion, CompletedFrom
  <2>1. pos = RoutesStart
    BY <1>0, <2>0, ZeroIsExact DEF Counts, RoutesStart
  <2>2. nlriLength' = Wrap(length - HeaderSize - RoutesStart)
    <3>1. length - HeaderSize - LengthSize - LengthSize - withdrawnRoutesLength
            - pathAttributesLength = length - HeaderSize - RoutesStart
      BY <1>0 DEF RoutesStart, AttributesStart
    <3> QED
      BY <2>0, <3>1
  <2>3. length - HeaderSize - RoutesStart \in -W .. W - 1
    BY <1>0, <2>1
  <2>4. nlriLength' \in 0 .. W - 1
    BY <1>0, <2>2, <2>3, WrapValue
  <2>5. TypeOK'
    BY <1>0, <2>0, <2>4 DEF TypeOK
  <2>6. Counts'
    BY <1>0, <2>0, <2>1, <2>2, <2>4
    DEF Counts, Counted, RoutesStart, AttributesStart, Wrap, AcceptedExactly
  <2> QED
    BY <2>5, <2>6
<1>7. CASE ReadAnnouncedRoute
  <2>0. /\ pc = "announcedRoutes" /\ left > 0 /\ length' = length
        /\ UNCHANGED <<withdrawnRoutesLength, pathAttributesLength, nlriLength, types, merged>>
        /\ ReadRoute /\ Counted(RoutesStart, nlriLength)
        /\ nlriLength = Wrap(length - HeaderSize - RoutesStart)
    BY <1>7 DEF ReadAnnouncedRoute, Counts
  <2>1. \/ /\ pc' = pc
           /\ pos' \in 0 .. length' /\ left' \in 0 .. W - 1
           /\ RoutesStart <= pos'
           /\ \/ pos' - RoutesStart <= nlriLength /\ left' = nlriLength - (pos' - RoutesStart)
              \/ pos' - RoutesStart > nlriLength /\ left' = nlriLength - (pos' - RoutesStart) + W
        \/ pc' = "BGPError" /\ UNCHANGED <<pos, left>>
    BY <1>0, <1>r, <2>0
  <2>2. TypeOK'
    BY <1>0, <2>0, <2>1 DEF TypeOK
  <2>3. Counts'
    BY <2>0, <2>1 DEF Counts, Counted, RoutesStart, AttributesStart, Wrap, AcceptedExactly
  <2> QED
    BY <2>2, <2>3
\* The rest of the message was nlriLength octets, and it did not wrap.
<1>8. CASE Accept
  <2>0. /\ pc = "announcedRoutes" /\ left = 0 /\ pc' = "accepted"
        /\ UNCHANGED <<length, pos, withdrawnRoutesLength, pathAttributesLength, nlriLength,
                       left, types, merged>>
        /\ nlriLength = Wrap(length - HeaderSize - RoutesStart)
        /\ Counted(RoutesStart, nlriLength)
    BY <1>8 DEF Accept, Counts
  <2>1. pos = RoutesStart + nlriLength
    BY <1>0, <2>0, ZeroIsExact
  <2>2. length - HeaderSize - RoutesStart >= 0
    <3> SUFFICES ASSUME length - HeaderSize - RoutesStart < 0 PROVE FALSE
      BY <1>0
    <3>1. length - HeaderSize - RoutesStart \in -W .. -1
      BY <1>0, <2>0 DEF Counted
    <3>2. nlriLength = length - HeaderSize - RoutesStart + W
      BY <2>0, <3>1, WrapValue
    <3> QED
      BY <1>0, <2>1, <3>2
  <2>3. nlriLength = length - HeaderSize - RoutesStart
    BY <1>0, <2>0, <2>2, WrapValue
  <2>4. AcceptedExactly'
    BY <1>0, <2>0, <2>1, <2>3 DEF AcceptedExactly, RoutesStart, AttributesStart
  <2>5. TypeOK'
    BY <1>0, <2>0 DEF TypeOK
  <2> QED
    BY <2>0, <2>4, <2>5 DEF Counts
<1>9. CASE UNCHANGED vars
  BY <1>9 DEF vars, TypeOK, Counts, Counted, RoutesStart, AttributesStart, Wrap, AcceptedExactly
<1> QED
  BY <1>1, <1>2, <1>3, <1>4, <1>5, <1>6, <1>7, <1>8, <1>9 DEF Next, Stop

LEMMA CountsHold == Spec => []IInv
BY InitCounts, NextCounts, PTL DEF Spec

-----------------------------------------------------------------------------
(* The theorems                                                            *)

(***************************************************************************)
(* Type correctness: the stream is never passed, and the counters stay     *)
(* within their width.                                                     *)
(***************************************************************************)
THEOREM TypeCorrect == Spec => []TypeOK
<1>1. IInv => TypeOK
  BY DEF IInv
<1> QED
  BY <1>1, CountsHold, PTL

(***************************************************************************)
(* A loop over a section ends only where the section ends, although the    *)
(* count wraps when an element overshoots it.                              *)
(***************************************************************************)
THEOREM SectionsExactHolds == Spec => []SectionsExact
<1>1. IInv => SectionsExact
  <2> SUFFICES ASSUME IInv, left = 0
               PROVE  SectionsExact
    BY DEF SectionsExact
  <2>1. /\ LengthSize \in Nat /\ AttributesStart \in Nat
        /\ withdrawnRoutesLength \in 0 .. W - 1 /\ pathAttributesLength \in 0 .. W - 1
    BY WidthAssumption, SizesAssumption DEF IInv, TypeOK, AttributesStart
  <2>2. pc = "withdrawnRoutes" => pos = LengthSize + withdrawnRoutesLength
    BY <2>1, ZeroIsExact DEF IInv, Counts
  <2>3. pc = "pathAttributes" => pos = AttributesStart + pathAttributesLength
    BY <2>1, ZeroIsExact DEF IInv, Counts
  <2> QED
    BY <2>2, <2>3 DEF SectionsExact, AttributesStart
<1> QED
  BY <1>1, CountsHold, PTL

(***************************************************************************)
(* An accepted UPDATE was read to its last byte and not beyond: the bytes  *)
(* the stream has past the message contribute nothing, and the section     *)
(* lengths of the message add up to it without wrapping.                   *)
(***************************************************************************)
THEOREM AcceptedExactlyHolds == Spec => []AcceptedExactly
<1>1. IInv => AcceptedExactly
  BY DEF IInv, Counts
<1> QED
  BY <1>1, CountsHold, PTL

=============================================================================
