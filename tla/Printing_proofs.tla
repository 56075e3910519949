---------------------------- MODULE Printing_proofs ----------------------------
(***************************************************************************)
(* Proofs about a record on its way out, for every tree whose lists hold   *)
(* what their C++ types say (MessagesAssumption).                          *)
(*                                                                         *)
(*   Typed       what lies on the stack has the members its visit() reads  *)
(*               and the parameter its visitor casts                       *)
(*   ListedLeft  the routes, segments and parameters a generic visitor     *)
(*               has come by, followed by those below the frames of the    *)
(*               stack, are the record's                                   *)
(*   LinesRight  where bgpparser2's two visitors are in the record, and    *)
(*               what that says of the stack, of the Info that is being    *)
(*               filled in and of the lines printed so far                 *)
(*                                                                         *)
(*   XmlMade     mrt2xml's one step, after which the XML is the record's   *)
(*                                                                         *)
(* They say of lists of any length what is said of their elements, so the  *)
(* lemmas come first that concatenate lists, and flatten lists of lists.   *)
(* LinesRight follows a batch: the attributes of one message or entry and  *)
(* the routes after them.  A record has one batch at most, or one for each *)
(* entry, and a batch is proved to print its lines whatever was printed    *)
(* before it and is visited after it.                                      *)
(*                                                                         *)
(* ProgramsAgree and XmlAgrees compare functions of the record: the last   *)
(* lines bgpparser2 has, by LinesRight, with those that mrt2xml collects;  *)
(* and the prefixes in mrt2xml's XML with those in its lines, message by   *)
(* message and, in a message, attribute by attribute.                      *)
(***************************************************************************)
EXTENDS XmlAgreement, SequenceTheorems, FiniteSetTheorems, NaturalsInduction, WellFoundedInduction, TLAPS

-----------------------------------------------------------------------------
(* Induction over the natural numbers                                      *)

\* A set of natural numbers that is not empty has a least element.
LEMMA LeastNat ==
  ASSUME NEW T \in SUBSET Nat, T # {}
  PROVE  \E x \in T : \A y \in T : x <= y
<1> DEFINE R == {ss \in Nat \X Nat : ss[1] < ss[2]}
<1>1. IsWellFoundedOn(R, Nat)
  BY NatLessThanWellFounded DEF OpToRel
<1>2. \A x, y \in Nat : y < x => <<y, x>> \in R
  OBVIOUS
<1> HIDE DEF R
<1>3. PICK x \in T : \A y \in T : ~ (<<y, x>> \in R)
  BY <1>1, WFMin
<1>4. \A y \in T : ~ (y < x)
  BY <1>2, <1>3
<1> QED
  BY <1>4

\* Induction over the natural numbers, for a set instead of a predicate.
LEMMA Induct ==
  ASSUME NEW S, 0 \in S, \A n \in Nat : n \in S => n + 1 \in S
  PROVE  Nat \subseteq S
<1> SUFFICES ASSUME Nat \ S # {} PROVE FALSE
  OBVIOUS
<1>1. PICK x \in Nat \ S : \A y \in Nat \ S : x <= y
  BY LeastNat
<1>2. x - 1 \in Nat /\ ~ (x <= x - 1)
  BY <1>1
<1>3. x \in S
  BY <1>1, <1>2
<1> QED
  BY <1>1, <1>3

\* A sequence over any set is a list.
LEMMA SeqIsList ==
  ASSUME NEW S, NEW s \in Seq(S)
  PROVE  /\ IsList(s)
         /\ ToSet(s) \subseteq S
         /\ Len(s) \in Nat
         /\ DOMAIN s = 1 .. Len(s)
  BY DEF ToSet, IsList

\* The length and domain of a list, which is a function on them.
LEMMA ListFacts ==
  ASSUME NEW s, IsList(s)
  PROVE  /\ Len(s) \in Nat
         /\ DOMAIN s = 1 .. Len(s)
         /\ s = [i \in 1 .. Len(s) |-> s[i]]
         /\ s \in Seq(ToSet(s))
         /\ s = << >> <=> Len(s) = 0
BY DEF IsList

\* A function with a domain 1 .. n is a list.
LEMMA FunctionIsList ==
  ASSUME NEW n \in Nat, NEW s, s = [i \in 1 .. n |-> s[i]]
  PROVE  IsList(s) /\ Len(s) = n
  BY DEF ToSet, IsList

\* Lists that agree in length and elements are equal.
LEMMA ListEqual ==
  ASSUME NEW s, NEW t, IsList(s), IsList(t), Len(s) = Len(t), \A i \in 1 .. Len(s) : s[i] = t[i]
  PROVE  s = t
BY ListFacts

\* The elements of a concatenation.
LEMMA ConcatList ==
  ASSUME NEW s, NEW t, IsList(s), IsList(t)
  PROVE  /\ IsList(s \o t)
         /\ Len(s \o t) = Len(s) + Len(t)
         /\ DOMAIN (s \o t) = 1 .. Len(s) + Len(t)
         /\ \A i \in 1 .. Len(s) : (s \o t)[i] = s[i]
         /\ \A i \in 1 .. Len(t) : (s \o t)[Len(s) + i] = t[i]
         /\ \A i \in 1 .. Len(s) + Len(t) :
              (s \o t)[i] = IF i <= Len(s) THEN s[i] ELSE t[i - Len(s)]
<1> DEFINE U == ToSet(s) \cup ToSet(t)
<1>1. s \in Seq(U) /\ t \in Seq(U)
  <2> HIDE DEF U
  <2> QED
    BY SeqMonotonic DEF IsList, U
<1> HIDE DEF U
<1>2. /\ s \o t \in Seq(U)
      /\ Len(s \o t) = Len(s) + Len(t)
      /\ \A i \in 1 .. Len(s) + Len(t) : (s \o t)[i] =
                     IF i <= Len(s) THEN s[i] ELSE t[i - Len(s)]
  BY <1>1, ConcatProperties
<1>3. IsList(s \o t) /\ DOMAIN (s \o t) = 1 .. Len(s \o t)
  BY <1>2, SeqIsList
<1>4. Len(s) \in Nat /\ Len(t) \in Nat
  BY ListFacts
<1> QED
  BY <1>2, <1>3, <1>4

\* Concatenation is associative.
LEMMA ConcatAssoc ==
  ASSUME NEW s, NEW t, NEW u, IsList(s), IsList(t), IsList(u)
  PROVE  (s \o t) \o u = s \o (t \o u)
<1> DEFINE U == ToSet(s) \cup ToSet(t) \cup ToSet(u)
<1>1. s \in Seq(U) /\ t \in Seq(U) /\ u \in Seq(U)
  <2> HIDE DEF U
  <2> QED
    BY SeqMonotonic DEF IsList, U
<1> HIDE DEF U
<1> QED
  BY <1>1, ConcatAssociative

\* The empty list is one.
LEMMA EmptyIsList == IsList(<< >>) /\ Len(<< >>) = 0
BY DEF IsList

\* It adds nothing to another.
LEMMA ConcatEmpty ==
  ASSUME NEW s, IsList(s)
  PROVE  s \o << >> = s /\ << >> \o s = s
BY DEF IsList

\* A list of one.
LEMMA SingleList ==
  ASSUME NEW x
  PROVE  /\ IsList(<<x>>) /\ Len(<<x>>) = 1 /\ <<x>>[1] = x
<1>1. <<x>> \in Seq({x})
  OBVIOUS
<1> QED
  BY <1>1, SeqIsList

\* Appending is concatenation with a list of one.
LEMMA AppendList ==
  ASSUME NEW s, NEW x, IsList(s)
  PROVE  /\ Append(s, x) = s \o <<x>>
         /\ IsList(Append(s, x))
         /\ Len(Append(s, x)) = Len(s) + 1
         /\ \A i \in 1 .. Len(s) : Append(s, x)[i] = s[i]
         /\ Append(s, x)[Len(s) + 1] = x
<1> DEFINE U == ToSet(s) \cup {x}
<1>1. s \in Seq(U) /\ x \in U
  <2> HIDE DEF U
  <2> QED
    BY SeqMonotonic DEF IsList, U
<1> HIDE DEF U
<1>2. /\ Append(s, x) \in Seq(U)
      /\ Append(s, x) = s \o <<x>>
      /\ Len(Append(s, x)) = Len(s) + 1
      /\ \A i \in 1 .. Len(s) : Append(s, x)[i] = s[i]
      /\ Append(s, x)[Len(s) + 1] = x
  BY <1>1, AppendProperties, AppendIsConcat
<1> QED
  BY <1>2, SeqIsList

\* The head and the tail of a list make it up.
LEMMA TailList ==
  ASSUME NEW s, IsList(s), s # << >>
  PROVE  /\ s = <<Head(s)>> \o Tail(s)
         /\ IsList(Tail(s))
         /\ Len(Tail(s)) = Len(s) - 1
         /\ Head(s) = s[1]
         /\ \A i \in 1 .. Len(s) - 1 : Tail(s)[i] = s[i + 1]
<1>1. Tail(s) \in Seq(ToSet(s)) /\ Len(Tail(s)) = Len(s) - 1
      /\ Head(s) = s[1]
      /\ \A i \in 1 .. Len(s) - 1 : Tail(s)[i] = s[i + 1]
  BY HeadTailProperties DEF IsList
<1>2. IsList(Tail(s))
  BY <1>1, SeqIsList
<1>3. IsList(<<Head(s)>>) /\ Len(<<Head(s)>>) = 1 /\ <<Head(s)>>[1] = s[1]
  BY SingleList, <1>1
<1>4. Len(s) \in Nat /\ Len(s) # 0
  BY ListFacts
<1>5. \A i \in 1 .. Len(s) : (<<Head(s)>> \o Tail(s))[i] = s[i]
  BY <1>1, <1>2, <1>3, <1>4, ConcatList
<1>6. IsList(<<Head(s)>> \o Tail(s)) /\ Len(<<Head(s)>> \o Tail(s)) = Len(s)
  BY <1>1, <1>2, <1>3, <1>4, ConcatList
<1> QED
  BY <1>1, <1>2, <1>5, <1>6, ListEqual

\* The tail of what begins with a list of one.
LEMMA TailOfConcat ==
  ASSUME NEW x, NEW t, IsList(t)
  PROVE  /\ <<x>> \o t # << >>
         /\ Head(<<x>> \o t) = x
         /\ Tail(<<x>> \o t) = t
<1> DEFINE s == <<x>> \o t
<1>1. IsList(s) /\ Len(s) = 1 + Len(t) /\ s[1] = x /\ \A i \in 1 .. Len(t) : s[1 + i] = t[i]
  BY ConcatList, SingleList
<1> HIDE DEF s
<1>2. s # << >>
  BY <1>1, ListFacts
<1>3. IsList(Tail(s)) /\ Len(Tail(s)) = Len(s) - 1 /\ Head(s) = s[1]
      /\ \A i \in 1 .. Len(s) - 1 : Tail(s)[i] = s[i + 1]
  BY <1>1, <1>2, TailList
<1>4. Len(Tail(s)) = Len(t) /\ \A i \in 1 .. Len(t) : Tail(s)[i] = t[i]
  BY <1>1, <1>3, ListFacts
<1>5. Tail(s) = t
  BY <1>3, <1>4, ListEqual
<1> QED
  BY <1>1, <1>2, <1>3, <1>5 DEF s

\* A list of lists.
IsListOfLists(ss) == IsList(ss) /\ \A i \in 1 .. Len(ss) : IsList(ss[i])

\* f(i) is the first i lists of ss, one after the other: FlattenSeq computes such an f.
Flattens(f, ss, n) ==
  f = [i \in 1 .. n |-> IF i = 1 THEN ss[i] ELSE f[i - 1] \o ss[i]]

\* The partial results of flattening exist, for every length.
LEMMA FlattensExists ==
  ASSUME NEW ss, NEW n \in Nat
  PROVE  \E f : Flattens(f, ss, n)
<1> DEFINE S == {m \in Nat : \E f : Flattens(f, ss, m)}
<1>1. 0 \in S
  <2> DEFINE e == [i \in 1 .. 0 |-> 0]
  <2>1. Flattens(e, ss, 0)
    BY DEF Flattens
  <2> QED
    BY <2>1
<1>2. ASSUME NEW m \in Nat, m \in S PROVE m + 1 \in S
  <2>1. PICK f : Flattens(f, ss, m)
    BY <1>2
  <2> DEFINE g == [i \in 1 .. m + 1 |->
                     IF i = m + 1 THEN (IF i = 1 THEN ss[i] ELSE f[i - 1] \o ss[i]) ELSE f[i]]
  <2>2. \A i \in 1 .. m : f[i] = IF i = 1 THEN ss[i] ELSE f[i - 1] \o ss[i]
    BY <2>1 DEF Flattens
  <2>3. ASSUME NEW i \in 1 .. m + 1
        PROVE  g[i] = IF i = 1 THEN ss[i] ELSE g[i - 1] \o ss[i]
    BY <2>2
  <2>4. DOMAIN g = 1 .. m + 1 /\ g = [i \in 1 .. m + 1 |-> g[i]]
    OBVIOUS
  <2> HIDE DEF g
  <2>5. Flattens(g, ss, m + 1)
    BY <2>3, <2>4 DEF Flattens
  <2> QED
    BY <2>5
<1>3. Nat \subseteq S
  <2> HIDE DEF S
  <2> QED
    BY <1>1, <1>2, Induct
<1> QED
  BY <1>3

\* They are what the first lists determine.
LEMMA FlattensUnique ==
  ASSUME NEW ss, NEW tt, NEW f, NEW g, NEW m \in Nat, NEW n \in Nat, n <= m,
         Flattens(f, ss, m), Flattens(g, tt, n), \A i \in 1 .. n : ss[i] = tt[i]
  PROVE  \A i \in 1 .. n : f[i] = g[i]
<1> DEFINE S == {i \in Nat : i \in 1 .. n => f[i] = g[i]}
<1>1. 0 \in S
  OBVIOUS
<1>2. ASSUME NEW i \in Nat, i \in S PROVE i + 1 \in S
  <2>1. SUFFICES ASSUME i + 1 \in 1 .. n PROVE f[i + 1] = g[i + 1]
    OBVIOUS
  <2>2. f[i + 1] = IF i + 1 = 1 THEN ss[i + 1] ELSE f[(i + 1) - 1] \o ss[i + 1]
    <3>1. i + 1 \in 1 .. m
      BY <2>1
    <3> QED
      BY <3>1 DEF Flattens
  <2>3. i + 1 # 1 => f[(i + 1) - 1] = g[(i + 1) - 1]
    BY <1>2, <2>1
  <2> QED
    BY <2>1, <2>2, <2>3 DEF Flattens
<1>3. Nat \subseteq S
  <2> HIDE DEF S
  <2> QED
    BY <1>1, <1>2, Induct
<1> QED
  BY <1>3

\* FlattenSeq is the last of its partial results.
LEMMA FlattenIs ==
  ASSUME NEW ss, IsList(ss)
  PROVE  /\ ss = << >> => FlattenSeq(ss) = << >>
         /\ ss # << >> => \E f : Flattens(f, ss, Len(ss)) /\ FlattenSeq(ss) = f[Len(ss)]
<1>1. Len(ss) \in Nat /\ (ss = << >> <=> Len(ss) = 0)
  BY ListFacts
<1>2. ASSUME ss # << >>
      PROVE  \E f : Flattens(f, ss, Len(ss)) /\ FlattenSeq(ss) = f[Len(ss)]
  <2> DEFINE f == CHOOSE f : f = [i \in 1 .. Len(ss) |-> IF i = 1 THEN ss[i] ELSE f[i - 1] \o ss[i]]
  <2>1. FlattenSeq(ss) = f[Len(ss)]
    BY <1>1, <1>2 DEF FlattenSeq
  <2>2. Flattens(f, ss, Len(ss))
    BY Zenon, <1>1, FlattensExists DEF Flattens
  <2> QED
    BY Zenon, <2>1, <2>2
<1> QED
  BY <1>1, <1>2 DEF FlattenSeq

\* Flattening nothing gives nothing.
LEMMA FlattenEmpty == FlattenSeq(<< >>) = << >>
BY DEF FlattenSeq

\* Flattening one list gives it back.
LEMMA FlattenOne ==
  ASSUME NEW s
  PROVE  FlattenSeq(<<s>>) = s
BY DEF FlattenSeq

\* One more list comes at the end.
LEMMA FlattenAppend ==
  ASSUME NEW ss, NEW s, IsList(ss), IsList(s)
  PROVE  FlattenSeq(Append(ss, s)) = FlattenSeq(ss) \o s
<1> DEFINE tt == Append(ss, s)
           n == Len(ss)
<1>1. IsList(tt) /\ Len(tt) = n + 1 /\ n \in Nat /\ tt[n + 1] = s
      /\ \A i \in 1 .. n : tt[i] = ss[i]
  <2>1. n \in Nat
    BY ListFacts
  <2> QED
    BY ZenonT(60), <2>1, AppendList
<1> HIDE DEF tt
<1>2. PICK g : Flattens(g, tt, n + 1) /\ FlattenSeq(tt) = g[n + 1]
  BY <1>1, FlattenIs, ListFacts
<1>3. g[n + 1] = IF n + 1 = 1 THEN tt[n + 1] ELSE g[(n + 1) - 1] \o tt[n + 1]
  <2>1. n + 1 \in 1 .. n + 1
    BY <1>1
  <2> HIDE DEF n
  <2> QED
    BY <1>2, <2>1 DEF Flattens
<1>4. CASE ss = << >>
  <2>1. FlattenSeq(tt) = s
    BY <1>1, <1>2, <1>3, <1>4
  <2> QED
    BY <1>4, <2>1, FlattenEmpty, ConcatEmpty DEF tt
<1>5. CASE ss # << >>
  <2>1. n # 0
    BY <1>5, ListFacts
  <2>2. PICK f : Flattens(f, ss, n) /\ FlattenSeq(ss) = f[n]
    BY <1>5, FlattenIs
  <2>3. \A i \in 1 .. n : g[i] = f[i]
    <3> HIDE DEF n
    <3> QED
      BY <1>1, <1>2, <2>2, FlattensUnique
  <2>4. g[(n + 1) - 1] = f[n]
    BY <1>1, <2>1, <2>3
  <2> QED
    BY <1>1, <1>2, <1>3, <2>1, <2>2, <2>4 DEF tt
<1> QED
  BY <1>4, <1>5

\* What is flattened is a list.
LEMMA FlattenIsList ==
  ASSUME NEW ss, IsListOfLists(ss)
  PROVE  IsList(FlattenSeq(ss))
<1>1. IsList(ss) /\ Len(ss) \in Nat
  BY ListFacts DEF IsListOfLists
<1>2. CASE ss = << >>
  BY <1>1, <1>2, FlattenEmpty, EmptyIsList
<1>3. CASE ss # << >>
  <2>1. PICK f : Flattens(f, ss, Len(ss)) /\ FlattenSeq(ss) = f[Len(ss)]
    BY <1>1, <1>3, FlattenIs
  <2> DEFINE S == {i \in Nat : i \in 1 .. Len(ss) => IsList(f[i])}
  <2>2. 0 \in S
    OBVIOUS
  <2>3. ASSUME NEW i \in Nat, i \in S PROVE i + 1 \in S
    <3>1. SUFFICES ASSUME i + 1 \in 1 .. Len(ss) PROVE IsList(f[i + 1])
      OBVIOUS
    <3>2. f[i + 1] = IF i + 1 = 1 THEN ss[i + 1] ELSE f[(i + 1) - 1] \o ss[i + 1]
      BY <2>1, <3>1 DEF Flattens
    <3>3. IsList(ss[i + 1])
      BY <3>1 DEF IsListOfLists
    <3>4. i + 1 # 1 => IsList(f[(i + 1) - 1])
      BY <1>1, <2>3, <3>1
    <3> QED
      BY <3>2, <3>3, <3>4, ConcatList
  <2>4. Nat \subseteq S
    <3> HIDE DEF S
    <3> QED
      BY <2>2, <2>3, Induct
  <2> QED
    BY <1>1, <1>3, <2>1, <2>4, ListFacts
<1> QED
  BY <1>2, <1>3

\* The lists of two lists of lists are those of the first, then those of the second.
LEMMA FlattenConcat ==
  ASSUME NEW ss, NEW tt, IsListOfLists(ss), IsListOfLists(tt)
  PROVE  FlattenSeq(ss \o tt) = FlattenSeq(ss) \o FlattenSeq(tt)
<1> DEFINE first(n) == SubSeq(tt, 1, n)
           S == {n \in Nat : n <= Len(tt) =>
                   FlattenSeq(ss \o first(n)) = FlattenSeq(ss) \o FlattenSeq(first(n))}
<1>1. IsList(ss) /\ IsList(tt) /\ Len(tt) \in Nat
  BY ListFacts DEF IsListOfLists
<1>2. ASSUME NEW n \in Nat, n <= Len(tt)
      PROVE  /\ IsListOfLists(first(n)) /\ Len(first(n)) = n
             /\ \A i \in 1 .. n : first(n)[i] = tt[i]
  <2>1. /\ first(n) \in Seq(ToSet(tt)) /\ Len(first(n)) = n
        /\ \A i \in 1 .. n : first(n)[i] = tt[i]
    BY <1>1, <1>2, SubSeqProperties, ListFacts DEF ToSet
  <2> HIDE DEF first
  <2> QED
    BY <1>1, <1>2, <2>1, SeqIsList DEF IsListOfLists
<1>3. 0 \in S
  <2>1. first(0) = << >>
    BY SubSeqEmpty
  <2>2. IsList(FlattenSeq(ss))
    BY FlattenIsList
  <2> QED
    BY <1>1, <2>1, <2>2, ConcatEmpty, FlattenEmpty
<1>4. ASSUME NEW n \in Nat, n \in S PROVE n + 1 \in S
  <2>1. SUFFICES ASSUME n + 1 <= Len(tt)
                 PROVE  FlattenSeq(ss \o first(n + 1)) = FlattenSeq(ss) \o FlattenSeq(first(n + 1))
    OBVIOUS
  <2> DEFINE x == tt[n + 1]
             r == first(n)
  <2>2. IsListOfLists(r) /\ IsList(r) /\ Len(r) = n /\ \A i \in 1 .. n : r[i] = tt[i]
    BY <1>1, <1>2, <2>1 DEF IsListOfLists
  <2>3. IsList(x)
    BY <2>1, <1>1 DEF IsListOfLists
  <2>4. IsList(first(n + 1)) /\ Len(first(n + 1)) = n + 1
        /\ \A i \in 1 .. n + 1 : first(n + 1)[i] = tt[i]
    BY <1>2, <2>1 DEF IsListOfLists
  <2>5. first(n + 1) = Append(r, x)
    <3> DEFINE a == first(n + 1)
               b == Append(r, x)
    <3>1. IsList(b) /\ Len(b) = n + 1 /\ b[n + 1] = x /\ \A i \in 1 .. n : b[i] = r[i]
      <4> HIDE DEF r, x
      <4> QED
        BY ZenonT(60), <2>2, AppendList
    <3>2. \A i \in 1 .. n + 1 : i \in 1 .. n \/ i = n + 1
      OBVIOUS
    <3>3. \A i \in 1 .. n + 1 : a[i] = b[i]
      <4> HIDE DEF b, r, first
      <4> QED
        BY <2>2, <2>4, <3>1, <3>2
    <3> HIDE DEF a, b
    <3>4. a = b
      BY <2>4, <3>1, <3>3, ListEqual DEF a
    <3> QED
      BY <3>4 DEF a, b
  <2> HIDE DEF first, r, x
  <2>6. ss \o Append(r, x) = Append(ss \o r, x)
    BY <1>1, <2>2, AppendList, ConcatAssoc, SingleList, ConcatList
  <2>7. FlattenSeq(Append(ss \o r, x)) = FlattenSeq(ss \o r) \o x
    BY <1>1, <2>2, <2>3, ConcatList, FlattenAppend
  <2>8. FlattenSeq(Append(r, x)) = FlattenSeq(r) \o x
    BY <2>2, <2>3, FlattenAppend
  <2>9. FlattenSeq(ss \o r) = FlattenSeq(ss) \o FlattenSeq(r)
    BY <1>1, <1>4, <2>1 DEF r
  <2>10. (FlattenSeq(ss) \o FlattenSeq(r)) \o x = FlattenSeq(ss) \o (FlattenSeq(r) \o x)
    BY <2>2, <2>3, FlattenIsList, ConcatAssoc
  <2> QED
    BY <2>5, <2>6, <2>7, <2>8, <2>9, <2>10
<1>5. Nat \subseteq S
  <2> HIDE DEF S
  <2> QED
    BY <1>3, <1>4, Induct
<1>6. first(Len(tt)) = tt
  <2>1. IsList(first(Len(tt))) /\ Len(first(Len(tt))) = Len(tt)
        /\ \A i \in 1 .. Len(tt) : first(Len(tt))[i] = tt[i]
    BY <1>1, <1>2 DEF IsListOfLists
  <2> HIDE DEF first
  <2> QED
    BY <1>1, <2>1, ListEqual
<1>7. Len(tt) \in S
  <2> HIDE DEF S
  <2> QED
    BY <1>1, <1>5
<1>8. Len(tt) <= Len(tt)
  BY <1>1
<1>9. FlattenSeq(ss \o first(Len(tt))) = FlattenSeq(ss) \o FlattenSeq(first(Len(tt)))
  <2> HIDE DEF first
  <2> QED
    BY <1>7, <1>8
<1> QED
  BY <1>6, <1>9

\* The lists of one taken from a list make it up again.
LEMMA FlattenSingles ==
  ASSUME NEW s, IsList(s)
  PROVE  FlattenSeq([i \in DOMAIN s |-> <<s[i]>>]) = s
<1> DEFINE n == Len(s)
           ss == [i \in 1 .. n |-> <<s[i]>>]
           S == {i \in Nat : i \in 1 .. n => \A f : Flattens(f, ss, n) =>
                   /\ IsList(f[i]) /\ Len(f[i]) = i
                   /\ \A j \in 1 .. i : f[i][j] = s[j]}
<1>1. n \in Nat /\ DOMAIN s = 1 .. n
  BY ListFacts
<1>2. IsList(ss) /\ Len(ss) = n
  <2>1. ss = [i \in 1 .. n |-> ss[i]]
    OBVIOUS
  <2> HIDE DEF ss, n
  <2> QED
    BY <1>1, <2>1, FunctionIsList
<1>3. 0 \in S
  OBVIOUS
<1>4. ASSUME NEW i \in Nat, i \in S PROVE i + 1 \in S
  <2>1. SUFFICES ASSUME i + 1 \in 1 .. n, NEW f, Flattens(f, ss, n)
                 PROVE  /\ IsList(f[i + 1]) /\ Len(f[i + 1]) = i + 1
                        /\ \A j \in 1 .. i + 1 : f[i + 1][j] = s[j]
    OBVIOUS
  <2>2. f[i + 1] = IF i + 1 = 1 THEN ss[i + 1] ELSE f[(i + 1) - 1] \o ss[i + 1]
    <3> HIDE DEF ss, n
    <3> QED
      BY <2>1 DEF Flattens
  <2>3. IsList(ss[i + 1]) /\ Len(ss[i + 1]) = 1 /\ ss[i + 1][1] = s[i + 1]
    BY <2>1, SingleList
  <2>4. CASE i = 0
    BY <2>2, <2>3, <2>4
  <2>5. CASE i # 0
    <3>1. i \in 1 .. n /\ (i + 1) - 1 = i /\ i + 1 # 1
      BY <2>1, <2>5, <1>1
    <3>2. IsList(f[i]) /\ Len(f[i]) = i /\ \A j \in 1 .. i : f[i][j] = s[j]
      <4> HIDE DEF ss, n
      <4> QED
        BY <1>4, <2>1, <3>1
    <3>3. f[i + 1] = f[i] \o ss[i + 1]
      <4> HIDE DEF ss, n
      <4> QED
        BY <2>2, <3>1
    <3>4. /\ IsList(f[i + 1]) /\ Len(f[i + 1]) = i + 1
          /\ \A j \in 1 .. i + 1 : f[i + 1][j] = IF j <= i THEN f[i][j] ELSE ss[i + 1][j - i]
      <4> DEFINE u == f[i]
                 w == ss[i + 1]
      <4>1. IsList(u) /\ Len(u) = i /\ IsList(w) /\ Len(w) = 1 /\ f[i + 1] = u \o w
        BY <2>3, <3>2, <3>3
      <4> HIDE DEF u, w
      <4>2. /\ IsList(u \o w) /\ Len(u \o w) = i + 1
            /\ \A j \in 1 .. i + 1 : (u \o w)[j] = IF j <= i THEN u[j] ELSE w[j - i]
        <5>1. /\ IsList(u \o w) /\ Len(u \o w) = Len(u) + Len(w)
              /\ \A j \in 1 .. Len(u) + Len(w) :
                   (u \o w)[j] = IF j <= Len(u) THEN u[j] ELSE w[j - Len(u)]
          BY <4>1, ConcatList
        <5> QED
          BY <4>1, <5>1
      <4> QED
        BY <4>1, <4>2 DEF u, w
    <3>5. \A j \in 1 .. i : j <= i
      OBVIOUS
    <3> HIDE DEF ss, n
    <3> QED
      BY <2>3, <3>2, <3>4, <3>5
  <2> QED
    BY <2>4, <2>5
<1>5. Nat \subseteq S
  <2> HIDE DEF S
  <2> QED
    BY <1>3, <1>4, Induct
<1> HIDE DEF ss
<1>6. CASE n = 0
  BY <1>1, <1>2, <1>6, ListFacts, FlattenEmpty DEF ss
<1>7. CASE n # 0
  <2>1. PICK f : Flattens(f, ss, n) /\ FlattenSeq(ss) = f[n]
    BY <1>2, <1>7, FlattenIs, ListFacts
  <2>2. /\ IsList(f[n]) /\ Len(f[n]) = n
        /\ \A j \in 1 .. n : f[n][j] = s[j]
    BY <1>1, <1>5, <1>7, <2>1
  <2> QED
    BY <1>1, <2>1, <2>2, ListEqual DEF ss
<1> QED
  BY <1>6, <1>7

\* A list of empty lists.
LEMMA FlattenEmpties ==
  ASSUME NEW ss, IsList(ss), \A i \in 1 .. Len(ss) : ss[i] = << >>
  PROVE  FlattenSeq(ss) = << >>
<1>1. CASE ss = << >>
  BY <1>1, FlattenEmpty
<1>2. CASE ss # << >>
  <2>1. PICK f : Flattens(f, ss, Len(ss)) /\ FlattenSeq(ss) = f[Len(ss)]
    BY <1>2, FlattenIs
  <2> DEFINE S == {i \in Nat : i \in 1 .. Len(ss) => f[i] = << >>}
  <2>2. 0 \in S
    OBVIOUS
  <2>3. ASSUME NEW i \in Nat, i \in S PROVE i + 1 \in S
    <3>1. SUFFICES ASSUME i + 1 \in 1 .. Len(ss) PROVE f[i + 1] = << >>
      OBVIOUS
    <3>2. f[i + 1] = IF i + 1 = 1 THEN ss[i + 1] ELSE f[(i + 1) - 1] \o ss[i + 1]
      BY <2>1, <3>1 DEF Flattens
    <3>3. (i + 1) - 1 = i /\ (i + 1 # 1 => i \in 1 .. Len(ss))
      BY <3>1, ListFacts
    <3> QED
      BY <3>1, <3>2, <3>3, <2>3, EmptyIsList, ConcatEmpty
  <2>4. Nat \subseteq S
    <3> HIDE DEF S
    <3> QED
      BY <2>2, <2>3, Induct
  <2> QED
    BY <1>2, <2>1, <2>4, ListFacts
<1> QED
  BY <1>1, <1>2

-----------------------------------------------------------------------------
(* The stack                                                               *)

AreFrames(frames, n) == IsList(frames) /\ \A i \in 1 .. Len(frames) : IsFrame(frames[i], n)

ArePartsOf(parts) ==
  IsList(parts) /\ \A i \in 1 .. Len(parts) : IsObject(parts[i].class, parts[i].node)

Typed ==
  /\ message \in Messages
  /\ program \in Programs
  /\ IsList(infos)
  /\ AreFrames(stack, Len(infos))
  /\ crashed \in BOOLEAN

-----------------------------------------------------------------------------

\* The elements of a list are those of its set.
LEMMA ElementOfList ==
  ASSUME NEW s, IsList(s), NEW i \in 1 .. Len(s)
  PROVE  s[i] \in ToSet(s)
BY ListFacts DEF ToSet

\* The parts made of a list of nodes, one by one.
LEMMA EachIs ==
  ASSUME NEW nodes, IsList(nodes)
  PROVE  /\ IsList(Each(nodes))
         /\ Len(Each(nodes)) = Len(nodes)
         /\ \A i \in 1 .. Len(nodes) : /\ Each(nodes)[i].class = nodes[i].class
                                       /\ Each(nodes)[i].node = nodes[i]
  BY ListFacts, FunctionIsList DEF Each, As

\* The parts made of a list of attributes.
LEMMA AttributesAre ==
  ASSUME NEW values, IsList(values)
  PROVE  /\ IsList(Attributes(values))
         /\ Len(Attributes(values)) = Len(values)
         /\ \A i \in 1 .. Len(values) : Attributes(values)[i] = As("BGPAttribute", values[i])
  BY ListFacts, FunctionIsList DEF Attributes

\* The frames made of a list of parts.
LEMMA AcceptsAre ==
  ASSUME NEW visitor, NEW parts, NEW param, IsList(parts)
  PROVE  /\ IsList(Accepts(visitor, parts, param))
         /\ Len(Accepts(visitor, parts, param)) = Len(parts)
         /\ \A i \in 1 .. Len(parts) :
              Accepts(visitor, parts, param)[i] =
                [visitor |-> visitor, class |-> parts[i].class, node |-> parts[i].node,
                 param |-> param]
<1> DEFINE s == Accepts(visitor, parts, param)
<1>1. Len(parts) \in Nat /\ DOMAIN parts = 1 .. Len(parts)
  BY ListFacts
<1>2. s = [i \in 1 .. Len(parts) |-> s[i]]
  BY <1>1 DEF Accepts
<1>3. IsList(s) /\ Len(s) = Len(parts)
  <2> HIDE DEF s
  <2> QED
    BY <1>1, <1>2, FunctionIsList
<1> QED
  BY <1>1, <1>3 DEF Accepts

\* Two lists of parts make one.
LEMMA PartsConcat ==
  ASSUME NEW s, NEW t, ArePartsOf(s), ArePartsOf(t)
  PROVE  ArePartsOf(s \o t)
  BY ConcatList, ListFacts DEF ArePartsOf

\* None is a list of parts.
LEMMA NoParts == ArePartsOf(<< >>)
  BY EmptyIsList DEF ArePartsOf

\* A list of routes gives parts of their class.
LEMMA RoutesAreParts ==
  ASSUME NEW class \in RouteClasses, NEW nodes, AreRoutes(class, nodes)
  PROVE  ArePartsOf(Each(nodes))
  BY ElementOfList, EachIs DEF AreRoutes, ArePartsOf, IsObject, Leaves

\* A list of attributes gives parts.
LEMMA ValuesAreParts ==
  ASSUME NEW values, AreValues(values)
  PROVE  ArePartsOf(Attributes(values))
<1>1. IsList(values) /\ \A i \in 1 .. Len(values) :
        IsValue(values[i].class, values[i]) /\ values[i].class \notin SegmentClasses
  BY ElementOfList DEF AreValues
<1>2. \A i \in 1 .. Len(values) : /\ Attributes(values)[i].class = "BGPAttribute"
                                   /\ Attributes(values)[i].node = values[i]
  <2>1. \A v : As("BGPAttribute", v).class = "BGPAttribute" /\ As("BGPAttribute", v).node = v
    BY DEF As
  <2> QED
    BY <1>1, <2>1, AttributesAre
<1> QED
  BY <1>1, <1>2, AttributesAre DEF ArePartsOf, IsObject

\* An object is a list of one part.
LEMMA OneIsParts ==
  ASSUME NEW class, NEW n, IsObject(class, n)
  PROVE  ArePartsOf(<<As(class, n)>>)
  BY SingleList DEF As, ArePartsOf

\* Each() of one node.
LEMMA EachOne ==
  ASSUME NEW n
  PROVE  Each(<<n>>) = <<As(n.class, n)>>
  BY SingleList, ListFacts, EachIs, ListEqual DEF Each

\* The classes a record is copied into.
LEMMA BaseClasses ==
  /\ DOMAIN Base = {"MRTBgp4MPMessageAS4", "MRTBgp4MPStateChangeAS4"} \cup RibRecords
  /\ Base["MRTBgp4MPMessageAS4"] = "MRTBgp4MPMessage"
  /\ Base["MRTBgp4MPStateChangeAS4"] = "MRTBgp4MPStateChange"
  /\ \A c \in RibRecords : Base[c] = "MRTTblDumpV2RibHeader"
BY DEF Base, RibRecords

\* The guards of Parts exclude each other.
LEMMA ClassesDisjoint ==
  /\ \A c \in Records : c \notin BGPMessages /\ c \notin AttributeValues /\ c \notin Leaves
  /\ \A c \in BGPMessages : c \notin AttributeValues /\ c \notin Leaves
  /\ \A c \in AttributeValues : c \notin Leaves
  /\ \A c \in DOMAIN Base : c \notin {"MRTBgp4MPMessage", "MRTTblDump", "TblDumpV2RibEntry",
                                      "MRTTblDumpV2RibHeader"}
  BY BaseClasses DEF Records, RibRecords, BGPMessages, AttributeValues, SimpleValues,
    SegmentClasses, Leaves, RouteClasses, ParameterClasses

\* The parts of an object are objects.
LEMMA PartsAreObjects ==
  ASSUME NEW generic, NEW class, NEW n, IsObject(class, n)
  PROVE  ArePartsOf(Parts(generic, class, n))
<1>1. CASE class \in Records /\ IsRecord(class, n)
  <2>1. Parts(generic, class, n) = RecordParts(class, n)
    BY <1>1, ClassesDisjoint DEF Parts
  <2>2. CASE class \in DOMAIN Base
    BY <1>1, <2>1, <2>2, ClassesDisjoint, BaseClasses, OneIsParts DEF RecordParts, IsRecord,
      MessageClasses, Records, RibRecords, IsObject
  <2>3. CASE class = "MRTBgp4MPMessage"
    BY <1>1, <2>1, <2>3, BaseClasses, EachOne, OneIsParts DEF RecordParts, RibRecords, IsRecord,
      MessageClasses, IsMessage, IsObject
  <2>4. CASE class \in {"MRTTblDump", "TblDumpV2RibEntry"}
    BY <1>1, <2>1, <2>4, BaseClasses, ValuesAreParts DEF RecordParts, RibRecords, IsRecord
  <2>5. CASE class = "MRTTblDumpV2RibHeader"
    BY <1>1, <2>1, <2>5, BaseClasses, ElementOfList, EachIs DEF RecordParts, RibRecords, IsRecord,
      IsObject, Records, MessageClasses, ArePartsOf
  <2>6. CASE class \notin DOMAIN Base
               \cup {"MRTBgp4MPMessage", "MRTTblDump", "TblDumpV2RibEntry", "MRTTblDumpV2RibHeader"}
    BY <2>1, <2>6, NoParts DEF RecordParts
  <2> QED
    BY <2>2, <2>3, <2>4, <2>5, <2>6
<1>2. CASE class \in BGPMessages /\ IsMessage(class, n)
  <2>1. Parts(generic, class, n) = MessageParts(class, n)
    BY <1>2, ClassesDisjoint DEF Parts
  <2>2. CASE class = "BGPOpen"
    BY <1>2, <2>1, <2>2, ElementOfList, EachIs DEF IsMessage, IsObject, Leaves, ArePartsOf,
      MessageParts
  <2>3. CASE class = "BGPUpdate"
    BY <1>2, <2>1, <2>3, ValuesAreParts, RoutesAreParts, PartsConcat DEF IsMessage, RouteClasses,
      MessageParts
  <2>4. CASE class \notin {"BGPOpen", "BGPUpdate"}
    BY <1>2, <2>1, <2>4, NoParts DEF IsMessage, MessageParts
  <2> QED
    BY <2>2, <2>3, <2>4
<1>3. CASE class = "BGPAttribute" /\ IsValue(n.class, n)
  BY <1>3, ClassesDisjoint, EachOne, OneIsParts DEF BGPMessages, Parts, MessageParts, IsValue,
    IsObject
<1>4. CASE class \in AttributeValues /\ IsValue(class, n)
  <2>1. Parts(generic, class, n) = ValueParts(generic, class, n)
    BY <1>4, ClassesDisjoint DEF Parts
  <2>2. CASE class \in {"AttributeTypeASPath", "AttributeTypeAS4Path"}
    <3>1. IsList(n.segments) /\ \A s \in ToSet(n.segments) : s.class \in SegmentClasses
      BY <1>4, <2>2 DEF IsValue, AreSegments, PathClasses
    <3>2. \A i \in 1 .. Len(n.segments) : IsObject(n.segments[i].class, n.segments[i])
      BY <3>1, ElementOfList
      DEF IsObject, IsValue, AttributeValues, SegmentClasses, MPClasses, PathClasses
    <3>3. ArePartsOf(Each(n.segments))
      BY <3>1, <3>2, EachIs DEF ArePartsOf
    <3> QED
      BY <2>1, <2>2, <3>3 DEF ValueParts
  <2>3. CASE class = "AttributeTypeAS4PathSegment"
    BY <2>1, <2>3, OneIsParts, NoParts DEF IsObject, IsValue, AttributeValues, SegmentClasses,
      MPClasses, PathClasses, ValueParts, AS4SegmentParts
  <2>4. CASE class = "AttributeTypeMPReachNLRI"
    BY <1>4, <2>1, <2>4, RoutesAreParts DEF IsValue, ValueParts, RouteClasses
  <2>5. CASE class = "AttributeTypeMPUnreachNLRI"
    BY <1>4, <2>1, <2>5, RoutesAreParts DEF IsValue, ValueParts, RouteClasses
  <2>6. CASE class \notin {"AttributeTypeASPath", "AttributeTypeAS4Path",
               "AttributeTypeAS4PathSegment", "AttributeTypeMPReachNLRI",
               "AttributeTypeMPUnreachNLRI"}
    BY <2>1, <2>6, NoParts DEF ValueParts
  <2> QED
    BY <2>2, <2>3, <2>4, <2>5, <2>6
<1>5. CASE class \in Leaves
  BY <1>5, ClassesDisjoint, NoParts DEF Parts
<1> QED
  BY <1>1, <1>2, <1>3, <1>4, <1>5 DEF IsObject

\* The parts AsciiBGPVisitor goes on to may be a rest of its visit.
AreMyParts(parts) ==
  /\ IsList(parts)
  /\ \A i \in 1 .. Len(parts) :
       \/ IsObject(parts[i].class, parts[i].node)
       \/ IsRest(parts[i].class, parts[i].node)

ParamOf(visitor, n) ==
  CASE visitor = Me -> 1 .. n
    [] HandsDown(visitor) -> {1}
    [] OTHER -> {NoParam}

\* Two lists of AsciiBGPVisitor's parts make one.
LEMMA MyPartsConcat ==
  ASSUME NEW s, NEW t, AreMyParts(s), AreMyParts(t)
  PROVE  AreMyParts(s \o t)
  BY ConcatList, ListFacts DEF AreMyParts

\* And so do a list and one more.
LEMMA MyPartsAppend ==
  ASSUME NEW s, NEW x, AreMyParts(s), AreMyParts(<<x>>)
  PROVE  AreMyParts(Append(s, x))
  BY AppendList, MyPartsConcat DEF AreMyParts

\* An object, or a rest of its visit, is a list of one.
LEMMA OneIsMyPart ==
  ASSUME NEW class, NEW n, IsObject(class, n) \/ IsRest(class, n)
  PROVE  AreMyParts(<<As(class, n)>>)
  BY SingleList DEF As, AreMyParts

\* Accepting parts with a parameter the visitor may have gives frames.
LEMMA AcceptsFrames ==
  ASSUME NEW visitor \in Programs \cup {Me}, NEW n \in Nat, NEW param \in ParamOf(visitor, n),
         NEW parts, ArePartsOf(parts) \/ (visitor = Me /\ AreMyParts(parts))
  PROVE  AreFrames(Accepts(visitor, parts, param), n)
<1> DEFINE s == Accepts(visitor, parts, param)
<1>1. /\ IsList(s) /\ Len(s) = Len(parts)
      /\ \A i \in 1 .. Len(parts) :
           s[i] = [visitor |-> visitor, class |-> parts[i].class, node |-> parts[i].node,
                   param |-> param]
  BY AcceptsAre DEF ArePartsOf, AreMyParts
<1> HIDE DEF s
<1>2. ASSUME NEW i \in 1 .. Len(parts)
      PROVE  IsFrame(s[i], n)
  <2>1. /\ s[i].visitor = visitor /\ s[i].param = param
        /\ s[i].class = parts[i].class /\ s[i].node = parts[i].node
    <3>1. s[i] = [visitor |-> visitor, class |-> parts[i].class, node |-> parts[i].node,
                  param |-> param]
      BY <1>1
    <3> QED
      BY <3>1
  <2> QED
    BY <2>1 DEF IsFrame, ParamOf, ArePartsOf, AreMyParts
<1> QED
  BY <1>1, <1>2 DEF AreFrames, s

\* More Infos leave a frame what it is.
LEMMA FrameStays ==
  ASSUME NEW m \in Nat, NEW n \in Nat, m <= n, NEW f, IsFrame(f, m)
  PROVE  IsFrame(f, n)
  BY DEF IsFrame

\* Two lists of frames make one.
LEMMA FramesConcat ==
  ASSUME NEW n, NEW s, NEW t, AreFrames(s, n), AreFrames(t, n)
  PROVE  AreFrames(s \o t, n)
  BY ConcatList, ListFacts DEF AreFrames

\* None is a list of frames.
LEMMA NoFrames ==
  ASSUME NEW n
  PROVE  AreFrames(<< >>, n)
  BY EmptyIsList DEF AreFrames

\* What the stack says of its top, and of what is below it.
LEMMA TopFrame ==
  ASSUME Typed, stack # << >>
  PROVE  /\ IsList(stack) /\ IsList(Tail(stack))
         /\ stack = <<Top>> \o Tail(stack)
         /\ IsFrame(Top, Len(infos))
         /\ AreFrames(Tail(stack), Len(infos))
         /\ Len(infos) \in Nat
<1>1. IsList(stack) /\ \A i \in 1 .. Len(stack) : IsFrame(stack[i], Len(infos))
  BY DEF Typed, AreFrames
<1>2. /\ stack = <<Top>> \o Tail(stack)
      /\ IsList(Tail(stack))
      /\ Len(Tail(stack)) = Len(stack) - 1
      /\ Top = stack[1]
      /\ \A i \in 1 .. Len(stack) - 1 : Tail(stack)[i] = stack[i + 1]
  BY <1>1, TailList DEF Top
<1>3. 1 \in 1 .. Len(stack) /\ \A i \in 1 .. Len(stack) - 1 : i + 1 \in 1 .. Len(stack)
  BY <1>1, ListFacts
<1>4. Len(infos) \in Nat
  BY ListFacts DEF Typed
<1> QED
  BY <1>1, <1>2, <1>3, <1>4 DEF AreFrames

\* A step that replaces the top by frames and never takes an Info away keeps the types.
LEMMA PushKeepsTyped ==
  ASSUME Typed, stack # << >>, NEW frames, Push(frames),
         message' = message, program' = program, crashed' \in BOOLEAN,
         IsList(infos'), Len(infos) <= Len(infos'), AreFrames(frames, Len(infos'))
  PROVE  Typed'
  BY TopFrame, ListFacts, FrameStays, FramesConcat DEF AreFrames, Push, Typed

\* A list of which some elements were replaced.
LEMMA ExceptList ==
  ASSUME NEW s, IsList(s), NEW t, t = [i \in DOMAIN s |-> t[i]]
  PROVE  IsList(t) /\ Len(t) = Len(s)
  BY ListFacts, FunctionIsList

-----------------------------------------------------------------------------

\* A generic visit goes on to parts of what it visited.
LEMMA VisitKeepsTyped ==
  ASSUME Typed, NEW generic \in Generic,
         NEW classes \in {Records, BGPMessages, AttributeValues, Leaves},
         Visit(generic, classes), UNCHANGED <<ascii, program, elements, crashed>>
  PROVE  Typed'
<1>1. /\ stack # << >>
      /\ DerivedFrom(Top.visitor) = generic
      /\ Top.class \in classes
      /\ Push(Accepts(Top.visitor, Parts(generic, Top.class, Top.node),
                      IF HandsDown(generic) THEN Top.param ELSE NoParam))
      /\ message' = message /\ infos' = infos /\ program' = program /\ crashed' = crashed
  BY DEF Visit, ascii
<1>2. IsFrame(Top, Len(infos)) /\ Len(infos) \in Nat
  BY <1>1, TopFrame
<1>3. IsObject(Top.class, Top.node)
  BY <1>1, <1>2, BaseClasses DEF Records, RibRecords, BGPMessages, AttributeValues, SimpleValues,
    SegmentClasses, Leaves, RouteClasses, ParameterClasses, IsRest, IsFrame
<1>4. ArePartsOf(Parts(generic, Top.class, Top.node))
  BY <1>3, PartsAreObjects
<1>5. Top.visitor \in Programs \cup {Me}
  BY <1>2 DEF IsFrame
<1>6. (IF HandsDown(generic) THEN Top.param ELSE NoParam) \in ParamOf(Top.visitor, Len(infos))
  BY <1>1, <1>2, <1>5
  DEF IsFrame, ParamOf, HandsDown, DerivedFrom, Generic, Programs, Me, NoParam
<1>7. AreFrames(Accepts(Top.visitor, Parts(generic, Top.class, Top.node),
                        IF HandsDown(generic) THEN Top.param ELSE NoParam), Len(infos'))
  BY <1>1, <1>2, <1>4, <1>5, <1>6, AcceptsFrames
<1> QED
  BY <1>1, <1>2, <1>7, PushKeepsTyped DEF Typed

\* So do all of them.
LEMMA GenericKeepsTyped ==
  ASSUME Typed, NextGeneric, UNCHANGED <<ascii, program, elements, crashed>>
  PROVE  Typed'
BY VisitKeepsTyped DEF NextGeneric, Generic,
  DepthFirstVisitorRecord, DepthFirstVisitorMessage, DepthFirstVisitorValue, DepthFirstVisitorLeaf,
  GJVoidDepthFirstRecord, GJVoidDepthFirstMessage, GJVoidDepthFirstValue, GJVoidDepthFirstLeaf,
  GJNoArguDepthFirstRecord, GJNoArguDepthFirstMessage, GJNoArguDepthFirstValue,
  GJNoArguDepthFirstLeaf,
  GJDepthFirstRecord, GJDepthFirstMessage, GJDepthFirstValue, GJDepthFirstLeaf

\* The top is of a class, and has the members of it.
LEMMA TopIs ==
  ASSUME Typed, stack # << >>
  PROVE  /\ Top.class \in Records => IsRecord(Top.class, Top.node)
         /\ Top.class \in BGPMessages \ {"BGPAttribute"} => IsMessage(Top.class, Top.node)
         /\ Top.class \in AttributeValues => IsValue(Top.class, Top.node)
         /\ Top.class \in {"UpdateRoutes", "OwnPrefix", "RibEntry"} => IsRest(Top.class, Top.node)
         /\ Top.visitor = Me => Top.param \in 1 .. Len(infos)
<1>1. IsFrame(Top, Len(infos))
  BY TopFrame
<1>2. \A c \in {"UpdateRoutes", "OwnPrefix", "RibEntry"} :
        c \notin Records \cup BGPMessages \cup AttributeValues \cup Leaves
  BY BaseClasses DEF Records, RibRecords, BGPMessages, AttributeValues, SimpleValues,
    SegmentClasses, Leaves, RouteClasses, ParameterClasses
<1>3. "BGPAttribute" \in BGPMessages
  BY DEF BGPMessages
<1> HIDE DEF Top
<1>4. IsObject(Top.class, Top.node) \/ IsRest(Top.class, Top.node)
  BY <1>1 DEF IsFrame
<1>5. IsRest(Top.class, Top.node) => Top.class \in {"UpdateRoutes", "OwnPrefix", "RibEntry"}
  BY DEF IsRest
<1>6. IsObject(Top.class, Top.node) =>
        \/ Top.class \in Records /\ IsRecord(Top.class, Top.node)
        \/ Top.class \in BGPMessages \ {"BGPAttribute"} /\ IsMessage(Top.class, Top.node)
        \/ Top.class = "BGPAttribute"
        \/ Top.class \in AttributeValues /\ IsValue(Top.class, Top.node)
        \/ Top.class \in Leaves
  BY DEF IsObject
<1>7. Top.visitor = Me => Top.param \in 1 .. Len(infos)
  BY <1>1 DEF IsFrame, HandsDown, Me
<1> QED
  BY <1>2, <1>3, <1>4, <1>5, <1>6, <1>7, ClassesDisjoint

-----------------------------------------------------------------------------

\* The Info that is handed on is there.
LEMMA HandOnKeepsTyped ==
  ASSUME Typed, stack # << >>, NEW class, NEW n, IsObject(class, n),
         NEW type, NEW kind, NEW ip, NEW afi, NEW as,
         HandOn(As(class, n), type, kind, ip, afi, as), program' = program, crashed' = crashed
  PROVE  Typed'
<1>1. PICK garbage : infos' = Append(infos, NewInfo(type, kind, ip, afi, as, garbage))
  BY DEF HandOn
<1>2. IsList(infos') /\ Len(infos') = Len(infos) + 1 /\ Len(infos) \in Nat
  BY <1>1, AppendList, ListFacts DEF Typed
<1>3. Len(infos) + 1 \in ParamOf(Me, Len(infos'))
  BY <1>2 DEF ParamOf, Me, HandsDown
<1>4. AreFrames(Accepts(Me, <<As(class, n)>>, Len(infos) + 1), Len(infos'))
  BY <1>2, <1>3, OneIsParts, AcceptsFrames
<1> QED
  BY <1>2, <1>4, PushKeepsTyped DEF HandOn, Typed

\* A step of AsciiBGPVisitor that goes on with the Info it has.
LEMMA MineKeepsTyped ==
  ASSUME Typed, stack # << >>, Top.visitor = Me, NEW parts, AreMyParts(parts),
         Push(Accepts(Me, parts, Top.param)), IsList(infos'), Len(infos') = Len(infos),
         message' = message, program' = program, crashed' = crashed
  PROVE  Typed'
<1>1. Top.param \in 1 .. Len(infos) /\ Len(infos) \in Nat
  BY TopIs, TopFrame
<1>2. AreFrames(Accepts(Me, parts, Top.param), Len(infos'))
  BY <1>1, AcceptsFrames DEF ParamOf, Me, HandsDown
<1> QED
  BY <1>1, <1>2, PushKeepsTyped DEF Typed

\* A step that goes on to nothing.
LEMMA EndKeepsTyped ==
  ASSUME Typed, stack # << >>, Push(<< >>), IsList(infos'), Len(infos') = Len(infos),
         message' = message, program' = program, crashed' \in BOOLEAN
  PROVE  Typed'
  BY TopFrame, NoFrames, PushKeepsTyped

\* Parts are parts for AsciiBGPVisitor too.
LEMMA PartsAreMine ==
  ASSUME NEW parts, ArePartsOf(parts)
  PROVE  AreMyParts(parts)
BY DEF ArePartsOf, AreMyParts

\* Each visit() of bgpparser2's visitors goes on to parts with an Info that is there.
LEMMA AsciiKeepsTyped ==
  ASSUME Typed, NextAscii, UNCHANGED <<program, elements, crashed>>
  PROVE  Typed'
<1> IsList(infos) /\ crashed \in BOOLEAN
  BY DEF Typed
<1>1. CASE VisitMessage
  BY <1>1, TopIs, HandOnKeepsTyped DEF VisitMessage, Visiting, Records, IsRecord, MessageClasses,
    IsObject, IsMessage
<1>2. CASE VisitStateChange
  BY <1>2, EndKeepsTyped DEF VisitStateChange, Visiting
<1>3. CASE VisitTblDump
  BY <1>3, TopIs, HandOnKeepsTyped DEF VisitTblDump, Visiting, Records, IsObject
<1>4. CASE VisitRibHeader
  BY <1>4, TopIs, HandOnKeepsTyped DEF VisitRibHeader, Visiting, Records, IsObject
<1>5. CASE BGPTblDump
  <2>1. stack # << >> /\ Top.visitor = Me /\ Top.class = "MRTTblDump"
    BY <1>5 DEF BGPTblDump, Visiting
  <2>2. AreValues(Top.node.attributes)
    BY <2>1, TopIs DEF Records, IsRecord
  <2>3. ArePartsOf(Attributes(Top.node.attributes)) /\ IsList(Attributes(Top.node.attributes))
    BY <2>2, ValuesAreParts DEF ArePartsOf
  <2>4. AreMyParts(<<OwnPrefix(Top.node.prefix)>>)
    BY OneIsMyPart DEF OwnPrefix, IsRest
  <2>5. AreMyParts(Append(Attributes(Top.node.attributes), OwnPrefix(Top.node.prefix)))
    BY <2>3, <2>4, PartsAreMine, MyPartsAppend
  <2>6. IsList(infos') /\ Len(infos') = Len(infos)
    <3>1. infos' = [i \in DOMAIN infos |-> infos'[i]]
      BY <1>5 DEF BGPTblDump
    <3> QED
      BY <3>1, ExceptList
  <2> QED
    BY <1>5, <2>1, <2>5, <2>6, MineKeepsTyped DEF BGPTblDump
<1>6. CASE BGPRibHeader
  <2> DEFINE entries == Top.node.ribEntries
             parts == [i \in DOMAIN entries |->
                         As("RibEntry", [entry |-> entries[i], prefix |-> Top.node.prefix])]
  <2>1. stack # << >> /\ Top.visitor = Me /\ Top.class = "MRTTblDumpV2RibHeader"
    BY <1>6 DEF BGPRibHeader, Visiting
  <2>2. IsList(entries) /\ \A e \in ToSet(entries) : AreValues(e.attributes)
    BY <2>1, TopIs DEF Records, IsRecord
  <2>3. Len(entries) \in Nat /\ DOMAIN entries = 1 .. Len(entries)
    BY <2>2, ListFacts
  <2>4. IsList(parts) /\ Len(parts) = Len(entries)
    <3>1. parts = [i \in 1 .. Len(entries) |-> parts[i]]
      BY SMTT(60), <2>3
    <3> HIDE DEF parts, entries
    <3> QED
      BY <2>3, <3>1, FunctionIsList
  <2>5. ASSUME NEW i \in 1 .. Len(parts)
        PROVE  IsRest(parts[i].class, parts[i].node)
    <3>1. AreValues(entries[i].attributes)
      <4> HIDE DEF entries
      <4> QED
        BY <2>2, <2>4, ElementOfList
    <3> QED
      BY <2>3, <2>4, <3>1 DEF IsRest, As
  <2>6. AreMyParts(parts)
    <3> HIDE DEF parts
    <3> QED
      BY <2>4, <2>5 DEF AreMyParts
  <2>7. IsList(infos') /\ Len(infos') = Len(infos)
    BY <1>6, ExceptList DEF BGPRibHeader
  <2>8. Push(Accepts(Me, parts, Top.param))
    BY <1>6 DEF BGPRibHeader
  <2> HIDE DEF parts
  <2> QED
    BY <1>6, <2>1, <2>6, <2>7, <2>8, MineKeepsTyped DEF BGPRibHeader
<1>7. CASE BGPRibEntry
  <2>1. stack # << >> /\ Top.visitor = Me /\ Top.class = "RibEntry"
    BY <1>7 DEF BGPRibEntry, Visiting
  <2>2. AreValues(Top.node.entry.attributes)
    BY <2>1, TopIs DEF IsRest
  <2>3. IsObject("TblDumpV2RibEntry", Top.node.entry)
    BY <2>2 DEF IsObject, IsRecord, Records, MessageClasses, RibRecords
  <2>4. /\ AreMyParts(<<As("TblDumpV2RibEntry", Top.node.entry)>>)
        /\ AreMyParts(<<OwnPrefix(Top.node.prefix)>>)
    BY <2>3, OneIsMyPart DEF OwnPrefix, IsRest
  <2>5. AreMyParts(EntryParts)
    <3>1. EntryParts = <<As("TblDumpV2RibEntry", Top.node.entry)>> \o <<OwnPrefix(Top.node.prefix)>>
      BY DEF EntryParts
    <3> QED
      BY <2>4, <3>1, MyPartsConcat
  <2>6. IsList(infos') /\ Len(infos') = Len(infos) + 1 /\ Len(infos) \in Nat
    <3> DEFINE peer == Top.node.entry.peer
    <3>1. infos' = Append(WithPeer(peer), WithPeer(peer)[Top.param])
      BY <1>7 DEF BGPRibEntry
    <3>2. IsList(WithPeer(peer)) /\ Len(WithPeer(peer)) = Len(infos)
      <4> DEFINE t == WithPeer(peer)
      <4>1. t = [i \in DOMAIN infos |-> t[i]]
        BY DEF WithPeer
      <4> HIDE DEF t
      <4>2. IsList(t) /\ Len(t) = Len(infos)
        BY <4>1, ExceptList
      <4> QED
        BY <4>2 DEF t
    <3> QED
      BY <3>1, <3>2, AppendList, TopFrame, <2>1
  <2>7. Len(infos) + 1 \in ParamOf(Me, Len(infos'))
    BY <2>6 DEF ParamOf, Me, HandsDown
  <2>8. AreFrames(Accepts(Me, EntryParts, Len(infos) + 1), Len(infos'))
    BY <2>5, <2>6, <2>7, AcceptsFrames
  <2> QED
    BY <1>7, <2>1, <2>6, <2>8, PushKeepsTyped DEF BGPRibEntry
<1>8. CASE BGPOwnPrefix
  BY <1>8, TopIs, OneIsMyPart, EndKeepsTyped, MineKeepsTyped DEF BGPOwnPrefix, Visiting, ascii,
    IsObject, IsRest, Leaves, RouteClasses
<1>9. CASE VisitOpen
  BY <1>9, EndKeepsTyped DEF VisitOpen, Visiting, ascii
<1>10. CASE VisitUpdate
  BY <1>10, TopIs, ValuesAreParts, OneIsMyPart, PartsAreMine, MyPartsAppend, MineKeepsTyped DEF
    VisitUpdate, Visiting, ascii, BGPMessages, IsMessage, ArePartsOf, IsRest
<1>11. CASE VisitUpdateRoutes
  BY <1>11, TopIs, RoutesAreParts, PartsAreMine, MyPartsConcat, ExceptList, MineKeepsTyped DEF
    VisitUpdateRoutes, Visiting, IsRest, RouteClasses
<1>12. CASE MPReach
  <2>1. stack # << >> /\ Top.visitor = Me /\ Top.class = "AttributeTypeMPReachNLRI"
    BY <1>12 DEF MPReach, Visiting
  <2>2. AreRoutes("NLRIReachable", Top.node.nlri)
    BY <2>1, TopIs DEF AttributeValues, IsValue
  <2>3. AreMyParts(Each(Top.node.nlri))
    BY <2>2, RoutesAreParts, PartsAreMine DEF RouteClasses
  <2>4. IsList(infos') /\ Len(infos') = Len(infos)
    <3>1. infos' = [i \in DOMAIN infos |-> infos'[i]]
      BY <1>12 DEF MPReach
    <3> QED
      BY <3>1, ExceptList
  <2>5. message' = message
    BY <1>12 DEF MPReach
  <2>6. CASE Push(<< >>)
    BY <2>1, <2>4, <2>5, <2>6, EndKeepsTyped
  <2>7. CASE Push(Accepts(Me, Each(Top.node.nlri), Top.param))
    BY <2>1, <2>3, <2>4, <2>5, <2>7, MineKeepsTyped
  <2> QED
    BY <1>12, <2>6, <2>7 DEF MPReach
<1>13. CASE MPUnreach
  <2>1. stack # << >> /\ Top.visitor = Me /\ Top.class = "AttributeTypeMPUnreachNLRI"
    BY <1>13 DEF MPUnreach, Visiting
  <2>2. AreRoutes("NLRIUnReachable", Top.node.nlri)
    BY <2>1, TopIs DEF AttributeValues, IsValue
  <2>3. AreMyParts(Each(Top.node.nlri))
    BY <2>2, RoutesAreParts, PartsAreMine DEF RouteClasses
  <2>4. IsList(infos') /\ Len(infos') = Len(infos)
    BY <1>13, ExceptList DEF MPUnreach
  <2>5. message' = message
    BY <1>13 DEF MPUnreach
  <2>6. CASE Push(<< >>)
    BY <2>1, <2>4, <2>5, <2>6, EndKeepsTyped
  <2>7. CASE Push(Accepts(Me, Each(Top.node.nlri), Top.param))
    BY <2>1, <2>3, <2>4, <2>5, <2>7, MineKeepsTyped
  <2> QED
    BY <1>13, <2>6, <2>7 DEF MPUnreach
<1>14. CASE PlainAttribute
  BY <1>14, ExceptList, EndKeepsTyped DEF PlainAttribute, Visiting
<1>15. CASE Reachable
  BY <1>15, ExceptList, EndKeepsTyped DEF Reachable, Visiting
<1>16. CASE UnReachable
  BY <1>16, EndKeepsTyped DEF UnReachable, Visiting
<1> QED
  BY <1>1, <1>2, <1>3, <1>4, <1>5, <1>6, <1>7, <1>8, <1>9, <1>10, <1>11, <1>12, <1>13, <1>14,
     <1>15, <1>16 DEF NextAscii

\* The record is visited as its own class.
LEMMA InitiallyTyped ==
  ASSUME Init
  PROVE  Typed
  BY EmptyIsList, MessagesAssumption, OneIsParts, AcceptsFrames DEF Init, IsObject, IsRecord,
    FirstParam, ParamOf, HandsDown, Programs, Generic, Me, Typed

\* No step leaves anything else on the stack.
LEMMA StaysTyped ==
  ASSUME Typed, [Next]_vars
  PROVE  Typed'
  BY GenericKeepsTyped, AsciiKeepsTyped, EndKeepsTyped DEF DumpAscii, DumpXml, Dump, Visiting,
    Typed, Stop, vars, traversal, ascii, Next

\* Every accept() is of an object with the members that its visit() reads, and has the parameter
\* its visitor casts, whatever the record and the program.
THEOREM TypeCorrect == Spec => []TypeOK
<1>1. Typed => TypeOK
  BY DEF Typed, TypeOK, AreFrames
<1> QED
  BY <1>1, InitiallyTyped, StaysTyped, PTL DEF Spec

-----------------------------------------------------------------------------
(* The routes, segments and parameters still to be visited                 *)

\* Those of an object that is visited as a class, in order.
Below(class, n) ==
  CASE class \in Listed -> SeenAs(class, n)
    [] class \in MPClasses -> n.nlri
    [] class \in PathClasses -> n.segments
    [] class = "BGPAttribute" -> ListedInValue(n)
    [] class = "BGPUpdate" -> ListedIn(n.pathAttributes) \o n.withdrawnRoutes \o n.nlriRoutes
    [] class = "BGPOpen" -> n.optParams
    [] class \in MessageClasses -> ListedInMessage(n.payload)
    [] class \in {"MRTTblDump", "TblDumpV2RibEntry"} -> ListedIn(n.attributes)
    [] class \in RibRecords \cup {"MRTTblDumpV2RibHeader"} ->
         FlattenSeq([i \in DOMAIN n.ribEntries |-> ListedIn(n.ribEntries[i].attributes)])
    [] OTHER -> << >>

\* The classes that may have some.
WithListed ==
  Listed \cup MPClasses \cup PathClasses \cup {"BGPAttribute", "BGPUpdate", "BGPOpen"}
    \cup MessageClasses \cup {"MRTTblDump", "TblDumpV2RibEntry"}
    \cup RibRecords \cup {"MRTTblDumpV2RibHeader"}

\* Those of parts, or of frames.
BelowEach(parts) == [i \in DOMAIN parts |-> Below(parts[i].class, parts[i].node)]
ListedBelow(parts) == FlattenSeq(BelowEach(parts))

ListedLeft ==
  program \in Generic =>
    /\ IsList(visited)
    /\ \A i \in 1 .. Len(stack) : stack[i].visitor = program
    /\ visited \o ListedBelow(stack) = ListedInRecord

-----------------------------------------------------------------------------

\* What is seen at a visit is the object, or nothing.
LEMMA SeenAsIs ==
  ASSUME NEW class, NEW n
  PROVE  /\ IsList(SeenAs(class, n))
         /\ class \in Listed /\ n.class = class => SeenAs(class, n) = <<n>>
         /\ class \notin Listed \/ n.class # class => SeenAs(class, n) = << >>
BY SingleList, EmptyIsList DEF SeenAs

\* The guards of Below exclude each other, and Below of each of its classes.
LEMMA BelowIs ==
  ASSUME NEW class, NEW n
  PROVE  /\ class \in Listed => Below(class, n) = SeenAs(class, n)
         /\ class \in MPClasses => Below(class, n) = n.nlri
         /\ class \in PathClasses => Below(class, n) = n.segments
         /\ class = "BGPAttribute" => Below(class, n) = ListedInValue(n)
         /\ class = "BGPUpdate" =>
              Below(class, n) = ListedIn(n.pathAttributes) \o n.withdrawnRoutes \o n.nlriRoutes
         /\ class = "BGPOpen" => Below(class, n) = n.optParams
         /\ class \in MessageClasses => Below(class, n) = ListedInMessage(n.payload)
         /\ class \in {"MRTTblDump", "TblDumpV2RibEntry"} => Below(class, n) = ListedIn(n.attributes)
         /\ class \in RibRecords \cup {"MRTTblDumpV2RibHeader"} => Below(class, n) =
              FlattenSeq([i \in DOMAIN n.ribEntries |-> ListedIn(n.ribEntries[i].attributes)])
         /\ class \notin WithListed => Below(class, n) = << >>
BY DEF Below, WithListed, Listed, Leaves, RouteClasses, ParameterClasses, SegmentClasses, MPClasses,
  PathClasses, MessageClasses, RibRecords

\* What an attribute lists is a list.
LEMMA ListedInValueIsList ==
  ASSUME NEW v, IsValue(v.class, v)
  PROVE  IsList(ListedInValue(v))
BY EmptyIsList DEF ListedInValue, MPClasses, PathClasses, IsValue, AreRoutes, AreSegments

\* And so are those of a list of attributes.
LEMMA ListedInIsList ==
  ASSUME NEW values, AreValues(values)
  PROVE  IsList(ListedIn(values))
<1> DEFINE ss == [i \in DOMAIN values |-> ListedInValue(values[i])]
<1>1. IsList(values) /\ \A i \in 1 .. Len(values) : IsValue(values[i].class, values[i])
  BY ElementOfList DEF AreValues
<1>2. Len(values) \in Nat /\ DOMAIN values = 1 .. Len(values)
  BY <1>1, ListFacts
<1>3. ss = [i \in 1 .. Len(values) |-> ss[i]] /\ \A i \in 1 .. Len(values) : IsList(ss[i])
  BY <1>1, <1>2, ListedInValueIsList
<1> HIDE DEF ss
<1>4. IsListOfLists(ss)
  BY <1>2, <1>3, FunctionIsList DEF IsListOfLists
<1> QED
  BY <1>4, FlattenIsList DEF ListedIn, ss

\* What is below an object is a list.
LEMMA BelowIsList ==
  ASSUME NEW class, NEW n, IsObject(class, n)
  PROVE  IsList(Below(class, n))
<1>1. CASE class \in Listed
  BY <1>1, BelowIs, SeenAsIs
<1>2. CASE class \in MPClasses
  BY <1>2, ClassesDisjoint, BelowIs DEF IsObject, MPClasses, AttributeValues, IsValue, AreRoutes
<1>9. CASE class \in PathClasses
  BY <1>9, ClassesDisjoint, BelowIs DEF IsObject, PathClasses, AttributeValues, IsValue, AreSegments
<1>10. CASE class = "BGPOpen"
  BY <1>10, ClassesDisjoint, BelowIs DEF IsObject, BGPMessages, IsMessage
<1>3. CASE class = "BGPAttribute"
  BY <1>3, ClassesDisjoint, BelowIs, ListedInValueIsList DEF IsObject, BGPMessages, IsMessage
<1>4. CASE class = "BGPUpdate"
  <2>1. IsMessage(class, n)
    BY <1>4, ClassesDisjoint DEF IsObject, BGPMessages
  <2>2. /\ AreValues(n.pathAttributes)
        /\ IsList(n.withdrawnRoutes) /\ IsList(n.nlriRoutes)
    BY <1>4, <2>1 DEF IsMessage, AreRoutes
  <2>3. IsList((ListedIn(n.pathAttributes) \o n.withdrawnRoutes) \o n.nlriRoutes)
    BY <2>2, ConcatList, ListedInIsList
  <2> QED
    BY <1>4, <2>3, BelowIs
<1>5. CASE class \in MessageClasses
  <2>1. IsRecord(class, n)
    BY <1>5, ClassesDisjoint DEF IsObject, MessageClasses, Records, Base
  <2>2. IsMessage(n.payload.class, n.payload)
    BY <1>5, <2>1 DEF IsRecord
  <2>3. CASE n.payload.class = "BGPUpdate"
    <3> DEFINE m == n.payload
    <3>1. /\ AreValues(m.pathAttributes)
          /\ IsList(m.withdrawnRoutes) /\ IsList(m.nlriRoutes)
      BY <2>2, <2>3 DEF IsMessage, AreRoutes
    <3>2. Below(class, n) = ListedIn(m.pathAttributes) \o m.withdrawnRoutes \o m.nlriRoutes
      BY <1>5, <2>3, BelowIs DEF ListedInMessage
    <3> HIDE DEF m
    <3>3. IsList((ListedIn(m.pathAttributes) \o m.withdrawnRoutes) \o m.nlriRoutes)
      BY <3>1, ConcatList, ListedInIsList
    <3> QED
      BY <3>2, <3>3
  <2>4. CASE n.payload.class = "BGPOpen"
    BY <1>5, <2>2, <2>4, BelowIs DEF ListedInMessage, IsMessage
  <2>5. CASE n.payload.class \notin {"BGPUpdate", "BGPOpen"}
    BY <1>5, <2>5, BelowIs, EmptyIsList DEF ListedInMessage
  <2> QED
    BY <2>3, <2>4, <2>5
<1>6. CASE class \in {"MRTTblDump", "TblDumpV2RibEntry"}
  BY <1>6, ClassesDisjoint, BelowIs, ListedInIsList DEF IsObject, Records, IsRecord
<1>7. CASE class \in RibRecords \cup {"MRTTblDumpV2RibHeader"}
  <2> DEFINE es == n.ribEntries
             ss == [i \in DOMAIN es |-> ListedIn(es[i].attributes)]
  <2>1. IsRecord(class, n)
    BY <1>7, BaseClasses, ClassesDisjoint DEF Records, IsObject, BGPMessages
  <2>2. IsList(es) /\ \A e \in ToSet(es) : AreValues(e.attributes)
    BY <1>7, <2>1 DEF IsRecord
  <2>3. Len(es) \in Nat /\ DOMAIN es = 1 .. Len(es)
    BY <2>2, ListFacts
  <2>4. \A i \in 1 .. Len(es) : AreValues(es[i].attributes)
    <3> HIDE DEF es
    <3> QED
      BY <2>2, ElementOfList
  <2>5. ss = [i \in 1 .. Len(es) |-> ss[i]] /\ \A i \in 1 .. Len(es) : IsList(ss[i])
    <3> HIDE DEF es
    <3> QED
      BY <2>3, <2>4, ListedInIsList
  <2>6. Below(class, n) = FlattenSeq(ss)
    BY <1>7, BelowIs
  <2> HIDE DEF ss, es
  <2>7. IsListOfLists(ss)
    BY <2>3, <2>5, FunctionIsList DEF IsListOfLists
  <2> QED
    BY <2>6, <2>7, FlattenIsList
<1>8. CASE class \notin WithListed
  BY <1>8, BelowIs, EmptyIsList
<1> QED
  BY <1>1, <1>2, <1>3, <1>4, <1>5, <1>6, <1>7, <1>8, <1>9, <1>10 DEF WithListed

\* A list of lists, one for each part.
LEMMA BelowEachIs ==
  ASSUME NEW parts, ArePartsOf(parts)
  PROVE  /\ IsListOfLists(BelowEach(parts))
         /\ Len(BelowEach(parts)) = Len(parts)
         /\ \A i \in 1 .. Len(parts) : BelowEach(parts)[i] = Below(parts[i].class, parts[i].node)
  BY ListFacts, BelowIsList, FunctionIsList DEF ArePartsOf, BelowEach, IsListOfLists

\* What is below two lists of parts, one after the other.
LEMMA ListedBelowConcat ==
  ASSUME NEW s, NEW t, ArePartsOf(s), ArePartsOf(t)
  PROVE  /\ ListedBelow(s \o t) = ListedBelow(s) \o ListedBelow(t)
         /\ IsList(ListedBelow(s))
<1> DEFINE u == s \o t
           bs == BelowEach(s)
           bt == BelowEach(t)
           bu == BelowEach(u)
<1>1. /\ IsListOfLists(bs) /\ IsList(bs) /\ Len(bs) = Len(s)
      /\ \A i \in 1 .. Len(s) : bs[i] = Below(s[i].class, s[i].node)
  BY BelowEachIs DEF IsListOfLists
<1>2. /\ IsListOfLists(bt) /\ IsList(bt) /\ Len(bt) = Len(t)
      /\ \A i \in 1 .. Len(t) : bt[i] = Below(t[i].class, t[i].node)
  BY BelowEachIs DEF IsListOfLists
<1>3. /\ IsList(bu) /\ Len(bu) = Len(u)
      /\ \A i \in 1 .. Len(u) : bu[i] = Below(u[i].class, u[i].node)
  BY BelowEachIs, PartsConcat DEF IsListOfLists
<1>4. /\ Len(u) = Len(s) + Len(t) /\ Len(s) \in Nat /\ Len(t) \in Nat
      /\ \A i \in 1 .. Len(s) + Len(t) : u[i] = IF i <= Len(s) THEN s[i] ELSE t[i - Len(s)]
  BY ConcatList, ListFacts DEF ArePartsOf
<1> HIDE DEF u, bs, bt, bu
<1>5. /\ IsList(bs \o bt) /\ Len(bs \o bt) = Len(s) + Len(t)
      /\ \A i \in 1 .. Len(s) + Len(t) :
           (bs \o bt)[i] = IF i <= Len(s) THEN bs[i] ELSE bt[i - Len(s)]
  <2>1. /\ IsList(bs \o bt) /\ Len(bs \o bt) = Len(bs) + Len(bt)
        /\ \A i \in 1 .. Len(bs) + Len(bt) :
             (bs \o bt)[i] = IF i <= Len(bs) THEN bs[i] ELSE bt[i - Len(bs)]
    BY ZenonT(60), <1>1, <1>2, ConcatList
  <2> QED
    BY <1>1, <1>2, <2>1
<1>6. ASSUME NEW i \in 1 .. Len(u)
      PROVE  bu[i] = (bs \o bt)[i]
  <2>1. bu[i] = Below(u[i].class, u[i].node)
    BY <1>3
  <2>2. CASE i <= Len(s)
    BY <1>1, <1>4, <1>5, <2>1, <2>2
  <2>3. CASE ~(i <= Len(s))
    <3>1. i - Len(s) \in 1 .. Len(t) /\ u[i] = t[i - Len(s)] /\ (bs \o bt)[i] = bt[i - Len(s)]
      BY <1>4, <1>5, <2>3
    <3> QED
      BY <1>2, <2>1, <3>1
  <2> QED
    BY <2>2, <2>3
<1>7. bu = bs \o bt
  BY <1>3, <1>4, <1>5, <1>6, ListEqual
<1>8. FlattenSeq(bu) = FlattenSeq(bs) \o FlattenSeq(bt) /\ IsList(FlattenSeq(bs))
  BY <1>1, <1>2, <1>7, FlattenConcat, FlattenIsList
<1> QED
  BY <1>8 DEF ListedBelow, u, bs, bt, bu

\* There is nothing below no parts.
LEMMA ListedBelowNone == ListedBelow(<< >>) = << >>
  BY NoParts, BelowEachIs, EmptyIsList, ListFacts, FlattenEmpty DEF IsListOfLists, ListedBelow

\* Nor below parts of classes that list nothing.
LEMMA ListedBelowEmpties ==
  ASSUME NEW parts, ArePartsOf(parts), \A i \in 1 .. Len(parts) : parts[i].class \notin WithListed
  PROVE  ListedBelow(parts) = << >>
<1>1. /\ IsList(BelowEach(parts)) /\ Len(BelowEach(parts)) = Len(parts)
      /\ \A i \in 1 .. Len(parts) : BelowEach(parts)[i] = Below(parts[i].class, parts[i].node)
  BY BelowEachIs DEF IsListOfLists
<1>2. ASSUME NEW i \in 1 .. Len(parts)
      PROVE  BelowEach(parts)[i] = << >>
  <2>1. Below(parts[i].class, parts[i].node) = << >>
    BY BelowIs
  <2> QED
    BY <1>1, <2>1
<1> QED
  BY <1>1, <1>2, FlattenEmpties DEF ListedBelow

\* Below one part is what the part lists.
LEMMA ListedBelowOne ==
  ASSUME NEW part, IsObject(part.class, part.node)
  PROVE  ArePartsOf(<<part>>) /\ ListedBelow(<<part>>) = Below(part.class, part.node)
<1>1. IsList(<<part>>) /\ Len(<<part>>) = 1 /\ <<part>>[1] = part
  BY SingleList
<1>2. \A i \in 1 .. 1 : i = 1
  OBVIOUS
<1>3. ArePartsOf(<<part>>)
  BY <1>1, <1>2 DEF ArePartsOf
<1> DEFINE b == Below(part.class, part.node)
<1>4. IsList(<<b>>) /\ Len(<<b>>) = 1 /\ <<b>>[1] = b
  BY SingleList
<1>5. BelowEach(<<part>>) = <<b>>
  <2>1. /\ IsList(BelowEach(<<part>>)) /\ Len(BelowEach(<<part>>)) = 1
        /\ BelowEach(<<part>>)[1] = b
    BY <1>1, <1>3, BelowEachIs DEF IsListOfLists
  <2> HIDE DEF b
  <2> QED
    BY <1>2, <1>4, <2>1, ListEqual
<1> QED
  BY <1>3, <1>5, FlattenOne DEF ListedBelow

\* Below routes, segments or parameters are these.
LEMMA ListedBelowListed ==
  ASSUME NEW nodes, IsList(nodes), \A x \in ToSet(nodes) : x.class \in Listed
  PROVE  ListedBelow(Each(nodes)) = nodes
<1>1. \A i \in 1 .. Len(nodes) : nodes[i].class \in Listed
  BY ElementOfList
<1>2. /\ Len(Each(nodes)) = Len(nodes) /\ IsList(Each(nodes))
      /\ \A i \in 1 .. Len(nodes) : /\ Each(nodes)[i].class = nodes[i].class
                                    /\ Each(nodes)[i].node = nodes[i]
  BY EachIs
<1>3. \A i \in 1 .. Len(nodes) : Below(Each(nodes)[i].class, Each(nodes)[i].node) = <<nodes[i]>>
  <2>1. ASSUME NEW i \in 1 .. Len(nodes)
        PROVE  Below(Each(nodes)[i].class, Each(nodes)[i].node) = <<nodes[i]>>
    <3>1. nodes[i].class \in Listed
      BY <1>1
    <3>2. Below(nodes[i].class, nodes[i]) = SeenAs(nodes[i].class, nodes[i])
      BY <3>1, BelowIs
    <3> QED
      BY <1>2, <3>1, <3>2, SeenAsIs
  <2> QED
    BY <2>1
<1>4. BelowEach(Each(nodes)) = [i \in DOMAIN nodes |-> <<nodes[i]>>]
  BY <1>2, <1>3, ListFacts DEF BelowEach
<1> QED
  BY <1>4, FlattenSingles DEF ListedBelow

\* So are they below a list of routes.
LEMMA ListedBelowRoutes ==
  ASSUME NEW class \in RouteClasses, NEW nodes, AreRoutes(class, nodes)
  PROVE  ListedBelow(Each(nodes)) = nodes
BY ListedBelowListed DEF AreRoutes, Listed, Leaves

\* Below attributes is what they list.
LEMMA ListedBelowValues ==
  ASSUME NEW values, AreValues(values)
  PROVE  ListedBelow(Attributes(values)) = ListedIn(values)
<1>1. IsList(values)
  BY DEF AreValues
<1>2. /\ Len(Attributes(values)) = Len(values) /\ IsList(Attributes(values))
      /\ \A i \in 1 .. Len(values) : Attributes(values)[i] = As("BGPAttribute", values[i])
  BY <1>1, AttributesAre
<1>3. \A v : Below(As("BGPAttribute", v).class, As("BGPAttribute", v).node) = ListedInValue(v)
  BY BelowIs DEF As
<1>4. \A i \in 1 .. Len(values) :
        Below(Attributes(values)[i].class, Attributes(values)[i].node) = ListedInValue(values[i])
  BY <1>2, <1>3
<1>5. BelowEach(Attributes(values)) = [i \in DOMAIN values |-> ListedInValue(values[i])]
  BY <1>1, <1>2, <1>4, ListFacts DEF BelowEach
<1> QED
  BY <1>5 DEF ListedBelow, ListedIn

\* A visit of an object goes on to what holds all it lists but itself.
LEMMA ListedBelowParts ==
  ASSUME NEW generic, NEW class, NEW n, IsObject(class, n)
  PROVE  ListedBelow(Parts(generic, class, n)) = IF class \in Listed THEN << >> ELSE Below(class, n)
<1>1. CASE class \in Listed
  <2>1. CASE class \in Leaves
    BY <1>1, <2>1, ClassesDisjoint, ListedBelowNone DEF Parts
  <2>2. CASE class \in SegmentClasses
    <3>1. Parts(generic, class, n) = ValueParts(generic, class, n)
      BY <2>2, ClassesDisjoint DEF Parts, AttributeValues
    <3>2. Parts(generic, class, n) # << >> =>
            /\ class = "AttributeTypeAS4PathSegment"
            /\ Parts(generic, class, n) = <<As("AttributeTypeASPathSegment", n)>>
      BY <2>2, <3>1 DEF ValueParts, AS4SegmentParts, SegmentClasses
    <3>3. ASSUME class = "AttributeTypeAS4PathSegment"
          PROVE  ListedBelow(<<As("AttributeTypeASPathSegment", n)>>) = << >>
      <4>1. IsObject("AttributeTypeASPathSegment", n)
        BY DEF IsObject, IsValue, AttributeValues, SegmentClasses, MPClasses, PathClasses
      <4>2. n.class # "AttributeTypeASPathSegment"
        BY <2>2, <3>3, ClassesDisjoint DEF AttributeValues, IsObject, IsValue, BGPMessages
      <4>3. Below("AttributeTypeASPathSegment", n) = << >>
        BY <4>2, BelowIs, SeenAsIs DEF Listed, SegmentClasses
      <4> QED
        BY <4>1, <4>3, ListedBelowOne DEF As
    <3> QED
      BY <1>1, <3>2, <3>3, ListedBelowNone
  <2> QED
    BY <1>1, <2>1, <2>2 DEF Listed
<1>2. CASE class \in MPClasses
  <2>1. class \in AttributeValues /\ class \notin Listed
    BY <1>2 DEF MPClasses, AttributeValues, Listed, Leaves, RouteClasses, ParameterClasses,
      SegmentClasses
  <2> QED
    BY <1>2, <2>1, ClassesDisjoint, BelowIs, ListedBelowRoutes DEF IsObject, MPClasses, IsValue,
      Parts, ValueParts, RouteClasses, BGPMessages
<1>9. CASE class \in PathClasses
  <2>1. class \in AttributeValues /\ class \notin Listed
    BY <1>9 DEF PathClasses, AttributeValues, Listed, Leaves, RouteClasses, ParameterClasses,
      SegmentClasses
  <2>2. AreSegments(n.segments) /\ Parts(generic, class, n) = Each(n.segments)
    BY <1>9, <2>1, ClassesDisjoint DEF IsObject, PathClasses, IsValue, Parts, ValueParts,
      BGPMessages
  <2> QED
    BY <1>9, <2>1, <2>2, BelowIs, ListedBelowListed DEF AreSegments, Listed
<1>10. CASE class = "BGPOpen"
  <2>1. class \in BGPMessages /\ class \notin Listed
    BY <1>10 DEF BGPMessages, Listed, Leaves, RouteClasses, ParameterClasses, SegmentClasses
  <2>2. /\ IsList(n.optParams) /\ \A p \in ToSet(n.optParams) : p.class \in ParameterClasses
        /\ Parts(generic, class, n) = Each(n.optParams)
    BY <1>10, <2>1, ClassesDisjoint DEF IsObject, IsMessage, Parts, MessageParts
  <2> QED
    BY <1>10, <2>1, <2>2, BelowIs, ListedBelowListed DEF Listed, Leaves
<1>3. CASE class = "BGPAttribute"
  <2>1. IsValue(n.class, n) /\ n.class \notin SegmentClasses
    BY <1>3, ClassesDisjoint DEF IsObject, BGPMessages, IsMessage
  <2>2. Parts(generic, class, n) = <<As(n.class, n)>>
    BY <1>3, ClassesDisjoint, EachOne DEF BGPMessages, Parts, MessageParts
  <2>3. IsObject(n.class, n) /\ As(n.class, n).class = n.class /\ As(n.class, n).node = n
    BY <2>1 DEF IsObject, IsValue, As
  <2>4. ListedBelow(Parts(generic, class, n)) = Below(n.class, n)
    BY <2>2, <2>3, ListedBelowOne
  <2>5. Below(n.class, n) = ListedInValue(n)
    <3>1. n.class \in AttributeValues
      BY <2>1 DEF IsValue
    <3>2. CASE n.class \in MPClasses
      BY <3>2, BelowIs DEF ListedInValue
    <3>3. CASE n.class \in PathClasses
      BY <3>3, BelowIs DEF ListedInValue, MPClasses, PathClasses
    <3>4. CASE n.class \notin MPClasses \cup PathClasses
      <4>1. n.class \notin WithListed
        BY <2>1, <3>1, <3>4 DEF WithListed, Listed, Leaves, AttributeValues, SimpleValues,
          RouteClasses, ParameterClasses, MPClasses, PathClasses, MessageClasses, RibRecords
      <4> QED
        BY <3>4, <4>1, BelowIs DEF ListedInValue
    <3> QED
      BY <3>2, <3>3, <3>4
  <2> QED
    BY <1>3, <2>4, <2>5, BelowIs
      DEF Listed, Leaves, RouteClasses, ParameterClasses, SegmentClasses
<1>4. CASE class = "BGPUpdate"
  <2>1. /\ AreValues(n.pathAttributes)
        /\ AreRoutes("NLRIUnReachable", n.withdrawnRoutes)
        /\ AreRoutes("NLRIReachable", n.nlriRoutes)
    BY <1>4, ClassesDisjoint DEF IsMessage, IsObject, BGPMessages
  <2> DEFINE a == Attributes(n.pathAttributes)
             w == Each(n.withdrawnRoutes)
             r == Each(n.nlriRoutes)
  <2>2. Parts(generic, class, n) = a \o w \o r
    BY <1>4, ClassesDisjoint DEF BGPMessages, Parts, MessageParts
  <2>3. ArePartsOf(a) /\ ArePartsOf(w) /\ ArePartsOf(r)
    BY <2>1, ValuesAreParts, RoutesAreParts DEF RouteClasses
  <2>4. /\ ListedBelow(a) = ListedIn(n.pathAttributes)
        /\ ListedBelow(w) = n.withdrawnRoutes
        /\ ListedBelow(r) = n.nlriRoutes
    BY <2>1, ListedBelowValues, ListedBelowRoutes DEF RouteClasses
  <2> HIDE DEF a, w, r
  <2>5. ListedBelow(a \o w \o r) = ListedBelow(a) \o ListedBelow(w) \o ListedBelow(r)
    <3>1. ListedBelow((a \o w) \o r) = ListedBelow(a \o w) \o ListedBelow(r)
      BY <2>3, ListedBelowConcat, PartsConcat
    <3> QED
      BY <2>3, <3>1, ListedBelowConcat
  <2>6. class \notin Listed
    BY <1>4 DEF Listed, Leaves, RouteClasses, ParameterClasses, SegmentClasses
  <2>7. Below(class, n) = ListedIn(n.pathAttributes) \o n.withdrawnRoutes \o n.nlriRoutes
    BY <1>4, BelowIs
  <2> QED
    BY <2>2, <2>4, <2>5, <2>6, <2>7
<1>5. CASE class \in MessageClasses
  <2>1. IsRecord(class, n)
    BY <1>5, ClassesDisjoint DEF IsObject, MessageClasses, Records, Base
  <2>2. IsMessage(n.payload.class, n.payload) /\ n.peer.as \in 0 .. ASModulus - 1
    BY <1>5, <2>1 DEF IsRecord
  <2>3. class \in Records /\ class \notin Listed /\ Below(class, n) = ListedInMessage(n.payload)
    BY <1>5, BelowIs DEF IsRecord, MessageClasses, Records, Base, Listed, Leaves, RouteClasses,
      ParameterClasses, SegmentClasses
  <2>4. Parts(generic, class, n) = RecordParts(class, n)
    BY <2>3, ClassesDisjoint DEF Parts
  <2>5. CASE class = "MRTBgp4MPMessageAS4"
    <3>1. Parts(generic, class, n) = <<As("MRTBgp4MPMessage", n)>>
      BY <2>4, <2>5, BaseClasses, ClassesDisjoint DEF RecordParts
    <3>2. IsRecord("MRTBgp4MPMessage", n)
      BY <2>2 DEF IsRecord, MessageClasses, Records, RibRecords
    <3>3. IsObject("MRTBgp4MPMessage", n)
      BY <3>2 DEF IsObject, IsRecord
    <3>4. ListedBelow(Parts(generic, class, n)) = Below("MRTBgp4MPMessage", n)
      BY <3>1, <3>3, ListedBelowOne DEF As
    <3> QED
      BY <2>3, <3>4, BelowIs DEF MessageClasses
  <2>6. CASE class = "MRTBgp4MPMessage"
    <3>1. Parts(generic, class, n) = <<As(n.payload.class, n.payload)>>
      BY <2>4, <2>6, BaseClasses, EachOne DEF RecordParts, RibRecords
    <3>2. n.payload.class \in BGPMessages
      BY <2>2 DEF IsMessage
    <3>3. IsObject(n.payload.class, n.payload)
      BY <2>2, <3>2 DEF IsObject
    <3>4. ListedBelow(Parts(generic, class, n)) = Below(n.payload.class, n.payload)
      BY <3>1, <3>3, ListedBelowOne DEF As
    <3>5. Below(n.payload.class, n.payload) = ListedInMessage(n.payload)
      <4> DEFINE m == n.payload
      <4> HIDE DEF m
      <4>1. m.class \in BGPMessages \ {"BGPAttribute"}
        BY <2>2 DEF IsMessage, m
      <4>2. m.class \in {"BGPUpdate", "BGPOpen"} \/ m.class \notin WithListed
        BY <4>1 DEF WithListed, BGPMessages, Listed, Leaves, RouteClasses, ParameterClasses,
          SegmentClasses, MPClasses, PathClasses, MessageClasses, RibRecords
      <4>3. m.class \notin {"BGPUpdate", "BGPOpen"} \/ m.class \in WithListed
        BY DEF WithListed
      <4> QED
        BY <4>2, <4>3, BelowIs DEF ListedInMessage, m
    <3> QED
      BY <2>3, <3>4, <3>5
  <2> QED
    BY <1>5, <2>5, <2>6 DEF MessageClasses
<1>6. CASE class \in {"MRTTblDump", "TblDumpV2RibEntry"}
  <2>1. class \in Records /\ class \notin Listed /\ Below(class, n) = ListedIn(n.attributes)
    BY <1>6, BelowIs DEF Records, Listed, Leaves, RouteClasses, ParameterClasses, SegmentClasses
  <2>2. AreValues(n.attributes)
    BY <1>6, <2>1, ClassesDisjoint DEF IsObject, IsRecord, BGPMessages
  <2>3. Parts(generic, class, n) = Attributes(n.attributes)
    BY <1>6, <2>1, BaseClasses, ClassesDisjoint DEF Parts, RecordParts
  <2> QED
    BY <2>1, <2>2, <2>3, ListedBelowValues
<1>7. CASE class \in RibRecords \cup {"MRTTblDumpV2RibHeader"}
  <2> DEFINE es == n.ribEntries
             ss == [i \in DOMAIN es |-> ListedIn(es[i].attributes)]
  <2>1. class \in Records /\ class \notin Listed
    BY <1>7, BaseClasses DEF Records, Listed, Leaves, RouteClasses, ParameterClasses,
      SegmentClasses, RibRecords
  <2>2. IsRecord(class, n)
    BY <2>1, ClassesDisjoint DEF IsObject, BGPMessages
  <2>3. /\ IsList(es)
        /\ \A e \in ToSet(es) : e.class = "TblDumpV2RibEntry" /\ AreValues(e.attributes)
    BY <1>7, <2>2 DEF IsRecord
  <2>4. Below(class, n) = FlattenSeq(ss)
    BY <1>7, BelowIs
  <2>5. CASE class = "MRTTblDumpV2RibHeader"
    <3>1. Parts(generic, class, n) = Each(es)
      BY <2>1, <2>5, BaseClasses, ClassesDisjoint DEF Parts, RecordParts
    <3> HIDE DEF es
    <3>2. /\ Len(Each(es)) = Len(es) /\ IsList(Each(es))
          /\ \A i \in 1 .. Len(es) : /\ Each(es)[i].class = es[i].class
                                     /\ Each(es)[i].node = es[i]
      BY <2>3, EachIs
    <3>3. \A e : Below("TblDumpV2RibEntry", e) = ListedIn(e.attributes)
      BY BelowIs
    <3>4. \A i \in 1 .. Len(es) :
            Below(Each(es)[i].class, Each(es)[i].node) = ListedIn(es[i].attributes)
      BY <2>3, <3>2, <3>3, ElementOfList
    <3>5. BelowEach(Each(es)) = ss
      BY <2>3, <3>2, <3>4, ListFacts DEF BelowEach
    <3> HIDE DEF ss
    <3> QED
      BY <2>1, <2>4, <3>1, <3>5 DEF ListedBelow
  <2>6. CASE class \in RibRecords
    <3>1. Parts(generic, class, n) = <<As("MRTTblDumpV2RibHeader", n)>>
      BY <2>1, <2>6, BaseClasses, ClassesDisjoint DEF Parts, RecordParts
    <3>2. IsObject("MRTTblDumpV2RibHeader", n)
      BY <2>3 DEF IsObject, IsRecord, Records, MessageClasses
    <3>3. ListedBelow(Parts(generic, class, n)) = Below("MRTTblDumpV2RibHeader", n)
      BY <3>1, <3>2, ListedBelowOne DEF As
    <3> QED
      BY <2>1, <2>4, <3>3, BelowIs
  <2> QED
    BY <1>7, <2>5, <2>6
<1>8. CASE class \notin WithListed
  <2>1. ArePartsOf(Parts(generic, class, n)) /\ class \notin Listed /\ Below(class, n) = << >>
    BY <1>8, PartsAreObjects, BelowIs DEF WithListed
  <2> DEFINE parts == Parts(generic, class, n)
  <2>2. SUFFICES \A i \in 1 .. Len(parts) : parts[i].class \notin WithListed
    <3> HIDE DEF parts
    <3> QED
      BY <2>1, ListedBelowEmpties DEF parts
  <2>3. ASSUME parts = << >>
        PROVE  \A i \in 1 .. Len(parts) : parts[i].class \notin WithListed
    BY <2>3, EmptyIsList
  <2>4. ASSUME NEW c, c \notin WithListed, parts = <<As(c, n)>>
        PROVE  \A i \in 1 .. Len(parts) : parts[i].class \notin WithListed
    BY <2>4, SingleList DEF As
  <2> HIDE DEF parts
  <2>6. CASE class \in Records
    BY <1>8, <2>3, <2>4, <2>6, ClassesDisjoint, BaseClasses DEF Parts, parts, RecordParts,
      WithListed, Listed, Leaves, RouteClasses, ParameterClasses, SegmentClasses, MPClasses,
      PathClasses, MessageClasses, RibRecords
  <2>7. CASE class \in BGPMessages
    BY <1>8, <2>3, <2>7, ClassesDisjoint DEF Parts, parts, MessageParts, WithListed
  <2>8. CASE class \in AttributeValues
    BY <1>8, <2>3, <2>8, ClassesDisjoint DEF Parts, parts, ValueParts, WithListed, Listed,
      SegmentClasses, MPClasses, PathClasses
  <2>9. CASE class \in Leaves
    BY <2>3, <2>9, ClassesDisjoint DEF Parts, parts
  <2> QED
    BY <2>6, <2>7, <2>8, <2>9 DEF IsObject, BGPMessages
<1> QED
  BY <1>1, <1>2, <1>3, <1>4, <1>5, <1>6, <1>7, <1>8, <1>9, <1>10 DEF WithListed

-----------------------------------------------------------------------------

\* The frames of a generic visitor are parts.
LEMMA FramesAreParts ==
  ASSUME NEW n, NEW frames, AreFrames(frames, n), NEW visitor \in Generic,
         \A i \in 1 .. Len(frames) : frames[i].visitor = visitor
  PROVE  ArePartsOf(frames)
  BY DEF Generic, Me, AreFrames, IsFrame, ArePartsOf

\* Accepting parts leaves what they list to be visited.
LEMMA ListedBelowAccepts ==
  ASSUME NEW parts, NEW visitor, NEW param, ArePartsOf(parts)
  PROVE  /\ ArePartsOf(Accepts(visitor, parts, param))
         /\ ListedBelow(Accepts(visitor, parts, param)) = ListedBelow(parts)
<1> DEFINE s == Accepts(visitor, parts, param)
<1>1. /\ IsList(s) /\ Len(s) = Len(parts)
      /\ \A i \in 1 .. Len(parts) :
           s[i] = [visitor |-> visitor, class |-> parts[i].class, node |-> parts[i].node,
                   param |-> param]
  BY AcceptsAre DEF ArePartsOf
<1> HIDE DEF s
<1>2. ASSUME NEW i \in 1 .. Len(parts)
      PROVE  s[i].class = parts[i].class /\ s[i].node = parts[i].node
  <2>1. s[i] = [visitor |-> visitor, class |-> parts[i].class, node |-> parts[i].node,
                param |-> param]
    BY <1>1
  <2> QED
    BY <2>1
<1>3. ArePartsOf(s)
  BY <1>1, <1>2 DEF ArePartsOf
<1>4. BelowEach(s) = BelowEach(parts)
  BY <1>1, <1>2, ListFacts DEF BelowEach, ArePartsOf
<1> QED
  BY <1>3, <1>4 DEF ListedBelow, s

\* All the record lists is below it.
LEMMA ListedInRecordIs ==
  ASSUME message \in Messages
  PROVE  Below(message.class, message) = ListedInRecord
<1> DEFINE class == message.class
<1>1. /\ class \in Records
      /\ class \notin {"MRTTblDumpV2RibHeader", "TblDumpV2RibEntry"}
  BY MessagesAssumption DEF IsRecord
<1>2. /\ class \notin Listed /\ class \notin MPClasses /\ class \notin PathClasses
      /\ class \notin {"BGPAttribute", "BGPUpdate", "BGPOpen"}
  BY <1>1, ClassesDisjoint DEF Listed, MPClasses, PathClasses, AttributeValues, BGPMessages
<1> HIDE DEF class
<1>3. CASE class \in MessageClasses
  BY <1>3, BelowIs DEF ListedInRecord, class, MessageClasses, RibRecords
<1>4. CASE class = "MRTTblDump"
  BY <1>4, BelowIs DEF ListedInRecord, class, MessageClasses, RibRecords
<1>5. CASE class \in RibRecords
  BY <1>5, BelowIs DEF ListedInRecord, class, MessageClasses, RibRecords
<1>6. CASE class \notin MessageClasses /\ class # "MRTTblDump" /\ class \notin RibRecords
  BY <1>1, <1>2, <1>6, BelowIs DEF WithListed, ListedInRecord, class
<1> QED
  BY <1>3, <1>4, <1>5, <1>6 DEF class

\* At the start all of it is left.
LEMMA InitiallyAllLeft ==
  ASSUME Init
  PROVE  ListedLeft
<1>1. /\ message \in Messages /\ visited = << >>
      /\ stack = Accepts(program, <<As(message.class, message)>>, FirstParam(program))
  BY DEF Init
<1>2. IsObject(message.class, message)
  BY <1>1, MessagesAssumption DEF IsObject, IsRecord
<1>3. As(message.class, message).class = message.class /\ As(message.class, message).node = message
  BY DEF As
<1>4. ArePartsOf(<<As(message.class, message)>>)
  BY <1>2, OneIsParts
<1>5. ListedBelow(stack) = ListedInRecord
  BY <1>1, <1>2, <1>3, <1>4, ListedBelowOne, ListedBelowAccepts, ListedInRecordIs
<1>6. IsList(ListedBelow(stack))
  BY <1>1, <1>2, <1>5, ListedInRecordIs, BelowIsList
<1>7. visited \o ListedBelow(stack) = ListedInRecord /\ IsList(visited)
  BY <1>1, <1>5, <1>6, ConcatEmpty, EmptyIsList
<1>8. \A i \in 1 .. Len(stack) : stack[i].visitor = program
  <2> DEFINE parts == <<As(message.class, message)>>
  <2>1. IsList(parts)
    BY SingleList
  <2> HIDE DEF parts
  <2>2. stack = Accepts(program, parts, FirstParam(program))
    BY <1>1 DEF parts
  <2>3. Len(stack) = Len(parts) /\ \A i \in 1 .. Len(parts) :
          stack[i] = [visitor |-> program, class |-> parts[i].class, node |-> parts[i].node,
                      param |-> FirstParam(program)]
    BY <2>1, <2>2, AcceptsAre
  <2>4. ASSUME NEW i \in 1 .. Len(stack)
        PROVE  stack[i].visitor = program
    <3>1. stack[i] = [visitor |-> program, class |-> parts[i].class, node |-> parts[i].node,
                      param |-> FirstParam(program)]
      BY <2>3
    <3> QED
      BY <3>1
  <2> QED
    BY <2>4
<1> QED
  BY <1>7, <1>8 DEF ListedLeft

\* A visit puts the parts in the place of the object, which it may take off.
LEMMA VisitKeepsListedLeft ==
  ASSUME Typed, ListedLeft, program \in Generic, NEW generic \in Generic,
         NEW classes \in {Records, BGPMessages, AttributeValues, Leaves},
         Visit(generic, classes), UNCHANGED <<ascii, program, elements, crashed>>
  PROVE  ListedLeft'
<1> DEFINE parts == Parts(generic, Top.class, Top.node)
           param == IF HandsDown(generic) THEN Top.param ELSE NoParam
           rest == Tail(stack)
<1>1. /\ stack # << >>
      /\ stack' = Accepts(Top.visitor, parts, param) \o rest
      /\ visited' = visited \o SeenAs(Top.class, Top.node)
      /\ message' = message /\ program' = program
  BY DEF Visit, Push
<1>2. /\ IsList(visited)
      /\ \A i \in 1 .. Len(stack) : stack[i].visitor = program
      /\ visited \o ListedBelow(stack) = ListedInRecord
  BY DEF ListedLeft
<1>3. ArePartsOf(stack)
  BY <1>2, FramesAreParts DEF Typed
<1>4. /\ stack = <<Top>> \o rest /\ IsList(rest) /\ Len(rest) = Len(stack) - 1
      /\ Top = stack[1] /\ \A i \in 1 .. Len(stack) - 1 : rest[i] = stack[i + 1]
      /\ Len(stack) \in Nat /\ Len(stack) # 0
  BY <1>1, <1>3, TailList, ListFacts DEF ArePartsOf, Top
<1> HIDE DEF rest
<1>5. /\ Top.visitor = program /\ IsObject(Top.class, Top.node)
      /\ ArePartsOf(rest) /\ \A i \in 1 .. Len(rest) : rest[i].visitor = program
  BY <1>2, <1>3, <1>4 DEF ArePartsOf
<1>6. ArePartsOf(parts) /\ ArePartsOf(<<Top>>) /\ ListedBelow(<<Top>>) = Below(Top.class, Top.node)
  BY <1>5, PartsAreObjects, ListedBelowOne
<1>7. ListedBelow(stack) = Below(Top.class, Top.node) \o ListedBelow(rest)
  BY <1>4, <1>5, <1>6, ListedBelowConcat
<1>8. ListedBelow(parts) = IF Top.class \in Listed THEN << >> ELSE Below(Top.class, Top.node)
  BY <1>5, ListedBelowParts
<1> HIDE DEF parts, param
<1>9. ListedBelow(stack') = ListedBelow(parts) \o ListedBelow(rest)
  <2> DEFINE frames == Accepts(Top.visitor, parts, param)
  <2>1. ArePartsOf(frames) /\ ListedBelow(frames) = ListedBelow(parts)
    BY <1>6, ListedBelowAccepts
  <2>2. stack' = frames \o rest
    BY <1>1
  <2> HIDE DEF frames
  <2> QED
    BY <1>5, <2>1, <2>2, ListedBelowConcat
<1>10. /\ IsList(ListedBelow(rest)) /\ IsList(Below(Top.class, Top.node))
  BY <1>5, ListedBelowConcat, BelowIsList
<1>11. IsList(visited') /\ visited' \o ListedBelow(stack') = ListedInRecord
  <2> DEFINE seen == SeenAs(Top.class, Top.node)
  <2>1. IsList(seen) /\ (Top.class \notin Listed => seen = << >>)
    BY SeenAsIs
  <2>2. CASE Top.class \in Listed
    <3>1. Below(Top.class, Top.node) = seen
      BY <2>2, BelowIs
    <3> HIDE DEF seen
    <3>2. visited' = visited \o seen /\ IsList(visited')
      BY <1>1, <1>2, <2>1, ConcatList DEF seen
    <3>3. ListedBelow(stack') = ListedBelow(rest)
      BY <1>8, <1>9, <1>10, <2>2, ConcatEmpty
    <3>4. (visited \o seen) \o ListedBelow(rest) = visited \o (seen \o ListedBelow(rest))
      BY <1>2, <1>10, <2>1, ConcatAssoc
    <3> QED
      BY <1>2, <1>7, <3>1, <3>2, <3>3, <3>4
  <2>3. CASE Top.class \notin Listed
    <3>1. visited' = visited
      BY <1>1, <1>2, <2>1, <2>3, ConcatEmpty
    <3> QED
      BY <1>2, <1>7, <1>8, <1>9, <2>3, <3>1
  <2> QED
    BY <2>2, <2>3
<1>12. \A i \in 1 .. Len(stack') : stack'[i].visitor = program
  <2> DEFINE frames == Accepts(Top.visitor, parts, param)
  <2>1. IsList(frames) /\ Len(frames) = Len(parts)
    BY <1>6, AcceptsAre DEF ArePartsOf
  <2>2. \A i \in 1 .. Len(frames) : frames[i].visitor = program
    <3>1. ASSUME NEW i \in 1 .. Len(frames)
          PROVE  frames[i].visitor = program
      <4>1. frames[i] = [visitor |-> Top.visitor, class |-> parts[i].class,
                         node |-> parts[i].node, param |-> param]
        BY <1>6, <2>1, AcceptsAre DEF ArePartsOf
      <4> HIDE DEF frames
      <4> QED
        BY <1>5, <4>1
    <3> QED
      BY <3>1
  <2> HIDE DEF frames
  <2>3. /\ Len(stack') = Len(frames) + Len(rest)
        /\ \A i \in 1 .. Len(frames) + Len(rest) :
             stack'[i] = IF i <= Len(frames) THEN frames[i] ELSE rest[i - Len(frames)]
    BY <1>1, <1>4, <2>1, ConcatList DEF frames
  <2>4. Len(frames) \in Nat /\ Len(rest) \in Nat
    BY <1>4, <2>1, ListFacts
  <2> QED
    BY <1>5, <2>2, <2>3, <2>4
<1>13. ListedInRecord' = ListedInRecord
  BY <1>1 DEF ListedInRecord
<1>14. ListedBelow(stack)' = ListedBelow(stack')
  BY DEF ListedBelow, BelowEach
<1> QED
  BY <1>1, <1>11, <1>12, <1>13, <1>14 DEF ListedLeft

\* No step of another visitor has a part in it.
LEMMA StepKeepsListedLeft ==
  ASSUME Typed, ListedLeft, [Next]_vars
  PROVE  ListedLeft'
<1>1. program' = program
  BY DEF Next, DumpAscii, DumpXml, Dump, Stop, vars
<1> SUFFICES ASSUME program \in Generic PROVE ListedLeft'
  BY <1>1 DEF ListedLeft
<1>2. stack # << >> => Top.visitor = program
  <2> SUFFICES ASSUME stack # << >> PROVE Top.visitor = program
    OBVIOUS
  <2>1. IsList(stack) /\ Top = stack[1] /\ Len(stack) \in Nat /\ Len(stack) # 0
    BY TailList, ListFacts DEF Typed, AreFrames, Top
  <2> QED
    BY <2>1 DEF ListedLeft
<1>3. CASE NextGeneric /\ UNCHANGED <<ascii, program, elements, crashed>>
  BY <1>3, VisitKeepsListedLeft DEF NextGeneric, Generic,
    DepthFirstVisitorRecord, DepthFirstVisitorMessage, DepthFirstVisitorValue,
    DepthFirstVisitorLeaf,
    GJVoidDepthFirstRecord, GJVoidDepthFirstMessage, GJVoidDepthFirstValue, GJVoidDepthFirstLeaf,
    GJNoArguDepthFirstRecord, GJNoArguDepthFirstMessage, GJNoArguDepthFirstValue,
    GJNoArguDepthFirstLeaf,
    GJDepthFirstRecord, GJDepthFirstMessage, GJDepthFirstValue, GJDepthFirstLeaf
<1>4. CASE NextAscii \/ DumpAscii \/ DumpXml
  <2>1. stack # << >> /\ Top.visitor \in {"AsciiVisitor", Me, "mrt2xml", "mrt2xml -B"}
    BY <1>4 DEF NextAscii, DumpAscii, DumpXml, Dump, Visiting,
      VisitMessage, VisitStateChange, VisitTblDump, VisitRibHeader, BGPTblDump, BGPRibHeader,
      BGPRibEntry, BGPOwnPrefix, VisitOpen, VisitUpdate, VisitUpdateRoutes, MPReach, MPUnreach,
      PlainAttribute, Reachable, UnReachable
  <2> QED
    BY <1>2, <2>1 DEF Generic, Me
<1>5. CASE Stop \/ UNCHANGED vars
  BY <1>5 DEF Stop, vars, traversal, ListedLeft, ListedBelow, BelowEach, ListedInRecord
<1> QED
  BY <1>3, <1>4, <1>5 DEF Next

\* Whatever the record, each of the four traversals comes by its routes, segments of paths and
\* parameters as what they are, each once, in order.
THEOREM EachListedOnceHolds == Spec => []EachListedOnce
<1>1. Typed /\ ListedLeft => EachListedOnce
  <2> SUFFICES ASSUME Typed, ListedLeft, Finished, program \in Generic
               PROVE  visited = ListedInRecord
    BY DEF EachListedOnce
  <2> QED
    BY ConcatEmpty, ListedBelowNone DEF ListedLeft, Finished
<1> QED
  BY <1>1, InitiallyTyped, StaysTyped, InitiallyAllLeft, StepKeepsListedLeft, PTL DEF Spec

-----------------------------------------------------------------------------
(* Lists that are worked off from the front                                *)

\* What is left of a list after its first k elements, and these.
After(s, k) == [i \in 1 .. Len(s) - k |-> s[i + k]]
FirstOf(s, k) == [i \in 1 .. k |-> s[i]]

\* An element before a list.
LEMMA ConsList ==
  ASSUME NEW x, NEW t, IsList(t)
  PROVE  /\ IsList(<<x>> \o t)
         /\ Len(<<x>> \o t) = 1 + Len(t)
         /\ (<<x>> \o t)[1] = x
         /\ \A i \in 1 .. 1 + Len(t) : i # 1 => i - 1 \in 1 .. Len(t) /\ (<<x>> \o t)[i] = t[i - 1]
<1> DEFINE u == <<x>>
<1>1. IsList(u) /\ Len(u) = 1 /\ u[1] = x
  BY SingleList
<1>2. Len(t) \in Nat
  BY ListFacts
<1> HIDE DEF u
<1>3. /\ IsList(u \o t) /\ Len(u \o t) = Len(u) + Len(t)
      /\ \A i \in 1 .. Len(u) + Len(t) :
           (u \o t)[i] = IF i <= Len(u) THEN u[i] ELSE t[i - Len(u)]
  BY <1>1, ConcatList
<1>4. ASSUME NEW i \in 1 .. 1 + Len(t), i # 1
      PROVE  i - 1 \in 1 .. Len(t) /\ (u \o t)[i] = t[i - 1]
  BY <1>1, <1>2, <1>3, <1>4
<1> QED
  BY <1>1, <1>2, <1>3, <1>4 DEF u

\* What is left after k elements is a list, and begins with the next one.
LEMMA AfterList ==
  ASSUME NEW s, IsList(s), NEW k \in 0 .. Len(s)
  PROVE  /\ IsList(After(s, k))
         /\ Len(After(s, k)) = Len(s) - k
         /\ k = 0 => After(s, k) = s
         /\ k = Len(s) => After(s, k) = << >>
         /\ k < Len(s) => After(s, k) = <<s[k + 1]>> \o After(s, k + 1)
<1>1. Len(s) \in Nat /\ k \in Nat /\ Len(s) - k \in Nat
  BY ListFacts
<1>2. ASSUME NEW j \in 0 .. Len(s)
      PROVE  /\ IsList(After(s, j)) /\ Len(After(s, j)) = Len(s) - j
             /\ \A i \in 1 .. Len(s) - j : After(s, j)[i] = s[i + j]
  <2> DEFINE t == After(s, j)
  <2>1. t = [i \in 1 .. Len(s) - j |-> t[i]] /\ \A i \in 1 .. Len(s) - j : t[i] = s[i + j]
    BY DEF After
  <2> HIDE DEF t
  <2>2. IsList(t) /\ Len(t) = Len(s) - j
    BY <1>1, <2>1, FunctionIsList
  <2> QED
    BY <2>1, <2>2 DEF t
<1>3. k = Len(s) => After(s, k) = << >>
  BY <1>1, <1>2, ListFacts
<1>4. ASSUME k < Len(s)
      PROVE  After(s, k) = <<s[k + 1]>> \o After(s, k + 1)
  <2> DEFINE t == After(s, k + 1)
             u == <<s[k + 1]>>
  <2>1. /\ IsList(t) /\ Len(t) = Len(s) - (k + 1)
        /\ \A i \in 1 .. Len(s) - (k + 1) : t[i] = s[i + (k + 1)]
    <3>1. k + 1 \in 0 .. Len(s)
      BY <1>1, <1>4
    <3> QED
      BY <1>2, <3>1
  <2> HIDE DEF t
  <2>2. /\ IsList(u \o t) /\ Len(u \o t) = 1 + Len(t) /\ (u \o t)[1] = s[k + 1]
        /\ \A i \in 1 .. 1 + Len(t) : i # 1 => i - 1 \in 1 .. Len(t) /\ (u \o t)[i] = t[i - 1]
    BY <2>1, ConsList
  <2> HIDE DEF u
  <2>3. IsList(After(s, k)) /\ Len(After(s, k)) = Len(s) - k
        /\ \A i \in 1 .. Len(s) - k : After(s, k)[i] = s[i + k]
    BY <1>2
  <2>4. ASSUME NEW i \in 1 .. Len(s) - k
        PROVE  After(s, k)[i] = (u \o t)[i]
    <3>1. i \in 1 .. 1 + Len(t) /\ i \in Nat /\ After(s, k)[i] = s[i + k]
      BY <1>1, <2>1, <2>3
    <3>2. CASE i = 1
      BY <1>1, <2>2, <3>1, <3>2
    <3>3. CASE i # 1
      BY <1>1, <2>1, <2>2, <3>1, <3>3
    <3> QED
      BY <3>2, <3>3
  <2>5. Len(After(s, k)) = Len(u \o t)
    BY <1>1, <2>1, <2>2, <2>3
  <2>6. After(s, k) = u \o t
    BY <2>2, <2>3, <2>4, <2>5, ListEqual
  <2> QED
    BY <2>6 DEF t, u
<1> QED
  BY <1>1, <1>2, <1>3, <1>4, ListEqual

\* And so is what came before it, which the next one is appended to.
LEMMA FirstOfList ==
  ASSUME NEW s, IsList(s), NEW k \in 0 .. Len(s)
  PROVE  /\ IsList(FirstOf(s, k)) /\ Len(FirstOf(s, k)) = k
         /\ k = 0 => FirstOf(s, k) = << >>
         /\ k = Len(s) => FirstOf(s, k) = s
         /\ k < Len(s) => FirstOf(s, k + 1) = Append(FirstOf(s, k), s[k + 1])
<1>1. Len(s) \in Nat /\ k \in Nat
  BY ListFacts
<1>2. ASSUME NEW j \in Nat
      PROVE  /\ IsList(FirstOf(s, j)) /\ Len(FirstOf(s, j)) = j
             /\ \A i \in 1 .. j : FirstOf(s, j)[i] = s[i]
  <2> DEFINE t == FirstOf(s, j)
  <2>1. t = [i \in 1 .. j |-> t[i]] /\ \A i \in 1 .. j : t[i] = s[i]
    BY DEF FirstOf
  <2> HIDE DEF t
  <2> QED
    BY <2>1, FunctionIsList DEF t
<1>3. k = Len(s) => FirstOf(s, k) = s
  BY <1>1, <1>2, ListEqual
<1>4. FirstOf(s, k + 1) = Append(FirstOf(s, k), s[k + 1])
  <2> DEFINE t == FirstOf(s, k)
             u == Append(t, s[k + 1])
             w == FirstOf(s, k + 1)
  <2>1. /\ IsList(t) /\ Len(t) = k /\ \A i \in 1 .. k : t[i] = s[i]
        /\ IsList(w) /\ Len(w) = k + 1 /\ \A i \in 1 .. k + 1 : w[i] = s[i]
    BY <1>1, <1>2
  <2> HIDE DEF t, w
  <2>2. IsList(u) /\ Len(u) = k + 1 /\ (\A i \in 1 .. k : u[i] = t[i]) /\ u[k + 1] = s[k + 1]
    <3>1. /\ IsList(u) /\ Len(u) = Len(t) + 1 /\ \A i \in 1 .. Len(t) : u[i] = t[i]
          /\ u[Len(t) + 1] = s[k + 1]
      <4> DEFINE x == s[k + 1]
      <4> HIDE DEF x
      <4>1. /\ IsList(Append(t, x)) /\ Len(Append(t, x)) = Len(t) + 1
            /\ \A i \in 1 .. Len(t) : Append(t, x)[i] = t[i]
            /\ Append(t, x)[Len(t) + 1] = x
        <5>1. IsList(t)
          BY <2>1
        <5> QED
          BY ZenonT(60), <5>1, AppendList
      <4> QED
        BY <4>1 DEF x
    <3> HIDE DEF u
    <3> QED
      BY <2>1, <3>1
  <2> HIDE DEF u
  <2>3. w = u
    BY <1>1, <2>1, <2>2, ListEqual
  <2> QED
    BY <2>3 DEF t, u, w
<1> QED
  BY <1>1, <1>2, <1>3, <1>4, ListFacts

\* accept() of what is left, the next part apart.
FrameOf(part, param) == [visitor |-> Me, class |-> part.class, node |-> part.node, param |-> param]

\* The frames of what is left of a list of parts.
LEMMA AcceptsAfter ==
  ASSUME NEW parts, IsList(parts), NEW param, NEW k \in 0 .. Len(parts)
  PROVE  /\ IsList(Accepts(Me, After(parts, k), param))
         /\ Len(Accepts(Me, After(parts, k), param)) = Len(parts) - k
         /\ k = 0 => Accepts(Me, After(parts, k), param) = Accepts(Me, parts, param)
         /\ k = Len(parts) => Accepts(Me, After(parts, k), param) = << >>
         /\ k < Len(parts) =>
              /\ k + 1 \in 0 .. Len(parts)
              /\ IsList(Accepts(Me, After(parts, k + 1), param))
              /\ Accepts(Me, After(parts, k), param) =
                   <<FrameOf(parts[k + 1], param)>> \o Accepts(Me, After(parts, k + 1), param)
<1>1. Len(parts) \in Nat /\ k \in Nat
  BY ListFacts
<1>2. \A j \in 0 .. Len(parts) :
        /\ IsList(After(parts, j)) /\ Len(After(parts, j)) = Len(parts) - j
        /\ IsList(Accepts(Me, After(parts, j), param))
        /\ Len(Accepts(Me, After(parts, j), param)) = Len(parts) - j
  <2> SUFFICES ASSUME NEW j \in 0 .. Len(parts)
               PROVE  /\ IsList(After(parts, j)) /\ Len(After(parts, j)) = Len(parts) - j
                      /\ IsList(Accepts(Me, After(parts, j), param))
                      /\ Len(Accepts(Me, After(parts, j), param)) = Len(parts) - j
    OBVIOUS
  <2>1. IsList(After(parts, j)) /\ Len(After(parts, j)) = Len(parts) - j
    BY AfterList
  <2> QED
    BY <2>1, AcceptsAre
<1>3. k = Len(parts) => Accepts(Me, After(parts, k), param) = << >>
  <2> SUFFICES ASSUME k = Len(parts) PROVE Accepts(Me, After(parts, k), param) = << >>
    OBVIOUS
  <2> QED
    BY <1>1, <1>2, ListFacts
<1>4. ASSUME k < Len(parts)
      PROVE  /\ k + 1 \in 0 .. Len(parts)
             /\ Accepts(Me, After(parts, k), param) =
                  <<FrameOf(parts[k + 1], param)>> \o Accepts(Me, After(parts, k + 1), param)
  <2>1. k + 1 \in 0 .. Len(parts)
    BY <1>1, <1>4
  <2> DEFINE t == After(parts, k + 1)
             x == parts[k + 1]
             s == After(parts, k)
  <2>2. s = <<x>> \o t /\ IsList(t) /\ IsList(s)
    BY <1>2, <1>4, <2>1, AfterList
  <2> HIDE DEF t, x, s
  <2>3. /\ Len(s) = 1 + Len(t) /\ s[1] = x
        /\ \A i \in 1 .. 1 + Len(t) : i # 1 => i - 1 \in 1 .. Len(t) /\ s[i] = t[i - 1]
    BY <2>2, ConsList
  <2> DEFINE as == Accepts(Me, s, param)
             at == Accepts(Me, t, param)
             f == FrameOf(x, param)
  <2>4. /\ IsList(as) /\ Len(as) = Len(s)
        /\ \A i \in 1 .. Len(s) : as[i] = FrameOf(s[i], param)
    <3>1. IsList(s)
      BY <2>2
    <3> QED
      BY <3>1, AcceptsAre DEF FrameOf
  <2>5. /\ IsList(at) /\ Len(at) = Len(t)
        /\ \A i \in 1 .. Len(t) : at[i] = FrameOf(t[i], param)
    BY <2>2, AcceptsAre DEF FrameOf
  <2> HIDE DEF as, at
  <2>6. /\ IsList(<<f>> \o at) /\ Len(<<f>> \o at) = 1 + Len(at) /\ (<<f>> \o at)[1] = f
        /\ \A i \in 1 .. 1 + Len(at) :
             i # 1 => i - 1 \in 1 .. Len(at) /\ (<<f>> \o at)[i] = at[i - 1]
    <3> HIDE DEF f
    <3> QED
      BY <2>5, ConsList
  <2>7. ASSUME NEW i \in 1 .. Len(as)
        PROVE  as[i] = (<<f>> \o at)[i]
    <3>1. as[i] = FrameOf(s[i], param)
      BY <2>4
    <3>2. i \in 1 .. 1 + Len(t) /\ i \in 1 .. 1 + Len(at)
      BY <2>3, <2>4, <2>5
    <3>3. CASE i = 1
      BY <2>3, <2>6, <3>1, <3>3
    <3>4. CASE i # 1
      BY <2>3, <2>5, <2>6, <3>1, <3>2, <3>4
    <3> QED
      BY <3>3, <3>4
  <2>8. as = <<f>> \o at
    <3> HIDE DEF f
    <3> QED
      BY <2>3, <2>4, <2>5, <2>6, <2>7, ListEqual
  <2> QED
    BY <2>1, <2>8 DEF as, at, f, s, t, x
<1> QED
  BY <1>2, <1>3, <1>4, AfterList

-----------------------------------------------------------------------------
(* What was seen of a list of attributes                                   *)

\* The greatest place of none is 0.
LEMMA MaxNone == Max({0} \cup {}) = 0
  BY DEF Max

\* A new place is greater than those before it.
LEMMA MaxNew ==
  ASSUME NEW i \in Nat, NEW S, S \subseteq 1 .. i
  PROVE  Max({0} \cup (S \cup {i + 1})) = i + 1
<1> DEFINE T == {0} \cup (S \cup {i + 1})
<1>1. \A y \in T : y \in Int /\ y <= i + 1
  OBVIOUS
<1>2. i + 1 \in T
  OBVIOUS
<1> HIDE DEF T
<1>3. \A y \in T : i + 1 >= y
  BY <1>1
<1>4. (CHOOSE x \in T : \A y \in T : x >= y) = i + 1
  BY <1>1, <1>2, <1>3
<1> QED
  BY <1>4 DEF Max, T

\* No attribute is before the first.
LEMMA LastBeforeNone ==
  ASSUME NEW values, NEW classes
  PROVE  LastBefore(values, 0, classes) = 0
  BY MaxNone DEF LastBefore

\* The last attribute of some classes, after one more.
LEMMA LastBeforeNext ==
  ASSUME NEW values, NEW classes, NEW i \in Nat
  PROVE  LastBefore(values, i + 1, classes) =
           IF values[i + 1].class \in classes THEN i + 1 ELSE LastBefore(values, i, classes)
<1> DEFINE S == {j \in 1 .. i : values[j].class \in classes}
           T == {j \in 1 .. i + 1 : values[j].class \in classes}
<1>1. CASE values[i + 1].class \in classes
  <2>1. T = S \cup {i + 1} /\ S \subseteq 1 .. i
    BY <1>1
  <2> QED
    BY <1>1, <2>1, MaxNew DEF LastBefore
<1>2. CASE values[i + 1].class \notin classes
  <2>1. T = S
    BY <1>2
  <2> QED
    BY <1>2, <2>1 DEF LastBefore
<1> QED
  BY <1>1, <1>2

\* An attribute that sets the family.
HasFamily(v) == v.class \in MPClasses /\ v.afi # 0

\* No attribute has brought a family yet.
LEMMA FamilySeenNone ==
  ASSUME NEW values, NEW initial
  PROVE  FamilySeen(values, 0, initial) = initial
  BY MaxNone DEF FamilySeen

\* One more attribute brings its family, if it has one.
LEMMA FamilySeenNext ==
  ASSUME NEW values, NEW initial, NEW i \in Nat
  PROVE  FamilySeen(values, i + 1, initial) =
           IF HasFamily(values[i + 1]) THEN values[i + 1].afi ELSE FamilySeen(values, i, initial)
<1> DEFINE S == {j \in 1 .. i : values[j].class \in MPClasses /\ values[j].afi # 0}
           T == {j \in 1 .. i + 1 : values[j].class \in MPClasses /\ values[j].afi # 0}
<1>1. CASE HasFamily(values[i + 1])
  <2>1. T = S \cup {i + 1} /\ S \subseteq 1 .. i
    BY <1>1 DEF HasFamily
  <2>2. Max({0} \cup T) = i + 1
    <3> HIDE DEF S, T
    <3> QED
      BY <2>1, MaxNew
  <2> QED
    BY <1>1, <2>2 DEF FamilySeen
<1>2. CASE ~HasFamily(values[i + 1])
  <2>1. T = S
    BY <1>2 DEF HasFamily
  <2> QED
    BY <1>2, <2>1 DEF FamilySeen
<1> QED
  BY <1>1, <1>2

TextFields ==
  {"as_path", "origin", "next_hop", "med", "lpref", "atomic_agg", "agg", "communities"}

\* The texts of a line.
LEMMA FieldsOfTexts == DOMAIN Defaults = TextFields
BY DEF Defaults, TextFields

\* The classes whose text is in a field.
OfField(field) == {c \in PlainClasses : Field[c] = field}

\* The text an attribute is put into.
LEMMA FieldIsText ==
  /\ \A c \in PlainClasses : Field[c] \in TextFields
  /\ \A c \in PlainClasses : Field[c] = "next_hop" <=> c = "AttributeTypeNextHop"
  /\ "AttributeTypeMPReachNLRI" \notin PlainClasses
  /\ "AttributeTypeMPUnreachNLRI" \notin PlainClasses
<1>1. ASSUME NEW c \in PlainClasses
      PROVE  Field[c] \in TextFields /\ (Field[c] = "next_hop" <=> c = "AttributeTypeNextHop")
  BY DEF Field, PlainClasses, TextFields
<1> QED
  BY <1>1 DEF PlainClasses

\* One more attribute changes the text of its own field alone.
LEMMA SeenTextNext ==
  ASSUME NEW values, NEW field, NEW i \in Nat
  PROVE  SeenText(values, i + 1, field) =
           IF values[i + 1].class \in OfField(field) THEN FieldText(values[i + 1])
           ELSE SeenText(values, i, field)
<1>1. LastBefore(values, i + 1, OfField(field)) =
        IF values[i + 1].class \in OfField(field) THEN i + 1
        ELSE LastBefore(values, i, OfField(field))
  BY LastBeforeNext
<1> QED
  BY <1>1 DEF SeenText, OfField

\* The next hop is that of NEXT_HOP or of MP_REACH_NLRI, whichever came last.
LEMMA NextHopSeenNext ==
  ASSUME NEW values, NEW initial, NEW i \in Nat
  PROVE  /\ values[i + 1].class = "AttributeTypeNextHop" =>
              NextHopSeen(values, i + 1, initial) = FieldText(values[i + 1])
         /\ values[i + 1].class = "AttributeTypeMPReachNLRI" =>
              NextHopSeen(values, i + 1, initial) =
                Text(values[i + 1].nextHop, FamilySeen(values, i + 1, initial))
         /\ values[i + 1].class \notin {"AttributeTypeNextHop", "AttributeTypeMPReachNLRI"} =>
              NextHopSeen(values, i + 1, initial) = NextHopSeen(values, i, initial)
<1> DEFINE classes == {"AttributeTypeNextHop", "AttributeTypeMPReachNLRI"}
<1>1. i + 1 # 0
  OBVIOUS
<1>2. LastBefore(values, i + 1, classes) =
        IF values[i + 1].class \in classes THEN i + 1 ELSE LastBefore(values, i, classes)
  BY LastBeforeNext
<1>3. CASE values[i + 1].class = "AttributeTypeNextHop"
  BY <1>1, <1>2, <1>3 DEF NextHopSeen
<1>4. CASE values[i + 1].class = "AttributeTypeMPReachNLRI"
  BY <1>1, <1>2, <1>4 DEF NextHopSeen
<1>5. CASE values[i + 1].class \notin classes
  BY <1>2, <1>5 DEF NextHopSeen
<1> QED
  BY <1>3, <1>4, <1>5

\* Before the first attribute there are the defaults.
LEMMA SeenTextsNone ==
  ASSUME NEW values, NEW initial, NEW field \in TextFields
  PROVE  SeenTexts(values, 0, initial)[field] = Defaults[field]
<1>1. SeenText(values, 0, field) = Defaults[field]
  BY LastBeforeNone DEF SeenText
<1>2. NextHopSeen(values, 0, initial) = NoText
  BY LastBeforeNone DEF NextHopSeen
<1>3. Defaults["next_hop"] = NoText
  BY DEF Defaults
<1> QED
  BY <1>1, <1>2, <1>3, FieldsOfTexts DEF SeenTexts

\* What one attribute more changes of the texts.
TextsNext(values, i, initial, field) ==
  /\ values[i + 1].class \in PlainClasses =>
       SeenTexts(values, i + 1, initial)[field] =
         IF field = Field[values[i + 1].class] THEN FieldText(values[i + 1])
         ELSE SeenTexts(values, i, initial)[field]
  /\ values[i + 1].class = "AttributeTypeMPReachNLRI" =>
       SeenTexts(values, i + 1, initial)[field] =
         IF field = "next_hop"
         THEN Text(values[i + 1].nextHop, FamilySeen(values, i + 1, initial))
         ELSE SeenTexts(values, i, initial)[field]
  /\ values[i + 1].class \notin PlainClasses \cup {"AttributeTypeMPReachNLRI"} =>
       SeenTexts(values, i + 1, initial)[field] = SeenTexts(values, i, initial)[field]

\* It changes that.
LEMMA SeenTextsNext ==
  ASSUME NEW values, NEW initial, NEW i \in Nat, NEW field \in TextFields
  PROVE  TextsNext(values, i, initial, field)
<1> DEFINE class == values[i + 1].class
           new == SeenTexts(values, i + 1, initial)[field]
           old == SeenTexts(values, i, initial)[field]
<1>1. /\ field = "next_hop" => /\ new = NextHopSeen(values, i + 1, initial)
                               /\ old = NextHopSeen(values, i, initial)
      /\ field # "next_hop" => /\ new = SeenText(values, i + 1, field)
                               /\ old = SeenText(values, i, field)
  BY FieldsOfTexts DEF SeenTexts
<1>2. class \in OfField(field) <=> class \in PlainClasses /\ field = Field[class]
  BY DEF OfField
<1> HIDE DEF new, old, class
<1>3. /\ class \in PlainClasses =>
           new = IF field = Field[class] THEN FieldText(values[i + 1]) ELSE old
      /\ class = "AttributeTypeMPReachNLRI" =>
           new = IF field = "next_hop"
                 THEN Text(values[i + 1].nextHop, FamilySeen(values, i + 1, initial)) ELSE old
      /\ class \notin PlainClasses \cup {"AttributeTypeMPReachNLRI"} => new = old
  <2>1. CASE field = "next_hop"
    BY <1>1, <2>1, FieldIsText, NextHopSeenNext DEF PlainClasses, class, new, old
  <2>2. CASE field # "next_hop"
    BY <1>1, <1>2, <2>2, SeenTextNext, FieldIsText DEF class, new, old
  <2> QED
    BY <2>1, <2>2
<1> QED
  BY <1>3 DEF TextsNext, class, new, old

-----------------------------------------------------------------------------
(* A batch: the attributes of one message or one entry, under way          *)
(*                                                                         *)
(* It has the peer and kind of its lines; the attributes, values, with the *)
(* family that Info::afi holds before them; closing, the part visited      *)
(* after them, with the routes that part leads to and their family; the    *)
(* Info; the lines printed before it; and the frames that come after it.   *)

InfoFields ==
  TextFields \cup {"mrt_type", "dump_type", "peer_addr", "peer_afi", "peer_as", "afi", "parseNLRI"}

\* The Info has the batch's peer and these texts and family.
InfoSays(info, b, texts, family) ==
  /\ info = [f \in InfoFields |-> info[f]]
  /\ info.mrt_type = b.type /\ info.dump_type = b.kind
  /\ info.peer_addr = b.ip /\ info.peer_afi = b.afi /\ info.peer_as = b.as
  /\ \A f \in TextFields : info[f] = texts[f]
  /\ info.afi = family

HeadOfBatch(b) == HeadOf(b.type, b.kind, b.ip, b.afi, b.as)

\* The lines of one attribute, and of the first i.
LinesOfValue(b, i) ==
  IF HasFamily(b.values[i])
  THEN LinesOfRoutes(HeadOfBatch(b), b.values[i].nlri, b.values[i].afi,
                     SeenTexts(b.values, i, b.initial))
  ELSE << >>

LinesOfValues(b) == [i \in 1 .. Len(b.values) |-> LinesOfValue(b, i)]
LinesTo(b, i) == FlattenSeq(FirstOf(LinesOfValues(b), i))

TextsAtEnd(b) == SeenTexts(b.values, Len(b.values), b.initial)

LinesOfBatch(b) ==
  LinesTo(b, Len(b.values)) \o LinesOfRoutes(HeadOfBatch(b), b.routes, b.family, TextsAtEnd(b))

IsRoutes(routes) ==
  /\ IsList(routes)
  /\ \A i \in 1 .. Len(routes) : routes[i].class \in {"NLRIReachable", "NLRIUnReachable"}

IsBatch(b) ==
  /\ AreValues(b.values)
  /\ IsList(b.before) /\ IsList(b.later)
  /\ IsRoutes(b.routes)
  /\ \/ /\ b.closing.class = "UpdateRoutes"
        /\ b.family = IPv4
        /\ IsList(b.closing.node.withdrawnRoutes) /\ IsList(b.closing.node.nlriRoutes)
        /\ b.routes = b.closing.node.withdrawnRoutes \o b.closing.node.nlriRoutes
     \/ /\ b.closing.class = "OwnPrefix"
        /\ b.closing.node.class = "NLRIReachable"
        /\ b.family = FamilySeen(b.values, Len(b.values), b.initial)
        /\ b.routes = IF HasRoutes(b.values) THEN << >> ELSE <<b.closing.node>>

-----------------------------------------------------------------------------

\* A text of an Info is assigned.
LEMMA SetText ==
  ASSUME NEW info, NEW b, NEW old, NEW new, NEW family, InfoSays(info, b, old, family),
         NEW field \in TextFields, NEW x,
         \A f \in TextFields : new[f] = IF f = field THEN x ELSE old[f]
  PROVE  /\ InfoSays([info EXCEPT ![field] = x], b, new, family)
         /\ [info EXCEPT ![field] = x].parseNLRI = info.parseNLRI
<1> DEFINE after == [info EXCEPT ![field] = x]
<1>1. info = [f \in InfoFields |-> info[f]] /\ \A f \in TextFields : info[f] = old[f]
  BY DEF InfoSays
<1>2. /\ field \in InfoFields /\ field \notin InfoFields \ TextFields
      /\ TextFields \subseteq InfoFields
      /\ InfoFields \ TextFields = {"mrt_type", "dump_type", "peer_addr", "peer_afi", "peer_as",
                                    "afi", "parseNLRI"}
  BY DEF InfoFields, TextFields
<1>3. after = [f \in InfoFields |-> IF f = field THEN x ELSE info[f]]
  BY <1>1, <1>2
<1> HIDE DEF after
<1>4. \A f \in TextFields : after[f] = new[f]
  BY <1>1, <1>2, <1>3
<1>5. /\ after.mrt_type = info.mrt_type /\ after.dump_type = info.dump_type
      /\ after.peer_addr = info.peer_addr /\ after.peer_afi = info.peer_afi
      /\ after.peer_as = info.peer_as /\ after.afi = info.afi
      /\ after.parseNLRI = info.parseNLRI
  BY <1>2, <1>3
<1> QED
  BY <1>3, <1>4, <1>5 DEF InfoSays, after

\* The family of an Info is assigned.
LEMMA SetFamily ==
  ASSUME NEW info, NEW b, NEW texts, NEW family, InfoSays(info, b, texts, family), NEW x
  PROVE  /\ InfoSays([info EXCEPT !.afi = x], b, texts, x)
         /\ [info EXCEPT !.afi = x].parseNLRI = info.parseNLRI
<1> DEFINE after == [info EXCEPT !.afi = x]
<1>1. "afi" \in InfoFields /\ "afi" \notin TextFields /\ TextFields \subseteq InfoFields
      /\ {"mrt_type", "dump_type", "peer_addr", "peer_afi", "peer_as", "parseNLRI"}
           \subseteq InfoFields
  BY DEF InfoFields, TextFields
<1>2. after = [f \in InfoFields |-> IF f = "afi" THEN x ELSE info[f]]
  BY <1>1 DEF InfoSays
<1> HIDE DEF after
<1>3. after = [f \in InfoFields |-> after[f]] /\ after.afi = x
  BY <1>1, <1>2
<1>4. \A f \in TextFields : after[f] = info[f]
  BY <1>1, <1>2
<1>5. /\ after.mrt_type = info.mrt_type /\ after.dump_type = info.dump_type
      /\ after.peer_addr = info.peer_addr /\ after.peer_afi = info.peer_afi
      /\ after.peer_as = info.peer_as /\ after.parseNLRI = info.parseNLRI
  BY <1>1, <1>2
<1> QED
  BY <1>3, <1>4, <1>5 DEF InfoSays, after

\* Whether a route was announced is assigned.
LEMMA SetParsed ==
  ASSUME NEW info, NEW b, NEW texts, NEW family, InfoSays(info, b, texts, family), NEW x
  PROVE  /\ InfoSays([info EXCEPT !.parseNLRI = x], b, texts, family)
         /\ [info EXCEPT !.parseNLRI = x].parseNLRI = x
<1> DEFINE after == [info EXCEPT !.parseNLRI = x]
<1>1. "parseNLRI" \in InfoFields /\ "parseNLRI" \notin TextFields /\ TextFields \subseteq InfoFields
      /\ {"mrt_type", "dump_type", "peer_addr", "peer_afi", "peer_as", "afi"} \subseteq InfoFields
  BY DEF InfoFields, TextFields
<1>2. after = [f \in InfoFields |-> IF f = "parseNLRI" THEN x ELSE info[f]]
  BY <1>1 DEF InfoSays
<1> HIDE DEF after
<1>3. after = [f \in InfoFields |-> after[f]] /\ after.parseNLRI = x
  BY <1>1, <1>2
<1>4. \A f \in TextFields : after[f] = info[f]
  BY <1>1, <1>2
<1>5. /\ after.mrt_type = info.mrt_type /\ after.dump_type = info.dump_type
      /\ after.peer_addr = info.peer_addr /\ after.peer_afi = info.peer_afi
      /\ after.peer_as = info.peer_as /\ after.afi = info.afi
  BY <1>1, <1>2
<1> QED
  BY <1>3, <1>4, <1>5 DEF InfoSays, after

\* The fields of a line made of three parts.
LEMMA JoinedIs ==
  ASSUME NEW prefix, NEW head, NEW texts, NEW fields,
         fields = {"prefix"} \cup DOMAIN head \cup DOMAIN texts, "prefix" \notin DOMAIN head
  PROVE  /\ Joined(prefix, head, texts) = [f \in fields |-> Joined(prefix, head, texts)[f]]
         /\ Joined(prefix, head, texts)["prefix"] = prefix
         /\ \A f \in fields \ {"prefix"} : Joined(prefix, head, texts)[f] =
                                          IF f \in DOMAIN head THEN head[f] ELSE texts[f]
<1> DEFINE line == Joined(prefix, head, texts)
           value(f) == CASE f = "prefix" -> prefix
                         [] f \in DOMAIN head -> head[f]
                         [] OTHER -> texts[f]
<1>1. line = [f \in fields |-> value(f)]
  BY DEF Joined
<1>2. value("prefix") = prefix
  OBVIOUS
<1>3. ASSUME NEW f, f # "prefix" PROVE value(f) = IF f \in DOMAIN head THEN head[f] ELSE texts[f]
  BY <1>3
<1> HIDE DEF value, line
<1>4. "prefix" \in fields
  OBVIOUS
<1>5. \A f \in fields : line[f] = value(f)
  BY <1>1
<1>6. line = [f \in fields |-> line[f]]
  BY <1>1
<1> QED
  BY <1>2, <1>3, <1>4, <1>5, <1>6 DEF line

\* A line printed from the Info is one the record should have.
LEMMA AnnouncedIs ==
  ASSUME NEW info, NEW b, NEW texts, NEW family, NEW prefix, InfoSays(info, b, texts, family),
         DOMAIN texts = TextFields
  PROVE  Announced(info, prefix) = Joined(Text(prefix, family), HeadOfBatch(b), texts)
<1> DEFINE head == HeadOfBatch(b)
           fields == {"prefix", "type", "kind", "peer", "peer_as"} \cup TextFields
           line == Announced(info, prefix)
           other == Joined(Text(prefix, family), head, texts)
<1>1. /\ DOMAIN head = {"type", "kind", "peer", "peer_as"}
      /\ head.type = info.mrt_type /\ head.kind = info.dump_type
      /\ head.peer = Text(info.peer_addr, info.peer_afi) /\ head.peer_as = info.peer_as
  BY DEF InfoSays, HeadOf, HeadOfBatch
<1>2. \A f \in TextFields : info[f] = texts[f]
  BY DEF InfoSays
<1>3. line = [f \in fields |-> line[f]]
  BY DEF Announced, TextFields
<1>4. /\ line.prefix = Text(prefix, info.afi) /\ line.type = info.mrt_type
      /\ line.kind = info.dump_type /\ line.peer = Text(info.peer_addr, info.peer_afi)
      /\ line.peer_as = info.peer_as
      /\ \A f \in TextFields : line[f] = info[f]
  BY DEF Announced, TextFields
<1>5. info.afi = family
  BY DEF InfoSays
<1> HIDE DEF head, line
<1>6. {"prefix"} \cup DOMAIN head \cup DOMAIN texts = fields
  BY <1>1
<1>7. /\ other = [f \in fields |-> other[f]]
      /\ \A f \in fields : other[f] = IF f = "prefix" THEN Text(prefix, family)
                                      ELSE IF f \in DOMAIN head THEN head[f] ELSE texts[f]
  <2> HIDE DEF fields
  <2> QED
    BY <1>1, <1>6, JoinedIs
<1>8. ASSUME NEW f \in fields PROVE line[f] = other[f]
  BY <1>1, <1>2, <1>4, <1>5, <1>7 DEF TextFields
<1>9. line = other
  <2> HIDE DEF other, fields
  <2> QED
    BY <1>3, <1>7, <1>8
<1> QED
  BY <1>9 DEF line, head

\* And what a line of a withdrawn route says.
LEMMA WithdrawnIs ==
  ASSUME NEW info, NEW b, NEW texts, NEW family, NEW prefix, InfoSays(info, b, texts, family)
  PROVE  Withdrawn(info, prefix)
           = Joined(Text(prefix, family), [HeadOfBatch(b) EXCEPT !.kind = "W"], << >>)
<1> DEFINE head == [HeadOfBatch(b) EXCEPT !.kind = "W"]
           fields == {"prefix", "type", "kind", "peer", "peer_as"}
           line == Withdrawn(info, prefix)
           other == Joined(Text(prefix, family), head, << >>)
<1>1. /\ DOMAIN head = {"type", "kind", "peer", "peer_as"}
      /\ head.type = info.mrt_type /\ head.kind = "W"
      /\ head.peer = Text(info.peer_addr, info.peer_afi) /\ head.peer_as = info.peer_as
  BY DEF InfoSays, HeadOf, HeadOfBatch
<1>2. line = [f \in fields |-> line[f]]
  BY DEF Withdrawn
<1>3. /\ line.prefix = Text(prefix, info.afi) /\ line.type = info.mrt_type
      /\ line.kind = "W" /\ line.peer = Text(info.peer_addr, info.peer_afi)
      /\ line.peer_as = info.peer_as
  BY DEF Withdrawn
<1>4. info.afi = family
  BY DEF InfoSays
<1> HIDE DEF head, line
<1>5. {"prefix"} \cup DOMAIN head \cup DOMAIN << >> = fields
  BY <1>1
<1>6. /\ other = [f \in fields |-> other[f]]
      /\ \A f \in fields : other[f] = IF f = "prefix" THEN Text(prefix, family)
                                      ELSE IF f \in DOMAIN head THEN head[f] ELSE << >>[f]
  <2> DEFINE none == << >>
  <2>1. {"prefix"} \cup DOMAIN head \cup DOMAIN none = fields
    BY <1>5
  <2> HIDE DEF fields, none
  <2>2. /\ Joined(Text(prefix, family), head, none)
              = [f \in fields |-> Joined(Text(prefix, family), head, none)[f]]
        /\ Joined(Text(prefix, family), head, none)["prefix"] = Text(prefix, family)
        /\ \A f \in fields \ {"prefix"} : Joined(Text(prefix, family), head, none)[f] =
                                          IF f \in DOMAIN head THEN head[f] ELSE none[f]
    BY <1>1, <2>1, JoinedIs
  <2> QED
    BY <2>2 DEF none
<1>7. ASSUME NEW f \in fields PROVE line[f] = other[f]
  BY <1>1, <1>3, <1>4, <1>6
<1>8. line = other
  <2> HIDE DEF other, fields
  <2> QED
    BY <1>2, <1>6, <1>7
<1> QED
  BY <1>8 DEF line, head

\* The lines of routes, one for each.
LEMMA LinesOfRoutesAre ==
  ASSUME NEW head, NEW routes, NEW family, NEW texts, IsList(routes)
  PROVE  /\ IsList(LinesOfRoutes(head, routes, family, texts))
         /\ Len(LinesOfRoutes(head, routes, family, texts)) = Len(routes)
         /\ \A i \in 1 .. Len(routes) :
              LinesOfRoutes(head, routes, family, texts)[i] =
                IF routes[i].class = "NLRIReachable"
                THEN Joined(Text(routes[i].prefix, family), head, texts)
                ELSE Joined(Text(routes[i].prefix, family), [head EXCEPT !.kind = "W"], << >>)
<1> DEFINE s == LinesOfRoutes(head, routes, family, texts)
<1>1. Len(routes) \in Nat /\ DOMAIN routes = 1 .. Len(routes)
  BY ListFacts
<1>2. s = [i \in 1 .. Len(routes) |-> s[i]]
  BY <1>1 DEF LinesOfRoutes
<1> HIDE DEF s
<1>3. IsList(s) /\ Len(s) = Len(routes)
  BY <1>1, <1>2, FunctionIsList
<1> QED
  BY <1>1, <1>3 DEF s, LinesOfRoutes

\* The lines of each attribute are a list.
LEMMA LinesOfValuesAre ==
  ASSUME NEW b, IsBatch(b)
  PROVE  /\ IsListOfLists(LinesOfValues(b))
         /\ Len(LinesOfValues(b)) = Len(b.values)
         /\ \A i \in 1 .. Len(b.values) : LinesOfValues(b)[i] = LinesOfValue(b, i)
<1> DEFINE s == LinesOfValues(b)
           n == Len(b.values)
<1>1. n \in Nat /\ IsList(b.values) /\ \A i \in 1 .. n : IsValue(b.values[i].class, b.values[i])
  BY ListFacts, ElementOfList DEF IsBatch, AreValues
<1>2. s = [i \in 1 .. n |-> s[i]] /\ \A i \in 1 .. n : s[i] = LinesOfValue(b, i)
  BY DEF LinesOfValues
<1> HIDE DEF s
<1>3. IsList(s) /\ Len(s) = n
  <2> HIDE DEF n
  <2> QED
    BY <1>1, <1>2, FunctionIsList
<1>4. ASSUME NEW i \in 1 .. n PROVE IsList(s[i])
  <2>1. s[i] = LinesOfValue(b, i)
    BY <1>2
  <2>2. CASE HasFamily(b.values[i])
    <3>1. IsValue(b.values[i].class, b.values[i])
      BY <1>1
    <3>2. IsList(b.values[i].nlri)
      BY <2>2, <3>1 DEF HasFamily, MPClasses, IsValue, AreRoutes
    <3>3. IsList(LinesOfRoutes(HeadOfBatch(b), b.values[i].nlri, b.values[i].afi,
                               SeenTexts(b.values, i, b.initial)))
      BY <3>2, LinesOfRoutesAre
    <3> QED
      BY <2>1, <2>2, <3>3 DEF LinesOfValue
  <2>3. CASE ~HasFamily(b.values[i])
    BY <2>1, <2>3, EmptyIsList DEF LinesOfValue
  <2> QED
    BY <2>2, <2>3
<1> QED
  BY <1>2, <1>3, <1>4 DEF s, IsListOfLists

\* The lines of one attribute more come at the end.
LEMMA LinesToAre ==
  ASSUME NEW b, IsBatch(b), NEW i \in 0 .. Len(b.values)
  PROVE  /\ IsList(LinesTo(b, i))
         /\ i = 0 => LinesTo(b, i) = << >>
         /\ i < Len(b.values) =>
              /\ IsList(LinesOfValue(b, i + 1))
              /\ LinesTo(b, i + 1) = LinesTo(b, i) \o LinesOfValue(b, i + 1)
<1> DEFINE s == LinesOfValues(b)
<1>1. /\ IsListOfLists(s) /\ IsList(s) /\ Len(s) = Len(b.values) /\ Len(b.values) \in Nat
      /\ \A j \in 1 .. Len(b.values) : s[j] = LinesOfValue(b, j) /\ IsList(s[j])
  BY LinesOfValuesAre, ListFacts DEF IsListOfLists
<1> HIDE DEF s
<1>2. ASSUME NEW j \in 0 .. Len(b.values)
      PROVE  IsListOfLists(FirstOf(s, j)) /\ IsList(FirstOf(s, j))
  <2>1. \A m \in 1 .. j : FirstOf(s, j)[m] = s[m] /\ m \in 1 .. Len(b.values)
    BY <1>1 DEF FirstOf
  <2> QED
    BY <1>1, <2>1, FirstOfList DEF IsListOfLists
<1>3. IsList(LinesTo(b, i))
  BY <1>2, FlattenIsList DEF LinesTo, s
<1>4. i = 0 => LinesTo(b, i) = << >>
  BY <1>1, FirstOfList, FlattenEmpty DEF LinesTo, s
<1>5. ASSUME i < Len(b.values)
      PROVE  /\ IsList(LinesOfValue(b, i + 1))
             /\ LinesTo(b, i + 1) = LinesTo(b, i) \o LinesOfValue(b, i + 1)
  <2>1. s[i + 1] = LinesOfValue(b, i + 1) /\ IsList(s[i + 1])
    BY <1>1, <1>5
  <2>2. FirstOf(s, i + 1) = Append(FirstOf(s, i), s[i + 1])
    BY <1>1, <1>5, FirstOfList
  <2> QED
    BY <1>2, <2>1, <2>2, FlattenAppend DEF LinesTo, s
<1> QED
  BY <1>3, <1>4, <1>5

-----------------------------------------------------------------------------
(* What a step may be, by what lies on top of the stack                    *)

\* A visit that AsciiBGPVisitor inherits.
Inherited ==
  /\ Push(Accepts(Me, Parts("GJVoidDepthFirst", Top.class, Top.node), Top.param))
  /\ UNCHANGED <<message, program, infos, printed>>

\* A visit of AsciiBGPVisitor as its base class has it.
LEMMA InheritedIs ==
  ASSUME NextGeneric, UNCHANGED <<ascii, program, elements, crashed>>, Top.visitor = Me
  PROVE  Inherited /\ Top.class \notin Overridden(Me)
<1>1. DerivedFrom(Me) = "GJVoidDepthFirst" /\ HandsDown("GJVoidDepthFirst")
  BY DEF DerivedFrom, Me, HandsDown
<1>2. ASSUME NEW generic, NEW classes, Visit(generic, classes),
             generic \in {"DepthFirstVisitor", "GJNoArguDepthFirst", "GJDepthFirst"}
      PROVE  FALSE
  BY <1>1, <1>2 DEF Visit
<1>3. ASSUME NEW classes, Visit("GJVoidDepthFirst", classes)
      PROVE  Inherited /\ Top.class \notin Overridden(Me)
  BY <1>1, <1>3 DEF Visit, Inherited, ascii
<1> QED
  BY <1>2, <1>3 DEF NextGeneric,
    DepthFirstVisitorRecord, DepthFirstVisitorMessage, DepthFirstVisitorValue, DepthFirstVisitorLeaf,
    GJVoidDepthFirstRecord, GJVoidDepthFirstMessage, GJVoidDepthFirstValue, GJVoidDepthFirstLeaf,
    GJNoArguDepthFirstRecord, GJNoArguDepthFirstMessage, GJNoArguDepthFirstValue,
    GJNoArguDepthFirstLeaf, GJDepthFirstRecord, GJDepthFirstMessage, GJDepthFirstValue,
    GJDepthFirstLeaf

\* The classes AsciiBGPVisitor has a visit() for, and the rests of its visits.
MyClasses == Overridden(Me) \cup {"RibEntry", "OwnPrefix", "UpdateRoutes"}

\* The classes AsciiBGPVisitor treats itself, by name.
LEMMA MyClassesAre ==
  MyClasses =
    {"MRTTblDump", "MRTTblDumpV2RibHeader", "RibEntry", "OwnPrefix", "BGPOpen", "BGPUpdate",
     "UpdateRoutes", "AttributeTypeMPReachNLRI", "AttributeTypeMPUnreachNLRI", "NLRIReachable",
     "NLRIUnReachable"} \cup PlainClasses
  BY DEF Overridden, Me, MyClasses, PlainClasses

\* An action of AsciiBGPVisitor for a class.
MyAction(class) ==
  \/ class = "MRTTblDump" /\ BGPTblDump
  \/ class = "MRTTblDumpV2RibHeader" /\ BGPRibHeader
  \/ class = "RibEntry" /\ BGPRibEntry
  \/ class = "OwnPrefix" /\ BGPOwnPrefix
  \/ class = "BGPOpen" /\ VisitOpen
  \/ class = "BGPUpdate" /\ VisitUpdate
  \/ class = "UpdateRoutes" /\ VisitUpdateRoutes
  \/ class = "AttributeTypeMPReachNLRI" /\ MPReach
  \/ class = "AttributeTypeMPUnreachNLRI" /\ MPUnreach
  \/ class \in PlainClasses /\ PlainAttribute
  \/ class = "NLRIReachable" /\ Reachable
  \/ class = "NLRIUnReachable" /\ UnReachable

\* A step when a frame of AsciiBGPVisitor is on top.
LEMMA MyStepIs ==
  ASSUME Next, stack # << >>, Top.visitor = Me
  PROVE  /\ message' = message /\ program' = program
         /\ \/ Inherited /\ Top.class \notin MyClasses
            \/ MyAction(Top.class) /\ Top.class \in MyClasses
<1>1. Me # "AsciiVisitor" /\ Me # "mrt2xml" /\ Me # "mrt2xml -B"
  BY DEF Me
<1>2. ~DumpAscii /\ ~DumpXml /\ ~Stop
  BY <1>1 DEF DumpAscii, DumpXml, Dump, Visiting, Stop, Finished
<1>3. CASE NextGeneric /\ UNCHANGED <<ascii, program, elements, crashed>>
  <2>1. Inherited /\ Top.class \notin Overridden(Me)
    BY <1>3, InheritedIs
  <2>2. Top.class \in Records \cup BGPMessages \cup AttributeValues \cup Leaves
    BY <1>3 DEF NextGeneric, Visit,
      DepthFirstVisitorRecord, DepthFirstVisitorMessage, DepthFirstVisitorValue,
      DepthFirstVisitorLeaf, GJVoidDepthFirstRecord, GJVoidDepthFirstMessage,
      GJVoidDepthFirstValue, GJVoidDepthFirstLeaf, GJNoArguDepthFirstRecord,
      GJNoArguDepthFirstMessage, GJNoArguDepthFirstValue, GJNoArguDepthFirstLeaf,
      GJDepthFirstRecord, GJDepthFirstMessage, GJDepthFirstValue, GJDepthFirstLeaf
  <2>3. \A c \in {"UpdateRoutes", "OwnPrefix", "RibEntry"} :
          c \notin Records \cup BGPMessages \cup AttributeValues \cup Leaves
    BY BaseClasses DEF Records, RibRecords, BGPMessages, AttributeValues, SimpleValues,
      SegmentClasses, Leaves, RouteClasses, ParameterClasses
  <2> HIDE DEF Top
  <2> QED
    BY <2>1, <2>2, <2>3 DEF Inherited, MyClasses
<1>4. CASE NextAscii /\ UNCHANGED <<program, elements, crashed>>
  <2>1. ~VisitMessage /\ ~VisitStateChange /\ ~VisitTblDump /\ ~VisitRibHeader
    BY <1>1 DEF VisitMessage, VisitStateChange, VisitTblDump, VisitRibHeader, Visiting
  <2>2. MyAction(Top.class)
    <3>1. /\ BGPTblDump => Top.class = "MRTTblDump"
          /\ BGPRibHeader => Top.class = "MRTTblDumpV2RibHeader"
          /\ BGPRibEntry => Top.class = "RibEntry"
          /\ BGPOwnPrefix => Top.class = "OwnPrefix"
          /\ VisitOpen => Top.class = "BGPOpen"
          /\ VisitUpdate => Top.class = "BGPUpdate"
          /\ VisitUpdateRoutes => Top.class = "UpdateRoutes"
      BY DEF BGPTblDump, BGPRibHeader, BGPRibEntry, BGPOwnPrefix, VisitOpen, VisitUpdate,
        VisitUpdateRoutes, Visiting
    <3>2. /\ MPReach => Top.class = "AttributeTypeMPReachNLRI"
          /\ MPUnreach => Top.class = "AttributeTypeMPUnreachNLRI"
          /\ PlainAttribute => Top.class \in PlainClasses
          /\ Reachable => Top.class = "NLRIReachable"
          /\ UnReachable => Top.class = "NLRIUnReachable"
      BY DEF MPReach, MPUnreach, PlainAttribute, Reachable, UnReachable, Visiting
    <3> QED
      BY <1>4, <2>1, <3>1, <3>2 DEF NextAscii, MyAction
  <2>3. message' = message
    BY <2>2 DEF MyAction, BGPTblDump, BGPRibHeader, BGPRibEntry, BGPOwnPrefix, VisitOpen,
      VisitUpdate, VisitUpdateRoutes, MPReach, MPUnreach, PlainAttribute, Reachable, UnReachable
  <2>4. Top.class \in MyClasses
    <3> HIDE DEF Top
    <3> QED
      BY <2>2, MyClassesAre DEF MyAction
  <2> QED
    BY <1>4, <2>2, <2>3, <2>4
<1> QED
  BY <1>2, <1>3, <1>4 DEF Next

\* The frame on top, and what stays after it.
LEMMA TopOf ==
  ASSUME NEW f, NEW t, IsList(t), stack = <<f>> \o t
  PROVE  stack # << >> /\ Top = f /\ Tail(stack) = t
BY TailOfConcat DEF Top

\* What a step does with a frame of AsciiBGPVisitor of each class.
LEMMA StepOnFrame ==
  ASSUME Next, NEW part, NEW p, NEW t, IsList(t), stack = <<FrameOf(part, p)>> \o t
  PROVE  /\ message' = message /\ program' = program
         /\ part.class \notin MyClasses =>
              /\ stack' = Accepts(Me, Parts("GJVoidDepthFirst", part.class, part.node), p) \o t
              /\ UNCHANGED <<infos, printed>>
         /\ part.class \in MyClasses =>
              MyAction(part.class) /\ Top = FrameOf(part, p) /\ Tail(stack) = t
<1>1. stack # << >> /\ Top = FrameOf(part, p) /\ Tail(stack) = t
  BY TopOf
<1> QED
  BY <1>1, MyStepIs DEF Inherited, Push, FrameOf

-----------------------------------------------------------------------------
(* The routes of a batch                                                   *)

\* Only the Info with this index is changed.
OthersKept(p) ==
  /\ IsList(infos') /\ Len(infos') = Len(infos)
  /\ \A q \in 1 .. Len(infos) : q # p => infos'[q] = infos[q]

\* The Info a batch fills in.
InfoAt(b, texts, family, parsed) ==
  /\ IsList(infos) /\ b.param \in 1 .. Len(infos)
  /\ InfoSays(infos[b.param], b, texts, family)
  /\ infos[b.param].parseNLRI = parsed

\* A list of routes of which k are visited, with the frames after it and the lines before it.
RoutePhase(b, routes, k, after, pre, texts, family, parsed) ==
  /\ stack = Accepts(Me, After(Each(routes), k), b.param) \o after
  /\ printed = pre \o FirstOf(LinesOfRoutes(HeadOfBatch(b), routes, family, texts), k)
  /\ InfoAt(b, texts, family, parsed \/ \E m \in 1 .. k : routes[m].class = "NLRIReachable")

\* A route is visited, and has its line.
LEMMA RouteStep ==
  ASSUME NEW b, NEW routes, NEW after, NEW pre, NEW texts, NEW family, NEW parsed \in BOOLEAN,
         IsRoutes(routes), IsList(after), IsList(pre), DOMAIN texts = TextFields,
         NEW k \in 0 .. Len(routes), k < Len(routes),
         RoutePhase(b, routes, k, after, pre, texts, family, parsed), Next
  PROVE  /\ RoutePhase(b, routes, k + 1, after, pre, texts, family, parsed)'
         /\ OthersKept(b.param) /\ message' = message /\ program' = program
<1> DEFINE p == b.param
           lines == LinesOfRoutes(HeadOfBatch(b), routes, family, texts)
           frames == Accepts(Me, After(Each(routes), k + 1), p)
           r == routes[k + 1]
           was == parsed \/ \E m \in 1 .. k : routes[m].class = "NLRIReachable"
           is == parsed \/ \E m \in 1 .. k + 1 : routes[m].class = "NLRIReachable"
<1>1. /\ IsList(routes) /\ Len(routes) \in Nat /\ k \in Nat /\ k + 1 \in 1 .. Len(routes)
      /\ r.class \in {"NLRIReachable", "NLRIUnReachable"}
  BY ListFacts DEF IsRoutes
<1>2. /\ IsList(Each(routes)) /\ Len(Each(routes)) = Len(routes)
      /\ Each(routes)[k + 1].class = r.class /\ Each(routes)[k + 1].node = r
  BY <1>1, EachIs
<1>3. stack = <<FrameOf(Each(routes)[k + 1], p)>> \o (frames \o after) /\ IsList(frames \o after)
  <2>1. /\ IsList(frames)
        /\ Accepts(Me, After(Each(routes), k), p) = <<FrameOf(Each(routes)[k + 1], p)>> \o frames
    BY <1>1, <1>2, AcceptsAfter
  <2> HIDE DEF frames
  <2> DEFINE u == <<FrameOf(Each(routes)[k + 1], p)>>
  <2>2. IsList(u)
    BY SingleList
  <2> HIDE DEF u
  <2>3. IsList(frames)
    BY <2>1
  <2>4. (u \o frames) \o after = u \o (frames \o after)
    BY SMTT(60), <2>2, <2>3, ConcatAssoc
  <2>5. IsList(frames \o after)
    BY <2>1, ConcatList
  <2> QED
    BY <2>1, <2>4, <2>5 DEF u, RoutePhase
<1> DEFINE t == frames \o after
           part == Each(routes)[k + 1]
<1>4. /\ message' = message /\ program' = program
      /\ MyAction(part.class) /\ Top = FrameOf(part, p) /\ Tail(stack) = t
  <2>1. part.class \in MyClasses
    BY <1>1, <1>2, MyClassesAre
  <2> HIDE DEF t, part
  <2>2. stack = <<FrameOf(part, p)>> \o t /\ IsList(t)
    BY <1>3 DEF t, part
  <2> QED
    BY <2>1, <2>2, StepOnFrame
<1>5. Top.class = r.class /\ Top.node = r /\ Top.param = p
  BY <1>2, <1>4 DEF FrameOf
<1>6. /\ IsList(infos) /\ p \in 1 .. Len(infos) /\ InfoSays(infos[p], b, texts, family)
      /\ infos[p].parseNLRI = was /\ Len(infos) \in Nat /\ DOMAIN infos = 1 .. Len(infos)
  BY ListFacts DEF RoutePhase, InfoAt
<1>7. /\ IsList(lines) /\ Len(lines) = Len(routes)
      /\ lines[k + 1] = IF r.class = "NLRIReachable"
                        THEN Joined(Text(r.prefix, family), HeadOfBatch(b), texts)
                        ELSE Joined(Text(r.prefix, family),
                                    [HeadOfBatch(b) EXCEPT !.kind = "W"], << >>)
  BY <1>1, LinesOfRoutesAre
<1>8. printed = pre \o FirstOf(lines, k)
  BY DEF RoutePhase
<1> HIDE DEF lines, t, part, frames, r, was, is
<1>9. ASSUME NEW line, line = lines[k + 1], printed' = Append(printed, line)
      PROVE  printed' = pre \o FirstOf(lines, k + 1)
  <2> DEFINE w == FirstOf(lines, k)
  <2>1. IsList(w) /\ FirstOf(lines, k + 1) = Append(w, line)
    BY <1>1, <1>7, <1>9, FirstOfList
  <2>2. printed = pre \o w
    BY <1>8
  <2> HIDE DEF w
  <2>3. IsList(pre \o w) /\ IsList(<<line>>)
    BY <2>1, ConcatList, SingleList
  <2>4. Append(pre \o w, line) = (pre \o w) \o <<line>> /\ Append(w, line) = w \o <<line>>
    BY <2>1, <2>3, AppendList
  <2>5. (pre \o w) \o <<line>> = pre \o (w \o <<line>>)
    <3> DEFINE x == <<line>>
    <3>1. IsList(x)
      BY <2>3
    <3> HIDE DEF x
    <3> QED
      BY SMTT(60), <2>1, <3>1, ConcatAssoc DEF x
  <2> QED
    BY <1>9, <2>1, <2>2, <2>4, <2>5
<1>10. ASSUME stack' = << >> \o Tail(stack) PROVE stack' = frames \o after
  BY <1>3, <1>4, <1>10, ConcatEmpty DEF t
<1>11. CASE r.class = "NLRIReachable"
  <2>1. Reachable
    BY <1>2, <1>4, <1>11 DEF part, PlainClasses, MyAction
  <2>2. /\ printed' = Append(printed, Announced(infos[p], r.prefix))
        /\ infos' = [infos EXCEPT ![p].parseNLRI = TRUE]
        /\ stack' = << >> \o Tail(stack)
    BY <1>5, <2>1 DEF Reachable, Info, Push
  <2>3. Announced(infos[p], r.prefix) = lines[k + 1]
    BY <1>6, <1>7, <1>11, AnnouncedIs
  <2>4. printed' = pre \o FirstOf(lines, k + 1)
    BY <1>9, <2>2, <2>3
  <2>5. /\ InfoSays([infos[p] EXCEPT !.parseNLRI = TRUE], b, texts, family)
        /\ [infos[p] EXCEPT !.parseNLRI = TRUE].parseNLRI = TRUE
    BY <1>6, SetParsed
  <2>6. infos' = [infos EXCEPT ![p] = [infos[p] EXCEPT !.parseNLRI = TRUE]]
    BY <2>2
  <2>7. /\ IsList(infos') /\ Len(infos') = Len(infos)
        /\ infos'[p] = [infos[p] EXCEPT !.parseNLRI = TRUE]
        /\ \A q \in 1 .. Len(infos) : q # p => infos'[q] = infos[q]
    <3> DEFINE x == [infos[p] EXCEPT !.parseNLRI = TRUE]
    <3> HIDE DEF x
    <3>1. infos' = [infos EXCEPT ![p] = x]
      BY <2>6 DEF x
    <3>2. IsList(infos') /\ Len(infos') = Len(infos)
      BY <1>6, <3>1, ExceptList
    <3> QED
      BY <1>6, <3>1, <3>2 DEF x
  <2>8. is = TRUE
    BY <1>1, <1>11 DEF r, is
  <2>9. InfoAt(b, texts, family, is)'
    BY <1>6, <2>5, <2>7, <2>8 DEF InfoAt, is
  <2> QED
    BY <1>4, <1>10, <2>2, <2>4, <2>7, <2>9 DEF RoutePhase, OthersKept, frames, lines, is
<1>12. CASE r.class = "NLRIUnReachable"
  <2>1. UnReachable
    BY <1>2, <1>4, <1>12 DEF part, PlainClasses, MyAction
  <2>2. /\ printed' = Append(printed, Withdrawn(infos[p], r.prefix))
        /\ infos' = infos
        /\ stack' = << >> \o Tail(stack)
    BY <1>5, <2>1 DEF UnReachable, Info, Push
  <2>3. Withdrawn(infos[p], r.prefix) = lines[k + 1]
    BY <1>6, <1>7, <1>12, WithdrawnIs
  <2>4. printed' = pre \o FirstOf(lines, k + 1)
    BY <1>9, <2>2, <2>3
  <2>5. is = was
    BY <1>1, <1>12 DEF r, is, was
  <2>6. InfoAt(b, texts, family, is)'
    BY <1>6, <2>2, <2>5 DEF InfoAt, is
  <2> QED
    BY <1>4, <1>6, <1>10, <2>2, <2>4, <2>6 DEF RoutePhase, OthersKept, frames, lines, is
<1> QED
  BY <1>1, <1>11, <1>12 DEF r

\* Routes have a line each.
LEMMA LinesLength ==
  ASSUME NEW head, NEW routes, NEW family, NEW texts, IsList(routes)
  PROVE  Len(LinesOfRoutes(head, routes, family, texts)) = Len(routes)
<1> DEFINE s == LinesOfRoutes(head, routes, family, texts)
<1>1. Len(routes) \in Nat /\ DOMAIN routes = 1 .. Len(routes)
  BY ListFacts
<1>2. s = [i \in 1 .. Len(routes) |-> s[i]]
  BY <1>1 DEF LinesOfRoutes
<1> HIDE DEF s
<1>3. Len(s) = Len(routes)
  BY <1>1, <1>2, FunctionIsList
<1> QED
  BY <1>3 DEF s

\* Nothing is left after the last part.
LEMMA AcceptsEnd ==
  ASSUME NEW parts, IsList(parts), NEW param, NEW k, k = Len(parts)
  PROVE  Accepts(Me, After(parts, k), param) = << >>
<1>1. Len(parts) \in Nat
  BY ListFacts
<1>2. After(parts, k) = << >>
  <2>1. k \in 0 .. Len(parts)
    BY <1>1
  <2> QED
    BY <2>1, AfterList
<1> DEFINE none == << >>
<1>3. IsList(none) /\ Len(none) = 0
  BY EmptyIsList
<1> HIDE DEF none
<1>4. IsList(Accepts(Me, none, param)) /\ Len(Accepts(Me, none, param)) = 0
  BY <1>3, AcceptsAre
<1> QED
  BY <1>2, <1>4, ListFacts DEF none

\* Before the first route, and after the last.
LEMMA RoutesBegin ==
  ASSUME NEW b, NEW routes, NEW after, NEW pre, NEW texts, NEW family, NEW parsed \in BOOLEAN,
         IsRoutes(routes), IsList(pre)
  PROVE  /\ Accepts(Me, After(Each(routes), 0), b.param) = Accepts(Me, Each(routes), b.param)
         /\ pre \o FirstOf(LinesOfRoutes(HeadOfBatch(b), routes, family, texts), 0) = pre
         /\ parsed = (parsed \/ \E m \in 1 .. 0 : routes[m].class = "NLRIReachable")
<1> DEFINE lines == LinesOfRoutes(HeadOfBatch(b), routes, family, texts)
<1>1. IsList(routes) /\ Len(routes) \in Nat
  BY ListFacts DEF IsRoutes
<1>2. IsList(Each(routes)) /\ Len(Each(routes)) = Len(routes) /\ 0 \in 0 .. Len(routes)
  BY <1>1, EachIs
<1>3. IsList(lines) /\ Len(lines) = Len(routes)
  <2>1. Len(lines) = Len(routes)
    BY <1>1, LinesLength
  <2> QED
    BY <1>1, <2>1, LinesOfRoutesAre
<1> HIDE DEF lines
<1>4. Accepts(Me, After(Each(routes), 0), b.param) = Accepts(Me, Each(routes), b.param)
  BY ZenonT(60), <1>2, AcceptsAfter
<1>5. pre \o FirstOf(lines, 0) = pre
  BY <1>2, <1>3, ConcatEmpty, FirstOfList
<1> QED
  BY <1>4, <1>5 DEF lines

\* All routes are visited.
LEMMA RoutesEnd ==
  ASSUME NEW b, NEW routes, NEW after, NEW pre, NEW texts, NEW family, NEW parsed \in BOOLEAN,
         IsRoutes(routes), IsList(after),
         RoutePhase(b, routes, Len(routes), after, pre, texts, family, parsed)
  PROVE  /\ stack = after
         /\ printed = pre \o LinesOfRoutes(HeadOfBatch(b), routes, family, texts)
         /\ InfoAt(b, texts, family,
                   parsed \/ \E m \in 1 .. Len(routes) : routes[m].class = "NLRIReachable")
<1> DEFINE lines == LinesOfRoutes(HeadOfBatch(b), routes, family, texts)
<1>1. IsList(routes) /\ Len(routes) \in Nat /\ Len(routes) \in 0 .. Len(routes)
  BY ListFacts DEF IsRoutes
<1>2. IsList(Each(routes)) /\ Len(Each(routes)) = Len(routes)
  BY <1>1, EachIs
<1>3. IsList(lines) /\ Len(lines) = Len(routes)
  <2>1. Len(lines) = Len(routes)
    BY <1>1, LinesLength
  <2> QED
    BY <1>1, <2>1, LinesOfRoutesAre
<1> HIDE DEF lines
<1>4. FirstOf(lines, Len(routes)) = lines
  BY <1>1, <1>3, FirstOfList
<1>5. Accepts(Me, After(Each(routes), Len(routes)), b.param) = << >>
  <2> DEFINE parts == Each(routes)
             n == Len(routes)
  <2>1. IsList(parts) /\ Len(parts) = n /\ n \in 0 .. Len(parts)
    BY <1>1, <1>2
  <2> HIDE DEF parts, n
  <2>2. Accepts(Me, After(parts, n), b.param) = << >>
    BY <2>1, AcceptsEnd
  <2> QED
    BY <2>2 DEF parts, n
<1>6. stack = after
  BY <1>5, ConcatEmpty DEF RoutePhase
<1> QED
  BY <1>4, <1>6 DEF RoutePhase, lines

-----------------------------------------------------------------------------
(* Where a batch is                                                        *)

Rest(b) == <<FrameOf(b.closing, b.param)>> \o b.later

\* What is still to be visited after the first i attributes.
AttributesFrom(b, i) == Accepts(Me, After(Attributes(b.values), i), b.param) \o Rest(b)

TextsTo(b, i) == SeenTexts(b.values, i, b.initial)
FamilyTo(b, i) == FamilySeen(b.values, i, b.initial)

\* Whether one of the first i attributes brought routes.
Parsed(b, i) ==
  \E j \in 1 .. i : /\ b.values[j].class = "AttributeTypeMPReachNLRI"
                    /\ b.values[j].afi # 0 /\ b.values[j].nlri # << >>

LinesBefore(b, i) == b.before \o LinesTo(b, i)

InfoAfter(b, i) == InfoAt(b, TextsTo(b, i), FamilyTo(b, i), Parsed(b, i))

\* After i attributes; in the next one; in its routes; and in those that come last.
AttributesPhase(b, i) ==
  stack = AttributesFrom(b, i) /\ printed = LinesBefore(b, i) /\ InfoAfter(b, i)

ValuePart(b, i) == As(b.values[i].class, b.values[i])

ValuePhase(b, i) ==
  /\ stack = <<FrameOf(ValuePart(b, i + 1), b.param)>> \o AttributesFrom(b, i + 1)
  /\ printed = LinesBefore(b, i) /\ InfoAfter(b, i)

ValueRoutesPhase(b, i, k) ==
  RoutePhase(b, b.values[i].nlri, k, AttributesFrom(b, i), LinesBefore(b, i - 1),
             TextsTo(b, i), b.values[i].afi, Parsed(b, i - 1))

ClosingPhase(b, k) ==
  RoutePhase(b, b.routes, k, b.later, LinesBefore(b, Len(b.values)),
             TextsAtEnd(b), b.family, Parsed(b, Len(b.values)))

BatchDone(b) == stack = b.later /\ printed = b.before \o LinesOfBatch(b)

\* The same, between two phases: at the end of one or at the start of the next.
UnderWay(b) ==
  \/ \E i \in 0 .. Len(b.values) : AttributesPhase(b, i)
  \/ \E i \in 0 .. Len(b.values) : i < Len(b.values) /\ ValuePhase(b, i)
  \/ \E i \in 1 .. Len(b.values) :
       /\ HasFamily(b.values[i])
       /\ \E k \in 0 .. Len(b.values[i].nlri) : ValueRoutesPhase(b, i, k)
  \/ \E k \in 0 .. Len(b.routes) : ClosingPhase(b, k)

-----------------------------------------------------------------------------

\* One element of a list replaced.
LEMMA Replaced ==
  ASSUME NEW s, IsList(s), NEW p \in 1 .. Len(s), NEW x, NEW t, t = [s EXCEPT ![p] = x]
  PROVE  /\ IsList(t) /\ Len(t) = Len(s) /\ t[p] = x
         /\ \A q \in 1 .. Len(s) : q # p => t[q] = s[q]
  BY ListFacts, ExceptList

\* The frame of one part.
LEMMA AcceptsOne ==
  ASSUME NEW part, NEW p
  PROVE  Accepts(Me, <<part>>, p) = <<FrameOf(part, p)>>
<1> DEFINE s == <<part>>
           t == <<FrameOf(part, p)>>
<1>1. IsList(s) /\ Len(s) = 1 /\ s[1] = part
  BY SingleList
<1>2. IsList(t) /\ Len(t) = 1 /\ t[1] = FrameOf(part, p)
  BY SingleList
<1> HIDE DEF s, t
<1>3. /\ IsList(Accepts(Me, s, p)) /\ Len(Accepts(Me, s, p)) = 1
      /\ \A i \in 1 .. Len(s) : Accepts(Me, s, p)[i] = FrameOf(s[i], p)
  BY <1>1, AcceptsAre DEF FrameOf
<1>4. \A i \in 1 .. 1 : Accepts(Me, s, p)[i] = t[i]
  BY <1>1, <1>2, <1>3
<1>5. Accepts(Me, s, p) = t
  BY <1>2, <1>3, <1>4, ListEqual
<1> QED
  BY <1>5 DEF s, t

\* The parts of two lists of nodes, one after the other.
LEMMA EachConcat ==
  ASSUME NEW s, NEW t, IsList(s), IsList(t)
  PROVE  Each(s \o t) = Each(s) \o Each(t)
<1> DEFINE u == s \o t
           es == Each(s)
           et == Each(t)
           eu == Each(u)
<1>1. /\ IsList(u) /\ Len(u) = Len(s) + Len(t) /\ Len(s) \in Nat /\ Len(t) \in Nat
      /\ \A i \in 1 .. Len(s) + Len(t) : u[i] = IF i <= Len(s) THEN s[i] ELSE t[i - Len(s)]
  BY ConcatList, ListFacts
<1>2. /\ IsList(es) /\ Len(es) = Len(s) /\ \A i \in 1 .. Len(s) : es[i] = As(s[i].class, s[i])
      /\ IsList(et) /\ Len(et) = Len(t) /\ \A i \in 1 .. Len(t) : et[i] = As(t[i].class, t[i])
  BY ListFacts, EachIs DEF Each
<1> HIDE DEF u
<1>3. IsList(eu) /\ Len(eu) = Len(u) /\ \A i \in 1 .. Len(u) : eu[i] = As(u[i].class, u[i])
  BY <1>1, ListFacts, EachIs DEF Each
<1> HIDE DEF es, et, eu
<1>4. /\ IsList(es \o et) /\ Len(es \o et) = Len(es) + Len(et)
      /\ \A i \in 1 .. Len(es) + Len(et) :
           (es \o et)[i] = IF i <= Len(es) THEN es[i] ELSE et[i - Len(es)]
  BY <1>2, ConcatList
<1>5. ASSUME NEW i \in 1 .. Len(eu)
      PROVE  eu[i] = (es \o et)[i]
  <2>1. i \in 1 .. Len(s) + Len(t) /\ eu[i] = As(u[i].class, u[i])
    BY <1>1, <1>3
  <2>2. CASE i <= Len(s)
    BY <1>1, <1>2, <1>4, <2>1, <2>2
  <2>3. CASE ~(i <= Len(s))
    <3>1. /\ i - Len(s) \in 1 .. Len(t) /\ u[i] = t[i - Len(s)]
          /\ (es \o et)[i] = et[i - Len(s)]
      BY <1>1, <1>2, <1>4, <2>1, <2>3
    <3> QED
      BY <1>2, <2>1, <3>1
  <2> QED
    BY <2>2, <2>3
<1>6. eu = es \o et
  BY ZenonT(60), <1>1, <1>2, <1>3, <1>4, <1>5, ListEqual
<1> QED
  BY <1>6 DEF es, et, eu, u

-----------------------------------------------------------------------------

\* What the phases are made of.
LEMMA BatchFacts ==
  ASSUME NEW b, IsBatch(b)
  PROVE  /\ IsList(b.values) /\ Len(b.values) \in Nat
         /\ \A i \in 1 .. Len(b.values) :
              /\ IsValue(b.values[i].class, b.values[i])
              /\ b.values[i].class \in AttributeValues \ SegmentClasses
         /\ IsList(Attributes(b.values)) /\ Len(Attributes(b.values)) = Len(b.values)
         /\ IsList(Rest(b)) /\ IsList(b.later) /\ IsRoutes(b.routes)
<1>1. AreValues(b.values) /\ IsList(b.later) /\ IsRoutes(b.routes)
  BY DEF IsBatch
<1>2. IsList(b.values) /\ Len(b.values) \in Nat
  BY <1>1, ListFacts DEF AreValues
<1>3. \A i \in 1 .. Len(b.values) :
              /\ IsValue(b.values[i].class, b.values[i])
              /\ b.values[i].class \in AttributeValues \ SegmentClasses
  BY <1>1, <1>2, ElementOfList DEF AreValues, IsValue
<1>4. IsList(Attributes(b.values)) /\ Len(Attributes(b.values)) = Len(b.values)
  BY <1>2, AttributesAre
<1>5. IsList(Rest(b))
  <2> DEFINE s == <<FrameOf(b.closing, b.param)>>
  <2>1. IsList(s)
    BY SingleList
  <2> HIDE DEF s
  <2>2. IsList(s \o b.later)
    BY <1>1, <2>1, ConcatList
  <2> QED
    BY <2>2 DEF Rest, s
<1> QED
  BY <1>1, <1>2, <1>3, <1>4, <1>5

\* The frames after an attribute are a list, and begin with the next one.
LEMMA PhaseFacts ==
  ASSUME NEW b, IsBatch(b), NEW i \in 0 .. Len(b.values)
  PROVE  /\ IsList(AttributesFrom(b, i)) /\ IsList(LinesBefore(b, i))
         /\ DOMAIN TextsTo(b, i) = TextFields
         /\ Parsed(b, i) \in BOOLEAN
         /\ i = Len(b.values) => AttributesFrom(b, i) = Rest(b)
         /\ i < Len(b.values) =>
              AttributesFrom(b, i) =
                <<FrameOf(As("BGPAttribute", b.values[i + 1]), b.param)>> \o AttributesFrom(b, i + 1)
<1> DEFINE parts == Attributes(b.values)
           n == Len(b.values)
<1>1. /\ n \in Nat /\ IsList(parts) /\ Len(parts) = n /\ IsList(Rest(b)) /\ IsList(b.values)
      /\ i \in 0 .. n
  BY BatchFacts
<1>2. i < n => parts[i + 1] = As("BGPAttribute", b.values[i + 1])
  BY <1>1, AttributesAre
<1> HIDE DEF parts, n
<1>3. ASSUME NEW j \in 0 .. n
      PROVE  IsList(Accepts(Me, After(parts, j), b.param))
  BY <1>1, AcceptsAfter
<1>4. IsList(AttributesFrom(b, i))
  BY <1>1, <1>3, ConcatList DEF AttributesFrom, parts
<1>5. IsList(LinesBefore(b, i))
  BY LinesToAre, ConcatList DEF IsBatch, LinesBefore
<1>6. DOMAIN TextsTo(b, i) = TextFields
  BY FieldsOfTexts DEF TextsTo, SeenTexts
<1>7. Parsed(b, i) \in BOOLEAN
  BY DEF Parsed
<1>8. ASSUME i = n PROVE AttributesFrom(b, i) = Rest(b)
  <2>1. Accepts(Me, After(parts, i), b.param) = << >>
    BY <1>1, <1>8, AcceptsEnd
  <2> QED
    BY <1>1, <2>1, ConcatEmpty DEF AttributesFrom, parts
<1>9. ASSUME i < n
      PROVE  AttributesFrom(b, i) =
                <<FrameOf(As("BGPAttribute", b.values[i + 1]), b.param)>> \o AttributesFrom(b, i + 1)
  <2> DEFINE t == Accepts(Me, After(parts, i + 1), b.param)
             f == FrameOf(parts[i + 1], b.param)
             u == <<f>>
  <2>1. IsList(t) /\ Accepts(Me, After(parts, i), b.param) = u \o t
    BY <1>1, <1>9, AcceptsAfter
  <2>2. IsList(u)
    BY SingleList
  <2> HIDE DEF t, u
  <2>3. IsList(t)
    BY <2>1
  <2>4. (u \o t) \o Rest(b) = u \o (t \o Rest(b))
    <3> DEFINE r == Rest(b)
    <3>1. IsList(r)
      BY <1>1
    <3> HIDE DEF r
    <3>2. (u \o t) \o r = u \o (t \o r)
      BY <2>2, <2>3, <3>1, ConcatAssoc
    <3> QED
      BY <3>2 DEF r
  <2>5. AttributesFrom(b, i) = u \o AttributesFrom(b, i + 1)
    BY <2>1, <2>4 DEF AttributesFrom, t, parts
  <2> QED
    BY <1>2, <1>9, <2>5 DEF u
<1> QED
  BY <1>4, <1>5, <1>6, <1>7, <1>8, <1>9 DEF n

-----------------------------------------------------------------------------
(* The steps of a batch                                                    *)

\* An Info filled in.
LEMMA InfoSet ==
  ASSUME NEW b, NEW texts, NEW family, NEW parsed, NEW x,
         IsList(infos), b.param \in 1 .. Len(infos), infos' = [infos EXCEPT ![b.param] = x],
         InfoSays(x, b, texts, family), x.parseNLRI = parsed
  PROVE  InfoAt(b, texts, family, parsed)' /\ OthersKept(b.param)
<1> DEFINE p == b.param
           s == infos
           t == infos'
<1>1. IsList(s) /\ p \in 1 .. Len(s) /\ t = [s EXCEPT ![p] = x]
  OBVIOUS
<1> HIDE DEF p, s, t
<1>2. IsList(t)
  BY <1>1, Replaced
<1>3. Len(t) = Len(s)
  BY <1>1, Replaced
<1>4. t[p] = x
  BY <1>1, Replaced
<1>5. \A q \in 1 .. Len(s) : q # p => t[q] = s[q]
  BY <1>1, Replaced
<1> QED
  BY <1>1, <1>2, <1>3, <1>4, <1>5 DEF InfoAt, OthersKept, p, s, t

\* An Info that is not touched.
LEMMA InfoKept ==
  ASSUME NEW b, NEW texts, NEW family, NEW parsed, InfoAt(b, texts, family, parsed), infos' = infos
  PROVE  InfoAt(b, texts, family, parsed)' /\ OthersKept(b.param)
BY DEF InfoAt, OthersKept

\* What one attribute more changes.
LEMMA FamilyToNext ==
  ASSUME NEW b, NEW i \in Nat
  PROVE  FamilyTo(b, i + 1) = IF HasFamily(b.values[i + 1]) THEN b.values[i + 1].afi
                              ELSE FamilyTo(b, i)
BY FamilySeenNext DEF FamilyTo

\* One more attribute with routes that are announced.
LEMMA ParsedNext ==
  ASSUME NEW b, NEW i \in Nat
  PROVE  Parsed(b, i + 1) =
           (\/ Parsed(b, i)
            \/ /\ b.values[i + 1].class = "AttributeTypeMPReachNLRI"
               /\ b.values[i + 1].afi # 0 /\ b.values[i + 1].nlri # << >>)
  BY DEF Parsed

\* One more attribute with routes has their lines.
LEMMA LinesBeforeNext ==
  ASSUME NEW b, IsBatch(b), NEW i \in 0 .. Len(b.values), i < Len(b.values)
  PROVE  /\ IsList(LinesBefore(b, i))
         /\ HasFamily(b.values[i + 1]) =>
              LinesBefore(b, i + 1) =
                LinesBefore(b, i) \o LinesOfRoutes(HeadOfBatch(b), b.values[i + 1].nlri,
                                                   b.values[i + 1].afi, TextsTo(b, i + 1))
         /\ ~HasFamily(b.values[i + 1]) => LinesBefore(b, i + 1) = LinesBefore(b, i)
<1> DEFINE s == LinesTo(b, i)
           t == LinesOfValue(b, i + 1)
<1>1. IsList(s) /\ IsList(b.before) /\ IsList(t) /\ LinesTo(b, i + 1) = s \o t
  BY LinesToAre DEF IsBatch
<1>2. HasFamily(b.values[i + 1]) =>
        t = LinesOfRoutes(HeadOfBatch(b), b.values[i + 1].nlri, b.values[i + 1].afi,
                          TextsTo(b, i + 1))
  BY DEF LinesOfValue, TextsTo
<1>3. ~HasFamily(b.values[i + 1]) => t = << >>
  BY DEF LinesOfValue
<1> HIDE DEF s, t
<1>4. b.before \o (s \o t) = (b.before \o s) \o t
  <2> DEFINE a == b.before
  <2>1. IsList(a)
    BY <1>1
  <2>2. IsList(s)
    BY <1>1
  <2>3. IsList(t)
    BY <1>1
  <2> HIDE DEF a
  <2>4. a \o (s \o t) = (a \o s) \o t
    BY <2>1, <2>2, <2>3, ConcatAssoc
  <2> QED
    BY <2>4 DEF a
<1>5. LinesBefore(b, i + 1) = LinesBefore(b, i) \o t
  BY <1>1, <1>4 DEF LinesBefore, s
<1>6. IsList(LinesBefore(b, i))
  BY <1>1, ConcatList DEF LinesBefore, s
<1>7. LinesBefore(b, i) \o << >> = LinesBefore(b, i)
  BY <1>6, ConcatEmpty
<1> QED
  BY <1>2, <1>3, <1>5, <1>6, <1>7

\* Routes of a multiprotocol attribute, and whether one announces.
LEMMA RoutesOfMP ==
  ASSUME NEW v, IsValue(v.class, v), HasFamily(v)
  PROVE  /\ IsRoutes(v.nlri)
         /\ v.class = "AttributeTypeMPReachNLRI" =>
              ((\E m \in 1 .. Len(v.nlri) : v.nlri[m].class = "NLRIReachable") <=> v.nlri # << >>)
         /\ v.class # "AttributeTypeMPReachNLRI" =>
              ~ \E m \in 1 .. Len(v.nlri) : v.nlri[m].class = "NLRIReachable"
  BY ElementOfList, ListFacts DEF HasFamily, MPClasses, IsValue, AreRoutes, IsRoutes

-----------------------------------------------------------------------------

\* An attribute is visited: its value is on top.
LEMMA AttributeStep ==
  ASSUME NEW b, IsBatch(b), NEW i \in 0 .. Len(b.values), i < Len(b.values),
         AttributesPhase(b, i), Next
  PROVE  ValuePhase(b, i)' /\ OthersKept(b.param) /\ message' = message /\ program' = program
<1> DEFINE v == b.values[i + 1]
           part == As("BGPAttribute", v)
           t == AttributesFrom(b, i + 1)
<1>1. i + 1 \in 0 .. Len(b.values)
  BY BatchFacts
<1>2. IsList(t)
  BY <1>1, PhaseFacts
<1>3. stack = <<FrameOf(part, b.param)>> \o t
  BY PhaseFacts DEF AttributesPhase
<1>4. part.class = "BGPAttribute" /\ part.node = v
  BY DEF As
<1>5. part.class \notin MyClasses
  BY <1>4, MyClassesAre DEF PlainClasses
<1>6. Parts("GJVoidDepthFirst", part.class, part.node) = <<As(v.class, v)>>
  BY <1>4, ClassesDisjoint, EachOne DEF BGPMessages, MessageParts, Parts
<1> HIDE DEF part, t
<1>7. /\ message' = message /\ program' = program
      /\ stack' = Accepts(Me, Parts("GJVoidDepthFirst", part.class, part.node), b.param) \o t
      /\ UNCHANGED <<infos, printed>>
  BY <1>2, <1>3, <1>5, StepOnFrame
<1>8. stack' = <<FrameOf(As(v.class, v), b.param)>> \o t
  BY <1>6, <1>7, AcceptsOne
<1>9. InfoAt(b, TextsTo(b, i), FamilyTo(b, i), Parsed(b, i))' /\ OthersKept(b.param)
  BY <1>7, InfoKept DEF AttributesPhase, InfoAfter
<1> QED
  BY <1>7, <1>8, <1>9 DEF ValuePhase, AttributesPhase, ValuePart, InfoAfter, t

-----------------------------------------------------------------------------
(* The value of an attribute                                               *)

\* A value that has no routes is done; the next attribute comes.
LEMMA ValueDone ==
  ASSUME NEW b, IsBatch(b), NEW i \in 0 .. Len(b.values), i < Len(b.values), ValuePhase(b, i),
         ~HasFamily(b.values[i + 1]),
         stack' = AttributesFrom(b, i + 1), printed' = printed,
         InfoAt(b, TextsTo(b, i + 1), FamilyTo(b, i), Parsed(b, i))'
  PROVE  UnderWay(b)'
<1>1. i \in Nat /\ i + 1 \in 0 .. Len(b.values)
  BY BatchFacts
<1>2. FamilyTo(b, i + 1) = FamilyTo(b, i)
  BY <1>1, FamilyToNext
<1>3. Parsed(b, i + 1) = Parsed(b, i)
  <2> DEFINE brings == /\ b.values[i + 1].class = "AttributeTypeMPReachNLRI"
                       /\ b.values[i + 1].afi # 0 /\ b.values[i + 1].nlri # << >>
             was == Parsed(b, i)
             is == Parsed(b, i + 1)
  <2>1. was \in BOOLEAN /\ is \in BOOLEAN
    BY DEF Parsed
  <2>2. ~brings
    BY DEF HasFamily, MPClasses
  <2>3. is = (was \/ brings)
    BY <1>1, ParsedNext
  <2> HIDE DEF brings, was, is
  <2>4. is = was
    BY <2>1, <2>2, <2>3
  <2> QED
    BY <2>4 DEF was, is
<1>4. LinesBefore(b, i + 1) = LinesBefore(b, i)
  BY LinesBeforeNext
<1>5. AttributesPhase(b, i + 1)'
  BY <1>2, <1>3, <1>4 DEF ValuePhase, AttributesPhase, InfoAfter
<1> QED
  BY <1>1, <1>5 DEF UnderWay

\* A value that has routes: they come.
LEMMA ValueRoutes ==
  ASSUME NEW b, IsBatch(b), NEW i \in 0 .. Len(b.values), i < Len(b.values), ValuePhase(b, i),
         HasFamily(b.values[i + 1]),
         stack' = Accepts(Me, Each(b.values[i + 1].nlri), b.param) \o AttributesFrom(b, i + 1),
         printed' = printed,
         InfoAt(b, TextsTo(b, i + 1), b.values[i + 1].afi, Parsed(b, i))'
  PROVE  UnderWay(b)'
<1> DEFINE v == b.values[i + 1]
           parsed == Parsed(b, i)
           pre == LinesBefore(b, i)
<1>1. i + 1 \in 1 .. Len(b.values) /\ (i + 1) - 1 = i
  BY BatchFacts
<1>2. IsRoutes(v.nlri) /\ 0 \in 0 .. Len(v.nlri)
  <2>1. IsRoutes(v.nlri)
    BY <1>1, RoutesOfMP, BatchFacts
  <2> QED
    BY <2>1, ListFacts DEF IsRoutes
<1>3. parsed \in BOOLEAN /\ IsList(pre)
  BY PhaseFacts
<1> DEFINE routes == v.nlri
           texts == TextsTo(b, i + 1)
           family == v.afi
           after == AttributesFrom(b, i + 1)
<1>4. /\ printed' = pre
      /\ stack' = Accepts(Me, Each(routes), b.param) \o after
      /\ InfoAt(b, texts, family, parsed)'
  BY DEF ValuePhase
<1>5. IsRoutes(routes)
  BY <1>2
<1> HIDE DEF routes, texts, family, after, parsed, pre
<1>6. Accepts(Me, After(Each(routes), 0), b.param) = Accepts(Me, Each(routes), b.param)
  BY <1>3, <1>5, RoutesBegin
<1>7. pre \o FirstOf(LinesOfRoutes(HeadOfBatch(b), routes, family, texts), 0) = pre
  BY <1>3, <1>5, RoutesBegin
<1>8. parsed = (parsed \/ \E m \in 1 .. 0 : routes[m].class = "NLRIReachable")
  BY <1>3, <1>5, RoutesBegin
<1>9. RoutePhase(b, routes, 0, after, pre, texts, family, parsed)'
  BY <1>4, <1>6, <1>7, <1>8 DEF RoutePhase
<1>10. ValueRoutesPhase(b, i + 1, 0)'
  BY <1>1, <1>9 DEF ValueRoutesPhase, routes, texts, family, after, parsed, pre
<1> QED
  BY <1>1, <1>2, <1>10 DEF UnderWay

\* The texts after the next attribute.
LEMMA TextsToNext ==
  ASSUME NEW b, NEW i \in Nat
  PROVE  /\ b.values[i + 1].class \in PlainClasses =>
              \A f \in TextFields : TextsTo(b, i + 1)[f] =
                IF f = Field[b.values[i + 1].class] THEN FieldText(b.values[i + 1])
                ELSE TextsTo(b, i)[f]
         /\ b.values[i + 1].class = "AttributeTypeMPReachNLRI" =>
              \A f \in TextFields : TextsTo(b, i + 1)[f] =
                IF f = "next_hop" THEN Text(b.values[i + 1].nextHop, FamilyTo(b, i + 1))
                ELSE TextsTo(b, i)[f]
         /\ b.values[i + 1].class \notin PlainClasses \cup {"AttributeTypeMPReachNLRI"} =>
              \A f \in TextFields : TextsTo(b, i + 1)[f] = TextsTo(b, i)[f]
<1> DEFINE v == b.values[i + 1]
<1>1. ASSUME NEW f \in TextFields
      PROVE  /\ v.class \in PlainClasses =>
                  TextsTo(b, i + 1)[f] =
                    IF f = Field[v.class] THEN FieldText(v) ELSE TextsTo(b, i)[f]
             /\ v.class = "AttributeTypeMPReachNLRI" =>
                  TextsTo(b, i + 1)[f] =
                    IF f = "next_hop" THEN Text(v.nextHop, FamilyTo(b, i + 1))
                    ELSE TextsTo(b, i)[f]
             /\ v.class \notin PlainClasses \cup {"AttributeTypeMPReachNLRI"} =>
                  TextsTo(b, i + 1)[f] = TextsTo(b, i)[f]
  <2> DEFINE values == b.values
             initial == b.initial
  <2> HIDE DEF values, initial
  <2>1. TextsNext(values, i, initial, f)
    BY SeenTextsNext
  <2>2. values[i + 1].class \in PlainClasses =>
              SeenTexts(values, i + 1, initial)[f] =
                IF f = Field[values[i + 1].class] THEN FieldText(values[i + 1])
                ELSE SeenTexts(values, i, initial)[f]
    BY <2>1 DEF TextsNext
  <2>3. values[i + 1].class = "AttributeTypeMPReachNLRI" =>
              SeenTexts(values, i + 1, initial)[f] =
                IF f = "next_hop"
                THEN Text(values[i + 1].nextHop, FamilySeen(values, i + 1, initial))
                ELSE SeenTexts(values, i, initial)[f]
    BY <2>1 DEF TextsNext
  <2>4. values[i + 1].class \notin PlainClasses \cup {"AttributeTypeMPReachNLRI"} =>
              SeenTexts(values, i + 1, initial)[f] = SeenTexts(values, i, initial)[f]
    BY <2>1 DEF TextsNext
  <2> QED
    BY <2>2, <2>3, <2>4 DEF TextsTo, FamilyTo, values, initial
<1> HIDE DEF v
<1> QED
  BY <1>1 DEF v

\* Texts that are equal say the same.
LEMMA SameTexts ==
  ASSUME NEW info, NEW b, NEW old, NEW new, NEW family, InfoSays(info, b, old, family),
         \A f \in TextFields : new[f] = old[f]
  PROVE  InfoSays(info, b, new, family)
BY DEF InfoSays

\* What lies on the stack in a value.
LEMMA ValueTop ==
  ASSUME NEW b, IsBatch(b), NEW i \in 0 .. Len(b.values), i < Len(b.values), ValuePhase(b, i), Next
  PROVE  LET v == b.values[i + 1]
         IN  /\ message' = message /\ program' = program
             /\ v.class \in AttributeValues \ SegmentClasses
             /\ IsList(AttributesFrom(b, i + 1))
             /\ v.class \notin MyClasses =>
                  /\ stack' = Accepts(Me, Parts("GJVoidDepthFirst", v.class, v), b.param) \o AttributesFrom(b, i + 1)
                  /\ infos' = infos /\ printed' = printed
             /\ v.class \in MyClasses =>
                  /\ MyAction(v.class) /\ Tail(stack) = AttributesFrom(b, i + 1)
                  /\ Top.class = v.class /\ Top.node = v /\ Top.param = b.param
             /\ IsList(infos) /\ b.param \in 1 .. Len(infos)
             /\ InfoSays(infos[b.param], b, TextsTo(b, i), FamilyTo(b, i))
             /\ infos[b.param].parseNLRI = Parsed(b, i)
<1> DEFINE v == b.values[i + 1]
           part == ValuePart(b, i + 1)
           t == AttributesFrom(b, i + 1)
<1>1. i + 1 \in 0 .. Len(b.values) /\ i + 1 \in 1 .. Len(b.values)
  BY BatchFacts
<1>2. IsList(t)
  BY <1>1, PhaseFacts
<1>3. stack = <<FrameOf(part, b.param)>> \o t
  BY DEF ValuePhase
<1>4. part.class = v.class /\ part.node = v
  BY DEF ValuePart, As
<1>5. v.class \in AttributeValues \ SegmentClasses
  BY <1>1, BatchFacts
<1> HIDE DEF part, t
<1>6. message' = message /\ program' = program
  BY <1>2, <1>3, StepOnFrame
<1>7. FrameOf(part, b.param).class = part.class /\ FrameOf(part, b.param).node = part.node
      /\ FrameOf(part, b.param).param = b.param
  BY DEF FrameOf
<1>8. /\ IsList(infos) /\ b.param \in 1 .. Len(infos)
      /\ InfoSays(infos[b.param], b, TextsTo(b, i), FamilyTo(b, i))
      /\ infos[b.param].parseNLRI = Parsed(b, i)
  BY DEF ValuePhase, InfoAfter, InfoAt
<1>9. v.class \notin MyClasses =>
        /\ stack' = Accepts(Me, Parts("GJVoidDepthFirst", v.class, v), b.param) \o t
        /\ infos' = infos /\ printed' = printed
  BY <1>2, <1>3, <1>4, StepOnFrame
<1>10. v.class \in MyClasses =>
         /\ MyAction(v.class) /\ Tail(stack) = t
         /\ Top.class = v.class /\ Top.node = v /\ Top.param = b.param
  BY <1>2, <1>3, <1>4, <1>7, StepOnFrame
<1> QED
  BY <1>2, <1>5, <1>6, <1>8, <1>9, <1>10 DEF t

\* An attribute with a field of its own is put into the Info.
LEMMA PlainValueStep ==
  ASSUME NEW b, IsBatch(b), NEW i \in 0 .. Len(b.values), i < Len(b.values), ValuePhase(b, i),
         Next, b.values[i + 1].class \in PlainClasses
  PROVE  UnderWay(b)' /\ OthersKept(b.param)
<1> DEFINE v == b.values[i + 1]
           p == b.param
           x == [infos[p] EXCEPT ![Field[v.class]] = FieldText(v)]
<1>1. i \in Nat /\ i + 1 \in 0 .. Len(b.values)
  BY BatchFacts
<1>2. v.class \in MyClasses /\ ~HasFamily(v)
  BY MyClassesAre, FieldIsText DEF HasFamily, MPClasses
<1>3. /\ MyAction(v.class) /\ Tail(stack) = AttributesFrom(b, i + 1)
      /\ Top.class = v.class /\ Top.node = v /\ Top.param = p
  BY <1>2, ValueTop
<1>4. /\ infos' = [infos EXCEPT ![p][Field[v.class]] = FieldText(v)]
      /\ stack' = << >> \o Tail(stack)
      /\ printed' = printed
  BY <1>3 DEF PlainAttribute, Push, MyAction, PlainClasses
<1>5. infos' = [infos EXCEPT ![p] = x]
  BY <1>4
<1>6. /\ IsList(infos) /\ p \in 1 .. Len(infos)
      /\ InfoSays(infos[p], b, TextsTo(b, i), FamilyTo(b, i))
      /\ infos[p].parseNLRI = Parsed(b, i)
  BY ValueTop
<1>7. /\ Field[v.class] \in TextFields
      /\ \A f \in TextFields : TextsTo(b, i + 1)[f] =
                IF f = Field[v.class] THEN FieldText(v) ELSE TextsTo(b, i)[f]
  BY <1>1, TextsToNext, FieldIsText
<1>8. InfoSays(x, b, TextsTo(b, i + 1), FamilyTo(b, i)) /\ x.parseNLRI = infos[p].parseNLRI
  <2> DEFINE field == Field[v.class]
             old == TextsTo(b, i)
             new == TextsTo(b, i + 1)
             text == FieldText(v)
  <2>1. field \in TextFields /\ \A f \in TextFields : new[f] = IF f = field THEN text ELSE old[f]
    BY <1>7
  <2> DEFINE info == infos[p]
             family == FamilyTo(b, i)
  <2>2. InfoSays(info, b, old, family)
    BY <1>6
  <2> HIDE DEF field, old, new, text, info, family
  <2>3. InfoSays([info EXCEPT ![field] = text], b, new, family)
    BY <2>1, <2>2, SetText
  <2>4. [info EXCEPT ![field] = text].parseNLRI = info.parseNLRI
    BY <2>1, <2>2 DEF InfoSays, TextFields, InfoFields
  <2> QED
    BY <2>3, <2>4 DEF field, text, new, info, family
<1> HIDE DEF x
<1>9. InfoAt(b, TextsTo(b, i + 1), FamilyTo(b, i), Parsed(b, i))' /\ OthersKept(p)
  BY <1>5, <1>6, <1>8, InfoSet
<1>10. stack' = AttributesFrom(b, i + 1)
  BY <1>1, <1>3, <1>4, PhaseFacts, ConcatEmpty
<1> QED
  BY <1>2, <1>4, <1>9, <1>10, ValueDone

\* MP_REACH_NLRI brings its family and next hop, and its routes are begun.
LEMMA MPReachStep ==
  ASSUME NEW b, IsBatch(b), NEW i \in 0 .. Len(b.values), i < Len(b.values), ValuePhase(b, i),
         Next, b.values[i + 1].class = "AttributeTypeMPReachNLRI"
  PROVE  UnderWay(b)' /\ OthersKept(b.param)
<1> DEFINE v == b.values[i + 1]
           p == b.param
           family == FamilyTo(b, i + 1)
           y == [infos[p] EXCEPT !.afi = family]
           x == [y EXCEPT !.next_hop = Text(v.nextHop, family)]
<1>1. i \in Nat /\ i + 1 \in 0 .. Len(b.values)
  BY BatchFacts
<1>2. v.class \in MyClasses /\ (HasFamily(v) <=> v.afi # 0)
  BY MyClassesAre DEF HasFamily, MPClasses
<1>3. /\ MyAction(v.class) /\ Tail(stack) = AttributesFrom(b, i + 1)
      /\ Top.class = v.class /\ Top.node = v /\ Top.param = p
  BY <1>2, ValueTop
<1>4. MPReach
  BY <1>3, FieldIsText DEF MyAction
<1>5. /\ IsList(infos) /\ p \in 1 .. Len(infos)
      /\ InfoSays(infos[p], b, TextsTo(b, i), FamilyTo(b, i))
      /\ infos[p].parseNLRI = Parsed(b, i)
  BY ValueTop
<1>6. family = IF v.afi = 0 THEN infos[p].afi ELSE v.afi
  BY <1>1, <1>2, <1>5, FamilyToNext DEF InfoSays
<1>7. /\ infos' = [infos EXCEPT ![p].afi = family, ![p].next_hop = Text(v.nextHop, family)]
      /\ stack' = (IF v.afi = 0 THEN << >> ELSE Accepts(Me, Each(v.nlri), p)) \o Tail(stack)
      /\ printed' = printed
  BY <1>3, <1>4, <1>6 DEF MPReach, Push, Info
<1> HIDE DEF family
<1>8. infos' = [infos EXCEPT ![p] = x]
  BY <1>5, <1>7, ListFacts
<1>9. /\ InfoSays(y, b, TextsTo(b, i), family) /\ y.parseNLRI = infos[p].parseNLRI
  BY <1>5, SetFamily
<1>10. "next_hop" \in TextFields
       /\ \A f \in TextFields : TextsTo(b, i + 1)[f] =
                IF f = "next_hop" THEN Text(v.nextHop, family) ELSE TextsTo(b, i)[f]
  BY <1>1, TextsToNext DEF TextFields, family
<1>11. InfoSays(x, b, TextsTo(b, i + 1), family) /\ x.parseNLRI = y.parseNLRI
  <2> DEFINE field == "next_hop"
             old == TextsTo(b, i)
             new == TextsTo(b, i + 1)
             text == Text(v.nextHop, family)
  <2>1. field \in TextFields /\ \A f \in TextFields : new[f] = IF f = field THEN text ELSE old[f]
    BY <1>10
  <2>2. InfoSays(y, b, old, family)
    BY <1>9
  <2>3. x = [y EXCEPT ![field] = text]
    OBVIOUS
  <2> HIDE DEF field, old, new, text, y, x
  <2>4. /\ InfoSays([y EXCEPT ![field] = text], b, new, family)
        /\ [y EXCEPT ![field] = text].parseNLRI = y.parseNLRI
    BY SMTT(60), <2>1, <2>2, SetText
  <2> QED
    BY <2>3, <2>4 DEF new
<1> HIDE DEF x, y
<1>12. InfoAt(b, TextsTo(b, i + 1), family, Parsed(b, i))' /\ OthersKept(p)
  BY <1>5, <1>8, <1>9, <1>11, InfoSet
<1>13. CASE v.afi = 0
  <2>1. IsList(AttributesFrom(b, i + 1))
    BY <1>1, PhaseFacts
  <2>2. stack' = AttributesFrom(b, i + 1)
    BY <1>3, <1>7, <1>13, <2>1, ConcatEmpty
  <2>3. ~HasFamily(v)
    BY <1>2, <1>13
  <2>4. InfoAt(b, TextsTo(b, i + 1), FamilyTo(b, i), Parsed(b, i))'
    BY <1>1, <1>12, <2>3, FamilyToNext DEF family
  <2>5. UnderWay(b)'
    BY <1>7, <2>2, <2>3, <2>4, ValueDone
  <2> QED
    BY <1>12, <2>5
<1>14. CASE v.afi # 0
  <2>1. HasFamily(v)
    BY <1>2, <1>14
  <2>2. stack' = Accepts(Me, Each(v.nlri), p) \o AttributesFrom(b, i + 1)
    BY Zenon, <1>3, <1>7, <1>14
  <2>3. InfoAt(b, TextsTo(b, i + 1), v.afi, Parsed(b, i))'
    BY <1>6, <1>12, <1>14
  <2>4. UnderWay(b)'
    BY Zenon, <1>7, <2>1, <2>2, <2>3, ValueRoutes
  <2> QED
    BY <1>12, <2>4
<1> QED
  BY <1>13, <1>14

\* MP_UNREACH_NLRI brings its family, and its routes are begun.
LEMMA MPUnreachStep ==
  ASSUME NEW b, IsBatch(b), NEW i \in 0 .. Len(b.values), i < Len(b.values), ValuePhase(b, i),
         Next, b.values[i + 1].class = "AttributeTypeMPUnreachNLRI"
  PROVE  UnderWay(b)' /\ OthersKept(b.param)
<1> DEFINE v == b.values[i + 1]
           p == b.param
           x == [infos[p] EXCEPT !.afi = v.afi]
<1>1. i \in Nat /\ i + 1 \in 0 .. Len(b.values)
  BY BatchFacts
<1>2. v.class \in MyClasses /\ (HasFamily(v) <=> v.afi # 0)
  BY MyClassesAre DEF HasFamily, MPClasses
<1>3. /\ MyAction(v.class) /\ Tail(stack) = AttributesFrom(b, i + 1)
      /\ Top.class = v.class /\ Top.node = v /\ Top.param = p
  BY <1>2, ValueTop
<1>4. /\ IsList(infos) /\ p \in 1 .. Len(infos)
      /\ InfoSays(infos[p], b, TextsTo(b, i), FamilyTo(b, i))
      /\ infos[p].parseNLRI = Parsed(b, i)
  BY ValueTop
<1>5. /\ v.afi = 0 => infos' = infos /\ stack' = << >> \o Tail(stack)
      /\ v.afi # 0 => /\ infos' = [infos EXCEPT ![p].afi = v.afi]
                      /\ stack' = Accepts(Me, Each(v.nlri), p) \o Tail(stack)
      /\ printed' = printed
  BY <1>3, FieldIsText DEF MPUnreach, Push, MyAction
<1>6. \A f \in TextFields : TextsTo(b, i + 1)[f] = TextsTo(b, i)[f]
  BY <1>1, FieldIsText, TextsToNext
<1>7. CASE v.afi = 0
  <2>1. IsList(AttributesFrom(b, i + 1))
    BY <1>1, PhaseFacts
  <2>2. stack' = AttributesFrom(b, i + 1)
    BY <1>3, <1>5, <1>7, <2>1, ConcatEmpty
  <2>3. ~HasFamily(v)
    BY <1>2, <1>7
  <2>4. InfoAt(b, TextsTo(b, i + 1), FamilyTo(b, i), Parsed(b, i))
    BY <1>4, <1>6, SameTexts DEF InfoAt
  <2>5. InfoAt(b, TextsTo(b, i + 1), FamilyTo(b, i), Parsed(b, i))' /\ OthersKept(p)
    BY <1>5, <1>7, <2>4, InfoKept
  <2>6. UnderWay(b)'
    BY <1>5, <2>2, <2>3, <2>5, ValueDone
  <2> QED
    BY <2>5, <2>6
<1>8. CASE v.afi # 0
  <2>1. HasFamily(v)
    BY <1>2, <1>8
  <2>2. stack' = Accepts(Me, Each(v.nlri), p) \o AttributesFrom(b, i + 1)
    BY <1>3, <1>5, <1>8
  <2>3. infos' = [infos EXCEPT ![p] = x]
    BY <1>5, <1>8
  <2>4. InfoSays(x, b, TextsTo(b, i), v.afi) /\ x.parseNLRI = infos[p].parseNLRI
    BY <1>4, SetFamily
  <2> HIDE DEF x
  <2>5. InfoSays(x, b, TextsTo(b, i + 1), v.afi)
    BY <1>6, <2>4, SameTexts
  <2>6. InfoAt(b, TextsTo(b, i + 1), v.afi, Parsed(b, i))' /\ OthersKept(p)
    BY <1>4, <2>3, <2>4, <2>5, InfoSet
  <2>7. UnderWay(b)'
    BY <1>5, <2>1, <2>2, <2>6, ValueRoutes
  <2> QED
    BY <2>6, <2>7
<1> QED
  BY <1>7, <1>8

\* An attribute no line shows.
LEMMA OtherValueStep ==
  ASSUME NEW b, IsBatch(b), NEW i \in 0 .. Len(b.values), i < Len(b.values), ValuePhase(b, i),
         Next, b.values[i + 1].class \notin MyClasses
  PROVE  UnderWay(b)' /\ OthersKept(b.param)
<1> DEFINE v == b.values[i + 1]
           p == b.param
<1>1. i \in Nat /\ i + 1 \in 0 .. Len(b.values)
  BY BatchFacts
<1>2. /\ v.class \in AttributeValues \ SegmentClasses
      /\ stack' = Accepts(Me, Parts("GJVoidDepthFirst", v.class, v), p) \o AttributesFrom(b, i + 1)
      /\ infos' = infos /\ printed' = printed
      /\ IsList(infos) /\ p \in 1 .. Len(infos)
      /\ InfoSays(infos[p], b, TextsTo(b, i), FamilyTo(b, i))
      /\ infos[p].parseNLRI = Parsed(b, i)
  BY ValueTop
<1>3. v.class \notin PlainClasses \cup MPClasses
  BY MyClassesAre DEF MPClasses
<1>4. ~HasFamily(v)
  BY <1>3 DEF HasFamily
<1>5. Parts("GJVoidDepthFirst", v.class, v) = << >>
  BY <1>2, <1>3, ClassesDisjoint DEF PlainClasses, MPClasses, SegmentClasses, ValueParts, Parts
<1>6. Accepts(Me, << >>, p) = << >>
  <2> DEFINE none == << >>
  <2>1. IsList(none) /\ Len(none) = 0
    BY EmptyIsList
  <2> HIDE DEF none
  <2>2. IsList(Accepts(Me, none, p)) /\ Len(Accepts(Me, none, p)) = 0
    BY <2>1, AcceptsAre
  <2> QED
    BY <2>2, ListFacts DEF none
<1>7. stack' = AttributesFrom(b, i + 1)
  <2>1. IsList(AttributesFrom(b, i + 1))
    BY <1>1, PhaseFacts
  <2> QED
    BY <1>2, <1>5, <1>6, <2>1, ConcatEmpty
<1>8. \A f \in TextFields : TextsTo(b, i + 1)[f] = TextsTo(b, i)[f]
  BY <1>1, <1>3, TextsToNext DEF MPClasses
<1>9. InfoSays(infos[p], b, TextsTo(b, i + 1), FamilyTo(b, i))
  BY <1>2, <1>8, SameTexts
<1>10. InfoAt(b, TextsTo(b, i + 1), FamilyTo(b, i), Parsed(b, i))' /\ OthersKept(p)
  BY <1>2, <1>9, InfoKept DEF InfoAt
<1>11. UnderWay(b)'
  BY <1>2, <1>4, <1>7, <1>10, ValueDone
<1> QED
  BY <1>10, <1>11

\* The value of any attribute.
LEMMA ValueStep ==
  ASSUME NEW b, IsBatch(b), NEW i \in 0 .. Len(b.values), i < Len(b.values), ValuePhase(b, i), Next
  PROVE  UnderWay(b)' /\ OthersKept(b.param) /\ message' = message /\ program' = program
<1> DEFINE class == b.values[i + 1].class
<1>1. message' = message /\ program' = program
  BY ValueTop
<1>2. class \in PlainClasses \/ class = "AttributeTypeMPReachNLRI"
      \/ class = "AttributeTypeMPUnreachNLRI" \/ class \notin MyClasses
  BY MyClassesAre, ValueTop DEF AttributeValues, SimpleValues
<1> QED
  BY <1>1, <1>2, PlainValueStep, MPReachStep, MPUnreachStep, OtherValueStep

-----------------------------------------------------------------------------
(* The parts of a batch that come last                                     *)

\* The routes of an attribute are done.
LEMMA ValueRoutesDone ==
  ASSUME NEW b, IsBatch(b), NEW i \in 1 .. Len(b.values), HasFamily(b.values[i]),
         ValueRoutesPhase(b, i, Len(b.values[i].nlri))
  PROVE  AttributesPhase(b, i)
<1> DEFINE v == b.values[i]
           routes == v.nlri
           texts == TextsTo(b, i)
           family == v.afi
           parsed == Parsed(b, i - 1)
           pre == LinesBefore(b, i - 1)
           after == AttributesFrom(b, i)
           brings == \E m \in 1 .. Len(routes) : routes[m].class = "NLRIReachable"
<1>1. /\ i - 1 \in Nat /\ (i - 1) + 1 = i
      /\ i - 1 \in 0 .. Len(b.values) /\ i - 1 < Len(b.values) /\ i \in 0 .. Len(b.values)
  BY BatchFacts
<1>2. /\ IsRoutes(routes)
      /\ v.class = "AttributeTypeMPReachNLRI" => (brings <=> routes # << >>)
      /\ v.class # "AttributeTypeMPReachNLRI" => ~brings
  BY RoutesOfMP, BatchFacts
<1>3. parsed \in BOOLEAN
  BY DEF Parsed
<1>4. IsList(after)
  BY <1>1, PhaseFacts
<1>5. RoutePhase(b, routes, Len(routes), after, pre, texts, family, parsed)
  BY DEF ValueRoutesPhase
<1>6. IsRoutes(routes)
  BY <1>2
<1>7. FamilyTo(b, i) = family
  BY <1>1, FamilyToNext
<1>8. Parsed(b, i) = (parsed \/ brings)
  <2> DEFINE mine == /\ b.values[(i - 1) + 1].class = "AttributeTypeMPReachNLRI"
                     /\ b.values[(i - 1) + 1].afi # 0 /\ b.values[(i - 1) + 1].nlri # << >>
             is == Parsed(b, (i - 1) + 1)
  <2>1. is = (parsed \/ mine)
    BY <1>1, ParsedNext
  <2>2. v.afi # 0
    BY DEF HasFamily
  <2>3. brings <=> mine
    BY <1>1, <1>2, <2>2
  <2>4. is = Parsed(b, i)
    BY <1>1
  <2> HIDE DEF mine, is, brings, parsed
  <2>5. (parsed \/ brings) = (parsed \/ mine)
    BY <2>3
  <2> QED
    BY <2>1, <2>4, <2>5
<1>9. LinesBefore(b, i) = pre \o LinesOfRoutes(HeadOfBatch(b), routes, family, texts)
  <2> DEFINE j == i - 1
  <2>1. j \in 0 .. Len(b.values) /\ j < Len(b.values) /\ j + 1 = i
    BY <1>1
  <2> HIDE DEF j
  <2> QED
    BY <2>1, LinesBeforeNext DEF j
<1> HIDE DEF routes, texts, family, parsed, pre, after
<1>10. stack = after
  BY <1>3, <1>4, <1>5, <1>6, RoutesEnd
<1>11. printed = pre \o LinesOfRoutes(HeadOfBatch(b), routes, family, texts)
  BY <1>3, <1>4, <1>5, <1>6, RoutesEnd
<1>12. InfoAt(b, texts, family, parsed \/ brings)
  BY <1>3, <1>4, <1>5, <1>6, RoutesEnd
<1> HIDE DEF brings
<1>13. InfoAt(b, TextsTo(b, i), FamilyTo(b, i), Parsed(b, i))
  BY <1>7, <1>8, <1>12 DEF texts
<1> QED
  BY <1>9, <1>10, <1>11, <1>13 DEF AttributesPhase, InfoAfter, after

\* The routes visited last are done.
LEMMA ClosingDone ==
  ASSUME NEW b, IsBatch(b), ClosingPhase(b, Len(b.routes))
  PROVE  BatchDone(b)
<1> DEFINE n == Len(b.values)
           routes == b.routes
           texts == TextsAtEnd(b)
           family == b.family
           parsed == Parsed(b, n)
           pre == LinesBefore(b, n)
           after == b.later
           lines == LinesOfRoutes(HeadOfBatch(b), routes, family, texts)
<1>1. n \in 0 .. n /\ IsList(after) /\ IsRoutes(routes)
  BY BatchFacts
<1>2. parsed \in BOOLEAN
  BY DEF Parsed
<1>3. RoutePhase(b, routes, Len(routes), after, pre, texts, family, parsed)
  BY DEF ClosingPhase
<1>4. IsList(after)
  BY <1>1
<1>5. IsRoutes(routes)
  BY <1>1
<1> HIDE DEF routes, texts, family, parsed, pre, after, n, lines
<1>6. stack = after
  BY <1>2, <1>3, <1>4, <1>5, RoutesEnd
<1>7. printed = pre \o lines
  BY <1>2, <1>3, <1>4, <1>5, RoutesEnd DEF lines
<1>8. pre \o lines = b.before \o LinesOfBatch(b)
  <2> DEFINE s == b.before
             t == LinesTo(b, n)
  <2>1. IsList(t)
    BY <1>1, LinesToAre DEF n
  <2>2. IsList(lines)
    BY <1>5, LinesOfRoutesAre DEF IsRoutes, lines
  <2> HIDE DEF s, t
  <2>3. (s \o t) \o lines = s \o (t \o lines)
    BY <2>1, <2>2, ConcatAssoc DEF IsBatch
  <2>4. pre = s \o t /\ LinesOfBatch(b) = t \o lines
    BY DEF pre, LinesBefore, s, t, LinesOfBatch, lines, n, routes, family, texts
  <2> QED
    BY <2>3, <2>4 DEF s
<1> QED
  BY <1>6, <1>7, <1>8 DEF BatchDone, after

-----------------------------------------------------------------------------

\* The routes that are visited last are put on the stack.
LEMMA ClosingBegins ==
  ASSUME NEW b, IsBatch(b),
         stack' = Accepts(Me, Each(b.routes), b.param) \o b.later,
         printed' = LinesBefore(b, Len(b.values)),
         InfoAt(b, TextsAtEnd(b), b.family, Parsed(b, Len(b.values)))'
  PROVE  UnderWay(b)'
<1> DEFINE n == Len(b.values)
           routes == b.routes
           texts == TextsAtEnd(b)
           family == b.family
           parsed == Parsed(b, n)
           pre == LinesBefore(b, n)
           after == b.later
<1>1. n \in 0 .. n /\ IsRoutes(routes)
  BY BatchFacts
<1>2. parsed \in BOOLEAN
  BY DEF Parsed
<1>3. IsList(pre)
  BY <1>1, PhaseFacts
<1>4. IsRoutes(routes)
  BY <1>1
<1>5. 0 \in 0 .. Len(routes)
  BY <1>4, ListFacts DEF IsRoutes
<1>6. /\ stack' = Accepts(Me, Each(routes), b.param) \o after
      /\ printed' = pre /\ InfoAt(b, texts, family, parsed)'
  OBVIOUS
<1> HIDE DEF routes, texts, family, parsed, pre, after, n
<1>7. Accepts(Me, After(Each(routes), 0), b.param) = Accepts(Me, Each(routes), b.param)
  BY <1>2, <1>3, <1>4, RoutesBegin
<1>8. pre \o FirstOf(LinesOfRoutes(HeadOfBatch(b), routes, family, texts), 0) = pre
  BY <1>2, <1>3, <1>4, RoutesBegin
<1>9. parsed = (parsed \/ \E m \in 1 .. 0 : routes[m].class = "NLRIReachable")
  BY <1>2, <1>3, <1>4, RoutesBegin
<1>10. RoutePhase(b, routes, 0, after, pre, texts, family, parsed)'
  BY <1>6, <1>7, <1>8, <1>9 DEF RoutePhase
<1>11. ClosingPhase(b, 0)'
  BY <1>10 DEF ClosingPhase, routes, texts, family, after, parsed, pre, n
<1> QED
  BY <1>5, <1>11 DEF UnderWay, routes

\* An attribute brought routes.
LEMMA ParsedIs ==
  ASSUME NEW b, IsBatch(b)
  PROVE  Parsed(b, Len(b.values)) = HasRoutes(b.values)
<1> DEFINE values == b.values
<1>1. ToSet(values) = {values[j] : j \in 1 .. Len(values)}
  BY ListFacts, BatchFacts DEF ToSet
<1> HIDE DEF values
<1> QED
  BY <1>1 DEF Parsed, values, HasRoutes

\* What comes after the attributes: the routes of an UPDATE, or the prefix of a table.
LEMMA ClosingStep ==
  ASSUME NEW b, IsBatch(b), AttributesPhase(b, Len(b.values)), Next
  PROVE  UnderWay(b)' /\ OthersKept(b.param) /\ message' = message /\ program' = program
<1> DEFINE n == Len(b.values)
           p == b.param
           node == b.closing.node
<1>1. n \in 0 .. n /\ IsList(b.later)
  BY BatchFacts
<1>2. stack = <<FrameOf(b.closing, p)>> \o b.later
  BY <1>1, PhaseFacts DEF AttributesPhase, Rest
<1>3. /\ IsList(infos) /\ p \in 1 .. Len(infos)
      /\ InfoSays(infos[p], b, TextsAtEnd(b), FamilyTo(b, n))
      /\ infos[p].parseNLRI = Parsed(b, n) /\ printed = LinesBefore(b, n)
  BY DEF AttributesPhase, InfoAfter, InfoAt, TextsAtEnd, TextsTo
<1>4. b.closing.class \in {"UpdateRoutes", "OwnPrefix"}
  BY DEF IsBatch
<1>5. b.closing.class \in MyClasses /\ b.closing.class \notin PlainClasses
  BY <1>4, MyClassesAre DEF PlainClasses
<1>6. /\ message' = message /\ program' = program
      /\ MyAction(b.closing.class) /\ Top = FrameOf(b.closing, p) /\ Tail(stack) = b.later
  <2> DEFINE part == b.closing
             t == b.later
  <2>1. IsList(t) /\ stack = <<FrameOf(part, p)>> \o t /\ part.class \in MyClasses
    BY <1>1, <1>2, <1>5
  <2> HIDE DEF part, t
  <2>2. MyAction(part.class) /\ Top = FrameOf(part, p) /\ Tail(stack) = t
    BY <2>1, StepOnFrame
  <2> QED
    BY <2>1, <2>2, StepOnFrame DEF part, t
<1>7. Top.class = b.closing.class /\ Top.node = node /\ Top.param = p
  BY <1>6 DEF FrameOf
<1>8. CASE b.closing.class = "UpdateRoutes"
  <2> DEFINE x == [infos[p] EXCEPT !.afi = IPv4]
             frames == Each(node.withdrawnRoutes) \o Each(node.nlriRoutes)
  <2>1. VisitUpdateRoutes
    BY <1>5, <1>6, <1>8 DEF MyAction
  <2>2. /\ infos' = [infos EXCEPT ![p].afi = IPv4]
        /\ stack' = Accepts(Me, frames, p) \o b.later
        /\ printed' = printed
    BY <1>6, <1>7, <2>1 DEF VisitUpdateRoutes, Push
  <2>3. /\ b.family = IPv4 /\ IsList(node.withdrawnRoutes) /\ IsList(node.nlriRoutes)
        /\ b.routes = node.withdrawnRoutes \o node.nlriRoutes
    BY <1>8 DEF IsBatch
  <2>4. frames = Each(b.routes)
    <3> DEFINE s == node.withdrawnRoutes
               t == node.nlriRoutes
    <3>1. IsList(s)
      BY <2>3
    <3>2. IsList(t)
      BY <2>3
    <3> HIDE DEF s, t
    <3>3. Each(s \o t) = Each(s) \o Each(t)
      BY <3>1, <3>2, EachConcat
    <3> QED
      BY <2>3, <3>3 DEF s, t
  <2>5. infos' = [infos EXCEPT ![p] = x]
    BY <2>2
  <2>6. InfoSays(x, b, TextsAtEnd(b), b.family) /\ x.parseNLRI = infos[p].parseNLRI
    BY <1>3, <2>3, SetFamily
  <2> HIDE DEF x
  <2>7. InfoAt(b, TextsAtEnd(b), b.family, Parsed(b, n))' /\ OthersKept(p)
    BY <1>3, <2>5, <2>6, InfoSet
  <2>8. UnderWay(b)'
    BY <1>3, <2>2, <2>4, <2>7, ClosingBegins
  <2> QED
    BY <1>6, <2>7, <2>8
<1>9. CASE b.closing.class = "OwnPrefix"
  <2>1. BGPOwnPrefix
    BY <1>5, <1>6, <1>9 DEF MyAction
  <2>2. /\ infos' = infos /\ printed' = printed
        /\ stack' = (IF infos[p].parseNLRI THEN << >>
                     ELSE Accepts(Me, <<As("NLRIReachable", node)>>, p)) \o b.later
    BY <1>6, <1>7, <2>1 DEF BGPOwnPrefix, Push, Info, ascii
  <2>3. /\ node.class = "NLRIReachable" /\ b.family = FamilyTo(b, n)
        /\ b.routes = IF HasRoutes(b.values) THEN << >> ELSE <<node>>
    BY <1>9 DEF IsBatch, FamilyTo
  <2>4. infos[p].parseNLRI = HasRoutes(b.values)
    BY <1>3, ParsedIs
  <2>5. stack' = Accepts(Me, Each(b.routes), p) \o b.later
    <3>1. CASE HasRoutes(b.values)
      <4>1. b.routes = << >> /\ stack' = << >> \o b.later
        BY <2>2, <2>3, <2>4, <3>1
      <4> DEFINE none == << >>
      <4>2. IsList(none) /\ Len(none) = 0
        BY EmptyIsList
      <4> HIDE DEF none
      <4>3. IsList(Each(none)) /\ Len(Each(none)) = 0
        BY <4>2, EachIs
      <4>4. Accepts(Me, Each(none), p) = << >>
        BY <4>3, ListFacts, AcceptsAre
      <4> QED
        BY <4>1, <4>4 DEF none
    <3>2. CASE ~HasRoutes(b.values)
      BY <2>2, <2>3, <2>4, <3>2, EachOne
    <3> QED
      BY <3>1, <3>2
  <2>6. InfoAt(b, TextsAtEnd(b), b.family, Parsed(b, n))' /\ OthersKept(p)
    BY <1>3, <2>2, <2>3, InfoKept DEF InfoAt
  <2>7. UnderWay(b)'
    BY <1>3, <2>2, <2>5, <2>6, ClosingBegins
  <2> QED
    BY <1>6, <2>6, <2>7
<1> QED
  BY <1>4, <1>8, <1>9

-----------------------------------------------------------------------------

\* A batch that is not done is before an attribute, in one, or at a route.
Normal(b) ==
  \/ \E i \in 0 .. Len(b.values) : AttributesPhase(b, i)
  \/ \E i \in 0 .. Len(b.values) : i < Len(b.values) /\ ValuePhase(b, i)
  \/ \E i \in 1 .. Len(b.values) :
       /\ HasFamily(b.values[i])
       /\ \E k \in 0 .. Len(b.values[i].nlri) :
            k < Len(b.values[i].nlri) /\ ValueRoutesPhase(b, i, k)
  \/ \E k \in 0 .. Len(b.routes) : k < Len(b.routes) /\ ClosingPhase(b, k)

\* At the end of a phase the next begins.
LEMMA UnderWayIsNormal ==
  ASSUME NEW b, IsBatch(b), UnderWay(b)
  PROVE  Normal(b) \/ BatchDone(b)
<1>1. \A k \in 0 .. Len(b.routes) : k < Len(b.routes) \/ k = Len(b.routes)
  BY BatchFacts, ListFacts DEF IsRoutes
<1>2. ASSUME NEW i \in 1 .. Len(b.values), HasFamily(b.values[i]),
             NEW k \in 0 .. Len(b.values[i].nlri), ValueRoutesPhase(b, i, k)
      PROVE  Normal(b)
  BY <1>2, BatchFacts, RoutesOfMP, ListFacts, ValueRoutesDone DEF Normal, IsRoutes
<1>3. ASSUME NEW k \in 0 .. Len(b.routes), ClosingPhase(b, k)
      PROVE  Normal(b) \/ BatchDone(b)
  BY <1>1, <1>3, ClosingDone DEF Normal
<1> QED
  BY <1>2, <1>3 DEF UnderWay, Normal

\* A batch goes on until it is done.
LEMMA BatchStep ==
  ASSUME NEW b, IsBatch(b), UnderWay(b), ~BatchDone(b), Next
  PROVE  UnderWay(b)' /\ OthersKept(b.param) /\ message' = message /\ program' = program
<1> DEFINE Goal == UnderWay(b)' /\ OthersKept(b.param) /\ message' = message /\ program' = program
<1>1. ASSUME NEW i \in 0 .. Len(b.values), AttributesPhase(b, i)
      PROVE  Goal
  BY <1>1, ClosingStep, BatchFacts, AttributeStep DEF UnderWay
<1>2. ASSUME NEW i \in 0 .. Len(b.values), i < Len(b.values), ValuePhase(b, i)
      PROVE  Goal
  BY <1>2, ValueStep
<1>3. ASSUME NEW i \in 1 .. Len(b.values), HasFamily(b.values[i]),
             NEW k \in 0 .. Len(b.values[i].nlri), k < Len(b.values[i].nlri),
             ValueRoutesPhase(b, i, k)
      PROVE  Goal
  <2> DEFINE routes == b.values[i].nlri
             texts == TextsTo(b, i)
             family == b.values[i].afi
             parsed == Parsed(b, i - 1)
             pre == LinesBefore(b, i - 1)
             after == AttributesFrom(b, i)
  <2>1. i - 1 \in 0 .. Len(b.values) /\ i \in 0 .. Len(b.values)
    BY BatchFacts
  <2>2. IsRoutes(routes) /\ Len(routes) \in Nat
    BY <1>3, BatchFacts, RoutesOfMP, ListFacts DEF IsRoutes
  <2>3. IsList(after) /\ IsList(pre) /\ DOMAIN texts = TextFields /\ parsed \in BOOLEAN
    BY <2>1, PhaseFacts
  <2>4. RoutePhase(b, routes, k, after, pre, texts, family, parsed)
    BY <1>3 DEF ValueRoutesPhase
  <2>5. k \in 0 .. Len(routes) /\ k < Len(routes)
    BY <1>3
  <2> HIDE DEF routes, texts, family, parsed, pre, after
  <2>6. /\ RoutePhase(b, routes, k + 1, after, pre, texts, family, parsed)'
        /\ OthersKept(b.param) /\ message' = message /\ program' = program
    BY <2>2, <2>3, <2>4, <2>5, RouteStep
  <2>7. ValueRoutesPhase(b, i, k + 1)'
    BY <2>6 DEF ValueRoutesPhase, routes, texts, family, parsed, pre, after
  <2>8. k + 1 \in 0 .. Len(b.values[i].nlri)
    BY <2>2, <2>5 DEF routes
  <2> QED
    BY <1>3, <2>6, <2>7, <2>8 DEF UnderWay
<1>4. ASSUME NEW k \in 0 .. Len(b.routes), k < Len(b.routes), ClosingPhase(b, k)
      PROVE  Goal
  <2> DEFINE n == Len(b.values)
             routes == b.routes
             texts == TextsAtEnd(b)
             family == b.family
             parsed == Parsed(b, n)
             pre == LinesBefore(b, n)
             after == b.later
  <2>1. n \in 0 .. n /\ IsRoutes(routes) /\ IsList(after)
    BY BatchFacts
  <2>2. Len(routes) \in Nat
    BY <2>1, ListFacts DEF IsRoutes
  <2>3. IsList(pre) /\ DOMAIN texts = TextFields /\ parsed \in BOOLEAN
    BY <2>1, PhaseFacts DEF TextsAtEnd, TextsTo
  <2>4. RoutePhase(b, routes, k, after, pre, texts, family, parsed)
    BY <1>4 DEF ClosingPhase
  <2>5. k \in 0 .. Len(routes) /\ k < Len(routes)
    BY <1>4
  <2> HIDE DEF routes, texts, family, parsed, pre, after, n
  <2>6. /\ RoutePhase(b, routes, k + 1, after, pre, texts, family, parsed)'
        /\ OthersKept(b.param) /\ message' = message /\ program' = program
    BY <2>1, <2>2, <2>3, <2>4, <2>5, RouteStep
  <2>7. ClosingPhase(b, k + 1)'
    BY <2>6 DEF ClosingPhase, routes, texts, family, parsed, pre, after, n
  <2>8. k + 1 \in 0 .. Len(b.routes)
    BY <2>2, <2>5 DEF routes
  <2> QED
    BY <2>6, <2>7, <2>8 DEF UnderWay
<1> QED
  BY <1>1, <1>2, <1>3, <1>4, UnderWayIsNormal DEF Normal

\* There is something to visit until it is done.
LEMMA BatchEnds ==
  ASSUME NEW b, IsBatch(b), UnderWay(b), stack = << >>
  PROVE  BatchDone(b)
<1>1. ASSUME NEW s, NEW t, IsList(s), IsList(t), Len(s) # 0, stack = s \o t
      PROVE  FALSE
  <2>1. Len(s \o t) = 0
    BY <1>1, EmptyIsList
  <2> QED
    BY <1>1, <2>1, ConcatList, ListFacts
<1>2. ASSUME NEW f, NEW t, IsList(t), stack = <<f>> \o t
      PROVE  FALSE
  BY <1>2, TopOf
<1>3. ASSUME NEW i \in 0 .. Len(b.values), AttributesPhase(b, i)
      PROVE  FALSE
  <2>1. CASE i = Len(b.values)
    BY <1>2, <1>3, <2>1, PhaseFacts, BatchFacts DEF AttributesPhase, Rest
  <2>2. CASE i # Len(b.values)
    <3>1. i < Len(b.values) /\ i + 1 \in 0 .. Len(b.values)
      BY <2>2, BatchFacts
    <3>2. stack = <<FrameOf(As("BGPAttribute", b.values[i + 1]), b.param)>>
                    \o AttributesFrom(b, i + 1)
      BY <1>3, <3>1, PhaseFacts DEF AttributesPhase
    <3> QED
      BY <1>2, <3>1, <3>2, PhaseFacts
  <2> QED
    BY <2>1, <2>2
<1>4. ASSUME NEW i \in 0 .. Len(b.values), i < Len(b.values), ValuePhase(b, i)
      PROVE  FALSE
  <2>1. i + 1 \in 0 .. Len(b.values)
    BY <1>4, BatchFacts
  <2>2. IsList(AttributesFrom(b, i + 1))
    BY <2>1, PhaseFacts
  <2> QED
    BY <1>2, <1>4, <2>2 DEF ValuePhase
<1>5. ASSUME NEW routes, IsRoutes(routes), NEW k \in 0 .. Len(routes), k < Len(routes),
             NEW after, IsList(after),
             stack = Accepts(Me, After(Each(routes), k), b.param) \o after
      PROVE  FALSE
  <2>1. IsList(routes) /\ Len(routes) \in Nat
    BY <1>5, ListFacts DEF IsRoutes
  <2>2. IsList(Each(routes)) /\ Len(Each(routes)) = Len(routes)
    BY <2>1, EachIs
  <2> DEFINE s == Accepts(Me, After(Each(routes), k), b.param)
  <2>3. IsList(s) /\ Len(s) = Len(Each(routes)) - k
    <3> DEFINE parts == Each(routes)
    <3>1. IsList(parts) /\ k \in 0 .. Len(parts)
      BY <1>5, <2>2
    <3> HIDE DEF parts
    <3>2. Len(Accepts(Me, After(parts, k), b.param)) = Len(parts) - k
      BY <3>1, AcceptsAfter
    <3> QED
      BY <3>1, <3>2, AcceptsAfter DEF parts
  <2>4. Len(s) # 0
    BY <1>5, <2>1, <2>2, <2>3
  <2> HIDE DEF s
  <2>5. stack = s \o after
    BY <1>5 DEF s
  <2> QED
    BY <1>1, <1>5, <2>3, <2>4, <2>5
<1>6. ASSUME NEW i \in 1 .. Len(b.values), HasFamily(b.values[i]),
             NEW k \in 0 .. Len(b.values[i].nlri), k < Len(b.values[i].nlri),
             ValueRoutesPhase(b, i, k)
      PROVE  FALSE
  <2> DEFINE routes == b.values[i].nlri
  <2>1. i \in 0 .. Len(b.values) /\ IsValue(b.values[i].class, b.values[i])
    BY BatchFacts
  <2>2. IsRoutes(routes) /\ IsList(AttributesFrom(b, i))
    BY <1>6, <2>1, RoutesOfMP, PhaseFacts
  <2>3. stack = Accepts(Me, After(Each(routes), k), b.param) \o AttributesFrom(b, i)
    BY <1>6 DEF ValueRoutesPhase, RoutePhase
  <2>4. k \in 0 .. Len(routes) /\ k < Len(routes)
    BY <1>6
  <2> HIDE DEF routes
  <2> QED
    BY <1>5, <2>2, <2>3, <2>4
<1>7. ASSUME NEW k \in 0 .. Len(b.routes), k < Len(b.routes), ClosingPhase(b, k)
      PROVE  FALSE
  <2> DEFINE routes == b.routes
  <2>1. IsRoutes(routes) /\ IsList(b.later)
    BY BatchFacts
  <2>2. stack = Accepts(Me, After(Each(routes), k), b.param) \o b.later
    BY <1>7 DEF ClosingPhase, RoutePhase
  <2>3. k \in 0 .. Len(routes) /\ k < Len(routes)
    BY <1>7
  <2> HIDE DEF routes
  <2> QED
    BY <1>5, <2>1, <2>2, <2>3
<1> QED
  BY <1>3, <1>4, <1>6, <1>7, UnderWayIsNormal DEF Normal

-----------------------------------------------------------------------------
(* The batches of a record                                                 *)

\* The attributes and routes of an UPDATE.
UpdateBatch(m, garbage) ==
  [type |-> "BGP4MP", kind |-> "A", ip |-> m.peer.ip, afi |-> m.peer.afi, as |-> m.peer.as,
   values |-> m.payload.pathAttributes, initial |-> garbage,
   closing |-> As("UpdateRoutes", m.payload),
   routes |-> m.payload.withdrawnRoutes \o m.payload.nlriRoutes, family |-> IPv4,
   param |-> 1, before |-> << >>, later |-> << >>]

\* The attributes and prefix of a record of a table, or of an entry of one.
TableBatch(type, peer, values, prefix, initial, param, before, later) ==
  [type |-> type, kind |-> "B", ip |-> peer.ip, afi |-> peer.afi, as |-> peer.as,
   values |-> values, initial |-> initial, closing |-> OwnPrefix(prefix),
   routes |-> IF HasRoutes(values) THEN << >> ELSE <<NLRIReachable(prefix)>>,
   family |-> FamilySeen(values, Len(values), initial),
   param |-> param, before |-> before, later |-> later]

DumpBatch(m) ==
  TableBatch("TABLE_DUMP", [ip |-> m.peer.ip, afi |-> m.subType, as |-> m.peer.as],
             m.attributes, m.prefix, m.subType, 1, << >>, << >>)

\* The lines of a RIB's entries, and of the first e.
LinesOfEntry(m, e) ==
  LinesOfTable(HeadOf("TABLE_DUMP2", "B", m.ribEntries[e].peer.ip, m.ribEntries[e].peer.afi,
                      m.ribEntries[e].peer.as),
               m.ribEntries[e].attributes, m.prefix, m.afi)

LinesOfEntries(m) == [e \in 1 .. Len(m.ribEntries) |-> LinesOfEntry(m, e)]
LinesToEntry(m, e) == FlattenSeq(FirstOf(LinesOfEntries(m), e))

\* What BGPRibHeader goes on to.
EntriesParts(m) ==
  [i \in DOMAIN m.ribEntries |->
     As("RibEntry", [entry |-> m.ribEntries[i], prefix |-> m.prefix])]

EntryBatch(m, e, p) ==
  TableBatch("TABLE_DUMP2", m.ribEntries[e].peer, m.ribEntries[e].attributes, m.prefix, m.afi, p,
             LinesToEntry(m, e - 1), Accepts(Me, After(EntriesParts(m), e), 1))

-----------------------------------------------------------------------------

\* The lines of a batch's attributes.
LEMMA LinesToEnd ==
  ASSUME NEW b, IsBatch(b)
  PROVE  LinesTo(b, Len(b.values)) = LinesOfAttributes(HeadOfBatch(b), b.values, b.initial)
<1> DEFINE values == b.values
           s == LinesOfValues(b)
           f == [i \in DOMAIN values |->
                   IF values[i].class \in MPClasses /\ values[i].afi # 0
                   THEN LinesOfRoutes(HeadOfBatch(b), values[i].nlri, values[i].afi,
                                      SeenTexts(values, i, b.initial))
                   ELSE << >>]
<1>1. IsList(s) /\ Len(s) = Len(values) /\ Len(values) \in Nat /\ DOMAIN values = 1 .. Len(values)
  BY LinesOfValuesAre, BatchFacts, ListFacts DEF IsListOfLists
<1>2. FirstOf(s, Len(values)) = s
  <2> HIDE DEF s, values
  <2> QED
    BY <1>1, FirstOfList
<1>3. s = f
  BY <1>1 DEF LinesOfValues, LinesOfValue, HasFamily
<1>4. LinesOfAttributes(HeadOfBatch(b), values, b.initial) = FlattenSeq(f)
  BY DEF LinesOfAttributes
<1> HIDE DEF f, s
<1> QED
  BY <1>2, <1>3, <1>4 DEF LinesTo, s

\* All lines of a batch.
LEMMA LinesOfBatchIs ==
  ASSUME NEW b, IsBatch(b)
  PROVE  LinesOfBatch(b) =
           LinesOfAttributes(HeadOfBatch(b), b.values, b.initial)
             \o LinesOfRoutes(HeadOfBatch(b), b.routes, b.family,
                              SeenTexts(b.values, Len(b.values), b.initial))
BY LinesToEnd DEF LinesOfBatch, TextsAtEnd

\* The batch of an UPDATE has the lines the UPDATE calls for.
LEMMA UpdateBatchIs ==
  ASSUME NEW m, NEW garbage, IsMessage("BGPUpdate", m.payload), m.payload.class = "BGPUpdate"
  PROVE  /\ IsBatch(UpdateBatch(m, garbage))
         /\ LinesOfBatch(UpdateBatch(m, garbage)) = ExpectedOfMessage(m, garbage)
<1> DEFINE b == UpdateBatch(m, garbage)
           u == m.payload
<1>1. /\ b.type = "BGP4MP" /\ b.kind = "A" /\ b.ip = m.peer.ip /\ b.afi = m.peer.afi
      /\ b.as = m.peer.as /\ b.values = u.pathAttributes /\ b.initial = garbage
      /\ b.closing = As("UpdateRoutes", u) /\ b.routes = u.withdrawnRoutes \o u.nlriRoutes
      /\ b.family = IPv4 /\ b.before = << >> /\ b.later = << >>
  BY DEF UpdateBatch
<1>2. b.closing.class = "UpdateRoutes" /\ b.closing.node = u
  BY <1>1 DEF As
<1>3. /\ AreValues(u.pathAttributes)
      /\ AreRoutes("NLRIUnReachable", u.withdrawnRoutes) /\ AreRoutes("NLRIReachable", u.nlriRoutes)
  BY DEF IsMessage
<1>4. IsRoutes(u.withdrawnRoutes \o u.nlriRoutes)
  <2> DEFINE s == u.withdrawnRoutes
             t == u.nlriRoutes
  <2>1. /\ IsList(s) /\ \A i \in 1 .. Len(s) : s[i].class = "NLRIUnReachable"
        /\ IsList(t) /\ \A i \in 1 .. Len(t) : t[i].class = "NLRIReachable"
    BY <1>3, ElementOfList DEF AreRoutes
  <2> HIDE DEF s, t
  <2>2. /\ IsList(s \o t) /\ Len(s \o t) = Len(s) + Len(t)
        /\ \A i \in 1 .. Len(s) + Len(t) : (s \o t)[i] = IF i <= Len(s) THEN s[i] ELSE t[i - Len(s)]
    BY <2>1, ConcatList
  <2>3. Len(s) \in Nat /\ Len(t) \in Nat
    BY <2>1, ListFacts
  <2>4. ASSUME NEW i \in 1 .. Len(s \o t)
        PROVE  (s \o t)[i].class \in {"NLRIReachable", "NLRIUnReachable"}
    BY <2>1, <2>2, <2>3
  <2> QED
    BY <2>2, <2>4 DEF s, t, IsRoutes
<1>5. IsList(u.withdrawnRoutes) /\ IsList(u.nlriRoutes)
  BY <1>3 DEF AreRoutes
<1> HIDE DEF b
<1>6. IsBatch(b)
  BY <1>1, <1>2, <1>3, <1>4, <1>5, EmptyIsList DEF IsBatch
<1>7. LinesOfBatch(b) = ExpectedOfMessage(m, garbage)
  BY <1>1, <1>6, LinesOfBatchIs DEF ExpectedOfMessage, HeadOfBatch
<1> QED
  BY <1>6, <1>7 DEF b

\* The batch of a record of a table, or of an entry, has its lines.
LEMMA TableBatchIs ==
  ASSUME NEW type, NEW peer, NEW values, NEW prefix, NEW initial, NEW param, NEW before, NEW later,
         AreValues(values), IsList(before), IsList(later)
  PROVE  LET b == TableBatch(type, peer, values, prefix, initial, param, before, later)
         IN  /\ IsBatch(b)
             /\ LinesOfBatch(b) =
                  LinesOfTable(HeadOf(type, "B", peer.ip, peer.afi, peer.as), values, prefix, initial)
<1> DEFINE b == TableBatch(type, peer, values, prefix, initial, param, before, later)
<1>1. /\ b.type = type /\ b.kind = "B" /\ b.ip = peer.ip /\ b.afi = peer.afi
      /\ b.as = peer.as /\ b.values = values /\ b.initial = initial
      /\ b.closing = OwnPrefix(prefix)
      /\ b.routes = IF HasRoutes(values) THEN << >> ELSE <<NLRIReachable(prefix)>>
      /\ b.family = FamilySeen(values, Len(values), initial) /\ b.before = before /\ b.later = later
  BY DEF TableBatch
<1>2. /\ b.closing.class = "OwnPrefix" /\ b.closing.node = NLRIReachable(prefix)
      /\ NLRIReachable(prefix).class = "NLRIReachable"
  BY <1>1 DEF As, OwnPrefix, NLRIReachable
<1> HIDE DEF b
<1>3. IsRoutes(b.routes)
  <2>1. CASE HasRoutes(values)
    BY <1>1, <2>1, EmptyIsList DEF IsRoutes
  <2>2. CASE ~HasRoutes(values)
    <3> DEFINE s == <<NLRIReachable(prefix)>>
    <3>1. b.routes = s
      BY <1>1, <2>2
    <3>2. IsList(s) /\ Len(s) = 1 /\ s[1] = NLRIReachable(prefix)
      BY SingleList
    <3>3. \A i \in 1 .. 1 : i = 1
      OBVIOUS
    <3> HIDE DEF s
    <3> QED
      BY <1>2, <3>1, <3>2, <3>3 DEF IsRoutes
  <2> QED
    BY <2>1, <2>2
<1>4. IsBatch(b)
  BY <1>1, <1>2, <1>3 DEF IsBatch
<1>5. LinesOfBatch(b) =
        LinesOfTable(HeadOf(type, "B", peer.ip, peer.afi, peer.as), values, prefix, initial)
  BY <1>1, <1>4, LinesOfBatchIs DEF LinesOfTable, HeadOfBatch
<1> QED
  BY <1>4, <1>5 DEF b

\* A RIB, its entries and what they go on to.
IsRib(m) ==
  /\ IsList(m.ribEntries)
  /\ \A e \in 1 .. Len(m.ribEntries) :
       m.ribEntries[e].class = "TblDumpV2RibEntry" /\ AreValues(m.ribEntries[e].attributes)

\* The entries of a RIB are what its header goes on to.
LEMMA RibFacts ==
  ASSUME NEW m, IsRib(m)
  PROVE  /\ Len(m.ribEntries) \in Nat /\ DOMAIN m.ribEntries = 1 .. Len(m.ribEntries)
         /\ IsList(EntriesParts(m)) /\ Len(EntriesParts(m)) = Len(m.ribEntries)
         /\ \A e \in 1 .. Len(m.ribEntries) :
              EntriesParts(m)[e] = As("RibEntry", [entry |-> m.ribEntries[e], prefix |-> m.prefix])
<1> DEFINE n == Len(m.ribEntries)
           s == EntriesParts(m)
<1>1. n \in Nat /\ DOMAIN m.ribEntries = 1 .. n
  BY ListFacts DEF IsRib
<1>2. /\ s = [i \in 1 .. n |-> s[i]]
      /\ \A e \in 1 .. n : s[e] = As("RibEntry", [entry |-> m.ribEntries[e], prefix |-> m.prefix])
  BY <1>1 DEF EntriesParts
<1> HIDE DEF s, n
<1> QED
  BY <1>1, <1>2, FunctionIsList DEF s, n

\* The lines of a batch are a list.
LEMMA LinesOfBatchAreList ==
  ASSUME NEW b, IsBatch(b)
  PROVE  IsList(LinesOfBatch(b))
<1> DEFINE n == Len(b.values)
           s == LinesTo(b, n)
           t == LinesOfRoutes(HeadOfBatch(b), b.routes, b.family, TextsAtEnd(b))
<1>1. IsList(s)
  BY LinesToAre, BatchFacts
<1>2. IsList(t)
  BY BatchFacts, LinesOfRoutesAre DEF IsRoutes
<1> HIDE DEF s, t
<1>3. IsList(s \o t)
  BY <1>1, <1>2, ConcatList
<1> QED
  BY <1>3 DEF LinesOfBatch, s, t

\* The lines of a record of a table are a list.
LEMMA TableLinesAreList ==
  ASSUME NEW head, NEW values, NEW prefix, NEW afi, AreValues(values),
         NEW type, NEW peer, head = HeadOf(type, "B", peer.ip, peer.afi, peer.as)
  PROVE  IsList(LinesOfTable(head, values, prefix, afi))
<1> DEFINE b == TableBatch(type, peer, values, prefix, afi, 1, << >>, << >>)
<1>1. IsBatch(b) /\ LinesOfBatch(b) = LinesOfTable(head, values, prefix, afi)
  BY TableBatchIs, EmptyIsList
<1> HIDE DEF b
<1> QED
  BY <1>1, LinesOfBatchAreList

\* The lines of one entry more come at the end.
LEMMA LinesToEntryAre ==
  ASSUME NEW m, IsRib(m), NEW e \in 0 .. Len(m.ribEntries)
  PROVE  /\ IsList(LinesToEntry(m, e))
         /\ e = 0 => LinesToEntry(m, e) = << >>
         /\ e < Len(m.ribEntries) =>
              LinesToEntry(m, e + 1) = LinesToEntry(m, e) \o LinesOfEntry(m, e + 1)
         /\ e = Len(m.ribEntries) => LinesToEntry(m, e) = FlattenSeq(LinesOfEntries(m))
<1> DEFINE n == Len(m.ribEntries)
           s == LinesOfEntries(m)
<1>1. n \in Nat
  BY RibFacts
<1>2. s = [i \in 1 .. n |-> s[i]] /\ \A i \in 1 .. n : s[i] = LinesOfEntry(m, i)
  BY DEF LinesOfEntries
<1> HIDE DEF s
<1>3. IsList(s) /\ Len(s) = n
  <2> HIDE DEF n
  <2> QED
    BY <1>1, <1>2, FunctionIsList
<1>4. ASSUME NEW i \in 1 .. n PROVE IsList(s[i])
  <2>1. AreValues(m.ribEntries[i].attributes)
    BY DEF IsRib
  <2>2. IsList(LinesOfEntry(m, i))
    <3> DEFINE peer == m.ribEntries[i].peer
               values == m.ribEntries[i].attributes
               head == HeadOf("TABLE_DUMP2", "B", peer.ip, peer.afi, peer.as)
    <3>1. AreValues(values) /\ head = HeadOf("TABLE_DUMP2", "B", peer.ip, peer.afi, peer.as)
      BY <2>1
    <3>2. LinesOfEntry(m, i) = LinesOfTable(head, values, m.prefix, m.afi)
      BY DEF LinesOfEntry
    <3> HIDE DEF peer, values, head
    <3>3. IsList(LinesOfTable(head, values, m.prefix, m.afi))
      BY <3>1, TableLinesAreList
    <3> QED
      BY <3>2, <3>3
  <2> QED
    BY <1>2, <2>2
<1>5. ASSUME NEW j \in 0 .. n
      PROVE  IsListOfLists(FirstOf(s, j)) /\ IsList(FirstOf(s, j))
  <2>1. \A i \in 1 .. j : FirstOf(s, j)[i] = s[i] /\ i \in 1 .. n
    BY <1>1 DEF FirstOf
  <2> QED
    BY <1>3, <1>4, <2>1, FirstOfList DEF IsListOfLists
<1>6. IsList(LinesToEntry(m, e))
  BY <1>5, FlattenIsList DEF LinesToEntry, s
<1>7. e = 0 => LinesToEntry(m, e) = << >>
  BY <1>1, <1>3, FirstOfList, FlattenEmpty DEF LinesToEntry, s
<1>8. e = n => LinesToEntry(m, e) = FlattenSeq(LinesOfEntries(m))
  BY <1>1, <1>3, FirstOfList DEF LinesToEntry, s
<1>9. ASSUME e < n
      PROVE  LinesToEntry(m, e + 1) = LinesToEntry(m, e) \o LinesOfEntry(m, e + 1)
  <2>1. e + 1 \in 1 .. n /\ e \in 0 .. Len(s) /\ e < Len(s)
    BY <1>1, <1>3, <1>9
  <2>2. s[e + 1] = LinesOfEntry(m, e + 1) /\ IsList(s[e + 1])
    BY <1>2, <1>4, <2>1
  <2>3. FirstOf(s, e + 1) = Append(FirstOf(s, e), s[e + 1])
    BY <1>3, <2>1, FirstOfList
  <2> QED
    BY <1>5, <2>2, <2>3, FlattenAppend DEF LinesToEntry, s
<1> QED
  BY <1>6, <1>7, <1>8, <1>9 DEF n

\* An entry's batch has its lines, after those of the entries before.
LEMMA EntryBatchIs ==
  ASSUME NEW m, IsRib(m), NEW e \in 1 .. Len(m.ribEntries), NEW p
  PROVE  /\ IsBatch(EntryBatch(m, e, p))
         /\ EntryBatch(m, e, p).before \o LinesOfBatch(EntryBatch(m, e, p)) = LinesToEntry(m, e)
         /\ EntryBatch(m, e, p).later = Accepts(Me, After(EntriesParts(m), e), 1)
         /\ EntryBatch(m, e, p).param = p
<1> DEFINE b == EntryBatch(m, e, p)
           before == LinesToEntry(m, e - 1)
           later == Accepts(Me, After(EntriesParts(m), e), 1)
           values == m.ribEntries[e].attributes
           peer == m.ribEntries[e].peer
<1>1. /\ e - 1 \in 0 .. Len(m.ribEntries) /\ e - 1 < Len(m.ribEntries) /\ (e - 1) + 1 = e
      /\ e \in 0 .. Len(m.ribEntries)
  BY RibFacts
<1>2. IsList(before)
  BY <1>1, LinesToEntryAre
<1>3. IsList(later)
  <2> DEFINE parts == EntriesParts(m)
  <2>1. IsList(parts) /\ e \in 0 .. Len(parts)
    BY <1>1, RibFacts
  <2> HIDE DEF parts
  <2>2. IsList(Accepts(Me, After(parts, e), 1))
    BY <2>1, AcceptsAfter
  <2> QED
    BY <2>2 DEF parts
<1>4. AreValues(values)
  BY DEF IsRib
<1>5. b = TableBatch("TABLE_DUMP2", peer, values, m.prefix, m.afi, p, before, later)
  BY DEF EntryBatch
<1>6. b.before = before /\ b.later = later /\ b.param = p
  BY <1>5 DEF TableBatch
<1>7. LinesToEntry(m, e) = before \o LinesOfEntry(m, e)
  <2> DEFINE d == e - 1
  <2>1. d \in 0 .. Len(m.ribEntries) /\ d < Len(m.ribEntries) /\ d + 1 = e
    BY <1>1
  <2> HIDE DEF d
  <2> QED
    BY <2>1, LinesToEntryAre DEF d
<1>8. LinesOfEntry(m, e)
        = LinesOfTable(HeadOf("TABLE_DUMP2", "B", peer.ip, peer.afi, peer.as), values, m.prefix, m.afi)
  BY DEF LinesOfEntry
<1> HIDE DEF b, before, later, values, peer
<1>9. IsBatch(b) /\ LinesOfBatch(b) = LinesOfEntry(m, e)
  BY <1>2, <1>3, <1>4, <1>5, <1>8, TableBatchIs
<1> QED
  BY <1>6, <1>7, <1>9 DEF b, later

-----------------------------------------------------------------------------
(* A batch begins                                                          *)

\* A batch is under way when its attributes are on the stack and its Info is new.
LEMMA BatchBegins ==
  ASSUME NEW b, IsBatch(b),
         stack' = Accepts(Me, Attributes(b.values), b.param) \o Rest(b), printed' = b.before,
         IsList(infos'), b.param \in 1 .. Len(infos'),
         InfoSays(infos'[b.param], b, Defaults, b.initial), infos'[b.param].parseNLRI = FALSE
  PROVE  UnderWay(b)'
<1>1. 0 \in 0 .. Len(b.values)
  BY BatchFacts
<1>2. AttributesFrom(b, 0) = Accepts(Me, Attributes(b.values), b.param) \o Rest(b)
  <2> DEFINE parts == Attributes(b.values)
  <2>1. IsList(parts) /\ 0 \in 0 .. Len(parts)
    BY <1>1, BatchFacts
  <2> HIDE DEF parts
  <2>2. Accepts(Me, After(parts, 0), b.param) = Accepts(Me, parts, b.param)
    BY <2>1, AcceptsAfter
  <2> QED
    BY <2>2 DEF AttributesFrom, parts
<1>3. LinesBefore(b, 0) = b.before
  <2>1. LinesTo(b, 0) = << >> /\ IsList(b.before)
    BY Zenon, <1>1, LinesToAre DEF IsBatch
  <2> QED
    BY <2>1, ConcatEmpty DEF LinesBefore
<1>4. Parsed(b, 0) = FALSE
  BY DEF Parsed
<1>5. FamilyTo(b, 0) = b.initial
  BY FamilySeenNone DEF FamilyTo
<1>6. \A f \in TextFields : TextsTo(b, 0)[f] = Defaults[f]
  BY SeenTextsNone DEF TextsTo
<1>7. InfoSays(infos'[b.param], b, TextsTo(b, 0), FamilyTo(b, 0))
  <2> DEFINE info == infos'[b.param]
             old == Defaults
             new == TextsTo(b, 0)
             family == b.initial
  <2>1. InfoSays(info, b, old, family) /\ \A f \in TextFields : new[f] = old[f]
    BY <1>6
  <2> HIDE DEF info, old, new, family
  <2>2. InfoSays(info, b, new, family)
    BY <2>1, SameTexts
  <2> QED
    BY <1>5, <2>2 DEF info, new, family
<1>8. AttributesPhase(b, 0)'
  BY <1>2, <1>3, <1>4, <1>7 DEF AttributesPhase, InfoAfter, InfoAt
<1> QED
  BY <1>1, <1>8 DEF UnderWay

\* One more part has the last frame.
LEMMA AcceptsAppend ==
  ASSUME NEW parts, IsList(parts), NEW x, NEW p
  PROVE  Accepts(Me, Append(parts, x), p) = Accepts(Me, parts, p) \o <<FrameOf(x, p)>>
<1> DEFINE u == Append(parts, x)
           s == Accepts(Me, parts, p)
           t == <<FrameOf(x, p)>>
           w == Accepts(Me, u, p)
           n == Len(parts)
<1>1. n \in Nat
  BY ListFacts
<1>2. /\ IsList(u) /\ Len(u) = n + 1 /\ (\A i \in 1 .. n : u[i] = parts[i]) /\ u[n + 1] = x
  BY ZenonT(60), AppendList
<1>3. IsList(s) /\ Len(s) = n /\ \A i \in 1 .. n : s[i] = FrameOf(parts[i], p)
  BY AcceptsAre DEF FrameOf
<1>4. IsList(t) /\ Len(t) = 1 /\ t[1] = FrameOf(x, p)
  BY SingleList
<1> HIDE DEF u, s, t, n
<1>5. IsList(w) /\ Len(w) = n + 1 /\ \A i \in 1 .. n + 1 : w[i] = FrameOf(u[i], p)
  BY <1>2, AcceptsAre DEF FrameOf
<1>6. /\ IsList(s \o t) /\ Len(s \o t) = n + 1
      /\ \A i \in 1 .. n + 1 : (s \o t)[i] = IF i <= n THEN s[i] ELSE t[i - n]
  <2>1. /\ IsList(s \o t) /\ Len(s \o t) = Len(s) + Len(t)
        /\ \A i \in 1 .. Len(s) + Len(t) :
             (s \o t)[i] = IF i <= Len(s) THEN s[i] ELSE t[i - Len(s)]
    BY <1>3, <1>4, ConcatList
  <2>2. Len(s) = n /\ Len(t) = 1
    BY <1>3, <1>4
  <2> QED
    BY <2>1, <2>2
<1> HIDE DEF w
<1>7. ASSUME NEW i \in 1 .. n + 1 PROVE w[i] = (s \o t)[i]
  BY <1>1, <1>2, <1>3, <1>4, <1>5, <1>6
<1>8. w = s \o t
  BY <1>5, <1>6, <1>7, ListEqual
<1> QED
  BY <1>8 DEF w, u, s, t

\* The attributes and the part after them, put on an otherwise empty stack.
LEMMA BatchPushed ==
  ASSUME NEW b, b.later = << >>, IsBatch(b)
  PROVE  Accepts(Me, Append(Attributes(b.values), b.closing), b.param) \o << >>
           = Accepts(Me, Attributes(b.values), b.param) \o Rest(b)
<1> DEFINE parts == Attributes(b.values)
           x == b.closing
           p == b.param
           s == Accepts(Me, parts, p)
           t == <<FrameOf(x, p)>>
<1>1. IsList(parts)
  BY BatchFacts
<1>2. Rest(b) = t \o << >>
  BY DEF Rest
<1> HIDE DEF parts, x, p
<1>3. Accepts(Me, Append(parts, x), p) = s \o t
  BY <1>1, AcceptsAppend
<1>4. IsList(s) /\ IsList(t)
  BY <1>1, AcceptsAre, SingleList
<1> HIDE DEF s, t
<1>5. (s \o t) \o << >> = s \o t /\ t \o << >> = t
  BY <1>4, ConcatEmpty, ConcatList
<1> QED
  BY <1>2, <1>3, <1>5 DEF s, parts, x, p

-----------------------------------------------------------------------------
(* The Infos                                                               *)

\* The Info a visit starts with.
LEMMA NewInfoSays ==
  ASSUME NEW b, NEW garbage
  PROVE  /\ InfoSays(NewInfo(b.type, b.kind, b.ip, b.afi, b.as, garbage), b, Defaults, garbage)
         /\ NewInfo(b.type, b.kind, b.ip, b.afi, b.as, garbage).parseNLRI = FALSE
<1> DEFINE info == NewInfo(b.type, b.kind, b.ip, b.afi, b.as, garbage)
<1>1. info = [f \in InfoFields |-> info[f]]
  BY DEF NewInfo, InfoFields, TextFields
<1>2. /\ info.mrt_type = b.type /\ info.dump_type = b.kind /\ info.peer_addr = b.ip
      /\ info.peer_afi = b.afi /\ info.peer_as = b.as /\ info.afi = garbage
      /\ info.parseNLRI = FALSE
  BY DEF NewInfo
<1>3. \A f \in TextFields : info[f] = Defaults[f]
  <2>1. /\ info.as_path = Defaults.as_path /\ info.origin = Defaults.origin
        /\ info.next_hop = Defaults.next_hop /\ info.med = Defaults.med
        /\ info.lpref = Defaults.lpref /\ info.atomic_agg = Defaults.atomic_agg
        /\ info.agg = Defaults.agg /\ info.communities = Defaults.communities
    BY DEF NewInfo, Defaults
  <2> HIDE DEF info
  <2> QED
    BY <2>1 DEF TextFields
<1> HIDE DEF info
<1> QED
  BY <1>1, <1>2, <1>3 DEF InfoSays, info

\* The Info that the entries of a RIB are given copies of.
IsShared(info, m) ==
  /\ info = [f \in InfoFields |-> info[f]]
  /\ info.mrt_type = "TABLE_DUMP2" /\ info.dump_type = "B"
  /\ \A f \in TextFields : info[f] = Defaults[f]
  /\ info.afi = m.afi /\ info.parseNLRI = FALSE

\* A RIB's family is written into the new Info.
LEMMA SharedBegins ==
  ASSUME NEW m, NEW garbage
  PROVE  IsShared([NewInfo("TABLE_DUMP2", "B", NoAddress, 0, 0, garbage) EXCEPT !.afi = m.afi], m)
<1> DEFINE b == [type |-> "TABLE_DUMP2", kind |-> "B", ip |-> NoAddress, afi |-> 0, as |-> 0]
           info == NewInfo("TABLE_DUMP2", "B", NoAddress, 0, 0, garbage)
           x == [info EXCEPT !.afi = m.afi]
<1>1. /\ b.type = "TABLE_DUMP2" /\ b.kind = "B" /\ b.ip = NoAddress /\ b.afi = 0 /\ b.as = 0
  OBVIOUS
<1> HIDE DEF b
<1>2. InfoSays(info, b, Defaults, garbage) /\ info.parseNLRI = FALSE
  BY <1>1, NewInfoSays
<1> HIDE DEF info
<1>3. InfoSays(x, b, Defaults, m.afi) /\ x.parseNLRI = FALSE
  BY <1>2, SetFamily
<1> HIDE DEF x
<1>4. IsShared(x, m)
  BY <1>1, <1>3 DEF InfoSays, IsShared
<1> QED
  BY <1>4 DEF x, info

\* An entry's peer is written into the shared Info.
LEMMA SetPeer ==
  ASSUME NEW info, NEW m, IsShared(info, m), NEW b, b.type = "TABLE_DUMP2", b.kind = "B",
         NEW x, x = [info EXCEPT !.peer_addr = b.ip, !.peer_as = b.as, !.peer_afi = b.afi]
  PROVE  IsShared(x, m) /\ InfoSays(x, b, Defaults, m.afi) /\ x.parseNLRI = FALSE
  BY DEF IsShared, InfoFields, TextFields, InfoSays

-----------------------------------------------------------------------------
(* Where a visit of AsciiVisitor is, and what it has printed               *)

\* Expected(garbage), of a record.
ExpectedOf(m, garbage) ==
  CASE m.class \in MessageClasses -> ExpectedOfMessage(m, garbage)
    [] m.class = "MRTTblDump" -> ExpectedOfTblDump(m)
    [] m.class \in StateChangeClasses -> <<ExpectedOfStateChange(m)>>
    [] m.class \in RibRecords -> ExpectedOfRib(m)
    [] OTHER -> << >>

\* The lines of the record that is visited.
LEMMA ExpectedIs ==
  ASSUME NEW garbage
  PROVE  Expected(garbage) = ExpectedOf(message, garbage)
BY DEF Expected, ExpectedOf

\* The record's lines, by its class.
LEMMA ExpectedOfClass ==
  ASSUME NEW m, NEW garbage
  PROVE  /\ m.class \in MessageClasses => ExpectedOf(m, garbage) = ExpectedOfMessage(m, garbage)
         /\ m.class = "MRTTblDump" => ExpectedOf(m, garbage) = ExpectedOfTblDump(m)
         /\ m.class \in StateChangeClasses =>
              ExpectedOf(m, garbage) = <<ExpectedOfStateChange(m)>>
         /\ m.class \in RibRecords => ExpectedOf(m, garbage) = ExpectedOfRib(m)
         /\ m.class \notin MessageClasses \cup {"MRTTblDump"} \cup StateChangeClasses \cup RibRecords
              => ExpectedOf(m, garbage) = << >>
  BY DEF MessageClasses, StateChangeClasses, RibRecords, ExpectedOf

\* The record itself is visited, as its class or as the one it is copied into.
Before(m) ==
  /\ \E class :
       /\ class = m.class \/ (m.class \in DOMAIN Base /\ class = Base[m.class])
       /\ stack = <<[visitor |-> "AsciiVisitor", class |-> class, node |-> m, param |-> NoParam]>>
  /\ infos = << >> /\ printed = << >>

\* AsciiBGPVisitor has been handed a part of it, with an Info of its own.
Handed(m, garbage) ==
  /\ \/ /\ m.class \in MessageClasses
        /\ stack = <<FrameOf(As(m.payload.class, m.payload), 1)>>
        /\ infos = <<NewInfo("BGP4MP", "A", m.peer.ip, m.peer.afi, m.peer.as, garbage)>>
     \/ /\ m.class = "MRTTblDump"
        /\ stack = <<FrameOf(As("MRTTblDump", m), 1)>>
        /\ infos = <<NewInfo("TABLE_DUMP", "B", m.peer.ip, m.subType, m.peer.as, garbage)>>
     \/ /\ m.class \in RibRecords
        /\ stack = <<FrameOf(As("MRTTblDumpV2RibHeader", m), 1)>>
        /\ infos = <<NewInfo("TABLE_DUMP2", "B", NoAddress, 0, 0, garbage)>>
  /\ printed = << >>

\* The only batch of a record.
OnlyBatch(m, garbage) ==
  \E b : /\ IsBatch(b) /\ b.param = 1 /\ b.before = << >> /\ b.later = << >>
         /\ LinesOfBatch(b) = ExpectedOf(m, garbage)
         /\ UnderWay(b)

SharedInfo(m) == IsList(infos) /\ 1 \in 1 .. Len(infos) /\ IsShared(infos[1], m)

\* The first e entries of a RIB are done.
EntriesDone(m, e) ==
  /\ stack = Accepts(Me, After(EntriesParts(m), e), 1)
  /\ printed = LinesToEntry(m, e)
  /\ SharedInfo(m)

\* Entry e has been given its Info.
EntryBegun(m, e, p) ==
  /\ stack = <<FrameOf(As("TblDumpV2RibEntry", m.ribEntries[e]), p)>> \o Rest(EntryBatch(m, e, p))
  /\ printed = LinesToEntry(m, e - 1)
  /\ p \in 1 .. Len(infos)
  /\ InfoSays(infos[p], EntryBatch(m, e, p), Defaults, m.afi)
  /\ infos[p].parseNLRI = FALSE

InEntries(m) ==
  \/ \E e \in 0 .. Len(m.ribEntries) : EntriesDone(m, e)
  \/ \E e \in 1 .. Len(m.ribEntries) : \E p :
       p # 1 /\ SharedInfo(m) /\ (EntryBegun(m, e, p) \/ UnderWay(EntryBatch(m, e, p)))

AllDone(m, garbage) == stack = << >> /\ printed = ExpectedOf(m, garbage)

Where(m, garbage) ==
  \/ Before(m)
  \/ Handed(m, garbage)
  \/ OnlyBatch(m, garbage)
  \/ m.class \in RibRecords /\ InEntries(m)
  \/ AllDone(m, garbage)

LinesRight ==
  program = "AsciiVisitor" =>
    \E m \in Messages, garbage \in Uninitialised : message = m /\ Where(m, garbage)

-----------------------------------------------------------------------------
(* The steps of AsciiVisitor                                               *)

\* A step of AsciiVisitor is its own visit() of one of four classes, or its base class's.
LEMMA FirstStepIs ==
  ASSUME Next, stack # << >>, Top.visitor = "AsciiVisitor"
  PROVE  /\ message' = message /\ program' = program
         /\ \/ Top.class = "MRTBgp4MPMessage" /\ VisitMessage
            \/ Top.class = "MRTBgp4MPStateChange" /\ VisitStateChange
            \/ Top.class = "MRTTblDump" /\ VisitTblDump
            \/ Top.class = "MRTTblDumpV2RibHeader" /\ VisitRibHeader
            \/ /\ Top.class \notin Overridden("AsciiVisitor")
               /\ Push(Accepts("AsciiVisitor", Parts("DepthFirstVisitor", Top.class, Top.node), NoParam))
               /\ UNCHANGED <<infos, printed>>
<1>1. Me # "AsciiVisitor" /\ "AsciiVisitor" \notin {"mrt2xml", "mrt2xml -B"}
  BY DEF Me
<1>2. ~DumpAscii /\ ~DumpXml /\ ~Stop
  BY <1>1 DEF DumpAscii, DumpXml, Dump, Visiting, Stop, Finished
<1>3. CASE NextGeneric /\ UNCHANGED <<ascii, program, elements, crashed>>
  <2>1. DerivedFrom("AsciiVisitor") = "DepthFirstVisitor" /\ ~HandsDown("DepthFirstVisitor")
    BY DEF DerivedFrom, HandsDown
  <2>2. ASSUME NEW generic, NEW classes, Visit(generic, classes),
               generic \in {"GJVoidDepthFirst", "GJNoArguDepthFirst", "GJDepthFirst"}
        PROVE  FALSE
    BY <2>1, <2>2 DEF Visit
  <2>3. ASSUME NEW classes, Visit("DepthFirstVisitor", classes)
        PROVE  /\ Top.class \notin Overridden("AsciiVisitor") /\ message' = message
               /\ Push(Accepts("AsciiVisitor", Parts("DepthFirstVisitor", Top.class, Top.node), NoParam))
    BY <2>1, <2>3 DEF Visit
  <2>4. /\ Top.class \notin Overridden("AsciiVisitor") /\ message' = message
        /\ Push(Accepts("AsciiVisitor", Parts("DepthFirstVisitor", Top.class, Top.node), NoParam))
    BY <1>3, <2>2, <2>3 DEF NextGeneric,
      DepthFirstVisitorRecord, DepthFirstVisitorMessage, DepthFirstVisitorValue,
      DepthFirstVisitorLeaf, GJVoidDepthFirstRecord, GJVoidDepthFirstMessage,
      GJVoidDepthFirstValue, GJVoidDepthFirstLeaf, GJNoArguDepthFirstRecord,
      GJNoArguDepthFirstMessage, GJNoArguDepthFirstValue, GJNoArguDepthFirstLeaf,
      GJDepthFirstRecord, GJDepthFirstMessage, GJDepthFirstValue, GJDepthFirstLeaf
  <2> QED
    BY <1>3, <2>4 DEF ascii
<1>4. CASE NextAscii /\ UNCHANGED <<program, elements, crashed>>
  <2>1. /\ ~BGPTblDump /\ ~BGPRibHeader /\ ~BGPRibEntry /\ ~BGPOwnPrefix
        /\ ~VisitOpen /\ ~VisitUpdate /\ ~VisitUpdateRoutes
        /\ ~MPReach /\ ~MPUnreach /\ ~PlainAttribute /\ ~Reachable /\ ~UnReachable
    BY <1>1 DEF BGPTblDump, BGPRibHeader, BGPRibEntry, BGPOwnPrefix, VisitOpen, VisitUpdate,
      VisitUpdateRoutes, MPReach, MPUnreach, PlainAttribute, Reachable, UnReachable, Visiting
  <2>2. /\ VisitMessage => Top.class = "MRTBgp4MPMessage" /\ message' = message
        /\ VisitStateChange => Top.class = "MRTBgp4MPStateChange" /\ message' = message
        /\ VisitTblDump => Top.class = "MRTTblDump" /\ message' = message
        /\ VisitRibHeader => Top.class = "MRTTblDumpV2RibHeader" /\ message' = message
    BY DEF VisitMessage, VisitStateChange, VisitTblDump, VisitRibHeader, Visiting, HandOn
  <2> QED
    BY <1>4, <2>1, <2>2 DEF NextAscii
<1> QED
  BY <1>2, <1>3, <1>4 DEF Next

\* A part and an Info are handed to AsciiBGPVisitor.
LEMMA HandedOn ==
  ASSUME NEW part, NEW type, NEW kind, NEW ip, NEW afi, NEW as,
         HandOn(part, type, kind, ip, afi, as),
         infos = << >>, printed = << >>, Tail(stack) = << >>
  PROVE  \E garbage \in Uninitialised :
           /\ infos' = <<NewInfo(type, kind, ip, afi, as, garbage)>>
           /\ stack' = <<FrameOf(part, 1)>> /\ printed' = << >>
<1>1. PICK garbage \in Uninitialised : infos' = Append(infos, NewInfo(type, kind, ip, afi, as, garbage))
  BY DEF HandOn
<1>2. Len(infos) + 1 = 1
  BY EmptyIsList
<1>3. stack' = Accepts(Me, <<part>>, 1) \o << >> /\ printed' = << >>
  BY <1>2 DEF HandOn, Push
<1>4. Accepts(Me, <<part>>, 1) \o << >> = <<FrameOf(part, 1)>>
  <2> DEFINE s == <<FrameOf(part, 1)>>
  <2>1. IsList(s) /\ Accepts(Me, <<part>>, 1) = s
    BY SingleList, AcceptsOne
  <2> HIDE DEF s
  <2> QED
    BY <2>1, ConcatEmpty DEF s
<1>5. infos' = <<NewInfo(type, kind, ip, afi, as, garbage)>>
  <2> DEFINE x == NewInfo(type, kind, ip, afi, as, garbage)
  <2> HIDE DEF x
  <2>1. Append(<< >>, x) = <<x>>
    OBVIOUS
  <2> QED
    BY <1>1, <2>1 DEF x
<1> QED
  BY <1>3, <1>4, <1>5

\* No part has a frame.
LEMMA AcceptsNone ==
  ASSUME NEW visitor, NEW p
  PROVE  Accepts(visitor, << >>, p) = << >>
<1> DEFINE none == << >>
<1>1. IsList(none) /\ Len(none) = 0
  BY EmptyIsList
<1> HIDE DEF none
<1>2. IsList(Accepts(visitor, none, p)) /\ Len(Accepts(visitor, none, p)) = 0
  BY <1>1, AcceptsAre
<1> QED
  BY <1>2, ListFacts DEF none

\* The frame of one part, for any visitor.
LEMMA AcceptsOneOf ==
  ASSUME NEW visitor, NEW class, NEW n, NEW p
  PROVE  Accepts(visitor, <<As(class, n)>>, p)
           = <<[visitor |-> visitor, class |-> class, node |-> n, param |-> p]>>
<1> DEFINE part == As(class, n)
           f == [visitor |-> visitor, class |-> class, node |-> n, param |-> p]
           s == <<part>>
           t == <<f>>
<1>1. IsList(s) /\ Len(s) = 1 /\ s[1] = part
  BY SingleList
<1>2. IsList(t) /\ Len(t) = 1 /\ t[1] = f
  BY SingleList
<1>3. part.class = class /\ part.node = n
  BY DEF As
<1> HIDE DEF s, t, part
<1>4. /\ IsList(Accepts(visitor, s, p)) /\ Len(Accepts(visitor, s, p)) = 1
      /\ Accepts(visitor, s, p)[1] = [visitor |-> visitor, class |-> s[1].class,
                                      node |-> s[1].node, param |-> p]
  BY <1>1, AcceptsAre
<1>5. Accepts(visitor, s, p)[1] = f
  BY <1>1, <1>3, <1>4
<1> HIDE DEF f
<1>6. \A i \in 1 .. 1 : i = 1
  OBVIOUS
<1>7. Accepts(visitor, s, p) = t
  BY <1>2, <1>4, <1>5, <1>6, ListEqual
<1> QED
  BY <1>7 DEF s, t, part, f

\* What is known of a record of Messages.
LEMMA RecordFacts ==
  ASSUME NEW m \in Messages
  PROVE  /\ m.class \in Records /\ m.class \notin {"MRTTblDumpV2RibHeader", "TblDumpV2RibEntry"}
         /\ m.class \in MessageClasses => IsMessage(m.payload.class, m.payload)
         /\ m.class = "MRTTblDump" => AreValues(m.attributes)
         /\ m.class \in RibRecords => IsRib(m)
<1>1. m.class \notin {"MRTTblDumpV2RibHeader", "TblDumpV2RibEntry"} /\ IsRecord(m.class, m)
  BY MessagesAssumption
<1>2. m.class \in RibRecords => IsRib(m)
  <2> SUFFICES ASSUME m.class \in RibRecords PROVE IsRib(m)
    OBVIOUS
  <2> DEFINE s == m.ribEntries
  <2>1. /\ IsList(s)
        /\ \A e \in ToSet(s) : e.class = "TblDumpV2RibEntry" /\ AreValues(e.attributes)
    BY <1>1 DEF IsRecord
  <2> HIDE DEF s
  <2>2. \A e \in 1 .. Len(s) : s[e].class = "TblDumpV2RibEntry" /\ AreValues(s[e].attributes)
    BY <2>1, ElementOfList
  <2> QED
    BY <2>1, <2>2 DEF IsRib, s
<1> QED
  BY <1>1, <1>2 DEF IsRecord

\* The record is visited: a part of it is handed on, or it has no more to show.
LEMMA BeforeStep ==
  ASSUME NEW m \in Messages, message = m, Before(m), Next
  PROVE  /\ message' = message /\ program' = program
         /\ \E garbage \in Uninitialised : Where(m, garbage)'
<1>1. PICK class :
        /\ class = m.class \/ (m.class \in DOMAIN Base /\ class = Base[m.class])
        /\ stack = <<[visitor |-> "AsciiVisitor", class |-> class, node |-> m, param |-> NoParam]>>
  BY DEF Before
<1>2. infos = << >> /\ printed = << >>
  BY DEF Before
<1>3. stack # << >> /\ Tail(stack) = << >>
      /\ Top = [visitor |-> "AsciiVisitor", class |-> class, node |-> m, param |-> NoParam]
  <2> DEFINE f == [visitor |-> "AsciiVisitor", class |-> class, node |-> m, param |-> NoParam]
             u == <<f>>
             none == << >>
  <2>1. IsList(u) /\ IsList(none)
    BY SingleList, EmptyIsList
  <2>2. u \o none = u
    <3> HIDE DEF u
    <3> QED
      BY <2>1, ConcatEmpty DEF none
  <2>3. stack = <<f>> \o none
    BY <1>1, <2>2
  <2> HIDE DEF f, none
  <2>4. stack # << >> /\ Top = f /\ Tail(stack) = none
    BY <2>1, <2>3, TopOf
  <2> QED
    BY <2>4 DEF f, none
<1>4. Top.visitor = "AsciiVisitor" /\ Top.class = class /\ Top.node = m
  BY <1>3
<1>5. /\ m.class \in Records /\ m.class \notin {"MRTTblDumpV2RibHeader", "TblDumpV2RibEntry"}
  BY RecordFacts
<1>6. message' = message /\ program' = program
  BY <1>3, <1>4, FirstStepIs
<1>7. /\ class = "MRTBgp4MPMessage" => m.class \in MessageClasses
      /\ class = "MRTBgp4MPStateChange" => m.class \in StateChangeClasses
      /\ class = "MRTTblDump" => m.class = "MRTTblDump"
      /\ class = "MRTTblDumpV2RibHeader" => m.class \in RibRecords
      /\ class # "TblDumpV2RibEntry" /\ class \in Records
      /\ class \in DOMAIN Base => class = m.class
      /\ class \notin DOMAIN Base \cup {"MRTBgp4MPMessage", "MRTBgp4MPStateChange", "MRTTblDump",
                                        "MRTTblDumpV2RibHeader"} => class = m.class
  BY <1>1, <1>5, BaseClasses DEF MessageClasses, StateChangeClasses, RibRecords, Records
<1>8. CASE Top.class = "MRTBgp4MPMessage" /\ VisitMessage
  BY <1>2, <1>3, <1>4, <1>6, <1>7, <1>8, HandedOn DEF VisitMessage, Where, Handed
<1>9. CASE Top.class = "MRTBgp4MPStateChange" /\ VisitStateChange
  <2>1. m.class \in StateChangeClasses
    BY <1>4, <1>7, <1>9
  <2>2. printed' = Append(printed, ExpectedOfStateChange(m)) /\ stack' = << >> \o Tail(stack)
    BY <1>4, <1>9 DEF VisitStateChange, ExpectedOfStateChange, Push
  <2>3. printed' = <<ExpectedOfStateChange(m)>>
    <3> DEFINE x == ExpectedOfStateChange(m)
    <3> HIDE DEF x
    <3>1. Append(<< >>, x) = <<x>>
      OBVIOUS
    <3> QED
      BY <1>2, <2>2, <3>1 DEF x
  <2>4. stack' = << >>
    BY <1>3, <2>2, EmptyIsList, ConcatEmpty
  <2>5. PICK garbage \in Uninitialised : TRUE
    BY UninitialisedAssumption
  <2>6. AllDone(m, garbage)'
    BY <2>1, <2>3, <2>4, ExpectedOfClass DEF AllDone
  <2> QED
    BY <1>6, <2>5, <2>6 DEF Where
<1>10. CASE Top.class = "MRTTblDump" /\ VisitTblDump
  BY <1>2, <1>3, <1>4, <1>6, <1>7, <1>10, HandedOn DEF VisitTblDump, Where, Handed
<1>11. CASE Top.class = "MRTTblDumpV2RibHeader" /\ VisitRibHeader
  BY <1>2, <1>3, <1>4, <1>6, <1>7, <1>11, HandedOn DEF VisitRibHeader, Where, Handed
<1>12. CASE /\ Top.class \notin Overridden("AsciiVisitor")
            /\ Push(Accepts("AsciiVisitor", Parts("DepthFirstVisitor", Top.class, Top.node), NoParam))
            /\ UNCHANGED <<infos, printed>>
  <2>1. /\ class \notin {"MRTBgp4MPMessage", "MRTBgp4MPStateChange", "MRTTblDump",
                         "MRTTblDumpV2RibHeader"}
        /\ stack' = Accepts("AsciiVisitor", Parts("DepthFirstVisitor", class, m), NoParam) \o << >>
        /\ infos' = << >> /\ printed' = << >>
    BY <1>2, <1>3, <1>4, <1>12 DEF Overridden, Push
  <2>2. Parts("DepthFirstVisitor", class, m) = RecordParts(class, m)
    BY <1>7, ClassesDisjoint DEF Parts
  <2>3. PICK garbage \in Uninitialised : TRUE
    BY UninitialisedAssumption
  <2>4. CASE class \in DOMAIN Base
    <3>1. Parts("DepthFirstVisitor", class, m) = <<As(Base[class], m)>>
      BY <2>2, <2>4, ClassesDisjoint DEF RecordParts
    <3> DEFINE f == [visitor |-> "AsciiVisitor", class |-> Base[class], node |-> m,
                     param |-> NoParam]
               u == <<f>>
    <3>2. Accepts("AsciiVisitor", <<As(Base[class], m)>>, NoParam) = u
      BY AcceptsOneOf
    <3>3. u \o << >> = u
      <4> HIDE DEF u
      <4> QED
        BY ConcatEmpty, SingleList
    <3>4. stack' = <<f>>
      BY <2>1, <3>1, <3>2, <3>3
    <3>5. Before(m)'
      BY <1>7, <2>1, <2>4, <3>4 DEF Before
    <3> QED
      BY <1>6, <2>3, <3>5 DEF Where
  <2>5. CASE class \notin DOMAIN Base
    <3>1. Parts("DepthFirstVisitor", class, m) = << >>
      BY <1>7, <2>1, <2>2, <2>5 DEF RecordParts
    <3>2. stack' = << >>
      BY <2>1, <3>1, AcceptsNone, EmptyIsList, ConcatEmpty
    <3>3. m.class = class
      BY <1>7, <2>1, <2>5
    <3>4. class \notin MessageClasses \cup {"MRTTblDump"} \cup StateChangeClasses \cup RibRecords
      BY <2>1, <2>5, BaseClasses DEF MessageClasses, StateChangeClasses
    <3>5. AllDone(m, garbage)'
      BY <2>1, <3>2, <3>3, <3>4, ExpectedOfClass DEF AllDone
    <3> QED
      BY <1>6, <2>3, <3>5 DEF Where
  <2> QED
    BY <2>4, <2>5
<1> QED
  BY <1>3, <1>4, <1>8, <1>9, <1>10, <1>11, <1>12, FirstStepIs

-----------------------------------------------------------------------------
(* AsciiBGPVisitor with an UPDATE, a record of a table or a RIB            *)

\* A frame with nothing after it.
LEMMA Alone ==
  ASSUME NEW f, stack = <<f>>
  PROVE  stack = <<f>> \o << >>
<1> DEFINE u == <<f>>
           none == << >>
<1> HIDE DEF u
<1>1. u \o none = u
  BY ConcatEmpty, SingleList DEF none
<1> QED
  BY <1>1 DEF u, none

\* The batch of a record with one begins.
LEMMA OnlyBatchBegins ==
  ASSUME NEW m, NEW garbage, NEW b, IsBatch(b), b.param = 1, b.before = << >>, b.later = << >>,
         LinesOfBatch(b) = ExpectedOf(m, garbage),
         stack' = Accepts(Me, Append(Attributes(b.values), b.closing), b.param) \o << >>,
         printed' = << >>, IsList(infos'), 1 \in 1 .. Len(infos'),
         InfoSays(infos'[1], b, Defaults, b.initial), infos'[1].parseNLRI = FALSE
  PROVE  OnlyBatch(m, garbage)'
  BY BatchPushed, BatchBegins DEF OnlyBatch

\* A message that is no UPDATE has no lines.
LEMMA MessageStep ==
  ASSUME NEW m \in Messages, NEW garbage, m.class \in MessageClasses,
         stack = <<FrameOf(As(m.payload.class, m.payload), 1)>>,
         infos = <<NewInfo("BGP4MP", "A", m.peer.ip, m.peer.afi, m.peer.as, garbage)>>,
         printed = << >>, Next
  PROVE  message' = message /\ program' = program /\ Where(m, garbage)'
<1> DEFINE u == m.payload
           part == As(u.class, u)
           none == << >>
<1>1. IsList(none) /\ part.class = u.class /\ part.node = u
  BY EmptyIsList DEF As
<1>2. stack = <<FrameOf(part, 1)>> \o none
  BY Alone
<1>3. IsMessage(u.class, u)
  BY RecordFacts
<1>4. u.class \in BGPMessages \ {"BGPAttribute"}
  BY <1>3 DEF IsMessage
<1>5. ExpectedOf(m, garbage) = ExpectedOfMessage(m, garbage)
  BY ExpectedOfClass
<1> HIDE DEF part, none
<1>6. /\ message' = message /\ program' = program
      /\ part.class \notin MyClasses =>
           /\ stack' = Accepts(Me, Parts("GJVoidDepthFirst", part.class, part.node), 1) \o none
           /\ UNCHANGED <<infos, printed>>
      /\ part.class \in MyClasses =>
           MyAction(part.class) /\ Top = FrameOf(part, 1) /\ Tail(stack) = none
  BY <1>1, <1>2, StepOnFrame
<1>7. ASSUME stack' = none \o none, printed' = << >>, u.class # "BGPUpdate"
      PROVE  AllDone(m, garbage)'
  BY <1>1, <1>5, <1>7, ConcatEmpty DEF none, ExpectedOfMessage, AllDone
<1>8. CASE u.class = "BGPUpdate"
  <2> DEFINE b == UpdateBatch(m, garbage)
  <2>1. part.class \in MyClasses
    BY <1>1, <1>8, MyClassesAre
  <2>2. VisitUpdate /\ Top = FrameOf(part, 1) /\ Tail(stack) = none
    BY <1>1, <1>6, <1>8, <2>1 DEF MyAction, PlainClasses
  <2>3. Top.node = u /\ Top.param = 1
    BY <1>1, <2>2 DEF FrameOf
  <2>4. /\ stack' = Accepts(Me, Append(Attributes(u.pathAttributes), As("UpdateRoutes", u)), 1) \o none
        /\ infos' = infos /\ printed' = printed
    BY <2>2, <2>3 DEF VisitUpdate, Push, ascii
  <2>5. IsBatch(b) /\ LinesOfBatch(b) = ExpectedOf(m, garbage)
    BY <1>3, <1>5, <1>8, UpdateBatchIs
  <2>6. /\ b.values = u.pathAttributes /\ b.closing = As("UpdateRoutes", u) /\ b.param = 1
        /\ b.before = << >> /\ b.later = << >> /\ b.initial = garbage
        /\ b.type = "BGP4MP" /\ b.kind = "A" /\ b.ip = m.peer.ip /\ b.afi = m.peer.afi
        /\ b.as = m.peer.as
    BY DEF UpdateBatch
  <2> HIDE DEF b
  <2>7. infos' = <<NewInfo(b.type, b.kind, b.ip, b.afi, b.as, garbage)>>
    BY <2>4, <2>6
  <2> DEFINE info == NewInfo(b.type, b.kind, b.ip, b.afi, b.as, garbage)
  <2>8. InfoSays(info, b, Defaults, b.initial) /\ info.parseNLRI = FALSE /\ infos' = <<info>>
    BY <2>6, <2>7, NewInfoSays
  <2> HIDE DEF info
  <2>9. IsList(infos') /\ 1 \in 1 .. Len(infos') /\ infos'[1] = info
    BY <2>8, SingleList
  <2>10. stack' = Accepts(Me, Append(Attributes(b.values), b.closing), b.param) \o << >>
    BY <2>4, <2>6 DEF none
  <2>11. OnlyBatch(m, garbage)'
    BY <2>4, <2>5, <2>6, <2>8, <2>9, <2>10, OnlyBatchBegins
  <2> QED
    BY <1>6, <2>11 DEF Where
<1>9. CASE u.class = "BGPOpen"
  BY <1>1, <1>6, <1>7, <1>9, MyClassesAre DEF MyAction, PlainClasses, VisitOpen, Push, ascii,
    none, Where
<1>10. CASE u.class \notin {"BGPUpdate", "BGPOpen"}
  BY <1>1, <1>4, <1>6, <1>7, <1>10, MyClassesAre, ClassesDisjoint, AcceptsNone DEF BGPMessages,
    PlainClasses, MessageParts, Parts, none, Where
<1> QED
  BY <1>8, <1>9, <1>10

\* A record of TABLE_DUMP has one batch.
LEMMA DumpStep ==
  ASSUME NEW m \in Messages, NEW garbage, m.class = "MRTTblDump",
         stack = <<FrameOf(As("MRTTblDump", m), 1)>>,
         infos = <<NewInfo("TABLE_DUMP", "B", m.peer.ip, m.subType, m.peer.as, garbage)>>,
         printed = << >>, Next
  PROVE  message' = message /\ program' = program /\ Where(m, garbage)'
<1> DEFINE part == As("MRTTblDump", m)
           none == << >>
           peer == [ip |-> m.peer.ip, afi |-> m.subType, as |-> m.peer.as]
           b == DumpBatch(m)
           info == NewInfo("TABLE_DUMP", "B", m.peer.ip, m.subType, m.peer.as, garbage)
           x == [info EXCEPT !.afi = m.subType]
           y == [x EXCEPT !.parseNLRI = FALSE]
<1>1. IsList(none) /\ part.class = "MRTTblDump" /\ part.node = m
  BY EmptyIsList DEF As
<1>2. stack = <<FrameOf(part, 1)>> \o none
  BY Alone
<1>3. AreValues(m.attributes)
  BY RecordFacts
<1>4. part.class \in MyClasses
  BY <1>1, MyClassesAre
<1>5. b = TableBatch("TABLE_DUMP", peer, m.attributes, m.prefix, m.subType, 1, none, none)
      /\ peer.ip = m.peer.ip /\ peer.afi = m.subType /\ peer.as = m.peer.as
  BY DEF DumpBatch
<1> HIDE DEF part, none, peer, b
<1>6. /\ message' = message /\ program' = program
      /\ BGPTblDump /\ Top = FrameOf(part, 1) /\ Tail(stack) = none
  BY <1>1, <1>2, <1>4, StepOnFrame DEF MyAction, PlainClasses
<1>7. /\ stack' = Accepts(Me, Append(Attributes(m.attributes), OwnPrefix(m.prefix)), 1) \o none
      /\ printed' = << >>
      /\ infos' = [infos EXCEPT ![1].afi = m.subType, ![1].parseNLRI = FALSE]
  BY <1>1, <1>6 DEF BGPTblDump, Push, FrameOf
<1>8. IsBatch(b) /\ LinesOfBatch(b) = ExpectedOf(m, garbage)
  BY <1>1, <1>3, <1>5, TableBatchIs, ExpectedOfClass DEF ExpectedOfTblDump
<1>9. /\ b.type = "TABLE_DUMP" /\ b.kind = "B" /\ b.ip = m.peer.ip /\ b.afi = m.subType
      /\ b.as = m.peer.as /\ b.values = m.attributes /\ b.initial = m.subType
      /\ b.closing = OwnPrefix(m.prefix) /\ b.param = 1 /\ b.before = << >> /\ b.later = << >>
  BY <1>5 DEF TableBatch, none
<1>10. InfoSays(y, b, Defaults, m.subType) /\ y.parseNLRI = FALSE
  <2>1. InfoSays(info, b, Defaults, garbage)
    BY <1>9, NewInfoSays
  <2> HIDE DEF info
  <2>2. InfoSays(x, b, Defaults, m.subType)
    BY <2>1, SetFamily
  <2> HIDE DEF x
  <2> QED
    BY <2>2, SetParsed
<1>11. IsList(infos') /\ 1 \in 1 .. Len(infos') /\ infos'[1] = y
  <2> DEFINE s == <<info>>
  <2>1. infos = s
    OBVIOUS
  <2>2. IsList(s) /\ Len(s) = 1 /\ s[1] = info
    BY SingleList
  <2> HIDE DEF s, info
  <2>3. infos' = [s EXCEPT ![1] = y]
    BY <1>7, <2>1, <2>2
  <2> HIDE DEF y
  <2>4. 1 \in 1 .. Len(s)
    BY <2>2
  <2>5. IsList(infos') /\ Len(infos') = Len(s) /\ infos'[1] = y
    <3> DEFINE t == infos'
               q == 1
    <3>1. IsList(s) /\ q \in 1 .. Len(s) /\ t = [s EXCEPT ![q] = y]
      BY <2>2, <2>3, <2>4
    <3> HIDE DEF t, q
    <3>2. IsList(t)
      BY <3>1, Replaced
    <3>3. Len(t) = Len(s)
      BY <3>1, Replaced
    <3>4. t[q] = y
      BY <3>1, Replaced
    <3> QED
      BY <3>2, <3>3, <3>4 DEF t, q
  <2> QED
    BY <2>4, <2>5
<1> HIDE DEF y
<1>12. stack' = Accepts(Me, Append(Attributes(b.values), b.closing), b.param) \o << >>
  BY <1>7, <1>9 DEF none
<1>13. OnlyBatch(m, garbage)'
  BY <1>7, <1>8, <1>9, <1>10, <1>11, <1>12, OnlyBatchBegins
<1> QED
  BY <1>6, <1>13 DEF Where

\* The family of a RIB is written into the Info its entries are given copies of.
LEMMA RibStep ==
  ASSUME NEW m \in Messages, NEW garbage, m.class \in RibRecords,
         stack = <<FrameOf(As("MRTTblDumpV2RibHeader", m), 1)>>,
         infos = <<NewInfo("TABLE_DUMP2", "B", NoAddress, 0, 0, garbage)>>,
         printed = << >>, Next
  PROVE  message' = message /\ program' = program /\ Where(m, garbage)'
<1> DEFINE part == As("MRTTblDumpV2RibHeader", m)
           none == << >>
           info == NewInfo("TABLE_DUMP2", "B", NoAddress, 0, 0, garbage)
           x == [info EXCEPT !.afi = m.afi]
           parts == EntriesParts(m)
<1>1. IsList(none) /\ part.class = "MRTTblDumpV2RibHeader" /\ part.node = m
  BY EmptyIsList DEF As
<1>2. stack = <<FrameOf(part, 1)>> \o none
  BY Alone
<1>3. IsRib(m)
  BY RecordFacts
<1>4. part.class \in MyClasses
  BY <1>1, MyClassesAre
<1> HIDE DEF part, none
<1>5. /\ message' = message /\ program' = program
      /\ BGPRibHeader /\ Top = FrameOf(part, 1) /\ Tail(stack) = none
  BY <1>1, <1>2, <1>4, StepOnFrame DEF MyAction, PlainClasses
<1>6. Top.node = m /\ Top.param = 1
  BY <1>1, <1>5 DEF FrameOf
<1>7. /\ stack' = Accepts(Me, EntriesParts(m), 1) \o none
      /\ printed' = << >>
      /\ infos' = [infos EXCEPT ![1].afi = m.afi]
  BY <1>5, <1>6 DEF BGPRibHeader, Push, EntriesParts
<1>8. IsShared(x, m)
  BY SharedBegins
<1>9. SharedInfo(m)'
  <2> DEFINE s == <<info>>
  <2>1. infos = s
    OBVIOUS
  <2>2. IsList(s) /\ Len(s) = 1 /\ s[1] = info
    BY SingleList
  <2> HIDE DEF s, info
  <2>3. infos' = [s EXCEPT ![1] = x]
    BY <1>7, <2>1, <2>2
  <2> HIDE DEF x
  <2>4. 1 \in 1 .. Len(s)
    BY <2>2
  <2>5. IsList(infos') /\ Len(infos') = Len(s) /\ infos'[1] = x
    <3> DEFINE t == infos'
               q == 1
    <3>1. IsList(s) /\ q \in 1 .. Len(s) /\ t = [s EXCEPT ![q] = x]
      BY <2>2, <2>3, <2>4
    <3> HIDE DEF t, q
    <3>2. IsList(t)
      BY <3>1, Replaced
    <3>3. Len(t) = Len(s)
      BY <3>1, Replaced
    <3>4. t[q] = x
      BY <3>1, Replaced
    <3> QED
      BY <3>2, <3>3, <3>4 DEF t, q
  <2> QED
    BY <1>8, <2>4, <2>5 DEF SharedInfo
<1>10. IsList(parts) /\ 0 \in 0 .. Len(parts) /\ Len(parts) = Len(m.ribEntries)
  BY <1>3, RibFacts
<1>11. stack' = Accepts(Me, After(parts, 0), 1)
  <2> HIDE DEF parts
  <2>1. /\ Accepts(Me, After(parts, 0), 1) = Accepts(Me, parts, 1)
        /\ IsList(Accepts(Me, After(parts, 0), 1))
    BY <1>10, AcceptsAfter
  <2>2. stack' = Accepts(Me, parts, 1) \o none
    BY <1>7 DEF parts
  <2> QED
    BY <2>1, <2>2, ConcatEmpty DEF none
<1>12. LinesToEntry(m, 0) = << >>
  BY <1>3, <1>10, LinesToEntryAre
<1>13. EntriesDone(m, 0)'
  BY <1>7, <1>9, <1>11, <1>12 DEF EntriesDone
<1> QED
  BY <1>5, <1>10, <1>13 DEF Where, InEntries

\* What AsciiBGPVisitor does first.
LEMMA HandedStep ==
  ASSUME NEW m \in Messages, NEW garbage, Handed(m, garbage), Next
  PROVE  message' = message /\ program' = program /\ Where(m, garbage)'
BY MessageStep, DumpStep, RibStep DEF Handed

-----------------------------------------------------------------------------
(* The entries of a RIB                                                    *)

\* Two parts are a list.
LEMMA PairIsList ==
  ASSUME NEW a, NEW c, NEW parts, parts = <<a, c>>
  PROVE  IsList(parts) /\ Len(parts) = 2 /\ parts[1] = a /\ parts[2] = c
<1>1. parts \in Seq({a, c}) /\ Len(parts) = 2 /\ parts[1] = a /\ parts[2] = c
  OBVIOUS
<1> QED
  BY <1>1, SeqIsList

\* The frames of two parts.
LEMMA AcceptsTwo ==
  ASSUME NEW parts, IsList(parts), Len(parts) = 2, NEW p, NEW t, IsList(t)
  PROVE  Accepts(Me, parts, p) \o t = <<FrameOf(parts[1], p)>> \o (<<FrameOf(parts[2], p)>> \o t)
<1> DEFINE a == parts[1]
           c == parts[2]
           s == <<a>>
           w == Append(s, c)
           fa == <<FrameOf(a, p)>>
           fc == <<FrameOf(c, p)>>
<1>1. IsList(s) /\ Len(s) = 1 /\ s[1] = a /\ 1 \in 1 .. Len(s)
  BY SingleList
<1>2. Accepts(Me, s, p) = fa
  BY AcceptsOne
<1>3. IsList(fa)
  BY SingleList
<1>4. IsList(fc)
  BY SingleList
<1>5. parts[1] = a /\ parts[2] = c
  OBVIOUS
<1> HIDE DEF a, c, s
<1>6. /\ IsList(w) /\ Len(w) = Len(s) + 1
      /\ w[Len(s) + 1] = c /\ \A i \in 1 .. Len(s) : w[i] = s[i]
  <2>1. Len(Append(s, c)) = Len(s) + 1
    BY <1>1, AppendList
  <2>2. Append(s, c)[Len(s) + 1] = c
    BY <1>1, AppendList
  <2>3. \A i \in 1 .. Len(s) : Append(s, c)[i] = s[i]
    BY <1>1, AppendList
  <2> QED
    BY <1>1, <2>1, <2>2, <2>3, AppendList
<1>7. Accepts(Me, w, p) = fa \o fc
  BY <1>1, <1>2, AcceptsAppend
<1>8. Len(w) = 2 /\ w[1] = a /\ w[2] = c
  BY <1>1, <1>6
<1> HIDE DEF w, fa, fc
<1>9. \A i \in 1 .. Len(w) : w[i] = parts[i]
  BY <1>5, <1>8
<1>10. w = parts
  BY <1>6, <1>8, <1>9, ListEqual
<1>11. (fa \o fc) \o t = fa \o (fc \o t)
  BY SMTT(60), <1>3, <1>4, ConcatAssoc
<1> QED
  BY <1>7, <1>10, <1>11 DEF fa, fc, a, c

\* The first element of a list replaced and copied behind it.
LEMMA FirstCopied ==
  ASSUME NEW s, IsList(s), NEW q \in 1 .. Len(s), NEW x, NEW u, u = [s EXCEPT ![q] = x]
  PROVE  /\ IsList(Append(u, u[q])) /\ Len(Append(u, u[q])) = Len(s) + 1
         /\ Append(u, u[q])[q] = x /\ Append(u, u[q])[Len(s) + 1] = x
<1>1. IsList(u)
  BY Replaced
<1>2. Len(u) = Len(s)
  BY Replaced
<1>3. u[q] = x
  BY Replaced
<1>4. IsList(Append(u, x))
  BY <1>1, AppendList
<1>5. Len(Append(u, x)) = Len(u) + 1
  BY <1>1, AppendList
<1>6. Append(u, x)[Len(u) + 1] = x
  BY <1>1, AppendList
<1>7. \A i \in 1 .. Len(u) : Append(u, x)[i] = u[i]
  BY <1>1, AppendList
<1> QED
  BY <1>2, <1>3, <1>4, <1>5, <1>6, <1>7

\* A copy of the shared Info is put behind it, with the entry's peer in both.
LEMMA PeerWritten ==
  ASSUME NEW m, SharedInfo(m), NEW b, b.type = "TABLE_DUMP2", b.kind = "B", NEW shared,
         shared = [infos EXCEPT ![1] = [infos[1] EXCEPT !.peer_addr = b.ip, !.peer_as = b.as,
                                                        !.peer_afi = b.afi]],
         infos' = Append(shared, shared[1])
  PROVE  /\ SharedInfo(m)' /\ Len(infos) + 1 # 1 /\ Len(infos) + 1 \in 1 .. Len(infos')
         /\ InfoSays(infos'[Len(infos) + 1], b, Defaults, m.afi)
         /\ infos'[Len(infos) + 1].parseNLRI = FALSE
<1> DEFINE s == infos
           n == Len(infos)
           t == infos'
           info == infos[1]
           x == [info EXCEPT !.peer_addr = b.ip, !.peer_as = b.as, !.peer_afi = b.afi]
           q == 1
           u == shared
<1>1. IsList(s) /\ q \in 1 .. Len(s) /\ n = Len(s) /\ n \in Nat
  BY ListFacts DEF SharedInfo
<1>2. IsShared(info, m)
  BY DEF SharedInfo
<1> HIDE DEF info
<1>3. x = [info EXCEPT !.peer_addr = b.ip, !.peer_as = b.as, !.peer_afi = b.afi]
  OBVIOUS
<1>4. u = [s EXCEPT ![q] = x] /\ t = Append(u, u[q])
  BY DEF info
<1> HIDE DEF x, s, t, n, q, u
<1>5. IsShared(x, m)
  BY <1>2, <1>3, SetPeer
<1>6. InfoSays(x, b, Defaults, m.afi)
  BY <1>2, <1>3, SetPeer
<1>7. x.parseNLRI = FALSE
  BY <1>5 DEF IsShared
<1>8. /\ IsList(Append(u, u[q])) /\ Len(Append(u, u[q])) = Len(s) + 1
      /\ Append(u, u[q])[q] = x /\ Append(u, u[q])[Len(s) + 1] = x
  <2>1. IsList(s) /\ q \in 1 .. Len(s) /\ u = [s EXCEPT ![q] = x]
    BY <1>1, <1>4
  <2>2. Len(Append(u, u[q])) = Len(s) + 1
    BY <2>1, FirstCopied
  <2>3. Append(u, u[q])[q] = x
    BY <2>1, FirstCopied
  <2>4. Append(u, u[q])[Len(s) + 1] = x
    BY <2>1, FirstCopied
  <2> QED
    BY <2>1, <2>2, <2>3, <2>4, FirstCopied
<1>9. IsList(t) /\ Len(t) = n + 1 /\ t[1] = x /\ t[n + 1] = x
  BY <1>1, <1>4, <1>8 DEF q
<1>10. SharedInfo(m)'
  BY <1>1, <1>5, <1>9 DEF SharedInfo, t
<1>11. n + 1 # 1 /\ n + 1 \in 1 .. Len(t)
  BY <1>1, <1>9 DEF q
<1> QED
  BY <1>6, <1>7, <1>9, <1>10, <1>11 DEF t, n

\* The next entry is given a copy of the shared Info, with its own peer.
LEMMA EntriesStep ==
  ASSUME NEW m, IsRib(m), NEW e \in 0 .. Len(m.ribEntries), e < Len(m.ribEntries),
         EntriesDone(m, e), Next
  PROVE  message' = message /\ program' = program /\ InEntries(m)'
<1>1. PICK p : p = Len(infos) + 1
  OBVIOUS
<1> DEFINE parts == EntriesParts(m)
           entry == m.ribEntries[e + 1]
           part == As("RibEntry", [entry |-> entry, prefix |-> m.prefix])
           t == Accepts(Me, After(parts, e + 1), 1)
           b == EntryBatch(m, e + 1, p)
<1>2. e + 1 \in 1 .. Len(m.ribEntries) /\ (e + 1) - 1 = e
  BY RibFacts
<1>3. /\ IsList(parts) /\ e \in 0 .. Len(parts) /\ e < Len(parts) /\ parts[e + 1] = part
      /\ part.class = "RibEntry" /\ part.node.entry = entry /\ part.node.prefix = m.prefix
  BY <1>2, RibFacts DEF As
<1> HIDE DEF parts, part
<1>4. IsList(t) /\ stack = <<FrameOf(part, 1)>> \o t
  <2>1. /\ IsList(Accepts(Me, After(parts, e + 1), 1))
        /\ Accepts(Me, After(parts, e), 1) =
             <<FrameOf(parts[e + 1], 1)>> \o Accepts(Me, After(parts, e + 1), 1)
    BY <1>3, AcceptsAfter
  <2> QED
    BY <1>3, <2>1 DEF EntriesDone, parts
<1> HIDE DEF t
<1>5. part.class \in MyClasses
  BY <1>3, MyClassesAre
<1>6. /\ message' = message /\ program' = program
      /\ BGPRibEntry /\ Top = FrameOf(part, 1) /\ Tail(stack) = t
  <2>1. message' = message /\ program' = program
        /\ MyAction(part.class) /\ Top = FrameOf(part, 1) /\ Tail(stack) = t
    BY SMTT(60), <1>4, <1>5, StepOnFrame
  <2> QED
    BY <1>3, <2>1 DEF MyAction, PlainClasses
<1>7. Top.node = part.node /\ Top.param = 1
  BY <1>6 DEF FrameOf
<1>8. /\ stack' = Accepts(Me, <<As("TblDumpV2RibEntry", entry), OwnPrefix(m.prefix)>>, p) \o t
      /\ printed' = printed
      /\ infos' = Append(WithPeer(entry.peer), WithPeer(entry.peer)[1])
  BY <1>1, <1>3, <1>6, <1>7 DEF BGPRibEntry, Push, EntryParts
<1>9. WithPeer(entry.peer)
        = [infos EXCEPT ![1] = [infos[1] EXCEPT !.peer_addr = entry.peer.ip,
                                  !.peer_as = entry.peer.as, !.peer_afi = entry.peer.afi]]
  BY <1>7, ListFacts DEF EntriesDone, SharedInfo, WithPeer
<1>10. /\ b.type = "TABLE_DUMP2" /\ b.kind = "B" /\ b.ip = entry.peer.ip
       /\ b.afi = entry.peer.afi /\ b.as = entry.peer.as
       /\ b.closing = OwnPrefix(m.prefix) /\ b.param = p /\ b.later = t
  BY DEF EntryBatch, TableBatch, t, parts
<1> HIDE DEF b, entry
<1>11. SharedInfo(m)
  BY DEF EntriesDone
<1>12. /\ SharedInfo(m)' /\ p # 1 /\ p \in 1 .. Len(infos')
       /\ InfoSays(infos'[p], b, Defaults, m.afi)
       /\ infos'[p].parseNLRI = FALSE
  <2> DEFINE shared == WithPeer(entry.peer)
  <2>1. /\ shared = [infos EXCEPT ![1] = [infos[1] EXCEPT !.peer_addr = b.ip, !.peer_as = b.as,
                                                          !.peer_afi = b.afi]]
        /\ infos' = Append(shared, shared[1])
    BY <1>8, <1>9, <1>10
  <2>2. b.type = "TABLE_DUMP2" /\ b.kind = "B"
    BY <1>10
  <2> HIDE DEF shared
  <2>3. /\ SharedInfo(m)' /\ Len(infos) + 1 # 1 /\ Len(infos) + 1 \in 1 .. Len(infos')
        /\ InfoSays(infos'[Len(infos) + 1], b, Defaults, m.afi)
        /\ infos'[Len(infos) + 1].parseNLRI = FALSE
    BY <1>11, <2>1, <2>2, PeerWritten
  <2> QED
    BY <1>1, <2>3
<1>13. stack' = <<FrameOf(As("TblDumpV2RibEntry", entry), p)>> \o Rest(b)
  <2> DEFINE one == As("TblDumpV2RibEntry", entry)
             two == OwnPrefix(m.prefix)
             pair == <<one, two>>
  <2>1. stack' = Accepts(Me, pair, p) \o t /\ pair = <<one, two>>
    BY <1>8
  <2>2. Rest(b) = <<FrameOf(two, p)>> \o t
    BY <1>10 DEF Rest
  <2> HIDE DEF one, two, pair
  <2>3. IsList(pair) /\ Len(pair) = 2 /\ pair[1] = one /\ pair[2] = two
    BY <2>1, PairIsList
  <2>4. Accepts(Me, pair, p) \o t = <<FrameOf(pair[1], p)>> \o (<<FrameOf(pair[2], p)>> \o t)
    BY <1>4, <2>3, AcceptsTwo
  <2> QED
    BY <2>1, <2>2, <2>3, <2>4 DEF one
<1>14. printed' = LinesToEntry(m, (e + 1) - 1)
  BY <1>2, <1>8 DEF EntriesDone
<1>15. EntryBegun(m, e + 1, p)'
  BY <1>12, <1>13, <1>14 DEF EntryBegun, b, entry
<1> QED
  BY <1>2, <1>6, <1>12, <1>15 DEF InEntries

\* Filling in a copy leaves the shared Info alone.
LEMMA SharedKept ==
  ASSUME NEW m, SharedInfo(m), NEW p, p # 1, OthersKept(p)
  PROVE  SharedInfo(m)'
BY DEF SharedInfo, OthersKept

\* The attributes of an entry are begun.
LEMMA EntryBegunStep ==
  ASSUME NEW m, IsRib(m), NEW e \in 1 .. Len(m.ribEntries), NEW p, p # 1, SharedInfo(m),
         EntryBegun(m, e, p), Next
  PROVE  message' = message /\ program' = program /\ InEntries(m)'
<1> DEFINE b == EntryBatch(m, e, p)
           entry == m.ribEntries[e]
           part == As("TblDumpV2RibEntry", entry)
<1>1. IsBatch(b)
  BY EntryBatchIs
<1>2. /\ b.values = entry.attributes /\ b.param = p /\ b.before = LinesToEntry(m, e - 1)
      /\ b.initial = m.afi
  BY DEF EntryBatch, TableBatch
<1>3. /\ stack = <<FrameOf(part, p)>> \o Rest(b) /\ printed = b.before
      /\ p \in 1 .. Len(infos) /\ InfoSays(infos[p], b, Defaults, b.initial)
      /\ infos[p].parseNLRI = FALSE
  BY <1>2 DEF EntryBegun
<1>4. part.class = "TblDumpV2RibEntry" /\ part.node = entry
  BY DEF As
<1> HIDE DEF b, entry, part
<1>5. part.class \notin MyClasses
  BY <1>4, MyClassesAre DEF PlainClasses
<1>6. /\ message' = message /\ program' = program
      /\ stack' = Accepts(Me, Parts("GJVoidDepthFirst", part.class, part.node), p) \o Rest(b)
      /\ UNCHANGED <<infos, printed>>
  BY <1>1, <1>3, <1>5, StepOnFrame, BatchFacts
<1>7. Parts("GJVoidDepthFirst", part.class, part.node) = Attributes(b.values)
  BY <1>2, <1>4, ClassesDisjoint DEF Records, RecordParts, Parts
<1>8. UnderWay(b)'
  BY <1>1, <1>2, <1>3, <1>6, <1>7, BatchBegins DEF SharedInfo
<1> QED
  BY <1>6, <1>8 DEF InEntries, b, SharedInfo

\* An entry whose batch is done is done.
LEMMA EntryDone ==
  ASSUME NEW m, IsRib(m), NEW e \in 1 .. Len(m.ribEntries), NEW p, SharedInfo(m),
         BatchDone(EntryBatch(m, e, p))
  PROVE  EntriesDone(m, e)
BY EntryBatchIs DEF EntriesDone, BatchDone

\* When nothing is left, the lines of all entries are printed.
LEMMA EntriesEnd ==
  ASSUME NEW m, IsRib(m), NEW e \in 0 .. Len(m.ribEntries), EntriesDone(m, e), stack = << >>
  PROVE  e = Len(m.ribEntries) /\ printed = ExpectedOfRib(m)
<1> DEFINE parts == EntriesParts(m)
           n == Len(m.ribEntries)
<1>1. /\ IsList(parts) /\ Len(parts) = n /\ n \in Nat /\ e \in 0 .. Len(parts)
      /\ DOMAIN m.ribEntries = 1 .. n
  BY RibFacts
<1>2. stack = Accepts(Me, After(parts, e), 1)
  BY DEF EntriesDone
<1> HIDE DEF parts
<1>3. Len(Accepts(Me, After(parts, e), 1)) = Len(parts) - e
  BY <1>1, AcceptsAfter
<1>4. Len(stack) = 0
  BY EmptyIsList
<1>5. e = n
  BY <1>1, <1>2, <1>3, <1>4
<1>6. ExpectedOfRib(m) = FlattenSeq(LinesOfEntries(m))
  BY <1>1 DEF ExpectedOfRib, LinesOfEntries, LinesOfEntry
<1> QED
  BY <1>5, <1>6, LinesToEntryAre DEF EntriesDone

\* A program that is done stays as it is.
LEMMA EmptyTakesNoStep ==
  ASSUME Next, stack = << >>
  PROVE  UNCHANGED vars
BY DEF Next, NextGeneric, NextAscii, DumpAscii, DumpXml, Dump, Stop, Visiting, Visit,
  DepthFirstVisitorRecord, DepthFirstVisitorMessage, DepthFirstVisitorValue,
  DepthFirstVisitorLeaf, GJVoidDepthFirstRecord, GJVoidDepthFirstMessage,
  GJVoidDepthFirstValue, GJVoidDepthFirstLeaf, GJNoArguDepthFirstRecord,
  GJNoArguDepthFirstMessage, GJNoArguDepthFirstValue, GJNoArguDepthFirstLeaf,
  GJDepthFirstRecord, GJDepthFirstMessage, GJDepthFirstValue, GJDepthFirstLeaf,
  VisitMessage, VisitStateChange, VisitTblDump, VisitRibHeader, BGPTblDump, BGPRibHeader,
  BGPRibEntry, BGPOwnPrefix, VisitOpen, VisitUpdate, VisitUpdateRoutes, MPReach, MPUnreach,
  PlainAttribute, Reachable, UnReachable

\* Nothing moves without a step.
LEMMA WhereStutters ==
  ASSUME NEW m, NEW garbage, Where(m, garbage), UNCHANGED vars
  PROVE  Where(m, garbage)'
<1>1. /\ stack' = stack /\ infos' = infos /\ printed' = printed
  BY SMTT(60) DEF vars, traversal, ascii
<1>2. ASSUME NEW b, UnderWay(b) PROVE UnderWay(b)'
  BY Zenon, <1>1, <1>2 DEF UnderWay, AttributesPhase, ValuePhase, ValueRoutesPhase, ClosingPhase,
    RoutePhase, InfoAfter, InfoAt
<1>3. SharedInfo(m) => SharedInfo(m)'
  BY <1>1 DEF SharedInfo
<1>4. \A e : EntriesDone(m, e) => EntriesDone(m, e)'
  BY <1>1, <1>3 DEF EntriesDone
<1>5. \A e, p : EntryBegun(m, e, p) => EntryBegun(m, e, p)'
  BY <1>1 DEF EntryBegun
<1>6. InEntries(m) => InEntries(m)'
  BY <1>2, <1>3, <1>4, <1>5 DEF InEntries
<1>7. OnlyBatch(m, garbage) => OnlyBatch(m, garbage)'
  BY <1>2 DEF OnlyBatch
<1>8. Before(m) => Before(m)'
  BY <1>1 DEF Before
<1>9. Handed(m, garbage) => Handed(m, garbage)'
  BY <1>1 DEF Handed
<1>10. AllDone(m, garbage) => AllDone(m, garbage)'
  BY <1>1 DEF AllDone
<1> QED
  BY <1>6, <1>7, <1>8, <1>9, <1>10 DEF Where

-----------------------------------------------------------------------------
(* LinesRight is an invariant                                              *)

\* A RIB's entries, of which one may be under way.
LEMMA InEntriesStep ==
  ASSUME NEW m, IsRib(m), InEntries(m), Next
  PROVE  (message' = message /\ program' = program /\ InEntries(m)') \/ UNCHANGED vars
<1>1. Len(m.ribEntries) \in Nat
  BY RibFacts
<1>2. ASSUME NEW e \in 0 .. Len(m.ribEntries), EntriesDone(m, e)
      PROVE  (message' = message /\ program' = program /\ InEntries(m)') \/ UNCHANGED vars
  <2>1. CASE e < Len(m.ribEntries)
    BY <1>2, <2>1, EntriesStep
  <2>2. CASE ~(e < Len(m.ribEntries))
    <3> DEFINE parts == EntriesParts(m)
    <3>1. IsList(parts) /\ e = Len(parts)
      BY <1>1, <2>2, RibFacts
    <3>2. stack = Accepts(Me, After(parts, e), 1)
      BY <1>2 DEF EntriesDone
    <3> HIDE DEF parts
    <3>3. stack = << >>
      BY <3>1, <3>2, AcceptsEnd
    <3> QED
      BY <3>3, EmptyTakesNoStep
  <2> QED
    BY <2>1, <2>2
<1>3. ASSUME NEW e \in 1 .. Len(m.ribEntries), NEW p, p # 1, SharedInfo(m), EntryBegun(m, e, p)
      PROVE  message' = message /\ program' = program /\ InEntries(m)'
  BY <1>3, EntryBegunStep
<1>4. ASSUME NEW e \in 1 .. Len(m.ribEntries), NEW p, p # 1, SharedInfo(m),
             UnderWay(EntryBatch(m, e, p))
      PROVE  (message' = message /\ program' = program /\ InEntries(m)') \/ UNCHANGED vars
  <2> DEFINE b == EntryBatch(m, e, p)
  <2>1. IsBatch(b) /\ b.param = p
    BY EntryBatchIs
  <2>2. CASE BatchDone(b)
    BY <1>1, <1>2, <1>4, <2>2, EntryDone
  <2>3. CASE ~BatchDone(b)
    <3>1. UnderWay(b)
      BY <1>4
    <3> HIDE DEF b
    <3>2. UnderWay(b)' /\ OthersKept(b.param) /\ message' = message /\ program' = program
      BY <2>1, <2>3, <3>1, BatchStep
    <3>3. SharedInfo(m)'
      BY <1>4, <2>1, <3>2, SharedKept
    <3> QED
      BY <1>4, <3>2, <3>3 DEF InEntries, b
  <2> QED
    BY <2>2, <2>3
<1> QED
  BY <1>2, <1>3, <1>4 DEF InEntries

\* A step of a record with one batch.
LEMMA OnlyBatchStep ==
  ASSUME NEW m, NEW garbage, OnlyBatch(m, garbage), Next
  PROVE  (message' = message /\ program' = program /\ OnlyBatch(m, garbage)') \/ UNCHANGED vars
<1>1. PICK b : /\ IsBatch(b) /\ b.param = 1 /\ b.before = << >> /\ b.later = << >>
               /\ LinesOfBatch(b) = ExpectedOf(m, garbage)
               /\ UnderWay(b)
  BY DEF OnlyBatch
<1>2. CASE BatchDone(b)
  BY <1>1, <1>2, EmptyTakesNoStep DEF BatchDone
<1>3. CASE ~BatchDone(b)
  BY <1>1, <1>3, BatchStep DEF OnlyBatch
<1> QED
  BY <1>2, <1>3

\* A step from anywhere leads to one of these places.
LEMMA WhereStep ==
  ASSUME NEW m \in Messages, NEW garbage \in Uninitialised, message = m, Where(m, garbage), Next
  PROVE  \/ /\ message' = message /\ program' = program
            /\ \E any \in Uninitialised : Where(m, any)'
         \/ UNCHANGED vars
  BY BeforeStep, HandedStep, OnlyBatchStep, RecordFacts, InEntriesStep, EmptyTakesNoStep DEF
    Where, AllDone

\* No program becomes another.
LEMMA ProgramStays ==
  ASSUME Next
  PROVE  program' = program
BY DEF Next, NextGeneric, DumpAscii, DumpXml, Dump, Stop, vars

\* So LinesRight stays true.
LEMMA LinesRightStep ==
  ASSUME LinesRight, [Next]_vars
  PROVE  LinesRight'
<1> SUFFICES ASSUME program = "AsciiVisitor"
             PROVE  \E m \in Messages, garbage \in Uninitialised :
                      message' = m /\ Where(m, garbage)'
  BY ProgramStays DEF LinesRight, vars
<1>1. PICK m \in Messages, garbage \in Uninitialised : message = m /\ Where(m, garbage)
  BY DEF LinesRight
<1>2. CASE UNCHANGED vars
  BY <1>1, <1>2, WhereStutters DEF vars, traversal
<1>3. CASE Next /\ ~UNCHANGED vars
  BY <1>1, <1>3, WhereStep
<1> QED
  BY <1>2, <1>3

\* It is true when the record has been read.
LEMMA LinesRightInit ==
  ASSUME Init
  PROVE  LinesRight
<1> SUFFICES ASSUME program = "AsciiVisitor"
             PROVE  \E m \in Messages, garbage \in Uninitialised :
                      message = m /\ Where(m, garbage)
  BY DEF LinesRight
<1>1. PICK m \in Messages : message = m
  BY DEF Init
<1>2. PICK garbage \in Uninitialised : TRUE
  BY UninitialisedAssumption
<1>3. stack = Accepts("AsciiVisitor", <<As(m.class, m)>>, NoParam)
      /\ infos = << >> /\ printed = << >>
  BY <1>1 DEF Init, FirstParam, HandsDown
<1>4. stack = <<[visitor |-> "AsciiVisitor", class |-> m.class, node |-> m, param |-> NoParam]>>
  BY <1>3, AcceptsOneOf
<1>5. Before(m)
  BY <1>3, <1>4 DEF Before
<1> QED
  BY <1>1, <1>2, <1>5 DEF Where

\* What has been printed when nothing is left to visit.
LEMMA WhereEnds ==
  ASSUME NEW m \in Messages, NEW garbage, Where(m, garbage), stack = << >>
  PROVE  printed = ExpectedOf(m, garbage)
<1>1. ASSUME NEW f, stack = <<f>>
      PROVE  FALSE
  BY <1>1
<1>2. ~Before(m)
  BY <1>1 DEF Before
<1>3. ~Handed(m, garbage)
  BY <1>1 DEF Handed
<1>4. CASE OnlyBatch(m, garbage)
  <2>1. PICK b : /\ IsBatch(b) /\ b.before = << >> /\ UnderWay(b)
                 /\ LinesOfBatch(b) = ExpectedOf(m, garbage)
    BY <1>4 DEF OnlyBatch
  <2>2. << >> \o LinesOfBatch(b) = LinesOfBatch(b)
    BY <2>1, LinesOfBatchAreList, ConcatEmpty
  <2> QED
    BY <2>1, <2>2, BatchEnds DEF BatchDone
<1>5. CASE m.class \in RibRecords /\ InEntries(m)
  <2>1. IsRib(m) /\ ExpectedOf(m, garbage) = ExpectedOfRib(m)
    BY <1>5, RecordFacts, ExpectedOfClass
  <2>2. ASSUME NEW e \in 0 .. Len(m.ribEntries), EntriesDone(m, e)
        PROVE  printed = ExpectedOf(m, garbage)
    BY <2>1, <2>2, EntriesEnd
  <2>3. ASSUME NEW e \in 1 .. Len(m.ribEntries), NEW p, EntryBegun(m, e, p)
        PROVE  FALSE
    <3> DEFINE b == EntryBatch(m, e, p)
               f == FrameOf(As("TblDumpV2RibEntry", m.ribEntries[e]), p)
               t == Rest(b)
    <3>1. IsBatch(b)
      BY <2>1, EntryBatchIs
    <3>2. stack = <<f>> \o t
      BY <2>3 DEF EntryBegun
    <3> HIDE DEF b, f
    <3>3. IsList(t)
      BY <3>1, BatchFacts
    <3> HIDE DEF t
    <3> QED
      BY <3>2, <3>3, TopOf
  <2>4. ASSUME NEW e \in 1 .. Len(m.ribEntries), NEW p, SharedInfo(m),
               UnderWay(EntryBatch(m, e, p))
        PROVE  printed = ExpectedOf(m, garbage)
    BY <2>1, <2>2, <2>4, EntryBatchIs, BatchEnds, EntryDone, RibFacts
  <2> QED
    BY <1>5, <2>2, <2>3, <2>4 DEF InEntries
<1>6. CASE AllDone(m, garbage)
  BY <1>6 DEF AllDone
<1> QED
  BY <1>2, <1>3, <1>4, <1>5, <1>6 DEF Where

\* And it says of the end what LinesFaithful does.
LEMMA LinesRightSays ==
  ASSUME LinesRight
  PROVE  LinesFaithful
<1> SUFFICES ASSUME stack = << >>, program = "AsciiVisitor"
             PROVE  \E garbage \in Uninitialised : printed = Expected(garbage)
  BY DEF LinesFaithful, Finished
<1>1. PICK m \in Messages, garbage \in Uninitialised : message = m /\ Where(m, garbage)
  BY DEF LinesRight
<1> QED
  BY <1>1, ExpectedIs, WhereEnds

\* bgpparser2's lines say what the record says, whatever the records and whatever Info::afi held
\* before it was assigned: AsciiVisitor and AsciiBGPVisitor print for each record the lines that
\* its attributes and its routes call for.
THEOREM LinesFaithfulHolds == Spec => []LinesFaithful
<1>1. Init => LinesRight
  BY LinesRightInit
<1>2. LinesRight /\ [Next]_vars => LinesRight'
  BY LinesRightStep
<1>3. LinesRight => LinesFaithful
  BY LinesRightSays
<1> QED
  BY <1>1, <1>2, <1>3, PTL DEF Spec

-----------------------------------------------------------------------------
(* The same elements, as often                                             *)

\* The places of x in s.
Places(x, s) == {i \in 1 .. Len(s) : s[i] = x}

\* An element is as often in a list as it has places there.
LEMMA OccurrencesAre ==
  ASSUME NEW x, NEW s, IsList(s)
  PROVE  /\ IsFiniteSet(Places(x, s))
         /\ Occurrences(x, s) = Cardinality(Places(x, s))
         /\ Occurrences(x, s) \in Nat
<1>1. Len(s) \in Nat /\ DOMAIN s = 1 .. Len(s)
  BY ListFacts
<1>2. IsFiniteSet(1 .. Len(s))
  BY <1>1, FS_Interval
<1>3. Places(x, s) \in SUBSET (1 .. Len(s))
  BY DEF Places
<1>4. IsFiniteSet(Places(x, s))
  BY <1>2, <1>3, FS_Subset
<1> QED
  BY <1>1, <1>4, FS_CardinalityType DEF Occurrences, Places

\* It is in a concatenation as often as in the two lists together.
LEMMA OccurrencesConcat ==
  ASSUME NEW x, NEW s, NEW t, IsList(s), IsList(t)
  PROVE  Occurrences(x, s \o t) = Occurrences(x, s) + Occurrences(x, t)
<1> DEFINE n == Len(s)
           A == Places(x, s)
           B == Places(x, t)
           C == {i + n : i \in B}
           f == [i \in B |-> i + n]
<1>1. /\ n \in Nat /\ Len(t) \in Nat
      /\ IsList(s \o t) /\ Len(s \o t) = n + Len(t)
      /\ \A i \in 1 .. n + Len(t) : (s \o t)[i] = IF i <= n THEN s[i] ELSE t[i - n]
  BY ListFacts, ConcatList
<1>2. Places(x, s \o t) = A \cup C
  <2>1. ASSUME NEW i \in Places(x, s \o t) PROVE i \in A \cup C
    BY <1>1 DEF Places
  <2>2. ASSUME NEW i \in A PROVE i \in Places(x, s \o t)
    BY <1>1 DEF Places
  <2>3. ASSUME NEW i \in B PROVE i + n \in Places(x, s \o t)
    BY <1>1 DEF Places
  <2> QED
    BY <2>1, <2>2, <2>3
<1>3. A \cap C = {}
  BY <1>1 DEF Places
<1>4. f \in Bijection(B, C)
  <2>1. f \in [B -> C]
    OBVIOUS
  <2>2. \A i, j \in B : f[i] = f[j] => i = j
    BY <1>1 DEF Places
  <2>3. \A k \in C : \E i \in B : f[i] = k
    OBVIOUS
  <2> HIDE DEF B, C, f
  <2> QED
    BY <2>1, <2>2, <2>3 DEF Bijection, Injection, Surjection, IsInjective
<1> HIDE DEF A, B, C, f
<1>5. IsFiniteSet(A) /\ IsFiniteSet(B)
  BY OccurrencesAre DEF A, B
<1>6. IsFiniteSet(C) /\ Cardinality(C) = Cardinality(B)
  BY <1>4, <1>5, FS_Bijection DEF ExistsBijection
<1>7. Cardinality(A \cup C) = Cardinality(A) + Cardinality(C) - Cardinality(A \cap C)
  BY <1>5, <1>6, FS_Union
<1>8. Cardinality(A \cap C) = 0
  BY <1>3, FS_EmptySet
<1>9. /\ Occurrences(x, s \o t) = Cardinality(A \cup C)
      /\ Occurrences(x, s) = Cardinality(A) /\ Occurrences(x, t) = Cardinality(B)
      /\ Occurrences(x, s) \in Nat /\ Occurrences(x, t) \in Nat
  BY <1>1, <1>2, OccurrencesAre DEF A, B
<1> QED
  BY <1>6, <1>7, <1>8, <1>9

\* Four lists in another order.
LEMMA SameInOtherOrder ==
  ASSUME NEW u, NEW r, NEW w, NEW n, IsList(u), IsList(r), IsList(w), IsList(n)
  PROVE  SameBag((u \o r) \o (w \o n), (w \o u) \o (n \o r))
<1> DEFINE s == (u \o r) \o (w \o n)
           t == (w \o u) \o (n \o r)
<1>1. IsList(u \o r) /\ IsList(w \o n) /\ IsList(w \o u) /\ IsList(n \o r)
  BY ConcatList
<1>2. Len(s) = Len(t)
  BY <1>1, ListFacts, ConcatList
<1>3. ASSUME NEW x PROVE Occurrences(x, s) = Occurrences(x, t)
  BY <1>1, OccurrencesAre, OccurrencesConcat
<1> HIDE DEF s, t
<1>4. SameBag(s, t)
  BY <1>2, <1>3 DEF SameBag
<1> QED
  BY <1>4 DEF s, t

-----------------------------------------------------------------------------
(* What genAsciiMsg keeps of the attributes                                *)

\* f[i] is what the loop of genAsciiMsg keeps of the first i attributes.
Keeps(f, values, n) ==
  f = [i \in 0 .. n |-> IF i = 0 THEN Defaults ELSE Keeping(f[i - 1], values[i])]

\* There is such a function for every list of attributes.
LEMMA KeepsExists ==
  ASSUME NEW values, NEW n \in Nat
  PROVE  \E f : Keeps(f, values, n)
<1> DEFINE S == {m \in Nat : \E f : Keeps(f, values, m)}
<1>1. 0 \in S
  <2> DEFINE e == [i \in 0 .. 0 |-> Defaults]
  <2>1. Keeps(e, values, 0)
    BY DEF Keeps
  <2> QED
    BY <2>1
<1>2. ASSUME NEW m \in Nat, m \in S PROVE m + 1 \in S
  <2>1. PICK f : Keeps(f, values, m)
    BY <1>2
  <2>2. \A i \in 0 .. m : f[i] = IF i = 0 THEN Defaults ELSE Keeping(f[i - 1], values[i])
    BY <2>1 DEF Keeps
  <2> DEFINE g == [i \in 0 .. m + 1 |->
                     IF i = m + 1 THEN Keeping(f[m], values[m + 1]) ELSE f[i]]
  <2>3. ASSUME NEW i \in 0 .. m + 1
        PROVE  g[i] = IF i = 0 THEN Defaults ELSE Keeping(g[i - 1], values[i])
    <3>1. i # 0 => g[i - 1] = f[i - 1]
      OBVIOUS
    <3>2. CASE i = m + 1
      <4>1. i # 0 /\ i - 1 = m /\ g[i] = Keeping(f[m], values[m + 1])
        BY <3>2
      <4> HIDE DEF g
      <4> QED
        BY <3>1, <3>2, <4>1
    <3>3. CASE i # m + 1
      <4>1. i \in 0 .. m /\ g[i] = f[i]
        BY <3>3
      <4> HIDE DEF g
      <4> QED
        BY <2>2, <3>1, <4>1
    <3> QED
      BY <3>2, <3>3
  <2>4. g = [i \in 0 .. m + 1 |-> g[i]]
    OBVIOUS
  <2> HIDE DEF g
  <2>5. Keeps(g, values, m + 1)
    BY <2>3, <2>4 DEF Keeps
  <2> QED
    BY <2>5
<1>3. Nat \subseteq S
  <2> HIDE DEF S
  <2> QED
    BY <1>1, <1>2, Induct
<1> QED
  BY <1>3

\* KeptTexts is the last of its values.
LEMMA KeptTextsAre ==
  ASSUME NEW values, Len(values) \in Nat
  PROVE  \E f : Keeps(f, values, Len(values)) /\ KeptTexts(values) = f[Len(values)]
<1> DEFINE f == CHOOSE f : f = [i \in 0 .. Len(values) |->
                                 IF i = 0 THEN Defaults ELSE Keeping(f[i - 1], values[i])]
<1>1. Keeps(f, values, Len(values))
  BY KeepsExists DEF Keeps
<1> QED
  BY <1>1 DEF KeptTexts

\* An attribute that both programs keep in the same place.
Plain(v) ==
  /\ v.class \notin {"AttributeTypeAS4Path", "AttributeTypeAS4Aggregator"}
  /\ v.class = "AttributeTypeNextHop" => v.afi \in {IPv4, IPv6}
  /\ v.class = "AttributeTypeASPath" =>
       IsList(v.complete) /\ \A i \in 1 .. Len(v.complete) : v.complete[i].type \notin Confederation

\* A path without confederations is shown whole.
LEMMA ASPathShown ==
  ASSUME NEW v, IsList(v.complete),
         \A i \in 1 .. Len(v.complete) : v.complete[i].type \notin Confederation
  PROVE  ASPathAscii(v, FALSE) = PathText(v.complete)
<1> DEFINE s == v.complete
           t == PathText(s)
           n == Len(s)
<1>1. n \in Nat /\ DOMAIN s = 1 .. n
  BY ListFacts
<1>2. /\ t = [i \in 1 .. n |-> t[i]]
      /\ \A i \in 1 .. n : t[i] = <<s[i].type, s[i].numbers>>
  BY <1>1 DEF PathText
<1>3. ASSUME NEW i \in DOMAIN s PROVE SegmentAscii(s[i], FALSE) = <<t[i]>>
  <2>1. SegmentAscii(s[i], FALSE) = << <<s[i].type, s[i].numbers>> >>
    BY <1>1 DEF SegmentAscii
  <2> HIDE DEF s, t
  <2> QED
    BY <1>1, <1>2, <2>1
<1> HIDE DEF t, n
<1>4. IsList(t) /\ DOMAIN t = DOMAIN s
  BY <1>1, <1>2, FunctionIsList
<1>5. ASPathAscii(v, FALSE) = FlattenSeq([i \in DOMAIN t |-> <<t[i]>>])
  BY <1>3, <1>4 DEF ASPathAscii
<1> QED
  BY <1>4, <1>5, FlattenSingles DEF t

\* The two programs give such an attribute the same text, under the same name.
LEMMA SameField ==
  ASSUME NEW v, Plain(v)
  PROVE  /\ v.class \in KeptClasses <=> v.class \in PlainClasses
         /\ v.class \in KeptClasses => Kept[v.class] = Field[v.class] /\ GenAscii(v) = FieldText(v)
<1>1. ASSUME v.class \in KeptClasses
      PROVE  Kept[v.class] = Field[v.class] /\ GenAscii(v) = FieldText(v)
  <2>1. Kept[v.class] = Field[v.class]
    BY <1>1 DEF Kept, Field, KeptClasses, PlainClasses
  <2>2. GenAscii(v) = FieldText(v)
    BY <1>1, ASPathShown DEF GenAscii, FieldText, OriginAscii, OriginName, Plain, TextOfFamily,
      AggregatorAscii, AggregatorText, Text, CommunitiesAscii, CommunitiesText, KeptClasses
  <2> QED
    BY <2>1, <2>2
<1> QED
  BY <1>1 DEF KeptClasses, PlainClasses, Plain

-----------------------------------------------------------------------------
(* The texts of the two programs agree                                     *)

\* One attribute more changes the text of its own field alone, here too.
LEMMA KeepingIs ==
  ASSUME NEW texts, texts = [f \in TextFields |-> texts[f]], NEW v, Plain(v)
  PROVE  /\ Keeping(texts, v) = [f \in TextFields |-> Keeping(texts, v)[f]]
         /\ \A f \in TextFields : Keeping(texts, v)[f] =
              IF v.class \in PlainClasses /\ f = Field[v.class] THEN FieldText(v) ELSE texts[f]
<1>1. CASE v.class \in PlainClasses
  <2>1. Field[v.class] \in TextFields
    BY <1>1, FieldIsText
  <2> DEFINE field == Field[v.class]
             text == FieldText(v)
  <2>2. Keeping(texts, v) = [texts EXCEPT ![field] = text]
    BY <1>1, SameField DEF Keeping
  <2> HIDE DEF field, text
  <2>3. Keeping(texts, v) = [f \in TextFields |-> IF f = field THEN text ELSE texts[f]]
    BY <2>2
  <2> QED
    BY <1>1, <2>3 DEF field, text
<1>2. CASE v.class \notin PlainClasses
  BY <1>2, SameField DEF Keeping
<1> QED
  BY <1>1, <1>2

\* An attribute that is no MP_REACH_NLRI changes the text of its own field alone.
LEMMA SeenPlainNext ==
  ASSUME NEW values, NEW initial, NEW i \in Nat, NEW field \in TextFields,
         values[i + 1].class # "AttributeTypeMPReachNLRI"
  PROVE  SeenTexts(values, i + 1, initial)[field] =
           IF values[i + 1].class \in PlainClasses /\ field = Field[values[i + 1].class]
           THEN FieldText(values[i + 1]) ELSE SeenTexts(values, i, initial)[field]
<1> DEFINE class == values[i + 1].class
           text == FieldText(values[i + 1])
           new == SeenTexts(values, i + 1, initial)[field]
           old == SeenTexts(values, i, initial)[field]
<1>1. TextsNext(values, i, initial, field)
  BY SeenTextsNext
<1>2. class \in PlainClasses => new = IF field = Field[class] THEN text ELSE old
  BY <1>1 DEF TextsNext
<1>3. class \notin PlainClasses \cup {"AttributeTypeMPReachNLRI"} => new = old
  BY <1>1 DEF TextsNext
<1> HIDE DEF class, text, new, old
<1>4. class # "AttributeTypeMPReachNLRI"
  BY DEF class
<1>5. new = IF class \in PlainClasses /\ field = Field[class] THEN text ELSE old
  BY <1>2, <1>3, <1>4
<1> QED
  BY <1>5 DEF class, text, new, old

\* As long as there is no MP_REACH_NLRI, both programs hold the same texts.
LEMMA KeepsSeen ==
  ASSUME NEW f, NEW values, NEW n \in Nat, Keeps(f, values, n), NEW initial, NEW k \in 0 .. n,
         \A i \in 1 .. k : Plain(values[i]) /\ values[i].class # "AttributeTypeMPReachNLRI"
  PROVE  f[k] = SeenTexts(values, k, initial)
<1> DEFINE Seen(i) == SeenTexts(values, i, initial)
           S == {i \in Nat : i <= k => /\ f[i] = [field \in TextFields |-> f[i][field]]
                                       /\ \A field \in TextFields : f[i][field] = Seen(i)[field]}
<1>1. \A i \in 0 .. n : f[i] = IF i = 0 THEN Defaults ELSE Keeping(f[i - 1], values[i])
  BY DEF Keeps
<1>2. 0 \in S
  <2>1. Defaults = [field \in TextFields |-> Defaults[field]]
    BY DEF Defaults, TextFields
  <2> QED
    BY <1>1, <2>1, SeenTextsNone
<1>3. ASSUME NEW i \in Nat, i \in S PROVE i + 1 \in S
  <2> SUFFICES ASSUME i + 1 <= k
               PROVE  /\ f[i + 1] = [field \in TextFields |-> f[i + 1][field]]
                      /\ \A field \in TextFields : f[i + 1][field] = Seen(i + 1)[field]
    OBVIOUS
  <2> DEFINE v == values[i + 1]
  <2>1. /\ f[i] = [field \in TextFields |-> f[i][field]]
        /\ \A field \in TextFields : f[i][field] = Seen(i)[field]
    BY <1>3
  <2>2. i + 1 \in 1 .. k /\ i + 1 \in 0 .. n /\ i + 1 # 0 /\ (i + 1) - 1 = i
    OBVIOUS
  <2>3. Plain(v) /\ v.class # "AttributeTypeMPReachNLRI"
    BY <2>2
  <2>4. f[i + 1] = Keeping(f[i], v)
    BY <1>1, <2>2
  <2>5. /\ f[i + 1] = [field \in TextFields |-> f[i + 1][field]]
        /\ \A field \in TextFields : f[i + 1][field] =
             IF v.class \in PlainClasses /\ field = Field[v.class] THEN FieldText(v) ELSE f[i][field]
    <3> HIDE DEF v
    <3> QED
      BY <2>1, <2>3, <2>4, KeepingIs
  <2>6. ASSUME NEW field \in TextFields
        PROVE  Seen(i + 1)[field] =
                 IF v.class \in PlainClasses /\ field = Field[v.class] THEN FieldText(v)
                 ELSE Seen(i)[field]
    BY <2>3, SeenPlainNext, SMTT(60)
  <2> HIDE DEF Seen, v
  <2> QED
    BY <2>1, <2>5, <2>6
<1>4. Nat \subseteq S
  <2> HIDE DEF S
  <2> QED
    BY <1>2, <1>3, Induct
<1>5. /\ f[k] = [field \in TextFields |-> f[k][field]]
      /\ \A field \in TextFields : f[k][field] = Seen(k)[field]
  BY <1>4
<1>6. Seen(k) = [field \in TextFields |-> Seen(k)[field]]
  BY FieldsOfTexts DEF SeenTexts
<1> HIDE DEF Seen
<1> QED
  BY <1>5, <1>6 DEF Seen

\* The one attribute of a class that is looked up.
LEMMA LastOfOne ==
  ASSUME NEW values, IsList(values), NEW class, NEW i \in 1 .. Len(values),
         values[i].class = class, \A j \in 1 .. Len(values) : values[j].class = class => j = i
  PROVE  LastOfClass(class, values) = <<values[i]>>
<1> DEFINE places == {j \in DOMAIN values : values[j].class = class}
<1>1. Len(values) \in Nat /\ DOMAIN values = 1 .. Len(values)
  BY ListFacts
<1>2. Max({i}) = i
  BY <1>1 DEF Max
<1>3. Max(places) = i /\ places # {}
  BY <1>1, <1>2
<1> QED
  BY <1>3 DEF LastOfClass

\* It finds nothing where there is none.
LEMMA LastOfNone ==
  ASSUME NEW values, IsList(values), NEW class,
         \A j \in 1 .. Len(values) : values[j].class # class
  PROVE  LastOfClass(class, values) = << >>
  BY ListFacts DEF LastOfClass

\* What is known of the attributes of an UPDATE that both programs show alike.
LEMMA ComparableFacts ==
  ASSUME NEW u, AreValues(u.pathAttributes), Comparable(u)
  PROVE  /\ IsList(u.pathAttributes) /\ Len(u.pathAttributes) \in Nat
         /\ DOMAIN u.pathAttributes = 1 .. Len(u.pathAttributes)
         /\ \A i \in 1 .. Len(u.pathAttributes) :
              /\ IsValue(u.pathAttributes[i].class, u.pathAttributes[i])
              /\ Plain(u.pathAttributes[i])
              /\ u.pathAttributes[i].class \in MPClasses =>
                   /\ u.pathAttributes[i].afi \in {IPv4, IPv6}
                   /\ \A j \in 1 .. Len(u.pathAttributes) :
                        u.pathAttributes[j].class = u.pathAttributes[i].class => j = i
              /\ u.pathAttributes[i].class = "AttributeTypeMPReachNLRI" => i = Len(u.pathAttributes)
<1> DEFINE values == u.pathAttributes
<1>1. IsList(values) /\ Len(values) \in Nat /\ DOMAIN values = 1 .. Len(values)
  BY ListFacts DEF AreValues
<1>2. /\ \A i \in 1 .. Len(values) : values[i].class \in MPClasses =>
           \A j \in 1 .. Len(values) : values[i].class = values[j].class => i = j
      /\ \A i \in 1 .. Len(values) :
           /\ (values[i].class \in MPClasses => values[i].afi \in {IPv4, IPv6})
           /\ values[i].class \notin {"AttributeTypeAS4Path", "AttributeTypeAS4Aggregator"}
           /\ (values[i].class = "AttributeTypeMPReachNLRI" => i = Len(values))
           /\ (values[i].class = "AttributeTypeASPath" =>
                 \A s \in ToSet(values[i].complete) : s.type \notin Confederation)
  BY <1>1 DEF Comparable, Regular
<1>3. \A i \in 1 .. Len(values) : IsValue(values[i].class, values[i])
  BY <1>1, ElementOfList DEF AreValues
<1> HIDE DEF values
<1>4. ASSUME NEW i \in 1 .. Len(values) PROVE Plain(values[i])
  <2> DEFINE v == values[i]
  <2>1. /\ v.class = "AttributeTypeASPath" => IsList(v.complete)
        /\ v.class = "AttributeTypeNextHop" => v.afi \in {IPv4, IPv6}
    BY <1>3 DEF IsValue, AreSegments
  <2>2. /\ v.class \notin {"AttributeTypeAS4Path", "AttributeTypeAS4Aggregator"}
        /\ v.class = "AttributeTypeASPath" => \A s \in ToSet(v.complete) : s.type \notin Confederation
    BY <1>2
  <2> HIDE DEF v
  <2>3. ASSUME v.class = "AttributeTypeASPath", NEW j \in 1 .. Len(v.complete)
        PROVE  v.complete[j].type \notin Confederation
    BY <2>1, <2>2, <2>3, ElementOfList
  <2> QED
    BY <2>1, <2>2, <2>3 DEF Plain, v
<1> QED
  BY <1>1, <1>2, <1>3, <1>4 DEF values

\* genAsciiMsg, looking the attributes up, and AsciiBGPVisitor, meeting them, end with the same texts.
LEMMA TextsAgree ==
  ASSUME NEW u, AreValues(u.pathAttributes), Comparable(u), NEW initial
  PROVE  AttributeTexts(u) = SeenTexts(u.pathAttributes, Len(u.pathAttributes), initial)
<1> DEFINE values == u.pathAttributes
           n == Len(values)
<1>1. /\ IsList(values) /\ n \in Nat
      /\ \A i \in 1 .. n : Plain(values[i])
      /\ \A i \in 1 .. n : values[i].class = "AttributeTypeMPReachNLRI" => i = n
      /\ \A i \in 1 .. n : values[i].class = "AttributeTypeMPReachNLRI" => values[i].afi \in {IPv4, IPv6}
  BY ComparableFacts DEF MPClasses
<1>2. AttributeTexts(u) = NextHopOverridden(KeptTexts(values), LastOfClass("AttributeTypeMPReachNLRI", values))
  BY DEF AttributeTexts, MPReachOf
<1> HIDE DEF values, n
<1>3. PICK f : Keeps(f, values, n) /\ KeptTexts(values) = f[n]
  BY <1>1, KeptTextsAre DEF n
<1>4. CASE \A i \in 1 .. n : values[i].class # "AttributeTypeMPReachNLRI"
  BY <1>1, <1>2, <1>3, <1>4, LastOfNone, KeepsSeen DEF n, NextHopOverridden, values
<1>5. CASE \E i \in 1 .. n : values[i].class = "AttributeTypeMPReachNLRI"
  <2>1. n \in 1 .. n /\ values[n].class = "AttributeTypeMPReachNLRI" /\ values[n].afi \in {IPv4, IPv6}
    BY <1>1, <1>5
  <2> DEFINE v == values[n]
             k == n - 1
             texts == f[k]
             hop == Text(v.nextHop, v.afi)
             new == SeenTexts(values, n, initial)
  <2>2. k \in Nat /\ k \in 0 .. n /\ k + 1 = n /\ n # 0 /\ n \in 0 .. n
    BY <1>1, <2>1
  <2>3. LastOfClass("AttributeTypeMPReachNLRI", values) = <<v>>
    BY <1>1, <2>1, LastOfOne DEF n
  <2>4. \A i \in 1 .. k : Plain(values[i]) /\ values[i].class # "AttributeTypeMPReachNLRI"
    BY <1>1, <2>2
  <2>5. texts = SeenTexts(values, k, initial)
    <3> HIDE DEF k
    <3> QED
      BY <1>1, <1>3, <2>2, <2>4, KeepsSeen
  <2>6. f[n] = texts
    BY <1>3, <2>1, <2>2 DEF Keeps, KeptClasses, Keeping
  <2>7. FamilySeen(values, n, initial) = v.afi
    <3>1. HasFamily(v)
      BY <2>1 DEF HasFamily, MPClasses, IPv4, IPv6
    <3>2. FamilySeen(values, k + 1, initial) =
            IF HasFamily(values[k + 1]) THEN values[k + 1].afi ELSE FamilySeen(values, k, initial)
      <4> HIDE DEF k
      <4> QED
        BY <2>2, FamilySeenNext
    <3> QED
      BY <2>2, <3>1, <3>2
  <2>8. ASSUME NEW field \in TextFields
        PROVE  new[field] = IF field = "next_hop" THEN hop ELSE texts[field]
    <3>1. SeenTexts(values, k + 1, initial)[field] =
            IF field = "next_hop" THEN Text(values[k + 1].nextHop, FamilySeen(values, k + 1, initial))
            ELSE SeenTexts(values, k, initial)[field]
      <4> HIDE DEF k
      <4>1. k \in Nat
        BY <2>2
      <4>2. values[k + 1].class = "AttributeTypeMPReachNLRI" =>
              SeenTexts(values, k + 1, initial)[field] =
                IF field = "next_hop"
                THEN Text(values[k + 1].nextHop, FamilySeen(values, k + 1, initial))
                ELSE SeenTexts(values, k, initial)[field]
        <5>1. TextsNext(values, k, initial, field)
          BY <4>1, SeenTextsNext
        <5> QED
          BY <5>1 DEF TextsNext
      <4> QED
        BY <2>1, <2>2, <4>2
    <3> QED
      BY <2>2, <2>5, <2>7, <3>1
  <2>9. AttributeTexts(u) = [texts EXCEPT !.next_hop = hop]
    <3> HIDE DEF texts, v
    <3>1. AttributeTexts(u) = NextHopOverridden(texts, <<v>>)
      BY <1>2, <1>3, <2>3, <2>6
    <3>2. v.afi \in {IPv4, IPv6}
      BY <2>1 DEF v
    <3> QED
      BY <3>1, <3>2 DEF NextHopOverridden
  <2>10. new = [field \in TextFields |-> new[field]]
    BY FieldsOfTexts DEF SeenTexts
  <2>11. "next_hop" \in TextFields
    BY DEF TextFields
  <2> HIDE DEF texts, hop, new
  <2>12. [texts EXCEPT !.next_hop = hop] = [field \in TextFields |-> IF field = "next_hop" THEN hop ELSE texts[field]]
    BY <2>5, <2>11, FieldsOfTexts DEF SeenTexts
  <2>13. [texts EXCEPT !.next_hop = hop] = new
    BY <2>8, <2>10, <2>12
  <2> QED
    BY <2>9, <2>13 DEF new, values, n
<1> QED
  BY <1>4, <1>5

-----------------------------------------------------------------------------
(* The lines of an UPDATE                                                  *)

\* What begins with one list and goes on with another is their concatenation.
LEMMA ConcatIs ==
  ASSUME NEW s, NEW t, NEW r, IsList(s), IsList(t), IsList(r), Len(r) = Len(s) + Len(t),
         \A i \in 1 .. Len(s) : r[i] = s[i], \A i \in 1 .. Len(t) : r[Len(s) + i] = t[i]
  PROVE  r = s \o t
<1>1. Len(s) \in Nat /\ Len(t) \in Nat
  BY ListFacts
<1>2. /\ IsList(s \o t) /\ Len(s \o t) = Len(s) + Len(t)
      /\ \A i \in 1 .. Len(s) + Len(t) : (s \o t)[i] = IF i <= Len(s) THEN s[i] ELSE t[i - Len(s)]
  BY ConcatList
<1>3. ASSUME NEW i \in 1 .. Len(r) PROVE r[i] = (s \o t)[i]
  <2>1. CASE i <= Len(s)
    BY <1>1, <1>2, <2>1
  <2>2. CASE ~(i <= Len(s))
    <3> DEFINE k == i - Len(s)
    <3>1. k \in 1 .. Len(t) /\ i = Len(s) + k
      BY <1>1, <2>2
    <3>2. (s \o t)[i] = t[k]
      BY <1>1, <1>2, <2>2
    <3> HIDE DEF k
    <3> QED
      BY <3>1, <3>2
  <2> QED
    BY <2>1, <2>2
<1> QED
  BY <1>2, <1>3, ListEqual

\* The prefixes of routes, one for each.
LEMMA RoutePrefixesAre ==
  ASSUME NEW routes, NEW afi, IsList(routes)
  PROVE  /\ IsList(RoutePrefixes(routes, afi)) /\ Len(RoutePrefixes(routes, afi)) = Len(routes)
         /\ \A i \in 1 .. Len(routes) : RoutePrefixes(routes, afi)[i] = Text(routes[i].prefix, afi)
<1> DEFINE s == RoutePrefixes(routes, afi)
           n == Len(routes)
<1>1. n \in Nat /\ DOMAIN routes = 1 .. n
  BY ListFacts
<1> HIDE DEF s, n
<1> QED
  BY <1>1, FunctionIsList DEF s, n, RoutePrefixes

\* Two lists of routes, one after the other, have their lines one after the other.
LEMMA LinesOfRoutesConcat ==
  ASSUME NEW head, NEW s, NEW t, NEW family, NEW texts, IsList(s), IsList(t)
  PROVE  LinesOfRoutes(head, s \o t, family, texts) =
           LinesOfRoutes(head, s, family, texts) \o LinesOfRoutes(head, t, family, texts)
<1> DEFINE Lines(routes) == LinesOfRoutes(head, routes, family, texts)
           Of(route) == IF route.class = "NLRIReachable"
                        THEN Joined(Text(route.prefix, family), head, texts)
                        ELSE Joined(Text(route.prefix, family), [head EXCEPT !.kind = "W"], << >>)
<1>1. ASSUME NEW routes, IsList(routes)
      PROVE  /\ IsList(Lines(routes)) /\ Len(Lines(routes)) = Len(routes)
             /\ \A i \in 1 .. Len(routes) : Lines(routes)[i] = Of(routes[i])
  BY <1>1, LinesOfRoutesAre
<1> HIDE DEF Lines, Of
<1> DEFINE u == s \o t
<1>2. /\ Len(s) \in Nat /\ Len(t) \in Nat
      /\ IsList(u) /\ Len(u) = Len(s) + Len(t)
      /\ \A i \in 1 .. Len(s) : u[i] = s[i]
      /\ \A i \in 1 .. Len(t) : u[Len(s) + i] = t[i]
  BY ListFacts, ConcatList
<1> HIDE DEF u
<1>3. /\ IsList(Lines(s)) /\ Len(Lines(s)) = Len(s)
      /\ \A i \in 1 .. Len(s) : Lines(s)[i] = Of(s[i])
      /\ IsList(Lines(t)) /\ Len(Lines(t)) = Len(t)
      /\ \A i \in 1 .. Len(t) : Lines(t)[i] = Of(t[i])
      /\ IsList(Lines(u)) /\ Len(Lines(u)) = Len(u)
      /\ \A i \in 1 .. Len(u) : Lines(u)[i] = Of(u[i])
  BY <1>1, <1>2
<1>4. \A i \in 1 .. Len(t) : Len(s) + i \in 1 .. Len(u)
  BY <1>2
<1> DEFINE a == Lines(s)
           b == Lines(t)
           c == Lines(u)
<1>5. /\ Len(c) = Len(a) + Len(b)
      /\ \A i \in 1 .. Len(a) : c[i] = a[i]
      /\ \A i \in 1 .. Len(b) : c[Len(a) + i] = b[i]
  BY <1>2, <1>3, <1>4
<1>6. IsList(a) /\ IsList(b) /\ IsList(c)
  BY <1>3
<1> HIDE DEF a, b, c
<1>7. c = a \o b
  BY <1>5, <1>6, ConcatIs
<1> QED
  BY <1>7 DEF Lines, u, a, b, c

-----------------------------------------------------------------------------

WithdrawnLines(dumped, prefixes) == [i \in DOMAIN prefixes |-> Line(dumped, "W", prefixes[i])]

AnnouncedLines(dumped, prefixes, texts) ==
  [i \in DOMAIN prefixes |->
     AnnouncedLine(Line(dumped, IF dumped.is_tabledump THEN "B" ELSE "A", prefixes[i]), texts)]

\* The lines of an UPDATE are those.
LEMMA UpdateLinesAre ==
  ASSUME NEW dumped
  PROVE  UpdateLines(dumped) =
           WithdrawnLines(dumped, WithdrawnPrefixes(dumped.bgp_msg))
             \o AnnouncedLines(dumped, AnnouncedPrefixes(dumped.bgp_msg),
                               AttributeTexts(dumped.bgp_msg))
BY DEF UpdateLines, WithdrawnLines, AnnouncedLines

\* One line for each prefix that is withdrawn.
LEMMA WithdrawnLinesAre ==
  ASSUME NEW dumped, NEW s, IsList(s)
  PROVE  /\ IsList(WithdrawnLines(dumped, s)) /\ Len(WithdrawnLines(dumped, s)) = Len(s)
         /\ \A i \in 1 .. Len(s) : WithdrawnLines(dumped, s)[i] = Line(dumped, "W", s[i])
<1> DEFINE w == WithdrawnLines(dumped, s)
           n == Len(s)
<1>1. n \in Nat /\ DOMAIN s = 1 .. n
  BY ListFacts
<1> HIDE DEF w, n
<1> QED
  BY <1>1, FunctionIsList DEF w, n, WithdrawnLines

\* One for each that is announced.
LEMMA AnnouncedLinesAre ==
  ASSUME NEW dumped, NEW s, NEW texts, IsList(s)
  PROVE  /\ IsList(AnnouncedLines(dumped, s, texts)) /\ Len(AnnouncedLines(dumped, s, texts)) = Len(s)
         /\ \A i \in 1 .. Len(s) : AnnouncedLines(dumped, s, texts)[i] =
              AnnouncedLine(Line(dumped, IF dumped.is_tabledump THEN "B" ELSE "A", s[i]), texts)
<1> DEFINE w == AnnouncedLines(dumped, s, texts)
           n == Len(s)
           kind == IF dumped.is_tabledump THEN "B" ELSE "A"
<1>1. n \in Nat /\ DOMAIN s = 1 .. n
  BY ListFacts
<1>2. w = [i \in 1 .. n |-> w[i]] /\ \A i \in 1 .. n : w[i] = AnnouncedLine(Line(dumped, kind, s[i]), texts)
  BY <1>1 DEF AnnouncedLines
<1> HIDE DEF w, n, kind
<1> QED
  BY <1>1, <1>2, FunctionIsList DEF w, n, kind

\* Those of two lists of prefixes come one after the other.
LEMMA UpdateLinesConcat ==
  ASSUME NEW dumped, NEW s, NEW t, NEW texts, IsList(s), IsList(t)
  PROVE  /\ WithdrawnLines(dumped, s \o t) = WithdrawnLines(dumped, s) \o WithdrawnLines(dumped, t)
         /\ AnnouncedLines(dumped, s \o t, texts)
              = AnnouncedLines(dumped, s, texts) \o AnnouncedLines(dumped, t, texts)
<1> DEFINE u == s \o t
<1>1. /\ Len(s) \in Nat /\ Len(t) \in Nat
      /\ IsList(u) /\ Len(u) = Len(s) + Len(t)
      /\ \A i \in 1 .. Len(s) : u[i] = s[i]
      /\ \A i \in 1 .. Len(t) : u[Len(s) + i] = t[i]
  BY ListFacts, ConcatList
<1> HIDE DEF u
<1>2. /\ \A i \in 1 .. Len(s) : i \in 1 .. Len(u)
      /\ \A i \in 1 .. Len(t) : Len(s) + i \in 1 .. Len(u)
  BY <1>1
<1>3. WithdrawnLines(dumped, u) = WithdrawnLines(dumped, s) \o WithdrawnLines(dumped, t)
  <2> DEFINE Lines(prefixes) == WithdrawnLines(dumped, prefixes)
             Of(prefix) == Line(dumped, "W", prefix)
  <2>1. /\ IsList(Lines(s)) /\ Len(Lines(s)) = Len(s)
        /\ \A i \in 1 .. Len(s) : Lines(s)[i] = Of(s[i])
        /\ IsList(Lines(t)) /\ Len(Lines(t)) = Len(t)
        /\ \A i \in 1 .. Len(t) : Lines(t)[i] = Of(t[i])
        /\ IsList(Lines(u)) /\ Len(Lines(u)) = Len(u)
        /\ \A i \in 1 .. Len(u) : Lines(u)[i] = Of(u[i])
    BY <1>1, WithdrawnLinesAre
  <2> HIDE DEF Lines, Of
  <2> DEFINE a == Lines(s)
             b == Lines(t)
             c == Lines(u)
  <2>2. /\ Len(c) = Len(a) + Len(b)
        /\ \A i \in 1 .. Len(a) : c[i] = a[i]
        /\ \A i \in 1 .. Len(b) : c[Len(a) + i] = b[i]
    BY <1>1, <1>2, <2>1
  <2>3. IsList(a) /\ IsList(b) /\ IsList(c)
    BY <2>1
  <2> HIDE DEF a, b, c
  <2>4. c = a \o b
    BY <2>2, <2>3, ConcatIs
  <2> QED
    BY <2>4 DEF Lines, a, b, c
<1>4. AnnouncedLines(dumped, u, texts)
        = AnnouncedLines(dumped, s, texts) \o AnnouncedLines(dumped, t, texts)
  <2> DEFINE Lines(prefixes) == AnnouncedLines(dumped, prefixes, texts)
             Of(prefix) ==
               AnnouncedLine(Line(dumped, IF dumped.is_tabledump THEN "B" ELSE "A", prefix), texts)
  <2>1. ASSUME NEW v, IsList(v)
        PROVE  /\ IsList(Lines(v)) /\ Len(Lines(v)) = Len(v)
               /\ \A i \in 1 .. Len(v) : Lines(v)[i] = Of(v[i])
    BY <2>1, AnnouncedLinesAre
  <2> HIDE DEF Lines, Of
  <2>2. /\ IsList(Lines(s)) /\ Len(Lines(s)) = Len(s)
        /\ \A i \in 1 .. Len(s) : Lines(s)[i] = Of(s[i])
        /\ IsList(Lines(t)) /\ Len(Lines(t)) = Len(t)
        /\ \A i \in 1 .. Len(t) : Lines(t)[i] = Of(t[i])
        /\ IsList(Lines(u)) /\ Len(Lines(u)) = Len(u)
        /\ \A i \in 1 .. Len(u) : Lines(u)[i] = Of(u[i])
    BY <1>1, <2>1
  <2> DEFINE a == Lines(s)
             b == Lines(t)
             c == Lines(u)
  <2>3. /\ Len(c) = Len(a) + Len(b)
        /\ \A i \in 1 .. Len(a) : c[i] = a[i]
        /\ \A i \in 1 .. Len(b) : c[Len(a) + i] = b[i]
    BY <1>1, <1>2, <2>2
  <2>4. IsList(a) /\ IsList(b) /\ IsList(c)
    BY <2>2
  <2> HIDE DEF a, b, c
  <2>5. c = a \o b
    BY <2>3, <2>4, ConcatIs
  <2> QED
    BY <2>5 DEF Lines, a, b, c
<1> QED
  BY <1>3, <1>4 DEF u

-----------------------------------------------------------------------------

\* A peer that both programs show alike: its family is one of two, its AS is no negative int.
PlainPeer(peer) ==
  peer.afi \in {IPv4, IPv6} /\ peer.as \in 0 .. ASModulus - 1 /\ peer.as < ASModulus \div 2

\* The head of an UPDATE's lines in bgpparser2.
UpdateHead(m) == HeadOf("BGP4MP", "A", m.peer.ip, m.peer.afi, m.peer.as)

\* A number below the middle stays itself as an int.
LEMMA SmallIsItself ==
  ASSUME NEW n \in 0 .. ASModulus - 1, n < ASModulus \div 2
  PROVE  Signed(n) = n
<1>1. /\ n \in Int /\ ASModulus \in Nat
  BY ASModulusAssumption
<1>2. ASSUME NEW half \in Int, n < half PROVE ~(n >= half)
  BY <1>1, <1>2
<1> QED
  BY <1>1, <1>2 DEF Signed

\* The two programs begin a line with the same four fields.
LEMMA SameHead ==
  ASSUME NEW m, PlainPeer(m.peer), NEW kind, NEW prefix
  PROVE  Line(Bgp4MPMessage(m), kind, prefix) =
           [type |-> "BGP4MP", kind |-> kind, peer |-> Text(m.peer.ip, m.peer.afi),
            peer_as |-> m.peer.as, prefix |-> prefix]
<1> DEFINE d == Bgp4MPMessage(m)
<1>1. d.is_tabledump = FALSE /\ d.peer = m.peer /\ d.afi = m.peer.afi
  BY DEF Bgp4MPMessage, Dumped
<1>2. TextOfFamily(m.peer.ip, m.peer.afi) = Text(m.peer.ip, m.peer.afi)
  BY DEF TextOfFamily, PlainPeer
<1>3. Signed(m.peer.as) = m.peer.as
  BY SmallIsItself DEF PlainPeer
<1> HIDE DEF d
<1> QED
  BY <1>1, <1>2, <1>3 DEF Line, d

\* A line of a withdrawn route is the same in both.
LEMMA SameWithdrawn ==
  ASSUME NEW m, PlainPeer(m.peer), NEW prefix
  PROVE  Joined(prefix, [UpdateHead(m) EXCEPT !.kind = "W"], << >>)
           = Line(Bgp4MPMessage(m), "W", prefix)
<1> DEFINE head == [UpdateHead(m) EXCEPT !.kind = "W"]
           none == << >>
           fields == {"prefix", "type", "kind", "peer", "peer_as"}
           line == Line(Bgp4MPMessage(m), "W", prefix)
           other == Joined(prefix, head, none)
<1>1. /\ DOMAIN head = {"type", "kind", "peer", "peer_as"}
      /\ head.type = "BGP4MP" /\ head.kind = "W"
      /\ head.peer = Text(m.peer.ip, m.peer.afi) /\ head.peer_as = m.peer.as
  BY DEF UpdateHead, HeadOf
<1>2. /\ line = [f \in fields |-> line[f]]
      /\ line.type = "BGP4MP" /\ line.kind = "W" /\ line.prefix = prefix
      /\ line.peer = Text(m.peer.ip, m.peer.afi) /\ line.peer_as = m.peer.as
  BY SameHead
<1>3. DOMAIN none = {}
  OBVIOUS
<1> HIDE DEF head, line, none
<1>4. {"prefix"} \cup DOMAIN head \cup DOMAIN none = fields /\ "prefix" \notin DOMAIN head
  BY <1>1, <1>3
<1>5. /\ other = [f \in fields |-> other[f]]
      /\ other["prefix"] = prefix
      /\ \A f \in fields \ {"prefix"} : other[f] = IF f \in DOMAIN head THEN head[f] ELSE none[f]
  <2> HIDE DEF fields
  <2> QED
    BY <1>4, JoinedIs
<1> HIDE DEF other
<1>6. ASSUME NEW f \in fields PROVE line[f] = other[f]
  BY <1>1, <1>2, <1>5
<1>7. line = other
  <2> HIDE DEF fields
  <2> QED
    BY <1>2, <1>5, <1>6
<1> QED
  BY <1>7 DEF line, other, head, none

\* And one of an announced route, where both have the same texts.
LEMMA SameAnnounced ==
  ASSUME NEW m, PlainPeer(m.peer), NEW prefix, NEW texts, DOMAIN texts = TextFields
  PROVE  Joined(prefix, UpdateHead(m), texts)
           = AnnouncedLine(Line(Bgp4MPMessage(m), "A", prefix), texts)
<1> DEFINE head == UpdateHead(m)
           own == {"prefix", "type", "kind", "peer", "peer_as"}
           fields == own \cup TextFields
           begun == Line(Bgp4MPMessage(m), "A", prefix)
           line == AnnouncedLine(begun, texts)
           other == Joined(prefix, head, texts)
<1>1. /\ DOMAIN head = {"type", "kind", "peer", "peer_as"}
      /\ head.type = "BGP4MP" /\ head.kind = "A"
      /\ head.peer = Text(m.peer.ip, m.peer.afi) /\ head.peer_as = m.peer.as
  BY DEF UpdateHead, HeadOf
<1>2. /\ DOMAIN begun = own
      /\ begun.type = "BGP4MP" /\ begun.kind = "A" /\ begun.prefix = prefix
      /\ begun.peer = Text(m.peer.ip, m.peer.afi) /\ begun.peer_as = m.peer.as
  BY SameHead
<1> HIDE DEF head, begun
<1>3. /\ line = [f \in fields |-> line[f]]
      /\ \A f \in fields : line[f] = IF f \in own THEN begun[f] ELSE texts[f]
  <2>1. line = [f \in fields |-> IF f \in own THEN begun[f] ELSE texts[f]]
    BY <1>2 DEF AnnouncedLine
  <2> HIDE DEF line, fields, own
  <2> QED
    BY <2>1
<1> HIDE DEF line
<1>4. {"prefix"} \cup DOMAIN head \cup DOMAIN texts = fields /\ "prefix" \notin DOMAIN head
  BY <1>1
<1>5. /\ other = [f \in fields |-> other[f]]
      /\ other["prefix"] = prefix
      /\ \A f \in fields \ {"prefix"} : other[f] = IF f \in DOMAIN head THEN head[f] ELSE texts[f]
  <2> HIDE DEF fields
  <2> QED
    BY <1>4, JoinedIs
<1> HIDE DEF other
<1>6. ASSUME NEW f \in fields PROVE line[f] = other[f]
  BY <1>1, <1>2, <1>3, <1>5 DEF TextFields
<1>7. line = other
  <2> HIDE DEF fields
  <2> QED
    BY <1>3, <1>5, <1>6
<1> QED
  BY <1>7 DEF line, other, head, begun

-----------------------------------------------------------------------------
(* ProgramsAgree                                                           *)

\* The greatest of some places in a list is one of them.
LEMMA MaxOfPlaces ==
  ASSUME NEW n \in Nat, NEW S, S \subseteq 1 .. n, S # {}
  PROVE  Max(S) \in S /\ \A i \in S : i <= Max(S)
<1> DEFINE T == {n - i : i \in S}
<1>1. T \subseteq Nat /\ T # {}
  <2>1. \A i \in S : i \in 1 .. n /\ n - i \in Nat
    OBVIOUS
  <2> QED
    BY <2>1
<1> HIDE DEF T
<1>2. PICK y \in T : \A z \in T : y <= z
  BY <1>1, LeastNat
<1>3. PICK k \in S : y = n - k
  BY DEF T
<1>4. \A i \in S : k >= i
  <2>1. \A i \in S : n - i \in T
    BY DEF T
  <2> QED
    BY <1>2, <1>3, <2>1
<1> QED
  BY <1>4 DEF Max

\* Withdrawn routes have the same lines in both programs.
LEMMA SameWithdrawnLines ==
  ASSUME NEW m, PlainPeer(m.peer), NEW routes, AreRoutes("NLRIUnReachable", routes), NEW afi, NEW texts
  PROVE  LinesOfRoutes(UpdateHead(m), routes, afi, texts)
           = WithdrawnLines(Bgp4MPMessage(m), RoutePrefixes(routes, afi))
<1> DEFINE s == LinesOfRoutes(UpdateHead(m), routes, afi, texts)
           prefixes == RoutePrefixes(routes, afi)
           t == WithdrawnLines(Bgp4MPMessage(m), prefixes)
<1>1. IsList(routes) /\ \A i \in 1 .. Len(routes) : routes[i].class = "NLRIUnReachable"
  BY ElementOfList DEF AreRoutes
<1>2. /\ IsList(prefixes) /\ Len(prefixes) = Len(routes)
      /\ \A i \in 1 .. Len(routes) : prefixes[i] = Text(routes[i].prefix, afi)
  BY <1>1, RoutePrefixesAre
<1>3. /\ IsList(s) /\ Len(s) = Len(routes)
      /\ \A i \in 1 .. Len(routes) : s[i] =
           IF routes[i].class = "NLRIReachable"
           THEN Joined(Text(routes[i].prefix, afi), UpdateHead(m), texts)
           ELSE Joined(Text(routes[i].prefix, afi), [UpdateHead(m) EXCEPT !.kind = "W"], << >>)
  BY <1>1, LinesOfRoutesAre
<1> HIDE DEF prefixes
<1>4. /\ IsList(t) /\ Len(t) = Len(prefixes)
      /\ \A i \in 1 .. Len(prefixes) : t[i] = Line(Bgp4MPMessage(m), "W", prefixes[i])
  BY <1>2, WithdrawnLinesAre
<1> HIDE DEF s, t
<1>5. ASSUME NEW i \in 1 .. Len(routes) PROVE s[i] = t[i]
  <2> DEFINE prefix == Text(routes[i].prefix, afi)
  <2>1. s[i] = Joined(prefix, [UpdateHead(m) EXCEPT !.kind = "W"], << >>)
    BY <1>1, <1>3
  <2>2. t[i] = Line(Bgp4MPMessage(m), "W", prefix)
    BY <1>2, <1>4
  <2> HIDE DEF prefix
  <2> QED
    BY <2>1, <2>2, SameWithdrawn
<1>6. s = t
  BY <1>2, <1>3, <1>4, <1>5, ListEqual
<1> QED
  BY <1>6 DEF s, t, prefixes

\* Announced routes too, where the attributes have the same texts.
LEMMA SameAnnouncedLines ==
  ASSUME NEW m, PlainPeer(m.peer), NEW routes, AreRoutes("NLRIReachable", routes), NEW afi,
         NEW texts, DOMAIN texts = TextFields
  PROVE  LinesOfRoutes(UpdateHead(m), routes, afi, texts)
           = AnnouncedLines(Bgp4MPMessage(m), RoutePrefixes(routes, afi), texts)
<1> DEFINE s == LinesOfRoutes(UpdateHead(m), routes, afi, texts)
           prefixes == RoutePrefixes(routes, afi)
           d == Bgp4MPMessage(m)
           t == AnnouncedLines(d, prefixes, texts)
<1>1. IsList(routes) /\ \A i \in 1 .. Len(routes) : routes[i].class = "NLRIReachable"
  BY ElementOfList DEF AreRoutes
<1>2. /\ IsList(prefixes) /\ Len(prefixes) = Len(routes)
      /\ \A i \in 1 .. Len(routes) : prefixes[i] = Text(routes[i].prefix, afi)
  BY <1>1, RoutePrefixesAre
<1>3. /\ IsList(s) /\ Len(s) = Len(routes)
      /\ \A i \in 1 .. Len(routes) : s[i] =
           IF routes[i].class = "NLRIReachable"
           THEN Joined(Text(routes[i].prefix, afi), UpdateHead(m), texts)
           ELSE Joined(Text(routes[i].prefix, afi), [UpdateHead(m) EXCEPT !.kind = "W"], << >>)
  BY <1>1, LinesOfRoutesAre
<1> HIDE DEF prefixes
<1>4. d.is_tabledump = FALSE
  BY DEF Bgp4MPMessage, Dumped
<1>5. /\ IsList(t) /\ Len(t) = Len(prefixes)
      /\ \A i \in 1 .. Len(prefixes) : t[i] =
           AnnouncedLine(Line(d, IF d.is_tabledump THEN "B" ELSE "A", prefixes[i]), texts)
  BY <1>2, AnnouncedLinesAre
<1> HIDE DEF s, t, d
<1>6. ASSUME NEW i \in 1 .. Len(routes) PROVE s[i] = t[i]
  <2> DEFINE prefix == Text(routes[i].prefix, afi)
  <2>1. s[i] = Joined(prefix, UpdateHead(m), texts)
    BY <1>1, <1>3
  <2>2. t[i] = AnnouncedLine(Line(d, "A", prefix), texts)
    BY <1>2, <1>4, <1>5
  <2> HIDE DEF prefix
  <2> QED
    BY <2>1, <2>2, SameAnnounced DEF d
<1>7. s = t
  BY <1>2, <1>3, <1>5, <1>6, ListEqual
<1> QED
  BY <1>7 DEF s, t, prefixes, d

\* Where one attribute has routes, the lines of all are those of that one.
LEMMA LinesToOne ==
  ASSUME NEW b, IsBatch(b), NEW k, NEW l \in 0 .. Len(b.values),
         \A i \in 1 .. l : i # k => LinesOfValue(b, i) = << >>
  PROVE  LinesTo(b, l) = IF k \in 1 .. l THEN LinesOfValue(b, k) ELSE << >>
<1> DEFINE n == Len(b.values)
           S == {i \in Nat : i <= l =>
                   LinesTo(b, i) = IF k \in 1 .. i THEN LinesOfValue(b, k) ELSE << >>}
<1>1. n \in Nat
  BY BatchFacts
<1>2. 0 \in S
  BY <1>1, LinesToAre
<1>3. ASSUME NEW i \in Nat, i \in S PROVE i + 1 \in S
  <2> SUFFICES ASSUME i + 1 <= l
               PROVE  LinesTo(b, i + 1) = IF k \in 1 .. i + 1 THEN LinesOfValue(b, k) ELSE << >>
    OBVIOUS
  <2>1. i \in 0 .. n /\ i < n /\ i + 1 \in 1 .. l
    BY <1>1
  <2>2. LinesTo(b, i) = IF k \in 1 .. i THEN LinesOfValue(b, k) ELSE << >>
    BY <1>3
  <2>3. /\ IsList(LinesTo(b, i)) /\ IsList(LinesOfValue(b, i + 1))
        /\ LinesTo(b, i + 1) = LinesTo(b, i) \o LinesOfValue(b, i + 1)
    BY <2>1, LinesToAre
  <2>4. CASE k = i + 1
    <3>1. LinesTo(b, i) = << >> /\ k \in 1 .. i + 1
      BY <2>2, <2>4
    <3> QED
      BY <2>3, <2>4, <3>1, ConcatEmpty
  <2>5. CASE k # i + 1
    <3>1. LinesOfValue(b, i + 1) = << >> /\ (k \in 1 .. i + 1 <=> k \in 1 .. i)
      BY <2>1, <2>5
    <3> QED
      BY <2>2, <2>3, <3>1, ConcatEmpty
  <2> QED
    BY <2>4, <2>5
<1>4. Nat \subseteq S
  <2> HIDE DEF S
  <2> QED
    BY <1>2, <1>3, Induct
<1> QED
  BY <1>1, <1>4

\* No prefixes, no lines.
LEMMA NoLines ==
  ASSUME NEW dumped, NEW texts
  PROVE  WithdrawnLines(dumped, << >>) = << >> /\ AnnouncedLines(dumped, << >>, texts) = << >>
  BY EmptyIsList, WithdrawnLinesAre, AnnouncedLinesAre, ListFacts

-----------------------------------------------------------------------------

\* An UPDATE that both programs show alike.
IsCompared(m) ==
  /\ m.payload.class = "BGPUpdate" /\ IsMessage("BGPUpdate", m.payload)
  /\ PlainPeer(m.peer)
  /\ Comparable(m.payload)

\* The lines of its attributes, as mrt2xml has them: withdrawn routes and announced ones.
UnreachLines(m) == WithdrawnLines(Bgp4MPMessage(m), MPPrefixes(MPUnreachOf(m.payload)))
ReachLines(m) ==
  AnnouncedLines(Bgp4MPMessage(m), MPPrefixes(MPReachOf(m.payload)), AttributeTexts(m.payload))

\* What is known of its batch.
LEMMA ComparedFacts ==
  ASSUME NEW m, IsCompared(m), NEW garbage, NEW b, b = UpdateBatch(m, garbage)
  PROVE  /\ IsBatch(b)
         /\ b.values = m.payload.pathAttributes /\ b.initial = garbage
         /\ HeadOfBatch(b) = UpdateHead(m)
         /\ AreValues(m.payload.pathAttributes)
         /\ AttributeTexts(m.payload) = SeenTexts(b.values, Len(b.values), b.initial)
         /\ DOMAIN AttributeTexts(m.payload) = TextFields
<1>1. IsBatch(b)
  BY UpdateBatchIs DEF IsCompared
<1>2. b.values = m.payload.pathAttributes /\ b.initial = garbage /\ HeadOfBatch(b) = UpdateHead(m)
  BY DEF UpdateBatch, HeadOfBatch, UpdateHead
<1>3. AreValues(m.payload.pathAttributes)
  BY DEF IsCompared, IsMessage
<1>4. AttributeTexts(m.payload) = SeenTexts(b.values, Len(b.values), b.initial)
  BY <1>2, <1>3, TextsAgree DEF IsCompared
<1>5. DOMAIN AttributeTexts(m.payload) = TextFields
  BY <1>4, FieldsOfTexts DEF SeenTexts
<1> QED
  BY <1>1, <1>2, <1>3, <1>4, <1>5

\* bgpparser2's lines of its MP_UNREACH_NLRI, before there is an MP_REACH_NLRI, are mrt2xml's.
LEMMA UnreachLinesAre ==
  ASSUME NEW m, IsCompared(m), NEW garbage, NEW b, b = UpdateBatch(m, garbage),
         NEW l \in 0 .. Len(b.values),
         \A i \in 1 .. l : b.values[i].class # "AttributeTypeMPReachNLRI",
         \A i \in 1 .. Len(b.values) : b.values[i].class = "AttributeTypeMPUnreachNLRI" => i <= l
  PROVE  LinesTo(b, l) = UnreachLines(m)
<1> DEFINE values == b.values
           n == Len(values)
           u == m.payload
           c == "AttributeTypeMPUnreachNLRI"
<1>1. /\ IsBatch(b) /\ values = u.pathAttributes /\ HeadOfBatch(b) = UpdateHead(m)
      /\ AreValues(u.pathAttributes) /\ Comparable(u) /\ PlainPeer(m.peer)
  BY ComparedFacts DEF IsCompared
<1>2. /\ IsList(values) /\ n \in Nat
      /\ \A i \in 1 .. n : IsValue(values[i].class, values[i])
      /\ \A i \in 1 .. n : values[i].class = c =>
           /\ values[i].afi \in {IPv4, IPv6}
           /\ \A j \in 1 .. n : values[j].class = values[i].class => j = i
  BY <1>1, ComparableFacts DEF MPClasses
<1>3. MPUnreachOf(u) = LastOfClass(c, values)
  BY <1>1 DEF MPUnreachOf
<1>4. \A i \in 1 .. l : i \in 1 .. n
  BY <1>2
<1> HIDE DEF u
<1>5. ASSUME NEW i \in 1 .. l, values[i].class # c
      PROVE  LinesOfValue(b, i) = << >>
  BY <1>4, <1>5 DEF MPClasses, LinesOfValue, HasFamily
<1>6. CASE \A i \in 1 .. n : values[i].class # c
  <2>1. MPPrefixes(MPUnreachOf(u)) = << >>
    BY <1>2, <1>3, <1>6, LastOfNone DEF MPPrefixes
  <2>2. \A i \in 1 .. l : i # 0 => LinesOfValue(b, i) = << >>
    BY <1>4, <1>5, <1>6
  <2>3. LinesTo(b, l) = IF 0 \in 1 .. l THEN LinesOfValue(b, 0) ELSE << >>
    BY <1>1, <2>2, LinesToOne
  <2> QED
    BY <2>1, <2>3, NoLines DEF UnreachLines, u
<1>7. CASE \E i \in 1 .. n : values[i].class = c
  <2>1. PICK k \in 1 .. n : values[k].class = c
    BY <1>7
  <2> DEFINE v == values[k]
             texts == SeenTexts(values, k, b.initial)
  <2>2. k \in 1 .. l
    BY <1>2, <2>1
  <2>3. /\ v.afi \in {IPv4, IPv6} /\ AreRoutes("NLRIUnReachable", v.nlri)
        /\ \A j \in 1 .. n : values[j].class = c => j = k
    BY <1>2, <2>1 DEF IsValue
  <2>4. \A i \in 1 .. l : i # k => LinesOfValue(b, i) = << >>
    BY <1>4, <1>5, <2>3
  <2>5. LinesTo(b, l) = LinesOfValue(b, k)
    BY <1>1, <2>2, <2>4, LinesToOne
  <2>6. LinesOfValue(b, k) = LinesOfRoutes(UpdateHead(m), v.nlri, v.afi, texts)
    BY <1>1, <2>1, <2>3 DEF HasFamily, MPClasses, IPv4, IPv6, LinesOfValue
  <2>7. MPUnreachOf(u) = <<v>>
    BY <1>2, <1>3, <2>1, <2>3, LastOfOne
  <2> HIDE DEF v, texts
  <2>8. LinesTo(b, l) = WithdrawnLines(Bgp4MPMessage(m), RoutePrefixes(v.nlri, v.afi))
    BY <1>1, <2>3, <2>5, <2>6, SameWithdrawnLines
  <2> QED
    BY <2>7, <2>8 DEF UnreachLines, u, MPPrefixes
<1> QED
  BY <1>6, <1>7

\* The lines of all its attributes are those of MP_UNREACH_NLRI, then those of MP_REACH_NLRI.
LEMMA AttributeLinesAgree ==
  ASSUME NEW m, IsCompared(m), NEW garbage, NEW b, b = UpdateBatch(m, garbage)
  PROVE  LinesTo(b, Len(b.values)) = UnreachLines(m) \o ReachLines(m)
<1> DEFINE values == b.values
           n == Len(values)
           u == m.payload
           c == "AttributeTypeMPReachNLRI"
           texts == AttributeTexts(u)
<1>1. /\ IsBatch(b) /\ values = u.pathAttributes /\ HeadOfBatch(b) = UpdateHead(m)
      /\ AreValues(u.pathAttributes) /\ Comparable(u) /\ PlainPeer(m.peer)
      /\ texts = SeenTexts(values, n, b.initial) /\ DOMAIN texts = TextFields
  BY ComparedFacts DEF IsCompared
<1>2. /\ IsList(values) /\ n \in Nat
      /\ \A i \in 1 .. n : IsValue(values[i].class, values[i])
      /\ \A i \in 1 .. n : values[i].class = c => i = n /\ values[i].afi \in {IPv4, IPv6}
  BY <1>1, ComparableFacts DEF MPClasses
<1>3. MPReachOf(u) = LastOfClass(c, values)
  BY <1>1 DEF MPReachOf
<1>4. /\ n \in 0 .. n /\ \A l \in 0 .. n : IsList(LinesTo(b, l))
      /\ \A l \in 0 .. n : l < n => LinesTo(b, l + 1) = LinesTo(b, l) \o LinesOfValue(b, l + 1)
  <2>1. n \in 0 .. n
    BY <1>2
  <2>2. ASSUME NEW l \in 0 .. n
        PROVE  /\ IsList(LinesTo(b, l))
               /\ l < n => LinesTo(b, l + 1) = LinesTo(b, l) \o LinesOfValue(b, l + 1)
    BY <1>1, LinesToAre
  <2> QED
    BY <2>1, <2>2
<1> HIDE DEF u
<1>5. CASE \A i \in 1 .. n : values[i].class # c
  <2>1. MPPrefixes(MPReachOf(u)) = << >>
    BY <1>2, <1>3, <1>5, LastOfNone DEF MPPrefixes
  <2>2. ReachLines(m) = << >>
    BY <2>1, NoLines DEF ReachLines, u
  <2>3. LinesTo(b, n) = UnreachLines(m)
    <3>1. \A i \in 1 .. n : i <= n
      BY <1>2
    <3> QED
      BY <1>4, <1>5, <3>1, UnreachLinesAre
  <2> QED
    BY <1>4, <2>2, <2>3, ConcatEmpty
<1>6. CASE \E i \in 1 .. n : values[i].class = c
  <2> DEFINE v == values[n]
             k == n - 1
  <2>1. n \in 1 .. n /\ v.class = c /\ v.afi \in {IPv4, IPv6} /\ AreRoutes("NLRIReachable", v.nlri)
    BY <1>2, <1>6 DEF IsValue
  <2>2. k \in 0 .. n /\ k < n /\ k + 1 = n
    BY <1>2, <2>1
  <2>3. LinesTo(b, n) = LinesTo(b, k) \o LinesOfValue(b, n)
    BY <1>4, <2>2
  <2>4. LinesTo(b, k) = UnreachLines(m)
    <3>1. \A i \in 1 .. n : values[i].class = "AttributeTypeMPUnreachNLRI" => i <= k
      BY <1>2, <2>1
    <3> HIDE DEF k
    <3> QED
      BY <1>2, <2>2, <3>1, UnreachLinesAre
  <2>5. LinesOfValue(b, n) = LinesOfRoutes(UpdateHead(m), v.nlri, v.afi, texts)
    BY <1>1, <2>1 DEF HasFamily, MPClasses, IPv4, IPv6, LinesOfValue
  <2>6. MPReachOf(u) = <<v>>
    BY <1>2, <1>3, <2>1, LastOfOne
  <2> HIDE DEF v, texts
  <2>7. LinesOfValue(b, n) = AnnouncedLines(Bgp4MPMessage(m), RoutePrefixes(v.nlri, v.afi), texts)
    BY <1>1, <2>1, <2>5, SameAnnouncedLines
  <2>8. MPPrefixes(<<v>>) = RoutePrefixes(v.nlri, v.afi)
    BY DEF MPPrefixes
  <2> QED
    BY <2>3, <2>4, <2>6, <2>7, <2>8 DEF ReachLines, u, texts
<1> QED
  BY <1>5, <1>6

\* The one message of a BGP4MP record.
LEMMA MessageAsciiLines ==
  ASSUME NEW m, m.class \in MessageClasses
  PROVE  AsciiLines(m) = MessageLines(Bgp4MPMessage(m))
<1> DEFINE d == Bgp4MPMessage(m)
<1>1. m.class \notin StateChangeClasses
  BY DEF MessageClasses, StateChangeClasses
<1>2. DumpedMessages(m) = <<d>>
  BY DEF DumpedMessages, MessageClasses, RibClasses
<1> HIDE DEF d
<1>3. [i \in DOMAIN <<d>> |-> MessageLines(<<d>>[i])] = <<MessageLines(d)>>
  OBVIOUS
<1>4. FlattenSeq([i \in DOMAIN DumpedMessages(m) |-> MessageLines(DumpedMessages(m)[i])])
        = FlattenSeq(<<MessageLines(d)>>)
  BY <1>2, <1>3
<1> QED
  BY <1>1, <1>4, FlattenOne DEF AsciiLines, d

\* The prefixes of the multiprotocol attribute that is looked up, whether there is one or not.
LEMMA MPPrefixesAreList ==
  ASSUME NEW values, AreValues(values), NEW class \in MPClasses
  PROVE  IsList(MPPrefixes(LastOfClass(class, values)))
<1> DEFINE places == {i \in DOMAIN values : values[i].class = class}
           found == LastOfClass(class, values)
<1>1. IsList(values) /\ Len(values) \in Nat /\ DOMAIN values = 1 .. Len(values)
  BY ListFacts DEF AreValues
<1>2. CASE places = {}
  BY <1>2, EmptyIsList DEF LastOfClass, MPPrefixes
<1>3. CASE places # {}
  <2> DEFINE k == Max(places)
             v == values[k]
  <2>1. k \in places
    BY <1>1, <1>3, MaxOfPlaces
  <2>2. found = <<v>>
    BY <1>3 DEF LastOfClass
  <2>3. IsList(v.nlri)
    BY <1>1, <2>1, ElementOfList DEF AreValues, IsValue, AreRoutes, MPClasses
  <2> HIDE DEF v
  <2>4. MPPrefixes(<<v>>) = RoutePrefixes(v.nlri, v.afi)
    BY DEF MPPrefixes
  <2> QED
    BY <2>2, <2>3, <2>4, RoutePrefixesAre
<1> QED
  BY <1>2, <1>3

\* The two programs print the same lines, in another order.
LEMMA UpdateAgrees ==
  ASSUME NEW m, IsCompared(m), m.class \in MessageClasses, NEW garbage
  PROVE  SameBag(ExpectedOfMessage(m, garbage), AsciiLines(m))
<1> DEFINE u == m.payload
           d == Bgp4MPMessage(m)
           b == UpdateBatch(m, garbage)
           texts == AttributeTexts(u)
           Wp == RoutePrefixes(u.withdrawnRoutes, IPv4)
           Np == RoutePrefixes(u.nlriRoutes, IPv4)
           Up == MPPrefixes(MPUnreachOf(u))
           Rp == MPPrefixes(MPReachOf(u))
           W == WithdrawnLines(d, Wp)
           N == AnnouncedLines(d, Np, texts)
           U == UnreachLines(m)
           R == ReachLines(m)
<1>1. /\ IsBatch(b) /\ HeadOfBatch(b) = UpdateHead(m) /\ PlainPeer(m.peer)
      /\ texts = SeenTexts(b.values, Len(b.values), b.initial) /\ DOMAIN texts = TextFields
      /\ u.class = "BGPUpdate" /\ IsMessage("BGPUpdate", u)
  BY ComparedFacts DEF IsCompared
<1>2. /\ AreRoutes("NLRIUnReachable", u.withdrawnRoutes) /\ AreRoutes("NLRIReachable", u.nlriRoutes)
      /\ IsList(u.withdrawnRoutes) /\ IsList(u.nlriRoutes) /\ AreValues(u.pathAttributes)
  BY <1>1 DEF IsMessage, AreRoutes
<1>3. ExpectedOfMessage(m, garbage) = (U \o R) \o (W \o N)
  <2>1. LinesOfBatch(b) = ExpectedOfMessage(m, garbage)
    BY <1>1, UpdateBatchIs
  <2>2. LinesOfBatch(b) = LinesTo(b, Len(b.values)) \o
                          LinesOfRoutes(UpdateHead(m), u.withdrawnRoutes \o u.nlriRoutes, IPv4, texts)
    BY <1>1 DEF LinesOfBatch, TextsAtEnd, UpdateBatch
  <2>3. LinesTo(b, Len(b.values)) = U \o R
    BY AttributeLinesAgree
  <2> HIDE DEF b, texts
  <2>4. LinesOfRoutes(UpdateHead(m), u.withdrawnRoutes \o u.nlriRoutes, IPv4, texts) =
          LinesOfRoutes(UpdateHead(m), u.withdrawnRoutes, IPv4, texts)
            \o LinesOfRoutes(UpdateHead(m), u.nlriRoutes, IPv4, texts)
    <3> DEFINE s == u.withdrawnRoutes
               t == u.nlriRoutes
               head == UpdateHead(m)
    <3>1. IsList(s) /\ IsList(t)
      BY <1>2
    <3> HIDE DEF s, t, head
    <3>2. \A h, x, y, f, z : IsList(x) /\ IsList(y) =>
            LinesOfRoutes(h, x \o y, f, z) = LinesOfRoutes(h, x, f, z) \o LinesOfRoutes(h, y, f, z)
      BY LinesOfRoutesConcat
    <3>3. LinesOfRoutes(head, s \o t, IPv4, texts) =
            LinesOfRoutes(head, s, IPv4, texts) \o LinesOfRoutes(head, t, IPv4, texts)
      BY <3>1, <3>2
    <3> QED
      BY <3>3 DEF s, t, head
  <2>5. LinesOfRoutes(UpdateHead(m), u.withdrawnRoutes, IPv4, texts) = W
    BY <1>1, <1>2, SameWithdrawnLines
  <2>6. LinesOfRoutes(UpdateHead(m), u.nlriRoutes, IPv4, texts) = N
    BY <1>1, <1>2, SameAnnouncedLines
  <2> QED
    BY <2>1, <2>2, <2>3, <2>4, <2>5, <2>6
<1>4. IsList(Wp) /\ IsList(Np)
  BY <1>2, RoutePrefixesAre
<1>5. IsList(Up) /\ IsList(Rp)
  BY <1>2, MPPrefixesAreList DEF MPUnreachOf, MPReachOf, MPClasses
<1>6. AsciiLines(m) = (W \o U) \o (N \o R)
  <2>1. AsciiLines(m) = MessageLines(d)
    BY MessageAsciiLines
  <2>2. d.bgp_msg = u
    BY DEF Bgp4MPMessage, Dumped
  <2>3. MessageLines(d) = UpdateLines(d)
    BY <1>1, <2>2 DEF MessageLines
  <2>4. UpdateLines(d) = WithdrawnLines(d, Wp \o Up) \o AnnouncedLines(d, Np \o Rp, texts)
    BY <2>2, UpdateLinesAre DEF WithdrawnPrefixes, AnnouncedPrefixes
  <2>5. /\ WithdrawnLines(d, Wp \o Up) = WithdrawnLines(d, Wp) \o WithdrawnLines(d, Up)
        /\ AnnouncedLines(d, Np \o Rp, texts)
             = AnnouncedLines(d, Np, texts) \o AnnouncedLines(d, Rp, texts)
    <3> HIDE DEF d, Wp, Np, Up, Rp, texts
    <3>1. WithdrawnLines(d, Wp \o Up) = WithdrawnLines(d, Wp) \o WithdrawnLines(d, Up)
      BY ZenonT(60), <1>4, <1>5, UpdateLinesConcat
    <3>2. AnnouncedLines(d, Np \o Rp, texts)
            = AnnouncedLines(d, Np, texts) \o AnnouncedLines(d, Rp, texts)
      BY <1>4, <1>5, UpdateLinesConcat
    <3> QED
      BY <3>1, <3>2
  <2> QED
    BY <2>1, <2>3, <2>4, <2>5 DEF UnreachLines, ReachLines
<1>7. IsList(W) /\ IsList(N) /\ IsList(U) /\ IsList(R)
  BY <1>4, <1>5, WithdrawnLinesAre, AnnouncedLinesAre DEF UnreachLines, ReachLines
<1> HIDE DEF W, N, U, R
<1> QED
  BY <1>3, <1>6, <1>7, SameInOtherOrder

\* Whenever the two programs are compared, their lines are the same.
LEMMA AgreesAtEnd ==
  ASSUME TypeOK, LinesRight
  PROVE  ProgramsAgree
<1> SUFFICES ASSUME stack = << >>, program = "AsciiVisitor", message.class \in MessageClasses,
                    message.payload.class = "BGPUpdate", Comparable(message.payload),
                    message.peer.as < ASModulus \div 2, message.peer.afi \in {IPv4, IPv6}
             PROVE  SameBag(printed, AsciiLines(message))
  BY DEF ProgramsAgree, Finished
<1>1. PICK m \in Messages, garbage \in Uninitialised : message = m /\ Where(m, garbage)
  BY DEF LinesRight
<1>2. ExpectedOf(m, garbage) = ExpectedOfMessage(m, garbage)
  BY <1>1, ExpectedOfClass
<1>3. IsCompared(m)
  BY <1>1, MessagesAssumption DEF IsCompared, PlainPeer, IsRecord
<1> QED
  BY <1>1, <1>2, <1>3, UpdateAgrees, WhereEnds

\* bgpparser2 and mrt2xml -B print the same lines of an UPDATE, however many attributes and routes
\* it has: AsciiBGPVisitor, which prints a route with the attributes it has met, and genAsciiMsg,
\* which collects the attributes by type first, differ in the order of the lines alone.
THEOREM ProgramsAgreeHolds == Spec => []ProgramsAgree
<1>1. Spec => []TypeOK
  BY TypeCorrect
<1>2. Init => LinesRight
  BY LinesRightInit
<1>3. LinesRight /\ [Next]_vars => LinesRight'
  BY LinesRightStep
<1>4. TypeOK /\ LinesRight => ProgramsAgree
  BY AgreesAtEnd
<1> QED
  BY <1>1, <1>2, <1>3, <1>4, PTL DEF Spec

-----------------------------------------------------------------------------
(* The lists that are made of the elements of a list                       *)

\* The lists that g has for the elements of s, one after the other.
ListsFor(g, s) == [i \in DOMAIN s |-> g[s[i]]]
Mapped(g, s) == FlattenSeq(ListsFor(g, s))

\* g has a list for each of them.
MapsToLists(g, s) == \A i \in 1 .. Len(s) : IsList(g[s[i]])

\* There are as many of these lists as elements.
LEMMA ListsForAre ==
  ASSUME NEW g, NEW s, IsList(s), MapsToLists(g, s)
  PROVE  /\ IsListOfLists(ListsFor(g, s)) /\ Len(ListsFor(g, s)) = Len(s)
         /\ \A i \in 1 .. Len(s) : ListsFor(g, s)[i] = g[s[i]]
         /\ IsList(Mapped(g, s))
<1> DEFINE ss == ListsFor(g, s)
           n == Len(s)
<1>1. n \in Nat /\ DOMAIN s = 1 .. n
  BY ListFacts
<1>2. ss = [i \in 1 .. n |-> ss[i]] /\ \A i \in 1 .. n : ss[i] = g[s[i]]
  BY <1>1 DEF ListsFor
<1> HIDE DEF ss
<1>3. IsList(ss) /\ Len(ss) = n
  BY <1>1, <1>2, FunctionIsList
<1>4. IsListOfLists(ss)
  BY <1>2, <1>3 DEF IsListOfLists, MapsToLists
<1>5. IsList(FlattenSeq(ss))
  BY <1>4, FlattenIsList
<1> QED
  BY <1>2, <1>3, <1>4, <1>5 DEF ss, Mapped

\* Those of two lists come one after the other.
LEMMA MappedConcat ==
  ASSUME NEW g, NEW s, NEW t, IsList(s), IsList(t), MapsToLists(g, s), MapsToLists(g, t)
  PROVE  MapsToLists(g, s \o t) /\ Mapped(g, s \o t) = Mapped(g, s) \o Mapped(g, t)
<1> DEFINE u == s \o t
<1>1. /\ Len(s) \in Nat /\ Len(t) \in Nat /\ IsList(u) /\ Len(u) = Len(s) + Len(t)
      /\ \A i \in 1 .. Len(s) : u[i] = s[i]
      /\ \A i \in 1 .. Len(t) : u[Len(s) + i] = t[i]
      /\ \A i \in 1 .. Len(s) + Len(t) : u[i] = IF i <= Len(s) THEN s[i] ELSE t[i - Len(s)]
  BY ListFacts, ConcatList
<1> HIDE DEF u
<1>2. MapsToLists(g, u)
  <2> SUFFICES ASSUME NEW i \in 1 .. Len(u) PROVE IsList(g[u[i]])
    BY DEF MapsToLists
  <2>1. CASE i <= Len(s)
    BY <1>1, <2>1 DEF MapsToLists
  <2>2. CASE ~(i <= Len(s))
    <3>1. i - Len(s) \in 1 .. Len(t) /\ u[i] = t[i - Len(s)]
      BY <1>1, <2>2
    <3> QED
      BY <3>1 DEF MapsToLists
  <2> QED
    BY <2>1, <2>2
<1> DEFINE a == ListsFor(g, s)
           b == ListsFor(g, t)
           c == ListsFor(g, u)
<1>3. /\ IsListOfLists(a) /\ Len(a) = Len(s) /\ \A i \in 1 .. Len(s) : a[i] = g[s[i]]
      /\ IsListOfLists(b) /\ Len(b) = Len(t) /\ \A i \in 1 .. Len(t) : b[i] = g[t[i]]
      /\ IsListOfLists(c) /\ Len(c) = Len(u) /\ \A i \in 1 .. Len(u) : c[i] = g[u[i]]
  BY <1>1, <1>2, ListsForAre
<1> HIDE DEF a, b, c
<1>4. IsList(a) /\ IsList(b) /\ IsList(c)
  BY <1>3 DEF IsListOfLists
<1>5. \A i \in 1 .. Len(a) : c[i] = a[i]
  BY <1>1, <1>3
<1>6. \A i \in 1 .. Len(b) : c[Len(a) + i] = b[i]
  BY <1>1, <1>3
<1>7. Len(c) = Len(a) + Len(b)
  BY <1>1, <1>3
<1>8. c = a \o b
  BY <1>4, <1>5, <1>6, <1>7, ConcatIs
<1>9. FlattenSeq(c) = FlattenSeq(a) \o FlattenSeq(b)
  BY <1>3, <1>8, FlattenConcat
<1> QED
  BY <1>2, <1>9 DEF Mapped, a, b, c, u

\* Nothing has none, and one element has its own.
LEMMA MappedFew ==
  ASSUME NEW g
  PROVE  /\ MapsToLists(g, << >>) /\ Mapped(g, << >>) = << >>
         /\ \A x : IsList(g[x]) => MapsToLists(g, <<x>>) /\ Mapped(g, <<x>>) = g[x]
<1>1. MapsToLists(g, << >>)
  BY DEF MapsToLists
<1>2. ListsFor(g, << >>) = << >>
  BY <1>1, EmptyIsList, ListsForAre, ListFacts DEF IsListOfLists
<1>3. ASSUME NEW x, IsList(g[x]) PROVE MapsToLists(g, <<x>>) /\ Mapped(g, <<x>>) = g[x]
  <2> DEFINE s == <<x>>
             y == g[x]
             t == <<y>>
  <2>1. IsList(s) /\ Len(s) = 1 /\ s[1] = x /\ IsList(t) /\ Len(t) = 1 /\ t[1] = y
    BY SingleList
  <2>2. \A i \in 1 .. 1 : i = 1
    OBVIOUS
  <2> HIDE DEF s, t
  <2>3. MapsToLists(g, s)
    BY <1>3, <2>1, <2>2 DEF MapsToLists
  <2>4. /\ IsListOfLists(ListsFor(g, s)) /\ Len(ListsFor(g, s)) = 1
        /\ \A i \in 1 .. 1 : ListsFor(g, s)[i] = g[s[i]]
    BY <2>1, <2>3, ListsForAre
  <2>5. ListsFor(g, s) = t
    BY <2>1, <2>2, <2>4, ListEqual DEF IsListOfLists
  <2>6. FlattenSeq(t) = y
    BY FlattenOne DEF t
  <2> QED
    BY <2>3, <2>5, <2>6 DEF Mapped, s
<1> QED
  BY <1>1, <1>2, <1>3, FlattenEmpty DEF Mapped

\* Of a list that is flattened, they are those of its lists.
LEMMA MappedFlatten ==
  ASSUME NEW g, NEW ss, IsListOfLists(ss), \A i \in 1 .. Len(ss) : MapsToLists(g, ss[i])
  PROVE  /\ MapsToLists(g, FlattenSeq(ss))
         /\ Mapped(g, FlattenSeq(ss)) = FlattenSeq([i \in DOMAIN ss |-> Mapped(g, ss[i])])
<1> DEFINE n == Len(ss)
           tt == [i \in DOMAIN ss |-> Mapped(g, ss[i])]
           S == {k \in Nat : k <= n =>
                   /\ MapsToLists(g, FlattenSeq(FirstOf(ss, k)))
                   /\ Mapped(g, FlattenSeq(FirstOf(ss, k))) = FlattenSeq(FirstOf(tt, k))}
<1>1. IsList(ss) /\ n \in Nat /\ DOMAIN ss = 1 .. n
  BY ListFacts DEF IsListOfLists
<1>2. IsList(tt) /\ Len(tt) = n /\ \A i \in 1 .. n : tt[i] = Mapped(g, ss[i]) /\ IsList(tt[i])
  <2>1. tt = [i \in 1 .. n |-> tt[i]] /\ \A i \in 1 .. n : tt[i] = Mapped(g, ss[i])
    BY <1>1
  <2> HIDE DEF tt
  <2>2. ASSUME NEW i \in 1 .. n PROVE IsList(Mapped(g, ss[i]))
    BY ListsForAre DEF IsListOfLists
  <2> QED
    BY <1>1, <2>1, <2>2, FunctionIsList
<1> HIDE DEF tt
<1>3. 0 \in S
  BY <1>1, <1>2, FirstOfList, FlattenEmpty, MappedFew
<1>4. ASSUME NEW k \in Nat, k \in S PROVE k + 1 \in S
  <2> SUFFICES ASSUME k + 1 <= n
               PROVE  /\ MapsToLists(g, FlattenSeq(FirstOf(ss, k + 1)))
                      /\ Mapped(g, FlattenSeq(FirstOf(ss, k + 1))) = FlattenSeq(FirstOf(tt, k + 1))
    OBVIOUS
  <2> DEFINE x == ss[k + 1]
             y == tt[k + 1]
             a == FirstOf(ss, k)
             b == FirstOf(tt, k)
  <2>1. k \in 0 .. n /\ k < n /\ k + 1 \in 1 .. n
    BY <1>1
  <2>2. IsList(x) /\ MapsToLists(g, x) /\ IsList(y) /\ y = Mapped(g, x)
    BY <1>2, <2>1 DEF IsListOfLists
  <2>3. IsList(a) /\ Len(a) = k /\ FirstOf(ss, k + 1) = Append(a, x)
    BY <1>1, <2>1, FirstOfList
  <2>4. IsList(b) /\ FirstOf(tt, k + 1) = Append(b, y)
    BY <1>2, <2>1, FirstOfList
  <2>5. MapsToLists(g, FlattenSeq(a)) /\ Mapped(g, FlattenSeq(a)) = FlattenSeq(b)
    BY <1>4, <2>1
  <2>6. IsListOfLists(a)
    BY <2>1, <2>3 DEF FirstOf, IsListOfLists
  <2> HIDE DEF x, y, a, b
  <2>7. FlattenSeq(Append(a, x)) = FlattenSeq(a) \o x /\ FlattenSeq(Append(b, y)) = FlattenSeq(b) \o y
    BY <2>2, <2>3, <2>4, FlattenAppend
  <2>8. IsList(FlattenSeq(a))
    BY <2>6, FlattenIsList
  <2>9. /\ MapsToLists(g, FlattenSeq(a) \o x)
        /\ Mapped(g, FlattenSeq(a) \o x) = Mapped(g, FlattenSeq(a)) \o Mapped(g, x)
    BY <2>2, <2>5, <2>8, MappedConcat
  <2> QED
    BY <2>2, <2>3, <2>4, <2>5, <2>7, <2>9
<1>5. Nat \subseteq S
  <2> HIDE DEF S
  <2> QED
    BY <1>3, <1>4, Induct
<1>6. n \in S /\ n <= n
  BY <1>1, <1>5
<1> QED
  BY <1>1, <1>2, <1>6, FirstOfList DEF tt

\* Of lists that are empty except one, that one is left.
LEMMA FlattenOnly ==
  ASSUME NEW ss, IsListOfLists(ss), NEW k \in 1 .. Len(ss),
         \A i \in 1 .. Len(ss) : i # k => ss[i] = << >>
  PROVE  FlattenSeq(ss) = ss[k]
<1> DEFINE n == Len(ss)
           S == {j \in Nat : j <= n => FlattenSeq(FirstOf(ss, j)) = IF k <= j THEN ss[k] ELSE << >>}
<1>1. IsList(ss) /\ n \in Nat
  BY ListFacts DEF IsListOfLists
<1>2. 0 \in S
  BY <1>1, FirstOfList, FlattenEmpty
<1>3. ASSUME NEW j \in Nat, j \in S PROVE j + 1 \in S
  <2> SUFFICES ASSUME j + 1 <= n
               PROVE  FlattenSeq(FirstOf(ss, j + 1)) = IF k <= j + 1 THEN ss[k] ELSE << >>
    OBVIOUS
  <2> DEFINE a == FirstOf(ss, j)
             x == ss[j + 1]
  <2>1. j \in 0 .. n /\ j < n /\ j + 1 \in 1 .. n /\ j <= n
    BY <1>1
  <2>2. IsList(x)
    BY <2>1 DEF IsListOfLists
  <2>3. IsList(a) /\ FirstOf(ss, j + 1) = Append(a, x)
    BY <1>1, <2>1, FirstOfList
  <2>4. FlattenSeq(a) = IF k <= j THEN ss[k] ELSE << >>
    BY <1>3, <2>1
  <2> HIDE DEF a
  <2>5. FlattenSeq(FirstOf(ss, j + 1)) = FlattenSeq(a) \o x
    <3> HIDE DEF x
    <3> QED
      BY <2>2, <2>3, FlattenAppend
  <2>6. CASE k = j + 1
    <3>1. FlattenSeq(a) = << >> /\ k <= j + 1
      BY <2>4, <2>6
    <3> QED
      BY <2>2, <2>5, <2>6, <3>1, ConcatEmpty
  <2>7. CASE k # j + 1
    <3>1. x = << >> /\ (k <= j + 1 <=> k <= j)
      BY <2>1, <2>7
    <3>2. FlattenSeq(a) \o x = FlattenSeq(a)
      BY <2>4, <3>1, ConcatEmpty, EmptyIsList DEF IsListOfLists
    <3> QED
      BY <2>4, <2>5, <3>1, <3>2
  <2> QED
    BY <2>6, <2>7
<1>4. Nat \subseteq S
  <2> HIDE DEF S
  <2> QED
    BY <1>2, <1>3, Induct
<1>5. FirstOf(ss, n) = ss
  BY <1>1, FirstOfList
<1> QED
  BY <1>1, <1>4, <1>5

-----------------------------------------------------------------------------
(* The nodes of XML                                                        *)

\* A node of an XML document.
Node(tag, props, text, children) ==
  [tag |-> tag, props |-> props, text |-> text, children |-> children]

\* One with a tag and a list of children.
IsElement(x, tag, children) ==
  /\ \E props, text : x = Node(tag, props, text, children)
  /\ IsList(children)

\* These are its tag and its children.
LEMMA ElementHas ==
  ASSUME NEW x, NEW tag, NEW children, IsElement(x, tag, children)
  PROVE  x.tag = tag /\ x.children = children /\ IsList(children)
BY DEF IsElement, Node

\* What becomes of the members of a node.
LEMMA MembersOf ==
  ASSUME NEW tag, NEW props, NEW text, NEW children, NEW x, x = Node(tag, props, text, children)
  PROVE  /\ \A nodes : AddChildren(x, nodes) = Node(tag, props, text, children \o nodes)
         /\ \A child : AddChild(x, child) = Node(tag, props, text, Append(children, child))
         /\ \A name, value :
              PropString(x, name, value) = Node(tag, Append(props, <<name, value>>), text, children)
<1>1. x.children = children /\ x.props = props
  BY DEF Node
<1>2. \A any : [x EXCEPT !.children = any] = Node(tag, props, text, any)
  BY DEF Node
<1>3. \A any : [x EXCEPT !.props = any] = Node(tag, any, text, children)
  BY DEF Node
<1>4. ASSUME NEW nodes PROVE AddChildren(x, nodes) = Node(tag, props, text, children \o nodes)
  BY <1>1, <1>2 DEF AddChildren
<1>5. ASSUME NEW child
      PROVE  AddChild(x, child) = Node(tag, props, text, Append(children, child))
  BY <1>1, <1>2 DEF AddChild
<1>6. ASSUME NEW name, NEW value
      PROVE  PropString(x, name, value) = Node(tag, Append(props, <<name, value>>), text, children)
  BY <1>1, <1>3 DEF PropString
<1> QED
  BY <1>4, <1>5, <1>6

\* A new node has no children.
LEMMA ElementIs ==
  ASSUME NEW tag
  PROVE  IsElement(Element(tag), tag, << >>)
BY EmptyIsList DEF Element, IsElement, Node

\* Children come after those a node has.
LEMMA AddChildrenIs ==
  ASSUME NEW x, NEW tag, NEW s, NEW t, IsElement(x, tag, s), IsList(t)
  PROVE  IsElement(AddChildren(x, t), tag, s \o t)
<1>1. PICK props, text : x = Node(tag, props, text, s)
  BY DEF IsElement
<1>2. IsList(s \o t)
  BY ConcatList DEF IsElement
<1> QED
  BY <1>1, <1>2, MembersOf DEF IsElement

\* So does one more.
LEMMA AddChildIs ==
  ASSUME NEW x, NEW tag, NEW s, NEW child, IsElement(x, tag, s)
  PROVE  IsElement(AddChild(x, child), tag, Append(s, child))
<1>1. PICK props, text : x = Node(tag, props, text, s)
  BY DEF IsElement
<1>2. IsList(Append(s, child))
  BY AppendList DEF IsElement
<1> QED
  BY <1>1, <1>2, MembersOf DEF IsElement

\* A property changes neither the tag nor the children.
LEMMA PropIs ==
  ASSUME NEW x, NEW tag, NEW s, NEW name, NEW value, IsElement(x, tag, s)
  PROVE  IsElement(PropString(x, name, value), tag, s) /\ IsElement(PropInt(x, name, value), tag, s)
<1>1. PICK props, text : x = Node(tag, props, text, s)
  BY DEF IsElement
<1>2. ASSUME NEW any PROVE IsElement(PropString(x, name, any), tag, s)
  <2>1. PropString(x, name, any) = Node(tag, Append(props, <<name, any>>), text, s)
    BY <1>1, MembersOf
  <2> QED
    BY <2>1 DEF IsElement
<1> QED
  BY <1>2 DEF PropInt

\* A node with a text has no children.
LEMMA NodeStringIs ==
  ASSUME NEW tag, NEW value
  PROVE  /\ IsElement(NodeString(tag, value), tag, << >>)
         /\ NodeString(tag, value).text[1] = value
<1>1. NodeString(tag, value) = Node(tag, << >>, <<value>>, << >>)
  BY DEF NodeString, Element, Node
<1>2. NodeString(tag, value).text = <<value>>
  BY <1>1 DEF Node
<1>3. \E props, text : NodeString(tag, value) = Node(tag, props, text, << >>)
  BY <1>1
<1> QED
  BY <1>2, <1>3, EmptyIsList DEF IsElement

\* Nor has one with a number, a name of a family or octets.
LEMMA NodeOthersAre ==
  ASSUME NEW tag, NEW value, NEW len
  PROVE  /\ IsElement(NodeInt(tag, value), tag, << >>)
         /\ IsElement(NodeOctets(tag, value, len), tag, << >>)
         /\ IsElement(NodeAFI(tag, value), tag, << >>)
         /\ IsElement(NodeSAFI(tag, value), tag, << >>)
<1>1. IsElement(NodeInt(tag, value), tag, << >>)
  BY NodeStringIs DEF NodeInt
<1>2. ASSUME NEW any, NEW name, NEW number
      PROVE  IsElement(PropInt(NodeString(tag, any), name, number), tag, << >>)
  <2> DEFINE x == NodeString(tag, any)
             none == << >>
  <2>1. IsElement(x, tag, none)
    BY NodeStringIs
  <2> HIDE DEF x, none
  <2>2. IsElement(PropInt(x, name, number), tag, none)
    BY <2>1, PropIs
  <2> QED
    BY <2>2 DEF x, none
<1> QED
  BY <1>1, <1>2 DEF NodeOctets, NodeAFI, NodeSAFI

\* Children that are given to a new node are all it has.
LEMMA ChildrenOfNew ==
  ASSUME NEW tag, NEW nodes, IsList(nodes)
  PROVE  /\ IsElement(AddChildren(Element(tag), nodes), tag, nodes)
         /\ IsElement(Counted(tag, nodes), tag, nodes)
<1> DEFINE none == << >>
           x == Element(tag)
           y == PropInt(x, "count", Len(nodes))
<1>1. IsElement(x, tag, none) /\ none \o nodes = nodes
  BY ElementIs, ConcatEmpty
<1> HIDE DEF x, none
<1>2. IsElement(y, tag, none)
  BY <1>1, PropIs
<1>3. IsElement(AddChildren(x, nodes), tag, none \o nodes)
  BY <1>1, AddChildrenIs
<1> HIDE DEF y
<1>4. IsElement(AddChildren(y, nodes), tag, none \o nodes)
  BY <1>2, AddChildrenIs
<1> QED
  BY <1>1, <1>3, <1>4 DEF Counted, x, y

-----------------------------------------------------------------------------
(* Looking for nodes                                                       *)

\* What is looked for among the nodes of a set, as a function.
IfTagged(U, tag) == [x \in U |-> IF x.tag = tag THEN <<x>> ELSE << >>]
ChildrenIn(U) == [x \in U |-> x.children]

\* Every one of the nodes has a list of children.
AreNodes(s) == IsList(s) /\ \A i \in 1 .. Len(s) : IsList(s[i].children)

\* The nodes of a tag are a list.
LEMMA TaggedIs ==
  ASSUME NEW s, NEW tag, NEW U, IsList(s), ToSet(s) \subseteq U
  PROVE  /\ MapsToLists(IfTagged(U, tag), s)
         /\ Tagged(s, tag) = Mapped(IfTagged(U, tag), s)
         /\ IsList(Tagged(s, tag))
<1> DEFINE g == IfTagged(U, tag)
<1>1. DOMAIN s = 1 .. Len(s) /\ \A i \in 1 .. Len(s) : s[i] \in U
  BY ListFacts, ElementOfList
<1>2. \A i \in 1 .. Len(s) : g[s[i]] = IF s[i].tag = tag THEN <<s[i]>> ELSE << >>
  BY <1>1 DEF IfTagged
<1> HIDE DEF g
<1>3. MapsToLists(g, s)
  BY <1>2, SingleList, EmptyIsList DEF MapsToLists
<1>4. Tagged(s, tag) = Mapped(g, s)
  BY <1>1, <1>2 DEF Tagged, Mapped, ListsFor
<1> QED
  BY <1>3, <1>4, ListsForAre DEF g

\* The children of nodes are a list.
LEMMA ChildrenAre ==
  ASSUME NEW s, NEW U, AreNodes(s), ToSet(s) \subseteq U
  PROVE  /\ MapsToLists(ChildrenIn(U), s)
         /\ Children(s) = Mapped(ChildrenIn(U), s)
         /\ IsList(Children(s))
<1> DEFINE g == ChildrenIn(U)
<1>1. IsList(s) /\ DOMAIN s = 1 .. Len(s) /\ \A i \in 1 .. Len(s) : s[i] \in U
  BY ListFacts, ElementOfList DEF AreNodes
<1>2. \A i \in 1 .. Len(s) : g[s[i]] = s[i].children
  BY <1>1 DEF ChildrenIn
<1> HIDE DEF g
<1>3. MapsToLists(g, s)
  BY <1>2 DEF MapsToLists, AreNodes
<1>4. Children(s) = Mapped(g, s)
  BY <1>1, <1>2 DEF Children, Mapped, ListsFor
<1> QED
  BY <1>1, <1>3, <1>4, ListsForAre DEF g

\* Two lists of nodes are one.
LEMMA NodesConcat ==
  ASSUME NEW s, NEW t, AreNodes(s), AreNodes(t)
  PROVE  AreNodes(s \o t)
<1>1. /\ IsList(s \o t) /\ Len(s) \in Nat /\ Len(t) \in Nat /\ Len(s \o t) = Len(s) + Len(t)
      /\ \A i \in 1 .. Len(s) + Len(t) : (s \o t)[i] = IF i <= Len(s) THEN s[i] ELSE t[i - Len(s)]
  BY ListFacts, ConcatList DEF AreNodes
<1>2. ASSUME NEW i \in 1 .. Len(s \o t) PROVE IsList((s \o t)[i].children)
  BY <1>1 DEF AreNodes
<1> QED
  BY <1>1, <1>2 DEF AreNodes

\* The nodes of a tag in two lists.
LEMMA TaggedConcat ==
  ASSUME NEW s, NEW t, NEW tag, IsList(s), IsList(t)
  PROVE  Tagged(s \o t, tag) = Tagged(s, tag) \o Tagged(t, tag)
<1> DEFINE U == ToSet(s) \cup ToSet(t) \cup ToSet(s \o t)
           g == IfTagged(U, tag)
<1>1. ToSet(s) \subseteq U /\ ToSet(t) \subseteq U /\ ToSet(s \o t) \subseteq U
  OBVIOUS
<1>2. IsList(s \o t)
  BY ConcatList
<1> HIDE DEF U
<1>3. /\ MapsToLists(g, s) /\ MapsToLists(g, t)
      /\ Tagged(s, tag) = Mapped(g, s) /\ Tagged(t, tag) = Mapped(g, t)
  BY <1>1, TaggedIs
<1>4. Tagged(s \o t, tag) = Mapped(g, s \o t)
  <2> DEFINE u == s \o t
  <2>1. IsList(u) /\ ToSet(u) \subseteq U
    BY <1>1, <1>2
  <2> HIDE DEF u
  <2>2. Tagged(u, tag) = Mapped(g, u)
    BY <2>1, TaggedIs
  <2> QED
    BY <2>2 DEF u
<1> HIDE DEF g
<1> QED
  BY <1>3, <1>4, MappedConcat

\* In the lists of a list.
LEMMA TaggedFlatten ==
  ASSUME NEW ss, NEW tag, IsListOfLists(ss)
  PROVE  Tagged(FlattenSeq(ss), tag) = FlattenSeq([i \in DOMAIN ss |-> Tagged(ss[i], tag)])
<1> DEFINE all == FlattenSeq(ss)
           U == ToSet(all) \cup UNION {ToSet(ss[i]) : i \in DOMAIN ss}
           g == IfTagged(U, tag)
<1>1. IsList(all) /\ DOMAIN ss = 1 .. Len(ss)
  BY FlattenIsList, ListFacts DEF IsListOfLists
<1> HIDE DEF all
<1>2. ToSet(all) \subseteq U /\ \A i \in DOMAIN ss : ToSet(ss[i]) \subseteq U
  OBVIOUS
<1> HIDE DEF U
<1>3. ASSUME NEW i \in 1 .. Len(ss)
      PROVE  MapsToLists(g, ss[i]) /\ Tagged(ss[i], tag) = Mapped(g, ss[i])
  <2> DEFINE s == ss[i]
  <2>1. IsList(s) /\ ToSet(s) \subseteq U
    BY <1>1, <1>2 DEF IsListOfLists
  <2> HIDE DEF s
  <2>2. MapsToLists(g, s) /\ Tagged(s, tag) = Mapped(g, s)
    BY <2>1, TaggedIs
  <2> QED
    BY <2>2 DEF s
<1>4. Tagged(all, tag) = Mapped(g, all)
  BY <1>1, <1>2, TaggedIs
<1> HIDE DEF g
<1>5. Mapped(g, FlattenSeq(ss)) = FlattenSeq([i \in DOMAIN ss |-> Mapped(g, ss[i])])
  BY <1>3, MappedFlatten
<1>6. [i \in DOMAIN ss |-> Mapped(g, ss[i])] = [i \in DOMAIN ss |-> Tagged(ss[i], tag)]
  BY <1>1, <1>3
<1> QED
  BY <1>4, <1>5, <1>6 DEF all

\* Where no node has the tag, or one node is all there is.
LEMMA TaggedFew ==
  ASSUME NEW tag
  PROVE  /\ \A s : IsList(s) /\ (\A i \in 1 .. Len(s) : s[i].tag # tag) => Tagged(s, tag) = << >>
         /\ \A x : Tagged(<<x>>, tag) = IF x.tag = tag THEN <<x>> ELSE << >>
<1>1. ASSUME NEW s, IsList(s), \A i \in 1 .. Len(s) : s[i].tag # tag
      PROVE  Tagged(s, tag) = << >>
  <2> DEFINE ss == [i \in DOMAIN s |-> IF s[i].tag = tag THEN <<s[i]>> ELSE << >>]
  <2>1. Len(s) \in Nat /\ DOMAIN s = 1 .. Len(s)
    BY <1>1, ListFacts
  <2>2. ss = [i \in 1 .. Len(s) |-> ss[i]] /\ \A i \in 1 .. Len(s) : ss[i] = << >>
    BY <1>1, <2>1
  <2>3. Tagged(s, tag) = FlattenSeq(ss)
    BY DEF Tagged
  <2> HIDE DEF ss
  <2>4. IsList(ss) /\ Len(ss) = Len(s)
    BY <2>1, <2>2, FunctionIsList
  <2> QED
    BY <2>2, <2>3, <2>4, FlattenEmpties
<1>2. ASSUME NEW x PROVE Tagged(<<x>>, tag) = IF x.tag = tag THEN <<x>> ELSE << >>
  <2> DEFINE y == IF x.tag = tag THEN <<x>> ELSE << >>
  <2>1. Tagged(<<x>>, tag) = FlattenSeq(<<y>>)
    BY DEF Tagged
  <2> HIDE DEF y
  <2> QED
    BY <2>1, FlattenOne DEF y
<1> QED
  BY <1>1, <1>2

\* A second element comes after the first.
LEMMA PairIs ==
  ASSUME NEW a, NEW b
  PROVE  <<a, b>> = <<a>> \o <<b>>
<1> DEFINE s == <<a>>
           t == <<b>>
           u == <<a, b>>
<1>1. IsList(s) /\ Len(s) = 1 /\ s[1] = a /\ IsList(t) /\ Len(t) = 1 /\ t[1] = b
  BY SingleList
<1>2. IsList(u) /\ Len(u) = 2 /\ u[1] = a /\ u[2] = b
  BY PairIsList
<1> HIDE DEF s, t, u
<1>3. u[1] = s[1] /\ u[2] = t[1] /\ Len(u) = Len(s) + Len(t) /\ Len(s) + 1 = 2
  BY <1>1, <1>2
<1>4. (\A i \in 1 .. Len(s) : u[i] = s[i]) /\ (\A i \in 1 .. Len(t) : u[Len(s) + i] = t[i])
  BY <1>1, <1>3
<1>5. u = s \o t
  BY <1>1, <1>2, <1>3, <1>4, ConcatIs
<1> QED
  BY <1>5 DEF s, t, u

\* And a third after these.
LEMMA TripleIs ==
  ASSUME NEW a, NEW b, NEW c
  PROVE  <<a, b, c>> = <<a, b>> \o <<c>>
<1> DEFINE s == <<a, b>>
           t == <<c>>
           u == <<a, b, c>>
<1>1. IsList(s) /\ Len(s) = 2 /\ s[1] = a /\ s[2] = b /\ IsList(t) /\ Len(t) = 1 /\ t[1] = c
  BY SingleList, PairIsList
<1>2. IsList(u) /\ Len(u) = 3 /\ u[1] = a /\ u[2] = b /\ u[3] = c
  <2>1. u \in Seq({a, b, c}) /\ Len(u) = 3 /\ u[1] = a /\ u[2] = b /\ u[3] = c
    OBVIOUS
  <2> QED
    BY <2>1, SeqIsList
<1> HIDE DEF s, t, u
<1>3. /\ u[1] = s[1] /\ u[2] = s[2] /\ u[3] = t[1] /\ Len(u) = Len(s) + Len(t)
      /\ Len(s) + 1 = 3
  BY <1>1, <1>2
<1>4. (\A i \in 1 .. Len(s) : u[i] = s[i]) /\ (\A i \in 1 .. Len(t) : u[Len(s) + i] = t[i])
  BY <1>1, <1>3
<1>5. u = s \o t
  BY <1>1, <1>2, <1>3, <1>4, ConcatIs
<1> QED
  BY <1>5 DEF s, t, u

\* Looking for a tag among two nodes.
LEMMA TaggedOfTwo ==
  ASSUME NEW tag, NEW a, NEW b, a.tag # tag
  PROVE  /\ IsList(<<a, b>>)
         /\ Tagged(<<a, b>>, tag) = IF b.tag = tag THEN <<b>> ELSE << >>
<1> DEFINE s == <<a>>
           t == <<b>>
           none == << >>
<1>1. IsList(s) /\ IsList(t) /\ IsList(none) /\ <<a, b>> = s \o t
  BY SingleList, EmptyIsList, PairIs
<1>2. Tagged(s, tag) = none /\ Tagged(t, tag) = IF b.tag = tag THEN t ELSE none
  BY TaggedFew
<1> HIDE DEF s, t, none
<1>3. Tagged(s \o t, tag) = Tagged(s, tag) \o Tagged(t, tag)
  BY <1>1, TaggedConcat
<1>4. none \o t = t /\ none \o none = none
  BY <1>1, ConcatEmpty DEF none
<1>5. IsList(s \o t)
  BY <1>1, ConcatList
<1>6. Tagged(s \o t, tag) = IF b.tag = tag THEN t ELSE none
  BY <1>2, <1>3, <1>4
<1> QED
  BY <1>1, <1>5, <1>6 DEF t, none

\* Among three nodes of which one has it.
LEMMA TaggedOfThree ==
  ASSUME NEW tag, NEW a, NEW b, NEW c
  PROVE  /\ IsList(<<a, b, c>>)
         /\ a.tag = tag /\ b.tag # tag /\ c.tag # tag => Tagged(<<a, b, c>>, tag) = <<a>>
         /\ a.tag # tag /\ b.tag = tag /\ c.tag # tag => Tagged(<<a, b, c>>, tag) = <<b>>
         /\ a.tag # tag /\ b.tag # tag /\ c.tag = tag => Tagged(<<a, b, c>>, tag) = <<c>>
<1> DEFINE s == <<a>>
           t == <<b>>
           u == <<c>>
           none == << >>
<1>1. /\ IsList(s) /\ IsList(t) /\ IsList(u) /\ IsList(none)
      /\ <<a, b>> = s \o t /\ <<a, b, c>> = <<a, b>> \o u
  <2>1. <<a, b>> = s \o t
    BY PairIs
  <2>2. <<a, b, c>> = <<a, b>> \o u
    BY TripleIs
  <2> QED
    BY <2>1, <2>2, SingleList, EmptyIsList
<1>2. /\ Tagged(s, tag) = IF a.tag = tag THEN s ELSE none
      /\ Tagged(t, tag) = IF b.tag = tag THEN t ELSE none
      /\ Tagged(u, tag) = IF c.tag = tag THEN u ELSE none
  BY TaggedFew
<1> HIDE DEF s, t, u, none
<1>3. IsList(s \o t) /\ IsList((s \o t) \o u)
  BY <1>1, ConcatList
<1>4. Tagged((s \o t) \o u, tag) = (Tagged(s, tag) \o Tagged(t, tag)) \o Tagged(u, tag)
  <2> DEFINE v == s \o t
  <2>1. IsList(v)
    BY <1>3
  <2>2. Tagged(v, tag) = Tagged(s, tag) \o Tagged(t, tag)
    BY <1>1, TaggedConcat
  <2> HIDE DEF v
  <2>3. Tagged(v \o u, tag) = Tagged(v, tag) \o Tagged(u, tag)
    BY <1>1, <2>1, TaggedConcat
  <2> QED
    BY <2>2, <2>3 DEF v
<1>5. /\ none \o none = none /\ s \o none = s /\ none \o t = t /\ t \o none = t
      /\ none \o u = u
  BY <1>1, ConcatEmpty DEF none
<1>6. /\ a.tag = tag /\ b.tag # tag /\ c.tag # tag => Tagged((s \o t) \o u, tag) = s
      /\ a.tag # tag /\ b.tag = tag /\ c.tag # tag => Tagged((s \o t) \o u, tag) = t
      /\ a.tag # tag /\ b.tag # tag /\ c.tag = tag => Tagged((s \o t) \o u, tag) = u
  BY <1>2, <1>4, <1>5
<1>7. <<a, b, c>> = (s \o t) \o u
  BY <1>1
<1> QED
  BY <1>3, <1>6, <1>7 DEF s, t, u

-----------------------------------------------------------------------------

\* The children of two lists of nodes.
LEMMA ChildrenConcat ==
  ASSUME NEW s, NEW t, AreNodes(s), AreNodes(t)
  PROVE  Children(s \o t) = Children(s) \o Children(t)
<1> DEFINE u == s \o t
           U == ToSet(s) \cup ToSet(t) \cup ToSet(u)
           g == ChildrenIn(U)
<1>1. ToSet(s) \subseteq U /\ ToSet(t) \subseteq U /\ ToSet(u) \subseteq U
  OBVIOUS
<1>2. AreNodes(u)
  BY NodesConcat
<1> HIDE DEF U, u
<1>3. /\ MapsToLists(g, s) /\ MapsToLists(g, t)
      /\ Children(s) = Mapped(g, s) /\ Children(t) = Mapped(g, t) /\ Children(u) = Mapped(g, u)
  BY <1>1, <1>2, ChildrenAre
<1> HIDE DEF g
<1>4. Mapped(g, s \o t) = Mapped(g, s) \o Mapped(g, t)
  BY <1>3, MappedConcat DEF AreNodes
<1> QED
  BY <1>3, <1>4 DEF u

\* Those of the nodes of lists that are flattened.
LEMMA ChildrenFlatten ==
  ASSUME NEW ss, IsListOfLists(ss), \A i \in 1 .. Len(ss) : AreNodes(ss[i])
  PROVE  /\ AreNodes(FlattenSeq(ss))
         /\ Children(FlattenSeq(ss)) = FlattenSeq([i \in DOMAIN ss |-> Children(ss[i])])
<1> DEFINE all == FlattenSeq(ss)
           V == UNION {ToSet(ss[i]) : i \in DOMAIN ss}
           U == ToSet(all) \cup V
<1>1. IsList(all) /\ DOMAIN ss = 1 .. Len(ss)
  BY FlattenIsList, ListFacts DEF IsListOfLists
<1> HIDE DEF all
<1>2. ToSet(all) \subseteq U /\ \A i \in DOMAIN ss : ToSet(ss[i]) \subseteq V /\ ToSet(ss[i]) \subseteq U
  OBVIOUS
<1> HIDE DEF U, V
<1>3. ASSUME NEW i \in 1 .. Len(ss)
      PROVE  /\ MapsToLists(ChildrenIn(U), ss[i])
             /\ Children(ss[i]) = Mapped(ChildrenIn(U), ss[i])
  <2> DEFINE s == ss[i]
  <2>1. AreNodes(s) /\ ToSet(s) \subseteq U
    BY <1>1, <1>2
  <2> HIDE DEF s
  <2>2. MapsToLists(ChildrenIn(U), s) /\ Children(s) = Mapped(ChildrenIn(U), s)
    BY <2>1, ChildrenAre
  <2> QED
    BY <2>2 DEF s
<1>4. /\ MapsToLists(ChildrenIn(U), all)
      /\ Mapped(ChildrenIn(U), all) = FlattenSeq([i \in DOMAIN ss |-> Mapped(ChildrenIn(U), ss[i])])
  <2> DEFINE f == ChildrenIn(U)
  <2>1. \A i \in 1 .. Len(ss) : MapsToLists(f, ss[i])
    BY <1>3
  <2> HIDE DEF f
  <2>2. /\ MapsToLists(f, FlattenSeq(ss))
        /\ Mapped(f, FlattenSeq(ss)) = FlattenSeq([i \in DOMAIN ss |-> Mapped(f, ss[i])])
    BY <2>1, MappedFlatten
  <2> QED
    BY <2>2 DEF f, all
<1>5. AreNodes(all)
  <2>1. ASSUME NEW i \in 1 .. Len(all) PROVE IsList(all[i].children)
    BY <1>1, <1>2, <1>4, ElementOfList DEF ChildrenIn, MapsToLists
  <2> QED
    BY <1>1, <2>1 DEF AreNodes
<1>6. Children(all) = Mapped(ChildrenIn(U), all)
  BY <1>2, <1>5, ChildrenAre
<1>7. [i \in DOMAIN ss |-> Mapped(ChildrenIn(U), ss[i])] = [i \in DOMAIN ss |-> Children(ss[i])]
  BY <1>1, <1>3
<1> QED
  BY <1>4, <1>5, <1>6, <1>7 DEF all

\* Nothing has no children, and one node its own.
LEMMA ChildrenFew ==
  /\ AreNodes(<< >>) /\ Children(<< >>) = << >>
  /\ \A x : IsList(x.children) => AreNodes(<<x>>) /\ Children(<<x>>) = x.children
<1>1. Children(<< >>) = << >>
  BY FlattenEmpty DEF Children
<1>2. ASSUME NEW x, IsList(x.children) PROVE AreNodes(<<x>>) /\ Children(<<x>>) = x.children
  <2> DEFINE s == <<x>>
             y == x.children
  <2>1. IsList(s) /\ Len(s) = 1 /\ s[1] = x
    BY SingleList
  <2>2. \A i \in 1 .. 1 : i = 1
    OBVIOUS
  <2>3. [i \in DOMAIN s |-> s[i].children] = <<y>>
    OBVIOUS
  <2> HIDE DEF s
  <2>4. AreNodes(s)
    BY <1>2, <2>1, <2>2 DEF AreNodes
  <2>5. Children(s) = FlattenSeq(<<y>>)
    BY <2>3 DEF Children
  <2> HIDE DEF y
  <2> QED
    BY <2>4, <2>5, FlattenOne DEF s, y
<1> QED
  BY <1>1, <1>2, EmptyIsList DEF AreNodes

-----------------------------------------------------------------------------
(* Nodes with a text, and nodes without prefixes                           *)

\* The texts of nodes, one for each.
LEMMA TextsAre ==
  ASSUME NEW s, IsList(s)
  PROVE  /\ IsList(TextsOf(s)) /\ Len(TextsOf(s)) = Len(s)
         /\ \A i \in 1 .. Len(s) : TextsOf(s)[i] = s[i].text[1]
<1> DEFINE t == TextsOf(s)
           n == Len(s)
<1>1. n \in Nat /\ DOMAIN s = 1 .. n
  BY ListFacts
<1> HIDE DEF t, n
<1> QED
  BY <1>1, FunctionIsList DEF t, n, TextsOf

\* Those of two lists come one after the other.
LEMMA TextsConcat ==
  ASSUME NEW s, NEW t, IsList(s), IsList(t)
  PROVE  TextsOf(s \o t) = TextsOf(s) \o TextsOf(t)
<1> DEFINE u == s \o t
           a == TextsOf(s)
           b == TextsOf(t)
           c == TextsOf(u)
<1>1. /\ Len(s) \in Nat /\ Len(t) \in Nat /\ IsList(u) /\ Len(u) = Len(s) + Len(t)
      /\ \A i \in 1 .. Len(s) : u[i] = s[i]
      /\ \A i \in 1 .. Len(t) : u[Len(s) + i] = t[i]
  BY ListFacts, ConcatList
<1> HIDE DEF u
<1>2. /\ IsList(a) /\ Len(a) = Len(s) /\ \A i \in 1 .. Len(s) : a[i] = s[i].text[1]
      /\ IsList(b) /\ Len(b) = Len(t) /\ \A i \in 1 .. Len(t) : b[i] = t[i].text[1]
      /\ IsList(c) /\ Len(c) = Len(u) /\ \A i \in 1 .. Len(u) : c[i] = u[i].text[1]
  BY <1>1, TextsAre
<1> HIDE DEF a, b, c
<1>3. (\A i \in 1 .. Len(s) : i \in 1 .. Len(u)) /\ \A i \in 1 .. Len(t) : Len(s) + i \in 1 .. Len(u)
  BY <1>1
<1>4. Len(c) = Len(a) + Len(b)
  BY <1>1, <1>2
<1>5. \A i \in 1 .. Len(a) : c[i] = a[i]
  <2> TAKE i \in 1 .. Len(a)
  <2>1. i \in 1 .. Len(s) /\ i \in 1 .. Len(u)
    BY <1>2, <1>3
  <2> QED
    BY <1>1, <1>2, <2>1
<1>6. \A i \in 1 .. Len(b) : c[Len(a) + i] = b[i]
  <2> TAKE i \in 1 .. Len(b)
  <2>1. i \in 1 .. Len(t) /\ Len(s) + i \in 1 .. Len(u)
    BY <1>2, <1>3
  <2> QED
    BY <1>1, <1>2, <2>1
<1>7. c = a \o b
  BY <1>2, <1>4, <1>5, <1>6, ConcatIs
<1> QED
  BY <1>7 DEF a, b, c, u

\* The nodes of routes have their prefixes as texts.
LEMMA TextsOfPrefixes ==
  ASSUME NEW routes, NEW afi, IsList(routes)
  PROVE  /\ IsList(PrefixNodes(routes, afi))
         /\ TextsOf(PrefixNodes(routes, afi)) = RoutePrefixes(routes, afi)
<1> DEFINE s == PrefixNodes(routes, afi)
           t == RoutePrefixes(routes, afi)
           u == TextsOf(s)
           n == Len(routes)
<1>1. n \in Nat /\ DOMAIN routes = 1 .. n
  BY ListFacts
<1>2. /\ s = [i \in 1 .. n |-> s[i]]
      /\ \A i \in 1 .. n : s[i] = NodeString("PREFIX", Text(routes[i].prefix, afi))
  BY <1>1 DEF PrefixNodes
<1>3. IsList(t) /\ Len(t) = n /\ \A i \in 1 .. n : t[i] = Text(routes[i].prefix, afi)
  BY RoutePrefixesAre
<1> HIDE DEF s, t, n
<1>4. IsList(s) /\ Len(s) = n
  BY <1>1, <1>2, FunctionIsList
<1>5. IsList(u) /\ Len(u) = n /\ \A i \in 1 .. n : u[i] = s[i].text[1]
  BY <1>4, TextsAre
<1> HIDE DEF u
<1>6. ASSUME NEW i \in 1 .. n PROVE u[i] = t[i]
  BY <1>2, <1>3, <1>5, NodeStringIs
<1>7. u = t
  BY <1>3, <1>5, <1>6, ListEqual
<1> QED
  BY <1>4, <1>7 DEF u, s, t

-----------------------------------------------------------------------------

RouteTags == {"WITHDRAWN", "NLRI"}

\* None of these nodes has prefixes.
NoRoutes(s) == IsList(s) /\ \A i \in 1 .. Len(s) : s[i].tag \notin RouteTags

\* One more that has none.
LEMMA NoRoutesAppend ==
  ASSUME NEW s, NEW x, NoRoutes(s), x.tag \notin RouteTags
  PROVE  NoRoutes(Append(s, x))
<1> DEFINE t == Append(s, x)
<1>1. /\ IsList(t) /\ Len(t) = Len(s) + 1 /\ t[Len(s) + 1] = x /\ Len(s) \in Nat
      /\ \A i \in 1 .. Len(s) : t[i] = s[i]
  <2>1. IsList(s)
    BY DEF NoRoutes
  <2>2. /\ IsList(t) /\ Len(t) = Len(s) + 1 /\ t[Len(s) + 1] = x
        /\ \A i \in 1 .. Len(s) : t[i] = s[i]
    BY ZenonT(60), <2>1, AppendList
  <2> QED
    BY <2>1, <2>2, ListFacts
<1> HIDE DEF t
<1>2. NoRoutes(t)
  BY <1>1 DEF NoRoutes
<1> QED
  BY <1>2 DEF t

\* Nor has the empty list.
LEMMA NoRoutesNone == NoRoutes(<< >>)
BY EmptyIsList DEF NoRoutes

\* A list of nodes that all have another tag.
LEMMA NoRoutesOf ==
  ASSUME NEW s, NEW n \in Nat, s = [i \in 1 .. n |-> s[i]],
         \A i \in 1 .. n : s[i].tag \notin RouteTags
  PROVE  NoRoutes(s)
  BY FunctionIsList DEF NoRoutes

\* None of the children of a node has prefixes.
Childless(x) == \E tag, s : IsElement(x, tag, s) /\ NoRoutes(s)

\* Nothing is found below such a node.
LEMMA ChildlessHas ==
  ASSUME NEW x, Childless(x)
  PROVE  IsList(x.children) /\ \A tag \in RouteTags : Tagged(x.children, tag) = << >>
<1>1. PICK name, s : IsElement(x, name, s) /\ NoRoutes(s)
  BY DEF Childless
<1>2. x.children = s /\ IsList(s)
  BY <1>1, ElementHas
<1>3. ASSUME NEW tag \in RouteTags PROVE Tagged(s, tag) = << >>
  BY <1>1, <1>2, <1>3, TaggedFew DEF NoRoutes
<1> QED
  BY <1>2, <1>3

\* A new node, and one with a text.
LEMMA ChildlessLeaves ==
  ASSUME NEW tag, NEW value, NEW len
  PROVE  /\ Childless(Element(tag)) /\ Childless(NodeString(tag, value))
         /\ Childless(NodeInt(tag, value)) /\ Childless(NodeOctets(tag, value, len))
BY ElementIs, NodeStringIs, NodeOthersAre, NoRoutesNone DEF Childless

\* A node stays so with a property, and with a child that has no prefixes.
LEMMA ChildlessStays ==
  ASSUME NEW x, Childless(x)
  PROVE  /\ \A name, value : Childless(PropString(x, name, value)) /\ Childless(PropInt(x, name, value))
         /\ \A child : child.tag \notin RouteTags => Childless(AddChild(x, child))
<1>1. PICK tag, s : IsElement(x, tag, s) /\ NoRoutes(s)
  BY DEF Childless
<1>2. ASSUME NEW name, NEW value
      PROVE  Childless(PropString(x, name, value)) /\ Childless(PropInt(x, name, value))
  BY <1>1, PropIs DEF Childless
<1>3. ASSUME NEW child, child.tag \notin RouteTags PROVE Childless(AddChild(x, child))
  BY <1>1, <1>3, AddChildIs, NoRoutesAppend DEF Childless
<1> QED
  BY <1>2, <1>3

\* So is a new node with children none of which has prefixes.
LEMMA ChildlessNew ==
  ASSUME NEW tag, NEW s, NoRoutes(s)
  PROVE  Childless(AddChildren(Element(tag), s))
  BY ChildrenOfNew DEF NoRoutes, Childless

\* The tag of a node with a text or an octet string is its own.
LEMMA LeafTags ==
  ASSUME NEW tag, NEW value, NEW len
  PROVE  /\ NodeString(tag, value).tag = tag /\ NodeInt(tag, value).tag = tag
         /\ NodeOctets(tag, value, len).tag = tag /\ NodeAFI(tag, value).tag = tag
         /\ NodeSAFI(tag, value).tag = tag
BY NodeStringIs, NodeOthersAre, ElementHas

\* A segment is an AS_SEG.
LEMMA SegmentTag ==
  ASSUME NEW segment
  PROVE  SegmentXml(segment).tag = "AS_SEG"
<1> DEFINE x == Element("AS_SEG")
           y == PropString(x, "type", segment.type)
           z == PropInt(y, "length", segment.length)
           s == [i \in DOMAIN segment.numbers |-> NodeInt("AS", segment.numbers[i])]
           none == << >>
<1>1. IsElement(x, "AS_SEG", none)
  BY ElementIs
<1> HIDE DEF x, none
<1>2. IsElement(y, "AS_SEG", none)
  BY <1>1, PropIs
<1> HIDE DEF y
<1>3. IsElement(z, "AS_SEG", none)
  BY <1>2, PropIs
<1> HIDE DEF z, s
<1>4. PICK props, text : z = Node("AS_SEG", props, text, none)
  BY <1>3 DEF IsElement
<1>5. SegmentXml(segment) = AddChildren(z, s)
  BY DEF SegmentXml, x, y, z, s
<1> QED
  BY <1>4, <1>5, MembersOf DEF Node

\* A community has one of five tags.
LEMMA CommunityTag ==
  ASSUME NEW c
  PROVE  CommunityXml(c).tag \notin RouteTags
<1>1. CASE c.as = AllOnes /\ c.info \in DOMAIN WellKnown
  BY <1>1 DEF CommunityXml, Element, WellKnown, RouteTags
<1>2. CASE ~(c.as = AllOnes /\ c.info \in DOMAIN WellKnown)
  <2> DEFINE tag == IF c.as \in {0, AllOnes} THEN "RESERVED_COMMUNITY" ELSE "COMMUNITY"
             x == Element(tag)
             as1 == NodeInt("AS", c.as)
             info == NodeInt("VALUE", c.info)
             none == << >>
  <2>1. CommunityXml(c) = AddChild(AddChild(x, as1), info)
    BY <1>2 DEF CommunityXml, ChildInt
  <2>2. tag \notin RouteTags
    BY DEF RouteTags
  <2> HIDE DEF tag
  <2>3. IsElement(x, tag, none)
    BY ElementIs
  <2> HIDE DEF x, as1, info, none
  <2>4. IsElement(AddChild(x, as1), tag, Append(none, as1))
    BY <2>3, AddChildIs
  <2>5. IsElement(AddChild(AddChild(x, as1), info), tag, Append(Append(none, as1), info))
    BY <2>4, AddChildIs
  <2> QED
    BY <2>1, <2>2, <2>5, ElementHas
<1> QED
  BY <1>1, <1>2

-----------------------------------------------------------------------------
(* The XML of an attribute                                                 *)

\* The attributes that have lists of prefixes of a tag.
ClassOf(tag) == IF tag = "NLRI" THEN "AttributeTypeMPReachNLRI" ELSE "AttributeTypeMPUnreachNLRI"

\* The lists of prefixes in the XML of an attribute.
ListsOfValue(v, tag) ==
  IF v.class = ClassOf(tag) THEN <<Counted(tag, PrefixNodes(v.nlri, v.afi))>> ELSE << >>

\* The node has these lists below it.
HasLists(x, v) ==
  IsList(x.children) /\ \A tag \in RouteTags : Tagged(x.children, tag) = ListsOfValue(v, tag)

\* The tag of a node does not change with its children.
LEMMA CountedTag ==
  ASSUME NEW tag, NEW nodes, IsList(nodes)
  PROVE  Counted(tag, nodes).tag = tag /\ Counted(tag, nodes).children = nodes
BY ChildrenOfNew, ElementHas

\* The XML of an attribute of a path.
LEMMA ASPathHas ==
  ASSUME NEW v, IsValue(v.class, v), v.class \in {"AttributeTypeASPath", "AttributeTypeAS4Path"}
  PROVE  Childless(ASPathXml(v))
<1> DEFINE segments == IF v.class = "AttributeTypeASPath" THEN v.complete ELSE v.segments
           tag == TypeStr[v.class]
           text == ASPathAscii(v, TRUE)
           s == [i \in DOMAIN segments |-> SegmentXml(segments[i])]
           node == AddChildren(Element(tag), s)
           n == Len(segments)
<1>1. ASPathXml(v) = IF v.class = "AttributeTypeASPath" THEN PropString(node, "complete", text) ELSE node
  BY DEF ASPathXml
<1> HIDE DEF segments, tag, text
<1>2. n \in Nat /\ DOMAIN segments = 1 .. n
  BY ListFacts DEF IsValue, AreSegments
<1>3. s = [i \in 1 .. n |-> s[i]] /\ \A i \in 1 .. n : s[i] = SegmentXml(segments[i])
  BY <1>2
<1> HIDE DEF s, n
<1>4. NoRoutes(s)
  BY <1>2, <1>3, NoRoutesOf, SegmentTag DEF RouteTags
<1>5. Childless(node)
  BY <1>4, ChildlessNew
<1> HIDE DEF node
<1>6. Childless(PropString(node, "complete", text))
  BY <1>5, ChildlessStays
<1> QED
  BY <1>1, <1>5, <1>6

\* That of an aggregator.
LEMMA AggregatorHas ==
  ASSUME NEW v
  PROVE  Childless(AggregatorXml(v))
<1> DEFINE tag == TypeStr[v.class]
           as1 == NodeInt("AS", v.as)
           value == Text(CastToAggregator(v)[1].ip, IPv4)
           addr == NodeString("ADDR", value)
           x == AddChild(Element(tag), as1)
<1>1. AggregatorXml(v) = AddChild(x, addr)
  BY DEF AggregatorXml, ChildInt, ChildString
<1> HIDE DEF tag, value
<1>2. as1.tag \notin RouteTags /\ addr.tag \notin RouteTags
  BY LeafTags DEF RouteTags
<1> HIDE DEF as1, addr
<1>3. Childless(x)
  BY <1>2, ChildlessLeaves, ChildlessStays
<1> HIDE DEF x
<1>4. Childless(AddChild(x, addr))
  BY <1>2, <1>3, ChildlessStays
<1> QED
  BY <1>1, <1>4

\* That of communities, and of a list of clusters.
LEMMA ListsHave ==
  ASSUME NEW v
  PROVE  /\ IsList(v.values) => Childless(CommunitiesXml(v))
         /\ IsList(v.ids) => Childless(ClusterListXml(v))
<1>1. ASSUME IsList(v.values) PROVE Childless(CommunitiesXml(v))
  <2> DEFINE n == Len(v.values)
             s == [i \in DOMAIN v.values |-> CommunityXml(v.values[i])]
  <2>1. n \in Nat /\ DOMAIN v.values = 1 .. n
    BY <1>1, ListFacts
  <2>2. s = [i \in 1 .. n |-> s[i]] /\ \A i \in 1 .. n : s[i] = CommunityXml(v.values[i])
    BY <2>1
  <2>3. CommunitiesXml(v) = AddChildren(Element("COMMUNITIES"), s)
    BY DEF CommunitiesXml
  <2> HIDE DEF s, n
  <2>4. NoRoutes(s)
    BY <2>1, <2>2, NoRoutesOf, CommunityTag
  <2> QED
    BY <2>3, <2>4, ChildlessNew
<1>2. ASSUME IsList(v.ids) PROVE Childless(ClusterListXml(v))
  <2> DEFINE n == Len(v.ids)
             s == [i \in DOMAIN v.ids |-> NodeString("ID", Text(v.ids[i], IPv4))]
  <2>1. n \in Nat /\ DOMAIN v.ids = 1 .. n
    BY <1>2, ListFacts
  <2>2. s = [i \in 1 .. n |-> s[i]] /\ \A i \in 1 .. n : s[i] = NodeString("ID", Text(v.ids[i], IPv4))
    BY <2>1
  <2>3. ClusterListXml(v) = AddChildren(Element("CLUSTER_LIST"), s)
    BY DEF ClusterListXml
  <2> HIDE DEF s, n
  <2>4. NoRoutes(s)
    BY <2>1, <2>2, NoRoutesOf, LeafTags DEF RouteTags
  <2> QED
    BY <2>3, <2>4, ChildlessNew
<1> QED
  BY <1>1, <1>2

\* That of a multiprotocol attribute starts with its family.
LEMMA FamilyHas ==
  ASSUME NEW v
  PROVE  \E tag, s : IsElement(FamilyXml(v), tag, s) /\ NoRoutes(s)
<1> DEFINE tag == TypeStr[v.class]
           afi == NodeAFI("AFI", v.afi)
           safi == NodeSAFI("SAFI", v.safi)
           x == AddChild(Element(tag), afi)
<1>1. FamilyXml(v) = AddChild(x, safi)
  BY DEF FamilyXml
<1> HIDE DEF tag
<1>2. afi.tag \notin RouteTags /\ safi.tag \notin RouteTags
  BY LeafTags DEF RouteTags
<1> HIDE DEF afi, safi
<1>3. Childless(x)
  BY <1>2, ChildlessLeaves, ChildlessStays
<1> HIDE DEF x
<1>4. Childless(AddChild(x, safi))
  BY <1>2, <1>3, ChildlessStays
<1> QED
  BY <1>1, <1>4 DEF Childless

\* An attribute with routes that are announced has one list of them.
LEMMA MPReachHas ==
  ASSUME NEW v, v.class = "AttributeTypeMPReachNLRI", IsList(v.nlri)
  PROVE  HasLists(MPReachXml(v), v)
<1> DEFINE x == FamilyXml(v)
           hop == NodeString("NEXT_HOP", TextOfFamily(v.nextHop, v.afi))
           nodes == PrefixNodes(v.nlri, v.afi)
           c == Counted("NLRI", nodes)
           pair == <<hop, c>>
           y == AddChildren(x, pair)
<1>1. MPReachXml(v) = y
  BY DEF MPReachXml
<1>2. PICK tag, s : IsElement(x, tag, s) /\ NoRoutes(s)
  BY FamilyHas
<1>3. IsList(nodes)
  BY TextsOfPrefixes
<1> HIDE DEF nodes
<1>4. c.tag = "NLRI"
  BY <1>3, CountedTag
<1>5. hop.tag = "NEXT_HOP"
  BY LeafTags
<1>6. /\ ListsOfValue(v, "NLRI") = <<c>>
      /\ ListsOfValue(v, "WITHDRAWN") = << >>
  BY DEF ListsOfValue, ClassOf, nodes
<1> HIDE DEF x, hop, c
<1>7. /\ IsList(pair)
      /\ Tagged(pair, "NLRI") = <<c>>
      /\ Tagged(pair, "WITHDRAWN") = << >>
  BY <1>4, <1>5, TaggedOfTwo
<1> HIDE DEF pair
<1>8. y.children = s \o pair /\ IsList(y.children) /\ IsList(s)
  <2>1. IsElement(y, tag, s \o pair)
    BY <1>2, <1>7, AddChildrenIs
  <2> QED
    BY <1>2, <2>1, ElementHas DEF NoRoutes
<1> HIDE DEF y
<1>9. ASSUME NEW t \in RouteTags PROVE Tagged(y.children, t) = ListsOfValue(v, t)
  <2>1. Tagged(s, t) = << >>
    BY <1>2, <1>8, <1>9, TaggedFew DEF NoRoutes
  <2>2. Tagged(s \o pair, t) = Tagged(s, t) \o Tagged(pair, t)
    BY <1>7, <1>8, TaggedConcat
  <2>3. Tagged(pair, t) = ListsOfValue(v, t)
    BY <1>6, <1>7, <1>9 DEF RouteTags
  <2>4. << >> \o Tagged(pair, t) = Tagged(pair, t)
    BY <1>7, ConcatEmpty, TaggedIs
  <2> QED
    BY <1>8, <2>1, <2>2, <2>3, <2>4
<1> QED
  BY <1>1, <1>8, <1>9 DEF HasLists

\* One with routes that are withdrawn, likewise.
LEMMA MPUnreachHas ==
  ASSUME NEW v, v.class = "AttributeTypeMPUnreachNLRI", IsList(v.nlri)
  PROVE  HasLists(MPUnreachXml(v), v)
<1> DEFINE x == FamilyXml(v)
           nodes == PrefixNodes(v.nlri, v.afi)
           c == Counted("WITHDRAWN", nodes)
           one == <<c>>
           y == AddChild(x, c)
<1>1. MPUnreachXml(v) = y
  BY DEF MPUnreachXml
<1>2. PICK tag, s : IsElement(x, tag, s) /\ NoRoutes(s)
  BY FamilyHas
<1>3. IsList(nodes)
  BY TextsOfPrefixes
<1> HIDE DEF nodes
<1>4. c.tag = "WITHDRAWN"
  BY <1>3, CountedTag
<1>5. /\ ListsOfValue(v, "NLRI") = << >>
      /\ ListsOfValue(v, "WITHDRAWN") = one
  BY DEF ListsOfValue, ClassOf, nodes
<1> HIDE DEF x, c
<1>6. /\ IsList(one)
      /\ Tagged(one, "NLRI") = << >>
      /\ Tagged(one, "WITHDRAWN") = one
  BY <1>4, TaggedFew, SingleList
<1>7. y.children = s \o one /\ IsList(y.children) /\ IsList(s)
  <2>1. IsElement(y, tag, Append(s, c))
    BY <1>2, AddChildIs
  <2>2. IsList(s)
    BY <1>2 DEF NoRoutes
  <2>3. Append(s, c) = s \o <<c>>
    BY <2>2, AppendList
  <2> QED
    BY <2>1, <2>2, <2>3, ElementHas
<1> HIDE DEF y, one
<1>8. ASSUME NEW t \in RouteTags PROVE Tagged(y.children, t) = ListsOfValue(v, t)
  <2>1. Tagged(s, t) = << >>
    BY <1>2, <1>7, <1>8, TaggedFew DEF NoRoutes
  <2>2. Tagged(s \o one, t) = Tagged(s, t) \o Tagged(one, t)
    BY <1>6, <1>7, TaggedConcat
  <2>3. Tagged(one, t) = ListsOfValue(v, t)
    BY <1>5, <1>6, <1>8 DEF RouteTags
  <2>4. << >> \o Tagged(one, t) = Tagged(one, t)
    BY <1>6, ConcatEmpty, TaggedIs
  <2> QED
    BY <1>7, <2>1, <2>2, <2>3, <2>4
<1> QED
  BY <1>1, <1>7, <1>8 DEF HasLists

\* An attribute without routes has no list of them.
LEMMA OthersHave ==
  ASSUME NEW v, v.class \notin MPClasses, Childless(ValueXml(v))
  PROVE  HasLists(ValueXml(v), v)
  BY ChildlessHas DEF ListsOfValue, ClassOf, RouteTags, MPClasses, HasLists

\* The XML of an attribute, as its class has it.
LEMMA ValueXmlIs ==
  ASSUME NEW v
  PROVE  /\ v.class = "AttributeTypeOrigin" => ValueXml(v) = OriginXml(v)
         /\ v.class \in {"AttributeTypeASPath", "AttributeTypeAS4Path"} => ValueXml(v) = ASPathXml(v)
         /\ v.class = "AttributeTypeNextHop" =>
              ValueXml(v) = NodeString("NEXT_HOP", TextOfFamily(v.ip, v.afi))
         /\ v.class \in {"AttributeTypeMultiExitDisc", "AttributeTypeLocalPref"} =>
              ValueXml(v) = NodeInt(TypeStr[v.class], v.value)
         /\ v.class = "AttributeTypeAtomicAggregate" => ValueXml(v) = Element("ATOMIC_AGGREGATE")
         /\ v.class \in {"AttributeTypeAggregator", "AttributeTypeAS4Aggregator"} =>
              ValueXml(v) = AggregatorXml(v)
         /\ v.class = "AttributeTypeCommunities" => ValueXml(v) = CommunitiesXml(v)
         /\ v.class = "AttributeTypeOriginatorID" =>
              ValueXml(v) = NodeString("ORIGINATOR_ID", Text(v.ip, IPv4))
         /\ v.class = "AttributeTypeClusterList" => ValueXml(v) = ClusterListXml(v)
         /\ v.class = "AttributeTypeMPReachNLRI" => ValueXml(v) = MPReachXml(v)
         /\ v.class = "AttributeTypeMPUnreachNLRI" => ValueXml(v) = MPUnreachXml(v)
         /\ v.class \in {"AttributeTypeExtCommunities", "AttributeType"} =>
              ValueXml(v) = AddChild(Element(TypeStr[v.class]), NodeOctets("OCTETS", v.data, Len(v.data)))
BY SMTT(30) DEF ValueXml

\* Every attribute that is no segment has the lists of its class.
LEMMA ValueHas ==
  ASSUME NEW v, IsValue(v.class, v), v.class \notin SegmentClasses
  PROVE  HasLists(ValueXml(v), v)
<1>1. v.class \in AttributeValues \ SegmentClasses
  BY DEF IsValue
<1>2. CASE v.class = "AttributeTypeMPReachNLRI"
  BY <1>2, MPReachHas, ValueXmlIs DEF IsValue, AreRoutes
<1>3. CASE v.class = "AttributeTypeMPUnreachNLRI"
  BY <1>3, MPUnreachHas, ValueXmlIs DEF IsValue, AreRoutes
<1>4. CASE v.class \notin MPClasses
  <2>1. CASE v.class \in {"AttributeTypeASPath", "AttributeTypeAS4Path"}
    BY <1>4, <2>1, ASPathHas, ValueXmlIs, OthersHave
  <2>2. CASE v.class \in {"AttributeTypeAggregator", "AttributeTypeAS4Aggregator"}
    BY <1>4, <2>2, AggregatorHas, ValueXmlIs, OthersHave
  <2>3. CASE v.class = "AttributeTypeCommunities"
    BY <1>4, <2>3, ListsHave, ValueXmlIs, OthersHave DEF IsValue
  <2>4. CASE v.class = "AttributeTypeClusterList"
    BY <1>4, <2>4, ListsHave, ValueXmlIs, OthersHave DEF IsValue
  <2>5. CASE v.class \in {"AttributeTypeNextHop", "AttributeTypeMultiExitDisc", "AttributeTypeLocalPref",
                          "AttributeTypeAtomicAggregate", "AttributeTypeOriginatorID"}
    BY <1>4, <2>5, ChildlessLeaves, ValueXmlIs, OthersHave
  <2>6. CASE v.class = "AttributeTypeOrigin"
    <3> DEFINE x == NodeString("ORIGIN", OriginAscii(v))
    <3>1. Childless(x)
      BY ChildlessLeaves
    <3>2. ValueXml(v) = PropInt(x, "value", v.origin)
      BY <2>6, ValueXmlIs DEF OriginXml
    <3> HIDE DEF x
    <3>3. Childless(PropInt(x, "value", v.origin))
      BY <3>1, ChildlessStays
    <3> QED
      BY <1>4, <3>2, <3>3, OthersHave
  <2>7. CASE v.class \in {"AttributeTypeExtCommunities", "AttributeType"}
    <3> DEFINE x == Element(TypeStr[v.class])
               y == NodeOctets("OCTETS", v.data, Len(v.data))
    <3>1. Childless(x)
      BY ChildlessLeaves
    <3>2. y.tag \notin RouteTags
      BY LeafTags DEF RouteTags
    <3>3. ValueXml(v) = AddChild(x, y)
      BY <2>7, ValueXmlIs
    <3> HIDE DEF x, y
    <3>4. Childless(AddChild(x, y))
      BY <3>1, <3>2, ChildlessStays
    <3> QED
      BY <1>4, <3>3, <3>4, OthersHave
  <2> QED
    BY <1>1, <1>4, <2>1, <2>2, <2>3, <2>4, <2>5, <2>6, <2>7
       DEF AttributeValues, SimpleValues, SegmentClasses, MPClasses
<1> QED
  BY <1>2, <1>3, <1>4 DEF MPClasses

-----------------------------------------------------------------------------
(* The attributes of an UPDATE                                             *)

\* The values of attributes, as an UPDATE has them.
AreAttributes(values) ==
  IsList(values) /\ \A i \in 1 .. Len(values) :
    IsValue(values[i].class, values[i]) /\ values[i].class \notin SegmentClasses

\* Their nodes, and what is found below these.
AttributeNodes(values) == [i \in DOMAIN values |-> AttributeXml(values[i])]
ListsOfValues(values, tag) == [i \in DOMAIN values |-> ListsOfValue(values[i], tag)]

\* A new node with children that are given at once keeps its tag, whatever these are.
LEMMA NewTag ==
  ASSUME NEW tag, NEW nodes
  PROVE  AddChildren(Element(tag), nodes).tag = tag
<1> DEFINE x == Element(tag)
           none == << >>
<1>1. IsElement(x, tag, none)
  BY ElementIs
<1> HIDE DEF x, none
<1>2. PICK props, text : x = Node(tag, props, text, none)
  BY <1>1 DEF IsElement
<1> QED
  BY <1>2, MembersOf DEF Node, x

\* An ATTRIBUTE has its type and its value.
LEMMA AttributeXmlIs ==
  ASSUME NEW v, IsList(ValueXml(v).children)
  PROVE  /\ AreNodes(AttributeXml(v).children)
         /\ IsList(AttributeXml(v).children)
         /\ Children(AttributeXml(v).children) = ValueXml(v).children
<1> DEFINE type == NodeString("TYPE", TypeStr[v.class])
           x == ValueXml(v)
           pair == <<type, x>>
           s == <<type>>
           t == <<x>>
           none == << >>
<1>1. AttributeXml(v) = AddChildren(Element("ATTRIBUTE"), pair)
  BY DEF AttributeXml
<1>2. type.children = none /\ IsList(none)
  BY NodeStringIs, ElementHas, EmptyIsList
<1> HIDE DEF type, x
<1>3. pair = s \o t
  BY PairIs
<1> HIDE DEF none
<1>4. /\ AreNodes(s) /\ Children(s) = none
      /\ AreNodes(t) /\ Children(t) = x.children
  BY <1>2, ChildrenFew DEF x
<1> HIDE DEF s, t
<1>5. AreNodes(s \o t) /\ Children(s \o t) = none \o x.children
  BY <1>4, NodesConcat, ChildrenConcat
<1>6. none \o x.children = x.children
  BY ConcatEmpty DEF none, x
<1> HIDE DEF pair
<1>7. IsList(pair)
  BY <1>3, <1>5 DEF AreNodes
<1>8. AttributeXml(v).children = pair
  BY <1>1, <1>7, ChildrenOfNew, ElementHas
<1> QED
  BY <1>3, <1>5, <1>6, <1>7, <1>8 DEF x

\* Below the nodes of attributes are the lists of these, in their order.
LEMMA AttributesHave ==
  ASSUME NEW values, AreAttributes(values)
  PROVE  /\ AreNodes(AttributeNodes(values))
         /\ \A tag \in RouteTags :
              Tagged(Children(Children(AttributeNodes(values))), tag)
                = FlattenSeq(ListsOfValues(values, tag))
         /\ AreNodes(Children(AttributeNodes(values)))
         /\ IsList(Children(Children(AttributeNodes(values))))
<1> DEFINE n == Len(values)
           nodes == AttributeNodes(values)
           ss == [i \in 1 .. n |-> nodes[i].children]
           tt == [i \in 1 .. n |-> ValueXml(values[i]).children]
<1>1. n \in Nat /\ DOMAIN values = 1 .. n
  BY ListFacts DEF AreAttributes
<1>2. nodes = [i \in 1 .. n |-> nodes[i]] /\ \A i \in 1 .. n : nodes[i] = AttributeXml(values[i])
  BY <1>1 DEF AttributeNodes
<1>3. \A i \in 1 .. n : HasLists(ValueXml(values[i]), values[i])
  <2> TAKE i \in 1 .. n
  <2> DEFINE v == values[i]
  <2>1. IsValue(v.class, v) /\ v.class \notin SegmentClasses
    BY DEF AreAttributes
  <2> HIDE DEF v
  <2>2. HasLists(ValueXml(v), v)
    BY <2>1, ValueHas
  <2> QED
    BY <2>2 DEF v
<1> HIDE DEF nodes
<1>4. /\ IsList(nodes) /\ Len(nodes) = n
  BY <1>1, <1>2, FunctionIsList
<1>5. \A i \in 1 .. n : /\ AreNodes(nodes[i].children) /\ IsList(nodes[i].children)
                        /\ Children(nodes[i].children) = ValueXml(values[i]).children
  BY <1>2, <1>3, AttributeXmlIs DEF HasLists
<1>6. AreNodes(nodes)
  BY <1>4, <1>5 DEF AreNodes
<1>7. /\ IsListOfLists(ss) /\ Len(ss) = n /\ DOMAIN ss = 1 .. n
      /\ \A i \in 1 .. n : AreNodes(ss[i]) /\ Children(ss[i]) = tt[i]
  <2>1. ss = [i \in 1 .. n |-> ss[i]] /\ tt = [i \in 1 .. n |-> tt[i]]
    OBVIOUS
  <2>2. \A i \in 1 .. n : ss[i] = nodes[i].children /\ tt[i] = ValueXml(values[i]).children
    OBVIOUS
  <2>3. DOMAIN ss = 1 .. n
    OBVIOUS
  <2> HIDE DEF ss, tt
  <2>4. IsList(ss) /\ Len(ss) = n
    BY <1>1, <2>1, FunctionIsList
  <2> QED
    BY <1>5, <2>2, <2>3, <2>4 DEF IsListOfLists
<1>8. Children(nodes) = FlattenSeq(ss)
  BY <1>4, ListFacts DEF Children
<1>9. /\ tt = [i \in 1 .. n |-> tt[i]]
      /\ \A i \in 1 .. n : tt[i] = ValueXml(values[i]).children
  OBVIOUS
<1> HIDE DEF ss, tt
<1>10. /\ AreNodes(FlattenSeq(ss))
       /\ Children(FlattenSeq(ss)) = FlattenSeq([i \in DOMAIN ss |-> Children(ss[i])])
  BY <1>7, ChildrenFlatten
<1>11. [i \in DOMAIN ss |-> Children(ss[i])] = tt
  BY <1>7, <1>9
<1>12. IsListOfLists(tt) /\ Len(tt) = n /\ DOMAIN tt = 1 .. n
  BY <1>1, <1>3, <1>9, FunctionIsList DEF HasLists, IsListOfLists
<1>13. ASSUME NEW tag \in RouteTags
       PROVE  Tagged(FlattenSeq(tt), tag) = FlattenSeq(ListsOfValues(values, tag))
  BY <1>1, <1>3, <1>9, <1>12, TaggedFlatten DEF HasLists, ListsOfValues
<1>14. IsList(FlattenSeq(tt))
  BY <1>12, FlattenIsList
<1> QED
  BY <1>6, <1>8, <1>10, <1>11, <1>13, <1>14 DEF nodes

\* The one list of a tag, if there is an attribute that has it.
ListOf(one, tag) == IF one = << >> THEN << >> ELSE <<Counted(tag, PrefixNodes(one[1].nlri, one[1].afi))>>

\* No class is there twice.
Once(values, class) ==
  \A i, j \in 1 .. Len(values) : values[i].class = class /\ values[j].class = class => i = j

\* Then only its last attribute has a list.
LEMMA OnlyList ==
  ASSUME NEW values, NEW tag, IsList(values), Once(values, ClassOf(tag))
  PROVE  FlattenSeq(ListsOfValues(values, tag)) = ListOf(LastOfClass(ClassOf(tag), values), tag)
<1> DEFINE ss == ListsOfValues(values, tag)
           n == Len(values)
           class == ClassOf(tag)
           Of(v) == <<Counted(tag, PrefixNodes(v.nlri, v.afi))>>
<1>1. n \in Nat /\ DOMAIN values = 1 .. n
  BY ListFacts
<1>2. /\ ss = [i \in 1 .. n |-> ss[i]]
      /\ \A i \in 1 .. n : ss[i] = ListsOfValue(values[i], tag)
  BY <1>1 DEF ListsOfValues
<1>3. \A i \in 1 .. n : ss[i] = IF values[i].class = class THEN Of(values[i]) ELSE << >>
  BY <1>2 DEF ListsOfValue
<1> HIDE DEF ss, class
<1>4. IsList(ss) /\ Len(ss) = n
  BY <1>1, <1>2, FunctionIsList
<1>5. \A v : IsList(Of(v))
  BY SingleList
<1>6. IsListOfLists(ss)
  BY <1>3, <1>4, <1>5, EmptyIsList DEF IsListOfLists
<1>7. CASE \E i \in 1 .. n : values[i].class = class
  <2>1. PICK k \in 1 .. n : values[k].class = class
    BY <1>7
  <2>2. \A i \in 1 .. n : values[i].class = class => i = k
    BY <2>1 DEF Once, class
  <2>3. LastOfClass(class, values) = <<values[k]>>
    BY <2>1, <2>2, LastOfOne
  <2>4. ListOf(<<values[k]>>, tag) = Of(values[k])
    BY DEF ListOf
  <2>5. ss[k] = Of(values[k]) /\ \A i \in 1 .. Len(ss) : i # k => ss[i] = << >>
    BY <1>3, <1>4, <2>1, <2>2
  <2> HIDE DEF Of, n
  <2>6. FlattenSeq(ss) = ss[k]
    BY <1>4, <1>6, <2>5, FlattenOnly
  <2> QED
    BY <2>3, <2>4, <2>5, <2>6 DEF ss, class
<1>8. CASE ~ \E i \in 1 .. n : values[i].class = class
  BY <1>3, <1>4, <1>8, LastOfNone, FlattenEmpties DEF ListOf, ss, class
<1> QED
  BY <1>7, <1>8

-----------------------------------------------------------------------------
(* The XML of a message                                                    *)

\* A BGP_MESSAGE has its peering and its message.
LEMMA MessageXmlIs ==
  ASSUME NEW d
  PROVE  /\ Tagged(MessageXml(d).children, "ASCII_MSG") = <<AsciiMessageXml(d.bgp_msg)>>
<1> DEFINE peering == PeeringXml(d.peer, d.local, d.afi)
           x == AsciiMessageXml(d.bgp_msg)
           pair == <<peering, x>>
<1>1. MessageXml(d) = AddChildren(Element("BGP_MESSAGE"), pair)
  BY DEF MessageXml
<1>2. peering.tag = "PEERING"
  BY NewTag DEF PeeringXml
<1>3. x.tag = "ASCII_MSG"
  BY NewTag DEF AsciiMessageXml
<1> HIDE DEF peering, x
<1>4. IsList(pair) /\ Tagged(pair, "ASCII_MSG") = <<x>>
  BY <1>2, <1>3, TaggedOfTwo
<1> HIDE DEF pair
<1>5. MessageXml(d).children = pair
  BY <1>1, <1>4, ChildrenOfNew, ElementHas
<1> QED
  BY <1>4, <1>5 DEF x

\* The message has its type and, if it is one, its UPDATE.
LEMMA AsciiMessageXmlIs ==
  ASSUME NEW m, m.class # "UPDATE"
  PROVE  /\ IsList(AsciiMessageXml(m).children)
         /\ Tagged(AsciiMessageXml(m).children, "UPDATE")
              = IF m.class = "BGPUpdate" THEN <<UpdateXml(m)>> ELSE << >>
<1> DEFINE type == NodeString("TYPE", m.class)
           x == IF m.class = "BGPUpdate" THEN UpdateXml(m) ELSE OtherMessageXml(m)
           pair == <<type, x>>
<1>1. AsciiMessageXml(m) = AddChildren(Element("ASCII_MSG"), pair)
  BY DEF AsciiMessageXml
<1>2. type.tag = "TYPE"
  BY LeafTags
<1>3. x.tag = "UPDATE" <=> m.class = "BGPUpdate"
  <2>1. OtherMessageXml(m).tag = m.class
    <3> DEFINE y == Element(m.class)
               octets == NodeOctets("OCTETS", m.data, Len(m.data))
               none == << >>
    <3>1. OtherMessageXml(m) = AddChild(y, octets)
      BY DEF OtherMessageXml
    <3>2. IsElement(y, m.class, none)
      BY ElementIs
    <3> HIDE DEF y, octets, none
    <3>3. IsElement(AddChild(y, octets), m.class, Append(none, octets))
      BY <3>2, AddChildIs
    <3> QED
      BY <3>1, <3>3, ElementHas
  <2> QED
    BY <2>1, NewTag DEF UpdateXml
<1>4. m.class = "BGPUpdate" => x = UpdateXml(m)
  OBVIOUS
<1> HIDE DEF type, x
<1>5. IsList(pair) /\ Tagged(pair, "UPDATE") = IF x.tag = "UPDATE" THEN <<x>> ELSE << >>
  BY <1>2, TaggedOfTwo
<1> HIDE DEF pair
<1>6. AsciiMessageXml(m).children = pair
  BY <1>1, <1>5, ChildrenOfNew, ElementHas
<1> QED
  BY <1>3, <1>4, <1>5, <1>6

\* The list of prefixes of a tag that an UPDATE has of its own.
OwnList(u, tag) == IF tag = "NLRI" THEN NlriXml(u) ELSE WithdrawnXml(u)

\* An UPDATE has its two lists and, between them, its attributes.
LEMMA UpdateXmlIs ==
  ASSUME NEW u, AreAttributes(u.pathAttributes), IsList(u.withdrawnRoutes), IsList(u.nlriRoutes)
  PROVE  /\ IsList(UpdateXml(u).children)
         /\ Tagged(UpdateXml(u).children, "PATH_ATTRIBUTES") = <<PathAttributesXml(u)>>
         /\ \A tag \in RouteTags : Tagged(UpdateXml(u).children, tag) = <<OwnList(u, tag)>>
         /\ PathAttributesXml(u).children = AttributeNodes(u.pathAttributes)
<1> DEFINE w == WithdrawnXml(u)
           p == PathAttributesXml(u)
           n == NlriXml(u)
           three == <<w, p, n>>
<1>1. UpdateXml(u) = AddChildren(Element("UPDATE"), three)
  BY DEF UpdateXml
<1>2. w.tag = "WITHDRAWN"
  <2> DEFINE nodes == PrefixNodes(u.withdrawnRoutes, IPv4)
  <2>1. IsList(nodes) /\ w = Counted("WITHDRAWN", nodes)
    BY TextsOfPrefixes DEF WithdrawnXml
  <2> HIDE DEF nodes, w
  <2> QED
    BY <2>1, CountedTag
<1>3. n.tag = "NLRI"
  <2> DEFINE nodes == PrefixNodes(u.nlriRoutes, IPv4)
  <2>1. IsList(nodes) /\ n = Counted("NLRI", nodes)
    BY TextsOfPrefixes DEF NlriXml
  <2> HIDE DEF nodes, n
  <2> QED
    BY <2>1, CountedTag
<1>4. p.tag = "PATH_ATTRIBUTES" /\ p.children = AttributeNodes(u.pathAttributes)
  <2> DEFINE nodes == AttributeNodes(u.pathAttributes)
  <2>1. IsList(nodes)
    BY AttributesHave DEF AreNodes
  <2>2. p = Counted("PATH_ATTRIBUTES", nodes)
    BY DEF PathAttributesXml, AttributeNodes
  <2> HIDE DEF nodes, p
  <2>3. p.tag = "PATH_ATTRIBUTES" /\ p.children = nodes
    BY <2>1, <2>2, CountedTag
  <2> QED
    BY <2>3 DEF nodes
<1>5. OwnList(u, "WITHDRAWN") = w /\ OwnList(u, "NLRI") = n
  BY DEF OwnList
<1> HIDE DEF w, p, n
<1>6. /\ IsList(three)
      /\ Tagged(three, "WITHDRAWN") = <<w>>
      /\ Tagged(three, "PATH_ATTRIBUTES") = <<p>>
      /\ Tagged(three, "NLRI") = <<n>>
  BY <1>2, <1>3, <1>4, TaggedOfThree
<1> HIDE DEF three
<1>7. UpdateXml(u).children = three
  BY <1>1, <1>6, ChildrenOfNew, ElementHas
<1> QED
  BY <1>4, <1>5, <1>6, <1>7 DEF p, RouteTags

\* A reader finds the UPDATE's own list, and those of its attributes.
LEMMA ListsOfUpdate ==
  ASSUME NEW d, NEW tag \in RouteTags, d.bgp_msg.class = "BGPUpdate",
         AreAttributes(d.bgp_msg.pathAttributes),
         IsList(d.bgp_msg.withdrawnRoutes), IsList(d.bgp_msg.nlriRoutes)
  PROVE  ListsOf(MessageXml(d), tag)
           = <<OwnList(d.bgp_msg, tag)>> \o FlattenSeq(ListsOfValues(d.bgp_msg.pathAttributes, tag))
<1> DEFINE u == d.bgp_msg
           x == UpdateXml(u)
           a == AsciiMessageXml(u)
           p == PathAttributesXml(u)
           nodes == AttributeNodes(u.pathAttributes)
           updates == Tagged(Children(Tagged(MessageXml(d).children, "ASCII_MSG")), "UPDATE")
           attributes == Children(Tagged(Children(updates), "PATH_ATTRIBUTES"))
<1>1. ListsOf(MessageXml(d), tag)
        = Tagged(Children(updates), tag) \o Tagged(Children(Children(attributes)), tag)
  BY DEF ListsOf
<1>2. /\ IsList(a.children)
      /\ Tagged(a.children, "UPDATE") = <<x>>
  BY AsciiMessageXmlIs
<1>3. /\ IsList(x.children)
      /\ Tagged(x.children, "PATH_ATTRIBUTES") = <<p>>
      /\ Tagged(x.children, tag) = <<OwnList(u, tag)>>
      /\ p.children = nodes
  BY UpdateXmlIs
<1>4. IsList(nodes) /\ Tagged(Children(Children(nodes)), tag) = FlattenSeq(ListsOfValues(u.pathAttributes, tag))
  BY AttributesHave DEF AreNodes
<1>5. updates = Tagged(Children(<<a>>), "UPDATE")
  BY MessageXmlIs
<1> HIDE DEF a, x, p, nodes, updates
<1>6. Children(<<a>>) = a.children /\ Children(<<x>>) = x.children /\ Children(<<p>>) = p.children
  BY <1>2, <1>3, <1>4, ChildrenFew
<1>7. updates = <<x>>
  BY <1>2, <1>5, <1>6
<1>8. attributes = nodes
  BY <1>3, <1>6, <1>7
<1> HIDE DEF attributes
<1> QED
  BY <1>1, <1>3, <1>4, <1>6, <1>7, <1>8

\* In any other message it finds none.
LEMMA ListsOfOthers ==
  ASSUME NEW d, NEW tag, d.bgp_msg.class \notin {"UPDATE", "BGPUpdate"}
  PROVE  ListsOf(MessageXml(d), tag) = << >>
<1> DEFINE a == AsciiMessageXml(d.bgp_msg)
           updates == Tagged(Children(Tagged(MessageXml(d).children, "ASCII_MSG")), "UPDATE")
           attributes == Children(Tagged(Children(updates), "PATH_ATTRIBUTES"))
           none == << >>
<1>1. ListsOf(MessageXml(d), tag)
        = Tagged(Children(updates), tag) \o Tagged(Children(Children(attributes)), tag)
  BY DEF ListsOf
<1>2. /\ IsList(a.children)
      /\ Tagged(a.children, "UPDATE") = none
  BY AsciiMessageXmlIs
<1>3. updates = Tagged(Children(<<a>>), "UPDATE")
  BY MessageXmlIs
<1> HIDE DEF a, updates
<1>4. Children(<<a>>) = a.children
  BY <1>2, ChildrenFew
<1>5. updates = none
  BY <1>2, <1>3, <1>4
<1>6. Children(none) = none /\ IsList(none) /\ none \o none = none
  BY SMTT(60), ChildrenFew, EmptyIsList, ConcatEmpty
<1>7. \A t : Tagged(none, t) = none
  BY TaggedFew, EmptyIsList
<1> HIDE DEF none
<1>8. attributes = none
  BY <1>5, <1>6, <1>7
<1> HIDE DEF attributes
<1> QED
  BY <1>1, <1>5, <1>6, <1>7, <1>8 DEF none

-----------------------------------------------------------------------------
(* The prefixes in the XML                                                 *)

\* The prefixes below a list of a tag are those of its routes.
LEMMA TextsOfCounted ==
  ASSUME NEW tag, NEW routes, NEW afi, IsList(routes)
  PROVE  /\ AreNodes(<<Counted(tag, PrefixNodes(routes, afi))>>)
         /\ IsList(Children(<<Counted(tag, PrefixNodes(routes, afi))>>))
         /\ TextsOf(Children(<<Counted(tag, PrefixNodes(routes, afi))>>)) = RoutePrefixes(routes, afi)
<1> DEFINE nodes == PrefixNodes(routes, afi)
           c == Counted(tag, nodes)
<1>1. IsList(nodes) /\ TextsOf(nodes) = RoutePrefixes(routes, afi)
  BY TextsOfPrefixes
<1> HIDE DEF nodes
<1>2. c.children = nodes
  BY <1>1, CountedTag
<1> HIDE DEF c
<1>3. AreNodes(<<c>>) /\ Children(<<c>>) = nodes
  BY <1>1, <1>2, ChildrenFew
<1> QED
  BY <1>1, <1>3 DEF c, nodes

\* Values that are right are attributes of an UPDATE.
LEMMA ValuesAreAttributes ==
  ASSUME NEW values, AreValues(values)
  PROVE  AreAttributes(values)
BY ElementOfList DEF AreValues, AreAttributes

\* The prefixes of the attribute that is looked up.
LEMMA TextsOfList ==
  ASSUME NEW values, NEW class \in MPClasses, NEW tag, AreValues(values)
  PROVE  /\ AreNodes(ListOf(LastOfClass(class, values), tag))
         /\ IsList(Children(ListOf(LastOfClass(class, values), tag)))
         /\ TextsOf(Children(ListOf(LastOfClass(class, values), tag)))
              = MPPrefixes(LastOfClass(class, values))
<1> DEFINE places == {i \in DOMAIN values : values[i].class = class}
           found == LastOfClass(class, values)
<1>1. IsList(values) /\ Len(values) \in Nat /\ DOMAIN values = 1 .. Len(values)
  BY ListFacts DEF AreValues
<1>2. CASE places = {}
  <2> DEFINE none == << >>
  <2>1. found = none
    BY <1>2 DEF LastOfClass
  <2>2. ListOf(none, tag) = none /\ MPPrefixes(none) = none
    BY DEF ListOf, MPPrefixes
  <2>3. AreNodes(none) /\ Children(none) = none /\ IsList(none)
    BY ChildrenFew, EmptyIsList
  <2>4. TextsOf(none) = none
    BY DEF TextsOf
  <2> HIDE DEF none, found
  <2> QED
    BY <2>1, <2>2, <2>3, <2>4 DEF found
<1>3. CASE places # {}
  <2> DEFINE k == Max(places)
             v == values[k]
  <2>1. k \in places
    BY <1>1, <1>3, MaxOfPlaces
  <2>2. found = <<v>>
    BY <1>3 DEF LastOfClass
  <2>3. IsList(v.nlri)
    BY <1>1, <2>1, ElementOfList DEF AreValues, IsValue, AreRoutes, MPClasses
  <2> HIDE DEF v
  <2>4. <<v>> # << >> /\ <<v>>[1] = v
    OBVIOUS
  <2>5. MPPrefixes(<<v>>) = RoutePrefixes(v.nlri, v.afi)
    BY <2>4 DEF MPPrefixes
  <2> DEFINE list == <<Counted(tag, PrefixNodes(v.nlri, v.afi))>>
  <2>6. ListOf(<<v>>, tag) = list
    BY <2>4 DEF ListOf
  <2>7. /\ AreNodes(list) /\ IsList(Children(list))
        /\ TextsOf(Children(list)) = RoutePrefixes(v.nlri, v.afi)
    BY <2>3, TextsOfCounted
  <2> HIDE DEF list, found
  <2> QED
    BY <2>2, <2>5, <2>6, <2>7 DEF found
<1> QED
  BY <1>2, <1>3

\* What an UPDATE withdraws or announces.
PrefixesFor(u, tag) == IF tag = "NLRI" THEN AnnouncedPrefixes(u) ELSE WithdrawnPrefixes(u)

\* In the XML of an UPDATE a reader finds what the lines of it say.
LEMMA PrefixesInUpdate ==
  ASSUME NEW d, NEW tag \in RouteTags, d.bgp_msg.class = "BGPUpdate",
         IsMessage("BGPUpdate", d.bgp_msg), Regular(d.bgp_msg)
  PROVE  PrefixesIn(MessageXml(d), tag) = PrefixesFor(d.bgp_msg, tag)
<1> DEFINE u == d.bgp_msg
           values == u.pathAttributes
           class == ClassOf(tag)
           routes == IF tag = "NLRI" THEN u.nlriRoutes ELSE u.withdrawnRoutes
           own == <<OwnList(u, tag)>>
           rest == ListOf(LastOfClass(class, values), tag)
           r == RoutePrefixes(routes, IPv4)
           p == MPPrefixes(LastOfClass(class, values))
<1>1. AreValues(values) /\ IsList(u.withdrawnRoutes) /\ IsList(u.nlriRoutes)
  BY DEF IsMessage, AreRoutes
<1>2. class \in MPClasses /\ IsList(values) /\ AreAttributes(values)
  BY <1>1, ValuesAreAttributes DEF ClassOf, MPClasses, AreValues
<1>3. Once(values, class)
  BY <1>2, ListFacts DEF Regular, Once
<1>4. ListsOf(MessageXml(d), tag) = own \o rest
  BY <1>1, <1>2, <1>3, ListsOfUpdate, OnlyList
<1>5. PrefixesFor(u, tag) = r \o p
  BY DEF PrefixesFor, AnnouncedPrefixes, WithdrawnPrefixes, MPReachOf, MPUnreachOf, ClassOf, RouteTags
<1>6. OwnList(u, tag) = Counted(tag, PrefixNodes(routes, IPv4))
  BY DEF OwnList, NlriXml, WithdrawnXml, RouteTags
<1>7. IsList(routes)
  BY <1>1
<1> HIDE DEF routes
<1>8. AreNodes(own) /\ IsList(Children(own)) /\ TextsOf(Children(own)) = r
  BY <1>6, <1>7, TextsOfCounted
<1>9. AreNodes(rest) /\ IsList(Children(rest)) /\ TextsOf(Children(rest)) = p
  BY <1>1, <1>2, TextsOfList
<1> HIDE DEF own, rest, r, p
<1>10. Children(own \o rest) = Children(own) \o Children(rest)
  BY <1>8, <1>9, ChildrenConcat
<1>11. TextsOf(Children(own) \o Children(rest)) = r \o p
  BY <1>8, <1>9, TextsConcat
<1> QED
  BY <1>4, <1>5, <1>10, <1>11 DEF PrefixesIn

\* In that of another message, nothing.
LEMMA PrefixesInOthers ==
  ASSUME NEW d, NEW tag, d.bgp_msg.class \notin {"UPDATE", "BGPUpdate"}
  PROVE  PrefixesIn(MessageXml(d), tag) = << >>
<1> DEFINE none == << >>
<1>1. Children(none) = none
  BY ChildrenFew
<1>2. TextsOf(none) = none
  BY DEF TextsOf
<1> HIDE DEF none
<1> QED
  BY <1>1, <1>2, ListsOfOthers DEF PrefixesIn, none

-----------------------------------------------------------------------------
(* Looking for lines                                                       *)

\* The prefixes of lines of some kinds, as a function of lines.
IfOfKinds(U, kinds) == [x \in U |-> IF x.kind \in kinds THEN <<x.prefix>> ELSE << >>]

\* They are a list.
LEMMA PrefixesOfAre ==
  ASSUME NEW s, NEW kinds, NEW U, IsList(s), ToSet(s) \subseteq U
  PROVE  /\ MapsToLists(IfOfKinds(U, kinds), s)
         /\ PrefixesOf(s, kinds) = Mapped(IfOfKinds(U, kinds), s)
         /\ IsList(PrefixesOf(s, kinds))
<1> DEFINE g == IfOfKinds(U, kinds)
<1>1. DOMAIN s = 1 .. Len(s) /\ \A i \in 1 .. Len(s) : s[i] \in U
  BY ListFacts, ElementOfList
<1>2. \A i \in 1 .. Len(s) : g[s[i]] = IF s[i].kind \in kinds THEN <<s[i].prefix>> ELSE << >>
  BY <1>1 DEF IfOfKinds
<1> HIDE DEF g
<1>3. MapsToLists(g, s)
  BY <1>2, SingleList, EmptyIsList DEF MapsToLists
<1>4. PrefixesOf(s, kinds) = Mapped(g, s)
  BY <1>1, <1>2 DEF PrefixesOf, Mapped, ListsFor
<1> QED
  BY <1>3, <1>4, ListsForAre DEF g

\* Those of two lists of lines.
LEMMA PrefixesOfConcat ==
  ASSUME NEW s, NEW t, NEW kinds, IsList(s), IsList(t)
  PROVE  PrefixesOf(s \o t, kinds) = PrefixesOf(s, kinds) \o PrefixesOf(t, kinds)
<1> DEFINE U == ToSet(s) \cup ToSet(t) \cup ToSet(s \o t)
           g == IfOfKinds(U, kinds)
<1>1. ToSet(s) \subseteq U /\ ToSet(t) \subseteq U /\ ToSet(s \o t) \subseteq U
  OBVIOUS
<1>2. IsList(s \o t)
  BY ConcatList
<1> HIDE DEF U
<1>3. /\ MapsToLists(g, s) /\ MapsToLists(g, t)
      /\ PrefixesOf(s, kinds) = Mapped(g, s) /\ PrefixesOf(t, kinds) = Mapped(g, t)
  BY <1>1, PrefixesOfAre
<1>4. PrefixesOf(s \o t, kinds) = Mapped(g, s \o t)
  <2> DEFINE u == s \o t
  <2>1. IsList(u) /\ ToSet(u) \subseteq U
    BY <1>1, <1>2
  <2> HIDE DEF u
  <2>2. PrefixesOf(u, kinds) = Mapped(g, u)
    BY <2>1, PrefixesOfAre
  <2> QED
    BY <2>2 DEF u
<1> HIDE DEF g
<1> QED
  BY <1>3, <1>4, MappedConcat

\* And of the lists of a list.
LEMMA PrefixesOfFlatten ==
  ASSUME NEW ss, NEW kinds, IsListOfLists(ss)
  PROVE  PrefixesOf(FlattenSeq(ss), kinds) = FlattenSeq([i \in DOMAIN ss |-> PrefixesOf(ss[i], kinds)])
<1> DEFINE all == FlattenSeq(ss)
           U == ToSet(all) \cup UNION {ToSet(ss[i]) : i \in DOMAIN ss}
           g == IfOfKinds(U, kinds)
<1>1. IsList(all) /\ DOMAIN ss = 1 .. Len(ss)
  BY FlattenIsList, ListFacts DEF IsListOfLists
<1> HIDE DEF all
<1>2. ToSet(all) \subseteq U /\ \A i \in DOMAIN ss : ToSet(ss[i]) \subseteq U
  OBVIOUS
<1> HIDE DEF U
<1>3. ASSUME NEW i \in 1 .. Len(ss)
      PROVE  MapsToLists(g, ss[i]) /\ PrefixesOf(ss[i], kinds) = Mapped(g, ss[i])
  <2> DEFINE s == ss[i]
  <2>1. IsList(s) /\ ToSet(s) \subseteq U
    BY <1>1, <1>2 DEF IsListOfLists
  <2> HIDE DEF s
  <2>2. MapsToLists(g, s) /\ PrefixesOf(s, kinds) = Mapped(g, s)
    BY <2>1, PrefixesOfAre
  <2> QED
    BY <2>2 DEF s
<1>4. PrefixesOf(all, kinds) = Mapped(g, all)
  BY <1>1, <1>2, PrefixesOfAre
<1> HIDE DEF g
<1>5. Mapped(g, FlattenSeq(ss)) = FlattenSeq([i \in DOMAIN ss |-> Mapped(g, ss[i])])
  BY <1>3, MappedFlatten
<1>6. [i \in DOMAIN ss |-> Mapped(g, ss[i])] = [i \in DOMAIN ss |-> PrefixesOf(ss[i], kinds)]
  BY <1>1, <1>3
<1> QED
  BY <1>4, <1>5, <1>6 DEF all

-----------------------------------------------------------------------------
(* The prefixes in the lines                                               *)

\* Lines of one kind have the prefixes they were made of.
LEMMA LinesOfKind ==
  ASSUME NEW lines, NEW s, NEW kind, NEW kinds, IsList(lines), IsList(s), Len(lines) = Len(s),
         \A i \in 1 .. Len(s) : lines[i].kind = kind /\ lines[i].prefix = s[i]
  PROVE  PrefixesOf(lines, kinds) = IF kind \in kinds THEN s ELSE << >>
<1>1. /\ Len(s) \in Nat /\ DOMAIN s = 1 .. Len(s)
      /\ DOMAIN lines = 1 .. Len(s)
  BY ListFacts
<1>2. CASE kind \in kinds
  BY <1>1, <1>2, FlattenSingles DEF PrefixesOf
<1>3. CASE kind \notin kinds
  <2> DEFINE ss == [i \in 1 .. Len(s) |-> << >>]
  <2>1. PrefixesOf(lines, kinds) = FlattenSeq(ss)
    BY <1>1, <1>3 DEF PrefixesOf
  <2>2. ss = [i \in 1 .. Len(s) |-> ss[i]] /\ \A i \in 1 .. Len(s) : ss[i] = << >>
    OBVIOUS
  <2> HIDE DEF ss
  <2>3. FlattenSeq(ss) = << >>
    BY <1>1, <2>2, FlattenEmpties, FunctionIsList
  <2> QED
    BY <1>3, <2>1, <2>3
<1> QED
  BY <1>2, <1>3

\* A line has its kind and its prefix, one that is announced too.
LEMMA LineHas ==
  ASSUME NEW d, NEW kind, NEW prefix, NEW texts
  PROVE  /\ Line(d, kind, prefix).kind = kind /\ Line(d, kind, prefix).prefix = prefix
         /\ AnnouncedLine(Line(d, kind, prefix), texts).kind = kind
         /\ AnnouncedLine(Line(d, kind, prefix), texts).prefix = prefix
<1> DEFINE line == Line(d, kind, prefix)
<1>1. line.kind = kind /\ line.prefix = prefix /\ "kind" \in DOMAIN line /\ "prefix" \in DOMAIN line
  BY DEF Line
<1> HIDE DEF line
<1> QED
  BY <1>1 DEF line, AnnouncedLine

\* The kinds of lines that a reader of these compares with the lists of a tag.
KindsOf(tag) == IF tag = "NLRI" THEN {"A", "B"} ELSE {"W"}

\* The lines of an UPDATE withdraw and announce its prefixes.
LEMMA PrefixesOfUpdate ==
  ASSUME NEW d, NEW tag \in RouteTags, d.bgp_msg.class = "BGPUpdate", IsMessage("BGPUpdate", d.bgp_msg)
  PROVE  /\ IsList(UpdateLines(d))
         /\ PrefixesOf(UpdateLines(d), KindsOf(tag)) = PrefixesFor(d.bgp_msg, tag)
<1> DEFINE u == d.bgp_msg
           s == WithdrawnPrefixes(u)
           t == AnnouncedPrefixes(u)
           texts == AttributeTexts(u)
           a == WithdrawnLines(d, s)
           b == AnnouncedLines(d, t, texts)
           kind == IF d.is_tabledump THEN "B" ELSE "A"
           kinds == KindsOf(tag)
           none == << >>
<1>1. AreValues(u.pathAttributes) /\ IsList(u.withdrawnRoutes) /\ IsList(u.nlriRoutes)
  BY DEF IsMessage, AreRoutes
<1>2. IsList(s) /\ IsList(t)
  <2> DEFINE out == MPPrefixes(MPUnreachOf(u))
             in == MPPrefixes(MPReachOf(u))
             w == RoutePrefixes(u.withdrawnRoutes, IPv4)
             n == RoutePrefixes(u.nlriRoutes, IPv4)
  <2>1. IsList(out) /\ IsList(in)
    BY <1>1, MPPrefixesAreList DEF MPReachOf, MPUnreachOf, MPClasses
  <2>2. IsList(w) /\ IsList(n)
    BY <1>1, RoutePrefixesAre
  <2>3. s = w \o out /\ t = n \o in
    BY DEF WithdrawnPrefixes, AnnouncedPrefixes
  <2> HIDE DEF s, t, w, n, out, in
  <2> QED
    BY <2>1, <2>2, <2>3, ConcatList
<1>3. UpdateLines(d) = a \o b
  BY UpdateLinesAre
<1> HIDE DEF s, t, texts
<1>4. /\ IsList(a) /\ Len(a) = Len(s) /\ \A i \in 1 .. Len(s) : a[i] = Line(d, "W", s[i])
      /\ IsList(b) /\ Len(b) = Len(t)
      /\ \A i \in 1 .. Len(t) : b[i] = AnnouncedLine(Line(d, kind, t[i]), texts)
  BY <1>2, WithdrawnLinesAre, AnnouncedLinesAre
<1> HIDE DEF a, b
<1>5. PrefixesOf(a, kinds) = IF "W" \in kinds THEN s ELSE none
  <2>1. \A i \in 1 .. Len(s) : a[i].kind = "W" /\ a[i].prefix = s[i]
    BY <1>4, LineHas
  <2> QED
    BY <1>2, <1>4, <2>1, LinesOfKind
<1>6. PrefixesOf(b, kinds) = IF kind \in kinds THEN t ELSE none
  <2> HIDE DEF kind
  <2> QED
    BY <1>2, <1>4, LinesOfKind, LineHas
<1>7. IsList(a \o b) /\ PrefixesOf(a \o b, kinds) = PrefixesOf(a, kinds) \o PrefixesOf(b, kinds)
  BY <1>4, ConcatList, PrefixesOfConcat
<1>8. s \o none = s /\ none \o t = t
  BY <1>2, ConcatEmpty
<1>9. ("W" \in kinds <=> tag # "NLRI") /\ (kind \in kinds <=> tag = "NLRI")
  BY DEF KindsOf
<1>10. PrefixesFor(u, tag) = IF tag = "NLRI" THEN t ELSE s
  BY DEF PrefixesFor, s, t
<1> HIDE DEF kinds, kind, none
<1>11. CASE tag = "NLRI"
  BY <1>3, <1>5, <1>6, <1>7, <1>8, <1>9, <1>10, <1>11 DEF kinds
<1>12. CASE tag # "NLRI"
  BY <1>3, <1>5, <1>6, <1>7, <1>8, <1>9, <1>10, <1>12 DEF kinds
<1> QED
  BY <1>11, <1>12

-----------------------------------------------------------------------------
(* The messages that are dumped                                            *)

\* What mrt2xml makes of a record's attributes is an UPDATE.
LEMMA FakeIsMessage ==
  ASSUME NEW values, NEW routes, AreValues(values), AreRoutes("NLRIReachable", routes)
  PROVE  /\ FakeBGPUpdate(values, routes).class = "BGPUpdate"
         /\ IsMessage("BGPUpdate", FakeBGPUpdate(values, routes))
  BY EmptyIsList DEF AreRoutes, ToSet, FakeBGPUpdate, BGPUpdate, IsMessage, BGPMessages

\* A route alone, and none.
LEMMA OneRoute ==
  ASSUME NEW prefix
  PROVE  /\ AreRoutes("NLRIReachable", <<NLRIReachable(prefix)>>)
         /\ AreRoutes("NLRIReachable", << >>)
<1> DEFINE r == NLRIReachable(prefix)
<1>1. r.class = "NLRIReachable"
  BY DEF NLRIReachable
<1> HIDE DEF r
<1>2. IsList(<<r>>) /\ Len(<<r>>) = 1 /\ <<r>>[1] = r
  BY SingleList
<1>3. ToSet(<<r>>) = {r}
  BY DEF ToSet
<1>4. ToSet(<< >>) = {}
  BY DEF ToSet
<1> QED
  BY <1>1, <1>2, <1>3, <1>4, EmptyIsList DEF AreRoutes, r

\* Two lists of one kind of elements.
LEMMA ElementsAre ==
  ASSUME NEW s, IsList(s)
  PROVE  /\ DOMAIN s = 1 .. Len(s)
         /\ \A x \in ToSet(s) : \E i \in 1 .. Len(s) : x = s[i]
  BY ListFacts DEF ToSet

\* One more route, and one more attribute.
LEMMA OneMore ==
  ASSUME NEW s, NEW x, IsList(s)
  PROVE  IsList(Append(s, x)) /\ \A y \in ToSet(Append(s, x)) : y \in ToSet(s) \/ y = x
<1> DEFINE t == Append(s, x)
<1>1. /\ IsList(t) /\ Len(t) = Len(s) + 1
      /\ \A i \in 1 .. Len(s) : t[i] = s[i]
      /\ t[Len(s) + 1] = x
  BY ZenonT(60), AppendList
<1>2. Len(s) \in Nat /\ \A i \in 1 .. Len(s) : s[i] \in ToSet(s)
  BY ListFacts, ElementOfList
<1> HIDE DEF t
<1>3. \A i \in 1 .. Len(t) : t[i] \in ToSet(s) \/ t[i] = x
  <2> TAKE i \in 1 .. Len(t)
  <2> QED
    BY <1>1, <1>2
<1>4. \A y \in ToSet(t) : \E i \in 1 .. Len(t) : y = t[i]
  BY <1>1, ElementsAre
<1> QED
  BY <1>1, <1>3, <1>4 DEF t

\* The attribute that a TABLE_DUMP of IPv6 has its prefix in.
LEMMA FakeMPReachIs ==
  ASSUME NEW prefix
  PROVE  /\ IsValue(FakeMPReach(prefix).class, FakeMPReach(prefix))
         /\ FakeMPReach(prefix).class \notin SegmentClasses
<1> DEFINE v == FakeMPReach(prefix)
<1>1. v.class = "AttributeTypeMPReachNLRI" /\ v.nlri = <<NLRIReachable(prefix)>>
  BY DEF FakeMPReach, AttributeTypeMPReachNLRI
<1> HIDE DEF v
<1>2. IsValue(v.class, v) /\ v.class \notin SegmentClasses
  BY <1>1, OneRoute DEF IsValue, AttributeValues, SegmentClasses, PathClasses
<1> QED
  BY <1>2 DEF v

\* Whatever attribute is put into the family of a RIB is one still.
LEMMA InFamilyIs ==
  ASSUME NEW v, NEW record, IsValue(v.class, v), v.class \notin SegmentClasses
  PROVE  /\ IsValue(InFamily(v, record).class, InFamily(v, record))
         /\ InFamily(v, record).class \notin SegmentClasses
<1> DEFINE x == InFamily(v, record)
           prefix == record.prefix
<1>1. CASE v.class = "AttributeTypeMPReachNLRI"
  <2> DEFINE routes == IF v.nlri = << >> THEN <<NLRIReachable(prefix)>> ELSE v.nlri
  <2>1. x = AttributeTypeMPReachNLRI(record.afi, record.safi, v.nextHop, routes)
    BY <1>1 DEF InFamily
  <2>2. AreRoutes("NLRIReachable", routes)
    BY <1>1, OneRoute DEF IsValue
  <2> HIDE DEF routes, x
  <2>3. x.class = "AttributeTypeMPReachNLRI" /\ x.nlri = routes
    BY <2>1 DEF AttributeTypeMPReachNLRI
  <2>4. IsValue(x.class, x) /\ x.class \notin SegmentClasses
    BY <2>2, <2>3 DEF IsValue, AttributeValues, SegmentClasses, PathClasses
  <2> QED
    BY <2>4 DEF x
<1>2. CASE v.class = "AttributeTypeMPUnreachNLRI"
  <2> DEFINE r == NLRIUnReachable(prefix)
             routes == Append(v.nlri, r)
  <2>1. x = AttributeTypeMPUnreachNLRI(record.afi, record.safi, routes)
    BY <1>2 DEF InFamily
  <2>2. r.class = "NLRIUnReachable"
    BY DEF NLRIUnReachable
  <2>3. IsList(v.nlri) /\ \A y \in ToSet(v.nlri) : y.class = "NLRIUnReachable"
    BY <1>2 DEF AreRoutes, IsValue
  <2> HIDE DEF r
  <2>4. IsList(routes) /\ \A y \in ToSet(routes) : y \in ToSet(v.nlri) \/ y = r
    BY <2>3, OneMore
  <2> HIDE DEF routes, x
  <2>5. AreRoutes("NLRIUnReachable", routes)
    BY <2>2, <2>3, <2>4 DEF AreRoutes
  <2>6. x.class = "AttributeTypeMPUnreachNLRI" /\ x.nlri = routes
    BY <2>1 DEF AttributeTypeMPUnreachNLRI
  <2>7. IsValue(x.class, x) /\ x.class \notin SegmentClasses
    BY <2>5, <2>6 DEF IsValue, AttributeValues, SegmentClasses, PathClasses
  <2> QED
    BY <2>7 DEF x
<1>3. CASE v.class \notin {"AttributeTypeMPReachNLRI", "AttributeTypeMPUnreachNLRI"}
  BY <1>3 DEF InFamily
<1> QED
  BY <1>1, <1>2, <1>3

\* So are all the attributes of an entry of a RIB.
LEMMA RibValues ==
  ASSUME NEW values, NEW record, AreValues(values)
  PROVE  AreValues([i \in DOMAIN values |-> InFamily(values[i], record)])
<1> DEFINE n == Len(values)
           s == [i \in DOMAIN values |-> InFamily(values[i], record)]
<1>1. IsList(values)
  BY DEF AreValues
<1>2. n \in Nat /\ DOMAIN values = 1 .. n
  BY <1>1, ListFacts
<1>3. s = [i \in 1 .. n |-> s[i]] /\ \A i \in 1 .. n : s[i] = InFamily(values[i], record)
  BY <1>2
<1>4. \A i \in 1 .. n : IsValue(values[i].class, values[i]) /\ values[i].class \notin SegmentClasses
  BY <1>1, ElementOfList DEF AreValues
<1> HIDE DEF s, n
<1>5. IsList(s) /\ Len(s) = n
  BY <1>2, <1>3, FunctionIsList
<1>6. \A i \in 1 .. n : IsValue(s[i].class, s[i]) /\ s[i].class \notin SegmentClasses
  BY <1>3, <1>4, InFamilyIs
<1>7. AreValues(s)
  BY <1>5, <1>6, ElementsAre DEF AreValues
<1> QED
  BY <1>7 DEF s

\* And those of a TABLE_DUMP with one more.
LEMMA TblDumpValues ==
  ASSUME NEW values, NEW prefix, AreValues(values)
  PROVE  AreValues(Append(values, FakeMPReach(prefix)))
<1> DEFINE x == FakeMPReach(prefix)
           s == Append(values, x)
<1>1. IsValue(x.class, x) /\ x.class \notin SegmentClasses
  BY FakeMPReachIs
<1>2. IsList(values) /\ \A v \in ToSet(values) : IsValue(v.class, v) /\ v.class \notin SegmentClasses
  BY DEF AreValues
<1> HIDE DEF x
<1>3. IsList(s) /\ \A y \in ToSet(s) : y \in ToSet(values) \/ y = x
  BY <1>2, OneMore
<1> HIDE DEF s
<1>4. AreValues(s)
  BY <1>1, <1>2, <1>3 DEF AreValues
<1> QED
  BY <1>4 DEF s, x

\* A message as the library or mrt2xml makes it.
IsDumped(d) == IsMessage(d.bgp_msg.class, d.bgp_msg)

\* The message of a TABLE_DUMP is one.
LEMMA TblDumpIs ==
  ASSUME NEW m, AreValues(m.attributes)
  PROVE  IsDumped(TblDumpMessage(m))
<1> DEFINE four == FakeBGPUpdate(m.attributes, <<NLRIReachable(m.prefix)>>)
           six == FakeBGPUpdate(Append(m.attributes, FakeMPReach(m.prefix)), << >>)
<1>1. four.class = "BGPUpdate" /\ IsMessage("BGPUpdate", four)
  BY OneRoute, FakeIsMessage
<1>2. six.class = "BGPUpdate" /\ IsMessage("BGPUpdate", six)
  <2> DEFINE values == Append(m.attributes, FakeMPReach(m.prefix))
  <2>1. AreValues(values)
    BY TblDumpValues
  <2> HIDE DEF values
  <2>2. /\ FakeBGPUpdate(values, << >>).class = "BGPUpdate"
        /\ IsMessage("BGPUpdate", FakeBGPUpdate(values, << >>))
    BY <2>1, OneRoute, FakeIsMessage
  <2> QED
    BY <2>2 DEF values
<1>3. TblDumpMessage(m).bgp_msg = IF m.subType = IPv4 THEN four ELSE six
  BY DEF TblDumpMessage, Dumped
<1> HIDE DEF four, six
<1> QED
  BY <1>1, <1>2, <1>3 DEF IsDumped

\* That of an entry of a RIB too.
LEMMA RibEntryIs ==
  ASSUME NEW m, NEW entry, AreValues(entry.attributes)
  PROVE  IsDumped(RibEntryMessage(m, entry))
<1> DEFINE values == [i \in DOMAIN entry.attributes |-> InFamily(entry.attributes[i], m)]
           routes == IF m.afi = IPv4 /\ m.safi = 1 THEN <<NLRIReachable(m.prefix)>> ELSE << >>
           u == FakeBGPUpdate(values, routes)
<1>1. AreValues(values)
  BY RibValues
<1>2. AreRoutes("NLRIReachable", routes)
  BY OneRoute
<1>3. RibEntryMessage(m, entry).bgp_msg = u
  BY DEF RibEntryMessage, Dumped
<1> HIDE DEF values, routes
<1>4. u.class = "BGPUpdate" /\ IsMessage("BGPUpdate", u)
  BY <1>1, <1>2, FakeIsMessage
<1> QED
  BY <1>3, <1>4 DEF IsDumped

\* Every message that is dumped of a record.
LEMMA DumpedAre ==
  ASSUME NEW m \in Messages
  PROVE  /\ IsList(DumpedMessages(m))
         /\ \A i \in 1 .. Len(DumpedMessages(m)) : IsDumped(DumpedMessages(m)[i])
<1>1. IsRecord(m.class, m)
  BY MessagesAssumption
<1>2. ASSUME NEW d, IsDumped(d), DumpedMessages(m) = <<d>>
      PROVE  /\ IsList(DumpedMessages(m))
             /\ \A i \in 1 .. Len(DumpedMessages(m)) : IsDumped(DumpedMessages(m)[i])
  BY <1>2, SingleList
<1>3. CASE m.class = "MRTTblDump"
  BY <1>1, <1>2, <1>3, TblDumpIs DEF DumpedMessages, MessageClasses, RibClasses, IsRecord
<1>4. CASE m.class \in RibClasses
  <2> DEFINE n == Len(m.ribEntries)
             s == [i \in DOMAIN m.ribEntries |-> RibEntryMessage(m, m.ribEntries[i])]
  <2>1. /\ IsList(m.ribEntries)
        /\ \A e \in ToSet(m.ribEntries) : AreValues(e.attributes)
    BY <1>1, <1>4 DEF IsRecord, RibClasses, RibRecords
  <2>2. n \in Nat /\ DOMAIN m.ribEntries = 1 .. n /\ \A i \in 1 .. n : m.ribEntries[i] \in ToSet(m.ribEntries)
    BY <2>1, ListFacts, ElementOfList
  <2>3. s = [i \in 1 .. n |-> s[i]] /\ \A i \in 1 .. n : s[i] = RibEntryMessage(m, m.ribEntries[i])
    BY <2>2
  <2>4. DumpedMessages(m) = s
    BY <1>4 DEF DumpedMessages, MessageClasses, RibClasses
  <2> HIDE DEF s, n
  <2>5. IsList(s) /\ Len(s) = n
    BY <2>2, <2>3, FunctionIsList
  <2>6. \A i \in 1 .. n : IsDumped(s[i])
    BY <2>1, <2>2, <2>3, RibEntryIs
  <2> QED
    BY <2>4, <2>5, <2>6
<1>5. CASE m.class \in MessageClasses
  <2>1. DumpedMessages(m) = <<Bgp4MPMessage(m)>>
    BY <1>5 DEF DumpedMessages, MessageClasses, RibClasses
  <2>2. IsMessage(m.payload.class, m.payload)
    BY <1>1, <1>5 DEF IsRecord
  <2>3. IsDumped(Bgp4MPMessage(m))
    BY <2>2 DEF IsDumped, Bgp4MPMessage, Dumped
  <2> QED
    BY <1>2, <2>1, <2>3
<1>6. CASE m.class \notin {"MRTTblDump"} \cup RibClasses \cup MessageClasses
  BY <1>6, EmptyIsList DEF DumpedMessages
<1> QED
  BY <1>3, <1>4, <1>5, <1>6

-----------------------------------------------------------------------------
(* The lines and the XML of a record                                       *)

\* Of each message the XML has the prefixes that its lines have.
LEMMA MessageAgrees ==
  ASSUME NEW d, NEW tag \in RouteTags, IsDumped(d), d.bgp_msg.class = "BGPUpdate" => Regular(d.bgp_msg)
  PROVE  /\ IsList(MessageLines(d))
         /\ PrefixesOf(MessageLines(d), KindsOf(tag)) = PrefixesIn(MessageXml(d), tag)
<1>1. CASE d.bgp_msg.class = "BGPUpdate"
  BY <1>1, PrefixesInUpdate, PrefixesOfUpdate DEF IsDumped, MessageLines
<1>2. CASE d.bgp_msg.class # "BGPUpdate"
  BY <1>2, PrefixesInOthers, EmptyIsList DEF IsDumped, IsMessage, BGPMessages, MessageLines,
    PrefixesOf, FlattenSeq
<1> QED
  BY <1>1, <1>2

\* So it has of the record.
LEMMA RecordAgrees ==
  ASSUME NEW m \in Messages, NEW tag \in RouteTags, m.class \notin StateChangeClasses,
         \A d \in ToSet(DumpedMessages(m)) : d.bgp_msg.class = "BGPUpdate" => Regular(d.bgp_msg)
  PROVE  FlattenSeq([i \in DOMAIN RecordXml(m) |-> PrefixesIn(RecordXml(m)[i], tag)])
           = PrefixesOf(AsciiLines(m), KindsOf(tag))
<1> DEFINE ds == DumpedMessages(m)
           n == Len(ds)
           ss == [i \in DOMAIN ds |-> MessageLines(ds[i])]
           xs == [i \in DOMAIN ds |-> MessageXml(ds[i])]
           kinds == KindsOf(tag)
<1>1. IsList(ds) /\ \A i \in 1 .. n : IsDumped(ds[i])
  BY DumpedAre
<1>2. RecordXml(m) = xs /\ AsciiLines(m) = FlattenSeq(ss)
  BY DEF RecordXml, AsciiLines
<1> HIDE DEF ds
<1>3. n \in Nat /\ DOMAIN ds = 1 .. n /\ \A i \in 1 .. n : ds[i] \in ToSet(ds)
  BY <1>1, ListFacts, ElementOfList
<1>4. /\ ss = [i \in 1 .. n |-> ss[i]] /\ \A i \in 1 .. n : ss[i] = MessageLines(ds[i])
      /\ DOMAIN xs = 1 .. n /\ \A i \in 1 .. n : xs[i] = MessageXml(ds[i])
  BY <1>3
<1>5. \A i \in 1 .. n : ds[i].bgp_msg.class = "BGPUpdate" => Regular(ds[i].bgp_msg)
  BY <1>3 DEF ds
<1> HIDE DEF ss, xs, n, kinds
<1>6. \A i \in 1 .. n : /\ IsList(ss[i])
                        /\ PrefixesOf(ss[i], kinds) = PrefixesIn(xs[i], tag)
  <2> TAKE i \in 1 .. n
  <2> DEFINE d == ds[i]
  <2>1. IsDumped(d) /\ (d.bgp_msg.class = "BGPUpdate" => Regular(d.bgp_msg))
    BY <1>1, <1>5
  <2>2. ss[i] = MessageLines(d) /\ xs[i] = MessageXml(d)
    BY <1>4
  <2> HIDE DEF d
  <2>3. IsList(MessageLines(d)) /\ PrefixesOf(MessageLines(d), kinds) = PrefixesIn(MessageXml(d), tag)
    BY <2>1, MessageAgrees DEF kinds
  <2> QED
    BY <2>2, <2>3
<1>7. IsListOfLists(ss) /\ DOMAIN ss = 1 .. n
  BY <1>3, <1>4, <1>6, FunctionIsList, ListFacts DEF IsListOfLists
<1>8. PrefixesOf(FlattenSeq(ss), kinds) = FlattenSeq([i \in DOMAIN ss |-> PrefixesOf(ss[i], kinds)])
  BY <1>7, PrefixesOfFlatten
<1>9. [i \in DOMAIN ss |-> PrefixesOf(ss[i], kinds)] = [i \in DOMAIN xs |-> PrefixesIn(xs[i], tag)]
  BY <1>4, <1>6, <1>7
<1> QED
  BY <1>2, <1>8, <1>9 DEF kinds

-----------------------------------------------------------------------------
(* XmlAgrees                                                               *)

\* mrt2xml is about to dump the record, or it has, and has printed its XML.
XmlMade ==
  program = "mrt2xml" =>
    /\ message \in Messages
    /\ \/ \E class, node, param :
            stack = <<[visitor |-> "mrt2xml", class |-> class, node |-> node, param |-> param]>>
       \/ stack = << >> /\ (Dumpable(message) /\ ~crashed => elements = RecordXml(message))

\* It is about to when the record has been read.
LEMMA XmlMadeInit ==
  ASSUME Init
  PROVE  XmlMade
<1> SUFFICES ASSUME program = "mrt2xml"
             PROVE  /\ message \in Messages
                    /\ \E class, node, param :
                         stack = <<[visitor |-> "mrt2xml", class |-> class, node |-> node,
                                    param |-> param]>>
  BY DEF XmlMade
<1>1. stack = <<[visitor |-> "mrt2xml", class |-> message.class, node |-> message,
                 param |-> FirstParam("mrt2xml")]>>
  BY AcceptsOneOf DEF Init
<1> QED
  BY <1>1 DEF Init

\* A step of mrt2xml dumps the record.
LEMMA OnlyDumps ==
  ASSUME Next, stack # << >>, Top.visitor = "mrt2xml"
  PROVE  DumpXml
<1>1. ~DumpAscii /\ ~Stop
  BY DEF DumpAscii, Dump, Visiting, Stop, Finished
<1>2. ~NextAscii
  BY DEF NextAscii, Visiting, Me, VisitMessage, VisitStateChange, VisitTblDump, VisitRibHeader,
    BGPTblDump, BGPRibHeader, BGPRibEntry, BGPOwnPrefix, VisitOpen, VisitUpdate,
    VisitUpdateRoutes, MPReach, MPUnreach, PlainAttribute, Reachable, UnReachable
<1>3. ~NextGeneric
  <2>1. \A generic, classes : Visit(generic, classes) => generic = "mrt2xml"
    BY DEF Visit, DerivedFrom
  <2> QED
    BY <2>1 DEF NextGeneric,
      DepthFirstVisitorRecord, DepthFirstVisitorMessage, DepthFirstVisitorValue,
      DepthFirstVisitorLeaf, GJVoidDepthFirstRecord, GJVoidDepthFirstMessage,
      GJVoidDepthFirstValue, GJVoidDepthFirstLeaf, GJNoArguDepthFirstRecord,
      GJNoArguDepthFirstMessage, GJNoArguDepthFirstValue, GJNoArguDepthFirstLeaf,
      GJDepthFirstRecord, GJDepthFirstMessage, GJDepthFirstValue, GJDepthFirstLeaf
<1> QED
  BY <1>1, <1>2, <1>3 DEF Next

\* So XmlMade stays true.
LEMMA XmlMadeStep ==
  ASSUME XmlMade, [Next]_vars
  PROVE  XmlMade'
<1> SUFFICES ASSUME program = "mrt2xml", program' = "mrt2xml"
             PROVE  XmlMade'
  BY ProgramStays DEF XmlMade, vars
<1>1. CASE UNCHANGED vars
  BY <1>1 DEF vars, traversal, XmlMade
<1>2. CASE Next /\ ~UNCHANGED vars
  <2>1. stack # << >>
    BY <1>2, EmptyTakesNoStep
  <2>2. PICK class, node, param :
          stack = <<[visitor |-> "mrt2xml", class |-> class, node |-> node, param |-> param]>>
    BY <2>1 DEF XmlMade
  <2> DEFINE f == [visitor |-> "mrt2xml", class |-> class, node |-> node, param |-> param]
  <2>3. f.visitor = "mrt2xml"
    OBVIOUS
  <2>4. stack = <<f>>
    BY <2>2
  <2> HIDE DEF f
  <2>5. Top = f /\ Tail(stack) = << >>
    BY <2>4 DEF Top
  <2>6. DumpXml
    BY <1>2, <2>1, <2>3, <2>5, OnlyDumps
  <2>7. stack' = << >> \o << >>
    BY <2>5, <2>6 DEF DumpXml, Dump, Push
  <2>8. << >> \o << >> = << >>
    BY EmptyIsList, ConcatEmpty
  <2>9. /\ message' = message
        /\ elements' = IF Dumpable(message) /\ ~crashed' THEN RecordXml(message) ELSE << >>
    BY <2>6 DEF DumpXml, Dump
  <2>10. message \in Messages
    BY DEF XmlMade
  <2>11. Dumpable(message') /\ ~crashed' => elements' = RecordXml(message')
    BY <2>9
  <2> QED
    BY <2>7, <2>8, <2>9, <2>10, <2>11 DEF XmlMade
<1> QED
  BY <1>1, <1>2

\* And it says of the XML what XmlAgrees does.
LEMMA XmlMadeSays ==
  ASSUME XmlMade
  PROVE  XmlAgrees
<1> SUFFICES ASSUME stack = << >>, program = "mrt2xml", ~crashed, Dumpable(message),
                    message.class \notin StateChangeClasses,
                    \A d \in ToSet(DumpedMessages(message)) :
                      d.bgp_msg.class = "BGPUpdate" => Regular(d.bgp_msg)
             PROVE  /\ PrefixesUnder("WITHDRAWN") = PrefixesOf(AsciiLines(message), {"W"})
                    /\ PrefixesUnder("NLRI") = PrefixesOf(AsciiLines(message), {"A", "B"})
  BY DEF XmlAgrees, Finished
<1>1. message \in Messages /\ elements = RecordXml(message)
  <2>1. ASSUME NEW f, stack = <<f>> PROVE FALSE
    BY <2>1
  <2> QED
    BY <2>1 DEF XmlMade
<1>2. ASSUME NEW tag \in RouteTags
      PROVE  PrefixesUnder(tag) = PrefixesOf(AsciiLines(message), KindsOf(tag))
  <2> DEFINE m == message
  <2>1. m \in Messages /\ m.class \notin StateChangeClasses
    BY <1>1
  <2>2. \A d \in ToSet(DumpedMessages(m)) : d.bgp_msg.class = "BGPUpdate" => Regular(d.bgp_msg)
    OBVIOUS
  <2> HIDE DEF m
  <2>3. FlattenSeq([i \in DOMAIN RecordXml(m) |-> PrefixesIn(RecordXml(m)[i], tag)])
          = PrefixesOf(AsciiLines(m), KindsOf(tag))
    BY <2>1, <2>2, RecordAgrees
  <2> QED
    BY <1>1, <2>3 DEF m, PrefixesUnder
<1>3. /\ PrefixesUnder("WITHDRAWN") = PrefixesOf(AsciiLines(message), KindsOf("WITHDRAWN"))
      /\ PrefixesUnder("NLRI") = PrefixesOf(AsciiLines(message), KindsOf("NLRI"))
  BY <1>2 DEF RouteTags
<1> QED
  BY <1>3 DEF KindsOf

\* The XML of mrt2xml and its lines, which two families of dumpers make, withdraw and announce the
\* same prefixes in the same order, of every record without two MP_REACH or MP_UNREACH, however
\* many entries, attributes and routes it has.
THEOREM XmlAgreesHolds == Spec => []XmlAgrees
<1>1. Init => XmlMade
  BY XmlMadeInit
<1>2. XmlMade /\ [Next]_vars => XmlMade'
  BY XmlMadeStep
<1>3. XmlMade => XmlAgrees
  BY XmlMadeSays
<1> QED
  BY <1>1, <1>2, <1>3, PTL DEF Spec

=============================================================================
