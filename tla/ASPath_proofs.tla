----------------------------- MODULE ASPath_proofs -----------------------------
(***************************************************************************)
(* Proofs about genPathSegmentsComplete for AS_PATHs and AS4_PATHs of any  *)
(* number of segments of any length.                                       *)
(*                                                                         *)
(* The invariant: the result so far is the completion of the segments the  *)
(* iterator has passed, and the two iterators keep the distance of the two *)
(* lists until AS4_PATH is used up.                                        *)
(***************************************************************************)
EXTENDS ASPath, SequenceTheorems, TLAPS

\* By how many segments AS_PATH is the longer list; negative if AS4_PATH is.
Lead == Len(as_path) - Len(as4_path)

\* What segment k of AS_PATH is to become.
Completed(k) == IF k - Lead >= 1 THEN Merged(as_path[k], as4_path[k - Lead]) ELSE as_path[k]

Progress ==
  /\ pc = "start" => it = Len(as_path) /\ it4 = Len(as4_path) /\ pathSegmentsComplete = << >>
  /\ pc = "merge" =>
       /\ IF it4 > 0 THEN it - it4 = Lead ELSE it <= Lead
       /\ Len(pathSegmentsComplete) = Len(as_path) - it
       /\ \A k \in it + 1 .. Len(as_path) : pathSegmentsComplete[k - it] = Completed(k)
  /\ pc = "done" =>
       /\ Len(pathSegmentsComplete) = Len(as_path)
       /\ \A k \in 1 .. Len(as_path) : pathSegmentsComplete[k] = Completed(k)

IInv == TypeOK /\ Progress

(***************************************************************************)
(* The merge of two segments is a segment, of the first one's type and     *)
(* length; if the second is not the longer, it supplies the last numbers.  *)
(***************************************************************************)
LEMMA MergedSegment ==
  ASSUME NEW seg \in Segment, NEW seg4 \in Segment
  PROVE  /\ Merged(seg, seg4) \in Segment
         /\ Merged(seg, seg4).type = seg.type
         /\ Len(Merged(seg, seg4).value) = Len(seg.value)
         /\ Len(seg4.value) <= Len(seg.value) =>
              \A i \in 1 .. Len(seg.value) :
                Merged(seg, seg4).value[i] =
                  IF i <= Len(seg.value) - Len(seg4.value) THEN seg.value[i]
                  ELSE seg4.value[i - (Len(seg.value) - Len(seg4.value))]
<1> DEFINE n == Len(seg.value)
           n4 == Len(seg4.value)
           number(i) == IF i <= n - n4 THEN seg.value[i]
                        ELSE IF n - n4 > 0 THEN seg4.value[i - (n - n4)]
                        ELSE seg4.value[i]
           merged == [i \in 1 .. n |-> number(i)]
<1>0. seg.value \in Seq(ASNs) /\ seg4.value \in Seq(ASNs) /\ seg.type \in SegmentTypes
  BY DEF Segment
<1>1. n \in Nat /\ n4 \in Nat
  BY <1>0
<1>2. \A j \in 1 .. n : seg.value[j] \in ASNs
  BY <1>0
<1>3. \A j \in 1 .. n4 : seg4.value[j] \in ASNs
  BY <1>0
<1>4. ASSUME NEW i \in 1 .. n PROVE number(i) \in ASNs
  <2> HIDE DEF n, n4
  <2>1. CASE i <= n - n4
    BY <1>2, <2>1
  <2>2. CASE ~(i <= n - n4) /\ n - n4 > 0
    <3>1. i - (n - n4) \in 1 .. n4
      BY <1>1, <2>2
    <3> QED
      BY <1>3, <2>2, <3>1
  <2>3. CASE ~(i <= n - n4) /\ ~(n - n4 > 0)
    <3>1. i \in 1 .. n4
      BY <1>1, <2>3
    <3> QED
      BY <1>3, <2>3, <3>1
  <2> QED
    BY <2>1, <2>2, <2>3
<1>5. merged \in [1 .. n -> ASNs]
  BY <1>4
<1>6. merged \in Seq(ASNs) /\ Len(merged) = n
  <2> HIDE DEF n, merged
  <2> QED
    BY <1>1, <1>5
<1>7. Merged(seg, seg4) = [type |-> seg.type, length |-> 0, value |-> merged]
  BY DEF Merged
<1>8. Merged(seg, seg4) \in Segment
  BY <1>0, <1>6, <1>7 DEF Segment
<1>9. ASSUME n4 <= n, NEW i \in 1 .. n
      PROVE  merged[i] = IF i <= n - n4 THEN seg.value[i] ELSE seg4.value[i - (n - n4)]
  <2>1. merged[i] = number(i)
    OBVIOUS
  <2>2. ~(n - n4 > 0) => i - (n - n4) = i
    <3> HIDE DEF n, n4
    <3>1. n \in Int /\ n4 \in Int /\ i \in Int /\ n4 <= n
      BY <1>1, <1>9
    <3> QED
      BY <3>1
  <2> HIDE DEF n, n4, merged
  <2> QED
    BY <2>1, <2>2
<1>10. Merged(seg, seg4).type = seg.type /\ Merged(seg, seg4).value = merged
  <2> HIDE DEF merged
  <2> QED
    BY <1>7
<1>11. Len(Merged(seg, seg4).value) = n
  <2> HIDE DEF merged, n
  <2> QED
    BY <1>6, <1>10
<1>12. n4 <= n => \A i \in 1 .. n :
         Merged(seg, seg4).value[i] = IF i <= n - n4 THEN seg.value[i]
                                      ELSE seg4.value[i - (n - n4)]
  <2> HIDE DEF merged, n, n4
  <2> QED
    BY <1>9, <1>10
<1> QED
  BY <1>8, <1>10, <1>11, <1>12

\* Putting a segment in front shifts the others by one.
LEMMA PushFrontShifts ==
  ASSUME TypeOK, NEW seg \in Segment, PushFront(seg)
  PROVE  /\ pathSegmentsComplete' \in Seq(Segment)
         /\ Len(pathSegmentsComplete') = Len(pathSegmentsComplete) + 1
         /\ pathSegmentsComplete'[1] = seg
         /\ \A i \in 1 .. Len(pathSegmentsComplete) :
              pathSegmentsComplete'[i + 1] = pathSegmentsComplete[i]
<1>1. <<seg>> \in Seq(Segment) /\ Len(<<seg>>) = 1 /\ <<seg>>[1] = seg
  OBVIOUS
<1>2. pathSegmentsComplete \in Seq(Segment) /\ Len(pathSegmentsComplete) \in Nat
  BY DEF TypeOK
<1> QED
  BY <1>1, <1>2, ConcatProperties DEF PushFront

LEMMA InitProgress == Init => IInv
<1> SUFFICES ASSUME Init PROVE IInv
  OBVIOUS
<1>0. ReadSegment \subseteq Segment
  BY DEF ReadSegment
<1>1. as_path \in Seq(Segment) /\ as4_path \in Seq(Segment)
  <2> HIDE DEF ReadSegment, Segment
  <2>1. as_path \in Seq(ReadSegment) /\ as4_path \in Seq(ReadSegment)
    BY PathsAssumption DEF Init
  <2> QED
    BY <1>0, <2>1
<1> QED
  BY <1>1 DEF Init, IInv, TypeOK, Progress

\* A segment in front: the one of index it is completed.
LEMMA FrontCompleted ==
  ASSUME IInv, pc = "merge", pc' = "merge", it > 0, it' = it - 1,
         UNCHANGED <<as_path, as4_path>>, PushFront(Completed(it)), Completed(it) \in Segment
  PROVE  /\ pathSegmentsComplete' \in Seq(Segment)
         /\ Len(pathSegmentsComplete') = Len(as_path') - it'
         /\ \A k \in it' + 1 .. Len(as_path') : pathSegmentsComplete'[k - it'] = Completed(k)'
<1>0. /\ TypeOK /\ Len(as_path) \in Nat /\ it \in 1 .. Len(as_path)
      /\ Len(pathSegmentsComplete) = Len(as_path) - it
      /\ \A k \in it + 1 .. Len(as_path) : pathSegmentsComplete[k - it] = Completed(k)
  BY DEF IInv, TypeOK, Progress
<1>1. /\ pathSegmentsComplete' \in Seq(Segment)
      /\ Len(pathSegmentsComplete') = Len(pathSegmentsComplete) + 1
      /\ pathSegmentsComplete'[1] = Completed(it)
      /\ \A i \in 1 .. Len(pathSegmentsComplete) :
           pathSegmentsComplete'[i + 1] = pathSegmentsComplete[i]
  BY <1>0, PushFrontShifts
<1>2. \A k \in 1 .. Len(as_path) : Completed(k)' = Completed(k)
  BY DEF Completed, Lead
<1>3. ASSUME NEW k \in it .. Len(as_path)
      PROVE  pathSegmentsComplete'[k - (it - 1)] = Completed(k)
  <2>1. CASE k = it
    <3>1. k - (it - 1) = 1
      BY <1>0, <2>1
    <3> QED
      BY <1>1, <2>1, <3>1
  <2>2. CASE k \in it + 1 .. Len(as_path)
    <3>1. k - it \in 1 .. Len(pathSegmentsComplete) /\ k - (it - 1) = (k - it) + 1
      BY <1>0, <2>2
    <3>2. pathSegmentsComplete'[(k - it) + 1] = pathSegmentsComplete[k - it]
      BY <1>1, <3>1
    <3> QED
      BY <1>0, <2>2, <3>1, <3>2
  <2> QED
    BY <1>0, <2>1, <2>2
<1>4. it' + 1 = it /\ as_path' = as_path
  BY <1>0
<1>5. \A k \in it' + 1 .. Len(as_path') : k \in it .. Len(as_path) /\ k \in 1 .. Len(as_path)
  BY <1>0, <1>4
<1> QED
  BY <1>0, <1>1, <1>2, <1>3, <1>4, <1>5

LEMMA NextProgress == IInv /\ [Next]_vars => IInv'
<1> SUFFICES ASSUME IInv, [Next]_vars PROVE IInv'
  OBVIOUS
<1>0. /\ as_path \in Seq(Segment) /\ as4_path \in Seq(Segment)
      /\ Len(as_path) \in Nat /\ Len(as4_path) \in Nat
      /\ it \in 0 .. Len(as_path) /\ it4 \in 0 .. Len(as4_path)
      /\ pathSegmentsComplete \in Seq(Segment)
  BY DEF IInv, TypeOK
<1>1. CASE TakeAsIs
  <2>1. /\ pc' = "done" /\ pathSegmentsComplete' = as_path
        /\ UNCHANGED <<as_path, as4_path, it, it4>> /\ Len(as4_path) = 0
    BY <1>1 DEF TakeAsIs
  <2>2. \A k \in 1 .. Len(as_path) : Completed(k)' = as_path[k]
    BY <1>0, <2>1 DEF Completed, Lead
  <2> QED
    BY <1>0, <2>1, <2>2 DEF IInv, TypeOK, Progress
<1>2. CASE StartMerge
  <2>1. /\ pc' = "merge" /\ it = Len(as_path) /\ it4 = Len(as4_path)
        /\ pathSegmentsComplete = << >>
        /\ UNCHANGED <<as_path, as4_path, it, it4, pathSegmentsComplete>>
    BY <1>2 DEF StartMerge, IInv, Progress
  <2>2. it - it4 = Lead /\ (it4 = 0 => it <= Lead) /\ Lead' = Lead
    BY <1>0, <2>1 DEF Lead
  <2>3. \A k \in it + 1 .. Len(as_path) : FALSE
    BY <1>0, <2>1
  <2> QED
    BY <1>0, <2>1, <2>2, <2>3 DEF IInv, TypeOK, Progress
<1>3. CASE MergeSegments
  <2>0. /\ pc = "merge" /\ pc' = "merge" /\ it > 0 /\ it4 > 0
        /\ it' = it - 1 /\ it4' = it4 - 1
        /\ UNCHANGED <<as_path, as4_path>>
        /\ PushFront(Merged(as_path[it], as4_path[it4]))
    BY <1>3 DEF MergeSegments
  <2>1. it - it4 = Lead
    BY <2>0 DEF IInv, Progress
  <2>2. it - Lead = it4 /\ Lead \in Int
    BY <1>0, <2>1 DEF Lead
  <2>3. Completed(it) = Merged(as_path[it], as4_path[it4])
    BY <1>0, <2>0, <2>2 DEF Completed
  <2>4. as_path[it] \in Segment /\ as4_path[it4] \in Segment
    BY <1>0, <2>0
  <2>5. Completed(it) \in Segment
    BY <2>3, <2>4, MergedSegment
  <2>6. /\ pathSegmentsComplete' \in Seq(Segment)
        /\ Len(pathSegmentsComplete') = Len(as_path') - it'
        /\ \A k \in it' + 1 .. Len(as_path') : pathSegmentsComplete'[k - it'] = Completed(k)'
    BY <2>0, <2>3, <2>5, FrontCompleted
  <2>7. Lead' = Lead /\ it' - it4' = Lead
    BY <1>0, <2>0, <2>1, <2>2 DEF Lead
  <2>8. it4' = 0 => it' <= Lead
    BY <1>0, <2>0, <2>2, <2>7
  <2> QED
    BY <1>0, <2>0, <2>6, <2>7, <2>8 DEF IInv, TypeOK, Progress
<1>4. CASE CopyRemaining
  <2>0. /\ pc = "merge" /\ pc' = "merge" /\ it > 0 /\ it4 = 0
        /\ it' = it - 1 /\ it4' = it4
        /\ UNCHANGED <<as_path, as4_path>>
        /\ PushFront(as_path[it])
    BY <1>4 DEF CopyRemaining
  <2>1. it <= Lead /\ Lead \in Int
    BY <1>0, <2>0 DEF IInv, Progress, Lead
  <2>2. Completed(it) = as_path[it]
    BY <1>0, <2>1 DEF Completed
  <2>3. Completed(it) \in Segment
    BY <1>0, <2>0, <2>2
  <2>4. /\ pathSegmentsComplete' \in Seq(Segment)
        /\ Len(pathSegmentsComplete') = Len(as_path') - it'
        /\ \A k \in it' + 1 .. Len(as_path') : pathSegmentsComplete'[k - it'] = Completed(k)'
    BY <2>0, <2>2, <2>3, FrontCompleted
  <2>5. it' <= Lead /\ Lead' = Lead
    BY <1>0, <2>0, <2>1 DEF Lead
  <2> QED
    BY <1>0, <2>0, <2>4, <2>5 DEF IInv, TypeOK, Progress
<1>5. CASE Finish
  <2>1. /\ pc = "merge" /\ it = 0 /\ pc' = "done"
        /\ UNCHANGED <<as_path, as4_path, it, it4, pathSegmentsComplete>>
    BY <1>5 DEF Finish
  <2>2. /\ Len(pathSegmentsComplete) = Len(as_path)
        /\ \A k \in 1 .. Len(as_path) : pathSegmentsComplete[k] = Completed(k)
    BY <1>0, <2>1 DEF IInv, Progress
  <2>3. \A k \in 1 .. Len(as_path) : Completed(k)' = Completed(k)
    BY <2>1 DEF Completed, Lead
  <2> QED
    BY <1>0, <2>1, <2>2, <2>3 DEF IInv, TypeOK, Progress
<1>6. CASE UNCHANGED vars
  BY <1>6 DEF vars, IInv, TypeOK, Progress, Completed, Lead
<1> QED
  BY <1>1, <1>2, <1>3, <1>4, <1>5, <1>6 DEF Next, Stop

LEMMA ProgressHolds == Spec => []IInv
BY InitProgress, NextProgress, PTL DEF Spec

-----------------------------------------------------------------------------
(* The theorems                                                            *)

\* Type correctness: both iterators stay within their lists.
THEOREM TypeCorrect == Spec => []TypeOK
<1>1. IInv => TypeOK
  BY DEF IInv
<1> QED
  BY <1>1, ProgressHolds, PTL

\* The completed path has AS_PATH's segments, types and lengths.
THEOREM SameShapeHolds == Spec => []SameShape
<1>1. IInv => SameShape
  <2> SUFFICES ASSUME IInv, pc = "done"
               PROVE  /\ Len(pathSegmentsComplete) = Len(as_path)
                      /\ \A k \in 1 .. Len(as_path) :
                           /\ pathSegmentsComplete[k].type = as_path[k].type
                           /\ Len(pathSegmentsComplete[k].value) = Len(as_path[k].value)
    BY DEF SameShape
  <2>0. /\ as_path \in Seq(Segment) /\ as4_path \in Seq(Segment)
        /\ Len(as_path) \in Nat /\ Len(as4_path) \in Nat
        /\ Len(pathSegmentsComplete) = Len(as_path)
        /\ \A k \in 1 .. Len(as_path) : pathSegmentsComplete[k] = Completed(k)
    BY DEF IInv, TypeOK, Progress
  <2>1. ASSUME NEW k \in 1 .. Len(as_path)
        PROVE  /\ Completed(k).type = as_path[k].type
               /\ Len(Completed(k).value) = Len(as_path[k].value)
    <3>1. CASE k - Lead >= 1
      <4>1. as_path[k] \in Segment /\ as4_path[k - Lead] \in Segment
        BY <2>0, <3>1 DEF Lead
      <4> QED
        BY <3>1, <4>1, MergedSegment DEF Completed
    <3>2. CASE ~(k - Lead >= 1)
      BY <3>2 DEF Completed
    <3> QED
      BY <3>1, <3>2
  <2> QED
    BY <2>0, <2>1
<1> QED
  BY <1>1, ProgressHolds, PTL

(***************************************************************************)
(* The numbers of AS4_PATH take the places of AS_PATH's last ones, segment *)
(* by segment from the back, and nothing else changes.                     *)
(***************************************************************************)
THEOREM TrueNumbersRestoredHolds == Spec => []TrueNumbersRestored
<1>1. IInv => TrueNumbersRestored
  <2> SUFFICES ASSUME IInv, pc = "done", NEW k \in 1 .. Len(as_path)
               PROVE  /\ k - Lead < 1 => pathSegmentsComplete[k].value = as_path[k].value
                      /\ /\ k - Lead >= 1
                         /\ Len(as4_path[k - Lead].value) <= Len(as_path[k].value)
                         => \A i \in 1 .. Len(as_path[k].value) :
                              pathSegmentsComplete[k].value[i] =
                                IF i <= Len(as_path[k].value) - Len(as4_path[k - Lead].value)
                                THEN as_path[k].value[i]
                                ELSE as4_path[k - Lead].value[i - (Len(as_path[k].value)
                                       - Len(as4_path[k - Lead].value))]
    BY DEF TrueNumbersRestored, Lead
  <2>0. /\ as_path \in Seq(Segment) /\ as4_path \in Seq(Segment)
        /\ Len(as_path) \in Nat /\ Len(as4_path) \in Nat /\ Lead \in Int
        /\ pathSegmentsComplete[k] = Completed(k)
    BY DEF IInv, TypeOK, Progress, Lead
  <2>1. CASE k - Lead < 1
    <3> HIDE DEF Lead
    <3>1. ~(k - Lead >= 1)
      BY <2>0, <2>1
    <3> QED
      BY <2>0, <3>1 DEF Completed
  <2>2. CASE k - Lead >= 1
    <3>1. as_path[k] \in Segment /\ as4_path[k - Lead] \in Segment
      BY <2>0, <2>2 DEF Lead
    <3>2. pathSegmentsComplete[k] = Merged(as_path[k], as4_path[k - Lead])
      BY <2>0, <2>2 DEF Completed
    <3>3. ~(k - Lead < 1)
      BY <2>0, <2>2
    <3> DEFINE own == as_path[k]
               own4 == as4_path[k - Lead]
    <3>4. Len(own4.value) <= Len(own.value) =>
            \A i \in 1 .. Len(own.value) :
              Merged(own, own4).value[i] =
                IF i <= Len(own.value) - Len(own4.value) THEN own.value[i]
                ELSE own4.value[i - (Len(own.value) - Len(own4.value))]
      <4> HIDE DEF own, own4
      <4>1. own \in Segment /\ own4 \in Segment
        BY <3>1 DEF own, own4
      <4> QED
        BY <4>1, MergedSegment
    <3> QED
      BY <3>2, <3>3, <3>4
  <2> QED
    BY <2>0, <2>1, <2>2
<1> QED
  BY <1>1, ProgressHolds, PTL

=============================================================================
