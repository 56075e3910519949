-------------------------------- MODULE ASPath --------------------------------
(***************************************************************************)
(* AttributeTypeASPath::genPathSegmentsComplete: how an AS_PATH of 2-octet *)
(* AS numbers is completed with the AS4_PATH of the same message.          *)
(*                                                                         *)
(* A path is a sequence of segments, a segment a type, a sequence of AS    *)
(* numbers and, beside it, how many they are (pathSegmentLength).          *)
(*                                                                         *)
(* Speakers that know 2-octet numbers only put AS_TRANS for the others and *)
(* add themselves at the front of AS_PATH alone; AS4_PATH holds the true   *)
(* numbers of the far end.  So the loop walks both lists of segments from  *)
(* the back and, within a pair, replaces the last numbers.                 *)
(***************************************************************************)
EXTENDS Integers, Sequences

CONSTANTS
  SegmentTypes,     \* AS_SET, AS_SEQUENCE and their confederation variants
  ASNs,             \* AS numbers
  Paths,            \* the AS_PATHs considered
  Paths4            \* the AS4_PATHs considered; the empty one if there is none

Segment == [type : SegmentTypes, length : Nat, value : Seq(ASNs)]

\* The parsers read as many AS numbers as the length says.
ReadSegment == {seg \in Segment : seg.length = Len(seg.value)}

ASSUME PathsAssumption ==
  Paths \subseteq Seq(ReadSegment) /\ Paths4 \subseteq Seq(ReadSegment)

VARIABLES
  as_path, as4_path,
  it, it4,                  \* segments of each not passed by the reverse iterators
  pathSegmentsComplete,
  pc

vars == <<as_path, as4_path, it, it4, pathSegmentsComplete, pc>>

Init ==
  /\ as_path \in Paths
  /\ as4_path \in Paths4
  /\ it = Len(as_path)
  /\ it4 = Len(as4_path)
  /\ pathSegmentsComplete = << >>
  /\ pc = "start"

\* The overload without AS4_PATH, and an AS4_PATH without segments.
TakeAsIs ==
  /\ pc = "start"
  /\ as4_path = << >>
  /\ pathSegmentsComplete' = as_path
  /\ pc' = "done"
  /\ UNCHANGED <<as_path, as4_path, it, it4>>

\* An AS_PATH that counts fewer AS numbers is logged and merged all the same.
StartMerge ==
  /\ pc = "start"
  /\ as4_path # << >>
  /\ pc' = "merge"
  /\ UNCHANGED <<as_path, as4_path, it, it4, pathSegmentsComplete>>

\* A bug: the numbers replaced are the first ones.
MergedFromFront(seg, seg4) ==
  [type |-> seg.type,
   length |-> 0,
   value |-> [idx \in 1 .. Len(seg.value) |->
                IF idx <= Len(seg4.value) THEN seg4.value[idx] ELSE seg.value[idx]]]

(***************************************************************************)
(* The inner loop: type and number of AS numbers are those of AS_PATH's    *)
(* segment, the last of them those of AS4_PATH's.  If that one is the      *)
(* longer, its FIRST numbers are taken.  The constructor sets              *)
(* pathSegmentLength to 0, and add() leaves it there.                      *)
(***************************************************************************)
Merged(seg, seg4) ==
  LET from_as_seg == Len(seg.value) - Len(seg4.value) IN
  [type |-> seg.type,
   length |-> 0,
   value |-> [idx \in 1 .. Len(seg.value) |->
                IF idx <= from_as_seg THEN seg.value[idx]
                ELSE IF from_as_seg > 0 THEN seg4.value[idx - from_as_seg]
                ELSE seg4.value[idx]]]

PushFront(seg) == pathSegmentsComplete' = <<seg>> \o pathSegmentsComplete

MergeSegments ==
  /\ pc = "merge"
  /\ it > 0
  /\ it4 > 0
  /\ PushFront(Merged(as_path[it], as4_path[it4]))
  /\ it' = it - 1
  /\ it4' = it4 - 1
  /\ UNCHANGED <<as_path, as4_path, pc>>

\* A bug: the numbers of the speakers in front of AS4_PATH are dropped.
DropRemaining ==
  /\ pc = "merge"
  /\ it > 0
  /\ it4 = 0
  /\ it' = it - 1
  /\ UNCHANGED <<as_path, as4_path, it4, pathSegmentsComplete, pc>>

\* A bug: the second loop advances both iterators, as the first one does.
CopyRemainingAdvanceBoth ==
  /\ pc = "merge"
  /\ it > 0
  /\ it4 <= 0
  /\ PushFront(as_path[it])
  /\ it' = it - 1
  /\ it4' = it4 - 1
  /\ UNCHANGED <<as_path, as4_path, pc>>

CopyRemaining ==
  /\ pc = "merge"
  /\ it > 0
  /\ it4 = 0
  /\ PushFront(as_path[it])
  /\ it' = it - 1
  /\ UNCHANGED <<as_path, as4_path, it4, pc>>

\* A bug: the end waits for both lists, and AS4_PATH may be the longer.
FinishBoth ==
  /\ pc = "merge"
  /\ it = 0
  /\ it4 = 0
  /\ pc' = "done"
  /\ UNCHANGED <<as_path, as4_path, it, it4, pathSegmentsComplete>>

\* Segments of AS4_PATH that are left over are an inconsistency nothing is done about.
Finish ==
  /\ pc = "merge"
  /\ it = 0
  /\ pc' = "done"
  /\ UNCHANGED <<as_path, as4_path, it, it4, pathSegmentsComplete>>

Stop == pc = "done" /\ UNCHANGED vars

Next ==
  \/ TakeAsIs
  \/ StartMerge
  \/ MergeSegments
  \/ CopyRemaining
  \/ Finish
  \/ Stop

\* A call runs to its end.
Spec == Init /\ [][Next]_vars /\ WF_vars(Next)

-----------------------------------------------------------------------------
(* Properties                                                              *)

\* The variables hold values of their types.
TypeOK ==
  /\ as_path \in Seq(Segment)
  /\ as4_path \in Seq(Segment)
  /\ it \in 0 .. Len(as_path)
  /\ it4 \in 0 .. Len(as4_path)
  /\ pathSegmentsComplete \in Seq(Segment)
  /\ pc \in {"start", "merge", "done"}

(***************************************************************************)
(* Completion never changes how many hops a path has or how they are       *)
(* grouped: segment for segment, the type and the number of AS numbers are *)
(* those of AS_PATH, whatever AS4_PATH the message brings.                 *)
(***************************************************************************)
SameShape ==
  pc = "done" =>
    /\ Len(pathSegmentsComplete) = Len(as_path)
    /\ \A k \in 1 .. Len(as_path) :
         /\ pathSegmentsComplete[k].type = as_path[k].type
         /\ Len(pathSegmentsComplete[k].value) = Len(as_path[k].value)

(***************************************************************************)
(* Wherever the k-th segments from the back are comparable, the completed  *)
(* one ends with all of AS4_PATH's numbers and begins with those AS_PATH   *)
(* has before them; the segments in front of AS4_PATH stay as they are.    *)
(***************************************************************************)
TrueNumbersRestored ==
  pc = "done" =>
    \A k \in 1 .. Len(as_path) :
      LET k4 == k - (Len(as_path) - Len(as4_path))
          own == as_path[k].value
          result == pathSegmentsComplete[k].value
      IN  /\ k4 < 1 => result = own
          /\ k4 >= 1 /\ Len(as4_path[k4].value) <= Len(own) =>
               LET kept == Len(own) - Len(as4_path[k4].value) IN
               \A i \in 1 .. Len(own) :
                 result[i] = IF i <= kept THEN own[i] ELSE as4_path[k4].value[i - kept]

\* The two loops end, however the lengths of the lists relate.
Completes == <>(pc = "done")

(***************************************************************************)
(* "if there is an inconsistency, we do not process this update": segments *)
(* of AS4_PATH that have no counterpart leave AS_PATH uncompleted.         *)
(***************************************************************************)
InconsistentNotProcessed ==
  pc = "done" /\ Len(as4_path) > Len(as_path) =>
    pathSegmentsComplete \in {<< >>, as_path}

(***************************************************************************)
(* pathSegmentLength, "Number of path segments (not octets!)", is the      *)
(* number of AS numbers the segment holds: it is what the XML output gives *)
(* as the length of the segment.                                           *)
(***************************************************************************)
LengthsTold ==
  pc = "done" => \A k \in DOMAIN pathSegmentsComplete :
                   pathSegmentsComplete[k].length = Len(pathSegmentsComplete[k].value)

=============================================================================
