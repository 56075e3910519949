------------------------------- MODULE MCFiles -------------------------------
(***************************************************************************)
(* The record layouts of the model-checking runs: every sequence of up to  *)
(* n records drawn from a set of shapes (a shape is a record without its   *)
(* offset), laid out without gaps.                                         *)
(***************************************************************************)
EXTENDS Naturals, Sequences, SequencesExt

MCHeaderLen == 2

Shape(kind, len, sound, family, peers, entries) ==
  [kind |-> kind, len |-> len, sound |-> sound, family |-> family,
   peers |-> peers, entries |-> entries]

Table(peers) == Shape("PEER_INDEX_TABLE", 1, TRUE, "UNKNOWN", peers, << >>)
BadTable     == Shape("PEER_INDEX_TABLE", 1, FALSE, "UNKNOWN", 2, << >>)
Rib(family, sound, entries) == Shape("RIB", 1, sound, family, 0, entries)

Place(shapes) ==
  LET size(s) == MCHeaderLen + s.len
      start[i \in 1 .. Len(shapes)] ==
        IF i = 1 THEN 0 ELSE start[i - 1] + size(shapes[i - 1])
  IN  [i \in 1 .. Len(shapes) |->
        [kind |-> shapes[i].kind, at |-> start[i], len |-> shapes[i].len,
         sound |-> shapes[i].sound, family |-> shapes[i].family,
         peers |-> shapes[i].peers, entries |-> shapes[i].entries]]

Placed(shapes, n) == {Place(s) : s \in BoundedSeq(shapes, n)}

=============================================================================
