------------------------------- MODULE MCASPath -------------------------------
EXTENDS ASPath, SequencesExt

\* AS_TRANS and a 2-octet number on one side, two 4-octet numbers on the other.
MCASNs == {"AS_TRANS", "small", "big1", "big2"}
MCSegmentTypes == {"AS_SET", "AS_SEQUENCE"}

SegmentsOf(types, asns) ==
  {[type |-> type, length |-> Len(value), value |-> value] :
     type \in types, value \in BoundedSeq(asns, 2)}

\* Up to 2 segments of up to 2 numbers: every relation of the numbers of
\* segments and, within a pair, of their lengths occurs, empty ones included.
MCPaths == BoundedSeq(SegmentsOf(MCSegmentTypes, {"AS_TRANS", "small"}), 2)
MCPaths4 == BoundedSeq(SegmentsOf({"AS_SEQUENCE"}, {"big1", "big2"}), 3)

=============================================================================
