--------------------------- MODULE MCRecordPayload ----------------------------
EXTENDS RecordPayload

\* Records cut in every part, and room for the longest message or three peers.
MCRecordLengths == {0, 5, 6, 7, 8, 11, 16, 19, 20, 30, 31, 34, 40, 46} \cup 52 .. 98

\* Messages shorter than a header, of a header alone, and of up to 20 octets more.
MCMessageLengths == {0, 18} \cup 19 .. 39

\* The longest do not fit the stream of the shortest OPEN, which goes 19 octets beyond it.
MCOptParmLens == {0, 2, 4, 13}
MCParameterLens == {0, 2, 4}

MCViewNameLengths == {0, 3, 60}
MCPeerCounts == 0 .. 3

=============================================================================
