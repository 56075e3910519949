----------------------------- MODULE MCBGPUpdate -----------------------------
EXTENDS BGPUpdate

\* Prefixes of 0 to 2 octets, the longest that is let through and one that is not.
MCPrefixLens == {0, 1, 8, 9, 24, 25}

\* Attributes of 3, 4, 5 and 9 octets, extended lengths among them.
MCAttributes ==
  {[type |-> "AS_PATH", extended |-> FALSE, len |-> 0],
   [type |-> "NEW_AS_PATH", extended |-> TRUE, len |-> 0],
   [type |-> "AGGREGATOR", extended |-> FALSE, len |-> 2],
   [type |-> "NEW_AGGREGATOR", extended |-> TRUE, len |-> 5]}

=============================================================================
