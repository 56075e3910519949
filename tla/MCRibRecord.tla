----------------------------- MODULE MCRibRecord -----------------------------
EXTENDS RibRecord

\* Attributes of 3, 4 and 6 octets.
MCAttributes ==
  {[type |-> "AS_PATH", extended |-> FALSE, len |-> 0],
   [type |-> "NEW_AS_PATH", extended |-> TRUE, len |-> 0],
   [type |-> "ANY", extended |-> FALSE, len |-> 3]}

\* An empty prefix, one of an octet and one longer than an address.
MCPrefixLens == {0, 8, 17}

\* Shorter than in the program, and different for each family.
MCDumpAddressSize == [f \in {"IPv4", "IPv6"} |-> IF f = "IPv4" THEN 1 ELSE 3]

=============================================================================
