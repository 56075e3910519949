--------------------------- MODULE MCAttributeValue ---------------------------
EXTENDS AttributeValue

\* An MP_REACH_NLRI with the longest next hop and a route or two.
MCLengths == 0 .. 48

\* The octet a full encoding of an IPv4 or IPv6 family has, next hops that fit
\* in one address, in both and in neither, and one no next hop has here.
MCFirstOctets == {0, 4, 16, 32, 40, 64}

\* Those that are read, none, and one that is not.
MCNextHopLengths == {0, 4, 5, 16, 32}

\* Routes of 1, 2, 5 and 17 octets, and one longer than an address.
MCPrefixLens == {0, 8, 25, 128, 129}

MCSegmentLens == {0, 1, 3}

=============================================================================
