----------------------------- MODULE MCBgpparser2 -----------------------------
EXTENDS Bgpparser2, MCFiles

\* Tables of one and two peers and a bad one; RIBs whose indices are inside, at
\* and beyond those tables; the other kinds, sound and not; an empty payload.
MCShapes ==
  {Table(1), Table(2), BadTable,
   Rib("IPv4", TRUE, <<0>>), Rib("IPv6", TRUE, <<0, 1>>), Rib("IPv4", TRUE, <<2>>),
   Rib("IPv4", FALSE, <<0>>),
   Shape("RIB_GENERIC", 1, TRUE, "IPv6", 0, <<1, 0>>),
   Shape("BGP4MP", 1, TRUE, "IPv4", 0, << >>),
   Shape("BGP4MP", 0, FALSE, "IPv6", 0, << >>),
   Shape("TABLE_DUMP", 2, TRUE, "IPv6", 0, << >>),
   Shape("OTHER", 1, TRUE, "UNKNOWN", 0, << >>)}

\* Peer indices inside, just past and far beyond a table.
MCIndexShapes ==
  {Table(1), Rib("IPv4", TRUE, <<0>>), Rib("IPv4", TRUE, <<1>>), Rib("IPv4", TRUE, <<2>>)}

MCFilesIndex == Placed(MCIndexShapes, 3)

MCFiles3 == Placed(MCShapes, 3)

=============================================================================
