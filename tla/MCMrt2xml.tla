------------------------------ MODULE MCMrt2xml ------------------------------
EXTENDS Mrt2xml, MCFiles

\* Fewer shapes than MCBgpparser2 and longer files.  (BGP4MP is dumped as
\* TABLE_DUMP is, but for the crash of the latter on IPv6.)
MCShapes ==
  {Table(1), Table(2), BadTable,
   Rib("IPv4", TRUE, <<0>>), Rib("IPv4", TRUE, <<2>>),
   Shape("RIB_GENERIC", 1, TRUE, "IPv6", 0, <<0>>),
   Shape("TABLE_DUMP", 1, TRUE, "IPv6", 0, << >>)}

MCFiles4 == Placed(MCShapes, 4)

=============================================================================
