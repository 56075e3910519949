------------------------------ MODULE XmlDumpers ------------------------------
(***************************************************************************)
(* The genXml() of each of mrt2xml's dumpers, one operator each.  The time *)
(* and the elements that are the same in every message are left out.       *)
(***************************************************************************)
EXTENDS MessageDumpers

PrefixNodes(routes, afi) ==
  [i \in DOMAIN routes |-> NodeString("PREFIX", Text(routes[i].prefix, afi))]

OriginXml(v) == PropInt(NodeString("ORIGIN", OriginAscii(v)), "value", v.origin)

TypeStr ==
     "AttributeTypeOrigin"          :> "ORIGIN"
  @@ "AttributeTypeASPath"          :> "AS_PATH"
  @@ "AttributeTypeNextHop"         :> "NEXT_HOP"
  @@ "AttributeTypeMultiExitDisc"   :> "MULTI_EXIT_DISC"
  @@ "AttributeTypeLocalPref"       :> "LOCAL_PREF"
  @@ "AttributeTypeAtomicAggregate" :> "ATOMIC_AGGREGATE"
  @@ "AttributeTypeAggregator"      :> "AGGREGATOR"
  @@ "AttributeTypeCommunities"     :> "COMMUNITIES"
  @@ "AttributeTypeOriginatorID"    :> "ORIGINATOR_ID"
  @@ "AttributeTypeClusterList"     :> "CLUSTER_LIST"
  @@ "AttributeTypeExtCommunities"  :> "EXT_COMMUNITIES"
  @@ "AttributeTypeMPReachNLRI"     :> "MP_REACH_NLRI"
  @@ "AttributeTypeMPUnreachNLRI"   :> "MP_UNREACH_NLRI"
  @@ "AttributeTypeAS4Path"         :> "AS4_PATH"
  @@ "AttributeTypeAS4Aggregator"   :> "AS4_AGGREGATOR"
  @@ "AttributeType"                :> "OTHER"

SegmentXml(segment) ==
  AddChildren(PropInt(PropString(Element("AS_SEG"), "type", segment.type),
                      "length", segment.length),
              [i \in DOMAIN segment.numbers |-> NodeInt("AS", segment.numbers[i])])

ASPathXml(v) ==
  LET segments == IF v.class = "AttributeTypeASPath" THEN v.complete ELSE v.segments
      node == AddChildren(Element(TypeStr[v.class]),
                          [i \in DOMAIN segments |-> SegmentXml(segments[i])])
  IN  IF v.class = "AttributeTypeASPath"
      THEN PropString(node, "complete", ASPathAscii(v, TRUE)) ELSE node

\* The address is taken from the attribute as an AttributeTypeAggregator, whichever it is.
AggregatorXml(v) ==
  ChildString(ChildInt(Element(TypeStr[v.class]), "AS", v.as), "ADDR",
              Text(CastToAggregator(v)[1].ip, IPv4))

AllOnes == 65535

\* NO_EXPORT and its two neighbours have names; the others of two ASes are reserved.
WellKnown ==
  [info \in 65281 .. 65283 |->
     CASE info = 65281 -> "NO_EXPORT"
       [] info = 65282 -> "NO_ADVERTISE"
       [] info = 65283 -> "NO_EXPORT_SUBCONFED"]

CommunityXml(c) ==
  IF c.as = AllOnes /\ c.info \in DOMAIN WellKnown
  THEN Element(WellKnown[c.info])
  ELSE ChildInt(ChildInt(Element(IF c.as \in {0, AllOnes} THEN "RESERVED_COMMUNITY" ELSE "COMMUNITY"),
                         "AS", c.as),
                "VALUE", c.info)

CommunitiesXml(v) ==
  AddChildren(Element("COMMUNITIES"), [i \in DOMAIN v.values |-> CommunityXml(v.values[i])])

ClusterListXml(v) ==
  AddChildren(Element("CLUSTER_LIST"),
              [i \in DOMAIN v.ids |-> NodeString("ID", Text(v.ids[i], IPv4))])

FamilyXml(v) ==
  AddChild(AddChild(Element(TypeStr[v.class]), NodeAFI("AFI", v.afi)), NodeSAFI("SAFI", v.safi))

MPReachXml(v) ==
  AddChildren(FamilyXml(v),
    <<NodeString("NEXT_HOP", TextOfFamily(v.nextHop, v.afi)),
      Counted("NLRI", PrefixNodes(v.nlri, v.afi))>>)

MPUnreachXml(v) == AddChild(FamilyXml(v), Counted("WITHDRAWN", PrefixNodes(v.nlri, v.afi)))

ValueXml(v) ==
  CASE v.class = "AttributeTypeOrigin" -> OriginXml(v)
    [] v.class \in {"AttributeTypeASPath", "AttributeTypeAS4Path"} -> ASPathXml(v)
    [] v.class = "AttributeTypeNextHop" -> NodeString("NEXT_HOP", TextOfFamily(v.ip, v.afi))
    [] v.class \in {"AttributeTypeMultiExitDisc", "AttributeTypeLocalPref"} ->
         NodeInt(TypeStr[v.class], v.value)
    [] v.class = "AttributeTypeAtomicAggregate" -> Element("ATOMIC_AGGREGATE")
    [] v.class \in {"AttributeTypeAggregator", "AttributeTypeAS4Aggregator"} -> AggregatorXml(v)
    [] v.class = "AttributeTypeCommunities" -> CommunitiesXml(v)
    [] v.class = "AttributeTypeOriginatorID" -> NodeString("ORIGINATOR_ID", Text(v.ip, IPv4))
    [] v.class = "AttributeTypeClusterList" -> ClusterListXml(v)
    [] v.class = "AttributeTypeMPReachNLRI" -> MPReachXml(v)
    [] v.class = "AttributeTypeMPUnreachNLRI" -> MPUnreachXml(v)
    [] OTHER -> AddChild(Element(TypeStr[v.class]), NodeOctets("OCTETS", v.data, Len(v.data)))

\* The attribute's flags and length are left out.
AttributeXml(v) ==
  AddChildren(Element("ATTRIBUTE"), <<NodeString("TYPE", TypeStr[v.class]), ValueXml(v)>>)

\* A bug: the routes withdrawn are dumped as those announced.
WithdrawnXmlOfNlri(update) == Counted("WITHDRAWN", PrefixNodes(update.nlriRoutes, IPv4))

WithdrawnXml(update) == Counted("WITHDRAWN", PrefixNodes(update.withdrawnRoutes, IPv4))
NlriXml(update) == Counted("NLRI", PrefixNodes(update.nlriRoutes, IPv4))

PathAttributesXml(update) ==
  Counted("PATH_ATTRIBUTES",
          [i \in DOMAIN update.pathAttributes |-> AttributeXml(update.pathAttributes[i])])

UpdateXml(update) ==
  AddChildren(Element("UPDATE"),
              <<WithdrawnXml(update), PathAttributesXml(update), NlriXml(update)>>)

\* BGPDumper's own: the octets after the header.
OtherMessageXml(bgp_msg) ==
  AddChild(Element(bgp_msg.class), NodeOctets("OCTETS", bgp_msg.data, Len(bgp_msg.data)))

AsciiMessageXml(bgp_msg) ==
  AddChildren(Element("ASCII_MSG"),
    <<NodeString("TYPE", bgp_msg.class),
      IF bgp_msg.class = "BGPUpdate" THEN UpdateXml(bgp_msg) ELSE OtherMessageXml(bgp_msg)>>)

PeeringXml(peer, local, afi) ==
  AddChildren(Element("PEERING"),
    <<PropAFI(NodeString("SRC_ADDR", TextOfFamily(local.ip, afi)), afi), NodeInt("SRC_AS", local.as),
      PropAFI(NodeString("DST_ADDR", TextOfFamily(peer.ip, afi)), afi), NodeInt("DST_AS", peer.as)>>)

MessageXml(dumped) ==
  AddChildren(Element("BGP_MESSAGE"),
    <<PeeringXml(dumped.peer, dumped.local, dumped.afi), AsciiMessageXml(dumped.bgp_msg)>>)

StateChangeXml(record) ==
  LET session ==
        AddChild(ChildString(Element("SESSION"), "ADDR", TextOfFamily(record.peer.ip, record.peer.afi)),
                 ChildInt(ChildInt(Element("STATE_CHANGE"), "OLD_STATE", record.oldState),
                          "NEW_STATE", record.newState))
  IN  AddChildren(Element("BGP_MESSAGE"),
        <<PeeringXml(record.peer, record.local, record.peer.afi),
          AddChild(Element("STATUS_MSG"), AddChild(Element("SESSION_STATUS"), session))>>)

\* The BGP_MESSAGE elements printed for a record.
RecordXml(record) ==
  IF record.class \in StateChangeClasses THEN <<StateChangeXml(record)>>
  ELSE [i \in DOMAIN DumpedMessages(record) |-> MessageXml(DumpedMessages(record)[i])]

=============================================================================
