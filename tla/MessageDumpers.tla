---------------------------- MODULE MessageDumpers ----------------------------
(***************************************************************************)
(* What mrt2xml makes of a record, as lines (-B) or as XML.  Its dumpers   *)
(* look the attributes up by type and hold nothing between two records, so *)
(* they are functions of the record.                                       *)
(***************************************************************************)
EXTENDS XmlNodes, Tree, TLC

CONSTANT Invalid    \* the next hop of a FakeAttributeTypeMPReachNLRI, never assigned

(***************************************************************************)
(* Attribute values                                                        *)
(***************************************************************************)
OriginAscii(v) ==
  CASE v.origin = 0 -> "IGP" [] v.origin = 1 -> "EGP" [] OTHER -> "INCOMPLETE"

Confederation == {"AS_CONFED_SEQUENCE", "AS_CONFED_SET"}

\* Confederations are not shown, except as the property "complete".
SegmentAscii(s, showComplete) ==
  IF showComplete \/ s.type \notin Confederation THEN << <<s.type, s.numbers>> >> ELSE << >>

ASPathAscii(v, showComplete) ==
  FlattenSeq([i \in DOMAIN v.complete |-> SegmentAscii(v.complete[i], showComplete)])

\* dynamic_pointer_cast<AttributeTypeAggregator>, which AttributeTypeAS4Aggregator is not.
CastToAggregator(v) == IF v.class = "AttributeTypeAggregator" THEN <<v>> ELSE << >>

AggregatorAscii(v) == <<Signed(v.as), Text(v.ip, IPv4)[2]>>

CommunitiesAscii(v) == [i \in DOMAIN v.values |-> CommunityText(v.values[i])]

\* Where genAsciiMsg keeps the text of an attribute: cases 1 to 8.
KeptClasses ==
  {"AttributeTypeOrigin", "AttributeTypeASPath", "AttributeTypeNextHop",
   "AttributeTypeMultiExitDisc", "AttributeTypeLocalPref", "AttributeTypeAtomicAggregate",
   "AttributeTypeAggregator", "AttributeTypeCommunities"}

Kept ==
  [class \in KeptClasses |->
     CASE class = "AttributeTypeOrigin" -> "origin"
       [] class = "AttributeTypeASPath" -> "as_path"
       [] class = "AttributeTypeNextHop" -> "next_hop"
       [] class = "AttributeTypeMultiExitDisc" -> "med"
       [] class = "AttributeTypeLocalPref" -> "lpref"
       [] class = "AttributeTypeAtomicAggregate" -> "atomic_agg"
       [] class = "AttributeTypeAggregator" -> "agg"
       [] class = "AttributeTypeCommunities" -> "communities"]

GenAscii(v) ==
  CASE v.class = "AttributeTypeOrigin" -> OriginAscii(v)
    [] v.class = "AttributeTypeASPath" -> ASPathAscii(v, FALSE)
    [] v.class = "AttributeTypeNextHop" -> TextOfFamily(v.ip, v.afi)
    [] v.class \in {"AttributeTypeMultiExitDisc", "AttributeTypeLocalPref"} -> v.value
    [] v.class = "AttributeTypeAtomicAggregate" -> "AG"
    [] v.class = "AttributeTypeAggregator" -> AggregatorAscii(v)
    [] v.class = "AttributeTypeCommunities" -> CommunitiesAscii(v)

-----------------------------------------------------------------------------
(* Lines of an UPDATE                                                      *)

LastOfClass(class, values) ==
  LET places == {i \in DOMAIN values : values[i].class = class}
  IN  IF places = {} THEN << >> ELSE <<values[Max(places)]>>

\* The one MP_REACH_NLRI or MP_UNREACH_NLRI that is looked at, if there is one.
MPReachOf(update) == LastOfClass("AttributeTypeMPReachNLRI", update.pathAttributes)
MPUnreachOf(update) == LastOfClass("AttributeTypeMPUnreachNLRI", update.pathAttributes)

Defaults ==
  [as_path |-> NoText, origin |-> "", next_hop |-> NoText, med |-> 0, lpref |-> 0,
   atomic_agg |-> "NAG", agg |-> NoText, communities |-> NoText]

\* A bug: MP_REACH_NLRI does not override NEXT_HOP.
NextHopKept(texts, mpReach) == texts

NextHopOverridden(texts, mpReach) ==
  IF mpReach # << >> /\ mpReach[1].afi \in {IPv4, IPv6}
  THEN [texts EXCEPT !.next_hop = Text(mpReach[1].nextHop, mpReach[1].afi)]
  ELSE texts

Keeping(texts, v) ==
  IF v.class \in KeptClasses THEN [texts EXCEPT ![Kept[v.class]] = GenAscii(v)] ELSE texts

\* The last attribute of a type has the word: kept[i] is what the first i leave.
KeptTexts(values) ==
  LET kept[i \in 0 .. Len(values)] ==
        IF i = 0 THEN Defaults ELSE Keeping(kept[i - 1], values[i])
  IN  kept[Len(values)]

AttributeTexts(update) ==
  NextHopOverridden(KeptTexts(update.pathAttributes), MPReachOf(update))

RoutePrefixes(routes, afi) == [i \in DOMAIN routes |-> Text(routes[i].prefix, afi)]
MPPrefixes(values) == IF values = << >> THEN << >> ELSE RoutePrefixes(values[1].nlri, values[1].afi)

WithdrawnPrefixes(update) ==
  RoutePrefixes(update.withdrawnRoutes, IPv4) \o MPPrefixes(MPUnreachOf(update))

AnnouncedPrefixes(update) ==
  RoutePrefixes(update.nlriRoutes, IPv4) \o MPPrefixes(MPReachOf(update))

\* dumped is what BGPMessageDumper holds: the message, its peering and whether it is of a table.
Line(dumped, kind, prefix) ==
  [type |-> IF dumped.is_tabledump THEN "TABLE_DUMP" ELSE "BGP4MP", kind |-> kind,
   peer |-> TextOfFamily(dumped.peer.ip, dumped.afi), peer_as |-> Signed(dumped.peer.as),
   prefix |-> prefix]

\* The line of a route that is announced goes on with the attributes.
AnnouncedLine(line, texts) ==
  [field \in DOMAIN line \cup DOMAIN texts |->
     IF field \in DOMAIN line THEN line[field] ELSE texts[field]]

UpdateLines(dumped) ==
  LET out == WithdrawnPrefixes(dumped.bgp_msg)
      in == AnnouncedPrefixes(dumped.bgp_msg)
      kind == IF dumped.is_tabledump THEN "B" ELSE "A"
  IN  [i \in DOMAIN out |-> Line(dumped, "W", out[i])]
      \o [i \in DOMAIN in |-> AnnouncedLine(Line(dumped, kind, in[i]), AttributeTexts(dumped.bgp_msg))]

\* Only an UPDATE has lines.
MessageLines(dumped) == IF dumped.bgp_msg.class = "BGPUpdate" THEN UpdateLines(dumped) ELSE << >>

-----------------------------------------------------------------------------
(* The message of a record: TABLE_DUMP and RIB entries are made UPDATEs    *)

FakeBGPUpdate(attributes, announced) == BGPUpdate(attributes, << >>, announced)

FakeMPReach(prefix) == AttributeTypeMPReachNLRI(IPv6, 1, Invalid, <<NLRIReachable(prefix)>>)

Dumped(bgp_msg, peer, local, afi, is_tabledump) ==
  [bgp_msg |-> bgp_msg, peer |-> peer, local |-> local, afi |-> afi,
   is_tabledump |-> is_tabledump]

HasMPReach(record) == \E v \in ToSet(record.attributes) : v.class = "AttributeTypeMPReachNLRI"

TblDumpMessage(record) ==
  Dumped(IF record.subType = IPv4
         THEN FakeBGPUpdate(record.attributes, <<NLRIReachable(record.prefix)>>)
         ELSE FakeBGPUpdate(Append(record.attributes, FakeMPReach(record.prefix)), << >>),
         record.peer, record.peer, record.subType, TRUE)

\* The next hop alone, or the whole attribute: the record's family and prefix are put in.
InFamily(v, record) ==
  CASE v.class = "AttributeTypeMPReachNLRI" ->
         AttributeTypeMPReachNLRI(record.afi, record.safi, v.nextHop,
           IF v.nlri = << >> THEN <<NLRIReachable(record.prefix)>> ELSE v.nlri)
    [] v.class = "AttributeTypeMPUnreachNLRI" ->
         AttributeTypeMPUnreachNLRI(record.afi, record.safi,
           Append(v.nlri, NLRIUnReachable(record.prefix)))
    [] OTHER -> v

RibEntryMessage(record, entry) ==
  Dumped(FakeBGPUpdate([i \in DOMAIN entry.attributes |-> InFamily(entry.attributes[i], record)],
                       IF record.afi = IPv4 /\ record.safi = 1
                       THEN <<NLRIReachable(record.prefix)>> ELSE << >>),
         entry.peer, entry.peer, entry.peer.afi, TRUE)

Bgp4MPMessage(record) ==
  Dumped(record.payload, record.peer, record.local, record.peer.afi, FALSE)

\* The subtypes main dispatches; RIB_GENERIC is not one of them.
RibClasses ==
  {"MRTTblDumpV2RibIPv4Unicast", "MRTTblDumpV2RibIPv4Multicast",
   "MRTTblDumpV2RibIPv6Unicast", "MRTTblDumpV2RibIPv6Multicast"}
MessageClasses == {"MRTBgp4MPMessage", "MRTBgp4MPMessageAS4"}
StateChangeClasses == {"MRTBgp4MPStateChange", "MRTBgp4MPStateChangeAS4"}

Dumpable(record) ==
  \/ record.class \in RibClasses \cup MessageClasses \cup StateChangeClasses
  \/ record.class = "MRTTblDump" /\ record.subType \in {IPv4, IPv6}

DumpedMessages(record) ==
  CASE record.class = "MRTTblDump" -> <<TblDumpMessage(record)>>
    [] record.class \in RibClasses ->
         [i \in DOMAIN record.ribEntries |-> RibEntryMessage(record, record.ribEntries[i])]
    [] record.class \in MessageClasses -> <<Bgp4MPMessage(record)>>
    [] OTHER -> << >>

StateChangeLine(record) ==
  [type |-> "BGP4MP", kind |-> "STATE", peer |-> TextOfFamily(record.peer.ip, record.peer.afi),
   peer_as |-> record.peer.as, old |-> record.oldState, new |-> record.newState]

AsciiLines(record) ==
  IF record.class \in StateChangeClasses THEN <<StateChangeLine(record)>>
  ELSE FlattenSeq([i \in DOMAIN DumpedMessages(record) |-> MessageLines(DumpedMessages(record)[i])])

=============================================================================
