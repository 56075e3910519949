------------------------------ MODULE MCPrinting ------------------------------
EXTENDS XmlAgreement

\* AS numbers on both sides of the middle.
ASPath(segments) == AttributeTypeASPath(segments, << >>)
Segment(type, numbers) == AttributeTypeASPathSegment(type, Len(numbers), numbers)
ASPathValue == ASPath(<<Segment("AS_SEQUENCE", <<1, 2>>)>>)
ASPathConfed == ASPath(<<Segment("AS_CONFED_SET", <<3>>), Segment("AS_SET", <<1>>)>>)
AS4PathValue == AttributeTypeAS4Path(<<AttributeTypeAS4PathSegment("AS_SEQUENCE", 2, <<1, 7>>)>>)

Reach6 == AttributeTypeMPReachNLRI(IPv6, 1, "n6", <<NLRIReachable("x"), NLRIReachable("y")>>)
Reach4 == AttributeTypeMPReachNLRI(IPv4, 2, "n4", <<NLRIReachable("x")>>)
ReachNone == AttributeTypeMPReachNLRI(IPv6, 1, "n6", << >>)
NextHopOnly == AttributeTypeMPReachNLRI(0, 0, "n0", << >>)
ReachOther == AttributeTypeMPReachNLRI(3, 1, "n3", <<NLRIReachable("x")>>)
Unreach6 == AttributeTypeMPUnreachNLRI(IPv6, 1, <<NLRIUnReachable("x")>>)

NextHop(afi) == AttributeTypeNextHop(afi, "n1")
Med == AttributeTypeMultiExitDisc(5)
Aggregator == AttributeTypeAggregator(2, "a")
AS4Aggregator == AttributeTypeAS4Aggregator(7, "b")
Communities ==
  AttributeTypeCommunities(<<NoExport, [as |-> 65535, info |-> 1], [as |-> 2, info |-> 65281]>>)
Octets == <<"octet">>

\* One of each class, and the values that are treated apart.
Values ==
  {AttributeTypeOrigin(0), AttributeTypeOrigin(1), AttributeTypeOrigin(5),
   ASPathValue, ASPathConfed, AS4PathValue, NextHop(IPv4), NextHop(IPv6), Med,
   AttributeTypeLocalPref(100), AttributeTypeAtomicAggregate, Aggregator, AS4Aggregator,
   Communities, Reach6, Reach4, ReachOther, ReachNone, NextHopOnly, Unreach6,
   AttributeTypeOriginatorID("o"), AttributeTypeClusterList(<<"c", "d">>),
   AttributeTypeExtCommunities(Octets), AttributeType(Octets)}

\* genPathSegmentsComplete with AS4PathValue: the last segment is made anew, without a length,
\* and only in ASPathValue is there a number to restore.
CompleteWith(v) ==
  LET n == Len(v.segments) IN
  [v.segments EXCEPT ![n].length = 0,
     ![n].numbers = IF v = ASPathValue THEN AS4PathValue.segments[1].numbers ELSE @]

\* BGPUpdate and processAttributes complete the first AS_PATH and the first AGGREGATOR, of
\* those of two octets per number; a second one stays as its constructor left it.
First(values, i) == \A j \in 1 .. i - 1 : values[j].class # values[i].class
FirstOf(values, class, default) ==
  LET found == SelectSeq(values, LAMBDA v : v.class = class) IN IF found = << >> THEN default ELSE found[1]

Completed(values) ==
  [i \in DOMAIN values |->
     CASE values[i].class = "AttributeTypeASPath" ->
            [values[i] EXCEPT !.complete =
               CASE ~First(values, i) -> << >>
                 [] First(values, i) /\ AS4PathValue \in ToSet(values) -> CompleteWith(values[i])
                 [] OTHER -> values[i].segments]
       [] values[i].class = "AttributeTypeAggregator" ->
            [values[i] EXCEPT !.as = IF First(values, i)
                                     THEN FirstOf(values, "AttributeTypeAS4Aggregator", values[i]).as
                                     ELSE 0]
       [] OTHER -> values[i]]

Lists(S, n) == {Completed(values) : values \in BoundedSeq(S, n)}

\* Lists of three, where one has attributes on both sides of it.
Longer ==
  {Completed(<<v, Reach6, w>>) :
     v \in {Med, NextHop(IPv4), Unreach6},
     w \in {NextHop(IPv6), AttributeTypeOrigin(1), NextHopOnly}}

Updates ==
  {BGPUpdate(values, << >>, <<NLRIReachable("p"), NLRIReachable("q")>>) :
     values \in Lists(Values, 2) \cup Longer}
    \cup {BGPUpdate(values, <<NLRIUnReachable("p"), NLRIUnReachable("r")>>, nlri) :
            values \in Lists({Reach6, Unreach6, Med}, 2), nlri \in {<< >>, <<NLRIReachable("p")>>}}

Messages4MP == Updates \cup
  {BGPOpen(<<OptionalParameter, OptionalParameterCapabilities>>, Octets),
   BGPNotification(Octets), BGPKeepAlive(Octets), BGPRouteRefresh(Octets), BGPCommonHeader(Octets)}

U == Peer("u", 2, IPv4)
Local == Peer("l", 1, IPv4)

\* An unsupported family is logged and goes on without an address.
OfNoFamily == Peer("none", 2, 3)

Records4MP ==
  {MRTBgp4MPMessage(U, Local, m) : m \in Messages4MP} \cup
  {MRTBgp4MPMessageAS4(Peer("v", 7, IPv6), Local, m) :
     m \in {BGPUpdate(<<Reach6>>, << >>, << >>), BGPUpdate(<<Med>>, << >>, <<NLRIReachable("p")>>)}}
  \cup {MRTBgp4MPStateChange(U, Local, 5, 6),
        MRTBgp4MPStateChangeAS4(Peer("u", 7, IPv6), Local, 5, 6)}
  \cup {MRTBgp4MPStateChange(OfNoFamily, Local, 5, 6),
        MRTBgp4MPMessage(OfNoFamily, Local, BGPUpdate(<<Med>>, << >>, <<NLRIReachable("p")>>))}

RecordsTblDump ==
  {MRTTblDump(afi, Peer("u", 2, afi), "p", values) :
     afi \in {IPv4, IPv6},
     values \in Lists({ASPathValue, NextHop(IPv4), Reach6, NextHopOnly, Unreach6}, 2)}

Entry(ip, values) == TblDumpV2RibEntry(Peer(ip, 2, IPv4), values)

Entries ==
  {<<Entry("u", v), Entry("v", w)>> :
     v, w \in Lists({ASPathValue, Med, NextHopOnly, Reach6, Unreach6}, 1)
              \cup {<<NextHopOnly, AttributeTypeOrigin(1)>>}}
  \cup {<<Entry("u", v)>> :
          v \in Lists({NextHopOnly, Reach6, Unreach6, AS4Aggregator, Aggregator}, 2)}

OneEntry == <<Entry("u", <<NextHopOnly>>)>>

RecordsRib ==
  {MRTTblDumpV2RibIPv4Unicast("p", es) : es \in Entries} \cup
  {MRTTblDumpV2RibIPv6Unicast("p", es) : es \in Entries} \cup
  {MRTTblDumpV2RibIPv4Multicast("p", OneEntry), MRTTblDumpV2RibIPv6Multicast("p", OneEntry),
   MRTTblDumpV2RibGeneric(IPv6, 1, "p", OneEntry)}

MCMessages ==
  Records4MP \cup RecordsTblDump \cup RecordsRib \cup
  {MRTTblDumpV2PeerIndexTbl, MRTCommonHeader}

\* UPDATEs of one route and up to two aggregators.
MCAggregators ==
  {MRTBgp4MPMessage(U, Local, BGPUpdate(values, << >>, nlri)) :
     values \in Lists({Aggregator, AS4Aggregator, Med, AttributeTypeOrigin(0)}, 2),
     nlri \in {<< >>, <<NLRIReachable("p")>>}}

\* One that is printed as neither family and two that are.
MCUninitialised == {0, IPv6}

=============================================================================
