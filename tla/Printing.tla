------------------------------- MODULE Printing -------------------------------
(***************************************************************************)
(* A record on its way out: a program of the library's takes it, visits or *)
(* dumps it, and is done.  bgpparser2 and mrt2xml print the same records,  *)
(* by unrelated code; a client's visitor that overrides nothing is run on  *)
(* them too.                                                               *)
(***************************************************************************)
EXTENDS AsciiBGPVisitor, XmlDumpers

CONSTANT Messages      \* the records, as the library returns them

-----------------------------------------------------------------------------
(* The members of an object, as its class declares them by their types and *)
(* its constructor leaves them.  An object is visited as its own class or  *)
(* as the one it is copied into.                                           *)

IsList(s) == s \in Seq(ToSet(s))

AreRoutes(class, nodes) == IsList(nodes) /\ \A r \in ToSet(nodes) : r.class = class

MPClasses == {"AttributeTypeMPReachNLRI", "AttributeTypeMPUnreachNLRI"}
PathClasses == {"AttributeTypeASPath", "AttributeTypeAS4Path"}

AreSegments(nodes) == IsList(nodes) /\ \A s \in ToSet(nodes) : s.class \in SegmentClasses

IsValue(class, v) ==
  /\ class \in AttributeValues
  /\ class = "AttributeTypeMPReachNLRI" => AreRoutes("NLRIReachable", v.nlri)
  /\ class = "AttributeTypeMPUnreachNLRI" => AreRoutes("NLRIUnReachable", v.nlri)
  /\ class \in PathClasses => AreSegments(v.segments)
  /\ class = "AttributeTypeAS4PathSegment" => v.class = class
  /\ class = "AttributeTypeASPath" => AreSegments(v.complete)
  /\ class = "AttributeTypeCommunities" => IsList(v.values)
  /\ class = "AttributeTypeClusterList" => IsList(v.ids)
  /\ class = "AttributeTypeNextHop" => v.afi \in {IPv4, IPv6}

\* A segment is visited as a value is, but is none.
AreValues(values) ==
  /\ IsList(values)
  /\ \A v \in ToSet(values) : IsValue(v.class, v) /\ v.class \notin SegmentClasses

IsMessage(class, m) ==
  /\ class \in BGPMessages \ {"BGPAttribute"}
  /\ class = "BGPOpen" =>
       IsList(m.optParams) /\ \A p \in ToSet(m.optParams) : p.class \in ParameterClasses
  /\ class = "BGPUpdate" =>
       /\ AreValues(m.pathAttributes)
       /\ AreRoutes("NLRIUnReachable", m.withdrawnRoutes)
       /\ AreRoutes("NLRIReachable", m.nlriRoutes)

IsRecord(class, r) ==
  /\ class \in Records
  /\ class \in MessageClasses =>
       IsMessage(r.payload.class, r.payload) /\ r.peer.as \in 0 .. ASModulus - 1
  /\ class \in {"MRTTblDump", "TblDumpV2RibEntry"} => AreValues(r.attributes)
  /\ class \in RibRecords \cup {"MRTTblDumpV2RibHeader"} =>
       /\ IsList(r.ribEntries)
       /\ \A e \in ToSet(r.ribEntries) : e.class = "TblDumpV2RibEntry" /\ AreValues(e.attributes)

\* Neither an entry by itself nor the base class of the RIBs is returned.
ASSUME MessagesAssumption ==
  \A m \in Messages :
    m.class \notin {"MRTTblDumpV2RibHeader", "TblDumpV2RibEntry"} /\ IsRecord(m.class, m)

-----------------------------------------------------------------------------

VARIABLES
  program,
  elements,            \* the XML printed
  crashed

vars == <<traversal, ascii, program, elements, crashed>>

Programs == {"AsciiVisitor", "mrt2xml", "mrt2xml -B"} \cup Generic

\* The rest of a visit() of AsciiBGPVisitor.
IsRest(class, n) ==
  \/ /\ class = "UpdateRoutes"
     /\ AreRoutes("NLRIUnReachable", n.withdrawnRoutes)
     /\ AreRoutes("NLRIReachable", n.nlriRoutes)
  \/ class = "OwnPrefix" /\ n.class = "NLRIReachable"
  \/ class = "RibEntry" /\ AreValues(n.entry.attributes)

\* What is visited has the members of the class it is visited as.
IsObject(class, n) ==
  \/ class \in Records /\ IsRecord(class, n)
  \/ class \in BGPMessages /\ IsMessage(class, n)
  \/ class = "BGPAttribute" /\ IsValue(n.class, n) /\ n.class \notin SegmentClasses
  \/ class \in AttributeValues /\ IsValue(class, n)
  \/ class \in Leaves /\ n.class = class

\* A frame, when there are n Infos.
IsFrame(f, n) ==
  /\ f.visitor \in Programs \cup {Me}
  /\ f.param \in CASE f.visitor = Me -> 1 .. n
                   [] HandsDown(f.visitor) -> {1}
                   [] OTHER -> {NoParam}
  /\ IsObject(f.class, f.node) \/ (f.visitor = Me /\ IsRest(f.class, f.node))

\* A visitor with a parameter is started with one.
FirstParam(visitor) == IF HandsDown(visitor) THEN 1 ELSE NoParam

Init ==
  /\ message \in Messages
  /\ program \in Programs
  /\ stack = Accepts(program, <<As(message.class, message)>>, FirstParam(program))
  /\ visited = << >>
  /\ infos = << >>
  /\ printed = << >>
  /\ elements = << >>
  /\ crashed = FALSE

Finished == stack = << >>

-----------------------------------------------------------------------------
(* mrt2xml                                                                 *)

\* genMsgDumper casts the BGPAttribute it found, instead of its value, and uses the null.
NoMPReachToExtend(record) ==
  record.class = "MRTTblDump" /\ record.subType = IPv6 /\ HasMPReach(record)

ValuesDumped(record) ==
  UNION {ToSet(d.bgp_msg.pathAttributes) :
           d \in {m \in ToSet(DumpedMessages(record)) : m.bgp_msg.class = "BGPUpdate"}}

\* An aggregator's genXml() uses the null of a cast that fails.
NoAggregator(record) ==
  \E v \in ValuesDumped(record) :
     /\ v.class \in {"AttributeTypeAggregator", "AttributeTypeAS4Aggregator"}
     /\ CastToAggregator(v) = << >>

Dump(visitor, nullUsed, lines, nodes) ==
  /\ Visiting(visitor, {message.class})
  /\ Push(<< >>)
  /\ crashed' = (Dumpable(message) /\ nullUsed)
  /\ printed' = IF Dumpable(message) /\ ~crashed' THEN lines ELSE << >>
  /\ elements' = IF Dumpable(message) /\ ~crashed' THEN nodes ELSE << >>
  /\ UNCHANGED <<message, visited, infos, program>>

DumpAscii == Dump("mrt2xml -B", NoMPReachToExtend(message), AsciiLines(message), << >>)

DumpXml ==
  Dump("mrt2xml", NoMPReachToExtend(message) \/ NoAggregator(message),
       << >>, RecordXml(message))

-----------------------------------------------------------------------------

Stop == Finished /\ UNCHANGED vars

Next ==
  \/ NextGeneric /\ UNCHANGED <<ascii, program, elements, crashed>>
  \/ NextAscii /\ UNCHANGED <<program, elements, crashed>>
  \/ DumpAscii
  \/ DumpXml
  \/ Stop

Spec == Init /\ [][Next]_vars

-----------------------------------------------------------------------------
(* What a record's lines are, said without a visit                         *)

\* The place of the last attribute of some classes among the first i, or 0.
LastBefore(values, i, classes) ==
  Max({0} \cup {j \in 1 .. i : values[j].class \in classes})

SeenText(values, i, field) ==
  LET k == LastBefore(values, i, {c \in PlainClasses : Field[c] = field})
  IN  IF k = 0 THEN Defaults[field] ELSE FieldText(values[k])

\* The family of the last multiprotocol attribute that has one.
FamilySeen(values, i, initial) ==
  LET k == Max({0} \cup {j \in 1 .. i :
                 /\ values[j].class \in MPClasses
                 /\ values[j].afi # 0})
  IN  IF k = 0 THEN initial ELSE values[k].afi

NextHopSeen(values, i, initial) ==
  LET k == LastBefore(values, i, {"AttributeTypeNextHop", "AttributeTypeMPReachNLRI"})
  IN  CASE k = 0 -> NoText
        [] k # 0 /\ values[k].class = "AttributeTypeNextHop" -> FieldText(values[k])
        [] OTHER -> Text(values[k].nextHop, FamilySeen(values, k, initial))

SeenTexts(values, i, initial) ==
  [field \in DOMAIN Defaults |->
     IF field = "next_hop" THEN NextHopSeen(values, i, initial) ELSE SeenText(values, i, field)]

\* A line of three parts; the second is that of all lines of a peer.
Joined(prefix, head, texts) ==
  [field \in {"prefix"} \cup DOMAIN head \cup DOMAIN texts |->
     CASE field = "prefix" -> prefix
       [] field \in DOMAIN head -> head[field]
       [] OTHER -> texts[field]]

\* A route in an attribute has the attributes up to there, any other all of them.
LinesOfRoutes(head, routes, afi, texts) ==
  [i \in DOMAIN routes |->
     IF routes[i].class = "NLRIReachable"
     THEN Joined(Text(routes[i].prefix, afi), head, texts)
     ELSE Joined(Text(routes[i].prefix, afi), [head EXCEPT !.kind = "W"], << >>)]

LinesOfAttributes(head, values, initial) ==
  FlattenSeq([i \in DOMAIN values |->
    IF /\ values[i].class \in MPClasses
       /\ values[i].afi # 0
    THEN LinesOfRoutes(head, values[i].nlri, values[i].afi, SeenTexts(values, i, initial))
    ELSE << >>])

HasRoutes(values) ==
  \E v \in ToSet(values) : v.class = "AttributeTypeMPReachNLRI" /\ v.afi # 0 /\ v.nlri # << >>

\* A record of a table, or an entry of one: its prefix unless an attribute has routes.
LinesOfTable(head, values, prefix, afi) ==
  LinesOfAttributes(head, values, afi) \o
  LinesOfRoutes(head,
    IF HasRoutes(values) THEN << >> ELSE <<NLRIReachable(prefix)>>,
    FamilySeen(values, Len(values), afi), SeenTexts(values, Len(values), afi))

HeadOf(type, kind, ip, afi, as) ==
  [type |-> type, kind |-> kind, peer |-> Text(ip, afi), peer_as |-> as]

ExpectedOfMessage(record, garbage) ==
  LET u == record.payload
      head == HeadOf("BGP4MP", "A", record.peer.ip, record.peer.afi, record.peer.as)
  IN  IF u.class # "BGPUpdate" THEN << >>
      ELSE LinesOfAttributes(head, u.pathAttributes, garbage) \o
           LinesOfRoutes(head, u.withdrawnRoutes \o u.nlriRoutes, IPv4,
                         SeenTexts(u.pathAttributes, Len(u.pathAttributes), garbage))

ExpectedOfTblDump(record) ==
  LinesOfTable(HeadOf("TABLE_DUMP", "B", record.peer.ip, record.subType, record.peer.as),
               record.attributes, record.prefix, record.subType)

\* An entry's lines are of its own peer and its own attributes.
ExpectedOfRib(record) ==
  FlattenSeq([i \in DOMAIN record.ribEntries |->
    LET peer == record.ribEntries[i].peer
    IN  LinesOfTable(HeadOf("TABLE_DUMP2", "B", peer.ip, peer.afi, peer.as),
                     record.ribEntries[i].attributes, record.prefix, record.afi)])

ExpectedOfStateChange(record) ==
  [type |-> "BGP4MP", kind |-> "STATE", peer |-> Text(record.peer.ip, record.peer.afi),
   peer_as |-> record.peer.as, old |-> record.oldState, new |-> record.newState]

Expected(garbage) ==
  CASE message.class \in MessageClasses -> ExpectedOfMessage(message, garbage)
    [] message.class = "MRTTblDump" -> ExpectedOfTblDump(message)
    [] message.class \in StateChangeClasses -> <<ExpectedOfStateChange(message)>>
    [] message.class \in RibRecords -> ExpectedOfRib(message)
    [] OTHER -> << >>

\* What the lists of the tree hold in the end: routes, segments of paths, parameters.
ListedInValue(v) ==
  CASE v.class \in MPClasses -> v.nlri
    [] v.class \in PathClasses -> v.segments
    [] OTHER -> << >>

ListedIn(values) == FlattenSeq([i \in DOMAIN values |-> ListedInValue(values[i])])

ListedInMessage(m) ==
  CASE m.class = "BGPUpdate" -> ListedIn(m.pathAttributes) \o m.withdrawnRoutes \o m.nlriRoutes
    [] m.class = "BGPOpen" -> m.optParams
    [] OTHER -> << >>

ListedInRecord ==
  CASE message.class \in MessageClasses -> ListedInMessage(message.payload)
    [] message.class = "MRTTblDump" -> ListedIn(message.attributes)
    [] message.class \in RibRecords ->
         FlattenSeq([i \in DOMAIN message.ribEntries |-> ListedIn(message.ribEntries[i].attributes)])
    [] OTHER -> << >>

-----------------------------------------------------------------------------
(* Properties                                                              *)

Occurrences(x, s) == Cardinality({i \in DOMAIN s : s[i] = x})

\* The same elements, as often, in any order.
SameBag(s, t) ==
  Len(s) = Len(t) /\ \A x \in ToSet(s) : Occurrences(x, s) = Occurrences(x, t)

\* Every accept() is of an object with the members that the visit() it comes to reads, and has
\* the parameter its visitor casts: an Info, what a client started with, or none.
TypeOK ==
  /\ message \in Messages
  /\ program \in Programs
  /\ IsList(infos)
  /\ IsList(stack) /\ \A i \in 1 .. Len(stack) : IsFrame(stack[i], Len(infos))
  /\ crashed \in BOOLEAN

(***************************************************************************)
(* bgpparser2's lines say what the record says: a line has the last        *)
(* attribute of each kind that stands before its route, of its own entry   *)
(* and no other, and its own peer; a record's prefix has one line unless   *)
(* its attributes bring routes.  Only the next hop of an attribute without *)
(* a family depends on what Info::afi happened to hold.                    *)
(***************************************************************************)
LinesFaithful ==
  Finished /\ program = "AsciiVisitor" => \E garbage \in Uninitialised : printed = Expected(garbage)

(***************************************************************************)
(* Each of the four traversals comes by every route, every segment of a    *)
(* path and every parameter of the tree as what it is, once for each time  *)
(* it is there, in the order in which the lists of the tree have them: a   *)
(* client that overrides the visit() of one misses none, whichever of the  *)
(* four it is derived from.                                                *)
(***************************************************************************)
EachListedOnce ==
  Finished /\ program \in Generic => visited = ListedInRecord

\* No multiprotocol attribute is there twice, and each has a family.
Regular(update) ==
  LET values == update.pathAttributes
  IN  \A i \in DOMAIN values : values[i].class \in MPClasses =>
        /\ values[i].afi # 0
        /\ \A j \in DOMAIN values : values[i].class = values[j].class => i = j

\* What the two programs show differently by their design is not there.
Comparable(update) ==
  LET values == update.pathAttributes
  IN  /\ Regular(update)
      /\ \A i \in DOMAIN values :
           /\ (values[i].class \in MPClasses => values[i].afi \in {IPv4, IPv6})
           /\ values[i].class \notin {"AttributeTypeAS4Path", "AttributeTypeAS4Aggregator"}
           /\ (values[i].class = "AttributeTypeMPReachNLRI" => i = Len(values))
           /\ (values[i].class = "AttributeTypeASPath" =>
                 \A s \in ToSet(values[i].complete) : s.type \notin Confederation)

(***************************************************************************)
(* bgpparser2 and mrt2xml -B, one visiting the tree in its order and one   *)
(* collecting attributes by type first, print the same lines of an UPDATE  *)
(* whose routes of MP_REACH_NLRI come after the other attributes.          *)
(***************************************************************************)
ProgramsAgree ==
  LET compared ==
        /\ Finished
        /\ program = "AsciiVisitor"
        /\ message.class \in MessageClasses
        /\ message.payload.class = "BGPUpdate"
        /\ Comparable(message.payload)
        /\ message.peer.as < ASModulus \div 2
        /\ message.peer.afi \in {IPv4, IPv6}
  IN  compared => SameBag(printed, AsciiLines(message))

(***************************************************************************)
(* "AGGREGATOR or AS4_AGGREGATOR": the dumper of aggregators dumps either. *)
(***************************************************************************)
AggregatorsDumped ==
  \A v \in ValuesDumped(message) :
    v.class \in {"AttributeTypeAggregator", "AttributeTypeAS4Aggregator"} => ~crashed

=============================================================================
