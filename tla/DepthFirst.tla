------------------------------ MODULE DepthFirst ------------------------------
(***************************************************************************)
(* The four depth-first visitors of the library, which a client subclasses *)
(* and overrides: DepthFirstVisitor, GJVoidDepthFirst (hands a parameter   *)
(* down), GJNoArguDepthFirst (returns a value) and GJDepthFirst (both).    *)
(* They are four copies of one traversal, written out class by class.  For *)
(* records and messages they are the same; of the attribute values, one is *)
(* visited differently, a segment of an AS4_PATH: the two that return a    *)
(* value go on to it as to a segment of an AS_PATH, the other two stop.    *)
(*                                                                         *)
(* The stack holds the accept() calls still to be made; the C++ stack has  *)
(* them as loops that are not done.  A visitor's own overrides come first. *)
(***************************************************************************)
EXTENDS Integers, Sequences, SequencesExt, TLC

VARIABLES
  message,    \* what main has read: the tree that is visited
  stack,      \* frames [visitor, class, node, param]
  visited     \* the routes, parameters and segments visited as what they are, in order

traversal == <<message, stack, visited>>

\* The records with entries.
RibRecords ==
  {"MRTTblDumpV2RibGeneric", "MRTTblDumpV2RibIPv4Multicast", "MRTTblDumpV2RibIPv4Unicast",
   "MRTTblDumpV2RibIPv6Multicast", "MRTTblDumpV2RibIPv6Unicast"}

\* Each class of record with a subtype's name is copied into its base class.
Base ==
  [class \in {"MRTBgp4MPMessageAS4", "MRTBgp4MPStateChangeAS4"} \cup RibRecords |->
     CASE class = "MRTBgp4MPMessageAS4" -> "MRTBgp4MPMessage"
       [] class = "MRTBgp4MPStateChangeAS4" -> "MRTBgp4MPStateChange"
       [] class \in RibRecords -> "MRTTblDumpV2RibHeader"]

Records ==
  DOMAIN Base \cup {"MRTCommonHeader", "MRTBgp4MPMessage", "MRTBgp4MPStateChange", "MRTTblDump",
    "MRTTblDumpV2PeerIndexTbl", "MRTTblDumpV2RibHeader", "TblDumpV2RibEntry"}

BGPMessages ==
  {"BGPCommonHeader", "BGPKeepAlive", "BGPNotification", "BGPOpen", "BGPRouteRefresh",
   "BGPUpdate", "BGPAttribute"}

SimpleValues ==
  {"AttributeTypeOrigin", "AttributeTypeNextHop", "AttributeTypeMultiExitDisc",
   "AttributeTypeLocalPref", "AttributeTypeAtomicAggregate", "AttributeTypeAggregator",
   "AttributeTypeAS4Aggregator", "AttributeTypeCommunities", "AttributeTypeOriginatorID",
   "AttributeTypeClusterList", "AttributeTypeExtCommunities", "AttributeType"}

SegmentClasses == {"AttributeTypeASPathSegment", "AttributeTypeAS4PathSegment"}

AttributeValues ==
  SimpleValues \cup SegmentClasses \cup {"AttributeTypeASPath", "AttributeTypeAS4Path",
    "AttributeTypeMPReachNLRI", "AttributeTypeMPUnreachNLRI"}

RouteClasses == {"Route", "NLRIReachable", "NLRIUnReachable"}
ParameterClasses == {"OptionalParameter", "OptionalParameterCapabilities"}
Leaves == RouteClasses \cup ParameterClasses

\* What a message's lists hold in the end.
Listed == Leaves \cup SegmentClasses

As(class, node) == [class |-> class, node |-> node]
Each(nodes) == [i \in DOMAIN nodes |-> As(nodes[i].class, nodes[i])]

\* A list of attributes holds BGPAttributes, each of which holds its value.
Attributes(values) == [i \in DOMAIN values |-> As("BGPAttribute", values[i])]

RecordParts(class, n) ==
  CASE class \in DOMAIN Base -> <<As(Base[class], n)>>
    [] class = "MRTBgp4MPMessage" -> Each(<<n.payload>>)
    [] class \in {"MRTTblDump", "TblDumpV2RibEntry"} -> Attributes(n.attributes)
    [] class = "MRTTblDumpV2RibHeader" -> Each(n.ribEntries)
    [] OTHER -> << >>

MessageParts(class, n) ==
  CASE class = "BGPOpen" -> Each(n.optParams)
    [] class = "BGPUpdate" ->
         Attributes(n.pathAttributes) \o Each(n.withdrawnRoutes) \o Each(n.nlriRoutes)
    [] class = "BGPAttribute" -> Each(<<n>>)
    [] OTHER -> << >>

Generic == {"DepthFirstVisitor", "GJVoidDepthFirst", "GJNoArguDepthFirst", "GJDepthFirst"}

\* The two that return a value.
Returning == {"GJNoArguDepthFirst", "GJDepthFirst"}

\* The copies that take a segment of an AS4_PATH for one of an AS_PATH.
AS4SegmentParts(generic, n) ==
  IF generic \in Returning THEN <<As("AttributeTypeASPathSegment", n)>> ELSE << >>

\* A bug: in one copy, the loop over the SNPAs, which the parser leaves empty, is over the NLRI.
ValuePartsTwice(generic, class, n) ==
  CASE class = "AttributeTypeMPReachNLRI" /\ generic = "GJVoidDepthFirst" ->
         Each(n.nlri) \o Each(n.nlri)
    [] class \in {"AttributeTypeASPath", "AttributeTypeAS4Path"} -> Each(n.segments)
    [] class = "AttributeTypeAS4PathSegment" -> AS4SegmentParts(generic, n)
    [] class \in {"AttributeTypeMPReachNLRI", "AttributeTypeMPUnreachNLRI"} -> Each(n.nlri)
    [] OTHER -> << >>

\* The list of SNPAs is left empty by the parser.
ValueParts(generic, class, n) ==
  CASE class \in {"AttributeTypeASPath", "AttributeTypeAS4Path"} -> Each(n.segments)
    [] class = "AttributeTypeAS4PathSegment" -> AS4SegmentParts(generic, n)
    [] class \in {"AttributeTypeMPReachNLRI", "AttributeTypeMPUnreachNLRI"} -> Each(n.nlri)
    [] OTHER -> << >>

\* What a generic visitor's visit() of the class goes on to; a leaf has no parts.
Parts(generic, class, n) ==
  CASE class \in Records -> RecordParts(class, n)
    [] class \in BGPMessages -> MessageParts(class, n)
    [] class \in AttributeValues -> ValueParts(generic, class, n)
    [] OTHER -> << >>

-----------------------------------------------------------------------------
(* The visitors                                                            *)

\* What a program's visitor is derived from; a subclass that overrides nothing is its base.
DerivedFrom(visitor) ==
  CASE visitor = "AsciiVisitor" -> "DepthFirstVisitor"
    [] visitor = "AsciiBGPVisitor" -> "GJVoidDepthFirst"
    [] OTHER -> visitor

\* The classes for which it has a visit() of its own.
Overridden(visitor) ==
  CASE visitor = "AsciiVisitor" ->
         {"MRTBgp4MPMessage", "MRTBgp4MPStateChange", "MRTTblDump", "MRTTblDumpV2RibHeader"}
    [] visitor = "AsciiBGPVisitor" ->
         {"MRTTblDump", "MRTTblDumpV2RibHeader", "BGPOpen", "BGPUpdate",
          "NLRIReachable", "NLRIUnReachable", "AttributeTypeMPReachNLRI",
          "AttributeTypeMPUnreachNLRI", "AttributeTypeASPath", "AttributeTypeAS4Path",
          "AttributeTypeOrigin", "AttributeTypeNextHop", "AttributeTypeMultiExitDisc",
          "AttributeTypeLocalPref", "AttributeTypeAtomicAggregate", "AttributeTypeAggregator",
          "AttributeTypeAS4Aggregator", "AttributeTypeCommunities"}
    [] OTHER -> {}

NoParam == 0

\* A bug: the parameter is not handed down.
HandsDownNothing(visitor) == FALSE

HandsDown(visitor) == visitor \in {"GJVoidDepthFirst", "GJDepthFirst"}

Top == Head(stack)

\* The accept() calls one after the other, by one visitor and with one parameter.
Accepts(visitor, parts, param) ==
  [i \in DOMAIN parts |->
     [visitor |-> visitor, class |-> parts[i].class, node |-> parts[i].node, param |-> param]]

\* What is called now, and what was still to be called after Top.
Push(frames) == stack' = frames \o Tail(stack)

Visiting(visitor, classes) ==
  /\ stack # << >>
  /\ Top.visitor = visitor
  /\ Top.class \in classes

\* What is taken for something else was visited before.
SeenAs(class, n) == IF class \in Listed /\ n.class = class THEN <<n>> ELSE << >>

\* visit() as the generic visitor has it for some classes, in a visitor derived from it.
Visit(generic, classes) ==
  /\ stack # << >>
  /\ DerivedFrom(Top.visitor) = generic
  /\ Top.class \in classes \ Overridden(Top.visitor)
  /\ Push(Accepts(Top.visitor, Parts(generic, Top.class, Top.node),
                  IF HandsDown(generic) THEN Top.param ELSE NoParam))
  /\ visited' = visited \o SeenAs(Top.class, Top.node)
  /\ UNCHANGED message

DepthFirstVisitorRecord  == Visit("DepthFirstVisitor", Records)
DepthFirstVisitorMessage == Visit("DepthFirstVisitor", BGPMessages)
DepthFirstVisitorValue   == Visit("DepthFirstVisitor", AttributeValues)
DepthFirstVisitorLeaf    == Visit("DepthFirstVisitor", Leaves)

GJVoidDepthFirstRecord  == Visit("GJVoidDepthFirst", Records)
GJVoidDepthFirstMessage == Visit("GJVoidDepthFirst", BGPMessages)
GJVoidDepthFirstValue   == Visit("GJVoidDepthFirst", AttributeValues)
GJVoidDepthFirstLeaf    == Visit("GJVoidDepthFirst", Leaves)

GJNoArguDepthFirstRecord  == Visit("GJNoArguDepthFirst", Records)
GJNoArguDepthFirstMessage == Visit("GJNoArguDepthFirst", BGPMessages)
GJNoArguDepthFirstValue   == Visit("GJNoArguDepthFirst", AttributeValues)
GJNoArguDepthFirstLeaf    == Visit("GJNoArguDepthFirst", Leaves)

GJDepthFirstRecord  == Visit("GJDepthFirst", Records)
GJDepthFirstMessage == Visit("GJDepthFirst", BGPMessages)
GJDepthFirstValue   == Visit("GJDepthFirst", AttributeValues)
GJDepthFirstLeaf    == Visit("GJDepthFirst", Leaves)

NextGeneric ==
  \/ DepthFirstVisitorRecord \/ DepthFirstVisitorMessage
  \/ DepthFirstVisitorValue \/ DepthFirstVisitorLeaf
  \/ GJVoidDepthFirstRecord \/ GJVoidDepthFirstMessage
  \/ GJVoidDepthFirstValue \/ GJVoidDepthFirstLeaf
  \/ GJNoArguDepthFirstRecord \/ GJNoArguDepthFirstMessage
  \/ GJNoArguDepthFirstValue \/ GJNoArguDepthFirstLeaf
  \/ GJDepthFirstRecord \/ GJDepthFirstMessage
  \/ GJDepthFirstValue \/ GJDepthFirstLeaf

=============================================================================
