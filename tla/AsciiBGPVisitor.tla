--------------------------- MODULE AsciiBGPVisitor ---------------------------
(***************************************************************************)
(* bgpparser2's two visitors.  AsciiVisitor meets the record, describes    *)
(* its peer in an Info and hands the Info to AsciiBGPVisitor, which fills  *)
(* in the attributes as it meets them and prints a line at every route:    *)
(* what a line says depends on what was visited before the route.          *)
(*                                                                         *)
(* InfoPtr is a shared pointer: infos is the heap, a frame's param an      *)
(* index of it.  "UpdateRoutes", "RibEntry" and "OwnPrefix" are the rest   *)
(* of a visit() after an accept() in it has come back.                     *)
(***************************************************************************)
EXTENDS DepthFirst, Formats

CONSTANT
  Uninitialised   \* what the octet Info::afi may hold before it is assigned

ASSUME UninitialisedAssumption == Uninitialised # {}

VARIABLES
  infos,
  printed         \* the lines, in order

ascii == <<infos, printed>>

Me == "AsciiBGPVisitor"
Info == infos[Top.param]

NoAddress == "0.0.0.0"

OriginName(origin) ==
  CASE origin = 0 -> "IGP"
    [] origin = 1 -> "EGP"
    [] OTHER -> "INCOMPLETE"

\* The Info a visit starts with: no attribute seen, the address family not assigned.
NewInfo(type, kind, ip, peerAFI, as, garbage) ==
  [mrt_type |-> type, dump_type |-> kind, peer_addr |-> ip, peer_afi |-> peerAFI, peer_as |-> as,
   as_path |-> NoText, origin |-> "", next_hop |-> NoText, med |-> 0, lpref |-> 0,
   atomic_agg |-> "NAG", agg |-> NoText, communities |-> NoText,
   afi |-> garbage, parseNLRI |-> FALSE]

Announced(info, prefix) ==
  [type |-> info.mrt_type, kind |-> info.dump_type,
   peer |-> Text(info.peer_addr, info.peer_afi), peer_as |-> info.peer_as,
   prefix |-> Text(prefix, info.afi), as_path |-> info.as_path, origin |-> info.origin,
   next_hop |-> info.next_hop, lpref |-> info.lpref, med |-> info.med,
   communities |-> info.communities, atomic_agg |-> info.atomic_agg, agg |-> info.agg]

Withdrawn(info, prefix) ==
  [type |-> info.mrt_type, kind |-> "W",
   peer |-> Text(info.peer_addr, info.peer_afi), peer_as |-> info.peer_as,
   prefix |-> Text(prefix, info.afi)]

-----------------------------------------------------------------------------
(* AsciiVisitor                                                            *)

HandOn(part, type, kind, ip, peerAFI, as) ==
  /\ \E garbage \in Uninitialised :
       infos' = Append(infos, NewInfo(type, kind, ip, peerAFI, as, garbage))
  /\ Push(Accepts(Me, <<part>>, Len(infos) + 1))
  /\ UNCHANGED <<message, visited, printed>>

VisitMessage ==
  /\ Visiting("AsciiVisitor", {"MRTBgp4MPMessage"})
  /\ HandOn(As(Top.node.payload.class, Top.node.payload), "BGP4MP", "A",
            Top.node.peer.ip, Top.node.peer.afi, Top.node.peer.as)

VisitStateChange ==
  /\ Visiting("AsciiVisitor", {"MRTBgp4MPStateChange"})
  /\ printed' = Append(printed,
       [type |-> "BGP4MP", kind |-> "STATE", peer |-> Text(Top.node.peer.ip, Top.node.peer.afi),
        peer_as |-> Top.node.peer.as, old |-> Top.node.oldState, new |-> Top.node.newState])
  /\ Push(<< >>)
  /\ UNCHANGED <<message, visited, infos>>

VisitTblDump ==
  /\ Visiting("AsciiVisitor", {"MRTTblDump"})
  /\ HandOn(As("MRTTblDump", Top.node), "TABLE_DUMP", "B",
            Top.node.peer.ip, Top.node.subType, Top.node.peer.as)

VisitRibHeader ==
  /\ Visiting("AsciiVisitor", {"MRTTblDumpV2RibHeader"})
  /\ HandOn(As("MRTTblDumpV2RibHeader", Top.node), "TABLE_DUMP2", "B", NoAddress, 0, 0)

-----------------------------------------------------------------------------
(* AsciiBGPVisitor: records and messages                                   *)

OwnPrefix(prefix) == As("OwnPrefix", [class |-> "NLRIReachable", prefix |-> prefix])

BGPTblDump ==
  /\ Visiting(Me, {"MRTTblDump"})
  /\ infos' = [infos EXCEPT ![Top.param].afi = Top.node.subType, ![Top.param].parseNLRI = FALSE]
  /\ Push(Accepts(Me, Append(Attributes(Top.node.attributes), OwnPrefix(Top.node.prefix)),
                  Top.param))
  /\ UNCHANGED <<message, visited, printed>>

BGPRibHeader ==
  /\ Visiting(Me, {"MRTTblDumpV2RibHeader"})
  /\ infos' = [infos EXCEPT ![Top.param].afi = Top.node.afi]
  /\ Push(Accepts(Me,
       [i \in DOMAIN Top.node.ribEntries |->
          As("RibEntry", [entry |-> Top.node.ribEntries[i], prefix |-> Top.node.prefix])],
       Top.param))
  /\ UNCHANGED <<message, visited, printed>>

\* The peer is written into the Info all entries share.
WithPeer(peer) ==
  [infos EXCEPT ![Top.param].peer_addr = peer.ip, ![Top.param].peer_as = peer.as,
                ![Top.param].peer_afi = peer.afi]

EntryParts == <<As("TblDumpV2RibEntry", Top.node.entry), OwnPrefix(Top.node.prefix)>>

\* A bug: the entries fill in the Info they share, instead of a copy each.
BGPRibEntryShared ==
  /\ Visiting(Me, {"RibEntry"})
  /\ infos' = WithPeer(Top.node.entry.peer)
  /\ Push(Accepts(Me, EntryParts, Top.param))
  /\ UNCHANGED <<message, visited, printed>>

\* One turn of the loop over the entries.
BGPRibEntry ==
  /\ Visiting(Me, {"RibEntry"})
  /\ LET shared == WithPeer(Top.node.entry.peer)
     IN  infos' = Append(shared, shared[Top.param])
  /\ Push(Accepts(Me, EntryParts, Len(infos) + 1))
  /\ UNCHANGED <<message, visited, printed>>

\* A record's own prefix has its line unless an attribute's route had one.
BGPOwnPrefix ==
  /\ Visiting(Me, {"OwnPrefix"})
  /\ Push(IF Info.parseNLRI THEN << >>
          ELSE Accepts(Me, <<As("NLRIReachable", Top.node)>>, Top.param))
  /\ UNCHANGED <<message, visited, ascii>>

\* The optional parameters are not visited.
VisitOpen ==
  /\ Visiting(Me, {"BGPOpen"})
  /\ Push(<< >>)
  /\ UNCHANGED <<message, visited, ascii>>

VisitUpdate ==
  /\ Visiting(Me, {"BGPUpdate"})
  /\ Push(Accepts(Me, Append(Attributes(Top.node.pathAttributes), As("UpdateRoutes", Top.node)),
                  Top.param))
  /\ UNCHANGED <<message, visited, ascii>>

VisitUpdateRoutes ==
  /\ Visiting(Me, {"UpdateRoutes"})
  /\ infos' = [infos EXCEPT ![Top.param].afi = IPv4]
  /\ Push(Accepts(Me, Each(Top.node.withdrawnRoutes) \o Each(Top.node.nlriRoutes), Top.param))
  /\ UNCHANGED <<message, visited, printed>>

-----------------------------------------------------------------------------
(* AsciiBGPVisitor: attributes and routes                                  *)

\* An attribute of no family is the abbreviated encoding: a next hop and no route.
MPReach ==
  /\ Visiting(Me, {"AttributeTypeMPReachNLRI"})
  /\ LET afi == IF Top.node.afi = 0 THEN Info.afi ELSE Top.node.afi
     IN  infos' = [infos EXCEPT ![Top.param].afi = afi,
                                ![Top.param].next_hop = Text(Top.node.nextHop, afi)]
  /\ Push(IF Top.node.afi = 0 THEN << >> ELSE Accepts(Me, Each(Top.node.nlri), Top.param))
  /\ UNCHANGED <<message, visited, printed>>

MPUnreach ==
  /\ Visiting(Me, {"AttributeTypeMPUnreachNLRI"})
  /\ IF Top.node.afi = 0
     THEN Push(<< >>) /\ UNCHANGED infos
     ELSE /\ infos' = [infos EXCEPT ![Top.param].afi = Top.node.afi]
          /\ Push(Accepts(Me, Each(Top.node.nlri), Top.param))
  /\ UNCHANGED <<message, visited, printed>>

PlainClasses ==
  {"AttributeTypeOrigin", "AttributeTypeASPath", "AttributeTypeAS4Path", "AttributeTypeNextHop",
   "AttributeTypeMultiExitDisc", "AttributeTypeLocalPref", "AttributeTypeAtomicAggregate",
   "AttributeTypeAggregator", "AttributeTypeAS4Aggregator", "AttributeTypeCommunities"}

\* What the plain attributes leave in the Info: the field, and its text.
Field ==
  [class \in PlainClasses |->
     CASE class = "AttributeTypeOrigin" -> "origin"
       [] class \in {"AttributeTypeASPath", "AttributeTypeAS4Path"} -> "as_path"
       [] class = "AttributeTypeNextHop" -> "next_hop"
       [] class = "AttributeTypeMultiExitDisc" -> "med"
       [] class = "AttributeTypeLocalPref" -> "lpref"
       [] class = "AttributeTypeAtomicAggregate" -> "atomic_agg"
       [] class \in {"AttributeTypeAggregator", "AttributeTypeAS4Aggregator"} -> "agg"
       [] class = "AttributeTypeCommunities" -> "communities"]

\* ASSegmentVisitor: a path is the list of its segments' types and numbers.
PathText(segments) ==
  [i \in DOMAIN segments |-> <<segments[i].type, segments[i].numbers>>]

AggregatorText(v) == <<Signed(v.as), v.ip>>

CommunitiesText(v) == [i \in DOMAIN v.values |-> CommunityText(v.values[i])]

FieldText(v) ==
  CASE v.class = "AttributeTypeOrigin" -> OriginName(v.origin)
    [] v.class = "AttributeTypeASPath" -> PathText(v.complete)
    [] v.class = "AttributeTypeAS4Path" -> PathText(v.segments)
    [] v.class = "AttributeTypeNextHop" -> Text(v.ip, v.afi)
    [] v.class \in {"AttributeTypeMultiExitDisc", "AttributeTypeLocalPref"} -> v.value
    [] v.class = "AttributeTypeAtomicAggregate" -> "AG"
    [] v.class \in {"AttributeTypeAggregator", "AttributeTypeAS4Aggregator"} -> AggregatorText(v)
    [] v.class = "AttributeTypeCommunities" -> CommunitiesText(v)

PlainAttribute ==
  /\ Visiting(Me, PlainClasses)
  /\ infos' = [infos EXCEPT ![Top.param][Field[Top.class]] = FieldText(Top.node)]
  /\ Push(<< >>)
  /\ UNCHANGED <<message, visited, printed>>

Reachable ==
  /\ Visiting(Me, {"NLRIReachable"})
  /\ printed' = Append(printed, Announced(Info, Top.node.prefix))
  /\ infos' = [infos EXCEPT ![Top.param].parseNLRI = TRUE]
  /\ Push(<< >>)
  /\ UNCHANGED <<message, visited>>

UnReachable ==
  /\ Visiting(Me, {"NLRIUnReachable"})
  /\ printed' = Append(printed, Withdrawn(Info, Top.node.prefix))
  /\ Push(<< >>)
  /\ UNCHANGED <<message, visited, infos>>

NextAscii ==
  \/ VisitMessage \/ VisitStateChange \/ VisitTblDump \/ VisitRibHeader
  \/ BGPTblDump \/ BGPRibHeader \/ BGPRibEntry \/ BGPOwnPrefix
  \/ VisitOpen \/ VisitUpdate \/ VisitUpdateRoutes
  \/ MPReach \/ MPUnreach \/ PlainAttribute \/ Reachable \/ UnReachable

=============================================================================
