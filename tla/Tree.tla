--------------------------------- MODULE Tree ---------------------------------
(***************************************************************************)
(* The objects the library returns: a record, with its messages, entries,  *)
(* attributes and routes.  One operator for each class, with the fields    *)
(* that a visitor or a dumper reads; "class" is what accept() selects the  *)
(* visit() by.  Time stamps, flags and lengths in octets are left out, and *)
(* an octet string stands for whatever it holds.                           *)
(***************************************************************************)
EXTENDS Integers, Sequences

-----------------------------------------------------------------------------
(* Routes and attribute values                                             *)

NLRIReachable(prefix) == [class |-> "NLRIReachable", prefix |-> prefix]
NLRIUnReachable(prefix) == [class |-> "NLRIUnReachable", prefix |-> prefix]

AttributeTypeOrigin(origin) == [class |-> "AttributeTypeOrigin", origin |-> origin]
AttributeTypeNextHop(afi, ip) == [class |-> "AttributeTypeNextHop", afi |-> afi, ip |-> ip]
AttributeTypeMultiExitDisc(med) == [class |-> "AttributeTypeMultiExitDisc", value |-> med]
AttributeTypeLocalPref(pref) == [class |-> "AttributeTypeLocalPref", value |-> pref]
AttributeTypeAtomicAggregate == [class |-> "AttributeTypeAtomicAggregate"]
AttributeTypeAggregator(as, ip) == [class |-> "AttributeTypeAggregator", as |-> as, ip |-> ip]
AttributeTypeAS4Aggregator(as, ip) ==
  [class |-> "AttributeTypeAS4Aggregator", as |-> as, ip |-> ip]
AttributeTypeOriginatorID(ip) == [class |-> "AttributeTypeOriginatorID", ip |-> ip]

\* A list of communities, as [as, info], and of cluster identifiers.
AttributeTypeCommunities(values) == [class |-> "AttributeTypeCommunities", values |-> values]
AttributeTypeClusterList(ids) == [class |-> "AttributeTypeClusterList", ids |-> ids]

\* Those of which only the octets are used.
AttributeTypeExtCommunities(data) == [class |-> "AttributeTypeExtCommunities", data |-> data]
AttributeType(data) == [class |-> "AttributeType", data |-> data]

\* The length is the one that was read; a segment made by completing a path has 0.
AttributeTypeASPathSegment(type, length, numbers) ==
  [class |-> "AttributeTypeASPathSegment", type |-> type, length |-> length, numbers |-> numbers]
AttributeTypeAS4PathSegment(type, length, numbers) ==
  [AttributeTypeASPathSegment(type, length, numbers) EXCEPT !.class = "AttributeTypeAS4PathSegment"]

\* AS_PATH as it was received, and completed with AS4_PATH.
AttributeTypeASPath(segments, complete) ==
  [class |-> "AttributeTypeASPath", segments |-> segments, complete |-> complete]
AttributeTypeAS4Path(segments) == [class |-> "AttributeTypeAS4Path", segments |-> segments]

AttributeTypeMPReachNLRI(afi, safi, nextHop, nlri) ==
  [class |-> "AttributeTypeMPReachNLRI", afi |-> afi, safi |-> safi, nextHop |-> nextHop,
   nlri |-> nlri]
AttributeTypeMPUnreachNLRI(afi, safi, nlri) ==
  [class |-> "AttributeTypeMPUnreachNLRI", afi |-> afi, safi |-> safi, nlri |-> nlri]

-----------------------------------------------------------------------------
(* BGP messages.  A BGPAttribute is its value: it adds flags and a length. *)

OptionalParameter == [class |-> "OptionalParameter"]
OptionalParameterCapabilities == [class |-> "OptionalParameterCapabilities"]

BGPUpdate(pathAttributes, withdrawnRoutes, nlriRoutes) ==
  [class |-> "BGPUpdate", pathAttributes |-> pathAttributes,
   withdrawnRoutes |-> withdrawnRoutes, nlriRoutes |-> nlriRoutes]
BGPOpen(optParams, data) == [class |-> "BGPOpen", optParams |-> optParams, data |-> data]
BGPNotification(data) == [class |-> "BGPNotification", data |-> data]
BGPKeepAlive(data) == [class |-> "BGPKeepAlive", data |-> data]
BGPRouteRefresh(data) == [class |-> "BGPRouteRefresh", data |-> data]
BGPCommonHeader(data) == [class |-> "BGPCommonHeader", data |-> data]

-----------------------------------------------------------------------------
(* Records                                                                 *)

\* One end of a session: its address, which is of a family, and its AS.
Peer(ip, as, afi) == [ip |-> ip, as |-> as, afi |-> afi]

MRTCommonHeader == [class |-> "MRTCommonHeader"]

MRTBgp4MPMessage(peer, local, payload) ==
  [class |-> "MRTBgp4MPMessage", peer |-> peer, local |-> local, payload |-> payload]
MRTBgp4MPMessageAS4(peer, local, payload) ==
  [MRTBgp4MPMessage(peer, local, payload) EXCEPT !.class = "MRTBgp4MPMessageAS4"]

MRTBgp4MPStateChange(peer, local, old, new) ==
  [class |-> "MRTBgp4MPStateChange", peer |-> peer, local |-> local, oldState |-> old,
   newState |-> new]
MRTBgp4MPStateChangeAS4(peer, local, old, new) ==
  [MRTBgp4MPStateChange(peer, local, old, new) EXCEPT !.class = "MRTBgp4MPStateChangeAS4"]

\* The subtype is the family of the prefix and of the peer.
MRTTblDump(subType, peer, prefix, attributes) ==
  [class |-> "MRTTblDump", subType |-> subType, peer |-> peer, prefix |-> prefix,
   attributes |-> attributes]

MRTTblDumpV2PeerIndexTbl == [class |-> "MRTTblDumpV2PeerIndexTbl"]

TblDumpV2RibEntry(peer, attributes) ==
  [class |-> "TblDumpV2RibEntry", peer |-> peer, attributes |-> attributes]

MRTTblDumpV2RibHeader(class, afi, safi, prefix, ribEntries) ==
  [class |-> class, afi |-> afi, safi |-> safi, prefix |-> prefix, ribEntries |-> ribEntries]

MRTTblDumpV2RibIPv4Unicast(prefix, ribEntries) ==
  MRTTblDumpV2RibHeader("MRTTblDumpV2RibIPv4Unicast", 1, 1, prefix, ribEntries)
MRTTblDumpV2RibIPv4Multicast(prefix, ribEntries) ==
  MRTTblDumpV2RibHeader("MRTTblDumpV2RibIPv4Multicast", 1, 2, prefix, ribEntries)
MRTTblDumpV2RibIPv6Unicast(prefix, ribEntries) ==
  MRTTblDumpV2RibHeader("MRTTblDumpV2RibIPv6Unicast", 2, 1, prefix, ribEntries)
MRTTblDumpV2RibIPv6Multicast(prefix, ribEntries) ==
  MRTTblDumpV2RibHeader("MRTTblDumpV2RibIPv6Multicast", 2, 2, prefix, ribEntries)

\* The family of a generic one is in the record.
MRTTblDumpV2RibGeneric(afi, safi, prefix, ribEntries) ==
  MRTTblDumpV2RibHeader("MRTTblDumpV2RibGeneric", afi, safi, prefix, ribEntries)

=============================================================================
