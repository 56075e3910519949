# bgpparser in TLA+

bgpparser reads MRT files (dumps of BGP routing tables and BGP messages, as
published by Route Views and RIPE RIS), parses them into objects, and prints
them: `bgpparser2` (dumper2/) as one line per route, `mrt2xml` (dumper/) as XML
or text. This directory holds TLA+ models of it, TLC configurations that check
them on small instances, and TLAPS proofs for every value of the constants.

Paths below are relative to the repository; `map` in PROJECT.json gives the
lines each definition models.

## 1. Inventory

The program is one thread, keeps nothing between runs and answers nobody: what
is hard about it is not concurrency but that its input is unreliable. A file may
be cut anywhere, a record may be corrupt at any level, and the parser is made of
nested constructors, each of which reads from a stream of its own, counts what
it has read in integers of several widths and signs, and gives up by throwing.
Which state survives a throw, and whether two counts of the same bytes agree,
is what the models are about.

| component | state | operations | interacts with |
| --- | --- | --- | --- |
| MRT framing, `MRTCommonHeader::newMessage` (parser/MRTCommonHeader.cpp) | the file stream's position; the static `indexTbl` | read header, read payload, dispatch on type and subtype, catch and return MRT_INVALID | called by both programs; calls every payload parser |
| peer index table (MRTTblDumpV2PeerIndexTbl) | `peerEntries` | parse; `getPeer(index)` | shared by every RIB message parsed after it; looked up again by the printers |
| RIB records (MRTTblDumpV2RibHeader and heirs, TblDumpV2RibEntry) | entries with attributes | parse prefix, entries, attributes of each entry | needs the peer index table |
| TABLE_DUMP (MRTTblDump) | one route | parse | path attribute factory |
| BGP4MP (message and state change, 2- and 4-octet) | peers, one BGP message | parse | BGP message factory |
| BGP message factory (BGPCommonHeader) | `length`, the message's bytes | cut out, dispatch on type | UPDATE, OPEN, NOTIFICATION, ... |
| UPDATE (BGPUpdate) | three lists, two declared lengths | walk three sections; complete AS_PATH and AGGREGATOR | attribute factory, AS_PATH |
| attribute factory and attributes (AttributeType*, BGPAttribute) | the value | parse one value | its bytes are cut out first |
| AS_PATH completion (AttributeTypeASPath) | `pathSegments`, `pathSegmentsComplete` | merge with AS4_PATH | called by UPDATE and by the RIB entries |
| multiprotocol attributes (MPReachNLRI, MPUnreachNLRI) | next hop, routes | parse either encoding | |
| OPEN, NOTIFICATION | optional parameters; error data | parse | |
| bgpparser2 (dumper2/main.cpp) | filter options, `mrt_id`, `count_error` | loop, filter, print, catch | newMessage, IPTypeDiscoveryVisitor, AsciiVisitor |
| printing of bgpparser2 (AsciiVisitor, AsciiBGPVisitor) | a shared `Info`: what it has seen of the message | visit records, attributes and routes | looks peers up again; accept() of the tree |
| mrt2xml (dumper/mrt2xml.cpp, MRTTblDumpV2Dumper) | a peer index table of its own | loop, dispatch, dump, catch | newMessage |
| output of mrt2xml (the dumpers) | none between two records | `genAscii`, `genXml` | collects attributes by type; the XML helper |
| generic visitors (include/visitors) | none | four depth-first traversals | accept() of every class |
| XML helper library (xmlinternal.c) | none | elements, properties | called by the dumpers |
| test scripts and build | none of interest | | |

Hard behaviours, and what makes each component correct:

* **framing**: one bad record must not cost the next one, a cut file must be
  reported once, and every turn of the loop must consume something;
* **peer index table**: a table that does not parse must not replace or drop the
  one before it; a RIB is parsed and later printed against the same table, of
  which there are three copies; an index must be refused unless it is in the table;
* **UPDATE**: unsigned counts wrap when an element overshoots its section, and the
  stream is 19 bytes longer than its buffer; what is accepted must all the same be
  exactly the message;
* **AS_PATH completion**: two lists of lists whose lengths all may differ; the
  hops and their grouping must stay, the true numbers must come in at the back;
* **RIB entries, TABLE_DUMP**: a signed count that ends the loop after an overshoot;
  the entries are then read from elsewhere than they delimit themselves, and the
  stream's end is all that stops it;
* **attribute values**: lists that go by a peek, by an unsigned count or by a signed
  one; an MP_REACH_NLRI of which the first octet tells the encoding, and a next hop
  that is counted but not read;
* **OPEN, NOTIFICATION, peer index table**: a count that leaves out what it should
  count, one that wraps, a read that does not fail at the end;
* **printing**: a line says what was visited before its route, through a shared
  object; two programs say the same of one message by unrelated code; four
  traversals of one tree written out by hand.

`hazards` in PROJECT.json lists each of these at its line.

## 2. Modules

| module | models | abstracts |
| --- | --- | --- |
| `MRTCommonHeader` | `newMessage`: the two reads with their short forms, the switch, the assignment to `indexTbl`, the catch clauses | payload bytes: a record's payload parses or not; of TABLE_DUMP_V2 it keeps the number of peers and the indices |
| `Bgpparser2` (EXTENDS it) | `main` of bgpparser2: options, `peek`, filter, printing, handlers, `exit(10)` | text printed |
| `Mrt2xml` (EXTENDS it) | `main` of mrt2xml: the dispatch, the dumper's own table, the handler | text and XML |
| `RecordLog` | the abstract promise of both programs | everything but order and attribution |
| `PathAttributes` | octets of routes and attributes, and what is completed after the last attribute | values |
| `BGPUpdate` (EXTENDS it) | the constructor of BGPUpdate, with what BGPCommonHeader makes its stream from | byte values: every read may give any value of the configured sets |
| `RibRecord` (EXTENDS `PathAttributes`, instantiates `MRTCommonHeader`) | the constructors of RIB, RIB_GENERIC and TABLE_DUMP records, their entries, `getPeer`, `processAttributes` | byte values, as above |
| `ASPath` | `genPathSegmentsComplete`, both overloads | how segments are read |
| `OctetStream` | a constructor's stream over a buffer: reads that take all or refuse | octets |
| `AttributeValue` (EXTENDS it) | `newAttribute` and the constructor of every type of attribute | values; which families and codes are refused |
| `BGPMessage` (EXTENDS `OctetStream`) | the BGP header, the message's buffer and stream, OPEN, NOTIFICATION, KEEPALIVE, ROUTE-REFRESH | values; UPDATE, which `BGPUpdate` models |
| `PeerIndexTable` (EXTENDS `OctetStream`) | the constructor of the peer index table | addresses and numbers of the peers |
| `RecordPayload` (EXTENDS both) | BGP4MP messages and state changes of both widths; composes the two | values |
| `Tree` | a constructor for each class of the object tree | time stamps, flags, lengths |
| `DepthFirst` | the four generic depth-first visitors, and what a subclass inherits | return values |
| `Formats` | conversions both programs print with | layout of the text |
| `AsciiBGPVisitor` (EXTENDS `DepthFirst`, `Formats`) | the two visitors of bgpparser2 | layout of the text |
| `XmlNodes` | the builders of xmlinternal.c that the dumpers call | layout of the document |
| `MessageDumpers`, `XmlDumpers` | `genAscii` and `genXml` of the dumpers | the same, and the time |
| `Printing` (EXTENDS the last four) | a record visited, printed or dumped by one of seven programs | |
| `XmlAgreement` (EXTENDS it) | the prefixes as a reader of the XML finds them, and as the lines have them | everything else in the XML |
| `Bgpparser2_proofs`, `Mrt2xml_proofs`, `BGPUpdate_proofs`, `RibRecord_proofs`, `ASPath_proofs`, `AttributeValue_proofs`, `RecordPayload_proofs`, `Printing_proofs` | theorems of the eight | |

`MC*` modules give the constants their values; `MCFiles` holds the file layouts that
the two programs share.

### How state and actions correspond

`MRTCommonHeader`. `file` is the layout the file was written with, which no
reader knows; `avail` how many of its bytes arrive; `broken` whether the stream
then ends or the decompressor throws (both are reachable: the Boost filters throw
for a damaged .gz or .bz2). `pos`, `cur` and `indexTbl` are the stream's position,
the header just read and the static pointer. `pc` is where control is: at the
loop's `peek` ("ready"), before the header, before the payload, before the switch,
back in the program with a message, or on the way out with an exception. Each
action is one step of `newMessage` between two of these places. The streambuf is
read directly, so a short read takes what there is and the next `peek` sees the
end. `getPeer` tests `>` where `>=` is needed (ParseRibPastTable): the element one
past the vector's end is copied as a shared pointer and dereferenced, which the
model takes for undefined behaviour: the process dies, the record is refused, or
a message comes back.

`Bgpparser2`. `ipv4`, `ipv6` are the options after "neither means both"; `mrt_id`
and `count_error` the two counters; `shown` what AsciiVisitor was given and would
print something for. Handlers no exception can reach are left out on purpose:
were one reached, the module would deadlock, and deadlock is checked.

`Mrt2xml`. `dumperTbl` is MRTTblDumpV2Dumper::peerIndexTbl, `flag_bgpdump` the option
-B. RIB_GENERIC has no dumper ("Undefined Subtype"). Two dumpers may call through the
null that a cast gives, which ends the run ("crashed"): for an IPv6 TABLE_DUMP with
MP_REACH_NLRI, MRTTblDumpV1Dumper takes the attribute for its value; and for any record
with an AS4_AGGREGATOR, in the XML only, the aggregators' dumper casts it to
AGGREGATOR. Which attributes a record has is not in its layout, so each is a choice
(CastUndefined) where the record may have such an attribute; `Printing` has the
attributes, and there both are decided.

`BGPUpdate`. `length`, the three section lengths and `left` are the code's
uint16_t variables, kept modulo `W`. `pos` is the position in the stream, which
ends at `length` although the buffer ends at `length - HeaderSize`; bytes read
beyond it are arbitrary, as all bytes are. One action per turn of each loop.

`RibRecord`. `pos` is the position in the payload's own stream, which ends with the
record. `entryCount` and the length of `indices` are the loop of `init` over the
entries; `left` is the signed count of `processAttributes`. `start` and `declared`
are no variables of the code: where the entries begin, and how many octets those
begun have by their own account. For TABLE_DUMP, `DumpPreface` is what the constructor
reads field after field and `AttributesOfDump` what it subtracts by hand. Two kinds of undefined behaviour are outcomes:
"crashed", for an index one past the peer table, and "overrun", for a prefix longer
than an address, which only `BGPUpdate` of the two callers of Route refuses. The
file-level modules know no such prefix: for them, reading a RIB returns or throws.

`ASPath`. `it`, `it4` are the reverse iterators as the number of segments not yet
passed; one action per turn of each loop; the loop over the numbers of a pair of
segments is the operator `Merged`. A segment holds the list of its AS numbers and,
separately, the member `pathSegmentLength`.

`OctetStream`. Every payload, message and value is read from a stream of its own.
The constructors test the stream's error flag after a read or a group of reads, so
one action is one group: it takes all its octets or refuses. A null buffer throws
where a short one reports, and `newMessage` catches both.

`AttributeValue`. `pc` is the constructor control is in. A value of no octets is not
read, and its stream has no buffer: a peek finds the end, a read refuses. `left` is
the count beside the stream: a uint32_t in CLUSTER_LIST (modulo `CountModulus`), a
signed one in the two multiprotocol attributes. `nextHopOctets` is how many octets
were written from `nextHopAddress` on: an abbreviated next hop of more than 32 runs
past both addresses, which is the outcome "overrun". The skip over SNPAs compares
`io::seek`'s result, a position, with a length, so an attribute with SNPAs is always
refused (MPReachSNPA).

`BGPMessage`. The buffer holds the message without its header (`data` octets), the
stream over it claims the length that counts the header (`size`). A message that is
all header has no buffer at all. `left` of OPEN is the loop's count, `filled` a
variable the code has not: whether each capability so far fills its parameter.

`PeerIndexTable`. The view name is taken with `get()`, which does not fail: a name
that runs past the end is found only by the read of the peer count after it. Each
entry's layout is told by its own first octet.

`RecordPayload`. One behaviour is one record: the peers' addresses, the message or
the states, or the table.

`DepthFirst`. `stack` holds the accept() calls still to be made; the C++ stack has
them as loops that are not finished, in the same order. `Parts` is what a visit of a
class goes on to in one of the four visitors. They were compared class by class: for
records and messages the copies are the same, and of the attribute values one visit
differs (`AS4SegmentParts`): of a segment of an AS4_PATH, GJNoArguDepthFirst and
GJDepthFirst go on to it as a segment of an AS_PATH, DepthFirstVisitor and
GJVoidDepthFirst do nothing. `visited` has the routes, segments and parameters that were
visited as what they are. `HandsDown` says which visitors give their parameter on. A record of a subtype's class is copied into its base class,
as accept() of the code does.

`AsciiBGPVisitor`. InfoPtr is a shared pointer: `infos` is the heap and a frame's
parameter an index of it. What a visit() does after an accept() in it came back is a
frame of its own ("UpdateRoutes", "RibEntry", "OwnPrefix"). `Info::afi` is not
initialised: its value is any of `Uninitialised`.

`MessageDumpers`, `XmlDumpers`. The dumpers keep nothing between two records and look
attributes up by type, so they are functions of the record. The loop of
`genAsciiMsg` over the attributes is `KeptTexts`, a recursive function whose turns are
`Keeping`; `mp_reach` and `mp_unreach` after it are `LastOfClass`. `Printing` adds the
two places where a null pointer is used (NoMPReachToExtend, NoAggregator) as a crash.

`XmlAgreement`. The prefixes of a tag are those in the lists of that tag that a
BGP_MESSAGE has, first its UPDATE's own list, then those of its attributes in order.

## 3. Runs

| run | module | states | shows |
| --- | --- | --- | --- |
| `bgpparser2` | MCBgpparser2 | 1.07 million | every file of up to 3 records of 12 shapes, every cut, both ends, every filter |
| `mrt2xml` | MCMrt2xml | 1.75 million | every file of up to 4 records of 7 shapes, every cut, both ends, both output modes |
| `bgpupdate` | MCBGPUpdate | 0.33 million | every pair of declared lengths, every length of the message, modulo 28 |
| `rib_record` | MCRibRecord | 0.53 million | every payload of up to 20 octets, up to 3 entries whose attribute lengths fit or not |
| `aspath` | MCASPath | 0.41 million | every AS_PATH of up to 2 and AS4_PATH of up to 3 segments of up to 2 numbers |
| `attribute_value` | MCAttributeValue | 0.22 million | every type of attribute, every length of value up to 48 octets |
| `record_payload` | MCRecordPayload | 56 thousand | BGP4MP records and peer index tables cut in every part; messages of every type, of up to 20 octets |
| `printing` | MCPrinting | 50 thousand | a record of each class, every list of up to 2 attributes of 24 and some of 3, in seven programs |
| `peer_index` | MCBgpparser2 | | finding: CorruptIndexRefused violated |
| `aspath_inconsistent` | MCASPath | | finding: InconsistentNotProcessed violated |
| `aspath_lengths` | MCASPath | | finding: LengthsTold violated |
| `as4_aggregator_xml` | MCPrinting | | finding: AggregatorsDumped violated |

### Properties

* `Framing`: back at its head, the loop is at the first byte of the next record.
* `TableInForce`: `indexTbl` is the last table that parsed.
* `ShownFaithfully`, `NothingLost`: what is printed is exactly what is decodable
  and selected, once, in order, against the last good table before it; only for
  an index one past the table may the result be more or less than it should.
* `ErrorsAreCuts`: no payload, however bad, counts as an error of the program;
  a file cut inside a record counts once. (bgpparser2 reports `count_error`.)
* `TablesAgree`, `EndsWithAllDumped`: the same for mrt2xml, whose three copies of
  the current table agree whenever they are used. `EndsWithAllDumped` speaks of a normal
  end and of an end by the decompressor's exception, which mrt2xml does not catch: it too
  loses none of the records before it. A crash in a dumper loses the rest, and
  no property says otherwise.
* `ImplementsRecordLog`: both programs implement `RecordLog`, with a refinement
  mapping that says when a record counts as taken: a table when it is assigned
  (bgpparser2) or handed to the dumper (mrt2xml), another record when it is
  printed or passed over.
* `SectionsExact`, `AcceptedExactly`: although the counts wrap, no loop ends after
  an overshoot, and an UPDATE that is accepted was read from its first byte to its
  last; neither a wrapped `nlriLength` nor the 19 bytes too many give a route.
  `OverreadRefused`: a byte beyond the message leads to a refusal.
* `DelimitedExactly`: an overshoot is not refused, but it cannot hide in a record
  whose lengths add up: entries that by their own account fill the record were read
  as they delimit themselves. An accepted RIB never claims more than the record has.
* `TableDumpExact`: what the constructor of TABLE_DUMP subtracts by hand, field after
  field, is what it reads: before each attribute, `left` is what the stream has. So a
  field forgotten on either side shows, and an accepted record was read to its end.
* `OutcomeAsFramed`: ties `RibRecord` to `MRTCommonHeader`, which knows of a RIB only
  its table and indices: a RIB is refused, or may crash, when that module says so.
* `SameShape`, `TrueNumbersRestored`: completion keeps the hops and their grouping;
  AS4_PATH's numbers replace exactly the last ones, pair by pair from the back.
* `WholeValueRead`: an accepted list was read to its last octet by whichever count it
  goes; of an accepted MP_REACH_NLRI no more stays unread than a next hop that was
  counted but not read, and next hops of 4, 16 and 32 octets are stored whole.
* `NotificationExact`: the 32-bit data length of an accepted NOTIFICATION has not
  wrapped, and the 19 octets too many of its stream were not read.
* `OpenWhole`: an accepted OPEN, each capability of which fills its parameter, was read
  at least to the end of its optional parameters: none is lost to a short read, although
  a capability and a skipped parameter refuse in different ways. That the loop's count
  leaves out each parameter's two octets, so that it reads on beyond them, is in
  `CountParameter`; no text of the repository says it must not, so it is no property and
  no finding.
* `PeerTableWhole`: an accepted table has all its entries, each read whole.
* `LinesFaithful`: the lines of bgpparser2 against a definition that does not visit:
  a line has the last attribute of each kind before its route, of its own entry and
  peer; a record's prefix has one line unless its attributes bring routes.
* `EachListedOnce`: each of the four traversals meets every route, every segment of a
  path and every optional parameter of the tree once, as what it is, in the order of the
  tree's lists. Its mutant alters one of the four copies and leaves the others.
  `TypeOK` of `Printing` says that each object about to be visited has the members of
  the class it is visited as (`IsObject`), and that its accept() gets the kind of
  parameter its visitor casts it to.
* `ProgramsAgree`: bgpparser2 and `mrt2xml -B` print the same lines of an UPDATE. The
  precondition lists where they differ by design: AS4_PATH and AS4_AGGREGATOR, an
  MP_REACH_NLRI that is not last, confederations, two of one multiprotocol attribute,
  an address family other than IPv4 and IPv6 (bgpparser2 prints its addresses as IPv4,
  mrt2xml leaves them out), AS numbers from the middle of the range on.
* `XmlAgrees`: the XML of mrt2xml withdraws and announces the prefixes that its own
  lines do, the same ones in the same order, of every record it can dump whose messages
  have at most one of each multiprotocol attribute, with a family. (Of two, the lines
  have the last only and the XML has both.)
* `Terminates`, `Decides`, `Completes`: each loop ends.

### Bounds, and why they are enough

* *Records.* What a record meets is the table in force and what the previous record
  left behind; three records give good/bad/good tables around and before a RIB in
  every order, four give a RIB between two tables. The shapes put peer indices
  inside, at and beyond tables of 1 and 2 peers. The proofs remove the bound.
* *Sizes.* A header of 2 bytes and payloads of 0 to 2 make every cut distinct:
  before, inside and after a header, and inside a payload.
* *W = 28, HeaderSize = 4.* Small enough for each of the three counts to wrap,
  and with attributes of 3, 4, 5 and 9 octets and routes of 1 to 4 an overshoot of
  every size up to 8 occurs, more than HeaderSize. The proof removes the bound.
* *RIB sizes.* The fixed parts are shrunk to 1, 2 and 4 octets, different for each
  kind and family, so that three entries with attributes fit into 20 octets and so
  do an overshoot into the next entry and one past the last. The attribute lengths
  hit, miss and pass the attributes' own sizes of 3, 4 and 6. Prefixes: empty, of an
  octet, and longer (17 bits) than an address of 16. The proof removes the bound.
* *Paths.* Two and three segments: fewer, as many and more in AS4_PATH than in
  AS_PATH; lengths 0 to 2: shorter, equal and longer within a pair.

* *Attribute values.* 48 octets hold an MP_REACH_NLRI with a next hop of 32 and a route
  or two, and every shorter length cuts it somewhere. The first octets include the
  two a full encoding has, lengths below, at and above one and two addresses, and one
  that overruns. `CountModulus` is 64 for 2^32, more than any length. The proof
  removes the bounds.
* *Messages.* Lengths from 0 to 39: below the header's 19, at it, at NOTIFICATION's 21
  and beyond, and room for three parameters of OPEN, with lengths of all of them below,
  at and above what the message holds. `CountModulus` is 200 for 2^32:
  more than twice any length, as in the code. Tables of up to 3 peers, which reach all
  four layouts next to each other. The proofs remove the bounds.
* *Printing.* Whether a line is right depends on a route, an attribute before it and
  one after it, and for a RIB on a second entry: lists of two, lists of three with
  MP_REACH_NLRI in the middle, and two entries. `ASModulus` is 8, with AS numbers on
  both sides of the middle. The proofs remove the bound on the lists, for all five
  properties.

### Fairness

`WF_vars(Next)`, except for `Printing`, which states none and claims no liveness: its
stack shrinks towards the leaves of a finite tree. There is one thread; the file is a file, so no read
waits for anybody; no step is a choice the code may put off. Weak fairness says no
more than that the process is run. Choices inside `Next` are made by the input and
by undefined behaviour, and no fairness is assumed of them.

### Findings

1. `getPeer` (include/parsers/MRTTblDumpV2PeerIndexTbl.h:101) refuses with
   "Corrupted PeerIndexTbl" only indices greater than the number of entries. Run
   `peer_index`.
2. "if there is an inconsistency, we do not process this update"
   (parser/AttributeTypeASPath.cpp:285) stands above code that is commented out:
   an AS4_PATH with more segments is merged. Run `aspath_inconsistent`.
3. `pathSegmentLength`, "Number of path segments (not octets!)", is 0 in every
   segment made by the merge, and the XML output prints it. Run `aspath_lengths`.
4. "AGGREGATOR or AS4_AGGREGATOR" (dumper/AttributeTypeAggregatorDumper.cpp:59): the
   dumper takes the address from a cast to AttributeTypeAggregator, which is null for
   AS4_AGGREGATOR. Run `as4_aggregator_xml`.

## 4. Proofs

* **`Bgpparser2_proofs`**: `TypeCorrect`, `FramingHolds`, `TableInForceHolds`,
  `ShownFaithfullyHolds`, `NothingLostHolds`, `ErrorsAreCutsHolds` and `Refinement`
  (the loop implements RecordLog), for every header size and every set of layouts.
  The properties speak of the loop's head, so they are not inductive: the
  invariant says the same of every `pc`. It is proved in layers, each using those
  before it: *Position* (where `pos` is in terms of `cur` and `mrt_id`), *Tables*
  (`indexTbl` is the last good table up to the record being parsed), *Returned*
  (what a message that came back says of its record), *Output* (`shown` against
  the records passed), *Errors* (why a second cut cannot occur). Assumed:
  `HeaderAssumption` (a header has bytes) and `FilesAssumption` (records are laid
  out without gaps).
* **`Mrt2xml_proofs`**: `TypeCorrect`, `TablesAgreeHolds`, `EndsWithAllDumpedHolds`
  and `Refinement`, from the same assumptions and along the same layers, with two
  differences. mrt2xml counts no records, so `cur` takes the place of `mrt_id`; it
  is one behind after a header that is cut off, and the refinement then needs that
  the record before that header is whole. And *Tables* has two tables to follow:
  between "returned" and "ready" the library's is ahead of the dumper's by exactly
  the table in the message.
  Both modules begin with the same lemmas about files and tables: how the records of a
  well-formed file lie, that no two start at one offset, and what `TableFor` is without
  its CHOOSE.
* **`BGPUpdate_proofs`**: `TypeCorrect`, `SectionsExactHolds`,
  `AcceptedExactlyHolds`, for every width, header size and set of attributes. The
  invariant relates `left` and `pos` in every section: either they add up to the
  section's end, or the count has wrapped and is larger than what the stream can
  still deliver. Assumed: the sizes are naturals and the header is smaller than `W`.
* **`RibRecord_proofs`**: `TypeCorrect`, `DelimitedExactlyHolds`,
  `TableDumpExactHolds`, `OutcomeAsFramedHolds`, for all sizes, attributes and
  lengths. The invariant says that what was read and what is left is never less than
  what the entries begun have declared (a signed count can only overshoot), that for
  a TABLE_DUMP the two add up to the record, and which peer indices a `pc` admits.
* **`ASPath_proofs`**: `TypeCorrect`, `SameShapeHolds`, `TrueNumbersRestoredHolds`,
  for all paths. The invariant says of the result so far what the properties say of
  the whole, counted from the back.
* **`AttributeValue_proofs`**: `TypeCorrect`, `WholeValueReadHolds`, for values, next
  hops, prefixes and segments of every length. The invariant (*Counts*) ties `left` to
  the stream: for CLUSTER_LIST and MP_UNREACH_NLRI it is what the value has left, for
  MP_REACH_NLRI that minus a next hop that was not read; hence a count that reaches
  zero, or passes it, does so only at the end, and the unsigned one never wraps.
  Assumed: the lengths are naturals below `CountModulus`.
* **`RecordPayload_proofs`**: `TypeCorrect`, `NotificationExactHolds`,
  `OpenWholeHolds`, `PeerTableWholeHolds`, for records, messages and parameters of every
  length. For NOTIFICATION: a length that wraps asks for more than the stream claims to
  have. For OPEN: `pos` is the fixed part, `optParmLen - left` and two octets for each
  parameter, and the loop ends with `left` at most 0.
  For the table: the octets read are those before the entries and the sum, over the
  entries so far, of the size that each one's first octet tells, and an entry more adds
  its own size to the sum.
  Assumed: message lengths are small beside `CountModulus`, as 2^16 is beside 2^32.
* **`Printing_proofs`**: `TypeCorrect`, `EachListedOnceHolds`, `LinesFaithfulHolds`,
  `ProgramsAgreeHolds`, `XmlAgreesHolds`, for records whose lists have any length. It is
  by far the longest module and takes a quarter of an hour to prove. Four invariants,
  none of which the properties state, for these speak of the end and the invariants of
  every step.
  *Typed*: every frame of the stack is an object of its class, with the members that
  the class declares, and has a parameter of its visitor's kind; what a visit goes on
  to is so again. *ListedLeft*: what was visited of the routes, segments and parameters, followed by
  those below the frames of the stack from its top down, is the record's; a visit
  replaces a frame by its parts, below which there is the same, or moves a route, a
  segment or a parameter from the one to the other. That a segment of an AS4_PATH goes on
  as one of an AS_PATH in two of the four changes nothing: a segment is below what is
  visited as its own class only (`Below`). *LinesRight*: where `AsciiVisitor` and
  `AsciiBGPVisitor` are in the record. It is written around a *batch*, the attributes
  of one message or one entry with the routes that come after them: after `i`
  attributes the stack holds the frames of the others, the Info has what the first `i`
  brought, and `printed` the lines of their routes; inside an attribute with routes the
  same is said of its first `k` routes. A batch is proved to run to its end whatever
  was printed before it and whatever frames are below it (`BatchStep`, `BatchEnds`), and
  to leave all other Infos alone; so it serves for an UPDATE, a record of TABLE_DUMP and
  each entry of a RIB, whose Info is a copy of one that no batch fills in. The lines are
  those of the definition that does not visit: what `LastBefore` says of `i + 1`
  attributes follows from what it says of `i` (`SeenTextsNext`, `FamilySeenNext`).
  *XmlMade*: once mrt2xml has dumped the record, `elements` is the record's XML.
  `ProgramsAgree` and `XmlAgrees` then compare functions of one record. For the first,
  *LinesRight* gives the lines of bgpparser2, an attribute at a time. What was seen of
  the attributes before a route that is announced is what `KeptTexts` keeps of all of
  them, because MP_REACH_NLRI comes last (`TextsAgree`); the text of each attribute is
  the same by both conversions, which for AS_PATH needs that there are no
  confederations (`SameField`). The withdrawn prefixes stand in another order, so what is
  proved is that the lists have every line as often: occurrences add up over a
  concatenation, and the lists are the same but for the order of their parts. For the second, both sides are
  concatenations over the messages of the record, and within a message over its UPDATE
  and its attributes: the XML of an attribute other than the multiprotocol ones has no
  list of prefixes, however its nodes look, and that of MP_REACH_NLRI or MP_UNREACH_NLRI
  has one, which is the list `LastOfClass` finds because there is no other.
  The lists are flattened with `FlattenSeq` of the community modules, which is a
  recursive function; that it exists, and what it gives for one list more, is proved
  from the principle of the least number (`LeastNat`, `Induct`), which needs no
  induction theorem with an operator as a parameter. Assumed: `MessagesAssumption`, that
  the lists of a record hold objects of the classes their C++ types say, that the family
  of a NEXT_HOP is IPv4 or IPv6 and a peer's AS number is below `ASModulus`, as their
  constructors leave them; `ASModulusAssumption`, that this modulus is even; and
  `UninitialisedAssumption`, that the octet of `Info::afi` holds some value before it is
  assigned.

Only model-checked: liveness (`Terminates`, `Decides`, `Completes`,
`OverreadRefused`), which is out of the prover's reach. Every invariant, and the
refinement of `RecordLog` by both programs, is a theorem.

## 5. Not modelled, and why

* The layout of text and XML, the time stamps in it, logging, and options other than
  the filter.
* Of xmlinternal.c what no dumper calls: four kinds of time stamps, addresses, CDATA,
  and the getters. dumper2/XMLVisitor.cpp, which is not called by the program.
* Memory: `newMessage` allocates the payload's buffer from a 32-bit length before
  reading; `std::bad_alloc` is caught by nobody. Reads from an empty payload go
  through a null `array_source` and throw `istream::failure`, which `newMessage`
  catches as it does a BGPError; the models treat it as a payload that does not parse.
* Concurrency, crashes and restarts: there is one thread, and nothing is kept.
* The test scripts compare output with other tools'; the build has no behaviour.
* The value of most octets. The parsers are modelled over every value of the octets
  that decide control (lengths, counts, types); two modules that meet (for instance
  `AttributeValue` and `BGPUpdate`) agree on what one tells the other, an attribute's
  size and that it may be refused, and are not run as one.

## 6. What is left

Every component that keeps state or makes a decision has its module, each such module
its theorems, and every safety property that a run checks is one of them. What remains
to be modelled is a composition: `RecordPayload` with `MRTCommonHeader` as `RibRecord`
is (`OutcomeAsFramed`), so that "sound" of a BGP4MP record is derived there too.
