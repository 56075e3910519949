--------------------------- MODULE MRTCommonHeader ---------------------------
(***************************************************************************)
(* The outermost layer of the library: MRTCommonHeader::newMessage reads   *)
(* one MRT record from a file stream, cuts its payload out into a stream   *)
(* of its own, parses it and returns a message.                            *)
(*                                                                         *)
(* The file is a sequence of records laid out one after the other.  Of a   *)
(* record the model keeps what decides how it is handled: its kind, its    *)
(* offset and the length field of its header, whether its payload parses,  *)
(* and, for TABLE_DUMP_V2, how many peers a table declares and which peer  *)
(* indices the entries of a RIB name.  The bytes of the payload themselves *)
(* are the subject of the modules about the payload parsers.               *)
(*                                                                         *)
(* The programs that call newMessage in a loop (Bgpparser2, Mrt2xml)       *)
(* extend this module and supply what happens at pc = "ready" (the loop's  *)
(* head), "returned" (a message came back), "thrown" (an MRTException did) *)
(* and "failure" (the decompressing filter's exception did).               *)
(***************************************************************************)
EXTENDS Naturals, Sequences

CONSTANTS
  HeaderLen,    \* sizeof(MRTCommonHeaderPacket): 12 in the program
  Files         \* the record layouts a run considers

Kinds == {"PEER_INDEX_TABLE", "RIB", "RIB_GENERIC", "TABLE_DUMP", "BGP4MP", "OTHER"}

\* Kinds of TABLE_DUMP_V2 whose entries refer to a peer index table.
RibKinds == {"RIB", "RIB_GENERIC"}

\* What IPTypeDiscoveryVisitor tells apart in the messages it classifies.
Families == {"IPv4", "IPv6", "UNKNOWN"}

\* sound:   the payload parses, the peer index table aside
\* peers:   entries of a PEER_INDEX_TABLE
\* entries: the peer indices a RIB's parser reads, up to where it goes wrong
Record == [kind : Kinds, at : Nat, len : Nat, sound : BOOLEAN,
           family : Families, peers : Nat, entries : Seq(Nat)]

\* Records follow one another without a gap: header, then len bytes.
EndOf(r) == r.at + HeaderLen + r.len

WellFormed(f) ==
  /\ f \in Seq(Record)
  /\ Len(f) > 0 => f[1].at = 0
  /\ \A i \in 1 .. Len(f) - 1 : f[i + 1].at = EndOf(f[i])
  /\ \A i, j \in 1 .. Len(f) : i < j => EndOf(f[i]) <= f[j].at

ASSUME HeaderAssumption == HeaderLen \in Nat \ {0}
ASSUME FilesAssumption == \A f \in Files : WellFormed(f)

FileEnd(f) == IF f = << >> THEN 0 ELSE EndOf(f[Len(f)])

NoTable == 0

VARIABLES
  file,         \* the records the file was written with
  avail,        \* how many of its bytes the stream delivers before it stops
  broken,       \* whether it stops with an exception of the decompressor
  pos,          \* offset of the next byte the stream delivers
  cur,          \* the record whose header newMessage read last (0: none)
  indexTbl,     \* the record whose table indexTbl points to (NoTable: null)
  msg,          \* the message newMessage made last
  pc

libVars == <<file, avail, broken, pos, cur, indexTbl, msg, pc>>

(***************************************************************************)
(* A message is the record it was made from, the type it reports and the   *)
(* peer index table it holds a pointer to.  "MRT_INVALID" is the type      *)
(* newMessage gives to the bare header when the payload does not parse,    *)
(* and "HEADER" stands for a bare header that keeps its type.              *)
(***************************************************************************)
MessageTypes == (Kinds \ {"OTHER"}) \cup {"HEADER", "MRT_INVALID"}

Message == [type : MessageTypes, rec : Nat, tbl : Nat]

NoMessage == [type |-> "HEADER", rec |-> 0, tbl |-> NoTable]

LibTypeOK ==
  /\ WellFormed(file)
  /\ avail \in 0 .. FileEnd(file)
  /\ broken \in BOOLEAN
  /\ pos \in 0 .. avail
  /\ cur \in 0 .. Len(file)
  /\ indexTbl \in 0 .. Len(file)
  /\ msg \in Message
  /\ pc \in {"ready", "header", "body", "payload", "returned", "thrown",
             "EOFException", "failure", "ended", "exit10", "terminated", "crashed"}

(***************************************************************************)
(* The file may have been cut short anywhere, and the cut may be one the   *)
(* decompressor reports with an exception rather than an end of file.      *)
(***************************************************************************)
LibInit ==
  /\ file \in Files
  /\ avail \in 0 .. FileEnd(file)
  /\ broken \in BOOLEAN
  /\ pos = 0
  /\ cur = 0
  /\ indexTbl = NoTable
  /\ msg = NoMessage
  /\ pc = "ready"

-----------------------------------------------------------------------------
(* Reading the record: the constructor MRTCommonHeader(istream&)           *)

\* A read that meets the end of the stream takes what there is.
ShortRead(exception) ==
  /\ pos' = avail
  /\ pc' = IF broken THEN "failure" ELSE exception

ReadHeader ==
  /\ pc = "header"
  /\ \/ /\ pos + HeaderLen <= avail
        /\ \E i \in DOMAIN file : file[i].at = pos /\ cur' = i
        /\ pos' = pos + HeaderLen
        /\ pc' = "body"
     \/ /\ pos + HeaderLen > avail
        /\ ShortRead(IF pos = avail THEN "EOFException" ELSE "thrown")
        /\ UNCHANGED cur
  /\ UNCHANGED <<file, avail, broken, indexTbl, msg>>

\* A bug: the payload of a record that is not decoded is left in the stream.
BodyEndIfDecoded(i) == IF file[i].kind = "OTHER" THEN pos ELSE pos + file[i].len

\* The length field counts the payload alone, and all of it is read for every type.
BodyEnd(i) == pos + file[i].len

\* A bug: what io::read returns is not compared with the length.
ReadBodyUnchecked ==
  /\ pc = "body"
  /\ pos' = BodyEnd(cur)
  /\ pc' = "payload"
  /\ UNCHANGED <<file, avail, broken, cur, indexTbl, msg>>

\* With length 0 the constructor returns without reading.
ReadBody ==
  /\ pc = "body"
  /\ \/ /\ BodyEnd(cur) <= avail
        /\ pos' = BodyEnd(cur)
        /\ pc' = "payload"
     \/ /\ BodyEnd(cur) > avail
        /\ ShortRead("thrown")
  /\ UNCHANGED <<file, avail, broken, cur, indexTbl, msg>>

-----------------------------------------------------------------------------
(* Parsing the payload: the switch of newMessage and its catch clauses     *)

\* Only a RIB message keeps a pointer to the table current while it is parsed.
Return(type) ==
  /\ msg' = [type |-> type, rec |-> cur,
             tbl |-> IF type \in RibKinds THEN indexTbl ELSE NoTable]
  /\ pc' = "returned"

\* Entries getPeer does not resolve: their index is not below the table's size.
Misses(i, tbl) ==
  {k \in DOMAIN file[i].entries : file[i].entries[k] >= file[tbl].peers}

FirstMiss(i, tbl) ==
  CHOOSE k \in Misses(i, tbl) : \A j \in Misses(i, tbl) : k <= j

(***************************************************************************)
(* getPeer compares with > where the size itself is already out of range:  *)
(* an index equal to the size is not refused but reads past the vector.    *)
(***************************************************************************)
ReadsPastTable(i, tbl) ==
  /\ Misses(i, tbl) # {}
  /\ file[i].entries[FirstMiss(i, tbl)] = file[tbl].peers

RefusedByGetPeer(i, tbl) ==
  /\ Misses(i, tbl) # {}
  /\ file[i].entries[FirstMiss(i, tbl)] > file[tbl].peers

\* A type or subtype newMessage does not decode: the bare header is the message.
KeepHeader ==
  /\ pc = "payload"
  /\ file[cur].kind = "OTHER"
  /\ Return("HEADER")
  /\ UNCHANGED <<file, avail, broken, pos, cur, indexTbl>>

\* TABLE_DUMP and the four BGP4MP subtypes, which need no peer index table.
ParseBgp ==
  /\ pc = "payload"
  /\ file[cur].kind \in {"TABLE_DUMP", "BGP4MP"}
  /\ file[cur].sound
  /\ Return(file[cur].kind)
  /\ UNCHANGED <<file, avail, broken, pos, cur, indexTbl>>

\* A bug: the table replaces the old one before its entries are parsed.
ParsePeerIndexTableEarly ==
  /\ pc = "payload"
  /\ file[cur].kind = "PEER_INDEX_TABLE"
  /\ indexTbl' = cur
  /\ Return(IF file[cur].sound THEN "PEER_INDEX_TABLE" ELSE "MRT_INVALID")
  /\ UNCHANGED <<file, avail, broken, pos, cur>>

\* The assignment to indexTbl follows the constructor: no throw, no assignment.
ParsePeerIndexTable ==
  /\ pc = "payload"
  /\ file[cur].kind = "PEER_INDEX_TABLE"
  /\ file[cur].sound
  /\ indexTbl' = cur
  /\ Return("PEER_INDEX_TABLE")
  /\ UNCHANGED <<file, avail, broken, pos, cur>>

\* A peer index table is needed and every entry's peer index must resolve in it.
ParseRib ==
  /\ pc = "payload"
  /\ file[cur].kind \in RibKinds
  /\ indexTbl # NoTable
  /\ Misses(cur, indexTbl) = {}
  /\ file[cur].sound
  /\ Return(file[cur].kind)
  /\ UNCHANGED <<file, avail, broken, pos, cur, indexTbl>>

(***************************************************************************)
(* Undefined behaviour: what lies past the vector's end is copied as a     *)
(* shared pointer and dereferenced.  The process dies, or the entry is     *)
(* parsed with whatever was found and the rest goes well or does not.      *)
(***************************************************************************)
ParseRibPastTable ==
  /\ pc = "payload"
  /\ file[cur].kind \in RibKinds
  /\ indexTbl # NoTable
  /\ ReadsPastTable(cur, indexTbl)
  /\ \/ pc' = "crashed" /\ UNCHANGED msg
     \/ Return("MRT_INVALID")
     \/ Return(file[cur].kind)
  /\ UNCHANGED <<file, avail, broken, pos, cur, indexTbl>>

PayloadThrows ==
  LET r == file[cur] IN
  \/ r.kind \in {"TABLE_DUMP", "BGP4MP", "PEER_INDEX_TABLE"} /\ ~r.sound
  \/ /\ r.kind \in RibKinds
     /\ indexTbl # NoTable =>
          \/ RefusedByGetPeer(cur, indexTbl)
          \/ Misses(cur, indexTbl) = {} /\ ~r.sound

\* BGPError and BGPTextError end in newMessage: the header comes back MRT_INVALID.
CatchPayloadError ==
  /\ pc = "payload"
  /\ PayloadThrows
  /\ Return("MRT_INVALID")
  /\ UNCHANGED <<file, avail, broken, pos, cur, indexTbl>>

NewMessage ==
  \/ ReadHeader
  \/ ReadBody
  \/ KeepHeader
  \/ ParseBgp
  \/ ParsePeerIndexTable
  \/ ParseRib
  \/ ParseRibPastTable
  \/ CatchPayloadError

-----------------------------------------------------------------------------
(* What the file says, stated without the reader: for the properties.      *)

\* A record the stream delivers whole.
Complete(i) == EndOf(file[i]) <= avail

\* A peer index table that is whole and whose payload parses.
GoodTable(i) == file[i].kind = "PEER_INDEX_TABLE" /\ file[i].sound /\ Complete(i)

\* The last good table before record i.
TableFor(i) ==
  LET tables == {j \in 1 .. i - 1 : GoodTable(j)}
  IN  IF tables = {} THEN NoTable
      ELSE CHOOSE j \in tables : \A k \in tables : k <= j

=============================================================================
