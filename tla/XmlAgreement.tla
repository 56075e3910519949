----------------------------- MODULE XmlAgreement -----------------------------
(***************************************************************************)
(* What the XML of mrt2xml says of a record, as a reader of it finds the   *)
(* prefixes, against mrt2xml's own lines.                                  *)
(***************************************************************************)
EXTENDS Printing

Tagged(nodes, tag) ==
  FlattenSeq([i \in DOMAIN nodes |-> IF nodes[i].tag = tag THEN <<nodes[i]>> ELSE << >>])

Children(nodes) == FlattenSeq([i \in DOMAIN nodes |-> nodes[i].children])

\* The lists of prefixes of a BGP_MESSAGE: those of its UPDATE, and of whatever attributes it has.
ListsOf(node, tag) ==
  LET updates == Tagged(Children(Tagged(node.children, "ASCII_MSG")), "UPDATE")
      attributes == Children(Tagged(Children(updates), "PATH_ATTRIBUTES"))
  IN  Tagged(Children(updates), tag) \o Tagged(Children(Children(attributes)), tag)

TextsOf(nodes) == [i \in DOMAIN nodes |-> nodes[i].text[1]]

PrefixesIn(node, tag) == TextsOf(Children(ListsOf(node, tag)))

\* The prefixes under the elements of a tag.
PrefixesUnder(tag) == FlattenSeq([i \in DOMAIN elements |-> PrefixesIn(elements[i], tag)])

PrefixesOf(lines, kinds) ==
  FlattenSeq([i \in DOMAIN lines |->
    IF lines[i].kind \in kinds THEN <<lines[i].prefix>> ELSE << >>])

(***************************************************************************)
(* The XML of mrt2xml withdraws and announces the prefixes that its own    *)
(* lines do, in that order, of every record without two MP_REACH or        *)
(* MP_UNREACH.                                                             *)
(***************************************************************************)
XmlAgrees ==
  LET compared ==
        /\ Finished
        /\ program = "mrt2xml"
        /\ ~crashed
        /\ Dumpable(message)
        /\ message.class \notin StateChangeClasses
        /\ \A d \in ToSet(DumpedMessages(message)) :
             d.bgp_msg.class = "BGPUpdate" => Regular(d.bgp_msg)
  IN  compared =>
        /\ PrefixesUnder("WITHDRAWN") = PrefixesOf(AsciiLines(message), {"W"})
        /\ PrefixesUnder("NLRI") = PrefixesOf(AsciiLines(message), {"A", "B"})

=============================================================================
