------------------------------- MODULE XmlNodes -------------------------------
(***************************************************************************)
(* xmlinternal.c: nodes of an XML document.  A node has a tag, properties, *)
(* a text (none, or one) and children.  Integers pass through an int.      *)
(***************************************************************************)
EXTENDS Formats, Sequences, SequencesExt

Element(tag) == [tag |-> tag, props |-> << >>, text |-> << >>, children |-> << >>]

AddChild(parent, child) == [parent EXCEPT !.children = Append(@, child)]
AddChildren(parent, nodes) == [parent EXCEPT !.children = @ \o nodes]

PropString(node, name, value) == [node EXCEPT !.props = Append(@, <<name, value>>)]
PropInt(node, name, value) == PropString(node, name, Signed(value))

NodeString(tag, value) == [Element(tag) EXCEPT !.text = <<value>>]
NodeInt(tag, value) == NodeString(tag, Signed(value))

ChildString(parent, tag, value) == AddChild(parent, NodeString(tag, value))
ChildInt(parent, tag, value) == AddChild(parent, NodeInt(tag, value))

\* The hexadecimal text is abstracted to the octets.
NodeOctets(tag, octets, len) == PropInt(NodeString(tag, octets), "length", len)

AFIName(afi) == CASE afi = 1 -> "IPV4" [] afi = 2 -> "IPV6" [] OTHER -> "OTHER"
SAFIName(safi) ==
  CASE safi = 1 -> "UNICAST" [] safi = 2 -> "MULTICAST" [] safi = 4 -> "MLPS" [] OTHER -> "OTHER"

PropAFI(node, afi) == PropInt(PropString(node, "afi", AFIName(afi)), "afi_value", afi)
NodeAFI(tag, afi) == PropInt(NodeString(tag, AFIName(afi)), "value", afi)
NodeSAFI(tag, safi) == PropInt(NodeString(tag, SAFIName(safi)), "value", safi)

\* A node with a child for each of a sequence, and their number.
Counted(tag, nodes) == AddChildren(PropInt(Element(tag), "count", Len(nodes)), nodes)

=============================================================================
