-------------------------------- MODULE Formats --------------------------------
(***************************************************************************)
(* The conversions both programs print with, by what they keep of a value: *)
(* an address is read as one of two families whatever it is, and a uint32_t*)
(* passed as an int changes its sign from the middle on.                   *)
(***************************************************************************)
EXTENDS Integers

CONSTANT ASModulus     \* 2^32

ASSUME ASModulusAssumption == ASModulus \in Nat \ {0} /\ ASModulus % 2 = 0

IPv4 == 1
IPv6 == 2

NoText == << >>

\* Every address family but IPv6 is printed as IPv4.
Text(ip, afi) == <<IF afi = IPv6 THEN "IPv6" ELSE "IPv4", ip>>

\* A switch over the two families, without a default, leaves the text empty.
TextOfFamily(ip, afi) == IF afi \in {IPv4, IPv6} THEN Text(ip, afi) ELSE NoText

\* The (int) of a uint32_t.
Signed(n) == IF n >= ASModulus \div 2 THEN n - ASModulus ELSE n

\* A community is an AS and what that AS means by the other half; one has a name.
NoExport == [as |-> 65535, info |-> 65281]
CommunityText(c) == IF c = NoExport THEN <<"no-export">> ELSE <<c.as, c.info>>

=============================================================================
