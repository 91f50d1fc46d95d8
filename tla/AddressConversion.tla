-------------------------- MODULE AddressConversion --------------------------
(***************************************************************************)
(* CidrBlock, and the conversions of IpAddress: between the text of an     *)
(* address, its number, a mask and a prefix length.                        *)
(*                                                                         *)
(* An IPv4 address is four octets, an IPv6 address Groups groups of 16     *)
(* bits.  The text of an IPv4 address is its octets; that of an IPv6       *)
(* address is the groups between its colons, and whether it ends in "::".  *)
(* A behavior converts one route after another.                            *)
(***************************************************************************)
EXTENDS Integers, Sequences

Seqs == INSTANCE SequencesExt

CONSTANTS
  OctetBits,      \* the bits of an octet
  Groups,         \* the groups of an IPv6 address
  GroupValues     \* the values a group takes

ASSUME OctetAssumption == OctetBits \in Nat \ {0}
ASSUME GroupsAssumption == Groups \in Nat \ {0} /\ GroupValues \subseteq Nat

VARIABLES
  ip,             \* the octets of an IPv4 address
  mask,           \* those of a mask
  length,         \* a prefix length
  ip6             \* the groups of an IPv6 address

routeVars == <<ip, mask, length, ip6>>

Base == 2^OctetBits
Width == 4 * OctetBits
Octets == [1..4 -> 0..Base - 1]

-----------------------------------------------------------------------------
(* CidrBlock. *)

(* What the i-th octet is shifted by. *)
Place(i) == 2^((4 - i) * OctetBits)

GetInt(parts) ==
  parts[1] * Place(1) + parts[2] * Place(2) + parts[3] * Place(3) + parts[4] * Place(4)

(* String.format of the four bytes of a number. *)
Format(n) == [i \in 1..4 |-> (n \div Place(i)) % Base]

(* The loop that shifts zeros out. *)
LenZeros[netmask \in Nat \ {0}] ==
  IF netmask % 2 # 0 THEN 0 ELSE 1 + LenZeros[netmask \div 2]

(* A mutant: the bit above the mask is forgotten, and stands for no ones.  *)
BlockLenNoTop(subnetMask) ==
  LET netmask == GetInt(subnetMask)
      zeros == IF netmask = 0 THEN 0 ELSE LenZeros[netmask]
  IN IF netmask \div 2^zeros # (2^Width - 1) \div 2^zeros THEN Width ELSE Width - zeros

(* getBlockLenFromMask: a one above the mask ends the loop.  A mask with a *)
(* hole counts as that of a single host.                                   *)
BlockLenFromMask(subnetMask) ==
  LET netmask == GetInt(subnetMask) + 2^Width
      zeros == LenZeros[netmask]
  IN IF netmask \div 2^zeros # (2^(Width + 1) - 1) \div 2^zeros
     THEN Width ELSE Width - zeros

(* A mutant: the mask is not moved to the left. *)
NormaliseShort(parts, len) ==
  LET n == GetInt(parts) IN Format(n - (n % 2^len))

(* normalise: and with the ones moved left by the host bits. *)
Normalise(parts, len) ==
  LET n == GetInt(parts) IN Format(n - (n % 2^(Width - len)))

-----------------------------------------------------------------------------
(* iPv6Address. *)

Null == [groups |-> <<>>, elided |-> FALSE]

(* A mutant: zeros are skipped wherever they are. *)
PassSkipsZeros(part, text) ==
  IF part = 0 THEN [text EXCEPT !.elided = TRUE]
  ELSE [text EXCEPT !.groups = <<part>> \o @]

(* One pass of the loop, for one group from the right.  Zeros before any   *)
(* text are skipped, and leave a "::" behind.                              *)
Pass(part, text) ==
  IF text.groups = <<>> /\ part = 0 THEN [text EXCEPT !.elided = TRUE]
  ELSE [text EXCEPT !.groups = <<part>> \o @]

(* The loop ends when the rest of the number is zero. *)
Passes(address) ==
  LET used == {i \in 1..Groups : address[i] # 0}
  IN IF used = {} THEN <<>>
     ELSE SubSeq(address, CHOOSE i \in used : \A j \in used : i <= j, Groups)

IPv6Address(address) ==
  LET text == Seqs!FoldRight(Pass, Passes(address), Null)
  IN IF text = Null THEN [groups |-> <<>>, elided |-> TRUE] ELSE text

(* How VpnService.Builder.addRoute reads a text: without "::" it takes all *)
(* the groups, with it at least one fewer.                                 *)
Zeros6(n) == [i \in 1..n |-> 0]

ReadIPv6(text) ==
  IF text.elided /\ Len(text.groups) < Groups
  THEN text.groups \o Zeros6(Groups - Len(text.groups))
  ELSE IF ~text.elided /\ Len(text.groups) = Groups THEN text.groups
  ELSE <<>>

-----------------------------------------------------------------------------

NoRoute == <<Zeros6(4), Zeros6(4), 0, Zeros6(Groups)>>

RouteInit ==
  /\ ip = [i \in 1..4 |-> 0]
  /\ mask = [i \in 1..4 |-> 0]
  /\ length = 0
  /\ ip6 = Zeros6(Groups)

(* addRoute with a mask, addRoute with a length, addRoutev6. *)
RouteWithMask(m) ==
  /\ mask' = m
  /\ UNCHANGED <<ip, length, ip6>>

RouteWithLength(address, len) ==
  /\ ip' = address
  /\ length' = len
  /\ UNCHANGED <<mask, ip6>>

RouteV6(address) ==
  /\ ip6' = address
  /\ UNCHANGED <<ip, mask, length>>

Convert ==
  /\ routeVars = NoRoute
  /\ \/ \E m \in Octets : RouteWithMask(m)
     \/ \E address \in Octets, len \in 0..Width : RouteWithLength(address, len)
     \/ \E address \in [1..Groups -> GroupValues] : RouteV6(address)

(* The route is done with. *)
Converted ==
  /\ routeVars # NoRoute
  /\ ip' = [i \in 1..4 |-> 0]
  /\ mask' = [i \in 1..4 |-> 0]
  /\ length' = 0
  /\ ip6' = Zeros6(Groups)

RouteSpec == RouteInit /\ [][Convert \/ Converted]_routeVars

-----------------------------------------------------------------------------

(* The addresses of the network of an address, by the prefix they share.   *)
NetworkOf(n, len) ==
  {a \in 0 .. 2^Width - 1 : a \div 2^(Width - len) = n \div 2^(Width - len)}

(* A mask of ones followed by zeros has the length of its ones, the empty  *)
(* and the full mask included, and any other that of a host (CidrBlock     *)
(* 44-59, where the loop has no bound but the bit it adds).                *)
MaskLength ==
  LET lengths == {len \in 0..Width : GetInt(mask) = 2^Width - 2^(Width - len)}
  IN BlockLenFromMask(mask) =
       IF lengths = {} THEN Width ELSE CHOOSE len \in lengths : TRUE

(* normalise gives the first address of the network, in the form getInt    *)
(* reads back, for every length from 0 to the full one (CidrBlock 25-35):  *)
(* without it the route is refused with its host bits (PolarVpnService     *)
(* 586-588).                                                               *)
NormalIsFirst ==
  LET net == NetworkOf(GetInt(ip), length)
      first == GetInt(Normalise(ip, length))
  IN first \in net /\ \A a \in net : first <= a

(* The text of an IPv6 address is read back as that address exactly when   *)
(* its first group is not zero, or all of them are (IpAddress 86-103, and  *)
(* PolarVpnService 594, which gives the text to the system).               *)
ReadsBack ==
  (ReadIPv6(IPv6Address(ip6)) = ip6) <=> (ip6[1] # 0 \/ ip6 = Zeros6(Groups))
=============================================================================
