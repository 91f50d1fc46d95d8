---------------------------- MODULE NetworkSpace ----------------------------
(***************************************************************************)
(* NetworkSpace and IpAddress: from the routes that are included in the    *)
(* tunnel and excluded from it, the list of networks to route into it.     *)
(*                                                                         *)
(* A network is a first address, a prefix length and a flag.  The routes   *)
(* are kept in a TreeSet whose order knows nothing of the flag; the list   *)
(* is computed by a loop over a PriorityQueue of them that splits a        *)
(* network in two where one with the other flag lies inside it.  One       *)
(* action is one pass through the loop.  Addresses have Bits bits, 32 or   *)
(* 128 in the code, and routes come with the host bits clear.              *)
(***************************************************************************)
EXTENDS Integers, FiniteSets, Bags

CONSTANTS
  Bits,           \* the width of an address
  MaxRoutes,      \* bound on the routes of one list
  MaxExcluded     \* bound on the routes that are excluded

ASSUME WidthAssumption == Bits \in Nat \ {0}
ASSUME RoutesAssumption == MaxRoutes \in Nat /\ MaxExcluded \in Nat

VARIABLES
  ipAddresses,    \* the TreeSet of the routes
  networks,       \* the PriorityQueue, a bag: a network may be in it twice
  currentNet,     \* the network the loop holds, NoNet at the ends
  ipsDone,        \* the TreeSet the loop fills
  positiveIPList, \* what the property of that name returned
  pc              \* "adding", "looping", "listed"

vars == <<ipAddresses, networks, currentNet, ipsDone, positiveIPList, pc>>

Addresses == 0 .. 2^Bits - 1

(* The number of addresses of a network.  A mask beyond the width leaves   *)
(* getMaskedAddress nothing to do.                                         *)
Size(mask) == IF mask > Bits THEN 1 ELSE 2^(Bits - mask)

Net(address, mask, included) ==
  [first |-> address - (address % Size(mask)), mask |-> mask, included |-> included]

Nets == {Net(a, m, i) : a \in Addresses, m \in 0..Bits, i \in BOOLEAN}

NoNet == [first |-> -1, mask |-> -1, included |-> FALSE]

Last(net) == net.first + Size(net.mask) - 1

Block(net) == net.first .. Last(net)

(* compareTo: by first address, the longer prefix before the shorter. *)
Before(a, b) == a.first < b.first \/ (a.first = b.first /\ a.mask > b.mask)

(* equals, and compareTo giving 0: the flag does not count. *)
Same(a, b) == a.first = b.first /\ a.mask = b.mask

Contains(nets, net) == \E n \in nets : Same(n, net)

(* TreeSet.add: an element that is there already stays. *)
With(nets, net) == IF Contains(nets, net) THEN nets ELSE nets \cup {net}

(* split: the two halves, of a network or of what is left of one. *)
Lower(net) == [net EXCEPT !.mask = @ + 1]

Upper(net) == [net EXCEPT !.mask = @ + 1, !.first = Last(Lower(net)) + 1]

ContainsNet(a, b) == a.first <= b.first /\ Last(a) >= Last(b)

-----------------------------------------------------------------------------

Init ==
  /\ ipAddresses = {}
  /\ networks = EmptyBag
  /\ currentNet = NoNet
  /\ ipsDone = {}
  /\ positiveIPList = {}
  /\ pc = "adding"

Holes == {n \in ipAddresses : ~n.included}

(* The routes asked for: a hole in the included ones has no included route *)
(* inside it again.                                                        *)
Plain(nets) ==
  \A e, i \in nets : ~e.included /\ i.included => ~ContainsNet(e, i)

(* addIPv4, addIPv6. *)
AddRoute ==
  /\ pc = "adding"
  /\ Cardinality(ipAddresses) < MaxRoutes
  /\ \E net \in Nets :
       /\ ~net.included => Cardinality(Holes) < MaxExcluded
       /\ Plain(With(ipAddresses, net))
       /\ ipAddresses' = With(ipAddresses, net)
  /\ UNCHANGED <<networks, currentNet, ipsDone, positiveIPList, pc>>

(* The head of the queue; compareTo leaves the order of equals open. *)
Heads(queue) ==
  {n \in BagToSet(queue) : \A o \in BagToSet(queue) : ~Before(o, n)}

Poll(queue, net) == queue (-) SetToBag({net})
Offer(queue, nets) == queue (+) SetToBag(nets)

(* generateIPList, up to the loop. *)
GenerateIPList ==
  /\ pc = "adding"
  /\ ipsDone' = {}
  /\ IF ipAddresses = {}
     THEN networks' = EmptyBag /\ currentNet' = NoNet
     ELSE \E net \in Heads(SetToBag(ipAddresses)) :
            /\ currentNet' = net
            /\ networks' = Poll(SetToBag(ipAddresses), net)
  /\ pc' = "looping"
  /\ UNCHANGED <<ipAddresses, positiveIPList>>

(* The loop has a network and polls the next. *)
Looping(nextNet) ==
  /\ pc = "looping"
  /\ currentNet # NoNet
  /\ nextNet \in Heads(networks)
  /\ UNCHANGED <<ipAddresses, positiveIPList, pc>>

(* A mutant: the first addresses are compared. *)
ApartByFirst(nextNet) == currentNet.first < nextNet.first

Apart(nextNet) == Last(currentNet) < nextNet.first

(* The network is finished with: it is the last, or ends before the next. *)
Done ==
  \/ /\ pc = "looping"
     /\ currentNet # NoNet
     /\ networks = EmptyBag
     /\ ipsDone' = With(ipsDone, currentNet)
     /\ currentNet' = NoNet
     /\ UNCHANGED <<ipAddresses, networks, positiveIPList, pc>>
  \/ \E nextNet \in Heads(networks) :
       /\ Looping(nextNet)
       /\ Apart(nextNet)
       /\ ipsDone' = With(ipsDone, currentNet)
       /\ currentNet' = nextNet
       /\ networks' = Poll(networks, nextNet)

(* The next network begins where this one does and is no smaller. *)
Covers(nextNet) ==
  currentNet.first = nextNet.first /\ currentNet.mask >= nextNet.mask

(* It says the same of it: this one is dropped. *)
Absorb ==
  \E nextNet \in Heads(networks) :
    /\ Looping(nextNet)
    /\ ~Apart(nextNet) /\ Covers(nextNet)
    /\ currentNet.included = nextNet.included
    /\ currentNet' = nextNet
    /\ networks' = Poll(networks, nextNet)
    /\ UNCHANGED ipsDone

(* It says the opposite: its halves go back, but for one that is this one. *)
SplitNext ==
  \E nextNet \in Heads(networks) :
    /\ Looping(nextNet)
    /\ ~Apart(nextNet) /\ Covers(nextNet)
    /\ currentNet.included # nextNet.included
    /\ LET queue == BagToSet(Poll(networks, nextNet))
           halves == {Upper(nextNet)} \cup
                       (IF Last(Lower(nextNet)) # Last(currentNet)
                        THEN {Lower(nextNet)} ELSE {})
       IN networks' = Offer(Poll(networks, nextNet),
                            {h \in halves : ~Contains(queue, h)})
    /\ UNCHANGED <<currentNet, ipsDone>>

(* A mutant: the next network is looked at and not taken. *)
SkipPeeks ==
  \E nextNet \in Heads(networks) :
    /\ Looping(nextNet)
    /\ ~Apart(nextNet) /\ ~Covers(nextNet)
    /\ currentNet.included = nextNet.included
    /\ UNCHANGED <<networks, currentNet, ipsDone>>

(* The next network lies inside this one and says the same of it. *)
Skip ==
  \E nextNet \in Heads(networks) :
    /\ Looping(nextNet)
    /\ ~Apart(nextNet) /\ ~Covers(nextNet)
    /\ currentNet.included = nextNet.included
    /\ networks' = Poll(networks, nextNet)
    /\ UNCHANGED <<currentNet, ipsDone>>

(* A mutant: the upper half is forgotten. *)
SplitCurrentForgets ==
  \E nextNet \in Heads(networks) :
    /\ Looping(nextNet)
    /\ ~Apart(nextNet) /\ ~Covers(nextNet)
    /\ currentNet.included # nextNet.included
    /\ UNCHANGED networks
    /\ currentNet' = Lower(currentNet)
    /\ UNCHANGED ipsDone

(* It lies inside this one and says the opposite: this one is split, and   *)
(* the upper half goes into the queue unless the next takes its place.     *)
SplitCurrent ==
  \E nextNet \in Heads(networks) :
    /\ Looping(nextNet)
    /\ ~Apart(nextNet) /\ ~Covers(nextNet)
    /\ currentNet.included # nextNet.included
    /\ networks' = IF Upper(currentNet).mask # nextNet.mask
                   THEN Offer(networks, {Upper(currentNet)})
                   ELSE networks
    /\ currentNet' = Lower(currentNet)
    /\ UNCHANGED ipsDone

(* The included networks that the loop left; before KitKat also the routes *)
(* themselves where no excluded network lies inside.                       *)
Legacy ==
  {n \in ipAddresses :
     /\ n.included
     /\ ~Contains(ipsDone, n)
     /\ \A d \in ipsDone : ~d.included => ~ContainsNet(n, d)}

PositiveIPList ==
  /\ pc = "looping"
  /\ currentNet = NoNet
  /\ \E legacy \in BOOLEAN :
       positiveIPList' = {n \in ipsDone : n.included} \cup
                           (IF legacy THEN Legacy ELSE {})
  /\ pc' = "listed"
  /\ UNCHANGED <<ipAddresses, networks, currentNet, ipsDone>>

(* clear, when the interface has been built, and the next list begins. *)
Clear ==
  /\ pc = "listed"
  /\ ipAddresses' = {}
  /\ ipsDone' = {}
  /\ positiveIPList' = {}
  /\ pc' = "adding"
  /\ UNCHANGED <<networks, currentNet>>

LoopStep == Done \/ Absorb \/ SplitNext \/ Skip \/ SplitCurrent

Next == AddRoute \/ GenerateIPList \/ LoopStep \/ PositiveIPList \/ Clear

Spec == Init /\ [][Next]_vars

(* The loop is the body of a method: once begun, it runs on. *)
FairSpec == Spec /\ WF_vars(LoopStep) /\ WF_vars(PositiveIPList)
-----------------------------------------------------------------------------
(* Properties.                                                             *)

TypeOK ==
  /\ ipAddresses \subseteq Nets
  /\ IsABag(networks)
  /\ BagToSet(networks) \subseteq Nets
  /\ currentNet \in Nets \cup {NoNet}
  /\ ipsDone \subseteq Nets
  /\ positiveIPList \subseteq Nets
  /\ pc \in {"adding", "looping", "listed"}

(* The routes that say something of an address, and the longest prefix.    *)
Matching(a) == {n \in ipAddresses : a \in Block(n)}
LongestMatch(a) ==
  CHOOSE n \in Matching(a) : \A o \in Matching(a) : o.mask <= n.mask
Routed(a) == Matching(a) # {} /\ LongestMatch(a).included

(* The list covers an address exactly when the longest route that matches  *)
(* the address is an included one (NetworkSpace 39-97, which never looks   *)
(* for the longest match).                                                 *)
ListIsLongestMatch ==
  pc = "listed" =>
    \A a \in Addresses : (\E n \in positiveIPList : a \in Block(n)) <=> Routed(a)

(* What the loop is done with is in order, does not overlap, and lies      *)
(* before what it holds (NetworkSpace 69-71).                              *)
DoneApart ==
  /\ \A m, n \in ipsDone : m # n => Block(m) \cap Block(n) = {}
  /\ currentNet # NoNet => \A n \in ipsDone : Last(n) < currentNet.first

(* The loop comes to an end, although it puts back what it takes           *)
(* (NetworkSpace 67-95).                                                   *)
LoopEnds == pc = "looping" ~> pc = "listed"
=============================================================================
