----------------------------- MODULE RouteProofs -----------------------------
(***************************************************************************)
(* Proofs about the list of routes (NetworkSpace) and the conversions of   *)
(* addresses (AddressConversion), for every width of an address, every     *)
(* number of routes and every value of an octet.                           *)
(***************************************************************************)
EXTENDS MCRoutes, FiniteSetTheorems, FunctionTheorems, SequenceTheorems,
        WellFoundedInduction, TLAPS

-----------------------------------------------------------------------------
(* Powers of two.                                                          *)

(* A power of two is the number of subsets of an interval.                 *)
LEMMA PowerCounts ==
  ASSUME NEW n \in Nat
  PROVE  /\ IsFiniteSet(SUBSET (1..n))
         /\ Cardinality(SUBSET (1..n)) = 2^n
<1>1. IsFiniteSet(1..n) /\ Cardinality(1..n) = n
  BY FS_Interval
<1> QED
  BY <1>1, FS_SUBSET

LEMMA PowerPositive ==
  ASSUME NEW n \in Nat
  PROVE  2^n \in Nat \ {0}
<1> DEFINE S == SUBSET (1..n)
<1>1. IsFiniteSet(S) /\ Cardinality(S) = 2^n
  BY PowerCounts
<1>2. S # {}
  OBVIOUS
<1> HIDE DEF S
<1>3. Cardinality(S) \in Nat /\ Cardinality(S) # 0
  BY <1>1, <1>2, FS_CardinalityType, FS_EmptySet
<1> QED
  BY <1>1, <1>3

(* The subsets of two disjoint sets together are pairs of their subsets.   *)
LEMMA SubsetsOfUnion ==
  ASSUME NEW A, NEW B, A \cap B = {}
  PROVE  ExistsBijection((SUBSET A) \X (SUBSET B), SUBSET (A \cup B))
<1> DEFINE f == [p \in (SUBSET A) \X (SUBSET B) |-> p[1] \cup p[2]]
<1>1. f \in [(SUBSET A) \X (SUBSET B) -> SUBSET (A \cup B)]
  OBVIOUS
<1>2. ASSUME NEW p \in (SUBSET A) \X (SUBSET B), NEW q \in (SUBSET A) \X (SUBSET B),
             f[p] = f[q]
      PROVE  p = q
  <2>1. p[1] \subseteq A /\ p[2] \subseteq B /\ q[1] \subseteq A /\ q[2] \subseteq B
    OBVIOUS
  <2>2. p[1] \cup p[2] = q[1] \cup q[2]
    BY <1>2
  <2>3. p[1] = q[1] /\ p[2] = q[2]
    BY <2>1, <2>2
  <2> QED
    BY <2>3
<1>3. ASSUME NEW T \in SUBSET (A \cup B)
      PROVE  \E p \in (SUBSET A) \X (SUBSET B) : f[p] = T
  <2>1. <<T \cap A, T \cap B>> \in (SUBSET A) \X (SUBSET B)
    OBVIOUS
  <2>2. f[<<T \cap A, T \cap B>>] = T
    BY <2>1
  <2> QED
    BY <2>1, <2>2
<1>4. f \in Bijection((SUBSET A) \X (SUBSET B), SUBSET (A \cup B))
  BY <1>1, <1>2, <1>3, Fun_IsBij
<1> QED
  BY <1>4 DEF ExistsBijection

LEMMA PowerOfSum ==
  ASSUME NEW m \in Nat, NEW n \in Nat
  PROVE  2^(m + n) = 2^m * 2^n
<1> DEFINE A == 1..m
           B == m+1..m+n
<1>1. A \cap B = {} /\ A \cup B = 1..m + n
  OBVIOUS
<1>2. IsFiniteSet(A) /\ Cardinality(A) = m
  BY FS_Interval
<1>3. IsFiniteSet(B) /\ Cardinality(B) = n
  BY FS_Interval
<1>4. IsFiniteSet(SUBSET (A \cup B)) /\ Cardinality(SUBSET (A \cup B)) = 2^(m + n)
  BY <1>1, PowerCounts
<1> HIDE DEF A, B
<1>5. /\ IsFiniteSet(SUBSET A) /\ Cardinality(SUBSET A) = 2^m
      /\ IsFiniteSet(SUBSET B) /\ Cardinality(SUBSET B) = 2^n
  BY <1>2, <1>3, FS_SUBSET
<1>6. /\ IsFiniteSet((SUBSET A) \X (SUBSET B))
      /\ Cardinality((SUBSET A) \X (SUBSET B)) = 2^m * 2^n
  BY <1>5, FS_Product
<1> QED
  BY <1>1, <1>4, <1>6, SubsetsOfUnion, FS_Bijection

LEMMA PowerDoubles ==
  ASSUME NEW n \in Nat
  PROVE  2^(n + 1) = 2 * 2^n
<1>1. 2^1 = 2
  OBVIOUS
<1>2. 2^(n + 1) = 2^n * 2^1
  BY PowerOfSum
<1> QED
  BY <1>1, <1>2, PowerPositive

(* Every set of numbers that is not empty has a least one.                 *)
LEMMA LeastNumber ==
  ASSUME NEW T \in SUBSET Nat, T # {}
  PROVE  \E n \in T : \A k \in T : n <= k
<1>1. PICK n \in T : \A k \in T : ~ (<<k, n>> \in OpToRel(<, Nat))
  BY WFMin, NatLessThanWellFounded, Zenon
<1>2. \A k \in T : ~ (k < n)
  BY <1>1, Zenon DEF OpToRel
<1> QED
  BY <1>2

-----------------------------------------------------------------------------
(* Numbers: the products and quotients the rest needs.                     *)
LEMMA ProductGrows ==
  ASSUME NEW m \in Int, NEW n \in Int, NEW s \in Nat, m <= n
  PROVE  m * s <= n * s
  OBVIOUS

LEMMA DivMod ==
  ASSUME NEW a \in Int, NEW s \in Nat \ {0}
  PROVE  /\ a \div s \in Int /\ a % s \in 0 .. s - 1
         /\ a = (a \div s) * s + (a % s)
<1>1. a % s \in 0 .. s - 1 /\ a \div s \in Int
  OBVIOUS
<1>2. a = (a \div s) * s + (a % s)
  BY <1>1, Z3
<1> QED
  BY <1>1, <1>2

LEMMA MultipleMod ==
  ASSUME NEW q \in Int, NEW s \in Nat \ {0}
  PROVE  (q * s) % s = 0
  OBVIOUS

-----------------------------------------------------------------------------
(* Networks.                                                               *)
LEMMA SizePositive ==
  ASSUME NEW m \in Nat
  PROVE  Size(m) \in Nat \ {0}
<1>1. CASE m > Bits
  BY <1>1 DEF Size
<1>2. CASE ~(m > Bits)
  <2>1. Bits - m \in Nat
    BY <1>2, WidthAssumption
  <2> QED
    BY <1>2, <2>1, PowerPositive DEF Size
<1> QED
  BY <1>1, <1>2

(* A shorter prefix has a multiple of the addresses, and one bit less      *)
(* twice as many.                                                          *)
LEMMA SizeDivides ==
  ASSUME NEW m \in 0 .. Bits, NEW n \in 0 .. Bits, m <= n
  PROVE  \E p \in Nat \ {0} : Size(m) = p * Size(n)
<1>1. n - m \in Nat /\ Bits - n \in Nat /\ Bits - m = (n - m) + (Bits - n)
  BY WidthAssumption
<1>2. 2^(Bits - m) = 2^(n - m) * 2^(Bits - n)
  BY <1>1, PowerOfSum
<1>3. Size(m) = 2^(Bits - m) /\ Size(n) = 2^(Bits - n)
  BY WidthAssumption DEF Size
<1> QED
  BY <1>1, <1>2, <1>3, PowerPositive

LEMMA SizeHalves ==
  ASSUME NEW m \in 0 .. Bits, m < Bits
  PROVE  Size(m) = 2 * Size(m + 1)
<1>1. Bits - (m + 1) \in Nat /\ Bits - m = (Bits - (m + 1)) + 1
  BY WidthAssumption
<1>2. 2^(Bits - m) = 2 * 2^(Bits - (m + 1))
  BY <1>1, PowerDoubles
<1> QED
  BY <1>2, WidthAssumption DEF Size

(* A network is a record whose first address is a multiple of its size.    *)
IsNet(net) ==
  /\ net \in [first : Addresses, mask : 0 .. Bits, included : BOOLEAN]
  /\ \E q \in Nat : net.first = q * Size(net.mask)

LEMMA NetsAreAligned ==
  ASSUME NEW net
  PROVE  net \in Nets <=> IsNet(net)
<1>1. ASSUME net \in Nets PROVE IsNet(net)
  <2>1. PICK a \in Addresses, m \in 0 .. Bits, i \in BOOLEAN : net = Net(a, m, i)
    BY <1>1 DEF Nets
  <2>2. Size(m) \in Nat \ {0}
    BY SizePositive
  <2>3. a \in Nat /\ a < 2^Bits
    BY WidthAssumption, PowerPositive DEF Addresses
  <2> DEFINE s == Size(m)
             q == a \div s
  <2>4. a - (a % s) = q * s /\ a - (a % s) <= a /\ q \in Int
    <3>1. s \in Nat \ {0} /\ a \in Int
      BY <2>2, <2>3
    <3> HIDE DEF s
    <3>2. /\ a \div s \in Int /\ a % s \in 0 .. s - 1
          /\ a = (a \div s) * s + (a % s)
      BY <3>1, DivMod, Zenon
    <3> DEFINE qs == q * s
    <3>3. qs \in Int /\ a = qs + (a % s)
      BY <3>1, <3>2
    <3> HIDE DEF qs
    <3>4. a - (a % s) = qs /\ a - (a % s) <= a
      BY <3>1, <3>2, <3>3
    <3> QED
      BY <3>2, <3>4 DEF qs
  <2>5. q \in Nat
    BY <2>2, <2>3, <2>4
  <2>6. net = [first |-> q * s, mask |-> m, included |-> i]
    BY <2>1, <2>4 DEF Net
  <2>7. q * s \in Nat
    BY <2>2, <2>5
  <2>8. q * s \in Addresses
    BY <2>3, <2>4, <2>7, WidthAssumption, PowerPositive DEF Addresses
  <2> HIDE DEF q, s
  <2> QED
    BY <2>5, <2>6, <2>8 DEF IsNet, s
<1>2. ASSUME IsNet(net) PROVE net \in Nets
  <2>1. PICK q \in Nat : net.first = q * Size(net.mask)
    BY <1>2 DEF IsNet
  <2>2. /\ net \in [first : Addresses, mask : 0 .. Bits, included : BOOLEAN]
        /\ Size(net.mask) \in Nat \ {0}
    BY <1>2, SizePositive DEF IsNet
  <2>3. net.first % Size(net.mask) = 0
    BY <2>1, <2>2, MultipleMod
  <2>4. net.first \in Int
    BY <2>2, WidthAssumption, PowerPositive DEF Addresses
  <2>5. net = Net(net.first, net.mask, net.included)
    BY <2>2, <2>3, <2>4 DEF Net
  <2> QED
    BY <2>2, <2>5 DEF Nets
<1> QED
  BY <1>1, <1>2

LEMMA NetTypes ==
  ASSUME NEW net \in Nets
  PROVE  /\ net = [first |-> net.first, mask |-> net.mask, included |-> net.included]
         /\ net.first \in Nat /\ net.first < 2^Bits
         /\ net.mask \in Nat /\ net.mask <= Bits /\ net.included \in BOOLEAN
         /\ Size(net.mask) \in Nat \ {0}
         /\ Last(net) \in Nat /\ net.first <= Last(net)
<1>1. net \in [first : Addresses, mask : 0 .. Bits, included : BOOLEAN]
  BY NetsAreAligned DEF IsNet
<1>2. 2^Bits \in Nat
  BY WidthAssumption, PowerPositive
<1>3. /\ net.first \in Nat /\ net.first < 2^Bits
      /\ net.mask \in Nat /\ net.mask <= Bits /\ net.included \in BOOLEAN
  BY <1>1, <1>2, WidthAssumption DEF Addresses
<1>4. Size(net.mask) \in Nat \ {0}
  BY <1>3, SizePositive
<1> QED
  BY <1>1, <1>3, <1>4 DEF Last

(* Two networks that share an address are one inside the other.            *)
LEMMA NetsAreNested ==
  ASSUME NEW a \in Nets, NEW b \in Nets, a.mask <= b.mask,
         NEW x \in Int, a.first <= x, x <= Last(a), b.first <= x, x <= Last(b)
  PROVE  ContainsNet(a, b)
<1> DEFINE s == Size(b.mask)
<1>1. PICK p \in Nat \ {0} : Size(a.mask) = p * s
  BY SizeDivides, NetTypes
<1>2. PICK qa \in Nat : a.first = qa * Size(a.mask)
  BY NetsAreAligned DEF IsNet
<1>3. PICK qb \in Nat : b.first = qb * s
  BY NetsAreAligned DEF IsNet
<1>4. s \in Nat \ {0}
  BY NetTypes
<1>5. Last(a) = qa * Size(a.mask) + Size(a.mask) - 1 /\ Last(b) = qb * s + s - 1
  BY <1>2, <1>3 DEF Last
<1> HIDE DEF s
<1>6. qa * Size(a.mask) = (qa * p) * s /\ Size(a.mask) = p * s
  BY <1>1, <1>4
<1> DEFINE k == qa * p
<1>7. k \in Nat /\ a.first = k * s /\ Last(a) = (k + p) * s - 1
  BY <1>1, <1>2, <1>4, <1>5, <1>6
<1> HIDE DEF k
<1>8. b.first = qb * s /\ Last(b) = (qb + 1) * s - 1
  BY <1>3, <1>4, <1>5
<1>9. ~(qb + 1 <= k)
  <2>1. ASSUME qb + 1 <= k PROVE FALSE
    <3>1. (qb + 1) * s <= k * s
      BY <1>4, <1>7, <2>1, ProductGrows
    <3> QED
      BY <1>4, <1>7, <1>8, <3>1
  <2> QED
    BY <2>1
<1>10. ~(k + p <= qb)
  <2>1. ASSUME k + p <= qb PROVE FALSE
    <3>1. (k + p) * s <= qb * s
      BY <1>1, <1>4, <1>7, <2>1, ProductGrows
    <3> QED
      BY <1>1, <1>4, <1>7, <1>8, <3>1
  <2> QED
    BY <2>1
<1>11. k * s <= qb * s /\ (qb + 1) * s <= (k + p) * s
  BY <1>1, <1>4, <1>7, <1>9, <1>10, ProductGrows
<1> QED
  BY <1>1, <1>4, <1>7, <1>8, <1>11 DEF ContainsNet

(* The two halves of a network.                                            *)
LEMMA Halves ==
  ASSUME NEW net \in Nets, net.mask < Bits
  PROVE  /\ Lower(net) \in Nets /\ Upper(net) \in Nets
         /\ Lower(net).first = net.first
         /\ Lower(net).mask = net.mask + 1 /\ Lower(net).included = net.included
         /\ Upper(net).mask = net.mask + 1 /\ Upper(net).included = net.included
         /\ Upper(net).first = Last(Lower(net)) + 1
         /\ Upper(net).first = net.first + Size(net.mask + 1)
         /\ Last(Upper(net)) = Last(net)
         /\ Last(Lower(net)) = net.first + Size(net.mask + 1) - 1
<1> DEFINE s == Size(net.mask + 1)
<1>1. PICK q \in Nat : net.first = q * Size(net.mask)
  BY NetsAreAligned DEF IsNet
<1>2. s \in Nat \ {0} /\ Size(net.mask) = 2 * s
  BY NetTypes, SizePositive, SizeHalves
<1>3. net.first = (2 * q) * s /\ net.first + s = (2 * q + 1) * s
  <2> HIDE DEF s
  <2> QED
    BY <1>1, <1>2
<1>4. PICK p \in Nat \ {0} : 2^Bits = p * Size(net.mask)
  <2>1. 0 \in 0 .. Bits /\ net.mask \in 0 .. Bits /\ Size(0) = 2^Bits
    BY NetTypes, WidthAssumption DEF Size
  <2> QED
    BY <2>1, SizeDivides
<1>5. net.first + Size(net.mask) <= 2^Bits
  <2>1. q < p
    <3>1. ASSUME p <= q PROVE FALSE
      <4>1. p * Size(net.mask) <= q * Size(net.mask)
        BY <1>4, <3>1, NetTypes, ProductGrows
      <4> QED
        BY <1>1, <1>4, <4>1, NetTypes
    <3> QED
      BY <3>1, <1>4
  <2>2. (q + 1) * Size(net.mask) <= p * Size(net.mask)
    <3>1. q + 1 \in Int /\ p \in Int /\ q + 1 <= p /\ Size(net.mask) \in Nat
      BY <1>4, <2>1, NetTypes
    <3> QED
      BY <3>1, ProductGrows
  <2>3. (q + 1) * Size(net.mask) = q * Size(net.mask) + Size(net.mask)
    BY NetTypes
  <2> QED
    BY <1>1, <1>4, <2>2, <2>3
<1>6. net.first + s \in Addresses /\ net.first \in Addresses
  <2> HIDE DEF s
  <2> QED
    BY <1>2, <1>5, NetTypes, PowerPositive, WidthAssumption DEF Addresses
<1>7. /\ Lower(net) = [first |-> net.first, mask |-> net.mask + 1, included |-> net.included]
      /\ Lower(net) = [net EXCEPT !.mask = net.mask + 1]
  BY NetTypes DEF Lower
<1>8. Last(Lower(net)) = net.first + s - 1
  BY <1>7 DEF Last
<1>9. Upper(net) = [first |-> net.first + s, mask |-> net.mask + 1, included |-> net.included]
  <2> HIDE DEF s
  <2>1. (net.first + s - 1) + 1 = net.first + s
    BY <1>2, NetTypes
  <2>2. net = [first |-> net.first, mask |-> net.mask, included |-> net.included]
    BY NetTypes
  <2>3. Upper(net) = [first |-> Last(Lower(net)) + 1, mask |-> net.mask + 1,
                      included |-> net.included]
    <3>1. Upper(net) = [[net EXCEPT !.mask = net.mask + 1]
                          EXCEPT !.first = Last(Lower(net)) + 1]
      BY DEF Upper
    <3>2. Upper(net) = [[first |-> net.first, mask |-> net.mask + 1, included |-> net.included]
                          EXCEPT !.first = Last(Lower(net)) + 1]
      BY <1>7, <3>1, Zenon
    <3> DEFINE next == Last(Lower(net)) + 1
    <3> HIDE DEF next
    <3>3. [[first |-> net.first, mask |-> net.mask + 1, included |-> net.included]
             EXCEPT !.first = next]
            = [first |-> next, mask |-> net.mask + 1, included |-> net.included]
      OBVIOUS
    <3> QED
      BY <3>2, <3>3 DEF next
  <2> QED
    BY <1>8, <2>1, <2>3
<1>10. Last(Upper(net)) = Last(net)
  <2>1. Last(Upper(net)) = net.first + s + s - 1
    BY <1>9 DEF Last
  <2> HIDE DEF s
  <2> QED
    BY <1>2, <2>1, NetTypes DEF Last
<1>11. IsNet(Lower(net))
  BY <1>1, <1>3, <1>6, <1>7, NetTypes, WidthAssumption DEF IsNet
<1>12. IsNet(Upper(net))
  BY <1>1, <1>3, <1>6, <1>9, NetTypes, WidthAssumption DEF IsNet
<1> HIDE DEF s
<1>13. Last(Lower(net)) + 1 = net.first + s
  BY <1>2, <1>8, NetTypes
<1> QED
  BY <1>7, <1>8, <1>9, <1>10, <1>11, <1>12, <1>13, NetsAreAligned DEF s

-----------------------------------------------------------------------------
(* The queue: what polling leaves in it and what offering puts there.      *)
LEMMA Queued ==
  ASSUME NEW S
  PROVE  IsABag(SetToBag(S)) /\ BagToSet(SetToBag(S)) = S
BY DEF IsABag, SetToBag, BagToSet

LEMMA EmptyQueue == IsABag(EmptyBag) /\ BagToSet(EmptyBag) = {}
BY Queued DEF EmptyBag

LEMMA Polled ==
  ASSUME NEW Q, IsABag(Q), NEW n
  PROVE  /\ IsABag(Poll(Q, n))
         /\ BagToSet(Poll(Q, n)) \subseteq BagToSet(Q)
         /\ BagToSet(Q) \subseteq BagToSet(Poll(Q, n)) \cup {n}
<1> DEFINE One == SetToBag({n})
           B == [e \in DOMAIN Q |-> IF e \in DOMAIN One THEN Q[e] - One[e] ELSE Q[e]]
<1>1. DOMAIN One = {n} /\ One[n] = 1
  BY DEF SetToBag
<1>2. \A e \in DOMAIN Q : Q[e] \in Nat /\ Q[e] > 0
  BY DEF IsABag
<1>3. \A e \in DOMAIN Q : B[e] \in Int /\ (e # n => B[e] = Q[e])
  BY <1>1, <1>2
<1>4. Poll(Q, n) = [e \in {d \in DOMAIN B : B[d] > 0} |-> B[e]]
  BY DEF Poll, (-)
<1>5. DOMAIN B = DOMAIN Q
  OBVIOUS
<1> HIDE DEF B, One
<1>6. DOMAIN Poll(Q, n) = {d \in DOMAIN Q : B[d] > 0}
  BY <1>4, <1>5
<1>7. \A e \in DOMAIN Poll(Q, n) : Poll(Q, n)[e] \in Nat /\ Poll(Q, n)[e] > 0
  BY <1>3, <1>4, <1>5, <1>6
<1>8. Poll(Q, n) = [e \in DOMAIN Poll(Q, n) |-> Poll(Q, n)[e]]
  BY <1>4, <1>6, <1>5
<1> QED
  BY <1>2, <1>3, <1>6, <1>7, <1>8 DEF IsABag, BagToSet

LEMMA Offered ==
  ASSUME NEW Q, IsABag(Q), NEW S
  PROVE  /\ IsABag(Offer(Q, S))
         /\ BagToSet(Offer(Q, S)) = BagToSet(Q) \cup S
<1> DEFINE One == SetToBag(S)
<1>1. DOMAIN One = S /\ \A e \in S : One[e] = 1
  BY DEF SetToBag
<1>2. \A e \in DOMAIN Q : Q[e] \in Nat /\ Q[e] > 0
  BY DEF IsABag
<1>3. Offer(Q, S) = [e \in (DOMAIN Q) \cup (DOMAIN One) |->
                       (IF e \in DOMAIN Q THEN Q[e] ELSE 0)
                     + (IF e \in DOMAIN One THEN One[e] ELSE 0)]
  BY DEF Offer, (+)
<1> HIDE DEF One
<1>4. DOMAIN Offer(Q, S) = (DOMAIN Q) \cup S
  BY <1>1, <1>3
<1>5. \A e \in DOMAIN Offer(Q, S) : Offer(Q, S)[e] \in Nat /\ Offer(Q, S)[e] > 0
  BY <1>1, <1>2, <1>3, <1>4
<1>6. Offer(Q, S) = [e \in DOMAIN Offer(Q, S) |-> Offer(Q, S)[e]]
  BY <1>3, <1>4
<1> QED
  BY <1>4, <1>5, <1>6 DEF IsABag, BagToSet

(* The head of the queue begins no later than any other in it.             *)
LEMMA HeadIsFirst ==
  ASSUME NEW Q, NEW n \in Heads(Q), n.first \in Int,
         NEW o \in BagToSet(Q), o.first \in Int
  PROVE  n \in BagToSet(Q) /\ n.first <= o.first
BY DEF Heads, Before

-----------------------------------------------------------------------------
(* The loop goes through the addresses in order.                           *)

(* What is true of every network the loop may come by, an aligned one or   *)
(* not.                                                                    *)
Loose == [first : Int, mask : Nat, included : BOOLEAN]

LEMMA LooseTypes ==
  ASSUME NEW net \in Loose
  PROVE  /\ net = [first |-> net.first, mask |-> net.mask, included |-> net.included]
         /\ net.first \in Int /\ net.mask \in Nat /\ net.included \in BOOLEAN
         /\ Size(net.mask) \in Nat \ {0}
         /\ Last(net) \in Int /\ net.first <= Last(net)
<1>1. net.first \in Int /\ net.mask \in Nat /\ net.included \in BOOLEAN
  BY DEF Loose
<1>2. Size(net.mask) \in Nat \ {0}
  BY <1>1, SizePositive
<1> QED
  BY <1>1, <1>2 DEF Last, Loose

LEMMA NetsAreLoose ==
  /\ Nets \subseteq Loose /\ NoNet \notin Loose
<1>1. ASSUME NEW net \in Nets PROVE net \in Loose
  BY NetTypes DEF Loose
<1>2. NoNet \notin Loose
  BY DEF NoNet, Loose
<1> QED
  BY <1>1, <1>2

LEMMA LooseHalves ==
  ASSUME NEW net \in Loose
  PROVE  /\ Lower(net) \in Loose /\ Lower(net).first = net.first
         /\ Upper(net) \in Loose /\ net.first <= Upper(net).first
<1>1. Lower(net) = [first |-> net.first, mask |-> net.mask + 1, included |-> net.included]
  BY LooseTypes DEF Lower
<1>2. Lower(net) \in Loose
  BY <1>1, LooseTypes DEF Loose
<1>3. Last(Lower(net)) \in Int /\ net.first <= Last(Lower(net))
  BY <1>1, <1>2, LooseTypes
<1> DEFINE next == Last(Lower(net)) + 1
<1>4. Upper(net) = [[first |-> net.first, mask |-> net.mask + 1, included |-> net.included]
                      EXCEPT !.first = next]
  BY <1>1 DEF Upper, Lower
<1> HIDE DEF next
<1>5. Upper(net) = [first |-> next, mask |-> net.mask + 1, included |-> net.included]
  BY <1>4
<1>6. next \in Int /\ net.first <= next
  BY <1>3, LooseTypes DEF next
<1>7. Upper(net) \in Loose
  BY <1>5, <1>6, LooseTypes DEF Loose
<1> QED
  BY <1>1, <1>2, <1>5, <1>6, <1>7

OrderInv ==
  /\ ipAddresses \subseteq Loose
  /\ IsABag(networks) /\ BagToSet(networks) \subseteq Loose
  /\ currentNet \in Loose \cup {NoNet}
  /\ ipsDone \subseteq Loose
  /\ currentNet # NoNet =>
       /\ \A n \in BagToSet(networks) : currentNet.first <= n.first
       /\ \A n \in ipsDone : Last(n) < currentNet.first
  /\ \A m, n \in ipsDone : m # n => Last(m) < n.first \/ Last(n) < m.first

LEMMA OrderInit == Init => OrderInv
BY EmptyQueue DEF Init, OrderInv

(* The loop takes the next network in the place of the one it has.         *)
LEMMA NextIsHeld ==
  ASSUME OrderInv, NEW nextNet \in Heads(networks), Looping(nextNet)
  PROVE  /\ currentNet \in Loose /\ nextNet \in Loose
         /\ currentNet.first <= nextNet.first
         /\ IsABag(Poll(networks, nextNet))
         /\ BagToSet(Poll(networks, nextNet)) \subseteq BagToSet(networks)
         /\ \A n \in BagToSet(networks) :
              n \in Loose /\ currentNet.first <= n.first /\ nextNet.first <= n.first
<1>1. currentNet \in Loose /\ currentNet # NoNet /\ nextNet \in BagToSet(networks)
  BY DEF OrderInv, Looping, Heads
<1>2. nextNet \in Loose /\ currentNet.first <= nextNet.first
  BY <1>1 DEF OrderInv
<1>3. \A n \in BagToSet(networks) : n \in Loose /\ currentNet.first <= n.first
  BY <1>1 DEF OrderInv
<1>4. \A n \in BagToSet(networks) : nextNet.first <= n.first
  <2>1. TAKE n \in BagToSet(networks)
  <2>2. n.first \in Int /\ nextNet.first \in Int
    BY <1>2, <1>3, LooseTypes
  <2> QED
    BY <2>2, HeadIsFirst
<1> QED
  BY <1>1, <1>2, <1>3, <1>4, Polled DEF OrderInv

LEMMA DoneGrows ==
  ASSUME OrderInv, currentNet # NoNet
  PROVE  LET done == With(ipsDone, currentNet)
         IN  /\ done \subseteq Loose /\ done \subseteq ipsDone \cup {currentNet}
             /\ \A m, n \in done : m # n => Last(m) < n.first \/ Last(n) < m.first
BY DEF OrderInv, With

LEMMA OrderDone == OrderInv /\ Done => OrderInv'
<1> SUFFICES ASSUME OrderInv, Done PROVE OrderInv'
  OBVIOUS
<1>1. CASE /\ currentNet # NoNet /\ ipsDone' = With(ipsDone, currentNet)
           /\ currentNet' = NoNet /\ UNCHANGED <<ipAddresses, networks>>
  BY <1>1, DoneGrows DEF OrderInv
<1>2. ASSUME NEW nextNet \in Heads(networks), Looping(nextNet), Apart(nextNet),
             ipsDone' = With(ipsDone, currentNet), currentNet' = nextNet,
             networks' = Poll(networks, nextNet)
      PROVE  OrderInv'
  <2>1. currentNet # NoNet /\ UNCHANGED ipAddresses
    BY <1>2 DEF Looping
  <2>2. /\ ipsDone' \subseteq Loose /\ ipsDone' \subseteq ipsDone \cup {currentNet}
        /\ \A m, n \in ipsDone' : m # n => Last(m) < n.first \/ Last(n) < m.first
    BY <1>2, <2>1, DoneGrows
  <2>4. /\ IsABag(networks') /\ BagToSet(networks') \subseteq Loose
        /\ \A n \in BagToSet(networks') : currentNet'.first <= n.first
        /\ currentNet' \in Loose
    BY <1>2, NextIsHeld
  <2>5. \A n \in ipsDone' : Last(n) < currentNet'.first
    <3>1. TAKE n \in ipsDone'
    <3>2. CASE n = currentNet
      BY <1>2, <3>2 DEF Apart
    <3>3. CASE n \in ipsDone
      <4>1. Last(n) < currentNet.first
        BY <2>1, <3>3 DEF OrderInv
      <4>2. currentNet.first <= nextNet.first
        BY <1>2, NextIsHeld
      <4>3. Last(n) \in Int /\ currentNet.first \in Int /\ nextNet.first \in Int
        BY <1>2, <2>2, <3>1, LooseTypes, NextIsHeld
      <4> QED
        BY <1>2, <4>1, <4>2, <4>3
    <3> QED
      BY <2>2, <3>2, <3>3
  <2> QED
    BY <2>1, <2>2, <2>4, <2>5 DEF OrderInv
<1> QED
  BY <1>1, <1>2 DEF Done

LEMMA OrderAbsorb == OrderInv /\ Absorb => OrderInv'
<1> SUFFICES ASSUME OrderInv, Absorb PROVE OrderInv'
  OBVIOUS
<1>1. PICK nextNet \in Heads(networks) :
        /\ Looping(nextNet) /\ Covers(nextNet)
        /\ currentNet' = nextNet /\ networks' = Poll(networks, nextNet)
        /\ UNCHANGED <<ipAddresses, ipsDone>>
  BY DEF Absorb, Looping
<1>2. currentNet'.first = currentNet.first /\ currentNet # NoNet
  BY <1>1 DEF Covers, Looping
<1> QED
  BY <1>1, <1>2, NextIsHeld DEF OrderInv

LEMMA OrderSplitNext == OrderInv /\ SplitNext => OrderInv'
<1> SUFFICES ASSUME OrderInv, SplitNext PROVE OrderInv'
  OBVIOUS
<1>1. PICK nextNet \in Heads(networks) :
        /\ Looping(nextNet)
        /\ \E nets \in SUBSET {Lower(nextNet), Upper(nextNet)} :
             networks' = Offer(Poll(networks, nextNet), nets)
        /\ UNCHANGED <<ipAddresses, currentNet, ipsDone>>
  BY DEF SplitNext, Looping
<1>2. PICK nets \in SUBSET {Lower(nextNet), Upper(nextNet)} :
        networks' = Offer(Poll(networks, nextNet), nets)
  BY <1>1
<1>3. /\ IsABag(networks')
      /\ BagToSet(networks') = BagToSet(Poll(networks, nextNet)) \cup nets
  BY <1>1, <1>2, NextIsHeld, Offered
<1>4. \A n \in nets : n \in Loose /\ currentNet.first <= n.first
  <2>1. TAKE n \in nets
  <2>2. n \in Loose /\ nextNet.first <= n.first
    BY <1>1, <2>1, NextIsHeld, LooseHalves, LooseTypes
  <2> QED
    BY <1>1, <2>2, NextIsHeld, LooseTypes
<1> QED
  BY <1>1, <1>3, <1>4, NextIsHeld DEF OrderInv

LEMMA OrderSkip == OrderInv /\ Skip => OrderInv'
<1> SUFFICES ASSUME OrderInv, Skip PROVE OrderInv'
  OBVIOUS
<1>1. PICK nextNet \in Heads(networks) :
        /\ Looping(nextNet) /\ networks' = Poll(networks, nextNet)
        /\ UNCHANGED <<ipAddresses, currentNet, ipsDone>>
  BY DEF Skip, Looping
<1> QED
  BY <1>1, NextIsHeld DEF OrderInv

LEMMA OrderSplitCurrent == OrderInv /\ SplitCurrent => OrderInv'
<1> SUFFICES ASSUME OrderInv, SplitCurrent PROVE OrderInv'
  OBVIOUS
<1>1. PICK nextNet \in Heads(networks) :
        /\ Looping(nextNet)
        /\ networks' = Offer(networks, {Upper(currentNet)}) \/ networks' = networks
        /\ currentNet' = Lower(currentNet)
        /\ UNCHANGED <<ipAddresses, ipsDone>>
  BY DEF SplitCurrent, Looping
<1>2. currentNet # NoNet /\ currentNet \in Loose
  BY <1>1, NextIsHeld DEF Looping
<1>3. /\ currentNet' \in Loose /\ currentNet'.first = currentNet.first
      /\ Upper(currentNet) \in Loose /\ currentNet.first <= Upper(currentNet).first
  BY <1>1, <1>2, LooseHalves
<1>4. /\ IsABag(networks')
      /\ BagToSet(networks') \subseteq BagToSet(networks) \cup {Upper(currentNet)}
  BY <1>1, Offered DEF OrderInv
<1> QED
  BY <1>1, <1>2, <1>3, <1>4 DEF OrderInv

LEMMA OrderGenerate == OrderInv /\ GenerateIPList => OrderInv'
<1> SUFFICES ASSUME OrderInv, GenerateIPList PROVE OrderInv'
  OBVIOUS
<1>1. CASE networks' = EmptyBag /\ currentNet' = NoNet
  BY <1>1, EmptyQueue DEF OrderInv, GenerateIPList
<1>2. ASSUME NEW net \in Heads(SetToBag(ipAddresses)), currentNet' = net,
             networks' = Poll(SetToBag(ipAddresses), net)
      PROVE  OrderInv'
  <2>1. /\ net \in ipAddresses
        /\ IsABag(networks') /\ BagToSet(networks') \subseteq ipAddresses
    BY <1>2, Queued, Polled DEF Heads
  <2>2. \A n \in ipAddresses : n \in Loose /\ net.first <= n.first
    <3>1. TAKE n \in ipAddresses
    <3>2. n \in Loose /\ n.first \in Int /\ net.first \in Int
      BY <2>1, LooseTypes DEF OrderInv
    <3> QED
      BY <1>2, <3>2, Queued, HeadIsFirst
  <2> QED
    BY <1>2, <2>1, <2>2 DEF OrderInv, GenerateIPList
<1> QED
  BY <1>1, <1>2 DEF GenerateIPList

LEMMA OrderStep == OrderInv /\ [Next]_vars => OrderInv'
<1> SUFFICES ASSUME OrderInv, [Next]_vars PROVE OrderInv'
  OBVIOUS
<1>1. CASE AddRoute
  BY <1>1, NetsAreLoose DEF AddRoute, With, OrderInv
<1>2. CASE PositiveIPList
  BY <1>2 DEF PositiveIPList, OrderInv
<1>3. CASE Clear
  BY <1>3 DEF Clear, OrderInv
<1>4. CASE UNCHANGED vars
  BY <1>4 DEF vars, OrderInv
<1> QED
  BY <1>1, <1>2, <1>3, <1>4, OrderGenerate, OrderDone, OrderAbsorb, OrderSplitNext,
     OrderSkip, OrderSplitCurrent DEF Next, LoopStep

LEMMA OrderImpliesApart == OrderInv => DoneApart
<1> SUFFICES ASSUME OrderInv, NEW m \in ipsDone, NEW n \in ipsDone, m # n
             PROVE  Block(m) \cap Block(n) = {}
  BY DEF OrderInv, DoneApart
<1>1. m \in Loose /\ n \in Loose /\ (Last(m) < n.first \/ Last(n) < m.first)
  BY DEF OrderInv
<1>2. /\ m.first \in Int /\ n.first \in Int /\ Last(m) \in Int /\ Last(n) \in Int
  BY <1>1, LooseTypes
<1> QED
  BY <1>1, <1>2 DEF Block

(* However many routes there are, included and excluded, what the loop is  *)
(* done with does not overlap and lies before the network it holds         *)
(* (NetworkSpace 67-95): the list never names an address twice.            *)
THEOREM DoneIsApart == Spec => []DoneApart
<1>1. Spec => []OrderInv
  BY OrderInit, OrderStep, PTL DEF Spec
<1> QED
  BY <1>1, OrderImpliesApart, PTL

-----------------------------------------------------------------------------
(* What the loop works on stands for the routes.                           *)

Covered(nets, a) == \E n \in nets : n.included /\ a \in Block(n)

InHole(routes, a) == \E e \in routes : ~e.included /\ a \in Block(e)

OneHole(routes) == \A e, f \in routes : ~e.included /\ ~f.included => e = f

(* The excluded networks are those of the routes, no included one lies     *)
(* inside of them, and outside of them the same addresses are covered.     *)
StandsFor(work, routes) ==
  /\ work \subseteq Nets
  /\ {n \in work : ~n.included} = {n \in routes : ~n.included}
  /\ Plain(work)
  /\ \A a \in Addresses :
       ~InHole(routes, a) => (Covered(work, a) <=> Covered(routes, a))

LEMMA RoutesStandForThemselves ==
  ASSUME NEW routes \in SUBSET Nets, Plain(routes)
  PROVE  StandsFor(routes, routes)
BY DEF StandsFor

(* Nothing is lost with an included network that lies inside another.      *)
LEMMA InnerIsDropped ==
  ASSUME NEW routes, NEW work, StandsFor(work, routes),
         NEW n \in work, n.included, NEW rest, rest \subseteq work, work \subseteq rest \cup {n},
         NEW m \in rest, m.included, ContainsNet(m, n)
  PROVE  StandsFor(rest, routes)
<1>1. rest \subseteq Nets /\ Plain(rest)
  BY DEF StandsFor, Plain
<1>2. {x \in rest : ~x.included} = {x \in routes : ~x.included}
  BY DEF StandsFor
<1>3. ASSUME NEW a \in Addresses PROVE Covered(rest, a) <=> Covered(work, a)
  <2>1. ASSUME a \in Block(n) PROVE a \in Block(m)
    <3>1. m \in Nets /\ n \in Nets
      BY <1>1 DEF StandsFor
    <3> QED
      BY <2>1, <3>1, NetTypes DEF Block, ContainsNet
  <2> QED
    BY <2>1 DEF Covered
<1> QED
  BY <1>1, <1>2, <1>3 DEF StandsFor

(* A network that is split is covered by its halves.                       *)
LEMMA HalvesCover ==
  ASSUME NEW net \in Nets, net.mask < Bits, NEW a \in Int
  PROVE  a \in Block(net) <=> a \in Block(Lower(net)) \/ a \in Block(Upper(net))
<1>1. /\ net.first \in Int /\ Last(net) \in Int /\ Lower(net).first = net.first
      /\ Last(Upper(net)) = Last(net) /\ Upper(net).first = Last(Lower(net)) + 1
      /\ Last(Lower(net)) \in Int /\ Upper(net).first \in Int
      /\ net.first <= Last(Lower(net)) /\ Upper(net).first <= Last(net)
  BY Halves, NetTypes
<1> QED
  BY <1>1 DEF Block

(* Nor with an included network that is split, when each half is kept, or  *)
(* what stands for it, or it is a hole.                                    *)
LEMMA HalvesReplace ==
  ASSUME NEW routes, NEW work, StandsFor(work, routes),
         NEW n \in work, n.included, n.mask < Bits,
         NEW rest, work \subseteq rest \cup {n}, rest \subseteq work \cup {Lower(n), Upper(n)},
         \A h \in {Lower(n), Upper(n)} :
           /\ h \in rest => \A e \in routes : ~e.included => ~ContainsNet(e, h)
           /\ \A a \in Block(h) : Covered(rest, a) \/ InHole(routes, a)
  PROVE  StandsFor(rest, routes)
<1>1. n \in Nets /\ Lower(n) \in Nets /\ Upper(n) \in Nets
  BY Halves DEF StandsFor
<1>2. Lower(n).included /\ Upper(n).included
  BY <1>1, Halves
<1>3. rest \subseteq Nets
  BY <1>1 DEF StandsFor
<1>4. {x \in rest : ~x.included} = {x \in routes : ~x.included}
  <2>1. {x \in work : ~x.included} = {x \in routes : ~x.included}
    BY DEF StandsFor
  <2>2. ASSUME NEW x \in rest, ~x.included PROVE x \in work
    <3>1. x # Lower(n) /\ x # Upper(n)
      BY <1>2, <2>2
    <3> QED
      BY <2>2, <3>1
  <2>3. ASSUME NEW x \in work, ~x.included PROVE x \in rest
    BY <2>3
  <2> QED
    BY <2>1, <2>2, <2>3
<1>5. Plain(rest)
  <2>1. SUFFICES ASSUME NEW e \in rest, NEW i \in rest, ~e.included, i.included,
                        ContainsNet(e, i)
                 PROVE  FALSE
    BY DEF Plain
  <2>2. e \in routes /\ e \in work
    BY <1>2, <2>1, <1>4 DEF StandsFor
  <2>3. ASSUME NEW h \in {Lower(n), Upper(n)}, i = h PROVE FALSE
    <3>1. h \in rest => ~ContainsNet(e, h)
      BY <2>1, <2>2
    <3> QED
      BY <2>1, <2>3, <3>1
  <2>4. i \in work
    BY <2>1, <2>3
  <2> QED
    BY <2>1, <2>2, <2>4 DEF StandsFor, Plain
<1>6. ASSUME NEW a \in Addresses, ~InHole(routes, a)
      PROVE  Covered(rest, a) <=> Covered(work, a)
  <2>1. a \in Int
    BY WidthAssumption, PowerPositive DEF Addresses
  <2>2. a \in Block(n) <=> a \in Block(Lower(n)) \/ a \in Block(Upper(n))
    BY <1>1, <2>1, HalvesCover
  <2>3. ASSUME Covered(work, a) PROVE Covered(rest, a)
    BY <1>6, <2>2, <2>3 DEF Covered
  <2>4. ASSUME Covered(rest, a) PROVE Covered(work, a)
    BY <2>2, <2>4 DEF Covered
  <2> QED
    BY <2>3, <2>4
<1> QED
  BY <1>3, <1>4, <1>5, <1>6 DEF StandsFor

LEMMA SizeShrinks ==
  ASSUME NEW m \in 0 .. Bits, NEW n \in 0 .. Bits, m < n
  PROVE  Size(n) < Size(m)
<1>1. m + 1 \in 0 .. Bits /\ m < Bits /\ m + 1 <= n /\ n \in Nat /\ m + 1 \in Nat
  BY WidthAssumption
<1>2. Size(m) = 2 * Size(m + 1)
  BY <1>1, SizeHalves
<1>3. PICK p \in Nat \ {0} : Size(m + 1) = p * Size(n)
  BY <1>1, SizeDivides
<1>4. Size(n) \in Nat \ {0} /\ Size(m + 1) \in Nat \ {0}
  BY <1>1, SizePositive
<1>5. 1 * Size(n) <= p * Size(n)
  BY <1>3, <1>4, ProductGrows
<1> QED
  BY <1>2, <1>3, <1>4, <1>5

(* Which of two networks that share an address is inside the other, the    *)
(* prefix says.                                                            *)
LEMMA InnerHasLongerMask ==
  ASSUME NEW a \in Nets, NEW b \in Nets, ContainsNet(a, b)
  PROVE  a.mask <= b.mask
<1>1. SUFFICES ASSUME b.mask < a.mask PROVE FALSE
  BY NetTypes
<1>2. a.mask \in 0 .. Bits /\ b.mask \in 0 .. Bits
  BY NetTypes, WidthAssumption
<1>3. Size(a.mask) < Size(b.mask)
  BY <1>1, <1>2, SizeShrinks
<1>4. /\ a.first \in Nat /\ b.first \in Nat
      /\ Size(a.mask) \in Nat /\ Size(b.mask) \in Nat
  BY NetTypes
<1>5. a.first <= b.first /\ a.first + Size(a.mask) - 1 >= b.first + Size(b.mask) - 1
  BY DEF ContainsNet, Last
<1> QED
  BY <1>3, <1>4, <1>5

(* What the loop has, is yet to look at, and is done with.                 *)
Work == ({currentNet} \ {NoNet}) \cup BagToSet(networks) \cup ipsDone

(* An included network is never held while a hole begins where it does:    *)
(* the order of the queue puts the hole first, or the other way round if   *)
(* the hole were the larger, which Plain excludes.                         *)
WorkInv ==
  /\ StandsFor(Work, ipAddresses)
  /\ currentNet = NoNet => BagToSet(networks) = {}
  /\ currentNet # NoNet /\ currentNet.included =>
       \A e \in BagToSet(networks) : ~e.included => currentNet.first < e.first

ListInv ==
  /\ OrderInv
  /\ TypeOK
  /\ IsFiniteSet(ipAddresses) /\ OneHole(ipAddresses) /\ Plain(ipAddresses)
  /\ pc = "looping" => WorkInv
  /\ ListIsLongestMatch

LEMMA HoleIsLater ==
  ASSUME NEW Q, BagToSet(Q) \subseteq Nets, Plain(BagToSet(Q)),
         NEW n \in Heads(Q), n.included, NEW e \in BagToSet(Q), ~e.included
  PROVE  n.first < e.first
<1>1. n \in BagToSet(Q) /\ n \in Nets /\ e \in Nets
  BY DEF Heads
<1>2. /\ n.first \in Int /\ e.first \in Int /\ n.mask \in Int /\ e.mask \in Int
      /\ n.first <= Last(n) /\ e.first <= Last(e)
  BY <1>1, NetTypes
<1>3. n.first <= e.first
  BY <1>2, HeadIsFirst
<1>4. ASSUME n.first = e.first PROVE FALSE
  <2>1. e.mask <= n.mask
    BY <1>2, <1>4 DEF Heads, Before
  <2>2. ContainsNet(e, n)
    BY <1>1, <1>2, <1>4, <2>1, NetsAreNested
  <2> QED
    BY <1>1, <2>2 DEF Plain
<1> QED
  BY <1>2, <1>3, <1>4

LEMMA LoopKeeps ==
  ASSUME ListInv, OrderInv', WorkInv', pc' = "looping",
         UNCHANGED <<ipAddresses, positiveIPList>>
  PROVE  ListInv'
<1>1. Work' \subseteq Nets
  BY DEF WorkInv, StandsFor
<1>2. /\ BagToSet(networks') \subseteq Nets /\ ipsDone' \subseteq Nets
      /\ currentNet' \in Nets \cup {NoNet}
  BY <1>1 DEF Work
<1>3. TypeOK'
  BY <1>2 DEF ListInv, OrderInv, TypeOK
<1>4. ListIsLongestMatch'
  BY DEF ListIsLongestMatch
<1>5. (IsFiniteSet(ipAddresses) /\ OneHole(ipAddresses) /\ Plain(ipAddresses))'
  BY DEF ListInv
<1> QED
  BY <1>3, <1>4, <1>5 DEF ListInv

(* The state in which the loop takes a network.                            *)
LEMMA LoopFacts ==
  ASSUME ListInv, NEW nextNet \in Heads(networks), Looping(nextNet)
  PROVE  /\ WorkInv /\ OrderInv /\ StandsFor(Work, ipAddresses)
         /\ currentNet # NoNet /\ currentNet \in Nets /\ nextNet \in Nets
         /\ Work = {currentNet} \cup BagToSet(networks) \cup ipsDone
         /\ nextNet \in BagToSet(networks)
         /\ currentNet.first <= nextNet.first
         /\ IsABag(networks) /\ IsABag(Poll(networks, nextNet))
         /\ BagToSet(Poll(networks, nextNet)) \subseteq BagToSet(networks)
         /\ BagToSet(networks) \subseteq BagToSet(Poll(networks, nextNet)) \cup {nextNet}
         /\ \A e, f \in Work : ~e.included /\ ~f.included => e = f
         /\ \A e, i \in Work : ~e.included /\ i.included => ~ContainsNet(e, i)
<1>1. WorkInv /\ OrderInv /\ StandsFor(Work, ipAddresses) /\ currentNet # NoNet
  BY DEF ListInv, Looping, WorkInv
<1>2. nextNet \in BagToSet(networks)
  BY DEF Heads
<1>3. Work = {currentNet} \cup BagToSet(networks) \cup ipsDone
  BY <1>1 DEF Work
<1>4. currentNet \in Nets /\ nextNet \in Nets
  BY <1>1, <1>2, <1>3 DEF StandsFor
<1>5. IsABag(networks)
  BY <1>1 DEF OrderInv
<1>6. \A e, f \in Work : ~e.included /\ ~f.included => e = f
  BY <1>1 DEF StandsFor, ListInv, OneHole
<1>7. \A e, i \in Work : ~e.included /\ i.included => ~ContainsNet(e, i)
  BY <1>1 DEF StandsFor, Plain
<1> QED
  BY <1>1, <1>2, <1>3, <1>4, <1>5, <1>6, <1>7, Polled, NextIsHeld

(* A hole that the loop comes to next begins later than what it takes.     *)
LEMMA NextBeforeHole ==
  ASSUME ListInv, NEW nextNet \in Heads(networks), Looping(nextNet), nextNet.included,
         NEW e \in BagToSet(networks), ~e.included
  PROVE  nextNet.first < e.first
<1>1. BagToSet(networks) \subseteq Nets /\ Plain(BagToSet(networks))
  BY LoopFacts DEF StandsFor, Plain
<1> QED
  BY <1>1, HoleIsLater

(* Where the next network begins inside the one that is held, one of them  *)
(* lies inside the other.                                                  *)
LEMMA Overlap ==
  ASSUME ListInv, NEW nextNet \in Heads(networks), Looping(nextNet), ~Apart(nextNet)
  PROVE  /\ Covers(nextNet) => ContainsNet(nextNet, currentNet)
         /\ ~Covers(nextNet) => /\ ContainsNet(currentNet, nextNet)
                                /\ currentNet.mask < nextNet.mask
<1> DEFINE x == nextNet.first
<1>1. currentNet \in Nets /\ nextNet \in Nets /\ currentNet.first <= nextNet.first
  BY LoopFacts
<1>2. /\ x \in Int /\ Last(currentNet) \in Int /\ currentNet.first \in Int
      /\ currentNet.mask \in Int /\ nextNet.mask \in Int
      /\ currentNet.first <= x /\ x <= Last(currentNet)
      /\ nextNet.first <= x /\ x <= Last(nextNet)
  BY <1>1, NetTypes DEF Apart
<1>3. nextNet.mask <= currentNet.mask => ContainsNet(nextNet, currentNet)
  BY <1>1, <1>2, NetsAreNested
<1>4. currentNet.mask <= nextNet.mask => ContainsNet(currentNet, nextNet)
  BY <1>1, <1>2, NetsAreNested
<1>5. ASSUME ~Covers(nextNet) PROVE currentNet.mask < nextNet.mask
  <2>1. SUFFICES ASSUME nextNet.mask <= currentNet.mask PROVE FALSE
    BY <1>2
  <2>2. nextNet.first <= currentNet.first
    BY <1>3, <2>1 DEF ContainsNet
  <2>3. nextNet.first = currentNet.first
    BY <1>1, <1>2, <2>2
  <2> QED
    BY <1>2, <1>5, <2>1, <2>3 DEF Covers
<1>6. Covers(nextNet) => nextNet.mask <= currentNet.mask
  BY <1>2 DEF Covers
<1> QED
  BY <1>2, <1>3, <1>4, <1>5, <1>6

-----------------------------------------------------------------------------
(* The passes through the loop.                                            *)

LEMMA ListDone == ListInv /\ Done => ListInv'
<1> SUFFICES ASSUME ListInv, Done PROVE ListInv'
  OBVIOUS
<1>1. OrderInv'
  BY OrderDone DEF ListInv
<1>2. ASSUME NoNet # currentNet, pc = "looping"
      PROVE  /\ currentNet \in Loose
             /\ With(ipsDone, currentNet) = ipsDone \cup {currentNet}
  <2>1. currentNet \in Loose /\ \A n \in ipsDone : n \in Loose /\ Last(n) < currentNet.first
    BY <1>2 DEF ListInv, OrderInv
  <2>2. ASSUME NEW n \in ipsDone, Same(n, currentNet) PROVE FALSE
    BY <2>1, <2>2, LooseTypes DEF Same
  <2> QED
    BY <2>1, <2>2 DEF With, Contains
<1>3. CASE /\ pc = "looping" /\ currentNet # NoNet /\ networks = EmptyBag
           /\ ipsDone' = With(ipsDone, currentNet) /\ currentNet' = NoNet
           /\ UNCHANGED <<ipAddresses, networks, positiveIPList, pc>>
  <2>1. Work = {currentNet} \cup ipsDone /\ Work' = ipsDone \cup {currentNet}
    BY <1>2, <1>3, EmptyQueue DEF Work
  <2>2. StandsFor(Work, ipAddresses)
    BY <1>3 DEF ListInv, WorkInv
  <2>3. WorkInv'
    BY <1>3, <2>1, <2>2, EmptyQueue DEF WorkInv
  <2> QED
    BY <1>1, <1>3, <2>3, LoopKeeps
<1>4. ASSUME NEW nextNet \in Heads(networks), Looping(nextNet),
             ipsDone' = With(ipsDone, currentNet), currentNet' = nextNet,
             networks' = Poll(networks, nextNet)
      PROVE  ListInv'
  <2>1. UNCHANGED <<ipAddresses, positiveIPList, pc>> /\ pc = "looping" /\ currentNet # NoNet
    BY <1>4 DEF Looping
  <2>2. nextNet # NoNet
    BY <1>4, LoopFacts, NetsAreLoose
  <2>3. Work' = Work
    BY <1>2, <1>4, <2>1, <2>2, LoopFacts DEF Work
  <2>4. StandsFor(Work, ipAddresses)
    BY <1>4, LoopFacts
  <2>5. ASSUME nextNet.included, NEW e \in BagToSet(networks'), ~e.included
        PROVE  nextNet.first < e.first
    <3>1. e \in BagToSet(networks)
      BY <1>4, LoopFacts
    <3> QED
      BY <1>4, <2>5, <3>1, NextBeforeHole
  <2>6. WorkInv'
    BY <1>4, <2>1, <2>2, <2>3, <2>4, <2>5 DEF WorkInv
  <2> QED
    BY <1>1, <2>1, <2>6, LoopKeeps
<1> QED
  BY <1>3, <1>4 DEF Done

LEMMA ListAbsorb == ListInv /\ Absorb => ListInv'
<1> SUFFICES ASSUME ListInv, Absorb PROVE ListInv'
  OBVIOUS
<1>1. OrderInv'
  BY OrderAbsorb DEF ListInv
<1>2. PICK nextNet \in Heads(networks) :
        /\ Looping(nextNet)
        /\ ~Apart(nextNet) /\ Covers(nextNet)
        /\ currentNet.included = nextNet.included
        /\ currentNet' = nextNet
        /\ networks' = Poll(networks, nextNet)
        /\ UNCHANGED ipsDone
  BY DEF Absorb
<1>3. UNCHANGED <<ipAddresses, positiveIPList, pc>> /\ pc = "looping" /\ currentNet # NoNet
  BY <1>2 DEF Looping
<1>4. nextNet # NoNet
  BY <1>2, LoopFacts, NetsAreLoose
<1>5. Work' \subseteq Work /\ Work \subseteq Work' \cup {currentNet} /\ nextNet \in Work'
  BY <1>2, <1>4, LoopFacts DEF Work
<1>6. /\ StandsFor(Work, ipAddresses) /\ currentNet \in Work /\ nextNet \in Work
      /\ currentNet \in Nets
  BY <1>2, LoopFacts
<1>7. StandsFor(Work', ipAddresses)
  <2>1. CASE currentNet.included
    <3>1. ContainsNet(nextNet, currentNet) /\ nextNet.included
      BY <1>2, <2>1, Overlap
    <3> QED
      BY <1>5, <1>6, <2>1, <3>1, InnerIsDropped
  <2>2. CASE ~currentNet.included
    <3>1. ~nextNet.included
      BY <1>2, <2>2
    <3>2. currentNet = nextNet
      BY <1>2, <1>6, <2>2, <3>1, LoopFacts
    <3> QED
      BY <1>5, <1>6, <3>2
  <2> QED
    BY <2>1, <2>2
<1>8. ASSUME nextNet.included, NEW e \in BagToSet(networks'), ~e.included
      PROVE  nextNet.first < e.first
  <2>1. e \in BagToSet(networks)
    BY <1>2, LoopFacts
  <2> QED
    BY <1>2, <1>8, <2>1, NextBeforeHole
<1>9. WorkInv'
  BY <1>2, <1>3, <1>4, <1>7, <1>8 DEF WorkInv
<1> QED
  BY <1>1, <1>3, <1>9, LoopKeeps

LEMMA ListSkip == ListInv /\ Skip => ListInv'
<1> SUFFICES ASSUME ListInv, Skip PROVE ListInv'
  OBVIOUS
<1>1. OrderInv'
  BY OrderSkip DEF ListInv
<1>2. PICK nextNet \in Heads(networks) :
        /\ Looping(nextNet)
        /\ ~Apart(nextNet) /\ ~Covers(nextNet)
        /\ currentNet.included = nextNet.included
        /\ networks' = Poll(networks, nextNet)
        /\ UNCHANGED <<currentNet, ipsDone>>
  BY DEF Skip
<1>3. UNCHANGED <<ipAddresses, positiveIPList, pc>> /\ pc = "looping" /\ currentNet # NoNet
  BY <1>2 DEF Looping
<1>4. Work' \subseteq Work /\ Work \subseteq Work' \cup {nextNet} /\ currentNet \in Work'
  BY <1>2, <1>3, LoopFacts DEF Work
<1>5. /\ StandsFor(Work, ipAddresses) /\ currentNet \in Work /\ nextNet \in Work
      /\ currentNet \in Nets /\ nextNet \in Nets
  BY <1>2, LoopFacts
<1>6. ContainsNet(currentNet, nextNet) /\ currentNet.mask < nextNet.mask
  BY <1>2, Overlap
<1>7. currentNet.included
  <2>1. SUFFICES ASSUME ~currentNet.included PROVE FALSE
    OBVIOUS
  <2>2. ~nextNet.included
    BY <1>2, <2>1
  <2>3. currentNet = nextNet
    BY <1>2, <1>5, <2>1, <2>2, LoopFacts
  <2> QED
    BY <1>5, <1>6, <2>3, NetTypes
<1>8. nextNet.included
  BY <1>2, <1>7
<1>9. StandsFor(Work', ipAddresses)
  BY <1>4, <1>5, <1>6, <1>7, <1>8, InnerIsDropped
<1>10. ASSUME NEW e \in BagToSet(networks'), ~e.included
       PROVE  currentNet.first < e.first
  <2>1. e \in BagToSet(networks) /\ WorkInv
    BY <1>2, LoopFacts
  <2> QED
    BY <1>3, <1>7, <1>10, <2>1 DEF WorkInv
<1>11. WorkInv'
  BY <1>2, <1>3, <1>9, <1>10 DEF WorkInv
<1> QED
  BY <1>1, <1>3, <1>11, LoopKeeps

(* The larger of two networks that begin together is split because it      *)
(* holds the hole: the network that is held.                               *)
LEMMA ListSplitNext == ListInv /\ SplitNext => ListInv'
<1> SUFFICES ASSUME ListInv, SplitNext PROVE ListInv'
  OBVIOUS
<1>1. OrderInv'
  BY OrderSplitNext DEF ListInv
<1> DEFINE queue(n) == BagToSet(Poll(networks, n))
           halves(n) == {Upper(n)} \cup
                          (IF Last(Lower(n)) # Last(currentNet) THEN {Lower(n)} ELSE {})
           fresh(n) == {h \in halves(n) : ~Contains(queue(n), h)}
<1>2. PICK nextNet \in Heads(networks) :
        /\ Looping(nextNet)
        /\ ~Apart(nextNet) /\ Covers(nextNet)
        /\ currentNet.included # nextNet.included
        /\ networks' = Offer(Poll(networks, nextNet), fresh(nextNet))
        /\ UNCHANGED <<currentNet, ipsDone>>
  BY DEF SplitNext
<1> DEFINE low == Lower(nextNet)
           high == Upper(nextNet)
           new == fresh(nextNet)
           left == queue(nextNet)
<1>3. UNCHANGED <<ipAddresses, positiveIPList, pc>> /\ pc = "looping" /\ currentNet # NoNet
  BY <1>2 DEF Looping
<1>4. /\ StandsFor(Work, ipAddresses) /\ currentNet \in Work /\ nextNet \in Work
      /\ currentNet \in Nets /\ nextNet \in Nets /\ WorkInv
  BY <1>2, LoopFacts
<1>5. currentNet.included \in BOOLEAN /\ nextNet.included \in BOOLEAN
  BY <1>4, NetTypes
<1>6. ContainsNet(nextNet, currentNet)
  BY <1>2, Overlap
<1>7. ~currentNet.included /\ nextNet.included
  BY <1>2, <1>4, <1>5, <1>6, LoopFacts
<1>8. nextNet.first = currentNet.first /\ nextNet.mask <= currentNet.mask
  BY <1>2, <1>4, NetTypes DEF Covers
<1>9. nextNet.mask < currentNet.mask
  <2>1. SUFFICES ASSUME nextNet.mask = currentNet.mask PROVE FALSE
    BY <1>4, <1>8, NetTypes
  <2>2. ContainsNet(currentNet, nextNet)
    BY <1>4, <1>8, <2>1, NetTypes DEF ContainsNet, Last
  <2> QED
    BY <1>2, <1>4, <1>7, <2>2, LoopFacts
<1>10. nextNet.mask < Bits
  <2>1. /\ nextNet.mask \in Nat /\ currentNet.mask \in Nat
        /\ currentNet.mask <= Bits
    BY <1>4, NetTypes
  <2> QED
    BY <1>9, <2>1, WidthAssumption
<1>11. /\ low \in Nets /\ high \in Nets /\ low.included /\ high.included
       /\ low.first = nextNet.first /\ low.mask = nextNet.mask + 1
       /\ high.first = Last(low) + 1
  BY <1>4, <1>7, <1>10, Halves
<1> HIDE DEF low, high
<1>12. /\ low.first \in Int /\ Last(low) \in Int /\ high.first \in Int /\ Last(high) \in Int
       /\ currentNet.first \in Int /\ Last(currentNet) \in Int
       /\ low.first <= Last(low) /\ high.first <= Last(high)
       /\ currentNet.first <= Last(currentNet)
  BY <1>4, <1>11, NetTypes
<1>13. ContainsNet(low, currentNet)
  <2>1. low.mask <= currentNet.mask
    BY <1>4, <1>9, <1>11, NetTypes
  <2> QED
    BY <1>4, <1>8, <1>11, <1>12, <2>1, NetsAreNested
<1>14. Last(currentNet) <= Last(low) /\ currentNet.first < high.first
  BY <1>11, <1>12, <1>13 DEF ContainsNet
<1>15. /\ new \subseteq {low, high}
       /\ low \in new => Last(low) # Last(currentNet)
  <2>1. ASSUME low \in new PROVE Last(low) # Last(currentNet)
    <3>1. low # high
      BY <1>8, <1>11, <1>12, <1>14
    <3> QED
      BY <2>1, <3>1 DEF low, high
  <2> QED
    BY <2>1 DEF low, high
<1>16. ASSUME NEW h \in {low, high}
       PROVE  \/ h \in new
              \/ \E q \in left : Same(q, h)
              \/ h = low /\ Last(low) = Last(currentNet)
  BY DEF low, high, Contains
<1>17. BagToSet(networks') = left \cup new
  <2>1. IsABag(Poll(networks, nextNet))
    BY <1>2, LoopFacts
  <2> HIDE DEF new
  <2> QED
    BY <1>2, <2>1, Offered DEF new
<1> HIDE DEF new
<1>18. left \subseteq BagToSet(networks) /\ BagToSet(networks) \subseteq left \cup {nextNet}
  BY <1>2, LoopFacts
<1> HIDE DEF left
<1>19. /\ Work = {currentNet} \cup BagToSet(networks) \cup ipsDone
       /\ Work' = {currentNet} \cup left \cup new \cup ipsDone
  BY <1>2, <1>3, <1>17, LoopFacts DEF Work
<1>20. Work \subseteq Work' \cup {nextNet} /\ Work' \subseteq Work \cup {low, high}
  BY <1>15, <1>18, <1>19
<1>21. \A e \in ipAddresses : ~e.included => e = currentNet
  BY <1>4, <1>7 DEF ListInv, OneHole, StandsFor
<1>22. currentNet \in ipAddresses
  BY <1>4, <1>7 DEF StandsFor
<1>23. ASSUME NEW h \in {low, high}, h \in Work'
       PROVE  ~ContainsNet(currentNet, h)
  <2>1. CASE h \in Work
    <3>1. h.included
      BY <1>11
    <3> QED
      BY <1>2, <1>4, <1>7, <2>1, <3>1, LoopFacts
  <2>2. CASE h \in new /\ h = low
    BY <1>12, <1>14, <1>15, <2>2 DEF ContainsNet
  <2>3. CASE h = high
    BY <1>11, <1>12, <1>14, <2>3 DEF ContainsNet
  <2> QED
    BY <1>18, <1>19, <1>23, <2>1, <2>2, <2>3
<1>24. ASSUME NEW h \in {low, high}, NEW a \in Block(h)
       PROVE  Covered(Work', a) \/ InHole(ipAddresses, a)
  <2>1. CASE h \in new
    BY <1>11, <1>19, <2>1 DEF Covered
  <2>2. CASE h = low /\ Last(low) = Last(currentNet)
    <3>1. a \in Block(currentNet)
      BY <1>8, <1>11, <2>2 DEF Block
    <3> QED
      BY <1>7, <1>22, <3>1 DEF InHole
  <2>3. ASSUME NEW q \in left, Same(q, h), h = low => Last(low) # Last(currentNet)
        PROVE  Covered(Work', a)
    <3>1. q.first = h.first /\ Last(q) = Last(h) /\ a \in Block(q)
      BY <2>3 DEF Same, Last, Block
    <3>2. q.included
      <4>1. SUFFICES ASSUME ~q.included PROVE FALSE
        OBVIOUS
      <4>2. q = currentNet
        BY <1>2, <1>4, <1>7, <1>18, <1>19, <4>1, LoopFacts
      <4> QED
        BY <1>12, <1>14, <2>3, <3>1, <4>2
    <3> QED
      BY <1>19, <3>1, <3>2 DEF Covered
  <2> QED
    BY <1>16, <2>1, <2>2, <2>3
<1>25. StandsFor(Work', ipAddresses)
  <2>1. \A h \in {low, high} :
          /\ h \in Work' => \A e \in ipAddresses : ~e.included => ~ContainsNet(e, h)
          /\ \A a \in Block(h) : Covered(Work', a) \/ InHole(ipAddresses, a)
    BY <1>21, <1>23, <1>24
  <2> QED
    BY <1>4, <1>7, <1>10, <1>20, <2>1, HalvesReplace DEF low, high
<1>26. WorkInv'
  BY <1>2, <1>3, <1>7, <1>25 DEF WorkInv
<1> QED
  BY <1>1, <1>3, <1>26, LoopKeeps

(* The network that is held is split because it holds the hole that comes  *)
(* next.  The hole begins later, so where it is as large as the halves it  *)
(* is the upper one, and that need not be offered.                         *)
LEMMA ListSplitCurrent == ListInv /\ SplitCurrent => ListInv'
<1> SUFFICES ASSUME ListInv, SplitCurrent PROVE ListInv'
  OBVIOUS
<1>1. OrderInv'
  BY OrderSplitCurrent DEF ListInv
<1> DEFINE low == Lower(currentNet)
           high == Upper(currentNet)
<1>2. PICK nextNet \in Heads(networks) :
        /\ Looping(nextNet)
        /\ ~Apart(nextNet) /\ ~Covers(nextNet)
        /\ currentNet.included # nextNet.included
        /\ networks' = IF high.mask # nextNet.mask THEN Offer(networks, {high}) ELSE networks
        /\ currentNet' = low
        /\ UNCHANGED ipsDone
  BY DEF SplitCurrent
<1>3. UNCHANGED <<ipAddresses, positiveIPList, pc>> /\ pc = "looping" /\ currentNet # NoNet
  BY <1>2 DEF Looping
<1>4. /\ StandsFor(Work, ipAddresses) /\ currentNet \in Work /\ nextNet \in Work
      /\ currentNet \in Nets /\ nextNet \in Nets /\ WorkInv
      /\ nextNet \in BagToSet(networks) /\ IsABag(networks)
      /\ Work = {currentNet} \cup BagToSet(networks) \cup ipsDone
  BY <1>2, LoopFacts
<1>5. /\ currentNet.included \in BOOLEAN /\ nextNet.included \in BOOLEAN
      /\ currentNet.mask \in Nat /\ nextNet.mask \in Nat /\ nextNet.mask <= Bits
      /\ currentNet.first \in Int /\ nextNet.first \in Int /\ Last(nextNet) \in Int
      /\ nextNet.first <= Last(nextNet)
  BY <1>4, NetTypes
<1>6. ContainsNet(currentNet, nextNet) /\ currentNet.mask < nextNet.mask
  BY <1>2, Overlap
<1>7. currentNet.included /\ ~nextNet.included
  BY <1>2, <1>4, <1>5, <1>6, LoopFacts
<1>8. currentNet.first < nextNet.first
  BY <1>3, <1>4, <1>7 DEF WorkInv
<1>9. currentNet.mask < Bits
  BY <1>5, <1>6, WidthAssumption
<1>10. /\ low \in Nets /\ high \in Nets /\ low.included /\ high.included
       /\ low.first = currentNet.first /\ low.mask = currentNet.mask + 1
       /\ high.mask = currentNet.mask + 1
  BY <1>4, <1>7, <1>9, Halves
<1>11. \A a \in Int : a \in Block(currentNet) <=> a \in Block(low) \/ a \in Block(high)
  BY <1>4, <1>9, HalvesCover
<1> HIDE DEF low, high
<1>12. low # NoNet
  BY <1>10, NetsAreLoose
<1>13. \/ BagToSet(networks') = BagToSet(networks) \cup {high} /\ high.mask # nextNet.mask
       \/ BagToSet(networks') = BagToSet(networks) /\ high.mask = nextNet.mask
  BY <1>2, <1>4, Offered
<1>14. Work' = {low} \cup BagToSet(networks') \cup ipsDone
  BY <1>2, <1>12 DEF Work
<1>15. Work \subseteq Work' \cup {currentNet} /\ Work' \subseteq Work \cup {low, high}
  BY <1>4, <1>13, <1>14
<1>16. \A e \in ipAddresses : ~e.included => e = nextNet
  BY <1>4, <1>7 DEF ListInv, OneHole, StandsFor
<1>17. nextNet \in ipAddresses
  BY <1>4, <1>7 DEF StandsFor
<1>18. ~ContainsNet(nextNet, low)
  BY <1>5, <1>8, <1>10 DEF ContainsNet
<1>19. ASSUME high \in Work' PROVE ~ContainsNet(nextNet, high)
  <2>1. CASE high \in Work
    BY <1>2, <1>4, <1>7, <1>10, <2>1, LoopFacts
  <2>2. CASE high.mask # nextNet.mask
    <3>1. SUFFICES ASSUME ContainsNet(nextNet, high) PROVE FALSE
      OBVIOUS
    <3>2. nextNet.mask <= high.mask
      BY <1>4, <1>10, <3>1, InnerHasLongerMask
    <3> QED
      BY <1>5, <1>6, <1>10, <2>2, <3>2
  <2>3. CASE high = low
    BY <1>18, <2>3
  <2> QED
    BY <1>4, <1>13, <1>14, <1>19, <2>1, <2>2, <2>3
<1>20. ASSUME NEW a \in Block(low) PROVE Covered(Work', a)
  BY <1>10, <1>14, <1>20 DEF Covered
<1>21. ASSUME NEW a \in Block(high) PROVE Covered(Work', a) \/ InHole(ipAddresses, a)
  <2>1. CASE high.mask # nextNet.mask
    BY <1>10, <1>13, <1>14, <2>1 DEF Covered
  <2>2. CASE high.mask = nextNet.mask
    <3> DEFINE x == nextNet.first
    <3>1. x \in Block(currentNet)
      <4>1. x <= Last(currentNet) /\ Last(currentNet) \in Int
        BY <1>4, <1>5, <1>6, NetTypes DEF ContainsNet
      <4> QED
        BY <1>5, <1>8, <4>1 DEF Block
    <3>2. ASSUME x \in Block(low) PROVE FALSE
      <4>1. low.first <= x /\ x <= Last(low) /\ nextNet.mask <= low.mask
        BY <1>5, <1>10, <2>2, <3>2, NetTypes DEF Block
      <4>2. ContainsNet(nextNet, low)
        BY <1>4, <1>5, <1>10, <4>1, NetsAreNested
      <4> QED
        BY <1>18, <4>2
    <3>3. high.first <= x /\ x <= Last(high)
      BY <1>5, <1>10, <1>11, <3>1, <3>2, NetTypes DEF Block
    <3>4. nextNet.mask <= high.mask
      BY <1>5, <2>2
    <3>5. ContainsNet(nextNet, high)
      BY <1>4, <1>5, <1>10, <3>3, <3>4, NetsAreNested
    <3>6. a \in Block(nextNet)
      BY <1>4, <1>10, <3>5, NetTypes DEF Block, ContainsNet
    <3> QED
      BY <1>7, <1>17, <3>6 DEF InHole
  <2> QED
    BY <2>1, <2>2
<1>22. StandsFor(Work', ipAddresses)
  <2>1. \A h \in {low, high} :
          /\ h \in Work' => \A e \in ipAddresses : ~e.included => ~ContainsNet(e, h)
          /\ \A a \in Block(h) : Covered(Work', a) \/ InHole(ipAddresses, a)
    BY <1>16, <1>18, <1>19, <1>20, <1>21
  <2> QED
    BY <1>4, <1>7, <1>9, <1>15, <2>1, HalvesReplace DEF low, high
<1>23. ASSUME NEW e \in BagToSet(networks'), ~e.included PROVE low.first < e.first
  <2>1. e \in BagToSet(networks)
    BY <1>10, <1>13, <1>23
  <2> QED
    BY <1>3, <1>4, <1>7, <1>10, <1>23, <2>1 DEF WorkInv
<1>24. WorkInv'
  BY <1>2, <1>3, <1>12, <1>22, <1>23 DEF WorkInv
<1> QED
  BY <1>1, <1>3, <1>24, LoopKeeps

-----------------------------------------------------------------------------
(* The steps around the loop.                                              *)
LEMMA ListInit == Init => ListInv
<1> SUFFICES ASSUME Init PROVE ListInv
  OBVIOUS
<1>1. ipAddresses = {} /\ ipsDone = {} /\ positiveIPList = {} /\ pc = "adding"
  BY DEF Init
<1>2. OrderInv
  BY OrderInit
<1>3. TypeOK
  BY <1>1, EmptyQueue DEF Init, TypeOK
<1>4. IsFiniteSet(ipAddresses) /\ OneHole(ipAddresses) /\ Plain(ipAddresses)
  BY <1>1, FS_EmptySet DEF OneHole, Plain
<1>5. ListIsLongestMatch
  BY <1>1 DEF ListIsLongestMatch
<1> QED
  BY <1>1, <1>2, <1>3, <1>4, <1>5 DEF ListInv

(* The bound on the excluded routes keeps out a second one.                *)
LEMMA ListAddRoute ==
  ASSUME MaxExcluded <= 1, ListInv, AddRoute
  PROVE  ListInv'
<1>1. PICK net \in Nets :
        /\ ~net.included => Cardinality(Holes) < MaxExcluded
        /\ Plain(With(ipAddresses, net))
        /\ ipAddresses' = With(ipAddresses, net)
  BY DEF AddRoute
<1>2. pc = "adding" /\ UNCHANGED <<networks, currentNet, ipsDone, positiveIPList, pc>>
  BY DEF AddRoute
<1>3. ipAddresses' \subseteq ipAddresses \cup {net}
  BY <1>1 DEF With
<1>4. OrderInv'
  BY OrderStep DEF ListInv, Next
<1>5. TypeOK'
  BY <1>2, <1>3 DEF ListInv, TypeOK
<1>6. IsFiniteSet(ipAddresses')
  <2>1. IsFiniteSet(ipAddresses \cup {net})
    BY FS_AddElement DEF ListInv
  <2> QED
    BY <1>3, <2>1, FS_Subset
<1>7. OneHole(ipAddresses')
  <2>1. ASSUME ~net.included PROVE Holes = {}
    <3>1. IsFiniteSet(Holes)
      BY FS_Subset DEF Holes, ListInv
    <3>2. Cardinality(Holes) \in Nat
      BY <3>1, FS_CardinalityType
    <3>3. Cardinality(Holes) = 0
      BY <1>1, <2>1, <3>2, RoutesAssumption
    <3> QED
      BY <3>1, <3>3, FS_EmptySet
  <2> QED
    BY <1>3, <2>1 DEF OneHole, Holes, ListInv
<1>8. Plain(ipAddresses')
  BY <1>1
<1> QED
  BY <1>2, <1>4, <1>5, <1>6, <1>7, <1>8 DEF ListInv, ListIsLongestMatch

LEMMA ListGenerate == ListInv /\ GenerateIPList => ListInv'
<1> SUFFICES ASSUME ListInv, GenerateIPList PROVE ListInv'
  OBVIOUS
<1>1. OrderInv'
  BY OrderGenerate DEF ListInv
<1>2. /\ UNCHANGED <<ipAddresses, positiveIPList>> /\ ipsDone' = {} /\ pc' = "looping"
      /\ ipAddresses \subseteq Nets /\ Plain(ipAddresses)
  BY DEF GenerateIPList, ListInv, TypeOK
<1>3. StandsFor(ipAddresses, ipAddresses)
  BY <1>2, RoutesStandForThemselves
<1>4. CASE ipAddresses = {} /\ networks' = EmptyBag /\ currentNet' = NoNet
  <2>1. Work' = ipAddresses /\ BagToSet(networks') = {}
    BY <1>2, <1>4, EmptyQueue DEF Work
  <2>2. WorkInv'
    BY <1>2, <1>3, <1>4, <2>1 DEF WorkInv
  <2> QED
    BY <1>1, <1>2, <2>2, LoopKeeps
<1>5. ASSUME NEW net \in Heads(SetToBag(ipAddresses)), currentNet' = net,
             networks' = Poll(SetToBag(ipAddresses), net)
      PROVE  ListInv'
  <2>1. net \in ipAddresses
    BY Queued DEF Heads
  <2>2. /\ BagToSet(networks') \subseteq ipAddresses
        /\ ipAddresses \subseteq BagToSet(networks') \cup {net}
    BY <1>5, Queued, Polled
  <2>3. net # NoNet
    BY <1>2, <2>1, NetsAreLoose
  <2>4. Work' = ipAddresses
    BY <1>2, <1>5, <2>1, <2>2, <2>3 DEF Work
  <2>5. ASSUME net.included, NEW e \in BagToSet(networks'), ~e.included
        PROVE  net.first < e.first
    <3>1. BagToSet(SetToBag(ipAddresses)) = ipAddresses
      BY Queued
    <3> QED
      BY <1>2, <1>5, <2>2, <2>5, <3>1, HoleIsLater
  <2>6. WorkInv'
    BY <1>2, <1>3, <1>5, <2>3, <2>4, <2>5 DEF WorkInv
  <2> QED
    BY <1>1, <1>2, <2>6, LoopKeeps
<1> QED
  BY <1>4, <1>5 DEF GenerateIPList

(* Among the routes that match an address there is one with the longest    *)
(* prefix.                                                                 *)
LEMMA LongestMatchExists ==
  ASSUME ipAddresses \subseteq Nets, NEW a, Matching(a) # {}
  PROVE  /\ LongestMatch(a) \in Matching(a)
         /\ \A o \in Matching(a) : o.mask <= LongestMatch(a).mask
<1> DEFINE T == {Bits - n.mask : n \in Matching(a)}
<1>1. \A n \in Matching(a) : n.mask \in Nat /\ n.mask <= Bits
  BY NetTypes DEF Matching
<1>2. T \in SUBSET Nat /\ T # {}
  BY <1>1, WidthAssumption
<1>3. PICK t \in T : \A k \in T : t <= k
  BY <1>2, LeastNumber
<1>4. PICK n \in Matching(a) : t = Bits - n.mask
  BY <1>3
<1>5. \A o \in Matching(a) : o.mask <= n.mask
  <2>1. TAKE o \in Matching(a)
  <2>2. Bits - o.mask \in T
    OBVIOUS
  <2>3. Bits - n.mask <= Bits - o.mask
    BY <1>3, <1>4, <2>2
  <2> QED
    BY <1>1, <2>3, WidthAssumption
<1> QED
  BY <1>4, <1>5 DEF LongestMatch

(* The longest match is an included route where one matches outside of the *)
(* hole, and nowhere else.                                                 *)
LEMMA RoutedOutsideHoles ==
  ASSUME ListInv, NEW a \in Addresses
  PROVE  Routed(a) <=> Covered(ipAddresses, a) /\ ~InHole(ipAddresses, a)
<1> DEFINE l == LongestMatch(a)
<1>1. ipAddresses \subseteq Nets /\ Plain(ipAddresses)
  BY DEF ListInv, TypeOK
<1>2. \A n : n \in Matching(a) <=> n \in ipAddresses /\ a \in Block(n)
  BY DEF Matching
<1>3. a \in Int
  BY WidthAssumption, PowerPositive DEF Addresses
<1>4. ASSUME Matching(a) # {}
      PROVE  l \in Matching(a) /\ \A o \in Matching(a) : o.mask <= l.mask
  BY <1>1, <1>4, LongestMatchExists
<1> HIDE DEF l
<1>5. Routed(a) <=> Matching(a) # {} /\ l.included
  BY DEF Routed, l
<1>6. ASSUME Matching(a) # {}, l.included, InHole(ipAddresses, a) PROVE FALSE
  <2>1. PICK e \in ipAddresses : ~e.included /\ a \in Block(e)
    BY <1>6 DEF InHole
  <2>2. l \in ipAddresses /\ a \in Block(l) /\ e.mask <= l.mask
    BY <1>2, <1>4, <1>6, <2>1
  <2>3. /\ e \in Nets /\ l \in Nets /\ e.first <= a /\ a <= Last(e)
        /\ l.first <= a /\ a <= Last(l)
    BY <1>1, <2>1, <2>2 DEF Block
  <2>4. ContainsNet(e, l)
    BY <1>3, <2>2, <2>3, NetsAreNested
  <2> QED
    BY <1>1, <1>6, <2>1, <2>2, <2>4 DEF Plain
<1>7. ASSUME Matching(a) # {}, l.included PROVE Covered(ipAddresses, a)
  BY <1>2, <1>4, <1>7 DEF Covered
<1>8. ASSUME Covered(ipAddresses, a), ~InHole(ipAddresses, a)
      PROVE  Matching(a) # {} /\ l.included
  <2>1. Matching(a) # {}
    BY <1>2, <1>8 DEF Covered
  <2>2. l \in ipAddresses /\ a \in Block(l)
    BY <1>2, <1>4, <2>1
  <2> QED
    BY <1>8, <2>1, <2>2 DEF InHole
<1> QED
  BY <1>5, <1>6, <1>7, <1>8

(* When the loop has ended the list is what it is done with: the included  *)
(* networks of that, which avoid the hole because the hole is there too.   *)
LEMMA ListPositive == ListInv /\ PositiveIPList => ListInv'
<1> SUFFICES ASSUME ListInv, PositiveIPList PROVE ListInv'
  OBVIOUS
<1>1. /\ pc = "looping" /\ currentNet = NoNet /\ pc' = "listed"
      /\ UNCHANGED <<ipAddresses, networks, currentNet, ipsDone>>
  BY DEF PositiveIPList
<1>2. PICK legacy \in BOOLEAN :
        positiveIPList' = {n \in ipsDone : n.included} \cup (IF legacy THEN Legacy ELSE {})
  BY DEF PositiveIPList
<1>3. OrderInv'
  BY <1>1 DEF ListInv, OrderInv
<1>4. /\ ipAddresses \subseteq Nets /\ ipsDone \subseteq Nets /\ Plain(ipAddresses)
      /\ TypeOK /\ DoneApart
  BY OrderImpliesApart DEF ListInv, TypeOK
<1>5. TypeOK'
  BY <1>1, <1>2, <1>4 DEF TypeOK, Legacy
<1>6. Work = ipsDone /\ StandsFor(ipsDone, ipAddresses)
  BY <1>1 DEF ListInv, WorkInv, Work
<1>7. ASSUME NEW e \in ipAddresses, ~e.included PROVE e \in ipsDone
  BY <1>6, <1>7 DEF StandsFor
<1>8. ASSUME NEW a \in Addresses
      PROVE  (\E n \in positiveIPList' : a \in Block(n)) <=> Routed(a)
  <2>1. a \in Int
    BY WidthAssumption, PowerPositive DEF Addresses
  <2>2. Routed(a) <=> Covered(ipAddresses, a) /\ ~InHole(ipAddresses, a)
    BY RoutedOutsideHoles
  <2>3. ~InHole(ipAddresses, a) => (Covered(ipsDone, a) <=> Covered(ipAddresses, a))
    BY <1>6 DEF StandsFor
  <2>4. ASSUME NEW n \in ipsDone, n.included, a \in Block(n) PROVE Routed(a)
    <3>1. Covered(ipsDone, a)
      BY <2>4 DEF Covered
    <3>2. ASSUME NEW e \in ipAddresses, ~e.included, a \in Block(e) PROVE FALSE
      BY <1>4, <1>7, <2>4, <3>2 DEF DoneApart
    <3> QED
      BY <2>2, <2>3, <3>1, <3>2 DEF InHole
  <2>5. ASSUME NEW n \in Legacy, a \in Block(n) PROVE Routed(a)
    <3>1. n \in ipAddresses /\ n.included /\ \A d \in ipsDone : ~d.included => ~ContainsNet(n, d)
      BY DEF Legacy
    <3>2. Covered(ipAddresses, a)
      BY <2>5, <3>1 DEF Covered
    <3>3. ASSUME NEW e \in ipAddresses, ~e.included, a \in Block(e) PROVE FALSE
      <4>1. ~ContainsNet(n, e) /\ ~ContainsNet(e, n)
        BY <1>4, <1>7, <3>1, <3>3 DEF Plain
      <4>2. /\ e \in Nets /\ n \in Nets /\ e.first <= a /\ a <= Last(e)
            /\ n.first <= a /\ a <= Last(n)
        BY <1>4, <2>5, <3>1, <3>3 DEF Block
      <4>3. e.mask <= n.mask \/ n.mask <= e.mask
        BY <4>2, NetTypes
      <4> QED
        BY <2>1, <4>1, <4>2, <4>3, NetsAreNested
    <3> QED
      BY <2>2, <3>2, <3>3 DEF InHole
  <2>6. ASSUME Routed(a) PROVE \E n \in positiveIPList' : a \in Block(n)
    BY <1>2, <2>2, <2>3, <2>6 DEF Covered
  <2> QED
    BY <1>2, <2>4, <2>5, <2>6
<1>9. ListIsLongestMatch'
  <2>1. \A a \in Addresses : Routed(a)' <=> Routed(a)
    BY <1>1 DEF Routed, Matching, LongestMatch
  <2> QED
    BY <1>8, <2>1 DEF ListIsLongestMatch
<1> QED
  BY <1>1, <1>3, <1>5, <1>9 DEF ListInv

LEMMA ListClear == ListInv /\ Clear => ListInv'
<1> SUFFICES ASSUME ListInv, Clear PROVE ListInv'
  OBVIOUS
<1>1. OrderInv'
  BY OrderStep DEF ListInv, Next
<1>2. /\ ipAddresses' = {} /\ ipsDone' = {} /\ positiveIPList' = {} /\ pc' = "adding"
      /\ UNCHANGED <<networks, currentNet>>
  BY DEF Clear
<1>3. TypeOK'
  BY <1>2 DEF ListInv, TypeOK
<1>4. (IsFiniteSet(ipAddresses) /\ OneHole(ipAddresses) /\ Plain(ipAddresses))'
  BY <1>2, FS_EmptySet DEF OneHole, Plain
<1> QED
  BY <1>1, <1>2, <1>3, <1>4 DEF ListInv, ListIsLongestMatch

LEMMA ListStutter == ListInv /\ UNCHANGED vars => ListInv'
<1> SUFFICES ASSUME ListInv, UNCHANGED vars PROVE ListInv'
  OBVIOUS
<1>1. UNCHANGED <<ipAddresses, networks, currentNet, ipsDone, positiveIPList, pc>>
  BY DEF vars
<1>2. OrderInv' /\ TypeOK'
  BY <1>1 DEF ListInv, OrderInv, TypeOK
<1>3. WorkInv => WorkInv'
  BY <1>1 DEF WorkInv, Work
<1>4. ListIsLongestMatch'
  BY <1>1 DEF ListInv, ListIsLongestMatch, Routed, LongestMatch, Matching
<1> QED
  BY <1>1, <1>2, <1>3, <1>4 DEF ListInv

LEMMA ListPreserved ==
  ASSUME MaxExcluded <= 1
  PROVE  ListInv /\ [Next]_vars => ListInv'
<1>1. ListInv /\ AddRoute => ListInv'
  BY ListAddRoute
<1>2. ListInv /\ LoopStep => ListInv'
  BY ListDone, ListAbsorb, ListSplitNext, ListSkip, ListSplitCurrent, Zenon DEF LoopStep
<1>3. ListInv /\ Clear => ListInv'
  BY ListClear
<1> QED
  BY <1>1, <1>2, <1>3, ListGenerate, ListPositive, ListStutter, Zenon DEF Next

LEMMA ListInvariant ==
  ASSUME MaxExcluded <= 1
  PROVE  Spec => []ListInv
<1>1. Init => ListInv
  BY ListInit
<1>2. ListInv /\ [Next]_vars => ListInv'
  BY ListPreserved
<1> QED
  BY <1>1, <1>2, PTL DEF Spec

(* With one excluded route everything the loop makes is a network: a first *)
(* address with its host bits clear and a prefix of at most the width      *)
(* (IpAddress 75-79 splits one into two of a longer prefix).               *)
THEOREM RoutesTypeCorrect ==
  ASSUME MaxExcluded <= 1
  PROVE  Spec => []TypeOK
<1>1. Spec => []ListInv
  BY ListInvariant
<1>2. ListInv => TypeOK
  BY DEF ListInv
<1> QED
  BY <1>1, <1>2, PTL

(* With one excluded route, and however many included ones, the list       *)
(* covers exactly the addresses whose longest matching route is included   *)
(* (NetworkSpace 39-97), whether or not the routes before KitKat are added.*)
THEOREM ListMatchesLongest ==
  ASSUME MaxExcluded <= 1
  PROVE  Spec => []ListIsLongestMatch
<1>1. Spec => []ListInv
  BY ListInvariant
<1>2. ListInv => ListIsLongestMatch
  BY DEF ListInv
<1> QED
  BY <1>1, <1>2, PTL

-----------------------------------------------------------------------------
(* The conversions of an address.                                          *)

LEMMA DivUnique ==
  ASSUME NEW q \in Int, NEW s \in Nat \ {0}, NEW r \in 0 .. s - 1,
         NEW n \in Int, n = q * s + r
  PROVE  n \div s = q /\ n % s = r
<1> DEFINE k == n \div s
           t == n % s
<1>1. k \in Int /\ t \in 0 .. s - 1 /\ n = k * s + t
  BY DivMod
<1> HIDE DEF k, t
<1>2. (q + 1) * s = q * s + s /\ (k + 1) * s = k * s + s
  BY <1>1
<1>3. q * s \in Int /\ k * s \in Int
  BY <1>1
<1>4. ~ (q + 1 <= k)
  <2>1. q + 1 <= k => (q + 1) * s <= k * s
    BY <1>1, ProductGrows
  <2> QED
    BY <1>1, <1>2, <1>3, <2>1
<1>5. ~ (k + 1 <= q)
  <2>1. k + 1 <= q => (k + 1) * s <= q * s
    BY <1>1, ProductGrows
  <2> QED
    BY <1>1, <1>2, <1>3, <2>1
<1>6. q = k
  BY <1>1, <1>4, <1>5
<1>7. t = r
  BY <1>1, <1>3, <1>6
<1> QED
  BY <1>6, <1>7 DEF k, t

LEMMA DivDiv ==
  ASSUME NEW n \in Int, NEW a \in Nat \ {0}, NEW b \in Nat \ {0}
  PROVE  n \div (b * a) = (n \div a) \div b
<1> DEFINE q1 == n \div a
           r1 == n % a
           q2 == q1 \div b
           r2 == q1 % b
<1>1. q1 \in Int /\ r1 \in 0 .. a - 1 /\ n = q1 * a + r1
  BY DivMod
<1> HIDE DEF q1, r1
<1>2. q2 \in Int /\ r2 \in 0 .. b - 1 /\ q1 = q2 * b + r2
  BY <1>1, DivMod
<1> HIDE DEF q2, r2
<1> DEFINE s == b * a
           r == r2 * a + r1
<1>3. s \in Nat \ {0}
  OBVIOUS
<1>4. q1 * a = (q2 * b) * a + r2 * a
  BY <1>1, <1>2
<1>5. (q2 * b) * a = q2 * s
  BY <1>2
<1>6. 0 <= r2 * a /\ r2 * a <= s - a
  <2>1. r2 * a <= (b - 1) * a /\ 0 * a <= r2 * a
    BY <1>2, ProductGrows
  <2>2. (b - 1) * a = s - a /\ 0 * a = 0
    OBVIOUS
  <2> QED
    BY <2>1, <2>2
<1>7. r2 * a \in Int
  BY <1>2
<1>8. r \in 0 .. s - 1
  <2> HIDE DEF s
  <2> QED
    BY <1>1, <1>3, <1>6, <1>7
<1>9. n = q2 * s + r
  <2>1. q2 * s \in Int
    BY <1>2, <1>3
  <2> HIDE DEF s
  <2> QED
    BY <1>1, <1>4, <1>5, <1>7, <2>1
<1> HIDE DEF s, r
<1>10. n \div s = q2
  BY <1>2, <1>3, <1>8, <1>9, DivUnique
<1> QED
  BY <1>10 DEF s, q1, q2

LEMMA Horner ==
  ASSUME NEW h \in Nat, NEW m \in Nat, h < m, NEW b \in Nat \ {0}, NEW p \in 0 .. b - 1
  PROVE  h * b + p \in Nat /\ h * b + p < m * b
<1>1. (h + 1) * b <= m * b
  BY ProductGrows
<1>2. (h + 1) * b = h * b + b /\ h * b \in Nat /\ m * b \in Nat
  OBVIOUS
<1> QED
  BY <1>1, <1>2

(* The places of the octets are the powers of the base.                    *)
LEMMA Places ==
  /\ Base \in Nat \ {0} /\ Width \in Nat \ {0}
  /\ Place(4) = 1 /\ Place(3) = Base
  /\ Place(2) = Base * Place(3) /\ Place(1) = Base * Place(2)
  /\ 2^Width = Base * Place(1)
  /\ \A i \in 1..4 : Place(i) \in Nat \ {0}
<1>1. OctetBits \in Nat \ {0}
  BY OctetAssumption
<1>2. Base \in Nat \ {0} /\ Width \in Nat \ {0}
  BY <1>1, PowerPositive DEF Base, Width
<1>3. Place(4) = 1
  <2>1. (4 - 4) * OctetBits = 0
    BY <1>1
  <2>2. 2^0 = 1
    OBVIOUS
  <2> QED
    BY <2>1, <2>2 DEF Place
<1>4. Place(3) = Base
  <2>1. (4 - 3) * OctetBits = OctetBits
    BY <1>1
  <2> QED
    BY <2>1 DEF Place, Base
<1>5. Place(2) = Base * Place(3)
  <2>1. /\ (4 - 2) * OctetBits = OctetBits + (4 - 3) * OctetBits
        /\ (4 - 3) * OctetBits \in Nat
    BY <1>1
  <2> QED
    BY <1>1, <2>1, PowerOfSum DEF Place, Base
<1>6. Place(1) = Base * Place(2)
  <2>1. /\ (4 - 1) * OctetBits = OctetBits + (4 - 2) * OctetBits
        /\ (4 - 2) * OctetBits \in Nat
    BY <1>1
  <2> QED
    BY <1>1, <2>1, PowerOfSum DEF Place, Base
<1>7. 2^Width = Base * Place(1)
  <2>1. /\ Width = OctetBits + (4 - 1) * OctetBits
        /\ (4 - 1) * OctetBits \in Nat
    BY <1>1 DEF Width
  <2> QED
    BY <1>1, <2>1, PowerOfSum DEF Place, Base
<1>8. ASSUME NEW i \in 1..4 PROVE Place(i) \in Nat \ {0}
  <2>1. i = 1 \/ i = 2 \/ i = 3 \/ i = 4
    OBVIOUS
  <2>2. /\ (4 - 1) * OctetBits \in Nat /\ (4 - 2) * OctetBits \in Nat
        /\ (4 - 3) * OctetBits \in Nat /\ (4 - 4) * OctetBits \in Nat
    BY <1>1
  <2> QED
    BY <2>1, <2>2, PowerPositive DEF Place
<1> QED
  BY <1>2, <1>3, <1>4, <1>5, <1>6, <1>7, <1>8

(* getInt of four octets, one after another.                               *)
LEMMA GetIntByOctets ==
  ASSUME NEW p1 \in Nat, NEW p2 \in Nat, NEW p3 \in Nat, NEW p4 \in Nat,
         NEW parts, parts = <<p1, p2, p3, p4>>
  PROVE  GetInt(parts) = ((p1 * Base + p2) * Base + p3) * Base + p4
<1> DEFINE b == Base
           b2 == Place(2)
           b3 == Place(1)
<1>1. b \in Nat /\ b2 = b * b /\ b3 = b * b2 /\ Place(3) = b /\ Place(4) = 1
  BY Places
<1>2. GetInt(parts) = p1 * b3 + p2 * b2 + p3 * b + p4 * 1
  BY <1>1 DEF GetInt
<1> HIDE DEF b, b2, b3
<1>3. b2 \in Nat /\ b3 \in Nat
  BY <1>1
<1>4. (p1 * b + p2) * b = p1 * b2 + p2 * b
  BY <1>1
<1>5. ((p1 * b + p2) * b + p3) * b = (p1 * b2 + p2 * b) * b + p3 * b
  BY <1>1, <1>3, <1>4
<1>6. (p1 * b2 + p2 * b) * b = p1 * b3 + p2 * b2
  BY <1>1, <1>3
<1> QED
  BY <1>1, <1>2, <1>3, <1>5, <1>6 DEF b

LEMMA OctetsOf ==
  ASSUME NEW parts \in Octets
  PROVE  /\ parts = <<parts[1], parts[2], parts[3], parts[4]>>
         /\ \A i \in 1..4 : parts[i] \in 0 .. Base - 1
BY DEF Octets

LEMMA GetIntInRange ==
  ASSUME NEW parts \in Octets
  PROVE  GetInt(parts) \in 0 .. 2^Width - 1
<1> DEFINE p1 == parts[1]
           p2 == parts[2]
           p3 == parts[3]
           p4 == parts[4]
           b == Base
<1>1. b \in Nat \ {0}
  BY Places
<1>2. /\ p1 \in 0 .. b - 1 /\ p2 \in 0 .. b - 1 /\ p3 \in 0 .. b - 1 /\ p4 \in 0 .. b - 1
      /\ parts = <<p1, p2, p3, p4>>
  BY OctetsOf
<1> DEFINE h2 == p1 * b + p2
           h3 == h2 * b + p3
           h4 == h3 * b + p4
<1> HIDE DEF p1, p2, p3, p4, b
<1>3. p1 \in Nat /\ p1 < b /\ p2 \in Nat /\ p3 \in Nat /\ p4 \in Nat
  BY <1>1, <1>2
<1>4. h2 \in Nat /\ h2 < b * b
  BY <1>1, <1>2, <1>3, Horner
<1> HIDE DEF h2
<1>5. h3 \in Nat /\ h3 < (b * b) * b
  <2>1. b * b \in Nat
    BY <1>1
  <2> QED
    BY <1>1, <1>2, <1>4, <2>1, Horner
<1> HIDE DEF h3
<1>6. h4 \in Nat /\ h4 < ((b * b) * b) * b
  <2>1. (b * b) * b \in Nat
    BY <1>1
  <2> QED
    BY <1>1, <1>2, <1>5, <2>1, Horner
<1>7. GetInt(parts) = h4
  BY <1>2, <1>3, GetIntByOctets DEF h2, h3, b
<1>8. 2^Width = ((b * b) * b) * b
  <2>1. 2^Width = b * (b * (b * b))
    BY Places DEF b
  <2> QED
    BY <1>1, <2>1
<1> HIDE DEF h4
<1> QED
  BY <1>1, <1>6, <1>7, <1>8

(* What format writes getInt reads.                                        *)
LEMMA FormatIsRead ==
  ASSUME NEW n \in 0 .. 2^Width - 1
  PROVE  Format(n) \in Octets /\ GetInt(Format(n)) = n
<1> DEFINE b == Base
           q1 == n \div b
           q2 == q1 \div b
           q3 == q2 \div b
           q4 == q3 \div b
<1>1. b \in Nat \ {0} /\ 2^Width \in Nat /\ n \in Nat /\ n < 2^Width
  <2>1. 2^Width \in Nat
    BY Places, PowerPositive
  <2> QED
    BY <2>1, Places
<1>2. /\ Place(4) = 1 /\ Place(3) = b /\ Place(2) = b * b /\ Place(1) = b * (b * b)
      /\ 2^Width = b * (b * (b * b))
  BY Places
<1> HIDE DEF b
<1>3. q1 \in Int /\ n = q1 * b + (n % b) /\ n % b \in 0 .. b - 1
  BY <1>1, DivMod
<1>4. n \div (b * b) = q2
  <2>1. n \in Int
    BY <1>1
  <2> QED
    BY <1>1, <2>1, DivDiv, Zenon
<1> HIDE DEF q1
<1>5. q2 \in Int /\ q1 = q2 * b + (q1 % b) /\ q1 % b \in 0 .. b - 1
  BY <1>1, <1>3, DivMod
<1>6. n \div (b * (b * b)) = q3
  <2>1. b * b \in Nat \ {0}
    BY <1>1
  <2> QED
    BY <1>1, <1>4, <2>1, DivDiv
<1> HIDE DEF q2
<1>7. q3 \in Int /\ q2 = q3 * b + (q2 % b) /\ q2 % b \in 0 .. b - 1
  BY <1>1, <1>5, DivMod
<1>8. n \div (b * (b * (b * b))) = q4
  <2>1. b * (b * b) \in Nat \ {0}
    BY <1>1
  <2> QED
    BY <1>1, <1>6, <2>1, DivDiv
<1> HIDE DEF q3
<1>9. q4 \in Int /\ q3 = q4 * b + (q3 % b) /\ q3 % b \in 0 .. b - 1
  BY <1>1, <1>7, DivMod
<1>10. q4 = 0
  <2>1. n = 0 * 2^Width + n /\ n \in 0 .. 2^Width - 1 /\ 2^Width \in Nat \ {0}
    BY <1>1
  <2>2. n \div 2^Width = 0
    BY <1>1, <2>1, DivUnique
  <2> QED
    BY <1>2, <1>8, <2>2
<1> HIDE DEF q4
<1>11. q3 = q3 % b /\ q3 \in 0 .. b - 1
  <2>1. q4 * b = 0
    BY <1>1, <1>10
  <2> QED
    BY <1>1, <1>7, <1>9, <2>1
<1>12. n \div 1 = n
  BY <1>1
<1>13. Format(n) = <<q3, q2 % b, q1 % b, n % b>>
  <2>1. \A i \in 1..4 : Format(n)[i] = (n \div Place(i)) % Base
    BY DEF Format
  <2>2. /\ Format(n)[1] = q3 /\ Format(n)[2] = q2 % b /\ Format(n)[3] = q1 % b
        /\ Format(n)[4] = n % b
    BY <1>2, <1>4, <1>6, <1>11, <1>12, <2>1 DEF b, q1
  <2>3. Format(n) = [i \in 1..4 |-> Format(n)[i]]
    BY DEF Format
  <2>4. [i \in 1..4 |-> Format(n)[i]] = <<Format(n)[1], Format(n)[2], Format(n)[3], Format(n)[4]>>
    OBVIOUS
  <2> QED
    BY <2>2, <2>3, <2>4
<1>14. Format(n) \in Octets
  <2>1. <<q3, q2 % b, q1 % b, n % b>> \in [1..4 -> 0 .. b - 1]
    BY <1>3, <1>5, <1>7, <1>11
  <2> QED
    BY <1>13, <2>1 DEF Octets, b
<1>15. GetInt(Format(n)) = ((q3 * b + (q2 % b)) * b + (q1 % b)) * b + (n % b)
  <2> DEFINE d2 == q2 % b
             d1 == q1 % b
             d0 == n % b
  <2>1. q3 \in Nat /\ d2 \in Nat /\ d1 \in Nat /\ d0 \in Nat
    BY <1>1, <1>3, <1>5, <1>7, <1>11
  <2>2. Format(n) = <<q3, d2, d1, d0>>
    BY <1>13
  <2> HIDE DEF d2, d1, d0
  <2>3. GetInt(Format(n)) = ((q3 * b + d2) * b + d1) * b + d0
    BY <2>1, <2>2, GetIntByOctets DEF b
  <2> QED
    BY <2>3 DEF d2, d1, d0
<1> QED
  BY <1>3, <1>5, <1>7, <1>14, <1>15

(* What a route is made of.                                                *)
RouteInv ==
  /\ ip \in Octets /\ mask \in Octets /\ length \in 0 .. Width
  /\ ip6 \in [1..Groups -> Nat]

LEMMA RouteInvariant == RouteSpec => []RouteInv
<1>1. [i \in 1..4 |-> 0] \in Octets /\ 0 \in 0 .. Width
  BY Places DEF Octets
<1>2. Zeros6(Groups) \in [1..Groups -> Nat] /\ [1..Groups -> GroupValues] \subseteq [1..Groups -> Nat]
  BY GroupsAssumption DEF Zeros6
<1>3. RouteInit => RouteInv
  BY <1>1, <1>2 DEF RouteInit, RouteInv
<1>4. RouteInv /\ [Convert \/ Converted]_routeVars => RouteInv'
  BY <1>1, <1>2 DEF RouteInv, routeVars, Convert, Converted, RouteWithMask, RouteWithLength, RouteV6
<1> QED
  BY <1>3, <1>4, PTL DEF RouteSpec

LEMMA InvImpliesNormal == RouteInv => NormalIsFirst
<1> SUFFICES ASSUME RouteInv PROVE NormalIsFirst
  OBVIOUS
<1> DEFINE n == GetInt(ip)
           s == 2^(Width - length)
           f == n - (n % s)
<1>1. n \in 0 .. 2^Width - 1
  BY GetIntInRange DEF RouteInv
<1>2. s \in Nat \ {0}
  <2>1. Width - length \in Nat
    BY Places DEF RouteInv
  <2> QED
    BY <2>1, PowerPositive
<1>3. 2^Width \in Nat
  BY Places, PowerPositive
<1>4. Normalise(ip, length) = Format(f)
  BY DEF Normalise
<1>5. \A a : a \in NetworkOf(n, length) <=> a \in 0 .. 2^Width - 1 /\ a \div s = n \div s
  BY DEF NetworkOf
<1> HIDE DEF n, s
<1>6. n \div s \in Int /\ n % s \in 0 .. s - 1 /\ n = (n \div s) * s + (n % s)
  BY <1>1, <1>2, <1>3, DivMod
<1> DEFINE q == n \div s
           m == q * s
<1>7. m \in Int
  BY <1>2, <1>6
<1>8. f = m /\ f <= n /\ f \in Int
  <2> HIDE DEF m
  <2> QED
    BY <1>1, <1>2, <1>3, <1>6, <1>7 DEF m
<1>9. q \in Nat /\ f \in 0 .. 2^Width - 1
  <2>1. q \in Nat
    BY <1>1, <1>2, <1>3
  <2>2. m \in Nat
    <3> HIDE DEF q
    <3> QED
      BY <1>2, <2>1
  <2> HIDE DEF m, f
  <2> QED
    BY <1>1, <1>3, <1>8, <2>1, <2>2
<1>10. f \div s = n \div s
  <2>1. f = q * s + 0 /\ 0 \in 0 .. s - 1
    BY <1>2, <1>7, <1>8
  <2> HIDE DEF f, q
  <2>2. f \div s = q
    BY <1>2, <1>8, <1>9, <2>1, DivUnique
  <2> QED
    BY <2>2 DEF q
<1>11. ASSUME NEW a \in NetworkOf(n, length) PROVE f <= a
  <2>1. a \in Int /\ a \div s = q
    BY <1>3, <1>5
  <2>2. a % s \in 0 .. s - 1 /\ a = (a \div s) * s + (a % s)
    BY <1>2, <2>1, DivMod
  <2>3. a = m + (a % s)
    BY <2>1, <2>2
  <2> HIDE DEF m, f
  <2> QED
    BY <1>2, <1>7, <1>8, <2>2, <2>3
<1>12. GetInt(Normalise(ip, length)) = f
  <2> HIDE DEF f
  <2> QED
    BY <1>4, <1>9, FormatIsRead
<1> HIDE DEF f, q, m
<1> QED
  BY <1>5, <1>9, <1>10, <1>11, <1>12 DEF NormalIsFirst, n

(* For octets of any width, normalise gives the first address of the       *)
(* network that an address and a length name, and getInt reads it back     *)
(* from the text (CidrBlock 25-35).                                        *)
THEOREM NormalisedIsFirst == RouteSpec => []NormalIsFirst
BY RouteInvariant, InvImpliesNormal, PTL

-----------------------------------------------------------------------------
(* The length of a mask.                                                   *)

(* A number is an odd one times a power of two.                            *)
OddPart(n, z, q) == z \in Nat /\ q \in Nat /\ q % 2 = 1 /\ n = q * 2^z

LEMMA Even ==
  ASSUME NEW n \in Nat \ {0}, n % 2 = 0
  PROVE  n \div 2 \in Nat \ {0} /\ n \div 2 < n /\ n = 2 * (n \div 2)
OBVIOUS

LEMMA OddPartDoubles ==
  ASSUME NEW n \in Nat, NEW z, NEW q, OddPart(n, z, q)
  PROVE  OddPart(2 * n, z + 1, q)
<1>1. z \in Nat /\ q \in Nat /\ n = q * 2^z /\ 2^z \in Nat
  BY PowerPositive DEF OddPart
<1>2. 2^(z + 1) = 2 * 2^z
  BY <1>1, PowerDoubles
<1> DEFINE s == 2^z
<1>3. 2 * n = q * (2 * s)
  <2>1. n = q * s /\ s \in Nat
    BY <1>1
  <2> HIDE DEF s
  <2> QED
    BY <1>1, <2>1
<1> QED
  BY <1>1, <1>2, <1>3 DEF OddPart

LEMMA OddPartExists ==
  ASSUME NEW n \in Nat \ {0}
  PROVE  \E z, q : OddPart(n, z, q)
<1> DEFINE T == {k \in Nat \ {0} : ~ \E z, q : OddPart(k, z, q)}
<1>1. SUFFICES ASSUME T # {} PROVE FALSE
  OBVIOUS
<1>2. PICK k \in T : \A j \in T : k <= j
  BY <1>1, LeastNumber
<1>3. k \in Nat \ {0} /\ ~ \E z, q : OddPart(k, z, q)
  OBVIOUS
<1>4. k % 2 = 0 \/ k % 2 = 1
  BY <1>3
<1>5. CASE k % 2 = 1
  <2>1. 2^0 = 1
    OBVIOUS
  <2>2. OddPart(k, 0, k)
    BY <1>3, <1>5, <2>1 DEF OddPart
  <2> QED
    BY <1>3, <2>2
<1>6. CASE k % 2 = 0
  <2> DEFINE h == k \div 2
  <2>1. h \in Nat \ {0} /\ h < k /\ k = 2 * h
    BY <1>3, <1>6, Even
  <2> HIDE DEF h
  <2>2. h \notin T
    BY <1>2, <1>3, <2>1
  <2>3. PICK z, q : OddPart(h, z, q)
    BY <2>1, <2>2
  <2>4. OddPart(k, z + 1, q)
    BY <2>1, <2>3, OddPartDoubles
  <2> QED
    BY <1>3, <2>4
<1> QED
  BY <1>4, <1>5, <1>6

LEMMA OddPartIsOne ==
  ASSUME NEW n \in Nat \ {0}, NEW z, NEW q, OddPart(n, z, q),
         NEW y, NEW p, OddPart(n, y, p)
  PROVE  z = y /\ q = p
<1>1. ASSUME NEW a, NEW b, NEW c, NEW d, OddPart(n, a, b), OddPart(n, c, d), a < c
      PROVE  FALSE
  <2>1. /\ a \in Nat /\ b \in Nat /\ c \in Nat /\ d \in Nat
        /\ b % 2 = 1 /\ n = b * 2^a /\ n = d * 2^c
    BY <1>1 DEF OddPart
  <2>2. (c - a) - 1 \in Nat /\ c = a + (((c - a) - 1) + 1) /\ ((c - a) - 1) + 1 \in Nat
    BY <1>1, <2>1
  <2> DEFINE s == 2^a
             r == 2^((c - a) - 1)
  <2>3. 2^c = s * (2 * r)
    BY <2>1, <2>2, PowerOfSum, PowerDoubles
  <2>4. s \in Nat \ {0} /\ r \in Nat \ {0} /\ n = b * s /\ n = d * 2^c
    BY <2>1, <2>2, PowerPositive
  <2> HIDE DEF s, r
  <2>5. b * s = d * (s * (2 * r))
    BY <2>3, <2>4
  <2>6. d * (s * (2 * r)) = (2 * (d * r)) * s
    BY <2>1, <2>4
  <2>7. b = 2 * (d * r)
    <3> DEFINE x == 2 * (d * r)
    <3>1. x \in Int /\ b * s = x * s
      BY <2>1, <2>4, <2>5, <2>6
    <3> HIDE DEF x
    <3>2. b * s = b * s + 0 /\ x * s = x * s + 0 /\ 0 \in 0 .. s - 1 /\ b * s \in Int
      BY <2>1, <2>4, <3>1
    <3>3. (b * s) \div s = b
      BY <2>1, <2>4, <3>2, DivUnique
    <3>4. (x * s) \div s = x
      BY <2>4, <3>1, <3>2, DivUnique
    <3> QED
      BY <3>1, <3>3, <3>4 DEF x
  <2>8. d * r \in Int
    BY <2>1, <2>4
  <2> QED
    BY <2>1, <2>7, <2>8
<1>2. z \in Nat /\ y \in Nat /\ q \in Nat /\ p \in Nat /\ n = q * 2^z /\ n = p * 2^y
  BY DEF OddPart
<1>3. z = y
  <2>1. ~(z < y)
    BY <1>1, Zenon
  <2>2. ~(y < z)
    BY <1>1, Zenon
  <2> QED
    BY <1>2, <2>1, <2>2
<1>4. q = p
  <2> DEFINE s == 2^z
  <2>1. s \in Nat \ {0} /\ q * s = p * s
    BY <1>2, <1>3, PowerPositive
  <2> HIDE DEF s
  <2>2. q * s = q * s + 0 /\ p * s = p * s + 0 /\ 0 \in 0 .. s - 1 /\ q * s \in Int
    BY <1>2, <2>1
  <2>3. (q * s) \div s = q
    BY <1>2, <2>1, <2>2, DivUnique
  <2>4. (p * s) \div s = p
    BY <1>2, <2>1, <2>2, DivUnique
  <2> QED
    BY <2>1, <2>3, <2>4
<1> QED
  BY <1>3, <1>4

(* LenZeros satisfies its equation, since a function does: the one that    *)
(* counts the twos.                                                        *)
LEMMA LenZerosLoops ==
  LenZeros = [n \in Nat \ {0} |-> IF n % 2 # 0 THEN 0 ELSE 1 + LenZeros[n \div 2]]
<1> DEFINE V(n) == CHOOSE z : \E q : OddPart(n, z, q)
           g == [n \in Nat \ {0} |-> V(n)]
<1>1. ASSUME NEW n \in Nat \ {0} PROVE \E q : OddPart(n, V(n), q)
  BY OddPartExists
<1>2. ASSUME NEW n \in Nat \ {0}, NEW z, NEW q, OddPart(n, z, q) PROVE V(n) = z
  BY <1>1, <1>2, OddPartIsOne
<1> HIDE DEF V
<1>3. ASSUME NEW n \in Nat \ {0}
      PROVE  V(n) = IF n % 2 # 0 THEN 0 ELSE 1 + V(n \div 2)
  <2>1. CASE n % 2 # 0
    <3>1. n % 2 = 1 /\ 2^0 = 1
      BY <2>1
    <3>2. OddPart(n, 0, n)
      BY <3>1 DEF OddPart
    <3> QED
      BY <1>2, <2>1, <3>2
  <2>2. CASE n % 2 = 0
    <3>1. n \div 2 \in Nat \ {0} /\ n = 2 * (n \div 2)
      BY <2>2, Even
    <3>2. PICK q : OddPart(n \div 2, V(n \div 2), q)
      BY <1>1, <3>1
    <3>3. OddPart(n, V(n \div 2) + 1, q)
      BY <3>1, <3>2, OddPartDoubles
    <3>4. V(n) = V(n \div 2) + 1 /\ V(n \div 2) \in Nat
      BY <1>2, <3>2, <3>3 DEF OddPart
    <3> QED
      BY <2>2, <3>4
  <2> QED
    BY <2>1, <2>2
<1>4. \A n \in Nat \ {0} : g[n] = IF n % 2 # 0 THEN 0 ELSE 1 + g[n \div 2]
  <2>1. TAKE n \in Nat \ {0}
  <2>2. n % 2 = 0 => n \div 2 \in Nat \ {0}
    BY Even
  <2>3. n % 2 # 0 \/ n % 2 = 0
    OBVIOUS
  <2> QED
    BY <1>3, <2>2, <2>3
<1>5. g = [n \in Nat \ {0} |-> IF n % 2 # 0 THEN 0 ELSE 1 + g[n \div 2]]
  <2>1. g = [n \in Nat \ {0} |-> g[n]]
    OBVIOUS
  <2> HIDE DEF g
  <2> QED
    BY <1>4, <2>1
<1> HIDE DEF g
<1> QED
  BY <1>5, Zenon DEF LenZeros

LEMMA LenZerosCounts ==
  ASSUME NEW n \in Nat \ {0}
  PROVE  \E q : OddPart(n, LenZeros[n], q)
<1> DEFINE T == {k \in Nat \ {0} : ~ \E q : OddPart(k, LenZeros[k], q)}
<1>1. SUFFICES ASSUME T # {} PROVE FALSE
  OBVIOUS
<1>2. PICK k \in T : \A j \in T : k <= j
  BY <1>1, LeastNumber
<1>3. k \in Nat \ {0} /\ ~ \E q : OddPart(k, LenZeros[k], q)
  OBVIOUS
<1>4. LenZeros[k] = IF k % 2 # 0 THEN 0 ELSE 1 + LenZeros[k \div 2]
  BY <1>3, LenZerosLoops
<1>5. CASE k % 2 # 0
  <2>1. k % 2 = 1 /\ 2^0 = 1 /\ LenZeros[k] = 0
    BY <1>3, <1>4, <1>5
  <2>2. OddPart(k, 0, k)
    BY <1>3, <2>1 DEF OddPart
  <2> QED
    BY <1>3, <2>1, <2>2
<1>6. CASE k % 2 = 0
  <2> DEFINE h == k \div 2
  <2>1. h \in Nat \ {0} /\ h < k /\ k = 2 * h
    BY <1>3, <1>6, Even
  <2>2. LenZeros[k] = 1 + LenZeros[h]
    BY <1>4, <1>6
  <2> HIDE DEF h
  <2>3. h \notin T
    BY <1>2, <1>3, <2>1
  <2>4. PICK q : OddPart(h, LenZeros[h], q)
    BY <2>1, <2>3
  <2>5. OddPart(k, LenZeros[h] + 1, q) /\ LenZeros[h] \in Nat
    BY <2>1, <2>4, OddPartDoubles DEF OddPart
  <2>6. LenZeros[k] = LenZeros[h] + 1
    BY <2>2, <2>5
  <2> QED
    BY <1>3, <2>5, <2>6
<1> QED
  BY <1>5, <1>6

LEMMA PowerGrows ==
  ASSUME NEW m \in Nat, NEW n \in Nat, m <= n
  PROVE  2^m <= 2^n
<1> DEFINE s == 2^m
           r == 2^(n - m)
<1>1. n - m \in Nat /\ n = (n - m) + m
  OBVIOUS
<1>2. 2^n = r * s
  BY <1>1, PowerOfSum
<1>3. s \in Nat \ {0} /\ r \in Nat \ {0}
  BY <1>1, PowerPositive
<1> HIDE DEF s, r
<1>4. 1 * s <= r * s
  BY <1>3, ProductGrows
<1> QED
  BY <1>2, <1>3, <1>4 DEF s

(* Ones above zeros: an odd number times a power of two.                   *)
LEMMA OnesAboveZeros ==
  ASSUME NEW k \in Nat, NEW z \in Nat, NEW q \in Nat
  PROVE  /\ 2^(k + 1) - 1 \in Nat /\ (2^(k + 1) - 1) % 2 = 1
         /\ 2^((k + 1) + z) = 2^(k + 1) * 2^z
         /\ q * 2^z = 2^((k + 1) + z) - 2^z <=> q = 2^(k + 1) - 1
         /\ (2^((k + 1) + z) - 1) \div 2^z = 2^(k + 1) - 1
<1> DEFINE h == 2^k
           a == 2^(k + 1)
           s == 2^z
           w == 2^((k + 1) + z)
<1>1. h \in Nat \ {0} /\ a = 2 * h /\ s \in Nat \ {0} /\ w = a * s
  <2>1. k + 1 \in Nat
    OBVIOUS
  <2> QED
    BY <2>1, PowerPositive, PowerDoubles, PowerOfSum
<1> HIDE DEF h, a, s, w
<1>2. a - 1 \in Nat /\ a \in Nat
  BY <1>1
<1>3. (a - 1) % 2 = 1
  <2>1. a - 1 = (h - 1) * 2 + 1 /\ h - 1 \in Int /\ a - 1 \in Int
    BY <1>1
  <2> QED
    BY <2>1, DivUnique
<1>4. (a - 1) * s = w - s /\ w \in Nat
  BY <1>1, <1>2
<1>5. ASSUME q * s = w - s PROVE q = a - 1
  <2> DEFINE x == a - 1
             y == q * s
  <2>1. x \in Int /\ y \in Int /\ y = x * s /\ 0 \in 0 .. s - 1
    BY <1>1, <1>2, <1>4, <1>5
  <2>2. y = q * s + 0 /\ y = x * s + 0
    BY <2>1
  <2> HIDE DEF x, y
  <2>3. y \div s = q
    BY <1>1, <2>1, <2>2, DivUnique
  <2>4. y \div s = x
    BY <1>1, <2>1, <2>2, DivUnique
  <2> QED
    BY <2>3, <2>4 DEF x
<1>6. (w - 1) \div s = a - 1
  <2> DEFINE x == a - 1
  <2>1. x \in Int /\ w - 1 \in Int /\ s - 1 \in 0 .. s - 1
    BY <1>1, <1>2, <1>4
  <2>2. w - 1 = x * s + (s - 1)
    BY <1>1, <1>4
  <2> HIDE DEF x
  <2>3. (w - 1) \div s = x
    BY <1>1, <2>1, <2>2, DivUnique
  <2> QED
    BY <2>3 DEF x
<1> QED
  BY <1>1, <1>2, <1>3, <1>4, <1>5, <1>6 DEF a, s, w

LEMMA InvImpliesLength == RouteInv => MaskLength
<1> SUFFICES ASSUME RouteInv PROVE MaskLength
  OBVIOUS
<1> DEFINE g == GetInt(mask)
           N == g + 2^Width
           z == LenZeros[N]
           lengths == {len \in 0 .. Width : g = 2^Width - 2^(Width - len)}
<1>1. Width \in Nat \ {0} /\ 2^Width \in Nat \ {0} /\ 2^(Width + 1) = 2 * 2^Width
  BY Places, PowerPositive, PowerDoubles
<1>2. g \in 0 .. 2^Width - 1
  BY GetIntInRange DEF RouteInv
<1> HIDE DEF g
<1>3. N \in Nat \ {0} /\ N < 2^(Width + 1)
  BY <1>1, <1>2
<1>4. PICK q : OddPart(N, z, q)
  <2> HIDE DEF N
  <2> QED
    BY <1>3, LenZerosCounts
<1> HIDE DEF z
<1>5. z \in Nat /\ q \in Nat /\ q % 2 = 1 /\ N = q * 2^z /\ 2^z \in Nat \ {0}
  BY <1>4, PowerPositive DEF OddPart
<1> HIDE DEF N
<1>6. z <= Width
  <2>1. SUFFICES ASSUME Width + 1 <= z PROVE FALSE
    BY <1>1, <1>5
  <2>2. 2^(Width + 1) <= 2^z
    BY <1>1, <1>5, <2>1, PowerGrows
  <2>3. 1 * 2^z <= q * 2^z
    BY <1>5, ProductGrows
  <2> QED
    BY <1>1, <1>3, <1>5, <2>2, <2>3
<1> DEFINE k == Width - z
           ones == 2^(k + 1) - 1
<1>7. k \in 0 .. Width /\ k \in Nat /\ (k + 1) + z = Width + 1 /\ Width - k = z
  BY <1>1, <1>5, <1>6
<1> HIDE DEF k
<1>8. (2^(Width + 1) - 1) \div 2^z = ones
  BY <1>5, <1>7, OnesAboveZeros
<1>9. N \div 2^z = q
  <2> DEFINE s == 2^z
  <2>1. s \in Nat \ {0} /\ N = q * s + 0 /\ 0 \in 0 .. s - 1 /\ N \in Int
    BY <1>3, <1>5
  <2> HIDE DEF s
  <2>2. N \div s = q
    BY <1>5, <2>1, DivUnique
  <2> QED
    BY <2>2 DEF s
<1>10. BlockLenFromMask(mask) = IF q # ones THEN Width ELSE k
  BY <1>8, <1>9 DEF BlockLenFromMask, N, g, z, k
<1>11. ASSUME NEW len \in 0 .. Width
       PROVE  len \in lengths <=> q = ones /\ len = k
  <2> DEFINE y == Width - len
             p == 2^(len + 1) - 1
  <2>1. len \in Nat /\ y \in Nat /\ (len + 1) + y = Width + 1 /\ 2^y \in Nat
    BY <1>1, PowerPositive
  <2>2. len \in lengths <=> N = 2^(Width + 1) - 2^y
    BY <1>1, <1>2, <2>1 DEF N
  <2>3. p \in Nat /\ p % 2 = 1 /\ p * 2^y = 2^(Width + 1) - 2^y
    BY <2>1, OnesAboveZeros
  <2> HIDE DEF p, y
  <2>4. ASSUME N = 2^(Width + 1) - 2^y PROVE q = ones /\ len = k
    <3>1. OddPart(N, y, p)
      BY <2>1, <2>3, <2>4 DEF OddPart
    <3>2. z = y /\ q = p
      BY <1>3, <1>4, <3>1, OddPartIsOne
    <3>3. len = k
      BY <1>1, <1>5, <2>1, <3>2 DEF k, y
    <3> QED
      BY <3>2, <3>3 DEF p
  <2>5. ASSUME q = ones, len = k PROVE N = 2^(Width + 1) - 2^y
    <3>1. y = z
      BY <1>7, <2>5 DEF y
    <3>2. q = p
      BY <2>5 DEF p
    <3> QED
      BY <1>5, <2>3, <3>1, <3>2
  <2> QED
    BY <2>2, <2>4, <2>5
<1>12. lengths = IF q = ones THEN {k} ELSE {}
  <2>1. lengths \subseteq 0 .. Width
    OBVIOUS
  <2> HIDE DEF lengths, ones
  <2> QED
    BY <1>7, <1>11, <2>1
<1> HIDE DEF lengths, ones
<1>13. MaskLength <=> BlockLenFromMask(mask) =
                        IF lengths = {} THEN Width ELSE CHOOSE len \in lengths : TRUE
  BY DEF MaskLength, lengths, g
<1> QED
  BY <1>10, <1>12, <1>13

(* For octets of any width, the loop that has no bound but the bit it adds *)
(* finds the length of every mask of ones followed by zeros, and takes any *)
(* other for that of a host (CidrBlock 44-59).                             *)
THEOREM MaskHasItsLength == RouteSpec => []MaskLength
BY RouteInvariant, InvImpliesLength, PTL

-----------------------------------------------------------------------------
(* The text of an IPv6 address.                                            *)

Least(S) == Seqs!Min(S)

LEMMA LeastIsThere ==
  ASSUME NEW S \in SUBSET Nat, S # {}
  PROVE  Least(S) \in S /\ \A k \in S : Least(S) <= k
<1>1. \E n \in S : \A k \in S : n <= k
  BY LeastNumber
<1> QED
  BY <1>1 DEF Least, Seqs!Min

(* One more pass over a set of groups, given what the passes over the      *)
(* smaller sets have come to.                                              *)
OnePass(parts, text, S) ==
  IF S = {} THEN Null ELSE Pass(parts[Least(S)], text[S \ {Least(S)}])

PassesOver(parts, n, text) ==
  text = [S \in SUBSET (1..n) |-> OnePass(parts, text, S)]

LEMMA OnePassDepends ==
  ASSUME NEW parts, NEW n \in Nat, NEW S \in SUBSET (1..n),
         NEW f, NEW g, S # {} => f[S \ {Least(S)}] = g[S \ {Least(S)}]
  PROVE  OnePass(parts, f, S) = OnePass(parts, g, S)
BY DEF OnePass

LEMMA SmallerSet ==
  ASSUME NEW n \in Nat, NEW S \in SUBSET (1..n)
  PROVE  /\ IsFiniteSet(S) /\ Cardinality(S) \in 0 .. n
         /\ S # {} => /\ S \ {Least(S)} \in SUBSET (1..n)
                      /\ Cardinality(S \ {Least(S)}) = Cardinality(S) - 1
<1>1. IsFiniteSet(1..n) /\ Cardinality(1..n) = n
  BY FS_Interval
<1>2. IsFiniteSet(S) /\ Cardinality(S) <= n /\ Cardinality(S) \in Nat
  BY <1>1, FS_Subset, FS_CardinalityType
<1>3. ASSUME S # {} PROVE Cardinality(S \ {Least(S)}) = Cardinality(S) - 1
  <2>1. S \in SUBSET Nat
    OBVIOUS
  <2>2. Least(S) \in S
    BY <1>3, <2>1, LeastIsThere
  <2> QED
    BY <1>2, <2>2, FS_RemoveElement
<1>4. Cardinality(S) \in 0 .. n
  BY <1>2
<1>5. S \ {Least(S)} \in SUBSET (1..n)
  OBVIOUS
<1> QED
  BY <1>2, <1>3, <1>4, <1>5, Zenon

(* The loop over any groups has a result: it goes from fewer to more.      *)
LEMMA PassesExist ==
  ASSUME NEW parts, NEW n \in Nat
  PROVE  \E text : PassesOver(parts, n, text)
<1> DEFINE D == SUBSET (1..n)
           Upto(k, f) == \A S \in D : Cardinality(S) <= k => f[S] = OnePass(parts, f, S)
           T == {k \in Nat : ~ \E f : Upto(k, f)}
<1>1. T = {}
  <2>1. SUFFICES ASSUME T # {} PROVE FALSE
    OBVIOUS
  <2> HIDE DEF Upto
  <2>2. PICK k \in T : \A j \in T : k <= j
    BY <2>1, LeastNumber
  <2>3. k \in Nat /\ ~ \E f : Upto(k, f)
    OBVIOUS
  <2>4. CASE k = 0
    <3> DEFINE f == [S \in D |-> Null]
    <3>1. ASSUME NEW S \in D, Cardinality(S) <= 0 PROVE f[S] = OnePass(parts, f, S)
      <4>1. S = {}
        <5>1. IsFiniteSet(S) /\ Cardinality(S) \in 0 .. n
          BY SmallerSet, Zenon
        <5>2. Cardinality(S) = 0
          BY <3>1, <5>1
        <5> QED
          BY <5>1, <5>2, FS_EmptySet
      <4> QED
        BY <4>1 DEF OnePass
    <3> HIDE DEF f
    <3>2. Upto(0, f)
      BY <3>1 DEF Upto
    <3> QED
      BY <2>3, <2>4, <3>2
  <2>5. CASE k # 0
    <3>1. k - 1 \in Nat /\ k - 1 \notin T
      BY <2>2, <2>3, <2>5
    <3>2. PICK f : Upto(k - 1, f)
      BY <3>1
    <3> DEFINE g == [S \in D |-> OnePass(parts, f, S)]
    <3>3. ASSUME NEW S \in D, Cardinality(S) <= k PROVE g[S] = OnePass(parts, g, S)
      <4>1. ASSUME S # {} PROVE f[S \ {Least(S)}] = g[S \ {Least(S)}]
        <5> DEFINE R == S \ {Least(S)}
        <5>1. R \in D /\ Cardinality(R) <= k - 1
          BY <2>3, <3>3, <4>1, SmallerSet
        <5> HIDE DEF R
        <5>2. f[R] = OnePass(parts, f, R)
          BY <3>2, <5>1 DEF Upto
        <5> QED
          BY <5>1, <5>2 DEF R
      <4>2. g[S] = OnePass(parts, f, S)
        OBVIOUS
      <4> HIDE DEF g
      <4> QED
        BY <4>1, <4>2, OnePassDepends
    <3> HIDE DEF g
    <3>4. Upto(k, g)
      BY <3>3 DEF Upto
    <3> QED
      BY <2>3, <3>4
  <2> QED
    BY <2>4, <2>5
<1>2. PICK f : Upto(n, f)
  BY <1>1
<1> DEFINE g == [S \in D |-> OnePass(parts, f, S)]
<1>3. ASSUME NEW S \in D PROVE f[S] = OnePass(parts, f, S)
  <2>1. Cardinality(S) \in 0 .. n
    BY SmallerSet
  <2>2. Cardinality(S) <= n
    BY <2>1
  <2> QED
    BY <1>2, <2>2
<1>4. ASSUME NEW S \in D PROVE g[S] = OnePass(parts, g, S)
  <2>1. ASSUME S # {} PROVE f[S \ {Least(S)}] = g[S \ {Least(S)}]
    BY <1>3, <2>1, SmallerSet
  <2>2. g[S] = OnePass(parts, f, S)
    OBVIOUS
  <2> HIDE DEF g
  <2> QED
    BY <2>1, <2>2, OnePassDepends
<1>5. g = [S \in D |-> OnePass(parts, g, S)]
  <2>1. g = [S \in D |-> g[S]]
    OBVIOUS
  <2> HIDE DEF g
  <2> QED
    BY <1>4, <2>1
<1> HIDE DEF g
<1> QED
  BY <1>5 DEF PassesOver

LEMMA FoldPasses ==
  ASSUME NEW parts, NEW n \in Nat, DOMAIN parts = 1..n
  PROVE  \E text : /\ PassesOver(parts, n, text)
                   /\ Seqs!FoldRight(Pass, parts, Null) = text[1..n]
<1> DEFINE text == CHOOSE f : PassesOver(parts, n, f)
<1>1. PassesOver(parts, n, text)
  BY PassesExist
<1>2. text = CHOOSE f : f = [S \in SUBSET (DOMAIN parts) |->
                              IF S = {} THEN Null
                              ELSE Pass(parts[Seqs!Min(S)], f[S \ {Seqs!Min(S)}])]
  BY Zenon DEF PassesOver, OnePass, Least
<1> HIDE DEF text
<1>3. Seqs!FoldRight(Pass, parts, Null) = text[DOMAIN parts]
  BY <1>2, Zenon DEF Seqs!FoldRight, Seqs!MapThenFoldSet
<1> QED
  BY <1>1, <1>3

(* What the passes from a group to the last one leave: the groups up to    *)
(* the last that is not zero, and whether zeros follow it.                 *)
TextFrom(parts, n, last, i) ==
  IF i > last THEN [groups |-> <<>>, elided |-> i <= n]
  ELSE [groups |-> SubSeq(parts, i, last), elided |-> last < n]

LEMMA PassOne ==
  ASSUME NEW n \in Nat, NEW parts \in Seq(Nat), Len(parts) = n,
         NEW last \in 0 .. n, last > 0 => parts[last] # 0,
         \A j \in last + 1 .. n : parts[j] = 0, NEW i \in 1 .. n
  PROVE  Pass(parts[i], TextFrom(parts, n, last, i + 1)) = TextFrom(parts, n, last, i)
<1> DEFINE text == TextFrom(parts, n, last, i + 1)
<1>1. CASE i > last
  <2>1. parts[i] = 0 /\ i + 1 > last /\ i <= n
    BY <1>1
  <2>2. text = [groups |-> <<>>, elided |-> i + 1 <= n]
    BY <2>1 DEF TextFrom
  <2>3. Pass(parts[i], text) = [groups |-> <<>>, elided |-> TRUE]
    <3> HIDE DEF text
    <3> QED
      BY <2>1, <2>2 DEF Pass
  <2>4. TextFrom(parts, n, last, i) = [groups |-> <<>>, elided |-> TRUE]
    BY <1>1, <2>1 DEF TextFrom
  <2> QED
    BY <2>3, <2>4
<1>2. CASE i = last
  <2>1. parts[i] # 0 /\ i + 1 > last /\ parts[i] \in Nat
    BY <1>2, ElementOfSeq
  <2>2. text = [groups |-> <<>>, elided |-> i + 1 <= n]
    BY <2>1 DEF TextFrom
  <2>3. Pass(parts[i], text) = [groups |-> <<parts[i]>> \o <<>>, elided |-> i + 1 <= n]
    <3> HIDE DEF text
    <3> QED
      BY <2>1, <2>2 DEF Pass
  <2>4. SubSeq(parts, i, i) = <<parts[i]>> \o SubSeq(parts, i + 1, i)
    BY SubSeqRecursiveFirst
  <2>5. SubSeq(parts, i + 1, i) = <<>>
    BY SubSeqEmpty
  <2>6. TextFrom(parts, n, last, i) = [groups |-> SubSeq(parts, i, i), elided |-> i + 1 <= n]
    <3>1. ~(i > last) /\ (last < n <=> i + 1 <= n)
      BY <1>2
    <3> QED
      BY <1>2, <3>1 DEF TextFrom
  <2> QED
    BY <2>3, <2>4, <2>5, <2>6
<1>3. CASE i < last
  <2>1. ~(i + 1 > last) /\ ~(i > last) /\ i \in 1 .. Len(parts) /\ last \in i .. Len(parts)
        /\ i + 1 \in Int /\ last \in Int
    BY <1>3
  <2>2. text = [groups |-> SubSeq(parts, i + 1, last), elided |-> last < n]
    BY <2>1 DEF TextFrom
  <2>3. SubSeq(parts, i + 1, last) # <<>>
    <3>1. \A j \in i + 1 .. last : parts[j] \in Nat
      BY ElementOfSeq
    <3>2. Len(SubSeq(parts, i + 1, last)) = last - (i + 1) + 1
      BY <1>3, <2>1, <3>1, SubSeqProperties
    <3>3. Len(<<>>) = 0 /\ last - (i + 1) + 1 # 0
      BY <1>3
    <3> QED
      BY <3>2, <3>3
  <2>4. Pass(parts[i], text) = [groups |-> <<parts[i]>> \o SubSeq(parts, i + 1, last),
                                elided |-> last < n]
    <3> HIDE DEF text
    <3> QED
      BY <2>2, <2>3 DEF Pass
  <2>5. SubSeq(parts, i, last) = <<parts[i]>> \o SubSeq(parts, i + 1, last)
    BY <2>1, SubSeqRecursiveFirst
  <2>6. TextFrom(parts, n, last, i) = [groups |-> SubSeq(parts, i, last), elided |-> last < n]
    BY <2>1 DEF TextFrom
  <2> QED
    BY <2>4, <2>5, <2>6
<1> QED
  BY <1>1, <1>2, <1>3

LEMMA TextIs ==
  ASSUME NEW n \in Nat, NEW parts \in Seq(Nat), Len(parts) = n,
         NEW last \in 0 .. n, last > 0 => parts[last] # 0,
         \A j \in last + 1 .. n : parts[j] = 0
  PROVE  Seqs!FoldRight(Pass, parts, Null) = TextFrom(parts, n, last, 1)
<1>1. DOMAIN parts = 1 .. n
  BY LenProperties
<1>2. PICK text : /\ PassesOver(parts, n, text)
                  /\ Seqs!FoldRight(Pass, parts, Null) = text[1..n]
  BY <1>1, FoldPasses
<1>3. \A S \in SUBSET (1..n) : text[S] = OnePass(parts, text, S)
  BY <1>2 DEF PassesOver
<1> DEFINE T == {k \in Nat : k <= n /\ text[n + 1 - k .. n] # TextFrom(parts, n, last, n + 1 - k)}
<1>4. T = {}
  <2>1. SUFFICES ASSUME T # {} PROVE FALSE
    OBVIOUS
  <2>2. PICK k \in T : \A j \in T : k <= j
    BY <2>1, LeastNumber
  <2> DEFINE i == n + 1 - k
  <2>3. /\ k \in Nat /\ k <= n /\ i \in 1 .. n + 1
        /\ text[i .. n] # TextFrom(parts, n, last, i)
    OBVIOUS
  <2>4. CASE k = 0
    <3>1. i .. n = {} /\ i > last /\ ~(i <= n)
      BY <2>4
    <3>2. text[{}] = Null
      BY <1>3 DEF OnePass
    <3> HIDE DEF i
    <3>3. (i <= n) = FALSE
      BY <3>1
    <3>4. TextFrom(parts, n, last, i) = [groups |-> <<>>, elided |-> i <= n]
      BY <3>1, Zenon DEF TextFrom
    <3>5. TextFrom(parts, n, last, i) = Null
      BY <3>3, <3>4, Zenon DEF Null
    <3> QED
      BY <2>3, <3>1, <3>2, <3>5
  <2>5. CASE k # 0
    <3>1. k - 1 \in Nat /\ k - 1 <= n /\ k - 1 \notin T /\ n + 1 - (k - 1) = i + 1 /\ i \in 1 .. n
      BY <2>2, <2>3, <2>5
    <3>2. text[i + 1 .. n] = TextFrom(parts, n, last, i + 1)
      BY <3>1
    <3> HIDE DEF i
    <3> DEFINE S == i .. n
    <3>3. S \in SUBSET (1..n) /\ S # {} /\ S \in SUBSET Nat
      <4>1. i \in S /\ S \in SUBSET (1..n) /\ S \in SUBSET Nat
        BY <3>1
      <4> QED
        BY <4>1
    <3>4. Least(S) = i
      <4>1. Least(S) \in S /\ \A j \in S : Least(S) <= j
        BY <3>3, LeastIsThere
      <4> QED
        BY <3>1, <4>1
    <3>5. S \ {i} = i + 1 .. n
      BY <3>1
    <3>6. text[S] = OnePass(parts, text, S)
      BY <1>3, <3>3
    <3> HIDE DEF S
    <3>7. text[S] = Pass(parts[i], TextFrom(parts, n, last, i + 1))
      BY <3>2, <3>3, <3>4, <3>5, <3>6 DEF OnePass
    <3>8. text[S] = TextFrom(parts, n, last, i)
      BY <3>1, <3>7, PassOne
    <3> QED
      BY <2>3, <3>8 DEF S
  <2> QED
    BY <2>4, <2>5
<1>5. text[1 .. n] = TextFrom(parts, n, last, 1)
  <2>1. n \notin T
    <3> HIDE DEF T
    <3> QED
      BY <1>4
  <2>2. n <= n /\ text[n + 1 - n .. n] = TextFrom(parts, n, last, n + 1 - n)
    BY <2>1
  <2>3. n + 1 - n = 1
    OBVIOUS
  <2> QED
    BY <2>2, <2>3
<1> QED
  BY <1>2, <1>5

LEMMA GroupsAreASeq ==
  ASSUME NEW n \in Nat, NEW f \in [1..n -> Nat]
  PROVE  f \in Seq(Nat) /\ Len(f) = n
<1>1. f \in Seq(Nat)
  BY SeqDef
<1>2. Len(f) \in Nat /\ DOMAIN f = 1 .. Len(f)
  BY <1>1, LenProperties
<1>3. 1 .. Len(f) = 1 .. n
  BY <1>2
<1> QED
  BY <1>1, <1>2, <1>3

LEMMA ZerosAreASeq ==
  ASSUME NEW n \in Nat
  PROVE  /\ Zeros6(n) \in Seq(Nat) /\ Len(Zeros6(n)) = n
         /\ \A i \in 1..n : Zeros6(n)[i] = 0
<1>1. Zeros6(n) \in [1..n -> Nat] /\ \A i \in 1..n : Zeros6(n)[i] = 0
  BY DEF Zeros6
<1> QED
  BY <1>1, GroupsAreASeq

(* The last of the groups that is not zero.                                *)
LEMMA LastNonzero ==
  ASSUME NEW n \in Nat, NEW s, NEW k \in 1..n, s[k] # 0
  PROVE  \E last \in 1..n : s[last] # 0 /\ \A j \in last + 1 .. n : s[j] = 0
<1> DEFINE T == {n - i : i \in {j \in 1..n : s[j] # 0}}
<1>1. T \in SUBSET Nat /\ n - k \in T
  OBVIOUS
<1>2. PICK t \in T : \A j \in T : t <= j
  BY <1>1, LeastNumber
<1>3. PICK last \in 1..n : s[last] # 0 /\ t = n - last
  BY <1>2
<1>4. ASSUME NEW j \in last + 1 .. n PROVE s[j] = 0
  <2>1. SUFFICES ASSUME s[j] # 0 PROVE FALSE
    OBVIOUS
  <2>2. j \in 1..n
    BY <1>3
  <2>3. n - j \in T
    BY <2>1, <2>2
  <2> HIDE DEF T
  <2> QED
    BY <1>2, <1>3, <2>2, <2>3
<1> QED
  BY <1>3, <1>4

LEMMA ZeroIsRead ==
  ASSUME NEW address \in [1..Groups -> Nat], \A i \in 1..Groups : address[i] = 0
  PROVE  address = Zeros6(Groups) /\ ReadIPv6(IPv6Address(address)) = address
<1>1. Groups \in Nat \ {0}
  BY GroupsAssumption
<1>2. address = Zeros6(Groups)
  BY DEF Zeros6
<1>3. Passes(address) = <<>>
  BY DEF Passes
<1>4. Seqs!FoldRight(Pass, <<>>, Null) = TextFrom(<<>>, 0, 0, 1)
  <2>1. <<>> \in Seq(Nat) /\ Len(<<>>) = 0
    BY EmptySeq
  <2>2. 0 \in Nat /\ 0 \in 0 .. 0 /\ ~(0 > 0) /\ \A j \in 0 + 1 .. 0 : <<>>[j] = 0
    OBVIOUS
  <2> QED
    BY <2>1, <2>2, TextIs
<1>5. TextFrom(<<>>, 0, 0, 1) = Null
  <2>1. 1 > 0 /\ (1 <= 0) = FALSE
    OBVIOUS
  <2> QED
    BY <2>1, Zenon DEF TextFrom, Null
<1>6. IPv6Address(address) = [groups |-> <<>>, elided |-> TRUE]
  BY <1>3, <1>4, <1>5 DEF IPv6Address
<1>7. ReadIPv6(IPv6Address(address)) = <<>> \o Zeros6(Groups)
  <2> DEFINE text == [groups |-> <<>>, elided |-> TRUE]
  <2>1. text.elided /\ text.groups = <<>> /\ Len(text.groups) = 0 /\ Groups - 0 = Groups
    BY <1>1, EmptySeq
  <2>2. Len(text.groups) < Groups /\ Groups - Len(text.groups) = Groups
    BY <1>1, <2>1
  <2> HIDE DEF text
  <2>3. ReadIPv6(text) = <<>> \o Zeros6(Groups)
    BY <2>1, <2>2 DEF ReadIPv6
  <2> QED
    BY <1>6, <2>3 DEF text
<1>8. <<>> \o Zeros6(Groups) = Zeros6(Groups)
  BY <1>1, ZerosAreASeq, ConcatEmptySeq
<1> QED
  BY <1>2, <1>7, <1>8

(* What is written of an address that is not zero.                         *)
LEMMA TextOf ==
  ASSUME NEW address \in [1..Groups -> Nat], NEW k \in 1..Groups, address[k] # 0
  PROVE  \E first \in 1..Groups, last \in 1..Groups, g \in Seq(Nat) :
           /\ first <= last
           /\ address[first] # 0
           /\ \A i \in 1..first - 1 : address[i] = 0
           /\ \A i \in last + 1..Groups : address[i] = 0
           /\ Len(g) = last - first + 1
           /\ \A i \in 1..last - first + 1 : g[i] = address[first + i - 1]
           /\ IPv6Address(address) = [groups |-> g, elided |-> last < Groups]
<1> DEFINE used == {i \in 1..Groups : address[i] # 0}
           first == CHOOSE i \in used : \A j \in used : i <= j
           n == Groups - first + 1
           s == SubSeq(address, first, Groups)
<1>1. Groups \in Nat \ {0}
  BY GroupsAssumption
<1>2. first \in used /\ \A j \in used : first <= j
  <2>1. used \in SUBSET Nat /\ k \in used
    OBVIOUS
  <2>2. \E i \in used : \A j \in used : i <= j
    BY <2>1, LeastNumber
  <2> HIDE DEF used
  <2> QED
    BY <2>2
<1>3. used # {} /\ Passes(address) = s
  <2>1. used # {}
    BY <1>2
  <2> QED
    BY <2>1, Zenon DEF Passes
<1>4. first \in 1..Groups /\ address[first] # 0 /\ \A i \in 1..first - 1 : address[i] = 0
  <2>1. first \in 1..Groups /\ address[first] # 0
    BY <1>2
  <2> HIDE DEF first
  <2>2. ASSUME NEW i \in 1..first - 1 PROVE address[i] = 0
    <3>1. i \in 1..Groups /\ ~(first <= i)
      BY <1>1, <2>1
    <3> QED
      BY <1>2, <3>1
  <2> QED
    BY <2>1, <2>2
<1> HIDE DEF first, used
<1>5. n \in 1..Groups /\ first \in Int /\ Groups \in Int
  BY <1>1, <1>4
<1>6. /\ s \in Seq(Nat) /\ Len(s) = n
      /\ \A i \in 1..n : s[i] = address[first + i - 1]
  <2>1. \A i \in first..Groups : address[i] \in Nat
    BY <1>1, <1>4
  <2> QED
    BY <1>1, <1>4, <1>5, <2>1, SubSeqProperties
<1> HIDE DEF s
<1>7. s[1] # 0 /\ 1 \in 1..n /\ n \in Nat
  <2>1. first + 1 - 1 = first
    BY <1>5
  <2> QED
    BY <1>4, <1>5, <1>6, <2>1
<1>8. PICK m \in 1..n : s[m] # 0 /\ \A j \in m + 1 .. n : s[j] = 0
  BY <1>7, LastNonzero
<1>9. Seqs!FoldRight(Pass, s, Null) = TextFrom(s, n, m, 1)
  <2>1. m \in 0 .. n
    BY <1>8
  <2> HIDE DEF n
  <2> QED
    BY <1>6, <1>7, <1>8, <2>1, TextIs
<1> DEFINE g == SubSeq(s, 1, m)
           last == first + m - 1
<1>10. /\ g \in Seq(Nat) /\ Len(g) = m /\ \A i \in 1..m : g[i] = s[i]
  <2>1. \A i \in 1..m : s[i] \in Nat
    <3>1. \A i \in 1..m : i \in 1..Len(s)
      BY <1>5, <1>6, <1>8
    <3> QED
      BY <1>6, <3>1, ElementOfSeq
  <2>2. m \in Int /\ 1 <= m /\ m - 1 + 1 = m
    BY <1>8
  <2>3. \A i \in 1..m : 1 + i - 1 = i
    OBVIOUS
  <2> QED
    BY <2>1, <2>2, <2>3, SubSeqProperties
<1>11. TextFrom(s, n, m, 1) = [groups |-> g, elided |-> m < n]
  <2>1. ~(1 > m)
    BY <1>8
  <2> QED
    BY <2>1, Zenon DEF TextFrom
<1>12. last \in 1..Groups /\ first <= last /\ m = last - first + 1 /\ (m < n) = (last < Groups)
  BY <1>1, <1>4, <1>5, <1>8
<1>13. IPv6Address(address) = [groups |-> g, elided |-> last < Groups]
  <2> DEFINE text == [groups |-> g, elided |-> last < Groups]
  <2>1. Seqs!FoldRight(Pass, Passes(address), Null) = text
    BY <1>3, <1>9, <1>11, <1>12
  <2>2. g # <<>>
    <3>1. Len(<<>>) = 0 /\ m # 0
      BY <1>8
    <3> QED
      BY <1>10, <3>1
  <2>3. text # Null
    <3> HIDE DEF g, last
    <3>1. text.groups = g /\ Null.groups = <<>>
      BY DEF Null
    <3> QED
      BY <2>2, <3>1
  <2> HIDE DEF text
  <2>4. IPv6Address(address) = text
    BY <2>1, <2>3 DEF IPv6Address
  <2> QED
    BY <2>4 DEF text
<1>14. ASSUME NEW i \in last + 1..Groups PROVE address[i] = 0
  <2> DEFINE j == i - first + 1
  <2>1. j \in m + 1..n /\ j \in 1..n /\ first + j - 1 = i
    BY <1>1, <1>4, <1>5, <1>8, <1>12
  <2> HIDE DEF j
  <2> QED
    BY <1>6, <1>8, <2>1
<1>15. ASSUME NEW i \in 1..m PROVE g[i] = address[first + i - 1]
  <2>1. i \in 1..n
    BY <1>5, <1>8
  <2> QED
    BY <1>6, <1>10, <2>1
<1> HIDE DEF g, last
<1>16. Len(g) = last - first + 1 /\ \A i \in 1..last - first + 1 : g[i] = address[first + i - 1]
  BY <1>10, <1>12, <1>15
<1> QED
  BY <1>4, <1>10, <1>12, <1>13, <1>14, <1>16

(* An address that is not zero is read back when it has no leading zeros.  *)
LEMMA NonzeroIsRead ==
  ASSUME NEW address \in [1..Groups -> Nat], NEW k \in 1..Groups, address[k] # 0
  PROVE  /\ (ReadIPv6(IPv6Address(address)) = address) <=> address[1] # 0
         /\ address # Zeros6(Groups)
<1>1. Groups \in Nat \ {0}
  BY GroupsAssumption
<1>2. address \in Seq(Nat) /\ Len(address) = Groups
  BY <1>1, GroupsAreASeq
<1>3. PICK first \in 1..Groups, last \in 1..Groups, g \in Seq(Nat) :
           /\ first <= last
           /\ address[first] # 0
           /\ \A i \in 1..first - 1 : address[i] = 0
           /\ \A i \in last + 1..Groups : address[i] = 0
           /\ Len(g) = last - first + 1
           /\ \A i \in 1..last - first + 1 : g[i] = address[first + i - 1]
           /\ IPv6Address(address) = [groups |-> g, elided |-> last < Groups]
  BY TextOf
<1> DEFINE text == [groups |-> g, elided |-> last < Groups]
<1>4. text.groups = g /\ text.elided = (last < Groups) /\ IPv6Address(address) = text
  BY <1>3, Zenon
<1> HIDE DEF text
<1>5. first \in Int /\ last \in Int /\ Len(g) \in Nat /\ 1 <= first /\ last <= Groups
  BY <1>1, <1>3
<1>6. address # Zeros6(Groups)
  BY DEF Zeros6
<1>7. ASSUME address[1] # 0 PROVE ReadIPv6(IPv6Address(address)) = address
  <2>1. first = 1
    <3>1. ~(1 \in 1..first - 1)
      BY <1>3, <1>7
    <3> QED
      BY <1>5, <3>1
  <2>2. Len(g) = last /\ \A i \in 1..last : g[i] = address[i]
    BY <1>3, <1>5, <2>1
  <2>3. CASE last < Groups
    <3> DEFINE n == Groups - last
               zeros == Zeros6(n)
    <3>1. n \in Nat /\ Groups - Len(g) = n /\ Len(g) < Groups
      BY <1>1, <1>5, <2>2, <2>3
    <3>2. ReadIPv6(text) = g \o zeros
      BY <1>4, <2>3, <3>1 DEF ReadIPv6
    <3>3. zeros \in Seq(Nat) /\ Len(zeros) = n /\ \A i \in 1..n : zeros[i] = 0
      BY <3>1, ZerosAreASeq
    <3> HIDE DEF zeros
    <3>4. g \o zeros \in Seq(Nat) /\ Len(g \o zeros) = Groups
      <4>1. g \o zeros \in Seq(Nat) /\ Len(g \o zeros) = Len(g) + Len(zeros)
        BY <1>3, <3>3, ConcatProperties
      <4>2. Len(g) + Len(zeros) = Groups
        BY <1>1, <1>5, <2>2, <3>3
      <4> QED
        BY <4>1, <4>2
    <3>5. ASSUME NEW i \in 1..Groups PROVE (g \o zeros)[i] = address[i]
      <4>1. i \in 1..Len(g) + Len(zeros)
        BY <1>1, <1>5, <2>2, <3>1, <3>3
      <4>2. (g \o zeros)[i] = IF i <= Len(g) THEN g[i] ELSE zeros[i - Len(g)]
        BY <1>3, <3>3, <4>1, ConcatProperties
      <4>3. CASE i <= last
        BY <1>5, <2>2, <4>2, <4>3
      <4>4. CASE i > last
        <5>1. i \in last + 1..Groups /\ i - last \in 1..n
          BY <1>1, <1>5, <4>4
        <5> QED
          BY <1>3, <1>5, <2>2, <3>3, <4>2, <4>4, <5>1
      <4>5. i <= last \/ i > last
        BY <1>1, <1>5
      <4> QED
        BY <4>3, <4>4, <4>5, Zenon
    <3> QED
      BY <1>2, <1>4, <3>2, <3>4, <3>5, SeqEqual
  <2>4. CASE last = Groups
    <3>1. ~text.elided
      <4>1. ~(last < Groups)
        BY <1>1, <2>4
      <4> QED
        BY <1>4, <4>1, Zenon
    <3>2. ReadIPv6(text) = g
      BY <1>4, <2>2, <2>4, <3>1, Zenon DEF ReadIPv6
    <3>3. g = address
      BY <1>2, <1>3, <2>2, <2>4, SeqEqual
    <3> QED
      BY <1>4, <3>2, <3>3
  <2> QED
    BY <1>1, <1>5, <2>3, <2>4
<1>8. ASSUME address[1] = 0 PROVE ReadIPv6(IPv6Address(address)) # address
  <2>1. first > 1 /\ Len(g) < Groups /\ 1 \in 1..last - first + 1 /\ Len(g) >= 1
    BY <1>1, <1>3, <1>5, <1>8
  <2>2. CASE last < Groups
    <3> DEFINE n == Groups - Len(g)
               zeros == Zeros6(n)
    <3>1. n \in Nat
      BY <1>1, <1>5, <2>1
    <3>2. ReadIPv6(text) = g \o zeros
      BY <1>4, <2>1, <2>2 DEF ReadIPv6
    <3>3. zeros \in Seq(Nat) /\ Len(zeros) = n
      BY <3>1, ZerosAreASeq
    <3> HIDE DEF zeros
    <3>4. 1 \in 1..Len(g) + Len(zeros) /\ 1 <= Len(g)
      BY <1>1, <1>5, <2>1, <3>1, <3>3
    <3>5. (g \o zeros)[1] = g[1]
      BY <1>3, <3>3, <3>4, ConcatProperties
    <3>6. g[1] = address[first]
      <4>1. first + 1 - 1 = first
        BY <1>5
      <4> QED
        BY <1>3, <2>1, <4>1
    <3> QED
      BY <1>3, <1>4, <1>8, <3>2, <3>5, <3>6
  <2>3. CASE last = Groups
    <3>1. ~text.elided /\ Len(g) # Groups
      <4>1. ~(last < Groups) /\ Len(g) # Groups
        BY <1>1, <1>5, <2>1, <2>3
      <4> QED
        BY <1>4, <4>1, Zenon
    <3>2. ReadIPv6(text) = <<>>
      BY <1>4, <3>1, Zenon DEF ReadIPv6
    <3>3. Len(<<>>) = 0
      OBVIOUS
    <3> QED
      BY <1>1, <1>2, <1>4, <3>2, <3>3
  <2> QED
    BY <1>1, <1>5, <2>2, <2>3
<1> QED
  BY <1>6, <1>7, <1>8

LEMMA InvImpliesReads == RouteInv => ReadsBack
<1>1. SUFFICES ASSUME RouteInv PROVE ReadsBack
  OBVIOUS
<1>2. Groups \in Nat \ {0} /\ ip6 \in [1..Groups -> Nat] /\ 1 \in 1..Groups
  BY <1>1, GroupsAssumption DEF RouteInv
<1>3. CASE \A i \in 1..Groups : ip6[i] = 0
  <2>1. ip6 = Zeros6(Groups) /\ ReadIPv6(IPv6Address(ip6)) = ip6
    BY <1>2, <1>3, ZeroIsRead
  <2> QED
    BY <2>1 DEF ReadsBack
<1>4. CASE \E i \in 1..Groups : ip6[i] # 0
  <2>1. PICK k \in 1..Groups : ip6[k] # 0
    BY <1>4
  <2>2. /\ (ReadIPv6(IPv6Address(ip6)) = ip6) <=> ip6[1] # 0
        /\ ip6 # Zeros6(Groups)
    BY <1>2, <2>1, NonzeroIsRead
  <2> QED
    BY <2>2 DEF ReadsBack
<1> QED
  BY <1>3, <1>4

(* The text an IPv6 address is written as (IpAddress 86-103), which        *)
(* PolarVpnService 594 gives to the system, is read back as that address   *)
(* exactly when the first of its groups is not zero or all of them are,    *)
(* whatever the number of groups and their values.                         *)
THEOREM TextIsReadBack == RouteSpec => []ReadsBack
BY RouteInvariant, InvImpliesReads, PTL

-----------------------------------------------------------------------------
(* What a list is made of and what becomes of an address do not depend on  *)
(* each other: a behavior of MCRoutes is one of NetworkSpace and one of    *)
(* AddressConversion, so the theorems above hold of it.                    *)
THEOREM RoutesAreBoth == MCSpec => Spec /\ RouteSpec
<1>1. MCInit => Init /\ RouteInit
  BY DEF MCInit
<1>2. [MCNext]_<<vars, routeVars>> => [Next]_vars
  BY DEF MCNext, ListStep, ConvertStep
<1>3. [MCNext]_<<vars, routeVars>> => [Convert \/ Converted]_routeVars
  BY DEF MCNext, ListStep, ConvertStep
<1> QED
  BY <1>1, <1>2, <1>3, PTL DEF MCSpec, Spec, RouteSpec

=============================================================================
