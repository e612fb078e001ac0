------------------------ MODULE OrderPlacementProofs ------------------------
(***************************************************************************)
(* Theorems about OrderPlacement for every set of inputs, prices, coupons  *)
(* and limits, overlapping or serial.  Sums over lines, orders and         *)
(* requests are taken apart one summand at a time.                         *)
(***************************************************************************)
EXTENDS OrderPlacement, FiniteSetTheorems, TLAPS

-----------------------------------------------------------------------------
(* Sums over finite sets.  A sum is computed by recursion on the set; what   *)
(* holds of it is proved by looking at a smallest set where it would not.    *)

\* The element a sum starts with.
Pick(s) == CHOOSE x \in s : TRUE

\* g has the sum of f over every subset of S.
IsSum(f, S, g) ==
  g = [s \in SUBSET S |-> IF s = {} THEN 0 ELSE f[Pick(s)] + g[s \ {Pick(s)}]]

LEMMA Unfold ==
  ASSUME NEW f, NEW S
  PROVE  SumFunctionOnSet(f, S) = (CHOOSE g : IsSum(f, S, g))[S]
BY DEF SumFunctionOnSet, FoldFunctionOnSet, MapThenFoldSet, IsSum, Pick

\* Of some subsets of a finite set one contains no other.
LEMMA SmallestSubset ==
  ASSUME NEW S, IsFiniteSet(S), NEW Z, Z \subseteq SUBSET S, Z # {}
  PROVE  \E u \in Z : \A v \in Z : v \subseteq u => v = u
<1> DEFINE R == StrictSubsetOrdering(S)
<1>1. IsWellFoundedOn(R, FiniteSubsetsOf(S)) /\ FiniteSubsetsOf(S) = SUBSET S
  BY FS_StrictSubsetOrderingWellFounded, FS_FiniteSubsetsOfFinite
<1>2. PICK u \in Z : \A v \in Z : <<v, u>> \notin R
  <2> HIDE DEF R
  <2>. QED
    BY <1>1, WFMin
<1>. QED
  BY <1>2 DEF StrictSubsetOrdering

\* Two solutions agree wherever both are defined.
LEMMA SumsAgree ==
  ASSUME NEW f, NEW S, NEW T, IsFiniteSet(S), NEW g, NEW h, IsSum(f, S, g), IsSum(f, T, h)
  PROVE  \A u : u \subseteq S /\ u \subseteq T => g[u] = h[u]
<1> DEFINE Z == {u \in SUBSET S : u \subseteq T /\ g[u] # h[u]}
<1> SUFFICES ASSUME Z # {} PROVE FALSE
  OBVIOUS
<1>1. PICK u \in Z : \A v \in Z : v \subseteq u => v = u
  <2>1. Z \subseteq SUBSET S
    OBVIOUS
  <2> HIDE DEF Z
  <2>. QED
    BY <2>1, SmallestSubset
<1> DEFINE c == Pick(u)
<1>2. u \in SUBSET S /\ u \in SUBSET T /\ g[u] # h[u]
  OBVIOUS
<1>3. CASE u = {}
  BY <1>2, <1>3 DEF IsSum
<1>4. CASE u # {}
  <2>1. c \in u
    BY <1>4 DEF Pick
  <2>2. g[u \ {c}] = h[u \ {c}]
    BY <1>1, <1>2, <2>1
  <2>3. g[u] = f[c] + g[u \ {c}] /\ h[u] = f[c] + h[u \ {c}]
    BY <1>2, <1>4 DEF IsSum
  <2>. QED
    BY <1>2, <2>2, <2>3
<1>. QED
  BY <1>3, <1>4

LEMMA SumsExist ==
  ASSUME NEW f, NEW S, IsFiniteSet(S) PROVE \E g : IsSum(f, S, g)
<1> DEFINE Z == {u \in SUBSET S : ~ \E g : IsSum(f, u, g)}
<1> SUFFICES ASSUME Z # {} PROVE FALSE
  OBVIOUS
<1>1. PICK T \in Z : \A v \in Z : v \subseteq T => v = T
  <2>1. Z \subseteq SUBSET S
    OBVIOUS
  <2> HIDE DEF Z
  <2>. QED
    BY <2>1, SmallestSubset
<1> DEFINE h(u) == CHOOSE g : IsSum(f, u, g)
           val(u) == h(u)[u]
           G == [s \in SUBSET T |-> IF s = {} THEN 0 ELSE f[Pick(s)] + val(s \ {Pick(s)})]
<1>2. \A u \in SUBSET T : u # T => IsFiniteSet(u) /\ IsSum(f, u, h(u))
  <2> SUFFICES ASSUME NEW u \in SUBSET T, u # T PROVE IsFiniteSet(u) /\ \E g : IsSum(f, u, g)
    OBVIOUS
  <2>. QED
    BY <1>1, FS_Subset
<1> HIDE DEF h
<1>3. ASSUME NEW s \in SUBSET T, s # {} PROVE val(s \ {Pick(s)}) = G[s \ {Pick(s)}]
  <2> DEFINE u == s \ {Pick(s)}
             w == u \ {Pick(u)}
  <2>0. Pick(s) \in s
    BY <1>3 DEF Pick
  <2>1. u \in SUBSET T /\ u # T
    BY <2>0
  <2>2. IsFiniteSet(u) /\ IsSum(f, u, h(u))
    BY <1>2, <2>1
  <2>3. CASE u = {}
    <3>1. h(u)[u] = 0
      BY <2>2, <2>3 DEF IsSum
    <3>. QED
      BY <2>1, <2>3, <3>1
  <2>4. CASE u # {}
    <3>0. Pick(u) \in u
      BY <2>4 DEF Pick
    <3>1. w \in SUBSET T /\ w # T /\ w \subseteq u
      BY <2>1, <3>0
    <3>2. IsFiniteSet(w) /\ IsSum(f, w, h(w))
      BY <1>2, <3>1
    <3>3. h(u)[w] = h(w)[w]
      BY <2>2, <3>1, <3>2, SumsAgree
    <3>4. h(u)[u] = f[Pick(u)] + h(u)[w]
      BY <2>2, <2>4 DEF IsSum
    <3>. QED
      BY <2>1, <2>4, <3>3, <3>4
  <2>. QED
    BY <2>3, <2>4
<1>4. IsSum(f, T, G)
  <2>1. \A s \in SUBSET T : G[s] = IF s = {} THEN 0 ELSE f[Pick(s)] + G[s \ {Pick(s)}]
    BY <1>3
  <2>2. G = [s \in SUBSET T |-> G[s]]
    OBVIOUS
  <2> HIDE DEF G
  <2>. QED
    BY <2>1, <2>2 DEF IsSum
<1>. QED
  BY <1>1, <1>4

\* The sum of nothing, and what the choice of a first element leaves.
LEMMA SumSteps ==
  ASSUME NEW f, NEW S, IsFiniteSet(S)
  PROVE  /\ S = {} => SumFunctionOnSet(f, S) = 0
         /\ S # {} => /\ Pick(S) \in S
                      /\ SumFunctionOnSet(f, S) = f[Pick(S)] + SumFunctionOnSet(f, S \ {Pick(S)})
<1> DEFINE sum(T) == CHOOSE g : IsSum(f, T, g)
           u == S \ {Pick(S)}
<1>1. IsSum(f, S, sum(S))
  BY SumsExist
<1>2. IsFiniteSet(u) /\ IsSum(f, u, sum(u))
  BY FS_RemoveElement, SumsExist
<1>3. SumFunctionOnSet(f, S) = sum(S)[S] /\ SumFunctionOnSet(f, u) = sum(u)[u]
  BY Unfold
<1> HIDE DEF sum
<1>4. S = {} => sum(S)[S] = 0
  BY <1>1 DEF IsSum
<1>5. ASSUME S # {} PROVE Pick(S) \in S /\ sum(S)[S] = f[Pick(S)] + sum(u)[u]
  <2>1. Pick(S) \in S
    BY <1>5 DEF Pick
  <2>2. sum(S)[S] = f[Pick(S)] + sum(S)[u]
    BY <1>1, <1>5 DEF IsSum
  <2>3. sum(S)[u] = sum(u)[u]
    BY <1>1, <1>2, SumsAgree
  <2>. QED
    BY <2>1, <2>2, <2>3
<1>. QED
  BY <1>3, <1>4, <1>5

\* Numbers add up to a number.
LEMMA SumType ==
  ASSUME NEW f, NEW S, IsFiniteSet(S), \A x \in S : f[x] \in Nat
  PROVE  SumFunctionOnSet(f, S) \in Nat
<1> DEFINE Z == {u \in SUBSET S : SumFunctionOnSet(f, u) \notin Nat}
<1> SUFFICES ASSUME Z # {} PROVE FALSE
  OBVIOUS
<1>1. PICK u \in Z : \A v \in Z : v \subseteq u => v = u
  <2>1. Z \subseteq SUBSET S
    OBVIOUS
  <2> HIDE DEF Z
  <2>. QED
    BY <2>1, SmallestSubset
<1>2. u \in SUBSET S /\ IsFiniteSet(u) /\ SumFunctionOnSet(f, u) \notin Nat
  BY FS_Subset
<1> DEFINE c == Pick(u)
<1>3. u # {} /\ c \in u /\ SumFunctionOnSet(f, u) = f[c] + SumFunctionOnSet(f, u \ {c})
  <2>1. u # {}
    <3>1. u = {} => SumFunctionOnSet(f, u) = 0
      BY <1>2, SumSteps
    <3>. QED
      BY <1>2, <3>1
  <2> HIDE DEF Z
  <2>. QED
    BY <1>2, <2>1, SumSteps
<1>4. SumFunctionOnSet(f, u \ {c}) \in Nat
  BY <1>1, <1>2, <1>3
<1>5. f[c] \in Nat
  BY <1>2, <1>3
<1> HIDE DEF c, Z
<1>. QED
  BY <1>2, <1>3, <1>4, <1>5

\* Any element may be the first.
LEMMA SumTake ==
  ASSUME NEW f, NEW S, IsFiniteSet(S), \A x \in S : f[x] \in Nat, NEW x \in S
  PROVE  SumFunctionOnSet(f, S) = f[x] + SumFunctionOnSet(f, S \ {x})
<1> DEFINE sum(T) == SumFunctionOnSet(f, T)
           Z == {u \in SUBSET S : \E y \in u : sum(u) # f[y] + sum(u \ {y})}
<1> SUFFICES ASSUME Z # {} PROVE FALSE
  OBVIOUS
<1>1. PICK u \in Z : \A v \in Z : v \subseteq u => v = u
  <2>1. Z \subseteq SUBSET S
    OBVIOUS
  <2> HIDE DEF Z
  <2>. QED
    BY <2>1, SmallestSubset
<1>2. PICK y \in u : sum(u) # f[y] + sum(u \ {y})
  OBVIOUS
<1>3. u \in SUBSET S /\ IsFiniteSet(u)
  BY FS_Subset
<1> DEFINE c == Pick(u)
<1>4. c \in u /\ sum(u) = f[c] + sum(u \ {c})
  <2>1. u # {}
    BY <1>2
  <2> HIDE DEF Z
  <2>. QED
    BY <2>1, <1>3, SumSteps
<1>5. c # y
  BY <1>2, <1>4
<1>6. sum(u \ {c}) = f[y] + sum((u \ {c}) \ {y})
  <2>1. u \ {c} \notin Z /\ u \ {c} \in SUBSET S /\ y \in u \ {c}
    BY <1>1, <1>3, <1>4, <1>5
  <2>. QED
    BY <2>1
<1>7. sum(u \ {y}) = f[c] + sum((u \ {y}) \ {c})
  <2>1. u \ {y} \notin Z /\ u \ {y} \in SUBSET S /\ c \in u \ {y}
    BY <1>1, <1>3, <1>4, <1>5
  <2>. QED
    BY <2>1
<1>8. (u \ {c}) \ {y} = (u \ {y}) \ {c}
  OBVIOUS
<1>9. f[c] \in Nat /\ f[y] \in Nat /\ sum((u \ {c}) \ {y}) \in Nat
  <2>1. (u \ {c}) \ {y} \in SUBSET S
    BY <1>3
  <2>. QED
    BY <1>3, <1>4, <2>1, FS_Subset, SumType
<1> HIDE DEF sum, Z, c
<1>. QED
  BY <1>2, <1>4, <1>6, <1>7, <1>8, <1>9

\* The sum depends on the values at the elements only.
LEMMA SumSame ==
  ASSUME NEW f, NEW g, NEW S, IsFiniteSet(S), \A x \in S : f[x] = g[x]
  PROVE  SumFunctionOnSet(f, S) = SumFunctionOnSet(g, S)
<1> DEFINE Z == {u \in SUBSET S : SumFunctionOnSet(f, u) # SumFunctionOnSet(g, u)}
<1> SUFFICES ASSUME Z # {} PROVE FALSE
  OBVIOUS
<1>1. PICK u \in Z : \A v \in Z : v \subseteq u => v = u
  <2>1. Z \subseteq SUBSET S
    OBVIOUS
  <2> HIDE DEF Z
  <2>. QED
    BY <2>1, SmallestSubset
<1>2. u \in SUBSET S /\ IsFiniteSet(u) /\ SumFunctionOnSet(f, u) # SumFunctionOnSet(g, u)
  BY FS_Subset
<1> DEFINE c == Pick(u)
<1>3. /\ u # {} /\ c \in u
      /\ SumFunctionOnSet(f, u) = f[c] + SumFunctionOnSet(f, u \ {c})
      /\ SumFunctionOnSet(g, u) = g[c] + SumFunctionOnSet(g, u \ {c})
  BY <1>2, SumSteps
<1>4. SumFunctionOnSet(f, u \ {c}) = SumFunctionOnSet(g, u \ {c})
  BY <1>1, <1>2, <1>3
<1>. QED
  BY <1>2, <1>3, <1>4

\* Sums add element by element.
LEMMA SumPlus ==
  ASSUME NEW f, NEW g, NEW h, NEW S, IsFiniteSet(S),
         \A x \in S : f[x] \in Nat /\ g[x] \in Nat /\ h[x] = f[x] + g[x]
  PROVE  SumFunctionOnSet(h, S) = SumFunctionOnSet(f, S) + SumFunctionOnSet(g, S)
<1> DEFINE F(T) == SumFunctionOnSet(f, T)
           G(T) == SumFunctionOnSet(g, T)
           H(T) == SumFunctionOnSet(h, T)
           Z == {u \in SUBSET S : H(u) # F(u) + G(u)}
<1> SUFFICES ASSUME Z # {} PROVE FALSE
  OBVIOUS
<1>1. PICK u \in Z : \A v \in Z : v \subseteq u => v = u
  <2>1. Z \subseteq SUBSET S
    OBVIOUS
  <2> HIDE DEF Z
  <2>. QED
    BY <2>1, SmallestSubset
<1>2. u \in SUBSET S /\ IsFiniteSet(u) /\ H(u) # F(u) + G(u)
  BY FS_Subset
<1> DEFINE c == Pick(u)
           w == u \ {c}
<1>3. /\ u = {} => F(u) = 0 /\ G(u) = 0 /\ H(u) = 0
      /\ u # {} => /\ c \in u
                   /\ F(u) = f[c] + F(w) /\ G(u) = g[c] + G(w) /\ H(u) = h[c] + H(w)
  BY <1>2, SumSteps
<1>4. u # {} => H(w) = F(w) + G(w)
  BY <1>1, <1>2, <1>3
<1>5. F(w) \in Nat /\ G(w) \in Nat
  <2>1. IsFiniteSet(w) /\ w \subseteq S
    BY <1>2, FS_Subset
  <2>. QED
    BY <2>1, SumType
<1>6. u # {} => f[c] \in Nat /\ g[c] \in Nat /\ h[c] = f[c] + g[c]
  BY <1>2, <1>3
<1> HIDE DEF F, G, H, Z, c, w
<1>. QED
  BY <1>2, <1>3, <1>4, <1>5, <1>6

-----------------------------------------------------------------------------
(* Units and amounts. *)

LEMMA InputShape ==
  ASSUME NEW i \in Inputs
  PROVE  /\ Len(i.items) \in Nat /\ i.deliveryType \in DeliveryType
         /\ i.coupon \in Coupons \cup {NoCoupon} /\ i.paymentMethod \in PaymentMethod
         /\ \A n \in 1..Len(i.items) : /\ i.items[n].product \in Products
                                       /\ i.items[n].amount \in Nat \ {0}
<1>1. i \in Input
  BY InputAssumption
<1>2. i.items \in Seq(Line)
  BY <1>1 DEF Input
<1>3. /\ i.deliveryType \in DeliveryType /\ i.coupon \in Coupons \cup {NoCoupon}
      /\ i.paymentMethod \in PaymentMethod
  BY <1>1 DEF Input
<1>4. Len(i.items) \in Nat /\ \A n \in 1..Len(i.items) : i.items[n] \in Line
  BY <1>2
<1>5. \A n \in 1..Len(i.items) : i.items[n].product \in Products /\ i.items[n].amount \in Nat \ {0}
  BY <1>4 DEF Line
<1>. QED
  BY <1>3, <1>4, <1>5

LEMMA UnitsOfLines ==
  ASSUME NEW i \in Inputs, NEW p, NEW n \in 0..Len(i.items)
  PROVE  /\ IsFiniteSet({m \in 1..n : i.items[m].product = p})
         /\ \A m \in 1..n : [k \in 1..n |-> i.items[k].amount][m] \in Nat
         /\ UnitsOf(i, p, n) \in Nat
<1>1. IsFiniteSet(1..n) /\ {m \in 1..n : i.items[m].product = p} \in SUBSET (1..n)
  BY InputShape, FS_Interval
<1>2. \A m \in 1..n : i.items[m].amount \in Nat
  BY InputShape
<1>. QED
  BY <1>1, <1>2, FS_Subset, SumType DEF UnitsOf

LEMMA NoUnits == ASSUME NEW i, NEW p PROVE UnitsOf(i, p, 0) = 0
<1>1. {m \in 1..0 : i.items[m].product = p} = {}
  OBVIOUS
<1>. QED
  BY <1>1, FS_EmptySet, SumSteps DEF UnitsOf

\* One more line adds its amount to the units of its product.
LEMMA UnitsOfNextLine ==
  ASSUME NEW i \in Inputs, NEW p, NEW n \in 0..Len(i.items), n < Len(i.items)
  PROVE  UnitsOf(i, p, n + 1) =
           UnitsOf(i, p, n) + (IF i.items[n + 1].product = p THEN i.items[n + 1].amount ELSE 0)
<1> DEFINE m == n + 1
           f == [k \in 1..n |-> i.items[k].amount]
           g == [k \in 1..m |-> i.items[k].amount]
           S == {k \in 1..n : i.items[k].product = p}
           T == {k \in 1..m : i.items[k].product = p}
<1>0. Len(i.items) \in Nat
  BY InputShape
<1>1. m \in 0..Len(i.items) /\ m \in 1..m /\ m \notin 1..n /\ 1..m = (1..n) \cup {m}
  BY <1>0
<1>2. IsFiniteSet(S) /\ IsFiniteSet(T) /\ (\A k \in T : g[k] \in Nat) /\ UnitsOf(i, p, n) \in Nat
  BY <1>1, UnitsOfLines
<1>3. \A k \in S : f[k] = g[k]
  BY <1>0
<1>4. SumFunctionOnSet(f, S) = SumFunctionOnSet(g, S)
  <2> HIDE DEF f, g, S
  <2>. QED
    BY <1>2, <1>3, SumSame
<1>5. UnitsOf(i, p, n) = SumFunctionOnSet(g, S) /\ UnitsOf(i, p, m) = SumFunctionOnSet(g, T)
  BY <1>4 DEF UnitsOf
<1>6. CASE i.items[m].product = p
  <2>1. m \in T /\ T \ {m} = S /\ g[m] = i.items[m].amount
    BY <1>1, <1>6
  <2>2. g[m] \in Nat
    BY <1>2, <2>1
  <2> HIDE DEF f, g, S, T
  <2>3. SumFunctionOnSet(g, T) = g[m] + SumFunctionOnSet(g, S)
    BY <1>2, <2>1, SumTake
  <2>. QED
    BY <1>2, <1>5, <1>6, <2>1, <2>2, <2>3
<1>7. CASE i.items[m].product # p
  <2>1. T = S
    BY <1>1, <1>7
  <2>2. UnitsOf(i, p, m) = UnitsOf(i, p, n)
    BY <1>5, <2>1
  <2> HIDE DEF f, g, S, T
  <2>3. UnitsOf(i, p, n) = UnitsOf(i, p, n) + 0
    BY <1>2
  <2>. QED
    BY <1>7, <2>2, <2>3
<1>. QED
  BY <1>6, <1>7

LEMMA UnitsType == ASSUME NEW i \in Inputs PROVE Units(i) \in [Products -> Nat]
<1>1. Len(i.items) \in 0..Len(i.items)
  BY InputShape
<1>. QED
  BY <1>1, UnitsOfLines DEF Units

LEMMA LinePrices ==
  ASSUME NEW u \in [Products -> Nat], NEW p \in Products
  PROVE  [q \in Products |-> Price[q] * u[q]][p] \in Nat
<1>1. Price[p] \in Nat /\ u[p] \in Nat
  BY MoneyAssumption
<1>2. \A a, b \in Nat : a * b \in Nat
  OBVIOUS
<1>. QED
  BY <1>1, <1>2

LEMMA SubtotalType == ASSUME NEW u \in [Products -> Nat] PROVE SubtotalOf(u) \in Nat
BY LinePrices, SumType, MenuAssumption DEF SubtotalOf, SumFunction

\* What is added to an order adds its price.
LEMMA SubtotalPlus ==
  ASSUME NEW u \in [Products -> Nat], NEW v \in [Products -> Nat]
  PROVE  SubtotalOf([p \in Products |-> u[p] + v[p]]) = SubtotalOf(u) + SubtotalOf(v)
<1> DEFINE both == [p \in Products |-> u[p] + v[p]]
           f == [p \in Products |-> Price[p] * u[p]]
           g == [p \in Products |-> Price[p] * v[p]]
           h == [p \in Products |-> Price[p] * both[p]]
<1>1. ASSUME NEW p \in Products PROVE f[p] \in Nat /\ g[p] \in Nat /\ h[p] = f[p] + g[p]
  <2>1. Price[p] \in Nat /\ u[p] \in Nat /\ v[p] \in Nat /\ both[p] = u[p] + v[p]
    BY MoneyAssumption
  <2>2. \A a, b, c \in Nat : a * (b + c) = a * b + a * c
    OBVIOUS
  <2>3. f[p] \in Nat /\ g[p] \in Nat
    BY LinePrices
  <2>4. f[p] = Price[p] * u[p] /\ g[p] = Price[p] * v[p] /\ h[p] = Price[p] * both[p]
    OBVIOUS
  <2>. QED
    BY <2>1, <2>2, <2>3, <2>4
<1>2. SubtotalOf(u) = SumFunctionOnSet(f, Products) /\ SubtotalOf(v) = SumFunctionOnSet(g, Products)
      /\ SubtotalOf(both) = SumFunctionOnSet(h, Products)
  BY DEF SubtotalOf, SumFunction
<1> HIDE DEF f, g, h, both
<1>3. SumFunctionOnSet(h, Products) = SumFunctionOnSet(f, Products) + SumFunctionOnSet(g, Products)
  BY <1>1, SumPlus, MenuAssumption
<1>. QED
  BY <1>2, <1>3 DEF both

\* A total is a number, and a larger subtotal does not lower it.
LEMMA TotalGrows ==
  ASSUME NEW s \in Nat, NEW t \in Nat, NEW d \in Nat, NEW f \in Nat
  PROVE  Total(s, d, f) \in Nat /\ Total(s, d, f) <= Total(s + t, d, f)
BY DEF Total

LEMMA DiscountType ==
  ASSUME NEW s \in Nat, NEW c \in Coupons \cup {NoCoupon} PROVE Discount(s, c) \in Nat
<1>1. \A a, b \in Nat : a * b \in Nat /\ a \div 100 \in Nat
  OBVIOUS
<1>2. CASE c = NoCoupon
  BY <1>2 DEF Discount
<1>3. CASE c # NoCoupon
  <2>1. DiscountValue[c] \in Nat
    BY <1>3, MoneyAssumption
  <2>. QED
    BY <1>1, <1>3, <2>1 DEF Discount
<1>. QED
  BY <1>2, <1>3

-----------------------------------------------------------------------------
(* Shapes, without the types of amounts. *)

Pcs == {"idle"} \cup Running \cup Ended

RequestsOK ==
  /\ DOMAIN request = Requests
  /\ \A r \in Requests :
       /\ DOMAIN request[r] = {"pc", "input", "taken", "target", "read"}
       /\ request[r].pc \in Pcs /\ request[r].input \in Inputs
       /\ request[r].target \in DOMAIN order \cup {NoOrder}

OrdersOK ==
  /\ DOMAIN order \subseteq Requests /\ IsFiniteSet(DOMAIN order)
  /\ \A o \in DOMAIN order :
       /\ DOMAIN order[o] = {"input", "state", "units", "subtotal", "discount",
                             "fee", "total", "asked"}
       /\ order[o].input \in Inputs

\* An order is there exactly when the request it is named after created it, and
\* carries what that request submitted.
CreatedOnce ==
  /\ \A o \in DOMAIN order : request[o].pc = "created"
  /\ \A r \in Requests : request[r].pc = "created" =>
       r \in DOMAIN order /\ request[r].target = r /\ order[r].input = request[r].input

\* The unique index on the idempotency key.
OneOrderPerKey ==
  \A o, p \in DOMAIN order : order[o].input.key = order[p].input.key => o = p

\* A request that answers for a key answers with an order.
ReplaysFound ==
  \A r \in Requests :
    /\ request[r].pc = "replayed" =>
         /\ request[r].target \in DOMAIN order
         /\ Payload(order[request[r].target].input) = Payload(request[r].input)
    /\ request[r].pc = "append" => request[r].target \in DOMAIN order

FeesKept == \A o \in DOMAIN order : order[o].fee = Fee(order[o].input.deliveryType)

CouponsOK == DOMAIN usedCount = Coupons /\ CouponUsesAreOrders

IInv ==
  /\ RequestsOK /\ OrdersOK /\ CreatedOnce /\ OneOrderPerKey /\ ReplaysFound
  /\ FeesKept /\ TotalsAgree /\ CouponsOK

LEMMA InitInv == Init => IInv
<1> SUFFICES ASSUME Init PROVE IInv
  OBVIOUS
<1>1. order = << >> /\ DOMAIN order = {}
  BY DEF Init
<1>2. /\ DOMAIN request = Requests
      /\ \A r \in Requests :
           /\ request[r] \in [pc: {"idle"}, input: Inputs, taken: {0}, target: {NoOrder}, read: {0}]
  BY DEF Init
<1>3. RequestsOK /\ \A r \in Requests : request[r].pc = "idle"
  BY <1>2 DEF RequestsOK, Pcs
<1>4. OrdersOK
  BY <1>1, FS_EmptySet DEF OrdersOK
<1>5. CouponsOK
  <2>1. \A c \in Coupons : {o \in DOMAIN order : order[o].input.coupon = c} = {}
    BY <1>1
  <2>2. \A c \in Coupons : usedCount[c] = 0 /\ UsageLimit[c] \in Nat
    BY MoneyAssumption DEF Init
  <2>3. DOMAIN usedCount = Coupons
    BY DEF Init
  <2>. QED
    BY <2>1, <2>2, <2>3, FS_EmptySet DEF CouponsOK, CouponUsesAreOrders
<1>. QED
  BY <1>1, <1>3, <1>4, <1>5
     DEF IInv, CreatedOnce, OneOrderPerKey, ReplaysFound, FeesKept, TotalsAgree

\* A program counter moves and nothing else of the request does.
LEMMA BecomeType ==
  ASSUME RequestsOK, NEW r \in Requests, NEW pc, Become(r, pc)
  PROVE  /\ DOMAIN request' = Requests
         /\ DOMAIN request'[r] = DOMAIN request[r]
         /\ request'[r].pc = pc
         /\ request'[r].input = request[r].input
         /\ request'[r].target = request[r].target
         /\ \A q \in Requests : q # r => request'[q] = request[q]
BY DEF Become, RequestsOK

LEMMA AnswerType ==
  ASSUME RequestsOK, NEW r \in Requests, NEW outcome, NEW o, Answer(r, outcome, o)
  PROVE  /\ DOMAIN request' = Requests
         /\ DOMAIN request'[r] = DOMAIN request[r]
         /\ request'[r].pc = outcome
         /\ request'[r].input = request[r].input
         /\ request'[r].target = o
         /\ \A q \in Requests : q # r => request'[q] = request[q]
BY DEF Answer, RequestsOK

-----------------------------------------------------------------------------
(* Steps that change requests only. *)

LEMMA RequestStep ==
  ASSUME IInv, UNCHANGED <<order, usedCount>>, NEW r \in Requests, request[r].pc # "created",
         DOMAIN request' = Requests, DOMAIN request'[r] = DOMAIN request[r],
         request'[r].pc \in Pcs \ {"created"},
         request'[r].input = request[r].input,
         request'[r].target \in DOMAIN order \cup {NoOrder},
         request'[r].pc = "replayed" =>
           /\ request'[r].target \in DOMAIN order
           /\ Payload(order[request'[r].target].input) = Payload(request[r].input),
         request'[r].pc = "append" => request'[r].target \in DOMAIN order,
         \A q \in Requests : q # r => request'[q] = request[q]
  PROVE  IInv'
<1> USE DEF IInv
<1>1. RequestsOK'
  <2> SUFFICES ASSUME NEW q \in Requests
               PROVE  /\ DOMAIN request'[q] = {"pc", "input", "taken", "target", "read"}
                      /\ request'[q].pc \in Pcs /\ request'[q].input \in Inputs
                      /\ request'[q].target \in DOMAIN order \cup {NoOrder}
    BY DEF RequestsOK
  <2>. QED
    BY DEF RequestsOK
<1>2. OrdersOK' /\ OneOrderPerKey' /\ FeesKept' /\ TotalsAgree'
  <2>1. OrdersOK'
    BY DEF OrdersOK
  <2>2. OneOrderPerKey' /\ FeesKept'
    BY DEF OneOrderPerKey, FeesKept
  <2>3. TotalsAgree'
    BY DEF TotalsAgree
  <2>. QED
    BY <2>1, <2>2, <2>3
<1>3. CouponsOK'
  BY DEF CouponsOK, CouponUsesAreOrders
<1>4. CreatedOnce'
  <2>1. \A o \in DOMAIN order : o \in Requests /\ o # r
    BY DEF CreatedOnce, OrdersOK
  <2>. QED
    BY <2>1 DEF CreatedOnce
<1>5. ReplaysFound'
  <2> SUFFICES ASSUME NEW q \in Requests
               PROVE  /\ request'[q].pc = "replayed" =>
                           /\ request'[q].target \in DOMAIN order
                           /\ Payload(order[request'[q].target].input) = Payload(request'[q].input)
                      /\ request'[q].pc = "append" => request'[q].target \in DOMAIN order
    BY DEF ReplaysFound
  <2>1. CASE q = r
    BY <2>1
  <2>2. CASE q # r
    BY <2>2 DEF ReplaysFound
  <2>. QED
    BY <2>1, <2>2
<1>. QED
  BY <1>1, <1>2, <1>3, <1>4, <1>5

LEMMA BecomeStep ==
  ASSUME IInv, UNCHANGED <<order, usedCount>>, NEW r \in Requests, request[r].pc # "created",
         NEW pc \in Pcs \ {"created", "replayed", "append"}, Become(r, pc)
  PROVE  IInv'
<1>1. /\ DOMAIN request' = Requests /\ DOMAIN request'[r] = DOMAIN request[r]
      /\ request'[r].pc = pc /\ request'[r].input = request[r].input
      /\ request'[r].target = request[r].target
      /\ \A q \in Requests : q # r => request'[q] = request[q]
  BY BecomeType DEF IInv
<1>2. request[r].target \in DOMAIN order \cup {NoOrder}
  BY DEF IInv, RequestsOK
<1>. QED
  BY <1>1, <1>2, RequestStep

\* A replay answers with an order of the same payload, or not at all.
LEMMA ReplayStep ==
  ASSUME IInv, UNCHANGED <<order, usedCount>>, NEW r \in Requests, request[r].pc # "created",
         NEW o \in Bound(request[r].input.key), AnswerReplay(r, o)
  PROVE  IInv'
<1>1. o \in DOMAIN order
  BY DEF Bound
<1>2. CASE SamePayload(o, request[r].input)
  <2>1. Answer(r, "replayed", o)
    BY <1>2 DEF AnswerReplay
  <2>2. /\ DOMAIN request' = Requests /\ DOMAIN request'[r] = DOMAIN request[r]
        /\ request'[r].pc = "replayed" /\ request'[r].input = request[r].input
        /\ request'[r].target = o
        /\ \A q \in Requests : q # r => request'[q] = request[q]
    BY <2>1, AnswerType DEF IInv
  <2>3. Payload(order[o].input) = Payload(request[r].input)
    BY <1>2 DEF SamePayload
  <2>4. "replayed" \in Pcs \ {"created"}
    BY DEF Pcs, Ended, Accepted
  <2>. QED
    BY <1>1, <2>2, <2>3, <2>4, RequestStep
<1>3. CASE ~SamePayload(o, request[r].input)
  <2>1. Become(r, "refused")
    BY <1>3 DEF AnswerReplay
  <2>. QED
    BY <2>1, BecomeStep DEF Pcs, Ended, Accepted
<1>. QED
  BY <1>2, <1>3

LEMMA SubmitInv == ASSUME IInv, NEW r \in Requests, Submit(r) PROVE IInv'
<1>1. UNCHANGED <<order, usedCount>> /\ request[r].pc # "created"
  BY DEF Submit
<1>2. CASE Become(r, "target")
  BY <1>1, <1>2, BecomeStep DEF Pcs, Running
<1>3. CASE \E o \in Bound(request[r].input.key) : AnswerReplay(r, o)
  BY <1>1, <1>3, ReplayStep
<1>. QED
  BY <1>2, <1>3 DEF Submit

LEMMA FindReplayInv == ASSUME IInv, NEW r \in Requests, FindReplay(r) PROVE IInv'
<1>1. UNCHANGED <<order, usedCount>> /\ request[r].pc # "created"
  BY DEF FindReplay
<1>. QED
  BY <1>1, ReplayStep DEF FindReplay

LEMMA FindTargetInv == ASSUME IInv, NEW r \in Requests, FindTarget(r) PROVE IInv'
<1> DEFINE found == AppendTargets(request[r].input)
<1>1. UNCHANGED <<order, usedCount>> /\ request[r].pc # "created"
  BY DEF FindTarget
<1>2. CASE Become(r, "deduct") \/ Become(r, "refused")
  BY <1>1, <1>2, BecomeStep DEF Pcs, Running, Ended, Accepted
<1>3. ASSUME NEW o \in found, Answer(r, "deduct", o) PROVE IInv'
  <2>1. o \in DOMAIN order
    BY <1>3 DEF AppendTargets
  <2>2. /\ DOMAIN request' = Requests /\ DOMAIN request'[r] = DOMAIN request[r]
        /\ request'[r].pc = "deduct" /\ request'[r].input = request[r].input
        /\ request'[r].target = o
        /\ \A q \in Requests : q # r => request'[q] = request[q]
    BY <1>3, AnswerType DEF IInv
  <2>3. "deduct" \in Pcs \ {"created"}
    BY DEF Pcs, Running
  <2>. QED
    BY <1>1, <2>1, <2>2, <2>3, RequestStep
<1>. QED
  BY <1>2, <1>3 DEF FindTarget

\* Stock is Redis's own business.
LEMMA DeductInv == ASSUME IInv, NEW r \in Requests, DeductLine(r) PROVE IInv'
<1>1. UNCHANGED <<order, usedCount>> /\ request[r].pc = "deduct"
  BY DEF DeductLine
<1>2. CASE Become(r, "refused")
  BY <1>1, <1>2, BecomeStep DEF Pcs, Ended, Accepted
<1>3. CASE request' = [request EXCEPT ![r].taken = request[r].taken + 1]
  <2>1. /\ DOMAIN request' = Requests /\ DOMAIN request'[r] = DOMAIN request[r]
        /\ request'[r].pc = "deduct" /\ request'[r].input = request[r].input
        /\ request'[r].target = request[r].target
        /\ \A q \in Requests : q # r => request'[q] = request[q]
    BY <1>1, <1>3 DEF IInv, RequestsOK
  <2>2. request[r].target \in DOMAIN order \cup {NoOrder} /\ "deduct" \in Pcs \ {"created"}
    BY DEF IInv, RequestsOK, Pcs, Running
  <2>. QED
    BY <1>1, <2>1, <2>2, RequestStep
<1>. QED
  BY <1>2, <1>3 DEF DeductLine

LEMMA QuietInv ==
  ASSUME IInv, NEW r \in Requests,
         Deducted(r) \/ CreateRefused(r) \/ CreateConflict(r) \/ Abort(r)
  PROVE  IInv'
<1>1. UNCHANGED <<order, usedCount>> /\ request[r].pc # "created"
  BY DEF Deducted, CreateRefused, CreateConflict, Abort, Creating, InFlight, Running
<1>2. \E pc \in {"write", "refused", "replay", "aborted"} : Become(r, pc)
  BY DEF Deducted, CreateRefused, CreateConflict, Abort
<1>3. {"write", "refused", "replay", "aborted"} \subseteq Pcs \ {"created", "replayed", "append"}
  BY DEF Pcs, Running, Ended, Accepted
<1>. QED
  BY <1>1, <1>2, <1>3, BecomeStep

LEMMA AppendReadInv == ASSUME IInv, NEW r \in Requests, AppendRead(r) PROVE IInv'
<1> DEFINE o == request[r].target
<1>1. UNCHANGED <<order, usedCount>> /\ request[r].pc # "created" /\ o # NoOrder
  BY DEF AppendRead
<1>2. CASE Become(r, "refused")
  BY <1>1, <1>2, BecomeStep DEF Pcs, Ended, Accepted
<1>3. CASE request' = [request EXCEPT ![r].pc = "append", ![r].read = order[o].subtotal]
  <2>1. o \in DOMAIN order
    BY <1>1 DEF IInv, RequestsOK
  <2>2. /\ DOMAIN request' = Requests /\ DOMAIN request'[r] = DOMAIN request[r]
        /\ request'[r].pc = "append" /\ request'[r].input = request[r].input
        /\ request'[r].target = o
        /\ \A q \in Requests : q # r => request'[q] = request[q]
    BY <1>3 DEF IInv, RequestsOK
  <2>3. "append" \in Pcs \ {"created"}
    BY DEF Pcs, Running
  <2>. QED
    BY <1>1, <2>1, <2>2, <2>3, RequestStep
<1>. QED
  BY <1>2, <1>3 DEF AppendRead

-----------------------------------------------------------------------------
(* Steps that change a row. *)

\* A row that keeps its input, its discount and its fee, and whose total agrees.
LEMMA RowStep ==
  ASSUME IInv, UNCHANGED usedCount, NEW o \in DOMAIN order, NEW row,
         order' = [order EXCEPT ![o] = row],
         DOMAIN row = DOMAIN order[o], row.input = order[o].input,
         row.discount = order[o].discount, row.fee = order[o].fee,
         row.total = Total(row.subtotal, row.discount, row.fee)
  PROVE  /\ DOMAIN order' = DOMAIN order
         /\ \A p \in DOMAIN order : order'[p].input = order[p].input
         /\ OrdersOK' /\ OneOrderPerKey' /\ FeesKept' /\ TotalsAgree' /\ CouponsOK'
<1> USE DEF IInv
<1>1. /\ DOMAIN order' = DOMAIN order /\ order'[o] = row
      /\ \A p \in DOMAIN order : p # o => order'[p] = order[p]
  OBVIOUS
<1>2. /\ \A p \in DOMAIN order : order'[p].input = order[p].input
      /\ \A p \in DOMAIN order : DOMAIN order'[p] = DOMAIN order[p]
      /\ \A p \in DOMAIN order : order'[p].discount = order[p].discount
      /\ \A p \in DOMAIN order : order'[p].fee = order[p].fee
  BY <1>1
<1>3. OrdersOK' /\ OneOrderPerKey' /\ FeesKept'
  BY <1>1, <1>2 DEF OrdersOK, OneOrderPerKey, FeesKept
<1>4. TotalsAgree'
  <2> SUFFICES ASSUME NEW p \in DOMAIN order
               PROVE  /\ order'[p].total = Total(order'[p].subtotal, order'[p].discount, order'[p].fee)
                      /\ order'[p].discount = Discount(SubtotalOf(Units(order'[p].input)),
                                                       order'[p].input.coupon)
    BY <1>1 DEF TotalsAgree
  <2>1. order[p].total = Total(order[p].subtotal, order[p].discount, order[p].fee)
        /\ order[p].discount = Discount(SubtotalOf(Units(order[p].input)), order[p].input.coupon)
    BY DEF TotalsAgree
  <2>2. CASE p = o
    BY <2>1, <2>2, <1>1
  <2>3. CASE p # o
    BY <2>1, <2>3, <1>1
  <2>. QED
    BY <2>2, <2>3
<1>5. CouponsOK'
  <2>1. \A c \in Coupons : {p \in DOMAIN order' : order'[p].input.coupon = c}
                             = {p \in DOMAIN order : order[p].input.coupon = c}
    BY <1>1, <1>2
  <2>. QED
    BY <2>1 DEF CouponsOK, CouponUsesAreOrders
<1>. QED
  BY <1>1, <1>2, <1>3, <1>4, <1>5

\* Payments ask and orders move on.
LEMMA MeanwhileInv ==
  ASSUME IInv, NEW o \in DOMAIN order, AskPayment(o) \/ LeavePending(o) PROVE IInv'
<1> USE DEF IInv
<1>1. UNCHANGED <<usedCount, request>>
  BY DEF AskPayment, LeavePending
<1>2. PICK row : /\ order' = [order EXCEPT ![o] = row]
                 /\ \/ row = [order[o] EXCEPT !.asked = order[o].total]
                    \/ \E state \in OrderState : row = [order[o] EXCEPT !.state = state]
  <2>1. CASE AskPayment(o)
    BY <2>1 DEF AskPayment
  <2>2. CASE LeavePending(o)
    <3>1. PICK state \in {"PAYMENT_FAILED", "CANCELLED"}
                           \cup SettledStates(order[o].input.deliveryType) :
            order' = [order EXCEPT ![o].state = state]
      BY <2>2 DEF LeavePending
    <3>2. state \in OrderState
      BY DEF OrderState, SettledStates
    <3>. QED
      BY <3>1, <3>2
  <2>. QED
    BY <2>1, <2>2
<1>3. DOMAIN order[o] = {"input", "state", "units", "subtotal", "discount",
                         "fee", "total", "asked"}
      /\ order[o].total = Total(order[o].subtotal, order[o].discount, order[o].fee)
  BY DEF OrdersOK, TotalsAgree
<1>4. /\ DOMAIN row = DOMAIN order[o] /\ row.input = order[o].input
      /\ row.discount = order[o].discount /\ row.fee = order[o].fee
      /\ row.total = order[o].total /\ row.subtotal = order[o].subtotal
  BY <1>2, <1>3
<1>5. /\ DOMAIN order' = DOMAIN order
      /\ \A p \in DOMAIN order : order'[p].input = order[p].input
      /\ OrdersOK' /\ OneOrderPerKey' /\ FeesKept' /\ TotalsAgree' /\ CouponsOK'
  BY <1>1, <1>2, <1>3, <1>4, RowStep
<1>6. RequestsOK' /\ CreatedOnce' /\ ReplaysFound'
  BY <1>1, <1>5 DEF RequestsOK, CreatedOnce, ReplaysFound
<1>. QED
  BY <1>5, <1>6

\* An append keeps the discount and prices the sum anew.
LEMMA AppendInv == ASSUME IInv, NEW r \in Requests, AppendItems(r) PROVE IInv'
<1> USE DEF IInv
<1> DEFINE o == request[r].target
           row == AppendedRow(order[o], request[r].input, request[r].read)
<1>1. UNCHANGED usedCount /\ Become(r, "appended") /\ request[r].pc = "append"
      /\ order' = [order EXCEPT ![o] = row]
  BY DEF AppendItems
<1>2. o \in DOMAIN order
  BY <1>1 DEF ReplaysFound
<1>3. DOMAIN order[o] = {"input", "state", "units", "subtotal", "discount",
                         "fee", "total", "asked"}
      /\ order[o].fee = Fee(order[o].input.deliveryType)
  BY <1>2 DEF OrdersOK, FeesKept
<1>4. /\ DOMAIN row = DOMAIN order[o] /\ row.input = order[o].input
      /\ row.discount = order[o].discount /\ row.fee = order[o].fee
      /\ row.total = Total(row.subtotal, row.discount, row.fee)
  BY <1>3 DEF AppendedRow
<1> HIDE DEF row
<1>5. /\ DOMAIN order' = DOMAIN order
      /\ \A p \in DOMAIN order : order'[p].input = order[p].input
      /\ OrdersOK' /\ OneOrderPerKey' /\ FeesKept' /\ TotalsAgree' /\ CouponsOK'
  BY <1>1, <1>2, <1>4, RowStep
<1>6. /\ DOMAIN request' = Requests /\ DOMAIN request'[r] = DOMAIN request[r]
      /\ request'[r].pc = "appended" /\ request'[r].input = request[r].input
      /\ request'[r].target = request[r].target
      /\ \A q \in Requests : q # r => request'[q] = request[q]
  BY <1>1, BecomeType
<1>7. RequestsOK'
  BY <1>5, <1>6 DEF RequestsOK, Pcs, Ended, Accepted
<1>8. CreatedOnce'
  <2>1. \A p \in DOMAIN order : p # r /\ p \in Requests
    BY <1>1 DEF CreatedOnce, OrdersOK
  <2>. QED
    BY <2>1, <1>5, <1>6 DEF CreatedOnce
<1>9. ReplaysFound'
  BY <1>5, <1>6 DEF ReplaysFound
<1>. QED
  BY <1>5, <1>7, <1>8, <1>9

\* The insert and the count of the coupon commit together.
LEMMA CreateInv == ASSUME IInv, NEW r \in Requests, CreateOrder(r) PROVE IInv'
<1> USE DEF IInv
<1> DEFINE input == request[r].input
<1>0. input \in Inputs /\ request[r].pc = "write" /\ Bound(input.key) = {}
      /\ Answer(r, "created", r)
  BY DEF RequestsOK, CreateOrder, Creating
<1>1. PICK state : order' = [o \in DOMAIN order \cup {r} |->
                               IF o = r THEN NewRow(input, state) ELSE order[o]]
  BY DEF CreateOrder
<1> DEFINE row == NewRow(input, state)
<1>2. /\ DOMAIN row = {"input", "state", "units", "subtotal", "discount", "fee", "total", "asked"}
      /\ row.input = input
      /\ row.fee = Fee(input.deliveryType)
      /\ row.total = Total(row.subtotal, row.discount, row.fee)
      /\ row.discount = Discount(SubtotalOf(Units(input)), input.coupon)
  BY DEF NewRow
<1>3. r \notin DOMAIN order
  BY <1>0 DEF CreatedOnce
<1> HIDE DEF row
<1>4. /\ DOMAIN order' = DOMAIN order \cup {r} /\ order'[r] = row
      /\ \A o \in DOMAIN order : order'[o] = order[o]
  BY <1>1, <1>3 DEF row
<1>5. OrdersOK'
  BY <1>0, <1>2, <1>4, FS_AddElement DEF OrdersOK
<1>6. \A o \in DOMAIN order : order[o].input.key # input.key
  BY <1>0 DEF Bound
<1>7. OneOrderPerKey' /\ FeesKept'
  BY <1>2, <1>4, <1>6 DEF OneOrderPerKey, FeesKept
<1>8. TotalsAgree'
  <2> SUFFICES ASSUME NEW p \in DOMAIN order \cup {r}
               PROVE  /\ order'[p].total = Total(order'[p].subtotal, order'[p].discount, order'[p].fee)
                      /\ order'[p].discount = Discount(SubtotalOf(Units(order'[p].input)),
                                                       order'[p].input.coupon)
    BY <1>4 DEF TotalsAgree
  <2>1. CASE p = r
    BY <2>1, <1>2, <1>4
  <2>2. CASE p # r
    BY <2>2, <1>4 DEF TotalsAgree
  <2>. QED
    BY <2>1, <2>2
<1>9. /\ DOMAIN request' = Requests /\ DOMAIN request'[r] = DOMAIN request[r]
      /\ request'[r].pc = "created" /\ request'[r].input = input
      /\ request'[r].target = r
      /\ \A q \in Requests : q # r => request'[q] = request[q]
  BY <1>0, AnswerType
<1>10. RequestsOK'
  BY <1>4, <1>9 DEF RequestsOK, Pcs, Ended, Accepted
<1>11. CreatedOnce'
  <2>1. \A o \in DOMAIN order : o \in Requests
    BY DEF OrdersOK
  <2>2. \A o \in DOMAIN order' : request'[o].pc = "created"
    BY <2>1, <1>3, <1>4, <1>9 DEF CreatedOnce
  <2>3. \A q \in Requests : request'[q].pc = "created" =>
          q \in DOMAIN order' /\ request'[q].target = q /\ order'[q].input = request'[q].input
    BY <1>2, <1>4, <1>9 DEF CreatedOnce
  <2>. QED
    BY <2>2, <2>3 DEF CreatedOnce
<1>12. ReplaysFound'
  BY <1>4, <1>9 DEF ReplaysFound
<1>13. CouponsOK'
  <2>1. DOMAIN usedCount' = Coupons
    BY DEF CreateOrder, CouponsOK
  <2> SUFFICES ASSUME NEW c \in Coupons
               PROVE  /\ usedCount'[c] = Cardinality({o \in DOMAIN order' : order'[o].input.coupon = c})
                      /\ UsageLimit[c] > 0 => usedCount'[c] <= UsageLimit[c]
    BY <2>1 DEF CouponsOK, CouponUsesAreOrders
  <2> DEFINE carry == {o \in DOMAIN order : order[o].input.coupon = c}
  <2>2. /\ usedCount[c] = Cardinality(carry)
        /\ UsageLimit[c] > 0 => usedCount[c] <= UsageLimit[c]
    BY DEF CouponsOK, CouponUsesAreOrders
  <2>3. IsFiniteSet(carry)
    BY FS_Subset DEF OrdersOK
  <2>4. Cardinality(carry) \in Nat /\ UsageLimit[c] \in Nat
    BY <2>3, FS_CardinalityType, MoneyAssumption
  <2>5. CASE input.coupon = c
    <3>1. {o \in DOMAIN order' : order'[o].input.coupon = c} = carry \cup {r}
      BY <2>5, <1>2, <1>4
    <3>2. Cardinality(carry \cup {r}) = Cardinality(carry) + 1
      BY <2>3, <1>3, FS_AddElement
    <3>3. c # NoCoupon /\ CouponLeft(c)
      BY <2>5, NullAssumption DEF CreateOrder
    <3>4. usedCount' = [usedCount EXCEPT ![c] = @ + 1]
      BY <2>5, <3>3 DEF CreateOrder
    <3>5. usedCount'[c] = usedCount[c] + 1
      BY <3>4 DEF CouponsOK
    <3>6. UsageLimit[c] > 0 => usedCount[c] < UsageLimit[c]
      BY <2>4, <3>3 DEF CouponLeft
    <3>7. usedCount'[c] = Cardinality(carry) + 1 /\ Cardinality(carry) = usedCount[c]
      BY <2>2, <3>5
    <3> HIDE DEF carry, input, IInv
    <3>8. UsageLimit[c] > 0 => usedCount'[c] <= UsageLimit[c]
      BY <2>4, <3>6, <3>7
    <3>9. usedCount'[c] = Cardinality({o \in DOMAIN order' : order'[o].input.coupon = c})
      BY <3>1, <3>2, <3>7
    <3>. QED
      BY <3>8, <3>9
  <2>6. CASE input.coupon # c
    <3>1. {o \in DOMAIN order' : order'[o].input.coupon = c} = carry
      BY <2>6, <1>2, <1>3, <1>4
    <3>2. usedCount'[c] = usedCount[c]
      BY <2>6 DEF CreateOrder
    <3>. QED
      BY <2>2, <3>1, <3>2
  <2>. QED
    BY <2>5, <2>6
<1>. QED
  BY <1>5, <1>7, <1>8, <1>10, <1>11, <1>12, <1>13

-----------------------------------------------------------------------------
LEMMA NextInv == IInv /\ [Next]_vars => IInv'
<1> SUFFICES ASSUME IInv, [Next]_vars PROVE IInv'
  OBVIOUS
<1>1. ASSUME UNCHANGED vars PROVE IInv'
  <2>1. UNCHANGED <<order, usedCount, request>>
    BY <1>1 DEF vars
  <2>2. CouponsOK'
    BY <2>1 DEF IInv, CouponsOK, CouponUsesAreOrders
  <2>3. TotalsAgree' /\ FeesKept'
    BY <2>1 DEF IInv, TotalsAgree, FeesKept
  <2>. QED
    BY <2>1, <2>2, <2>3
       DEF IInv, RequestsOK, OrdersOK, CreatedOnce, OneOrderPerKey, ReplaysFound
<1>. QED
  BY <1>1, SubmitInv, FindTargetInv, DeductInv, QuietInv, CreateInv, FindReplayInv,
     AppendReadInv, AppendInv, MeanwhileInv DEF Next

\* What keys, coupons and totals rest on, and a key is never bound twice.
THEOREM Invariance == Spec => []IInv
BY InitInv, NextInv, PTL DEF Spec

\* A coupon's count is the number of orders that carry it and stays within its
\* limit, whatever rolls back.
THEOREM CouponsAreCounted == Spec => []CouponUsesAreOrders
<1>1. IInv => CouponUsesAreOrders
  BY DEF IInv, CouponsOK
<1>. QED
  BY <1>1, Invariance, PTL

\* A created or replayed answer carries the payload that was submitted, also
\* when it comes from the race for the unique index.
THEOREM AnswersMatch == Spec => []AnswerMatchesRequest
<1>1. IInv => AnswerMatchesRequest
  BY DEF IInv, CreatedOnce, ReplaysFound, AnswerMatchesRequest
<1>. QED
  BY <1>1, Invariance, PTL

\* A total follows from its subtotal by the discount of the creation and the
\* fee of the delivery type, after any number of racing appends.
THEOREM TotalsStayDerived == Spec => []TotalsAgree
<1>1. IInv => TotalsAgree
  BY DEF IInv
<1>. QED
  BY <1>1, Invariance, PTL

-----------------------------------------------------------------------------
(* Where the units are.  The sums of UnitsAccounted, for any requests and    *)
(* any orders, and what is left of them without one.                         *)

Settled == {"created", "appended"}

Holders(req) == {r \in Requests : req[r].taken > 0 /\ req[r].pc \notin Settled}
UnitsTaken(req, p) == [r \in Requests |-> UnitsOf(req[r].input, p, req[r].taken)]
HeldBy(req, p) == SumFunctionOnSet(UnitsTaken(req, p), Holders(req))
HeldByOthers(req, p, r) == SumFunctionOnSet(UnitsTaken(req, p), Holders(req) \ {r})
Own(req, p, r) == IF req[r].pc \in Settled THEN 0 ELSE UnitsOf(req[r].input, p, req[r].taken)

UnitsSold(rows, p) == [o \in DOMAIN rows |-> rows[o].units[p]]
SoldIn(rows, p) == SumFunctionOnSet(UnitsSold(rows, p), DOMAIN rows)
SoldElsewhere(rows, p, o) == SumFunctionOnSet(UnitsSold(rows, p), DOMAIN rows \ {o})

\* Only finitely many requests have taken anything, and none more than it asks.
TakenOK(req) ==
  /\ IsFiniteSet(Holders(req))
  /\ \A r \in Requests : req[r].input \in Inputs /\ req[r].taken \in 0..Len(req[r].input.items)

RowsOK(rows) ==
  IsFiniteSet(DOMAIN rows) /\ \A o \in DOMAIN rows : rows[o].units \in [Products -> Nat]

LEMMA HeldSplit ==
  ASSUME NEW req, TakenOK(req), NEW p, NEW r \in Requests
  PROVE  /\ HeldBy(req, p) = Own(req, p, r) + HeldByOthers(req, p, r)
         /\ HeldBy(req, p) \in Nat /\ Own(req, p, r) \in Nat /\ HeldByOthers(req, p, r) \in Nat
<1> DEFINE f == UnitsTaken(req, p)
           H == Holders(req)
<1>1. IsFiniteSet(H) /\ IsFiniteSet(H \ {r}) /\ H \subseteq Requests
  BY FS_RemoveElement DEF TakenOK, Holders
<1>2. \A q \in Requests : f[q] = UnitsOf(req[q].input, p, req[q].taken) /\ f[q] \in Nat
  BY UnitsOfLines DEF TakenOK, UnitsTaken
<1>3. SumFunctionOnSet(f, H) \in Nat /\ SumFunctionOnSet(f, H \ {r}) \in Nat
  <2> HIDE DEF f, H
  <2>. QED
    BY <1>1, <1>2, SumType
<1>4. Own(req, p, r) \in Nat
  BY <1>2 DEF Own
<1>5. CASE r \in H
  <2>1. Own(req, p, r) = f[r]
    BY <1>2, <1>5 DEF Own, Holders
  <2> HIDE DEF f, H
  <2>2. SumFunctionOnSet(f, H) = f[r] + SumFunctionOnSet(f, H \ {r})
    BY <1>1, <1>2, <1>5, SumTake
  <2>. QED
    BY <1>3, <1>4, <2>1, <2>2 DEF HeldBy, HeldByOthers, f, H
<1>6. CASE r \notin H
  <2>1. req[r].taken \in 0..Len(req[r].input.items) /\ Len(req[r].input.items) \in Nat
    BY InputShape DEF TakenOK
  <2>2. req[r].pc \in Settled \/ req[r].taken = 0
    BY <1>6, <2>1 DEF Holders
  <2>3. Own(req, p, r) = 0
    BY <2>2, NoUnits DEF Own
  <2>4. H \ {r} = H
    BY <1>6
  <2>5. HeldBy(req, p) = SumFunctionOnSet(f, H) /\ HeldByOthers(req, p, r) = SumFunctionOnSet(f, H)
    BY <2>4 DEF HeldBy, HeldByOthers
  <2> HIDE DEF f, H
  <2>. QED
    BY <1>3, <2>3, <2>5
<1>. QED
  BY <1>5, <1>6

\* What one request does changes what it holds, and nothing else.
LEMMA HeldMoves ==
  ASSUME NEW a, NEW b, TakenOK(a), TakenOK(b), NEW r \in Requests,
         \A q \in Requests : q # r => b[q] = a[q], NEW p
  PROVE  /\ HeldBy(b, p) + Own(a, p, r) = HeldBy(a, p) + Own(b, p, r)
         /\ HeldBy(a, p) \in Nat /\ HeldBy(b, p) \in Nat
         /\ Own(a, p, r) \in Nat /\ Own(b, p, r) \in Nat
<1>1. Holders(b) \ {r} = Holders(a) \ {r}
  BY DEF Holders
<1>2. \A q \in Holders(a) \ {r} : UnitsTaken(b, p)[q] = UnitsTaken(a, p)[q]
  BY DEF Holders, UnitsTaken
<1>3. IsFiniteSet(Holders(a) \ {r})
  BY FS_RemoveElement DEF TakenOK
<1>4. HeldByOthers(b, p, r) = HeldByOthers(a, p, r)
  BY <1>1, <1>2, <1>3, SumSame DEF HeldByOthers
<1>. QED
  BY <1>4, HeldSplit

LEMMA SoldSplit ==
  ASSUME NEW rows, RowsOK(rows), NEW p \in Products, NEW o \in DOMAIN rows
  PROVE  /\ SoldIn(rows, p) = rows[o].units[p] + SoldElsewhere(rows, p, o)
         /\ SoldIn(rows, p) \in Nat /\ SoldElsewhere(rows, p, o) \in Nat
         /\ rows[o].units[p] \in Nat
<1> DEFINE f == UnitsSold(rows, p)
<1>1. IsFiniteSet(DOMAIN rows) /\ IsFiniteSet(DOMAIN rows \ {o})
  BY FS_RemoveElement DEF RowsOK
<1>2. \A q \in DOMAIN rows : f[q] = rows[q].units[p] /\ f[q] \in Nat
  BY DEF RowsOK, UnitsSold
<1> HIDE DEF f
<1>3. SumFunctionOnSet(f, DOMAIN rows) = f[o] + SumFunctionOnSet(f, DOMAIN rows \ {o})
  BY <1>1, <1>2, SumTake
<1>4. SumFunctionOnSet(f, DOMAIN rows) \in Nat /\ SumFunctionOnSet(f, DOMAIN rows \ {o}) \in Nat
  BY <1>1, <1>2, SumType
<1>. QED
  BY <1>2, <1>3, <1>4 DEF SoldIn, SoldElsewhere, f

LEMMA SoldType ==
  ASSUME NEW rows, RowsOK(rows), NEW p \in Products PROVE SoldIn(rows, p) \in Nat
<1> DEFINE f == UnitsSold(rows, p)
<1>1. \A q \in DOMAIN rows : f[q] \in Nat
  BY DEF RowsOK, UnitsSold
<1> HIDE DEF f
<1>. QED
  BY <1>1, SumType DEF SoldIn, RowsOK, f

\* What is sold elsewhere does not change with one order.
LEMMA SoldAlone ==
  ASSUME NEW a, NEW b, RowsOK(a), NEW p, NEW o, DOMAIN b \ {o} = DOMAIN a \ {o},
         \A q \in DOMAIN a \ {o} : b[q].units = a[q].units
  PROVE  SoldElsewhere(b, p, o) = SoldElsewhere(a, p, o)
<1>1. \A q \in DOMAIN a \ {o} : UnitsSold(b, p)[q] = UnitsSold(a, p)[q]
  BY DEF UnitsSold
<1>2. IsFiniteSet(DOMAIN a \ {o})
  BY FS_RemoveElement DEF RowsOK
<1>. QED
  BY <1>1, <1>2, SumSame DEF SoldElsewhere

LEMMA SoldSame ==
  ASSUME NEW a, NEW b, RowsOK(a), NEW p, DOMAIN b = DOMAIN a,
         \A q \in DOMAIN a : b[q].units = a[q].units
  PROVE  SoldIn(b, p) = SoldIn(a, p)
<1>1. \A q \in DOMAIN a : UnitsSold(b, p)[q] = UnitsSold(a, p)[q]
  BY DEF UnitsSold
<1>. QED
  BY <1>1, SumSame DEF SoldIn, RowsOK

\* A new order adds its units to what is sold.
LEMMA SoldCreated ==
  ASSUME NEW a, NEW b, RowsOK(a), RowsOK(b), NEW p \in Products, NEW o, o \notin DOMAIN a,
         DOMAIN b = DOMAIN a \cup {o}, \A q \in DOMAIN a : b[q] = a[q]
  PROVE  SoldIn(b, p) = SoldIn(a, p) + b[o].units[p]
<1>1. DOMAIN a \ {o} = DOMAIN a /\ DOMAIN b \ {o} = DOMAIN a
  OBVIOUS
<1>2. SoldElsewhere(b, p, o) = SoldElsewhere(a, p, o) /\ SoldElsewhere(a, p, o) = SoldIn(a, p)
  BY <1>1, SoldAlone DEF SoldElsewhere, SoldIn
<1>3. SoldIn(b, p) = b[o].units[p] + SoldElsewhere(b, p, o) /\ b[o].units[p] \in Nat
  BY SoldSplit
<1>. QED
  BY <1>2, <1>3, SoldType

\* Units added to one order are added to what is sold.
LEMMA SoldAppended ==
  ASSUME NEW a, NEW b, RowsOK(a), RowsOK(b), NEW p \in Products, NEW o \in DOMAIN a,
         DOMAIN b = DOMAIN a, \A q \in DOMAIN a : q # o => b[q] = a[q],
         NEW n \in Nat, b[o].units[p] = a[o].units[p] + n
  PROVE  SoldIn(b, p) = SoldIn(a, p) + n
<1>1. SoldElsewhere(b, p, o) = SoldElsewhere(a, p, o)
  BY SoldAlone
<1>. QED
  BY <1>1, SoldSplit

\* The definitions of the model are these sums.
LEMMA UnitsAreSums ==
  ASSUME NEW p PROVE Held(p) = HeldBy(request, p) /\ Sold(p) = SoldIn(order, p)
BY DEF Held, HeldBy, Holders, UnitsTaken, Settled, Sold, SoldIn, UnitsSold, SumFunction

LEMMA UnitsAreSumsNext ==
  ASSUME NEW CONSTANT p PROVE Held(p)' = HeldBy(request', p) /\ Sold(p)' = SoldIn(order', p)
BY DEF Held, HeldBy, Holders, UnitsTaken, Settled, Sold, SoldIn, UnitsSold, SumFunction

-----------------------------------------------------------------------------
(* Amounts and units, in every interleaving. *)

\* The lines of a request are all deducted before it writes.
AllTaken ==
  \A r \in Requests : request[r].pc \in {"write", "append"} \cup Settled =>
    request[r].taken = Len(request[r].input.items)

\* A stock that is counted stays counted.
StockTracked == \A p \in Products : stock[p] = Untracked <=> InitialStock[p] = Untracked

AmountsOK ==
  /\ TypeOK /\ TakenOK(request) /\ AllTaken /\ StockTracked /\ UnitsAccounted

AmountsInv == IInv /\ AmountsOK

LEMMA NewRowType ==
  ASSUME NEW i \in Inputs, NEW state \in OrderState
  PROVE  NewRow(i, state) \in OrderRow /\ NewRow(i, state).units = Units(i)
<1> DEFINE s == SubtotalOf(Units(i))
           d == Discount(s, i.coupon)
           f == Fee(i.deliveryType)
<1>1. Units(i) \in [Products -> Nat] /\ s \in Nat
  BY UnitsType, SubtotalType
<1>2. d \in Nat /\ f \in Nat
  BY <1>1, DiscountType, InputShape, MoneyAssumption DEF Fee
<1>3. Total(s, d, f) \in Nat
  BY <1>1, <1>2, TotalGrows
<1>4. NewRow(i, state) =
        [input |-> i, state |-> state, units |-> Units(i), subtotal |-> s, discount |-> d,
         fee |-> f, total |-> Total(s, d, f), asked |-> 0]
  BY DEF NewRow
<1> HIDE DEF s, d, f
<1>. QED
  BY <1>1, <1>2, <1>3, <1>4 DEF OrderRow

LEMMA AppendedRowType ==
  ASSUME NEW row \in OrderRow, NEW i \in Inputs, NEW read \in Nat
  PROVE  LET new == AppendedRow(row, i, read)
         IN  /\ new \in OrderRow
             /\ new.units = [p \in Products |-> row.units[p] + Units(i)[p]]
             /\ new.subtotal = read + SubtotalOf(Units(i)) /\ SubtotalOf(Units(i)) \in Nat
             /\ new.total = Total(new.subtotal, row.discount, Fee(row.input.deliveryType))
             /\ new.state = row.state /\ new.asked = row.asked /\ new.input = row.input
             /\ new.discount = row.discount /\ new.fee = row.fee
             /\ Fee(row.input.deliveryType) \in Nat
<1> DEFINE s == read + SubtotalOf(Units(i))
           f == Fee(row.input.deliveryType)
           u == [p \in Products |-> row.units[p] + Units(i)[p]]
           t == Total(s, row.discount, f)
<1>1. Units(i) \in [Products -> Nat] /\ SubtotalOf(Units(i)) \in Nat
  BY UnitsType, SubtotalType
<1>2. s \in Nat /\ f \in Nat /\ row.discount \in Nat /\ row.units \in [Products -> Nat]
  BY <1>1, MoneyAssumption DEF Fee, OrderRow
<1>3. u \in [Products -> Nat]
  BY <1>1, <1>2
<1>4. t \in Nat
  BY <1>2, TotalGrows
<1>5. AppendedRow(row, i, read) = [row EXCEPT !.units = u, !.subtotal = s, !.total = t]
  <2>1. [p \in Products |-> row.units[p] + Units(i)[p]] = u
    OBVIOUS
  <2>. QED
    BY <2>1 DEF AppendedRow, OrderRow
<1> HIDE DEF s, f, u, t
<1>6. /\ AppendedRow(row, i, read) \in OrderRow
      /\ AppendedRow(row, i, read).units = u /\ AppendedRow(row, i, read).subtotal = s
      /\ AppendedRow(row, i, read).total = t
      /\ AppendedRow(row, i, read).state = row.state /\ AppendedRow(row, i, read).asked = row.asked
      /\ AppendedRow(row, i, read).input = row.input
      /\ AppendedRow(row, i, read).discount = row.discount /\ AppendedRow(row, i, read).fee = row.fee
  BY <1>2, <1>3, <1>4, <1>5 DEF OrderRow
<1>. QED
  BY <1>1, <1>2, <1>6 DEF s, f, u, t

\* A request keeps its input and its kind, and the others stand still.
Moves(r) ==
  /\ request' \in [Requests -> RequestState]
  /\ request'[r].input = request[r].input
  /\ \A q \in Requests : q # r => request'[q] = request[q]

LEMMA BecomeMoves ==
  ASSUME TypeOK, NEW r \in Requests, NEW pc \in Pcs, Become(r, pc)
  PROVE  Moves(r) /\ request'[r].pc = pc /\ request'[r].taken = request[r].taken
<1> DEFINE new == [request[r] EXCEPT !.pc = pc]
<1>1. request[r] \in RequestState /\ request \in [Requests -> RequestState]
  BY DEF TypeOK
<1>2. /\ new \in RequestState /\ new.pc = pc /\ new.input = request[r].input
      /\ new.taken = request[r].taken
  BY <1>1 DEF RequestState, Pcs
<1>3. request' = [request EXCEPT ![r] = new]
  BY DEF Become
<1> HIDE DEF new
<1>. QED
  BY <1>1, <1>2, <1>3 DEF Moves

LEMMA AnswerMoves ==
  ASSUME TypeOK, NEW r \in Requests, NEW pc \in Pcs, NEW o \in Requests, Answer(r, pc, o)
  PROVE  Moves(r) /\ request'[r].pc = pc /\ request'[r].taken = request[r].taken
<1> DEFINE new == [request[r] EXCEPT !.pc = pc, !.target = o]
<1>1. request[r] \in RequestState /\ request \in [Requests -> RequestState]
  BY DEF TypeOK
<1>2. /\ new \in RequestState /\ new.pc = pc /\ new.input = request[r].input
      /\ new.taken = request[r].taken
  BY <1>1 DEF RequestState, Pcs
<1>3. request' = [request EXCEPT ![r] = new]
  BY <1>1 DEF Answer, RequestState
<1> HIDE DEF new
<1>. QED
  BY <1>1, <1>2, <1>3 DEF Moves

\* What a move of one request leaves of the bookkeeping.
LEMMA MoveAmounts ==
  ASSUME AmountsInv, NEW r \in Requests, Moves(r),
         request'[r].taken \in 0..Len(request[r].input.items),
         request'[r].pc \in {"write", "append"} \cup Settled =>
           request'[r].taken = Len(request[r].input.items)
  PROVE  /\ TakenOK(request') /\ AllTaken'
         /\ \A p : /\ HeldBy(request', p) + Own(request, p, r) = HeldBy(request, p) + Own(request', p, r)
                   /\ HeldBy(request, p) \in Nat /\ HeldBy(request', p) \in Nat
                   /\ Own(request, p, r) \in Nat /\ Own(request', p, r) \in Nat
<1>1. TakenOK(request')
  <2>1. Holders(request') \subseteq Holders(request) \cup {r} /\ IsFiniteSet(Holders(request) \cup {r})
    BY FS_AddElement DEF Holders, Moves, AmountsInv, AmountsOK, TakenOK
  <2>2. IsFiniteSet(Holders(request'))
    BY <2>1, FS_Subset
  <2>3. \A q \in Requests : request'[q].input \in Inputs
                            /\ request'[q].taken \in 0..Len(request'[q].input.items)
    BY DEF Moves, AmountsInv, AmountsOK, TakenOK
  <2>. QED
    BY <2>2, <2>3 DEF TakenOK
<1>2. AllTaken'
  BY DEF AllTaken, AmountsInv, AmountsOK, Moves
<1>3. TakenOK(request) /\ \A q \in Requests : q # r => request'[q] = request[q]
  BY DEF AmountsInv, AmountsOK, Moves
<1>. QED
  BY <1>1, <1>2, <1>3, HeldMoves

RowsType(rows) == DOMAIN rows \subseteq Requests /\ \A o \in DOMAIN rows : rows[o] \in OrderRow

LEMMA RowsUnits ==
  ASSUME NEW rows, RowsType(rows), IsFiniteSet(DOMAIN rows) PROVE RowsOK(rows)
BY DEF RowsType, RowsOK, OrderRow

\* A request that moves without deducting, ordering or answering with an order
\* of its own.
LEMMA QuietAmounts ==
  ASSUME AmountsInv, UNCHANGED <<order, stock, usedCount>>, NEW r \in Requests, Moves(r),
         request'[r].taken = request[r].taken,
         request[r].pc \notin Settled, request'[r].pc \notin Settled,
         request'[r].pc \in {"write", "append"} => request[r].taken = Len(request[r].input.items)
  PROVE  AmountsOK'
<1>1. TypeOK' /\ StockTracked'
  BY DEF AmountsInv, AmountsOK, TypeOK, StockTracked, Moves
<1>2. request[r].taken \in 0..Len(request[r].input.items)
  BY DEF AmountsInv, AmountsOK, TakenOK
<1>3. TakenOK(request') /\ AllTaken'
  BY <1>2, MoveAmounts
<1>4. UnitsAccounted'
  <2> SUFFICES ASSUME NEW p \in Tracked
               PROVE  InitialStock[p] = stock[p] + SoldIn(order, p) + HeldBy(request', p)
    BY UnitsAreSumsNext DEF UnitsAccounted, Tracked
  <2>1. InitialStock[p] = stock[p] + SoldIn(order, p) + HeldBy(request, p)
    BY UnitsAreSums DEF AmountsInv, AmountsOK, UnitsAccounted
  <2>2. Own(request', p, r) = Own(request, p, r)
    BY DEF Own, Moves
  <2>3. /\ HeldBy(request', p) + Own(request, p, r) = HeldBy(request, p) + Own(request', p, r)
        /\ HeldBy(request, p) \in Nat /\ HeldBy(request', p) \in Nat
        /\ Own(request, p, r) \in Nat /\ Own(request', p, r) \in Nat
    BY <1>2, MoveAmounts
  <2>4. HeldBy(request', p) = HeldBy(request, p)
    BY <2>2, <2>3
  <2>. QED
    BY <2>1, <2>4
<1>. QED
  BY <1>1, <1>3, <1>4 DEF AmountsOK

LEMMA QuietBecome ==
  ASSUME AmountsInv, UNCHANGED <<order, stock, usedCount>>, NEW r \in Requests,
         request[r].pc \notin Settled, NEW pc \in Pcs \ Settled, Become(r, pc),
         pc \in {"write", "append"} => request[r].taken = Len(request[r].input.items)
  PROVE  AmountsOK'
<1>1. Moves(r) /\ request'[r].pc = pc /\ request'[r].taken = request[r].taken
  BY BecomeMoves DEF AmountsInv, AmountsOK
<1>. QED
  BY <1>1, QuietAmounts

LEMMA QuietAnswer ==
  ASSUME AmountsInv, UNCHANGED <<order, stock, usedCount>>, NEW r \in Requests,
         request[r].pc \notin Settled, NEW pc \in {"deduct", "replayed"},
         NEW o \in DOMAIN order, Answer(r, pc, o)
  PROVE  AmountsOK'
<1>1. pc \in Pcs \ Settled /\ pc \notin {"write", "append"}
  BY DEF Pcs, Settled, Running, Ended, Accepted
<1>2. o \in Requests
  BY DEF AmountsInv, AmountsOK, TypeOK
<1>3. Moves(r) /\ request'[r].pc = pc /\ request'[r].taken = request[r].taken
  BY <1>1, <1>2, AnswerMoves DEF AmountsInv, AmountsOK
<1>. QED
  BY <1>1, <1>3, QuietAmounts

\* Lookups, the end of the deduction, refusals and crashes.
LEMMA LookupAmounts ==
  ASSUME AmountsInv, NEW r \in Requests,
         \/ Submit(r) \/ FindTarget(r) \/ FindReplay(r) \/ Deducted(r)
         \/ CreateRefused(r) \/ CreateConflict(r) \/ Abort(r)
  PROVE  AmountsOK'
<1>1. UNCHANGED <<order, stock, usedCount>> /\ request[r].pc \notin Settled
  BY DEF Submit, FindTarget, FindReplay, Deducted, CreateRefused, CreateConflict, Abort,
         Creating, InFlight, Running, Settled
<1>2. ASSUME NEW pc \in {"target", "deduct", "refused", "replay", "aborted"}, Become(r, pc)
      PROVE  AmountsOK'
  <2>1. pc \in Pcs \ Settled /\ pc \notin {"write", "append"}
    BY DEF Pcs, Settled, Running, Ended, Accepted
  <2>. QED
    BY <1>1, <1>2, <2>1, QuietBecome
<1>3. ASSUME NEW pc \in {"deduct", "replayed"}, NEW o \in DOMAIN order, Answer(r, pc, o)
      PROVE  AmountsOK'
  BY <1>1, <1>3, QuietAnswer
<1>4. CASE Submit(r) \/ FindReplay(r)
  BY <1>2, <1>3, <1>4 DEF Submit, FindReplay, AnswerReplay, Bound
<1>5. CASE FindTarget(r)
  BY <1>2, <1>3, <1>5 DEF FindTarget, AppendTargets
<1>6. CASE Deducted(r)
  <2>1. "write" \in Pcs \ Settled
    BY DEF Pcs, Settled, Running
  <2>2. Become(r, "write") /\ request[r].taken = Len(request[r].input.items)
    BY <1>6 DEF Deducted
  <2>. QED
    BY <1>1, <2>1, <2>2, QuietBecome
<1>7. CASE CreateRefused(r) \/ CreateConflict(r) \/ Abort(r)
  BY <1>2, <1>7 DEF CreateRefused, CreateConflict, Abort
<1>. QED
  BY <1>4, <1>5, <1>6, <1>7

\* The append reads a subtotal.
LEMMA AppendReadAmounts ==
  ASSUME AmountsInv, NEW r \in Requests, AppendRead(r) PROVE AmountsOK'
<1> DEFINE o == request[r].target
           new == [request[r] EXCEPT !.pc = "append", !.read = order[o].subtotal]
<1>1. UNCHANGED <<order, stock, usedCount>> /\ request[r].pc = "write" /\ o # NoOrder
  BY DEF AppendRead
<1>2. request[r].taken = Len(request[r].input.items)
  BY <1>1 DEF AmountsInv, AmountsOK, AllTaken
<1>3. CASE Become(r, "refused")
  BY <1>1, <1>3, QuietBecome DEF Pcs, Settled, Ended, Accepted
<1>4. CASE request' = [request EXCEPT ![r].pc = "append", ![r].read = order[o].subtotal]
  <2>1. request[r] \in RequestState /\ request \in [Requests -> RequestState]
    BY DEF AmountsInv, AmountsOK, TypeOK
  <2>2. order[o].subtotal \in Nat
    <3>1. o \in DOMAIN order
      BY <1>1 DEF AmountsInv, IInv, RequestsOK
    <3>2. order[o] \in OrderRow
      BY <3>1 DEF AmountsInv, AmountsOK, TypeOK
    <3>. QED
      BY <3>2 DEF OrderRow
  <2>3. /\ new \in RequestState /\ new.pc = "append" /\ new.input = request[r].input
        /\ new.taken = request[r].taken
    BY <2>1, <2>2 DEF RequestState, Running
  <2>4. request' = [request EXCEPT ![r] = new]
    BY <1>4, <2>1 DEF RequestState
  <2> HIDE DEF new
  <2>5. Moves(r) /\ request'[r].pc = "append" /\ request'[r].taken = request[r].taken
    BY <2>1, <2>3, <2>4 DEF Moves
  <2>. QED
    BY <1>1, <1>2, <2>5, QuietAmounts DEF Settled
<1>. QED
  BY <1>3, <1>4 DEF AppendRead

\* A unit leaves the stock as it comes to be held.
LEMMA DeductAmounts ==
  ASSUME AmountsInv, NEW r \in Requests, DeductLine(r) PROVE AmountsOK'
<1> DEFINE q == request[r]
           n == q.taken
           line == q.input.items[n + 1]
           new == [q EXCEPT !.taken = n + 1]
<1>1. UNCHANGED <<order, usedCount>> /\ q.pc = "deduct" /\ n < Len(q.input.items)
  BY DEF DeductLine
<1>2. CASE Become(r, "refused") /\ UNCHANGED stock
  BY <1>1, <1>2, QuietBecome DEF Pcs, Settled, Ended, Accepted
<1>3. CASE /\ Enough(line.product, line.amount) /\ Deduct(line.product, line.amount)
           /\ request' = [request EXCEPT ![r].taken = n + 1]
  <2>1. q \in RequestState /\ request \in [Requests -> RequestState] /\ q.input \in Inputs
        /\ stock \in [Products -> Nat \cup {Untracked}] /\ n \in Nat
        /\ n \in 0..Len(q.input.items)
    BY DEF AmountsInv, AmountsOK, TypeOK, RequestState, TakenOK
  <2>2. Len(q.input.items) \in Nat /\ n + 1 \in 1..Len(q.input.items)
        /\ n + 1 \in 0..Len(q.input.items)
    BY <1>1, <2>1, InputShape
  <2>3. line.product \in Products /\ line.amount \in Nat
    BY <2>1, <2>2, InputShape
  <2>4. /\ new \in RequestState /\ new.pc = "deduct" /\ new.input = q.input /\ new.taken = n + 1
    BY <1>1, <2>1 DEF RequestState
  <2>5. request' = [request EXCEPT ![r] = new]
    BY <1>3
  <2>6. Moves(r) /\ request'[r].pc = "deduct" /\ request'[r].taken = n + 1
        /\ request'[r].input = q.input
    <3> HIDE DEF new
    <3>. QED
      BY <2>1, <2>4, <2>5 DEF Moves
  <2>7. /\ TakenOK(request') /\ AllTaken'
        /\ \A p : /\ HeldBy(request', p) + Own(request, p, r) = HeldBy(request, p) + Own(request', p, r)
                  /\ HeldBy(request, p) \in Nat /\ HeldBy(request', p) \in Nat
                  /\ Own(request, p, r) \in Nat /\ Own(request', p, r) \in Nat
    BY <2>2, <2>6, MoveAmounts DEF Settled
  <2> DEFINE l == line.product
             k == line.amount
  <2>8. /\ stock[l] # Untracked => stock[l] \in Nat /\ stock[l] >= k /\ stock[l] - k \in Nat
        /\ stock' = IF stock[l] = Untracked THEN stock ELSE [stock EXCEPT ![l] = stock[l] - k]
    <3>1. Enough(l, k) /\ Deduct(l, k)
      BY <1>3
    <3>2. l \in Products /\ k \in Nat /\ stock \in [Products -> Nat \cup {Untracked}]
      BY <2>1, <2>3
    <3> HIDE DEF new, line, n, q, l, k
    <3>3. stock' = IF stock[l] = Untracked THEN stock ELSE [stock EXCEPT ![l] = stock[l] - k]
      BY <3>1 DEF Deduct
    <3>4. ASSUME stock[l] # Untracked
          PROVE  stock[l] \in Nat /\ stock[l] >= k /\ stock[l] - k \in Nat
      <4>1. stock[l] \in Nat /\ stock[l] >= k
        BY <3>1, <3>2, <3>4 DEF Enough
      <4>. QED
        BY <3>2, <4>1
    <3>. QED
      BY <3>3, <3>4
  <2>9. l \in Products /\ k \in Nat
    BY <2>3
  <2> HIDE DEF new, line, n, q, l, k
  <2>10. /\ stock' \in [Products -> Nat \cup {Untracked}]
         /\ \A p \in Products : stock'[p] = Untracked <=> stock[p] = Untracked
    BY <2>1, <2>8, <2>9, StockAssumption
  <2>11. TypeOK' /\ StockTracked'
    <3>1. StockTracked'
      BY <2>10 DEF AmountsInv, AmountsOK, StockTracked
    <3>2. TypeOK'
      BY <1>1, <2>6, <2>10 DEF AmountsInv, AmountsOK, TypeOK, Moves
    <3>. QED
      BY <3>1, <3>2
  <2>12. UnitsAccounted'
    <3> SUFFICES ASSUME NEW p \in Tracked
                 PROVE  InitialStock[p] = stock'[p] + SoldIn(order', p) + HeldBy(request', p)
      BY UnitsAreSumsNext DEF UnitsAccounted, Tracked
    <3>1. InitialStock[p] = stock[p] + SoldIn(order, p) + HeldBy(request, p)
      BY UnitsAreSums DEF AmountsInv, AmountsOK, UnitsAccounted
    <3>2. p \in Products /\ stock[p] \in Nat
      BY <2>1 DEF Tracked, AmountsInv, AmountsOK, StockTracked
    <3>3. RowsOK(order)
      BY RowsUnits DEF AmountsInv, AmountsOK, IInv, OrdersOK, TypeOK, RowsType
    <3>4. SoldIn(order', p) = SoldIn(order, p) /\ SoldIn(order, p) \in Nat
      BY <1>1, <3>2, <3>3, SoldType
    <3>5. Own(request, p, r) = UnitsOf(request[r].input, p, n)
          /\ Own(request', p, r) = UnitsOf(request[r].input, p, n + 1)
      BY <1>1, <2>6 DEF Own, Settled, q, n
    <3>6. UnitsOf(request[r].input, p, n + 1)
            = UnitsOf(request[r].input, p, n) + (IF l = p THEN k ELSE 0)
      BY <1>1, <2>1, UnitsOfNextLine DEF q, n, l, k, line
    <3>7. /\ HeldBy(request', p) + Own(request, p, r) = HeldBy(request, p) + Own(request', p, r)
          /\ HeldBy(request, p) \in Nat /\ HeldBy(request', p) \in Nat
          /\ Own(request, p, r) \in Nat /\ Own(request', p, r) \in Nat
      BY <2>7
    <3>8. HeldBy(request', p) = HeldBy(request, p) + (IF l = p THEN k ELSE 0)
      BY <2>9, <3>5, <3>6, <3>7
    <3>9. stock'[p] = stock[p] - (IF l = p THEN k ELSE 0)
      BY <2>1, <2>8, <2>9, <3>2, StockAssumption
    <3>. QED
      BY <2>9, <3>1, <3>2, <3>4, <3>7, <3>8, <3>9
  <2>. QED
    BY <2>7, <2>11, <2>12 DEF AmountsOK
<1>. QED
  BY <1>2, <1>3 DEF DeductLine

\* A request that ends with its lines in an order holds nothing any more.
LEMMA OrderedAmounts ==
  ASSUME AmountsInv, NEW r \in Requests, NEW pc \in Settled, NEW o \in Requests,
         request[r].pc \in {"write", "append"}, Answer(r, pc, o) \/ Become(r, pc)
  PROVE  /\ Moves(r) /\ TakenOK(request') /\ AllTaken'
         /\ \A p \in Products :
              /\ HeldBy(request, p) = HeldBy(request', p) + Units(request[r].input)[p]
              /\ HeldBy(request', p) \in Nat /\ Units(request[r].input)[p] \in Nat
<1>1. pc \in Pcs
  BY DEF Settled, Pcs, Ended, Accepted
<1>2. Moves(r) /\ request'[r].pc = pc /\ request'[r].taken = request[r].taken
  BY <1>1, AnswerMoves, BecomeMoves DEF AmountsInv, AmountsOK
<1>3. /\ request[r].taken = Len(request[r].input.items)
      /\ request[r].taken \in 0..Len(request[r].input.items) /\ request[r].input \in Inputs
  BY DEF AmountsInv, AmountsOK, AllTaken, TakenOK
<1>4. TakenOK(request') /\ AllTaken'
  BY <1>2, <1>3, MoveAmounts
<1>5. ASSUME NEW p \in Products
      PROVE  /\ HeldBy(request, p) = HeldBy(request', p) + Units(request[r].input)[p]
             /\ HeldBy(request', p) \in Nat /\ Units(request[r].input)[p] \in Nat
  <2>1. Own(request', p, r) = 0
    BY <1>2 DEF Own
  <2>2. Own(request, p, r) = Units(request[r].input)[p]
    BY <1>3 DEF Own, Settled, Units
  <2>3. /\ HeldBy(request', p) + Own(request, p, r) = HeldBy(request, p) + Own(request', p, r)
        /\ HeldBy(request, p) \in Nat /\ HeldBy(request', p) \in Nat
        /\ Own(request, p, r) \in Nat
    BY <1>2, <1>3, MoveAmounts
  <2>. QED
    BY <2>1, <2>2, <2>3
<1>. QED
  BY <1>2, <1>4, <1>5

\* The rows of a creation and of an append.
LEMMA RowAdded ==
  ASSUME RowsType(order), NEW r \in Requests, r \notin DOMAIN order, NEW row \in OrderRow,
         order' = [o \in DOMAIN order \cup {r} |-> IF o = r THEN row ELSE order[o]]
  PROVE  /\ RowsType(order') /\ DOMAIN order' = DOMAIN order \cup {r} /\ order'[r] = row
         /\ \A o \in DOMAIN order : order'[o] = order[o]
BY DEF RowsType

LEMMA RowChanged ==
  ASSUME RowsType(order), NEW o \in DOMAIN order, NEW row \in OrderRow,
         order' = [order EXCEPT ![o] = row]
  PROVE  /\ RowsType(order') /\ DOMAIN order' = DOMAIN order /\ order'[o] = row
         /\ \A p \in DOMAIN order : p # o => order'[p] = order[p]
BY DEF RowsType

LEMMA TypeParts ==
  /\ AmountsInv => RowsType(order) /\ RowsOK(order)
  /\ IInv' /\ RowsType(order') => RowsOK(order')
BY RowsUnits DEF AmountsInv, AmountsOK, IInv, OrdersOK, TypeOK, RowsType

LEMMA CreateAmounts ==
  ASSUME AmountsInv, IInv', NEW r \in Requests, CreateOrder(r) PROVE AmountsOK'
<1> DEFINE input == request[r].input
<1>0. /\ input \in Inputs /\ request[r].pc = "write" /\ Answer(r, "created", r)
      /\ UNCHANGED stock /\ r \notin DOMAIN order
  BY DEF AmountsInv, IInv, RequestsOK, CreatedOnce, CreateOrder, Creating
<1>1. PICK state \in OrderState :
        order' = [o \in DOMAIN order \cup {r} |-> IF o = r THEN NewRow(input, state) ELSE order[o]]
  BY DEF CreateOrder, InitialStates, SettledStates, OrderState
<1>2. NewRow(input, state) \in OrderRow /\ NewRow(input, state).units = Units(input)
  BY <1>0, NewRowType
<1>3. /\ RowsType(order') /\ DOMAIN order' = DOMAIN order \cup {r}
      /\ order'[r].units = Units(input) /\ \A o \in DOMAIN order : order'[o] = order[o]
  BY <1>0, <1>1, <1>2, RowAdded, TypeParts
<1>4. /\ Moves(r) /\ TakenOK(request') /\ AllTaken'
      /\ \A p \in Products :
           /\ HeldBy(request, p) = HeldBy(request', p) + Units(input)[p]
           /\ HeldBy(request', p) \in Nat /\ Units(input)[p] \in Nat
  BY <1>0, OrderedAmounts DEF Settled
<1>5. usedCount' \in [Coupons -> Nat]
  <2>1. usedCount \in [Coupons -> Nat]
    BY DEF AmountsInv, AmountsOK, TypeOK
  <2>2. \/ usedCount' = usedCount
        \/ usedCount' = [usedCount EXCEPT ![input.coupon] = usedCount[input.coupon] + 1]
    BY DEF CreateOrder
  <2> HIDE DEF input
  <2>. QED
    BY <2>1, <2>2
<1>6. TypeOK' /\ StockTracked'
  BY <1>0, <1>3, <1>4, <1>5 DEF AmountsInv, AmountsOK, TypeOK, StockTracked, RowsType, Moves
<1>7. UnitsAccounted'
  <2> SUFFICES ASSUME NEW p \in Tracked
               PROVE  InitialStock[p] = stock[p] + SoldIn(order', p) + HeldBy(request', p)
    BY <1>0, UnitsAreSumsNext DEF UnitsAccounted, Tracked
  <2>1. InitialStock[p] = stock[p] + SoldIn(order, p) + HeldBy(request, p)
    BY UnitsAreSums DEF AmountsInv, AmountsOK, UnitsAccounted
  <2>2. p \in Products /\ stock[p] \in Nat
    BY DEF Tracked, AmountsInv, AmountsOK, StockTracked, TypeOK
  <2>3. RowsOK(order) /\ RowsOK(order')
    BY <1>3, TypeParts
  <2>4. SoldIn(order', p) = SoldIn(order, p) + Units(input)[p] /\ SoldIn(order, p) \in Nat
    BY <1>0, <1>3, <2>2, <2>3, SoldCreated, SoldType
  <2> HIDE DEF input
  <2>. QED
    BY <1>4, <2>1, <2>2, <2>4
<1>. QED
  BY <1>4, <1>6, <1>7 DEF AmountsOK

LEMMA AppendAmounts ==
  ASSUME AmountsInv, IInv', NEW r \in Requests, AppendItems(r) PROVE AmountsOK'
<1> DEFINE input == request[r].input
           o == request[r].target
           row == AppendedRow(order[o], input, request[r].read)
<1>0. /\ request[r].pc = "append" /\ Become(r, "appended") /\ UNCHANGED <<stock, usedCount>>
      /\ order' = [order EXCEPT ![o] = row]
  BY DEF AppendItems
<1>1. o \in DOMAIN order /\ o \in Requests /\ input \in Inputs /\ request[r].read \in Nat
      /\ order[o] \in OrderRow
  BY <1>0 DEF AmountsInv, AmountsOK, IInv, ReplaysFound, TypeOK, RequestState
<1>2. row \in OrderRow /\ row.units = [p \in Products |-> order[o].units[p] + Units(input)[p]]
  BY <1>1, AppendedRowType
<1> HIDE DEF row
<1>3. /\ RowsType(order') /\ DOMAIN order' = DOMAIN order /\ order'[o] = row
      /\ \A p \in DOMAIN order : p # o => order'[p] = order[p]
  BY <1>0, <1>1, <1>2, RowChanged, TypeParts
<1>4. /\ Moves(r) /\ TakenOK(request') /\ AllTaken'
      /\ \A p \in Products :
           /\ HeldBy(request, p) = HeldBy(request', p) + Units(input)[p]
           /\ HeldBy(request', p) \in Nat /\ Units(input)[p] \in Nat
  BY <1>0, <1>1, OrderedAmounts DEF Settled
<1>5. TypeOK' /\ StockTracked'
  BY <1>0, <1>3, <1>4 DEF AmountsInv, AmountsOK, TypeOK, StockTracked, RowsType, Moves
<1>6. UnitsAccounted'
  <2> SUFFICES ASSUME NEW p \in Tracked
               PROVE  InitialStock[p] = stock[p] + SoldIn(order', p) + HeldBy(request', p)
    BY <1>0, UnitsAreSumsNext DEF UnitsAccounted, Tracked
  <2>1. InitialStock[p] = stock[p] + SoldIn(order, p) + HeldBy(request, p)
    BY UnitsAreSums DEF AmountsInv, AmountsOK, UnitsAccounted
  <2>2. p \in Products /\ stock[p] \in Nat
    BY DEF Tracked, AmountsInv, AmountsOK, StockTracked, TypeOK
  <2>3. RowsOK(order) /\ RowsOK(order')
    BY <1>3, TypeParts
  <2>4. order'[o].units[p] = order[o].units[p] + Units(input)[p]
    BY <1>2, <1>3, <2>2
  <2> HIDE DEF input, o
  <2>5. SoldIn(order', p) = SoldIn(order, p) + Units(input)[p] /\ SoldIn(order, p) \in Nat
    BY <1>1, <1>3, <1>4, <2>2, <2>3, <2>4, SoldAppended, SoldType
  <2>. QED
    BY <1>4, <2>1, <2>2, <2>5
<1>. QED
  BY <1>4, <1>5, <1>6 DEF AmountsOK

\* Payments and cancellations leave the lines of an order alone.
LEMMA MeanwhileRow ==
  ASSUME AmountsInv, NEW o \in DOMAIN order, AskPayment(o) \/ LeavePending(o)
  PROVE  \E row \in OrderRow :
           /\ order' = [order EXCEPT ![o] = row]
           /\ row.units = order[o].units /\ row.subtotal = order[o].subtotal
           /\ row.total = order[o].total /\ row.input = order[o].input
           /\ row.discount = order[o].discount /\ row.fee = order[o].fee
           /\ row.asked \in {order[o].asked, order[o].total}
<1>1. order[o] \in OrderRow
  BY DEF AmountsInv, AmountsOK, TypeOK
<1>2. CASE AskPayment(o)
  <2> DEFINE row == [order[o] EXCEPT !.asked = order[o].total]
  <2>1. /\ row \in OrderRow /\ row.units = order[o].units /\ row.subtotal = order[o].subtotal
        /\ row.total = order[o].total /\ row.input = order[o].input
        /\ row.discount = order[o].discount /\ row.fee = order[o].fee
        /\ row.asked = order[o].total
    BY <1>1 DEF OrderRow
  <2>2. order' = [order EXCEPT ![o] = row]
    BY <1>2 DEF AskPayment
  <2>. QED
    BY <2>1, <2>2
<1>3. CASE LeavePending(o)
  <2>1. PICK state \in OrderState : order' = [order EXCEPT ![o].state = state]
    BY <1>3 DEF LeavePending, OrderState, SettledStates
  <2> DEFINE row == [order[o] EXCEPT !.state = state]
  <2>2. /\ row \in OrderRow /\ row.units = order[o].units /\ row.subtotal = order[o].subtotal
        /\ row.total = order[o].total /\ row.input = order[o].input
        /\ row.discount = order[o].discount /\ row.fee = order[o].fee
        /\ row.asked = order[o].asked
    BY <1>1 DEF OrderRow
  <2>3. order' = [order EXCEPT ![o] = row]
    BY <2>1
  <2>. QED
    BY <2>2, <2>3
<1>. QED
  BY <1>2, <1>3

LEMMA MeanwhileAmounts ==
  ASSUME AmountsInv, NEW o \in DOMAIN order, AskPayment(o) \/ LeavePending(o) PROVE AmountsOK'
<1>1. UNCHANGED <<stock, usedCount, request>>
  BY DEF AskPayment, LeavePending
<1>2. PICK row \in OrderRow :
        order' = [order EXCEPT ![o] = row] /\ row.units = order[o].units
  BY MeanwhileRow
<1>3. /\ RowsType(order') /\ DOMAIN order' = DOMAIN order /\ order'[o] = row
      /\ \A p \in DOMAIN order : p # o => order'[p] = order[p]
  BY <1>2, RowChanged, TypeParts
<1>4. TypeOK' /\ TakenOK(request') /\ AllTaken' /\ StockTracked'
  BY <1>1, <1>3 DEF AmountsInv, AmountsOK, TypeOK, StockTracked, RowsType, AllTaken
<1>5. UnitsAccounted'
  <2> SUFFICES ASSUME NEW p \in Tracked
               PROVE  InitialStock[p] = stock[p] + SoldIn(order', p) + HeldBy(request, p)
    BY <1>1, UnitsAreSumsNext DEF UnitsAccounted, Tracked
  <2>1. InitialStock[p] = stock[p] + SoldIn(order, p) + HeldBy(request, p)
    BY UnitsAreSums DEF AmountsInv, AmountsOK, UnitsAccounted
  <2>2. \A q \in DOMAIN order : order'[q].units = order[q].units
    BY <1>2, <1>3
  <2>3. SoldIn(order', p) = SoldIn(order, p)
    BY <1>3, <2>2, TypeParts, SoldSame
  <2>. QED
    BY <2>1, <2>3
<1>. QED
  BY <1>4, <1>5 DEF AmountsOK

LEMMA InitAmounts == Init => AmountsInv
<1> SUFFICES ASSUME Init PROVE AmountsInv
  OBVIOUS
<1>1. /\ DOMAIN order = {} /\ stock = InitialStock
      /\ \A r \in Requests : request[r].pc = "idle" /\ request[r].taken = 0 /\ request[r].input \in Inputs
  BY DEF Init
<1>2. TypeOK
  BY <1>1, StockAssumption DEF Init, TypeOK, RequestState
<1>3. Holders(request) = {}
  BY <1>1 DEF Holders
<1>4. TakenOK(request) /\ AllTaken /\ StockTracked
  <2>1. \A r \in Requests : 0 \in 0..Len(request[r].input.items)
    BY <1>1, InputShape
  <2>2. TakenOK(request)
    BY <1>1, <1>3, <2>1, FS_EmptySet DEF TakenOK
  <2>. QED
    BY <1>1, <2>2 DEF AllTaken, StockTracked, Settled
<1>5. UnitsAccounted
  <2> SUFFICES ASSUME NEW p \in Tracked
               PROVE  InitialStock[p] = stock[p] + SoldIn(order, p) + HeldBy(request, p)
    BY UnitsAreSums DEF UnitsAccounted
  <2>1. SoldIn(order, p) = 0 /\ HeldBy(request, p) = 0
    BY <1>1, <1>3, FS_EmptySet, SumSteps DEF SoldIn, HeldBy
  <2>2. stock[p] = InitialStock[p] /\ InitialStock[p] \in Nat
    BY <1>1, StockAssumption DEF Tracked
  <2>. QED
    BY <2>1, <2>2
<1>. QED
  BY <1>2, <1>4, <1>5, InitInv DEF AmountsInv, AmountsOK

LEMMA NextAmounts == AmountsInv /\ [Next]_vars => AmountsInv'
<1> SUFFICES ASSUME AmountsInv, [Next]_vars PROVE AmountsInv'
  OBVIOUS
<1>1. IInv'
  BY NextInv DEF AmountsInv
<1>2. AmountsOK'
  <2>1. ASSUME UNCHANGED vars PROVE AmountsOK'
    <3>1. UNCHANGED <<order, stock, usedCount, request>>
      BY <2>1 DEF vars
    <3>2. TypeOK' /\ TakenOK(request') /\ AllTaken' /\ StockTracked'
      BY <3>1 DEF AmountsInv, AmountsOK, TypeOK, AllTaken, StockTracked
    <3>3. UnitsAccounted'
      BY <3>1, UnitsAreSums, UnitsAreSumsNext DEF AmountsInv, AmountsOK, UnitsAccounted, Tracked
    <3>. QED
      BY <3>2, <3>3 DEF AmountsOK
  <2>2. ASSUME NEW r \in Requests,
               \/ Submit(r) \/ FindTarget(r) \/ DeductLine(r) \/ Deducted(r)
               \/ CreateOrder(r) \/ CreateRefused(r) \/ CreateConflict(r) \/ FindReplay(r)
               \/ AppendRead(r) \/ AppendItems(r) \/ Abort(r)
        PROVE  AmountsOK'
    BY <1>1, <2>2, LookupAmounts, DeductAmounts, CreateAmounts, AppendReadAmounts, AppendAmounts
  <2>. QED
    BY <2>1, <2>2, MeanwhileAmounts DEF Next
<1>. QED
  BY <1>1, <1>2 DEF AmountsInv

\* Shapes, amounts and the whereabouts of every unit.
THEOREM AmountsInvariance == Spec => []AmountsInv
BY InitAmounts, NextAmounts, PTL DEF Spec

\* Rows, stock and requests keep the types of their columns, and a counted
\* stock never goes below zero, however the deductions interleave.
THEOREM TypeCorrectness == Spec => []TypeOK
<1>1. AmountsInv => TypeOK
  BY DEF AmountsInv, AmountsOK
<1>. QED
  BY <1>1, AmountsInvariance, PTL

\* Every unit that left the stock is in an order or was taken by a request that
\* has not ordered it, through every race, refusal and crash.
THEOREM UnitsStayAccounted == Spec => []UnitsAccounted
<1>1. AmountsInv => UnitsAccounted
  BY DEF AmountsInv, AmountsOK
<1>. QED
  BY <1>1, AmountsInvariance, PTL

-----------------------------------------------------------------------------
(* What an append may have read when another one wrote meanwhile.            *)

Step(r) ==
  \/ Submit(r) \/ FindTarget(r) \/ DeductLine(r) \/ Deducted(r)
  \/ CreateOrder(r) \/ CreateRefused(r) \/ CreateConflict(r) \/ FindReplay(r)
  \/ AppendRead(r) \/ AppendItems(r) \/ Abort(r)

\* A step is one request's; only its submission starts it.
LEMMA StepsAlone ==
  ASSUME AmountsInv, NEW r \in Requests, Step(r)
  PROVE  /\ \A q \in Requests : q # r => request'[q] = request[q]
         /\ InFlight(r) \/ Submit(r)
<1>1. request \in [Requests -> RequestState]
  BY DEF AmountsInv, AmountsOK, TypeOK
<1>2. \A q \in Requests : q # r => request'[q] = request[q]
  <2>1. CASE Submit(r) \/ FindReplay(r)
    BY <1>1, <2>1 DEF Submit, FindReplay, AnswerReplay, Become, Answer
  <2>2. CASE FindTarget(r) \/ Deducted(r) \/ CreateRefused(r) \/ CreateConflict(r) \/ Abort(r)
    BY <1>1, <2>2 DEF FindTarget, Deducted, CreateRefused, CreateConflict, Abort, Become, Answer
  <2>3. CASE DeductLine(r)
    BY <1>1, <2>3 DEF DeductLine, Become
  <2>4. CASE CreateOrder(r) \/ AppendItems(r)
    BY <1>1, <2>4 DEF CreateOrder, AppendItems, Become, Answer
  <2>5. CASE AppendRead(r)
    BY <1>1, <2>5 DEF AppendRead, Become
  <2>. QED
    BY <2>1, <2>2, <2>3, <2>4, <2>5 DEF Step
<1>3. InFlight(r) \/ Submit(r)
  BY DEF Step, FindTarget, DeductLine, Deducted, CreateOrder, CreateRefused, CreateConflict,
         FindReplay, AppendRead, AppendItems, Abort, Creating, InFlight, Running
<1>. QED
  BY <1>2, <1>3

\* A request comes to its append by reading the order it will write.
LEMMA ReadsNow ==
  ASSUME AmountsInv, NEW r \in Requests, Step(r), ~CreateOrder(r), ~AppendItems(r),
         request'[r].pc = "append"
  PROVE  /\ request'[r].target \in DOMAIN order
         /\ order[request'[r].target].state = "PENDING_PAYMENT"
         /\ request'[r].read = order[request'[r].target].subtotal
<1>1. request \in [Requests -> RequestState]
  BY DEF AmountsInv, AmountsOK, TypeOK
<1>2. DOMAIN request[r] = {"pc", "input", "taken", "target", "read"}
  BY <1>1 DEF RequestState
<1>3. AppendRead(r)
  <2>0. /\ \A pc : Become(r, pc) => request'[r].pc = pc
        /\ \A pc, o : Answer(r, pc, o) => request'[r].pc = pc
    BY BecomeType, AnswerType DEF AmountsInv, IInv
  <2>1. ~Submit(r) /\ ~FindReplay(r)
    BY <2>0 DEF Submit, FindReplay, AnswerReplay
  <2>2. ~FindTarget(r) /\ ~Deducted(r) /\ ~CreateRefused(r) /\ ~CreateConflict(r) /\ ~Abort(r)
    BY <2>0 DEF FindTarget, Deducted, CreateRefused, CreateConflict, Abort
  <2>3. ~DeductLine(r)
    BY <1>1, <1>2, <2>0 DEF DeductLine
  <2>. QED
    BY <2>1, <2>2, <2>3 DEF Step
<1>4. /\ Open(request[r].target, request[r].input)
      /\ request' = [request EXCEPT ![r].pc = "append",
                                    ![r].read = order[request[r].target].subtotal]
  <2>1. ~Become(r, "refused")
    BY BecomeType DEF AmountsInv, IInv
  <2>. QED
    BY <1>3, <2>1 DEF AppendRead
<1>5. request[r].target \in DOMAIN order
  BY <1>3 DEF AppendRead, AmountsInv, IInv, RequestsOK
<1>. QED
  BY <1>1, <1>2, <1>4, <1>5 DEF Open

\* One row's share of AmountsFollowLines, the lost lines apart.
RowBounds(row) ==
  /\ SubtotalOf(Units(row.input)) <= row.subtotal
  /\ row.subtotal <= SubtotalOf(row.units)
  /\ row.asked <= Total(SubtotalOf(row.units), row.discount, row.fee)

\* An amount that was read may be old, but then somebody has appended since.
ReadBounds(q, row) ==
  /\ SubtotalOf(Units(row.input)) <= q.read /\ q.read <= SubtotalOf(row.units)
  /\ q.read # row.subtotal => \E p \in Requests : AppendedTo(p, q.target)

LossesExplained ==
  \A o \in DOMAIN order : order[o].subtotal < SubtotalOf(order[o].units) =>
    \E r, q \in Requests : r # q /\ AppendedTo(r, o) /\ AppendedTo(q, o)

BoundsOK ==
  /\ \A o \in DOMAIN order : RowBounds(order[o])
  /\ \A r \in Requests : request[r].pc = "append" =>
       ReadBounds(request[r], order[request[r].target])
  /\ LossesExplained

\* Whoever has appended stays on record: the steps of others leave it alone,
\* and it takes none itself.
LEMMA AppendedStays ==
  ASSUME AmountsInv, NEW r \in Requests, Step(r)
  PROVE  \A q \in Requests : \A o : AppendedTo(q, o) => AppendedTo(q, o)'
<1>1. request[r].pc # "appended"
  BY StepsAlone DEF InFlight, Running, Submit
<1>. QED
  BY <1>1, StepsAlone DEF AppendedTo

LEMMA AppendTargetFound ==
  ASSUME AmountsInv, NEW r \in Requests, request[r].pc = "append"
  PROVE  request[r].target \in DOMAIN order
BY DEF AmountsInv, IInv, ReplaysFound

\* A step that writes no order.
LEMMA StepsBounds ==
  ASSUME AmountsInv, BoundsOK, NEW r \in Requests,
         Step(r), ~CreateOrder(r), ~AppendItems(r)
  PROVE  BoundsOK'
<1>1. UNCHANGED order
  BY DEF Step, Submit, FindTarget, DeductLine, Deducted, CreateRefused, CreateConflict,
         FindReplay, AppendRead, Abort
<1>2. \A o \in DOMAIN order' : RowBounds(order'[o])
  BY <1>1 DEF BoundsOK
<1>3. LossesExplained'
  BY <1>1, AppendedStays DEF BoundsOK, LossesExplained
<1>4. ASSUME NEW q \in Requests, request'[q].pc = "append"
      PROVE  ReadBounds(request[q], order[request[q].target])'
  <2>1. CASE q # r
    <3>1. request'[q] = request[q]
      BY <2>1, StepsAlone
    <3>2. ReadBounds(request[q], order[request[q].target])
      BY <1>4, <3>1 DEF BoundsOK
    <3>. QED
      BY <1>1, <3>1, <3>2, AppendedStays DEF ReadBounds
  <2>2. CASE q = r
    <3>1. /\ request'[q].target \in DOMAIN order
          /\ request'[q].read = order[request'[q].target].subtotal
      BY <1>4, <2>2, ReadsNow
    <3>2. RowBounds(order[request'[q].target])
      BY <3>1 DEF BoundsOK
    <3>. QED
      BY <1>1, <3>1, <3>2 DEF ReadBounds, RowBounds
  <2>. QED
    BY <2>1, <2>2
<1>5. \A o \in DOMAIN order' : RowBounds(order[o])'
  BY <1>2 DEF RowBounds
<1>. QED
  BY <1>3, <1>4, <1>5 DEF BoundsOK

\* A new order costs what its lines cost, and nobody has paid for it.
LEMMA CreateBounds ==
  ASSUME AmountsInv, BoundsOK, NEW r \in Requests, CreateOrder(r) PROVE BoundsOK'
<1> DEFINE input == request[r].input
<1>0. /\ input \in Inputs /\ request[r].pc = "write" /\ Answer(r, "created", r)
      /\ r \notin DOMAIN order
  BY DEF AmountsInv, IInv, RequestsOK, CreatedOnce, CreateOrder, Creating
<1>1. PICK state \in OrderState :
        order' = [o \in DOMAIN order \cup {r} |-> IF o = r THEN NewRow(input, state) ELSE order[o]]
  BY DEF CreateOrder, InitialStates, SettledStates, OrderState
<1> DEFINE row == NewRow(input, state)
<1>2. /\ row \in OrderRow /\ row.asked = 0 /\ row.input = input
      /\ row.units = Units(input) /\ row.subtotal = SubtotalOf(Units(input))
  BY <1>0, NewRowType DEF NewRow
<1> HIDE DEF row
<1>3. /\ DOMAIN order' = DOMAIN order \cup {r} /\ order'[r] = row
      /\ \A o \in DOMAIN order : order'[o] = order[o]
  BY <1>0, <1>1, <1>2, RowAdded, TypeParts DEF row
<1>4. RowBounds(row)
  <2>1. row.subtotal \in Nat /\ row.discount \in Nat /\ row.fee \in Nat
    BY <1>2 DEF OrderRow
  <2>2. Total(row.subtotal, row.discount, row.fee) \in Nat
    BY <2>1, TotalGrows
  <2>. QED
    BY <1>2, <2>1, <2>2 DEF RowBounds
<1>5. \A o \in DOMAIN order' : RowBounds(order'[o])
  BY <1>3, <1>4 DEF BoundsOK
<1>6. Step(r)
  BY DEF Step
<1>7. LossesExplained'
  <2> SUFFICES ASSUME NEW o \in DOMAIN order',
                      order'[o].subtotal < SubtotalOf(order'[o].units)
               PROVE  \E p, q \in Requests : p # q /\ AppendedTo(p, o)' /\ AppendedTo(q, o)'
    BY DEF LossesExplained
  <2>1. o # r
    <3>1. row.subtotal \in Nat /\ row.subtotal = SubtotalOf(row.units)
      BY <1>2 DEF OrderRow
    <3>. QED
      BY <1>3, <3>1
  <2>2. o \in DOMAIN order /\ order'[o] = order[o]
    BY <1>3, <2>1
  <2>. QED
    BY <1>6, <2>2, AppendedStays DEF BoundsOK, LossesExplained
<1>8. ASSUME NEW q \in Requests, request'[q].pc = "append"
      PROVE  ReadBounds(request[q], order[request[q].target])'
  <2>1. q # r
    BY <1>0, <1>8 DEF Answer, AmountsInv, AmountsOK, TypeOK, RequestState
  <2>2. request'[q] = request[q]
    BY <1>6, <2>1, StepsAlone
  <2>3. request[q].target \in DOMAIN order
    BY <1>8, <2>2, AppendTargetFound
  <2>4. ReadBounds(request[q], order[request[q].target])
    BY <1>8, <2>2 DEF BoundsOK
  <2>. QED
    BY <1>3, <1>6, <2>2, <2>3, <2>4, AppendedStays DEF ReadBounds
<1>9. \A o \in DOMAIN order' : RowBounds(order[o])'
  BY <1>5 DEF RowBounds
<1>. QED
  BY <1>7, <1>8, <1>9 DEF BoundsOK

\* The second append may overwrite the first; the first finds the amount as it
\* was read.
LEMMA AppendBounds ==
  ASSUME AmountsInv, BoundsOK, NEW r \in Requests, AppendItems(r) PROVE BoundsOK'
<1>. PICK o \in DOMAIN order : o = request[r].target
  BY AppendTargetFound DEF AppendItems
<1> DEFINE input == request[r].input
           old == order[o]
           read == request[r].read
           row == AppendedRow(order[o], input, request[r].read)
           more == Units(input)
<1>0. /\ request[r].pc = "append" /\ Become(r, "appended")
      /\ order' = [order EXCEPT ![o] = row]
  BY DEF AppendItems
<1>1. o \in DOMAIN order /\ input \in Inputs /\ read \in Nat /\ old \in OrderRow
  BY DEF AmountsInv, AmountsOK, TypeOK, RequestState
<1>2. /\ row \in OrderRow
      /\ row.units = [p \in Products |-> old.units[p] + more[p]]
      /\ row.subtotal = read + SubtotalOf(more) /\ SubtotalOf(more) \in Nat
      /\ row.asked = old.asked /\ row.input = old.input
      /\ row.discount = old.discount /\ row.fee = old.fee
  BY <1>1, AppendedRowType
<1>3. /\ old.units \in [Products -> Nat] /\ more \in [Products -> Nat] /\ old.input \in Inputs
      /\ old.discount \in Nat /\ old.fee \in Nat /\ old.asked \in Nat /\ old.subtotal \in Nat
  BY <1>1, UnitsType DEF OrderRow
<1>4. /\ SubtotalOf(old.units) \in Nat /\ SubtotalOf(Units(old.input)) \in Nat
      /\ SubtotalOf(row.units) = SubtotalOf(old.units) + SubtotalOf(more)
  <2> HIDE DEF row, input, more, old
  <2>1. SubtotalOf(old.units) \in Nat /\ SubtotalOf(Units(old.input)) \in Nat
    BY <1>3, SubtotalType, UnitsType
  <2>2. SubtotalOf(row.units) = SubtotalOf(old.units) + SubtotalOf(more)
    BY <1>2, <1>3, SubtotalPlus
  <2>. QED
    BY <2>1, <2>2
<1>5. RowBounds(old) /\ ReadBounds(request[r], old)
  BY <1>0, <1>1 DEF BoundsOK
<1> HIDE DEF row, input, more
<1>6. RowBounds(row)
  <2> DEFINE s == SubtotalOf(old.units)
             t == SubtotalOf(more)
             d == old.discount
             f == old.fee
             T == Total(s, d, f)
             U == Total(s + t, d, f)
  <2>0. s \in Nat /\ t \in Nat /\ s + t \in Nat /\ d \in Nat /\ f \in Nat
    BY <1>2, <1>3, <1>4
  <2>1. T \in Nat /\ U \in Nat /\ T <= U
    <3> HIDE DEF s, t, d, f
    <3>. QED
      BY <2>0, TotalGrows
  <2>2. row.asked <= T
    BY <1>2, <1>5 DEF RowBounds
  <2>3. Total(SubtotalOf(row.units), row.discount, row.fee) = U
    BY <1>2, <1>4
  <2>4. row.asked \in Nat
    BY <1>2, <1>3
  <2> HIDE DEF T, U
  <2>5. row.asked <= Total(SubtotalOf(row.units), row.discount, row.fee)
    BY <2>1, <2>2, <2>3, <2>4
  <2>6. /\ SubtotalOf(Units(old.input)) <= read /\ read <= s
        /\ s \in Nat /\ t \in Nat /\ read \in Nat /\ SubtotalOf(Units(old.input)) \in Nat
        /\ row.subtotal = read + t /\ SubtotalOf(row.units) = s + t /\ row.input = old.input
    BY <1>1, <1>2, <1>4, <1>5 DEF ReadBounds
  <2> HIDE DEF s, t, d, f, read
  <2>7. SubtotalOf(Units(row.input)) <= row.subtotal /\ row.subtotal <= SubtotalOf(row.units)
    BY <2>6
  <2>. QED
    BY <2>5, <2>7 DEF RowBounds
<1>7. /\ DOMAIN order' = DOMAIN order /\ order'[o] = row
      /\ \A p \in DOMAIN order : p # o => order'[p] = order[p]
  BY <1>0, <1>1, <1>2, RowChanged, TypeParts
<1>8. Step(r)
  BY DEF Step
<1>9. AppendedTo(r, o)' /\ request'[r].pc # "append"
  BY <1>0 DEF Become, AppendedTo, AmountsInv, AmountsOK, TypeOK, RequestState
<1>10. LossesExplained'
  <2> SUFFICES ASSUME NEW p \in DOMAIN order,
                      order'[p].subtotal < SubtotalOf(order'[p].units)
               PROVE  \E x, q \in Requests : x # q /\ AppendedTo(x, p)' /\ AppendedTo(q, p)'
    BY <1>7 DEF LossesExplained
  <2>1. CASE p # o
    BY <1>7, <1>8, <2>1, AppendedStays DEF BoundsOK, LossesExplained
  <2>2. CASE p = o
    <3>1. read # SubtotalOf(old.units)
      <4>1. row.subtotal \in Nat /\ row.subtotal < SubtotalOf(row.units)
        BY <1>2, <1>7, <2>2 DEF OrderRow
      <4>. QED
        BY <1>2, <1>4, <4>1
    <3>2. PICK q \in Requests : AppendedTo(q, o)
      <4>1. CASE read # old.subtotal
        BY <1>5, <4>1 DEF ReadBounds
      <4>2. CASE read = old.subtotal
        <5>1. old.subtotal < SubtotalOf(old.units)
          BY <1>3, <1>4, <1>5, <3>1, <4>2 DEF RowBounds
        <5>. QED
          BY <1>1, <5>1 DEF BoundsOK, LossesExplained
      <4>. QED
        BY <4>1, <4>2
    <3>3. q # r /\ AppendedTo(q, o)'
      BY <1>0, <1>8, <3>2, AppendedStays DEF AppendedTo
    <3>. QED
      BY <1>9, <2>2, <3>3
  <2>. QED
    BY <2>1, <2>2
<1>11. ASSUME NEW q \in Requests, request'[q].pc = "append"
       PROVE  ReadBounds(request[q], order[request[q].target])'
  <2>1. request'[q] = request[q]
    BY <1>8, <1>9, <1>11, StepsAlone
  <2>2. request[q].target \in DOMAIN order /\ ReadBounds(request[q], order[request[q].target])
    BY <1>11, <2>1, AppendTargetFound DEF BoundsOK
  <2>3. CASE request[q].target # o
    BY <1>7, <1>8, <2>1, <2>2, <2>3, AppendedStays DEF ReadBounds
  <2>4. CASE request[q].target = o
    <3>1. request[q].read \in Nat
      BY DEF AmountsInv, AmountsOK, TypeOK, RequestState
    <3>2. /\ SubtotalOf(Units(row.input)) <= request[q].read
          /\ request[q].read <= SubtotalOf(row.units)
      BY <1>2, <1>4, <2>2, <2>4, <3>1 DEF ReadBounds
    <3>. QED
      BY <1>7, <1>9, <2>1, <2>4, <3>2 DEF ReadBounds
  <2>. QED
    BY <2>3, <2>4
<1>12. \A p \in DOMAIN order' : RowBounds(order[p])'
  <2>1. \A p \in DOMAIN order' : RowBounds(order'[p])
    BY <1>6, <1>7 DEF BoundsOK
  <2>. QED
    BY <2>1 DEF RowBounds
<1>. QED
  BY <1>10, <1>11, <1>12 DEF BoundsOK

\* A payment is asked for the total there is, which is at most that of all
\* lines.
LEMMA MeanwhileBounds ==
  ASSUME AmountsInv, BoundsOK, NEW o \in DOMAIN order, AskPayment(o) \/ LeavePending(o)
  PROVE  BoundsOK'
<1>1. UNCHANGED request
  BY DEF AskPayment, LeavePending
<1>2. PICK row \in OrderRow :
        /\ order' = [order EXCEPT ![o] = row]
        /\ row.units = order[o].units /\ row.subtotal = order[o].subtotal
        /\ row.total = order[o].total /\ row.input = order[o].input
        /\ row.discount = order[o].discount /\ row.fee = order[o].fee
        /\ row.asked \in {order[o].asked, order[o].total}
  BY MeanwhileRow
<1>3. /\ DOMAIN order' = DOMAIN order /\ order'[o] = row
      /\ \A p \in DOMAIN order : p # o => order'[p] = order[p]
  BY <1>2, RowChanged, TypeParts
<1>4. RowBounds(order[o])
  BY DEF BoundsOK
<1>5. order[o].total <= Total(SubtotalOf(order[o].units), order[o].discount, order[o].fee)
  <2> DEFINE s == order[o].subtotal
             t == SubtotalOf(order[o].units) - s
             d == order[o].discount
             f == order[o].fee
  <2>1. /\ order[o].total = Total(s, d, f) /\ s \in Nat /\ d \in Nat /\ f \in Nat
        /\ order[o].units \in [Products -> Nat]
    BY DEF AmountsInv, AmountsOK, IInv, TotalsAgree, TypeOK, OrderRow
  <2>2. SubtotalOf(order[o].units) \in Nat
    BY <2>1, SubtotalType
  <2>3. t \in Nat /\ s + t = SubtotalOf(order[o].units)
    BY <1>4, <2>1, <2>2 DEF RowBounds
  <2> HIDE DEF s, t, d, f
  <2>4. Total(s, d, f) <= Total(s + t, d, f)
    BY <2>1, <2>3, TotalGrows
  <2>. QED
    BY <2>1, <2>3, <2>4 DEF d, f
<1>6. RowBounds(row)
  BY <1>2, <1>4, <1>5 DEF RowBounds
<1>7. \A p \in DOMAIN order' : RowBounds(order[p])'
  <2>1. \A p \in DOMAIN order' : RowBounds(order'[p])
    BY <1>3, <1>6 DEF BoundsOK
  <2>. QED
    BY <2>1 DEF RowBounds
<1>8. /\ \A p \in DOMAIN order : /\ order'[p].subtotal = order[p].subtotal
                                /\ order'[p].units = order[p].units
                                /\ order'[p].input = order[p].input
      /\ \A q \in Requests : \A p : AppendedTo(q, p) => AppendedTo(q, p)'
  BY <1>1, <1>2, <1>3 DEF AppendedTo
<1>9. LossesExplained'
  BY <1>3, <1>8 DEF BoundsOK, LossesExplained
<1>10. ASSUME NEW q \in Requests, request'[q].pc = "append"
       PROVE  ReadBounds(request[q], order[request[q].target])'
  <2>1. request[q].target \in DOMAIN order /\ ReadBounds(request[q], order[request[q].target])
    BY <1>1, <1>10, AppendTargetFound DEF BoundsOK
  <2>. QED
    BY <1>1, <1>8, <2>1 DEF ReadBounds
<1>. QED
  BY <1>7, <1>9, <1>10 DEF BoundsOK

LEMMA NextBounds == AmountsInv /\ BoundsOK /\ [Next]_vars => BoundsOK'
<1> SUFFICES ASSUME AmountsInv, BoundsOK, [Next]_vars PROVE BoundsOK'
  OBVIOUS
<1>1. ASSUME UNCHANGED vars PROVE BoundsOK'
  BY <1>1 DEF vars, BoundsOK, RowBounds, ReadBounds, LossesExplained, AppendedTo
<1>2. ASSUME NEW r \in Requests, Step(r) PROVE BoundsOK'
  BY <1>2, StepsBounds, CreateBounds, AppendBounds
<1>. QED
  BY <1>1, <1>2, MeanwhileBounds DEF Next, Step

LEMMA InitBounds == Init => BoundsOK
<1> SUFFICES ASSUME Init PROVE BoundsOK
  OBVIOUS
<1>1. DOMAIN order = {} /\ \A r \in Requests : request[r].pc = "idle"
  BY DEF Init
<1>. QED
  BY <1>1 DEF BoundsOK, LossesExplained

\* However appends, payments and crashes interleave: only two appends to one
\* order lose the price of lines, the first round is kept, and no amount, asked
\* of the provider or stored, exceeds what the lines cost.
THEOREM AmountsStayWithinLines == Spec => []AmountsFollowLines
<1>1. BoundsOK => AmountsFollowLines
  BY DEF BoundsOK, RowBounds, LossesExplained, AmountsFollowLines
<1>. QED
  BY <1>1, InitBounds, NextBounds, AmountsInvariance, PTL DEF Spec

-----------------------------------------------------------------------------
(* One execution at a time: what an append has read is still so when it      *)
(* writes.                                                                   *)

OneAtATime == \A r, q \in Requests : InFlight(r) /\ InFlight(q) => r = q

AppendCurrent ==
  \A r \in Requests : request[r].pc = "append" =>
    /\ order[request[r].target].state = "PENDING_PAYMENT"
    /\ request[r].read = order[request[r].target].subtotal

SerialOK == OneAtATime /\ AppendCurrent /\ SubtotalIsSumOfLines /\ NeverOvercharged

SerialInv == AmountsInv /\ SerialOK

LEMMA StaysAlone ==
  ASSUME Serial, SerialInv, NEW r \in Requests, Step(r) PROVE OneAtATime'
<1>1. /\ \A q \in Requests : q # r => request'[q] = request[q]
      /\ InFlight(r) \/ Submit(r)
  BY StepsAlone DEF SerialInv
<1>2. \A q \in Requests : q # r => ~InFlight(q)
  BY <1>1 DEF Submit, MayStart, SerialInv, SerialOK, OneAtATime
<1>. QED
  BY <1>1, <1>2 DEF OneAtATime, InFlight

\* A step that writes no order, and no order's step.
LEMMA StepsSerial ==
  ASSUME Serial, SerialInv, NEW r \in Requests,
         Step(r), ~CreateOrder(r), ~AppendItems(r)
  PROVE  SerialOK'
<1>1. UNCHANGED order
  BY DEF Step, Submit, FindTarget, DeductLine, Deducted, CreateRefused, CreateConflict,
         FindReplay, AppendRead, Abort
<1>2. OneAtATime'
  BY StaysAlone
<1>3. SubtotalIsSumOfLines' /\ NeverOvercharged'
  BY <1>1 DEF SerialInv, SerialOK, SubtotalIsSumOfLines, NeverOvercharged
<1>4. AppendCurrent'
  <2> SUFFICES ASSUME NEW q \in Requests, request'[q].pc = "append"
               PROVE  /\ order[request'[q].target].state = "PENDING_PAYMENT"
                      /\ request'[q].read = order[request'[q].target].subtotal
    BY <1>1 DEF AppendCurrent
  <2>1. CASE q # r
    BY <2>1, StepsAlone DEF SerialInv, SerialOK, AppendCurrent
  <2>2. CASE q = r
    BY <2>2, ReadsNow DEF SerialInv
  <2>. QED
    BY <2>1, <2>2
<1>. QED
  BY <1>2, <1>3, <1>4 DEF SerialOK

LEMMA CreateSerial ==
  ASSUME Serial, SerialInv, NEW r \in Requests, CreateOrder(r) PROVE SerialOK'
<1> DEFINE input == request[r].input
<1>0. /\ input \in Inputs /\ request[r].pc = "write" /\ Answer(r, "created", r)
      /\ r \notin DOMAIN order
  BY DEF SerialInv, AmountsInv, IInv, RequestsOK, CreatedOnce, CreateOrder, Creating
<1>1. PICK state \in OrderState :
        order' = [o \in DOMAIN order \cup {r} |-> IF o = r THEN NewRow(input, state) ELSE order[o]]
  BY DEF CreateOrder, InitialStates, SettledStates, OrderState
<1>2. /\ NewRow(input, state) \in OrderRow /\ NewRow(input, state).asked = 0
      /\ NewRow(input, state).subtotal = SubtotalOf(NewRow(input, state).units)
  BY <1>0, NewRowType DEF NewRow
<1>3. 0 <= NewRow(input, state).total
  BY <1>2 DEF OrderRow
<1> DEFINE row == NewRow(input, state)
<1> HIDE DEF row
<1>4. /\ DOMAIN order' = DOMAIN order \cup {r} /\ order'[r] = row
      /\ \A o \in DOMAIN order : order'[o] = order[o]
  BY <1>0, <1>1, <1>2, RowAdded, TypeParts DEF SerialInv, row
<1>5. row.asked <= row.total /\ row.subtotal = SubtotalOf(row.units)
  BY <1>2, <1>3 DEF row
<1>6. SubtotalIsSumOfLines' /\ NeverOvercharged'
  BY <1>4, <1>5 DEF SerialInv, SerialOK, SubtotalIsSumOfLines, NeverOvercharged
<1>7. OneAtATime' /\ \A q \in Requests : q # r => request'[q] = request[q]
  BY StaysAlone, StepsAlone DEF SerialInv, Step
<1>8. AppendCurrent'
  <2>1. request'[r].pc # "append"
    BY <1>0 DEF Answer, SerialInv, AmountsInv, AmountsOK, TypeOK, RequestState
  <2>2. \A q \in Requests : request[q].pc = "append" => request[q].target \in DOMAIN order
    BY DEF SerialInv, AmountsInv, IInv, ReplaysFound
  <2>. QED
    BY <1>4, <1>7, <2>1, <2>2 DEF SerialInv, SerialOK, AppendCurrent
<1>. QED
  BY <1>6, <1>7, <1>8 DEF SerialOK

\* The subtotal that was read is the sum of the lines there are.
LEMMA AppendSerial ==
  ASSUME Serial, SerialInv, NEW r \in Requests, AppendItems(r) PROVE SerialOK'
<1> DEFINE input == request[r].input
           o == request[r].target
           row == AppendedRow(order[o], input, request[r].read)
           more == Units(input)
<1>0. /\ request[r].pc = "append" /\ Become(r, "appended")
      /\ order' = [order EXCEPT ![o] = row]
  BY DEF AppendItems
<1>1. /\ o \in DOMAIN order /\ input \in Inputs /\ request[r].read \in Nat
      /\ order[o] \in OrderRow /\ request[r].read = order[o].subtotal
  BY <1>0 DEF SerialInv, SerialOK, AppendCurrent, AmountsInv, AmountsOK, IInv, ReplaysFound,
              TypeOK, RequestState
<1>2. /\ row \in OrderRow
      /\ row.units = [p \in Products |-> order[o].units[p] + more[p]]
      /\ row.subtotal = order[o].subtotal + SubtotalOf(more) /\ SubtotalOf(more) \in Nat
      /\ row.total = Total(row.subtotal, order[o].discount, Fee(order[o].input.deliveryType))
      /\ row.asked = order[o].asked
  BY <1>1, AppendedRowType
<1>3. /\ order[o].units \in [Products -> Nat] /\ more \in [Products -> Nat]
      /\ order[o].subtotal \in Nat /\ order[o].discount \in Nat /\ order[o].fee \in Nat
      /\ order[o].asked \in Nat /\ order[o].total \in Nat
  BY <1>1, UnitsType DEF OrderRow
<1>4. /\ order[o].fee = Fee(order[o].input.deliveryType)
      /\ order[o].total = Total(order[o].subtotal, order[o].discount, order[o].fee)
      /\ order[o].subtotal = SubtotalOf(order[o].units)
      /\ order[o].asked <= order[o].total
  BY <1>1 DEF SerialInv, SerialOK, AmountsInv, IInv, FeesKept, TotalsAgree,
              SubtotalIsSumOfLines, NeverOvercharged
<1> HIDE DEF row, input, more
<1>5. row.subtotal = SubtotalOf(row.units)
  BY <1>2, <1>3, <1>4, SubtotalPlus
<1>6. row.asked <= row.total
  <2> DEFINE s == order[o].subtotal
             d == order[o].discount
             f == order[o].fee
             t == SubtotalOf(more)
  <2>1. s \in Nat /\ d \in Nat /\ f \in Nat /\ t \in Nat
    BY <1>2, <1>3
  <2>2. order[o].total = Total(s, d, f) /\ row.total = Total(s + t, d, f)
    BY <1>2, <1>4
  <2>3. row.asked <= order[o].total /\ row.asked \in Nat /\ order[o].total \in Nat
    BY <1>2, <1>3, <1>4
  <2>4. row.total \in Nat
    BY <1>2 DEF OrderRow
  <2> HIDE DEF s, d, f, t
  <2>5. Total(s, d, f) <= Total(s + t, d, f)
    BY <2>1, TotalGrows
  <2>. QED
    BY <2>2, <2>3, <2>4, <2>5
<1>7. /\ DOMAIN order' = DOMAIN order /\ order'[o] = row
      /\ \A p \in DOMAIN order : p # o => order'[p] = order[p]
  BY <1>0, <1>1, <1>2, RowChanged, TypeParts DEF SerialInv
<1>8. SubtotalIsSumOfLines'
  <2> SUFFICES ASSUME NEW p \in DOMAIN order PROVE order'[p].subtotal = SubtotalOf(order'[p].units)
    BY <1>7 DEF SubtotalIsSumOfLines
  <2>1. order[p].subtotal = SubtotalOf(order[p].units)
    BY DEF SerialInv, SerialOK, SubtotalIsSumOfLines
  <2>2. CASE p = o
    BY <1>5, <1>7, <2>2
  <2>3. CASE p # o
    BY <1>7, <2>1, <2>3
  <2>. QED
    BY <2>2, <2>3
<1>9. NeverOvercharged'
  BY <1>6, <1>7 DEF SerialInv, SerialOK, NeverOvercharged
<1>10. OneAtATime' /\ \A q \in Requests : q # r => request'[q] = request[q]
  BY StaysAlone, StepsAlone DEF SerialInv, Step
<1>11. AppendCurrent'
  <2>1. request'[r].pc # "append"
    BY <1>0 DEF Become, SerialInv, AmountsInv, AmountsOK, TypeOK, RequestState
  <2>2. \A q \in Requests : q # r => request[q].pc # "append"
    BY <1>0 DEF SerialInv, SerialOK, OneAtATime, InFlight, Running
  <2>. QED
    BY <1>10, <2>1, <2>2 DEF AppendCurrent
<1>. QED
  BY <1>8, <1>9, <1>10, <1>11 DEF SerialOK

LEMMA MeanwhileSerial ==
  ASSUME Serial, SerialInv, NEW o \in DOMAIN order, AskPayment(o) \/ LeavePending(o)
  PROVE  SerialOK'
<1>1. UNCHANGED request /\ \A q \in Requests : request[q].pc # "append"
  BY DEF AskPayment, LeavePending, MayIntervene
<1>2. PICK row \in OrderRow :
        /\ order' = [order EXCEPT ![o] = row]
        /\ row.units = order[o].units /\ row.subtotal = order[o].subtotal
        /\ row.total = order[o].total
        /\ row.asked \in {order[o].asked, order[o].total}
  BY MeanwhileRow DEF SerialInv
<1>3. /\ DOMAIN order' = DOMAIN order /\ order'[o] = row
      /\ \A p \in DOMAIN order : p # o => order'[p] = order[p]
  BY <1>2, RowChanged, TypeParts DEF SerialInv
<1>4. order[o].asked <= order[o].total /\ order[o].total \in Nat
  BY DEF SerialInv, SerialOK, NeverOvercharged, AmountsInv, AmountsOK, TypeOK, OrderRow
<1>5. row.asked <= row.total
  BY <1>2, <1>4
<1>6. SubtotalIsSumOfLines' /\ NeverOvercharged'
  <2>1. NeverOvercharged'
    BY <1>3, <1>5 DEF SerialInv, SerialOK, NeverOvercharged
  <2>2. SubtotalIsSumOfLines'
    BY <1>2, <1>3 DEF SerialInv, SerialOK, SubtotalIsSumOfLines
  <2>. QED
    BY <2>1, <2>2
<1>7. OneAtATime' /\ AppendCurrent'
  BY <1>1 DEF SerialInv, SerialOK, OneAtATime, InFlight, AppendCurrent
<1>. QED
  BY <1>6, <1>7 DEF SerialOK

LEMMA NextSerial == ASSUME Serial PROVE SerialInv /\ [Next]_vars => SerialInv'
<1> SUFFICES ASSUME SerialInv, [Next]_vars PROVE SerialInv'
  OBVIOUS
<1>1. AmountsInv'
  BY NextAmounts DEF SerialInv
<1>2. SerialOK'
  <2>1. ASSUME UNCHANGED vars PROVE SerialOK'
    <3>1. UNCHANGED <<order, request>>
      BY <2>1 DEF vars
    <3>. QED
      BY <3>1 DEF SerialInv, SerialOK, OneAtATime, InFlight, AppendCurrent,
                  SubtotalIsSumOfLines, NeverOvercharged
  <2>2. ASSUME NEW r \in Requests, Step(r) PROVE SerialOK'
    BY <2>2, StepsSerial, CreateSerial, AppendSerial
  <2>. QED
    BY <2>1, <2>2, MeanwhileSerial DEF Next, Step
<1>. QED
  BY <1>1, <1>2 DEF SerialInv

LEMMA InitSerial == Init => SerialInv
<1> SUFFICES ASSUME Init PROVE SerialInv
  OBVIOUS
<1>1. DOMAIN order = {} /\ \A r \in Requests : request[r].pc = "idle"
  BY DEF Init
<1>. QED
  BY <1>1, InitAmounts DEF SerialInv, SerialOK, OneAtATime, InFlight, Running, AppendCurrent,
                          SubtotalIsSumOfLines, NeverOvercharged

\* What one execution at a time keeps.
THEOREM SerialInvariance == ASSUME Serial PROVE Spec => []SerialInv
BY InitSerial, NextSerial, PTL DEF Spec

\* One execution at a time, an order's amount follows from the prices of its
\* lines after any number of appends.
THEOREM SubtotalsAddUp == ASSUME Serial PROVE Spec => []SubtotalIsSumOfLines
<1>1. SerialInv => SubtotalIsSumOfLines
  BY DEF SerialInv, SerialOK
<1>. QED
  BY <1>1, SerialInvariance, PTL

\* One execution at a time, what the provider was asked for never exceeds what
\* the order comes to: whatever is added only raises its total.
THEOREM PaymentsNeverExceed == ASSUME Serial PROVE Spec => []NeverOvercharged
<1>1. SerialInv => NeverOvercharged
  BY DEF SerialInv, SerialOK
<1>. QED
  BY <1>1, SerialInvariance, PTL

\* One execution at a time, an order found before its lines are deducted is
\* looked at again: lines are added only while it waits for its payment.
THEOREM AppendsStayUnpaid == ASSUME Serial PROVE Spec => AppendsOnlyWhileUnpaid
<1> DEFINE Added == \A o \in DOMAIN order : order'[o].units # order[o].units =>
                      order[o].state = "PENDING_PAYMENT"
<1>1. SerialInv /\ [Next]_vars => [Added]_vars
  <2> SUFFICES ASSUME SerialInv, Next PROVE Added
    OBVIOUS
  <2>1. ASSUME NEW r \in Requests, Step(r), ~CreateOrder(r), ~AppendItems(r) PROVE Added
    <3>1. UNCHANGED order
      BY <2>1 DEF Step, Submit, FindTarget, DeductLine, Deducted, CreateRefused, CreateConflict,
                  FindReplay, AppendRead, Abort
    <3>. QED
      BY <3>1
  <2>2. ASSUME NEW r \in Requests, CreateOrder(r) PROVE Added
    <3>1. r \notin DOMAIN order
      BY <2>2 DEF SerialInv, AmountsInv, IInv, CreatedOnce, CreateOrder, Creating
    <3>. QED
      BY <2>2, <3>1 DEF CreateOrder
  <2>3. ASSUME NEW r \in Requests, AppendItems(r) PROVE Added
    <3>1. /\ request[r].pc = "append"
          /\ \A o \in DOMAIN order : o # request[r].target => order'[o] = order[o]
      BY <2>3 DEF AppendItems
    <3>2. order[request[r].target].state = "PENDING_PAYMENT"
      BY <3>1 DEF SerialInv, SerialOK, AppendCurrent
    <3>. QED
      BY <3>1, <3>2
  <2>4. ASSUME NEW o \in DOMAIN order, AskPayment(o) \/ LeavePending(o) PROVE Added
    <3>1. PICK row \in OrderRow : order' = [order EXCEPT ![o] = row] /\ row.units = order[o].units
      BY <2>4, MeanwhileRow DEF SerialInv
    <3>. QED
      BY <3>1
  <2>. QED
    BY <2>1, <2>2, <2>3, <2>4 DEF Next, Step
<1>. QED
  BY <1>1, SerialInvariance, PTL DEF Spec, AppendsOnlyWhileUnpaid

=============================================================================
