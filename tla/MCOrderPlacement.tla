-------------------------- MODULE MCOrderPlacement --------------------------
(* Small instances of OrderPlacement: one table, one customer who retries,   *)
(* adds a round, reuses a key by mistake and races another customer for the  *)
(* last units and the last use of a coupon.                                  *)
EXTENDS OrderPlacement, TLC

CONSTANTS u1, u2, tb1, k1, k2, k3, k4, k5, dish, drink, coupon

MCPrice == (dish :> 7) @@ (drink :> 3)
MCInitialStock == (dish :> 3) @@ (drink :> Untracked)
MCUsageLimit == (coupon :> 1)
MCDiscountValue == (coupon :> 50)

Dish(n) == [product |-> dish, amount |-> n]
Drink(n) == [product |-> drink, amount |-> n]

Round(key, user, items) ==
  [key |-> key, user |-> user, deliveryType |-> "DINE_IN", table |-> tb1,
   paymentMethod |-> "TELEBIRR", coupon |-> NoCoupon, items |-> items]

WithCoupon(input) == [input EXCEPT !.coupon = coupon]

Away(key, type, method, items) ==
  [key |-> key, user |-> u2, deliveryType |-> type, table |-> NoTable,
   paymentMethod |-> method, coupon |-> coupon, items |-> items]

\* Two rounds at a table, the first key reused with another payload, the
\* second submitted with its lines in either order, and a first round with a
\* coupon.
TableInputs ==
  {Round(k1, u1, <<Dish(1)>>), Round(k1, u1, <<Dish(2)>>),
   Round(k2, u1, <<Drink(1), Dish(2)>>), Round(k2, u1, <<Dish(2), Drink(1)>>),
   WithCoupon(Round(k3, u1, <<Dish(1)>>))}

\* A delivery and a takeaway with the same coupon.
AwayInputs ==
  {Away(k4, "DELIVERY", "CASH", <<Dish(2)>>),
   Away(k5, "PICKUP", "TELEBIRR", <<Dish(1), Dish(1)>>)}

MCInputs == TableInputs \cup AwayInputs

RequestSymmetry == Permutations(Requests)
=============================================================================
