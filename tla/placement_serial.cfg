\* Four executions of createOrder, one at a time.
CONSTANTS
  Requests = {r1, r2, r3, r4}
  Serial = TRUE
  k1 = k1
  k2 = k2
  k3 = k3
  k4 = k4
  k5 = k5
  u1 = u1
  u2 = u2
  tb1 = tb1
  dish = dish
  drink = drink
  coupon = coupon
  Keys = {k1, k2, k3, k4, k5}
  Users = {u1, u2}
  Tables = {tb1}
  Products = {dish, drink}
  Coupons = {coupon}
  NoTable = NoTable
  NoCoupon = NoCoupon
  NoOrder = NoOrder
  Untracked = Untracked
  Inputs <- MCInputs
  Price <- MCPrice
  InitialStock <- MCInitialStock
  UsageLimit <- MCUsageLimit
  DiscountValue <- MCDiscountValue
  FixedFee = 2
SPECIFICATION Spec
SYMMETRY RequestSymmetry
INVARIANTS SubtotalIsSumOfLines NeverOvercharged
PROPERTIES AppendsOnlyWhileUnpaid
\* Quiescent once every request has run and every order left PENDING_PAYMENT.
CHECK_DEADLOCK FALSE
