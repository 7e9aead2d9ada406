CONSTANTS
  u1 = u1
  i1 = i1
  i2 = i2
  Users = {u1}
  Workers = {t1, t2, t3}
  Nobody = nobody
  Items = {i1, i2}
  SellerOf <- MCSellerOf
  LineTotal <- MCLineTotal
  Requests = {w1, w2}
  Amounts = {49999, 50000, 94070}
  MIN_WITHDRAWAL_AMOUNT = 50000
SYMMETRY WorkerSymmetry
SPECIFICATION Spec
INVARIANTS BalanceIsLedger SaleCreditedOnce PaidOutOrGivenBack
PROPERTY KeepsAccount
CHECK_DEADLOCK FALSE
