SPECIFICATION BillingSpec
CONSTANTS
  r1 = r1
  r2 = r2
  Nothing = Nothing
  k1 = k1
  k2 = k2
  basic = basic
  v1 = v1
  v2 = v2
  v3 = v3
  Callers = {r1, r2}
  ChargeKeys = {k1, k2}
  Amount <- TwoCredits
  Events = {v1, v2, v3}
  KindOf <- Kinds
  Plans = {basic}
  MonthlyCredits <- OneCredit
  Gift = 1
  MaxLots = 4
  MaxCalls = 4
  MaxTime = 1
  MaxCrashes = 1
INVARIANT LedgerMatchesLots
INVARIANT ChargedOnce
INVARIANT AllowanceIsDue
INVARIANT SubscriptionIsCurrent
CHECK_DEADLOCK FALSE
SYMMETRY Alike
