CONSTANTS
    Keys = {k1, k2}
    NewRows <- MC_NewRows
    MaxTip = 2
    NoTip = NoTip
SPECIFICATION Spec
INVARIANTS TypeOK BalanceCountsOnce DefaultOrderLargestWhenUncovered
