\* A reliable backend; the user may type a negative page size.
CONSTANTS
    NaN = NaN
    f1 = f1
    f2 = f2
    Filters <- MCFilters
    Total <- MCTotal
    LimitInputs <- MCLimitsNegative
    MaxFetches = 5
    ServerMayFail = FALSE
    UserWaits = TRUE
    InitialDisabled = {FALSE, TRUE}
    SearchAfterEdit = TRUE
SPECIFICATION Spec
INVARIANT OffsetNonNegative
