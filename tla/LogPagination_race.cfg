\* A reliable backend; the user may click again before the answer arrives.
CONSTANTS
    NaN = NaN
    f1 = f1
    f2 = f2
    Filters <- MCFilters
    Total <- MCTotal
    LimitInputs <- MCLimitsValid
    MaxFetches = 5
    ServerMayFail = FALSE
    UserWaits = FALSE
    InitialDisabled = {FALSE, TRUE}
    SearchAfterEdit = TRUE
SPECIFICATION Spec
INVARIANT PageLabelMatchesRows
