\* A backend that may fail any request; the user waits for each answer.
CONSTANTS
    NaN = NaN
    f1 = f1
    f2 = f2
    Filters <- MCFilters
    Total <- MCTotal
    LimitInputs <- MCLimitsValid
    MaxFetches = 5
    ServerMayFail = TRUE
    UserWaits = TRUE
    InitialDisabled = {FALSE, TRUE}
    SearchAfterEdit = TRUE
SPECIFICATION Spec
INVARIANT TypeOK
INVARIANT PageLabelMatchesRows
INVARIANT SkipOnlyAfterFailure
INVARIANT OffsetNonNegative
INVARIANT OffsetWithinLog
