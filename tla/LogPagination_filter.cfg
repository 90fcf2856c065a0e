\* A reliable backend; the user waits for each answer and may edit a filter
\* and then click Prev or Next without pressing Search.
CONSTANTS
    NaN = NaN
    f1 = f1
    f2 = f2
    Filters <- MCFilters
    Total <- MCTotal
    LimitInputs <- MCLimitsValid
    MaxFetches = 5
    ServerMayFail = FALSE
    UserWaits = TRUE
    InitialDisabled = {FALSE, TRUE}
    SearchAfterEdit = FALSE
SPECIFICATION Spec
PROPERTY FilterChangeResetsOffset
