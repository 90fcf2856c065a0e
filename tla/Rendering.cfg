\* Every pure helper on its bounded inputs, and every escaped insertion site.
CONSTANTS
    d1 = d1
    d2 = d2
    NoTs = NoTs
    Days <- MCDays
    MaxItems = 4
    TextChars <- MCChars
    MaxText = 4
    HeaderChars <- MCPlainChars
    BodyChars <- MCShellChars
    MaxLen = 3
    ErrorMax = 2
    QueryChars <- MCPlainChars
    Dates <- MCDates
    Roots <- MCRoots
SPECIFICATION Spec
INVARIANT DayBoundariesMatchSpec
INVARIANT EscapeHtmlRoundTrip
INVARIANT CurlArgumentsIntact
INVARIANT EscapedFieldsShowTheirText
INVARIANT QueryOmitsEmptyFilters
INVARIANT DefaultDatesRoundTrip
INVARIANT ApiBaseIsRootPath
