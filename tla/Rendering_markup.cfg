\* Every insertion site of a log field into markup, escaped or not.
CONSTANTS
    d1 = d1
    d2 = d2
    NoTs = NoTs
    Days = {}
    MaxItems = 0
    TextChars <- MCChars
    MaxText = 2
    HeaderChars = {}
    BodyChars = {}
    MaxLen = 0
    ErrorMax = 2
    QueryChars <- MCPlainChars
    Dates <- MCDates
    Roots <- MCRoots
SPECIFICATION Spec
INVARIANT RenderedFieldsEscaped
