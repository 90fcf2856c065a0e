\* Header values that may contain a quote or a backslash.
CONSTANTS
    HeaderChars <- MCShellChars
    BodyChars <- MCPlainChars
    MaxLen = 2
SPECIFICATION Spec
INVARIANT CurlArgumentsIntact
