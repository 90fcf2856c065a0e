\* Two clicks on one copy button, the second within 1.5 s of the first.
\* When the user stops clicking and every timer has fired, nothing is left
\* to happen: the button rests, which is not a deadlock.
CONSTANTS
    Orig = Orig
    MaxClicks = 2
SPECIFICATION Spec
INVARIANT LabelRestored
CHECK_DEADLOCK FALSE
