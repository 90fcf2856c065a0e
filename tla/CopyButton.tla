---------------------------- MODULE CopyButton ----------------------------
(***************************************************************************)
(* copyToClipboard(text, btnEl) of src/app/static/js/logs.js, for one     *)
(* button (the drawer's "Copy cURL", the popup's copy icon or a DB-log    *)
(* copy icon).  A click awaits navigator.clipboard.writeText; when it     *)
(* settles (resolved, or rejected and done by the execCommand fallback)   *)
(* the handler reads the label as `orig`, shows "Copied!" and schedules a *)
(* 1.5 s timer that writes `orig` back.  All timers have the same delay,  *)
(* so they fire in the order they were set.                               *)
(***************************************************************************)
EXTENDS Naturals, Sequences

CONSTANTS
    Orig,       \* the button's own label
    MaxClicks   \* bound on the number of clicks

Copied == "Copied!"

VARIABLES
    label,     \* btnEl.textContent
    writes,    \* clipboard writes not yet settled
    timers,    \* pending restore timers, each holding its captured orig
    clicks     \* clicks so far

vars == <<label, writes, timers, clicks>>

Init ==
    /\ label = Orig
    /\ writes = 0
    /\ timers = <<>>
    /\ clicks = 0

\* A click on the button: copyToClipboard runs up to its await.
Click ==
    /\ clicks < MaxClicks
    /\ clicks' = clicks + 1
    /\ writes' = writes + 1
    /\ UNCHANGED <<label, timers>>

\* writeText settles.  Both the resolved path and the fallback path then
\* do the same to the label: orig = textContent, "Copied!", setTimeout.
CopySettles ==
    /\ writes > 0
    /\ writes' = writes - 1
    /\ label' = Copied
    /\ timers' = Append(timers, label)
    /\ UNCHANGED clicks

\* The oldest timer fires: btnEl.textContent = orig.
RestoreLabel ==
    /\ timers # <<>>
    /\ label' = Head(timers)
    /\ timers' = Tail(timers)
    /\ UNCHANGED <<writes, clicks>>

Next == Click \/ CopySettles \/ RestoreLabel

\* Writes settle and timers fire; clicking is up to the user.
Spec == Init /\ [][Next]_vars /\ WF_vars(CopySettles) /\ WF_vars(RestoreLabel)

\* Once every copy has settled and every timer has fired, the button shows
\* its own label again.  A second click within 1.5 s captures "Copied!" as
\* its orig and writes it back last.
LabelRestored == (writes = 0 /\ timers = <<>>) => label = Orig
=============================================================================
