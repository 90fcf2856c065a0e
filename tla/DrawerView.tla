----------------------------- MODULE DrawerView -----------------------------
(***************************************************************************)
(* What the detail drawer of src/app/static/js/logs.js promises its user, *)
(* with the rebuilt DOM, the pending fetches and the handlers left out.   *)
(* The grid opens the drawer on a row when nothing covers it; the drawer  *)
(* shows that row and a DB-log section that starts as a placeholder and   *)
(* settles at most once, to an empty state or to the DB calls of that     *)
(* same row.  A popup opens only over a DB table, and dismissing it leaves *)
(* the drawer as it was.  The drawer closes without touching its content.  *)
(***************************************************************************)
CONSTANTS
    Rows,    \* rows of the grid
    NoRow    \* the drawer has never been opened

VARIABLES
    open,    \* the drawer is visible
    row,     \* the row it shows
    db,      \* "none", "loading", "empty", or the row whose DB calls it lists
    popup    \* a popup is shown

dvars == <<open, row, db, popup>>

DInit ==
    /\ open = FALSE /\ row = NoRow /\ db = "none" /\ popup = FALSE

\* The user opens the drawer on r from the uncovered grid.
Show(r) ==
    /\ ~open /\ ~popup
    /\ open' = TRUE /\ row' = r /\ db' = "loading"
    /\ UNCHANGED popup

Hide ==
    /\ open
    /\ open' = FALSE
    /\ UNCHANGED <<row, db, popup>>

\* The DB-log section settles once, to its own row's calls or empty.
Settle ==
    /\ db = "loading"
    /\ db' \in {row, "empty"}
    /\ UNCHANGED <<open, row, popup>>

\* A view button of the DB table opens a popup over the drawer.
ViewDetail ==
    /\ open /\ db \in Rows
    /\ popup' = TRUE
    /\ UNCHANGED <<open, row, db>>

Dismiss ==
    /\ popup
    /\ popup' = FALSE
    /\ UNCHANGED <<open, row, db>>

DSpec ==
    DInit /\ [][\E r \in Rows : Show(r) \/ Hide \/ Settle \/ ViewDetail \/ Dismiss]_dvars
=============================================================================
