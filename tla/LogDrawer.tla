----------------------------- MODULE LogDrawer -----------------------------
(***************************************************************************)
(* The detail drawer, its lazily loaded DB-log section and the popup of   *)
(* src/app/static/js/logs.js.  Every openDrawer rebuilds #drawer-body, so  *)
(* each opening creates a fresh #db-logs-content element; the model keeps  *)
(* one record per opening in the sequence `drawers`, the last one being   *)
(* the content in the document.  loadDbLogs captures its container before *)
(* awaiting fetchDbLogs; the code after the await runs as DbResolve.       *)
(*                                                                         *)
(* A DB section shows "loading", "empty", or a table; a table is recorded  *)
(* as the row whose request id was fetched.  Popups are counted: a .popup *)
(* element and, registered with it, one capture-phase keydown handler.    *)
(***************************************************************************)
EXTENDS Naturals, Sequences

CONSTANTS
    Rows,      \* rows of the grid the user can open
    RidRows,   \* rows that carry a request_id
    DbRows,    \* rows with has_db_logs set
    MaxOpens,  \* bound on the number of openDrawer calls
    NoRow      \* the drawer's row before the first opening

ASSUME RidRows \subseteq Rows /\ DbRows \subseteq Rows
ASSUME MaxOpens \in Nat \ {0} /\ NoRow \notin Rows

VARIABLES
    drawerOpen,   \* #drawer-overlay and #detail-drawer carry class "open"
    drawers,      \* one record per openDrawer call, the last is current
    dbInflight,   \* loadDbLogs calls awaiting fetchDbLogs
    popups,       \* .popup elements in the document
    escHandlers   \* popup keydown handlers registered on document

vars == <<drawerOpen, drawers, dbInflight, popups, escHandlers>>

DbSection == {"loading", "empty"} \cup Rows

Drawer == [row : Rows, viaDb : BOOLEAN, db : DbSection, scrolled : BOOLEAN]

Current == drawers[Len(drawers)]

\* buildDrawerContent: the summary and sections of row r, ending with the
\* DB-log section and its "Loading DB logs..." placeholder.
NewDrawer(r, scroll) ==
    [row |-> r, viaDb |-> scroll, db |-> "loading", scrolled |-> FALSE]

\* Page load: the DOMContentLoaded handler wires the drawer's close button,
\* the overlay and the document Escape handler; nothing is open.
Init ==
    /\ drawerOpen = FALSE
    /\ drawers = <<>>
    /\ dbInflight = {}
    /\ popups = 0
    /\ escHandlers = 0

\* Mutation: openDrawer calls loadDbLogs without `if (rowData.request_id)`.
OpenDrawerNoRidCheck(r, scroll) ==
    LET g == Len(drawers) + 1 IN
    /\ Len(drawers) < MaxOpens
    /\ drawers' = Append(drawers, NewDrawer(r, scroll))
    /\ drawerOpen' = TRUE
    /\ dbInflight' = dbInflight \cup {[gen |-> g, row |-> r, scroll |-> scroll]}
    /\ UNCHANGED <<popups, escHandlers>>

\* openDrawer(rowData, scrollToDbLogs): rebuild the body, open the drawer,
\* and when the row has a request id start loadDbLogs, which sets its
\* container to loading and awaits fetchDbLogs.
OpenDrawer(r, scroll) ==
    LET g == Len(drawers) + 1 IN
    /\ Len(drawers) < MaxOpens
    /\ drawers' = Append(drawers, NewDrawer(r, scroll))
    /\ drawerOpen' = TRUE
    /\ dbInflight' = IF r \in RidRows
                     THEN dbInflight \cup {[gen |-> g, row |-> r, scroll |-> scroll]}
                     ELSE dbInflight
    /\ UNCHANGED <<popups, escHandlers>>

\* The grid can be clicked only when neither the drawer overlay nor a popup
\* backdrop covers it (grid cells take no keyboard focus).
GridReachable == ~drawerOpen /\ popups = 0

\* onRowClicked outside the DB button: openDrawer(event.data).
RowClick(r) ==
    /\ GridReachable
    /\ OpenDrawer(r, FALSE)

\* onCellClicked on the DB button, rendered only for rows with has_db_logs
\* and a request id: openDrawer(event.data, true).  onRowClicked ignores
\* this click.
DbButtonClick(r) ==
    /\ r \in DbRows \cap RidRows
    /\ GridReachable
    /\ OpenDrawer(r, TRUE)

\* closeDrawer from #drawer-close or the overlay: remove the "open" class.
CloseDrawer ==
    /\ drawerOpen
    /\ drawerOpen' = FALSE
    /\ UNCHANGED <<drawers, dbInflight, popups, escHandlers>>

\* closePopup removes the first .popup and, because it is registered with
\* the same capture flag, its keydown handler.
PopupsAfterClose == IF popups > 0 THEN popups - 1 ELSE 0

HandlersAfterClose == IF popups > 0 THEN escHandlers - 1 ELSE escHandlers

\* Mutation: openPopup without the leading closePopup().
OpenPopupNoClose ==
    /\ drawerOpen
    /\ drawers # <<>>
    /\ Current.db \in Rows
    /\ popups' = popups + 1
    /\ escHandlers' = escHandlers + 1
    /\ UNCHANGED <<drawerOpen, drawers, dbInflight>>

\* A view-sql or view-json button of the current DB table: openPopup,
\* which first calls closePopup, then inserts a popup and registers its
\* Escape handler in the capture phase.  The buttons stay reachable by
\* keyboard under an open popup's backdrop.
OpenPopup ==
    /\ drawerOpen
    /\ drawers # <<>>
    /\ Current.db \in Rows
    /\ popups' = PopupsAfterClose + 1
    /\ escHandlers' = HandlersAfterClose + 1
    /\ UNCHANGED <<drawerOpen, drawers, dbInflight>>

\* The popup's close button or its backdrop: closePopup().
ClosePopup ==
    /\ popups > 0
    /\ popups' = PopupsAfterClose
    /\ escHandlers' = HandlersAfterClose
    /\ UNCHANGED <<drawerOpen, drawers, dbInflight>>

\* Mutation: the popup's handler registered in the bubble phase, after the
\* drawer's own document handler, so one Escape reaches both.
KeyEscapeBubble ==
    /\ drawerOpen' = FALSE
    /\ popups' = PopupsAfterClose
    /\ escHandlers' = HandlersAfterClose
    /\ UNCHANGED <<drawers, dbInflight>>

\* Escape on the document: capture-phase popup handlers run first; the
\* first one calls stopImmediatePropagation and closePopup, so the drawer's
\* handler does not run.  With no popup handler the drawer closes.
KeyEscape ==
    IF escHandlers > 0
    THEN /\ popups' = PopupsAfterClose
         /\ escHandlers' = HandlersAfterClose
         /\ UNCHANGED <<drawerOpen, drawers, dbInflight>>
    ELSE /\ drawerOpen' = FALSE
         /\ UNCHANGED <<drawers, dbInflight, popups, escHandlers>>

\* Mutation: after the await, loadDbLogs looks its container up again by
\* id instead of using the element it captured.
DbResolveRequery(q, found) ==
    LET g == Len(drawers) IN
    /\ dbInflight' = dbInflight \ {q}
    /\ drawers' = [drawers EXCEPT
                     ![g].db = IF found THEN q.row ELSE "empty",
                     ![g].scrolled = IF found /\ q.scroll THEN TRUE ELSE @]
    /\ UNCHANGED <<drawerOpen, popups, escHandlers>>

\* Mutation: an empty answer returns without writing the empty state.
DbResolveNoEmptyState(q, found) ==
    /\ dbInflight' = dbInflight \ {q}
    /\ drawers' = IF found
                  THEN [drawers EXCEPT
                          ![q.gen].db = q.row,
                          ![Len(drawers)].scrolled = IF q.scroll THEN TRUE ELSE @]
                  ELSE drawers
    /\ UNCHANGED <<drawerOpen, popups, escHandlers>>

\* What fetchDbLogs can return, as loadDbLogs tells it apart: items
\* (TRUE), or [] for a non-ok status, a network error or no items (FALSE).
FetchDbLogs == BOOLEAN

\* fetchDbLogs answers: `found` is whether it returned items.  loadDbLogs then writes the empty state or the
\* table into the container it captured before the await, even if that
\* element is no longer in the document, and if asked scrolls to whatever
\* #db-logs-section the document holds now.
DbResolve(q, found) ==
    /\ dbInflight' = dbInflight \ {q}
    /\ drawers' = [drawers EXCEPT
                     ![q.gen].db = IF found THEN q.row ELSE "empty",
                     ![Len(drawers)].scrolled = IF found /\ q.scroll THEN TRUE ELSE @]
    /\ UNCHANGED <<drawerOpen, popups, escHandlers>>

Next ==
    \/ \E r \in Rows : RowClick(r) \/ DbButtonClick(r)
    \/ CloseDrawer
    \/ OpenPopup
    \/ ClosePopup
    \/ KeyEscape
    \/ \E q \in dbInflight, found \in FetchDbLogs : DbResolve(q, found)

\* fetch() has no timeout of its own, but the browser's network stack ends
\* every request with a response or an error, so a pending DB-log fetch is
\* eventually answered.  No user action is assumed to happen.
Fairness == WF_vars(\E q \in dbInflight, found \in FetchDbLogs : DbResolve(q, found))

Spec == Init /\ [][Next]_vars /\ Fairness

-----------------------------------------------------------------------------
TypeOK ==
    /\ drawerOpen \in BOOLEAN
    /\ drawers \in Seq(Drawer) /\ Len(drawers) <= MaxOpens
    /\ dbInflight \subseteq [gen : 1..Len(drawers), row : RidRows, scroll : BOOLEAN]
    /\ popups \in Nat
    /\ escHandlers \in Nat

\* A DB-log table shown in a drawer lists the DB calls of the row that
\* drawer was opened for, even when the user reopens the drawer on another
\* row while the first fetch is pending (loadDbLogs keeps the container it
\* read before its await).
DbLogsOfOpenRow ==
    \A g \in 1..Len(drawers) : drawers[g].db \in {"loading", "empty", drawers[g].row}

\* A drawer is scrolled to its DB section only when it was opened from the
\* DB button.  loadDbLogs looks #db-logs-section up after its await.
ScrollOnlyWhenAsked ==
    \A g \in 1..Len(drawers) : drawers[g].scrolled => drawers[g].viaDb

\* At most one popup exists and every registered popup Escape handler
\* belongs to it: openPopup closes the previous popup and closePopup
\* removes the handler with the capture flag it was added with.
PopupSingleInstance == popups <= 1 /\ escHandlers = popups

\* A step that closes a popup never closes the drawer behind it: Escape is
\* stopped by the popup's capture-phase handler.
EscapeKeepsDrawerUnderPopup ==
    [][popups' < popups => drawerOpen' = drawerOpen]_vars

\* The drawer as the user sees it: the content of the last opening, and
\* whether any popup is shown.
View == INSTANCE DrawerView
    WITH open  <- drawerOpen,
         row   <- IF drawers = <<>> THEN NoRow ELSE Current.row,
         db    <- IF drawers = <<>> THEN "none" ELSE Current.db,
         popup <- popups > 0

\* The drawer implements DrawerView: it opens only from the uncovered grid,
\* its visible DB section settles at most once and only to its own row's
\* calls or the empty state, however late a fetch of an earlier opening
\* answers, and a popup opens only over a DB table and closes without the
\* drawer.
DrawerShowsItsRow == View!DSpec

Loading(g) == g <= Len(drawers) /\ drawers[g].db = "loading"

\* The "Loading DB logs..." placeholder of a drawer opened on a row with a
\* request id is eventually replaced by the empty state or a table.
DbSectionSettles ==
    \A g \in 1..MaxOpens :
        (Loading(g) /\ drawers[g].row \in RidRows) ~> ~Loading(g)

\* Every drawer's placeholder is eventually replaced (spec 4.4: a loading
\* placeholder, then an empty-state message or a table).  openDrawer starts
\* no fetch for a row without request id.
DbSectionAlwaysSettles ==
    \A g \in 1..MaxOpens : Loading(g) ~> ~Loading(g)
=============================================================================
