\* The drawer, its DB-log section and the popup, under a backend that
\* eventually answers every DB-log fetch.
CONSTANTS
    a = a
    b = b
    c = c
    Rows <- MCRows
    RidRows <- MCRidRows
    DbRows <- MCDbRows
    MaxOpens = 3
    NoRow = none
    none = none
SPECIFICATION Spec
INVARIANT TypeOK
INVARIANT DbLogsOfOpenRow
INVARIANT PopupSingleInstance
PROPERTY EscapeKeepsDrawerUnderPopup
PROPERTY DbSectionSettles
PROPERTY DrawerShowsItsRow
