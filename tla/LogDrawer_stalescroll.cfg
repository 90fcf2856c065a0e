\* A DB-log fetch of a row opened from its DB button still pending when
\* the drawer is reopened on another row.
CONSTANTS
    a = a
    b = b
    c = c
    Rows <- MCRows
    RidRows <- MCRidRows
    DbRows <- MCDbRows
    MaxOpens = 3
    NoRow = none
    none = none
SPECIFICATION Spec
INVARIANT ScrollOnlyWhenAsked
