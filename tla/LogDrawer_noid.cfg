\* A drawer opened on a row that has no request id, with every DB-log
\* fetch eventually answered.
CONSTANTS
    a = a
    b = b
    c = c
    Rows <- MCRows
    RidRows <- MCRidRows
    DbRows <- MCDbRows
    MaxOpens = 3
    NoRow = none
    none = none
SPECIFICATION Spec
PROPERTY DbSectionAlwaysSettles
