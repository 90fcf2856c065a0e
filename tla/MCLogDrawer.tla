--------------------------- MODULE MCLogDrawer ---------------------------
(***************************************************************************)
(* Model-checking instance of LogDrawer: row a has a request id and DB    *)
(* logs (so it shows the DB button), row b has a request id only, row c   *)
(* has neither.  Three openings let the user open a, close, and open b    *)
(* while a's fetch is still pending, and then once more.                  *)
(***************************************************************************)
EXTENDS LogDrawer

CONSTANTS a, b, c, none

MCRows == {a, b, c}
MCRidRows == {a, b}
MCDbRows == {a}
=============================================================================
