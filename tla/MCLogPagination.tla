------------------------- MODULE MCLogPagination -------------------------
(***************************************************************************)
(* Model-checking instance of LogPagination: three rows in the log, so    *)
(* that a limit of 1 or 2 gives a full page, a partial last page and an   *)
(* empty page past the end; limits 1 and 2 let the user change the page   *)
(* size between clicks; 0 and NaN exercise the `|| 200` fallback.  Two    *)
(* filters let the user edit the filter bar between a search and a click. *)
(***************************************************************************)
EXTENDS LogPagination

CONSTANTS f1, f2

MCTotal == 3
MCLimitsValid == {1, 2, 0, NaN}
MCLimitsNegative == {1, -1}
MCFilters == {f1, f2}
=============================================================================
