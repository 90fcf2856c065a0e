--------------------------- MODULE MCCopyButton ---------------------------
(***************************************************************************)
(* Two clicks on the same copy button are enough for the label race.      *)
(***************************************************************************)
EXTENDS CopyButton
=============================================================================
