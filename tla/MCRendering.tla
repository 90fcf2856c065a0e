--------------------------- MODULE MCRendering ---------------------------
(***************************************************************************)
(* Input domains for Rendering: pages of up to four rows over two days and *)
(* a missing ts; texts of up to four characters mixing the escaped         *)
(* characters with the letters of their entities (no upper case, so       *)
(* toLowerCase is the identity on them); logged requests whose body holds *)
(* quotes, backslashes, blanks and newlines; DB errors cut after two      *)
(* characters, so that texts of three and four are truncated; filter      *)
(* inputs of up to three letters and blanks; local times whose fields sit *)
(* on both sides of the one-digit/two-digit boundary, and the months      *)
(* where getMonth() + 1 gains a digit (September to October) or ends the  *)
(* year (December); root paths of up to two segments over "api", "logs"  *)
(* and "ui", so that a root may itself end in /logs/ui.                    *)
(***************************************************************************)
EXTENDS Rendering

CONSTANTS d1, d2

MCDays == {d1, d2}
MCChars == {"&", "<", ">", "\"", "l", "t", ";"}
MCShellChars == {"a", "'", "\\", " ", "\n"}
MCPlainChars == {"a", " "}
MCDates ==
    [year : {2026}, month : {0, 8, 9, 11}, date : {1, 9, 10, 31},
     hours : {0, 9, 10, 23}, minutes : {0, 59}, seconds : {0, 59}]
MCRoots ==
    {<<>>} \cup {<<"/", w>> : w \in {"api", "logs", "ui"}} \cup
    {<<"/", w1, "/", w2>> : w1, w2 \in {"api", "logs", "ui"}}
=============================================================================
