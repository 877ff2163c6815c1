--------------------------- MODULE MCContextBudget ---------------------------
(***************************************************************************)
(* Every list of up to four documents over three sections and three         *)
(* lengths, so that sections of one to four chunks, ties and oversize       *)
(* chunks all occur.  A document costs 17, 26 or 46: the budgets disable    *)
(* the builder, fit exactly one, fit two small ones but not a small and a   *)
(* large one by a byte, and fit some but not all of four.                   *)
(***************************************************************************)
EXTENDS ContextBudget

CONSTANTS s1, s2, s3

MCSections == {s1, s2, s3}
MCSizes    == {1, 10, 30}
MCBudgets  == {-1, 0, 26, 62, 100}
==============================================================================
