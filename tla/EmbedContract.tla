---------------------------- MODULE EmbedContract ----------------------------
(***************************************************************************)
(* What embedding a whole document promises its caller, whatever the number *)
(* of workers and retries: embeddings appear one input at a time, one       *)
(* verdict is returned, and nothing changes after it.  "results" may be     *)
(* returned with inputs missing only when the caller's own context had      *)
(* already ended; an error may be returned at any time.                     *)
(***************************************************************************)
EXTENDS Naturals

CONSTANT N                  \* number of inputs

VARIABLES embedded,         \* the inputs whose result is in place
          parentDone,       \* the caller's context has ended
          outcome           \* what was returned: "none" until the return

contractVars == <<embedded, parentDone, outcome>>

Init == embedded = {} /\ parentDone = FALSE /\ outcome = "none"

Embed(i) ==
    /\ outcome = "none"
    /\ embedded' = embedded \cup {i}
    /\ UNCHANGED <<parentDone, outcome>>

EndParent ==
    /\ outcome = "none"
    /\ parentDone' = TRUE
    /\ UNCHANGED <<embedded, outcome>>

ReturnResults ==
    /\ outcome = "none"
    /\ embedded = 1..N \/ parentDone
    /\ outcome' = "results"
    /\ UNCHANGED <<embedded, parentDone>>

ReturnError ==
    /\ outcome = "none"
    /\ outcome' = "error"
    /\ UNCHANGED <<embedded, parentDone>>

Next == (\E i \in 1..N : Embed(i)) \/ EndParent \/ ReturnResults \/ ReturnError

Spec == Init /\ [][Next]_contractVars
==============================================================================
