------------------------------ MODULE EmbedPool ------------------------------
(***************************************************************************)
(* internal/ingestion/concurrency.go: mapOrdered running retryEmbed for     *)
(* every chunk of a document.  One launcher goroutine walks the inputs and  *)
(* starts a worker for each one a semaphore slot is free for; workers call  *)
(* the embedder, retry with a context-aware sleep, and the first error      *)
(* cancels the others.                                                      *)
(*                                                                          *)
(* Two contexts matter: the caller's (cmd/ingest's request deadline, here   *)
(* parentDone) and the child mapOrdered derives from it and cancels on the  *)
(* first error (cancelled).  Workers and launcher only see the child.       *)
(* Vectors, error texts and the length of a back-off are abstracted: a      *)
(* result is "in place" or is the zero value of its slot.                   *)
(***************************************************************************)
EXTENDS Integers, FiniteSets

CONSTANTS N,                \* number of chunks to embed
          EmbedWorkers,     \* the workers argument, any integer
          EmbedRetries      \* the retries argument, any integer

ASSUME PoolAssumption ==
    /\ N \in Nat
    /\ EmbedWorkers \in Int
    /\ EmbedRetries \in Int

VARIABLES next,             \* the launcher's loop index
          worker,           \* where each chunk's worker stands
          sem,              \* tokens in the semaphore channel
          wg,               \* the WaitGroup's counter
          attempts,         \* embed calls made for each chunk
          embedded,         \* the slots of results a worker has filled
          cancelled,        \* cancel() was called on the child context
          parentDone,       \* the caller's context is done
          firstErr,         \* the error errOnce kept
          outcome           \* what mapOrdered returned

poolVars == <<next, worker, sem, wg, attempts, embedded, cancelled, parentDone,
          firstErr, outcome>>

Inputs == 1..N

\* "if workers < 1 { workers = 1 }" and "if retries < 0 { retries = 0 }".
Workers == IF EmbedWorkers < 1 THEN 1 ELSE EmbedWorkers
Retries == IF EmbedRetries < 0 THEN 0 ELSE EmbedRetries

NoErr == [kind |-> "nil", chunk |-> 0]

\* The child context is done when it was cancelled or its parent is done.
CtxDone == cancelled \/ parentDone

------------------------------------------------------------------------------
(* States of a worker: "idle" not launched; "embed" inside embed(ctx, ..);   *)
(* "check" the call failed, ctx.Err() not read yet; "sleep" in sleepContext; *)
(* "ctxErr" and "exhausted" fn returned that error, errOnce not run yet;     *)
(* "release" fn's result is dealt with, the token not yet given back;        *)
(* "done" the token is back, wg.Done() pending; "exited".                    *)

At(A) == {i \in Inputs : worker[i] \in A}

Calling  == {"embed", "check", "sleep", "ctxErr", "exhausted"}
Holding  == Calling \cup {"release"}
Live     == Holding \cup {"done"}
PCStates == Live \cup {"idle", "exited"}

PoolInit ==
    /\ next = 1
    /\ worker = [i \in Inputs |-> "idle"]
    /\ sem = 0
    /\ wg = 0
    /\ attempts = [i \in Inputs |-> 0]
    /\ embedded = {}
    /\ cancelled = FALSE
    /\ parentDone = FALSE
    /\ firstErr = NoErr
    /\ outcome = "none"

------------------------------------------------------------------------------
(* Faulty variants of the definitions below, one for each property: the      *)
(* mistake the property is there to catch.                                   *)

\* The semaphore admits one worker too many.
LaunchOffByOne ==
    /\ next \in Inputs
    /\ sem <= Workers
    /\ sem' = sem + 1
    /\ wg' = wg + 1
    /\ worker' = [worker EXCEPT ![next] = "embed"]
    /\ attempts' = [attempts EXCEPT ![next] = 1]
    /\ next' = next + 1
    /\ UNCHANGED <<embedded, cancelled, parentDone, firstErr, outcome>>

\* wg.Wait() is missing.
ReturnUnwaited ==
    /\ outcome = "none"
    /\ next = N + 1
    /\ outcome' = IF firstErr = NoErr THEN "results" ELSE "error"
    /\ UNCHANGED <<next, worker, sem, wg, attempts, embedded, cancelled,
                   parentDone, firstErr>>

\* "attempt > retries" instead of "attempt == retries".
AfterErrorOneMore(i) ==
    IF CtxDone THEN "ctxErr"
    ELSE IF attempts[i] > Retries + 1 THEN "exhausted"
    ELSE "sleep"

\* The child is cancelled where the error is seen, before errOnce records it.
CheckErrCancels(i) ==
    /\ worker[i] = "check"
    /\ worker' = [worker EXCEPT ![i] = IF CtxDone THEN "ctxErr"
                               ELSE IF attempts[i] = Retries + 1 THEN "exhausted"
                               ELSE "sleep"]
    /\ cancelled' = (cancelled \/ attempts[i] = Retries + 1)
    /\ UNCHANGED <<next, sem, wg, attempts, embedded, parentDone, firstErr,
                   outcome>>

\* errOnce records the error and does not cancel.
FailNoCancel(i) ==
    /\ worker[i] \in {"ctxErr", "exhausted"}
    /\ worker' = [worker EXCEPT ![i] = "release"]
    /\ firstErr' = IF firstErr = NoErr
                     THEN [kind |-> worker[i], chunk |-> i] ELSE firstErr
    /\ UNCHANGED <<next, sem, wg, attempts, embedded, cancelled, parentDone,
                   outcome>>

\* wg.Done() is called on the success path only instead of deferred.
ExitOnSuccessOnly(i) ==
    /\ worker[i] = "done"
    /\ worker' = [worker EXCEPT ![i] = "exited"]
    /\ wg' = IF i \in embedded THEN wg - 1 ELSE wg
    /\ UNCHANGED <<next, sem, attempts, embedded, cancelled, parentDone,
                   firstErr, outcome>>

------------------------------------------------------------------------------
(* The launcher.  Its select takes either branch when both are ready.        *)

\* case <-ctx.Done(): the input is passed over and its slot stays zero.
Skip ==
    /\ next \in Inputs
    /\ CtxDone
    /\ next' = next + 1
    /\ UNCHANGED <<worker, sem, wg, attempts, embedded, cancelled, parentDone,
                   firstErr, outcome>>

\* case sem <- struct{}{}: take a token, wg.Add(1), start the worker.
Launch ==
    /\ next \in Inputs
    /\ sem < Workers
    /\ sem' = sem + 1
    /\ wg' = wg + 1
    /\ worker' = [worker EXCEPT ![next] = "embed"]
    /\ attempts' = [attempts EXCEPT ![next] = 1]
    /\ next' = next + 1
    /\ UNCHANGED <<embedded, cancelled, parentDone, firstErr, outcome>>

\* wg.Wait() and the return; an empty input returns at once the same way.
Return ==
    /\ outcome = "none"
    /\ next = N + 1
    /\ wg = 0
    /\ outcome' = IF firstErr = NoErr THEN "results" ELSE "error"
    /\ UNCHANGED <<next, worker, sem, wg, attempts, embedded, cancelled,
                   parentDone, firstErr>>

------------------------------------------------------------------------------
(* The worker of chunk i.                                                    *)

\* embed returned a vector: fn returns it and the slot is filled.
EmbedOK(i) ==
    /\ worker[i] = "embed"
    /\ worker' = [worker EXCEPT ![i] = "release"]
    /\ embedded' = embedded \cup {i}
    /\ UNCHANGED <<next, sem, wg, attempts, cancelled, parentDone, firstErr,
                   outcome>>

\* embed returned an error, the provider's or its context's.
EmbedErr(i) ==
    /\ worker[i] = "embed"
    /\ worker' = [worker EXCEPT ![i] = "check"]
    /\ UNCHANGED <<next, sem, wg, attempts, embedded, cancelled, parentDone,
                   firstErr, outcome>>

\* What retryEmbed does with a failed attempt: a done context is permanent,
\* the last attempt is final, anything else waits before the next attempt.
AfterError(i) ==
    IF CtxDone THEN "ctxErr"
    ELSE IF attempts[i] = Retries + 1 THEN "exhausted"
    ELSE "sleep"

CheckErr(i) ==
    /\ worker[i] = "check"
    /\ worker' = [worker EXCEPT ![i] = AfterError(i)]
    /\ UNCHANGED <<next, sem, wg, attempts, embedded, cancelled, parentDone,
                   firstErr, outcome>>

\* The back-off timer fired: the loop makes the next attempt.
Wake(i) ==
    /\ worker[i] = "sleep"
    /\ worker' = [worker EXCEPT ![i] = "embed"]
    /\ attempts' = [attempts EXCEPT ![i] = @ + 1]
    /\ UNCHANGED <<next, sem, wg, embedded, cancelled, parentDone, firstErr,
                   outcome>>

\* The context ended the back-off.
SleepAborted(i) ==
    /\ worker[i] = "sleep"
    /\ CtxDone
    /\ worker' = [worker EXCEPT ![i] = "ctxErr"]
    /\ UNCHANGED <<next, sem, wg, attempts, embedded, cancelled, parentDone,
                   firstErr, outcome>>

\* errOnce.Do: only the first failing worker records its error and cancels.
Fail(i) ==
    /\ worker[i] \in {"ctxErr", "exhausted"}
    /\ worker' = [worker EXCEPT ![i] = "release"]
    /\ firstErr' = IF firstErr = NoErr
                     THEN [kind |-> worker[i], chunk |-> i] ELSE firstErr
    /\ cancelled' = TRUE
    /\ UNCHANGED <<next, sem, wg, attempts, embedded, parentDone, outcome>>

\* The deferred calls, last registered first: the token, then wg.Done().
Release(i) ==
    /\ worker[i] = "release"
    /\ worker' = [worker EXCEPT ![i] = "done"]
    /\ sem' = sem - 1
    /\ UNCHANGED <<next, wg, attempts, embedded, cancelled, parentDone,
                   firstErr, outcome>>

Exit(i) ==
    /\ worker[i] = "done"
    /\ worker' = [worker EXCEPT ![i] = "exited"]
    /\ wg' = wg - 1
    /\ UNCHANGED <<next, sem, attempts, embedded, cancelled, parentDone,
                   firstErr, outcome>>

------------------------------------------------------------------------------
\* The caller's deadline passes while mapOrdered runs.
ParentEnds ==
    /\ outcome = "none"
    /\ ~parentDone
    /\ parentDone' = TRUE
    /\ UNCHANGED <<next, worker, sem, wg, attempts, embedded, cancelled,
                   firstErr, outcome>>

\* mapOrdered has returned; nothing is left to run.
Returned == outcome # "none" /\ UNCHANGED poolVars

Launcher == Skip \/ Launch \/ Return

Worker(i) ==
    \/ EmbedOK(i) \/ EmbedErr(i) \/ CheckErr(i) \/ Wake(i)
    \/ SleepAborted(i) \/ Fail(i) \/ Release(i) \/ Exit(i)

PoolNext == Launcher \/ ParentEnds \/ Returned \/ \E i \in Inputs : Worker(i)

PoolSpec == PoolInit /\ [][PoolNext]_poolVars

(* The Go scheduler runs every goroutine that can run, and timers fire.      *)
(* Nothing obliges a provider to answer: an embed call is only sure to       *)
(* return once its context is done, because the HTTP request carries it.     *)
Scheduled(i) ==
    \/ CheckErr(i) \/ Wake(i) \/ SleepAborted(i) \/ Fail(i) \/ Release(i)
    \/ Exit(i)
    \/ CtxDone /\ EmbedErr(i)

Fairness == WF_poolVars(Launcher) /\ \A i \in Inputs : WF_poolVars(Scheduled(i))

\* No fairness on ParentEnds: the caller's context need not end.
PoolFairSpec == PoolSpec /\ Fairness

------------------------------------------------------------------------------
(* Properties.                                                               *)

\* The variables keep their types; in particular the semaphore never holds
\* more tokens than its capacity and no chunk is tried more than
\* retries + 1 times.
PoolTypeOK ==
    /\ next \in 1..(N + 1)
    /\ worker \in [Inputs -> PCStates]
    /\ sem \in 0..Workers
    /\ wg \in Nat
    /\ attempts \in [Inputs -> 0..(Retries + 1)]
    /\ embedded \subseteq Inputs
    /\ cancelled \in BOOLEAN
    /\ parentDone \in BOOLEAN
    /\ firstErr \in {NoErr} \cup [kind : {"ctxErr", "exhausted"}, chunk : Inputs]
    /\ outcome \in {"none", "results", "error"}

\* At most `workers` calls of fn are in progress at any moment ("with at most
\* workers running at once"), however launches, failures and releases mix.
WorkerBound == Cardinality(At(Calling)) <= Workers

\* The error mapOrdered reports is the cause, never a consequence of it: a
\* context error is reported only when the caller's own context ended, and
\* never because a sibling's failure cancelled the child; any other error
\* belongs to a chunk that used up every attempt.
ErrorIsRootCause ==
    firstErr # NoErr =>
        IF firstErr.kind = "ctxErr"
        THEN parentDone
        ELSE attempts[firstErr.chunk] = Retries + 1

\* mapOrdered keeps the contract its caller relies on: no result or error
\* appears after the return (it waits for every worker it started), and
\* results with an empty slot are returned only after the caller's context
\* ended.
Contract == INSTANCE EmbedContract
ImplementsContract == Contract!Spec

\* Once the deadline cmd/ingest always sets has passed, mapOrdered returns,
\* even if a provider never answers a single call.
Termination == parentDone ~> outcome # "none"

\* Once a chunk has failed for good the pool stops by itself, without any
\* deadline: the cancellation reaches the launcher, the sleeping workers and
\* the calls in flight.
ErrorStopsPool == firstErr # NoErr ~> outcome = "error"
==============================================================================
