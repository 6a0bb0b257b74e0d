------------------------------- MODULE PowMine -------------------------------
(***************************************************************************)
(* Worker.Mine (blockissuer/pow/worker.go): the goroutines of one proof of *)
(* work.  Every worker searches from its own start nonce, one goroutine    *)
(* waits for the context, and Mine waits for all workers before it closes  *)
(* the channels and takes a result.  Steps are the atomic operations the   *)
(* goroutines synchronise on.                                              *)
(***************************************************************************)
EXTENDS Integers, Sequences

CONSTANTS
    NumWorkers,     \* Worker.numWorkers
    MaxNonce        \* math.MaxUint64: nonces wrap around after it

ASSUME PowAssumption ==
    /\ NumWorkers \in Nat \ {0}
    /\ MaxNonce \in Nat

Worker == 0..(NumWorkers - 1)
Nonce == 0..MaxNonce

VARIABLES
    solutions,      \* the nonces with enough trailing zeros
    validTarget,    \* whether targetTrailingZeros <= MaxTrailingZeros
    canceled,       \* whether the context was canceled
    done,           \* the flag shared by the goroutines
    watcher,        \* the goroutine that waits for the context
    pc, nonce,      \* the workers: control state and next nonce
    results,        \* the buffered channel
    mine,           \* where Mine itself stands
    outcome         \* what Mine returned

vars == <<solutions, validTarget, canceled, done, watcher, pc, nonce, results, mine, outcome>>

NoOutcome == -3
ErrCanceled == -1

startNonce(i) == i * (MaxNonce \div NumWorkers)
Following(n) == (n + 1) % (MaxNonce + 1)

(* Mutant: an unbuffered result slot for all workers. *)
SingleCapacity == 1

(* The capacity of the channel `results'. *)
Capacity == NumWorkers

Init ==
    /\ solutions \in SUBSET Nonce
    /\ validTarget \in BOOLEAN
    /\ canceled = FALSE
    /\ done = FALSE
    /\ watcher = "waiting"
    /\ pc = [i \in Worker |-> "start"]
    /\ nonce = [i \in Worker |-> startNonce(i)]
    /\ results = <<>>
    /\ mine = "waiting"
    /\ outcome = NoOutcome

-----------------------------------------------------------------------------
(* The caller's context is canceled, at any moment. *)
CancelContext ==
    /\ ~canceled
    /\ canceled' = TRUE
    /\ UNCHANGED <<solutions, validTarget, done, watcher, pc, nonce, results, mine, outcome>>

(* The select of the watching goroutine: <-ctx.Done() or <-closing. *)
WatcherCancels ==
    /\ watcher = "waiting"
    /\ canceled
    /\ done' = TRUE
    /\ watcher' = "exited"
    /\ UNCHANGED <<solutions, validTarget, canceled, pc, nonce, results, mine, outcome>>

WatcherCloses ==
    /\ watcher = "waiting"
    /\ mine # "waiting"
    /\ watcher' = "exited"
    /\ UNCHANGED <<solutions, validTarget, canceled, done, pc, nonce, results, mine, outcome>>

-----------------------------------------------------------------------------
(* worker: refuse an impossible target. *)
StartWorker(i) ==
    /\ pc[i] = "start"
    /\ pc' = [pc EXCEPT ![i] = IF validTarget THEN "load" ELSE "finished"]
    /\ UNCHANGED <<solutions, validTarget, canceled, done, watcher, nonce, results, mine, outcome>>

(* Mutant: the loop ignores the flag. *)
LoadDoneIgnored(i) ==
    /\ pc[i] = "load"
    /\ pc' = [pc EXCEPT ![i] = "try"]
    /\ UNCHANGED <<solutions, validTarget, canceled, done, watcher, nonce, results, mine, outcome>>

(* worker: the loop condition; ErrDone ends the goroutine without result. *)
LoadDone(i) ==
    /\ pc[i] = "load"
    /\ pc' = [pc EXCEPT ![i] = IF done THEN "finished" ELSE "try"]
    /\ UNCHANGED <<solutions, validTarget, canceled, done, watcher, nonce, results, mine, outcome>>

(* worker: the loop body. *)
TryNonce(i) ==
    /\ pc[i] = "try"
    /\ IF nonce[i] \in solutions
       THEN pc' = [pc EXCEPT ![i] = "store"] /\ UNCHANGED nonce
       ELSE /\ pc' = [pc EXCEPT ![i] = "load"]
            /\ nonce' = [nonce EXCEPT ![i] = Following(@)]
    /\ UNCHANGED <<solutions, validTarget, canceled, done, watcher, results, mine, outcome>>

(* The goroutine of a successful worker: stop the others, then send. *)
StoreDone(i) ==
    /\ pc[i] = "store"
    /\ done' = TRUE
    /\ pc' = [pc EXCEPT ![i] = "send"]
    /\ UNCHANGED <<solutions, validTarget, canceled, watcher, nonce, results, mine, outcome>>

SendResult(i) ==
    /\ pc[i] = "send"
    /\ Len(results) < Capacity
    /\ results' = Append(results, nonce[i])
    /\ pc' = [pc EXCEPT ![i] = "finished"]
    /\ UNCHANGED <<solutions, validTarget, canceled, done, watcher, nonce, mine, outcome>>

-----------------------------------------------------------------------------
(* Mutant: the first result is taken for the end of all workers. *)
SomeWorkerDone == done \/ \A i \in Worker : pc[i] = "finished"

(* wg.Wait() returns. *)
WorkersDone == \A i \in Worker : pc[i] = "finished"

(* close(results) and close(closing). *)
CloseChannels ==
    /\ mine = "waiting"
    /\ WorkersDone
    /\ mine' = "closed"
    /\ UNCHANGED <<solutions, validTarget, canceled, done, watcher, pc, nonce, results, outcome>>

(* Receive from the closed channel: its first result, or none. *)
Return ==
    /\ mine = "closed"
    /\ mine' = "returned"
    /\ outcome' = IF results = <<>> THEN ErrCanceled ELSE Head(results)
    /\ UNCHANGED <<solutions, validTarget, canceled, done, watcher, pc, nonce, results>>

WorkerStep(i) ==
    StartWorker(i) \/ LoadDone(i) \/ TryNonce(i) \/ StoreDone(i) \/ SendResult(i)

Next ==
    \/ CancelContext
    \/ WatcherCancels \/ WatcherCloses
    \/ \E i \in Worker : WorkerStep(i)
    \/ CloseChannels \/ Return

(* The Go scheduler runs every goroutine that can take a step; nobody has  *)
(* to cancel the context.                                                  *)
Fairness ==
    /\ WF_vars(WatcherCancels \/ WatcherCloses)
    /\ \A i \in Worker : WF_vars(WorkerStep(i))
    /\ WF_vars(CloseChannels \/ Return)

Spec == Init /\ [][Next]_vars /\ Fairness

-----------------------------------------------------------------------------
(* Type correctness. *)
TypeOK ==
    /\ solutions \subseteq Nonce
    /\ validTarget \in BOOLEAN /\ canceled \in BOOLEAN /\ done \in BOOLEAN
    /\ watcher \in {"waiting", "exited"}
    /\ pc \in [Worker -> {"start", "load", "try", "store", "send", "finished"}]
    /\ nonce \in [Worker -> Nonce]
    /\ results \in Seq(Nonce)
    /\ mine \in {"waiting", "closed", "returned"}
    /\ outcome \in Nonce \cup {NoOutcome, ErrCanceled}

(* A nonce Mine returns meets the target. *)
NonceIsSolution == outcome \in Nonce => outcome \in solutions

(* Mine reports ErrCanceled only if the context was canceled or no nonce   *)
(* could be valid: a worker that stops because another one found a nonce   *)
(* never makes Mine miss that nonce.                                       *)
ErrCanceledHasReason == outcome = ErrCanceled => canceled \/ ~validTarget

(* What Mine returns is justified: a nonce by the hash, an error by the    *)
(* context or by the target.  That an invalid target is reported as        *)
(* ErrCanceled is what the code does, not what its docs say: the error     *)
(* that worker.go:19 keeps for it stays in the goroutine of the worker.    *)
ResultIsJustified == NonceIsSolution /\ ErrCanceledHasReason

(* What worker.go:13 says of the error: "ErrCanceled gets returned when    *)
(* the context for the PoW was canceled."                                  *)
CanceledOnlyIfCanceled == outcome = ErrCanceled => canceled

(* No worker sends after close(results), which would panic, or blocks on a *)
(* full channel, which would hang wg.Wait().                               *)
SendsAreSafe ==
    \A i \in Worker : pc[i] = "send" => mine = "waiting" /\ Len(results) < Capacity

(* Mine returns once the context is canceled, if there is a solution, and  *)
(* if the target is impossible.                                            *)
MineReturns == (canceled \/ solutions # {} \/ ~validTarget) ~> (mine = "returned")

(* The goroutine that waits for the context does not outlive Mine. *)
WatcherExits == (mine = "returned") ~> (watcher = "exited")

(* Mine ends, and leaves no goroutine behind. *)
MineEnds == MineReturns /\ WatcherExits
=============================================================================
