---------------------------- MODULE PowMineProofs ----------------------------
(***************************************************************************)
(* Worker.Mine is safe for any number of workers and any range of nonces.  *)
(***************************************************************************)
EXTENDS PowMine, FiniteSetTheorems, TLAPS

Finished == {i \in Worker : pc[i] = "finished"}

(* Whatever is sent, or about to be, has enough trailing zeros. *)
SolutionsOnly ==
    /\ \A k \in 1..Len(results) : results[k] \in solutions
    /\ \A i \in Worker : pc[i] \in {"store", "send"} => nonce[i] \in solutions

(* Workers end early only because of the flag, and the flag is set by the  *)
(* context or by a worker whose nonce is sent or about to be.              *)
FlagIsJustified ==
    /\ \A i \in Worker : pc[i] = "send" => done
    /\ validTarget => \A i \in Worker : pc[i] = "finished" => done
    /\ done => canceled \/ results # <<>> \/ \E i \in Worker : pc[i] = "send"

(* Mine waits for all workers, and each of them sends at most once. *)
WaitsForAll == mine # "waiting" => WorkersDone
OneResultEach == Len(results) <= Cardinality(Finished)

MineInv ==
    /\ TypeOK /\ SolutionsOnly /\ FlagIsJustified /\ WaitsForAll /\ OneResultEach
    /\ ResultIsJustified

-----------------------------------------------------------------------------
(* The workers start inside the range of nonces. *)
LEMMA StartNonceInRange ==
    ASSUME NEW i \in Worker
    PROVE  startNonce(i) \in Nonce
<1> DEFINE q == MaxNonce \div NumWorkers
<1>1. i \in Nat /\ i <= NumWorkers - 1 /\ NumWorkers \in Nat \ {0} /\ MaxNonce \in Nat
  BY PowAssumption DEF Worker
<1>2. q \in Nat /\ NumWorkers * q <= MaxNonce
  BY <1>1, SMTT(30)
<1> HIDE DEF q
<1>3. i * q \in Nat /\ i * q <= NumWorkers * q
  BY <1>1, <1>2, SMTT(30)
<1>4. NumWorkers * q \in Nat
  BY <1>1, <1>2
<1>5. i * q <= MaxNonce
  BY <1>1, <1>2, <1>3, <1>4
<1> QED
  BY <1>1, <1>3, <1>5 DEF startNonce, Nonce, q

(* The nonce wraps around at the end of the range. *)
LEMMA FollowingInRange ==
    ASSUME NEW n \in Nonce
    PROVE  Following(n) \in Nonce
  BY PowAssumption DEF Following, Nonce

LEMMA WorkersFinite ==
    /\ IsFiniteSet(Worker) /\ Cardinality(Worker) = NumWorkers
    /\ IsFiniteSet(Finished) /\ Cardinality(Finished) \in Nat
    /\ 0 \in Worker
<1>1. IsFiniteSet(Worker) /\ Cardinality(Worker) = NumWorkers
  BY PowAssumption, FS_Interval DEF Worker
<1>2. IsFiniteSet(Finished)
  BY <1>1, FS_Subset DEF Finished
<1> QED
  BY <1>1, <1>2, FS_CardinalityType, PowAssumption DEF Worker

(* As long as a worker runs, not all of them have sent. *)
LEMMA UnfinishedLeavesRoom ==
    ASSUME OneResultEach, TypeOK, NEW i \in Worker, pc[i] # "finished"
    PROVE  Len(results) < Capacity
<1>1. Finished \subseteq Worker /\ Finished # Worker
  BY DEF Finished
<1>2. Cardinality(Finished) < NumWorkers
  <2>1. /\ Cardinality(Finished) <= Cardinality(Worker)
        /\ Cardinality(Worker) # Cardinality(Finished)
    BY <1>1, WorkersFinite, FS_Subset
  <2> QED
    BY <2>1, WorkersFinite, PowAssumption
<1>3. Len(results) \in Nat
  BY DEF TypeOK
<1> QED
  BY <1>2, <1>3, WorkersFinite, PowAssumption DEF OneResultEach, Capacity

(* A worker that finishes is one more. *)
LEMMA OneMoreFinished ==
    ASSUME TypeOK, NEW i \in Worker, pc[i] # "finished", pc' = [pc EXCEPT ![i] = "finished"]
    PROVE  Cardinality(Finished') = Cardinality(Finished) + 1
<1>1. Finished' = Finished \cup {i} /\ i \notin Finished
  BY DEF Finished, TypeOK
<1> QED
  BY <1>1, WorkersFinite, FS_AddElement

(* A worker that goes on leaves the others where they are. *)
LEMMA SameFinished ==
    ASSUME TypeOK, NEW i \in Worker, NEW l, pc[i] # "finished", l # "finished",
           pc' = [pc EXCEPT ![i] = l]
    PROVE  Finished' = Finished
  BY DEF Finished, TypeOK

-----------------------------------------------------------------------------
LEMMA InitMine == Init => MineInv
<1> SUFFICES ASSUME Init PROVE MineInv
  OBVIOUS
<1>1. TypeOK
  <2>1. nonce \in [Worker -> Nonce]
    BY StartNonceInRange DEF Init
  <2>2. results \in Seq(Nonce)
    BY DEF Init
  <2> QED
    BY <2>1, <2>2 DEF Init, TypeOK
<1>2. Len(results) = 0
  BY DEF Init
<1>3. OneResultEach
  BY <1>2, WorkersFinite DEF OneResultEach
<1>4. SolutionsOnly /\ FlagIsJustified /\ WaitsForAll
  BY <1>2 DEF Init, SolutionsOnly, FlagIsJustified, WaitsForAll
<1>5. ResultIsJustified
  BY PowAssumption
  DEF Init, ResultIsJustified, NonceIsSolution, ErrCanceledHasReason, NoOutcome, ErrCanceled, Nonce
<1> QED
  BY <1>1, <1>3, <1>4, <1>5 DEF MineInv

(* A step of a worker that is not finished, so that Mine still waits. *)
LEMMA WorkerKeepsInv ==
    ASSUME MineInv, NEW i \in Worker, WorkerStep(i)
    PROVE  MineInv'
<1>1. /\ TypeOK /\ pc[i] # "finished"
      /\ solutions' = solutions /\ validTarget' = validTarget /\ canceled' = canceled
      /\ watcher' = watcher /\ mine' = mine /\ outcome' = outcome
  BY DEF MineInv, WorkerStep, StartWorker, LoadDone, TryNonce, StoreDone, SendResult
<1>2. mine = "waiting"
  BY <1>1 DEF MineInv, WaitsForAll, WorkersDone
<1>3. WaitsForAll' /\ ResultIsJustified'
  BY <1>1, <1>2
  DEF MineInv, WaitsForAll, ResultIsJustified, NonceIsSolution, ErrCanceledHasReason
<1>4. CASE StartWorker(i)
  <2>1. TypeOK'
    BY <1>1, <1>4 DEF StartWorker, TypeOK
  <2>2. SolutionsOnly' /\ FlagIsJustified'
    BY <1>1, <1>4 DEF StartWorker, MineInv, TypeOK, SolutionsOnly, FlagIsJustified
  <2>3. OneResultEach'
    <3>1. CASE validTarget
      BY <1>1, <1>4, <3>1, SameFinished DEF StartWorker, MineInv, OneResultEach
    <3>2. CASE ~validTarget
      <4>1. Cardinality(Finished') = Cardinality(Finished) + 1 /\ results' = results
        BY <1>1, <1>4, <3>2, OneMoreFinished DEF StartWorker
      <4> QED
        BY <1>1, <4>1, WorkersFinite DEF MineInv, OneResultEach, TypeOK
    <3> QED
      BY <3>1, <3>2
  <2> QED
    BY <1>3, <2>1, <2>2, <2>3 DEF MineInv
<1>5. CASE LoadDone(i)
  <2>1. TypeOK'
    BY <1>1, <1>5 DEF LoadDone, TypeOK
  <2>2. SolutionsOnly' /\ FlagIsJustified'
    BY <1>1, <1>5 DEF LoadDone, MineInv, TypeOK, SolutionsOnly, FlagIsJustified
  <2>3. OneResultEach'
    <3>1. CASE ~done
      BY <1>1, <1>5, <3>1, SameFinished DEF LoadDone, MineInv, OneResultEach
    <3>2. CASE done
      <4>1. Cardinality(Finished') = Cardinality(Finished) + 1 /\ results' = results
        BY <1>1, <1>5, <3>2, OneMoreFinished DEF LoadDone
      <4> QED
        BY <1>1, <4>1, WorkersFinite DEF MineInv, OneResultEach, TypeOK
    <3> QED
      BY <3>1, <3>2
  <2> QED
    BY <1>3, <2>1, <2>2, <2>3 DEF MineInv
<1>6. CASE TryNonce(i)
  <2>1. TypeOK'
    BY <1>1, <1>6, FollowingInRange DEF TryNonce, TypeOK
  <2>2. SolutionsOnly' /\ FlagIsJustified'
    BY <1>1, <1>6 DEF TryNonce, MineInv, TypeOK, SolutionsOnly, FlagIsJustified
  <2>3. Finished' = Finished /\ results' = results
    BY <1>1, <1>6, SameFinished DEF TryNonce
  <2> QED
    BY <1>3, <2>1, <2>2, <2>3 DEF MineInv, OneResultEach
<1>7. CASE StoreDone(i)
  <2>1. TypeOK'
    BY <1>1, <1>7 DEF StoreDone, TypeOK
  <2>2. SolutionsOnly' /\ FlagIsJustified'
    BY <1>1, <1>7 DEF StoreDone, MineInv, TypeOK, SolutionsOnly, FlagIsJustified
  <2>3. Finished' = Finished /\ results' = results
    BY <1>1, <1>7, SameFinished DEF StoreDone
  <2> QED
    BY <1>3, <2>1, <2>2, <2>3 DEF MineInv, OneResultEach
<1>8. CASE SendResult(i)
  <2>1. /\ pc' = [pc EXCEPT ![i] = "finished"] /\ results' = Append(results, nonce[i])
        /\ done' = done /\ nonce' = nonce /\ pc[i] = "send"
    BY <1>8 DEF SendResult
  <2>2. nonce[i] \in Nonce /\ nonce[i] \in solutions /\ done
    BY <2>1 DEF MineInv, TypeOK, SolutionsOnly, FlagIsJustified
  <2>3. /\ results' \in Seq(Nonce) /\ Len(results') = Len(results) + 1 /\ results' # <<>>
        /\ \A k \in 1..Len(results') :
              results'[k] = IF k = Len(results) + 1 THEN nonce[i] ELSE results[k]
    BY <1>1, <2>1, <2>2 DEF TypeOK
  <2>4. TypeOK'
    BY <1>1, <2>1, <2>3 DEF TypeOK
  <2>5. SolutionsOnly'
    <3>1. \A k \in 1..Len(results') : results'[k] \in solutions
      BY <1>1, <2>2, <2>3 DEF MineInv, SolutionsOnly, TypeOK
    <3>2. \A j \in Worker : pc'[j] \in {"store", "send"} => nonce'[j] \in solutions
      BY <1>1, <2>1 DEF MineInv, SolutionsOnly, TypeOK
    <3> QED
      BY <1>1, <3>1, <3>2 DEF SolutionsOnly
  <2>6. FlagIsJustified'
    BY <1>1, <2>1, <2>2, <2>3 DEF MineInv, FlagIsJustified, TypeOK
  <2>7. OneResultEach'
    <3>1. Cardinality(Finished') = Cardinality(Finished) + 1
      BY <1>1, <2>1, OneMoreFinished
    <3> QED
      BY <1>1, <2>3, <3>1, WorkersFinite DEF MineInv, OneResultEach, TypeOK
  <2> QED
    BY <1>3, <2>4, <2>5, <2>6, <2>7 DEF MineInv
<1> QED
  BY <1>4, <1>5, <1>6, <1>7, <1>8 DEF WorkerStep

(* What Mine takes from the closed channel. *)
LEMMA ReturnKeepsInv ==
    ASSUME MineInv, Return
    PROVE  MineInv'
<1>1. /\ UNCHANGED <<solutions, validTarget, canceled, done, watcher, pc, nonce, results>>
      /\ mine = "closed" /\ mine' = "returned"
      /\ outcome' = IF results = <<>> THEN ErrCanceled ELSE Head(results)
  BY DEF Return
<1>2. results # <<>> => Head(results) \in Nonce /\ Head(results) \in solutions
  <2> SUFFICES ASSUME results # <<>> PROVE Head(results) \in Nonce /\ Head(results) \in solutions
    OBVIOUS
  <2>1. results \in Seq(Nonce) /\ 1 \in 1..Len(results) /\ Head(results) = results[1]
    BY DEF MineInv, TypeOK
  <2> QED
    BY <2>1 DEF MineInv, SolutionsOnly
<1>3. results = <<>> => canceled \/ ~validTarget
  <2> SUFFICES ASSUME results = <<>>, validTarget PROVE canceled
    OBVIOUS
  <2>1. \A i \in Worker : pc[i] = "finished"
    BY <1>1 DEF MineInv, WaitsForAll, WorkersDone
  <2>2. done
    BY <2>1, WorkersFinite DEF MineInv, FlagIsJustified
  <2> QED
    BY <2>1, <2>2 DEF MineInv, FlagIsJustified
<1>4. TypeOK'
  BY <1>1, <1>2 DEF MineInv, TypeOK
<1>5. ResultIsJustified'
  <2>1. ErrCanceled \notin Nonce
    BY PowAssumption DEF ErrCanceled, Nonce
  <2> QED
    BY <1>1, <1>2, <1>3, <2>1
    DEF MineInv, ResultIsJustified, NonceIsSolution, ErrCanceledHasReason
<1>6. Finished' = Finished
  BY <1>1 DEF Finished
<1> QED
  BY <1>1, <1>4, <1>5, <1>6
  DEF MineInv, SolutionsOnly, FlagIsJustified, WaitsForAll, WorkersDone, OneResultEach

LEMMA OthersKeepInv ==
    ASSUME MineInv,
           CancelContext \/ WatcherCancels \/ WatcherCloses \/ CloseChannels \/ UNCHANGED vars
    PROVE  MineInv'
<1> USE DEF MineInv
<1>1. /\ UNCHANGED <<solutions, validTarget, pc, nonce, results, outcome>>
      /\ canceled => canceled'
  BY DEF CancelContext, WatcherCancels, WatcherCloses, CloseChannels, vars
<1>2. TypeOK'
  BY DEF TypeOK, CancelContext, WatcherCancels, WatcherCloses, CloseChannels, vars
<1>3. Finished' = Finished
  BY <1>1 DEF Finished
<1>4. SolutionsOnly' /\ OneResultEach'
  BY <1>1, <1>3 DEF SolutionsOnly, OneResultEach
<1>5. FlagIsJustified'
  BY <1>1
  DEF FlagIsJustified, CancelContext, WatcherCancels, WatcherCloses, CloseChannels, vars
<1>6. WaitsForAll'
  BY <1>1
  DEF WaitsForAll, WorkersDone, CancelContext, WatcherCancels, WatcherCloses, CloseChannels, vars
<1>7. ResultIsJustified'
  BY <1>1 DEF ResultIsJustified, NonceIsSolution, ErrCanceledHasReason
<1> QED
  BY <1>2, <1>4, <1>5, <1>6, <1>7

-----------------------------------------------------------------------------
(* The inductive invariant of the goroutines of Worker.Mine. *)
THEOREM MineIsInvariant == Spec => []MineInv
<1>1. MineInv /\ [Next]_vars => MineInv'
  BY WorkerKeepsInv, ReturnKeepsInv, OthersKeepInv DEF Next
<1> QED
  BY InitMine, <1>1, PTL DEF Spec

(* The goroutines of Worker.Mine keep the types of what they share. *)
THEOREM MineTypeCorrect == Spec => []TypeOK
  BY MineIsInvariant, PTL DEF MineInv

(* A nonce that Mine returns meets the target, and Mine says ErrCanceled   *)
(* only after the context was canceled or for an impossible target: a      *)
(* worker that stops for another one never makes Mine miss the nonce.      *)
THEOREM ResultsAreJustified == Spec => []ResultIsJustified
  BY MineIsInvariant, PTL DEF MineInv

(* No worker sends on the closed channel or blocks on a full one, since    *)
(* Mine closes it after the last worker, and each worker sends once.       *)
THEOREM SendsNeverPanicOrBlock == Spec => []SendsAreSafe
<1>1. MineInv => SendsAreSafe
  BY UnfinishedLeavesRoom DEF MineInv, SendsAreSafe, WaitsForAll, WorkersDone
<1> QED
  BY <1>1, MineIsInvariant, PTL
=============================================================================
