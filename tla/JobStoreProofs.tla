--------------------------- MODULE JobStoreProofs ---------------------------
(***************************************************************************)
(* Theorems of JobStore, for any jobs, workers, kinds and bounds.          *)
(*                                                                         *)
(*   TypeCorrect          the type invariant                               *)
(*   RowsConsistent       leases and retry times agree with states         *)
(*   PaidCallsExclusive   the row lock excludes a second paid call         *)
(*   ClaimsCurrent, AttemptsAreBounded, FinishedRowsStay,                  *)
(*   RowsImplementQueue   the same, and the refinement of JobQueue,        *)
(*                        while no lease expires under a live worker       *)
(*                                                                         *)
(* TypeOK is inductive. Every other invariant is proved inductive from the *)
(* ones before it.                                                         *)
(***************************************************************************)
EXTENDS JobStore, TLAPS

(* The initial state satisfies the type invariant. *)
LEMMA InitTypeOK == Init => TypeOK
  BY JobStoreAssumption DEF Init, TypeOK, Claimable, Working, Terminal

(* Every operation of jobs.py and runner.py, every crash and every expiry
   keeps the type invariant. *)
LEMMA NextTypeOK == TypeOK /\ [Next]_vars => TypeOK'
<1> SUFFICES ASSUME TypeOK, [Next]_vars PROVE TypeOK'
  OBVIOUS
<1> USE JobStoreAssumption DEF Claimable, Working, Terminal
<1>1. ASSUME NEW j \in Job, Enqueue(j) PROVE TypeOK'
  BY <1>1 DEF TypeOK, Enqueue, workerVars, countVars
<1>2. ASSUME NEW j \in Job, Requeue(j) PROVE TypeOK'
  BY <1>2 DEF TypeOK, Requeue, workerVars
<1>3. ASSUME NEW j \in Job, LeaseExpires(j) PROVE TypeOK'
  BY <1>3 DEF TypeOK, LeaseExpires, workerVars
<1>4. ASSUME NEW j \in Job, BackoffElapses(j) PROVE TypeOK'
  BY <1>4 DEF TypeOK, BackoffElapses, workerVars, countVars
<1>5. ASSUME NEW w \in Worker, NEW j \in Job, Claim(w, j) PROVE TypeOK'
  BY <1>5 DEF TypeOK, Claim, TakeLease, countVars
<1>6. ASSUME NEW w \in Worker, Begin(w) PROVE TypeOK'
  BY <1>6 DEF TypeOK, Begin, countVars
<1>7. ASSUME NEW w \in Worker, WriteRow(w) PROVE TypeOK'
  BY <1>7 DEF TypeOK, WriteRow, countVars
<1>8. ASSUME NEW w \in Worker, Raise(w) PROVE TypeOK'
  BY <1>8 DEF TypeOK, Raise, Unlock, countVars
<1>9. ASSUME NEW w \in Worker, NEW queued \in SUBSET Job, Commit(w, queued) PROVE TypeOK'
  BY <1>9 DEF TypeOK, Commit, Fresh, Reopenable, Rest
<1>10. ASSUME NEW w \in Worker, NEW retryable \in BOOLEAN, RecordFailure(w, retryable)
       PROVE TypeOK'
  BY <1>10 DEF TypeOK, RecordFailure, FailureState, RetryTime, Rest, countVars
<1>11. ASSUME NEW w \in Worker, Crash(w) PROVE TypeOK'
  BY <1>11 DEF TypeOK, Crash, Unlock, Rest
<1>12. ASSUME NEW w \in Worker, Reclaim(w) PROVE TypeOK'
  BY <1>12 DEF TypeOK, Reclaim, Expired, workerVars, countVars
<1>13. CASE UNCHANGED vars
  BY <1>13 DEF TypeOK, vars, rowVars, workerVars, countVars
<1>14. QED
  BY <1>1, <1>2, <1>3, <1>4, <1>5, <1>6, <1>7, <1>8, <1>9, <1>10, <1>11, <1>12, <1>13
     DEF Next

(* Type correctness of the rows, locks and workers. *)
THEOREM TypeCorrect == Spec => []TypeOK
  BY InitTypeOK, NextTypeOK, PTL DEF Spec

-----------------------------------------------------------------------------
(* A row that waits for nobody, or was never queued, has no retry time. *)
QuietRows == \A j \in Job :
    state[j] \in Terminal \cup {"pending", "absent"} => retryAt[j] = "null"

RowInv == WorkingRowIsRecoverable /\ QuietRows

(* Each action writes a state together with its lease and retry time. *)
LEMMA NextRowInv == TypeOK /\ RowInv /\ [Next]_vars => RowInv'
<1> SUFFICES ASSUME TypeOK, RowInv, [Next]_vars PROVE RowInv'
  OBVIOUS
<1> USE JobStoreAssumption
    DEF TypeOK, RowInv, WorkingRowIsRecoverable, QuietRows, Claimable, Working, Terminal
<1>1. ASSUME NEW j \in Job, Enqueue(j) PROVE RowInv'
  BY <1>1 DEF Enqueue
<1>2. ASSUME NEW j \in Job, Requeue(j) PROVE RowInv'
  BY <1>2 DEF Requeue
<1>3. ASSUME NEW j \in Job, LeaseExpires(j) PROVE RowInv'
  BY <1>3 DEF LeaseExpires
<1>4. ASSUME NEW j \in Job, BackoffElapses(j) PROVE RowInv'
  BY <1>4 DEF BackoffElapses
<1>5. ASSUME NEW w \in Worker, NEW j \in Job, Claim(w, j) PROVE RowInv'
  BY <1>5 DEF Claim, Runnable, TakeLease
<1>6. ASSUME NEW w \in Worker, Begin(w) PROVE RowInv'
  BY <1>6 DEF Begin
<1>7. ASSUME NEW w \in Worker, WriteRow(w) PROVE RowInv'
  BY <1>7 DEF WriteRow
<1>8. ASSUME NEW w \in Worker, Raise(w) PROVE RowInv'
  BY <1>8 DEF Raise
<1>9. ASSUME NEW w \in Worker, NEW queued \in SUBSET Job, Commit(w, queued) PROVE RowInv'
  BY <1>9 DEF Commit, Fresh, Reopenable
<1>10. ASSUME NEW w \in Worker, NEW retryable \in BOOLEAN, RecordFailure(w, retryable) PROVE RowInv'
  BY <1>10 DEF RecordFailure, FailureState, RetryTime
<1>11. ASSUME NEW w \in Worker, Crash(w) PROVE RowInv'
  BY <1>11 DEF Crash
<1>12. ASSUME NEW w \in Worker, Reclaim(w) PROVE RowInv'
  BY <1>12 DEF Reclaim, Expired
<1>13. CASE UNCHANGED vars
  BY <1>13 DEF vars, rowVars, workerVars, countVars
<1>14. QED
  BY <1>1, <1>2, <1>3, <1>4, <1>5, <1>6, <1>7, <1>8, <1>9, <1>10, <1>11, <1>12, <1>13
     DEF Next

(* A working row always has a lease that will run out, so it is never beyond
   the reach of both claim_job and reclaim_expired_leases; and a finished or
   pending row never carries a retry time. *)
THEOREM RowsConsistent == Spec => []RowsAgree
<1>1. Init => RowInv
  BY DEF Init, RowInv, WorkingRowIsRecoverable, QuietRows, Working
<1>2. RowInv => RowsAgree
  BY DEF RowInv, QuietRows, RowsAgree, FinishedRowIsQuiet
<1>3. QED
  BY <1>1, <1>2, TypeCorrect, NextRowInv, PTL DEF Spec

-----------------------------------------------------------------------------
(* The row lock belongs to the transaction that is working on the row, and a
   kind in LockFirst has it for the whole of its provider call. *)
LockInv ==
    /\ \A j \in Job, w \in Worker :
          writer[j] = w => cur[w] = j /\ pc[w] \in {"calling", "writing"}
    /\ \A w \in Worker : pc[w] = "writing" => writer[cur[w]] = w
    /\ \A w \in Worker :
          pc[w] = "calling" /\ KindOf[cur[w]] \in LockFirst => writer[cur[w]] = w

(* A row lock passes to one worker and goes with its transaction. *)
LEMMA NextLockInv == TypeOK /\ LockInv /\ [Next]_vars => LockInv'
<1> SUFFICES ASSUME TypeOK, LockInv, [Next]_vars PROVE LockInv'
  OBVIOUS
<1> USE JobStoreAssumption DEF TypeOK, LockInv
<1>1. ASSUME NEW j \in Job, Enqueue(j) PROVE LockInv'
  BY <1>1 DEF Enqueue, workerVars
<1>2. ASSUME NEW j \in Job, Requeue(j) PROVE LockInv'
  BY <1>2 DEF Requeue, workerVars
<1>3. ASSUME NEW j \in Job, LeaseExpires(j) PROVE LockInv'
  BY <1>3 DEF LeaseExpires, workerVars
<1>4. ASSUME NEW j \in Job, BackoffElapses(j) PROVE LockInv'
  BY <1>4 DEF BackoffElapses, workerVars
<1>5. ASSUME NEW w \in Worker, NEW j \in Job, Claim(w, j) PROVE LockInv'
  BY <1>5 DEF Claim
<1>6. ASSUME NEW w \in Worker, Begin(w) PROVE LockInv'
  BY <1>6 DEF Begin
<1>7. ASSUME NEW w \in Worker, WriteRow(w) PROVE LockInv'
  BY <1>7 DEF WriteRow
<1>8. ASSUME NEW w \in Worker, Raise(w) PROVE LockInv'
  BY <1>8 DEF Raise, Unlock
<1>9. ASSUME NEW w \in Worker, NEW queued \in SUBSET Job, Commit(w, queued) PROVE LockInv'
  BY <1>9 DEF Commit, Rest
<1>10. ASSUME NEW w \in Worker, NEW retryable \in BOOLEAN, RecordFailure(w, retryable) PROVE LockInv'
  BY <1>10 DEF RecordFailure, Rest
<1>11. ASSUME NEW w \in Worker, Crash(w) PROVE LockInv'
  BY <1>11 DEF Crash, Unlock, Rest
<1>12. ASSUME NEW w \in Worker, Reclaim(w) PROVE LockInv'
  BY <1>12 DEF Reclaim, workerVars
<1>13. CASE UNCHANGED vars
  BY <1>13 DEF vars, rowVars, workerVars, countVars
<1>14. QED
  BY <1>1, <1>2, <1>3, <1>4, <1>5, <1>6, <1>7, <1>8, <1>9, <1>10, <1>11, <1>12, <1>13
     DEF Next

(* Whatever leases do, no two workers are in the paid provider call of one
   job: each holds the row's lock during the call, and a lock has one holder. *)
THEOREM PaidCallsExclusive == Spec => []PaidCallExclusive
<1>1. Init => LockInv
  BY JobStoreAssumption DEF Init, LockInv
<1>2. TypeOK /\ LockInv => PaidCallExclusive
  BY DEF TypeOK, LockInv, PaidCallExclusive, LockFirst
<1>3. QED
  BY <1>1, <1>2, TypeCorrect, NextLockInv, PTL DEF Spec

-----------------------------------------------------------------------------
(* What holds while no lease runs out under a live worker. A busy worker's
   lease is held, so nobody can reclaim its job; its row is in a working
   state, so nobody can claim it; and nobody reopens a row that is not over. *)
ClaimInv == \A w \in Worker : pc[w] # "idle" =>
    /\ state[cur[w]] \in Working
    /\ lease[cur[w]] = "held"
    /\ attempts[cur[w]] = seen[w]
    /\ \A v \in Worker : cur[v] = cur[w] => v = w

(* Without overruns nobody writes a row that a busy worker claimed. *)
LEMMA NextClaimInv ==
    ASSUME MaxOverruns = 0, TypeOK, ClaimInv, [Next]_vars PROVE ClaimInv'
<1> USE JobStoreAssumption DEF TypeOK, ClaimInv, Claimable, Working, Terminal
<1>1. ASSUME NEW j \in Job, Enqueue(j) PROVE ClaimInv'
  BY <1>1 DEF Enqueue, workerVars
<1>2. ASSUME NEW j \in Job, Requeue(j) PROVE ClaimInv'
  BY <1>2 DEF Requeue, workerVars
<1>3. ASSUME NEW j \in Job, LeaseExpires(j) PROVE ClaimInv'
  BY <1>3 DEF LeaseExpires, workerVars, Held
<1>4. ASSUME NEW j \in Job, BackoffElapses(j) PROVE ClaimInv'
  BY <1>4 DEF BackoffElapses, workerVars
<1>5. ASSUME NEW w \in Worker, NEW j \in Job, Claim(w, j) PROVE ClaimInv'
  BY <1>5 DEF Claim, Runnable, TakeLease
<1>6. ASSUME NEW w \in Worker, Begin(w) PROVE ClaimInv'
  BY <1>6 DEF Begin
<1>7. ASSUME NEW w \in Worker, WriteRow(w) PROVE ClaimInv'
  BY <1>7 DEF WriteRow
<1>8. ASSUME NEW w \in Worker, Raise(w) PROVE ClaimInv'
  BY <1>8 DEF Raise
<1>9. ASSUME NEW w \in Worker, NEW queued \in SUBSET Job, Commit(w, queued) PROVE ClaimInv'
  BY <1>9 DEF Commit, Rest, Fresh, Reopenable
<1>10. ASSUME NEW w \in Worker, NEW retryable \in BOOLEAN, RecordFailure(w, retryable) PROVE ClaimInv'
  BY <1>10 DEF RecordFailure, Rest
<1>11. ASSUME NEW w \in Worker, Crash(w) PROVE ClaimInv'
  BY <1>11 DEF Crash, Rest
<1>12. ASSUME NEW w \in Worker, Reclaim(w) PROVE ClaimInv'
  BY <1>12 DEF Reclaim, workerVars, Expired
<1>13. CASE UNCHANGED vars
  BY <1>13 DEF vars, rowVars, workerVars, countVars
<1>14. QED
  BY <1>1, <1>2, <1>3, <1>4, <1>5, <1>6, <1>7, <1>8, <1>9, <1>10, <1>11, <1>12, <1>13
     DEF Next

(* While no lease runs out under a live worker, a claimed job has one worker
   and its row is as that worker claimed it, so fail_job, which trusts the
   attempts the claim returned, compares the row's own. *)
THEOREM ClaimsCurrent == MaxOverruns = 0 => (Spec => []ClaimIsCurrent)
<1> SUFFICES ASSUME MaxOverruns = 0 PROVE Spec => []ClaimIsCurrent
  OBVIOUS
<1>1. Init => ClaimInv
  BY DEF Init, ClaimInv
<1>2. ClaimInv => ClaimIsCurrent
  BY DEF ClaimInv, ClaimIsCurrent
<1>3. TypeOK /\ ClaimInv /\ [Next]_vars => ClaimInv'
  BY NextClaimInv
<1>4. QED
  BY <1>1, <1>2, <1>3, TypeCorrect, PTL DEF Spec

-----------------------------------------------------------------------------
(* The account of attempts: a job that is over or is being run may have used
   them all, and one more per crash; a job that waits to be claimed, or whose
   worker died, has one left. *)
LadderInv == \A j \in Job :
    /\ attempts[j] <= MaxAttempts + crashes[j]
    /\ state[j] \notin Terminal /\ ~Held(j) => attempts[j] < MaxAttempts + crashes[j]

(* Each claim but a crashed one uses up one of the attempts left. *)
LEMMA NextLadderInv ==
    ASSUME MaxOverruns = 0, TypeOK, ClaimInv, LadderInv, [Next]_vars PROVE LadderInv'
<1> USE JobStoreAssumption DEF TypeOK, ClaimInv, LadderInv, Held, Claimable, Working, Terminal
<1>1. ASSUME NEW j \in Job, Enqueue(j) PROVE LadderInv'
  BY <1>1 DEF Enqueue, workerVars, countVars
<1>2. ASSUME NEW j \in Job, Requeue(j) PROVE LadderInv'
  BY <1>2 DEF Requeue, workerVars
<1>3. ASSUME NEW j \in Job, LeaseExpires(j) PROVE LadderInv'
  BY <1>3 DEF LeaseExpires, workerVars
<1>4. ASSUME NEW j \in Job, BackoffElapses(j) PROVE LadderInv'
  BY <1>4 DEF BackoffElapses, workerVars, countVars
<1>5. ASSUME NEW w \in Worker, NEW j \in Job, Claim(w, j) PROVE LadderInv'
  BY <1>5 DEF Claim, Runnable, countVars
<1>6. ASSUME NEW w \in Worker, Begin(w) PROVE LadderInv'
  BY <1>6 DEF Begin, countVars
<1>7. ASSUME NEW w \in Worker, WriteRow(w) PROVE LadderInv'
  BY <1>7 DEF WriteRow, countVars
<1>8. ASSUME NEW w \in Worker, Raise(w) PROVE LadderInv'
  BY <1>8 DEF Raise, countVars
<1>9. ASSUME NEW w \in Worker, NEW queued \in SUBSET Job, Commit(w, queued) PROVE LadderInv'
  BY <1>9 DEF Commit, Rest, Fresh, Reopenable
<1>10. ASSUME NEW w \in Worker, NEW retryable \in BOOLEAN, RecordFailure(w, retryable) PROVE LadderInv'
  BY <1>10 DEF RecordFailure, Rest, FailureState, countVars
<1>11. ASSUME NEW w \in Worker, Crash(w) PROVE LadderInv'
  BY <1>11 DEF Crash, Rest
<1>12. ASSUME NEW w \in Worker, Reclaim(w) PROVE LadderInv'
  BY <1>12 DEF Reclaim, workerVars, countVars, Expired
<1>13. CASE UNCHANGED vars
  BY <1>13 DEF vars, rowVars, workerVars, countVars
<1>14. QED
  BY <1>1, <1>2, <1>3, <1>4, <1>5, <1>6, <1>7, <1>8, <1>9, <1>10, <1>11, <1>12, <1>13
     DEF Next

(* While no lease runs out under a live worker, a job is claimed at most
   MaxAttempts times plus once per worker killed while holding it. *)
THEOREM AttemptsAreBounded == MaxOverruns = 0 => (Spec => []AttemptsBounded)
<1> SUFFICES ASSUME MaxOverruns = 0 PROVE Spec => []AttemptsBounded
  OBVIOUS
<1>1. Init => ClaimInv /\ LadderInv
  BY JobStoreAssumption DEF Init, ClaimInv, LadderInv, Held
<1>2. LadderInv => AttemptsBounded
  BY DEF LadderInv, AttemptsBounded
<1>3. TypeOK /\ ClaimInv /\ LadderInv /\ [Next]_vars => ClaimInv' /\ LadderInv'
  BY NextClaimInv, NextLadderInv
<1>4. QED
  BY <1>1, <1>2, <1>3, TypeCorrect, PTL DEF Spec

-----------------------------------------------------------------------------
(* One step keeps a finished row finished, or queues it afresh. *)
StaysFinished == \A j \in Job :
    state[j] \in Terminal /\ state'[j] # state[j] => state'[j] = "pending" /\ attempts'[j] = 0

(* Only Reopen and Requeue write a finished row, and they queue it. *)
LEMMA NextStaysFinished ==
    ASSUME TypeOK, ClaimInv, [Next]_vars PROVE StaysFinished
<1> USE JobStoreAssumption DEF TypeOK, ClaimInv, StaysFinished, Claimable, Working, Terminal
<1>1. ASSUME NEW j \in Job, Enqueue(j) PROVE StaysFinished
  BY <1>1 DEF Enqueue
<1>2. ASSUME NEW j \in Job, Requeue(j) PROVE StaysFinished
  BY <1>2 DEF Requeue
<1>3. ASSUME NEW j \in Job, LeaseExpires(j) PROVE StaysFinished
  BY <1>3 DEF LeaseExpires
<1>4. ASSUME NEW j \in Job, BackoffElapses(j) PROVE StaysFinished
  BY <1>4 DEF BackoffElapses
<1>5. ASSUME NEW w \in Worker, NEW j \in Job, Claim(w, j) PROVE StaysFinished
  BY <1>5 DEF Claim, Runnable
<1>6. ASSUME NEW w \in Worker, Begin(w) PROVE StaysFinished
  BY <1>6 DEF Begin
<1>7. ASSUME NEW w \in Worker, WriteRow(w) PROVE StaysFinished
  BY <1>7 DEF WriteRow
<1>8. ASSUME NEW w \in Worker, Raise(w) PROVE StaysFinished
  BY <1>8 DEF Raise
<1>9. ASSUME NEW w \in Worker, NEW queued \in SUBSET Job, Commit(w, queued) PROVE StaysFinished
  BY <1>9 DEF Commit, Fresh, Reopenable
<1>10. ASSUME NEW w \in Worker, NEW retryable \in BOOLEAN, RecordFailure(w, retryable) PROVE StaysFinished
  BY <1>10 DEF RecordFailure
<1>11. ASSUME NEW w \in Worker, Crash(w) PROVE StaysFinished
  BY <1>11 DEF Crash
<1>12. ASSUME NEW w \in Worker, Reclaim(w) PROVE StaysFinished
  BY <1>12 DEF Reclaim, Expired
<1>13. CASE UNCHANGED vars
  BY <1>13 DEF vars, rowVars, workerVars, countVars
<1>14. QED
  BY <1>1, <1>2, <1>3, <1>4, <1>5, <1>6, <1>7, <1>8, <1>9, <1>10, <1>11, <1>12, <1>13
     DEF Next

(* While no lease runs out under a live worker, no late write of an earlier
   attempt revives or relabels a finished job. *)
THEOREM FinishedRowsStay == MaxOverruns = 0 => (Spec => FinishedStays)
<1> SUFFICES ASSUME MaxOverruns = 0 PROVE Spec => FinishedStays
  OBVIOUS
<1>1. Init => ClaimInv
  BY DEF Init, ClaimInv
<1>2. TypeOK /\ ClaimInv /\ [Next]_vars => ClaimInv'
  BY NextClaimInv
<1>3. TypeOK /\ ClaimInv /\ [Next]_vars => [StaysFinished]_vars
  BY NextStaysFinished
<1>4. QED
  BY <1>1, <1>2, <1>3, TypeCorrect, PTL DEF Spec, FinishedStays, StaysFinished

-----------------------------------------------------------------------------
(* The refinement. Under ClaimInv the owner of a job, which QueueOwner picks
   with CHOOSE, is the one worker that has it. *)
OwnerIs == \A j \in Job :
    /\ \A w \in Worker : cur[w] = j <=> QueueOwner[j] = w
    /\ ~Held(j) => QueueOwner[j] = NoWorker

(* The owner the mapping chooses is the one worker that is busy with the job. *)
LEMMA OwnerIsHolder == TypeOK /\ ClaimInv => OwnerIs
<1> SUFFICES ASSUME TypeOK, ClaimInv, NEW j \in Job
             PROVE /\ \A w \in Worker : cur[w] = j <=> QueueOwner[j] = w
                   /\ ~Held(j) => QueueOwner[j] = NoWorker
  BY DEF OwnerIs
<1> USE JobStoreAssumption DEF TypeOK, ClaimInv
<1>1. CASE ~Held(j)
  <2>1. QueueOwner[j] = NoWorker
    BY <1>1 DEF QueueOwner
  <2>2. QED
    BY <1>1, <2>1 DEF Held
<1>2. CASE Held(j)
  <2>1. PICK v \in Worker : cur[v] = j
    BY <1>2 DEF Held
  <2>2. pc[v] # "idle"
    BY <2>1
  <2>3. \A w \in Worker : cur[w] = j => w = v
    BY <2>1, <2>2
  <2>4. QueueOwner[j] = CHOOSE w \in Worker : cur[w] = j
    BY <1>2 DEF QueueOwner
  <2>5. QueueOwner[j] = v
    BY <2>1, <2>3, <2>4
  <2>6. QED
    BY <1>2, <2>1, <2>3, <2>5
<1>3. QED
  BY <1>1, <1>2

(* The mapped variables are functions with the domain Job. *)
MappedAreFunctions == /\ QueueStatus = [j \in Job |-> QueueStatus[j]]
                      /\ QueueOwner = [j \in Job |-> QueueOwner[j]]

(* The mapped variables are functions of the jobs. *)
LEMMA MappedDomains == MappedAreFunctions
  BY DEF MappedAreFunctions, QueueStatus, QueueOwner

(* The mapped status, case by case. *)
StatusIs == \A j \in Job :
    /\ state[j] \in Claimable => QueueStatus[j] = "queued"
    /\ state[j] \in Working => QueueStatus[j] = "running"
    /\ state[j] \in Terminal \cup {"absent"} => QueueStatus[j] = state[j]

(* The mapped status of a job, state by state. *)
LEMMA StatusByCase == StatusIs
<1> SUFFICES ASSUME NEW j \in Job
             PROVE /\ state[j] \in Claimable => QueueStatus[j] = "queued"
                   /\ state[j] \in Working => QueueStatus[j] = "running"
                   /\ state[j] \in Terminal \cup {"absent"} => QueueStatus[j] = state[j]
  BY DEF StatusIs
<1>1. state[j] \in Working => state[j] \notin Claimable
  BY DEF Working, Claimable
<1>2. state[j] \in Terminal \cup {"absent"} => state[j] \notin Claimable \cup Working
  BY DEF Working, Claimable, Terminal
<1>3. QED
  BY <1>1, <1>2, Zenon DEF QueueStatus

(* Absent rows are absent jobs. *)
LEMMA InitRefines == Init => Queue!QueueInit
<1> SUFFICES ASSUME Init PROVE Queue!QueueInit
  OBVIOUS
<1>1. \A j \in Job : ~Held(j)
  BY JobStoreAssumption DEF Init, Held
<1>2. QueueOwner = [j \in Job |-> NoWorker]
  BY <1>1 DEF QueueOwner
<1>3. QueueStatus = [j \in Job |-> "absent"]
  BY DEF Init, QueueStatus, Claimable, Working
<1>4. QED
  BY <1>2, <1>3 DEF Queue!QueueInit

(* Every step of a row or a worker is a step of the abstract queue or none. *)
LEMMA StepRefines ==
    ASSUME TypeOK, TypeOK', ClaimInv, ClaimInv', [Next]_vars
    PROVE  [Queue!QueueNext]_(Queue!queueVars)
<1>1. OwnerIs /\ OwnerIs'
  BY OwnerIsHolder, OwnerIsHolder, PTL
<1>2. StatusIs /\ StatusIs'
  BY StatusByCase, PTL
<1>3. MappedAreFunctions /\ MappedAreFunctions'
  BY MappedDomains, PTL
<1>4. cur' = cur => QueueOwner' = QueueOwner
  BY DEF QueueOwner, Held
<1>5. state' = state => QueueStatus' = QueueStatus
  BY DEF QueueStatus
<1>6. ASSUME NEW j \in Job, \A i \in Job \ {j} : state'[i] = state[i]
      PROVE \A i \in Job \ {j} : QueueStatus'[i] = QueueStatus[i]
  BY <1>6 DEF QueueStatus
<1>7. ASSUME NEW w \in Worker, \A v \in Worker \ {w} : cur'[v] = cur[v]
      PROVE \A i \in Job \ {cur[w], cur'[w]} : QueueOwner'[i] = QueueOwner[i]
  BY <1>1, <1>7 DEF OwnerIs, Held, TypeOK
<1> USE JobStoreAssumption DEF Claimable, Working, Terminal
<1>8. ASSUME NEW j \in Job, Enqueue(j) \/ Requeue(j) PROVE Queue!Submit(j)
  <2>1. QueueStatus[j] \in Terminal \cup {"absent"} /\ QueueStatus'[j] = "queued"
    BY <1>2, <1>8 DEF StatusIs, Enqueue, Requeue, TypeOK
  <2>2. \A i \in Job \ {j} : QueueStatus'[i] = QueueStatus[i]
    BY <1>6, <1>8 DEF Enqueue, Requeue, TypeOK
  <2>3. QueueStatus' = [QueueStatus EXCEPT ![j] = "queued"]
    BY <1>3, <2>1, <2>2 DEF MappedAreFunctions
  <2>4. QueueOwner' = QueueOwner
    BY <1>4, <1>8 DEF Enqueue, Requeue, workerVars
  <2>5. QED
    BY <2>1, <2>3, <2>4 DEF Queue!Submit, Queue!Outcome
<1>9. ASSUME NEW w \in Worker, NEW j \in Job, Claim(w, j) PROVE Queue!Take(j, w)
  <2>1. QueueStatus[j] = "queued" /\ QueueStatus'[j] = "running"
    BY <1>2, <1>9 DEF StatusIs, Claim, Runnable, TypeOK
  <2>2. \A i \in Job \ {j} : QueueStatus'[i] = QueueStatus[i]
    BY <1>6, <1>9 DEF Claim, TypeOK
  <2>3. QueueStatus' = [QueueStatus EXCEPT ![j] = "running"]
    BY <1>3, <2>1, <2>2 DEF MappedAreFunctions
  <2>4. cur[w] = NoJob /\ cur'[w] = j /\ \A v \in Worker \ {w} : cur'[v] = cur[v]
    BY <1>9 DEF Claim, TypeOK
  <2>5. \A i \in Job : QueueOwner[i] # w
    BY <1>1, <2>4 DEF OwnerIs
  <2>6. QueueOwner'[j] = w
    BY <1>1, <2>4 DEF OwnerIs
  <2>7. \A i \in Job \ {j} : QueueOwner'[i] = QueueOwner[i]
    BY <1>7, <2>4
  <2>8. QueueOwner' = [QueueOwner EXCEPT ![j] = w]
    BY <1>3, <2>6, <2>7 DEF MappedAreFunctions
  <2>9. QED
    BY <2>1, <2>3, <2>5, <2>8 DEF Queue!Take
(* A worker that had a job and has it no more leaves it without an owner. *)
<1>10. ASSUME NEW w \in Worker, cur[w] # NoJob, Rest(w)
       PROVE QueueOwner[cur[w]] = w /\ QueueOwner' = [QueueOwner EXCEPT ![cur[w]] = NoWorker]
  <2>1. cur[w] \in Job /\ QueueOwner[cur[w]] = w
    BY <1>1, <1>10 DEF OwnerIs, TypeOK
  <2>2. cur'[w] = NoJob /\ \A v \in Worker \ {w} : cur'[v] = cur[v]
    BY <1>10 DEF Rest, TypeOK
  <2>3. \A i \in Job \ {cur[w]} : QueueOwner'[i] = QueueOwner[i]
    BY <1>7, <2>2
  <2>4. \A v \in Worker : cur'[v] # cur[w]
    BY <1>10, <2>1, <2>2 DEF TypeOK, ClaimInv
  <2>5. QueueOwner'[cur[w]] = NoWorker
    BY <1>1, <2>1, <2>4 DEF OwnerIs, Held
  <2>6. QED
    BY <1>3, <2>1, <2>3, <2>5 DEF MappedAreFunctions
<1>11. ASSUME NEW w \in Worker, NEW queued \in SUBSET Job, Commit(w, queued)
       PROVE Queue!Settle(cur[w], w, "completed", Fresh(queued) \cup Reopenable(queued))
  <2> DEFINE more == Fresh(queued) \cup Reopenable(queued)
  <2>1. cur[w] \in Job /\ cur[w] # NoJob /\ Rest(w) /\ state[cur[w]] \in Working
    BY <1>11 DEF Commit, TypeOK, ClaimInv
  <2>2. \A i \in more : i \in Job /\ state[i] \in Terminal \cup {"absent"}
    BY DEF Fresh, Reopenable
  <2>3. \A i \in Job : state'[i] = IF i = cur[w] THEN "completed"
                                  ELSE IF i \in more THEN "pending" ELSE state[i]
    BY <1>11 DEF Commit
  <2> HIDE DEF more
  <2>4. QueueStatus[cur[w]] = "running" /\ QueueStatus'[cur[w]] = "completed"
    BY <1>2, <2>1, <2>3 DEF StatusIs
  <2>5. \A i \in more : QueueStatus[i] \in Terminal \cup {"absent"}
    BY <1>2, <2>2 DEF StatusIs
  <2>6. \A i \in Job \ {cur[w]} : QueueStatus'[i] = IF i \in more THEN "queued" ELSE QueueStatus[i]
    <3> SUFFICES ASSUME NEW i \in Job, i # cur[w]
                 PROVE QueueStatus'[i] = IF i \in more THEN "queued" ELSE QueueStatus[i]
      OBVIOUS
    <3>1. CASE i \in more
      BY <1>2, <2>3, <3>1 DEF StatusIs
    <3>2. CASE i \notin more
      <4>1. state'[i] = state[i]
        BY <2>3, <3>2
      <4>2. QED
        BY <3>2, <4>1 DEF QueueStatus
    <3>3. QED
      BY <3>1, <3>2
  <2>7. QueueStatus' = [i \in Job |-> IF i = cur[w] THEN "completed"
                                    ELSE IF i \in more THEN "queued" ELSE QueueStatus[i]]
    BY <1>3, <2>4, <2>6 DEF MappedAreFunctions
  <2>8. QED
    BY <1>10, <2>1, <2>4, <2>5, <2>7 DEF Queue!Settle, Queue!Outcome, more
<1>12. ASSUME NEW w \in Worker, NEW retryable \in BOOLEAN, RecordFailure(w, retryable)
       PROVE \E next \in Terminal \cup {"queued"} : Queue!Settle(cur[w], w, next, {})
  <2>1. cur[w] \in Job /\ cur[w] # NoJob /\ Rest(w) /\ state[cur[w]] \in Working
    BY <1>12 DEF RecordFailure, TypeOK, ClaimInv
  <2>2. state'[cur[w]] \in {"failed", "dead_letter", "retry_scheduled"}
    BY <1>12, <2>1 DEF RecordFailure, FailureState, TypeOK
  <2>3. \A i \in Job \ {cur[w]} : QueueStatus'[i] = QueueStatus[i]
    BY <1>6, <1>12, <2>1 DEF RecordFailure, TypeOK
  <2>4. QueueStatus[cur[w]] = "running" /\ QueueStatus'[cur[w]] \in Terminal \cup {"queued"}
    BY <1>2, <2>1, <2>2 DEF StatusIs
  <2>5. QueueStatus' = [i \in Job |-> IF i = cur[w] THEN QueueStatus'[cur[w]]
                                    ELSE IF i \in {} THEN "queued" ELSE QueueStatus[i]]
    BY <1>3, <2>3 DEF MappedAreFunctions
  <2>6. Queue!Settle(cur[w], w, QueueStatus'[cur[w]], {})
    BY <1>10, <2>1, <2>4, <2>5 DEF Queue!Settle, Queue!Outcome
  <2>7. QED
    BY <2>4, <2>6
<1>13. ASSUME NEW w \in Worker, Crash(w) PROVE Queue!Lose(cur[w])
  <2>1. cur[w] # NoJob /\ Rest(w) /\ QueueStatus' = QueueStatus
    BY <1>5, <1>13 DEF Crash, TypeOK
  <2>2. QED
    BY <1>10, <2>1 DEF Queue!Lose
<1>14. ASSUME NEW w \in Worker, Reclaim(w) PROVE Queue!Recover(Expired)
  <2>1. \A j \in Expired : j \in Job /\ ~Held(j) /\ state[j] \in Working
    BY DEF Expired, Held, TypeOK, ClaimInv
  <2>2. \A j \in Expired : QueueStatus[j] = "running" /\ QueueOwner[j] = NoWorker
    BY <1>1, <1>2, <2>1 DEF OwnerIs, StatusIs
  <2>3. \A j \in Job : state'[j] = IF j \in Expired THEN "retry_scheduled" ELSE state[j]
    BY <1>14 DEF Reclaim
  <2>4. \A j \in Expired : QueueStatus'[j] = "queued"
    BY <1>2, <2>1, <2>3 DEF StatusIs
  <2>5. \A j \in Job \ Expired : QueueStatus'[j] = QueueStatus[j]
    BY <2>3 DEF QueueStatus
  <2>6. QueueStatus' = [j \in Job |-> IF j \in Expired THEN "queued" ELSE QueueStatus[j]]
    BY <1>3, <2>4, <2>5 DEF MappedAreFunctions
  <2>7. QueueOwner' = QueueOwner
    BY <1>4, <1>14 DEF Reclaim, workerVars
  <2>8. QED
    BY <2>2, <2>6, <2>7 DEF Queue!Recover
(* Leases, retry times and a worker's progress are not visible in the queue. *)
<1>15. ASSUME state' = state, cur' = cur PROVE UNCHANGED Queue!queueVars
  BY <1>4, <1>5, <1>15 DEF Queue!queueVars
<1>16. ASSUME NEW j \in Job, LeaseExpires(j) \/ BackoffElapses(j) PROVE state' = state /\ cur' = cur
  BY <1>16 DEF LeaseExpires, BackoffElapses, workerVars
<1>17. ASSUME NEW w \in Worker, Begin(w) \/ WriteRow(w) \/ Raise(w)
       PROVE state' = state /\ cur' = cur
  BY <1>17 DEF Begin, WriteRow, Raise
<1>18. CASE UNCHANGED vars
  BY <1>15, <1>18 DEF vars, rowVars, workerVars
<1>19. CASE Next
  <2>1. ASSUME NEW w \in Worker, NEW queued \in SUBSET Job, Commit(w, queued)
        PROVE Queue!QueueNext
    <3>1. cur[w] \in Job /\ Fresh(queued) \cup Reopenable(queued) \in SUBSET Job
      BY <2>1 DEF Commit, TypeOK, Fresh, Reopenable
    <3>2. QED
      BY <1>11, <2>1, <3>1 DEF Queue!QueueNext, Queue!Outcome
  <2>2. ASSUME NEW w \in Worker, NEW retryable \in BOOLEAN, RecordFailure(w, retryable)
        PROVE Queue!QueueNext
    <3>1. cur[w] \in Job
      BY <2>2 DEF RecordFailure, TypeOK
    <3>2. QED
      BY <1>12, <2>2, <3>1 DEF Queue!QueueNext, Queue!Outcome
  <2>3. ASSUME NEW w \in Worker, Crash(w) PROVE Queue!QueueNext
    <3>1. cur[w] \in Job
      BY <2>3 DEF Crash, TypeOK
    <3>2. QED
      BY <1>13, <2>3, <3>1 DEF Queue!QueueNext
  <2>4. ASSUME NEW w \in Worker, Reclaim(w) PROVE Queue!QueueNext
    BY <1>14, <2>4 DEF Queue!QueueNext, Expired
  <2>5. ASSUME NEW w \in Worker, NEW j \in Job, Claim(w, j) PROVE Queue!QueueNext
    BY <1>9, <2>5 DEF Queue!QueueNext
  <2>6. ASSUME NEW j \in Job, Enqueue(j) \/ Requeue(j) PROVE Queue!QueueNext
    BY <1>8, <2>6 DEF Queue!QueueNext
  <2>7. QED
    BY <1>15, <1>16, <1>17, <1>19, <2>1, <2>2, <2>3, <2>4, <2>5, <2>6 DEF Next
<1>20. QED
  BY <1>18, <1>19

(* While no lease runs out under a live worker, the rows and transactions of
   jobs.py and runner.py implement the abstract queue: at most one worker per
   job, nothing lost with a worker, and only the owner ends a job. *)
THEOREM RowsImplementQueue == MaxOverruns = 0 => (Spec => ImplementsQueue)
<1> SUFFICES ASSUME MaxOverruns = 0 PROVE Spec => ImplementsQueue
  OBVIOUS
<1>1. Init => ClaimInv /\ Queue!QueueInit
  BY InitRefines DEF Init, ClaimInv
<1>2. TypeOK /\ ClaimInv /\ [Next]_vars => ClaimInv'
  BY NextClaimInv
<1>3. TypeOK /\ TypeOK' /\ ClaimInv /\ ClaimInv' /\ [Next]_vars
        => [Queue!QueueNext]_(Queue!queueVars)
  BY StepRefines
<1>4. QED
  BY <1>1, <1>2, <1>3, TypeCorrect, PTL DEF Spec, ImplementsQueue, Queue!QueueSpec
=============================================================================
