------------------------------ MODULE JobStore ------------------------------
(***************************************************************************)
(* The durable jobs table of one organisation and the worker processes     *)
(* that share it: apps/worker/src/jutsu_worker/jobs.py (the rows) and      *)
(* runner.py (the transactions around them).                               *)
(*                                                                         *)
(* A worker runs a claimed job in separate database transactions:          *)
(*                                                                         *)
(*    Claim          tx 1: attempts + 1, lease set, committed at once      *)
(*    Begin .. Commit  tx 2: the work, ended by complete_job               *)
(*    RecordFailure  tx 3: only when tx 2 raised and was rolled back       *)
(*                                                                         *)
(* state, attempts, retryAt and lease are the COMMITTED columns of a row.  *)
(* What tx 2 writes to its own row is visible to nobody until it commits,  *)
(* but from its first write it holds the row's lock (writer[j]): an UPDATE *)
(* of another transaction waits for it and claim_job skips the row.        *)
(*                                                                         *)
(* Time is abstracted to what SQL compares with now(): a lease is held or  *)
(* expired, a retry is in the future or due.                               *)
(***************************************************************************)
EXTENDS Naturals

CONSTANTS
    Job,            \* the idempotency keys: one row each, at most
    Worker,         \* worker processes (drains of this organisation)
    NoJob, NoWorker,
    KindOf,         \* the kind of each job
    Follows,        \* the jobs a job's work transaction may queue
    MaxAttempts,    \* DEFAULT_MAX_ATTEMPTS
    MaxCrashes,     \* bound: workers killed while holding a given job
    MaxOverruns,    \* bound: leases of a given job that expire under a live worker
    MaxReopens      \* bound: times a given finished job is queued again

VARIABLES
    state, attempts, retryAt, lease,    \* the committed row of each job
    writer,                             \* the transaction that locks the row
    pc, cur, seen,                      \* each worker: stage, job, job.attempts as claimed
    crashes, overruns, reopens          \* counters of what the bounds limit

rowVars == <<state, attempts, retryAt, lease, writer>>
workerVars == <<pc, cur, seen>>
countVars == <<crashes, overruns, reopens>>
vars == <<rowVars, workerVars, countVars>>

Kind == {"connector.sync", "ingest.source", "ingest.document",
         "embed.document", "extract.document", "graph.document"}

(* Defect: the state write moved after the provider call. *)
LockNone == {}

(* run_embedding_job writes its own row (record_state) before the provider
   call; every other handler writes it only after its slow part. *)
LockFirst == {"embed.document"}

(* Kinds an earlier stage reopens once completed (reopen_completed_job), and
   kinds a click, an upload or the nightly schedule requeues whatever their
   outcome was. *)
ReopenedByStage == {"ingest.source", "ingest.document", "graph.document"}

ReopenedOnRequest == {"connector.sync", "ingest.source", "ingest.document"}

Claimable == {"pending", "retry_scheduled"}
Terminal == {"completed", "failed", "dead_letter"}
(* Every working state but `fetching' is written and overwritten inside one
   work transaction, so this is the only one another transaction can see. *)
Working == {"fetching"}

ASSUME JobStoreAssumption ==
    /\ NoJob \notin Job
    /\ NoWorker \notin Worker
    /\ KindOf \in [Job -> Kind]
    /\ Follows \in [Job -> SUBSET Job]
    /\ \A j \in Job : j \notin Follows[j]
    /\ MaxAttempts \in Nat \ {0}
    /\ {MaxCrashes, MaxOverruns, MaxReopens} \subseteq Nat

Init == /\ state = [j \in Job |-> "absent"]
        /\ attempts = [j \in Job |-> 0]
        /\ retryAt = [j \in Job |-> "null"]
        /\ lease = [j \in Job |-> "null"]
        /\ writer = [j \in Job |-> NoWorker]
        /\ pc = [w \in Worker |-> "idle"]
        /\ cur = [w \in Worker |-> NoJob]
        /\ seen = [w \in Worker |-> 0]
        /\ crashes = [j \in Job |-> 0]
        /\ overruns = [j \in Job |-> 0]
        /\ reopens = [j \in Job |-> 0]

-----------------------------------------------------------------------------
(* Queueing work. *)

(* A click, an upload or the nightly schedule queues a job it has not queued
   before; ON CONFLICT DO NOTHING makes a second insert of a key a no-op. *)
Enqueue(j) == /\ KindOf[j] \in ReopenedOnRequest
              /\ state[j] = "absent"
              /\ state' = [state EXCEPT ![j] = "pending"]
              /\ UNCHANGED <<attempts, retryAt, lease, writer, workerVars, countVars>>

(* The same statements' second half: a finished row is opened again, whatever
   its outcome. The UPDATE waits for the row's lock and looks at the state the
   holder leaves; a job queued or in flight is left alone. *)
Requeue(j) ==
    /\ KindOf[j] \in ReopenedOnRequest
    /\ reopens[j] < MaxReopens
    /\ state[j] \in Terminal
    /\ writer[j] = NoWorker
    /\ state' = [state EXCEPT ![j] = "pending"]
    /\ attempts' = [attempts EXCEPT ![j] = 0]
    /\ retryAt' = [retryAt EXCEPT ![j] = "null"]
    /\ lease' = [lease EXCEPT ![j] = "null"]
    /\ reopens' = [reopens EXCEPT ![j] = @ + 1]
    /\ UNCHANGED <<writer, workerVars, crashes, overruns>>

-----------------------------------------------------------------------------
(* The worker's transactions. *)

Runnable(j) == /\ state[j] \in Claimable
               /\ retryAt[j] # "future"
               /\ lease[j] # "held"
               /\ writer[j] = NoWorker      \* SKIP LOCKED

(* Defect: a claim that forgets the lease. *)
NoLease(j) == UNCHANGED lease

TakeLease(j) == lease' = [lease EXCEPT ![j] = "held"]

(* claim_job, in a transaction of its own. A claim by kind takes the oldest
   runnable row and a dispatched claim the named one: any runnable job. *)
Claim(w, j) ==
    /\ pc[w] = "idle"
    /\ Runnable(j)
    /\ state' = [state EXCEPT ![j] = "fetching"]
    /\ attempts' = [attempts EXCEPT ![j] = @ + 1]
    /\ TakeLease(j)
    /\ pc' = [pc EXCEPT ![w] = "claimed"]
    /\ cur' = [cur EXCEPT ![w] = j]
    /\ seen' = [seen EXCEPT ![w] = attempts[j] + 1]
    /\ UNCHANGED <<retryAt, writer, countVars>>

(* The work transaction reaches its slow part: a walk of the source, a fetch,
   a provider call. The kinds in LockFirst have written the row by then. *)
Begin(w) ==
    LET j == cur[w] IN
    /\ pc[w] = "claimed"
    /\ pc' = [pc EXCEPT ![w] = "calling"]
    /\ IF KindOf[j] \in LockFirst
         THEN writer[j] = NoWorker /\ writer' = [writer EXCEPT ![j] = w]
         ELSE UNCHANGED writer
    /\ UNCHANGED <<state, attempts, retryAt, lease, cur, seen, countVars>>

(* The slow part returned; the next statement writes the row (record_state or
   complete_job), so from here the transaction holds its lock. *)
WriteRow(w) ==
    LET j == cur[w] IN
    /\ pc[w] = "calling"
    /\ writer[j] \in {NoWorker, w}
    /\ writer' = [writer EXCEPT ![j] = w]
    /\ pc' = [pc EXCEPT ![w] = "writing"]
    /\ UNCHANGED <<state, attempts, retryAt, lease, cur, seen, countVars>>

Rest(w) == /\ pc' = [pc EXCEPT ![w] = "idle"]
           /\ cur' = [cur EXCEPT ![w] = NoJob]
           /\ seen' = [seen EXCEPT ![w] = 0]

(* Of the jobs a stage queues: those never queued before (enqueue_job), and
   those it opens again, which must be completed (reopen_completed_job). *)
Fresh(queued) == {i \in queued : state[i] = "absent"}

(* Defect: reopening looks at the key alone. *)
ReopenableUnfinished(queued) ==
    {i \in queued : /\ state[i] # "absent" /\ KindOf[i] \in ReopenedByStage
                    /\ reopens[i] < MaxReopens}

Reopenable(queued) ==
    {i \in queued : /\ state[i] = "completed" /\ KindOf[i] \in ReopenedByStage
                    /\ reopens[i] < MaxReopens}

(* complete_job and the commit that ends the work transaction, which also
   publishes the next stage's jobs. *)
Commit(w, queued) ==
    LET j == cur[w]
        again == Reopenable(queued)
        cleared == again \cup {j}
    IN
    /\ pc[w] = "writing"
    /\ queued \subseteq Follows[j]
    /\ \A i \in again : writer[i] = NoWorker
    /\ state' = [i \in Job |-> IF i = j THEN "completed"
                              ELSE IF i \in Fresh(queued) \cup again THEN "pending"
                              ELSE state[i]]
    /\ attempts' = [i \in Job |-> IF i \in again THEN 0 ELSE attempts[i]]
    /\ retryAt' = [i \in Job |-> IF i \in cleared THEN "null" ELSE retryAt[i]]
    /\ lease' = [i \in Job |-> IF i \in cleared THEN "null" ELSE lease[i]]
    /\ reopens' = [i \in Job |-> IF i \in again THEN reopens[i] + 1 ELSE reopens[i]]
    /\ writer' = [writer EXCEPT ![j] = NoWorker]
    /\ Rest(w)
    /\ UNCHANGED <<crashes, overruns>>

Unlock(w) == writer' = [j \in Job |-> IF writer[j] = w THEN NoWorker ELSE writer[j]]

(* An exception: the work transaction is rolled back, its lock with it. *)
Raise(w) ==
    /\ pc[w] \in {"claimed", "calling", "writing"}
    /\ pc' = [pc EXCEPT ![w] = "failing"]
    /\ Unlock(w)
    /\ UNCHANGED <<state, attempts, retryAt, lease, cur, seen, countVars>>

(* Defects: no ladder; the failure's kind stored as the row's state. *)
FailureStateUnbounded(w, retryable) ==
    IF retryable THEN "retry_scheduled" ELSE "failed"

FailureStateIsKind(w, retryable) ==
    IF retryable THEN "retry_scheduled" ELSE "provider_permanent"

(* fail_job's three outcomes. It trusts the attempts the claim returned. *)
FailureState(w, retryable) ==
    CASE ~retryable -> "failed"
      [] retryable /\ seen[w] >= MaxAttempts -> "dead_letter"
      [] OTHER -> "retry_scheduled"

RetryTime(next) == IF next = "retry_scheduled" THEN "future" ELSE "null"

(* record_failure, in a transaction of its own. *)
RecordFailure(w, retryable) ==
    LET j == cur[w]
        next == FailureState(w, retryable)
    IN
    /\ pc[w] = "failing"
    /\ writer[j] = NoWorker
    /\ state' = [state EXCEPT ![j] = next]
    /\ retryAt' = [retryAt EXCEPT ![j] = RetryTime(next)]
    /\ lease' = [lease EXCEPT ![j] = "null"]
    /\ Rest(w)
    /\ UNCHANGED <<attempts, writer, countVars>>

-----------------------------------------------------------------------------
(* Crashes and their recovery. *)

(* The process is killed: an open transaction is rolled back, and the row
   keeps whatever the last committed transaction left on it. *)
Crash(w) ==
    LET j == cur[w] IN
    /\ pc[w] # "idle"
    /\ crashes[j] < MaxCrashes
    /\ crashes' = [crashes EXCEPT ![j] = @ + 1]
    /\ Unlock(w)
    /\ Rest(w)
    /\ UNCHANGED <<state, attempts, retryAt, lease, overruns, reopens>>

(* Defect: a lease is taken back before it runs out. *)
InWork == {j \in Job : state[j] \in Working}

Expired == {j \in Job : state[j] \in Working /\ lease[j] = "expired"}

(* reclaim_expired_leases: one UPDATE over every expired row, which waits for
   the locks of all of them. *)
Reclaim(w) ==
    /\ pc[w] = "idle"
    /\ Expired # {}
    /\ \A j \in Expired : writer[j] = NoWorker
    /\ state' = [j \in Job |-> IF j \in Expired THEN "retry_scheduled" ELSE state[j]]
    /\ retryAt' = [j \in Job |-> IF j \in Expired THEN "null" ELSE retryAt[j]]
    /\ lease' = [j \in Job |-> IF j \in Expired THEN "null" ELSE lease[j]]
    /\ UNCHANGED <<attempts, writer, workerVars, countVars>>

Held(j) == \E w \in Worker : cur[w] = j

(* DEFAULT_LEASE_SECONDS pass. Nothing in runner.py extends a lease, so one
   may also run out while its worker is still busy: an overrun. *)
LeaseExpires(j) ==
    /\ lease[j] = "held"
    /\ lease' = [lease EXCEPT ![j] = "expired"]
    /\ IF Held(j)
         THEN overruns[j] < MaxOverruns /\ overruns' = [overruns EXCEPT ![j] = @ + 1]
         ELSE UNCHANGED overruns
    /\ UNCHANGED <<state, attempts, retryAt, writer, workerVars, crashes, reopens>>

BackoffElapses(j) ==
    /\ retryAt[j] = "future"
    /\ retryAt' = [retryAt EXCEPT ![j] = "past"]
    /\ UNCHANGED <<state, attempts, lease, writer, workerVars, countVars>>

-----------------------------------------------------------------------------
Next ==
    \/ \E j \in Job : Enqueue(j) \/ Requeue(j)
    \/ \E j \in Job : LeaseExpires(j) \/ BackoffElapses(j)
    \/ \E w \in Worker, j \in Job : Claim(w, j)
    \/ \E w \in Worker : Begin(w) \/ WriteRow(w) \/ Raise(w)
    \/ \E w \in Worker, queued \in SUBSET Job : Commit(w, queued)
    \/ \E w \in Worker, retryable \in BOOLEAN : RecordFailure(w, retryable)
    \/ \E w \in Worker : Crash(w) \/ Reclaim(w)

Spec == Init /\ [][Next]_vars

(* A live process goes on: drains are rung again, calls return or time out,
   clocks advance. Nobody has to enqueue, reopen or crash. *)
Fairness ==
    /\ \A j \in Job : /\ WF_vars(LeaseExpires(j))
                      /\ WF_vars(BackoffElapses(j))
                      /\ WF_vars(\E w \in Worker : Claim(w, j))
    /\ \A w \in Worker : /\ WF_vars(Begin(w))
                         /\ WF_vars(WriteRow(w) \/ Raise(w))
                         /\ WF_vars(Raise(w) \/ \E queued \in SUBSET Job : Commit(w, queued))
                         /\ WF_vars(\E retryable \in BOOLEAN : RecordFailure(w, retryable))
    /\ WF_vars(\E w \in Worker : Reclaim(w))

FairSpec == Spec /\ Fairness

-----------------------------------------------------------------------------
(* Properties. *)

(* Types: the columns, the lock and the workers' local variables. *)
TypeOK ==
    /\ state \in [Job -> {"absent"} \cup Claimable \cup Working \cup Terminal]
    /\ attempts \in [Job -> Nat]
    /\ retryAt \in [Job -> {"null", "future", "past"}]
    /\ lease \in [Job -> {"null", "held", "expired"}]
    /\ writer \in [Job -> Worker \cup {NoWorker}]
    /\ pc \in [Worker -> {"idle", "claimed", "calling", "writing", "failing"}]
    /\ cur \in [Worker -> Job \cup {NoJob}]
    /\ \A w \in Worker : cur[w] = NoJob <=> pc[w] = "idle"
    /\ seen \in [Worker -> Nat]
    /\ crashes \in [Job -> Nat]
    /\ overruns \in [Job -> Nat]
    /\ reopens \in [Job -> Nat]

(* Whatever the clock does, two workers are never inside the provider call of
   one embedding job: the row lock taken before the call, not the lease, is
   what protects the spend (reclaim_expired_leases' docstring). *)
PaidCallExclusive ==
    \A v, w \in Worker :
        (pc[v] = "calling" /\ pc[w] = "calling" /\ cur[v] = cur[w]
            /\ KindOf[cur[v]] = "embed.document") => v = w

(* A row nobody can claim is one whose lease will run out: a working row
   without a lease would be invisible to claim_job and to
   reclaim_expired_leases alike, and so lost for ever. *)
WorkingRowIsRecoverable ==
    \A j \in Job : state[j] \in Working <=> lease[j] # "null"

(* A finished job has nothing pending on it: no retry time a later claim
   would wait for or the drain would ring for. *)
FinishedRowIsQuiet ==
    \A j \in Job : state[j] \in Terminal \cup {"pending"} => retryAt[j] = "null"

(* What the clocks on a row say agrees with its state. *)
RowsAgree == WorkingRowIsRecoverable /\ FinishedRowIsQuiet

(* While no lease runs out under a live worker, the worker that runs a job is
   the only one and the row still says what the claim said: so the attempts
   fail_job compares with the maximum are the row's own. *)
ClaimIsCurrent ==
    \A w \in Worker : LET j == cur[w] IN
        pc[w] # "idle" =>
            /\ state[j] \in Working
            /\ attempts[j] = seen[w]
            /\ \A v \in Worker : cur[v] = j => v = w

(* Every claim of a job beyond the ladder's MaxAttempts is paid for by a
   worker that was killed while holding it. *)
AttemptsBounded == \A j \in Job : attempts[j] <= MaxAttempts + crashes[j]

(* A running worker holds the row for the whole job, so a live job cannot be
   taken (reclaim_expired_leases' docstring, of every kind). *)
LiveJobNotTaken ==
    \A v, w \in Worker :
        (pc[v] = "calling" /\ pc[w] = "calling" /\ cur[v] = cur[w]) => v = w

(* A finished job leaves its outcome only to be queued afresh, attempts reset:
   no late write of an earlier attempt revives or relabels it. *)
FinishedStays ==
    [][\A j \in Job : state[j] \in Terminal /\ state'[j] # state[j]
            => state'[j] = "pending" /\ attempts'[j] = 0]_vars

(* Every queued job is eventually over, through retries and crashes. *)
EveryJobSettles ==
    \A j \in Job : (state[j] # "absent") ~> (state[j] \in Terminal)

-----------------------------------------------------------------------------
(* The refinement of JobQueue, for runs without overruns. *)

QueueStatus == [j \in Job |-> CASE state[j] \in Claimable -> "queued"
                                [] state[j] \in Working -> "running"
                                [] OTHER -> state[j]]

QueueOwner == [j \in Job |-> IF Held(j) THEN CHOOSE w \in Worker : cur[w] = j
                                        ELSE NoWorker]

Queue == INSTANCE JobQueue WITH status <- QueueStatus, owner <- QueueOwner

ImplementsQueue == Queue!QueueSpec
=============================================================================
