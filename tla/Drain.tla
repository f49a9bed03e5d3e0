------------------------------- MODULE Drain --------------------------------
(*****************************************************************************)
(* Who runs the jobs: the doorbell that wakes a worker for an organisation   *)
(* (packages/core doorbell.py, the API's queue.py), the drain loop           *)
(* (runner.py drain_org) and the decision to ring again (drain.py, http.py). *)
(* It composes JobStore: every change of a job row is a JobStore action.     *)
(*                                                                           *)
(* A bell is a Cloud Tasks task that has not been answered 200 yet. Tasks of *)
(* one bucket and window share a name, and a task fires after its window     *)
(* closes, so a ring that finds the name taken is covered by a task that has *)
(* not fired: per bucket there is a bell or there is none.                   *)
(*****************************************************************************)
EXTENDS JobStore

CONSTANTS
    NoBell,
    MaxKills,       \* bound: drains killed
    MaxLost         \* bound: rings the transport refuses

VARIABLES
    bells,          \* tasks waiting to be delivered
    task,           \* the task each worker process is answering
    phase,          \* where the drain it runs has got to
    tried,          \* the place of the last kind this pass of the loop found empty
    ran,            \* whether the drain has claimed anything (progressed)
    counted,        \* what the report's first two queries found
    asking,         \* the job of a request whose ring is out, commit pending
    embedder,       \* whether an embedding provider is configured
    kills, lost

drainVars == <<bells, task, phase, tried, ran, counted, asking, embedder, kills, lost>>
allVars == <<vars, drainVars>>

Bell == {"api", "now", "retry", "lease"}

ASSUME DrainAssumption ==
    /\ NoBell \notin Bell
    /\ {MaxKills, MaxLost} \subseteq Nat
    /\ MaxKills <= MaxCrashes

NothingCounted == [claimable |-> FALSE, retries |-> FALSE, past |-> {}, expired |-> {}]

DrainInit == /\ Init
             /\ bells = {}
             /\ task = [w \in Worker |-> NoBell]
             /\ phase = [w \in Worker |-> "off"]
             /\ tried = [w \in Worker |-> 0]
             /\ ran = [w \in Worker |-> FALSE]
             /\ counted = [w \in Worker |-> NothingCounted]
             /\ asking = NoJob
             /\ embedder \in BOOLEAN
             /\ kills = 0
             /\ lost = 0

-----------------------------------------------------------------------------
(* The doorbell. *)

(* CloudTasksDoorbell.ring: a new task, a coalesced one, or a refusal that the
   caller logs and forgets. *)
Ring(b, heard) == IF heard THEN bells' = bells \cup {b} /\ UNCHANGED lost
                           ELSE lost < MaxLost /\ lost' = lost + 1 /\ UNCHANGED bells

(* A request that queues a job rings before its transaction commits, which
   happens in the framework's teardown after the handler returns. *)
Ask(j, heard) ==
    /\ asking = NoJob
    /\ KindOf[j] \in ReopenedOnRequest
    /\ state[j] = "absent" \/ (state[j] \in Terminal /\ reopens[j] < MaxReopens)
    /\ asking' = j
    /\ Ring("api", heard)
    /\ UNCHANGED <<vars, task, phase, tried, ran, counted, embedder, kills>>

CommitAsk ==
    /\ asking # NoJob
    /\ \/ Enqueue(asking)
       \/ Requeue(asking)
       \/ state[asking] \in Claimable \cup Working /\ UNCHANGED vars
    /\ asking' = NoJob
    /\ UNCHANGED <<bells, task, phase, tried, ran, counted, embedder, kills, lost>>

(* Work a drain of this deployment would take up, were it run. *)
Unfinished(j) == /\ state[j] \in Claimable \cup Working
                 /\ KindOf[j] = "embed.document" => embedder

Quiet == /\ bells = {}
         /\ asking = NoJob
         /\ \A w \in Worker : phase[w] = "off"

(* A sign-in, the Jobs page, another request: a doorbell unrelated to the work
   that waits. Only the silence it would break is of interest. *)
LaterBell == /\ Quiet
             /\ \E j \in Job : Unfinished(j)
             /\ bells' = {"api"}
             /\ UNCHANGED <<vars, task, phase, tried, ran, counted, asking, embedder, kills, lost>>

-----------------------------------------------------------------------------
(* One drain. *)

(* An API ring is deferred past the commit it announces. *)
Deferred(b) == b = "api" /\ asking # NoJob

Deliver(w, b) ==
    /\ phase[w] = "off"
    /\ b \in bells
    /\ ~Deferred(b)
    /\ bells' = bells \ {b}
    /\ task' = [task EXCEPT ![w] = b]
    /\ phase' = [phase EXCEPT ![w] = "reclaim"]
    /\ UNCHANGED <<vars, tried, ran, counted, asking, embedder, kills, lost>>

(* Defect: the drain leaves expired leases to the walk. *)
NoSweep(w) == UNCHANGED vars

Sweep(w) == IF Expired = {} THEN UNCHANGED vars ELSE Reclaim(w)

DrainReclaim(w) ==
    /\ phase[w] = "reclaim"
    /\ Sweep(w)
    /\ phase' = [phase EXCEPT ![w] = "loop"]
    /\ UNCHANGED <<bells, task, tried, ran, counted, asking, embedder, kills, lost>>

(* The order of the loop. *)
Place == [k \in Kind |-> CASE k = "connector.sync" -> 1
                           [] k = "ingest.source" -> 2
                           [] k = "ingest.document" -> 3
                           [] k = "embed.document" -> 4
                           [] k = "extract.document" -> 5
                           [] k = "graph.document" -> 6]

(* Kinds no job of the instance has are left out, and embedding is skipped when
   no provider is configured. *)
Stages == {k \in Kind : /\ \E j \in Job : KindOf[j] = k
                        /\ k = "embed.document" => embedder}

(* What is left of the pass. *)
Ahead(w) == {k \in Stages : Place[k] > tried[w]}

InLoop(w) == phase[w] = "loop" /\ pc[w] = "idle"

(* process_* of the next kind: a claim starts the pass again, an empty queue
   moves on to the next kind. *)
TryKind(w) ==
    /\ InLoop(w)
    /\ \E k \in Ahead(w) :
         /\ \A l \in Ahead(w) : Place[k] <= Place[l]
         /\ LET ready == {j \in Job : Runnable(j) /\ KindOf[j] = k} IN
              IF ready # {}
                THEN /\ \E j \in ready : Claim(w, j)
                     /\ ran' = [ran EXCEPT ![w] = TRUE]
                     /\ tried' = [tried EXCEPT ![w] = 0]
                ELSE /\ tried' = [tried EXCEPT ![w] = Place[k]]
                     /\ UNCHANGED <<vars, ran>>
    /\ UNCHANGED <<bells, task, phase, counted, asking, embedder, kills, lost>>

(* The loop ends when a pass finds nothing, or between jobs when max_seconds
   or max_jobs is reached. *)
LeaveLoop(w) ==
    /\ InLoop(w)
    /\ Ahead(w) = {} \/ (tried[w] = 0 /\ ran[w])
    /\ phase' = [phase EXCEPT ![w] = "claimable"]
    /\ tried' = [tried EXCEPT ![w] = 0]
    /\ UNCHANGED <<vars, bells, task, ran, counted, asking, embedder, kills, lost>>

(* The job the drain runs goes through JobStore's transactions. *)
Work(w) ==
    /\ phase[w] = "loop"
    /\ \/ Begin(w) \/ WriteRow(w) \/ Raise(w)
       \/ \E queued \in SUBSET Job : Commit(w, queued)
       \/ \E retryable \in BOOLEAN : RecordFailure(w, retryable)
    /\ UNCHANGED drainVars

(* drain_and_report: three queries of one transaction. Each sees the rows of
   its own moment, but now() stays where the transaction began: times that
   were not over then (past, expired) are not over for the later queries. *)
ClaimableNow(j) == \/ state[j] = "pending"
                   \/ state[j] = "retry_scheduled" /\ retryAt[j] = "past"

CountClaimable(w) ==
    /\ phase[w] = "claimable"
    /\ counted' = [counted EXCEPT ![w] = [claimable |-> \E j \in Job : ClaimableNow(j),
                                          retries |-> FALSE,
                                          past |-> {j \in Job : retryAt[j] = "past"},
                                          expired |-> {j \in Job : lease[j] = "expired"}]]
    /\ phase' = [phase EXCEPT ![w] = "retries"]
    /\ UNCHANGED <<vars, bells, task, tried, ran, asking, embedder, kills, lost>>

RetryWaiting(w, j) ==
    /\ state[j] = "retry_scheduled"
    /\ retryAt[j] = "future" \/ (retryAt[j] = "past" /\ j \notin counted[w].past)

CountRetries(w) ==
    /\ phase[w] = "retries"
    /\ counted' = [counted EXCEPT ![w].retries = \E j \in Job : RetryWaiting(w, j)]
    /\ phase' = [phase EXCEPT ![w] = "report"]
    /\ UNCHANGED <<vars, bells, task, tried, ran, asking, embedder, kills, lost>>

LeaseHeld(w) ==
    \E j \in Job : /\ state[j] \in Working
                   /\ lease[j] = "held" \/ (lease[j] = "expired" /\ j \notin counted[w].expired)

(* Defects: a follow-up for leftovers whether or not this drain did anything;
   no follow-up for a retry, which no enqueue will ring for. *)
FollowUpAlways(w) ==
    IF counted[w].claimable THEN "now"
    ELSE IF counted[w].retries THEN "retry"
    ELSE IF LeaseHeld(w) THEN "lease" ELSE NoBell

FollowUpNoRetry(w) ==
    IF counted[w].claimable /\ ran[w] THEN "now"
    ELSE IF LeaseHeld(w) THEN "lease" ELSE NoBell

FollowUp(w) ==
    IF counted[w].claimable /\ ran[w] THEN "now"
    ELSE IF counted[w].retries THEN "retry"
    ELSE IF LeaseHeld(w) THEN "lease" ELSE NoBell

(* The drain is over and with it everything it remembered. *)
HangUp(w) == /\ phase' = [phase EXCEPT ![w] = "off"]
             /\ task' = [task EXCEPT ![w] = NoBell]
             /\ tried' = [tried EXCEPT ![w] = 0]
             /\ ran' = [ran EXCEPT ![w] = FALSE]
             /\ counted' = [counted EXCEPT ![w] = NothingCounted]

(* The third query, the decision, the ring and the 200 that ends the task. *)
Report(w, heard) ==
    /\ phase[w] = "report"
    /\ IF FollowUp(w) = NoBell THEN UNCHANGED <<bells, lost>> ELSE Ring(FollowUp(w), heard)
    /\ HangUp(w)
    /\ UNCHANGED <<vars, asking, embedder, kills>>

(* The process is killed, in a job or between jobs. A task that was not
   answered 200 is delivered again. *)
Kill(w) ==
    /\ phase[w] # "off"
    /\ kills < MaxKills
    /\ kills' = kills + 1
    /\ IF pc[w] = "idle" THEN UNCHANGED vars ELSE Crash(w)
    /\ bells' = bells \cup {task[w]}
    /\ HangUp(w)
    /\ UNCHANGED <<asking, embedder, lost>>

Clock(j) == (LeaseExpires(j) \/ BackoffElapses(j)) /\ UNCHANGED drainVars

DrainNext ==
    \/ \E j \in Job, heard \in BOOLEAN : Ask(j, heard)
    \/ CommitAsk \/ LaterBell
    \/ \E w \in Worker, b \in Bell : Deliver(w, b)
    \/ \E w \in Worker : DrainReclaim(w) \/ TryKind(w) \/ LeaveLoop(w) \/ Work(w)
    \/ \E w \in Worker : CountClaimable(w) \/ CountRetries(w) \/ Kill(w)
    \/ \E w \in Worker, heard \in BOOLEAN : Report(w, heard)
    \/ \E j \in Job : Clock(j)

DrainSpec == DrainInit /\ [][DrainNext]_allVars

(* A process that is not killed goes on, a task is delivered at last, clocks
   advance, a request's transaction ends; and where everything is silent,
   somebody eventually signs in. *)
DrainFairness ==
    /\ WF_allVars(CommitAsk) /\ WF_allVars(LaterBell)
    /\ \A b \in Bell : WF_allVars(\E w \in Worker : Deliver(w, b))
    /\ \A w \in Worker :
         /\ WF_allVars(DrainReclaim(w))
         /\ WF_allVars(TryKind(w) \/ LeaveLoop(w))
         /\ WF_allVars(Work(w))
         /\ WF_allVars(CountClaimable(w) \/ CountRetries(w))
         /\ WF_allVars(\E heard \in BOOLEAN : Report(w, heard))
    /\ \A j \in Job : /\ WF_allVars(LeaseExpires(j) /\ UNCHANGED drainVars)
                      /\ WF_allVars(BackoffElapses(j) /\ UNCHANGED drainVars)

FairDrainSpec == DrainSpec /\ DrainFairness

-----------------------------------------------------------------------------
(* Properties. *)

(* When nobody is going to ring and no ring was refused, unfinished work is
   work whose worker was killed while holding it, or a retry whose backoff ran
   out between the loop's last look and the count: an enqueue, a fresh retry, a
   deadline or a second drain never strands a job. *)
SilenceExplained ==
    Quiet /\ lost = 0 => \A j \in Job : Unfinished(j) =>
        crashes[j] > 0 \/ (state[j] = "retry_scheduled" /\ retryAt[j] = "past")

(* The drain's own statement of its third follow-up: work a killed worker
   left does not wait for an unrelated doorbell that may never come. *)
NoForgottenWork == Quiet /\ lost = 0 => \A j \in Job : ~Unfinished(j)

(* One later doorbell recovers everything a lost one would have: with rings
   refused and drains killed, every job this deployment can run is over at
   last (drain_org's docstring). *)
BellsSettleEveryJob ==
    \A j \in Job : Unfinished(j) ~> (state[j] \in Terminal)

(* The worker does not ring itself for ever: once requests stop, bells stop,
   even with embedding jobs pending and no provider to run them. *)
BellsStop == <>[](bells = {})
=============================================================================
