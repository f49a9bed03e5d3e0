----------------------------- MODULE NightlySync -----------------------------
(****************************************************************************)
(* One night of the nightly clock, for an organisation with one connection: *)
(* the scheduled task (schedule.py), the row that says when it last ran     *)
(* (migration 0020), and the connection's sync row with the doorbell that   *)
(* wakes a worker for it.  What the worker does is JobStore and Drain; an   *)
(* organisation whose schedule is switched off has no night.                *)
(*                                                                          *)
(* Time goes in steps of five minutes from the organisation's midnight.  A  *)
(* task begins with a tick, or as the one retry of a killed task.           *)
(****************************************************************************)
EXTENDS Integers, FiniteSets

CONSTANTS
    Task,            \* as many as may be alive at once
    StartHour,       \* the hours an administrator may choose, in steps after midnight
    WindowLen, TickEvery,
    TaskLife,        \* --task-timeout
    LeaseLen,
    LastStep,        \* bound on the clock
    MaxKills         \* bound on the tasks killed

(* A task that is cut off is no longer at work when its lease is over (deploy.md). *)
ASSUME NightAssumption ==
    /\ StartHour \subseteq Nat /\ {WindowLen, TaskLife, LeaseLen, LastStep, MaxKills} \subseteq Nat
    /\ TickEvery \in 1 .. WindowLen /\ TaskLife <= LeaseLen

VARIABLES
    clock, startsAt,
    nightMark,       \* org_sync_schedules: last_started_at, and whether it is finished
    task,            \* task[t]: where it is, when it began and claimed, whether it queued
    syncJob,         \* the connector.sync row: "over" when there is none or it is finished
    bell,            \* a doorbell is out
    unrung,          \* history: a row was queued and its ring lost
    nightRuns,       \* history: the runs of the night that queued
    died,            \* history: when the runs that were killed had claimed
    kills,
    seenThrough,     \* history: the window's last tick was not killed before its claim
    hourMoved        \* history: the hour was changed

nightVars == <<clock, startsAt, nightMark, task, syncJob, bell, unrung, nightRuns, died, kills, seenThrough, hourMoved>>
workerVars == <<syncJob, bell, unrung>>

Yesterday == -1
NoTask == [at |-> "off", begun |-> 0, claimed |-> 0, queued |-> FALSE]

NightInit ==
    /\ clock = 0 /\ startsAt \in StartHour
    /\ nightMark \in [started : {Yesterday}, finished : BOOLEAN]
    /\ task = [t \in Task |-> NoTask]
    /\ syncJob \in {"over", "pending"} /\ bell = (syncJob = "pending") /\ unrung = FALSE
    /\ nightRuns = 0 /\ died = {} /\ kills = 0 /\ seenThrough = FALSE /\ hourMoved = FALSE

-----------------------------------------------------------------------------
(* One rule in two predicates, due_organisations' and mark_started's. *)
Takeable ==
    nightMark.started = Yesterday \/ (~nightMark.finished /\ clock - nightMark.started > LeaseLen)

Due == clock \in startsAt .. startsAt + WindowLen - 1 /\ Takeable

LastTick == startsAt + WindowLen - TickEvery

(* A tick of Cloud Scheduler, or the retry of a killed task: nothing to do, or due. *)
TaskBegins(t) ==
    /\ task[t].at = "again" \/ (task[t].at = "off" /\ clock % TickEvery = 0)
    /\ task' = [task EXCEPT ![t] =
                   IF Due THEN [NoTask EXCEPT !.at = "due", !.begun = clock] ELSE NoTask]
    /\ seenThrough' = (seenThrough \/ (~Due /\ clock = LastTick))
    /\ UNCHANGED <<clock, startsAt, nightMark, workerVars, nightRuns, died, kills, hourMoved>>

(* Defect: what the look said is taken for granted. *)
AsSeen == TRUE

(* mark_started asks the same again. *)
StillTakeable == Takeable

(* _claim: taken, or somebody else has it. *)
TaskClaims(t) ==
    /\ task[t].at = "due"
    /\ \/ /\ StillTakeable /\ nightMark' = [started |-> clock, finished |-> FALSE]
          /\ task' = [task EXCEPT ![t].at = "claimed", ![t].claimed = clock]
       \/ ~StillTakeable /\ task' = [task EXCEPT ![t] = NoTask] /\ UNCHANGED nightMark
    /\ seenThrough' = (seenThrough \/ task[t].begun = LastTick)
    /\ UNCHANGED <<clock, startsAt, workerVars, nightRuns, died, kills, hourMoved>>

(* _enqueue_for_org's transaction: a row that is over is queued, another left alone. *)
Queues(t) ==
    /\ task[t].at = "claimed" /\ syncJob' = (IF syncJob = "over" THEN "pending" ELSE syncJob)
    /\ task' = [task EXCEPT ![t].at = "queued", ![t].queued = (syncJob = "over")]
    /\ nightRuns' = nightRuns + 1
    /\ UNCHANGED <<clock, startsAt, nightMark, bell, unrung, died, kills, seenThrough, hourMoved>>

(* It raised: the outcome is 'failed' and nothing is rung. *)
CannotQueue(t) ==
    /\ task[t].at = "claimed" /\ task' = [task EXCEPT ![t].at = "rung"]
    /\ UNCHANGED <<clock, startsAt, nightMark, workerVars, nightRuns, died, kills, seenThrough, hourMoved>>

(* Rung for what was queued, if the queue takes the ring. *)
Rings(t) ==
    /\ task[t].at = "queued" /\ task' = [task EXCEPT ![t].at = "rung"]
    /\ \/ task[t].queued /\ bell' = TRUE /\ unrung' = FALSE
       \/ task[t].queued /\ unrung' = ~bell /\ UNCHANGED bell
       \/ ~task[t].queued /\ UNCHANGED <<bell, unrung>>
    /\ UNCHANGED <<clock, startsAt, nightMark, syncJob, nightRuns, died, kills, seenThrough, hourMoved>>

(* mark_finished goes by the organisation alone. *)
Finishes(t) ==
    /\ task[t].at = "rung" /\ task' = [task EXCEPT ![t] = NoTask]
    /\ nightMark' = [nightMark EXCEPT !.finished = TRUE]
    /\ UNCHANGED <<clock, startsAt, workerVars, nightRuns, died, kills, seenThrough, hourMoved>>

Killed(t) ==
    /\ task[t].at \notin {"off", "again"} /\ kills < MaxKills /\ kills' = kills + 1
    /\ \E next \in {"off", "again"} : task' = [task EXCEPT ![t] = [NoTask EXCEPT !.at = next]]
    /\ unrung' = (unrung \/ (task[t].queued /\ task[t].at = "queued" /\ ~bell))
    /\ died' = IF task[t].at = "due" THEN died ELSE died \cup {task[t].claimed}
    /\ UNCHANGED <<clock, startsAt, nightMark, syncJob, bell, nightRuns, seenThrough, hourMoved>>

-----------------------------------------------------------------------------
(* "Sync now" rings for what it queues; a drain takes what is pending, and ends it. *)
AsksNow ==
    /\ syncJob = "over" /\ syncJob' = "pending" /\ bell' = TRUE /\ unrung' = FALSE
    /\ UNCHANGED <<clock, startsAt, nightMark, task, nightRuns, died, kills, seenThrough, hourMoved>>

Drains ==
    /\ bell /\ bell' = FALSE /\ unrung' = FALSE
    /\ syncJob' = IF syncJob = "pending" THEN "running" ELSE syncJob
    /\ UNCHANGED <<clock, startsAt, nightMark, task, nightRuns, died, kills, seenThrough, hourMoved>>

SyncEnds ==
    /\ syncJob = "running" /\ syncJob' = "over"
    /\ UNCHANGED <<clock, startsAt, nightMark, task, bell, unrung, nightRuns, died, kills, seenThrough, hourMoved>>

(* write_schedule, once. *)
HourMoves(h) ==
    /\ ~hourMoved /\ h # startsAt /\ startsAt' = h /\ hourMoved' = TRUE
    /\ UNCHANGED <<clock, nightMark, task, workerVars, nightRuns, died, kills, seenThrough>>

(* A task's time is up before the clock goes on. *)
Passes ==
    /\ clock < LastStep /\ clock' = clock + 1
    /\ \A t \in Task : task[t].at \in {"off", "again"} \/ clock < task[t].begun + TaskLife
    /\ UNCHANGED <<startsAt, nightMark, task, workerVars, nightRuns, died, kills, seenThrough, hourMoved>>

NightNext ==
    \/ \E t \in Task : TaskBegins(t) \/ TaskClaims(t) \/ Queues(t) \/ CannotQueue(t) \/ Rings(t)
                       \/ Finishes(t) \/ Killed(t)
    \/ AsksNow \/ Drains \/ SyncEnds \/ Passes \/ \E h \in StartHour : HourMoves(h)

NightSpec == NightInit /\ [][NightNext]_nightVars

-----------------------------------------------------------------------------
Stages == {"off", "again", "due", "claimed", "queued", "rung"}

NightTypeOK ==
    /\ {clock, nightRuns, kills} \subseteq Nat /\ startsAt \in StartHour
    /\ nightMark \in [started : Nat \cup {Yesterday}, finished : BOOLEAN]
    /\ task \in [Task -> [at : Stages, begun : Nat, claimed : Nat, queued : BOOLEAN]]
    /\ syncJob \in {"over", "pending", "running"} /\ died \subseteq Nat
    /\ {bell, unrung, seenThrough, hourMoved} \subseteq BOOLEAN

(* "An organisation runs at most once per local day however many ticks see it" *)
(* (deploy.md), and once more for every run that was killed.                   *)
OncePerDay == nightRuns <= 1 + Cardinality(died)

(* A killed run does not cost the day: if the window's last tick was seen through, and *)
(* no run was killed that claimed within a lease of it, the day's run is finished.     *)
NightIsKept ==
    (/\ clock >= startsAt + WindowLen + TaskLife /\ seenThrough /\ ~hourMoved
     /\ \A c \in died : LastTick - c > LeaseLen)
    => nightMark.finished /\ nightMark.started # Yesterday

(* A queued sync has a bell or a task about to ring one, or its ring was lost. *)
QueuedIsRung ==
    syncJob = "pending" =>
        bell \/ unrung \/ \E t \in Task : task[t].at = "queued" /\ task[t].queued

NightHolds == OncePerDay /\ NightIsKept /\ QueuedIsRung
=============================================================================
