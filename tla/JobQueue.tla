------------------------------ MODULE JobQueue ------------------------------
(***************************************************************************)
(* What the durable job queue promises, without saying how: every job is   *)
(* run by at most one worker at a time, a worker that disappears does not  *)
(* take the job with it, and a finished job stays finished until somebody  *)
(* asks for it again.                                                      *)
(*                                                                         *)
(* The detailed specification is JobStore (jobs.py and runner.py); its     *)
(* refinement mapping is JobStore!QueueStatus and JobStore!QueueOwner.     *)
(***************************************************************************)
CONSTANTS Job, Worker, NoWorker

VARIABLES status, owner

queueVars == <<status, owner>>

Outcome == {"completed", "failed", "dead_letter"}

QueueInit == /\ status = [j \in Job |-> "absent"]
             /\ owner = [j \in Job |-> NoWorker]

(* A job is queued for the first time, or again once it is over. *)
Submit(j) == /\ status[j] \in Outcome \cup {"absent"}
             /\ status' = [status EXCEPT ![j] = "queued"]
             /\ UNCHANGED owner

(* A worker that has no job takes a queued one. *)
Take(j, w) == /\ status[j] = "queued"
              /\ \A i \in Job : owner[i] # w
              /\ status' = [status EXCEPT ![j] = "running"]
              /\ owner' = [owner EXCEPT ![j] = w]

(* Only the owner ends a job, or hands it back to be tried again. A job that
   ends may submit others with it, at the same instant. *)
Settle(j, w, next, more) ==
    /\ status[j] = "running"
    /\ owner[j] = w
    /\ next \in Outcome \cup {"queued"}
    /\ \A i \in more : status[i] \in Outcome \cup {"absent"}
    /\ status' = [i \in Job |-> IF i = j THEN next
                               ELSE IF i \in more THEN "queued" ELSE status[i]]
    /\ owner' = [owner EXCEPT ![j] = NoWorker]

(* The owner disappears; the job is still marked running. *)
Lose(j) == /\ owner[j] # NoWorker
           /\ owner' = [owner EXCEPT ![j] = NoWorker]
           /\ UNCHANGED status

(* Jobs whose owner disappeared go back to the queue, any number at once. *)
Recover(lost) == /\ \A j \in lost : status[j] = "running" /\ owner[j] = NoWorker
                 /\ status' = [j \in Job |-> IF j \in lost THEN "queued" ELSE status[j]]
                 /\ UNCHANGED owner

QueueNext == \/ \E j \in Job : Submit(j) \/ Lose(j)
             \/ \E j \in Job, w \in Worker : Take(j, w)
             \/ \E j \in Job, w \in Worker, next \in Outcome \cup {"queued"},
                   more \in SUBSET Job : Settle(j, w, next, more)
             \/ \E lost \in SUBSET Job : Recover(lost)

QueueSpec == QueueInit /\ [][QueueNext]_queueVars
=============================================================================
