----------------------------- MODULE SourceWalk ------------------------------
(********************************************************************************)
(* One source: the walk that lists what changed since its cursor, the jobs      *)
(* that fetch the documents it lists, and the versions they store (ingest.py    *)
(* run_source_job and run_document_job, pipeline.py, over jobs.py).             *)
(*                                                                              *)
(* A walk is one transaction; until it commits nobody sees what it queues, and  *)
(* the rows it reopens are locked.  A document job writes its row once it has   *)
(* fetched and holds it to the commit, so that what follows the fetch is one    *)
(* step.  Bodies of a document are numbered as the provider comes to have them. *)
(* Leases, attempts and retry times are in JobStore; here a failed or reclaimed *)
(* job is pending again.                                                        *)
(********************************************************************************)
EXTENDS Naturals

CONSTANTS
    Doc, Fetcher,
    NoDoc,
    MaxBodies        \* bound on the bodies of one document

ASSUME WalkAssumption == NoDoc \notin Doc /\ MaxBodies \in Nat

VARIABLES
    body,            \* body[d]: the newest body the provider has had, 0 before the first
    offered,         \* the documents the provider has now
    uncovered,       \* those modified since sources.last_sync_cursor
    walk,            \* the walk in progress
    docJob,          \* docJob[d]: the ingest.document row of d
    fetch,           \* fetch[w]: what worker w is doing
    current,         \* current[d]: the body of the version with superseded_by NULL, 0 none
    overtaken,       \* history: listed while a worker held an older body
    doubled          \* history: the documents taken from a live worker

providerVars == <<body, offered>>
walkVars == <<providerVars, uncovered, walk, docJob, fetch, current, overtaken, doubled>>

NoWalk == [on |-> FALSE, left |-> {}, queued |-> {}, late |-> {}]
NoFetch == [of |-> NoDoc, answered |-> FALSE, got |-> 0]
DocStates == {"none", "pending", "running", "completed", "failed"}

WalkInit ==
    /\ body = [d \in Doc |-> 0] /\ offered = {} /\ uncovered = {}
    /\ walk = NoWalk
    /\ docJob = [d \in Doc |-> "none"] /\ fetch = [w \in Fetcher |-> NoFetch]
    /\ current = [d \in Doc |-> 0]
    /\ overtaken = {} /\ doubled = {}

-----------------------------------------------------------------------------
(* The provider. *)

(* Modified after the walk's `started`, as well as after the cursor. *)
Edits(d) ==
    /\ body[d] < MaxBodies
    /\ body' = [body EXCEPT ![d] = @ + 1] /\ offered' = offered \cup {d}
    /\ uncovered' = uncovered \cup {d}
    /\ walk' = IF walk.on THEN [walk EXCEPT !.late = @ \cup {d}] ELSE walk
    /\ UNCHANGED <<docJob, fetch, current, overtaken, doubled>>

Deletes(d) ==
    /\ d \in offered /\ offered' = offered \ {d}
    /\ UNCHANGED <<body, uncovered, walk, docJob, fetch, current, overtaken, doubled>>

-----------------------------------------------------------------------------
(* The walk. *)

(* `started` is taken before the listing is asked for. *)
WalkStarts ==
    /\ ~walk.on
    /\ walk' = [on |-> TRUE, left |-> uncovered \cap offered, queued |-> {}, late |-> {}]
    /\ UNCHANGED <<providerVars, uncovered, docJob, fetch, current, overtaken, doubled>>

HoldsOlder(d) == \E w \in Fetcher :
    fetch[w].of = d /\ fetch[w].answered /\ fetch[w].got # body[d]

Reopened == {"none", "completed"}

(* An identifier is yielded: its job is inserted or reopened, or left as it is.  What *)
(* changed after `started` may be in the listing as well.                             *)
Lists(d) ==
    /\ walk.on /\ d \in (walk.left \cup walk.late) \cap offered
    /\ walk' = [walk EXCEPT !.left = @ \ {d},
                            !.queued = IF docJob[d] \in Reopened THEN @ \cup {d} ELSE @]
    /\ overtaken' = IF docJob[d] \in Reopened THEN overtaken \ {d}
                    ELSE IF HoldsOlder(d) THEN overtaken \cup {d} ELSE overtaken
    /\ UNCHANGED <<providerVars, uncovered, docJob, fetch, current, doubled>>

(* Defect: a cursor taken at the end of the walk. *)
UncoveredByTheEnd(complete) == IF complete THEN {} ELSE uncovered

(* What the next walk still has to list: `started` covers all but what came later, *)
(* an incomplete listing nothing at all.                                           *)
Uncovered(complete) == IF complete THEN walk.late ELSE uncovered

(* One commit: the jobs and the cursor.  ListingIncomplete leaves identifiers over. *)
WalkCommits(complete) ==
    /\ walk.on /\ (complete => walk.left \cap offered = {})
    /\ docJob' = [d \in Doc |-> IF d \in walk.queued THEN "pending" ELSE docJob[d]]
    /\ uncovered' = Uncovered(complete) /\ walk' = NoWalk
    /\ UNCHANGED <<providerVars, fetch, current, overtaken, doubled>>

(* An error or a killed worker: the transaction is rolled back. *)
WalkFails ==
    /\ walk.on /\ walk' = NoWalk
    /\ UNCHANGED <<providerVars, uncovered, docJob, fetch, current, overtaken, doubled>>

-----------------------------------------------------------------------------
(* A document's job. *)

Claims(w, d) ==
    /\ fetch[w] = NoFetch /\ docJob[d] = "pending"
    /\ docJob' = [docJob EXCEPT ![d] = "running"]
    /\ fetch' = [fetch EXCEPT ![w] = [of |-> d, answered |-> FALSE, got |-> 0]]
    /\ UNCHANGED <<providerVars, uncovered, walk, current, overtaken, doubled>>

(* The provider answers, with nothing if it has no such document. *)
Fetches(w) ==
    /\ fetch[w].of # NoDoc /\ ~fetch[w].answered
    /\ LET d == fetch[w].of
       IN fetch' = [fetch EXCEPT ![w].answered = TRUE,
                                 ![w].got = IF d \in offered THEN body[d] ELSE 0]
    /\ UNCHANGED <<providerVars, uncovered, walk, docJob, current, overtaken, doubled>>

(* A worker's writes of the row wait for the walk that has reopened it. *)
RowFree(w) == fetch[w].of # NoDoc /\ fetch[w].of \notin walk.queued

(* From record_state to the commit: the version on top is superseded if the body *)
(* is another one, whichever of the two is newer; complete_job goes by id alone. *)
Stores(w) ==
    /\ RowFree(w) /\ fetch[w].answered
    /\ current' = [current EXCEPT ![fetch[w].of] =
                       IF fetch[w].got \in {0, @} THEN @ ELSE fetch[w].got]
    /\ docJob' = [docJob EXCEPT ![fetch[w].of] = "completed"]
    /\ fetch' = [fetch EXCEPT ![w] = NoFetch]
    /\ UNCHANGED <<providerVars, uncovered, walk, overtaken, doubled>>

(* fail_job: retried, or given up, by id alone as well. *)
GivesBack(w) ==
    /\ RowFree(w)
    /\ docJob' \in {[docJob EXCEPT ![fetch[w].of] = s] : s \in {"pending", "failed"}}
    /\ fetch' = [fetch EXCEPT ![w] = NoFetch]
    /\ UNCHANGED <<providerVars, uncovered, walk, current, overtaken, doubled>>

Vanishes(w) ==
    /\ fetch[w] # NoFetch /\ fetch' = [fetch EXCEPT ![w] = NoFetch]
    /\ UNCHANGED <<providerVars, uncovered, walk, docJob, current, overtaken, doubled>>

(* The lease of a running job ends: its worker is gone, or it is not. *)
Reclaims(d) ==
    /\ docJob[d] = "running" /\ docJob' = [docJob EXCEPT ![d] = "pending"]
    /\ \/ (\A w \in Fetcher : fetch[w].of # d) /\ UNCHANGED doubled
       \/ (\E w \in Fetcher : fetch[w].of = d) /\ doubled' = doubled \cup {d}
    /\ UNCHANGED <<providerVars, uncovered, walk, fetch, current, overtaken>>

WalkNext ==
    \/ \E d \in Doc : Edits(d) \/ Deletes(d) \/ Lists(d) \/ Reclaims(d)
    \/ WalkStarts \/ WalkFails \/ \E complete \in BOOLEAN : WalkCommits(complete)
    \/ \E w \in Fetcher : Fetches(w) \/ Stores(w) \/ GivesBack(w) \/ Vanishes(w)
    \/ \E w \in Fetcher, d \in Doc : Claims(w, d)

WalkSpec == WalkInit /\ [][WalkNext]_walkVars

-----------------------------------------------------------------------------
Fetch == [of : Doc \cup {NoDoc}, answered : BOOLEAN, got : Nat]
Walking == [on : BOOLEAN, left : SUBSET Doc, queued : SUBSET Doc, late : SUBSET Doc]

WalkTypeOK ==
    /\ {body, current} \subseteq [Doc -> Nat]
    /\ {offered, uncovered, overtaken, doubled} \subseteq SUBSET Doc
    /\ walk \in Walking /\ docJob \in [Doc -> DocStates] /\ fetch \in [Fetcher -> Fetch]

(* What the provider has is what the corpus has, or somebody will still look: the next *)
(* walk, a job that has yet to ask, or a person told of the failure.                   *)
WillBeRead(d) ==
    \/ body[d] = current[d] \/ docJob[d] \in {"pending", "failed"}
    \/ docJob[d] = "running" /\ ~HoldsOlder(d)

(* "Skipping work nobody will look at again" (ingest.py): a change the cursor covers *)
(* reaches the corpus.                                                               *)
CoveredIsRead == \A d \in offered \ (uncovered \cup doubled) : WillBeRead(d)

(* It does unless the walk that covered it met, in flight, a job that had fetched the *)
(* body before, or two workers have had the job at once.                              *)
CursorCovers == \A d \in offered \ (uncovered \cup overtaken \cup doubled) : WillBeRead(d)
=============================================================================
