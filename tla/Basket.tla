------------------------------- MODULE Basket -------------------------------
(*****************************************************************************)
(* The Knowledge Basket from the press of a button to the corpus: the page   *)
(* components/basket/knowledge-basket.tsx, the API's basket.py, and the part *)
(* of the ingestion job that owns the row (basket_state.py, ingest.py).      *)
(*                                                                           *)
(* The browser asks for a ticket, PUTs the bytes to storage, and tells the   *)
(* API that they landed.  A worker then reads the file in one transaction,   *)
(* whose first write locks the basket row until the commit: that lock is     *)
(* what orders a removal against an ingestion.  Renaming, downloading, the   *)
(* search box and the first press of a removal are not here: they move       *)
(* nothing the properties speak of.  A row has one action under way: that a  *)
(* hook names only its latest row, so that pressing on another one enables   *)
(* this one again, is left out.                                              *)
(*****************************************************************************)
EXTENDS Naturals

CONSTANTS
    File,            \* the files somebody picks
    TextFile,        \* those of a type whose text can be read (plan_for)
    NoFile,
    MaxReads         \* attempts the job queue gives one reading of a file

ASSUME BasketAssumption ==
    TextFile \subseteq File /\ NoFile \notin File /\ MaxReads \in Nat \ {0}

VARIABLES
    upload,          \* upload[f]: where uploadOne stands for f
    cancel,          \* cancel[f]: what became of a press on Cancel
    before,          \* before[f]: the file ahead of f in its picker interaction
    row,             \* row[f]: basket_files.state, or its absence
    grant,           \* grant[f]: document_acl makes the text retrievable
    job,             \* job[f]: the ingest.document row
    list,            \* list[f]: the state the page last fetched
    act              \* act[f]: the retry or removal in flight

basketVars == <<upload, cancel, before, row, grant, job, list, act>>
browserVars == <<upload, cancel, before>>
serverVars == <<row, grant, job>>
pageVars == <<list, act>>

UploadSteps == {"unpicked", "waiting", "ticket", "put", "complete", "failed", "gone"}
RowStates == {"none", "uploading", "uploaded", "ready", "stored", "rejected", "failed", "deleted"}
FinalStates == {"ready", "stored", "rejected"}
JobStates == {"none", "waiting", "working", "failing", "done", "dead"}
RowActs == {"none", "retry", "retrying", "remove"}

(* STATES[...].working: the states the page shows with a spinner and polls for. *)
Spinning == {"uploading", "uploaded"}
Polls == \E f \in File : list[f] \in Spinning

(* A work transaction that found the row has it locked until it ends. *)
RowLocked(f) == job[f].state = "working" /\ row[f] # "deleted"

BasketInit ==
    /\ upload = [f \in File |-> "unpicked"]
    /\ cancel = [f \in File |-> "none"]
    /\ before = [f \in File |-> NoFile]
    /\ row = [f \in File |-> "none"]
    /\ grant = [f \in File |-> FALSE]
    /\ job = [f \in File |-> [state |-> "none", attempts |-> 0]]
    /\ list = [f \in File |-> "none"]
    /\ act = [f \in File |-> "none"]

-----------------------------------------------------------------------------
(* The upload, one file after the other within an interaction. *)

(* addFiles: one file, or one chained behind another. *)
AddFiles(f, g) ==
    /\ upload[f] = "unpicked" /\ upload[g] = "unpicked"
    /\ upload' = [upload EXCEPT ![f] = "waiting", ![g] = "waiting"]
    /\ before' = [before EXCEPT ![g] = IF f = g THEN NoFile ELSE f]
    /\ UNCHANGED <<cancel, serverVars, pageVars>>

(* A defect: a failure breaks the chain. *)
MyTurnAfterSuccess(f) == \A g \in File : before[f] = g => upload[g] = "gone"

MyTurn(f) == \A g \in File : before[f] = g => upload[g] \in {"failed", "gone"}

(* uploadOne up to its first await: an empty or oversize file is refused here. *)
UploadStarts(f) ==
    /\ upload[f] = "waiting" /\ MyTurn(f)
    /\ upload' \in {[upload EXCEPT ![f] = s] : s \in {"ticket", "failed"}}
    /\ UNCHANGED <<cancel, before, serverVars, pageVars>>

(* start_upload reserves the row; its answer may be lost, or it may refuse. *)
TicketAnswered(f) ==
    /\ upload[f] = "ticket"
    /\ \E reserved, answered \in BOOLEAN :
        /\ answered => reserved
        /\ row' = [row EXCEPT ![f] = IF reserved THEN "uploading" ELSE @]
        /\ upload' = [upload EXCEPT ![f] = IF answered THEN "put" ELSE "failed"]
    /\ UNCHANGED <<cancel, before, grant, job, pageVars>>

(* put resolves once storage has the bytes, or rejects. *)
PutEnds(f) ==
    /\ upload[f] = "put"
    /\ upload' \in {[upload EXCEPT ![f] = s] : s \in {"complete", "failed"}}
    /\ UNCHANGED <<cancel, before, serverVars, pageVars>>

(* Cancel aborts the controller.  Only put listens to the signal, from the  *)
(* moment it runs: a press before that stops nothing, and the signal cannot *)
(* fire twice.  (A press after it changes nothing at all.)                  *)
CancelUpload(f) ==
    /\ upload[f] \in {"ticket", "put"} /\ cancel[f] = "none"
    /\ cancel' = [cancel EXCEPT ![f] = IF upload[f] = "put" THEN "heard" ELSE "unheard"]
    /\ upload' = [upload EXCEPT ![f] = IF @ = "put" THEN "gone" ELSE @]
    /\ UNCHANGED <<before, serverVars, pageVars>>

(* _enqueue_ingest inserts the job, or reopens it if it is over. *)
Enqueued(j) == IF j.state \in {"none", "done", "dead"}
               THEN [state |-> "waiting", attempts |-> 0] ELSE j

(* complete_upload: read later, kept only, or refused, by type and content; *)
(* a removed row is not found.  The answer may be lost after the commit.    *)
CompleteAnswered(f) ==
    /\ upload[f] = "complete"
    /\ \/ /\ row[f] = "uploading"
          /\ \E verdict \in {IF f \in TextFile THEN "uploaded" ELSE "stored", "rejected"} :
              /\ row' = [row EXCEPT ![f] = verdict]
              /\ job' = [job EXCEPT ![f] = IF verdict = "uploaded" THEN Enqueued(@) ELSE @]
          /\ upload' \in {[upload EXCEPT ![f] = s] : s \in {"gone", "failed"}}
       \/ upload' = [upload EXCEPT ![f] = "failed"] /\ UNCHANGED <<row, job>>
    /\ UNCHANGED <<cancel, before, grant, pageVars>>

-----------------------------------------------------------------------------
(* The reading of the file, as far as it touches the basket row. *)

(* run_document_job opens: mark_extracting takes the row's lock, if it is there. *)
ReadBegins(f) ==
    /\ job[f].state = "waiting"
    /\ job' = [job EXCEPT ![f] = [state |-> "working", attempts |-> @.attempts + 1]]
    /\ UNCHANGED <<browserVars, row, grant, pageVars>>

(* A defect: a removed file is ingested anyway. *)
ReadCommitsAnyway(f) ==
    /\ job[f].state = "working"
    /\ job' = [job EXCEPT ![f].state = "done"]
    /\ row' = [row EXCEPT ![f] = IF @ = "deleted" THEN @ ELSE "ready"]
    /\ grant' = [grant EXCEPT ![f] = TRUE]
    /\ UNCHANGED <<browserVars, pageVars>>

(* The commit: ready, its document, its grant and the finished job together;   *)
(* a file removed before the lock was asked for is DocumentGone, and finished. *)
ReadCommits(f) ==
    /\ job[f].state = "working"
    /\ job' = [job EXCEPT ![f].state = "done"]
    /\ row' = [row EXCEPT ![f] = IF @ = "deleted" THEN @ ELSE "ready"]
    /\ grant' = [grant EXCEPT ![f] = row[f] # "deleted"]
    /\ UNCHANGED <<browserVars, pageVars>>

ReadFails(f) ==
    /\ job[f].state = "working"
    /\ job' = [job EXCEPT ![f].state = "failing"]
    /\ UNCHANGED <<browserVars, row, grant, pageVars>>

AfterAttempt(j, retryable) ==
    [j EXCEPT !.state = IF retryable /\ j.attempts < MaxReads THEN "waiting" ELSE "dead"]

(* record_failure in its own transaction: the row says failed even when the *)
(* job will try again by itself.                                            *)
FailureRecorded(f) ==
    /\ job[f].state = "failing"
    /\ \E retryable \in BOOLEAN : job' = [job EXCEPT ![f] = AfterAttempt(@, retryable)]
    /\ row' = [row EXCEPT ![f] = IF @ = "deleted" THEN @ ELSE "failed"]
    /\ UNCHANGED <<browserVars, grant, pageVars>>

(* A killed worker's lease is reclaimed; nothing writes the basket row. *)
ReaderDies(f) ==
    /\ job[f].state \in {"working", "failing"}
    /\ job' = [job EXCEPT ![f] = AfterAttempt(@, TRUE)]
    /\ UNCHANGED <<browserVars, row, grant, pageVars>>

-----------------------------------------------------------------------------
(* The list and its buttons. *)

(* The files query answers: to the poll, to an invalidation after an upload or   *)
(* an action, or to a window that regained focus.  A failed one changes nothing. *)
Refetch ==
    /\ list' = [f \in File |-> IF row[f] = "deleted" THEN "none" ELSE row[f]]
    /\ UNCHANGED <<browserVars, serverVars, act>>

(* The second of the two presses that remove a file. *)
RemoveForGood(f) ==
    /\ list[f] # "none" /\ act[f] = "none"
    /\ act' = [act EXCEPT ![f] = "remove"]
    /\ UNCHANGED <<browserVars, serverVars, list>>

(* delete_file waits for the row's lock; the row and the grant go together. *)
RemovalAnswered(f) ==
    /\ act[f] = "remove" /\ ~RowLocked(f)
    /\ act' = [act EXCEPT ![f] = "none"]
    /\ IF row[f] = "deleted"
       THEN UNCHANGED serverVars
       ELSE /\ row' = [row EXCEPT ![f] = "deleted"]
            /\ grant' = [grant EXCEPT ![f] = FALSE]
            /\ UNCHANGED job
    /\ UNCHANGED <<browserVars, list>>

TryAgain(f) ==
    /\ list[f] = "failed" /\ act[f] = "none"
    /\ act' = [act EXCEPT ![f] = "retry"]
    /\ UNCHANGED <<browserVars, serverVars, list>>

(* retry_file reads the state without a lock and writes by id afterwards. *)
RetryRead(f) ==
    /\ act[f] = "retry"
    /\ act' = [act EXCEPT ![f] = IF row[f] = "failed" THEN "retrying" ELSE "none"]
    /\ UNCHANGED <<browserVars, serverVars, list>>

RetryWrites(f) ==
    /\ act[f] = "retrying" /\ ~RowLocked(f)
    /\ act' = [act EXCEPT ![f] = "none"]
    /\ IF row[f] = "deleted"                      \* _read_one raises: rolled back
       THEN UNCHANGED <<row, job>>
       ELSE /\ row' = [row EXCEPT ![f] = "uploaded"]
            /\ job' = [job EXCEPT ![f] = Enqueued(@)]
    /\ UNCHANGED <<browserVars, grant, list>>

-----------------------------------------------------------------------------
UploadStep(f) ==
    \/ UploadStarts(f) \/ TicketAnswered(f) \/ PutEnds(f) \/ CompleteAnswered(f)
ReadStep(f) == ReadBegins(f) \/ ReadCommits(f) \/ ReadFails(f) \/ FailureRecorded(f)
AnswerStep(f) == RemovalAnswered(f) \/ RetryRead(f) \/ RetryWrites(f)

BasketNext ==
    \/ \E f, g \in File : AddFiles(f, g)
    \/ \E f \in File : \/ UploadStep(f) \/ CancelUpload(f) \/ ReadStep(f) \/ ReaderDies(f)
                       \/ RemoveForGood(f) \/ TryAgain(f) \/ AnswerStep(f)
    \/ Refetch

(* Requests are answered, workers work, and the page's timer fires while it polls. *)
BasketFairness ==
    /\ \A f \in File : /\ WF_basketVars(UploadStep(f))
                       /\ WF_basketVars(ReadStep(f))
                       /\ WF_basketVars(AnswerStep(f))
    /\ WF_basketVars(Polls /\ Refetch)

BasketSpec == BasketInit /\ [][BasketNext]_basketVars /\ BasketFairness

-----------------------------------------------------------------------------
BasketTypeOK ==
    /\ upload \in [File -> UploadSteps]
    /\ cancel \in [File -> {"none", "heard", "unheard"}]
    /\ before \in [File -> File \cup {NoFile}]
    /\ row \in [File -> RowStates]
    /\ grant \in [File -> BOOLEAN]
    /\ job \in [File -> [state : JobStates, attempts : 0..MaxReads]]
    /\ list \in [File -> RowStates \ {"deleted"}]
    /\ act \in [File -> RowActs]

(* A removed file is never retrievable again, however its removal interleaves   *)
(* with a reading, a failure, a kill or a retry (delete_file and the row lock). *)
RemovedIsUnsearchable == \A f \in File : row[f] = "deleted" => ~grant[f]

(* A row the page shows as finished has no reading left that could change it, *)
(* and one it calls searchable is.  (failed is not among them: it is written  *)
(* while the job may still retry by itself.)                                  *)
FinishedIsFinished ==
    \A f \in File : /\ row[f] \in FinalStates => job[f].state \in {"none", "done"}
                    /\ row[f] = "ready" => grant[f]

(* A cancel that was heard keeps the file out of the corpus for good.  One *)
(* pressed while the ticket or the completion was in flight is not heard.  *)
CancelledStaysOut == \A f \in File : cancel[f] = "heard" => row[f] \in {"uploading", "deleted"} /\ ~grant[f]

(* What is searchable is what was put in and not taken out: a removal, a finished *)
(* reading and a heard cancel stay what they are (delete_file, basket_state.py).  *)
CorpusIsRight == RemovedIsUnsearchable /\ FinishedIsFinished /\ CancelledStaysOut

(* Something that fails or is cancelled never strands the files behind it in *)
(* the same interaction (the chain in addFiles).                             *)
NobodyLeftWaiting == \A f \in File : upload[f] = "waiting" ~> upload[f] # "waiting"

(* A spinner over a row that is finished on the server ends without a reload. *)
SpinnerEnds ==
    \A f \in File : (list[f] \in Spinning /\ row[f] \in FinalStates)
                        ~> (list[f] \notin Spinning \/ row[f] \notin FinalStates)
=============================================================================
