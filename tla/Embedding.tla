------------------------------ MODULE Embedding ------------------------------
(*********************************************************************************)
(* One embedding pass over the chunks of a document that have no vector yet:     *)
(* embed_pending_chunks of persistence.py and the Embedder of embeddings.py.     *)
(* The pending chunks are cut into batches; a semaphore lets MaxConcurrency      *)
(* of them at the provider; a ledger refuses the next one once the token         *)
(* budget is gone; a refusal for want of quota publishes one deadline for        *)
(* all; the first batch that raises cancels the others, and nothing of the       *)
(* pass is written.  A worker that dies takes ledger and deadline with it.       *)
(*                                                                               *)
(* The event loop runs one task at a time, so a step is what a task does between *)
(* two awaits.  Vectors and texts are left out: a chunk is its number, oldest    *)
(* first, with the tokens it is estimated at and those the provider bills.       *)
(*********************************************************************************)
EXTENDS Naturals, Sequences, FiniteSets, FiniteSetsExt

CONSTANTS
    Estimate,        \* Estimate[c]: what estimate_tokens says of chunk c
    Billed,          \* Billed[c]: what the provider's statistics say of it
    MaxBatchSize, MaxBatchTokens, MaxConcurrency, MaxAttempts, TokenBudget,
    PassLimit,       \* the pass's `limit`
    MaxClock         \* bounds the time; delays stay within it

ASSUME EmbeddingAssumption ==
    /\ Estimate \in Seq(Nat) /\ Billed \in Seq(Nat) /\ Len(Estimate) = Len(Billed)
    /\ {MaxBatchSize, MaxBatchTokens, MaxConcurrency, MaxAttempts, TokenBudget, PassLimit} \subseteq Nat \ {0}
    /\ MaxClock \in Nat

ChunkNo == DOMAIN Estimate
TaskSteps == {"queued", "waiting", "calling", "done", "raised"}

VARIABLES
    embedded,        \* the chunks whose embedding is not NULL
    batches,         \* the running pass's batches, <<>> between passes
    tasks,           \* tasks[b]: where batch b's task stands, its attempts, when it wakes
    spent,           \* ledger.spent
    notBefore,       \* _not_before, the deadline the batches share
    now              \* the time, up to MaxClock

passVars == <<embedded, batches, tasks, spent, notBefore, now>>

Running == batches # <<>>
Batch == DOMAIN batches

(* The sum of a sequence of numbers, and that of chunks' tokens. *)
Total(s) ==
    LET sum[n \in 0..Len(s)] == IF n = 0 THEN 0 ELSE sum[n - 1] + s[n]
    IN  sum[Len(s)]
Tokens(of, chunks) == Total([i \in DOMAIN chunks |-> of[chunks[i]]])

(* plan_batches: a chunk joins the last batch while both bounds allow it. *)
Joins(b, c) == Len(b) < MaxBatchSize /\ Tokens(Estimate, b) + Estimate[c] <= MaxBatchTokens
Placed(plan, c) ==
    LET last == Len(plan)
    IN  IF last # 0 /\ Joins(plan[last], c)
        THEN [plan EXCEPT ![last] = Append(@, c)]
        ELSE Append(plan, <<c>>)
Plan(chunks) ==
    LET plan[n \in 0..Len(chunks)] == IF n = 0 THEN <<>> ELSE Placed(plan[n - 1], chunks[n])
    IN  plan[Len(chunks)]

(* pending_chunks: what has no vector, oldest first, so many. *)
PendingChunks ==
    LET oldest[c \in 0..Len(Estimate)] ==
            IF c = 0 THEN <<>>
            ELSE IF c \in embedded \/ Len(oldest[c - 1]) = PassLimit THEN oldest[c - 1]
                 ELSE Append(oldest[c - 1], c)
    IN  oldest[Len(Estimate)]

EmbeddingInit ==
    /\ embedded = {} /\ batches = <<>> /\ tasks = <<>>
    /\ spent = 0 /\ notBefore = 0 /\ now = 0

PassStarts ==
    /\ ~Running /\ embedded # ChunkNo
    /\ batches' = Plan(PendingChunks)
    /\ tasks' = [b \in DOMAIN batches' |-> [at |-> "queued", attempt |-> 0, wake |-> 0]]
    /\ UNCHANGED <<embedded, spent, notBefore, now>>

Holding == {b \in Batch : tasks[b].at \in {"waiting", "calling"}}
Raised == \E b \in Batch : tasks[b].at = "raised"

(* TokenLedger.exhausted, which a batch checks once it has the semaphore. *)
Overspent == spent > TokenBudget                                          \* a defect
Exhausted == spent >= TokenBudget

(* _await_cooldown: the deadline is read once, and a batch it does not hold calls at once. *)
Sent(attempt, deadline) ==
    [at |-> IF deadline <= now THEN "calling" ELSE "waiting", attempt |-> attempt, wake |-> deadline]

(* The semaphore is fair. *)
TakesSemaphore(b) ==
    /\ tasks[b].at = "queued" /\ \A a \in Batch : a < b => tasks[a].at # "queued"
    /\ Cardinality(Holding) < MaxConcurrency
    /\ tasks' = [tasks EXCEPT ![b] =
                  IF Exhausted THEN [@ EXCEPT !.at = "raised"]
                               ELSE Sent(0, notBefore)]
    /\ UNCHANGED <<embedded, batches, spent, notBefore, now>>

WakesUp(b) ==
    /\ tasks[b].at = "waiting" /\ tasks[b].wake <= now
    /\ tasks' = [tasks EXCEPT ![b].at = "calling"]
    /\ UNCHANGED <<embedded, batches, spent, notBefore, now>>

(* charge: the tokens count before the overrun is raised. *)
Embeds(b) ==
    /\ tasks[b].at = "calling"
    /\ spent' = spent + Tokens(Billed, batches[b])
    /\ tasks' = [tasks EXCEPT ![b].at = IF spent' > TokenBudget THEN "raised" ELSE "done"]
    /\ UNCHANGED <<embedded, batches, notBefore, now>>

(* A 4xx, an answer too short, of the wrong dimensions or from a truncated text: no *)
(* retry, and the ledger does not hear of it.                                       *)
IsRefused(b) ==
    /\ tasks[b].at = "calling"
    /\ tasks' = [tasks EXCEPT ![b].at = "raised"]
    /\ UNCHANGED <<embedded, batches, spent, notBefore, now>>

(* _publish_cooldown *)
Published(deadline) == IF notBefore < deadline THEN deadline ELSE notBefore

(* A transient failure: Retry-After or the backoff's jitter is the delay. *)
IsHeldOff(b, delay) ==
    /\ tasks[b].at = "calling" /\ now + delay <= MaxClock
    /\ notBefore' = Published(now + delay)
    /\ tasks' = [tasks EXCEPT ![b] =
                  IF @.attempt + 1 < MaxAttempts
                  THEN Sent(@.attempt + 1, notBefore')
                  ELSE [@ EXCEPT !.at = "raised"]]
    /\ UNCHANGED <<embedded, batches, spent, now>>

(* embed: the others are cancelled and awaited, then the error goes up; nothing is *)
(* written.  The job's next attempt starts a pass of its own.                      *)
CancelsSiblings == batches' = <<>> /\ tasks' = <<>>
PassFails ==
    /\ Raised
    /\ CancelsSiblings
    /\ UNCHANGED <<embedded, spent, notBefore, now>>

(* store_embeddings: every vector of the pass, in one transaction. *)
PassIsStored ==
    /\ Running /\ \A b \in Batch : tasks[b].at = "done"
    /\ embedded' = embedded \cup UNION {Range(batches[b]) : b \in Batch}
    /\ batches' = <<>> /\ tasks' = <<>>
    /\ UNCHANGED <<spent, notBefore, now>>

(* The process ends, of itself between passes or by a crash within one; the next one *)
(* has an Embedder of its own.                                                       *)
Restarts ==
    /\ batches' = <<>> /\ tasks' = <<>> /\ spent' = 0 /\ notBefore' = 0
    /\ UNCHANGED <<embedded, now>>

Ticks == now < MaxClock /\ now' = now + 1 /\ UNCHANGED <<embedded, batches, tasks, spent, notBefore>>

TaskStep(b) ==
    \/ TakesSemaphore(b) \/ WakesUp(b) \/ Embeds(b) \/ IsRefused(b)
    \/ \E delay \in 0..MaxClock : IsHeldOff(b, delay)

EmbeddingNext ==
    \/ PassStarts \/ PassFails \/ PassIsStored \/ Restarts \/ Ticks
    \/ \E b \in Batch : TaskStep(b)

(* The loop runs what is ready, the client times a request out (request_timeout_s), *)
(* and the time a batch may be waiting for passes.                                  *)
EmbeddingFairness ==
    /\ WF_passVars(PassFails \/ PassIsStored) /\ WF_passVars(Running /\ Ticks)
    /\ WF_passVars(\E b \in Batch : TaskStep(b))

EmbeddingSpec == EmbeddingInit /\ [][EmbeddingNext]_passVars /\ EmbeddingFairness

-----------------------------------------------------------------------------
EmbeddingTypeOK ==
    /\ embedded \subseteq ChunkNo /\ spent \in Nat /\ {notBefore, now} \subseteq 0..MaxClock
    /\ \A b \in Batch : batches[b] \in Seq(ChunkNo)
    /\ DOMAIN tasks = Batch
    /\ \A b \in Batch : tasks[b] \in [at : TaskSteps, attempt : 0..MaxAttempts, wake : 0..MaxClock]

(* What is billed and what is out to be billed stay within one semaphore's worth of *)
(* batches of the budget, however the batches overlap and whatever the job's later  *)
(* passes are refused (TokenLedger.check before a call, charge after it).           *)
Bill(chunks) == Tokens(Billed, chunks)
OldestFirst(b) == \A i, j \in DOMAIN b : i < j => b[i] < b[j]
Fills(b) == Len(b) = 1 \/ (Len(b) <= MaxBatchSize /\ Tokens(Estimate, b) <= MaxBatchTokens)
MayBeCut == {b \in UNION {[1..n -> ChunkNo] : n \in 1..MaxBatchSize} : OldestFirst(b) /\ Fills(b)}
LargestBill == Max({0} \cup {Bill(b) : b \in MayBeCut})
OutToBeBilled == Total([b \in Batch |-> IF b \in Holding THEN Bill(batches[b]) ELSE 0])
CeilingHolds == spent + OutToBeBilled < TokenBudget + MaxConcurrency * LargestBill

(* Once a pass has ended none of its batches is at the provider or on its way there: a *)
(* call made after the budget is gone would be silent (the cancellation in embed).     *)
NoOrphans == ~Running => \A b \in DOMAIN tasks : tasks[b].at \notin {"waiting", "calling"}

(* What a pass stored is never paid for again, a crash between the store and the job's *)
(* completion included: the selection is the resume (embed_pending_chunks).            *)
OnlyTheRestIsPaid == \A b \in Batch : Range(batches[b]) \cap embedded = {}

(* A refusal holds back every batch that has not begun to wait, the refused one among *)
(* them, until the latest moment any refusal named (_publish_cooldown).               *)
CooldownHolds ==
    [][/\ Restarts \/ notBefore <= notBefore'
       /\ \A b \in Batch \cap DOMAIN tasks' :
            /\ tasks'[b].at \in {"waiting", "calling"}
            /\ tasks[b].at = "queued" \/ tasks'[b].attempt # tasks[b].attempt
            => tasks'[b].wake >= notBefore' /\ (tasks'[b].at = "calling" => now >= notBefore')]_passVars

(* What a document's embedding costs is held within the budget, is paid once, and waits *)
(* for the provider's quota (embeddings.py, persistence.py).                            *)
SpendingIsHeld == [](CeilingHolds /\ NoOrphans /\ OnlyTheRestIsPaid) /\ CooldownHolds

(* A pass ends, stored or failed, whatever the provider answers (embed). *)
PassEnds == Running ~> ~Running
=============================================================================
