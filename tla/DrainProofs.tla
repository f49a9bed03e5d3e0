----------------------------- MODULE DrainProofs ----------------------------
(***************************************************************************)
(* Theorems of Drain, for any jobs, workers, kinds and bounds.             *)
(*                                                                         *)
(*   DrainKeepsRows      the composition is a JobStore: what is proved of  *)
(*                       the rows holds of them under bells and drains     *)
(*   SilenceIsExplained  unless a ring was refused, nothing unfinished is  *)
(*                       left behind when the last bell has been answered, *)
(*                       but for a killed worker's work and a retry that   *)
(*                       came due in between                               *)
(*                                                                         *)
(* Silence is no invariant of one drain: what one of them leaves, another  *)
(* has in hand or will still count.  NoneForgotten says who that is.       *)
(***************************************************************************)
EXTENDS Drain, JobStoreProofs

Phases == {"off", "reclaim", "loop", "claimable", "retries", "report"}

Count == [claimable : BOOLEAN, retries : BOOLEAN, past : SUBSET Job, expired : SUBSET Job]

(* What the variables of the doorbell and of the drains hold. *)
DrainTyped ==
    /\ bells \subseteq Bell
    /\ task \in [Worker -> Bell \cup {NoBell}]
    /\ phase \in [Worker -> Phases]
    /\ tried \in [Worker -> Nat]
    /\ ran \in [Worker -> BOOLEAN]
    /\ counted \in [Worker -> Count]
    /\ asking \in Job \cup {NoJob}
    /\ lost \in Nat
    /\ \A w \in Worker : phase[w] # "off" => task[w] \in Bell

(* Jobs are run inside the loop, and a loop begins with nothing tried. *)
DrainsFit ==
    \A w \in Worker : /\ phase[w] # "loop" => pc[w] = "idle" /\ tried[w] = 0
                      /\ pc[w] # "idle" => ran[w]

(* The ring of a request is out until the request commits, unless it was refused. *)
AskedIsRung == asking # NoJob /\ lost = 0 => "api" \in bells

(* Work that only its worker can end has its worker, unless one was killed. *)
Taken(j) == state[j] \in Working \/ (state[j] = "retry_scheduled" /\ retryAt[j] = "null")

TakenIsHeld == \A j \in Job : Taken(j) => Held(j) \/ crashes[j] > 0

(* What the drain has counted makes it ring. *)
WillRing(w) == \/ phase[w] \in {"retries", "report"} /\ counted[w].claimable /\ ran[w]
               \/ phase[w] = "report" /\ counted[w].retries

(* The drain has the kind of the job before it, or has claimed something and will
   count what it leaves. *)
WillFind(w, j) == \/ phase[w] = "loop" /\ (ran[w] \/ Place[KindOf[j]] > tried[w])
                  \/ phase[w] = "claimable" /\ ran[w]

WillWait(w) == phase[w] \in {"loop", "claimable", "retries"}

Covers(w, j) == \/ phase[w] = "reclaim"
                \/ WillRing(w)
                \/ state[j] = "pending" /\ WillFind(w, j)
                \/ state[j] = "retry_scheduled" /\ retryAt[j] = "future" /\ WillWait(w)
                \/ cur[w] = j

Excused(j) == crashes[j] > 0 \/ (state[j] = "retry_scheduled" /\ retryAt[j] = "past")

Due(j) == Unfinished(j) /\ ~Excused(j)

NoneForgotten ==
    lost = 0 /\ bells = {} => \A j \in Job : Due(j) => \E w \in Worker : Covers(w, j)

RowsFit == TypeOK /\ RowInv /\ LockInv

DrainInv == RowsFit /\ DrainTyped /\ DrainsFit /\ AskedIsRung /\ TakenIsHeld /\ NoneForgotten

-----------------------------------------------------------------------------
(* A drain's step on the rows is a step of JobStore, or leaves them alone. *)
LEMMA DrainStepsRows == DrainTyped /\ [DrainNext]_allVars => [Next]_vars
<1> SUFFICES ASSUME DrainTyped, [DrainNext]_allVars PROVE [Next]_vars
  OBVIOUS
<1>1. ASSUME CommitAsk PROVE [Next]_vars
  BY <1>1 DEF CommitAsk, DrainTyped, Next
<1>2. ASSUME NEW w \in Worker, DrainReclaim(w) PROVE [Next]_vars
  BY <1>2 DEF DrainReclaim, Sweep, Next
<1>3. ASSUME NEW w \in Worker, TryKind(w) PROVE [Next]_vars
  <2>. PICK k \in Ahead(w) :
         LET ready == {j \in Job : Runnable(j) /\ KindOf[j] = k}
         IN (\E j \in ready : Claim(w, j)) \/ UNCHANGED vars
    BY <1>3 DEF TryKind
  <2>. QED
    BY DEF Next
<1>4. ASSUME NEW w \in Worker, Work(w) PROVE [Next]_vars
  BY <1>4 DEF Work, Next
<1>5. ASSUME NEW w \in Worker, Kill(w) PROVE [Next]_vars
  BY <1>5 DEF Kill, Next
<1>6. ASSUME NEW j \in Job, Clock(j) PROVE [Next]_vars
  BY <1>6 DEF Clock, Next
<1>. QED
  BY <1>1, <1>2, <1>3, <1>4, <1>5, <1>6
     DEF DrainNext, allVars, Ask, LaterBell, Deliver, LeaveLoop, CountClaimable, CountRetries, Report

(* The places of the loop are places. *)
LEMMA PlacesAreOrdered ==
    /\ \A k \in Kind : Place[k] \in Nat /\ Place[k] > 0
    /\ \A k, l \in Kind : Place[k] = Place[l] => k = l
  BY DEF Place, Kind

(* The empty count is a count. *)
LEMMA NothingIsACount == NothingCounted \in Count
  BY DEF NothingCounted, Count

(* Every step of the doorbell and of the drains keeps their types. *)
LEMMA DrainStepTyped == DrainTyped /\ [DrainNext]_allVars => DrainTyped'
<1> SUFFICES ASSUME DrainTyped, [DrainNext]_allVars PROVE DrainTyped'
  OBVIOUS
<1> USE DrainAssumption DEF DrainTyped, Phases
<1>1. ASSUME NEW j \in Job, NEW heard \in BOOLEAN, Ask(j, heard) PROVE DrainTyped'
  <2>1. bells' \subseteq Bell /\ lost' \in Nat
    <3>1. CASE heard
      BY <1>1, <3>1 DEF Ask, Ring, Bell
    <3>2. CASE ~heard
      BY <1>1, <3>2 DEF Ask, Ring
    <3>. QED
      BY <3>1, <3>2
  <2>. QED
    BY <1>1, <2>1 DEF Ask
<1>2. ASSUME CommitAsk PROVE DrainTyped'
  BY <1>2 DEF CommitAsk
<1>3. ASSUME LaterBell PROVE DrainTyped'
  BY <1>3 DEF LaterBell, Bell
<1>4. ASSUME NEW w \in Worker, NEW b \in Bell, Deliver(w, b) PROVE DrainTyped'
  BY <1>4 DEF Deliver
<1>5. ASSUME NEW w \in Worker, DrainReclaim(w) PROVE DrainTyped'
  BY <1>5 DEF DrainReclaim
<1>6. ASSUME NEW w \in Worker, TryKind(w) PROVE DrainTyped'
  <2>0. UNCHANGED <<bells, task, phase, counted, asking, lost>>
    BY <1>6 DEF TryKind
  <2>1. PICK k \in Kind : /\ ran' = [ran EXCEPT ![w] = TRUE] \/ ran' = ran
                          /\ tried' = [tried EXCEPT ![w] = 0] \/ tried' = [tried EXCEPT ![w] = Place[k]]
    BY <1>6 DEF TryKind, Ahead, Stages
  <2>2. ran' \in [Worker -> BOOLEAN]
    BY <2>1
  <2>3. tried' \in [Worker -> Nat]
    BY <2>1, PlacesAreOrdered
  <2>. QED
    BY <2>0, <2>2, <2>3
<1>7. ASSUME NEW w \in Worker, LeaveLoop(w) PROVE DrainTyped'
  BY <1>7 DEF LeaveLoop, InLoop
<1>8. ASSUME NEW w \in Worker, Work(w) PROVE DrainTyped'
  BY <1>8 DEF Work, drainVars
<1>9. ASSUME NEW w \in Worker, CountClaimable(w) PROVE DrainTyped'
  <2>1. [claimable |-> \E j \in Job : ClaimableNow(j), retries |-> FALSE,
           past |-> {j \in Job : retryAt[j] = "past"},
           expired |-> {j \in Job : lease[j] = "expired"}] \in Count
    BY DEF Count
  <2>. QED
    BY <1>9, <2>1 DEF CountClaimable
<1>10. ASSUME NEW w \in Worker, CountRetries(w) PROVE DrainTyped'
  <2>1. [counted[w] EXCEPT !.retries = \E j \in Job : RetryWaiting(w, j)] \in Count
    BY DEF Count
  <2>. QED
    BY <1>10, <2>1 DEF CountRetries
<1>11. ASSUME NEW w \in Worker, Kill(w) PROVE DrainTyped'
  BY <1>11, NothingIsACount DEF Kill, HangUp
<1>12. ASSUME NEW w \in Worker, NEW heard \in BOOLEAN, Report(w, heard) PROVE DrainTyped'
  <2>1. FollowUp(w) \in Bell \cup {NoBell}
    BY DEF FollowUp, Bell
  <2>. QED
    BY <1>12, <2>1, NothingIsACount DEF Report, Ring, HangUp
<1>13. ASSUME NEW j \in Job, Clock(j) PROVE DrainTyped'
  BY <1>13 DEF Clock, drainVars
<1>14. CASE UNCHANGED allVars
  BY <1>14 DEF allVars, drainVars
<1>. QED
  BY <1>1, <1>2, <1>3, <1>4, <1>5, <1>6, <1>7, <1>8, <1>9, <1>10, <1>11, <1>12, <1>13, <1>14 DEF DrainNext

-----------------------------------------------------------------------------
(* A worker leaves a job by writing its row, or by being killed. *)
LEMMA NextTakenIsHeld == TypeOK /\ TakenIsHeld /\ [Next]_vars => TakenIsHeld'
<1> SUFFICES ASSUME TypeOK, TakenIsHeld, [Next]_vars PROVE TakenIsHeld'
  OBVIOUS
<1> USE JobStoreAssumption DEF TypeOK, TakenIsHeld, Taken, Held, Claimable, Working, Terminal
<1>1. ASSUME NEW j \in Job, Enqueue(j) PROVE TakenIsHeld'
  BY <1>1 DEF Enqueue, workerVars, countVars
<1>2. ASSUME NEW j \in Job, Requeue(j) PROVE TakenIsHeld'
  BY <1>2 DEF Requeue, workerVars
<1>3. ASSUME NEW j \in Job, LeaseExpires(j) PROVE TakenIsHeld'
  BY <1>3 DEF LeaseExpires, workerVars
<1>4. ASSUME NEW j \in Job, BackoffElapses(j) PROVE TakenIsHeld'
  BY <1>4 DEF BackoffElapses, workerVars, countVars
<1>5. ASSUME NEW w \in Worker, NEW j \in Job, Claim(w, j) PROVE TakenIsHeld'
  BY <1>5 DEF Claim, countVars
<1>6. ASSUME NEW w \in Worker, Begin(w) PROVE TakenIsHeld'
  BY <1>6 DEF Begin, countVars
<1>7. ASSUME NEW w \in Worker, WriteRow(w) PROVE TakenIsHeld'
  BY <1>7 DEF WriteRow, countVars
<1>8. ASSUME NEW w \in Worker, Raise(w) PROVE TakenIsHeld'
  BY <1>8 DEF Raise, countVars
<1>9. ASSUME NEW w \in Worker, NEW queued \in SUBSET Job, Commit(w, queued) PROVE TakenIsHeld'
  BY <1>9 DEF Commit, Fresh, Reopenable, Rest
<1>10. ASSUME NEW w \in Worker, NEW retryable \in BOOLEAN, RecordFailure(w, retryable)
       PROVE TakenIsHeld'
  BY <1>10 DEF RecordFailure, FailureState, RetryTime, Rest, countVars
<1>11. ASSUME NEW w \in Worker, Crash(w) PROVE TakenIsHeld'
  BY <1>11 DEF Crash, Rest
<1>12. ASSUME NEW w \in Worker, Reclaim(w) PROVE TakenIsHeld'
  BY <1>12 DEF Reclaim, Expired, workerVars, countVars
<1>13. CASE UNCHANGED vars
  BY <1>13 DEF vars, rowVars, workerVars, countVars
<1>14. QED
  BY <1>1, <1>2, <1>3, <1>4, <1>5, <1>6, <1>7, <1>8, <1>9, <1>10, <1>11, <1>12, <1>13
     DEF Next

(* Only a drain in its loop takes a job up, and taking one up is progress. *)
LEMMA DrainStepFits ==
  ASSUME TypeOK, DrainTyped, DrainsFit, [DrainNext]_allVars
  PROVE  DrainsFit'
<1> USE JobStoreAssumption DEF TypeOK, DrainTyped, DrainsFit, workerVars, vars
<1>1. ASSUME NEW j \in Job, NEW heard \in BOOLEAN, Ask(j, heard) PROVE DrainsFit'
  BY <1>1 DEF Ask
<1>2. ASSUME CommitAsk PROVE DrainsFit'
  BY <1>2 DEF CommitAsk, Enqueue, Requeue
<1>3. ASSUME LaterBell PROVE DrainsFit'
  BY <1>3 DEF LaterBell
<1>4. ASSUME NEW w \in Worker, NEW b \in Bell, Deliver(w, b) PROVE DrainsFit'
  BY <1>4 DEF Deliver
<1>5. ASSUME NEW w \in Worker, DrainReclaim(w) PROVE DrainsFit'
  BY <1>5 DEF DrainReclaim, Sweep, Reclaim
<1>6. ASSUME NEW w \in Worker, TryKind(w) PROVE DrainsFit'
  <2>1. /\ phase[w] = "loop" /\ UNCHANGED phase
        /\ \/ UNCHANGED pc /\ UNCHANGED ran
           \/ (\E j \in Job : Claim(w, j)) /\ ran' = [ran EXCEPT ![w] = TRUE]
        /\ \A u \in Worker \ {w} : tried'[u] = tried[u]
    BY <1>6 DEF TryKind, InLoop
  <2>2. CASE UNCHANGED pc /\ UNCHANGED ran
    BY <2>1, <2>2
  <2>3. CASE (\E j \in Job : Claim(w, j)) /\ ran' = [ran EXCEPT ![w] = TRUE]
    <3>1. ran'[w] /\ \A u \in Worker \ {w} : pc'[u] = pc[u] /\ ran'[u] = ran[u]
      BY <2>3 DEF Claim
    <3>. QED
      BY <2>1, <3>1
  <2>. QED
    BY <2>1, <2>2, <2>3
<1>7. ASSUME NEW w \in Worker, LeaveLoop(w) PROVE DrainsFit'
  BY <1>7 DEF LeaveLoop, InLoop
<1>8. ASSUME NEW w \in Worker, Work(w) PROVE DrainsFit'
  <2>1. phase[w] = "loop" /\ UNCHANGED <<phase, tried, ran>> /\ pc[w] # "idle"
        /\ \A u \in Worker \ {w} : pc'[u] = pc[u]
    BY <1>8 DEF Work, drainVars, Begin, WriteRow, Raise, Commit, RecordFailure, Rest
  <2>. QED
    BY <2>1
<1>9. ASSUME NEW w \in Worker, CountClaimable(w) PROVE DrainsFit'
  BY <1>9 DEF CountClaimable
<1>10. ASSUME NEW w \in Worker, CountRetries(w) PROVE DrainsFit'
  BY <1>10 DEF CountRetries
<1>11. ASSUME NEW w \in Worker, Kill(w) PROVE DrainsFit'
  <2>1. pc'[w] = "idle" /\ \A u \in Worker \ {w} : pc'[u] = pc[u]
    BY <1>11 DEF Kill, Crash, Rest
  <2>. QED
    BY <1>11, <2>1 DEF Kill, HangUp
<1>12. ASSUME NEW w \in Worker, NEW heard \in BOOLEAN, Report(w, heard) PROVE DrainsFit'
  BY <1>12 DEF Report, HangUp
<1>13. ASSUME NEW j \in Job, Clock(j) PROVE DrainsFit'
  BY <1>13 DEF Clock, drainVars, LeaseExpires, BackoffElapses
<1>14. CASE UNCHANGED allVars
  BY <1>14 DEF allVars, drainVars
<1>. QED
  BY <1>1, <1>2, <1>3, <1>4, <1>5, <1>6, <1>7, <1>8, <1>9, <1>10, <1>11, <1>12, <1>13, <1>14 DEF DrainNext

(* An API bell is not delivered while a request may still commit. *)
LEMMA DrainStepAsked ==
  ASSUME DrainTyped, AskedIsRung, [DrainNext]_allVars
  PROVE  AskedIsRung'
<1> USE DEF DrainTyped, AskedIsRung
<1>1. ASSUME NEW j \in Job, NEW heard \in BOOLEAN, Ask(j, heard) PROVE AskedIsRung'
  BY <1>1 DEF Ask, Ring
<1>2. CASE CommitAsk
  BY <1>2 DEF CommitAsk
<1>3. CASE LaterBell
  BY <1>3 DEF LaterBell
<1>4. ASSUME NEW w \in Worker, NEW b \in Bell, Deliver(w, b) PROVE AskedIsRung'
  BY <1>4 DEF Deliver, Deferred
<1>5. ASSUME NEW w \in Worker, Kill(w) PROVE AskedIsRung'
  BY <1>5 DEF Kill
<1>6. ASSUME NEW w \in Worker, NEW heard \in BOOLEAN, Report(w, heard) PROVE AskedIsRung'
  BY <1>6 DEF Report, Ring
<1>. QED
  BY <1>1, <1>2, <1>3, <1>4, <1>5, <1>6
     DEF DrainNext, allVars, drainVars, DrainReclaim, TryKind, LeaveLoop, Work, CountClaimable,
         CountRetries, Clock

-----------------------------------------------------------------------------
(* What is due and in nobody's hands is pending, or waits for its backoff. *)
Waiting(j) == state[j] = "pending" \/ (state[j] = "retry_scheduled" /\ retryAt[j] = "future")

DueInHandOrWaits == \A j \in Job : Due(j) => Waiting(j) \/ \E w \in Worker : Covers(w, j)

LEMMA DueIsTakenOrWaits == TypeOK /\ TakenIsHeld => DueInHandOrWaits
<1>. SUFFICES ASSUME TypeOK, TakenIsHeld, NEW j \in Job, Due(j)
              PROVE  Waiting(j) \/ \E w \in Worker : Covers(w, j)
  BY DEF DueInHandOrWaits
<1>1. state[j] \in Claimable \cup Working /\ ~Excused(j)
  BY DEF Due, Unfinished
<1>2. CASE Taken(j)
  BY <1>1, <1>2 DEF TakenIsHeld, Excused, Held, Covers
<1>3. CASE ~Taken(j)
  BY <1>1, <1>3 DEF Taken, Waiting, Excused, TypeOK, Claimable, Working
<1>. QED
  BY <1>2, <1>3

(* A drain that stands still covers what it covered, if the job does too. *)
StandsStill(w) == phase'[w] = phase[w] /\ tried'[w] = tried[w] /\ ran'[w] = ran[w]
                     /\ counted'[w] = counted[w] /\ cur'[w] = cur[w]

JobStands(j) == state'[j] = state[j] /\ retryAt'[j] = retryAt[j]

LEMMA StillCovers ==
  ASSUME NEW w \in Worker, NEW j \in Job, Covers(w, j), StandsStill(w), JobStands(j)
  PROVE  Covers(w, j)'
  BY DEF Covers, StandsStill, JobStands, WillRing, WillFind, WillWait

(* A pending row can be claimed, unless its lock is with a worker that has the job. *)
LEMMA PendingIsRunnable ==
  ASSUME RowsFit, NEW j \in Job, state[j] = "pending"
  PROVE  Runnable(j) \/ \E w \in Worker : cur[w] = j
<1>1. retryAt[j] = "null" /\ lease[j] = "null"
  BY DEF RowsFit, RowInv, QuietRows, WorkingRowIsRecoverable, Working
<1>2. writer[j] = NoWorker \/ \E w \in Worker : cur[w] = j
  BY DEF RowsFit, LockInv, TypeOK
<1>. QED
  BY <1>1, <1>2 DEF Runnable, Claimable

(* A job due under the same rows was due before. *)
LEMMA DueWas ==
  ASSUME NEW j \in Job, UNCHANGED vars, UNCHANGED embedder, Due(j)'
  PROVE  Due(j) /\ \A w \in Worker : cur'[w] = cur[w]
  BY DEF Due, Unfinished, Excused, vars, rowVars, workerVars, countVars

(* Whatever step is taken, a job that waits is still somebody's. *)
LEMMA DrainStepCovers ==
  ASSUME DrainInv, TypeOK', TakenIsHeld', [DrainNext]_allVars
  PROVE  NoneForgotten'
<1>1. DueInHandOrWaits'
  BY DueIsTakenOrWaits, PTL
<1>2. SUFFICES ASSUME lost' = 0, bells' = {}, NEW j \in Job, Due(j)', Waiting(j)'
               PROVE  \E w \in Worker : Covers(w, j)'
  BY <1>1 DEF NoneForgotten, DueInHandOrWaits
<1> USE DEF DrainInv, DrainTyped
<1>3. Place[KindOf[j]] \in Nat /\ Place[KindOf[j]] > 0
  BY PlacesAreOrdered, JobStoreAssumption
(* Who covered the job before, where this step has not touched its row. *)
<1>4. ASSUME UNCHANGED vars, UNCHANGED embedder, lost = 0, bells = {}
      PROVE  JobStands(j) /\ Due(j) /\ Waiting(j) /\ \E u \in Worker : Covers(u, j)
  BY <1>2, <1>4, DueWas DEF NoneForgotten, JobStands, Waiting, vars, rowVars
<1>5. ASSUME NEW i \in Job, NEW heard \in BOOLEAN, Ask(i, heard) PROVE FALSE
  BY <1>2, <1>5 DEF Ask, Ring
<1>6. CASE CommitAsk
  BY <1>2, <1>6 DEF CommitAsk, AskedIsRung
<1>7. CASE LaterBell
  BY <1>2, <1>7 DEF LaterBell
<1>8. ASSUME NEW w \in Worker, NEW b \in Bell, Deliver(w, b) PROVE Covers(w, j)'
  BY <1>8 DEF Deliver, Covers
<1>9. ASSUME NEW w \in Worker, DrainReclaim(w) PROVE Covers(w, j)'
  <2>1. phase'[w] = "loop" /\ tried'[w] = 0
    BY <1>9 DEF DrainReclaim, DrainsFit
  <2>. QED
    BY <2>1, <1>2, <1>3 DEF Covers, Waiting, WillFind, WillWait
<1>10. ASSUME NEW w \in Worker, TryKind(w) PROVE \E u \in Worker : Covers(u, j)'
  <2>1. phase[w] = "loop" /\ UNCHANGED <<bells, phase, counted, embedder, lost>>
    BY <1>10 DEF TryKind, InLoop
  <2>2. PICK k \in Ahead(w) :
          /\ \A l \in Ahead(w) : Place[k] <= Place[l]
          /\ \/ ran' = [ran EXCEPT ![w] = TRUE]
             \/ /\ ~\E i \in Job : Runnable(i) /\ KindOf[i] = k
                /\ tried' = [tried EXCEPT ![w] = Place[k]]
                /\ UNCHANGED <<vars, ran>>
    BY <1>10 DEF TryKind
  <2>3. CASE ran' = [ran EXCEPT ![w] = TRUE]
    BY <1>2, <2>1, <2>3 DEF Covers, Waiting, WillFind, WillWait
  <2>4. CASE /\ ~\E i \in Job : Runnable(i) /\ KindOf[i] = k
             /\ tried' = [tried EXCEPT ![w] = Place[k]]
             /\ UNCHANGED <<vars, ran>>
    <3>1. JobStands(j) /\ Due(j) /\ Waiting(j) /\ \E u \in Worker : Covers(u, j)
      BY <1>2, <1>4, <2>1, <2>4
    <3>2. PICK u \in Worker : Covers(u, j)
      BY <3>1
    <3>3. UNCHANGED cur
      BY <2>4 DEF vars, workerVars
    <3>4. CASE u # w
      <4>1. StandsStill(u)
        BY <2>1, <2>4, <3>3, <3>4 DEF StandsStill
      <4>. QED
        BY <3>1, <3>2, <4>1, StillCovers
    <3>5. CASE u = w /\ state[j] = "pending" /\ ~ran[w] /\ Place[KindOf[j]] > tried[w]
      <4>1. KindOf[j] \in Ahead(w)
        BY <3>1, <3>5, JobStoreAssumption DEF Ahead, Stages, Due, Unfinished
      <4>2. CASE KindOf[j] = k
        <5>1. \E v \in Worker : cur[v] = j
          BY <2>4, <3>5, <4>2, PendingIsRunnable
        <5>. QED
          BY <3>3, <5>1 DEF Covers
      <4>3. CASE KindOf[j] # k
        <5>1. k \in Kind /\ KindOf[j] \in Kind
          BY <4>1 DEF Ahead, Stages
        <5>2. Place[KindOf[j]] > Place[k]
          BY <2>2, <4>1, <4>3, <5>1, PlacesAreOrdered
        <5>3. Place[KindOf[j]] > tried'[w] /\ phase'[w] = "loop" /\ state'[j] = "pending"
          BY <2>1, <2>4, <3>1, <3>5, <5>2 DEF JobStands
        <5>. QED
          BY <5>3 DEF Covers, WillFind
      <4>. QED
        BY <4>2, <4>3
    <3>6. CASE u = w /\ ~(state[j] = "pending" /\ ~ran[w] /\ Place[KindOf[j]] > tried[w])
      BY <2>1, <2>4, <3>1, <3>2, <3>3, <3>6 DEF Covers, WillRing, WillFind, WillWait, JobStands
    <3>. QED
      BY <3>4, <3>5, <3>6
  <2>. QED
    BY <2>2, <2>3, <2>4
<1>11. ASSUME NEW w \in Worker, LeaveLoop(w) PROVE \E u \in Worker : Covers(u, j)'
  <2>1. /\ phase[w] = "loop" /\ (Ahead(w) = {} \/ ran[w])
        /\ UNCHANGED <<vars, bells, ran, counted, embedder, lost>>
        /\ phase' = [phase EXCEPT ![w] = "claimable"]
        /\ tried' = [tried EXCEPT ![w] = 0]
    BY <1>11 DEF LeaveLoop, InLoop
  <2>2. JobStands(j) /\ Due(j) /\ Waiting(j) /\ UNCHANGED cur
    BY <1>2, <1>4, <2>1 DEF vars, workerVars
  <2>3. PICK u \in Worker : Covers(u, j)
    BY <1>2, <1>4, <2>1
  <2>4. CASE u # w
    <3>1. StandsStill(u)
      BY <2>1, <2>2, <2>4 DEF StandsStill
    <3>. QED
      BY <2>2, <2>3, <3>1, StillCovers
  <2>5. CASE u = w /\ state[j] = "pending"
    <3>1. Place[KindOf[j]] > tried[w] => KindOf[j] \in Ahead(w)
      BY <2>2, JobStoreAssumption DEF Ahead, Stages, Due, Unfinished
    <3>2. ran[w] \/ cur[w] = j
      BY <2>1, <2>3, <2>5, <3>1 DEF Covers, WillRing, WillFind
    <3>. QED
      BY <2>1, <2>2, <2>5, <3>2 DEF Covers, WillFind, JobStands
  <2>6. CASE u = w /\ state[j] # "pending"
    BY <2>1, <2>2, <2>6 DEF Covers, Waiting, WillWait, JobStands
  <2>. QED
    BY <2>4, <2>5, <2>6
<1>12. ASSUME NEW w \in Worker, Work(w) PROVE Covers(w, j)'
  <2>1. phase[w] = "loop" /\ UNCHANGED <<phase, ran>> /\ pc[w] # "idle"
    BY <1>12 DEF Work, drainVars, Begin, WriteRow, Raise, Commit, RecordFailure
  <2>2. phase'[w] = "loop" /\ ran'[w]
    BY <2>1 DEF DrainsFit
  <2>. QED
    BY <2>2, <1>2 DEF Covers, Waiting, WillFind, WillWait
<1>13. ASSUME NEW w \in Worker, CountClaimable(w) PROVE \E u \in Worker : Covers(u, j)'
  <2>1. /\ phase[w] = "claimable"
        /\ UNCHANGED <<vars, bells, tried, ran, embedder, lost>>
        /\ phase' = [phase EXCEPT ![w] = "retries"]
        /\ counted'[w].claimable = \E i \in Job : ClaimableNow(i)
        /\ \A v \in Worker \ {w} : counted'[v] = counted[v]
    BY <1>13 DEF CountClaimable
  <2>2. JobStands(j) /\ Waiting(j) /\ UNCHANGED cur
    BY <1>2, <1>4, <2>1 DEF vars, workerVars
  <2>3. PICK u \in Worker : Covers(u, j)
    BY <1>2, <1>4, <2>1
  <2>4. CASE u # w
    <3>1. StandsStill(u)
      BY <2>1, <2>2, <2>4 DEF StandsStill
    <3>. QED
      BY <2>2, <2>3, <3>1, StillCovers
  <2>5. CASE u = w /\ state[j] = "pending"
    <3>1. ran[w] \/ cur[w] = j
      BY <2>1, <2>3, <2>5 DEF Covers, WillRing, WillFind
    <3>2. ClaimableNow(j)
      BY <2>5 DEF ClaimableNow
    <3>. QED
      BY <2>1, <2>2, <3>1, <3>2 DEF Covers, WillRing
  <2>6. CASE u = w /\ state[j] # "pending"
    BY <2>1, <2>2, <2>6 DEF Covers, Waiting, WillWait, JobStands
  <2>. QED
    BY <2>4, <2>5, <2>6
<1>14. ASSUME NEW w \in Worker, CountRetries(w) PROVE \E u \in Worker : Covers(u, j)'
  <2>1. /\ phase[w] = "retries"
        /\ UNCHANGED <<vars, bells, tried, ran, embedder, lost>>
        /\ phase' = [phase EXCEPT ![w] = "report"]
        /\ counted' = [counted EXCEPT ![w].retries = \E i \in Job : RetryWaiting(w, i)]
    BY <1>14 DEF CountRetries
  <2>2. JobStands(j) /\ Waiting(j) /\ UNCHANGED cur
    BY <1>2, <1>4, <2>1 DEF vars, workerVars
  <2>3. PICK u \in Worker : Covers(u, j)
    BY <1>2, <1>4, <2>1
  <2>4. CASE u # w
    <3>1. StandsStill(u)
      BY <2>1, <2>2, <2>4 DEF StandsStill
    <3>. QED
      BY <2>2, <2>3, <3>1, StillCovers
  <2>5. CASE u = w
    <3>1. counted'[w].claimable = counted[w].claimable
      BY <2>1 DEF Count
    <3>2. counted'[w].retries = \E i \in Job : RetryWaiting(w, i)
      BY <2>1 DEF Count
    <3>3. state[j] = "pending" => (counted[w].claimable /\ ran[w]) \/ cur[w] = j
      BY <2>1, <2>3, <2>5 DEF Covers, WillRing, WillFind
    <3>4. state[j] # "pending" => RetryWaiting(w, j)
      BY <2>2 DEF RetryWaiting, Waiting
    <3>. QED
      BY <2>1, <2>2, <3>1, <3>2, <3>3, <3>4 DEF Covers, WillRing
  <2>. QED
    BY <2>4, <2>5
<1>15. ASSUME NEW w \in Worker, Kill(w) PROVE FALSE
  BY <1>2, <1>15 DEF Kill
<1>16. ASSUME NEW w \in Worker, NEW heard \in BOOLEAN, Report(w, heard)
       PROVE  \E u \in Worker : Covers(u, j)'
  <2>1. /\ phase[w] = "report" /\ pc[w] = "idle"
        /\ UNCHANGED <<vars, embedder>>
        /\ \A v \in Worker \ {w} : /\ phase'[v] = phase[v] /\ tried'[v] = tried[v]
                                   /\ ran'[v] = ran[v] /\ counted'[v] = counted[v]
    BY <1>16 DEF Report, HangUp, DrainsFit
  <2>2. FollowUp(w) = NoBell /\ UNCHANGED <<bells, lost>>
    BY <1>2, <1>16 DEF Report, Ring
  <2>3. JobStands(j) /\ UNCHANGED cur
    BY <1>2, <1>4, <2>1, <2>2 DEF vars, workerVars
  <2>4. PICK u \in Worker : Covers(u, j)
    BY <1>2, <1>4, <2>1, <2>2
  <2>5. CASE u # w
    <3>1. StandsStill(u)
      BY <2>1, <2>3, <2>5 DEF StandsStill
    <3>. QED
      BY <2>3, <2>4, <3>1, StillCovers
  <2>6. CASE u = w
    <3>1. ~WillRing(w)
      BY <2>2, DrainAssumption DEF WillRing, FollowUp, Bell
    <3>2. cur[w] = NoJob
      BY <2>1 DEF RowsFit, TypeOK
    <3>. QED
      BY <2>1, <2>4, <2>6, <3>1, <3>2, JobStoreAssumption DEF Covers, WillFind, WillWait
  <2>. QED
    BY <2>5, <2>6
<1>17. ASSUME NEW i \in Job, Clock(i) PROVE \E u \in Worker : Covers(u, j)'
  <2>1. /\ UNCHANGED <<bells, phase, tried, ran, counted, embedder, lost>>
        /\ UNCHANGED <<state, cur, crashes>>
        /\ retryAt'[j] = retryAt[j] \/ (retryAt[j] = "future" /\ retryAt'[j] = "past")
    BY <1>17 DEF Clock, drainVars, LeaseExpires, BackoffElapses, workerVars, countVars, RowsFit, TypeOK
  <2>2. state[j] = "pending" => retryAt[j] = "null"
    BY DEF RowsFit, RowInv, QuietRows
  <2>3. JobStands(j)
    BY <1>2, <2>1, <2>2 DEF JobStands, Waiting
  <2>4. Due(j)
    BY <1>2, <2>1, <2>3 DEF Due, Unfinished, Excused, JobStands
  <2>5. PICK u \in Worker : Covers(u, j)
    BY <1>2, <2>1, <2>4 DEF NoneForgotten
  <2>. QED
    BY <2>1, <2>3, <2>5, StillCovers DEF StandsStill
<1>18. CASE UNCHANGED allVars
  <2>1. UNCHANGED <<vars, bells, phase, tried, ran, counted, embedder, lost, cur>>
    BY <1>18 DEF allVars, drainVars, vars, workerVars
  <2>2. PICK u \in Worker : Covers(u, j)
    BY <1>2, <1>4, <2>1
  <2>. QED
    BY <1>2, <1>4, <2>1, <2>2, StillCovers DEF StandsStill
<1>. QED
  BY <1>5, <1>6, <1>7, <1>8, <1>9, <1>10, <1>11, <1>12, <1>13, <1>14, <1>15, <1>16, <1>17, <1>18
     DEF DrainNext

(* The conjuncts of DrainInv are kept together. *)
LEMMA DrainKeepsInv == DrainInv /\ [DrainNext]_allVars => DrainInv'
<1>. SUFFICES ASSUME DrainInv, [DrainNext]_allVars PROVE DrainInv'
  OBVIOUS
<1>1. [Next]_vars
  BY DrainStepsRows DEF DrainInv
<1>2. RowsFit'
  BY <1>1, NextTypeOK, NextRowInv, NextLockInv DEF DrainInv, RowsFit
<1>3. DrainTyped'
  BY DrainStepTyped DEF DrainInv
<1>4. DrainsFit' /\ AskedIsRung'
  BY DrainStepFits, DrainStepAsked DEF DrainInv, RowsFit
<1>5. TakenIsHeld'
  BY <1>1, NextTakenIsHeld DEF DrainInv, RowsFit
<1>6. NoneForgotten'
  BY <1>2, <1>5, DrainStepCovers DEF RowsFit
<1>. QED
  BY <1>2, <1>3, <1>4, <1>5, <1>6 DEF DrainInv

(* Nothing is queued, so nothing is due. *)
LEMMA DrainInitInv == DrainInit => DrainInv
<1>. SUFFICES ASSUME DrainInit PROVE DrainInv
  OBVIOUS
<1>1. RowsFit
  BY InitTypeOK, JobStoreAssumption
     DEF DrainInit, Init, RowsFit, RowInv, LockInv, WorkingRowIsRecoverable, QuietRows, Working
<1>2. DrainTyped /\ DrainsFit /\ AskedIsRung
  BY NothingIsACount DEF DrainInit, Init, DrainTyped, DrainsFit, AskedIsRung, Phases
<1>3. TakenIsHeld /\ NoneForgotten
  BY DEF DrainInit, Init, TakenIsHeld, Taken, NoneForgotten, Due, Unfinished, Claimable, Working
<1>. QED
  BY <1>1, <1>2, <1>3 DEF DrainInv

(* The doorbell and the drains only drive the rows: whatever they do is a behaviour
   of JobStore, so its theorems hold under them (drain_org calls process_* and
   reclaim_expired_leases, a request the queueing statements, and nothing else). *)
THEOREM DrainKeepsRows == DrainSpec => Spec
<1>1. DrainInv /\ [DrainNext]_allVars => [Next]_vars
  BY DrainStepsRows DEF DrainInv
<1>2. DrainInit => Init
  BY DEF DrainInit
<1>. QED
  BY <1>1, <1>2, DrainInitInv, DrainKeepsInv, PTL DEF DrainSpec, Spec

(* When the last bell has been answered and none was refused, what is unfinished was
   left by a killed worker, or is a retry that came due between the loop's last look
   and the count: with any number of drains, coalesced bells, deadlines, kills and
   lease overruns (drain_and_report and ring_doorbell). *)
THEOREM SilenceIsExplained == DrainSpec => []SilenceExplained
<1>1. DrainInv => SilenceExplained
  <2>. SUFFICES ASSUME DrainInv, Quiet, lost = 0, NEW j \in Job, Unfinished(j), ~Excused(j)
                PROVE  FALSE
    BY DEF SilenceExplained, Excused
  <2>1. PICK w \in Worker : Covers(w, j)
    BY DEF DrainInv, NoneForgotten, Quiet, Due
  <2>2. phase[w] = "off" /\ cur[w] = NoJob
    BY DEF Quiet, DrainInv, DrainsFit, RowsFit, TypeOK
  <2>. QED
    BY <2>1, <2>2, JobStoreAssumption DEF Covers, WillRing, WillFind, WillWait
<1>. QED
  BY <1>1, DrainInitInv, DrainKeepsInv, PTL DEF DrainSpec
=============================================================================
