--------------------------- MODULE ConnectionsProofs ---------------------------
(****************************************************************************)
(* Theorems of Connections, for any connections, requests, workers, states, *)
(* grants and bounds.                                                       *)
(*                                                                          *)
(*   TypeCorrect         the type invariant                                 *)
(*   StatesSpentOnce     an OAuth state reaches the provider at most once   *)
(*   CredentialsEnd      no credential outlives its connection              *)
(*   TokensNeverRaced    the refresh token a worker presents, or leaves in  *)
(*                       the row, is the one the provider honours           *)
(*   StoredTokensAreHonoured                                                *)
(*                       the half of that about the row                     *)
(*   OwnersRespected     no job undoes the owner's decision                 *)
(*                                                                          *)
(* StagesFit strengthens TypeOK with what a process has at each stage. What *)
(* is said of tokens needs three more invariants: grants are not shared     *)
(* (GrantsApart), a refresh and a callback own the credential's row lock    *)
(* (LocksFit), and every known token is the honoured one (TokensFit).       *)
(****************************************************************************)
EXTENDS Connections, TLAPS

(* Requests and workers keep to their own stages, and a process that has a
   grant or a job in hand is at a stage where it needs one. *)
StagesFit ==
    /\ \A r \in Request : pc[r] \in {"idle", "starting", "exchanging", "granted", "stored",
                                     "revoking", "closing"}
    /\ \A w \in Worker : pc[w] \in {"idle", "asking", "posting", "answered", "using", "refused"}
    /\ \A w \in Worker : pc[w] # "idle" => task[w] \in {"walk", "document"}
    /\ \A p \in Process : pc[p] \in {"granted", "stored", "posting", "answered", "using"} =>
          got[p] \in Grant

(* The initial state satisfies both. *)
LEMMA InitTypeOK == Init => TypeOK /\ StagesFit
  BY ConnectionsAssumption DEF Init, TypeOK, StagesFit, Status, Stage, Progress, Process

JobsTyped == job \in [Conn -> [Stage -> Progress]]

(* One job of a connection is given a new progress. *)
LEMMA JobUpdate ==
    ASSUME JobsTyped, NEW c \in Conn, NEW k \in Stage, NEW p \in Progress, SetJob(c, k, p)
    PROVE  JobsTyped'
  BY DEF JobsTyped, SetJob

(* A job ends and the next stage's is queued. *)
LEMMA TwoJobsUpdate ==
    ASSUME JobsTyped, NEW c \in Conn, NEW k \in Stage, NEW i \in Stage, k # i,
           NEW p \in Progress, job' = [job EXCEPT ![c][k] = p, ![c][i] = Queued(@)]
    PROVE  JobsTyped'
<1>1. job[c][i] \in Progress
  BY DEF JobsTyped
<1>2. Queued(job[c][i]) \in Progress
  BY <1>1 DEF Queued, Progress
<1>3. job' = [job EXCEPT ![c] = [[job[c] EXCEPT ![k] = p] EXCEPT ![i] = Queued(job[c][i])]]
  BY DEF JobsTyped
<1>4. QED
  BY <1>2, <1>3 DEF JobsTyped

(* Every operation of the API, the workers and the provider keeps both. *)
LEMMA NextTypeOK == TypeOK /\ StagesFit /\ [Next]_vars => TypeOK' /\ StagesFit'
<1> SUFFICES ASSUME TypeOK, StagesFit, [Next]_vars PROVE TypeOK' /\ StagesFit'
  OBVIOUS
<1> USE ConnectionsAssumption
    DEF TypeOK, StagesFit, Status, Live, Stage, Progress, Over, Process,
        rowVars, credVars, lockVars, procVars, stateVars, providerVars
<1>0. JobsTyped
  BY DEF JobsTyped
<1>1. ASSUME NEW c \in Conn, NEW s \in State, StartNew(c, s) PROVE TypeOK' /\ StagesFit'
  BY <1>1 DEF StartNew, Minted
<1>2. ASSUME NEW r \in Request, NEW c \in Conn, StartLook(r, c)
       PROVE TypeOK' /\ StagesFit'
  BY <1>2 DEF StartLook, Go
<1>3. ASSUME NEW r \in Request, NEW s \in State, StartWrite(r, s)
       PROVE TypeOK' /\ StagesFit'
  BY <1>3 DEF StartWrite, Minted, Rest
<1>4. ASSUME NEW r \in Request, NEW c \in Conn, NEW s \in State, Spend(r, c, s)
       PROVE TypeOK' /\ StagesFit'
  BY <1>4 DEF Spend, Pending, Spent, Go
<1>5. ASSUME NEW r \in Request, NEW g \in Grant, Exchange(r, g)
       PROVE TypeOK' /\ StagesFit'
  BY <1>5 DEF Exchange, Go, Unissued
<1>6. ASSUME NEW r \in Request, Upsert(r) PROVE TypeOK' /\ StagesFit'
  BY <1>6 DEF Upsert, Go
<1>7. ASSUME NEW r \in Request, NEW refresh \in BOOLEAN, Connect(r, refresh)
       PROVE TypeOK' /\ StagesFit'
  BY <1>7 DEF Connect, Unlock, Release, Rest
<1>8. ASSUME NEW c \in Conn, Abandon(c) PROVE TypeOK' /\ StagesFit'
  BY <1>8 DEF Abandon, Pending, Spent
<1>9. ASSUME NEW r \in Request, NEW c \in Conn, Disconnect(r, c)
       PROVE TypeOK' /\ StagesFit'
  BY <1>9 DEF Disconnect, Go
<1>10. ASSUME NEW r \in Request, NEW killed \in BOOLEAN, RevokeUpstream(r, killed)
       PROVE TypeOK' /\ StagesFit'
  BY <1>10 DEF RevokeUpstream, Go
<1>11. ASSUME NEW r \in Request, Close(r) PROVE TypeOK' /\ StagesFit'
  BY <1>11 DEF Close, Forget, Release, Rest
<1>12. ASSUME NEW r \in Request, Quit(r) PROVE TypeOK' /\ StagesFit'
  BY <1>12 DEF Quit, Unlock, Release, Rest
<1>13. ASSUME NEW c \in Conn, SyncNow(c) PROVE TypeOK' /\ StagesFit'
  BY <1>13 DEF SyncNow, SetJob
<1>14. ASSUME NEW c \in Conn, WalkNow(c) PROVE TypeOK' /\ StagesFit'
  BY <1>14 DEF WalkNow, SetJob
<1>15. ASSUME NEW c \in Conn, RunSync(c) PROVE TypeOK' /\ StagesFit'
  <2>1. CASE status[c] \in SYNCABLE_STATES
    <3>1. job' = [job EXCEPT ![c]["sync"] = "completed", ![c]["walk"] = Queued(@)]
      BY <1>15, <2>1 DEF RunSync
    <3>2. JobsTyped'
      BY <1>0, <3>1, TwoJobsUpdate
    <3>3. QED
      BY <1>15, <3>2 DEF JobsTyped, RunSync
  <2>2. CASE status[c] \notin SYNCABLE_STATES
    <3>1. SetJob(c, "sync", "failed")
      BY <1>15, <2>2 DEF RunSync
    <3>2. JobsTyped'
      BY <1>0, <3>1, JobUpdate
    <3>3. QED
      BY <1>15, <3>2 DEF JobsTyped, RunSync
  <2>3. QED
    BY <2>1, <2>2
<1>16. ASSUME NEW w \in Worker, NEW c \in Conn, NEW k \in Stage, Take(w, c, k)
       PROVE TypeOK' /\ StagesFit'
  BY <1>16 DEF Take, SetJob, Go
<1>17. ASSUME NEW c \in Conn, NEW k \in Stage, RefuseUnproven(c, k)
       PROVE TypeOK' /\ StagesFit'
  BY <1>17 DEF RefuseUnproven, SetJob
<1>18. ASSUME NEW w \in Worker, UseStored(w) PROVE TypeOK' /\ StagesFit'
  BY <1>18 DEF UseStored, Go
<1>19. ASSUME NEW w \in Worker, PostRefresh(w) PROVE TypeOK' /\ StagesFit'
  BY <1>19 DEF PostRefresh, LockCredential, Go
<1>20. ASSUME NEW w \in Worker, CannotAsk(w) PROVE TypeOK' /\ StagesFit'
  BY <1>20 DEF CannotAsk, Go
<1>21. ASSUME NEW w \in Worker, NEW next \in 1..MaxSerial, Accept(w, next)
       PROVE TypeOK' /\ StagesFit'
  BY <1>21 DEF Accept, Go
<1>22. ASSUME NEW w \in Worker, Reject(w) PROVE TypeOK' /\ StagesFit'
  BY <1>22 DEF Reject, Release, Go
<1>23. ASSUME NEW w \in Worker, Store(w) PROVE TypeOK' /\ StagesFit'
  BY <1>23 DEF Store, StoreToken, Release, Go
<1>24. ASSUME NEW w \in Worker, AskAgain(w) PROVE TypeOK' /\ StagesFit'
  BY <1>24 DEF AskAgain, Go
<1>25. ASSUME NEW w \in Worker, FinishWalk(w) PROVE TypeOK' /\ StagesFit'
  <2>1. PICK c \in Conn : c = at[w]
    BY <1>25 DEF FinishWalk
  <2>2. job' = [job EXCEPT ![c]["walk"] = "completed", ![c]["document"] = Queued(@)]
    BY <1>25, <2>1 DEF FinishWalk
  <2>3. JobsTyped'
    BY <1>0, <2>2, TwoJobsUpdate
  <2>4. status' \in [Conn -> Status]
    BY <1>25, <2>1 DEF FinishWalk, ReportWalk
  <2>5. UNCHANGED <<oauth, proven, disconnectedAt, grant, serial, fresh, rowLock, credLock,
                    minted, exchanged, honoured, lost>>
    BY <1>25 DEF FinishWalk
  <2>6. Rest(w)
    BY <1>25 DEF FinishWalk
  <2>7. QED
    BY <2>3, <2>4, <2>5, <2>6 DEF JobsTyped, Rest
<1>26. ASSUME NEW w \in Worker, FinishDocument(w) PROVE TypeOK' /\ StagesFit'
  BY <1>26 DEF FinishDocument, SetJob, Rest
<1>27. ASSUME NEW w \in Worker, Unauthorised(w) PROVE TypeOK' /\ StagesFit'
  BY <1>27 DEF Unauthorised, Go
<1>28. ASSUME NEW w \in Worker, RecordReauth(w) PROVE TypeOK' /\ StagesFit'
  <2>1. PICK c \in Conn : c = at[w] /\ task[w] \in Stage
    BY <1>28 DEF RecordReauth
  <2>2. JobsTyped'
    BY <1>28, <1>0, <2>1, JobUpdate DEF RecordReauth
  <2>3. status' \in [Conn -> Status]
    BY <1>28, <2>1 DEF RecordReauth
  <2>4. UNCHANGED <<oauth, proven, disconnectedAt, grant, serial, fresh, rowLock, credLock,
                    minted, exchanged, honoured, lost>>
    BY <1>28 DEF RecordReauth
  <2>5. Rest(w)
    BY <1>28 DEF RecordReauth
  <2>6. QED
    BY <2>2, <2>3, <2>4, <2>5 DEF JobsTyped, Rest
<1>29. ASSUME NEW w \in Worker, NEW next \in {"queued", "failed"}, Fail(w, next)
       PROVE TypeOK' /\ StagesFit'
  <2>1. at[w] \in Conn /\ task[w] \in Stage
    BY <1>29 DEF Fail
  <2>2. JobsTyped'
    BY <1>29, <1>0, <2>1, JobUpdate DEF Fail
  <2>3. QED
    BY <1>29, <2>2 DEF JobsTyped, Fail, Unlock, Release, Rest
<1>30. ASSUME NEW c \in Conn, AccessExpires(c) PROVE TypeOK' /\ StagesFit'
  BY <1>30 DEF AccessExpires
<1>31. ASSUME NEW g \in Grant, Withdraw(g) PROVE TypeOK' /\ StagesFit'
  BY <1>31 DEF Withdraw, Unissued
<1>32. CASE UNCHANGED vars
  BY <1>32 DEF vars
<1> HIDE DEF TypeOK, StagesFit, Status, Live, Stage, Progress, Over, Process
<1>33. QED
  BY <1>1, <1>2, <1>3, <1>4, <1>5, <1>6, <1>7, <1>8, <1>9, <1>10, <1>11, <1>12, <1>13,
     <1>14, <1>15, <1>16, <1>17, <1>18, <1>19, <1>20, <1>21, <1>22, <1>23, <1>24,
     <1>25, <1>26, <1>27, <1>28, <1>29, <1>30, <1>31, <1>32 DEF Next

(* Type correctness of the rows, locks, jobs and processes. *)
THEOREM TypeCorrect == Spec => []TypeOK
  BY InitTypeOK, NextTypeOK, PTL DEF Spec

-----------------------------------------------------------------------------
(* A state that a row still carries was never exchanged, and no two rows carry
   the same one. *)
StatesInv ==
    /\ \A s \in State : exchanged[s] <= 1
    /\ \A s \in State : s \notin minted => exchanged[s] = 0
    /\ \A c \in Conn : oauth[c] # NoState => oauth[c] \in minted /\ exchanged[oauth[c]] = 0
    /\ \A c, d \in Conn : oauth[c] = oauth[d] /\ oauth[c] # NoState => c = d

(* Only a new state, a callback, a denial and a disconnect touch it. *)
LEMMA NextStatesInv == TypeOK /\ StatesInv /\ [Next]_vars => StatesInv'
<1> SUFFICES ASSUME TypeOK, StatesInv, [Next]_vars
             PROVE  StatesInv'
  OBVIOUS
<1> USE ConnectionsAssumption DEF TypeOK, StatesInv, rowVars, credVars, lockVars,
   procVars, stateVars, providerVars
<1>1. ASSUME NEW c \in Conn, NEW s \in State, StartNew(c, s) PROVE StatesInv'
  BY <1>1 DEF StartNew, Minted
<1>2. ASSUME NEW r \in Request, NEW s \in State, StartWrite(r, s) PROVE StatesInv'
  BY <1>2 DEF StartWrite, Minted, Rest
<1>3. ASSUME NEW r \in Request, NEW c \in Conn, NEW s \in State, Spend(r, c, s)
       PROVE StatesInv'
  BY <1>3 DEF Spend, Pending, Spent, Go
<1>4. ASSUME NEW c \in Conn, Abandon(c) PROVE StatesInv'
  BY <1>4 DEF Abandon, Pending, Spent
<1>5. ASSUME NEW r \in Request, Close(r) PROVE StatesInv'
  BY <1>5 DEF Close, Forget, Release, Rest
(* The other actions leave what it speaks of alone. *)
<1>6. ASSUME NEW r \in Request, NEW c \in Conn, StartLook(r, c) \/ Disconnect(r, c)
       PROVE  UNCHANGED <<oauth, minted, exchanged>>
  BY <1>6 DEF StartLook, Disconnect
<1>7. ASSUME NEW r \in Request, NEW g \in Grant, Exchange(r, g)
       PROVE  UNCHANGED <<oauth, minted, exchanged>>
  BY <1>7 DEF Exchange
<1>8. ASSUME NEW r \in Request, Upsert(r) \/ Quit(r)
       PROVE  UNCHANGED <<oauth, minted, exchanged>>
  BY <1>8 DEF Upsert, Quit
<1>9. ASSUME NEW r \in Request, NEW refresh \in BOOLEAN, Connect(r, refresh)
       PROVE  UNCHANGED <<oauth, minted, exchanged>>
  BY <1>9 DEF Connect
<1>10. ASSUME NEW r \in Request, NEW killed \in BOOLEAN, RevokeUpstream(r, killed)
       PROVE  UNCHANGED <<oauth, minted, exchanged>>
  BY <1>10 DEF RevokeUpstream
<1>11. ASSUME NEW c \in Conn, SyncNow(c) \/ WalkNow(c) \/ RunSync(c) \/ AccessExpires(c)
       PROVE  UNCHANGED <<oauth, minted, exchanged>>
  BY <1>11 DEF SyncNow, WalkNow, RunSync, AccessExpires
<1>12. ASSUME NEW w \in Worker, NEW c \in Conn, NEW k \in Stage, Take(w, c, k)
       PROVE  UNCHANGED <<oauth, minted, exchanged>>
  BY <1>12 DEF Take
<1>13. ASSUME NEW c \in Conn, NEW k \in Stage, RefuseUnproven(c, k)
       PROVE  UNCHANGED <<oauth, minted, exchanged>>
  BY <1>13 DEF RefuseUnproven
<1>14. ASSUME NEW w \in Worker, UseStored(w) \/ PostRefresh(w) \/ CannotAsk(w) \/ Reject(w)
       PROVE  UNCHANGED <<oauth, minted, exchanged>>
  BY <1>14 DEF UseStored, PostRefresh, CannotAsk, Reject
<1>15. ASSUME NEW w \in Worker, Store(w) \/ AskAgain(w) \/ FinishWalk(w) \/ FinishDocument(w)
       PROVE  UNCHANGED <<oauth, minted, exchanged>>
  BY <1>15 DEF Store, AskAgain, FinishWalk, FinishDocument
<1>16. ASSUME NEW w \in Worker, Unauthorised(w) \/ RecordReauth(w)
       PROVE  UNCHANGED <<oauth, minted, exchanged>>
  BY <1>16 DEF Unauthorised, RecordReauth
<1>17. ASSUME NEW w \in Worker, NEW next \in 1..MaxSerial, Accept(w, next)
       PROVE  UNCHANGED <<oauth, minted, exchanged>>
  BY <1>17 DEF Accept
<1>18. ASSUME NEW w \in Worker, NEW next \in {"queued", "failed"}, Fail(w, next)
       PROVE  UNCHANGED <<oauth, minted, exchanged>>
  BY <1>18 DEF Fail
<1>19. ASSUME NEW g \in Grant, Withdraw(g)
       PROVE  UNCHANGED <<oauth, minted, exchanged>>
  BY <1>19 DEF Withdraw
<1>20. CASE UNCHANGED <<oauth, minted, exchanged>>
  BY <1>20
<1>21. CASE UNCHANGED vars
  BY <1>21 DEF vars
<1> HIDE DEF TypeOK, StatesInv
<1>22. QED
  BY <1>1, <1>2, <1>3, <1>4, <1>5, <1>6, <1>7, <1>8, <1>9, <1>10, <1>11, <1>12, <1>13,
     <1>14, <1>15, <1>16, <1>17, <1>18, <1>19, <1>20, <1>21 DEF Next

(* An OAuth state is exchanged at most once, however often the redirect is
   repeated and whatever becomes of the request that spent it. *)
THEOREM StatesSpentOnce == Spec => []StateSpentOnce
<1>1. Init => StatesInv
  BY ConnectionsAssumption DEF Init, StatesInv
<1>2. StatesInv => StateSpentOnce
  BY DEF StatesInv, StateSpentOnce
<1>3. QED
  BY <1>1, <1>2, InitTypeOK, NextTypeOK, NextStatesInv, PTL DEF Spec

-----------------------------------------------------------------------------
(* A credential is written with its row's `connected', and a row that ends takes
   its credential with it: each of the other writes of a status keeps it live. *)
LEMMA NextNoCredentialLeft == TypeOK /\ NoCredentialLeft /\ [Next]_vars => NoCredentialLeft'
<1> SUFFICES ASSUME TypeOK, NoCredentialLeft, [Next]_vars
             PROVE  NoCredentialLeft'
  OBVIOUS
<1> USE ConnectionsAssumption DEF TypeOK, NoCredentialLeft, Status, Live, rowVars,
   credVars, lockVars, procVars, stateVars, providerVars
<1>1. ASSUME NEW c \in Conn, NEW s \in State, StartNew(c, s) PROVE NoCredentialLeft'
  BY <1>1 DEF StartNew, Minted
<1>2. ASSUME NEW r \in Request, NEW s \in State, StartWrite(r, s) PROVE NoCredentialLeft'
  BY <1>2 DEF StartWrite, Minted, Rest
<1>3. ASSUME NEW r \in Request, NEW refresh \in BOOLEAN, Connect(r, refresh)
       PROVE NoCredentialLeft'
  BY <1>3 DEF Connect, Unlock, Release, Rest
<1>4. ASSUME NEW c \in Conn, Abandon(c) PROVE NoCredentialLeft'
  BY <1>4 DEF Abandon, Pending, Spent
<1>5. ASSUME NEW r \in Request, Close(r) PROVE NoCredentialLeft'
  BY <1>5 DEF Close, Forget, Release, Rest
<1>6. ASSUME NEW w \in Worker, FinishWalk(w) PROVE NoCredentialLeft'
  BY <1>6 DEF FinishWalk, ReportWalk, Rest
<1>7. ASSUME NEW w \in Worker, RecordReauth(w) PROVE NoCredentialLeft'
  BY <1>7 DEF RecordReauth, Rest
(* The other actions leave what it speaks of alone. *)
<1>8. ASSUME NEW r \in Request, NEW c \in Conn, StartLook(r, c) \/ Disconnect(r, c)
       PROVE  UNCHANGED <<status, grant>>
  BY <1>8 DEF StartLook, Disconnect
<1>9. ASSUME NEW r \in Request, NEW c \in Conn, NEW s \in State, Spend(r, c, s)
       PROVE  UNCHANGED <<status, grant>>
  BY <1>9 DEF Spend
<1>10. ASSUME NEW r \in Request, NEW g \in Grant, Exchange(r, g)
       PROVE  UNCHANGED <<status, grant>>
  BY <1>10 DEF Exchange
<1>11. ASSUME NEW r \in Request, Upsert(r) \/ Quit(r)
       PROVE  UNCHANGED <<status, grant>>
  BY <1>11 DEF Upsert, Quit
<1>12. ASSUME NEW r \in Request, NEW killed \in BOOLEAN, RevokeUpstream(r, killed)
       PROVE  UNCHANGED <<status, grant>>
  BY <1>12 DEF RevokeUpstream
<1>13. ASSUME NEW c \in Conn, SyncNow(c) \/ WalkNow(c) \/ RunSync(c) \/ AccessExpires(c)
       PROVE  UNCHANGED <<status, grant>>
  BY <1>13 DEF SyncNow, WalkNow, RunSync, AccessExpires
<1>14. ASSUME NEW w \in Worker, NEW c \in Conn, NEW k \in Stage, Take(w, c, k)
       PROVE  UNCHANGED <<status, grant>>
  BY <1>14 DEF Take
<1>15. ASSUME NEW c \in Conn, NEW k \in Stage, RefuseUnproven(c, k)
       PROVE  UNCHANGED <<status, grant>>
  BY <1>15 DEF RefuseUnproven
<1>16. ASSUME NEW w \in Worker, UseStored(w) \/ PostRefresh(w) \/ CannotAsk(w) \/ Reject(w)
       PROVE  UNCHANGED <<status, grant>>
  BY <1>16 DEF UseStored, PostRefresh, CannotAsk, Reject
<1>17. ASSUME NEW w \in Worker, Store(w) \/ AskAgain(w) \/ FinishDocument(w) \/ Unauthorised(w)
       PROVE  UNCHANGED <<status, grant>>
  BY <1>17 DEF Store, AskAgain, FinishDocument, Unauthorised
<1>18. ASSUME NEW w \in Worker, NEW next \in 1..MaxSerial, Accept(w, next)
       PROVE  UNCHANGED <<status, grant>>
  BY <1>18 DEF Accept
<1>19. ASSUME NEW w \in Worker, NEW next \in {"queued", "failed"}, Fail(w, next)
       PROVE  UNCHANGED <<status, grant>>
  BY <1>19 DEF Fail
<1>20. ASSUME NEW g \in Grant, Withdraw(g)
       PROVE  UNCHANGED <<status, grant>>
  BY <1>20 DEF Withdraw
<1>21. CASE UNCHANGED <<status, grant>>
  BY <1>21
<1>22. CASE UNCHANGED vars
  BY <1>22 DEF vars
<1> HIDE DEF TypeOK, NoCredentialLeft, Status, Live
<1>23. QED
  BY <1>1, <1>2, <1>3, <1>4, <1>5, <1>6, <1>7, <1>8, <1>9, <1>10, <1>11, <1>12, <1>13,
     <1>14, <1>15, <1>16, <1>17, <1>18, <1>19, <1>20, <1>21, <1>22 DEF Next

(* No credential outlives its connection, whatever races the disconnect. *)
THEOREM CredentialsEnd == Spec => []NoCredentialLeft
<1>1. Init => NoCredentialLeft
  BY DEF Init, NoCredentialLeft
<1>2. QED
  BY <1>1, InitTypeOK, NextTypeOK, NextNoCredentialLeft, PTL DEF Spec

-----------------------------------------------------------------------------
(* One step of a worker leaves a row that is not syncable as it is. *)
RespectsOwner ==
    \A w \in Worker : pc'[w] # pc[w] =>
        \A c \in Conn : status[c] \notin SYNCABLE_STATES => status'[c] = status[c]

(* A request's step is no worker's, and the workers' two writes of a status
   have SYNCABLE_STATES in their WHERE. *)
LEMMA NextRespectsOwner == TypeOK /\ [Next]_vars => RespectsOwner
<1> SUFFICES ASSUME TypeOK, [Next]_vars
             PROVE  RespectsOwner
  OBVIOUS
<1> USE ConnectionsAssumption DEF TypeOK, RespectsOwner, Process, rowVars, credVars,
   lockVars, procVars, stateVars, providerVars
<1>1. ASSUME NEW c \in Conn, NEW s \in State, StartNew(c, s) PROVE RespectsOwner
  BY <1>1 DEF StartNew, Minted
<1>2. ASSUME NEW r \in Request, NEW s \in State, StartWrite(r, s) PROVE RespectsOwner
  BY <1>2 DEF StartWrite, Minted, Rest
<1>3. ASSUME NEW r \in Request, NEW refresh \in BOOLEAN, Connect(r, refresh)
       PROVE RespectsOwner
  BY <1>3 DEF Connect, Unlock, Release, Rest
<1>4. ASSUME NEW c \in Conn, Abandon(c) PROVE RespectsOwner
  BY <1>4 DEF Abandon, Pending, Spent
<1>5. ASSUME NEW r \in Request, Close(r) PROVE RespectsOwner
  BY <1>5 DEF Close, Forget, Release, Rest
<1>6. ASSUME NEW w \in Worker, FinishWalk(w) PROVE RespectsOwner
  BY <1>6 DEF FinishWalk, ReportWalk, Rest
<1>7. ASSUME NEW w \in Worker, RecordReauth(w) PROVE RespectsOwner
  BY <1>7 DEF RecordReauth, Rest
(* The other actions leave what it speaks of alone. *)
<1>8. ASSUME NEW r \in Request, NEW c \in Conn, StartLook(r, c) \/ Disconnect(r, c)
       PROVE  UNCHANGED status
  BY <1>8 DEF StartLook, Disconnect
<1>9. ASSUME NEW r \in Request, NEW c \in Conn, NEW s \in State, Spend(r, c, s)
       PROVE  UNCHANGED status
  BY <1>9 DEF Spend
<1>10. ASSUME NEW r \in Request, NEW g \in Grant, Exchange(r, g)
       PROVE  UNCHANGED status
  BY <1>10 DEF Exchange
<1>11. ASSUME NEW r \in Request, Upsert(r) \/ Quit(r)
       PROVE  UNCHANGED status
  BY <1>11 DEF Upsert, Quit
<1>12. ASSUME NEW r \in Request, NEW killed \in BOOLEAN, RevokeUpstream(r, killed)
       PROVE  UNCHANGED status
  BY <1>12 DEF RevokeUpstream
<1>13. ASSUME NEW c \in Conn, SyncNow(c) \/ WalkNow(c) \/ RunSync(c) \/ AccessExpires(c)
       PROVE  UNCHANGED status
  BY <1>13 DEF SyncNow, WalkNow, RunSync, AccessExpires
<1>14. ASSUME NEW w \in Worker, NEW c \in Conn, NEW k \in Stage, Take(w, c, k)
       PROVE  UNCHANGED status
  BY <1>14 DEF Take
<1>15. ASSUME NEW c \in Conn, NEW k \in Stage, RefuseUnproven(c, k)
       PROVE  UNCHANGED status
  BY <1>15 DEF RefuseUnproven
<1>16. ASSUME NEW w \in Worker, UseStored(w) \/ PostRefresh(w) \/ CannotAsk(w) \/ Reject(w)
       PROVE  UNCHANGED status
  BY <1>16 DEF UseStored, PostRefresh, CannotAsk, Reject
<1>17. ASSUME NEW w \in Worker, Store(w) \/ AskAgain(w) \/ FinishDocument(w) \/ Unauthorised(w)
       PROVE  UNCHANGED status
  BY <1>17 DEF Store, AskAgain, FinishDocument, Unauthorised
<1>18. ASSUME NEW w \in Worker, NEW next \in 1..MaxSerial, Accept(w, next)
       PROVE  UNCHANGED status
  BY <1>18 DEF Accept
<1>19. ASSUME NEW w \in Worker, NEW next \in {"queued", "failed"}, Fail(w, next)
       PROVE  UNCHANGED status
  BY <1>19 DEF Fail
<1>20. ASSUME NEW g \in Grant, Withdraw(g)
       PROVE  UNCHANGED status
  BY <1>20 DEF Withdraw
<1>21. CASE UNCHANGED status
  BY <1>21
<1>22. CASE UNCHANGED vars
  BY <1>22 DEF vars
<1> HIDE DEF TypeOK, RespectsOwner, Process
<1>23. QED
  BY <1>1, <1>2, <1>3, <1>4, <1>5, <1>6, <1>7, <1>8, <1>9, <1>10, <1>11, <1>12, <1>13,
     <1>14, <1>15, <1>16, <1>17, <1>18, <1>19, <1>20, <1>21, <1>22 DEF Next

(* No job that outlived its owner's decision undoes it. *)
THEOREM OwnersRespected == Spec => WorkersRespectOwner
<1>1. TypeOK /\ [Next]_vars => [RespectsOwner]_vars
  BY NextRespectsOwner
<1>2. QED
  BY <1>1, TypeCorrect, PTL DEF Spec, WorkersRespectOwner, RespectsOwner

-----------------------------------------------------------------------------
(* No two rows, no two callbacks, no row and a callback have the same grant. *)
GrantsApart ==
    /\ \A c, d \in Conn : grant[c] = grant[d] /\ grant[c] # NoGrant => c = d
    /\ \A r \in Request : pc[r] \in {"granted", "stored"} => \A c \in Conn : grant[c] # got[r]
    /\ \A q, r \in Request :
          {pc[q], pc[r]} \subseteq {"granted", "stored"} /\ got[q] = got[r] => q = r

(* A worker that refreshes, and a callback that stored, hold the credential's
   lock; the worker's token is still the row's. *)
LocksFit ==
    /\ \A w \in Worker : pc[w] \in {"posting", "answered"} =>
          credLock[at[w]] = w /\ grant[at[w]] = got[w]
    /\ \A w \in Worker : pc[w] = "posting" => serial[at[w]] = tok[w] /\ tok[w] # 0
    /\ \A r \in Request : pc[r] = "stored" => credLock[at[r]] = r

(* The honoured token is known to the row or, between the provider's answer
   and the commit, to the worker that was answered; a callback's is new. *)
TokensFit ==
    /\ \A c \in Conn :
          (/\ grant[c] # NoGrant
           /\ serial[c] # 0
           /\ \A w \in Worker : ~(pc[w] = "answered" /\ at[w] = c)) =>
              honoured[grant[c]] \in {0, serial[c]} \/ grant[c] \in lost
    /\ \A w \in Worker : pc[w] = "answered" => honoured[got[w]] \in {0, tok[w]}
    /\ \A r \in Request : pc[r] \in {"granted", "stored"} => honoured[got[r]] \in {0, 1}

(* A grant is new when it is issued, and passes from its callback to a row. *)
LEMMA NextGrantsApart == TypeOK /\ StagesFit /\ GrantsApart /\ [Next]_vars => GrantsApart'
<1> SUFFICES ASSUME TypeOK, StagesFit, GrantsApart, [Next]_vars
             PROVE  GrantsApart'
  OBVIOUS
<1> USE ConnectionsAssumption DEF TypeOK, StagesFit, GrantsApart, Process, rowVars,
   credVars, lockVars, procVars, stateVars, providerVars
<1>1. ASSUME NEW r \in Request, NEW c \in Conn, StartLook(r, c) PROVE GrantsApart'
  BY <1>1 DEF StartLook, Go
<1>2. ASSUME NEW r \in Request, NEW s \in State, StartWrite(r, s) PROVE GrantsApart'
  BY <1>2 DEF StartWrite, Minted, Rest
<1>3. ASSUME NEW r \in Request, NEW c \in Conn, NEW s \in State, Spend(r, c, s)
       PROVE GrantsApart'
  BY <1>3 DEF Spend, Pending, Spent, Go
<1>4. ASSUME NEW r \in Request, NEW g \in Grant, Exchange(r, g) PROVE GrantsApart'
  BY <1>4 DEF Exchange, Go, Unissued
<1>5. ASSUME NEW r \in Request, Upsert(r) PROVE GrantsApart'
  BY <1>5 DEF Upsert, Go
<1>6. ASSUME NEW r \in Request, NEW refresh \in BOOLEAN, Connect(r, refresh)
       PROVE GrantsApart'
  BY <1>6 DEF Connect, Unlock, Release, Rest
<1>7. ASSUME NEW r \in Request, NEW c \in Conn, Disconnect(r, c) PROVE GrantsApart'
  BY <1>7 DEF Disconnect, Go
<1>8. ASSUME NEW r \in Request, NEW killed \in BOOLEAN, RevokeUpstream(r, killed)
       PROVE GrantsApart'
  BY <1>8 DEF RevokeUpstream, Go
<1>9. ASSUME NEW r \in Request, Close(r) PROVE GrantsApart'
  BY <1>9 DEF Close, Forget, Release, Rest
<1>10. ASSUME NEW r \in Request, Quit(r) PROVE GrantsApart'
  BY <1>10 DEF Quit, Unlock, Release, Rest
<1>11. ASSUME NEW w \in Worker, NEW c \in Conn, NEW k \in Stage, Take(w, c, k)
       PROVE GrantsApart'
  BY <1>11 DEF Take, Go
<1>12. ASSUME NEW w \in Worker, UseStored(w) PROVE GrantsApart'
  BY <1>12 DEF UseStored, Go
<1>13. ASSUME NEW w \in Worker, PostRefresh(w) PROVE GrantsApart'
  BY <1>13 DEF PostRefresh, LockCredential, Go
<1>14. ASSUME NEW w \in Worker, CannotAsk(w) PROVE GrantsApart'
  BY <1>14 DEF CannotAsk, Go
<1>15. ASSUME NEW w \in Worker, NEW next \in 1..MaxSerial, Accept(w, next)
       PROVE GrantsApart'
  BY <1>15 DEF Accept, Go
<1>16. ASSUME NEW w \in Worker, Reject(w) PROVE GrantsApart'
  BY <1>16 DEF Reject, Release, Go
<1>17. ASSUME NEW w \in Worker, Store(w) PROVE GrantsApart'
  BY <1>17 DEF Store, StoreToken, Release, Go
<1>18. ASSUME NEW w \in Worker, AskAgain(w) PROVE GrantsApart'
  BY <1>18 DEF AskAgain, Go
<1>19. ASSUME NEW w \in Worker, FinishWalk(w) PROVE GrantsApart'
  BY <1>19 DEF FinishWalk, ReportWalk, Rest
<1>20. ASSUME NEW w \in Worker, FinishDocument(w) PROVE GrantsApart'
  BY <1>20 DEF FinishDocument, Rest
<1>21. ASSUME NEW w \in Worker, Unauthorised(w) PROVE GrantsApart'
  BY <1>21 DEF Unauthorised, Go
<1>22. ASSUME NEW w \in Worker, RecordReauth(w) PROVE GrantsApart'
  BY <1>22 DEF RecordReauth, Rest
<1>23. ASSUME NEW w \in Worker, NEW next \in {"queued", "failed"}, Fail(w, next)
       PROVE GrantsApart'
  BY <1>23 DEF Fail, Unlock, Release, Rest
(* The other actions leave what it speaks of alone. *)
<1>24. ASSUME NEW c \in Conn, NEW s \in State, StartNew(c, s)
       PROVE  UNCHANGED <<grant, pc, got>>
  BY <1>24 DEF StartNew
<1>25. ASSUME NEW c \in Conn, Abandon(c) \/ SyncNow(c) \/ WalkNow(c) \/ RunSync(c)
       PROVE  UNCHANGED <<grant, pc, got>>
  BY <1>25 DEF Abandon, SyncNow, WalkNow, RunSync
<1>26. ASSUME NEW c \in Conn, AccessExpires(c)
       PROVE  UNCHANGED <<grant, pc, got>>
  BY <1>26 DEF AccessExpires
<1>27. ASSUME NEW c \in Conn, NEW k \in Stage, RefuseUnproven(c, k)
       PROVE  UNCHANGED <<grant, pc, got>>
  BY <1>27 DEF RefuseUnproven
<1>28. ASSUME NEW g \in Grant, Withdraw(g)
       PROVE  UNCHANGED <<grant, pc, got>>
  BY <1>28 DEF Withdraw
<1>29. CASE UNCHANGED <<grant, pc, got>>
  BY <1>29
<1>30. CASE UNCHANGED vars
  BY <1>30 DEF vars
<1> HIDE DEF TypeOK, StagesFit, GrantsApart, Process
<1>31. QED
  BY <1>1, <1>2, <1>3, <1>4, <1>5, <1>6, <1>7, <1>8, <1>9, <1>10, <1>11, <1>12, <1>13,
     <1>14, <1>15, <1>16, <1>17, <1>18, <1>19, <1>20, <1>21, <1>22, <1>23, <1>24,
     <1>25, <1>26, <1>27, <1>28, <1>29, <1>30 DEF Next

(* The credential row is locked before its token is read and until the commit. *)
LEMMA NextLocksFit == TypeOK /\ StagesFit /\ LocksFit /\ [Next]_vars => LocksFit'
<1> SUFFICES ASSUME TypeOK, StagesFit, LocksFit, [Next]_vars
             PROVE  LocksFit'
  OBVIOUS
<1> USE ConnectionsAssumption DEF TypeOK, StagesFit, LocksFit, Process, rowVars,
   credVars, lockVars, procVars, stateVars, providerVars
<1>1. ASSUME NEW r \in Request, NEW c \in Conn, StartLook(r, c) PROVE LocksFit'
  BY <1>1 DEF StartLook, Go
<1>2. ASSUME NEW r \in Request, NEW s \in State, StartWrite(r, s) PROVE LocksFit'
  BY <1>2 DEF StartWrite, Minted, Rest
<1>3. ASSUME NEW r \in Request, NEW c \in Conn, NEW s \in State, Spend(r, c, s)
       PROVE LocksFit'
  BY <1>3 DEF Spend, Pending, Spent, Go
<1>4. ASSUME NEW r \in Request, NEW g \in Grant, Exchange(r, g) PROVE LocksFit'
  BY <1>4 DEF Exchange, Go, Unissued
<1>5. ASSUME NEW r \in Request, Upsert(r) PROVE LocksFit'
  BY <1>5 DEF Upsert, Go
<1>6. ASSUME NEW r \in Request, NEW refresh \in BOOLEAN, Connect(r, refresh)
       PROVE LocksFit'
  BY <1>6 DEF Connect, Unlock, Release, Rest
<1>7. ASSUME NEW r \in Request, NEW c \in Conn, Disconnect(r, c) PROVE LocksFit'
  BY <1>7 DEF Disconnect, Go
<1>8. ASSUME NEW r \in Request, NEW killed \in BOOLEAN, RevokeUpstream(r, killed)
       PROVE LocksFit'
  BY <1>8 DEF RevokeUpstream, Go
<1>9. ASSUME NEW r \in Request, Close(r) PROVE LocksFit'
  BY <1>9 DEF Close, Forget, Release, Rest
<1>10. ASSUME NEW r \in Request, Quit(r) PROVE LocksFit'
  BY <1>10 DEF Quit, Unlock, Release, Rest
<1>11. ASSUME NEW w \in Worker, NEW c \in Conn, NEW k \in Stage, Take(w, c, k)
       PROVE LocksFit'
  BY <1>11 DEF Take, Go
<1>12. ASSUME NEW w \in Worker, UseStored(w) PROVE LocksFit'
  BY <1>12 DEF UseStored, Go
<1>13. ASSUME NEW w \in Worker, PostRefresh(w) PROVE LocksFit'
  BY <1>13 DEF PostRefresh, LockCredential, Go
<1>14. ASSUME NEW w \in Worker, CannotAsk(w) PROVE LocksFit'
  BY <1>14 DEF CannotAsk, Go
<1>15. ASSUME NEW w \in Worker, NEW next \in 1..MaxSerial, Accept(w, next) PROVE LocksFit'
  BY <1>15 DEF Accept, Go
<1>16. ASSUME NEW w \in Worker, Reject(w) PROVE LocksFit'
  BY <1>16 DEF Reject, Release, Go
<1>17. ASSUME NEW w \in Worker, Store(w) PROVE LocksFit'
  BY <1>17 DEF Store, StoreToken, Release, Go
<1>18. ASSUME NEW w \in Worker, AskAgain(w) PROVE LocksFit'
  BY <1>18 DEF AskAgain, Go
<1>19. ASSUME NEW w \in Worker, FinishWalk(w) PROVE LocksFit'
  BY <1>19 DEF FinishWalk, ReportWalk, Rest
<1>20. ASSUME NEW w \in Worker, FinishDocument(w) PROVE LocksFit'
  BY <1>20 DEF FinishDocument, Rest
<1>21. ASSUME NEW w \in Worker, Unauthorised(w) PROVE LocksFit'
  BY <1>21 DEF Unauthorised, Go
<1>22. ASSUME NEW w \in Worker, RecordReauth(w) PROVE LocksFit'
  BY <1>22 DEF RecordReauth, Rest
<1>23. ASSUME NEW w \in Worker, NEW next \in {"queued", "failed"}, Fail(w, next)
       PROVE LocksFit'
  BY <1>23 DEF Fail, Unlock, Release, Rest
(* The other actions leave what it speaks of alone. *)
<1>24. ASSUME NEW c \in Conn, NEW s \in State, StartNew(c, s)
       PROVE  UNCHANGED <<credLock, grant, serial, pc, at, got, tok>>
  BY <1>24 DEF StartNew
<1>25. ASSUME NEW c \in Conn, Abandon(c) \/ SyncNow(c) \/ WalkNow(c) \/ RunSync(c)
       PROVE  UNCHANGED <<credLock, grant, serial, pc, at, got, tok>>
  BY <1>25 DEF Abandon, SyncNow, WalkNow, RunSync
<1>26. ASSUME NEW c \in Conn, AccessExpires(c)
       PROVE  UNCHANGED <<credLock, grant, serial, pc, at, got, tok>>
  BY <1>26 DEF AccessExpires
<1>27. ASSUME NEW c \in Conn, NEW k \in Stage, RefuseUnproven(c, k)
       PROVE  UNCHANGED <<credLock, grant, serial, pc, at, got, tok>>
  BY <1>27 DEF RefuseUnproven
<1>28. ASSUME NEW g \in Grant, Withdraw(g)
       PROVE  UNCHANGED <<credLock, grant, serial, pc, at, got, tok>>
  BY <1>28 DEF Withdraw
<1>29. CASE UNCHANGED <<credLock, grant, serial, pc, at, got, tok>>
  BY <1>29
<1>30. CASE UNCHANGED vars
  BY <1>30 DEF vars
<1> HIDE DEF TypeOK, StagesFit, LocksFit, Process
<1>31. QED
  BY <1>1, <1>2, <1>3, <1>4, <1>5, <1>6, <1>7, <1>8, <1>9, <1>10, <1>11, <1>12, <1>13,
     <1>14, <1>15, <1>16, <1>17, <1>18, <1>19, <1>20, <1>21, <1>22, <1>23, <1>24,
     <1>25, <1>26, <1>27, <1>28, <1>29, <1>30 DEF Next

(* Under the lock the token cannot change between the read and the answer. *)
LEMMA NextTokensFit ==
    TypeOK /\ StagesFit /\ GrantsApart /\ LocksFit /\ TokensFit /\ [Next]_vars => TokensFit'
<1> SUFFICES ASSUME TypeOK, StagesFit, GrantsApart, LocksFit, TokensFit, [Next]_vars
             PROVE  TokensFit'
  OBVIOUS
<1> USE ConnectionsAssumption DEF TypeOK, StagesFit, GrantsApart, LocksFit, TokensFit,
   Process, rowVars, credVars, lockVars, procVars, stateVars, providerVars
<1>1. ASSUME NEW r \in Request, NEW c \in Conn, StartLook(r, c) PROVE TokensFit'
  BY <1>1 DEF StartLook, Go
<1>2. ASSUME NEW r \in Request, NEW s \in State, StartWrite(r, s) PROVE TokensFit'
  BY <1>2 DEF StartWrite, Minted, Rest
<1>3. ASSUME NEW r \in Request, NEW c \in Conn, NEW s \in State, Spend(r, c, s)
       PROVE TokensFit'
  BY <1>3 DEF Spend, Pending, Spent, Go
<1>4. ASSUME NEW r \in Request, NEW g \in Grant, Exchange(r, g) PROVE TokensFit'
  BY <1>4 DEF Exchange, Go, Unissued
<1>5. ASSUME NEW r \in Request, Upsert(r) PROVE TokensFit'
  BY <1>5 DEF Upsert, Go
<1>6. ASSUME NEW r \in Request, NEW refresh \in BOOLEAN, Connect(r, refresh)
       PROVE TokensFit'
  BY <1>6 DEF Connect, Unlock, Release, Rest
<1>7. ASSUME NEW r \in Request, NEW c \in Conn, Disconnect(r, c) PROVE TokensFit'
  BY <1>7 DEF Disconnect, Go
<1>8. ASSUME NEW r \in Request, NEW killed \in BOOLEAN, RevokeUpstream(r, killed)
       PROVE TokensFit'
  <2>1. at[r] \in Conn
    BY <1>8 DEF RevokeUpstream
  <2>2. CASE killed
    <3>1. PICK g \in Grant : g = grant[at[r]]
      BY <1>8, <2>1, <2>2 DEF RevokeUpstream
    <3>2. honoured' = [honoured EXCEPT ![g] = 0]
      BY <1>8, <2>2, <3>1 DEF RevokeUpstream
    <3>3. \A h \in Grant : honoured'[h] \in {0, honoured[h]}
      BY <3>2
    <3>4. QED
      BY <1>8, <3>3 DEF RevokeUpstream, Go
  <2>3. CASE ~killed
    BY <1>8, <2>3 DEF RevokeUpstream, Go
  <2>4. QED
    BY <2>2, <2>3
<1>9. ASSUME NEW r \in Request, Close(r) PROVE TokensFit'
  BY <1>9 DEF Close, Forget, Release, Rest
<1>10. ASSUME NEW r \in Request, Quit(r) PROVE TokensFit'
  BY <1>10 DEF Quit, Unlock, Release, Rest
<1>11. ASSUME NEW w \in Worker, NEW c \in Conn, NEW k \in Stage, Take(w, c, k)
       PROVE TokensFit'
  BY <1>11 DEF Take, Go
<1>12. ASSUME NEW w \in Worker, UseStored(w) PROVE TokensFit'
  BY <1>12 DEF UseStored, Go
<1>13. ASSUME NEW w \in Worker, PostRefresh(w) PROVE TokensFit'
  BY <1>13 DEF PostRefresh, LockCredential, Go
<1>14. ASSUME NEW w \in Worker, CannotAsk(w) PROVE TokensFit'
  BY <1>14 DEF CannotAsk, Go
<1>15. ASSUME NEW w \in Worker, NEW next \in 1..MaxSerial, Accept(w, next)
       PROVE TokensFit'
  <2>1. PICK c \in Conn : c = at[w]
    BY <1>15 DEF Accept
  <2>2. PICK g \in Grant : g = got[w]
    BY <1>15 DEF Accept
  <2>3. credLock[c] = w /\ grant[c] = g
    BY <1>15, <2>1, <2>2 DEF Accept
  <2>4. \A v \in Worker \ {w} : pc[v] = "answered" => got[v] /= g
    BY <1>15, <2>1, <2>3 DEF Accept
  <2>5. \A r \in Request : pc[r] \in {"granted", "stored"} => got[r] /= g
    BY <2>3
  <2>6. \A d \in Conn \ {c} : grant[d] /= g
    BY <2>3
  <2>7. honoured' = [honoured EXCEPT ![g] = next] /\ tok' = [tok EXCEPT ![w] = next]
    BY <1>15, <2>2 DEF Accept
  <2>8. QED
    BY <1>15, <2>1, <2>2, <2>3, <2>4, <2>5, <2>6, <2>7 DEF Accept, Go
<1>16. ASSUME NEW w \in Worker, Reject(w) PROVE TokensFit'
  BY <1>16 DEF Reject, Release, Go
<1>17. ASSUME NEW w \in Worker, Store(w) PROVE TokensFit'
  BY <1>17 DEF Store, StoreToken, Release, Go
<1>18. ASSUME NEW w \in Worker, AskAgain(w) PROVE TokensFit'
  BY <1>18 DEF AskAgain, Go
<1>19. ASSUME NEW w \in Worker, FinishWalk(w) PROVE TokensFit'
  BY <1>19 DEF FinishWalk, ReportWalk, Rest
<1>20. ASSUME NEW w \in Worker, FinishDocument(w) PROVE TokensFit'
  BY <1>20 DEF FinishDocument, Rest
<1>21. ASSUME NEW w \in Worker, Unauthorised(w) PROVE TokensFit'
  BY <1>21 DEF Unauthorised, Go
<1>22. ASSUME NEW w \in Worker, RecordReauth(w) PROVE TokensFit'
  BY <1>22 DEF RecordReauth, Rest
<1>23. ASSUME NEW w \in Worker, NEW next \in {"queued", "failed"}, Fail(w, next)
       PROVE TokensFit'
  BY <1>23 DEF Fail, Unlock, Release, Rest
<1>24. ASSUME NEW g \in Grant, Withdraw(g) PROVE TokensFit'
  BY <1>24 DEF Withdraw, Unissued
(* The other actions leave what it speaks of alone. *)
<1>25. ASSUME NEW c \in Conn, NEW s \in State, StartNew(c, s)
       PROVE  UNCHANGED <<grant, serial, honoured, lost, pc, at, got, tok>>
  BY <1>25 DEF StartNew
<1>26. ASSUME NEW c \in Conn, Abandon(c) \/ SyncNow(c) \/ WalkNow(c) \/ RunSync(c)
       PROVE  UNCHANGED <<grant, serial, honoured, lost, pc, at, got, tok>>
  BY <1>26 DEF Abandon, SyncNow, WalkNow, RunSync
<1>27. ASSUME NEW c \in Conn, AccessExpires(c)
       PROVE  UNCHANGED <<grant, serial, honoured, lost, pc, at, got, tok>>
  BY <1>27 DEF AccessExpires
<1>28. ASSUME NEW c \in Conn, NEW k \in Stage, RefuseUnproven(c, k)
       PROVE  UNCHANGED <<grant, serial, honoured, lost, pc, at, got, tok>>
  BY <1>28 DEF RefuseUnproven
<1>29. CASE UNCHANGED <<grant, serial, honoured, lost, pc, at, got, tok>>
  BY <1>29
<1>30. CASE UNCHANGED vars
  BY <1>30 DEF vars
<1> HIDE DEF TypeOK, StagesFit, GrantsApart, LocksFit, TokensFit, Process
<1>31. QED
  BY <1>1, <1>2, <1>3, <1>4, <1>5, <1>6, <1>7, <1>8, <1>9, <1>10, <1>11, <1>12, <1>13,
     <1>14, <1>15, <1>16, <1>17, <1>18, <1>19, <1>20, <1>21, <1>22, <1>23, <1>24,
     <1>25, <1>26, <1>27, <1>28, <1>29, <1>30 DEF Next

(* Two workers never race a rotating refresh token, and a failed walk never
   burns one: what is presented and what is stored is what the provider honours,
   unless the grant was withdrawn or an answer was lost on its way back. *)
THEOREM TokensNeverRaced == Spec => [](NoBurnedTokenPresented /\ StoredTokenHonoured)
<1>1. Init => GrantsApart /\ LocksFit /\ TokensFit
  BY DEF Init, GrantsApart, LocksFit, TokensFit, Process
<1>2. ASSUME TypeOK, StagesFit, LocksFit, TokensFit PROVE NoBurnedTokenPresented
  <2> SUFFICES ASSUME NEW w \in Worker, pc[w] = "posting"
               PROVE  honoured[got[w]] \in {0, tok[w]} \/ got[w] \in lost
    BY DEF NoBurnedTokenPresented
  <2>1. at[w] \in Conn /\ got[w] \in Grant
    BY <1>2 DEF TypeOK, StagesFit, Process
  <2>2. credLock[at[w]] = w /\ grant[at[w]] = got[w]
        /\ serial[at[w]] = tok[w] /\ tok[w] # 0
    BY <1>2 DEF LocksFit
  <2>3. \A v \in Worker : ~(pc[v] = "answered" /\ at[v] = at[w])
    BY <1>2, <2>2 DEF LocksFit
  <2>4. QED
    BY <1>2, <2>1, <2>2, <2>3, ConnectionsAssumption DEF TokensFit, TypeOK
<1>3. ASSUME TypeOK, LocksFit, TokensFit PROVE StoredTokenHonoured
  BY <1>3, ConnectionsAssumption DEF LocksFit, TokensFit, StoredTokenHonoured, Process
<1>4. TypeOK /\ StagesFit /\ GrantsApart /\ LocksFit /\ TokensFit /\ [Next]_vars
        => GrantsApart' /\ LocksFit' /\ TokensFit'
  BY NextGrantsApart, NextLocksFit, NextTokensFit
<1>5. QED
  BY <1>1, <1>2, <1>3, <1>4, InitTypeOK, NextTypeOK, PTL DEF Spec

(* Outside a refresh the stored token is the one the provider honours, under the
   same exceptions. *)
THEOREM StoredTokensAreHonoured == Spec => []StoredTokenHonoured
BY TokensNeverRaced, PTL
=============================================================================
