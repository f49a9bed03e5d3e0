----------------------------- MODULE Connections -----------------------------
(*****************************************************************************)
(* One person's connections to one provider: the OAuth round trip and its    *)
(* end (the API's connectors.py), the credential the workers refresh and use *)
(* (credentials.py, fetchers.py), and the sync, walk and fetch jobs that do  *)
(* (sync.py, ingest.py, schedule.py).                                        *)
(*                                                                           *)
(* The rows' columns are their COMMITTED values. A transaction that makes a  *)
(* network call between two statements (a disconnect, a token refresh, a     *)
(* callback's last one) is several steps and holds its row locks between     *)
(* them; the others are one step, which waits for the locks it needs.        *)
(*                                                                           *)
(* Refusals (an unknown state, another person's, an expired one, a provider  *)
(* the organisation does not allow) change nothing and are no steps. The     *)
(* jobs are reduced to whether they wait, run or are over: JobStore has the  *)
(* rest. last_error_kind, source_identities and audit_log are left out.      *)
(*****************************************************************************)
EXTENDS Naturals

CONSTANTS
    Conn,           \* the rows of table connections, over time
    Request,        \* requests of the owner, or of an administrator
    Worker,         \* worker processes
    State,          \* OAuth states that can be minted
    Grant,          \* grants the provider can issue
    NoConn, NoState, NoGrant, NoTx,
    MaxSerial       \* bound: refresh tokens of one grant

VARIABLES
    status, oauth, proven, disconnectedAt,  \* connections: status, oauth_state, provider_subject
    grant, serial, fresh,           \* connection_credentials: whose grant, its refresh
                                    \*   token (0: none), access token not near its expiry
    rowLock, credLock,              \* the transaction that locks each row
    job,                            \* each connection's sync, walk and document jobs
    pc, at, got, tok, task,         \* each process: stage, row, grant, token, job
    minted, exchanged,              \* states that exist; how often each was exchanged
    honoured, lost                  \* the provider's side: the refresh token it accepts
                                    \*   (0: none); grants an answer about which was lost

rowVars == <<status, oauth, proven, disconnectedAt>>
credVars == <<grant, serial, fresh>>
lockVars == <<rowLock, credLock>>
procVars == <<pc, at, got, tok, task>>
stateVars == <<minted, exchanged>>
providerVars == <<honoured, lost>>
vars == <<rowVars, credVars, lockVars, job, procVars, stateVars, providerVars>>

Process == Request \cup Worker
Stage == {"sync", "walk", "document"}
Progress == {"none", "queued", "running", "completed", "failed"}
Over == {"none", "completed", "failed"}

Status == {"absent", "connecting", "connected", "error", "reauth_required", "disconnected"}
Live == Status \ {"absent", "disconnected"}
SYNCABLE_STATES == {"connected", "error"}
Restartable == {"connecting", "error", "reauth_required"}

ASSUME ConnectionsAssumption ==
    /\ Request \cap Worker = {}
    /\ NoTx \notin Process
    /\ NoConn \notin Conn
    /\ NoState \notin State
    /\ NoGrant \notin Grant
    /\ MaxSerial \in Nat \ {0}

Init == /\ status = [c \in Conn |-> "absent"]
        /\ oauth = [c \in Conn |-> NoState]
        /\ proven = [c \in Conn |-> FALSE]
        /\ disconnectedAt = [c \in Conn |-> FALSE]
        /\ grant = [c \in Conn |-> NoGrant]
        /\ serial = [c \in Conn |-> 0]
        /\ fresh = [c \in Conn |-> FALSE]
        /\ rowLock = [c \in Conn |-> NoTx]
        /\ credLock = [c \in Conn |-> NoTx]
        /\ job = [c \in Conn |-> [k \in Stage |-> "none"]]
        /\ pc = [p \in Process |-> "idle"]
        /\ at = [p \in Process |-> NoConn]
        /\ got = [p \in Process |-> NoGrant]
        /\ tok = [p \in Process |-> 0]
        /\ task = [p \in Process |-> "none"]
        /\ minted = {}
        /\ exchanged = [s \in State |-> 0]
        /\ honoured = [g \in Grant |-> 0]
        /\ lost = {}

-----------------------------------------------------------------------------
(* Processes and locks. *)

Go(p, stage) == pc' = [pc EXCEPT ![p] = stage]

Rest(p) == /\ pc' = [pc EXCEPT ![p] = "idle"]
           /\ at' = [at EXCEPT ![p] = NoConn]
           /\ got' = [got EXCEPT ![p] = NoGrant]
           /\ tok' = [tok EXCEPT ![p] = 0]
           /\ task' = [task EXCEPT ![p] = "none"]

Release(lock, p) == [c \in Conn |-> IF lock[c] = p THEN NoTx ELSE lock[c]]

Unlock(p) == /\ rowLock' = Release(rowLock, p)
             /\ credLock' = Release(credLock, p)

-----------------------------------------------------------------------------
(* Connecting: start_connection. *)

(* uq_connections_live: at most one row that is not disconnected. *)
NoOtherLive(c) == \A d \in Conn \ {c} : status[d] \notin Live

Minted(c, s) == /\ s \notin minted
                /\ minted' = minted \cup {s}
                /\ status' = [status EXCEPT ![c] = "connecting"]
                /\ oauth' = [oauth EXCEPT ![c] = s]

StartNew(c, s) ==
    /\ status[c] = "absent"
    /\ NoOtherLive(c)
    /\ Minted(c, s)
    /\ UNCHANGED <<proven, disconnectedAt, credVars, lockVars, job, procVars, exchanged, providerVars>>

(* A row that can be restarted is read without a lock ... *)
StartLook(r, c) ==
    /\ pc[r] = "idle"
    /\ status[c] \in Restartable
    /\ Go(r, "starting")
    /\ at' = [at EXCEPT ![r] = c]
    /\ UNCHANGED <<rowVars, credVars, lockVars, job, got, tok, task, stateVars, providerVars>>

(* ... and written by its id alone, whatever became of it meanwhile. *)
StartWrite(r, s) ==
    LET c == at[r] IN
    /\ pc[r] = "starting"
    /\ rowLock[c] = NoTx
    /\ NoOtherLive(c)
    /\ Minted(c, s)
    /\ Rest(r)
    /\ UNCHANGED <<proven, disconnectedAt, credVars, lockVars, job, exchanged, providerVars>>

-----------------------------------------------------------------------------
(* The provider's redirect: complete_callback and abandon_callback. *)

(* Defect: the state is spent with the request, not before the exchange. *)
NotSpent(c) == UNCHANGED oauth

Spent(c) == oauth' = [oauth EXCEPT ![c] = NoState]

Pending(c, s) == /\ oauth[c] = s
                 /\ status[c] = "connecting"
                 /\ rowLock[c] = NoTx

Spend(r, c, s) ==
    /\ pc[r] = "idle"
    /\ s \in State /\ Pending(c, s)
    /\ Spent(c)
    /\ exchanged' = [exchanged EXCEPT ![s] = @ + 1]
    /\ Go(r, "exchanging")
    /\ at' = [at EXCEPT ![r] = c]
    /\ UNCHANGED <<status, proven, disconnectedAt, credVars, lockVars, job, got, tok, task, minted, providerVars>>

(* Grants nobody here remembers, so that one of them stands for a new one. *)
Unissued == {g \in Grant : /\ \A c \in Conn : grant[c] # g
                           /\ \A p \in Process : got[p] # g}

(* exchange_code and fetch_identity; when either fails the request ends. *)
Exchange(r, g) ==
    /\ pc[r] = "exchanging"
    /\ g \in Unissued
    /\ honoured' = [honoured EXCEPT ![g] = 1]
    /\ lost' = lost \ {g}
    /\ got' = [got EXCEPT ![r] = g]
    /\ Go(r, "granted")
    /\ UNCHANGED <<rowVars, credVars, lockVars, job, at, tok, task, stateVars>>

(* INSERT ... ON CONFLICT DO UPDATE of the credential. *)
Upsert(r) ==
    LET c == at[r] IN
    /\ pc[r] = "granted"
    /\ credLock[c] = NoTx
    /\ credLock' = [credLock EXCEPT ![c] = r]
    /\ Go(r, "stored")
    /\ UNCHANGED <<rowVars, credVars, rowLock, job, at, got, tok, task, stateVars, providerVars>>

(* The connection by its id alone, and the commit. refresh: whether the grant
   came with a refresh token. *)
Connect(r, refresh) ==
    LET c == at[r] IN
    /\ pc[r] = "stored"
    /\ rowLock[c] = NoTx
    /\ NoOtherLive(c)
    /\ status' = [status EXCEPT ![c] = "connected"]
    /\ proven' = [proven EXCEPT ![c] = TRUE]
    /\ grant' = [grant EXCEPT ![c] = got[r]]
    /\ serial' = [serial EXCEPT ![c] = IF refresh THEN 1 ELSE 0]
    /\ fresh' = [fresh EXCEPT ![c] = TRUE]
    /\ Unlock(r)
    /\ Rest(r)
    /\ UNCHANGED <<oauth, disconnectedAt, job, stateVars, providerVars>>

(* The person clicked Deny. *)
Abandon(c) ==
    /\ oauth[c] # NoState
    /\ Pending(c, oauth[c])
    /\ Spent(c)
    /\ status' = [status EXCEPT ![c] = "error"]
    /\ UNCHANGED <<proven, disconnectedAt, credVars, lockVars, job, procVars, stateVars, providerVars>>

-----------------------------------------------------------------------------
(* Ending it: disconnect_own and revoke_connection. *)

Disconnect(r, c) ==
    /\ pc[r] = "idle"
    /\ status[c] \in Live
    /\ rowLock[c] = NoTx
    /\ rowLock' = [rowLock EXCEPT ![c] = r]
    /\ at' = [at EXCEPT ![r] = c]
    /\ Go(r, "revoking")
    /\ UNCHANGED <<rowVars, credVars, credLock, job, got, tok, task, stateVars, providerVars>>

(* _revoke_upstream_best_effort: the provider kills the grant, or does not. *)
RevokeUpstream(r, killed) ==
    LET g == grant[at[r]] IN
    /\ pc[r] = "revoking"
    /\ IF killed THEN g # NoGrant /\ honoured' = [honoured EXCEPT ![g] = 0]
                 ELSE UNCHANGED honoured
    /\ Go(r, "closing")
    /\ UNCHANGED <<rowVars, credVars, lockVars, job, at, got, tok, task, stateVars, lost>>

(* Defect: the credential of a connection somebody is refreshing is skipped. *)
ForgetUnlocked(c) ==
    IF credLock[c] = NoTx
      THEN /\ grant' = [grant EXCEPT ![c] = NoGrant]
           /\ serial' = [serial EXCEPT ![c] = 0]
           /\ fresh' = [fresh EXCEPT ![c] = FALSE]
      ELSE UNCHANGED credVars

(* The DELETE waits for whoever holds the credential, if there is one. *)
Forget(c) ==
    /\ grant[c] = NoGrant \/ credLock[c] = NoTx
    /\ grant' = [grant EXCEPT ![c] = NoGrant]
    /\ serial' = [serial EXCEPT ![c] = 0]
    /\ fresh' = [fresh EXCEPT ![c] = FALSE]

Close(r) ==
    LET c == at[r] IN
    /\ pc[r] = "closing"
    /\ Forget(c)
    /\ status' = [status EXCEPT ![c] = "disconnected"]
    /\ oauth' = [oauth EXCEPT ![c] = NoState]
    /\ disconnectedAt' = [disconnectedAt EXCEPT ![c] = TRUE]
    /\ rowLock' = Release(rowLock, r)
    /\ Rest(r)
    /\ UNCHANGED <<proven, credLock, job, stateVars, providerVars>>

(* A refusal of the provider, a lost unique-index race, a deadlock victim, a
   killed process: the request's transaction is rolled back. *)
Quit(r) ==
    /\ pc[r] # "idle"
    /\ Unlock(r)
    /\ Rest(r)
    /\ UNCHANGED <<rowVars, credVars, job, stateVars, providerVars>>

-----------------------------------------------------------------------------
(* Jobs. *)

SetJob(c, k, p) == job' = [job EXCEPT ![c][k] = p]

(* sync_now and the nightly schedule: any finished sync is queued again. *)
SyncNow(c) ==
    /\ status[c] \in SYNCABLE_STATES
    /\ job[c]["sync"] \in Over
    /\ SetJob(c, "sync", "queued")
    /\ UNCHANGED <<rowVars, credVars, lockVars, procVars, stateVars, providerVars>>

(* request_source_sync: an administrator walks a source again. *)
WalkNow(c) ==
    /\ job[c]["walk"] \in Over \ {"none"}
    /\ SetJob(c, "walk", "queued")
    /\ UNCHANGED <<rowVars, credVars, lockVars, procVars, stateVars, providerVars>>

(* enqueue_job and reopen_completed_job: new, or completed before. *)
Queued(progress) == IF progress \in {"none", "completed"} THEN "queued" ELSE progress

(* run_sync_job, from its claim to its commit. *)
RunSync(c) ==
    /\ job[c]["sync"] = "queued"
    /\ IF status[c] \in SYNCABLE_STATES
         THEN job' = [job EXCEPT ![c]["sync"] = "completed", ![c]["walk"] = Queued(@)]
         ELSE SetJob(c, "sync", "failed")
    /\ UNCHANGED <<rowVars, credVars, lockVars, procVars, stateVars, providerVars>>

(* A worker claims a walk or a document; build_provider_connector refuses a
   connection whose subject was never proven. *)
Take(w, c, k) ==
    /\ pc[w] = "idle"
    /\ k # "sync"
    /\ job[c][k] = "queued"
    /\ proven[c]
    /\ SetJob(c, k, "running")
    /\ Go(w, "asking")
    /\ at' = [at EXCEPT ![w] = c]
    /\ task' = [task EXCEPT ![w] = k]
    /\ UNCHANGED <<rowVars, credVars, lockVars, got, tok, stateVars, providerVars>>

RefuseUnproven(c, k) ==
    /\ k # "sync"
    /\ job[c][k] = "queued"
    /\ ~proven[c]
    /\ SetJob(c, k, "failed")
    /\ UNCHANGED <<rowVars, credVars, lockVars, procVars, stateVars, providerVars>>

-----------------------------------------------------------------------------
(* The token: access_token_for, in a transaction of its own. *)

(* Defect: _load without FOR UPDATE. *)
NoLock(w, c) == UNCHANGED credLock

LockCredential(w, c) == credLock' = [credLock EXCEPT ![c] = w]

UseStored(w) ==
    LET c == at[w] IN
    /\ pc[w] = "asking"
    /\ grant[c] # NoGrant
    /\ credLock[c] = NoTx
    /\ fresh[c]
    /\ got' = [got EXCEPT ![w] = grant[c]]
    /\ Go(w, "using")
    /\ UNCHANGED <<rowVars, credVars, lockVars, job, at, tok, task, stateVars, providerVars>>

PostRefresh(w) ==
    LET c == at[w] IN
    /\ pc[w] = "asking"
    /\ grant[c] # NoGrant
    /\ credLock[c] = NoTx
    /\ ~fresh[c]
    /\ serial[c] # 0
    /\ LockCredential(w, c)
    /\ got' = [got EXCEPT ![w] = grant[c]]
    /\ tok' = [tok EXCEPT ![w] = serial[c]]
    /\ Go(w, "posting")
    /\ UNCHANGED <<rowVars, credVars, rowLock, job, at, task, stateVars, providerVars>>

(* ReauthRequired before any call: no credential, or no refresh token. *)
CannotAsk(w) ==
    LET c == at[w] IN
    /\ pc[w] = "asking"
    /\ \/ grant[c] = NoGrant
       \/ credLock[c] = NoTx /\ ~fresh[c] /\ serial[c] = 0
    /\ Go(w, "refused")
    /\ UNCHANGED <<rowVars, credVars, lockVars, job, at, got, tok, task, stateVars, providerVars>>

(* The provider accepts the token and may rotate it: the old one is dead. *)
Accept(w, next) ==
    LET g == got[w] IN
    /\ pc[w] = "posting"
    /\ honoured[g] = tok[w]
    /\ next \in {tok[w], tok[w] + 1} \cap 1..MaxSerial
    /\ honoured' = [honoured EXCEPT ![g] = next]
    /\ tok' = [tok EXCEPT ![w] = next]
    /\ Go(w, "answered")
    /\ UNCHANGED <<rowVars, credVars, lockVars, job, at, got, task, stateVars, lost>>

Reject(w) ==
    /\ pc[w] = "posting"
    /\ honoured[got[w]] # tok[w]
    /\ Go(w, "refused")
    /\ credLock' = Release(credLock, w)
    /\ UNCHANGED <<rowVars, credVars, rowLock, job, at, got, tok, task, stateVars, providerVars>>

(* Defect: the new token is left to a later transaction. *)
StoreNothing(w) == UNCHANGED serial

StoreToken(w) == serial' = [serial EXCEPT ![at[w]] = tok[w]]

(* _store and the immediate commit. *)
Store(w) ==
    /\ pc[w] = "answered"
    /\ StoreToken(w)
    /\ fresh' = [fresh EXCEPT ![at[w]] = TRUE]
    /\ credLock' = Release(credLock, w)
    /\ tok' = [tok EXCEPT ![w] = 0]
    /\ Go(w, "using")
    /\ UNCHANGED <<rowVars, grant, rowLock, job, at, got, task, stateVars, providerVars>>

-----------------------------------------------------------------------------
(* The job's end. *)

(* ConnectionTokenSource asks again once its cached token is a minute old. *)
AskAgain(w) ==
    /\ pc[w] = "using"
    /\ got' = [got EXCEPT ![w] = NoGrant]
    /\ Go(w, "asking")
    /\ UNCHANGED <<rowVars, credVars, lockVars, job, at, tok, task, stateVars, providerVars>>

(* Defect: the walk reports to the connection whatever its status. *)
ReportAnyway(c) == status' = [status EXCEPT ![c] = "connected"]

ReportWalk(c) == status' = [status EXCEPT ![c] = IF @ \in SYNCABLE_STATES THEN "connected" ELSE @]

(* run_source_job's last statements and its commit. *)
FinishWalk(w) ==
    LET c == at[w] IN
    /\ pc[w] = "using"
    /\ task[w] = "walk"
    /\ rowLock[c] = NoTx
    /\ ReportWalk(c)
    /\ job' = [job EXCEPT ![c]["walk"] = "completed", ![c]["document"] = Queued(@)]
    /\ Rest(w)
    /\ UNCHANGED <<oauth, proven, disconnectedAt, credVars, lockVars, stateVars, providerVars>>

FinishDocument(w) ==
    /\ pc[w] = "using"
    /\ task[w] = "document"
    /\ SetJob(at[w], "document", "completed")
    /\ Rest(w)
    /\ UNCHANGED <<rowVars, credVars, lockVars, stateVars, providerVars>>

(* ProviderAuthError: the provider refuses a token it minted. *)
Unauthorised(w) ==
    /\ pc[w] = "using"
    /\ honoured[got[w]] = 0
    /\ Go(w, "refused")
    /\ UNCHANGED <<rowVars, credVars, lockVars, job, at, got, tok, task, stateVars, providerVars>>

(* record_failure of "this grant is gone", with mark_reauth_required. *)
RecordReauth(w) ==
    LET c == at[w] IN
    /\ pc[w] = "refused"
    /\ rowLock[c] = NoTx
    /\ status' = [status EXCEPT ![c] = IF @ \in SYNCABLE_STATES THEN "reauth_required" ELSE @]
    /\ SetJob(c, task[w], "failed")
    /\ Rest(w)
    /\ UNCHANGED <<oauth, proven, disconnectedAt, credVars, lockVars, stateVars, providerVars>>

(* Every other end of an attempt: a refresh that failed on the way there or
   back, an unreadable credential, another error, a killed worker. The job is
   queued again, or given up. *)
Fail(w, next) ==
    /\ pc[w] \in {"asking", "posting", "answered", "using", "refused"}
    /\ next \in {"queued", "failed"}
    /\ SetJob(at[w], task[w], next)
    /\ lost' = IF pc[w] = "answered" THEN lost \cup {got[w]} ELSE lost
    /\ Unlock(w)
    /\ Rest(w)
    /\ UNCHANGED <<rowVars, credVars, stateVars, honoured>>

-----------------------------------------------------------------------------
(* The world outside. *)

AccessExpires(c) ==
    /\ fresh[c]
    /\ fresh' = [fresh EXCEPT ![c] = FALSE]
    /\ UNCHANGED <<rowVars, grant, serial, lockVars, job, procVars, stateVars, providerVars>>

(* The grant is withdrawn at the provider, by the person or an administrator. *)
Withdraw(g) ==
    /\ g \notin Unissued
    /\ honoured[g] # 0
    /\ honoured' = [honoured EXCEPT ![g] = 0]
    /\ UNCHANGED <<rowVars, credVars, lockVars, job, procVars, stateVars, lost>>

Next ==
    \/ \E c \in Conn, s \in State : StartNew(c, s)
    \/ \E r \in Request, c \in Conn : StartLook(r, c) \/ Disconnect(r, c)
    \/ \E r \in Request, s \in State : StartWrite(r, s)
    \/ \E r \in Request, c \in Conn, s \in State : Spend(r, c, s)
    \/ \E r \in Request, g \in Grant : Exchange(r, g)
    \/ \E r \in Request : Upsert(r) \/ Close(r) \/ Quit(r)
    \/ \E r \in Request, yes \in BOOLEAN : Connect(r, yes) \/ RevokeUpstream(r, yes)
    \/ \E c \in Conn : Abandon(c) \/ SyncNow(c) \/ WalkNow(c) \/ RunSync(c) \/ AccessExpires(c)
    \/ \E w \in Worker, c \in Conn, k \in Stage : Take(w, c, k)
    \/ \E c \in Conn, k \in Stage : RefuseUnproven(c, k)
    \/ \E w \in Worker : UseStored(w) \/ PostRefresh(w) \/ CannotAsk(w)
    \/ \E w \in Worker, next \in 1..MaxSerial : Accept(w, next)
    \/ \E w \in Worker : Reject(w) \/ Store(w) \/ AskAgain(w) \/ Unauthorised(w)
    \/ \E w \in Worker : FinishWalk(w) \/ FinishDocument(w) \/ RecordReauth(w)
    \/ \E w \in Worker, next \in {"queued", "failed"} : Fail(w, next)
    \/ \E g \in Grant : Withdraw(g)

Spec == Init /\ [][Next]_vars

(* The drain reaches every queued sync (see Drain). *)
FairSpec == Spec /\ \A c \in Conn : WF_vars(RunSync(c))

-----------------------------------------------------------------------------
(* Properties. *)

(* Types: the rows, the locks, the jobs, the processes and the provider. *)
TypeOK ==
    /\ status \in [Conn -> Status]
    /\ oauth \in [Conn -> State \cup {NoState}]
    /\ proven \in [Conn -> BOOLEAN]
    /\ disconnectedAt \in [Conn -> BOOLEAN]
    /\ grant \in [Conn -> Grant \cup {NoGrant}]
    /\ serial \in [Conn -> 0..MaxSerial]
    /\ fresh \in [Conn -> BOOLEAN]
    /\ rowLock \in [Conn -> Request \cup {NoTx}]
    /\ credLock \in [Conn -> Process \cup {NoTx}]
    /\ job \in [Conn -> [Stage -> Progress]]
    /\ pc \in [Process -> {"idle", "starting", "exchanging", "granted", "stored", "revoking",
                            "closing", "asking", "posting", "answered", "using", "refused"}]
    /\ at \in [Process -> Conn \cup {NoConn}]
    /\ \A p \in Process : at[p] = NoConn <=> pc[p] = "idle"
    /\ got \in [Process -> Grant \cup {NoGrant}]
    /\ tok \in [Process -> 0..MaxSerial]
    /\ task \in [Process -> Stage \cup {"none"}]
    /\ minted \subseteq State
    /\ exchanged \in [State -> Nat]
    /\ honoured \in [Grant -> 0..MaxSerial]
    /\ lost \subseteq Grant

(* A state reaches the provider at most once, whatever became of the request
   that spent it and however often the browser repeats the redirect
   (complete_callback's "A replayed callback must find nothing"). *)
StateSpentOnce == \A s \in State : exchanged[s] <= 1

(* No credential outlives its connection: a disconnect racing a callback that
   stores one, or a worker that refreshes one, never leaves a token behind on a
   row that is disconnected. *)
NoCredentialLeft == \A c \in Conn : grant[c] # NoGrant => status[c] \in Live

(* Two workers never race a rotating refresh token: the one a worker presents
   is the one the provider honours, unless the grant was withdrawn or an answer
   was lost on its way back (the reason for _load's FOR UPDATE). *)
NoBurnedTokenPresented ==
    \A w \in Worker : pc[w] = "posting" =>
        honoured[got[w]] \in {0, tok[w]} \/ got[w] \in lost

(* Nor does a failed walk burn one: outside a refresh the stored token is the
   one the provider honours, under the same exceptions (the reason why the
   token source commits at once). *)
StoredTokenHonoured ==
    \A c \in Conn : (grant[c] # NoGrant /\ serial[c] # 0 /\ credLock[c] = NoTx) =>
        honoured[grant[c]] \in {0, serial[c]} \/ grant[c] \in lost

(* What the owner or an administrator decided (to start again, to disconnect) or
   has yet to do (reconnect) is never undone by a job that outlived it:
   mark_reauth_required's and run_source_job's predicates. *)
WorkersRespectOwner ==
    [][\A w \in Worker : pc'[w] # pc[w] =>
        \A c \in Conn : status[c] \notin SYNCABLE_STATES => status'[c] = status[c]]_vars

(* Disconnecting stops the syncing (the module's docstring): a row that was
   disconnected is history. *)
DisconnectedStays == \A c \in Conn : disconnectedAt[c] => status[c] = "disconnected"

(* A sync that was asked for brings a walk about, after a failed one too
   (sync_now: a finished one, including a failed one, is reopened). *)
EverySyncWalks ==
    \A c \in Conn : (job[c]["sync"] = "queued") ~>
        (job[c]["sync"] = "failed" \/ job[c]["walk"] \in {"queued", "running"})
=============================================================================
