# A TLA+ model of Jutsu

Jutsu ingests a company's documents (local exports, OAuth providers, uploaded
files) into a searchable corpus, answers questions over it with sources, and hands
a leaver's knowledge to a successor as a package. An API queues work as rows of a
PostgreSQL table, a worker service drains the table, and a web console is what
administrators, employees and recipients see of it all. This directory models the
parts whose correctness depends on order: row claims and leases, crashes and
retries, doorbells, OAuth round trips, source walks and their cursor, the nightly
clock, sign-in, invitations, packages, and the console's pages, whose answers
arrive late, lost and out of order.

Every definition that models code is listed in `PROJECT.json` under `map` with the
source lines it stands for; `hazards` lists what is hard to test in this code, at the
line where it bites, with the properties that are about it. Paths below are
relative to the repository root (`src/` here); `worker/` abbreviates
`apps/worker/src/jutsu_worker/`, `api/` `apps/api/src/jutsu_api/` and `web/`
`apps/web/`.

## Inventory

| Component | State | Operations | Hard behaviour | What makes it correct | Modules |
|---|---|---|---|---|---|
| durable job rows (`worker/jobs.py`, `runner.py`) | one row per idempotency key: state, attempts, next_attempt_at, locked_until; the row lock of an open work transaction | enqueue, reopen, requeue, claim, record_state, complete, fail, reclaim | kills between transactions, leases that run out under live workers, late writes by id alone | one worker per job, bounded attempts, no lost row, no revived outcome, one paid call at a time | `JobStore`, `JobQueue` |
| doorbell, drain loop, follow-ups (`core doorbell.py`, `api/queue.py`, `worker/drain.py`, `http.py`) | Cloud Tasks tasks, each drain's progress | ring, deliver, sweep, run each kind, count, ring again | ring before commit, coalesced bells, lost rings, killed drains, three counts at three moments | nothing runnable waits for nobody; the worker does not ring for ever | `Drain` |
| connections and OAuth (`api/connectors.py`, `worker/credentials.py`, `fetchers.py`, `sync.py`) | connections, credentials, each job's token, the provider's view of a grant | start, callback, deny, disconnect, revoke, sync, refresh, report | network calls inside and between transactions, replayed redirects, rotating refresh tokens | a state is spent once, no credential outlives its connection, tokens are neither raced nor lost | `Connections` |
| source walk and versions (`worker/ingest.py`, `pipeline.py`) | cursor, document jobs, stored versions | list, queue or reopen, commit the cursor, fetch, store, reclaim | a change between fetch and listing, incomplete listings, a lease overrun | what the cursor covers is in the corpus or will be read | `SourceWalk` |
| nightly clock (`worker/schedule.py`, migration 0020, `api/sync_schedule.py`) | started and finished marks, the tasks alive, the sync row, a doorbell | look, claim, enqueue, ring, finish; change the hour | ticks that overlap, a kill at any step, a look that is stale at the claim | at most one run a day that was not killed, at least one if the window is seen through | `NightlySync` |
| embedding client (`retrieval embeddings.py`, `persistence.py`) | ledger, shared deadline, batches, vectors | cut, send, retry, cancel, store | concurrent batches against one ceiling, a refusal shared by all | budget held, paid once, quota waited for | `Embedding` |
| Knowledge Basket (`api/basket.py`, `worker/basket_state.py`, `web/components/basket`) | a file's row beside its job's, the page's rows and lane | ticket, put, complete, read, retry, remove, cancel, poll | a row and a job written in different transactions, removal during a read | what is searchable was put in and not taken out; no spinner for ever | `Basket` |
| sign-in and sessions (`api/auth_service.py`, `web/app/signin`, `verify`) | challenges, attempts, sessions, the screen | ask, open the link, type, spend | concurrent guesses, a newer code, a second device | a code redeemed once, attempts counted | `SignIn` |
| registration, invitations, bulk (`api/registration.py`, `invitations.py`, `bulk_invitations.py`) | intents, invitations, members | submit, verify; invite, resend, revoke, accept; check, send, retry | two clicks on one link, a resend during acceptance, one conflict of a batch | one member per address, nobody mailed twice | `Registration`, `Invitations`, `BulkRoster` |
| knowledge-transfer packages (`api/kt*.py`, `web/app/kt`, `web/components/kt`) | packages, holders, exclusions, files, marks, conversations | open, bind, extend, complete, revoke, keep back, attach, mark, ask | read and bind are two statements; the panel and the cache show older moments | held by whom it names for good; what is kept back is not served | `KtPackages`, `KtReview`, `KtReader`, `KtMarks`, `Copilot`, `KtAdmin` |
| question box, answers, dictation (`web/components/product`, `lib/voice-input.ts`) | the box, a recogniser, two microphone streams, cards and sources | type, ask, dictate, open sources | events of ended sessions, answers after edits | dictation leaves typed words alone, one microphone, sources stay with their answer | `Voice`, `Ask`, `Orb`, `AnswerLog` |
| lists, panels, forms of administrators (`web/app/admin`, `web/components/admin`) | pages of rows, pickers, forms over records | search, page, filter, change, save | answers out of order, records that arrive during an edit | what is shown is what was asked for; saved means stored | `Paging`, `Directory`, `SourcePanels`, `Identities`, `Forms` |
| tools of an employee (`web/app/me/integrations`) | a card, the catalogue, the address after the return | connect, return, sync, disconnect | a reload or a re-read between the return and the notice | the return is announced once | `SourcePanels` |
| shell, capabilities, cached reads (`web/lib`, `web/components/console*`) | cookie, session, capabilities, cached queries, the writes that tell them | enter, refuse, sign out, read, invalidate | a cached refusal, a read under way when a write is answered | a valid session stays; lists see their own page's writes; no screen is offered that the server refuses | `QueryView`, `Shell`, `Screens`, `Navigation` |
| landing page and controls (`web/components/site`, `ui`, `lib/feedback.ts`) | loops, contexts, timers, focus | mount, scroll, resize, press, leave | effects that outlive their element, clicks and pointer events of one press | what is taken from the browser is given back; a press is answered once | `Scenes`, `Navigation`, `Controls`, `Orb` |
| extraction, failover, graph projection (`worker/extraction.py`, `llm failover.py`, `graph/`) | none but the row | call providers in turn; project | one failing step of several | the row's outcome | rows only (`JobStore`) |
| request budgets (`api/rate_limit.py`) | one counter per window | spend | - | one atomic upsert | no |
| search and fusion, chunking, masking, tenancy, text extraction, evaluation gates | none, or the database's | queries, text to text | - | - | no, see below |

How they interact: a request writes a row and rings a doorbell (the ring leaves
before the commit); Cloud Tasks delivers the bell to the worker's `/drain`; the
drain reclaims expired leases, runs every kind of job in order and rings for
itself when work is left; each job is up to three transactions, and the work
transaction of a stage queues the next one's row; walks and fetches ask the
credential row for a token and report to the connection row, which its owner
changes from the API at any time. Every night a scheduled task queues one sync per
connection and rings. The console reads everything through cached queries of one
tab; a write invalidates the queries its author thought of, and nothing else tells
the page that the server has moved.

## Modules

| Module | What it is |
|---|---|
| `JobQueue` | what the queue promises: at most one owner per job, only the owner ends it, a finished job returns only when submitted |
| `JobStore` | the rows, row locks and three transactions that implement it |
| `Drain` | `JobStore` driven by bells and drains (extends it; every row change is a `JobStore` action) |
| `Connections` | one person's connections to one provider: API requests, workers, locks, tokens, provider |
| `SourceWalk` | one source's walk, its cursor, the document jobs and the bodies they fetch and store |
| `NightlySync` | one night of one organisation's clock, with the sync row and its bell |
| `Embedding` | one pass over a document's pending chunks |
| `Basket` | files from the press of a button to the corpus: page, API, worker |
| `Voice`, `Ask` | the dictation hook over the browser's recogniser; the question box, which extends it |
| `Orb` | the picture of a voice: its microphone and its WebGL context |
| `AnswerLog` | answer cards and their sources, of Ask and of the copilot |
| `Copilot` | a package's conversations: thread, list, questions in flight |
| `KtPackages` | one package: open, bind, change, close; its recipient's shell |
| `KtReview` | the detail panel: what is carried, kept back and attached |
| `KtReader`, `KtMarks` | a recipient's pages: a document by passages and the summary's PDF; marks and saved items |
| `KtAdmin` | the list of packages with its two-press buttons, and the wizard |
| `SignIn`, `Registration`, `Invitations`, `BulkRoster` | codes and sessions; a new organisation; one address's invitations; a team's |
| `Paging` | pages below a cursor and the walk through them, shared by the lists |
| `Directory` | the people of an organisation, the evidence search, the audit log, jobs and invitations |
| `SourcePanels`, `Identities` | lists with a button per row and the round trip of a tool; the picker and a person's identities |
| `Forms` | role, profile and settings over records that others change |
| `QueryView` | one cached query: read, answered, arrived, invalidated |
| `Shell`, `Screens` | who is let in and sent away; each screen's capability, reads and writes |
| `Navigation`, `Scenes`, `Controls` | what follows the scroll; loops and markers of the landing page; copy button and feedback |
| `JobStoreProofs`, `DrainProofs`, `ConnectionsProofs`, `KtPackagesProofs`, `AccountProofs`, `DeskProofs`, `SurfaceProofs`, `ConsoleProofs` | the theorems |
| `MCJobStore`, `MCDrain`, `MCConnections`, `MCConsole`, `MCDesk` | the instances for TLC |

Components that share no state have variables of their own names, so that one
module can extend several of them: `MCConsole` and `MCDesk` compose that way.

### JobStore and the code

`state`, `attempts`, `retryAt`, `lease` are the columns of committed rows;
`next_attempt_at` is `null`, `future` or `past` and `locked_until` is `null`,
`held` or `expired`, because SQL only compares them with `now()`. `writer[j]` is the
transaction that holds row `j`'s lock. A worker is `idle`, `claimed` (transaction 1
committed), `calling` (in the slow part of transaction 2), `writing` (it has written
its row and will commit) or `failing` (transaction 2 rolled back, transaction 3 to
come). What a work transaction writes is visible at its commit only, which is why
the intermediate states (`parsing`, `embedding`, ...) are not values of `state`.
`Claim` skips locked rows as `FOR UPDATE SKIP LOCKED` does; `Reclaim`, `Requeue` and
`RecordFailure` wait for them as an UPDATE does. `RecordFailure` uses `seen`, the
attempts the claim returned, and writes by id alone, as `fail_job` does. A failure of
the failure transaction is `Crash`: the row is left as it was. `Commit`'s reopenings
take their row locks at the commit, although the walk takes them one by one.

### Drain and the code

A bell is an unanswered Cloud Tasks task; per bucket (`api`, `now`, `retry`,
`lease`) there is one or none, because tasks of a window share a name and fire after
it closes. `Ask` rings before `CommitAsk`, as the handlers do; `Deferred` is the
delay that makes a task fire after the request's commit. `DrainReclaim`, `TryKind`,
`LeaveLoop` are `drain_org`; `CountClaimable`, `CountRetries` and `Report` are
`drain_and_report`'s three queries, each of which sees its own moment of the table
but the `now()` of their common transaction (`counted.past`, `counted.expired`).
`Kill` ends a drain anywhere: its task is delivered again.

### Connections and the code

The rows' columns are committed values, as in `JobStore`. Transactions with a network
call between statements are several steps and hold `rowLock` or `credLock` between
them: `Disconnect`, `RevokeUpstream`, `Close` (both `disconnect_own` and
`revoke_connection`); `Upsert`, `Connect` (the request transaction of
`complete_callback`); `PostRefresh`, `Accept` or `Reject`, `Store`
(`access_token_for` under `ConnectionTokenSource`). `Spend` is the transaction of its
own that spends the state; `StartLook` and `StartWrite` are `start_connection`'s
unlocked read and its write. `honoured[g]` is the refresh token the provider accepts
for a grant, which a refresh may rotate; `lost` records grants whose refresh answer
never reached the database, after which nobody can know the token: the properties
about tokens exempt them. `Quit` is the rollback of a request for any reason: a
provider's refusal, the unique index, a deadlock victim (callback and disconnect lock
the two rows in opposite order, and PostgreSQL aborts one), a killed process. `Fail`
is the same for a worker. The jobs are five-valued progress; `JobStore` has the rest.
Refusals that change nothing (unknown or expired state, another person's connection,
a provider that is not configured) are not steps. Left out: provider policies,
`link_verified_subject`, `last_error_kind`, the audit log.

### SourceWalk and the code

Bodies of a document are numbered as the provider comes to have them; `uncovered` is
the documents modified since `sources.last_sync_cursor`. A walk is one transaction:
`Lists` is one identifier of it (its job is queued, reopened if it is completed, and
left as it is otherwise), `WalkCommits` makes jobs and cursor visible together, and
an incomplete listing leaves the cursor where it was. A document's row lock is taken
after the fetch and held to the commit, so `Fetches` is a step and `Stores` the rest:
a second worker that got the job by a reclaim can fetch meanwhile and store
afterwards. `overtaken` and `doubled` are history: the documents a listing met in
flight with an older body, and those two workers have had. `CursorCovers` is about
all others; `CoveredIsRead`, which the run `walk_lost` refutes, about the overtaken ones too.

### NightlySync and the code

Time is counted in steps of five minutes from the organisation's midnight. `Due` and
`StillTakeable` are the two SQL predicates of migration 0020 that its comment calls
"two predicates over one rule"; `TaskBegins` is the look, `TaskClaims` the claim,
`Queues` the enqueueing transaction, `Rings` and `Finishes` what follows. A kill
between any two steps ends the task, which Cloud Run may begin once more. The sync
row and its bell have as much of `JobStore` and `Drain` as the ring is about.

### The console's pages and the code

A page is modelled by its component's state (`useState`, `useRef`, cached queries) and
one action per event: a press (guarded by what the JSX disables or does not render), a
request's arrival at the server, its answer's arrival at the page. A request that the
server has served may be answered late, after newer ones, or never: the action that
delivers an answer is separate from the one that serves it, and losing it is an
action too. React's keys, effects and closures are modelled where they decide
something: a card keyed by its place (`Rekeyed`), a callback of the render it was
made in (`Directory`'s reload), an effect that is flushed after the frame it belongs to
(`Scenes`). TanStack Query is `QueryView`: cached data, the read under way, and
`invalidateQueries`, which cancels and re-asks the mounted reads and marks the others.
Next-state relations are mapped to the JSX that offers their actions.

`Screens` says which capability each screen of the console needs at the server and
in the navigation, which reads it stands on and which writes tell which reads; a run
follows one screen and one write.

## Runs

Each run is a cfg of a module; `PROJECT.json` lists its properties and, for each
property of a passing run, a mutation of the modelled code that breaks it.

| Run | Bounds | Shows |
|---|---|---|
| `jobstore_overrun` | 2 jobs (a document and its embedding), 2 workers, 2 attempts, 1 crash, 1 overrun and 1 reopening per job | types; no two workers in the paid call of one embedding; rows agree: a working row has a lease, a finished row no retry time |
| `jobstore_lease` | 2 jobs (a source and its document), 2 workers, 2 attempts, 2 crashes, 2 reopenings per job, no overruns; fairness | a claimed row is its worker's alone; attempts bounded by the ladder plus crashes; finished rows stay; every job settles; refinement of `JobQueue` |
| `jobstore_taken` | 1 document job, 1 overrun | violation: two workers fetch one document |
| `drain_silence` | 2 jobs, 2 drains, 1 kill, 1 reopening per job | when no bell is left, unfinished work is one of two named leftovers |
| `drain_settles` | 2 jobs, 1 drain, 1 kill, 1 refused ring, 1 reopening per job, with and without an embedder; fairness | a later bell recovers everything; bells stop |
| `drain_forgotten` | 2 jobs, 2 drains, 1 kill | violation: a killed worker's job is left with no bell |
| `connections_safety` | 1 row, 2 requests, 2 workers, 2 states, 2 grants, 2 refresh tokens per grant | a state is exchanged at most once; no credential on a disconnected row; a presented refresh token is the honoured one, and so is a stored one; jobs do not undo the owner's decisions |
| `connections_revived` | the same with 1 worker | violation: a disconnected row comes back to life |
| `connections_resync` | 1 row, 1 request, 1 worker; fairness of the sync job | violation: after a failed walk a sync brings no walk about |
| `walk_lost` | 2 documents, 2 workers, 2 bodies | violation: a change the cursor covers is never read |
| `console` | see below; 2.3 million states | the console's pages and the nightly clock |
| `desk` | see below; 0.6 million states; fairness | the Knowledge Basket, the question box, an embedding pass, a source walk |

The violations are disagreements of the code with its own documentation; each is
described with its lines under `findings`.

### What `console` shows

One instance picks one of 37 surfaces in its first state and stays there, since they
share no state. Variables of the surfaces not picked stay at one initial value;
`VIEW Picked` leaves them out of the fingerprint, which is exact for that reason.

| Property | Parts |
|---|---|
| `ThreadHolds`, `AnswersStay` | a copilot's thread has the open conversation's turns, each once and in order, over answers, re-reads and switching; a turn on screen stays; what was archived leaves the list |
| `ListsFollowTheBox` | people, picker and evidence search show what their box asks for, in whatever order answers come |
| `WalksAreWhole` | a paged list, or a document read by passages, is one walk: nothing twice, nothing missing |
| `SourcesStay` | fetched sources stay with their answer when a new one moves every card |
| `PackageIsItsHolders`, `BoundForGood` | a package is worked in by its holder, who is whom it names, for good |
| `KeptBackStaysBack` | what the panel said is kept back is not served, over attaching, detaching and other packages |
| `TeamIsInvitedOnce`, `OneMember` | nobody is mailed twice by retries; an unticked address stays out; one member per address and no withdrawn link makes one |
| `ListsCatchUp` | a list at rest shows the writes its page made, whatever read was under way: marks, saved items, cards, identities, sources, grants, and every screen by the keys its writes name |
| `FormsHold` | what is said to be saved is stored, choices are admitted, untouched fields are kept, a refusal stands beside what was refused, no package is ordered for its own subject, a press answers one question |
| `AttemptsAreCounted` | a challenge answers at most its attempts, and opens one session |
| `RightSession` | the newest code fits its cookie; a valid session is never sent to sign in; no screen is offered that the server refuses |
| `GivenBack` | object URLs, microphones, contexts, loops and offsets are given back whenever a component leaves |
| `PageSaysSo` | returns, failures and presses are said once; the section one is in is the one marked |
| `NightHolds` | `OncePerDay`: at most one run a night and one more per killed run; `NightIsKept`: a killed run does not cost the day while the window's ticks go on; `QueuedIsRung`: a queued sync has a bell, a task about to ring one, or its ring was lost |

Where a property excepts a case, by a history variable, that case is a flaw of the
code which the section below describes.

### What `desk` shows

`CorpusIsRight`: what is searchable of a basket was put in and not taken out, through
removal during a read, cancel during an upload, retries and kills. `OneSession`,
`SessionEnds`, `DictationKeepsTyped`: one microphone per session, ended at last by its
ceiling, and typed words left alone. `CursorCovers`: see SourceWalk above.
`SpendingIsHeld`: the ledger overshoots by less than what is in flight, a stored vector
is never paid for again, a quota refusal holds back every batch that has not begun
to wait. `WaitsEnd`: a file's turn, a row's spinner and a pass end.

### Why the bounds are enough

Two workers are what every race of the rows needs: one that holds a stale claim or
lock and one that moves on. Two attempts reach each branch of the ladder (retry, dead
letter); crashes and reopenings are counted per job so that a reopened job can crash
again. Two jobs give a stage and its successor, the only coupling of rows there is. In
`Connections` one row is enough for the safety properties: rows share nothing but the
unique index, and a second live row only disables `StartWrite` and `Connect`. Two
states give a replay beside a newer attempt, two grants an old and a new one
(`Unissued` reuses a grant nobody remembers), two serials one rotation.

Documents of a walk meet only in the walk's commit, so one document with three bodies
shows what two would; `walk_lost` has two. The night's clock has the deployment's own
numbers in steps of five minutes (an hour's window, a tick each quarter, a task of ten
minutes, a lease of twenty), two tasks at once and one kill; the hours 0 and 3 let a
change of hour move the window into, and out of, the time already passed. The
embedding's eight chunks make two passes of two batches each, with two at the
provider, against a budget that the first pass uses up. On the console's pages two
requests in flight, two rows or packages beside each other and one lost answer are
what the orders need; a paged list has three rows of one each, so that a walk has a
middle page. The theorems below do not depend on any bound.

The types of the composed instances, `ConsoleTypeOK` and `DeskTypeOK`, are stated in
their modules and are not among the runs' properties.

### Fairness

`JobStore`: clocks advance (leases and backoffs run out), a live worker's calls return
or raise, and drains come back; nobody has to enqueue, reopen or crash. A claim is
fair per job because `claim_job` takes the oldest runnable row. `Drain`: a task is
delivered at last (Cloud Tasks retries), each step of a drain that is not killed
happens, a request's transaction ends; `LaterBell`, a sign-in or another request, is
assumed to come at last when all is silent, which is what `drain_org`'s docstring
relies on. Kills, refused rings and requests have no fairness. `Connections`: only
that a queued sync is run, which `Drain` shows.

`Basket`: a browser request ends, answered or not (every `fetch` does), the polling
that `refetchInterval` asks for happens while it asks, and a reading is carried on,
which is `Drain`'s and `JobStore`'s result. `Ask`: a started timer fires and a stopped
recogniser ends, as the browser does both. `Embedding`: the event loop runs a task
that can run, the client's calls end (it has a timeout), and time passes while a task
sleeps. Nobody has to press, pick, speak or answer well.

All cfgs say `CHECK_DEADLOCK FALSE`: with the bounded kills, requests and presses used
up a system whose work is finished does stop.

## Proofs

`JobStoreProofs` (for any jobs, workers, kinds, successor relation and bounds):

* `TypeCorrect`: `TypeOK` is inductive by itself.
* `RowsConsistent`: leases and retry times agree with states. `RowInv` adds to
  `RowsAgree` that an absent row has no retry time either.
* `PaidCallsExclusive`, lease overruns included. `PaidCallExclusive` is not inductive:
  nothing in it says why the second worker cannot get in. `LockInv` does: a row lock
  belongs to a worker that is in that job's call or write, and a kind that locks first
  has it for the whole call; a lock has one holder.
* `ClaimsCurrent`, `AttemptsAreBounded`, `FinishedRowsStay`, `RowsImplementQueue`, under
  `MaxOverruns = 0`: no lease runs out under a live worker. The hypothesis is needed:
  with overruns a late `complete_job` or `fail_job` lands on a row somebody else has
  finished or restarted (both write by id alone). `ClaimInv` says a busy worker's row is
  working, leased, has the attempts it saw, and is nobody else's. `LadderInv` adds that a
  waiting or orphaned row has an attempt left over for the claim to come. The refinement
  maps `Claimable` to `queued`, `Working` to `running` and picks the owner with CHOOSE,
  which under `ClaimInv` is unique (`OwnerIsHolder`).

`DrainProofs` (for any jobs, workers, kinds, kills and refused rings):

* `DrainKeepsRows`: every step of a bell or a drain is a step of `JobStore` or leaves the
  rows alone, so that what is proved of the rows holds of them in the composition.
* `SilenceIsExplained`, lease overruns included. The property is about the moment at which
  no bell is out and no drain runs; it says nothing of the moments before, and is far from
  inductive. `NoneForgotten` is: while no bell is out and no ring was refused, every job
  that is due is covered by a drain (`Covers`), which has it in hand, or is sure to come to
  its kind, or to count it, or has counted it and will ring. The step that carries the
  proof is the one from the loop to the counts: a drain that has run something counts
  what it leaves, and one that has not has passed every kind and found nothing.

`ConnectionsProofs` (for any connections, requests, workers, states, grants and number
of refresh tokens; the assumption is only that requests and workers are different and
that the absent values are not members of their sets):

* `TypeCorrect`: `TypeOK` is inductive with `StagesFit`, which says what a process
  holds at each stage.
* `StatesSpentOnce`: a state still on a row was never exchanged and is on one row only
  (`StatesInv`); spending it takes it off the row and commits before the provider is
  called, so that a replay finds nothing.
* `CredentialsEnd`: no credential outlives its connection. It is inductive given types: a
  credential is written in the transaction that writes `connected`, and the one that
  writes `disconnected` waits for a refresh in flight before it deletes (`Forget`).
* `OwnersRespected`: no job's step changes a row outside `SYNCABLE_STATES`.
* `TokensNeverRaced`: a presented refresh token, and a stored one, is the one the provider
  honours. Neither part is inductive. `GrantsApart` (nobody shares a grant) and `LocksFit`
  (a refresh owns the credential's lock from its read to its commit) make `TokensFit`
  inductive: the honoured token is the row's, or that of the one worker between the
  provider's answer and the commit. `StoredTokensAreHonoured` is its second half, which the
  run checks by itself.

`KtPackagesProofs` (any employees and packages):

* `PackageTypeCorrect`, and `HolderIsForGood`: the bind's own statement compares the
  holder it saw, so no interleaving of opens and changes replaces one.
* `WorkedByItsHolder`, `HeldByTheNamed`, and together `PackageIsHeld`: a granted request
  is the holder's (`GrantedIsHolder` says it of requests that have read and not yet
  answered), and a bound package names its holder but for a change that read it
  before the bind and wrote after.
* `KeptBackIsKept`: `PromiseHolds` is the inductive invariant; it ties what the page has
  said to the server's exclusions and to the reads that are out (`ReadAgrees`).

`AccountProofs` (any number of devices, links, tabs and administrators):

* `CodesAreCounted`: `CountsAgree` relates a challenge's counter to the verdicts its
  uncommitted and committed guesses have had.
* `NewestCodeIsHeld`: the cookie's challenge is the one of the newest mail, unless two
  asks crossed or an answer was lost. `AskIsNewest` says that one ask is out at most, and
  which challenge it will leave in the cookie.
* `OneMemberOnly`: `RowsAreHeld` says which request holds the row and the unique index's
  entry of the address while it is uncommitted.

`DeskProofs` (any files, sessions, texts, answers, documents, workers, tasks, chunks and
bounds):

* `CorpusStaysRight`, with `FilesFit`: what a file's row, job and upload can be at each
  step. The proof does not use the lock on the basket's row that the ingestion takes
  first: its statements' own guards suffice for this property.
* `BoxUsesVoice`: each step of the question box is a step of the dictation hook or
  leaves it alone, a refinement; `MicrophoneIsOne` is proved of `Voice` (`VoiceInv`) and
  carried to the box. `DictationKeepsTheBox` adds `SnapshotHolds`, what the box was when a
  session began.
* `SourcesAreKept`: `LogInv` and `CitationsInv` tie a panel to the request that filled it.
* `CoverageHolds`: `WalkInv` says of every document that is covered and behind that
  something is on its way: a job, a listing that has queued it, or a worker that has
  yet to ask (`OnItsWay`), with the rows a walk holds (`Held`).
* `NightIsSafe`: `NightHolds`, for any window, tick and lease that outlives a task
  (`NightAssumption`). `NightInv` says that a task began in the window and has its time
  (`TasksFit`), that an unfinished claim is at work or was killed (`ClaimsAccounted`),
  that runs are counted against the killed (`RunsCounted`) and what the last tick saw
  (`SeenMeansClaimed`). The lemma that carries it is `FreeToTake`: whoever may claim
  finds nobody at work, which is false for a lease shorter than a task.
* `SpendingStaysHeld`: all four parts of `SpendingIsHeld`, for any chunks, bounds, budget
  and delays. `PassFits` adds to the ceiling that every batch of the pass is one that may
  be cut, so that its bill is within `LargestBill`, and that each task's record is typed.
  The lemmas are about the model's sums and recursions: what a batch at the provider adds
  to the total that is out, and what it takes from it (`TotalMoves`, `TotalIsWithin`), what
  `Plan` cuts (`PlanCuts`) and what is pending (`PendingIsUnembedded`). `RecursionFills`
  and `Upward`, from the least member of a set of naturals, stand for induction.

`SurfaceProofs` has a theorem for each surface of the console, of any number of rows,
packages, filters, passages, conversations, questions, effects, scenes or sections. Each
rests on an inductive invariant of its own, named ...`Fits`, which types the page's state
and says how the request in flight relates to what the page shows:

* Copilot. `ThreadFits`: what the page has read of a conversation, or is reading, is how
  its stored turns begin; the answers shown before they are read again are turns of it, in
  order, and older than the question under way. `AnswersNeverBlink` also needs
  `ReadIsLater`: the read under way extends what is shown. `ArchivedStaysOut` rests on
  `LeftFits`: what was archived is in no page held or being read, but where the first is
  about to be read again.
* Screens. `OffersAreServed`, `FailuresAreSaid` and `ListsAreTold` are about tables: of roles
  and capabilities, of what each screen reads, needs and keys, and of what each write
  tells. `ScreensFit` relates a read to the write that was answered; `PagesFit`
  and `DeedsFit` are the facts about the tables that its steps use, proved entry by entry.
* Walks: `RowsAreOneWalk`, `TrailHasNoHole`, `TextStaysUnbroken`, for lists of any length and
  pages that fail, arrive late or are reset. Searches: `ListDoesFollow`, `PickerFollowsTheBox`,
  `EvidenceIsTheSearch`. Reads: `MarksDoCatchUp` and the other lists at rest.
* Forms, invitations, sessions, the resources a component takes from the browser and
  what a page must say: the module's header has the theorems by subject.

`ConsoleProofs` carries them to the instance the run checks. `...AreSurfaces` lemmas say
that a step of the console is a step of one surface and leaves the others alone;
`ConsoleFormsHold` to `ConsoleThreadHolds`, and `ConsoleAnswersStay`, are then the run's own
properties. With these, every property of `console` is stated by a theorem, and so is
each of the other passing runs but for the ones below.

Some definitions are written for the provers. `Embedding` takes its sums, its plan and its
pending chunks by recursive functions where the community modules have folds. `Copilot`'s
filter `Outside` is a recursive function where they have `SelectSeq`, and `Screens` joins
its tables by `With` where TLC's module has `@@`, because tlapm can open neither. `Paging`
assumes at least one row on a page (`MaxRows \in Nat \ {0}`), as every request of the code
has.

TLC only: liveness (`EveryJobSettles`, `BellsSettleEveryJob`, `BellsStop`, `WaitsEnd`,
`SessionEnds`), which the proof system does not support under fairness.

## Where the code disagrees with itself

Reached by the models, excepted from a property by a history variable or a guard
where they would refute it, and not in `findings` unless a run shows them.

Jobs and walks:

* A crash-looping job is claimed once more than `MaxAttempts`: a reclaim keeps the
  attempts and a claim has no limit (`jobs.py` 361-370, 533-537, against the docstring
  at 505).
* An incomplete listing lists the same window again, and completed documents in it are
  reopened and fetched again, although `ingest.py` 289-301 says their keys refuse them.
  A source with more changes than the page budget allows may never get past it.
* After a lease overrun an older fetch can supersede a newer version
  (`persist_document` compares hashes only), and the cursor has covered the newer.
* A document deleted at its source stays in the corpus: the job completes and leaves
  the version.

The nightly clock:

* A run killed between its commit and its ring leaves the row pending; the run that
  takes over counts nothing enqueued and so rings nothing (`_ring(...) if enqueued`).
* `mark_finished` goes by the organisation alone; that a run that was taken over does not
  finish the one that took it rests on the task's limit, which is shorter than the
  lease. A night whose enqueueing raised is finished as `failed` and not tried again
  although ticks are left.
* A run that claimed within twenty minutes of the last tick and is killed costs the
  day. A claim that lands after midnight is the next day's. ADR 0018 still has the
  lease of an hour that the migration's comment calls exactly wrong.

Embedding: `TokenLedger.check` runs once per batch and not before each retry, against
its docstring; a batch asleep on an older deadline is not held by a later one;
truncated and cancelled answers are billed and not charged; a failed pass pays again
for batches that had succeeded; `run_embedding_job` runs one pass of at most 1000
chunks and completes the job, while `persistence.py` leaves looping to it.

Accounts and packages: bulk mails and single invitations are delivered before their
commit; a lost answer to an acceptance leaves the employee ID never shown and the
retry refused; a resend's button stays enabled while its request is out, and a lost
answer leaves cookie and newest mail mismatched; `update_package` reads without a lock
and updates by id, so a change can readdress a package bound meanwhile; concurrent
extensions lose one; the panel of attachments does not refresh the contents.

Pages, where a stale moment shows:

* People: the reload after a change of role asks by the search of the render it was
  pressed in. Invitations in bulk: a list dropped under a send loses its unticked rows;
  a check in flight while the list is edited shows the old list's preview.
* Ask: an answer empties words typed meanwhile, and a result after it brings back the
  dictated ones. Copilot: search results come back over a box cleared while they were
  out; a re-read of 200 turns drops older ones; shown evidence stays when its citation
  turns unavailable.
* Evidence search: a search pressed while "Load more" is out can be answered by it.
* A mutation hook names its latest row: pressing on another one enables the first
  (basket, marks, sources). A read answered before an off-screen invalidation takes
  its flag down. A lost answer leaves stale marks. Writes of the path do not tell the
  package's progress; a revocation does not tell the package.
* Writes that tell too little: every write the audit log; an invitation or an import
  the invitations and the overview; a rename the identity of the caller; a
  disconnection the summary of connections; a sync or an upload the jobs and the
  statistics; a profile the departments.
* Profile: an answer replaces edits made during the save. Role: an assignment that
  arrives replaces choices, and a governance code that was loaded cannot be seated
  again. Settings: fields filled from an older schedule send it back. Saved items: a
  success clears what was typed meanwhile. Registration: its details stay open while
  the submission is out.
* Shell: with data cached beside a refusal, signing in again within five minutes is
  sent away once more; a failed logout is swallowed; an HR administrator may set the
  schedule, on a page offered by `org:update` alone, which they lack; `/me` is not gated.
* Jobs: the filter and the count say "running", a state no job has. Health says
  nothing of a failed read of the jobs while readiness is pending. Quiet reads fail
  silently by design; a refused "Load more" of the shell only toasts.
* Feedback: turning sound on with the keyboard answers twice; a key within 700 ms of a
  pointer press is silent. Opening: an end that is in sight without scrolling is not
  marked, against the comment. Header: offsets measured before the page grew. Scene:
  the viewer's badge stays if the upgrade takes over thirty seconds. Handover:
  leaving during a composition leaks its object URL.

## Not modelled

* Search, ranking and fusion: read-only queries; the predicate of a package's corpus
  is `KtReview`'s `Served`. A package's composed text and the retrieval of answers go
  with it.
* Document grants, chunks, folder words, masking and text extraction: text to text,
  covered by property-based tests; `extraction.py`'s provider chain is a loop within
  one job with no state between its calls; the graph projection merges by key.
* Request budgets: one atomic upsert in a transaction of its own.
* Row-level security and the schema: PostgreSQL's; the models take one organisation.
  Connectors: foreign formats over HTTP. Evaluation gates: offline scripts.
* arq, the development transport of doorbells: it differs in one point, that a
  follow-up with the running drain's own id is refused.
* The night's time zones and their transitions, a schedule switched off, and the counts
  shown to administrators.
* On the pages: layout, wording, geometry and drawing; renaming, downloading and the
  search box of the basket; the search of past conversations; the avatar; the proxy
  route; the vendored viewer `public/spline/spline-viewer.js`, which is a third of the
  web application's lines.

## What could come next

A property for a connection marked by a job of its previous grant (`ingest.py` 757); and,
were the code to follow the list above, the properties without their exceptions.
