------------------------------ MODULE Directory -----------------------------
(******************************************************************************)
(* The people of an organisation: the list, the search box and the changes    *)
(* of role and invitations that reload it (app/admin/employees/page.tsx).     *)
(*                                                                            *)
(* Every keystroke asks for a first page; tickets let only the last one asked *)
(* for win.  Older pages carry no ticket.  A change of role asks for the list *)
(* again when it is answered, by the search of the render it was pressed in.  *)
(*                                                                            *)
(* The second part is the evidence search (components/product/                *)
(* evidence-search.tsx), the third the lists with a cached first page; they   *)
(* share no state.                                                            *)
(******************************************************************************)
EXTENDS Paging

CONSTANT MaxLoads                    \* bound on the first pages asked for

ASSUME DirectoryAssumption == MaxLoads \in Nat \ {0} /\ 0 \in Filter

VARIABLES
    query,           \* the search box and the dropdowns beside it
    heads,           \* heads[t]: what became of the first page with ticket t
    latest,          \* latestRequest
    people,          \* page, and whether one has arrived
    walk,            \* the older pages
    olderOut,        \* the older page in flight, in a one-element sequence
    listFailed,      \* failure: the error stands where the list was
    changing,        \* the search a change of role in flight will reload
    astray,          \* history: a change was answered after the search had moved on
    mixed            \* history: an older page was out across a first page's arrival

dirVars == <<query, heads, latest, people, walk, olderOut, listFailed, changing, astray, mixed>>

Ticket == 1..MaxLoads
NoChange == [out |-> FALSE, search |-> 0]
HeadsOut == {t \in Ticket : heads[t].state = "out"}

DirectoryInit ==                     \* mounted: the effect has asked for the first page
    /\ query = 0 /\ latest = 1
    /\ heads = [t \in Ticket |-> [state |-> IF t = 1 THEN "out" ELSE "unused", search |-> 0]]
    /\ people = [here |-> FALSE, page |-> EmptyPage]
    /\ walk = NewWalk /\ olderOut = <<>> /\ listFailed = FALSE
    /\ changing = NoChange /\ astray = FALSE /\ mixed = FALSE

(* load(search) takes the next ticket. *)
Load(search) ==
    /\ latest < MaxLoads
    /\ latest' = latest + 1
    /\ heads' = [heads EXCEPT ![latest + 1] = [state |-> "out", search |-> search]]

Searches(q) ==
    /\ q # query /\ query' = q /\ Load(q) /\ astray' = FALSE
    /\ UNCHANGED <<people, walk, olderOut, listFailed, changing, mixed>>

TriesAgain ==
    /\ listFailed /\ Load(query) /\ astray' = FALSE
    /\ UNCHANGED <<query, people, walk, olderOut, listFailed, changing, mixed>>

AnyAnswer(t) == t \in Ticket                                         \* a defect
IsLatest(t) == t = latest

HeadArrives(t) ==
    /\ heads[t].state = "out" /\ heads' = [heads EXCEPT ![t].state = "over"]
    /\ IF IsLatest(t)
       THEN /\ people' = [here |-> TRUE, page |-> FirstPage(heads[t].search, MaxRows)]
            /\ walk' = NewWalk /\ listFailed' = FALSE
            /\ mixed' = (olderOut # <<>>)
       ELSE UNCHANGED <<people, walk, listFailed, mixed>>
    /\ UNCHANGED <<query, latest, olderOut, changing, astray>>

HeadFails(t) ==
    /\ heads[t].state = "out" /\ heads' = [heads EXCEPT ![t].state = "over"]
    /\ listFailed' = (listFailed \/ IsLatest(t))
    /\ UNCHANGED <<query, latest, people, walk, olderOut, changing, astray, mixed>>

(* "Load more" asks with the search in the box, below the cursor it has. *)
OlderPressed ==
    /\ people.here /\ ~listFailed /\ MoreOf(walk, people.page) /\ olderOut = <<>>
    /\ olderOut' = <<PageOf(query, CursorOf(walk, people.page), MaxRows)>>
    /\ mixed' = (mixed \/ query # people.page.filter)
    /\ UNCHANGED <<query, heads, latest, people, walk, listFailed, changing, astray>>

OlderAnswered ==
    /\ olderOut # <<>> /\ olderOut' = <<>>
    /\ walk' \in {Walked(walk, olderOut[1]), walk}
    /\ UNCHANGED <<query, heads, latest, people, listFailed, changing, astray, mixed>>

(* onChangeRole, onInvite, an import or a saved role: awaited, then load(query) *)
(* with the query of the render it began in.                                    *)
ChangesRole ==
    /\ people.here /\ ~listFailed /\ ~changing.out
    /\ changing' = [out |-> TRUE, search |-> query]
    /\ UNCHANGED <<query, heads, latest, people, walk, olderOut, listFailed, astray, mixed>>

ChangeAnswered ==
    /\ changing.out /\ changing' = NoChange
    /\ \/ Load(changing.search) /\ astray' = (changing.search # query)
       \/ UNCHANGED <<heads, latest, astray>>
    /\ UNCHANGED <<query, people, walk, olderOut, listFailed, mixed>>

DirectoryNext ==
    \/ \E q \in Filter : Searches(q)
    \/ \E t \in Ticket : HeadArrives(t) \/ HeadFails(t)
    \/ TriesAgain \/ OlderPressed \/ OlderAnswered \/ ChangesRole \/ ChangeAnswered

DirectorySpec == DirectoryInit /\ [][DirectoryNext]_dirVars

-----------------------------------------------------------------------------
DirectoryTypeOK ==
    /\ query \in Filter /\ latest \in Ticket
    /\ heads \in [Ticket -> [state : {"unused", "out", "over"}, search : Filter]]
    /\ people.here \in BOOLEAN /\ people.page \in PageType /\ walk \in Walk
    /\ Len(olderOut) <= 1 /\ changing \in [out : BOOLEAN, search : Filter]
    /\ {listFailed, astray, mixed} \subseteq BOOLEAN

Settled == HeadsOut = {} /\ people.here /\ ~listFailed

(* The comment on latestRequest: the page never keeps the results of another *)
(* search than the one in the box, with no spinner and nothing to retry.     *)
ListIsForTheBox == Settled => people.page.filter = query

(* It holds of every order in which first pages come back, unless a change of *)
(* role was answered last whose search had been replaced meanwhile.           *)
ListFollowsTheBox == Settled /\ ~astray => people.page.filter = query

(* The rows are one walk of one search: none twice, none of another search, and   *)
(* none missing once "Load more" is gone; unless an older page was out across the *)
(* arrival of another search's first page, or was asked for in between.           *)
OneWalk ==
    people.here /\ ~mixed =>
        LET rows == RowsOf(walk, people.page)
            found == Matches(people.page.filter, MaxRows)
        IN /\ IsInjective(rows) /\ Range(rows) \subseteq found
           /\ ~MoreOf(walk, people.page) => Range(rows) = found

-----------------------------------------------------------------------------
(* The evidence search of a page that cannot answer in prose: one run per search and *)
(* one per "Load more", told apart by two flags that whichever ends first clears.    *)

CONSTANT MaxRuns                     \* bound on the requests of one visit

ASSUME EvidenceSearchAssumption == MaxRuns \in Nat

NothingSubmitted == MaxRows + 1      \* above every filter

VARIABLES
    runs,            \* the requests in flight: page asked for, and whether it appends
    runsStarted,     \* how many there were
    lastSearch,      \* the words of the last search pressed
    submitted,       \* the words the results are for
    foundRows,       \* items
    foundNext,       \* cursor
    busy, moreOut,   \* the two flags
    searchFailed,    \* failure
    overtaken        \* history: a search was pressed with a "Load more" out, or beside another

searchVars == <<runs, runsStarted, lastSearch, submitted, foundRows, foundNext, busy, moreOut, searchFailed, overtaken>>

SearchInit ==
    /\ runs = {} /\ runsStarted = 0 /\ lastSearch = NothingSubmitted /\ submitted = NothingSubmitted
    /\ foundRows = <<>> /\ foundNext = 0
    /\ busy = FALSE /\ moreOut = FALSE /\ searchFailed = FALSE /\ overtaken = FALSE

(* run(query, after) up to its await. *)
StartRun(page, appends) ==
    /\ runsStarted < MaxRuns /\ runsStarted' = runsStarted + 1
    /\ runs' = runs \cup {[n |-> runsStarted, page |-> page, appends |-> appends]}
    /\ searchFailed' = FALSE

MaySearch == ~busy

SearchPressed(q) ==
    /\ MaySearch /\ StartRun(FirstPage(q, MaxRows), FALSE)
    /\ busy' = TRUE /\ lastSearch' = q /\ overtaken' = (runs # {})
    /\ UNCHANGED <<submitted, foundRows, foundNext, moreOut>>

(* Try again searches the words of the results, not those that failed. *)
SearchRetried ==
    /\ searchFailed /\ StartRun(FirstPage(IF submitted = NothingSubmitted THEN lastSearch ELSE submitted, MaxRows), FALSE)
    /\ busy' = TRUE /\ overtaken' = (runs # {})
    /\ lastSearch' = IF submitted = NothingSubmitted THEN lastSearch ELSE submitted
    /\ UNCHANGED <<submitted, foundRows, foundNext, moreOut>>

MorePressed ==
    /\ foundNext # 0 /\ ~moreOut /\ StartRun(PageOf(submitted, foundNext, MaxRows), TRUE)
    /\ moreOut' = TRUE /\ overtaken' = (overtaken \/ runs # {})
    /\ UNCHANGED <<lastSearch, submitted, foundRows, foundNext, busy>>

RunEnds(r) == r \in runs /\ runs' = runs \ {r} /\ busy' = FALSE /\ moreOut' = FALSE

RunAnswered(r) ==
    /\ RunEnds(r)
    /\ foundRows' = IF r.appends THEN foundRows \o r.page.items ELSE r.page.items
    /\ foundNext' = r.page.next /\ submitted' = r.page.filter
    /\ UNCHANGED <<runsStarted, lastSearch, searchFailed, overtaken>>

RunFails(r) ==
    /\ RunEnds(r) /\ searchFailed' = TRUE
    /\ foundRows' = IF r.appends THEN foundRows ELSE <<>>
    /\ foundNext' = IF r.appends THEN foundNext ELSE 0
    /\ UNCHANGED <<runsStarted, lastSearch, submitted, overtaken>>

SearchNext ==
    \/ \E q \in Filter : SearchPressed(q)
    \/ SearchRetried \/ MorePressed
    \/ \E r \in runs : RunAnswered(r) \/ RunFails(r)

SearchSpec == SearchInit /\ [][SearchNext]_searchVars

-----------------------------------------------------------------------------
SearchTypeOK ==
    /\ runsStarted \in 0..MaxRuns /\ Cardinality(runs) <= runsStarted
    /\ {lastSearch, submitted} \subseteq Filter \cup {NothingSubmitted}
    /\ foundRows \in Seq(1..MaxRows) /\ foundNext \in 0..MaxRows
    /\ {busy, moreOut, searchFailed, overtaken} \subseteq BOOLEAN

(* What is on screen is the last search's evidence, each passage once: only a  *)
(* search pressed while a "Load more" is out can be answered under the other's *)
(* words, and by then the flags no longer say what is in flight.               *)
LastSearchShown ==
    ~overtaken /\ runs = {} =>
        /\ ~searchFailed => submitted = lastSearch
        /\ foundRows # <<>> => /\ submitted = lastSearch /\ IsInjective(foundRows)
                               /\ Range(foundRows) \subseteq Matches(submitted, MaxRows)
                               /\ foundNext = 0 => Range(foundRows) = Matches(submitted, MaxRows)

-----------------------------------------------------------------------------
(*****************************************************************************)
(* The newest-first lists whose first page is a cached query: the audit log, *)
(* the jobs and the invitations (app/admin/audit, jobs and invitations).     *)
(*                                                                           *)
(* The cache holds a first page per filter and renews it whenever the window *)
(* regains focus; the older pages below it are component state, reset by a   *)
(* change of filter, or by an invitation cancelled or sent again.  While a   *)
(* filter's page is missing the previous one stays on screen.                *)
(*****************************************************************************)

VARIABLES
    logRows,         \* how many rows the server has
    logFilter,       \* outcome or state
    cache,           \* cache[f]: the query's data, once it has any
    onScreen,        \* head.data: the filter's own page, or the previous one
    logWalk,         \* the older pages
    logOlderOut,     \* the older page in flight, in a one-element sequence
    torn             \* history: first page and older pages are of different walks

logPagesVars == <<logRows, logFilter, cache, onScreen, logWalk, logOlderOut, torn>>

NotCached == [here |-> FALSE, page |-> EmptyPage]

LogPagesInit ==                      \* the first page has been shown
    /\ logRows = 1 /\ logFilter = 0
    /\ cache = [f \in Filter |-> IF f = 0 THEN [here |-> TRUE, page |-> FirstPage(0, 1)] ELSE NotCached]
    /\ onScreen = FirstPage(0, 1)
    /\ logWalk = NewWalk /\ logOlderOut = <<>> /\ torn = FALSE

RowAdded ==
    /\ logRows < MaxRows /\ logRows' = logRows + 1
    /\ UNCHANGED <<logFilter, cache, onScreen, logWalk, logOlderOut, torn>>

(* changeOutcome, changeState: onto cached rows, or onto the previous ones. *)
Chooses(f) ==
    /\ f # logFilter /\ logFilter' = f
    /\ onScreen' = IF cache[f].here THEN cache[f].page ELSE onScreen
    /\ logWalk' = NewWalk /\ torn' = (logOlderOut # <<>>)
    /\ UNCHANGED <<logRows, cache, logOlderOut>>

(* The query answers, for the first time or again: older pages stay below it. *)
FirstPageArrives ==
    LET page == FirstPage(logFilter, logRows)
    IN /\ cache' = [cache EXCEPT ![logFilter] = [here |-> TRUE, page |-> page]]
       /\ onScreen' = page
       /\ torn' = (torn \/ (page # onScreen /\ (logWalk # NewWalk \/ logOlderOut # <<>>)))
       /\ UNCHANGED <<logRows, logFilter, logWalk, logOlderOut>>

LogOlderPressed ==
    /\ logOlderOut = <<>> /\ MoreOf(logWalk, onScreen)
    /\ logOlderOut' = <<PageOf(logFilter, CursorOf(logWalk, onScreen), logRows)>>
    /\ torn' = (torn \/ ~cache[logFilter].here)
    /\ UNCHANGED <<logRows, logFilter, cache, onScreen, logWalk>>

LogOlderAnswered ==
    /\ logOlderOut # <<>> /\ logOlderOut' = <<>>
    /\ logWalk' \in {Walked(logWalk, logOlderOut[1]), logWalk}
    /\ UNCHANGED <<logRows, logFilter, cache, onScreen, torn>>

(* act: Resend adds an invitation, Cancel none; the walk starts over, and the *)
(* first page is asked for again.                                             *)
InvitationActed ==
    /\ logRows' \in {logRows, logRows + 1} /\ logRows' <= MaxRows
    /\ logWalk' = NewWalk /\ torn' = (logOlderOut # <<>>)
    /\ UNCHANGED <<logFilter, cache, onScreen, logOlderOut>>

LogPagesNext ==
    \/ RowAdded \/ FirstPageArrives \/ LogOlderPressed \/ LogOlderAnswered \/ InvitationActed
    \/ \E f \in Filter : Chooses(f)

LogPagesSpec == LogPagesInit /\ [][LogPagesNext]_logPagesVars

-----------------------------------------------------------------------------
LogPagesTypeOK ==
    /\ logRows \in 1..MaxRows /\ logFilter \in Filter
    /\ cache \in [Filter -> [here : BOOLEAN, page : PageType]] /\ onScreen \in PageType
    /\ logWalk \in Walk /\ Len(logOlderOut) <= 1 /\ torn \in BOOLEAN

(* The trail on screen has no hole and no row twice: it is the filter's rows from *)
(* the first page's newest down as far as was asked, all of them once "Load more" *)
(* is gone.  Only a first page renewed over older pages, or an older page out     *)
(* across a change of filter or an action, tears it.                              *)
NoHoleInTheTrail ==
    cache[logFilter].here /\ ~torn =>
        LET rows == RowsOf(logWalk, onScreen)
            upTo == {n \in Matches(logFilter, logRows) : rows # <<>> /\ n <= Head(rows)}
        IN /\ \A i \in 1..Len(rows) : Cardinality({n \in upTo : n >= rows[i]}) = i
           /\ Range(rows) \subseteq upTo
           /\ ~MoreOf(logWalk, onScreen) => Range(rows) = upTo
=============================================================================
