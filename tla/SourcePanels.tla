------------------------------ MODULE SourcePanels ------------------------------
(***************************************************************************)
(* Two lists of sources with a button in each row that changes it, and the *)
(* card of one tool.                                                       *)
(***************************************************************************)
EXTENDS QueryView, Naturals

(********************************************************************************)
(* The sources page of an administrator with its Re-sync buttons                *)
(* (app/admin/sources/page.tsx over request_source_sync of operations.py).  The *)
(* list is a query that a success invalidates (QueryView); the worker's own     *)
(* changes are seen at the next read only.                                      *)
(********************************************************************************)

CONSTANT Source

VARIABLES
    walking,         \* the sources a walk is queued or running for
    sourcesView,     \* the sources query
    filtered,        \* statusFilter: "all", "syncing" or "idle"
    resyncs,         \* resyncs[s]: the stage of its request
    workerSeen       \* history: no change of the worker's, no lost answer, since the read

watchVars == <<walking, sourcesView, filtered, resyncs, workerSeen>>

WatchInit ==
    /\ walking \in SUBSET Source /\ sourcesView = Asked(Unread({})) /\ filtered = "all"
    /\ resyncs = [s \in Source |-> "none"] /\ workerSeen = TRUE

Usable(v) == v.here /\ v.stage # "failed"
SourceRows ==
    {s \in Source : filtered = "all" \/ (filtered = "syncing") = (s \in sourcesView.data)}

SourcesRead ==
    /\ \/ /\ sourcesView.stage = "asked" /\ sourcesView' = ReadAnswered(sourcesView, walking)
          /\ workerSeen' = TRUE
       \/ /\ sourcesView.stage = "answered" /\ sourcesView' = Arrived(sourcesView) /\ UNCHANGED workerSeen
       \/ /\ Reading(sourcesView) /\ sourcesView' = Failed(sourcesView) /\ UNCHANGED workerSeen
       \/ /\ sourcesView.stage = "failed" /\ sourcesView' = Asked(sourcesView) /\ UNCHANGED workerSeen
    /\ UNCHANGED <<walking, filtered, resyncs>>

FilterPicked(f) ==                   \* one of the statuses the rows have
    /\ Usable(sourcesView) /\ f # filtered
    /\ f = "syncing" => sourcesView.data # {}
    /\ f = "idle" => sourcesView.data # Source
    /\ filtered' = f /\ UNCHANGED <<walking, sourcesView, resyncs, workerSeen>>

(* Only the row pressed last is disabled: another enables it again, and what a second *)
(* press of a row finds is the walk of the first (request_source_sync).               *)
ResyncPressed(s) ==
    /\ Usable(sourcesView) /\ s \in SourceRows /\ resyncs[s] = "none"
    /\ resyncs' = [resyncs EXCEPT ![s] = "out"]
    /\ UNCHANGED <<walking, sourcesView, filtered, workerSeen>>

ResyncRecorded(s) ==
    /\ resyncs[s] = "out" /\ resyncs' = [resyncs EXCEPT ![s] = "done"] /\ walking' = walking \cup {s}
    /\ UNCHANGED <<sourcesView, filtered, workerSeen>>

ResyncHeard(s) ==
    /\ resyncs[s] = "done" /\ resyncs' = [resyncs EXCEPT ![s] = "none"]
    /\ sourcesView' = Invalidated(sourcesView, TRUE)
    /\ UNCHANGED <<walking, filtered, workerSeen>>

ResyncFails(s) ==                    \* refused, or its answer lost: a toast
    /\ resyncs[s] \in {"out", "done"} /\ resyncs' = [resyncs EXCEPT ![s] = "none"]
    /\ workerSeen' = (workerSeen /\ resyncs[s] = "out")
    /\ UNCHANGED <<walking, sourcesView, filtered>>

WalkEnds(s) ==
    /\ s \in walking /\ walking' = walking \ {s} /\ workerSeen' = FALSE
    /\ UNCHANGED <<sourcesView, filtered, resyncs>>

WatchNext ==
    \/ SourcesRead \/ \E f \in {"all", "syncing", "idle"} : FilterPicked(f)
    \/ \E s \in Source : \/ ResyncPressed(s) \/ ResyncRecorded(s) \/ ResyncHeard(s) \/ ResyncFails(s)
                         \/ WalkEnds(s)

WatchSpec == WatchInit /\ [][WatchNext]_watchVars

-----------------------------------------------------------------------------
WatchTypeOK ==
    /\ walking \subseteq Source /\ sourcesView.data \subseteq Source
    /\ filtered \in {"all", "syncing", "idle"} /\ resyncs \in [Source -> {"none", "out", "done"}]

(* The sources at rest show the walks its own buttons have queued, whatever was being *)
(* read at the time.                                                                  *)
WatchCatchesUp ==
    sourcesView.stage = "idle" /\ workerSeen /\ (\A s \in Source : resyncs[s] # "done")
    => sourcesView.data = walking

(* The filter in force is one its select can show.  (Not so once the last source of a *)
(* status has left it: the select says All over an empty table.)                      *)
FilterIsOffered ==
    sourcesView.here =>
        /\ filtered = "syncing" => sourcesView.data # {}
        /\ filtered = "idle" => sourcesView.data # Source

-----------------------------------------------------------------------------
(********************************************************************************)
(* One person's connected tools as an administrator sees them, with their       *)
(* Revoke buttons (components/admin/employee-connections.tsx).  A revocation's  *)
(* button is free again when the list it invalidated (QueryView) has been read. *)
(********************************************************************************)

CONSTANTS
    Connection,          \* the person's connections
    NoConnection

ASSUME PersonAssumption == NoConnection \notin Connection

VARIABLES
    granted,         \* connections that are not revoked
    grantsView,      \* the connections query
    revokes,         \* revokes[s]: the stage of its request
    revokingOne,
    unheard          \* history: the answer to a recorded revocation was lost

grantVars == <<granted, grantsView, revokes, revokingOne, unheard>>

GrantsInit ==
    /\ granted = Connection /\ grantsView = Asked(Unread({}))
    /\ revokes = [s \in Connection |-> "none"] /\ revokingOne = NoConnection /\ unheard = FALSE

GrantsOver(m) == [s \in Connection |-> IF m[s] = "heard" THEN "none" ELSE m[s]]
GrantsRead ==
    /\ \/ /\ grantsView.stage = "asked" /\ grantsView' = ReadAnswered(grantsView, granted)
          /\ UNCHANGED <<revokes, revokingOne>>
       \/ /\ \/ grantsView.stage = "answered" /\ grantsView' = Arrived(grantsView)
             \/ Reading(grantsView) /\ grantsView' = Failed(grantsView)
          /\ revokes' = GrantsOver(revokes)
          /\ revokingOne' = IF revokes' # revokes THEN NoConnection ELSE revokingOne
       \/ /\ grantsView.stage = "failed" /\ grantsView' = Asked(grantsView)
          /\ UNCHANGED <<revokes, revokingOne>>
    /\ UNCHANGED <<granted, unheard>>

GrantRevokePressed(s) ==
    /\ grantsView.here /\ grantsView.stage # "failed" /\ s \in grantsView.data /\ revokingOne # s /\ revokes[s] = "none"
    /\ revokes' = [revokes EXCEPT ![s] = "out"] /\ revokingOne' = s
    /\ UNCHANGED <<granted, grantsView, unheard>>

RevokeRecorded(s) ==
    /\ revokes[s] = "out" /\ s \in granted /\ granted' = granted \ {s}
    /\ revokes' = [revokes EXCEPT ![s] = "done"]
    /\ UNCHANGED <<grantsView, revokingOne, unheard>>

RevokeHeard(s) ==
    /\ revokes[s] = "done" /\ grantsView' = Invalidated(grantsView, TRUE)
    /\ revokes' = [GrantsOver(revokes) EXCEPT ![s] = "heard"]
    /\ revokingOne' = IF GrantsOver(revokes) # revokes THEN NoConnection ELSE revokingOne
    /\ UNCHANGED <<granted, unheard>>

RevokeFails(s) ==                    \* finally: whichever row it was
    /\ revokes[s] \in {"out", "done"} /\ revokes' = [revokes EXCEPT ![s] = "none"] /\ revokingOne' = NoConnection
    /\ unheard' = (unheard \/ revokes[s] = "done") /\ UNCHANGED <<granted, grantsView>>

GrantsNext ==
    \/ GrantsRead
    \/ \E s \in Connection : GrantRevokePressed(s) \/ RevokeRecorded(s) \/ RevokeHeard(s) \/ RevokeFails(s)

GrantsSpec == GrantsInit /\ [][GrantsNext]_grantVars

-----------------------------------------------------------------------------
GrantsTypeOK ==
    /\ granted \subseteq Connection /\ grantsView.data \subseteq Connection
    /\ revokes \in [Connection -> {"none", "out", "done", "heard"}] /\ revokingOne \in Connection \cup {NoConnection}

(* The list at rest has no connection whose revocation was answered, whatever was being *)
(* read as it was recorded, unless the answer was lost.                                 *)
GrantsCatchUp ==
    grantsView.stage = "idle" /\ ~unheard /\ (\A s \in Connection : revokes[s] # "done") => grantsView.data = granted

(* A revocation that is out has its button disabled.  (Not so with two out: the later *)
(* press, or the first to end, frees the other's.)                                    *)
RevokingSaysWhich == \A s \in Connection : revokes[s] = "out" => revokingOne = s

-----------------------------------------------------------------------------
(****************************************************************************)
(* One tool on the page of connected applications: its card, the round trip *)
(* to the provider and what is announced on the way back                    *)
(* (app/me/integrations/page.tsx).  The connection's row and its jobs are   *)
(* module Connections; here a worker may move it at any time.               *)
(****************************************************************************)

VARIABLES
    toolStatus,      \* the row at the server, "none" without one
    catalogue,       \* the integrations query
    offered,         \* entry.allowed and entry.configured
    cardCall,        \* the one mutation in flight: they disable each other
    away,            \* the browser is at the provider
    param,           \* ?connected or ?connect_error in the address, or "none"
    announced,       \* history: the toasts of the last return, and whether they named the tool
    unread           \* history: a change that no read was asked for since

cardVars == <<toolStatus, catalogue, offered, cardCall, away, param, announced, unread>>

ToolStatus == {"none", "connecting", "connected", "error"}
NoCardCall == [what |-> "none", stage |-> "none"]
NoToast == [count |-> 0, named |-> FALSE, of |-> "none"]

CardInit ==
    /\ toolStatus \in ToolStatus /\ offered \in BOOLEAN
    /\ catalogue = Asked(Unread(toolStatus)) /\ cardCall = NoCardCall /\ away = FALSE
    /\ param \in {"none", "connected", "refused", "unmatched"} /\ announced = NoToast /\ unread = FALSE

CatalogueServed ==
    /\ ~away /\ catalogue.stage = "asked" /\ catalogue' = ReadAnswered(catalogue, toolStatus)
    /\ unread' = FALSE /\ UNCHANGED <<toolStatus, offered, cardCall, away, param, announced>>

CatalogueArrives ==
    /\ ~away /\ catalogue.stage = "answered" /\ catalogue' = Arrived(catalogue)
    /\ UNCHANGED <<toolStatus, offered, cardCall, away, param, announced, unread>>

CatalogueFails ==
    /\ ~away /\ Reading(catalogue) /\ catalogue' = Failed(catalogue)
    /\ UNCHANGED <<toolStatus, offered, cardCall, away, param, announced, unread>>

CatalogueRetried ==
    /\ ~away /\ catalogue.stage = "failed" /\ catalogue' = Asked(catalogue)
    /\ UNCHANGED <<toolStatus, offered, cardCall, away, param, announced, unread>>

(* The two effects.  A refusal waits for a catalogue that loaded, to name its tool. *)
NotPending == catalogue.here \/ catalogue.stage = "failed"
Loaded == catalogue.here /\ catalogue.stage # "failed"

Announce ==
    /\ ~away /\ param # "none" /\ (param # "connected" => Loaded)
    /\ param' = "none"
    /\ announced' = [count |-> announced.count + 1, of |-> param,
                     named |-> param = "connected" \/ (param = "refused" /\ catalogue.here)]
    /\ UNCHANGED <<toolStatus, catalogue, offered, cardCall, away, unread>>

(* Connect, Continue connecting and Reconnect; Sync now; Disconnect. *)
Buttons ==
    IF catalogue.data = "none" THEN {w \in {"connect"} : offered}
    ELSE {"disconnect"} \cup {w \in {"sync"} : catalogue.data = "connected" /\ offered}
                        \cup {w \in {"connect"} : catalogue.data # "connected" /\ offered}

CardPressed(w) ==
    /\ ~away /\ catalogue.here /\ catalogue.stage # "failed" /\ cardCall = NoCardCall /\ w \in Buttons
    /\ cardCall' = [what |-> w, stage |-> "out"]
    /\ UNCHANGED <<toolStatus, catalogue, offered, away, param, announced, unread>>

(* start_connection, disconnect_own and sync_now, or their refusals. *)
CardCallRuns ==
    /\ cardCall.stage = "out" /\ cardCall' = [cardCall EXCEPT !.stage = "done"]
    /\ CASE cardCall.what = "connect" -> toolStatus \notin {"connected"} /\ toolStatus' = "connecting"
         [] cardCall.what = "disconnect" -> toolStatus # "none" /\ toolStatus' = "none"
         [] cardCall.what = "sync" -> toolStatus = "connected" /\ UNCHANGED toolStatus
    /\ unread' = TRUE /\ UNCHANGED <<catalogue, offered, away, param, announced>>

CardCallFails ==
    /\ cardCall.stage \in {"out", "done"} /\ cardCall' = NoCardCall
    /\ UNCHANGED <<toolStatus, catalogue, offered, away, param, announced, unread>>

(* A start's answer carries the browser to the provider; the others' read again. *)
RefreshCatalogue == catalogue' = Invalidated(catalogue, TRUE)

CardCallHeard ==
    /\ cardCall.stage = "done" /\ cardCall' = NoCardCall
    /\ IF cardCall.what = "connect"
       THEN away' = TRUE /\ UNCHANGED <<catalogue, unread>>
       ELSE RefreshCatalogue /\ unread' = FALSE /\ UNCHANGED away
    /\ UNCHANGED <<toolStatus, offered, param, announced>>

(* The callback redirects back: the page loads anew, an abandoned attempt's id in *)
(* the address when it matched a row, a code of the provider's when it did not.   *)
ComesBack ==
    /\ away /\ away' = FALSE /\ catalogue' = Asked(Unread("none")) /\ announced' = NoToast /\ unread' = FALSE
    /\ \/ toolStatus = "connecting" /\ toolStatus' = "connected" /\ param' = "connected"
       \/ toolStatus = "connecting" /\ toolStatus' = "error" /\ param' = "refused"
       \/ UNCHANGED toolStatus /\ param' \in {"none", "unmatched"}
    /\ UNCHANGED <<offered, cardCall>>

WorkerMoves(s) ==
    /\ toolStatus \in {"connected", "error"} /\ s \in {"connected", "error"} \ {toolStatus}
    /\ toolStatus' = s /\ unread' = TRUE
    /\ UNCHANGED <<catalogue, offered, cardCall, away, param, announced>>

CardNext ==
    \/ CatalogueServed \/ CatalogueArrives \/ CatalogueFails \/ CatalogueRetried \/ Announce
    \/ CardCallRuns \/ CardCallFails \/ CardCallHeard \/ ComesBack
    \/ \E w \in {"connect", "sync", "disconnect"} : CardPressed(w)
    \/ \E s \in ToolStatus : WorkerMoves(s)

CardSpec == CardInit /\ [][CardNext]_cardVars

-----------------------------------------------------------------------------
CardTypeOK ==
    /\ toolStatus \in ToolStatus /\ catalogue.data \in ToolStatus /\ announced.count \in Nat
    /\ {offered, away, unread} \subseteq BOOLEAN

(* A return is announced at most once, and a refusal of a tool the catalogue knows *)
(* is announced with its name, whenever the catalogue comes and if it fails first. *)
ReturnAnnounced ==
    announced.count <= 1 /\ (announced.of = "refused" => announced.named)

(* The card at rest shows what its own presses have done to the connection: none is *)
(* outrun by a read that was under way.                                             *)
CardCatchesUp ==
    catalogue.stage = "idle" /\ ~unread /\ cardCall.stage # "done" => catalogue.data = toolStatus
=============================================================================
