-------------------------------- MODULE KtMarks -----------------------------
(***********************************************************************************)
(* What a recipient of a knowledge-transfer package leaves in it: marks on         *)
(* its items, done or still unclear (components/kt/kt-workspace.tsx and            *)
(* kt-insights.tsx), and saved items with the questions they write down            *)
(* (kt-saved.tsx), over kt_workspace.py.  They share no state.                     *)
(*                                                                                 *)
(* The overview and the learning path show the marks from one query, the cards     *)
(* from another, and all three write them.  Other pages save claims, documents     *)
(* and answers; a question is saved here.  A write's success invalidates queries   *)
(* of QueryView.  A mutation hook knows its latest call only, and forgets that one *)
(* when its page is left.                                                          *)
(***********************************************************************************)
EXTENDS QueryView, Naturals, Sequences, FiniteSetsExt

CONSTANTS
    Item,            \* the claims and documents that can be marked
    Given,           \* the marks that can be given, of done and unclear
    MaxPresses       \* bound on the writes of a run

ASSUME MarksAssumption == MaxPresses \in Nat /\ Given \subseteq {"done", "unclear"}

MarkQuery == {"workspace", "progress"}
MarksTab == {"overview", "learn", "insights"}
Mark == Given \cup {"none"}

VARIABLES
    mark,            \* kt_progress
    tab,             \* the page on screen
    opened,          \* the calls made before it was opened
    view,            \* view[q]: the two queries
    calls,           \* the writes, in the order they were pressed
    unseen           \* history: queries that will not hear of a write by themselves

marksVars == <<mark, tab, opened, view, calls, unseen>>

Shows(t) == IF t = "insights" THEN "progress" ELSE "workspace"

(* The queries a success invalidates: useProgressWrites and InsightCard. *)
Invalidates(via) == IF via = "card" THEN MarkQuery ELSE {"workspace"}

(* isPending and variables: a hook's latest call since its page was opened.  Each *)
(* card has hooks of its own; the path's set and clear serve every row.           *)
Hook(via, i) == {n \in DOMAIN calls : n > opened /\ calls[n].via = via /\ (via = "card" => calls[n].item = i)}
Known(n) == n > opened /\ n = Max(Hook(calls[n].via, calls[n].item))
BusyWith(vias, i) == \E n \in DOMAIN calls :
    calls[n].via \in vias /\ calls[n].item = i /\ calls[n].stage # "over" /\ Known(n)

MarksInit ==
    /\ mark = [i \in Item |-> "none"] /\ tab = "overview" /\ opened = 0 /\ calls = <<>>
    /\ view = [q \in MarkQuery |-> IF q = "workspace" THEN Asked(Unread(mark)) ELSE Unread(mark)]
    /\ unseen = {}

OpensTab(t) ==
    /\ t # tab /\ tab' = t /\ opened' = Len(calls)
    /\ \E v \in OnMount(view[Shows(t)]) : view' = [view EXCEPT ![Shows(t)] = v]
    /\ UNCHANGED <<mark, calls, unseen>>

MarksServed(q) ==
    /\ view[q].stage = "asked" /\ view' = [view EXCEPT ![q] = ReadAnswered(@, mark)]
    /\ unseen' = unseen \ {q}
    /\ UNCHANGED <<mark, tab, opened, calls>>

(* Of a write that is over, only which it was still matters. *)
Over(c) == [c EXCEPT !.stage = "over", !.value = "none", !.ran = FALSE]

(* The writes whose onSuccess waits for the refetch of q are over with it. *)
WaitersOver(q) ==
    [n \in DOMAIN calls |->
       IF calls[n].stage = "heard" /\ q \in Invalidates(calls[n].via) THEN Over(calls[n]) ELSE calls[n]]

MarksArrive(q) ==
    /\ \/ view[q].stage = "answered" /\ view' = [view EXCEPT ![q] = Arrived(@)]
       \/ Reading(view[q]) /\ view' = [view EXCEPT ![q] = Failed(@)]
    /\ calls' = WaitersOver(q)
    /\ UNCHANGED <<mark, tab, opened, unseen>>

RetriesMarks ==
    /\ view[Shows(tab)].stage = "failed" /\ view' = [view EXCEPT ![Shows(tab)] = Asked(@)]
    /\ UNCHANGED <<mark, tab, opened, calls, unseen>>

(* The path stands once there is data, also while it is read again, and not beside *)
(* an error; the cards stand on a query of their own, marked or not.               *)
Rendered == tab = "insights" \/ (view["workspace"].here /\ view["workspace"].stage # "failed")

(* Mark done and Still unclear on every row of the path; Clear on a marked one; Mark *)
(* understood on what the overview lists as unclear; a card offers what it is not.   *)
Offered(via, i, m) ==
    LET shown == view[Shows(tab)].data[i] IN
    \/ via = "set" /\ tab = "learn" /\ m # "none" /\ ~BusyWith({"set", "clear"}, i)
    \/ via = "clear" /\ tab = "learn" /\ m = "none" /\ shown # "none" /\ ~BusyWith({"set", "clear"}, i)
    \/ via = "understood" /\ tab = "overview" /\ m = "none" /\ shown = "unclear" /\ ~BusyWith({via}, i)
    \/ via = "card" /\ tab = "insights" /\ m # shown /\ ~BusyWith({via}, i)

Marks(via, i, m) ==
    /\ Rendered /\ Offered(via, i, m) /\ Len(calls) < MaxPresses
    /\ calls' = Append(calls, [via |-> via, item |-> i, value |-> m, stage |-> "out", ran |-> FALSE])
    /\ UNCHANGED <<mark, tab, opened, view, unseen>>

(* set_progress and clear_progress. *)
MarkRecorded(n) ==
    /\ calls[n].stage = "out" /\ mark' = [mark EXCEPT ![calls[n].item] = calls[n].value]
    /\ calls' = [calls EXCEPT ![n].stage = "done", ![n].ran = TRUE]
    /\ UNCHANGED <<tab, opened, view, unseen>>

(* Refused, or the answer lost: a toast, and nothing is asked again. *)
MarkFails(n) ==
    /\ calls[n].stage \in {"out", "done"} /\ calls' = [calls EXCEPT ![n] = Over(@)]
    /\ unseen' = IF calls[n].ran THEN MarkQuery ELSE unseen
    /\ UNCHANGED <<mark, tab, opened, view>>

MarkHeard(n) ==
    /\ calls[n].stage = "done"
    /\ LET qs == Invalidates(calls[n].via)
           on == Shows(tab)
       IN /\ view' = [q \in MarkQuery |-> IF q \in qs THEN Invalidated(view[q], q = on) ELSE view[q]]
          /\ unseen' = unseen \cup {q \in MarkQuery : q \notin qs \/ Outrun(view[q], q = on)}
          /\ calls' = [WaitersOver(on) EXCEPT ![n] =
                        IF on \in qs THEN [@ EXCEPT !.stage = "heard"] ELSE Over(@)]
    /\ UNCHANGED <<mark, tab, opened>>

MarksNext ==
    \/ \E t \in MarksTab : OpensTab(t)
    \/ \E q \in MarkQuery : MarksServed(q) \/ MarksArrive(q)
    \/ RetriesMarks
    \/ \E i \in Item, via \in {"set", "clear", "understood", "card"}, m \in Mark : Marks(via, i, m)
    \/ \E n \in DOMAIN calls : MarkRecorded(n) \/ MarkFails(n) \/ MarkHeard(n)

MarksSpec == MarksInit /\ [][MarksNext]_marksVars

-----------------------------------------------------------------------------
MarksTypeOK ==
    /\ mark \in [Item -> Mark] /\ tab \in MarksTab /\ opened \in 0..Len(calls)
    /\ Len(calls) <= MaxPresses /\ unseen \subseteq MarkQuery
    /\ \A q \in MarkQuery : view[q].stage \in {"never", "asked", "answered", "idle", "failed"}

(* What a page shows at rest is what the server holds: a read that was under way     *)
(* when a write was recorded is never what stays.  Excepted are a write whose answer *)
(* was lost, marks of the path seen from the cards, and a query invalidated off      *)
(* screen between its being served and its arrival.                                  *)
MarksCatchUp ==
    LET q == Shows(tab) IN
    /\ view[q].stage = "idle" /\ q \notin unseen
    /\ \A n \in DOMAIN calls : calls[n].stage \notin {"out", "done"}
    => view[q].data = mark

-----------------------------------------------------------------------------
(* The saved items. *)

CONSTANTS
    Ref,             \* what can be saved; a question is one not saved yet
    NoRef

ASSUME SavedAssumption == NoRef \notin Ref

VARIABLES
    kept,            \* kt_bookmarks of this recipient and package
    savedView,       \* the bookmarks query
    written,         \* draft: the question field holds something
    saving,          \* the save of a question: its row and stage
    removal,         \* removal[r]: the stage of a Remove
    elsewhere,       \* another page's save is recorded and its answer on the way
    missedOne        \* history: a recorded write the list was never asked about again

savedVars == <<kept, savedView, written, saving, removal, elsewhere, missedOne>>

NoSave == [ref |-> NoRef, stage |-> "none"]

SavedInit ==
    /\ kept \in SUBSET Ref /\ savedView = Asked(Unread({})) /\ written = FALSE /\ saving = NoSave
    /\ removal = [r \in Ref |-> "none"] /\ elsewhere = FALSE /\ missedOne = FALSE

SavedServed ==
    /\ savedView.stage = "asked" /\ savedView' = ReadAnswered(savedView, kept) /\ missedOne' = FALSE
    /\ UNCHANGED <<kept, written, saving, removal, elsewhere>>

(* The calls whose onSuccess waits for the list are over when it comes or fails. *)
SavedArrives ==
    /\ \/ savedView.stage = "answered" /\ savedView' = Arrived(savedView)
       \/ Reading(savedView) /\ savedView' = Failed(savedView)
    /\ saving' = IF saving.stage = "heard" THEN NoSave ELSE saving
    /\ removal' = [r \in Ref |-> IF removal[r] = "heard" THEN "none" ELSE removal[r]]
    /\ UNCHANGED <<kept, written, elsewhere, missedOne>>

RetriesSaved ==
    /\ savedView.stage = "failed" /\ savedView' = Asked(savedView)
    /\ UNCHANGED <<kept, written, saving, removal, elsewhere, missedOne>>

(* A card or an answer saved on another page, its hook's success heard on this one. *)
SavedElsewhere(r) ==
    /\ r \notin kept /\ saving.ref # r /\ kept' = kept \cup {r} /\ ~elsewhere /\ elsewhere' = TRUE
    /\ UNCHANGED <<savedView, written, saving, removal, missedOne>>

WritesDown ==
    /\ ~written /\ written' = TRUE
    /\ UNCHANGED <<kept, savedView, saving, removal, elsewhere, missedOne>>

(* submit: an empty draft or a pending save stops it. *)
SavePressed(r) ==
    /\ written /\ saving = NoSave /\ r \notin kept /\ saving' = [ref |-> r, stage |-> "out"]
    /\ UNCHANGED <<kept, savedView, written, removal, elsewhere, missedOne>>

(* A row's button is disabled while its removal is out.  Another row's Remove enables *)
(* it again; what a second removal would get is a 404, and it is left out.            *)
RemovePressed(r) ==
    /\ savedView.here /\ savedView.stage # "failed" /\ r \in savedView.data
    /\ removal[r] = "none" /\ removal' = [removal EXCEPT ![r] = "out"]
    /\ UNCHANGED <<kept, savedView, written, saving, elsewhere, missedOne>>

SaveRecorded ==
    /\ saving.stage = "out" /\ kept' = kept \cup {saving.ref}
    /\ saving' = [saving EXCEPT !.stage = "done"]
    /\ UNCHANGED <<savedView, written, removal, elsewhere, missedOne>>

RemovalRecorded(r) ==
    /\ removal[r] = "out" /\ r \in kept /\ kept' = kept \ {r}
    /\ removal' = [removal EXCEPT ![r] = "done"]
    /\ UNCHANGED <<savedView, written, saving, elsewhere, missedOne>>

(* The refetch drops a read under way, and whoever waited for that one is over. *)
Refresh(onScreen) == savedView' = Invalidated(savedView, onScreen)

SaveHeard ==
    /\ saving.stage = "done" /\ saving' = [saving EXCEPT !.stage = "heard"]
    /\ written' = FALSE /\ Refresh(TRUE)
    /\ removal' = [r \in Ref |-> IF removal[r] = "heard" THEN "none" ELSE removal[r]]
    /\ UNCHANGED <<kept, elsewhere, missedOne>>

RemovalHeard(r) ==
    /\ removal[r] = "done" /\ Refresh(TRUE)
    /\ removal' = [q \in Ref |-> IF q = r THEN "heard" ELSE IF removal[q] = "heard" THEN "none" ELSE removal[q]]
    /\ saving' = IF saving.stage = "heard" THEN NoSave ELSE saving
    /\ UNCHANGED <<kept, written, elsewhere, missedOne>>

ElsewhereHeard ==
    /\ elsewhere /\ elsewhere' = FALSE /\ Refresh(TRUE)
    /\ saving' = IF saving.stage = "heard" THEN NoSave ELSE saving
    /\ removal' = [r \in Ref |-> IF removal[r] = "heard" THEN "none" ELSE removal[r]]
    /\ UNCHANGED <<kept, written, missedOne>>

(* Refused, not found, or the answer lost: a toast. *)
SaveFails ==
    /\ saving.stage \in {"out", "done"} /\ saving' = NoSave
    /\ missedOne' = (missedOne \/ saving.stage = "done")
    /\ UNCHANGED <<kept, savedView, written, removal, elsewhere>>

RemovalFails(r) ==
    /\ removal[r] \in {"out", "done"} /\ removal' = [removal EXCEPT ![r] = "none"]
    /\ missedOne' = (missedOne \/ removal[r] = "done")
    /\ UNCHANGED <<kept, savedView, written, saving, elsewhere>>

SavedNext ==
    \/ SavedServed \/ SavedArrives \/ RetriesSaved \/ WritesDown \/ SaveRecorded \/ SaveHeard \/ ElsewhereHeard \/ SaveFails
    \/ \E r \in Ref : \/ SavedElsewhere(r) \/ SavePressed(r) \/ RemovePressed(r)
                      \/ RemovalRecorded(r) \/ RemovalHeard(r) \/ RemovalFails(r)

SavedSpec == SavedInit /\ [][SavedNext]_savedVars

-----------------------------------------------------------------------------
SavedTypeOK ==
    /\ kept \subseteq Ref /\ savedView.data \subseteq Ref /\ saving.ref \in Ref \cup {NoRef}
    /\ {written, elsewhere, missedOne} \subseteq BOOLEAN

(* The list at rest is what is saved: nothing removed is still listed and nothing    *)
(* saved is missing, whatever was being read when the write was recorded, unless the *)
(* answer to that write was lost.                                                    *)
SavedCatchUp ==
    /\ savedView.stage = "idle" /\ ~missedOne /\ ~elsewhere
    /\ saving.stage # "done" /\ \A r \in Ref : removal[r] # "done"
    => savedView.data = kept
=============================================================================
