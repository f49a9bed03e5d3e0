------------------------------- MODULE KtReview -----------------------------
(***********************************************************************************)
(* The detail panel of knowledge-transfer packages: what a package carries,        *)
(* what is kept back and which basket files travel with it (PackageDetails of      *)
(* app/admin/knowledge-transfer/page.tsx, components/admin/kt-contents.tsx and     *)
(* kt-attachments.tsx), over kt_curation.py and kt_files.py.                       *)
(*                                                                                 *)
(* One panel shows one package after another.  Its parts stand while the detail    *)
(* of its package is there, and of a package looked at before it is there at once. *)
(* A package carries two papers, each a page of its contents, and a basket file    *)
(* on the first page while it is attached.                                         *)
(***********************************************************************************)
EXTENDS Naturals

CONSTANTS
    Case,            \* the packages, of one employee each
    NoCase,
    MaxEdits         \* bound on the changes to what packages carry

ASSUME ReviewAssumption == NoCase \notin Case /\ MaxEdits \in Nat

VARIABLES
    carriedFile,     \* kt_package_files: the packages whose file is attached
    keptBack,        \* kt_package_exclusions: documents
    ended,           \* the packages revoked or completed
    edits,           \* the changes asked for
    shownCase,       \* detailsId
    seen,            \* the packages whose detail is cached
    firstPage,       \* firstPage[p]: the contents query's data
    picked,          \* KtAttachments: chosen
    olderRows,       \* KtContents: older
    exhaustedWalk,   \* KtContents: exhausted
    pageOut,         \* the package whose next page "Load more" has asked for
    editOut,         \* the change in flight
    promised         \* history: documents the page said are kept back

caseVars == <<carriedFile, keptBack, ended>>
panelVars == <<shownCase, seen, firstPage>>
partVars == <<picked, olderRows, exhaustedWalk, pageOut>>
reviewVars == <<caseVars, edits, panelVars, partVars, editOut, promised>>

(* A document, or a file, is known by its package and its place. *)
BasketFile(p) == <<p, "file">>
Documents == Case \X {"file", "paper", "oldPaper"}
CaseRow == [doc : Documents, excluded : BOOLEAN]
RowFor(d) == [doc |-> d, excluded |-> d \in keptBack]

FirstDocs(p) == {<<p, "paper">>} \cup (IF p \in carriedFile THEN {BasketFile(p)} ELSE {})
Carried(p) == FirstDocs(p) \cup {<<p, "oldPaper">>}          \* KT_PACKAGE_RULE
ServedWithFiles(p) ==                                               \* a defect
    IF p \in ended THEN {} ELSE Carried(p) \ {d \in keptBack : d # BasketFile(p)}
Served(p) == IF p \in ended THEN {} ELSE Carried(p) \ keptBack     \* ... PREDICATE

NoEdit == [kind |-> "none", at |-> NoCase, on |-> {}, stage |-> "none", live |-> FALSE]
NothingYet == [here |-> FALSE, rows |-> {}]

(* An earlier visit may have attached files, and kept them back. *)
ReviewInit ==
    /\ carriedFile \in SUBSET Case /\ keptBack \in SUBSET {BasketFile(p) : p \in carriedFile}
    /\ ended = {} /\ edits = 0
    /\ shownCase = NoCase /\ seen = {} /\ firstPage = [p \in Case |-> NothingYet]
    /\ picked = {} /\ olderRows = {} /\ exhaustedWalk = FALSE /\ pageOut = NoCase
    /\ editOut = NoEdit /\ promised = keptBack

-----------------------------------------------------------------------------
(* The panel. *)

PartsMounted == shownCase \in seen
PartsFresh == picked' = {} /\ olderRows' = {} /\ exhaustedWalk' = FALSE /\ pageOut' = NoCase

(* Another package's detail in the cache leaves the parts where they are. *)
DetailsPressed(p) ==
    /\ shownCase' = IF shownCase = p THEN NoCase ELSE p
    /\ IF PartsMounted /\ shownCase' \in seen
       THEN UNCHANGED <<partVars, editOut>>
       ELSE PartsFresh /\ editOut' = [editOut EXCEPT !.live = FALSE]
    /\ UNCHANGED <<caseVars, edits, seen, firstPage, promised>>

CaseArrives ==
    /\ shownCase \in Case \ seen /\ seen' = seen \cup {shownCase}
    /\ UNCHANGED <<caseVars, edits, shownCase, firstPage, partVars, editOut, promised>>

ContentsArrive ==
    /\ PartsMounted
    /\ firstPage' = [firstPage EXCEPT ![shownCase] =
           [here |-> TRUE, rows |-> {RowFor(d) : d \in FirstDocs(shownCase)}]]
    /\ UNCHANGED <<caseVars, edits, shownCase, seen, partVars, editOut, promised>>

MoreContents == PartsMounted /\ firstPage[shownCase].here /\ ~exhaustedWalk

ContentsMore ==
    /\ MoreContents /\ pageOut = NoCase /\ pageOut' = shownCase
    /\ UNCHANGED <<caseVars, edits, panelVars, picked, olderRows, exhaustedWalk, editOut, promised>>

MoreArrives ==
    /\ pageOut # NoCase /\ pageOut' = NoCase
    /\ \/ olderRows' = olderRows \cup {RowFor(<<pageOut, "oldPaper">>)} /\ exhaustedWalk' = TRUE
       \/ UNCHANGED <<olderRows, exhaustedWalk>>
    /\ UNCHANGED <<caseVars, edits, panelVars, picked, editOut, promised>>

RowsShown ==
    IF PartsMounted /\ firstPage[shownCase].here THEN firstPage[shownCase].rows \cup olderRows ELSE {}

Toggled(f) ==
    /\ PartsMounted /\ f \notin picked /\ f = BasketFile(shownCase) /\ shownCase \notin carriedFile
    /\ picked' = picked \cup {f}
    /\ UNCHANGED <<caseVars, edits, panelVars, olderRows, exhaustedWalk, pageOut, editOut, promised>>

-----------------------------------------------------------------------------
(* The changes: pressed, run at the server, answered. *)

EditPressed(kind, docs) ==
    /\ PartsMounted /\ editOut = NoEdit /\ edits < MaxEdits /\ edits' = edits + 1
    /\ editOut' = [kind |-> kind, at |-> shownCase, on |-> docs, stage |-> "out",
                    live |-> TRUE]
    /\ UNCHANGED <<caseVars, panelVars, partVars, promised>>

KeepBackPressed == \E r \in RowsShown : ~r.excluded /\ EditPressed("keepBack", {r.doc})
ShareAgainPressed == \E r \in RowsShown : r.excluded /\ EditPressed("shareAgain", {r.doc})
AttachPressed == picked # {} /\ EditPressed("attach", picked)
DetachPressed == shownCase \in carriedFile /\ EditPressed("detach", {BasketFile(shownCase)})

(* A document the package does not carry is a 404, another employee's file is *)
(* skipped; what widens a package is refused on a closed one.                 *)
EditRuns ==
    /\ editOut.stage = "out"
    /\ LET p == editOut.at
           mine == editOut.on \cap Carried(p)
           run(kind, ok) == editOut.kind = kind /\ ok
       IN \/ /\ run("keepBack", mine # {}) /\ keptBack' = keptBack \cup mine
             /\ editOut' = [editOut EXCEPT !.stage = "done"] /\ UNCHANGED carriedFile
          \/ /\ run("shareAgain", mine \cap keptBack # {} /\ p \notin ended)
             /\ keptBack' = keptBack \ mine
             /\ editOut' = [editOut EXCEPT !.stage = "done"] /\ UNCHANGED carriedFile
          \/ /\ run("attach", p \notin ended)
             /\ carriedFile' = carriedFile \cup {q \in {p} : BasketFile(q) \in editOut.on}
             /\ editOut' = [editOut EXCEPT !.stage = "done"] /\ UNCHANGED keptBack
          \/ /\ run("detach", p \in carriedFile) /\ carriedFile' = carriedFile \ {p}
             /\ editOut' = [editOut EXCEPT !.stage = "done"] /\ UNCHANGED keptBack
          \/ editOut' = [editOut EXCEPT !.stage = "refused"] /\ UNCHANGED <<carriedFile, keptBack>>
    /\ UNCHANGED <<ended, edits, panelVars, partVars, promised>>

(* refresh() starts the walk again, an attachment clears the choice and leaves the *)
(* contents as they were read; in the parts that asked, if they are still mounted. *)
EditSettles ==
    /\ editOut.stage \in {"done", "refused"} /\ editOut' = NoEdit
    /\ LET done(kinds) == editOut.stage = "done" /\ editOut.kind \in kinds
           here(kinds) == done(kinds) /\ editOut.live
       IN /\ olderRows' = IF here({"keepBack", "shareAgain"}) THEN {} ELSE olderRows
          /\ exhaustedWalk' = (exhaustedWalk /\ ~here({"keepBack", "shareAgain"}))
          /\ picked' = IF here({"attach"}) THEN {} ELSE picked
          /\ promised' = IF done({"keepBack"}) THEN promised \cup editOut.on
                         ELSE IF done({"shareAgain"}) THEN promised \ editOut.on ELSE promised
    /\ UNCHANGED <<caseVars, edits, panelVars, pageOut>>

PackageEnds(p) ==
    /\ p \notin ended /\ ended' = ended \cup {p}
    /\ UNCHANGED <<carriedFile, keptBack, edits, panelVars, partVars, editOut, promised>>

ReviewNext ==
    \/ \E p \in Case : DetailsPressed(p) \/ PackageEnds(p) \/ Toggled(BasketFile(p))
    \/ CaseArrives \/ ContentsArrive \/ ContentsMore \/ MoreArrives
    \/ KeepBackPressed \/ ShareAgainPressed \/ AttachPressed \/ DetachPressed
    \/ EditRuns \/ EditSettles

ReviewSpec == ReviewInit /\ [][ReviewNext]_reviewVars

-----------------------------------------------------------------------------
ReviewTypeOK ==
    /\ {carriedFile, ended, seen} \subseteq SUBSET Case /\ {keptBack, promised} \subseteq SUBSET Documents
    /\ shownCase \in Case \cup {NoCase} /\ pageOut \in Case \cup {NoCase} /\ edits \in 0..MaxEdits
    /\ \A p \in Case : firstPage[p].rows \subseteq CaseRow
    /\ picked \subseteq Documents /\ olderRows \subseteq CaseRow /\ exhaustedWalk \in BOOLEAN

(* "Kept back. The recipient no longer sees it": nothing the page said that of is served *)
(* again before it is shared again, not by detaching its file and attaching it anew, and *)
(* not by a page that shows another package's documents.                                 *)
KeptBackStaysBack ==
    editOut = NoEdit => \A p \in Case : promised \cap Served(p) = {}

(* The panel's heading, "What this package shares": its documents are this package's. *)
RowsAreThisPackages == \A r \in RowsShown : r.doc[1] = shownCase
=============================================================================
