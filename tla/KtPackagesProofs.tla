-------------------------- MODULE KtPackagesProofs --------------------------
(****************************************************************************)
(* Theorems of KtPackages and KtReview, for any employees and packages.     *)
(*                                                                          *)
(*   PackageTypeCorrect   the type invariant                                *)
(*   HolderIsForGood      nobody takes a package over                       *)
(*   WorkedByItsHolder    a workspace on screen is the holder's own         *)
(*   HeldByTheNamed       the holder is the one the package names           *)
(*   PackageIsHeld        both of these                                     *)
(*   KeptBackIsKept       what a page said is kept back is not served       *)
(*                                                                          *)
(* The two invariants are not inductive: what an open that read the package *)
(* unbound may conclude, and what a change that read it unbound may, has to *)
(* be said too (GrantedIsHolder, ReadAgrees).                               *)
(****************************************************************************)
EXTENDS KtPackages, KtReview, TLAPS

(* A package is loaded with nobody in it. *)
LEMMA KtInitTypeOK == KtInit => KtTypeOK
<1> SUFFICES ASSUME KtInit PROVE KtTypeOK
  OBVIOUS
<1>1. shell \in [Employee -> [here : BOOLEAN, data : BOOLEAN, error : BOOLEAN]]
  BY DEF KtInit, ShellAway
<1>2. opening \in [Employee -> {"none", "sent", "eligible", "granted", "refused"}]
  BY DEF KtInit
<1>3. patch \in [stage : {"none", "sent", "checked", "answered"}, to : Employee \cup {NoOne}]
  BY DEF KtInit, NoPatch
<1>4. QED
  BY <1>1, <1>2, <1>3, KtAssumption DEF KtInit, KtTypeOK

(* Every request and every press keeps the type invariant. *)
LEMMA KtNextTypeOK == KtTypeOK /\ [KtNext]_ktVars => KtTypeOK'
<1> SUFFICES ASSUME KtTypeOK, [KtNext]_ktVars PROVE KtTypeOK'
  OBVIOUS
<1> USE KtAssumption DEF KtTypeOK, packageVars
<1>1. ASSUME NEW e \in Employee, Enters(e) PROVE KtTypeOK'
  BY <1>1 DEF Enters, ShellAway
<1>2. ASSUME NEW e \in Employee, Reconnects(e) PROVE KtTypeOK'
  BY <1>2 DEF Reconnects
<1>3. ASSUME NEW e \in Employee, Leaves(e) PROVE KtTypeOK'
  BY <1>3 DEF Leaves, ShellAway
<1>4. ASSUME NEW e \in Employee, LooksUp(e) PROVE KtTypeOK'
  BY <1>4 DEF LooksUp
<1>5. ASSUME NEW e \in Employee, Claims(e) PROVE KtTypeOK'
  BY <1>5 DEF Claims
<1>6. ASSUME NEW e \in Employee, OpenAnswered(e) PROVE KtTypeOK'
  <2>1. shell' \in [Employee -> [here : BOOLEAN, data : BOOLEAN, error : BOOLEAN]]
    <3>1. CASE shell' = [shell EXCEPT ![e].data = TRUE, ![e].error = FALSE]
      BY <3>1
    <3>2. CASE shell' = [shell EXCEPT ![e].error = TRUE]
      BY <3>2
    <3>3. QED
      BY <1>6, <3>1, <3>2 DEF OpenAnswered
  <2>2. QED
    BY <1>6, <2>1 DEF OpenAnswered
<1>7. ASSUME NEW to \in Employee \cup {NoOne}, ChangePressed(to) PROVE KtTypeOK'
  BY <1>7 DEF ChangePressed
<1>8. CASE PatchReads
  BY <1>8 DEF PatchReads
<1>9. CASE PatchWrites
  BY <1>9 DEF PatchWrites
<1>10. CASE ChangeSettles
  BY <1>10 DEF ChangeSettles, NoPatch
<1>11. CASE Revokes \/ Completes \/ Lapses
  BY <1>11 DEF Revokes, Completes, Lapses
<1>12. CASE UNCHANGED ktVars
  BY <1>12 DEF ktVars
<1>13. QED
  BY <1>1, <1>2, <1>3, <1>4, <1>5, <1>6, <1>7, <1>8, <1>9, <1>10, <1>11, <1>12 DEF KtNext

(* Type correctness of the package, the opens, the shells and the change. *)
THEOREM PackageTypeCorrect == KtSpec => []KtTypeOK
  BY KtInitTypeOK, KtNextTypeOK, PTL DEF KtSpec

-----------------------------------------------------------------------------
(* The first open binds, permanently: the update that binds asks for a package nobody
   holds, and nothing else writes the holder. *)
THEOREM HolderIsForGood == KtSpec => BoundForGood
<1>1. [KtNext]_ktVars => [holder # NoOne => holder' = holder]_holder
  <2> SUFFICES ASSUME [KtNext]_ktVars, holder # NoOne PROVE holder' = holder
    OBVIOUS
  <2>1. ASSUME NEW e \in Employee, Claims(e) PROVE holder' = holder
    BY <2>1 DEF Claims, Unbound
  <2>2. ASSUME NEW e \in Employee,
               Enters(e) \/ Reconnects(e) \/ Leaves(e) \/ LooksUp(e) \/ OpenAnswered(e)
        PROVE holder' = holder
    BY <2>2 DEF Enters, Reconnects, Leaves, LooksUp, OpenAnswered, packageVars
  <2>3. ASSUME NEW to, ChangePressed(to) PROVE holder' = holder
    BY <2>3 DEF ChangePressed, packageVars
  <2>4. CASE PatchReads \/ PatchWrites \/ ChangeSettles \/ Revokes \/ Completes \/ Lapses
    BY <2>4 DEF PatchReads, PatchWrites, ChangeSettles, Revokes, Completes, Lapses, packageVars
  <2>5. CASE UNCHANGED ktVars
    BY <2>5 DEF ktVars
  <2>6. QED
    BY <2>1, <2>2, <2>3, <2>4, <2>5 DEF KtNext
<1>2. QED
  BY <1>1, PTL DEF KtSpec, BoundForGood

-----------------------------------------------------------------------------
(* What an open knows: the subject is never let in, what is granted or shown is the
   holder's. *)
GrantedIsHolder ==
    /\ holder # Subject
    /\ \A e \in Employee :
          /\ opening[e] = "eligible" => e # Subject
          /\ opening[e] = "granted" \/ shell[e].data => holder = e

(* Each action keeps what it knows, because a holder stays. *)
LEMMA NextGranted == KtTypeOK /\ GrantedIsHolder /\ [KtNext]_ktVars => GrantedIsHolder'
<1> SUFFICES ASSUME KtTypeOK, GrantedIsHolder, [KtNext]_ktVars PROVE GrantedIsHolder'
  OBVIOUS
<1> USE KtAssumption DEF KtTypeOK, GrantedIsHolder, packageVars
<1>1. ASSUME NEW e \in Employee, Enters(e) PROVE GrantedIsHolder'
  BY <1>1 DEF Enters, ShellAway
<1>2. ASSUME NEW e \in Employee, Reconnects(e) PROVE GrantedIsHolder'
  BY <1>2 DEF Reconnects
<1>3. ASSUME NEW e \in Employee, Leaves(e) PROVE GrantedIsHolder'
  BY <1>3 DEF Leaves, ShellAway
<1>4. ASSUME NEW e \in Employee, LooksUp(e) PROVE GrantedIsHolder'
  BY <1>4 DEF LooksUp, Stranger
<1>5. ASSUME NEW e \in Employee, Claims(e) PROVE GrantedIsHolder'
  BY <1>5 DEF Claims, Unbound
<1>6. ASSUME NEW e \in Employee, OpenAnswered(e) PROVE GrantedIsHolder'
  BY <1>6 DEF OpenAnswered
<1>7. ASSUME NEW to, ChangePressed(to) PROVE GrantedIsHolder'
  BY <1>7 DEF ChangePressed
<1>8. CASE PatchReads \/ PatchWrites \/ ChangeSettles
  BY <1>8 DEF PatchReads, PatchWrites, ChangeSettles
<1>9. CASE Revokes \/ Completes \/ Lapses
  BY <1>9 DEF Revokes, Completes, Lapses
<1>10. CASE UNCHANGED ktVars
  BY <1>10 DEF ktVars
<1>11. QED
  BY <1>1, <1>2, <1>3, <1>4, <1>5, <1>6, <1>7, <1>8, <1>9, <1>10 DEF KtNext

(* Only the holder ever stands in a workspace: not the loser of a race, not the
   subject, whatever data the page keeps. *)
THEOREM WorkedByItsHolder == KtSpec => []OnlyItsHolder
<1>1. KtInit => GrantedIsHolder
  BY KtAssumption DEF KtInit, GrantedIsHolder, ShellAway
<1>2. GrantedIsHolder => OnlyItsHolder
  BY DEF GrantedIsHolder, OnlyItsHolder, Works
<1>3. QED
  BY <1>1, <1>2, NextGranted, PackageTypeCorrect, KtNextTypeOK, KtInitTypeOK, PTL DEF KtSpec

-----------------------------------------------------------------------------
(* What the two-statement requests know between their statements: who may still bind
   is who the package names, and a re-address that has read it finds it unbound, or the
   two have run across each other. *)
ReadAgrees ==
    /\ patch.stage = "checked" /\ patch.to # NoOne /\ holder # NoOne => crossed
    /\ \A e \in Employee :
          opening[e] = "eligible" /\ holder = NoOne /\ ~crossed => addressed \in {NoOne, e}

NamedInv == HolderIsNamed /\ ReadAgrees

(* A claim and a re-address agree, whichever of the two writes first. *)
LEMMA NextNamed == KtTypeOK /\ NamedInv /\ [KtNext]_ktVars => NamedInv'
<1> SUFFICES ASSUME KtTypeOK, NamedInv, [KtNext]_ktVars PROVE NamedInv'
  OBVIOUS
<1> USE KtAssumption DEF KtTypeOK, NamedInv, HolderIsNamed, ReadAgrees, packageVars
<1>1. ASSUME NEW e \in Employee,
             Enters(e) \/ Reconnects(e) \/ Leaves(e) \/ OpenAnswered(e)
      PROVE NamedInv'
  BY <1>1 DEF Enters, Reconnects, Leaves, OpenAnswered
<1>2. ASSUME NEW e \in Employee, LooksUp(e) PROVE NamedInv'
  BY <1>2 DEF LooksUp, Stranger
<1>3. ASSUME NEW e \in Employee, Claims(e) PROVE NamedInv'
  BY <1>3 DEF Claims, Unbound
<1>4. ASSUME NEW to \in Employee \cup {NoOne}, ChangePressed(to) PROVE NamedInv'
  BY <1>4 DEF ChangePressed
<1>5. CASE PatchReads
  BY <1>5 DEF PatchReads
<1>6. CASE PatchWrites
  BY <1>6 DEF PatchWrites
<1>7. CASE ChangeSettles
  BY <1>7 DEF ChangeSettles, NoPatch
<1>8. CASE Revokes \/ Completes \/ Lapses
  BY <1>8 DEF Revokes, Completes, Lapses
<1>9. CASE UNCHANGED ktVars
  BY <1>9 DEF ktVars
<1>10. QED
  BY <1>1, <1>2, <1>3, <1>4, <1>5, <1>6, <1>7, <1>8, <1>9 DEF KtNext

(* The holder is the one the package names, when it names anyone, unless an open and a
   re-address ran across each other. *)
THEOREM HeldByTheNamed == KtSpec => []HolderIsNamed
<1>1. KtInit => NamedInv
  BY KtAssumption DEF KtInit, NamedInv, HolderIsNamed, ReadAgrees, NoPatch
<1>2. NamedInv => HolderIsNamed
  BY DEF NamedInv
<1>3. QED
  BY <1>1, <1>2, NextNamed, PackageTypeCorrect, KtNextTypeOK, KtInitTypeOK, PTL DEF KtSpec

(* A package is worked on by its holder alone, who is the one it names. *)
THEOREM PackageIsHeld == KtSpec => []PackageIsItsHolders
<1>1. OnlyItsHolder /\ HolderIsNamed => PackageIsItsHolders
  BY DEF PackageIsItsHolders
<1>2. QED
  BY <1>1, WorkedByItsHolder, HeldByTheNamed, PTL

-----------------------------------------------------------------------------
Edit == [kind : {"none", "keepBack", "shareAgain", "attach", "detach"}, at : Case \cup {NoCase},
         on : SUBSET Documents, stage : {"none", "out", "done", "refused"}, live : BOOLEAN]

(* What the page has promised is kept back, but for what a sharing that has run has
   not told it yet; and a keeping back that has run has kept all it was asked to: one
   document at a time, which the server either finds or refuses. *)
PromiseHolds ==
    /\ editOut \in Edit /\ shownCase \in Case \cup {NoCase} /\ picked \subseteq Documents
    /\ \A r \in olderRows \cup UNION {firstPage[p].rows : p \in Case} : r.doc \in Documents
    /\ seen \subseteq Case /\ pageOut \in Case \cup {NoCase}
    /\ editOut.stage # "done" \/ editOut.kind # "shareAgain" => promised \subseteq keptBack
    /\ promised \ editOut.on \subseteq keptBack
    /\ editOut.kind = "keepBack" => \E d \in Documents : editOut.on = {d}
    /\ editOut.kind = "keepBack" /\ editOut.stage = "done" => editOut.on \subseteq keptBack

LEMMA PromiseInit == ReviewInit => PromiseHolds
<1> SUFFICES ASSUME ReviewInit PROVE PromiseHolds
  OBVIOUS
<1>1. editOut \in Edit /\ editOut.on = {} /\ editOut.kind = "none" /\ editOut.stage = "none"
  BY DEF ReviewInit, NoEdit, Edit
<1>2. \A p \in Case : firstPage[p].rows = {}
  BY DEF ReviewInit, NothingYet
<1>3. QED
  BY <1>1, <1>2 DEF ReviewInit, PromiseHolds

(* A request that has been sent is one for which nothing has run. *)
LEMMA PressedKeepsPromise ==
  ASSUME PromiseHolds, NEW kind \in {"keepBack", "shareAgain", "attach", "detach"},
         NEW docs \in SUBSET Documents, EditPressed(kind, docs),
         kind = "keepBack" => \E d \in Documents : docs = {d}
  PROVE  PromiseHolds'
<1>1. /\ editOut' = [kind |-> kind, at |-> shownCase, on |-> docs, stage |-> "out", live |-> TRUE]
      /\ promised \subseteq keptBack
  BY DEF PromiseHolds, EditPressed, NoEdit
<1>2. editOut' \in Edit
  BY <1>1 DEF PromiseHolds, Edit
<1>3. QED
  BY <1>1, <1>2 DEF PromiseHolds, EditPressed, caseVars, panelVars, partVars

(* Keeping back finds the document or refuses; sharing again, attaching and detaching
   take nothing from what is kept back but what they were asked to share. *)
LEMMA RunsKeepsPromise == ASSUME PromiseHolds, EditRuns PROVE PromiseHolds'
<1> DEFINE mine == editOut.on \cap Carried(editOut.at)
<1>1. editOut.stage = "out" /\ promised \subseteq keptBack /\ editOut \in Edit
  BY DEF PromiseHolds, EditRuns
<1>2. PICK stage \in {"done", "refused"} : editOut' = [editOut EXCEPT !.stage = stage]
  BY DEF EditRuns
<1>3. /\ editOut' \in Edit /\ editOut'.kind = editOut.kind /\ editOut'.on = editOut.on
      /\ editOut'.stage = stage
  BY <1>1, <1>2 DEF Edit
<1>4. \/ keptBack' = keptBack /\ ~(editOut.kind = "keepBack" /\ stage = "done")
      \/ editOut.kind = "keepBack" /\ mine # {} /\ keptBack' = keptBack \cup mine
      \/ editOut.kind = "shareAgain" /\ stage = "done" /\ keptBack' = keptBack \ mine
  BY <1>1, <1>3 DEF EditRuns, Edit
<1>5. editOut.kind = "keepBack" /\ mine # {} => mine = editOut.on
  BY DEF PromiseHolds
<1>6. UNCHANGED <<promised, shownCase, picked, olderRows, pageOut, firstPage, seen>>
  BY DEF EditRuns, panelVars, partVars
<1>7. QED
  BY <1>1, <1>3, <1>4, <1>5, <1>6 DEF PromiseHolds

LEMMA SettlesKeepsPromise ==
  ASSUME PromiseHolds, EditSettles PROVE PromiseHolds'
<1>1. editOut' = NoEdit /\ NoEdit \in Edit
  BY DEF EditSettles, NoEdit, Edit
<1>2. promised' \subseteq keptBack
  BY DEF EditSettles, PromiseHolds
<1>3. UNCHANGED <<keptBack, shownCase, firstPage, seen, pageOut>> /\ olderRows' \subseteq olderRows
      /\ picked' \subseteq picked
  BY DEF EditSettles, caseVars, panelVars
<1>4. QED
  BY <1>1, <1>2, <1>3 DEF PromiseHolds, NoEdit

LEMMA ShownRowsAreDocuments ==
  ASSUME PromiseHolds, NEW r \in RowsShown PROVE r.doc \in Documents
BY DEF PromiseHolds, RowsShown, PartsMounted

(* The rows a read or a walk brings are of documents. *)
LEMMA RowsKeepPromise ==
  ASSUME PromiseHolds, ContentsArrive \/ MoreArrives PROVE PromiseHolds'
<1>1. CASE ContentsArrive
  <2>1. /\ shownCase \in Case
        /\ UNCHANGED <<shownCase, seen, pageOut, picked, olderRows, editOut, promised, keptBack>>
    BY <1>1 DEF ContentsArrive, PartsMounted, PromiseHolds, caseVars, partVars
  <2>2. ASSUME NEW d \in FirstDocs(shownCase) PROVE RowFor(d).doc \in Documents
    BY <2>1, <2>2 DEF FirstDocs, BasketFile, RowFor, Documents
  <2>3. ASSUME NEW p \in Case, NEW r \in firstPage'[p].rows PROVE r.doc \in Documents
    <3>1. CASE r \in {RowFor(d) : d \in FirstDocs(shownCase)}
      BY <2>2, <3>1
    <3>2. CASE r \in firstPage[p].rows
      BY <3>2 DEF PromiseHolds
    <3>3. firstPage'[p].rows = firstPage[p].rows
             \/ firstPage'[p].rows = {RowFor(d) : d \in FirstDocs(shownCase)}
             \/ firstPage'[p] = firstPage[p]
      BY <1>1 DEF ContentsArrive
    <3>4. QED
      BY <3>1, <3>2, <3>3
  <2>4. QED
    BY <2>1, <2>3 DEF PromiseHolds
<1>2. CASE MoreArrives
  <2>1. /\ pageOut \in Case /\ pageOut' = NoCase
        /\ UNCHANGED <<shownCase, seen, firstPage, picked, editOut, promised, keptBack>>
        /\ olderRows' \subseteq olderRows \cup {RowFor(<<pageOut, "oldPaper">>)}
    BY <1>2 DEF MoreArrives, PromiseHolds, caseVars, panelVars
  <2>2. RowFor(<<pageOut, "oldPaper">>).doc \in Documents
    BY <2>1 DEF RowFor, Documents
  <2>3. QED
    BY <2>1, <2>2 DEF PromiseHolds
<1>3. QED
  BY <1>1, <1>2

LEMMA StepKeepsPromise ==
  ASSUME PromiseHolds, [ReviewNext]_reviewVars PROVE PromiseHolds'
<1>1. CASE \E p \in Case : DetailsPressed(p)
  <2>1. PICK p \in Case : DetailsPressed(p)
    BY <1>1
  <2>2. shownCase' \in Case \cup {NoCase}
        /\ UNCHANGED <<keptBack, seen, firstPage, promised>>
    BY <2>1 DEF DetailsPressed, caseVars
  <2>3. \/ UNCHANGED <<picked, olderRows, pageOut, editOut>>
        \/ /\ picked' = {} /\ olderRows' = {} /\ pageOut' = NoCase
           /\ editOut' = [editOut EXCEPT !.live = FALSE]
    BY <2>1 DEF DetailsPressed, PartsFresh, partVars
  <2>4. /\ editOut' \in Edit /\ editOut'.kind = editOut.kind
        /\ editOut'.on = editOut.on /\ editOut'.stage = editOut.stage
    BY <2>3 DEF PromiseHolds, Edit
  <2>5. QED
    BY <2>2, <2>3, <2>4 DEF PromiseHolds
<1>2. CASE \E p \in Case : PackageEnds(p)
  BY <1>2 DEF PackageEnds, PromiseHolds, panelVars, partVars
<1>3. CASE \E p \in Case : Toggled(BasketFile(p))
  <2>1. PICK p \in Case : Toggled(BasketFile(p))
    BY <1>3
  <2>2. picked' \subseteq Documents
    BY <2>1 DEF Toggled, PromiseHolds, BasketFile, Documents
  <2>3. QED
    BY <2>1, <2>2 DEF Toggled, PromiseHolds, caseVars, panelVars
<1>4. CASE CaseArrives
  BY <1>4 DEF CaseArrives, PromiseHolds, caseVars, partVars
<1>5. CASE ContentsMore
  BY <1>5 DEF ContentsMore, MoreContents, PartsMounted, PromiseHolds, caseVars, panelVars
<1>6. CASE ContentsArrive \/ MoreArrives
  BY <1>6, RowsKeepPromise
<1>7. CASE KeepBackPressed \/ ShareAgainPressed
  <2>1. PICK r \in RowsShown, kind \in {"keepBack", "shareAgain"} : EditPressed(kind, {r.doc})
    BY <1>7 DEF KeepBackPressed, ShareAgainPressed
  <2>2. r.doc \in Documents
    BY ShownRowsAreDocuments
  <2>3. QED
    BY <2>1, <2>2, PressedKeepsPromise
<1>8. CASE AttachPressed
  <2>1. picked \in SUBSET Documents /\ EditPressed("attach", picked)
    BY <1>8 DEF AttachPressed, PromiseHolds
  <2>2. QED
    BY <2>1, PressedKeepsPromise
<1>9. CASE DetachPressed
  <2>1. shownCase \in Case /\ EditPressed("detach", {BasketFile(shownCase)})
    BY <1>9 DEF DetachPressed, EditPressed, PartsMounted, PromiseHolds
  <2>2. {BasketFile(shownCase)} \in SUBSET Documents
    BY <2>1 DEF BasketFile, Documents
  <2>3. QED
    BY <2>1, <2>2, PressedKeepsPromise
<1>10. CASE EditRuns
  BY <1>10, RunsKeepsPromise
<1>11. CASE EditSettles
  BY <1>11, SettlesKeepsPromise
<1>12. CASE UNCHANGED reviewVars
  BY <1>12 DEF reviewVars, caseVars, panelVars, partVars, PromiseHolds
<1>13. QED
  BY <1>1, <1>2, <1>3, <1>4, <1>5, <1>6, <1>7, <1>8, <1>9, <1>10, <1>11, <1>12 DEF ReviewNext

(* What the page said is kept back reaches no recipient while no change is out, for   *)
(* any number of packages, changes and visits, whatever is detached and attached anew *)
(* (kt_curation.py, KT_PACKAGE_PREDICATE).                                            *)
THEOREM KeptBackIsKept == ReviewSpec => []KeptBackStaysBack
<1>1. PromiseHolds => KeptBackStaysBack
  BY DEF PromiseHolds, KeptBackStaysBack, NoEdit, Served
<1>2. QED
  BY PromiseInit, StepKeepsPromise, <1>1, PTL DEF ReviewSpec
=============================================================================
