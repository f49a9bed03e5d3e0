------------------------------- MODULE KtAdmin ------------------------------
(******************************************************************************)
(* The knowledge-transfer page of an administrator: its list of packages, and *)
(* the wizard that creates one.                                               *)
(******************************************************************************)

(****************************************************************************)
(* The list of knowledge-transfer packages and its two-press Complete and   *)
(* Revoke (KnowledgeTransferPage in app/admin/knowledge-transfer/page.tsx). *)
(*                                                                          *)
(* Other administrators close packages too; a row shows the status the list *)
(* last read.  Its paging, the statuses expired and claimed and the detail  *)
(* panel are in Directory, KtPackages and KtReview.                         *)
(****************************************************************************)
CONSTANTS
    Pack,            \* the packages of the list
    NoPack

ASSUME ListAssumption == NoPack \notin Pack

VARIABLES
    status,          \* status[p] at the server
    rowStatus,       \* status[p] as the list last read it
    confirmingComplete, confirmingRevoke,
    completing,      \* the complete mutation: the package out, done or refused
    revoking,        \* the revoke mutation, likewise
    lastPressed      \* history: the last of these buttons pressed, and on which row

rowVars == <<status, rowStatus, confirmingComplete, confirmingRevoke, completing, revoking,
             lastPressed>>

NoCall == [pack |-> NoPack, stage |-> "none"]

RowsInit ==
    /\ status = [p \in Pack |-> "live"] /\ rowStatus = status
    /\ confirmingComplete = NoPack /\ confirmingRevoke = NoPack
    /\ completing = NoCall /\ revoking = NoCall /\ lastPressed = <<"none", NoPack>>

(* The first press turns the button into the question, the second answers it. *)
CompletePressed(p) ==
    /\ rowStatus[p] = "live" /\ completing.stage = "none"
    /\ lastPressed' = <<"complete", p>>
    /\ IF confirmingComplete = p
       THEN /\ completing' = [pack |-> p, stage |-> "out"]
            /\ UNCHANGED <<confirmingComplete, confirmingRevoke>>
       ELSE /\ confirmingComplete' = p /\ confirmingRevoke' = NoPack
            /\ UNCHANGED completing
    /\ UNCHANGED <<status, rowStatus, revoking>>

RevokePressed(p) ==
    /\ rowStatus[p] = "live" /\ revoking.stage = "none"
    /\ lastPressed' = <<"revoke", p>>
    /\ IF confirmingRevoke = p
       THEN /\ revoking' = [pack |-> p, stage |-> "out"]
            /\ UNCHANGED <<confirmingComplete, confirmingRevoke>>
       ELSE /\ confirmingRevoke' = p /\ confirmingComplete' = NoPack
            /\ UNCHANGED revoking
    /\ UNCHANGED <<status, rowStatus, completing>>

(* complete_package refuses a closed package, revoke_package a revoked one. *)
CompleteRuns ==
    /\ completing.stage = "out"
    /\ IF status[completing.pack] = "live"
       THEN /\ status' = [status EXCEPT ![completing.pack] = "completed"]
            /\ completing' = [completing EXCEPT !.stage = "done"]
       ELSE completing' = [completing EXCEPT !.stage = "refused"] /\ UNCHANGED status
    /\ UNCHANGED <<rowStatus, confirmingComplete, confirmingRevoke, revoking, lastPressed>>

RevokeRuns ==
    /\ revoking.stage = "out"
    /\ IF status[revoking.pack] # "revoked"
       THEN /\ status' = [status EXCEPT ![revoking.pack] = "revoked"]
            /\ revoking' = [revoking EXCEPT !.stage = "done"]
       ELSE revoking' = [revoking EXCEPT !.stage = "refused"] /\ UNCHANGED status
    /\ UNCHANGED <<rowStatus, confirmingComplete, confirmingRevoke, completing, lastPressed>>

(* Either outcome of Complete disarms it; neither of Revoke does. *)
CompleteSettles ==
    /\ completing.stage \in {"done", "refused"} /\ completing' = NoCall
    /\ confirmingComplete' = NoPack
    /\ UNCHANGED <<status, rowStatus, confirmingRevoke, revoking, lastPressed>>

RevokeSettles ==
    /\ revoking.stage \in {"done", "refused"} /\ revoking' = NoCall
    /\ UNCHANGED <<status, rowStatus, confirmingComplete, confirmingRevoke, completing, lastPressed>>

ListRead ==
    /\ rowStatus # status /\ rowStatus' = status
    /\ UNCHANGED <<status, confirmingComplete, confirmingRevoke, completing, revoking, lastPressed>>

ClosedElsewhere(p) ==
    /\ status[p] = "live" /\ status' = [status EXCEPT ![p] = "completed"]
    /\ UNCHANGED <<rowStatus, confirmingComplete, confirmingRevoke, completing, revoking, lastPressed>>

RowsNext ==
    \/ \E p \in Pack : CompletePressed(p) \/ RevokePressed(p) \/ ClosedElsewhere(p)
    \/ CompleteRuns \/ RevokeRuns \/ CompleteSettles \/ RevokeSettles \/ ListRead

RowsSpec == RowsInit /\ [][RowsNext]_rowVars

-----------------------------------------------------------------------------
RowsTypeOK ==
    /\ {status, rowStatus} \subseteq [Pack -> {"live", "completed", "revoked"}]
    /\ {confirmingComplete, confirmingRevoke} \subseteq Pack \cup {NoPack}
    /\ {completing, revoking} \subseteq
           [pack : Pack \cup {NoPack}, stage : {"none", "out", "done", "refused"}]

(* Closing is terminal, so a question stands on one button at most, the last one     *)
(* pressed: no press answers a question the reader has forgotten (the comment beside *)
(* setConfirmingComplete(null)), whatever was answered or refused in between.        *)
OneQuestion ==
    /\ confirmingComplete # NoPack => lastPressed = <<"complete", confirmingComplete>>
    /\ confirmingRevoke # NoPack => lastPressed = <<"revoke", confirmingRevoke>>
-----------------------------------------------------------------------------
(*******************************************************************************)
(* The wizard that creates a knowledge-transfer package (CreateWizard,         *)
(* RecipientPicker and CreatedPanel in app/admin/knowledge-transfer/page.tsx). *)
(*                                                                             *)
(* The draft is whom the package is about, whom it goes to, whether it carries *)
(* the whole history and whether that was confirmed; scope and validity are    *)
(* left out.  Leaving the wizard drops its draft but not its request, whose    *)
(* answer the page still takes.                                                *)
(*******************************************************************************)
CONSTANTS
    Person,          \* whom the wizard can name
    Nobody

ASSUME WizardAssumption == Nobody \notin Person

VARIABLES
    mode,            \* list or create
    form,            \* the choices of the wizard that is mounted
    creating,        \* its create.isPending
    orphaned,        \* a create is in flight whose wizard is gone
    created,         \* the CreatedPanel is up
    ordered          \* history: the last package asked for

wizardVars == <<mode, form, creating, orphaned, created, ordered>>

NewDraft == [subject |-> Nobody, recipient |-> Nobody, whole |-> FALSE, confirmed |-> FALSE]

WizardInit ==
    /\ mode = "list" /\ form = NewDraft /\ ordered = NewDraft
    /\ creating = FALSE /\ orphaned = FALSE /\ created = FALSE

WizardShown == mode = "create" /\ ~created

CreateChosen ==
    /\ mode = "list" /\ ~created /\ mode' = "create" /\ form' = NewDraft
    /\ UNCHANGED <<creating, orphaned, created, ordered>>

Cancelled ==
    /\ WizardShown /\ ~(creating /\ orphaned)
    /\ mode' = "list" /\ form' = NewDraft
    /\ creating' = FALSE /\ orphaned' = (orphaned \/ creating)
    /\ UNCHANGED <<created, ordered>>

WizardStep(new) ==
    /\ WizardShown /\ form' = new
    /\ UNCHANGED <<mode, creating, orphaned, created, ordered>>

PicksSubject(e) ==
    WizardStep([form EXCEPT !.subject = e,
                             !.recipient = IF @ = e THEN Nobody ELSE @])

PicksRecipient(e) == e # form.subject /\ WizardStep([form EXCEPT !.recipient = e])

PicksPeriod(whole) == WizardStep([form EXCEPT !.whole = whole, !.confirmed = FALSE])

Ticks(on) == form.whole /\ WizardStep([form EXCEPT !.confirmed = on])

MayGenerate == form.subject # Nobody /\ (form.whole => form.confirmed)

GeneratePressed ==
    /\ WizardShown /\ ~creating /\ MayGenerate
    /\ creating' = TRUE /\ ordered' = form
    /\ UNCHANGED <<mode, form, orphaned, created>>

(* onCreated belongs to the page, so it runs for a wizard that is gone as well. *)
CreateAnswered ==
    /\ creating \/ orphaned
    /\ \/ creating /\ creating' = FALSE /\ UNCHANGED orphaned
       \/ orphaned /\ orphaned' = creating /\ creating' = FALSE
    /\ created' = TRUE /\ form' = NewDraft
    /\ UNCHANGED <<mode, ordered>>

CreateRefused ==
    /\ \/ creating /\ creating' = FALSE /\ UNCHANGED orphaned
       \/ orphaned /\ orphaned' = FALSE /\ UNCHANGED creating
    /\ UNCHANGED <<mode, form, created, ordered>>

BackToTheList ==
    /\ created /\ created' = FALSE /\ mode' = "list"
    /\ UNCHANGED <<form, creating, orphaned, ordered>>

WizardNext ==
    \/ CreateChosen \/ Cancelled \/ GeneratePressed \/ CreateAnswered \/ CreateRefused
    \/ BackToTheList
    \/ \E e \in Person : PicksSubject(e) \/ PicksRecipient(e)
    \/ \E on \in BOOLEAN : PicksPeriod(on) \/ Ticks(on)

WizardSpec == WizardInit /\ [][WizardNext]_wizardVars

-----------------------------------------------------------------------------
WizardTypeOK ==
    /\ {creating, orphaned, created} \subseteq BOOLEAN /\ mode \in {"list", "create"}
    /\ {form, ordered} \subseteq [subject : Person \cup {Nobody}, recipient : Person \cup {Nobody},
                                   whole : BOOLEAN, confirmed : BOOLEAN]

(* However the wizard was filled in, no package is asked for that goes to the employee *)
(* it is about, and none of a whole history that is not confirmed as such.             *)
OrderIsSound ==
    /\ ordered.subject # Nobody => ordered.recipient # ordered.subject
    /\ ordered.whole => ordered.confirmed
=============================================================================
