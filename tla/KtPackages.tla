------------------------------ MODULE KtPackages ----------------------------
(*******************************************************************************)
(* One knowledge-transfer package: who may open it, who holds it, and what     *)
(* an administrator may still change (apps/api kt.py), with the shell of its   *)
(* recipient (components/kt/kt-shell.tsx) and the controls of the detail panel *)
(* (PackageControls in app/admin/knowledge-transfer/page.tsx).                 *)
(*                                                                             *)
(* An open reads the package in one statement and binds it in another; so does *)
(* a change.  Neither takes a lock, so other requests run between the two.     *)
(*******************************************************************************)
EXTENDS Naturals

CONSTANTS
    Employee,        \* the members of the organisation
    Subject,         \* the employee the package is about
    NoOne

ASSUME KtAssumption == Subject \in Employee /\ NoOne \notin Employee

VARIABLES
    addressed,       \* recipient_email: who it is addressed to, NoOne for anyone
    holder,          \* recipient_user_id
    closed,          \* revoked_at or completed_at, as the derived status reads them
    lapsed,          \* expires_at has passed
    opening,         \* opening[e]: where e's POST /v1/kt/claim stands
    shell,           \* shell[e]: e's KtShell, and the data and error it keeps
    patch,           \* PATCH /v1/kt/{id} in flight
    crossed          \* history: an open and a re-address ran across each other

ktVars == <<addressed, holder, closed, lapsed, opening, shell, patch, crossed>>
packageVars == <<addressed, holder, closed, lapsed>>

PackageClosed == closed # "no"
NoPatch == [stage |-> "none", to |-> NoOne]
ShellAway == [here |-> FALSE, data |-> FALSE, error |-> FALSE]

KtInit ==
    /\ addressed \in {NoOne} \cup (Employee \ {Subject}) /\ holder = NoOne
    /\ closed = "no" /\ lapsed = FALSE
    /\ opening = [e \in Employee |-> "none"] /\ shell = [e \in Employee |-> ShellAway]
    /\ patch = NoPatch /\ crossed = FALSE

-----------------------------------------------------------------------------
(* The recipient's side. *)

(* KtShell is mounted: nothing of an earlier visit is kept (gcTime 0). *)
Enters(e) ==
    /\ ~shell[e].here
    /\ shell' = [shell EXCEPT ![e] = [ShellAway EXCEPT !.here = TRUE]]
    /\ opening' = [opening EXCEPT ![e] = "sent"]
    /\ UNCHANGED <<packageVars, patch, crossed>>

(* The query runs again on a regained connection, over the data it has. *)
Reconnects(e) ==
    /\ shell[e].here /\ opening[e] = "none"
    /\ opening' = [opening EXCEPT ![e] = "sent"]
    /\ UNCHANGED <<packageVars, shell, patch, crossed>>

(* Leaving with the open in flight, whose answer nobody reads, is left out. *)
Leaves(e) ==
    /\ shell[e].here /\ opening[e] = "none" /\ shell' = [shell EXCEPT ![e] = ShellAway]
    /\ UNCHANGED <<packageVars, opening, patch, crossed>>

(* A defect: whoever it is addressed to is not asked about. *)
StrangerByHolder(e) == holder \notin {NoOne, e} \/ (holder = NoOne /\ e = Subject)

(* _open_for: a package of somebody else, or one's own, before its state. *)
Stranger(e) ==
    \/ holder \notin {NoOne, e}
    \/ holder = NoOne /\ addressed \notin {NoOne, e}
    \/ holder = NoOne /\ e = Subject

LooksUp(e) ==
    /\ opening[e] = "sent"
    /\ opening' = [opening EXCEPT ![e] =
           IF Stranger(e) \/ PackageClosed \/ lapsed THEN "refused"
           ELSE IF holder = e THEN "granted" ELSE "eligible"]
    /\ UNCHANGED <<packageVars, shell, patch, crossed>>

UnboundAsRead(e) == opening[e] = "eligible"                          \* a defect
Unbound(e) == holder = NoOne

(* The binding: UPDATE ... WHERE recipient_user_id IS NULL.  Who finds it bound *)
(* reads it again, and is let in only as the one it is bound to.                *)
Claims(e) ==
    /\ opening[e] = "eligible"
    /\ IF Unbound(e)
       THEN /\ holder' = e /\ opening' = [opening EXCEPT ![e] = "granted"]
            /\ crossed' = (crossed \/ (patch.stage = "checked" /\ patch.to # NoOne))
       ELSE /\ opening' = [opening EXCEPT ![e] = IF holder = e THEN "granted" ELSE "refused"]
            /\ UNCHANGED <<holder, crossed>>
    /\ UNCHANGED <<addressed, closed, lapsed, shell, patch>>

(* An error leaves the data of the last success where it was. *)
OpenAnswered(e) ==
    /\ opening[e] \in {"granted", "refused"}
    /\ opening' = [opening EXCEPT ![e] = "none"]
    /\ \/ opening[e] = "granted"
          /\ shell' = [shell EXCEPT ![e].data = TRUE, ![e].error = FALSE]
       \/ shell' = [shell EXCEPT ![e].error = TRUE]
    /\ UNCHANGED <<packageVars, patch, crossed>>

(* What KtShell renders: the refusal is tested before the data. *)
Works(e) == shell[e].here /\ ~shell[e].error /\ shell[e].data

-----------------------------------------------------------------------------
(* The administrator's side. *)

Revokes ==
    /\ closed # "revoked" /\ closed' = "revoked"
    /\ UNCHANGED <<addressed, holder, lapsed, opening, shell, patch, crossed>>

Completes ==
    /\ ~PackageClosed /\ closed' = "completed"
    /\ UNCHANGED <<addressed, holder, lapsed, opening, shell, patch, crossed>>

Lapses ==
    /\ ~lapsed /\ lapsed' = TRUE
    /\ UNCHANGED <<addressed, holder, closed, opening, shell, patch, crossed>>

(* Extend expiry (to is NoOne) or Re-address.  PackageControls offers them by the *)
(* package as the panel last read it, open and unbound if it was ever so; nobody  *)
(* re-addresses to the subject, whom the picker leaves out.                       *)
ChangePressed(to) ==
    /\ patch.stage = "none" /\ to # Subject
    /\ patch' = [stage |-> "sent", to |-> to]
    /\ UNCHANGED <<packageVars, opening, shell, crossed>>

(* update_package's read: closed refuses both, a holder refuses a re-address. *)
PatchReads ==
    /\ patch.stage = "sent"
    /\ patch' = [patch EXCEPT !.stage =
           IF PackageClosed \/ (patch.to # NoOne /\ holder # NoOne) THEN "answered" ELSE "checked"]
    /\ UNCHANGED <<packageVars, opening, shell, crossed>>

(* update_package's write, by the package's id alone. *)
PatchWrites ==
    /\ patch.stage = "checked" /\ patch' = [patch EXCEPT !.stage = "answered"]
    /\ IF patch.to = NoOne
       THEN lapsed' = FALSE /\ UNCHANGED <<addressed, crossed>>
       ELSE /\ addressed' = patch.to /\ UNCHANGED lapsed
            /\ crossed' = (crossed \/ \E e \in Employee : opening[e] = "eligible")
    /\ UNCHANGED <<holder, closed, opening, shell>>

ChangeSettles ==
    /\ patch.stage = "answered" /\ patch' = NoPatch
    /\ UNCHANGED <<packageVars, opening, shell, crossed>>

KtNext ==
    \/ \E e \in Employee : \/ Enters(e) \/ Reconnects(e) \/ Leaves(e)
                           \/ LooksUp(e) \/ Claims(e) \/ OpenAnswered(e)
    \/ \E to \in Employee \cup {NoOne} : ChangePressed(to)
    \/ PatchReads \/ PatchWrites \/ ChangeSettles
    \/ Revokes \/ Completes \/ Lapses

KtSpec == KtInit /\ [][KtNext]_ktVars

-----------------------------------------------------------------------------
KtTypeOK ==
    /\ {addressed, holder} \subseteq Employee \cup {NoOne}
    /\ closed \in {"no", "completed", "revoked"} /\ {lapsed, crossed} \subseteq BOOLEAN
    /\ opening \in [Employee -> {"none", "sent", "eligible", "granted", "refused"}]
    /\ shell \in [Employee -> [here : BOOLEAN, data : BOOLEAN, error : BOOLEAN]]
    /\ patch \in [stage : {"none", "sent", "checked", "answered"}, to : Employee \cup {NoOne}]

(* The first open binds, permanently: of two opens that both read the package *)
(* unbound one wins, and nothing afterwards gives it to a second person.      *)
BoundForGood == [][holder # NoOne => holder' = holder]_holder

(* Only the holder ever stands in a workspace, never the loser of a race, never the *)
(* subject, whatever data the page keeps (_open_for, claim_package, KtShell).       *)
OnlyItsHolder == \A e \in Employee : Works(e) => holder = e /\ e # Subject

(* A package is held by the one it names, when it names anyone: a re-address and a *)
(* claim agree, unless the two ran across each other.                              *)
HolderIsNamed ==
    holder # NoOne /\ addressed # NoOne /\ ~crossed => holder = addressed

(* A package is worked on by its holder alone, who is the one it names (kt.py). *)
PackageIsItsHolders == OnlyItsHolder /\ HolderIsNamed

(* update_package's docstring: "Re-addressing is refused once a recipient is bound". *)
AddressStaysOnceBound == [][holder # NoOne => addressed' = addressed]_addressed
=============================================================================
