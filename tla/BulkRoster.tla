------------------------------ MODULE BulkRoster ----------------------------
(*********************************************************************************)
(* Inviting a team: the panel that checks a list, shows the preview and sends    *)
(* it (components/admin/bulk-onboarding.tsx), over bulk_invitations.py.          *)
(*                                                                               *)
(* A list is pasted or read from a file; the preview has a row for each address, *)
(* known by its position.  Choosing another list, file or role drops the preview *)
(* and what was unticked in it, while a check or a send may still be in flight.  *)
(* Roles, and the rows a preview refuses for good, are left out.                 *)
(*********************************************************************************)
EXTENDS Naturals, Sequences, SequencesExt

CONSTANTS
    Address,
    Lists,           \* the lists an administrator may paste: sequences of addresses
    MaxSends         \* bound on the presses of Send and Retry

ASSUME RosterAssumption ==
    /\ \A l \in Lists : l \in Seq(Address) /\ IsInjective(l)
    /\ MaxSends \in Nat

VARIABLES
    invited,         \* addresses with a live invitation
    mails,           \* mails[a]: messages delivered with an invitation that stands
    box,             \* pasted, or the file; empty at first
    checkOut,        \* the list being checked, <<>> for none
    preview,         \* the rows: their addresses and outcomes
    excluded,        \* positions the reader has unticked
    sentOnce,        \* sent: the table reports a send
    sendOut,         \* the send in flight: its preview, its positions, its stage
    sends,
    declined,        \* history: addresses unticked since the list was last checked
    dropped          \* history: the preview was dropped while a send was in flight

rosterVars == <<invited, mails, box, checkOut, preview, excluded, sentOnce, sendOut, sends,
                declined, dropped>>

NoSend == [stage |-> "none", rows |-> <<>>, on |-> {}, passed |-> {}]
RowOutcome == {"ready", "already", "sent", "failed"}

RosterInit ==
    /\ invited = {} /\ mails = [a \in Address |-> 0]
    /\ box = <<>> /\ checkOut = <<>> /\ preview = <<>> /\ excluded = {} /\ sentOnce = FALSE
    /\ sendOut = NoSend /\ sends = 0 /\ declined = {} /\ dropped = FALSE

-----------------------------------------------------------------------------
(* The preview. *)

PreviewDropped == preview' = <<>> /\ excluded' = {} /\ sentOnce' = FALSE

(* Another list, another file, another role for everyone, or Start over. *)
Edited(list) ==
    /\ box' = list /\ PreviewDropped
    /\ dropped' = (dropped \/ sendOut # NoSend)
    /\ UNCHANGED <<invited, mails, checkOut, sendOut, sends, declined>>

CheckPressed ==
    /\ box # <<>> /\ checkOut = <<>> /\ checkOut' = box
    /\ PreviewDropped /\ declined' = {}
    /\ dropped' = (sendOut # NoSend)
    /\ UNCHANGED <<invited, mails, box, sendOut, sends>>

CheckAnswered ==
    /\ checkOut # <<>> /\ checkOut' = <<>>
    /\ preview' \in {preview, [i \in DOMAIN checkOut |->
           [address |-> checkOut[i],
            outcome |-> IF checkOut[i] \in invited THEN "already" ELSE "ready"]]}
    /\ UNCHANGED <<invited, mails, box, excluded, sentOnce, sendOut, sends, declined, dropped>>

(* ACTIONABLE: the outcomes a press of the button can still act on. *)
Actionable(i) == preview[i].outcome \in {"ready", "failed"}
SelectedRows == {i \in DOMAIN preview : Actionable(i) /\ i \notin excluded}

Unticked(i) ==
    /\ i \in SelectedRows /\ excluded' = excluded \cup {i}
    /\ declined' = declined \cup {preview[i].address}
    /\ UNCHANGED <<invited, mails, box, checkOut, preview, sentOnce, sendOut, sends, dropped>>

Ticked(i) ==
    /\ i \in DOMAIN preview \cap excluded /\ Actionable(i) /\ excluded' = excluded \ {i}
    /\ declined' = declined \ {preview[i].address}
    /\ UNCHANGED <<invited, mails, box, checkOut, preview, sentOnce, sendOut, sends, dropped>>

-----------------------------------------------------------------------------
(* The send: pressed, classified, inserted and delivered, answered. *)

SendPressed ==
    /\ SelectedRows # {} /\ sendOut = NoSend /\ sends < MaxSends /\ sends' = sends + 1
    /\ sendOut' = [stage |-> "out", rows |-> preview, on |-> SelectedRows, passed |-> {}]
    /\ UNCHANGED <<invited, mails, box, checkOut, preview, excluded, sentOnce, declined, dropped>>

(* classify: one read for the batch of who has an invitation waiting. *)
Classifies ==
    /\ sendOut.stage = "out"
    /\ sendOut' = [sendOut EXCEPT !.stage = "classified",
                                  !.passed = {i \in sendOut.on : sendOut.rows[i].address \notin invited}]
    /\ UNCHANGED <<invited, mails, box, checkOut, preview, excluded, sentOnce, sends, declined, dropped>>

(* The insert of a row that passed meets uq_invitations_org_email_live. *)
InsertableAnyway(i) == i \in sendOut.passed                           \* a defect
Insertable(i) == sendOut.rows[i].address \notin invited

(* Each insert stands or falls alone; an undeliverable one is revoked again. *)
Delivers ==
    /\ sendOut.stage = "classified"
    /\ LET inserted == {i \in sendOut.passed : Insertable(i)}
       IN \E failed \in SUBSET inserted :
              LET sent == {sendOut.rows[i].address : i \in inserted \ failed}
              IN /\ invited' = invited \cup sent
                 /\ mails' = [a \in Address |-> mails[a] + IF a \in sent THEN 1 ELSE 0]
                 /\ sendOut' = [sendOut EXCEPT !.stage = "done",
                        !.rows = [i \in DOMAIN @ |->
                            IF i \notin sendOut.on THEN @[i]
                            ELSE [@[i] EXCEPT !.outcome =
                                     IF i \in failed THEN "failed"
                                     ELSE IF i \in inserted THEN "sent" ELSE "already"]]]
    /\ UNCHANGED <<box, checkOut, preview, excluded, sentOnce, sends, declined, dropped>>

(* The result replaces the preview in place, and what was unticked stays so. *)
SendAnswered ==
    /\ sendOut.stage = "done" /\ sendOut' = NoSend
    /\ preview' = sendOut.rows /\ sentOnce' = TRUE
    /\ UNCHANGED <<invited, mails, box, checkOut, excluded, sends, declined, dropped>>

(* The answer is lost: the table stays as it was, whatever was sent. *)
SendFails ==
    /\ sendOut.stage = "done" /\ sendOut' = NoSend
    /\ UNCHANGED <<invited, mails, box, checkOut, preview, excluded, sentOnce, sends, declined, dropped>>

(* Another administrator, or the form for one person. *)
InvitedElsewhere(a) ==
    /\ a \notin invited /\ invited' = invited \cup {a} /\ mails' = [mails EXCEPT ![a] = @ + 1]
    /\ UNCHANGED <<box, checkOut, preview, excluded, sentOnce, sendOut, sends, declined, dropped>>

RosterNext ==
    \/ \E list \in Lists \cup {<<>>} : Edited(list)
    \/ CheckPressed \/ CheckAnswered \/ SendPressed \/ Classifies \/ Delivers
    \/ SendAnswered \/ SendFails
    \/ \E i \in DOMAIN preview : Unticked(i) \/ Ticked(i)
    \/ \E a \in Address : InvitedElsewhere(a)

RosterSpec == RosterInit /\ [][RosterNext]_rosterVars

-----------------------------------------------------------------------------
RosterTypeOK ==
    /\ {invited, declined} \subseteq SUBSET Address /\ \A a \in Address : mails[a] \in Nat
    /\ {box, checkOut} \subseteq Lists \cup {<<>>} /\ sends \in 0..MaxSends
    /\ \A i \in DOMAIN preview : preview[i].address \in Address /\ preview[i].outcome \in RowOutcome
    /\ excluded \subseteq Nat /\ {sentOnce, dropped} \subseteq BOOLEAN
    /\ sendOut.stage \in {"none", "out", "classified", "done"}

(* Nobody receives two invitations that stand, by retries, lost answers or another   *)
(* administrator between the read of the batch and its inserts ("Retrying is safe"). *)
OneInvitationEach == \A a \in Address : mails[a] <= 1

(* Whom the reader has unticked, the button never selects again: not on a retry, and *)
(* not for the results ("excluded is NOT cleared, and that is the whole fix").       *)
UntickedStaysOut == \A i \in SelectedRows : preview[i].address \notin declined

(* It holds as long as the preview is not dropped under a send.                              *)
UntickedStaysOutOfARetry == ~dropped => UntickedStaysOut
=============================================================================
