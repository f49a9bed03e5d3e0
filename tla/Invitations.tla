----------------------------- MODULE Invitations ----------------------------
(**********************************************************************************)
(* One address: its invitations, the administrators who send, cancel and          *)
(* resend them (invitations.py) and the tabs that accept a link                   *)
(* (app/pilot/accept/page.tsx).                                                   *)
(*                                                                                *)
(* A request is one transaction: it reads what is committed, waits for the row it *)
(* updates while another holds it, and waits for the unique index over live       *)
(* invitations while another's row of the address is uncommitted.  The message is *)
(* delivered before the commit.                                                   *)
(**********************************************************************************)
EXTENDS Naturals, FiniteSets

CONSTANTS
    Admin,
    Tab,             \* the tabs the links are opened in
    MaxLinks         \* bound on the invitations written

ASSUME InvitationAssumption == MaxLinks \in Nat

Link == 1..MaxLinks

VARIABLES
    inv,             \* inv[n]: the n-th row as it is committed
    rowHolder,          \* holder[n]: the transaction that has updated the row, uncommitted
    doing,           \* doing[a]: an administrator's request
    acceptTab,             \* tab[t]: the accept page
    members,         \* active users of the address
    mailed,          \* links whose message was delivered
    cancelled        \* history: links a committed Cancel or Resend has withdrawn

inviteVars == <<inv, rowHolder, doing, acceptTab, members, mailed, cancelled>>

NoLink == 0
NobodyHolds == "nobody"
Idle == [what |-> "none", old |-> NoLink, new |-> NoLink]

InvitationsInit ==
    /\ inv = [n \in Link |-> "unused"] /\ rowHolder = [n \in Link |-> NobodyHolds]
    /\ doing = [a \in Admin |-> Idle]
    /\ acceptTab = [t \in Tab |-> [at |-> "form", link |-> NoLink]]
    /\ members = 0 /\ mailed = {} /\ cancelled = {}

-----------------------------------------------------------------------------
(* The administrators. *)

(* invite_employee, to its SELECT: an active member is refused. *)
InviteChecks(a) ==
    /\ doing[a] = Idle /\ members = 0
    /\ doing' = [doing EXCEPT ![a].what = "checked"]
    /\ UNCHANGED <<inv, rowHolder, acceptTab, members, mailed, cancelled>>

(* resend_invitation, to its UPDATE: the row may be cancelled already, and the member *)
(* check of invite_employee comes after it.                                           *)
ResendRevokes(a, n) ==
    /\ doing[a] = Idle /\ inv[n] \in {"live", "expired", "revoked"} /\ rowHolder[n] = NobodyHolds
    /\ doing' = [doing EXCEPT ![a] = [what |-> "revoking", old |-> n, new |-> NoLink]]
    /\ rowHolder' = [rowHolder EXCEPT ![n] = IF inv[n] = "revoked" THEN NobodyHolds ELSE "admin"]
    /\ UNCHANGED <<inv, acceptTab, members, mailed, cancelled>>
ResendChecks(a) ==
    /\ doing[a].what = "revoking" /\ members = 0
    /\ doing' = [doing EXCEPT ![a].what = "checked"]
    /\ UNCHANGED <<inv, rowHolder, acceptTab, members, mailed, cancelled>>

(* Rows that ran out are retired, the new one inserted if the index has room, and the *)
(* message sent.                                                                      *)
Occupied(a) == {n \in Link : inv[n] = "live" /\ n # doing[a].old}
Uncommitted(a) == \E b \in Admin \ {a} : doing[b].what = "sent"
InviteInserts(a, n) ==
    /\ doing[a].what = "checked" /\ inv[n] = "unused" /\ \A k \in Link : k < n => inv[k] # "unused"
    /\ \A k \in Link : inv[k] = "expired" /\ k # doing[a].old => rowHolder[k] = NobodyHolds
    /\ ~Uncommitted(a) /\ Occupied(a) = {}
    /\ inv' = [k \in Link |-> IF k = n THEN "pending" ELSE inv[k]]
    /\ rowHolder' = [k \in Link |-> IF inv[k] = "expired" THEN "admin" ELSE rowHolder[k]]
    /\ doing' = [doing EXCEPT ![a] = [@ EXCEPT !.what = "sent", !.new = n]]
    /\ mailed' = mailed \cup {n} /\ UNCHANGED <<acceptTab, members, cancelled>>

Withdrawn(a) == {n \in Link : inv[n] = "expired" \/ (n = doing[a].old /\ inv[n] = "live")}
InviteCommits(a) ==
    /\ doing[a].what = "sent"
    /\ inv' = [n \in Link |-> IF n = doing[a].new THEN "live" ELSE IF n \in Withdrawn(a) THEN "revoked" ELSE inv[n]]
    /\ rowHolder' = [n \in Link |-> IF n \in Withdrawn(a) THEN NobodyHolds ELSE rowHolder[n]]
    /\ cancelled' = cancelled \cup Withdrawn(a) /\ doing' = [doing EXCEPT ![a] = Idle]
    /\ UNCHANGED <<acceptTab, members, mailed>>

(* A member, an invitation that waits, a mailer or a database that fails: all undone. *)
AdminFails(a) ==
    /\ doing[a].what # "none"
    /\ inv' = [n \in Link |-> IF n = doing[a].new THEN "failed" ELSE inv[n]]
    /\ rowHolder' = [n \in Link |-> IF n = doing[a].old \/ (doing[a].what = "sent" /\ inv[n] = "expired")
                                 THEN NobodyHolds ELSE rowHolder[n]]
    /\ doing' = [doing EXCEPT ![a] = Idle] /\ UNCHANGED <<acceptTab, members, mailed, cancelled>>

(* revoke_invitation: one statement that filters and marks. *)
InvitationRevoked(a, n) ==
    /\ doing[a] = Idle /\ inv[n] \in {"live", "expired"} /\ rowHolder[n] = NobodyHolds
    /\ inv' = [inv EXCEPT ![n] = "revoked"] /\ cancelled' = cancelled \cup {n}
    /\ UNCHANGED <<rowHolder, doing, acceptTab, members, mailed>>

Expires(n) ==
    /\ inv[n] = "live" /\ inv' = [inv EXCEPT ![n] = "expired"]
    /\ UNCHANGED <<rowHolder, doing, acceptTab, members, mailed, cancelled>>

-----------------------------------------------------------------------------
(* The person invited.  The token comes from the link's fragment. *)

LinkSubmitted(t, n) ==
    /\ acceptTab[t].at = "form" /\ n \in mailed /\ acceptTab' = [acceptTab EXCEPT ![t] = [at |-> "out", link |-> n]]
    /\ UNCHANGED <<inv, rowHolder, doing, members, mailed, cancelled>>

(* accept_invitation's UPDATE waits for whoever holds the row, then sees it anew. *)
Consumable(n) == inv[n] = "live"
Consumes(t) ==
    LET n == acceptTab[t].link
    IN /\ acceptTab[t].at = "out" /\ rowHolder[n] = NobodyHolds /\ inv[n] # "pending"
       /\ IF Consumable(n)
          THEN acceptTab' = [acceptTab EXCEPT ![t].at = "consumed"] /\ rowHolder' = [rowHolder EXCEPT ![n] = "tab"]
          ELSE acceptTab' = [acceptTab EXCEPT ![t].at = "form"] /\ UNCHANGED rowHolder
       /\ UNCHANGED <<inv, doing, members, mailed, cancelled>>

(* The address may have become a member's since the invitation was written. *)
RoomUnchecked == TRUE
RoomForMember == members = 0
Joins(t) ==
    LET n == acceptTab[t].link
    IN /\ acceptTab[t].at = "consumed"
       /\ \/ /\ RoomForMember /\ members' = members + 1 /\ inv' = [inv EXCEPT ![n] = "accepted"]
             /\ \E heard \in BOOLEAN : acceptTab' = [acceptTab EXCEPT ![t].at = IF heard THEN "issued" ELSE "form"]
          \/ /\ acceptTab' = [acceptTab EXCEPT ![t].at = "form"] /\ UNCHANGED <<members, inv>>
       /\ rowHolder' = [rowHolder EXCEPT ![n] = NobodyHolds]
       /\ UNCHANGED <<doing, mailed, cancelled>>

InvitationsNext ==
    \/ \E a \in Admin : InviteChecks(a) \/ ResendChecks(a) \/ InviteCommits(a) \/ AdminFails(a)
    \/ \E n \in Link : Expires(n) \/ \E a \in Admin : ResendRevokes(a, n) \/ InviteInserts(a, n) \/ InvitationRevoked(a, n)
    \/ \E t \in Tab : Consumes(t) \/ Joins(t) \/ \E n \in Link : LinkSubmitted(t, n)

InvitationsSpec == InvitationsInit /\ [][InvitationsNext]_inviteVars

-----------------------------------------------------------------------------
InvitationsTypeOK ==
    /\ inv \in [Link -> {"unused", "pending", "live", "expired", "revoked", "accepted", "failed"}]
    /\ rowHolder \in [Link -> {NobodyHolds, "admin", "tab"}] /\ members \in Nat /\ mailed \subseteq Link
    /\ \A a \in Admin : doing[a].what \in {"none", "revoking", "checked", "sent"}
    /\ \A t \in Tab : acceptTab[t].at \in {"form", "out", "consumed", "issued"}

(* "The second `users` row is unrepresentable": however invitations, resends and links *)
(* opened twice overlap, an address has one active user and one link that can be       *)
(* accepted, and no link an administrator withdrew has made the member.                *)
OneMember ==
    /\ members <= 1
    /\ Cardinality({n \in Link : inv[n] = "live"}) <= 1
    /\ \A n \in cancelled : inv[n] # "accepted"

(* A link that makes a member shows them their JUTSU ID.  (Not so when the answer is *)
(* lost: the next try says that the invitation is no longer valid.)                  *)
IdIsShown == members = 0 \/ \E t \in Tab : acceptTab[t].at = "issued"
=============================================================================
