----------------------------- MODULE Registration ---------------------------
(*******************************************************************************)
(* Registering an organisation: two panes, one submission at the end, and a    *)
(* staged intent that a code completes (app/pilot/admin/page.tsx over          *)
(* registration.py).  Of what the panes collect only the organisation's domain *)
(* is kept.                                                                    *)
(*******************************************************************************)
EXTENDS Naturals

CONSTANTS
    Domain,          \* what may be typed as one
    Readable,        \* those the server can read as one
    NoDomain

ASSUME DomainAssumption == Readable \subseteq Domain /\ NoDomain \notin Domain

VARIABLES
    pane,            \* 1, 2, or 3: the verify screen
    typed,           \* the domain field of pane one, which forgets it when it is left
    details,         \* what pane one collected, NoDomain for null
    posted,          \* the submission in flight sends this domain
    reached,         \* it is staged at the server
    domainError,     \* the error beside the domain field
    staged,          \* the staged registration the verify screen is for
    orgs,            \* the domains of organisations
    editedSince      \* history: pane one was edited while a submission was out

regVars == <<pane, typed, details, posted, reached, domainError, staged, orgs, editedSince>>

RegInit ==
    /\ pane = 1 /\ typed = NoDomain /\ details = NoDomain /\ posted = NoDomain /\ reached = FALSE
    /\ domainError = NoDomain /\ staged = NoDomain /\ orgs = {} /\ editedSince = FALSE

(* A field with an error loses it with the first keystroke. *)
DomainTyped(d) ==
    /\ pane = 1 /\ d # typed /\ typed' = d /\ domainError' = NoDomain
    /\ editedSince' = (posted # NoDomain)
    /\ UNCHANGED <<pane, details, posted, reached, staged, orgs>>

OrganisationSubmitted ==
    /\ pane = 1 /\ typed # NoDomain /\ details' = typed /\ pane' = 2
    /\ UNCHANGED <<typed, posted, reached, domainError, staged, orgs, editedSince>>

(* The way back is open while a submission is out; the fields come back filled. *)
BackToOrganisation ==
    /\ pane = 2 /\ pane' = 1 /\ typed' = details
    /\ UNCHANGED <<details, posted, reached, domainError, staged, orgs, editedSince>>

AdministratorSubmitted ==
    /\ pane = 2 /\ posted = NoDomain /\ posted' = details /\ reached' = FALSE
    /\ editedSince' = (editedSince /\ domainError # NoDomain)
    /\ UNCHANGED <<pane, typed, details, domainError, staged, orgs>>

(* stage_registration: no organisation yet, so nothing is compared with orgs. *)
RegistrationStaged ==
    /\ posted \in Readable /\ ~reached /\ reached' = TRUE
    /\ UNCHANGED <<pane, typed, details, posted, domainError, staged, orgs, editedSince>>

RegistrationAnswered ==
    /\ posted # NoDomain /\ reached /\ pane' = 3 /\ staged' = posted /\ posted' = NoDomain
    /\ UNCHANGED <<typed, details, reached, domainError, orgs, editedSince>>

(* The one refusal that returns to pane one, wherever the reader is by then.  A field *)
(* that stands keeps what is in it; one that is mounted takes it from details.        *)
DomainRefused ==
    /\ posted \in Domain \ Readable /\ posted' = NoDomain /\ domainError' = posted
    /\ pane' = 1 /\ typed' = IF pane = 1 THEN typed ELSE details
    /\ UNCHANGED <<details, reached, staged, orgs, editedSince>>

RegistrationFails ==                 \* over budget, unreachable, or the answer lost
    /\ posted # NoDomain /\ posted' = NoDomain
    /\ UNCHANGED <<pane, typed, details, reached, domainError, staged, orgs, editedSince>>

(* complete_registration, once its code is right: a taken domain rolls all of it back. *)
RegistrationCompleted ==
    /\ pane = 3 /\ staged # NoDomain /\ staged \notin orgs
    /\ orgs' = orgs \cup {staged} /\ staged' = NoDomain
    /\ UNCHANGED <<pane, typed, details, posted, reached, domainError, editedSince>>

RegisteredByAnother(d) ==
    /\ d \in Readable \ orgs /\ orgs' = orgs \cup {d}
    /\ UNCHANGED <<pane, typed, details, posted, reached, domainError, staged, editedSince>>

RegNext ==
    \/ \E d \in Domain : DomainTyped(d) \/ RegisteredByAnother(d)
    \/ OrganisationSubmitted \/ BackToOrganisation \/ AdministratorSubmitted \/ RegistrationStaged
    \/ RegistrationAnswered \/ DomainRefused \/ RegistrationFails \/ RegistrationCompleted

RegSpec == RegInit /\ [][RegNext]_regVars

-----------------------------------------------------------------------------
RegTypeOK ==
    /\ pane \in 1..3 /\ {typed, details, posted, domainError, staged} \subseteq Domain \cup {NoDomain}
    /\ orgs \subseteq Readable /\ {reached, editedSince} \subseteq BOOLEAN

(* "A red field beside a value the reader has already corrected says the correction  *)
(* did not take": the error stands only beside the very domain that was refused, and *)
(* what the verify screen completes is what pane one holds; both but for edits made  *)
(* while the submission was out.                                                     *)
WhatWasJudgedStands ==
    ~editedSince =>
        /\ pane = 1 /\ domainError # NoDomain => typed = domainError
        /\ pane = 3 /\ staged # NoDomain => staged = details
=============================================================================
