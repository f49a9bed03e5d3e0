------------------------------ MODULE Identities ------------------------------
(***************************************************************************)
(* The identities page: whom it is about, and that person's identities.    *)
(***************************************************************************)
EXTENDS Naturals, FiniteSets

(******************************************************************************)
(* The person picker above the identities panel (app/admin/identities): every *)
(* keystroke searches on the server, answers come back in any order, and the  *)
(* person selected stays so whatever is listed.                               *)
(******************************************************************************)

CONSTANTS
    Someone,         \* the people of the organisation
    NoPerson,
    Typed,           \* what may stand in the search box
    Unsearched,      \* the empty box, among them
    Found(_),        \* who the server finds
    MaxSearches      \* bound on the searches of a run

ASSUME PeopleAssumption ==
    /\ NoPerson \notin Someone /\ Unsearched \in Typed /\ MaxSearches \in Nat \ {0}
    /\ \A q \in Typed : Found(q) \subseteq Someone

VARIABLES
    searchBox,       \* query
    searchTicket,    \* latestRequest.current
    searchesOut,     \* requests in flight: ticket and query
    peopleShown,     \* "loading", "people" or "failure"
    peopleFound,          \* employees
    selectedOne      \* selected

peopleVars == <<searchBox, searchTicket, searchesOut, peopleShown, peopleFound, selectedOne>>

PeopleInit ==                        \* mounted: the effect has searched once
    /\ searchBox = Unsearched /\ searchTicket = 1
    /\ searchesOut = {[ticket |-> 1, q |-> Unsearched]}
    /\ peopleShown = "loading" /\ peopleFound = {} /\ selectedOne = NoPerson

SearchFor(q) ==
    /\ searchTicket < MaxSearches /\ searchTicket' = searchTicket + 1
    /\ searchesOut' = searchesOut \cup {[ticket |-> searchTicket + 1, q |-> q]}

SearchTyped(q) ==
    /\ q # searchBox /\ searchBox' = q /\ SearchFor(q)
    /\ UNCHANGED <<peopleShown, peopleFound, selectedOne>>

PeopleRetried ==
    /\ peopleShown = "failure" /\ SearchFor(searchBox)
    /\ UNCHANGED <<searchBox, peopleShown, peopleFound, selectedOne>>

LatestTicket(s) == s.ticket = searchTicket

(* The first of them is selected when nobody is. *)
SearchAnswered(s) ==
    /\ searchesOut' = searchesOut \ {s}
    /\ IF LatestTicket(s)
       THEN /\ peopleFound' = Found(s.q) /\ peopleShown' = "people"
            /\ IF selectedOne = NoPerson /\ Found(s.q) # {}
               THEN selectedOne' \in Found(s.q) ELSE UNCHANGED selectedOne
       ELSE UNCHANGED <<peopleFound, peopleShown, selectedOne>>
    /\ UNCHANGED <<searchBox, searchTicket>>

SearchFailed(s) ==
    /\ searchesOut' = searchesOut \ {s}
    /\ IF LatestTicket(s) THEN peopleFound' = {} /\ peopleShown' = "failure" ELSE UNCHANGED <<peopleFound, peopleShown>>
    /\ UNCHANGED <<searchBox, searchTicket, selectedOne>>

PersonPicked(p) ==
    /\ peopleShown = "people" /\ p \in peopleFound /\ selectedOne' = p
    /\ UNCHANGED <<searchBox, searchTicket, searchesOut, peopleShown, peopleFound>>

PeopleNext ==
    \/ \E q \in Typed : SearchTyped(q)
    \/ PeopleRetried
    \/ \E s \in searchesOut : SearchAnswered(s) \/ SearchFailed(s)
    \/ \E p \in Someone : PersonPicked(p)

PeopleSpec == PeopleInit /\ [][PeopleNext]_peopleVars

-----------------------------------------------------------------------------
PeopleTypeOK ==
    /\ searchBox \in Typed /\ searchTicket \in 1..MaxSearches /\ peopleFound \subseteq Someone
    /\ peopleShown \in {"loading", "people", "failure"} /\ selectedOne \in Someone \cup {NoPerson}

(* "A response is only allowed to win if it is still the latest one asked for": at rest *)
(* the list is what the box asks for, in whatever order the answers came.               *)
PeopleFollowTheBox ==
    peopleShown = "people" /\ (\A s \in searchesOut : s.ticket # searchTicket) => peopleFound = Found(searchBox)

(* The picker names the person whose identities the panel below it edits.  (Not so once *)
(* a search no longer lists them: the select falls back to its first option.)           *)
PickerNamesSelected == peopleShown = "people" /\ peopleFound # {} => selectedOne \in peopleFound

-----------------------------------------------------------------------------
(****************************************************************************)
(* One employee's source identities: the list, Link and Revoke              *)
(* (components/admin/source-identities.tsx).  Every success reads the whole *)
(* list again, without a ticket: reads come back in any order.              *)
(****************************************************************************)

CONSTANTS
    Identity,        \* the provider accounts that can be linked
    NoIdentity,
    MaxReadings      \* bound on the reads of a run

ASSUME IdentityAssumption == NoIdentity \notin Identity /\ MaxReadings \in Nat \ {0}

VARIABLES
    active,          \* the links that hold at the server
    rows,            \* identities: what the panel lists as active
    panel,           \* "loading", "list" or "error"
    readings,        \* reads in flight: asked, or answered with the links of that moment
    linking,         \* the link in flight, and whether it was recorded
    unlinking,       \* revoking: the same of a revocation
    behind,          \* history: a change was recorded that no read has been asked for
    misordered       \* history: the last read was asked while another was out

idVars == <<active, rows, panel, readings, linking, unlinking, behind, misordered>>

NoChangeOut == [id |-> NoIdentity, ran |-> FALSE]
FirstReading == [n |-> 1, got |-> {}, answered |-> FALSE]

IdsInit ==
    /\ active \in SUBSET Identity /\ rows = {} /\ panel = "loading" /\ readings = {FirstReading}
    /\ linking = NoChangeOut /\ unlinking = NoChangeOut /\ behind = FALSE /\ misordered = FALSE

(* load(): one more read, whatever is in flight. *)
Loads ==
    /\ \E n \in 1..MaxReadings :
         /\ \A r \in readings : r.n # n
         /\ readings' = readings \cup {[n |-> n, got |-> {}, answered |-> FALSE]}
    /\ misordered' = (readings # {}) /\ behind' = FALSE

IdsServed(r) ==
    /\ ~r.answered
    /\ readings' = (readings \ {r}) \cup {[r EXCEPT !.answered = TRUE, !.got = active]}
    /\ UNCHANGED <<active, rows, panel, linking, unlinking, behind, misordered>>

IdsArrive(r) ==
    /\ r.answered /\ readings' = readings \ {r} /\ rows' = r.got /\ panel' = "list"
    /\ UNCHANGED <<active, linking, unlinking, behind, misordered>>

IdsFail(r) ==
    /\ readings' = readings \ {r} /\ rows' = {} /\ panel' = "error"
    /\ UNCHANGED <<active, linking, unlinking, behind, misordered>>

IdsRetried ==
    /\ panel = "error" /\ Loads /\ UNCHANGED <<active, rows, panel, linking, unlinking>>

LinkPressed(i) ==
    /\ linking = NoChangeOut /\ linking' = [id |-> i, ran |-> FALSE]
    /\ UNCHANGED <<active, rows, panel, readings, unlinking, behind, misordered>>

(* A second revocation takes revoking over and enables the first one's button; its *)
(* own pair is not told apart.                                                     *)
RevokePressedOn(i) ==
    /\ panel = "list" /\ i \in rows /\ unlinking = NoChangeOut
    /\ unlinking' = [id |-> i, ran |-> FALSE]
    /\ UNCHANGED <<active, rows, panel, readings, linking, behind, misordered>>

LinkRecorded ==
    /\ linking # NoChangeOut /\ ~linking.ran /\ active' = active \cup {linking.id}
    /\ linking' = [linking EXCEPT !.ran = TRUE] /\ behind' = TRUE
    /\ UNCHANGED <<rows, panel, readings, unlinking, misordered>>

RevocationRecorded ==
    /\ unlinking # NoChangeOut /\ ~unlinking.ran /\ active' = active \ {unlinking.id}
    /\ unlinking' = [unlinking EXCEPT !.ran = TRUE] /\ behind' = TRUE
    /\ UNCHANGED <<rows, panel, readings, linking, misordered>>

(* The list is read again once the change is known to be recorded. *)
LinkAnswered ==
    /\ linking.ran /\ linking' = NoChangeOut /\ Loads
    /\ UNCHANGED <<active, rows, panel, unlinking>>
RevocationAnswered ==
    /\ unlinking.ran /\ unlinking' = NoChangeOut /\ Loads
    /\ UNCHANGED <<active, rows, panel, linking>>

(* Refused or lost: the error stands below, the list is left as it is. *)
ChangeFails ==
    /\ \/ linking # NoChangeOut /\ linking' = NoChangeOut /\ UNCHANGED unlinking
       \/ unlinking # NoChangeOut /\ unlinking' = NoChangeOut /\ UNCHANGED linking
    /\ UNCHANGED <<active, rows, panel, readings, behind, misordered>>

IdsNext ==
    \/ \E r \in readings : IdsServed(r) \/ IdsArrive(r) \/ IdsFail(r)
    \/ \E i \in Identity : LinkPressed(i) \/ RevokePressedOn(i)
    \/ IdsRetried \/ LinkRecorded \/ RevocationRecorded \/ LinkAnswered \/ RevocationAnswered \/ ChangeFails

IdsSpec == IdsInit /\ [][IdsNext]_idVars

-----------------------------------------------------------------------------
IdsTypeOK ==
    /\ active \subseteq Identity /\ rows \subseteq Identity /\ panel \in {"loading", "list", "error"}
    /\ readings \subseteq [n : 1..MaxReadings, got : SUBSET Identity, answered : BOOLEAN]
    /\ linking.id \in Identity \cup {NoIdentity} /\ unlinking.id \in Identity \cup {NoIdentity}

(* "revoking one removes it on the next search": the panel at rest lists the links *)
(* that hold, unless the last read was asked while another was out (which may come *)
(* after it) or the answer to a change was lost.                                   *)
PanelIsTheGrants == panel = "list" /\ readings = {} /\ ~behind /\ ~misordered => rows = active
=============================================================================
