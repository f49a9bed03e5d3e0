-------------------------------- MODULE Shell -------------------------------
(***************************************************************************)
(* The shell around both consoles: who the API says the caller is, the one *)
(* failure that sends them away, and signing out (components/console/      *)
(* console-shell.tsx over lib/api.ts, lib/api-error.ts and lib/query.ts).  *)
(* The query outlives its pages, as the tab's cache does.                  *)
(***************************************************************************)
VARIABLES
    session,         \* the server honours this browser's cookie
    heldCookie,      \* the browser holds a session cookie
    place,           \* "console", "signin" or "home"
    me,              \* the query: capabilities loaded, the failure beside them, its read
    leaving,         \* "none", "out" or "done": the logout call
    staleRefusal,    \* history: the failure was answered to an earlier session
    servedBefore,    \* history: the answer on its way was served to an earlier session
    sentAway         \* history: the last redirect, and whether it was deserved

shellVars == <<session, heldCookie, place, me, leaving, staleRefusal, servedBefore, sentAway>>

Kind == {"none", "auth", "denied", "other"}
NothingLoaded == [loaded |-> FALSE, failure |-> "none", read |-> "never"]

(* A read without data behind it forgets the failure before; one with data keeps it *)
(* until its answer.                                                                *)
Fetching(q) == [q EXCEPT !.read = "asked", !.failure = IF q.loaded THEN @ ELSE "none"]

(* Mounting reads what was never read or failed, and may find the rest aged. *)
Mounted(q) ==
    IF q.read \in {"asked", "ok", "refused", "fails"} THEN {q}
    ELSE IF q.loaded /\ q.failure = "none" THEN {q, Fetching(q)} ELSE {Fetching(q)}

ShellInit ==
    /\ session \in BOOLEAN /\ heldCookie = TRUE /\ place = "console" /\ me = Fetching(NothingLoaded)
    /\ leaving = "none" /\ staleRefusal = FALSE /\ servedBefore = FALSE /\ sentAway = "never"

(* classifyApiError of what call() throws; a fault has been retried once. *)
MeServed ==
    /\ me.read = "asked"
    /\ \E r \in {IF session THEN "ok" ELSE "refused", "fails"} : me' = [me EXCEPT !.read = r]
    /\ servedBefore' = FALSE
    /\ UNCHANGED <<heldCookie, session, place, leaving, staleRefusal, sentAway>>

MeAnswered ==
    /\ me.read \in {"ok", "refused", "fails"}
    /\ staleRefusal' = (me.read = "refused" /\ servedBefore)
    /\ me' = CASE me.read = "ok" -> [loaded |-> TRUE, failure |-> "none", read |-> "idle"]
               [] me.read = "refused" -> [me EXCEPT !.failure = "auth", !.read = "idle"]
               [] me.read = "fails" -> [me EXCEPT !.failure = "other", !.read = "idle"]
    /\ UNCHANGED <<heldCookie, servedBefore, session, place, leaving, sentAway>>

(* The window's focus, or Try again where nothing loaded and a retry may work. *)
MeAskedAgain ==
    /\ place = "console" /\ me.read = "idle"
    /\ me.loaded \/ me.failure = "other"
    /\ me' = Fetching(me)
    /\ UNCHANGED <<heldCookie, servedBefore, session, place, leaving, staleRefusal, sentAway>>

AnyFailure == me.failure # "none"
Expired == me.failure = "auth"

RedirectedToSignIn ==
    /\ place = "console" /\ Expired /\ place' = "signin"
    /\ sentAway' = IF ~session THEN "expired" ELSE IF staleRefusal THEN "stale" ELSE "wrongly"
    /\ UNCHANGED <<heldCookie, servedBefore, session, me, leaving, staleRefusal>>

SignsIn ==
    /\ place # "console" /\ session' = TRUE /\ heldCookie' = TRUE /\ place' = "console"
    /\ \E q \in Mounted(me) : me' = q
    /\ staleRefusal' = (me.failure = "auth") /\ servedBefore' = (me.read = "refused")
    /\ UNCHANGED <<leaving, sentAway>>

(* The header's link, past a gate that looks for a cookie and no further (middleware.ts). *)
ConsoleOpened ==
    /\ place = "home" /\ heldCookie /\ place' = "console" /\ \E q \in Mounted(me) : me' = q
    /\ UNCHANGED <<heldCookie, servedBefore, session, leaving, staleRefusal, sentAway>>

GateTurnsAway ==
    /\ place = "home" /\ ~heldCookie /\ place' = "signin"
    /\ sentAway' = IF session THEN "wrongly" ELSE "expired"
    /\ UNCHANGED <<heldCookie, servedBefore, session, me, leaving, staleRefusal>>

SessionEnds ==
    /\ session /\ session' = FALSE
    /\ UNCHANGED <<heldCookie, servedBefore, place, me, leaving, staleRefusal, sentAway>>

(* Five minutes without a console: the cache lets the query go. *)
CacheDropped ==
    /\ place # "console" /\ me.read = "idle" /\ me' = NothingLoaded /\ staleRefusal' = FALSE
    /\ UNCHANGED <<heldCookie, servedBefore, session, place, leaving, sentAway>>

SignOutPressed ==
    /\ place = "console" /\ leaving = "none" /\ leaving' = "out"
    /\ UNCHANGED <<heldCookie, servedBefore, session, place, me, staleRefusal, sentAway>>

LogoutRuns ==
    /\ leaving = "out" /\ leaving' = "done" /\ session' = FALSE
    /\ UNCHANGED <<heldCookie, servedBefore, place, me, staleRefusal, sentAway>>

(* Home whatever the call came to; the answer, if there is one, takes the cookie. *)
SignOutAnswered ==
    /\ leaving # "none" /\ leaving' = "none" /\ place' = "home"
    /\ \E heard \in {FALSE, leaving = "done"} :
        /\ heldCookie' = (heldCookie /\ ~heard) /\ session' = (session /\ ~heard)
    /\ UNCHANGED <<servedBefore, me, staleRefusal, sentAway>>

ShellNext ==
    \/ MeServed \/ MeAnswered \/ MeAskedAgain \/ RedirectedToSignIn \/ SignsIn \/ ConsoleOpened
    \/ GateTurnsAway \/ SessionEnds \/ CacheDropped \/ SignOutPressed \/ LogoutRuns \/ SignOutAnswered

ShellSpec == ShellInit /\ [][ShellNext]_shellVars

-----------------------------------------------------------------------------
ShellTypeOK ==
    /\ place \in {"console", "signin", "home"} /\ leaving \in {"none", "out", "done"}
    /\ me.failure \in Kind /\ {session, heldCookie, me.loaded, staleRefusal, servedBefore} \subseteq BOOLEAN

(* "Only a 401 sends someone away": nobody whose session holds is sent to sign in by *)
(* a dependency that is down, across expiry, signing in again and reads that overlap *)
(* both.  Excepted is the refusal of an earlier session that is still cached.        *)
ValidSessionStays == sentAway # "wrongly"
=============================================================================
