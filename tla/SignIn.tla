-------------------------------- MODULE SignIn ------------------------------
(********************************************************************************)
(* A challenge and its code, from "send me a code" to a session or a refusal    *)
(* (app/signin, app/pilot/verify, lib/link-token.ts, auth_service.py and the    *)
(* functions of migration 0003).  Challenges are numbered; a code is the number *)
(* of the challenge it is right for, 0 a wrong one.  The person has one browser *)
(* ("here"), and may open the link of a mail on another device ("there").       *)
(********************************************************************************)
EXTENDS Naturals, Sequences, FiniteSets

CONSTANTS
    MaxChallenges,   \* bound on the codes asked for
    MaxAttempts      \* OTP_MAX_ATTEMPTS

ASSUME ChallengeAssumption == MaxChallenges \in Nat /\ MaxAttempts \in Nat \ {0}

VARIABLES
    challenges,      \* the rows: attempts and consumed
    codeMails,           \* the codes that reached the mailbox
    screen,          \* "form", "verify", or "in": the server's destination
    sentTo,          \* the hand-off: who the code went to is known to the screen
    cookie,          \* the challenge cookie's challenge, 0 for none
    codeAsks,            \* requests for a code in flight: the challenge issued, 0 before
    resendIn,        \* the countdown runs
    refusal,         \* failure stands
    tries,           \* verifications in flight
    guesses,         \* history: wrong codes answered to, per challenge
    redeemed,        \* history: sessions opened, per challenge
    asksCrossed          \* history: an ask's answer was lost, or two were out together

codeVars == <<challenges, codeMails, cookie, codeAsks, asksCrossed>>
signInVars == <<codeVars, screen, sentTo, resendIn, refusal, tries, guesses, redeemed>>

Number == 1..MaxChallenges
Fresh == [attempts |-> 0, consumed |-> FALSE]

SignInInit ==
    /\ challenges = <<>> /\ codeMails = {} /\ screen = "form" /\ sentTo = FALSE /\ cookie = 0
    /\ codeAsks = {} /\ resendIn = FALSE /\ refusal = FALSE /\ tries = {} /\ asksCrossed = FALSE
    /\ guesses = [n \in Number |-> 0] /\ redeemed = [n \in Number |-> 0]

Trying(device) == {t \in tries : t.device = device}

AsksForCode(a) ==
    /\ Len(challenges) + Cardinality({b \in codeAsks : b.issued = 0}) < MaxChallenges
    /\ codeAsks' = codeAsks \cup {a} /\ asksCrossed' = (asksCrossed \/ codeAsks # {})
    /\ refusal' = FALSE
    /\ UNCHANGED <<challenges, codeMails, screen, sentTo, cookie, resendIn, tries, guesses, redeemed>>

(* The form's button is disabled while its request is out. *)
CodeAskedFor == screen = "form" /\ codeAsks = {} /\ AsksForCode([by |-> 0, issued |-> 0])

(* The second screen's is not: it counts down only once an answer is back. *)
ResendOffered == sentTo /\ ~resendIn /\ Trying("here") = {}
ResendPressed ==
    /\ screen = "verify" /\ ResendOffered
    /\ \E k \in {1, 2} : (\A a \in codeAsks : a.by # k) /\ AsksForCode([by |-> k, issued |-> 0])

(* issue_challenge, for a known address and an unknown one alike. *)
ChallengeIssued(a) ==
    /\ a.issued = 0 /\ Len(challenges) < MaxChallenges
    /\ challenges' = Append(challenges, Fresh)
    /\ codeAsks' = (codeAsks \ {a}) \cup {[a EXCEPT !.issued = Len(challenges) + 1]}
    /\ UNCHANGED <<codeMails, screen, sentTo, cookie, resendIn, refusal, tries, guesses, redeemed, asksCrossed>>

MailArrives(n) ==
    /\ n \notin codeMails /\ codeMails' = codeMails \cup {n}
    /\ UNCHANGED <<challenges, screen, sentTo, cookie, codeAsks, resendIn, refusal, tries, guesses, redeemed, asksCrossed>>

(* The response carries the cookie, the address goes by way of sessionStorage. *)

CodeAnswered(a) ==
    /\ a.issued # 0 /\ codeAsks' = codeAsks \ {a} /\ cookie' = a.issued
    /\ IF screen = "form" THEN screen' = "verify" /\ sentTo' = TRUE /\ UNCHANGED resendIn
                          ELSE resendIn' = (screen = "verify") /\ UNCHANGED <<screen, sentTo>>
    /\ UNCHANGED <<challenges, codeMails, refusal, tries, guesses, redeemed, asksCrossed>>

CodeRefused(a) ==                     \* over budget, or the answer lost
    /\ codeAsks' = codeAsks \ {a} /\ refusal' = TRUE /\ resendIn' = (screen = "verify")
    /\ asksCrossed' = (asksCrossed \/ a.issued # 0)
    /\ UNCHANGED <<challenges, codeMails, screen, sentTo, cookie, tries, guesses, redeemed>>

CountdownOver ==
    /\ resendIn /\ resendIn' = FALSE
    /\ UNCHANGED <<codeVars, screen, sentTo, refusal, tries, guesses, redeemed>>

(* The hand-off is read once: a reloaded screen does not know who was written to. *)
VerifyReloaded ==
    /\ screen = "verify" /\ sentTo /\ sentTo' = FALSE /\ resendIn' = FALSE /\ refusal' = FALSE
    /\ tries' = {t \in tries : t.device = "there"}
    /\ UNCHANGED <<codeVars, screen, guesses, redeemed>>

(* The last digit submits, as the button does; the boxes are disabled until the answer. *)
CodeSubmitted(t) ==
    /\ Trying(t.device) = {} /\ tries' = tries \cup {t}
    /\ UNCHANGED <<codeVars, screen, sentTo, resendIn, guesses, redeemed>>

CodeEntered(c) ==
    /\ screen = "verify" /\ cookie # 0 /\ c \in codeMails \cup {0} /\ refusal' = FALSE
    /\ CodeSubmitted([device |-> "here", token |-> cookie, code |-> c, stage |-> "out"])

(* The link's token comes in the fragment and wins over a cookie. *)
LinkOpened(n, c) ==
    /\ n \in codeMails /\ c \in {0, n} /\ UNCHANGED refusal
    /\ CodeSubmitted([device |-> "there", token |-> n, code |-> c, stage |-> "out"])

Becomes(t, stage) == tries' = (tries \ {t}) \cup {[t EXCEPT !.stage = stage]}

(* auth.consume_attempt: its UPDATE holds the row until the transaction's end.  A *)
(* challenge past its ten minutes is refused as a spent one is.                   *)
Live(n) == ~challenges[n].consumed /\ challenges[n].attempts < MaxAttempts
AttemptSpent(t) ==
    /\ t.stage = "out" /\ \A u \in tries : u.stage = "spent" => u.token # t.token
    /\ \E s \in {"refused"} \cup {w \in {"spent"} : Live(t.token)} : Becomes(t, s)
    /\ UNCHANGED <<codeVars, screen, sentTo, resendIn, refusal, guesses, redeemed>>

(* A wrong code: the spend is committed before the refusal is raised. *)
SpendsNothing(n) == UNCHANGED challenges
Spends(n) == challenges' = [challenges EXCEPT ![n].attempts = @ + 1]
WrongCode(t) ==
    /\ t.stage = "spent" /\ t.code # t.token
    /\ Spends(t.token) /\ Becomes(t, "refused")
    /\ guesses' = [guesses EXCEPT ![t.token] = @ + 1]
    /\ UNCHANGED <<codeMails, cookie, codeAsks, asksCrossed, screen, sentTo, resendIn, refusal, redeemed>>

(* A right one: consumed, and the session or the organisation with it. *)
RightCode(t) ==
    /\ t.stage = "spent" /\ t.code = t.token
    /\ challenges' = [challenges EXCEPT ![t.token].attempts = @ + 1, ![t.token].consumed = TRUE]
    /\ Becomes(t, "accepted") /\ redeemed' = [redeemed EXCEPT ![t.token] = @ + 1]
    /\ UNCHANGED <<codeMails, cookie, codeAsks, asksCrossed, screen, sentTo, resendIn, refusal, guesses>>

(* Refused after the code was right (no membership, a domain taken), or a crash: *)
(* the transaction is undone, the attempt with it.                               *)
VerifyUndone(t) ==
    /\ t.stage = "spent" /\ Becomes(t, "refused")
    /\ UNCHANGED <<codeVars, screen, sentTo, resendIn, refusal, guesses, redeemed>>

TryAnswered(t) ==
    /\ t.stage \in {"refused", "accepted"} /\ tries' = tries \ {t}
    /\ IF t.device = "there" THEN UNCHANGED <<screen, cookie, refusal>>
       ELSE \/ t.stage = "accepted" /\ screen' = "in" /\ cookie' = 0 /\ UNCHANGED refusal
            \/ refusal' = TRUE /\ UNCHANGED <<screen, cookie>>     \* or its answer lost
    /\ UNCHANGED <<challenges, codeMails, codeAsks, asksCrossed, sentTo, resendIn, guesses, redeemed>>

SignInNext ==
    \/ CodeAskedFor \/ ResendPressed \/ CountdownOver \/ VerifyReloaded
    \/ \E a \in codeAsks : ChallengeIssued(a) \/ CodeAnswered(a) \/ CodeRefused(a)
    \/ \E n \in DOMAIN challenges : MailArrives(n)
    \/ \E c \in 0..Len(challenges) : \/ CodeEntered(c)
                                     \/ \E n \in DOMAIN challenges : LinkOpened(n, c)
    \/ \E t \in tries : AttemptSpent(t) \/ WrongCode(t) \/ RightCode(t) \/ VerifyUndone(t) \/ TryAnswered(t)

SignInSpec == SignInInit /\ [][SignInNext]_signInVars

-----------------------------------------------------------------------------
SignInTypeOK ==
    /\ Len(challenges) <= MaxChallenges /\ codeMails \subseteq DOMAIN challenges /\ cookie \in 0..Len(challenges)
    /\ screen \in {"form", "verify", "in"} /\ {sentTo, resendIn, refusal, asksCrossed} \subseteq BOOLEAN
    /\ \A d \in {"here", "there"} : Cardinality(Trying(d)) <= 1

(* "Codes ... allow five attempts" and "can be used once": however requests from two *)
(* devices overlap, are undone or lose their answers, a challenge answers at most    *)
(* MaxAttempts codes and opens one session.                                          *)
AttemptsAreCounted ==
    \A n \in Number : guesses[n] + redeemed[n] <= MaxAttempts /\ redeemed[n] <= 1

(* The code to type is the newest mail's: the cookie the screen submits it with is *)
(* that challenge's, unless an answer was lost or two requests were out together.  *)
NewestCodeFits ==
    screen = "verify" /\ codeAsks = {} /\ ~asksCrossed => cookie = Len(challenges)
=============================================================================
