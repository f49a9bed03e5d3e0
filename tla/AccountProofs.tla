---------------------------- MODULE AccountProofs ---------------------------
(****************************************************************************)
(* Theorems of SignIn and of Invitations: how one gets in.                  *)
(*                                                                          *)
(*   CodesAreCounted   a challenge answers MaxAttempts codes and opens one  *)
(*                     session, for any bounds                              *)
(*   OneMemberOnly     an address has one user and one link that works, for *)
(*                     any administrators, tabs and number of links         *)
(*   NewestCodeIsHeld  the screen submits the newest code to the challenge  *)
(*                     it belongs to, for any bounds                        *)
(*                                                                          *)
(* None of these is inductive.  A challenge's count agrees with what was    *)
(* answered only because a request that has spent an attempt excludes every *)
(* other until it ends (CountsAgree); an address stays one member's because *)
(* every row in use is held by one transaction, of an administrator or of a *)
(* tab (RowsAreHeld); and the newest code is the cookie's because one ask   *)
(* is out at most (AskIsNewest).                                            *)
(****************************************************************************)
EXTENDS SignIn, Invitations, FiniteSetTheorems, SequenceTheorems, TLAPS

(* What the records of a sign-in hold: SignInTypeOK, and the shape of each request. *)
Challenge == [attempts : Nat, consumed : BOOLEAN]
CodeAsk == [by : {0, 1, 2}, issued : 0..Len(challenges)]
Try == [device : {"here", "there"}, token : 1..Len(challenges), code : Nat,
        stage : {"out", "spent", "refused", "accepted"}]

Shapes ==
    /\ challenges \in Seq(Challenge)
    /\ codeMails \subseteq 1..Len(challenges) /\ cookie \in 0..Len(challenges)
    /\ codeAsks \subseteq CodeAsk /\ tries \subseteq Try
    /\ guesses \in [Number -> Nat] /\ redeemed \in [Number -> Nat]
    /\ Len(challenges) <= MaxChallenges

(* A challenge's attempts are those answered, one consumed it at most, and a request
   that has spent one holds the row of a live challenge alone. *)
CountsAgree ==
    /\ \A n \in Number \ DOMAIN challenges : guesses[n] = 0 /\ redeemed[n] = 0
    /\ \A n \in DOMAIN challenges :
          /\ challenges[n].attempts = guesses[n] + redeemed[n]
          /\ challenges[n].attempts <= MaxAttempts
          /\ redeemed[n] = IF challenges[n].consumed THEN 1 ELSE 0
    /\ \A t \in tries : t.stage = "spent" => Live(t.token)
    /\ \A t, u \in tries : t.stage = "spent" /\ u.stage = "spent" /\ t.token = u.token => t = u

(* An attempt counted, and a challenge consumed, leave a challenge. *)
LEMMA AttemptOnChallenge ==
  ASSUME NEW c \in Challenge
  PROVE  /\ [c EXCEPT !.attempts = @ + 1] \in Challenge
         /\ [c EXCEPT !.attempts = @ + 1, !.consumed = TRUE] \in Challenge
<1>1. c.attempts + 1 \in Nat
  BY DEF Challenge
<1>2. QED
  BY <1>1 DEF Challenge

(* Every request, mail and answer keeps the shapes. *)
LEMMA NextShapes == Shapes /\ [SignInNext]_signInVars => Shapes'
<1> SUFFICES ASSUME Shapes, [SignInNext]_signInVars PROVE Shapes'
  OBVIOUS
<1> USE ChallengeAssumption DEF Shapes, CodeAsk, Try, codeVars
<1>1. CASE CodeAskedFor
  BY <1>1 DEF CodeAskedFor, AsksForCode
<1>2. CASE ResendPressed
  BY <1>2 DEF ResendPressed, AsksForCode
<1>3. CASE CountdownOver \/ VerifyReloaded
  BY <1>3 DEF CountdownOver, VerifyReloaded
<1>4. ASSUME NEW a \in codeAsks, ChallengeIssued(a) PROVE Shapes'
  <2>1. challenges' \in Seq(Challenge) /\ Len(challenges') = Len(challenges) + 1
    BY <1>4 DEF ChallengeIssued, Fresh, Challenge
  <2>2. Len(challenges) \in Nat
    OBVIOUS
  <2>3. codeAsks' \subseteq CodeAsk'
    <3>1. [a EXCEPT !.issued = Len(challenges) + 1] \in CodeAsk'
      BY <2>1, <2>2
    <3>2. CodeAsk \subseteq CodeAsk'
      BY <2>1, <2>2
    <3>3. QED
      BY <1>4, <3>1, <3>2 DEF ChallengeIssued
  <2>4. tries' \subseteq Try'
    BY <1>4, <2>1, <2>2 DEF ChallengeIssued
  <2>5. Len(challenges') <= MaxChallenges
    BY <1>4, <2>1, <2>2 DEF ChallengeIssued
  <2>6. QED
    BY <1>4, <2>1, <2>2, <2>3, <2>4, <2>5 DEF ChallengeIssued
<1>5. ASSUME NEW a \in codeAsks, CodeAnswered(a) \/ CodeRefused(a) PROVE Shapes'
  BY <1>5 DEF CodeAnswered, CodeRefused
<1>6. ASSUME NEW n \in DOMAIN challenges, MailArrives(n) PROVE Shapes'
  <2>1. n \in 1..Len(challenges)
    OBVIOUS
  <2>2. QED
    BY <1>6, <2>1 DEF MailArrives
<1>7. ASSUME NEW c \in 0..Len(challenges), CodeEntered(c) PROVE Shapes'
  BY <1>7 DEF CodeEntered, CodeSubmitted
<1>8. ASSUME NEW n \in DOMAIN challenges, NEW c \in 0..Len(challenges), LinkOpened(n, c)
      PROVE Shapes'
  BY <1>8 DEF LinkOpened, CodeSubmitted
<1>9. ASSUME NEW t \in tries, AttemptSpent(t) \/ VerifyUndone(t) PROVE Shapes'
  BY <1>9 DEF AttemptSpent, VerifyUndone, Becomes
<1>10. ASSUME NEW t \in tries, WrongCode(t) PROVE Shapes'
  <2>1. t.token \in 1..Len(challenges) /\ t.token \in DOMAIN challenges /\ t.token \in Number
    BY DEF Number
  <2>2. challenges[t.token] \in Challenge
    BY <2>1
  <2>3. challenges' \in Seq(Challenge) /\ Len(challenges') = Len(challenges)
    <3>1. [challenges[t.token] EXCEPT !.attempts = @ + 1] \in Challenge
      BY <2>2, AttemptOnChallenge
    <3>2. challenges' = [challenges EXCEPT ![t.token] = [challenges[t.token] EXCEPT !.attempts = @ + 1]]
      BY <1>10 DEF WrongCode, Spends
    <3>3. challenges \in Seq(Challenge)
      OBVIOUS
    <3> HIDE DEF Shapes
    <3>4. QED
      BY <2>1, <3>1, <3>2, <3>3, ExceptSeq
  <2>4. tries' \subseteq Try'
    BY <1>10, <2>3 DEF WrongCode, Becomes
  <2>5. guesses' \in [Number -> Nat] /\ redeemed' \in [Number -> Nat]
    BY <1>10, <2>1 DEF WrongCode
  <2>6. QED
    BY <1>10, <2>3, <2>4, <2>5 DEF WrongCode
<1>11. ASSUME NEW t \in tries, RightCode(t) PROVE Shapes'
  <2>1. t.token \in 1..Len(challenges) /\ t.token \in DOMAIN challenges /\ t.token \in Number
    BY DEF Number
  <2>2. challenges[t.token] \in Challenge
    BY <2>1
  <2>3. challenges' \in Seq(Challenge) /\ Len(challenges') = Len(challenges)
    <3>1. [challenges[t.token] EXCEPT !.attempts = @ + 1, !.consumed = TRUE] \in Challenge
      BY <2>2, AttemptOnChallenge
    <3>2. challenges' = [challenges EXCEPT ![t.token] = [challenges[t.token] EXCEPT !.attempts = @ + 1, !.consumed = TRUE]]
      BY <1>11 DEF RightCode
    <3>3. challenges \in Seq(Challenge)
      OBVIOUS
    <3> HIDE DEF Shapes
    <3>4. QED
      BY <2>1, <3>1, <3>2, <3>3, ExceptSeq
  <2>4. tries' \subseteq Try'
    BY <1>11, <2>3 DEF RightCode, Becomes
  <2>5. guesses' \in [Number -> Nat] /\ redeemed' \in [Number -> Nat]
    BY <1>11, <2>1 DEF RightCode
  <2>6. QED
    BY <1>11, <2>3, <2>4, <2>5 DEF RightCode
<1>12. ASSUME NEW t \in tries, TryAnswered(t) PROVE Shapes'
  BY <1>12 DEF TryAnswered
<1>13. CASE UNCHANGED signInVars
  BY <1>13 DEF signInVars
<1>14. QED
  BY <1>1, <1>2, <1>3, <1>4, <1>5, <1>6, <1>7, <1>8, <1>9, <1>10, <1>11, <1>12, <1>13
     DEF SignInNext

(* A first screen has no challenge. *)
LEMMA InitCounts == SignInInit => Shapes /\ CountsAgree
  BY ChallengeAssumption
     DEF SignInInit, Shapes, CodeAsk, Try, CountsAgree, Number

(* Each action keeps the count: one that spends is alone with its challenge. *)
LEMMA NextCounts == Shapes /\ CountsAgree /\ [SignInNext]_signInVars => CountsAgree'
<1> SUFFICES ASSUME Shapes, CountsAgree, [SignInNext]_signInVars PROVE CountsAgree'
  OBVIOUS
<1> USE ChallengeAssumption DEF CountsAgree, Live, codeVars
<1>0. DOMAIN challenges = 1..Len(challenges) /\ 1..Len(challenges) \subseteq Number
  BY DEF Shapes, Number
<1>1. CASE CodeAskedFor \/ ResendPressed
  BY <1>1 DEF CodeAskedFor, ResendPressed, AsksForCode
<1>2. CASE CountdownOver \/ VerifyReloaded
  BY <1>2 DEF CountdownOver, VerifyReloaded
<1>3. ASSUME NEW a \in codeAsks, ChallengeIssued(a) PROVE CountsAgree'
  BY <1>3, <1>0 DEF ChallengeIssued, Fresh, Shapes, Try, Number
<1>4. ASSUME NEW a \in codeAsks, CodeAnswered(a) \/ CodeRefused(a) PROVE CountsAgree'
  BY <1>4 DEF CodeAnswered, CodeRefused
<1>5. ASSUME NEW n \in DOMAIN challenges, MailArrives(n) PROVE CountsAgree'
  BY <1>5 DEF MailArrives
<1>6. ASSUME NEW c \in 0..Len(challenges), CodeEntered(c) PROVE CountsAgree'
  BY <1>6 DEF CodeEntered, CodeSubmitted
<1>7. ASSUME NEW n \in DOMAIN challenges, NEW c \in 0..Len(challenges), LinkOpened(n, c)
      PROVE CountsAgree'
  BY <1>7 DEF LinkOpened, CodeSubmitted
<1>8. ASSUME NEW t \in tries, AttemptSpent(t) PROVE CountsAgree'
  BY <1>8 DEF AttemptSpent, Becomes, Shapes, Try
<1>9. ASSUME NEW t \in tries, VerifyUndone(t) PROVE CountsAgree'
  BY <1>9 DEF VerifyUndone, Becomes, Shapes, Try
<1>10. ASSUME NEW t \in tries, WrongCode(t) PROVE CountsAgree'
  <2>1. t.token \in DOMAIN challenges /\ t.token \in Number /\ challenges[t.token] \in Challenge
    BY <1>0 DEF Shapes, Try
  <2>2. ~challenges[t.token].consumed /\ challenges[t.token].attempts < MaxAttempts
    BY <1>10 DEF WrongCode
  <2>3. /\ DOMAIN challenges' = DOMAIN challenges
        /\ \A n \in DOMAIN challenges \ {t.token} : challenges'[n] = challenges[n]
        /\ challenges'[t.token].attempts = challenges[t.token].attempts + 1
        /\ challenges'[t.token].consumed = FALSE
    BY <1>10, <2>1, <2>2 DEF WrongCode, Spends, Challenge
  <2>4. /\ \A n \in Number \ {t.token} : guesses'[n] = guesses[n] /\ redeemed'[n] = redeemed[n]
        /\ guesses'[t.token] = guesses[t.token] + 1
        /\ redeemed'[t.token] = redeemed[t.token] + 0
    BY <1>10, <2>1 DEF WrongCode, Shapes
  <2>5. \A u \in tries' : u.stage = "spent" => u \in tries /\ u # t
    BY <1>10 DEF WrongCode, Becomes, Shapes, Try
  <2>6. \A n \in DOMAIN challenges' :
           /\ challenges'[n].attempts = guesses'[n] + redeemed'[n]
           /\ challenges'[n].attempts <= MaxAttempts
           /\ redeemed'[n] = IF challenges'[n].consumed THEN 1 ELSE 0
    <3> SUFFICES ASSUME NEW n \in DOMAIN challenges
                 PROVE /\ challenges'[n].attempts = guesses'[n] + redeemed'[n]
                       /\ challenges'[n].attempts <= MaxAttempts
                       /\ redeemed'[n] = IF challenges'[n].consumed THEN 1 ELSE 0
      BY <2>3
    <3>1. challenges[n] \in Challenge /\ n \in Number /\ guesses[n] \in Nat /\ redeemed[n] \in Nat
      BY <1>0 DEF Shapes
    <3>2. CASE n = t.token
      BY <2>2, <2>3, <2>4, <3>1, <3>2 DEF Challenge
    <3>3. CASE n # t.token
      BY <2>3, <2>4, <3>1, <3>3
    <3>4. QED
      BY <3>2, <3>3
  <2>7. \A u \in tries' : u.stage = "spent" => Live(u.token)'
    <3> SUFFICES ASSUME NEW u \in tries', u.stage = "spent" PROVE Live(u.token)'
      OBVIOUS
    <3>1. u \in tries /\ u # t /\ u.token # t.token /\ u.token \in DOMAIN challenges
      BY <1>0, <1>10, <2>5 DEF WrongCode, Shapes, Try
    <3>2. QED
      BY <2>3, <3>1
  <2>8. \A n \in Number \ DOMAIN challenges' : guesses'[n] = 0 /\ redeemed'[n] = 0
    BY <2>1, <2>3, <2>4
  <2>9. \A u, v \in tries' :
           u.stage = "spent" /\ v.stage = "spent" /\ u.token = v.token => u = v
    BY <2>5
  <2>10. QED
    BY <2>6, <2>7, <2>8, <2>9
<1>11. ASSUME NEW t \in tries, RightCode(t) PROVE CountsAgree'
  <2>1. t.token \in DOMAIN challenges /\ t.token \in Number /\ challenges[t.token] \in Challenge
    BY <1>0 DEF Shapes, Try
  <2>2. ~challenges[t.token].consumed /\ challenges[t.token].attempts < MaxAttempts
    BY <1>11 DEF RightCode
  <2>3. /\ DOMAIN challenges' = DOMAIN challenges
        /\ \A n \in DOMAIN challenges \ {t.token} : challenges'[n] = challenges[n]
        /\ challenges'[t.token].attempts = challenges[t.token].attempts + 1
        /\ challenges'[t.token].consumed = TRUE
    BY <1>11, <2>1, <2>2 DEF RightCode, Challenge
  <2>4. /\ \A n \in Number \ {t.token} : guesses'[n] = guesses[n] /\ redeemed'[n] = redeemed[n]
        /\ guesses'[t.token] = guesses[t.token] + 0
        /\ redeemed'[t.token] = redeemed[t.token] + 1
    BY <1>11, <2>1 DEF RightCode, Shapes
  <2>5. \A u \in tries' : u.stage = "spent" => u \in tries /\ u # t
    BY <1>11 DEF RightCode, Becomes, Shapes, Try
  <2>6. \A n \in DOMAIN challenges' :
           /\ challenges'[n].attempts = guesses'[n] + redeemed'[n]
           /\ challenges'[n].attempts <= MaxAttempts
           /\ redeemed'[n] = IF challenges'[n].consumed THEN 1 ELSE 0
    <3> SUFFICES ASSUME NEW n \in DOMAIN challenges
                 PROVE /\ challenges'[n].attempts = guesses'[n] + redeemed'[n]
                       /\ challenges'[n].attempts <= MaxAttempts
                       /\ redeemed'[n] = IF challenges'[n].consumed THEN 1 ELSE 0
      BY <2>3
    <3>1. challenges[n] \in Challenge /\ n \in Number /\ guesses[n] \in Nat /\ redeemed[n] \in Nat
      BY <1>0 DEF Shapes
    <3>2. CASE n = t.token
      BY <2>2, <2>3, <2>4, <3>1, <3>2 DEF Challenge
    <3>3. CASE n # t.token
      BY <2>3, <2>4, <3>1, <3>3
    <3>4. QED
      BY <3>2, <3>3
  <2>7. \A u \in tries' : u.stage = "spent" => Live(u.token)'
    <3> SUFFICES ASSUME NEW u \in tries', u.stage = "spent" PROVE Live(u.token)'
      OBVIOUS
    <3>1. u \in tries /\ u # t /\ u.token # t.token /\ u.token \in DOMAIN challenges
      BY <1>0, <1>11, <2>5 DEF RightCode, Shapes, Try
    <3>2. QED
      BY <2>3, <3>1
  <2>8. \A n \in Number \ DOMAIN challenges' : guesses'[n] = 0 /\ redeemed'[n] = 0
    BY <2>1, <2>3, <2>4
  <2>9. \A u, v \in tries' :
           u.stage = "spent" /\ v.stage = "spent" /\ u.token = v.token => u = v
    BY <2>5
  <2>10. QED
    BY <2>6, <2>7, <2>8, <2>9
<1>12. ASSUME NEW t \in tries, TryAnswered(t) PROVE CountsAgree'
  BY <1>12 DEF TryAnswered
<1>13. CASE UNCHANGED signInVars
  BY <1>13 DEF signInVars
<1>14. QED
  BY <1>1, <1>2, <1>3, <1>4, <1>5, <1>6, <1>7, <1>8, <1>9, <1>10, <1>11, <1>12, <1>13
     DEF SignInNext

(* A challenge answers at most MaxAttempts codes and opens one session, however the
   requests of two devices overlap, are undone or lose their answers. *)
THEOREM CodesAreCounted == SignInSpec => []AttemptsAreCounted
<1>1. Shapes /\ CountsAgree => AttemptsAreCounted
  <2> SUFFICES ASSUME Shapes, CountsAgree, NEW n \in Number
               PROVE guesses[n] + redeemed[n] <= MaxAttempts /\ redeemed[n] <= 1
    BY DEF AttemptsAreCounted
  <2>1. CASE n \in DOMAIN challenges
    BY <2>1, ChallengeAssumption DEF Shapes, CountsAgree
  <2>2. CASE n \notin DOMAIN challenges
    BY <2>2, ChallengeAssumption DEF CountsAgree
  <2>3. QED
    BY <2>1, <2>2
<1>2. QED
  BY <1>1, InitCounts, NextShapes, NextCounts, PTL DEF SignInSpec

(* Unless two asks were out together or an answer was lost, one ask is out at most; *)
(* what it issued is the newest challenge, and with none issued the cookie is.      *)
AskIsNewest ==
    ~asksCrossed =>
        /\ \A a, b \in codeAsks : a = b
        /\ \A a \in codeAsks : a.issued # 0 => a.issued = Len(challenges)
        /\ screen # "in" /\ (\A a \in codeAsks : a.issued = 0) => cookie = Len(challenges)

(* Each of a sign-in's steps keeps it so. *)
LEMMA AskStaysNewest == Shapes /\ AskIsNewest /\ [SignInNext]_signInVars => AskIsNewest'
<1> SUFFICES ASSUME Shapes, AskIsNewest, [SignInNext]_signInVars PROVE AskIsNewest'
  OBVIOUS
<1>0. Shapes'
  BY NextShapes
<1>2. ASSUME NEW a, a.issued = 0, AsksForCode(a) PROVE AskIsNewest'
  <2>1. UNCHANGED <<challenges, cookie, screen>> /\ codeAsks' = codeAsks \cup {a}
        /\ asksCrossed' = (asksCrossed \/ codeAsks # {})
    BY <1>2 DEF AsksForCode
  <2>2. ~asksCrossed' => ~asksCrossed /\ codeAsks = {}
    BY <2>1
  <2>. QED
    BY <1>2, <2>1, <2>2 DEF AskIsNewest
<1>3. CASE CodeAskedFor
  BY <1>2, <1>3 DEF CodeAskedFor
<1>4. CASE ResendPressed
  <2>1. PICK k \in {1, 2} : AsksForCode([by |-> k, issued |-> 0])
    BY <1>4 DEF ResendPressed
  <2>. QED
    BY <1>2, <2>1
<1>5. CASE CountdownOver \/ VerifyReloaded \/ UNCHANGED signInVars
  BY <1>5 DEF CountdownOver, VerifyReloaded, signInVars, codeVars, AskIsNewest
<1>6. ASSUME NEW a \in codeAsks, ChallengeIssued(a) PROVE AskIsNewest'
  <2> DEFINE one == [a EXCEPT !.issued = Len(challenges) + 1]
  <2>1. Len(challenges) \in Nat /\ one.issued = Len(challenges) + 1
    BY DEF Shapes, CodeAsk
  <2>2. codeAsks' = (codeAsks \ {a}) \cup {one} /\ UNCHANGED <<asksCrossed, cookie, screen>>
        /\ challenges' = Append(challenges, Fresh)
    BY <1>6 DEF ChallengeIssued
  <2>3. Len(challenges') = Len(challenges) + 1
    BY <2>2 DEF Shapes
  <2> HIDE DEF one
  <2>4. ~asksCrossed => codeAsks' = {one}
    BY <1>6, <2>2 DEF AskIsNewest
  <2>. QED
    BY <2>1, <2>2, <2>3, <2>4 DEF AskIsNewest
<1>7. ASSUME NEW a \in codeAsks, CodeAnswered(a) PROVE AskIsNewest'
  <2>1. codeAsks' = codeAsks \ {a} /\ cookie' = a.issued /\ a.issued # 0
        /\ UNCHANGED <<asksCrossed, challenges>>
    BY <1>7 DEF CodeAnswered
  <2>. QED
    BY <1>7, <2>1 DEF AskIsNewest
<1>8. ASSUME NEW a \in codeAsks, CodeRefused(a) PROVE AskIsNewest'
  <2>1. codeAsks' = codeAsks \ {a} /\ UNCHANGED <<cookie, screen, challenges>>
        /\ (~asksCrossed' => ~asksCrossed /\ a.issued = 0)
    BY <1>8 DEF CodeRefused
  <2>. QED
    BY <1>8, <2>1 DEF AskIsNewest
<1>9. ASSUME NEW n \in DOMAIN challenges, MailArrives(n) PROVE AskIsNewest'
  BY <1>9 DEF MailArrives, AskIsNewest
<1>10. ASSUME NEW n, NEW c, CodeEntered(c) \/ LinkOpened(n, c) PROVE AskIsNewest'
  BY <1>10 DEF CodeEntered, LinkOpened, CodeSubmitted, codeVars, AskIsNewest
<1>11. ASSUME NEW t \in tries, AttemptSpent(t) \/ VerifyUndone(t) PROVE AskIsNewest'
  BY <1>11 DEF AttemptSpent, VerifyUndone, codeVars, AskIsNewest
<1>12. ASSUME NEW t \in tries, WrongCode(t) \/ RightCode(t) PROVE AskIsNewest'
  <2>1. UNCHANGED <<codeAsks, asksCrossed, cookie, screen>>
    BY <1>12 DEF WrongCode, RightCode
  <2>2. DOMAIN challenges' = DOMAIN challenges
    BY <1>12 DEF WrongCode, RightCode, Spends
  <2>3. Len(challenges') = Len(challenges)
    <3>1. DOMAIN challenges = 1..Len(challenges) /\ Len(challenges) \in Nat
      BY DEF Shapes
    <3>2. DOMAIN challenges' = 1..Len(challenges') /\ Len(challenges') \in Nat
      BY <1>0 DEF Shapes
    <3>. QED
      BY <2>2, <3>1, <3>2
  <2>. QED
    BY <2>1, <2>3 DEF AskIsNewest
<1>13. ASSUME NEW t \in tries, TryAnswered(t) PROVE AskIsNewest'
  <2>1. UNCHANGED <<challenges, codeAsks, asksCrossed>>
        /\ (UNCHANGED <<screen, cookie>> \/ screen' = "in")
    BY <1>13 DEF TryAnswered
  <2>. QED
    BY <2>1 DEF AskIsNewest
<1>. QED
  BY <1>3, <1>4, <1>5, <1>6, <1>7, <1>8, <1>9, <1>10, <1>11, <1>12, <1>13 DEF SignInNext

(* The cookie the screen submits a code with is the newest challenge's, unless an answer
   was lost or two requests were out together (app/pilot/verify). *)
THEOREM NewestCodeIsHeld == SignInSpec => []NewestCodeFits
<1>1. SignInInit => Shapes /\ AskIsNewest
  <2>1. SignInInit => AskIsNewest
    BY DEF SignInInit, AskIsNewest
  <2>. QED
    BY <2>1, InitCounts
<1>2. Shapes /\ AskIsNewest => NewestCodeFits
  BY DEF AskIsNewest, NewestCodeFits
<1>. QED
  BY <1>1, <1>2, NextShapes, AskStaysNewest, PTL DEF SignInSpec

-----------------------------------------------------------------------------
InvStates == {"unused", "pending", "live", "expired", "revoked", "accepted", "failed"}

Doing == [what : {"none", "revoking", "checked", "sent"}, old : Link \cup {NoLink},
          new : Link \cup {NoLink}]

InviteShapes ==
    /\ inv \in [Link -> InvStates] /\ rowHolder \in [Link -> {NobodyHolds, "admin", "tab"}]
    /\ doing \in [Admin -> Doing]
    /\ acceptTab \in [Tab -> [at : {"form", "out", "consumed", "issued"}, link : Link \cup {NoLink}]]
    /\ members \in Nat /\ mailed \subseteq Link /\ cancelled \subseteq Link

InUse(n) == inv[n] \in {"live", "expired"}

(* An administrator's request holds the row it replaces while that is in use, and shares
   it with no other. *)
OldRowsAreHeld ==
    /\ \A a \in Admin : /\ doing[a].what # "sent" => doing[a].new = NoLink
                        /\ doing[a].what = "none" => doing[a].old = NoLink
                        /\ doing[a].old # NoLink => inv[doing[a].old] \in {"live", "expired", "revoked"}
                        /\ doing[a].old # NoLink /\ InUse(doing[a].old) => rowHolder[doing[a].old] = "admin"
    /\ \A a, b \in Admin : a # b /\ doing[a].old = doing[b].old /\ doing[a].old # NoLink
                          => ~InUse(doing[a].old)

(* Between its insert and its commit a request holds every row in use, alone. *)
SentIsAlone ==
    \A a \in Admin : doing[a].what = "sent" =>
       /\ doing[a].new \in Link /\ inv[doing[a].new] = "pending"
       /\ \A n \in Link : /\ InUse(n) => rowHolder[n] = "admin"
                          /\ inv[n] = "live" => n = doing[a].old
       /\ \A b \in Admin \ {a} : /\ doing[b].what # "sent"
                                 /\ doing[b].old # NoLink => ~InUse(doing[b].old)

(* A tab that has consumed a link holds its row, alone. *)
TabsHoldTheirs ==
    /\ \A t \in Tab : acceptTab[t].at = "out" => acceptTab[t].link \in Link
    /\ \A t \in Tab : acceptTab[t].at = "consumed" =>
          acceptTab[t].link \in Link /\ InUse(acceptTab[t].link) /\ rowHolder[acceptTab[t].link] = "tab"
    /\ \A t, u \in Tab : /\ acceptTab[t].at = "consumed" /\ acceptTab[u].at = "consumed"
                         /\ acceptTab[t].link = acceptTab[u].link
                         => t = u

(* What the property says, in the form its steps keep. *)
OneOfEach ==
    /\ members <= 1
    /\ \A m, n \in Link : inv[m] = "live" /\ inv[n] = "live" => m = n
    /\ \A n \in cancelled : inv[n] = "revoked"

RowsAreHeld == InviteShapes /\ OldRowsAreHeld /\ SentIsAlone /\ TabsHoldTheirs /\ OneOfEach

(* A request that has written its row is still a request. *)
LEMMA SentIsDoing ==
  ASSUME NEW d \in Doing, NEW n \in Link
  PROVE  [d EXCEPT !.what = "sent", !.new = n] \in Doing
  BY DEF Doing

(* Nobody has been invited. *)
LEMMA InitRows == InvitationsInit => RowsAreHeld
  BY InvitationAssumption
     DEF InvitationsInit, RowsAreHeld, InviteShapes, OldRowsAreHeld, SentIsAlone, TabsHoldTheirs,
         OneOfEach, InUse, InvStates, Doing, Idle, NoLink, NobodyHolds, Link

(* Each step of a transaction keeps who holds what. *)
LEMMA NextRows == RowsAreHeld /\ [InvitationsNext]_inviteVars => RowsAreHeld'
<1> SUFFICES ASSUME RowsAreHeld, [InvitationsNext]_inviteVars PROVE RowsAreHeld'
  OBVIOUS
<1>0. NoLink \notin Link
  BY DEF NoLink, Link
<1> USE <1>0, InvitationAssumption
    DEF RowsAreHeld, InviteShapes, OldRowsAreHeld, SentIsAlone, TabsHoldTheirs, OneOfEach, InUse,
        InvStates, Doing, Idle, NobodyHolds
<1>1. ASSUME NEW a \in Admin, InviteChecks(a) PROVE RowsAreHeld'
  BY <1>1 DEF InviteChecks
<1>2. ASSUME NEW a \in Admin, NEW n \in Link, ResendRevokes(a, n) PROVE RowsAreHeld'
  BY <1>2 DEF ResendRevokes
<1>3. ASSUME NEW a \in Admin, ResendChecks(a) PROVE RowsAreHeld'
  BY <1>3 DEF ResendChecks
<1>4. ASSUME NEW a \in Admin, NEW n \in Link, InviteInserts(a, n) PROVE RowsAreHeld'
  <2>1. InviteShapes'
    <3>1. doing' \in [Admin -> Doing]
      <4>1. doing[a] \in Doing
        OBVIOUS
      <4>2. [doing[a] EXCEPT !.what = "sent", !.new = n] \in Doing
        BY <4>1, SentIsDoing
      <4>3. QED
        BY <1>4, <4>2 DEF InviteInserts
    <3>2. inv' \in [Link -> InvStates] /\ rowHolder' \in [Link -> {NobodyHolds, "admin", "tab"}]
      BY <1>4 DEF InviteInserts
    <3>3. QED
      BY <1>4, <3>1, <3>2 DEF InviteInserts
  <2>2. OldRowsAreHeld'
    BY <1>4 DEF InviteInserts, Uncommitted, Occupied
  <2>3. SentIsAlone'
    BY <1>4 DEF InviteInserts, Uncommitted, Occupied
  <2>4. TabsHoldTheirs'
    BY <1>4 DEF InviteInserts, Uncommitted, Occupied
  <2>5. OneOfEach'
    BY <1>4 DEF InviteInserts, Uncommitted, Occupied
  <2>6. QED
    BY <2>1, <2>2, <2>3, <2>4, <2>5
<1>5. ASSUME NEW a \in Admin, InviteCommits(a) PROVE RowsAreHeld'
  <2>1. InviteShapes'
    BY <1>5 DEF InviteCommits, Withdrawn
  <2>2. OldRowsAreHeld'
    BY <1>5 DEF InviteCommits, Withdrawn
  <2>3. SentIsAlone'
    BY <1>5 DEF InviteCommits, Withdrawn
  <2>4. TabsHoldTheirs'
    BY <1>5 DEF InviteCommits, Withdrawn
  <2>5. OneOfEach'
    BY <1>5 DEF InviteCommits, Withdrawn
  <2>6. QED
    BY <2>1, <2>2, <2>3, <2>4, <2>5
<1>6. ASSUME NEW a \in Admin, AdminFails(a) PROVE RowsAreHeld'
  BY <1>6 DEF AdminFails
<1>7. ASSUME NEW a \in Admin, NEW n \in Link, InvitationRevoked(a, n) PROVE RowsAreHeld'
  BY <1>7 DEF InvitationRevoked
<1>8. ASSUME NEW n \in Link, Expires(n) PROVE RowsAreHeld'
  BY <1>8 DEF Expires
<1>9. ASSUME NEW t \in Tab, NEW n \in Link, LinkSubmitted(t, n) PROVE RowsAreHeld'
  BY <1>9 DEF LinkSubmitted
<1>10. ASSUME NEW t \in Tab, Consumes(t) PROVE RowsAreHeld'
  <2>1. InviteShapes'
    BY <1>10 DEF Consumes, Consumable
  <2>2. OldRowsAreHeld'
    BY <1>10 DEF Consumes, Consumable
  <2>3. SentIsAlone'
    BY <1>10 DEF Consumes, Consumable
  <2>4. TabsHoldTheirs'
    BY <1>10 DEF Consumes, Consumable
  <2>5. OneOfEach'
    BY <1>10 DEF Consumes, Consumable
  <2>6. QED
    BY <2>1, <2>2, <2>3, <2>4, <2>5
<1>11. ASSUME NEW t \in Tab, Joins(t) PROVE RowsAreHeld'
  <2>1. InviteShapes'
    BY <1>11 DEF Joins, RoomForMember
  <2>2. OldRowsAreHeld'
    BY <1>11 DEF Joins, RoomForMember
  <2>3. SentIsAlone'
    BY <1>11 DEF Joins, RoomForMember
  <2>4. TabsHoldTheirs'
    <3>1. /\ acceptTab'[t].at \in {"issued", "form"}
          /\ \A u \in Tab \ {t} : acceptTab'[u] = acceptTab[u]
      BY <1>11 DEF Joins
    <3>2. \A n \in Link \ {acceptTab[t].link} : inv'[n] = inv[n] /\ rowHolder'[n] = rowHolder[n]
      BY <1>11 DEF Joins
    <3>3. acceptTab[t].at = "consumed"
      BY <1>11 DEF Joins
    <3>4. QED
      BY <3>1, <3>2, <3>3
  <2>5. OneOfEach'
    BY <1>11 DEF Joins, RoomForMember
  <2>6. QED
    BY <2>1, <2>2, <2>3, <2>4, <2>5
<1>12. CASE UNCHANGED inviteVars
  BY <1>12 DEF inviteVars
<1>13. QED
  BY <1>1, <1>2, <1>3, <1>4, <1>5, <1>6, <1>7, <1>8, <1>9, <1>10, <1>11, <1>12 DEF InvitationsNext

(* An address has one active user and one link that can be accepted, and no link an
   administrator withdrew has made the member, however invitations, resends and links
   opened twice overlap. *)
THEOREM OneMemberOnly == InvitationsSpec => []OneMember
<1>1. RowsAreHeld => OneMember
  <2> SUFFICES ASSUME RowsAreHeld PROVE OneMember
    OBVIOUS
  <2> DEFINE Lives == {n \in Link : inv[n] = "live"}
  <2>1. Cardinality(Lives) <= 1
    <3>1. CASE Lives = {}
      BY <3>1, FS_EmptySet
    <3>2. ASSUME NEW n \in Link, Lives = {n} PROVE Cardinality(Lives) <= 1
      <4>1. Cardinality({n}) = 1
        BY FS_Singleton
      <4>2. QED
        BY <3>2, <4>1
    <3>3. Lives = {} \/ \E n \in Link : Lives = {n}
      BY DEF RowsAreHeld, OneOfEach
    <3>4. QED
      BY <3>1, <3>2, <3>3
  <2>2. QED
    BY <2>1 DEF RowsAreHeld, OneOfEach, OneMember
<1>2. QED
  BY <1>1, InitRows, NextRows, PTL DEF InvitationsSpec
=============================================================================
