--------------------------------- MODULE Ask --------------------------------
(***************************************************************************)
(* The question box of Ask JUTSU (components/product/ask-experience.tsx):  *)
(* what is typed, what is dictated into it, and the question that is out.  *)
(* The answers below the box are module AnswerLog.                         *)
(***************************************************************************)
EXTENDS Voice

CONSTANTS
    Text,            \* what somebody may type
    NoText,
    MaxAsks          \* bound on the questions of one visit

ASSUME AskAssumption == NoText \notin Text /\ MaxAsks \in Nat

(* The box's content: typed words, and after them the words of a session. *)
Content == [typed : Text \cup {NoText}, spoken : SUBSET Session]
Empty == [typed |-> NoText, spoken |-> {}]
NoQuestion == [typed |-> NoText, spoken |-> {0}]

VARIABLES
    draft,           \* the box
    beforeVoice,     \* beforeVoiceRef: the box when the session began
    asked,           \* the question the mutation has out
    failed,          \* a failure is on screen
    answers          \* how many answers have arrived

askVars == <<draft, beforeVoice, asked, failed, answers>>
askAllVars == <<askVars, voiceVars>>

Pending == asked # NoQuestion

AskInit ==
    /\ VoiceInit
    /\ draft = Empty /\ beforeVoice = Empty
    /\ asked = NoQuestion /\ failed = FALSE
    /\ answers = 0

-----------------------------------------------------------------------------
(* The box. *)

Types(t) ==                          \* read-only while words are arriving
    /\ attached /\ ~Listening
    /\ draft' = [typed |-> t, spoken |-> {}]
    /\ UNCHANGED <<beforeVoice, asked, failed, answers, voiceVars>>

(* onStart takes the snapshot.  The button is disabled while a question is out; *)
(* the orb beside the box is not.                                               *)
Speaks(n) ==
    /\ VoiceStart(n)
    /\ beforeVoice' = draft
    /\ UNCHANGED <<draft, asked, failed, answers>>

(* A defect: the words replace what was typed. *)
HearsAlone(n) ==
    /\ EngineHears(n)
    /\ draft' = [typed |-> NoText, spoken |-> beforeVoice.spoken \cup {n}]
    /\ UNCHANGED <<beforeVoice, asked, failed, answers>>

(* onText: what the box held when the session began, then what was said. *)
Hears(n) ==
    /\ EngineHears(n)
    /\ draft' = [typed |-> beforeVoice.typed, spoken |-> beforeVoice.spoken \cup {n}]
    /\ UNCHANGED <<beforeVoice, asked, failed, answers>>

Escapes ==
    /\ VoiceCancel
    /\ draft' = beforeVoice
    /\ UNCHANGED <<beforeVoice, asked, failed, answers>>

(* The tab is hidden, the page left, the words end: the box keeps what it has. *)
VoiceMovesOn ==
    /\ \/ VoiceCancel \/ VoiceStop \/ CeilingFires
       \/ \E n \in Session : EngineStarts(n) \/ EngineEnds(n) \/ OrbAnswered(n)
    /\ UNCHANGED askVars

-----------------------------------------------------------------------------
(* The question.  submit cancels a session first, then asks if none is out: *)
(* the box's words, or those of a suggestion or of "Try again".             *)
Asks(q) ==
    /\ attached /\ q # Empty /\ ~Pending /\ answers < MaxAsks
    /\ asked' = q
    /\ IF rec # 0 THEN CancelEffect /\ UNCHANGED attached ELSE UNCHANGED voiceVars
    /\ UNCHANGED <<draft, beforeVoice, failed, answers>>

SubmitsBox == Asks(draft)
SubmitsSuggestion == answers = 0 /\ \E t \in Text : Asks([typed |-> t, spoken |-> {}])

AnswerArrives ==
    /\ Pending /\ asked' = NoQuestion
    /\ answers' = answers + 1
    /\ failed' = FALSE /\ draft' = Empty
    /\ UNCHANGED <<beforeVoice, voiceVars>>

QuestionFails ==
    /\ Pending /\ asked' = NoQuestion /\ failed' = TRUE
    /\ UNCHANGED <<draft, beforeVoice, answers, voiceVars>>

(* 503, not configured: the box becomes evidence search and detaches. *)
NotConfigured ==
    /\ Pending /\ asked' = NoQuestion
    /\ VoiceDetach
    /\ UNCHANGED <<draft, beforeVoice, failed, answers>>

AskNext ==
    \/ \E t \in Text \cup {NoText} : Types(t)
    \/ \E n \in Session : Speaks(n) \/ Hears(n)
    \/ Escapes \/ VoiceMovesOn
    \/ SubmitsBox \/ SubmitsSuggestion \/ AnswerArrives \/ QuestionFails \/ NotConfigured

(* The ceiling's timer fires and a recogniser that was told to stop ends. *)
AskFairness ==
    /\ WF_askAllVars(CeilingFires /\ UNCHANGED askVars)
    /\ \A n \in Session :
        WF_askAllVars(engine[n] = "stopping" /\ EngineEnds(n) /\ UNCHANGED askVars)

AskSpec == AskInit /\ [][AskNext]_askAllVars /\ AskFairness

-----------------------------------------------------------------------------
AskTypeOK ==
    /\ draft \in Content /\ beforeVoice \in Content
    /\ asked \in Content \cup {NoQuestion}
    /\ failed \in BOOLEAN
    /\ answers \in 0..MaxAsks

(* Dictation never takes a typed word out of the box nor brings one back, over *)
(* any interleaving of sessions, late results, Escape and answers: except when *)
(* an answer emptied the box in the middle of a session, after which the       *)
(* session's next result restores the words the answer had taken.              *)
DictationKeepsTyped ==
    [][(draft' # draft /\ draft # Empty /\ Listening /\ asked' = asked) => draft'.typed = draft.typed]_askAllVars

(* However it was started and whatever the person does, a session ends: the *)
(* ceiling stops it and the recogniser's end returns the hook to idle.      *)
SessionEnds == Listening ~> ~Listening
=============================================================================
