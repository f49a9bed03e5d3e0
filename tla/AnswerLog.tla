------------------------------ MODULE AnswerLog -----------------------------
(*******************************************************************************)
(* The answers under Ask JUTSU's box: their cards and source panels            *)
(* (AnswerCard in components/product/ask-experience.tsx).                      *)
(*                                                                             *)
(* React keeps a card's state by its key, index and question.  A new answer    *)
(* goes to the front, so every other card moves one place down, loses its      *)
(* state, and fetches its sources again when opened.                           *)
(*                                                                             *)
(* The second part is the sources of a copilot's answer, which are kept by the *)
(* answer's own id.                                                            *)
(*******************************************************************************)
EXTENDS Naturals, Sequences

CONSTANTS
    Question, NoQuestionOut,
    Chunk,           \* the evidence spans an answer may cite
    MaxAnswers       \* bound on the answers of one visit

ASSUME AnswerLogAssumption == NoQuestionOut \notin Question /\ MaxAnswers \in Nat

VARIABLES
    questionOut,     \* the question being answered
    thread,          \* the answers, newest first: question and the chunk cited
    cards            \* cards[i]: the state React keeps for the i-th card

logVars == <<questionOut, thread, cards>>

(* source[c] is the span's state; requested holds the spans that have one. *)
FreshCard == [open |-> FALSE, source |-> [c \in Chunk |-> "none"]]
CitedChunk(i) == thread[i].chunk

LogInit == questionOut = NoQuestionOut /\ thread = <<>> /\ cards = <<>>

Submits(q) ==
    /\ questionOut = NoQuestionOut /\ Len(thread) < MaxAnswers
    /\ questionOut' = q
    /\ UNCHANGED <<thread, cards>>

(* A defect: the key is the place alone. *)
RekeyedByPlace(log) == [i \in 1..Len(log) |-> IF i <= Len(thread) THEN cards[i] ELSE FreshCard]

(* The i-th card before and after is one instance iff its question is the same. *)
Rekeyed(log) ==
    [i \in 1..Len(log) |->
        IF i <= Len(thread) /\ thread[i].question = log[i].question THEN cards[i] ELSE FreshCard]

Answered(c) ==
    /\ questionOut # NoQuestionOut /\ questionOut' = NoQuestionOut
    /\ LET log == <<[question |-> questionOut, chunk |-> c]>> \o thread
       IN thread' = log /\ cards' = Rekeyed(log)

Unanswered == questionOut # NoQuestionOut /\ questionOut' = NoQuestionOut /\ UNCHANGED <<thread, cards>>

(* A marker or its row opens the panel, and asks for the span if nobody has. *)
OpensSource(i) ==
    /\ i \in 1..Len(thread)
    /\ cards' = [cards EXCEPT ![i].open = TRUE,
                              ![i].source[CitedChunk(i)] = IF @ = "none" THEN "loading" ELSE @]
    /\ UNCHANGED <<questionOut, thread>>

HidesSource(i) ==
    /\ i \in 1..Len(thread) /\ cards[i].open
    /\ cards' = [cards EXCEPT ![i].open = FALSE]
    /\ UNCHANGED <<questionOut, thread>>

RetriesSource(i) ==
    /\ i \in 1..Len(thread) /\ cards[i].open /\ cards[i].source[CitedChunk(i)] = "failed"
    /\ cards' = [cards EXCEPT ![i].source[CitedChunk(i)] = "loading"]
    /\ UNCHANGED <<questionOut, thread>>

(* The answer to a card that is no longer mounted changes nothing. *)
SourceArrives(i, c) ==
    /\ i \in 1..Len(thread) /\ cards[i].source[c] = "loading"
    /\ \E s \in {"ready", "failed"} : cards' = [cards EXCEPT ![i].source[c] = s]
    /\ UNCHANGED <<questionOut, thread>>

LogNext ==
    \/ \E q \in Question : Submits(q)
    \/ \E c \in Chunk : Answered(c)
    \/ Unanswered
    \/ \E i \in 1..MaxAnswers :
        \/ OpensSource(i) \/ HidesSource(i) \/ RetriesSource(i)
        \/ \E c \in Chunk : SourceArrives(i, c)

LogSpec == LogInit /\ [][LogNext]_logVars

-----------------------------------------------------------------------------
LogTypeOK ==
    /\ questionOut \in Question \cup {NoQuestionOut}
    /\ Len(thread) <= MaxAnswers /\ Len(cards) = Len(thread)
    /\ \A i \in 1..Len(thread) :
        /\ thread[i] \in [question : Question, chunk : Chunk]
        /\ cards[i].open \in BOOLEAN
        /\ cards[i].source \in [Chunk -> {"none", "loading", "ready", "failed"}]

(* An open panel has asked for the span it is about: only a question asked again *)
(* right after itself can leave one blank, its card inherited from the older     *)
(* answer, which cited something else under the same marker.                     *)
OpenPanelHasAsked ==
    \A i \in 1..Len(thread) :
        (cards[i].open /\ cards[i].source[CitedChunk(i)] = "none")
            => i < Len(thread) /\ thread[i + 1].question = thread[i].question

-----------------------------------------------------------------------------
(********************************************************************************)
(* The sources of one answer of a package's copilot (Citation in                *)
(* components/kt/kt-copilot.tsx, kt_evidence in kt.py).  The answer is shown as *)
(* it was returned, then as the conversation is re-read, under one id; each     *)
(* re-read says again which of its sources are still inside the package.        *)
(********************************************************************************)
VARIABLES
    citable,         \* the cited passages the package serves: none once it is closed
    turnShown,       \* "never", on screen as "local" or "stored", or left "uncached" or "cached"
    citedOffers,        \* the citations whose `available` is set
    rereading,       \* the conversation query in flight, with the passages it found: one at most
    panels,          \* panels[c]: the state React keeps for a citation on screen
    openedHere       \* history: the sources that were answered to this showing of the turn

citationVars == <<citable, turnShown, citedOffers, rereading, panels, openedHere>>

ClosedPanel == [text |-> FALSE, loading |-> FALSE, failure |-> FALSE, call |-> "none"]
AllClosed == [c \in Chunk |-> ClosedPanel]
TurnOnScreen == turnShown \in {"local", "stored"}

CitationsInit ==
    /\ citable = Chunk /\ turnShown = "never" /\ citedOffers = {} /\ rereading = <<>>
    /\ panels = AllClosed /\ openedHere = {}

(* Freshly retrieved, so every source is inside the package. *)
TurnReturned ==
    /\ turnShown = "never" /\ turnShown' = "local" /\ citedOffers' = citable
    /\ UNCHANGED <<citable, rereading, panels, openedHere>>

TurnReread ==
    /\ turnShown # "never" /\ rereading = <<>> /\ rereading' = <<citable>>
    /\ UNCHANGED <<citable, turnShown, citedOffers, panels, openedHere>>

(* The stored turn takes the local one's place and its state; a read that failed *)
(* leaves the turn it had.  A reader who went elsewhere finds it in the cache.   *)
RereadArrives ==
    /\ rereading # <<>> /\ rereading' = <<>>
    /\ \/ /\ citedOffers' = rereading[1]
          /\ turnShown' = IF TurnOnScreen THEN "stored" ELSE "cached"
       \/ UNCHANGED <<citedOffers, turnShown>>
    /\ UNCHANGED <<citable, panels, openedHere>>

(* Another conversation is opened, and this one again: its panels start closed. *)
TurnLeft ==
    /\ TurnOnScreen /\ turnShown' = (IF turnShown = "local" THEN "uncached" ELSE "cached")
    /\ panels' = AllClosed /\ openedHere' = {}
    /\ UNCHANGED <<citable, citedOffers, rereading>>

TurnReopened ==
    /\ turnShown = "cached" /\ turnShown' = "stored"
    /\ UNCHANGED <<citable, citedOffers, rereading, panels, openedHere>>

(* A document superseded, kept back or out of the period; the package closed. *)
CitableChanges ==
    /\ citable' \in SUBSET citable \ {citable}
    /\ UNCHANGED <<turnShown, citedOffers, rereading, panels, openedHere>>

OpensCitation(c) ==
    /\ TurnOnScreen /\ c \in citedOffers /\ ~panels[c].text /\ ~panels[c].loading
    /\ panels' = [panels EXCEPT ![c] = [ClosedPanel EXCEPT !.loading = TRUE, !.call = "out"]]
    /\ UNCHANGED <<citable, turnShown, citedOffers, rereading, openedHere>>

EvidenceServed(c) ==
    /\ panels[c].call = "out"
    /\ panels' = [panels EXCEPT ![c].call = IF c \in citable THEN "text" ELSE "absent"]
    /\ UNCHANGED <<citable, turnShown, citedOffers, rereading, openedHere>>

(* `finally` ends the spinner whatever the call came to.  The answer to a citation *)
(* that is no longer mounted changes nothing.                                      *)
EvidenceArrives(c) ==
    /\ panels[c].call # "none"
    /\ \E came \in {panels[c].call = "text", FALSE} :
        /\ panels' = [panels EXCEPT ![c] = [ClosedPanel EXCEPT !.text = came, !.failure = ~came]]
        /\ openedHere' = IF came THEN openedHere \cup {c} ELSE openedHere
    /\ UNCHANGED <<citable, turnShown, citedOffers, rereading>>

CitationsNext ==
    \/ TurnReturned \/ TurnReread \/ RereadArrives \/ TurnLeft \/ TurnReopened \/ CitableChanges
    \/ \E c \in Chunk : OpensCitation(c) \/ EvidenceServed(c) \/ EvidenceArrives(c)

CitationsSpec == CitationsInit /\ [][CitationsNext]_citationVars

-----------------------------------------------------------------------------
CitationsTypeOK ==
    /\ citable \subseteq Chunk /\ citedOffers \subseteq Chunk /\ openedHere \subseteq Chunk
    /\ turnShown \in {"never", "local", "stored", "uncached", "cached"}
    /\ \A c \in Chunk : panels[c].call \in {"none", "out", "text", "absent"}

(* A source that was opened stays open for as long as its answer is on screen: neither *)
(* the re-read that takes the local turn's place nor one that withdraws the source     *)
(* closes it; and a spinner has its call behind it.                                    *)
OpenedStaysOpen ==
    \A c \in Chunk : /\ c \in openedHere => panels[c].text
                     /\ panels[c].loading <=> panels[c].call # "none"

(* An open source has been asked for, and one that was answered stays on screen with *)
(* its answer (ask-experience.tsx, kt-copilot.tsx).                                  *)
SourcesStay == OpenPanelHasAsked /\ OpenedStaysOpen
=============================================================================
