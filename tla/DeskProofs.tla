----------------------------- MODULE DeskProofs -----------------------------
(***************************************************************************)
(* Theorems of Basket, Voice, Ask, AnswerLog, SourceWalk, NightlySync and  *)
(* Embedding, for any files, sessions, texts, answers, documents, workers, *)
(* tasks, chunks, bounds and budget.                                       *)
(*                                                                         *)
(*   CorpusStaysRight       what is searchable was put in, not taken out   *)
(*   MicrophoneIsOne        no microphone outlives its session             *)
(*   BoxUsesVoice           the question box is a user of Voice: its steps *)
(*                          are steps of the hook                          *)
(*   DictationKeepsTheBox   dictation leaves typed words alone             *)
(*   SourcesAreKept         an open source has been asked for, and stays   *)
(*   CoverageHolds          what the cursor covers is read, or will be     *)
(*   NightIsSafe            one run a night, kept through kills, and rung  *)
(*   SpendingStaysHeld      the budget is kept but for what one semaphore  *)
(*                          lets out, nothing is paid twice, quota waits   *)
(***************************************************************************)
EXTENDS Basket, Ask, AnswerLog, SourceWalk, NightlySync, Embedding, FiniteSetTheorems,
        SequenceTheorems, WellFoundedInduction, TLAPS

-----------------------------------------------------------------------------
(* A file that is on its way, or was cancelled there: no reading, no text, and nothing
   on the page that could ask for one. *)
StillOut(f) ==
    /\ row[f] \in {"uploading", "deleted"} /\ job[f].state = "none" /\ ~grant[f]
    /\ list[f] \in {"none", "uploading"} /\ act[f] \in {"none", "remove"}

(* The type invariant, with what keeps a job's attempts within MaxReads. *)
BasketShape ==
    /\ BasketTypeOK
    /\ \A f \in File : job[f].state = "waiting" => job[f].attempts < MaxReads

(* What is known of a file at each step of its way. *)
FileFits(f) ==
    /\ upload[f] \in {"unpicked", "waiting", "ticket"} =>
          row[f] = "none" /\ list[f] = "none" /\ act[f] = "none" /\ ~grant[f]
    /\ upload[f] \in {"put", "complete"} \/ cancel[f] = "heard" => StillOut(f)
    /\ cancel[f] = "heard" => upload[f] = "gone"
    /\ row[f] \in {"none", "uploading"} => job[f].state = "none"
    /\ job[f].state \in {"waiting", "working", "failing", "dead"} =>
          row[f] \in {"uploaded", "failed", "deleted"}
    /\ row[f] = "deleted" => ~grant[f]
    /\ row[f] = "ready" => grant[f]

FilesFit == \A f \in File : FileFits(f)

(* Only the file a step is about changes: what another one knows, it keeps. *)
LEMMA FilesFitInit == BasketInit => FilesFit
<1> SUFFICES ASSUME BasketInit, NEW f \in File PROVE FileFits(f)
  BY DEF FilesFit
<1>1. /\ upload[f] = "unpicked" /\ cancel[f] = "none" /\ row[f] = "none" /\ ~grant[f]
      /\ list[f] = "none" /\ act[f] = "none" /\ job[f].state = "none"
  BY DEF BasketInit
<1>2. QED
  BY <1>1 DEF FileFits

LEMMA BasketTypes == BasketSpec => []BasketShape
<1>1. BasketInit => BasketShape
  BY BasketAssumption
     DEF BasketInit, BasketShape, BasketTypeOK, UploadSteps, RowStates, JobStates, RowActs
<1>2. BasketShape /\ [BasketNext]_basketVars => BasketShape'
  <2> SUFFICES ASSUME BasketShape, [BasketNext]_basketVars PROVE BasketShape'
    OBVIOUS
  <2> USE BasketAssumption
      DEF BasketShape, BasketTypeOK, UploadSteps, RowStates, JobStates, RowActs, browserVars,
          serverVars, pageVars
  <2>1. ASSUME NEW f \in File, NEW g \in File, AddFiles(f, g) PROVE BasketShape'
    BY <2>1 DEF AddFiles
  <2>2. ASSUME NEW f \in File, UploadStarts(f) PROVE BasketShape'
    BY <2>2 DEF UploadStarts
  <2>3. ASSUME NEW f \in File, TicketAnswered(f) PROVE BasketShape'
    <3>1. PICK reserved \in BOOLEAN, answered \in BOOLEAN :
            /\ row' = [row EXCEPT ![f] = IF reserved THEN "uploading" ELSE @]
            /\ upload' = [upload EXCEPT ![f] = IF answered THEN "put" ELSE "failed"]
      BY <2>3 DEF TicketAnswered
    <3>2. row' \in [File -> RowStates] /\ upload' \in [File -> UploadSteps]
      BY <3>1
    <3>3. QED
      BY <2>3, <3>2 DEF TicketAnswered
  <2>4. ASSUME NEW f \in File, PutEnds(f) PROVE BasketShape'
    BY <2>4 DEF PutEnds
  <2>5. ASSUME NEW f \in File, CompleteAnswered(f) PROVE BasketShape'
    <3>1. CASE UNCHANGED <<row, job>>
      BY <2>5, <3>1 DEF CompleteAnswered
    <3>2. ASSUME NEW verdict \in {"uploaded", "stored", "rejected"},
                 row' = [row EXCEPT ![f] = verdict],
                 job' = [job EXCEPT ![f] = IF verdict = "uploaded" THEN Enqueued(@) ELSE @],
                 upload' \in {[upload EXCEPT ![f] = s] : s \in {"gone", "failed"}}
          PROVE BasketShape'
      <4>1. Enqueued(job[f]) \in [state : JobStates, attempts : 0..MaxReads]
        BY DEF Enqueued
      <4>2. Enqueued(job[f]).state = "waiting" => Enqueued(job[f]).attempts < MaxReads
        BY DEF Enqueued
      <4>3. QED
        BY <2>5, <3>2, <4>1, <4>2 DEF CompleteAnswered
    <3>3. QED
      BY <2>5, <3>1, <3>2 DEF CompleteAnswered
  <2>6. ASSUME NEW f \in File, CancelUpload(f) PROVE BasketShape'
    BY <2>6 DEF CancelUpload
  <2>7. ASSUME NEW f \in File, ReadBegins(f) PROVE BasketShape'
    BY <2>7 DEF ReadBegins
  <2>8. ASSUME NEW f \in File, ReadCommits(f) PROVE BasketShape'
    <3>1. row' \in [File -> RowStates] /\ grant' \in [File -> BOOLEAN]
      BY <2>8 DEF ReadCommits
    <3>2. QED
      BY <2>8, <3>1 DEF ReadCommits
  <2>9. ASSUME NEW f \in File, ReadFails(f) PROVE BasketShape'
    BY <2>9 DEF ReadFails
  <2>10. ASSUME NEW f \in File, FailureRecorded(f) PROVE BasketShape'
    BY <2>10 DEF FailureRecorded, AfterAttempt
  <2>11. ASSUME NEW f \in File, ReaderDies(f) PROVE BasketShape'
    BY <2>11 DEF ReaderDies, AfterAttempt
  <2>12. CASE Refetch
    BY <2>12 DEF Refetch
  <2>13. ASSUME NEW f \in File, RemoveForGood(f) \/ TryAgain(f) PROVE BasketShape'
    BY <2>13 DEF RemoveForGood, TryAgain
  <2>14. ASSUME NEW f \in File, RemovalAnswered(f) PROVE BasketShape'
    BY <2>14 DEF RemovalAnswered
  <2>15. ASSUME NEW f \in File, RetryRead(f) PROVE BasketShape'
    BY <2>15 DEF RetryRead
  <2>16. ASSUME NEW f \in File, RetryWrites(f) PROVE BasketShape'
    <3>1. /\ Enqueued(job[f]) \in [state : JobStates, attempts : 0..MaxReads]
          /\ Enqueued(job[f]).state = "waiting" => Enqueued(job[f]).attempts < MaxReads
      BY DEF Enqueued
    <3>2. job' = job \/ job' = [job EXCEPT ![f] = Enqueued(@)]
      BY <2>16 DEF RetryWrites
    <3>3. row' = row \/ row' = [row EXCEPT ![f] = "uploaded"]
      BY <2>16 DEF RetryWrites
    <3>4. job' \in [File -> [state : JobStates, attempts : 0..MaxReads]]
      BY <3>1, <3>2
    <3>5. \A g \in File : job'[g].state = "waiting" => job'[g].attempts < MaxReads
      BY <3>1, <3>2
    <3>6. QED
      BY <2>16, <3>3, <3>4, <3>5 DEF RetryWrites
  <2>17. CASE UNCHANGED basketVars
    BY <2>17 DEF basketVars
  <2>18. QED
    BY <2>1, <2>2, <2>3, <2>4, <2>5, <2>6, <2>7, <2>8, <2>9, <2>10, <2>11, <2>12, <2>13, <2>14,
       <2>15, <2>16, <2>17 DEF BasketNext, UploadStep, ReadStep, AnswerStep
<1>3. QED
  BY <1>1, <1>2, PTL DEF BasketSpec

(* The upload's steps. *)
LEMMA UploadKeepsFit ==
  ASSUME BasketShape, FilesFit, NEW f \in File, UploadStep(f) \/ CancelUpload(f)
  PROVE  FilesFit'
<1> SUFFICES ASSUME NEW g \in File PROVE FileFits(g)'
  BY DEF FilesFit
<1>1. FileFits(g)
  BY DEF FilesFit
<1> USE <1>1 DEF BasketShape, BasketTypeOK, FileFits, StillOut, browserVars, serverVars, pageVars
<1>2. CASE UploadStarts(f)
  BY <1>2 DEF UploadStarts
<1>3. CASE TicketAnswered(f)
  BY <1>3 DEF TicketAnswered
<1>4. CASE PutEnds(f)
  BY <1>4 DEF PutEnds
<1>5. CASE CompleteAnswered(f)
  BY <1>5 DEF CompleteAnswered, Enqueued
<1>6. CASE CancelUpload(f)
  BY <1>6 DEF CancelUpload
<1>7. QED
  BY <1>2, <1>3, <1>4, <1>5, <1>6 DEF UploadStep

(* The worker's steps. *)
LEMMA ReadingKeepsFit ==
  ASSUME BasketShape, FilesFit, NEW f \in File, ReadStep(f) \/ ReaderDies(f)
  PROVE  FilesFit'
<1> SUFFICES ASSUME NEW g \in File PROVE FileFits(g)'
  BY DEF FilesFit
<1>1. FileFits(g)
  BY DEF FilesFit
<1> USE <1>1 DEF BasketShape, BasketTypeOK, FileFits, StillOut, browserVars, serverVars, pageVars
<1>2. CASE ReadBegins(f)
  BY <1>2 DEF ReadBegins
<1>3. CASE ReadCommits(f)
  BY <1>3 DEF ReadCommits
<1>4. CASE ReadFails(f)
  BY <1>4 DEF ReadFails
<1>5. CASE FailureRecorded(f)
  BY <1>5 DEF FailureRecorded, AfterAttempt
<1>6. CASE ReaderDies(f)
  BY <1>6 DEF ReaderDies, AfterAttempt
<1>7. QED
  BY <1>2, <1>3, <1>4, <1>5, <1>6 DEF ReadStep

(* The page's steps. *)
LEMMA PageKeepsFit ==
  ASSUME BasketShape, FilesFit,
         \/ Refetch
         \/ \E f \in File : RemoveForGood(f) \/ TryAgain(f) \/ AnswerStep(f)
         \/ \E f, g \in File : AddFiles(f, g)
  PROVE  FilesFit'
<1> SUFFICES ASSUME NEW g \in File PROVE FileFits(g)'
  BY DEF FilesFit
<1>1. FileFits(g)
  BY DEF FilesFit
<1> USE <1>1 DEF BasketShape, BasketTypeOK, FileFits, StillOut, browserVars, serverVars, pageVars
<1>2. CASE Refetch
  BY <1>2 DEF Refetch
<1>3. ASSUME NEW f \in File, RemoveForGood(f) PROVE FileFits(g)'
  BY <1>3 DEF RemoveForGood
<1>4. ASSUME NEW f \in File, TryAgain(f) PROVE FileFits(g)'
  BY <1>4 DEF TryAgain
<1>5. ASSUME NEW f \in File, RemovalAnswered(f) PROVE FileFits(g)'
  BY <1>5 DEF RemovalAnswered
<1>6. ASSUME NEW f \in File, RetryRead(f) PROVE FileFits(g)'
  BY <1>6 DEF RetryRead
<1>7. ASSUME NEW f \in File, RetryWrites(f) PROVE FileFits(g)'
  BY <1>7 DEF RetryWrites, Enqueued
<1>8. ASSUME NEW f \in File, NEW h \in File, AddFiles(f, h) PROVE FileFits(g)'
  BY <1>8 DEF AddFiles
<1>9. QED
  BY <1>2, <1>3, <1>4, <1>5, <1>6, <1>7, <1>8 DEF AnswerStep

(* A removed file is unsearchable, a finished one has no reading left, a cancelled one
   never arrives: however uploads, readings, failures, kills, removals and retries
   interleave (CorpusIsRight, over basket.py and basket_state.py). *)
THEOREM CorpusStaysRight == BasketSpec => []CorpusIsRight
<1>1. BasketShape /\ FilesFit /\ [BasketNext]_basketVars => FilesFit'
  <2> SUFFICES ASSUME BasketShape, FilesFit, [BasketNext]_basketVars PROVE FilesFit'
    OBVIOUS
  <2>1. CASE UNCHANGED basketVars
    BY <2>1 DEF basketVars, FilesFit, FileFits, StillOut
  <2>2. CASE BasketNext
    BY <2>2, UploadKeepsFit, ReadingKeepsFit, PageKeepsFit DEF BasketNext
  <2>3. QED
    BY <2>1, <2>2
<1>2. BasketShape /\ FilesFit => CorpusIsRight
  BY DEF BasketShape, BasketTypeOK, JobStates, FilesFit, FileFits, StillOut, CorpusIsRight,
         RemovedIsUnsearchable, FinishedIsFinished, FinalStates, CancelledStaysOut
<1>3. QED
  BY <1>1, <1>2, FilesFitInit, BasketTypes, PTL DEF BasketSpec

-----------------------------------------------------------------------------
(* An aborted recogniser has lost its handlers, so its end says nothing to the hook. *)
VoiceInv ==
    /\ VoiceTypeOK /\ OneSession
    /\ \A n \in Session : engine[n] = "aborted" => ~handlers[n]

LEMMA VoiceInitInv == VoiceInit => VoiceInv
  BY VoiceAssumption DEF VoiceInit, VoiceInv, VoiceTypeOK, OneSession, EngineStates, Hot, Session

(* What is left after a session is over: nothing hot, no open stream. *)
LEMMA CancelKeepsInv ==
  ASSUME VoiceInv, rec # 0, CancelEffect, attached' \in BOOLEAN
  PROVE  VoiceInv'
<1> USE VoiceAssumption DEF VoiceInv, VoiceTypeOK, OneSession, EngineStates, Hot, Session,
      CancelEffect, OrbClosed
<1>1. orb' \in [Session -> {"none", "asking", "open", "closed"}]
      /\ \A n \in Session : orb'[n] # "open"
  OBVIOUS
<1>2. engine' \in [Session -> EngineStates] /\ handlers' \in [Session -> BOOLEAN]
  OBVIOUS
<1>3. \A n \in Session : engine'[n] \notin Hot /\ (engine'[n] = "aborted" => ~handlers'[n])
  OBVIOUS
<1>4. QED
  BY <1>1, <1>2, <1>3

LEMMA VoiceKeepsInv == VoiceInv /\ [VoiceNext]_voiceVars => VoiceInv'
<1> SUFFICES ASSUME VoiceInv, [VoiceNext]_voiceVars PROVE VoiceInv'
  OBVIOUS
<1> USE VoiceAssumption DEF VoiceInv, VoiceTypeOK, OneSession, EngineStates, Hot, Session
<1>1. ASSUME NEW n \in Session, VoiceStart(n) PROVE VoiceInv'
  BY <1>1 DEF VoiceStart
<1>2. ASSUME NEW n \in Session, EngineStarts(n) PROVE VoiceInv'
  BY <1>2 DEF EngineStarts
<1>3. ASSUME NEW n \in Session, EngineHears(n) PROVE VoiceInv'
  BY <1>3 DEF EngineHears, voiceVars
<1>4. ASSUME NEW n \in Session, EngineEnds(n) PROVE VoiceInv'
  BY <1>4 DEF EngineEnds, OrbClosed
<1>5. ASSUME NEW n \in Session, OrbAnswered(n) PROVE VoiceInv'
  BY <1>5 DEF OrbAnswered
<1>6. CASE VoiceCancel
  BY <1>6, CancelKeepsInv DEF VoiceCancel
<1>7. CASE VoiceDetach
  BY <1>7, CancelKeepsInv DEF VoiceDetach
<1>8. CASE VoiceStop
  BY <1>8 DEF VoiceStop
<1>9. CASE CeilingFires
  BY <1>9 DEF CeilingFires
<1>10. CASE UNCHANGED voiceVars
  BY <1>10 DEF voiceVars
<1>11. QED
  BY <1>1, <1>2, <1>3, <1>4, <1>5, <1>6, <1>7, <1>8, <1>9, <1>10 DEF VoiceNext

(* The question box drives the hook by the hook's own steps: asking and Escape are
   cancels, the end of the box is a detach. *)
LEMMA BoxStepIsVoiceStep == [AskNext]_askAllVars => [VoiceNext]_voiceVars
<1> SUFFICES ASSUME [AskNext]_askAllVars PROVE [VoiceNext]_voiceVars
  OBVIOUS
<1>1. ASSUME NEW t, Types(t) PROVE UNCHANGED voiceVars
  BY <1>1 DEF Types
<1>2. ASSUME NEW n \in Session, Speaks(n) \/ Hears(n) PROVE VoiceNext
  BY <1>2 DEF Speaks, Hears, VoiceNext
<1>3. CASE Escapes \/ VoiceMovesOn \/ NotConfigured
  BY <1>3 DEF Escapes, VoiceMovesOn, NotConfigured, VoiceNext
<1>4. ASSUME NEW q, Asks(q) PROVE [VoiceNext]_voiceVars
  BY <1>4 DEF Asks, VoiceNext, VoiceCancel
<1>5. CASE AnswerArrives \/ QuestionFails
  BY <1>5 DEF AnswerArrives, QuestionFails
<1>6. CASE UNCHANGED askAllVars
  BY <1>6 DEF askAllVars
<1>7. QED
  BY <1>1, <1>2, <1>3, <1>4, <1>5, <1>6 DEF AskNext, SubmitsBox, SubmitsSuggestion

(* The question box, with everything it does beside dictating, is a user of the hook. *)
THEOREM BoxUsesVoice == AskSpec => VoiceSpec
<1>1. AskInit => VoiceInit
  BY DEF AskInit
<1>2. QED
  BY <1>1, BoxStepIsVoiceStep, PTL DEF AskSpec, VoiceSpec

(* No microphone outlives its session, with any user of the hook and so with the question
   box, however late the events of an old session and its permission arrive. *)
THEOREM MicrophoneIsOne == AskSpec => []OneSession
<1>1. VoiceInv => OneSession
  BY DEF VoiceInv
<1>2. VoiceSpec => []OneSession
  BY <1>1, VoiceInitInv, VoiceKeepsInv, PTL DEF VoiceSpec
<1>3. QED
  BY <1>2, BoxUsesVoice, PTL

-----------------------------------------------------------------------------
(* While a session runs, the typed words in the box are those of its snapshot, unless an
   answer has emptied the box. *)
SnapshotHolds == Listening /\ draft # Empty => draft.typed = beforeVoice.typed

(* The hook starts listening only by VoiceStart. *)
LEMMA OnlySpeakingListens ==
  ASSUME VoiceInv, Listening',
         \/ VoiceCancel \/ VoiceStop \/ CeilingFires \/ VoiceDetach
         \/ \E n \in Session : EngineStarts(n) \/ EngineEnds(n) \/ OrbAnswered(n)
  PROVE  Listening
<1> USE DEF VoiceInv, VoiceTypeOK, OneSession, Listening
<1>1. CASE VoiceCancel \/ VoiceDetach
  BY <1>1 DEF VoiceCancel, VoiceDetach, CancelEffect
<1>2. CASE VoiceStop \/ CeilingFires
  BY <1>2 DEF VoiceStop, CeilingFires
<1>3. ASSUME NEW n \in Session, EngineStarts(n) \/ EngineEnds(n) \/ OrbAnswered(n)
      PROVE Listening
  BY <1>3 DEF EngineStarts, EngineEnds, OrbAnswered
<1>4. QED
  BY <1>1, <1>2, <1>3

LEMMA SnapshotStays == VoiceInv /\ SnapshotHolds /\ [AskNext]_askAllVars => SnapshotHolds'
<1> SUFFICES ASSUME VoiceInv, SnapshotHolds, [AskNext]_askAllVars PROVE SnapshotHolds'
  OBVIOUS
<1> USE DEF SnapshotHolds
<1>1. ASSUME NEW w, Types(w) PROVE SnapshotHolds'
  BY <1>1 DEF Types, Listening, voiceVars
<1>2. ASSUME NEW n \in Session, Speaks(n) PROVE SnapshotHolds'
  BY <1>2 DEF Speaks
<1>3. ASSUME NEW n \in Session, Hears(n) PROVE SnapshotHolds'
  BY <1>3 DEF Hears
<1>4. CASE Escapes \/ VoiceMovesOn \/ NotConfigured
  BY <1>4, OnlySpeakingListens DEF Escapes, VoiceMovesOn, NotConfigured, askVars
<1>5. ASSUME NEW q, Asks(q) PROVE SnapshotHolds'
  BY <1>5 DEF Asks, CancelEffect, Listening, voiceVars
<1>6. CASE AnswerArrives \/ QuestionFails
  BY <1>6 DEF AnswerArrives, QuestionFails, Listening, voiceVars
<1>7. CASE UNCHANGED askAllVars
  BY <1>7 DEF askAllVars, askVars, voiceVars, Listening
<1>8. QED
  BY <1>1, <1>2, <1>3, <1>4, <1>5, <1>6, <1>7 DEF AskNext, SubmitsBox, SubmitsSuggestion

(* Dictation neither takes a typed word out of the box nor brings one back: what a result
   or Escape puts there begins with the session's snapshot, which is what was typed. *)
THEOREM DictationKeepsTheBox == AskSpec => DictationKeepsTyped
<1> DEFINE Kept == (draft' # draft /\ draft # Empty /\ Listening /\ asked' = asked)
                       => draft'.typed = draft.typed
<1>1. VoiceInv /\ SnapshotHolds /\ [AskNext]_askAllVars => [Kept]_askAllVars
  <2> SUFFICES ASSUME SnapshotHolds, AskNext, draft' # draft, draft # Empty, Listening,
                      asked' = asked
               PROVE draft'.typed = draft.typed
    OBVIOUS
  <2> USE DEF SnapshotHolds
  <2>1. ASSUME NEW w, Types(w) PROVE FALSE
    BY <2>1 DEF Types
  <2>2. ASSUME NEW n \in Session, Hears(n) PROVE draft'.typed = draft.typed
    BY <2>2 DEF Hears
  <2>3. ASSUME NEW n \in Session, Speaks(n) PROVE FALSE
    BY <2>3 DEF Speaks
  <2>4. CASE Escapes
    BY <2>4 DEF Escapes
  <2>5. CASE VoiceMovesOn \/ NotConfigured \/ AnswerArrives \/ QuestionFails
    BY <2>5 DEF VoiceMovesOn, NotConfigured, AnswerArrives, QuestionFails, Pending, askVars
  <2>6. ASSUME NEW q, Asks(q) PROVE FALSE
    BY <2>6 DEF Asks
  <2>7. QED
    BY <2>1, <2>2, <2>3, <2>4, <2>5, <2>6 DEF AskNext, SubmitsBox, SubmitsSuggestion
<1>2. AskInit => VoiceInv /\ SnapshotHolds
  BY VoiceInitInv DEF AskInit, SnapshotHolds
<1>3. VoiceInv /\ [AskNext]_askAllVars => VoiceInv'
  BY BoxStepIsVoiceStep, VoiceKeepsInv
<1>4. QED
  BY <1>1, <1>2, <1>3, SnapshotStays, PTL DEF AskSpec, DictationKeepsTyped

-----------------------------------------------------------------------------
Turn == [question : Question, chunk : Chunk]
Card == [open : BOOLEAN, source : [Chunk -> {"none", "loading", "ready", "failed"}]]

(* The cards are as many as the answers; a question is out only while there is room. *)
LogShape ==
    /\ questionOut \in Question \cup {NoQuestionOut}
    /\ thread \in Seq(Turn) /\ cards \in Seq(Card) /\ Len(cards) = Len(thread)
    /\ Len(thread) <= MaxAnswers /\ (questionOut # NoQuestionOut => Len(thread) < MaxAnswers)

LogInv == LogShape /\ OpenPanelHasAsked

LEMMA TupleIsSeq ==
  ASSUME NEW S, NEW n \in Nat, NEW F \in [1..n -> S]
  PROVE  F \in Seq(S) /\ Len(F) = n
  OBVIOUS

(* A new answer moves the cards down: one that keeps its state stands above an answer to
   the same question, every other is closed. *)
LEMMA AnsweredKeeps == ASSUME LogInv, NEW c \in Chunk, Answered(c) PROVE LogInv'
<1> USE AnswerLogAssumption DEF LogInv, LogShape
<1> DEFINE first == [question |-> questionOut, chunk |-> c]
           log == <<first>> \o thread
<1>1. first \in Turn
  BY DEF Answered, Turn
<1>2. /\ log \in Seq(Turn) /\ Len(log) = Len(thread) + 1
      /\ \A i \in 1..Len(thread) : log[i + 1] = thread[i]
  BY <1>1
<1> HIDE DEF log
<1>3. thread' = log /\ cards' = Rekeyed(log) /\ questionOut' = NoQuestionOut
  BY DEF Answered, log
<1>4. FreshCard \in Card
  BY DEF FreshCard, Card
<1>5. Rekeyed(log) \in [1..Len(log) -> Card]
  BY <1>2, <1>4 DEF Rekeyed
<1>6. cards' \in Seq(Card) /\ Len(cards') = Len(log)
  <2>1. Len(log) \in Nat
    BY <1>2
  <2>2. QED
    BY <1>3, <1>5, <2>1, TupleIsSeq
<1>7. OpenPanelHasAsked'
  <2> SUFFICES ASSUME NEW i \in 1..Len(log), cards'[i].open
               PROVE i < Len(log) /\ log[i + 1].question = log[i].question
    BY <1>3 DEF OpenPanelHasAsked
  <2>1. cards'[i] # FreshCard
    BY DEF FreshCard
  <2>2. i <= Len(thread) /\ thread[i].question = log[i].question
    BY <1>3, <2>1 DEF Rekeyed
  <2>3. QED
    BY <1>2, <2>2
<1>8. Len(thread) < MaxAnswers
  BY DEF Answered
<1>9. LogShape'
  BY <1>2, <1>3, <1>6, <1>8
<1>10. QED
  BY <1>7, <1>9

(* A card that changes, without coming to be open over a source nobody asked for. *)
LEMMA CardChanges ==
  ASSUME LogInv, NEW i \in 1..Len(thread), NEW card \in Card,
         cards' = [cards EXCEPT ![i] = card], UNCHANGED <<questionOut, thread>>,
         (card.open /\ card.source[CitedChunk(i)] = "none")
            => (cards[i].open /\ cards[i].source[CitedChunk(i)] = "none")
  PROVE  LogInv'
<1> USE DEF LogInv, LogShape
<1>1. cards' \in Seq(Card) /\ Len(cards') = Len(cards)
  OBVIOUS
<1>2. OpenPanelHasAsked'
  BY DEF OpenPanelHasAsked, CitedChunk
<1>3. QED
  BY <1>1, <1>2

LEMMA CardKeeps ==
  ASSUME LogInv, NEW i \in 1..MaxAnswers,
         \/ OpensSource(i) \/ HidesSource(i) \/ RetriesSource(i)
         \/ \E c \in Chunk : SourceArrives(i, c)
  PROVE  LogInv'
<1> DEFINE asking == [cards[i].source EXCEPT ![CitedChunk(i)] = IF @ = "none" THEN "loading" ELSE @]
<1>1. i \in 1..Len(thread) /\ UNCHANGED <<questionOut, thread>>
  BY DEF OpensSource, HidesSource, RetriesSource, SourceArrives
<1>2. cards[i] \in Card /\ CitedChunk(i) \in Chunk
  <2>1. cards[i] \in Card /\ thread[i] \in Turn
    BY <1>1 DEF LogInv, LogShape
  <2>2. QED
    BY <2>1 DEF Turn, CitedChunk
<1>3. CASE OpensSource(i)
  <2>1. cards' = [cards EXCEPT ![i] = [cards[i] EXCEPT !.open = TRUE, !.source = asking]]
    BY <1>3, <1>1, <1>2 DEF OpensSource, Card
  <2>2. [cards[i] EXCEPT !.open = TRUE, !.source = asking] \in Card
    BY <1>2 DEF Card
  <2>3. asking[CitedChunk(i)] # "none"
    BY <1>2 DEF Card
  <2>4. QED
    BY <1>1, <1>2, <2>1, <2>2, <2>3, CardChanges DEF Card
<1>4. CASE HidesSource(i)
  <2>1. cards' = [cards EXCEPT ![i] = [cards[i] EXCEPT !.open = FALSE]]
    BY <1>4 DEF HidesSource
  <2>2. [cards[i] EXCEPT !.open = FALSE] \in Card
    BY <1>2 DEF Card
  <2>3. QED
    BY <1>1, <1>2, <2>1, <2>2, CardChanges DEF Card
<1>5. ASSUME NEW c \in Chunk, NEW s \in {"loading", "ready", "failed"},
             cards' = [cards EXCEPT ![i].source[c] = s]
      PROVE LogInv'
  <2> DEFINE card == [cards[i] EXCEPT !.source = [@ EXCEPT ![c] = s]]
  <2>1. cards' = [cards EXCEPT ![i] = card]
    BY <1>5
  <2>2. card \in Card /\ card.open = cards[i].open
        /\ (card.source[CitedChunk(i)] = "none" => cards[i].source[CitedChunk(i)] = "none")
    BY <1>2 DEF Card
  <2>3. QED
    BY <1>1, <2>1, <2>2, CardChanges
<1>6. CASE RetriesSource(i) \/ \E c \in Chunk : SourceArrives(i, c)
  BY <1>2, <1>5, <1>6 DEF RetriesSource, SourceArrives
<1>7. QED
  BY <1>3, <1>4, <1>6

LEMMA LogKeepsInv == LogInv /\ [LogNext]_logVars => LogInv'
<1> SUFFICES ASSUME LogInv, [LogNext]_logVars PROVE LogInv'
  OBVIOUS
<1>1. ASSUME NEW q \in Question, Submits(q) PROVE LogInv'
  BY <1>1, AnswerLogAssumption DEF Submits, LogInv, LogShape, OpenPanelHasAsked, CitedChunk
<1>2. CASE Unanswered
  BY <1>2 DEF Unanswered, LogInv, LogShape, OpenPanelHasAsked, CitedChunk
<1>3. CASE UNCHANGED logVars
  BY <1>3 DEF logVars, LogInv, LogShape, OpenPanelHasAsked, CitedChunk
<1>4. QED
  BY <1>1, <1>2, <1>3, AnsweredKeeps, CardKeeps DEF LogNext

(* A citation that has been answered shows its text, one that spins has its call, and what
   has no call loads nothing. *)
Panel == [text : BOOLEAN, loading : BOOLEAN, failure : BOOLEAN,
          call : {"none", "out", "text", "absent"}]

CitationsInv ==
    /\ panels \in [Chunk -> Panel] /\ OpenedStaysOpen
    /\ \A c \in Chunk : panels[c].text => panels[c].call = "none"

LEMMA CitationsKeepInv == CitationsInv /\ [CitationsNext]_citationVars => CitationsInv'
<1> SUFFICES ASSUME CitationsInv, [CitationsNext]_citationVars PROVE CitationsInv'
  OBVIOUS
<1> USE DEF CitationsInv, OpenedStaysOpen, ClosedPanel
<1>1. CASE TurnReturned \/ TurnReread \/ RereadArrives \/ TurnReopened \/ CitableChanges
  BY <1>1 DEF TurnReturned, TurnReread, RereadArrives, TurnReopened, CitableChanges
<1>2. CASE TurnLeft
  BY <1>2 DEF TurnLeft, AllClosed, Panel
<1>3. ASSUME NEW c \in Chunk, OpensCitation(c) PROVE CitationsInv'
  <2> DEFINE p == [ClosedPanel EXCEPT !.loading = TRUE, !.call = "out"]
  <2>1. p \in Panel /\ p.loading /\ p.call = "out" /\ ~p.text
    BY DEF Panel
  <2>2. panels' = [panels EXCEPT ![c] = p] /\ openedHere' = openedHere /\ ~panels[c].text
    BY <1>3 DEF OpensCitation
  <2>3. c \notin openedHere
    <3>1. ~panels[c].text
      BY <2>2
    <3>2. c \in openedHere => panels[c].text
      BY DEF OpenedStaysOpen
    <3>3. QED
      BY <3>1, <3>2
  <2> HIDE DEF p, ClosedPanel
  <2>4. ASSUME NEW d \in Chunk
        PROVE /\ d \in openedHere' => panels'[d].text
              /\ panels'[d].loading <=> panels'[d].call # "none"
              /\ panels'[d].text => panels'[d].call = "none"
    <3>1. CASE d = c
      BY <2>1, <2>2, <2>3, <3>1
    <3>2. CASE d # c
      BY <2>2, <3>2
    <3>3. QED
      BY <3>1, <3>2
  <2>5. QED
    BY <2>1, <2>2, <2>4
<1>4. ASSUME NEW c \in Chunk, EvidenceServed(c) PROVE CitationsInv'
  BY <1>4 DEF EvidenceServed, Panel
<1>5. ASSUME NEW c \in Chunk, EvidenceArrives(c) PROVE CitationsInv'
  <2>1. PICK came \in BOOLEAN :
          /\ panels' = [panels EXCEPT ![c] = [ClosedPanel EXCEPT !.text = came, !.failure = ~came]]
          /\ openedHere' = IF came THEN openedHere \cup {c} ELSE openedHere
    BY <1>5 DEF EvidenceArrives
  <2>2. ~panels[c].text
    BY <1>5 DEF EvidenceArrives
  <2>3. QED
    BY <2>1, <2>2 DEF Panel
<1>6. CASE UNCHANGED citationVars
  BY <1>6 DEF citationVars
<1>7. QED
  BY <1>1, <1>2, <1>3, <1>4, <1>5, <1>6 DEF CitationsNext

(* An open source has been asked for, whatever answers push its card down, and one that was
   answered stays open, whatever re-read takes its answer's place. *)
THEOREM SourcesAreKept == LogSpec /\ CitationsSpec => []SourcesStay
<1>1. LogInit => LogInv
  BY AnswerLogAssumption DEF LogInit, LogInv, LogShape, OpenPanelHasAsked
<1>2. CitationsInit => CitationsInv
  BY DEF CitationsInit, CitationsInv, OpenedStaysOpen, AllClosed, ClosedPanel, Panel
<1>3. LogInv /\ CitationsInv => SourcesStay
  BY DEF LogInv, CitationsInv, SourcesStay
<1>4. QED
  BY <1>1, <1>2, <1>3, LogKeepsInv, CitationsKeepInv, PTL DEF LogSpec, CitationsSpec

-----------------------------------------------------------------------------
(* What is known of a document no two workers have had: one worker at most has it, and *)
(* only while its job runs; a walk that has reopened it keeps everybody away.          *)
Held(d) ==
    /\ \A v, w \in Fetcher : fetch[v].of = d /\ fetch[w].of = d => v = w
    /\ \A w \in Fetcher : fetch[w].of = d => docJob[d] = "running"
    /\ d \in walk.queued => docJob[d] \in Reopened

(* Nobody is about to store an older body, and the newest is there or on its way. *)
OnItsWay(d) ==
    /\ ~HoldsOlder(d)
    /\ body[d] = current[d] \/ docJob[d] \in {"pending", "failed", "running"}

WalkInv ==
    /\ WalkTypeOK
    /\ \A d \in offered : body[d] # 0
    /\ walk.left \cup walk.late \subseteq uncovered
    /\ ~walk.on => walk.queued = {}
    /\ \A d \in Doc \ doubled : Held(d)
    /\ \A d \in offered \ (uncovered \cup overtaken \cup doubled) : OnItsWay(d)
    /\ walk.on => \A d \in offered \ (walk.left \cup walk.late \cup overtaken \cup doubled) :
                     d \in walk.queued \/ OnItsWay(d)

LEMMA WalkInvInit == WalkInit => WalkInv
BY WalkAssumption
   DEF WalkInit, WalkInv, WalkTypeOK, NoWalk, NoFetch, Fetch, Walking, DocStates, Held

(* Types, and what only the walk and the provider touch. *)
LEMMA WalkTypes == ASSUME WalkInv, [WalkNext]_walkVars PROVE WalkTypeOK'
<1> USE WalkAssumption DEF WalkInv, WalkTypeOK
<1>1. CASE \E d \in Doc : Edits(d) \/ Deletes(d) \/ Lists(d) \/ Reclaims(d)
  <2>1. ASSUME NEW d \in Doc, Edits(d) PROVE WalkTypeOK'
    BY <2>1 DEF Edits, Walking
  <2>2. ASSUME NEW d \in Doc, Deletes(d) PROVE WalkTypeOK'
    BY <2>2 DEF Deletes
  <2>3. ASSUME NEW d \in Doc, Lists(d) PROVE WalkTypeOK'
    BY <2>3 DEF Lists, providerVars, Walking
  <2>4. ASSUME NEW d \in Doc, Reclaims(d) PROVE WalkTypeOK'
    BY <2>4 DEF Reclaims, providerVars, DocStates
  <2>5. QED
    BY <1>1, <2>1, <2>2, <2>3, <2>4
<1>2. CASE WalkStarts \/ WalkFails
  <2>1. uncovered \cap offered \in SUBSET Doc
    OBVIOUS
  <2>2. ASSUME WalkStarts PROVE walk' \in Walking
    BY <2>1, <2>2 DEF WalkStarts, Walking
  <2>3. ASSUME WalkFails PROVE walk' \in Walking
    BY <2>3 DEF WalkFails, NoWalk, Walking
  <2>4. UNCHANGED <<providerVars, uncovered, docJob, fetch, current, overtaken, doubled>>
    BY <1>2 DEF WalkStarts, WalkFails
  <2>5. QED
    BY <1>2, <2>2, <2>3, <2>4 DEF providerVars
<1>3. CASE \E complete \in BOOLEAN : WalkCommits(complete)
  BY <1>3 DEF WalkCommits, Uncovered, NoWalk, Walking, DocStates, providerVars
<1>4. CASE \E w \in Fetcher : Fetches(w) \/ Stores(w) \/ GivesBack(w) \/ Vanishes(w)
  <2>1. ASSUME NEW w \in Fetcher, Fetches(w) PROVE WalkTypeOK'
    BY <2>1 DEF Fetches, Fetch, providerVars
  <2>2. ASSUME NEW w \in Fetcher, Stores(w) PROVE WalkTypeOK'
    BY <2>2 DEF Stores, RowFree, Fetch, NoFetch, DocStates, providerVars
  <2>3. ASSUME NEW w \in Fetcher, GivesBack(w) PROVE WalkTypeOK'
    BY <2>3 DEF GivesBack, RowFree, Fetch, NoFetch, DocStates, providerVars
  <2>4. ASSUME NEW w \in Fetcher, Vanishes(w) PROVE WalkTypeOK'
    BY <2>4 DEF Vanishes, Fetch, NoFetch, providerVars
  <2>5. QED
    BY <1>4, <2>1, <2>2, <2>3, <2>4
<1>5. CASE \E w \in Fetcher, d \in Doc : Claims(w, d)
  BY <1>5 DEF Claims, Fetch, DocStates, providerVars
<1>6. CASE UNCHANGED walkVars
  BY <1>6 DEF walkVars, providerVars
<1>7. QED
  BY <1>1, <1>2, <1>3, <1>4, <1>5, <1>6 DEF WalkNext

LEMMA ProviderStepsKeep ==
  ASSUME WalkInv, WalkTypeOK', NEW e \in Doc, Edits(e) \/ Deletes(e) PROVE WalkInv'
<1>1. CASE Edits(e)
  <2>1. /\ body' = [body EXCEPT ![e] = @ + 1] /\ offered' = offered \cup {e}
        /\ uncovered' = uncovered \cup {e}
        /\ UNCHANGED <<docJob, fetch, current, overtaken, doubled>>
        /\ walk'.on = walk.on /\ walk'.left = walk.left /\ walk'.queued = walk.queued
        /\ walk'.late = IF walk.on THEN walk.late \cup {e} ELSE walk.late
    BY <1>1 DEF Edits, WalkInv, WalkTypeOK, Walking
  <2>2. \A d \in Doc \ {e} : OnItsWay(d) => OnItsWay(d)'
    BY <2>1 DEF OnItsWay, HoldsOlder, WalkInv, WalkTypeOK
  <2>3. \A d \in Doc : Held(d) => Held(d)'
    BY <2>1 DEF Held
  <2>4. \A d \in offered' : body'[d] # 0
    BY <2>1 DEF WalkInv, WalkTypeOK
  <2>5. QED
    BY <2>1, <2>2, <2>3, <2>4 DEF WalkInv, WalkTypeOK
<1>2. CASE Deletes(e)
  <2>1. \A d \in Doc : (OnItsWay(d) => OnItsWay(d)') /\ (Held(d) => Held(d)')
    BY <1>2 DEF Deletes, OnItsWay, HoldsOlder, Held
  <2>2. QED
    BY <1>2, <2>1 DEF Deletes, WalkInv, WalkTypeOK
<1>3. QED
  BY <1>1, <1>2

LEMMA WalkStepsKeep ==
  ASSUME WalkInv, WalkTypeOK',
         WalkStarts \/ WalkFails \/ \E complete \in BOOLEAN : WalkCommits(complete)
  PROVE  WalkInv'
<1>1. CASE WalkStarts \/ WalkFails
  <2>1. /\ UNCHANGED <<body, offered, uncovered, docJob, fetch, current, overtaken, doubled>>
        /\ walk'.queued = {} /\ walk'.late = {}
        /\ walk'.left = IF walk'.on THEN uncovered \cap offered ELSE {}
    BY <1>1 DEF WalkStarts, WalkFails, NoWalk, providerVars
  <2>2. \A d \in Doc : (OnItsWay(d) => OnItsWay(d)') /\ (Held(d) => Held(d)')
    BY <2>1 DEF OnItsWay, HoldsOlder, Held
  <2>3. QED
    BY <2>1, <2>2 DEF WalkInv, WalkTypeOK
<1>2. ASSUME NEW complete \in BOOLEAN, WalkCommits(complete) PROVE WalkInv'
  <2>1. /\ walk.on /\ UNCHANGED <<body, offered, fetch, current, overtaken, doubled>>
        /\ docJob' = [d \in Doc |-> IF d \in walk.queued THEN "pending" ELSE docJob[d]]
        /\ walk' = NoWalk
    BY <1>2 DEF WalkCommits, providerVars
  <2>2. \/ uncovered' = uncovered
        \/ uncovered' = walk.late /\ walk.left \cap offered = {}
    BY <1>2 DEF WalkCommits, Uncovered
  <2>3. ASSUME NEW d \in Doc \ doubled PROVE Held(d)'
    BY <2>1 DEF WalkInv, Held, Reopened, NoWalk
  <2>4. ASSUME NEW d \in Doc \ doubled, d \in walk.queued \/ OnItsWay(d) PROVE OnItsWay(d)'
    BY <2>1, <2>4 DEF WalkInv, WalkTypeOK, OnItsWay, HoldsOlder, Held, Reopened
  <2>5. \A d \in offered' \ (uncovered' \cup overtaken' \cup doubled') : OnItsWay(d)'
    BY <2>1, <2>2, <2>4 DEF WalkInv, WalkTypeOK
  <2>6. QED
    BY <2>1, <2>2, <2>3, <2>5 DEF WalkInv, WalkTypeOK, NoWalk
<1>3. QED
  BY <1>1, <1>2

(* A listed document that nobody will read is one whose worker holds an older body. *)
LEMMA ListingKeeps ==
  ASSUME WalkInv, WalkTypeOK', NEW e \in Doc, Lists(e) PROVE WalkInv'
<1>1. /\ walk.on /\ e \in offered /\ e \in uncovered
      /\ UNCHANGED <<body, offered, uncovered, docJob, fetch, current, doubled>>
  BY DEF Lists, providerVars, WalkInv
<1>2. /\ walk'.on = walk.on /\ walk'.left = walk.left \ {e} /\ walk'.late = walk.late
      /\ walk'.queued = IF docJob[e] \in Reopened THEN walk.queued \cup {e} ELSE walk.queued
      /\ overtaken' = IF docJob[e] \in Reopened THEN overtaken \ {e}
                      ELSE IF HoldsOlder(e) THEN overtaken \cup {e} ELSE overtaken
  BY DEF Lists, WalkInv, WalkTypeOK, Walking
<1>3. \A d \in Doc : OnItsWay(d) => OnItsWay(d)'
  BY <1>1 DEF OnItsWay, HoldsOlder
<1>4. \A d \in Doc \ doubled : Held(d)'
  BY <1>1, <1>2 DEF WalkInv, Held
<1>5. e \in walk'.queued \/ e \in overtaken' \/ e \in doubled \/ OnItsWay(e)'
  <2>1. CASE docJob[e] \in Reopened
    BY <1>2, <2>1
  <2>2. CASE docJob[e] \notin Reopened /\ ~HoldsOlder(e)
    BY <1>1, <2>2 DEF WalkInv, WalkTypeOK, DocStates, Reopened, OnItsWay, HoldsOlder
  <2>3. CASE docJob[e] \notin Reopened /\ HoldsOlder(e)
    BY <1>2, <2>3
  <2>4. QED
    BY <2>1, <2>2, <2>3
<1>6. QED
  BY <1>1, <1>2, <1>3, <1>4, <1>5 DEF WalkInv, WalkTypeOK

(* What a job's step must not disturb, document by document. *)
LEMMA JobStepsKeep ==
  ASSUME WalkInv, WalkTypeOK',
         UNCHANGED <<providerVars, uncovered, walk, overtaken>>, doubled \subseteq doubled',
         \A d \in Doc \ doubled' : Held(d)',
         \A d \in offered \ doubled' : OnItsWay(d) => OnItsWay(d)'
  PROVE  WalkInv'
<1>1. \A d \in offered : OnItsWay(d) => d \in doubled' \/ OnItsWay(d)'
  OBVIOUS
<1>2. QED
  BY <1>1 DEF WalkInv, WalkTypeOK, providerVars

LEMMA WorkerStepsKeep ==
  ASSUME WalkInv, WalkTypeOK', NEW w \in Fetcher,
         Fetches(w) \/ Stores(w) \/ GivesBack(w) \/ Vanishes(w)
  PROVE  WalkInv'
<1> DEFINE e == fetch[w].of
<1>1. e \in Doc \cup {NoDoc} /\ fetch \in [Fetcher -> Fetch] /\ docJob \in [Doc -> DocStates]
      /\ current \in [Doc -> Nat] /\ offered \subseteq Doc
  BY DEF WalkInv, WalkTypeOK, Fetch
<1>2. UNCHANGED <<providerVars, uncovered, walk, overtaken, doubled>>
  BY DEF Fetches, Stores, GivesBack, Vanishes
<1>3. CASE Fetches(w)
  <2>1. /\ docJob' = docJob /\ current' = current /\ e \in Doc
        /\ \A v \in Fetcher : fetch'[v].of = fetch[v].of
        /\ \A v \in Fetcher \ {w} : fetch'[v] = fetch[v]
        /\ e \in offered => fetch'[w].got = body[e]
    BY <1>1, <1>3 DEF Fetches, Fetch
  <2>2. \A d \in Doc \ doubled : Held(d)'
    BY <1>2, <2>1 DEF WalkInv, Held
  <2>3. ASSUME NEW d \in offered \ doubled, OnItsWay(d) PROVE OnItsWay(d)'
    BY <1>1, <1>2, <2>1, <2>3 DEF OnItsWay, HoldsOlder, providerVars
  <2>4. QED
    BY <1>2, <2>2, <2>3, JobStepsKeep
<1>4. CASE Vanishes(w)
  <2>1. /\ docJob' = docJob /\ current' = current /\ fetch'[w] = NoFetch
        /\ \A v \in Fetcher \ {w} : fetch'[v] = fetch[v]
    BY <1>1, <1>4 DEF Vanishes
  <2>2. \A d \in Doc \ doubled : Held(d)'
    BY <1>2, <2>1, WalkAssumption DEF WalkInv, Held, NoFetch
  <2>3. ASSUME NEW d \in offered \ doubled, OnItsWay(d) PROVE OnItsWay(d)'
    BY <1>1, <1>2, <2>1, <2>3, WalkAssumption DEF OnItsWay, HoldsOlder, providerVars, NoFetch
  <2>4. QED
    BY <1>2, <2>2, <2>3, JobStepsKeep
<1>5. CASE Stores(w) \/ GivesBack(w)
  <2>1. /\ e \in Doc /\ e \notin walk.queued /\ fetch'[w] = NoFetch
        /\ \A v \in Fetcher \ {w} : fetch'[v] = fetch[v]
        /\ \A d \in Doc \ {e} : docJob'[d] = docJob[d] /\ current'[d] = current[d]
    BY <1>1, <1>5 DEF Stores, GivesBack, RowFree
  <2>2. ASSUME NEW d \in Doc \ doubled PROVE Held(d)'
    <3>1. CASE d = e
      BY <1>2, <2>1, <3>1, WalkAssumption DEF WalkInv, Held, NoFetch
    <3>2. CASE d # e
      BY <1>2, <2>1, <3>2, WalkAssumption DEF WalkInv, Held, NoFetch
    <3>3. QED
      BY <3>1, <3>2
  <2>3. ASSUME NEW d \in offered \ doubled, OnItsWay(d) PROVE OnItsWay(d)'
    <3>1. ~HoldsOlder(d)'
      BY <1>1, <1>2, <2>1, <2>3, WalkAssumption DEF OnItsWay, HoldsOlder, providerVars, NoFetch
    <3>2. CASE d # e
      BY <1>1, <1>2, <2>1, <2>3, <3>1, <3>2 DEF OnItsWay, providerVars
    <3>3. CASE d = e /\ Stores(w)
      <4>1. fetch[w].answered /\ fetch[w].got = body[d] /\ body[d] # 0
        BY <1>1, <2>3, <3>3 DEF OnItsWay, HoldsOlder, Stores, WalkInv
      <4>2. current'[d] = body[d]
        BY <1>1, <2>1, <3>3, <4>1 DEF Stores
      <4>3. QED
        BY <1>2, <3>1, <4>2 DEF OnItsWay, providerVars
    <3>4. CASE d = e /\ GivesBack(w)
      BY <1>1, <2>1, <3>1, <3>4 DEF GivesBack, OnItsWay
    <3>5. QED
      BY <1>5, <3>2, <3>3, <3>4
  <2>4. QED
    BY <1>2, <2>2, <2>3, JobStepsKeep
<1>6. QED
  BY <1>3, <1>4, <1>5

LEMMA RowStepsKeep ==
  ASSUME WalkInv, WalkTypeOK', NEW e \in Doc,
         Reclaims(e) \/ \E w \in Fetcher : Claims(w, e)
  PROVE  WalkInv'
<1>1. fetch \in [Fetcher -> Fetch] /\ docJob \in [Doc -> DocStates] /\ offered \subseteq Doc
  BY DEF WalkInv, WalkTypeOK
<1>2. CASE Reclaims(e)
  <2>1. /\ UNCHANGED <<providerVars, uncovered, walk, fetch, current, overtaken>>
        /\ doubled \subseteq doubled' /\ docJob[e] = "running" /\ docJob'[e] = "pending"
        /\ \A d \in Doc \ {e} : docJob'[d] = docJob[d]
        /\ e \in doubled' \/ \A w \in Fetcher : fetch[w].of # e
    BY <1>1, <1>2 DEF Reclaims
  <2>2. \A d \in Doc \ doubled' : Held(d)'
    BY <2>1 DEF WalkInv, Held, Reopened
  <2>3. \A d \in offered \ doubled' : OnItsWay(d) => OnItsWay(d)'
    BY <1>1, <2>1 DEF OnItsWay, HoldsOlder, providerVars
  <2>4. QED
    BY <2>1, <2>2, <2>3, JobStepsKeep
<1>3. ASSUME NEW w \in Fetcher, Claims(w, e) PROVE WalkInv'
  <2>1. /\ UNCHANGED <<providerVars, uncovered, walk, current, overtaken, doubled>>
        /\ docJob[e] = "pending" /\ docJob'[e] = "running"
        /\ \A d \in Doc \ {e} : docJob'[d] = docJob[d]
        /\ fetch'[w].of = e /\ ~fetch'[w].answered /\ fetch[w].of = NoDoc
        /\ \A v \in Fetcher \ {w} : fetch'[v] = fetch[v]
    BY <1>1, <1>3 DEF Claims, NoFetch
  <2>2. ASSUME NEW d \in Doc \ doubled PROVE Held(d)'
    BY <2>1, WalkAssumption DEF WalkInv, Held, Reopened
  <2>3. ASSUME NEW d \in offered \ doubled, OnItsWay(d) PROVE OnItsWay(d)'
    BY <1>1, <2>1, <2>3 DEF OnItsWay, HoldsOlder, providerVars
  <2>4. QED
    BY <2>1, <2>2, <2>3, JobStepsKeep
<1>4. QED
  BY <1>2, <1>3

(* A change the cursor covers is in the corpus, or somebody will still read it, but for *)
(* a job that had fetched before the change and was met in flight, and for one two      *)
(* workers had at once; for any documents, workers and listings (ingest.py).            *)
THEOREM CoverageHolds == WalkSpec => []CursorCovers
<1>1. ASSUME WalkInv, [WalkNext]_walkVars PROVE WalkInv'
  <2>1. WalkTypeOK'
    BY <1>1, WalkTypes
  <2>2. CASE UNCHANGED walkVars
    BY <1>1, <2>2 DEF walkVars, providerVars, WalkInv, WalkTypeOK, OnItsWay, HoldsOlder, Held
  <2>3. QED
    BY <1>1, <2>1, <2>2, ProviderStepsKeep, WalkStepsKeep, ListingKeeps, WorkerStepsKeep,
       RowStepsKeep DEF WalkNext
<1>2. WalkInv => CursorCovers
  BY DEF WalkInv, WalkTypeOK, CursorCovers, WillBeRead, OnItsWay
<1>3. QED
  BY WalkInvInit, <1>1, <1>2, PTL DEF WalkSpec

-----------------------------------------------------------------------------
(* What of NightTypeOK the rest stands on. *)
NightTyped ==
    /\ clock \in Nat /\ nightRuns \in Nat /\ startsAt \in StartHour /\ died \in SUBSET Nat
    /\ nightMark \in [started : Nat \cup {Yesterday}, finished : BOOLEAN]
    /\ task \in [Task -> [at : Stages, begun : Nat, claimed : Nat, queued : BOOLEAN]]

LEMMA NightBounds ==
  /\ WindowLen \in Nat /\ TaskLife \in Nat /\ LeaseLen \in Nat /\ LastStep \in Nat /\ MaxKills \in Nat
  /\ TickEvery \in 1 .. WindowLen /\ TaskLife <= LeaseLen /\ StartHour \subseteq Nat
BY NightAssumption

(* A task between its claim and its finish, and one whose time runs. *)
AtWork(t) == task[t].at \in {"claimed", "queued", "rung"}
Alive(t) == AtWork(t) \/ task[t].at = "due"

(* A task has its time, and begins in the window; the mark is its own from its claim on. *)
TasksFit ==
    /\ \A t \in Task : Alive(t) =>
          /\ task[t].begun <= clock /\ clock <= task[t].begun + TaskLife
          /\ ~hourMoved => task[t].begun \in startsAt .. startsAt + WindowLen - 1
    /\ \A t \in Task : AtWork(t) =>
          /\ task[t].claimed = nightMark.started /\ ~nightMark.finished
          /\ task[t].begun <= task[t].claimed /\ task[t].claimed <= clock
    /\ \A t, u \in Task : AtWork(t) /\ AtWork(u) => t = u

(* An unfinished claim is at work or was killed. *)
ClaimsAccounted ==
    ~nightMark.finished /\ nightMark.started # Yesterday =>
        nightMark.started \in died \/ \E t \in Task : AtWork(t)

(* Every run but the last one was killed, and the last one has not been counted twice. *)
RunsCounted ==
    /\ IsFiniteSet(died) /\ \A c \in died : c <= nightMark.started
    /\ nightMark.started <= clock
    /\ nightMark.started = Yesterday => nightRuns = 0
    /\ nightRuns <= 1 + Cardinality(died \ {nightMark.started})
    /\ \A t \in Task : task[t].at = "claimed" =>
          nightRuns <= Cardinality(died) /\ nightMark.started \notin died

(* What the window's last tick has seen. *)
SeenMeansClaimed ==
    seenThrough /\ ~hourMoved =>
        /\ clock >= LastTick /\ nightMark.started # Yesterday
        /\ nightMark.finished \/ LastTick - nightMark.started <= LeaseLen

NightInv ==
    NightTyped /\ TasksFit /\ ClaimsAccounted /\ RunsCounted /\ SeenMeansClaimed /\ QueuedIsRung

(* The lease outlives every task: who may claim finds nobody at work, and if the day has been
   claimed, that claim was killed. *)
LEMMA FreeToTake ==
  ASSUME NightInv, Takeable
  PROVE  /\ \A t \in Task : ~AtWork(t)
         /\ nightMark.started # Yesterday => nightMark.started \in died /\ nightMark.started < clock
<1>. USE NightBounds DEF NightInv, NightTyped, TasksFit
<1>1. ASSUME NEW t \in Task, AtWork(t) PROVE FALSE
  <2>1. task[t].claimed \in Nat /\ task[t].begun \in Nat
    OBVIOUS
  <2>2. nightMark.started = task[t].claimed /\ clock <= task[t].begun + TaskLife
        /\ task[t].begun <= task[t].claimed
    BY <1>1 DEF Alive
  <2>3. clock - nightMark.started > LeaseLen
    BY <2>1, <2>2 DEF Takeable, Yesterday
  <2>. QED
    BY <2>1, <2>2, <2>3
<1>2. ASSUME nightMark.started # Yesterday
      PROVE nightMark.started \in died /\ nightMark.started < clock
  <2>1. ~nightMark.finished /\ clock - nightMark.started > LeaseLen
    BY <1>2 DEF Takeable
  <2>2. nightMark.started \in Nat
    BY <1>2
  <2>. QED
    BY <1>1, <1>2, <2>1, <2>2 DEF ClaimsAccounted
<1>. QED
  BY <1>1, <1>2

LEMMA NightInitInv == NightInit => NightInv
<1>. SUFFICES ASSUME NightInit PROVE NightInv
  OBVIOUS
<1>1. NightTyped
  BY NightBounds DEF NightInit, NightTyped, NoTask, Stages, Yesterday
<1>2. \A t \in Task : task[t].at = "off"
  BY DEF NightInit, NoTask
<1>3. IsFiniteSet(died) /\ Cardinality(died \ {nightMark.started}) = 0
  BY FS_EmptySet DEF NightInit
<1>4. RunsCounted
  BY <1>2, <1>3 DEF NightInit, RunsCounted, Yesterday
<1>. QED
  BY <1>1, <1>2, <1>4 DEF NightInit, NightInv, TasksFit, ClaimsAccounted, SeenMeansClaimed,
     QueuedIsRung, AtWork, Alive

LEMMA NightTypes == ASSUME NightTyped, [NightNext]_nightVars PROVE NightTyped'
<1>. USE NightBounds DEF NightTyped, Stages
<1>1. ASSUME NEW t \in Task, TaskBegins(t) PROVE NightTyped'
  BY <1>1 DEF TaskBegins, NoTask, Yesterday
<1>2. ASSUME NEW t \in Task, TaskClaims(t) PROVE NightTyped'
  <2>1. nightMark' \in [started : Nat \cup {Yesterday}, finished : BOOLEAN]
    <3>1. nightMark' = [started |-> clock, finished |-> FALSE] \/ nightMark' = nightMark
      BY <1>2 DEF TaskClaims
    <3>2. ASSUME nightMark' = [started |-> clock, finished |-> FALSE]
          PROVE  nightMark' \in [started : Nat \cup {Yesterday}, finished : BOOLEAN]
      BY <3>2
    <3>. QED
      BY <3>1, <3>2
  <2>2. task' \in [Task -> [at : Stages, begun : Nat, claimed : Nat, queued : BOOLEAN]]
    <3>1. task' = [task EXCEPT ![t].at = "claimed", ![t].claimed = clock]
          \/ task' = [task EXCEPT ![t] = NoTask]
      BY <1>2 DEF TaskClaims
    <3>2. ASSUME task' = [task EXCEPT ![t].at = "claimed", ![t].claimed = clock]
          PROVE  task' \in [Task -> [at : Stages, begun : Nat, claimed : Nat, queued : BOOLEAN]]
      BY <3>2
    <3>3. ASSUME task' = [task EXCEPT ![t] = NoTask]
          PROVE  task' \in [Task -> [at : Stages, begun : Nat, claimed : Nat, queued : BOOLEAN]]
      BY <3>3 DEF NoTask
    <3>. QED
      BY <3>1, <3>2, <3>3
  <2>. QED
    BY <1>2, <2>1, <2>2 DEF TaskClaims
<1>3. ASSUME NEW t \in Task, Queues(t) PROVE NightTyped'
  <2>1. task' \in [Task -> [at : Stages, begun : Nat, claimed : Nat, queued : BOOLEAN]]
    <3>1. (syncJob = "over") \in BOOLEAN
      OBVIOUS
    <3>. QED
      BY <1>3, <3>1 DEF Queues
  <2>. QED
    BY <1>3, <2>1 DEF Queues
<1>4. ASSUME NEW t \in Task, CannotQueue(t) \/ Rings(t) PROVE NightTyped'
  <2>1. task' = [task EXCEPT ![t].at = "rung"]
    BY <1>4 DEF CannotQueue, Rings
  <2>2. UNCHANGED <<clock, nightRuns, startsAt, died, nightMark>>
    BY <1>4 DEF CannotQueue, Rings
  <2>. QED
    BY <2>1, <2>2
<1>5. ASSUME NEW t \in Task, Finishes(t) PROVE NightTyped'
  BY <1>5 DEF Finishes, NoTask
<1>6. ASSUME NEW t \in Task, Killed(t) PROVE NightTyped'
  <2>1. PICK next \in {"off", "again"} : task' = [task EXCEPT ![t] = [NoTask EXCEPT !.at = next]]
    BY <1>6 DEF Killed
  <2>2. task' \in [Task -> [at : Stages, begun : Nat, claimed : Nat, queued : BOOLEAN]]
    BY <2>1 DEF NoTask
  <2>3. died' \in SUBSET Nat
    BY <1>6 DEF Killed
  <2>. QED
    BY <1>6, <2>2, <2>3 DEF Killed
<1>7. ASSUME AsksNow \/ Drains \/ SyncEnds PROVE NightTyped'
  BY <1>7 DEF AsksNow, Drains, SyncEnds
<1>8. ASSUME Passes PROVE NightTyped'
  BY <1>8 DEF Passes
<1>9. ASSUME NEW h \in StartHour, HourMoves(h) PROVE NightTyped'
  BY <1>9 DEF HourMoves
<1>10. ASSUME UNCHANGED nightVars PROVE NightTyped'
  BY <1>10 DEF nightVars
<1>. QED
  BY <1>1, <1>2, <1>3, <1>4, <1>5, <1>6, <1>7, <1>8, <1>9, <1>10 DEF NightNext

(* Who rings has its row, or has lost the ring. *)
LEMMA RingKeeps == ASSUME NightInv, [NightNext]_nightVars PROVE QueuedIsRung'
<1>. SUFFICES ASSUME syncJob' = "pending"
     PROVE bell' \/ unrung' \/ \E t \in Task : task'[t].at = "queued" /\ task'[t].queued
  BY DEF QueuedIsRung
<1>. USE DEF NightInv, NightTyped, QueuedIsRung, workerVars
<1>1. ASSUME NEW t \in Task, TaskBegins(t) \/ TaskClaims(t) \/ CannotQueue(t) \/ Finishes(t)
      PROVE bell' \/ unrung' \/ \E u \in Task : task'[u].at = "queued" /\ task'[u].queued
  <2>1. syncJob = "pending" /\ UNCHANGED <<bell, unrung>>
    BY <1>1 DEF TaskBegins, TaskClaims, CannotQueue, Finishes
  <2>2. task[t].at # "queued" /\ \A u \in Task \ {t} : task'[u] = task[u]
    BY <1>1 DEF TaskBegins, TaskClaims, CannotQueue, Finishes
  <2>. QED
    BY <2>1, <2>2
<1>2. ASSUME NEW t \in Task, Queues(t)
      PROVE bell' \/ unrung' \/ \E u \in Task : task'[u].at = "queued" /\ task'[u].queued
  <2>1. CASE syncJob = "over"
    BY <1>2, <2>1 DEF Queues
  <2>2. CASE syncJob # "over"
    <3>1. syncJob = "pending" /\ UNCHANGED <<bell, unrung>>
      BY <1>2, <2>2 DEF Queues
    <3>2. task[t].at # "queued" /\ \A u \in Task \ {t} : task'[u] = task[u]
      BY <1>2 DEF Queues
    <3>. QED
      BY <3>1, <3>2
  <2>. QED
    BY <2>1, <2>2
<1>3. ASSUME NEW t \in Task, Rings(t)
      PROVE bell' \/ unrung' \/ \E u \in Task : task'[u].at = "queued" /\ task'[u].queued
  <2>1. CASE task[t].queued
    BY <1>3, <2>1 DEF Rings
  <2>2. CASE ~task[t].queued
    <3>1. syncJob = "pending" /\ UNCHANGED <<bell, unrung>>
      BY <1>3, <2>2 DEF Rings
    <3>2. \A u \in Task \ {t} : task'[u] = task[u]
      BY <1>3 DEF Rings
    <3>. QED
      BY <2>2, <3>1, <3>2
  <2>. QED
    BY <2>1, <2>2
<1>4. ASSUME NEW t \in Task, Killed(t)
      PROVE bell' \/ unrung' \/ \E u \in Task : task'[u].at = "queued" /\ task'[u].queued
  <2>1. syncJob = "pending" /\ UNCHANGED bell /\ \A u \in Task \ {t} : task'[u] = task[u]
    BY <1>4 DEF Killed
  <2>2. unrung \/ (task[t].queued /\ task[t].at = "queued" /\ ~bell) => unrung'
    BY <1>4 DEF Killed
  <2>. QED
    BY <2>1, <2>2
<1>5. ASSUME AsksNow \/ Drains \/ SyncEnds \/ Passes \/ (\E h \in StartHour : HourMoves(h))
             \/ UNCHANGED nightVars
      PROVE bell' \/ unrung' \/ \E u \in Task : task'[u].at = "queued" /\ task'[u].queued
  <2>1. bell' \/ (syncJob = "pending" /\ UNCHANGED <<bell, unrung, task>>)
    BY <1>5 DEF AsksNow, Drains, SyncEnds, Passes, HourMoves, nightVars
  <2>. QED
    BY <2>1
<1>. QED
  BY <1>1, <1>2, <1>3, <1>4, <1>5 DEF NightNext

(* What the lease, the count and the window ask of a step. *)
NightStays == TasksFit' /\ ClaimsAccounted' /\ RunsCounted' /\ SeenMeansClaimed'

(* A claim: nobody was at work, and the day's earlier claim, if any, was killed. *)
LEMMA ClaimKeeps ==
  ASSUME NightInv, NightTyped', NEW t \in Task, task[t].at = "due", StillTakeable,
         nightMark' = [started |-> clock, finished |-> FALSE],
         task' = [task EXCEPT ![t].at = "claimed", ![t].claimed = clock],
         seenThrough' = (seenThrough \/ task[t].begun = LastTick),
         UNCHANGED <<clock, startsAt, nightRuns, died, hourMoved>>
  PROVE  NightStays
<1>. USE NightBounds DEF NightInv, NightTyped
<1>1. /\ \A u \in Task : ~AtWork(u)
      /\ nightMark.started # Yesterday => nightMark.started \in died /\ nightMark.started < clock
  BY FreeToTake DEF StillTakeable
<1>2. \A u \in Task : AtWork(u)' <=> u = t
  BY <1>1 DEF AtWork
<1>3. /\ task'[t].begun = task[t].begun /\ task'[t].claimed = clock
      /\ \A u \in Task \ {t} : task'[u] = task[u]
  OBVIOUS
<1>4. task[t].begun <= clock
  BY DEF TasksFit, Alive
<1>5. TasksFit'
  <2>1. \A u \in Task : Alive(u)' => Alive(u) /\ task'[u].begun = task[u].begun
    BY <1>2, <1>3 DEF Alive, AtWork
  <2>2. \A u \in Task : Alive(u)' =>
          /\ task'[u].begun <= clock' /\ clock' <= task'[u].begun + TaskLife
          /\ ~hourMoved' => task'[u].begun \in startsAt' .. startsAt' + WindowLen - 1
    BY <2>1 DEF TasksFit
  <2>3. \A u \in Task : AtWork(u)' =>
          /\ task'[u].claimed = nightMark'.started /\ ~nightMark'.finished
          /\ task'[u].begun <= task'[u].claimed /\ task'[u].claimed <= clock'
    BY <1>2, <1>3, <1>4
  <2>. QED
    BY <1>2, <2>2, <2>3 DEF TasksFit
<1>6. ClaimsAccounted'
  BY <1>2 DEF ClaimsAccounted
<1>7. RunsCounted'
  <2>1. IsFiniteSet(died) /\ Cardinality(died) \in Nat
    BY FS_CardinalityType DEF RunsCounted
  <2>2. clock \notin died /\ \A c \in died : c <= clock
    <3>1. nightMark.started < clock \/ died = {}
      BY <1>1 DEF RunsCounted, Yesterday
    <3>. QED
      BY <1>1, <3>1 DEF RunsCounted, Yesterday
  <2>3. nightRuns <= Cardinality(died)
    <3>1. CASE nightMark.started = Yesterday
      BY <2>1, <3>1 DEF RunsCounted
    <3>2. CASE nightMark.started # Yesterday
      <4>1. Cardinality(died \ {nightMark.started}) = Cardinality(died) - 1
        <5>1. nightMark.started \in died /\ IsFiniteSet(died)
          BY <1>1, <2>1, <3>2
        <5>. HIDE DEF NightInv, NightTyped
        <5>. QED
          BY <5>1, FS_RemoveElement, Zenon
      <4>2. nightRuns <= 1 + Cardinality(died \ {nightMark.started})
        BY DEF RunsCounted
      <4>. QED
        BY <2>1, <4>1, <4>2
    <3>. QED
      BY <3>1, <3>2
  <2>4. died \ {clock} = died
    BY <2>2
  <2>5. clock # Yesterday
    BY DEF Yesterday
  <2>. QED
    <3>1. nightMark'.started = clock /\ UNCHANGED <<died, clock, nightRuns>>
      OBVIOUS
    <3>2. nightRuns <= 1 + Cardinality(died)
      BY <2>1, <2>3
    <3>3. \A u \in Task : task'[u].at = "claimed" =>
             nightRuns' <= Cardinality(died') /\ nightMark'.started \notin died'
      BY <2>2, <2>3, <3>1
    <3>4. nightRuns' <= 1 + Cardinality(died' \ {nightMark'.started})
      BY <2>4, <3>1, <3>2
    <3>5. clock' \in Nat /\ nightMark'.started # Yesterday
      BY <2>5, <3>1
    <3>. QED
      BY <2>1, <2>2, <3>1, <3>3, <3>4, <3>5 DEF RunsCounted
<1>8. SeenMeansClaimed'
  <2>1. startsAt \in Nat /\ task[t].begun \in Nat /\ nightMark'.started = clock /\ clock # Yesterday
    BY DEF Yesterday
  <2>2. LastTick' = LastTick /\ LastTick \in Int
    BY <2>1 DEF LastTick
  <2>3. seenThrough' /\ ~hourMoved' => clock >= LastTick
    BY <1>4, <2>1, <2>2 DEF SeenMeansClaimed
  <2>. QED
    BY <2>1, <2>2, <2>3 DEF SeenMeansClaimed
<1>. QED
  BY <1>5, <1>6, <1>7, <1>8 DEF NightStays

(* A step that leaves mark, clock, count and hour: whoever is at work was so before, and whoever
   has a time had it, or begins now, in the window. *)
LEMMA QuietKeeps ==
  ASSUME NightInv, NightTyped',
         \A u \in Task : AtWork(u)' <=> AtWork(u),
         \A u \in Task : AtWork(u)' =>
             task'[u].begun = task[u].begun /\ task'[u].claimed = task[u].claimed,
         \A u \in Task : Alive(u)' =>
             \/ Alive(u) /\ task'[u].begun = task[u].begun
             \/ task'[u].begun = clock /\ clock \in startsAt .. startsAt + WindowLen - 1,
         \A u \in Task : task'[u].at = "claimed" => task[u].at = "claimed",
         SeenMeansClaimed',
         UNCHANGED <<clock, startsAt, nightMark, nightRuns, died, hourMoved>>
  PROVE  NightStays
<1>. USE DEF NightInv
<1>1. TasksFit'
  <2>1. \A u \in Task : Alive(u)' =>
          /\ task'[u].begun <= clock /\ clock <= task'[u].begun + TaskLife
          /\ ~hourMoved => task'[u].begun \in startsAt .. startsAt + WindowLen - 1
    BY NightBounds DEF TasksFit, NightTyped
  <2>2. \A u \in Task : AtWork(u)' =>
          /\ task'[u].claimed = nightMark.started /\ ~nightMark.finished
          /\ task'[u].begun <= task'[u].claimed /\ task'[u].claimed <= clock
    BY DEF TasksFit
  <2>3. \A u, v \in Task : AtWork(u)' /\ AtWork(v)' => u = v
    BY DEF TasksFit
  <2>. QED
    BY <2>1, <2>2, <2>3 DEF TasksFit
<1>2. ClaimsAccounted'
  BY DEF ClaimsAccounted
<1>3. RunsCounted'
  BY DEF RunsCounted
<1>. QED
  BY <1>1, <1>2, <1>3 DEF NightStays

LEMMA BeginKeeps == ASSUME NightInv, NightTyped', NEW t \in Task, TaskBegins(t) PROVE NightStays
<1>. USE DEF NightInv, TaskBegins
<1>1. /\ \A u \in Task \ {t} : task'[u] = task[u]
      /\ \/ Due /\ task'[t].at = "due" /\ task'[t].begun = clock
         \/ task'[t].at = "off"
  BY DEF NightTyped, NoTask
<1>2. \A u \in Task : AtWork(u)' <=> AtWork(u)
  BY <1>1 DEF AtWork
<1>3. \A u \in Task : AtWork(u)' => task'[u] = task[u]
  BY <1>1 DEF AtWork
<1>4. \A u \in Task : Alive(u)' =>
         \/ Alive(u) /\ task'[u].begun = task[u].begun
         \/ task'[u].begun = clock /\ clock \in startsAt .. startsAt + WindowLen - 1
  BY <1>1, <1>2 DEF Alive, AtWork, Due
<1>5. \A u \in Task : task'[u].at = "claimed" => task[u].at = "claimed"
  BY <1>1
<1>6. SeenMeansClaimed'
  <2>1. startsAt \in Nat /\ clock \in Nat /\ LastTick \in Int
        /\ LastTick \in startsAt .. startsAt + WindowLen - 1
    BY NightBounds DEF NightTyped, LastTick
  <2>2. ASSUME ~Due, clock = LastTick
        PROVE  /\ nightMark.started # Yesterday
               /\ nightMark.finished \/ LastTick - nightMark.started <= LeaseLen
    BY <2>1, <2>2, NightBounds DEF Due, Takeable, NightTyped, Yesterday
  <2>3. LastTick' = LastTick /\ UNCHANGED <<clock, nightMark, hourMoved>>
    BY DEF LastTick
  <2>4. CASE seenThrough
    BY <2>1, <2>3, <2>4 DEF SeenMeansClaimed
  <2>5. CASE ~Due /\ clock = LastTick
    <3>1. clock >= LastTick
      BY <2>1, <2>5
    <3>. QED
      BY <2>2, <2>3, <2>5, <3>1 DEF SeenMeansClaimed
  <2>6. CASE ~seenThrough'
    BY <2>6 DEF SeenMeansClaimed
  <2>. QED
    BY <2>4, <2>5, <2>6
<1>. QED
  BY <1>2, <1>3, <1>4, <1>5, <1>6, QuietKeeps

(* Somebody else has it: what the look of the last tick saw is seen once more. *)
LEMMA LateClaimKeeps ==
  ASSUME NightInv, NightTyped', NEW t \in Task, TaskClaims(t), ~StillTakeable
  PROVE  NightStays
<1>. USE DEF NightInv, TaskClaims
<1>1. task[t].at = "due" /\ task' = [task EXCEPT ![t] = NoTask] /\ UNCHANGED nightMark
  OBVIOUS
<1>2. task'[t].at = "off" /\ \A u \in Task \ {t} : task'[u] = task[u]
  BY <1>1 DEF NightTyped, NoTask
<1>3. \A u \in Task : (AtWork(u)' <=> AtWork(u)) /\ (Alive(u)' => Alive(u) /\ task'[u] = task[u])
  BY <1>1, <1>2 DEF AtWork, Alive
<1>4. \A u \in Task : task'[u].at = "claimed" => task[u].at = "claimed"
  BY <1>2
<1>5. SeenMeansClaimed'
  <2>1. startsAt \in Nat /\ clock \in Nat /\ LastTick \in Int /\ LastTick' = LastTick
    BY NightBounds DEF NightTyped, LastTick
  <2>2. nightMark.started # Yesterday /\ (nightMark.finished \/ clock - nightMark.started <= LeaseLen)
    BY NightBounds DEF StillTakeable, Takeable, NightTyped, Yesterday
  <2>3. task[t].begun <= clock /\ task[t].begun \in Nat
    BY <1>1 DEF TasksFit, Alive, NightTyped
  <2>4. ASSUME task[t].begun = LastTick
        PROVE  clock >= LastTick /\ (nightMark.finished \/ LastTick - nightMark.started <= LeaseLen)
    BY <2>1, <2>2, <2>3, <2>4, NightBounds DEF NightTyped, Yesterday
  <2>. QED
    BY <1>1, <2>1, <2>2, <2>4 DEF SeenMeansClaimed
<1>. QED
  BY <1>1, <1>3, <1>4, <1>5, QuietKeeps DEF Alive


LEMMA QueueKeeps == ASSUME NightInv, NightTyped', NEW t \in Task, Queues(t) PROVE NightStays
<1>. USE DEF NightInv, Queues
<1>1. /\ task[t].at = "claimed" /\ task'[t].at = "queued"
      /\ task'[t].begun = task[t].begun /\ task'[t].claimed = task[t].claimed
      /\ \A u \in Task \ {t} : task'[u] = task[u]
  BY DEF NightTyped
<1>2. \A u \in Task : AtWork(u)' <=> AtWork(u)
  BY <1>1 DEF AtWork
<1>3. \A u \in Task : (Alive(u)' <=> Alive(u))
         /\ task'[u].begun = task[u].begun /\ task'[u].claimed = task[u].claimed
  BY <1>1, <1>2 DEF Alive
<1>4. TasksFit'
  BY <1>2, <1>3 DEF TasksFit
<1>5. ClaimsAccounted'
  BY <1>2 DEF ClaimsAccounted
<1>6. RunsCounted'
  <2>1. nightRuns <= Cardinality(died) /\ nightMark.started \notin died
    BY <1>1 DEF RunsCounted
  <2>2. died \ {nightMark.started} = died /\ Cardinality(died) \in Nat
    BY <2>1, FS_CardinalityType DEF RunsCounted
  <2>3. nightRuns' <= 1 + Cardinality(died \ {nightMark.started})
    <3>1. nightRuns \in Nat /\ nightRuns' = nightRuns + 1
      BY DEF NightTyped
    <3>. QED
      BY <2>1, <2>2, <3>1
  <2>4. nightMark.started # Yesterday
    BY <1>1 DEF TasksFit, AtWork, NightTyped, Yesterday
  <2>5. \A u \in Task : task'[u].at # "claimed"
    BY <1>1, <1>2 DEF TasksFit, AtWork
  <2>. QED
    BY <2>3, <2>4, <2>5 DEF RunsCounted
<1>7. SeenMeansClaimed'
  BY DEF SeenMeansClaimed, LastTick
<1>. QED
  BY <1>4, <1>5, <1>6, <1>7 DEF NightStays

LEMMA FinishKeeps == ASSUME NightInv, NightTyped', NEW t \in Task, Finishes(t) PROVE NightStays
<1>. USE DEF NightInv, Finishes
<1>1. /\ task[t].at = "rung" /\ task'[t].at = "off" /\ \A u \in Task \ {t} : task'[u] = task[u]
      /\ nightMark'.finished /\ nightMark'.started = nightMark.started
  BY DEF NightTyped, NoTask
<1>2. \A u \in Task : ~AtWork(u)'
  BY <1>1 DEF TasksFit, AtWork
<1>3. \A u \in Task : Alive(u)' => Alive(u) /\ task'[u] = task[u]
  BY <1>1 DEF Alive, AtWork
<1>4. TasksFit'
  BY <1>2, <1>3 DEF TasksFit
<1>5. ClaimsAccounted'
  BY <1>1 DEF ClaimsAccounted
<1>6. RunsCounted'
  <2>1. \A u \in Task : task'[u].at # "claimed"
    BY <1>2 DEF AtWork
  <2>. QED
    BY <1>1, <2>1 DEF RunsCounted
<1>7. SeenMeansClaimed'
  BY <1>1 DEF SeenMeansClaimed, LastTick
<1>. QED
  BY <1>4, <1>5, <1>6, <1>7 DEF NightStays

(* Killed at work: its claim is among the dead, once. *)
LEMMA KillKeeps == ASSUME NightInv, NightTyped', NEW t \in Task, Killed(t) PROVE NightStays
<1>. USE DEF NightInv, Killed
<1>1. /\ task[t].at \notin {"off", "again"} /\ task'[t].at \in {"off", "again"}
      /\ \A u \in Task \ {t} : task'[u] = task[u]
  BY DEF NightTyped, NoTask
<1>2. Alive(t)
  BY <1>1 DEF NightTyped, Stages, Alive, AtWork
<1>3. SeenMeansClaimed'
  BY DEF SeenMeansClaimed, LastTick
<1>4. \A u \in Task : Alive(u)' => u # t /\ Alive(u) /\ task'[u] = task[u]
  BY <1>1 DEF Alive, AtWork
<1>5. CASE task[t].at = "due"
  <2>1. \A u \in Task : AtWork(u)' <=> AtWork(u)
    BY <1>1, <1>5 DEF AtWork
  <2>2. \A u \in Task : AtWork(u)' => Alive(u)'
    BY DEF Alive
  <2>3. \A u \in Task : task'[u].at = "claimed" => task[u].at = "claimed"
    BY <1>1
  <2>. QED
    BY <1>3, <1>4, <1>5, <2>1, <2>2, <2>3, QuietKeeps
<1>6. CASE task[t].at # "due"
  <2>1. AtWork(t) /\ task[t].claimed = nightMark.started
    BY <1>2, <1>6 DEF Alive, TasksFit
  <2>2. died' = died \cup {nightMark.started}
    BY <1>6, <2>1
  <2>3. \A u \in Task : ~AtWork(u)'
    BY <1>1, <2>1 DEF TasksFit, AtWork
  <2>4. TasksFit'
    BY <1>4, <2>3 DEF TasksFit
  <2>5. ClaimsAccounted'
    BY <2>2 DEF ClaimsAccounted
  <2>6. RunsCounted'
    <3>1. IsFiniteSet(died')
      BY <2>2, FS_AddElement DEF RunsCounted
    <3>2. died' \ {nightMark.started} = died \ {nightMark.started}
      BY <2>2
    <3>3. \A c \in died' : c <= nightMark.started
      BY <2>1, <2>2 DEF RunsCounted, NightTyped
    <3>4. \A u \in Task : task'[u].at # "claimed"
      BY <2>3 DEF AtWork
    <3>. QED
      BY <3>1, <3>2, <3>3, <3>4 DEF RunsCounted
  <2>. QED
    BY <1>3, <2>4, <2>5, <2>6 DEF NightStays
<1>. QED
  BY <1>5, <1>6

(* Time passes for nobody beyond its task. *)
LEMMA TimeKeeps == ASSUME NightInv, NightTyped', Passes PROVE NightStays
<1>. USE DEF NightInv, Passes
<1>1. \A u \in Task : Alive(u)' <=> Alive(u)
  BY DEF Alive, AtWork
<1>2. TasksFit'
  <2>1. \A u \in Task : Alive(u) => clock < task[u].begun + TaskLife
    BY DEF Alive, AtWork
  <2>2. \A u \in Task : Alive(u) => task[u].begun <= clock + 1 /\ clock + 1 <= task[u].begun + TaskLife
    BY <2>1, NightBounds DEF TasksFit, NightTyped
  <2>3. \A u \in Task : AtWork(u) => task[u].claimed <= clock + 1
    BY DEF TasksFit, NightTyped
  <2>. QED
    BY <1>1, <2>2, <2>3 DEF TasksFit, AtWork
<1>3. ClaimsAccounted'
  BY DEF ClaimsAccounted, AtWork
<1>4. RunsCounted'
  <2>1. nightMark.started <= clock + 1
    BY DEF RunsCounted, NightTyped, Yesterday
  <2>. QED
    BY <2>1 DEF RunsCounted
<1>5. SeenMeansClaimed'
  <2>1. LastTick \in Int /\ LastTick' = LastTick
    BY NightBounds DEF LastTick, NightTyped
  <2>. QED
    BY <2>1 DEF SeenMeansClaimed, NightTyped
<1>. QED
  BY <1>2, <1>3, <1>4, <1>5 DEF NightStays

LEMMA NightKeepsInv == NightInv /\ [NightNext]_nightVars => NightInv'
<1>. SUFFICES ASSUME NightInv, [NightNext]_nightVars PROVE NightInv'
  OBVIOUS
<1>1. NightTyped' /\ QueuedIsRung'
  BY NightTypes, RingKeeps DEF NightInv
<1>2. ASSUME NEW t \in Task, TaskClaims(t) PROVE NightStays
  <2>1. task[t].at = "due" /\ seenThrough' = (seenThrough \/ task[t].begun = LastTick)
        /\ UNCHANGED <<clock, startsAt, nightRuns, died, hourMoved>>
    BY <1>2 DEF TaskClaims
  <2>2. CASE StillTakeable
    BY <1>1, <1>2, <2>1, <2>2, ClaimKeeps DEF TaskClaims
  <2>. QED
    BY <1>1, <1>2, <2>2, LateClaimKeeps
<1>3. ASSUME NEW t \in Task, CannotQueue(t) \/ Rings(t) PROVE NightStays
  <2>1. task' = [task EXCEPT ![t].at = "rung"] /\ task[t].at \in {"claimed", "queued"}
        /\ UNCHANGED <<clock, startsAt, nightMark, nightRuns, died, seenThrough, hourMoved>>
    BY <1>3 DEF CannotQueue, Rings
  <2>2. /\ task'[t].at = "rung" /\ \A u \in Task \ {t} : task'[u] = task[u]
        /\ task'[t].begun = task[t].begun /\ task'[t].claimed = task[t].claimed
    BY <2>1 DEF NightInv, NightTyped
  <2>3. \A u \in Task :
           /\ (AtWork(u)' <=> AtWork(u)) /\ (Alive(u)' <=> Alive(u))
           /\ task'[u].begun = task[u].begun /\ task'[u].claimed = task[u].claimed
           /\ task'[u].at = "claimed" => task[u].at = "claimed"
    BY <2>1, <2>2 DEF AtWork, Alive
  <2>4. SeenMeansClaimed'
    BY <2>1 DEF NightInv, SeenMeansClaimed, LastTick
  <2>. QED
    BY <1>1, <2>1, <2>3, <2>4, QuietKeeps
<1>4. ASSUME AsksNow \/ Drains \/ SyncEnds \/ UNCHANGED nightVars PROVE NightStays
  <2>1. UNCHANGED <<clock, startsAt, nightMark, task, nightRuns, died, seenThrough, hourMoved>>
    BY <1>4 DEF AsksNow, Drains, SyncEnds, nightVars
  <2>2. SeenMeansClaimed'
    BY <2>1 DEF NightInv, SeenMeansClaimed, LastTick
  <2>. QED
    BY <1>1, <2>1, <2>2, QuietKeeps DEF AtWork, Alive
<1>5. ASSUME NEW h \in StartHour, HourMoves(h) PROVE NightStays
  BY <1>5 DEF HourMoves, NightInv, NightStays, TasksFit, ClaimsAccounted, RunsCounted, SeenMeansClaimed,
     AtWork, Alive
<1>6. NightStays
  BY <1>1, <1>2, <1>3, <1>4, <1>5, BeginKeeps, QueueKeeps, FinishKeeps, KillKeeps, TimeKeeps
     DEF NightNext
<1>. QED
  BY <1>1, <1>6 DEF NightStays, NightInv

(* NightHolds: however ticks, kills and retries interleave and whatever the hours and the
   numbers, a night has one run and one more for every run killed, a killed run does not cost
   the day, and a queued sync is rung for (sched.due_organisations, sched.mark_started,
   sync_organisation). *)
THEOREM NightIsSafe == NightSpec => []NightHolds
<1>1. NightInv => NightHolds
  <2>. SUFFICES ASSUME NightInv PROVE NightHolds
    OBVIOUS
  <2>1. OncePerDay
    <3>1. /\ Cardinality(died) \in Nat /\ Cardinality(died \ {nightMark.started}) \in Nat
          /\ Cardinality(died \ {nightMark.started}) <= Cardinality(died)
      <4>1. IsFiniteSet(died) /\ IsFiniteSet(died \ {nightMark.started})
        BY FS_RemoveElement DEF NightInv, RunsCounted
      <4>. QED
        BY <4>1, FS_CardinalityType, FS_Subset
    <3>2. nightRuns \in Nat /\ nightRuns <= 1 + Cardinality(died \ {nightMark.started})
      BY DEF NightInv, NightTyped, RunsCounted
    <3>. QED
      BY <3>1, <3>2 DEF OncePerDay
  <2>2. NightIsKept
    <3>. SUFFICES ASSUME clock >= startsAt + WindowLen + TaskLife, seenThrough, ~hourMoved,
                         \A c \in died : LastTick - c > LeaseLen
                  PROVE  nightMark.finished /\ nightMark.started # Yesterday
      BY DEF NightIsKept
    <3>1. \A t \in Task : ~AtWork(t)
      <4>. SUFFICES ASSUME NEW t \in Task, AtWork(t) PROVE FALSE
        OBVIOUS
      <4>1. task[t].begun \in Nat /\ clock \in Nat /\ startsAt \in Nat
        BY NightBounds DEF NightInv, NightTyped
      <4>2. task[t].begun <= startsAt + WindowLen - 1 /\ clock <= task[t].begun + TaskLife
        BY <4>1, NightBounds DEF NightInv, TasksFit, Alive
      <4>. QED
        BY <4>1, <4>2, NightBounds
    <3>2. /\ nightMark.started # Yesterday
          /\ nightMark.finished \/ LastTick - nightMark.started <= LeaseLen
      BY DEF NightInv, SeenMeansClaimed
    <3>3. LastTick \in Int
      BY NightBounds DEF NightInv, NightTyped, LastTick
    <3>4. nightMark.started \in died
            => LastTick - nightMark.started > LeaseLen /\ nightMark.started \in Nat
      BY DEF NightInv, NightTyped
    <3>. QED
      BY <3>1, <3>2, <3>3, <3>4, NightBounds DEF NightInv, ClaimsAccounted
  <2>. QED
    BY <2>1, <2>2 DEF NightHolds, NightInv
<1>. QED
  BY <1>1, NightInitInv, NightKeepsInv, PTL DEF NightSpec

-----------------------------------------------------------------------------
(* Every set of naturals that has a member has a least one. *)
LEMMA LeastNatural ==
  ASSUME NEW T, T \subseteq Nat, T # {}
  PROVE  \E x \in T : \A y \in T : x <= y
<1>1. PICK x \in T : \A y \in T : ~(<<y, x>> \in OpToRel(<, Nat))
  BY WFMin, NatLessThanWellFounded
<1>2. \A y \in T : <<y, x>> \in OpToRel(<, Nat) <=> y < x
  BY DEF OpToRel
<1>3. \A y \in T : ~(y < x)
  BY <1>1, <1>2
<1>4. \A y \in T : x \in Nat /\ y \in Nat
  OBVIOUS
<1>. QED
  BY <1>3, <1>4

(* What holds of 0 and goes on from each number to the next holds up to N. *)
LEMMA Upward ==
  ASSUME NEW N \in Nat, NEW G, 0 \in G, \A n \in 1..N : n - 1 \in G => n \in G
  PROVE  0..N \subseteq G
<1> DEFINE Unfit == (0..N) \ G
<1>1. SUFFICES ASSUME Unfit # {} PROVE FALSE
  OBVIOUS
<1>2. Unfit \subseteq Nat
  OBVIOUS
<1>3. PICK n \in Unfit : \A m \in Unfit : n <= m
  BY <1>1, <1>2, LeastNatural
<1>4. n \in 1..N /\ n - 1 \in 0..N /\ ~(n <= n - 1)
  BY <1>3
<1>5. n - 1 \in G
  BY <1>3, <1>4
<1>. QED
  BY <1>3, <1>4, <1>5

(* The values of a recursion that starts with a and takes these steps. *)
Follows(f, N, a, step) == f[0] = a /\ \A n \in 1..N : f[n] = step[n][f[n - 1]]

(* A recursion whose steps stay in a set has a solution, and all of it is in the set. *)
LEMMA RecursionFills ==
  ASSUME NEW N \in Nat, NEW S, NEW a \in S, NEW step \in [1..N -> [S -> S]]
  PROVE  \E f \in [0..N -> S] : Follows(f, N, a, step)
<1> DEFINE Solves(f, m) == \A n \in 0..m : f[n] = IF n = 0 THEN a ELSE step[n][f[n - 1]]
           G == {m \in 0..N : \E f \in [0..m -> S] : Solves(f, m)}
<1>1. 0 \in G
  <2> DEFINE f == [n \in 0..0 |-> a]
  <2>1. f \in [0..0 -> S] /\ Solves(f, 0)
    OBVIOUS
  <2>2. \E g \in [0..0 -> S] : Solves(g, 0)
    BY <2>1
  <2>3. 0 \in 0..N
    OBVIOUS
  <2> HIDE DEF f, Solves
  <2>. QED
    BY <2>2, <2>3
<1>2. ASSUME NEW m \in 1..N, m - 1 \in G PROVE m \in G
  <2>1. PICK f \in [0..(m - 1) -> S] : Solves(f, m - 1)
    BY <1>2
  <2>2. f[m - 1] \in S /\ step[m] \in [S -> S]
    OBVIOUS
  <2>3. step[m][f[m - 1]] \in S
    BY <2>2
  <2> DEFINE g == [n \in 0..m |-> IF n = m THEN step[m][f[m - 1]] ELSE f[n]]
  <2>4. g \in [0..m -> S]
    BY <2>3
  <2>5. ASSUME NEW n \in 0..m PROVE g[n] = IF n = 0 THEN a ELSE step[n][g[n - 1]]
    <3>1. CASE n = m
      <4>1. n # 0 /\ g[n - 1] = f[m - 1] /\ g[n] = step[m][f[m - 1]]
        BY <3>1
      <4>. QED
        BY <4>1, <3>1
    <3>2. CASE n # m
      <4>1. n \in 0..(m - 1) /\ g[n] = f[n] /\ (n # 0 => g[n - 1] = f[n - 1])
        BY <3>2
      <4>. QED
        BY <4>1, <2>1
    <3>. QED
      BY <3>1, <3>2
  <2> HIDE DEF g
  <2>6. Solves(g, m)
    BY <2>5
  <2>. QED
    BY <2>4, <2>6
<1> HIDE DEF G
<1>3. 0..N \subseteq G
  BY <1>1, <1>2, Upward
<1>4. N \in G
  BY <1>3
<1>5. PICK f \in [0..N -> S] : Solves(f, N)
  BY <1>4 DEF G
<1>6. f[0] = a /\ \A n \in 1..N : f[n] = step[n][f[n - 1]]
  <2>1. 0 \in 0..N /\ \A n \in 1..N : n \in 0..N /\ n # 0
    OBVIOUS
  <2>. QED
    BY <1>5, <2>1
<1>. QED
  BY <1>6 DEF Follows

(* The sums a total is made of. *)
LEMMA TotalSums ==
  ASSUME NEW s \in Seq(Nat)
  PROVE  \E sum \in [0..Len(s) -> Nat] :
           /\ sum[0] = 0 /\ \A n \in 1..Len(s) : sum[n] = sum[n - 1] + s[n]
           /\ Total(s) = sum[Len(s)]
<1> DEFINE N == Len(s)
           Solves(f) == f = [n \in 0..N |-> IF n = 0 THEN 0 ELSE f[n - 1] + s[n]]
           sum == CHOOSE f : Solves(f)
<1>1. N \in Nat /\ \A n \in 1..N : s[n] \in Nat
  BY LenProperties, ElementOfSeq
<1>2. Total(s) = sum[N]
  BY DEF Total
<1>3. \E f : Solves(f)
  <2> DEFINE step == [n \in 1..N |-> [x \in Nat |-> x + s[n]]]
  <2>1. step \in [1..N -> [Nat -> Nat]]
    BY <1>1
  <2>2. \A x \in Nat, n \in 1..N : step[n][x] = x + s[n]
    OBVIOUS
  <2> HIDE DEF step, N
  <2>a. N \in Nat /\ 0 \in Nat
    BY <1>1
  <2>3. PICK f \in [0..N -> Nat] : f[0] = 0 /\ \A n \in 1..N : f[n] = step[n][f[n - 1]]
    <3>1. \E f \in [0..N -> Nat] : Follows(f, N, 0, step)
      BY <2>a, <2>1, RecursionFills
    <3>. QED
      BY <3>1 DEF Follows
  <2>4. \A n \in 0..N : n = 0 \/ (n \in 1..N /\ f[n - 1] \in Nat)
    BY <2>a
  <2>5. \A n \in 0..N : f[n] = IF n = 0 THEN 0 ELSE f[n - 1] + s[n]
    BY <2>2, <2>3, <2>4
  <2>6. Solves(f)
    BY <2>5
  <2> HIDE DEF Solves
  <2>. QED
    BY <2>6
<1> HIDE DEF N
<1>4. Solves(sum)
  <2> HIDE DEF Solves
  <2>. QED
    BY <1>3
<1>5. sum = [n \in 0..N |-> IF n = 0 THEN 0 ELSE sum[n - 1] + s[n]]
  BY <1>4
<1> HIDE DEF sum, Solves
<1>6. sum[0] = 0
  BY <1>1, <1>5
<1>7. \A n \in 1..N : sum[n] = sum[n - 1] + s[n]
  <2>1. \A n \in 1..N : n \in 0..N /\ n # 0
    BY <1>1
  <2>. QED
    BY <1>5, <2>1
<1> DEFINE G == {n \in 0..N : sum[n] \in Nat}
<1>8. 0 \in G
  BY <1>1, <1>6
<1>9. \A n \in 1..N : n - 1 \in G => n \in G
  BY <1>1, <1>7
<1> HIDE DEF G
<1>10. 0..N \subseteq G
  BY <1>1, <1>8, <1>9, Upward
<1>11. sum \in [0..N -> Nat]
  BY <1>5, <1>10 DEF G
<1>. QED
  BY <1>2, <1>6, <1>7, <1>11 DEF N

(* A total is a number, and each of its parts is within it. *)
LEMMA TotalIsNat ==
  ASSUME NEW s \in Seq(Nat)
  PROVE  Total(s) \in Nat /\ \A i \in 1..Len(s) : s[i] <= Total(s)
<1> DEFINE N == Len(s)
<1>1. N \in Nat /\ \A n \in 1..N : s[n] \in Nat
  BY LenProperties, ElementOfSeq
<1>2. PICK sum \in [0..N -> Nat] :
        /\ sum[0] = 0 /\ \A n \in 1..N : sum[n] = sum[n - 1] + s[n]
        /\ Total(s) = sum[N]
  BY TotalSums
<1> HIDE DEF N
<1> DEFINE G == {n \in 0..N : sum[n] \in Nat /\ \A i \in 1..n : s[i] <= sum[n]}
<1>3. 0 \in G
  BY <1>1, <1>2
<1>4. ASSUME NEW n \in 1..N, n - 1 \in G PROVE n \in G
  <2>1. sum[n] = sum[n - 1] + s[n] /\ sum[n - 1] \in Nat /\ s[n] \in Nat
    BY <1>1, <1>2, <1>4
  <2>2. \A i \in 1..(n - 1) : s[i] <= sum[n - 1] /\ s[i] \in Nat
    BY <1>1, <1>4
  <2>3. \A i \in 1..n : i = n \/ i \in 1..(n - 1)
    BY <1>1
  <2>4. ASSUME NEW i \in 1..n PROVE s[i] <= sum[n]
    BY <2>1, <2>2, <2>3
  <2>5. n \in 0..N /\ sum[n] \in Nat
    BY <1>1, <2>1
  <2>. QED
    BY <2>4, <2>5
<1> HIDE DEF G
<1>5. 0..N \subseteq G
  BY <1>1, <1>3, <1>4, Upward
<1>6. N \in G
  BY <1>1, <1>5
<1>. QED
  BY <1>2, <1>6 DEF G, N

(* Two sequences that differ in one place have totals that differ by as much. *)
LEMMA TotalMoves ==
  ASSUME NEW s \in Seq(Nat), NEW t \in Seq(Nat), Len(t) = Len(s), NEW k \in 1..Len(s),
         \A i \in 1..Len(s) : i # k => t[i] = s[i]
  PROVE  Total(t) + s[k] = Total(s) + t[k]
<1> DEFINE N == Len(s)
<1>1. N \in Nat /\ \A n \in 1..N : s[n] \in Nat /\ t[n] \in Nat
  BY LenProperties, ElementOfSeq
<1>2. PICK f \in [0..N -> Nat] :
        /\ f[0] = 0 /\ \A n \in 1..N : f[n] = f[n - 1] + s[n]
        /\ Total(s) = f[N]
  BY TotalSums
<1>3. PICK g \in [0..N -> Nat] :
        /\ g[0] = 0 /\ \A n \in 1..N : g[n] = g[n - 1] + t[n]
        /\ Total(t) = g[N]
  BY TotalSums
<1>a. k \in 1..N /\ \A i \in 1..N : i # k => t[i] = s[i]
  OBVIOUS
<1> HIDE DEF N
<1> DEFINE G == {n \in 0..N : IF n < k THEN g[n] = f[n] ELSE g[n] + s[k] = f[n] + t[k]}
<1>4. 0 \in G
  BY <1>1, <1>2, <1>3, <1>a
<1>5. ASSUME NEW n \in 1..N, n - 1 \in G PROVE n \in G
  <2>1. /\ g[n] = g[n - 1] + t[n] /\ f[n] = f[n - 1] + s[n]
        /\ g[n - 1] \in Nat /\ f[n - 1] \in Nat
        /\ t[n] \in Nat /\ s[n] \in Nat /\ t[k] \in Nat /\ s[k] \in Nat
    <3>1. n - 1 \in 0..N
      BY <1>1
    <3>. QED
      BY <1>1, <1>2, <1>3, <1>a, <3>1
  <2>2. n # k => t[n] = s[n]
    BY <1>a
  <2>3. IF n - 1 < k THEN g[n - 1] = f[n - 1] ELSE g[n - 1] + s[k] = f[n - 1] + t[k]
    BY <1>5
  <2>4. n \in 0..N
    BY <1>1
  <2>5. IF n < k THEN g[n] = f[n] ELSE g[n] + s[k] = f[n] + t[k]
    <3>1. CASE n < k
      BY <1>a, <2>1, <2>2, <2>3, <3>1
    <3>2. CASE n = k
      BY <1>a, <2>1, <2>3, <3>2
    <3>3. CASE n > k
      <4>1. n # k /\ ~(n - 1 < k) /\ ~(n < k)
        BY <1>1, <1>a, <3>3
      <4>2. g[n - 1] + s[k] = f[n - 1] + t[k] /\ t[n] = s[n]
        BY <2>2, <2>3, <4>1
      <4>3. g[n] + s[k] = f[n] + t[k]
        <5>1. PICK a, b, u, v, w \in Nat :
                /\ g[n - 1] = a /\ f[n - 1] = b /\ t[n] = u /\ s[n] = u /\ s[k] = v /\ t[k] = w
                /\ g[n] = a + u /\ f[n] = b + u /\ a + v = b + w
          BY <2>1, <4>2
        <5>2. (a + u) + v = (b + u) + w
          BY <5>1
        <5>. QED
          BY <5>1, <5>2
      <4>. QED
        BY <4>1, <4>3
    <3>. QED
      BY <1>a, <3>1, <3>2, <3>3
  <2>. QED
    BY <2>4, <2>5
<1> HIDE DEF G
<1>6. 0..N \subseteq G
  BY <1>1, <1>4, <1>5, Upward
<1>7. N \in G /\ ~(N < k)
  BY <1>1, <1>6, <1>a
<1>. QED
  BY <1>2, <1>3, <1>7 DEF G

(* A total of numbers up to L, all but those at S of them 0. *)
LEMMA TotalIsWithin ==
  ASSUME NEW s \in Seq(Nat), NEW L \in Nat, NEW S, S \subseteq 1..Len(s),
         \A i \in S : s[i] <= L, \A i \in (1..Len(s)) \ S : s[i] = 0
  PROVE  Total(s) <= Cardinality(S) * L
<1> DEFINE N == Len(s)
<1>1. N \in Nat /\ \A n \in 1..N : s[n] \in Nat
  BY LenProperties, ElementOfSeq
<1>2. PICK f \in [0..N -> Nat] :
        /\ f[0] = 0 /\ \A n \in 1..N : f[n] = f[n - 1] + s[n]
        /\ Total(s) = f[N]
  BY TotalSums
<1>a. S \subseteq 1..N /\ (\A i \in S : s[i] <= L) /\ \A i \in (1..N) \ S : s[i] = 0
  OBVIOUS
<1> HIDE DEF N
<1> DEFINE C(n) == Cardinality(S \cap (1..n))
           G == {n \in 0..N : f[n] <= C(n) * L}
<1>b. \A n \in 0..N : IsFiniteSet(S \cap (1..n)) /\ C(n) \in Nat
  <2> TAKE n \in 0..N
  <2>1. IsFiniteSet(1..n)
    BY <1>1, FS_Interval
  <2>2. S \cap (1..n) \subseteq 1..n
    OBVIOUS
  <2>3. IsFiniteSet(S \cap (1..n))
    BY <2>1, <2>2, FS_Subset
  <2>. QED
    BY <2>3, FS_CardinalityType
<1>4. 0 \in G
  <2>1. C(0) = 0
    <3>1. S \cap (1..0) = {}
      OBVIOUS
    <3>. QED
      BY <3>1, FS_EmptySet
  <2>. QED
    BY <1>1, <1>2, <2>1
<1>5. ASSUME NEW n \in 1..N, n - 1 \in G PROVE n \in G
  <2>1. /\ f[n] = f[n - 1] + s[n] /\ f[n - 1] <= C(n - 1) * L
        /\ f[n - 1] \in Nat /\ s[n] \in Nat
    BY <1>1, <1>2, <1>5
  <2>2. n \in 0..N /\ n - 1 \in 0..N
    BY <1>1
  <2>3. CASE n \in S
    <3>1. S \cap (1..n) = (S \cap (1..(n - 1))) \cup {n} /\ n \notin S \cap (1..(n - 1))
      BY <2>3, <2>2
    <3>2. C(n) = C(n - 1) + 1
      BY <1>b, <2>2, <3>1, FS_AddElement
    <3>3. s[n] <= L
      BY <1>a, <2>3
    <3> DEFINE c == C(n - 1)
    <3>4. c \in Nat
      BY <1>b, <2>2
    <3>5. f[n] <= c * L + L
      <4> DEFINE p == c * L
      <4>1. p \in Nat /\ f[n - 1] <= p
        BY <2>1, <3>4
      <4> HIDE DEF p, c
      <4>2. f[n] <= p + L
        BY <2>1, <3>3, <4>1
      <4>. QED
        BY <4>2 DEF p
    <3>6. (c + 1) * L = c * L + L
      <4> HIDE DEF c
      <4>. QED
        BY <3>4
    <3>7. f[n] <= C(n) * L
      <4> HIDE DEF C
      <4>. QED
        BY <3>2, <3>5, <3>6
    <3>. QED
      BY <2>2, <3>7
  <2>4. CASE n \notin S
    <3>1. S \cap (1..n) = S \cap (1..(n - 1))
      BY <2>4, <2>2
    <3>2. s[n] = 0
      BY <1>a, <2>4
    <3>3. f[n] = f[n - 1]
      BY <2>1, <3>2
    <3>4. C(n) = C(n - 1)
      BY <3>1
    <3> HIDE DEF C
    <3>. QED
      BY <2>1, <2>2, <3>3, <3>4
  <2>. QED
    BY <2>3, <2>4
<1> HIDE DEF G
<1>6. 0..N \subseteq G
  BY <1>1, <1>4, <1>5, Upward
<1>7. N \in G
  BY <1>1, <1>6
<1>8. S \cap (1..N) = S
  BY <1>a
<1>. QED
  BY <1>2, <1>7, <1>8 DEF G

(* One more number. *)
LEMMA TotalAppends ==
  ASSUME NEW s \in Seq(Nat), NEW e \in Nat
  PROVE  Total(Append(s, e)) = Total(s) + e
<1> DEFINE N == Len(s)
           t == Append(s, e)
<1>1. N \in Nat /\ \A n \in 1..N : s[n] \in Nat
  BY LenProperties, ElementOfSeq
<1>2. t \in Seq(Nat) /\ Len(t) = N + 1 /\ t[N + 1] = e /\ \A i \in 1..N : t[i] = s[i]
  BY AppendProperties
<1>3. PICK f \in [0..N -> Nat] :
        /\ f[0] = 0 /\ \A n \in 1..N : f[n] = f[n - 1] + s[n]
        /\ Total(s) = f[N]
  BY TotalSums
<1> HIDE DEF t, N
<1>4. PICK g \in [0..Len(t) -> Nat] :
        /\ g[0] = 0 /\ \A n \in 1..Len(t) : g[n] = g[n - 1] + t[n]
        /\ Total(t) = g[Len(t)]
  BY <1>2, TotalSums
<1> DEFINE G == {n \in 0..N : g[n] = f[n]}
<1>5. 0 \in G
  BY <1>1, <1>3, <1>4
<1>6. ASSUME NEW n \in 1..N, n - 1 \in G PROVE n \in G
  <2>1. n \in 1..Len(t) /\ n \in 0..N
    BY <1>1, <1>2
  <2>2. g[n] = g[n - 1] + t[n] /\ f[n] = f[n - 1] + s[n] /\ t[n] = s[n]
    BY <1>2, <1>3, <1>4, <2>1
  <2>. QED
    BY <1>6, <2>1, <2>2
<1> HIDE DEF G
<1>7. 0..N \subseteq G
  BY <1>1, <1>5, <1>6, Upward
<1>8. g[N] = f[N]
  BY <1>1, <1>7 DEF G
<1>9. N + 1 \in 1..Len(t) /\ (N + 1) - 1 = N
  BY <1>1, <1>2
<1>10. g[N + 1] = g[N] + e
  BY <1>2, <1>4, <1>9
<1>. QED
  BY <1>2, <1>3, <1>4, <1>8, <1>10 DEF t

(* A batch as it may be cut is a sequence of chunks. *)
LEMMA CutIsBatch ==
  ASSUME NEW b \in MayBeCut
  PROVE  b \in Seq(ChunkNo) /\ Len(b) \in 1..MaxBatchSize /\ OldestFirst(b) /\ Fills(b)
<1>1. PICK n \in 1..MaxBatchSize : b \in [1..n -> ChunkNo]
  BY DEF MayBeCut
<1>2. n \in Nat
  BY <1>1, EmbeddingAssumption
<1>3. b \in Seq(ChunkNo) /\ Len(b) = n
  BY <1>1, <1>2, SeqDef, LenProperties
<1>4. OldestFirst(b) /\ Fills(b)
  BY DEF MayBeCut
<1>. QED
  BY <1>1, <1>3, <1>4

(* Chunks, oldest first and within the bounds, are a batch that may be cut. *)
LEMMA BatchIsCut ==
  ASSUME NEW b \in Seq(ChunkNo), Len(b) \in 1..MaxBatchSize, OldestFirst(b), Fills(b)
  PROVE  b \in MayBeCut
<1>1. b \in [1..Len(b) -> ChunkNo]
  BY LenProperties, ElementOfSeq
<1>2. b \in UNION {[1..n -> ChunkNo] : n \in 1..MaxBatchSize}
  BY <1>1
<1>. QED
  BY <1>2 DEF MayBeCut

(* The tokens of chunks, of a table of numbers. *)
LEMMA TokensAre ==
  ASSUME NEW of \in Seq(Nat), Len(of) = Len(Estimate), NEW b \in Seq(ChunkNo)
  PROVE  /\ [i \in DOMAIN b |-> of[b[i]]] \in Seq(Nat)
         /\ Len([i \in DOMAIN b |-> of[b[i]]]) = Len(b)
         /\ Tokens(of, b) \in Nat
<1> DEFINE t == [i \in DOMAIN b |-> of[b[i]]]
<1>1. Len(b) \in Nat /\ DOMAIN b = 1..Len(b) /\ \A i \in 1..Len(b) : b[i] \in ChunkNo
  BY LenProperties, ElementOfSeq
<1>2. Len(of) \in Nat /\ ChunkNo = 1..Len(of) /\ \A c \in ChunkNo : of[c] \in Nat
  BY LenProperties, ElementOfSeq, EmbeddingAssumption DEF ChunkNo
<1>3. t \in [1..Len(b) -> Nat]
  BY <1>1, <1>2
<1>4. t \in Seq(Nat) /\ Len(t) = Len(b)
  BY <1>1, <1>3, SeqDef, LenProperties
<1>. QED
  BY <1>4, TotalIsNat DEF Tokens

(* No batch costs more than the largest one, and there is a largest one. *)
LEMMA BillsAreBounded ==
  \E M \in Nat : \A b \in MayBeCut : Bill(b) \in Nat /\ Bill(b) <= M
<1> DEFINE L == Total(Billed)
           M == MaxBatchSize * L
<1>1. MaxBatchSize \in Nat /\ Billed \in Seq(Nat) /\ Len(Billed) = Len(Estimate)
  BY EmbeddingAssumption
<1>2. L \in Nat /\ \A c \in 1..Len(Billed) : Billed[c] <= L
  BY <1>1, TotalIsNat
<1> HIDE DEF L
<1>3. M \in Nat
  BY <1>1, <1>2
<1>4. ASSUME NEW b \in MayBeCut PROVE Bill(b) \in Nat /\ Bill(b) <= M
  <2> DEFINE t == [i \in DOMAIN b |-> Billed[b[i]]]
  <2>1. b \in Seq(ChunkNo) /\ Len(b) \in 1..MaxBatchSize
    BY CutIsBatch
  <2>2. t \in Seq(Nat) /\ Len(t) = Len(b) /\ Bill(b) \in Nat
    BY <1>1, <2>1, TokensAre DEF Bill
  <2>3. DOMAIN b = 1..Len(b) /\ \A i \in 1..Len(b) : b[i] \in 1..Len(Billed)
    BY <1>1, <2>1, ElementOfSeq, LenProperties, EmbeddingAssumption DEF ChunkNo
  <2>4. \A i \in 1..Len(b) : t[i] <= L
    BY <1>2, <2>3
  <2>5. Bill(b) = Total(t)
    BY DEF Bill, Tokens
  <2> HIDE DEF t
  <2> DEFINE N == Len(b)
  <2>6. N \in Nat /\ N <= MaxBatchSize
    BY <1>1, <2>1
  <2>7. Cardinality(1..N) = N
    BY <2>6, FS_Interval
  <2>8. Total(t) <= Cardinality(1..N) * L
    <3>1. 1..N \subseteq 1..Len(t) /\ \A i \in (1..Len(t)) \ (1..N) : t[i] = 0
      BY <2>2
    <3>2. \A i \in 1..N : t[i] <= L
      BY <2>4
    <3> HIDE DEF N
    <3>. QED
      BY <1>2, <2>2, <3>1, <3>2, TotalIsWithin
  <2> HIDE DEF N
  <2>9. N * L <= M
    <3>1. \A x, y, z \in Nat : x <= y => x * z <= y * z
      OBVIOUS
    <3>. QED
      BY <1>1, <1>2, <2>6, <3>1
  <2>10. Total(t) <= N * L
    BY <2>7, <2>8
  <2>11. N * L \in Nat
    BY <1>2, <2>6
  <2> HIDE DEF M
  <2>. QED
    BY <1>3, <2>2, <2>5, <2>9, <2>10, <2>11
<1> HIDE DEF M
<1>. QED
  BY <1>3, <1>4

(* So LargestBill is a number that no batch's bill exceeds. *)
LEMMA LargestIsLargest ==
  LargestBill \in Nat /\ \A b \in MayBeCut : Bill(b) \in Nat /\ Bill(b) <= LargestBill
<1> DEFINE B == {0} \cup {Bill(b) : b \in MayBeCut}
           U == {m \in Nat : \A y \in B : y <= m}
<1>1. PICK M \in Nat : \A b \in MayBeCut : Bill(b) \in Nat /\ Bill(b) <= M
  BY BillsAreBounded
<1>2. B \subseteq Nat /\ 0 \in B /\ M \in U
  BY <1>1
<1>3. \A b \in MayBeCut : Bill(b) \in B
  OBVIOUS
<1>4. LargestBill = Max(B)
  BY DEF LargestBill
<1> HIDE DEF B
<1>5. PICK u \in U : \A m \in U : u <= m
  BY <1>2, LeastNatural
<1>6. u \in B
  <2> SUFFICES ASSUME u \notin B PROVE FALSE
    OBVIOUS
  <2>1. u # 0 /\ u \in Nat
    BY <1>2, <1>5
  <2>2. \A y \in B : y <= u - 1
    BY <1>2, <1>5, <2>1
  <2>3. u - 1 \in U /\ ~(u <= u - 1)
    BY <2>1, <2>2
  <2>. QED
    BY <1>5, <2>3
<1>7. u \in B /\ \A y \in B : u >= y
  BY <1>2, <1>5, <1>6
<1>8. Max(B) \in B /\ \A y \in B : Max(B) >= y
  BY <1>7 DEF Max
<1>. QED
  BY <1>1, <1>2, <1>3, <1>4, <1>8

(* A chunk is placed on the last batch, if it joins it, or on one of its own. *)
LEMMA PlacedCuts ==
  ASSUME NEW plan \in Seq(MayBeCut), NEW c \in ChunkNo, NEW S,
         \A b \in 1..Len(plan) : Range(plan[b]) \subseteq S,
         \A d \in S : d < c
  PROVE  /\ Placed(plan, c) \in Seq(MayBeCut)
         /\ \A b \in 1..Len(Placed(plan, c)) : Range(Placed(plan, c)[b]) \subseteq S \cup {c}
<1> DEFINE last == Len(plan)
           old == plan[last]
           new == Append(old, c)
<1>0. last \in Nat /\ DOMAIN plan = 1..last /\ ChunkNo \subseteq Nat /\ c \in Nat
  BY LenProperties, EmbeddingAssumption DEF ChunkNo
<1>1. MaxBatchSize \in Nat \ {0} /\ Estimate \in Seq(Nat)
  BY EmbeddingAssumption
<1>2. CASE last # 0 /\ Joins(old, c)
  <2>1. last \in 1..last /\ old \in MayBeCut
    BY <1>0, <1>2, ElementOfSeq
  <2>2. /\ old \in Seq(ChunkNo) /\ OldestFirst(old) /\ Len(old) \in 1..MaxBatchSize
        /\ Len(old) < MaxBatchSize /\ Tokens(Estimate, old) + Estimate[c] <= MaxBatchTokens
    BY <1>2, <2>1, CutIsBatch DEF Joins
  <2> DEFINE n == Len(old)
  <2>3. /\ new \in Seq(ChunkNo) /\ Len(new) = n + 1 /\ new[n + 1] = c
        /\ \A i \in 1..n : new[i] = old[i]
    BY <2>2, AppendProperties
  <2>4. n \in Nat /\ DOMAIN old = 1..n /\ DOMAIN new = 1..(n + 1)
    BY <2>2, <2>3, LenProperties
  <2>5. \A i \in 1..n : old[i] \in S /\ old[i] < c /\ old[i] \in Nat
    <3>1. \A i \in 1..n : old[i] \in Range(old) /\ old[i] \in ChunkNo
      BY <2>2, <2>4, ElementOfSeq DEF Range
    <3>. QED
      BY <1>0, <2>1, <3>1
  <2>a. \A i \in 1..(n + 1) : i = n + 1 \/ i \in 1..n
    BY <2>4
  <2>6. OldestFirst(new)
    <3>1. \A i, j \in 1..n : i < j => old[i] < old[j]
      BY <2>2, <2>4 DEF OldestFirst
    <3> HIDE DEF new, n, old
    <3>2. ASSUME NEW i \in 1..(n + 1), NEW j \in 1..(n + 1), i < j PROVE new[i] < new[j]
      <4>1. i \in 1..n
        BY <2>4, <3>2
      <4>2. CASE j = n + 1
        BY <2>3, <2>5, <4>1, <4>2
      <4>3. CASE j \in 1..n
        BY <2>3, <3>1, <3>2, <4>1, <4>3
      <4>. QED
        BY <2>a, <4>2, <4>3
    <3>. QED
      BY <2>4, <3>2 DEF OldestFirst
  <2>7. Tokens(Estimate, new) = Tokens(Estimate, old) + Estimate[c]
    <3> DEFINE e(b) == [i \in DOMAIN b |-> Estimate[b[i]]]
    <3>0. Estimate[c] \in Nat
      BY <1>1, ElementOfSeq, LenProperties DEF ChunkNo
    <3>1. e(old) \in Seq(Nat) /\ Len(e(old)) = n
      <4> HIDE DEF old
      <4>. QED
        BY <1>1, <2>2, TokensAre
    <3>2. e(new) \in Seq(Nat) /\ Len(e(new)) = n + 1
      BY <1>1, <2>3, TokensAre
    <3> DEFINE x == Append(e(old), Estimate[c])
    <3>3. x \in Seq(Nat) /\ Len(x) = n + 1 /\ x[n + 1] = Estimate[c] /\ \A i \in 1..n : x[i] = e(old)[i]
      BY <3>0, <3>1, AppendProperties
    <3>4. \A i \in 1..(n + 1) : e(new)[i] = x[i]
      <4>1. \A i \in 1..n : e(new)[i] = Estimate[old[i]] /\ e(old)[i] = Estimate[old[i]]
        BY <2>3, <2>4
      <4>2. e(new)[n + 1] = Estimate[c]
        BY <2>3, <2>4
      <4> HIDE DEF x, e
      <4>. QED
        BY <2>a, <3>3, <4>1, <4>2
    <3>5. e(new) = x
      <4> HIDE DEF x, e
      <4>. QED
        BY <3>2, <3>3, <3>4, SeqEqual
    <3>6. Total(x) = Total(e(old)) + Estimate[c]
      <4> HIDE DEF e
      <4>. QED
        BY <3>0, <3>1, TotalAppends
    <3>. QED
      BY <3>5, <3>6 DEF Tokens
  <2>8. new \in MayBeCut
    <3>1. Len(new) \in 1..MaxBatchSize
      BY <1>1, <2>2, <2>3, <2>4
    <3>2. Fills(new)
      BY <2>2, <2>7, <3>1 DEF Fills
    <3> HIDE DEF new
    <3>. QED
      BY <2>3, <2>6, <3>1, <3>2, BatchIsCut
  <2>9. Range(new) \subseteq S \cup {c}
    <3> HIDE DEF new, old
    <3>. QED
      BY <2>3, <2>4, <2>5, <2>a DEF Range
  <2> DEFINE p == [plan EXCEPT ![last] = new]
  <2>10. Placed(plan, c) = p
    BY <1>2 DEF Placed
  <2> HIDE DEF new, old
  <2>11. p \in Seq(MayBeCut) /\ Len(p) = last
    BY <2>1, <2>8, ExceptSeq
  <2>12. \A b \in 1..last : p[b] = IF b = last THEN new ELSE plan[b]
    BY <1>0
  <2>13. \A b \in 1..last : Range(p[b]) \subseteq S \cup {c}
    BY <2>9, <2>12
  <2> HIDE DEF p
  <2>. QED
    BY <2>10, <2>11, <2>13
<1>3. CASE ~(last # 0 /\ Joins(old, c))
  <2> DEFINE one == <<c>>
             p == Append(plan, one)
  <2>1. Placed(plan, c) = p
    BY <1>3 DEF Placed
  <2>2. one \in Seq(ChunkNo) /\ Len(one) = 1 /\ DOMAIN one = 1..1 /\ one[1] = c
    OBVIOUS
  <2>3. OldestFirst(one) /\ Fills(one) /\ Range(one) = {c}
    BY <2>2 DEF OldestFirst, Fills, Range
  <2>4. 1 \in 1..MaxBatchSize
    BY <1>1
  <2> HIDE DEF one
  <2>5. one \in MayBeCut
    BY <2>2, <2>3, <2>4, BatchIsCut
  <2>6. /\ p \in Seq(MayBeCut) /\ Len(p) = last + 1 /\ p[last + 1] = one
        /\ \A b \in 1..last : p[b] = plan[b]
    BY <2>5, AppendProperties
  <2>7. \A b \in 1..(last + 1) : b = last + 1 \/ b \in 1..last
    BY <1>0
  <2> HIDE DEF p
  <2>8. \A b \in 1..(last + 1) : Range(p[b]) \subseteq S \cup {c}
    BY <2>3, <2>6, <2>7
  <2>. QED
    BY <2>1, <2>6, <2>8
<1>. QED
  BY <1>2, <1>3

(* Batches are cut from the chunks there are, and never from chunks that are not. *)
LEMMA PlanCuts ==
  ASSUME NEW chunks \in Seq(ChunkNo), OldestFirst(chunks)
  PROVE  /\ Plan(chunks) \in Seq(MayBeCut)
         /\ \A b \in 1..Len(Plan(chunks)) : Range(Plan(chunks)[b]) \subseteq Range(chunks)
<1> DEFINE N == Len(chunks)
           Solves(f) == f = [n \in 0..N |-> IF n = 0 THEN <<>> ELSE Placed(f[n - 1], chunks[n])]
           plan == CHOOSE f : Solves(f)
           Upto(n) == {chunks[i] : i \in 1..n}
           Cuts(q, n) == /\ q \in Seq(MayBeCut)
                         /\ \A b \in 1..Len(q) : Range(q[b]) \subseteq Upto(n)
<1>1. N \in Nat /\ DOMAIN chunks = 1..N /\ ChunkNo \subseteq Nat /\ \A n \in 1..N : chunks[n] \in ChunkNo
  BY LenProperties, ElementOfSeq, EmbeddingAssumption DEF ChunkNo
<1>2. Plan(chunks) = plan[N]
  BY DEF Plan
<1>3. \A n \in 1..N : \A d \in Upto(n - 1) : d < chunks[n]
  BY <1>1 DEF OldestFirst
<1>4. \A n \in 1..N : Upto(n - 1) \cup {chunks[n]} \subseteq Upto(n)
  BY <1>1
<1>5. Upto(N) = Range(chunks)
  BY <1>1 DEF Range
<1> HIDE DEF N, Upto

(* A solution exists: cut up to any chunk, the plan can be carried on. *)
<1>6. \E f : Solves(f)
  <2> DEFINE S == Seq(MayBeCut)
             \* where the next chunk would not be younger than the plan's, any step will do
             step == [n \in 1..N |-> [q \in S |->
                        IF \A b \in 1..Len(q) : Range(q[b]) \subseteq Upto(n - 1)
                        THEN Placed(q, chunks[n]) ELSE <<>>]]
  <2>1. <<>> \in S /\ Len(<<>>) = 0
    BY EmptySeq
  <2>2. ASSUME NEW n \in 1..N, NEW q \in S,
               \A b \in 1..Len(q) : Range(q[b]) \subseteq Upto(n - 1)
        PROVE  Cuts(Placed(q, chunks[n]), n)
    <3> DEFINE c == chunks[n]
               T == Upto(n - 1)
    <3>a. /\ c \in ChunkNo /\ q \in Seq(MayBeCut) /\ \A d \in T : d < c
          /\ \A b \in 1..Len(q) : Range(q[b]) \subseteq T
      BY <1>1, <1>3, <2>2
    <3>b. T \cup {c} \subseteq Upto(n)
      BY <1>4
    <3>c. Placed(q, chunks[n]) = Placed(q, c)
      OBVIOUS
    <3> HIDE DEF c, T
    <3>d. /\ Placed(q, c) \in Seq(MayBeCut)
          /\ \A b \in 1..Len(Placed(q, c)) : Range(Placed(q, c)[b]) \subseteq T \cup {c}
      BY <3>a, PlacedCuts
    <3>. QED
      BY <3>b, <3>c, <3>d
  <2>3. step \in [1..N -> [S -> S]]
    BY <2>1, <2>2
  <2>4. \A n \in 1..N, q \in S :
          (\A b \in 1..Len(q) : Range(q[b]) \subseteq Upto(n - 1)) =>
          step[n][q] = Placed(q, chunks[n])
    OBVIOUS
  <2> HIDE DEF step, S
  <2>5. PICK f \in [0..N -> S] : Follows(f, N, <<>>, step)
    BY <1>1, <2>1, <2>3, RecursionFills
  <2>6. f[0] = <<>> /\ \A n \in 1..N : f[n] = step[n][f[n - 1]] /\ f[n - 1] \in S
    <3>1. \A n \in 1..N : n - 1 \in 0..N
      BY <1>1
    <3>. QED
      BY <2>5, <3>1 DEF Follows
  <2> DEFINE G == {n \in 0..N : Cuts(f[n], n)}
  <2>7. 0 \in G
    <3>1. Len(f[0]) = 0 /\ f[0] \in S /\ 0 \in 0..N
      BY <1>1, <2>1, <2>6
    <3>. QED
      BY <3>1 DEF S
  <2>8. ASSUME NEW n \in 1..N, n - 1 \in G PROVE n \in G
    <3>1. f[n] = Placed(f[n - 1], chunks[n])
      BY <2>4, <2>6, <2>8
    <3>2. n \in 0..N
      BY <1>1
    <3>. QED
      BY <2>2, <2>6, <2>8, <3>1, <3>2
  <2> HIDE DEF G
  <2>9. 0..N \subseteq G
    BY <1>1, <2>7, <2>8, Upward
  <2>10. \A n \in 1..N : f[n] = Placed(f[n - 1], chunks[n])
    <3>1. \A n \in 1..N : n - 1 \in 0..N
      BY <1>1
    <3>. QED
      BY <2>4, <2>6, <2>9, <3>1 DEF G
  <2>11. \A n \in 0..N : f[n] = IF n = 0 THEN <<>> ELSE Placed(f[n - 1], chunks[n])
    <3>1. \A n \in 0..N : n = 0 \/ n \in 1..N
      BY <1>1
    <3>. QED
      BY <2>6, <2>10, <3>1
  <2>12. Solves(f)
    BY <2>11
  <2> HIDE DEF Solves
  <2>. QED
    BY <2>12
<1>7. Solves(plan)
  <2> HIDE DEF Solves
  <2>. QED
    BY <1>6
<1>8. plan[0] = <<>> /\ \A n \in 1..N : plan[n] = Placed(plan[n - 1], chunks[n])
  <2>1. plan = [n \in 0..N |-> IF n = 0 THEN <<>> ELSE Placed(plan[n - 1], chunks[n])]
    BY <1>7
  <2>2. 0 \in 0..N /\ \A n \in 1..N : n \in 0..N /\ n # 0
    BY <1>1
  <2> HIDE DEF plan
  <2>. QED
    BY <2>1, <2>2
<1> HIDE DEF plan, Solves
<1> DEFINE G == {n \in 0..N : Cuts(plan[n], n)}
<1>9. 0 \in G
  <2>1. plan[0] \in Seq(MayBeCut) /\ Len(plan[0]) = 0 /\ 0 \in 0..N
    BY <1>1, <1>8, EmptySeq
  <2>. QED
    BY <2>1
<1>10. ASSUME NEW n \in 1..N, n - 1 \in G PROVE n \in G
  <2> DEFINE q == plan[n - 1]
  <2>1. q \in Seq(MayBeCut) /\ \A b \in 1..Len(q) : Range(q[b]) \subseteq Upto(n - 1)
    BY <1>10
  <2>2. plan[n] = Placed(q, chunks[n])
    BY <1>8
  <2> HIDE DEF q
  <2>3. n \in 0..N
    BY <1>1
  <2> DEFINE c == chunks[n]
             T == Upto(n - 1)
  <2>a. /\ c \in ChunkNo /\ q \in Seq(MayBeCut) /\ \A d \in T : d < c
        /\ \A b \in 1..Len(q) : Range(q[b]) \subseteq T
    BY <1>1, <1>3, <2>1
  <2>b. T \cup {c} \subseteq Upto(n)
    BY <1>4
  <2>c. Placed(q, chunks[n]) = Placed(q, c)
    OBVIOUS
  <2> HIDE DEF c, T
  <2>d. /\ Placed(q, c) \in Seq(MayBeCut)
        /\ \A b \in 1..Len(Placed(q, c)) : Range(Placed(q, c)[b]) \subseteq T \cup {c}
    BY <2>a, PlacedCuts
  <2>. QED
    BY <2>2, <2>3, <2>b, <2>c, <2>d
<1> HIDE DEF G
<1>11. 0..N \subseteq G
  BY <1>1, <1>9, <1>10, Upward
<1>12. N \in G
  BY <1>1, <1>11
<1>. QED
  BY <1>2, <1>5, <1>12 DEF G

(* What is pending has no vector, and comes oldest first. *)
LEMMA PendingIsUnembedded ==
  /\ PendingChunks \in Seq(ChunkNo) /\ OldestFirst(PendingChunks)
  /\ Range(PendingChunks) \cap embedded = {}
<1> DEFINE N == Len(Estimate)
           Passed(q, c) == c \in embedded \/ Len(q) = PassLimit
           Solves(f) == f = [c \in 0..N |-> IF c = 0 THEN <<>>
                                            ELSE IF Passed(f[c - 1], c) THEN f[c - 1]
                                                 ELSE Append(f[c - 1], c)]
           oldest == CHOOSE f : Solves(f)
<1>1. N \in Nat /\ ChunkNo = 1..N
  BY LenProperties, EmbeddingAssumption DEF ChunkNo
<1>2. PendingChunks = oldest[N]
  BY DEF PendingChunks
<1> HIDE DEF N
<1>3. \E f : Solves(f)
  <2> DEFINE S == Seq(ChunkNo)
             step == [c \in 1..N |-> [q \in S |-> IF Passed(q, c) THEN q ELSE Append(q, c)]]
  <2>1. <<>> \in S
    BY EmptySeq
  <2>2. step \in [1..N -> [S -> S]]
    <3>1. \A c \in 1..N : \A q \in S : Append(q, c) \in S
      BY <1>1, AppendProperties
    <3> HIDE DEF S, Passed
    <3>. QED
      BY <3>1
  <2>3. \A c \in 1..N, q \in S : step[c][q] = IF Passed(q, c) THEN q ELSE Append(q, c)
    OBVIOUS
  <2> HIDE DEF step, S, Passed
  <2>4. PICK f \in [0..N -> S] : Follows(f, N, <<>>, step)
    BY <1>1, <2>1, <2>2, RecursionFills
  <2>5. f[0] = <<>> /\ \A c \in 1..N : f[c] = step[c][f[c - 1]] /\ f[c - 1] \in S
    <3>1. \A c \in 1..N : c - 1 \in 0..N
      BY <1>1
    <3>. QED
      BY <2>4, <3>1 DEF Follows
  <2>6. \A c \in 0..N : f[c] = IF c = 0 THEN <<>>
                               ELSE IF Passed(f[c - 1], c) THEN f[c - 1] ELSE Append(f[c - 1], c)
    <3>1. \A c \in 0..N : c = 0 \/ c \in 1..N
      BY <1>1
    <3>. QED
      BY <2>3, <2>5, <3>1
  <2>7. Solves(f)
    BY <2>6
  <2> HIDE DEF Solves
  <2>. QED
    BY <2>7
<1>4. Solves(oldest)
  <2> HIDE DEF Solves
  <2>. QED
    BY <1>3
<1>5. oldest[0] = <<>>
      /\ \A c \in 1..N : oldest[c] = IF Passed(oldest[c - 1], c) THEN oldest[c - 1]
                                     ELSE Append(oldest[c - 1], c)
  <2>1. oldest = [c \in 0..N |-> IF c = 0 THEN <<>>
                                 ELSE IF Passed(oldest[c - 1], c) THEN oldest[c - 1]
                                      ELSE Append(oldest[c - 1], c)]
    BY <1>4
  <2>2. 0 \in 0..N /\ \A c \in 1..N : c \in 0..N /\ c # 0
    BY <1>1
  <2> HIDE DEF oldest, Passed
  <2>. QED
    BY <2>1, <2>2
<1> HIDE DEF oldest, Solves
<1> DEFINE Fit(q, c) == /\ q \in Seq(ChunkNo)
                        /\ \A i \in 1..Len(q) : q[i] \in 1..c /\ q[i] \notin embedded
                        /\ \A i, j \in 1..Len(q) : i < j => q[i] < q[j]
           G == {c \in 0..N : Fit(oldest[c], c)}
<1>6. 0 \in G
  <2>1. oldest[0] \in Seq(ChunkNo) /\ Len(oldest[0]) = 0 /\ 0 \in 0..N
    BY <1>1, <1>5, EmptySeq
  <2>. QED
    BY <2>1
<1>7. ASSUME NEW c \in 1..N, c - 1 \in G PROVE c \in G
  <2> DEFINE q == oldest[c - 1]
             n == Len(q)
             r == Append(q, c)
  <2>0. c \in Nat /\ c \in 0..N /\ \A d \in 1..(c - 1) : d \in 1..c /\ d < c
    BY <1>1
  <2>1. Fit(q, c - 1)
    BY <1>7
  <2>2. oldest[c] = IF Passed(q, c) THEN q ELSE r
    BY <1>5
  <2> HIDE DEF q
  <2>3. Fit(q, c)
    BY <2>0, <2>1
  <2>4. ASSUME c \notin embedded PROVE Fit(r, c)
    <3>1. n \in Nat /\ r \in Seq(ChunkNo) /\ Len(r) = n + 1 /\ r[n + 1] = c /\ \A i \in 1..n : r[i] = q[i]
      BY <1>1, <2>1, AppendProperties, LenProperties
    <3>2. \A i \in 1..n : q[i] \in 1..(c - 1) /\ q[i] \notin embedded
      BY <2>1
    <3>3. \A i, j \in 1..n : i < j => q[i] < q[j]
      BY <2>1
    <3> HIDE DEF n, r
    <3>4. \A i \in 1..(n + 1) : i = n + 1 \/ i \in 1..n
      BY <3>1
    <3>5. ASSUME NEW i \in 1..Len(r) PROVE r[i] \in 1..c /\ r[i] \notin embedded
      BY <2>0, <2>4, <3>1, <3>2, <3>4
    <3>6. ASSUME NEW i \in 1..Len(r), NEW j \in 1..Len(r), i < j PROVE r[i] < r[j]
      <4>1. i \in 1..n
        BY <3>1, <3>6
      <4>2. CASE j = n + 1
        BY <2>0, <3>1, <3>2, <4>1, <4>2
      <4>3. CASE j \in 1..n
        BY <3>1, <3>3, <3>6, <4>1, <4>3
      <4>. QED
        BY <3>1, <3>4, <4>2, <4>3
    <3>. QED
      BY <3>1, <3>5, <3>6
  <2>5. Fit(oldest[c], c)
    <3>1. CASE Passed(q, c)
      <4> HIDE DEF r, Passed, Fit
      <4>. QED
        BY <2>2, <2>3, <3>1
    <3>2. CASE ~Passed(q, c)
      <4>1. c \notin embedded
        BY <3>2
      <4> HIDE DEF r, Passed, Fit
      <4>. QED
        BY <2>2, <2>4, <3>2, <4>1
    <3>. QED
      BY <3>1, <3>2
  <2>. QED
    BY <2>0, <2>5
<1> HIDE DEF G
<1>8. 0..N \subseteq G
  BY <1>1, <1>6, <1>7, Upward
<1>9. Fit(oldest[N], N)
  <2>1. N \in 0..N
    BY <1>1
  <2>. QED
    BY <1>8, <2>1 DEF G
<1>10. PendingChunks \in Seq(ChunkNo) /\ DOMAIN PendingChunks = 1..Len(PendingChunks)
  BY <1>2, <1>9, LenProperties
<1>. QED
  BY <1>2, <1>9, <1>10 DEF OldestFirst, Range
-----------------------------------------------------------------------------

(* The bills that are out, of batches bs and of those H that are at the provider. *)
Bills(bs, H) == [b \in DOMAIN bs |-> IF b \in H THEN Bill(bs[b]) ELSE 0]

(* They are numbers, no larger than LargestBill, and 0 of those that are elsewhere. *)
LEMMA BillsAre ==
  ASSUME NEW bs \in Seq(MayBeCut), NEW H
  PROVE  /\ Bills(bs, H) \in Seq(Nat) /\ Len(Bills(bs, H)) = Len(bs)
         /\ \A b \in 1..Len(bs) : /\ Bill(bs[b]) \in Nat /\ Bill(bs[b]) <= LargestBill
                                  /\ Bills(bs, H)[b] = IF b \in H THEN Bill(bs[b]) ELSE 0
<1>1. Len(bs) \in Nat /\ DOMAIN bs = 1..Len(bs) /\ \A b \in 1..Len(bs) : bs[b] \in MayBeCut
  BY LenProperties, ElementOfSeq
<1>2. \A b \in 1..Len(bs) : Bill(bs[b]) \in Nat /\ Bill(bs[b]) <= LargestBill
  BY <1>1, LargestIsLargest
<1>3. Bills(bs, H) \in [1..Len(bs) -> Nat]
  BY <1>1, <1>2 DEF Bills
<1>4. Bills(bs, H) \in Seq(Nat) /\ Len(Bills(bs, H)) = Len(bs)
  BY <1>1, <1>3, SeqDef, LenProperties
<1>. QED
  BY <1>1, <1>2, <1>4 DEF Bills

(* What so many batches cost. *)
LEMMA OutIsWithin ==
  ASSUME NEW bs \in Seq(MayBeCut), NEW H, H \subseteq 1..Len(bs)
  PROVE  Total(Bills(bs, H)) \in Nat /\ Total(Bills(bs, H)) <= Cardinality(H) * LargestBill
<1> DEFINE s == Bills(bs, H)
<1>1. s \in Seq(Nat) /\ H \subseteq 1..Len(s) /\ \A i \in 1..Len(s) \ H : s[i] = 0
  BY BillsAre
<1>2. \A i \in H : s[i] <= LargestBill
  BY BillsAre
<1>3. LargestBill \in Nat
  BY LargestIsLargest
<1> HIDE DEF s
<1>4. Total(s) \in Nat /\ Total(s) <= Cardinality(H) * LargestBill
  BY <1>1, <1>2, <1>3, TotalIsNat, TotalIsWithin
<1>. QED
  BY <1>4 DEF s

(* One batch leaves the provider. *)
LEMMA OutLeaves ==
  ASSUME NEW bs \in Seq(MayBeCut), NEW H, H \subseteq 1..Len(bs), NEW k \in H
  PROVE  Total(Bills(bs, H \ {k})) + Bill(bs[k]) = Total(Bills(bs, H))
<1> DEFINE s == Bills(bs, H)
           t == Bills(bs, H \ {k})
<1>1. /\ s \in Seq(Nat) /\ t \in Seq(Nat) /\ Len(t) = Len(s) /\ k \in 1..Len(s)
      /\ \A i \in 1..Len(s) : i # k => t[i] = s[i]
  BY BillsAre
<1>2. s[k] = Bill(bs[k]) /\ t[k] = 0
  BY BillsAre
<1> HIDE DEF s, t
<1>3. Total(t) + s[k] = Total(s) + t[k] /\ Total(s) \in Nat
  BY <1>1, TotalMoves, TotalIsNat
<1>4. Total(t) + Bill(bs[k]) = Total(s)
  BY <1>2, <1>3
<1>. QED
  BY <1>4 DEF s, t

(* What a task's record may hold. *)
TaskType == [at : TaskSteps, attempt : Nat, wake : Nat]

(* The inductive invariant of the passes. *)
PassTyped ==
    /\ embedded \subseteq ChunkNo /\ spent \in Nat /\ notBefore \in Nat /\ now \in Nat
    /\ batches \in Seq(MayBeCut)
    /\ tasks \in [Batch -> TaskType]
PassFits == PassTyped /\ OnlyTheRestIsPaid /\ CeilingHolds

(* The batches of a pass, and those of them at the provider, are finitely many. *)
LEMMA HoldingIs ==
  ASSUME PassTyped
  PROVE  /\ Batch = 1..Len(batches) /\ Len(batches) \in Nat /\ Holding \subseteq 1..Len(batches)
         /\ IsFiniteSet(Holding) /\ Cardinality(Holding) \in Nat
         /\ OutToBeBilled = Total(Bills(batches, Holding)) /\ OutToBeBilled \in Nat
<1>1. Batch = 1..Len(batches) /\ Len(batches) \in Nat
  BY LenProperties DEF PassTyped, Batch
<1>2. Holding \subseteq 1..Len(batches)
  BY <1>1 DEF Holding
<1>3. IsFiniteSet(Holding) /\ Cardinality(Holding) \in Nat
  <2>1. IsFiniteSet(1..Len(batches))
    BY <1>1, FS_Interval
  <2>2. IsFiniteSet(Holding)
    BY <1>2, <2>1, FS_Subset
  <2>. QED
    BY <2>2, FS_CardinalityType
<1>4. OutToBeBilled = Total(Bills(batches, Holding))
  BY DEF OutToBeBilled, Bills, Batch
<1>5. batches \in Seq(MayBeCut)
  BY DEF PassTyped
<1>6. OutToBeBilled \in Nat
  BY <1>2, <1>4, <1>5, OutIsWithin
<1>. QED
  BY <1>1, <1>2, <1>3, <1>4, <1>6

(* One task takes a step: the batch is at the provider, or is not. *)
LEMMA OneTaskMoves ==
  ASSUME PassTyped, NEW b \in Batch, NEW t \in TaskType,
         UNCHANGED <<embedded, batches>>, tasks' = [tasks EXCEPT ![b] = t],
         spent' \in Nat, notBefore' \in Nat, now' \in Nat
  PROVE  /\ PassTyped'
         /\ tasks'[b] = t /\ \A a \in Batch \ {b} : tasks'[a] = tasks[a]
         /\ Holding' = IF t.at \in {"waiting", "calling"} THEN Holding \cup {b} ELSE Holding \ {b}
<1>1. Batch' = Batch /\ tasks \in [Batch -> TaskType]
  BY DEF PassTyped, Batch
<1>2. tasks' \in [Batch' -> TaskType] /\ tasks'[b] = t /\ \A a \in Batch \ {b} : tasks'[a] = tasks[a]
  BY <1>1
<1>3. PassTyped'
  BY <1>1, <1>2 DEF PassTyped
<1>4. Holding' = {a \in Batch : tasks'[a].at \in {"waiting", "calling"}}
  BY <1>1 DEF Holding
<1>5. \A a \in Batch : a \in Holding <=> tasks[a].at \in {"waiting", "calling"}
  BY DEF Holding
<1>6. Holding \subseteq Batch
  BY DEF Holding
<1>. QED
  BY <1>2, <1>3, <1>4, <1>5, <1>6

(* The room the ledger leaves. *)
Room == TokenBudget + MaxConcurrency * LargestBill
LEMMA RoomIs == Room \in Nat /\ TokenBudget \in Nat \ {0} /\ MaxConcurrency \in Nat \ {0} /\ LargestBill \in Nat
<1>1. TokenBudget \in Nat \ {0} /\ MaxConcurrency \in Nat \ {0} /\ LargestBill \in Nat
  BY EmbeddingAssumption, LargestIsLargest
<1>. QED
  BY <1>1 DEF Room

(* No pass runs: nothing is out. *)
LEMMA NoPass ==
  ASSUME PassTyped, batches' = <<>>, tasks' = <<>>, embedded' \subseteq ChunkNo,
         spent' \in Nat, notBefore' \in Nat, now' \in Nat, spent' < Room
  PROVE  PassFits'
<1>1. batches' \in Seq(MayBeCut) /\ Len(batches') = 0 /\ Batch' = {} /\ DOMAIN tasks' = {}
  BY EmptySeq DEF Batch
<1>2. tasks' \in [Batch' -> TaskType]
  BY <1>1
<1>3. Holding' = {}
  BY <1>1 DEF Holding
<1>4. OutToBeBilled' = Total(Bills(batches', {}))
  BY <1>3 DEF OutToBeBilled, Bills, Batch
<1>5. Total(Bills(batches', {})) \in Nat /\ Total(Bills(batches', {})) <= Cardinality({}) * LargestBill
  BY <1>1, OutIsWithin
<1>6. Total(Bills(batches', {})) = 0
  <2>1. Cardinality({}) = 0
    BY FS_EmptySet
  <2>. QED
    BY <1>5, <2>1, RoomIs
<1>7. CeilingHolds'
  BY <1>4, <1>6 DEF CeilingHolds, Room
<1>8. OnlyTheRestIsPaid'
  BY <1>1 DEF OnlyTheRestIsPaid
<1>. QED
  BY <1>1, <1>2, <1>7, <1>8 DEF PassFits, PassTyped

(* A pass begins: nothing is out yet, and what it is to embed has no vector. *)
LEMMA PassBegins == ASSUME PassFits, PassStarts PROVE PassFits'
<1>1. /\ batches' = Plan(PendingChunks) /\ tasks' = [b \in DOMAIN batches' |-> [at |-> "queued", attempt |-> 0, wake |-> 0]]
      /\ UNCHANGED <<embedded, spent, notBefore, now>>
  BY DEF PassStarts
<1>2. /\ batches' \in Seq(MayBeCut)
      /\ \A b \in 1..Len(batches') : Range(batches'[b]) \subseteq Range(PendingChunks)
  BY <1>1, PlanCuts, PendingIsUnembedded
<1>3. Batch' = 1..Len(batches') /\ Batch' = DOMAIN batches'
  BY <1>2, LenProperties DEF Batch
<1>4. [at |-> "queued", attempt |-> 0, wake |-> 0] \in TaskType
  BY DEF TaskType, TaskSteps
<1>5. tasks' \in [Batch' -> TaskType] /\ \A b \in Batch' : tasks'[b].at = "queued"
  BY <1>1, <1>3, <1>4
<1>6. PassTyped'
  BY <1>1, <1>2, <1>5 DEF PassFits, PassTyped
<1>7. Holding' = {}
  BY <1>5 DEF Holding
<1>8. OutToBeBilled' = Total(Bills(batches', {}))
  BY <1>7 DEF OutToBeBilled, Bills, Batch
<1>9. OutToBeBilled' = 0
  <2>1. Cardinality({}) = 0
    BY FS_EmptySet
  <2>2. Total(Bills(batches', {})) \in Nat /\ Total(Bills(batches', {})) <= Cardinality({}) * LargestBill
    BY <1>2, OutIsWithin
  <2>. QED
    BY <1>8, <2>1, <2>2, RoomIs
<1>10. CeilingHolds'
  <2>1. OutToBeBilled \in Nat /\ spent \in Nat /\ spent + OutToBeBilled < Room /\ spent' = spent
    BY <1>1, HoldingIs DEF PassFits, PassTyped, CeilingHolds, Room
  <2>2. spent' + OutToBeBilled' < Room
    BY <1>9, <2>1, RoomIs
  <2>. QED
    BY <2>2 DEF CeilingHolds, Room
<1>11. OnlyTheRestIsPaid'
  BY <1>1, <1>2, <1>3, PendingIsUnembedded DEF OnlyTheRestIsPaid
<1>. QED
  BY <1>6, <1>10, <1>11 DEF PassFits

(* A batch goes to the provider while the budget is not used up and a place is free. *)
LEMMA OneMoreIsOut ==
  ASSUME PassFits, NEW b \in Batch, NEW t \in TaskType,
         UNCHANGED <<embedded, batches, spent, notBefore, now>>, tasks' = [tasks EXCEPT ![b] = t],
         spent < TokenBudget, Cardinality(Holding) < MaxConcurrency
  PROVE  PassFits'
<1>1. /\ PassTyped'
      /\ Holding' = IF t.at \in {"waiting", "calling"} THEN Holding \cup {b} ELSE Holding \ {b}
  BY OneTaskMoves DEF PassFits, PassTyped
<1>2. /\ Batch = 1..Len(batches) /\ IsFiniteSet(Holding) /\ Cardinality(Holding) \in Nat
      /\ spent \in Nat
  BY HoldingIs DEF PassFits, PassTyped
<1>3. Cardinality(Holding') <= MaxConcurrency /\ Cardinality(Holding') \in Nat
  <2>1. Holding' \subseteq Holding \cup {b}
    BY <1>1
  <2>2. IsFiniteSet(Holding \cup {b}) /\ Cardinality(Holding \cup {b}) <= Cardinality(Holding) + 1
    <3>1. /\ IsFiniteSet(Holding \cup {b})
          /\ Cardinality(Holding \cup {b}) = IF b \in Holding THEN Cardinality(Holding)
                                              ELSE Cardinality(Holding) + 1
      BY <1>2, FS_AddElement
    <3>. QED
      BY <1>2, <3>1
  <2>3. Cardinality(Holding') <= Cardinality(Holding \cup {b}) /\ IsFiniteSet(Holding')
    BY <2>1, <2>2, FS_Subset
  <2>4. Cardinality(Holding') \in Nat /\ Cardinality(Holding \cup {b}) \in Nat
    BY <2>2, <2>3, FS_CardinalityType
  <2>. QED
    BY <1>2, <2>2, <2>3, <2>4, RoomIs
<1>4. /\ OutToBeBilled' = Total(Bills(batches', Holding'))
      /\ batches' \in Seq(MayBeCut) /\ Holding' \subseteq 1..Len(batches') /\ OutToBeBilled' \in Nat
  <2>1. (PassTyped => /\ Holding \subseteq 1..Len(batches) /\ OutToBeBilled \in Nat
                      /\ OutToBeBilled = Total(Bills(batches, Holding)))'
    BY HoldingIs, PTL
  <2>. QED
    BY <1>1, <2>1 DEF PassTyped
<1>5. OutToBeBilled' <= Cardinality(Holding') * LargestBill
  BY <1>4, OutIsWithin
<1>6. Cardinality(Holding') * LargestBill <= MaxConcurrency * LargestBill
  <2>1. \A x, y, z \in Nat : x <= y => x * z <= y * z
    OBVIOUS
  <2>. QED
    BY <1>3, <2>1, RoomIs
<1>7. CeilingHolds'
  <2> DEFINE c == Cardinality(Holding') * LargestBill
             m == MaxConcurrency * LargestBill
             o == OutToBeBilled'
  <2>1. /\ c \in Nat /\ m \in Nat /\ o \in Nat /\ TokenBudget \in Nat /\ spent \in Nat
        /\ o <= c /\ c <= m /\ spent < TokenBudget /\ spent' = spent
    BY <1>2, <1>3, <1>4, <1>5, <1>6, RoomIs
  <2>2. CeilingHolds' <=> spent' + o < TokenBudget + m
    BY DEF CeilingHolds
  <2> HIDE DEF c, m, o
  <2>. QED
    BY <2>1, <2>2
<1>8. OnlyTheRestIsPaid'
  BY DEF PassFits, OnlyTheRestIsPaid, Batch
<1>. QED
  BY <1>1, <1>7, <1>8 DEF PassFits

(* A batch that is at the provider stays there, or leaves it and is charged at most its bill. *)
LEMMA OneIsAnswered ==
  ASSUME PassFits, NEW b \in Batch, b \in Holding, NEW t \in TaskType,
         UNCHANGED <<embedded, batches, now>>, tasks' = [tasks EXCEPT ![b] = t], notBefore' \in Nat,
         IF t.at \in {"waiting", "calling"} THEN spent' = spent
         ELSE spent' = spent \/ spent' = spent + Bill(batches[b])
  PROVE  PassFits'
<1>1. /\ batches \in Seq(MayBeCut) /\ spent \in Nat /\ Batch = 1..Len(batches)
      /\ Holding \subseteq 1..Len(batches) /\ OutToBeBilled \in Nat
      /\ OutToBeBilled = Total(Bills(batches, Holding))
  BY HoldingIs DEF PassFits, PassTyped
<1>2. Bill(batches[b]) \in Nat
  BY <1>1, BillsAre
<1>3. spent' \in Nat
  BY <1>1, <1>2
<1>4. /\ PassTyped'
      /\ Holding' = IF t.at \in {"waiting", "calling"} THEN Holding \cup {b} ELSE Holding \ {b}
  BY <1>3, OneTaskMoves DEF PassFits, PassTyped
<1>5. OutToBeBilled' = Total(Bills(batches, Holding'))
  BY DEF OutToBeBilled, Bills, Batch
<1>6. spent + OutToBeBilled < Room
  BY DEF PassFits, CeilingHolds, Room
<1>7. spent' + OutToBeBilled' < Room
  <2>1. CASE t.at \in {"waiting", "calling"}
    <3>1. Holding' = Holding
      BY <1>4, <2>1
    <3>. QED
      BY <1>1, <1>5, <1>6, <2>1, <3>1
  <2>2. CASE t.at \notin {"waiting", "calling"}
    <3> DEFINE left == Total(Bills(batches, Holding \ {b}))
    <3>1. left + Bill(batches[b]) = OutToBeBilled /\ left \in Nat
      BY <1>1, OutLeaves, OutIsWithin
    <3>2. OutToBeBilled' = left
      BY <1>4, <1>5, <2>2
    <3> HIDE DEF left
    <3>3. spent' = spent \/ spent' = spent + Bill(batches[b])
      BY <2>2
    <3>. QED
      BY <1>1, <1>2, <1>6, <3>1, <3>2, <3>3, RoomIs
  <2>. QED
    BY <2>1, <2>2
<1>8. OnlyTheRestIsPaid'
  BY DEF PassFits, OnlyTheRestIsPaid, Batch
<1>. QED
  BY <1>4, <1>7, <1>8 DEF PassFits, CeilingHolds, Room

(* A batch that was not at the provider, and does not go there. *)
LEMMA OneStaysAway ==
  ASSUME PassFits, NEW b \in Batch, b \notin Holding, NEW t \in TaskType,
         t.at \notin {"waiting", "calling"},
         UNCHANGED <<embedded, batches, spent, notBefore, now>>, tasks' = [tasks EXCEPT ![b] = t]
  PROVE  PassFits'
<1>1. PassTyped' /\ Holding' = Holding \ {b}
  BY OneTaskMoves DEF PassFits, PassTyped
<1>2. Holding' = Holding
  BY <1>1
<1>3. OutToBeBilled' = OutToBeBilled
  BY <1>2 DEF OutToBeBilled, Batch
<1>. QED
  BY <1>1, <1>3 DEF PassFits, CeilingHolds, OnlyTheRestIsPaid, Batch

(* What a task is sent with. *)
LEMMA SentIs ==
  ASSUME NEW n \in Nat, NEW d \in Nat
  PROVE  /\ Sent(n, d) \in TaskType /\ Sent(n, d).at \in {"waiting", "calling"}
         /\ Sent(n, d).attempt = n /\ Sent(n, d).wake = d
         /\ Sent(n, d).at = "calling" => d <= now
BY DEF Sent, TaskType, TaskSteps

(* Each of a task's steps, as the change of one batch's record. *)
LEMMA TakesSemaphoreIs ==
  ASSUME PassTyped, NEW b \in Batch, TakesSemaphore(b)
  PROVE  /\ tasks[b].at = "queued" /\ b \notin Holding
         /\ Cardinality(Holding) < MaxConcurrency
         /\ UNCHANGED <<embedded, batches, spent, notBefore, now>>
         /\ \E t \in TaskType :
              /\ tasks' = [tasks EXCEPT ![b] = t]
              /\ \/ t.at = "raised"
                 \/ spent < TokenBudget /\ t = Sent(0, notBefore)
<1>1. tasks[b] \in TaskType /\ tasks[b].at = "queued" /\ spent \in Nat /\ notBefore \in Nat
  BY DEF PassTyped, TakesSemaphore
<1>2. b \notin Holding
  BY <1>1 DEF Holding
<1>3. /\ Cardinality(Holding) < MaxConcurrency
      /\ UNCHANGED <<embedded, batches, spent, notBefore, now>>
      /\ tasks' = [tasks EXCEPT ![b] = IF Exhausted THEN [tasks[b] EXCEPT !.at = "raised"]
                                       ELSE Sent(0, notBefore)]
  BY DEF TakesSemaphore
<1>4. CASE Exhausted
  <2> DEFINE t == [tasks[b] EXCEPT !.at = "raised"]
  <2>1. t \in TaskType /\ t.at = "raised"
    BY <1>1 DEF TaskType, TaskSteps
  <2>. QED
    BY <1>1, <1>2, <1>3, <1>4, <2>1
<1>5. CASE ~Exhausted
  <2>1. spent < TokenBudget
    BY <1>1, <1>5, RoomIs DEF Exhausted
  <2>2. Sent(0, notBefore) \in TaskType
    BY <1>1, SentIs
  <2>. QED
    BY <1>1, <1>2, <1>3, <1>5, <2>1, <2>2
<1>. QED
  BY <1>4, <1>5

(* A refusal moves the shared deadline on, and sends the batch to wait for it or ends it. *)
LEMMA HeldOffIs ==
  ASSUME PassTyped, NEW b \in Batch, NEW delay \in 0..MaxClock, IsHeldOff(b, delay)
  PROVE  /\ tasks[b].at = "calling" /\ b \in Holding
         /\ UNCHANGED <<embedded, batches, spent, now>>
         /\ notBefore' \in Nat /\ notBefore <= notBefore'
         /\ \E t \in TaskType :
              /\ tasks' = [tasks EXCEPT ![b] = t]
              /\ \/ t.at = "raised"
                 \/ t = Sent(tasks[b].attempt + 1, notBefore')
<1>1. /\ tasks[b] \in TaskType /\ tasks[b].at = "calling" /\ notBefore \in Nat /\ now \in Nat
      /\ tasks[b].attempt \in Nat /\ delay \in Nat
  BY EmbeddingAssumption DEF PassTyped, IsHeldOff, TaskType
<1>2. b \in Holding
  BY <1>1 DEF Holding
<1>3. /\ UNCHANGED <<embedded, batches, spent, now>>
      /\ notBefore' = Published(now + delay)
      /\ tasks' = [tasks EXCEPT ![b] = IF tasks[b].attempt + 1 < MaxAttempts
                                       THEN Sent(tasks[b].attempt + 1, notBefore')
                                       ELSE [tasks[b] EXCEPT !.at = "raised"]]
  BY DEF IsHeldOff
<1>4. notBefore' \in Nat /\ notBefore <= notBefore'
  BY <1>1, <1>3 DEF Published
<1>5. CASE tasks[b].attempt + 1 < MaxAttempts
  <2>1. Sent(tasks[b].attempt + 1, notBefore') \in TaskType
    <3>1. tasks[b].attempt + 1 \in Nat /\ notBefore' \in Nat
      BY <1>1, <1>4
    <3>. QED
      BY <3>1, SentIs
  <2>. QED
    BY <1>1, <1>2, <1>3, <1>4, <1>5, <2>1
<1>6. CASE ~(tasks[b].attempt + 1 < MaxAttempts)
  <2> DEFINE t == [tasks[b] EXCEPT !.at = "raised"]
  <2>1. t \in TaskType /\ t.at = "raised"
    BY <1>1 DEF TaskType, TaskSteps
  <2>. QED
    BY <1>1, <1>2, <1>3, <1>4, <1>6, <2>1
<1>. QED
  BY <1>5, <1>6

(* A wake-up, vectors or a final refusal: one batch at the provider, and the ledger. *)
LEMMA AnswerIs ==
  ASSUME PassTyped, NEW b \in Batch, WakesUp(b) \/ Embeds(b) \/ IsRefused(b)
  PROVE  /\ b \in Holding /\ UNCHANGED <<embedded, batches, notBefore, now>>
         /\ \E t \in TaskType :
              /\ tasks' = [tasks EXCEPT ![b] = t] /\ t.attempt = tasks[b].attempt
              /\ t.at \in {"waiting", "calling"} => spent' = spent
              /\ spent' = spent \/ spent' = spent + Bill(batches[b])
<1>1. tasks[b] \in TaskType
  BY DEF PassTyped
<1> DEFINE With(a) == [tasks[b] EXCEPT !.at = a]
<1>2. \A a \in TaskSteps : With(a) \in TaskType /\ With(a).at = a /\ With(a).attempt = tasks[b].attempt
  BY <1>1 DEF TaskType
<1>3. {"calling", "raised", "done"} \subseteq TaskSteps
  BY DEF TaskSteps
<1>4. CASE WakesUp(b)
  <2>1. tasks' = [tasks EXCEPT ![b] = With("calling")] /\ tasks[b].at = "waiting"
        /\ UNCHANGED <<embedded, batches, spent, notBefore, now>>
    BY <1>4 DEF WakesUp
  <2> HIDE DEF With
  <2>. QED
    BY <1>2, <1>3, <2>1 DEF Holding
<1>5. CASE Embeds(b)
  <2>1. /\ tasks' = [tasks EXCEPT ![b] = With(IF spent' > TokenBudget THEN "raised" ELSE "done")]
        /\ tasks[b].at = "calling" /\ spent' = spent + Bill(batches[b])
        /\ UNCHANGED <<embedded, batches, notBefore, now>>
    BY <1>5 DEF Embeds, Bill
  <2> HIDE DEF With
  <2>. QED
    BY <1>2, <1>3, <2>1 DEF Holding
<1>6. CASE IsRefused(b)
  <2>1. tasks' = [tasks EXCEPT ![b] = With("raised")] /\ tasks[b].at = "calling"
        /\ UNCHANGED <<embedded, batches, spent, notBefore, now>>
    BY <1>6 DEF IsRefused
  <2> HIDE DEF With
  <2>. QED
    BY <1>2, <1>3, <2>1 DEF Holding
<1>. QED
  BY <1>4, <1>5, <1>6

(* The passes stay fit. *)
LEMMA PassStaysFit ==
  ASSUME PassFits, [EmbeddingNext]_passVars
  PROVE  PassFits'
<1>0. /\ PassTyped /\ embedded \subseteq ChunkNo /\ spent \in Nat /\ notBefore \in Nat /\ now \in Nat
      /\ batches \in Seq(MayBeCut) /\ OutToBeBilled \in Nat
  BY HoldingIs DEF PassFits, PassTyped
<1>1. spent < Room
  <2>1. spent + OutToBeBilled < Room
    BY DEF PassFits, CeilingHolds, Room
  <2>. QED
    BY <1>0, <2>1, RoomIs
<1>2. CASE PassStarts
  BY <1>2, PassBegins
<1>3. CASE PassFails
  BY <1>0, <1>1, <1>3, NoPass DEF PassFails, CancelsSiblings
<1>4. CASE PassIsStored
  <2>1. \A b \in Batch : batches[b] \in Seq(ChunkNo)
    BY <1>0, CutIsBatch, ElementOfSeq, LenProperties DEF Batch
  <2>2. \A b \in Batch : Range(batches[b]) \subseteq ChunkNo
    BY <2>1, ElementOfSeq, LenProperties DEF Range
  <2>3. embedded' \subseteq ChunkNo
    BY <1>0, <1>4, <2>2 DEF PassIsStored
  <2>. QED
    BY <1>0, <1>1, <1>4, <2>3, NoPass DEF PassIsStored
<1>5. CASE Restarts
  <2>1. 0 < Room /\ 0 \in Nat
    BY <1>0, <1>1, RoomIs
  <2>. QED
    BY <1>0, <1>5, <2>1, NoPass DEF Restarts
<1>6. CASE Ticks \/ UNCHANGED passVars
  <2>1. UNCHANGED <<embedded, batches, tasks, spent, notBefore>> /\ now' \in Nat
    BY <1>0, <1>6 DEF Ticks, passVars
  <2>2. Batch' = Batch
    BY <2>1 DEF Batch
  <2>3. Holding' = Holding
    BY <2>1, <2>2 DEF Holding
  <2>4. OutToBeBilled' = OutToBeBilled
    BY <2>1, <2>2, <2>3 DEF OutToBeBilled
  <2>. QED
    BY <2>1, <2>2, <2>4 DEF PassFits, PassTyped, CeilingHolds, OnlyTheRestIsPaid
<1>7. ASSUME NEW b \in Batch, TakesSemaphore(b) PROVE PassFits'
  <2>1. PICK t \in TaskType : /\ tasks' = [tasks EXCEPT ![b] = t]
                              /\ t.at = "raised" \/ (spent < TokenBudget /\ t = Sent(0, notBefore))
    BY <1>0, <1>7, TakesSemaphoreIs
  <2>2. /\ b \notin Holding /\ Cardinality(Holding) < MaxConcurrency
        /\ UNCHANGED <<embedded, batches, spent, notBefore, now>>
    BY <1>0, <1>7, TakesSemaphoreIs
  <2>3. CASE t.at = "raised"
    BY <2>1, <2>2, <2>3, OneStaysAway
  <2>4. CASE spent < TokenBudget
    BY <2>1, <2>2, <2>4, OneMoreIsOut
  <2>. QED
    BY <2>1, <2>3, <2>4
<1>8. ASSUME NEW b \in Batch, WakesUp(b) \/ Embeds(b) \/ IsRefused(b) PROVE PassFits'
  <2>1. b \in Holding /\ UNCHANGED <<embedded, batches, notBefore, now>>
    BY <1>0, <1>8, AnswerIs
  <2>2. PICK t \in TaskType : /\ tasks' = [tasks EXCEPT ![b] = t]
                              /\ t.at \in {"waiting", "calling"} => spent' = spent
                              /\ spent' = spent \/ spent' = spent + Bill(batches[b])
    BY <1>0, <1>8, AnswerIs
  <2>. QED
    BY <1>0, <2>1, <2>2, OneIsAnswered
<1>9. ASSUME NEW b \in Batch, NEW delay \in 0..MaxClock, IsHeldOff(b, delay) PROVE PassFits'
  <2>1. b \in Holding /\ UNCHANGED <<embedded, batches, spent, now>> /\ notBefore' \in Nat
    BY <1>0, <1>9, HeldOffIs
  <2>2. PICK t \in TaskType : tasks' = [tasks EXCEPT ![b] = t]
    BY <1>0, <1>9, HeldOffIs
  <2>. QED
    BY <2>1, <2>2, OneIsAnswered
<1>. QED
  BY <1>2, <1>3, <1>4, <1>5, <1>6, <1>7, <1>8, <1>9 DEF EmbeddingNext, TaskStep

(* A refusal's deadline holds back every batch that has not begun to wait. *)
Cooldown ==
    /\ Restarts \/ notBefore <= notBefore'
    /\ \A b \in Batch \cap DOMAIN tasks' :
         /\ tasks'[b].at \in {"waiting", "calling"}
         /\ tasks[b].at = "queued" \/ tasks'[b].attempt # tasks[b].attempt
         => tasks'[b].wake >= notBefore' /\ (tasks'[b].at = "calling" => now >= notBefore')

(* So does every step of a pass. *)
LEMMA StepsWait ==
  ASSUME PassTyped, [EmbeddingNext]_passVars
  PROVE  [Cooldown]_passVars
<1>0. notBefore \in Nat /\ now \in Nat /\ tasks \in [Batch -> TaskType] /\ batches \in Seq(MayBeCut)
  BY DEF PassTyped
<1>1. CASE PassStarts
  <2>1. Batch = {} /\ notBefore' = notBefore
    BY <1>1 DEF PassStarts, Running, Batch
  <2>. QED
    BY <1>0, <2>1 DEF Cooldown
<1>2. CASE PassFails \/ PassIsStored
  <2>1. DOMAIN tasks' = {} /\ notBefore' = notBefore
    BY <1>2 DEF PassFails, CancelsSiblings, PassIsStored
  <2>. QED
    BY <1>0, <2>1 DEF Cooldown
<1>3. CASE Restarts
  <2>1. DOMAIN tasks' = {}
    BY <1>3 DEF Restarts
  <2>. QED
    BY <1>3, <2>1 DEF Cooldown
<1>4. CASE Ticks
  <2>1. UNCHANGED <<tasks, notBefore>>
    BY <1>4 DEF Ticks
  <2>2. \A b \in Batch : ~(tasks[b].at = "queued" /\ tasks[b].at \in {"waiting", "calling"})
    OBVIOUS
  <2>. QED
    BY <1>0, <2>1, <2>2 DEF Cooldown
<1>5. ASSUME NEW b \in Batch, NEW t \in TaskType, tasks' = [tasks EXCEPT ![b] = t],
             notBefore' \in Nat, notBefore <= notBefore',
             t.at \in {"waiting", "calling"} =>
               \/ tasks[b].at # "queued" /\ t.attempt = tasks[b].attempt
               \/ \E n \in Nat : t = Sent(n, notBefore')
      PROVE  Cooldown
  <2>1. tasks'[b] = t /\ \A a \in Batch \ {b} : tasks'[a] = tasks[a]
    BY <1>0, <1>5
  <2>2. ASSUME NEW a \in Batch, tasks'[a].at \in {"waiting", "calling"},
               tasks[a].at = "queued" \/ tasks'[a].attempt # tasks[a].attempt
        PROVE  tasks'[a].wake >= notBefore' /\ (tasks'[a].at = "calling" => now >= notBefore')
    <3>1. a = b
      BY <2>1, <2>2
    <3>2. PICK n \in Nat : t = Sent(n, notBefore')
      BY <1>5, <2>1, <2>2, <3>1
    <3>3. t.wake = notBefore' /\ (t.at = "calling" => notBefore' <= now)
      BY <1>5, <3>2, SentIs
    <3>. QED
      BY <1>0, <1>5, <2>1, <3>1, <3>3
  <2>. QED
    BY <1>5, <2>2 DEF Cooldown
<1>6. ASSUME NEW b \in Batch, TakesSemaphore(b) PROVE Cooldown
  <2>1. PICK t \in TaskType : /\ tasks' = [tasks EXCEPT ![b] = t]
                              /\ t.at = "raised" \/ t = Sent(0, notBefore)
    BY <1>6, TakesSemaphoreIs
  <2>2. notBefore' = notBefore
    BY <1>6, TakesSemaphoreIs
  <2>3. notBefore' \in Nat /\ notBefore <= notBefore'
    BY <1>0, <2>2
  <2>4. t.at \in {"waiting", "calling"} => \E n \in Nat : t = Sent(n, notBefore')
    <3>1. CASE t.at = "raised"
      BY <3>1
    <3>2. CASE t = Sent(0, notBefore)
      <4>1. 0 \in Nat /\ t = Sent(0, notBefore')
        BY <2>2, <3>2
      <4>. QED
        BY <4>1
    <3>. QED
      BY <2>1, <3>1, <3>2
  <2>5. tasks' = [tasks EXCEPT ![b] = t]
    BY <2>1
  <2>. QED
    BY <1>5, <2>3, <2>4, <2>5
<1>7. ASSUME NEW b \in Batch, WakesUp(b) \/ Embeds(b) \/ IsRefused(b) PROVE Cooldown
  <2>1. b \in Holding /\ notBefore' = notBefore
    BY <1>7, AnswerIs
  <2>2. PICK t \in TaskType : tasks' = [tasks EXCEPT ![b] = t] /\ t.attempt = tasks[b].attempt
    BY <1>7, AnswerIs
  <2>3. tasks[b].at # "queued" /\ t.attempt = tasks[b].attempt
    BY <2>1, <2>2 DEF Holding
  <2>4. notBefore' \in Nat /\ notBefore <= notBefore'
    BY <1>0, <2>1
  <2>5. tasks' = [tasks EXCEPT ![b] = t]
    BY <2>2
  <2>. QED
    BY <1>5, <2>3, <2>4, <2>5
<1>8. ASSUME NEW b \in Batch, NEW delay \in 0..MaxClock, IsHeldOff(b, delay) PROVE Cooldown
  <2>1. notBefore' \in Nat /\ notBefore <= notBefore'
    BY <1>8, HeldOffIs
  <2>2. PICK t \in TaskType : /\ tasks' = [tasks EXCEPT ![b] = t]
                              /\ t.at = "raised" \/ t = Sent(tasks[b].attempt + 1, notBefore')
    BY <1>8, HeldOffIs
  <2>3. tasks[b].attempt + 1 \in Nat
    BY <1>0 DEF TaskType
  <2>. QED
    BY <1>5, <2>1, <2>2, <2>3
<1>. QED
  BY <1>1, <1>2, <1>3, <1>4, <1>6, <1>7, <1>8 DEF EmbeddingNext, TaskStep

(* Of any chunks, bounds, budget and delays: what is billed stays within the budget and *)
(* what one semaphore lets out, no call outlives its pass, nothing stored is paid for   *)
(* again and every batch waits for the latest refusal (embeddings.py, persistence.py).  *)
THEOREM SpendingStaysHeld == EmbeddingSpec => SpendingIsHeld
<1>1. EmbeddingInit => PassFits
  <2> SUFFICES ASSUME EmbeddingInit PROVE PassFits
    OBVIOUS
  <2>1. /\ batches = <<>> /\ tasks = <<>> /\ embedded = {} /\ spent = 0 /\ notBefore = 0 /\ now = 0
    BY DEF EmbeddingInit
  <2>2. batches \in Seq(MayBeCut) /\ Len(batches) = 0 /\ Batch = {} /\ DOMAIN tasks = {}
    BY <2>1, EmptySeq DEF Batch
  <2>3. tasks \in [Batch -> TaskType]
    BY <2>1, <2>2
  <2>4. PassTyped
    BY <2>1, <2>2, <2>3 DEF PassTyped
  <2>5. Holding = {} /\ OutToBeBilled = Total(Bills(batches, {}))
    BY <2>2 DEF Holding, OutToBeBilled, Bills
  <2>6. OutToBeBilled = 0
    <3>1. Cardinality({}) = 0
      BY FS_EmptySet
    <3>2. Total(Bills(batches, {})) \in Nat /\ Total(Bills(batches, {})) <= Cardinality({}) * LargestBill
      BY <2>2, OutIsWithin
    <3>. QED
      BY <2>5, <3>1, <3>2, RoomIs
  <2>7. 0 < Room
    <3>1. MaxConcurrency * LargestBill \in Nat
      BY RoomIs
    <3>. QED
      BY <3>1, RoomIs DEF Room
  <2>8. CeilingHolds
    BY <2>1, <2>6, <2>7 DEF CeilingHolds, Room
  <2>. QED
    BY <2>2, <2>4, <2>8 DEF PassFits, OnlyTheRestIsPaid
<1>2. PassFits /\ [EmbeddingNext]_passVars => PassFits'
  BY PassStaysFit
<1>3. PassFits => CeilingHolds /\ NoOrphans /\ OnlyTheRestIsPaid
  <2>1. ASSUME PassFits, ~Running PROVE DOMAIN tasks = {}
    BY <2>1 DEF PassFits, PassTyped, Running, Batch
  <2>. QED
    BY <2>1 DEF PassFits, NoOrphans
<1>4. PassFits /\ [EmbeddingNext]_passVars => [Cooldown]_passVars
  BY StepsWait DEF PassFits
<1>5. EmbeddingSpec => [](CeilingHolds /\ NoOrphans /\ OnlyTheRestIsPaid) /\ [][Cooldown]_passVars
  BY <1>1, <1>2, <1>3, <1>4, PTL DEF EmbeddingSpec
<1>. QED
  BY <1>5 DEF SpendingIsHeld, CooldownHolds, Cooldown
=============================================================================
