------------------------------- MODULE Copilot ------------------------------
(******************************************************************************)
(* The copilot of a knowledge-transfer package: the thread and the list of    *)
(* conversations of components/kt/kt-copilot.tsx, over the conversations the  *)
(* API keeps (kt_workspace.py).                                               *)
(*                                                                            *)
(* A question and its answer are one turn, numbered in the order asked.  The  *)
(* list is paged by the time of a conversation's last turn, so asking moves a *)
(* conversation to the top while older pages stay as they were read.  The     *)
(* search of past conversations and the bookmarks are left out.               *)
(******************************************************************************)
EXTENDS Naturals, Sequences, FiniteSets, SequencesExt

CONSTANTS
    Convs,           \* bound on the conversations, numbered from 1; 0 is none
    Kept,            \* how many there are already, the last the most recent
    MaxTurns         \* bound on the questions of one visit

ASSUME CopilotAssumption == Convs \in Nat /\ Kept \in 0..Convs /\ MaxTurns \in Nat

Conv == 1..Convs
NoConv == 0
NoPage == [items |-> <<>>, next |-> 0]
NotAsking == [turn |-> 0, conv |-> NoConv, stage |-> "idle"]

VARIABLES
    turns,           \* turns[c]: kt_messages, as the numbers of their questions
    stamp,           \* stamp[c]: updated_at, 0 for a conversation not there
    archived,        \* archived_at is set
    selected,        \* selectedId
    local,           \* LocalTurns
    detail,          \* detail[c]: the conversation query's data
    reading,         \* the conversation query in flight: what it read
    ask,             \* the ask mutation
    asks,            \* how many questions were asked
    listed, listStale,   \* the conversations query's page, and that it was invalidated
    older, olderNext, exhausted,   \* older, cursor and exhausted of the list
    loading,         \* the older pages in flight, one at most
    raced            \* history: archived while a read or a question was in flight

copilotVars == <<turns, stamp, archived, selected, local, detail, reading, ask, asks,
                 listed, listStale, older, olderNext, exhausted, loading, raced>>
storeVars == <<turns, stamp, archived>>
threadVars == <<selected, local, detail, reading, ask, asks>>
listVars == <<listed, listStale, older, olderNext, exhausted, loading, raced>>

-----------------------------------------------------------------------------
(* The API. *)

LiveConvs == {c \in Conv : stamp[c] > 0 /\ c \notin archived}

(* list_conversations with pages of one: the most recent live one below the cursor. *)
ConvPage(below) ==
    LET matching == {c \in LiveConvs : stamp[c] < below}
        c == CHOOSE x \in matching : \A y \in matching : stamp[y] <= stamp[x]
    IN IF matching = {} THEN NoPage
       ELSE [items |-> <<c>>, next |-> IF Cardinality(matching) > 1 THEN stamp[c] ELSE 0]

TopStamp == MaxTurns + Kept + 1       \* above every stamp
AskClock == asks + Kept             \* the stamp of the question in flight

CopilotInit ==
    /\ turns = [c \in Conv |-> <<>>]
    /\ stamp = [c \in Conv |-> IF c <= Kept THEN c ELSE 0]
    /\ archived = {}
    /\ selected = NoConv /\ local = [conv |-> NoConv, turns |-> <<>>]
    /\ detail = [c \in Conv |-> <<>>] /\ reading = [conv |-> NoConv, turns |-> <<>>]
    /\ ask = NotAsking /\ asks = 0
    /\ listed = ConvPage(TopStamp) /\ listStale = FALSE
    /\ older = <<>> /\ olderNext = 0 /\ exhausted = FALSE
    /\ loading = <<>>
    /\ raced = {}

-----------------------------------------------------------------------------
(* What the page renders. *)

(* filter: what a list has outside a set, in its order. *)
Outside(s, S) ==
    LET left[i \in 0..Len(s)] == IF i = 0 THEN <<>>
                                 ELSE IF s[i] \in S THEN left[i - 1] ELSE Append(left[i - 1], s[i])
    IN left[Len(s)]

(* A defect: the overlay is the local turns, stored or not. *)
OverlayAll == IF selected # NoConv /\ local.conv = selected THEN local.turns ELSE <<>>

(* The stored conversation, then the local turns it does not contain yet. *)
OverlayTurns == IF selected # NoConv /\ local.conv = selected
           THEN Outside(local.turns, Range(detail[selected])) ELSE <<>>
ShownTurns == IF selected = NoConv THEN <<>> ELSE detail[selected] \o OverlayTurns

Unlisted(items) == Outside(items, Range(listed.items))
ConvRows == listed.items \o Unlisted(older)
NextCursor == IF olderNext # 0 THEN olderNext ELSE listed.next
MoreConvs == ~exhausted /\ NextCursor # 0

-----------------------------------------------------------------------------
(* The thread. *)

CopilotAsks ==
    /\ ask.stage = "idle" /\ asks < MaxTurns
    /\ ask' = [turn |-> asks + 1, conv |-> selected, stage |-> "asked"]
    /\ asks' = asks + 1
    /\ UNCHANGED <<storeVars, selected, local, detail, reading, listVars>>

(* The API answers: in a conversation of its own if none was selected, and not *)
(* at all in an archived one.  Whatever was kept, its answer may be lost.      *)
AskKept ==
    /\ ask.stage = "asked"
    /\ \E c \in IF ask.conv = NoConv THEN {d \in Conv : stamp[d] = 0} ELSE {ask.conv} \cap LiveConvs :
        /\ turns' = [turns EXCEPT ![c] = Append(@, ask.turn)]
        /\ stamp' = [stamp EXCEPT ![c] = AskClock]
        /\ ask' \in {NotAsking, [turn |-> ask.turn, conv |-> c, stage |-> "answered"]}
    /\ UNCHANGED <<archived, selected, local, detail, reading, asks, listVars>>

AskRefused ==
    /\ ask.stage = "asked" /\ ask' = NotAsking
    /\ UNCHANGED <<storeVars, selected, local, detail, reading, asks, listVars>>

(* A defect: the newest turn alone is kept. *)
WithNewestTurn == [conv |-> ask.conv, turns |-> <<ask.turn>>]

WithTurn ==
    [conv |-> ask.conv,
     turns |-> IF local.conv = ask.conv THEN Append(local.turns, ask.turn) ELSE <<ask.turn>>]

(* onSuccess: the turns are overlaid, the conversation is opened, and its query *)
(* and the list's are invalidated, which cancels a read of them in flight.      *)
AnswerShown ==
    /\ ask.stage = "answered" /\ ask' = NotAsking
    /\ local' = WithTurn /\ selected' = ask.conv
    /\ reading' = [conv |-> NoConv, turns |-> <<>>]
    /\ listStale' = TRUE
    /\ UNCHANGED <<storeVars, detail, asks, listed, older, olderNext, exhausted, loading, raced>>

NoLocal == [conv |-> NoConv, turns |-> <<>>]

SelectConv(c) ==
    /\ c \in Range(ConvRows) /\ c # selected
    /\ selected' = c
    /\ local' = IF local.conv = c THEN local ELSE NoLocal
    /\ UNCHANGED <<storeVars, detail, reading, ask, asks, listVars>>

StartNew ==
    /\ selected' = NoConv /\ local' = NoLocal
    /\ UNCHANGED <<storeVars, detail, reading, ask, asks, listVars>>

(* The conversation query reads; an archived one answers 404 and the data stays. *)
ConvReads ==
    /\ selected \in LiveConvs /\ reading.conv = NoConv
    /\ reading' = [conv |-> selected, turns |-> turns[selected]]
    /\ UNCHANGED <<storeVars, selected, local, detail, ask, asks, listVars>>

ConvArrives ==
    /\ reading.conv # NoConv
    /\ detail' = [detail EXCEPT ![reading.conv] = reading.turns]
    /\ reading' = [conv |-> NoConv, turns |-> <<>>]
    /\ UNCHANGED <<storeVars, selected, local, ask, asks, listVars>>

-----------------------------------------------------------------------------
(* The list. *)

(* Asked for again because it was invalidated, or changed on another device. *)
ListArrives ==
    /\ listStale
    /\ listed' = ConvPage(TopStamp) /\ listStale' = FALSE
    /\ UNCHANGED <<storeVars, threadVars, older, olderNext, exhausted, loading, raced>>

(* An older page, read when it was asked for, arriving later or failing. *)
LoadOlder ==
    /\ MoreConvs /\ ConvRows # <<>> /\ loading = <<>>
    /\ loading' = <<ConvPage(NextCursor)>>
    /\ UNCHANGED <<storeVars, threadVars, listed, listStale, older, olderNext, exhausted, raced>>

OlderArrives ==
    /\ loading # <<>> /\ loading' = <<>>
    /\ \/ LET page == loading[1]
          IN /\ older' = older \o page.items /\ olderNext' = page.next
             /\ exhausted' = (exhausted \/ page.next = 0)
       \/ UNCHANGED <<older, olderNext, exhausted>>
    /\ UNCHANGED <<storeVars, threadVars, listed, listStale, raced>>

(* A read or a question that had seen the conversation before it was archived. *)
ConvSeen(c) == \/ loading # <<>> /\ c \in Range(loading[1].items)
               \/ ask.conv = c

(* archive_conversation and its onSuccess; a failed one changes nothing. *)
ArchiveConv(c) ==
    /\ c \in Range(ConvRows) \cap LiveConvs
    /\ archived' = archived \cup {c}
    /\ raced' = IF ConvSeen(c) THEN raced \cup {c} ELSE raced
    /\ selected' = IF selected = c THEN NoConv ELSE selected
    /\ local' = IF selected = c THEN NoLocal ELSE local
    /\ older' = Outside(older, {c})
    /\ listStale' = TRUE
    /\ UNCHANGED <<turns, stamp, detail, reading, ask, asks, listed, olderNext, exhausted, loading>>

CopilotNext ==
    \/ CopilotAsks \/ AskKept \/ AskRefused \/ AnswerShown
    \/ StartNew \/ ConvReads \/ ConvArrives
    \/ ListArrives \/ LoadOlder \/ OlderArrives
    \/ \E c \in Conv : SelectConv(c) \/ ArchiveConv(c)

CopilotSpec == CopilotInit /\ [][CopilotNext]_copilotVars

-----------------------------------------------------------------------------
CopilotTypeOK ==
    /\ \A c \in Conv : Range(turns[c]) \subseteq 1..MaxTurns /\ stamp[c] \in 0..TopStamp
    /\ archived \subseteq Conv /\ raced \subseteq archived
    /\ selected \in Conv \cup {NoConv} /\ local.conv \in Conv \cup {NoConv}
    /\ ask.stage \in {"idle", "asked", "answered"} /\ asks \in 0..MaxTurns
    /\ Range(listed.items) \subseteq Conv /\ Range(older) \subseteq Conv
    /\ {listStale, exhausted} \subseteq BOOLEAN

(* The thread renders turns of the open conversation only, each once and in the *)
(* order they were asked, however the answer, the re-read and the switching     *)
(* between conversations interleave (the overlay of kt-copilot.tsx).            *)
ThreadInOrder ==
    \A i, j \in 1..Len(ShownTurns) : /\ ShownTurns[i] \in Range(turns[selected])
                                     /\ i < j => ShownTurns[i] < ShownTurns[j]

(* A turn on screen stays there until the reader opens another conversation or   *)
(* this one is closed: neither a second answer nor a late re-read blinks it out. *)
AnswersStay ==
    [][selected' = selected => Range(ShownTurns) \subseteq Range(ShownTurns')]_copilotVars

(* An archived conversation leaves the list:                               *)
(* it is back only if a read or a question that had seen it was in flight. *)
ArchivedLeaves ==
    \A c \in archived \ raced :
        /\ c \notin Range(older)
        /\ c \in Range(listed.items) => listStale

(* A conversation on screen leaves the list only when it was archived, or when a  *)
(* newer one pushed it off the first page after older pages had been loaded below *)
(* it: else "Load more" still reaches it.                                         *)
RowsAreKept ==
    [][\A c \in Range(ConvRows) \ Range(ConvRows') :
        \/ c \in archived' \/ older # <<>>
        \/ stamp'[c] < listed'.next]_copilotVars
=============================================================================
