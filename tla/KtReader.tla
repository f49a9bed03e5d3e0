------------------------------- MODULE KtReader -----------------------------
(*******************************************************************************)
(* What a recipient reads of a package: one document of its list, passage by   *)
(* passage (components/kt/kt-pages.tsx over kt.py), and in the second part its *)
(* executive summary.                                                          *)
(*                                                                             *)
(* The document's first page is a cached query, read again when the window is  *)
(* looked at; the pages below it are state of the reader, walked by ordinal.   *)
(* Meanwhile the curator keeps the document back or shares it again, ingestion *)
(* stores its passages, and the package closes.                                *)
(*******************************************************************************)
EXTENDS QueryView, Naturals, Sequences

CONSTANTS
    Passages,        \* the passages of the document, once it is chunked
    PageLen          \* limit: the passages of a page

ASSUME ReaderAssumption == Passages \in Nat /\ PageLen \in Nat \ {0}

ReaderQuery == {"documents", "reader"}

VARIABLES
    package,         \* "open" or "closed"
    inPackage,       \* the document is the subject's, in its period, and not kept back
    passagesStored,  \* how many passages are stored: none, or all
    onPage,          \* the list, or the reader of the document
    readable,        \* readable[q]: the two queries
    why,             \* why[q]: the failure each has, "none" without one
    rest,            \* the reader's passages below the first page
    restCursor,      \* the ordinal to ask for next; 0 is null
    restOver,        \* exhausted
    passageOut,      \* the page asked for: its first ordinal, or 0
    passageGot       \* the passages it was answered with and the next ordinal, in a one-element sequence

readerWorld == <<package, inPackage, passagesStored>>
readerWalk == <<rest, restCursor, restOver, passageOut, passageGot>>
readerVars == <<readerWorld, onPage, readable, why, readerWalk>>

(* kt_document: passages from an ordinal on, and the ordinal after them if any is left. *)
PassagesFrom(n, have) == [i \in 1..(IF n + PageLen <= have THEN PageLen ELSE have + 1 - n) |-> n + i - 1]
NextAfter(n, have) == IF n + PageLen <= have THEN n + PageLen ELSE 0

(* _open_for, then the predicate inside the statement. *)
Refusal(q) ==
    IF package = "closed" THEN "denied" ELSE IF q = "reader" /\ ~inPackage THEN "missing" ELSE "none"
ReaderAnswer(q) == IF q = "reader" THEN passagesStored ELSE Passages

ReaderInit ==
    /\ package = "open" /\ inPackage = TRUE /\ passagesStored \in {0, Passages} /\ onPage = "documents"
    /\ readable = [q \in ReaderQuery |-> IF q = "documents" THEN Asked(Unread(0)) ELSE Unread(0)]
    /\ why = [q \in ReaderQuery |-> "none"]
    /\ rest = <<>> /\ restCursor = 0 /\ restOver = FALSE /\ passageOut = 0 /\ passageGot = <<>>

PackageChanges ==
    /\ \/ package' = "closed" /\ UNCHANGED <<inPackage, passagesStored>>
       \/ inPackage' = ~inPackage /\ UNCHANGED <<package, passagesStored>>
       \/ passagesStored' = Passages /\ UNCHANGED <<package, inPackage>>
    /\ UNCHANGED <<onPage, readable, why, readerWalk>>

(* A refused read hides what an earlier one brought. *)
TextShown(q) == onPage = q /\ readable[q].here /\ why[q] = "none"

(* A document of the list, or Back: the reader starts over on what is cached. *)
OpensReader(q) ==
    /\ q # onPage /\ (q = "reader" => TextShown("documents"))
    /\ onPage' = q
    /\ \E v \in OnMount(readable[q]) : readable' = [readable EXCEPT ![q] = v]
    /\ rest' = <<>> /\ restCursor' = 0 /\ restOver' = FALSE /\ passageOut' = 0 /\ passageGot' = <<>>
    /\ UNCHANGED <<readerWorld, why>>

ReaderServed(q) ==
    /\ readable[q].stage = "asked" /\ Refusal(q) = "none"
    /\ readable' = [readable EXCEPT ![q] = ReadAnswered(@, ReaderAnswer(q))]
    /\ UNCHANGED <<readerWorld, onPage, why, readerWalk>>

ReaderArrives(q) ==
    /\ readable[q].stage = "answered"
    /\ readable' = [readable EXCEPT ![q] = Arrived(@)] /\ why' = [why EXCEPT ![q] = "none"]
    /\ UNCHANGED <<readerWorld, onPage, readerWalk>>

(* Refused, or lost. *)
ReaderFails(q) ==
    /\ Reading(readable[q]) /\ readable' = [readable EXCEPT ![q] = Failed(@)]
    /\ why' \in {[why EXCEPT ![q] = f] : f \in {"fault"} \cup
                    (IF readable[q].stage = "asked" THEN {Refusal(q)} \ {"none"} ELSE {})}
    /\ UNCHANGED <<readerWorld, onPage, readerWalk>>

(* Try again, or the window looked at again. *)
ReaderRereads ==
    /\ readable[onPage].stage \in {"idle", "failed"}
    /\ readable' = [readable EXCEPT ![onPage] = Asked(@)]
    /\ UNCHANGED <<readerWorld, onPage, why, readerWalk>>

(* Where Load more goes on; exhausted is kept apart from a null cursor, which is also *)
(* the state before the walk.                                                         *)
HeadNext == NextAfter(1, readable["reader"].data)
NextOrdinal == IF restOver THEN 0 ELSE IF restCursor # 0 THEN restCursor ELSE HeadNext

PassagesPressed ==
    /\ TextShown("reader") /\ passageOut = 0 /\ NextOrdinal # 0 /\ passageOut' = NextOrdinal
    /\ UNCHANGED <<readerWorld, onPage, readable, why, rest, restCursor, restOver, passageGot>>

MoreServed ==
    /\ passageOut # 0 /\ passageGot = <<>> /\ Refusal("reader") = "none"
    /\ passageGot' = <<[items |-> PassagesFrom(passageOut, passagesStored),
                        next |-> NextAfter(passageOut, passagesStored)]>>
    /\ UNCHANGED <<readerWorld, onPage, readable, why, rest, restCursor, restOver, passageOut>>

MoreComes ==
    /\ passageGot # <<>> /\ rest' = rest \o passageGot[1].items
    /\ restCursor' = passageGot[1].next /\ restOver' = (restOver \/ passageGot[1].next = 0)
    /\ passageOut' = 0 /\ passageGot' = <<>>
    /\ UNCHANGED <<readerWorld, onPage, readable, why>>

MoreFails ==                         \* refused or lost: a toast, and the text stays
    /\ passageOut # 0 /\ passageOut' = 0 /\ passageGot' = <<>>
    /\ UNCHANGED <<readerWorld, onPage, readable, why, rest, restCursor, restOver>>

ReaderNext ==
    \/ PackageChanges \/ ReaderRereads \/ PassagesPressed \/ MoreServed \/ MoreComes \/ MoreFails
    \/ \E q \in ReaderQuery : OpensReader(q) \/ ReaderServed(q) \/ ReaderArrives(q) \/ ReaderFails(q)

ReaderSpec == ReaderInit /\ [][ReaderNext]_readerVars

-----------------------------------------------------------------------------
ReaderTypeOK ==
    /\ package \in {"open", "closed"} /\ {inPackage, restOver} \subseteq BOOLEAN
    /\ passagesStored \in {0, Passages} /\ onPage \in ReaderQuery /\ Len(rest) <= 2 * Passages
    /\ restCursor \in 0..Passages /\ passageOut \in 0..Passages /\ Len(passageGot) <= 1

(* The text on screen is the document from its first passage on, none missing and none   *)
(* twice, and Load more is offered exactly while passages are left: whatever first page  *)
(* came again meanwhile, whatever was lost, and whatever was kept back and shared again. *)
TextIsUnbroken ==
    TextShown("reader") =>
        LET have == readable["reader"].data
            text == PassagesFrom(1, have) \o rest
        IN /\ text = [i \in 1..Len(text) |-> i] /\ Len(text) <= have
           /\ (NextOrdinal # 0) = (Len(text) < have)

-----------------------------------------------------------------------------
(******************************************************************************)
(* The executive summary of a package: one press composes a text and its PDF, *)
(* which this tab holds as an object URL (ExecutiveSummary and Composed in    *)
(* app/kt/[code]/handover/page.tsx).  Compositions and visits to the page are *)
(* numbered; a composition's URL has its number.                              *)
(******************************************************************************)

CONSTANT MaxComposed                 \* bound on the compositions of a run

ASSUME ComposedAssumption == MaxComposed \in Nat

VARIABLES
    there,           \* the page is mounted
    composed,        \* the compositions started so far
    composeOut,      \* those in flight, each with whether it is the mounted page's
    reportShown,     \* compose.data: the composition on screen, 0 for none
    urlRef,          \* the URL the page will revoke, 0 for none
    pdfUrl,          \* the URL its links carry
    liveUrls,        \* the object URLs this browser tab keeps in memory
    abandoned        \* history: the compositions in flight when the page was left

handoverVars == <<there, composed, composeOut, reportShown, urlRef, pdfUrl, liveUrls,
                  abandoned>>

HandoverInit ==
    /\ there = TRUE /\ composed = 0 /\ composeOut = {}
    /\ reportShown = 0 /\ urlRef = 0 /\ pdfUrl = 0 /\ liveUrls = {}
    /\ abandoned = {}

Mine == {c \in composeOut : c.mine}

(* release, by onMutate and again by the effect's clean-up. *)
KeptAnyway == liveUrls
Revoked == liveUrls \ {urlRef}

(* start: nothing while a composition is pending. *)
ComposePressed ==
    /\ there /\ Mine = {} /\ composed < MaxComposed
    /\ composed' = composed + 1
    /\ composeOut' = composeOut \cup {[n |-> composed + 1, mine |-> TRUE]}
    /\ liveUrls' = Revoked /\ urlRef' = 0 /\ pdfUrl' = 0 /\ reportShown' = 0
    /\ UNCHANGED <<there, abandoned>>

(* onSuccess runs whether or not its page is still there; its set of state is then *)
(* void, the URL it made is not.                                                   *)
ComposeAnswered(c) ==
    /\ c \in composeOut /\ composeOut' = composeOut \ {c}
    /\ liveUrls' = liveUrls \cup {c.n}
    /\ IF c.mine THEN urlRef' = c.n /\ pdfUrl' = c.n /\ reportShown' = c.n
                 ELSE UNCHANGED <<urlRef, pdfUrl, reportShown>>
    /\ UNCHANGED <<there, composed, abandoned>>

ComposeFails(c) ==
    /\ c \in composeOut /\ composeOut' = composeOut \ {c}
    /\ UNCHANGED <<there, composed, reportShown, urlRef, pdfUrl, liveUrls, abandoned>>

LeavesHandover ==
    /\ there /\ there' = FALSE
    /\ liveUrls' = Revoked /\ urlRef' = 0 /\ pdfUrl' = 0 /\ reportShown' = 0
    /\ composeOut' = {[c EXCEPT !.mine = FALSE] : c \in composeOut}
    /\ abandoned' = abandoned \cup {c.n : c \in composeOut}
    /\ UNCHANGED composed

ReturnsToHandover ==
    /\ ~there /\ there' = TRUE
    /\ UNCHANGED <<composed, composeOut, reportShown, urlRef, pdfUrl, liveUrls, abandoned>>

HandoverNext ==
    \/ ComposePressed \/ LeavesHandover \/ ReturnsToHandover
    \/ \E c \in composeOut : ComposeAnswered(c) \/ ComposeFails(c)

HandoverSpec == HandoverInit /\ [][HandoverNext]_handoverVars

-----------------------------------------------------------------------------
HandoverTypeOK ==
    /\ there \in BOOLEAN /\ composed \in 0..MaxComposed /\ liveUrls \cup abandoned \subseteq 1..MaxComposed
    /\ composeOut \subseteq [n : 1..MaxComposed, mine : BOOLEAN]
    /\ {reportShown, urlRef, pdfUrl} \subseteq 0..MaxComposed

(* "released when a new composition starts and when the page unmounts": no URL is   *)
(* out of the page's reach, but for those of compositions the page was left during. *)
EveryUrlReleased == liveUrls \ abandoned \subseteq {urlRef}

(* "the text on screen and the file downloaded are one composition", and the file *)
(* behind a link is still in memory.                                              *)
OneComposition == pdfUrl # 0 => pdfUrl = reportShown /\ pdfUrl \in liveUrls
=============================================================================
