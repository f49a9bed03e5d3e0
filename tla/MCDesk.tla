-------------------------------- MODULE MCDesk -------------------------------
(********************************************************************************)
(* Instance: what an employee gives and asks.  The Knowledge Basket with two    *)
(* files, one of them text; or the question box with two dictations and two     *)
(* questions; or the embedding of one document of eight chunks, four to a pass; *)
(* or the walk of a source with one document, which two workers may fetch.      *)
(* They share no state, so a run picks one and stays there.                     *)
(********************************************************************************)
EXTENDS Basket, Ask, Embedding, SourceWalk

CONSTANTS f1, f2, w1, w2, d1, g1, g2

VARIABLE at

MCFile == {f1, f2}
MCTextFile == {f1}
MCText == {w1, w2}
MCDoc == {d1}
MCFetcher == {g1, g2}
MCTokens == <<1, 1, 1, 1, 2, 1, 1, 1>>

deskVars == <<at, basketVars, askAllVars, passVars, walkVars>>

DeskInit ==
    /\ at \in {"basket", "box", "pass", "walk"}
    /\ BasketInit /\ AskInit /\ EmbeddingInit /\ WalkInit

DeskNext ==
    /\ UNCHANGED at
    /\ IF at = "basket" THEN BasketNext ELSE UNCHANGED basketVars
    /\ IF at = "box" THEN AskNext ELSE UNCHANGED askAllVars
    /\ IF at = "pass" THEN EmbeddingNext ELSE UNCHANGED passVars
    /\ IF at = "walk" THEN WalkNext ELSE UNCHANGED walkVars

(* What is not picked stays at a first state in which no fair action is enabled. *)
DeskSpec ==
    /\ DeskInit /\ [][DeskNext]_deskVars
    /\ BasketFairness /\ AskFairness /\ EmbeddingFairness

-----------------------------------------------------------------------------
DeskTypeOK == BasketTypeOK /\ AskTypeOK /\ VoiceTypeOK /\ EmbeddingTypeOK /\ WalkTypeOK

(* Waiting ends: a file's turn in the upload lane, a row's spinner, an embedding pass *)
(* (knowledge-basket.tsx, embed of embeddings.py).                                    *)
WaitsEnd == NobodyLeftWaiting /\ SpinnerEnds /\ PassEnds
=============================================================================
