------------------------------- MODULE MCDrain ------------------------------
(***************************************************************************)
(* Instances of Drain for TLC: a document and the embedding it queues, one *)
(* or two worker processes.                                                *)
(***************************************************************************)
EXTENDS Drain, TLC

CONSTANTS doc, embed, w1, w2

MCJob == {doc, embed}
MCWorker == {w1, w2}
MCOneWorker == {w1}

MCKindOf == [j \in Job |-> IF j = doc THEN "ingest.document" ELSE "embed.document"]
MCFollows == [j \in Job |-> IF j = doc THEN {embed} ELSE {}]

(* Workers are interchangeable; used by the runs with no liveness property. *)
WorkerSymmetry == Permutations(MCWorker)
=============================================================================
