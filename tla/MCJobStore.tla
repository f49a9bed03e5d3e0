----------------------------- MODULE MCJobStore -----------------------------
(****************************************************************************)
(* Instances of JobStore for TLC, with two workers: a document and the      *)
(* embedding it queues (one kind that locks its row after its slow part and *)
(* one before), or a source and the document its walk queues and reopens.   *)
(****************************************************************************)
EXTENDS JobStore, TLC

CONSTANTS source, doc, embed, w1, w2

MCJob == {doc, embed}
MCWalk == {source, doc}
MCDocOnly == {doc}
MCWorker == {w1, w2}

MCKindOf == [j \in Job |-> CASE j = source -> "ingest.source"
                              [] j = doc -> "ingest.document"
                              [] OTHER -> "embed.document"]

(* A walk queues its documents, a document its embedding. *)
MCFollows == [j \in Job |-> Job \cap CASE j = source -> {doc}
                                       [] j = doc -> {embed}
                                       [] OTHER -> {}]

(* Workers are interchangeable; used by the runs with no liveness property. *)
WorkerSymmetry == Permutations(MCWorker)
=============================================================================
