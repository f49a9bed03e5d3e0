---------------------------- MODULE MCConnections ----------------------------
(*****************************************************************************)
(* Instances of Connections for TLC: a connection (or one and its successor) *)
(* of one person, a few requests, workers, OAuth states and grants.          *)
(*****************************************************************************)
EXTENDS Connections, TLC

CONSTANTS c1, c2, r1, r2, w1, w2, s1, s2, g1, g2, g3

MCConn == {c1}
MCTwoConn == {c1, c2}
MCRequest == {r1, r2}
MCOneRequest == {r1}
MCWorker == {w1, w2}
MCOneWorker == {w1}
MCState == {s1, s2}
MCOneState == {s1}
MCGrant == {g1, g2, g3}
MCTwoGrant == {g1, g2}

(* Rows, requests, workers, states and grants are interchangeable; used by the
   runs with no liveness property. *)
AllSymmetry == Permutations(Request) \cup Permutations(Worker) \cup Permutations(State)
                 \cup Permutations(Grant) \cup Permutations(Conn)
=============================================================================
