------------------------------ MODULE QueryView -----------------------------
(*****************************************************************************)
(* One cached query as the web console uses it (lib/query.ts over TanStack   *)
(* Query): what the cache holds, the state of its read, and the invalidation *)
(* a write's success asks for.  A read is asked, answered by the server and  *)
(* arrives, and the server may change between any two of these.              *)
(*****************************************************************************)

(* here: something has arrived; got: what the read in flight was answered; *)
(* invalid: to be read again when it is next shown.                        *)
Unread(facts) == [data |-> facts, got |-> facts, here |-> FALSE, invalid |-> FALSE, stage |-> "never"]

Reading(v) == v.stage \in {"asked", "answered"}
Asked(v) == [v EXCEPT !.stage = "asked", !.got = v.data]
ReadAnswered(v, facts) == [v EXCEPT !.stage = "answered", !.got = facts]
Arrived(v) == [v EXCEPT !.stage = "idle", !.data = v.got, !.here = TRUE, !.invalid = FALSE]
Failed(v) == [v EXCEPT !.stage = "failed", !.got = v.data]

(* A component that uses the query mounts: a read under way is joined, what is *)
(* missing, invalid or failed is read, and what is fresh may have aged.        *)
OnMount(v) ==
    IF Reading(v) THEN {v}
    ELSE IF v.stage = "idle" /\ ~v.invalid THEN {v, Asked(v)} ELSE {Asked(v)}

(* invalidateQueries: a query on screen is asked again at once, and the read it *)
(* had under way is dropped; one off screen is only flagged.                    *)
InvalidatedDeduped(v, onScreen) ==                                   \* a defect
    IF onScreen /\ ~Reading(v) THEN [Asked(v) EXCEPT !.invalid = TRUE] ELSE [v EXCEPT !.invalid = TRUE]
Invalidated(v, onScreen) ==
    IF onScreen THEN [Asked(v) EXCEPT !.invalid = TRUE] ELSE [v EXCEPT !.invalid = TRUE]

(* A read that was answered before the write it is invalidated for will arrive *)
(* with the old facts and take the flag down.                                  *)
Outrun(v, onScreen) == ~onScreen /\ v.stage = "answered"
=============================================================================
