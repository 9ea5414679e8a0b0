---------------------------- MODULE AtomicCommit ----------------------------
(***************************************************************************)
(* What the two-phase commit of a sharded transaction promises: one        *)
(* outcome, which is commit only if every participant had prepared, and    *)
(* participants that leave the prepared state only with that outcome.      *)
(*                                                                         *)
(* The state of a participant is what is majority committed on its shard.  *)
(* A transaction that was dropped before it prepared stays "working": the  *)
(* shard logs nothing of it.                                               *)
(***************************************************************************)
CONSTANT Shards

VARIABLES
    state,           \* [Shards -> "working", "prepared", "committed" or "aborted"]
    outcome          \* "none" until the decision is sent, then "commit" or "abort"

Init ==
    /\ state = [s \in Shards |-> "working"]
    /\ outcome = "none"

Prepare(s) ==
    /\ state[s] = "working"
    /\ outcome # "commit"
    /\ state' = [state EXCEPT ![s] = "prepared"]
    /\ UNCHANGED outcome

Decide(d) ==
    /\ outcome = "none"
    /\ d = "commit" => \A s \in Shards : state[s] = "prepared"
    /\ outcome' = d
    /\ UNCHANGED state

Commit(s) ==
    /\ outcome = "commit"
    /\ state[s] = "prepared"
    /\ state' = [state EXCEPT ![s] = "committed"]
    /\ UNCHANGED outcome

Abort(s) ==
    /\ outcome = "abort"
    /\ state[s] \in {"working", "prepared"}
    /\ state' = [state EXCEPT ![s] = "aborted"]
    /\ UNCHANGED outcome

Next ==
    \/ \E s \in Shards : Prepare(s) \/ Commit(s) \/ Abort(s)
    \/ \E d \in {"commit", "abort"} : Decide(d)

Spec == Init /\ [][Next]_<<state, outcome>>
=============================================================================
