------------------------- MODULE AtomicCommitProofs -------------------------
(***************************************************************************)
(* The abstract commit protocol is atomic, for any set of participants.    *)
(* TransactionCoordinator implements it, so this is what the refinement    *)
(* gives a user of a cross-shard transaction.                              *)
(***************************************************************************)
EXTENDS AtomicCommit, TLAPS

TypeInv ==
    /\ state \in [Shards -> {"working", "prepared", "committed", "aborted"}]
    /\ outcome \in {"none", "commit", "abort"}

(* No participant commits what another aborts, and once one has committed   *)
(* every other one has prepared, so that it can only commit too.            *)
Atomic ==
    /\ \A r, s \in Shards : ~(state[r] = "committed" /\ state[s] = "aborted")
    /\ (\E r \in Shards : state[r] = "committed")
         => \A s \in Shards : state[s] \in {"prepared", "committed"}

\* The inductive invariant: a participant's final state is the outcome, and a commit has
\* found everyone prepared.
OutcomeInv ==
    /\ outcome = "commit" => \A s \in Shards : state[s] \in {"prepared", "committed"}
    /\ \A s \in Shards : state[s] = "committed" => outcome = "commit"
    /\ \A s \in Shards : state[s] = "aborted" => outcome = "abort"

Inv == TypeInv /\ OutcomeInv

LEMMA InitInv == Init => Inv
  BY DEF Init, Inv, TypeInv, OutcomeInv

LEMMA StepInv == Inv /\ [Next]_<<state, outcome>> => Inv'
<1> SUFFICES ASSUME Inv, [Next]_<<state, outcome>> PROVE Inv'
  OBVIOUS
<1> USE DEF Inv, TypeInv, OutcomeInv
<1>1. ASSUME NEW s \in Shards, Prepare(s) PROVE Inv'
  BY <1>1 DEF Prepare
<1>2. ASSUME NEW s \in Shards, Commit(s) PROVE Inv'
  BY <1>2 DEF Commit
<1>3. ASSUME NEW s \in Shards, Abort(s) PROVE Inv'
  BY <1>3 DEF Abort
<1>4. ASSUME NEW d \in {"commit", "abort"}, Decide(d) PROVE Inv'
  BY <1>4 DEF Decide
<1>5. CASE UNCHANGED <<state, outcome>>
  BY <1>5
<1> QED
  BY <1>1, <1>2, <1>3, <1>4, <1>5 DEF Next

(* Whatever the order in which participants prepare, the decision is sent   *)
(* and they carry it out: all of them commit or none does (the promise of   *)
(* sendCommit and sendAbort).                                               *)
THEOREM Atomicity == Spec => []Atomic
<1>1. Inv => Atomic
  BY DEF Inv, TypeInv, OutcomeInv, Atomic
<1> QED
  BY <1>1, InitInv, StepInv, PTL DEF Spec
=============================================================================
