-------------------------- MODULE MajorityHistory --------------------------
(***************************************************************************)
(* What a replica set promises about majority committed data: there is one *)
(* history of committed entries, which only grows, and the majority        *)
(* committed snapshot of a member is a prefix of it.  A snapshot grows,    *)
(* and becomes shorter only when its member restarts.                      *)
(***************************************************************************)
EXTENDS Sequences, Naturals

CONSTANT Server

VARIABLES
    history,     \* the committed entries
    snapshot     \* the entries each member serves to majority reads

vars == <<history, snapshot>>

IsPrefix(s, t) == Len(s) <= Len(t) /\ s = SubSeq(t, 1, Len(s))

Init ==
    /\ history = <<>>
    /\ snapshot = [n \in Server |-> <<>>]

\* Entries are committed, and members may serve them at once: h and s afterwards.
Commit(h, s) ==
    /\ IsPrefix(history, h)
    /\ \A n \in Server : IsPrefix(snapshot[n], s[n])

\* The member n restarts from a checkpoint it has taken.
Restart(n, h, s) ==
    /\ h = history
    /\ \A m \in Server : IF m = n THEN IsPrefix(s[m], snapshot[m]) ELSE s[m] = snapshot[m]

Next ==
    \E h \in {history'}, s \in {snapshot'} :
        \/ h = history /\ s = snapshot
        \/ /\ Commit(h, s) \/ \E n \in Server : Restart(n, h, s)
           /\ \A n \in Server : IsPrefix(s[n], h)

Spec == Init /\ [][Next]_vars
=============================================================================
