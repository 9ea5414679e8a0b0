---------------------------- MODULE ResourceLock ----------------------------
(***************************************************************************)
(* What the lock manager promises about one resource: lockers ask for a    *)
(* mode, get it only while nobody else holds a conflicting one, may give   *)
(* up asking, may weaken what they hold, and release it.  A locker that    *)
(* holds a mode and asks for another keeps the first until it gets the     *)
(* second.                                                                 *)
(***************************************************************************)
CONSTANTS
    Locker,
    Mode,
    NoMode,
    Conflicts      \* Conflicts[m]: the modes that exclude m

VARIABLES held, wanted

vars == <<held, wanted>>

Init ==
    /\ held = [l \in Locker |-> NoMode]
    /\ wanted = [l \in Locker |-> NoMode]

Ask(l, m) ==
    /\ wanted[l] = NoMode
    /\ wanted' = [wanted EXCEPT ![l] = m]
    /\ UNCHANGED held

Grant(l) ==
    /\ wanted[l] # NoMode
    /\ \A other \in Locker \ {l} : held[other] \notin Conflicts[wanted[l]]
    /\ held' = [held EXCEPT ![l] = wanted[l]]
    /\ wanted' = [wanted EXCEPT ![l] = NoMode]

GiveUp(l) ==
    /\ wanted[l] # NoMode
    /\ wanted' = [wanted EXCEPT ![l] = NoMode]
    /\ UNCHANGED held

Weaken(l, m) ==
    /\ held[l] # NoMode
    /\ wanted[l] = NoMode
    /\ Conflicts[m] \subseteq Conflicts[held[l]]
    /\ held' = [held EXCEPT ![l] = m]
    /\ UNCHANGED wanted

Release(l) ==
    /\ held[l] # NoMode
    /\ wanted[l] = NoMode
    /\ held' = [held EXCEPT ![l] = NoMode]
    /\ UNCHANGED wanted

Next ==
    \E l \in Locker :
        \/ \E m \in Mode : Ask(l, m) \/ Weaken(l, m)
        \/ Grant(l) \/ GiveUp(l) \/ Release(l)

Spec == Init /\ [][Next]_vars
=============================================================================
