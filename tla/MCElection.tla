----------------------------- MODULE MCElection -----------------------------
(***************************************************************************)
(* Instances of Election for TLC with two or three members, all of them    *)
(* voters, and two threads for replSetStepDown commands: both on n1, or    *)
(* one each on n1 and n2, which then have the same part.                   *)
(***************************************************************************)
EXTENDS Election, TLC

CONSTANTS n1, n2, n3, c1, c2

AllOnOne == [c \in Command |-> n1]
OneEach == c1 :> n1 @@ c2 :> n2

\* n1 and n2 change places, and so do their commands.
Candidates == {n1 :> n2 @@ n2 :> n1 @@ c1 :> c2 @@ c2 :> c1}
=============================================================================
