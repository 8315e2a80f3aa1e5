------------------------ MODULE MCEnduranceIteration ------------------------
(* An instance of EnduranceIteration for TLC. *)
EXTENDS EnduranceIteration, TLC

CONSTANTS A, B, p1, p2

\* The canonical content has three rows, the other one row.
MCRowCount == (Empty :> 0) @@ (A :> 3) @@ (B :> 1)
MCBlankRow == (Empty :> 0) @@ (A :> 0) @@ (B :> 0)

CrashPoints ==
    {NoFailPoint,
     [chunk |-> 2, mode |-> "during-write", pause |-> TRUE],
     [chunk |-> 2, mode |-> "after-business-commit", pause |-> TRUE]}
=============================================================================
