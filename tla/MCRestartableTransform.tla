----------------------- MODULE MCRestartableTransform -----------------------
(* Instances of RestartableTransform for TLC. *)
EXTENDS RestartableTransform, TLC

CONSTANTS A, B, p1, p2

\* A has three rows, B two, of which the second has a blank name.
MCRowCount == (Empty :> 0) @@ (A :> 3) @@ (B :> 2)
MCBlankRow == (Empty :> 0) @@ (A :> 0) @@ (B :> 2)

\* One content of two rows beside the empty one.
SmallRowCount == (Empty :> 0) @@ (A :> 2)
SmallBlankRow == (Empty :> 0) @@ (A :> 0)

NoFailPoints == {NoFailPoint}
ErrorAtChunk2 ==
    {NoFailPoint,
     [chunk |-> 2, mode |-> "during-write", pause |-> FALSE],
     [chunk |-> 2, mode |-> "after-business-commit", pause |-> FALSE]}
UnknownAtChunk2 ==
    {NoFailPoint,
     [chunk |-> 2, mode |-> "after-business-commit", pause |-> FALSE]}

ProcSymmetry == Permutations(Procs)
=============================================================================
