------------------------ MODULE MCEnduranceEvidence ------------------------
(* Instances of EnduranceEvidence for TLC.                                  *)
EXTENDS EnduranceEvidence, TLC

CONSTANTS p1, p2

One == {p1}
Two == {p1, p2}
Symmetry == Permutations(Two)

Drivers == {"next", "batch", "guarded", "campaign"}
=============================================================================
