------------------------- MODULE MCRecoveryCampaign -------------------------
(* Instances of RecoveryCampaign for TLC.                                   *)
EXTENDS RecoveryCampaign

CONSTANTS p1, A, B, C, x1, x2, x3

One == {p1}
Three == {x1, x2, x3}
ThreeInOrder == <<x1, x2, x3>>
=============================================================================
