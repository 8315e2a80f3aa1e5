-------------------------- MODULE MCResourceSampler --------------------------
(* Instances of ResourceSampler for TLC.                                    *)
EXTENDS ResourceSampler
=============================================================================
