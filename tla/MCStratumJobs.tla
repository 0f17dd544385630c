--------------------------- MODULE MCStratumJobs ---------------------------
(* Instances of StratumJobs small enough for TLC.                          *)
EXTENDS StratumJobs

CONSTANTS c1, c2, d1

NoDens   == [c \in {} |-> d1]
C2InDen  == [c \in {c2} |-> d1]
=============================================================================
