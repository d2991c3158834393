------------------------------ MODULE MCSFTJob ------------------------------
(* SFTJob with small data sets and every combination of its parameters.    *)
EXTENDS SFTJob

OneToThree == {1, 2, 3}
NeverToThree == {0, 1, 2, 3}
=============================================================================
