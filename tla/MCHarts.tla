-------------------------------- MODULE MCHarts --------------------------------
(* Harts with a few harts; the ones to be cloned are interchangeable.       *)
EXTENDS Harts, TLC

Symmetry == Permutations(Hart \ {Main})
================================================================================
