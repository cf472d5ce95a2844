------------------------------ MODULE MCRawPreview ------------------------------
(* RawPreview for TLC: two attempts, of one run or of two.                      *)
EXTENDS RawPreview

CONSTANTS run1, run2

MCInputs == Attempts \X {run1, run2}
MCSymmetry == Permutations(Attempts) \cup Permutations({run1, run2}) \cup Permutations(Acceptors)
=============================================================================
