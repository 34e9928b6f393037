----------------------------- MODULE MCFeldmanDkg -----------------------------
(* Model values and symmetry for the FeldmanDkg runs.                      *)
EXTENDS FeldmanDkg, TLC

Symmetry == Permutations(Party)

===============================================================================
