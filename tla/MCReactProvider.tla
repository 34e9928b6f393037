--------------------------- MODULE MCReactProvider ---------------------------
(* Symmetry of the users for the ReactProvider runs.                       *)
EXTENDS ReactProvider, TLC

Symmetry == Permutations(Users)

===============================================================================
