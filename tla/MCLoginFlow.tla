------------------------------ MODULE MCLoginFlow ------------------------------
(* Small instances of LoginFlow for TLC.                                   *)
EXTENDS LoginFlow

\* The addresses are interchangeable.
Symmetry == Permutations(Emails)

=============================================================================
