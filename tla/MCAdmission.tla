----------------------------- MODULE MCAdmission -----------------------------
(* Small instances of Admission for TLC; the cfg files give the constants.    *)
EXTENDS Admission, TLC

Symmetry == Permutations(Handlers) \cup Permutations(Keys) \cup Permutations(Tags)
===============================================================================
