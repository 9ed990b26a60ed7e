------------------------------ MODULE MCTether ------------------------------
(* Instances of Tether for TLC.                                            *)
EXTENDS Tether, TLC

\* The two instances run the same code, and so do the two links.
Symmetry == Permutations(Instance) \cup Permutations(Link)

=============================================================================
