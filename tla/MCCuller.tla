------------------------------ MODULE MCCuller ------------------------------
(* The culler and the hub for TLC. *)
EXTENDS Culler, TLC

Symmetry == Permutations(Instances) \union Permutations(Tasks)
            \union Permutations(Culls)

=============================================================================
