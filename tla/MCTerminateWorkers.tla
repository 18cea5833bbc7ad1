------------------------- MODULE MCTerminateWorkers -------------------------
(* The script and the hub for TLC. *)
EXTENDS TerminateWorkers, TLC

Symmetry == Permutations(Instances) \union Permutations(Tasks)
            \union Permutations(Users)

=============================================================================
