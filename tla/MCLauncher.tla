----------------------------- MODULE MCLauncher -----------------------------
(* The launcher for TLC. *)
EXTENDS Launcher, TLC

Symmetry == Permutations(Runs)

=============================================================================
