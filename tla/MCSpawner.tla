----------------------------- MODULE MCSpawner -----------------------------
(* The spawner for TLC: model values for users, machines and coroutine     *)
(* slots.  Machines and slots are interchangeable.                         *)
EXTENDS Spawner, TLC

Symmetry == Permutations(Instances) \union Permutations(Tasks)

UserSymmetry == Symmetry \union Permutations(Users)

=============================================================================
