---------------------------- MODULE MCWorkerBoot ----------------------------
(* WorkerBoot on small instances. *)
EXTENDS WorkerBoot, TLC

=============================================================================
