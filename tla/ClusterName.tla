----------------------------- MODULE ClusterName -----------------------------
(***************************************************************************)
(* What the name of a cluster promises to the administrators who launch    *)
(* clusters: it stands for one launch at a time, and machines are running  *)
(* for that launch only.  launch.py keeps no lock; that the names of the   *)
(* resources it creates amount to one is what Launcher shows.              *)
(***************************************************************************)
CONSTANTS Runs, NoRun

VARIABLES
  holder,   (* the launch the name stands for, or NoRun                    *)
  billed    (* the launches that have machines running                     *)

Init ==
  /\ holder = NoRun
  /\ billed = {}

Claim(r) ==
  /\ holder = NoRun
  /\ holder' = r
  /\ UNCHANGED billed

Bill(r) ==
  /\ holder = r
  /\ billed' = billed \union {r}
  /\ UNCHANGED holder

Unbill(r) ==
  /\ billed' = billed \ {r}
  /\ UNCHANGED holder

Release ==
  /\ billed = {}
  /\ holder' = NoRun
  /\ UNCHANGED billed

Next ==
  \/ \E r \in Runs : Claim(r) \/ Bill(r) \/ Unbill(r)
  \/ Release

Spec == Init /\ [][Next]_<<holder, billed>>

=============================================================================
