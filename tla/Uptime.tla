------------------------------- MODULE Uptime -------------------------------
(***************************************************************************)
(* check_for_hanged_ec2 (spawner.py): a machine that has been up for three *)
(* minutes is probed over SSH before it is trusted.  The code takes the    *)
(* seconds of a timedelta for its length: they leave the days out, and of  *)
(* a negative difference (the launch time is EC2's, the other the hub's)   *)
(* they are the rest of a day.                                             *)
(*                                                                         *)
(* Spawner leaves time out: there a poll chooses freely between probing    *)
(* and trusting.  What is proved here is why its fairness may ask that of  *)
(* ever more polls some probe.                                             *)
(***************************************************************************)
EXTENDS Integers, TLAPS

Day == 86400

(* How long a machine may take to become reachable. *)
Grace == 180

(* timedelta.seconds *)
Seconds(uptime) == uptime % Day

Probes(uptime) == Seconds(uptime) > Grace

(* Every machine is taken for freshly booted again at the start of each    *)
(* day of its uptime, and one that is not launched yet by the hub's clock  *)
(* is probed: the two surprises of the expression.                         *)
THEOREM TrustedAgain ==
  /\ \A days \in Nat, s \in 0..Grace : ~Probes(days * Day + s)
  /\ \A ahead \in Int : 0 < ahead /\ ahead < Day - Grace => Probes(-ahead)
<1>1. ASSUME NEW days \in Nat, NEW s \in 0..Grace PROVE ~Probes(days * Day + s)
  BY <1>1 DEF Probes, Seconds, Day, Grace
<1>2. ASSUME NEW ahead \in Int, 0 < ahead, ahead < Day - Grace PROVE Probes(-ahead)
  <2>1. 0 < ahead /\ ahead < 86220
    BY <1>2 DEF Day, Grace
  <2>2. (-ahead) % 86400 = 86400 - ahead
    BY ONLY ahead \in Int, <2>1, Z3
  <2>3. (-ahead) % 86400 > 180
    BY ONLY ahead \in Int, <2>1, <2>2, Z3
  <2> QED BY <2>3 DEF Probes, Seconds, Day, Grace
<1> QED BY <1>1, <1>2

(* However long it has been up, a poll that trusts a machine unprobed is   *)
(* followed, unless the next ones all come within three minutes or one     *)
(* comes only after most of a day, by one that probes it.                  *)
THEOREM TrustIsShort ==
  \A uptime, later \in Int :
    ~Probes(uptime) /\ Grace < later /\ later < Day - Grace => Probes(uptime + later)
<1> SUFFICES ASSUME NEW uptime \in Int, NEW later \in Int,
                    ~Probes(uptime), Grace < later, later < Day - Grace
             PROVE  Probes(uptime + later)
  OBVIOUS
<1>1. ~(uptime % 86400 > 180)
  BY DEF Probes, Seconds, Day, Grace
<1>2. 180 < later /\ later < 86220
  BY DEF Day, Grace
<1>3. (uptime + later) % 86400 > 180
  BY ONLY uptime \in Int, later \in Int, <1>1, <1>2, Z3
<1> QED BY <1>3 DEF Probes, Seconds, Day, Grace

=============================================================================
