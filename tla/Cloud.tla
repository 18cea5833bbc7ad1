------------------------------- MODULE Cloud -------------------------------
(***************************************************************************)
(* The worker machines of the cluster, as the code under src/ sees them:   *)
(* EC2 instances reached through boto3, and what runs on them, reached     *)
(* over SSH.  EC2 is not part of the repository; what is written here is   *)
(* what spawner.py, cull_idle_servers.py and terminate_all_workers.py      *)
(* rely on when they call it.                                              *)
(***************************************************************************)
EXTENDS FiniteSets

CONSTANTS
  Users,      (* the users of the hub                                      *)
  Instances,  (* instance ids EC2 may give out: the account's limit        *)
  NoUser,     (* no user                                                   *)
  NoInst,     (* no instance: no row, or no host for a remote command      *)
  Faults      (* the troubles of the environment a run allows              *)

(* What each fault stands for:                                             *)
(*   "hang"       a running machine stops answering SSH                    *)
(*   "exit"       the notebook process ends                                *)
(*   "terminate"  a machine is terminated behind the hub's back            *)
(*   "api"        an AWS call keeps failing until its retries are used up  *)
(*   "lost"       a launch takes effect but the call reports an error      *)
(*   "abandon"    start_timeout expires while start() is still running     *)
(*   "overlap"    a stop is requested while a periodic poll is under way   *)
(*   "crash"      the hub process dies and is started again                *)
(*   "pid"        a process listing happens to contain the port number     *)
FaultKinds == {"hang", "exit", "terminate", "api", "lost", "abandon",
               "overlap", "crash", "pid"}

ASSUME CloudAssumption ==
  /\ NoUser \notin Users
  /\ NoInst \notin Instances
  /\ Faults \subseteq FaultKinds

VARIABLES
  ec2,    (* ec2[i]: the state EC2 reports of instance i                   *)
  hung,   (* hung[i]: machine i runs but does not answer SSH               *)
  nb,     (* nb[i]: the notebook server of the owner runs on i             *)
  owner   (* owner[i]: the user i was launched for, or NoUser; the user    *)
          (* data script makes an account for this user and no other       *)

cloudVars == <<ec2, hung, nb, owner>>

(* The states the comment in start() lists, with "none" for an id EC2 has  *)
(* not given out yet and "gone" for one it no longer knows                 *)
(* (InvalidInstanceID.NotFound).                                           *)
InstanceStates == {"none", "pending", "running", "stopping", "stopped",
                   "shutting-down", "terminated", "gone"}

(* A machine that costs money and can serve its user again. *)
Live(i) == ec2[i] \in {"pending", "running", "stopping", "stopped"}

(* The machine behind an SSH host answers.  NoInst is no host at all. *)
Reachable(h) == h # NoInst /\ ec2[h] = "running" /\ ~hung[h]

(* The notebook port of the machine answers HTTP. *)
Serves(i) == Reachable(i) /\ nb[i]

CloudTypeOK ==
  /\ ec2 \in [Instances -> InstanceStates]
  /\ hung \in [Instances -> BOOLEAN]
  /\ nb \in [Instances -> BOOLEAN]
  /\ owner \in [Instances -> Users \union {NoUser}]

CloudInit ==
  /\ ec2 = [i \in Instances |-> "none"]
  /\ hung = [i \in Instances |-> FALSE]
  /\ nb = [i \in Instances |-> FALSE]
  /\ owner = [i \in Instances |-> NoUser]

---------------------------------------------------------------------------
(* Calls the code makes. *)

(* run_instances for user u is answered with the new id i. *)
RunInstance(i, u) ==
  /\ ec2[i] = "none"
  /\ ec2' = [ec2 EXCEPT ![i] = "pending"]
  /\ owner' = [owner EXCEPT ![i] = u]
  /\ UNCHANGED <<hung, nb>>

(* Instance.start succeeds: a stopped machine boots, a machine that is     *)
(* already up or booting is left alone.                                    *)
StartAccepted(i) == ec2[i] \in {"stopped", "pending", "running"}

StartInstance(i) ==
  /\ StartAccepted(i)
  /\ ec2' = [ec2 EXCEPT ![i] = IF @ = "stopped" THEN "pending" ELSE @]
  /\ UNCHANGED <<hung, nb, owner>>

(* Instance.stop succeeds: a running machine goes down with everything on  *)
(* it; on a machine that is down or going down the call changes nothing.   *)
(* In the other states EC2 answers IncorrectInstanceState, a ClientError.  *)
StopAccepted(i) == ec2[i] \in {"running", "stopping", "stopped"}

StopInstance(i) ==
  /\ StopAccepted(i)
  /\ ec2' = [ec2 EXCEPT ![i] = IF @ = "running" THEN "stopping" ELSE @]
  /\ nb' = [nb EXCEPT ![i] = FALSE]
  /\ UNCHANGED <<hung, owner>>

(* Instance.terminate. *)
TerminateInstance(i) ==
  /\ Live(i)
  /\ ec2' = [ec2 EXCEPT ![i] = "shutting-down"]
  /\ nb' = [nb EXCEPT ![i] = FALSE]
  /\ hung' = [hung EXCEPT ![i] = FALSE]
  /\ UNCHANGED owner

(* A notebook server is started for u.  When one runs already the port is  *)
(* taken and the new process exits; on a machine without an account and a  *)
(* home directory of u it exits too.                                       *)
LaunchNotebook(i, u) ==
  /\ nb' = [nb EXCEPT ![i] = @ \/ owner[i] = u]
  /\ UNCHANGED <<ec2, hung, owner>>

---------------------------------------------------------------------------
(* Steps the cloud takes by itself. *)

Boots(i) ==
  /\ ec2[i] = "pending"
  /\ ec2' = [ec2 EXCEPT ![i] = "running"]
  /\ UNCHANGED <<hung, nb, owner>>

Halts(i) ==
  /\ ec2[i] = "stopping"
  /\ ec2' = [ec2 EXCEPT ![i] = "stopped"]
  /\ hung' = [hung EXCEPT ![i] = FALSE]
  /\ UNCHANGED <<nb, owner>>

(* A terminated instance stays visible for a while, then disappears. *)
Fades(i) ==
  /\ ec2[i] \in {"shutting-down", "terminated"}
  /\ ec2' = [ec2 EXCEPT ![i] = IF @ = "terminated" THEN "gone"
                                                  ELSE "terminated"]
  /\ UNCHANGED <<hung, nb, owner>>

Hangs(i) ==
  /\ "hang" \in Faults
  /\ ec2[i] = "running" /\ ~hung[i]
  /\ hung' = [hung EXCEPT ![i] = TRUE]
  /\ UNCHANGED <<ec2, nb, owner>>

NotebookExits(i) ==
  /\ "exit" \in Faults
  /\ nb[i]
  /\ nb' = [nb EXCEPT ![i] = FALSE]
  /\ UNCHANGED <<ec2, hung, owner>>

IsTerminated(i) ==
  /\ "terminate" \in Faults
  /\ TerminateInstance(i)

CloudStep(i) ==
  \/ Boots(i)
  \/ Halts(i)
  \/ Fades(i)
  \/ Hangs(i)
  \/ NotebookExits(i)
  \/ IsTerminated(i)

=============================================================================
