------------------------------ MODULE Launcher ------------------------------
(***************************************************************************)
(* launch.py: an administrator launches a cluster.  The script is one      *)
(* sequence of AWS calls and remote commands; a call that fails after its  *)
(* retries, a command that fails and an interrupt all end it where it is,  *)
(* and it takes nothing back.  Several runs of it for one cluster name may *)
(* be under way or may have failed; in between administrators delete, in   *)
(* whatever order EC2 accepts, what the header of terminate_all_workers.py *)
(* lists.                                                                  *)
(*                                                                         *)
(* Names make the runs interfere: a security group and an AMI carry the    *)
(* name of the cluster, and EC2 refuses a second one of the same name.     *)
(***************************************************************************)
EXTENDS Naturals, Sequences

CONSTANTS
  Runs,       (* runs of the script, all with the same cluster_name        *)
  NoRun,      (* no run: the name is free                                  *)
  AmiRounds,  (* rounds of the wait for the AMI: 100 in the code           *)
  Tries       (* attempts of retry() at a launch: 10 in the code           *)

ASSUME LauncherAssumption ==
  /\ NoRun \notin Runs
  /\ AmiRounds \in Nat \ {0}
  /\ Tries \in Nat \ {0}

VARIABLES
  pc,        (* pc[r]: the call run r makes next                           *)
  custom,    (* custom[r]: it is configured with an AMI made by hand       *)
  rounds,    (* rounds[r]: lost attempts at a launch, looks at its AMI     *)
  done,      (* done[r]: commands of setup_manager it has run              *)
  missing,   (* missing[r]: those among them that failed in silence        *)
  group,     (* group[k]: the run that created security group k, or NoRun  *)
  refs,      (* pairs <<j, k>>: a rule of group j names group k            *)
  image,     (* the run whose AMI has the name of the cluster, or NoRun    *)
  ready,     (* that AMI is available                                      *)
  live       (* the machines that run                                      *)

runVars == <<pc, custom, rounds, done, missing>>
awsVars == <<group, refs, image, ready, live>>
vars == <<runVars, awsVars>>

Groups == {"manager", "worker", "manager2"}

(* "stray" is a machine of a launch whose answer was lost; "worker" are    *)
(* the machines the hub launches for its users.                            *)
Roles == {"builder", "hub", "stray", "worker"}

Machine(r, role) == [run |-> r, role |-> role]

(* setup_manager: what each command leaves on the manager, and what it     *)
(* cannot succeed without.                                                 *)
Setup == <<
  [does |-> "key", needs |-> {}],
  [does |-> "pip", needs |-> {}],
  [does |-> "pip3", needs |-> {"pip"}],
  [does |-> "nbgrader", needs |-> {"pip3"}],
  [does |-> "files", needs |-> {}],
  [does |-> "jupyterhub", needs |-> {"files", "pip3"}],
  [does |-> "proxy", needs |-> {}],
  [does |-> "service", needs |-> {"files"}],
  [does |-> "config", needs |-> {"files"}],
  [does |-> "token", needs |-> {"files", "jupyterhub"}],
  [does |-> "started", needs |-> {"service"}],
  [does |-> "cron", needs |-> {"files"}]>>

(* A mutant: nobody looks whether the token was made. *)
QuietToken == {"pip", "nbgrader", "token"}

(* Commands run with quiet=True: the script goes on when they fail. *)
Quiet == {"pip", "nbgrader"}

(* What run r has put on its manager. *)
Has(r) == {Setup[i].does : i \in (1..done[r]) \ missing[r]}

(* What the hub reads when it starts: jupyterhub_config.py the token,      *)
(* spawner.py and the culler the configuration, spawner.py the user data   *)
(* script among the files and, for every command, the key.                 *)
HubReads == {"jupyterhub", "proxy", "files", "config", "token", "key"}

Working == {"manager", "worker", "worker_rules", "manager2", "manager2_rules",
            "builder", "prepare", "image", "await", "terminate",
            "hub", "reach", "params", "setup"}

RunTypeOK ==
  /\ pc \in [Runs -> Working \union {"new", "done", "failed"}]
  /\ custom \in [Runs -> BOOLEAN]
  /\ rounds \in [Runs -> (0..AmiRounds) \union (0..Tries)]
  /\ done \in [Runs -> 0..Len(Setup)]
  /\ missing \in [Runs -> SUBSET (1..Len(Setup))]

AwsTypeOK ==
  /\ group \in [Groups -> Runs \union {NoRun}]
  /\ refs \subseteq Groups \X Groups
  /\ image \in Runs \union {NoRun}
  /\ ready \in BOOLEAN
  /\ live \subseteq [run : Runs, role : Roles]

(* Every variable has its type: the counters stop at their bounds. *)
LaunchTypeOK == RunTypeOK /\ AwsTypeOK

Init ==
  /\ pc = [r \in Runs |-> "new"]
  /\ custom = [r \in Runs |-> FALSE]
  /\ rounds = [r \in Runs |-> 0]
  /\ done = [r \in Runs |-> 0]
  /\ missing = [r \in Runs |-> {}]
  /\ group = [k \in Groups |-> NoRun]
  /\ refs = {}
  /\ image = NoRun
  /\ ready = FALSE
  /\ live = {}

Trans(r, from, to) ==
  /\ pc[r] = from
  /\ pc' = [pc EXCEPT ![r] = to]

---------------------------------------------------------------------------
(* validate_config: the key has mode 600 or nobody asks, and a size from   *)
(* the command line is made of digits and not zero.  A size from           *)
(* instance_config.json is a number already and passes whatever it is; the *)
(* timeout is not looked at.                                               *)
Sizes == {"default", "positive", "zero", "no_digits"}

Valid(mode600, ignore, sizes) ==
  /\ mode600 \/ ignore
  /\ sizes \subseteq {"default", "positive"}

Starts(r) ==
  /\ Trans(r, "new", "manager")
  /\ \E mode600, ignore \in BOOLEAN, worker, home \in Sizes :
       Valid(mode600, ignore, {worker, home})
  /\ \E c \in BOOLEAN : custom' = [custom EXCEPT ![r] = c]
  /\ UNCHANGED <<rounds, done, missing, awsVars>>

Refused(r) ==
  /\ Trans(r, "new", "failed")
  /\ \E mode600, ignore \in BOOLEAN, worker, home \in Sizes :
       ~Valid(mode600, ignore, {worker, home})
  /\ UNCHANGED <<custom, rounds, done, missing, awsVars>>

---------------------------------------------------------------------------
(* create_server_security_groups *)

(* A mutant: an existing group is taken over. *)
GroupTaken(r, k, from, to) ==
  /\ Trans(r, from, to)
  /\ group' = [group EXCEPT ![k] = r]
  /\ UNCHANGED <<custom, rounds, done, missing, refs, image, ready, live>>

GroupCreated(r, k, from, to) ==
  /\ Trans(r, from, to)
  /\ group[k] = NoRun
  /\ group' = [group EXCEPT ![k] = r]
  /\ UNCHANGED <<custom, rounds, done, missing, refs, image, ready, live>>

(* authorize_ingress of group j for the machines in group k. *)
RulesAdded(r, j, k, from, to) ==
  /\ Trans(r, from, to)
  /\ group[j] = r /\ group[k] = r
  /\ refs' = refs \union {<<j, k>>}
  /\ UNCHANGED <<custom, rounds, done, missing, group, image, ready, live>>

(* The rules of the manager group name no other group. *)
ManagerGroup(r) == GroupCreated(r, "manager", "manager", "worker")

WorkerGroup(r) == GroupCreated(r, "worker", "worker", "worker_rules")

WorkerRules(r) == RulesAdded(r, "worker", "manager", "worker_rules", "manager2")

Manager2Group(r) == GroupCreated(r, "manager2", "manager2", "manager2_rules")

(* Two mutants: the rules end up on the manager group; they let the        *)
(* manager in, not the workers.                                            *)
Manager2RulesOnManager(r) ==
  RulesAdded(r, "manager", "worker", "manager2_rules",
             IF custom[r] THEN "hub" ELSE "builder")

Manager2RulesForManager(r) ==
  RulesAdded(r, "manager2", "manager", "manager2_rules",
             IF custom[r] THEN "hub" ELSE "builder")

Manager2Rules(r) ==
  RulesAdded(r, "manager2", "worker", "manager2_rules",
             IF custom[r] THEN "hub" ELSE "builder")

---------------------------------------------------------------------------
(* launch_server *)

(* EC2 launches machines into groups that exist. *)
GroupsStand(r) == group["manager"] = r /\ group["manager2"] = r

Launched(r, role, from, to) ==
  /\ Trans(r, from, to)
  /\ GroupsStand(r)
  /\ live' = live \union {Machine(r, role)}
  /\ rounds' = [rounds EXCEPT ![r] = 0]
  /\ UNCHANGED <<custom, done, missing, group, refs, image, ready>>

BuilderLaunched(r) == Launched(r, "builder", "builder", "prepare")

HubLaunched(r) == Launched(r, "hub", "hub", "reach")

(* A mutant: the attempt is not counted. *)
LaunchLostUncounted(r) ==
  /\ pc[r] \in {"builder", "hub"}
  /\ GroupsStand(r)
  /\ live' = live \union {Machine(r, "stray")}
  /\ UNCHANGED <<pc, custom, rounds, done, missing, group, refs, image, ready>>

(* run_instances takes effect and ends in a ClientError: retry() tries     *)
(* again, or raises it after the last attempt.                             *)
LaunchLost(r) ==
  /\ pc[r] \in {"builder", "hub"}
  /\ GroupsStand(r)
  /\ rounds[r] < Tries
  /\ rounds' = [rounds EXCEPT ![r] = @ + 1]
  /\ live' = live \union {Machine(r, "stray")}
  /\ UNCHANGED <<pc, custom, done, missing, group, refs, image, ready>>

---------------------------------------------------------------------------
(* make_worker_ami *)

(* The builder is up, reached over SSH, and every command has succeeded. *)
BuilderPrepared(r) ==
  /\ Trans(r, "prepare", "image")
  /\ Machine(r, "builder") \in live
  /\ UNCHANGED <<custom, rounds, done, missing, awsVars>>

ImageCreated(r) ==
  /\ Trans(r, "image", "await")
  /\ Machine(r, "builder") \in live
  /\ image = NoRun
  /\ image' = r
  /\ ready' = FALSE
  /\ UNCHANGED <<custom, rounds, done, missing, group, refs, live>>

ImageSeen(r) ==
  /\ Trans(r, "await", "terminate")
  /\ image = r /\ ready
  /\ UNCHANGED <<custom, rounds, done, missing, awsVars>>

(* Two mutants: the rounds are not counted; one round too many. *)
ImageAwaited(r) ==
  /\ pc[r] = "await"
  /\ image = r /\ ~ready
  /\ UNCHANGED vars

ImageLookedAtOnceMore(r) ==
  /\ pc[r] = "await"
  /\ image = r /\ ~ready
  /\ rounds' = [rounds EXCEPT ![r] = @ + 1]
  /\ pc' = [pc EXCEPT ![r] = IF rounds[r] < AmiRounds THEN "await" ELSE "terminate"]
  /\ UNCHANGED <<custom, done, missing, awsVars>>

(* The AMI is not available: after the last round the script goes on       *)
(* nevertheless.                                                           *)
ImageLookedAt(r) ==
  /\ pc[r] = "await"
  /\ image = r /\ ~ready
  /\ rounds' = [rounds EXCEPT ![r] = @ + 1]
  /\ pc' = [pc EXCEPT ![r] = IF rounds'[r] < AmiRounds THEN "await" ELSE "terminate"]
  /\ UNCHANGED <<custom, done, missing, awsVars>>

(* A mutant: the builder is left to run. *)
BuilderKept(r) ==
  /\ Trans(r, "terminate", "hub")
  /\ UNCHANGED <<custom, rounds, done, missing, awsVars>>

BuilderTerminated(r) ==
  /\ Trans(r, "terminate", "hub")
  /\ live' = live \ {Machine(r, "builder")}
  /\ rounds' = [rounds EXCEPT ![r] = 0]
  /\ UNCHANGED <<custom, done, missing, group, refs, image, ready>>

---------------------------------------------------------------------------
(* launch_manager, once the manager is launched, and setup_manager *)

(* The manager is up, tagged, and reached over SSH. *)
HubReached(r) ==
  /\ Trans(r, "reach", "params")
  /\ Machine(r, "hub") \in live
  /\ UNCHANGED <<custom, rounds, done, missing, awsVars>>

(* int(config.jupyter_notebook_timeout): only now is it looked at. *)
ParamsMade(r) ==
  /\ Trans(r, "params", "setup")
  /\ UNCHANGED <<custom, rounds, done, missing, awsVars>>

(* The next command of setup_manager; the script is done after the last.   *)
CommandRun(r) ==
  /\ pc[r] = "setup"
  /\ Machine(r, "hub") \in live
  /\ done' = [done EXCEPT ![r] = @ + 1]
  /\ pc' = [pc EXCEPT ![r] = IF done'[r] = Len(Setup) THEN "done" ELSE "setup"]
  /\ UNCHANGED <<custom, rounds, awsVars>>

CommandSucceeds(r) ==
  /\ CommandRun(r)
  /\ Setup[done'[r]].needs \subseteq Has(r)
  /\ UNCHANGED missing

CommandFailsQuietly(r) ==
  /\ CommandRun(r)
  /\ Setup[done'[r]].does \in Quiet
  /\ missing' = [missing EXCEPT ![r] = @ \union {done'[r]}]

(* An exception nobody catches: an AWS call refused for good (a name in    *)
(* use, a group or a machine that is gone), a command that fails, int() of *)
(* a text, an interrupt.                                                   *)
Raises(r) ==
  /\ pc[r] \in Working
  /\ pc' = [pc EXCEPT ![r] = "failed"]
  /\ UNCHANGED <<custom, rounds, done, missing, awsVars>>

---------------------------------------------------------------------------
(* What else happens to the resources. *)

ImageBecomesReady ==
  /\ image # NoRun /\ ~ready
  /\ ready' = TRUE
  /\ UNCHANGED <<runVars, group, refs, image, live>>

(* The hub launches machines for its users from WORKER_AMI, into           *)
(* WORKER_SECURITY_GROUPS.                                                 *)
WorkerLaunched(r) ==
  /\ Machine(r, "hub") \in live
  /\ "started" \in Has(r)
  /\ custom[r] \/ (image = r /\ ready)
  /\ live' = live \union {Machine(r, "worker")}
  /\ UNCHANGED <<runVars, group, refs, image, ready>>

MachineTerminated(m) ==
  /\ m \in live
  /\ live' = live \ {m}
  /\ UNCHANGED <<runVars, group, refs, image, ready>>

(* The groups a machine was launched into. *)
GroupsOf(m) == IF m.role = "worker" THEN {"worker"} ELSE {"manager", "manager2"}

(* EC2 refuses to delete a group that a rule names or a machine is in. *)
Deletable(k) ==
  /\ group[k] # NoRun
  /\ \A p \in refs : p[2] # k
  /\ \A m \in live : k \notin GroupsOf(m)

GroupDeleted(k) ==
  /\ Deletable(k)
  /\ group' = [group EXCEPT ![k] = NoRun]
  /\ refs' = {p \in refs : p[1] # k}
  /\ UNCHANGED <<runVars, image, ready, live>>

ImageDeregistered ==
  /\ image # NoRun
  /\ image' = NoRun
  /\ ready' = FALSE
  /\ UNCHANGED <<runVars, group, refs, live>>

---------------------------------------------------------------------------
Proceeds(r) ==
  \/ Starts(r)
  \/ Refused(r)
  \/ ManagerGroup(r)
  \/ WorkerGroup(r)
  \/ WorkerRules(r)
  \/ Manager2Group(r)
  \/ Manager2Rules(r)
  \/ BuilderLaunched(r)
  \/ HubLaunched(r)
  \/ LaunchLost(r)
  \/ BuilderPrepared(r)
  \/ ImageCreated(r)
  \/ ImageSeen(r)
  \/ ImageLookedAt(r)
  \/ BuilderTerminated(r)
  \/ HubReached(r)
  \/ ParamsMade(r)
  \/ CommandSucceeds(r)
  \/ CommandFailsQuietly(r)

RunStep(r) == Proceeds(r) \/ Raises(r)

AwsStep ==
  \/ ImageBecomesReady
  \/ \E r \in Runs : WorkerLaunched(r)
  \/ \E m \in live : MachineTerminated(m)
  \/ \E k \in Groups : GroupDeleted(k)
  \/ ImageDeregistered

Next == (\E r \in Runs : RunStep(r)) \/ AwsStep

Spec == Init /\ [][Next]_vars

(* A run goes on: its next call is answered, since retry() tries a bounded *)
(* number of times, and one that cannot succeed is refused.  Nothing else  *)
(* has to go wrong.                                                        *)
FairSpec ==
  /\ Spec
  /\ \A r \in Runs : /\ WF_vars(Proceeds(r))
                     /\ WF_vars(Raises(r) /\ ~ENABLED Proceeds(r))

---------------------------------------------------------------------------
(* The name of the cluster is a lock although launch.py takes none: no two *)
(* launches under one name ever have machines running side by side, also   *)
(* when the first has failed half-way and is being cleaned up.             *)
C == INSTANCE ClusterName
     WITH holder <- group["manager"], billed <- {m.run : m \in live}
NameHasOneHolder == C!Spec

(* server_config.json names the worker group for good: as long as a        *)
(* manager runs, the group its workers are to be launched into exists and  *)
(* is the one its own run created.                                         *)
HubKeepsGroups ==
  \A r \in Runs : Machine(r, "hub") \in live => \A k \in Groups : group[k] = r

(* "Create a separate manager security group so that groups do not have    *)
(* cyclic reference, in order to make deleting easier": wherever a launch  *)
(* ended, once its machines are gone the groups it left can be deleted one *)
(* after the other.                                                        *)
Dismantlable ==
  live = {} /\ (\E k \in Groups : group[k] # NoRun) => \E k \in Groups : Deletable(k)

(* README.md: the server for creating the AMI "will be immediately         *)
(* terminated": a run that got as far as its manager has no builder.       *)
BuilderReplaced ==
  \A r \in Runs : Machine(r, "hub") \in live => Machine(r, "builder") \notin live

(* When the service is started, everything the hub reads is in place,      *)
(* whatever has failed in silence before.                                  *)
HubFindsAll == \A r \in Runs : "started" \in Has(r) => HubReads \subseteq Has(r)

(* Every step of a run gets it on: to a later call, or to the next of the  *)
(* bounded number of turns of the loop it is in (launch attempts, looks at *)
(* the AMI, commands of setup_manager).  It never goes back, so one run    *)
(* costs a bounded number of calls, however they are answered.             *)
Place == [p \in Working \union {"new", "done", "failed"} |->
  CASE p = "new" -> 0            [] p = "manager" -> 1         [] p = "worker" -> 2
    [] p = "worker_rules" -> 3   [] p = "manager2" -> 4        [] p = "manager2_rules" -> 5
    [] p = "builder" -> 6        [] p = "prepare" -> 7         [] p = "image" -> 8
    [] p = "await" -> 9          [] p = "terminate" -> 10      [] p = "hub" -> 11
    [] p = "reach" -> 12         [] p = "params" -> 13         [] p = "setup" -> 14
    [] p \in {"done", "failed"} -> 15]

TurnsLeft(r) ==
  CASE pc[r] \in {"builder", "hub"} -> Tries - rounds[r]
    [] pc[r] = "await"              -> AmiRounds - rounds[r]
    [] pc[r] = "setup"              -> Len(Setup) - done[r]
    [] OTHER                        -> 0

RunsGetOn ==
  [][\A r \in Runs : RunStep(r) =>
       \/ Place[pc'[r]] > Place[pc[r]]
       \/ pc'[r] = pc[r] /\ TurnsLeft(r)' \in 0..(TurnsLeft(r) - 1)]_vars

(* The script comes to an end, also when the AMI never becomes available.  *)
LaunchEnds == \A r \in Runs : pc[r] \in Working ~> pc[r] \in {"done", "failed"}

=============================================================================
