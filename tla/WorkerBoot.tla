----------------------------- MODULE WorkerBoot -----------------------------
(***************************************************************************)
(* The first minutes of a machine: user_data_worker.sh sets it up while    *)
(* start() of spawner.py already waits for it, through retry() and the     *)
(* thread pool all users share.  Each user of the set Calls has one        *)
(* machine; the coroutine that logs the user in has one call under way.    *)
(*                                                                         *)
(* The commands reach a machine when its sshd runs, or when Fabric still   *)
(* has a connection to it open: stopping the service closes none.  The     *)
(* notebook is started under the user's own account, for which Fabric      *)
(* opens a connection of its own.                                          *)
(***************************************************************************)
EXTENDS Retry

CONSTANTS
  SshTries,   (* LONG_RETRY_COUNT, 120                                     *)
  RunTries,   (* the attempts of any other call, 10                        *)
  HangTries   (* those of check_for_hanged_ec2, 5                          *)

ASSUME BootAssumption == {SshTries, RunTries, HangTries} \subseteq Nat \ {0}

VARIABLES
  machine,   (* machine[u]: EC2's state and the system's own               *)
  setup,     (* setup[u]: the part of the script that runs next            *)
  sshd,      (* the users whose machine accepts connections                *)
  account,   (* those whose account is complete                            *)
  open,      (* those to whose machine Fabric has a connection open        *)
  notebook,  (* those whose notebook runs                                  *)
  stage      (* stage[u]: where the login of u is                          *)

machineVars == <<machine, setup, sshd, account>>
vars == <<retryVars, machineVars, open, notebook, stage>>

Users == Calls

(* Line 7 is behind, the EXIT trap has not run. *)
InSetup(u) == setup[u] \in {"mount", "account"}

Stages == {"out", "probe", "await", "ssh", "look", "start", "confirm", "poll", "up"}

(* Every variable has its type: no call makes more attempts than it may,   *)
(* and the attempts waiting for a thread are those of calls under way.     *)
BootTypeOK ==
  /\ state \in [Users -> {"idle", "answered", "failed"} \union UnderWay]
  /\ left \in [Users -> 0..(SshTries + RunTries + HangTries)]
  /\ queue \in Seq(Users)
  /\ \A i \in 1..Len(queue) : state[queue[i]] = "queued"
  /\ machine \in [Users -> {"none", "off", "pending", "booting", "on"}]
  /\ setup \in [Users -> {"before", "mount", "account", "over"}]
  /\ {sshd, account, open, notebook} \subseteq SUBSET Users
  /\ stage \in [Users -> Stages]

Init ==
  /\ RetryInit
  /\ machine = [u \in Users |-> "none"]
  /\ setup = [u \in Users |-> "before"]
  /\ sshd = {} /\ account = {} /\ open = {} /\ notebook = {}
  /\ stage = [u \in Users |-> "out"]

---------------------------------------------------------------------------
(* The machine and user_data_worker.sh *)

Machine(u, from, to) ==
  /\ machine[u] = from
  /\ machine' = [machine EXCEPT ![u] = to]
  /\ UNCHANGED <<retryVars, setup, account, open, notebook, stage>>

Runs(u) == Machine(u, "pending", "booting") /\ UNCHANGED sshd

Boots(u) == Machine(u, "booting", "on") /\ sshd' = sshd \union {u}

Script(u, from, to) ==
  /\ machine[u] = "on"
  /\ setup[u] = from
  /\ setup' = [setup EXCEPT ![u] = to]
  /\ UNCHANGED <<retryVars, machine, open, notebook, stage>>

(* The system runs the script once in the life of a machine, when it is up. *)
SetupBegins(u) ==
  /\ Script(u, "before", "mount")
  /\ sshd' = sshd \ {u}
  /\ UNCHANGED account

Mounted(u) == Script(u, "mount", "account") /\ UNCHANGED <<sshd, account>>

(* A mutant: the trap is for errors only. *)
AccountMadeUntrapped(u) ==
  /\ Script(u, "account", "over")
  /\ account' = account \union {u}
  /\ UNCHANGED sshd

AccountMade(u) ==
  /\ Script(u, "account", "over")
  /\ account' = account \union {u}
  /\ sshd' = sshd \union {u}

(* A mutant: no trap. *)
SetupFailsUntrapped(u) ==
  /\ \E part \in {"mount", "account"} : Script(u, part, "over")
  /\ UNCHANGED <<sshd, account>>

(* A command of the script fails: -e ends it, the trap restarts sshd. *)
SetupFails(u) ==
  /\ \E part \in {"mount", "account"} : Script(u, part, "over")
  /\ sshd' = sshd \union {u}
  /\ UNCHANGED account

(* instance.stop: what is left of the script is lost. *)
Stopped(u) ==
  /\ machine' = [machine EXCEPT ![u] = "off"]
  /\ setup' = [setup EXCEPT ![u] = IF InSetup(u) THEN "over" ELSE @]
  /\ sshd' = sshd \ {u}
  /\ open' = open \ {u}
  /\ notebook' = notebook \ {u}
  /\ UNCHANGED account

---------------------------------------------------------------------------
(* An attempt of the call that the login of u is waiting for. *)

(* A mutant: the notebook is started under the account of the AMI. *)
ReachableAsWorker(u) ==
  IF stage[u] = "await" THEN machine[u] \in {"booting", "on"} ELSE u \in sshd \union open

Reachable(u) ==
  CASE stage[u] = "await" -> machine[u] \in {"booting", "on"}
    [] stage[u] = "start" -> u \in sshd /\ u \in account
    [] OTHER              -> u \in sshd \union open

AttemptSucceeds(u) ==
  /\ Reachable(u)
  /\ Returns(u)
  /\ open' = IF stage[u] \in {"await", "start"} THEN open ELSE open \union {u}
  /\ notebook' = IF stage[u] = "start" THEN notebook \union {u} ELSE notebook
  /\ UNCHANGED <<machineVars, stage>>

AttemptFails(u) ==
  /\ ~Reachable(u)
  /\ Fails(u)
  /\ UNCHANGED <<machineVars, open, notebook, stage>>

---------------------------------------------------------------------------
(* The login: start(), and poll() when it fails *)

Goes(u, to, tries) ==
  /\ stage' = [stage EXCEPT ![u] = to]
  /\ Submit(u, tries)

(* start() launches or boots the machine; one that an earlier login left   *)
(* pending is told to start once more, which changes nothing.              *)
StartsMachine(u) ==
  /\ stage[u] = "out"
  /\ machine[u] \in {"none", "off", "pending"}
  /\ machine' = [machine EXCEPT ![u] = "pending"]
  /\ Goes(u, "await", RunTries)
  /\ UNCHANGED <<setup, sshd, account, open, notebook>>

(* check_for_hanged_ec2 asks for the health of a machine that is up for    *)
(* over three minutes; it has booted by then (Spawner has those that hang).*)
AsksHealth(u, to) == machine[u] = "on" /\ Goes(u, to, HangTries)

(* start() finds the machine running. *)
FindsMachine(u) ==
  /\ stage[u] = "out"
  /\ machine[u] \in {"booting", "on"}
  /\ AsksHealth(u, "probe") \/ Goes(u, "ssh", SshTries)
  /\ UNCHANGED <<machineVars, open, notebook>>

Ended(u) == state[u] \in {"answered", "failed"}

(* What wait_until_running, wait_until_SSHable, the first look for the     *)
(* notebook and its start return makes no difference: after the first the  *)
(* spawner waits for sshd, and so on.                                      *)
Continues(u) ==
  /\ Ended(u)
  /\ \/ stage[u] = "probe" /\ state[u] = "answered" /\ Goes(u, "ssh", SshTries)
     \/ stage[u] = "await" /\ Goes(u, "ssh", SshTries)
     \/ stage[u] = "ssh" /\ Goes(u, "look", RunTries)
     \/ stage[u] = "look" /\ u \notin notebook /\ Goes(u, "start", RunTries)
     \/ stage[u] = "start" /\ Goes(u, "confirm", RunTries)
  /\ UNCHANGED <<machineVars, open, notebook>>

(* start() has returned an address: the hub asks the notebook. *)
LoggedIn(u) ==
  /\ Ended(u)
  /\ stage[u] \in {"look", "confirm"}
  /\ u \in notebook
  /\ stage' = [stage EXCEPT ![u] = "up"]
  /\ UNCHANGED <<retryVars, machineVars, open, notebook>>

(* Nothing answers, or start() has returned no address: the hub polls.     *)
LoginFails(u) ==
  /\ Ended(u)
  /\ \/ stage[u] = "probe" /\ state[u] = "failed"
     \/ stage[u] = "confirm" /\ u \notin notebook
  /\ \/ AsksHealth(u, "poll")
     \/ stage' = [stage EXCEPT ![u] = "out"] /\ UNCHANGED retryVars
  /\ UNCHANGED <<machineVars, open, notebook>>

PollEnds(u) ==
  /\ Ended(u)
  /\ stage[u] = "poll"
  /\ stage' = [stage EXCEPT ![u] = "out"]
  /\ \/ state[u] = "failed" /\ Stopped(u)
     \/ state[u] = "answered" /\ UNCHANGED <<machineVars, open, notebook>>
  /\ UNCHANGED retryVars

(* The user or the culler stops the server. *)
Leaves(u) ==
  /\ stage[u] = "up"
  /\ stage' = [stage EXCEPT ![u] = "out"]
  /\ Stopped(u)
  /\ UNCHANGED retryVars

---------------------------------------------------------------------------
RetryStep(u) ==
  \/ Taken(u) /\ UNCHANGED <<machineVars, open, notebook, stage>>
  \/ Resubmits(u) /\ UNCHANGED <<machineVars, open, notebook, stage>>
  \/ GivesUp(u) /\ UNCHANGED <<machineVars, open, notebook, stage>>
  \/ AttemptSucceeds(u)
  \/ AttemptFails(u)

MachineStep(u) == Runs(u) \/ Boots(u)

ScriptStep(u) == SetupBegins(u) \/ Mounted(u) \/ AccountMade(u) \/ SetupFails(u)

LoginStep(u) == Continues(u) \/ LoggedIn(u) \/ LoginFails(u) \/ PollEnds(u)

UserStep(u) == StartsMachine(u) \/ FindsMachine(u)

Next ==
  \E u \in Users :
    RetryStep(u) \/ MachineStep(u) \/ ScriptStep(u) \/ LoginStep(u) \/ UserStep(u) \/ Leaves(u)

Spec == Init /\ [][Next]_vars

(* Attempts, sleeps, boots and scripts end and coroutines are resumed; a   *)
(* user who was refused logs in again.  Nobody has to leave.               *)
FairSpec ==
  /\ Spec
  /\ \A u \in Users : /\ WF_vars(RetryStep(u))
                      /\ WF_vars(MachineStep(u))
                      /\ WF_vars(ScriptStep(u))
                      /\ WF_vars(LoginStep(u))
                      /\ WF_vars(UserStep(u))

---------------------------------------------------------------------------
(* A notebook runs only on a machine whose set-up got to its end: its      *)
(* files are on the volume of the user, never under a mount to come.       *)
NotebookPrepared == \A u \in notebook : setup[u] = "over" /\ u \in account

(* Each call of retry() is answered once, and is answered although the     *)
(* waits of other users occupy the threads.                                *)
CallsAnswered == A!Spec

(* user_data_worker.sh: "If an error occurs or the script exits            *)
(* successfully, SSH should be restarted automatically"; a stop of the     *)
(* machine in between ends the matter too.                                 *)
SshdReturns == \A u \in Users : InSetup(u) ~> u \in sshd \/ machine[u] = "off"

(* A user who keeps logging in gets a notebook, although the first login   *)
(* may come upon a machine that is being set up: unless the script has     *)
(* failed or was cut short, which nothing repairs.                         *)
Unusable(u) == setup[u] = "over" /\ u \notin account

LoginHeals == \A u \in Users : stage[u] = "out" ~> stage[u] = "up" \/ Unusable(u)

(* user_data_worker.sh: "Disable SSH service so the spawner cannot connect *)
(* during this process": no command of the spawner succeeds meanwhile.     *)
NoCommandDuringSetup ==
  [][\A u \in Users : InSetup(u) /\ state[u] = "running" /\ stage[u] # "await"
                        => state'[u] # "answered"]_vars

=============================================================================
