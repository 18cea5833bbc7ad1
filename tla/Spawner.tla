------------------------------ MODULE Spawner ------------------------------
(***************************************************************************)
(* InstanceSpawner (jupyterhub_files/spawner.py) with the table of servers *)
(* it keeps (models.py), the process-wide Fabric environment its remote    *)
(* commands go through, and the hub that calls it.                         *)
(*                                                                         *)
(* start, stop and poll are Tornado coroutines on one event loop.  Between *)
(* two yields a coroutine runs without interruption, at a yield any other  *)
(* coroutine may run.  A task is one coroutine; pc[t] is the call it is    *)
(* waiting for, and an action is the answer to that call together with     *)
(* everything the code does up to its next yield.  A call goes through     *)
(* retry(), which never lets a ClientError or an SSH failure out: it       *)
(* either returns the answer of an attempt or, when all attempts failed,   *)
(* the string "RETRY_FAILED".  The attempts that fail before that change   *)
(* nothing and are no steps.                                               *)
(***************************************************************************)
EXTENDS Naturals, Cloud

CONSTANTS
  Tasks,   (* slots for coroutines: bounds how many are under way at once  *)
  NoTask   (* the hub waits for no coroutine of the user                   *)

ASSUME TaskAssumption == NoTask \notin Tasks

VARIABLES
  db,      (* db[u]: the server_id in the row of u, NoInst without a row   *)
  pc,      (* pc[t]: what coroutine t waits for; "free" is an unused slot  *)
  who,     (* who[t]: self.user of coroutine t                             *)
  inst,    (* inst[t]: the instance coroutine t works on                   *)
  env,     (* fabric's global env.host_string                              *)
  saved,   (* saved[t]: the host the open settings() block of t will       *)
           (* restore, NoInst when it has none open                        *)
  hub,     (* hub[u]: what the hub makes of the server of u                *)
  call     (* call[u]: the coroutine the hub is waiting for, or NoTask     *)

taskVars == <<pc, who, inst>>
fabricVars == <<env, saved>>
hubVars == <<hub, call>>
vars == <<cloudVars, db, taskVars, fabricVars, hubVars>>

(* Inside create_new_instance. *)
LaunchPcs == {"launch", "record"}

(* Inside start(). *)
StartPcs == LaunchPcs \union
  {"load", "health", "healthy", "boot", "await", "ssh", "reached", "check",
   "missed", "absent", "nbstart", "confirm", "return"}

(* Inside poll(), and inside the stop() that kill_instance() calls. *)
PollPcs == {"pollload", "pollhealth", "pollhealthy", "pollcheck", "pollmissed",
            "killload"}

(* Inside stop(); "send" is the retry(instance.stop) that stop() starts    *)
(* without waiting for it.                                                 *)
StopPcs == {"stopload", "send"}

(* A settings() block is open. *)
BlockPcs == {"health", "ssh", "check", "missed", "nbstart", "confirm",
             "pollhealth", "pollcheck", "pollmissed"}

HubStates == {"out", "spawning", "up", "polling", "quitting", "stopping"}

TaskTypeOK ==
  /\ pc \in [Tasks -> {"free"} \union StartPcs \union PollPcs \union StopPcs]
  /\ who \in [Tasks -> Users \union {NoUser}]
  /\ inst \in [Tasks -> Instances \union {NoInst}]

FabricTypeOK ==
  /\ env \in Instances \union {NoInst}
  /\ saved \in [Tasks -> Instances \union {NoInst}]

HubTypeOK ==
  /\ hub \in [Users -> HubStates]
  /\ call \in [Users -> Tasks \union {NoTask}]

(* Every variable has its type: no coroutine takes the string of a failed  *)
(* retry(), or an address it does not have, for a machine.                 *)
TypeOK ==
  /\ CloudTypeOK
  /\ db \in [Users -> Instances \union {NoInst}]
  /\ TaskTypeOK
  /\ FabricTypeOK
  /\ HubTypeOK

Init ==
  /\ CloudInit
  /\ db = [u \in Users |-> NoInst]
  /\ pc = [t \in Tasks |-> "free"]
  /\ who = [t \in Tasks |-> NoUser]
  /\ inst = [t \in Tasks |-> NoInst]
  /\ env = NoInst
  /\ saved = [t \in Tasks |-> NoInst]
  /\ hub = [u \in Users |-> "out"]
  /\ call = [u \in Users |-> NoTask]

---------------------------------------------------------------------------
(* Coroutines and the hub. *)

Goto(t, p) ==
  /\ pc' = [pc EXCEPT ![t] = p]
  /\ UNCHANGED <<who, inst>>

Free(t) ==
  /\ pc' = [pc EXCEPT ![t] = "free"]
  /\ who' = [who EXCEPT ![t] = NoUser]
  /\ inst' = [inst EXCEPT ![t] = NoInst]

(* A mutant: the row is looked up without the user. *)
BeginAnyRow(t, u, p) ==
  /\ pc' = [pc EXCEPT ![t] = p]
  /\ who' = [who EXCEPT ![t] = u]
  /\ \E v \in Users : inst' = [inst EXCEPT ![t] = db[v]]

(* get_instance() begins: the row of the user is read before anything else *)
(* of the coroutine.                                                       *)
Begin(t, u, p) ==
  /\ pc' = [pc EXCEPT ![t] = p]
  /\ who' = [who EXCEPT ![t] = u]
  /\ inst' = [inst EXCEPT ![t] = db[u]]

(* The hub is still waiting for coroutine t. *)
Awaited(t) == call[who[t]] = t

(* Coroutine t ends and nobody waits for what it returns. *)
EndsUnheard(t) ==
  /\ ~Awaited(t)
  /\ Free(t)
  /\ UNCHANGED hubVars

(* A mutant: the hub keeps waiting for a coroutine that has ended. *)
HubTakesUnnoticed(t, h) ==
  /\ Awaited(t)
  /\ Free(t)
  /\ hub' = [hub EXCEPT ![who[t]] = h]
  /\ UNCHANGED call

(* Coroutine t ends, the hub takes its user to state h. *)
HubTakes(t, h) ==
  /\ Awaited(t)
  /\ Free(t)
  /\ hub' = [hub EXCEPT ![who[t]] = h]
  /\ call' = [call EXCEPT ![who[t]] = NoTask]

(* Coroutine t ends and the hub, in state h now, goes on with another      *)
(* coroutine for the same user, which begins at p.                         *)
HubGoesOn(t, h, p) ==
  /\ Awaited(t)
  /\ Begin(t, who[t], p)
  /\ hub' = [hub EXCEPT ![who[t]] = h]
  /\ UNCHANGED call

(* start() raised, or returned no address: the hub cleans up by stopping   *)
(* the user's server, which begins with a poll.                            *)
StartFails(t) == EndsUnheard(t) \/ HubGoesOn(t, "quitting", "pollload")

(* poll() returned None when alive, an exit status otherwise. *)
PollEnds(t, alive) ==
  \/ EndsUnheard(t)
  \/ /\ hub[who[t]] = "polling"
     /\ HubTakes(t, IF alive THEN "up" ELSE "out")
  \/ /\ hub[who[t]] = "quitting"
     /\ IF alive THEN HubGoesOn(t, "stopping", "stopload")
                 ELSE HubTakes(t, "out")

(* poll() or stop() raised HTTPError: the hub keeps the server, or drops   *)
(* it when it was already giving the server up.                            *)
CallRaises(t) ==
  \/ EndsUnheard(t)
  \/ HubTakes(t, "up")
  \/ hub[who[t]] # "polling" /\ HubTakes(t, "out")

(* A mutant: the block sets the account and the key but no host. *)
OpenBlockNoHost(t) ==
  /\ saved' = [saved EXCEPT ![t] = env]
  /\ UNCHANGED env

(* settings(host_string=...) on entry, from one block into the next one on *)
(* the same machine with no yield between them, and on exit.               *)
OpenBlock(t) ==
  /\ env' = inst[t]
  /\ saved' = [saved EXCEPT ![t] = env]

NextBlock(t) ==
  /\ env' = inst[t]
  /\ UNCHANGED saved

(* A mutant: what the block set outlives it. *)
CloseBlockLeaks(t) ==
  /\ saved' = [saved EXCEPT ![t] = NoInst]
  /\ UNCHANGED env

CloseBlock(t) ==
  /\ env' = saved[t]
  /\ saved' = [saved EXCEPT ![t] = NoInst]

(* A command goes to the host env names when it is tried: the first attempt  *)
(* is made as the block is opened, the retries find what other coroutines    *)
(* have made of env in the meantime.                                         *)
Hosts(t) == {inst[t], env}

(* get_instance() raises HTTPError(500): load() failed on every attempt.   *)
LoadFailure(t) == ec2[inst[t]] = "gone" \/ "api" \in Faults

---------------------------------------------------------------------------
(* What the hub does. *)

(* A mutant: start() launches a machine on every login. *)
HubSpawnsAnew(u, t) ==
  /\ hub[u] = "out"
  /\ pc[t] = "free"
  /\ Begin(t, u, "launch")
  /\ hub' = [hub EXCEPT ![u] = "spawning"]
  /\ call' = [call EXCEPT ![u] = t]
  /\ UNCHANGED <<cloudVars, db, fabricVars>>

(* The user logs in: start() is called and runs up to its first yield.     *)
HubSpawns(u, t) ==
  /\ hub[u] = "out"
  /\ pc[t] = "free"
  /\ Begin(t, u, IF db[u] = NoInst THEN "launch" ELSE "load")
  /\ hub' = [hub EXCEPT ![u] = "spawning"]
  /\ call' = [call EXCEPT ![u] = t]
  /\ UNCHANGED <<cloudVars, db, fabricVars>>

(* start_timeout expires: the hub cleans up, start() itself runs on.       *)
HubAbandons(u, t) ==
  /\ "abandon" \in Faults
  /\ hub[u] = "spawning"
  /\ pc[t] = "free"
  /\ Begin(t, u, "pollload")
  /\ hub' = [hub EXCEPT ![u] = "quitting"]
  /\ call' = [call EXCEPT ![u] = t]
  /\ UNCHANGED <<cloudVars, db, fabricVars>>

(* Every poll_interval the hub polls the server of a user. *)
HubPolls(u, t) ==
  /\ hub[u] = "up"
  /\ pc[t] = "free"
  /\ Begin(t, u, "pollload")
  /\ hub' = [hub EXCEPT ![u] = "polling"]
  /\ call' = [call EXCEPT ![u] = t]
  /\ UNCHANGED <<cloudVars, db, fabricVars>>

(* The user, an administrator or the culler stops the server: the hub      *)
(* polls and, if the server is alive, calls stop().                        *)
HubStops(u, t) ==
  /\ \/ hub[u] = "up"
     \/ hub[u] = "polling" /\ "overlap" \in Faults
  /\ pc[t] = "free"
  /\ Begin(t, u, "pollload")
  /\ hub' = [hub EXCEPT ![u] = "quitting"]
  /\ call' = [call EXCEPT ![u] = t]
  /\ UNCHANGED <<cloudVars, db, fabricVars>>

(* The hub process dies and restarts: every coroutine is lost, and what    *)
(* Fabric had in memory.  The table of servers and the hub's own record of *)
(* who has a server survive.                                               *)
Restarted ==
  /\ pc' = [t \in Tasks |-> "free"]
  /\ who' = [t \in Tasks |-> NoUser]
  /\ inst' = [t \in Tasks |-> NoInst]
  /\ env' = NoInst
  /\ saved' = [t \in Tasks |-> NoInst]
  /\ hub' = [u \in Users |-> IF hub[u] \in {"out", "spawning"} THEN "out"
                                                               ELSE "up"]
  /\ call' = [u \in Users |-> NoTask]
  /\ UNCHANGED <<cloudVars, db>>

HubRestarts == "crash" \in Faults /\ Restarted

---------------------------------------------------------------------------
(* create_new_instance() *)

(* run_instances is answered. *)
LaunchAnswered(t, i) ==
  /\ pc[t] = "launch"
  /\ RunInstance(i, who[t])
  /\ pc' = [pc EXCEPT ![t] = "record"]
  /\ inst' = [inst EXCEPT ![t] = i]
  /\ UNCHANGED <<who, db, fabricVars, hubVars>>

(* An attempt launches a machine and then reports an error: retry() calls  *)
(* run_instances again.                                                    *)
LaunchLost(t, i) ==
  /\ "lost" \in Faults
  /\ pc[t] = "launch"
  /\ RunInstance(i, who[t])
  /\ UNCHANGED <<taskVars, db, fabricVars, hubVars>>

(* A mutant: the string of a failed retry() is taken for an instance id. *)
LaunchFailsUnnoticed(t) ==
  /\ pc[t] = "launch"
  /\ "api" \in Faults
  /\ pc' = [pc EXCEPT ![t] = "record"]
  /\ inst' = [inst EXCEPT ![t] = "RETRY_FAILED"]
  /\ UNCHANGED <<cloudVars, db, who, fabricVars, hubVars>>

(* All attempts failed, also when the account's instances are used up:     *)
(* "RETRY_FAILED" has no "Instances", start() dies of a TypeError.         *)
LaunchFails(t) ==
  /\ pc[t] = "launch"
  /\ ("api" \in Faults) \/ (\A i \in Instances : ec2[i] # "none")
  /\ StartFails(t)
  /\ UNCHANGED <<cloudVars, db, fabricVars>>

(* A mutant: the machine is booted without a row. *)
RecordForgotten(t) ==
  /\ pc[t] = "record"
  /\ db[who[t]] = NoInst
  /\ Goto(t, "await")
  /\ UNCHANGED <<cloudVars, db, fabricVars, hubVars>>

(* Server.new_server() adds the row; then the machine is tagged and its    *)
(* boot awaited.  Nothing reads the tags.                                  *)
Record(t) ==
  /\ pc[t] = "record"
  /\ db[who[t]] = NoInst
  /\ db' = [db EXCEPT ![who[t]] = inst[t]]
  /\ Goto(t, "await")
  /\ UNCHANGED <<cloudVars, fabricVars, hubVars>>

(* Two mutants: on a clash the new machine replaces the one of the row; on *)
(* a clash start() goes on with the machine it launched.                   *)
RecordClashesOver(t) ==
  /\ pc[t] = "record"
  /\ db[who[t]] # NoInst
  /\ db' = [db EXCEPT ![who[t]] = inst[t]]
  /\ Goto(t, "await")
  /\ UNCHANGED <<cloudVars, fabricVars, hubVars>>

RecordClashesIgnored(t) ==
  /\ pc[t] = "record"
  /\ db[who[t]] # NoInst
  /\ Goto(t, "await")
  /\ UNCHANGED <<cloudVars, db, fabricVars, hubVars>>

(* user_id is unique: a second row for the user is an IntegrityError. *)
RecordClashes(t) ==
  /\ pc[t] = "record"
  /\ db[who[t]] # NoInst
  /\ StartFails(t)
  /\ UNCHANGED <<cloudVars, db, fabricVars>>

---------------------------------------------------------------------------
(* start() *)

(* The machine runs.  check_for_hanged_ec2 tries SSH on a machine whose    *)
(* uptime it takes to be over three minutes, and trusts any other.         *)
StartSeesRunning(t) ==
  /\ pc[t] = "load"
  /\ ec2[inst[t]] = "running"
  /\ \E p \in {"health", "ssh"} : Goto(t, p)
  /\ OpenBlock(t)
  /\ UNCHANGED <<cloudVars, db, hubVars>>

StartSeesDown(t) ==
  /\ pc[t] = "load"
  /\ ec2[inst[t]] \in {"stopped", "stopping", "pending", "shutting-down"}
  /\ Goto(t, "boot")
  /\ UNCHANGED <<cloudVars, db, fabricVars, hubVars>>

(* HTTPError 501 for a terminated machine, 500 when it cannot be loaded.   *)
StartRefuses(t) ==
  /\ pc[t] = "load"
  /\ ec2[inst[t]] = "terminated" \/ LoadFailure(t)
  /\ StartFails(t)
  /\ UNCHANGED <<cloudVars, db, fabricVars>>

StartFindsHealthy(t) ==
  /\ pc[t] = "health"
  /\ \E h \in Hosts(t) : Reachable(h)
  /\ Goto(t, "healthy")
  /\ CloseBlock(t)
  /\ UNCHANGED <<cloudVars, db, hubVars>>

(* No SSH after five attempts: start() returns None. *)
StartFindsHung(t) ==
  /\ pc[t] = "health"
  /\ ~Reachable(env)
  /\ StartFails(t)
  /\ CloseBlock(t)
  /\ UNCHANGED <<cloudVars, db>>

(* A mutant: start() waits for a boot it has not asked for. *)
BootNotAsked(t) ==
  /\ pc[t] = "boot"
  /\ Goto(t, "await")
  /\ UNCHANGED <<cloudVars, db, fabricVars, hubVars>>

BootAccepted(t) ==
  /\ pc[t] = "boot"
  /\ StartInstance(inst[t])
  /\ Goto(t, "await")
  /\ UNCHANGED <<db, fabricVars, hubVars>>

(* retry(instance.start) comes back with "RETRY_FAILED": nobody looks.     *)
BootGivesUp(t) ==
  /\ pc[t] = "boot"
  /\ ~StartAccepted(inst[t]) \/ "api" \in Faults
  /\ Goto(t, "await")
  /\ UNCHANGED <<cloudVars, db, fabricVars, hubVars>>

(* retry(instance.wait_until_running) returns: the machine runs, or the    *)
(* waiter failed ten times because it will not.  start() goes on with      *)
(* start_worker_server() either way.                                       *)
AwaitEnds(t) ==
  /\ pc[t] = "await"
  /\ ec2[inst[t]] # "pending" \/ "api" \in Faults
  /\ Goto(t, "ssh")
  /\ OpenBlock(t)
  /\ UNCHANGED <<cloudVars, db, hubVars>>

(* wait_until_SSHable() in start_worker_server(): the host answered, or    *)
(* every attempt failed and nobody looks at the result.                    *)
SshAnswers(t) ==
  /\ pc[t] = "ssh"
  /\ \E h \in Hosts(t) : Reachable(h)
  /\ Goto(t, "reached")
  /\ CloseBlock(t)
  /\ UNCHANGED <<cloudVars, db, hubVars>>

(* A mutant: start() waits for the machine once more. *)
SshStartsOver(t) ==
  /\ pc[t] = "ssh"
  /\ ~Reachable(env)
  /\ Goto(t, "await")
  /\ CloseBlock(t)
  /\ UNCHANGED <<cloudVars, db, hubVars>>

(* A mutant: the retries have no bound. *)
SshNeverGivesUp(t) ==
  /\ pc[t] = "ssh"
  /\ ~Reachable(env)
  /\ UNCHANGED vars

SshGivesUp(t) ==
  /\ pc[t] = "ssh"
  /\ ~Reachable(env)
  /\ Goto(t, "reached")
  /\ CloseBlock(t)
  /\ UNCHANGED <<cloudVars, db, hubVars>>

(* A mutant: any line of the listing will do. *)
ListedAnyLine(h) == Reachable(h)

(* is_notebook_running(): a line of the process listing of the host        *)
(* contains the port.  The listing of a host that does not answer is the   *)
(* string "RETRY_FAILED".                                                  *)
Listed(h) == Reachable(h) /\ (nb[h] \/ "pid" \in Faults)

Unlisted(h) == ~Serves(h)

StartFindsNotebook(t) ==
  /\ pc[t] = "check"
  /\ \E h \in Hosts(t) : Listed(h)
  /\ Goto(t, "return")
  /\ CloseBlock(t)
  /\ UNCHANGED <<cloudVars, db, hubVars>>

(* is_notebook_running() sleeps for a second, its block open, before it    *)
(* returns False.                                                          *)
StartMissesNotebook(t) ==
  /\ pc[t] = "check"
  /\ \E h \in Hosts(t) : Unlisted(h)
  /\ Goto(t, "missed")
  /\ UNCHANGED <<cloudVars, db, fabricVars, hubVars>>

StartFindsNone(t) ==
  /\ pc[t] = "missed"
  /\ Goto(t, "absent")
  /\ CloseBlock(t)
  /\ UNCHANGED <<cloudVars, db, hubVars>>

(* What one helper returned at p has reached start() or poll(), which      *)
(* calls the next one, at q: the event loop has had turns between the      *)
(* blocks of the two.                                                      *)
OpensNext(t, p, q) ==
  /\ pc[t] = p
  /\ Goto(t, q)
  /\ OpenBlock(t)
  /\ UNCHANGED <<cloudVars, db, hubVars>>

(* remote_notebook_start(): sudo starts the notebook server in the         *)
(* background of whatever host the command reaches, or reaches none.       *)
NotebookStarts(t) ==
  /\ pc[t] = "nbstart"
  /\ \E h \in Hosts(t) : Reachable(h) /\ LaunchNotebook(h, who[t])
  /\ Goto(t, "confirm")
  /\ NextBlock(t)
  /\ UNCHANGED <<db, hubVars>>

NotebookStartLost(t) ==
  /\ pc[t] = "nbstart"
  /\ ~Reachable(env)
  /\ Goto(t, "confirm")
  /\ NextBlock(t)
  /\ UNCHANGED <<cloudVars, db, hubVars>>

(* is_notebook_running(attempts=30) ends; its answer is dropped. *)
ConfirmEnds(t) ==
  /\ pc[t] = "confirm"
  /\ Goto(t, "return")
  /\ CloseBlock(t)
  /\ UNCHANGED <<cloudVars, db, hubVars>>

(* start() returns the address of the machine.  The hub waits for the      *)
(* server to answer there and cleans up when it does not.                  *)
StartReturns(t) ==
  /\ pc[t] = "return"
  /\ \/ Serves(inst[t]) /\ HubTakes(t, "up")
     \/ ~Serves(inst[t]) /\ HubGoesOn(t, "quitting", "pollload")
     \/ EndsUnheard(t)
  /\ UNCHANGED <<cloudVars, db, fabricVars>>

---------------------------------------------------------------------------
(* poll() *)

(* Server.DoesNotExist: "Instance not found/tracked". *)
PollUntracked(t) ==
  /\ pc[t] = "pollload"
  /\ inst[t] = NoInst
  /\ PollEnds(t, FALSE)
  /\ UNCHANGED <<cloudVars, db, fabricVars>>

PollSeesRunning(t, p) ==
  /\ pc[t] = "pollload"
  /\ inst[t] # NoInst
  /\ ec2[inst[t]] = "running"
  /\ Goto(t, p)
  /\ OpenBlock(t)
  /\ UNCHANGED <<cloudVars, db, hubVars>>

PollSeesDown(t) ==
  /\ pc[t] = "pollload"
  /\ inst[t] # NoInst
  /\ ec2[inst[t]] \notin {"running", "gone"}
  /\ PollEnds(t, FALSE)
  /\ UNCHANGED <<cloudVars, db, fabricVars>>

PollFindsHealthy(t) ==
  /\ pc[t] = "pollhealth"
  /\ \E h \in Hosts(t) : Reachable(h)
  /\ Goto(t, "pollhealthy")
  /\ CloseBlock(t)
  /\ UNCHANGED <<cloudVars, db, hubVars>>

(* A mutant: poll() reports the hang and leaves the machine alone. *)
PollSparesHung(t) ==
  /\ pc[t] = "pollhealth"
  /\ ~Reachable(env)
  /\ PollEnds(t, FALSE)
  /\ CloseBlock(t)
  /\ UNCHANGED <<cloudVars, db>>

(* No SSH after five attempts: kill_instance() calls stop(), which reads   *)
(* the row again.                                                          *)
PollFindsHung(t) ==
  /\ pc[t] = "pollhealth"
  /\ ~Reachable(env)
  /\ Begin(t, who[t], "killload")
  /\ CloseBlock(t)
  /\ UNCHANGED <<cloudVars, db, hubVars>>

PollFindsNotebook(t) ==
  /\ pc[t] = "pollcheck"
  /\ \E h \in Hosts(t) : Listed(h)
  /\ PollEnds(t, TRUE)
  /\ CloseBlock(t)
  /\ UNCHANGED <<cloudVars, db>>

PollMissesNotebook(t) ==
  /\ pc[t] = "pollcheck"
  /\ \E h \in Hosts(t) : Unlisted(h)
  /\ Goto(t, "pollmissed")
  /\ UNCHANGED <<cloudVars, db, fabricVars, hubVars>>

PollFindsNone(t) ==
  /\ pc[t] = "pollmissed"
  /\ PollEnds(t, FALSE)
  /\ CloseBlock(t)
  /\ UNCHANGED <<cloudVars, db>>

---------------------------------------------------------------------------
(* stop(), called by the hub or by kill_instance() *)

(* get_instance() has answered.  Without a row stop() only logs; with the  *)
(* machine loaded it sets retry(instance.stop) off and returns while that  *)
(* is under way.  poll() returns "Instance Hang" after it.                 *)
StopEnds(t) ==
  /\ pc[t] \in {"stopload", "killload"}
  /\ inst[t] # NoInst => ec2[inst[t]] # "gone"
  /\ IF inst[t] = NoInst THEN Free(t) ELSE Goto(t, "send")
  /\ \/ /\ Awaited(t)
        /\ hub' = [hub EXCEPT ![who[t]] = "out"]
        /\ call' = [call EXCEPT ![who[t]] = NoTask]
     \/ ~Awaited(t) /\ UNCHANGED hubVars
  /\ UNCHANGED <<cloudVars, db, fabricVars>>

(* HTTPError(500) out of the get_instance() of poll() or stop(). *)
LoadRaises(t) ==
  /\ pc[t] \in {"pollload", "stopload", "killload"}
  /\ inst[t] # NoInst
  /\ LoadFailure(t)
  /\ CallRaises(t)
  /\ UNCHANGED <<cloudVars, db, fabricVars>>

(* EC2 accepts the stop, some time after stop() has returned. *)
StopReaches(t) ==
  /\ pc[t] = "send"
  /\ StopInstance(inst[t])
  /\ Free(t)
  /\ UNCHANGED <<db, fabricVars, hubVars>>

StopGivesUp(t) ==
  /\ pc[t] = "send"
  /\ ~StopAccepted(inst[t]) \/ "api" \in Faults
  /\ Free(t)
  /\ UNCHANGED <<cloudVars, db, fabricVars, hubVars>>

---------------------------------------------------------------------------
HubStep(u, t) ==
  \/ HubSpawns(u, t)
  \/ HubAbandons(u, t)
  \/ HubPolls(u, t)
  \/ HubStops(u, t)

StartStep(t) ==
  \/ \E i \in Instances : LaunchAnswered(t, i)
  \/ \E i \in Instances : LaunchLost(t, i)
  \/ LaunchFails(t)
  \/ Record(t)
  \/ RecordClashes(t)
  \/ StartSeesRunning(t)
  \/ StartSeesDown(t)
  \/ StartRefuses(t)
  \/ StartFindsHealthy(t)
  \/ StartFindsHung(t)
  \/ BootAccepted(t)
  \/ BootGivesUp(t)
  \/ AwaitEnds(t)
  \/ SshAnswers(t)
  \/ SshGivesUp(t)
  \/ StartFindsNotebook(t)
  \/ StartMissesNotebook(t)
  \/ StartFindsNone(t)
  \/ OpensNext(t, "healthy", "ssh")
  \/ OpensNext(t, "reached", "check")
  \/ OpensNext(t, "absent", "nbstart")
  \/ NotebookStarts(t)
  \/ NotebookStartLost(t)
  \/ ConfirmEnds(t)
  \/ StartReturns(t)

PollStep(t) ==
  \/ PollUntracked(t)
  \/ \E p \in {"pollhealth", "pollcheck"} : PollSeesRunning(t, p)
  \/ PollSeesDown(t)
  \/ PollFindsHealthy(t)
  \/ OpensNext(t, "pollhealthy", "pollcheck")
  \/ PollFindsHung(t)
  \/ PollFindsNotebook(t)
  \/ PollMissesNotebook(t)
  \/ PollFindsNone(t)

StopStep(t) ==
  \/ StopEnds(t)
  \/ LoadRaises(t)
  \/ StopReaches(t)
  \/ StopGivesUp(t)

TaskStep(t) == StartStep(t) \/ PollStep(t) \/ StopStep(t)

Next ==
  \/ \E u \in Users, t \in Tasks : HubStep(u, t)
  \/ HubRestarts
  \/ \E t \in Tasks : TaskStep(t)
  \/ /\ \E i \in Instances : CloudStep(i)
     /\ UNCHANGED <<db, taskVars, fabricVars, hubVars>>

Spec == Init /\ [][Next]_vars

(* The event loop runs every coroutine whose call has been answered, every *)
(* call is answered (retry() is bounded, the waiters time out), EC2 boots  *)
(* and halts the machines it was told to, the user comes back and the hub  *)
(* polls every poll_interval (jupyterhub_config.py).  A poll can take a    *)
(* machine for freshly booted only in the first three minutes of each day  *)
(* of its uptime, so of ever more polls some check its health.             *)
Fairness ==
  /\ \A t \in Tasks : WF_vars(TaskStep(t))
  /\ \A i \in Instances :
       WF_vars((Boots(i) \/ Halts(i)) /\ UNCHANGED <<db, taskVars, fabricVars, hubVars>>)
  /\ \A u \in Users : WF_vars(\E t \in Tasks : HubSpawns(u, t))
  /\ \A u \in Users : WF_vars(\E t \in Tasks : HubPolls(u, t))
  /\ \A t \in Tasks : SF_vars(PollSeesRunning(t, "pollhealth"))

FairSpec == Spec /\ Fairness

---------------------------------------------------------------------------
(* Invariants *)

(* A machine belongs to the user it was launched for: the machine a        *)
(* coroutine works on and the machine a row names are the user's own, and  *)
(* every machine EC2 gave out was launched for somebody.                   *)
OwnMachine ==
  /\ \A t \in Tasks : inst[t] # NoInst => owner[inst[t]] = who[t]
  /\ \A u \in Users : db[u] # NoInst => owner[db[u]] = u
  /\ \A i \in Instances : owner[i] = NoUser <=> ec2[i] = "none"

(* A slot in use belongs to a user; a machine is in hand from the answer   *)
(* of run_instances on.                                                    *)
Slots ==
  \A t \in Tasks :
    /\ pc[t] = "free" <=> who[t] = NoUser
    /\ pc[t] \in {"free", "launch"} => inst[t] = NoInst
    /\ pc[t] = "record" => inst[t] # NoInst

(* The pcs of a coroutine the hub may be waiting for in each of its states *)
AwaitedPcs ==
  [spawning |-> StartPcs, polling |-> PollPcs, quitting |-> PollPcs,
   stopping |-> {"stopload"}]

(* The hub and the coroutines agree: the hub waits for exactly the         *)
(* coroutine of the user whose server it is changing, and that coroutine   *)
(* is inside the method the hub called.                                    *)
HubAgrees ==
  \A u \in Users :
    /\ call[u] = NoTask <=> hub[u] \in {"out", "up"}
    /\ call[u] # NoTask =>
         /\ who[call[u]] = u
         /\ pc[call[u]] \in AwaitedPcs[hub[u]]

(* Rows are read before the first yield and used until the last one: the   *)
(* machine a coroutine has in hand is still the one its user's row names,  *)
(* also for a stop that reaches EC2 long after stop() has returned.        *)
SnapshotFresh ==
  \A t \in Tasks :
    pc[t] \notin LaunchPcs /\ inst[t] # NoInst => db[who[t]] = inst[t]

(* No machine runs up costs unknown to the cluster: it is in a row, or     *)
(* create_new_instance() has it in hand and is about to write the row.     *)
NoOrphan ==
  \A i \in Instances :
    Live(i) => \/ db[owner[i]] = i
               \/ \E t \in Tasks : pc[t] = "record" /\ inst[t] = i

(* README.md: "Users each get an EC2 instance". *)
OneMachinePerUser ==
  \A i, j \in Instances : Live(i) /\ Live(j) /\ owner[i] = owner[j] => i = j

(* Inside a settings() block env names the machine of the block, and env   *)
(* is back at no host when no block is open.                               *)
CommandsOnTarget ==
  /\ \A t \in Tasks : pc[t] \in BlockPcs => env = inst[t]
  /\ (\A t \in Tasks : pc[t] \notin BlockPcs) => env = NoInst

---------------------------------------------------------------------------
(* Action properties *)

(* poll() kills only a machine that does not answer SSH. *)
KillsOnlyHanged ==
  [][\A t \in Tasks :
       pc[t] = "pollhealth" /\ pc'[t] = "killload" => ~Reachable(inst[t])]_vars

(* is_notebook_running: "Checks if jupyterhub/notebook is running on the   *)
(* target machine": poll() reports a server alive only when the user's own *)
(* machine serves it.                                                      *)
TrustsOwnMachine ==
  [][\A t \in Tasks :
       /\ pc[t] = "pollcheck"
       /\ \/ pc'[t] = "stopload"
          \/ Awaited(t) /\ hub'[who[t]] = "up"
       => Serves(inst[t])]_vars

(* README.md: "The instance is stopped when the user is deemed inactive":  *)
(* no stop takes a machine down while the hub has its user's server up.    *)
StopsOnlyInactive ==
  [][\A i \in Instances :
       ec2[i] = "running" /\ ec2'[i] = "stopping" => hub[owner[i]] # "up"]_vars

(* start() takes minutes, in which machines die and other coroutines run:  *)
(* a login succeeds only when the user's own row names the user's own      *)
(* machine and the notebook answers there.                                 *)
LoginsLand ==
  [][\A u \in Users :
       hub[u] = "spawning" /\ hub'[u] = "up" =>
         db[u] # NoInst /\ owner[db[u]] = u /\ Serves(db[u])]_vars

(* The row of u names a machine that is terminated or gone.                *)
Lost(u) == db[u] # NoInst /\ ~Live(db[u])

(* A machine gets out of sight in three ways only: the hub dies with the   *)
(* launch unrecorded, the answer of the launch is lost, the row is refused *)
(* (IntegrityError).  Nothing ever finds it again.                         *)
Orphan(i) ==
  /\ Live(i)
  /\ db[owner[i]] # i
  /\ \A t \in Tasks : ~(pc[t] = "record" /\ inst[t] = i)

OrphansHaveCause ==
  [][\A i \in Instances :
       /\ ~Orphan(i) /\ Orphan(i)' =>
            \/ HubRestarts
            \/ \E t \in Tasks : LaunchLost(t, i) \/ (inst[t] = i /\ RecordClashes(t))
       /\ Orphan(i) /\ Live(i)' => Orphan(i)']_vars

(* While the hub waits for a user's call, it waits for one slot, or gives  *)
(* the call up once, for the poll before a stop; and every step the        *)
(* awaited coroutine makes is one towards its answer: start(), the poll    *)
(* and the stop that may follow it never go back to an earlier call.       *)
CallsLeft ==
  [launch |-> 17, load |-> 17, record |-> 16, health |-> 16, boot |-> 16,
   healthy |-> 15, await |-> 15, ssh |-> 14, reached |-> 13, check |-> 12,
   missed |-> 11, absent |-> 10, nbstart |-> 9, confirm |-> 8, return |-> 7,
   pollload |-> 6, pollhealth |-> 5, pollhealthy |-> 4, pollcheck |-> 3,
   pollmissed |-> 2, killload |-> 1, stopload |-> 1, send |-> 0, free |-> 0]

Closing(u) == hub[u] \in {"quitting", "stopping"}

WaitsShorten ==
  [][\A u \in Users, t \in Tasks :
       call[u] = t /\ call'[u] # NoTask =>
         /\ Closing(u) => Closing(u)'
         /\ IF call'[u] = t THEN pc'[t] # pc[t] => CallsLeft[pc'[t]] < CallsLeft[pc[t]]
                            ELSE ~Closing(u) /\ hub'[u] = "quitting"]_vars

(* The table of servers keeps what Tenancy promises. *)
T == INSTANCE Tenancy WITH tenant <- db
Tenancy == T!Spec

---------------------------------------------------------------------------
(* Liveness *)

(* A login ends: the hub never waits for start(), or for its cleanup,      *)
(* forever.                                                                *)
CallsEnd == \A u \in Users : call[u] # NoTask ~> call[u] = NoTask

(* A user who keeps logging in gets a server, also after a hang or an exit *)
(* of the notebook, once the machines are left alone, unless the user's    *)
(* machine was terminated (that is what GoneReplaced is about).            *)
Disturbs(i) == Hangs(i) \/ NotebookExits(i) \/ IsTerminated(i)

LoginSucceeds ==
  <>[][~\E i \in Instances : Disturbs(i)]_vars
    => \A u \in Users : hub[u] = "out" ~> hub[u] = "up" \/ Lost(u)

(* start(), of a terminated machine: "The solution to this problem is to   *)
(* create a new server, that cannot happen until the extant terminated     *)
(* server is actually deleted", and the user is told to "wait until it     *)
(* disappears": a user who logs in again and again gets a new machine in   *)
(* place of one EC2 has deleted.                                           *)
GoneReplaced ==
  \A u \in Users :
    []<>(hub[u] = "spawning") =>
      (db[u] # NoInst /\ ec2[db[u]] = "gone" ~> db[u] # NoInst /\ Live(db[u]))

(* A machine that stops answering is stopped, and so cured. *)
HangEnds == \A i \in Instances : hung[i] ~> ~hung[i]

=============================================================================
