---------------------------- MODULE LoginProofs ----------------------------
(***************************************************************************)
(* The action properties of Spawner about logins, lost machines, orphans   *)
(* and waiting calls, for any number of users, machines and coroutines and *)
(* for every set of faults.                                                *)
(***************************************************************************)
EXTENDS SpawnerProofs

---------------------------------------------------------------------------
(* What a login leads to *)

(* What a step of a coroutine may do to the hub. *)
HubHears(t) ==
  \/ UNCHANGED hub
  \/ StartFails(t)
  \/ \E alive \in BOOLEAN : PollEnds(t, alive)
  \/ LoadRaises(t)
  \/ hub' = [hub EXCEPT ![who[t]] = "out"]
  \/ StartReturns(t)

LEMMA TaskHeard ==
  ASSUME NEW t \in Tasks, TaskStep(t)
  PROVE  HubHears(t)
<1>1. CASE StartStep(t)
  BY <1>1
  DEF StartStep, LaunchAnswered, LaunchLost, LaunchFails, Record, RecordClashes,
      StartSeesRunning, StartSeesDown, StartRefuses, StartFindsHealthy, StartFindsHung,
      BootAccepted, BootGivesUp, AwaitEnds, SshAnswers, SshGivesUp, StartFindsNotebook,
      StartMissesNotebook, StartFindsNone, OpensNext, NotebookStarts,
      NotebookStartLost, ConfirmEnds, hubVars, HubHears
<1>2. CASE PollStep(t)
  BY <1>2
  DEF PollStep, PollUntracked, PollSeesRunning, PollSeesDown, PollFindsHealthy,
      PollFindsHung, PollFindsNotebook, PollMissesNotebook, PollFindsNone, OpensNext,
      hubVars, HubHears
<1>3. CASE StopStep(t)
  BY <1>3
  DEF StopStep, StopEnds, StopReaches, StopGivesUp, hubVars, HubHears
<1> QED BY <1>1, <1>2, <1>3 DEF TaskStep

(* Nothing but a start() that returns brings a login to its end; a poll or *)
(* stop() of the same user that ends at that time is not listened to.      *)
LEMMA OnlyStartLogsIn ==
  ASSUME Inv3, NEW t \in Tasks, TaskStep(t), NEW u \in Users,
         hub[u] = "spawning", hub'[u] = "up"
  PROVE  StartReturns(t) /\ Serves(inst[t]) /\ who[t] = u
<1> USE TaskAssumption
    DEF Inv3, Inv1, TypeOK, HubTypeOK, TaskTypeOK, HubAgrees, AwaitedPcs, Awaited, hubVars
<1>1. HubHears(t)
  BY TaskHeard
<1>2. ~StartFails(t)
  BY DEF StartFails, EndsUnheard, HubGoesOn
<1>3. ~\E alive \in BOOLEAN : PollEnds(t, alive)
  BY DEF PollEnds, EndsUnheard, HubGoesOn, HubTakes
<1>4. ~LoadRaises(t)
  <2> SUFFICES ASSUME LoadRaises(t) PROVE FALSE
    OBVIOUS
  <2>1. pc[t] \notin StartPcs
    BY DEF LoadRaises, StartPcs, LaunchPcs
  <2>2. ~EndsUnheard(t)
    BY DEF EndsUnheard
  <2>3. Awaited(t) /\ u = who[t]
    BY <2>2 DEF LoadRaises, CallRaises, HubTakes
  <2>4. pc[t] \in StartPcs
    BY <2>3
  <2> QED BY <2>1, <2>4
<1>5. StartReturns(t)
  BY <1>1, <1>2, <1>3, <1>4 DEF HubHears
<1>6. Serves(inst[t]) /\ HubTakes(t, "up")
  BY <1>5 DEF StartReturns, EndsUnheard, HubGoesOn
<1> QED BY <1>5, <1>6 DEF HubTakes

(* A login that succeeds is one at a server that answers on the machine    *)
(* that the row of the user names and that was launched for the user.      *)
LEMMA LoginLands ==
  ASSUME Inv2, Inv3, [Next]_vars, NEW u \in Users, hub[u] = "spawning", hub'[u] = "up"
  PROVE  db[u] # NoInst /\ owner[db[u]] = u /\ Serves(db[u])
<1>1. ASSUME NEW v \in Users, NEW t \in Tasks, HubStep(v, t) PROVE FALSE
  BY <1>1
  DEF HubStep, HubSpawns, HubAbandons, HubPolls, HubStops, Inv3, Inv1, TypeOK, HubTypeOK
<1>2. CASE HubRestarts
  BY <1>2 DEF HubRestarts, Restarted
<1>3. ASSUME NEW t \in Tasks, TaskStep(t)
      PROVE  db[u] # NoInst /\ owner[db[u]] = u /\ Serves(db[u])
  <2>1. StartReturns(t) /\ Serves(inst[t]) /\ who[t] = u
    BY <1>3, OnlyStartLogsIn
  <2>2. inst[t] # NoInst
    BY <2>1 DEF Serves, Reachable
  <2>3. pc[t] \notin LaunchPcs
    BY <2>1 DEF StartReturns, LaunchPcs
  <2>4. db[u] = inst[t] /\ owner[inst[t]] = u
    BY <2>1, <2>2, <2>3 DEF Inv2, SnapshotFresh, OwnMachine
  <2> QED BY <2>1, <2>2, <2>4
<1> QED BY <1>1, <1>2, <1>3 DEF Next, vars, hubVars

LEMMA Invs == Spec => [](Inv2 /\ Inv3)
<1>1. Inv2 /\ Inv3 /\ [Next]_vars => Inv2' /\ Inv3'
  BY StepInv2, StepInv3
<1> QED BY <1>1, InitInv2, InitInv3, PTL DEF Spec

(* A login succeeds only where the user's own row names the user's own     *)
(* machine and the notebook answers there, although start() decided where  *)
(* to go minutes before.                                                   *)
THEOREM LoginsLandHome == Spec => LoginsLand
<1>1. Inv2 /\ Inv3 /\ [Next]_vars
        => [\A u \in Users : hub[u] = "spawning" /\ hub'[u] = "up" =>
              db[u] # NoInst /\ owner[db[u]] = u /\ Serves(db[u])]_vars
  BY LoginLands
<1> QED BY <1>1, Invs, PTL DEF Spec, LoginsLand

---------------------------------------------------------------------------
(* The rows of terminated machines *)

(* No row is written over, and no machine comes back. *)
LEMMA LostStays ==
  ASSUME Inv2, [Next]_vars, NEW u \in Users, Lost(u)
  PROVE  Lost(u)'
<1> USE CloudAssumption
    DEF Inv2, Inv1, TypeOK, CloudTypeOK, TaskTypeOK, Slots, OwnMachine, Lost
<1>1. CASE Quiet
  BY <1>1 DEF Quiet
<1>2. ASSUME NEW t \in Tasks, NEW i \in Instances, LaunchAnswered(t, i) \/ LaunchLost(t, i)
      PROVE  Lost(u)'
  <2>1. db' = db /\ ec2[i] = "none" /\ ec2' = [ec2 EXCEPT ![i] = "pending"]
    BY <1>2 DEF LaunchAnswered, LaunchLost, RunInstance
  <2>2. db[u] # i
    BY <2>1
  <2> QED BY <2>1, <2>2 DEF Live
<1>3. ASSUME NEW t \in Tasks, Record(t) PROVE Lost(u)'
  BY <1>3 DEF Record, cloudVars, Live
<1> QED BY <1>1, <1>2, <1>3, StepKinds DEF Loud

(* The machine of a row stays lost, and its user does not get in. *)
LostForGood ==
  [][\A u \in Users :
       Lost(u) => Lost(u)' /\ ~(hub[u] = "spawning" /\ hub'[u] = "up")]_vars

(* Once the machine of a row is terminated it stays so, the row stays, and *)
(* its user does not get in any more, whoever else is at work for him:     *)
(* the lines of get_instance() that would take the row out are commented   *)
(* out (spawner.py:305-306).  The comments of start() expect a new server  *)
(* then; the run GoneForGood shows that none comes.                        *)
THEOREM TerminatedForGood == Spec => LostForGood
<1>1. ASSUME Inv2, Inv3, [Next]_vars, NEW u \in Users, Lost(u),
             hub[u] = "spawning", hub'[u] = "up"
      PROVE  FALSE
  <2>1. Serves(db[u])
    BY <1>1, LoginLands
  <2> QED BY <1>1, <2>1 DEF Serves, Reachable, Lost, Live
<1>2. Inv2 /\ Inv3 /\ [Next]_vars
        => [\A u \in Users :
              Lost(u) => Lost(u)' /\ ~(hub[u] = "spawning" /\ hub'[u] = "up")]_vars
  BY <1>1, LostStays
<1> QED BY <1>2, Invs, PTL DEF Spec, LostForGood

---------------------------------------------------------------------------
(* Machines out of sight *)

(* A coroutine with a fresh machine in hand records it or fails to. *)
LEMMA FreshGetsRow ==
  ASSUME NEW t \in Tasks, pc[t] = "record", TaskStep(t)
  PROVE  Record(t) \/ RecordClashes(t)
BY StopCases
DEF TaskStep, StartStep, PollStep, StopStep, LaunchAnswered, LaunchLost,
    LaunchFails, StartSeesRunning, StartSeesDown,
    StartRefuses, StartFindsHealthy, StartFindsHung, BootAccepted,
    BootGivesUp, AwaitEnds, SshAnswers, SshGivesUp, StartFindsNotebook,
    StartMissesNotebook, StartFindsNone, OpensNext, NotebookStarts,
    NotebookStartLost, ConfirmEnds, StartReturns, PollUntracked, PollSeesRunning, PollSeesDown,
    PollFindsHealthy, PollFindsHung, PollFindsNotebook, PollMissesNotebook,
    PollFindsNone, StopUntracked, StopSetsOff, LoadRaises, StopReaches, StopGivesUp

(* A machine in hand stays there until one of the two happens, or a crash. *)
LEMMA FreshStaysOr ==
  ASSUME Inv1, [Next]_vars, NEW t \in Tasks, pc[t] = "record",
         ~Record(t), ~RecordClashes(t), ~HubRestarts
  PROVE  pc'[t] = "record" /\ inst'[t] = inst[t]
<1>1. ASSUME NEW u \in Users, NEW s \in Tasks, HubStep(u, s)
      PROVE  pc'[t] = "record" /\ inst'[t] = inst[t]
  <2>1. pc[s] = "free" /\ \E p : Begin(s, u, p)
    BY <1>1 DEF HubStep, HubSpawns, HubAbandons, HubPolls, HubStops
  <2> QED BY <2>1 DEF Begin, Inv1, TypeOK, TaskTypeOK
<1>2. ASSUME NEW s \in Tasks, TaskStep(s)
      PROVE  pc'[t] = "record" /\ inst'[t] = inst[t]
  BY <1>2, FreshGetsRow, OthersUntouched
<1>3. CASE UNCHANGED taskVars
  BY <1>3 DEF taskVars
<1> QED BY <1>1, <1>2, <1>3 DEF Next, vars

(* How machine i may get out of sight. *)
LosesSight(i) ==
  \/ HubRestarts
  \/ \E t \in Tasks : LaunchLost(t, i) \/ (inst[t] = i /\ RecordClashes(t))

LEMMA OrphanHasCause ==
  ASSUME Inv2, [Next]_vars, NEW i \in Instances, ~Orphan(i), Orphan(i)'
  PROVE  LosesSight(i)
<1> USE CloudAssumption
    DEF Inv2, Inv1, TypeOK, CloudTypeOK, TaskTypeOK, Slots, OwnMachine
<1> SUFFICES ASSUME ~LosesSight(i) PROVE FALSE
  OBVIOUS
<1>1. CASE Quiet
  <2>1. Live(i) /\ db[owner[i]] # i
    BY <1>1 DEF Quiet, Orphan
  <2>2. PICK t \in Tasks : pc[t] = "record" /\ inst[t] = i
    BY <2>1 DEF Orphan
  <2>3. Record(t)
    BY <2>2, FreshStaysOr DEF LosesSight, Orphan
  <2>4. db'[who[t]] = inst[t] /\ db[who[t]] = NoInst
    BY <2>2, <2>3 DEF Record
  <2> QED BY <1>1, <2>2, <2>4 DEF Quiet
<1>2. ASSUME NEW t \in Tasks, NEW j \in Instances, LaunchAnswered(t, j) \/ LaunchLost(t, j)
      PROVE  FALSE
  <2>1. /\ pc[t] = "launch" /\ ec2[j] = "none" /\ db' = db
        /\ ec2' = [ec2 EXCEPT ![j] = "pending"]
        /\ owner' = [owner EXCEPT ![j] = who[t]]
    BY <1>2 DEF LaunchAnswered, LaunchLost, RunInstance
  <2>2. \A s \in Tasks : pc[s] = "record" => pc'[s] = "record" /\ inst'[s] = inst[s]
    BY <1>2, <2>1 DEF LaunchAnswered, LaunchLost, taskVars
  <2>3. CASE i # j
    BY <2>1, <2>2, <2>3 DEF Orphan, Live
  <2>4. CASE i = j
    <3>1. LaunchAnswered(t, i)
      BY <1>2, <2>4 DEF LosesSight
    <3>2. pc'[t] = "record" /\ inst'[t] = i
      BY <3>1 DEF LaunchAnswered
    <3> QED BY <3>2 DEF Orphan
  <2> QED BY <2>3, <2>4
<1>3. ASSUME NEW t \in Tasks, Record(t) PROVE FALSE
  <2>1. /\ pc[t] = "record" /\ who[t] \in Users /\ db[who[t]] = NoInst
        /\ db' = [db EXCEPT ![who[t]] = inst[t]]
        /\ pc' = [pc EXCEPT ![t] = "await"]
        /\ UNCHANGED <<ec2, owner, who, inst>>
    BY <1>3 DEF Record, Goto, cloudVars
  <2> QED BY <2>1 DEF Orphan, Live
<1> QED BY <1>1, <1>2, <1>3, StepKinds DEF Loud

LEMMA OrphanStays ==
  ASSUME Inv2, [Next]_vars, NEW i \in Instances, Orphan(i), Live(i)'
  PROVE  Orphan(i)'
<1> USE CloudAssumption
    DEF Inv2, Inv1, TypeOK, CloudTypeOK, TaskTypeOK, Slots, OwnMachine
<1>1. CASE Quiet
  <2>1. \A t \in Tasks : ~(pc'[t] = "record" /\ inst'[t] = i)
    BY <1>1 DEF Quiet, KeepsMachine, LaunchPcs, Orphan
  <2> QED BY <1>1, <2>1 DEF Quiet, Orphan
<1>2. ASSUME NEW t \in Tasks, NEW j \in Instances, LaunchAnswered(t, j) \/ LaunchLost(t, j)
      PROVE  Orphan(i)'
  <2>1. /\ ec2[j] = "none" /\ db' = db
        /\ owner' = [owner EXCEPT ![j] = who[t]]
        /\ \A s \in Tasks : s # t => pc'[s] = pc[s] /\ inst'[s] = inst[s]
        /\ pc'[t] = "record" => inst'[t] = j
    BY <1>2 DEF LaunchAnswered, LaunchLost, RunInstance, taskVars
  <2>2. i # j
    BY <2>1 DEF Orphan, Live
  <2> QED BY <2>1, <2>2 DEF Orphan
<1>3. ASSUME NEW t \in Tasks, Record(t) PROVE Orphan(i)'
  <2>1. /\ pc[t] = "record" /\ who[t] \in Users
        /\ db' = [db EXCEPT ![who[t]] = inst[t]]
        /\ pc' = [pc EXCEPT ![t] = "await"]
        /\ UNCHANGED <<ec2, owner, who, inst>>
    BY <1>3 DEF Record, Goto, cloudVars
  <2> QED BY <2>1 DEF Orphan, Live
<1> QED BY <1>1, <1>2, <1>3, StepKinds DEF Loud

(* A machine that costs money gets out of sight in three ways and no       *)
(* other, and the cluster never finds it again.                            *)
THEOREM OrphansExplained == Spec => OrphansHaveCause
<1>1. Inv2 /\ Inv3 /\ [Next]_vars
        => [\A i \in Instances :
              /\ ~Orphan(i) /\ Orphan(i)' =>
                   \/ HubRestarts
                   \/ \E t \in Tasks : LaunchLost(t, i) \/ (inst[t] = i /\ RecordClashes(t))
              /\ Orphan(i) /\ Live(i)' => Orphan(i)']_vars
  BY OrphanHasCause, OrphanStays DEF LosesSight
<1> QED BY <1>1, Invs, PTL DEF Spec, OrphansHaveCause

---------------------------------------------------------------------------
(* Waiting for a call *)

LEMMA CallsOrdered ==
  /\ \A p \in (StartPcs \union PollPcs \union StopPcs) \ {"send"} :
       CallsLeft["free"] < CallsLeft[p] /\ CallsLeft["send"] < CallsLeft[p]
  /\ \A p \in StartPcs : CallsLeft["pollload"] < CallsLeft[p]
  /\ \A p \in PollPcs \ {"killload"} : /\ CallsLeft["stopload"] < CallsLeft[p]
                                       /\ CallsLeft["killload"] < CallsLeft[p]
  /\ CallsLeft["record"] < CallsLeft["launch"] /\ CallsLeft["await"] < CallsLeft["record"]
  /\ CallsLeft["health"] < CallsLeft["load"] /\ CallsLeft["ssh"] < CallsLeft["load"]
  /\ CallsLeft["boot"] < CallsLeft["load"] /\ CallsLeft["healthy"] < CallsLeft["health"]
  /\ CallsLeft["ssh"] < CallsLeft["healthy"]
  /\ CallsLeft["await"] < CallsLeft["boot"] /\ CallsLeft["ssh"] < CallsLeft["await"]
  /\ CallsLeft["reached"] < CallsLeft["ssh"] /\ CallsLeft["check"] < CallsLeft["reached"]
  /\ CallsLeft["return"] < CallsLeft["check"] /\ CallsLeft["missed"] < CallsLeft["check"]
  /\ CallsLeft["absent"] < CallsLeft["missed"] /\ CallsLeft["nbstart"] < CallsLeft["absent"]
  /\ CallsLeft["confirm"] < CallsLeft["nbstart"]
  /\ CallsLeft["return"] < CallsLeft["confirm"]
  /\ CallsLeft["pollhealth"] < CallsLeft["pollload"]
  /\ CallsLeft["pollcheck"] < CallsLeft["pollload"]
  /\ CallsLeft["pollhealthy"] < CallsLeft["pollhealth"]
  /\ CallsLeft["pollcheck"] < CallsLeft["pollhealthy"]
  /\ CallsLeft["pollmissed"] < CallsLeft["pollcheck"]
BY DEF CallsLeft, StartPcs, LaunchPcs, PollPcs, StopPcs

(* The ways a coroutine ends, with the place it ends at. *)
LEMMA EndsDown ==
  ASSUME Inv1, NEW t \in Tasks,
         \/ pc[t] \in StartPcs /\ StartFails(t)
         \/ pc[t] \in PollPcs \ {"killload"} /\ \E alive \in BOOLEAN : PollEnds(t, alive)
         \/ pc[t] \in {"pollload", "stopload", "killload"} /\ (CallRaises(t) \/ Free(t))
         \/ pc[t] \in StartPcs /\ Free(t)
  PROVE  CallsLeft[pc'[t]] < CallsLeft[pc[t]]
<1> USE DEF Inv1, TypeOK, TaskTypeOK
<1>1. CASE Free(t)
  <2>1. pc'[t] = "free"
    BY <1>1 DEF Free
  <2>2. pc[t] \in (StartPcs \union PollPcs \union StopPcs) \ {"send"}
    BY DEF StartPcs, LaunchPcs, PollPcs, StopPcs
  <2> QED BY <2>1, <2>2, CallsOrdered
<1>2. CASE pc[t] \in StartPcs /\ StartFails(t) /\ ~Free(t)
  <2>1. pc'[t] = "pollload"
    BY <1>2 DEF StartFails, EndsUnheard, HubGoesOn, Begin
  <2> QED BY <1>2, <2>1, CallsOrdered
<1>3. CASE /\ pc[t] \in PollPcs \ {"killload"} /\ ~Free(t)
           /\ \E alive \in BOOLEAN : PollEnds(t, alive)
  <2>1. pc'[t] = "stopload"
    BY <1>3 DEF PollEnds, EndsUnheard, HubTakes, HubGoesOn, Begin
  <2> QED BY <1>3, <2>1, CallsOrdered
<1>4. CASE CallRaises(t)
  BY <1>1, <1>4 DEF CallRaises, EndsUnheard, HubTakes
<1> QED BY <1>1, <1>2, <1>3, <1>4

LEMMA StepsDown ==
  ASSUME Inv1, NEW t \in Tasks, TaskStep(t), pc[t] # "send", pc'[t] # pc[t]
  PROVE  CallsLeft[pc'[t]] < CallsLeft[pc[t]]
<1> USE DEF Inv1, TypeOK, TaskTypeOK
<1>1. ASSUME NEW p, Goto(t, p) PROVE pc'[t] = p
  BY <1>1 DEF Goto
<1>2. CASE StartStep(t)
  <2>1. CASE LaunchFails(t) \/ RecordClashes(t) \/ StartRefuses(t) \/ StartFindsHung(t)
    BY <2>1, EndsDown
    DEF LaunchFails, RecordClashes, StartRefuses, StartFindsHung, StartPcs, LaunchPcs
  <2>2. CASE StartReturns(t)
    BY <2>2, EndsDown DEF StartReturns, StartFails, HubTakes, EndsUnheard, StartPcs
  <2>3. ASSUME NEW i \in Instances, LaunchAnswered(t, i) \/ LaunchLost(t, i)
        PROVE  CallsLeft[pc'[t]] < CallsLeft[pc[t]]
    BY <2>3, CallsOrdered DEF LaunchAnswered, LaunchLost, taskVars
  <2>4. CASE Record(t) \/ StartSeesRunning(t) \/ StartSeesDown(t) \/ StartFindsHealthy(t)
    BY <1>1, <2>4, CallsOrdered
    DEF Record, StartSeesRunning, StartSeesDown, StartFindsHealthy
  <2>5. CASE BootAccepted(t) \/ BootGivesUp(t) \/ AwaitEnds(t) \/ SshAnswers(t) \/ SshGivesUp(t)
    BY <1>1, <2>5, CallsOrdered
    DEF BootAccepted, BootGivesUp, AwaitEnds, SshAnswers, SshGivesUp
  <2>6. CASE \/ StartFindsNotebook(t) \/ StartMissesNotebook(t) \/ NotebookStarts(t)
             \/ NotebookStartLost(t) \/ ConfirmEnds(t)
    BY <1>1, <2>6, CallsOrdered
    DEF StartFindsNotebook, StartMissesNotebook, NotebookStarts, NotebookStartLost, ConfirmEnds
  <2>7. CASE \/ StartFindsNone(t) \/ OpensNext(t, "healthy", "ssh")
             \/ OpensNext(t, "reached", "check") \/ OpensNext(t, "absent", "nbstart")
    BY <1>1, <2>7, CallsOrdered DEF StartFindsNone, OpensNext
  <2> QED BY <1>2, <2>1, <2>2, <2>3, <2>4, <2>5, <2>6, <2>7 DEF StartStep
<1>3. CASE PollStep(t)
  <2>1. CASE PollUntracked(t) \/ PollSeesDown(t) \/ PollFindsNotebook(t) \/ PollFindsNone(t)
    BY <2>1, EndsDown
    DEF PollUntracked, PollSeesDown, PollFindsNotebook, PollFindsNone, PollPcs
  <2>2. CASE PollFindsHung(t)
    BY <2>2, CallsOrdered DEF PollFindsHung, Begin, PollPcs
  <2>3. CASE PollFindsHealthy(t) \/ \E p \in {"pollhealth", "pollcheck"} : PollSeesRunning(t, p)
    BY <1>1, <2>3, CallsOrdered DEF PollFindsHealthy, PollSeesRunning
  <2>4. CASE PollMissesNotebook(t) \/ OpensNext(t, "pollhealthy", "pollcheck")
    BY <1>1, <2>4, CallsOrdered DEF PollMissesNotebook, OpensNext
  <2> QED BY <1>3, <2>1, <2>2, <2>3, <2>4 DEF PollStep
<1>4. CASE StopStep(t)
  <2>1. CASE StopUntracked(t)
    BY <2>1, EndsDown DEF StopUntracked, EndsUnheard, HubTakes
  <2>2. CASE StopSetsOff(t)
    BY <1>1, <2>2, CallsOrdered DEF StopSetsOff, PollPcs, StopPcs
  <2>3. CASE LoadRaises(t)
    BY <2>3, EndsDown DEF LoadRaises
  <2> QED BY <1>4, <2>1, <2>2, <2>3, StopCases DEF StopStep, StopReaches, StopGivesUp
<1> QED BY <1>2, <1>3, <1>4 DEF TaskStep

(* The user's wait goes on, for the same call or for the poll of a stop.   *)
StillWaits(u, t) ==
  /\ Closing(u) => Closing(u)'
  /\ IF call'[u] = t THEN pc'[t] # pc[t] => CallsLeft[pc'[t]] < CallsLeft[pc[t]]
                     ELSE ~Closing(u) /\ hub'[u] = "quitting"

(* What the end of a coroutine makes of the user it was awaited for. *)
LEMMA AwaitedGoesOn ==
  ASSUME Inv3, NEW t \in Tasks, TaskStep(t), NEW u \in Users,
         call[u] = t, call'[u] # NoTask
  PROVE  call'[u] = t /\ pc[t] # "send" /\ (Closing(u) => Closing(u)')
<1> USE TaskAssumption, CloudAssumption
    DEF Inv3, Inv1, TypeOK, HubTypeOK, TaskTypeOK, HubAgrees, AwaitedPcs, Awaited
<1>1. who[t] = u /\ Awaited(t) /\ pc[t] # "send"
  <2>1. who[t] = u /\ pc[t] \in AwaitedPcs[hub[u]]
    OBVIOUS
  <2>2. hub[u] \in {"spawning", "polling", "quitting", "stopping"}
    BY DEF HubStates
  <2>3. pc[t] # "send"
    BY <2>1, <2>2 DEF StartPcs, LaunchPcs, PollPcs
  <2> QED BY <2>1, <2>3
<1>2. Moves(t)
  BY TaskMoves
<1>3. CASE \E p : Advances(t, p)
  BY <1>1, <1>3 DEF Advances, hubVars, Closing
<1>4. CASE Ends(t)
  BY <1>1, <1>4
  DEF Ends, StartFails, PollEnds, CallRaises, EndsUnheard, HubTakes, HubGoesOn, Closing
<1>5. CASE StopSetsOff(t)
  BY <1>1, <1>5 DEF StopSetsOff
<1>6. CASE UNCHANGED <<taskVars, hubVars>>
  BY <1>1, <1>6 DEF hubVars, Closing
<1> QED BY <1>1, <1>2, <1>3, <1>4, <1>5, <1>6 DEF Moves

(* Another coroutine, of this user or of another one, changes nothing.     *)
LEMMA OthersUnheard ==
  ASSUME Inv3, NEW t \in Tasks, TaskStep(t), NEW u \in Users, call[u] # t
  PROVE  call'[u] = call[u] /\ hub'[u] = hub[u]
<1> USE DEF Inv3, Inv1, TypeOK, HubTypeOK, TaskTypeOK, Awaited
<1>1. Moves(t)
  BY TaskMoves
<1>2. CASE Ends(t)
  BY <1>2
  DEF Ends, StartFails, PollEnds, CallRaises, EndsUnheard, HubTakes, HubGoesOn, hubVars
<1>3. CASE StopSetsOff(t)
  BY <1>3 DEF StopSetsOff, hubVars
<1> QED BY <1>1, <1>2, <1>3 DEF Moves, Advances, hubVars

LEMMA WaitShortens ==
  ASSUME Inv3, [Next]_vars, NEW u \in Users, NEW t \in Tasks,
         call[u] = t, call'[u] # NoTask
  PROVE  StillWaits(u, t)
<1> USE TaskAssumption
    DEF Inv3, Inv1, TypeOK, HubTypeOK, TaskTypeOK, StillWaits, Closing
<1>1. ASSUME NEW v \in Users, NEW s \in Tasks, HubStep(v, s) PROVE StillWaits(u, t)
  <2>1. s # t
    BY <1>1
    DEF HubAgrees, AwaitedPcs, StartPcs, LaunchPcs, PollPcs, HubStates,
        HubStep, HubSpawns, HubAbandons, HubPolls, HubStops
  <2>2. /\ pc'[t] = pc[t] /\ call' = [call EXCEPT ![v] = s]
        /\ \E h : hub' = [hub EXCEPT ![v] = h]
    BY <1>1, <2>1 DEF HubStep, HubSpawns, HubAbandons, HubPolls, HubStops, Begin
  <2>3. CASE v = u
    <3>1. hub[u] \notin {"out", "up"}
      BY DEF HubAgrees
    <3>2. hub[u] \in {"spawning", "polling"} /\ hub'[u] = "quitting"
      BY <1>1, <2>3, <3>1 DEF HubStep, HubSpawns, HubAbandons, HubPolls, HubStops
    <3> QED BY <2>1, <2>2, <2>3, <3>2
  <2>4. CASE v # u
    BY <2>2, <2>4
  <2> QED BY <2>3, <2>4
<1>2. CASE HubRestarts
  BY <1>2 DEF HubRestarts, Restarted
<1>3. ASSUME NEW s \in Tasks, TaskStep(s) PROVE StillWaits(u, t)
  <2>1. CASE s = t
    BY <1>3, <2>1, AwaitedGoesOn, StepsDown
  <2>2. CASE s # t
    BY <1>3, <2>2, OthersUnheard, OthersUntouched
  <2> QED BY <2>1, <2>2
<1>4. CASE UNCHANGED <<taskVars, hubVars>>
  BY <1>4 DEF taskVars, hubVars
<1> QED BY <1>1, <1>2, <1>3, <1>4 DEF Next, vars

(* The hub's wait for a user is bounded by the calls of start(), or of a   *)
(* poll and a stop: it changes the coroutine it waits for at most once,    *)
(* and what it waits for never goes back to an earlier call.               *)
THEOREM WaitsGetShorter == Spec => WaitsShorten
<1>1. Inv2 /\ Inv3 /\ [Next]_vars
        => [\A u \in Users, t \in Tasks :
              call[u] = t /\ call'[u] # NoTask =>
                /\ Closing(u) => Closing(u)'
                /\ IF call'[u] = t THEN pc'[t] # pc[t] => CallsLeft[pc'[t]] < CallsLeft[pc[t]]
                                   ELSE ~Closing(u) /\ hub'[u] = "quitting"]_vars
  BY WaitShortens DEF StillWaits
<1> QED BY <1>1, Invs, PTL DEF Spec, WaitsShorten

=============================================================================
