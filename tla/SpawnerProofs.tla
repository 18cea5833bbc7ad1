--------------------------- MODULE SpawnerProofs ---------------------------
(***************************************************************************)
(* Theorems about Spawner, for any number of users, machines and           *)
(* coroutines and, unless a theorem says otherwise, for every set of       *)
(* faults.                                                                 *)
(***************************************************************************)
EXTENDS Spawner, TLAPS

---------------------------------------------------------------------------
(* Type correctness, together with the shape of the coroutine slots        *)

(* The ways a coroutine ends. *)
Ends(t) ==
  \/ StartFails(t)
  \/ \E alive \in BOOLEAN : PollEnds(t, alive)
  \/ CallRaises(t)
  \/ EndsUnheard(t)
  \/ \E h \in {"up", "out"} : HubTakes(t, h)
  \/ HubGoesOn(t, "quitting", "pollload")

(* The two outcomes of stop(): there is no row, or a stop is set off. *)
StopUntracked(t) ==
  /\ pc[t] \in {"stopload", "killload"}
  /\ inst[t] = NoInst
  /\ EndsUnheard(t) \/ HubTakes(t, "out")
  /\ UNCHANGED <<cloudVars, db, fabricVars>>

StopSetsOff(t) ==
  /\ pc[t] \in {"stopload", "killload"}
  /\ inst[t] # NoInst
  /\ Goto(t, "send")
  /\ \/ /\ Awaited(t)
        /\ hub' = [hub EXCEPT ![who[t]] = "out"]
        /\ call' = [call EXCEPT ![who[t]] = NoTask]
     \/ ~Awaited(t) /\ UNCHANGED hubVars
  /\ UNCHANGED <<cloudVars, db, fabricVars>>

(* stop() has no other outcome. *)
LEMMA StopCases ==
  ASSUME NEW t \in Tasks, StopEnds(t)
  PROVE  StopUntracked(t) \/ StopSetsOff(t)
BY DEF StopEnds, StopUntracked, StopSetsOff, EndsUnheard, HubTakes

(* What the invariants say of the coroutines and the hub. *)
TaskInv == TaskTypeOK /\ HubTypeOK /\ Slots

DbTypeOK == db \in [Users -> Instances \union {NoInst}]

(* A coroutine that ends leaves its slot free, or filled by the next one.  *)
LEMMA EndsInv ==
  ASSUME TaskInv, DbTypeOK, NEW t \in Tasks, pc[t] # "free", Ends(t)
  PROVE  TaskInv'
<1> USE CloudAssumption
    DEF TaskInv, DbTypeOK, TaskTypeOK, HubTypeOK, Slots, HubStates, PollPcs,
        StopPcs, StartPcs, LaunchPcs, Free, Begin, Awaited
<1>1. CASE EndsUnheard(t)
  BY <1>1 DEF EndsUnheard, hubVars
<1>2. ASSUME NEW h \in HubStates, HubTakes(t, h)
      PROVE  TaskInv'
  BY <1>2 DEF HubTakes
<1>3. ASSUME NEW h \in HubStates, NEW p \in {"pollload", "stopload"},
             HubGoesOn(t, h, p)
      PROVE  TaskInv'
  <2>1. who[t] \in Users
    OBVIOUS
  <2> QED
    BY <1>3, <2>1 DEF HubGoesOn
<1> QED
  BY <1>1, <1>2, <1>3 DEF Ends, StartFails, PollEnds, CallRaises

(* A coroutine that goes on keeps its slot. *)
LEMMA GotoInv ==
  ASSUME TaskInv, NEW t \in Tasks, pc[t] \notin {"free", "launch"},
         NEW p \in (StartPcs \union PollPcs \union StopPcs) \ LaunchPcs,
         Goto(t, p), UNCHANGED hubVars
  PROVE  TaskInv'
BY DEF TaskInv, TaskTypeOK, HubTypeOK, Slots, StartPcs, LaunchPcs, PollPcs,
       StopPcs, Goto, hubVars

(* Every call to EC2 keeps the types of the machines. *)
LEMMA CloudType ==
  ASSUME CloudTypeOK,
         \/ UNCHANGED cloudVars
         \/ \E i \in Instances, u \in Users : RunInstance(i, u)
         \/ \E i \in Instances \union {NoInst} : StartInstance(i) \/ StopInstance(i)
         \/ \E i \in Instances \union {NoInst}, u \in Users : LaunchNotebook(i, u)
         \/ \E i \in Instances : CloudStep(i)
  PROVE  CloudTypeOK'
<1> USE DEF CloudTypeOK, InstanceStates
<1>1. CASE UNCHANGED cloudVars
  BY <1>1 DEF cloudVars
<1>2. ASSUME NEW i \in Instances, NEW u \in Users, RunInstance(i, u)
      PROVE  CloudTypeOK'
  BY <1>2 DEF RunInstance
<1>3. ASSUME NEW i \in Instances \union {NoInst}, StartInstance(i)
      PROVE  CloudTypeOK'
  BY <1>3 DEF StartInstance
<1>4. ASSUME NEW i \in Instances \union {NoInst}, StopInstance(i)
      PROVE  CloudTypeOK'
  BY <1>4 DEF StopInstance
<1>5. ASSUME NEW i \in Instances \union {NoInst}, NEW u \in Users,
             LaunchNotebook(i, u)
      PROVE  CloudTypeOK'
  BY <1>5 DEF LaunchNotebook
<1>6. ASSUME NEW i \in Instances, CloudStep(i)
      PROVE  CloudTypeOK'
  BY <1>6 DEF CloudStep, Boots, Halts, Fades, Hangs, NotebookExits,
              IsTerminated, TerminateInstance
<1> QED
  BY <1>1, <1>2, <1>3, <1>4, <1>5, <1>6

(* Opening, changing and closing a settings() block keeps env a host. *)
LEMMA FabricType ==
  ASSUME FabricTypeOK, TaskTypeOK, NEW t \in Tasks,
         OpenBlock(t) \/ NextBlock(t) \/ CloseBlock(t) \/ UNCHANGED fabricVars
  PROVE  FabricTypeOK'
BY DEF FabricTypeOK, TaskTypeOK, OpenBlock, NextBlock, CloseBlock, fabricVars

Inv1 == TypeOK /\ Slots

(* The hub begins a coroutine in a free slot. *)
LEMMA HubStepInv1 ==
  ASSUME Inv1, NEW u \in Users, NEW t \in Tasks, HubStep(u, t)
  PROVE  Inv1'
<1> USE CloudAssumption
    DEF Inv1, TypeOK, Slots, TaskTypeOK, HubTypeOK, HubStates, PollPcs,
        StartPcs, LaunchPcs, StopPcs, Begin
<1>1. pc[t] = "free" /\ UNCHANGED <<cloudVars, db, fabricVars>>
  BY DEF HubStep, HubSpawns, HubAbandons, HubPolls, HubStops
<1>2. CloudTypeOK' /\ FabricTypeOK' /\ UNCHANGED db
  BY <1>1 DEF CloudTypeOK, cloudVars, FabricTypeOK, fabricVars
<1>3. CASE HubSpawns(u, t)
  BY <1>2, <1>3 DEF HubSpawns
<1>4. CASE HubAbandons(u, t)
  BY <1>2, <1>4 DEF HubAbandons
<1>5. CASE HubPolls(u, t)
  BY <1>2, <1>5 DEF HubPolls
<1>6. CASE HubStops(u, t)
  BY <1>2, <1>6 DEF HubStops
<1> QED
  BY <1>3, <1>4, <1>5, <1>6 DEF HubStep

(* The parts of Inv1 a step of a coroutine disturbs one by one. *)
LEMMA Inv1Parts ==
  /\ Inv1 <=> CloudTypeOK /\ DbTypeOK /\ FabricTypeOK /\ TaskInv
  /\ Inv1' <=> CloudTypeOK' /\ DbTypeOK' /\ FabricTypeOK' /\ TaskInv'
BY DEF Inv1, TypeOK, DbTypeOK, TaskInv

(* A step that only moves a coroutine on, calls nothing and writes no row. *)
LEMMA PlainStep ==
  ASSUME Inv1, NEW t \in Tasks, UNCHANGED <<cloudVars, db>>,
         OpenBlock(t) \/ NextBlock(t) \/ CloseBlock(t) \/ UNCHANGED fabricVars,
         \/ /\ pc[t] \notin {"free", "launch"}
            /\ \E p \in (StartPcs \union PollPcs \union StopPcs) \ LaunchPcs : Goto(t, p)
            /\ UNCHANGED hubVars
         \/ pc[t] # "free" /\ Ends(t)
  PROVE  Inv1'
<1>1. CloudTypeOK'
  BY Inv1Parts, CloudType DEF cloudVars
<1>2. FabricTypeOK'
  BY Inv1Parts, FabricType DEF TaskInv
<1>3. DbTypeOK'
  BY Inv1Parts DEF DbTypeOK
<1>4. TaskInv'
  BY Inv1Parts, GotoInv, EndsInv
<1> QED
  BY <1>1, <1>2, <1>3, <1>4, Inv1Parts

LEMMA StartStepInv1 ==
  ASSUME Inv1, NEW t \in Tasks, StartStep(t)
  PROVE  Inv1'
<1>1. CASE LaunchFails(t)
  BY <1>1, PlainStep DEF LaunchFails, Ends, StartPcs, LaunchPcs, PollPcs, StopPcs
<1>2. CASE RecordClashes(t)
  BY <1>2, PlainStep DEF RecordClashes, Ends, StartPcs, LaunchPcs, PollPcs, StopPcs
<1>3. CASE StartSeesRunning(t)
  BY <1>3, PlainStep DEF StartSeesRunning, Ends, StartPcs, LaunchPcs, PollPcs, StopPcs
<1>4. CASE StartSeesDown(t)
  BY <1>4, PlainStep DEF StartSeesDown, Ends, StartPcs, LaunchPcs, PollPcs, StopPcs
<1>5. CASE StartRefuses(t)
  BY <1>5, PlainStep DEF StartRefuses, Ends, StartPcs, LaunchPcs, PollPcs, StopPcs
<1>6. CASE StartFindsHealthy(t)
  BY <1>6, PlainStep DEF StartFindsHealthy, Ends, StartPcs, LaunchPcs, PollPcs, StopPcs
<1>7. CASE StartFindsHung(t)
  BY <1>7, PlainStep DEF StartFindsHung, Ends, StartPcs, LaunchPcs, PollPcs, StopPcs
<1>8. CASE BootGivesUp(t)
  BY <1>8, PlainStep DEF BootGivesUp, Ends, StartPcs, LaunchPcs, PollPcs, StopPcs
<1>9. CASE AwaitEnds(t)
  BY <1>9, PlainStep DEF AwaitEnds, Ends, StartPcs, LaunchPcs, PollPcs, StopPcs
<1>10. CASE SshAnswers(t)
  BY <1>10, PlainStep DEF SshAnswers, Ends, StartPcs, LaunchPcs, PollPcs, StopPcs
<1>11. CASE SshGivesUp(t)
  BY <1>11, PlainStep DEF SshGivesUp, Ends, StartPcs, LaunchPcs, PollPcs, StopPcs
<1>12. CASE StartFindsNotebook(t)
  BY <1>12, PlainStep DEF StartFindsNotebook, Ends, StartPcs, LaunchPcs, PollPcs, StopPcs
<1>13. CASE StartMissesNotebook(t)
  BY <1>13, PlainStep DEF StartMissesNotebook, Ends, StartPcs, LaunchPcs, PollPcs, StopPcs
<1>14. CASE NotebookStartLost(t)
  BY <1>14, PlainStep DEF NotebookStartLost, Ends, StartPcs, LaunchPcs, PollPcs, StopPcs
<1>15. CASE ConfirmEnds(t)
  BY <1>15, PlainStep DEF ConfirmEnds, Ends, StartPcs, LaunchPcs, PollPcs, StopPcs
<1>16. CASE StartReturns(t)
  BY <1>16, PlainStep DEF StartReturns, Ends, StartPcs, LaunchPcs, PollPcs, StopPcs
<1>17. ASSUME NEW i \in Instances, LaunchAnswered(t, i) \/ LaunchLost(t, i)
      PROVE  Inv1'
  <2>1. who[t] \in Users
    BY <1>17 DEF LaunchAnswered, LaunchLost, Inv1, TypeOK, TaskTypeOK, Slots
  <2>2. CloudTypeOK'
    BY <1>17, <2>1, Inv1Parts, CloudType DEF LaunchAnswered, LaunchLost
  <2>3. DbTypeOK' /\ FabricTypeOK'
    BY <1>17, Inv1Parts
    DEF LaunchAnswered, LaunchLost, DbTypeOK, FabricTypeOK, fabricVars
  <2>4. TaskInv'
    BY <1>17, Inv1Parts, CloudAssumption
    DEF LaunchAnswered, LaunchLost, TaskInv, TaskTypeOK, HubTypeOK, Slots,
        hubVars, taskVars, StartPcs, LaunchPcs
  <2> QED
    BY <2>2, <2>3, <2>4, Inv1Parts
<1>18. CASE Record(t)
  <2>1. TaskInv'
    BY <1>18, Inv1Parts, GotoInv DEF Record, StartPcs, LaunchPcs
  <2>2. CloudTypeOK' /\ FabricTypeOK'
    BY <1>18, Inv1Parts, CloudType DEF Record, FabricTypeOK, fabricVars
  <2>3. DbTypeOK'
    BY <1>18, Inv1Parts DEF Record, DbTypeOK, TaskInv, TaskTypeOK
  <2> QED
    BY <2>1, <2>2, <2>3, Inv1Parts
<1>19. CASE BootAccepted(t) \/ NotebookStarts(t)
  <2>1. TaskInv'
    BY <1>19, Inv1Parts, GotoInv
    DEF BootAccepted, NotebookStarts, StartPcs, LaunchPcs
  <2>2. inst[t] \in Instances \union {NoInst} /\ env \in Instances \union {NoInst}
    BY Inv1Parts DEF TaskInv, TaskTypeOK, FabricTypeOK
  <2>3. who[t] \in Users
    BY <1>19 DEF BootAccepted, NotebookStarts, Inv1, TypeOK, TaskTypeOK, Slots
  <2>4. CloudTypeOK'
    BY <1>19, <2>2, <2>3, Inv1Parts, CloudType
    DEF BootAccepted, NotebookStarts, Hosts
  <2>5. FabricTypeOK'
    BY <1>19, Inv1Parts, FabricType DEF BootAccepted, NotebookStarts, TaskInv
  <2>6. DbTypeOK'
    BY <1>19, Inv1Parts DEF BootAccepted, NotebookStarts, DbTypeOK
  <2> QED
    BY <2>1, <2>4, <2>5, <2>6, Inv1Parts
<1>20. CASE StartFindsNone(t)
  BY <1>20, PlainStep DEF StartFindsNone, StartPcs, LaunchPcs, PollPcs, StopPcs
<1>21. CASE \/ OpensNext(t, "healthy", "ssh") \/ OpensNext(t, "reached", "check")
            \/ OpensNext(t, "absent", "nbstart")
  BY <1>21, PlainStep DEF OpensNext, StartPcs, LaunchPcs, PollPcs, StopPcs
<1> QED
  BY <1>1, <1>2, <1>3, <1>4, <1>5, <1>6, <1>7, <1>8, <1>9, <1>10, <1>11, <1>12, <1>13, <1>14, <1>15, <1>16, <1>17, <1>18, <1>19, <1>20, <1>21 DEF StartStep

LEMMA PollStepInv1 ==
  ASSUME Inv1, NEW t \in Tasks, PollStep(t)
  PROVE  Inv1'
<1>1. CASE PollUntracked(t)
  BY <1>1, PlainStep DEF PollUntracked, Ends, StartPcs, LaunchPcs, PollPcs, StopPcs
<1>2. CASE PollSeesDown(t)
  BY <1>2, PlainStep DEF PollSeesDown, Ends, StartPcs, LaunchPcs, PollPcs, StopPcs
<1>3. CASE PollFindsHealthy(t)
  BY <1>3, PlainStep DEF PollFindsHealthy, Ends, StartPcs, LaunchPcs, PollPcs, StopPcs
<1>4. CASE PollFindsNotebook(t)
  BY <1>4, PlainStep DEF PollFindsNotebook, Ends, StartPcs, LaunchPcs, PollPcs, StopPcs
<1>5. CASE PollMissesNotebook(t)
  BY <1>5, PlainStep DEF PollMissesNotebook, Ends, StartPcs, LaunchPcs, PollPcs, StopPcs
<1>6. ASSUME NEW p \in {"pollhealth", "pollcheck"}, PollSeesRunning(t, p)
      PROVE  Inv1'
  BY <1>6, PlainStep DEF PollSeesRunning, StartPcs, LaunchPcs, PollPcs, StopPcs
<1>7. CASE PollFindsHung(t)
  <2>1. CloudTypeOK' /\ DbTypeOK' /\ FabricTypeOK'
    BY <1>7, Inv1Parts, CloudType, FabricType DEF PollFindsHung, DbTypeOK, TaskInv
  <2>2. who[t] \in Users
    BY <1>7 DEF PollFindsHung, Inv1, TypeOK, TaskTypeOK, Slots
  <2>3. TaskInv'
    BY <1>7, <2>2, Inv1Parts, CloudAssumption
    DEF PollFindsHung, TaskInv, TaskTypeOK, HubTypeOK, Slots, DbTypeOK, Begin,
        hubVars, StartPcs, LaunchPcs, PollPcs, StopPcs
  <2> QED
    BY <2>1, <2>3, Inv1Parts
<1>8. CASE PollFindsNone(t)
  BY <1>8, PlainStep DEF PollFindsNone, Ends, StartPcs, LaunchPcs, PollPcs, StopPcs
<1>9. CASE OpensNext(t, "pollhealthy", "pollcheck")
  BY <1>9, PlainStep DEF OpensNext, StartPcs, LaunchPcs, PollPcs, StopPcs
<1> QED
  BY <1>1, <1>2, <1>3, <1>4, <1>5, <1>6, <1>7, <1>8, <1>9 DEF PollStep

LEMMA StopStepInv1 ==
  ASSUME Inv1, NEW t \in Tasks, StopStep(t)
  PROVE  Inv1'
<1>1. CASE StopUntracked(t)
  BY <1>1, PlainStep DEF StopUntracked, Ends, StartPcs, LaunchPcs, PollPcs, StopPcs
<1>2. CASE LoadRaises(t)
  BY <1>2, PlainStep DEF LoadRaises, Ends, StartPcs, LaunchPcs, PollPcs, StopPcs
<1>3. CASE StopSetsOff(t)
  <2>1. CloudTypeOK' /\ DbTypeOK' /\ FabricTypeOK'
    BY <1>3, Inv1Parts, CloudType
    DEF StopSetsOff, DbTypeOK, FabricTypeOK, fabricVars
  <2>2. TaskInv'
    BY <1>3, Inv1Parts
    DEF StopSetsOff, TaskInv, TaskTypeOK, HubTypeOK, HubStates, Slots, Goto,
        Awaited, hubVars, StartPcs, LaunchPcs, PollPcs, StopPcs
  <2> QED
    BY <2>1, <2>2, Inv1Parts
<1>4. CASE StopReaches(t) \/ StopGivesUp(t)
  <2>1. inst[t] \in Instances \union {NoInst}
    BY Inv1Parts DEF TaskInv, TaskTypeOK
  <2>2. CloudTypeOK'
    BY <1>4, <2>1, Inv1Parts, CloudType DEF StopReaches, StopGivesUp
  <2>3. DbTypeOK' /\ FabricTypeOK'
    BY <1>4, Inv1Parts
    DEF StopReaches, StopGivesUp, DbTypeOK, FabricTypeOK, fabricVars
  <2>4. TaskInv'
    BY <1>4, Inv1Parts
    DEF StopReaches, StopGivesUp, Free, TaskInv, TaskTypeOK, HubTypeOK, Slots,
        hubVars
  <2> QED
    BY <2>2, <2>3, <2>4, Inv1Parts
<1> QED
  BY <1>1, <1>2, <1>3, <1>4, StopCases DEF StopStep

(* Inv1 is inductive. *)
LEMMA StepInv1 ==
  ASSUME Inv1, [Next]_vars
  PROVE  Inv1'
<1>1. ASSUME NEW u \in Users, NEW t \in Tasks, HubStep(u, t)
      PROVE  Inv1'
  BY <1>1, HubStepInv1
<1>2. CASE HubRestarts
  BY <1>2, CloudType, CloudAssumption
  DEF HubRestarts, Restarted, Inv1, TypeOK, Slots, TaskTypeOK, FabricTypeOK, HubTypeOK,
      HubStates, LaunchPcs
<1>3. ASSUME NEW t \in Tasks, TaskStep(t)
      PROVE  Inv1'
  BY <1>3, StartStepInv1, PollStepInv1, StopStepInv1 DEF TaskStep
<1>4. CASE (\E i \in Instances : CloudStep(i))
           /\ UNCHANGED <<db, taskVars, fabricVars, hubVars>>
  BY <1>4, CloudType, Inv1Parts
  DEF DbTypeOK, FabricTypeOK, TaskInv, TaskTypeOK, HubTypeOK, Slots, taskVars,
      fabricVars, hubVars
<1>5. CASE UNCHANGED vars
  BY <1>5, CloudType, Inv1Parts
  DEF vars, DbTypeOK, FabricTypeOK, TaskInv, TaskTypeOK, HubTypeOK, Slots,
      taskVars, fabricVars, hubVars
<1> QED
  BY <1>1, <1>2, <1>3, <1>4, <1>5 DEF Next

(* The variables keep their types whatever order answers, logins, stops    *)
(* and crashes come in, and a slot is in use exactly when it has a user.   *)
THEOREM TypeCorrect == Spec => [](TypeOK /\ Slots)
<1>1. Init => Inv1
  BY CloudAssumption
  DEF Init, CloudInit, Inv1, TypeOK, CloudTypeOK, InstanceStates, Slots,
      TaskTypeOK, FabricTypeOK, HubTypeOK, HubStates, LaunchPcs
<1>2. Inv1 /\ [Next]_vars => Inv1'
  BY StepInv1
<1> QED
  BY <1>1, <1>2, PTL DEF Spec, Inv1

---------------------------------------------------------------------------
(* Machines and rows.  Only three actions give out a machine or write a    *)
(* row; every other step leaves both alone, and leaves in the hand of each *)
(* coroutine the machine it had, none, or the one its user's row names.    *)

KeepsMachine(t) ==
  \/ /\ who'[t] = who[t] /\ inst'[t] = inst[t]
     /\ pc'[t] \in LaunchPcs <=> pc[t] \in LaunchPcs
  \/ pc'[t] = "free" /\ inst'[t] = NoInst
  \/ who'[t] \in Users /\ inst'[t] = db[who'[t]] /\ pc'[t] # "record"

Quiet ==
  /\ UNCHANGED <<owner, db>>
  /\ \A i \in Instances : /\ ec2'[i] = "none" <=> ec2[i] = "none"
                          /\ Live(i)' => Live(i)
  /\ \A t \in Tasks : KeepsMachine(t)

(* No call but run_instances makes a machine, brings one back or changes   *)
(* whose it is.                                                            *)
LEMMA QuietCloud ==
  ASSUME CloudTypeOK,
         \/ UNCHANGED cloudVars
         \/ \E i \in Instances \union {NoInst} : StartInstance(i) \/ StopInstance(i)
         \/ \E i \in Instances \union {NoInst}, u \in Users : LaunchNotebook(i, u)
         \/ \E i \in Instances : CloudStep(i)
  PROVE  /\ UNCHANGED owner
         /\ \A i \in Instances : /\ ec2'[i] = "none" <=> ec2[i] = "none"
                                 /\ Live(i)' => Live(i)
BY DEF CloudTypeOK, cloudVars, StartInstance, StopInstance, StopAccepted,
       StartAccepted, LaunchNotebook, CloudStep, Boots, Halts, Fades, Hangs,
       NotebookExits, IsTerminated, TerminateInstance, Live

(* A coroutine that ends, goes on or begins keeps the machines apart.      *)
LEMMA EndsKeep ==
  ASSUME Inv1, NEW t \in Tasks, pc[t] # "free", Ends(t)
  PROVE  \A s \in Tasks : KeepsMachine(s)
<1> USE DEF Inv1, TypeOK, TaskTypeOK, Slots, KeepsMachine, LaunchPcs
<1>1. who[t] \in Users
  OBVIOUS
<1>2. CASE Free(t)
  BY <1>2 DEF Free
<1>3. ASSUME NEW p \in {"pollload", "stopload"}, Begin(t, who[t], p)
      PROVE  \A s \in Tasks : KeepsMachine(s)
  BY <1>1, <1>3 DEF Begin
<1> QED
  BY <1>2, <1>3
  DEF Ends, StartFails, PollEnds, CallRaises, EndsUnheard, HubTakes, HubGoesOn

LEMMA GotoKeeps ==
  ASSUME Inv1, NEW t \in Tasks, pc[t] \notin LaunchPcs,
         NEW p \in (StartPcs \union PollPcs \union StopPcs) \ LaunchPcs,
         Goto(t, p)
  PROVE  \A s \in Tasks : KeepsMachine(s)
BY DEF Inv1, TypeOK, TaskTypeOK, KeepsMachine, Goto

LEMMA BeginKeeps ==
  ASSUME Inv1, NEW t \in Tasks, NEW u \in Users, NEW p, p # "record",
         Begin(t, u, p)
  PROVE  \A s \in Tasks : KeepsMachine(s)
BY DEF Inv1, TypeOK, TaskTypeOK, KeepsMachine, Begin

(* A step that writes no row and launches nothing is quiet.                *)
LEMMA QuietStep ==
  ASSUME Inv1, NEW t \in Tasks, UNCHANGED db,
         \/ UNCHANGED cloudVars
         \/ \E i \in Instances \union {NoInst} : StartInstance(i) \/ StopInstance(i)
         \/ \E i \in Instances \union {NoInst}, u \in Users : LaunchNotebook(i, u),
         \/ /\ pc[t] \notin LaunchPcs
            /\ \E p \in (StartPcs \union PollPcs \union StopPcs) \ LaunchPcs : Goto(t, p)
         \/ pc[t] # "free" /\ Ends(t)
  PROVE  Quiet
<1>1. /\ UNCHANGED owner
      /\ \A i \in Instances : /\ ec2'[i] = "none" <=> ec2[i] = "none"
                              /\ Live(i)' => Live(i)
  BY QuietCloud DEF Inv1, TypeOK
<1>2. \A s \in Tasks : KeepsMachine(s)
  BY GotoKeeps, EndsKeep
<1> QED
  BY <1>1, <1>2 DEF Quiet

(* The three actions that are not quiet. *)
Loud(t) ==
  \/ \E i \in Instances : LaunchAnswered(t, i) \/ LaunchLost(t, i)
  \/ Record(t)

LEMMA StartStepQuiet ==
  ASSUME Inv1, NEW t \in Tasks, StartStep(t), ~Loud(t)
  PROVE  Quiet
<1> USE DEF Loud
<1>1. CASE LaunchFails(t)
  BY <1>1, QuietStep DEF LaunchFails, Ends, StartPcs, LaunchPcs, PollPcs, StopPcs
<1>2. CASE RecordClashes(t)
  BY <1>2, QuietStep DEF RecordClashes, Ends, StartPcs, LaunchPcs, PollPcs, StopPcs
<1>3. CASE StartSeesRunning(t)
  BY <1>3, QuietStep DEF StartSeesRunning, Ends, StartPcs, LaunchPcs, PollPcs, StopPcs
<1>4. CASE StartSeesDown(t)
  BY <1>4, QuietStep DEF StartSeesDown, Ends, StartPcs, LaunchPcs, PollPcs, StopPcs
<1>5. CASE StartRefuses(t)
  BY <1>5, QuietStep DEF StartRefuses, Ends, StartPcs, LaunchPcs, PollPcs, StopPcs
<1>6. CASE StartFindsHealthy(t)
  BY <1>6, QuietStep DEF StartFindsHealthy, Ends, StartPcs, LaunchPcs, PollPcs, StopPcs
<1>7. CASE StartFindsHung(t)
  BY <1>7, QuietStep DEF StartFindsHung, Ends, StartPcs, LaunchPcs, PollPcs, StopPcs
<1>8. CASE BootGivesUp(t)
  BY <1>8, QuietStep DEF BootGivesUp, Ends, StartPcs, LaunchPcs, PollPcs, StopPcs
<1>9. CASE AwaitEnds(t)
  BY <1>9, QuietStep DEF AwaitEnds, Ends, StartPcs, LaunchPcs, PollPcs, StopPcs
<1>10. CASE SshAnswers(t)
  BY <1>10, QuietStep DEF SshAnswers, Ends, StartPcs, LaunchPcs, PollPcs, StopPcs
<1>11. CASE SshGivesUp(t)
  BY <1>11, QuietStep DEF SshGivesUp, Ends, StartPcs, LaunchPcs, PollPcs, StopPcs
<1>12. CASE StartFindsNotebook(t)
  BY <1>12, QuietStep DEF StartFindsNotebook, Ends, StartPcs, LaunchPcs, PollPcs, StopPcs
<1>13. CASE StartMissesNotebook(t)
  BY <1>13, QuietStep DEF StartMissesNotebook, Ends, StartPcs, LaunchPcs, PollPcs, StopPcs
<1>14. CASE NotebookStartLost(t)
  BY <1>14, QuietStep DEF NotebookStartLost, Ends, StartPcs, LaunchPcs, PollPcs, StopPcs
<1>15. CASE ConfirmEnds(t)
  BY <1>15, QuietStep DEF ConfirmEnds, Ends, StartPcs, LaunchPcs, PollPcs, StopPcs
<1>16. CASE StartReturns(t)
  BY <1>16, QuietStep DEF StartReturns, Ends, StartPcs, LaunchPcs, PollPcs, StopPcs
<1>17. CASE BootAccepted(t) \/ NotebookStarts(t)
  <2>1. inst[t] \in Instances \union {NoInst} /\ env \in Instances \union {NoInst}
    BY DEF Inv1, TypeOK, TaskTypeOK, FabricTypeOK
  <2>2. who[t] \in Users
    BY <1>17 DEF BootAccepted, NotebookStarts, Inv1, TypeOK, TaskTypeOK, Slots
  <2> QED
    BY <1>17, <2>1, <2>2, QuietStep
    DEF BootAccepted, NotebookStarts, Hosts, StartPcs, LaunchPcs
<1>18. CASE StartFindsNone(t)
  BY <1>18, QuietStep DEF StartFindsNone, StartPcs, LaunchPcs, PollPcs, StopPcs
<1>19. CASE \/ OpensNext(t, "healthy", "ssh") \/ OpensNext(t, "reached", "check")
            \/ OpensNext(t, "absent", "nbstart")
  BY <1>19, QuietStep DEF OpensNext, StartPcs, LaunchPcs, PollPcs, StopPcs
<1> QED
  BY <1>1, <1>2, <1>3, <1>4, <1>5, <1>6, <1>7, <1>8, <1>9, <1>10, <1>11, <1>12, <1>13, <1>14, <1>15, <1>16, <1>17, <1>18, <1>19 DEF StartStep

LEMMA PollStepQuiet ==
  ASSUME Inv1, NEW t \in Tasks, PollStep(t)
  PROVE  Quiet
<1>1. CASE PollUntracked(t)
  BY <1>1, QuietStep DEF PollUntracked, Ends, StartPcs, LaunchPcs, PollPcs, StopPcs
<1>2. CASE PollSeesDown(t)
  BY <1>2, QuietStep DEF PollSeesDown, Ends, StartPcs, LaunchPcs, PollPcs, StopPcs
<1>3. CASE PollFindsHealthy(t)
  BY <1>3, QuietStep DEF PollFindsHealthy, Ends, StartPcs, LaunchPcs, PollPcs, StopPcs
<1>4. CASE PollFindsNotebook(t)
  BY <1>4, QuietStep DEF PollFindsNotebook, Ends, StartPcs, LaunchPcs, PollPcs, StopPcs
<1>5. CASE PollMissesNotebook(t)
  BY <1>5, QuietStep DEF PollMissesNotebook, Ends, StartPcs, LaunchPcs, PollPcs, StopPcs
<1>6. ASSUME NEW p \in {"pollhealth", "pollcheck"}, PollSeesRunning(t, p)
      PROVE  Quiet
  BY <1>6, QuietStep DEF PollSeesRunning, StartPcs, LaunchPcs, PollPcs, StopPcs
<1>7. CASE PollFindsHung(t)
  <2>1. who[t] \in Users
    BY <1>7 DEF PollFindsHung, Inv1, TypeOK, TaskTypeOK, Slots
  <2>2. \A s \in Tasks : KeepsMachine(s)
    BY <1>7, <2>1, BeginKeeps DEF PollFindsHung
  <2> QED
    BY <1>7, <2>2 DEF PollFindsHung, Quiet, cloudVars, Live
<1>8. CASE PollFindsNone(t)
  BY <1>8, QuietStep DEF PollFindsNone, Ends, StartPcs, LaunchPcs, PollPcs, StopPcs
<1>9. CASE OpensNext(t, "pollhealthy", "pollcheck")
  BY <1>9, QuietStep DEF OpensNext, StartPcs, LaunchPcs, PollPcs, StopPcs
<1> QED
  BY <1>1, <1>2, <1>3, <1>4, <1>5, <1>6, <1>7, <1>8, <1>9 DEF PollStep

LEMMA StopStepQuiet ==
  ASSUME Inv1, NEW t \in Tasks, StopStep(t)
  PROVE  Quiet
<1>1. CASE StopUntracked(t)
  BY <1>1, QuietStep DEF StopUntracked, Ends, StartPcs, LaunchPcs, PollPcs, StopPcs
<1>2. CASE LoadRaises(t)
  BY <1>2, QuietStep DEF LoadRaises, Ends, StartPcs, LaunchPcs, PollPcs, StopPcs
<1>3. CASE StopSetsOff(t)
  BY <1>3, QuietStep DEF StopSetsOff, Ends, StartPcs, LaunchPcs, PollPcs, StopPcs
<1>4. CASE StopReaches(t) \/ StopGivesUp(t)
  <2>1. inst[t] \in Instances \union {NoInst}
    BY DEF Inv1, TypeOK, TaskTypeOK
  <2>2. /\ UNCHANGED owner
        /\ \A i \in Instances : /\ ec2'[i] = "none" <=> ec2[i] = "none"
                                /\ Live(i)' => Live(i)
    BY <1>4, <2>1, QuietCloud DEF StopReaches, StopGivesUp, Inv1, TypeOK
  <2>3. \A s \in Tasks : KeepsMachine(s)
    BY <1>4 DEF StopReaches, StopGivesUp, Free, KeepsMachine, Inv1, TypeOK,
                TaskTypeOK
  <2> QED
    BY <1>4, <2>2, <2>3 DEF StopReaches, StopGivesUp, Quiet
<1> QED
  BY <1>1, <1>2, <1>3, <1>4, StopCases DEF StopStep

LEMMA StepKinds ==
  ASSUME Inv1, [Next]_vars
  PROVE  Quiet \/ \E t \in Tasks : Loud(t)
<1>1. ASSUME NEW u \in Users, NEW t \in Tasks, HubStep(u, t)
      PROVE  Quiet
  <2>1. UNCHANGED <<cloudVars, db>> /\ \E p : p # "record" /\ Begin(t, u, p)
    BY <1>1 DEF HubStep, HubSpawns, HubAbandons, HubPolls, HubStops
  <2> QED
    BY <2>1, BeginKeeps DEF Quiet, cloudVars, Live
<1>2. CASE HubRestarts
  BY <1>2 DEF HubRestarts, Restarted, Quiet, KeepsMachine, cloudVars, Live
<1>3. ASSUME NEW t \in Tasks, TaskStep(t)
      PROVE  Quiet \/ Loud(t)
  BY <1>3, StartStepQuiet, PollStepQuiet, StopStepQuiet DEF TaskStep
<1>4. CASE (\E i \in Instances : CloudStep(i))
           /\ UNCHANGED <<db, taskVars, fabricVars, hubVars>>
  BY <1>4, QuietCloud DEF Quiet, KeepsMachine, taskVars, Inv1, TypeOK
<1>5. CASE UNCHANGED vars
  BY <1>5 DEF vars, cloudVars, taskVars, Quiet, KeepsMachine, Live
<1> QED
  BY <1>1, <1>2, <1>3, <1>4, <1>5 DEF Next

(* A fresh machine is nobody's, so launching it cannot take one away, and  *)
(* the row that is written names the machine launched for its user.        *)
LEMMA StepOwnMachine ==
  ASSUME Inv1, OwnMachine, [Next]_vars
  PROVE  OwnMachine'
<1> USE CloudAssumption
    DEF OwnMachine, Inv1, TypeOK, TaskTypeOK, CloudTypeOK, Slots
<1>1. CASE Quiet
  BY <1>1, StepInv1 DEF Quiet, KeepsMachine
<1>2. ASSUME NEW t \in Tasks, NEW i \in Instances,
             LaunchAnswered(t, i) \/ LaunchLost(t, i)
      PROVE  OwnMachine'
  <2>1. /\ who[t] \in Users
        /\ owner[i] = NoUser
        /\ owner' = [owner EXCEPT ![i] = who[t]]
        /\ ec2' = [ec2 EXCEPT ![i] = "pending"]
        /\ UNCHANGED <<db, who>>
    BY <1>2 DEF LaunchAnswered, LaunchLost, RunInstance, taskVars
  <2>2. inst' = inst \/ inst' = [inst EXCEPT ![t] = i]
    BY <1>2 DEF LaunchAnswered, LaunchLost, taskVars
  <2> QED
    BY <2>1, <2>2
<1>3. ASSUME NEW t \in Tasks, Record(t)
      PROVE  OwnMachine'
  <2>1. who[t] \in Users
    BY <1>3 DEF Record
  <2> QED
    BY <1>3, <2>1 DEF Record, Goto, cloudVars
<1> QED
  BY <1>1, <1>2, <1>3, StepKinds DEF Loud

(* Inv2 is inductive: a row is written before anything else reads it, and  *)
(* never again.                                                            *)
Inv2 == Inv1 /\ OwnMachine /\ SnapshotFresh

LEMMA StepInv2 ==
  ASSUME Inv2, [Next]_vars
  PROVE  Inv2'
<1> USE CloudAssumption
    DEF Inv2, Inv1, TypeOK, TaskTypeOK, CloudTypeOK, Slots
<1>1. Inv1' /\ OwnMachine'
  BY StepInv1, StepOwnMachine
<1>2. CASE Quiet
  BY <1>1, <1>2 DEF Quiet, KeepsMachine, SnapshotFresh
<1>3. ASSUME NEW t \in Tasks, NEW i \in Instances,
             LaunchAnswered(t, i) \/ LaunchLost(t, i)
      PROVE  SnapshotFresh'
  BY <1>3
  DEF SnapshotFresh, LaunchAnswered, LaunchLost, LaunchPcs, taskVars
<1>4. ASSUME NEW t \in Tasks, Record(t)
      PROVE  SnapshotFresh'
  <2>1. who[t] \in Users
    BY <1>4 DEF Record
  <2> QED
    BY <1>4, <2>1 DEF SnapshotFresh, LaunchPcs, Record, Goto
<1> QED
  BY <1>1, <1>2, <1>3, <1>4, StepKinds DEF Loud

LEMMA InitInv2 == Init => Inv2
BY CloudAssumption
DEF Init, CloudInit, Inv1, Inv2, TypeOK, CloudTypeOK, InstanceStates, Slots,
    TaskTypeOK, FabricTypeOK, HubTypeOK, HubStates, LaunchPcs, OwnMachine,
    SnapshotFresh

(* Nobody is ever given, or works on, a machine launched for somebody      *)
(* else: whatever coroutines interleave, are abandoned or lost in a crash. *)
THEOREM MachinesStayWithUsers == Spec => []OwnMachine
<1>1. Inv2 /\ [Next]_vars => Inv2'
  BY StepInv2
<1> QED
  BY <1>1, InitInv2, PTL DEF Spec, Inv2

(* The row a coroutine read before its first yield is still the row of its *)
(* user after its last one.                                                *)
THEOREM SnapshotsStayFresh == Spec => []SnapshotFresh
<1>1. Inv2 /\ [Next]_vars => Inv2'
  BY StepInv2
<1> QED
  BY <1>1, InitInv2, PTL DEF Spec, Inv2

(* Each step of the spawner is a step of Tenancy or leaves the table and   *)
(* the owners alone.                                                       *)
LEMMA StepTenancy ==
  ASSUME Inv1, OwnMachine, [Next]_vars
  PROVE  [T!Next]_<<owner, db>>
<1>1. CASE Quiet
  BY <1>1 DEF Quiet
<1>2. ASSUME NEW t \in Tasks, NEW i \in Instances,
             LaunchAnswered(t, i) \/ LaunchLost(t, i)
      PROVE  T!Next
  <2>1. who[t] \in Users
    BY <1>2, CloudAssumption
    DEF LaunchAnswered, LaunchLost, Inv1, TypeOK, TaskTypeOK, Slots
  <2>2. T!Launch(i, who[t])
    BY <1>2 DEF LaunchAnswered, LaunchLost, RunInstance, T!Launch, OwnMachine
  <2> QED
    BY <2>1, <2>2 DEF T!Next
<1>3. ASSUME NEW t \in Tasks, Record(t)
      PROVE  T!Next
  <2>1. who[t] \in Users /\ inst[t] \in Instances /\ owner[inst[t]] = who[t]
    BY <1>3, CloudAssumption
    DEF Record, Inv1, TypeOK, TaskTypeOK, Slots, OwnMachine
  <2>2. T!Bind(inst[t], who[t])
    BY <1>3, <2>1 DEF Record, T!Bind, cloudVars
  <2> QED
    BY <2>1, <2>2 DEF T!Next
<1> QED
  BY <1>1, <1>2, <1>3, StepKinds DEF Loud

(* The table of servers implements Tenancy: a row is written once, for a   *)
(* machine launched for its user.                                          *)
THEOREM ImplementsTenancy == Spec => Tenancy
<1>1. Init => T!Init
  BY DEF Init, CloudInit, T!Init
<1>2. Inv2 /\ [Next]_vars => [T!Next]_<<owner, db>>
  BY StepTenancy DEF Inv2
<1>3. Inv2 /\ [Next]_vars => Inv2'
  BY StepInv2
<1> QED
  BY <1>1, <1>2, <1>3, InitInv2, PTL DEF Spec, Tenancy, T!Spec

---------------------------------------------------------------------------
(* The hub and the coroutines agree *)

Inv3 == Inv1 /\ HubAgrees

(* Coroutine t goes on inside the method it is in. *)
Advances(t, p) ==
  /\ pc' = [pc EXCEPT ![t] = p]
  /\ UNCHANGED <<who, hubVars>>
  /\ \/ pc[t] \in StartPcs /\ p \in StartPcs
     \/ pc[t] \in PollPcs /\ p \in PollPcs

LEMMA AdvanceAgrees ==
  ASSUME Inv3, NEW t \in Tasks, NEW p, Advances(t, p)
  PROVE  HubAgrees'
<1> USE TaskAssumption
    DEF Inv3, Inv1, TypeOK, TaskTypeOK, HubTypeOK, HubStates, HubAgrees,
        AwaitedPcs, Advances, hubVars
<1> SUFFICES ASSUME NEW u \in Users
             PROVE  /\ call'[u] = NoTask <=> hub'[u] \in {"out", "up"}
                    /\ call'[u] # NoTask => /\ who'[call'[u]] = u
                                            /\ pc'[call'[u]] \in AwaitedPcs[hub'[u]]
  OBVIOUS
<1>1. CASE call[u] # t
  BY <1>1
<1>2. CASE call[u] = t
  BY <1>2 DEF StartPcs, LaunchPcs, PollPcs
<1> QED
  BY <1>1, <1>2

(* When a coroutine ends the hub, if it waits for it, takes note. *)
LEMMA EndsAgree ==
  ASSUME Inv3, NEW t \in Tasks, pc[t] # "free",
         Ends(t) \/ (pc[t] = "send" /\ Free(t) /\ UNCHANGED hubVars)
  PROVE  HubAgrees'
<1> USE TaskAssumption, CloudAssumption
    DEF Inv3, Inv1, TypeOK, TaskTypeOK, HubTypeOK, HubStates, HubAgrees,
        AwaitedPcs, Slots, Free, Begin, Awaited, hubVars
<1>1. who[t] \in Users /\ \A u \in Users : call[u] = t => u = who[t]
  OBVIOUS
<1>2. ASSUME ~Awaited(t), Free(t), UNCHANGED hubVars
      PROVE  HubAgrees'
  BY <1>1, <1>2
<1>3. ASSUME NEW h \in {"up", "out"}, HubTakes(t, h)
      PROVE  HubAgrees'
  BY <1>1, <1>3 DEF HubTakes
<1>4. CASE HubGoesOn(t, "quitting", "pollload")
  BY <1>1, <1>4 DEF HubGoesOn, PollPcs
<1>5. CASE HubGoesOn(t, "stopping", "stopload")
  BY <1>1, <1>5 DEF HubGoesOn
<1>6. CASE Ends(t)
  BY <1>2, <1>3, <1>4, <1>5, <1>6
  DEF Ends, StartFails, PollEnds, CallRaises, EndsUnheard
<1>7. CASE pc[t] = "send" /\ Free(t) /\ UNCHANGED hubVars
  <2>1. ~Awaited(t)
    BY <1>1, <1>7 DEF StartPcs, LaunchPcs, PollPcs
  <2> QED
    BY <1>2, <1>7, <2>1
<1> QED
  BY <1>6, <1>7

(* What a step of a coroutine means to the hub: the coroutine goes on, it  *)
(* ends, a stop that nobody waits for is over, or stop() sets one off.     *)
Moves(t) ==
  \/ \E p : Advances(t, p)
  \/ pc[t] # "free" /\ Ends(t)
  \/ pc[t] = "send" /\ Free(t) /\ UNCHANGED hubVars
  \/ StopSetsOff(t)
  \/ UNCHANGED <<taskVars, hubVars>>

LEMMA StartStepMoves ==
  ASSUME Inv1, NEW t \in Tasks, StartStep(t)
  PROVE  Moves(t)
<1> USE DEF Moves
<1>1. CASE LaunchFails(t)
  BY <1>1 DEF LaunchFails, Ends
<1>2. CASE RecordClashes(t)
  BY <1>2 DEF RecordClashes, Ends
<1>3. CASE StartSeesRunning(t)
  BY <1>3 DEF StartSeesRunning, Goto, Advances, StartPcs, LaunchPcs, PollPcs
<1>4. CASE StartSeesDown(t)
  BY <1>4 DEF StartSeesDown, Goto, Advances, StartPcs, LaunchPcs, PollPcs
<1>5. CASE StartRefuses(t)
  BY <1>5 DEF StartRefuses, Ends
<1>6. CASE StartFindsHealthy(t)
  BY <1>6 DEF StartFindsHealthy, Goto, Advances, StartPcs, LaunchPcs, PollPcs
<1>7. CASE StartFindsHung(t)
  BY <1>7 DEF StartFindsHung, Ends
<1>8. CASE BootAccepted(t)
  BY <1>8 DEF BootAccepted, Goto, Advances, StartPcs, LaunchPcs, PollPcs
<1>9. CASE BootGivesUp(t)
  BY <1>9 DEF BootGivesUp, Goto, Advances, StartPcs, LaunchPcs, PollPcs
<1>10. CASE AwaitEnds(t)
  BY <1>10 DEF AwaitEnds, Goto, Advances, StartPcs, LaunchPcs, PollPcs
<1>11. CASE SshAnswers(t)
  BY <1>11 DEF SshAnswers, Goto, Advances, StartPcs, LaunchPcs, PollPcs
<1>12. CASE SshGivesUp(t)
  BY <1>12 DEF SshGivesUp, Goto, Advances, StartPcs, LaunchPcs, PollPcs
<1>13. CASE StartFindsNotebook(t)
  BY <1>13 DEF StartFindsNotebook, Goto, Advances, StartPcs, LaunchPcs, PollPcs
<1>14. CASE StartMissesNotebook(t)
  BY <1>14 DEF StartMissesNotebook, Goto, Advances, StartPcs, LaunchPcs, PollPcs
<1>15. CASE NotebookStarts(t)
  BY <1>15 DEF NotebookStarts, Goto, Advances, StartPcs, LaunchPcs, PollPcs
<1>16. CASE NotebookStartLost(t)
  BY <1>16 DEF NotebookStartLost, Goto, Advances, StartPcs, LaunchPcs, PollPcs
<1>17. CASE ConfirmEnds(t)
  BY <1>17 DEF ConfirmEnds, Goto, Advances, StartPcs, LaunchPcs, PollPcs
<1>18. CASE StartReturns(t)
  BY <1>18 DEF StartReturns, Ends
<1>19. CASE Record(t)
  BY <1>19 DEF Record, Goto, Advances, StartPcs, LaunchPcs, PollPcs
<1>20. ASSUME NEW i \in Instances, LaunchAnswered(t, i) \/ LaunchLost(t, i)
      PROVE  Moves(t)
  BY <1>20 DEF LaunchAnswered, LaunchLost, Advances, StartPcs, LaunchPcs
<1>21. CASE StartFindsNone(t)
  BY <1>21 DEF StartFindsNone, Goto, Advances, StartPcs, LaunchPcs, PollPcs
<1>22. CASE \/ OpensNext(t, "healthy", "ssh") \/ OpensNext(t, "reached", "check")
            \/ OpensNext(t, "absent", "nbstart")
  BY <1>22 DEF OpensNext, Goto, Advances, StartPcs, LaunchPcs, PollPcs
<1> QED
  BY <1>1, <1>2, <1>3, <1>4, <1>5, <1>6, <1>7, <1>8, <1>9, <1>10, <1>11, <1>12, <1>13, <1>14, <1>15, <1>16, <1>17, <1>18, <1>19, <1>20, <1>21, <1>22 DEF StartStep

LEMMA PollStepMoves ==
  ASSUME Inv1, NEW t \in Tasks, PollStep(t)
  PROVE  Moves(t)
<1> USE DEF Moves
<1>1. CASE PollUntracked(t)
  BY <1>1 DEF PollUntracked, Ends
<1>2. CASE PollSeesDown(t)
  BY <1>2 DEF PollSeesDown, Ends
<1>3. CASE PollFindsHealthy(t)
  BY <1>3 DEF PollFindsHealthy, Goto, Advances, StartPcs, LaunchPcs, PollPcs
<1>4. CASE PollFindsNotebook(t)
  BY <1>4 DEF PollFindsNotebook, Ends
<1>5. CASE PollMissesNotebook(t)
  BY <1>5 DEF PollMissesNotebook, Goto, Advances, StartPcs, LaunchPcs, PollPcs
<1>6. ASSUME NEW p \in {"pollhealth", "pollcheck"}, PollSeesRunning(t, p)
      PROVE  Moves(t)
  BY <1>6 DEF PollSeesRunning, Goto, Advances, PollPcs
<1>7. CASE PollFindsHung(t)
  BY <1>7
  DEF PollFindsHung, Begin, Advances, PollPcs, Inv1, TypeOK, TaskTypeOK
<1>8. CASE PollFindsNone(t)
  BY <1>8 DEF PollFindsNone, Ends
<1>9. CASE OpensNext(t, "pollhealthy", "pollcheck")
  BY <1>9 DEF OpensNext, Goto, Advances, StartPcs, LaunchPcs, PollPcs
<1> QED
  BY <1>1, <1>2, <1>3, <1>4, <1>5, <1>6, <1>7, <1>8, <1>9 DEF PollStep

LEMMA StopStepMoves ==
  ASSUME Inv1, NEW t \in Tasks, StopStep(t)
  PROVE  Moves(t)
BY StopCases
DEF StopStep, StopUntracked, LoadRaises, StopReaches, StopGivesUp, Moves, Ends

LEMMA TaskMoves ==
  ASSUME Inv1, NEW t \in Tasks, TaskStep(t)
  PROVE  Moves(t)
BY StartStepMoves, PollStepMoves, StopStepMoves DEF TaskStep

LEMMA MovesAgree ==
  ASSUME Inv3, NEW t \in Tasks, Moves(t)
  PROVE  HubAgrees'
<1>1. CASE StopSetsOff(t)
  <2> USE TaskAssumption, CloudAssumption
      DEF Inv3, Inv1, TypeOK, TaskTypeOK, HubTypeOK, HubStates, HubAgrees,
          AwaitedPcs, Slots, Awaited, Goto, StopSetsOff, hubVars
  <2>1. who[t] \in Users /\ \A u \in Users : call[u] = t => u = who[t]
    BY <1>1
  <2>2. CASE Awaited(t)
    BY <1>1, <2>1, <2>2
  <2>3. CASE ~Awaited(t)
    BY <1>1, <2>1, <2>3
  <2> QED
    BY <2>2, <2>3
<1>2. CASE UNCHANGED <<taskVars, hubVars>>
  BY <1>2 DEF Inv3, HubAgrees, taskVars, hubVars
<1> QED
  BY <1>1, <1>2, AdvanceAgrees, EndsAgree DEF Moves

LEMMA HubStepAgrees ==
  ASSUME Inv3, NEW u \in Users, NEW t \in Tasks, HubStep(u, t)
  PROVE  HubAgrees'
<1> USE TaskAssumption, CloudAssumption
    DEF Inv3, Inv1, TypeOK, TaskTypeOK, HubTypeOK, HubStates, HubAgrees,
        AwaitedPcs, Slots, Begin
<1>1. pc[t] = "free" /\ \A v \in Users : call[v] # t
  BY DEF HubStep, HubSpawns, HubAbandons, HubPolls, HubStops
<1>2. CASE HubSpawns(u, t)
  BY <1>1, <1>2 DEF HubSpawns, StartPcs, LaunchPcs
<1>3. CASE HubAbandons(u, t)
  BY <1>1, <1>3 DEF HubAbandons, PollPcs
<1>4. CASE HubPolls(u, t)
  BY <1>1, <1>4 DEF HubPolls, PollPcs
<1>5. CASE HubStops(u, t)
  BY <1>1, <1>5 DEF HubStops, PollPcs
<1> QED
  BY <1>2, <1>3, <1>4, <1>5 DEF HubStep

LEMMA StepInv3 ==
  ASSUME Inv3, [Next]_vars
  PROVE  Inv3'
<1> SUFFICES HubAgrees'
  BY StepInv1 DEF Inv3
<1>1. ASSUME NEW u \in Users, NEW t \in Tasks, HubStep(u, t)
      PROVE  HubAgrees'
  BY <1>1, HubStepAgrees
<1>2. CASE HubRestarts
  BY <1>2 DEF HubRestarts, Restarted, HubAgrees, HubStates, Inv3, Inv1, TypeOK, HubTypeOK
<1>3. ASSUME NEW t \in Tasks, TaskStep(t)
      PROVE  HubAgrees'
  BY <1>3, TaskMoves, MovesAgree DEF Inv3
<1>4. CASE UNCHANGED <<taskVars, hubVars>>
  BY <1>4 DEF Inv3, HubAgrees, taskVars, hubVars
<1> QED
  BY <1>1, <1>2, <1>3, <1>4 DEF Next, vars

LEMMA InitInv3 == Init => Inv3
BY InitInv2 DEF Init, Inv2, Inv3, HubAgrees

(* The hub always waits for exactly the coroutine that serves its user,    *)
(* also when it has given up on an earlier one that is still running.      *)
THEOREM HubAlwaysAgrees == Spec => []HubAgrees
<1>1. Inv3 /\ [Next]_vars => Inv3'
  BY StepInv3
<1> QED
  BY <1>1, InitInv3, PTL DEF Spec, Inv3

---------------------------------------------------------------------------
(* One machine per user, when no start() is abandoned, lost in a crash, or *)
(* told of an error by a launch that took effect                           *)

NoMishap == Faults \intersect {"abandon", "crash", "lost"} = {}

(* The hub waits for every start(). *)
StartsAwaited == \A t \in Tasks : pc[t] \in StartPcs => Awaited(t)

(* A machine is launched only for a user without a row. *)
LaunchesFirst == \A t \in Tasks : pc[t] \in LaunchPcs => db[who[t]] = NoInst

(* Every machine ever launched is in a row, or about to be. *)
Tracked ==
  \A i \in Instances :
    owner[i] # NoUser =>
      \/ db[owner[i]] = i
      \/ \E t \in Tasks : pc[t] = "record" /\ inst[t] = i

Inv4 == Inv2 /\ HubAgrees /\ StartsAwaited /\ LaunchesFirst /\ Tracked

LEMMA StepStartsAwaited ==
  ASSUME NoMishap, Inv3, StartsAwaited, [Next]_vars
  PROVE  StartsAwaited'
<1> USE TaskAssumption, CloudAssumption
    DEF Inv3, Inv1, TypeOK, TaskTypeOK, HubTypeOK, HubStates, HubAgrees,
        AwaitedPcs, Slots, StartsAwaited, Awaited
<1>1. ASSUME NEW u \in Users, NEW t \in Tasks, HubStep(u, t)
      PROVE  StartsAwaited'
  <2>1. \A v \in Users : call[v] # t
    BY <1>1 DEF HubStep, HubSpawns, HubAbandons, HubPolls, HubStops
  <2>2. \A s \in Tasks : who[s] = u => pc[s] \notin StartPcs
    BY <1>1
    DEF HubStep, HubSpawns, HubAbandons, HubPolls, HubStops, NoMishap,
        StartPcs, LaunchPcs, PollPcs
  <2>3. call' = [call EXCEPT ![u] = t] /\ \E p : Begin(t, u, p)
    BY <1>1 DEF HubStep, HubSpawns, HubAbandons, HubPolls, HubStops
  <2> QED
    BY <2>1, <2>2, <2>3 DEF Begin
<1>2. ~HubRestarts
  BY DEF HubRestarts, NoMishap
<1>3. ASSUME NEW t \in Tasks, Moves(t)
      PROVE  StartsAwaited'
  <2>1. CASE \E p : Advances(t, p)
    BY <2>1 DEF Advances, hubVars, StartPcs, LaunchPcs, PollPcs
  <2>2. CASE pc[t] # "free" /\ Ends(t)
    <3>1. who[t] \in Users /\ pc'[t] \notin StartPcs
      BY <2>2
      DEF Ends, StartFails, PollEnds, CallRaises, EndsUnheard, HubTakes,
          HubGoesOn, Free, Begin, StartPcs, LaunchPcs
    <3>2. \A s \in Tasks \ {t} : pc'[s] = pc[s] /\ who'[s] = who[s]
      BY <2>2
      DEF Ends, StartFails, PollEnds, CallRaises, EndsUnheard, HubTakes,
          HubGoesOn, Free, Begin
    <3>3. call' = call \/ (Awaited(t) /\ call' = [call EXCEPT ![who[t]] = NoTask])
      BY <2>2
      DEF Ends, StartFails, PollEnds, CallRaises, EndsUnheard, HubTakes,
          HubGoesOn, hubVars
    <3> SUFFICES ASSUME NEW s \in Tasks, pc'[s] \in StartPcs
                 PROVE  call'[who'[s]] = s
      OBVIOUS
    <3>4. s # t /\ pc[s] \in StartPcs /\ who'[s] = who[s] /\ call[who[s]] = s
      BY <3>1, <3>2
    <3>5. who[s] \in Users
      BY <3>4 DEF StartPcs, LaunchPcs
    <3> QED
      BY <3>1, <3>3, <3>4, <3>5
  <2>3. CASE pc[t] = "send" /\ Free(t) /\ UNCHANGED hubVars
    BY <2>3 DEF Free, hubVars, StartPcs, LaunchPcs
  <2>4. CASE StopSetsOff(t)
    <3>1. who[t] \in Users
      BY <2>4 DEF StopSetsOff
    <3> QED
      BY <2>4, <3>1 DEF StopSetsOff, Goto, hubVars, StartPcs, LaunchPcs
  <2>5. CASE UNCHANGED <<taskVars, hubVars>>
    BY <2>5 DEF taskVars, hubVars
  <2> QED
    BY <1>3, <2>1, <2>2, <2>3, <2>4, <2>5 DEF Moves
<1>4. CASE UNCHANGED <<taskVars, hubVars>>
  BY <1>4 DEF taskVars, hubVars
<1> QED
  BY <1>1, <1>2, <1>3, <1>4, TaskMoves DEF Next, vars

(* A step of a coroutine leaves the others alone. *)
LEMMA OthersUntouched ==
  ASSUME Inv1, NEW t \in Tasks, TaskStep(t), NEW s \in Tasks \ {t}
  PROVE  pc'[s] = pc[s] /\ who'[s] = who[s] /\ inst'[s] = inst[s]
<1> USE DEF Inv1, TypeOK, TaskTypeOK, Goto, Free, Begin, taskVars
<1>1. CASE StartStep(t)
  <2>1. CASE Ends(t)
    BY <2>1 DEF Ends, StartFails, PollEnds, CallRaises, EndsUnheard, HubTakes,
                HubGoesOn
  <2> QED
    BY <1>1, <2>1
    DEF StartStep, LaunchAnswered, LaunchLost, LaunchFails, Record,
        RecordClashes, StartSeesRunning, StartSeesDown, StartRefuses,
        StartFindsHealthy, StartFindsHung, BootAccepted, BootGivesUp,
        AwaitEnds, SshAnswers, SshGivesUp, StartFindsNotebook,
        StartMissesNotebook, StartFindsNone, OpensNext, NotebookStarts,
        NotebookStartLost, ConfirmEnds,
        StartReturns, Ends
<1>2. CASE PollStep(t) \/ StopStep(t)
  <2>1. CASE Ends(t)
    BY <2>1 DEF Ends, StartFails, PollEnds, CallRaises, EndsUnheard, HubTakes,
                HubGoesOn
  <2> QED
    BY <1>2, <2>1, StopCases
    DEF PollStep, StopStep, PollUntracked, PollSeesRunning, PollSeesDown,
        PollFindsHealthy, PollFindsHung, PollFindsNotebook,
        PollMissesNotebook, PollFindsNone, OpensNext, StopUntracked, StopSetsOff, LoadRaises,
        StopReaches, StopGivesUp, Ends
<1> QED
  BY <1>1, <1>2 DEF TaskStep

(* A coroutine with a fresh machine in hand does nothing but record it.    *)
LEMMA FreshIsRecorded ==
  ASSUME LaunchesFirst, NEW t \in Tasks, pc[t] = "record", TaskStep(t)
  PROVE  Record(t)
<1>1. db[who[t]] = NoInst
  BY DEF LaunchesFirst, LaunchPcs
<1> QED
  BY <1>1, StopCases
  DEF TaskStep, StartStep, PollStep, StopStep, LaunchAnswered, LaunchLost,
      LaunchFails, RecordClashes, StartSeesRunning, StartSeesDown,
      StartRefuses, StartFindsHealthy, StartFindsHung, BootAccepted,
      BootGivesUp, AwaitEnds, SshAnswers, SshGivesUp, StartFindsNotebook,
      StartMissesNotebook, StartFindsNone, OpensNext, NotebookStarts,
      NotebookStartLost, ConfirmEnds,
      StartReturns, PollUntracked, PollSeesRunning, PollSeesDown,
      PollFindsHealthy, PollFindsHung, PollFindsNotebook, PollMissesNotebook,
      PollFindsNone, StopUntracked, StopSetsOff, LoadRaises, StopReaches, StopGivesUp

LEMMA FreshIsKept ==
  ASSUME NoMishap, Inv1, LaunchesFirst, [Next]_vars,
         NEW t \in Tasks, pc[t] = "record", ~Record(t)
  PROVE  pc'[t] = "record" /\ inst'[t] = inst[t]
<1>1. ASSUME NEW u \in Users, NEW s \in Tasks, HubStep(u, s)
      PROVE  pc'[t] = "record" /\ inst'[t] = inst[t]
  <2>1. pc[s] = "free" /\ \E p : Begin(s, u, p)
    BY <1>1 DEF HubStep, HubSpawns, HubAbandons, HubPolls, HubStops
  <2> QED
    BY <2>1 DEF Begin, Inv1, TypeOK, TaskTypeOK
<1>2. ~HubRestarts
  BY DEF HubRestarts, NoMishap
<1>3. ASSUME NEW s \in Tasks, TaskStep(s)
      PROVE  pc'[t] = "record" /\ inst'[t] = inst[t]
  BY <1>3, FreshIsRecorded, OthersUntouched
<1>4. CASE UNCHANGED taskVars
  BY <1>4 DEF taskVars
<1> QED
  BY <1>1, <1>2, <1>3, <1>4 DEF Next, vars

(* Nobody's row is written while a machine is being launched for him. *)
LEMMA StepLaunchesFirst ==
  ASSUME Inv1, StartsAwaited, LaunchesFirst, [Next]_vars
  PROVE  LaunchesFirst'
<1> USE CloudAssumption, TaskAssumption
    DEF Inv1, TypeOK, TaskTypeOK, CloudTypeOK, Slots, LaunchesFirst, LaunchPcs
<1>1. CASE Quiet
  BY <1>1, StepInv1 DEF Quiet, KeepsMachine
<1>2. ASSUME NEW t \in Tasks, NEW i \in Instances,
             LaunchAnswered(t, i) \/ LaunchLost(t, i)
      PROVE  LaunchesFirst'
  BY <1>2 DEF LaunchAnswered, LaunchLost, taskVars
<1>3. ASSUME NEW t \in Tasks, Record(t)
      PROVE  LaunchesFirst'
  <2>1. \A s \in Tasks : pc[s] \in LaunchPcs /\ who[s] = who[t] => s = t
    BY <1>3 DEF Record, StartsAwaited, Awaited, StartPcs
  <2> QED
    BY <1>3, <2>1 DEF Record, Goto
<1> QED
  BY <1>1, <1>2, <1>3, StepKinds DEF Loud

(* A quiet step records no machine, so it keeps those in hand.             *)
LEMMA QuietKeepsFresh ==
  ASSUME NoMishap, Inv1, LaunchesFirst, [Next]_vars, Quiet,
         NEW t \in Tasks, pc[t] = "record"
  PROVE  pc'[t] = "record" /\ inst'[t] = inst[t]
<1>1. ~Record(t)
  <2> SUFFICES ASSUME Record(t) PROVE FALSE
    OBVIOUS
  <2>1. who[t] \in Users /\ inst[t] # NoInst
    BY CloudAssumption DEF Inv1, TypeOK, TaskTypeOK, Slots
  <2> QED
    BY <2>1 DEF Record, Quiet, Inv1, TypeOK
<1> QED
  BY <1>1, FreshIsKept

LEMMA StepTracked ==
  ASSUME NoMishap, Inv4, [Next]_vars
  PROVE  Tracked'
<1> USE CloudAssumption, TaskAssumption
    DEF Inv4, Inv2, Inv1, TypeOK, TaskTypeOK, CloudTypeOK, Slots
<1>1. CASE Quiet
  <2>1. \A t \in Tasks :
          pc[t] = "record" => pc'[t] = "record" /\ inst'[t] = inst[t]
    BY <1>1, QuietKeepsFresh
  <2> QED
    BY <1>1, <2>1 DEF Quiet, Tracked
<1>2. ASSUME NEW t \in Tasks, NEW i \in Instances, LaunchAnswered(t, i)
      PROVE  Tracked'
  <2>1. /\ pc[t] = "launch" /\ who[t] \in Users
        /\ owner' = [owner EXCEPT ![i] = who[t]]
        /\ pc' = [pc EXCEPT ![t] = "record"]
        /\ inst' = [inst EXCEPT ![t] = i]
        /\ UNCHANGED <<db, who>>
    BY <1>2 DEF LaunchAnswered, RunInstance
  <2> QED
    BY <2>1 DEF Tracked
<1>3. \A t \in Tasks, i \in Instances : ~LaunchLost(t, i)
  BY DEF LaunchLost, NoMishap
<1>4. ASSUME NEW t \in Tasks, Record(t)
      PROVE  Tracked'
  <2>1. /\ pc[t] = "record" /\ who[t] \in Users
        /\ db[who[t]] = NoInst
        /\ db' = [db EXCEPT ![who[t]] = inst[t]]
        /\ pc' = [pc EXCEPT ![t] = "await"]
        /\ UNCHANGED <<owner, who, inst>>
    BY <1>4 DEF Record, Goto, cloudVars
  <2> QED
    BY <2>1 DEF Tracked, OwnMachine
<1> QED
  BY <1>1, <1>2, <1>3, <1>4, StepKinds DEF Loud

LEMMA InitInv4 == Init => Inv4
BY InitInv2, InitInv3
DEF Init, CloudInit, Inv3, Inv4, StartsAwaited, LaunchesFirst, Tracked,
    StartPcs, LaunchPcs

LEMMA StepInv4 ==
  ASSUME NoMishap, Inv4, [Next]_vars
  PROVE  Inv4'
BY StepInv2, StepInv3, StepStartsAwaited, StepLaunchesFirst, StepTracked
DEF Inv4, Inv3, Inv2

LEMMA TrackedNoOrphan == Inv4 => NoOrphan
BY DEF Inv4, Inv2, OwnMachine, Tracked, NoOrphan, Live

LEMMA TrackedOneMachine == Inv4 => OneMachinePerUser
<1>1. ASSUME Inv4, NEW i \in Instances, NEW j \in Instances,
             Live(i), Live(j), owner[i] = owner[j]
      PROVE  i = j
  <2> USE CloudAssumption
      DEF Inv4, Inv2, Inv1, TypeOK, CloudTypeOK, TaskTypeOK, Slots, OwnMachine,
          Tracked, Live
  <2>1. owner[i] # NoUser
    BY <1>1
  <2>2. ASSUME NEW t \in Tasks, pc[t] = "record"
        PROVE  db[who[t]] = NoInst
    BY <1>1, <2>2 DEF LaunchesFirst, LaunchPcs
  <2>3. ASSUME NEW s \in Tasks, NEW t \in Tasks, who[s] = who[t],
               pc[s] = "record", pc[t] = "record"
        PROVE  s = t
    BY <1>1, <2>3 DEF StartsAwaited, Awaited, StartPcs, LaunchPcs
  <2> QED
    BY <1>1, <2>1, <2>2, <2>3
<1> QED
  BY <1>1 DEF OneMachinePerUser

(* The cluster knows of every machine that runs up costs, unless start()   *)
(* is abandoned by start_timeout, the hub crashes, or a launch takes       *)
(* effect that reports an error.                                           *)
THEOREM NoOrphanWithoutMishap == NoMishap => (Spec => []NoOrphan)
<1> SUFFICES ASSUME NoMishap PROVE Spec => []NoOrphan
  OBVIOUS
<1>1. Inv4 /\ [Next]_vars => Inv4'
  BY StepInv4
<1> QED
  BY <1>1, TrackedNoOrphan, InitInv4, PTL DEF Spec

(* "Users each get an EC2 instance", one, under the same proviso. *)
THEOREM OneMachineWithoutMishap == NoMishap => (Spec => []OneMachinePerUser)
<1> SUFFICES ASSUME NoMishap PROVE Spec => []OneMachinePerUser
  OBVIOUS
<1>1. Inv4 /\ [Next]_vars => Inv4'
  BY StepInv4
<1> QED
  BY <1>1, TrackedOneMachine, InitInv4, PTL DEF Spec

=============================================================================
