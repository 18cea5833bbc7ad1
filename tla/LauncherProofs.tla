--------------------------- MODULE LauncherProofs ---------------------------
(***************************************************************************)
(* Theorems about Launcher, for any number of runs, of rounds of the wait  *)
(* for the AMI and of attempts at a launch.                                *)
(*                                                                         *)
(* EC2 keeps a group that a rule names or a machine is in.  So what has to *)
(* be known is which rules exist: those of a group name the group created  *)
(* before it by the same run (References), a run that is past adding them  *)
(* has them for as long as it has the group (RulesKept), and a running     *)
(* machine keeps its groups with their rules (InUse).                      *)
(***************************************************************************)
EXTENDS Launcher, TLAPS

WM == <<"worker", "manager">>
M2W == <<"manager2", "worker">>

(* The counters are below their bounds while they may still be raised. *)
Counting ==
  \A r \in Runs :
    /\ pc[r] # "done" => done[r] < Len(Setup)
    /\ pc[r] \in {"prepare", "image", "await"} => rounds[r] < AmiRounds

References ==
  /\ refs \subseteq {WM, M2W}
  /\ WM \in refs => group["worker"] # NoRun /\ group["manager"] = group["worker"]
  /\ M2W \in refs => /\ group["manager2"] # NoRun
                     /\ group["worker"] = group["manager2"]
                     /\ WM \in refs

BeforeWorkerRules == {"new", "manager", "worker", "worker_rules", "failed"}

BeforeManager2Rules == BeforeWorkerRules \union {"manager2", "manager2_rules"}

RulesKept ==
  \A r \in Runs :
    /\ pc[r] \notin BeforeWorkerRules /\ group["worker"] = r => WM \in refs
    /\ pc[r] \notin BeforeManager2Rules /\ group["manager2"] = r => M2W \in refs

InUse ==
  \A m \in live :
    IF m.role = "worker"
      THEN group["worker"] = m.run /\ WM \in refs
      ELSE group["manager"] = m.run /\ group["manager2"] = m.run /\ M2W \in refs

(* Where a run may have a builder, and where a manager. *)
BuilderPcs == {"prepare", "image", "await", "terminate", "failed"}

HubPcs == {"reach", "params", "setup", "done", "failed"}

OneAtATime ==
  \A r \in Runs :
    /\ Machine(r, "builder") \in live => pc[r] \in BuilderPcs
    /\ Machine(r, "hub") \in live => pc[r] \in HubPcs
    /\ ~(Machine(r, "builder") \in live /\ Machine(r, "hub") \in live)

(* Only commands that run with quiet=True are missing.  Without this the    *)
(* script could have gone on without the token, and HubFindsAll would only *)
(* say how many commands have been run.                                    *)
MissingQuietly == \A r \in Runs : \A i \in missing[r] : Setup[i].does \in Quiet

TypeInv == LaunchTypeOK /\ Counting

IInv == TypeInv /\ References /\ RulesKept /\ InUse /\ OneAtATime

---------------------------------------------------------------------------
LEMMA SetupLength == Len(Setup) \in Nat /\ Len(Setup) > 0
BY DEF Setup

LEMMA InitTypes == Init => TypeInv
<1> SUFFICES ASSUME Init PROVE TypeInv
  OBVIOUS
<1>1. pc \in [Runs -> Working \union {"new", "done", "failed"}]
  BY DEF Init
<1>2. custom \in [Runs -> BOOLEAN]
  BY LauncherAssumption DEF LauncherAssumption, Init
<1>3. rounds \in [Runs -> (0..AmiRounds) \union (0..Tries)]
  BY LauncherAssumption DEF LauncherAssumption, Init
<1>4. done \in [Runs -> 0..Len(Setup)]
  BY SetupLength DEF Init
<1>5. missing \in [Runs -> SUBSET (1..Len(Setup))]
  BY DEF Init
<1>6. AwsTypeOK
  BY DEF Init, AwsTypeOK
<1>7. Counting
  BY LauncherAssumption, SetupLength DEF LauncherAssumption, Init, Counting
<1> QED BY <1>1, <1>2, <1>3, <1>4, <1>5, <1>6, <1>7 DEF TypeInv, LaunchTypeOK, RunTypeOK

(* Which steps of a run change what. *)
LEMMA RunStepPc ==
  ASSUME NEW r \in Runs, RunStep(r)
  PROVE \/ pc' = pc
        \/ \E p \in Working \union {"done", "failed"} : pc' = [pc EXCEPT ![r] = p]
BY DEF RunStep, Proceeds, Trans, Working, Starts, Refused, ManagerGroup, WorkerGroup, Manager2Group,
       GroupCreated, WorkerRules, Manager2Rules, RulesAdded, BuilderLaunched,
       HubLaunched, Launched, LaunchLost, BuilderPrepared, ImageCreated,
       ImageSeen, ImageLookedAt, BuilderTerminated, HubReached, ParamsMade,
       CommandSucceeds, CommandFailsQuietly, CommandRun, Raises

LEMMA RunStepCfg ==
  ASSUME NEW r \in Runs, RunStep(r)
  PROVE custom' = custom \/ Starts(r)
BY DEF RunStep, Proceeds, Refused, ManagerGroup, WorkerGroup, Manager2Group,
       GroupCreated, WorkerRules, Manager2Rules, RulesAdded, BuilderLaunched,
       HubLaunched, Launched, LaunchLost, BuilderPrepared, ImageCreated,
       ImageSeen, ImageLookedAt, BuilderTerminated, HubReached, ParamsMade,
       CommandSucceeds, CommandFailsQuietly, CommandRun, Raises

LEMMA RunStepRounds ==
  ASSUME NEW r \in Runs, RunStep(r)
  PROVE \/ rounds' = rounds
        \/ rounds' = [rounds EXCEPT ![r] = 0]
        \/ LaunchLost(r)
        \/ ImageLookedAt(r)
BY DEF RunStep, Proceeds, Starts, Refused, ManagerGroup, WorkerGroup, Manager2Group,
       GroupCreated, WorkerRules, Manager2Rules, RulesAdded, BuilderLaunched,
       HubLaunched, Launched, BuilderPrepared, ImageCreated,
       ImageSeen, BuilderTerminated, HubReached, ParamsMade,
       CommandSucceeds, CommandFailsQuietly, CommandRun, Raises

LEMMA RunStepDone ==
  ASSUME NEW r \in Runs, RunStep(r)
  PROVE (done' = done /\ missing' = missing) \/ CommandSucceeds(r) \/ CommandFailsQuietly(r)
BY DEF RunStep, Proceeds, Starts, Refused, ManagerGroup, WorkerGroup, Manager2Group,
       GroupCreated, WorkerRules, Manager2Rules, RulesAdded, BuilderLaunched,
       HubLaunched, Launched, LaunchLost, BuilderPrepared, ImageCreated,
       ImageSeen, ImageLookedAt, BuilderTerminated, HubReached, ParamsMade, Raises

LEMMA RunStepRunTypes ==
  ASSUME TypeInv, NEW r \in Runs, RunStep(r)
  PROVE RunTypeOK'
<1>1. pc' \in [Runs -> Working \union {"new", "done", "failed"}]
  BY RunStepPc DEF TypeInv, LaunchTypeOK, RunTypeOK
<1>2. custom' \in [Runs -> BOOLEAN]
  BY RunStepCfg DEF TypeInv, LaunchTypeOK, RunTypeOK, Starts
<1>3. rounds' \in [Runs -> (0..AmiRounds) \union (0..Tries)]
  <2>1. rounds \in [Runs -> (0..AmiRounds) \union (0..Tries)]
    BY DEF TypeInv, LaunchTypeOK, RunTypeOK
  <2>2. CASE LaunchLost(r)
    BY <2>1, <2>2, LauncherAssumption DEF LaunchLost, LauncherAssumption
  <2>3. CASE ImageLookedAt(r)
    <3>1. rounds[r] + 1 \in 0..AmiRounds
      BY <2>1, <2>3, LauncherAssumption
         DEF ImageLookedAt, TypeInv, Counting, LauncherAssumption
    <3> QED BY <2>1, <2>3, <3>1 DEF ImageLookedAt
  <2>4. CASE rounds' = rounds \/ rounds' = [rounds EXCEPT ![r] = 0]
    BY <2>1, <2>4, LauncherAssumption DEF LauncherAssumption
  <2> QED BY <2>2, <2>3, <2>4, RunStepRounds
<1>4. /\ done' \in [Runs -> 0..Len(Setup)]
      /\ missing' \in [Runs -> SUBSET (1..Len(Setup))]
  <2>1. /\ done \in [Runs -> 0..Len(Setup)]
        /\ missing \in [Runs -> SUBSET (1..Len(Setup))]
    BY DEF TypeInv, LaunchTypeOK, RunTypeOK
  <2>2. CASE CommandSucceeds(r) \/ CommandFailsQuietly(r)
    <3>1. done[r] + 1 \in 1..Len(Setup) /\ done' = [done EXCEPT ![r] = @ + 1]
      BY <2>1, <2>2, SetupLength
         DEF TypeInv, Counting, CommandSucceeds, CommandFailsQuietly, CommandRun
    <3>2. done' \in [Runs -> 0..Len(Setup)] /\ done'[r] \in 1..Len(Setup)
      BY <2>1, <3>1, SetupLength
    <3>3. missing' = missing \/ missing' = [missing EXCEPT ![r] = @ \union {done'[r]}]
      BY <2>2 DEF CommandSucceeds, CommandFailsQuietly
    <3> QED BY <2>1, <3>2, <3>3
  <2> QED BY <2>1, <2>2, RunStepDone
<1> QED BY <1>1, <1>2, <1>3, <1>4 DEF RunTypeOK

---------------------------------------------------------------------------
(* The steps of a run that touch what exists in AWS, AMIs aside. *)
Touches(r) ==
  \/ ManagerGroup(r) \/ WorkerGroup(r) \/ Manager2Group(r)
  \/ WorkerRules(r) \/ Manager2Rules(r)
  \/ BuilderLaunched(r) \/ HubLaunched(r) \/ LaunchLost(r) \/ BuilderTerminated(r)

(* The stretches of the script between them. *)
Stretches == {{"new", "manager"}, {"prepare", "image", "await", "terminate"},
              {"reach", "params", "setup", "done"}}

LEMMA OtherSteps ==
  ASSUME NEW r \in Runs, RunStep(r), ~Touches(r)
  PROVE /\ UNCHANGED <<group, refs, live>>
        /\ \E p \in Working \union {"done", "failed"} :
             /\ pc' = [pc EXCEPT ![r] = p]
             /\ p = "failed" \/ \E S \in Stretches : pc[r] \in S /\ p \in S
<1> USE DEF Trans, Working, Stretches, awsVars
<1>1. CASE Starts(r) \/ Refused(r) \/ Raises(r)
  BY <1>1 DEF Starts, Refused, Raises
<1>2. CASE BuilderPrepared(r) \/ ImageCreated(r) \/ ImageSeen(r)
  BY <1>2 DEF BuilderPrepared, ImageCreated, ImageSeen
<1>3. CASE ImageLookedAt(r)
  BY <1>3 DEF ImageLookedAt
<1>4. CASE HubReached(r) \/ ParamsMade(r)
  BY <1>4 DEF HubReached, ParamsMade
<1>5. CASE CommandSucceeds(r) \/ CommandFailsQuietly(r)
  BY <1>5 DEF CommandSucceeds, CommandFailsQuietly, CommandRun
<1> QED BY <1>1, <1>2, <1>3, <1>4, <1>5 DEF RunStep, Proceeds, Touches

LEMMA RunStepImage ==
  ASSUME TypeInv, NEW r \in Runs, RunStep(r)
  PROVE image' \in Runs \union {NoRun} /\ ready' \in BOOLEAN
<1>1. CASE ImageCreated(r)
  BY <1>1 DEF ImageCreated
<1>2. CASE ~ImageCreated(r)
  <2>1. UNCHANGED <<image, ready>>
    BY <1>2 DEF RunStep, Proceeds, Starts, Refused, ManagerGroup, WorkerGroup, Manager2Group,
       GroupCreated, WorkerRules, Manager2Rules, RulesAdded, BuilderLaunched,
       HubLaunched, Launched, LaunchLost, BuilderPrepared, awsVars,
       ImageSeen, ImageLookedAt, BuilderTerminated, HubReached, ParamsMade,
       CommandSucceeds, CommandFailsQuietly, CommandRun, Raises
  <2> QED BY <2>1 DEF TypeInv, LaunchTypeOK, AwsTypeOK
<1> QED BY <1>1, <1>2

LEMMA RunStepAwsTypes ==
  ASSUME TypeInv, NEW r \in Runs, RunStep(r)
  PROVE AwsTypeOK'
<1> USE DEF TypeInv, LaunchTypeOK, AwsTypeOK, Groups, Roles, Machine
<1>1. /\ group' \in [Groups -> Runs \union {NoRun}]
      /\ refs' \subseteq Groups \X Groups
      /\ live' \subseteq [run : Runs, role : Roles]
  <2>1. CASE ManagerGroup(r) \/ WorkerGroup(r) \/ Manager2Group(r)
    BY <2>1 DEF ManagerGroup, WorkerGroup, Manager2Group, GroupCreated
  <2>2. CASE WorkerRules(r) \/ Manager2Rules(r)
    <3>1. /\ UNCHANGED <<group, live>>
          /\ refs' = refs \union {WM} \/ refs' = refs \union {M2W}
      BY <2>2 DEF WorkerRules, Manager2Rules, RulesAdded, WM, M2W
    <3> QED BY <3>1 DEF WM, M2W
  <2>3. CASE BuilderLaunched(r) \/ HubLaunched(r)
    BY <2>3 DEF BuilderLaunched, HubLaunched, Launched
  <2>4. CASE LaunchLost(r)
    BY <2>4 DEF LaunchLost
  <2>5. CASE BuilderTerminated(r)
    BY <2>5 DEF BuilderTerminated
  <2>6. CASE ~Touches(r)
    BY <2>6, OtherSteps
  <2> QED BY <2>1, <2>2, <2>3, <2>4, <2>5, <2>6 DEF Touches
<1> QED BY <1>1, RunStepImage

LEMMA RunStepCounting ==
  ASSUME TypeInv, NEW r \in Runs, RunStep(r)
  PROVE Counting'
<1> SUFFICES ASSUME NEW q \in Runs
             PROVE /\ pc'[q] # "done" => done'[q] < Len(Setup)
                   /\ pc'[q] \in {"prepare", "image", "await"} => rounds'[q] < AmiRounds
  BY DEF Counting
<1>0. /\ pc \in [Runs -> Working \union {"new", "done", "failed"}]
      /\ done \in [Runs -> 0..Len(Setup)]
      /\ rounds \in [Runs -> (0..AmiRounds) \union (0..Tries)]
      /\ Counting
  BY DEF TypeInv, LaunchTypeOK, RunTypeOK
<1>1. pc'[q] # "done" => done'[q] < Len(Setup)
  <2>1. CASE CommandSucceeds(r) \/ CommandFailsQuietly(r)
    <3>1. /\ pc[r] = "setup"
          /\ done' = [done EXCEPT ![r] = @ + 1]
          /\ pc' = [pc EXCEPT ![r] = IF done'[r] = Len(Setup) THEN "done" ELSE "setup"]
      BY <2>1 DEF CommandSucceeds, CommandFailsQuietly, CommandRun
    <3>2. CASE q = r
      BY <1>0, <3>1, <3>2, SetupLength DEF Counting
    <3>3. CASE q # r
      BY <1>0, <3>1, <3>3 DEF Counting
    <3> QED BY <3>2, <3>3
  <2>2. CASE done' = done
    <3>1. pc[q] = "done" => pc'[q] = "done"
      BY <1>0 DEF RunStep, Proceeds, Trans, Starts, Refused, ManagerGroup, WorkerGroup, Manager2Group,
       GroupCreated, WorkerRules, Manager2Rules, RulesAdded, BuilderLaunched, Working,
       HubLaunched, Launched, LaunchLost, BuilderPrepared, ImageCreated,
       ImageSeen, ImageLookedAt, BuilderTerminated, HubReached, ParamsMade,
       CommandSucceeds, CommandFailsQuietly, CommandRun, Raises
    <3> QED BY <1>0, <2>2, <3>1 DEF Counting
  <2> QED BY <2>1, <2>2, RunStepDone
<1>2. pc'[q] \in {"prepare", "image", "await"} => rounds'[q] < AmiRounds
  <2>1. CASE ImageLookedAt(r)
    BY <1>0, <2>1, LauncherAssumption DEF ImageLookedAt, Counting, LauncherAssumption
  <2>2. CASE BuilderLaunched(r)
    BY <1>0, <2>2, LauncherAssumption
       DEF BuilderLaunched, Launched, Trans, Counting, LauncherAssumption
  <2>3. CASE LaunchLost(r)
    BY <1>0, <2>3 DEF LaunchLost, Counting
  <2>4. CASE \/ ManagerGroup(r) \/ WorkerGroup(r) \/ Manager2Group(r)
             \/ WorkerRules(r) \/ Manager2Rules(r) \/ HubLaunched(r) \/ BuilderTerminated(r)
    <3>1. pc'[q] \in {"prepare", "image", "await"} => pc'[q] = pc[q] /\ q # r
      BY <1>0, <2>4 DEF Trans, ManagerGroup, WorkerGroup, Manager2Group, GroupCreated,
         WorkerRules, Manager2Rules, RulesAdded, HubLaunched, Launched, BuilderTerminated
    <3>2. rounds' = rounds \/ rounds' = [rounds EXCEPT ![r] = 0]
      BY <2>4 DEF ManagerGroup, WorkerGroup, Manager2Group, GroupCreated,
         WorkerRules, Manager2Rules, RulesAdded, HubLaunched, Launched, BuilderTerminated
    <3> QED BY <1>0, <3>1, <3>2 DEF Counting
  <2>5. CASE ~Touches(r) /\ ~ImageLookedAt(r)
    <3>1. pc'[q] \in {"prepare", "image", "await"}
            => \/ pc[q] \in {"prepare", "image", "await"} /\ (rounds' = rounds)
               \/ q = r /\ ImageCreated(r)
      BY <1>0, <2>5 DEF Touches, RunStep, Proceeds, Trans, Starts, Refused, BuilderPrepared, ImageCreated,
       ImageSeen, HubReached, ParamsMade,
       CommandSucceeds, CommandFailsQuietly, CommandRun, Raises
    <3>2. ImageCreated(r) => pc[r] = "image" /\ rounds' = rounds
      BY DEF ImageCreated, Trans
    <3> QED BY <1>0, <3>1, <3>2 DEF Counting
  <2> QED BY <2>1, <2>2, <2>3, <2>4, <2>5 DEF Touches
<1> QED BY <1>1, <1>2

LEMMA AwsStepTypes ==
  ASSUME TypeInv, AwsStep
  PROVE TypeInv'
<1>1. UNCHANGED runVars
  BY DEF AwsStep, ImageBecomesReady, WorkerLaunched, MachineTerminated, GroupDeleted,
         ImageDeregistered
<1>2. AwsTypeOK'
  <2> USE DEF TypeInv, LaunchTypeOK, AwsTypeOK, Groups, Roles, Machine
  <2>1. CASE ImageBecomesReady
    BY <2>1 DEF ImageBecomesReady
  <2>2. ASSUME NEW r \in Runs, WorkerLaunched(r) PROVE AwsTypeOK'
    BY <2>2 DEF WorkerLaunched
  <2>3. ASSUME NEW m \in live, MachineTerminated(m) PROVE AwsTypeOK'
    BY <2>3 DEF MachineTerminated
  <2>4. ASSUME NEW k \in Groups, GroupDeleted(k) PROVE AwsTypeOK'
    BY <2>4 DEF GroupDeleted
  <2>5. CASE ImageDeregistered
    BY <2>5 DEF ImageDeregistered
  <2> QED BY <2>1, <2>2, <2>3, <2>4, <2>5 DEF AwsStep
<1> QED BY <1>1, <1>2 DEF runVars, TypeInv, LaunchTypeOK, RunTypeOK, Counting

LEMMA StepTypes == TypeInv /\ [Next]_vars => TypeInv'
<1> SUFFICES ASSUME TypeInv, [Next]_vars PROVE TypeInv'
  OBVIOUS
<1>1. ASSUME NEW r \in Runs, RunStep(r) PROVE TypeInv'
  BY <1>1, RunStepRunTypes, RunStepAwsTypes, RunStepCounting DEF TypeInv, LaunchTypeOK
<1>2. CASE AwsStep
  BY <1>2, AwsStepTypes
<1>3. CASE UNCHANGED vars
  BY <1>3 DEF vars, runVars, awsVars, TypeInv, LaunchTypeOK, RunTypeOK, AwsTypeOK, Counting
<1> QED BY <1>1, <1>2, <1>3 DEF Next

(* Every variable of the launcher keeps its type: the loops of launch.py   *)
(* stop at their bounds and setup_manager runs each command once.          *)
THEOREM LauncherTypeCorrect == Spec => []LaunchTypeOK
<1>1. TypeInv => LaunchTypeOK
  BY DEF TypeInv
<1> QED BY InitTypes, StepTypes, <1>1, PTL DEF Spec

---------------------------------------------------------------------------
(* Types, as the next lemmas need them. *)
LEMMA Typed ==
  ASSUME TypeInv
  PROVE /\ pc \in [Runs -> Working \union {"new", "done", "failed"}]
        /\ group \in [Groups -> Runs \union {NoRun}]
        /\ live \subseteq [run : Runs, role : Roles]
        /\ NoRun \notin Runs
BY LauncherAssumption DEF TypeInv, LaunchTypeOK, RunTypeOK, AwsTypeOK, LauncherAssumption

Named == References /\ RulesKept

LEMMA RunStepNamed ==
  ASSUME TypeInv, Named, NEW r \in Runs, RunStep(r)
  PROVE Named'
<1> USE Typed DEF Named, References, RulesKept, Groups, WM, M2W, Trans,
                  BeforeWorkerRules, BeforeManager2Rules
<1>1. CASE ManagerGroup(r)
  BY <1>1 DEF ManagerGroup, GroupCreated
<1>2. CASE WorkerGroup(r)
  BY <1>2 DEF WorkerGroup, GroupCreated
<1>3. CASE Manager2Group(r)
  BY <1>3 DEF Manager2Group, GroupCreated
<1>4. CASE WorkerRules(r)
  BY <1>4 DEF WorkerRules, RulesAdded
<1>5. CASE Manager2Rules(r)
  BY <1>5 DEF Manager2Rules, RulesAdded
<1>6. CASE BuilderLaunched(r) \/ HubLaunched(r)
  BY <1>6 DEF BuilderLaunched, HubLaunched, Launched
<1>7. CASE LaunchLost(r) \/ BuilderTerminated(r)
  BY <1>7 DEF LaunchLost, BuilderTerminated
<1>8. CASE ~Touches(r)
  <2>1. PICK p \in Working \union {"done", "failed"} :
          /\ pc' = [pc EXCEPT ![r] = p]
          /\ p = "failed" \/ \E S \in Stretches : pc[r] \in S /\ p \in S
    BY <1>8, OtherSteps
  <2>2. UNCHANGED <<group, refs>>
    BY <1>8, OtherSteps
  <2>3. /\ p \notin BeforeWorkerRules => pc[r] \notin BeforeWorkerRules
        /\ p \notin BeforeManager2Rules => pc[r] \notin BeforeManager2Rules
    BY <2>1 DEF Stretches
  <2> QED BY <2>1, <2>2, <2>3
<1> QED BY <1>1, <1>2, <1>3, <1>4, <1>5, <1>6, <1>7, <1>8 DEF Touches

LEMMA RunStepInUse ==
  ASSUME TypeInv, Named, InUse, NEW r \in Runs, RunStep(r)
  PROVE InUse'
<1> USE Typed DEF InUse, Groups, WM, M2W, Trans, Machine, Roles
<1>1. CASE ManagerGroup(r) \/ WorkerGroup(r) \/ Manager2Group(r)
  <2>1. /\ UNCHANGED <<refs, live>>
        /\ \E k \in Groups : group[k] = NoRun /\ group' = [group EXCEPT ![k] = r]
    BY <1>1 DEF ManagerGroup, WorkerGroup, Manager2Group, GroupCreated
  <2> QED BY <2>1
<1>2. CASE WorkerRules(r) \/ Manager2Rules(r)
  BY <1>2 DEF WorkerRules, Manager2Rules, RulesAdded
<1>3. CASE BuilderLaunched(r) \/ HubLaunched(r) \/ LaunchLost(r)
  <2>1. /\ group' = group /\ refs' = refs
        /\ GroupsStand(r)
        /\ pc[r] \in {"builder", "hub"}
        /\ \E role \in {"builder", "hub", "stray"} : live' = live \union {Machine(r, role)}
    BY <1>3 DEF BuilderLaunched, HubLaunched, Launched, LaunchLost
  <2>2. M2W \in refs
    BY <2>1 DEF Named, RulesKept, BeforeManager2Rules, BeforeWorkerRules, GroupsStand
  <2> QED BY <2>1, <2>2 DEF GroupsStand
<1>4. CASE BuilderTerminated(r)
  BY <1>4 DEF BuilderTerminated
<1>5. CASE ~Touches(r)
  BY <1>5, OtherSteps
<1> QED BY <1>1, <1>2, <1>3, <1>4, <1>5 DEF Touches

LEMMA RunStepOneAtATime ==
  ASSUME TypeInv, OneAtATime, NEW r \in Runs, RunStep(r)
  PROVE OneAtATime'
<1> USE Typed DEF OneAtATime, BuilderPcs, HubPcs, Trans, Machine
<1>1. CASE ManagerGroup(r) \/ WorkerGroup(r) \/ Manager2Group(r)
  BY <1>1 DEF ManagerGroup, WorkerGroup, Manager2Group, GroupCreated
<1>2. CASE WorkerRules(r) \/ Manager2Rules(r)
  BY <1>2 DEF WorkerRules, Manager2Rules, RulesAdded
<1>3. CASE BuilderLaunched(r)
  BY <1>3 DEF BuilderLaunched, Launched
<1>4. CASE HubLaunched(r)
  BY <1>4 DEF HubLaunched, Launched
<1>5. CASE LaunchLost(r)
  BY <1>5 DEF LaunchLost
<1>6. CASE BuilderTerminated(r)
  BY <1>6 DEF BuilderTerminated
<1>7. CASE ~Touches(r)
  <2>1. PICK p \in Working \union {"done", "failed"} :
          /\ pc' = [pc EXCEPT ![r] = p]
          /\ p = "failed" \/ \E S \in Stretches : pc[r] \in S /\ p \in S
    BY <1>7, OtherSteps
  <2>2. live' = live
    BY <1>7, OtherSteps
  <2>3. /\ pc[r] \in BuilderPcs => p \in BuilderPcs
        /\ pc[r] \in HubPcs => p \in HubPcs
    BY <2>1 DEF Stretches
  <2> QED BY <2>1, <2>2, <2>3
<1> QED BY <1>1, <1>2, <1>3, <1>4, <1>5, <1>6, <1>7 DEF Touches

(* Deleting a group takes away nothing a rule or a machine relies on. *)
LEMMA AwsStepKeeps ==
  ASSUME TypeInv, Named, InUse, OneAtATime, AwsStep
  PROVE Named' /\ InUse' /\ OneAtATime'
<1> USE Typed DEF Named, References, RulesKept, InUse, OneAtATime, Groups, WM, M2W, Machine, runVars
<1>1. CASE ImageBecomesReady \/ ImageDeregistered
  BY <1>1 DEF ImageBecomesReady, ImageDeregistered
<1>2. ASSUME NEW r \in Runs, WorkerLaunched(r) PROVE Named' /\ InUse' /\ OneAtATime'
  <2>1. group["worker"] = r /\ WM \in refs
    BY <1>2 DEF WorkerLaunched
  <2>2. /\ UNCHANGED <<pc, group, refs>>
        /\ live' = live \union {Machine(r, "worker")}
    BY <1>2 DEF WorkerLaunched
  <2> QED BY <2>1, <2>2
<1>3. ASSUME NEW m \in live, MachineTerminated(m) PROVE Named' /\ InUse' /\ OneAtATime'
  BY <1>3 DEF MachineTerminated
<1>4. ASSUME NEW k \in Groups, GroupDeleted(k) PROVE Named' /\ InUse' /\ OneAtATime'
  <2>1. /\ UNCHANGED <<pc, live>>
        /\ group' = [group EXCEPT ![k] = NoRun]
        /\ refs' = {p \in refs : p[1] # k}
        /\ \A p \in refs : p[2] # k
        /\ \A m \in live : k \notin GroupsOf(m)
    BY <1>4 DEF GroupDeleted, Deletable
  <2>2. CASE k = "manager"
    BY <2>1, <2>2 DEF GroupsOf
  <2>3. CASE k = "worker"
    BY <2>1, <2>3 DEF GroupsOf
  <2>4. CASE k = "manager2"
    BY <2>1, <2>4 DEF GroupsOf
  <2> QED BY <2>2, <2>3, <2>4
<1> QED BY <1>1, <1>2, <1>3, <1>4 DEF AwsStep

---------------------------------------------------------------------------
LEMMA InitInv == Init => IInv
<1> SUFFICES ASSUME Init PROVE IInv
  OBVIOUS
<1>1. References /\ InUse
  BY DEF Init, References, InUse, WM, M2W, Groups
<1>2. RulesKept /\ OneAtATime
  BY DEF Init, RulesKept, OneAtATime, BeforeWorkerRules, BeforeManager2Rules
<1> QED BY <1>1, <1>2, InitTypes DEF IInv

LEMMA StepInv == IInv /\ [Next]_vars => IInv'
<1> SUFFICES ASSUME IInv, [Next]_vars PROVE IInv'
  OBVIOUS
<1>1. TypeInv'
  BY StepTypes DEF IInv
<1> SUFFICES Named' /\ InUse' /\ OneAtATime'
  BY <1>1 DEF IInv, Named
<1>2. ASSUME NEW r \in Runs, RunStep(r) PROVE Named' /\ InUse' /\ OneAtATime'
  BY <1>2, RunStepNamed, RunStepInUse, RunStepOneAtATime DEF IInv, Named
<1>3. CASE AwsStep
  BY <1>3, AwsStepKeeps DEF IInv, Named
<1>4. CASE UNCHANGED vars
  BY <1>4 DEF vars, runVars, awsVars, IInv, Named, References, RulesKept, InUse, OneAtATime
<1> QED BY <1>2, <1>3, <1>4 DEF Next

LEMMA Invariance == Spec => []IInv
BY InitInv, StepInv, PTL DEF Spec

(* A running manager keeps all three groups of its run, so WORKER_SECURITY_GROUPS in *)
(* server_config.json never names a group that is gone or somebody else's. *)
THEOREM HubsKeepGroups == Spec => []HubKeepsGroups
<1>1. IInv => HubKeepsGroups
  BY DEF IInv, HubKeepsGroups, InUse, References, Machine, Groups, WM, M2W
<1> QED BY Invariance, <1>1, PTL

(* Wherever launches end, what they leave can be taken apart: the comment  *)
(* in create_server_security_groups about cyclic references.               *)
THEOREM ClusterDismantlable == Spec => []Dismantlable
<1>1. IInv => Dismantlable
  <2> SUFFICES ASSUME IInv, live = {}, NEW j \in Groups, group[j] # NoRun
               PROVE \E k \in Groups : Deletable(k)
    BY DEF Dismantlable
  <2>1. CASE group["manager2"] # NoRun
    BY <2>1 DEF IInv, References, Deletable, Groups, WM, M2W
  <2>2. CASE group["manager2"] = NoRun /\ group["worker"] # NoRun
    BY <2>2 DEF IInv, References, Deletable, Groups, WM, M2W
  <2>3. CASE group["manager2"] = NoRun /\ group["worker"] = NoRun
    BY <2>3 DEF IInv, References, Deletable, Groups, WM, M2W
  <2> QED BY <2>1, <2>2, <2>3
<1> QED BY Invariance, <1>1, PTL

(* A run never has its AMI builder and its manager running side by side. *)
THEOREM BuildersReplaced == Spec => []BuilderReplaced
<1>1. IInv => BuilderReplaced
  BY DEF IInv, OneAtATime, BuilderReplaced
<1> QED BY Invariance, <1>1, PTL

(* The names of the security groups are a lock on the cluster name. *)
THEOREM ImplementsClusterName == Spec => NameHasOneHolder
<1> DEFINE holder == group["manager"]
           billed == {m.run : m \in live}
<1>1. Init => C!Init
  BY DEF Init, C!Init, Groups
<1>2. IInv /\ [Next]_vars => [C!Next]_<<holder, billed>>
  <2> SUFFICES ASSUME IInv, [Next]_vars
               PROVE C!Next \/ UNCHANGED <<holder, billed>>
    OBVIOUS
  <2> USE Typed DEF IInv, Groups
  <2>1. ASSUME NEW r \in Runs, RunStep(r) PROVE C!Next \/ UNCHANGED <<holder, billed>>
    <3>1. CASE ManagerGroup(r)
      BY <3>1 DEF ManagerGroup, GroupCreated, C!Next, C!Claim
    <3>2. CASE WorkerGroup(r) \/ Manager2Group(r)
      BY <3>2 DEF WorkerGroup, Manager2Group, GroupCreated
    <3>3. CASE WorkerRules(r) \/ Manager2Rules(r)
      BY <3>3 DEF WorkerRules, Manager2Rules, RulesAdded
    <3>4. CASE BuilderLaunched(r) \/ HubLaunched(r) \/ LaunchLost(r)
      <4>1. /\ group' = group /\ group["manager"] = r
            /\ \E role \in Roles : live' = live \union {Machine(r, role)}
        BY <3>4 DEF BuilderLaunched, HubLaunched, Launched, LaunchLost, GroupsStand, Roles
      <4>2. PICK role \in Roles : live' = live \union {Machine(r, role)}
        BY <4>1
      <4>3. Machine(r, role).run = r
        BY DEF Machine
      <4>4. billed' = billed \union {r}
        BY <4>2, <4>3
      <4> QED BY <4>1, <4>4 DEF C!Next, C!Bill
    <3>5. CASE BuilderTerminated(r)
      <4>1. group' = group /\ live' = live \ {Machine(r, "builder")}
        BY <3>5 DEF BuilderTerminated
      <4>2. billed' = billed \/ billed' = billed \ {r}
        BY <4>1 DEF Machine
      <4> QED BY <4>1, <4>2 DEF C!Next, C!Unbill
    <3>6. CASE ~Touches(r)
      BY <2>1, <3>6, OtherSteps
    <3> QED BY <2>1, <3>1, <3>2, <3>3, <3>4, <3>5, <3>6 DEF Touches
  <2>2. ASSUME NEW r \in Runs, WorkerLaunched(r) PROVE C!Next \/ UNCHANGED <<holder, billed>>
    <3>1. /\ group' = group /\ Machine(r, "hub") \in live
          /\ live' = live \union {Machine(r, "worker")}
      BY <2>2 DEF WorkerLaunched
    <3>2. billed' = billed
      BY <3>1 DEF Machine
    <3> QED BY <3>1, <3>2
  <2>3. ASSUME NEW m \in live, MachineTerminated(m) PROVE C!Next \/ UNCHANGED <<holder, billed>>
    <3>1. group' = group /\ live' = live \ {m} /\ m.run \in Runs
      BY <2>3 DEF MachineTerminated
    <3>2. billed' = billed \/ billed' = billed \ {m.run}
      BY <3>1
    <3> QED BY <3>1, <3>2 DEF C!Next, C!Unbill
  <2>4. ASSUME NEW k \in Groups, GroupDeleted(k) PROVE C!Next \/ UNCHANGED <<holder, billed>>
    <3>1. CASE k = "manager"
      <4>1. group' = [group EXCEPT !["manager"] = NoRun] /\ live' = live
        BY <2>4, <3>1 DEF GroupDeleted
      <4>2. WM \notin refs /\ \A m \in live : "manager" \notin GroupsOf(m)
        BY <2>4, <3>1 DEF GroupDeleted, Deletable, WM
      <4>3. live = {}
        BY <4>2 DEF InUse, GroupsOf
      <4> QED BY <4>1, <4>3 DEF C!Next, C!Release
    <3>2. CASE k # "manager"
      BY <2>4, <3>2 DEF GroupDeleted
    <3> QED BY <3>1, <3>2
  <2>5. CASE ImageBecomesReady \/ ImageDeregistered
    BY <2>5 DEF ImageBecomesReady, ImageDeregistered
  <2>6. CASE UNCHANGED vars
    BY <2>6 DEF vars, awsVars
  <2> QED BY <2>1, <2>2, <2>3, <2>4, <2>5, <2>6 DEF Next, AwsStep
<1> QED BY Invariance, <1>1, <1>2, PTL DEF Spec, NameHasOneHolder, C!Spec

---------------------------------------------------------------------------
(* The commands of setup_manager that HubFindsAll is about.                *)
LEMMA SetupOrder ==
  /\ Setup[1].does = "key" /\ Setup[5].does = "files" /\ Setup[6].does = "jupyterhub"
  /\ Setup[7].does = "proxy" /\ Setup[9].does = "config" /\ Setup[10].does = "token"
  /\ \A i \in 1..10 : Setup[i].does # "started"
BY DEF Setup

LEMMA QuietInvariance == Spec => []MissingQuietly
<1>1. Init => MissingQuietly
  BY DEF Init, MissingQuietly
<1>2. TypeInv /\ MissingQuietly /\ [Next]_vars => MissingQuietly'
  <2> SUFFICES ASSUME TypeInv, MissingQuietly, [Next]_vars PROVE MissingQuietly'
    OBVIOUS
  <2>1. ASSUME NEW r \in Runs, RunStep(r) PROVE MissingQuietly'
    <3>1. CASE CommandFailsQuietly(r)
      <4>1. missing \in [Runs -> SUBSET (1..Len(Setup))]
        BY DEF TypeInv, LaunchTypeOK, RunTypeOK
      <4>2. /\ missing' = [missing EXCEPT ![r] = @ \union {done'[r]}]
            /\ Setup[done'[r]].does \in Quiet
        BY <3>1 DEF CommandFailsQuietly
      <4> QED BY <4>1, <4>2 DEF MissingQuietly
    <3>2. CASE CommandSucceeds(r)
      BY <3>2 DEF CommandSucceeds, MissingQuietly
    <3> QED BY <2>1, <3>1, <3>2, RunStepDone DEF MissingQuietly
  <2>2. CASE AwsStep
    BY <2>2 DEF AwsStep, ImageBecomesReady, WorkerLaunched, MachineTerminated, GroupDeleted,
                ImageDeregistered, runVars, MissingQuietly
  <2>3. CASE UNCHANGED vars
    BY <2>3 DEF vars, runVars, MissingQuietly
  <2> QED BY <2>1, <2>2, <2>3 DEF Next
<1> QED BY <1>1, <1>2, Invariance, PTL DEF Spec, IInv

(* When the service is started, the token, the configuration, the files    *)
(* and the key are on the manager: the order of setup_manager puts them    *)
(* before it, and none of them is among the commands that may fail.        *)
THEOREM HubFindsAllThere == Spec => []HubFindsAll
<1>1. TypeInv /\ MissingQuietly => HubFindsAll
  <2> SUFFICES ASSUME TypeInv, MissingQuietly, NEW r \in Runs, "started" \in Has(r),
                      NEW x \in HubReads
               PROVE x \in Has(r)
    BY DEF HubFindsAll
  <2>1. done[r] \in Nat
    BY SetupLength DEF TypeInv, LaunchTypeOK, RunTypeOK
  <2>2. done[r] > 10
    BY <2>1, SetupOrder DEF Has
  <2>3. ASSUME NEW i \in 1..10, Setup[i].does \notin Quiet PROVE Setup[i].does \in Has(r)
    <3>1. i \in 1..done[r]
      BY <2>1, <2>2
    <3>2. i \notin missing[r]
      BY <2>3 DEF MissingQuietly
    <3> QED BY <3>1, <3>2 DEF Has
  <2>4. \E i \in 1..10 : Setup[i].does = x /\ Setup[i].does \notin Quiet
    BY SetupOrder DEF HubReads, Quiet
  <2> QED BY <2>3, <2>4
<1>2. IInv => TypeInv
  BY DEF IInv
<1> QED BY <1>1, <1>2, Invariance, QuietInvariance, PTL

---------------------------------------------------------------------------
(* The loops of the script *)

(* The calls in the order of the script. *)
LEMMA PlaceGrows ==
  /\ Place["failed"] > Place["new"] /\ \A p \in Working : Place["failed"] > Place[p]
  /\ Place["manager"] > Place["new"] /\ Place["worker"] > Place["manager"]
  /\ Place["worker_rules"] > Place["worker"] /\ Place["manager2"] > Place["worker_rules"]
  /\ Place["manager2_rules"] > Place["manager2"]
  /\ Place["builder"] > Place["manager2_rules"] /\ Place["hub"] > Place["manager2_rules"]
  /\ Place["prepare"] > Place["builder"] /\ Place["image"] > Place["prepare"]
  /\ Place["await"] > Place["image"] /\ Place["terminate"] > Place["await"]
  /\ Place["hub"] > Place["terminate"] /\ Place["reach"] > Place["hub"]
  /\ Place["params"] > Place["reach"] /\ Place["setup"] > Place["params"]
  /\ Place["done"] > Place["setup"]
BY DEF Place, Working

LEMMA LoopStepsCount ==
  ASSUME TypeInv, NEW r \in Runs,
         LaunchLost(r) \/ ImageLookedAt(r) \/ CommandRun(r)
  PROVE  \/ Place[pc'[r]] > Place[pc[r]]
         \/ pc'[r] = pc[r] /\ TurnsLeft(r)' \in 0..(TurnsLeft(r) - 1)
<1> USE LauncherAssumption
    DEF TypeInv, LaunchTypeOK, RunTypeOK, Counting, LauncherAssumption, TurnsLeft
<1>1. rounds[r] \in Nat /\ done[r] \in Nat
  BY SetupLength
<1>2. CASE LaunchLost(r)
  BY <1>1, <1>2 DEF LaunchLost
<1>3. CASE ImageLookedAt(r)
  <2>1. CASE rounds[r] + 1 < AmiRounds
    BY <1>1, <1>3, <2>1 DEF ImageLookedAt
  <2>2. CASE ~(rounds[r] + 1 < AmiRounds)
    <3>1. pc[r] = "await" /\ pc'[r] = "terminate"
      BY <1>1, <1>3, <2>2 DEF ImageLookedAt
    <3> QED BY ONLY <3>1, PlaceGrows
  <2> QED BY <2>1, <2>2
<1>4. CASE CommandRun(r)
  <2>1. done[r] < Len(Setup) /\ done'[r] = done[r] + 1 /\ pc[r] = "setup"
    BY <1>4 DEF CommandRun
  <2>2. CASE done[r] + 1 = Len(Setup)
    <3>1. pc'[r] = "done"
      BY <1>1, <1>4, <2>1, <2>2 DEF CommandRun
    <3> QED BY ONLY <2>1, <3>1, PlaceGrows
  <2>3. CASE done[r] + 1 # Len(Setup)
    BY <1>1, <1>4, <2>1, <2>3, SetupLength DEF CommandRun
  <2> QED BY <2>2, <2>3
<1> QED BY <1>2, <1>3, <1>4

LEMMA OtherStepsAdvance ==
  ASSUME TypeInv, NEW r \in Runs, RunStep(r),
         ~(LaunchLost(r) \/ ImageLookedAt(r) \/ CommandRun(r))
  PROVE  Place[pc'[r]] > Place[pc[r]]
<1>1. ASSUME NEW from, NEW to, Trans(r, from, to) PROVE pc[r] = from /\ pc'[r] = to
  BY <1>1, Typed DEF Trans
<1>2. CASE Starts(r) \/ Refused(r)
  BY <1>1, <1>2, PlaceGrows DEF Starts, Refused
<1>3. CASE ManagerGroup(r) \/ WorkerGroup(r) \/ Manager2Group(r)
  BY <1>1, <1>3, PlaceGrows DEF ManagerGroup, WorkerGroup, Manager2Group, GroupCreated
<1>4. CASE WorkerRules(r) \/ Manager2Rules(r)
  BY <1>1, <1>4, PlaceGrows DEF WorkerRules, Manager2Rules, RulesAdded
<1>5. CASE BuilderLaunched(r) \/ HubLaunched(r)
  BY <1>1, <1>5, PlaceGrows DEF BuilderLaunched, HubLaunched, Launched
<1>6. CASE BuilderPrepared(r) \/ ImageCreated(r) \/ ImageSeen(r) \/ BuilderTerminated(r)
  BY <1>1, <1>6, PlaceGrows DEF BuilderPrepared, ImageCreated, ImageSeen, BuilderTerminated
<1>7. CASE HubReached(r) \/ ParamsMade(r)
  BY <1>1, <1>7, PlaceGrows DEF HubReached, ParamsMade
<1>8. CASE Raises(r)
  <2>1. pc[r] \in Working /\ pc'[r] = "failed"
    BY <1>8, Typed DEF Raises
  <2> QED BY <2>1, PlaceGrows DEF Working
<1> QED BY <1>2, <1>3, <1>4, <1>5, <1>6, <1>7, <1>8
        DEF RunStep, Proceeds, CommandSucceeds, CommandFailsQuietly

(* launch.py comes to its end within a number of calls that AmiRounds,     *)
(* Tries and the twelve commands bound, whatever AWS answers and whatever  *)
(* other runs and administrators do in between.                            *)
THEOREM LaunchesAdvance == Spec => RunsGetOn
<1>1. IInv /\ [Next]_vars
        => [\A r \in Runs : RunStep(r) =>
              \/ Place[pc'[r]] > Place[pc[r]]
              \/ pc'[r] = pc[r] /\ TurnsLeft(r)' \in 0..(TurnsLeft(r) - 1)]_vars
  BY LoopStepsCount, OtherStepsAdvance DEF IInv
<1> QED BY <1>1, Invariance, PTL DEF Spec, RunsGetOn

=============================================================================
