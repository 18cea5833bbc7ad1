----------------------- MODULE TerminateWorkersProofs -----------------------
(***************************************************************************)
(* Theorems about terminate_all_workers.py at work next to the hub, for    *)
(* any number of users, machines and coroutines.                           *)
(***************************************************************************)
EXTENDS TerminateWorkers, LoginProofs

---------------------------------------------------------------------------
(* The script, the table and the machines the hub has just been given      *)

(* A machine about to be recorded is in no row and in no hand but one.     *)
InHand ==
  \A t \in Tasks : pc[t] = "record" =>
    /\ inst[t] \notin Rows \union todo
    /\ \A s \in Tasks : pc[s] = "record" /\ inst[s] = inst[t] => s = t

(* The script holds machines that were launched for somebody, and one only *)
(* when it works for one user.                                             *)
HoldsLaunched == \A i \in todo : owner[i] # NoUser

HoldsOne == stage = "found" => \E i \in Instances : todo = {i}

ScriptInv ==
  /\ Inv1
  /\ OwnMachine
  /\ ScriptTypeOK
  /\ InHand
  /\ HoldsLaunched
  /\ HoldsOne
  /\ TerminatesUnlisted

LEMMA InitScript == ScriptInit => ScriptInv
BY InitInv2
DEF ScriptInit, ScriptInv, ScriptTypeOK, Stages, Init, Inv2, InHand,
    HoldsLaunched, HoldsOne, TerminatesUnlisted

(* A row names one machine, and each machine has one row at most.          *)
LEMMA RowsAreMachines ==
  ASSUME Inv1
  PROVE  /\ Rows \subseteq Instances
         /\ \A u \in Users : db[u] # NoInst => db[u] \in Rows
BY DEF Inv1, TypeOK, Rows

(* A quiet step gives no coroutine a fresh machine. *)
LEMMA QuietIsNotFresh ==
  ASSUME Inv1, Inv1', Quiet, NEW t \in Tasks, pc'[t] = "record"
  PROVE  pc[t] = "record" /\ inst'[t] = inst[t]
BY DEF Inv1, TypeOK, TaskTypeOK, Slots, Quiet, KeepsMachine, LaunchPcs

(* What the hub does keeps InHand: a machine EC2 has just given out was    *)
(* nobody's.                                                               *)
LEMMA HubKeepsInHand ==
  ASSUME ScriptInv, [Next]_vars, UNCHANGED scriptVars
  PROVE  InHand' /\ HoldsLaunched'
<1> USE CloudAssumption
    DEF ScriptInv, InHand, HoldsLaunched, Rows, scriptVars
<1>1. Inv1'
  BY StepInv1
<1>2. CASE Quiet
  <2>1. UNCHANGED <<owner, db, todo>>
    BY <1>2 DEF Quiet
  <2> QED
    BY <1>1, <1>2, <2>1, QuietIsNotFresh
<1>3. ASSUME NEW t \in Tasks, NEW i \in Instances,
             LaunchAnswered(t, i) \/ LaunchLost(t, i)
      PROVE  InHand' /\ HoldsLaunched'
  <2> USE DEF Inv1, TypeOK, TaskTypeOK, CloudTypeOK, Slots, OwnMachine
  <2>1. /\ pc[t] = "launch" /\ who[t] \in Users
        /\ owner[i] = NoUser
        /\ owner' = [owner EXCEPT ![i] = who[t]]
        /\ UNCHANGED <<db, todo>>
    BY <1>3 DEF LaunchAnswered, LaunchLost, RunInstance
  <2>2. \/ UNCHANGED taskVars
        \/ /\ pc' = [pc EXCEPT ![t] = "record"]
           /\ inst' = [inst EXCEPT ![t] = i]
    BY <1>3 DEF LaunchAnswered, LaunchLost
  <2>3. i \notin Rows \union todo
    BY <2>1
  <2>4. \A s \in Tasks : pc[s] = "record" => inst[s] # i
    <3> SUFFICES ASSUME NEW s \in Tasks, pc[s] = "record", inst[s] = i
                 PROVE  FALSE
      OBVIOUS
    <3>1. owner[i] = who[s]
      OBVIOUS
    <3>2. who[s] # NoUser
      OBVIOUS
    <3> QED
      BY <2>1, <3>1, <3>2
  <2>5. HoldsLaunched'
    BY <2>1
  <2>6. InHand'
    BY <2>1, <2>2, <2>3, <2>4 DEF taskVars
  <2> QED
    BY <2>5, <2>6
<1>4. ASSUME NEW t \in Tasks, Record(t)
      PROVE  InHand' /\ HoldsLaunched'
  <2> USE DEF Inv1, TypeOK, TaskTypeOK
  <2>1. /\ pc[t] = "record"
        /\ db' = [db EXCEPT ![who[t]] = inst[t]]
        /\ pc' = [pc EXCEPT ![t] = "await"]
        /\ UNCHANGED <<owner, inst, todo>>
    BY <1>4 DEF Record, Goto, cloudVars
  <2>2. Rows' \subseteq Rows \union {inst[t]}
    BY <2>1
  <2> QED
    BY <2>1, <2>2
<1> QED
  BY <1>2, <1>3, <1>4, StepKinds DEF Loud

(* What the hub does never puts a machine the script is about to terminate *)
(* back into the table.                                                    *)
LEMMA HubKeepsScriptInv ==
  ASSUME ScriptInv, [Next]_vars, UNCHANGED scriptVars
  PROVE  ScriptInv'
<1>1. Inv1' /\ OwnMachine' /\ InHand' /\ HoldsLaunched'
  BY StepInv1, StepOwnMachine, HubKeepsInHand DEF ScriptInv
<1>2. ScriptTypeOK' /\ HoldsOne'
  BY DEF ScriptInv, ScriptTypeOK, HoldsOne, scriptVars
<1>3. TerminatesUnlisted'
  <2> USE DEF ScriptInv, TerminatesUnlisted, scriptVars
  <2>1. CASE UNCHANGED db
    BY <2>1 DEF Rows
  <2>2. ASSUME NEW t \in Tasks, Record(t)
        PROVE  TerminatesUnlisted'
    <3>1. pc[t] = "record" /\ db' = [db EXCEPT ![who[t]] = inst[t]]
      BY <2>2 DEF Record
    <3>2. Rows' \subseteq Rows \union {inst[t]}
      BY <3>1 DEF Rows, Inv1, TypeOK
    <3>3. inst[t] \notin todo
      BY <3>1 DEF InHand
    <3> QED
      BY <3>2, <3>3
  <2> QED
    BY <2>1, <2>2, StepKinds
    DEF Loud, Quiet, LaunchAnswered, LaunchLost
<1> QED
  BY <1>1, <1>2, <1>3 DEF ScriptInv

---------------------------------------------------------------------------
(* The steps of the script *)

(* Terminating machines keeps their types and whose they are.              *)
LEMMA TerminatedKeeps ==
  ASSUME Inv1, OwnMachine, HoldsLaunched, Terminated(todo)
  PROVE  /\ Inv1' /\ OwnMachine'
         /\ UNCHANGED <<owner, db, taskVars, hubVars>>
<1> USE DEF Terminated, taskVars, fabricVars, hubVars
<1>1. CloudTypeOK'
  BY DEF Inv1, TypeOK, CloudTypeOK, InstanceStates
<1>2. Inv1'
  BY <1>1 DEF Inv1, TypeOK, TaskTypeOK, FabricTypeOK, HubTypeOK, Slots
<1>3. OwnMachine'
  BY DEF OwnMachine, Live, HoldsLaunched, Inv1, TypeOK, CloudTypeOK
<1> QED
  BY <1>2, <1>3

LEMMA ScriptStepInv ==
  ASSUME ScriptInv, ScriptStep
  PROVE  ScriptInv'
<1> USE DEF ScriptInv
<1>1. ASSUME UNCHANGED vars
      PROVE  Inv1' /\ OwnMachine' /\ UNCHANGED <<owner, db, pc, inst, Rows>>
  <2>1. [Next]_vars
    BY <1>1
  <2> QED
    BY <1>1, <2>1, StepInv1, StepOwnMachine
    DEF vars, cloudVars, taskVars, Rows
<1>2. ASSUME NEW u \in Users, DeleteFinds(u)
      PROVE  ScriptInv'
  <2>1. /\ UNCHANGED vars /\ UNCHANGED failed
        /\ todo' = {db[u]} /\ stage' = "found" /\ db[u] # NoInst
    BY <1>2 DEF DeleteFinds
  <2>2. db[u] \in Instances /\ db[u] \in Rows /\ owner[db[u]] = u
    BY <2>1, RowsAreMachines DEF OwnMachine
  <2> QED
    BY <1>1, <2>1, <2>2, CloudAssumption
    DEF ScriptTypeOK, Stages, InHand, HoldsLaunched, HoldsOne,
        TerminatesUnlisted
<1>3. CASE DeleteRemoves
  <2>1. /\ db' = [u \in Users |-> IF db[u] \in todo THEN NoInst ELSE db[u]]
        /\ stage' = "removed"
        /\ UNCHANGED <<cloudVars, taskVars, fabricVars, hubVars, todo, failed>>
    BY <1>3 DEF DeleteRemoves
  <2>2. Inv1'
    BY <2>1
    DEF Inv1, TypeOK, CloudTypeOK, TaskTypeOK, FabricTypeOK, HubTypeOK, Slots,
        cloudVars, taskVars, fabricVars, hubVars
  <2>3. OwnMachine'
    BY <2>1 DEF OwnMachine, cloudVars, taskVars
  <2>4. Rows' \subseteq Rows \ todo
    BY <2>1 DEF Rows
  <2> QED
    BY <2>1, <2>2, <2>3, <2>4
    DEF ScriptTypeOK, Stages, InHand, HoldsLaunched, HoldsOne,
        TerminatesUnlisted, cloudVars, taskVars
<1>4. CASE DeleteTerminates \/ AllTerminated
  <2>1. /\ Inv1' /\ OwnMachine'
        /\ UNCHANGED <<owner, db, taskVars, failed>>
        /\ stage' = "idle" /\ todo' = {}
    BY <1>4, TerminatedKeeps DEF DeleteTerminates, AllTerminated, Done
  <2> QED
    BY <2>1
    DEF ScriptTypeOK, Stages, InHand, Rows, HoldsLaunched, HoldsOne,
        TerminatesUnlisted, taskVars
<1>5. CASE DeleteFails \/ AllRaises \/ ScriptDies
  <2>1. /\ UNCHANGED vars /\ stage' = "idle" /\ todo' = {}
        /\ failed' \subseteq failed \union todo
    BY <1>5 DEF DeleteFails, AllRaises, ScriptDies, Done
  <2> QED
    BY <1>1, <2>1
    DEF ScriptTypeOK, Stages, InHand, HoldsLaunched, HoldsOne,
        TerminatesUnlisted
<1>6. CASE AllListed
  <2>1. UNCHANGED <<vars, failed>> /\ stage' = "listed" /\ todo' = Rows
    BY <1>6 DEF AllListed
  <2>2. \A i \in Rows : owner[i] # NoUser
    BY CloudAssumption DEF Rows, OwnMachine
  <2> QED
    BY <1>1, <2>1, <2>2, RowsAreMachines
    DEF ScriptTypeOK, Stages, InHand, HoldsLaunched, HoldsOne,
        TerminatesUnlisted
<1> QED
  BY <1>2, <1>3, <1>4, <1>5, <1>6 DEF ScriptStep

LEMMA NextScriptInv ==
  ASSUME ScriptInv, [ScriptNext]_allVars
  PROVE  ScriptInv'
<1>1. CASE UNCHANGED allVars
  BY <1>1, HubKeepsScriptInv DEF allVars
<1> QED
  BY <1>1, HubKeepsScriptInv, ScriptStepInv DEF ScriptNext

(* The script and the hub keep their types together. *)
THEOREM ScriptTypeCorrect == ScriptSpec => []ScriptTypeOK
BY InitScript, NextScriptInv, PTL DEF ScriptSpec, ScriptInv

(* A row never names a machine launched for somebody else, also when the   *)
(* script takes rows out under the coroutines that have read them.         *)
THEOREM MachinesStayThroughDeletes == ScriptSpec => []OwnMachine
BY InitScript, NextScriptInv, PTL DEF ScriptSpec, ScriptInv

(* delete_user_ec2 terminates only what is in no row any more. *)
THEOREM UnlistedBeforeTerminated == ScriptSpec => []TerminatesUnlisted
BY InitScript, NextScriptInv, PTL DEF ScriptSpec, ScriptInv

(* The script takes rows out one at a time and does nothing else to the    *)
(* table: together with the hub it implements Tenancy with releases.       *)
THEOREM ImplementsAdminTenancy == ScriptSpec => ScriptTenancy
<1>1. ScriptInit => T!Init
  BY DEF ScriptInit, Init, CloudInit, T!Init
<1>2. ASSUME ScriptInv, [ScriptNext]_allVars
      PROVE  [T!AdminNext]_<<owner, db>>
  <2>1. CASE DeleteRemoves
    <3>1. PICK i \in Instances : todo = {i}
      BY <1>2, <2>1 DEF DeleteRemoves, ScriptInv, HoldsOne
    <3>2. db' = [u \in Users |-> IF db[u] = i THEN NoInst ELSE db[u]]
      BY <2>1, <3>1 DEF DeleteRemoves
    <3>3. UNCHANGED owner
      BY <2>1 DEF DeleteRemoves, cloudVars
    <3>4. CASE \E u \in Users : db[u] = i
      <4>1. PICK u \in Users : db[u] = i
        BY <3>4
      <4>2. db \in [Users -> Instances \union {NoInst}]
        BY <1>2 DEF ScriptInv, Inv1, TypeOK
      <4>3. i # NoInst
        BY CloudAssumption
      <4>4. \A v \in Users : db[v] = i => v = u
        BY <1>2, <4>1, <4>3 DEF ScriptInv, OwnMachine
      <4>5. db' = [db EXCEPT ![u] = NoInst]
        BY <3>2, <4>1, <4>2, <4>4
      <4>6. T!Release(u)
        BY <3>3, <4>1, <4>3, <4>5 DEF T!Release
      <4> QED
        BY <4>6 DEF T!AdminNext
    <3>5. CASE \A u \in Users : db[u] # i
      <4>1. db' = db
        BY <1>2, <3>2, <3>5 DEF ScriptInv, Inv1, TypeOK
      <4> QED
        BY <3>3, <4>1
    <3> QED
      BY <3>4, <3>5
  <2>2. CASE [Next]_vars
    BY <1>2, <2>2, StepTenancy DEF ScriptInv, T!AdminNext
  <2>3. CASE ScriptStep /\ ~DeleteRemoves
    BY <2>3
    DEF ScriptStep, DeleteFinds, DeleteTerminates, DeleteFails, AllListed,
        AllTerminated, AllRaises, ScriptDies, Terminated, vars, cloudVars
  <2> QED
    BY <1>2, <2>1, <2>2, <2>3 DEF ScriptNext, allVars
<1>3. ScriptInv /\ [ScriptNext]_allVars => ScriptInv'
  BY NextScriptInv
<1> QED
  BY <1>1, <1>2, <1>3, InitScript, PTL
  DEF ScriptSpec, ScriptTenancy, T!AdminSpec

---------------------------------------------------------------------------
(* No machine is left behind, when no start() is abandoned, lost in a      *)
(* crash, or told of an error by a launch that took effect                 *)

LeftInv ==
  /\ ScriptInv
  /\ HubAgrees
  /\ StartsAwaited
  /\ LaunchesFirst
  /\ NoneLeftBehind

(* The script touches no coroutine. *)
LEMMA ScriptApart == ScriptStep => UNCHANGED <<taskVars, hubVars>>
BY DEF ScriptStep, DeleteFinds, DeleteRemoves, DeleteTerminates, DeleteFails,
       AllListed, AllTerminated, AllRaises, ScriptDies, Terminated, vars

(* The script touches no coroutine and writes no row. *)
LEMMA ScriptKeepsCoroutines ==
  ASSUME ScriptInv, HubAgrees, StartsAwaited, LaunchesFirst, ScriptStep
  PROVE  HubAgrees' /\ StartsAwaited' /\ LaunchesFirst'
<1>1. UNCHANGED <<taskVars, hubVars>>
  BY ScriptApart
<1>2. \A u \in Users : db[u] = NoInst => db'[u] = NoInst
  BY DEF ScriptStep, DeleteFinds, DeleteRemoves, DeleteTerminates, DeleteFails,
         AllListed, AllTerminated, AllRaises, ScriptDies, Terminated, vars
<1>3. LaunchesFirst'
  <2> SUFFICES ASSUME NEW t \in Tasks, pc[t] \in LaunchPcs
               PROVE  db'[who[t]] = NoInst
    BY <1>1 DEF LaunchesFirst, taskVars
  <2>1. who[t] \in Users
    BY DEF ScriptInv, Inv1, TypeOK, TaskTypeOK, Slots, LaunchPcs
  <2> QED
    BY <1>2, <2>1 DEF LaunchesFirst
<1> QED
  BY <1>1, <1>3 DEF HubAgrees, StartsAwaited, Awaited, taskVars, hubVars

(* What the hub does leaves no machine behind. *)
LEMMA HubLeavesNone ==
  ASSUME NoMishap, LeftInv, [Next]_vars, UNCHANGED scriptVars
  PROVE  NoneLeftBehind'
<1> USE CloudAssumption
    DEF LeftInv, ScriptInv, NoneLeftBehind, Inv1, TypeOK, TaskTypeOK, Slots,
        Rows, scriptVars
<1>1. CASE Quiet
  <2>1. \A t \in Tasks :
          pc[t] = "record" => pc'[t] = "record" /\ inst'[t] = inst[t]
    BY <1>1, QuietKeepsFresh
  <2>2. UNCHANGED db /\ \A i \in Instances : Live(i)' => Live(i)
    BY <1>1 DEF Quiet
  <2> QED
    BY <2>1, <2>2
<1>2. ASSUME NEW t \in Tasks, NEW i \in Instances, LaunchAnswered(t, i)
      PROVE  NoneLeftBehind'
  <2>1. /\ pc[t] = "launch"
        /\ pc' = [pc EXCEPT ![t] = "record"]
        /\ inst' = [inst EXCEPT ![t] = i]
        /\ UNCHANGED db
    BY <1>2 DEF LaunchAnswered
  <2>2. \A j \in Instances : j # i /\ Live(j)' => Live(j)
    BY <1>2 DEF LaunchAnswered, RunInstance, Live, CloudTypeOK
  <2> QED
    BY <2>1, <2>2
<1>3. ~\E t \in Tasks, i \in Instances : LaunchLost(t, i)
  BY DEF LaunchLost, NoMishap
<1>4. ASSUME NEW t \in Tasks, Record(t)
      PROVE  NoneLeftBehind'
  <2>1. /\ pc[t] = "record" /\ who[t] \in Users
        /\ db[who[t]] = NoInst
        /\ db' = [db EXCEPT ![who[t]] = inst[t]]
        /\ pc' = [pc EXCEPT ![t] = "await"]
        /\ UNCHANGED <<cloudVars, inst>>
    BY <1>4 DEF Record, Goto
  <2>2. \A j \in Instances : Live(j)' => Live(j)
    BY <2>1 DEF Live, cloudVars
  <2>3. Rows' = Rows \union {inst[t]}
    BY <2>1
  <2> QED
    BY <2>1, <2>2, <2>3
<1> QED
  BY <1>1, <1>2, <1>3, <1>4, StepKinds DEF Loud

(* A machine the script lets go of is terminated, reported, or the one the *)
(* script was killed over.                                                 *)
LEMMA ScriptLeavesNone ==
  ASSUME LeftInv, ScriptStep
  PROVE  NoneLeftBehind'
<1> USE DEF LeftInv, NoneLeftBehind
<1>1. \A i \in Instances : Live(i)' => Live(i)
  BY DEF ScriptStep, DeleteFinds, DeleteRemoves, DeleteTerminates, DeleteFails,
         AllListed, AllTerminated, AllRaises, ScriptDies, Terminated, vars, cloudVars, Live
<1>2. UNCHANGED taskVars
  BY DEF ScriptStep, DeleteFinds, DeleteRemoves, DeleteTerminates, DeleteFails,
         AllListed, AllTerminated, AllRaises, ScriptDies, Terminated, vars
<1>3. CASE DeleteRemoves
  <2>1. Rows \ todo \subseteq Rows'
    BY <1>3 DEF DeleteRemoves, Rows
  <2> QED
    BY <1>1, <1>2, <1>3, <2>1 DEF DeleteRemoves, taskVars
<1>4. CASE DeleteTerminates \/ AllTerminated
  <2>1. \A i \in todo \intersect Instances : ~Live(i)'
    BY <1>4 DEF DeleteTerminates, AllTerminated, Terminated, Live
  <2>2. UNCHANGED <<db, failed>>
    BY <1>4 DEF DeleteTerminates, AllTerminated, Terminated
  <2>3. stage \in {"removed", "listed"}
    BY <1>4 DEF DeleteTerminates, AllTerminated
  <2> QED
    BY <1>1, <1>2, <2>1, <2>2, <2>3 DEF taskVars, Rows
<1>5. CASE DeleteFails \/ ScriptDies
  BY <1>1, <1>2, <1>5 DEF DeleteFails, ScriptDies, Rows, vars, taskVars
<1>6. CASE \/ \E u \in Users : DeleteFinds(u)
           \/ AllListed
           \/ AllRaises
  <2>1. UNCHANGED <<db, failed>> /\ stage # "removed"
    BY <1>6 DEF DeleteFinds, AllListed, AllRaises, vars
  <2> QED
    BY <1>1, <1>2, <2>1 DEF taskVars, Rows
<1> QED
  BY <1>3, <1>4, <1>5, <1>6 DEF ScriptStep

(* Every machine that runs up costs is in the table, in the hands of the   *)
(* hub or of the script, or one the script has reported.                   *)
THEOREM NoMachineLeftBehind == NoMishap => (ScriptSpec => []NoneLeftBehind)
<1> SUFFICES ASSUME NoMishap PROVE ScriptSpec => []NoneLeftBehind
  OBVIOUS
<1>1. ScriptInit => LeftInv
  BY InitScript, InitInv4
  DEF ScriptInit, LeftInv, Inv4, Init, CloudInit, NoneLeftBehind, Live
<1>2. ASSUME LeftInv, [Next]_vars, UNCHANGED scriptVars
      PROVE  LeftInv'
  <2>1. Inv3
    BY <1>2 DEF Inv3, LeftInv, ScriptInv
  <2>2. HubAgrees' /\ StartsAwaited' /\ LaunchesFirst'
    BY <1>2, <2>1, StepInv3, StepStartsAwaited, StepLaunchesFirst
    DEF LeftInv, Inv3
  <2> QED
    BY <1>2, <2>2, HubKeepsScriptInv, HubLeavesNone DEF LeftInv
<1>3. ASSUME LeftInv, ScriptStep
      PROVE  LeftInv'
  BY <1>3, ScriptStepInv, ScriptKeepsCoroutines, ScriptLeavesNone DEF LeftInv
<1>4. LeftInv /\ [ScriptNext]_allVars => LeftInv'
  BY <1>2, <1>3 DEF ScriptNext, allVars
<1>5. LeftInv => NoneLeftBehind
  BY DEF LeftInv
<1> QED
  BY <1>1, <1>4, <1>5, PTL DEF ScriptSpec

---------------------------------------------------------------------------
(* The hub next to the script *)

LEMMA ScriptInvs == ScriptSpec => [](ScriptInv /\ HubAgrees)
<1>1. ScriptInit => ScriptInv /\ HubAgrees
  BY InitScript, InitInv3 DEF ScriptInit, Inv3
<1>2. ASSUME ScriptInv, HubAgrees, [ScriptNext]_allVars
      PROVE  ScriptInv' /\ HubAgrees'
  <2>1. CASE ScriptStep
    BY <1>2, <2>1, ScriptStepInv, ScriptApart DEF HubAgrees, taskVars, hubVars
  <2>2. CASE [Next]_vars /\ UNCHANGED scriptVars
    BY <1>2, <2>2, HubKeepsScriptInv, StepInv3 DEF ScriptInv, Inv3
  <2> QED BY <1>2, <2>1, <2>2 DEF ScriptNext, allVars
<1> QED BY <1>1, <1>2, PTL DEF ScriptSpec

(* Rows that leave the table under the hands of coroutines, and machines   *)
(* that go down in the middle of a login, keep no login waiting: the hub   *)
(* and its coroutines agree and calls get shorter all the same.            *)
THEOREM WaitsShortenThroughDeletes == ScriptSpec => []HubAgrees /\ WaitsShorten
<1> DEFINE Shorter ==
      \A u \in Users, t \in Tasks :
        call[u] = t /\ call'[u] # NoTask =>
          /\ Closing(u) => Closing(u)'
          /\ IF call'[u] = t THEN pc'[t] # pc[t] => CallsLeft[pc'[t]] < CallsLeft[pc[t]]
                             ELSE ~Closing(u) /\ hub'[u] = "quitting"
<1>1. ASSUME ScriptInv, HubAgrees, [ScriptNext]_allVars PROVE Shorter
  <2>1. CASE ScriptStep
    <3>1. UNCHANGED <<pc, hub, call>>
      BY <2>1, ScriptApart DEF taskVars, hubVars
    <3> QED BY <3>1 DEF Closing
  <2>2. CASE [Next]_vars
    BY <1>1, <2>2, WaitShortens DEF ScriptInv, Inv3, StillWaits
  <2> QED BY <1>1, <2>1, <2>2 DEF ScriptNext, allVars
<1>2. ScriptInv /\ HubAgrees /\ [ScriptNext]_allVars => [Shorter]_vars
  BY <1>1
<1> QED BY <1>2, ScriptInvs, PTL DEF ScriptSpec, WaitsShorten

=============================================================================
