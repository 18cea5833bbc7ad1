---------------------------- MODULE CullerProofs ----------------------------
(***************************************************************************)
(* Theorems about the culler at work next to the hub, for any number of    *)
(* users, machines, coroutines and overlapping culls, and every set of     *)
(* faults.                                                                 *)
(***************************************************************************)
EXTENDS Culler, LoginProofs

(* A cull has a machine in hand exactly while it loads it. *)
Targets == \A c \in Culls : cpc[c] = "load" <=> target[c] # NoInst

(* The machines the culler is after are in the table. *)
CullInv == Inv2 /\ CullTypeOK /\ Targets /\ CullsRecorded

LEMMA InitCull == CullInit => CullInv
BY InitInv2, CloudAssumption, CullAssumption
DEF CullInit, CullInv, CullTypeOK, CullPcs, Targets, CullsRecorded, Inv2, Inv1,
    TypeOK, Init

---------------------------------------------------------------------------
(* The hub next to the culler *)

(* A row, once written, stays. *)
LEMMA RowStays ==
  ASSUME Inv2, [Next]_vars, NEW u \in Users, NEW i \in Instances, db[u] = i
  PROVE  db'[u] = i
<1> USE CloudAssumption DEF Inv2, Inv1, TypeOK
<1>1. [T!Next]_<<owner, db>>
  BY StepTenancy
<1>2. ASSUME NEW j \in Instances, NEW v \in Users, T!Launch(j, v)
      PROVE  db'[u] = i
  BY <1>2 DEF T!Launch
<1>3. ASSUME NEW j \in Instances, NEW v \in Users, T!Bind(j, v)
      PROVE  db'[u] = i
  BY <1>3 DEF T!Bind
<1> QED
  BY <1>1, <1>2, <1>3 DEF T!Next

(* What the hub does takes nothing the culler is after out of the table.   *)
LEMMA HubKeepsCulls ==
  ASSUME CullInv, [Next]_vars, UNCHANGED <<target, sends>>
  PROVE  Inv2' /\ CullsRecorded'
<1>1. Inv2'
  BY StepInv2 DEF CullInv
<1> QED
  BY <1>1, RowStays DEF CullInv, CullsRecorded

(* What the culler does by itself concerns neither the hub nor the table.  *)
LEMMA CullerAlone ==
  ASSUME CullInv, UNCHANGED vars
  PROVE  Inv2' /\ UNCHANGED db
<1>1. [Next]_vars
  OBVIOUS
<1> QED
  BY <1>1, StepInv2 DEF CullInv, vars

---------------------------------------------------------------------------
(* The steps of the culler *)

LEMMA CullStepInv ==
  ASSUME CullInv, NEW c \in Culls, CullStep(c)
  PROVE  CullInv'
<1> USE DEF CullInv
<1>1. ASSUME NEW u \in Users, NEW t \in Tasks, DeleteHandled(c, u, t)
      PROVE  CullInv'
  <2>1. Inv2' /\ CullsRecorded'
    BY <1>1, HubKeepsCulls DEF DeleteHandled, Next, HubStep
  <2> QED
    BY <1>1, <2>1 DEF DeleteHandled, CullTypeOK, Targets
<1>2. CASE KillSeesRunning(c)
  <2>1. target[c] \in Instances /\ target[c] # NoInst
    BY <1>2 DEF KillSeesRunning, Targets, CullTypeOK
  <2> QED
    BY <1>2, <2>1, CullerAlone, CloudAssumption
    DEF KillSeesRunning, CullTypeOK, CullPcs, Targets, CullsRecorded
<1>3. ASSUME NEW u \in Users, KillBegins(c, u)
      PROVE  CullInv'
  <2>1. db[u] \in Instances \union {NoInst}
    BY DEF Inv2, Inv1, TypeOK
  <2>2. Inv2' /\ UNCHANGED <<db, sends>>
    BY <1>3, CullerAlone DEF KillBegins
  <2>3. CullTypeOK'
    BY <1>3, <2>1 DEF KillBegins, CullTypeOK, CullPcs
  <2>4. CASE db[u] = NoInst
    BY <1>3, <2>2, <2>3, <2>4 DEF KillBegins, Targets, CullsRecorded
  <2>5. CASE db[u] # NoInst
    <3>1. /\ cpc' = [cpc EXCEPT ![c] = "load"]
          /\ target' = [target EXCEPT ![c] = db[u]]
      BY <1>3, <2>5 DEF KillBegins
    <3>2. Targets'
      BY <2>5, <3>1 DEF CullTypeOK, Targets
    <3>3. CullsRecorded'
      BY <2>2, <3>1 DEF CullTypeOK, CullsRecorded
    <3> QED
      BY <2>2, <2>3, <3>2, <3>3
  <2> QED
    BY <2>4, <2>5
<1>4. CASE KillSeesDown(c) \/ KillRaises(c)
  <2>1. /\ UNCHANGED <<vars, deaths, active, asked, handled, sends>>
        /\ \E p \in {"check", "off"} : cpc' = [cpc EXCEPT ![c] = p]
        /\ target' = [target EXCEPT ![c] = NoInst]
        /\ check' \in {check, [check EXCEPT ![c] = {}]}
    BY <1>4 DEF KillSeesDown, KillRaises
  <2>2. CullTypeOK' /\ Targets'
    BY <2>1 DEF CullTypeOK, CullPcs, Targets
  <2>3. Inv2' /\ UNCHANGED <<db, sends>>
    BY <2>1, CullerAlone
  <2>4. CullsRecorded'
    BY <2>1, <2>3, CloudAssumption DEF CullTypeOK, CullsRecorded
  <2> QED
    BY <2>2, <2>3, <2>4
<1>5. CASE UsersListed(c) \/ AllAnswered(c) \/ CullEnds(c)
  BY <1>5, CullerAlone
  DEF UsersListed, AllAnswered, CullEnds, CullTypeOK, CullPcs, Targets,
      CullsRecorded
<1>6. ASSUME NEW u \in Users,
             \/ DeleteRefused(c, u) \/ DeletePending(c, u)
             \/ DeleteDone(c, u) \/ DeleteErrs(c, u)
      PROVE  CullInv'
  BY <1>6, CullerAlone
  DEF DeleteRefused, DeletePending, DeleteDone, DeleteErrs, CullTypeOK, Targets,
      CullsRecorded
<1> QED
  BY <1>1, <1>2, <1>3, <1>4, <1>5, <1>6 DEF CullStep

(* A stop of the culler reaches EC2: no machine changes hands.             *)
LEMMA KillReachesInv ==
  ASSUME CullInv, NEW i \in Instances, KillReaches(i)
  PROVE  CullInv'
<1> USE DEF CullInv, KillReaches
<1>1. CloudTypeOK'
  BY CloudType DEF Inv2, Inv1, TypeOK
<1>2. Inv1'
  BY <1>1
  DEF Inv2, Inv1, TypeOK, TaskTypeOK, FabricTypeOK, HubTypeOK, Slots, taskVars,
      fabricVars, hubVars
<1>3. UNCHANGED owner /\ \A j \in Instances : ec2'[j] = "none" <=> ec2[j] = "none"
  BY QuietCloud DEF Inv2, Inv1, TypeOK
<1>4. Inv2'
  BY <1>2, <1>3 DEF Inv2, OwnMachine, SnapshotFresh, taskVars
<1> QED
  BY <1>4 DEF CullTypeOK, Targets, CullsRecorded

(* The hub dies and is started again: the table is as it was, and no cull  *)
(* that has a machine in hand notices.                                     *)
LEMMA HubDiesInv ==
  ASSUME CullInv, HubDies
  PROVE  CullInv'
<1> USE DEF CullInv, HubDies
<1>1. UNCHANGED <<cloudVars, db>> /\ inst' = [t \in Tasks |-> NoInst]
  BY DEF Restarted
<1>2. Inv1'
  BY <1>1, CloudAssumption
  DEF Restarted, Inv2, Inv1, TypeOK, CloudTypeOK, cloudVars, Slots, TaskTypeOK,
      FabricTypeOK, HubTypeOK, HubStates, LaunchPcs
<1>3. Inv2'
  BY <1>1, <1>2, CloudAssumption
  DEF Restarted, Inv2, Inv1, TypeOK, TaskTypeOK, OwnMachine, SnapshotFresh,
      cloudVars, LaunchPcs
<1>4. CullTypeOK' /\ Targets'
  <2>1. deaths' \in 0..Deaths
    BY CullAssumption DEF CullTypeOK
  <2>2. PICK going \in SUBSET {c \in Culls : cpc[c] = "wait"} :
          /\ cpc' = [c \in Culls |->
                      IF cpc[c] \in {"fetch", "wait"} /\ c \notin going THEN "off" ELSE cpc[c]]
          /\ check' = [c \in Culls |->
                        IF c \in going THEN check[c] \union asked[c] \union handled[c]
                        ELSE IF cpc[c] = "wait" THEN {} ELSE check[c]]
    OBVIOUS
  <2>3. cpc' \in [Culls -> CullPcs] /\ Targets'
    BY <2>2 DEF CullTypeOK, CullPcs, Targets
  <2>4. check' \in [Culls -> SUBSET Users]
    BY <2>2, Zenon DEF CullTypeOK
  <2> QED
    BY <2>1, <2>3, <2>4 DEF CullTypeOK
<1>5. CullsRecorded'
  BY <1>1 DEF CullsRecorded
<1> QED
  BY <1>3, <1>4, <1>5

LEMMA NextCullInv ==
  ASSUME CullInv, [CullNext]_allVars
  PROVE  CullInv'
<1> USE DEF CullInv
<1>1. CASE HubMoves
  <2>1. Inv2' /\ CullsRecorded'
    BY <1>1, HubKeepsCulls DEF HubMoves, cullVars
  <2> QED
    BY <1>1, <2>1 DEF HubMoves, cullVars, CullTypeOK, Targets
<1>2. ASSUME NEW u \in Users, UserActs(u) \/ UserIdles(u)
      PROVE  CullInv'
  BY <1>2, CullerAlone
  DEF UserActs, UserIdles, cullVars, CullTypeOK, Targets, CullsRecorded
<1>3. ASSUME NEW c \in Culls, CullStarts(c)
      PROVE  CullInv'
  BY <1>3, CullerAlone
  DEF CullStarts, CullTypeOK, CullPcs, Targets, CullsRecorded
<1>4. ASSUME NEW c \in Culls, CullStep(c)
      PROVE  CullInv'
  BY <1>4, CullStepInv
<1>5. ASSUME NEW i \in Instances, KillReaches(i)
      PROVE  CullInv'
  BY <1>5, KillReachesInv
<1>6. ASSUME NEW i \in Instances, KillGivesUp(i)
      PROVE  CullInv'
  BY <1>6, CullerAlone DEF KillGivesUp, CullTypeOK, Targets, CullsRecorded
<1>7. CASE HubDies
  BY <1>7, HubDiesInv
<1>8. CASE UNCHANGED allVars
  BY <1>8, CullerAlone
  DEF allVars, cullVars, CullTypeOK, Targets, CullsRecorded
<1> QED
  BY <1>1, <1>2, <1>3, <1>4, <1>5, <1>6, <1>7, <1>8 DEF CullNext

---------------------------------------------------------------------------
(* The variables of the culler keep their types, however many culls        *)
(* overlap.                                                                *)
THEOREM CullTypeCorrect == CullSpec => []CullTypeOK
BY InitCull, NextCullInv, PTL DEF CullSpec, CullInv

(* The culler stops no machine that is not, at that moment, in the table.  *)
THEOREM CullsOnlyRecorded == CullSpec => []CullsRecorded
BY InitCull, NextCullInv, PTL DEF CullSpec, CullInv

---------------------------------------------------------------------------
(* What the hub promises with the culler at work.  To the hub a step of    *)
(* the culler is one of its own, a death, or a machine that goes down.     *)
LEMMA HubSees ==
  ASSUME [CullNext]_allVars
  PROVE  [Next]_vars \/ HubDies \/ \E i \in Instances : KillReaches(i)
<1>1. ASSUME NEW c \in Culls, CullStep(c) PROVE [Next]_vars
  <2>1. ASSUME NEW u \in Users, NEW t \in Tasks, DeleteHandled(c, u, t) PROVE Next
    BY <2>1 DEF DeleteHandled, HubStep, Next
  <2> QED
    BY <1>1, <2>1
    DEF CullStep, UsersListed, DeleteRefused, DeletePending, DeleteDone, DeleteErrs,
        AllAnswered, CullEnds, KillBegins, KillSeesRunning, KillSeesDown, KillRaises
<1> QED
  BY <1>1 DEF CullNext, HubMoves, UserActs, UserIdles, CullStarts, KillGivesUp, allVars

(* The hub and its coroutines agree after a death, and after a stop of the *)
(* culler they have not heard of.                                          *)
CullInv3 == CullInv /\ HubAgrees

LEMMA NextCullInv3 ==
  ASSUME CullInv3, [CullNext]_allVars
  PROVE  CullInv3'
<1> USE DEF CullInv3
<1>1. CullInv'
  BY NextCullInv
<1>2. CASE [Next]_vars
  <2>1. Inv3
    BY DEF CullInv, Inv2, Inv3
  <2>2. HubAgrees'
    BY <1>2, <2>1, StepInv3 DEF Inv3
  <2> QED BY <1>1, <2>2
<1>3. CASE HubDies
  BY <1>1, <1>3 DEF HubDies, Restarted, HubAgrees, HubStates, CullInv, Inv2, Inv1, TypeOK, HubTypeOK
<1>4. ASSUME NEW i \in Instances, KillReaches(i) PROVE HubAgrees'
  BY <1>4 DEF KillReaches, HubAgrees, taskVars, hubVars
<1> QED BY <1>1, <1>2, <1>3, <1>4, HubSees

LEMMA CullInvs == CullSpec => []CullInv3
<1>1. CullInit => CullInv3
  BY InitCull, InitInv3 DEF CullInit, CullInv3, Inv3
<1>2. CullInv3 /\ [CullNext]_allVars => CullInv3'
  BY NextCullInv3
<1> QED BY <1>1, <1>2, PTL DEF CullSpec

(* The culler and the deaths of the hub give nobody a machine of somebody  *)
(* else, take no row out of the table, leave no coroutine with a stale one *)
(* and the hub waiting for nobody.                                         *)
THEOREM CullerKeepsTable == CullSpec => Tenancy /\ [](OwnMachine /\ SnapshotFresh /\ HubAgrees)
<1>1. CullInit => T!Init
  BY DEF CullInit, Init, CloudInit, T!Init
<1>2. CullInv3 /\ [CullNext]_allVars => [T!Next]_<<owner, db>>
  <2> SUFFICES ASSUME CullInv3, [CullNext]_allVars PROVE [T!Next]_<<owner, db>>
    OBVIOUS
  <2>1. CASE [Next]_vars
    BY <2>1, StepTenancy DEF CullInv3, CullInv, Inv2
  <2>2. CASE HubDies
    BY <2>2 DEF HubDies, Restarted, cloudVars
  <2>3. ASSUME NEW i \in Instances, KillReaches(i) PROVE UNCHANGED <<owner, db>>
    BY <2>3 DEF KillReaches, StopInstance
  <2> QED BY <2>1, <2>2, <2>3, HubSees
<1>3. CullInv3 => OwnMachine /\ SnapshotFresh /\ HubAgrees
  BY DEF CullInv3, CullInv, Inv2
<1> QED BY <1>1, <1>2, <1>3, CullInvs, PTL DEF CullSpec, Tenancy, T!Spec

(* With the culler stopping machines behind the hub's back a login still   *)
(* succeeds only where the user's own machine answers, a terminated        *)
(* machine stays in its row and in the way, and calls still get shorter.   *)
THEOREM CullerSparesLogins == CullSpec => LoginsLand /\ LostForGood /\ WaitsShorten
<1> DEFINE Landed ==
      \A u \in Users :
        hub[u] = "spawning" /\ hub'[u] = "up" =>
          db[u] # NoInst /\ owner[db[u]] = u /\ Serves(db[u])
    KeptLost ==
      \A u \in Users : Lost(u) => Lost(u)' /\ ~(hub[u] = "spawning" /\ hub'[u] = "up")
    Shorter ==
      \A u \in Users, t \in Tasks :
        call[u] = t /\ call'[u] # NoTask =>
          /\ Closing(u) => Closing(u)'
          /\ IF call'[u] = t THEN pc'[t] # pc[t] => CallsLeft[pc'[t]] < CallsLeft[pc[t]]
                             ELSE ~Closing(u) /\ hub'[u] = "quitting"
<1>1. CullInv3 /\ [CullNext]_allVars => Landed /\ KeptLost /\ Shorter
  <2> SUFFICES ASSUME CullInv3, [CullNext]_allVars PROVE Landed /\ KeptLost /\ Shorter
    OBVIOUS
  <2>1. Inv2 /\ Inv3
    BY DEF CullInv3, CullInv, Inv2, Inv3
  <2>2. CASE [Next]_vars
    <3>1. Landed
      BY <2>1, <2>2, LoginLands
    <3>2. KeptLost
      <4> SUFFICES ASSUME NEW u \in Users, Lost(u)
                   PROVE  Lost(u)' /\ ~(hub[u] = "spawning" /\ hub'[u] = "up")
        OBVIOUS
      <4>1. ~Serves(db[u])
        BY DEF Serves, Reachable, Lost, Live
      <4> QED BY <2>1, <2>2, <3>1, <4>1, LostStays
    <3>3. Shorter
      BY <2>1, <2>2, WaitShortens DEF StillWaits
    <3> QED BY <3>1, <3>2, <3>3
  <2>3. CASE HubDies
    <3>1. /\ call' = [u \in Users |-> NoTask]
          /\ \A u \in Users : hub[u] = "spawning" => hub'[u] # "up"
          /\ UNCHANGED <<ec2, db>>
      BY <2>3 DEF HubDies, Restarted, cloudVars
    <3> QED BY <3>1 DEF Lost, Live
  <2>4. ASSUME NEW i \in Instances, KillReaches(i) PROVE Landed /\ KeptLost /\ Shorter
    <3>1. UNCHANGED <<db, pc, hub, call>>
      BY <2>4 DEF KillReaches, taskVars, hubVars
    <3>2. \A j \in Instances : Live(j)' => Live(j)
      BY <2>1, <2>4, QuietCloud DEF KillReaches, Inv2, Inv1, TypeOK
    <3>3. \A u \in Users : Lost(u) => Lost(u)'
      BY <2>1, <3>1, <3>2 DEF Lost, Inv2, Inv1, TypeOK
    <3> QED BY <3>1, <3>3 DEF Closing
  <2> QED BY <2>2, <2>3, <2>4, HubSees
<1>2. CullInv3 /\ [CullNext]_allVars => [Landed]_vars /\ [KeptLost]_vars /\ [Shorter]_vars
  BY <1>1
<1> QED BY <1>2, CullInvs, PTL DEF CullSpec, LoginsLand, LostForGood, WaitsShorten

(* The culler makes no machine and hides none: as long as the hub stays    *)
(* alive and no launch goes wrong, every user still has one machine at     *)
(* most and every machine is in a row.                                     *)
THEOREM CullerHidesNone ==
  NoMishap /\ Deaths = 0 => (CullSpec => [](NoOrphan /\ OneMachinePerUser))
<1> SUFFICES ASSUME NoMishap, Deaths = 0 PROVE CullSpec => [](NoOrphan /\ OneMachinePerUser)
  OBVIOUS
<1>1. CullInit => Inv4
  BY InitInv4 DEF CullInit
<1>2. CullInv3 /\ Inv4 /\ [CullNext]_allVars => Inv4'
  <2> SUFFICES ASSUME CullInv3, CullInv3', Inv4, [CullNext]_allVars PROVE Inv4'
    BY NextCullInv3
  <2>1. CASE [Next]_vars
    BY <2>1, StepInv4
  <2>2. ~HubDies
    BY DEF HubDies, CullInv3, CullInv, CullTypeOK
  <2>3. ASSUME NEW i \in Instances, KillReaches(i) PROVE Inv4'
    <3>1. UNCHANGED <<owner, db, pc, who, inst, call>>
      BY <2>3 DEF KillReaches, StopInstance, taskVars, hubVars
    <3>2. Inv2' /\ HubAgrees'
      BY DEF CullInv3, CullInv
    <3> QED BY <3>1, <3>2 DEF Inv4, StartsAwaited, Awaited, LaunchesFirst, Tracked
  <2> QED BY <2>1, <2>2, <2>3, HubSees
<1>3. Inv4 => NoOrphan /\ OneMachinePerUser
  BY TrackedNoOrphan, TrackedOneMachine
<1> QED BY <1>1, <1>2, <1>3, CullInvs, PTL DEF CullSpec

---------------------------------------------------------------------------
(* The culls *)

(* Nothing is asked of the hub before the list is there, nor once every    *)
(* request has been answered.                                              *)
AskedOnlyWaiting == \A c \in Culls : cpc[c] # "wait" => asked[c] = {} /\ handled[c] = {}

GetsOn(c) ==
  \/ cpc'[c] = "off"
  \/ cpc[c] = "fetch" /\ cpc'[c] = "wait"
  \/ cpc[c] = "wait" /\ cpc'[c] \in InBody
  \/ /\ cpc[c] = "wait" /\ cpc'[c] = "wait"
     /\ asked'[c] \subseteq asked[c]
     /\ asked'[c] # asked[c] \/ (handled'[c] \subseteq handled[c] /\ handled'[c] # handled[c])
  \/ /\ cpc[c] \in InBody /\ cpc'[c] \in InBody
     /\ check'[c] \subseteq check[c]
     /\ check'[c] # check[c] \/ (cpc[c] = "load" /\ cpc'[c] = "check")

SameCull(c) == /\ cpc'[c] = cpc[c] /\ asked'[c] = asked[c]
               /\ handled'[c] = handled[c] /\ check'[c] = check[c]

(* A cull that makes a step gets on, and leaves the others alone. *)
LEMMA CullStepGetsOn ==
  ASSUME CullTypeOK, AskedOnlyWaiting, NEW c \in Culls, CullStep(c)
  PROVE  /\ GetsOn(c) /\ \A d \in Culls \ {c} : SameCull(d)
         /\ cpc'[c] # "wait" => asked'[c] = {} /\ handled'[c] = {}
<1> USE DEF CullTypeOK, AskedOnlyWaiting, GetsOn, SameCull, InBody
<1>1. CASE UsersListed(c) \/ AllAnswered(c) \/ CullEnds(c)
  BY <1>1 DEF UsersListed, AllAnswered, CullEnds
<1>2. ASSUME NEW u \in Users, NEW t \in Tasks, DeleteHandled(c, u, t)
      PROVE  /\ GetsOn(c) /\ \A d \in Culls \ {c} : SameCull(d)
             /\ cpc'[c] # "wait" => asked'[c] = {} /\ handled'[c] = {}
  BY <1>2 DEF DeleteHandled
<1>3. ASSUME NEW u \in Users,
             \/ DeleteRefused(c, u) \/ DeletePending(c, u)
             \/ DeleteDone(c, u) \/ DeleteErrs(c, u)
      PROVE  /\ GetsOn(c) /\ \A d \in Culls \ {c} : SameCull(d)
             /\ cpc'[c] # "wait" => asked'[c] = {} /\ handled'[c] = {}
  BY <1>3 DEF DeleteRefused, DeletePending, DeleteDone, DeleteErrs
<1>4. ASSUME NEW u \in Users, KillBegins(c, u)
      PROVE  /\ GetsOn(c) /\ \A d \in Culls \ {c} : SameCull(d)
             /\ cpc'[c] # "wait" => asked'[c] = {} /\ handled'[c] = {}
  BY <1>4 DEF KillBegins
<1>5. CASE KillSeesRunning(c) \/ KillSeesDown(c) \/ KillRaises(c)
  BY <1>5 DEF KillSeesRunning, KillSeesDown, KillRaises
<1> QED BY <1>1, <1>2, <1>3, <1>4, <1>5 DEF CullStep

(* A death of the hub ends a cull or answers all its requests. *)
LEMMA DeathGetsOn ==
  ASSUME CullTypeOK, AskedOnlyWaiting, HubDies, NEW c \in Culls, cpc[c] # "off"
  PROVE  GetsOn(c) \/ SameCull(c)
<1> USE DEF CullTypeOK, AskedOnlyWaiting, GetsOn, SameCull, InBody
<1>1. PICK going \in SUBSET {d \in Culls : cpc[d] = "wait"} :
        /\ cpc' = [d \in Culls |->
                     IF cpc[d] \in {"fetch", "wait"} /\ d \notin going THEN "off" ELSE cpc[d]]
        /\ check' = [d \in Culls |->
                       IF d \in going THEN check[d] \union asked[d] \union handled[d]
                       ELSE IF cpc[d] = "wait" THEN {} ELSE check[d]]
  BY DEF HubDies
<1>2. asked'[c] = {} /\ handled'[c] = {}
  BY DEF HubDies
<1>3. CASE c \in going
  <2>1. cpc[c] = "wait" /\ cpc'[c] = "wait"
    BY <1>1, <1>3
  <2>2. check'[c] = check[c] \union asked[c] \union handled[c]
    BY <1>1, <1>3
  <2> QED BY <1>2, <2>1, <2>2
<1>4. CASE c \notin going /\ cpc[c] \in {"fetch", "wait"}
  <2>1. cpc'[c] = "off"
    BY <1>1, <1>4
  <2> QED BY <2>1
<1>5. CASE c \notin going /\ cpc[c] \notin {"fetch", "wait"}
  <2>1. cpc'[c] = cpc[c]
    BY <1>1, <1>5
  <2>2. check'[c] = check[c]
    BY <1>1, <1>5
  <2> QED BY <1>2, <1>5, <2>1, <2>2
<1> QED BY <1>3, <1>4, <1>5

LEMMA NextGetsOn ==
  ASSUME CullTypeOK, AskedOnlyWaiting, [CullNext]_allVars
  PROVE  /\ AskedOnlyWaiting'
         /\ \A c \in Culls : cpc[c] # "off" => GetsOn(c) \/ SameCull(c)
<1>1. ASSUME NEW c \in Culls, CullStep(c)
      PROVE  /\ AskedOnlyWaiting'
             /\ \A d \in Culls : cpc[d] # "off" => GetsOn(d) \/ SameCull(d)
  BY <1>1, CullStepGetsOn DEF AskedOnlyWaiting, SameCull
<1>2. CASE HubDies
  <2>1. asked' = [c \in Culls |-> {}] /\ handled' = [c \in Culls |-> {}]
    BY <1>2 DEF HubDies
  <2> QED BY <1>2, <2>1, DeathGetsOn DEF AskedOnlyWaiting
<1>3. ASSUME NEW c \in Culls, CullStarts(c)
      PROVE  /\ AskedOnlyWaiting'
             /\ \A d \in Culls : cpc[d] # "off" => GetsOn(d) \/ SameCull(d)
  BY <1>3 DEF CullStarts, AskedOnlyWaiting, CullTypeOK, SameCull
<1>4. CASE UNCHANGED <<cpc, asked, handled, check>>
  BY <1>4 DEF AskedOnlyWaiting, SameCull
<1> QED
  BY <1>1, <1>2, <1>3, <1>4
  DEF CullNext, HubMoves, UserActs, UserIdles, KillReaches, KillGivesUp, cullVars, allVars

(* A cull never starts over: every change of it, by itself, by the hub or  *)
(* by a death of the hub, takes it nearer to its end.                      *)
THEOREM CullsAdvance == CullSpec => CullsGetOn
<1>1. CullInit => AskedOnlyWaiting
  BY DEF CullInit, AskedOnlyWaiting
<1>2. CullTypeOK /\ AskedOnlyWaiting /\ [CullNext]_allVars
        => /\ AskedOnlyWaiting'
           /\ [\A c \in Culls :
                 /\ cpc[c] # "off"
                 /\ <<cpc[c], asked[c], handled[c], check[c]>>'
                      # <<cpc[c], asked[c], handled[c], check[c]>>
                 => GetsOn(c)]_allVars
  BY NextGetsOn DEF SameCull
<1> QED BY <1>1, <1>2, CullTypeCorrect, PTL DEF CullSpec, CullsGetOn, GetsOn

=============================================================================
