---------------------------- MODULE FabricProofs ----------------------------
(***************************************************************************)
(* When Fabric's global host can be trusted: with a single user whose      *)
(* start() is never abandoned and whose polls are never overtaken by a     *)
(* stop, for any number of machines and coroutines and whatever hangs,     *)
(* exits, terminations and lost launches happen.                           *)
(***************************************************************************)
EXTENDS SpawnerProofs

(* One user, and the hub calls for him one method at a time. *)
OneAtATime ==
  /\ \A u, v \in Users : u = v
  /\ Faults \intersect {"abandon", "overlap"} = {}

(* Every coroutine but a stop on its way to EC2 is one the hub waits for.  *)
AllAwaited == \A t \in Tasks : pc[t] \notin {"free", "send"} => Awaited(t)

(* A block names its machine and will restore no host. *)
BlockNames ==
  \A t \in Tasks : pc[t] \in BlockPcs => env = inst[t] /\ saved[t] = NoInst

NoBlockNoHost == (\A t \in Tasks : pc[t] \notin BlockPcs) => env = NoInst

FabricInv == Inv3 /\ AllAwaited /\ BlockNames /\ NoBlockNoHost

LEMMA InitFabric == Init => FabricInv
BY InitInv3
DEF Init, FabricInv, AllAwaited, BlockNames, NoBlockNoHost, BlockPcs

---------------------------------------------------------------------------
(* The hub waits for what it has called *)

LEMMA StepAllAwaited ==
  ASSUME OneAtATime, Inv3, AllAwaited, [Next]_vars
  PROVE  AllAwaited'
<1> USE TaskAssumption, CloudAssumption
    DEF Inv3, Inv1, TypeOK, TaskTypeOK, HubTypeOK, HubStates, HubAgrees,
        AwaitedPcs, Slots, AllAwaited, Awaited
<1>1. ASSUME NEW u \in Users, NEW t \in Tasks, HubStep(u, t)
      PROVE  AllAwaited'
  <2>1. hub[u] \in {"out", "up"} /\ pc[t] = "free"
    BY <1>1
    DEF HubStep, HubSpawns, HubAbandons, HubPolls, HubStops, OneAtATime
  <2>2. \A s \in Tasks : pc[s] \notin {"free", "send"} => who[s] # u
    BY <2>1
  <2>3. call' = [call EXCEPT ![u] = t] /\ \E p : Begin(t, u, p)
    BY <1>1 DEF HubStep, HubSpawns, HubAbandons, HubPolls, HubStops
  <2> QED
    BY <2>1, <2>2, <2>3 DEF Begin
<1>2. CASE HubRestarts
  BY <1>2 DEF HubRestarts, Restarted
<1>3. ASSUME NEW t \in Tasks, Moves(t)
      PROVE  AllAwaited'
  <2>1. CASE \E p : Advances(t, p)
    BY <2>1 DEF Advances, hubVars, StartPcs, LaunchPcs, PollPcs
  <2>2. CASE pc[t] # "free" /\ Ends(t)
    BY <2>2
    DEF Ends, StartFails, PollEnds, CallRaises, EndsUnheard, HubTakes,
        HubGoesOn, Free, Begin, hubVars
  <2>3. CASE pc[t] = "send" /\ Free(t) /\ UNCHANGED hubVars
    BY <2>3 DEF Free, hubVars
  <2>4. CASE StopSetsOff(t)
    BY <2>4 DEF StopSetsOff, Goto, hubVars
  <2>5. CASE UNCHANGED <<taskVars, hubVars>>
    BY <2>5 DEF taskVars, hubVars
  <2> QED
    BY <1>3, <2>1, <2>2, <2>3, <2>4, <2>5 DEF Moves
<1>4. CASE UNCHANGED <<taskVars, hubVars>>
  BY <1>4 DEF taskVars, hubVars
<1> QED
  BY <1>1, <1>2, <1>3, <1>4, TaskMoves DEF Next, vars

(* So no two coroutines run commands at a time. *)
LEMMA OneRuns ==
  ASSUME OneAtATime, FabricInv, NEW s \in Tasks, NEW t \in Tasks,
         pc[s] \notin {"free", "send"}, pc[t] \notin {"free", "send"}
  PROVE  s = t
BY CloudAssumption
DEF OneAtATime, FabricInv, Inv3, Inv1, TypeOK, TaskTypeOK, Slots, AllAwaited,
    Awaited

---------------------------------------------------------------------------
(* Blocks *)

(* A coroutine opens a block, goes from one to the next, stays in one,     *)
(* closes it, or does not touch the host.                                  *)
Brackets(t) ==
  \/ /\ pc[t] \notin BlockPcs \union {"free", "send"} /\ pc'[t] \in BlockPcs
     /\ inst'[t] = inst[t]
     /\ OpenBlock(t)
  \/ /\ pc[t] \in BlockPcs /\ pc'[t] \in BlockPcs
     /\ inst'[t] = inst[t]
     /\ NextBlock(t) \/ UNCHANGED fabricVars
  \/ pc[t] \in BlockPcs /\ pc'[t] \notin BlockPcs /\ CloseBlock(t)
  \/ pc[t] \notin BlockPcs /\ pc'[t] \notin BlockPcs /\ UNCHANGED fabricVars

(* A coroutine that ends, or makes room for the next, has no block open. *)
LEMMA EndsOutside ==
  ASSUME Inv1, NEW t \in Tasks, Ends(t)
  PROVE  pc'[t] \notin BlockPcs
BY DEF Ends, StartFails, PollEnds, CallRaises, EndsUnheard, HubTakes, HubGoesOn,
       Free, Begin, BlockPcs, Inv1, TypeOK, TaskTypeOK

LEMMA StartBrackets ==
  ASSUME Inv1, NEW t \in Tasks, StartStep(t)
  PROVE  Brackets(t)
<1> USE DEF Brackets, BlockPcs, Goto, Inv1, TypeOK, TaskTypeOK
<1>1. CASE \/ LaunchFails(t) \/ RecordClashes(t) \/ StartRefuses(t)
           \/ StartFindsHung(t) \/ StartReturns(t)
  <2>1. Ends(t)
    BY <1>1
    DEF LaunchFails, RecordClashes, StartRefuses, StartFindsHung,
        StartReturns, Ends
  <2> QED
    BY <1>1, <2>1, EndsOutside
    DEF LaunchFails, RecordClashes, StartRefuses, StartFindsHung, StartReturns
<1>2. CASE \/ \E i \in Instances : LaunchAnswered(t, i) \/ LaunchLost(t, i)
           \/ Record(t)
  BY <1>2 DEF LaunchAnswered, LaunchLost, Record, taskVars
<1>3. CASE \/ StartSeesRunning(t) \/ StartSeesDown(t) \/ StartFindsHealthy(t)
           \/ BootAccepted(t) \/ BootGivesUp(t) \/ AwaitEnds(t)
  BY <1>3
  DEF StartSeesRunning, StartSeesDown, StartFindsHealthy, BootAccepted,
      BootGivesUp, AwaitEnds
<1>4. CASE \/ SshAnswers(t) \/ SshGivesUp(t) \/ StartFindsNotebook(t)
           \/ StartMissesNotebook(t) \/ NotebookStarts(t)
           \/ NotebookStartLost(t) \/ ConfirmEnds(t)
  BY <1>4
  DEF SshAnswers, SshGivesUp, StartFindsNotebook, StartMissesNotebook,
      NotebookStarts, NotebookStartLost, ConfirmEnds
<1>5. CASE \/ StartFindsNone(t) \/ OpensNext(t, "healthy", "ssh")
           \/ OpensNext(t, "reached", "check")
           \/ OpensNext(t, "absent", "nbstart")
  BY <1>5 DEF StartFindsNone, OpensNext
<1> QED
  BY <1>1, <1>2, <1>3, <1>4, <1>5 DEF StartStep

LEMMA PollBrackets ==
  ASSUME Inv1, NEW t \in Tasks, PollStep(t)
  PROVE  Brackets(t)
<1> USE DEF Brackets, BlockPcs, Goto, Inv1, TypeOK, TaskTypeOK
<1>1. CASE \/ PollUntracked(t) \/ PollSeesDown(t)
           \/ PollFindsNotebook(t) \/ PollFindsNone(t)
  <2>1. Ends(t)
    BY <1>1
    DEF PollUntracked, PollSeesDown, PollFindsNotebook, PollFindsNone,
        Ends
  <2> QED
    BY <1>1, <2>1, EndsOutside
    DEF PollUntracked, PollSeesDown, PollFindsNotebook, PollFindsNone
<1>2. CASE \/ \E p \in {"pollhealth", "pollcheck"} : PollSeesRunning(t, p)
           \/ PollFindsHealthy(t) \/ PollFindsHung(t)
  BY <1>2 DEF PollSeesRunning, PollFindsHealthy, PollFindsHung, Begin
<1>3. CASE PollMissesNotebook(t) \/ OpensNext(t, "pollhealthy", "pollcheck")
  BY <1>3 DEF PollMissesNotebook, OpensNext
<1> QED
  BY <1>1, <1>2, <1>3 DEF PollStep

LEMMA StopBrackets ==
  ASSUME Inv1, NEW t \in Tasks, StopStep(t)
  PROVE  Brackets(t)
<1> USE DEF Brackets, BlockPcs, Goto, Free, Inv1, TypeOK, TaskTypeOK
<1>1. CASE StopUntracked(t) \/ LoadRaises(t)
  <2>1. Ends(t)
    BY <1>1 DEF StopUntracked, LoadRaises, Ends
  <2> QED
    BY <1>1, <2>1, EndsOutside DEF StopUntracked, LoadRaises
<1>2. CASE StopSetsOff(t) \/ StopReaches(t) \/ StopGivesUp(t)
  BY <1>2 DEF StopSetsOff, StopReaches, StopGivesUp
<1> QED
  BY <1>1, <1>2, StopCases DEF StopStep

LEMMA TaskBrackets ==
  ASSUME Inv1, NEW t \in Tasks, TaskStep(t)
  PROVE  Brackets(t)
BY StartBrackets, PollBrackets, StopBrackets DEF TaskStep

(* Blocks are opened and closed one at a time, so each one finds no host   *)
(* and restores none.                                                      *)
LEMMA StepBlocks ==
  ASSUME OneAtATime, FabricInv, [Next]_vars
  PROVE  BlockNames' /\ NoBlockNoHost'
<1> USE DEF FabricInv, Inv3, BlockNames, NoBlockNoHost, Inv1, TypeOK,
            TaskTypeOK, FabricTypeOK
<1>1. ASSUME NEW t \in Tasks, TaskStep(t)
      PROVE  BlockNames' /\ NoBlockNoHost'
  <2>1. Brackets(t)
    BY <1>1, TaskBrackets
  <2>2. \A s \in Tasks \ {t} : pc'[s] = pc[s] /\ inst'[s] = inst[s]
    BY <1>1, OthersUntouched
  <2>3. pc[t] \in BlockPcs => pc[t] \notin {"free", "send"}
    BY DEF BlockPcs
  <2>4. pc[t] \notin {"free", "send"} =>
          \A s \in Tasks \ {t} : pc[s] \notin BlockPcs
    BY OneRuns DEF BlockPcs
  <2>5. CASE /\ pc[t] \notin BlockPcs \union {"free", "send"}
             /\ pc'[t] \in BlockPcs /\ inst'[t] = inst[t] /\ OpenBlock(t)
    BY <2>2, <2>4, <2>5 DEF OpenBlock
  <2>6. CASE /\ pc[t] \in BlockPcs /\ pc'[t] \in BlockPcs
             /\ inst'[t] = inst[t] /\ (NextBlock(t) \/ UNCHANGED fabricVars)
    BY <2>2, <2>3, <2>4, <2>6 DEF NextBlock, fabricVars
  <2>7. CASE pc[t] \in BlockPcs /\ pc'[t] \notin BlockPcs /\ CloseBlock(t)
    BY <2>2, <2>3, <2>4, <2>7 DEF CloseBlock
  <2>8. CASE pc[t] \notin BlockPcs /\ pc'[t] \notin BlockPcs
             /\ UNCHANGED fabricVars
    BY <2>2, <2>8 DEF fabricVars
  <2> QED
    BY <2>1, <2>5, <2>6, <2>7, <2>8 DEF Brackets
<1>2. ASSUME NEW u \in Users, NEW t \in Tasks, HubStep(u, t)
      PROVE  BlockNames' /\ NoBlockNoHost'
  <2>1. /\ pc[t] = "free" /\ UNCHANGED fabricVars
        /\ \E p : p \notin BlockPcs /\ Begin(t, u, p)
    BY <1>2
    DEF HubStep, HubSpawns, HubAbandons, HubPolls, HubStops, BlockPcs
  <2>2. pc'[t] \notin BlockPcs /\ pc[t] \notin BlockPcs
    BY <2>1 DEF Begin, BlockPcs
  <2> QED
    BY <2>1, <2>2 DEF Begin, fabricVars
<1>3. CASE HubRestarts
  BY <1>3 DEF HubRestarts, Restarted, BlockPcs
<1>4. CASE UNCHANGED <<taskVars, fabricVars>>
  BY <1>4 DEF taskVars, fabricVars
<1> QED
  BY <1>1, <1>2, <1>3, <1>4 DEF Next, vars

LEMMA StepFabric ==
  ASSUME OneAtATime, FabricInv, [Next]_vars
  PROVE  FabricInv'
BY StepInv3, StepAllAwaited, StepBlocks DEF FabricInv

---------------------------------------------------------------------------
(* For one user, called one method at a time, the commands of a block go   *)
(* to the machine of the block and the host is cleared after it.           *)
THEOREM CommandsStayOnTarget == OneAtATime => (Spec => []CommandsOnTarget)
<1> SUFFICES ASSUME OneAtATime PROVE Spec => []CommandsOnTarget
  OBVIOUS
<1>1. FabricInv /\ [Next]_vars => FabricInv'
  BY StepFabric
<1>2. FabricInv => CommandsOnTarget
  BY DEF FabricInv, BlockNames, NoBlockNoHost, CommandsOnTarget
<1> QED
  BY <1>1, <1>2, InitFabric, PTL DEF Spec

(* What a step makes of a coroutine of poll() that waits for its probe or  *)
(* for the listing: it is the coroutine's own step, or the hub died, or    *)
(* the coroutine stays where it is and the hub leaves its user alone.      *)
LEMMA ProbeSteps ==
  ASSUME OneAtATime, FabricInv, [Next]_vars,
         NEW t \in Tasks, pc[t] \in {"pollhealth", "pollcheck"}
  PROVE  \/ PollFindsHealthy(t) \/ PollFindsHung(t)
         \/ PollFindsNotebook(t) \/ PollMissesNotebook(t)
         \/ HubRestarts
         \/ pc'[t] = pc[t] /\ hub'[who[t]] = hub[who[t]]
<1> USE DEF FabricInv, Inv3, Inv1, TypeOK, TaskTypeOK, HubTypeOK
<1>1. ASSUME NEW u \in Users, NEW s \in Tasks, HubStep(u, s)
      PROVE  FALSE
  <2>1. hub[u] \in {"out", "up"}
    BY <1>1
    DEF HubStep, HubSpawns, HubAbandons, HubPolls, HubStops, OneAtATime
  <2>2. who[t] \in Users /\ call[who[t]] = t
    BY CloudAssumption DEF AllAwaited, Awaited, Slots
  <2> QED
    BY <2>1, <2>2, TaskAssumption DEF OneAtATime, HubAgrees
<1>2. ASSUME NEW s \in Tasks \ {t}, TaskStep(s)
      PROVE  pc'[t] = pc[t] /\ hub'[who[t]] = hub[who[t]]
  <2>1. pc'[t] = pc[t]
    BY <1>2, OthersUntouched
  <2>2. pc[s] \in {"free", "send"}
    BY OneRuns
  <2>3. UNCHANGED hub
    BY <1>2, <2>2, StopCases
    DEF TaskStep, StartStep, PollStep, StopStep, LaunchAnswered, LaunchLost,
        LaunchFails, Record, RecordClashes, StartSeesRunning, StartSeesDown,
        StartRefuses, StartFindsHealthy, StartFindsHung, BootAccepted,
        BootGivesUp, AwaitEnds, SshAnswers, SshGivesUp, StartFindsNotebook,
        StartMissesNotebook, StartFindsNone, OpensNext, NotebookStarts,
        NotebookStartLost, ConfirmEnds, StartReturns, PollUntracked, PollSeesRunning, PollSeesDown,
        PollFindsHealthy, PollFindsHung, PollFindsNotebook,
        PollMissesNotebook, PollFindsNone, StopUntracked, StopSetsOff, LoadRaises,
        StopReaches, StopGivesUp, hubVars
  <2> QED
    BY <2>1, <2>3
<1>3. ASSUME TaskStep(t)
      PROVE  \/ PollFindsHealthy(t) \/ PollFindsHung(t)
             \/ PollFindsNotebook(t) \/ PollMissesNotebook(t)
  BY <1>3, StopCases
  DEF TaskStep, StartStep, PollStep, StopStep, LaunchAnswered, LaunchLost,
      LaunchFails, Record, RecordClashes, StartSeesRunning, StartSeesDown,
      StartRefuses, StartFindsHealthy, StartFindsHung, BootAccepted,
      BootGivesUp, AwaitEnds, SshAnswers, SshGivesUp, StartFindsNotebook,
      StartMissesNotebook, StartFindsNone, OpensNext, NotebookStarts,
      NotebookStartLost, ConfirmEnds, StartReturns, PollUntracked,
      PollSeesRunning, PollSeesDown, PollFindsNone,
      StopUntracked, StopSetsOff, LoadRaises, StopReaches, StopGivesUp
<1>4. CASE UNCHANGED <<taskVars, hubVars>>
  BY <1>4 DEF taskVars, hubVars
<1> QED
  BY <1>1, <1>2, <1>3, <1>4 DEF Next, vars

(* For one user poll() kills only a machine that does not answer. *)
THEOREM HealthyMachinesSpared == OneAtATime => (Spec => KillsOnlyHanged)
<1> SUFFICES ASSUME OneAtATime PROVE Spec => KillsOnlyHanged
  OBVIOUS
<1>1. FabricInv /\ [Next]_vars => FabricInv'
  BY StepFabric
<1>2. ASSUME FabricInv, [Next]_vars,
             NEW t \in Tasks, pc[t] = "pollhealth", pc'[t] = "killload"
      PROVE  ~Reachable(inst[t])
  <2> USE <1>2 DEF FabricInv, Inv3, Inv1, TypeOK, TaskTypeOK
  <2>1. PollFindsHung(t)
    BY ProbeSteps
    DEF PollFindsHealthy, Goto, PollFindsNotebook, PollMissesNotebook,
        HubRestarts, Restarted
  <2>2. env = inst[t]
    BY DEF BlockNames, BlockPcs
  <2> QED
    BY <2>1, <2>2 DEF PollFindsHung
<1>3. FabricInv /\ [Next]_vars =>
        [\A t \in Tasks :
           pc[t] = "pollhealth" /\ pc'[t] = "killload"
             => ~Reachable(inst[t])]_vars
  BY <1>2
<1> QED
  BY <1>1, <1>3, InitFabric, PTL DEF Spec, KillsOnlyHanged

(* For one user, and while the hub does not crash, poll() reports a server *)
(* alive only when the user's own machine serves it, as long as no other   *)
(* line of the listing contains the port.                                  *)
THEOREM PollsTrustOwnMachine ==
  OneAtATime /\ Faults \intersect {"crash", "pid"} = {}
    => (Spec => TrustsOwnMachine)
<1> SUFFICES ASSUME OneAtATime, Faults \intersect {"crash", "pid"} = {}
             PROVE  Spec => TrustsOwnMachine
  OBVIOUS
<1>1. FabricInv /\ [Next]_vars => FabricInv'
  BY StepFabric
<1>2. ASSUME FabricInv, [Next]_vars, NEW t \in Tasks, pc[t] = "pollcheck",
             pc'[t] = "stopload" \/ (Awaited(t) /\ hub'[who[t]] = "up")
      PROVE  Serves(inst[t])
  <2> USE <1>2
      DEF FabricInv, Inv3, Inv1, TypeOK, TaskTypeOK, HubTypeOK
  <2>1. env = inst[t] /\ Awaited(t) /\ who[t] \in Users
    BY CloudAssumption DEF BlockNames, BlockPcs, AllAwaited, Slots
  <2>2. hub[who[t]] \in {"polling", "quitting"}
    BY <2>1, TaskAssumption
    DEF HubAgrees, Awaited, AwaitedPcs, HubStates, StartPcs, LaunchPcs
  <2>3. PollFindsNotebook(t)
    BY <2>2, ProbeSteps
    DEF PollFindsHealthy, PollFindsHung, PollMissesNotebook, Goto, hubVars,
        HubRestarts, Restarted
  <2> QED
    BY <2>1, <2>3 DEF PollFindsNotebook, Hosts, Listed, Serves
<1>3. FabricInv /\ [Next]_vars =>
        [\A t \in Tasks :
           /\ pc[t] = "pollcheck"
           /\ \/ pc'[t] = "stopload"
              \/ Awaited(t) /\ hub'[who[t]] = "up"
           => Serves(inst[t])]_vars
  BY <1>2
<1> QED
  BY <1>1, <1>3, InitFabric, PTL DEF Spec, TrustsOwnMachine

=============================================================================
