-------------------------- MODULE WorkerBootProofs --------------------------
(***************************************************************************)
(* Theorems about retry() and the set-up of workers, for any number of     *)
(* users, threads and attempts.                                            *)
(*                                                                         *)
(* The queue of the pool is what makes the invariant: a thread that takes  *)
(* an attempt leaves the others of the queue queued only because nobody    *)
(* is in it twice (Distinct), and the count of attempts does not go below  *)
(* zero because an attempt that waits or runs was left to make (Counted).  *)
(***************************************************************************)
EXTENDS WorkerBoot, TLAPS

AllTries == SshTries + RunTries + HangTries

RetryTypes ==
  /\ state \in [Calls -> {"idle", "answered", "failed"} \union UnderWay]
  /\ left \in [Calls -> 0..AllTries]
  /\ queue \in Seq(Calls)

Queued == \A i \in 1..Len(queue) : state[queue[i]] = "queued"

Distinct == \A i, j \in 1..Len(queue) : queue[i] = queue[j] => i = j

Counted == \A c \in Calls : state[c] \in {"queued", "running"} => left[c] > 0

RetryInv == RetryTypes /\ Queued /\ Distinct /\ Counted

MachineTypes ==
  /\ machine \in [Users -> {"none", "off", "pending", "booting", "on"}]
  /\ setup \in [Users -> {"before", "mount", "account", "over"}]
  /\ sshd \subseteq Users /\ account \subseteq Users
  /\ open \subseteq Users /\ notebook \subseteq Users
  /\ stage \in [Users -> Stages]

(* The account is the last thing the script makes. *)
Prepared == NotebookPrepared /\ \A u \in account : setup[u] = "over"

BInv == RetryInv /\ MachineTypes /\ Prepared

(* What the caller of each call sees. *)
Outcome == [c \in Calls |-> IF state[c] \in UnderWay THEN "asked" ELSE state[c]]

---------------------------------------------------------------------------
LEMMA TriesTypes ==
  /\ SshTries \in 1..AllTries /\ RunTries \in 1..AllTries /\ HangTries \in 1..AllTries
  /\ AllTries \in Nat
BY BootAssumption DEF BootAssumption, AllTries

(* An attempt that is appended to the queue was not in it. *)
LEMMA QueueAppends ==
  ASSUME RetryInv, NEW c \in Calls, state[c] # "queued", Queue(c)
  PROVE /\ state' \in [Calls -> {"idle", "answered", "failed"} \union UnderWay]
        /\ queue' \in Seq(Calls)
        /\ Queued' /\ Distinct'
<1> USE DEF RetryInv, RetryTypes, Queued, Distinct, Queue, UnderWay
<1>1. /\ queue' \in Seq(Calls) /\ Len(queue') = Len(queue) + 1
      /\ \A i \in 1..Len(queue) : queue'[i] = queue[i] /\ queue[i] \in Calls
      /\ queue'[Len(queue) + 1] = c
      /\ Len(queue) \in Nat
  OBVIOUS
<1>2. \A i \in 1..Len(queue) : queue[i] # c
  OBVIOUS
<1>3. state' = [state EXCEPT ![c] = "queued"]
  OBVIOUS
<1>4. \A i \in 1..Len(queue') : i \in 1..Len(queue) \/ i = Len(queue) + 1
  BY <1>1
<1>5. Queued'
  BY <1>1, <1>3, <1>4
<1>6. Distinct'
  BY <1>1, <1>2, <1>4
<1> QED BY <1>1, <1>3, <1>5, <1>6

LEMMA SubmitKeeps ==
  ASSUME RetryInv, NEW c \in Calls, NEW n \in 1..AllTries, Submit(c, n)
  PROVE RetryInv' /\ A!Next
<1>1. state[c] # "queued" /\ Queue(c) /\ left' = [left EXCEPT ![c] = n]
  BY DEF Submit, UnderWay
<1>2. /\ state' \in [Calls -> {"idle", "answered", "failed"} \union UnderWay]
      /\ queue' \in Seq(Calls) /\ Queued' /\ Distinct'
  BY <1>1, QueueAppends
<1>3. left' \in [Calls -> 0..AllTries] /\ left'[c] > 0
  BY <1>1, TriesTypes DEF RetryInv, RetryTypes
<1>4. Counted'
  BY <1>1, <1>3 DEF RetryInv, RetryTypes, Counted, Queue
<1>5. A!Ask(c)
  BY DEF Submit, Queue, A!Ask, RetryInv, RetryTypes, UnderWay
<1> QED BY <1>2, <1>3, <1>4, <1>5 DEF RetryInv, RetryTypes, A!Next

LEMMA TakenKeeps ==
  ASSUME RetryInv, NEW c \in Calls, Taken(c)
  PROVE RetryInv' /\ Outcome' = Outcome
<1> USE DEF RetryInv, RetryTypes, Queued, Distinct, Counted, Taken, UnderWay
<1>1. /\ queue' \in Seq(Calls) /\ Len(queue') = Len(queue) - 1
      /\ \A i \in 1..Len(queue') : queue'[i] = queue[i + 1] /\ i + 1 \in 1..Len(queue)
      /\ Len(queue) \in Nat \ {0} /\ 1 \in 1..Len(queue)
      /\ queue[1] = c
  OBVIOUS
<1>2. /\ state[c] = "queued" /\ state' = [state EXCEPT ![c] = "running"]
      /\ left' = left
  BY <1>1
<1>3. \A i \in 1..Len(queue') : queue'[i] # c /\ queue'[i] \in Calls
  BY <1>1
<1>4. Queued'
  BY <1>1, <1>2, <1>3
<1>5. Distinct'
  BY <1>1
<1>6. RetryTypes' /\ Counted'
  BY <1>1, <1>2
<1>7. Outcome' = Outcome
  BY <1>2 DEF Outcome
<1> QED BY <1>4, <1>5, <1>6, <1>7

LEMMA AttemptKeeps ==
  ASSUME RetryInv, NEW c \in Calls, Returns(c) \/ Fails(c)
  PROVE RetryInv' /\ (A!Next \/ Outcome' = Outcome)
<1> USE DEF RetryInv, RetryTypes, Queued, Distinct, Counted, UnderWay
<1>1. /\ state[c] = "running" /\ queue' = queue
      /\ \A i \in 1..Len(queue) : queue[i] \in Calls /\ queue[i] # c
  BY DEF Returns, Fails
<1>2. CASE Returns(c)
  <2>1. state' = [state EXCEPT ![c] = "answered"] /\ left' = left
    BY <1>2 DEF Returns
  <2>2. A!Answer(c)
    BY <1>1, <2>1 DEF A!Answer
  <2> QED BY <1>1, <2>1, <2>2 DEF A!Next
<1>3. CASE Fails(c)
  <2>1. state' = [state EXCEPT ![c] = "asleep"] /\ left' = [left EXCEPT ![c] = @ - 1]
    BY <1>3 DEF Fails
  <2>2. left[c] - 1 \in 0..AllTries
    BY <1>1, TriesTypes
  <2>3. RetryTypes' /\ Counted' /\ Queued' /\ Distinct'
    BY <1>1, <2>1, <2>2
  <2> QED BY <1>1, <2>1, <2>3 DEF Outcome
<1> QED BY <1>2, <1>3

LEMMA WakingKeeps ==
  ASSUME RetryInv, NEW c \in Calls, Resubmits(c) \/ GivesUp(c)
  PROVE RetryInv' /\ (A!Next \/ Outcome' = Outcome)
<1>1. CASE Resubmits(c)
  <2>1. /\ state[c] = "asleep" /\ left[c] > 0 /\ left' = left /\ Queue(c)
    BY <1>1 DEF Resubmits
  <2>2. /\ state' \in [Calls -> {"idle", "answered", "failed"} \union UnderWay]
        /\ queue' \in Seq(Calls) /\ Queued' /\ Distinct'
    BY <2>1, QueueAppends
  <2>3. Counted' /\ Outcome' = Outcome
    BY <2>1 DEF RetryInv, RetryTypes, Counted, Queue, Outcome, UnderWay
  <2> QED BY <2>1, <2>2, <2>3 DEF RetryInv, RetryTypes
<1>2. CASE GivesUp(c)
  <2> USE DEF RetryInv, RetryTypes, Queued, Distinct, Counted, UnderWay
  <2>1. /\ state[c] = "asleep" /\ state' = [state EXCEPT ![c] = "failed"]
        /\ left' = left /\ queue' = queue
        /\ \A i \in 1..Len(queue) : queue[i] \in Calls /\ queue[i] # c
    BY <1>2 DEF GivesUp
  <2>2. A!Answer(c)
    BY <2>1 DEF A!Answer
  <2> QED BY <2>1, <2>2 DEF A!Next
<1> QED BY <1>1, <1>2

---------------------------------------------------------------------------
LEMMA BootInit == Init => BInv /\ A!Init
<1> SUFFICES ASSUME Init PROVE BInv /\ A!Init
  OBVIOUS
<1>1. RetryInv
  BY TriesTypes DEF Init, RetryInit, RetryInv, RetryTypes, Queued, Distinct, Counted
<1>2. MachineTypes /\ Prepared
  BY DEF Init, MachineTypes, Prepared, NotebookPrepared, Stages
<1>3. A!Init
  BY DEF Init, RetryInit, A!Init, UnderWay
<1> QED BY <1>1, <1>2, <1>3 DEF BInv

(* The calls of a step of the spawner. *)
LEMMA GoesKeeps ==
  ASSUME RetryInv, NEW u \in Users, NEW to \in Stages,
         NEW n \in {SshTries, RunTries, HangTries}, Goes(u, to, n)
  PROVE RetryInv' /\ A!Next /\ stage' = [stage EXCEPT ![u] = to]
BY SubmitKeeps, TriesTypes DEF Goes, Users

StageStep == \E u \in Users, to \in Stages : stage' = [stage EXCEPT ![u] = to]

LEMMA LoginRetries ==
  ASSUME RetryInv, NEW u \in Users,
         LoginStep(u) \/ UserStep(u) \/ Leaves(u)
  PROVE RetryInv' /\ (A!Next \/ Outcome' = Outcome) /\ StageStep
<1>1. CASE UNCHANGED retryVars /\ StageStep
  BY <1>1 DEF retryVars, RetryInv, RetryTypes, Queued, Distinct, Counted, Outcome
<1>2. CASE \E to \in Stages, n \in {SshTries, RunTries, HangTries} : Goes(u, to, n)
  BY <1>2, GoesKeeps DEF StageStep
<1>3. CASE Continues(u)
  BY <1>2, <1>3 DEF Continues, Stages
<1>4. CASE LoggedIn(u) \/ PollEnds(u) \/ Leaves(u)
  BY <1>1, <1>4 DEF LoggedIn, PollEnds, Leaves, Stages, StageStep
<1>5. CASE LoginFails(u)
  BY <1>1, <1>2, <1>5 DEF LoginFails, AsksHealth, Stages, StageStep
<1>6. CASE StartsMachine(u) \/ FindsMachine(u)
  BY <1>2, <1>6 DEF StartsMachine, FindsMachine, AsksHealth, Stages
<1> QED BY <1>3, <1>4, <1>5, <1>6 DEF LoginStep, UserStep

LEMMA RetryStepKeeps ==
  ASSUME RetryInv, NEW u \in Users, RetryStep(u)
  PROVE RetryInv' /\ (A!Next \/ Outcome' = Outcome)
<1>1. CASE Taken(u)
  BY <1>1, TakenKeeps DEF Users
<1>2. CASE Resubmits(u) \/ GivesUp(u)
  BY <1>2, WakingKeeps DEF Users
<1>3. CASE Returns(u) \/ Fails(u)
  BY <1>3, AttemptKeeps DEF Users
<1> QED BY <1>1, <1>2, <1>3 DEF RetryStep, AttemptSucceeds, AttemptFails

(* What the steps do to the machines. *)
LEMMA StoppedKeeps ==
  ASSUME MachineTypes, Prepared, NEW u \in Users, Stopped(u), StageStep
  PROVE MachineTypes' /\ Prepared'
BY DEF MachineTypes, Prepared, NotebookPrepared, Stopped, StageStep, InSetup

LEMMA MachinesKeep ==
  ASSUME MachineTypes, Prepared, RetryInv, NEW u \in Users,
         \/ RetryStep(u) \/ MachineStep(u) \/ ScriptStep(u)
         \/ LoginStep(u) \/ UserStep(u) \/ Leaves(u)
  PROVE MachineTypes' /\ Prepared'
<1> USE DEF MachineTypes, Prepared, NotebookPrepared
<1>1. CASE AttemptSucceeds(u)
  <2>1. UNCHANGED <<machineVars, stage>>
    BY <1>1 DEF AttemptSucceeds
  <2>2. open' \subseteq Users
    BY <1>1 DEF AttemptSucceeds
  <2>3. notebook' = notebook \/ (u \in account /\ notebook' = notebook \union {u})
    BY <1>1 DEF AttemptSucceeds, Reachable
  <2> QED BY <2>1, <2>2, <2>3 DEF machineVars
<1>2. CASE RetryStep(u) /\ ~AttemptSucceeds(u)
  BY <1>2 DEF RetryStep, AttemptFails, machineVars
<1>3. CASE MachineStep(u)
  BY <1>3 DEF MachineStep, Runs, Boots, Machine
<1>4. CASE ScriptStep(u)
  <2>1. CASE SetupBegins(u)
    BY <2>1 DEF SetupBegins, Script
  <2>2. CASE Mounted(u)
    BY <2>2 DEF Mounted, Script
  <2>3. CASE AccountMade(u)
    BY <2>3 DEF AccountMade, Script
  <2>4. CASE SetupFails(u)
    BY <2>4 DEF SetupFails, Script
  <2> QED BY <1>4, <2>1, <2>2, <2>3, <2>4 DEF ScriptStep
<1>5. CASE LoginStep(u) \/ UserStep(u) \/ Leaves(u)
  <2>1. StageStep
    BY <1>5, LoginRetries
  <2>2. CASE UNCHANGED <<setup, sshd, account, open, notebook>>
             /\ (machine' = machine \/ machine' = [machine EXCEPT ![u] = "pending"])
    BY <2>1, <2>2 DEF StageStep
  <2>3. CASE Stopped(u)
    BY <2>1, <2>3, StoppedKeeps
  <2> QED BY <1>5, <2>2, <2>3
          DEF LoginStep, UserStep, Leaves, Continues, LoggedIn, LoginFails, PollEnds,
              StartsMachine, FindsMachine, machineVars
<1> QED BY <1>1, <1>2, <1>3, <1>4, <1>5

LEMMA BootStep == BInv /\ [Next]_vars => BInv' /\ [A!Next]_Outcome
<1> SUFFICES ASSUME BInv, [Next]_vars
             PROVE BInv' /\ (A!Next \/ Outcome' = Outcome)
  OBVIOUS
<1>1. CASE UNCHANGED vars
  BY <1>1 DEF vars, retryVars, machineVars, BInv, RetryInv, RetryTypes, Queued, Distinct,
              Counted, MachineTypes, Prepared, NotebookPrepared, Outcome
<1>2. ASSUME NEW u \in Users,
             \/ RetryStep(u) \/ MachineStep(u) \/ ScriptStep(u)
             \/ LoginStep(u) \/ UserStep(u) \/ Leaves(u)
      PROVE BInv' /\ (A!Next \/ Outcome' = Outcome)
  <2>1. MachineTypes' /\ Prepared'
    BY <1>2, MachinesKeep DEF BInv
  <2>2. CASE MachineStep(u) \/ ScriptStep(u)
    <3>1. UNCHANGED retryVars
      BY <2>2 DEF MachineStep, ScriptStep, Runs, Boots, Machine, SetupBegins, Mounted,
                  AccountMade, SetupFails, Script
    <3>2. RetryInv' /\ Outcome' = Outcome
      BY <3>1 DEF retryVars, BInv, RetryInv, RetryTypes, Queued, Distinct, Counted, Outcome
    <3> QED BY <2>1, <3>2 DEF BInv
  <2>3. CASE RetryStep(u)
    BY <2>1, <2>3, RetryStepKeeps DEF BInv
  <2>4. CASE LoginStep(u) \/ UserStep(u) \/ Leaves(u)
    BY <2>1, <2>4, LoginRetries DEF BInv
  <2> QED BY <1>2, <2>2, <2>3, <2>4
<1> QED BY <1>1, <1>2 DEF Next

LEMMA BootInvariance == Spec => []BInv
BY BootInit, BootStep, PTL DEF Spec

(* No call makes more attempts than it may, and the pool's queue holds     *)
(* attempts of calls under way only.                                       *)
THEOREM BootTypeCorrect == Spec => []BootTypeOK
<1>1. BInv => BootTypeOK
  BY DEF BInv, RetryInv, RetryTypes, Queued, MachineTypes, BootTypeOK, Users, AllTries
<1> QED BY BootInvariance, <1>1, PTL

(* However set-ups, stops and logins interleave, a notebook runs on a      *)
(* machine that is set up to the end only.                                 *)
THEOREM NotebooksPrepared == Spec => []NotebookPrepared
<1>1. BInv => NotebookPrepared
  BY DEF BInv, Prepared
<1> QED BY BootInvariance, <1>1, PTL

(* The safety half of CallsAnswered: each call is answered once, and only  *)
(* a call that was made.                                                   *)
THEOREM AnswersOnce == Spec => A!Safe
<1>1. BInv /\ [Next]_vars => [A!Next]_Outcome
  BY BootStep
<1> QED BY BootInit, BootInvariance, <1>1, PTL DEF Spec, A!Safe, Outcome

---------------------------------------------------------------------------
(* Whatever step is taken, retry() takes one of its own or none. *)
LEMMA RetryKinds ==
  ASSUME NEW u \in Users,
         \/ RetryStep(u) \/ MachineStep(u) \/ ScriptStep(u)
         \/ LoginStep(u) \/ UserStep(u) \/ Leaves(u)
  PROVE  \/ UNCHANGED retryVars
         \/ Taken(u) \/ Returns(u) \/ Fails(u) \/ Resubmits(u) \/ GivesUp(u)
         \/ \E n \in {SshTries, RunTries, HangTries} : Submit(u, n)
<1>1. CASE RetryStep(u)
  BY <1>1 DEF RetryStep, AttemptSucceeds, AttemptFails
<1>2. CASE MachineStep(u) \/ ScriptStep(u)
  BY <1>2 DEF MachineStep, ScriptStep, Runs, Boots, Machine, SetupBegins, Mounted,
              AccountMade, SetupFails, Script
<1>3. CASE Continues(u) \/ FindsMachine(u) \/ StartsMachine(u)
  BY <1>3 DEF Continues, FindsMachine, StartsMachine, AsksHealth, Goes
<1>4. CASE LoggedIn(u) \/ LoginFails(u) \/ PollEnds(u) \/ Leaves(u)
  BY <1>4 DEF LoggedIn, LoginFails, PollEnds, Leaves, AsksHealth, Goes
<1> QED BY <1>1, <1>2, <1>3, <1>4 DEF LoginStep, UserStep

(* The safety half of "every call is answered": however many attempts wait *)
(* for how few threads, a call never has more than 3n + 2 steps before it, *)
(* and each of its steps leaves it with fewer.                             *)
THEOREM AttemptsCount == Spec => AttemptsRunOut
<1> DEFINE Closer(c) ==
       state[c] \in UnderWay /\ (state'[c] # state[c] \/ left'[c] # left[c]) =>
         \/ state'[c] \in {"answered", "failed"}
         \/ state'[c] \in UnderWay /\ StepsLeft(c)' \in 1..(StepsLeft(c) - 1)
<1>1. ASSUME RetryInv, NEW u \in Users, NEW c \in Calls,
             \/ RetryStep(u) \/ MachineStep(u) \/ ScriptStep(u)
             \/ LoginStep(u) \/ UserStep(u) \/ Leaves(u)
      PROVE Closer(c)
  <2> USE <1>1 DEF RetryInv, RetryTypes, UnderWay, StepsLeft
  <2>1. left[c] \in Nat
    BY TriesTypes
  <2>2. CASE UNCHANGED retryVars
    BY <2>2 DEF retryVars
  <2>3. CASE Taken(u)
    BY <2>1, <2>3 DEF Taken, Queued
  <2>4. CASE Returns(u) \/ GivesUp(u)
    BY <2>4 DEF Returns, GivesUp
  <2>5. CASE Fails(u)
    BY <2>1, <2>5 DEF Fails, Counted
  <2>6. CASE Resubmits(u)
    BY <2>1, <2>6 DEF Resubmits, Queue
  <2>7. CASE \E n \in {SshTries, RunTries, HangTries} : Submit(u, n)
    BY <2>7 DEF Submit, Queue
  <2> QED BY <2>2, <2>3, <2>4, <2>5, <2>6, <2>7, RetryKinds
<1>2. BInv /\ [Next]_vars => [\A c \in Calls : Closer(c)]_retryVars
  <2> SUFFICES ASSUME BInv, [Next]_vars, NEW c \in Calls
               PROVE UNCHANGED retryVars \/ Closer(c)
    OBVIOUS
  <2> QED BY <1>1 DEF BInv, Next, vars
<1> QED BY <1>2, BootInvariance, PTL DEF Spec, AttemptsRunOut

---------------------------------------------------------------------------
(* sshd *)

(* user_data_worker.sh: "If an error occurs or the script exits            *)
(* successfully, SSH should be restarted automatically": a machine that is *)
(* up refuses connections only while the script is between stopping sshd   *)
(* and its end.                                                            *)
SshdDownOnlyInSetup == \A u \in Users : machine[u] = "on" /\ u \notin sshd => InSetup(u)

LEMMA SshdInit == Init => SshdDownOnlyInSetup
BY DEF Init, SshdDownOnlyInSetup

LEMMA SshdStep ==
  ASSUME BInv, SshdDownOnlyInSetup, [Next]_vars
  PROVE SshdDownOnlyInSetup'
<1> USE DEF BInv, MachineTypes, SshdDownOnlyInSetup, InSetup
<1>1. CASE UNCHANGED vars
  BY <1>1 DEF vars, machineVars
<1>2. ASSUME NEW u \in Users, RetryStep(u) PROVE SshdDownOnlyInSetup'
  BY <1>2 DEF RetryStep, AttemptSucceeds, AttemptFails, machineVars
<1>3. ASSUME NEW u \in Users, MachineStep(u) PROVE SshdDownOnlyInSetup'
  BY <1>3 DEF MachineStep, Runs, Boots, Machine
<1>4. ASSUME NEW u \in Users, ScriptStep(u) PROVE SshdDownOnlyInSetup'
  <2>1. CASE SetupBegins(u)
    BY <2>1 DEF SetupBegins, Script
  <2>2. CASE Mounted(u)
    BY <2>2 DEF Mounted, Script
  <2>3. CASE AccountMade(u) \/ SetupFails(u)
    BY <2>3 DEF AccountMade, SetupFails, Script
  <2> QED BY <1>4, <2>1, <2>2, <2>3 DEF ScriptStep
<1>5. ASSUME NEW u \in Users, LoginStep(u) \/ UserStep(u) \/ Leaves(u)
      PROVE SshdDownOnlyInSetup'
  <2>1. CASE Stopped(u)
    BY <2>1 DEF Stopped
  <2>2. CASE /\ UNCHANGED <<setup, sshd>>
             /\ machine' = machine \/ machine' = [machine EXCEPT ![u] = "pending"]
    BY <2>2
  <2> QED BY <1>5, <2>1, <2>2
          DEF LoginStep, UserStep, Leaves, Continues, LoggedIn, LoginFails, PollEnds,
              StartsMachine, FindsMachine, machineVars
<1> QED BY <1>1, <1>2, <1>3, <1>4, <1>5 DEF Next

(* user_data_worker.sh keeps its promise in every interleaving of set-up,  *)
(* stop and boot: sshd of a machine that is up is down in mid-script only. *)
THEOREM SshdComesBack == Spec => []SshdDownOnlyInSetup
<1>1. BInv /\ SshdDownOnlyInSetup /\ [Next]_vars => SshdDownOnlyInSetup'
  BY SshdStep
<1> QED BY <1>1, SshdInit, BootInvariance, PTL DEF Spec

---------------------------------------------------------------------------
(* A machine whose script ended without an account. *)

(* The script runs once: nobody but its last part makes an account, and    *)
(* nothing brings a script back that is over.                              *)
LEMMA UnusableStays ==
  ASSUME BInv, [Next]_vars, NEW v \in Users, Unusable(v)
  PROVE Unusable(v)'
<1> USE DEF BInv, MachineTypes, Unusable, InSetup
<1>1. CASE UNCHANGED vars
  BY <1>1 DEF vars, machineVars
<1>2. ASSUME NEW u \in Users, RetryStep(u) \/ MachineStep(u) PROVE Unusable(v)'
  BY <1>2 DEF RetryStep, AttemptSucceeds, AttemptFails, machineVars, MachineStep, Runs, Boots,
              Machine
<1>3. ASSUME NEW u \in Users, ScriptStep(u) PROVE Unusable(v)'
  <2>1. u # v
    BY <1>3 DEF ScriptStep, SetupBegins, Mounted, AccountMade, SetupFails, Script
  <2> QED BY <1>3, <2>1 DEF ScriptStep, SetupBegins, Mounted, AccountMade, SetupFails, Script
<1>4. ASSUME NEW u \in Users, LoginStep(u) \/ UserStep(u) \/ Leaves(u) PROVE Unusable(v)'
  BY <1>4 DEF LoginStep, UserStep, Leaves, Continues, LoggedIn, LoginFails, PollEnds,
              StartsMachine, FindsMachine, machineVars, Stopped
<1> QED BY <1>1, <1>2, <1>3, <1>4 DEF Next

(* A set-up that failed or was cut short is unusable for good: no stop,    *)
(* boot or login gives its user a server.                                  *)
UnusableForGood ==
  [][\A u \in Users : Unusable(u) => Unusable(u)' /\ stage'[u] # "up"]_vars

(* A user who is up has a notebook. *)
UpServed == \A u \in Users : stage[u] = "up" => u \in notebook

LEMMA UpServedStep ==
  ASSUME BInv, UpServed, [Next]_vars
  PROVE UpServed'
<1> USE DEF BInv, MachineTypes, UpServed
<1>1. CASE UNCHANGED vars
  BY <1>1 DEF vars
<1>2. ASSUME NEW u \in Users, RetryStep(u) \/ MachineStep(u) \/ ScriptStep(u) PROVE UpServed'
  BY <1>2 DEF RetryStep, AttemptSucceeds, AttemptFails, MachineStep, Runs, Boots, Machine,
              ScriptStep, SetupBegins, Mounted, AccountMade, SetupFails, Script
<1>3. ASSUME NEW u \in Users, LoginStep(u) \/ UserStep(u) \/ Leaves(u) PROVE UpServed'
  <2>1. CASE Stopped(u) /\ stage' = [stage EXCEPT ![u] = "out"]
    BY <2>1 DEF Stopped
  <2>2. CASE notebook' = notebook /\ \E to \in Stages \ {"up"} : stage' = [stage EXCEPT ![u] = to]
    BY <2>2
  <2>3. CASE LoggedIn(u)
    BY <2>3 DEF LoggedIn
  <2> QED BY <1>3, <2>1, <2>2, <2>3
          DEF LoginStep, UserStep, Leaves, Continues, LoginFails, PollEnds, Goes,
              StartsMachine, FindsMachine, AsksHealth, Stages
<1> QED BY <1>1, <1>2, <1>3 DEF Next

(* Why LoginHeals has to except them: a user whose set-up failed or was    *)
(* cut short by a stop never gets a server again.                          *)
THEOREM FailedSetupsLast == Spec => UnusableForGood
<1>1. Init => UpServed
  BY DEF Init, UpServed
<1>2. BInv /\ UpServed /\ [Next]_vars => UpServed'
  BY UpServedStep
<1>3. BInv /\ BInv' /\ UpServed' /\ [Next]_vars
        => [\A u \in Users : Unusable(u) => Unusable(u)' /\ stage'[u] # "up"]_vars
  <2> SUFFICES ASSUME BInv, BInv', UpServed', [Next]_vars, NEW u \in Users, Unusable(u)
               PROVE Unusable(u)' /\ stage'[u] # "up"
    OBVIOUS
  <2>1. Unusable(u)'
    BY UnusableStays
  <2>2. u \in notebook' => u \in account'
    BY DEF BInv, Prepared, NotebookPrepared
  <2> QED BY <2>1, <2>2 DEF UpServed, Unusable
<1> QED BY <1>1, <1>2, <1>3, BootInvariance, PTL DEF Spec, UnusableForGood

=============================================================================
