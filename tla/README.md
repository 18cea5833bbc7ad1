# cloudJHub in TLA+

cloudJHub runs JupyterHub on AWS with one EC2 machine ("worker") per user.
This directory holds TLA+ specifications of the parts of it that decide over
those machines, TLC runs that check them, and TLAPS proofs.  The source of
truth is the code under `src/`; every definition names the lines it translates
in `PROJECT.json` (`map`).

## The system

| component | state it keeps | operations | modelled in |
|---|---|---|---|
| spawner (`spawner.py`) | none of its own between calls: coroutines, Fabric's global `env` | `start`, `stop`, `poll`, `kill_instance`, `create_new_instance`, helpers | `Spawner` |
| server table (`models.py`) | rows `(server_id, user_id)`, both unique, in SQLite | `new_server`, `get_server`, `remove_server` | `db` in `Spawner`, `Tenancy` |
| hub (JupyterHub, external) with `jupyterhub_config.py` | who has a server, which call is pending | spawn on login, poll every 10 s, stop, give up after 300 s | `hub`, `call` in `Spawner` |
| EC2 and the workers (external) | machine states, notebook processes, accounts | `run_instances`, start, stop, terminate; SSH | `Cloud` |
| `retry` (`spawner.py`) | attempts left; 100 threads shared by all calls | an attempt, a sleep, an answer or `RETRY_FAILED` | `Retry`, `OneAnswer` |
| worker set-up (`user_data_worker.sh`) | sshd, mounts, the account | one pass, with an EXIT trap | `WorkerBoot` |
| culler (`cull_idle_servers.py`) | per cull: requests, `servers_to_check` | `cull_idle`, `manually_kill_server` | `Culler` |
| terminate script (`terminate_all_workers.py`) | the ids it holds | `delete_user_ec2`, `delete_all_users_ec2s` | `TerminateWorkers` |
| launcher (`launch.py`) | none: it leaves security groups, an AMI and machines in AWS | one pass over some 30 AWS calls and remote commands | `Launcher`, `ClusterName` |
| user list, culler runner, init script, authenticator, templates | none or data | | not modelled, see the end |

How they interact: the hub calls the spawner's coroutines, all on one event
loop; they read and write the table, call EC2 in threads, and run commands on
workers through Fabric, whose settings are global to the process.  The culler
and the terminate script are processes of their own.  They share the table and
the machines with the spawner; the culler also asks the hub, over its API, for
the users and to stop servers.  A worker sets itself up while the spawner
already tries to reach it.  The launcher comes before all of this: it makes the
groups, the AMI and the configuration the hub then relies on.

What is hard: coroutines interleave at every `yield`; a stop is set off and not
waited for; the global `env` is switched inside blocks that stay open across
yields; launching a machine and recording it are two steps; a call may fail for
good, fail after it took effect, or come back long after the hub has given up
on it; the hub may die at any point; three processes work on the same machines;
waits of minutes share one pool of threads; the set-up of a worker races with
the first commands sent to it; a launch may end at any step and be repeated
under the same name.  `PROJECT.json` (`hazards`) lists these at their lines.

What makes the components correct:

* table and spawner: a machine serves the user it was launched for, a user has
  one machine, no machine runs without a row;
* spawner and hub: the hub waits for the coroutine it called and no other, calls
  end, logins succeed, hung machines are found, healthy ones are left alone;
* retry and set-up: every call is answered once, a notebook runs only on a
  machine that is completely set up, sshd comes back;
* stop and culler: machines of inactive users go down, those of active users do
  not;
* terminate script: what `delete_user_ec2` takes out of the table it terminates,
  and it terminates nothing a login can still find;
* launcher: one launch per name at a time, nothing left that cannot be deleted,
  the hub finds everything it reads.

## The modules

* **`Cloud`** - machines: `ec2[i]` (EC2's state), `hung[i]` (no SSH), `nb[i]`
  (the notebook server runs), `owner[i]` (launched for).  One operator per boto3
  call the code makes, and the steps machines take by themselves.  `Faults` says
  which troubles a run allows; each is explained in the module.
* **`Spawner`** (extends `Cloud`) - a *task* is a slot for one coroutine: `pc[t]`
  is the call it waits for, `who[t]` its user, `inst[t]` the machine it read from
  the row.  An action is the answer to that call with everything up to the next
  `yield`.  `env` and `saved[t]` are Fabric's host and what an open `settings()`
  block will restore.  `hub[u]` and `call[u]` are the hub's side: `out`,
  `spawning`, `up`, `polling`, `quitting` (the poll before a stop), `stopping`.
  A coroutine nobody waits for any more runs on and `EndsUnheard`.
  A retried command is sent to `inst[t]` on its first attempt and to whatever
  `env` names on the later ones (`Hosts`).  Each helper has its own block: a
  coroutine whose helper has returned is at `healthy`, `reached`, `absent` or
  `pollhealthy`, out of any block, until `OpensNext` enters the next helper, for
  the returns of nested coroutines give the event loop turns.  `missed` and
  `pollmissed` are the second `is_notebook_running` sleeps with its block open.
  Only `remote_notebook_start` goes from its block into the next one with no
  `yield` between (`NextBlock`).
* **`Tenancy`** - the abstract specification of the table: machines are launched
  for users, rows are written once, for the user's own machine.  `Spec` is
  implemented by `Spawner`, `AdminSpec` (rows may be taken out one at a time) by
  `Spawner` with the script.
* **`TerminateWorkers`** (extends `Spawner`) - the script as a second process:
  `stage` and `todo`, one action per statement another process can come between.
  `failed` records the machines for which `delete_user_ec2` has returned 1 or
  was killed between its two calls (`ScriptDies`; the script may die anywhere).
* **`Culler`** (extends `Spawner`) - culls `c` with `cpc[c]`, the DELETE requests
  on their way (`asked`) or at work in the hub (`handled`), `check[c]` for
  `servers_to_check`, `target[c]` for the machine being looked at, `sends` for the
  stops it set off, and `active[u]` for the hub's record of activity.
  `DeleteHandled` is `HubStops` of `Spawner`: the request is the hub's own stop.
  A DELETE that finds the stop under way is answered without an error
  (`DeletePending`), one without a server is refused (`DeleteRefused`), and one
  may time out before or after the hub takes it up (`DeleteErrs`).
  The first cull runs in `run_sync`: an error in it ends the process, which the
  hub restarts as its service; in the model the slot is free again.  `HubDies`
  breaks the requests of every cull: it ends, or sees an `HTTPError` for each.
* **`OneAnswer`**, **`Retry`** - what a caller of `retry()` relies on, and
  `retry()` with its attempts, sleeps and the queue of a bounded pool.
* **`WorkerBoot`** (extends `Retry`) - machines in their first minutes: `sshd`,
  `setup[u]` (the part of the script that runs next), `account`, `open` (Fabric
  keeps a connection), and `stage[u]`, the call of `start()` or `poll()` that the
  login of `u` has under way in `retry()`.  `Reachable` is the attempt itself:
  commands go over a connection that is open already, which `service ssh stop`
  does not close; the notebook is started under the user's own account.
  Everything `Spawner` is about (rows, hosts, hung machines, several coroutines
  of one user) is left out here, as the attempts are left out there.
* **`ClusterName`**, **`Launcher`** - a lock on the name of a cluster, and runs
  `r` of `launch.py` under one name: `pc[r]` is the next call, `done[r]` and
  `missing[r]` the commands of `setup_manager` it has run and those that failed
  in silence, `rounds[r]` the counter of the loop it is in.  `group`, `refs`,
  `image`, `live` are the resources: who created each security group, which rule
  names which group, whose AMI has the name, which machines run.  Any call may be
  the last (`Raises`).  Between the calls of the runs, the hub launches workers
  and administrators terminate machines and delete groups and AMIs in whatever
  order EC2 accepts (the header of `terminate_all_workers.py` tells them to).
* **`MCSpawner`, `MCTerminateWorkers`, `MCCuller`, `MCWorkerBoot`, `MCLauncher`** -
  constants and symmetry sets for TLC.
* **`SpawnerProofs`, `LoginProofs`, `FabricProofs`, `TerminateWorkersProofs`,
  `CullerProofs`, `WorkerBootProofs`, `LauncherProofs`** - the theorems.
  `LoginProofs` extends `SpawnerProofs`; the proofs about the script and the
  culler extend `LoginProofs`, and cite its lemmas about the hub's steps.
* **`Uptime`** - the arithmetic of `check_for_hanged_ec2`, with its theorems.

The definitions
commented "A mutant" are deliberately wrong versions of their neighbours.  No
specification uses them: they serve to see that a property notices the mistake.

### Abstractions

* In `Spawner` and `Culler`, `retry()` is its outcome: an answer, or failure
  after the last attempt.  Failing attempts before that change nothing, except a
  lost `run_instances` (`LaunchLost`), which is a step.  That a call has exactly
  one outcome however full the pool is, is what `Retry` shows.  The culler's
  `retry()` (10 threads, 20 attempts) returns `None` instead of `RETRY_FAILED`;
  the launcher's blocks the script and raises the last exception (the script is
  Python 2.7, where the name of the exception survives the `except` block).
* Time is left out.  The three-minute rule of `check_for_hanged_ec2` is a choice
  between probing and trusting (what it computes is in `Uptime`); `start_timeout`
  is the fault `abandon`; the idle timeout is `UserIdles`.  `WorkerBoot` assumes that a machine has booted
  before the three minutes are over.
* `is_notebook_running` is one call: the 30 attempts after a start end either
  way and their answer is dropped by the code.
* `nb` only holds a notebook of the machine's owner: another user's notebook
  exits for want of an account.
* `setup_manager` is the twelve commands that leave something behind, with what
  each of them cannot succeed without; names of packages, ports, tags, the order
  of rules within one call are left out.
* JupyterHub, EC2, cloud-init, SSH and administrators are modelled from how this
  code uses them.

## The runs

All runs are complete: TLC visits every state of the instance.  The bounds are
the sizes of the sets `Users`, `Instances` (the account's limit on machines ever
launched), `Tasks` (coroutines under way), `Culls`, `Deaths`, `Runs`, `Calls`,
and the numbers of attempts and rounds; no state constraint is used.  One user
suffices for questions about one user's calls; two are needed for mixing up
machines or hosts, or for one to be in another's way; three tasks let a pending
stop, a poll and a new start of the same user be under way together.

| run | instance | shows |
|---|---|---|
| `Solo` | 1 user, 2 machines, 3 tasks; hang, exit, terminate; fair | with one user, no crash, no lost answer and no call that overtakes another: `CommandsOnTarget`, `KillsOnlyHanged`, `TrustsOwnMachine`; `NoOrphan`, `OneMachinePerUser`; `HangEnds`; `LoginSucceeds`: once the machines are left alone, a user who keeps logging in gets a server, unless the machine was terminated |
| `Chaos` | 1, 2, 2; all nine faults; fair | `TypeOK`, `HubAgrees`, `SnapshotFresh`, `Tenancy` (refinement); `LoginsLand`: a login succeeds only on the user's own serving machine; `OrphansHaveCause`: the three ways a machine gets out of sight; `WaitsShorten`; `CallsEnd` |
| `Delete` | 2, 2, 2; no fault but the death of the script | `OwnMachine`, `TerminatesUnlisted`, `NoneLeftBehind`, `ScriptTenancy` (refinement), `ScriptTypeOK` |
| `Idle` | 1, 1, 1, 2 culls, the hub dies once; hang, exit, terminate; fair | `IdleStops`, `CullsComplete`, `CullsGetOn`, `CullsRecorded`, `CullTypeOK` |
| `Launch` | 2 runs, 2 rounds of the AMI wait, 1 lost launch each; fair | `NameHasOneHolder` (refinement), `HubKeepsGroups`, `Dismantlable`, `BuilderReplaced`, `HubFindsAll`, `RunsGetOn`, `LaunchEnds`, `LaunchTypeOK` |
| `Boot` | 2 users, 1 thread, 2 attempts at SSH, 1 at anything else; fair | `CallsAnswered` (refinement), `AttemptsRunOut`, `NotebookPrepared`, `SshdReturns`, `LoginHeals`, `BootTypeOK` |

What `Solo` leaves out, it leaves out on purpose: its first three properties say
that `env` serves one user well, and two users break them (`WrongKill`); a
process id that contains the port makes `TrustsOwnMachine` false for one user too
(the fault `pid`, which `Chaos` has and `LoginsLand` survives); `NoOrphan` and
`OneMachinePerUser` end with a crash, an abandoned start or a lost answer, and
`OrphansHaveCause` is what is left of them then.

Why the small instances are enough: every safety and action property of `Chaos`
is also proved for every number of users, machines and tasks, so `Chaos` with two
tasks (a zombie and its successor) has to show `CallsEnd` only, which is about
one call and one that runs beside it.  In `Boot` one thread for
two users is the pool at its limit: every wait of one starves the other as far
as it can.  In `Launch` a second run can meet the first at every step, and two
rounds tell the last from the others.  In `Delete` a script that dies between
its two calls leaves what a `terminate()` that fails leaves; with failing AWS
calls besides (`api`) the run takes too long; none of the theorems of
`TerminateWorkersProofs` excludes them.  In `Idle` one death of the hub can fall
between any two steps of two culls that overlap, and after it everything is as
it was but for the requests it broke.  `IdleStops` excepts the runs in which EC2
has forgotten a machine of the table (`RowUnknown`).  With that exception one
user is enough: to a cull, another user is an entry of the list it passes on its
way, and it passes every entry whose machine can be loaded.  Without it two users
refute the claim, which is the run `CullStuck`.

Six runs end in a counterexample, each a disagreement between the code and what
its own text says (`findings` quotes it):

| run | what happens |
|---|---|
| `LateStop` | `stop()` does not wait for the stop; the user logs in again and loses the machine |
| `WrongKill` | with two users, a retried SSH probe goes to the other user's machine, which hangs: the healthy one is killed.  `TrustsOwnMachine` fails with two users for the same reason: a dead notebook is reported alive |
| `GoneForGood` | a machine was terminated and deleted: its row stays (its removal is commented out), and its user is refused at every login, where the comments of `start()` expect a new server |
| `CullStuck` | the hub dies while one user logs in, and the machine of another user is gone: every cull raises when it loads that one, and the first user's machine runs on, idle and without a server in the hub |
| `CullActive` | the culler's list is old: it stops the machine of a user who is just logging in (with the one user of the run the hub, the load and the retries take the time; the users before in the list would, too) |
| `BootRace` | sshd runs before the set-up stops it; the spawner connects, and its next command is run in the middle of the set-up |

Seen in the model, without a run of its own: `start()` returns `None` for a
machine that does not answer (`spawner.py:138`); after a crash between
`run_instances` and the row the next login launches a second machine for the user
(`README.md:8` speaks of one; of the two, `OrphansHaveCause` and the condition of
`OneMachineWithoutMishap` name the cause);
`delete_user_ec2` takes the row out before `terminate()`, so a machine whose
termination failed or never came is known to EC2 alone (`NoneLeftBehind` says
that these are the only ones of the script); `delete_all_users_ec2s` leaves the
rows of what it terminates, and their users get where `GoneForGood` begins; a
set-up that fails or is cut short leaves a machine no login can ever use
(`FailedSetupsLast`); a machine out of sight is never found again
(`OrphansHaveCause`); a machine that is launched in vain because its answer is
lost keeps `launch.py`'s groups from being deleted until somebody finds it.  Seen
in the code alone: `jupyterhub_config.py:103` starts the culler with
`--timeout=3600`, so that `JUPYTER_NOTEBOOK_TIMEOUT`, which `README.md:97` tells
the administrator to set, has no effect.

### Fairness

`Fairness` (`Spawner`): every coroutine goes on, because every call is answered
or given up after a bounded number of attempts.  This takes for granted that each
attempt returns: the code sets no `command_timeout` for Fabric, so a command on a
machine that hangs after the connection was made is taken to be cut off by SSH or
the network.  Machines boot and halt; the user
comes back (`HubSpawns`) and the hub polls (`poll_interval = 10`).  Strong
fairness of `PollSeesRunning(t, "pollhealth")`: a poll trusts a machine unprobed
only in three minutes of every day of its uptime (`timedelta.seconds` leaves the
days out), so of polls ten seconds apart some always probes it: `TrustIsShort` in
`Uptime` is that argument.  `CullFairness` (`Culler`): the same without logins, plus the culler's
own steps and `PeriodicCallback` (`CullStarts`).  That the hub ever takes a DELETE
up is not assumed: Tornado's HTTP client gives a request up after 20 seconds.  `FairSpec` of `WorkerBoot`: attempts and sleeps end,
machines boot, the script goes on, coroutines are resumed, and a user who was
refused logs in again; the pool takes attempts in order, so no fairness between
users is assumed.  `FairSpec` of `Launcher`: the next call of a run is answered,
and a call that cannot succeed (a name in use, a machine that is gone) is
refused.  Nothing is assumed of the faults, of users being active, of the AMI
ever becoming available, or of administrators.

## The proofs

All theorems hold for any sets of users, machines, tasks, culls, runs and any
numbers of attempts, threads and rounds, from the assumptions the modules name:
the no-values are not members of the sets, the numbers are positive (`Deaths`
may be zero), `Faults` of `Culler` has no `crash` of its own.

**`SpawnerProofs`**

* `TypeCorrect`: `Spec => [](TypeOK /\ Slots)`.  `TypeOK` is not inductive: a
  coroutine that ends hands its user to the next one, so `Slots` (a slot has a
  user exactly while it runs, a machine exactly once a launch was answered) is
  needed to know that there is a user to hand over.
* `MachinesStayWithUsers` (`OwnMachine`) and `SnapshotsStayFresh`
  (`SnapshotFresh`): `Inv2 == Inv1 /\ OwnMachine /\ SnapshotFresh`.  Every step
  but three is `Quiet` (no launch, no row, no machine comes to life by itself,
  each coroutine keeps its machine or reads its row); `LaunchAnswered`,
  `LaunchLost` and `Record` are treated one by one.
* `ImplementsTenancy`: the refinement, from `Inv2`; quiet steps stutter, launches
  are `Launch`, `Record` is `Bind`.
* `HubAlwaysAgrees` (`HubAgrees`): every step of a coroutine is one of a few
  `Moves`; the hub waits for no slot that is free.
* `NoOrphanWithoutMishap`, `OneMachineWithoutMishap`: if the environment does not
  crash the hub, abandon a start or lose the answer of a launch, every machine is
  in a row or in hand, and a user has one.  The invariant adds that every
  `start()` is awaited, so a user has at most one, that a launching coroutine's
  user has no row, and that every machine ever launched is in its user's row or
  in hand (`Tracked`).  The crash is a needed exception: the next
  login launches another machine.

**`LoginProofs`** - action properties of the hub, all from `Inv2` and `Inv3`
(`Inv2` and `HubAgrees`), that is under every fault:

* `LoginsLandHome` (`LoginsLand`): the hub sets a user `up` only in the step that
  ends the awaited `start()` (`OnlyStartLogsIn`), whose machine is the user's by
  `OwnMachine` and still in the row by `SnapshotFresh`: the two invariants are
  what makes a decision minutes old safe to act on.
* `TerminatedForGood` (`LostForGood`): no step brings a terminated machine back or
  rewrites a row (`LostStays`), and a lost machine serves nobody.  It is the other
  side of `GoneForGood`: whatever the user and the others do, the login fails.
* `OrphansExplained` (`OrphansHaveCause`): the quiet steps neither move rows nor
  take a machine out of a hand (`OrphanHasCause`); a machine out of sight is in
  no hand, and only a hand could record it (`OrphanStays`).
* `WaitsGetShorter` (`WaitsShorten`): calls have an order (`CallsOrdered`) every
  step of a coroutine goes down (`StepsDown`), and no coroutine is heard but the
  one the hub waits for (`OthersUnheard`).

**`FabricProofs`** - for one user whose starts are not abandoned and whose polls
are not overtaken: `CommandsStayOnTarget`, `HealthyMachinesSpared`
(`KillsOnlyHanged`) and, without crashes and misleading process ids,
`PollsTrustOwnMachine`.  `FabricInv` says that every coroutine but a late stop is
one the hub waits for (`AllAwaited`), so at most one block is open; that an open
block's host is its machine and it will restore none (`BlockNames`); and that
without a block there is no host.  `WrongKill` shows that two users are enough to
break it.

**`TerminateWorkersProofs`** - `ScriptInv` joins `Inv1` and `OwnMachine` to what
the script holds: machines of somebody (`HoldsLaunched`), one only in
`delete_user_ec2` (`HoldsOne`), and none of those a coroutine is about to record
(`InHand`), without which a row could be written for a machine the script is
about to terminate.  From it `UnlistedBeforeTerminated`,
`MachinesStayThroughDeletes`, `ImplementsAdminTenancy` (`DeleteRemoves` is
`Release`), and with the invariant of `NoOrphan`, `NoMachineLeftBehind`.
`WaitsShortenThroughDeletes`: the script touches neither hub nor coroutines
(`ScriptApart`), so their agreement and `WaitsShorten` survive it.
`SnapshotFresh` is no theorem here: the script does take rows out under
coroutines that have read them.

**`CullerProofs`** - `CullTypeCorrect` and `CullsOnlyRecorded`: the hub's steps
keep rows (from `StepTenancy`), and a cull has a machine in hand exactly while it
loads it (`Targets`), deaths of the hub included.  What the hub sees of a step of
the culler is a step of its own, a stop of a machine, a restart, or nothing
(`HubSees`); so the theorems of `SpawnerProofs` and `LoginProofs` carry over:
`CullerKeepsTable` (`Tenancy`, `OwnMachine`, `SnapshotFresh`, `HubAgrees`),
`CullerSparesLogins` (`LoginsLand`, `LostForGood`, `WaitsShorten`) and, while the
hub lives and no launch goes wrong, `CullerHidesNone` (`NoOrphan`,
`OneMachinePerUser`).  `OrphansHaveCause` does not: it names `HubRestarts`, and
here a hub dies by `HubDies`.  `CullsAdvance` (`CullsGetOn`): a cull that changes
gets nearer its end, whoever makes the step; it needs that only a waiting cull
has requests out (`AskedOnlyWaiting`).

**`WorkerBootProofs`** - `BootTypeCorrect`, `NotebooksPrepared`,
`AttemptsCount` (`AttemptsRunOut`: 3n + 2 steps for n attempts, in a pool of any
size), `SshdComesBack` (the safety core of `SshdReturns`: sshd of a machine that
is up is down in mid-script only), `FailedSetupsLast` (why `LoginHeals` has to
except the unusable; its invariant is that whoever is up has a notebook), and
`AnswersOnce`, the safety half of `CallsAnswered` (`Spec => A!Safe`).  The type
of the counter is not inductive: that it stays above zero needs that an attempt
which waits or runs was left to make (`Counted`), and that the queue stands for
the waiting attempts needs that nobody is in it twice (`Distinct`).

**`LauncherProofs`** - `LauncherTypeCorrect`, `HubsKeepGroups`,
`ClusterDismantlable`, `BuildersReplaced`, `HubFindsAllThere`, `LaunchesAdvance`
(`RunsGetOn`) and the refinement `ImplementsClusterName`.  `IInv` says which rules there can be and which there
must be once a run is past making them (`References`, `RulesKept`), that a
machine keeps the groups of its own run from being deleted (`InUse`: the rule of
`manager2` protects the worker group, the rule of the worker group the manager
group, the machine both manager groups), and where a run with a builder or a
manager can be (`OneAtATime`).  `HubFindsAll` needs what `missing`
can hold: only commands that may fail in silence (`MissingQuietly`), and none of
those makes what the hub reads; the rest is the order of `Setup` (`SetupOrder`).
`LaunchesAdvance` gives every call its place in the script (`PlaceGrows`) and
every loop its turns (`LoopStepsCount`).

**`Uptime`** - `TrustIsShort` and `TrustedAgain`, about `timedelta.seconds` for
every uptime, negative ones (a launch time ahead of the hub's clock) included.

Every invariant and every action property of a passing run is stated by one of
these theorems, except that of `CallsAnswered` only the safety half is.  Only
model-checked: liveness (`HangEnds`, `LoginSucceeds`, `CallsEnd`, `IdleStops`,
`CullsComplete`, `LaunchEnds`, `CallsAnswered`, `SshdReturns`, `LoginHeals`),
which needs `ENABLED` and is beyond the prover.  Of four of them what
progress rests on is proved, a measure every step of the thing waited for
brings down: `WaitsShorten` for `CallsEnd`, `CullsGetOn` for `CullsComplete`,
`RunsGetOn` for `LaunchEnds`, `AttemptsRunOut` for `CallsAnswered`; that the steps
come, which is fairness, stays with TLC.  The properties of the six runs that end
in a counterexample are false, and no theorems.

## Not modelled

* the user list of `jupyterhub_config.py` (86-98): read once into two sets, with
  no step and no state afterwards; the other settings are JupyterHub's own;
* the culler's runner and crontab: the crontab line is commented out, so nothing
  starts the runner and its race cannot happen; the hub runs the culler;
* the init script: a Debian template around `start-stop-daemon`; its effect, that
  the hub dies and comes back, is in `Spawner` and `Culler`;
* the authenticator stub (it accepts everybody and keeps nothing), CloudFormation
  templates, shell and instance settings: nothing of them runs beside anything;
* formatting and logging, the environment variables of the notebook command,
  tags (nothing reads them), `check_user_ec2` (it prints) and `get_server_count`
  (nothing calls it).

What could still be added: the terminate script and the culler beside each other
on one table; `IdleStops` and overlapping culls with two users (the liveness
properties exceed the time of a run); an account limit that `run_instances` meets at the same time from
hub and launcher.
