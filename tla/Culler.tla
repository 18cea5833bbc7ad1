------------------------------- MODULE Culler -------------------------------
(***************************************************************************)
(* cull_idle_servers.py next to the hub: a process of its own that asks    *)
(* the hub's API for the users, has the hub stop the servers of the idle   *)
(* ones, and stops the machines of idle users the hub has no server for    *)
(* by itself.  It shares the table of servers and the machines with the    *)
(* spawner, and sees the hub only through the API.                         *)
(*                                                                         *)
(* A cull is one run of the coroutine cull_idle.  PeriodicCallback starts  *)
(* the next one whether or not the last one is over.  dont_cull_these is   *)
(* left out: it is filled from the same snapshot as servers_to_check, with *)
(* the users the latter leaves out, so its test never fails.               *)
(*                                                                         *)
(* The hub may die here as well; Spawner's own fault "crash" is replaced   *)
(* by one that is bounded and also breaks the requests of the culler.      *)
(***************************************************************************)
EXTENDS Spawner

CONSTANTS
  Culls,    (* slots for runs of cull_idle: bounds how many overlap          *)
  Deaths    (* how often the hub dies and is started again                   *)

ASSUME CullAssumption == "crash" \notin Faults /\ Deaths \in Nat

VARIABLES
  deaths,    (* how often it has died                                       *)
  active,    (* active[u]: last_activity of u is within the timeout         *)
  cpc,       (* cpc[c]: where cull c is; "off" is an unused slot            *)
  asked,     (* asked[c]: users with a DELETE on its way to the hub         *)
  handled,   (* handled[c]: users with a DELETE the hub is working on       *)
  check,     (* check[c]: servers_to_check                                  *)
  target,    (* target[c]: the machine manually_kill_server looks at        *)
  sends      (* machines with a stop of the culler on its way to EC2        *)

cullVars == <<deaths, cpc, asked, handled, check, target, sends>>
allVars == <<vars, active, cullVars>>

CullPcs == {"off", "fetch", "wait", "check", "load"}

CullTypeOK ==
  /\ deaths \in 0..Deaths
  /\ active \in [Users -> BOOLEAN]
  /\ cpc \in [Culls -> CullPcs]
  /\ asked \in [Culls -> SUBSET Users]
  /\ handled \in [Culls -> SUBSET Users]
  /\ check \in [Culls -> SUBSET Users]
  /\ target \in [Culls -> Instances \union {NoInst}]
  /\ sends \subseteq Instances

CullInit ==
  /\ Init
  /\ deaths = 0
  /\ active = [u \in Users |-> FALSE]
  /\ cpc = [c \in Culls |-> "off"]
  /\ asked = [c \in Culls |-> {}]
  /\ handled = [c \in Culls |-> {}]
  /\ check = [c \in Culls |-> {}]
  /\ target = [c \in Culls |-> NoInst]
  /\ sends = {}

---------------------------------------------------------------------------
(* The hub and its users *)

(* start() sets last_activity first thing. *)
HubMoves ==
  /\ Next
  /\ active' = [u \in Users |->
               \/ active[u]
               \/ hub[u] = "out" /\ hub'[u] = "spawning"]
  /\ UNCHANGED cullVars

(* The proxy reports activity of a user with a server. *)
UserActs(u) ==
  /\ hub[u] = "up" /\ ~active[u]
  /\ active' = [active EXCEPT ![u] = TRUE]
  /\ UNCHANGED <<vars, cullVars>>

(* The timeout passes without activity. *)
UserIdles(u) ==
  /\ active[u]
  /\ active' = [active EXCEPT ![u] = FALSE]
  /\ UNCHANGED <<vars, cullVars>>

(* The hub is killed and started again.  Culls whose list is on its way    *)
(* end; of those that wait for a DELETE some see an HTTPError, others      *)
(* cannot even connect, which nobody catches.  Stops sent to EC2 stay.     *)
HubDies ==
  /\ deaths < Deaths
  /\ deaths' = deaths + 1
  /\ Restarted
  /\ \E going \in SUBSET {c \in Culls : cpc[c] = "wait"} :
       /\ cpc' = [c \in Culls |->
                    IF cpc[c] \in {"fetch", "wait"} /\ c \notin going THEN "off" ELSE cpc[c]]
       /\ check' = [c \in Culls |->
                      IF c \in going THEN check[c] \union asked[c] \union handled[c]
                      ELSE IF cpc[c] = "wait" THEN {} ELSE check[c]]
  /\ asked' = [c \in Culls |-> {}]
  /\ handled' = [c \in Culls |-> {}]
  /\ UNCHANGED <<active, target, sends>>

(* user['server'] in the answer of the API. *)
HasServer(u) == hub[u] \in {"up", "polling"}

---------------------------------------------------------------------------
(* cull_idle *)

CullStarts(c) ==
  /\ cpc[c] = "off"
  /\ cpc' = [cpc EXCEPT ![c] = "fetch"]
  /\ UNCHANGED <<vars, deaths, active, asked, handled, check, target, sends>>

(* A mutant: users without a server need no look. *)
CullSkipsServerless(c) ==
  /\ cpc[c] = "fetch"
  /\ cpc' = [cpc EXCEPT ![c] = "wait"]
  /\ asked' = [asked EXCEPT ![c] = {u \in Users : HasServer(u) /\ ~active[u]}]
  /\ UNCHANGED <<vars, deaths, active, handled, check, target, sends>>

(* The list of users arrives: every DELETE is sent off at once. *)
UsersListed(c) ==
  /\ cpc[c] = "fetch"
  /\ cpc' = [cpc EXCEPT ![c] = "wait"]
  /\ asked' = [asked EXCEPT ![c] = {u \in Users : HasServer(u) /\ ~active[u]}]
  /\ check' = [check EXCEPT ![c] = {u \in Users : ~HasServer(u) /\ ~active[u]}]
  /\ UNCHANGED <<vars, deaths, active, handled, target, sends>>

(* The hub takes a DELETE up: it stops the server. *)
DeleteHandled(c, u, t) ==
  /\ u \in asked[c]
  /\ HubStops(u, t)
  /\ asked' = [asked EXCEPT ![c] = @ \ {u}]
  /\ handled' = [handled EXCEPT ![c] = @ \union {u}]
  /\ UNCHANGED <<deaths, active, cpc, check, target, sends>>

(* The hub has no server to stop any more: HTTPError. *)
DeleteRefused(c, u) ==
  /\ u \in asked[c]
  /\ hub[u] \in {"out", "spawning"}
  /\ asked' = [asked EXCEPT ![c] = @ \ {u}]
  /\ check' = [check EXCEPT ![c] = @ \union {u}]
  /\ UNCHANGED <<vars, deaths, active, cpc, handled, target, sends>>

(* The server is being stopped already: the hub says so, with no error. *)
DeletePending(c, u) ==
  /\ u \in asked[c]
  /\ hub[u] \in {"quitting", "stopping"}
  /\ asked' = [asked EXCEPT ![c] = @ \ {u}]
  /\ UNCHANGED <<vars, deaths, active, cpc, handled, check, target, sends>>

DeleteDone(c, u) ==
  /\ u \in handled[c]
  /\ hub[u] \notin {"quitting", "stopping"}
  /\ handled' = [handled EXCEPT ![c] = @ \ {u}]
  /\ UNCHANGED <<vars, deaths, active, cpc, asked, check, target, sends>>

(* A mutant: a request that failed is made again. *)
DeleteRetried(c, u) ==
  /\ u \in handled[c]
  /\ handled' = [handled EXCEPT ![c] = @ \ {u}]
  /\ asked' = [asked EXCEPT ![c] = @ \union {u}]
  /\ UNCHANGED <<vars, deaths, active, cpc, check, target, sends>>

(* The request times out, before or after the hub has taken it up, or      *)
(* stopping ends in an error: HTTPError.                                   *)
DeleteErrs(c, u) ==
  /\ u \in asked[c] \union handled[c]
  /\ asked' = [asked EXCEPT ![c] = @ \ {u}]
  /\ handled' = [handled EXCEPT ![c] = @ \ {u}]
  /\ check' = [check EXCEPT ![c] = @ \union {u}]
  /\ UNCHANGED <<vars, deaths, active, cpc, target, sends>>

(* Every request has been answered. *)
AllAnswered(c) ==
  /\ cpc[c] = "wait"
  /\ asked[c] = {} /\ handled[c] = {}
  /\ cpc' = [cpc EXCEPT ![c] = "check"]
  /\ UNCHANGED <<vars, deaths, active, asked, handled, check, target, sends>>

CullEnds(c) ==
  /\ cpc[c] = "check"
  /\ check[c] = {}
  /\ cpc' = [cpc EXCEPT ![c] = "off"]
  /\ UNCHANGED <<vars, deaths, active, asked, handled, check, target, sends>>

---------------------------------------------------------------------------
(* manually_kill_server *)

(* A mutant: the machine is looked up under the name of the user. *)
KillBeginsByName(c, u) ==
  /\ cpc[c] = "check"
  /\ u \in check[c]
  /\ check' = [check EXCEPT ![c] = @ \ {u}]
  /\ cpc' = [cpc EXCEPT ![c] = "load"]
  /\ target' = [target EXCEPT ![c] = u]
  /\ UNCHANGED <<vars, deaths, active, asked, handled, sends>>

(* A mutant: the machine is looked up by its owner in EC2, not by its row. *)
KillBeginsByOwner(c, u) ==
  /\ cpc[c] = "check"
  /\ u \in check[c]
  /\ check' = [check EXCEPT ![c] = @ \ {u}]
  /\ cpc' = [cpc EXCEPT ![c] = "load"]
  /\ \E i \in Instances :
       owner[i] = u /\ target' = [target EXCEPT ![c] = i]
  /\ UNCHANGED <<vars, deaths, active, asked, handled, sends>>

(* The row of the next user is read; without one there is nothing to do.   *)
KillBegins(c, u) ==
  /\ cpc[c] = "check"
  /\ u \in check[c]
  /\ check' = [check EXCEPT ![c] = @ \ {u}]
  /\ IF db[u] = NoInst
       THEN UNCHANGED <<cpc, target>>
       ELSE /\ cpc' = [cpc EXCEPT ![c] = "load"]
            /\ target' = [target EXCEPT ![c] = db[u]]
  /\ UNCHANGED <<vars, deaths, active, asked, handled, sends>>

(* retry(instance.stop) is set off and not waited for. *)
KillSeesRunning(c) ==
  /\ cpc[c] = "load"
  /\ ec2[target[c]] = "running"
  /\ sends' = sends \union {target[c]}
  /\ cpc' = [cpc EXCEPT ![c] = "check"]
  /\ target' = [target EXCEPT ![c] = NoInst]
  /\ UNCHANGED <<vars, deaths, active, asked, handled, check>>

KillSeesDown(c) ==
  /\ cpc[c] = "load"
  /\ ec2[target[c]] \notin {"running", "gone"}
  /\ cpc' = [cpc EXCEPT ![c] = "check"]
  /\ target' = [target EXCEPT ![c] = NoInst]
  /\ UNCHANGED <<vars, deaths, active, asked, handled, check, sends>>

(* retry(instance.load) gives up and returns None; instance.state loads    *)
(* once more, and the ClientError ends the whole cull.                     *)
KillRaises(c) ==
  /\ cpc[c] = "load"
  /\ ec2[target[c]] = "gone" \/ "api" \in Faults
  /\ cpc' = [cpc EXCEPT ![c] = "off"]
  /\ check' = [check EXCEPT ![c] = {}]
  /\ target' = [target EXCEPT ![c] = NoInst]
  /\ UNCHANGED <<vars, deaths, active, asked, handled, sends>>

(* The stop arrives, or its retries are used up. *)
KillReaches(i) ==
  /\ i \in sends
  /\ StopInstance(i)
  /\ sends' = sends \ {i}
  /\ UNCHANGED <<db, taskVars, fabricVars, hubVars, deaths, active, cpc, asked, handled,
                 check, target>>

KillGivesUp(i) ==
  /\ i \in sends
  /\ ~StopAccepted(i) \/ "api" \in Faults
  /\ sends' = sends \ {i}
  /\ UNCHANGED <<vars, deaths, active, cpc, asked, handled, check, target>>

---------------------------------------------------------------------------
CullStep(c) ==
  \/ UsersListed(c)
  \/ \E u \in Users, t \in Tasks : DeleteHandled(c, u, t)
  \/ \E u \in Users : DeleteRefused(c, u)
  \/ \E u \in Users : DeletePending(c, u)
  \/ \E u \in Users : DeleteDone(c, u)
  \/ \E u \in Users : DeleteErrs(c, u)
  \/ AllAnswered(c)
  \/ CullEnds(c)
  \/ \E u \in Users : KillBegins(c, u)
  \/ KillSeesRunning(c)
  \/ KillSeesDown(c)
  \/ KillRaises(c)

CullNext ==
  \/ HubMoves
  \/ HubDies
  \/ \E u \in Users : UserActs(u)
  \/ \E u \in Users : UserIdles(u)
  \/ \E c \in Culls : CullStarts(c)
  \/ \E c \in Culls : CullStep(c)
  \/ \E i \in Instances : KillReaches(i)
  \/ \E i \in Instances : KillGivesUp(i)

CullSpec == CullInit /\ [][CullNext]_allVars

(* The hub's coroutines, the cloud and the culler keep going; nobody has   *)
(* to log in or to be active.  The culler's HTTP client gives a request up *)
(* after a while, so none is waited for without end; that the hub ever     *)
(* takes one up is not assumed.                                            *)
CullFairness ==
  /\ \A t \in Tasks : WF_allVars(TaskStep(t) /\ HubMoves)
  /\ \A i \in Instances : WF_allVars((Boots(i) \/ Halts(i)) /\ HubMoves)
  /\ \A u \in Users : WF_allVars((\E t \in Tasks : HubPolls(u, t)) /\ HubMoves)
  /\ \A t \in Tasks : SF_allVars(PollSeesRunning(t, "pollhealth") /\ HubMoves)
  /\ \A c \in Culls : WF_allVars(CullStarts(c))
  /\ \A c \in Culls : WF_allVars(CullStep(c))
  /\ \A i \in Instances : WF_allVars(KillReaches(i) \/ KillGivesUp(i))

FairCullSpec == CullSpec /\ CullFairness

---------------------------------------------------------------------------
(* manually_kill_server reads a row before it waits for the machine to be  *)
(* loaded, and stops the machine later still: what it holds is the machine *)
(* of a row all the while, never one that start() has launched and not     *)
(* recorded yet.                                                           *)
CullsRecorded ==
  \A i \in Instances :
    i \in sends \/ (\E c \in Culls : target[c] = i)
      => \E u \in Users : db[u] = i

(* README.md: "The instance is stopped when the user is deemed inactive    *)
(* (to save on hosting costs)", for the users only the culler looks after: *)
(* the hub has no server for them (the notebook exited), their machine     *)
(* runs.  It does not run for ever, whoever else is in the table.          *)
InactiveStopped ==
  \A u \in Users, i \in Instances :
    []<>(ec2[i] = "running" /\ db[u] = i /\ hub[u] = "out" => active[u])

(* The same README.md line with the exception the code makes of it: while  *)
(* EC2 knows every machine of the table, the machine of a user who stays   *)
(* idle goes down with or without a server of the hub's, healthy or hung,  *)
(* and also when the hub dies with the stop under way.                     *)
RowUnknown == \E u \in Users : db[u] # NoInst /\ ec2[db[u]] = "gone"

IdleStops ==
  []~RowUnknown =>
    \A u \in Users, i \in Instances :
      []<>(ec2[i] = "running" /\ db[u] = i => active[u])

(* A cull comes to an end, so the next one is never the last: a slot is    *)
(* free again and again.                                                   *)
CullsComplete == \A c \in Culls : []<>(cpc[c] = "off")

(* What the next cull and a death of the hub rest on: whoever makes the    *)
(* step, a cull that changes ends, enters its next part, or has fewer      *)
(* requests to wait for or fewer users to look at; no user is put back     *)
(* into a list the cull is working off.                                    *)
InBody == {"check", "load"}

CullsGetOn ==
  [][\A c \in Culls :
       /\ cpc[c] # "off"
       /\ <<cpc[c], asked[c], handled[c], check[c]>>'
            # <<cpc[c], asked[c], handled[c], check[c]>>
       => \/ cpc'[c] = "off"
          \/ cpc[c] = "fetch" /\ cpc'[c] = "wait"
          \/ cpc[c] = "wait" /\ cpc'[c] \in InBody
          \/ /\ cpc[c] = "wait" /\ cpc'[c] = "wait"
             /\ asked'[c] \subseteq asked[c]
             /\ asked'[c] # asked[c] \/ (handled'[c] \subseteq handled[c] /\ handled'[c] # handled[c])
          \/ /\ cpc[c] \in InBody /\ cpc'[c] \in InBody
             /\ check'[c] \subseteq check[c]
             /\ check'[c] # check[c] \/ (cpc[c] = "load" /\ cpc'[c] = "check")]_allVars

(* README.md: "The instance is stopped when the user is deemed inactive    *)
(* (to save on hosting costs)": the culler's stop takes the machine of no  *)
(* active user down, also when the user logs in while it is on its way.    *)
SparesActive ==
  [][\A i \in sends :
       ec2[i] = "running" /\ ec2'[i] = "stopping" /\ i \notin sends'
         => ~active[owner[i]]]_allVars

=============================================================================
