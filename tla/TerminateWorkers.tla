-------------------------- MODULE TerminateWorkers --------------------------
(***************************************************************************)
(* terminate_all_workers.py at work next to the hub: a process of its own  *)
(* that shares the table of servers and the machines with the spawner, and *)
(* nothing else.  An administrator calls delete_user_ec2(userid) or        *)
(* delete_all_users_ec2s(), one call at a time.                            *)
(***************************************************************************)
EXTENDS Spawner

VARIABLES
  stage,   (* what the script has done so far                              *)
  todo,    (* the machines whose ids it holds                              *)
  failed   (* those delete_user_ec2 took out of the table and did not      *)
           (* terminate: it returned 1, or died in between                 *)

scriptVars == <<stage, todo, failed>>
allVars == <<vars, scriptVars>>

(* "found": the row of the user is read; "removed": it is out of the       *)
(* table; "listed": delete_all_users_ec2s has read all rows.               *)
Stages == {"idle", "found", "removed", "listed"}

ScriptTypeOK ==
  /\ stage \in Stages
  /\ todo \subseteq Instances
  /\ failed \subseteq Instances

ScriptInit ==
  /\ Init
  /\ stage = "idle"
  /\ todo = {}
  /\ failed = {}

Rows == {db[u] : u \in Users} \ {NoInst}

Done ==
  /\ stage' = "idle"
  /\ todo' = {}

---------------------------------------------------------------------------
(* delete_user_ec2; for a user without a row it changes nothing. *)

(* A mutant: the machine is looked up under the name of the user. *)
DeleteFindsName(u) ==
  /\ stage = "idle"
  /\ db[u] # NoInst
  /\ stage' = "found"
  /\ todo' = {u}
  /\ UNCHANGED <<vars, failed>>

DeleteFinds(u) ==
  /\ stage = "idle"
  /\ db[u] # NoInst
  /\ stage' = "found"
  /\ todo' = {db[u]}
  /\ UNCHANGED <<vars, failed>>

(* Two mutants: the row stays; every row goes. *)
DeleteKeepsRow ==
  /\ stage = "found"
  /\ stage' = "removed"
  /\ UNCHANGED <<vars, todo, failed>>

DeleteRemovesAll ==
  /\ stage = "found"
  /\ db' = [u \in Users |-> NoInst]
  /\ stage' = "removed"
  /\ UNCHANGED <<cloudVars, taskVars, fabricVars, hubVars, todo, failed>>

(* remove_server(server_id) *)
DeleteRemoves ==
  /\ stage = "found"
  /\ db' = [u \in Users |-> IF db[u] \in todo THEN NoInst ELSE db[u]]
  /\ stage' = "removed"
  /\ UNCHANGED <<cloudVars, taskVars, fabricVars, hubVars, todo, failed>>

(* A mutant: the script is done once the row is gone. *)
DeleteForgets ==
  /\ stage = "removed"
  /\ Done
  /\ UNCHANGED <<vars, failed>>

(* terminate() of machines EC2 knows; those on their way out are left as   *)
(* they are.                                                               *)
Terminated(S) ==
  /\ \A i \in S : ec2[i] # "gone"
  /\ ec2' = [i \in Instances |->
               IF i \in S /\ Live(i) THEN "shutting-down" ELSE ec2[i]]
  /\ nb' = [i \in Instances |-> nb[i] /\ i \notin S]
  /\ hung' = [i \in Instances |-> hung[i] /\ i \notin S]
  /\ UNCHANGED <<owner, db, taskVars, fabricVars, hubVars>>

DeleteTerminates ==
  /\ stage = "removed"
  /\ Terminated(todo)
  /\ Done
  /\ UNCHANGED failed

(* terminate() raises; the bare except prints "no such user or server" and *)
(* 1 is returned.                                                          *)
DeleteFails ==
  /\ stage = "removed"
  /\ "api" \in Faults \/ \E i \in todo : ec2[i] = "gone"
  /\ failed' = failed \union todo
  /\ Done
  /\ UNCHANGED vars

---------------------------------------------------------------------------
(* delete_all_users_ec2s; without a row it calls nothing. *)

AllListed ==
  /\ stage = "idle"
  /\ Rows # {}
  /\ stage' = "listed"
  /\ todo' = Rows
  /\ UNCHANGED <<vars, failed>>

AllTerminated ==
  /\ stage = "listed"
  /\ Terminated(todo)
  /\ Done
  /\ UNCHANGED failed

(* One id EC2 does not know makes the whole call fail. *)
AllRaises ==
  /\ stage = "listed"
  /\ "api" \in Faults \/ \E i \in todo : ec2[i] = "gone"
  /\ Done
  /\ UNCHANGED <<vars, failed>>

---------------------------------------------------------------------------
(* The administrator interrupts the script, or its process is killed. *)
ScriptDies ==
  /\ stage # "idle"
  /\ failed' = IF stage = "removed" THEN failed \union todo ELSE failed
  /\ Done
  /\ UNCHANGED vars

ScriptStep ==
  \/ \E u \in Users : DeleteFinds(u)
  \/ DeleteRemoves
  \/ DeleteTerminates
  \/ DeleteFails
  \/ AllListed
  \/ AllTerminated
  \/ AllRaises
  \/ ScriptDies

ScriptNext ==
  \/ Next /\ UNCHANGED scriptVars
  \/ ScriptStep

ScriptSpec == ScriptInit /\ [][ScriptNext]_allVars

---------------------------------------------------------------------------
(* delete_user_ec2 terminates a machine only after it has left the table,  *)
(* whatever the hub's coroutines write in the meantime: no login can find  *)
(* the machine that is about to go.  (delete_all_users_ec2s is not like    *)
(* that: it leaves the rows of what it terminates where they are.)         *)
TerminatesUnlisted == stage = "removed" => todo \intersect Rows = {}

(* The table and the script together account for every machine, although   *)
(* the row goes first and terminate() may fail or never be called: one     *)
(* that is in no row any more is one delete_user_ec2 has returned 1 for or *)
(* was killed over, between its two calls.                                 *)
NoneLeftBehind ==
  \A i \in Instances :
    Live(i) => \/ i \in Rows
               \/ stage = "removed" /\ i \in todo
               \/ i \in failed
               \/ \E t \in Tasks : pc[t] = "record" /\ inst[t] = i

(* Rows are written once and taken out one at a time, by the script only.  *)
ScriptTenancy == T!AdminSpec

=============================================================================
