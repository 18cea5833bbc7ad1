------------------------------ MODULE Tenancy ------------------------------
(***************************************************************************)
(* What the table of servers promises, whatever coroutines, retries and    *)
(* restarts do in between: a machine is launched for one user and stays    *)
(* that user's, and a row, once written, names a machine launched for the  *)
(* user of the row and is never rewritten (models.py: server_id and        *)
(* user_id are unique; README.md: "Users each get an EC2 instance that is  *)
(* created when the user first logs in").                                  *)
(***************************************************************************)
CONSTANTS Users, Instances, NoUser, NoInst

VARIABLES
  owner,   (* owner[i]: the user i was launched for, or NoUser             *)
  tenant   (* tenant[u]: the machine recorded for u, or NoInst             *)

Init ==
  /\ owner = [i \in Instances |-> NoUser]
  /\ tenant = [u \in Users |-> NoInst]

Launch(i, u) ==
  /\ owner[i] = NoUser
  /\ owner' = [owner EXCEPT ![i] = u]
  /\ UNCHANGED tenant

Bind(i, u) ==
  /\ owner[i] = u
  /\ tenant[u] = NoInst
  /\ tenant' = [tenant EXCEPT ![u] = i]
  /\ UNCHANGED owner

Next == \E i \in Instances, u \in Users : Launch(i, u) \/ Bind(i, u)

Spec == Init /\ [][Next]_<<owner, tenant>>

(* terminate_all_workers.py may take the row of one user out. *)
Release(u) ==
  /\ tenant[u] # NoInst
  /\ tenant' = [tenant EXCEPT ![u] = NoInst]
  /\ UNCHANGED owner

AdminNext == Next \/ \E u \in Users : Release(u)

AdminSpec == Init /\ [][AdminNext]_<<owner, tenant>>

=============================================================================
