-------------------------------- MODULE Retry --------------------------------
(***************************************************************************)
(* retry() of spawner.py: a coroutine hands a blocking call to a pool of   *)
(* threads, attempt after attempt, and sleeps in between.  The pool is     *)
(* shared by every user's coroutines: an attempt waits until a thread is   *)
(* free, first come, first served, while a coroutine that sleeps holds no  *)
(* thread.                                                                 *)
(***************************************************************************)
EXTENDS Naturals, Sequences, FiniteSets

CONSTANTS
  Calls,      (* the coroutines: each makes one call at a time             *)
  PoolSize    (* threads of the pool: 100 in spawner.py                    *)

ASSUME RetryAssumption == PoolSize \in Nat \ {0}

VARIABLES
  state,   (* state[c]: how far the call of c is                           *)
  left,    (* left[c]: the attempts it has left                            *)
  queue    (* the attempts that wait for a thread                          *)

retryVars == <<state, left, queue>>

UnderWay == {"queued", "running", "asleep"}

RetryInit ==
  /\ state = [c \in Calls |-> "idle"]
  /\ left = [c \in Calls |-> 0]
  /\ queue = <<>>

(* thread_pool.submit *)
Queue(c) ==
  /\ state' = [state EXCEPT ![c] = "queued"]
  /\ queue' = Append(queue, c)

(* c calls retry() with max_retries = n. *)
Submit(c, n) ==
  /\ state[c] \notin UnderWay
  /\ Queue(c)
  /\ left' = [left EXCEPT ![c] = n]

(* A thread takes the attempt that has waited longest. *)
Taken(c) ==
  /\ queue # <<>> /\ c = Head(queue)
  /\ Cardinality({d \in Calls : state[d] = "running"}) < PoolSize
  /\ state' = [state EXCEPT ![c] = "running"]
  /\ queue' = Tail(queue)
  /\ UNCHANGED left

Returns(c) ==
  /\ state[c] = "running"
  /\ state' = [state EXCEPT ![c] = "answered"]
  /\ UNCHANGED <<left, queue>>

(* A mutant: the attempt is not counted. *)
FailsUncounted(c) ==
  /\ state[c] = "running"
  /\ state' = [state EXCEPT ![c] = "asleep"]
  /\ UNCHANGED <<left, queue>>

(* One of the exceptions retry() knows: it sleeps, after the last attempt  *)
(* too.                                                                    *)
Fails(c) ==
  /\ state[c] = "running"
  /\ state' = [state EXCEPT ![c] = "asleep"]
  /\ left' = [left EXCEPT ![c] = @ - 1]
  /\ UNCHANGED queue

(* A mutant: the last failure is not told from the others. *)
ResubmitsOnceMore(c) ==
  /\ state[c] = "asleep"
  /\ left[c] >= 0
  /\ Queue(c)
  /\ UNCHANGED left

Resubmits(c) ==
  /\ state[c] = "asleep"
  /\ left[c] > 0
  /\ Queue(c)
  /\ UNCHANGED left

(* "RETRY_FAILED" *)
GivesUp(c) ==
  /\ state[c] = "asleep"
  /\ left[c] = 0
  /\ state' = [state EXCEPT ![c] = "failed"]
  /\ UNCHANGED <<left, queue>>

---------------------------------------------------------------------------
(* Whatever the pool does, a call of n attempts is answered within 3n + 2  *)
(* steps of its own: each attempt waits, runs and is slept over once, and  *)
(* nothing brings an attempt back that has been made.                      *)
StepsLeft(c) ==
  CASE state[c] = "asleep"  -> 3 * left[c] + 3
    [] state[c] = "queued"  -> 3 * left[c] + 2
    [] state[c] = "running" -> 3 * left[c] + 1

AttemptsRunOut ==
  [][\A c \in Calls :
       state[c] \in UnderWay /\ (state'[c] # state[c] \/ left'[c] # left[c]) =>
         \/ state'[c] \in {"answered", "failed"}
         \/ state'[c] \in UnderWay /\ StepsLeft(c)' \in 1..(StepsLeft(c) - 1)]_retryVars

A == INSTANCE OneAnswer
     WITH outcome <- [c \in Calls |-> IF state[c] \in UnderWay THEN "asked" ELSE state[c]]

=============================================================================
