------------------------------ MODULE OneAnswer ------------------------------
(***************************************************************************)
(* What a caller of retry() relies on: each call it makes is answered      *)
(* once, by what the function returned or by "RETRY_FAILED", and it is     *)
(* answered however many other calls are waiting.                          *)
(***************************************************************************)
CONSTANT Calls

VARIABLE outcome   (* outcome[c]: "idle", "asked", "answered" or "failed"  *)

Init == outcome = [c \in Calls |-> "idle"]

Ask(c) ==
  /\ outcome[c] # "asked"
  /\ outcome' = [outcome EXCEPT ![c] = "asked"]

Answer(c) ==
  /\ outcome[c] = "asked"
  /\ \E o \in {"answered", "failed"} : outcome' = [outcome EXCEPT ![c] = o]

Next == \E c \in Calls : Ask(c) \/ Answer(c)

Safe == Init /\ [][Next]_outcome

Spec == Safe /\ \A c \in Calls : outcome[c] = "asked" ~> outcome[c] # "asked"

=============================================================================
