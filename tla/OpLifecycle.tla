---------------------------- MODULE OpLifecycle -----------------------------
(***************************************************************************)
(* What the outbox promises a person about one change they made on a       *)
(* device (docs/SDD/feature/2026-09-06-offline-storage-and-sync.md, rules  *)
(* 2, 3 and 12): it is sent until the server has it, it takes effect on    *)
(* the server at most once, it may be parked for a decision, and it leaves *)
(* the outbox only after it took effect or because a person threw it away. *)
(* Devices, batches, requests, transactions and answers do not exist here. *)
(***************************************************************************)
EXTENDS Integers

CONSTANT OpIds

VARIABLES
  fate,     \* where each change stands
  effects   \* how often it took effect on the server

lifeVars == <<fate, effects>>

Fate == {"unborn", "waiting", "parked", "done", "discarded"}

Init ==
  /\ fate = [i \in OpIds |-> "unborn"]
  /\ effects = [i \in OpIds |-> 0]

Move(i, from, to) ==
  /\ fate[i] = from
  /\ fate' = [fate EXCEPT ![i] = to]
  /\ UNCHANGED effects

Queue(i)   == Move(i, "unborn", "waiting")
Park(i)    == Move(i, "waiting", "parked")
Retry(i)   == Move(i, "parked", "waiting")
Discard(i) == Move(i, "parked", "discarded")

Acknowledge(i) == effects[i] = 1 /\ Move(i, "waiting", "done")

\* one commit of the server; a push that arrives late may follow a discard
TakeEffect ==
  /\ \E some \in SUBSET {i \in OpIds : fate[i] # "unborn" /\ effects[i] = 0} :
       effects' = [i \in OpIds |-> IF i \in some THEN 1 ELSE effects[i]]
  /\ UNCHANGED fate

Next ==
  \/ \E i \in OpIds :
       Queue(i) \/ Park(i) \/ Retry(i) \/ Discard(i) \/ Acknowledge(i)
  \/ TakeEffect

Spec == Init /\ [][Next]_lifeVars
=============================================================================
