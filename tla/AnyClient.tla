----------------------------- MODULE AnyClient ------------------------------
(***************************************************************************)
(* The sync server against any client at all: a request may carry any set  *)
(* of the operations Ops, again and again, in any order and from any       *)
(* device.  What holds here holds whatever the devices do, with lost,      *)
(* repeated and late requests, and with a process that dies between any    *)
(* two steps.                                                              *)
(***************************************************************************)
EXTENDS SyncServer

CONSTANTS
  Ops,        \* the operations that clients send
  Pullers,    \* the devices that pull
  MaxBatch,   \* bound: operations in a request (the code's is MAX_OPS)
  MaxSeq      \* bound: sequence numbers handed out

ASSUME OpsAssumption   == Ops \subseteq Op
ASSUME PullersAssumption == Pullers \subseteq Devices
ASSUME BoundAssumption == MaxBatch \in Nat /\ MaxSeq \in Nat

Batches == {ops \in SUBSET Ops : /\ ops # {}
                                 /\ IsFiniteSet(ops)
                                 /\ Cardinality(ops) <= MaxBatch}

Push ==
  \/ \E d \in Devices, ops \in Batches :
       /\ db.counter + Cardinality(ops) <= MaxSeq
       /\ Begin([dev |-> d, ops |-> ops])
  \/ ApplyOne
  \/ AnswerDuplicate
  \/ RefuseOne
  \/ FailOne
  \/ Commit
  \/ Rollback

Answer ==
  \E d \in Pullers :
    \/ \E since \in 0 .. db.counter : StartPull(d, since)
    \/ ReadTable(d)
    \/ ReadCounter(d)
    \/ EndPull(d)

Maintain ==
  \/ \E d \in Devices, r \in Records :
       db.counter < MaxSeq /\ CompleteUpload(d, r)
  \/ \E i \in OpIds : PurgeOp(i)
  \/ \E c \in db.conflicts : PurgeConflict(c)
  \/ \E r \in Records : PurgeRow(r)

Next == Push \/ Answer \/ Maintain

Init == ServerInit([r \in Records |-> NoRow], 0)

Spec == Init /\ [][Next]_serverVars
=============================================================================
