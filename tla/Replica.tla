------------------------------- MODULE Replica -------------------------------
(***************************************************************************)
(* The library as the pages see it: the rows of a device, the operations   *)
(* it has still to push, and the rows of the server.  Sync.tla models how  *)
(* the rows travel step by step; here a call of `record` is one step and   *)
(* so is a whole pass, which is all that pages written over them can tell. *)
(* Pages change a row that is live where they run: restoring is in Sync.   *)
(***************************************************************************)
EXTENDS Integers, FiniteSets, SequencesExt

CONSTANTS Devices

VARIABLES
  server,     \* the rows as the server has them
  local,      \* per device, the rows of its database
  pending     \* per device, the operations of its outbox in order

replica == <<server, local, pending>>

Absent == [state |-> "absent", val |-> [f \in {} |-> 0]]

Put(id, set) == [id |-> id, kind |-> "upsert", set |-> set]
Delete(id)   == [id |-> id, kind |-> "delete", set |-> [f \in {} |-> 0]]

\* a tombstone wins, a delete keeps the columns, an edit changes the ones it names
Written(row, op) ==
  CASE row.state = "dead"   -> row
    [] op.kind = "delete"   -> IF row.state = "absent" THEN row
                               ELSE [row EXCEPT !.state = "dead"]
    [] OTHER                -> [state |-> "live", val |-> op.set @@ row.val]

After(rows, ops) ==
  FoldLeft(LAMBDA acc, op : [acc EXCEPT ![op.id] = Written(@, op)], rows, ops)

Record(d, op) ==
  /\ local' = [local EXCEPT ![d] = After(@, <<op>>)]
  /\ pending' = [pending EXCEPT ![d] = Append(@, op)]
  /\ UNCHANGED server

\* a pass: the outbox is pushed, and what is new is pulled
Pass(d) ==
  /\ pending[d] # <<>> \/ local[d] # server
  /\ server' = After(server, pending[d])
  /\ local' = [local EXCEPT ![d] = server']
  /\ pending' = [pending EXCEPT ![d] = <<>>]

ReplicaInit(rows) ==
  /\ server = rows
  /\ local = [d \in Devices |-> rows]
  /\ pending = [d \in Devices |-> <<>>]

\* the first of some ids, as an index gives them
Least(S) == CHOOSE i \in S : \A j \in S : i <= j

Live(rows, id) == rows[id].state = "live"

\* do other devices have changes of these rows to push?
TouchedBy(others, ids) ==
  \E e \in others : \E i \in DOMAIN pending[e] : pending[e][i].id \in ids

InStep == \A d \in Devices : pending[d] = <<>> /\ local[d] = server
=============================================================================
