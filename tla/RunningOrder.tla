----------------------------- MODULE RunningOrder -----------------------------
(***************************************************************************)
(* Sets and their running orders: crates/web/src/sets/repository.rs over   *)
(* the ranks of Ranks.tla, and the handlers of sets/page.rs that call it.  *)
(* A handler spawns a task that reads the items and then records one row   *)
(* after another, so tasks of one device, tasks of several devices and     *)
(* passes of the sync engine interleave.                                   *)
(*                                                                         *)
(* Ids are numbers because a list is sorted by rank alone and the sort is  *)
(* stable: items of one rank come in the order of their ids.               *)
(***************************************************************************)
EXTENDS Replica, Ranks

CONSTANTS
  Sets,       \* the ids of sets, the first of them there from the start
  Items,      \* the ids of their items
  AtStart,    \* how many items the first set has
  MaxTasks    \* bound: what people do

VARIABLES
  tasks,      \* the tasks that were spawned, in order
  dragging,   \* per device: where the item that is dragged was, 0 for none
  places      \* history: which item somebody put between which others

vars == <<replica, tasks, dragging, places>>

Ids == Sets \cup Items
First == CHOOSE s \in Sets : \A t \in Sets : s <= t

\* `items`: the live ones of a set, by rank
Order(rows, s) ==
  SetToSortSeq({i \in Items : Live(rows, i) /\ rows[i].val.of = s},
               LAMBDA i, j : \/ Less(rows[i].val.rank, rows[j].val.rank)
                             \/ rows[i].val.rank = rows[j].val.rank /\ i < j)

RanksOf(rows, s) == [n \in DOMAIN Order(rows, s) |-> rows[Order(rows, s)[n]].val.rank]

LastRank(ranks) == At(ranks, Len(ranks))

\* ids are UUIDs: a new one sorts anywhere among the others
Fresh(kind) ==
  {i \in kind : /\ server[i].state = "absent"
                /\ \A d \in Devices : local[d][i].state = "absent"}

Init ==
  /\ ReplicaInit([i \in Ids |->
       IF i = First THEN [state |-> "live", val |-> [f \in {} |-> 0]]
       ELSE LET n == Cardinality({j \in Items : j <= i}) IN
            IF i \in Items /\ n <= AtStart
            THEN [state |-> "live", val |-> [of |-> First, rank |-> InitialRanks(AtStart)[n]]]
            ELSE Absent])
  /\ tasks = <<>>
  /\ dragging = [d \in Devices |-> 0]
  /\ places = {}

-----------------------------------------------------------------------------
(* What somebody put where.  A place is forgotten when any of the items    *)
(* gets another rank or goes, there or on a device that had yet to push.   *)

Places == [item : Items, after : Items \cup {0}, before : Items \cup {0}, dev : Devices]

Named(p) == {p.item, p.after, p.before}

Forgetting(ids) == {p \in places : Named(p) \cap ids = {}}

\* the item stands where it was meant to
Stands(rows, p) ==
  /\ p.after # 0  => Less(rows[p.after].val.rank, rows[p.item].val.rank)
  /\ p.before # 0 => Less(rows[p.item].val.rank, rows[p.before].val.rank)

\* a promise, if the neighbours are still what the task saw and nobody else
\* has touched them
Promised(d, p, seen) ==
  IF /\ \A i \in Named(p) \ {0, p.item} : local[d][i] = seen[i] /\ Live(server, i)
     /\ ~TouchedBy(Devices \ {d}, Named(p) \ {0})
  THEN {p} ELSE {}

-----------------------------------------------------------------------------
(* The tasks *)

Spawn(task) ==
  /\ Len(tasks) < MaxTasks
  /\ tasks' = Append(tasks, task)

Started == Len(tasks) < MaxTasks

\* `add_songs` and `add_item`: after the last, as it was read
PressAdd(d) ==
  /\ \E s \in Sets, n \in 1..2 :
       /\ Live(local[d], s)
       /\ LET order == Order(local[d], s) IN
          Spawn([kind |-> "add", dev |-> d, set |-> s, left |-> n,
                 last |-> LastRank(RanksOf(local[d], s)),
                 after |-> IF order = <<>> THEN 0 ELSE order[Len(order)],
                 seen |-> local[d]])
  /\ UNCHANGED <<replica, dragging, places>>

AddOne(k) ==
  LET task == tasks[k]
      rank == RankBetween(task.last, <<>>).rank IN
  /\ task.kind = "add" /\ task.left > 0
  /\ \E i \in Fresh(Items) :
       /\ Record(task.dev, Put(i, [of |-> task.set, rank |-> rank]))
       /\ places' = places \cup
            Promised(task.dev, [item |-> i, after |-> task.after, before |-> 0,
                                dev |-> task.dev], task.seen)
       /\ tasks' = [tasks EXCEPT ![k].left = @ - 1, ![k].after = i, ![k].last = rank,
                                 ![k].seen = local'[task.dev]]
  /\ UNCHANGED dragging

Drag(d) ==
  /\ Started
  /\ \E n \in DOMAIN Order(local[d], First) : dragging' = [dragging EXCEPT ![d] = n]
  /\ UNCHANGED <<replica, tasks, places>>

\* `drop_on`: the index is of the items as they were drawn when the drag began
DropOn(d) ==
  /\ dragging[d] # 0 /\ Started
  /\ dragging' = [dragging EXCEPT ![d] = 0]
  /\ LET order == Order(local[d], First)
         from == dragging[d]
         others == Remove(order, order[from]) IN
     \E to \in DOMAIN order :
       IF from \notin DOMAIN order \/ from = to THEN UNCHANGED tasks
       ELSE LET found == RankForMove(RanksOf(local[d], First), from, to) IN
            Spawn([kind |-> IF found.result = "ok" THEN "move" ELSE "ignored",
                   dev |-> d, item |-> order[from], rank |-> found.rank, left |-> 1,
                   after |-> IF to - 1 \in DOMAIN others THEN others[to - 1] ELSE 0,
                   before |-> IF to \in DOMAIN others THEN others[to] ELSE 0,
                   seen |-> local[d]])
  /\ UNCHANGED <<replica, places>>

MoveOne(k) ==
  LET task == tasks[k]
      p == [item |-> task.item, after |-> task.after, before |-> task.before,
            dev |-> task.dev] IN
  /\ task.kind = "move" /\ task.left > 0
  /\ Record(task.dev, Put(task.item, [rank |-> task.rank]))
  /\ Live(local[task.dev], task.item)
  /\ places' = Forgetting({task.item})
                 \cup (IF Live(server, task.item) THEN Promised(task.dev, p, task.seen) ELSE {})
  /\ tasks' = [tasks EXCEPT ![k].left = 0]
  /\ UNCHANGED dragging

RemoveItem(d) ==
  /\ \E s \in Sets : \E n \in DOMAIN Order(local[d], s) :
       LET i == Order(local[d], s)[n] IN
       /\ Record(d, Delete(i))
       /\ places' = Forgetting({i})
  /\ Spawn([kind |-> "remove", dev |-> d, left |-> 0])
  /\ UNCHANGED dragging

\* the sets page: the name box is emptied only when the set is there
CreateSet(d) ==
  /\ \E s \in Fresh(Sets) : Record(d, Put(s, [f \in {} |-> 0]))
  /\ Spawn([kind |-> "create", dev |-> d, left |-> 0])
  /\ UNCHANGED <<dragging, places>>

RemoveSet(d) ==
  /\ \E s \in Sets : Live(local[d], s) /\ Record(d, Delete(s))
  /\ Spawn([kind |-> "removeSet", dev |-> d, left |-> 0])
  /\ UNCHANGED <<dragging, places>>

\* `duplicate`: a set without the date, and then the items one by one
Duplicate(d) ==
  /\ \E s \in Sets, copy \in Fresh(Sets) :
       /\ Live(local[d], s)
       /\ Record(d, Put(copy, [f \in {} |-> 0]))
       /\ Spawn([kind |-> "copy", dev |-> d, set |-> copy, from |-> s, left |-> 0,
                 read |-> FALSE, ranks |-> <<>>])
  /\ UNCHANGED <<dragging, places>>

CopyReads(k) ==
  LET task == tasks[k] IN
  /\ task.kind = "copy" /\ ~task.read
  /\ LET ranks == RanksOf(local[task.dev], task.from) IN
     tasks' = [tasks EXCEPT ![k].read = TRUE, ![k].ranks = ranks, ![k].left = Len(ranks)]
  /\ UNCHANGED <<replica, dragging, places>>

CopyOne(k) ==
  LET task == tasks[k] IN
  /\ task.kind = "copy" /\ task.left > 0
  /\ \E i \in Fresh(Items) :
       Record(task.dev,
              Put(i, [of |-> task.set, rank |-> task.ranks[Len(task.ranks) - task.left + 1]]))
  /\ tasks' = [tasks EXCEPT ![k].left = @ - 1]
  /\ UNCHANGED <<dragging, places>>

Sync(d) == Pass(d) /\ UNCHANGED <<tasks, dragging, places>>

Next ==
  \/ \E d \in Devices :
       PressAdd(d) \/ Drag(d) \/ DropOn(d) \/ RemoveItem(d)
         \/ CreateSet(d) \/ RemoveSet(d) \/ Duplicate(d) \/ Sync(d)
  \/ \E k \in DOMAIN tasks : AddOne(k) \/ MoveOne(k) \/ CopyReads(k) \/ CopyOne(k)

Spec == Init /\ [][Next]_vars

-----------------------------------------------------------------------------

RunningOrderTypeOK ==
  /\ \A i \in Items : \A rows \in {server} \cup {local[d] : d \in Devices} :
       Live(rows, i) => rows[i].val.of \in Sets /\ IsRank(rows[i].val.rank)
  /\ places \subseteq Places
  /\ dragging \in [Devices -> 0..Cardinality(Items)]

(***************************************************************************)
(* There is always room (rank.rs:8): whatever was moved and added before,  *)
(* `rank_between` finds a rank between two items that follow each other    *)
(* in an order, in front of the first and behind the last, unless the two  *)
(* have one rank; and the rank it finds lies between them.                 *)
(***************************************************************************)
RoomEverywhere ==
  \A rows \in {server} \cup {local[d] : d \in Devices}, s \in Sets :
    LET ranks == RanksOf(rows, s) IN
    \A n \in 0..Len(ranks) :
      LET low == At(ranks, n)
          high == At(ranks, n + 1)
          found == RankBetween(low, high) IN
      low # high \/ low = <<>> =>
        /\ found.result = "ok" /\ IsRank(found.rank)
        /\ low # <<>> => Less(low, found.rank)
        /\ high # <<>> => Less(found.rank, high)

(***************************************************************************)
(* Two people reordering the same set offline both keep their move         *)
(* (repository.rs:212): an item that somebody put between two others, or   *)
(* behind the last, stands there on that device at once and on the server  *)
(* once it is pushed, as long as nobody moves one of the three.            *)
(***************************************************************************)
EverybodyKeepsTheirMove ==
  \A p \in places :
    /\ Stands(local[p.dev], p)
    /\ InStep => Stands(server, p)
=============================================================================
