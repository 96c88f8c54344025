----------------------------- MODULE SyncServer -----------------------------
(***************************************************************************)
(* The sync endpoints of one workspace: `push` and `pull` of               *)
(* crates/api/src/handlers/sync.rs over `write_batch` of db.rs, the file   *)
(* writer `sheet_complete` of handlers/files.rs, and the purge job of      *)
(* cli.rs, on one SQLite file in WAL mode.                                 *)
(*                                                                         *)
(* A push is one BEGIN IMMEDIATE transaction: `txn` is the working copy    *)
(* of the connection that holds the write lock, `db` is what is committed  *)
(* and what every reader sees.  A pull is not a transaction: it reads one  *)
(* table after another, then the counter, each from the last commit.       *)
(*                                                                         *)
(* The actions are composed with a world that sends requests: AnyClient    *)
(* (any request at all) and Sync (the devices' sync engine).               *)
(***************************************************************************)
EXTENDS Merge, FiniteSets

CONSTANTS
  Tables,      \* the synced tables, 1 .. n in the order a pull walks them
  TableOf,     \* the table of a row
  PageLimit,   \* rows of one table in one page of a pull
  MaxClock,    \* bound: the clock stops here (0 leaves time out of a model)
  None         \* no transaction, no pull

ASSUME TablesAssumption ==
  /\ Tables \in Nat \ {0}
  /\ TableOf \in [Records -> 1 .. Tables]
ASSUME PageAssumption  == PageLimit \in Nat \ {0}
ASSUME ClockAssumption == MaxClock \in Nat

VARIABLES
  db,      \* the committed workspace file
  txn,     \* the open write transaction, or None
  pull,    \* per device, the pull the server is answering, or None
  clock    \* the wall clock, one tick for each dated event

serverVars == <<db, txn, pull, clock>>

-----------------------------------------------------------------------------

(***************************************************************************)
(* The workspace file.  `times` and `expired` are history: how often an    *)
(* operation took effect, and which operations the purge has forgotten.    *)
(***************************************************************************)
Conflict == [rec : Records, field : Fields, lost : Values, op : Op]

DB == [rows      : [Records -> Row],
       counter   : Nat,                 \* sync_counter.seq
       applied   : SUBSET OpIds,        \* applied_ops
       conflicts : SUBSET Conflict,     \* sync_conflicts
       times     : [OpIds -> Nat],
       expired   : SUBSET OpIds]

Request == [dev : Devices, ops : SUBSET Op]

Status == {"none", "applied", "duplicate", "rejected"}

Results == [OpIds -> Status]    \* "none": the answer does not name the operation

Txn == [req     : Request,
        todo    : SUBSET Op,    \* not applied yet
        seq     : Nat,          \* the sequence number of the next operation
        now     : Nat,          \* one timestamp for the whole batch
        work    : DB,           \* the uncommitted file
        results : Results]

Page == [Records -> Row]        \* NoRow: the page does not hold the row

NoPage == [r \in Records |-> NoRow]

InPage(page) == {r \in Records : page[r].state # "absent"}

Pull == [since : Nat,
         table : Nat,           \* the next table to read
         rows  : Page,
         more  : BOOLEAN,       \* has_more
         seq   : Nat \cup {None}]   \* the change_seq of the answer

Tick == IF clock < MaxClock THEN clock + 1 ELSE clock
-----------------------------------------------------------------------------

Fresh(rows, counter) ==
  [rows      |-> rows,
   counter   |-> counter,
   applied   |-> {},
   conflicts |-> {},
   times     |-> [i \in OpIds |-> 0],
   expired   |-> {}]

ServerInit(rows, counter) ==
  /\ db = Fresh(rows, counter)
  /\ txn = None
  /\ pull = [d \in Devices |-> None]
  /\ clock = 0

-----------------------------------------------------------------------------
(* Push.  *)

NoResults == [i \in OpIds |-> "none"]

\* the numbers a batch takes
Reserved(ops) == Cardinality(ops)

\* `write_batch`: the lock, then the counter moves by the size of the batch
Begin(req) ==
  /\ txn = None
  /\ clock' = Tick
  /\ txn' = [req     |-> req,
             todo    |-> req.ops,
             seq     |-> db.counter + 1,
             now     |-> clock',
             work    |-> [db EXCEPT !.counter = @ + Reserved(req.ops)],
             results |-> NoResults]
  /\ UNCHANGED <<db, pull>>

\* the operations are in the order of the client's outbox
First(ops) == CHOOSE op \in ops : \A other \in ops : op.id <= other.id

Current == First(txn.todo)
Stored  == txn.work.rows[Current.rec]

\* whatever becomes of an operation it has used its sequence number
Done(status, work) ==
  /\ txn' = [txn EXCEPT
               !.todo    = @ \ {Current},
               !.seq     = @ + 1,
               !.work    = work,
               !.results[Current.id] = status]
  /\ UNCHANGED <<db, pull, clock>>

Applying == txn # None /\ txn.todo # {}

\* what `apply_one` has written before the write itself: the conflict records
\* and the demotion of the song's other defaults
Prepared ==
  [txn.work EXCEPT
     !.conflicts = @ \cup {[rec |-> Current.rec, field |-> f,
                            lost |-> Stored.val[f], op |-> Current] :
                              f \in Conflicts(Current, Stored)},
     !.rows = IF Demotes(Current, Stored)
              THEN Demoted(@, Current, txn.req.dev, txn.seq, txn.now)
              ELSE @]

\* mutant: the operation is not remembered
EffectForgotten ==
  [Prepared EXCEPT
     !.rows[Current.rec] = Written(Current, Stored, txn.req.dev, txn.seq, txn.now),
     !.times[Current.id] = @ + 1]

Effect ==
  [Prepared EXCEPT
     !.rows[Current.rec] = Written(Current, Stored, txn.req.dev, txn.seq, txn.now),
     !.applied           = @ \cup {Current.id},
     !.times[Current.id] = @ + 1]

\* mutant: nobody looks whether the operation was applied before
ApplyAgain ==
  /\ Applying
  /\ Done("applied", Effect)

ApplyOne ==
  /\ Applying
  /\ Current.id \notin txn.work.applied
  /\ Done("applied", Effect)

AnswerDuplicate ==
  /\ Applying
  /\ Current.id \in txn.work.applied
  /\ Done("duplicate", txn.work)

\* refused before anything is read: an id that is not a UUID, an unknown table,
\* `assert_may_write`
RefuseOne ==
  /\ Applying
  /\ Done("rejected", txn.work)

\* the INSERT or UPDATE violates a constraint of the schema: there is no
\* savepoint, so what was prepared stays in the transaction
FailOne ==
  /\ Applying
  /\ Current.id \notin txn.work.applied
  /\ Writes(Current, Stored)
  /\ Done("rejected", Prepared)

Commit ==
  /\ txn # None /\ txn.todo = {}
  /\ db' = txn.work
  /\ txn' = None
  /\ UNCHANGED <<pull, clock>>

\* the process dies or SQLite refuses: WAL forgets the transaction
Rollback ==
  /\ txn # None
  /\ txn' = None
  /\ UNCHANGED <<db, pull, clock>>

-----------------------------------------------------------------------------
(* The other writers of the file.  *)

\* the server's own columns of a sheet; a tombstone is written too
Uploaded(row, d, seq, now) ==
  IF row.state = "absent" THEN row ELSE [row EXCEPT !.at = now, !.seq = seq, !.by = d]

\* `sheet_complete`, a batch of one: a sheet that is not there still costs a number
CompleteUpload(d, r) ==
  /\ txn = None
  /\ clock' = Tick
  /\ db' = [db EXCEPT
              !.counter = @ + 1,
              !.rows[r] = Uploaded(@, d, db.counter + 1, clock')]
  /\ UNCHANGED <<txn, pull>>

\* `purge`, each DELETE a statement of its own: applied_ops after 24 hours
PurgeOp(i) ==
  /\ txn = None
  /\ i \in db.applied
  /\ db' = [db EXCEPT !.applied = @ \ {i}, !.expired = @ \cup {i}]
  /\ UNCHANGED <<txn, pull, clock>>

\* ... conflict records and tombstones after 30 days
PurgeConflict(c) ==
  /\ txn = None
  /\ c \in db.conflicts
  /\ db' = [db EXCEPT !.conflicts = @ \ {c}]
  /\ UNCHANGED <<txn, pull, clock>>

PurgeRow(r) ==
  /\ txn = None
  /\ db.rows[r].state = "dead"
  /\ db' = [db EXCEPT !.rows[r] = NoRow]
  /\ UNCHANGED <<txn, pull, clock>>

-----------------------------------------------------------------------------
(* Pull.  *)

\* mutant: the counter is read first
NewPullCounted(since) ==
  [since |-> since, table |-> 1, rows |-> NoPage, more |-> FALSE, seq |-> db.counter]

NewPull(since) ==
  [since |-> since, table |-> 1, rows |-> NoPage, more |-> FALSE, seq |-> None]

StartPull(d, since) ==
  /\ pull[d] = None
  /\ pull' = [pull EXCEPT ![d] = NewPull(since)]
  /\ UNCHANGED <<db, txn, clock>>

Newer(t, since) ==
  {r \in Records : /\ TableOf[r] = t
                   /\ db.rows[r].state # "absent"
                   /\ db.rows[r].seq > since}

\* the pages ORDER BY change_seq LIMIT n can answer: rows of one change_seq tie
Pages(new) ==
  {page \in SUBSET new :
     /\ Cardinality(page) = IF Cardinality(new) > PageLimit THEN PageLimit
                            ELSE Cardinality(new)
     /\ \A r \in page, s \in new \ page : db.rows[r].seq <= db.rows[s].seq}

ReadTable(d) ==
  /\ pull[d] # None
  /\ pull[d].table <= Tables
  /\ LET p   == pull[d]
         new == Newer(p.table, p.since)
     IN \E page \in Pages(new) :
          pull' = [pull EXCEPT ![d] =
                     [p EXCEPT !.table = p.table + 1,
                               !.more  = p.more \/ Cardinality(new) > PageLimit,
                               !.rows  = [r \in Records |->
                                            IF r \in page THEN db.rows[r] ELSE p.rows[r]]]]
  /\ UNCHANGED <<db, txn, clock>>

\* `current_sequence`, after the tables
ReadCounter(d) ==
  /\ pull[d] # None
  /\ pull[d].table > Tables
  /\ pull[d].seq = None
  /\ pull' = [pull EXCEPT ![d] = [@ EXCEPT !.seq = db.counter]]
  /\ UNCHANGED <<db, txn, clock>>

EndPull(d) ==
  /\ pull[d] # None
  /\ pull' = [pull EXCEPT ![d] = None]
  /\ UNCHANGED <<db, txn, clock>>

-----------------------------------------------------------------------------
(* Properties of the server.  *)

\* The type invariant of the server's state.
ServerTypeOK ==
  /\ db \in DB
  /\ txn \in Txn \cup {None}
  /\ pull \in [Devices -> Pull \cup {None}]
  /\ clock \in Nat

\* Every file in sight: what is committed, and what is about to be.
Files == {db} \cup (IF txn = None THEN {} ELSE {txn.work})

\* An operation takes effect at most once however often its batch is sent, as
\* long as the purge has not forgotten it (sync.rs, the check of applied_ops).
AtMostOnce ==
  \A file \in Files : \A i \in OpIds \ file.expired : file.times[i] <= 1

\* No row is ahead of the counter, so a watermark can never pass a row that is
\* still to be written (db.rs, write_batch hands out numbers first .. counter).
SeqBounded ==
  \A file \in Files : \A r \in Records : file.rows[r].seq <= file.counter

SingleDefault(file) ==
  \A r, s \in Records :
    /\ r # s
    /\ SongOf[r] = SongOf[s]
    /\ file.rows[r].state = "live"
    /\ file.rows[s].state = "live"
    => ~ (file.rows[r].val[DefaultFlag] = 1 /\ file.rows[s].val[DefaultFlag] = 1)

\* A song has at most one live default arrangement, in the middle of a batch too:
\* the unique index of migration 0009 is "a statement of what is already true"
\* and never the reason an operation is refused.
OneDefault == \A file \in Files : SingleDefault(file)

\* A pull answers rows from after its `since` and none from after the change_seq
\* it answers: the counter is read last, so no row is handed out twice.
PullSound ==
  \A d \in Devices : pull[d] # None =>
    \A r \in InPage(pull[d].rows) :
      /\ pull[d].since < pull[d].rows[r].seq
      /\ pull[d].rows[r].seq <= IF pull[d].seq = None THEN db.counter ELSE pull[d].seq

\* A commit never takes the counter back, and every row it changes is numbered
\* past all that was committed before: a watermark taken before misses nothing.
CommitsMoveForward ==
  [][/\ db'.counter >= db.counter
     /\ \A r \in Records :
          \/ db'.rows[r] = db.rows[r]
          \/ db'.rows[r] = NoRow
          \/ db'.rows[r].seq > db.counter]_db

\* A tombstone stays one until it is purged, whatever stale edit arrives (sync
\* business rule 6; merge.rs, Skipped::Tombstoned).
TombstonesWin ==
  [][\A r \in Records : db.rows[r].state = "dead" =>
       db'.rows[r].state \in {"dead", "absent"}]_db

-----------------------------------------------------------------------------
(* The inductive invariant.                                                *)
(*                                                                         *)
(* AtMostOnce, SeqBounded and OneDefault are not inductive as they stand.  *)
(* A file must say exactly which operations took effect, a transaction     *)
(* must have as many numbers left as operations, and whatever it has       *)
(* written must be new to everybody who read the committed file.           *)

FileOK(file) ==
  /\ file \in DB
  /\ \A i \in OpIds \ file.expired :
       file.times[i] = IF i \in file.applied THEN 1 ELSE 0
  /\ \A r \in Records : file.rows[r].seq <= file.counter
  /\ SingleDefault(file)

\* a row of the working copy is as committed, or numbered past the commit
Ahead(work) ==
  \A r \in Records :
    /\ work.rows[r] = db.rows[r] \/ work.rows[r].seq > db.counter
    /\ db.rows[r].state = "dead" => work.rows[r].state = "dead"

TxnOK ==
  txn # None =>
    /\ FileOK(txn.work)
    /\ IsFiniteSet(txn.todo)
    /\ txn.seq + Cardinality(txn.todo) = txn.work.counter + 1
    /\ txn.seq > db.counter
    /\ Ahead(txn.work)

PullOK ==
  \A d \in Devices : pull[d] # None =>
    /\ pull[d].seq # None => pull[d].table > Tables
    /\ \A r \in InPage(pull[d].rows) :
         /\ pull[d].since < pull[d].rows[r].seq
         /\ pull[d].rows[r].seq <= IF pull[d].seq = None THEN db.counter ELSE pull[d].seq

\* The inductive invariant of the server: what is committed and what is about to be
\* are sound files, the transaction is ahead of every reader, and no pull answers a
\* row it may not (write_batch, apply_one and pull, in every order of their steps).
IInv ==
  /\ ServerTypeOK
  /\ FileOK(db)
  /\ TxnOK
  /\ PullOK
=============================================================================
