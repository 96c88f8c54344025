-------------------------------- MODULE Sync --------------------------------
(***************************************************************************)
(* The devices' sync engine (crates/web/src/sync/engine.rs) over the sync  *)
(* server: an edit is written to IndexedDB and queued in the outbox, a     *)
(* pass drains a batch of the outbox and then pulls what is new.           *)
(*                                                                         *)
(* Every IndexedDB call and every request is awaited, so whatever two      *)
(* awaits stand between is a step of its own here: `record` is a read, a   *)
(* write of the row and a write of the outbox; a pass handles one result   *)
(* at a time and stores one table at a time.  The Web Lock makes it one    *)
(* pass per device, whichever of the device's windows runs it.             *)
(***************************************************************************)
EXTENDS SyncServer

CONSTANTS
  Writers,    \* the devices whose people edit
  Edits,      \* what people do: [rec, kind, set]
  BatchSize,  \* operations in a push (BATCH)
  Seed,       \* per row its change_seq at the start, 0 for a row that is not there
  Newcomers,  \* the devices that start with nothing; the others start in step
  MaxFaults   \* bound: faults of the network, the server and the devices

ASSUME WritersAssumption == Writers \subseteq Devices /\ Newcomers \subseteq Devices
ASSUME EditsAssumption ==
  Edits \subseteq [rec : Records, kind : {"upsert", "delete"}, set : Payload]
ASSUME BatchAssumption == BatchSize \in Nat \ {0}
ASSUME SeedAssumption  ==    \* numbered as `write_batch` numbers them, none past the counter
  /\ Seed \in [Records -> Nat]
  /\ LET there == {r \in Records : Seed[r] # 0} IN
       IsFiniteSet(there) /\ \A r \in there : Seed[r] <= Cardinality(there)
ASSUME FaultsAssumption == MaxFaults \in Nat

VARIABLES
  local,      \* per device, the synced rows of IndexedDB
  outbox,     \* per device, the entries of the outbox
  half,       \* per device, the call of `record` that is under way, or None
  pass,       \* per device, the pass that holds the sync lock
  watermark,  \* per device, sync_state.change_seq
  wire,       \* the pushes that have been sent and not been answered
  nextId,     \* the id of the next operation
  faults,     \* bounded: the faults so far
  discarded   \* history: operations people threw away

deviceVars == <<local, outbox, half, pass, watermark, wire, nextId, faults, discarded>>
vars == <<serverVars, deviceVars>>

-----------------------------------------------------------------------------

Entry == [op : Op, parked : BOOLEAN]

Recording == [stage : {"read", "put"}, op : Op, now : Nat]

Phase == {"idle", "sent", "handle", "refused", "pull"}

Pass == [phase   : Phase,
         batch   : SUBSET Op,   \* sent, and not handled yet
         results : Results,
         table   : Nat]         \* the next table of the page to store

Idle == [phase |-> "idle", batch |-> {}, results |-> NoResults, table |-> 1]

Sent == [dev : Devices, ops : SUBSET Op, live : BOOLEAN]  \* live: somebody waits

SeedRow(r) ==
  IF Seed[r] = 0 THEN NoRow
  ELSE [state |-> "live", val |-> Blank, at |-> 0, seq |-> Seed[r], by |-> NoOne]

SeedRows == [r \in Records |-> SeedRow(r)]
SeedSeq  == Cardinality({r \in Records : Seed[r] # 0})

Init ==
  /\ ServerInit(SeedRows, SeedSeq)
  /\ local = [d \in Devices |-> IF d \in Newcomers
                                THEN [r \in Records |-> NoRow] ELSE SeedRows]
  /\ watermark = [d \in Devices |-> IF d \in Newcomers THEN 0 ELSE SeedSeq]
  /\ outbox = [d \in Devices |-> {}]
  /\ half = [d \in Devices |-> None]
  /\ pass = [d \in Devices |-> Idle]
  /\ wire = {}
  /\ nextId = 1
  /\ faults = 0
  /\ discarded = {}

-----------------------------------------------------------------------------
(* People: `record`, and the sync panel.  *)

\* what the pages offer for a row as it stands: create it, edit or restore it
\* whole or in part, delete it
Offered(edit, row) ==
  IF edit.kind = "delete" THEN row.state = "live"
  ELSE row.state = "absent" => DOMAIN edit.set = Fields

\* `record` reads the row: its updated_at is the base of the operation
StartRecord(d) ==
  /\ half[d] = None
  /\ nextId \in OpIds
  /\ \E edit \in Edits :
       LET row == local[d][edit.rec] IN
       /\ Offered(edit, row)
       /\ half' = [half EXCEPT ![d] =
            [stage |-> "read",
             now   |-> Tick,
             op    |-> [id |-> nextId, rec |-> edit.rec, kind |-> edit.kind,
                        set |-> edit.set,
                        base |-> IF row.state = "absent" THEN NoBase ELSE row.at,
                        saw |-> row]]]
  /\ nextId' = nextId + 1
  /\ clock' = Tick
  /\ UNCHANGED <<db, txn, pull, local, outbox, pass, watermark, wire, faults, discarded>>

\* the row as the device shows it, dated by the device's own clock
Shown(op, now) ==
  IF op.kind = "delete"
  THEN [op.saw EXCEPT !.state = "dead", !.at = now]
  ELSE [op.saw EXCEPT !.state = "live", !.at = now, !.val = Merged(@, op.set)]

PutRow(d) ==
  /\ half[d] # None /\ half[d].stage = "read"
  /\ local' = [local EXCEPT ![d][half[d].op.rec] = Shown(half[d].op, half[d].now)]
  /\ half' = [half EXCEPT ![d].stage = "put"]
  /\ UNCHANGED <<serverVars, outbox, pass, watermark, wire, nextId, faults, discarded>>

PutOp(d) ==
  /\ half[d] # None /\ half[d].stage = "put"
  /\ outbox' = [outbox EXCEPT ![d] = @ \cup {[op |-> half[d].op, parked |-> FALSE]}]
  /\ half' = [half EXCEPT ![d] = None]
  /\ UNCHANGED <<serverVars, local, pass, watermark, wire, nextId, faults, discarded>>

Retry(d) ==
  /\ \E e \in outbox[d] :
       /\ e.parked
       /\ outbox' = [outbox EXCEPT ![d] = (@ \ {e}) \cup {[e EXCEPT !.parked = FALSE]}]
  /\ UNCHANGED <<serverVars, local, half, pass, watermark, wire, nextId, faults, discarded>>

Discard(d) ==
  /\ \E e \in outbox[d] :
       /\ e.parked
       /\ outbox' = [outbox EXCEPT ![d] = @ \ {e}]
       /\ discarded' = discarded \cup {e.op.id}
  /\ UNCHANGED <<serverVars, local, half, pass, watermark, wire, nextId, faults>>

-----------------------------------------------------------------------------
(* The engine: `sync` is `drain`, then `pull`.  *)

Pending(d) == {e.op : e \in {x \in outbox[d] : ~ x.parked}}

\* the first BATCH of them in outbox order
NextBatch(d) ==
  {op \in Pending(d) :
     Cardinality({other \in Pending(d) : other.id < op.id}) < BatchSize}

StartDrain(d) ==
  /\ pass[d].phase = "idle"
  /\ Pending(d) # {}
  /\ pass' = [pass EXCEPT ![d] = [Idle EXCEPT !.phase = "sent", !.batch = NextBatch(d)]]
  /\ wire' = wire \cup {[dev |-> d, ops |-> NextBatch(d), live |-> TRUE]}
  /\ UNCHANGED <<serverVars, local, outbox, half, watermark, nextId, faults, discarded>>

Without(d, op) == {e \in outbox[d] : e.op.id # op.id}

Parked(op) == [op |-> op, parked |-> TRUE]

\* mutant: a refused operation is dropped
DropRefused(d, op, result) ==
  IF result = "none" THEN outbox[d] ELSE Without(d, op)

\* `park` or `discard`, or the result is missing
AfterResult(d, op, result) ==
  CASE result = "none"     -> outbox[d]
    [] result = "rejected" -> Without(d, op) \cup {Parked(op)}
    [] OTHER               -> Without(d, op)

\* one turn of the loop over the batch
HandleResult(d) ==
  /\ pass[d].phase \in {"handle", "refused"}
  /\ pass[d].batch # {}
  /\ LET op == First(pass[d].batch) IN
       /\ outbox' = [outbox EXCEPT ![d] = AfterResult(d, op, pass[d].results[op.id])]
       /\ pass' = [pass EXCEPT ![d].batch = @ \ {op}]
  /\ UNCHANGED <<serverVars, local, half, watermark, wire, nextId, faults, discarded>>

\* `return Err(error)`: a push that was refused as a whole is not followed by a pull
EndRefused(d) ==
  /\ pass[d].phase = "refused"
  /\ pass[d].batch = {}
  /\ pass' = [pass EXCEPT ![d] = Idle]
  /\ UNCHANGED <<serverVars, local, outbox, half, watermark, wire, nextId, faults, discarded>>

\* `pull` follows, with an empty outbox at once
PullNext(d) ==
  /\ \/ pass[d].phase = "idle" /\ Pending(d) = {}
     \/ pass[d].phase = "handle" /\ pass[d].batch = {}
  /\ StartPull(d, watermark[d])
  /\ pass' = [pass EXCEPT ![d] = [Idle EXCEPT !.phase = "pull"]]
  /\ UNCHANGED <<local, outbox, half, watermark, wire, nextId, faults, discarded>>

Arrived(d) == pass[d].phase = "pull" /\ pull[d] # None /\ pull[d].seq # None

\* mutants: deletions are not stored; the table is replaced by the page
StoreLive(d) ==
  [r \in Records |-> IF TableOf[r] = pass[d].table /\ pull[d].rows[r].state = "live"
                     THEN pull[d].rows[r] ELSE local[d][r]]

ReplaceTable(d) ==
  [r \in Records |-> IF TableOf[r] = pass[d].table THEN pull[d].rows[r] ELSE local[d][r]]

\* `put_all`: whatever the device has of the rows of the page is replaced
PutAll(d) ==
  [r \in Records |-> IF TableOf[r] = pass[d].table /\ r \in InPage(pull[d].rows)
                     THEN pull[d].rows[r] ELSE local[d][r]]

\* one table of the page
StoreTable(d) ==
  /\ Arrived(d)
  /\ pass[d].table <= Tables
  /\ local' = [local EXCEPT ![d] = PutAll(d)]
  /\ pass' = [pass EXCEPT ![d].table = @ + 1]
  /\ UNCHANGED <<serverVars, outbox, half, watermark, wire, nextId, faults, discarded>>

\* mutant: the watermark is written before the rows
StoredAtOnce(d) == Arrived(d)

Mark(d) == pull[d].seq

StoredAll(d) == Arrived(d) /\ pass[d].table > Tables

\* the watermark, then the next page if the server has more
SetWatermark(d) ==
  /\ StoredAll(d)
  /\ watermark' = [watermark EXCEPT ![d] = Mark(d)]
  /\ IF pull[d].more
     THEN /\ pull' = [pull EXCEPT ![d] = NewPull(Mark(d))]
          /\ pass' = [pass EXCEPT ![d].table = 1]
     ELSE /\ pull' = [pull EXCEPT ![d] = None]
          /\ pass' = [pass EXCEPT ![d] = Idle]
  /\ UNCHANGED <<db, txn, clock, local, outbox, half, wire, nextId, faults, discarded>>

-----------------------------------------------------------------------------
(* The server's steps, with the network on both sides.  *)

TakePush ==
  /\ \E w \in wire : Begin([dev |-> w.dev, ops |-> w.ops])
  /\ UNCHANGED deviceVars

ServeOne ==
  /\ ApplyOne \/ AnswerDuplicate
  /\ UNCHANGED deviceVars

\* the sent push whose transaction this is
InTxn(w) == txn # None /\ w.dev = txn.req.dev /\ w.ops = txn.req.ops

AnswerPush ==
  /\ Commit
  /\ \E w \in wire :
       /\ InTxn(w)
       /\ wire' = wire \ {w}
       /\ pass' = IF w.live
                  THEN [pass EXCEPT ![w.dev].phase = "handle",
                                    ![w.dev].results = txn.results]
                  ELSE pass
  /\ UNCHANGED <<local, outbox, half, watermark, nextId, faults, discarded>>

AnswerPull(d) ==
  /\ ReadTable(d) \/ ReadCounter(d)
  /\ UNCHANGED deviceVars

-----------------------------------------------------------------------------
(* Faults, each counted against MaxFaults.  *)

Fault == faults < MaxFaults /\ faults' = faults + 1

\* the window closes, the request times out or fails with a 5xx, a 429 or a 401:
\* the pass ends where it is.  A push already sent may be lost or arrive late.
Abandon(d) ==
  /\ Fault
  /\ pass[d].phase # "idle"
  /\ pass' = [pass EXCEPT ![d] = Idle]
  /\ pull' = [pull EXCEPT ![d] = None]
  /\ \/ pass[d].phase # "sent" /\ wire' = wire
     \/ \E w \in wire :
          /\ w.dev = d /\ w.live
          /\ \/ wire' = (wire \ {w}) \cup {[w EXCEPT !.live = FALSE]}
             \/ ~ InTxn(w) /\ wire' = wire \ {w}
  /\ UNCHANGED <<db, txn, clock, local, outbox, half, watermark, nextId, discarded>>

\* the window closes between two awaits of `record`
LoseRecord(d) ==
  /\ Fault
  /\ half[d] # None
  /\ half' = [half EXCEPT ![d] = None]
  /\ UNCHANGED <<serverVars, local, outbox, pass, watermark, wire, nextId, discarded>>

\* a permanent error for the whole push: it parks the batch.  A 403 or 422 has
\* done nothing; an answer that cannot be read may follow a commit.
RefusePush(d) ==
  /\ Fault
  /\ pass[d].phase = "sent"
  /\ pass' = [pass EXCEPT ![d].phase = "refused",
                          ![d].results = [i \in OpIds |-> "rejected"]]
  /\ \E w \in wire :
       /\ w.dev = d /\ w.live
       /\ \/ wire' = (wire \ {w}) \cup {[w EXCEPT !.live = FALSE]}
          \/ ~ InTxn(w) /\ wire' = wire \ {w}
  /\ UNCHANGED <<serverVars, local, outbox, half, watermark, nextId, discarded>>

\* one operation of a batch is refused, or fails on a constraint
RejectOne ==
  /\ Fault
  /\ RefuseOne \/ FailOne
  /\ UNCHANGED <<local, outbox, half, pass, watermark, wire, nextId, discarded>>

\* the server dies in a transaction: whoever waits for it sees a failed request
LoseTxn ==
  /\ Fault
  /\ Rollback
  /\ \E w \in wire :
       /\ InTxn(w)
       /\ wire' = wire \ {w}
       /\ pass' = IF w.live THEN [pass EXCEPT ![w.dev] = Idle] ELSE pass
  /\ UNCHANGED <<local, outbox, half, watermark, nextId, discarded>>

-----------------------------------------------------------------------------

Panel(d)  == Retry(d) \/ Discard(d)
Record(d) == PutRow(d) \/ PutOp(d)

Engine(d) ==
  \/ StartDrain(d)
  \/ HandleResult(d)
  \/ EndRefused(d)
  \/ PullNext(d)
  \/ StoreTable(d)
  \/ SetWatermark(d)
  \/ AnswerPull(d)

Server == TakePush \/ ServeOne \/ AnswerPush

Faults ==
  \/ \E d \in Devices : Abandon(d) \/ LoseRecord(d) \/ RefusePush(d)
  \/ RejectOne
  \/ LoseTxn

Next ==
  \/ \E d \in Writers : StartRecord(d)
  \/ \E d \in Devices : Panel(d) \/ Record(d) \/ Engine(d)
  \/ Server
  \/ Faults

Spec == Init /\ [][Next]_vars

\* A call of `record` goes on once it is made, the thirty-second tick starts a pass
\* again and again, and the server answers what reaches it.
FairSpec ==
  /\ Spec
  /\ \A d \in Devices : WF_vars(Record(d)) /\ SF_vars(Engine(d))
  /\ WF_vars(Server)

-----------------------------------------------------------------------------
(* Properties.  *)

Queued(i) == {e \in UNION {outbox[d] : d \in Devices} : e.op.id = i}

\* The type invariant of the devices' state.  An outbox has one entry for an
\* operation at most: `park` replaces the entry, it does not add one.
SyncTypeOK ==
  /\ local \in [Devices -> [Records -> Row]]
  /\ outbox \in [Devices -> SUBSET Entry]
  /\ half \in [Devices -> Recording \cup {None}]
  /\ pass \in [Devices -> Pass]
  /\ watermark \in [Devices -> Nat]
  /\ wire \in SUBSET Sent
  /\ nextId \in Nat
  /\ faults \in Nat
  /\ discarded \in SUBSET OpIds
  /\ \A i \in OpIds : Cardinality(Queued(i)) <= 1

FateOf(i) ==
  CASE \E e \in Queued(i) : e.parked -> "parked"
    [] \E e \in Queued(i) : ~ e.parked -> "waiting"
    [] i \in discarded -> "discarded"
    [] OTHER -> IF db.times[i] > 0 THEN "done" ELSE "unborn"

Life == INSTANCE OpLifecycle WITH
          fate    <- [i \in OpIds |-> FateOf(i)],
          effects <- db.times

\* The engine and the server together keep what OpLifecycle promises of every
\* change, through lost requests, late ones, closed windows and dead processes.
OpsLiveAsPromised == Life!Spec

\* The outbox of a device is well formed, one entry to an operation, and an
\* operation leaves it as the answer to it says (engine.rs:230).
OutboxHolds == []SyncTypeOK /\ OpsLiveAsPromised

\* A pull never puts an older version of a row over a newer one, whichever pulls
\* were cut off before it (the watermark is written after the rows).
PullsNeverGoBack ==
  [][\A d \in Devices, r \in Records :
       half[d] = half'[d] => local'[d][r].seq >= local[d][r].seq]_local

\* The rows of a device that wait for nothing.
Settled(d) ==
  {r \in Records : /\ \A e \in outbox[d] : e.op.rec # r
                   /\ half[d] = None \/ half[d].op.rec # r}

\* Up to its watermark a device holds what the server holds, but for the rows it
\* has changes to send of: the watermark stands for "everything up to here".
InStep ==
  \A d \in Devices : \A r \in Settled(d) :
    db.rows[r].seq <= watermark[d] => local[d][r] = db.rows[r]

\* "A pull follows each successful drain so the device converges" (feature
\* document, User flow): in the end every outbox is empty and every device shows
\* what the server holds.
Converges == <>[](\A d \in Devices : outbox[d] = {} /\ local[d] = db.rows)

\* An applied update of a row that somebody else wrote since the editor's device
\* pulled it: the operation being applied in the step.
Overwrites(f) ==
  /\ txn # None /\ txn' # None
  /\ txn.todo # txn'.todo
  /\ txn'.results[Current.id] = "applied"
  /\ Action(Current, Stored) = "update"
  /\ f \in DOMAIN Current.set
  /\ Stored.val[f] # Current.set[f]
  /\ Stored.by # txn.req.dev
  /\ Stored.seq > Current.saw.seq

\* "The value it displaces is kept. Nothing is silently destroyed" (merge.rs:124):
\* what another person wrote and the editor never saw is not lost without a
\* conflict record.
LoserIsKept ==
  [][\A f \in Fields : Overwrites(f) =>
       [rec |-> Current.rec, field |-> f, lost |-> Stored.val[f], op |-> Current]
         \in txn'.work.conflicts]_txn
=============================================================================
