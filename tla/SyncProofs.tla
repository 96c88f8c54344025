----------------------------- MODULE SyncProofs -----------------------------
(***************************************************************************)
(* The devices' sync engine and the server keep what OpLifecycle promises  *)
(* of every change, and no pull puts an older row over a newer one, for    *)
(* every value of the constants: any number of devices, rows, edits and    *)
(* faults, batches and pages of any size.                                  *)
(***************************************************************************)
EXTENDS Sync, SyncServerProofs

-----------------------------------------------------------------------------
(* The inductive invariant.                                                *)
(*                                                                         *)
(* That an operation leaves the outbox only once it has taken effect rests *)
(* on what is true in between: whatever is under way is known to an        *)
(* outbox, or was, and an answer never says more than the server did.      *)

\* an operation somebody has, had and threw away, or the server has
Known(i) == Queued(i) # {} \/ i \in discarded \/ db.times[i] = 1

DevicesTyped ==
  /\ local \in [Devices -> [Records -> Row]]
  /\ outbox \in [Devices -> SUBSET Entry]
  /\ half \in [Devices -> Recording \cup {None}]
  /\ pass \in [Devices -> Pass]
  /\ watermark \in [Devices -> Nat]
  /\ wire \in SUBSET Sent
  /\ nextId \in Nat
  /\ faults \in Nat
  /\ discarded \in SUBSET OpIds
  /\ \A d \in Devices : IsFiniteSet(outbox[d])
  /\ \A w \in wire : IsFiniteSet(w.ops)

\* ids are handed out in order, and nobody has the id of a call under way
IdsNew ==
  /\ \A i \in OpIds : Known(i) => i < nextId
  /\ \A d \in Devices : half[d] # None =>
       /\ half[d].op.id < nextId
       /\ ~ Known(half[d].op.id)
       /\ \A e \in Devices : half[e] # None /\ half[e].op.id = half[d].op.id => e = d

\* one entry to an operation, over all outboxes
OneEntry ==
  /\ \A c, d \in Devices : \A e \in outbox[c], f \in outbox[d] :
       e.op.id = f.op.id => c = d /\ e = f
  /\ \A d \in Devices : \A e \in outbox[d] : e.op.id \notin discarded

\* a batch that is being handled is still in the outbox, and waits there
BatchWaits ==
  \A d \in Devices : \A op \in pass[d].batch : [op |-> op, parked |-> FALSE] \in outbox[d]

SaysDone(result) == result \in {"applied", "duplicate"}

\* an answer does not say more than the server did
AnswersTrue ==
  \A d \in Devices : \A i \in OpIds : SaysDone(pass[d].results[i]) => db.times[i] = 1

SentKnown == \A w \in wire : \A op \in w.ops : Known(op.id)

\* the working copy differs from the file by operations of its request
TxnFollows ==
  /\ db.expired = {}
  /\ txn # None =>
       /\ txn.work.expired = {}
       /\ txn.todo \subseteq txn.req.ops
       /\ \A op \in txn.req.ops : Known(op.id)
       /\ \A i \in OpIds :
            /\ SaysDone(txn.results[i]) => txn.work.times[i] = 1
            /\ \/ txn.work.times[i] = db.times[i]
               \/ /\ db.times[i] = 0 /\ txn.work.times[i] = 1
                  /\ \E op \in txn.req.ops : op.id = i

OutboxInv ==
  /\ DevicesTyped
  /\ IdsNew
  /\ OneEntry
  /\ BatchWaits
  /\ AnswersTrue
  /\ SentKnown
  /\ TxnFollows

\* what a device has of a row is never newer than the server's, and never newer than
\* what the pull under way brings
Behind ==
  \A d \in Devices, r \in Records :
    /\ local[d][r].seq <= db.rows[r].seq
    /\ half[d] # None /\ half[d].op.rec = r => half[d].op.saw.seq <= db.rows[r].seq
    /\ pull[d] # None /\ r \in InPage(pull[d].rows) =>
         /\ local[d][r].seq <= pull[d].rows[r].seq
         /\ half[d] # None /\ half[d].op.rec = r =>
              half[d].op.saw.seq <= pull[d].rows[r].seq
         /\ pull[d].rows[r].seq <= db.rows[r].seq

SInv == IInv /\ OutboxInv /\ Behind
-----------------------------------------------------------------------------
(* The server, with the engine as its client.  *)

\* A workspace that starts with the seed is a sound one.
LEMMA InitServer == Init => IInv
<1> SUFFICES ASSUME Init PROVE IInv
  OBVIOUS
<1> DEFINE there == {r \in Records : Seed[r] # 0}
<1>1. SeedSeq \in Nat
  BY SeedAssumption, FS_CardinalityType DEF SeedSeq
<1>2. ASSUME NEW r \in Records
      PROVE  /\ SeedRow(r) \in Row
             /\ SeedRow(r).seq <= SeedSeq
             /\ SeedRow(r).val = Blank
  <2>1. CASE Seed[r] = 0
    BY <2>1, <1>1, BlankType DEF SeedRow, NoRow, Row
  <2>2. CASE Seed[r] # 0
    BY <2>2, <1>1, BlankType, SeedAssumption DEF SeedRow, Row, SeedSeq
  <2>3. QED
    BY <2>1, <2>2
<1>3. /\ SeedRows \in [Records -> Row]
      /\ \A r \in Records : SeedRows[r].seq <= SeedSeq
  BY <1>2 DEF SeedRows
<1>4. SingleDefault(Fresh(SeedRows, SeedSeq))
  BY <1>2, FieldsAssumption DEF SingleDefault, Fresh, SeedRows, Blank
<1>5. QED
  BY <1>1, <1>3, <1>4, FreshIsSound DEF Init

\* A step that leaves the file, the transaction and the pulls alone.
LEMMA ServerIdle ==
  ASSUME IInv, UNCHANGED <<db, txn, pull>>, clock' \in Nat
  PROVE  IInv'
BY DEF IInv, ServerTypeOK, FileOK, TxnOK, Ahead, PullOK, SingleDefault, InPage

\* A pull that ends, or goes on to its next page.
LEMMA PullTurns ==
  ASSUME IInv, NEW d \in Devices, NEW since \in Nat,
         pull' \in {[pull EXCEPT ![d] = None], [pull EXCEPT ![d] = NewPull(since)]},
         UNCHANGED <<db, txn, clock>>
  PROVE  IInv'
<1>1. PullOf(d, NewPull(since))
  BY NoPageFacts, TablesAssumption DEF PullOf, NewPull, Pull
<1>2. QED
  BY <1>1, PullStepKeeps

\* The change_seq of an answer that has arrived is a number.
LEMMA MarkType ==
  ASSUME IInv, NEW d \in Devices, Arrived(d)
  PROVE  Mark(d) \in Nat
BY DEF IInv, ServerTypeOK, Pull, Arrived, Mark

\* Every step of the devices and the server keeps the server's invariant.
LEMMA ServerKeeps ==
  ASSUME IInv, DevicesTyped, [Next]_vars
  PROVE  IInv'
<1>1. CASE \E d \in Writers : StartRecord(d)
  <2>1. UNCHANGED <<db, txn, pull>> /\ clock' = Tick
    BY <1>1 DEF StartRecord
  <2>2. QED
    BY <2>1, ServerIdle, TickType DEF IInv, ServerTypeOK
<1>2. CASE \E d \in Devices : Panel(d) \/ Record(d)
  <2>1. UNCHANGED serverVars
    BY <1>2 DEF Panel, Record, Retry, Discard, PutRow, PutOp
  <2>2. QED
    BY <2>1, ServerIdle DEF serverVars, IInv, ServerTypeOK
<1>3. ASSUME NEW d \in Devices, Engine(d) PROVE IInv'
  <2>1. CASE StartDrain(d) \/ HandleResult(d) \/ EndRefused(d) \/ StoreTable(d)
    BY <2>1, ServerIdle DEF serverVars, IInv, ServerTypeOK, StartDrain, HandleResult,
                            EndRefused, StoreTable
  <2>2. CASE PullNext(d)
    BY <2>2, StartPullKeeps DEF PullNext, DevicesTyped
  <2>3. CASE SetWatermark(d)
    <3>1. Mark(d) \in Nat
      BY <2>3, MarkType DEF SetWatermark, StoredAll
    <3>2. QED
      BY <2>3, <3>1, PullTurns DEF SetWatermark
  <2>4. CASE AnswerPull(d)
    BY <2>4, ReadTableKeeps, ReadCounterKeeps DEF AnswerPull
  <2>5. QED
    BY <1>3, <2>1, <2>2, <2>3, <2>4 DEF Engine
<1>4. CASE Server
  <2>1. CASE TakePush
    BY <2>1, BeginKeeps DEF TakePush, DevicesTyped, Sent
  <2>2. CASE ServeOne
    BY <2>2, EffectIsStep, NothingIsStep, DoneKeeps
       DEF ServeOne, ApplyOne, AnswerDuplicate, Status
  <2>3. CASE AnswerPush
    BY <2>3, CommitKeeps DEF AnswerPush
  <2>4. QED
    BY <1>4, <2>1, <2>2, <2>3 DEF Server
<1>5. CASE Faults
  <2>1. ASSUME NEW d \in Devices, Abandon(d) PROVE IInv'
    BY <2>1, PullTurns DEF Abandon
  <2>2. CASE \E d \in Devices : LoseRecord(d) \/ RefusePush(d)
    BY <2>2, ServerIdle DEF serverVars, IInv, ServerTypeOK, LoseRecord, RefusePush
  <2>3. CASE RejectOne
    BY <2>3, NothingIsStep, PreparedIsStep, DoneKeeps
       DEF RejectOne, RefuseOne, FailOne, Status
  <2>4. CASE LoseTxn
    BY <2>4, RollbackKeeps DEF LoseTxn
  <2>5. QED
    BY <1>5, <2>1, <2>2, <2>3, <2>4 DEF Faults
<1>6. CASE UNCHANGED vars
  BY <1>6, ServerIdle DEF vars, serverVars, IInv, ServerTypeOK
<1>7. QED
  BY <1>1, <1>2, <1>3, <1>4, <1>5, <1>6 DEF Next

-----------------------------------------------------------------------------
(* The types of the devices' state.  *)

\* The devices start with their types.
LEMMA InitTyped == Init => DevicesTyped
<1> SUFFICES ASSUME Init PROVE DevicesTyped
  OBVIOUS
<1>1. NoRow \in Row
  BY BlankType DEF NoRow, Row
<1>2. SeedSeq \in Nat
  BY SeedAssumption, FS_CardinalityType DEF SeedSeq
<1>3. SeedRows \in [Records -> Row]
  BY <1>1, BlankType, SeedAssumption DEF SeedRows, SeedRow, Row
<1>4. Idle \in Pass
  BY DEF Idle, Pass, Phase, NoResults, Results, Status
<1>5. QED
  BY <1>1, <1>2, <1>3, <1>4, FS_EmptySet DEF Init, DevicesTyped

\* The rest of a batch, and one sent away, are finite sets of operations.
LEMMA BatchType ==
  ASSUME DevicesTyped, NEW d \in Devices
  PROVE  NextBatch(d) \in SUBSET Op /\ IsFiniteSet(NextBatch(d))
<1>1. outbox[d] \in SUBSET Entry /\ IsFiniteSet(outbox[d])
  BY DEF DevicesTyped
<1> DEFINE waits == {x \in outbox[d] : ~ x.parked}
<1>2. IsFiniteSet(waits)
  BY <1>1, FS_Subset
<1>3. Pending(d) = {e.op : e \in waits} /\ Pending(d) \in SUBSET Op
  BY <1>1 DEF Pending, Entry
<1> DEFINE its == [e \in waits |-> e.op]
<1>4. IsFiniteSet(Pending(d))
  <2>1. its \in Surjection(waits, Pending(d))
    BY <1>3 DEF Surjection
  <2>2. QED
    BY <1>2, <2>1, FS_Surjection
<1>5. QED
  BY <1>3, <1>4, FS_Subset DEF NextBatch

\* A row an edit has written to IndexedDB is a row.
LEMMA ShownType ==
  ASSUME NEW op \in Op, NEW now \in Nat
  PROVE  Shown(op, now) \in Row /\ Shown(op, now).seq = op.saw.seq
<1>1. op.saw \in Row /\ op.set \in Payload
  BY DEF Op
<1>2. op.saw.val \in [Fields -> Values]
  BY <1>1 DEF Row
<1>3. Merged(op.saw.val, op.set) \in [Fields -> Values]
  BY <1>1, <1>2, MergedType
<1>4. QED
  BY <1>1, <1>3 DEF Shown, Row

\* What is left of an outbox after an answer.
LEMMA AnsweredType ==
  ASSUME DevicesTyped, NEW d \in Devices, NEW op \in Op, NEW result
  PROVE  AfterResult(d, op, result) \in SUBSET Entry
         /\ IsFiniteSet(AfterResult(d, op, result))
<1>1. outbox[d] \in SUBSET Entry /\ IsFiniteSet(outbox[d])
  BY DEF DevicesTyped
<1>2. Without(d, op) \in SUBSET Entry /\ IsFiniteSet(Without(d, op))
  BY <1>1, FS_Subset DEF Without
<1>3. Parked(op) \in Entry
  BY DEF Parked, Entry
<1>4. IsFiniteSet(Without(d, op) \cup {Parked(op)})
  BY <1>2, FS_AddElement
<1>5. QED
  BY <1>1, <1>2, <1>3, <1>4 DEF AfterResult

\* What people do to a record.
LEMMA StartRecordTyped ==
  ASSUME SInv, NEW d \in Writers, StartRecord(d)
  PROVE  DevicesTyped'
<1>1. d \in Devices
  BY WritersAssumption
<1>2. PICK edit \in Edits :
        half' = [half EXCEPT ![d] =
          [stage |-> "read",
           now   |-> Tick,
           op    |-> [id |-> nextId, rec |-> edit.rec, kind |-> edit.kind,
                      set |-> edit.set,
                      base |-> IF local[d][edit.rec].state = "absent" THEN NoBase
                               ELSE local[d][edit.rec].at,
                      saw |-> local[d][edit.rec]]]]
  BY DEF StartRecord
<1>3. /\ edit.rec \in Records /\ edit.kind \in {"upsert", "delete"}
      /\ edit.set \in Payload
  BY EditsAssumption
<1>4. local[d][edit.rec] \in Row /\ local[d][edit.rec].at \in Nat
  BY <1>1, <1>3 DEF SInv, OutboxInv, DevicesTyped, Row
<1>5. nextId \in OpIds /\ nextId \in Nat /\ Tick \in Nat
  BY TickType DEF StartRecord, SInv, OutboxInv, DevicesTyped, IInv, ServerTypeOK
<1>6. half' \in [Devices -> Recording \cup {None}]
  BY <1>1, <1>2, <1>3, <1>4, <1>5
     DEF SInv, OutboxInv, DevicesTyped, Recording, Op, NoBase
<1>7. QED
  BY <1>5, <1>6 DEF StartRecord, SInv, OutboxInv, DevicesTyped

LEMMA RecordTyped ==
  ASSUME SInv, NEW d \in Devices, Panel(d) \/ Record(d)
  PROVE  DevicesTyped'
<1>1. DevicesTyped
  BY DEF SInv, OutboxInv
<1>2. outbox[d] \in SUBSET Entry /\ IsFiniteSet(outbox[d])
  BY <1>1 DEF DevicesTyped
<1>3. CASE Retry(d)
  <2>1. PICK e \in outbox[d] :
          outbox' = [outbox EXCEPT ![d] =
                       (outbox[d] \ {e}) \cup {[e EXCEPT !.parked = FALSE]}]
    BY <1>3 DEF Retry
  <2> DEFINE f == [e EXCEPT !.parked = FALSE]
             rest == outbox[d] \ {e}
             now == rest \cup {f}
  <2>2. f \in Entry
    BY <1>2, <2>1 DEF Entry
  <2>3. rest \in SUBSET Entry /\ IsFiniteSet(rest)
    BY <1>2, FS_Subset
  <2> HIDE DEF f, rest
  <2>4. now \in SUBSET Entry /\ IsFiniteSet(now)
    BY <2>2, <2>3, FS_AddElement
  <2>5. outbox' = [outbox EXCEPT ![d] = now]
    BY <2>1 DEF f, rest
  <2> HIDE DEF now
  <2>6. outbox' \in [Devices -> SUBSET Entry] /\ \A c \in Devices : IsFiniteSet(outbox'[c])
    BY <1>1, <2>4, <2>5 DEF DevicesTyped
  <2>7. QED
    BY <1>1, <1>3, <2>6 DEF Retry, DevicesTyped
<1>4. CASE Discard(d)
  <2>1. PICK e \in outbox[d] : /\ outbox' = [outbox EXCEPT ![d] = outbox[d] \ {e}]
                               /\ discarded' = discarded \cup {e.op.id}
    BY <1>4 DEF Discard
  <2>2. e.op.id \in OpIds
    BY <1>2 DEF Entry, Op
  <2>3. outbox[d] \ {e} \in SUBSET Entry /\ IsFiniteSet(outbox[d] \ {e})
    BY <1>2, FS_Subset
  <2>4. QED
    BY <1>1, <1>4, <2>1, <2>2, <2>3 DEF Discard, DevicesTyped
<1>5. CASE PutRow(d)
  <2>1. half[d] \in Recording
    BY <1>1, <1>5 DEF PutRow, DevicesTyped
  <2>2. /\ half[d].op \in Op /\ half[d].op.rec \in Records /\ half[d].now \in Nat
        /\ [half[d] EXCEPT !.stage = "put"] \in Recording
    BY <2>1 DEF Recording, Op
  <2>3. Shown(half[d].op, half[d].now) \in Row
    BY <2>2, ShownType
  <2>4. local' \in [Devices -> [Records -> Row]]
    BY <1>1, <1>5, <2>2, <2>3 DEF PutRow, DevicesTyped
  <2>5. half' \in [Devices -> Recording \cup {None}]
    BY <1>1, <1>5, <2>2 DEF PutRow, DevicesTyped
  <2>6. QED
    BY <1>1, <1>5, <2>4, <2>5 DEF PutRow, DevicesTyped
<1>6. CASE PutOp(d)
  <2>1. half[d].op \in Op
    BY <1>1, <1>6 DEF PutOp, DevicesTyped, Recording
  <2>2. [op |-> half[d].op, parked |-> FALSE] \in Entry
    BY <2>1 DEF Entry
  <2>3. /\ outbox[d] \cup {[op |-> half[d].op, parked |-> FALSE]} \in SUBSET Entry
        /\ IsFiniteSet(outbox[d] \cup {[op |-> half[d].op, parked |-> FALSE]})
    BY <1>2, <2>2, FS_AddElement
  <2>4. QED
    BY <1>1, <1>6, <2>3 DEF PutOp, DevicesTyped
<1>7. QED
  BY <1>3, <1>4, <1>5, <1>6 DEF Panel, Record

\* The engine.
LEMMA EngineTyped ==
  ASSUME SInv, NEW d \in Devices, Engine(d)
  PROVE  DevicesTyped'
<1>1. DevicesTyped /\ pass[d] \in Pass
  BY DEF SInv, OutboxInv, DevicesTyped
<1>2. Idle \in Pass
  BY DEF Idle, Pass, Phase, NoResults, Results, Status
<1>3. CASE StartDrain(d)
  <2>1. NextBatch(d) \in SUBSET Op /\ IsFiniteSet(NextBatch(d))
    BY <1>1, BatchType
  <2>2. [Idle EXCEPT !.phase = "sent", !.batch = NextBatch(d)] \in Pass
    BY <1>2, <2>1 DEF Pass, Phase
  <2> DEFINE push == [dev |-> d, ops |-> NextBatch(d), live |-> TRUE]
  <2>3. push \in Sent /\ push.ops = NextBatch(d) /\ wire' = wire \cup {push}
    BY <1>3, <2>1 DEF Sent, StartDrain
  <2> HIDE DEF push
  <2>4. wire' \in SUBSET Sent /\ \A w \in wire' : IsFiniteSet(w.ops)
    BY <1>1, <2>1, <2>3 DEF DevicesTyped
  <2>5. pass' \in [Devices -> Pass]
    BY <1>1, <1>3, <2>2 DEF StartDrain, DevicesTyped
  <2>6. QED
    BY <1>1, <1>3, <2>4, <2>5 DEF StartDrain, DevicesTyped
<1>4. CASE HandleResult(d)
  <2> DEFINE op == First(pass[d].batch)
  <2>1. op \in pass[d].batch /\ op \in Op
    BY <1>1, <1>4, FirstIsOne DEF HandleResult, Pass
  <2>2. [pass[d] EXCEPT !.batch = pass[d].batch \ {op}] \in Pass
    BY <1>1 DEF Pass
  <2>3. pass' = [pass EXCEPT ![d] = [pass[d] EXCEPT !.batch = pass[d].batch \ {op}]]
    BY <1>1, <1>4 DEF HandleResult, DevicesTyped
  <2>4. PICK left \in SUBSET Entry :
          IsFiniteSet(left) /\ outbox' = [outbox EXCEPT ![d] = left]
    BY <1>1, <1>4, <2>1, AnsweredType DEF HandleResult
  <2>5. QED
    BY <1>1, <1>4, <2>2, <2>3, <2>4 DEF HandleResult, DevicesTyped
<1>5. CASE EndRefused(d)
  BY <1>1, <1>2, <1>5 DEF EndRefused, DevicesTyped
<1>6. CASE PullNext(d)
  <2>1. [Idle EXCEPT !.phase = "pull"] \in Pass
    BY <1>2 DEF Pass, Phase
  <2>2. QED
    BY <1>1, <1>6, <2>1 DEF PullNext, DevicesTyped
<1>7. CASE StoreTable(d)
  <2>1. pull[d] \in Pull /\ pull[d].rows \in [Records -> Row]
    BY <1>7 DEF StoreTable, Arrived, SInv, IInv, ServerTypeOK, Pull, Page
  <2>2. PutAll(d) \in [Records -> Row]
    BY <1>1, <2>1 DEF PutAll, DevicesTyped
  <2>3. [pass[d] EXCEPT !.table = pass[d].table + 1] \in Pass
    BY <1>1 DEF Pass
  <2>4. pass' = [pass EXCEPT ![d] = [pass[d] EXCEPT !.table = pass[d].table + 1]]
    BY <1>1, <1>7 DEF StoreTable, DevicesTyped
  <2>5. QED
    BY <1>1, <1>7, <2>2, <2>3, <2>4 DEF StoreTable, DevicesTyped
<1>8. CASE SetWatermark(d)
  <2>1. Mark(d) \in Nat
    BY <1>8, MarkType DEF SetWatermark, StoredAll, SInv
  <2>2. [pass[d] EXCEPT !.table = 1] \in Pass
    BY <1>1 DEF Pass
  <2>3. pass' \in [Devices -> Pass]
    BY <1>1, <1>2, <1>8, <2>2 DEF SetWatermark, DevicesTyped
  <2>4. QED
    BY <1>1, <1>8, <2>1, <2>3 DEF SetWatermark, DevicesTyped
<1>9. CASE AnswerPull(d)
  BY <1>1, <1>9 DEF AnswerPull, deviceVars, DevicesTyped
<1>10. QED
  BY <1>3, <1>4, <1>5, <1>6, <1>7, <1>8, <1>9 DEF Engine

\* What a fault does to the pushes under way, and what an answer takes away.
LEMMA WireType ==
  ASSUME DevicesTyped, NEW w \in wire,
         wire' \in {wire, wire \ {w}, (wire \ {w}) \cup {[w EXCEPT !.live = FALSE]}}
  PROVE  /\ wire' \in SUBSET Sent
         /\ \A v \in wire' : IsFiniteSet(v.ops) /\ \E u \in wire : u.dev = v.dev /\ u.ops = v.ops
<1>1. w \in Sent /\ IsFiniteSet(w.ops) /\ wire \in SUBSET Sent
  BY DEF DevicesTyped
<1> DEFINE late == [w EXCEPT !.live = FALSE]
<1>2. late \in Sent /\ late.ops = w.ops /\ late.dev = w.dev
  BY <1>1 DEF Sent
<1>3. QED
  BY <1>1, <1>2 DEF DevicesTyped

\* The server and the faults.
LEMMA ServerTyped ==
  ASSUME SInv, Server
  PROVE  DevicesTyped'
<1>1. DevicesTyped
  BY DEF SInv, OutboxInv
<1>2. CASE TakePush \/ ServeOne
  BY <1>1, <1>2 DEF TakePush, ServeOne, deviceVars, DevicesTyped
<1>3. CASE AnswerPush
  <2>1. PICK w \in wire :
          /\ wire' = wire \ {w}
          /\ pass' = IF w.live
                     THEN [pass EXCEPT ![w.dev].phase = "handle",
                                       ![w.dev].results = txn.results]
                     ELSE pass
    BY <1>3 DEF AnswerPush
  <2>2. w.dev \in Devices /\ pass[w.dev] \in Pass
    BY <1>1 DEF DevicesTyped, Sent
  <2>3. txn.results \in Results
    BY <1>3 DEF AnswerPush, Commit, SInv, IInv, ServerTypeOK, Txn
  <2>4. [pass[w.dev] EXCEPT !.phase = "handle", !.results = txn.results] \in Pass
    BY <2>2, <2>3 DEF Pass, Phase
  <2>5. pass' \in [Devices -> Pass]
    BY <1>1, <2>1, <2>2, <2>4 DEF DevicesTyped
  <2>6. wire' \in SUBSET Sent /\ \A v \in wire' : IsFiniteSet(v.ops)
    BY <1>1, <2>1 DEF DevicesTyped
  <2>7. QED
    BY <1>1, <1>3, <2>5, <2>6 DEF AnswerPush, DevicesTyped
<1>4. QED
  BY <1>2, <1>3 DEF Server

LEMMA FaultsTyped ==
  ASSUME SInv, Faults
  PROVE  DevicesTyped'
<1>1. DevicesTyped
  BY DEF SInv, OutboxInv
<1>2. Idle \in Pass
  BY DEF Idle, Pass, Phase, NoResults, Results, Status
<1>3. faults' \in Nat
  <2>1. ASSUME NEW d \in Devices, Abandon(d) \/ LoseRecord(d) \/ RefusePush(d) PROVE Fault
    BY <2>1 DEF Abandon, LoseRecord, RefusePush
  <2>2. Fault
    BY <2>1 DEF Faults, RejectOne, LoseTxn
  <2>3. QED
    BY <1>1, <2>2 DEF Fault, DevicesTyped
<1>4. ASSUME NEW d \in Devices, Abandon(d) PROVE DevicesTyped'
  <2>1. wire' \in SUBSET Sent /\ \A v \in wire' : IsFiniteSet(v.ops)
    <3>1. CASE wire' = wire
      BY <1>1, <3>1 DEF DevicesTyped
    <3>2. CASE \E w \in wire : wire' \in {wire \ {w}, (wire \ {w}) \cup {[w EXCEPT !.live = FALSE]}}
      BY <1>1, <3>2, WireType
    <3>3. QED
      BY <1>4, <3>1, <3>2 DEF Abandon
  <2>2. pass' \in [Devices -> Pass]
    BY <1>1, <1>2, <1>4 DEF Abandon, DevicesTyped
  <2>3. QED
    BY <1>1, <1>3, <1>4, <2>1, <2>2 DEF Abandon, DevicesTyped
<1>5. ASSUME NEW d \in Devices, LoseRecord(d) PROVE DevicesTyped'
  BY <1>1, <1>3, <1>5 DEF LoseRecord, DevicesTyped
<1>6. ASSUME NEW d \in Devices, RefusePush(d) PROVE DevicesTyped'
  <2>1. wire' \in SUBSET Sent /\ \A v \in wire' : IsFiniteSet(v.ops)
    BY <1>1, <1>6, WireType DEF RefusePush
  <2> DEFINE turn == [pass[d] EXCEPT !.phase = "refused",
                                     !.results = [i \in OpIds |-> "rejected"]]
  <2>2. pass[d] \in Pass
    BY <1>1 DEF DevicesTyped
  <2>3. turn \in Pass
    BY <2>2 DEF Pass, Phase, Results, Status
  <2>4. pass' = [pass EXCEPT ![d] = turn]
    BY <1>1, <1>6 DEF RefusePush, DevicesTyped
  <2>5. pass' \in [Devices -> Pass]
    BY <1>1, <2>3, <2>4 DEF DevicesTyped
  <2>6. QED
    BY <1>1, <1>3, <1>6, <2>1, <2>5 DEF RefusePush, DevicesTyped
<1>7. CASE RejectOne
  BY <1>1, <1>3, <1>7 DEF RejectOne, DevicesTyped
<1>8. CASE LoseTxn
  <2>1. PICK w \in wire : /\ wire' = wire \ {w}
                          /\ pass' = IF w.live THEN [pass EXCEPT ![w.dev] = Idle] ELSE pass
    BY <1>8 DEF LoseTxn
  <2>2. wire' \in SUBSET Sent /\ \A v \in wire' : IsFiniteSet(v.ops)
    BY <1>1, <2>1 DEF DevicesTyped
  <2>3. pass' \in [Devices -> Pass]
    BY <1>1, <1>2, <2>1 DEF DevicesTyped
  <2>4. QED
    BY <1>1, <1>3, <1>8, <2>2, <2>3 DEF LoseTxn, DevicesTyped
<1>9. QED
  BY <1>4, <1>5, <1>6, <1>7, <1>8 DEF Faults

-----------------------------------------------------------------------------
(* What is under way is known, and answers are true.                       *)

OutboxRest ==
  /\ IdsNew
  /\ OneEntry
  /\ BatchWaits
  /\ AnswersTrue
  /\ SentKnown
  /\ TxnFollows

\* A step that leaves the outboxes and the file alone forgets and learns nothing.
LEMMA KnownStays ==
  ASSUME UNCHANGED <<outbox, discarded, db>>
  PROVE  \A i \in OpIds : Known(i)' <=> Known(i)
BY DEF Known, Queued

\* The operations in sight are operations.
LEMMA OpsInSight ==
  ASSUME SInv
  PROVE  /\ \A d \in Devices : half[d] # None => half[d].op.id \in OpIds
         /\ \A d \in Devices : \A e \in outbox[d] : e \in Entry /\ e.op \in Op /\ e.op.id \in OpIds
         /\ \A d \in Devices : \A op \in pass[d].batch : op \in Op /\ op.id \in OpIds
         /\ \A w \in wire : \A op \in w.ops : op.id \in OpIds
         /\ txn # None => \A op \in txn.req.ops : op.id \in OpIds
         /\ nextId \in Nat /\ OpIds \subseteq Nat
<1>1. \A op \in Op : op.id \in OpIds
  BY DEF Op
<1>2. DevicesTyped /\ ServerTypeOK
  BY DEF SInv, OutboxInv, IInv
<1>3. \A d \in Devices : half[d] # None => half[d].op \in Op
  BY <1>2 DEF DevicesTyped, Recording
<1>4. \A d \in Devices : \A e \in outbox[d] : e \in Entry /\ e.op \in Op
  BY <1>2 DEF DevicesTyped, Entry
<1>5. \A d \in Devices : \A op \in pass[d].batch : op \in Op
  BY <1>2 DEF DevicesTyped, Pass
<1>6. \A w \in wire : \A op \in w.ops : op \in Op
  BY <1>2 DEF DevicesTyped, Sent
<1>7. txn # None => \A op \in txn.req.ops : op \in Op
  BY <1>2 DEF ServerTypeOK, Txn, Request
<1>8. QED
  BY <1>1, <1>2, <1>3, <1>4, <1>5, <1>6, <1>7, OpIdsAssumption DEF DevicesTyped

\* A call of `record` takes the next id; until its last step nobody has it.
LEMMA CallKeeps ==
  ASSUME SInv, (\E d \in Writers : StartRecord(d)) \/ (\E d \in Devices : PutRow(d) \/ LoseRecord(d))
  PROVE  OutboxRest'
<1>1. /\ UNCHANGED <<outbox, discarded, db, txn, pass, wire>>
      /\ OutboxInv
  BY DEF SInv, StartRecord, PutRow, LoseRecord, serverVars
<1>2. \A i \in OpIds : Known(i)' <=> Known(i)
  BY <1>1, KnownStays
<1>3. IdsNew'
  <2>1. CASE \E d \in Writers : StartRecord(d)
    <3>1. PICK d \in Writers : StartRecord(d)
      BY <2>1
    <3>2. /\ nextId' = nextId + 1 /\ nextId \in OpIds
          /\ \E call : call.op.id = nextId /\ half' = [half EXCEPT ![d] = call]
      BY <3>1 DEF StartRecord
    <3>3. \A e \in Devices : half'[e] # None =>
            IF e = d THEN half'[e].op.id = nextId ELSE half[e] # None /\ half'[e] = half[e]
      BY <1>1, <3>2 DEF OutboxInv, DevicesTyped
    <3>4. \A i \in OpIds : Known(i) => i < nextId
      BY <1>1 DEF OutboxInv, IdsNew
    <3>5. nextId \in Nat /\ OpIds \subseteq Nat
      BY OpsInSight
    <3>6. \A i \in OpIds : Known(i)' => i < nextId'
      BY <1>2, <3>2, <3>4, <3>5
    <3>7. ASSUME NEW e \in Devices, half'[e] # None
          PROVE  /\ half'[e].op.id \in OpIds
                 /\ half'[e].op.id < nextId'
                 /\ ~ Known(half'[e].op.id)
                 /\ e # d => half'[e].op.id # nextId
      <4>1. CASE e = d
        <5>1. half'[e].op.id = nextId
          BY <3>3, <3>7, <4>1
        <5>2. ~ Known(nextId) /\ nextId < nextId'
          BY <3>2, <3>4, <3>5
        <5>3. QED
          BY <3>2, <4>1, <5>1, <5>2
      <4>2. CASE e # d
        <5>1. half[e] # None /\ half'[e] = half[e]
          BY <3>3, <3>7, <4>2
        <5>2. /\ half[e].op.id \in OpIds /\ half[e].op.id < nextId
              /\ ~ Known(half[e].op.id)
          BY <1>1, <5>1, OpsInSight DEF OutboxInv, IdsNew
        <5>3. half[e].op.id \in Nat /\ nextId' = nextId + 1
          BY <3>2, <3>5, <5>2
        <5>4. half[e].op.id < nextId' /\ half[e].op.id # nextId
          BY <3>5, <5>2, <5>3
        <5>5. QED
          BY <5>1, <5>2, <5>4
      <4>3. QED
        BY <4>1, <4>2
    <3>8. ASSUME NEW c \in Devices, NEW e \in Devices, half'[c] # None, half'[e] # None,
                 half'[c].op.id = half'[e].op.id
          PROVE  c = e
      BY <1>1, <3>3, <3>7, <3>8 DEF OutboxInv, IdsNew
    <3>9. QED
      BY <1>2, <3>6, <3>7, <3>8 DEF IdsNew
  <2>2. ASSUME NEW d \in Devices, PutRow(d) PROVE IdsNew'
    <3>1. /\ half' = [half EXCEPT ![d] = [half[d] EXCEPT !.stage = "put"]]
          /\ half[d] \in Recording /\ half[d] # None /\ nextId' = nextId
      BY <1>1, <2>2 DEF PutRow, OutboxInv, DevicesTyped
    <3>2. \A e \in Devices : half'[e] # None => half[e] # None /\ half'[e].op = half[e].op
      BY <1>1, <3>1 DEF OutboxInv, DevicesTyped, Recording
    <3>3. QED
      BY <1>1, <1>2, <3>1, <3>2, OpsInSight DEF OutboxInv, IdsNew
  <2>3. ASSUME NEW d \in Devices, LoseRecord(d) PROVE IdsNew'
    <3>1. half' = [half EXCEPT ![d] = None] /\ nextId' = nextId
      BY <2>3 DEF LoseRecord
    <3>2. \A e \in Devices : half'[e] # None => half[e] # None /\ half'[e] = half[e]
      BY <1>1, <3>1 DEF OutboxInv, DevicesTyped
    <3>3. QED
      BY <1>1, <1>2, <3>1, <3>2, OpsInSight DEF OutboxInv, IdsNew
  <2>4. QED
    BY <2>1, <2>2, <2>3
<1>4. (OneEntry /\ BatchWaits /\ AnswersTrue)'
  BY <1>1 DEF OutboxInv, OneEntry, BatchWaits, AnswersTrue
<1>5. SentKnown' /\ TxnFollows'
  BY <1>1, <1>2, OpsInSight DEF OutboxInv, SentKnown, TxnFollows
<1>6. QED
  BY <1>3, <1>4, <1>5 DEF OutboxRest

\* The call's last step puts the operation in the outbox.
LEMMA PutOpKeeps ==
  ASSUME SInv, NEW d \in Devices, PutOp(d)
  PROVE  OutboxRest'
<1> DEFINE op == half[d].op
           new == [op |-> op, parked |-> FALSE]
<1>1. /\ OutboxInv /\ half[d] # None
      /\ outbox' = [outbox EXCEPT ![d] = outbox[d] \cup {new}]
      /\ half' = [half EXCEPT ![d] = None]
      /\ UNCHANGED <<db, txn, pass, wire, nextId, discarded>>
  BY DEF SInv, PutOp, serverVars
<1>2. outbox \in [Devices -> SUBSET Entry] /\ half \in [Devices -> Recording \cup {None}]
  BY <1>1 DEF OutboxInv, DevicesTyped
<1>3. op.id \in OpIds /\ ~ Known(op.id) /\ op.id < nextId
  BY <1>1, OpsInSight DEF OutboxInv, IdsNew
<1>4. \A i \in OpIds : Known(i)' <=> Known(i) \/ i = op.id
  <2>1. \A i \in OpIds : Queued(i)' = Queued(i) \cup (IF i = op.id THEN {new} ELSE {})
    BY <1>1, <1>2 DEF Queued
  <2>2. QED
    BY <1>1, <2>1 DEF Known
<1>5. IdsNew'
  <2>1. \A e \in Devices : half'[e] # None => e # d /\ half[e] # None /\ half'[e] = half[e]
    BY <1>1, <1>2
  <2>2. QED
    BY <1>1, <1>3, <1>4, <2>1, OpsInSight DEF OutboxInv, IdsNew
<1>6. OneEntry'
  <2>1. \A c \in Devices : \A e \in outbox[c] : e.op.id # op.id
    BY <1>2, <1>3 DEF Known, Queued
  <2>2. op.id \notin discarded
    BY <1>3 DEF Known
  <2>3. \A c \in Devices : \A e \in outbox'[c] : e \in outbox[c] \/ (c = d /\ e = new)
    BY <1>1, <1>2
  <2>4. ASSUME NEW b \in Devices, NEW c \in Devices, NEW x \in outbox'[b], NEW y \in outbox'[c],
               x.op.id = y.op.id
        PROVE  b = c /\ x = y
    <3>1. CASE x \in outbox[b] /\ y \in outbox[c]
      BY <1>1, <2>4, <3>1 DEF OutboxInv, OneEntry
    <3>2. new.op = op /\ x.op.id = y.op.id
      BY <2>4
    <3> HIDE DEF op, new
    <3>3. CASE ~ (x \in outbox[b] /\ y \in outbox[c])
      BY <2>1, <2>3, <3>2, <3>3
    <3>4. QED
      BY <3>1, <3>3
  <2>5. \A c \in Devices : \A e \in outbox'[c] : e.op.id \notin discarded'
    BY <1>1, <2>2, <2>3 DEF OutboxInv, OneEntry
  <2>6. QED
    BY <2>4, <2>5 DEF OneEntry
<1>7. (BatchWaits /\ AnswersTrue)'
  BY <1>1, <1>2 DEF OutboxInv, BatchWaits, AnswersTrue
<1>8. SentKnown' /\ TxnFollows'
  BY <1>1, <1>4, OpsInSight DEF OutboxInv, SentKnown, TxnFollows
<1>9. QED
  BY <1>5, <1>6, <1>7, <1>8 DEF OutboxRest

\* The sync panel: a parked operation is not in anybody's batch.
LEMMA PanelKeeps ==
  ASSUME SInv, NEW d \in Devices, Panel(d)
  PROVE  OutboxRest'
<1>1. /\ OutboxInv
      /\ UNCHANGED <<db, txn, pass, wire, nextId, half>>
  BY DEF SInv, Panel, Retry, Discard, serverVars
<1>2. outbox \in [Devices -> SUBSET Entry] /\ discarded \in SUBSET OpIds
  BY <1>1 DEF OutboxInv, DevicesTyped
<1>3. PICK e \in outbox[d] :
        /\ e.parked
        /\ \/ /\ outbox' = [outbox EXCEPT ![d] =
                              (outbox[d] \ {e}) \cup {[e EXCEPT !.parked = FALSE]}]
              /\ discarded' = discarded
           \/ /\ outbox' = [outbox EXCEPT ![d] = outbox[d] \ {e}]
              /\ discarded' = discarded \cup {e.op.id}
  BY DEF Panel, Retry, Discard
<1> DEFINE again == [e EXCEPT !.parked = FALSE]
<1>4. again.op = e.op /\ e.op.id \in OpIds
  <2>1. e \in Entry /\ e.op.id \in OpIds
    BY <1>3, OpsInSight
  <2>2. QED
    BY <2>1 DEF Entry
<1> HIDE DEF again
<1>5. \A c \in Devices : \A x \in outbox'[c] :
        \/ x \in outbox[c] /\ x # e
        \/ c = d /\ x = again /\ discarded' = discarded
  <2>1. \A c \in Devices \ {d} : outbox[c] = outbox'[c] /\ e \notin outbox[c]
    BY <1>1, <1>2, <1>3 DEF OutboxInv, OneEntry
  <2>2. QED
    BY <1>2, <1>3, <2>1 DEF again
<1>6. \A c \in Devices : \A x \in outbox[c] : x # e => x \in outbox'[c]
  BY <1>2, <1>3 DEF again
<1>7. \A i \in OpIds : Known(i)' <=> Known(i)
  <2>1. \A i \in OpIds : i # e.op.id => Queued(i)' = Queued(i)
    BY <1>4, <1>5, <1>6 DEF Queued
  <2>2. Queued(e.op.id) # {}
    BY <1>3 DEF Queued
  <2>3. Queued(e.op.id)' # {} \/ e.op.id \in discarded'
    <3>1. again \in outbox'[d] \/ e.op.id \in discarded'
      BY <1>2, <1>3 DEF again
    <3>2. QED
      BY <1>4, <3>1 DEF Queued
  <2>4. \A i \in OpIds : i # e.op.id => (i \in discarded' <=> i \in discarded)
    BY <1>3
  <2>5. QED
    BY <1>1, <2>1, <2>2, <2>3, <2>4 DEF Known
<1>8. IdsNew'
  BY <1>1, <1>7, OpsInSight DEF OutboxInv, IdsNew
<1>9. OneEntry'
  <2>1. \A c \in Devices : \A x \in outbox[c] : x.op.id = e.op.id => c = d /\ x = e
    BY <1>1, <1>3 DEF OutboxInv, OneEntry
  <2>2. e.op.id \notin discarded
    BY <1>1, <1>3 DEF OutboxInv, OneEntry
  <2>3. \A b, c \in Devices : \A x \in outbox'[b], y \in outbox'[c] :
          x.op.id = y.op.id => b = c /\ x = y
    <3> SUFFICES ASSUME NEW b \in Devices, NEW c \in Devices,
                        NEW x \in outbox'[b], NEW y \in outbox'[c], x.op.id = y.op.id
                 PROVE  b = c /\ x = y
      OBVIOUS
    <3>1. again.op.id = e.op.id
      BY <1>4
    <3>2. CASE x \in outbox[b] /\ y \in outbox[c]
      BY <1>1, <3>2 DEF OutboxInv, OneEntry
    <3>3. CASE ~ (x \in outbox[b] /\ y \in outbox[c])
      BY <1>5, <2>1, <3>1, <3>3
    <3>4. QED
      BY <3>2, <3>3
  <2>4. \A c \in Devices : \A x \in outbox'[c] : x.op.id \notin discarded'
    BY <1>1, <1>3, <1>4, <1>5, <2>1, <2>2 DEF OutboxInv, OneEntry
  <2>5. QED
    BY <2>3, <2>4 DEF OneEntry
<1>10. BatchWaits' /\ AnswersTrue'
  BY <1>1, <1>3, <1>6 DEF OutboxInv, BatchWaits, AnswersTrue
<1>11. SentKnown' /\ TxnFollows'
  BY <1>1, <1>7, OpsInSight DEF OutboxInv, SentKnown, TxnFollows
<1>12. QED
  BY <1>8, <1>9, <1>10, <1>11 DEF OutboxRest

\* One result: the operation leaves the outbox only when the answer is that it is done.
LEMMA HandleKeeps ==
  ASSUME SInv, NEW d \in Devices, HandleResult(d)
  PROVE  /\ OutboxRest'
         /\ \E e \in outbox[d] :
              /\ ~ e.parked
              /\ UNCHANGED <<db, discarded>>
              /\ \/ UNCHANGED outbox
                 \/ outbox' = [outbox EXCEPT ![d] = (outbox[d] \ {e}) \cup {Parked(e.op)}]
                 \/ /\ outbox' = [outbox EXCEPT ![d] = outbox[d] \ {e}]
                    /\ db.times[e.op.id] = 1
<1> PICK op : op = First(pass[d].batch)
  OBVIOUS
<1> DEFINE e == [op |-> op, parked |-> FALSE]
           result == pass[d].results[op.id]
<1>1. /\ OutboxInv
      /\ UNCHANGED <<db, txn, wire, nextId, half, discarded>>
      /\ outbox' = [outbox EXCEPT ![d] = AfterResult(d, op, result)]
      /\ pass' = [pass EXCEPT ![d] = [pass[d] EXCEPT !.batch = pass[d].batch \ {op}]]
  BY DEF SInv, HandleResult, serverVars, OutboxInv, DevicesTyped
<1>2. /\ outbox \in [Devices -> SUBSET Entry] /\ pass \in [Devices -> Pass]
      /\ pass[d] \in Pass
  BY <1>1 DEF OutboxInv, DevicesTyped
<1>3. op \in pass[d].batch /\ op \in Op /\ op.id \in OpIds
  BY <1>2, FirstIsOne, OpsInSight DEF HandleResult, Pass
<1>4. e \in outbox[d] /\ e.op = op /\ ~ e.parked
  BY <1>1, <1>3 DEF OutboxInv, BatchWaits
<1>5. Without(d, op) = outbox[d] \ {e}
  <2>1. \A x \in outbox[d] : x.op.id = op.id <=> x = e
    BY <1>1, <1>4 DEF OutboxInv, OneEntry
  <2>2. QED
    BY <2>1 DEF Without
<1>6. result \in Status
  BY <1>2, <1>3 DEF Pass, Results
<1>7. \/ outbox' = outbox
      \/ outbox' = [outbox EXCEPT ![d] = (outbox[d] \ {e}) \cup {Parked(op)}]
      \/ /\ outbox' = [outbox EXCEPT ![d] = outbox[d] \ {e}]
         /\ db.times[op.id] = 1
  <2>1. CASE result = "none"
    BY <1>1, <1>2, <2>1 DEF AfterResult
  <2>2. CASE result = "rejected"
    BY <1>1, <1>5, <2>2 DEF AfterResult
  <2>3. CASE result \in {"applied", "duplicate"}
    <3>1. AfterResult(d, op, result) = outbox[d] \ {e}
      BY <1>5, <2>3 DEF AfterResult
    <3>2. db.times[op.id] = 1
      BY <1>1, <1>3, <2>3 DEF OutboxInv, AnswersTrue, SaysDone
    <3>3. QED
      BY <1>1, <3>1, <3>2
  <2>4. QED
    BY <1>6, <2>1, <2>2, <2>3 DEF Status
<1>8. Parked(op).op = op
  BY DEF Parked
<1>9. /\ \A c \in Devices : \A x \in outbox'[c] :
           x \in outbox[c] \/ (c = d /\ x = Parked(op) /\ e \notin outbox'[d])
      /\ \A c \in Devices : \A x \in outbox[c] : x # e => x \in outbox'[c]
  BY <1>2, <1>7 DEF Parked
<1>10. \A i \in OpIds : Known(i)' <=> Known(i)
  <2>1. \A i \in OpIds : i # op.id => Queued(i)' = Queued(i)
    BY <1>4, <1>8, <1>9 DEF Queued
  <2>2. Known(op.id)
    BY <1>4 DEF Known, Queued
  <2>3. Known(op.id)'
    <3>1. CASE outbox' = outbox
      BY <1>1, <2>2, <3>1 DEF Known, Queued
    <3>2. CASE outbox' = [outbox EXCEPT ![d] = (outbox[d] \ {e}) \cup {Parked(op)}]
      <4>1. Parked(op) \in outbox'[d]
        BY <1>2, <3>2
      <4>2. QED
        BY <1>8, <4>1 DEF Known, Queued
    <3>3. CASE db.times[op.id] = 1
      BY <1>1, <3>3 DEF Known
    <3>4. QED
      BY <1>7, <3>1, <3>2, <3>3
  <2>4. QED
    BY <1>1, <2>1, <2>2, <2>3 DEF Known
<1>11. IdsNew'
  BY <1>1, <1>10, OpsInSight DEF OutboxInv, IdsNew
<1>12. OneEntry'
  <2>1. \A c \in Devices : \A x \in outbox[c] : x.op.id = op.id => c = d /\ x = e
    BY <1>1, <1>4 DEF OutboxInv, OneEntry
  <2>2. op.id \notin discarded
    BY <1>1, <1>4 DEF OutboxInv, OneEntry
  <2>3. ASSUME NEW b \in Devices, NEW c \in Devices, NEW x \in outbox'[b], NEW y \in outbox'[c],
               x.op.id = y.op.id
        PROVE  b = c /\ x = y
    <3>1. CASE x \in outbox[b] /\ y \in outbox[c]
      BY <1>1, <2>3, <3>1 DEF OutboxInv, OneEntry
    <3>2. CASE x \notin outbox[b]
      <4>1. b = d /\ x = Parked(op) /\ e \notin outbox'[d] /\ y.op.id = op.id
        BY <1>8, <1>9, <2>3, <3>2
      <4>2. QED
        BY <1>9, <2>1, <4>1
    <3>3. CASE y \notin outbox[c]
      <4>1. c = d /\ y = Parked(op) /\ e \notin outbox'[d] /\ x.op.id = op.id
        BY <1>8, <1>9, <2>3, <3>3
      <4>2. QED
        BY <1>9, <2>1, <4>1
    <3>4. QED
      BY <3>1, <3>2, <3>3
  <2>4. \A c \in Devices : \A x \in outbox'[c] : x.op.id \notin discarded'
    BY <1>1, <1>8, <1>9, <2>2 DEF OutboxInv, OneEntry
  <2>5. QED
    BY <2>3, <2>4 DEF OneEntry
<1>13. BatchWaits'
  <2>1. \A c \in Devices : \A other \in pass'[c].batch :
          other \in pass[c].batch /\ (c = d => other # op)
    BY <1>1, <1>2 DEF Pass
  <2>2. \A c \in Devices : \A other \in pass'[c].batch :
          [op |-> other, parked |-> FALSE] \in outbox[c] /\ [op |-> other, parked |-> FALSE] # e
    <3>1. ASSUME NEW c \in Devices, c # d, NEW other \in pass[c].batch
          PROVE  [op |-> other, parked |-> FALSE] # e
      BY <1>1, <1>4, <3>1 DEF OutboxInv, OneEntry, BatchWaits
    <3>2. QED
      BY <1>1, <2>1, <3>1 DEF OutboxInv, BatchWaits
  <2>3. QED
    BY <1>9, <2>2 DEF BatchWaits
<1>14. AnswersTrue'
  <2>1. \A c \in Devices : pass'[c].results = pass[c].results
    BY <1>1, <1>2 DEF Pass
  <2>2. QED
    BY <1>1, <2>1 DEF OutboxInv, AnswersTrue
<1>15. SentKnown' /\ TxnFollows'
  BY <1>1, <1>10, OpsInSight DEF OutboxInv, SentKnown, TxnFollows
<1>16. QED
  BY <1>1, <1>4, <1>7, <1>11, <1>12, <1>13, <1>14, <1>15 DEF OutboxRest

\* A step of a pass that leaves the outboxes, the calls, the file and its transaction
\* alone, of one device: what it now holds of a batch waits, and its answers are true.
LEMMA TurnKeeps ==
  ASSUME SInv, UNCHANGED <<outbox, discarded, half, nextId, db, txn>>,
         NEW d \in Devices, NEW turn \in Pass, pass' \in {pass, [pass EXCEPT ![d] = turn]},
         \A op \in turn.batch : op \in pass[d].batch \/ op \in NextBatch(d),
         \A i \in OpIds : SaysDone(turn.results[i]) => db.times[i] = 1,
         \A w \in wire' : (\E u \in wire : w.ops = u.ops) \/ w.ops = NextBatch(d)
  PROVE  OutboxRest'
<1>1. OutboxInv /\ pass \in [Devices -> Pass] /\ outbox \in [Devices -> SUBSET Entry]
  BY DEF SInv, OutboxInv, DevicesTyped
<1>2. \A i \in OpIds : Known(i)' <=> Known(i)
  BY KnownStays
<1>3. \A op \in NextBatch(d) : [op |-> op, parked |-> FALSE] \in outbox[d] /\ op.id \in OpIds
  <2>1. ASSUME NEW op \in NextBatch(d)
        PROVE  [op |-> op, parked |-> FALSE] \in outbox[d] /\ op.id \in OpIds
    <3>1. PICK e \in outbox[d] : ~ e.parked /\ op = e.op
      BY DEF NextBatch, Pending
    <3>2. e \in Entry /\ e.op.id \in OpIds
      BY OpsInSight
    <3>3. e = [op |-> op, parked |-> FALSE]
      BY <3>1, <3>2 DEF Entry
    <3>4. QED
      BY <3>1, <3>2, <3>3
  <2>2. QED
    BY <2>1
<1>4. ASSUME NEW op \in NextBatch(d) PROVE Known(op.id)
  <2>1. \E e \in outbox[d] : e.op.id = op.id
    BY <1>3
  <2>2. QED
    BY <2>1 DEF Known, Queued
<1>5. IdsNew' /\ OneEntry'
  BY <1>1, <1>2, OpsInSight DEF OutboxInv, IdsNew, OneEntry
<1>6. BatchWaits' /\ AnswersTrue'
  BY <1>1, <1>3 DEF OutboxInv, BatchWaits, AnswersTrue
<1>7. SentKnown'
  BY <1>1, <1>2, <1>3, <1>4, OpsInSight DEF OutboxInv, SentKnown
<1>8. TxnFollows'
  BY <1>1, <1>2, OpsInSight DEF OutboxInv, TxnFollows
<1>9. QED
  BY <1>5, <1>6, <1>7, <1>8 DEF OutboxRest

\* A pass that has nothing to do says nothing.
LEMMA IdleFacts ==
  /\ Idle \in Pass /\ Idle.batch = {}
  /\ \A i \in OpIds : ~ SaysDone(Idle.results[i])
BY DEF Idle, Pass, Phase, NoResults, Results, Status, SaysDone

\* The steps of a pass but for the handling of a result.
LEMMA PassKeeps ==
  ASSUME SInv, NEW d \in Devices, Engine(d), ~ HandleResult(d)
  PROVE  OutboxRest'
<1>1. OutboxInv /\ DevicesTyped /\ pass \in [Devices -> Pass] /\ pass[d] \in Pass
  BY DEF SInv, OutboxInv, DevicesTyped
<1>2. \A i \in OpIds : SaysDone(pass[d].results[i]) => db.times[i] = 1
  BY <1>1 DEF OutboxInv, AnswersTrue
<1>3. CASE StartDrain(d)
  <2> DEFINE turn == [Idle EXCEPT !.phase = "sent", !.batch = NextBatch(d)]
  <2>1. NextBatch(d) \in SUBSET Op
    BY <1>1, BatchType
  <2>2. turn \in Pass /\ turn.batch = NextBatch(d) /\ turn.results = Idle.results
    BY <2>1, IdleFacts DEF Pass, Phase
  <2>3. \A w \in wire' : w \in wire \/ w.ops = NextBatch(d)
    BY <1>3 DEF StartDrain
  <2>4. /\ UNCHANGED <<outbox, discarded, half, nextId, db, txn>>
        /\ pass' = [pass EXCEPT ![d] = turn]
    BY <1>3 DEF StartDrain, serverVars
  <2> HIDE DEF turn
  <2>5. QED
    BY <2>2, <2>3, <2>4, IdleFacts, TurnKeeps
<1>4. CASE EndRefused(d)
  <2>1. /\ UNCHANGED <<outbox, discarded, half, nextId, db, txn, wire>>
        /\ pass' = [pass EXCEPT ![d] = Idle]
    BY <1>4 DEF EndRefused, serverVars
  <2>2. QED
    BY <2>1, IdleFacts, TurnKeeps
<1>5. CASE PullNext(d)
  <2> DEFINE turn == [Idle EXCEPT !.phase = "pull"]
  <2>1. turn \in Pass /\ turn.batch = {} /\ turn.results = Idle.results
    BY IdleFacts DEF Pass, Phase
  <2>2. /\ UNCHANGED <<outbox, discarded, half, nextId, db, txn, wire>>
        /\ pass' = [pass EXCEPT ![d] = turn]
    BY <1>5 DEF PullNext, StartPull
  <2> HIDE DEF turn
  <2>3. QED
    BY <2>1, <2>2, IdleFacts, TurnKeeps
<1>6. CASE StoreTable(d)
  <2> DEFINE turn == [pass[d] EXCEPT !.table = pass[d].table + 1]
  <2>1. turn \in Pass /\ turn.batch = pass[d].batch /\ turn.results = pass[d].results
    BY <1>1 DEF Pass
  <2>2. /\ UNCHANGED <<outbox, discarded, half, nextId, db, txn, wire>>
        /\ pass' = [pass EXCEPT ![d] = turn]
    BY <1>1, <1>6 DEF StoreTable, serverVars
  <2> HIDE DEF turn
  <2>3. QED
    BY <1>2, <2>1, <2>2, TurnKeeps
<1>7. CASE SetWatermark(d)
  <2> DEFINE turn == [pass[d] EXCEPT !.table = 1]
  <2>1. turn \in Pass /\ turn.batch = pass[d].batch /\ turn.results = pass[d].results
    <3>1. pass[d] \in Pass
      BY <1>1
    <3>2. QED
      BY <3>1 DEF Pass
  <2>2. UNCHANGED <<outbox, discarded, half, nextId, db, txn, wire>>
    BY <1>1, <1>7 DEF SetWatermark
  <2>3. pass' = [pass EXCEPT ![d] = turn] \/ pass' = [pass EXCEPT ![d] = Idle]
    BY <1>1, <1>7 DEF SetWatermark
  <2> HIDE DEF turn
  <2>4. CASE pass' = [pass EXCEPT ![d] = turn]
    <3>1. \A i \in OpIds : SaysDone(turn.results[i]) => db.times[i] = 1
      BY <1>2, <2>1
    <3>2. turn \in Pass /\ \A op \in turn.batch : op \in pass[d].batch
      BY <2>1
    <3>3. QED
      BY <2>2, <2>4, <3>1, <3>2, TurnKeeps
  <2>5. CASE pass' = [pass EXCEPT ![d] = Idle]
    BY <2>2, <2>5, IdleFacts, TurnKeeps
  <2>6. QED
    BY <2>3, <2>4, <2>5
<1>8. CASE AnswerPull(d)
  <2>1. UNCHANGED <<outbox, discarded, half, nextId, db, txn, wire, pass>>
    BY <1>8 DEF AnswerPull, ReadTable, ReadCounter, deviceVars
  <2>2. QED
    BY <1>1, <1>2, <2>1, TurnKeeps
<1>9. QED
  BY <1>3, <1>4, <1>5, <1>6, <1>7, <1>8 DEF Engine

\* The faults of a pass: whatever it was doing is forgotten, or refused as a whole.
LEMMA BrokenKeeps ==
  ASSUME SInv, NEW d \in Devices, Abandon(d) \/ RefusePush(d)
  PROVE  OutboxRest'
<1>1. OutboxInv /\ DevicesTyped /\ pass \in [Devices -> Pass] /\ pass[d] \in Pass
  BY DEF SInv, OutboxInv, DevicesTyped
<1>2. UNCHANGED <<outbox, discarded, half, nextId, db, txn>>
  <2>1. CASE Abandon(d)
    <3>1. UNCHANGED <<db, txn, clock, local, outbox, half, watermark, nextId, discarded>>
      BY <2>1 DEF Abandon
    <3>2. QED
      BY <3>1, <2>1 DEF Abandon
  <2>2. CASE RefusePush(d)
    <3>1. UNCHANGED <<serverVars, local, outbox, half, watermark, nextId, discarded>>
      BY <2>2 DEF RefusePush
    <3>2. QED
      BY <3>1, <2>2 DEF RefusePush, serverVars
  <2>3. QED
    BY <2>1, <2>2
<1>3. ASSUME NEW w \in wire' PROVE \E u \in wire : w.ops = u.ops
  <2>1. CASE wire' = wire
    BY <2>1
  <2>2. CASE \E u \in wire : wire' \in {wire \ {u}, (wire \ {u}) \cup {[u EXCEPT !.live = FALSE]}}
    BY <1>1, <2>2, WireType
  <2>3. QED
    <3>1. CASE Abandon(d)
      BY <2>1, <2>2, <3>1 DEF Abandon
    <3>2. CASE RefusePush(d)
      BY <2>1, <2>2, <3>2 DEF RefusePush
    <3>3. QED
      BY <3>1, <3>2
<1>4. CASE Abandon(d)
  <2>1. pass' = [pass EXCEPT ![d] = Idle]
    BY <1>4 DEF Abandon
  <2>2. QED
    BY <1>2, <1>3, <2>1, IdleFacts, TurnKeeps
<1>5. CASE RefusePush(d)
  <2> DEFINE turn == [pass[d] EXCEPT !.phase = "refused",
                                     !.results = [i \in OpIds |-> "rejected"]]
  <2>1. /\ turn \in Pass /\ turn.batch = pass[d].batch
        /\ \A i \in OpIds : ~ SaysDone(turn.results[i])
    BY <1>1 DEF Pass, Phase, Results, Status, SaysDone
  <2>2. pass' = [pass EXCEPT ![d] = turn]
    BY <1>1, <1>5 DEF RefusePush
  <2> HIDE DEF turn
  <2>3. QED
    BY <1>2, <1>3, <2>1, <2>2, TurnKeeps
<1>6. QED
  BY <1>4, <1>5

\* The server's steps that leave the file alone and open a transaction, or none.
LEMMA BeginFollows ==
  ASSUME SInv, TakePush \/ LoseTxn
  PROVE  OutboxRest'
<1>1. OutboxInv /\ DevicesTyped /\ pass \in [Devices -> Pass]
  BY DEF SInv, OutboxInv, DevicesTyped
<1>2. UNCHANGED <<outbox, discarded, half, nextId, db>>
  BY DEF TakePush, LoseTxn, Begin, Rollback, deviceVars
<1>3. \A i \in OpIds : Known(i)' <=> Known(i)
  BY <1>2, KnownStays
<1>4. IdsNew' /\ OneEntry'
  BY <1>1, <1>2, <1>3, OpsInSight DEF OutboxInv, IdsNew, OneEntry
<1>5. pass' = pass \/ \E d \in Devices : pass' = [pass EXCEPT ![d] = Idle]
  <2>1. CASE TakePush
    BY <2>1 DEF TakePush, deviceVars
  <2>2. CASE LoseTxn
    BY <1>1, <2>2 DEF LoseTxn, DevicesTyped, Sent
  <2>3. QED
    BY <2>1, <2>2
<1>6. BatchWaits' /\ AnswersTrue'
  BY <1>1, <1>2, <1>5, IdleFacts DEF OutboxInv, BatchWaits, AnswersTrue
<1>7. \A w \in wire' : w \in wire
  BY DEF TakePush, LoseTxn, deviceVars
<1>8. SentKnown'
  BY <1>1, <1>3, <1>7, OpsInSight DEF OutboxInv, SentKnown
<1>9. TxnFollows'
  <2>1. CASE LoseTxn
    BY <1>1, <1>2, <2>1 DEF LoseTxn, Rollback, OutboxInv, TxnFollows
  <2>2. CASE TakePush
    <3>1. PICK w \in wire : Begin([dev |-> w.dev, ops |-> w.ops])
      BY <2>2 DEF TakePush
    <3>2. /\ txn'.work = [db EXCEPT !.counter = @ + Reserved(w.ops)]
          /\ txn'.todo = w.ops /\ txn'.req.ops = w.ops /\ txn'.results = NoResults
      BY <3>1 DEF Begin
    <3>3. db \in DB
      BY DEF SInv, IInv, ServerTypeOK
    <3>4. txn'.work.times = db.times /\ txn'.work.expired = db.expired
      BY <3>2, <3>3 DEF DB
    <3>5. \A op \in w.ops : Known(op.id)'
      BY <1>1, <1>3, <3>1, OpsInSight DEF OutboxInv, SentKnown
    <3>6. \A i \in OpIds : ~ SaysDone(NoResults[i])
      BY DEF NoResults, SaysDone
    <3>7. QED
      BY <1>1, <1>2, <3>2, <3>4, <3>5, <3>6 DEF OutboxInv, TxnFollows
  <2>3. QED
    BY <2>1, <2>2
<1>10. QED
  BY <1>4, <1>6, <1>8, <1>9 DEF OutboxRest

\* One operation of a transaction: only what is answered "applied" has an effect.
LEMMA OneFollows ==
  ASSUME SInv, ServeOne \/ RejectOne
  PROVE  OutboxRest'
<1>1. OutboxInv /\ DevicesTyped /\ IInv
  BY DEF SInv, OutboxInv
<1>2. UNCHANGED <<outbox, discarded, half, nextId, db, pass, wire>>
  <2>1. CASE ServeOne
    BY <2>1 DEF ServeOne, ApplyOne, AnswerDuplicate, Done, deviceVars
  <2>2. CASE RejectOne
    BY <2>2 DEF RejectOne, RefuseOne, FailOne, Done
  <2>3. QED
    BY <2>1, <2>2
<1>3. \A i \in OpIds : Known(i)' <=> Known(i)
  BY <1>2, KnownStays
<1>4. (IdsNew /\ OneEntry /\ BatchWaits /\ AnswersTrue /\ SentKnown)'
  BY <1>1, <1>2, <1>3, OpsInSight
     DEF OutboxInv, IdsNew, OneEntry, BatchWaits, AnswersTrue, SentKnown
<1>5. TxnFollows'
  <2>1. Applying
    BY DEF ServeOne, RejectOne, ApplyOne, AnswerDuplicate, RefuseOne, FailOne
  <2>2. PICK op : op = Current
    OBVIOUS
  <2>3. txn \in Txn /\ op \in txn.todo /\ op \in Op /\ op.id \in OpIds /\ txn # None
    BY <1>1, <2>1, <2>2, NextNumber DEF Op, Applying
  <2>4. /\ txn.work \in DB /\ txn.work.expired = {}
        /\ txn.todo \subseteq txn.req.ops
        /\ \A i \in OpIds : txn.work.times[i] = IF i \in txn.work.applied THEN 1 ELSE 0
    BY <1>1, <2>3 DEF OutboxInv, TxnFollows, IInv, TxnOK, FileOK
  <2>5. PICK status, work :
          /\ status \in Status
          /\ txn' = [txn EXCEPT !.todo = txn.todo \ {op}, !.seq = txn.seq + 1,
                                !.work = work, !.results[op.id] = status]
          /\ work.expired = {}
          /\ \/ work.times = txn.work.times /\ (SaysDone(status) => txn.work.times[op.id] = 1)
             \/ /\ txn.work.times[op.id] = 0
                /\ work.times = [txn.work.times EXCEPT ![op.id] = 1]
    <3>1. CASE ApplyOne
      <4>1. Prepared.times = txn.work.times /\ Prepared.expired = txn.work.expired
        BY <1>1, <2>1, PreparedIsStep
      <4>2. Prepared \in DB /\ Effect \in DB
        BY <1>1, <2>1, <3>1, PreparedIsStep, EffectIsStep DEF Step, FileOK, ApplyOne
      <4>3. /\ Effect.times = [Prepared.times EXCEPT ![op.id] = Prepared.times[op.id] + 1]
            /\ Effect.expired = Prepared.expired
        BY <2>2, <4>2 DEF Effect, DB
      <4>4. txn.work.times[op.id] = 0
        BY <2>2, <2>3, <2>4, <3>1 DEF ApplyOne
      <4>5. Effect.times = [txn.work.times EXCEPT ![op.id] = 1]
        BY <4>1, <4>3, <4>4
      <4>6. txn' = [txn EXCEPT !.todo = txn.todo \ {op}, !.seq = txn.seq + 1,
                               !.work = Effect, !.results[op.id] = "applied"]
        BY <2>2, <3>1 DEF ApplyOne, Done
      <4>7. "applied" \in Status
        BY DEF Status
      <4>8. Effect.expired = {}
        BY <2>4, <4>1, <4>3
      <4>9. QED
        BY <4>4, <4>5, <4>6, <4>7, <4>8
    <3>2. CASE AnswerDuplicate
      <4>1. txn' = [txn EXCEPT !.todo = txn.todo \ {op}, !.seq = txn.seq + 1,
                               !.work = txn.work, !.results[op.id] = "duplicate"]
        BY <2>2, <3>2 DEF AnswerDuplicate, Done
      <4>2. txn.work.times[op.id] = 1 /\ "duplicate" \in Status
        BY <2>2, <2>3, <2>4, <3>2 DEF AnswerDuplicate, Status
      <4>3. QED
        BY <2>4, <4>1, <4>2
    <3>3. CASE RefuseOne
      <4>1. txn' = [txn EXCEPT !.todo = txn.todo \ {op}, !.seq = txn.seq + 1,
                               !.work = txn.work, !.results[op.id] = "rejected"]
        BY <2>2, <3>3 DEF RefuseOne, Done
      <4>2. "rejected" \in Status /\ ~ SaysDone("rejected")
        BY DEF Status, SaysDone
      <4>3. QED
        BY <2>4, <4>1, <4>2
    <3>4. CASE FailOne
      <4>1. txn' = [txn EXCEPT !.todo = txn.todo \ {op}, !.seq = txn.seq + 1,
                               !.work = Prepared, !.results[op.id] = "rejected"]
        BY <2>2, <3>4 DEF FailOne, Done
      <4>2. "rejected" \in Status /\ ~ SaysDone("rejected")
        BY DEF Status, SaysDone
      <4>3. Prepared.times = txn.work.times /\ Prepared.expired = txn.work.expired
        BY <1>1, <2>1, PreparedIsStep
      <4>4. QED
        BY <2>4, <4>1, <4>2, <4>3
    <3>5. QED
      BY <3>1, <3>2, <3>3, <3>4 DEF ServeOne, RejectOne
  <2>6. /\ txn'.todo = txn.todo \ {op} /\ txn'.req = txn.req /\ txn'.work = work
        /\ \A i \in OpIds : txn'.results[i] = IF i = op.id THEN status ELSE txn.results[i]
    BY <2>3, <2>5 DEF Txn, Results
  <2>7. \A i \in OpIds :
          work.times[i] = IF txn.work.times[op.id] = 0 /\ i = op.id
                             /\ work.times # txn.work.times
                          THEN 1 ELSE txn.work.times[i]
    BY <2>3, <2>4, <2>5 DEF DB
  <2>8. SaysDone(status) => work.times[op.id] = 1
    BY <2>3, <2>4, <2>5 DEF DB
  <2>9. ASSUME NEW i \in OpIds
        PROVE  /\ SaysDone(txn'.results[i]) => work.times[i] = 1
               /\ \/ work.times[i] = db.times[i]
                  \/ /\ db.times[i] = 0 /\ work.times[i] = 1
                     /\ \E o \in txn.req.ops : o.id = i
    <3>1. /\ SaysDone(txn.results[i]) => txn.work.times[i] = 1
          /\ \/ txn.work.times[i] = db.times[i]
             \/ /\ db.times[i] = 0 /\ txn.work.times[i] = 1
                /\ \E o \in txn.req.ops : o.id = i
      BY <1>1, <2>3 DEF OutboxInv, TxnFollows
    <3>2. CASE i = op.id
      <4>1. \E o \in txn.req.ops : o.id = i
        BY <2>3, <2>4, <3>2
      <4>2. txn.work.times[i] \in {0, 1}
        BY <2>4
      <4>3. SaysDone(txn'.results[i]) => work.times[i] = 1
        BY <2>6, <2>8, <3>2
      <4>4. work.times[i] = txn.work.times[i] \/ (txn.work.times[i] = 0 /\ work.times[i] = 1)
        BY <2>7, <3>2
      <4>5. QED
        BY <3>1, <4>1, <4>2, <4>3, <4>4
    <3>3. CASE i # op.id
      BY <2>6, <2>7, <3>1, <3>3
    <3>4. QED
      BY <3>2, <3>3
  <2>10. \A o \in txn.req.ops : Known(o.id)'
    BY <1>1, <1>3, <2>3, OpsInSight DEF OutboxInv, TxnFollows
  <2>11. db'.expired = {} /\ db' = db
    BY <1>1, <1>2 DEF OutboxInv, TxnFollows
  <2>12. QED
    BY <2>4, <2>5, <2>6, <2>9, <2>10, <2>11 DEF TxnFollows
<1>6. QED
  BY <1>4, <1>5 DEF OutboxRest

\* What a commit does to the counts: what it applied was known, and had no effect yet.
LEMMA CommitCounts ==
  ASSUME SInv, AnswerPush
  PROVE  /\ txn # None /\ db' = txn.work /\ txn' = None
         /\ \A i \in OpIds :
              \/ db'.times[i] = db.times[i]
              \/ db.times[i] = 0 /\ db'.times[i] = 1 /\ Known(i)
         /\ \A i \in OpIds : Known(i)' <=> Known(i)
<1>1. OutboxInv
  BY DEF SInv
<1>2. /\ txn # None /\ db' = txn.work /\ txn' = None
      /\ UNCHANGED <<outbox, discarded>>
  BY DEF AnswerPush, Commit
<1>3. ASSUME NEW i \in OpIds
      PROVE  \/ db'.times[i] = db.times[i]
             \/ db.times[i] = 0 /\ db'.times[i] = 1 /\ Known(i)
  BY <1>1, <1>2 DEF OutboxInv, TxnFollows
<1>4. ASSUME NEW i \in OpIds PROVE Known(i)' <=> Known(i)
  <2>1. Queued(i)' = Queued(i)
    BY <1>2 DEF Queued
  <2>2. QED
    BY <1>2, <1>3, <2>1 DEF Known
<1>5. QED
  BY <1>2, <1>3, <1>4

\* The commit, and its answer to whoever waits for it.
LEMMA CommitFollows ==
  ASSUME SInv, AnswerPush
  PROVE  OutboxRest'
<1>1. OutboxInv /\ DevicesTyped /\ pass \in [Devices -> Pass]
  BY DEF SInv, OutboxInv, DevicesTyped
<1>2. UNCHANGED <<outbox, discarded, half, nextId>>
  BY DEF AnswerPush
<1>3. \A i \in OpIds : Known(i)' <=> Known(i)
  BY CommitCounts
<1>4. IdsNew' /\ OneEntry'
  BY <1>1, <1>2, <1>3, OpsInSight DEF OutboxInv, IdsNew, OneEntry
<1>5. PICK w \in wire :
        /\ wire' = wire \ {w}
        /\ pass' = IF w.live
                   THEN [pass EXCEPT ![w.dev].phase = "handle",
                                     ![w.dev].results = txn.results]
                   ELSE pass
  BY DEF AnswerPush
<1>6. w.dev \in Devices
  BY <1>1 DEF DevicesTyped, Sent
<1>7. \A c \in Devices : /\ pass'[c].batch = pass[c].batch
                         /\ pass'[c].results \in {pass[c].results, txn.results}
  BY <1>1, <1>5, <1>6 DEF Pass
<1>8. \A i \in OpIds : SaysDone(txn.results[i]) => db'.times[i] = 1
  BY <1>1, CommitCounts DEF OutboxInv, TxnFollows
<1>9. \A i \in OpIds : db.times[i] = 1 => db'.times[i] = 1
  BY CommitCounts
<1>10. BatchWaits' /\ AnswersTrue'
  BY <1>1, <1>2, <1>7, <1>8, <1>9 DEF OutboxInv, BatchWaits, AnswersTrue
<1>11. SentKnown'
  BY <1>1, <1>3, <1>5, OpsInSight DEF OutboxInv, SentKnown
<1>12. TxnFollows'
  BY <1>1, CommitCounts DEF OutboxInv, TxnFollows
<1>13. QED
  BY <1>4, <1>10, <1>11, <1>12 DEF OutboxRest

\* The invariant of the outboxes starts to hold.
LEMMA InitOutbox == Init => OutboxInv
<1> SUFFICES ASSUME Init PROVE OutboxInv
  OBVIOUS
<1>1. DevicesTyped
  BY InitTyped
<1>2. /\ outbox = [d \in Devices |-> {}] /\ half = [d \in Devices |-> None]
      /\ pass = [d \in Devices |-> Idle] /\ wire = {} /\ discarded = {} /\ txn = None
      /\ db.times = [i \in OpIds |-> 0] /\ db.expired = {}
  BY DEF Init, ServerInit, Fresh
<1>3. \A i \in OpIds : ~ Known(i)
  BY <1>2 DEF Known, Queued
<1>4. IdsNew /\ OneEntry /\ BatchWaits /\ SentKnown /\ TxnFollows
  BY <1>2, <1>3, IdleFacts DEF IdsNew, OneEntry, BatchWaits, SentKnown, TxnFollows
<1>5. AnswersTrue
  BY <1>2, IdleFacts DEF AnswersTrue
<1>6. QED
  BY <1>1, <1>4, <1>5 DEF OutboxInv

\* Every step keeps it.
LEMMA OutboxKept ==
  ASSUME SInv, [Next]_vars
  PROVE  OutboxInv'
<1>1. CASE \E d \in Writers : StartRecord(d)
  <2>1. OutboxRest'
    BY <1>1, CallKeeps
  <2>2. QED
    BY <1>1, <2>1, StartRecordTyped DEF OutboxRest, OutboxInv
<1>2. ASSUME NEW d \in Devices, Panel(d) \/ Record(d) PROVE OutboxInv'
  <2>1. OutboxRest'
    BY <1>2, CallKeeps, PanelKeeps, PutOpKeeps DEF Record
  <2>2. QED
    BY <1>2, <2>1, RecordTyped DEF OutboxRest, OutboxInv
<1>3. ASSUME NEW d \in Devices, Engine(d) PROVE OutboxInv'
  <2>1. OutboxRest'
    BY <1>3, PassKeeps, HandleKeeps
  <2>2. QED
    BY <1>3, <2>1, EngineTyped DEF OutboxRest, OutboxInv
<1>4. CASE Server
  <2>1. OutboxRest'
    BY <1>4, BeginFollows, OneFollows, CommitFollows DEF Server
  <2>2. QED
    BY <1>4, <2>1, ServerTyped DEF OutboxRest, OutboxInv
<1>5. CASE Faults
  <2>1. OutboxRest'
    BY <1>5, CallKeeps, BrokenKeeps, BeginFollows, OneFollows DEF Faults
  <2>2. QED
    BY <1>5, <2>1, FaultsTyped DEF OutboxRest, OutboxInv
<1>6. CASE UNCHANGED vars
  <2>1. /\ UNCHANGED <<local, outbox, half, pass, watermark, wire, nextId, faults, discarded>>
        /\ UNCHANGED <<db, txn>>
    BY <1>6 DEF vars, serverVars, deviceVars
  <2>2. OutboxInv
    BY DEF SInv
  <2>3. \A i \in OpIds : Known(i)' <=> Known(i)
    BY <2>1, KnownStays
  <2>4. DevicesTyped' /\ (OneEntry /\ BatchWaits /\ AnswersTrue)'
    BY <2>1, <2>2 DEF OutboxInv, DevicesTyped, OneEntry, BatchWaits, AnswersTrue
  <2>5. (IdsNew /\ SentKnown /\ TxnFollows)'
    BY <2>1, <2>2, <2>3, OpsInSight DEF OutboxInv, IdsNew, SentKnown, TxnFollows
  <2>6. QED
    BY <2>4, <2>5 DEF OutboxInv
<1>7. QED
  BY <1>1, <1>2, <1>3, <1>4, <1>5, <1>6 DEF Next

-----------------------------------------------------------------------------
(* No device is ahead of the server, or of the page it is storing.  *)

\* The numbers that are compared are numbers.
LEMMA SeqTypes ==
  ASSUME SInv
  PROVE  \A d \in Devices, r \in Records :
           /\ local[d][r] \in Row /\ local[d][r].seq \in Nat
           /\ db.rows[r] \in Row /\ db.rows[r].seq \in Nat
           /\ half[d] # None => half[d].op \in Op /\ half[d].op.saw.seq \in Nat
           /\ pull[d] # None => pull[d] \in Pull /\ pull[d].rows[r].seq \in Nat
<1> SUFFICES ASSUME NEW d \in Devices, NEW r \in Records
             PROVE  /\ local[d][r] \in Row /\ local[d][r].seq \in Nat
                    /\ db.rows[r] \in Row /\ db.rows[r].seq \in Nat
                    /\ half[d] # None => half[d].op \in Op /\ half[d].op.saw.seq \in Nat
                    /\ pull[d] # None => pull[d] \in Pull /\ pull[d].rows[r].seq \in Nat
  OBVIOUS
<1>1. DevicesTyped /\ ServerTypeOK
  BY DEF SInv, OutboxInv, IInv
<1>2. \A row \in Row : row.seq \in Nat
  BY DEF Row
<1>3. local[d][r] \in Row
  BY <1>1 DEF DevicesTyped
<1>4. db.rows[r] \in Row
  BY <1>1 DEF ServerTypeOK, DB
<1>5. half[d] # None => half[d].op \in Op /\ half[d].op.saw \in Row
  BY <1>1 DEF DevicesTyped, Recording, Op
<1>6. pull[d] # None => pull[d] \in Pull /\ pull[d].rows[r] \in Row
  BY <1>1 DEF ServerTypeOK, Pull, Page
<1>7. QED
  BY <1>2, <1>3, <1>4, <1>5, <1>6

\* The server's number of a row only grows: nothing is purged while devices are away.
LEMMA RowsGrow ==
  ASSUME SInv, AnswerPush, NEW r \in Records
  PROVE  db'.rows[r].seq \in Nat /\ db.rows[r].seq <= db'.rows[r].seq
<1>1. IInv /\ IInv' /\ Ahead(db')
  BY CommitKeeps DEF SInv, AnswerPush
<1>2. /\ db.rows[r].seq \in Nat /\ db.counter \in Nat /\ db.rows[r].seq <= db.counter
      /\ db'.rows[r].seq \in Nat
  BY <1>1 DEF IInv, ServerTypeOK, DB, FileOK, Row
<1>3. db'.rows[r] = db.rows[r] \/ db'.rows[r].seq > db.counter
  BY <1>1 DEF Ahead
<1>4. QED
  BY <1>2, <1>3

\* What a device has of a row, what the person it asks sees of it, and what its pull
\* brings of it: the three seqs that are compared, with the server's.
BehindAt(d, r) ==
  /\ local[d][r].seq <= db.rows[r].seq
  /\ half[d] # None /\ half[d].op.rec = r => half[d].op.saw.seq <= db.rows[r].seq
  /\ pull[d] # None /\ r \in InPage(pull[d].rows) =>
       /\ local[d][r].seq <= pull[d].rows[r].seq
       /\ half[d] # None /\ half[d].op.rec = r =>
            half[d].op.saw.seq <= pull[d].rows[r].seq
       /\ pull[d].rows[r].seq <= db.rows[r].seq

LEMMA BehindEverywhere == Behind <=> \A d \in Devices, r \in Records : BehindAt(d, r)
BY DEF Behind, BehindAt

\* A device that starts has seen nothing the server has not.
LEMMA InitBehind == Init => Behind
<1> SUFFICES ASSUME Init PROVE Behind
  OBVIOUS
<1>1. \A r \in Records : SeedRows[r].seq \in Nat /\ NoRow.seq <= SeedRows[r].seq
  BY SeedAssumption DEF SeedRows, SeedRow, NoRow
<1>2. /\ db.rows = SeedRows
      /\ half = [d \in Devices |-> None] /\ pull = [d \in Devices |-> None]
      /\ \A d \in Devices, r \in Records : local[d][r] = NoRow \/ local[d][r] = SeedRows[r]
  BY DEF Init, ServerInit, Fresh
<1>3. QED
  BY <1>1, <1>2 DEF Behind

\* The steps of a call of `record`, and the ones that only end it.
LEMMA RecordBehind ==
  ASSUME SInv, NEW d \in Devices, StartRecord(d) \/ PutRow(d) \/ PutOp(d) \/ LoseRecord(d)
  PROVE  Behind'
<1>1. UNCHANGED <<db, pull>> /\ local \in [Devices -> [Records -> Row]]
      /\ half \in [Devices -> Recording \cup {None}]
  BY DEF StartRecord, PutRow, PutOp, LoseRecord, serverVars, SInv, OutboxInv, DevicesTyped
<1> SUFFICES ASSUME NEW c \in Devices, NEW r \in Records PROVE BehindAt(c, r)'
  BY DEF Behind, BehindAt
<1>2. BehindAt(c, r)
  BY BehindEverywhere DEF SInv
<1>3. CASE StartRecord(d)
  <2>1. \E edit \in Edits : \E call :
          /\ half' = [half EXCEPT ![d] = call]
          /\ call.op.rec = edit.rec /\ call.op.saw = local[d][edit.rec]
    <3> DEFINE call(edit) ==
          [stage |-> "read",
           now   |-> Tick,
           op    |-> [id |-> nextId, rec |-> edit.rec, kind |-> edit.kind,
                      set |-> edit.set,
                      base |-> IF local[d][edit.rec].state = "absent" THEN NoBase
                               ELSE local[d][edit.rec].at,
                      saw |-> local[d][edit.rec]]]
    <3>1. PICK edit \in Edits : half' = [half EXCEPT ![d] = call(edit)]
      BY <1>3 DEF StartRecord
    <3>2. call(edit).op.rec = edit.rec /\ call(edit).op.saw = local[d][edit.rec]
      OBVIOUS
    <3> HIDE DEF call
    <3>3. QED
      BY <3>1, <3>2
  <2>2. local' = local
    BY <1>3 DEF StartRecord
  <2>3. half'[c] = half[c] \/ (half'[c].op.rec = r => half'[c].op.saw = local[c][r])
    BY <1>1, <2>1
  <2>4. QED
    BY <1>1, <1>2, <2>2, <2>3 DEF BehindAt
<1>4. CASE PutRow(d)
  <2>1. /\ half[d] # None /\ half[d] \in Recording
        /\ local' = [local EXCEPT ![d] = [local[d] EXCEPT ![half[d].op.rec] =
                                            Shown(half[d].op, half[d].now)]]
        /\ half' = [half EXCEPT ![d] = [half[d] EXCEPT !.stage = "put"]]
    BY <1>1, <1>4 DEF PutRow
  <2>2. half[d].op \in Op /\ half[d].now \in Nat
    BY <2>1 DEF Recording
  <2>3. Shown(half[d].op, half[d].now).seq = half[d].op.saw.seq
    BY <2>2, ShownType
  <2>4. half'[c] # None => half[c] # None /\ half'[c].op = half[c].op
    BY <1>1, <2>1 DEF Recording
  <2>5. \/ local'[c][r] = local[c][r]
        \/ c = d /\ half[c].op.rec = r /\ local'[c][r].seq = half[c].op.saw.seq
    BY <1>1, <2>1, <2>3
  <2>6. QED
    BY <1>1, <1>2, <2>1, <2>4, <2>5 DEF BehindAt
<1>5. CASE PutOp(d) \/ LoseRecord(d)
  <2>1. local' = local /\ half' = [half EXCEPT ![d] = None]
    BY <1>5 DEF PutOp, LoseRecord
  <2>2. half'[c] # None => half[c] # None /\ half'[c] = half[c]
    BY <1>1, <2>1
  <2>3. QED
    BY <1>1, <1>2, <2>1, <2>2 DEF BehindAt
<1>6. QED
  BY <1>3, <1>4, <1>5

\* The steps of a pass.
LEMMA EngineBehind ==
  ASSUME SInv, NEW d \in Devices, Engine(d) \/ Abandon(d)
  PROVE  Behind'
<1>1. /\ UNCHANGED <<db, half>> /\ local \in [Devices -> [Records -> Row]]
      /\ pull \in [Devices -> Pull \cup {None}]
  <2>1. UNCHANGED <<db, half>>
    BY DEF Engine, Abandon, StartDrain, HandleResult, EndRefused, PullNext, StartPull,
           StoreTable, SetWatermark, AnswerPull, ReadTable, ReadCounter, serverVars, deviceVars
  <2>2. QED
    BY <2>1 DEF SInv, OutboxInv, DevicesTyped, IInv, ServerTypeOK
<1> SUFFICES ASSUME NEW c \in Devices, NEW r \in Records PROVE BehindAt(c, r)'
  BY DEF Behind, BehindAt
<1>2. BehindAt(c, r)
  BY BehindEverywhere DEF SInv
<1>3. CASE StartDrain(d) \/ HandleResult(d) \/ EndRefused(d)
  <2>1. UNCHANGED <<local, pull>>
    BY <1>3 DEF StartDrain, HandleResult, EndRefused, serverVars
  <2>2. QED
    BY <1>1, <1>2, <2>1 DEF BehindAt
<1>4. CASE PullNext(d) \/ SetWatermark(d) \/ Abandon(d)
  <2>1. PICK p : /\ local' = local /\ pull' = [pull EXCEPT ![d] = p]
                 /\ p # None => p.rows = NoPage
    BY <1>4 DEF PullNext, SetWatermark, Abandon, StartPull, NewPull
  <2>2. pull'[c] = pull[c] \/ (pull'[c] # None => pull'[c].rows = NoPage)
    BY <1>1, <2>1
  <2>3. r \notin InPage(NoPage)
    BY NoPageFacts
  <2>4. QED
    BY <1>1, <1>2, <2>1, <2>2, <2>3 DEF BehindAt
<1>5. CASE StoreTable(d)
  <2>1. /\ local' = [local EXCEPT ![d] = PutAll(d)] /\ pull' = pull
        /\ pull[d] # None
    BY <1>5 DEF StoreTable, Arrived, serverVars
  <2>2. \/ local'[c][r] = local[c][r]
        \/ /\ pull[c] # None /\ r \in InPage(pull[c].rows)
           /\ local'[c][r] = pull[c].rows[r]
    BY <1>1, <2>1 DEF PutAll
  <2>3. QED
    BY <1>1, <1>2, <2>1, <2>2, SeqTypes DEF BehindAt
<1>6. CASE AnswerPull(d)
  <2>1. PICK p : /\ local' = local /\ pull' = [pull EXCEPT ![d] = p]
                 /\ pull[d] # None
                 /\ \A q \in Records : p.rows[q] = pull[d].rows[q] \/ p.rows[q] = db.rows[q]
    <3>1. pull[d] # None /\ pull[d] \in Pull /\ local' = local
      BY <1>1, <1>6 DEF AnswerPull, ReadTable, ReadCounter, deviceVars
    <3>2. CASE ReadTable(d)
      <4>1. PICK page \in Pages(Newer(pull[d].table, pull[d].since)) :
              pull' = [pull EXCEPT ![d] =
                [pull[d] EXCEPT
                   !.table = pull[d].table + 1,
                   !.more  = pull[d].more \/ Cardinality(Newer(pull[d].table, pull[d].since)) > PageLimit,
                   !.rows  = [q \in Records |-> IF q \in page THEN db.rows[q]
                                                ELSE pull[d].rows[q]]]]
        BY <3>2 DEF ReadTable
      <4> DEFINE p == pull'[d]
      <4>2. pull' = [pull EXCEPT ![d] = p]
            /\ p.rows = [q \in Records |-> IF q \in page THEN db.rows[q] ELSE pull[d].rows[q]]
        BY <1>1, <3>1, <4>1 DEF Pull
      <4>3. QED
        BY <3>1, <4>2
    <3>3. CASE ReadCounter(d)
      <4> DEFINE p == [pull[d] EXCEPT !.seq = db.counter]
      <4>1. pull' = [pull EXCEPT ![d] = p] /\ p.rows = pull[d].rows
        BY <3>1, <3>3 DEF ReadCounter, Pull
      <4>2. QED
        BY <3>1, <4>1
    <3>4. QED
      BY <1>6, <3>2, <3>3 DEF AnswerPull
  <2>2. CASE c # d
    <3>1. pull'[c] = pull[c]
      BY <1>1, <2>1, <2>2
    <3>2. QED
      BY <1>1, <1>2, <2>1, <3>1 DEF BehindAt
  <2>3. CASE c = d
    <3>1. pull'[c] = p
      BY <1>1, <2>1, <2>3
    <3>2. CASE p.rows[r] = pull[c].rows[r]
      <4>1. r \in InPage(p.rows) => r \in InPage(pull[c].rows)
        BY <3>2 DEF InPage
      <4>2. QED
        BY <1>1, <1>2, <2>1, <2>3, <3>1, <3>2, <4>1 DEF BehindAt
    <3>3. CASE p.rows[r] = db.rows[r]
      BY <1>1, <1>2, <2>1, <3>1, <3>3, SeqTypes DEF BehindAt
    <3>4. QED
      BY <2>1, <2>3, <3>2, <3>3
  <2>4. QED
    BY <2>2, <2>3
<1>7. QED
  BY <1>3, <1>4, <1>5, <1>6 DEF Engine

\* Every step keeps every device behind the server.
LEMMA BehindKept ==
  ASSUME SInv, [Next]_vars
  PROVE  Behind'
<1>1. Behind
  BY DEF SInv
<1>2. CASE UNCHANGED <<db, pull, local, half>>
  BY <1>1, <1>2 DEF Behind
<1>3. CASE \E d \in Writers : StartRecord(d)
  BY <1>3, RecordBehind, WritersAssumption
<1>4. ASSUME NEW d \in Devices, Panel(d) \/ Record(d) PROVE Behind'
  <2>1. CASE Panel(d)
    BY <1>2, <2>1 DEF Panel, Retry, Discard, serverVars
  <2>2. CASE Record(d)
    BY <2>2, RecordBehind DEF Record
  <2>3. QED
    BY <1>4, <2>1, <2>2
<1>5. CASE Server
  <2>1. CASE TakePush \/ ServeOne
    BY <1>2, <2>1 DEF TakePush, Begin, ServeOne, ApplyOne, AnswerDuplicate, Done, deviceVars
  <2>2. CASE AnswerPush
    <3>1. UNCHANGED <<pull, local, half>>
      BY <2>2 DEF AnswerPush, Commit
    <3>2. ASSUME NEW d \in Devices, NEW r \in Records PROVE BehindAt(d, r)'
      <4>1. BehindAt(d, r)
        BY <1>1, BehindEverywhere
      <4>2. db'.rows[r].seq \in Nat /\ db.rows[r].seq <= db'.rows[r].seq
        BY <2>2, RowsGrow
      <4>3. QED
        BY <3>1, <4>1, <4>2, SeqTypes DEF BehindAt
    <3>3. QED
      BY <3>2 DEF Behind, BehindAt
  <2>3. QED
    BY <1>5, <2>1, <2>2 DEF Server
<1>6. CASE Faults
  <2>1. CASE \E d \in Devices : Abandon(d) \/ LoseRecord(d)
    BY <2>1, EngineBehind, RecordBehind
  <2>2. CASE \E d \in Devices : RefusePush(d)
    <3>1. PICK d \in Devices : RefusePush(d)
      BY <2>2
    <3>2. UNCHANGED <<serverVars, local, outbox, half, watermark, nextId, discarded>>
      BY <3>1 DEF RefusePush
    <3>3. QED
      BY <1>2, <3>2 DEF serverVars
  <2>3. CASE RejectOne \/ LoseTxn
    BY <1>2, <2>3 DEF RejectOne, RefuseOne, FailOne, Done, LoseTxn, Rollback
  <2>4. QED
    BY <1>6, <2>1, <2>2, <2>3 DEF Faults
<1>7. CASE UNCHANGED vars
  BY <1>2, <1>7 DEF vars, serverVars, deviceVars
<1>8. QED
  BY <1>3, <1>4, <1>5, <1>6, <1>7, EngineBehind DEF Next

-----------------------------------------------------------------------------
(* Every step is a step of a change's life, or none.  *)

\* The invariant of the whole.
THEOREM EngineInvariant == Spec => []SInv
<1>1. Init => SInv
  BY InitServer, InitOutbox, InitBehind DEF SInv
<1>2. SInv /\ [Next]_vars => SInv'
  BY ServerKeeps, OutboxKept, BehindKept DEF SInv, OutboxInv
<1>3. QED
  BY <1>1, <1>2, PTL DEF Spec

\* How far a change has come, told by its entry or by what is left of it.
FatesTold ==
  \A i \in OpIds :
    /\ \A d \in Devices : \A e \in outbox[d] :
         e.op.id = i => FateOf(i) = IF e.parked THEN "parked" ELSE "waiting"
    /\ Queued(i) = {} =>
         FateOf(i) = IF i \in discarded THEN "discarded"
                     ELSE IF db.times[i] > 0 THEN "done" ELSE "unborn"

LEMMA FatesAreTold == OutboxInv => FatesTold
<1> SUFFICES ASSUME OutboxInv, NEW i \in OpIds
             PROVE  /\ \A d \in Devices : \A e \in outbox[d] :
                         e.op.id = i => FateOf(i) = IF e.parked THEN "parked" ELSE "waiting"
                    /\ Queued(i) = {} =>
                         FateOf(i) = IF i \in discarded THEN "discarded"
                                     ELSE IF db.times[i] > 0 THEN "done" ELSE "unborn"
  BY DEF FatesTold
<1>1. ASSUME NEW d \in Devices, NEW e \in outbox[d], e.op.id = i
      PROVE  FateOf(i) = IF e.parked THEN "parked" ELSE "waiting"
  <2>1. Queued(i) = {e}
    BY <1>1 DEF OutboxInv, OneEntry, Queued
  <2>2. i \notin discarded
    BY <1>1 DEF OutboxInv, OneEntry
  <2>3. e.parked \in BOOLEAN
    BY DEF OutboxInv, DevicesTyped, Entry
  <2>4. CASE e.parked
    BY <2>1, <2>2, <2>4 DEF FateOf
  <2>5. CASE ~ e.parked
    BY <2>1, <2>2, <2>5 DEF FateOf
  <2>6. QED
    BY <2>3, <2>4, <2>5
<1>2. ASSUME Queued(i) = {}
      PROVE  FateOf(i) = IF i \in discarded THEN "discarded"
                         ELSE IF db.times[i] > 0 THEN "done" ELSE "unborn"
  <2>1. CASE i \in discarded
    BY <1>2, <2>1 DEF FateOf
  <2>2. CASE i \notin discarded
    BY <1>2, <2>2 DEF FateOf
  <2>3. QED
    BY <2>1, <2>2
<1>3. QED
  BY <1>1, <1>2

\* Without a purge an operation has taken effect once or not at all.
LEMMA TimesAreTwo ==
  ASSUME SInv
  PROVE  \A i \in OpIds : db.times[i] \in {0, 1}
BY DEF SInv, IInv, FileOK, OutboxInv, TxnFollows

Fates == [i \in OpIds |-> FateOf(i)]

\* A step that touches the entries of one operation moves the fate of that one.
LEMMA OneFate ==
  ASSUME NEW i \in OpIds, db' = db,
         \A j \in OpIds \ {i} : /\ Queued(j)' = Queued(j)
                                /\ j \in discarded' <=> j \in discarded,
         NEW to, FateOf(i)' = to
  PROVE  Fates' = [Fates EXCEPT ![i] = to] /\ UNCHANGED db.times
<1>1. \A j \in OpIds \ {i} : FateOf(j)' = FateOf(j)
  BY DEF FateOf
<1>2. QED
  BY <1>1 DEF Fates

\* A step that touches no outbox and commits nothing moves none.
LEMMA NoFate ==
  ASSUME UNCHANGED <<outbox, discarded, db>>
  PROVE  UNCHANGED <<Fates, db.times>>
<1>1. \A j \in OpIds : FateOf(j)' = FateOf(j)
  BY DEF FateOf, Queued
<1>2. QED
  BY <1>1 DEF Fates

\* The steps of the abstract specification, in the words of this module.
FateMoves(i, from, to) ==
  /\ Fates[i] = from
  /\ Fates' = [Fates EXCEPT ![i] = to]
  /\ UNCHANGED db.times

LifeMoves ==
  \/ \E i \in OpIds :
       \/ FateMoves(i, "unborn", "waiting")
       \/ FateMoves(i, "waiting", "parked")
       \/ FateMoves(i, "parked", "waiting")
       \/ FateMoves(i, "parked", "discarded")
       \/ db.times[i] = 1 /\ FateMoves(i, "waiting", "done")
  \/ /\ \E some \in SUBSET {i \in OpIds : Fates[i] # "unborn" /\ db.times[i] = 0} :
          db.times' = [i \in OpIds |-> IF i \in some THEN 1 ELSE db.times[i]]
     /\ UNCHANGED Fates
  \/ UNCHANGED <<Fates, db.times>>

LEMMA LifeSteps == LifeMoves => [Life!Next]_(Life!lifeVars)
<1> SUFFICES ASSUME LifeMoves PROVE [Life!Next]_(Life!lifeVars)
  OBVIOUS
<1>1. CASE UNCHANGED <<Fates, db.times>>
  BY <1>1 DEF Life!lifeVars, Fates
<1>2. CASE /\ \E some \in SUBSET {i \in OpIds : Fates[i] # "unborn" /\ db.times[i] = 0} :
                db.times' = [i \in OpIds |-> IF i \in some THEN 1 ELSE db.times[i]]
           /\ UNCHANGED Fates
  BY <1>2 DEF Life!Next, Life!TakeEffect, Fates
<1>3. ASSUME NEW i \in OpIds, NEW from, NEW to
      PROVE  FateMoves(i, from, to) <=> Life!Move(i, from, to)
  BY DEF FateMoves, Life!Move, Fates
<1>4. CASE \E i \in OpIds :
             \/ FateMoves(i, "unborn", "waiting")
             \/ FateMoves(i, "waiting", "parked")
             \/ FateMoves(i, "parked", "waiting")
             \/ FateMoves(i, "parked", "discarded")
             \/ db.times[i] = 1 /\ FateMoves(i, "waiting", "done")
  BY <1>3, <1>4 DEF Life!Next, Life!Queue, Life!Park, Life!Retry, Life!Discard,
                    Life!Acknowledge
<1>5. QED
  BY <1>1, <1>2, <1>4 DEF LifeMoves

\* A change is queued.
LEMMA QueueMoves ==
  ASSUME SInv, OutboxInv', NEW d \in Devices, PutOp(d)
  PROVE  LifeMoves
<1> PICK op : op = half[d].op
  OBVIOUS
<1> DEFINE new == [op |-> op, parked |-> FALSE]
<1>1. /\ half[d] # None /\ op.id \in OpIds /\ ~ Known(op.id)
      /\ outbox' = [outbox EXCEPT ![d] = outbox[d] \cup {new}]
      /\ UNCHANGED <<db, discarded>>
      /\ outbox \in [Devices -> SUBSET Entry]
  BY OpsInSight DEF PutOp, serverVars, SInv, OutboxInv, IdsNew, DevicesTyped
<1>2. new \in outbox'[d] /\ new.op.id = op.id /\ ~ new.parked
  BY <1>1
<1>3. FatesTold /\ FatesTold'
  BY FatesAreTold, PTL DEF SInv
<1>4. FateOf(op.id) = "unborn"
  <2>1. Queued(op.id) = {} /\ op.id \notin discarded /\ db.times[op.id] = 0
    BY <1>1, TimesAreTwo DEF Known
  <2>2. QED
    BY <1>1, <1>3, <2>1 DEF FatesTold
<1>5. FateOf(op.id)' = "waiting"
  BY <1>1, <1>2, <1>3 DEF FatesTold
<1>6. \A j \in OpIds \ {op.id} : Queued(j)' = Queued(j)
  BY <1>1, <1>2 DEF Queued
<1>7. Fates' = [Fates EXCEPT ![op.id] = "waiting"] /\ UNCHANGED db.times
  BY <1>1, <1>5, <1>6, OneFate
<1>8. Fates[op.id] = "unborn"
  BY <1>1, <1>4 DEF Fates
<1>9. QED
  BY <1>1, <1>7, <1>8 DEF LifeMoves, FateMoves

\* A person decides about a parked one.
LEMMA PanelMoves ==
  ASSUME SInv, OutboxInv', NEW d \in Devices, Panel(d)
  PROVE  LifeMoves
<1>1. PICK e \in outbox[d] :
        /\ e.parked
        /\ \/ /\ outbox' = [outbox EXCEPT ![d] =
                              (outbox[d] \ {e}) \cup {[e EXCEPT !.parked = FALSE]}]
              /\ discarded' = discarded
           \/ /\ outbox' = [outbox EXCEPT ![d] = outbox[d] \ {e}]
              /\ discarded' = discarded \cup {e.op.id}
  BY DEF Panel, Retry, Discard
<1> DEFINE again == [e EXCEPT !.parked = FALSE]
<1>2. db' = db /\ outbox \in [Devices -> SUBSET Entry]
  BY DEF Panel, Retry, Discard, serverVars, SInv, OutboxInv, DevicesTyped
<1>3. /\ e \in Entry /\ e.op.id \in OpIds
      /\ again.op = e.op /\ ~ again.parked
  <2>1. e \in Entry /\ e.op.id \in OpIds
    BY <1>1, OpsInSight
  <2>2. QED
    BY <2>1 DEF Entry
<1> HIDE DEF again
<1>4. FatesTold /\ FatesTold'
  BY FatesAreTold, PTL DEF SInv
<1>5. Fates[e.op.id] = "parked"
  BY <1>1, <1>3, <1>4 DEF FatesTold, Fates
<1>6. \A j \in OpIds \ {e.op.id} : Queued(j)' = Queued(j) /\ (j \in discarded' <=> j \in discarded)
  <2>1. outbox'[d] = (outbox[d] \ {e}) \cup {again} \/ outbox'[d] = outbox[d] \ {e}
    BY <1>1, <1>2 DEF again
  <2>2. \A c \in Devices \ {d} : outbox'[c] = outbox[c]
    BY <1>1, <1>2
  <2>3. QED
    BY <1>1, <1>3, <2>1, <2>2 DEF Queued
<1>7. CASE outbox' = [outbox EXCEPT ![d] = (outbox[d] \ {e}) \cup {again}]
  <2>1. again \in outbox'[d]
    BY <1>2, <1>7
  <2>2. FateOf(e.op.id)' = "waiting"
    BY <1>3, <1>4, <2>1 DEF FatesTold
  <2>3. Fates' = [Fates EXCEPT ![e.op.id] = "waiting"] /\ UNCHANGED db.times
    BY <1>2, <1>3, <1>6, <2>2, OneFate
  <2>4. QED
    BY <1>3, <1>5, <2>3 DEF LifeMoves, FateMoves
<1>8. CASE /\ outbox' = [outbox EXCEPT ![d] = outbox[d] \ {e}]
           /\ discarded' = discarded \cup {e.op.id}
  <2>1. \A c \in Devices : \A x \in outbox[c] : x.op.id = e.op.id => c = d /\ x = e
    BY <1>1 DEF SInv, OutboxInv, OneEntry
  <2>2. Queued(e.op.id)' = {}
    BY <1>2, <1>8, <2>1 DEF Queued
  <2>3. FateOf(e.op.id)' = "discarded"
    BY <1>3, <1>4, <1>8, <2>2 DEF FatesTold
  <2>4. Fates' = [Fates EXCEPT ![e.op.id] = "discarded"] /\ UNCHANGED db.times
    BY <1>2, <1>3, <1>6, <2>3, OneFate
  <2>5. QED
    BY <1>3, <1>5, <2>4 DEF LifeMoves, FateMoves
<1>9. QED
  BY <1>1, <1>7, <1>8 DEF again

\* An answer is handled.
LEMMA HandleMoves ==
  ASSUME SInv, OutboxInv', NEW d \in Devices, HandleResult(d)
  PROVE  LifeMoves
<1>1. PICK e \in outbox[d] :
        /\ ~ e.parked
        /\ UNCHANGED <<db, discarded>>
        /\ \/ UNCHANGED outbox
           \/ outbox' = [outbox EXCEPT ![d] = (outbox[d] \ {e}) \cup {Parked(e.op)}]
           \/ /\ outbox' = [outbox EXCEPT ![d] = outbox[d] \ {e}]
              /\ db.times[e.op.id] = 1
  BY HandleKeeps
<1>2. e.op.id \in OpIds /\ outbox \in [Devices -> SUBSET Entry]
  BY <1>1, OpsInSight DEF SInv, OutboxInv, DevicesTyped
<1>3. FatesTold /\ FatesTold'
  BY FatesAreTold, PTL DEF SInv
<1>4. Fates[e.op.id] = "waiting"
  BY <1>1, <1>2, <1>3 DEF FatesTold, Fates
<1>5. Parked(e.op).op = e.op /\ Parked(e.op).parked
  BY DEF Parked
<1>6. CASE UNCHANGED outbox
  BY <1>1, <1>6, NoFate DEF LifeMoves, FateMoves
<1>7. CASE outbox' = [outbox EXCEPT ![d] = (outbox[d] \ {e}) \cup {Parked(e.op)}]
  <2>1. outbox'[d] = (outbox[d] \ {e}) \cup {Parked(e.op)}
        /\ \A c \in Devices \ {d} : outbox'[c] = outbox[c]
    BY <1>2, <1>7
  <2>2. FateOf(e.op.id)' = "parked"
    BY <1>2, <1>3, <1>5, <2>1 DEF FatesTold
  <2>3. \A j \in OpIds \ {e.op.id} : Queued(j)' = Queued(j)
    BY <1>5, <2>1 DEF Queued
  <2>4. Fates' = [Fates EXCEPT ![e.op.id] = "parked"] /\ UNCHANGED db.times
    BY <1>1, <1>2, <2>2, <2>3, OneFate
  <2>5. QED
    BY <1>2, <1>4, <2>4 DEF LifeMoves, FateMoves
<1>8. CASE /\ outbox' = [outbox EXCEPT ![d] = outbox[d] \ {e}]
           /\ db.times[e.op.id] = 1
  <2>1. outbox'[d] = outbox[d] \ {e} /\ \A c \in Devices \ {d} : outbox'[c] = outbox[c]
    BY <1>2, <1>8
  <2>2. /\ \A c \in Devices : \A x \in outbox[c] : x.op.id = e.op.id => c = d /\ x = e
        /\ e.op.id \notin discarded
    BY <1>1 DEF SInv, OutboxInv, OneEntry
  <2>3. Queued(e.op.id)' = {}
    BY <2>1, <2>2 DEF Queued
  <2>4. FateOf(e.op.id)' = "done"
    BY <1>1, <1>2, <1>3, <1>8, <2>2, <2>3 DEF FatesTold
  <2>5. \A j \in OpIds \ {e.op.id} : Queued(j)' = Queued(j)
    BY <2>1 DEF Queued
  <2>6. Fates' = [Fates EXCEPT ![e.op.id] = "done"] /\ UNCHANGED db.times
    BY <1>1, <1>2, <2>4, <2>5, OneFate
  <2>7. QED
    BY <1>2, <1>4, <1>8, <2>6 DEF LifeMoves, FateMoves
<1>9. QED
  BY <1>1, <1>6, <1>7, <1>8

\* A commit: what it applied had been queued and had had no effect.
LEMMA CommitMoves ==
  ASSUME SInv, OutboxInv', AnswerPush
  PROVE  LifeMoves
<1>1. FatesTold /\ FatesTold'
  BY FatesAreTold, PTL DEF SInv
<1>2. UNCHANGED <<outbox, discarded>>
  BY DEF AnswerPush
<1>3. \A i \in OpIds : Queued(i)' = Queued(i)
  BY <1>2 DEF Queued
<1>4. db \in DB /\ db' \in DB
  BY CommitCounts DEF SInv, IInv, ServerTypeOK, TxnOK, FileOK
<1> DEFINE some == {i \in OpIds : db'.times[i] # db.times[i]}
<1>5. db'.times = [i \in OpIds |-> IF i \in some THEN 1 ELSE db.times[i]]
  BY <1>4, CommitCounts DEF DB
<1>6. ASSUME NEW i \in OpIds PROVE FateOf(i)' = FateOf(i) /\ (i \in some => FateOf(i) # "unborn")
  <2>1. CASE Queued(i) # {}
    <3> PICK d \in Devices : \E e \in outbox[d] : e.op.id = i
      BY <2>1 DEF Queued
    <3>1. PICK e \in outbox[d] : e.op.id = i
      OBVIOUS
    <3>2. FateOf(i) = IF e.parked THEN "parked" ELSE "waiting"
      BY <1>1, <3>1 DEF FatesTold
    <3>3. FateOf(i)' = IF e.parked THEN "parked" ELSE "waiting"
      BY <1>1, <1>2, <3>1 DEF FatesTold
    <3>4. QED
      BY <3>2, <3>3
  <2>2. CASE Queued(i) = {}
    <3>1. /\ FateOf(i) = IF i \in discarded THEN "discarded"
                         ELSE IF db.times[i] > 0 THEN "done" ELSE "unborn"
          /\ FateOf(i)' = IF i \in discarded THEN "discarded"
                          ELSE IF db'.times[i] > 0 THEN "done" ELSE "unborn"
      BY <1>1, <1>2, <1>3, <2>2 DEF FatesTold
    <3>2. CASE db'.times[i] = db.times[i]
      BY <3>1, <3>2
    <3>3. CASE db.times[i] = 0 /\ db'.times[i] = 1 /\ Known(i)
      <4>1. i \in discarded
        BY <2>2, <3>3 DEF Known
      <4>2. QED
        BY <3>1, <4>1
    <3>4. QED
      BY <3>2, <3>3, CommitCounts
  <2>3. QED
    BY <2>1, <2>2
<1>7. UNCHANGED Fates
  BY <1>6 DEF Fates
<1>8. some \in SUBSET {i \in OpIds : Fates[i] # "unborn" /\ db.times[i] = 0}
  BY <1>6, CommitCounts DEF Fates
<1>9. QED
  BY <1>5, <1>7, <1>8 DEF LifeMoves, FateMoves

\* Every other step leaves every fate as it is.
LEMMA StepMoves ==
  ASSUME SInv, OutboxInv', [Next]_vars
  PROVE  LifeMoves
<1>1. CASE UNCHANGED <<outbox, discarded, db>>
  BY <1>1, NoFate DEF LifeMoves, FateMoves
<1>2. CASE \E d \in Writers : StartRecord(d)
  BY <1>1, <1>2 DEF StartRecord
<1>3. ASSUME NEW d \in Devices, Panel(d) \/ Record(d) PROVE LifeMoves
  <2>1. CASE PutRow(d)
    BY <1>1, <2>1 DEF PutRow, serverVars
  <2>2. QED
    BY <1>3, <2>1, PanelMoves, QueueMoves DEF Record
<1>4. ASSUME NEW d \in Devices, Engine(d) PROVE LifeMoves
  <2>1. CASE HandleResult(d)
    BY <2>1, HandleMoves
  <2>2. CASE ~ HandleResult(d)
    <3>1. UNCHANGED <<outbox, discarded, db>>
      BY <1>4, <2>2 DEF Engine, StartDrain, EndRefused, PullNext, StartPull, StoreTable,
                        SetWatermark, AnswerPull, ReadTable, ReadCounter, serverVars, deviceVars
    <3>2. QED
      BY <1>1, <3>1
  <2>3. QED
    BY <2>1, <2>2
<1>5. CASE Server
  <2>1. CASE TakePush \/ ServeOne
    BY <1>1, <2>1 DEF TakePush, Begin, ServeOne, ApplyOne, AnswerDuplicate, Done, deviceVars
  <2>2. QED
    BY <1>5, <2>1, CommitMoves DEF Server
<1>6. CASE Faults
  <2>1. ASSUME NEW d \in Devices, Abandon(d) \/ LoseRecord(d) \/ RefusePush(d) PROVE LifeMoves
    <3>1. CASE Abandon(d)
      <4>1. UNCHANGED <<db, txn, clock, local, outbox, half, watermark, nextId, discarded>>
        BY <3>1 DEF Abandon
      <4>2. QED
        BY <1>1, <4>1
    <3>2. CASE LoseRecord(d)
      BY <1>1, <3>2 DEF LoseRecord, serverVars
    <3>3. CASE RefusePush(d)
      <4>1. UNCHANGED <<serverVars, local, outbox, half, watermark, nextId, discarded>>
        BY <3>3 DEF RefusePush
      <4>2. QED
        BY <1>1, <4>1 DEF serverVars
    <3>4. QED
      BY <2>1, <3>1, <3>2, <3>3
  <2>2. CASE RejectOne \/ LoseTxn
    BY <1>1, <2>2 DEF RejectOne, RefuseOne, FailOne, Done, LoseTxn, Rollback
  <2>3. QED
    BY <1>6, <2>1, <2>2 DEF Faults
<1>7. CASE UNCHANGED vars
  BY <1>1, <1>7 DEF vars, serverVars, deviceVars
<1>8. QED
  BY <1>2, <1>3, <1>4, <1>5, <1>6, <1>7 DEF Next

\* No change has begun its life at the start.
LEMMA LifeBegins == Init => Life!Init
<1> SUFFICES ASSUME Init PROVE Life!Init
  OBVIOUS
<1>1. /\ outbox = [d \in Devices |-> {}] /\ discarded = {}
      /\ db.times = [i \in OpIds |-> 0]
  BY DEF Init, ServerInit, Fresh
<1>2. OutboxInv
  BY InitOutbox
<1>3. \A i \in OpIds : FateOf(i) = "unborn"
  <2>1. \A i \in OpIds : Queued(i) = {}
    BY <1>1 DEF Queued
  <2>2. FatesTold
    BY <1>2, FatesAreTold
  <2>3. QED
    BY <1>1, <2>1, <2>2 DEF FatesTold
<1>4. QED
  BY <1>1, <1>3 DEF Life!Init

-----------------------------------------------------------------------------
(* The theorems.  *)

\* The devices' state is what its types say, with one entry to an operation over all
\* the outboxes (`park` replaces an entry, `discard` removes it).
THEOREM EngineTypes == Spec => []SyncTypeOK
<1>1. SInv => SyncTypeOK
  <2> SUFFICES ASSUME SInv PROVE SyncTypeOK
    OBVIOUS
  <2>1. DevicesTyped /\ OneEntry
    BY DEF SInv, OutboxInv
  <2>2. ASSUME NEW i \in OpIds PROVE Cardinality(Queued(i)) <= 1
    <3>1. CASE Queued(i) = {}
      BY <3>1, FS_EmptySet
    <3>2. CASE Queued(i) # {}
      <4>1. PICK e : Queued(i) = {e}
        <5>1. PICK e : e \in Queued(i)
          BY <3>2
        <5>2. \A f \in Queued(i) : f = e
          BY <2>1, <5>1 DEF OneEntry, Queued
        <5>3. QED
          BY <5>1, <5>2
      <4>2. Cardinality(Queued(i)) = 1
        BY <4>1, FS_Singleton
      <4>3. QED
        BY <4>2
    <3>3. QED
      BY <3>1, <3>2
  <2>3. QED
    BY <2>1, <2>2 DEF DevicesTyped, SyncTypeOK
<1>2. QED
  BY <1>1, EngineInvariant, PTL

\* The engine and the server implement the life of a change: it is sent until the server
\* has it, takes effect once, and leaves the outbox only when it is done or thrown away.
THEOREM ChangesLiveAsPromised == Spec => OutboxHolds
<1>1. Init => Life!Init
  BY LifeBegins
<1>2. SInv /\ SInv' /\ [Next]_vars => [Life!Next]_(Life!lifeVars)
  BY StepMoves, LifeSteps DEF SInv
<1>3. QED
  BY <1>1, <1>2, EngineInvariant, EngineTypes, PTL
     DEF Spec, OutboxHolds, OpsLiveAsPromised, Life!Spec

\* No pull puts an older version of a row over a newer one, whatever was cut off.
THEOREM NoPullGoesBack == Spec => PullsNeverGoBack
<1>1. SInv /\ [Next]_vars =>
        [\A d \in Devices, r \in Records :
           half[d] = half'[d] => local'[d][r].seq >= local[d][r].seq]_local
  <2> SUFFICES ASSUME SInv, [Next]_vars, NEW d \in Devices, NEW r \in Records,
                      half[d] = half'[d], local' # local
               PROVE  local'[d][r].seq >= local[d][r].seq
    OBVIOUS
  <2>1. PICK c \in Devices : PutRow(c) \/ StoreTable(c)
    <3>1. Next /\ local' # local
      BY DEF vars, deviceVars
    <3>2. ASSUME NEW c \in Devices, Engine(c) PROVE StoreTable(c)
      BY <3>1, <3>2 DEF Engine, StartDrain, HandleResult, EndRefused, PullNext,
                        SetWatermark, AnswerPull, serverVars, deviceVars
    <3>3. ASSUME NEW c \in Devices, Panel(c) \/ Record(c) PROVE PutRow(c)
      BY <3>1, <3>3 DEF Panel, Retry, Discard, Record, PutOp
    <3>4. ~ Server
      BY <3>1 DEF Server, TakePush, ServeOne, AnswerPush, deviceVars
    <3>5. ~ Faults
      <4>1. ASSUME NEW c \in Devices PROVE ~ Abandon(c) /\ ~ RefusePush(c)
        <5>1. Abandon(c) =>
                UNCHANGED <<db, txn, clock, local, outbox, half, watermark, nextId, discarded>>
          BY DEF Abandon
        <5>2. RefusePush(c) =>
                UNCHANGED <<serverVars, local, outbox, half, watermark, nextId, discarded>>
          BY DEF RefusePush
        <5>3. QED
          BY <3>1, <5>1, <5>2
      <4>2. QED
        BY <3>1, <4>1 DEF Faults, LoseRecord, RejectOne, LoseTxn
    <3>6. \A c \in Writers : ~ StartRecord(c)
      BY <3>1 DEF StartRecord
    <3>7. QED
      BY <3>1, <3>2, <3>3, <3>4, <3>5, <3>6 DEF Next
  <2>2. BehindAt(d, r)
    BY BehindEverywhere DEF SInv
  <2>3. local \in [Devices -> [Records -> Row]] /\ local[d][r].seq \in Nat
    BY SeqTypes DEF SInv, OutboxInv, DevicesTyped
  <2>4. CASE PutRow(c)
    <3>1. c # d
      <4>1. half[c] # None /\ half[c] \in Recording /\ half[c].stage = "read"
        BY <2>4 DEF PutRow, SInv, OutboxInv, DevicesTyped
      <4>2. half'[c].stage = "put"
        BY <2>4, <4>1 DEF PutRow, SInv, OutboxInv, DevicesTyped, Recording
      <4>3. QED
        BY <4>1, <4>2
    <3>2. local'[d] = local[d]
      BY <2>3, <2>4, <3>1 DEF PutRow
    <3>3. QED
      BY <2>3, <3>2
  <2>5. CASE StoreTable(c)
    <3>1. /\ local' = [local EXCEPT ![c] = PutAll(c)] /\ pull[c] # None
      BY <2>5 DEF StoreTable, Arrived
    <3>2. \/ local'[d][r] = local[d][r]
          \/ /\ pull[d] # None /\ r \in InPage(pull[d].rows)
             /\ local'[d][r] = pull[d].rows[r]
      BY <2>3, <3>1 DEF PutAll
    <3>3. QED
      BY <2>2, <2>3, <3>2, SeqTypes DEF BehindAt
  <2>6. QED
    BY <2>1, <2>4, <2>5
<1>2. QED
  BY <1>1, EngineInvariant, PTL DEF Spec, PullsNeverGoBack
=============================================================================
