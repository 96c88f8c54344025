-------------------------- MODULE AnyClientProofs ---------------------------
(***************************************************************************)
(* The sync server keeps its properties against any client, for every      *)
(* value of the constants: any number of devices, rows, fields, operations *)
(* and sequence numbers, batches and pages of any size.                    *)
(***************************************************************************)
EXTENDS AnyClient, SyncServerProofs

-----------------------------------------------------------------------------
(* The steps of any client.  *)

\* An empty workspace satisfies the invariant.
LEMMA InitEstablishes == Init => IInv
<1> SUFFICES ASSUME Init PROVE IInv
  OBVIOUS
<1> DEFINE rows == [r \in Records |-> NoRow]
<1>1. NoRow \in Row /\ NoRow.seq = 0 /\ NoRow.state = "absent"
  BY BlankType DEF NoRow, Row
<1>2. /\ rows \in [Records -> Row] /\ \A r \in Records : rows[r].seq <= 0
      /\ ServerInit(rows, 0)
  BY <1>1 DEF Init
<1>3. SingleDefault(Fresh(rows, 0))
  BY <1>1 DEF SingleDefault, Fresh
<1>4. QED
  BY <1>2, <1>3, FreshIsSound

\* Every step of the server, and of its clients, keeps the invariant.
LEMMA NextKeeps == IInv /\ [Next]_serverVars => IInv'
<1> SUFFICES ASSUME IInv, [Next]_serverVars PROVE IInv'
  OBVIOUS
<1>1. CASE Push
  <2>1. CASE \E d \in Devices, ops \in Batches :
               /\ db.counter + Cardinality(ops) <= MaxSeq
               /\ Begin([dev |-> d, ops |-> ops])
    BY <2>1, OpsAssumption, BeginKeeps DEF Batches
  <2>2. CASE ApplyOne
    BY <2>2, EffectIsStep, DoneKeeps DEF ApplyOne, Status
  <2>3. CASE AnswerDuplicate
    BY <2>3, NothingIsStep, DoneKeeps DEF AnswerDuplicate, Status
  <2>4. CASE RefuseOne
    BY <2>4, NothingIsStep, DoneKeeps DEF RefuseOne, Status
  <2>5. CASE FailOne
    BY <2>5, PreparedIsStep, DoneKeeps DEF FailOne, Status
  <2>6. CASE Commit
    BY <2>6, CommitKeeps
  <2>7. CASE Rollback
    BY <2>7, RollbackKeeps
  <2>8. QED
    BY <1>1, <2>1, <2>2, <2>3, <2>4, <2>5, <2>6, <2>7 DEF Push
<1>2. CASE Answer
  <2>1. PICK d \in Pullers :
          \/ \E since \in 0 .. db.counter : StartPull(d, since)
          \/ ReadTable(d)
          \/ ReadCounter(d)
          \/ EndPull(d)
    BY <1>2 DEF Answer
  <2>2. d \in Devices
    BY PullersAssumption
  <2>3. CASE \E since \in 0 .. db.counter : StartPull(d, since)
    BY <2>2, <2>3, StartPullKeeps
  <2>4. QED
    BY <2>1, <2>2, <2>3, ReadTableKeeps, ReadCounterKeeps, EndPullKeeps
<1>3. CASE Maintain
  BY <1>3, CompleteUploadKeeps, PurgeOpKeeps, PurgeConflictKeeps, PurgeRowKeeps
     DEF Maintain
<1>4. CASE UNCHANGED serverVars
  BY <1>4 DEF serverVars, IInv, ServerTypeOK, FileOK, TxnOK, Ahead, PullOK,
              SingleDefault, InPage
<1>5. QED
  BY <1>1, <1>2, <1>3, <1>4 DEF Next

-----------------------------------------------------------------------------
(* The theorems.  *)

\* The invariant of the server holds for every batch, page, clock and client.
THEOREM Inductive == Spec => []IInv
<1>1. Init => IInv
  BY InitEstablishes
<1>2. IInv /\ [Next]_serverVars => IInv'
  BY NextKeeps
<1>3. QED
  BY <1>1, <1>2, PTL DEF Spec

\* The state of the server is what its types say.
THEOREM TypeCorrect == Spec => []ServerTypeOK
<1>1. IInv => ServerTypeOK
  BY DEF IInv
<1>2. QED
  BY <1>1, Inductive, PTL

\* An operation takes effect once, however often, late or interleaved its requests
\* arrive, until the purge forgets it.
THEOREM EffectOnce == Spec => []AtMostOnce
<1>1. IInv => AtMostOnce
  <2>1. ASSUME NEW file, FileOK(file), NEW i \in OpIds \ file.expired
        PROVE  file.times[i] <= 1
    BY <2>1 DEF FileOK
  <2>2. QED
    BY <2>1 DEF IInv, TxnOK, AtMostOnce, Files
<1>2. QED
  BY <1>1, Inductive, PTL

\* No row of any file is numbered past its counter.
THEOREM NumbersBounded == Spec => []SeqBounded
<1>1. IInv => SeqBounded
  BY DEF IInv, TxnOK, FileOK, SeqBounded, Files
<1>2. QED
  BY <1>1, Inductive, PTL

\* A song never has two live defaults, whatever is pushed, in whatever order.
THEOREM DefaultsUnique == Spec => []OneDefault
<1>1. IInv => OneDefault
  BY DEF IInv, TxnOK, FileOK, OneDefault, Files
<1>2. QED
  BY <1>1, Inductive, PTL

\* A pull answers nothing it was not asked for and nothing past its change_seq.
THEOREM PullsSound == Spec => []PullSound
<1>1. IInv => PullSound
  BY DEF IInv, PullOK, PullSound
<1>2. QED
  BY <1>1, Inductive, PTL

\* Every step that replaces the committed file moves the counter on, if at all, and
\* numbers what it changes past everything committed before.
LEMMA FileMovesOn ==
  ASSUME IInv, Next, db' # db
  PROVE  /\ db'.counter >= db.counter
         /\ \A r \in Records :
              /\ \/ db'.rows[r] = db.rows[r]
                 \/ db'.rows[r] = NoRow
                 \/ db'.rows[r].seq > db.counter
              /\ db.rows[r].state = "dead" => db'.rows[r].state \in {"dead", "absent"}
<1>1. CASE Push
  <2>1. Commit
    BY <1>1 DEF Push, Begin, ApplyOne, AnswerDuplicate, RefuseOne, FailOne, Done,
                Rollback
  <2>2. QED
    BY <2>1, CommitKeeps DEF Ahead
<1>2. CASE Answer
  BY <1>2 DEF Answer, StartPull, ReadTable, ReadCounter, EndPull
<1>3. CASE Maintain
  <2>1. CASE \E d \in Devices, r \in Records : CompleteUpload(d, r)
    BY <2>1, CompleteUploadKeeps DEF Ahead
  <2>2. CASE \E i \in OpIds : PurgeOp(i)
    BY <2>2, PurgeOpKeeps DEF Ahead
  <2>3. CASE \E r \in Records : PurgeRow(r)
    BY <2>3, PurgeRowKeeps DEF NoRow
  <2>4. CASE \E c \in db.conflicts : PurgeConflict(c)
    BY <2>4, PurgeConflictKeeps DEF Ahead
  <2>5. QED
    BY <1>3, <2>1, <2>2, <2>3, <2>4 DEF Maintain
<1>4. QED
  BY <1>1, <1>2, <1>3 DEF Next

\* A watermark taken before a commit misses nothing the commit writes.
THEOREM ForwardOnly == Spec => CommitsMoveForward
<1>1. IInv /\ [Next]_serverVars =>
        [/\ db'.counter >= db.counter
         /\ \A r \in Records :
              \/ db'.rows[r] = db.rows[r]
              \/ db'.rows[r] = NoRow
              \/ db'.rows[r].seq > db.counter]_db
  BY FileMovesOn DEF serverVars
<1>2. QED
  BY <1>1, Inductive, PTL DEF Spec, CommitsMoveForward

\* No stale edit brings a deleted row back.
THEOREM DeletionsStand == Spec => TombstonesWin
<1>1. IInv /\ [Next]_serverVars =>
        [\A r \in Records : db.rows[r].state = "dead" =>
           db'.rows[r].state \in {"dead", "absent"}]_db
  BY FileMovesOn DEF serverVars
<1>2. QED
  BY <1>1, Inductive, PTL DEF Spec, TombstonesWin

=============================================================================
