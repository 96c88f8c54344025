-------------------------- MODULE SyncServerProofs --------------------------
(***************************************************************************)
(* What the operators of the sync server compute, and that each of its     *)
(* actions keeps the inductive invariant IInv, whoever asks for it: the    *)
(* lemmas that AnyClientProofs and SyncProofs share.                       *)
(***************************************************************************)
EXTENDS SyncServer, FiniteSetTheorems, WellFoundedInduction, TLAPS

-----------------------------------------------------------------------------
(* The operators the server is built from.  *)

\* A payload gives values to some of the fields.
LEMMA PayloadFacts ==
  ASSUME NEW set \in Payload
  PROVE  \A f \in DOMAIN set : f \in Fields /\ set[f] \in Values
BY DEF Payload

\* Merging a payload into columns gives columns.
LEMMA MergedType ==
  ASSUME NEW val \in [Fields -> Values], NEW set \in Payload
  PROVE  Merged(val, set) \in [Fields -> Values]
BY PayloadFacts DEF Merged

\* The columns of a row nobody has written.
LEMMA BlankType == Blank \in [Fields -> Values]
BY ValuesAssumption DEF Blank

\* What one operation makes of its row.
LEMMA WrittenFacts ==
  ASSUME NEW op \in Op, NEW row \in Row, NEW dev \in Devices,
         NEW seq \in Nat, NEW now \in Nat
  PROVE  LET w == Written(op, row, dev, seq, now) IN
         /\ w \in Row
         /\ w = row \/ w.seq = seq
         /\ row.state = "dead" => w.state = "dead"
         /\ w.state = "live" /\ w.val[DefaultFlag] = 1 =>
              Demotes(op, row) \/ (row.state = "live" /\ row.val[DefaultFlag] = 1)
<1> DEFINE w == Written(op, row, dev, seq, now)
<1>1. op.set \in Payload /\ op.kind \in {"upsert", "delete"}
  BY DEF Op
<1>2. row.val \in [Fields -> Values] /\ row.state \in {"absent", "live", "dead"}
  BY DEF Row
<1>3. CASE Action(op, row) = "insert"
  <2>1. w = [state |-> "live", val |-> Merged(Blank, op.set),
             at |-> now, seq |-> seq, by |-> dev]
    BY <1>3 DEF Written
  <2>2. Merged(Blank, op.set) \in [Fields -> Values]
    BY <1>1, MergedType, BlankType
  <2>3. row.state # "dead"
    BY <1>1, <1>3 DEF Action
  <2>4. w.val[DefaultFlag] = 1 => Demotes(op, row)
    BY <2>1, <1>3, FieldsAssumption DEF Merged, Blank, Demotes, Writes
  <2>5. QED
    BY <2>1, <2>2, <2>3, <2>4 DEF Row
<1>4. CASE Action(op, row) = "update"
  <2>1. w = [state |-> "live", val |-> Merged(row.val, op.set),
             at |-> now, seq |-> seq, by |-> dev]
    BY <1>4 DEF Written
  <2>2. Merged(row.val, op.set) \in [Fields -> Values]
    BY <1>1, <1>2, MergedType
  <2>3. row.state = "live"
    BY <1>1, <1>2, <1>4 DEF Action
  <2>4. w.val[DefaultFlag] = 1 => Demotes(op, row) \/ row.val[DefaultFlag] = 1
    BY <2>1, <1>4, FieldsAssumption DEF Merged, Demotes, Writes
  <2>5. QED
    BY <2>1, <2>2, <2>3, <2>4 DEF Row
<1>5. CASE Action(op, row) = "delete"
  <2>1. w = [state |-> "dead", val |-> row.val, at |-> now, seq |-> seq, by |-> dev]
    BY <1>5 DEF Written
  <2>2. QED
    BY <2>1, <1>2 DEF Row
<1>6. CASE Action(op, row) \notin {"insert", "update", "delete"}
  <2>1. w = row
    BY <1>6 DEF Written
  <2>2. row.state # "live"
    BY <1>1, <1>2, <1>6 DEF Action
  <2>3. QED
    BY <2>1, <2>2
<1>7. QED
  BY <1>3, <1>4, <1>5, <1>6

\* What a demotion makes of the other rows.
LEMMA DemotedFacts ==
  ASSUME NEW rows \in [Records -> Row], NEW op \in Op, NEW dev \in Devices,
         NEW seq \in Nat, NEW now \in Nat
  PROVE  LET t == Demoted(rows, op, dev, seq, now) IN
         /\ t \in [Records -> Row]
         /\ t[op.rec] = rows[op.rec]
         /\ \A r \in Records :
              /\ t[r] = rows[r] \/ t[r].seq = seq
              /\ t[r].state = rows[r].state
              /\ t[r].val[DefaultFlag] = 1 => rows[r].val[DefaultFlag] = 1
              /\ SongOf[r] = SongOf[op.rec] /\ r # op.rec /\ t[r].state # "absent"
                   => t[r].val[DefaultFlag] # 1
<1> DEFINE t == Demoted(rows, op, dev, seq, now)
<1>0. op.rec \in Records
  BY DEF Op
<1>1. ASSUME NEW r \in Records
      PROVE  /\ t[r] \in Row
             /\ t[r] = rows[r] \/ t[r].seq = seq
             /\ t[r].state = rows[r].state
             /\ t[r].val[DefaultFlag] = 1 => rows[r].val[DefaultFlag] = 1
             /\ SongOf[r] = SongOf[op.rec] /\ r # op.rec /\ t[r].state # "absent"
                  => t[r].val[DefaultFlag] # 1
  <2>1. rows[r] \in Row
    OBVIOUS
  <2>2. rows[r].val \in [Fields -> Values] /\ rows[r].state \in {"absent", "live", "dead"}
    BY <2>1 DEF Row
  <2>3. CASE /\ SongOf[r] = SongOf[op.rec]
             /\ r # op.rec
             /\ rows[r].state # "absent"
             /\ rows[r].val[DefaultFlag] = 1
    <3>1. t[r] = [state |-> rows[r].state,
                  val |-> [rows[r].val EXCEPT ![DefaultFlag] = 0],
                  at |-> now, seq |-> seq, by |-> dev]
      BY <2>3 DEF Demoted
    <3>2. [rows[r].val EXCEPT ![DefaultFlag] = 0] \in [Fields -> Values]
      BY <2>2, ValuesAssumption
    <3>3. t[r].val[DefaultFlag] = 0
      BY <3>1, <2>2, FieldsAssumption
    <3>4. QED
      BY <3>1, <3>2, <3>3, <2>2, <2>3 DEF Row
  <2>4. CASE ~ (/\ SongOf[r] = SongOf[op.rec]
                /\ r # op.rec
                /\ rows[r].state # "absent"
                /\ rows[r].val[DefaultFlag] = 1)
    <3>1. t[r] = rows[r]
      BY <2>4 DEF Demoted
    <3>2. QED
      BY <3>1, <2>1, <2>4
  <2>5. QED
    BY <2>3, <2>4
<1>2. t[op.rec] = rows[op.rec]
  BY <1>0 DEF Demoted
<1>3. t \in [Records -> Row]
  BY <1>1 DEF Demoted
<1>4. QED
  BY <1>1, <1>2, <1>3

\* The server does take an operation of the batch: there is one with the least id.
LEMMA FirstIsOne ==
  ASSUME NEW ops \in SUBSET Op, ops # {}
  PROVE  First(ops) \in ops
<1> DEFINE ids == {op.id : op \in ops}
<1>1. ids \subseteq Nat /\ ids # {}
  BY OpIdsAssumption DEF Op
<1>2. \E i \in ids : \A j \in ids : ~ (<<j, i>> \in OpToRel(<, Nat))
  BY <1>1, WFMin, NatLessThanWellFounded
<1>3. PICK i \in ids : \A j \in ids : ~ (<<j, i>> \in OpToRel(<, Nat))
  BY <1>2
<1>4. ASSUME NEW j \in ids PROVE i <= j
  <2>1. i \in Nat /\ j \in Nat
    BY <1>1
  <2>2. ~ (j < i)
    BY <1>3, <2>1 DEF OpToRel
  <2>3. QED
    BY <2>1, <2>2
<1>5. \E op \in ops : \A other \in ops : op.id <= other.id
  BY <1>4
<1>6. QED
  BY <1>5 DEF First

\* Only the size of the batch is left to hand out, so the next number is free.
LEMMA NextNumber ==
  ASSUME IInv, Applying
  PROVE  /\ txn \in Txn
         /\ Current \in txn.todo
         /\ Current \in Op
         /\ Stored \in Row
         /\ txn.todo \ {Current} \in SUBSET Op
         /\ IsFiniteSet(txn.todo \ {Current})
         /\ txn.seq + 1 + Cardinality(txn.todo \ {Current}) = txn.work.counter + 1
         /\ txn.seq <= txn.work.counter
<1>1. txn \in Txn /\ txn # None /\ txn.todo # {}
  BY DEF IInv, ServerTypeOK, Applying
<1>2. txn.todo \in SUBSET Op /\ txn.seq \in Nat /\ txn.work \in DB
  BY <1>1 DEF Txn
<1>3. Current \in txn.todo
  BY <1>1, <1>2, FirstIsOne DEF Current
<1>4. Current \in Op /\ Current.rec \in Records
  BY <1>2, <1>3 DEF Op
<1>5. Stored \in Row
  BY <1>2, <1>4 DEF Stored, DB
<1>6. /\ IsFiniteSet(txn.todo)
      /\ txn.seq + Cardinality(txn.todo) = txn.work.counter + 1
  BY <1>1 DEF IInv, TxnOK
<1>7. /\ IsFiniteSet(txn.todo \ {Current})
      /\ Cardinality(txn.todo \ {Current}) = Cardinality(txn.todo) - 1
  BY <1>3, <1>6, FS_RemoveElement
<1>8. /\ Cardinality(txn.todo) \in Nat
      /\ Cardinality(txn.todo \ {Current}) \in Nat
  BY <1>6, <1>7, FS_CardinalityType
<1>9. txn.work.counter \in Nat
  BY <1>2 DEF DB
<1>10. QED
  BY <1>1, <1>2, <1>3, <1>4, <1>5, <1>6, <1>7, <1>8, <1>9

\* What the transaction may make of its file in one step: every row it changes
\* takes the next number, and a tombstone stays one.
Step(work) ==
  /\ FileOK(work)
  /\ work.counter = txn.work.counter
  /\ \A r \in Records :
       /\ work.rows[r] = txn.work.rows[r] \/ work.rows[r].seq = txn.seq
       /\ txn.work.rows[r].state = "dead" => work.rows[r].state = "dead"

\* Such a step keeps the invariant, whatever the status it answers.
LEMMA DoneKeeps ==
  ASSUME IInv, Applying, NEW status \in Status, NEW work, Step(work),
         Done(status, work)
  PROVE  IInv'
<1>1. /\ txn \in Txn /\ Current \in Op
      /\ txn.todo \ {Current} \in SUBSET Op
      /\ IsFiniteSet(txn.todo \ {Current})
      /\ txn.seq + 1 + Cardinality(txn.todo \ {Current}) = txn.work.counter + 1
  BY NextNumber
<1>2. /\ txn' = [txn EXCEPT !.todo = txn.todo \ {Current}, !.seq = txn.seq + 1,
                            !.work = work, !.results[Current.id] = status]
      /\ db' = db /\ pull' = pull /\ clock' = clock
  BY DEF Done
<1>3. work \in DB
  BY DEF Step, FileOK
<1>4. /\ txn.seq \in Nat
      /\ txn.results \in Results
      /\ txn.req \in Request /\ txn.now \in Nat
  BY <1>1 DEF Txn
<1>5. [txn.results EXCEPT ![Current.id] = status] \in Results
  BY <1>4 DEF Results
<1>6. txn' \in Txn
  <2>1. txn' = [req |-> txn.req, todo |-> txn.todo \ {Current}, seq |-> txn.seq + 1,
                now |-> txn.now, work |-> work,
                results |-> [txn.results EXCEPT ![Current.id] = status]]
    BY <1>1, <1>2 DEF Txn
  <2>2. txn.seq + 1 \in Nat
    BY <1>4
  <2>3. QED
    BY <1>1, <1>3, <1>4, <1>5, <2>1, <2>2 DEF Txn
<1>7. /\ txn'.todo = txn.todo \ {Current}
      /\ txn'.seq = txn.seq + 1
      /\ txn'.work = work
  BY <1>1, <1>2 DEF Txn
<1>8. /\ txn # None /\ Ahead(txn.work) /\ txn.seq > db.counter
      /\ db \in DB
  BY DEF IInv, TxnOK, Applying, ServerTypeOK
<1>9. db.counter \in Nat /\ db.rows \in [Records -> Row]
  BY <1>8 DEF DB
<1>10. ASSUME NEW r \in Records
       PROVE  /\ work.rows[r] = db.rows[r] \/ work.rows[r].seq > db.counter
              /\ db.rows[r].state = "dead" => work.rows[r].state = "dead"
  BY <1>8 DEF Step, Ahead
<1>11. (Ahead(txn.work))'
  BY <1>2, <1>7, <1>10 DEF Ahead
<1>12. (FileOK(txn.work))'
  BY <1>7 DEF Step, FileOK, SingleDefault
<1>13. TxnOK'
  <2>1. txn'.seq + Cardinality(txn'.todo) = txn'.work.counter + 1
    BY <1>1, <1>7 DEF Step
  <2>2. txn'.seq > db'.counter
    BY <1>2, <1>4, <1>7, <1>8, <1>9
  <2>3. QED
    BY <1>1, <1>7, <1>11, <1>12, <2>1, <2>2 DEF TxnOK
<1>14. ServerTypeOK'
  BY <1>2, <1>6 DEF IInv, ServerTypeOK
<1>15. FileOK(db)' /\ PullOK'
  BY <1>2 DEF IInv, FileOK, PullOK, SingleDefault, InPage
<1>16. QED
  BY <1>13, <1>14, <1>15 DEF IInv

\* What apply_one has written before the write itself is a step, and leaves no
\* other default in the song when the write is about to make one.
LEMMA PreparedIsStep ==
  ASSUME IInv, Applying
  PROVE  /\ Step(Prepared)
         /\ Prepared.applied = txn.work.applied
         /\ Prepared.expired = txn.work.expired
         /\ Prepared.times = txn.work.times
         /\ Prepared.rows[Current.rec] = Stored
         /\ Demotes(Current, Stored) =>
              \A r \in Records \ {Current.rec} :
                /\ SongOf[r] = SongOf[Current.rec]
                /\ Prepared.rows[r].state # "absent"
                => Prepared.rows[r].val[DefaultFlag] # 1
<1> DEFINE demoted == Demoted(txn.work.rows, Current, txn.req.dev, txn.seq, txn.now)
           lost    == {[rec |-> Current.rec, field |-> f,
                        lost |-> Stored.val[f], op |-> Current] :
                          f \in Conflicts(Current, Stored)}
           rows    == IF Demotes(Current, Stored) THEN demoted ELSE txn.work.rows
<1>1. txn \in Txn /\ Current \in Op /\ Stored \in Row /\ txn.seq <= txn.work.counter
  BY NextNumber
<1>2. /\ txn.work \in DB /\ txn.seq \in Nat /\ txn.now \in Nat
      /\ txn.req.dev \in Devices /\ FileOK(txn.work)
  BY <1>1 DEF Txn, Request, IInv, TxnOK, Applying
<1>3. /\ txn.work.rows \in [Records -> Row]
      /\ Current.rec \in Records /\ Current.set \in Payload
      /\ Stored = txn.work.rows[Current.rec]
  BY <1>1, <1>2 DEF DB, Op, Stored
<1>4. /\ Prepared = [txn.work EXCEPT !.conflicts = txn.work.conflicts \cup lost,
                                     !.rows = rows]
  BY DEF Prepared
<1>5. /\ Prepared.rows = rows
      /\ Prepared.conflicts = txn.work.conflicts \cup lost
      /\ Prepared.counter = txn.work.counter
      /\ Prepared.applied = txn.work.applied
      /\ Prepared.expired = txn.work.expired
      /\ Prepared.times = txn.work.times
  BY <1>2, <1>4 DEF DB
<1>6. lost \in SUBSET Conflict
  <2>1. ASSUME NEW f \in Conflicts(Current, Stored)
        PROVE  f \in Fields /\ Stored.val[f] \in Values
    <3>1. f \in DOMAIN Current.set
      BY DEF Conflicts
    <3>2. f \in Fields
      BY <1>3, <3>1, PayloadFacts
    <3>3. QED
      BY <1>1, <3>2 DEF Row
  <2>2. QED
    BY <1>1, <1>3, <2>1 DEF Conflict
<1>7. /\ demoted \in [Records -> Row]
      /\ demoted[Current.rec] = txn.work.rows[Current.rec]
      /\ \A r \in Records :
           /\ demoted[r] = txn.work.rows[r] \/ demoted[r].seq = txn.seq
           /\ demoted[r].state = txn.work.rows[r].state
           /\ demoted[r].val[DefaultFlag] = 1 => txn.work.rows[r].val[DefaultFlag] = 1
           /\ /\ SongOf[r] = SongOf[Current.rec]
              /\ r # Current.rec
              /\ demoted[r].state # "absent"
              => demoted[r].val[DefaultFlag] # 1
  BY <1>1, <1>2, <1>3, DemotedFacts
<1>8. /\ rows \in [Records -> Row]
      /\ rows[Current.rec] = Stored
      /\ \A r \in Records :
           /\ rows[r] = txn.work.rows[r] \/ rows[r].seq = txn.seq
           /\ rows[r].state = txn.work.rows[r].state
           /\ rows[r].val[DefaultFlag] = 1 => txn.work.rows[r].val[DefaultFlag] = 1
  BY <1>3, <1>7
<1>9. Prepared \in DB
  <2>1. Prepared = [rows |-> rows, counter |-> txn.work.counter,
                    applied |-> txn.work.applied,
                    conflicts |-> txn.work.conflicts \cup lost,
                    times |-> txn.work.times, expired |-> txn.work.expired]
    BY <1>2, <1>4 DEF DB
  <2>2. /\ txn.work.conflicts \cup lost \in SUBSET Conflict
        /\ txn.work.counter \in Nat /\ txn.work.applied \in SUBSET OpIds
        /\ txn.work.times \in [OpIds -> Nat] /\ txn.work.expired \in SUBSET OpIds
    BY <1>2, <1>6 DEF DB
  <2> HIDE DEF rows, lost
  <2>3. QED
    BY <1>8, <2>1, <2>2 DEF DB
<1>10. \A r \in Records : Prepared.rows[r].seq <= Prepared.counter
  BY <1>1, <1>2, <1>5, <1>8 DEF FileOK
<1>11. SingleDefault(Prepared)
  BY <1>2, <1>5, <1>8 DEF FileOK, SingleDefault
<1>12. FileOK(Prepared)
  BY <1>2, <1>5, <1>9, <1>10, <1>11 DEF FileOK
<1>13. Step(Prepared)
  BY <1>5, <1>8, <1>12 DEF Step
<1>14. QED
  BY <1>5, <1>7, <1>8, <1>13

\* The write itself is a step: it is counted once, and it makes a default only
\* where the demotion has left none.
LEMMA EffectIsStep ==
  ASSUME IInv, Applying, Current.id \notin txn.work.applied
  PROVE  Step(Effect)
<1> DEFINE new == Written(Current, Stored, txn.req.dev, txn.seq, txn.now)
           rows == [Prepared.rows EXCEPT ![Current.rec] = new]
<1>1. txn \in Txn /\ Current \in Op /\ Stored \in Row /\ txn.seq <= txn.work.counter
  BY NextNumber
<1>2. /\ txn.work \in DB /\ txn.seq \in Nat /\ txn.now \in Nat
      /\ txn.req.dev \in Devices /\ FileOK(txn.work)
  BY <1>1 DEF Txn, Request, IInv, TxnOK, Applying
<1>3. /\ Current.rec \in Records /\ Current.id \in OpIds
      /\ Stored = txn.work.rows[Current.rec]
  BY <1>1 DEF Op, Stored
<1>4. /\ Step(Prepared) /\ Prepared \in DB
      /\ SingleDefault(Prepared)
      /\ Prepared.counter = txn.work.counter
      /\ Prepared.applied = txn.work.applied
      /\ Prepared.expired = txn.work.expired
      /\ Prepared.times = txn.work.times
      /\ Prepared.rows[Current.rec] = Stored
      /\ Demotes(Current, Stored) =>
           \A r \in Records \ {Current.rec} :
             /\ SongOf[r] = SongOf[Current.rec]
             /\ Prepared.rows[r].state # "absent"
             => Prepared.rows[r].val[DefaultFlag] # 1
  BY PreparedIsStep DEF Step, FileOK
<1>5. /\ new \in Row
      /\ new = Stored \/ new.seq = txn.seq
      /\ Stored.state = "dead" => new.state = "dead"
      /\ new.state = "live" /\ new.val[DefaultFlag] = 1 =>
           \/ Demotes(Current, Stored)
           \/ Stored.state = "live" /\ Stored.val[DefaultFlag] = 1
  BY <1>1, <1>2, WrittenFacts
<1>6. Effect = [rows |-> rows, counter |-> Prepared.counter,
                applied |-> Prepared.applied \cup {Current.id},
                conflicts |-> Prepared.conflicts,
                times |-> [Prepared.times EXCEPT ![Current.id] = @ + 1],
                expired |-> Prepared.expired]
  <2> DEFINE file == Prepared
  <2>1. Effect = [file EXCEPT !.rows[Current.rec] = new,
                              !.applied = @ \cup {Current.id},
                              !.times[Current.id] = @ + 1]
    BY DEF Effect
  <2>2. file \in DB
    BY <1>4
  <2> HIDE DEF file, new
  <2>3. Effect = [rows |-> [file.rows EXCEPT ![Current.rec] = new],
                  counter |-> file.counter,
                  applied |-> file.applied \cup {Current.id},
                  conflicts |-> file.conflicts,
                  times |-> [file.times EXCEPT ![Current.id] = @ + 1],
                  expired |-> file.expired]
    BY <2>1, <2>2 DEF DB
  <2>4. QED
    BY <2>3 DEF file
<1>7. rows \in [Records -> Row] /\ Prepared.rows \in [Records -> Row]
  BY <1>4, <1>5 DEF DB
<1>8. /\ rows[Current.rec] = new
      /\ \A r \in Records \ {Current.rec} : rows[r] = Prepared.rows[r]
  BY <1>3, <1>7
<1>9. Effect \in DB
  BY <1>3, <1>4, <1>6, <1>7 DEF DB
<1>10. \A i \in OpIds \ Effect.expired :
         Effect.times[i] = IF i \in Effect.applied THEN 1 ELSE 0
  <2>1. \A i \in OpIds \ txn.work.expired :
          txn.work.times[i] = IF i \in txn.work.applied THEN 1 ELSE 0
    BY <1>2 DEF FileOK
  <2>2. /\ Effect.expired = txn.work.expired
        /\ Effect.applied = txn.work.applied \cup {Current.id}
        /\ Effect.times = [txn.work.times EXCEPT ![Current.id] = @ + 1]
        /\ txn.work.times \in [OpIds -> Nat]
    BY <1>2, <1>4, <1>6 DEF DB
  <2>3. QED
    BY <1>3, <2>1, <2>2
<1>11. \A r \in Records :
         /\ rows[r] = txn.work.rows[r] \/ rows[r].seq = txn.seq
         /\ txn.work.rows[r].state = "dead" => rows[r].state = "dead"
  BY <1>3, <1>4, <1>5, <1>8 DEF Step
<1>12. \A r \in Records : Effect.rows[r].seq <= Effect.counter
  BY <1>1, <1>2, <1>4, <1>6, <1>11 DEF FileOK
<1>13. SingleDefault(Effect)
  <2> SUFFICES ASSUME NEW r \in Records, NEW s \in Records,
                      r # s, SongOf[r] = SongOf[s],
                      rows[r].state = "live", rows[s].state = "live",
                      rows[r].val[DefaultFlag] = 1, rows[s].val[DefaultFlag] = 1
               PROVE  FALSE
    BY <1>6 DEF SingleDefault
  <2>1. ASSUME NEW q \in Records \ {Current.rec},
               SongOf[q] = SongOf[Current.rec],
               rows[q].state = "live", rows[q].val[DefaultFlag] = 1,
               new.state = "live", new.val[DefaultFlag] = 1
        PROVE  FALSE
    <3>1. rows[q] = Prepared.rows[q]
      BY <1>8
    <3>2. CASE Demotes(Current, Stored)
      BY <1>4, <2>1, <3>1, <3>2
    <3>3. CASE Stored.state = "live" /\ Stored.val[DefaultFlag] = 1
      <4>1. SingleDefault(Prepared) /\ Prepared.rows[Current.rec] = Stored /\ q # Current.rec
        BY <1>4
      <4>2. QED
        BY <1>3, <2>1, <3>1, <3>3, <4>1 DEF SingleDefault
    <3>4. QED
      BY <1>5, <2>1, <3>2, <3>3
  <2>2. CASE r = Current.rec
    BY <1>8, <2>1, <2>2
  <2>3. CASE s = Current.rec
    BY <1>8, <2>1, <2>3
  <2>4. CASE r # Current.rec /\ s # Current.rec
    BY <1>4, <1>8, <2>4 DEF SingleDefault
  <2>5. QED
    BY <2>2, <2>3, <2>4
<1>14. FileOK(Effect)
  BY <1>9, <1>10, <1>12, <1>13 DEF FileOK
<1>15. QED
  BY <1>4, <1>6, <1>11, <1>14 DEF Step

\* A transaction may leave its file alone.
LEMMA NothingIsStep ==
  ASSUME IInv, Applying
  PROVE  Step(txn.work)
BY DEF IInv, TxnOK, Applying, Step

-----------------------------------------------------------------------------
(* The actions.  *)

\* The clock shows a time.
LEMMA TickType == ASSUME clock \in Nat PROVE Tick \in Nat
BY ClockAssumption DEF Tick

\* A file whose rows were numbered before satisfies the invariant.
LEMMA FreshIsSound ==
  ASSUME NEW rows \in [Records -> Row], NEW counter \in Nat,
         \A r \in Records : rows[r].seq <= counter,
         SingleDefault(Fresh(rows, counter)),
         ServerInit(rows, counter)
  PROVE  IInv
<1>1. /\ db = Fresh(rows, counter) /\ txn = None /\ clock = 0
      /\ pull = [d \in Devices |-> None]
  BY DEF ServerInit
<1>2. db \in DB
  BY <1>1 DEF Fresh, DB
<1>3. /\ db.rows = rows /\ db.counter = counter /\ db.expired = {} /\ db.applied = {}
      /\ db.times = [i \in OpIds |-> 0]
  BY <1>1 DEF Fresh
<1>4. FileOK(db)
  BY <1>1, <1>2, <1>3 DEF FileOK
<1>5. ServerTypeOK
  BY <1>1, <1>2 DEF ServerTypeOK
<1>6. QED
  BY <1>1, <1>4, <1>5 DEF IInv, TxnOK, PullOK

\* write_batch: the numbers a batch reserves are past every committed row.
LEMMA BeginKeeps ==
  ASSUME IInv, NEW d \in Devices, NEW ops \in SUBSET Op, IsFiniteSet(ops),
         Begin([dev |-> d, ops |-> ops])
  PROVE  IInv'
<1> DEFINE work == [db EXCEPT !.counter = @ + Cardinality(ops)]
<1>1. /\ ops \in SUBSET Op /\ IsFiniteSet(ops) /\ Cardinality(ops) \in Nat
  BY FS_CardinalityType
<1>2. /\ db \in DB /\ db.counter \in Nat /\ FileOK(db) /\ clock \in Nat
      /\ db.rows \in [Records -> Row]
  BY DEF IInv, ServerTypeOK, DB
<1>3. /\ db' = db /\ pull' = pull /\ clock' = Tick /\ clock' \in Nat
      /\ txn' = [req |-> [dev |-> d, ops |-> ops], todo |-> ops,
                 seq |-> db.counter + 1, now |-> clock', work |-> work,
                 results |-> NoResults]
  BY <1>2, TickType DEF Begin, Reserved
<1>4. /\ work \in DB
      /\ work.counter = db.counter + Cardinality(ops)
      /\ work.rows = db.rows /\ work.applied = db.applied
      /\ work.times = db.times /\ work.expired = db.expired
  BY <1>1, <1>2 DEF DB
<1>5. FileOK(work)
  <2>1. \A r \in Records : work.rows[r].seq <= work.counter
    <3>1. \A r \in Records : db.rows[r].seq \in Nat /\ db.rows[r].seq <= db.counter
      BY <1>2 DEF FileOK, Row
    <3>2. QED
      BY <1>1, <1>2, <1>4, <3>1
  <2>2. QED
    BY <1>2, <1>4, <2>1 DEF FileOK, SingleDefault
<1>6. NoResults \in Results
  BY DEF NoResults, Results, Status
<1>7. txn' \in Txn
  BY <1>1, <1>2, <1>3, <1>4, <1>6 DEF Txn, Request
<1>8. /\ txn'.todo = ops /\ txn'.seq = db.counter + 1 /\ txn'.work = work
  BY <1>3
<1>9. TxnOK'
  <2>1. (Ahead(txn.work))'
    BY <1>3, <1>4, <1>8 DEF Ahead
  <2>2. (FileOK(txn.work))'
    BY <1>5, <1>8 DEF FileOK, SingleDefault
  <2>3. txn'.seq + Cardinality(txn'.todo) = txn'.work.counter + 1
    BY <1>1, <1>2, <1>4, <1>8
  <2>4. txn'.seq > db'.counter
    BY <1>2, <1>3, <1>8
  <2>5. QED
    BY <1>1, <1>8, <2>1, <2>2, <2>3, <2>4 DEF TxnOK
<1>10. ServerTypeOK'
  BY <1>3, <1>7 DEF IInv, ServerTypeOK
<1>11. FileOK(db)' /\ PullOK'
  BY <1>3 DEF IInv, FileOK, PullOK, SingleDefault, InPage
<1>12. QED
  BY <1>9, <1>10, <1>11 DEF IInv

\* Replacing the committed file keeps the pulls sound as long as the counter does
\* not go back.
LEMMA PullsKeep ==
  ASSUME IInv, db' \in DB, db'.counter >= db.counter, UNCHANGED pull
  PROVE  PullOK'
<1>1. db.counter \in Nat /\ db'.counter \in Nat
  BY DEF IInv, ServerTypeOK, DB
<1>2. ASSUME NEW d \in Devices, pull[d] # None, NEW r \in InPage(pull[d].rows)
      PROVE  /\ pull[d].since < pull[d].rows[r].seq
             /\ pull[d].rows[r].seq <= IF pull[d].seq = None THEN db'.counter
                                       ELSE pull[d].seq
  <2>1. /\ pull[d].since < pull[d].rows[r].seq
        /\ pull[d].rows[r].seq <= IF pull[d].seq = None THEN db.counter ELSE pull[d].seq
    BY <1>2 DEF IInv, PullOK
  <2>2. pull[d].rows[r].seq \in Nat
    BY <1>2 DEF IInv, ServerTypeOK, Pull, Page, Row, InPage
  <2>3. QED
    BY <1>1, <2>1, <2>2
<1>3. QED
  BY <1>2 DEF PullOK, IInv, InPage

\* What a transaction has written replaces the file.
LEMMA CommitKeeps ==
  ASSUME IInv, Commit
  PROVE  /\ IInv'
         /\ db'.counter >= db.counter
         /\ Ahead(db')
<1>1. /\ txn # None /\ txn \in Txn /\ txn.todo = {} /\ db' = txn.work /\ txn' = None
      /\ pull' = pull /\ clock' = clock
  BY DEF Commit, IInv, ServerTypeOK
<1>2. /\ FileOK(txn.work) /\ Ahead(txn.work)
      /\ txn.seq + Cardinality(txn.todo) = txn.work.counter + 1
      /\ txn.seq > db.counter
  BY <1>1 DEF IInv, TxnOK
<1>3. /\ txn.seq \in Nat /\ txn.work \in DB /\ txn.work.counter \in Nat
      /\ db.counter \in Nat
  BY <1>1 DEF IInv, ServerTypeOK, Txn, DB
<1>4. db'.counter >= db.counter
  BY <1>1, <1>2, <1>3, FS_EmptySet
<1>5. PullOK'
  BY <1>1, <1>3, <1>4, PullsKeep
<1>6. FileOK(db)'
  BY <1>1, <1>2 DEF FileOK, SingleDefault
<1>7. ServerTypeOK' /\ TxnOK'
  BY <1>1, <1>3 DEF IInv, ServerTypeOK, TxnOK
<1>8. QED
  BY <1>1, <1>2, <1>4, <1>5, <1>6, <1>7 DEF IInv

\* A transaction that is lost leaves nothing.
LEMMA RollbackKeeps == ASSUME IInv, Rollback PROVE IInv'
BY DEF Rollback, IInv, ServerTypeOK, TxnOK, FileOK, PullOK, SingleDefault, InPage

\* sheet_complete numbers the one row it writes.
LEMMA CompleteUploadKeeps ==
  ASSUME IInv, NEW d \in Devices, NEW r \in Records, CompleteUpload(d, r)
  PROVE  /\ IInv'
         /\ db'.counter >= db.counter
         /\ Ahead(db')
<1> DEFINE row == db.rows[r]
           new == IF row.state = "absent" THEN row
                  ELSE [row EXCEPT !.at = clock', !.seq = db.counter + 1, !.by = d]
           rows == [db.rows EXCEPT ![r] = new]
<1>1. /\ db \in DB /\ db.counter \in Nat /\ FileOK(db)
      /\ db.rows \in [Records -> Row] /\ row \in Row
  BY DEF IInv, ServerTypeOK, DB
<1>2. /\ txn = None /\ txn' = txn /\ pull' = pull
      /\ clock' \in Nat
      /\ db' = [db EXCEPT !.counter = db.counter + 1, !.rows = rows]
  BY <1>1, TickType DEF CompleteUpload, Uploaded, IInv, ServerTypeOK, DB
<1>3. /\ new \in Row
      /\ new.state = row.state /\ new.val = row.val
      /\ new = row \/ new.seq = db.counter + 1
  <2>1. CASE row.state = "absent"
    BY <1>1, <2>1
  <2>2. CASE row.state # "absent"
    <3>1. new = [state |-> row.state, val |-> row.val, at |-> clock',
                 seq |-> db.counter + 1, by |-> d]
      BY <1>1, <2>2 DEF Row
    <3>2. QED
      BY <1>1, <1>2, <3>1 DEF Row
  <2>3. QED
    BY <2>1, <2>2
<1> HIDE DEF new
<1>4. db' = [rows |-> rows, counter |-> db.counter + 1, applied |-> db.applied,
             conflicts |-> db.conflicts, times |-> db.times, expired |-> db.expired]
  BY <1>1, <1>2 DEF DB
<1>5. /\ rows \in [Records -> Row]
      /\ \A q \in Records :
           /\ rows[q] = db.rows[q] \/ rows[q].seq = db.counter + 1
           /\ rows[q].state = db.rows[q].state
           /\ rows[q].val = db.rows[q].val
  BY <1>1, <1>3
<1> HIDE DEF rows
<1>6. db' \in DB /\ db'.counter >= db.counter
  BY <1>1, <1>4, <1>5 DEF DB
<1>7. Ahead(db')
  BY <1>1, <1>4, <1>5 DEF Ahead
<1>8. \A q \in Records : rows[q].seq <= db.counter + 1
  <2>1. \A q \in Records : db.rows[q].seq \in Nat /\ db.rows[q].seq <= db.counter
    BY <1>1 DEF FileOK, Row
  <2>2. QED
    BY <1>1, <1>5, <2>1
<1>9. FileOK(db)'
  BY <1>1, <1>4, <1>5, <1>6, <1>8 DEF FileOK, SingleDefault
<1>10. PullOK'
  BY <1>2, <1>6, PullsKeep
<1>11. ServerTypeOK' /\ TxnOK'
  BY <1>2, <1>6 DEF IInv, ServerTypeOK, TxnOK
<1>12. QED
  BY <1>6, <1>7, <1>9, <1>10, <1>11 DEF IInv

\* The purge of applied_ops forgets an operation, it does not undo it.
LEMMA PurgeOpKeeps ==
  ASSUME IInv, NEW i \in OpIds, PurgeOp(i)
  PROVE  /\ IInv'
         /\ db'.counter >= db.counter
         /\ Ahead(db')
<1>1. /\ db \in DB /\ db.counter \in Nat /\ FileOK(db)
  BY DEF IInv, ServerTypeOK, DB
<1>2. /\ txn = None /\ txn' = txn /\ pull' = pull /\ clock' = clock
      /\ db' = [rows |-> db.rows, counter |-> db.counter, applied |-> db.applied \ {i},
                conflicts |-> db.conflicts, times |-> db.times,
                expired |-> db.expired \cup {i}]
  BY <1>1 DEF PurgeOp, DB
<1>3. db' \in DB /\ db'.counter >= db.counter /\ Ahead(db')
  BY <1>1, <1>2 DEF DB, Ahead
<1>4. FileOK(db)'
  BY <1>1, <1>2, <1>3 DEF FileOK, SingleDefault
<1>5. PullOK'
  BY <1>2, <1>3, PullsKeep
<1>6. ServerTypeOK' /\ TxnOK'
  BY <1>2, <1>3 DEF IInv, ServerTypeOK, TxnOK
<1>7. QED
  BY <1>3, <1>4, <1>5, <1>6 DEF IInv

\* The purge of sync_conflicts touches no row.
LEMMA PurgeConflictKeeps ==
  ASSUME IInv, NEW c \in db.conflicts, PurgeConflict(c)
  PROVE  /\ IInv'
         /\ db'.counter >= db.counter
         /\ Ahead(db')
<1>1. /\ db \in DB /\ db.counter \in Nat /\ FileOK(db)
  BY DEF IInv, ServerTypeOK, DB
<1>2. /\ txn = None /\ txn' = txn /\ pull' = pull /\ clock' = clock
      /\ db' = [rows |-> db.rows, counter |-> db.counter, applied |-> db.applied,
                conflicts |-> db.conflicts \ {c}, times |-> db.times,
                expired |-> db.expired]
  BY <1>1 DEF PurgeConflict, DB
<1>3. db' \in DB /\ db'.counter >= db.counter /\ Ahead(db')
  BY <1>1, <1>2 DEF DB, Ahead
<1>4. FileOK(db)'
  BY <1>1, <1>2, <1>3 DEF FileOK, SingleDefault
<1>5. PullOK'
  BY <1>2, <1>3, PullsKeep
<1>6. ServerTypeOK' /\ TxnOK'
  BY <1>2, <1>3 DEF IInv, ServerTypeOK, TxnOK
<1>7. QED
  BY <1>3, <1>4, <1>5, <1>6 DEF IInv

\* The purge of tombstones takes a row away.
LEMMA PurgeRowKeeps ==
  ASSUME IInv, NEW r \in Records, PurgeRow(r)
  PROVE  /\ IInv'
         /\ db'.counter >= db.counter
         /\ \A q \in Records : db'.rows[q] = db.rows[q] \/ db'.rows[q] = NoRow
<1> DEFINE rows == [db.rows EXCEPT ![r] = NoRow]
<1>1. /\ db \in DB /\ db.counter \in Nat /\ FileOK(db)
      /\ db.rows \in [Records -> Row]
  BY DEF IInv, ServerTypeOK, DB
<1>2. /\ txn = None /\ txn' = txn /\ pull' = pull /\ clock' = clock
      /\ db' = [rows |-> rows, counter |-> db.counter, applied |-> db.applied,
                conflicts |-> db.conflicts, times |-> db.times, expired |-> db.expired]
  BY <1>1 DEF PurgeRow, DB
<1>3. NoRow \in Row /\ NoRow.state = "absent" /\ NoRow.seq = 0
  BY BlankType DEF NoRow, Row
<1>4. /\ rows \in [Records -> Row]
      /\ \A q \in Records : rows[q] = db.rows[q] \/ rows[q] = NoRow
  BY <1>1, <1>3
<1> HIDE DEF rows
<1>5. db' \in DB /\ db'.counter >= db.counter
  BY <1>1, <1>2, <1>4 DEF DB
<1>6. FileOK(db)'
  <2>1. \A q \in Records : rows[q].seq <= db.counter
    BY <1>1, <1>3, <1>4 DEF FileOK
  <2>2. SingleDefault(db')
    BY <1>1, <1>2, <1>3, <1>4 DEF FileOK, SingleDefault
  <2>3. QED
    BY <1>1, <1>2, <1>5, <2>1, <2>2 DEF FileOK, SingleDefault
<1>7. PullOK'
  BY <1>2, <1>5, PullsKeep
<1>8. ServerTypeOK' /\ TxnOK'
  BY <1>2, <1>5 DEF IInv, ServerTypeOK, TxnOK
<1>9. QED
  BY <1>2, <1>4, <1>5, <1>6, <1>7, <1>8 DEF IInv

\* A step of a pull disturbs nothing but the pull of its device.
PullOf(d, p) ==
  /\ p \in Pull
  /\ p.seq # None => p.table > Tables
  /\ \A r \in InPage(p.rows) :
       /\ p.since < p.rows[r].seq
       /\ p.rows[r].seq <= IF p.seq = None THEN db.counter ELSE p.seq

LEMMA PullStepKeeps ==
  ASSUME IInv, NEW d \in Devices, NEW p, p = None \/ PullOf(d, p),
         pull' = [pull EXCEPT ![d] = p], UNCHANGED <<db, txn, clock>>
  PROVE  IInv'
<1>1. pull \in [Devices -> Pull \cup {None}]
  BY DEF IInv, ServerTypeOK
<1>2. p \in Pull \cup {None}
  BY DEF PullOf
<1>3. pull'[d] = p /\ \A e \in Devices \ {d} : pull'[e] = pull[e]
  BY <1>1
<1>4. ServerTypeOK'
  BY <1>1, <1>2 DEF IInv, ServerTypeOK
<1>5. PullOK'
  BY <1>3 DEF IInv, PullOK, PullOf, InPage
<1>6. FileOK(db)' /\ TxnOK'
  BY DEF IInv, FileOK, TxnOK, Ahead, SingleDefault
<1>7. QED
  BY <1>4, <1>5, <1>6 DEF IInv

\* A pull starts with an empty page.
LEMMA NoPageFacts == NoPage \in Page /\ InPage(NoPage) = {}
<1>1. NoRow \in Row /\ NoRow.state = "absent"
  BY BlankType DEF NoRow, Row
<1>2. QED
  BY <1>1 DEF NoPage, Page, InPage

\* A pull may ask for anything.
LEMMA StartPullKeeps ==
  ASSUME IInv, NEW d \in Devices, NEW since \in Nat, StartPull(d, since)
  PROVE  IInv'
<1> DEFINE p == NewPull(since)
<1>1. /\ pull' = [pull EXCEPT ![d] = p] /\ UNCHANGED <<db, txn, clock>>
  BY DEF StartPull
<1>2. PullOf(d, p)
  BY NoPageFacts DEF PullOf, NewPull, Pull
<1>3. QED
  BY <1>1, <1>2, PullStepKeeps

\* The page of a table holds rows after `since`, up to the counter.
LEMMA ReadTableKeeps ==
  ASSUME IInv, NEW d \in Devices, ReadTable(d)
  PROVE  IInv'
<1> DEFINE old == pull[d]
           new == Newer(old.table, old.since)
<1>1. /\ old # None /\ old \in Pull /\ old.table <= Tables
  BY DEF ReadTable, IInv, ServerTypeOK
<1>2. /\ old.since \in Nat /\ old.table \in Nat /\ old.rows \in Page
      /\ old.more \in BOOLEAN /\ old.seq \in Nat \cup {None}
  BY <1>1 DEF Pull
<1>3. db \in DB /\ FileOK(db) /\ db.rows \in [Records -> Row]
  BY DEF IInv, ServerTypeOK, DB
<1>4. old.seq = None
  BY <1>1, <1>2, TablesAssumption DEF IInv, PullOK
<1>5. PICK page \in Pages(new), more \in BOOLEAN :
        pull' = [pull EXCEPT ![d] =
                   [old EXCEPT !.table = old.table + 1,
                               !.more  = more,
                               !.rows  = [r \in Records |->
                                            IF r \in page THEN db.rows[r] ELSE old.rows[r]]]]
  BY DEF ReadTable
<1> DEFINE rows == [r \in Records |-> IF r \in page THEN db.rows[r] ELSE old.rows[r]]
           p    == [old EXCEPT !.table = old.table + 1, !.more = more, !.rows = rows]
<1>6. pull' = [pull EXCEPT ![d] = p]
  BY <1>5
<1>7. rows \in Page
  BY <1>2, <1>3 DEF Page
<1>8. ASSUME NEW r \in InPage(rows)
      PROVE  old.since < rows[r].seq /\ rows[r].seq <= db.counter
  <2>1. CASE r \in page
    <3>1. r \in new
      BY <2>1 DEF Pages
    <3>2. QED
      BY <1>3, <2>1, <3>1 DEF Newer, FileOK
  <2>2. CASE r \notin page
    <3>1. r \in InPage(old.rows) /\ rows[r] = old.rows[r]
      BY <1>8, <2>2 DEF InPage
    <3>2. QED
      BY <1>1, <1>4, <3>1 DEF IInv, PullOK
  <2>3. QED
    BY <2>1, <2>2
<1> HIDE DEF rows
<1>9. old.table + 1 \in Nat
  BY <1>2
<1>10. p \in Pull /\ p.rows = rows /\ p.since = old.since /\ p.seq = old.seq
  <2>1. ASSUME NEW o \in Pull, NEW t \in Nat
        PROVE  LET q == [o EXCEPT !.table = t, !.more = more, !.rows = rows] IN
               q \in Pull /\ q.rows = rows /\ q.since = o.since /\ q.seq = o.seq
    BY <1>7 DEF Pull
  <2>2. QED
    BY <1>1, <1>9, <2>1
<1>11. PullOf(d, p)
  BY <1>4, <1>8, <1>10 DEF PullOf
<1>12. QED
  BY <1>6, <1>11, PullStepKeeps DEF ReadTable

\* The counter is read last, so it is past every row of the answer.
LEMMA ReadCounterKeeps ==
  ASSUME IInv, NEW d \in Devices, ReadCounter(d)
  PROVE  IInv'
<1> DEFINE old == pull[d]
           p   == [old EXCEPT !.seq = db.counter]
<1>1. /\ old # None /\ old \in Pull /\ old.table > Tables /\ old.seq = None
      /\ pull' = [pull EXCEPT ![d] = p] /\ UNCHANGED <<db, txn, clock>>
  BY DEF ReadCounter, IInv, ServerTypeOK
<1>2. db.counter \in Nat
  BY DEF IInv, ServerTypeOK, DB
<1>3. /\ p \in Pull /\ p.rows = old.rows /\ p.since = old.since
      /\ p.table = old.table /\ p.seq = db.counter
  BY <1>1, <1>2 DEF Pull
<1>4. \A r \in InPage(old.rows) :
        old.since < old.rows[r].seq /\ old.rows[r].seq <= db.counter
  BY <1>1 DEF IInv, PullOK
<1>5. PullOf(d, p)
  BY <1>1, <1>3, <1>4 DEF PullOf
<1>6. QED
  BY <1>1, <1>5, PullStepKeeps

\* A pull that is answered, or abandoned, is gone.
LEMMA EndPullKeeps ==
  ASSUME IInv, NEW d \in Devices, EndPull(d)
  PROVE  IInv'
BY PullStepKeeps DEF EndPull
=============================================================================
