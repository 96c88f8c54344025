---------------------------- MODULE BlobsProofs ----------------------------
(***************************************************************************)
(* The file of a sheet is not lost before it is uploaded, and a row names  *)
(* no file that the store does not have, for any devices, sheets, files    *)
(* and bounds.                                                             *)
(*                                                                         *)
(* A first file is safe because nobody else touches it: what an eviction   *)
(* has read, what a view reads and what a pass keeps are sheets whose row  *)
(* names a file, or none that waits (NobodyElse).  So what was attached    *)
(* is what is queued (AttachHolds, QueueHolds), and the device that did    *)
(* holds it, record, file and entry, until the row has its hash (Holds,    *)
(* SomebodyHolds).  Every step is shown to leave all sheets but one of one *)
(* device alone (Kept, Reaches), and that one at home (Homely).  The store *)
(* has what rows name because an upload has verified its object before the *)
(* row is written, and a purge takes only what nobody wrote to for a month *)
(* (ObjectsHold).                                                          *)
(***************************************************************************)
EXTENDS Blobs, TLAPS

-----------------------------------------------------------------------------
(* The inductive invariant.  *)

Task ==
  [op : {"none", "upload", "keep", "view", "attach", "replace", "remove"},
   at : {"idle", "next", "get", "read", "url", "assemble", "verify", "write",
         "done", "failed", "drop", "row", "pin", "pinned", "body",
         "file", "record", "entry"},
   s : Sheets \cup {None}, sha : Shas, rec : Blobs,
   bytes : Shas \cup {"empty"}, todo : SUBSET (Sheets \X Files),
   want : SUBSET Sheets]

\* where a task stands, and what it has by then
Uploading(r) ==
  /\ r.op = "upload" /\ r.s \in Sheets /\ r.sha \in Files
  /\ r.at \in {"get", "read", "url", "assemble", "verify", "write", "done", "failed", "drop"}
Keeping(r) ==
  /\ r.op = "keep" /\ r.s \in Sheets /\ r.sha \in Files
  /\ r.at \in {"pin", "pinned", "body", "file", "record"}
Viewing(r) ==
  /\ r.op = "view" /\ r.s \in Sheets
  /\ r.at \in {"get", "read", "row", "body", "file", "record"}
  /\ r.at \in {"body", "file", "record"} => r.sha \in Files
Filing(r) ==
  /\ r.op \in {"attach", "replace"} /\ r.s \in Sheets /\ r.sha \in Files /\ r.bytes = r.sha
  /\ r.at \in {"file", "record", "entry"}
Removing(r) ==
  r.op = "remove" /\ r.s \in Sheets /\ r.at \in {"drop", "entry"}
Between(r) ==
  /\ r.op \in {"upload", "keep"} /\ r.at = "next"
  /\ r.s = None /\ r.rec = NoBlob

QueueStage(r) == r = Idle \/ Between(r) \/ Uploading(r) \/ Keeping(r)
PersonStage(r) == r = Idle \/ Viewing(r) \/ Filing(r) \/ Removing(r)
HasRead(r) ==
  /\ r.at \in {"read", "pinned"} => r.rec # NoBlob
  /\ r.at = "file" => r.bytes # None

Stages ==
  /\ \A d \in Devices : QueueStage(task[Queuer(d)]) /\ PersonStage(task[Person(d)])
  /\ \A t \in Tasks : HasRead(task[t])

\* a sheet begins on one device, and a hash once heard of is never unheard
RowsAgree ==
  /\ \A d \in Devices, s \in Sheets :
       /\ row[d][s].st = "none" => row[d][s].sha = None
       /\ Known(s) /\ row[d][s].sha # None => sheets[s].sha # None
  /\ \A s \in Sheets : sheets[s].st = "none" =>
       /\ sheets[s].sha = None
       /\ \A d \in Devices : row[d][s].sha = None
       /\ \A d, e \in Devices : row[d][s].st # "none" /\ row[e][s].st # "none" => d = e

\* nobody writes over the first file of a sheet, before it is up, but those who changed it
Waiting(d, s) == row[d][s].sha = None

NobodyElse(d, s) ==
  /\ Waiting(d, s) =>
       /\ blob[d][s].pin # "opportunistic"
       /\ s \notin evicting[d]
  /\ \A t \in {Queuer(d), Person(d)} : task[t].s = s =>
       /\ Waiting(d, s) =>
            /\ task[t].rec.pin # "opportunistic"
            /\ task[t].op # "keep"
            /\ task[t].op = "view" =>
                 task[t].at \in {"get", "read", "row"} /\ task[t].sha = None
       /\ task[t].op = "remove" => row[d][s].st = "deleted"
       /\ task[t].op = "replace" => <<d, s>> \in replaced

InQueue(d, s, f) ==
  \/ upload[d][s] = f
  \/ task[Queuer(d)].s = s /\ task[Queuer(d)].sha = f
  \/ <<s, f>> \in task[Queuer(d)].todo

Unqueued(d, s) == \A f \in Files : ~InQueue(d, s, f)

\* what was never heard of is in nobody's hands
NothingEarly(d, s) ==
  row[d][s].st = "none" =>
    Unqueued(d, s) /\ \A t \in {Queuer(d), Person(d)} : task[t].s # s

Attaching(d, s) == task[Person(d)].op = "attach" /\ task[Person(d)].s = s
Cut(d, s) == <<d, s>> \in cut

AttachHolds(d, s) ==
  Attaching(d, s) /\ Waiting(d, s) =>
    /\ Unqueued(d, s)
    /\ task[Person(d)].at # "file" => Cut(d, s) \/ file[d][s] = task[Person(d)].sha
    /\ task[Person(d)].at = "entry" => blob[d][s] # NoBlob

\* what is queued is what the device holds
QueueHolds(d, s) ==
  /\ Waiting(d, s) /\ row[d][s].st # "deleted" /\ ~Attaching(d, s)
  /\ ~Cut(d, s) /\ <<d, s>> \notin replaced
  => \A f \in Files : InQueue(d, s, f) => f = file[d][s]

AtHome(d, s) ==
  NobodyElse(d, s) /\ NothingEarly(d, s) /\ AttachHolds(d, s) /\ QueueHolds(d, s)

Queued(d, s) ==
  /\ upload[d][s] # None /\ blob[d][s] # NoBlob /\ file[d][s] # None
  /\ task[Queuer(d)].s = s => task[Queuer(d)].at # "drop"

\* the device that will upload the first file of a sheet, or why it will not
Holds(d, s) ==
  \/ Cut(d, s)
  \/ row[d][s].st = "deleted"
  \/ row[d][s] = [st |-> "live", sha |-> None] /\ (Attaching(d, s) \/ Queued(d, s))

\* no file of it has been uploaded
Open(s) == sheets[s].st \in {"none", "live"} /\ sheets[s].sha = None

SomebodyHolds ==
  /\ \A s \in Sheets : Open(s) =>
       IF sheets[s].st = "live" THEN \E d \in Devices : Holds(d, s)
       ELSE \A d \in Devices : row[d][s].st # "none" => Holds(d, s)
  /\ \A t \in Tasks : task[t].at = "done" => ~Open(task[t].s)

\* what a row names is in the store, and what an upload has verified; what nobody
\* wrote to for a month is there, and nobody is about to write to it
ObjectsHold ==
  /\ RowHasItsObject
  /\ \A f \in Files : objects[f] # None => objects[f] = f \/ f \in spoiled
  /\ \A t \in Tasks : task[t].at = "write" =>
       objects[task[t].sha] = task[t].sha \/ task[t].sha \in spoiled
  /\ sweep \subseteq old \cup spoiled
  /\ \A f \in old : objects[f] # None \/ f \in spoiled
  /\ \A t \in Tasks : task[t].at = "assemble" => task[t].sha \notin old \ spoiled

BlobsInv ==
  /\ BlobsTypeOK
  /\ Stages
  /\ RowsAgree
  /\ \A d \in Devices, s \in Sheets : AtHome(d, s)
  /\ SomebodyHolds
  /\ ObjectsHold
-----------------------------------------------------------------------------
(* Types.  *)

\* Every task is a record of its kind.
LEMMA ATask == \A t \in Tasks : BlobsTypeOK => task[t] \in Task
  BY DEF BlobsTypeOK, Task

\* A device has two tasks, its queue's and its person's, and shares none.
LEMMA TwoTasks ==
  /\ \A d \in Devices : Queuer(d) \in Tasks /\ Person(d) \in Tasks
  /\ \A d \in Devices : Queuer(d) # Person(d) /\ Of(Queuer(d)) = d /\ Of(Person(d)) = d
  /\ \A t \in Tasks : Of(t) \in Devices /\ t \in {Queuer(Of(t)), Person(Of(t))}
  /\ \A c, d \in Devices : Queuer(c) # Person(d)
       /\ (c # d => Queuer(c) # Queuer(d) /\ Person(c) # Person(d))
  BY DEF Tasks, Queuer, Person, Of

\* A task begins idle, with no record of a file.
LEMMA IdleIsATask == Idle \in Task /\ NoBlob \in Blobs /\ NoBlob.pin = "none" /\ NoBlob.sha = None
  BY DEF Idle, Task, Shas, Blobs, NoBlob

Ops    == {"none", "upload", "keep", "view", "attach", "replace", "remove"}
Places ==
  {"idle", "next", "get", "read", "url", "assemble", "verify", "write", "done", "failed", "drop",
   "row", "pin", "pinned", "body", "file", "record", "entry"}
TaskSet ==
  [op : Ops, at : Places, s : Sheets \cup {None}, sha : Shas, rec : Blobs,
   bytes : Shas \cup {"empty"}, todo : SUBSET (Sheets \X Files), want : SUBSET Sheets]

\* A task, with what it does and where it stands named.
LEMMA TaskIsSet == Task = TaskSet
  BY DEF Task, TaskSet, Ops, Places

\* m is r at another place; what it says of the sheet is as before
Relocated(r, m, at) ==
  /\ m \in Task /\ m.at = at
  /\ m.op = r.op /\ m.s = r.s /\ m.sha = r.sha

\* A task that goes to a place, and what it takes there.
LEMMA TaskGoes ==
  ASSUME NEW r \in Task, NEW at \in Places
  PROVE  LET m == [r EXCEPT !.at = at]
         IN  Relocated(r, m, at) /\ m.rec = r.rec /\ m.bytes = r.bytes
  BY TaskIsSet DEF TaskSet, Relocated

LEMMA TaskTakesRecord ==
  ASSUME NEW r \in Task, NEW at \in Places, NEW rec \in Blobs
  PROVE  LET m == [r EXCEPT !.at = at, !.rec = rec]
         IN  Relocated(r, m, at) /\ m.rec = rec /\ m.bytes = r.bytes
  BY TaskIsSet DEF TaskSet, Relocated

LEMMA TaskTakesBytes ==
  ASSUME NEW r \in Task, NEW at \in Places, NEW bytes \in Shas \cup {"empty"}
  PROVE  LET m == [r EXCEPT !.at = at, !.bytes = bytes]
         IN  Relocated(r, m, at) /\ m.rec = r.rec /\ m.bytes = bytes
  BY TaskIsSet DEF TaskSet, Relocated

LEMMA TaskStartsOver ==
  ASSUME NEW r \in Task, NEW at \in Places
  PROVE  LET m == [r EXCEPT !.at = at, !.rec = NoBlob, !.bytes = None]
         IN  Relocated(r, m, at) /\ m.rec = NoBlob /\ m.bytes = None
<1> DEFINE m == [r EXCEPT !.at = at, !.rec = NoBlob, !.bytes = None]
<1>1. NoBlob \in Blobs /\ None \in Shas \cup {"empty"}
  BY IdleIsATask DEF Shas
<1>2. m \in Task
  BY <1>1, TaskIsSet DEF TaskSet
<1>3. m.at = at /\ m.op = r.op /\ m.s = r.s /\ m.sha = r.sha /\ m.rec = NoBlob /\ m.bytes = None
  BY TaskIsSet DEF TaskSet
<1>4. QED
  BY <1>2, <1>3 DEF Relocated

\* A task of its own is put in place.
LEMMA PutTask ==
  ASSUME BlobsTypeOK, NEW t \in Tasks, NEW r \in Task, Put(t, r)
  PROVE  /\ task' \in [Tasks -> Task] /\ task'[t] = r
         /\ \A u \in Tasks : u # t => task'[u] = task[u]
  BY DEF Put, BlobsTypeOK, Task

\* A task that goes to another place keeps its other fields.
LEMMA GoTask ==
  ASSUME BlobsTypeOK, NEW t \in Tasks, NEW at, [task[t] EXCEPT !.at = at] \in Task, Go(t, at)
  PROVE  Put(t, [task[t] EXCEPT !.at = at])
  BY DEF Go, Put, BlobsTypeOK, Task

\* What comes after a sheet: the next one of the pass, or nothing.
LEMMA NextTask ==
  ASSUME NEW r \in Task
  PROVE  /\ NextOf(r) \in Task
         /\ \/ NextOf(r) = Idle
            \/ Between(NextOf(r))
         /\ r.op \in {"upload", "keep"} =>
              /\ Between(NextOf(r)) /\ NextOf(r).op = r.op
              /\ NextOf(r).todo = r.todo /\ NextOf(r).want = r.want
         /\ r.op \notin {"upload", "keep"} => NextOf(r) = Idle
         /\ NextOf(r).s = None /\ NextOf(r).sha = None /\ NextOf(r).at \in {"idle", "next"}
         /\ NextOf(r).rec = NoBlob /\ NextOf(r).rec.pin = "none"
<1>1. CASE r.op \in {"upload", "keep"}
  <2> DEFINE n == [Idle EXCEPT !.op = r.op, !.at = "next", !.todo = r.todo, !.want = r.want]
  <2>1. NextOf(r) = n
    BY <1>1 DEF NextOf
  <2>2. /\ n.op = r.op /\ n.at = "next" /\ n.s = None /\ n.sha = None /\ n.rec = NoBlob
        /\ n.todo = r.todo /\ n.want = r.want
    BY DEF Idle
  <2>3. n \in Task
    BY <1>1, IdleIsATask DEF Task
  <2> HIDE DEF n
  <2>4. QED
    BY <1>1, <2>1, <2>2, <2>3, IdleIsATask DEF Between
<1>2. CASE r.op \notin {"upload", "keep"}
  BY <1>2, IdleIsATask DEF NextOf, Idle
<1>3. QED
  BY <1>1, <1>2

DeviceTypes ==
  /\ row \in [Devices -> [Sheets -> [st : {"none", "live", "deleted"}, sha : Shas]]]
  /\ blob \in [Devices -> [Sheets -> Blobs]]
  /\ file \in [Devices -> [Sheets -> Shas \cup {"empty"}]]
  /\ upload \in [Devices -> [Sheets -> Shas]]
  /\ evicting \in [Devices -> SUBSET Sheets]

ServerTypes ==
  /\ sheets \in [Sheets -> [st : {"none", "live", "deleted", "purged"}, sha : Shas]]
  /\ objects \in [Files -> Shas \cup {"empty"}] /\ old \subseteq Files /\ sweep \subseteq Files

OtherTypes ==
  /\ spoiled \subseteq Files /\ cut \subseteq Devices \X Sheets /\ replaced \subseteq Devices \X Sheets
  /\ changes \in 0..MaxChanges /\ views \in 0..MaxViews /\ faults \in 0..MaxFaults

\* The type invariant, part by part: the device's, the server's, the rest.
LEMMA TypeParts ==
  BlobsTypeOK <=> DeviceTypes /\ ServerTypes /\ OtherTypes /\ task \in [Tasks -> Task]
  BY DEF BlobsTypeOK, DeviceTypes, ServerTypes, OtherTypes, Task
-----------------------------------------------------------------------------
(* Where the tasks stand.  *)

StageFor(t, r) ==
  /\ HasRead(r)
  /\ t = Queuer(Of(t)) => QueueStage(r)
  /\ t = Person(Of(t)) => PersonStage(r)

Moved(t) == \E r \in Task : Put(t, r) /\ StageFor(t, r)

\* Where each task stands, by whose it is.
LEMMA StagesFor == \A t \in Tasks : Stages => StageFor(t, task[t])
  BY TwoTasks DEF Stages, StageFor

\* A task that moves to a place of its kind leaves the others where they are.
LEMMA MovedStages ==
  ASSUME BlobsTypeOK, Stages, NEW t \in Tasks, Moved(t)
  PROVE  Stages' /\ task' \in [Tasks -> Task]
<1>1. PICK r \in Task : Put(t, r) /\ StageFor(t, r)
  BY DEF Moved
<1>2. /\ task' \in [Tasks -> Task] /\ task'[t] = r
      /\ \A u \in Tasks : u # t => task'[u] = task[u]
  BY <1>1, PutTask
<1>3. \A u \in Tasks : StageFor(u, task'[u])
  BY <1>1, <1>2, StagesFor
<1>4. QED
  BY <1>2, <1>3, TwoTasks DEF Stages, StageFor

\* A task that is done with a sheet moves to a place of its kind.
LEMMA OverMoves ==
  ASSUME BlobsTypeOK, Stages, NEW t \in Tasks, Over(t)
  PROVE  Moved(t)
<1>1. task[t] \in Task
  BY ATask
<1>2. StageFor(t, task[t])
  BY StagesFor
<1>3. HasRead(NextOf(task[t]))
  BY <1>1, NextTask DEF HasRead
<1>4. QueueStage(NextOf(task[t]))
  BY <1>1, NextTask DEF QueueStage
<1>5. t = Person(Of(t)) => NextOf(task[t]) = Idle
  BY <1>1, <1>2, NextTask DEF StageFor, PersonStage, Idle, Viewing, Filing, Removing
<1>6. StageFor(t, NextOf(task[t]))
  BY <1>3, <1>4, <1>5 DEF StageFor, PersonStage
<1>7. QED
  BY <1>1, <1>6, NextTask DEF Over, Moved

\* A task whose record stays what it is goes on to the next place of its kind.
LEMMA GoMoves ==
  ASSUME BlobsTypeOK, Stages, NEW t \in Tasks, NEW at, Go(t, at),
         StageFor(t, [task[t] EXCEPT !.at = at]),
         at \in {"idle", "next", "get", "read", "url", "assemble", "verify", "write",
                 "done", "failed", "drop", "row", "pin", "pinned", "body",
                 "file", "record", "entry"}
  PROVE  Moved(t) /\ Put(t, [task[t] EXCEPT !.at = at])
<1>1. task[t] \in Task
  BY ATask
<1>2. [task[t] EXCEPT !.at = at] \in Task
  BY <1>1 DEF Task
<1>3. QED
  BY <1>2, GoTask DEF Moved

\* Where an upload, or a view, goes while it reads its file.
LEMMA ReadStage ==
  ASSUME NEW t \in Tasks, NEW r, NEW m, StageFor(t, r), r.at \in {"get", "read"},
         m.op = r.op, m.s = r.s, m.sha = r.sha,
         \/ m.at = "read" /\ m.rec # NoBlob
         \/ m.at = "url" /\ r.op # "view"
         \/ m.at = "drop" /\ r.op # "view"
         \/ m.at = "row" /\ r.op = "view"
  PROVE  StageFor(t, m)
<1>1. HasRead(m)
  BY DEF HasRead
<1>2. t = Queuer(Of(t)) => Uploading(m)
  <2>1. t = Queuer(Of(t)) => Uploading(r)
    BY DEF StageFor, QueueStage, Idle, Between, Uploading, Keeping
  <2>2. QED
    BY <2>1 DEF Uploading
<1>3. t = Person(Of(t)) => Viewing(m)
  <2>1. t = Person(Of(t)) => Viewing(r)
    BY DEF StageFor, PersonStage, Idle, Viewing, Filing, Removing
  <2>2. QED
    BY <2>1 DEF Viewing
<1>4. QED
  BY <1>1, <1>2, <1>3 DEF StageFor, QueueStage, PersonStage

\* `get` goes from the record to the file, to the row, or drops the entry.
LEMMA GetRecordMoves ==
  ASSUME BlobsTypeOK, Stages, NEW t \in Tasks, GetRecord(t) PROVE Moved(t)
<1> DEFINE r == task[t]
           rec == blob[Of(t)][r.s]
           at == IF r.op = "view" THEN "row" ELSE "drop"
           gone == [r EXCEPT !.at = at]
           there == [r EXCEPT !.at = "read", !.rec = rec]
<1>1. /\ r \in Task /\ StageFor(t, r) /\ r.at = "get"
      /\ IF rec = NoBlob THEN Put(t, gone) ELSE Put(t, there)
  BY ATask, StagesFor DEF GetRecord, At
<1>2. r.s \in Sheets
  BY <1>1, TwoTasks DEF StageFor, QueueStage, PersonStage, Idle, Between, Uploading, Keeping, Viewing, Filing, Removing
<1>3. rec \in Blobs
  BY <1>2, TwoTasks DEF BlobsTypeOK
<1>4. Relocated(r, gone, at) /\ at \in {"row", "drop"} /\ (at = "row" <=> r.op = "view")
  <2>1. at \in {"row", "drop"} /\ (at = "row" <=> r.op = "view")
    OBVIOUS
  <2>2. at \in Places
    BY DEF Places
  <2> HIDE DEF at
  <2>3. QED
    BY <1>1, <2>1, <2>2, TaskGoes
<1>5. Relocated(r, there, "read") /\ there.rec = rec
  <2> HIDE DEF rec
  <2>1. "read" \in Places
    BY DEF Places
  <2>2. QED
    BY <1>1, <1>3, <2>1, TaskTakesRecord
<1> HIDE DEF at, gone, there, rec
<1>6. StageFor(t, gone)
  BY <1>1, <1>2, <1>4, ReadStage DEF Relocated
<1>7. rec # NoBlob => StageFor(t, there)
  BY <1>1, <1>2, <1>5, ReadStage DEF Relocated
<1>8. QED
  BY <1>1, <1>4, <1>5, <1>6, <1>7 DEF Moved, Relocated

\* Having the file, an upload asks for its address and a view looks at the row.
LEMMA GetFileMoves ==
  ASSUME BlobsTypeOK, Stages, NEW t \in Tasks, GetFile(t) PROVE Moved(t)
<1> DEFINE r == task[t]
           held == file[Of(t)][r.s]
           on == IF r.op = "view" THEN "row" ELSE "url"
           off == IF r.op = "view" THEN "row" ELSE "drop"
           there == [r EXCEPT !.at = on, !.bytes = held]
           gone == [r EXCEPT !.at = off]
<1>1. r \in Task /\ StageFor(t, r) /\ r.at = "read"
  BY ATask, StagesFor DEF GetFile, At
<1>2. r.s \in Sheets
  BY <1>1, TwoTasks DEF StageFor, QueueStage, PersonStage, Idle, Between, Uploading, Keeping,
                        Viewing, Filing, Removing
<1>3. held \in Shas \cup {"empty"} /\ on \in Places
  BY <1>2, TwoTasks DEF BlobsTypeOK, Places
<1>4. Relocated(r, there, on)
  <2> HIDE DEF held, on
  <2>1. QED
    BY <1>1, <1>3, TaskTakesBytes
<1>5. Relocated(r, gone, off)
  BY <1>1, TaskGoes DEF Places
<1>6. Put(t, there) \/ Put(t, gone)
  BY DEF GetFile, Put, Go
<1> HIDE DEF there, gone
<1>7. StageFor(t, there)
  BY <1>1, <1>4, ReadStage DEF Relocated
<1>8. StageFor(t, gone)
  BY <1>1, <1>5, ReadStage DEF Relocated
<1>9. QED
  BY <1>4, <1>5, <1>6, <1>7, <1>8 DEF Moved, Relocated

\* The steps after which the task goes on to another sheet, or ends.
LEMMA LastMoves ==
  ASSUME BlobsTypeOK, Stages, NEW t \in Tasks,
         \/ QueueUpload(t) \/ RemoveEntry(t) \/ DropEntry(t) \/ KeepEntry(t) \/ PinWrite(t)
  PROVE  Moved(t)
  BY OverMoves DEF QueueUpload, RemoveEntry, DropEntry, KeepEntry, PinWrite

\* A task may stop anywhere.
LEMMA PutIdleMoves ==
  ASSUME BlobsTypeOK, NEW t \in Tasks, Put(t, Idle) PROVE Moved(t)
<1>1. StageFor(t, Idle)
  BY DEF StageFor, HasRead, QueueStage, PersonStage, Idle
<1>2. QED
  BY <1>1, IdleIsATask DEF Moved

\* The places a step goes to from where it is taken.
Leads(t, from, to) ==
  /\ task[t].at = from /\ Go(t, to)
  /\ \/ from = "file" /\ to = "record"
     \/ from = "record" /\ to = "entry" /\ task[t].op \in {"attach", "replace"}
     \/ from = "drop" /\ to = "entry" /\ task[t].op = "remove"
     \/ from = "url" /\ to \in {"failed", "verify", "assemble"}
     \/ from = "assemble" /\ to = "verify"
     \/ from = "verify" /\ to \in {"failed", "write"}
     \/ from = "write" /\ to \in {"failed", "done"}
     \/ from = "done" /\ to = "failed"
     \/ from = "assemble" /\ to = "failed"

\* The steps of an upload, a view and a filing lead to places of their kind.
LEMMA LeadsMoves ==
  ASSUME BlobsTypeOK, Stages, NEW t \in Tasks, NEW from, NEW to, Leads(t, from, to)
  PROVE  Moved(t)
<1> DEFINE r == task[t]
           m == [r EXCEPT !.at = to]
<1>1. r \in Task /\ StageFor(t, r) /\ r.at = from /\ Go(t, to)
  BY ATask, StagesFor DEF Leads
<1>2. to \in {"entry", "record", "failed", "verify", "assemble", "write", "done"}
  BY DEF Leads
<1>3. m \in Task
  BY <1>1, <1>2 DEF Task
<1>4. m.at = to /\ m.op = r.op /\ m.s = r.s /\ m.sha = r.sha /\ m.rec = r.rec /\ m.bytes = r.bytes
  BY <1>1 DEF Task
<1>5. StageFor(t, m)
  <2>1. HasRead(m)
    BY <1>1, <1>2, <1>4 DEF HasRead
  <2> HIDE DEF m
  <2>2. t = Queuer(Of(t)) => QueueStage(m)
    BY <1>1, <1>4 DEF Leads, StageFor, QueueStage, Idle, Between, Uploading, Keeping
  <2>3. t = Person(Of(t)) => PersonStage(m)
    BY <1>1, <1>4 DEF Leads, StageFor, PersonStage, Idle, Viewing, Filing, Removing
  <2>4. QED
    BY <2>1, <2>2, <2>3 DEF StageFor
<1>6. QED
  BY <1>1, <1>2, <1>3, <1>5, GoMoves

\* What the server answers leads an upload on.
LEMMA ServerMoves ==
  ASSUME BlobsTypeOK, Stages, NEW t \in Tasks,
         SheetUploadUrl(t) \/ Assemble(t) \/ VerifyStored(t) \/ CompleteSheet(t)
  PROVE  \E from, to : Leads(t, from, to)
<1>1. CASE SheetUploadUrl(t)
  <2>1. \E to \in {"failed", "verify", "assemble"} : Go(t, to)
    BY <1>1 DEF SheetUploadUrl
  <2>2. QED
    BY <1>1, <2>1 DEF SheetUploadUrl, At, Leads
<1>2. CASE Assemble(t)
  BY <1>2 DEF Assemble, At, Leads
<1>3. CASE VerifyStored(t)
  <2>1. \E to \in {"failed", "write"} : Go(t, to)
    BY <1>3 DEF VerifyStored
  <2>2. QED
    BY <1>3, <2>1 DEF VerifyStored, At, Leads
<1>4. CASE CompleteSheet(t)
  BY <1>4 DEF CompleteSheet, At, Leads
<1>5. QED
  BY <1>1, <1>2, <1>3, <1>4

\* What is written on the device leads on.
LEMMA ClientMoves ==
  ASSUME BlobsTypeOK, Stages, NEW t \in Tasks,
         PutFile(t) \/ PutRecord(t) \/ RemoveFile(t)
  PROVE  Moved(t)
  BY LeadsMoves, OverMoves DEF PutFile, PutRecord, RemoveFile, Leads, At

\* A view whose file is not there asks the server for it.
LEMMA ViewCachedMoves ==
  ASSUME BlobsTypeOK, Stages, NEW t \in Tasks, ViewCached(t) PROVE Moved(t)
<1> DEFINE r == task[t]
           m == [r EXCEPT !.at = "body", !.rec = NoBlob, !.bytes = None]
<1>1. r \in Task /\ StageFor(t, r) /\ r.at = "row" /\ r.op = "view"
  BY ATask, StagesFor DEF ViewCached, At
<1>2. Relocated(r, m, "body")
  BY <1>1, TaskStartsOver DEF Places
<1>3. Over(t) \/ (Put(t, m) /\ r.sha # None)
  BY DEF ViewCached
<1>4. r.sha \in Shas
  BY <1>1, TaskIsSet DEF TaskSet
<1> HIDE DEF m
<1>5. r.sha # None => StageFor(t, m)
  <2>1. t # Queuer(Of(t)) /\ Viewing(r)
    BY <1>1, TwoTasks DEF StageFor, QueueStage, PersonStage, Idle, Between, Uploading, Keeping,
       Viewing, Filing, Removing
  <2>2. r.sha # None => HasRead(m) /\ Viewing(m)
    BY <1>2, <1>4, <2>1 DEF Relocated, HasRead, Viewing, Shas
  <2>3. QED
    BY <2>1, <2>2 DEF StageFor, PersonStage
<1>6. QED
  BY <1>2, <1>3, <1>5, OverMoves DEF Moved, Relocated

\* A pass takes the next upload with its hash, or begins to keep.
LEMMA NextUploadMoves ==
  ASSUME BlobsTypeOK, Stages, NEW t \in Tasks, NextUpload(t) PROVE Moved(t)
<1> DEFINE r == task[t]
           m(u) == [r EXCEPT !.at = "get", !.s = u[1], !.sha = u[2], !.todo = @ \ {u}]
           n == [r EXCEPT !.op = "keep"]
<1>1. r \in Task /\ StageFor(t, r) /\ r.at = "next" /\ r.op = "upload"
  BY ATask, StagesFor DEF NextUpload, At
<1>2. ASSUME NEW u \in r.todo, Put(t, m(u)) PROVE Moved(t)
  <2>1. u[1] \in Sheets /\ u[2] \in Files
    BY <1>1 DEF Task
  <2>2. m(u) \in Task
    BY <1>1, <2>1 DEF Task, Shas
  <2>3. StageFor(t, m(u))
    BY <1>1, <2>1, TwoTasks DEF StageFor, HasRead, QueueStage, PersonStage, Idle, Between,
                        Uploading, Keeping, Viewing, Filing, Removing, Task
  <2>4. QED
    BY <1>2, <2>2, <2>3 DEF Moved
<1>3. CASE Put(t, n)
  <2>1. n \in Task
    BY <1>1 DEF Task
  <2>2. StageFor(t, n)
    BY <1>1, TwoTasks DEF StageFor, HasRead, QueueStage, PersonStage, Idle, Between,
                        Uploading, Keeping, Viewing, Filing, Removing, Task
  <2>3. QED
    BY <1>3, <2>1, <2>2 DEF Moved
<1>4. QED
  BY <1>2, <1>3 DEF NextUpload

\* A pass takes the next sheet to keep, whose row names a file.
LEMMA NextWantedMoves ==
  ASSUME BlobsTypeOK, Stages, NEW t \in Tasks, NextWanted(t) PROVE Moved(t)
<1> DEFINE r == task[t]
           d == Of(t)
           rest(s) == [r EXCEPT !.want = @ \ {s}]
           m(s) == [rest(s) EXCEPT !.at = IF Has(d, s, row[d][s].sha) THEN "pin" ELSE "body",
                                   !.s = s, !.sha = row[d][s].sha]
<1>1. r \in Task /\ StageFor(t, r) /\ r.at = "next" /\ r.op = "keep"
  BY ATask, StagesFor DEF NextWanted, At
<1>2. Put(t, Idle) \/ \E s \in r.want : \/ Put(t, rest(s))
                                        \/ row[d][s].sha # None /\ Put(t, m(s))
  BY DEF NextWanted
<1>3. ASSUME NEW s \in r.want, Put(t, rest(s)) PROVE Moved(t)
  <2>1. rest(s) \in Task
    BY <1>1 DEF Task
  <2>2. StageFor(t, rest(s))
    BY <1>1, TwoTasks DEF StageFor, HasRead, QueueStage, PersonStage, Idle, Between,
                        Uploading, Keeping, Viewing, Filing, Removing, Task
  <2>3. QED
    BY <1>3, <2>1, <2>2 DEF Moved
<1>4. ASSUME NEW s \in r.want, row[d][s].sha # None, Put(t, m(s)) PROVE Moved(t)
  <2>1. s \in Sheets /\ row[d][s].sha \in Files
    BY <1>1, <1>4, TwoTasks DEF Task, BlobsTypeOK, Shas
  <2> DEFINE sha == row[d][s].sha
             at == IF Has(d, s, sha) THEN "pin" ELSE "body"
             p == [rest(s) EXCEPT !.at = at, !.s = s, !.sha = sha]
  <2>2. at \in {"pin", "body"} /\ sha \in Files
    BY <2>1
  <2> HIDE DEF at, sha
  <2>3. p \in Task /\ p.op = "keep" /\ p.at = at /\ p.s = s /\ p.sha = sha
    BY <1>1, <2>1, <2>2 DEF Task, Shas
  <2> HIDE DEF p
  <2>4. StageFor(t, p)
    BY <1>1, <2>1, <2>2, <2>3, TwoTasks DEF StageFor, HasRead, QueueStage, PersonStage, Idle,
                        Between, Uploading, Keeping, Viewing, Filing, Removing
  <2>5. Put(t, p)
    BY <1>4 DEF p, at, sha
  <2>6. QED
    BY <2>3, <2>4, <2>5 DEF Moved
<1>5. QED
  BY <1>2, <1>3, <1>4, PutIdleMoves

\* To pin begins with the record there is.
LEMMA PinReadMoves ==
  ASSUME BlobsTypeOK, Stages, NEW t \in Tasks, PinRead(t) PROVE Moved(t)
<1> DEFINE r == task[t]
           rec == blob[Of(t)][r.s]
           m == [r EXCEPT !.at = "pinned", !.rec = rec]
<1>1. r \in Task /\ StageFor(t, r) /\ r.at = "pin"
  BY ATask, StagesFor DEF PinRead, At
<1>2. r.s \in Sheets
  BY <1>1, TwoTasks DEF StageFor, QueueStage, PersonStage, Idle, Between, Uploading, Keeping,
                        Viewing, Filing, Removing
<1>3. rec \in Blobs
  BY <1>2, TwoTasks DEF BlobsTypeOK
<1>4. m \in Task
  BY <1>1, <1>3 DEF Task
<1>5. rec # NoBlob => StageFor(t, m)
  BY <1>1, <1>2, <1>4, TwoTasks DEF StageFor, HasRead, QueueStage, PersonStage, Idle, Between,
                        Uploading, Keeping, Viewing, Filing, Removing, Task
<1>6. Over(t) \/ (rec # NoBlob /\ Put(t, m))
  BY DEF PinRead
<1>7. QED
  BY <1>4, <1>5, <1>6, OverMoves DEF Moved

\* A download has a content.
LEMMA DownloadMoves ==
  ASSUME BlobsTypeOK, Stages, NEW t \in Tasks, Download(t) PROVE Moved(t)
<1> DEFINE r == task[t]
           body == objects[sheets[r.s].sha]
           m == [r EXCEPT !.at = "file", !.bytes = body]
<1>1. r \in Task /\ StageFor(t, r) /\ r.at = "body"
  BY ATask, StagesFor DEF Download, At
<1>2. r.s \in Sheets
  BY <1>1, TwoTasks DEF StageFor, QueueStage, PersonStage, Idle, Between, Uploading, Keeping,
                        Viewing, Filing, Removing
<1>3. sheets[r.s].sha # None => body \in Shas \cup {"empty"}
  BY <1>2 DEF BlobsTypeOK, Shas
<1>4. Over(t) \/ (body # None /\ sheets[r.s].sha # None /\ Put(t, m))
  BY DEF Download
<1>5. ASSUME body # None, sheets[r.s].sha # None, Put(t, m) PROVE Moved(t)
  <2>1. Relocated(r, m, "file") /\ m.bytes = body
    BY <1>1, <1>3, <1>5, TaskTakesBytes DEF Places
  <2> HIDE DEF m
  <2>2. HasRead(m)
    BY <1>5, <2>1 DEF Relocated, HasRead
  <2>3. t = Queuer(Of(t)) => Keeping(m)
    BY <1>1, <2>1 DEF Relocated, StageFor, QueueStage, Idle, Between, Uploading, Keeping
  <2>4. t = Person(Of(t)) => Viewing(m)
    BY <1>1, <2>1 DEF Relocated, StageFor, PersonStage, Idle, Viewing, Filing, Removing
  <2>5. QED
    BY <1>5, <2>1, <2>2, <2>3, <2>4 DEF Moved, Relocated, StageFor, QueueStage, PersonStage
<1>6. QED
  BY <1>4, <1>5, OverMoves

\* What fails, fails at a place of its kind.
LEMMA DisconnectMoves ==
  ASSUME BlobsTypeOK, Stages, NEW t \in Tasks, Disconnect(t) PROVE Moved(t)
<1> DEFINE r == task[t]
           m == [r EXCEPT !.at = "failed"]
<1>1. r \in Task /\ StageFor(t, r)
  BY ATask, StagesFor
<1>2. m \in Task
  BY <1>1 DEF Task
<1>3. ASSUME r.op = "upload", r.at \in {"url", "assemble", "verify", "write", "done"}, Go(t, "failed")
      PROVE Moved(t)
  <2>1. StageFor(t, m)
    BY <1>1, <1>2, <1>3, TwoTasks DEF StageFor, HasRead, QueueStage, PersonStage, Idle, Between,
                        Uploading, Keeping, Viewing, Filing, Removing, Task
  <2>2. QED
    BY <1>3, <2>1, GoMoves
<1>4. QED
  BY <1>3, OverMoves DEF Disconnect

\* A pass begins between two sheets.
LEMMA StartMoves ==
  ASSUME BlobsTypeOK, Stages, NEW d \in Devices, StartPass(d) PROVE Moved(Queuer(d))
<1> DEFINE todo == {u \in Sheets \X Files : upload[d][u[1]] = u[2]}
           want == {s \in Sheets : d \in Keepers /\ row[d][s].st = "live" /\ row[d][s].sha # None}
           m == [Idle EXCEPT !.op = "upload", !.at = "next", !.todo = todo, !.want = want]
<1>1. todo \in SUBSET (Sheets \X Files) /\ want \in SUBSET Sheets
  OBVIOUS
<1>2. Put(Queuer(d), m)
  BY DEF StartPass
<1> HIDE DEF todo, want
<1>3. m \in Task
  BY <1>1, IdleIsATask, TaskIsSet DEF TaskSet, Ops, Places
<1>4. m.op = "upload" /\ m.at = "next" /\ m.s = None /\ m.rec = NoBlob
  BY DEF Idle
<1> HIDE DEF m
<1>5. StageFor(Queuer(d), m)
  BY <1>4, TwoTasks DEF StageFor, HasRead, QueueStage, Between
<1>6. QED
  BY <1>2, <1>3, <1>5 DEF Moved

\* A person begins at the file, at the record, or at what is dropped.
LEMMA PersonMoves ==
  ASSUME BlobsTypeOK, Stages, NEW d \in Devices,
         Attach(d) \/ Replace(d) \/ Remove(d) \/ View(d)
  PROVE  Moved(Person(d))
<1> DEFINE t == Person(d)
           file_(op, s, f) == [Idle EXCEPT !.op = op, !.at = "file", !.s = s, !.sha = f, !.bytes = f]
           view(s) == [Idle EXCEPT !.op = "view", !.at = "get", !.s = s, !.sha = row[d][s].sha]
           drop(s) == [Idle EXCEPT !.op = "remove", !.at = "drop", !.s = s]
<1>1. ASSUME NEW op \in {"attach", "replace"}, NEW s \in Sheets, NEW f \in Files, Put(t, file_(op, s, f))
      PROVE  Moved(t)
  <2> DEFINE m == file_(op, s, f)
  <2>1. m \in Task
    <3>1. op \in Ops /\ "file" \in Places /\ f \in Shas
      BY DEF Ops, Places, Shas
    <3>2. QED
      BY <3>1, IdleIsATask, TaskIsSet DEF TaskSet, Shas
  <2>2. m.op = op /\ m.at = "file" /\ m.s = s /\ m.sha = f /\ m.bytes = f
    BY DEF Idle
  <2>3. Put(t, m)
    BY <1>1
  <2> HIDE DEF m
  <2>4. HasRead(m) /\ Filing(m)
    BY <2>2, BlobsAssumption DEF HasRead, Filing
  <2>5. QED
    BY <2>1, <2>3, <2>4, TwoTasks DEF Moved, StageFor, PersonStage
<1>2. ASSUME NEW s \in Sheets, Put(t, view(s)) PROVE Moved(t)
  <2>1. row[d][s].sha \in Shas
    BY DEF BlobsTypeOK
  <2> DEFINE m == view(s)
  <2>2. m \in Task
    BY <2>1, IdleIsATask, TaskIsSet DEF TaskSet, Ops, Places
  <2>3. m.op = "view" /\ m.at = "get" /\ m.s = s
    BY DEF Idle
  <2>4. Put(t, m)
    BY <1>2
  <2> HIDE DEF m
  <2>5. HasRead(m) /\ Viewing(m)
    BY <2>3 DEF HasRead, Viewing
  <2>6. QED
    BY <2>2, <2>4, <2>5, TwoTasks DEF Moved, StageFor, PersonStage
<1>3. ASSUME NEW s \in Sheets, Put(t, drop(s)) PROVE Moved(t)
  <2> DEFINE m == drop(s)
  <2>1. m \in Task
    BY IdleIsATask, TaskIsSet DEF TaskSet, Ops, Places
  <2>2. m.op = "remove" /\ m.at = "drop" /\ m.s = s
    BY DEF Idle
  <2>3. Put(t, m)
    BY <1>3
  <2> HIDE DEF m
  <2>4. HasRead(m) /\ Removing(m)
    BY <2>2 DEF HasRead, Removing
  <2>5. QED
    BY <2>1, <2>3, <2>4, TwoTasks DEF Moved, StageFor, PersonStage
<1>4. QED
  BY <1>1, <1>2, <1>3 DEF Attach, Replace, Remove, View

\* A closed app has idle tasks.
LEMMA CloseStages ==
  ASSUME BlobsTypeOK, Stages, NEW d \in Devices, Close(d)
  PROVE  Stages' /\ task' \in [Tasks -> Task]
<1>1. \A t \in Tasks : task'[t] = Idle \/ task'[t] = task[t]
  BY DEF Close
<1>2. task' \in [Tasks -> Task]
  BY ATask, IdleIsATask DEF Close
<1>3. HasRead(Idle)
  BY DEF HasRead, Idle
<1>4. QED
  BY <1>1, <1>2, <1>3, TwoTasks DEF Stages, QueueStage, PersonStage

\* Every step of a task moves it to a place of its kind.
LEMMA WorkMoves ==
  ASSUME BlobsTypeOK, Stages, NEW t \in Tasks, Work(t) PROVE Moved(t)
<1>1. CASE PutRefused(t)
  BY <1>1, PutIdleMoves DEF PutRefused
<1>2. QED
  BY <1>1, GetRecordMoves, GetFileMoves, LastMoves, ServerMoves, LeadsMoves, ClientMoves,
     ViewCachedMoves, NextUploadMoves, NextWantedMoves, PinReadMoves, DownloadMoves DEF Work

\* Each task stands where one of its kind can.
LEMMA StagesKept ==
  ASSUME BlobsTypeOK, Stages, [Next]_vars
  PROVE  Stages' /\ task' \in [Tasks -> Task]
<1>1. CASE \E t \in Tasks : Work(t) \/ Disconnect(t)
  BY <1>1, WorkMoves, DisconnectMoves, MovedStages
<1>2. CASE \E d \in Devices : StartPass(d) \/ Attach(d) \/ Replace(d) \/ Remove(d) \/ View(d)
  BY <1>2, StartMoves, PersonMoves, MovedStages, TwoTasks
<1>3. CASE \E d \in Devices : Close(d)
  BY <1>3, CloseStages
<1>4. CASE UNCHANGED task
  BY <1>4, TypeParts DEF Stages
<1>5. CASE \E d \in Devices : SyncRows(d) \/ Evict(d) \/ EvictNext(d)
  BY <1>4, <1>5 DEF SyncRows, Evict, EvictNext
<1>6. CASE Purge \/ SweepNext \/ Month \/ UNCHANGED vars
  BY <1>4, <1>6 DEF Purge, SweepNext, Month, vars
<1>7. QED
  BY <1>1, <1>2, <1>3, <1>5, <1>6 DEF Next
-----------------------------------------------------------------------------
(* Types.  *)

\* A task that is somewhere has a sheet.
LEMMA HasSheet ==
  ASSUME BlobsTypeOK, Stages, NEW t \in Tasks, task[t].at \notin {"idle", "next"}
  PROVE  /\ task[t] \in Task /\ Of(t) \in Devices /\ task[t].s \in Sheets
         /\ task[t].op \in {"upload", "attach", "replace", "keep"} => task[t].sha \in Files
         /\ task[t].at \in {"url", "assemble", "verify", "write", "failed", "done", "file", "record",
                            "body"} =>
              task[t].sha \in Files
         /\ task[t].at \in {"url", "assemble", "verify", "write", "failed", "done"} =>
              task[t].op = "upload" /\ t = Queuer(Of(t))
  BY ATask, StagesFor, TwoTasks DEF StageFor, QueueStage, PersonStage, Idle, Between, Uploading,
     Keeping, Viewing, Filing, Removing

\* One record is set, the others stay.
LEMMA BlobTypes ==
  ASSUME BlobsTypeOK, NEW d \in Devices, NEW s \in Sheets, NEW b \in Blobs, SetBlob(d, s, b)
  PROVE  /\ blob' \in [Devices -> [Sheets -> Blobs]] /\ blob'[d][s] = b
         /\ \A e \in Devices, q \in Sheets : e # d \/ q # s => blob'[e][q] = blob[e][q]
  BY DEF SetBlob, BlobsTypeOK

\* One file is set, the others stay.
LEMMA FileTypes ==
  ASSUME BlobsTypeOK, NEW d \in Devices, NEW s \in Sheets, NEW f \in Shas \cup {"empty"},
         SetFile(d, s, f)
  PROVE  /\ file' \in [Devices -> [Sheets -> Shas \cup {"empty"}]] /\ file'[d][s] = f
         /\ \A e \in Devices, q \in Sheets : e # d \/ q # s => file'[e][q] = file[e][q]
  BY DEF SetFile, BlobsTypeOK

\* One entry of the queue is set, the others stay.
LEMMA QueueTypes ==
  ASSUME BlobsTypeOK, NEW d \in Devices, NEW s \in Sheets, NEW f \in Shas, Queue(d, s, f)
  PROVE  /\ upload' \in [Devices -> [Sheets -> Shas]] /\ upload'[d][s] = f
         /\ \A e \in Devices, q \in Sheets : e # d \/ q # s => upload'[e][q] = upload[e][q]
  BY DEF Queue, BlobsTypeOK

\* What the steps of a task do to its device.
LEMMA GetFileDoes ==
  ASSUME BlobsTypeOK, Stages, NEW t \in Tasks, GetFile(t)
  PROVE  LET held == file[Of(t)][task[t].s]
             b == IF held = None THEN NoBlob ELSE task[t].rec
         IN /\ task[t].s \in Sheets /\ Of(t) \in Devices /\ task[t] \in Task
            /\ b \in Blobs /\ SetBlob(Of(t), task[t].s, b)
            /\ held # None => b # NoBlob
<1>1. task[t].at = "read" /\ task[t] \in Task /\ HasRead(task[t])
  BY ATask, StagesFor DEF GetFile, At, StageFor
<1>2. QED
  BY <1>1, HasSheet, IdleIsATask DEF GetFile, HasRead, Task

\* `put` ends with a record.
LEMMA PutRecordDoes ==
  ASSUME BlobsTypeOK, Stages, NEW t \in Tasks, PutRecord(t)
  PROVE  LET b == [sha |-> task[t].sha,
                   pin |-> IF task[t].op = "view" THEN "opportunistic" ELSE "pinned"]
         IN /\ task[t].s \in Sheets /\ Of(t) \in Devices /\ task[t] \in Task
            /\ b \in Blobs /\ SetBlob(Of(t), task[t].s, b) /\ b # NoBlob
<1>1. task[t].at = "record"
  BY DEF PutRecord, At
<1>2. task[t].sha \in Files
  BY <1>1, HasSheet
<1>3. QED
  BY <1>1, <1>2, HasSheet, BlobsAssumption DEF PutRecord, Blobs, NoBlob

\* To pin ends with a record.
LEMMA PinWriteDoes ==
  ASSUME BlobsTypeOK, Stages, NEW t \in Tasks, PinWrite(t)
  PROVE  LET b == [task[t].rec EXCEPT !.pin = "pinned"]
         IN /\ task[t].s \in Sheets /\ Of(t) \in Devices /\ task[t] \in Task
            /\ b \in Blobs /\ SetBlob(Of(t), task[t].s, b) /\ b # NoBlob
<1>1. task[t].at = "pinned"
  BY DEF PinWrite, At
<1>2. task[t] \in Task /\ task[t].rec \in Blobs \ {NoBlob}
  BY <1>1, ATask, StagesFor DEF StageFor, HasRead, Task
<1>3. [task[t].rec EXCEPT !.pin = "pinned"] \in Blobs \ {NoBlob}
  BY <1>2, BlobsAssumption DEF Blobs, NoBlob
<1>4. QED
  BY <1>1, <1>2, <1>3, HasSheet DEF PinWrite

\* `put` begins with a file: what it was given, or one that was cut short.
LEMMA PutFileDoes ==
  ASSUME BlobsTypeOK, Stages, NEW t \in Tasks, PutFile(t)
  PROVE  LET d == Of(t)
             s == task[t].s
         IN /\ s \in Sheets /\ d \in Devices /\ task[t] \in Task
            /\ \E f \in Shas \cup {"empty"} :
                 /\ SetFile(d, s, f) /\ f # None
                 /\ \/ f = task[t].bytes /\ cut' = cut /\ faults' = faults
                    \/ cut' = cut \cup {<<d, s>>} /\ faults' = faults + 1 /\ faults < MaxFaults
<1> DEFINE d == Of(t)
           s == task[t].s
<1>1. task[t].at = "file" /\ task[t] \in Task /\ HasRead(task[t])
  BY ATask, StagesFor DEF PutFile, At, StageFor
<1>2. s \in Sheets /\ d \in Devices /\ task[t].bytes \in Shas \cup {"empty"} /\ task[t].bytes # None
  BY <1>1, HasSheet DEF HasRead, Task
<1>3. file[d][s] \in Shas \cup {"empty"}
  BY <1>2 DEF BlobsTypeOK
<1>4. CASE SetFile(d, s, task[t].bytes) /\ UNCHANGED <<cut, faults>>
  BY <1>1, <1>2, <1>4
<1>5. CASE /\ faults < MaxFaults /\ faults' = faults + 1
           /\ cut' = cut \cup {<<d, s>>}
           /\ SetFile(d, s, IF file[d][s] = None THEN "empty" ELSE file[d][s])
  <2> DEFINE f == IF file[d][s] = None THEN "empty" ELSE file[d][s]
  <2>1. f \in Shas \cup {"empty"} /\ f # None
    BY <1>3, BlobsAssumption
  <2>2. QED
    BY <1>1, <1>2, <1>5, <2>1
<1>6. QED
  BY <1>4, <1>5 DEF PutFile

\* The last thing a person or a pass does with an entry.
LEMMA EntryDoes ==
  ASSUME BlobsTypeOK, Stages, NEW t \in Tasks,
         QueueUpload(t) \/ RemoveEntry(t) \/ DropEntry(t) \/ KeepEntry(t)
  PROVE  LET s == task[t].s
             f == IF QueueUpload(t) \/ KeepEntry(t) THEN task[t].sha ELSE None
         IN /\ s \in Sheets /\ Of(t) \in Devices /\ task[t] \in Task
            /\ f \in Shas /\ Queue(Of(t), s, f) /\ Over(t)
            /\ QueueUpload(t) \/ KeepEntry(t) => f \in Files
<1>1. task[t].at \in {"entry", "drop", "done", "failed"} /\ task[t] \in Task
  BY ATask DEF QueueUpload, RemoveEntry, DropEntry, KeepEntry, At
<1>2. task[t].s \in Sheets /\ Of(t) \in Devices
  BY <1>1, HasSheet
<1>3. QueueUpload(t) => task[t].sha \in Files
  BY TwoTasks, StagesFor, <1>1 DEF StageFor, QueueStage, PersonStage, Idle, Between, Uploading,
     Keeping, Viewing, Filing, Removing, QueueUpload, At
<1>4. KeepEntry(t) => task[t].sha \in Files
  BY HasSheet DEF KeepEntry, At
<1>5. QED
  BY <1>1, <1>2, <1>3, <1>4 DEF QueueUpload, RemoveEntry, DropEntry, KeepEntry, At, Shas

\* An eviction drops a file it has read of.
LEMMA EvictNextDoes ==
  ASSUME BlobsTypeOK, NEW d \in Devices, EvictNext(d)
  PROVE  /\ evicting' \in [Devices -> SUBSET Sheets]
         /\ \A e \in Devices : evicting'[e] \subseteq evicting[e]
         /\ \/ UNCHANGED <<file, blob>>
            \/ \E s \in evicting[d] : SetFile(d, s, None) /\ SetBlob(d, s, NoBlob) /\ s \in Sheets
<1>1. PICK s \in evicting[d] :
        \/ /\ SetFile(d, s, None) /\ SetBlob(d, s, NoBlob)
           /\ evicting' = [evicting EXCEPT ![d] = @ \ {s}]
        \/ evicting' = [evicting EXCEPT ![d] = {}] /\ UNCHANGED <<file, blob>>
  BY DEF EvictNext
<1>2. evicting \in [Devices -> SUBSET Sheets]
  BY DEF BlobsTypeOK
<1>3. \E left \in SUBSET evicting[d] : evicting' = [evicting EXCEPT ![d] = left]
  BY <1>1
<1>4. /\ evicting' \in [Devices -> SUBSET Sheets]
      /\ \A e \in Devices : evicting'[e] \subseteq evicting[e]
  BY <1>2, <1>3
<1>5. QED
  BY <1>1, <1>2, <1>4

\* The bounds hold.
LEMMA Counted ==
  ASSUME OtherTypes
  PROVE  /\ changes < MaxChanges /\ changes' = changes + 1 => changes' \in 0..MaxChanges
         /\ views < MaxViews /\ views' = views + 1 => views' \in 0..MaxViews
         /\ faults < MaxFaults /\ faults' = faults + 1 => faults' \in 0..MaxFaults
<1>1. changes \in 0..MaxChanges /\ views \in 0..MaxViews /\ faults \in 0..MaxFaults
  BY DEF OtherTypes
<1>2. MaxChanges \in Nat /\ MaxViews \in Nat /\ MaxFaults \in Nat
  BY BlobsAssumption
<1>3. QED
  BY <1>1, <1>2

\* A step of a task keeps the types of all but the tasks.
LEMMA WorkTypes ==
  ASSUME BlobsTypeOK, Stages, NEW t \in Tasks, Work(t)
  PROVE  DeviceTypes' /\ ServerTypes' /\ OtherTypes'
<1> USE TypeParts
<1>1. CASE GetFile(t)
  <2>1. blob' \in [Devices -> [Sheets -> Blobs]]
    BY <1>1, GetFileDoes, BlobTypes
  <2>2. QED
    BY <1>1, <2>1 DEF GetFile, DeviceTypes, ServerTypes, OtherTypes, server, history, counts
<1>2. CASE PutRecord(t)
  <2>1. blob' \in [Devices -> [Sheets -> Blobs]]
    BY <1>2, PutRecordDoes, BlobTypes
  <2>2. QED
    BY <1>2, <2>1 DEF PutRecord, DeviceTypes, ServerTypes, OtherTypes, server, history, counts
<1>3. CASE PinWrite(t)
  <2>1. blob' \in [Devices -> [Sheets -> Blobs]]
    BY <1>3, PinWriteDoes, BlobTypes
  <2>2. QED
    BY <1>3, <2>1 DEF PinWrite, DeviceTypes, ServerTypes, OtherTypes, server, history, counts
<1>4. CASE PutFile(t)
  <2>1. /\ file' \in [Devices -> [Sheets -> Shas \cup {"empty"}]]
        /\ cut' \subseteq Devices \X Sheets /\ faults' \in 0..MaxFaults
    BY <1>4, PutFileDoes, FileTypes, BlobsAssumption DEF OtherTypes
  <2>2. QED
    BY <1>4, <2>1 DEF PutFile, DeviceTypes, ServerTypes, OtherTypes, server
<1>5. CASE QueueUpload(t) \/ RemoveEntry(t) \/ DropEntry(t) \/ KeepEntry(t)
  <2>1. upload' \in [Devices -> [Sheets -> Shas]]
    BY <1>5, EntryDoes, QueueTypes
  <2>2. QED
    BY <1>5, <2>1 DEF QueueUpload, RemoveEntry, DropEntry, KeepEntry, DeviceTypes, ServerTypes,
                      OtherTypes, server, history, counts
<1>6. CASE RemoveFile(t)
  <2>1. task[t].s \in Sheets /\ Of(t) \in Devices
    BY <1>6, HasSheet DEF RemoveFile, At
  <2>2. /\ file' \in [Devices -> [Sheets -> Shas \cup {"empty"}]]
        /\ blob' \in [Devices -> [Sheets -> Blobs]]
    BY <1>6, <2>1, FileTypes, BlobTypes, IdleIsATask DEF RemoveFile, Shas
  <2>3. QED
    BY <1>6, <2>2 DEF RemoveFile, DeviceTypes, ServerTypes, OtherTypes, server, history, counts
<1>7. CASE Assemble(t)
  <2>1. task[t] \in Task /\ task[t].sha \in Files
    BY <1>7, HasSheet DEF Assemble, At
  <2>2. /\ objects' \in [Files -> Shas \cup {"empty"}] /\ spoiled' \subseteq Files
        /\ old' \subseteq Files
    BY <1>7, <2>1 DEF Assemble, ServerTypes, OtherTypes, Task
  <2>3. QED
    BY <1>7, <2>2 DEF Assemble, DeviceTypes, ServerTypes, OtherTypes, device, counts
<1>8. CASE VerifyStored(t)
  <2>1. task[t].sha \in Files
    BY <1>8, HasSheet DEF VerifyStored, At
  <2>2. objects' \in [Files -> Shas \cup {"empty"}] /\ spoiled' \subseteq Files
    BY <1>8, <2>1 DEF VerifyStored, ServerTypes, OtherTypes, Shas
  <2>3. QED
    BY <1>8, <2>2 DEF VerifyStored, DeviceTypes, ServerTypes, OtherTypes, device, counts
<1>9. CASE CompleteSheet(t)
  <2>1. task[t].sha \in Files /\ task[t].s \in Sheets
    BY <1>9, HasSheet DEF CompleteSheet, At
  <2>2. sheets' \in [Sheets -> [st : {"none", "live", "deleted", "purged"}, sha : Shas]]
    BY <1>9, <2>1 DEF CompleteSheet, ServerTypes, Shas
  <2>3. QED
    BY <1>9, <2>2 DEF CompleteSheet, DeviceTypes, ServerTypes, OtherTypes, device, history, counts
<1>10. CASE PutRefused(t)
  BY <1>10, BlobsAssumption DEF PutRefused, DeviceTypes, ServerTypes, OtherTypes, device, server, history
<1>11. CASE \/ GetRecord(t) \/ ViewCached(t) \/ NextUpload(t) \/ NextWanted(t) \/ PinRead(t)
            \/ SheetUploadUrl(t) \/ Download(t)
  <2>1. UNCHANGED <<server, device, history, counts>>
    BY <1>11 DEF GetRecord, ViewCached, NextUpload, NextWanted, PinRead, SheetUploadUrl, Download
  <2>2. QED
    BY <2>1 DEF DeviceTypes, ServerTypes, OtherTypes, device, server, history, counts
<1>12. QED
  BY <1>1, <1>2, <1>3, <1>4, <1>5, <1>6, <1>7, <1>8, <1>9, <1>10, <1>11 DEF Work

Pushed(d, s) ==
  CASE sheets[s].st = "none" /\ row[d][s].st = "live" -> [sheets[s] EXCEPT !.st = "live"]
    [] sheets[s].st = "live" /\ row[d][s].st = "deleted" -> [sheets[s] EXCEPT !.st = "deleted"]
    [] OTHER -> sheets[s]

\* What a device hears and what the server hears of it.
LEMMA SyncDoes ==
  ASSUME BlobsTypeOK, NEW d \in Devices, SyncRows(d)
  PROVE  /\ \A s \in Sheets :
              /\ sheets'[s] = Pushed(d, s) /\ Pushed(d, s).sha = sheets[s].sha
              /\ Pushed(d, s) \in [st : {"none", "live", "deleted", "purged"}, sha : Shas]
              /\ row'[d][s] = IF Pushed(d, s).st \in {"live", "deleted"} THEN Pushed(d, s) ELSE row[d][s]
              /\ \A e \in Devices \ {d} : row'[e][s] = row[e][s]
         /\ sheets' \in [Sheets -> [st : {"none", "live", "deleted", "purged"}, sha : Shas]]
         /\ row' \in [Devices -> [Sheets -> [st : {"none", "live", "deleted"}, sha : Shas]]]
<1>1. \A s \in Sheets :
        /\ Pushed(d, s).sha = sheets[s].sha
        /\ Pushed(d, s) \in [st : {"none", "live", "deleted", "purged"}, sha : Shas]
        /\ Pushed(d, s).st \in {"live", "deleted"} =>
             Pushed(d, s) \in [st : {"none", "live", "deleted"}, sha : Shas]
  <2> SUFFICES ASSUME NEW s \in Sheets
      PROVE  /\ Pushed(d, s).sha = sheets[s].sha
             /\ Pushed(d, s) \in [st : {"none", "live", "deleted", "purged"}, sha : Shas]
             /\ Pushed(d, s).st \in {"live", "deleted"} =>
                  Pushed(d, s) \in [st : {"none", "live", "deleted"}, sha : Shas]
    OBVIOUS
  <2>1. sheets[s] \in [st : {"none", "live", "deleted", "purged"}, sha : Shas]
    BY DEF BlobsTypeOK
  <2>2. \/ Pushed(d, s) = sheets[s]
        \/ Pushed(d, s) = [sheets[s] EXCEPT !.st = "live"]
        \/ Pushed(d, s) = [sheets[s] EXCEPT !.st = "deleted"]
    BY DEF Pushed
  <2> HIDE DEF Pushed
  <2>3. QED
    BY <2>1, <2>2
<1>2. sheets' = [s \in Sheets |-> Pushed(d, s)]
  BY DEF SyncRows, Pushed
<1>3. row' = [row EXCEPT ![d] =
        [s \in Sheets |-> IF Pushed(d, s).st \in {"live", "deleted"} THEN Pushed(d, s) ELSE row[d][s]]]
  BY DEF SyncRows, Pushed
<1> HIDE DEF Pushed
<1>4. QED
  BY <1>1, <1>2, <1>3 DEF BlobsTypeOK

\* A step of a device keeps the types of all but the tasks.
LEMMA DeviceStepTypes ==
  ASSUME BlobsTypeOK, Stages, NEW d \in Devices,
         \/ SyncRows(d) \/ Attach(d) \/ Replace(d) \/ Remove(d) \/ View(d)
         \/ StartPass(d) \/ Evict(d) \/ EvictNext(d) \/ Close(d)
  PROVE  DeviceTypes' /\ ServerTypes' /\ OtherTypes'
<1> USE TypeParts
<1>1. CASE SyncRows(d)
  <2>1. /\ sheets' \in [Sheets -> [st : {"none", "live", "deleted", "purged"}, sha : Shas]]
        /\ row' \in [Devices -> [Sheets -> [st : {"none", "live", "deleted"}, sha : Shas]]]
    BY <1>1, SyncDoes
  <2>2. QED
    BY <1>1, <2>1 DEF SyncRows, DeviceTypes, ServerTypes, OtherTypes, history, counts
<1>2. CASE Attach(d) \/ Remove(d)
  <2>1. row' \in [Devices -> [Sheets -> [st : {"none", "live", "deleted"}, sha : Shas]]]
    <3>1. row \in [Devices -> [Sheets -> [st : {"none", "live", "deleted"}, sha : Shas]]]
      BY DEF DeviceTypes
    <3>2. CASE Attach(d)
      <4>1. \E s \in Sheets : row' = [row EXCEPT ![d][s] = [st |-> "live", sha |-> None]]
        BY <3>2 DEF Attach
      <4>2. QED
        BY <3>1, <4>1 DEF Shas
    <3>3. CASE Remove(d)
      <4>1. \E s \in Sheets : row' = [row EXCEPT ![d][s].st = "deleted"]
        BY <3>3 DEF Remove
      <4>2. QED
        BY <3>1, <4>1
    <3>4. QED
      BY <1>2, <3>2, <3>3
  <2>2. changes' \in 0..MaxChanges
    BY <1>2, Counted DEF Attach, Remove, Change
  <2>3. QED
    BY <1>2, <2>1, <2>2 DEF Attach, Remove, DeviceTypes, ServerTypes, OtherTypes, server, history
<1>3. CASE Replace(d)
  <2>1. changes' \in 0..MaxChanges
    BY <1>3, Counted DEF Replace, Change
  <2>3. replaced' \subseteq Devices \X Sheets
    <3>1. PICK s \in Sheets : replaced' = replaced \cup {<<d, s>>}
      BY <1>3 DEF Replace
    <3>2. QED
      BY <3>1 DEF OtherTypes
  <2>2. QED
    BY <1>3, <2>1, <2>3 DEF Replace, DeviceTypes, ServerTypes, OtherTypes, server, device
<1>4. CASE View(d)
  <2>1. views' \in 0..MaxViews
    BY <1>4, Counted DEF View
  <2>2. QED
    BY <1>4, <2>1 DEF View, DeviceTypes, ServerTypes, OtherTypes, server, device, history
<1>5. CASE StartPass(d)
  BY <1>5 DEF StartPass, DeviceTypes, ServerTypes, OtherTypes, server, device, history, counts
<1>6. CASE Evict(d)
  BY <1>6 DEF Evict, DeviceTypes, ServerTypes, OtherTypes, server, history, counts
<1>7. CASE EvictNext(d)
  <2>1. /\ file' \in [Devices -> [Sheets -> Shas \cup {"empty"}]]
        /\ blob' \in [Devices -> [Sheets -> Blobs]]
        /\ evicting' \in [Devices -> SUBSET Sheets]
    BY <1>7, EvictNextDoes, FileTypes, BlobTypes, IdleIsATask DEF DeviceTypes, Shas
  <2>2. QED
    BY <1>7, <2>1 DEF EvictNext, DeviceTypes, ServerTypes, OtherTypes, server, history, counts
<1>8. CASE Close(d)
  <2>1. \A t \in {Queuer(d), Person(d)} : task[t].s \in Sheets \cup {None}
    BY ATask, TwoTasks DEF Task
  <2>2. cut' \subseteq Devices \X Sheets
    BY <1>8, <2>1 DEF Close, OtherTypes
  <2>3. faults' \in 0..MaxFaults /\ evicting' \in [Devices -> SUBSET Sheets]
    BY <1>8, BlobsAssumption DEF Close, OtherTypes, DeviceTypes
  <2>4. QED
    BY <1>8, <2>2, <2>3 DEF Close, DeviceTypes, ServerTypes, OtherTypes, server
<1>9. QED
  BY <1>1, <1>2, <1>3, <1>4, <1>5, <1>6, <1>7, <1>8

\* Every step keeps every value of its kind.
LEMMA TypesKept ==
  ASSUME BlobsTypeOK, Stages, [Next]_vars PROVE BlobsTypeOK'
<1> USE TypeParts
<1>1. task' \in [Tasks -> Task]
  BY StagesKept
<1>2. DeviceTypes' /\ ServerTypes' /\ OtherTypes'
  <2>1. CASE \E t \in Tasks : Work(t)
    BY <2>1, WorkTypes
  <2>2. CASE \E t \in Tasks : Disconnect(t)
    BY <2>2, BlobsAssumption DEF Disconnect, DeviceTypes, ServerTypes, OtherTypes, server, device, history
  <2>3. CASE \E d \in Devices :
               \/ SyncRows(d) \/ Attach(d) \/ Replace(d) \/ Remove(d) \/ View(d)
               \/ StartPass(d) \/ Evict(d) \/ EvictNext(d) \/ Close(d)
    BY <2>3, DeviceStepTypes
  <2>4. CASE Purge
    <3>1. /\ sheets' \in [Sheets -> [st : {"none", "live", "deleted", "purged"}, sha : Shas]]
          /\ sweep' \subseteq Files
      BY <2>4 DEF Purge, ServerTypes, Shas
    <3>2. QED
      BY <2>4, <3>1 DEF Purge, DeviceTypes, ServerTypes, OtherTypes, device, history, counts
  <2>5. CASE SweepNext
    <3>1. /\ objects' \in [Files -> Shas \cup {"empty"}] /\ sweep' \subseteq Files
          /\ old' \subseteq Files /\ spoiled' \subseteq Files
      BY <2>5 DEF SweepNext, ServerTypes, OtherTypes, Shas
    <3>2. QED
      BY <2>5, <3>1 DEF SweepNext, DeviceTypes, ServerTypes, OtherTypes, device, counts
  <2>6. CASE Month
    BY <2>6 DEF Month, DeviceTypes, ServerTypes, OtherTypes, device, history, counts
  <2>7. CASE UNCHANGED vars
    BY <2>7 DEF vars, DeviceTypes, ServerTypes, OtherTypes, server, device, history, counts
  <2>8. QED
    BY <2>1, <2>2, <2>3, <2>4, <2>5, <2>6, <2>7 DEF Next
<1>3. QED
  <2>1. (DeviceTypes /\ ServerTypes /\ OtherTypes /\ task \in [Tasks -> Task] <=> BlobsTypeOK)'
    BY DEF BlobsTypeOK, DeviceTypes, ServerTypes, OtherTypes, Task
  <2>2. QED
    BY <1>1, <1>2, <2>1
-----------------------------------------------------------------------------
(* Rows, on the devices and on the server.  *)

Attached(d, s) ==
  /\ sheets[s].st = "none" /\ \A e \in Devices : row[e][s].st = "none"
  /\ row' = [row EXCEPT ![d][s] = [st |-> "live", sha |-> None]]
  /\ UNCHANGED sheets

Removed(d, s) ==
  /\ row[d][s].st = "live" /\ row' = [row EXCEPT ![d][s].st = "deleted"]
  /\ UNCHANGED sheets

Completed(s, f) ==
  /\ Known(s) /\ sheets' = [sheets EXCEPT ![s].sha = f]
  /\ UNCHANGED row

RowStep ==
  \/ UNCHANGED <<row, sheets>>
  \/ \E d \in Devices : SyncRows(d)
  \/ \E d \in Devices, s \in Sheets : Attached(d, s) \/ Removed(d, s)
  \/ \E s \in Sheets, f \in Files : Completed(s, f)
  \/ Purge

\* Rows change in five ways.
LEMMA RowSteps ==
  ASSUME BlobsTypeOK, Stages, [Next]_vars PROVE RowStep
<1>1. ASSUME NEW t \in Tasks, Work(t) PROVE RowStep
  <2>1. CASE CompleteSheet(t)
    <3>1. task[t].sha \in Files /\ task[t].s \in Sheets
      BY <2>1, HasSheet DEF CompleteSheet, At
    <3>2. QED
      BY <2>1, <3>1 DEF CompleteSheet, RowStep, Completed, device
  <2>2. CASE ~CompleteSheet(t)
    BY <1>1, <2>2 DEF Work, RowStep, device, server, GetRecord, GetFile, PutFile, PutRecord, PutRefused,
       QueueUpload, RemoveFile, RemoveEntry, ViewCached, NextUpload, DropEntry, KeepEntry, NextWanted,
       PinRead, PinWrite, SheetUploadUrl, Assemble, VerifyStored, Download
  <2>3. QED
    BY <2>1, <2>2
<1>2. ASSUME NEW d \in Devices, Attach(d) \/ Remove(d) PROVE RowStep
  BY <1>2 DEF Attach, Remove, server, RowStep, Attached, Removed
<1>3. ASSUME NEW d \in Devices,
             \/ SyncRows(d) \/ Replace(d) \/ View(d) \/ StartPass(d) \/ Evict(d) \/ EvictNext(d) \/ Close(d)
      PROVE  RowStep
  BY <1>3 DEF Replace, View, StartPass, Evict, EvictNext, Close, server, device, RowStep
<1>4. CASE \/ \E t \in Tasks : Disconnect(t)
           \/ SweepNext \/ Month \/ UNCHANGED vars
  BY <1>4 DEF Disconnect, SweepNext, Month, vars, server, device, RowStep
<1>5. QED
  BY <1>1, <1>2, <1>3, <1>4 DEF Next, RowStep

PurgedRows ==
  \A s \in Sheets : \/ sheets'[s] = sheets[s]
                    \/ sheets[s].st = "deleted" /\ sheets'[s] = [st |-> "purged", sha |-> None]

\* A purge takes rows that were deleted.
LEMMA PurgeDoes == ASSUME BlobsTypeOK, Purge PROVE PurgedRows /\ UNCHANGED row
<1>1. PICK gone \in SUBSET {s \in Sheets : sheets[s].st = "deleted"} :
        sheets' = [s \in Sheets |-> IF s \in gone THEN [st |-> "purged", sha |-> None] ELSE sheets[s]]
  BY DEF Purge
<1>2. QED
  BY <1>1 DEF PurgedRows, Purge, device

\* A sheet that is attached or removed leaves the other rows.
LEMMA AttachedRow ==
  ASSUME BlobsTypeOK, NEW d \in Devices, NEW s \in Sheets, Attached(d, s) \/ Removed(d, s)
  PROVE  /\ \A e \in Devices, q \in Sheets : e # d \/ q # s => row'[e][q] = row[e][q]
         /\ Attached(d, s) => row'[d][s] = [st |-> "live", sha |-> None]
         /\ Removed(d, s) => row'[d][s].st = "deleted" /\ row'[d][s].sha = row[d][s].sha
<1>1. row \in [Devices -> [Sheets -> [st : {"none", "live", "deleted"}, sha : Shas]]]
  BY DEF BlobsTypeOK
<1>2. CASE Attached(d, s)
  BY <1>1, <1>2 DEF Attached, Removed
<1>3. CASE Removed(d, s)
  <2> DEFINE r == [row[d][s] EXCEPT !.st = "deleted"]
  <2>1. row' = [row EXCEPT ![d] = [row[d] EXCEPT ![s] = r]]
    BY <1>1, <1>3 DEF Removed
  <2>2. r.st = "deleted" /\ r.sha = row[d][s].sha
    BY <1>1
  <2>3. row[d][s].st = "live"
    BY <1>3 DEF Removed
  <2> HIDE DEF r
  <2>4. QED
    BY <1>1, <2>1, <2>2, <2>3 DEF Attached
<1>4. QED
  BY <1>2, <1>3

\* A hash that was heard of is not forgotten, a deletion stands, and a row stays.
LEMMA RowsGrow ==
  ASSUME BlobsTypeOK, RowsAgree, RowStep, NEW d \in Devices, NEW s \in Sheets
  PROVE  /\ row'[d][s].sha = None => row[d][s].sha = None
         /\ row[d][s].st = "deleted" => row'[d][s].st = "deleted"
         /\ row'[d][s].st = "none" => row[d][s].st = "none"
<1>1. row \in [Devices -> [Sheets -> [st : {"none", "live", "deleted"}, sha : Shas]]]
  BY DEF BlobsTypeOK
<1>2. CASE UNCHANGED <<row, sheets>>
  BY <1>2
<1>3. ASSUME NEW e \in Devices, SyncRows(e)
      PROVE  /\ row'[d][s].sha = None => row[d][s].sha = None
             /\ row[d][s].st = "deleted" => row'[d][s].st = "deleted"
             /\ row'[d][s].st = "none" => row[d][s].st = "none"
  <2>1. CASE e # d
    BY <1>3, <2>1, SyncDoes
  <2>2. CASE e = d
    <3>1. /\ Pushed(d, s).sha = sheets[s].sha
          /\ row'[d][s] = IF Pushed(d, s).st \in {"live", "deleted"} THEN Pushed(d, s) ELSE row[d][s]
      BY <1>3, <2>2, SyncDoes
    <3>2. Pushed(d, s).st \in {"live", "deleted"} /\ row[d][s].sha # None => sheets[s].sha # None
      BY <1>1 DEF Pushed, RowsAgree, Known, BlobsTypeOK
    <3>3. row[d][s].st = "deleted" /\ Pushed(d, s).st \in {"live", "deleted"} => Pushed(d, s).st = "deleted"
      BY <1>1 DEF Pushed, BlobsTypeOK
    <3>4. QED
      BY <3>1, <3>2, <3>3
  <2>3. QED
    BY <2>1, <2>2
<1>4. ASSUME NEW e \in Devices, NEW q \in Sheets, Attached(e, q) \/ Removed(e, q)
      PROVE  /\ row'[d][s].sha = None => row[d][s].sha = None
             /\ row[d][s].st = "deleted" => row'[d][s].st = "deleted"
             /\ row'[d][s].st = "none" => row[d][s].st = "none"
  <2>1. CASE e # d \/ q # s
    BY <1>4, <2>1, AttachedRow
  <2>2. CASE e = d /\ q = s /\ Attached(d, s)
    BY <2>2, AttachedRow DEF Attached, RowsAgree
  <2>3. CASE e = d /\ q = s /\ Removed(d, s)
    BY <2>3, AttachedRow DEF Removed
  <2>4. QED
    BY <1>4, <2>1, <2>2, <2>3
<1>5. CASE Purge \/ \E q \in Sheets, f \in Files : Completed(q, f)
  BY <1>5, PurgeDoes DEF Completed
<1>6. QED
  BY <1>2, <1>3, <1>4, <1>5 DEF RowStep

RowAgrees(s) ==
  /\ \A d \in Devices :
       /\ row[d][s].st = "none" => row[d][s].sha = None
       /\ Known(s) /\ row[d][s].sha # None => sheets[s].sha # None
  /\ sheets[s].st = "none" =>
       /\ sheets[s].sha = None
       /\ \A d \in Devices : row[d][s].sha = None
       /\ \A d, e \in Devices : row[d][s].st # "none" /\ row[e][s].st # "none" => d = e

\* The rows agree, sheet by sheet.
LEMMA RowsAgreed == RowsAgree <=> \A s \in Sheets : RowAgrees(s)
  BY DEF RowsAgree, RowAgrees

\* The rows go on agreeing.
LEMMA RowsAgreeKept ==
  ASSUME BlobsTypeOK, RowsAgree, RowStep PROVE RowsAgree'
<1> SUFFICES ASSUME NEW s \in Sheets PROVE RowAgrees(s)'
  BY DEF RowsAgree, RowAgrees
<1>1. RowAgrees(s)
  BY RowsAgreed
<1>2. /\ row \in [Devices -> [Sheets -> [st : {"none", "live", "deleted"}, sha : Shas]]]
      /\ sheets \in [Sheets -> [st : {"none", "live", "deleted", "purged"}, sha : Shas]]
  BY DEF BlobsTypeOK
<1>3. CASE UNCHANGED <<row, sheets>>
  BY <1>1, <1>3 DEF RowAgrees, Known
<1>4. ASSUME NEW d \in Devices, SyncRows(d) PROVE RowAgrees(s)'
  <2>1. /\ sheets'[s] = Pushed(d, s) /\ Pushed(d, s).sha = sheets[s].sha
        /\ row'[d][s] = IF Pushed(d, s).st \in {"live", "deleted"} THEN Pushed(d, s) ELSE row[d][s]
        /\ \A e \in Devices \ {d} : row'[e][s] = row[e][s]
    BY <1>4, SyncDoes
  <2>2. /\ Pushed(d, s).st = "none" => sheets[s].st = "none" /\ row[d][s].st # "live"
        /\ Pushed(d, s).st \in {"live", "deleted"} =>
             Known(s) \/ (sheets[s].st = "none" /\ row[d][s].st = "live")
    BY <1>2 DEF Pushed, Known
  <2> HIDE DEF Pushed
  <2>3. ASSUME NEW e \in Devices
        PROVE  /\ row'[e][s].st = "none" => row'[e][s].sha = None
               /\ Known(s)' /\ row'[e][s].sha # None => sheets'[s].sha # None
    <3>1. CASE e = d
      BY <1>1, <2>1, <2>2, <3>1 DEF RowAgrees, Known
    <3>2. CASE e # d
      BY <1>1, <2>1, <2>2, <3>2 DEF RowAgrees, Known
    <3>3. QED
      BY <3>1, <3>2
  <2>4. sheets'[s].st = "none" => sheets'[s].sha = None /\ \A e \in Devices : row'[e][s] = row[e][s]
    BY <1>1, <2>1, <2>2 DEF RowAgrees
  <2>5. sheets'[s].st = "none" => sheets[s].st = "none"
    BY <2>1, <2>2
  <2>6. QED
    BY <1>1, <2>3, <2>4, <2>5 DEF RowAgrees
<1>5. ASSUME NEW d \in Devices, NEW q \in Sheets, Attached(d, q) \/ Removed(d, q) PROVE RowAgrees(s)'
  <2>1. sheets' = sheets
    BY <1>5 DEF Attached, Removed
  <2>2. CASE q # s
    BY <1>1, <1>5, <2>1, <2>2, AttachedRow DEF RowAgrees, Known
  <2>3. CASE q = s /\ Attached(d, s)
    BY <1>1, <2>1, <2>3, AttachedRow DEF RowAgrees, Known, Attached
  <2>4. CASE q = s /\ Removed(d, s)
    BY <1>1, <2>1, <2>4, AttachedRow DEF RowAgrees, Known, Removed
  <2>5. QED
    BY <1>5, <2>2, <2>3, <2>4
<1>6. ASSUME NEW q \in Sheets, NEW f \in Files, Completed(q, f) PROVE RowAgrees(s)'
  <2>1. f # None
    BY <1>6, BlobsAssumption
  <2>2. QED
    BY <1>1, <1>2, <1>6, <2>1 DEF Completed, RowAgrees, Known
<1>7. CASE Purge
  BY <1>1, <1>7, PurgeDoes DEF PurgedRows, RowAgrees, Known
<1>8. QED
  BY <1>3, <1>4, <1>5, <1>6, <1>7 DEF RowStep
-----------------------------------------------------------------------------
(* The object store.  *)

\* A task is put in place, the others stay.
LEMMA PutAny ==
  ASSUME BlobsTypeOK, NEW t \in Tasks, NEW r, Put(t, r)
  PROVE  task'[t] = r /\ \A u \in Tasks : u # t => task'[u] = task[u]
  BY DEF Put, BlobsTypeOK

\* A task goes on, the others stay.
LEMMA GoAny ==
  ASSUME BlobsTypeOK, NEW t \in Tasks, NEW at, Go(t, at)
  PROVE  /\ task'[t].at = at /\ task'[t].op = task[t].op /\ task'[t].s = task[t].s
         /\ task'[t].sha = task[t].sha /\ task'[t].rec = task[t].rec
         /\ task'[t].bytes = task[t].bytes /\ task'[t].todo = task[t].todo
         /\ \A u \in Tasks : u # t => task'[u] = task[u]
<1>1. task[t] \in Task
  BY ATask
<1>2. Put(t, [task[t] EXCEPT !.at = at])
  BY DEF Go, Put, BlobsTypeOK
<1>3. /\ task'[t] = [task[t] EXCEPT !.at = at]
      /\ \A u \in Tasks : u # t => task'[u] = task[u]
  BY <1>2, PutAny
<1>4. QED
  BY <1>1, <1>3 DEF Task

\* No task comes to a place where the server is about to write.
NobodyWrites ==
  \A u \in Tasks : task'[u].at \in {"assemble", "write", "done"} =>
    task[u].at = task'[u].at /\ task[u].sha = task'[u].sha /\ task[u].s = task'[u].s

\* All steps of a task but the server's.
LEMMA Writeless ==
  ASSUME BlobsTypeOK, Stages, NEW t \in Tasks,
         \/ GetRecord(t) \/ GetFile(t) \/ PutFile(t) \/ PutRecord(t) \/ PutRefused(t)
         \/ QueueUpload(t) \/ RemoveFile(t) \/ RemoveEntry(t) \/ ViewCached(t)
         \/ NextUpload(t) \/ DropEntry(t) \/ KeepEntry(t) \/ NextWanted(t) \/ PinRead(t)
         \/ PinWrite(t) \/ Download(t) \/ Disconnect(t)
  PROVE  NobodyWrites
<1>1. task[t] \in Task
  BY ATask
<1>2. SUFFICES /\ task'[t].at \notin {"assemble", "write", "done"}
               /\ \A u \in Tasks : u # t => task'[u] = task[u]
  BY DEF NobodyWrites
<1>3. CASE Over(t)
  BY <1>1, <1>3, PutAny, NextTask DEF Over
<1>4. CASE \E at \in {"row", "drop", "record", "entry", "failed"} : Go(t, at)
  BY <1>4, GoAny
<1>5. ASSUME NEW r, Put(t, r), r.at \notin {"assemble", "write", "done"}
      PROVE  /\ task'[t].at \notin {"assemble", "write", "done"}
             /\ \A u \in Tasks : u # t => task'[u] = task[u]
  BY <1>5, PutAny
<1>6. CASE GetRecord(t) \/ GetFile(t) \/ PinRead(t) \/ Download(t) \/ ViewCached(t)
  <2>1. CASE GetRecord(t)
    <3> DEFINE rec == blob[Of(t)][task[t].s]
               r == IF rec = NoBlob
                    THEN [task[t] EXCEPT !.at = IF task[t].op = "view" THEN "row" ELSE "drop"]
                    ELSE [task[t] EXCEPT !.at = "read", !.rec = rec]
    <3>1. r.at \in {"row", "drop", "read"}
      BY <1>1 DEF Task
    <3>2. Put(t, r)
      BY <2>1 DEF GetRecord
    <3> HIDE DEF r
    <3>3. QED
      BY <1>5, <3>1, <3>2
  <2>2. CASE GetFile(t)
    <3> DEFINE r == [task[t] EXCEPT !.at = IF task[t].op = "view" THEN "row" ELSE "url",
                                    !.bytes = file[Of(t)][task[t].s]]
    <3>1. r.at \in {"row", "url"}
      BY <1>1 DEF Task
    <3>2. Put(t, r) \/ \E at \in {"row", "drop"} : Go(t, at)
      BY <2>2 DEF GetFile
    <3> HIDE DEF r
    <3>3. QED
      BY <1>4, <1>5, <3>1, <3>2
  <2>3. CASE PinRead(t)
    <3> DEFINE r == [task[t] EXCEPT !.at = "pinned", !.rec = blob[Of(t)][task[t].s]]
    <3>1. r.at = "pinned" /\ (Put(t, r) \/ Over(t))
      BY <1>1, <2>3 DEF PinRead, Task
    <3> HIDE DEF r
    <3>2. QED
      BY <1>3, <1>5, <3>1
  <2>4. CASE Download(t)
    <3> DEFINE r == [task[t] EXCEPT !.at = "file", !.bytes = objects[sheets[task[t].s].sha]]
    <3>1. r.at = "file" /\ (Put(t, r) \/ Over(t))
      BY <1>1, <2>4 DEF Download, Task
    <3> HIDE DEF r
    <3>2. QED
      BY <1>3, <1>5, <3>1
  <2>5. CASE ViewCached(t)
    <3> DEFINE r == [task[t] EXCEPT !.at = "body", !.rec = NoBlob, !.bytes = None]
    <3>1. r.at = "body" /\ (Put(t, r) \/ Over(t))
      BY <1>1, <2>5 DEF ViewCached, Task
    <3> HIDE DEF r
    <3>2. QED
      BY <1>3, <1>5, <3>1
  <2>6. QED
    BY <1>6, <2>1, <2>2, <2>3, <2>4, <2>5
<1>7. CASE NextUpload(t)
  <2> DEFINE r(u) == [task[t] EXCEPT !.at = "get", !.s = u[1], !.sha = u[2], !.todo = @ \ {u}]
             k == [task[t] EXCEPT !.op = "keep"]
  <2>1. /\ \A u : r(u).at = "get"
        /\ k.at = "next"
    BY <1>1, <1>7 DEF NextUpload, At, Task
  <2>2. Put(t, k) \/ \E u : Put(t, r(u))
    BY <1>7 DEF NextUpload
  <2> HIDE DEF r, k
  <2>3. QED
    BY <1>5, <2>1, <2>2
<1>8. CASE NextWanted(t)
  <2> DEFINE rest(s) == [task[t] EXCEPT !.want = @ \ {s}]
             r(s) == [rest(s) EXCEPT !.at = IF Has(Of(t), s, row[Of(t)][s].sha) THEN "pin" ELSE "body",
                                     !.s = s, !.sha = row[Of(t)][s].sha]
  <2>1. \A s : rest(s).at = "next" /\ r(s).at \in {"pin", "body"}
    BY <1>1, <1>8 DEF NextWanted, At, Task
  <2>2. Put(t, Idle) \/ \E s : Put(t, rest(s)) \/ Put(t, r(s))
    BY <1>8 DEF NextWanted
  <2>3. Idle.at = "idle"
    BY DEF Idle
  <2> HIDE DEF rest, r
  <2>4. QED
    BY <1>5, <2>1, <2>2, <2>3
<1>9. CASE PutRefused(t)
  BY <1>5, <1>9 DEF PutRefused, Idle
<1>10. CASE \/ PutFile(t) \/ PutRecord(t) \/ QueueUpload(t) \/ RemoveFile(t) \/ RemoveEntry(t)
            \/ DropEntry(t) \/ KeepEntry(t) \/ PinWrite(t) \/ Disconnect(t)
  BY <1>3, <1>4, <1>10 DEF PutFile, PutRecord, QueueUpload, RemoveFile, RemoveEntry, DropEntry,
     KeepEntry, PinWrite, Disconnect
<1>11. QED
  BY <1>6, <1>7, <1>8, <1>9, <1>10

\* No step of a device brings the server nearer to writing.
LEMMA WritelessDevice ==
  ASSUME BlobsTypeOK, Stages, NEW d \in Devices,
         \/ SyncRows(d) \/ Attach(d) \/ Replace(d) \/ Remove(d) \/ View(d)
         \/ StartPass(d) \/ Evict(d) \/ EvictNext(d) \/ Close(d)
  PROVE  NobodyWrites
<1>1. CASE UNCHANGED task
  BY <1>1 DEF NobodyWrites
<1>2. ASSUME NEW t \in {Queuer(d), Person(d)}, NEW r, Put(t, r), r.at \in {"file", "get", "drop", "next"}
      PROVE  NobodyWrites
  BY <1>2, PutAny, TwoTasks DEF NobodyWrites
<1>3. CASE Attach(d) \/ Replace(d) \/ Remove(d) \/ View(d)
  BY <1>2, <1>3 DEF Attach, Replace, Remove, View, Idle
<1>4. CASE StartPass(d)
  BY <1>2, <1>4 DEF StartPass, Idle
<1>5. CASE Close(d)
  <2>1. \A t \in Tasks : task'[t] = Idle \/ task'[t] = task[t]
    BY <1>5 DEF Close
  <2>2. QED
    BY <2>1 DEF NobodyWrites, Idle
<1>6. QED
  BY <1>1, <1>3, <1>4, <1>5 DEF SyncRows, Evict, EvictNext

\* The objects hold while nobody writes and no row takes a hash.
LEMMA ObjectsFrame ==
  ASSUME BlobsTypeOK, Stages, ObjectsHold, NobodyWrites, UNCHANGED <<objects, old, sweep, spoiled>>,
         \A s \in Sheets : Known(s)' /\ sheets'[s].sha # None => Known(s) /\ sheets[s].sha = sheets'[s].sha
  PROVE  ObjectsHold'
  BY DEF ObjectsHold, NobodyWrites, RowHasItsObject

\* They hold while rows travel.
LEMMA ObjectsSync ==
  ASSUME BlobsTypeOK, Stages, RowsAgree, ObjectsHold, NEW d \in Devices, SyncRows(d)
  PROVE  ObjectsHold'
<1>1. NobodyWrites /\ UNCHANGED <<objects, old, sweep, spoiled>>
  BY WritelessDevice DEF SyncRows, history
<1>2. ASSUME NEW s \in Sheets, Known(s)', sheets'[s].sha # None
      PROVE  Known(s) /\ sheets[s].sha = sheets'[s].sha
  <2>1. sheets'[s] = Pushed(d, s) /\ Pushed(d, s).sha = sheets[s].sha
    BY SyncDoes
  <2>2. sheets[s].st # "none"
    BY <1>2, <2>1 DEF RowsAgree
  <2>3. QED
    BY <1>2, <2>1, <2>2 DEF Pushed, Known, BlobsTypeOK
<1>3. QED
  BY <1>1, <1>2, ObjectsFrame

\* They hold while the server takes an upload.
LEMMA ObjectsServed ==
  ASSUME BlobsTypeOK, Stages, ObjectsHold, NEW t \in Tasks,
         SheetUploadUrl(t) \/ Assemble(t) \/ VerifyStored(t) \/ CompleteSheet(t)
  PROVE  ObjectsHold'
<1> DEFINE r == task[t]
<1>1. r \in Task /\ r.s \in Sheets /\ r.sha \in Files
  BY HasSheet DEF SheetUploadUrl, Assemble, VerifyStored, CompleteSheet, At
<1>2. r.sha # None
  BY <1>1, BlobsAssumption
<1>3. CASE SheetUploadUrl(t)
  <2>1. /\ UNCHANGED <<objects, old, sweep, spoiled, sheets>>
        /\ \E at \in {"failed", "verify", "assemble"} :
             Go(t, at) /\ (at = "assemble" => objects[r.sha] = None)
    BY <1>3 DEF SheetUploadUrl, server, history
  <2>2. /\ task'[t].at \in {"failed", "verify", "assemble"} /\ task'[t].sha = r.sha
        /\ task'[t].at = "assemble" => objects[r.sha] = None
        /\ \A u \in Tasks : u # t => task'[u] = task[u]
    BY <2>1, GoAny
  <2>3. QED
    BY <1>1, <2>1, <2>2 DEF ObjectsHold, RowHasItsObject, Known
<1>4. CASE Assemble(t)
  <2>1. /\ objects' = [objects EXCEPT ![r.sha] = r.bytes] /\ old' = old \ {r.sha}
        /\ spoiled' = IF r.bytes = r.sha THEN spoiled ELSE spoiled \cup {r.sha}
        /\ UNCHANGED <<sheets, sweep>> /\ r.at = "assemble"
    BY <1>4 DEF Assemble, At
  <2>2. /\ task'[t].at = "verify" /\ task'[t].sha = r.sha
        /\ \A u \in Tasks : u # t => task'[u] = task[u]
    BY <1>4, GoAny DEF Assemble
  <2>3. /\ \A f \in Files : f # r.sha => objects'[f] = objects[f]
        /\ objects'[r.sha] = r.sha \/ r.sha \in spoiled'
        /\ spoiled \subseteq spoiled'
    BY <1>1, <2>1 DEF BlobsTypeOK
  <2>4. r.sha \notin old \ spoiled
    BY <2>1 DEF ObjectsHold
  <2>5. \A u \in Tasks : task[u].at = "write" => task[u].sha \in Files
    BY HasSheet
  <2>6. \A s \in Sheets : sheets[s].sha # None => sheets[s].sha \in Files
    BY DEF BlobsTypeOK, Shas
  <2>7. old \subseteq Files
    BY DEF BlobsTypeOK
  <2>8. RowHasItsObject'
    BY <2>1, <2>3, <2>6 DEF ObjectsHold, RowHasItsObject, Known
  <2>9. \A u \in Tasks : task'[u].at = "write" =>
          objects'[task'[u].sha] = task'[u].sha \/ task'[u].sha \in spoiled'
    BY <2>2, <2>3, <2>5 DEF ObjectsHold
  <2>10. sweep' \subseteq old' \cup spoiled'
    BY <2>1, <2>3, <2>4 DEF ObjectsHold
  <2>11. \A f \in old' : objects'[f] # None \/ f \in spoiled'
    BY <2>1, <2>3, <2>7 DEF ObjectsHold
  <2>12. \A u \in Tasks : task'[u].at = "assemble" => task'[u].sha \notin old' \ spoiled'
    BY <2>1, <2>2, <2>3 DEF ObjectsHold
  <2>13. \A f \in Files : objects'[f] # None => objects'[f] = f \/ f \in spoiled'
    BY <2>3 DEF ObjectsHold
  <2>14. QED
    BY <2>8, <2>9, <2>10, <2>11, <2>12, <2>13 DEF ObjectsHold
<1>5. CASE VerifyStored(t)
  <2>1. /\ UNCHANGED <<sheets, old, sweep>> /\ r.at = "verify"
        /\ \/ Go(t, "failed") /\ UNCHANGED <<objects, spoiled>>
           \/ /\ objects' = [objects EXCEPT ![r.sha] = None] /\ spoiled' = spoiled \cup {r.sha}
              /\ Go(t, "failed")
           \/ objects[r.sha] # None /\ Go(t, "write") /\ UNCHANGED <<objects, spoiled>>
    BY <1>5 DEF VerifyStored, At
  <2>2. /\ task'[t].at \in {"failed", "write"} /\ task'[t].sha = r.sha
        /\ task'[t].at = "write" => objects[r.sha] # None /\ UNCHANGED <<objects, spoiled>>
        /\ \A u \in Tasks : u # t => task'[u] = task[u]
    BY <2>1, GoAny
  <2>3. \A f \in Files : objects'[f] = objects[f] \/ f \in spoiled'
    BY <1>1, <2>1 DEF BlobsTypeOK
  <2>4. spoiled \subseteq spoiled'
    BY <2>1
  <2>5. \A u \in Tasks : task[u].at = "write" => task[u].sha \in Files
    BY HasSheet
  <2>6. \A s \in Sheets : sheets[s].sha # None => sheets[s].sha \in Files
    BY DEF BlobsTypeOK, Shas
  <2>7. old \subseteq Files
    BY DEF BlobsTypeOK
  <2>8. RowHasItsObject'
    BY <2>1, <2>3, <2>4, <2>6 DEF ObjectsHold, RowHasItsObject, Known
  <2>9. \A u \in Tasks : task'[u].at = "write" =>
          objects'[task'[u].sha] = task'[u].sha \/ task'[u].sha \in spoiled'
    BY <1>1, <2>2, <2>3, <2>4, <2>5 DEF ObjectsHold
  <2>10. sweep' \subseteq old' \cup spoiled'
    BY <2>1, <2>4 DEF ObjectsHold
  <2>11. \A f \in old' : objects'[f] # None \/ f \in spoiled'
    BY <2>1, <2>3, <2>4, <2>7 DEF ObjectsHold
  <2>12. \A u \in Tasks : task'[u].at = "assemble" => task'[u].sha \notin old' \ spoiled'
    BY <2>1, <2>2, <2>4 DEF ObjectsHold
  <2>13. \A f \in Files : objects'[f] # None => objects'[f] = f \/ f \in spoiled'
    BY <2>3, <2>4 DEF ObjectsHold
  <2>14. QED
    BY <2>8, <2>9, <2>10, <2>11, <2>12, <2>13 DEF ObjectsHold
<1>6. CASE CompleteSheet(t)
  <2>1. /\ UNCHANGED <<objects, old, sweep, spoiled>> /\ r.at = "write"
        /\ \/ sheets' = [sheets EXCEPT ![r.s].sha = r.sha]
           \/ sheets' = sheets
        /\ \E at \in {"failed", "done"} : Go(t, at)
    BY <1>6 DEF CompleteSheet, At, history
  <2>2. /\ task'[t].at \in {"failed", "done"}
        /\ \A u \in Tasks : u # t => task'[u] = task[u]
    BY <2>1, GoAny
  <2>3. \A s \in Sheets : /\ sheets'[s].st = sheets[s].st
                          /\ sheets'[s].sha = sheets[s].sha \/ sheets'[s].sha = r.sha
    <3> DEFINE c == [sheets[r.s] EXCEPT !.sha = r.sha]
    <3>1. sheets[r.s] \in [st : {"none", "live", "deleted", "purged"}, sha : Shas]
      BY <1>1 DEF BlobsTypeOK
    <3>2. c.st = sheets[r.s].st /\ c.sha = r.sha
      BY <3>1
    <3>3. sheets' = sheets \/ sheets' = [sheets EXCEPT ![r.s] = c]
      BY <2>1
    <3> HIDE DEF c
    <3>4. QED
      BY <1>1, <3>2, <3>3 DEF BlobsTypeOK
  <2>4. objects[r.sha] = r.sha \/ r.sha \in spoiled
    BY <2>1 DEF ObjectsHold
  <2>5. RowHasItsObject'
    BY <2>1, <2>3, <2>4 DEF ObjectsHold, RowHasItsObject, Known
  <2>6. QED
    BY <2>1, <2>2, <2>5 DEF ObjectsHold
<1>7. QED
  BY <1>3, <1>4, <1>5, <1>6

\* They hold while a purge sweeps.
LEMMA ObjectsPurge ==
  ASSUME BlobsTypeOK, Stages, ObjectsHold, Purge \/ SweepNext \/ Month
  PROVE  ObjectsHold'
<1>1. CASE Purge
  <2>1. PurgedRows /\ UNCHANGED <<objects, old, spoiled, task>> /\ sweep' \subseteq old
    BY <1>1, PurgeDoes DEF Purge, history
  <2>2. RowHasItsObject'
    BY <2>1 DEF ObjectsHold, RowHasItsObject, PurgedRows, Known
  <2>3. QED
    BY <2>1, <2>2 DEF ObjectsHold
<1>2. CASE SweepNext
  <2>1. PICK f \in sweep :
          /\ sweep' = sweep \ {f} /\ objects' = [objects EXCEPT ![f] = None]
          /\ spoiled' = IF f \in old /\ (InHand(f) \/ \E s \in Sheets : Known(s) /\ sheets[s].sha = f)
                        THEN spoiled \cup {f} ELSE spoiled
          /\ old' = old \ {f} /\ UNCHANGED <<sheets, task>>
    BY <1>2 DEF SweepNext
  <2>2. /\ spoiled \subseteq spoiled' /\ f \in old \cup spoiled
        /\ \A g \in Files : g # f => objects'[g] = objects[g]
        /\ objects'[f] = None
    BY <2>1 DEF ObjectsHold, BlobsTypeOK
  <2>3. \A s \in Sheets : sheets[s].sha # None => sheets[s].sha \in Files
    BY DEF BlobsTypeOK, Shas
  <2>4. RowHasItsObject'
    BY <2>1, <2>2, <2>3 DEF ObjectsHold, RowHasItsObject, Known
  <2>5. ASSUME NEW u \in Tasks, task[u].at = "write"
        PROVE  objects'[task[u].sha] = task[u].sha \/ task[u].sha \in spoiled'
    <3>1. task[u].sha \in Files
      BY <2>5, HasSheet
    <3>2. CASE task[u].sha = f
      BY <2>1, <2>2, <2>5, <3>2 DEF InHand
    <3>3. QED
      BY <2>2, <2>5, <3>1, <3>2 DEF ObjectsHold
  <2>6. \A g \in Files : objects'[g] # None => objects'[g] = g \/ g \in spoiled'
    BY <2>2 DEF ObjectsHold
  <2>7. /\ sweep' \subseteq old' \cup spoiled'
        /\ \A g \in old' : objects'[g] # None \/ g \in spoiled'
        /\ \A u \in Tasks : task[u].at = "assemble" => task[u].sha \notin old' \ spoiled'
    BY <2>1, <2>2 DEF ObjectsHold, BlobsTypeOK
  <2>8. QED
    BY <2>1, <2>4, <2>5, <2>6, <2>7 DEF ObjectsHold
<1>3. CASE Month
  <2>1. /\ sweep = {} /\ \A t \in Tasks : task[t].op = "none"
        /\ UNCHANGED <<sheets, objects, sweep, spoiled, task>>
        /\ \E f \in Files : objects[f] # None /\ old' = old \cup {f}
    BY <1>3 DEF Month, history
  <2>2. \A t \in Tasks : task[t].at # "assemble"
    BY <2>1, HasSheet
  <2>3. RowHasItsObject'
    BY <2>1 DEF ObjectsHold, RowHasItsObject, Known
  <2>4. QED
    BY <2>1, <2>2, <2>3 DEF ObjectsHold
<1>4. QED
  BY <1>1, <1>2, <1>3

\* The objects go on holding.
LEMMA ObjectsKept ==
  ASSUME BlobsTypeOK, Stages, RowsAgree, ObjectsHold, [Next]_vars PROVE ObjectsHold'
<1>1. ASSUME NobodyWrites, UNCHANGED <<sheets, objects, old, sweep, spoiled>> PROVE ObjectsHold'
  BY <1>1, ObjectsFrame DEF Known
<1>2. ASSUME NEW t \in Tasks, Work(t) PROVE ObjectsHold'
  <2>1. CASE SheetUploadUrl(t) \/ Assemble(t) \/ VerifyStored(t) \/ CompleteSheet(t)
    BY <2>1, ObjectsServed
  <2>2. CASE ~(SheetUploadUrl(t) \/ Assemble(t) \/ VerifyStored(t) \/ CompleteSheet(t))
    <3>1. NobodyWrites
      BY <1>2, <2>2, Writeless DEF Work
    <3>2. UNCHANGED <<sheets, objects, old, sweep, spoiled>>
      BY <1>2, <2>2 DEF Work, server, history, GetRecord, GetFile, PutFile, PutRecord, PutRefused,
         QueueUpload, RemoveFile, RemoveEntry, ViewCached, NextUpload, DropEntry, KeepEntry, NextWanted,
         PinRead, PinWrite, Download
    <3>3. QED
      BY <1>1, <3>1, <3>2
  <2>3. QED
    BY <2>1, <2>2
<1>3. ASSUME NEW t \in Tasks, Disconnect(t) PROVE ObjectsHold'
  BY <1>1, <1>3, Writeless DEF Disconnect, server, history
<1>4. ASSUME NEW d \in Devices,
             \/ Attach(d) \/ Replace(d) \/ Remove(d) \/ View(d)
             \/ StartPass(d) \/ Evict(d) \/ EvictNext(d) \/ Close(d)
      PROVE  ObjectsHold'
  <2>1. NobodyWrites
    BY <1>4, WritelessDevice
  <2>2. UNCHANGED <<sheets, objects, old, sweep, spoiled>>
    BY <1>4 DEF server, history, Attach, Replace, Remove, View, StartPass, Evict, EvictNext, Close
  <2>3. QED
    BY <1>1, <2>1, <2>2
<1>5. CASE UNCHANGED vars
  BY <1>1, <1>5 DEF vars, server, history, NobodyWrites
<1>6. QED
  BY <1>2, <1>3, <1>4, <1>5, ObjectsSync, ObjectsPurge DEF Next
-----------------------------------------------------------------------------
(* At home: what a device has of a sheet whose first file is not up.  *)

RowGrows(d, s) ==
  /\ row'[d][s].sha = None => row[d][s].sha = None
  /\ row[d][s].st = "deleted" => row'[d][s].st = "deleted"
  /\ row'[d][s].st = "none" => row[d][s].st = "none"

\* A row that has a hash, or is deleted, or is there, stays so.
LEMMA AllRowsGrow ==
  ASSUME BlobsTypeOK, Stages, RowsAgree, [Next]_vars
  PROVE  \A d \in Devices, s \in Sheets : RowGrows(d, s)
  BY RowSteps, RowsGrow DEF RowGrows

\* what a step of another device, or about another sheet, leaves alone
Kept(c, q) ==
  /\ blob'[c][q] = blob[c][q] /\ file'[c][q] = file[c][q] /\ upload'[c][q] = upload[c][q]
  /\ q \in evicting'[c] => q \in evicting[c]
  /\ <<c, q>> \in cut => <<c, q>> \in cut'
  /\ <<c, q>> \in replaced => <<c, q>> \in replaced'

\* a task that has nothing to do with a sheet before the step nor after it
Apart(t, q) ==
  /\ task[t].s # q /\ task'[t].s # q
  /\ \A f \in Files : <<q, f>> \in task'[t].todo => <<q, f>> \in task[t].todo

\* What a step leaves alone is at home afterwards as it was before.
LEMMA HomeFrame ==
  ASSUME NEW c \in Devices, NEW q \in Sheets, AtHome(c, q), Kept(c, q), RowGrows(c, q),
         \A t \in {Queuer(c), Person(c)} : task'[t] = task[t] \/ Apart(t, q)
  PROVE  AtHome(c, q)'
<1>1. Waiting(c, q)' => Waiting(c, q)
  BY DEF RowGrows, Waiting
<1>2. \A t \in {Queuer(c), Person(c)} : task'[t].s = q => task'[t] = task[t]
  BY DEF Apart
<1>3. \A f \in Files : InQueue(c, q, f)' => InQueue(c, q, f)
  BY DEF Kept, Apart, InQueue
<1>4. Attaching(c, q)' <=> Attaching(c, q)
  BY DEF Apart, Attaching
<1>5. NobodyElse(c, q)'
  BY <1>1, <1>2 DEF AtHome, NobodyElse, Kept, RowGrows, Waiting
<1>6. NothingEarly(c, q)'
  BY <1>2, <1>3 DEF AtHome, NothingEarly, Unqueued, RowGrows
<1>7. AttachHolds(c, q)'
  <2>1. Attaching(c, q)' => task'[Person(c)] = task[Person(c)]
    BY <1>2 DEF Attaching
  <2>2. QED
    BY <1>1, <1>3, <1>4, <2>1 DEF AtHome, AttachHolds, Unqueued, Kept, Cut
<1>8. QueueHolds(c, q)'
  BY <1>1, <1>3, <1>4 DEF AtHome, QueueHolds, Kept, Cut, RowGrows
<1>9. QED
  BY <1>5, <1>6, <1>7, <1>8 DEF AtHome

\* a step of one task, about the sheet it is busy with
Reaches(t) ==
  /\ \A u \in Tasks : u # t => task'[u] = task[u]
  /\ \A c \in Devices, q \in Sheets : c # Of(t) \/ q # task[t].s => Kept(c, q)
  /\ task'[t].s \in {task[t].s, None} /\ task'[t].todo \subseteq task[t].todo

\* A step about one sheet of one device leaves the others at home.
LEMMA ReachesFrame ==
  ASSUME NEW t \in Tasks, Reaches(t), NEW c \in Devices, NEW q \in Sheets, AtHome(c, q), RowGrows(c, q),
         c # Of(t) \/ q # task[t].s
  PROVE  AtHome(c, q)'
<1>1. None \notin Sheets
  BY BlobsAssumption
<1>2. Kept(c, q)
  BY DEF Reaches
<1>3. ASSUME NEW u \in {Queuer(c), Person(c)} PROVE task'[u] = task[u] \/ Apart(u, q)
  <2>1. CASE u = t
    <3>1. q # task[t].s
      BY <2>1, <1>3, TwoTasks
    <3>2. QED
      BY <1>1, <2>1, <3>1 DEF Reaches, Apart
  <2>2. CASE u # t
    BY <1>3, <2>2, TwoTasks DEF Reaches
  <2>3. QED
    BY <2>1, <2>2
<1>4. QED
  BY <1>2, <1>3, HomeFrame

\* What a task that is busy with a sheet may do to what its device has of it.
Gently(t) ==
  LET d == Of(t)
      s == task[t].s
  IN /\ Waiting(d, s) => blob'[d][s].pin # "opportunistic"
     /\ file'[d][s] = file[d][s]
     /\ upload'[d][s] \in {upload[d][s], None} \cup
          (IF task[t].op = "upload" THEN {task[t].sha} ELSE {})
     /\ evicting' = evicting
     /\ cut \subseteq cut' /\ replaced \subseteq replaced'
     /\ \A u \in Tasks : u # t => task'[u] = task[u]

\* what NobodyElse asks of a task that is busy with the sheet
Careful(d, s, t) ==
  /\ Waiting(d, s) =>
       /\ task[t].rec.pin # "opportunistic"
       /\ task[t].op # "keep"
       /\ task[t].op = "view" =>
            task[t].at \in {"get", "read", "row"} /\ task[t].sha = None
  /\ task[t].op = "remove" => row[d][s].st = "deleted"
  /\ task[t].op = "replace" => <<d, s>> \in replaced

\* A careful step of one task leaves the other's as it was.
LEMMA StaysAlone ==
  ASSUME NEW d \in Devices, NEW s \in Sheets, NEW t \in {Queuer(d), Person(d)},
         NobodyElse(d, s), RowGrows(d, s),
         Waiting(d, s)' => blob'[d][s].pin # "opportunistic",
         evicting' = evicting, replaced \subseteq replaced',
         task'[t].s = s => Careful(d, s, t)',
         \A u \in {Queuer(d), Person(d)} : u # t => task'[u] = task[u]
  PROVE  NobodyElse(d, s)'
<1>1. Waiting(d, s)' => Waiting(d, s)
  BY DEF RowGrows, Waiting
<1>2. Waiting(d, s)' => blob'[d][s].pin # "opportunistic" /\ s \notin evicting'[d]
  BY <1>1 DEF NobodyElse
<1>3. ASSUME NEW u \in {Queuer(d), Person(d)}, task'[u].s = s, u # t
      PROVE  Careful(d, s, u)'
  <2>1. task'[u] = task[u] /\ task[u].s = s
    BY <1>3
  <2>2. Careful(d, s, u)
    BY <2>1 DEF NobodyElse, Careful
  <2>3. QED
    BY <1>1, <2>1, <2>2 DEF Careful, RowGrows
<1>4. \A u \in {Queuer(d), Person(d)} : task'[u].s = s => Careful(d, s, u)'
  BY <1>3
<1>5. QED
  BY <1>2, <1>4 DEF NobodyElse, Careful

\* Who attaches, replaces or removes a file and goes on with it is as careful as before.
LEMMA FilingStaysAlone ==
  ASSUME NEW d \in Devices, NEW s \in Sheets, NEW t \in {Queuer(d), Person(d)},
         NobodyElse(d, s), RowGrows(d, s), task[t].s = s,
         Waiting(d, s)' => blob'[d][s].pin # "opportunistic" /\ task[t].op \in {"attach", "replace", "remove"},
         evicting' = evicting, replaced' = replaced,
         task'[t].op = task[t].op, task'[t].rec = task[t].rec,
         \A u \in {Queuer(d), Person(d)} : u # t => task'[u] = task[u]
  PROVE  NobodyElse(d, s)'
<1>1. Waiting(d, s)' => Waiting(d, s)
  BY DEF RowGrows, Waiting
<1>2. Careful(d, s, t)
  BY DEF NobodyElse, Careful
<1>3. Careful(d, s, t)'
  BY <1>1, <1>2 DEF Careful, RowGrows
<1>4. QED
  BY <1>3, StaysAlone

\* It goes on with the sheet.
LEMMA HomeStays ==
  ASSUME BlobsTypeOK, Stages, NEW t \in Tasks, NEW d \in Devices, NEW s \in Sheets,
         d = Of(t), s = task[t].s, Gently(t), AtHome(d, s), RowGrows(d, s),
         task[t].op \in {"upload", "keep", "view", "remove"},
         /\ task'[t].op = task[t].op /\ task'[t].s = task[t].s /\ task'[t].sha = task[t].sha
         /\ task'[t].todo = task[t].todo,
         Waiting(d, s) =>
           /\ task'[t].rec.pin # "opportunistic"
           /\ task[t].op = "view" => task'[t].at \in {"get", "read", "row"}
  PROVE  AtHome(d, s)'
<1>1. Waiting(d, s)' => Waiting(d, s)
  BY DEF RowGrows, Waiting
<1>2. /\ Queuer(d) \in Tasks /\ Person(d) \in Tasks /\ Queuer(d) # Person(d) /\ d \in Devices
      /\ t \in {Queuer(d), Person(d)}
  BY TwoTasks
<1>3. \A f \in Files : InQueue(d, s, f)' => InQueue(d, s, f)
  <2>1. task[t].op = "upload" => t = Queuer(d)
    BY <1>2, StagesFor DEF StageFor, PersonStage, Idle, Viewing, Filing, Removing
  <2>2. QED
    BY <1>2, <2>1, BlobsAssumption DEF InQueue, Gently
<1>4. Attaching(d, s)' <=> Attaching(d, s)
  BY <1>2 DEF Attaching, Gently
<1>5. NobodyElse(d, s)'
  <2>1. Careful(d, s, t) /\ NobodyElse(d, s)
    BY <1>2 DEF AtHome, NobodyElse, Careful
  <2>2. Careful(d, s, t)'
    BY <1>1, <2>1 DEF Careful, RowGrows
  <2>3. QED
    BY <1>1, <1>2, <2>1, <2>2, StaysAlone DEF Gently
<1>6. NothingEarly(d, s)'
  BY <1>2 DEF AtHome, NothingEarly, RowGrows
<1>7. AttachHolds(d, s)'
  <2>1. SUFFICES ASSUME Attaching(d, s)', Waiting(d, s)'
        PROVE  /\ Unqueued(d, s)'
               /\ task'[Person(d)].at # "file" => Cut(d, s)' \/ file'[d][s] = task'[Person(d)].sha
               /\ task'[Person(d)].at = "entry" => blob'[d][s] # NoBlob
    BY DEF AttachHolds
  <2>2. t = Queuer(d)
    BY <1>2, <1>4, <2>1 DEF Attaching
  <2>3. task'[Person(d)] = task[Person(d)] /\ task[t].op # "remove"
    BY <1>2, <2>2, StagesFor DEF Gently, StageFor, QueueStage, Idle, Between, Uploading, Keeping
  <2>4. task[t].op = "upload" => InQueue(d, s, task[t].sha) /\ task[t].sha \in Files
    BY <1>2, <2>2, StagesFor, BlobsAssumption DEF InQueue, StageFor, QueueStage, Idle, Between, Uploading, Keeping
  <2>5. task[t].op \in {"upload", "keep"}
    BY <1>2, <2>2, StagesFor DEF StageFor, QueueStage, Idle, Between, Uploading, Keeping
  <2>6. Waiting(d, s) /\ task[t].op # "keep"
    BY <1>1, <1>2, <2>1 DEF AtHome, NobodyElse
  <2>7. QED
    BY <1>4, <1>1, <2>1, <2>4, <2>5, <2>6 DEF AtHome, AttachHolds, Unqueued
<1>8. QueueHolds(d, s)'
  BY <1>1, <1>3, <1>4 DEF AtHome, QueueHolds, Gently, Cut, RowGrows
<1>9. QED
  BY <1>5, <1>6, <1>7, <1>8 DEF AtHome

\* It is done with it.
LEMMA HomeLeaves ==
  ASSUME BlobsTypeOK, Stages, NEW t \in Tasks, NEW d \in Devices, NEW s \in Sheets,
         d = Of(t), s = task[t].s, Gently(t), AtHome(d, s), RowGrows(d, s),
         task[t].op # "attach",
         task'[t].s = None /\ task'[t].todo \subseteq task[t].todo
  PROVE  AtHome(d, s)'
<1>1. Waiting(d, s)' => Waiting(d, s)
  BY DEF RowGrows, Waiting
<1>2. /\ Queuer(d) \in Tasks /\ Person(d) \in Tasks /\ Queuer(d) # Person(d) /\ d \in Devices
      /\ t \in {Queuer(d), Person(d)} /\ None # s
  BY TwoTasks, BlobsAssumption
<1>3. \A f \in Files : InQueue(d, s, f)' => InQueue(d, s, f)
  <2>1. task[t].op = "upload" => t = Queuer(d)
    BY <1>2, StagesFor DEF StageFor, PersonStage, Idle, Viewing, Filing, Removing
  <2>2. QED
    BY <1>2, <2>1, BlobsAssumption DEF InQueue, Gently
<1>4. Attaching(d, s)' <=> Attaching(d, s)
  BY <1>2 DEF Attaching, Gently
<1>5. NobodyElse(d, s)'
  BY <1>1, <1>2, StaysAlone DEF AtHome, Gently
<1>6. NothingEarly(d, s)'
  BY <1>2, <1>3 DEF AtHome, NothingEarly, RowGrows, Unqueued, Gently
<1>7. AttachHolds(d, s)'
  <2>1. SUFFICES ASSUME Attaching(d, s)', Waiting(d, s)'
        PROVE  /\ Unqueued(d, s)'
               /\ task'[Person(d)].at # "file" => Cut(d, s)' \/ file'[d][s] = task'[Person(d)].sha
               /\ task'[Person(d)].at = "entry" => blob'[d][s] # NoBlob
    BY DEF AttachHolds
  <2>2. t = Queuer(d)
    BY <1>2, <1>4, <2>1 DEF Attaching
  <2>3. task'[Person(d)] = task[Person(d)]
    BY <1>2, <2>2 DEF Gently
  <2>4. task[t].op = "upload" => InQueue(d, s, task[t].sha) /\ task[t].sha \in Files
    BY <1>2, <2>2, StagesFor, BlobsAssumption DEF InQueue, StageFor, QueueStage, Idle, Between, Uploading, Keeping
  <2>5. task[t].op \in {"upload", "keep"}
    BY <1>2, <2>2, StagesFor DEF StageFor, QueueStage, Idle, Between, Uploading, Keeping
  <2>6. Waiting(d, s) /\ task[t].op # "keep"
    BY <1>1, <1>2, <2>1 DEF AtHome, NobodyElse
  <2>7. QED
    BY <1>4, <1>1, <2>1, <2>4, <2>5, <2>6 DEF AtHome, AttachHolds, Unqueued
<1>8. QueueHolds(d, s)'
  BY <1>1, <1>3, <1>4 DEF AtHome, QueueHolds, Gently, Cut, RowGrows
<1>9. QED
  BY <1>5, <1>6, <1>7, <1>8 DEF AtHome

\* a step about the sheet a task is busy with leaves the rest alone, and is sound at home
Homely(t) ==
  /\ task[t].s \in Sheets
  /\ Reaches(t)
  /\ \A d \in Devices, s \in Sheets :
       d = Of(t) /\ s = task[t].s /\ AtHome(d, s) /\ RowGrows(d, s) => AtHome(d, s)'

\* A task that is done with a sheet has none.
LEMMA OverAny ==
  ASSUME BlobsTypeOK, NEW t \in Tasks, Over(t) \/ Put(t, Idle)
  PROVE  /\ \A u \in Tasks : u # t => task'[u] = task[u]
         /\ task'[t].s = None /\ task'[t].todo \subseteq task[t].todo
<1>1. task[t] \in Task
  BY ATask
<1>2. NextOf(task[t]).s = None /\ NextOf(task[t]).todo \subseteq task[t].todo
  BY <1>1, NextTask DEF Idle
<1>3. Idle.s = None /\ Idle.todo \subseteq task[t].todo
  BY DEF Idle
<1>4. QED
  BY <1>2, <1>3, PutAny DEF Over

\* The steps that leave what the device has alone.
LEMMA StillHomely ==
  ASSUME BlobsTypeOK, Stages, NEW t \in Tasks, task[t].s \in Sheets,
         UNCHANGED <<blob, file, upload, evicting>>, cut \subseteq cut', replaced \subseteq replaced',
         \/ Over(t) \/ Put(t, Idle)
         \/ /\ \A u \in Tasks : u # t => task'[u] = task[u]
            /\ task'[t].op = task[t].op /\ task'[t].s = task[t].s /\ task'[t].sha = task[t].sha
            /\ task'[t].todo = task[t].todo
            /\ task'[t].rec.pin = "opportunistic" =>
                 "opportunistic" \in {task[t].rec.pin, blob[Of(t)][task[t].s].pin}
            /\ task[t].op = "view" =>
                 \/ task'[t].at \in {"get", "read", "row"}
                 \/ task[t].at = "body" 
                 \/ task[t].sha # None,
         task[t].op \in {"upload", "keep", "view", "remove"}
  PROVE  Homely(t)
<1>1. \A u \in Tasks : u # t => task'[u] = task[u]
  BY OverAny
<1>2. Reaches(t)
  <2>1. task'[t].s \in {task[t].s, None} /\ task'[t].todo \subseteq task[t].todo
    BY OverAny
  <2>2. QED
    BY <1>1, <2>1 DEF Reaches, Kept
<1>3. ASSUME NEW d \in Devices, NEW s \in Sheets, d = Of(t), s = task[t].s,
             AtHome(d, s), RowGrows(d, s)
      PROVE  AtHome(d, s)'
  <2>1. t \in {Queuer(d), Person(d)}
    BY <1>3, TwoTasks
  <2>2. Gently(t)
    BY <1>1, <1>3, <2>1 DEF Gently, AtHome, NobodyElse
  <2>3. CASE Over(t) \/ Put(t, Idle)
    BY <1>3, <2>2, <2>3, OverAny, HomeLeaves
  <2>4. CASE ~(Over(t) \/ Put(t, Idle))
    <3>1. Waiting(d, s) =>
            /\ task'[t].rec.pin # "opportunistic"
            /\ task[t].op = "view" => task'[t].at \in {"get", "read", "row"}
      BY <1>3, <2>1, <2>4 DEF AtHome, NobodyElse
    <3>2. QED
      BY <1>3, <2>2, <2>4, <3>1, HomeStays
  <2>5. QED
    BY <2>3, <2>4
<1>4. QED
  BY <1>2, <1>3 DEF Homely

\* To read a record writes nothing.
LEMMA GetRecordHomely ==
  ASSUME BlobsTypeOK, Stages, NEW t \in Tasks, GetRecord(t) PROVE Homely(t)
<1> DEFINE r == task[t]
           rec == blob[Of(t)][r.s]
           m == IF rec = NoBlob
                THEN [r EXCEPT !.at = IF r.op = "view" THEN "row" ELSE "drop"]
                ELSE [r EXCEPT !.at = "read", !.rec = rec]
<1>1. r \in Task /\ r.at = "get" /\ Put(t, m) /\ r.s \in Sheets
  BY HasSheet DEF GetRecord, At
<1>2. r.op \in {"upload", "view"}
  BY <1>1, StagesFor, TwoTasks DEF StageFor, QueueStage, PersonStage, Idle, Between, Uploading, Keeping,
     Viewing, Filing, Removing
<1>3. /\ m.op = r.op /\ m.s = r.s /\ m.sha = r.sha /\ m.todo = r.todo
      /\ m.rec \in {r.rec, rec}
      /\ r.op = "view" => m.at \in {"row", "read"}
  BY <1>1 DEF Task
<1> HIDE DEF m
<1>4. task'[t] = m /\ \A u \in Tasks : u # t => task'[u] = task[u]
  BY <1>1, PutAny
<1>5. UNCHANGED <<blob, file, upload, evicting, cut, replaced>>
  BY DEF GetRecord, device, history
<1>6. QED
  BY <1>1, <1>2, <1>3, <1>4, <1>5, StillHomely

\* `get` writes the record back as it was, or forgets one without a file.
LEMMA GetFileHomely ==
  ASSUME BlobsTypeOK, Stages, NEW t \in Tasks, GetFile(t) PROVE Homely(t)
<1> DEFINE r == task[t]
           d0 == Of(t)
           held == file[d0][r.s]
           b == IF held = None THEN NoBlob ELSE r.rec
           there == [r EXCEPT !.at = IF r.op = "view" THEN "row" ELSE "url", !.bytes = held]
<1>1. r \in Task /\ r.at = "read" /\ r.s \in Sheets
  BY HasSheet DEF GetFile, At
<1>2. r.op \in {"upload", "view"}
  BY <1>1, StagesFor, TwoTasks DEF StageFor, QueueStage, PersonStage, Idle, Between, Uploading, Keeping,
     Viewing, Filing, Removing
<1>3. /\ there.op = r.op /\ there.s = r.s /\ there.sha = r.sha /\ there.todo = r.todo
      /\ there.rec = r.rec
      /\ r.op = "view" => there.at = "row"
  BY <1>1 DEF Task
<1>4. Put(t, there) \/ \E at \in {"row", "drop"} : Go(t, at) /\ (r.op = "view" => at = "row")
  BY DEF GetFile
<1> HIDE DEF there
<1>5. /\ task'[t].op = r.op /\ task'[t].s = r.s /\ task'[t].sha = r.sha /\ task'[t].todo = r.todo
      /\ task'[t].rec = r.rec
      /\ r.op = "view" => task'[t].at = "row"
      /\ \A u \in Tasks : u # t => task'[u] = task[u]
  BY <1>3, <1>4, PutAny, GoAny
<1>6. /\ d0 \in Devices /\ blob'[d0][r.s] = b
      /\ \A e \in Devices, q \in Sheets : e # d0 \/ q # r.s => blob'[e][q] = blob[e][q]
  BY GetFileDoes, BlobTypes
<1>7. UNCHANGED <<file, upload, evicting, cut, replaced>>
  BY DEF GetFile, history
<1>8. Reaches(t)
  BY <1>5, <1>6, <1>7 DEF Reaches, Kept
<1>9. ASSUME NEW d \in Devices, NEW s \in Sheets, d = d0, s = task[t].s, AtHome(d, s), RowGrows(d, s)
      PROVE  AtHome(d, s)'
  <2>1. Waiting(d, s) => r.rec.pin # "opportunistic" /\ NoBlob.pin # "opportunistic"
    BY <1>9, TwoTasks, IdleIsATask DEF AtHome, NobodyElse
  <2>2. Gently(t)
    BY <1>5, <1>6, <1>7, <1>9, <2>1 DEF Gently
  <2>3. QED
    BY <1>2, <1>5, <1>9, <2>1, <2>2, HomeStays
<1>10. QED
  BY <1>1, <1>8, <1>9 DEF Homely

\* The steps of a view, of a download and of the server.
LEMMA StayingHomely ==
  ASSUME BlobsTypeOK, Stages, NEW t \in Tasks,
         \/ ViewCached(t) \/ PinRead(t) \/ SheetUploadUrl(t) \/ Assemble(t) \/ VerifyStored(t)
         \/ CompleteSheet(t) \/ Download(t) \/ PutRefused(t) \/ Disconnect(t)
  PROVE  Homely(t)
<1> DEFINE r == task[t]
<1>1. UNCHANGED <<blob, file, upload, evicting, cut, replaced>>
  BY DEF ViewCached, PinRead, SheetUploadUrl, Assemble, VerifyStored, CompleteSheet, Download, PutRefused,
     Disconnect, device, history
<1>2. r.at \notin {"idle", "next"} /\ r.at # "entry" /\ r.at # "drop"
  BY DEF ViewCached, PinRead, SheetUploadUrl, Assemble, VerifyStored, CompleteSheet, Download, PutRefused,
     Disconnect, At
<1>3. r \in Task /\ r.s \in Sheets
  BY <1>2, HasSheet
<1>4. r.op \in {"upload", "keep", "view"}
  <2>1. r.at # "file" => r.op \in {"upload", "keep", "view"} \/ r.at \in {"record", "entry", "drop"}
    BY <1>2, StagesFor, TwoTasks DEF StageFor, QueueStage, PersonStage, Idle, Between, Uploading, Keeping,
       Viewing, Filing, Removing
  <2>2. r.at = "file" => PutRefused(t)
    BY DEF ViewCached, PinRead, SheetUploadUrl, Assemble, VerifyStored, CompleteSheet, Download, PutRefused,
       Disconnect, At
  <2>3. r.at # "record"
    BY DEF ViewCached, PinRead, SheetUploadUrl, Assemble, VerifyStored, CompleteSheet, Download, PutRefused,
       Disconnect, At
  <2>4. QED
    BY <1>2, <2>1, <2>2, <2>3 DEF PutRefused
<1>5. CASE Over(t) \/ Put(t, Idle)
  BY <1>1, <1>3, <1>4, <1>5, StillHomely
<1>6. ASSUME NEW n, Put(t, n), n.op = r.op, n.s = r.s, n.sha = r.sha, n.todo = r.todo,
             n.rec.pin = "opportunistic" => "opportunistic" \in {r.rec.pin, blob[Of(t)][r.s].pin},
             r.op = "view" => n.at \in {"get", "read", "row"} \/ r.at = "body" \/ r.sha # None
      PROVE  Homely(t)
  BY <1>1, <1>3, <1>4, <1>6, PutAny, StillHomely
<1>7. ASSUME NEW at, Go(t, at), r.op # "view" PROVE Homely(t)
  BY <1>1, <1>3, <1>4, <1>7, GoAny, StillHomely
<1>8. CASE SheetUploadUrl(t) \/ Assemble(t) \/ VerifyStored(t) \/ CompleteSheet(t)
  <2>1. r.op = "upload"
    BY <1>8, HasSheet DEF SheetUploadUrl, Assemble, VerifyStored, CompleteSheet, At
  <2>2. \E at : Go(t, at)
    BY <1>8 DEF SheetUploadUrl, Assemble, VerifyStored, CompleteSheet
  <2>3. QED
    BY <1>7, <2>1, <2>2
<1>9. CASE ViewCached(t)
  <2> DEFINE n == [r EXCEPT !.at = "body", !.rec = NoBlob, !.bytes = None]
  <2>1. n.op = r.op /\ n.s = r.s /\ n.sha = r.sha /\ n.todo = r.todo /\ n.rec = NoBlob
    BY <1>3 DEF Task
  <2>2. Over(t) \/ (Put(t, n) /\ r.sha # None)
    BY <1>9 DEF ViewCached
  <2> HIDE DEF n
  <2>3. QED
    BY <1>5, <1>6, <2>1, <2>2, IdleIsATask
<1>10. CASE PinRead(t)
  <2> DEFINE n == [r EXCEPT !.at = "pinned", !.rec = blob[Of(t)][r.s]]
  <2>1. n.op = r.op /\ n.s = r.s /\ n.sha = r.sha /\ n.todo = r.todo /\ n.rec = blob[Of(t)][r.s]
    BY <1>3 DEF Task
  <2>2. Over(t) \/ Put(t, n)
    BY <1>10 DEF PinRead
  <2>3. r.op # "view"
    BY <1>10, StagesFor, TwoTasks DEF PinRead, At, StageFor, QueueStage, PersonStage, Idle, Between,
       Uploading, Keeping, Viewing, Filing, Removing
  <2> HIDE DEF n
  <2>4. QED
    BY <1>5, <1>6, <2>1, <2>2, <2>3
<1>11. CASE Download(t)
  <2> DEFINE n == [r EXCEPT !.at = "file", !.bytes = objects[sheets[r.s].sha]]
  <2>1. n.op = r.op /\ n.s = r.s /\ n.sha = r.sha /\ n.todo = r.todo /\ n.rec = r.rec
    BY <1>3 DEF Task
  <2>2. (Over(t) \/ Put(t, n)) /\ r.at = "body"
    BY <1>11 DEF Download, At
  <2> HIDE DEF n
  <2>3. QED
    BY <1>5, <1>6, <2>1, <2>2
<1>12. CASE Disconnect(t)
  BY <1>5, <1>7, <1>12 DEF Disconnect
<1>13. CASE PutRefused(t)
  BY <1>5, <1>13 DEF PutRefused
<1>14. QED
  BY <1>8, <1>9, <1>10, <1>11, <1>12, <1>13

\* The steps that end with the queue's entry, or with a pin.
LEMMA EntryHomely ==
  ASSUME BlobsTypeOK, Stages, NEW t \in Tasks,
         RemoveEntry(t) \/ DropEntry(t) \/ KeepEntry(t) \/ PinWrite(t)
  PROVE  Homely(t)
<1> DEFINE r == task[t]
           d0 == Of(t)
<1>1. r \in Task /\ r.s \in Sheets /\ d0 \in Devices
  BY EntryDoes, PinWriteDoes
<1>2. UNCHANGED <<file, evicting, cut, replaced>> /\ Over(t)
  BY DEF RemoveEntry, DropEntry, KeepEntry, PinWrite, history
<1>3. /\ \A u \in Tasks : u # t => task'[u] = task[u]
      /\ task'[t].s = None /\ task'[t].todo \subseteq r.todo
  BY <1>2, OverAny
<1>4. /\ blob' = blob \/ (PinWrite(t) /\ blob'[d0][r.s].pin = "pinned")
      /\ \A e \in Devices, q \in Sheets : e # d0 \/ q # r.s => blob'[e][q] = blob[e][q]
  <2>1. CASE PinWrite(t)
    <3> DEFINE b == [r.rec EXCEPT !.pin = "pinned"]
    <3>1. r.rec \in Blobs
      BY <1>1 DEF Task
    <3>2. b.pin = "pinned"
      BY <3>1 DEF Blobs, NoBlob
    <3>3. /\ blob'[d0][r.s] = b
          /\ \A e \in Devices, q \in Sheets : e # d0 \/ q # r.s => blob'[e][q] = blob[e][q]
      BY <2>1, PinWriteDoes, BlobTypes
    <3>4. QED
      BY <2>1, <3>2, <3>3
  <2>2. CASE ~PinWrite(t)
    BY <2>2 DEF RemoveEntry, DropEntry, KeepEntry
  <2>3. QED
    BY <2>1, <2>2
<1>5. /\ upload'[d0][r.s] \in {upload[d0][r.s], None} \cup (IF r.op = "upload" THEN {r.sha} ELSE {})
      /\ \A e \in Devices, q \in Sheets : e # d0 \/ q # r.s => upload'[e][q] = upload[e][q]
  <2>1. CASE PinWrite(t)
    BY <2>1 DEF PinWrite
  <2>2. CASE ~PinWrite(t)
    <3>1. KeepEntry(t) => r.op = "upload"
      BY HasSheet DEF KeepEntry, At
    <3>2. ~QueueUpload(t) \/ KeepEntry(t)
      BY <2>2 DEF QueueUpload, RemoveEntry, DropEntry, KeepEntry, At
    <3>3. QED
      BY <2>2, <3>1, <3>2, EntryDoes, QueueTypes
  <2>3. QED
    BY <2>1, <2>2
<1>6. Reaches(t)
  BY <1>2, <1>3, <1>4, <1>5 DEF Reaches, Kept
<1>7. r.op # "attach"
  BY StagesFor, TwoTasks DEF RemoveEntry, DropEntry, KeepEntry, PinWrite, At, StageFor, QueueStage,
     PersonStage, Idle, Between, Uploading, Keeping, Viewing, Filing, Removing
<1>8. ASSUME NEW d \in Devices, NEW s \in Sheets, d = d0, s = task[t].s, AtHome(d, s), RowGrows(d, s)
      PROVE  AtHome(d, s)'
  <2>1. Gently(t)
    BY <1>2, <1>3, <1>4, <1>5, <1>8 DEF Gently, AtHome, NobodyElse
  <2>2. QED
    BY <1>3, <1>7, <1>8, <2>1, HomeLeaves
<1>9. QED
  BY <1>1, <1>6, <1>8 DEF Homely

\* Whoever writes the file of a sheet that waits attaches, replaces or removes it.
LEMMA FileWriters ==
  ASSUME BlobsTypeOK, Stages, NEW t \in Tasks, task[t].at \in {"file", "record", "entry", "drop"},
         task[t].op # "upload", AtHome(Of(t), task[t].s)
  PROVE  /\ Waiting(Of(t), task[t].s) =>
              t = Person(Of(t)) /\ task[t].op \in {"attach", "replace", "remove"}
         /\ task[t].op \in {"attach", "replace"} =>
              task[t].bytes = task[t].sha /\ task[t].sha \in Files /\ t = Person(Of(t))
         /\ task[t].op = "replace" => <<Of(t), task[t].s>> \in replaced
         /\ task[t].op = "remove" =>
              t = Person(Of(t)) /\ row[Of(t)][task[t].s].st = "deleted"
         /\ task[t].at \in {"file", "record"} => task[t].op # "remove"
         /\ task[t].at = "entry" => task[t].op \in {"attach", "replace", "remove"}
  BY StagesFor, TwoTasks DEF StageFor, QueueStage, PersonStage, Idle, Between, Uploading, Keeping,
     Viewing, Filing, Removing, AtHome, NobodyElse

\* Nothing is written for an upload.
LEMMA NotUploading ==
  ASSUME BlobsTypeOK, Stages, NEW t \in Tasks,
         \/ PutFile(t) \/ PutRecord(t) \/ RemoveFile(t) \/ QueueUpload(t)
  PROVE  /\ task[t].at \in {"file", "record", "entry", "drop"} /\ task[t].op # "upload"
         /\ task[t] \in Task /\ task[t].s \in Sheets /\ Of(t) \in Devices
  BY HasSheet, StagesFor, TwoTasks DEF PutFile, PutRecord, RemoveFile, QueueUpload, At, StageFor,
     QueueStage, PersonStage, Idle, Between, Uploading, Keeping, Viewing, Filing, Removing

\* While its first file waits, only who attaches or replaces writes a sheet's.
LEMMA PutFileHomely ==
  ASSUME BlobsTypeOK, Stages, NEW t \in Tasks, PutFile(t) PROVE Homely(t)
<1> DEFINE r == task[t]
           d0 == Of(t)
<1>1. r \in Task /\ r.s \in Sheets /\ d0 \in Devices /\ r.at = "file" /\ r.op # "upload"
  BY NotUploading DEF PutFile, At
<1>2. PICK f \in Shas \cup {"empty"} :
        /\ SetFile(d0, r.s, f) /\ f # None
        /\ \/ f = r.bytes /\ cut' = cut
           \/ cut' = cut \cup {<<d0, r.s>>}
  BY PutFileDoes
<1>3. /\ file'[d0][r.s] = f
      /\ \A e \in Devices, q \in Sheets : e # d0 \/ q # r.s => file'[e][q] = file[e][q]
  BY <1>1, <1>2, FileTypes
<1>4. /\ task'[t].at = "record" /\ task'[t].op = r.op /\ task'[t].s = r.s
      /\ task'[t].sha = r.sha /\ task'[t].rec = r.rec /\ task'[t].todo = r.todo
      /\ \A u \in Tasks : u # t => task'[u] = task[u]
  BY GoAny DEF PutFile
<1>5. UNCHANGED <<blob, upload, evicting, replaced>>
  BY DEF PutFile
<1>6. Reaches(t)
  BY <1>2, <1>3, <1>4, <1>5 DEF Reaches, Kept
<1>7. ASSUME NEW d \in Devices, NEW s \in Sheets, d = d0, s = task[t].s, AtHome(d, s), RowGrows(d, s)
      PROVE  AtHome(d, s)'
  <2>1. Waiting(d, s)' => Waiting(d, s) /\ t = Person(d) /\ r.op \in {"attach", "replace"}
    BY <1>1, <1>7, FileWriters DEF RowGrows, Waiting
  <2>2. /\ Queuer(d) \in Tasks /\ Person(d) \in Tasks /\ Queuer(d) # Person(d)
        /\ t \in {Queuer(d), Person(d)}
    BY <1>7, TwoTasks
  <2>3. \A g \in Files : InQueue(d, s, g)' <=> InQueue(d, s, g)
    BY <1>4, <1>5, <2>2 DEF InQueue
  <2>4. Attaching(d, s)' <=> Attaching(d, s)
    BY <1>4, <2>2 DEF Attaching
  <2>5. NobodyElse(d, s)'
    <3>1. Waiting(d, s)' => r.op \in {"attach", "replace"} /\ Waiting(d, s)
      BY <2>1
    <3>2. Waiting(d, s)' => blob'[d][s].pin # "opportunistic"
      BY <1>5, <1>7, <3>1 DEF AtHome, NobodyElse
    <3>3. NobodyElse(d, s)
      BY <1>7 DEF AtHome
    <3>4. QED
      BY <1>4, <1>5, <1>7, <2>2, <3>1, <3>2, <3>3, FilingStaysAlone
  <2>6. NothingEarly(d, s)'
    BY <1>4, <1>7, <2>2, <2>3 DEF AtHome, NothingEarly, Unqueued, RowGrows
  <2>7. AttachHolds(d, s)'
    <3>1. Attaching(d, s)' /\ Waiting(d, s)' => r.op = "attach" /\ t = Person(d) /\ r.bytes = r.sha
      BY <1>1, <1>7, <2>1, <2>4, FileWriters DEF Attaching
    <3>2. QED
      BY <1>2, <1>3, <1>4, <1>7, <2>1, <2>3, <2>4, <3>1 DEF AtHome, AttachHolds, Unqueued, Cut
  <2>8. QueueHolds(d, s)'
    <3>1. Waiting(d, s)' => Attaching(d, s)' \/ <<d, s>> \in replaced
      BY <1>1, <1>7, <2>1, <2>4, FileWriters DEF Attaching
    <3>2. QED
      BY <1>5, <3>1 DEF QueueHolds
  <2>9. QED
    BY <2>5, <2>6, <2>7, <2>8 DEF AtHome
<1>8. QED
  BY <1>1, <1>6, <1>7 DEF Homely

\* The same of its record: nothing makes it one to evict.
LEMMA PutRecordHomely ==
  ASSUME BlobsTypeOK, Stages, NEW t \in Tasks, PutRecord(t) PROVE Homely(t)
<1> DEFINE r == task[t]
           d0 == Of(t)
           b == [sha |-> r.sha, pin |-> IF r.op = "view" THEN "opportunistic" ELSE "pinned"]
<1>1. r \in Task /\ r.s \in Sheets /\ d0 \in Devices /\ r.at = "record" /\ r.op # "upload"
  BY NotUploading DEF PutRecord, At
<1>2. /\ b # NoBlob /\ blob'[d0][r.s] = b
      /\ \A e \in Devices, q \in Sheets : e # d0 \/ q # r.s => blob'[e][q] = blob[e][q]
  BY PutRecordDoes, BlobTypes
<1>3. b.pin = "opportunistic" => r.op = "view"
  OBVIOUS
<1> HIDE DEF b
<1>4. \/ r.op \in {"attach", "replace"} /\ Go(t, "entry")
      \/ r.op \notin {"attach", "replace"} /\ Over(t)
  BY DEF PutRecord
<1>5. UNCHANGED <<file, upload, evicting, cut, replaced>>
  BY DEF PutRecord, history
<1>6. /\ \A u \in Tasks : u # t => task'[u] = task[u]
      /\ task'[t].s \in {r.s, None} /\ task'[t].todo \subseteq r.todo
  BY <1>4, GoAny, OverAny
<1>7. Reaches(t)
  BY <1>2, <1>5, <1>6 DEF Reaches, Kept
<1>8. ASSUME NEW d \in Devices, NEW s \in Sheets, d = d0, s = task[t].s, AtHome(d, s), RowGrows(d, s)
      PROVE  AtHome(d, s)'
  <2>1. Waiting(d, s)' => Waiting(d, s) /\ t = Person(d) /\ r.op \in {"attach", "replace"}
    BY <1>1, <1>8, FileWriters DEF RowGrows, Waiting
  <2>2. /\ Queuer(d) \in Tasks /\ Person(d) \in Tasks /\ Queuer(d) # Person(d)
        /\ t \in {Queuer(d), Person(d)}
    BY <1>8, TwoTasks
  <2>3. CASE r.op \in {"attach", "replace"}
    <3>1. /\ task'[t].at = "entry" /\ task'[t].op = r.op /\ task'[t].s = r.s
          /\ task'[t].sha = r.sha /\ task'[t].rec = r.rec /\ task'[t].todo = r.todo
      BY <1>4, <2>3, GoAny
    <3>2. \A g \in Files : InQueue(d, s, g)' <=> InQueue(d, s, g)
      BY <1>5, <1>6, <2>2, <3>1 DEF InQueue
    <3>3. Attaching(d, s)' <=> Attaching(d, s)
      BY <1>6, <2>2, <3>1 DEF Attaching
    <3>4. NobodyElse(d, s)'
      <4>1. blob'[d][s].pin # "opportunistic"
        BY <1>2, <1>3, <1>8, <2>3
      <4>2. NobodyElse(d, s)
        BY <1>8 DEF AtHome
      <4>3. QED
        BY <1>5, <1>6, <1>8, <2>2, <2>3, <3>1, <4>1, <4>2, FilingStaysAlone
    <3>5. NothingEarly(d, s)'
      BY <1>6, <1>8, <2>2, <3>1, <3>2 DEF AtHome, NothingEarly, Unqueued, RowGrows
    <3>6. AttachHolds(d, s)'
      <4>1. Attaching(d, s)' /\ Waiting(d, s)' => t = Person(d)
        BY <2>1
      <4>2. QED
        BY <1>1, <1>2, <1>5, <1>8, <2>1, <3>1, <3>2, <3>3, <4>1 DEF AtHome, AttachHolds, Unqueued, Cut
    <3>7. QueueHolds(d, s)'
      BY <1>5, <1>8, <2>1, <3>2, <3>3 DEF AtHome, QueueHolds, Cut, RowGrows
    <3>8. QED
      BY <3>4, <3>5, <3>6, <3>7 DEF AtHome
  <2>4. CASE r.op \notin {"attach", "replace"}
    <3>1. task'[t].s = None
      BY <1>4, <2>4, OverAny
    <3>2. Gently(t)
      BY <1>2, <1>3, <1>5, <1>6, <1>8, <2>1, <2>4, FileWriters, <1>1 DEF Gently
    <3>3. QED
      BY <1>6, <1>8, <2>4, <3>1, <3>2, HomeLeaves
  <2>5. QED
    BY <2>3, <2>4
<1>9. QED
  BY <1>1, <1>7, <1>8 DEF Homely

\* What is queued is what was written.
LEMMA QueueUploadHomely ==
  ASSUME BlobsTypeOK, Stages, NEW t \in Tasks, QueueUpload(t) PROVE Homely(t)
<1> DEFINE r == task[t]
           d0 == Of(t)
<1>1. r \in Task /\ r.s \in Sheets /\ d0 \in Devices /\ r.at = "entry" /\ r.op # "upload" /\ r.op # "remove"
  BY NotUploading DEF QueueUpload, At
<1>2. /\ upload'[d0][r.s] = r.sha
      /\ \A e \in Devices, q \in Sheets : e # d0 \/ q # r.s => upload'[e][q] = upload[e][q]
  BY EntryDoes, QueueTypes
<1>3. UNCHANGED <<blob, file, evicting, cut, replaced>> /\ Over(t)
  BY DEF QueueUpload, history
<1>4. /\ \A u \in Tasks : u # t => task'[u] = task[u]
      /\ task'[t].s = None /\ task'[t].todo \subseteq r.todo
  BY <1>3, OverAny
<1>5. Reaches(t)
  BY <1>2, <1>3, <1>4 DEF Reaches, Kept
<1>6. ASSUME NEW d \in Devices, NEW s \in Sheets, d = d0, s = task[t].s, AtHome(d, s), RowGrows(d, s)
      PROVE  AtHome(d, s)'
  <2>1. t = Person(d) /\ r.op \in {"attach", "replace"} /\ r.sha \in Files
    BY <1>1, <1>6, FileWriters
  <2>2. /\ Queuer(d) \in Tasks /\ Person(d) \in Tasks /\ Queuer(d) # Person(d) /\ None # s
    BY <1>6, TwoTasks, BlobsAssumption
  <2>3. \A g \in Files : InQueue(d, s, g)' => InQueue(d, s, g) \/ g = r.sha
    BY <1>2, <1>4, <1>6, <2>1, <2>2 DEF InQueue
  <2>4. ~Attaching(d, s)'
    BY <1>4, <2>1, <2>2 DEF Attaching
  <2>5. NobodyElse(d, s)'
    <3>1. task'[t].s # s
      BY <1>4, <1>6, <2>2
    <3>2. Waiting(d, s)' => Waiting(d, s)
      BY <1>6 DEF RowGrows, Waiting
    <3>3. Waiting(d, s)' => blob'[d][s].pin # "opportunistic"
      BY <1>3, <1>6, <3>2 DEF AtHome, NobodyElse
    <3>4. QED
      BY <1>3, <1>4, <1>6, <2>1, <2>2, <3>1, <3>3, StaysAlone DEF AtHome
  <2>6. NothingEarly(d, s)'
    BY <1>6, <2>1 DEF AtHome, NothingEarly, RowGrows
  <2>7. AttachHolds(d, s)'
    BY <2>4 DEF AttachHolds
  <2>8. QueueHolds(d, s)'
    <3>1. CASE r.op = "replace"
      BY <1>1, <1>3, <1>6, <3>1, FileWriters DEF QueueHolds
    <3>2. CASE r.op = "attach"
      <4>1. Waiting(d, s) => Unqueued(d, s) /\ (Cut(d, s) \/ file[d][s] = r.sha)
        BY <1>1, <1>6, <2>1, <3>2 DEF AtHome, AttachHolds, Attaching
      <4>2. QED
        BY <1>3, <1>6, <2>3, <4>1 DEF QueueHolds, Unqueued, Cut, RowGrows, Waiting
    <3>3. QED
      BY <2>1, <3>1, <3>2
  <2>9. QED
    BY <2>5, <2>6, <2>7, <2>8 DEF AtHome
<1>7. QED
  BY <1>1, <1>5, <1>6 DEF Homely

\* What is removed has been deleted.
LEMMA RemoveFileHomely ==
  ASSUME BlobsTypeOK, Stages, NEW t \in Tasks, RemoveFile(t) PROVE Homely(t)
<1> DEFINE r == task[t]
           d0 == Of(t)
<1>1. r \in Task /\ r.s \in Sheets /\ d0 \in Devices /\ r.at = "drop" /\ r.op = "remove"
  BY NotUploading DEF RemoveFile, At
<1>2. /\ \A e \in Devices, q \in Sheets : e # d0 \/ q # r.s =>
           file'[e][q] = file[e][q] /\ blob'[e][q] = blob[e][q]
      /\ blob'[d0][r.s] = NoBlob
  BY <1>1, FileTypes, BlobTypes, IdleIsATask DEF RemoveFile, Shas
<1>3. UNCHANGED <<upload, evicting, cut, replaced>>
  BY DEF RemoveFile, history
<1>4. /\ task'[t].at = "entry" /\ task'[t].op = r.op /\ task'[t].s = r.s
      /\ task'[t].sha = r.sha /\ task'[t].rec = r.rec /\ task'[t].todo = r.todo
      /\ \A u \in Tasks : u # t => task'[u] = task[u]
  BY GoAny DEF RemoveFile
<1>5. Reaches(t)
  BY <1>2, <1>3, <1>4 DEF Reaches, Kept
<1>6. ASSUME NEW d \in Devices, NEW s \in Sheets, d = d0, s = task[t].s, AtHome(d, s), RowGrows(d, s)
      PROVE  AtHome(d, s)'
  <2>1. t = Person(d) /\ row[d][s].st = "deleted" /\ row'[d][s].st = "deleted"
    BY <1>1, <1>6, FileWriters DEF RowGrows
  <2>2. /\ Queuer(d) \in Tasks /\ Person(d) \in Tasks /\ Queuer(d) # Person(d)
    BY <1>6, TwoTasks
  <2>3. NobodyElse(d, s)'
    <3>1. blob'[d][s].pin # "opportunistic"
      BY <1>2, <1>6, IdleIsATask
    <3>2. NobodyElse(d, s)
      BY <1>6 DEF AtHome
    <3>3. QED
      BY <1>1, <1>3, <1>4, <1>6, <2>1, <2>2, <3>1, <3>2, FilingStaysAlone
  <2>4. NothingEarly(d, s)' /\ QueueHolds(d, s)'
    BY <2>1 DEF NothingEarly, QueueHolds
  <2>5. AttachHolds(d, s)'
    BY <1>1, <1>4, <2>1 DEF AttachHolds, Attaching
  <2>6. QED
    BY <2>3, <2>4, <2>5 DEF AtHome
<1>7. QED
  BY <1>1, <1>5, <1>6 DEF Homely

\* The queue takes up a sheet: nothing it had not to do before, or one whose file is up.
LEMMA HomeQueue ==
  ASSUME BlobsTypeOK, Stages, NEW d \in Devices, NEW q \in Sheets, AtHome(d, q), RowGrows(d, q), Kept(d, q),
         task'[Person(d)] = task[Person(d)],
         task'[Queuer(d)].rec.pin # "opportunistic",
         task'[Queuer(d)].op \in {"none", "upload", "keep"},
         task'[Queuer(d)].s = q /\ task'[Queuer(d)].op = "upload" =>
           InQueue(d, q, task'[Queuer(d)].sha) /\ task'[Queuer(d)].sha \in Files,
         task'[Queuer(d)].s = q /\ task'[Queuer(d)].op # "upload" =>
           ~Waiting(d, q) /\ row[d][q].st # "none",
         \A f \in Files : <<q, f>> \in task'[Queuer(d)].todo => InQueue(d, q, f)
  PROVE  AtHome(d, q)'
<1>1. Waiting(d, q)' => Waiting(d, q)
  BY DEF RowGrows, Waiting
<1>2. Queuer(d) # Person(d)
  BY TwoTasks
<1>3. Waiting(d, q) \/ row[d][q].st = "none" => \A f \in Files : InQueue(d, q, f)' => InQueue(d, q, f)
  BY DEF Kept, InQueue
<1>4. Attaching(d, q)' <=> Attaching(d, q)
  BY DEF Attaching
<1>5. NobodyElse(d, q)'
  BY <1>1, <1>2 DEF AtHome, NobodyElse, Kept, RowGrows, Waiting
<1>6. NothingEarly(d, q)'
  BY <1>2, <1>3 DEF AtHome, NothingEarly, Unqueued, RowGrows
<1>7. AttachHolds(d, q)'
  BY <1>1, <1>3, <1>4 DEF AtHome, AttachHolds, Unqueued, Kept, Cut
<1>8. QueueHolds(d, q)'
  BY <1>1, <1>3, <1>4 DEF AtHome, QueueHolds, Kept, Cut, RowGrows
<1>9. QED
  BY <1>5, <1>6, <1>7, <1>8 DEF AtHome

AllKept == \A c \in Devices, q \in Sheets : Kept(c, q)
AllHome == \A c \in Devices, q \in Sheets : AtHome(c, q)
AllGrow == \A c \in Devices, q \in Sheets : RowGrows(c, q)

\* A step of one device and one task.
LEMMA OtherHomes ==
  ASSUME BlobsTypeOK, NEW t \in Tasks, AllHome, AllGrow,
         \A u \in Tasks : u # t => task'[u] = task[u],
         NEW c \in Devices, c # Of(t), \A q \in Sheets : Kept(c, q)
  PROVE  \A q \in Sheets : AtHome(c, q)'
<1>1. \A u \in {Queuer(c), Person(c)} : task'[u] = task[u]
  BY TwoTasks
<1>2. QED
  BY <1>1, HomeFrame DEF AllHome, AllGrow

\* A pass reads what is queued.
LEMMA StartPassHome ==
  ASSUME BlobsTypeOK, Stages, AllHome, AllGrow, NEW d \in Devices, StartPass(d)
  PROVE  AllHome'
<1> DEFINE todo == {u \in Sheets \X Files : upload[d][u[1]] = u[2]}
           want == {s \in Sheets : d \in Keepers /\ row[d][s].st = "live" /\ row[d][s].sha # None}
           m == [Idle EXCEPT !.op = "upload", !.at = "next", !.todo = todo, !.want = want]
<1>1. /\ Put(Queuer(d), m) /\ UNCHANGED <<device, history>>
      /\ Queuer(d) \in Tasks /\ Person(d) \in Tasks /\ Person(d) # Queuer(d) /\ Of(Queuer(d)) = d
  BY TwoTasks DEF StartPass
<1>2. m.op = "upload" /\ m.s = None /\ m.rec = NoBlob /\ m.todo = todo
  BY DEF Idle
<1>3. \A q \in Sheets, f \in Files : <<q, f>> \in todo => InQueue(d, q, f)
  BY DEF InQueue
<1> HIDE DEF m, todo
<1>4. task'[Queuer(d)] = m /\ \A u \in Tasks : u # Queuer(d) => task'[u] = task[u]
  BY <1>1, PutAny
<1>5. AllKept
  BY <1>1 DEF AllKept, Kept, device, history
<1>6. \A q \in Sheets : AtHome(d, q)'
  BY <1>1, <1>2, <1>3, <1>4, <1>5, HomeQueue, IdleIsATask, BlobsAssumption DEF AllKept, AllHome, AllGrow
<1>7. QED
  BY <1>1, <1>4, <1>5, <1>6, OtherHomes DEF AllKept, AllHome

\* It takes it up as it read it.
LEMMA NextUploadHome ==
  ASSUME BlobsTypeOK, Stages, AllHome, AllGrow, NEW t \in Tasks, NextUpload(t)
  PROVE  AllHome'
<1> DEFINE r == task[t]
           d == Of(t)
           m(u) == [r EXCEPT !.at = "get", !.s = u[1], !.sha = u[2], !.todo = @ \ {u}]
           k == [r EXCEPT !.op = "keep"]
<1>1. r \in Task /\ r.at = "next" /\ r.op = "upload" /\ UNCHANGED <<device, history>>
  BY ATask DEF NextUpload, At
<1>2. t = Queuer(d) /\ r.s = None /\ r.rec = NoBlob
  BY <1>1, StagesFor, TwoTasks DEF StageFor, QueueStage, PersonStage, Idle, Between, Uploading, Keeping,
     Viewing, Filing, Removing
<1>3. \/ Put(t, k)
      \/ \E u \in r.todo : Put(t, m(u))
  BY DEF NextUpload
<1>4. \/ task'[t].op = "keep" /\ task'[t].s = None /\ task'[t].rec = NoBlob /\ task'[t].todo = r.todo
      \/ \E u \in r.todo :
           /\ task'[t].op = "upload" /\ task'[t].s = u[1] /\ task'[t].sha = u[2]
           /\ task'[t].rec = NoBlob /\ task'[t].todo = r.todo \ {u}
  <2>1. CASE Put(t, k)
    <3>1. k.op = "keep" /\ k.s = r.s /\ k.rec = r.rec /\ k.todo = r.todo
      BY <1>1 DEF Task
    <3> HIDE DEF k
    <3>2. QED
      BY <1>2, <2>1, <3>1, PutAny
  <2>2. ASSUME NEW u \in r.todo, Put(t, m(u))
        PROVE  /\ task'[t].op = "upload" /\ task'[t].s = u[1] /\ task'[t].sha = u[2]
               /\ task'[t].rec = NoBlob /\ task'[t].todo = r.todo \ {u}
    <3> DEFINE n == m(u)
    <3>1. n.op = r.op /\ n.s = u[1] /\ n.sha = u[2] /\ n.rec = r.rec /\ n.todo = r.todo \ {u}
      BY <1>1 DEF Task
    <3>2. Put(t, n)
      BY <2>2
    <3> HIDE DEF n
    <3>3. QED
      BY <1>1, <1>2, <3>1, <3>2, PutAny
  <2>3. QED
    BY <1>3, <2>1, <2>2
<1>5. \A u \in Tasks : u # t => task'[u] = task[u]
  BY <1>3, PutAny
<1>6. AllKept
  BY <1>1 DEF AllKept, Kept, device, history
<1>7. ASSUME NEW c \in Devices, c = d, NEW q \in Sheets PROVE AtHome(c, q)'
  <2>1. \A u \in r.todo : u = <<u[1], u[2]>> /\ u[2] \in Files
    BY <1>1 DEF Task
  <2>2. \A f \in Files : <<q, f>> \in r.todo => InQueue(c, q, f)
    BY <1>2, <1>7 DEF InQueue
  <2>3. task'[Person(c)] = task[Person(c)]
    BY <1>2, <1>5, <1>7, TwoTasks
  <2>4. task'[t].s = q /\ task'[t].op = "upload" =>
          InQueue(c, q, task'[t].sha) /\ task'[t].sha \in Files
    BY <1>4, <2>1, <2>2
  <2>5. task'[t].op # "upload" => task'[t].s # q
    BY <1>4, BlobsAssumption
  <2>6. \A f \in Files : <<q, f>> \in task'[t].todo => InQueue(c, q, f)
    BY <1>4, <2>2
  <2>7. task'[t].rec.pin # "opportunistic" /\ task'[t].op \in {"none", "upload", "keep"}
    BY <1>4, IdleIsATask
  <2>8. QED
    BY <1>2, <1>6, <1>7, <2>3, <2>4, <2>5, <2>6, <2>7, HomeQueue DEF AllKept, AllHome, AllGrow
<1>8. QED
  BY <1>5, <1>6, <1>7, OtherHomes, TwoTasks DEF AllKept, AllHome

\* It keeps a sheet only when its row names a file.
LEMMA NextWantedHome ==
  ASSUME BlobsTypeOK, Stages, RowsAgree, AllHome, AllGrow, NEW t \in Tasks, NextWanted(t)
  PROVE  AllHome'
<1> DEFINE r == task[t]
           d == Of(t)
           rest(s) == [r EXCEPT !.want = @ \ {s}]
           m(s) == [rest(s) EXCEPT !.at = IF Has(d, s, row[d][s].sha) THEN "pin" ELSE "body",
                                   !.s = s, !.sha = row[d][s].sha]
<1>1. r \in Task /\ r.at = "next" /\ r.op = "keep" /\ UNCHANGED <<device, history>> /\ d \in Devices
  BY ATask, TwoTasks DEF NextWanted, At
<1>2. t = Queuer(d) /\ r.s = None /\ r.rec = NoBlob
  BY <1>1, StagesFor, TwoTasks DEF StageFor, QueueStage, PersonStage, Idle, Between, Uploading, Keeping,
     Viewing, Filing, Removing
<1>3. \/ Put(t, Idle)
      \/ \E s \in r.want : \/ Put(t, rest(s))
                           \/ row[d][s].sha # None /\ Put(t, m(s))
  BY DEF NextWanted
<1>4. /\ task'[t].op \in {"none", "keep"} /\ task'[t].rec = NoBlob /\ task'[t].todo \subseteq r.todo
      /\ task'[t].s # None => task'[t].s \in Sheets /\ row[d][task'[t].s].sha # None
  <2>1. CASE Put(t, Idle)
    BY <2>1, PutAny DEF Idle
  <2>2. ASSUME NEW s \in r.want, Put(t, rest(s))
        PROVE  /\ task'[t].op = "keep" /\ task'[t].rec = NoBlob /\ task'[t].todo = r.todo
               /\ task'[t].s = None
    <3> DEFINE n == rest(s)
    <3>1. n.op = r.op /\ n.s = r.s /\ n.rec = r.rec /\ n.todo = r.todo
      BY <1>1 DEF Task
    <3>2. Put(t, n)
      BY <2>2
    <3> HIDE DEF n
    <3>3. QED
      BY <1>1, <1>2, <3>1, <3>2, PutAny
  <2>3. ASSUME NEW s \in r.want, row[d][s].sha # None, Put(t, m(s))
        PROVE  /\ task'[t].op = "keep" /\ task'[t].rec = NoBlob /\ task'[t].todo = r.todo
               /\ task'[t].s = s /\ s \in Sheets
    <3> DEFINE n == m(s)
    <3>1. n.op = r.op /\ n.s = s /\ n.rec = r.rec /\ n.todo = r.todo /\ s \in Sheets
      BY <1>1 DEF Task
    <3>2. Put(t, n)
      BY <2>3
    <3> HIDE DEF n
    <3>3. QED
      BY <1>1, <1>2, <3>1, <3>2, PutAny
  <2>4. QED
    BY <1>3, <2>1, <2>2, <2>3
<1>5. \A u \in Tasks : u # t => task'[u] = task[u]
  BY <1>3, PutAny
<1>6. AllKept
  BY <1>1 DEF AllKept, Kept, device, history
<1>7. ASSUME NEW c \in Devices, c = d, NEW q \in Sheets PROVE AtHome(c, q)'
  <2>1. \A f \in Files : <<q, f>> \in task'[t].todo => InQueue(c, q, f)
    BY <1>2, <1>4, <1>7 DEF InQueue
  <2>2. task'[Person(c)] = task[Person(c)]
    BY <1>2, <1>5, <1>7, TwoTasks
  <2>3. task'[t].s = q => ~Waiting(c, q) /\ row[c][q].st # "none"
    BY <1>4, <1>7, BlobsAssumption DEF Waiting, RowsAgree
  <2>4. task'[t].rec.pin # "opportunistic" /\ task'[t].op \in {"none", "keep"}
    BY <1>4, IdleIsATask
  <2>5. QED
    BY <1>2, <1>6, <1>7, <2>1, <2>2, <2>3, <2>4, HomeQueue DEF AllKept, AllHome, AllGrow
<1>8. QED
  BY <1>5, <1>6, <1>7, OtherHomes DEF AllKept, AllHome

\* A person begins with a sheet.
Begun(d, s, r) ==
  /\ task[Person(d)].op = "none" /\ Put(Person(d), r)
  /\ r.s = s /\ r.rec = NoBlob /\ r.todo = {} /\ r.op \in {"attach", "replace", "remove", "view"}
  /\ UNCHANGED <<blob, file, upload, evicting, cut>> /\ replaced \subseteq replaced'

\* What was at home stays there when a person begins.
LEMMA BeginHome ==
  ASSUME BlobsTypeOK, Stages, RowsAgree, AllHome, AllGrow,
         NEW d \in Devices, NEW s \in Sheets, NEW r, Begun(d, s, r),
         r.op = "attach" => row[d][s].st = "none" /\ r.at = "file",
         row'[d][s].st # "none",
         r.op # "attach" => row[d][s].st # "none",
         r.op = "replace" => <<d, s>> \in replaced',
         r.op = "remove" => row'[d][s].st = "deleted",
         r.op = "view" => r.at = "get" /\ r.sha = row[d][s].sha
  PROVE  AllHome'
<1> DEFINE t == Person(d)
<1>1. /\ t \in Tasks /\ Queuer(d) \in Tasks /\ t # Queuer(d) /\ Of(t) = d /\ None # s
  BY TwoTasks, BlobsAssumption
<1>2. task'[t] = r /\ \A u \in Tasks : u # t => task'[u] = task[u]
  BY <1>1, PutAny DEF Begun
<1>3. task[t] = Idle
  BY <1>1, StagesFor DEF Begun, StageFor, PersonStage, Viewing, Filing, Removing
<1>4. AllKept
  BY DEF AllKept, Kept, Begun
<1>5. ASSUME NEW q \in Sheets PROVE AtHome(d, q)'
  <2>1. AtHome(d, q) /\ RowGrows(d, q) /\ Kept(d, q)
    BY <1>4 DEF AllHome, AllGrow, AllKept
  <2>2. CASE q # s
    <3>1. \A u \in {Queuer(d), Person(d)} : task'[u] = task[u] \/ Apart(u, q)
      <4>1. Idle.s = None /\ q # None
        BY BlobsAssumption DEF Idle
      <4>2. ASSUME NEW f \in Files PROVE <<q, f>> \in r.todo => <<q, f>> \in task[t].todo
        BY DEF Begun
      <4>3. QED
        BY <1>1, <1>2, <1>3, <2>2, <4>1, <4>2 DEF Apart, Begun
    <3>2. QED
      BY <2>1, <3>1, HomeFrame
  <2>3. CASE q = s
    <3>1. Waiting(d, s)' => Waiting(d, s)
      BY <2>1, <2>3 DEF RowGrows, Waiting
    <3>2. \A f \in Files : InQueue(d, s, f)' <=> InQueue(d, s, f)
      BY <1>1, <1>2 DEF InQueue, Begun
    <3>3. NobodyElse(d, s)'
      BY <1>1, <1>2, <2>1, <2>3, <3>1, IdleIsATask DEF AtHome, NobodyElse, RowGrows, Begun, Waiting, Kept
    <3>4. NothingEarly(d, s)'
      BY <2>1 DEF NothingEarly
    <3>5. AttachHolds(d, s)'
      BY <1>2, <2>1, <2>3, <3>2 DEF AtHome, AttachHolds, NothingEarly, Unqueued, Attaching
    <3>6. QueueHolds(d, s)'
      <4>1. CASE r.op = "attach"
        BY <1>2, <4>1 DEF QueueHolds, Attaching, Begun
      <4>2. CASE r.op # "attach"
        <5>1. ~Attaching(d, s)
          BY <1>3 DEF Attaching, Idle
        <5>2. QED
          BY <2>1, <2>3, <3>1, <3>2, <5>1 DEF AtHome, QueueHolds, Begun, RowGrows, Cut
      <4>3. QED
        BY <4>1, <4>2
    <3>7. QED
      BY <2>3, <3>3, <3>4, <3>5, <3>6 DEF AtHome
  <2>4. QED
    BY <2>2, <2>3
<1>6. QED
  BY <1>1, <1>2, <1>4, <1>5, OtherHomes DEF AllKept, AllHome

\* To attach, to replace, to remove and to view begin so.
LEMMA PersonBegins ==
  ASSUME BlobsTypeOK, Stages, RowsAgree, AllHome, AllGrow, NEW d \in Devices,
         Attach(d) \/ Replace(d) \/ Remove(d) \/ View(d)
  PROVE  AllHome'
<1> DEFINE t == Person(d)
           filing(op, s, f) == [Idle EXCEPT !.op = op, !.at = "file", !.s = s, !.sha = f, !.bytes = f]
           removing(s) == [Idle EXCEPT !.op = "remove", !.at = "drop", !.s = s]
           viewing(s) == [Idle EXCEPT !.op = "view", !.at = "get", !.s = s, !.sha = row[d][s].sha]
<1>1. \A op, s, f : /\ filing(op, s, f).op = op /\ filing(op, s, f).at = "file" /\ filing(op, s, f).s = s
                    /\ filing(op, s, f).rec = NoBlob /\ filing(op, s, f).todo = {}
  BY DEF Idle
<1>2. \A s : /\ removing(s).op = "remove" /\ removing(s).s = s
             /\ removing(s).rec = NoBlob /\ removing(s).todo = {}
  BY DEF Idle
<1>3. \A s : /\ viewing(s).op = "view" /\ viewing(s).s = s /\ viewing(s).at = "get"
             /\ viewing(s).sha = row[d][s].sha
             /\ viewing(s).rec = NoBlob /\ viewing(s).todo = {}
  BY DEF Idle
<1>4. row \in [Devices -> [Sheets -> [st : {"none", "live", "deleted"}, sha : Shas]]]
  BY DEF BlobsTypeOK
<1>5. CASE Attach(d)
  <2>1. PICK s \in Sheets : \E f \in Files :
          /\ \A e \in Devices : row[e][s].st = "none"
          /\ row' = [row EXCEPT ![d][s] = [st |-> "live", sha |-> None]]
          /\ Put(t, filing("attach", s, f))
    BY <1>5 DEF Attach
  <2>2. PICK f \in Files : Put(t, filing("attach", s, f))
    BY <2>1
  <2> DEFINE r == filing("attach", s, f)
  <2>3. row'[d][s].st # "none" /\ row[d][s].st = "none"
    BY <1>4, <2>1
  <2>4. Put(t, r) /\ r.op = "attach" /\ r.at = "file" /\ r.s = s /\ r.rec = NoBlob /\ r.todo = {}
    BY <1>1, <2>2
  <2> HIDE DEF r
  <2>5. Begun(d, s, r)
    BY <1>5, <2>4 DEF Begun, Attach, Change, history
  <2>6. QED
    BY <2>3, <2>4, <2>5, BeginHome
<1>6. CASE Replace(d)
  <2>1. PICK s \in Sheets : \E f \in Files :
          /\ row[d][s].st = "live"
          /\ Put(t, filing("replace", s, f))
          /\ replaced' = replaced \cup {<<d, s>>}
    BY <1>6 DEF Replace
  <2>2. PICK f \in Files : Put(t, filing("replace", s, f))
    BY <2>1
  <2> DEFINE r == filing("replace", s, f)
  <2>3. row' = row
    BY <1>6 DEF Replace, device
  <2>4. Put(t, r) /\ r.op = "replace" /\ r.s = s /\ r.rec = NoBlob /\ r.todo = {}
    BY <1>1, <2>2
  <2> HIDE DEF r
  <2>5. Begun(d, s, r)
    BY <1>6, <2>1, <2>4 DEF Begun, Replace, Change, device
  <2>6. QED
    BY <2>1, <2>3, <2>4, <2>5, BeginHome
<1>7. CASE Remove(d)
  <2>1. PICK s \in Sheets :
          /\ row[d][s].st = "live"
          /\ row' = [row EXCEPT ![d][s].st = "deleted"]
          /\ Put(t, removing(s))
    BY <1>7 DEF Remove
  <2> DEFINE r == removing(s)
  <2>2. row'[d][s].st = "deleted"
    BY <1>4, <2>1
  <2>3. Put(t, r) /\ r.op = "remove" /\ r.s = s /\ r.rec = NoBlob /\ r.todo = {}
    BY <1>2, <2>1
  <2> HIDE DEF r
  <2>4. Begun(d, s, r)
    BY <1>7, <2>3 DEF Begun, Remove, Change, history
  <2>5. QED
    BY <2>1, <2>2, <2>3, <2>4, BeginHome
<1>8. CASE View(d)
  <2>1. PICK s \in Sheets :
          row[d][s].st = "live" /\ Put(t, viewing(s))
    BY <1>8 DEF View
  <2> DEFINE r == viewing(s)
  <2>2. row' = row
    BY <1>8 DEF View, device
  <2>3. /\ Put(t, r) /\ r.op = "view" /\ r.s = s /\ r.rec = NoBlob /\ r.todo = {}
        /\ r.at = "get" /\ r.sha = row[d][s].sha
    BY <1>3, <2>1
  <2> HIDE DEF r
  <2>4. Begun(d, s, r)
    BY <1>8, <2>3 DEF Begun, View, device, history
  <2>5. QED
    BY <2>1, <2>2, <2>3, <2>4, BeginHome
<1>9. QED
  BY <1>5, <1>6, <1>7, <1>8

\* What is evicted may be evicted: no file that waits is read by it.
LEMMA EvictHome ==
  ASSUME BlobsTypeOK, AllHome, AllGrow, NEW d \in Devices, Evict(d)
  PROVE  AllHome'
<1>1. /\ UNCHANGED <<row, blob, file, upload, task, cut, replaced>>
      /\ evicting' = [evicting EXCEPT ![d] = {s \in Sheets : blob[d][s].pin = "opportunistic"}]
  BY DEF Evict, history
<1>2. ASSUME NEW c \in Devices, NEW q \in Sheets PROVE AtHome(c, q)'
  <2>1. AtHome(c, q)
    BY DEF AllHome
  <2>2. q \in evicting'[c] => q \in evicting[c] \/ blob[c][q].pin = "opportunistic"
    BY <1>1 DEF BlobsTypeOK
  <2>3. NobodyElse(c, q)'
    BY <1>1, <2>1, <2>2 DEF AtHome, NobodyElse, Waiting
  <2>4. NothingEarly(c, q)' /\ AttachHolds(c, q)' /\ QueueHolds(c, q)'
    BY <1>1, <2>1 DEF AtHome, NothingEarly, AttachHolds, QueueHolds, Unqueued, InQueue, Attaching, Cut, Waiting
  <2>5. QED
    BY <2>3, <2>4 DEF AtHome
<1>3. QED
  BY <1>2 DEF AllHome

\* What is dropped was not waiting.
LEMMA EvictNextHome ==
  ASSUME BlobsTypeOK, Stages, AllHome, AllGrow, NEW d \in Devices, EvictNext(d)
  PROVE  AllHome'
<1>1. UNCHANGED <<row, upload, task, cut, replaced>>
  BY DEF EvictNext, history
<1>2. \A e \in Devices : evicting'[e] \subseteq evicting[e]
  BY EvictNextDoes
<1>3. CASE UNCHANGED <<file, blob>>
  <2>1. AllKept
    BY <1>1, <1>2, <1>3 DEF AllKept, Kept
  <2>2. QED
    BY <1>1, <2>1, HomeFrame DEF AllHome, AllGrow, AllKept
<1>4. ASSUME NEW s \in evicting[d], SetFile(d, s, None), SetBlob(d, s, NoBlob), s \in Sheets
      PROVE  AllHome'
  <2>1. \A e \in Devices, q \in Sheets : e # d \/ q # s =>
          file'[e][q] = file[e][q] /\ blob'[e][q] = blob[e][q]
    BY <1>4, FileTypes, BlobTypes, IdleIsATask DEF Shas
  <2>2. blob'[d][s] = NoBlob
    BY <1>4, BlobTypes, IdleIsATask
  <2>3. ASSUME NEW c \in Devices, NEW q \in Sheets PROVE AtHome(c, q)'
    <3>1. AtHome(c, q)
      BY DEF AllHome
    <3>2. CASE c # d \/ q # s
      <4>1. Kept(c, q)
        BY <1>1, <1>2, <2>1, <3>2 DEF Kept
      <4>2. QED
        BY <1>1, <3>1, <4>1, HomeFrame DEF AllGrow
    <3>3. CASE c = d /\ q = s
      <4>1. ~Waiting(c, q)
        BY <1>4, <3>1, <3>3 DEF AtHome, NobodyElse
      <4>2. ~Waiting(c, q)'
        BY <1>1, <4>1 DEF Waiting
      <4>3. NobodyElse(c, q)'
        BY <1>1, <3>1, <4>2 DEF AtHome, NobodyElse
      <4>4. NothingEarly(c, q)'
        BY <1>1, <3>1 DEF AtHome, NothingEarly, Unqueued, InQueue
      <4>5. AttachHolds(c, q)' /\ QueueHolds(c, q)'
        BY <4>2 DEF AttachHolds, QueueHolds
      <4>6. QED
        BY <4>3, <4>4, <4>5 DEF AtHome
    <3>4. QED
      BY <3>2, <3>3
  <2>4. QED
    BY <2>3 DEF AllHome
<1>5. QED
  BY <1>3, <1>4, EvictNextDoes

\* A closed app leaves what it was attaching cut short.
LEMMA CloseHome ==
  ASSUME BlobsTypeOK, Stages, AllHome, AllGrow, NEW d \in Devices, Close(d)
  PROVE  AllHome'
<1>1. /\ UNCHANGED <<row, blob, file, upload, replaced>> /\ cut \subseteq cut'
      /\ \A e \in Devices : evicting'[e] \subseteq evicting[e]
  BY DEF Close, BlobsTypeOK
<1>2. /\ \A t \in Tasks : Of(t) = d => task'[t] = Idle
      /\ \A t \in Tasks : Of(t) # d => task'[t] = task[t]
  BY DEF Close
<1>3. cut' = cut \cup {<<d, s>> : s \in {task[t].s : t \in {Queuer(d), Person(d)}} \ {None}}
  BY DEF Close
<1>4. \A s \in Sheets : Attaching(d, s) => Cut(d, s)'
  BY <1>3, BlobsAssumption DEF Attaching, Cut
<1>5. Idle.op = "none" /\ Idle.s = None /\ Idle.todo = {} /\ Idle.sha = None
  BY DEF Idle
<1>6. ASSUME NEW c \in Devices, NEW q \in Sheets PROVE AtHome(c, q)'
  <2>1. AtHome(c, q) /\ Kept(c, q) /\ RowGrows(c, q)
    BY <1>1 DEF AllHome, AllGrow, Kept
  <2>2. CASE c # d
    BY <1>2, <2>1, <2>2, TwoTasks, HomeFrame
  <2>3. CASE c = d
    <3>1. \A u \in {Queuer(c), Person(c)} : task'[u] = Idle
      BY <1>2, <2>3, TwoTasks
    <3>2. None # q
      BY BlobsAssumption
    <3>3. NobodyElse(c, q)'
      BY <1>1, <1>5, <2>1, <3>1, <3>2 DEF AtHome, NobodyElse, Waiting
    <3>4. \A f \in Files : InQueue(c, q, f)' => InQueue(c, q, f)
      BY <1>1, <1>5, <3>1, <3>2 DEF InQueue
    <3>5. NothingEarly(c, q)'
      BY <1>1, <1>5, <2>1, <3>1, <3>2, <3>4 DEF AtHome, NothingEarly, Unqueued
    <3>6. AttachHolds(c, q)'
      BY <1>5, <3>1 DEF AttachHolds, Attaching
    <3>7. QueueHolds(c, q)'
      BY <1>1, <1>4, <2>1, <2>3, <3>4 DEF AtHome, QueueHolds, Waiting, Cut
    <3>8. QED
      BY <3>3, <3>5, <3>6, <3>7 DEF AtHome
  <2>4. QED
    BY <2>2, <2>3
<1>7. QED
  BY <1>6 DEF AllHome

\* A sound step about one sheet leaves all at home.
LEMMA HomelyHome ==
  ASSUME BlobsTypeOK, Stages, AllHome, AllGrow, NEW t \in Tasks, Homely(t)
  PROVE  AllHome'
<1>1. ASSUME NEW c \in Devices, NEW q \in Sheets PROVE AtHome(c, q)'
  <2>1. CASE c = Of(t) /\ q = task[t].s
    BY <2>1 DEF Homely, AllHome, AllGrow
  <2>2. CASE c # Of(t) \/ q # task[t].s
    BY <2>2, ReachesFrame DEF Homely, AllHome, AllGrow
  <2>3. QED
    BY <2>1, <2>2
<1>2. QED
  BY <1>1 DEF AllHome

\* Every step leaves all at home.
LEMMA HomeKept ==
  ASSUME BlobsTypeOK, Stages, RowsAgree, AllHome, [Next]_vars PROVE AllHome'
<1>1. AllGrow
  BY AllRowsGrow DEF AllGrow
<1>2. ASSUME NEW t \in Tasks, Work(t) \/ Disconnect(t) PROVE AllHome'
  <2>1. CASE NextUpload(t)
    BY <1>1, <2>1, NextUploadHome
  <2>2. CASE NextWanted(t)
    BY <1>1, <2>2, NextWantedHome
  <2>3. CASE ~NextUpload(t) /\ ~NextWanted(t)
    <3>1. Homely(t)
      BY <1>2, <2>3, GetRecordHomely, GetFileHomely, StayingHomely, EntryHomely, PutFileHomely,
         PutRecordHomely, QueueUploadHomely, RemoveFileHomely DEF Work
    <3>2. QED
      BY <1>1, <3>1, HomelyHome
  <2>4. QED
    BY <2>1, <2>2, <2>3
<1>3. ASSUME UNCHANGED <<blob, file, upload, evicting, task, cut, replaced>> PROVE AllHome'
  <2>1. AllKept
    BY <1>3 DEF AllKept, Kept
  <2>2. QED
    BY <1>1, <1>3, <2>1, HomeFrame DEF AllHome, AllGrow, AllKept
<1>4. CASE \E d \in Devices : SyncRows(d)
  BY <1>3, <1>4 DEF SyncRows, history
<1>5. CASE Purge \/ SweepNext \/ Month
  BY <1>3, <1>5 DEF Purge, SweepNext, Month, device, history
<1>6. CASE UNCHANGED vars
  BY <1>3, <1>6 DEF vars, device, history
<1>7. ASSUME NEW d \in Devices,
             \/ Attach(d) \/ Replace(d) \/ Remove(d) \/ View(d)
             \/ StartPass(d) \/ Evict(d) \/ EvictNext(d) \/ Close(d)
      PROVE  AllHome'
  BY <1>1, <1>7, PersonBegins, StartPassHome, EvictHome, EvictNextHome, CloseHome
<1>8. QED
  BY <1>2, <1>4, <1>5, <1>6, <1>7 DEF Next
-----------------------------------------------------------------------------
(* Somebody holds the first file of a sheet.  *)

\* What has had no file yet had none before, and its rows go one way.
LEMMA OpenBefore ==
  ASSUME BlobsTypeOK, RowsAgree, RowStep, NEW s \in Sheets, Open(s)'
  PROVE  /\ Open(s)
         /\ \/ sheets'[s].st = sheets[s].st
            \/ /\ sheets[s].st = "none" /\ sheets'[s].st = "live"
               /\ \E d \in Devices : row[d][s].st = "live"
         /\ \A d \in Devices :
              \/ row'[d][s] = row[d][s]
              \/ row'[d][s].st = "deleted"
              \/ row[d][s].st = "live" /\ row'[d][s] = [st |-> "live", sha |-> None]
              \/ row[d][s].st = "none" /\ (sheets'[s].st = "live" \/ Attached(d, s))
<1>1. /\ row \in [Devices -> [Sheets -> [st : {"none", "live", "deleted"}, sha : Shas]]]
      /\ sheets \in [Sheets -> [st : {"none", "live", "deleted", "purged"}, sha : Shas]]
  BY DEF BlobsTypeOK
<1>2. CASE UNCHANGED <<row, sheets>>
  BY <1>2 DEF Open
<1>3. ASSUME NEW d \in Devices, SyncRows(d)
      PROVE  /\ Open(s)
             /\ \/ sheets'[s].st = sheets[s].st
                \/ /\ sheets[s].st = "none" /\ sheets'[s].st = "live"
                   /\ row[d][s].st = "live"
             /\ \A e \in Devices :
                  \/ row'[e][s] = row[e][s]
                  \/ row'[e][s].st = "deleted"
                  \/ row[e][s].st = "live" /\ row'[e][s] = [st |-> "live", sha |-> None]
                  \/ row[e][s].st = "none" /\ sheets'[s].st = "live"
  <2>1. /\ sheets'[s] = Pushed(d, s) /\ Pushed(d, s).sha = sheets[s].sha
        /\ row'[d][s] = IF Pushed(d, s).st \in {"live", "deleted"} THEN Pushed(d, s) ELSE row[d][s]
        /\ \A e \in Devices \ {d} : row'[e][s] = row[e][s]
        /\ Pushed(d, s) \in [st : {"none", "live", "deleted", "purged"}, sha : Shas]
    BY <1>3, SyncDoes
  <2>2. \/ Pushed(d, s).st = sheets[s].st
        \/ Pushed(d, s).st = "live" /\ sheets[s].st = "none" /\ row[d][s].st = "live"
        \/ Pushed(d, s).st = "deleted"
    BY <1>1 DEF Pushed
  <2> HIDE DEF Pushed
  <2>3. Pushed(d, s).st \in {"none", "live"} /\ Pushed(d, s).sha = None
    BY <2>1 DEF Open
  <2>4. row'[d][s] = row[d][s] \/ (Pushed(d, s).st = "live" /\ row'[d][s] = [st |-> "live", sha |-> None])
    BY <2>1, <2>3
  <2>5. Open(s)
    BY <2>1, <2>2, <2>3 DEF Open
  <2>6. row[d][s].st \in {"none", "live", "deleted"}
    BY <1>1
  <2>7. row[d][s].st = "deleted" => row'[d][s].st = "deleted"
    BY RowsGrow
  <2>8. QED
    BY <2>1, <2>2, <2>3, <2>4, <2>5, <2>6, <2>7
<1>4. ASSUME NEW d \in Devices, NEW q \in Sheets, Attached(d, q) \/ Removed(d, q)
      PROVE  /\ Open(s) /\ sheets'[s].st = sheets[s].st
             /\ \A e \in Devices :
                  \/ row'[e][s] = row[e][s]
                  \/ row'[e][s].st = "deleted"
                  \/ row[e][s].st = "none" /\ Attached(e, s)
  <2>1. sheets' = sheets
    BY <1>4 DEF Attached, Removed
  <2>2. \A e \in Devices : e # d \/ q # s => row'[e][s] = row[e][s]
    BY <1>4, AttachedRow
  <2>3. Removed(d, s) => row'[d][s].st = "deleted"
    BY AttachedRow
  <2>4. Attached(d, s) => row[d][s].st = "none"
    BY DEF Attached
  <2>5. QED
    BY <1>4, <2>1, <2>2, <2>3, <2>4 DEF Open
<1>5. ASSUME NEW q \in Sheets, NEW f \in Files, Completed(q, f)
      PROVE  Open(s) /\ sheets'[s].st = sheets[s].st /\ row' = row
  <2>1. f # None
    BY BlobsAssumption
  <2>2. q # s
    BY <1>1, <1>5, <2>1 DEF Completed, Open
  <2>3. sheets'[s] = sheets[s]
    BY <1>1, <1>5, <2>2 DEF Completed
  <2>4. QED
    BY <1>5, <2>3 DEF Open, Completed
<1>6. CASE Purge
  BY <1>6, PurgeDoes DEF PurgedRows, Open
<1>7. QED
  BY <1>2, <1>3, <1>4, <1>5, <1>6 DEF RowStep

\* A step of a task leaves the other tasks.
LEMMA OneTask ==
  ASSUME BlobsTypeOK, Stages, NEW t \in Tasks, Work(t) \/ Disconnect(t)
  PROVE  \A u \in Tasks : u # t => task'[u] = task[u]
  BY WorkMoves, DisconnectMoves, PutAny DEF Moved

\* What was cut short stays so.
LEMMA CutGrows == ASSUME BlobsTypeOK, Stages, [Next]_vars PROVE cut \subseteq cut'
<1>1. ASSUME NEW t \in Tasks, Work(t) \/ Disconnect(t) PROVE cut \subseteq cut'
  <2>1. CASE PutFile(t)
    BY <2>1 DEF PutFile
  <2>2. CASE ~PutFile(t)
    BY <1>1, <2>2 DEF Work, Disconnect, history, GetRecord, GetFile, PutRecord, PutRefused,
       QueueUpload, RemoveFile, RemoveEntry, ViewCached, NextUpload, DropEntry, KeepEntry, NextWanted,
       PinRead, PinWrite, SheetUploadUrl, Assemble, VerifyStored, CompleteSheet, Download
  <2>3. QED
    BY <2>1, <2>2
<1>2. CASE \E d \in Devices :
             \/ SyncRows(d) \/ Attach(d) \/ Replace(d) \/ Remove(d) \/ View(d)
             \/ StartPass(d) \/ Evict(d) \/ EvictNext(d) \/ Close(d)
  BY <1>2 DEF history, SyncRows, Attach, Replace, Remove, View, StartPass, Evict, EvictNext, Close
<1>3. CASE Purge \/ SweepNext \/ Month \/ UNCHANGED vars
  BY <1>3 DEF history, Purge, SweepNext, Month, vars
<1>4. QED
  BY <1>1, <1>2, <1>3 DEF Next

\* What is being attached goes on, is cut short, or is queued.
LEMMA AttachGoesOn ==
  ASSUME BlobsTypeOK, Stages, NEW d \in Devices, NEW s \in Sheets, AtHome(d, s),
         Attaching(d, s), Waiting(d, s), [Next]_vars
  PROVE  Attaching(d, s)' \/ Cut(d, s)' \/ Queued(d, s)'
<1> DEFINE p == Person(d)
           r == task[p]
<1>1. /\ p \in Tasks /\ Of(p) = d /\ Queuer(d) \in Tasks /\ p # Queuer(d)
      /\ r \in Task /\ r.op = "attach" /\ r.s = s /\ s # None
  BY TwoTasks, ATask, BlobsAssumption DEF Attaching
<1>2. r.at \in {"file", "record", "entry"} /\ r.sha \in Files
  BY <1>1, StagesFor DEF StageFor, PersonStage, Idle, Viewing, Filing, Removing
<1>3. CASE task'[p] = r
  BY <1>1, <1>3 DEF Attaching
<1>4. CASE Work(p) \/ Disconnect(p)
  <2>1. PutFile(p) \/ PutRecord(p) \/ QueueUpload(p)
    BY <1>1, <1>2, <1>4 DEF Work, Disconnect, At, GetRecord, GetFile, PutRefused, RemoveFile, RemoveEntry,
       ViewCached, NextUpload, DropEntry, KeepEntry, NextWanted, PinRead, PinWrite, SheetUploadUrl,
       Assemble, VerifyStored, CompleteSheet, Download
  <2>2. CASE PutFile(p) \/ PutRecord(p)
    <3>1. \E at : Go(p, at)
      BY <1>1, <2>2 DEF PutFile, PutRecord
    <3>2. QED
      BY <1>1, <3>1, GoAny DEF Attaching
  <2>3. CASE QueueUpload(p)
    <3>1. r.at = "entry" /\ UNCHANGED <<blob, file, cut>>
      BY <2>3 DEF QueueUpload, At, history
    <3>2. upload'[d][s] = r.sha
      BY <1>1, <2>3, EntryDoes, QueueTypes
    <3>3. /\ Unqueued(d, s) /\ blob[d][s] # NoBlob
          /\ Cut(d, s) \/ file[d][s] = r.sha
      BY <1>1, <3>1 DEF AtHome, AttachHolds
    <3>4. task'[Queuer(d)] = task[Queuer(d)]
      BY <1>1, <1>4, OneTask
    <3>5. task[Queuer(d)].s = s => task[Queuer(d)].at # "drop"
      <4>1. task[Queuer(d)].s = s => task[Queuer(d)].sha \notin Files
        BY <3>3 DEF Unqueued, InQueue
      <4>2. QED
        BY <1>1, <4>1, TwoTasks, StagesFor DEF StageFor, QueueStage, Idle, Between, Uploading, Keeping
    <3>6. QED
      BY <1>2, <3>1, <3>2, <3>3, <3>4, <3>5, BlobsAssumption DEF Queued, Cut
  <2>4. QED
    BY <2>1, <2>2, <2>3
<1>5. ASSUME NEW t \in Tasks, t # p, Work(t) \/ Disconnect(t) PROVE task'[p] = r
  BY <1>1, <1>5, OneTask
<1>6. ASSUME NEW e \in Devices, Attach(e) \/ Replace(e) \/ Remove(e) \/ View(e) PROVE task'[p] = r
  <2>1. task[Person(e)].op = "none"
    BY <1>6 DEF Attach, Replace, Remove, View, Change
  <2>2. p # Person(e) /\ Person(e) \in Tasks
    BY <1>1, <2>1, TwoTasks
  <2>3. \E n : Put(Person(e), n)
    BY <1>6 DEF Attach, Replace, Remove, View
  <2>4. QED
    BY <1>1, <2>2, <2>3, PutAny
<1>7. ASSUME NEW e \in Devices, StartPass(e) PROVE task'[p] = r
  <2>1. p # Queuer(e) /\ Queuer(e) \in Tasks
    BY TwoTasks
  <2>2. \E n : Put(Queuer(e), n)
    BY <1>7 DEF StartPass
  <2>3. QED
    BY <1>1, <2>1, <2>2, PutAny
<1>8. ASSUME NEW e \in Devices, Close(e) PROVE task'[p] = r \/ Cut(d, s)'
  <2>1. CASE e = d
    <3>1. cut' = cut \cup {<<d, q>> : q \in {task[t].s : t \in {Queuer(d), Person(d)}} \ {None}}
      BY <1>8, <2>1 DEF Close
    <3>2. QED
      BY <1>1, <3>1 DEF Cut
  <2>2. CASE e # d
    BY <1>1, <1>8, <2>2 DEF Close
  <2>3. QED
    BY <2>1, <2>2
<1>9. ASSUME \/ \E e \in Devices : SyncRows(e) \/ Evict(e) \/ EvictNext(e)
             \/ Purge \/ SweepNext \/ Month \/ UNCHANGED vars
      PROVE  task'[p] = r
  BY <1>9 DEF SyncRows, Evict, EvictNext, Purge, SweepNext, Month, vars
<1>10. QED
  BY <1>3, <1>4, <1>5, <1>6, <1>7, <1>8, <1>9 DEF Next

\* A record that is put is there.
LEMMA PutsARecord ==
  ASSUME BlobsTypeOK, Stages, NEW t \in Tasks, PutRecord(t)
  PROVE  blob'[Of(t)][task[t].s] # NoBlob
<1> DEFINE r == task[t]
           b == [sha |-> r.sha, pin |-> IF r.op = "view" THEN "opportunistic" ELSE "pinned"]
<1>1. Of(t) \in Devices /\ r.s \in Sheets
  BY NotUploading
<1>2. b \in Blobs /\ b # NoBlob /\ SetBlob(Of(t), r.s, b)
  BY PutRecordDoes
<1> HIDE DEF b
<1>3. QED
  BY <1>1, <1>2, BlobTypes

\* A step of the queue, or of a person, about a sheet that is queued.
LEMMA QueuedHere ==
  ASSUME BlobsTypeOK, Stages, NEW t \in Tasks, Work(t) \/ Disconnect(t), NEW d \in Devices, NEW s \in Sheets,
         d = Of(t), s = task[t].s, AtHome(d, s), Queued(d, s), Waiting(d, s), row[d][s].st = "live",
         task[t].at # "done"
  PROVE  /\ upload'[d][s] # None /\ blob'[d][s] # NoBlob /\ file'[d][s] # None
         /\ t = Queuer(d) /\ task'[t].s = s => task'[t].at # "drop"
<1> DEFINE r == task[t]
<1>1. upload[d][s] # None /\ blob[d][s] # NoBlob /\ file[d][s] # None /\ r \in Task /\ None \notin Files
  BY ATask, BlobsAssumption DEF Queued
<1>2. /\ r.op # "remove"
      /\ t = Queuer(d) => r.at # "drop"
      /\ t = Queuer(d) => r.op \in {"none", "upload", "keep"}
  <2>1. t \in {Queuer(d), Person(d)}
    BY TwoTasks
  <2>2. r.op # "remove"
    BY <2>1 DEF AtHome, NobodyElse
  <2>3. t = Queuer(d) => r.op \in {"none", "upload", "keep"}
    BY StagesFor DEF StageFor, QueueStage, Idle, Between, Uploading, Keeping
  <2>4. QED
    BY <2>2, <2>3 DEF Queued
<1>3. CASE Over(t) \/ Put(t, Idle)
  <2>1. task'[t].s # s
    BY <1>3, OverAny, BlobsAssumption
  <2>2. CASE QueueUpload(t) \/ KeepEntry(t)
    <3>1. upload'[d][s] \in Files
      BY <2>2, EntryDoes, QueueTypes
    <3>2. QED
      BY <1>1, <2>1, <2>2, <3>1 DEF QueueUpload, KeepEntry
  <2>3. CASE PutRecord(t)
    <3>1. blob'[d][s] # NoBlob
      BY <2>3, PutsARecord
    <3>2. QED
      BY <1>1, <2>1, <2>3, <3>1 DEF PutRecord
  <2>4. CASE PinWrite(t)
    <3> DEFINE b == [r.rec EXCEPT !.pin = "pinned"]
    <3>1. b \in Blobs /\ SetBlob(d, s, b) /\ b # NoBlob
      BY <2>4, PinWriteDoes
    <3> HIDE DEF b
    <3>2. blob'[d][s] # NoBlob
      BY <3>1, BlobTypes
    <3>3. QED
      BY <1>1, <2>1, <2>4, <3>2 DEF PinWrite
  <2>5. CASE UNCHANGED <<upload, blob, file>>
    BY <1>1, <2>1, <2>5
  <2>6. CASE GetFile(t) \/ PutFile(t)
    <3>1. \E at : Go(t, at) \/ task'[t].s = s
      <4>1. CASE PutFile(t)
        BY <4>1 DEF PutFile
      <4>2. CASE GetFile(t)
        <5> DEFINE m == [r EXCEPT !.at = IF r.op = "view" THEN "row" ELSE "url", !.bytes = file[d][s]]
        <5>1. m.s = s
          BY <1>1 DEF Task
        <5>2. (\E at : Go(t, at)) \/ Put(t, m)
          BY <4>2 DEF GetFile
        <5> HIDE DEF m
        <5>3. QED
          BY <5>1, <5>2, PutAny
      <4>3. QED
        BY <2>6, <4>1, <4>2
    <3>2. task'[t].s = s
      BY <3>1, GoAny
    <3>3. QED
      BY <2>1, <3>2
  <2>7. ~RemoveFile(t) /\ ~RemoveEntry(t)
    BY <1>2 DEF RemoveFile, RemoveEntry, At
  <2>8. ~DropEntry(t)
    <3>1. DropEntry(t) => r.op = "upload" /\ r.at = "drop"
      BY DEF DropEntry
    <3>2. t # Queuer(d) => r.op # "upload"
      BY TwoTasks, StagesFor DEF StageFor, PersonStage, Idle, Viewing, Filing, Removing
    <3>3. QED
      BY <1>2, <3>1, <3>2
  <2>9. \/ QueueUpload(t) \/ KeepEntry(t) \/ PutRecord(t) \/ PinWrite(t) \/ GetFile(t) \/ PutFile(t)
        \/ UNCHANGED <<upload, blob, file>>
    BY <2>7, <2>8 DEF Work, Disconnect, device, GetRecord, PutRefused, ViewCached, NextUpload, NextWanted,
       PinRead, SheetUploadUrl, Assemble, VerifyStored, CompleteSheet, Download
  <2>10. QED
    BY <2>2, <2>3, <2>4, <2>5, <2>6, <2>9
<1>4. ASSUME NEW n, Put(t, n), n.at # "drop" PROVE task'[t].at # "drop"
  BY <1>4, PutAny
<1>5. ASSUME NEW at, Go(t, at), at # "drop" PROVE task'[t].at # "drop"
  BY <1>5, GoAny
<1>6. CASE GetRecord(t)
  <2> DEFINE n == [r EXCEPT !.at = "read", !.rec = blob[d][s]]
  <2>1. n.at = "read" /\ Put(t, n)
    BY <1>1, <1>6 DEF GetRecord, Task
  <2> HIDE DEF n
  <2>2. QED
    BY <1>1, <1>4, <1>6, <2>1 DEF GetRecord, device
<1>7. CASE GetFile(t)
  <2> DEFINE n == [r EXCEPT !.at = IF r.op = "view" THEN "row" ELSE "url", !.bytes = file[d][s]]
  <2>1. n.at \in {"row", "url"} /\ Put(t, n)
    BY <1>1, <1>7 DEF GetFile, Task
  <2>2. blob'[d][s] # NoBlob
    BY <1>1, <1>7, GetFileDoes, BlobTypes
  <2> HIDE DEF n
  <2>3. QED
    BY <1>1, <1>4, <1>7, <2>1, <2>2 DEF GetFile
<1>8. CASE PutFile(t)
  <2>1. PICK f \in Shas \cup {"empty"} : SetFile(d, s, f) /\ f # None
    BY <1>8, PutFileDoes
  <2>2. file'[d][s] # None
    BY <2>1, FileTypes
  <2>3. QED
    BY <1>1, <1>5, <1>8, <2>2 DEF PutFile
<1>9. CASE PutRecord(t) /\ Go(t, "entry")
  <2>1. blob'[d][s] # NoBlob
    BY <1>9, PutsARecord
  <2>2. QED
    BY <1>1, <1>5, <1>9, <2>1 DEF PutRecord
<1>10. CASE NextUpload(t) \/ NextWanted(t)
  <2>1. r.at = "next"
    BY <1>10 DEF NextUpload, NextWanted, At
  <2>2. r.s = None
    BY <2>1, StagesFor, TwoTasks DEF StageFor, QueueStage, PersonStage, Idle, Between, Uploading, Keeping,
       Viewing, Filing, Removing
  <2>3. QED
    BY <2>2, BlobsAssumption
<1>11. CASE ViewCached(t)
  <2> DEFINE n == [r EXCEPT !.at = "body", !.rec = NoBlob, !.bytes = None]
  <2>1. n.at = "body" /\ (Over(t) \/ Put(t, n))
    BY <1>1, <1>11 DEF ViewCached, Task
  <2> HIDE DEF n
  <2>2. QED
    BY <1>1, <1>3, <1>4, <1>11, <2>1 DEF ViewCached, device
<1>12. CASE PinRead(t)
  <2> DEFINE n == [r EXCEPT !.at = "pinned", !.rec = blob[d][s]]
  <2>1. n.at = "pinned" /\ (Over(t) \/ Put(t, n))
    BY <1>1, <1>12 DEF PinRead, Task
  <2> HIDE DEF n
  <2>2. QED
    BY <1>1, <1>3, <1>4, <1>12, <2>1 DEF PinRead, device
<1>13. CASE Download(t)
  <2> DEFINE n == [r EXCEPT !.at = "file", !.bytes = objects[sheets[r.s].sha]]
  <2>1. n.at = "file" /\ (Over(t) \/ Put(t, n))
    BY <1>1, <1>13 DEF Download, Task
  <2> HIDE DEF n
  <2>2. QED
    BY <1>1, <1>3, <1>4, <1>13, <2>1 DEF Download, device
<1>14. CASE SheetUploadUrl(t) \/ Assemble(t) \/ VerifyStored(t) \/ CompleteSheet(t) \/ Disconnect(t)
  <2>1. Over(t) \/ \E at \in {"failed", "verify", "assemble", "write", "done"} : Go(t, at)
    BY <1>14 DEF SheetUploadUrl, Assemble, VerifyStored, CompleteSheet, Disconnect
  <2>2. QED
    BY <1>1, <1>3, <1>5, <1>14, <2>1 DEF SheetUploadUrl, Assemble, VerifyStored, CompleteSheet, Disconnect,
       device
<1>15. CASE \/ QueueUpload(t) \/ KeepEntry(t) \/ PinWrite(t) \/ PutRefused(t) \/ RemoveEntry(t) \/ DropEntry(t)
            \/ (PutRecord(t) /\ Over(t))
  BY <1>3, <1>15 DEF QueueUpload, KeepEntry, PinWrite, PutRefused, RemoveEntry, DropEntry
<1>16. ~RemoveFile(t)
  BY <1>2 DEF RemoveFile, At
<1>17. QED
  <2>1. PutRecord(t) => Go(t, "entry") \/ Over(t)
    BY DEF PutRecord
  <2>2. QED
    BY <1>6, <1>7, <1>8, <1>9, <1>10, <1>11, <1>12, <1>13, <1>14, <1>15, <1>16, <2>1 DEF Work

\* What is queued stays queued, with its record and its file, until it is up.
LEMMA QueuedGoesOn ==
  ASSUME BlobsTypeOK, Stages, AllHome, SomebodyHolds, NEW d \in Devices, NEW s \in Sheets, Open(s),
         Queued(d, s), Waiting(d, s), row[d][s].st = "live", [Next]_vars
  PROVE  Queued(d, s)'
<1> DEFINE q == Queuer(d)
<1>1. /\ upload[d][s] # None /\ blob[d][s] # NoBlob /\ file[d][s] # None
      /\ task[q].s = s => task[q].at # "drop"
  BY DEF Queued
<1>2. q \in Tasks /\ Of(q) = d /\ s # None
  BY TwoTasks, BlobsAssumption
<1>3. ASSUME /\ upload'[d][s] = upload[d][s] /\ blob'[d][s] = blob[d][s] /\ file'[d][s] = file[d][s]
             /\ task'[q].s = s => task'[q] = task[q] \/ task'[q].at # "drop"
      PROVE  Queued(d, s)'
  BY <1>1, <1>3 DEF Queued
<1>4. ASSUME NEW t \in Tasks, Work(t) \/ Disconnect(t) PROVE Queued(d, s)'
  <2>1. \A u \in Tasks : u # t => task'[u] = task[u]
    BY <1>4, OneTask
  <2>2. CASE Of(t) = d /\ task[t].s = s
    <3>1. task[t].at # "done"
      BY <2>2 DEF SomebodyHolds
    <3>2. /\ upload'[d][s] # None /\ blob'[d][s] # NoBlob /\ file'[d][s] # None
          /\ t = q /\ task'[t].s = s => task'[t].at # "drop"
      BY <1>4, <2>2, <3>1, QueuedHere DEF AllHome
    <3>3. task'[q].s = s => task'[q].at # "drop"
      <4>1. CASE t = q
        BY <3>2, <4>1
      <4>2. CASE t # q
        BY <1>1, <1>2, <2>1, <4>2
      <4>3. QED
        BY <4>1, <4>2
    <3>4. QED
      BY <3>2, <3>3 DEF Queued
  <2>3. CASE NextUpload(t) \/ NextWanted(t)
    <3>1. UNCHANGED device
      BY <2>3 DEF NextUpload, NextWanted
    <3>2. task'[t].at # "drop"
      <4>1. task[t] \in Task /\ task[t].at = "next"
        BY <2>3, ATask DEF NextUpload, NextWanted, At
      <4> DEFINE n(u) == [task[t] EXCEPT !.at = "get", !.s = u[1], !.sha = u[2], !.todo = @ \ {u}]
                 k == [task[t] EXCEPT !.op = "keep"]
                 rest(z) == [task[t] EXCEPT !.want = @ \ {z}]
                 m(z) == [rest(z) EXCEPT !.at = IF Has(Of(t), z, row[Of(t)][z].sha) THEN "pin" ELSE "body",
                                         !.s = z, !.sha = row[Of(t)][z].sha]
      <4>2. /\ \A u : n(u).at = "get"
            /\ k.at = "next" /\ Idle.at = "idle"
            /\ \A z : rest(z).at = "next" /\ m(z).at \in {"pin", "body"}
        BY <4>1 DEF Task, Idle
      <4>3. Put(t, Idle) \/ Put(t, k) \/ (\E u : Put(t, n(u))) \/ \E z : Put(t, rest(z)) \/ Put(t, m(z))
        BY <2>3 DEF NextUpload, NextWanted
      <4> HIDE DEF n, k, rest, m
      <4>4. ASSUME NEW x, Put(t, x), x.at # "drop" PROVE task'[t].at # "drop"
        BY <4>4, PutAny
      <4>5. QED
        BY <4>2, <4>3, <4>4
    <3>3. QED
      BY <1>2, <1>3, <2>1, <3>1, <3>2 DEF device
  <2>4. CASE /\ ~(Of(t) = d /\ task[t].s = s)
             /\ ~NextUpload(t) /\ ~NextWanted(t)
    <3>1. Homely(t)
      BY <1>4, <2>4, GetRecordHomely, GetFileHomely, StayingHomely, EntryHomely, PutFileHomely,
         PutRecordHomely, QueueUploadHomely, RemoveFileHomely DEF Work
    <3>2. Kept(d, s) /\ task'[t].s \in {task[t].s, None}
      BY <2>4, <3>1 DEF Homely, Reaches
    <3>3. QED
      BY <1>2, <1>3, <2>1, <2>4, <3>2 DEF Kept
  <2>5. QED
    BY <2>2, <2>3, <2>4
<1>5. ASSUME NEW e \in Devices, Attach(e) \/ Replace(e) \/ Remove(e) \/ View(e) PROVE Queued(d, s)'
  <2>1. UNCHANGED <<upload, blob, file>>
    BY <1>5 DEF Attach, Replace, Remove, View, device
  <2>2. \E n : Put(Person(e), n)
    BY <1>5 DEF Attach, Replace, Remove, View
  <2>3. task'[q] = task[q]
    BY <1>2, <2>2, PutAny, TwoTasks
  <2>4. QED
    BY <1>3, <2>1, <2>3
<1>6. ASSUME NEW e \in Devices, StartPass(e) PROVE Queued(d, s)'
  <2> DEFINE todo == {u \in Sheets \X Files : upload[e][u[1]] = u[2]}
             want == {z \in Sheets : e \in Keepers /\ row[e][z].st = "live" /\ row[e][z].sha # None}
             n == [Idle EXCEPT !.op = "upload", !.at = "next", !.todo = todo, !.want = want]
  <2>1. n.at = "next"
    BY DEF Idle
  <2>2. Put(Queuer(e), n) /\ UNCHANGED <<upload, blob, file>>
    BY <1>6 DEF StartPass, device
  <2> HIDE DEF n
  <2>3. task'[q] = task[q] \/ task'[q].at = "next"
    BY <1>2, <2>1, <2>2, PutAny, TwoTasks
  <2>4. QED
    BY <1>3, <2>2, <2>3
<1>7. ASSUME NEW e \in Devices, Close(e) PROVE Queued(d, s)'
  <2>1. UNCHANGED <<upload, blob, file>>
    BY <1>7 DEF Close
  <2>2. task'[q] = task[q] \/ task'[q] = Idle
    BY <1>2, <1>7 DEF Close
  <2>3. Idle.at = "idle"
    BY DEF Idle
  <2>4. QED
    BY <1>3, <2>1, <2>2, <2>3
<1>8. ASSUME NEW e \in Devices, EvictNext(e) PROVE Queued(d, s)'
  <2>1. UNCHANGED <<upload, task>>
    BY <1>8 DEF EvictNext
  <2>2. blob'[d][s] = blob[d][s] /\ file'[d][s] = file[d][s]
    <3>1. CASE UNCHANGED <<file, blob>>
      BY <3>1
    <3>2. ASSUME NEW z \in evicting[e], SetFile(e, z, None), SetBlob(e, z, NoBlob), z \in Sheets
          PROVE  blob'[d][s] = blob[d][s] /\ file'[d][s] = file[d][s]
      <4>1. s \notin evicting[d]
        BY DEF AllHome, AtHome, NobodyElse
      <4>2. e # d \/ z # s
        BY <3>2, <4>1
      <4>3. QED
        BY <3>2, <4>2, FileTypes, BlobTypes, IdleIsATask DEF Shas
    <3>3. QED
      BY <1>8, <3>1, <3>2, EvictNextDoes
  <2>3. QED
    BY <1>3, <2>1, <2>2
<1>9. CASE \/ \E e \in Devices : SyncRows(e) \/ Evict(e)
           \/ Purge \/ SweepNext \/ Month \/ UNCHANGED vars
  BY <1>3, <1>9 DEF SyncRows, Evict, Purge, SweepNext, Month, vars, device
<1>10. QED
  BY <1>4, <1>5, <1>6, <1>7, <1>8, <1>9 DEF Next

\* Who holds a first file goes on holding it until it is up.
LEMMA HoldsGoesOn ==
  ASSUME BlobsTypeOK, Stages, RowsAgree, AllHome, SomebodyHolds, [Next]_vars,
         NEW d \in Devices, NEW s \in Sheets, Open(s)', Holds(d, s)
  PROVE  Holds(d, s)'
<1>1. RowStep
  BY RowSteps
<1>2. CASE Cut(d, s)
  BY <1>2, CutGrows DEF Cut, Holds
<1>3. CASE row[d][s].st = "deleted"
  BY <1>1, <1>3, RowsGrow DEF Holds
<1>4. CASE row[d][s] = [st |-> "live", sha |-> None] /\ (Attaching(d, s) \/ Queued(d, s))
  <2>1. /\ Open(s)
        /\ row'[d][s].st = "deleted" \/ row'[d][s] = [st |-> "live", sha |-> None]
    BY <1>1, <1>4, OpenBefore
  <2>2. Waiting(d, s) /\ row[d][s].st = "live" /\ AtHome(d, s)
    BY <1>4 DEF Waiting, AllHome
  <2>3. Attaching(d, s)' \/ Cut(d, s)' \/ Queued(d, s)'
    BY <1>4, <2>1, <2>2, AttachGoesOn, QueuedGoesOn
  <2>4. QED
    BY <2>1, <2>3 DEF Holds
<1>5. QED
  BY <1>2, <1>3, <1>4 DEF Holds

\* An upload that is done has given its sheet a file.
LEMMA DoneHolds ==
  ASSUME BlobsTypeOK, Stages, RowsAgree, SomebodyHolds, [Next]_vars
  PROVE  \A t \in Tasks : task'[t].at = "done" => ~Open(task[t].s)'
<1>1. \A s \in Sheets : Open(s)' => Open(s)
  BY RowSteps, OpenBefore
<1>2. \A t \in Tasks : task[t].at = "done" => task[t].s \in Sheets /\ ~Open(task[t].s)
  BY HasSheet DEF SomebodyHolds
<1>3. CASE NobodyWrites
  <2>1. ASSUME NEW t \in Tasks, task'[t].at = "done" PROVE ~Open(task[t].s)'
    <3>1. task[t].at = "done" /\ task'[t].s = task[t].s
      BY <1>3, <2>1 DEF NobodyWrites
    <3>2. PICK s \in Sheets : s = task[t].s /\ ~Open(s)
      BY <1>2, <3>1
    <3>3. ~Open(s)' /\ task'[t].s = s
      BY <1>1, <3>1, <3>2
    <3>4. QED
      BY <3>3 DEF Open
  <2>2. QED
    BY <2>1
<1>4. ASSUME NEW t \in Tasks, SheetUploadUrl(t) \/ Assemble(t) \/ VerifyStored(t) \/ CompleteSheet(t),
             NEW u \in Tasks, task'[u].at = "done"
      PROVE  ~Open(task[u].s)'
  <2>1. CASE u # t
    <3>1. task'[u] = task[u]
      BY <1>4, <2>1, OneTask DEF Work
    <3>2. PICK s \in Sheets : s = task[u].s /\ ~Open(s)
      BY <1>2, <1>4, <3>1
    <3>3. ~Open(s)' /\ task'[u].s = s
      BY <1>1, <3>1, <3>2
    <3>4. QED
      BY <3>3 DEF Open
  <2>2. CASE u = t
    <3>1. CASE ~CompleteSheet(t)
      <4>1. \E at \in {"failed", "verify", "assemble", "write"} : Go(t, at)
        BY <1>4, <3>1 DEF SheetUploadUrl, Assemble, VerifyStored
      <4>2. QED
        BY <1>4, <2>2, <4>1, GoAny
    <3>2. CASE CompleteSheet(t)
      <4>1. /\ task[t].s \in Sheets /\ task[t].sha \in Files /\ task[t].sha # None
        BY <3>2, HasSheet, BlobsAssumption DEF CompleteSheet, At
      <4>2. \/ sheets' = [sheets EXCEPT ![task[t].s].sha = task[t].sha] /\ Go(t, "done")
            \/ Go(t, "failed")
        BY <3>2 DEF CompleteSheet
      <4>3. task'[t].s = task[t].s
        BY <4>2, GoAny
      <4>4. sheets' = [sheets EXCEPT ![task[t].s].sha = task[t].sha]
        BY <1>4, <2>2, <4>2, GoAny
      <4>5. sheets'[task[t].s].sha = task[t].sha
        BY <4>1, <4>4 DEF BlobsTypeOK
      <4>6. QED
        BY <2>2, <4>1, <4>3, <4>5 DEF Open
    <3>3. QED
      BY <3>1, <3>2
  <2>3. QED
    BY <2>1, <2>2
<1>5. ASSUME NEW t \in Tasks, Work(t) \/ Disconnect(t),
             ~(SheetUploadUrl(t) \/ Assemble(t) \/ VerifyStored(t) \/ CompleteSheet(t))
      PROVE  NobodyWrites
  BY <1>5, Writeless DEF Work
<1>6. CASE \E d \in Devices :
             \/ SyncRows(d) \/ Attach(d) \/ Replace(d) \/ Remove(d) \/ View(d)
             \/ StartPass(d) \/ Evict(d) \/ EvictNext(d) \/ Close(d)
  BY <1>3, <1>6, WritelessDevice
<1>7. CASE UNCHANGED task
  BY <1>3, <1>7 DEF NobodyWrites
<1>8. QED
  BY <1>3, <1>4, <1>5, <1>6, <1>7 DEF Next, Purge, SweepNext, Month, vars

\* A sheet that comes from nowhere is one that a person attaches.
LEMMA AttachedAttaches ==
  ASSUME BlobsTypeOK, Stages, [Next]_vars, NEW d \in Devices, NEW s \in Sheets, Attached(d, s)
  PROVE  Attaching(d, s)'
<1>1. row[d][s].st = "none" /\ row'[d][s] = [st |-> "live", sha |-> None] /\ row' # row
  <2>1. row[d][s].st = "none"
    BY DEF Attached
  <2>2. row'[d][s] = [st |-> "live", sha |-> None]
    BY AttachedRow
  <2>3. QED
    BY <2>1, <2>2
<1>2. ~\E t \in Tasks : Work(t) \/ Disconnect(t)
  <2>1. SUFFICES ASSUME NEW t \in Tasks, Work(t) \/ Disconnect(t) PROVE row' = row
    BY <1>1
  <2>2. CASE GetRecord(t) \/ GetFile(t) \/ PutFile(t) \/ PutRecord(t) \/ PutRefused(t) \/ QueueUpload(t)
    BY <2>2 DEF device, GetRecord, GetFile, PutFile, PutRecord, PutRefused, QueueUpload
  <2>3. CASE \/ RemoveFile(t) \/ RemoveEntry(t) \/ ViewCached(t) \/ NextUpload(t) \/ DropEntry(t)
             \/ KeepEntry(t) \/ NextWanted(t)
    BY <2>3 DEF device, RemoveFile, RemoveEntry, ViewCached, NextUpload, DropEntry, KeepEntry, NextWanted
  <2>4. CASE \/ PinRead(t) \/ PinWrite(t) \/ SheetUploadUrl(t) \/ Assemble(t) \/ VerifyStored(t)
             \/ CompleteSheet(t) \/ Download(t) \/ Disconnect(t)
    BY <2>4 DEF device, PinRead, PinWrite, SheetUploadUrl, Assemble, VerifyStored, CompleteSheet,
       Download, Disconnect
  <2>5. QED
    BY <2>1, <2>2, <2>3, <2>4 DEF Work
<1>3. ~\E e \in Devices : Replace(e) \/ View(e) \/ StartPass(e) \/ Evict(e) \/ EvictNext(e) \/ Close(e)
  BY <1>1 DEF device, Replace, View, StartPass, Evict, EvictNext, Close
<1>4. ~(Purge \/ SweepNext \/ Month \/ UNCHANGED vars)
  BY <1>1 DEF device, Purge, SweepNext, Month, vars
<1>5. ~\E e \in Devices : Remove(e)
  <2>1. ASSUME NEW e \in Devices, NEW q \in Sheets, Removed(e, q) PROVE FALSE
    <3>1. row[e][q].st = "live"
      BY <2>1 DEF Removed
    <3>2. e # d \/ q # s
      BY <1>1, <3>1
    <3>3. row'[d][s] = row[d][s]
      BY <2>1, <3>2, AttachedRow
    <3>4. QED
      BY <1>1, <3>3
  <2>2. QED
    BY <2>1 DEF Remove, Removed, server
<1>6. ASSUME NEW e \in Devices, SyncRows(e) PROVE FALSE
  <2>1. e = d
    BY <1>1, <1>6, SyncDoes
  <2>2. Pushed(d, s) = sheets[s] /\ sheets[s].st = "none"
    BY <1>1 DEF Pushed, Attached
  <2>3. QED
    BY <1>1, <1>6, <2>1, <2>2, SyncDoes
<1>7. PICK e \in Devices : Attach(e)
  BY <1>2, <1>3, <1>4, <1>5, <1>6 DEF Next
<1> DEFINE attaching(q, f) == [Idle EXCEPT !.op = "attach", !.at = "file", !.s = q, !.sha = f, !.bytes = f]
<1>8. PICK q \in Sheets : Attached(e, q) /\ \E f \in Files : Put(Person(e), attaching(q, f))
  BY <1>7 DEF Attach, Attached, server
<1>9. e = d /\ q = s
  <2>1. ~(e = d /\ q = s) => row'[d][s] = row[d][s]
    BY <1>8, AttachedRow
  <2>2. QED
    BY <1>1, <2>1
<1>10. \A f : attaching(s, f).op = "attach" /\ attaching(s, f).s = s
  BY DEF Idle
<1>11. PICK f \in Files : Put(Person(d), attaching(s, f))
  BY <1>8, <1>9
<1> HIDE DEF attaching
<1>12. QED
  BY <1>10, <1>11, PutAny, TwoTasks DEF Attaching

\* Somebody goes on holding it.
LEMMA SomebodyKept ==
  ASSUME BlobsTypeOK, Stages, RowsAgree, AllHome, SomebodyHolds, [Next]_vars
  PROVE  SomebodyHolds'
<1>1. RowStep
  BY RowSteps
<1>2. ASSUME NEW s \in Sheets, Open(s)'
      PROVE  IF sheets'[s].st = "live" THEN \E d \in Devices : Holds(d, s)'
             ELSE \A d \in Devices : row'[d][s].st # "none" => Holds(d, s)'
  <2>1. /\ Open(s)
        /\ \/ sheets'[s].st = sheets[s].st
           \/ /\ sheets[s].st = "none" /\ sheets'[s].st = "live"
              /\ \E d \in Devices : row[d][s].st = "live"
    BY <1>1, <1>2, OpenBefore
  <2>2. /\ sheets[s].st = "live" => \E d \in Devices : Holds(d, s)
        /\ sheets[s].st # "live" => \A d \in Devices : row[d][s].st # "none" => Holds(d, s)
    BY <2>1 DEF SomebodyHolds
  <2>3. \A d \in Devices : Holds(d, s) => Holds(d, s)'
    BY <1>2, HoldsGoesOn
  <2>4. CASE sheets'[s].st = "live"
    BY <2>1, <2>2, <2>3, <2>4
  <2>5. CASE sheets'[s].st # "live"
    <3>1. sheets[s].st # "live"
      BY <2>1, <2>5
    <3>2. ASSUME NEW d \in Devices, row'[d][s].st # "none" PROVE Holds(d, s)'
      <4>1. CASE row[d][s].st # "none"
        BY <2>2, <2>3, <3>1, <4>1
      <4>2. CASE row[d][s].st = "none"
        <5>1. row'[d][s].st = "deleted" \/ Attached(d, s)
          BY <1>1, <1>2, <2>5, <3>2, <4>2, OpenBefore
        <5>2. CASE row'[d][s].st = "deleted"
          BY <5>2 DEF Holds
        <5>3. CASE Attached(d, s)
          <6>1. row'[d][s] = [st |-> "live", sha |-> None]
            BY <5>3, AttachedRow
          <6>2. Attaching(d, s)'
            BY <3>2, <4>2, <5>3, <6>1, AttachedAttaches
          <6>3. QED
            BY <6>1, <6>2 DEF Holds
        <5>4. QED
          BY <5>1, <5>2, <5>3
      <4>3. QED
        BY <4>1, <4>2
    <3>3. QED
      BY <2>5, <3>2
  <2>6. QED
    BY <2>4, <2>5
<1>3. QED
  BY <1>2, DoneHolds DEF SomebodyHolds
-----------------------------------------------------------------------------
(* The theorems.  *)

\* It all holds of an empty workspace, with an old orphan in the store or without.
LEMMA BlobsBegin == Init => BlobsInv
<1> SUFFICES ASSUME Init PROVE BlobsInv
  OBVIOUS
<1>1. /\ sheets = [s \in Sheets |-> NoRow] /\ row = [d \in Devices |-> [s \in Sheets |-> NoRow]]
      /\ blob = [d \in Devices |-> [s \in Sheets |-> NoBlob]]
      /\ file = [d \in Devices |-> [s \in Sheets |-> None]]
      /\ upload = [d \in Devices |-> [s \in Sheets |-> None]]
      /\ evicting = [d \in Devices |-> {}] /\ task = [t \in Tasks |-> Idle]
      /\ sweep = {} /\ spoiled = {} /\ cut = {} /\ replaced = {}
      /\ old \subseteq Files /\ objects = [f \in Files |-> IF f \in old THEN f ELSE None]
  BY DEF Init
<1>2. NoRow.st = "none" /\ NoRow.sha = None
  BY DEF NoRow
<1>3. /\ Idle.op = "none" /\ Idle.at = "idle" /\ Idle.s = None /\ Idle.sha = None
      /\ Idle.rec = NoBlob /\ Idle.todo = {}
  BY DEF Idle
<1>4. BlobsTypeOK
  <2>1. DeviceTypes
    BY <1>1, IdleIsATask DEF DeviceTypes, NoRow, Shas
  <2>2. ServerTypes
    BY <1>1 DEF ServerTypes, NoRow, Shas
  <2>3. OtherTypes
    BY <1>1 DEF OtherTypes, Init
  <2>4. task \in [Tasks -> Task]
    BY <1>1, IdleIsATask
  <2>5. QED
    BY <2>1, <2>2, <2>3, <2>4, TypeParts
<1>5. Stages
  BY <1>1, <1>3, TwoTasks DEF Stages, QueueStage, PersonStage, HasRead
<1>6. RowsAgree
  BY <1>1, <1>2 DEF RowsAgree, Known
<1>7. \A t \in Tasks : task[t] = Idle
  BY <1>1
<1>8. ASSUME NEW d \in Devices, NEW s \in Sheets PROVE AtHome(d, s)
  <2>1. /\ \A t \in {Queuer(d), Person(d)} : task[t] = Idle
        /\ blob[d][s] = NoBlob /\ upload[d][s] = None /\ evicting[d] = {} /\ row[d][s] = NoRow
    BY <1>1, <1>7, TwoTasks
  <2>2. Unqueued(d, s)
    BY <1>3, <2>1, BlobsAssumption DEF Unqueued, InQueue
  <2>3. NobodyElse(d, s)
    BY <1>3, <2>1, IdleIsATask, BlobsAssumption DEF NobodyElse
  <2>4. NothingEarly(d, s) /\ AttachHolds(d, s) /\ QueueHolds(d, s)
    BY <1>3, <2>1, <2>2, BlobsAssumption DEF NothingEarly, AttachHolds, QueueHolds, Attaching, Unqueued
  <2>5. QED
    BY <2>3, <2>4 DEF AtHome
<1>9. SomebodyHolds
  BY <1>1, <1>2, <1>3, <1>7 DEF SomebodyHolds
<1>10. ObjectsHold
  BY <1>1, <1>2, <1>3, <1>7, BlobsAssumption DEF ObjectsHold, RowHasItsObject, Known
<1>11. QED
  BY <1>4, <1>5, <1>6, <1>8, <1>9, <1>10 DEF BlobsInv

\* The inductive invariant: where the tasks stand, how the rows agree, that what a device
\* has of a sheet stays its own until it is up, that somebody holds it, and that the store
\* has what rows name and what uploads are about to name.
THEOREM BlobsHold == Spec => []BlobsInv
<1>1. ASSUME BlobsInv, [Next]_vars PROVE BlobsInv'
  <2>1. BlobsTypeOK /\ Stages /\ RowsAgree /\ AllHome /\ SomebodyHolds /\ ObjectsHold
    BY <1>1 DEF BlobsInv, AllHome
  <2>2. BlobsTypeOK' /\ Stages' /\ RowsAgree'
    BY <1>1, <2>1, TypesKept, StagesKept, RowSteps, RowsAgreeKept
  <2>3. AllHome' /\ SomebodyHolds' /\ ObjectsHold'
    BY <1>1, <2>1, HomeKept, SomebodyKept, ObjectsKept
  <2>4. QED
    BY <2>2, <2>3 DEF BlobsInv, AllHome
<1>2. QED
  BY <1>1, BlobsBegin, PTL DEF Spec

\* Every value is of its kind, and a row never names a file the object store does not have
\* (files.rs:331, cli.rs:152): for any devices, sheets and files.
THEOREM BlobsRowsAreServed == Spec => []RowsAreServed
<1>1. BlobsInv => RowsAreServed
  BY DEF BlobsInv, ObjectsHold, RowsAreServed
<1>2. QED
  BY <1>1, BlobsHold, PTL

\* The first file of a sheet is kept by the device that attached it until it is up, and a
\* sheet without a file has one waiting somewhere (queue.rs: "the only copy").
THEOREM BlobsFirstFileIsSafe == Spec => []FirstFileIsSafe
<1>1. ASSUME BlobsInv PROVE FirstFileIsSafe
  <2>1. ASSUME NEW d \in Devices, NEW s \in Sheets,
               upload[d][s] # None, row[d][s] = [st |-> "live", sha |-> None], ~Busy(d, s),
               <<d, s>> \notin cut \cup replaced
        PROVE  file[d][s] = upload[d][s]
    <3>1. upload[d][s] \in Files
      BY <1>1, <2>1 DEF BlobsInv, BlobsTypeOK, Shas
    <3>2. ~Attaching(d, s) /\ Waiting(d, s) /\ row[d][s].st # "deleted" /\ ~Cut(d, s)
      BY <2>1 DEF Attaching, Busy, Waiting, Cut
    <3>3. QueueHolds(d, s)
      BY <1>1 DEF BlobsInv, AtHome
    <3>4. QED
      BY <2>1, <3>1, <3>2, <3>3 DEF QueueHolds, InQueue
  <2>2. ASSUME NEW s \in Sheets, sheets[s].st = "live", sheets[s].sha = None
        PROVE  \E d \in Devices :
                 upload[d][s] # None \/ Busy(d, s) \/ <<d, s>> \in cut \/ row[d][s].st = "deleted"
    <3>1. PICK d \in Devices : Holds(d, s)
      BY <1>1, <2>2 DEF BlobsInv, SomebodyHolds, Open
    <3>2. QED
      BY <3>1 DEF Holds, Cut, Attaching, Queued, Busy
  <2>3. QED
    BY <2>1, <2>2 DEF FirstFileIsSafe
<1>2. QED
  BY <1>1, BlobsHold, PTL
=============================================================================
