-------------------------------- MODULE Blobs --------------------------------
(***************************************************************************)
(* The files of sheets: attached on one device, uploaded by its queue to   *)
(* an object store keyed by content, downloaded by the devices that keep   *)
(* them, and swept away when no row names them any more                    *)
(* (crates/web/src/blobs, crates/web/src/sheets/repository.rs,             *)
(* crates/api/src/handlers/files.rs, `purge` of crates/api/src/cli.rs).    *)
(*                                                                         *)
(* A file is its content, and so is its hash.  A row of `sheets` travels   *)
(* with the metadata (module Sync); here it is what a device last heard.   *)
(* Every await of the client and every statement of a handler is a step.   *)
(***************************************************************************)
EXTENDS Naturals, FiniteSets

CONSTANTS
  Devices, Sheets, Files,
  Makers,      \* devices whose person attaches, replaces and removes files
  Viewers,     \* devices whose person opens sheets
  Keepers,     \* devices that keep every sheet with a file: pinned, or coming up
  Size,        \* of each file
  None,
  MaxChanges,  \* bound: files attached, replaced, removed
  MaxViews,    \* bound: sheets opened in the viewer
  MaxFaults    \* bound: requests lost, writes failed, apps closed

ASSUME BlobsAssumption ==
  /\ Makers \subseteq Devices /\ Viewers \subseteq Devices /\ Keepers \subseteq Devices
  /\ Size \in [Files -> Nat] /\ None \notin Files \cup Sheets \cup {"empty"}
  /\ MaxChanges \in Nat /\ MaxViews \in Nat /\ MaxFaults \in Nat

VARIABLES
  sheets,    \* rows on the server
  objects,   \* the object store: the content at each key
  old,       \* keys nobody wrote to for thirty days
  sweep,     \* keys a purge has found nobody to refer to
  row,       \* rows as each device has them
  blob,      \* `blobs` of each device: what it thinks it holds
  file,      \* what it holds (the origin private file system)
  upload,    \* `uploads` of each device: the hash queued for each sheet
  evicting,  \* opportunistic files an eviction has read and not dropped yet
  task,      \* what the queue and the person of each device are doing
  spoiled,   \* history: keys whose object went wrong, see RowHasItsObject
  cut,       \* history: sheets of a device a write of which failed, or was cut short
  replaced,  \* history: sheets a device put another file under
  changes, views, faults

server  == <<sheets, objects, old, sweep>>
device  == <<row, blob, file, upload, evicting>>
history == <<spoiled, cut, replaced>>
counts  == <<changes, views, faults>>
vars    == <<server, device, task, history, counts>>

Shas   == Files \cup {None}
NoBlob == [sha |-> None, pin |-> "none"]
NoRow  == [st |-> "none", sha |-> None]
Tasks  == Devices \X {"queue", "person"}
Of(t)  == t[1]

Idle == [op |-> "none", at |-> "idle", s |-> None, sha |-> None, rec |-> NoBlob,
         bytes |-> None, todo |-> {}, want |-> {}]

(***************************************************************************)
(* Every value is of its kind, and a record says whose content its file is.*)
(* `todo` holds the uploads a pass has read.                               *)
(***************************************************************************)
Blobs == {NoBlob} \cup [sha : Files, pin : {"pinned", "opportunistic"}]
BlobsTypeOK ==
  /\ sheets \in [Sheets -> [st : {"none", "live", "deleted", "purged"}, sha : Shas]]
  /\ objects \in [Files -> Shas \cup {"empty"}] /\ old \subseteq Files /\ sweep \subseteq Files
  /\ row \in [Devices -> [Sheets -> [st : {"none", "live", "deleted"}, sha : Shas]]]
  /\ blob \in [Devices -> [Sheets -> Blobs]]
  /\ file \in [Devices -> [Sheets -> Shas \cup {"empty"}]]
  /\ upload \in [Devices -> [Sheets -> Shas]]
  /\ evicting \in [Devices -> SUBSET Sheets]
  /\ task \in [Tasks -> [op : {"none", "upload", "keep", "view", "attach", "replace", "remove"},
                         at : {"idle", "next", "get", "read", "url", "assemble", "verify", "write",
                               "done", "failed", "drop", "row", "pin", "pinned", "body",
                               "file", "record", "entry"},
                         s : Sheets \cup {None}, sha : Shas, rec : Blobs,
                         bytes : Shas \cup {"empty"}, todo : SUBSET (Sheets \X Files),
                         want : SUBSET Sheets]]
  /\ spoiled \subseteq Files /\ cut \subseteq Devices \X Sheets /\ replaced \subseteq Devices \X Sheets
  /\ changes \in 0..MaxChanges /\ views \in 0..MaxViews /\ faults \in 0..MaxFaults

(* The store may hold a file of a sheet deleted long ago.  Any part of the *)
(* bounds may be left.                                                     *)
Init ==
  /\ sheets = [s \in Sheets |-> NoRow]
  /\ old \in {{}} \cup {{f} : f \in Files}
  /\ objects = [f \in Files |-> IF f \in old THEN f ELSE None]
  /\ sweep = {}
  /\ row = [d \in Devices |-> [s \in Sheets |-> NoRow]]
  /\ blob = [d \in Devices |-> [s \in Sheets |-> NoBlob]]
  /\ file = [d \in Devices |-> [s \in Sheets |-> None]]
  /\ upload = [d \in Devices |-> [s \in Sheets |-> None]]
  /\ evicting = [d \in Devices |-> {}]
  /\ task = [t \in Tasks |-> Idle]
  /\ spoiled = {} /\ cut = {} /\ replaced = {}
  /\ changes \in 0..MaxChanges /\ views \in 0..MaxViews /\ faults \in 0..MaxFaults

At(t, at)  == task[t].at = at
Put(t, r)  == task' = [task EXCEPT ![t] = r]
Go(t, at)  == task' = [task EXCEPT ![t].at = at]
(* On to the next sheet of a pass, or the end of what a person did. *)
NextOf(r)  == IF r.op \in {"upload", "keep"}
              THEN [Idle EXCEPT !.op = r.op, !.at = "next", !.todo = r.todo, !.want = r.want]
              ELSE Idle
Over(t)    == Put(t, NextOf(task[t]))
SetBlob(d, s, b) == blob' = [blob EXCEPT ![d][s] = b]
SetFile(d, s, f) == file' = [file EXCEPT ![d][s] = f]
Queue(d, s, f)   == upload' = [upload EXCEPT ![d][s] = f]

-----------------------------------------------------------------------------
(* The metadata, both ways (module Sync): a row is pushed, a deletion too, *)
(* and what the server has comes back.  A purged row is never heard of.    *)

SyncRows(d) ==
  LET pushed(s) ==
        CASE sheets[s].st = "none" /\ row[d][s].st = "live" -> [sheets[s] EXCEPT !.st = "live"]
          [] sheets[s].st = "live" /\ row[d][s].st = "deleted" -> [sheets[s] EXCEPT !.st = "deleted"]
          [] OTHER -> sheets[s]
  IN /\ sheets' = [s \in Sheets |-> pushed(s)]
     /\ row' = [row EXCEPT ![d] =
          [s \in Sheets |-> IF pushed(s).st \in {"live", "deleted"} THEN pushed(s) ELSE row[d][s]]]
     /\ UNCHANGED <<objects, old, sweep, blob, file, upload, evicting, task, history, counts>>

-----------------------------------------------------------------------------
(* The store of the device: `BlobStore` *)

(* `get`: the record, then the file, then the record again with a new      *)
(* `cached_at`.  A record that outlived its file is forgotten.             *)
GetRecord(t) ==
  /\ At(t, "get")
  /\ LET r == task[t]  rec == blob[Of(t)][r.s] IN
       Put(t, IF rec = NoBlob
              THEN [r EXCEPT !.at = IF r.op = "view" THEN "row" ELSE "drop"]
              ELSE [r EXCEPT !.at = "read", !.rec = rec])
  /\ UNCHANGED <<server, device, history, counts>>

GetFile(t) ==
  /\ At(t, "read")
  /\ LET r == task[t]  held == file[Of(t)][r.s] IN
       IF held = None
       THEN /\ SetBlob(Of(t), r.s, NoBlob)
            /\ Go(t, IF r.op = "view" THEN "row" ELSE "drop")
       ELSE /\ SetBlob(Of(t), r.s, r.rec)
            /\ Put(t, [r EXCEPT !.at = IF r.op = "view" THEN "row" ELSE "url", !.bytes = held])
  /\ UNCHANGED <<server, row, file, upload, evicting, history, counts>>

(* `put`: the file, then the record that says whose content it is.  A write*)
(* that fails for want of room leaves an empty file, or the one there was, *)
(* and is not noticed.                                                     *)
PutFile(t) ==
  /\ At(t, "file")
  /\ LET r == task[t] d == Of(t) IN
     \/ SetFile(d, r.s, r.bytes) /\ UNCHANGED <<cut, faults>>
     \/ /\ faults < MaxFaults /\ faults' = faults + 1
        /\ cut' = cut \cup {<<d, r.s>>}
        /\ SetFile(d, r.s, IF file[d][r.s] = None THEN "empty" ELSE file[d][r.s])
  /\ Go(t, "record")
  /\ UNCHANGED <<server, row, blob, upload, evicting, spoiled, replaced, changes, views>>

\* mutant: what is attached may be evicted
PutUnpinned(t) ==
  /\ At(t, "record")
  /\ LET r == task[t] IN
       /\ SetBlob(Of(t), r.s, [sha |-> r.sha,
                               pin |-> IF r.op = "keep" THEN "pinned" ELSE "opportunistic"])
       /\ IF r.op \in {"attach", "replace"} THEN Go(t, "entry") ELSE Over(t)
  /\ UNCHANGED <<server, row, file, upload, evicting, history, counts>>

PutRecord(t) ==
  /\ At(t, "record")
  /\ LET r == task[t] IN
       /\ SetBlob(Of(t), r.s, [sha |-> r.sha,
                               pin |-> IF r.op = "view" THEN "opportunistic" ELSE "pinned"])
       /\ IF r.op \in {"attach", "replace"} THEN Go(t, "entry") ELSE Over(t)
  /\ UNCHANGED <<server, row, file, upload, evicting, history, counts>>

(* No room even for the handle: the pass ends, and the app says so. *)
PutRefused(t) ==
  /\ At(t, "file") /\ task[t].op \in {"keep", "view"}
  /\ faults < MaxFaults /\ faults' = faults + 1
  /\ Put(t, Idle)
  /\ UNCHANGED <<server, device, history, changes, views>>

(* `has`: the record names the hash the row names. *)
Has(d, s, sha) == blob[d][s] # NoBlob /\ (sha = None \/ blob[d][s].sha = sha)

(* An eviction reads what is opportunistic, then drops it file by file, as *)
(* far as the budget asks; the queue, a settings page and a dialog do it.  *)
Evict(d) ==
  /\ evicting[d] = {}
  /\ evicting' = [evicting EXCEPT ![d] = {s \in Sheets : blob[d][s].pin = "opportunistic"}]
  /\ evicting[d] # evicting'[d]
  /\ UNCHANGED <<server, row, blob, file, upload, task, history, counts>>

EvictNext(d) ==
  /\ \E s \in evicting[d] :
       \/ /\ SetFile(d, s, None) /\ SetBlob(d, s, NoBlob)
          /\ evicting' = [evicting EXCEPT ![d] = @ \ {s}]
       \/ evicting' = [evicting EXCEPT ![d] = {}] /\ UNCHANGED <<file, blob>>
  /\ UNCHANGED <<server, row, upload, task, history, counts>>

-----------------------------------------------------------------------------
(* The person: `Sheets` of sheets/repository.rs, and the viewer *)

Person(d) == <<d, "person">>
Change(d) == d \in Makers /\ task[Person(d)].op = "none" /\ changes < MaxChanges /\ changes' = changes + 1

Attach(d) ==
  /\ Change(d)
  /\ \E s \in Sheets, f \in Files :
       /\ sheets[s].st = "none" /\ \A e \in Devices : row[e][s].st = "none"
       /\ row' = [row EXCEPT ![d][s] = [st |-> "live", sha |-> None]]
       /\ Put(Person(d), [Idle EXCEPT !.op = "attach", !.at = "file", !.s = s, !.sha = f, !.bytes = f])
  /\ UNCHANGED <<server, blob, file, upload, evicting, history, views, faults>>

(* The hash is compared with the row's, whatever waits in the queue. *)
Replace(d) ==
  /\ Change(d)
  /\ \E s \in Sheets, f \in Files :
       /\ row[d][s].st = "live" /\ row[d][s].sha # f
       /\ Put(Person(d), [Idle EXCEPT !.op = "replace", !.at = "file", !.s = s, !.sha = f, !.bytes = f])
       /\ replaced' = replaced \cup {<<d, s>>}
  /\ UNCHANGED <<server, device, spoiled, cut, views, faults>>

QueueUpload(t) ==
  /\ At(t, "entry") /\ task[t].op # "remove"
  /\ Queue(Of(t), task[t].s, task[t].sha)
  /\ Over(t)
  /\ UNCHANGED <<server, row, blob, file, evicting, history, counts>>

Remove(d) ==
  /\ Change(d)
  /\ \E s \in Sheets :
       /\ row[d][s].st = "live"
       /\ row' = [row EXCEPT ![d][s].st = "deleted"]
       /\ Put(Person(d), [Idle EXCEPT !.op = "remove", !.at = "drop", !.s = s])
  /\ UNCHANGED <<server, blob, file, upload, evicting, history, views, faults>>

RemoveFile(t) ==
  /\ At(t, "drop") /\ task[t].op = "remove"
  /\ SetFile(Of(t), task[t].s, None) /\ SetBlob(Of(t), task[t].s, NoBlob)
  /\ Go(t, "entry")
  /\ UNCHANGED <<server, row, upload, evicting, history, counts>>

RemoveEntry(t) ==
  /\ At(t, "entry") /\ task[t].op = "remove"
  /\ Queue(Of(t), task[t].s, None)
  /\ Over(t)
  /\ UNCHANGED <<server, row, blob, file, evicting, history, counts>>

(* `fetch_now`: the row is read first, and what it said is used to the end.*)
View(d) ==
  /\ d \in Viewers /\ task[Person(d)].op = "none" /\ views < MaxViews /\ views' = views + 1
  /\ \E s \in Sheets :
       /\ row[d][s].st = "live"
       /\ Put(Person(d), [Idle EXCEPT !.op = "view", !.at = "get", !.s = s, !.sha = row[d][s].sha])
  /\ UNCHANGED <<server, device, history, changes, faults>>

ViewCached(t) ==
  /\ At(t, "row") /\ task[t].op = "view"
  /\ LET r == task[t]
         cached == r.bytes # None /\ Has(Of(t), r.s, r.sha)
     IN IF cached \/ r.sha = None THEN Over(t)
        ELSE Put(t, [r EXCEPT !.at = "body", !.rec = NoBlob, !.bytes = None])
  /\ UNCHANGED <<server, device, history, counts>>

-----------------------------------------------------------------------------
(* The queue: `BlobQueue`.  A pass reads the uploads and what is wanted,   *)
(* pushes the first, then fetches the second.  One pass at a time on a     *)
(* device (module Sync has the lock).                                      *)

Queuer(d) == <<d, "queue">>

\* mutant: without a sheet to keep there is no pass
StartWantedPass(d) ==
  /\ task[Queuer(d)].op = "none"
  /\ LET todo == {u \in Sheets \X Files : upload[d][u[1]] = u[2]}
         want == {s \in Sheets : d \in Keepers /\ row[d][s].st = "live" /\ row[d][s].sha # None}
     IN /\ want # {}
        /\ Put(Queuer(d), [Idle EXCEPT !.op = "upload", !.at = "next", !.todo = todo, !.want = want])
  /\ UNCHANGED <<server, device, history, counts>>

StartPass(d) ==
  /\ task[Queuer(d)].op = "none"
  /\ LET todo == {u \in Sheets \X Files : upload[d][u[1]] = u[2]}
         want == {s \in Sheets : d \in Keepers /\ row[d][s].st = "live" /\ row[d][s].sha # None}
     IN /\ todo # {} \/ want # {}
        /\ Put(Queuer(d), [Idle EXCEPT !.op = "upload", !.at = "next", !.todo = todo, !.want = want])
  /\ UNCHANGED <<server, device, history, counts>>

NextUpload(t) ==
  /\ At(t, "next") /\ task[t].op = "upload"
  /\ LET r == task[t] IN
       \/ \E u \in r.todo :
            Put(t, [r EXCEPT !.at = "get", !.s = u[1], !.sha = u[2], !.todo = @ \ {u}])
       \/ r.todo = {} /\ Put(t, [r EXCEPT !.op = "keep"])
  /\ UNCHANGED <<server, device, history, counts>>

(* The entry goes: its local copy is gone, or it is up.  By its sheet.     *)
DropEntry(t) ==
  /\ task[t].op = "upload" /\ task[t].at \in {"drop", "done"}
  /\ Queue(Of(t), task[t].s, None)
  /\ Over(t)
  /\ UNCHANGED <<server, row, blob, file, evicting, history, counts>>

(* The entry as it was read, with one attempt more. *)
KeepEntry(t) ==
  /\ At(t, "failed")
  /\ Queue(Of(t), task[t].s, task[t].sha)
  /\ Over(t)
  /\ UNCHANGED <<server, row, blob, file, evicting, history, counts>>

NextWanted(t) ==
  /\ At(t, "next") /\ task[t].op = "keep"
  /\ LET r == task[t]  d == Of(t) IN
       \/ \E s \in r.want :
            LET rest == [r EXCEPT !.want = @ \ {s}]
            IN CASE row[d][s].st # "live" \/ row[d][s].sha = None -> Put(t, rest)
                 [] OTHER ->
                      Put(t, [rest EXCEPT !.at = IF Has(d, s, row[d][s].sha) THEN "pin" ELSE "body",
                                          !.s = s, !.sha = row[d][s].sha])
       \/ r.want = {} /\ Put(t, Idle)
  /\ UNCHANGED <<server, device, history, counts>>

PinRead(t) ==
  /\ At(t, "pin")
  /\ LET rec == blob[Of(t)][task[t].s] IN
       IF rec = NoBlob THEN Over(t) ELSE Put(t, [task[t] EXCEPT !.at = "pinned", !.rec = rec])
  /\ UNCHANGED <<server, device, history, counts>>

PinWrite(t) ==
  /\ At(t, "pinned")
  /\ SetBlob(Of(t), task[t].s, [task[t].rec EXCEPT !.pin = "pinned"])
  /\ Over(t)
  /\ UNCHANGED <<server, row, file, upload, evicting, history, counts>>

-----------------------------------------------------------------------------
(* The server: handlers/files.rs *)

Length(content) == IF content \in Files THEN Size[content] ELSE 0
Least(m, n) == IF m < n THEN m ELSE n
Known(s) == sheets[s].st \in {"live", "deleted"}

(* `sheet_upload_url`: the sheet has to be there; its key may be taken.    *)
SheetUploadUrl(t) ==
  /\ At(t, "url")
  /\ LET r == task[t] IN
       Go(t, CASE ~Known(r.s) -> "failed"
               [] Known(r.s) /\ objects[r.sha] # None -> "verify"
               [] OTHER -> "assemble")
  /\ UNCHANGED <<server, device, history, counts>>

(* `sheet_complete` puts the parts the device sent together: as much of    *)
(* what it read as the hash's file is long.                                *)
Assemble(t) ==
  /\ At(t, "assemble")
  /\ LET r == task[t] IN
       /\ objects' = [objects EXCEPT ![r.sha] = r.bytes]
       /\ spoiled' = IF r.bytes = r.sha THEN spoiled ELSE spoiled \cup {r.sha}
       /\ old' = old \ {r.sha}
  /\ Go(t, "verify")
  /\ UNCHANGED <<sheets, sweep, device, cut, replaced, counts>>

(* `verify_stored`: as long as was declared, or it is deleted.             *)
VerifyStored(t) ==
  /\ At(t, "verify")
  /\ LET r == task[t]
         stored == Least(Length(objects[r.sha]), Size[r.sha])
     IN CASE objects[r.sha] = None -> Go(t, "failed") /\ UNCHANGED <<objects, spoiled>>
          [] objects[r.sha] # None /\ stored # Size[r.sha] ->
               /\ objects' = [objects EXCEPT ![r.sha] = None]
               /\ spoiled' = spoiled \cup {r.sha}
               /\ Go(t, "failed")
          [] OTHER -> Go(t, "write") /\ UNCHANGED <<objects, spoiled>>
  /\ UNCHANGED <<sheets, old, sweep, device, cut, replaced, counts>>

CompleteSheet(t) ==
  /\ At(t, "write")
  /\ IF Known(task[t].s)
     THEN sheets' = [sheets EXCEPT ![task[t].s].sha = task[t].sha] /\ Go(t, "done")
     ELSE Go(t, "failed") /\ UNCHANGED sheets
  /\ UNCHANGED <<objects, old, sweep, device, history, counts>>

(* `sheet_download_url`, and the object behind it: of the hash the row has *)
(* on the server by now.                                                   *)
Download(t) ==
  /\ At(t, "body")
  /\ LET r == task[t]
         sheet == sheets[r.s]
     IN IF sheet.st = "live" /\ sheet.sha # None /\ objects[sheet.sha] # None
        THEN Put(t, [r EXCEPT !.at = "file", !.bytes = objects[sheet.sha]])
        ELSE Over(t)
  /\ UNCHANGED <<server, device, history, counts>>

\* mutant: what no row names is swept, however young
PurgeYoung ==
  /\ sweep = {}
  /\ sweep' = {f \in Files : objects[f] # None} \ {sheets[s].sha : s \in {q \in Sheets : Known(q)}}
  /\ sweep' # {}
  /\ UNCHANGED <<sheets, objects, old, device, task, history, counts>>

(* The nightly purge, for one workspace: tombstones of thirty days go, then*)
(* what no row names and nobody wrote to for as long.                      *)
Purge ==
  /\ sweep = {}
  /\ \E gone \in SUBSET {s \in Sheets : sheets[s].st = "deleted"} :
       LET left == {s \in Sheets \ gone : Known(s)} IN
         /\ sheets' = [s \in Sheets |-> IF s \in gone THEN [st |-> "purged", sha |-> None] ELSE sheets[s]]
         /\ sweep' = {f \in old : objects[f] # None} \ {sheets[s].sha : s \in left}
         /\ gone # {} \/ sweep' # {}
  /\ UNCHANGED <<objects, old, device, task, history, counts>>

InHand(f) == \E t \in Tasks : task[t].sha = f /\ task[t].at \in {"verify", "write"}

SweepNext ==
  /\ \E f \in sweep :
       /\ sweep' = sweep \ {f}
       /\ objects' = [objects EXCEPT ![f] = None]
       /\ spoiled' = IF f \in old /\ (InHand(f) \/ \E s \in Sheets : Known(s) /\ sheets[s].sha = f)
                     THEN spoiled \cup {f} ELSE spoiled
       /\ old' = old \ {f}
  /\ UNCHANGED <<sheets, device, task, cut, replaced, counts>>

(* Thirty days without a write; nothing under way takes that long.         *)
Month ==
  /\ sweep = {} /\ \A t \in Tasks : task[t].op = "none"
  /\ \E f \in Files : objects[f] # None /\ f \notin old /\ old' = old \cup {f}
  /\ UNCHANGED <<sheets, objects, sweep, device, task, history, counts>>

-----------------------------------------------------------------------------
(* Faults *)

(* A request fails, or its answer is lost: of an upload, before or after   *)
(* what it changed, and of a download.                                     *)
Disconnect(t) ==
  /\ faults < MaxFaults /\ faults' = faults + 1
  /\ \/ task[t].op = "upload" /\ task[t].at \in {"url", "assemble", "verify", "write", "done"}
        /\ Go(t, "failed")
     \/ At(t, "body") /\ Over(t)
  /\ UNCHANGED <<server, device, history, changes, views>>

(* The app is closed, its tasks wherever they are. *)
Close(d) ==
  /\ faults < MaxFaults /\ faults' = faults + 1
  /\ \E t \in {Queuer(d), Person(d)} : task[t].op # "none"
  /\ task' = [t \in Tasks |-> IF Of(t) = d THEN Idle ELSE task[t]]
  /\ evicting' = [evicting EXCEPT ![d] = {}]
  /\ cut' = cut \cup {<<d, s>> : s \in {task[t].s : t \in {Queuer(d), Person(d)}} \ {None}}
  /\ UNCHANGED <<server, row, blob, file, upload, spoiled, replaced, changes, views>>

-----------------------------------------------------------------------------

Work(t) ==
  \/ GetRecord(t) \/ GetFile(t) \/ PutFile(t) \/ PutRecord(t) \/ PutRefused(t)
  \/ QueueUpload(t) \/ RemoveFile(t) \/ RemoveEntry(t) \/ ViewCached(t)
  \/ NextUpload(t) \/ DropEntry(t) \/ KeepEntry(t) \/ NextWanted(t) \/ PinRead(t) \/ PinWrite(t)
  \/ SheetUploadUrl(t) \/ Assemble(t) \/ VerifyStored(t) \/ CompleteSheet(t) \/ Download(t)

Next ==
  \/ \E t \in Tasks : Work(t) \/ Disconnect(t)
  \/ \E d \in Devices :
       \/ SyncRows(d) \/ Attach(d) \/ Replace(d) \/ Remove(d) \/ View(d)
       \/ StartPass(d) \/ Evict(d) \/ EvictNext(d) \/ Close(d)
  \/ Purge \/ SweepNext \/ Month

(* The tick of the app, every thirty seconds: metadata, then files. *)
Fairness ==
  /\ \A d \in Devices : WF_vars(SyncRows(d)) /\ WF_vars(StartPass(d))
  /\ \A t \in Tasks : WF_vars(Work(t))

Spec == Init /\ [][Next]_vars /\ Fairness

-----------------------------------------------------------------------------

Busy(d, s) == task[Person(d)].s = s

(***************************************************************************)
(* Until the first file of a sheet is up, the device that attached it keeps*)
(* it whatever it opens, downloads or evicts meanwhile: what waits in its  *)
(* queue is what it holds (queue.rs: "a file that exists only here is the  *)
(* only copy").  And a sheet in the library without a file has one waiting *)
(* on a device, unless that device was closed while it was attached, or    *)
(* has deleted the sheet and not said so yet.                              *)
(***************************************************************************)
FirstFileIsSafe ==
  /\ \A d \in Devices, s \in Sheets :
       upload[d][s] # None /\ row[d][s] = [st |-> "live", sha |-> None] /\ ~Busy(d, s)
         /\ <<d, s>> \notin cut \cup replaced =>
         file[d][s] = upload[d][s]
  /\ \A s \in Sheets :
       sheets[s].st = "live" /\ sheets[s].sha = None =>
         \E d \in Devices :
           upload[d][s] # None \/ Busy(d, s) \/ <<d, s>> \in cut \/ row[d][s].st = "deleted"

(***************************************************************************)
(* The same of a file that replaces one: while it waits in the queue the   *)
(* device does not go back to the file its row still names.                *)
(***************************************************************************)
KeptUntilUploaded ==
  \A d \in Devices, s \in Sheets :
    upload[d][s] \notin {None, row[d][s].sha} /\ row[d][s].st = "live" /\ ~Busy(d, s)
      /\ <<d, s>> \notin cut =>
      file[d][s] = None \/ file[d][s] # row[d][s].sha

(***************************************************************************)
(* A row never names a file the object store does not have, or has other   *)
(* content for: the object is there before the hash is written, and stays  *)
(* while a row, or an upload about to write one, names it.  Except for what*)
(* was uploaded from a device that had lost it (KeptUntilUploaded), and for*)
(* an old orphan that found a row again in the middle of a purge.          *)
(***************************************************************************)
RowHasItsObject ==
  \A s \in Sheets :
    Known(s) /\ sheets[s].sha # None =>
      objects[sheets[s].sha] = sheets[s].sha \/ sheets[s].sha \in spoiled

(***************************************************************************)
(* Every value is of its kind, and a live row of a sheet has a file behind *)
(* it that somebody can still get (files.rs:331, cli.rs:152).              *)
(***************************************************************************)
RowsAreServed == BlobsTypeOK /\ RowHasItsObject

(***************************************************************************)
(* Files arrive, once nobody changes them any more: what is queued is      *)
(* uploaded, and every device that keeps a sheet holds the content its row *)
(* names.  Except where a copy was lost or a purge took the sheet, and     *)
(* where a device has other content under that name, from a row that was   *)
(* replaced twice between two pulls.                                       *)
(***************************************************************************)
Uploaded(d, s) == upload[d][s] = None \/ sheets[s].st = "purged" \/ spoiled # {} \/ cut # {}
CaughtUp(d, s) ==
  sheets[s].st = "live" /\ sheets[s].sha \notin spoiled \cup {None} =>
    sheets[s].sha \in {file[d][s], blob[d][s].sha}

FilesArrive ==
  <>[](\A s \in Sheets : /\ \A d \in Devices : Uploaded(d, s)
                         /\ \A d \in Keepers : CaughtUp(d, s))
=============================================================================
