------------------------------- MODULE Library -------------------------------
(***************************************************************************)
(* The library: folders in a tree, songs filed in one folder and placed in *)
(* others (crates/web/src/library/repository.rs), drawn as a tree by       *)
(* folder_tree.rs and moved about by the handlers of page.rs.  A handler   *)
(* spawns a task that reads and then records row after row.  Names,        *)
(* positions and the archived flag are data that no rule here looks at.    *)
(***************************************************************************)
EXTENDS Replica

CONSTANTS
  Folders, Songs, Placements,
  Root,       \* the None of parent_id and folder_id
  Parents,    \* the parents of the folders that are there from the start
  Homes,      \* the folders of the songs that are there from the start
  MaxTasks    \* bound: what people do

VARIABLES
  tasks,      \* the tasks that were spawned, in order
  excused     \* history: did somebody file something where others were at work?

vars == <<replica, tasks, excused>>

Ids == Folders \cup Songs \cup Placements

Of(rows, id, field) == rows[id].val[field]

Init ==
  /\ ReplicaInit([i \in Ids |->
       CASE i \in DOMAIN Parents -> [state |-> "live", val |-> [parent |-> Parents[i]]]
         [] i \in DOMAIN Homes   -> [state |-> "live", val |-> [home |-> Homes[i]]]
         [] OTHER                -> Absent])
  /\ tasks = <<>>
  /\ excused = FALSE

Fresh(kind) ==
  {i \in kind : /\ server[i].state = "absent"
                /\ \A d \in Devices : local[d][i].state = "absent"
                /\ \A k \in DOMAIN tasks : tasks[k].kind = "place" => tasks[k].id # i}

LiveFolders(d) == {f \in Folders : Live(local[d], f)}
LiveSongs(d) == {s \in Songs : Live(local[d], s)}
Places(d) == LiveFolders(d) \cup {Root}

-----------------------------------------------------------------------------
(* The tree *)

\* the walk upwards: it ends at the root, at a folder that is gone, or where
\* it has been
Above(rows, f) ==
  LET up[n \in 0..Cardinality(Folders)] ==
        IF n = 0 THEN {f}
        ELSE up[n - 1] \cup {Of(rows, g, "parent") :
                             g \in {h \in up[n - 1] \ {Root} : Live(rows, h)}}
  IN up[Cardinality(Folders)]

\* `would_cycle`
WouldCycle(rows, id, parent) == parent # Root /\ id \in Above(rows, parent)

\* `visible`, with nothing collapsed
Visible(rows) == {f \in Folders : Live(rows, f) /\ Root \in Above(rows, f)}

\* `songs_in_folder`
SongsInFolder(rows, f) ==
  {s \in Songs : /\ Live(rows, s)
                 /\ \/ Of(rows, s, "home") = f
                    \/ \E p \in Placements : /\ Live(rows, p) /\ Of(rows, p, "folder") = f
                                             /\ Of(rows, p, "song") = s}

-----------------------------------------------------------------------------
(* Filing something under a folder.  It is contested when the rows it      *)
(* rests on are not what the others have, or a task is deleting them.      *)

Mine(d, id) == \E i \in DOMAIN pending[d] : pending[d][i].id = id

Deleting(f) == \E k \in DOMAIN tasks :
                 tasks[k].kind = "delete" /\ tasks[k].left /\ tasks[k].folder = f

Contested(d, ids) ==
  \/ TouchedBy(Devices \ {d}, ids)
  \/ \E i \in ids : server[i] # local[d][i] /\ ~Mine(d, i)

Path(rows, parent) == Above(rows, parent) \ {Root}

\* seen: the rows as the task read them
Filing(d, id, field, parent, seen) ==
  /\ Record(d, Put(id, [f \in {field} |-> parent]))
  /\ excused' = \/ excused
                \/ Contested(d, {id} \cup Path(local[d], parent))
                \/ \E f \in Path(seen, parent) : local[d][f] # seen[f]
                \/ \E f \in Path(local[d], parent) \cup {id} : Deleting(f)

Spawn(task) ==
  /\ Len(tasks) < MaxTasks
  /\ tasks' = Append(tasks, task)

Done(k) == tasks' = [tasks EXCEPT ![k].left = FALSE]

CreateFolder(d) ==
  /\ \E f \in Fresh(Folders), p \in Places(d) : Filing(d, f, "parent", p, local[d])
  /\ Spawn([kind |-> "createFolder", left |-> FALSE])

MoveSong(d) ==
  /\ \E s \in LiveSongs(d), p \in Places(d) : Filing(d, s, "home", p, local[d])
  /\ Spawn([kind |-> "moveSong", left |-> FALSE])

CreateSong(d) ==
  /\ \E s \in Fresh(Songs), p \in Places(d) : Filing(d, s, "home", p, local[d])
  /\ Spawn([kind |-> "createSong", left |-> FALSE])

DeleteSong(d) ==
  /\ \E s \in LiveSongs(d) : Record(d, Delete(s))
  /\ Spawn([kind |-> "deleteSong", left |-> FALSE])
  /\ UNCHANGED excused

\* `move_folder`: the folders are read and checked, and then the row is recorded
DropFolder(d) ==
  /\ \E f \in LiveFolders(d), p \in Places(d) :
       /\ p # f
       /\ Spawn([kind |-> "move", dev |-> d, folder |-> f, parent |-> p,
                 seen |-> local[d], left |-> ~WouldCycle(local[d], f, p)])
  /\ UNCHANGED <<replica, excused>>

MoveOne(k) ==
  LET task == tasks[k] IN
  /\ task.kind = "move" /\ task.left
  /\ Live(local[task.dev], task.folder)
  /\ Filing(task.dev, task.folder, "parent", task.parent, task.seen)
  /\ Done(k)

\* `add_placement`: the row it has, or a new one
StartPlacing(d) ==
  /\ \E s \in LiveSongs(d), f \in LiveFolders(d) :
       LET has == {p \in Placements : /\ Live(local[d], p) /\ Of(local[d], p, "song") = s
                                      /\ Of(local[d], p, "folder") = f} IN
       \E p \in IF has = {} THEN Fresh(Placements) ELSE has :
         Spawn([kind |-> "place", dev |-> d, id |-> p, song |-> s, folder |-> f, left |-> TRUE])
  /\ UNCHANGED <<replica, excused>>

PlaceOne(k) ==
  LET task == tasks[k] IN
  /\ task.kind = "place" /\ task.left
  /\ local[task.dev][task.id].state # "dead"
  /\ Record(task.dev, Put(task.id, [song |-> task.song, folder |-> task.folder]))
  /\ Done(k)
  /\ UNCHANGED excused

RemovePlacement(d) ==
  /\ \E p \in Placements : Live(local[d], p) /\ Record(d, Delete(p))
  /\ Spawn([kind |-> "removePlacement", left |-> FALSE])
  /\ UNCHANGED excused

-----------------------------------------------------------------------------
(* `delete_folder`: what is in it moves to its parent, and then it goes *)

\* others have something in the folder this device has not heard of
Unheard(d, f) ==
  \/ \E e \in Devices \ {d}, i \in Ids :
       /\ local[e][i] # local[d][i] /\ Live(local[e], i)
       /\ \E field \in DOMAIN local[e][i].val : local[e][i].val[field] = f
  \/ \E i \in Ids :
       /\ server[i] # local[d][i] /\ ~Mine(d, i) /\ Live(server, i)
       /\ \E field \in DOMAIN server[i].val : server[i].val[field] = f
  \/ \E k \in DOMAIN tasks :
       tasks[k].kind = "move" /\ tasks[k].left /\ tasks[k].parent = f

ConfirmDelete(d) ==
  /\ \E f \in LiveFolders(d) :
       /\ Spawn([kind |-> "delete", dev |-> d, folder |-> f,
                 parent |-> Of(local[d], f, "parent"),
                 songs |-> {s \in LiveSongs(d) : Of(local[d], s, "home") = f},
                 children |-> {}, seen |-> local[d], read |-> FALSE, left |-> TRUE])
       /\ excused' = (excused \/ Unheard(d, f) \/ Deleting(f) \/ Contested(d, {f}))
  /\ UNCHANGED replica

LiftSong(k) ==
  LET task == tasks[k] IN
  /\ task.kind = "delete" /\ task.left /\ ~task.read
  /\ \E s \in task.songs :
       /\ Live(local[task.dev], s)
       /\ Filing(task.dev, s, "home", task.parent, task.seen)
       /\ tasks' = [tasks EXCEPT ![k].songs = @ \ {s}]

\* mutant: only the songs are moved out
ForgetChildren(k) ==
  LET task == tasks[k] IN
  /\ task.kind = "delete" /\ task.left /\ ~task.read /\ task.songs = {}
  /\ tasks' = [tasks EXCEPT ![k].read = TRUE]
  /\ UNCHANGED <<replica, excused>>

ReadChildren(k) ==
  LET task == tasks[k] IN
  /\ task.kind = "delete" /\ task.left /\ ~task.read /\ task.songs = {}
  /\ tasks' = [tasks EXCEPT ![k].read = TRUE,
                 ![k].children = {f \in LiveFolders(task.dev) :
                                    Of(local[task.dev], f, "parent") = task.folder}]
  /\ excused' = (excused \/ Unheard(task.dev, task.folder))
  /\ UNCHANGED replica

LiftChild(k) ==
  LET task == tasks[k] IN
  /\ task.kind = "delete" /\ task.left /\ task.read
  /\ \E f \in task.children :
       /\ Live(local[task.dev], f)
       /\ Filing(task.dev, f, "parent", task.parent, task.seen)
       /\ tasks' = [tasks EXCEPT ![k].children = @ \ {f}]

DeleteFolder(k) ==
  LET task == tasks[k] IN
  /\ task.kind = "delete" /\ task.left /\ task.read /\ task.children = {}
  /\ Live(local[task.dev], task.folder)
  /\ Record(task.dev, Delete(task.folder))
  /\ Done(k)
  /\ UNCHANGED excused

-----------------------------------------------------------------------------

Sync(d) == Pass(d) /\ UNCHANGED <<tasks, excused>>

Next ==
  \/ \E d \in Devices :
       CreateFolder(d) \/ DropFolder(d) \/ ConfirmDelete(d) \/ CreateSong(d) \/ MoveSong(d)
         \/ DeleteSong(d) \/ StartPlacing(d) \/ RemovePlacement(d) \/ Sync(d)
  \/ \E k \in DOMAIN tasks :
       MoveOne(k) \/ PlaceOne(k) \/ LiftSong(k) \/ ReadChildren(k) \/ LiftChild(k)
         \/ DeleteFolder(k)

Spec == Init /\ [][Next]_vars

-----------------------------------------------------------------------------

Views == {server} \cup {local[d] : d \in Devices}

LibraryTypeOK ==
  \A rows \in Views :
    /\ \A f \in Folders : Live(rows, f) => Of(rows, f, "parent") \in Folders \cup {Root}
    /\ \A s \in Songs : Live(rows, s) => Of(rows, s, "home") \in Folders \cup {Root}
    /\ \A p \in Placements : Live(rows, p) =>
         Of(rows, p, "song") \in Songs /\ Of(rows, p, "folder") \in Folders

(***************************************************************************)
(* No folder is stranded (repository.rs:184): in every copy of the library *)
(* each live folder is in the tree that is drawn, unless somebody moved or *)
(* made a folder on a path that others were changing at the same time.     *)
(***************************************************************************)
TreeStaysWhole ==
  ~excused => \A rows \in Views : {f \in Folders : Live(rows, f)} \subseteq Visible(rows)

(***************************************************************************)
(* And no song is lost with its folder (repository.rs:208): each live song *)
(* is listed under a folder of the tree or under none, with the same       *)
(* excuse, also while `delete_folder` is half way.                         *)
(***************************************************************************)
SongsStayListed ==
  ~excused => \A rows \in Views : \A s \in Songs :
    Live(rows, s) => \E f \in Visible(rows) \cup {Root} : s \in SongsInFolder(rows, f)
=============================================================================
