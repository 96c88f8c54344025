--------------------------------- MODULE Marks ---------------------------------
(***************************************************************************)
(* What people draw on a sheet: the viewer's marks (crates/web/src/sheets/ *)
(* viewer.rs) and the layer they are drawn on (sheets/annotations.rs).     *)
(* The layer adds a stroke to the marks it shows, or takes the last one    *)
(* away, and hands the whole list to `save`, which spawns a task that      *)
(* looks for the row and then records it.  Strokes are numbers.            *)
(***************************************************************************)
EXTENDS Replica

CONSTANTS
  MarkIds,      \* ids of annotations, in the order the index gives them
  Sheet,        \* the pages of the sheet
  People,       \* who may own the devices
  MaxStrokes,   \* bound: strokes drawn
  MaxUndos      \* bound: strokes taken back

Scopes == {"personal", "shared"}
VARIABLES
  author,     \* whose device it is, which the start decides
  shown,      \* per device, the rows as its live query last read them
  view,       \* per device, the page it shows and the scope it draws in
  saves,      \* per device, the tasks of `save`, in the order of the spawns
  drawn,      \* how many strokes were drawn
  where,      \* history: where each of them belongs
  undone,     \* history: the strokes that were taken back
  hasty       \* history: who drew on marks that were not the newest of theirs

vars == <<replica, author, shown, view, saves, drawn, where, undone, hasty>>

Views == [page : Sheet, scope : Scopes]
Spots == [page : Sheet, scope : Scopes, author : People]

\* the viewer before anybody has drawn
Blank ==
  /\ shown = local
  /\ view = [d \in Devices |-> [page |-> Least(Sheet), scope |-> "personal"]]
  /\ saves = [d \in Devices |-> <<>>]
  /\ drawn = 0 /\ where = <<>> /\ undone = {} /\ hasty = {}

Init ==
  /\ ReplicaInit([i \in MarkIds |-> Absent])
  /\ author \in [Devices -> People]
  /\ Blank

-----------------------------------------------------------------------------

Spot(d) == view[d] @@ [author |-> author[d]]

\* the rows of a reader, page and scope; the first of them is taken
Matching(rows, spot) ==
  {i \in MarkIds : Live(rows, i) /\ \A f \in DOMAIN spot : rows[i].val[f] = spot[f]}

\* `mine`
Mine(rows, spot) ==
  IF Matching(rows, spot) = {} THEN <<>> ELSE rows[Least(Matching(rows, spot))].val.strokes

\* what the device shows of its author's is not all there is of it
Behind(d) ==
  LET newest == After(server, pending[d]) IN
  \/ saves[d] # <<>> \/ Mine(shown[d], Spot(d)) # Mine(newest, Spot(d))
  \/ Matching(local[d], Spot(d)) # Matching(newest, Spot(d))
  \/ \E e \in Devices \ {d} : author[e] = author[d] /\ (saves[e] # <<>> \/ pending[e] # <<>>)

\* `save`: the strokes, and the place as it is now
Save(d, strokes) ==
  /\ saves' = [saves EXCEPT ![d] = Append(@, [spot |-> Spot(d), strokes |-> strokes, row |-> 0])]
  /\ hasty' = hasty \cup (IF Behind(d) THEN {author[d]} ELSE {})
  /\ UNCHANGED <<replica, shown, view>>

\* pointerup
Draw(d) ==
  /\ drawn < MaxStrokes
  /\ drawn' = drawn + 1
  /\ where' = Append(where, Spot(d))
  /\ Save(d, Append(Mine(shown[d], Spot(d)), drawn'))
  /\ UNCHANGED undone

Undo(d) ==
  LET mine == Mine(shown[d], Spot(d)) IN
  /\ mine # <<>> /\ Cardinality(undone) < MaxUndos
  /\ undone' = undone \cup {Last(mine)}
  /\ Save(d, Front(mine))
  /\ UNCHANGED <<drawn, where>>

\* "clear mine"
Clear(d) ==
  LET mine == Mine(shown[d], Spot(d)) IN
  /\ mine # <<>> /\ Cardinality(undone) < MaxUndos
  /\ undone' = undone \cup ToSet(mine)
  /\ Save(d, <<>>)
  /\ UNCHANGED <<drawn, where>>

\* another page, another scope
Look(d) ==
  /\ drawn < MaxStrokes
  /\ \E v \in Views : v # view[d] /\ view' = [view EXCEPT ![d] = v]
  /\ UNCHANGED <<replica, shown, saves, drawn, where, undone, hasty>>

Refresh(d) ==
  /\ shown[d] # local[d]
  /\ shown' = [shown EXCEPT ![d] = local[d]]
  /\ UNCHANGED <<replica, view, saves, drawn, where, undone, hasty>>

\* ids are UUIDs: no two devices make the same one
New == {i \in MarkIds : /\ server[i].state = "absent"
                        /\ \A d \in Devices :
                             /\ local[d][i].state = "absent"
                             /\ \A k \in DOMAIN saves[d] : saves[d][k].row # i}

\* mutant: a row is never edited
FindNothing(d) ==
  /\ \E k \in DOMAIN saves[d] :
       /\ \A j \in DOMAIN saves[d] : saves[d][j].row = 0 <=> j >= k
       /\ \E i \in New : saves' = [saves EXCEPT ![d][k].row = i]
  /\ UNCHANGED <<replica, shown, view, drawn, where, undone, hasty>>

\* the tasks look in the order they were spawned in, and record in that order
Find(d) ==
  /\ \E k \in DOMAIN saves[d] :
       /\ \A j \in DOMAIN saves[d] : saves[d][j].row = 0 <=> j >= k
       /\ LET has == Matching(local[d], saves[d][k].spot) IN
          \E i \in IF has = {} THEN New ELSE {Least(has)} :
            saves' = [saves EXCEPT ![d][k].row = i]
  /\ UNCHANGED <<replica, shown, view, drawn, where, undone, hasty>>

Keep(d) ==
  /\ saves[d] # <<>> /\ Head(saves[d]).row # 0
  /\ LET task == Head(saves[d]) IN
     Record(d, Put(task.row, [strokes |-> task.strokes] @@ task.spot))
  /\ saves' = [saves EXCEPT ![d] = Tail(@)]
  /\ UNCHANGED <<shown, view, drawn, where, undone, hasty>>

Sync(d) == Pass(d) /\ UNCHANGED <<shown, view, saves, drawn, where, undone, hasty>>

Step(d) == \/ Draw(d) \/ Undo(d) \/ Clear(d) \/ Look(d)
           \/ Refresh(d) \/ Find(d) \/ Keep(d) \/ Sync(d)

Next == (\E d \in Devices : Step(d)) /\ UNCHANGED author

Spec == Init /\ [][Next]_vars

-----------------------------------------------------------------------------

MarksTypeOK ==
  /\ view \in [Devices -> Views] /\ where \in Seq(Spots) /\ Len(where) = drawn
  /\ \A rows \in {server} \cup {local[d] : d \in Devices} : \A i \in MarkIds :
       Live(rows, i) => /\ ToSet(rows[i].val.strokes) \subseteq 1..drawn
                        /\ [f \in {"page", "scope", "author"} |-> rows[i].val[f]] \in Spots

(***************************************************************************)
(* One row per reader, page and scope: editing replaces that row rather    *)
(* than adding a second one, so a mark undone stays undone (viewer.rs:169).*)
(* True of everybody who lets a stroke arrive on the page, and on their    *)
(* other devices, before they draw the next one.                           *)
(***************************************************************************)
OneRowEach ==
  \A rows \in {server} \cup {local[d] : d \in Devices}, spot \in Spots :
    spot.author \notin hasty => Cardinality(Matching(rows, spot)) <= 1

(***************************************************************************)
(* Nobody gets to throw away somebody's notes (viewer.rs:113): a stroke    *)
(* its author has not taken back is in the author's row of the page and    *)
(* scope it was drawn in, whoever else draws there, and one that was taken *)
(* back is in none, once `save` is done and all is pushed and pulled.      *)
(***************************************************************************)
StrokesSurvive ==
  InStep /\ (\A d \in Devices : saves[d] = <<>>) =>
    \A n \in 1..drawn :
      where[n].author \notin hasty =>
        (n \in undone <=> \A i \in Matching(server, where[n]) :
                            n \notin ToSet(server[i].val.strokes))
=============================================================================
