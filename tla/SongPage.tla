------------------------------- MODULE SongPage -------------------------------
(***************************************************************************)
(* The page of a song: the arrangement it opens, the reader's preferences  *)
(* (crates/web/src/song/page.rs, prefs/song.rs) and the chart editor with  *)
(* its autosave (chart/editor.rs).  One device shows the page, the others  *)
(* write the same rows.  Every write of the page is spawned and runs       *)
(* later, in the order of the spawns; what the page shows is what its live *)
(* query last read; and the editor's draft is read once, when it mounts.   *)
(*                                                                         *)
(* A chart is modelled by the arrangement it was written for and a number. *)
(***************************************************************************)
EXTENDS Replica

CONSTANTS
  Me,             \* the device with the page
  Arrangements,   \* ids in the order of their positions
  PrefRows,       \* ids of rows of `preferences`
  There,          \* the arrangements that are there from the start
  MaxTyped,       \* bound: charts typed
  MaxActs         \* bound: choices made on the page and writes of the other devices

VARIABLES
  held,       \* the rows as the live query last read them
  editing,    \* is the editor open?
  draft,      \* the chart in it
  saved,      \* its label: "Saved", or "Saving…"
  generation, \* raised by every keystroke
  timers,     \* the autosaves that are waiting
  queue,      \* the spawned writes, in order
  typed,      \* how many charts were typed
  clicks, elsewhere,
  recorded,   \* history: the typed charts that were recorded
  astray      \* history: was a chart saved over another arrangement's?

editor == <<editing, draft, saved, generation, timers>>
bounds == <<typed, clicks, elsewhere>>
history == <<recorded, astray>>
vars == <<replica, held, editor, queue, bounds, history>>

Ids == Arrangements \cup PrefRows
Chart == [of : Arrangements, text : 0..MaxTyped]
NoPrefs == [pick |-> 0, key |-> 0]

\* the page before anybody has touched it
Opened ==
  /\ held = server
  /\ editing = FALSE /\ draft = [of |-> Least(There), text |-> 0] /\ saved = TRUE
  /\ generation = 0 /\ timers = {}
  /\ queue = <<>>
  /\ typed = 0 /\ clicks = 0 /\ elsewhere = 0
  /\ recorded = {} /\ astray = FALSE

Init ==
  /\ ReplicaInit([i \in Ids |->
       IF i \in There
       THEN [state |-> "live", val |-> [body |-> [of |-> i, text |-> 0],
                                        default |-> IF i = Least(There) THEN 1 ELSE 0]]
       ELSE Absent])
  /\ Opened

-----------------------------------------------------------------------------
(* What the page reads *)

LiveArrangements(rows) == {a \in Arrangements : Live(rows, a)}
Defaults(rows) == {a \in LiveArrangements(rows) : rows[a].val.default = 1}

\* `read` and `find`: the first live row, or nothing chosen
Prefs(rows) ==
  LET mine == {p \in PrefRows : Live(rows, p)} IN
  IF mine = {} THEN NoPrefs ELSE rows[Least(mine)].val

\* `chosen_arrangement`: the reader's choice, the default, whatever is first
Chosen(rows) ==
  CASE Prefs(rows).pick \in LiveArrangements(rows) -> Prefs(rows).pick
    [] Prefs(rows).pick \notin LiveArrangements(rows) /\ Defaults(rows) # {} ->
         Least(Defaults(rows))
    [] OTHER -> Least(LiveArrangements(rows))

Refresh ==
  /\ held # local[Me]
  /\ held' = local[Me]
  /\ UNCHANGED <<replica, editor, queue, bounds, history>>

-----------------------------------------------------------------------------
(* The editor *)

\* `on_save`: to the arrangement the page has now
Save ==
  /\ queue' = Append(queue, Put(Chosen(held), [body |-> draft]))
  /\ astray' = (astray \/ Chosen(held) # draft.of)
  /\ saved' = TRUE

Type ==
  /\ editing /\ typed < MaxTyped
  /\ draft' = [draft EXCEPT !.text = typed + 1]
  /\ typed' = typed + 1
  /\ saved' = FALSE
  /\ generation' = generation + 1
  /\ timers' = timers \cup {generation + 1}
  /\ UNCHANGED <<replica, held, editing, queue, clicks, elsewhere, history>>

\* mutant: the newest keystroke does not save
StaleTimer(g) ==
  /\ g \in timers
  /\ timers' = timers \ {g}
  /\ IF editing /\ g + 1 = generation THEN Save ELSE UNCHANGED <<saved, queue, astray>>
  /\ UNCHANGED <<replica, held, editing, draft, generation, bounds, recorded>>

TimerFires(g) ==
  /\ g \in timers
  /\ timers' = timers \ {g}
  /\ IF editing /\ g = generation THEN Save ELSE UNCHANGED <<saved, queue, astray>>
  /\ UNCHANGED <<replica, held, editing, draft, generation, bounds, recorded>>

Blur ==
  /\ editing /\ ~saved
  /\ generation' = generation + 1
  /\ Save
  /\ UNCHANGED <<replica, held, editing, draft, timers, bounds, recorded>>

Mount ==
  /\ editing' = TRUE
  /\ draft' = held[Chosen(held)].val.body
  /\ saved' = TRUE
  /\ generation' = generation + 1
  /\ UNCHANGED timers

\* a click anywhere else takes the focus from the chart first
Click ==
  /\ clicks + elsewhere < MaxActs /\ clicks' = clicks + 1
  /\ editing => saved
  /\ UNCHANGED <<replica, held, typed, elsewhere, history>>

OpenEditor == ~editing /\ Click /\ Mount /\ UNCHANGED queue

\* away by a link, a key or the back button: `on_cleanup`
Close ==
  /\ editing
  /\ editing' = FALSE
  /\ IF saved THEN UNCHANGED <<saved, queue, astray>> ELSE Save
  /\ UNCHANGED <<replica, held, draft, generation, timers, bounds, recorded>>

-----------------------------------------------------------------------------
(* Choices *)

\* `update`: the preferences as the page has them, with one of them changed
Update(changes) == [kind |-> "prefs", set |-> changes @@ Prefs(held)]

Pick ==
  /\ Click
  /\ \E a \in LiveArrangements(held) : queue' = Append(queue, Update([pick |-> a]))
  /\ UNCHANGED editor

PickKey ==
  /\ Click
  /\ queue' = Append(queue, Update([key |-> clicks + 1]))
  /\ UNCHANGED editor

\* the editor opens at once, on what is still chosen
CreateArrangement ==
  /\ ~editing /\ Click
  /\ \E a \in Arrangements :
       /\ held[a].state = "absent" /\ local[Me][a].state = "absent"
       /\ server[a].state = "absent"
       /\ \A i \in DOMAIN queue : queue[i].kind = "upsert" => queue[i].id # a
       /\ queue' = queue \o <<Put(a, [body |-> [of |-> a, text |-> 0], default |-> 0]),
                              Update([pick |-> a])>>
  /\ Mount

Flags(ids, n) == SetToSeq({Put(a, [default |-> n]) : a \in ids})

\* mutant: the new default first
DefaultThenClear ==
  /\ editing /\ Click
  /\ queue' = queue \o Flags({Chosen(held)}, 1) \o Flags(Defaults(held) \ {Chosen(held)}, 0)
  /\ UNCHANGED editor

\* `make_default`: the others are cleared, in operations of their own
MakeDefault ==
  /\ editing /\ Click
  /\ queue' = queue \o Flags(Defaults(held) \ {Chosen(held)}, 0) \o Flags({Chosen(held)}, 1)
  /\ UNCHANGED editor

-----------------------------------------------------------------------------
(* The spawned writes.  `write` looks for the row before it records, and   *)
(* the look may come before the writes ahead of it are done.               *)

FindPrefs ==
  /\ \E i \in DOMAIN queue :
       /\ queue[i].kind = "prefs"
       /\ \A j \in 1..(i - 1) : queue[j].kind # "prefs"
       /\ LET mine == {p \in PrefRows : Live(local[Me], p)}
              new  == {p \in PrefRows : /\ server[p].state = "absent"
                                        /\ \A d \in Devices : local[d][p].state = "absent"
                                        /\ \A j \in DOMAIN queue :
                                             queue[j].kind = "upsert" => queue[j].id # p} IN
          \E p \in IF mine = {} THEN new ELSE {Least(mine)} :
            queue' = [queue EXCEPT ![i] = Put(p, queue[i].set)]
  /\ UNCHANGED <<replica, held, editor, bounds, history>>

RunWrite ==
  /\ queue # <<>> /\ Head(queue).kind = "upsert"
  /\ Record(Me, Head(queue))
  /\ queue' = Tail(queue)
  /\ recorded' = recorded \cup
       (IF "body" \in DOMAIN Head(queue).set THEN {Head(queue).set.body.text} ELSE {})
  /\ UNCHANGED <<held, editor, bounds, astray>>

\* other members and the reader's other devices
Elsewhere(d) ==
  /\ d # Me /\ clicks + elsewhere < MaxActs /\ elsewhere' = elsewhere + 1
  /\ \/ \E a \in LiveArrangements(local[d]) :
          Record(d, Put(a, [body |-> [of |-> a, text |-> 0]]))
     \/ \E a \in LiveArrangements(local[d]) :
          LET ops == Flags(Defaults(local[d]) \ {a}, 0) \o Flags({a}, 1) IN
          /\ local' = [local EXCEPT ![d] = After(@, ops)]
          /\ pending' = [pending EXCEPT ![d] = @ \o ops]
          /\ UNCHANGED server
     \/ \E p \in PrefRows, a \in LiveArrangements(local[d]) :
          Live(local[d], p) /\ Record(d, Put(p, [Prefs(local[d]) EXCEPT !.pick = a]))
  /\ UNCHANGED <<held, editor, queue, typed, clicks, history>>

Sync(d) == Pass(d) /\ UNCHANGED <<held, editor, queue, bounds, history>>

Page == Type \/ Blur \/ OpenEditor \/ Close \/ Pick \/ PickKey \/ CreateArrangement
          \/ MakeDefault
Spawned == FindPrefs \/ RunWrite
Timers == \E g \in timers : TimerFires(g)

Next ==
  \/ Page \/ Spawned \/ Timers \/ Refresh
  \/ \E d \in Devices : Elsewhere(d) \/ Sync(d)

\* a timer fires and a spawned write runs, whatever the person does
Fairness == WF_vars(Spawned) /\ WF_vars(Timers)

Spec == Init /\ [][Next]_vars /\ Fairness

-----------------------------------------------------------------------------

SongPageTypeOK ==
  /\ draft \in Chart /\ saved \in BOOLEAN /\ editing \in BOOLEAN
  /\ timers \subseteq 1..generation
  /\ \A rows \in {server, held} \cup {local[d] : d \in Devices} :
       /\ \A a \in LiveArrangements(rows) : rows[a].val.body \in Chart
       /\ \A p \in PrefRows : Live(rows, p) => rows[p].val.pick \in Arrangements \cup {0}
       /\ LiveArrangements(rows) # {}

(***************************************************************************)
(* Exactly one arrangement is the default (song/page.rs:593): as long as   *)
(* nobody else chooses one, no copy of the rows ever shows two, in the     *)
(* middle of a change of default and whatever the page had read.           *)
(***************************************************************************)
NeverTwoDefaults ==
  elsewhere = 0 => \A rows \in {server} \cup {local[d] : d \in Devices} :
                     Cardinality(Defaults(rows)) <= 1

(***************************************************************************)
(* What is typed is not lost (editor.rs:93): a chart that somebody typed   *)
(* is recorded or typed over, also when the editor is closed within the    *)
(* eight tenths of a second of the autosave.                               *)
(***************************************************************************)
TypingIsKept == \A n \in 1..MaxTyped : draft.text = n ~> (n \in recorded \/ typed > n)

(***************************************************************************)
(* Each arrangement has its own body (the feature's document): a chart is  *)
(* saved to the arrangement it was read from.  It is saved to the one the  *)
(* page shows by then.                                                     *)
(***************************************************************************)
SavesGoHome == ~astray
=============================================================================
