------------------------------- MODULE MCPages -------------------------------
(***************************************************************************)
(* The pages, one after another: sets, library, song page, sheet viewer,   *)
(* what a reader is shown and what a device keeps for it.  They share rows *)
(* and nothing else, so each is checked on its own; `part` says which.     *)
(***************************************************************************)
EXTENDS Ranks, Replica

CONSTANTS
  Sets, Items, AtStart, MaxTasks,
  Folders, Songs, Placements, Root,
  Me, Arrangements, PrefRows, There, MaxTyped, MaxActs,
  MarkIds, Sheet, People, MaxStrokes, MaxUndos,
  Capos, MaxPicks, MaxAsked,
  d1, d2, f1, f2, f3, s1, s2, p1, a, b

VARIABLES
  part, tasks, dragging, places, excused,
  held, editing, draft, saved, generation, timers, queue, typed, clicks, elsewhere,
  recorded, astray,
  author, shown, view, saves, drawn, where, undone, hasty,
  override, preferred, default, original, frets, picks,
  filed, days, pinnedSet, keyOf, mine, released, onDevice, recent, full, pass, asked

Parents == (f1 :> Root) @@ (f2 :> f1)
Homes == s1 :> f2

\* keys a song may be written in: C, Am, G sharp, F double flat minor, none
KeyOf(letter, alter, minor) == [tonic |-> [letter |-> letter, alter |-> alter], minor |-> minor]
InC    == KeyOf(0, 0, FALSE)
Keyless == KeyOf(7, 0, FALSE)
Typed  == {InC, KeyOf(5, 0, TRUE), KeyOf(4, 1, FALSE), KeyOf(3, -2, TRUE), Keyless}

\* Two songs; the second sheet of the first is for another part, and a third
\* may be for any key, or for D flat, listed first, and uploaded or not.
Filing(song, key, for, position, there) ==
  [song |-> song, key |-> key, part |-> for, position |-> position, there |-> there,
   state |-> "live"]
Filings ==
  {<<Filing(1, InC, "piano", 1, TRUE), Filing(1, KeyOf(4, 0, FALSE), "lead", 1, TRUE), third>> :
     third \in {Filing(1, Keyless, "piano", 0, FALSE), Filing(1, KeyOf(1, -1, FALSE), "piano", 0, TRUE),
                Filing(2, Keyless, "piano", 0, TRUE)}}

O == INSTANCE RunningOrder
L == INSTANCE Library
S == INSTANCE SongPage
M == INSTANCE Marks
R == INSTANCE Readings
K == INSTANCE Keeping WITH Songs <- {1, 2}, SheetIds <- 1..3, Parts <- {"piano", "lead"},
       OriginalKey <- [s \in {1, 2} |-> InC], LeastPosition <- 0, Room <- 2, held <- onDevice

ASSUME PagesReadingsAssumption == R!ReadingsAssumption
ASSUME PagesKeepingAssumption == K!KeepingAssumption

song == <<held, editing, draft, saved, generation, timers, queue, typed, clicks,
          elsewhere, recorded, astray>>
marks == <<author, shown, view, saves, drawn, where, undone, hasty>>
reading == <<override, preferred, default, original, frets, picks>>
keeping == <<filed, days, pinnedSet, keyOf, mine, released, onDevice, recent, full, pass, asked>>
apart == <<reading, keeping>>
all == <<part, replica, tasks, dragging, places, excused, song, marks, apart>>

Idle(which) ==
  /\ "sets" \in which => dragging = [d \in Devices |-> 0] /\ places = {}
  /\ "library" \in which => excused = FALSE
  /\ "song" \in which => S!Opened
  /\ "marks" \in which => M!Blank /\ author = [d \in Devices |-> CHOOSE p \in People : TRUE]

\* nothing is read, nothing kept
Aside ==
  /\ override = Keyless /\ preferred = Keyless /\ default = Keyless /\ original = Keyless
  /\ frets = <<>> /\ picks = 0
NotKept ==
  /\ filed = <<>> /\ days = 0 /\ pinnedSet = FALSE /\ keyOf = <<>> /\ mine = <<>>
  /\ released = {} /\ onDevice = <<>> /\ recent = <<>> /\ full = 0 /\ pass = {} /\ asked = 0

NoPage == ReplicaInit(<<>>) /\ tasks = <<>> /\ Idle({"sets", "library", "song", "marks"})

Init ==
  \/ part = "sets" /\ O!Init /\ Idle({"library", "song", "marks"}) /\ Aside /\ NotKept
  \/ part = "library" /\ L!Init /\ Idle({"sets", "song", "marks"}) /\ Aside /\ NotKept
  \/ part = "song" /\ S!Init /\ tasks = <<>> /\ Idle({"sets", "library", "marks"}) /\ Aside /\ NotKept
  \/ part = "marks" /\ M!Init /\ tasks = <<>> /\ Idle({"sets", "library", "song"}) /\ Aside /\ NotKept
  \/ part = "reading" /\ R!Init /\ NoPage /\ NotKept
  \/ part = "keeping" /\ K!Init /\ NoPage /\ Aside

InSets == part = "sets" /\ O!Next /\ UNCHANGED <<part, excused, song, marks, apart>>
InLibrary == part = "library" /\ L!Next /\ UNCHANGED <<part, dragging, places, song, marks, apart>>
OnSong(A) ==
  part = "song" /\ A /\ UNCHANGED <<part, tasks, dragging, places, excused, marks, apart>>
OnSheet ==
  part = "marks" /\ M!Next /\ UNCHANGED <<part, tasks, dragging, places, excused, song, apart>>
Pages == <<part, replica, tasks, dragging, places, excused, song, marks>>
Read == part = "reading" /\ R!Next /\ UNCHANGED <<Pages, keeping>>
Kept(A) == part = "keeping" /\ A /\ UNCHANGED <<Pages, reading>>

Next == InSets \/ InLibrary \/ OnSong(S!Next) \/ OnSheet \/ Read \/ Kept(K!Next)

\* the fairness of SongPage and Keeping
Spec ==
  /\ Init /\ [][Next]_all
  /\ WF_all(OnSong(S!Spawned)) /\ WF_all(OnSong(S!Timers))
  /\ WF_all(Kept(K!Tick)) /\ WF_all(Kept(K!FetchNext))

-----------------------------------------------------------------------------
(* The properties of the parts, each stated where the part is.             *)

\* A rank can be made between any two neighbours of a running order (rank.rs:8),
\* and two people reordering a set both keep their move (repository.rs:212).
OrdersAreKept ==
  part = "sets" => O!RunningOrderTypeOK /\ O!RoomEverywhere /\ O!EverybodyKeepsTheirMove

\* Every live folder is in the tree that is drawn (repository.rs:184), and every
\* live song is listed in it (repository.rs:208).
LibraryStaysWhole ==
  part = "library" => L!LibraryTypeOK /\ L!TreeStaysWhole /\ L!SongsStayListed

\* A reader always has an arrangement to look at, and no copy of the rows ever
\* shows two defaults (song/page.rs:593).
OneDefaultArrangement == part = "song" => S!SongPageTypeOK /\ S!NeverTwoDefaults

\* What is typed in the chart editor is recorded (editor.rs:93).
TypingIsKept == S!TypingIsKept

\* A chart is saved to the arrangement it was read from.
SavesGoHome == part = "song" => S!SavesGoHome

\* One row per reader, page and scope (viewer.rs:169); strokes are kept, and what
\* is undone stays undone (viewer.rs:113).
MarksAreKept == part = "marks" => M!MarksTypeOK /\ M!OneRowEach /\ M!StrokesSurvive

\* What is drawn sounds as the band does, is spelled in its key, and is offered
\* in keys that can be read (render.rs:68).
ChordsAreTrue ==
  part = "reading" => R!ChordsSoundRight /\ R!ChordsAreSpelled /\ R!OfferedKeysAreSimple

\* The sheet that is shown is the best there is, and is called what it is
\* (selection.rs:93).
BestSheet == part = "keeping" => K!BestSheet

\* Chart or sheet, what a musician reads is in the key that is played.
ReadingsAreTrue == ChordsAreTrue /\ BestSheet

\* What comes up is here on the night, or the device has said that it is full
\* (wanted.rs:88, print.rs:66).
OnTheNight == <>[](part = "keeping" => K!ReadyOrFull)
=============================================================================
