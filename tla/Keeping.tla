------------------------------- MODULE Keeping -------------------------------
(***************************************************************************)
(* Which sheet files a device keeps, one device and one member: what is    *)
(* coming up or pinned, in the key it will be read in, less what the device*)
(* was told to let go of; and what the print pack finds on the night       *)
(* (crates/core/src/blobs/policy.rs, sheets/selection.rs,                  *)
(* crates/web/src/blobs/wanted.rs, pins.rs, settings/storage.rs, the dialog*)
(* of app/shell.rs, sets/print.rs).                                        *)
(*                                                                         *)
(* Each song is one item of the one set.  A file takes one unit of room; a *)
(* file is fetched, and an eviction made, in one step (module Blobs has    *)
(* their awaits, and the hashes).                                          *)
(***************************************************************************)
EXTENDS Charts, Sequences

CONSTANTS
  Songs, SheetIds,   \* sheets are numbers, in the order of their ids
  Parts,
  Filings,           \* the sheets there may be: [song, key, part, position, there, state]
  OriginalKey,       \* of each song
  LeastPosition,     \* of a sheet, a signed number in the code
  MaxAsked,          \* bound: what the member, the band and the calendar change
  Room               \* files the device has room for

AnyPart == "any"
Nothing == 0
Budget  == 1         \* `OPPORTUNISTIC_BUDGET`
Set     == 0           \* among the numbers of songs

KeepingAssumption ==
  /\ SheetIds \subseteq Nat \ {Nothing} /\ LeastPosition \in Int
  /\ OriginalKey \in [Songs -> Keys \cup {NoKey}]
  /\ Filings \subseteq [SheetIds -> [song : Songs, key : Keys \cup {NoKey}, part : Parts,
                                    position : {n \in Int : n >= LeastPosition},
                                    there : BOOLEAN, state : {"live", "deleted"}]]

VARIABLES
  filed,      \* `sheets`
  days,       \* until the set
  pinnedSet,  \* the set is pinned
  keyOf,      \* `key_override` of each item
  mine,       \* the member's own: pinned, preferred key, by song; and the part
  released,   \* what this device lets go of
  held,       \* `blobs`: why each file is here
  recent,     \* the files that were only opened, least recently used first
  full,       \* the file there was no room for
  pass,       \* the files a pass of the queue has still to look at
  asked

rows   == <<filed, days, pinnedSet, keyOf, mine>>
device == <<released, held, recent, full>>
vars   == <<rows, device, pass, asked>>

-----------------------------------------------------------------------------
(* `select_sheet` *)

\* mutant: in semitones
SemitoneDistance(a, b) ==
  LET steps == (PitchClass(b.tonic) - PitchClass(a.tonic)) % 12
  IN IF steps < 12 - steps THEN steps ELSE 12 - steps

FifthsDistance(a, b) ==
  LET steps == ((PitchClass(b.tonic) - PitchClass(a.tonic)) * 7) % 12
  IN IF steps < 12 - steps THEN steps ELSE 12 - steps

Before(s, q) ==
  \/ filed[s].position < filed[q].position
  \/ filed[s].position = filed[q].position /\ s <= q
ByPosition(S) == CHOOSE s \in S : \A q \in S : Before(s, q)

InKey(s, key) ==
  /\ key # NoKey /\ filed[s].key # NoKey
  /\ PitchClass(filed[s].key.tonic) = PitchClass(key.tonic) /\ filed[s].key.minor = key.minor
IsPart(s, part) == part = AnyPart \/ filed[s].part = part

Nearest(S, key) ==
  {s \in S : \A q \in S : FifthsDistance(key, filed[s].key) <= FifthsDistance(key, filed[q].key)}

(* Right key and part, right key, any key, the nearest key, the first; of  *)
(* those the one that is listed first.                                     *)
SelectSheet(usable, key, part) ==
  LET inKey  == {s \in usable : InKey(s, key)}
      exact  == {s \in inKey : IsPart(s, part)}
      anyKey == {s \in usable : filed[s].key = NoKey /\ IsPart(s, part)}
      keyed  == {s \in usable : filed[s].key # NoKey /\ IsPart(s, part)}
      Found(fallback, S) == [fallback |-> fallback, sheet |-> ByPosition(S)]
  IN CASE usable = {} -> [fallback |-> "none", sheet |-> Nothing]
       [] exact # {} -> Found("exact", exact)
       [] exact = {} /\ inKey # {} -> Found("other part", inKey)
       [] inKey = {} /\ anyKey # {} -> Found("any key", anyKey)
       [] inKey = {} /\ anyKey = {} /\ key # NoKey /\ keyed # {} ->
            Found("nearest key", Nearest(keyed, key))
       [] OTHER -> Found("first", usable)

SheetsOf(song) == {s \in SheetIds : filed[s].song = song /\ filed[s].state = "live"}

-----------------------------------------------------------------------------
(* What is wanted: `decide`, `wanted_sheets`, `is_auto_pinned` *)

AutoPinDays == 14
IsAutoPinned == pinnedSet \/ days \in -1..AutoPinDays

ReadKey(song, over) == Effective(<<over, mine.key[song], OriginalKey[song]>>)

Wants ==
  {<<song, ReadKey(song, keyOf[song])>> :
     song \in IF IsAutoPinned /\ Set \notin released THEN Songs \ released ELSE {}}
  \cup {<<song, ReadKey(song, NoKey)>> : song \in mine.pinned \ released}

\* the sheet that would be shown, and with it every part in that key
WantedFor(song, key) ==
  LET chosen == SelectSheet(SheetsOf(song), key, mine.part)
      sameKey == IF chosen.fallback # "exact" THEN {}
                 ELSE {s \in SheetsOf(song) : filed[s].key = filed[chosen.sheet].key}
  IN {s \in {chosen.sheet} \cup sameKey : s # Nothing /\ filed[s].there}

\* mutant: the key of the set is forgotten
WantedInOwnKey == UNION {WantedFor(want[1], ReadKey(want[1], NoKey)) : want \in Wants}
WantedSheets == UNION {WantedFor(want[1], want[2]) : want \in Wants}

-----------------------------------------------------------------------------
(* What the member and the band do, and the calendar *)

Init ==
  /\ filed \in Filings
  /\ days \in {AutoPinDays + 1, 0}
  /\ pinnedSet = FALSE
  /\ keyOf = [song \in Songs |-> NoKey]
  /\ mine = [pinned |-> {}, key |-> [song \in Songs |-> NoKey], part |-> AnyPart]
  /\ released = {} /\ held = [s \in SheetIds |-> "no"] /\ recent = <<>>
  /\ full = Nothing /\ pass = {} /\ asked = 0

Ask == asked < MaxAsked /\ asked' = asked + 1

DayPasses ==
  /\ days' = IF days = AutoPinDays + 1 THEN AutoPinDays ELSE -2
  /\ days' # days
  /\ UNCHANGED <<filed, pinnedSet, keyOf, mine>>
PinSet ==
  /\ pinnedSet' = ~pinnedSet
  /\ UNCHANGED <<filed, days, keyOf, mine>>
OverrideKey ==
  /\ \E song \in Songs, semitones \in {0, 7} :
       keyOf' = [keyOf EXCEPT ![song] = Transposed(InC, semitones)]
  /\ UNCHANGED <<filed, days, pinnedSet, mine>>
ChangeMine ==
  /\ \/ \E song \in Songs : mine' = [mine EXCEPT !.pinned = (@ \ {song}) \cup ({song} \ @)]
     \/ \E song \in Songs : mine' = [mine EXCEPT !.key[song] = Transposed(InC, 2)]
     \/ \E part \in Parts : mine' = [mine EXCEPT !.part = part]
  /\ UNCHANGED <<filed, days, pinnedSet, keyOf>>
\* an upload completes; a sheet is deleted
SheetChanges ==
  /\ \E s \in SheetIds :
       \/ ~filed[s].there /\ filed' = [filed EXCEPT ![s].there = TRUE]
       \/ filed[s].state = "live" /\ filed' = [filed EXCEPT ![s].state = "deleted"]
  /\ UNCHANGED <<days, pinnedSet, keyOf, mine>>

RowsChange ==
  /\ Ask
  /\ DayPasses \/ PinSet \/ OverrideKey \/ ChangeMine \/ SheetChanges
  /\ UNCHANGED <<device, pass>>

-----------------------------------------------------------------------------
(* The device *)

Here == {s \in SheetIds : held[s] # "no"}

\* near the quota the budget is at most half of it
BudgetNow(asking) ==
  IF Cardinality(Here) * 100 > Room * 85 /\ Room \div 2 < asking THEN Room \div 2 ELSE asking

(* The files that were only opened are cut back to the budget.             *)
Evict(asking) ==
  LET over    == Len(recent) - BudgetNow(asking)
      dropped == {recent[i] : i \in 1..over}
  IN /\ held' = [s \in SheetIds |-> IF s \in dropped THEN "no" ELSE held[s]]
     /\ recent' = IF over > 0 THEN SubSeq(recent, over + 1, Len(recent)) ELSE recent

Without(s) == SelectSeq(recent, LAMBDA q : q # s)

(* A pass: what is wanted was read once; its files are fetched in the order*)
(* of their ids, and the first that does not fit ends it.                  *)
StartPass(want) ==
  /\ pass = {}
  /\ pass' = want /\ full' = Nothing
  /\ IF want = {} THEN Evict(Budget) ELSE UNCHANGED <<held, recent>>
  /\ UNCHANGED released

Tick == StartPass(WantedSheets) /\ UNCHANGED <<rows, asked>>

Download(s) ==
  /\ held[s] # "no" \/ Cardinality(Here) < Room
  /\ held' = [held EXCEPT ![s] = "pinned"] /\ recent' = Without(s)
  /\ pass' = pass \ {s} /\ UNCHANGED full
NoRoomFor(s) ==
  /\ held[s] = "no" /\ Cardinality(Here) >= Room
  /\ pass' = {} /\ full' = s /\ Evict(Budget)
Skip(s) ==
  /\ pass' = pass \ {s}
  /\ IF pass = {s} THEN Evict(Budget) ELSE UNCHANGED <<held, recent>>
  /\ UNCHANGED full

FetchNext ==
  /\ pass # {}
  /\ LET s == CHOOSE q \in pass : \A r \in pass : q <= r
     IN IF filed[s].there /\ filed[s].state = "live" THEN Download(s) \/ NoRoomFor(s) ELSE Skip(s)
  /\ UNCHANGED <<rows, released, asked>>

(* "Download everything": what the library has a file for.                 *)
DownloadEverything ==
  /\ Ask
  /\ StartPass({s \in SheetIds : filed[s].there /\ filed[s].state = "live"})
  /\ UNCHANGED rows

(* The viewer fetches what is looked at, and keeps it if there is room;    *)
(* what is here already is as it was but for its age.                      *)
Open ==
  /\ Ask
  /\ \E s \in SheetIds :
       /\ filed[s].state = "live" /\ filed[s].there
       /\ held[s] # "no" \/ Cardinality(Here) < Room
       /\ held' = [held EXCEPT ![s] = IF @ = "no" THEN "opened" ELSE @]
       /\ recent' = IF held[s] = "pinned" THEN recent ELSE Append(Without(s), s)
  /\ UNCHANGED <<rows, released, full, pass>>

(* What the dialog lists, `held_pins`: whatever was let go of before.      *)
HeldPins == (IF IsAutoPinned THEN {Set} ELSE {}) \cup mine.pinned

\* `reclaim`
Reclaim ==
  /\ full # Nothing /\ Ask
  /\ \/ \E pin \in HeldPins : released' = released \cup {pin} /\ Evict(Budget)
     \/ UNCHANGED released /\ Evict(0)
  /\ full' = Nothing
  /\ UNCHANGED <<rows, pass>>

ClearOpened ==
  /\ Ask
  /\ Evict(0)
  /\ UNCHANGED <<rows, released, full, pass>>

KeepAgain ==
  /\ Ask
  /\ \E pin \in released : released' = released \ {pin}
  /\ UNCHANGED <<rows, held, recent, full, pass>>

Next ==
  \/ RowsChange \/ Tick \/ FetchNext
  \/ DownloadEverything \/ Open \/ Reclaim \/ ClearOpened \/ KeepAgain

(* The app's tick, every thirty seconds, and the awaits of a pass.         *)
Fairness == WF_vars(Tick) /\ WF_vars(FetchNext)

Spec == Init /\ [][Next]_vars /\ Fairness

-----------------------------------------------------------------------------
(* The sheet the print pack of the set takes for a song, if it has a file. *)
Printed(song) ==
  LET chosen == SelectSheet(SheetsOf(song), ReadKey(song, keyOf[song]), mine.part).sheet
  IN {s \in {chosen} : s # Nothing /\ filed[s].there}

(* What comes up and was not let go of is on the device on the night, or   *)
(* the device has said that it is full (offline-storage business rule 10): *)
(* what is fetched is chosen from the same key and part as what is shown.  *)
KeptSongs == IF IsAutoPinned /\ Set \notin released THEN Songs \ released ELSE {}
Prepared == \A song \in KeptSongs : Printed(song) \subseteq Here
ReadyOrFull == Prepared \/ full # Nothing \/ pass # {}
OnTheNight == <>[]ReadyOrFull

(* `select_sheet` gives the sheet that comes first by how well it fits,    *)
(* then by its place, and says how well (business rule 4).                 *)
FifthsApart(a, b) ==
  CHOOSE n \in 0..6 :
    \E m \in {n, -n} : (PitchClass(a.tonic) + 7 * m) % 12 = PitchClass(b.tonic)
Cost(s, key, part) ==
  CASE InKey(s, key) -> IF IsPart(s, part) THEN 0 ELSE 1
    [] ~InKey(s, key) /\ IsPart(s, part) /\ filed[s].key = NoKey -> 2
    [] ~InKey(s, key) /\ IsPart(s, part) /\ filed[s].key # NoKey /\ key # NoKey ->
         3 + FifthsApart(filed[s].key, key)
    [] OTHER -> 10
Promise == [n \in 0..10 |->
  CASE n = 0 -> "exact" [] n = 1 -> "other part" [] n = 2 -> "any key"
    [] n \in 3..9 -> "nearest key" [] n = 10 -> "first"]

BestSheet ==
  \A song \in Songs, part \in Parts \cup {AnyPart} : \A over \in {NoKey, keyOf[song]} :
    LET usable == SheetsOf(song)
        key    == ReadKey(song, over)
        choice == SelectSheet(usable, key, part)
        best   == {s \in usable : \A q \in usable :
                     \/ Cost(s, key, part) < Cost(q, key, part)
                     \/ Cost(s, key, part) = Cost(q, key, part) /\ Before(s, q)}
    IN IF usable = {} THEN choice = [fallback |-> "none", sheet |-> Nothing]
       ELSE best = {choice.sheet} /\ choice.fallback = Promise[Cost(choice.sheet, key, part)]
=============================================================================
