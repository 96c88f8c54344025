------------------------------- MODULE Arrivals -------------------------------
(***************************************************************************)
(* Files that come from outside: opened with Aurum, shared to it on        *)
(* Android, or chosen in the import dialog (crates/web/src/pwa/share.rs,   *)
(* library/import.rs, core/src/library/importer.rs, web/sw.ts).            *)
(*                                                                         *)
(* A window is closed, loading at /share, in one of the steps of the share *)
(* page's only pass, importing, or at rest: reporting, or in the library.  *)
(***************************************************************************)
EXTENDS Naturals, FiniteSets, SequencesExt

CONSTANTS
  Windows, Files,
  NameOf,     \* the name of each file
  MaxComing,  \* bound: files that come, and times that a window opens
  MaxWrong    \* bound: writes that fail, windows that close

ASSUME ArrivalsAssumption == IsFiniteSet(Windows)

VARIABLES
  kind,    \* of each file: "song", "odd" (it cannot be imported) or "sheet"
  cache,   \* what the worker has parked: records of an index, a name and a file
  at,      \* what each window is doing
  early,   \* that its library was not open yet when the share page was mounted
  handed,  \* HANDED: the files the browser gave the document
  keys,    \* the keys of the cache it has yet to read
  files,   \* the files it has yet to import, and the one that it is writing
  told,    \* the files reported: imported, imported while early, odd and sheets
  landed,  \* the songs that came of each file
  charts,  \* and those that have their arrangement
  came, wrong,
  fresh,   \* the files that nobody has brought yet
  read,    \* history: how many times each file was read
  lost     \* the files that went with their document, or under another's key

arrivalVars == <<kind, cache, at, early, handed, keys, files, told, landed, charts,
                 came, wrong, fresh, read, lost>>

Key(index, f) == [index |-> index, name |-> NameOf[f]]
Parked(k) == {p \in cache : [index |-> p.index, name |-> p.name] = k}

ArrivalsInit ==
  /\ kind \in [Files -> {"song", "odd", "sheet"}]
  /\ cache = {} /\ at = [w \in Windows |-> "closed"] /\ early = [w \in Windows |-> FALSE]
  /\ handed = [w \in Windows |-> <<>>] /\ keys = [w \in Windows |-> <<>>]
  /\ files = [w \in Windows |-> <<>>]
  /\ told = [imported |-> {}, early |-> {}, odd |-> {}, sheets |-> {}]
  /\ landed = [f \in Files |-> 0] /\ charts = [f \in Files |-> 0]
  /\ came = 0 /\ wrong = 0
  /\ fresh = Files /\ read = [f \in Files |-> 0] /\ lost = {}

-----------------------------------------------------------------------------

(* What a document holds is gone when it is closed or loaded again.        *)
HeldBy(w) == ToSet(handed[w]) \cup ToSet(files[w])

Loads(w) ==
  /\ at' = [at EXCEPT ![w] = "loading"]
  /\ handed' = [handed EXCEPT ![w] = <<>>] /\ keys' = [keys EXCEPT ![w] = <<>>]
  /\ files' = [files EXCEPT ![w] = <<>>]
  /\ UNCHANGED <<kind, early, told, landed, charts, read>>

Comes == came < MaxComing /\ came' = came + 1
Brings(fs) == Comes /\ fs \subseteq fresh /\ fresh' = fresh \ fs
\* each is read, once more
Reads(fs) == read' = [f \in Files |-> IF f \in fs THEN read[f] + 1 ELSE read[f]]

(* The worker parks a share, under its places in the list, and sends the   *)
(* window to /share.                                                       *)
Share(w, list) ==
  /\ at[w] \in {"closed", "rest"} /\ Brings(ToSet(list)) /\ IsInjective(list)
  /\ LET over == UNION {Parked(Key(n, list[n])) : n \in DOMAIN list}
     IN /\ cache' = (cache \ over) \cup
                      {[index |-> n, name |-> NameOf[list[n]], file |-> list[n]] : n \in DOMAIN list}
        /\ lost' = lost \cup {p.file : p \in over} \cup ToSet(handed[w])
  /\ Loads(w) /\ UNCHANGED wrong

(* Files opened with Aurum come to a new document at /share, or to one that*)
(* is elsewhere, which is then loaded again at /share.  (The consumer of   *)
(* the launch queue; the files have to be opened first, so they may come   *)
(* after the page has looked.)                                             *)
Open(w) == at[w] = "closed" /\ Comes /\ Loads(w) /\ UNCHANGED <<cache, wrong, fresh, lost>>

Launch(w, f) ==
  /\ at[w] # "closed" /\ Brings({f})
  /\ IF at[w] = "rest"
     THEN Loads(w) /\ lost' = lost \cup ToSet(handed[w]) \cup {f} /\ UNCHANGED <<cache, wrong>>
     ELSE /\ handed' = [handed EXCEPT ![w] = Append(@, f)]
          /\ UNCHANGED <<kind, cache, at, early, keys, files, told, landed, charts, wrong, read, lost>>

(* The share page is mounted, with the library if the database is open by  *)
(* then, and takes what was handed over and the keys of the cache.         *)
Mount(w) ==
  /\ at[w] = "loading"
  /\ \E open \in BOOLEAN : early' = [early EXCEPT ![w] = ~open]
  /\ files' = [files EXCEPT ![w] = handed[w]] /\ handed' = [handed EXCEPT ![w] = <<>>]
  /\ at' = [at EXCEPT ![w] = "mounted"]
  /\ Reads(ToSet(handed[w]))
  /\ UNCHANGED <<kind, cache, keys, told, landed, charts, came, wrong, fresh, lost>>

ReadKeys(w) ==
  /\ at[w] = "mounted"
  /\ keys' = [keys EXCEPT ![w] = SetToSeq({[index |-> p.index, name |-> p.name] : p \in cache})]
  /\ at' = [at EXCEPT ![w] = "matching"]
  /\ UNCHANGED <<kind, cache, early, handed, files, told, landed, charts, came, wrong, fresh, read, lost>>

\* every key: the file is read, then the key deleted; another window may have been there before
Match(w) ==
  /\ at[w] = "matching" /\ keys[w] # <<>>
  /\ LET there == {p.file : p \in Parked(Head(keys[w]))}
     IN files' = [files EXCEPT ![w] = @ \o SetToSeq(there)] /\ Reads(there)
  /\ at' = [at EXCEPT ![w] = "deleting"]
  /\ UNCHANGED <<kind, cache, early, handed, keys, told, landed, charts, came, wrong, fresh, lost>>

Delete(w) ==
  /\ at[w] = "deleting"
  /\ cache' = cache \ Parked(Head(keys[w]))
  /\ lost' = lost \cup ({p.file : p \in Parked(Head(keys[w]))} \ ToSet(files[w]))
  /\ keys' = [keys EXCEPT ![w] = Tail(@)] /\ at' = [at EXCEPT ![w] = "matching"]
  /\ UNCHANGED <<kind, early, handed, files, told, landed, charts, came, wrong, fresh, read>>

Collected(w) ==
  /\ at[w] = "matching" /\ keys[w] = <<>> /\ at' = [at EXCEPT ![w] = "importing"]
  /\ UNCHANGED <<kind, cache, early, handed, keys, files, told, landed, charts, came, wrong,
                 fresh, read, lost>>

(* The import dialog is in the library, which is open.                     *)
Choose(w, list) ==
  /\ at[w] = "rest" /\ Brings(ToSet(list)) /\ IsInjective(list)
  /\ \A f \in ToSet(list) : kind[f] # "sheet"
  /\ files' = [files EXCEPT ![w] = list]
  /\ at' = [at EXCEPT ![w] = "importing"]
  /\ Reads(ToSet(list))
  /\ UNCHANGED <<kind, cache, early, handed, keys, told, landed, charts, wrong, lost>>

-----------------------------------------------------------------------------

\* mutant: the first file that cannot be imported ends the pass
ReportFirst(w, as) ==
  /\ told' = [told EXCEPT ![as] = @ \cup {Head(files[w])}]
  /\ files' = [files EXCEPT ![w] = IF as = "odd" THEN <<>> ELSE Tail(@)]

\* the file is reported, and the next one is read
Report(w, as) ==
  /\ told' = [told EXCEPT ![as] = @ \cup {Head(files[w])}]
  /\ files' = [files EXCEPT ![w] = Tail(@)]

SetAside(w) ==
  /\ at[w] = "importing" /\ files[w] # <<>>
  /\ \/ kind[Head(files[w])] = "sheet" /\ Report(w, "sheets")
     \/ kind[Head(files[w])] = "odd" /\ Report(w, "odd")
     \/ kind[Head(files[w])] = "song" /\ early[w] /\ Report(w, "early")
  /\ UNCHANGED <<kind, cache, at, early, handed, keys, landed, charts, came, wrong, fresh, read, lost>>

(* `land`: the song, then the arrangement that carries its chart.  A write *)
(* that fails says nothing.                                                *)
Fails == wrong < MaxWrong /\ wrong' = wrong + 1

LandSong(w) ==
  /\ at[w] = "importing" /\ files[w] # <<>> /\ kind[Head(files[w])] = "song" /\ ~early[w]
  /\ \/ /\ landed' = [landed EXCEPT ![Head(files[w])] = @ + 1]
        /\ at' = [at EXCEPT ![w] = "landing"] /\ UNCHANGED <<told, files, wrong>>
     \/ Fails /\ Report(w, "imported") /\ UNCHANGED <<at, landed>>
  /\ UNCHANGED <<kind, cache, early, handed, keys, charts, came, fresh, read, lost>>

LandChart(w) ==
  /\ at[w] = "landing" /\ at' = [at EXCEPT ![w] = "importing"] /\ Report(w, "imported")
  /\ \/ charts' = [charts EXCEPT ![Head(files[w])] = @ + 1] /\ UNCHANGED wrong
     \/ Fails /\ UNCHANGED charts
  /\ UNCHANGED <<kind, cache, early, handed, keys, landed, came, fresh, read, lost>>

Finish(w) ==
  /\ at[w] = "importing" /\ files[w] = <<>> /\ at' = [at EXCEPT ![w] = "rest"]
  /\ early' = [early EXCEPT ![w] = FALSE]
  /\ UNCHANGED <<kind, cache, handed, keys, files, told, landed, charts, came, wrong,
                 fresh, read, lost>>

Close(w) ==
  /\ at[w] # "closed" /\ Fails
  /\ at' = [at EXCEPT ![w] = "closed"]
  /\ handed' = [handed EXCEPT ![w] = <<>>] /\ keys' = [keys EXCEPT ![w] = <<>>]
  /\ files' = [files EXCEPT ![w] = <<>>] /\ early' = [early EXCEPT ![w] = FALSE]
  /\ lost' = lost \cup HeldBy(w)
  /\ UNCHANGED <<kind, cache, told, landed, charts, came, fresh, read>>

ArrivalsNext ==
  \E w \in Windows :
    \/ \E f \in Files : Launch(w, f)
    \/ \E list \in TupleOf(Files, 1) \cup TupleOf(Files, 2) : Share(w, list) \/ Choose(w, list)
    \/ Open(w) \/ Mount(w) \/ ReadKeys(w) \/ Match(w) \/ Delete(w) \/ Collected(w)
    \/ SetAside(w) \/ LandSong(w) \/ LandChart(w) \/ Finish(w) \/ Close(w)

ArrivalsSpec == ArrivalsInit /\ [][ArrivalsNext]_arrivalVars

-----------------------------------------------------------------------------

(***************************************************************************)
(* "A file that fails is reported by name and reason while every other file*)
(* still lands" (import.rs:3): what came is in the cache, on its way in a  *)
(* window, or reported, unless its document went or another's name covered *)
(* it.                                                                     *)
(***************************************************************************)
NoFileVanishes ==
  \A f \in Files \ (fresh \cup lost) :
    \/ \E p \in cache : p.file = f
    \/ \E w \in Windows : f \in HeldBy(w)
    \/ \E as \in DOMAIN told : f \in told[as]

(***************************************************************************)
(* What is reported as imported is in the library with its chart, but when *)
(* a write failed or the page was mounted before the database was open;    *)
(* and it is there no more than once for every time it was read.           *)
(***************************************************************************)
WhatIsToldIsTrue ==
  /\ wrong = 0 => \A f \in told.imported : charts[f] > 0
  /\ \A f \in Files : charts[f] <= landed[f] /\ landed[f] <= read[f]
  /\ wrong = 0 /\ (\A w \in Windows : at[w] # "landing") => charts = landed
  /\ \A f \in Files : landed[f] > 0 => kind[f] = "song"

\* A file that cannot be imported takes no other with it, and what is reported
\* as imported is in the library (import.rs:3).
FilesLand == NoFileVanishes /\ WhatIsToldIsTrue
=============================================================================
