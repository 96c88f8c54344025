------------------------------- MODULE Merge -------------------------------
(***************************************************************************)
(* What one pushed operation does to one stored row: aurum_core::sync,     *)
(* `merge::plan` (crates/core/src/sync/merge.rs).  The same pure function  *)
(* is compiled into the server and the client, and every decision of a     *)
(* push comes from it: does a tombstone beat an edit, which fields are in  *)
(* conflict, which arrangements stop being the default of their song.      *)
(***************************************************************************)
EXTENDS Integers

CONSTANTS
  Devices,      \* the devices (and users) that write
  Records,      \* the ids of rows, of all synced tables
  Fields,       \* the client-writable columns of a row
  Values,       \* the values a column takes once it is text (merge.rs, as_text)
  DefaultFlag,  \* the column is_default
  SongOf,       \* the song a row belongs to; a row that is not an arrangement
                \* is alone in a song of its own
  NoOne,        \* the NULL of updated_by
  OpIds         \* the ids of operations, ordered as a device records them

ASSUME FieldsAssumption == DefaultFlag \in Fields
ASSUME ValuesAssumption == {0, 1} \subseteq Values
ASSUME NoOneAssumption  == NoOne \notin Devices
ASSUME OpIdsAssumption  == OpIds \subseteq Nat

-----------------------------------------------------------------------------

(***************************************************************************)
(* A row: live, tombstoned (deleted_at set, the columns kept) or absent    *)
(* (no such row), with its columns and the three columns the server owns.  *)
(* Timestamps are numbers; the format is lexically ordered, so <= is what  *)
(* the code's comparison of strings does.                                  *)
(***************************************************************************)
Row == [state : {"absent", "live", "dead"},
        val   : [Fields -> Values],
        at    : Nat,                \* updated_at
        seq   : Nat,                \* change_seq
        by    : Devices \cup {NoOne}]

Blank == [f \in Fields |-> 0]

NoRow == [state |-> "absent", val |-> Blank, at |-> 0, seq |-> 0, by |-> NoOne]

NoBase == -1    \* base_updated_at = None: the device had no such row

Payload == UNION {[S -> Values] : S \in SUBSET Fields}

(***************************************************************************)
(* An operation of the outbox.  `saw` is not in the code: it is the row    *)
(* the person was looking at, kept to state what a conflict ought to be.   *)
(***************************************************************************)
Op == [id   : OpIds,
       rec  : Records,
       kind : {"upsert", "delete"},
       set  : Payload,
       base : Nat \cup {NoBase},
       saw  : Row]

-----------------------------------------------------------------------------
\* mutant: an edit brings a deleted row back
ActionReviving(op, row) ==
  IF op.kind = "delete"
  THEN IF row.state = "absent" THEN "already_gone" ELSE "delete"
  ELSE IF row.state = "absent" THEN "insert" ELSE "update"

\* `plan`: a tombstone wins over an upsert, and a delete of nothing is nothing
Action(op, row) ==
  IF op.kind = "delete"
  THEN IF row.state = "absent" THEN "already_gone" ELSE "delete"
  ELSE CASE row.state = "absent" -> "insert"
         [] row.state = "dead"   -> "tombstoned"
         [] OTHER                -> "update"

Writes(op, row) == Action(op, row) \in {"insert", "update"}

\* `conflicts`: the stored row moved on after the base, and the text differs
Conflicts(op, row) ==
  IF Action(op, row) = "update" /\ op.base # NoBase /\ row.at > op.base
  THEN {f \in DOMAIN op.set : row.val[f] # op.set[f]}
  ELSE {}

\* mutant: only a write that carries its song demotes, not one that flips the flag
DemotesOnInsert(op, row) ==
  /\ Action(op, row) = "insert"
  /\ DefaultFlag \in DOMAIN op.set
  /\ op.set[DefaultFlag] = 1

\* `demoted_song`: this write makes its row the default of its song
Demotes(op, row) ==
  /\ Writes(op, row)
  /\ DefaultFlag \in DOMAIN op.set
  /\ op.set[DefaultFlag] = 1

Merged(val, set) == [f \in Fields |-> IF f \in DOMAIN set THEN set[f] ELSE val[f]]

\* the row after the INSERT, UPDATE or tombstone that the plan asks for
Written(op, row, dev, seq, now) ==
  CASE Action(op, row) = "insert" ->
         [state |-> "live", val |-> Merged(Blank, op.set),
          at |-> now, seq |-> seq, by |-> dev]
    [] Action(op, row) = "update" ->
         [state |-> "live", val |-> Merged(row.val, op.set),
          at |-> now, seq |-> seq, by |-> dev]
    [] Action(op, row) = "delete" ->
         [state |-> "dead", val |-> row.val,
          at |-> now, seq |-> seq, by |-> dev]
    [] OTHER -> row

\* UPDATE arrangements SET is_default = 0 ... WHERE song_id = ? AND id <> ? AND
\* is_default = 1: every other default of the song, tombstoned ones included
Demoted(rows, op, dev, seq, now) ==
  [r \in Records |->
     IF /\ SongOf[r] = SongOf[op.rec]
        /\ r # op.rec
        /\ rows[r].state # "absent"
        /\ rows[r].val[DefaultFlag] = 1
     THEN [state |-> rows[r].state,
           val |-> [rows[r].val EXCEPT ![DefaultFlag] = 0],
           at |-> now, seq |-> seq, by |-> dev]
     ELSE rows[r]]
=============================================================================
