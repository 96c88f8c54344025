------------------------------- MODULE Charts -------------------------------
(***************************************************************************)
(* Notes, keys and the transposition of a chart                            *)
(* (crates/core/src/chart/notes.rs, chord.rs, render.rs, effective_key.rs).*)
(*                                                                         *)
(* A note is a letter and an alteration, never a semitone: naming a pitch  *)
(* always happens in a key.  Reading and writing names character by        *)
(* character, and the quality of a chord, which nothing changes, are left  *)
(* out.                                                                    *)
(***************************************************************************)
EXTENDS Integers, FiniteSets

Letters == 0..6                                   \* C, D, E, F, G, A, B
Alters  == -2..2
Notes   == [letter : Letters, alter : Alters]
Keys    == [tonic : Notes, minor : BOOLEAN]
NoKey   == [tonic |-> [letter |-> 7, alter |-> 0], minor |-> FALSE]  \* none, or unreadable

Natural(letter) == CASE letter = 0 -> 0 [] letter = 1 -> 2 [] letter = 2 -> 4 [] letter = 3 -> 5
                     [] letter = 4 -> 7 [] letter = 5 -> 9 [] letter = 6 -> 11
PitchClass(note) == (Natural(note.letter) + note.alter) % 12

MajorSteps == <<0, 2, 4, 5, 7, 9, 11>>
MinorSteps == <<0, 2, 3, 5, 7, 8, 10>>

\* into -6 .. 5
NormaliseAlter(difference) == ((difference + 6) % 12) - 6

(* The seven notes of a key, one for each letter. *)
ScaleOf(key) ==
  LET steps == IF key.minor THEN MinorSteps ELSE MajorSteps
      NoteAt(degree) ==
        LET letter == (key.tonic.letter + degree) % 7
            wanted == (PitchClass(key.tonic) + steps[degree + 1]) % 12
        IN [letter |-> letter, alter |-> NormaliseAlter(wanted - Natural(letter))]
  IN {NoteAt(degree) : degree \in 0..6}
Scale == [key \in Keys |-> ScaleOf(key)]

Sum6(S) == LET f[n \in 0..7] == IF n = 0 THEN 0
                                ELSE f[n - 1] + (CHOOSE note \in S : note.letter = n - 1).alter
           IN f[7]
Size(n) == IF n < 0 THEN -n ELSE n

IsSharp(key) == Sum6(Scale[key]) >= 0
SignatureSize(key) == Sum6({[note EXCEPT !.alter = Size(@)] : note \in Scale[key]})

(* SHARP_NAMES and FLAT_NAMES: a letter, raised or lowered where there is  *)
(* none.                                                                   *)
Name(pitch, side) ==
  CHOOSE note \in Notes :
    /\ PitchClass(note) = pitch
    /\ note.alter = IF \E l \in Letters : Natural(l) = pitch THEN 0 ELSE side

(* The key at a pitch, by the simpler of its two names. *)
KeyAt ==
  [minor \in BOOLEAN |-> [pitch \in 0..11 |->
     LET sharp == [tonic |-> Name(pitch, 1), minor |-> minor]
         flat  == [tonic |-> Name(pitch, -1), minor |-> minor]
     IN IF SignatureSize(flat) < SignatureSize(sharp) THEN flat ELSE sharp]]
Transposed(key, semitones) == KeyAt[key.minor][(PitchClass(key.tonic) + semitones) % 12]

(* A pitch named in a key: as the key's own note, else as its neighbour    *)
(* raised or lowered, else, where that would be altered twice, by its      *)
(* plain name.                                                             *)
SpellIn(key, pitch) ==
  LET own       == {note \in Scale[key] : PitchClass(note) = pitch}
      side      == IF IsSharp(key) THEN 1 ELSE -1
      neighbour == {note \in Scale[key] : PitchClass(note) = (pitch - side) % 12}
      moved     == {note \in {[n EXCEPT !.alter = @ + side] : n \in neighbour} :
                      Size(note.alter) <= 1}
  IN CASE own # {} -> [note |-> CHOOSE n \in own : TRUE, respelled |-> FALSE]
       [] own = {} /\ moved # {} -> [note |-> CHOOSE n \in moved : TRUE, respelled |-> FALSE]
       [] OTHER -> [note |-> Name(pitch, side), respelled |-> TRUE]
Spelling == [key \in Keys |-> [pitch \in 0..11 |-> SpellIn(key, pitch)]]

-----------------------------------------------------------------------------
(* What a reader sees.  Business rule 7: the set, the reader's own key, the*)
(* arrangement, the song, in this order.                                   *)

Effective(levels) ==
  LET held == {i \in DOMAIN levels : levels[i] # NoKey}
  IN IF held = {} THEN NoKey ELSE levels[CHOOSE i \in held : \A j \in held : i <= j]
SourceKey(levels) == Effective(<<levels[3], levels[4]>>)

\* a chart without a key is read as one in C
InC == [tonic |-> [letter |-> 0, alter |-> 0], minor |-> FALSE]
Or(key, default) == IF key = NoKey THEN default ELSE key

\* mutant: the capo on the wrong side
ShapeAbove(target, capo) == IF capo = 0 THEN target ELSE Transposed(target, capo)
ShapeKeyOf(target, capo) == IF capo = 0 THEN target ELSE Transposed(target, -capo)

(* A chord is a root and a bass, or none: the notes it is written with.    *)
TransposedChord(chord, semitones, target) ==
  {Spelling[target][(PitchClass(note) + semitones) % 12] : note \in chord}

Render(chord, levels, capo) ==
  LET written == Or(SourceKey(levels), InC)
      target  == Or(Effective(levels), written)
      shape   == ShapeKeyOf(target, capo)
      up      == (PitchClass(shape.tonic) - PitchClass(written.tonic)) % 12
  IN TransposedChord(chord, up, shape)

(* The twelve keys a reader is offered. *)
Choices(written) == {Transposed(written, semitones) : semitones \in 0..11}
=============================================================================
