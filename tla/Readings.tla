------------------------------ MODULE Readings ------------------------------
(***************************************************************************)
(* One chart as one reader sees it, alone or in a set: the key and capo    *)
(* that four places can say, and what the chords come out as               *)
(* (crates/web/src/sets/resolved.rs, the header and the settings of        *)
(* song/page.rs, chart/controls.rs, the item row of sets/page.rs).         *)
(***************************************************************************)
EXTENDS Charts

CONSTANTS
  Typed,     \* keys typed in the drawer of a song: any name, or none readable
  Capos,     \* of the frets 0..11, those tried
  MaxPicks   \* bound: what is picked on the page

ReadingsAssumption == Typed \subseteq Keys \cup {NoKey} /\ Capos \subseteq 0..11

VARIABLES
  override,  \* `key_override` of the set's item
  preferred, \* `preferred_key` of the reader
  default,   \* `default_key` of the arrangement
  original,  \* `original_key` of the song
  frets,     \* the capo of the item, of the reader, and the arranger's hint; -1 is none
  picks

vars == <<override, preferred, default, original, frets, picks>>

None == -1
Places == {"item", "reader", "hint"}
Levels == <<override, preferred, default, original>>
Written == Or(SourceKey(Levels), InC)
Target  == Or(Effective(Levels), Written)

(* The item's capo, else the reader's, else the arranger's, else none. *)
Capo ==
  CASE frets["item"] # None -> frets["item"]
    [] frets["item"] = None /\ frets["reader"] # None -> frets["reader"]
    [] OTHER -> IF frets["hint"] = None THEN 0 ELSE frets["hint"]

Init ==
  /\ override = NoKey /\ preferred = NoKey /\ default = NoKey
  /\ original \in Typed
  /\ frets = [p \in Places |-> None]
  /\ picks = 0

(* The keys a list offers: `twelve`. *)
Twelve == Choices(InC)

SetOverride ==
  /\ override' \in Twelve \cup {NoKey}
  /\ UNCHANGED <<preferred, default, original, frets>>

(* The header offers the chart's own key moved by each of twelve steps, and*)
(* the way back.  Before the chart has a key it asks for that.             *)
PickKey ==
  /\ SourceKey(Levels) # NoKey
  /\ preferred' \in Choices(SourceKey(Levels)) \cup {NoKey}
  /\ UNCHANGED <<override, default, original, frets>>

NoKeyYet ==
  /\ SourceKey(Levels) = NoKey
  /\ original' \in Twelve
  /\ UNCHANGED <<override, preferred, default, frets>>

WrittenIn ==
  /\ default' \in {NoKey} \cup {Transposed(InC, n) : n \in {1, 4}}
  /\ UNCHANGED <<override, preferred, original, frets>>

SetCapo ==
  /\ \E p \in Places, capo \in Capos \cup {None} :
       /\ p = "reader" => capo # None
       /\ frets' = [frets EXCEPT ![p] = capo]
  /\ UNCHANGED <<override, preferred, default, original>>

Pick == picks < MaxPicks /\ picks' = picks + 1

Next == Pick /\ (SetOverride \/ PickKey \/ NoKeyYet \/ WrittenIn \/ SetCapo)

Spec == Init /\ [][Next]_vars

-----------------------------------------------------------------------------

(***************************************************************************)
(* Whatever the four places say, the band sounds in one key: a chord as it *)
(* is drawn, played over the capo, is the chord as it is written moved from*)
(* the written key to the key on the header, its bass too.  (render.rs,    *)
(* business rules 10, 11.)                                                 *)
(***************************************************************************)
ChordsSoundRight ==
  \A note \in Notes :
    LET drawn == CHOOSE s \in Render({note}, Levels, Capo) : TRUE
    IN (PitchClass(drawn.note) + Capo - PitchClass(note)) % 12
         = (PitchClass(Target.tonic) - PitchClass(Written.tonic)) % 12

(***************************************************************************)
(* And it is spelled as its key spells it: with the key's own note where   *)
(* there is one; altered once at most where there is none, and to the side *)
(* of the signature; plain names are marked (rules 8, 14).                 *)
(***************************************************************************)
ChordsAreSpelled ==
  LET shape == ShapeKeyOf(Target, Capo)
      drawn == UNION {Render({note}, Levels, Capo) : note \in Notes}
      sharp == IsSharp(shape)
  IN /\ Scale[shape] \subseteq {s.note : s \in drawn}
     /\ Cardinality(drawn) = 12
     /\ \A s \in {q \in drawn : q.note \notin Scale[shape]} :
          /\ Size(s.note.alter) <= 1
          /\ ~s.respelled => \E n \in Scale[shape] :
               n.letter = s.note.letter /\ (sharp <=> n.alter < s.note.alter)

(***************************************************************************)
(* Every key a list offers can be read: the twelve are twelve, and none of *)
(* them alters a note of its own twice.                                    *)
(***************************************************************************)
OfferedKeysAreSimple ==
  LET offered == Choices(Written)
  IN /\ {PitchClass(key.tonic) : key \in offered} = 0..11 /\ Cardinality(offered) = 12
     /\ \A key \in offered : \A note \in Scale[key] : Size(note.alter) <= 1
=============================================================================
