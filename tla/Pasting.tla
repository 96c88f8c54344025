------------------------------- MODULE Pasting -------------------------------
(***************************************************************************)
(* Chords over lyrics become ChordPro as they are pasted or imported, each *)
(* chord bound to the column it stands above, and are drawn over the lyrics*)
(* again (crates/core/src/chart/over_lyrics.rs, chordpro.rs, render.rs).   *)
(*                                                                         *)
(* A text is a sequence of lines without brackets or braces, a line one of *)
(* "c" (a letter of a chord), "x" (one of no chord) and spaces, or a       *)
(* heading that the parser knows.                                          *)
(***************************************************************************)
EXTENDS Naturals, SequencesExt, FiniteSetsExt

CONSTANTS MaxKeys  \* bound: letters, spaces and line ends of a text

VARIABLES
  pasted,  \* the text
  chart    \* what became of it, <<>> before it is pasted

pasteVars == <<pasted, chart>>

Heading == <<"heading">>
Blank(line) == \A n \in DOMAIN line : line[n] = " "

(* The words of a line: first and last column, counted from one.           *)
Words(line) ==
  {w \in (DOMAIN line) \X (DOMAIN line) :
     /\ w[1] <= w[2] /\ \A n \in w[1]..w[2] : line[n] # " "
     /\ w[1] = 1 \/ line[w[1] - 1] = " "
     /\ w[2] = Len(line) \/ line[w[2] + 1] = " "}

IsChordLine(line) == line # Heading /\ ~Blank(line) /\ \A n \in DOMAIN line : line[n] \in {"c", " "}
IsLyric(line)     == line # Heading /\ ~Blank(line) /\ ~IsChordLine(line)

\* `trim` of a line at its end, at its start
TrimEnd(line) == SubSeq(line, 1, Max({0} \cup {n \in DOMAIN line : line[n] # " "}))
TrimStart(line) ==
  LET solid == {n \in DOMAIN line : line[n] # " "}
  IN IF solid = {} THEN <<>> ELSE SubSeq(line, Min(solid), Len(line))

Spaces(n) == [k \in 1..n |-> " "]
PadTo(row, columns) == IF Len(row) < columns THEN row \o Spaces(columns - Len(row)) ELSE row

(* A line of the chart: the lyric, and the chords by the column each is    *)
(* bound to.  (`[Am]` in the text itself: merge puts them in, parse_line   *)
(* takes them out again.)                                                  *)
Merge(lyric, above) ==
  LET bound == {[at |-> w[1], chord |-> SubSeq(above, w[1], w[2])] : w \in Words(above)}
      last  == Max({0} \cup {p.at : p \in bound})
  IN [lyric |-> PadTo(lyric, IF last = 0 THEN 0 ELSE last - 1),
      chords |-> SetToSortSeq(bound, LAMBDA p, q : p.at < q.at)]

Plain(line) == [lyric |-> TrimEnd(line), chords |-> <<>>]

(* A chord line belongs to the lyric after it, if there is one.            *)
Converted(lines) ==
  LET Flushed(s) == IF s.held = <<>> THEN s.out ELSE Append(s.out, Merge(<<>>, s.held))
      Take(s, line) ==
        CASE IsLyric(line) /\ s.held # <<>> ->
               [out |-> Append(s.out, Merge(TrimEnd(line), s.held)), held |-> <<>>]
          [] IsChordLine(line) -> [out |-> Flushed(s), held |-> line]
          [] OTHER -> [out |-> Append(Flushed(s), Plain(line)), held |-> <<>>]
  IN Flushed(FoldLeft(Take, [out |-> <<>>, held |-> <<>>], lines))

Empty(line) == line.lyric = <<>> /\ line.chords = <<>>

(* The text as a whole is trimmed, which moves its first line to the left, *)
(* and two blank lines in a row become one.                                *)
Outdented(line) ==
  LET first == IF line.chords = <<>> THEN Len(line.lyric) + 1 ELSE line.chords[1].at
      shift == Min({first - 1, Len(line.lyric) - Len(TrimStart(line.lyric))})
  IN [lyric |-> SubSeq(line.lyric, shift + 1, Len(line.lyric)),
      chords |-> [n \in DOMAIN line.chords |-> [line.chords[n] EXCEPT !.at = @ - shift]]]

Trimmed(lines) ==
  LET full == {n \in DOMAIN lines : ~Empty(lines[n])}
      kept == IF full = {} THEN <<>> ELSE SubSeq(lines, Min(full), Max(full))
      Keep(out, line) ==
        IF Empty(line) /\ Empty(Last(out)) THEN out ELSE Append(out, line)
  IN IF kept = <<>> THEN <<>> ELSE FoldLeft(Keep, <<Outdented(Head(kept))>>, Tail(kept))

ToChordPro(lines) == Trimmed(Converted(lines))

\* mutant: a chord stands above the lyric as far as it goes
RowsUnpadded(line) ==
  LET Draw(row, p) == row \o p.chord
  IN [chords |-> FoldLeft(Draw, <<>>, line.chords), lyrics |-> line.lyric]

(* Drawn over the lyrics: a chord that would run into the one before it is *)
(* pushed to the right, and the lyric with it.                             *)
Rows(line) ==
  LET Upto(n) == IF n = Len(line.chords) THEN Len(line.lyric) ELSE line.chords[n + 1].at - 1
      Part(n) == SubSeq(line.lyric, IF n = 0 THEN 1 ELSE line.chords[n].at, Upto(n))
      Draw(rows, n) ==
        LET lyrics == IF Len(rows.chords) > Len(rows.lyrics)
                      THEN PadTo(rows.lyrics, Len(rows.chords) + 1) ELSE rows.lyrics
        IN [chords |-> PadTo(rows.chords, Len(lyrics)) \o line.chords[n].chord,
            lyrics |-> lyrics \o Part(n)]
      drawn == FoldLeftDomain(Draw, [chords |-> <<>>, lyrics |-> Part(0)], line.chords)
  IN [chords |-> TrimEnd(drawn.chords), lyrics |-> drawn.lyrics]

-----------------------------------------------------------------------------

PasteInit == pasted = <<<<>>>> /\ chart = <<>>

Keys == FoldLeft(LAMBDA sum, line : sum + 1 + Len(line), 0, pasted)

Type ==
  /\ chart = <<>> /\ Keys < MaxKeys
  /\ \/ \E key \in {"c", "x", " "} :
          /\ Last(pasted) # Heading
          /\ pasted' = [pasted EXCEPT ![Len(pasted)] = Append(@, key)]
     \/ Last(pasted) = <<>> /\ pasted' = [pasted EXCEPT ![Len(pasted)] = Heading]
     \/ pasted' = Append(pasted, <<>>)
  /\ UNCHANGED chart

Paste ==
  /\ chart = <<>> /\ chart' = ToChordPro(pasted)
  /\ UNCHANGED pasted

PasteNext == Type \/ Paste

-----------------------------------------------------------------------------

\* what is on the page before: every lyric with the chords above it
Pair(chords, lyric) == [chords |-> TrimEnd(chords), lyrics |-> TrimEnd(lyric)]
Before(lines) ==
  LET Above(n) == IF n > 1 /\ IsChordLine(lines[n - 1]) THEN lines[n - 1] ELSE <<>>
      Alone(n) == IsChordLine(lines[n]) /\ (n = Len(lines) \/ ~IsLyric(lines[n + 1]))
      Of(n) == IF Alone(n) THEN <<Pair(lines[n], <<>>)>>
               ELSE IF IsLyric(lines[n]) THEN <<Pair(Above(n), lines[n])>>
               ELSE IF lines[n] = Heading THEN <<Pair(<<>>, Heading)>> ELSE <<>>
  IN FlattenSeq([n \in DOMAIN lines |-> Of(n)])

(***************************************************************************)
(* "A converted chart re-rendered over its lyrics must put every chord back*)
(* in the column it was pasted at" (over_lyrics.rs:128), and no line is    *)
(* lost or moved to another.  The first line is as it was but for what     *)
(* stood before all of it, chords and lyric: it is trimmed.                *)
(***************************************************************************)
ColumnsSurvive ==
  chart # <<>> =>
    LET before == Before(pasted)
        Drawn(n) == Pair(Rows(chart[n]).chords, Rows(chart[n]).lyrics)
        after  == SelectSeq([n \in DOMAIN chart |-> Drawn(n)],
                            LAMBDA r : r.chords # <<>> \/ r.lyrics # <<>>)
        Out(row, n) == IF n < Len(row) THEN SubSeq(row, n + 1, Len(row)) ELSE <<>>
    IN /\ Len(after) = Len(before)
       /\ \A n \in 2..Len(after) : after[n] = before[n]
       /\ \E k \in 0..MaxKeys :
            /\ \A n \in 1..k : \A row \in {before[1].chords, before[1].lyrics} :
                 n \in DOMAIN row => row[n] = " "
            /\ after[1] = [chords |-> Out(before[1].chords, k), lyrics |-> Out(before[1].lyrics, k)]
=============================================================================
