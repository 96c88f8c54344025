-------------------------------- MODULE Slides --------------------------------
(***************************************************************************)
(* A set becomes slides as a session starts: each chart is cut into its    *)
(* sections, a section that is only named is a repeat of an earlier one,   *)
(* and long sections are split (crates/core/src/present/slides.rs,         *)
(* chart/chordpro.rs); the control surface lists the slides by item        *)
(* (crates/web/src/present/control.rs).                                    *)
(*                                                                         *)
(* A line of text is what it does to the slides, and its number; chords,   *)
(* and the sheet of an item, which no snapshot carries, are left out.      *)
(***************************************************************************)
EXTENDS Naturals, SequencesExt, FiniteSetsExt

CONSTANTS
  MaxItems, MaxLines,  \* bounds: items of the set, lines of their texts together
  Themes               \* the themes tried: [font, safe], tenths of a vh and percent

VARIABLES
  items,   \* of the set: [type, text]
  look,   \* of the session
  slides   \* of the session, <<>> before it starts

slideVars == <<items, look, slides>>

Untitled == "none"   \* `SectionKind::None`

(* The lines of a chart: a directive that opens a section or ends one, one *)
(* that says something else, as `#` does, a lyric, also one that ends a    *)
(* sentence, a comment (to the slides a lyric), or nothing.                *)
Open(kind, label) == [is |-> "open", kind |-> kind, label |-> label]
Plain(what) == [is |-> what, kind |-> Untitled, label |-> ""]
Tokens ==
  {Open("chorus", ""), Open("chorus", "2")}
    \cup {Plain(what) : what \in {"end", "aside", "lyric", "sentence", "blank"}}

Section(kind, label) == [kind |-> kind, label |-> label, lines |-> <<>>]

Flush(sections, current) ==
  IF current.lines # <<>> \/ current.kind # Untitled THEN Append(sections, current) ELSE sections

Parse(text) ==
  LET Read(chart, at) ==
        LET line == text[at] IN
        CASE line.is = "open" ->
               [sections |-> Flush(chart.sections, chart.current),
                current |-> Section(line.kind, line.label)]
          [] line.is = "end" ->
               [sections |-> Flush(chart.sections, chart.current),
                current |-> Section(Untitled, "")]
          [] line.is = "aside" -> chart
          [] OTHER -> [chart EXCEPT !.current.lines = Append(@, [at |-> at, is |-> line.is])]
      read == FoldLeftDomain(Read, [sections |-> <<>>, current |-> Section(Untitled, "")], text)
  IN Flush(read.sections, read.current)

IsBlank(line) == line.is = "blank"
Written(section) == SelectSeq(section.lines, LAMBDA line : ~IsBlank(line))

(* A section that is only named has the lines of the last of its name that *)
(* was written, else of the last of its kind without a label.              *)
ExpandRepeats(sections) ==
  [n \in DOMAIN sections |->
     LET Seen(label) ==
           {m \in 1..(n - 1) : sections[m].kind = sections[n].kind /\ sections[m].label = label
                               /\ Written(sections[m]) # <<>>}
         earlier == IF Seen(sections[n].label) # {} THEN Seen(sections[n].label) ELSE Seen("")
     IN IF Written(sections[n]) # <<>> \/ earlier = {} THEN sections[n]
        ELSE [sections[n] EXCEPT !.lines = sections[Max(earlier)].lines]]

(* The lines that fit: 1.35 of a line's height each, two at the least.     *)
LinesPerSlide(t) == Max({2, ((100 - 2 * t.safe) * 1000) \div (t.font * 135)})

EndsSentence(line) == line.is = "sentence"

\* mutant: the index of the line for the number of lines
CutAtIndex(lines, perSlide) ==
  LET ends == {n \in ((perSlide + 1) \div 2 + 1)..perSlide : EndsSentence(lines[n])}
  IN IF ends = {} THEN perSlide ELSE Max(ends) - 1

(* A full slide ends with the last sentence that ends in its second half.  *)
CutAt(lines, perSlide) ==
  LET ends == {n \in ((perSlide + 1) \div 2 + 1)..perSlide : EndsSentence(lines[n])}
  IN IF ends = {} THEN perSlide ELSE Max(ends)

RECURSIVE SplitLines(_, _)
SplitLines(lines, perSlide) ==
  IF Len(lines) <= perSlide THEN <<lines>>
  ELSE LET cut == CutAt(lines, perSlide)
       IN <<SubSeq(lines, 1, cut)>> \o SplitLines(SubSeq(lines, cut + 1, Len(lines)), perSlide)

(* The text of a reading or a notice: by paragraphs, and by what fits.     *)
RECURSIVE SplitText(_, _)
SplitText(lines, perSlide) ==
  LET blanks == {n \in DOMAIN lines : IsBlank(lines[n])}
      end    == IF blanks = {} THEN Len(lines) ELSE Min(blanks) - 1
      cut    == Min({end, perSlide})
      rest   == SubSeq(lines, (IF cut = 0 THEN 1 ELSE cut) + 1, Len(lines))
  IN CASE lines = <<>> -> <<>>
       [] cut = 0 -> SplitText(rest, perSlide)
       [] OTHER   -> <<SubSeq(lines, 1, cut)>> \o SplitText(rest, perSlide)

Slide(item, section, is, label, lines) ==
  [item |-> item, section |-> section, is |-> is, label |-> label, lines |-> lines]
NoLabel == <<Untitled, "">>

SlidesOfChart(item, text, perSlide) ==
  LET sections == ExpandRepeats(Parse(text))
      Of(n) == LET section == sections[n]
                   Made(lines) == Slide(item, n, "lyrics", <<section.kind, section.label>>, lines)
               IN IF Written(section) = <<>> THEN <<>>
                  ELSE [k \in DOMAIN SplitLines(Written(section), perSlide) |->
                          Made(SplitLines(Written(section), perSlide)[k])]
  IN FlattenSeq([n \in DOMAIN sections |-> Of(n)])

Lines(text) == [n \in DOMAIN text |-> [at |-> n, is |-> text[n].is]]

(* An item with nothing to say is a black slide or its title.              *)
SlidesOfItem(item, perSlide) ==
  LET type  == items[item].type
      text  == items[item].text
      empty == \A n \in DOMAIN text : IsBlank(text[n])
      Text(lines) == Slide(item, 0, "text", NoLabel, lines)
  IN CASE type = "song" /\ ~empty -> SlidesOfChart(item, text, perSlide)
       [] type = "blank" -> <<Slide(item, 0, "blank", NoLabel, <<>>)>>
       [] type = "reading" /\ ~empty ->
            [k \in DOMAIN SplitText(Lines(text), perSlide) |->
               Text(SplitText(Lines(text), perSlide)[k])]
       [] OTHER -> <<Slide(item, 0, "title", NoLabel, <<>>)>>

SlidesOf(t) ==
  FlattenSeq([item \in DOMAIN items |-> SlidesOfItem(item, LinesPerSlide(t))])

(* The running order beside the slides: items, each with the numbers of    *)
(* its slides.                                                             *)
Grouped ==
  LET Add(groups, n) ==
        IF groups # <<>> /\ Last(groups).item = slides[n].item
        THEN [groups EXCEPT ![Len(groups)].slides = Append(@, n)]
        ELSE Append(groups, [item |-> slides[n].item, slides |-> <<n>>])
  IN FoldLeftDomain(Add, <<>>, slides)

-----------------------------------------------------------------------------

SlidesInit == items = <<>> /\ slides = <<>> /\ look = CHOOSE t \in Themes : TRUE

AddItem ==
  /\ Len(items) < MaxItems /\ slides = <<>>
  /\ \E type \in {"song", "reading", "blank"} : items' = Append(items, [type |-> type, text |-> <<>>])
  /\ UNCHANGED <<look, slides>>

Typed == FoldLeft(LAMBDA sum, item : sum + Len(item.text), 0, items)

TypeLine ==
  /\ items # <<>> /\ slides = <<>> /\ Typed < MaxLines
  /\ \E line \in IF Last(items).type = "song" THEN Tokens ELSE {Plain("lyric"), Plain("blank")} :
       items' = [items EXCEPT ![Len(items)].text = Append(@, line)]
  /\ Last(items).type # "blank"
  /\ UNCHANGED <<look, slides>>

Start ==
  /\ slides = <<>> /\ items # <<>>
  /\ look' \in Themes /\ slides' = SlidesOf(look')
  /\ UNCHANGED items

SlidesNext == AddItem \/ TypeLine \/ Start

-----------------------------------------------------------------------------

SlidesFrom(item) == SelectSeq(slides, LAMBDA s : s.item = item)

\* the section a line of a chart is in, its kind and its label
Under(text, at) ==
  LET opens == {n \in 1..(at - 1) : text[n].is \in {"open", "end"}}
  IN IF opens = {} THEN NoLabel ELSE <<text[Max(opens)].kind, text[Max(opens)].label>>

Said(text) == {n \in DOMAIN text : text[n].is \in {"lyric", "sentence"}}

(***************************************************************************)
(* Everything that is sung or said comes up, in the order it is written: a *)
(* line comes up later only where the lines of its section are repeated.   *)
(* (slides.rs, business rules 1 to 4.)                                     *)
(***************************************************************************)
NothingIsSkipped ==
  slides # <<>> =>
    \A item \in DOMAIN items :
      LET told == FlattenSeq([n \in DOMAIN SlidesFrom(item) |-> SlidesFrom(item)[n].lines])
          new  == {n \in DOMAIN told : \A m \in 1..(n - 1) : told[m].at # told[n].at}
      IN items[item].type # "blank" =>
           /\ {told[n].at : n \in new} = Said(items[item].text)
           /\ \A m, n \in new : m < n => told[m].at < told[n].at

(***************************************************************************)
(* A slide can be read, and says what it shows: it has lines, no more than *)
(* fit, all of one section; that is the section it names or, where that is *)
(* named without being written again, the last one before it that has its  *)
(* name, or its kind and no label (slides.rs:226).                         *)
(***************************************************************************)
SlidesSayWhatTheyShow ==
  \A n \in DOMAIN slides :
    LET Of(m)    == items[slides[m].item].text
        From(m)  == {Under(Of(m), slides[m].lines[k].at) : k \in DOMAIN slides[m].lines}
        Together == {m \in DOMAIN slides :
                       <<slides[m].item, slides[m].section>> = <<slides[n].item, slides[n].section>>}
        Before   == {m \in 1..(n - 1) : slides[m].item = slides[n].item} \ Together
        LastOf(M) == Max({0} \cup UNION {{slides[m].lines[k].at : k \in DOMAIN slides[m].lines} : m \in M})
        label    == slides[n].label
    IN slides[n].is = "lyrics" =>
         /\ Len(slides[n].lines) \in 1..LinesPerSlide(look)
         /\ From(n) \in {{label}, {<<label[1], "">>}}
         /\ label \notin From(n) => \A m \in Before : label \notin From(m)
         /\ \A m \in Before : From(m) = From(n) => LastOf({m}) <= LastOf(Together)

(***************************************************************************)
(* A section is cut where a sentence ends if one ends in the second half   *)
(* of the slide, and else only where the slide is full (business rule 2).  *)
(***************************************************************************)
CutsAreAtSentences ==
  \A n \in 1..(Len(slides) - 1) :
    LET lines == slides[n].lines
        next  == slides[n + 1].lines
        full  == LinesPerSlide(look)
    IN slides[n].is = "lyrics" /\ <<slides[n].item, slides[n].section>>
                                    = <<slides[n + 1].item, slides[n + 1].section>> =>
         /\ Len(lines) = full \/ EndsSentence(Last(lines))
         /\ 2 * Len(lines) > full
         /\ \A k \in DOMAIN next : k <= full - Len(lines) => ~EndsSentence(next[k])
         /\ Len(lines) < full \/ EndsSentence(Last(lines))
              \/ \A k \in DOMAIN lines : 2 * k > full + 1 => ~EndsSentence(lines[k])

(***************************************************************************)
(* The running order is the set: every slide once, in order, beneath the   *)
(* item it is from (control.rs:46).                                        *)
(***************************************************************************)
OrderListsTheSet ==
  /\ FlattenSeq([g \in DOMAIN Grouped |-> Grouped[g].slides]) = [n \in DOMAIN slides |-> n]
  /\ \A g \in DOMAIN Grouped : \A k \in DOMAIN Grouped[g].slides :
       slides[Grouped[g].slides[k]].item = Grouped[g].item
  /\ \A g, h \in DOMAIN Grouped : g < h => Grouped[g].item < Grouped[h].item
=============================================================================
