-------------------------------- MODULE Search --------------------------------
(***************************************************************************)
(* The search box of the library: an index of words in a worker, built     *)
(* anew when the songs change, asked when the box does, both a quarter of  *)
(* a second later (crates/core/src/library/search.rs,                      *)
(* crates/web/src/library/search.rs, search_worker.rs, page.rs).           *)
(*                                                                         *)
(* A text is a sequence of "a", "b", a space, "[" for a whole chord, "{"   *)
(* for a whole directive, and "#" for a line of its own that opens with    *)
(* one.  Scores are in halves: words have two letters at most.             *)
(***************************************************************************)
EXTENDS Naturals, SequencesExt, FiniteSetsExt

CONSTANTS
  Libraries,  \* what the songs may be: sequences of [Title, Alt, Artist, Tag, Lyrics]
  Texts,      \* what may be in the box
  Limit,      \* answers asked for
  MaxEdits, MaxTyped  \* bounds: changes of the songs, of the box

VARIABLES
  worker,   \* is there one?
  songs,    \* the rows as the page has them, and how often they changed
  box,      \* the text in the box, and how often it changed
  timers,   \* tasks that sleep, in the order in which they wake: all sleep as long
  asked,    \* messages to the worker
  index,    \* the songs it has indexed, as `songs`
  answers,  \* messages from the worker
  latest,   \* `next_query`
  hits      \* what is shown, <<>> while nothing is searched for

vars == <<worker, songs, box, timers, asked, index, answers, latest, hits>>

Letters == {"a", "b"}
Fields  == {"Title", "Alt", "Artist", "Tag", "Lyrics"}
Weight(field) ==
  CASE field = "Title" -> 100 [] field = "Alt" -> 60 [] field = "Artist" -> 40
    [] field = "Tag" -> 30 [] field = "Lyrics" -> 1

(* Chords leave nothing behind, directives a space, a comment line nothing *)
(* but that.  No text here has the same word twice.                        *)
LyricsOf(body) ==
  IF body # <<>> /\ Head(body) = "#" THEN <<" ">>
  ELSE LET plain == SelectSeq(body, LAMBDA c : c # "[")
       IN [n \in DOMAIN plain |-> IF plain[n] = "{" THEN " " ELSE plain[n]]

(* The words of a text: its longest runs of letters.                       *)
Tokenise(text) ==
  {SubSeq(text, span[1], span[2]) : span \in
     {span \in (DOMAIN text) \X (DOMAIN text) :
        /\ span[1] <= span[2]
        /\ \A k \in span[1]..span[2] : text[k] \in Letters
        /\ span[1] = 1 \/ text[span[1] - 1] \notin Letters
        /\ span[2] = Len(text) \/ text[span[2] + 1] \notin Letters}}

WordsOf(song, field) ==
  Tokenise(IF field = "Lyrics" THEN LyricsOf(song[field]) ELSE song[field])

\* mutant: the word is looked for in the query
MatchesSwapped(song, term) ==
  {[score |-> (Weight(m[1]) * 2 * Len(term)) \div Len(m[2]), field |-> m[1]] :
     m \in {found \in Fields \X UNION {WordsOf(song, field) : field \in Fields} :
               found[2] \in WordsOf(song, found[1]) /\ IsPrefix(found[2], term)}}

(* One word of a query: the best word of a song that starts with it, the   *)
(* closer to it in length the better.                                      *)
Matches(song, term) ==
  {[score |-> (Weight(m[1]) * 2 * Len(term)) \div Len(m[2]), field |-> m[1]] :
     m \in {found \in Fields \X UNION {WordsOf(song, field) : field \in Fields} :
               found[2] \in WordsOf(song, found[1]) /\ IsPrefix(term, found[2])}}

Best(song, term) ==
  CHOOSE m \in Matches(song, term) : \A other \in Matches(song, term) : m.score >= other.score

Score(song, terms) ==
  FoldSet(LAMBDA term, sum : sum + Best(song, term).score, 0, terms)

(* All words must be found; the best come first, then the earlier song.    *)
Ranked(library, text) ==
  LET terms == Tokenise(text)
      found == {n \in DOMAIN library : \A t \in terms : Matches(library[n], t) # {}}
      Before(m, n) ==
        LET left == Score(library[m], terms)  right == Score(library[n], terms)
        IN left > right \/ (left = right /\ m < n)
      all == SetToSortSeq(found, Before)
  IN IF terms = {} THEN <<>> ELSE SubSeq(all, 1, Min({Limit, Len(all)}))

-----------------------------------------------------------------------------

IsBlank(text) == \A n \in DOMAIN text : text[n] = " "

Build(library) == [is |-> "build", library |-> library]
Query(text)    == [is |-> "query", text |-> text]

Init ==
  /\ worker \in BOOLEAN
  /\ songs = [rows |-> <<>>, edits |-> 0]
  /\ box = [text |-> <<>>, typed |-> 0, when |-> 0]
  /\ timers = <<Build(songs)>>
  /\ asked = <<>> /\ index = songs /\ answers = <<>> /\ latest = 0 /\ hits = <<>>

(* The first effect of `use_search`.                                       *)
SongsChange ==
  /\ songs.edits < MaxEdits
  /\ \E rows \in Libraries : songs' = [rows |-> rows, edits |-> songs.edits + 1]
  /\ timers' = Append(timers, Build(songs'))
  /\ UNCHANGED <<worker, box, asked, index, answers, latest, hits>>

(* The second: an empty box is not a search.                               *)
Type ==
  /\ box.typed < MaxTyped
  /\ \E text \in Texts :
       /\ text # box.text
       /\ box' = [text |-> text, typed |-> box.typed + 1, when |-> songs.edits]
       /\ IF IsBlank(text) THEN hits' = <<>> /\ UNCHANGED timers
          ELSE timers' = Append(timers, Query(box')) /\ UNCHANGED hits
  /\ UNCHANGED <<worker, songs, asked, index, answers, latest>>

\* what an answer shows, with the box it answers and the songs it knew of
Shown(query, known) == <<[of |-> query, knew |-> known, list |-> Ranked(known.rows, query.text)]>>

(* A task wakes: `rebuild` and `query` of Search, without a worker here.   *)
Wake ==
  /\ timers # <<>> /\ timers' = Tail(timers)
  /\ LET task == Head(timers) IN
     IF task.is = "build"
     THEN /\ IF worker THEN asked' = Append(asked, task) /\ UNCHANGED index
             ELSE index' = task.library /\ UNCHANGED asked
          /\ UNCHANGED <<latest, hits>>
     ELSE /\ latest' = latest + 1
          /\ IF worker
             THEN asked' = Append(asked, [is |-> "query", text |-> task.text, id |-> latest'])
                  /\ UNCHANGED hits
             ELSE hits' = Shown(task.text, index) /\ UNCHANGED asked
          /\ UNCHANGED index
  /\ UNCHANGED <<worker, songs, box, answers>>

(* The worker takes messages as they come.                                 *)
Work ==
  /\ asked # <<>> /\ asked' = Tail(asked)
  /\ LET message == Head(asked) IN
     IF message.is = "build"
     THEN index' = message.library /\ UNCHANGED answers
     ELSE answers' = Append(answers, [id |-> message.id, hits |-> Shown(message.text, index)])
          /\ UNCHANGED index
  /\ UNCHANGED <<worker, songs, box, timers, latest, hits>>

(* An answer to what has been typed past is dropped.                       *)
Answered ==
  /\ answers # <<>> /\ answers' = Tail(answers)
  /\ hits' = IF Head(answers).id = latest THEN Head(answers).hits ELSE hits
  /\ UNCHANGED <<worker, songs, box, timers, asked, index, latest>>

Next == SongsChange \/ Type \/ Wake \/ Work \/ Answered

Spec == Init /\ [][Next]_vars

-----------------------------------------------------------------------------

(***************************************************************************)
(* Once everything has been answered the list is of what is in the box, and*)
(* knows every song that was there when that was typed.  (A song that comes*)
(* later is not in it until the box changes.)                              *)
(***************************************************************************)
AnswersTheBox ==
  (timers = <<>> /\ asked = <<>> /\ answers = <<>>) /\ ~IsBlank(box.text) =>
    hits # <<>> /\ hits[1].of = box /\ hits[1].knew.edits >= box.when

(***************************************************************************)
(* A list is never of something older than what was in the list before it, *)
(* and never of songs that were not yet there when its text was typed.     *)
(* (web/library/search.rs, `query`.)                                       *)
(***************************************************************************)
NeverBack ==
  hits # <<>> =>
    /\ hits[1].knew.edits >= hits[1].of.when
    /\ \A n \in DOMAIN answers :
         answers[n].id = latest => answers[n].hits[1].of.typed >= hits[1].of.typed

(***************************************************************************)
(* The list keeps up with the box, and never falls behind itself.          *)
(***************************************************************************)
AnswerKeepsUp == AnswersTheBox /\ NeverBack

(***************************************************************************)
(* What is found has every word, in one field or another; what has every   *)
(* word is found unless the list is full; and a title wins over any lyrics *)
(* (search.rs:34).                                                         *)
(***************************************************************************)
RanksAsPromised ==
  hits # <<>> =>
    LET rows  == hits[1].knew.rows
        terms == Tokenise(hits[1].of.text)
        list  == hits[1].list
        Has(song, fields, term) ==
          \E field \in fields : \E word \in WordsOf(song, field) : IsPrefix(term, word)
        All(song, fields) == \A term \in terms : Has(song, fields, term)
        shown == {list[n] : n \in DOMAIN list}
    IN /\ \A n \in shown : All(rows[n], Fields)
       /\ \A n \in DOMAIN rows \ shown : All(rows[n], Fields) => Len(list) = Limit
       /\ \A m, n \in DOMAIN rows :
            /\ All(rows[m], {"Title"})
            /\ ~\E term \in terms : Has(rows[n], Fields \ {"Lyrics"}, term)
            => \A k \in DOMAIN list : list[k] = n => \E j \in 1..(k - 1) : list[j] = m
=============================================================================
