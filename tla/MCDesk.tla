-------------------------------- MODULE MCDesk --------------------------------
(***************************************************************************)
(* Around a live session: pairing a device with it, making its slides, the *)
(* image behind them, finding a song, and bringing songs in.  They share   *)
(* nothing, so each is checked on its own; `part` says which.              *)
(***************************************************************************)
EXTENDS Pairing, Backgrounds, Arrivals, Sequences, TLC

CONSTANTS
  d1, d2,
  MaxItems, MaxLines,
  Limit, MaxEdits, MaxTyped,
  MaxKeys

VARIABLES
  part,
  items, look, slides,
  worker, songs, box, timers, asked, index, answers, latest, hits,
  pasted, chart

\* two themes of large letters: three and four lines to a slide
Themes == {[font |-> 160, safe |-> 15], [font |-> 160, safe |-> 5]}

Song(title, alt, artist, tag, lyrics) ==
  [Title |-> title, Alt |-> alt, Artist |-> artist, Tag |-> tag, Lyrics |-> lyrics]
Libraries ==
  {<<>>,
   <<Song(<<"b">>, <<>>, <<>>, <<>>, <<"a", "[", "b">>),
     Song(<<"a", "b">>, <<>>, <<"b">>, <<>>, <<>>)>>,
   <<Song(<<>>, <<"a", "b">>, <<>>, <<>>, <<"a", " ", "b">>),
     Song(<<>>, <<>>, <<"a">>, <<"b", "a">>, <<"#", "b">>),
     Song(<<"a", " ", "b">>, <<>>, <<>>, <<>>, <<"b", "{", "a">>)>>}
Texts == {<<>>, <<"a">>, <<"a", "b">>, <<"a", " ", "b">>}

S == INSTANCE Slides
F == INSTANCE Search
P == INSTANCE Pasting

\* the files all have the same name
OneName == [f \in Files |-> "a"]

slidesOf == <<items, look, slides>>
search   == <<worker, songs, box, timers, asked, index, answers, latest, hits>>
pasting  == <<pasted, chart>>
apart    == <<slidesOf, imageVars, search>>
imports  == <<pasting, arrivalVars>>
all      == <<part, vars, apart, imports>>

DeskInit ==
  /\ part \in {"pairing", "slides", "images", "search", "pasting", "arrivals"}
  /\ Init /\ S!SlidesInit /\ BackgroundsInit /\ F!Init
  /\ P!PasteInit /\ ArrivalsInit
  /\ part # "search" => worker
  /\ part # "arrivals" => \A f \in Files : kind[f] = "odd"

\* the devices are alike: the first to call is d1
InPairing(A) ==
  /\ part = "pairing" /\ A /\ (made' > 0 => joins'[1].dev = d1)
  /\ UNCHANGED <<part, apart, imports>>
InSlides     == part = "slides" /\ S!SlidesNext /\ UNCHANGED <<part, vars, imageVars, search, imports>>
InImages     == part = "images" /\ BackgroundsNext /\ UNCHANGED <<part, vars, slidesOf, search, imports>>
InSearch     == part = "search" /\ F!Next /\ UNCHANGED <<part, vars, slidesOf, imageVars, imports>>
InPasting    == part = "pasting" /\ P!PasteNext /\ UNCHANGED <<part, vars, apart, arrivalVars>>
InArrivals   == part = "arrivals" /\ ArrivalsNext /\ UNCHANGED <<part, vars, apart, pasting>>

DeskNext == InPairing(Next) \/ InSlides \/ InImages \/ InSearch \/ InPasting \/ InArrivals

\* the fairness of Pairing
DeskSpec ==
  /\ DeskInit /\ [][DeskNext]_all
  /\ \A a \in JoinNos : WF_all(InPairing(Wait(a)))

-----------------------------------------------------------------------------

\* The slides have all that is sung, in order, cut where the rules say, and the
\* running order beside them lists the set (slides.rs, business rules 1 to 4).
SlidesTellTheSet ==
  part = "slides" => /\ S!NothingIsSkipped /\ S!SlidesSayWhatTheyShow
                     /\ S!CutsAreAtSentences /\ S!OrderListsTheSet

\* What is listed was searched for, in the songs there were, and is ranked by
\* the field it was found in (core/library/search.rs:34, web/library/search.rs).
SearchAnswersTheBox ==
  part = "search" => F!AnswerKeepsUp /\ F!RanksAsPromised

\* A chord is drawn where it was pasted (over_lyrics.rs:128).
ColumnsSurvive == part = "pasting" => P!ColumnsSurvive

=============================================================================
