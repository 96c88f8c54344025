----------------------------- MODULE DeskProofs -----------------------------
(***************************************************************************)
(* Theorems about the parts around a live session, each for any instance:  *)
(* pairing a device with it (module Pairing), the image behind its slides  *)
(* (Backgrounds), the search box of the library (Search), the files that   *)
(* come to it from outside (Arrivals), and on the music stand what a chart *)
(* is drawn as (Readings), the order of a set (Ranks) and the sheet that is*)
(* shown (Keeping).  The parts share nothing, so each has a section of its *)
(* own.                                                                    *)
(***************************************************************************)
EXTENDS Pairing, Backgrounds, Arrivals, Ranks, Sequences, TLAPS, FiniteSetTheorems

CONSTANTS Libraries, Texts, Limit, MaxEdits, MaxTyped
VARIABLES worker, songs, box, timers, asked, index, answers, latest, hits

F == INSTANCE Search

CONSTANTS Typed, Capos, MaxPicks
VARIABLES override, preferred, default, original, frets, picks

R == INSTANCE Readings

CONSTANTS Songs, SheetIds, Parts, Filings, OriginalKey, LeastPosition, MaxAsked, Room
VARIABLES filed, days, pinnedSet, keyOf, mine, released, onDevice, recent, full, pass, changed

K == INSTANCE Keeping WITH held <- onDevice, asked <- changed

-----------------------------------------------------------------------------
(* Pairing a device: one device to a code                                  *)

Offer == [dev : Devices, code : Nat,
          sock : {"none", "new", "vet", "in", "bye", "over"},
          msg : {"none", "offer", "relayed", "taken", "answered", "lost"},
          got : Nat, host : {"none", "new", "open", "closed"},
          channel : {"none", "connecting", "open", "closed"},
          call : {"none", "running", "ok", "failed"}]
Sockets == {"none", "new", "in", "bye", "over"}

ControlTyped ==
  /\ live \in BOOLEAN /\ codes \in 0..MaxCodes /\ code \in 0..codes
  /\ status \in {"none", "waiting", "connected", "failed"}
RelayTyped ==
  hostSock \in [CodeNos -> Sockets] /\ room \in [CodeNos -> BOOLEAN] /\ guest \in [CodeNos -> Nat]
DeviceTyped ==
  /\ phase \in [Devices -> {"idle", "joining", "joined", "stale"}]
  /\ slide \in [Devices -> BOOLEAN] /\ tired \in [Devices -> BOOLEAN]
  /\ entered \in [Devices -> 0..codes] /\ send \in [Devices -> 0..made]
HistoryTyped ==
  dropped \subseteq Devices /\ displaced \subseteq Devices /\ faults \in 0..MaxFaults

PairTyped ==
  /\ ControlTyped /\ RelayTyped /\ DeviceTyped /\ HistoryTyped
  /\ joins \in [JoinNos -> Offer] /\ made \in 0..MaxJoins

\* A call is for a code that was shown, and one that was not made is blank.
CallsMade ==
  \A a \in JoinNos :
    IF a <= made THEN joins[a].code \in 1..codes /\ joins[a].call # "none" ELSE joins[a] = NoJoin

\* A device whose channel may still close has the code it joined with.
CodesEntered ==
  /\ \A a \in JoinNos : joins[a].channel \in {"connecting", "open"} => entered[joins[a].dev] # 0
  /\ \A d \in Devices : phase[d] = "stale" => entered[d] # 0

\* A room is opened once, by the host of its code, and has at most one guest.
RoomsHold ==
  \A c \in CodeNos :
    /\ room[c] => hostSock[c] \notin {"none", "new"}
    /\ c > codes => hostSock[c] = "none"
    /\ guest[c] # 0 => /\ room[c] /\ guest[c] \in 1..made
                       /\ joins[guest[c]].code = c /\ joins[guest[c]].sock \in {"in", "bye"}

\* The relay let this call into its room, and may still send something of it.
LetIn(a) ==
  joins[a].sock = "in" \/ joins[a].msg \in {"relayed", "taken", "answered"} \/ joins[a].host # "none"

\* Whoever was let in is the guest for as long as there is the room, and the
\* only one there will have been.
OneIsLetIn ==
  \A a \in JoinNos : LetIn(a) =>
    /\ joins[a].code \in CodeNos => /\ hostSock[joins[a].code] \notin {"none", "new"}
                                    /\ room[joins[a].code] => guest[joins[a].code] = a
    /\ \A b \in JoinNos : LetIn(b) /\ joins[b].code = joins[a].code => b = a

\* The answer a call got is its own, and a channel that the control closed is known.
AnswersAreOwn ==
  \A a \in JoinNos :
    /\ joins[a].got \in {0, a}
    /\ joins[a].channel = "open" /\ joins[a].host = "closed" => joins[a].dev \in displaced

PairInv ==
  PairTyped /\ CallsMade /\ CodesEntered /\ RoomsHold /\ OneIsLetIn /\ AnswersAreOwn /\ JoinedStayJoined

LEMMA NoneIsAnOffer ==
  /\ NoJoin \in Offer /\ NoJoin.got = 0 /\ NoJoin.host = "none" /\ NoJoin.channel = "none"
  /\ NoJoin.sock = "none" /\ NoJoin.msg = "none" /\ NoJoin.call = "none" /\ NoJoin.dev \in Devices
<1>1. (CHOOSE d \in Devices : TRUE) \in Devices
  BY PairingAssumption
<1> QED BY <1>1 DEF NoJoin, Offer

LEMMA Numbers ==
  /\ MaxCodes \in Nat /\ MaxJoins \in Nat /\ MaxFaults \in Nat
  /\ \A c \in CodeNos : c \in Nat /\ c # 0 /\ c <= MaxCodes
  /\ \A a \in JoinNos : a \in Nat /\ a # 0 /\ a <= MaxJoins
  /\ \A n \in Nat : n # 0 /\ n <= MaxCodes => n \in CodeNos
  /\ \A n \in Nat : n # 0 /\ n <= MaxJoins => n \in JoinNos
  BY PairingAssumption DEF CodeNos, JoinNos

LEMMA PairInit == Init => PairInv
<1> SUFFICES ASSUME Init PROVE PairInv
  OBVIOUS
<1>1. PairTyped
  BY NoneIsAnOffer, Numbers DEF Init, PairTyped, ControlTyped, RelayTyped, DeviceTyped, HistoryTyped, Sockets
<1>2. CallsMade /\ CodesEntered /\ JoinedStayJoined
  BY NoneIsAnOffer, Numbers DEF Init, CallsMade, CodesEntered, JoinedStayJoined
<1>3. RoomsHold /\ AnswersAreOwn
  BY NoneIsAnOffer, Numbers DEF Init, RoomsHold, AnswersAreOwn
<1>4. \A a \in JoinNos : ~LetIn(a)
  BY NoneIsAnOffer DEF Init, LetIn
<1>5. OneIsLetIn
  BY <1>4 DEF OneIsLetIn
<1> QED BY <1>1, <1>2, <1>3, <1>5 DEF PairInv

\* A call that does something was made, for a code.
LEMMA CallFacts ==
  ASSUME PairInv, NEW a \in JoinNos, joins[a] # NoJoin
  PROVE  /\ joins[a] \in Offer /\ a \in 1..made /\ joins[a].code \in CodeNos
         /\ joins[a].code <= codes /\ joins[a].call # "none" /\ joins[a].dev \in Devices
  BY Numbers DEF PairInv, PairTyped, ControlTyped, RelayTyped, DeviceTyped, HistoryTyped, CallsMade, Offer

LEMMA CallChanges ==
  ASSUME PairInv, NEW a \in JoinNos, joins[a] # NoJoin, NEW r \in Offer,
         r.dev = joins[a].dev, r.code = joins[a].code, r.call # "none",
         joins' = [joins EXCEPT ![a] = r], UNCHANGED <<codes, made>>
  PROVE  /\ joins' \in [JoinNos -> Offer] /\ CallsMade' /\ joins'[a] = r
         /\ \A b \in JoinNos \ {a} : joins'[b] = joins[b]
<1>1. joins' \in [JoinNos -> Offer] /\ joins'[a] = r /\ \A b \in JoinNos \ {a} : joins'[b] = joins[b]
  BY DEF PairInv, PairTyped, ControlTyped, RelayTyped, DeviceTyped, HistoryTyped
<1>2. a <= made /\ a \in Nat
  BY CallFacts, Numbers
<1>3. CallsMade'
  BY <1>1, <1>2 DEF PairInv, CallsMade
<1> QED BY <1>1, <1>3

\* Nobody is let in, and what the relay knows of rooms is as it was.
LEMMA NobodyIsLetIn ==
  ASSUME PairInv, CallsMade', UNCHANGED <<room, guest>>, codes' \in Nat, codes <= codes',
         made' \in Nat, made <= made', hostSock' \in [CodeNos -> Sockets],
         \A c \in CodeNos : /\ hostSock[c] \notin {"none", "new"} => hostSock'[c] \notin {"none", "new"}
                            /\ c > codes' => hostSock'[c] = "none",
         \A b \in JoinNos : /\ LetIn(b)' => LetIn(b) /\ joins'[b].code = joins[b].code
                            /\ joins[b].sock \in {"in", "bye"} /\ b <= made =>
                                 joins'[b].sock \in {"in", "bye"} /\ joins'[b].code = joins[b].code
  PROVE  RoomsHold' /\ OneIsLetIn'
<1>1. RoomsHold'
  <2>1. ASSUME NEW c \in CodeNos, guest[c] # 0
        PROVE  /\ room[c] /\ guest[c] \in 1..made'
               /\ joins'[guest[c]].code = c /\ joins'[guest[c]].sock \in {"in", "bye"}
    <3>1. /\ room[c] /\ guest[c] \in 1..made /\ made \in 0..MaxJoins
          /\ joins[guest[c]].code = c /\ joins[guest[c]].sock \in {"in", "bye"}
      BY <2>1 DEF PairInv, PairTyped, ControlTyped, RelayTyped, DeviceTyped, HistoryTyped, RoomsHold
    <3>2. guest[c] \in JoinNos
      BY <3>1, Numbers
    <3> QED BY <3>1, <3>2
  <2>2. ASSUME NEW c \in CodeNos, room[c]
        PROVE  hostSock'[c] \notin {"none", "new"}
    BY <2>2 DEF PairInv, RoomsHold
  <2> QED BY <2>1, <2>2 DEF RoomsHold
<1>2. OneIsLetIn'
  <2>1. ASSUME NEW a \in JoinNos, LetIn(a)'
        PROVE  /\ joins'[a].code \in CodeNos =>
                    /\ hostSock'[joins'[a].code] \notin {"none", "new"}
                    /\ room[joins'[a].code] => guest[joins'[a].code] = a
               /\ \A b \in JoinNos : LetIn(b)' /\ joins'[b].code = joins'[a].code => b = a
    BY <2>1 DEF PairInv, OneIsLetIn
  <2> QED BY <2>1 DEF OneIsLetIn
<1> QED BY <1>1, <1>2

\* `PairingHost::close` touches the connections of one code, and nothing else of them.
LEMMA Closes ==
  ASSUME PairInv, CloseHost
  PROVE  /\ joins' \in [JoinNos -> Offer]
         /\ displaced \subseteq displaced' /\ displaced' \subseteq Devices
         /\ \A a \in JoinNos :
              /\ joins'[a].dev = joins[a].dev /\ joins'[a].code = joins[a].code
              /\ joins'[a].sock = joins[a].sock /\ joins'[a].msg = joins[a].msg
              /\ joins'[a].got = joins[a].got /\ joins'[a].channel = joins[a].channel
              /\ joins'[a].call = joins[a].call
              /\ joins'[a].host = "none" <=> joins[a].host = "none"
              /\ joins[a].host = "none" => joins'[a] = joins[a]
              /\ joins'[a].host = "closed" /\ joins'[a].channel = "open" => joins'[a].dev \in displaced'
<1>0. /\ joins \in [JoinNos -> Offer] /\ displaced \subseteq Devices
      /\ \A a \in JoinNos : joins[a].channel = "open" /\ joins[a].host = "closed" => joins[a].dev \in displaced
  BY DEF PairInv, PairTyped, ControlTyped, RelayTyped, DeviceTyped, HistoryTyped, AnswersAreOwn
<1>1. CASE code = 0
  <2>1. joins' = joins /\ displaced' = displaced
    BY <1>1 DEF CloseHost
  <2> QED BY <1>0, <2>1
<1>2. CASE code # 0
  <2>1. /\ joins' = [a \in JoinNos |-> IF joins[a].code = code /\ joins[a].host # "none"
                                       THEN [joins[a] EXCEPT !.host = "closed"] ELSE joins[a]]
        /\ displaced' = displaced \cup {joins[a].dev : a \in Connected(code)}
    BY <1>2 DEF CloseHost, Unhosted
  <2>2. ASSUME NEW a \in JoinNos
        PROVE  /\ joins'[a] \in Offer
               /\ joins'[a] = joins[a] \/ (joins'[a] = [joins[a] EXCEPT !.host = "closed"]
                                           /\ joins[a].code = code /\ joins[a].host # "none")
    BY <1>0, <2>1 DEF Offer
  <2>3. displaced \subseteq displaced' /\ displaced' \subseteq Devices
    BY <1>0, <2>1 DEF Connected, Offer
  <2>4. ASSUME NEW a \in JoinNos
        PROVE  /\ joins'[a].dev = joins[a].dev /\ joins'[a].code = joins[a].code
               /\ joins'[a].sock = joins[a].sock /\ joins'[a].msg = joins[a].msg
               /\ joins'[a].got = joins[a].got /\ joins'[a].channel = joins[a].channel
               /\ joins'[a].call = joins[a].call
               /\ joins'[a].host = "none" <=> joins[a].host = "none"
               /\ joins[a].host = "none" => joins'[a] = joins[a]
               /\ joins'[a].host = "closed" /\ joins'[a].channel = "open" => joins'[a].dev \in displaced'
    <3>1. CASE joins'[a] = joins[a]
      <4>1. joins[a].host = "closed" /\ joins[a].channel = "open" => joins[a].dev \in displaced
        BY <1>0
      <4> QED BY <3>1, <4>1, <2>3
    <3>2. CASE /\ joins'[a] = [joins[a] EXCEPT !.host = "closed"]
               /\ joins[a].code = code /\ joins[a].host # "none"
      <4>1. joins[a] \in Offer
        BY <1>0
      <4>2. joins[a].channel = "open" => joins[a].dev \in displaced'
        BY <2>1, <3>2 DEF Connected
      <4> QED BY <3>2, <4>1, <4>2 DEF Offer
    <3> QED BY <2>2, <3>1, <3>2
  <2>5. joins' \in [JoinNos -> Offer]
    BY <2>1, <2>2
  <2> QED BY <2>3, <2>4, <2>5
<1> QED BY <1>1, <1>2

LEMMA GoesFacts ==
  ASSUME NEW s \in Sockets
  PROVE  /\ Goes(s) \in Sockets /\ (s \notin {"none", "new"} => Goes(s) \notin {"none", "new"})
         /\ (s = "none" => Goes(s) = "none")
  BY DEF Goes, Sockets

LEMMA StartPairingKeeps == ASSUME PairInv, StartPairing PROVE PairInv'
<1>1. /\ live /\ codes < MaxCodes /\ CloseHost
      /\ codes' = codes + 1 /\ code' = codes + 1 /\ status' = "waiting"
      /\ hostSock' = [c \in CodeNos |-> IF c = codes + 1 THEN "new" ELSE Goes(hostSock[c])]
      /\ UNCHANGED <<live, room, guest, made, device, dropped, faults>>
  BY DEF StartPairing
<1>2. /\ codes \in Nat /\ codes' \in 0..MaxCodes /\ code' \in 0..codes' /\ status' = "waiting"
      /\ made \in 0..MaxJoins /\ hostSock \in [CodeNos -> Sockets]
  BY <1>1, Numbers DEF PairInv, PairTyped, ControlTyped, RelayTyped, DeviceTyped, HistoryTyped
<1>3. hostSock' \in [CodeNos -> Sockets]
  BY <1>1, <1>2, GoesFacts DEF Sockets
<1>4. PairTyped'
  <2>1. DeviceTyped' /\ ControlTyped' /\ RelayTyped' /\ HistoryTyped'
    BY <1>1, <1>2, <1>3, Closes DEF PairInv, PairTyped, ControlTyped, RelayTyped, DeviceTyped, HistoryTyped, device
  <2> QED BY <1>1, <2>1, Closes DEF PairInv, PairTyped
<1>5. CallsMade'
  BY <1>1, <1>2, Closes, NoneIsAnOffer DEF PairInv, CallsMade
<1>6. RoomsHold' /\ OneIsLetIn'
  <2>1. ASSUME NEW c \in CodeNos
        PROVE  /\ c <= codes /\ hostSock[c] \notin {"none", "new"} => hostSock'[c] \notin {"none", "new"}
               /\ c > codes => hostSock[c] = "none" /\ ~room[c]
               /\ c > codes' => hostSock'[c] = "none"
    BY <1>1, <1>2, GoesFacts, Numbers DEF PairInv, RoomsHold
  <2>2. \A c \in CodeNos : hostSock[c] \notin {"none", "new"} => c <= codes
    BY <2>1, Numbers, <1>2
  <2>3. \A b \in JoinNos : /\ LetIn(b)' <=> LetIn(b)
                           /\ joins'[b].code = joins[b].code /\ joins'[b].sock = joins[b].sock
    BY <1>1, Closes DEF LetIn
  <2> QED BY <1>1, <1>2, <1>3, <1>5, <2>1, <2>2, <2>3, NobodyIsLetIn
<1>7. CodesEntered' /\ AnswersAreOwn' /\ JoinedStayJoined'
  BY <1>1, Closes DEF PairInv, CodesEntered, AnswersAreOwn, JoinedStayJoined, device
<1> QED BY <1>4, <1>5, <1>6, <1>7 DEF PairInv

LEMMA CodeExpiresKeeps == ASSUME PairInv, CodeExpires PROVE PairInv'
<1>1. /\ live /\ code # 0 /\ CloseHost /\ code' = 0 /\ status' = "none"
      /\ hostSock' = [hostSock EXCEPT ![code] = Goes(hostSock[code])]
      /\ UNCHANGED <<live, codes, room, guest, made, device, dropped, faults>>
  BY DEF CodeExpires
<1>2. code \in CodeNos /\ codes \in Nat /\ made \in Nat /\ hostSock \in [CodeNos -> Sockets]
  BY <1>1, Numbers DEF PairInv, PairTyped, ControlTyped, RelayTyped, DeviceTyped, HistoryTyped
<1>3. hostSock' \in [CodeNos -> Sockets]
  BY <1>1, <1>2, GoesFacts
<1>4. PairTyped'
  <2>1. DeviceTyped' /\ ControlTyped' /\ RelayTyped' /\ HistoryTyped'
    BY <1>1, <1>2, <1>3, Closes DEF PairInv, PairTyped, ControlTyped, RelayTyped, DeviceTyped, HistoryTyped, device
  <2> QED BY <1>1, <2>1, Closes DEF PairInv, PairTyped
<1>5. CallsMade'
  BY <1>1, <1>2, Closes, NoneIsAnOffer DEF PairInv, CallsMade
<1>6. RoomsHold' /\ OneIsLetIn'
  <2>1. ASSUME NEW c \in CodeNos
        PROVE  /\ hostSock[c] \notin {"none", "new"} => hostSock'[c] \notin {"none", "new"}
               /\ hostSock[c] = "none" => hostSock'[c] = "none"
    BY <1>1, <1>2, GoesFacts
  <2>2. \A c \in CodeNos : c > codes' => hostSock'[c] = "none"
    BY <1>1, <2>1 DEF PairInv, RoomsHold
  <2>3. \A b \in JoinNos : /\ LetIn(b)' <=> LetIn(b)
                           /\ joins'[b].code = joins[b].code /\ joins'[b].sock = joins[b].sock
    BY <1>1, Closes DEF LetIn
  <2> QED BY <1>1, <1>2, <1>3, <1>5, <2>1, <2>2, <2>3, NobodyIsLetIn
<1>7. CodesEntered' /\ AnswersAreOwn' /\ JoinedStayJoined'
  BY <1>1, Closes DEF PairInv, CodesEntered, AnswersAreOwn, JoinedStayJoined, device
<1> QED BY <1>4, <1>5, <1>6, <1>7 DEF PairInv

LEMMA EndSessionKeeps == ASSUME PairInv, EndSession PROVE PairInv'
<1>1. /\ faults < MaxFaults /\ faults' = faults + 1 /\ live' = FALSE /\ CloseHost
      /\ hostSock' = [c \in CodeNos |-> Goes(hostSock[c])]
      /\ UNCHANGED <<code, codes, status, room, guest, made, entered, send, tired, dropped>>
  BY DEF EndSession, Fault
<1>2. PICK heard : /\ phase' = [d \in Devices |-> IF d \in heard THEN "idle" ELSE phase[d]]
                   /\ slide' = [d \in Devices |-> slide[d] /\ d \notin heard]
  BY DEF EndSession
<1>3. codes \in Nat /\ made \in Nat /\ hostSock \in [CodeNos -> Sockets]
  BY DEF PairInv, PairTyped, ControlTyped, RelayTyped, DeviceTyped, HistoryTyped
<1>4. hostSock' \in [CodeNos -> Sockets]
  BY <1>1, <1>3, GoesFacts
<1>5. PairTyped'
  <2>1. DeviceTyped'
    BY <1>1, <1>2 DEF PairInv, PairTyped, ControlTyped, RelayTyped, DeviceTyped, HistoryTyped
  <2>2. ControlTyped' /\ RelayTyped'
    BY <1>1, <1>4 DEF PairInv, PairTyped, ControlTyped, RelayTyped
  <2>3. HistoryTyped'
    BY <1>1, Closes, Numbers DEF PairInv, PairTyped, HistoryTyped
  <2> QED BY <1>1, <2>1, <2>2, <2>3, Closes DEF PairInv, PairTyped
<1>6. CallsMade'
  BY <1>1, <1>3, Closes, NoneIsAnOffer DEF PairInv, CallsMade
<1>7. RoomsHold' /\ OneIsLetIn'
  <2>1. ASSUME NEW c \in CodeNos
        PROVE  /\ hostSock[c] \notin {"none", "new"} => hostSock'[c] \notin {"none", "new"}
               /\ hostSock[c] = "none" => hostSock'[c] = "none"
    BY <1>1, <1>3, GoesFacts
  <2>2. \A c \in CodeNos : c > codes' => hostSock'[c] = "none"
    BY <1>1, <2>1 DEF PairInv, RoomsHold
  <2>3. \A b \in JoinNos : /\ LetIn(b)' <=> LetIn(b)
                           /\ joins'[b].code = joins[b].code /\ joins'[b].sock = joins[b].sock
    BY <1>1, Closes DEF LetIn
  <2> QED BY <1>1, <1>3, <1>4, <1>6, <2>1, <2>2, <2>3, NobodyIsLetIn
<1>8. CodesEntered' /\ AnswersAreOwn' /\ JoinedStayJoined'
  <2>1. \A d \in Devices : phase'[d] = "stale" => phase[d] = "stale"
    BY <1>2
  <2> QED BY <1>1, <2>1, Closes DEF PairInv, CodesEntered, AnswersAreOwn, JoinedStayJoined
<1> QED BY <1>5, <1>6, <1>7, <1>8 DEF PairInv

\* A step that does nothing at the relay but end sockets of the control.
LEMMA HostSocketFailsKeeps == ASSUME PairInv, HostSocketFails PROVE PairInv'
<1>1. /\ faults < MaxFaults /\ faults' = faults + 1 /\ status' = "failed"
      /\ UNCHANGED <<live, code, codes, room, guest, joins, made, device, dropped, displaced>>
  BY DEF HostSocketFails, Fault
<1>2. PICK c \in CodeNos : hostSock[c] \in {"new", "in"} /\ hostSock' = [hostSock EXCEPT ![c] = "bye"]
  BY DEF HostSocketFails
<1>3. hostSock' \in [CodeNos -> Sockets]
  BY <1>2 DEF PairInv, PairTyped, ControlTyped, RelayTyped, DeviceTyped, HistoryTyped, Sockets
<1>4. PairTyped' /\ codes \in Nat /\ made \in Nat
  BY <1>1, <1>3, Numbers DEF PairInv, PairTyped, ControlTyped, RelayTyped, DeviceTyped, HistoryTyped, device
<1>5. CallsMade' /\ CodesEntered' /\ AnswersAreOwn' /\ JoinedStayJoined'
  BY <1>1 DEF PairInv, CallsMade, CodesEntered, AnswersAreOwn, JoinedStayJoined, device
<1>6. RoomsHold' /\ OneIsLetIn'
  <2>1. \A d \in CodeNos :
          /\ hostSock[d] \notin {"none", "new"} => hostSock'[d] \notin {"none", "new"}
          /\ d > codes => hostSock'[d] = "none"
    BY <1>2 DEF PairInv, PairTyped, ControlTyped, RelayTyped, DeviceTyped, HistoryTyped, RoomsHold
  <2>2. \A b \in JoinNos : LetIn(b)' <=> LetIn(b)
    BY <1>1 DEF LetIn
  <2> QED BY <1>1, <1>3, <1>4, <1>5, <2>1, <2>2, NobodyIsLetIn
<1> QED BY <1>4, <1>5, <1>6 DEF PairInv

LEMMA HostArrivesKeeps == ASSUME PairInv, NEW c \in CodeNos, HostArrives(c) PROVE PairInv'
<1>1. /\ hostSock[c] = "new" /\ hostSock' = [hostSock EXCEPT ![c] = "in"]
      /\ room' = [room EXCEPT ![c] = TRUE]
      /\ UNCHANGED <<live, code, codes, status, guest, joins, made, device, dropped, displaced, faults>>
  BY DEF HostArrives, control, history
<1>2. hostSock' \in [CodeNos -> Sockets] /\ room' \in [CodeNos -> BOOLEAN]
  BY <1>1 DEF PairInv, PairTyped, ControlTyped, RelayTyped, DeviceTyped, HistoryTyped, Sockets
<1>3. PairTyped'
  BY <1>1, <1>2 DEF PairInv, PairTyped, ControlTyped, RelayTyped, DeviceTyped, HistoryTyped, device
<1>4. CallsMade' /\ CodesEntered' /\ AnswersAreOwn' /\ JoinedStayJoined'
  BY <1>1 DEF PairInv, CallsMade, CodesEntered, AnswersAreOwn, JoinedStayJoined, device
<1>5. /\ hostSock'[c] = "in" /\ room'[c]
      /\ \A e \in CodeNos \ {c} : hostSock'[e] = hostSock[e] /\ room'[e] = room[e]
  BY <1>1 DEF PairInv, PairTyped, ControlTyped, RelayTyped, DeviceTyped, HistoryTyped
<1>6. RoomsHold'
  BY <1>1, <1>5 DEF PairInv, RoomsHold
<1>7. OneIsLetIn'
  <2>1. \A b \in JoinNos : LetIn(b)' <=> LetIn(b)
    BY <1>1 DEF LetIn
  <2>2. \A b \in JoinNos : LetIn(b) => joins[b].code # c
    BY <1>1 DEF PairInv, OneIsLetIn
  <2> QED BY <1>1, <1>5, <2>1, <2>2 DEF PairInv, OneIsLetIn
<1> QED BY <1>3, <1>4, <1>6, <1>7 DEF PairInv

\* Whoever is the guest of a room goes, and the room with them.
LEMMA RoomGoes ==
  ASSUME PairInv, NEW c \in CodeNos, UNCHANGED <<control, made>>,
         room' = [room EXCEPT ![c] = FALSE], guest' = [guest EXCEPT ![c] = 0],
         hostSock' \in [CodeNos -> Sockets],
         hostSock'[c] = hostSock[c] \/ (hostSock'[c] = "over" /\ hostSock[c] \notin {"none", "new"}),
         \A e \in CodeNos \ {c} : hostSock'[e] = hostSock[e],
         joins' \in [JoinNos -> Offer],
         \A a \in JoinNos : \/ joins'[a] = joins[a]
                            \/ joins[a].code = c /\ joins[a] # NoJoin
                               /\ joins'[a] = [joins[a] EXCEPT !.sock = "over"],
         UNCHANGED <<device, history>>
  PROVE  PairInv'
<1>1. /\ ~room'[c] /\ guest'[c] = 0 /\ room' \in [CodeNos -> BOOLEAN] /\ guest' \in [CodeNos -> Nat]
      /\ \A e \in CodeNos \ {c} : room'[e] = room[e] /\ guest'[e] = guest[e]
  BY DEF PairInv, PairTyped, ControlTyped, RelayTyped, DeviceTyped, HistoryTyped
<1>2. PairTyped'
  BY <1>1 DEF PairInv, PairTyped, ControlTyped, RelayTyped, DeviceTyped, HistoryTyped, device, control, history
<1>3. \A a \in JoinNos :
        /\ joins'[a].dev = joins[a].dev /\ joins'[a].code = joins[a].code /\ joins'[a].msg = joins[a].msg
        /\ joins'[a].got = joins[a].got /\ joins'[a].host = joins[a].host
        /\ joins'[a].channel = joins[a].channel /\ joins'[a].call = joins[a].call
        /\ joins'[a].sock = joins[a].sock \/ (joins'[a].sock = "over" /\ joins[a].code = c)
  BY DEF PairInv, PairTyped, ControlTyped, RelayTyped, DeviceTyped, HistoryTyped, Offer
<1>4. CallsMade'
  <2>1. \A a \in JoinNos : a > made => joins'[a] = joins[a]
    BY Numbers DEF PairInv, PairTyped, ControlTyped, RelayTyped, DeviceTyped, HistoryTyped, CallsMade
  <2> QED BY <1>3, <2>1, Numbers DEF PairInv, PairTyped, ControlTyped, RelayTyped, DeviceTyped, HistoryTyped, CallsMade, control
<1>5. CodesEntered' /\ AnswersAreOwn' /\ JoinedStayJoined'
  BY <1>3 DEF PairInv, CodesEntered, AnswersAreOwn, JoinedStayJoined, device, history
<1>6. RoomsHold'
  <2>1. ASSUME NEW e \in CodeNos, e # c, guest[e] # 0
        PROVE  /\ room[e] /\ guest[e] \in 1..made
               /\ joins'[guest[e]].code = e /\ joins'[guest[e]].sock \in {"in", "bye"}
    <3>1. /\ room[e] /\ guest[e] \in 1..made /\ made \in 0..MaxJoins
          /\ joins[guest[e]].code = e /\ joins[guest[e]].sock \in {"in", "bye"}
      BY <2>1 DEF PairInv, PairTyped, ControlTyped, RelayTyped, DeviceTyped, HistoryTyped, RoomsHold
    <3>2. guest[e] \in JoinNos
      BY <3>1, Numbers
    <3> QED BY <3>1, <3>2, <1>3, <2>1
  <2>2. ASSUME NEW e \in CodeNos
        PROVE  /\ room'[e] => hostSock'[e] \notin {"none", "new"}
               /\ e > codes => hostSock'[e] = "none"
    BY <1>1 DEF PairInv, RoomsHold
  <2> QED BY <1>1, <2>1, <2>2 DEF RoomsHold, control
<1>7. OneIsLetIn'
  <2>1. \A a \in JoinNos : LetIn(a)' => LetIn(a)
    BY <1>3 DEF LetIn
  <2>2. \A e \in CodeNos : hostSock[e] \notin {"none", "new"} => hostSock'[e] \notin {"none", "new"}
    OBVIOUS
  <2> QED BY <1>1, <1>3, <2>1, <2>2 DEF PairInv, OneIsLetIn
<1> QED BY <1>2, <1>4, <1>5, <1>6, <1>7 DEF PairInv

\* A step of one call that the relay hears nothing of, with what its device and
\* the control make of it.
LEMMA CallGoesOn ==
  ASSUME PairInv, NEW a \in JoinNos, joins[a] # NoJoin, NEW r \in Offer,
         r.dev = joins[a].dev, r.code = joins[a].code, r.call # "none",
         joins' = [joins EXCEPT ![a] = r], UNCHANGED <<room, guest, codes, made>>,
         hostSock' \in [CodeNos -> Sockets],
         \A c \in CodeNos : /\ hostSock[c] \notin {"none", "new"} => hostSock'[c] \notin {"none", "new"}
                            /\ hostSock[c] = "none" => hostSock'[c] = "none",
         r.sock = "in" => joins[a].sock = "in",
         joins[a].sock \in {"in", "bye"} => r.sock \in {"in", "bye"},
         r.msg \in {"relayed", "taken", "answered"} \/ r.host # "none" => LetIn(a)
  PROVE  RoomsHold' /\ OneIsLetIn'
<1>1. /\ joins' \in [JoinNos -> Offer] /\ CallsMade' /\ joins'[a] = r
      /\ \A b \in JoinNos \ {a} : joins'[b] = joins[b]
  BY CallChanges
<1>2. \A b \in JoinNos :
        /\ LetIn(b)' => LetIn(b) /\ joins'[b].code = joins[b].code
        /\ joins[b].sock \in {"in", "bye"} /\ b <= made =>
             joins'[b].sock \in {"in", "bye"} /\ joins'[b].code = joins[b].code
  BY <1>1 DEF LetIn
<1>3. codes \in Nat /\ made \in Nat
  BY Numbers DEF PairInv, PairTyped, ControlTyped
<1>4. \A c \in CodeNos : c > codes' => hostSock'[c] = "none"
  BY DEF PairInv, RoomsHold
<1> QED BY <1>1, <1>2, <1>3, <1>4, NobodyIsLetIn

LEMMA RelayIsQuiet ==
  ASSUME PairInv, NEW a \in JoinNos, joins[a] # NoJoin, NEW r \in Offer,
         r.dev = joins[a].dev, r.code = joins[a].code, r.call # "none",
         joins' = [joins EXCEPT ![a] = r], UNCHANGED <<hostSock, room, guest, codes, made>>,
         r.sock = "in" => joins[a].sock = "in",
         joins[a].sock \in {"in", "bye"} => r.sock \in {"in", "bye"},
         r.msg \in {"relayed", "taken", "answered"} \/ r.host # "none" => LetIn(a)
  PROVE  RoomsHold' /\ OneIsLetIn'
<1>1. hostSock' \in [CodeNos -> Sockets]
  BY DEF PairInv, PairTyped, RelayTyped
<1> QED BY <1>1, CallGoesOn

\* A step of one call that only the relay and the control take.
LEMMA CallIsRelayed ==
  ASSUME PairInv, NEW a \in JoinNos, joins[a] # NoJoin, NEW r \in Offer,
         r.dev = joins[a].dev, r.code = joins[a].code, r.call # "none",
         joins' = [joins EXCEPT ![a] = r],
         r.got \in {0, a}, r.channel = joins[a].channel,
         r.host = "closed" => joins[a].host = "closed",
         UNCHANGED <<codes, made, device, dropped, displaced>>
  PROVE  CodesEntered' /\ AnswersAreOwn' /\ JoinedStayJoined'
<1>1. joins'[a] = r /\ \A b \in JoinNos \ {a} : joins'[b] = joins[b]
  BY CallChanges
<1> QED BY <1>1 DEF PairInv, CodesEntered, AnswersAreOwn, JoinedStayJoined, device

LEMMA HostTakesKeeps == ASSUME PairInv, NEW a \in JoinNos, HostTakes(a) PROVE PairInv'
<1>1. /\ joins[a].msg = "relayed"
      /\ joins' = [joins EXCEPT ![a].msg = "taken", ![a].host = "new"]
      /\ UNCHANGED <<control, relay, made, device, history>>
  BY DEF HostTakes
<1>2. joins[a] # NoJoin
  BY <1>1, NoneIsAnOffer
<1>3. PICK r : r = [joins[a] EXCEPT !.msg = "taken", !.host = "new"]
  OBVIOUS
<1>4. r \in Offer
  <2>1. PICK q \in Offer : q = [joins[a] EXCEPT !.msg = "taken"]
    BY CallFacts, <1>2 DEF Offer
  <2>2. r = [q EXCEPT !.host = "new"]
    BY <1>3, <2>1
  <2> QED BY <2>2 DEF Offer
<1>5. /\ r.dev = joins[a].dev /\ r.code = joins[a].code /\ r.call = joins[a].call
      /\ r.sock = joins[a].sock /\ r.msg = "taken" /\ r.got = joins[a].got /\ r.host = "new"
      /\ r.channel = joins[a].channel
  BY <1>2, <1>3, CallFacts DEF Offer
<1>6. joins' = [joins EXCEPT ![a] = r] /\ r.call # "none" /\ LetIn(a) /\ r.got \in {0, a}
  BY <1>1, <1>2, <1>3, <1>5, CallFacts DEF PairInv, LetIn, AnswersAreOwn
<1>7. joins' \in [JoinNos -> Offer] /\ CallsMade'
  BY <1>1, <1>2, <1>4, <1>5, <1>6, CallChanges DEF control
<1>8. PairTyped'
  BY <1>1, <1>7 DEF PairInv, PairTyped, ControlTyped, RelayTyped, DeviceTyped, HistoryTyped,
                    control, relay, device, history
<1>9. CodesEntered' /\ AnswersAreOwn' /\ JoinedStayJoined'
  BY <1>1, <1>2, <1>4, <1>5, <1>6, CallIsRelayed DEF control, history
<1>10. RoomsHold' /\ OneIsLetIn'
  <2>1. UNCHANGED <<hostSock, room, guest, codes, made>>
    BY <1>1 DEF control, relay
  <2>2. /\ r.sock = "in" => joins[a].sock = "in"
        /\ joins[a].sock \in {"in", "bye"} => r.sock \in {"in", "bye"}
        /\ r.msg \in {"relayed", "taken", "answered"} \/ r.host # "none" => LetIn(a)
    BY <1>5, <1>6
  <2> QED BY <1>2, <1>4, <1>5, <1>6, <2>1, <2>2, RelayIsQuiet
<1> QED BY <1>7, <1>8, <1>9, <1>10 DEF PairInv

LEMMA HostOpensKeeps == ASSUME PairInv, NEW a \in JoinNos, HostOpens(a) PROVE PairInv'
<1>1. /\ joins[a].host = "new" /\ joins' = [joins EXCEPT ![a].host = "open"] /\ status' = "connected"
      /\ hostSock' = [hostSock EXCEPT ![joins[a].code] = Goes(hostSock[joins[a].code])]
      /\ UNCHANGED <<live, code, codes, room, guest, made, device, history>>
  BY DEF HostOpens
<1>2. joins[a] # NoJoin
  BY <1>1, NoneIsAnOffer
<1>3. PICK r : r = [joins[a] EXCEPT !.host = "open"]
  OBVIOUS
<1>4. /\ r \in Offer /\ r.dev = joins[a].dev /\ r.code = joins[a].code /\ r.call = joins[a].call
      /\ r.sock = joins[a].sock /\ r.msg = joins[a].msg /\ r.got = joins[a].got /\ r.host = "open"
      /\ r.channel = joins[a].channel
  BY <1>2, <1>3, CallFacts DEF Offer
<1>5. joins' = [joins EXCEPT ![a] = r] /\ r.call # "none" /\ LetIn(a) /\ r.got \in {0, a}
  BY <1>1, <1>2, <1>3, <1>4, CallFacts DEF PairInv, LetIn, AnswersAreOwn
<1>6. joins' \in [JoinNos -> Offer] /\ CallsMade'
  BY <1>1, <1>2, <1>4, <1>5, CallChanges
<1>7. /\ hostSock' \in [CodeNos -> Sockets]
      /\ \A c \in CodeNos : /\ hostSock[c] \notin {"none", "new"} => hostSock'[c] \notin {"none", "new"}
                            /\ hostSock[c] = "none" => hostSock'[c] = "none"
  <2>1. joins[a].code \in CodeNos /\ hostSock \in [CodeNos -> Sockets]
    BY <1>2, CallFacts DEF PairInv, PairTyped, RelayTyped
  <2> QED BY <1>1, <2>1, GoesFacts
<1>8. PairTyped'
  BY <1>1, <1>6, <1>7 DEF PairInv, PairTyped, ControlTyped, RelayTyped, DeviceTyped, HistoryTyped,
                          device, history
<1>9. CodesEntered' /\ AnswersAreOwn' /\ JoinedStayJoined'
  BY <1>1, <1>2, <1>4, <1>5, CallIsRelayed DEF history
<1>10. RoomsHold' /\ OneIsLetIn'
  <2>1. UNCHANGED <<room, guest, codes, made>>
    BY <1>1
  <2>2. /\ r.sock = "in" => joins[a].sock = "in"
        /\ joins[a].sock \in {"in", "bye"} => r.sock \in {"in", "bye"}
        /\ r.msg \in {"relayed", "taken", "answered"} \/ r.host # "none" => LetIn(a)
    BY <1>4, <1>5
  <2> QED BY <1>2, <1>4, <1>5, <1>7, <2>1, <2>2, CallGoesOn
<1> QED BY <1>6, <1>8, <1>9, <1>10 DEF PairInv

LEMMA GuestArrivesKeeps == ASSUME PairInv, NEW a \in JoinNos, GuestArrives(a) PROVE PairInv'
<1>1. /\ joins[a].sock = "new"
      /\ joins' = [joins EXCEPT ![a].sock = IF room[joins[a].code] THEN "vet" ELSE "over"]
      /\ UNCHANGED <<control, relay, made, device, history>>
  BY DEF GuestArrives
<1>2. joins[a] # NoJoin
  BY <1>1, NoneIsAnOffer
<1>3. PICK s \in {"vet", "over"} : joins' = [joins EXCEPT ![a].sock = s]
  BY <1>1
<1>4. PICK r : r = [joins[a] EXCEPT !.sock = s]
  OBVIOUS
<1>5. /\ r \in Offer /\ r.dev = joins[a].dev /\ r.code = joins[a].code /\ r.call = joins[a].call
      /\ r.sock = s /\ r.msg = joins[a].msg /\ r.got = joins[a].got /\ r.host = joins[a].host
      /\ r.channel = joins[a].channel
  BY <1>2, <1>4, CallFacts DEF Offer
<1>6. joins' = [joins EXCEPT ![a] = r] /\ r.call # "none" /\ r.got \in {0, a}
  BY <1>2, <1>3, <1>4, <1>5, CallFacts DEF PairInv, AnswersAreOwn
<1>7. joins' \in [JoinNos -> Offer] /\ CallsMade'
  BY <1>1, <1>2, <1>5, <1>6, CallChanges DEF control
<1>8. PairTyped'
  BY <1>1, <1>7 DEF PairInv, PairTyped, ControlTyped, RelayTyped, DeviceTyped, HistoryTyped,
                    control, relay, device, history
<1>9. CodesEntered' /\ AnswersAreOwn' /\ JoinedStayJoined'
  <2>1. r.host = "closed" => joins[a].host = "closed"
    BY <1>5
  <2>2. UNCHANGED <<codes, made, device, dropped, displaced>>
    BY <1>1 DEF control, history
  <2> QED BY <1>2, <1>5, <1>6, <2>1, <2>2, CallIsRelayed
<1>10. RoomsHold' /\ OneIsLetIn'
  <2>1. UNCHANGED <<hostSock, room, guest, codes, made>>
    BY <1>1 DEF control, relay
  <2>2. /\ r.sock = "in" => joins[a].sock = "in"
        /\ joins[a].sock \in {"in", "bye"} => r.sock \in {"in", "bye"}
        /\ r.msg \in {"relayed", "taken", "answered"} \/ r.host # "none" => LetIn(a)
    BY <1>1, <1>5 DEF LetIn
  <2> QED BY <1>2, <1>5, <1>6, <2>1, <2>2, RelayIsQuiet
<1> QED BY <1>7, <1>8, <1>9, <1>10 DEF PairInv

LEMMA JoinRoomKeeps == ASSUME PairInv, NEW a \in JoinNos, JoinRoom(a) PROVE PairInv'
<1>1. joins[a].sock = "vet" /\ UNCHANGED <<control, hostSock, room, made, device, history>>
  BY DEF JoinRoom
<1>2. joins[a] # NoJoin
  BY <1>1, NoneIsAnOffer
<1>3. PICK free \in BOOLEAN :
        /\ free => room[joins[a].code] /\ guest[joins[a].code] = 0
        /\ joins' = [joins EXCEPT ![a].sock = IF free THEN "in" ELSE "over"]
        /\ guest' = IF free THEN [guest EXCEPT ![joins[a].code] = a] ELSE guest
  BY DEF JoinRoom
<1>4. PICK r : r = [joins[a] EXCEPT !.sock = IF free THEN "in" ELSE "over"]
  OBVIOUS
<1>5. /\ r \in Offer /\ r.dev = joins[a].dev /\ r.code = joins[a].code /\ r.call = joins[a].call
      /\ r.sock = (IF free THEN "in" ELSE "over") /\ r.msg = joins[a].msg /\ r.got = joins[a].got
      /\ r.host = joins[a].host /\ r.channel = joins[a].channel
  BY <1>2, <1>4, CallFacts DEF Offer
<1>6. joins' = [joins EXCEPT ![a] = r] /\ r.call # "none" /\ r.got \in {0, a}
  BY <1>2, <1>3, <1>4, <1>5, CallFacts DEF PairInv, AnswersAreOwn
<1>7. /\ joins' \in [JoinNos -> Offer] /\ CallsMade' /\ joins'[a] = r
      /\ \A b \in JoinNos \ {a} : joins'[b] = joins[b]
  BY <1>1, <1>2, <1>5, <1>6, CallChanges DEF control
<1>8. CodesEntered' /\ AnswersAreOwn' /\ JoinedStayJoined'
  BY <1>1, <1>2, <1>5, <1>6, CallIsRelayed DEF control, history
<1>9. CASE free
  <2>1. /\ joins[a].code \in CodeNos /\ a \in 1..made
        /\ guest' = [guest EXCEPT ![joins[a].code] = a]
    BY <1>2, <1>3, <1>9, CallFacts
  <2>2. /\ guest' \in [CodeNos -> Nat] /\ guest'[joins[a].code] = a
        /\ \A c \in CodeNos \ {joins[a].code} : guest'[c] = guest[c]
    BY <2>1, Numbers DEF PairInv, PairTyped, RelayTyped
  <2>3. PairTyped'
    BY <1>1, <1>7, <2>2 DEF PairInv, PairTyped, ControlTyped, RelayTyped, DeviceTyped, HistoryTyped,
                            control, device, history
  <2>4. RoomsHold'
    <3>1. ASSUME NEW c \in CodeNos, c # joins[a].code, guest'[c] # 0
          PROVE  /\ room[c] /\ guest[c] \in 1..made /\ guest[c] # a
                 /\ joins'[guest[c]].code = c /\ joins'[guest[c]].sock \in {"in", "bye"}
      <4>1. /\ room[c] /\ guest[c] \in 1..made /\ made \in 0..MaxJoins
            /\ joins[guest[c]].code = c /\ joins[guest[c]].sock \in {"in", "bye"}
        BY <2>2, <3>1 DEF PairInv, PairTyped, RoomsHold
      <4>2. guest[c] \in JoinNos \ {a}
        BY <4>1, <3>1, Numbers
      <4> QED BY <4>1, <4>2, <1>7
    <3> QED BY <1>1, <1>3, <1>5, <1>7, <1>9, <2>1, <2>2, <3>1 DEF PairInv, RoomsHold, control
  <2>5. OneIsLetIn'
    <3>1. \A b \in JoinNos : LetIn(b) => joins[b].code # joins[a].code
      BY <1>3, <1>9, <2>1, Numbers DEF PairInv, OneIsLetIn
    <3>2. hostSock[joins[a].code] \notin {"none", "new"}
      BY <1>3, <1>9, <2>1 DEF PairInv, RoomsHold
    <3>3. \A b \in JoinNos \ {a} : LetIn(b)' <=> LetIn(b)
      BY <1>7 DEF LetIn
    <3> QED BY <1>1, <1>5, <1>7, <2>2, <3>1, <3>2, <3>3 DEF PairInv, OneIsLetIn
  <2> QED BY <1>7, <1>8, <2>3, <2>4, <2>5 DEF PairInv
<1>10. CASE ~free
  <2>1. guest' = guest /\ r.sock = "over"
    BY <1>3, <1>5, <1>10
  <2>2. PairTyped'
    BY <1>1, <1>7, <2>1 DEF PairInv, PairTyped, ControlTyped, RelayTyped, DeviceTyped, HistoryTyped,
                            control, device, history
  <2>3. RoomsHold' /\ OneIsLetIn'
    BY <1>1, <1>2, <1>5, <1>6, <2>1, RelayIsQuiet DEF control, LetIn
  <2> QED BY <1>7, <1>8, <2>2, <2>3 DEF PairInv
<1> QED BY <1>9, <1>10

LEMMA ForwardOfferKeeps == ASSUME PairInv, NEW a \in JoinNos, ForwardOffer(a) PROVE PairInv'
<1>1. joins[a].sock = "in" /\ UNCHANGED <<control, relay, made, device, history>>
  BY DEF ForwardOffer
<1>2. joins[a] # NoJoin /\ LetIn(a)
  BY <1>1, NoneIsAnOffer DEF LetIn
<1>3. PICK m \in {"relayed", "lost"} : joins' = [joins EXCEPT ![a].msg = m]
  BY DEF ForwardOffer
<1>4. PICK r : r = [joins[a] EXCEPT !.msg = m]
  OBVIOUS
<1>5. /\ r \in Offer /\ r.dev = joins[a].dev /\ r.code = joins[a].code /\ r.call = joins[a].call
      /\ r.sock = joins[a].sock /\ r.got = joins[a].got /\ r.host = joins[a].host
      /\ r.channel = joins[a].channel
  BY <1>2, <1>4, CallFacts DEF Offer
<1>6. joins' = [joins EXCEPT ![a] = r] /\ r.call # "none" /\ r.got \in {0, a}
  BY <1>2, <1>3, <1>4, <1>5, CallFacts DEF PairInv, AnswersAreOwn
<1>7. joins' \in [JoinNos -> Offer] /\ CallsMade'
  BY <1>1, <1>2, <1>5, <1>6, CallChanges DEF control
<1>8. PairTyped'
  BY <1>1, <1>7 DEF PairInv, PairTyped, ControlTyped, RelayTyped, DeviceTyped, HistoryTyped,
                    control, relay, device, history
<1>9. CodesEntered' /\ AnswersAreOwn' /\ JoinedStayJoined'
  <2>1. r.host = "closed" => joins[a].host = "closed"
    BY <1>5
  <2>2. UNCHANGED <<codes, made, device, dropped, displaced>>
    BY <1>1 DEF control, history
  <2> QED BY <1>2, <1>5, <1>6, <2>1, <2>2, CallIsRelayed
<1>10. RoomsHold' /\ OneIsLetIn'
  <2>1. UNCHANGED <<hostSock, room, guest, codes, made>>
    BY <1>1 DEF control, relay
  <2>2. /\ r.sock = "in" => joins[a].sock = "in"
        /\ joins[a].sock \in {"in", "bye"} => r.sock \in {"in", "bye"}
    BY <1>5
  <2> QED BY <1>2, <1>5, <1>6, <2>1, <2>2, RelayIsQuiet
<1> QED BY <1>7, <1>8, <1>9, <1>10 DEF PairInv

\* The relay sends the answer to its guest, and the guest is who made the offer.
LEMMA ForwardAnswerKeeps == ASSUME PairInv, NEW a \in JoinNos, ForwardAnswer(a) PROVE PairInv'
<1>1. joins[a].msg = "taken" /\ UNCHANGED <<control, relay, made, device, history>>
  BY DEF ForwardAnswer
<1>2. joins[a] # NoJoin /\ LetIn(a)
  BY <1>1, NoneIsAnOffer DEF LetIn
<1>3. joins[a].code \in CodeNos /\ (room[joins[a].code] => guest[joins[a].code] = a)
  BY <1>2, CallFacts DEF PairInv, OneIsLetIn
<1>4. PICK r : /\ r = [joins[a] EXCEPT !.msg = "lost"] \/ r = [[joins[a] EXCEPT !.msg = "answered"] EXCEPT !.got = a]
               /\ joins' = [joins EXCEPT ![a] = r]
  <2>1. CASE ~room[joins[a].code] \/ guest[joins[a].code] = 0
    BY <2>1 DEF ForwardAnswer
  <2>2. CASE room[joins[a].code] /\ guest[joins[a].code] # 0
    <3>1. joins' = [[joins EXCEPT ![a].msg = "answered"] EXCEPT ![a].got = a]
      BY <1>3, <2>2 DEF ForwardAnswer
    <3>2. PICK q : q = [joins[a] EXCEPT !.msg = "answered"]
      OBVIOUS
    <3>3. PICK step : step = [joins EXCEPT ![a] = q]
      OBVIOUS
    <3>4. step[a] = q /\ joins \in [JoinNos -> Offer]
      BY <3>3 DEF PairInv, PairTyped
    <3>5. joins' = [step EXCEPT ![a] = [q EXCEPT !.got = a]]
      BY <3>1, <3>2, <3>3, <3>4
    <3>6. joins' = [joins EXCEPT ![a] = [q EXCEPT !.got = a]]
      BY <3>3, <3>4, <3>5
    <3> QED BY <3>2, <3>6
  <2> QED BY <2>1, <2>2
<1>5. /\ r \in Offer /\ r.dev = joins[a].dev /\ r.code = joins[a].code /\ r.call = joins[a].call
      /\ r.sock = joins[a].sock /\ r.got \in {joins[a].got, a} /\ r.host = joins[a].host
      /\ r.channel = joins[a].channel
  <2>1. joins[a] \in Offer /\ a \in Nat
    BY <1>2, CallFacts, Numbers
  <2>2. PICK q : q = [joins[a] EXCEPT !.msg = "answered"]
    OBVIOUS
  <2>3. CASE r = [[joins[a] EXCEPT !.msg = "answered"] EXCEPT !.got = a]
    <3>1. /\ q \in Offer /\ q.dev = joins[a].dev /\ q.code = joins[a].code /\ q.call = joins[a].call
          /\ q.sock = joins[a].sock /\ q.host = joins[a].host /\ q.channel = joins[a].channel
      BY <2>1, <2>2 DEF Offer
    <3>2. r = [q EXCEPT !.got = a]
      BY <2>2, <2>3
    <3> QED BY <2>1, <3>1, <3>2 DEF Offer
  <2>4. CASE r = [joins[a] EXCEPT !.msg = "lost"]
    BY <2>1, <2>4 DEF Offer
  <2> QED BY <1>4, <2>3, <2>4
<1>6. r.call # "none" /\ r.got \in {0, a}
  BY <1>2, <1>5, CallFacts DEF PairInv, AnswersAreOwn
<1>7. joins' \in [JoinNos -> Offer] /\ CallsMade'
  BY <1>1, <1>2, <1>4, <1>5, <1>6, CallChanges DEF control
<1>8. PairTyped'
  BY <1>1, <1>7 DEF PairInv, PairTyped, ControlTyped, RelayTyped, DeviceTyped, HistoryTyped,
                    control, relay, device, history
<1>9. CodesEntered' /\ AnswersAreOwn' /\ JoinedStayJoined'
  <2>1. r.host = "closed" => joins[a].host = "closed"
    BY <1>5
  <2>2. UNCHANGED <<codes, made, device, dropped, displaced>>
    BY <1>1 DEF control, history
  <2> QED BY <1>2, <1>4, <1>5, <1>6, <2>1, <2>2, CallIsRelayed
<1>10. RoomsHold' /\ OneIsLetIn'
  <2>1. UNCHANGED <<hostSock, room, guest, codes, made>>
    BY <1>1 DEF control, relay
  <2>2. /\ r.sock = "in" => joins[a].sock = "in"
        /\ joins[a].sock \in {"in", "bye"} => r.sock \in {"in", "bye"}
    BY <1>5
  <2> QED BY <1>2, <1>4, <1>5, <1>6, <2>1, <2>2, RelayIsQuiet
<1> QED BY <1>7, <1>8, <1>9, <1>10 DEF PairInv

\* Who waits in a room is a call that was made, for its code.
LEMMA GuestFacts ==
  ASSUME PairInv, NEW c \in CodeNos, guest[c] # 0
  PROVE  /\ guest[c] \in JoinNos /\ joins[guest[c]] # NoJoin /\ joins[guest[c]].code = c
         /\ hostSock[c] \notin {"none", "new"}
<1>1. /\ room[c] /\ guest[c] \in 1..made /\ made \in 0..MaxJoins /\ joins[guest[c]].code = c
      /\ joins[guest[c]].sock \in {"in", "bye"}
  BY DEF PairInv, PairTyped, RoomsHold
<1>2. guest[c] \in JoinNos /\ joins[guest[c]] # NoJoin
  BY <1>1, Numbers, NoneIsAnOffer
<1> QED BY <1>1, <1>2 DEF PairInv, RoomsHold

\* A socket that ends leaves a call, whatever else it was.
LEMMA SocketEnds ==
  ASSUME PairInv, NEW a \in JoinNos, joins' = [joins EXCEPT ![a].sock = "over"]
  PROVE  /\ joins' \in [JoinNos -> Offer] /\ joins'[a] = [joins[a] EXCEPT !.sock = "over"]
         /\ \A b \in JoinNos \ {a} : joins'[b] = joins[b]
<1>1. joins \in [JoinNos -> Offer] /\ joins[a] \in Offer
  BY DEF PairInv, PairTyped
<1>2. [joins[a] EXCEPT !.sock = "over"] \in Offer
  BY <1>1 DEF Offer
<1> QED BY <1>1, <1>2

LEMMA HostLeavesKeeps == ASSUME PairInv, NEW c \in CodeNos, HostLeaves(c) PROVE PairInv'
<1>1. /\ hostSock[c] = "bye" /\ hostSock' = [hostSock EXCEPT ![c] = "over"]
      /\ joins' = IF guest[c] = 0 THEN joins ELSE [joins EXCEPT ![guest[c]].sock = "over"]
      /\ room' = [room EXCEPT ![c] = FALSE] /\ guest' = [guest EXCEPT ![c] = 0]
      /\ UNCHANGED <<control, made>> /\ UNCHANGED <<device, history>>
  BY DEF HostLeaves
<1>2. /\ hostSock' \in [CodeNos -> Sockets] /\ hostSock'[c] = "over"
      /\ \A e \in CodeNos \ {c} : hostSock'[e] = hostSock[e]
  BY <1>1 DEF PairInv, PairTyped, RelayTyped, Sockets
<1>3. /\ joins' \in [JoinNos -> Offer]
      /\ \A a \in JoinNos : \/ joins'[a] = joins[a]
                            \/ /\ joins[a].code = c /\ joins[a] # NoJoin
                               /\ joins'[a] = [joins[a] EXCEPT !.sock = "over"]
  <2>1. CASE guest[c] = 0
    BY <1>1, <2>1 DEF PairInv, PairTyped
  <2>2. CASE guest[c] # 0
    <3>1. guest[c] \in JoinNos /\ joins[guest[c]] # NoJoin /\ joins[guest[c]].code = c
      BY <2>2, GuestFacts
    <3>2. joins' = [joins EXCEPT ![guest[c]].sock = "over"]
      BY <1>1, <2>2
    <3> QED BY <3>1, <3>2, SocketEnds
  <2> QED BY <2>1, <2>2
<1>4. hostSock[c] \notin {"none", "new"}
  BY <1>1
<1> QED BY <1>1, <1>2, <1>3, <1>4, RoomGoes

LEMMA GuestLeavesKeeps == ASSUME PairInv, NEW a \in JoinNos, GuestLeaves(a) PROVE PairInv'
<1>1. /\ joins[a].sock = "bye" /\ joins' = [joins EXCEPT ![a].sock = "over"]
      /\ UNCHANGED <<control, made, device, history>>
  BY DEF GuestLeaves
<1>2. joins[a] # NoJoin
  BY <1>1, NoneIsAnOffer
<1>3. joins[a].code \in CodeNos
  BY <1>2, CallFacts
<1>4. CASE guest[joins[a].code] = a
  <2>1. PICK c \in CodeNos : c = joins[a].code
    BY <1>3
  <2>2. /\ hostSock' = [hostSock EXCEPT ![c] = "over"]
        /\ room' = [room EXCEPT ![c] = FALSE] /\ guest' = [guest EXCEPT ![c] = 0]
    BY <1>4, <2>1 DEF GuestLeaves
  <2>3. /\ hostSock' \in [CodeNos -> Sockets] /\ hostSock'[c] = "over"
        /\ \A e \in CodeNos \ {c} : hostSock'[e] = hostSock[e]
    BY <2>2 DEF PairInv, PairTyped, RelayTyped, Sockets
  <2>4. hostSock[c] \notin {"none", "new"}
    BY <1>4, <2>1, GuestFacts, Numbers
  <2>5. /\ joins' \in [JoinNos -> Offer]
        /\ \A b \in JoinNos : \/ joins'[b] = joins[b]
                              \/ /\ joins[b].code = c /\ joins[b] # NoJoin
                                 /\ joins'[b] = [joins[b] EXCEPT !.sock = "over"]
    BY <1>1, <1>2, <2>1, SocketEnds
  <2> QED BY <1>1, <2>2, <2>3, <2>4, <2>5, RoomGoes
<1>5. CASE guest[joins[a].code] # a
  <2>1. UNCHANGED <<hostSock, room, guest>>
    BY <1>5 DEF GuestLeaves, relay
  <2>2. PICK r : r = [joins[a] EXCEPT !.sock = "over"]
    OBVIOUS
  <2>3. /\ r \in Offer /\ r.dev = joins[a].dev /\ r.code = joins[a].code /\ r.call = joins[a].call
        /\ r.sock = "over" /\ r.msg = joins[a].msg /\ r.got = joins[a].got /\ r.host = joins[a].host
        /\ r.channel = joins[a].channel
    BY <1>2, <2>2, CallFacts DEF Offer
  <2>4. joins' = [joins EXCEPT ![a] = r] /\ r.call # "none" /\ r.got \in {0, a}
    BY <1>1, <1>2, <2>2, <2>3, CallFacts DEF PairInv, AnswersAreOwn
  <2>5. UNCHANGED <<codes, made, device, dropped, displaced>>
    BY <1>1 DEF control, history
  <2>6. /\ joins' \in [JoinNos -> Offer] /\ CallsMade' /\ joins'[a] = r
        /\ \A b \in JoinNos \ {a} : joins'[b] = joins[b]
    BY <1>2, <2>3, <2>4, <2>5, CallChanges
  <2>7. PairTyped'
    BY <1>1, <2>1, <2>6 DEF PairInv, PairTyped, ControlTyped, RelayTyped, DeviceTyped, HistoryTyped,
                            control, device, history
  <2>8. CodesEntered' /\ AnswersAreOwn' /\ JoinedStayJoined'
    <3>1. r.host = "closed" => joins[a].host = "closed"
      BY <2>3
    <3> QED BY <1>2, <2>3, <2>4, <2>5, <3>1, CallIsRelayed
  <2>9. RoomsHold'
    <3>1. ASSUME NEW c \in CodeNos, guest[c] # 0
          PROVE  /\ room[c] /\ guest[c] \in 1..made
                 /\ joins'[guest[c]].code = c /\ joins'[guest[c]].sock \in {"in", "bye"}
      <4>1. guest[c] \in JoinNos \ {a}
        BY <1>5, <3>1, GuestFacts
      <4>2. /\ room[c] /\ guest[c] \in 1..made
            /\ joins[guest[c]].code = c /\ joins[guest[c]].sock \in {"in", "bye"}
        BY <3>1 DEF PairInv, RoomsHold
      <4> QED BY <2>6, <4>1, <4>2
    <3> QED BY <2>1, <2>5, <3>1 DEF PairInv, RoomsHold
  <2>10. OneIsLetIn'
    <3>1. \A b \in JoinNos : (LetIn(b)' => LetIn(b)) /\ joins'[b].code = joins[b].code
      BY <2>3, <2>6 DEF LetIn
    <3> QED BY <2>1, <3>1 DEF PairInv, OneIsLetIn
  <2> QED BY <2>6, <2>7, <2>8, <2>9, <2>10 DEF PairInv
<1> QED BY <1>4, <1>5

LEMMA SweepKeeps == ASSUME PairInv, NEW c \in CodeNos, Sweep(c) PROVE PairInv'
<1>1. /\ room' = [room EXCEPT ![c] = FALSE] /\ guest' = [guest EXCEPT ![c] = 0]
      /\ UNCHANGED <<live, code, codes, status, hostSock, joins, made, device, dropped, displaced, faults>>
  BY DEF Sweep, control, history
<1>2. /\ ~room'[c] /\ guest'[c] = 0 /\ room' \in [CodeNos -> BOOLEAN] /\ guest' \in [CodeNos -> Nat]
      /\ \A e \in CodeNos \ {c} : room'[e] = room[e] /\ guest'[e] = guest[e]
  BY <1>1 DEF PairInv, PairTyped, RelayTyped
<1>3. PairTyped'
  BY <1>1, <1>2 DEF PairInv, PairTyped, ControlTyped, RelayTyped, DeviceTyped, HistoryTyped, device
<1>4. CallsMade' /\ CodesEntered' /\ AnswersAreOwn' /\ JoinedStayJoined'
  BY <1>1 DEF PairInv, CallsMade, CodesEntered, AnswersAreOwn, JoinedStayJoined, device
<1>5. RoomsHold'
  BY <1>1, <1>2 DEF PairInv, RoomsHold
<1>6. OneIsLetIn'
  <2>1. \A b \in JoinNos : LetIn(b)' <=> LetIn(b)
    BY <1>1 DEF LetIn
  <2> QED BY <1>1, <1>2, <2>1 DEF PairInv, OneIsLetIn
<1> QED BY <1>3, <1>4, <1>5, <1>6 DEF PairInv

\* A call goes on at its device, and the relay and the control hear nothing of it.
LEMMA DeviceMoves ==
  ASSUME PairInv, NEW a \in JoinNos, joins[a] # NoJoin, NEW r \in Offer,
         r.dev = joins[a].dev, r.code = joins[a].code, r.call # "none",
         r.msg = joins[a].msg, r.host = joins[a].host, r.got = joins[a].got,
         r.sock \in {joins[a].sock, Goes(joins[a].sock)},
         r.channel \in {joins[a].channel, "open", "closed"},
         r.channel = "open" => /\ joins[a].channel \in {"connecting", "open"}
                               /\ r.host = "closed" => joins[a].channel = "open",
         joins' = [joins EXCEPT ![a] = r],
         NEW p \in {"idle", "joining", "joined", "stale"},
         phase' = [phase EXCEPT ![joins[a].dev] = p],
         p = "stale" => \/ phase[joins[a].dev] = "stale"
                        \/ joins[a].channel = "open" /\ joins[a].dev \in dropped' \cup displaced,
         slide' \in [Devices -> BOOLEAN], tired' \in [Devices -> BOOLEAN],
         send' \in [Devices -> 0..made],
         dropped \subseteq dropped', HistoryTyped',
         UNCHANGED <<control, relay, made, entered, displaced>>
  PROVE  PairInv'
<1>1. UNCHANGED <<live, code, codes, status, hostSock, room, guest, made, entered, displaced>>
  BY DEF control, relay
<1>2. /\ joins' \in [JoinNos -> Offer] /\ CallsMade' /\ joins'[a] = r
      /\ \A b \in JoinNos \ {a} : joins'[b] = joins[b]
  BY <1>1, CallChanges
<1>3. joins[a].dev \in Devices /\ phase \in [Devices -> {"idle", "joining", "joined", "stale"}]
  BY CallFacts DEF PairInv, PairTyped, DeviceTyped
<1>4. DeviceTyped'
  BY <1>1, <1>3 DEF PairInv, PairTyped, DeviceTyped
<1>5. PairTyped'
  BY <1>1, <1>2, <1>4 DEF PairInv, PairTyped, ControlTyped, RelayTyped
<1>6. CodesEntered'
  <2>1. \A b \in JoinNos : /\ joins'[b].dev = joins[b].dev
                           /\ joins'[b].channel \in {"connecting", "open"} =>
                                joins[b].channel \in {"connecting", "open"}
    BY <1>2
  <2>2. \A d \in Devices : phase'[d] = "stale" => phase[d] = "stale" \/ (d = joins[a].dev /\ joins[a].channel = "open")
    BY <1>3
  <2> QED BY <1>1, <2>1, <2>2 DEF PairInv, CodesEntered
<1>7. AnswersAreOwn'
  BY <1>1, <1>2 DEF PairInv, AnswersAreOwn
<1>8. JoinedStayJoined'
  BY <1>1, <1>3 DEF PairInv, JoinedStayJoined
<1>9. RoomsHold' /\ OneIsLetIn'
  <2>1. /\ r.sock = "in" => joins[a].sock = "in"
        /\ joins[a].sock \in {"in", "bye"} => r.sock \in {"in", "bye"}
    BY DEF Goes
  <2>2. r.msg \in {"relayed", "taken", "answered"} \/ r.host # "none" => LetIn(a)
    BY DEF LetIn
  <2> QED BY <1>1, <2>1, <2>2, RelayIsQuiet
<1> QED BY <1>2, <1>5, <1>6, <1>7, <1>8, <1>9 DEF PairInv

\* What is typed of the device and of the history, and what a call was.
LEMMA TypeFacts ==
  ASSUME PairInv
  PROVE  /\ phase \in [Devices -> {"idle", "joining", "joined", "stale"}]
         /\ slide \in [Devices -> BOOLEAN] /\ tired \in [Devices -> BOOLEAN]
         /\ entered \in [Devices -> 0..codes] /\ send \in [Devices -> 0..made]
         /\ HistoryTyped /\ made \in 0..MaxJoins /\ codes \in 0..MaxCodes
         /\ joins \in [JoinNos -> Offer]
  BY DEF PairInv, PairTyped, ControlTyped, DeviceTyped

LEMMA ChannelOpensKeeps == ASSUME PairInv, NEW a \in JoinNos, ChannelOpens(a) PROVE PairInv'
<1>1. /\ joins[a].channel = "connecting" /\ joins[a].host \in {"new", "open"}
      /\ joins' = [joins EXCEPT ![a].channel = "open"]
      /\ UNCHANGED <<control, relay, made, device, history>>
  BY DEF ChannelOpens
<1>2. joins[a] # NoJoin
  BY <1>1, NoneIsAnOffer
<1>3. PICK r : r = [joins[a] EXCEPT !.channel = "open"]
  OBVIOUS
<1>4. /\ r \in Offer /\ r.dev = joins[a].dev /\ r.code = joins[a].code /\ r.call = joins[a].call
      /\ r.sock = joins[a].sock /\ r.msg = joins[a].msg /\ r.got = joins[a].got /\ r.host = joins[a].host
      /\ r.channel = "open" /\ r.call # "none"
  BY <1>2, <1>3, CallFacts DEF Offer
<1>5. joins' = [joins EXCEPT ![a] = r]
  BY <1>1, <1>3
<1>6. PICK p \in {"idle", "joining", "joined", "stale"} : p = phase[joins[a].dev]
  BY <1>2, CallFacts, TypeFacts
<1>7. /\ phase' = [phase EXCEPT ![joins[a].dev] = p] /\ dropped \subseteq dropped' /\ HistoryTyped'
      /\ slide' \in [Devices -> BOOLEAN] /\ tired' \in [Devices -> BOOLEAN]
      /\ send' \in [Devices -> 0..made] /\ UNCHANGED <<control, relay, made, entered, displaced>>
  BY <1>1, <1>2, <1>6, CallFacts, TypeFacts DEF device, history, HistoryTyped
<1>8. r.host # "closed"
  BY <1>1, <1>4
<1> QED BY <1>1, <1>2, <1>4, <1>5, <1>6, <1>7, <1>8, DeviceMoves

LEMMA JoinSucceedsKeeps == ASSUME PairInv, NEW a \in JoinNos, JoinSucceeds(a) PROVE PairInv'
<1>1. /\ joins[a].call = "running" /\ joins[a].channel = "open"
      /\ joins' = [joins EXCEPT ![a].call = "ok", ![a].sock = Goes(joins[a].sock)]
      /\ phase' = [phase EXCEPT ![joins[a].dev] = "joined"]
      /\ send' = [send EXCEPT ![joins[a].dev] = a]
      /\ tired' = [tired EXCEPT ![joins[a].dev] = FALSE]
      /\ UNCHANGED <<control, relay, made, slide, entered, history>>
  BY DEF JoinSucceeds
<1>2. joins[a] # NoJoin
  BY <1>1, NoneIsAnOffer
<1>3. PICK q : q = [joins[a] EXCEPT !.call = "ok"]
  OBVIOUS
<1>4. PICK r : r = [q EXCEPT !.sock = Goes(joins[a].sock)]
  OBVIOUS
<1>5. /\ q \in Offer /\ q.dev = joins[a].dev /\ q.code = joins[a].code /\ q.call = "ok"
      /\ q.sock = joins[a].sock /\ q.msg = joins[a].msg /\ q.got = joins[a].got /\ q.host = joins[a].host
      /\ q.channel = joins[a].channel
  BY <1>2, <1>3, CallFacts DEF Offer
<1>6. /\ r \in Offer /\ r.dev = q.dev /\ r.code = q.code /\ r.call = q.call
      /\ r.sock = Goes(joins[a].sock) /\ r.msg = q.msg /\ r.got = q.got /\ r.host = q.host
      /\ r.channel = q.channel
  BY <1>4, <1>5 DEF Offer, Goes
<1>7. joins' = [joins EXCEPT ![a] = r]
  BY <1>1, <1>3, <1>4
<1>8. joins[a].dev \in Devices /\ a \in 0..made
  BY <1>2, CallFacts, TypeFacts, Numbers
<1>9. /\ dropped \subseteq dropped' /\ HistoryTyped'
      /\ slide' \in [Devices -> BOOLEAN] /\ tired' \in [Devices -> BOOLEAN]
      /\ send' \in [Devices -> 0..made] /\ UNCHANGED <<control, relay, made, entered, displaced>>
  BY <1>1, <1>8, TypeFacts DEF history, HistoryTyped
<1>10. /\ r.dev = joins[a].dev /\ r.code = joins[a].code /\ r.call # "none" /\ r.msg = joins[a].msg
       /\ r.host = joins[a].host /\ r.got = joins[a].got /\ r.channel = "open"
       /\ joins[a].channel = "open" /\ phase' = [phase EXCEPT ![joins[a].dev] = "joined"]
  BY <1>1, <1>5, <1>6
<1> QED BY <1>2, <1>6, <1>7, <1>9, <1>10, DeviceMoves

LEMMA JoinFailsKeeps == ASSUME PairInv, NEW a \in JoinNos, JoinFails(a) PROVE PairInv'
<1>1. /\ joins[a].call = "running" /\ joins[a].channel # "open"
      /\ joins' = [joins EXCEPT ![a].call = "failed"]
      /\ phase' = [phase EXCEPT ![joins[a].dev] = "idle"]
      /\ UNCHANGED <<control, relay, made, slide, entered, send, tired, history>>
  BY DEF JoinFails
<1>2. joins[a] # NoJoin
  BY <1>1, NoneIsAnOffer
<1>3. PICK r : r = [joins[a] EXCEPT !.call = "failed"]
  OBVIOUS
<1>4. /\ r \in Offer /\ r.dev = joins[a].dev /\ r.code = joins[a].code /\ r.call = "failed"
      /\ r.sock = joins[a].sock /\ r.msg = joins[a].msg /\ r.got = joins[a].got /\ r.host = joins[a].host
      /\ r.channel = joins[a].channel
  BY <1>2, <1>3, CallFacts DEF Offer
<1>5. joins' = [joins EXCEPT ![a] = r]
  BY <1>1, <1>3
<1>6. /\ dropped \subseteq dropped' /\ HistoryTyped'
      /\ slide' \in [Devices -> BOOLEAN] /\ tired' \in [Devices -> BOOLEAN]
      /\ send' \in [Devices -> 0..made] /\ UNCHANGED <<control, relay, made, entered, displaced>>
  BY <1>1, TypeFacts DEF history, HistoryTyped
<1> QED BY <1>1, <1>2, <1>4, <1>5, <1>6, DeviceMoves

LEMMA StateArrivesKeeps == ASSUME PairInv, NEW a \in JoinNos, StateArrives(a) PROVE PairInv'
<1>1. /\ joins[a].channel = "open" /\ joins' = joins
      /\ phase' = [phase EXCEPT ![joins[a].dev] = "joined"]
      /\ slide' = [slide EXCEPT ![joins[a].dev] = TRUE]
      /\ UNCHANGED <<control, relay, made, entered, send, tired, history>>
  BY DEF StateArrives
<1>2. joins[a] # NoJoin
  BY <1>1, NoneIsAnOffer
<1>3. PICK r \in Offer : r = joins[a] /\ r.call # "none"
  BY <1>2, CallFacts
<1>4. joins' = [joins EXCEPT ![a] = r]
  BY <1>1, <1>3, TypeFacts
<1>5. /\ dropped \subseteq dropped' /\ HistoryTyped'
      /\ slide' \in [Devices -> BOOLEAN] /\ tired' \in [Devices -> BOOLEAN]
      /\ send' \in [Devices -> 0..made] /\ UNCHANGED <<control, relay, made, entered, displaced>>
  BY <1>1, <1>2, CallFacts, TypeFacts DEF history, HistoryTyped
<1> QED BY <1>1, <1>2, <1>3, <1>4, <1>5, DeviceMoves

LEMMA ChannelClosesKeeps ==
  ASSUME PairInv, NEW a \in JoinNos, ChannelCloses(a) \/ ChannelDrops(a) PROVE PairInv'
<1>1. /\ joins[a].channel = "open" /\ joins' = [joins EXCEPT ![a].channel = "closed"]
      /\ phase' = [phase EXCEPT ![joins[a].dev] = "stale"]
      /\ UNCHANGED <<control, relay, made, slide, entered, send, tired, displaced>>
  BY DEF ChannelCloses, ChannelDrops, Closed, history
<1>2. joins[a] # NoJoin
  BY <1>1, NoneIsAnOffer
<1>3. PICK r : r = [joins[a] EXCEPT !.channel = "closed"]
  OBVIOUS
<1>4. /\ r \in Offer /\ r.dev = joins[a].dev /\ r.code = joins[a].code /\ r.call = joins[a].call
      /\ r.sock = joins[a].sock /\ r.msg = joins[a].msg /\ r.got = joins[a].got /\ r.host = joins[a].host
      /\ r.channel = "closed" /\ r.call # "none" /\ joins[a].dev \in Devices
  BY <1>2, <1>3, CallFacts DEF Offer
<1>5. joins' = [joins EXCEPT ![a] = r]
  BY <1>1, <1>3
<1>6. /\ dropped \subseteq dropped' /\ HistoryTyped'
      /\ joins[a].dev \in dropped' \cup displaced
  <2>1. CASE ChannelCloses(a)
    <3>1. joins[a].dev \in displaced
      BY <1>1, <2>1 DEF ChannelCloses, PairInv, AnswersAreOwn
    <3> QED BY <2>1, <3>1, TypeFacts DEF ChannelCloses, history, HistoryTyped
  <2>2. CASE ChannelDrops(a)
    <3>1. /\ faults < MaxFaults /\ faults' = faults + 1 /\ dropped' = dropped \cup {joins[a].dev}
          /\ displaced' = displaced
      BY <2>2 DEF ChannelDrops, Fault
    <3>2. faults' \in 0..MaxFaults
      BY <3>1, TypeFacts, Numbers DEF HistoryTyped
    <3> QED BY <1>4, <3>1, <3>2, TypeFacts DEF HistoryTyped
  <2> QED BY <2>1, <2>2
<1>7. /\ slide' \in [Devices -> BOOLEAN] /\ tired' \in [Devices -> BOOLEAN]
      /\ send' \in [Devices -> 0..made] /\ UNCHANGED <<control, relay, made, entered, displaced>>
  BY <1>1, TypeFacts
<1> QED BY <1>1, <1>2, <1>4, <1>5, <1>6, <1>7, DeviceMoves

LEMMA FiveMinutesKeeps == ASSUME PairInv, NEW d \in Devices, FiveMinutes(d) PROVE PairInv'
<1>1. /\ tired' = [tired EXCEPT ![d] = TRUE]
      /\ UNCHANGED <<control, relay, joins, made, phase, slide, entered, send, history>>
  BY DEF FiveMinutes
<1>2. tired' \in [Devices -> BOOLEAN]
  BY <1>1, TypeFacts
<1>3. PairTyped'
  BY <1>1, <1>2 DEF PairInv, PairTyped, ControlTyped, RelayTyped, DeviceTyped, HistoryTyped,
                    control, relay, history
<1>4. CallsMade' /\ CodesEntered' /\ AnswersAreOwn' /\ JoinedStayJoined'
  BY <1>1 DEF PairInv, CallsMade, CodesEntered, AnswersAreOwn, JoinedStayJoined, control, history
<1>5. RoomsHold' /\ OneIsLetIn'
  BY <1>1 DEF PairInv, RoomsHold, OneIsLetIn, LetIn, control, relay
<1> QED BY <1>3, <1>4, <1>5 DEF PairInv

\* A new call has let nobody in, and the device has the code it joins with.
LEMMA AttemptKeeps ==
  ASSUME PairInv, NEW d \in Devices, NEW c \in 1..codes, Attempt(d, c),
         entered' \in [Devices -> 0..codes], entered'[d] = c,
         \A e \in Devices \ {d} : entered'[e] = entered[e],
         UNCHANGED <<control, relay, slide, send, tired, history>>
  PROVE  PairInv'
<1>1. /\ made < MaxJoins /\ made' = made + 1
      /\ phase' = [phase EXCEPT ![d] = "joining"]
      /\ UNCHANGED <<live, code, codes, status, hostSock, room, guest, slide, send, tired,
                     dropped, displaced, faults>>
  BY DEF Attempt, control, relay, history
<1>2. PICK r : /\ r = [NoJoin EXCEPT !.dev = d, !.code = c, !.sock = "new", !.msg = "offer",
                                     !.channel = "connecting", !.call = "running"]
               /\ joins' = [joins EXCEPT ![made + 1] = r]
  BY DEF Attempt
<1>3. /\ r \in Offer /\ r.dev = d /\ r.code = c /\ r.sock = "new" /\ r.msg = "offer" /\ r.got = 0
      /\ r.host = "none" /\ r.channel = "connecting" /\ r.call = "running"
  <2>1. c \in Nat
    BY TypeFacts, Numbers
  <2>2. r = [dev |-> d, code |-> c, sock |-> "new", msg |-> "offer", got |-> 0, host |-> "none",
             channel |-> "connecting", call |-> "running"]
    BY <1>2 DEF NoJoin
  <2> QED BY <2>1, <2>2 DEF Offer
<1>4. made + 1 \in JoinNos /\ made' \in 0..MaxJoins /\ made \in Nat /\ codes \in Nat
  BY <1>1, TypeFacts, Numbers
<1>5. /\ joins' \in [JoinNos -> Offer] /\ joins'[made + 1] = r
      /\ \A b \in JoinNos \ {made + 1} : joins'[b] = joins[b]
  BY <1>2, <1>3, <1>4, TypeFacts
<1>6. PairTyped'
  <2>1. send' \in [Devices -> 0..made']
    <3>1. 0..made \subseteq 0..made'
      BY <1>1, <1>4
    <3> QED BY <1>1, <3>1, TypeFacts
  <2>2. DeviceTyped'
    BY <1>1, <2>1, TypeFacts DEF DeviceTyped
  <2> QED BY <1>1, <1>4, <1>5, <2>2 DEF PairInv, PairTyped, ControlTyped, RelayTyped, HistoryTyped
<1>7. CallsMade'
  <2>1. ASSUME NEW b \in JoinNos
        PROVE  IF b <= made' THEN joins'[b].code \in 1..codes' /\ joins'[b].call # "none"
                             ELSE joins'[b] = NoJoin
    <3>1. CASE b = made + 1
      BY <1>1, <1>3, <1>4, <1>5, <3>1
    <3>2. CASE b # made + 1
      <4>1. b <= made' <=> b <= made
        BY <1>1, <1>4, <3>2, Numbers
      <4> QED BY <1>1, <1>5, <3>2, <4>1 DEF PairInv, CallsMade
    <3> QED BY <3>1, <3>2
  <2> QED BY <2>1 DEF CallsMade
<1>8. CodesEntered' /\ AnswersAreOwn' /\ JoinedStayJoined'
  <2>1. \A e \in Devices : entered[e] # 0 => entered'[e] # 0
    BY Numbers, TypeFacts
  <2>2. entered'[d] # 0
    BY <1>4
  <2>3. \A e \in Devices : phase'[e] = "stale" => phase[e] = "stale"
    BY <1>1, TypeFacts
  <2>4. \A b \in JoinNos \ {made + 1} : joins[b].dev \in Devices
    BY TypeFacts DEF Offer
  <2>5. CodesEntered'
    BY <1>3, <1>5, <2>1, <2>2, <2>3, <2>4 DEF PairInv, CodesEntered
  <2>6. AnswersAreOwn' /\ JoinedStayJoined'
    BY <1>1, <1>3, <1>5, <2>3 DEF PairInv, AnswersAreOwn, JoinedStayJoined
  <2> QED BY <2>5, <2>6
<1>9. RoomsHold' /\ OneIsLetIn'
  <2>1. \A b \in JoinNos : /\ LetIn(b)' => LetIn(b) /\ joins'[b].code = joins[b].code
                           /\ joins[b].sock \in {"in", "bye"} /\ b <= made =>
                                joins'[b].sock \in {"in", "bye"} /\ joins'[b].code = joins[b].code
    BY <1>3, <1>4, <1>5 DEF LetIn
  <2>2. hostSock' \in [CodeNos -> Sockets] /\ codes <= codes' /\ made <= made' /\ made' \in Nat
    BY <1>1, <1>4, TypeFacts DEF PairInv, PairTyped, RelayTyped
  <2>3. \A e \in CodeNos : e > codes' => hostSock'[e] = "none"
    BY <1>1 DEF PairInv, RoomsHold
  <2> QED BY <1>1, <1>4, <1>7, <2>1, <2>2, <2>3, NobodyIsLetIn
<1> QED BY <1>5, <1>6, <1>7, <1>8, <1>9 DEF PairInv

LEMMA EnterKeeps == ASSUME PairInv, NEW d \in Devices, Enter(d) \/ Retry(d) PROVE PairInv'
<1>1. CASE Enter(d)
  <2>1. PICK c \in 1..codes : Attempt(d, c) /\ entered' = [entered EXCEPT ![d] = c]
    BY <1>1 DEF Enter
  <2>2. /\ entered' \in [Devices -> 0..codes] /\ entered'[d] = c
        /\ \A e \in Devices \ {d} : entered'[e] = entered[e]
    <3>1. c \in 0..codes
      BY TypeFacts, Numbers
    <3> QED BY <2>1, <3>1, TypeFacts
  <2> QED BY <1>1, <2>1, <2>2, AttemptKeeps DEF Enter
<1>2. CASE Retry(d)
  <2>1. PICK c \in 1..codes : c = entered[d]
    <3>1. entered[d] # 0 /\ entered[d] \in 0..codes /\ codes \in Nat
      BY <1>2, TypeFacts, Numbers DEF Retry, PairInv, CodesEntered
    <3> QED BY <3>1
  <2>2. Attempt(d, c) /\ entered' = entered /\ UNCHANGED <<control, relay, slide, send, tired, history>>
    BY <1>2, <2>1 DEF Retry
  <2> QED BY <2>1, <2>2, TypeFacts, AttemptKeeps
<1> QED BY <1>1, <1>2

LEMMA LeavePageKeeps == ASSUME PairInv, NEW d \in Devices, LeavePage(d) PROVE PairInv'
<1>1. /\ faults < MaxFaults /\ faults' = faults + 1
      /\ phase' = [phase EXCEPT ![d] = "idle"] /\ slide' = [slide EXCEPT ![d] = FALSE]
      /\ send' = [send EXCEPT ![d] = 0] /\ tired' = [tired EXCEPT ![d] = FALSE]
      /\ entered' = [entered EXCEPT ![d] = 0]
      /\ UNCHANGED <<live, code, codes, status, hostSock, room, guest, made, dropped, displaced>>
  BY DEF LeavePage, Fault, control, relay
<1>2. ASSUME NEW a \in JoinNos
      PROVE  /\ joins'[a] \in Offer /\ joins'[a].dev = joins[a].dev /\ joins'[a].code = joins[a].code
             /\ joins'[a].msg = joins[a].msg /\ joins'[a].got = joins[a].got
             /\ joins'[a].host = joins[a].host
             /\ joins'[a].sock \in {joins[a].sock, Goes(joins[a].sock)}
             /\ joins'[a].channel = joins[a].channel \/ joins'[a].channel = "closed"
             /\ joins'[a].call = "none" <=> joins[a].call = "none"
             /\ joins[a].call = "none" => joins'[a] = joins[a]
             /\ joins[a].dev = d /\ joins[a].call # "none" => joins'[a].channel = "closed"
  <2>1. joins'[a] = IF joins[a].dev # d \/ joins[a].call = "none" THEN joins[a]
                    ELSE [joins[a] EXCEPT !.sock = Goes(joins[a].sock), !.channel = "closed",
                                          !.call = IF joins[a].call = "running" THEN "failed"
                                                   ELSE joins[a].call]
    BY DEF LeavePage
  <2>2. joins[a] \in Offer
    BY TypeFacts
  <2>3. CASE joins[a].dev # d \/ joins[a].call = "none"
    BY <2>1, <2>2, <2>3
  <2>4. CASE joins[a].dev = d /\ joins[a].call # "none"
    <3>1. PICK q : q = [joins[a] EXCEPT !.sock = Goes(joins[a].sock)]
      OBVIOUS
    <3>2. /\ q \in Offer /\ q.dev = joins[a].dev /\ q.code = joins[a].code /\ q.call = joins[a].call
          /\ q.sock = Goes(joins[a].sock) /\ q.msg = joins[a].msg /\ q.got = joins[a].got
          /\ q.host = joins[a].host
      BY <2>2, <3>1 DEF Offer, Goes
    <3>3. PICK r : r = [q EXCEPT !.channel = "closed"]
      OBVIOUS
    <3>4. /\ r \in Offer /\ r.dev = q.dev /\ r.code = q.code /\ r.call = q.call /\ r.sock = q.sock
          /\ r.msg = q.msg /\ r.got = q.got /\ r.host = q.host /\ r.channel = "closed"
      BY <3>2, <3>3 DEF Offer
    <3>5. joins'[a] = [r EXCEPT !.call = IF joins[a].call = "running" THEN "failed" ELSE joins[a].call]
      BY <2>1, <2>4, <3>1, <3>3
    <3>6. /\ joins'[a] \in Offer /\ joins'[a].dev = r.dev /\ joins'[a].code = r.code
          /\ joins'[a].sock = r.sock /\ joins'[a].msg = r.msg /\ joins'[a].got = r.got
          /\ joins'[a].host = r.host /\ joins'[a].channel = "closed" /\ joins'[a].call # "none"
      BY <2>2, <2>4, <3>4, <3>5 DEF Offer
    <3> QED BY <2>4, <3>2, <3>4, <3>6
  <2> QED BY <2>3, <2>4
<1>3. joins' \in [JoinNos -> Offer]
  BY <1>2 DEF LeavePage
<1>4. CallsMade'
  <2>1. \A a \in JoinNos : joins[a] = NoJoin => joins'[a] = NoJoin
    BY <1>2, NoneIsAnOffer
  <2> QED BY <1>1, <1>2, <2>1 DEF PairInv, CallsMade
<1>5. PairTyped'
  <2>1. DeviceTyped'
    <3>1. 0 \in 0..codes /\ 0 \in 0..made
      BY TypeFacts, Numbers
    <3> QED BY <1>1, <3>1, TypeFacts DEF DeviceTyped
  <2>2. HistoryTyped'
    BY <1>1, TypeFacts, Numbers DEF HistoryTyped
  <2> QED BY <1>1, <1>3, <2>1, <2>2 DEF PairInv, PairTyped, ControlTyped, RelayTyped
<1>6. CodesEntered' /\ AnswersAreOwn' /\ JoinedStayJoined'
  <2>1. \A a \in JoinNos : joins[a].dev = d => joins'[a].channel \notin {"connecting", "open"}
    <3>1. \A a \in JoinNos : joins[a].call = "none" => joins[a] = NoJoin
      BY DEF PairInv, CallsMade
    <3> QED BY <1>2, <3>1, NoneIsAnOffer
  <2>2. \A e \in Devices \ {d} : phase'[e] = phase[e] /\ entered'[e] = entered[e]
    BY <1>1, TypeFacts
  <2>3. phase'[d] = "idle"
    BY <1>1, TypeFacts
  <2>4. \A a \in JoinNos : joins[a].dev \in Devices
    BY TypeFacts DEF Offer
  <2>5. CodesEntered'
    BY <1>2, <2>1, <2>2, <2>3, <2>4 DEF PairInv, CodesEntered
  <2>6. AnswersAreOwn' /\ JoinedStayJoined'
    BY <1>1, <1>2, <2>2, <2>3 DEF PairInv, AnswersAreOwn, JoinedStayJoined
  <2> QED BY <2>5, <2>6
<1>7. RoomsHold' /\ OneIsLetIn'
  <2>1. \A b \in JoinNos : /\ LetIn(b)' => LetIn(b) /\ joins'[b].code = joins[b].code
                           /\ joins[b].sock \in {"in", "bye"} /\ b <= made =>
                                joins'[b].sock \in {"in", "bye"} /\ joins'[b].code = joins[b].code
    BY <1>2 DEF LetIn, Goes
  <2>2. /\ hostSock' \in [CodeNos -> Sockets] /\ codes' \in Nat /\ codes <= codes'
        /\ made' \in Nat /\ made <= made'
    BY <1>1, TypeFacts, Numbers DEF PairInv, PairTyped, RelayTyped
  <2>3. \A e \in CodeNos : e > codes' => hostSock'[e] = "none"
    BY <1>1 DEF PairInv, RoomsHold
  <2> QED BY <1>1, <1>4, <2>1, <2>2, <2>3, NobodyIsLetIn
<1> QED BY <1>4, <1>5, <1>6, <1>7 DEF PairInv

LEMMA PairNext == PairInv /\ [Next]_vars => PairInv'
<1>1. SUFFICES ASSUME PairInv, [Next]_vars PROVE PairInv'
  OBVIOUS
<1>2. CASE UNCHANGED vars
  <2>1. PairTyped'
    BY <1>1, <1>2 DEF PairInv, PairTyped, ControlTyped, RelayTyped, DeviceTyped, HistoryTyped,
                      vars, control, relay, device, history
  <2>2. CallsMade' /\ CodesEntered' /\ AnswersAreOwn' /\ JoinedStayJoined'
    BY <1>1, <1>2 DEF PairInv, CallsMade, CodesEntered, AnswersAreOwn, JoinedStayJoined,
                      vars, control, relay, device, history
  <2>3. RoomsHold' /\ OneIsLetIn'
    BY <1>1, <1>2 DEF PairInv, RoomsHold, OneIsLetIn, LetIn, vars, control, relay
  <2> QED BY <2>1, <2>2, <2>3 DEF PairInv
<1>3. CASE StartPairing \/ CodeExpires \/ EndSession \/ HostSocketFails
  BY <1>1, <1>3, StartPairingKeeps, CodeExpiresKeeps, EndSessionKeeps, HostSocketFailsKeeps
<1>4. ASSUME NEW c \in CodeNos, HostArrives(c) \/ HostLeaves(c) \/ Sweep(c) PROVE PairInv'
  BY <1>1, <1>4, HostArrivesKeeps, HostLeavesKeeps, SweepKeeps
<1>5. ASSUME NEW a \in JoinNos, Call(a) PROVE PairInv'
  BY <1>1, <1>5, HostTakesKeeps, HostOpensKeeps, GuestArrivesKeeps, JoinRoomKeeps, ForwardOfferKeeps,
     ForwardAnswerKeeps, GuestLeavesKeeps, ChannelOpensKeeps, JoinSucceedsKeeps, JoinFailsKeeps,
     StateArrivesKeeps, ChannelClosesKeeps DEF Call, Wait
<1>6. ASSUME NEW d \in Devices, Enter(d) \/ Retry(d) \/ FiveMinutes(d) \/ LeavePage(d) PROVE PairInv'
  BY <1>1, <1>6, EnterKeeps, FiveMinutesKeeps, LeavePageKeeps
<1> QED BY <1>1, <1>2, <1>3, <1>4, <1>5, <1>6 DEF Next

(***************************************************************************)
(* A code lets one device in, the relay gives an answer to the device whose*)
(* offer it answers, and a device goes stale only when the network or the  *)
(* control took its channel (signal.rs, pairing.rs, join.rs): for any      *)
(* devices, codes, calls and faults.                                       *)
(***************************************************************************)
THEOREM EachCodeOneDevice == Spec => []OneDevicePerCode
<1>1. PairInv => PairingTypeOK
  <2>1. SUFFICES ASSUME PairInv PROVE PairingTypeOK
    OBVIOUS
  <2>2. \A c \in CodeNos : /\ guest[c] \in 0..made
                           /\ guest[c] # 0 => /\ room[c] /\ joins[guest[c]].code = c
                                              /\ joins[guest[c]].sock \in {"in", "bye"}
    BY <2>1, TypeFacts, Numbers DEF PairInv, PairTyped, RelayTyped, RoomsHold
  <2>3. ASSUME NEW a \in JoinNos
        PROVE  joins[a].code \in 0..codes /\ joins[a].got \in 0..made
    <3>1. made \in Nat /\ codes \in Nat /\ a \in Nat /\ joins[a].got \in {0, a}
      BY <2>1, TypeFacts, Numbers DEF PairInv, AnswersAreOwn
    <3>2. CASE a <= made
      BY <2>1, <3>1, <3>2 DEF PairInv, CallsMade
    <3>3. CASE ~(a <= made)
      <4>1. joins[a] = NoJoin
        BY <2>1, <3>3 DEF PairInv, CallsMade
      <4> QED BY <3>1, <4>1, NoneIsAnOffer DEF NoJoin
    <3> QED BY <3>2, <3>3
  <2>4. guest \in [CodeNos -> 0..made]
    BY <2>1, <2>2 DEF PairInv, PairTyped, RelayTyped
  <2>5. joins \in [JoinNos -> [dev : Devices, code : 0..codes,
                               sock : {"none", "new", "vet", "in", "bye", "over"},
                               msg : {"none", "offer", "relayed", "taken", "answered", "lost"},
                               got : 0..made, host : {"none", "new", "open", "closed"},
                               channel : {"none", "connecting", "open", "closed"},
                               call : {"none", "running", "ok", "failed"}]]
    <3>1. joins \in [JoinNos -> Offer]
      BY <2>1, TypeFacts
    <3> QED BY <2>3, <3>1 DEF Offer
  <2> QED BY <2>1, <2>2, <2>4, <2>5 DEF PairInv, PairTyped, ControlTyped, RelayTyped, DeviceTyped,
                                        HistoryTyped, PairingTypeOK, Sockets
<1>2. PairInv => OneDeviceAnswered
  <2>1. SUFFICES ASSUME PairInv PROVE OneDeviceAnswered
    OBVIOUS
  <2>2. ASSUME NEW c \in CodeNos
        PROVE  Cardinality({a \in JoinNos : joins[a].code = c /\ joins[a].host # "none"}) <= 1
    <3> DEFINE answered == {a \in JoinNos : joins[a].code = c /\ joins[a].host # "none"}
    <3>1. \A a \in answered : answered = {a}
      BY <2>1 DEF PairInv, OneIsLetIn, LetIn
    <3> HIDE DEF answered
    <3>2. Cardinality(answered) <= 1
      <4>1. CASE answered = {}
        BY <4>1, FS_EmptySet
      <4>2. CASE answered # {}
        BY <3>1, <4>2, FS_Singleton
      <4> QED BY <4>1, <4>2
    <3> QED BY <3>2 DEF answered
  <2> QED BY <2>1, <2>2 DEF PairInv, AnswersAreOwn, OneDeviceAnswered
<1>3. PairInv => JoinedStayJoined
  BY DEF PairInv
<1>4. PairInv => OneDevicePerCode
  BY <1>1, <1>2, <1>3 DEF OneDevicePerCode
<1> QED BY PairInit, PairNext, <1>4, PTL DEF Spec

-----------------------------------------------------------------------------
(* The image behind the slides                                             *)

Upload == [by : Laptops, image : Images, at : {"plan", "put", "complete", "keep", "failed", "done"},
           fresh : BOOLEAN]

ImagesTyped ==
  /\ uploads \in Seq(Upload)
  /\ theme \in [Laptops -> Images \cup {Colour}] /\ row \in Images \cup {Colour}

\* The server has answered for it.
Had ==
  /\ \A u \in DOMAIN uploads : uploads[u].at = "keep" => uploads[u].image \in stored
  /\ \A d \in Laptops : theme[d] \in stored \cup {Colour}
  /\ row \in stored \cup {Colour}

ImagesInv == ImagesTyped /\ Had

LEMMA ImagesInit == BackgroundsInit => ImagesInv
  BY DEF BackgroundsInit, ImagesInv, ImagesTyped, Had, Colour

\* An upload that moves on is one, and stays where the others are.
LEMMA UploadMoves ==
  ASSUME ImagesTyped, NEW u \in DOMAIN uploads,
         NEW step \in {"plan", "put", "complete", "keep", "failed", "done"}, Moves(u, step)
  PROVE  /\ uploads' \in Seq(Upload) /\ DOMAIN uploads' = DOMAIN uploads
         /\ uploads'[u].at = step /\ uploads'[u].image = uploads[u].image
         /\ \A v \in DOMAIN uploads : v # u => uploads'[v] = uploads[v]
<1> DEFINE new == [uploads[u] EXCEPT !.at = step]
<1>1. uploads \in Seq(Upload) /\ uploads[u] \in Upload
  BY DEF ImagesTyped
<1>2. new \in Upload /\ new.at = step /\ new.image = uploads[u].image
  BY <1>1 DEF Upload
<1>3. uploads' = [uploads EXCEPT ![u] = new]
  BY DEF Moves
<1> HIDE DEF new
<1>4. QED
  BY <1>1, <1>2, <1>3

\* A new state of the session leaves the rest alone.
LEMMA ChangedSo ==
  ASSUME ImagesInv, NEW d \in Laptops, NEW next \in (stored \cap Images) \cup {Colour}, Changed(d, next)
  PROVE  /\ theme' \in [Laptops -> Images \cup {Colour}]
         /\ \A e \in Laptops : theme'[e] \in stored \cup {Colour}
  BY DEF Changed, ImagesInv, ImagesTyped, Had

LEMMA ImagesStep ==
  ASSUME ImagesInv, [BackgroundsNext]_imageVars
  PROVE  ImagesInv'
<1>1. CASE UNCHANGED imageVars
  BY <1>1 DEF ImagesInv, ImagesTyped, Had, imageVars
<1>2. ASSUME NEW d \in Laptops, NEW image \in Images, ChooseImage(d, image)
      PROVE  ImagesInv'
  <2> DEFINE new == [by |-> d, image |-> image, at |-> "plan", fresh |-> TRUE]
  <2>1. new \in Upload
    BY DEF Upload
  <2>2. new.at = "plan"
    OBVIOUS
  <2>3. uploads' = Append(uploads, new) /\ UNCHANGED <<stored, theme, row>>
    BY <1>2 DEF ChooseImage
  <2> HIDE DEF new
  <2>4. /\ uploads' \in Seq(Upload)
        /\ \A v \in DOMAIN uploads' : uploads'[v] = new \/ (v \in DOMAIN uploads /\ uploads'[v] = uploads[v])
    BY <2>1, <2>3 DEF ImagesInv, ImagesTyped
  <2>5. QED
    BY <2>2, <2>3, <2>4 DEF ImagesInv, ImagesTyped, Had
<1>3. ASSUME NEW d \in Laptops, PickColour(d) \/ UseWorkspaceTheme(d) \/ Advance(d)
      PROVE  ImagesInv'
  <2>1. \E next \in (stored \cap Images) \cup {Colour} : Changed(d, next)
    BY <1>3 DEF PickColour, UseWorkspaceTheme, Advance, ImagesInv, ImagesTyped, Had
  <2>2. UNCHANGED <<stored, row, uploads>>
    BY <1>3 DEF PickColour, UseWorkspaceTheme, Advance
  <2>3. QED
    BY <2>1, <2>2, ChangedSo DEF ImagesInv, ImagesTyped, Had
<1>4. ASSUME NEW d \in Laptops, SaveToWorkspace(d)
      PROVE  ImagesInv'
  BY <1>4 DEF SaveToWorkspace, ImagesInv, ImagesTyped, Had
<1>5. ASSUME NEW u \in DOMAIN uploads, Plan(u)
      PROVE  ImagesInv'
  <2>1. CASE uploads[u].image \notin stored
    BY <1>5, <2>1, UploadMoves DEF Plan, Moves, ImagesInv, ImagesTyped, Had
  <2>2. CASE uploads[u].image \in stored
    <3> DEFINE new == [uploads[u] EXCEPT !.at = "complete", !.fresh = FALSE]
    <3>1. new \in Upload /\ new.at = "complete"
      <4>1. uploads[u] \in Upload
        BY DEF ImagesInv, ImagesTyped
      <4>2. QED
        BY <4>1 DEF Upload
    <3>2. uploads' = [uploads EXCEPT ![u] = new] /\ UNCHANGED <<stored, theme, row>>
      BY <1>5, <2>2 DEF Plan
    <3> HIDE DEF new
    <3>3. uploads' \in Seq(Upload)
      BY <3>1, <3>2 DEF ImagesInv, ImagesTyped
    <3>4. QED
      BY <3>1, <3>2, <3>3 DEF ImagesInv, ImagesTyped, Had
  <2>3. QED
    BY <2>1, <2>2
<1>6. ASSUME NEW u \in DOMAIN uploads, Put(u)
      PROVE  ImagesInv'
  BY <1>6, UploadMoves DEF Put, ImagesInv, ImagesTyped, Had
<1>7. ASSUME NEW u \in DOMAIN uploads, Complete(u)
      PROVE  ImagesInv'
  <2>1. stored \subseteq stored' /\ uploads[u].image \in stored'
    BY <1>7 DEF Complete
  <2>2. QED
    BY <1>7, <2>1, UploadMoves DEF Complete, ImagesInv, ImagesTyped, Had
<1>8. ASSUME NEW u \in DOMAIN uploads, Fail(u)
      PROVE  ImagesInv'
  BY <1>8, UploadMoves DEF Fail, Moves, ImagesInv, ImagesTyped, Had
<1>9. ASSUME NEW u \in DOMAIN uploads, Keep(u)
      PROVE  ImagesInv'
  <2>1. uploads[u].by \in Laptops /\ uploads[u].image \in (stored \cap Images) \cup {Colour}
    <3>1. uploads[u] \in Upload /\ uploads[u].image \in stored
      BY <1>9 DEF Keep, ImagesInv, ImagesTyped, Had
    <3>2. QED
      BY <3>1 DEF Upload
  <2>2. QED
    BY <1>9, <2>1, UploadMoves, ChangedSo DEF Keep, ImagesInv, ImagesTyped, Had
<1>10. ASSUME NEW d \in Laptops, Cut(d)
       PROVE  ImagesInv'
  BY <1>10 DEF Cut, ImagesInv, ImagesTyped, Had
<1>11. ASSUME NEW n \in DOMAIN lookups, ReadCopy(n) \/ Fetch(n)
       PROVE  ImagesInv'
  BY <1>11 DEF ReadCopy, Fetch, ImagesInv, ImagesTyped, Had
<1>12. QED
  BY <1>1, <1>2, <1>3, <1>4, <1>5, <1>6, <1>7, <1>8, <1>9, <1>10, <1>11 DEF BackgroundsNext

Lookup == [on : Laptops, image : Images, at : {"read", "fetch", "done"}]

LooksTyped ==
  /\ lookups \in Seq(Lookup) /\ shown \in [Laptops -> Images \cup {Colour}]
  /\ \A n \in DOMAIN lookups : lookups[n].image # Colour

\* While no look-up was overtaken, those under way are for the image of the theme.
Settled(d) ==
  /\ \A n \in Waiting(d) : lookups[n].image = theme[d]
  /\ Waiting(d) = {} => shown[d] = theme[d] \/ (shown[d] = Colour /\ theme[d] # Colour)

LooksInv == LooksTyped /\ \A d \in Laptops \ overtaken : Settled(d)

\* A new state of the session: the screen of that device looks its image up.
LEMMA ChangedLooks ==
  ASSUME ImagesInv, LooksInv, NEW d \in Laptops,
         NEW next \in (stored \cap Images) \cup {Colour}, Changed(d, next)
  PROVE  LooksInv'
<1>1. /\ theme' = [theme EXCEPT ![d] = next] /\ theme \in [Laptops -> Images \cup {Colour}]
      /\ lookups \in Seq(Lookup) /\ shown \in [Laptops -> Images \cup {Colour}]
      /\ \A n \in DOMAIN lookups : lookups[n].image # Colour
  BY DEF Changed, ImagesInv, ImagesTyped, LooksInv, LooksTyped
<1>2. theme'[d] = next /\ \A e \in Laptops \ {d} : theme'[e] = theme[e]
  BY <1>1
<1>3. CASE next = Colour
  <2>1. /\ shown' = [shown EXCEPT ![d] = Colour] /\ lookups' = lookups
        /\ overtaken' = IF Waiting(d) = {} THEN overtaken \ {d} ELSE overtaken \cup {d}
    BY <1>3 DEF Changed
  <2>2. \A e \in Laptops : Waiting(e)' = Waiting(e)
    BY <2>1 DEF Waiting
  <2>3. LooksTyped'
    BY <1>1, <2>1 DEF LooksTyped
  <2>4. ASSUME NEW e \in Laptops \ overtaken'
        PROVE  Settled(e)'
    <3>1. CASE e = d
      BY <1>1, <1>2, <1>3, <2>1, <2>2, <2>4, <3>1 DEF Settled
    <3>2. CASE e # d
      <4>1. Settled(e) /\ shown'[e] = shown[e]
        BY <1>1, <2>1, <2>4, <3>2 DEF LooksInv
      <4> QED BY <1>2, <2>1, <2>2, <3>2, <4>1 DEF Settled
    <3> QED BY <3>1, <3>2
  <2> QED BY <2>3, <2>4 DEF LooksInv
<1>4. CASE next # Colour
  <2> DEFINE new == [on |-> d, image |-> next, at |-> "read"]
  <2>1. /\ lookups' = Append(lookups, new) /\ shown' = shown
        /\ overtaken' = IF \A n \in Waiting(d) : lookups[n].image = next
                        THEN IF Waiting(d) = {} THEN overtaken \ {d} ELSE overtaken
                        ELSE overtaken \cup {d}
    BY <1>4 DEF Changed
  <2>2. new \in Lookup /\ new.on = d /\ new.image = next /\ new.at = "read"
    BY <1>4 DEF Lookup
  <2> HIDE DEF new
  <2>3. /\ lookups' \in Seq(Lookup) /\ Len(lookups) \in Nat
        /\ DOMAIN lookups = 1..Len(lookups) /\ DOMAIN lookups' = 1..(Len(lookups) + 1)
        /\ lookups'[Len(lookups) + 1] = new
        /\ \A n \in DOMAIN lookups : lookups'[n] = lookups[n]
    BY <1>1, <2>1, <2>2
  <2>4. LooksTyped'
    BY <1>1, <1>4, <2>1, <2>2, <2>3 DEF LooksTyped
  <2>5. \A e \in Laptops \ {d} : Waiting(e)' = Waiting(e)
    BY <2>2, <2>3 DEF Waiting
  <2>6. Waiting(d)' = Waiting(d) \cup {Len(lookups) + 1}
    BY <2>2, <2>3 DEF Waiting
  <2>7. ASSUME NEW e \in Laptops \ overtaken'
        PROVE  Settled(e)'
    <3>1. CASE e = d
      <4>1. \A n \in Waiting(d) : n \in DOMAIN lookups /\ lookups[n].image = next
        <5>1. \A n \in Waiting(d) : lookups[n].image = next
          BY <2>1, <2>7, <3>1
        <5> QED BY <5>1 DEF Waiting
      <4>2. \A n \in Waiting(d)' : lookups'[n].image = theme'[d]
        BY <1>2, <2>2, <2>3, <2>6, <4>1
      <4> QED BY <2>6, <3>1, <4>2 DEF Settled
    <3>2. CASE e # d
      <4>1. Settled(e) /\ shown'[e] = shown[e]
        BY <2>1, <2>7, <3>2 DEF LooksInv
      <4>2. \A n \in Waiting(e) : n \in DOMAIN lookups
        BY DEF Waiting
      <4> QED BY <1>2, <2>3, <2>5, <3>2, <4>1, <4>2 DEF Settled
    <3> QED BY <3>1, <3>2
  <2> QED BY <2>4, <2>7 DEF LooksInv
<1> QED BY <1>3, <1>4

\* A look-up that goes on to another step is one, and stays where the others are.
LEMMA LookMoves ==
  ASSUME LooksTyped, NEW n \in DOMAIN lookups, NEW step \in {"fetch", "done"},
         lookups' = [lookups EXCEPT ![n].at = step]
  PROVE  /\ lookups' \in Seq(Lookup) /\ DOMAIN lookups' = DOMAIN lookups
         /\ lookups'[n].at = step /\ lookups'[n].image = lookups[n].image /\ lookups'[n].on = lookups[n].on
         /\ \A m \in DOMAIN lookups \ {n} : lookups'[m] = lookups[m]
<1> DEFINE new == [lookups[n] EXCEPT !.at = step]
<1>1. lookups \in Seq(Lookup) /\ lookups[n] \in Lookup
  BY DEF LooksTyped
<1>2. new \in Lookup /\ new.at = step /\ new.image = lookups[n].image /\ new.on = lookups[n].on
  BY <1>1 DEF Lookup
<1>3. lookups' = [lookups EXCEPT ![n] = new]
  OBVIOUS
<1> HIDE DEF new
<1> QED BY <1>1, <1>2, <1>3

\* A screen gets the image that was looked up, or the colour, and one look-up less waits.
LEMMA PaintsKeep ==
  ASSUME LooksInv, NEW n \in DOMAIN lookups, lookups[n].at # "done",
         NEW image \in {lookups[n].image, Colour}, Paints(n, image), UNCHANGED <<theme, overtaken>>
  PROVE  LooksInv'
<1>1. /\ shown' = [shown EXCEPT ![lookups[n].on] = image]
      /\ lookups' = [lookups EXCEPT ![n].at = "done"]
  BY DEF Paints
<1>2. LooksTyped /\ lookups[n] \in Lookup /\ lookups[n].on \in Laptops
  <2>1. LooksTyped /\ lookups[n] \in Lookup
    BY DEF LooksInv, LooksTyped
  <2> QED BY <2>1 DEF Lookup
<1>3. /\ lookups' \in Seq(Lookup) /\ DOMAIN lookups' = DOMAIN lookups
      /\ lookups'[n].at = "done" /\ lookups'[n].image = lookups[n].image /\ lookups'[n].on = lookups[n].on
      /\ \A m \in DOMAIN lookups \ {n} : lookups'[m] = lookups[m]
  BY <1>1, <1>2, LookMoves
<1>4. LooksTyped'
  BY <1>1, <1>2, <1>3 DEF LooksTyped, Lookup
<1>5. \A d \in Laptops : Waiting(d)' = Waiting(d) \ {n}
  BY <1>3 DEF Waiting
<1>6. n \in Waiting(lookups[n].on)
  BY DEF Waiting
<1>7. ASSUME NEW d \in Laptops \ overtaken'
      PROVE  Settled(d)'
  <2>1. Settled(d) /\ \A m \in Waiting(d) : m \in DOMAIN lookups
    BY <1>7 DEF LooksInv, Waiting
  <2>2. \A m \in Waiting(d)' : lookups'[m].image = theme'[d]
    BY <1>3, <1>5, <2>1 DEF Settled
  <2>3. CASE d = lookups[n].on
    <3>1. lookups[n].image = theme[d] /\ theme[d] # Colour
      BY <1>2, <1>6, <2>1, <2>3 DEF Settled, LooksTyped
    <3>2. shown'[d] \in {theme[d], Colour}
      BY <1>1, <1>2, <2>3, <3>1 DEF LooksTyped
    <3> QED BY <2>2, <3>1, <3>2 DEF Settled
  <2>4. CASE d # lookups[n].on
    <3>1. shown'[d] = shown[d]
      BY <1>1, <1>2, <2>4 DEF LooksTyped
    <3>2. n \notin Waiting(d)
      BY <2>4 DEF Waiting
    <3> QED BY <1>5, <2>1, <2>2, <3>1, <3>2 DEF Settled
  <2> QED BY <2>3, <2>4
<1> QED BY <1>4, <1>7 DEF LooksInv

LEMMA LooksInit == BackgroundsInit => LooksInv
  BY DEF BackgroundsInit, LooksInv, LooksTyped, Settled, Waiting

LEMMA LooksStep ==
  ASSUME ImagesInv, LooksInv, [BackgroundsNext]_imageVars
  PROVE  LooksInv'
<1>1. ASSUME UNCHANGED <<theme, shown, lookups, overtaken>>
      PROVE  LooksInv'
  BY <1>1 DEF LooksInv, LooksTyped, Settled, Waiting
<1>2. CASE UNCHANGED imageVars
  BY <1>1, <1>2 DEF imageVars
<1>3. ASSUME NEW d \in Laptops,
             \/ \E image \in Images : ChooseImage(d, image)
             \/ SaveToWorkspace(d) \/ Cut(d)
      PROVE  LooksInv'
  BY <1>1, <1>3 DEF ChooseImage, SaveToWorkspace, Cut
<1>4. ASSUME NEW d \in Laptops, PickColour(d) \/ UseWorkspaceTheme(d) \/ Advance(d)
      PROVE  LooksInv'
  <2>1. \E next \in (stored \cap Images) \cup {Colour} : Changed(d, next)
    BY <1>4 DEF PickColour, UseWorkspaceTheme, Advance, ImagesInv, ImagesTyped, Had
  <2> QED BY <2>1, ChangedLooks
<1>5. ASSUME NEW u \in DOMAIN uploads, Plan(u) \/ Put(u) \/ Complete(u) \/ Fail(u)
      PROVE  LooksInv'
  BY <1>1, <1>5 DEF Plan, Put, Complete, Fail
<1>6. ASSUME NEW u \in DOMAIN uploads, Keep(u)
      PROVE  LooksInv'
  <2>1. uploads[u].by \in Laptops /\ uploads[u].image \in (stored \cap Images) \cup {Colour}
    <3>1. uploads[u] \in Upload /\ uploads[u].image \in stored
      BY <1>6 DEF Keep, ImagesInv, ImagesTyped, Had
    <3> QED BY <3>1 DEF Upload
  <2>2. Changed(uploads[u].by, uploads[u].image)
    BY <1>6 DEF Keep
  <2> QED BY <2>1, <2>2, ChangedLooks
<1>7. ASSUME NEW n \in DOMAIN lookups, ReadCopy(n)
      PROVE  LooksInv'
  <2>1. CASE lookups[n].image \in kept[lookups[n].on]
    BY <1>7, <2>1, PaintsKeep DEF ReadCopy
  <2>2. CASE lookups[n].image \notin kept[lookups[n].on]
    <3>1. /\ lookups' = [lookups EXCEPT ![n].at = "fetch"] /\ lookups[n].at = "read"
          /\ UNCHANGED <<shown, theme, overtaken>>
      BY <1>7, <2>2 DEF ReadCopy
    <3>2. LooksTyped
      BY DEF LooksInv
    <3>3. /\ lookups' \in Seq(Lookup) /\ DOMAIN lookups' = DOMAIN lookups
          /\ lookups'[n].at = "fetch" /\ lookups'[n].image = lookups[n].image
          /\ lookups'[n].on = lookups[n].on
          /\ \A m \in DOMAIN lookups \ {n} : lookups'[m] = lookups[m]
      BY <3>1, <3>2, LookMoves
    <3>4. \A d \in Laptops : Waiting(d)' = Waiting(d)
      BY <3>1, <3>3 DEF Waiting
    <3>5. \A m \in DOMAIN lookups : lookups'[m].image = lookups[m].image
      BY <3>3
    <3>6. \A d \in Laptops : \A m \in Waiting(d) : m \in DOMAIN lookups
      BY DEF Waiting
    <3> QED BY <3>1, <3>2, <3>3, <3>4, <3>5, <3>6 DEF LooksInv, LooksTyped, Settled
  <2> QED BY <2>1, <2>2
<1>8. ASSUME NEW n \in DOMAIN lookups, Fetch(n)
      PROVE  LooksInv'
  BY <1>8, PaintsKeep DEF Fetch
<1> QED BY <1>2, <1>3, <1>4, <1>5, <1>6, <1>7, <1>8 DEF BackgroundsNext

(***************************************************************************)
(* What the theme of a session or of the workspace names is in the bucket, *)
(* whoever uploads what at the same time and whatever fails on the way; and*)
(* once a screen has looked everything up, and no look-up of it was        *)
(* overtaken, it shows the theme's image or, without a copy, its colour    *)
(* (background.rs `upload`, audience.rs).                                  *)
(***************************************************************************)
THEOREM ThemesHaveTheirImages == BackgroundsSpec => []ImagesFollowTheTheme
<1>1. BackgroundsInit => ImagesInv /\ LooksInv
  BY ImagesInit, LooksInit
<1>2. ImagesInv /\ LooksInv /\ [BackgroundsNext]_imageVars => ImagesInv' /\ LooksInv'
  BY ImagesStep, LooksStep
<1>3. ImagesInv /\ LooksInv => ImagesFollowTheTheme
  BY DEF ImagesInv, Had, LooksInv, Settled, ImagesFollowTheTheme,
         ImagesCanBeHad, ScreenShowsTheTheme
<1> QED BY <1>1, <1>2, <1>3, PTL DEF BackgroundsSpec

-----------------------------------------------------------------------------
(* The search box                                                          *)

Lib == [rows : Libraries \cup {<<>>}, edits : Nat]
Text == [text : Texts \cup {<<>>}, typed : Nat, when : Nat]
BuildTask == [is : {"build"}, library : Lib]
QueryTask == [is : {"query"}, text : Text]
QueryMessage == [is : {"query"}, text : Text, id : Nat]
Lists == {F!Shown(query, known) : query \in Text, known \in Lib}
Answer == [id : Nat, hits : Lists]

SearchTyped ==
  /\ worker \in BOOLEAN /\ songs \in Lib /\ index \in Lib /\ box \in Text /\ latest \in Nat
  /\ timers \in Seq(BuildTask \cup QueryTask) /\ asked \in Seq(BuildTask \cup QueryMessage)
  /\ answers \in Seq(Answer) /\ hits \in Lists \cup {<<>>}
  /\ ~worker => asked = <<>> /\ answers = <<>>

Builds(queue) == {n \in DOMAIN queue : queue[n].is = "build"}
Queries(queue) == {n \in DOMAIN queue : queue[n].is = "query"}

\* The queries that the worker has, and those that it has answered.
Sent == {[id |-> asked[n].id, of |-> asked[n].text] : n \in Queries(asked)}
        \cup {[id |-> answers[n].id, of |-> answers[n].hits[1].of] : n \in DOMAIN answers}

\* A text is asked for after all that were typed before it.
IsOf(text) == text.typed <= box.typed /\ (text.typed = box.typed => text = box)
AskedInOrder ==
  /\ \A n \in Queries(timers) :
       /\ IsOf(timers[n].text)
       /\ \A m \in Queries(timers) : m < n => timers[m].text.typed < timers[n].text.typed
       /\ \A s \in Sent : s.of.typed < timers[n].text.typed
       /\ hits # <<>> => hits[1].of.typed < timers[n].text.typed
  /\ \A s \in Sent :
       /\ IsOf(s.of) /\ s.id <= latest
       /\ s.id = latest => /\ \A t \in Sent : t.of.typed <= s.of.typed
                           /\ hits # <<>> => hits[1].of.typed <= s.of.typed
  /\ hits # <<>> => IsOf(hits[1].of)

\* What is in the box is shown, or is on its way.
OnItsWay ==
  ~F!IsBlank(box.text) => \/ \E n \in Queries(timers) : timers[n].text = box
                          \/ \E s \in Sent : s.id = latest /\ s.of = box
                          \/ hits # <<>> /\ hits[1].of = box

\* The songs are indexed in the order of their changes.
BuiltInOrder ==
  /\ \A n \in Builds(asked) :
       /\ index.edits <= asked[n].library.edits /\ asked[n].library.edits <= songs.edits
       /\ \A m \in Builds(asked) : n < m => asked[n].library.edits <= asked[m].library.edits
       /\ \A m \in Builds(timers) : asked[n].library.edits <= timers[m].library.edits
  /\ \A n \in Builds(timers) :
       /\ index.edits <= timers[n].library.edits /\ timers[n].library.edits <= songs.edits
       /\ \A m \in Builds(timers) : n < m => timers[n].library.edits <= timers[m].library.edits
  /\ index.edits <= songs.edits

\* Some songs are indexed by the time that a query before place n of a queue is answered.
IndexedBefore(edits, queue, n) ==
  \E m \in Builds(queue) : m < n /\ queue[m].library.edits >= edits
Indexed(edits, n) ==
  \/ index.edits >= edits \/ \E m \in Builds(asked) : asked[m].library.edits >= edits
  \/ IndexedBefore(edits, timers, n)

IndexedInTime ==
  /\ Indexed(songs.edits, Len(timers) + 1)
  /\ \A n \in Queries(timers) : Indexed(timers[n].text.when, n)
  /\ \A n \in Queries(asked) :
       index.edits >= asked[n].text.when \/ IndexedBefore(asked[n].text.when, asked, n)
  /\ \A n \in DOMAIN answers : answers[n].hits[1].knew.edits >= answers[n].hits[1].of.when
  /\ hits # <<>> => hits[1].knew.edits >= hits[1].of.when

SearchInv == SearchTyped /\ AskedInOrder /\ OnItsWay /\ BuiltInOrder /\ IndexedInTime

LEMMA FieldsOf ==
  /\ \A t \in BuildTask \cup QueryTask :
       /\ t.is \in {"build", "query"}
       /\ t.is = "build" => t.library \in Lib
       /\ t.is = "query" => t.text \in Text
  /\ \A m \in BuildTask \cup QueryMessage :
       /\ m.is \in {"build", "query"}
       /\ m.is = "build" => m \in BuildTask /\ m.library \in Lib
       /\ m.is = "query" => m.text \in Text /\ m.id \in Nat
  /\ \A l \in Lib : l.edits \in Nat
  /\ \A t \in Text : t.typed \in Nat /\ t.when \in Nat
  BY DEF BuildTask, QueryTask, QueryMessage, Lib, Text

LEMMA ListsAre ==
  /\ \A query \in Text, known \in Lib :
       /\ F!Shown(query, known) \in Lists /\ F!Shown(query, known) # <<>>
       /\ F!Shown(query, known)[1].of = query /\ F!Shown(query, known)[1].knew = known
  /\ \A list \in Lists : list # <<>> /\ list[1].of \in Text /\ list[1].knew \in Lib
<1>1. \A query \in Text, known \in Lib :
        /\ F!Shown(query, known) \in Lists /\ F!Shown(query, known) # <<>>
        /\ F!Shown(query, known)[1].of = query /\ F!Shown(query, known)[1].knew = known
  BY DEF F!Shown, Lists
<1>2. ASSUME NEW list \in Lists
      PROVE  list # <<>> /\ list[1].of \in Text /\ list[1].knew \in Lib
  <2>1. \E query \in Text : \E known \in Lib : list = F!Shown(query, known)
    BY DEF Lists
  <2> QED BY <2>1, <1>1
<1> QED BY <1>1, <1>2

\* A message at the end of a queue.
LEMMA Appended ==
  ASSUME NEW S, NEW queue \in Seq(S), NEW e \in S, NEW longer, longer = Append(queue, e)
  PROVE  /\ longer \in Seq(S) /\ Len(queue) \in Nat
         /\ Len(longer) = Len(queue) + 1 /\ longer[Len(queue) + 1] = e
         /\ DOMAIN longer = DOMAIN queue \cup {Len(queue) + 1}
         /\ \A n \in DOMAIN queue : longer[n] = queue[n] /\ n \in Nat /\ n <= Len(queue)
<1>1. /\ longer \in Seq(S) /\ Len(longer) = Len(queue) + 1 /\ Len(queue) \in Nat
      /\ DOMAIN longer = 1..(Len(queue) + 1) /\ DOMAIN queue = 1..Len(queue)
  OBVIOUS
<1>2. longer[Len(queue) + 1] = e /\ \A n \in 1..Len(queue) : longer[n] = queue[n]
  OBVIOUS
<1> QED BY <1>1, <1>2

\* The message at the front is taken.
LEMMA Taken ==
  ASSUME NEW S, NEW queue \in Seq(S), queue # <<>>, NEW rest, rest = Tail(queue)
  PROVE  /\ rest \in Seq(S) /\ Head(queue) = queue[1] /\ 1 \in DOMAIN queue /\ queue[1] \in S
         /\ Len(rest) \in Nat /\ Len(queue) = Len(rest) + 1
         /\ \A n \in DOMAIN rest : n \in Nat /\ n + 1 \in DOMAIN queue /\ rest[n] = queue[n + 1]
         /\ \A n \in DOMAIN queue : n \in Nat /\ n >= 1 /\ n <= Len(queue)
         /\ \A n \in DOMAIN queue : n # 1 => /\ n - 1 \in DOMAIN rest /\ rest[n - 1] = queue[n]
<1>1. /\ rest \in Seq(S) /\ Head(queue) = queue[1] /\ Len(queue) = Len(rest) + 1
      /\ Len(queue) \in Nat /\ Len(rest) \in Nat /\ DOMAIN rest = 1..Len(rest)
      /\ DOMAIN queue = 1..Len(queue)
  OBVIOUS
<1>2. \A n \in 1..Len(rest) : rest[n] = queue[n + 1]
  OBVIOUS
<1>3. 1 \in DOMAIN queue /\ queue[1] \in S
  BY <1>1
<1> QED BY <1>1, <1>2, <1>3

LEMMA WhatIsThere ==
  ASSUME SearchTyped
  PROVE  /\ songs.edits \in Nat /\ index.edits \in Nat /\ box.typed \in Nat /\ box.when \in Nat
         /\ latest \in Nat
         /\ \A n \in DOMAIN timers : timers[n].is \in {"build", "query"} /\ n \in Nat
         /\ \A n \in DOMAIN asked : asked[n].is \in {"build", "query"} /\ n \in Nat
         /\ \A n \in Builds(timers) : n \in DOMAIN timers /\ timers[n].library \in Lib
                                      /\ timers[n].library.edits \in Nat
         /\ \A n \in Builds(asked) : n \in DOMAIN asked /\ asked[n].library \in Lib
                                     /\ asked[n].library.edits \in Nat
         /\ \A n \in Queries(timers) : n \in DOMAIN timers /\ timers[n].text \in Text
                                       /\ timers[n].text.typed \in Nat /\ timers[n].text.when \in Nat
         /\ \A n \in Queries(asked) : n \in DOMAIN asked /\ asked[n].text \in Text
                                      /\ asked[n].text.when \in Nat
         /\ \A s \in Sent : s.id \in Nat /\ s.of \in Text /\ s.of.typed \in Nat
         /\ hits # <<>> => hits[1].of \in Text /\ hits[1].of.typed \in Nat
<1>1. /\ songs \in Lib /\ index \in Lib /\ box \in Text /\ latest \in Nat
      /\ hits # <<>> => hits \in Lists
  BY DEF SearchTyped
<1>2. \A n \in DOMAIN timers : n \in Nat /\ timers[n] \in BuildTask \cup QueryTask
  BY DEF SearchTyped
<1>3. \A n \in DOMAIN asked : n \in Nat /\ asked[n] \in BuildTask \cup QueryMessage
  BY DEF SearchTyped
<1>4. \A n \in DOMAIN answers : answers[n].id \in Nat /\ answers[n].hits \in Lists
  <2>1. \A n \in DOMAIN answers : answers[n] \in Answer
    BY DEF SearchTyped
  <2> QED BY <2>1 DEF Answer
<1>5. \A s \in Sent : s.id \in Nat /\ s.of \in Text
  BY <1>3, <1>4, FieldsOf, ListsAre DEF Sent, Queries
<1> QED BY <1>1, <1>2, <1>3, <1>5, FieldsOf, ListsAre DEF Builds, Queries

LEMMA SearchInit == F!Init => SearchInv
<1>1. SUFFICES ASSUME F!Init PROVE SearchInv
  OBVIOUS
<1>2. /\ worker \in BOOLEAN /\ songs = [rows |-> <<>>, edits |-> 0] /\ index = songs
      /\ box = [text |-> <<>>, typed |-> 0, when |-> 0] /\ latest = 0
      /\ timers = <<[is |-> "build", library |-> songs]>>
      /\ asked = <<>> /\ answers = <<>> /\ hits = <<>>
  BY <1>1 DEF F!Init, F!Build
<1>3. SearchTyped
  <2>1. songs \in Lib /\ box \in Text
    BY <1>2 DEF Lib, Text
  <2>2. [is |-> "build", library |-> songs] \in BuildTask \cup QueryTask
    BY <2>1 DEF BuildTask
  <2> QED BY <1>2, <2>1, <2>2 DEF SearchTyped
<1>4. Sent = {} /\ Queries(timers) = {} /\ Queries(asked) = {} /\ Builds(asked) = {}
  BY <1>2 DEF Sent, Queries, Builds
<1>5. Builds(timers) = {1} /\ timers[1].library.edits = 0
  BY <1>2 DEF Builds
<1>6. OnItsWay
  BY <1>2 DEF OnItsWay, F!IsBlank
<1> QED BY <1>2, <1>3, <1>4, <1>5, <1>6 DEF SearchInv, AskedInOrder, BuiltInOrder, IndexedInTime, Indexed

\* The songs change: a task to index them sleeps behind the others.
LEMMA SearchSongs == SearchInv /\ F!SongsChange => SearchInv'
<1>1. SUFFICES ASSUME SearchInv, F!SongsChange PROVE SearchInv'
  OBVIOUS
<1> DEFINE last == Len(timers) + 1
<1>2. /\ songs' \in Lib /\ songs'.edits = songs.edits + 1
      /\ [is |-> "build", library |-> songs'] \in BuildTask \cup QueryTask
      /\ timers' = Append(timers, [is |-> "build", library |-> songs'])
      /\ UNCHANGED <<worker, box, asked, index, answers, latest, hits>>
  BY <1>1 DEF F!SongsChange, F!Build, SearchInv, SearchTyped, Lib, BuildTask
<1>3. SearchTyped /\ timers \in Seq(BuildTask \cup QueryTask)
  BY <1>1 DEF SearchInv, SearchTyped
<1>4. /\ timers' \in Seq(BuildTask \cup QueryTask) /\ Len(timers) \in Nat
      /\ Len(timers') = last /\ timers'[last] = [is |-> "build", library |-> songs']
      /\ DOMAIN timers' = DOMAIN timers \cup {last}
      /\ \A n \in DOMAIN timers : timers'[n] = timers[n] /\ n \in Nat /\ n < last
  BY <1>2, <1>3, Appended
<1>5. SearchTyped'
  BY <1>2, <1>3, <1>4 DEF SearchTyped
<1>6. /\ Queries(timers') = Queries(timers) /\ Queries(asked') = Queries(asked)
      /\ Builds(timers') = Builds(timers) \cup {last} /\ Builds(asked') = Builds(asked)
      /\ timers'[last].library.edits = songs.edits + 1
      /\ Sent' = Sent
      /\ \A n \in DOMAIN timers : timers'[n] = timers[n]
  BY <1>2, <1>4 DEF Queries, Builds, Sent
<1>7. AskedInOrder' /\ OnItsWay'
  <2>1. \A n \in Queries(timers) : n \in DOMAIN timers
    BY DEF Queries
  <2> QED BY <1>1, <1>2, <1>6, <2>1 DEF SearchInv, AskedInOrder, OnItsWay, IsOf
<1>8. BuiltInOrder'
  <2>1. \A n \in Builds(timers) : n \in DOMAIN timers /\ n \in Nat /\ n < last
    BY <1>4 DEF Builds
  <2> QED BY <1>1, <1>2, <1>3, <1>4, <1>6, <2>1, WhatIsThere DEF SearchInv, BuiltInOrder
<1>9. IndexedInTime'
  <2>1. \A n \in Builds(timers) \cup Queries(timers) : n \in DOMAIN timers /\ n \in Nat /\ n < last
    BY <1>4 DEF Builds, Queries
  <2>2. ASSUME NEW edits, NEW n \in Queries(timers), Indexed(edits, n)
        PROVE  Indexed(edits, n)'
    BY <1>2, <1>6, <2>1, <2>2 DEF Indexed, IndexedBefore
  <2>3. Indexed(songs.edits, Len(timers) + 1)'
    BY <1>2, <1>3, <1>4, <1>6, WhatIsThere DEF Indexed, IndexedBefore
  <2>4. \A n \in Queries(timers) : Indexed(timers[n].text.when, n)
    BY <1>1 DEF SearchInv, IndexedInTime
  <2>5. \A n \in Queries(timers') : Indexed(timers[n].text.when, n)' 
    BY <1>6, <2>1, <2>2, <2>4 
  <2>6. \A n \in Queries(asked') : 
          index'.edits >= asked'[n].text.when \/ IndexedBefore(asked'[n].text.when, asked', n)
    BY <1>1, <1>2 DEF SearchInv, IndexedInTime
  <2>7. /\ \A n \in DOMAIN answers' : answers'[n].hits[1].knew.edits >= answers'[n].hits[1].of.when
        /\ hits' # <<>> => hits'[1].knew.edits >= hits'[1].of.when
    BY <1>1, <1>2 DEF SearchInv, IndexedInTime
  <2> QED BY <2>3, <2>5, <2>6, <2>7 DEF IndexedInTime
<1> QED BY <1>5, <1>7, <1>8, <1>9 DEF SearchInv

\* The box changes: a task to search for its text sleeps behind the others.
LEMMA SearchType == SearchInv /\ F!Type => SearchInv'
<1>1. SUFFICES ASSUME SearchInv, F!Type PROVE SearchInv'
  OBVIOUS
<1>0. PICK last : last = Len(timers) + 1
  OBVIOUS
<1>2. /\ box' \in Text /\ box'.typed = box.typed + 1 /\ box'.when = songs.edits
      /\ UNCHANGED <<worker, songs, asked, index, answers, latest>>
      /\ \/ F!IsBlank(box'.text) /\ hits' = <<>> /\ UNCHANGED timers
         \/ /\ timers' = Append(timers, [is |-> "query", text |-> box']) /\ UNCHANGED hits
            /\ [is |-> "query", text |-> box'] \in BuildTask \cup QueryTask
  BY <1>1 DEF F!Type, F!Query, SearchInv, SearchTyped, Text, Lib, QueryTask
<1>3. SearchTyped /\ timers \in Seq(BuildTask \cup QueryTask)
  BY <1>1 DEF SearchInv, SearchTyped
<1>4. /\ Sent' = Sent /\ Queries(asked') = Queries(asked) /\ Builds(asked') = Builds(asked)
  BY <1>2 DEF Sent, Queries, Builds
<1>5. \A of \in Text : IsOf(of) => of.typed < box'.typed /\ IsOf(of)'
  BY <1>2, <1>3, WhatIsThere, FieldsOf DEF IsOf
<1>6. CASE F!IsBlank(box'.text) /\ hits' = <<>> /\ UNCHANGED timers
  <2>1. SearchTyped'
    BY <1>2, <1>3, <1>6 DEF SearchTyped
  <2>2. /\ Queries(timers') = Queries(timers) /\ Builds(timers') = Builds(timers)
    BY <1>6
  <2>3. AskedInOrder' /\ OnItsWay'
    BY <1>1, <1>2, <1>3, <1>4, <1>5, <1>6, <2>2, WhatIsThere DEF SearchInv, AskedInOrder, OnItsWay
  <2>4. BuiltInOrder'
    BY <1>1, <1>2, <1>4, <1>6, <2>2 DEF SearchInv, BuiltInOrder
  <2>5. IndexedInTime'
    BY <1>1, <1>2, <1>4, <1>6, <2>2 DEF SearchInv, IndexedInTime, Indexed, IndexedBefore
  <2> QED BY <2>1, <2>3, <2>4, <2>5 DEF SearchInv
<1>7. CASE /\ timers' = Append(timers, [is |-> "query", text |-> box']) /\ UNCHANGED hits
           /\ [is |-> "query", text |-> box'] \in BuildTask \cup QueryTask
  <2>1. /\ timers' \in Seq(BuildTask \cup QueryTask) /\ Len(timers) \in Nat
        /\ Len(timers') = last /\ timers'[last] = [is |-> "query", text |-> box']
        /\ DOMAIN timers' = DOMAIN timers \cup {last}
        /\ \A n \in DOMAIN timers : timers'[n] = timers[n] /\ n \in Nat /\ n < last
    BY <1>0, <1>3, <1>7, Appended
  <2>2. SearchTyped'
    BY <1>2, <1>3, <1>7, <2>1 DEF SearchTyped
  <2>3. /\ Queries(timers') = Queries(timers) \cup {last} /\ Builds(timers') = Builds(timers)
        /\ timers'[last].text = box'
        /\ \A n \in Queries(timers) \cup Builds(timers) :
             timers'[n] = timers[n] /\ n \in Nat /\ n < last
    BY <2>1 DEF Queries, Builds
  <2>4. AskedInOrder'
    <3>1. ASSUME NEW n \in Queries(timers)
          PROVE  /\ IsOf(timers[n].text)' /\ timers'[n].text = timers[n].text
                 /\ timers'[n].text.typed < box'.typed
                 /\ \A m \in Queries(timers) : m < n => timers'[m].text.typed < timers'[n].text.typed
                 /\ \A s \in Sent : s.of.typed < timers'[n].text.typed
                 /\ hits # <<>> => hits[1].of.typed < timers'[n].text.typed
      BY <1>1, <1>3, <1>5, <2>3, WhatIsThere DEF SearchInv, AskedInOrder
    <3>2. ASSUME NEW s \in Sent
          PROVE  /\ IsOf(s.of)' /\ s.of.typed < box'.typed /\ s.id <= latest
                 /\ s.id = latest => /\ \A t \in Sent : t.of.typed <= s.of.typed
                                     /\ hits # <<>> => hits[1].of.typed <= s.of.typed
      BY <1>1, <1>3, <1>5, WhatIsThere DEF SearchInv, AskedInOrder
    <3>3. hits # <<>> => IsOf(hits[1].of)' /\ hits[1].of.typed < box'.typed
      BY <1>1, <1>3, <1>5, <1>7, WhatIsThere DEF SearchInv, AskedInOrder
    <3>4. box'.typed <= box'.typed
      BY <1>2, <1>3, WhatIsThere
    <3>5. \A n \in Queries(timers) : n < last /\ ~(last < n)
      BY <2>1, <2>3
    <3>6. ~(last < last)
      BY <2>1
    <3>7. ASSUME NEW n \in Queries(timers')
          PROVE  /\ IsOf(timers[n].text)'
                 /\ \A m \in Queries(timers') : m < n => timers'[m].text.typed < timers'[n].text.typed
                 /\ \A s \in Sent' : s.of.typed < timers'[n].text.typed
                 /\ hits' # <<>> => hits'[1].of.typed < timers'[n].text.typed
      <4>1. CASE n = last
        BY <1>4, <1>7, <2>3, <3>1, <3>2, <3>3, <3>4, <3>6, <4>1 DEF IsOf
      <4>2. CASE n \in Queries(timers)
        BY <1>4, <1>7, <2>3, <3>1, <3>5, <4>2 DEF IsOf
      <4> QED BY <2>3, <4>1, <4>2
    <3>8. ASSUME NEW s \in Sent'
          PROVE  /\ IsOf(s.of)' /\ s.id <= latest'
                 /\ s.id = latest' => /\ \A t \in Sent' : t.of.typed <= s.of.typed
                                      /\ hits' # <<>> => hits'[1].of.typed <= s.of.typed
      BY <1>2, <1>4, <1>7, <3>2
    <3>9. hits' # <<>> => IsOf(hits[1].of)'
      BY <3>3, <1>7
    <3> QED BY <3>7, <3>8, <3>9 DEF AskedInOrder
  <2>5. OnItsWay'
    BY <2>3 DEF OnItsWay
  <2>6. BuiltInOrder'
    BY <1>1, <1>2, <1>4, <2>3 DEF SearchInv, BuiltInOrder
  <2>7. IndexedInTime'
    <3>1. Indexed(songs.edits, last)
      BY <1>0, <1>1 DEF SearchInv, IndexedInTime
    <3>2. Indexed(songs.edits, Len(timers) + 1)'
      BY <1>2, <1>4, <2>1, <2>3, <3>1 DEF Indexed, IndexedBefore
    <3>3. ASSUME NEW n \in Queries(timers)
          PROVE  Indexed(timers[n].text.when, n)'
      <4>1. Indexed(timers[n].text.when, n)
        BY <1>1 DEF SearchInv, IndexedInTime
      <4> QED BY <1>2, <1>4, <2>3, <4>1 DEF Indexed, IndexedBefore
    <3>4. Indexed(timers[last].text.when, last)'
      BY <1>2, <1>4, <2>3, <3>1 DEF Indexed, IndexedBefore
    <3>6. \A n \in Queries(timers') : Indexed(timers[n].text.when, n)'
      BY <2>3, <3>3, <3>4 DEF Indexed, IndexedBefore
    <3>7. \A n \in Queries(asked') :
            index'.edits >= asked'[n].text.when \/ IndexedBefore(asked'[n].text.when, asked', n)
      BY <1>1, <1>2 DEF SearchInv, IndexedInTime
    <3>8. /\ \A n \in DOMAIN answers' : answers'[n].hits[1].knew.edits >= answers'[n].hits[1].of.when
          /\ hits' # <<>> => hits'[1].knew.edits >= hits'[1].of.when
      BY <1>1, <1>2, <1>7 DEF SearchInv, IndexedInTime
    <3> QED BY <3>2, <3>6, <3>7, <3>8 DEF IndexedInTime
  <2> QED BY <2>2, <2>4, <2>5, <2>6, <2>7 DEF SearchInv
<1> QED BY <1>2, <1>6, <1>7

\* The tasks that still sleep when one has woken up.
LEMMA TasksMoveUp ==
  ASSUME SearchInv, timers # <<>>, timers' = Tail(timers)
  PROVE  /\ timers' \in Seq(BuildTask \cup QueryTask) /\ timers[1] \in BuildTask \cup QueryTask
         /\ Len(timers') \in Nat /\ Len(timers) = Len(timers') + 1
         /\ \A n \in Queries(timers') :
              /\ n \in Nat /\ timers'[n].text.when \in Nat
              /\ IsOf(timers'[n].text)
              /\ \A m \in Queries(timers') : m < n => timers'[m].text.typed < timers'[n].text.typed
              /\ \A s \in Sent : s.of.typed < timers'[n].text.typed
              /\ hits # <<>> => hits[1].of.typed < timers'[n].text.typed
              /\ Indexed(timers'[n].text.when, n + 1)
              /\ 1 \in Queries(timers) => timers[1].text.typed < timers'[n].text.typed
         /\ \A n \in Builds(timers') :
              /\ n \in Nat /\ timers'[n].library.edits \in Nat
              /\ index.edits <= timers'[n].library.edits /\ timers'[n].library.edits <= songs.edits
              /\ \A m \in Builds(timers') :
                   n < m => timers'[n].library.edits <= timers'[m].library.edits
              /\ \A m \in Builds(asked) : asked[m].library.edits <= timers'[n].library.edits
              /\ 1 \in Builds(timers) => timers[1].library.edits <= timers'[n].library.edits
         /\ \A n \in Queries(timers) :
              n # 1 => n - 1 \in Queries(timers') /\ timers'[n - 1] = timers[n]
         /\ \A n \in Builds(timers) : n \in Nat /\ n >= 1
              /\ (n # 1 => n - 1 \in Builds(timers') /\ timers'[n - 1] = timers[n])
         /\ timers[1].is = "build" => 1 \in Builds(timers) /\ 1 \notin Queries(timers)
         /\ timers[1].is = "query" => 1 \in Queries(timers) /\ 1 \notin Builds(timers)
<1>1. SearchTyped /\ timers \in Seq(BuildTask \cup QueryTask)
  BY DEF SearchInv, SearchTyped
<1>2. /\ timers' \in Seq(BuildTask \cup QueryTask) /\ timers[1] \in BuildTask \cup QueryTask
      /\ Len(timers') \in Nat /\ Len(timers) = Len(timers') + 1
  BY <1>1, Taken
<1>3. /\ \A n \in Queries(timers') :
           n \in Nat /\ n >= 1 /\ n + 1 \in Queries(timers) /\ timers'[n] = timers[n + 1]
      /\ \A n \in Builds(timers') :
           n \in Nat /\ n >= 1 /\ n + 1 \in Builds(timers) /\ timers'[n] = timers[n + 1]
      /\ \A n \in Queries(timers) : n \in Nat /\ n >= 1
           /\ (n # 1 => n - 1 \in Queries(timers') /\ timers'[n - 1] = timers[n])
      /\ \A n \in Builds(timers) : n \in Nat /\ n >= 1
           /\ (n # 1 => n - 1 \in Builds(timers') /\ timers'[n - 1] = timers[n])
      /\ timers[1].is = "build" => 1 \in Builds(timers) /\ 1 \notin Queries(timers)
      /\ timers[1].is = "query" => 1 \in Queries(timers) /\ 1 \notin Builds(timers)
  <2>1. /\ 1 \in DOMAIN timers
        /\ \A n \in DOMAIN timers' :
             n \in Nat /\ n >= 1 /\ n + 1 \in DOMAIN timers /\ timers'[n] = timers[n + 1]
        /\ \A n \in DOMAIN timers : n \in Nat /\ n >= 1
        /\ \A n \in DOMAIN timers : n # 1 => n - 1 \in DOMAIN timers' /\ timers'[n - 1] = timers[n]
    BY <1>1, Taken
  <2>2. \A n \in Queries(timers') :
           n \in Nat /\ n >= 1 /\ n + 1 \in Queries(timers) /\ timers'[n] = timers[n + 1]
    BY <2>1 DEF Queries
  <2>3. \A n \in Builds(timers') :
           n \in Nat /\ n >= 1 /\ n + 1 \in Builds(timers) /\ timers'[n] = timers[n + 1]
    BY <2>1 DEF Builds
  <2>4. \A n \in Queries(timers) : n \in Nat /\ n >= 1
           /\ (n # 1 => n - 1 \in Queries(timers') /\ timers'[n - 1] = timers[n])
    BY <2>1 DEF Queries
  <2>5. \A n \in Builds(timers) : n \in Nat /\ n >= 1
           /\ (n # 1 => n - 1 \in Builds(timers') /\ timers'[n - 1] = timers[n])
    BY <2>1 DEF Builds
  <2> QED BY <2>1, <2>2, <2>3, <2>4, <2>5 DEF Queries, Builds
<1>4. ASSUME NEW n \in Queries(timers')
      PROVE  /\ n \in Nat /\ timers'[n].text.when \in Nat
             /\ IsOf(timers'[n].text)
             /\ \A m \in Queries(timers') : m < n => timers'[m].text.typed < timers'[n].text.typed
             /\ \A s \in Sent : s.of.typed < timers'[n].text.typed
             /\ hits # <<>> => hits[1].of.typed < timers'[n].text.typed
             /\ Indexed(timers'[n].text.when, n + 1)
             /\ 1 \in Queries(timers) => timers[1].text.typed < timers'[n].text.typed
  <2>1. n \in Nat /\ n >= 1 /\ n + 1 \in Queries(timers) /\ timers'[n] = timers[n + 1]
    BY <1>3
  <2>2. ASSUME NEW m \in Queries(timers'), m < n
        PROVE  m + 1 \in Queries(timers) /\ timers'[m] = timers[m + 1] /\ m + 1 < n + 1
    <3>1. m \in Nat /\ m + 1 \in Queries(timers) /\ timers'[m] = timers[m + 1]
      BY <1>3
    <3>2. m + 1 < n + 1
      BY <2>1, <2>2, <3>1
    <3> QED BY <3>1, <3>2
  <2>3. 1 < n + 1
    BY <2>1
  <2>4. /\ timers[n + 1].text.when \in Nat /\ IsOf(timers[n + 1].text)
        /\ \A m \in Queries(timers) : m < n + 1 => timers[m].text.typed < timers[n + 1].text.typed
        /\ \A s \in Sent : s.of.typed < timers[n + 1].text.typed
        /\ hits # <<>> => hits[1].of.typed < timers[n + 1].text.typed
        /\ Indexed(timers[n + 1].text.when, n + 1)
    BY <1>1, <2>1, WhatIsThere DEF SearchInv, AskedInOrder, IndexedInTime
  <2> QED BY <2>1, <2>2, <2>3, <2>4
<1>5. ASSUME NEW n \in Builds(timers')
      PROVE  /\ n \in Nat /\ timers'[n].library.edits \in Nat
             /\ index.edits <= timers'[n].library.edits /\ timers'[n].library.edits <= songs.edits
             /\ \A m \in Builds(timers') :
                  n < m => timers'[n].library.edits <= timers'[m].library.edits
             /\ \A m \in Builds(asked) : asked[m].library.edits <= timers'[n].library.edits
             /\ 1 \in Builds(timers) => timers[1].library.edits <= timers'[n].library.edits
  <2>1. n \in Nat /\ n >= 1 /\ n + 1 \in Builds(timers) /\ timers'[n] = timers[n + 1]
    BY <1>3
  <2>2. ASSUME NEW m \in Builds(timers'), n < m
        PROVE  m + 1 \in Builds(timers) /\ timers'[m] = timers[m + 1] /\ n + 1 < m + 1
    <3>1. m \in Nat /\ m + 1 \in Builds(timers) /\ timers'[m] = timers[m + 1]
      BY <1>3
    <3>2. n + 1 < m + 1
      BY <2>1, <2>2, <3>1
    <3> QED BY <3>1, <3>2
  <2>3. 1 < n + 1
    BY <2>1
  <2>4. /\ timers[n + 1].library.edits \in Nat
        /\ index.edits <= timers[n + 1].library.edits /\ timers[n + 1].library.edits <= songs.edits
        /\ \A m \in Builds(timers) :
             n + 1 < m => timers[n + 1].library.edits <= timers[m].library.edits
        /\ \A m \in Builds(asked) : asked[m].library.edits <= timers[n + 1].library.edits
        /\ 1 \in Builds(timers) => timers[1].library.edits <= timers[n + 1].library.edits
    BY <1>1, <2>1, <2>3, WhatIsThere DEF SearchInv, BuiltInOrder
  <2> QED BY <2>1, <2>2, <2>4
<1> QED BY <1>2, <1>3, <1>4, <1>5

\* The page has something indexed: by the worker, or where it is.
LEMMA WakeToBuild ==
  ASSUME SearchInv, timers # <<>>, timers' = Tail(timers), timers[1].is = "build",
         IF worker THEN asked' = Append(asked, timers[1]) /\ UNCHANGED index
                   ELSE index' = timers[1].library /\ UNCHANGED asked,
         UNCHANGED <<worker, songs, box, answers, latest, hits>>
  PROVE  SearchInv'
<1>1. SearchTyped
  BY DEF SearchInv
<1>2. /\ timers' \in Seq(BuildTask \cup QueryTask)
      /\ timers[1] \in BuildTask /\ timers[1].library \in Lib /\ timers[1].library.edits \in Nat
      /\ 1 \in Builds(timers) /\ 1 \notin Queries(timers)
      /\ Len(timers') \in Nat /\ Len(timers) = Len(timers') + 1
  BY TasksMoveUp, FieldsOf DEF BuildTask, QueryTask
<1>3. /\ \A n \in Queries(timers) : n - 1 \in Queries(timers') /\ timers'[n - 1] = timers[n]
      /\ \A n \in Builds(timers) : n \in Nat /\ n >= 1
           /\ (n # 1 => n - 1 \in Builds(timers') /\ timers'[n - 1] = timers[n])
  BY <1>2, TasksMoveUp
<1>4. /\ songs.edits \in Nat /\ index.edits \in Nat
      /\ index.edits <= timers[1].library.edits /\ timers[1].library.edits <= songs.edits
      /\ \A n \in Builds(timers') : timers[1].library.edits <= timers'[n].library.edits
  BY <1>1, <1>2, TasksMoveUp, WhatIsThere DEF SearchInv, BuiltInOrder
<1>5. Sent' = Sent => AskedInOrder' /\ OnItsWay'
  <2>1. SUFFICES ASSUME Sent' = Sent PROVE AskedInOrder' /\ OnItsWay'
    OBVIOUS
  <2>2. OnItsWay'
    BY <1>3, <2>1 DEF SearchInv, OnItsWay
  <2>3. \A n \in Queries(timers') :
          /\ IsOf(timers'[n].text)
          /\ \A m \in Queries(timers') : m < n => timers'[m].text.typed < timers'[n].text.typed
          /\ \A s \in Sent : s.of.typed < timers'[n].text.typed
          /\ hits # <<>> => hits[1].of.typed < timers'[n].text.typed
    BY TasksMoveUp
  <2> QED BY <2>1, <2>2, <2>3 DEF SearchInv, AskedInOrder, IsOf
\* it was first among the tasks
<1>6. ASSUME NEW edits \in Nat, NEW n \in Nat, Indexed(edits, n + 1)
      PROVE  \/ index.edits >= edits \/ timers[1].library.edits >= edits
             \/ \E m \in Builds(asked) : asked[m].library.edits >= edits
             \/ IndexedBefore(edits, timers', n)
  <2>1. CASE \E m \in Builds(timers) : m < n + 1 /\ timers[m].library.edits >= edits
    <3>1. PICK m \in Builds(timers) : m < n + 1 /\ timers[m].library.edits >= edits
      BY <2>1
    <3>2. m = 1 \/ (m - 1 \in Builds(timers') /\ timers'[m - 1] = timers[m])
      BY <1>3
    <3>3. m \in Nat
      BY <1>3
    <3>4. m - 1 < n
      BY <3>1, <3>3
    <3> QED BY <3>1, <3>2, <3>4 DEF IndexedBefore
  <2> QED BY <1>6, <2>1 DEF Indexed, IndexedBefore
<1>7. /\ \A n \in Queries(timers') : n \in Nat /\ timers'[n].text.when \in Nat
                                     /\ Indexed(timers'[n].text.when, n + 1)
      /\ Len(timers) \in Nat /\ Indexed(songs.edits, Len(timers) + 1)
  <2>1. \A n \in Queries(timers') : n \in Nat /\ timers'[n].text.when \in Nat
                                     /\ Indexed(timers'[n].text.when, n + 1)
    BY TasksMoveUp
  <2>2. Indexed(songs.edits, Len(timers) + 1)
    BY DEF SearchInv, IndexedInTime
  <2>3. Len(timers) \in Nat
    BY <1>2
  <2> QED BY <2>1, <2>2, <2>3
<1>8. CASE worker
  <2>1. asked' = Append(asked, timers[1]) /\ index' = index
        /\ asked \in Seq(BuildTask \cup QueryMessage) /\ timers[1] \in BuildTask \cup QueryMessage
    BY <1>1, <1>2, <1>8 DEF SearchTyped
  <2>2. PICK last : last = Len(asked) + 1
    OBVIOUS
  <2>3. /\ asked' \in Seq(BuildTask \cup QueryMessage) /\ last \in Nat
        /\ asked'[last] = timers[1] /\ DOMAIN asked' = DOMAIN asked \cup {last}
        /\ \A n \in DOMAIN asked : asked'[n] = asked[n] /\ n \in Nat /\ n < last
    BY <2>1, <2>2, Appended
  <2>4. /\ Queries(asked') = Queries(asked) /\ Builds(asked') = Builds(asked) \cup {last}
        /\ \A n \in Queries(asked) \cup Builds(asked) :
             asked'[n] = asked[n] /\ n \in Nat /\ n < last
    BY <1>2, <2>3 DEF Queries, Builds, BuildTask
  <2>5. Sent' = Sent
    BY <2>4 DEF Sent
  <2>6. SearchTyped'
    BY <1>1, <1>2, <1>8, <2>1, <2>3 DEF SearchTyped
  <2>7. BuiltInOrder'
    <3>1. ASSUME NEW n \in Builds(asked)
          PROVE  /\ index.edits <= asked[n].library.edits /\ asked[n].library.edits <= songs.edits
                 /\ \A m \in Builds(asked) : n < m => asked[n].library.edits <= asked[m].library.edits
                 /\ asked[n].library.edits <= timers[1].library.edits
                 /\ \A m \in Builds(timers') : asked[n].library.edits <= timers'[m].library.edits
      BY <1>2, TasksMoveUp DEF SearchInv, BuiltInOrder
    <3>2. \A n \in Builds(timers') :
            /\ index.edits <= timers'[n].library.edits /\ timers'[n].library.edits <= songs.edits
            /\ \A m \in Builds(timers') :
                 n < m => timers'[n].library.edits <= timers'[m].library.edits
      BY TasksMoveUp
    <3>3. ~(last < last) /\ \A n \in Builds(asked) : ~(last < n)
      BY <2>3, <2>4
    <3>4. \A n \in Builds(asked) : asked'[n] = asked[n]
      BY <2>4
    <3>5. ASSUME NEW n \in Builds(asked')
          PROVE  /\ index.edits <= asked'[n].library.edits /\ asked'[n].library.edits <= songs.edits
                 /\ \A m \in Builds(asked') : n < m => asked'[n].library.edits <= asked'[m].library.edits
                 /\ \A m \in Builds(timers') : asked'[n].library.edits <= timers'[m].library.edits
      <4>1. CASE n = last
        BY <1>4, <2>3, <2>4, <3>3, <4>1
      <4>2. CASE n \in Builds(asked)
        BY <2>3, <2>4, <3>1, <3>4, <4>2
      <4> QED BY <2>4, <4>1, <4>2
    <3>6. index' = index /\ songs' = songs /\ index.edits <= songs.edits
      BY <1>2, <1>4, <2>1
    <3> QED BY <3>2, <3>5, <3>6 DEF BuiltInOrder
  <2>8. IndexedInTime'
    <3>1. ASSUME NEW edits \in Nat, NEW n \in Nat, Indexed(edits, n + 1)
          PROVE  Indexed(edits, n)'
      BY <1>6, <2>1, <2>3, <2>4, <3>1 DEF Indexed
    <3>2. Indexed(songs.edits, Len(timers) + 1)'
      <4>1. \/ index.edits >= songs.edits \/ timers[1].library.edits >= songs.edits
            \/ \E m \in Builds(asked) : asked[m].library.edits >= songs.edits
            \/ IndexedBefore(songs.edits, timers', Len(timers') + 1)
        BY <1>2, <1>4, <1>6, <1>7
      <4> QED BY <2>1, <2>3, <2>4, <4>1 DEF Indexed
    <3>3. \A n \in Queries(timers') : Indexed(timers[n].text.when, n)'
      BY <1>6, <1>7, <2>1, <2>3, <2>4 DEF Indexed
    <3>4. ASSUME NEW n \in Queries(asked')
          PROVE  index'.edits >= asked'[n].text.when \/ IndexedBefore(asked'[n].text.when, asked', n)
      BY <2>1, <2>4 DEF SearchInv, IndexedInTime, IndexedBefore
    <3> QED BY <3>2, <3>3, <3>4 DEF SearchInv, IndexedInTime
  <2> QED BY <1>5, <2>5, <2>6, <2>7, <2>8 DEF SearchInv
<1>9. CASE ~worker
  <2>1. index' = timers[1].library /\ asked' = asked /\ asked = <<>>
    BY <1>1, <1>9 DEF SearchTyped
  <2>2. Sent' = Sent /\ Queries(asked') = {} /\ Builds(asked') = {} /\ Builds(asked) = {}
    BY <2>1 DEF Sent, Queries, Builds
  <2>3. SearchTyped'
    BY <1>1, <1>2, <1>9, <2>1 DEF SearchTyped
  <2>4. BuiltInOrder'
    <3>1. \A n \in Builds(timers') :
            /\ timers'[n].library.edits <= songs.edits
            /\ \A m \in Builds(timers') :
                 n < m => timers'[n].library.edits <= timers'[m].library.edits
      BY TasksMoveUp
    <3> QED BY <1>4, <2>1, <2>2, <3>1 DEF BuiltInOrder
  <2>5. IndexedInTime'
    <3>1. ASSUME NEW n \in Queries(timers')
          PROVE  Indexed(timers[n].text.when, n)'
      <4>1. \/ index.edits >= timers'[n].text.when \/ timers[1].library.edits >= timers'[n].text.when
            \/ IndexedBefore(timers'[n].text.when, timers', n)
        BY <1>6, <1>7, <2>2
      <4>2. index'.edits >= timers'[n].text.when \/ IndexedBefore(timers'[n].text.when, timers', n)
        <5>1. /\ timers'[n].text.when \in Nat /\ index.edits \in Nat /\ index'.edits \in Nat
              /\ index.edits <= index'.edits /\ index'.edits = timers[1].library.edits
          BY <1>2, <1>4, <1>7, <2>1
        <5>2. timers[1].library.edits >= timers'[n].text.when => index'.edits >= timers'[n].text.when
          BY <5>1
        <5>3. index.edits >= timers'[n].text.when => index'.edits >= timers'[n].text.when
          <6>1. \A a, b, c \in Nat : a >= c /\ a <= b => b >= c
            OBVIOUS
          <6> QED BY <5>1, <6>1
        <5> QED BY <4>1, <5>2, <5>3
      <4> QED BY <4>2 DEF Indexed
    <3>2. Indexed(songs.edits, Len(timers) + 1)'
      <4>1. \/ index.edits >= songs.edits \/ timers[1].library.edits >= songs.edits
            \/ IndexedBefore(songs.edits, timers', Len(timers') + 1)
        BY <1>2, <1>4, <1>6, <1>7, <2>2
      <4>2. index'.edits >= songs.edits \/ IndexedBefore(songs.edits, timers', Len(timers') + 1)
        BY <1>2, <1>4, <2>1, <4>1
      <4> QED BY <4>2 DEF Indexed
    <3> QED BY <2>1, <2>2, <3>1, <3>2 DEF SearchInv, IndexedInTime
  <2> QED BY <1>5, <2>2, <2>3, <2>4, <2>5 DEF SearchInv
<1> QED BY <1>8, <1>9

\* The page has a text searched for: by the worker, or where it is.
LEMMA WakeToSearch ==
  ASSUME SearchInv, timers # <<>>, timers' = Tail(timers), timers[1].is = "query",
         latest' = latest + 1,
         IF worker
         THEN /\ asked' = Append(asked, [is |-> "query", text |-> timers[1].text, id |-> latest'])
              /\ UNCHANGED hits
         ELSE hits' = F!Shown(timers[1].text, index) /\ UNCHANGED asked,
         UNCHANGED <<worker, songs, box, answers, index>>
  PROVE  SearchInv'
<1>1. SearchTyped
  BY DEF SearchInv
<1>2. PICK text : text = timers[1].text
  OBVIOUS
<1>3. /\ timers' \in Seq(BuildTask \cup QueryTask)
      /\ text \in Text /\ text.typed \in Nat /\ text.when \in Nat
      /\ 1 \in Queries(timers) /\ 1 \notin Builds(timers)
      /\ Len(timers') \in Nat /\ Len(timers) = Len(timers') + 1
  BY <1>2, TasksMoveUp, FieldsOf DEF BuildTask, QueryTask
<1>4. /\ \A n \in Queries(timers) :
           n # 1 => n - 1 \in Queries(timers') /\ timers'[n - 1] = timers[n]
      /\ \A n \in Builds(timers) : n \in Nat /\ n >= 1
           /\ n - 1 \in Builds(timers') /\ timers'[n - 1] = timers[n]
  BY <1>3, TasksMoveUp
<1>5. /\ IsOf(text)
      /\ \A s \in Sent : s.of.typed < text.typed
      /\ hits # <<>> => hits[1].of.typed < text.typed
  BY <1>2, <1>3 DEF SearchInv, AskedInOrder
<1>8. Indexed(text.when, 1)
  BY <1>2, <1>3 DEF SearchInv, IndexedInTime
<1>6. \A n \in Queries(timers') :
        /\ IsOf(timers'[n].text) /\ text.typed < timers'[n].text.typed
        /\ \A m \in Queries(timers') : m < n => timers'[m].text.typed < timers'[n].text.typed
        /\ \A s \in Sent : s.of.typed < timers'[n].text.typed
        /\ hits # <<>> => hits[1].of.typed < timers'[n].text.typed
  BY <1>2, <1>3, TasksMoveUp
<1>7. /\ latest \in Nat /\ box \in Text /\ box.typed \in Nat
      /\ \A s \in Sent : s.id \in Nat /\ s.of.typed \in Nat
      /\ hits # <<>> => hits[1].of.typed \in Nat
  BY <1>1, WhatIsThere DEF SearchTyped
<1>9. ASSUME Builds(asked') = Builds(asked),
             \A n \in Builds(asked) : asked'[n] = asked[n]
      PROVE  BuiltInOrder'
  <2>1. \A n \in Builds(timers') :
          /\ index.edits <= timers'[n].library.edits /\ timers'[n].library.edits <= songs.edits
          /\ \A m \in Builds(timers') :
               n < m => timers'[n].library.edits <= timers'[m].library.edits
          /\ \A m \in Builds(asked) : asked[m].library.edits <= timers'[n].library.edits
    BY TasksMoveUp
  <2>2. \A n \in Builds(asked) :
          /\ index.edits <= asked[n].library.edits /\ asked[n].library.edits <= songs.edits
          /\ \A m \in Builds(asked) : n < m => asked[n].library.edits <= asked[m].library.edits
    BY DEF SearchInv, BuiltInOrder
  <2>3. index' = index /\ songs' = songs /\ index.edits <= songs.edits
    BY DEF SearchInv, BuiltInOrder
  <2> QED BY <1>9, <2>1, <2>2, <2>3 DEF BuiltInOrder
\* it was first among the tasks
<1>10. ASSUME NEW edits, NEW n \in Nat, Indexed(edits, n + 1)
       PROVE  \/ index.edits >= edits
              \/ \E m \in Builds(asked) : asked[m].library.edits >= edits
              \/ IndexedBefore(edits, timers', n)
  <2>1. CASE \E m \in Builds(timers) : m < n + 1 /\ timers[m].library.edits >= edits
    <3>1. PICK m \in Builds(timers) : m < n + 1 /\ timers[m].library.edits >= edits
      BY <2>1
    <3>2. m \in Nat /\ m - 1 \in Builds(timers') /\ timers'[m - 1] = timers[m]
      BY <1>4
    <3>3. m - 1 < n
      BY <3>1, <3>2
    <3> QED BY <3>1, <3>2, <3>3 DEF IndexedBefore
  <2> QED BY <1>10, <2>1 DEF Indexed, IndexedBefore
<1>11. ASSUME Builds(asked) \subseteq Builds(asked'), \A n \in Builds(asked) : asked'[n] = asked[n]
       PROVE  /\ Indexed(songs.edits, Len(timers) + 1)'
              /\ \A n \in Queries(timers') : Indexed(timers[n].text.when, n)'
  <2>1. \/ index.edits >= songs.edits
        \/ \E m \in Builds(asked) : asked[m].library.edits >= songs.edits
        \/ IndexedBefore(songs.edits, timers', Len(timers') + 1)
    <3>1. Indexed(songs.edits, Len(timers) + 1)
      BY DEF SearchInv, IndexedInTime
    <3>2. Len(timers) \in Nat
      BY <1>3
    <3> QED BY <1>3, <1>10, <3>1, <3>2
  <2>2. ASSUME NEW n \in Queries(timers')
        PROVE  Indexed(timers[n].text.when, n)'
    <3>1. n \in Nat /\ Indexed(timers'[n].text.when, n + 1)
      BY TasksMoveUp
    <3>2. \/ index.edits >= timers'[n].text.when
          \/ \E m \in Builds(asked) : asked[m].library.edits >= timers'[n].text.when
          \/ IndexedBefore(timers'[n].text.when, timers', n)
      BY <1>10, <3>1
    <3> QED BY <1>11, <3>2 DEF Indexed
  <2> QED BY <1>11, <2>1, <2>2 DEF Indexed
<1>12. CASE worker
  <2>1. PICK message : message = [is |-> "query", text |-> text, id |-> latest + 1]
    OBVIOUS
  <2>2. /\ asked' = Append(asked, message) /\ hits' = hits
        /\ asked \in Seq(BuildTask \cup QueryMessage) /\ message \in BuildTask \cup QueryMessage
    BY <1>1, <1>2, <1>3, <1>7, <1>12, <2>1 DEF SearchTyped, QueryMessage
  <2>3. PICK last : last = Len(asked) + 1
    OBVIOUS
  <2>4. /\ asked' \in Seq(BuildTask \cup QueryMessage) /\ last \in Nat
        /\ asked'[last] = message /\ DOMAIN asked' = DOMAIN asked \cup {last}
        /\ \A n \in DOMAIN asked : asked'[n] = asked[n] /\ n \in Nat /\ n < last
    BY <2>2, <2>3, Appended
  <2>5. /\ Queries(asked') = Queries(asked) \cup {last} /\ Builds(asked') = Builds(asked)
        /\ \A n \in Queries(asked) \cup Builds(asked) :
             asked'[n] = asked[n] /\ n \in Nat /\ n < last
        /\ asked'[last].text = text /\ asked'[last].id = latest + 1
    BY <2>1, <2>4 DEF Queries, Builds
  <2>6. PICK new : new = [id |-> latest + 1, of |-> text]
    OBVIOUS
  <2>7. Sent' = Sent \cup {new} /\ new.id = latest + 1 /\ new.of = text
    BY <2>5, <2>6 DEF Sent
  <2>8. SearchTyped'
    BY <1>1, <1>3, <1>7, <1>12, <2>2, <2>4 DEF SearchTyped
  <2>9. AskedInOrder'
    <3>1. ASSUME NEW s \in Sent
          PROVE  IsOf(s.of) /\ s.id < latest + 1 /\ s.id # latest + 1
      <4>1. IsOf(s.of) /\ s.id <= latest
        BY DEF SearchInv, AskedInOrder
      <4>2. s.id \in Nat /\ latest \in Nat
        BY <1>7
      <4>3. s.id <= latest
        BY <4>1
      <4>4. s.id < latest + 1
        BY <4>2, <4>3
      <4>5. s.id # latest + 1
        BY <4>2, <4>3
      <4> QED BY <4>1, <4>4, <4>5
    <3>2. \A t \in Sent \cup {new} : t.of.typed <= text.typed
      BY <1>3, <1>5, <1>7, <2>7 DEF IsOf
    <3>3. hits # <<>> => hits[1].of.typed <= text.typed
      BY <1>3, <1>5, <1>7 DEF IsOf
    <3>4. \A s \in Sent \cup {new} : IsOf(s.of) /\ s.id <= latest + 1
      BY <1>5, <1>7, <2>7, <3>1 DEF IsOf
    <3>5. \A s \in Sent \cup {new} : s.id = latest + 1 => s = new
      BY <3>1
    <3>6. hits # <<>> => IsOf(hits[1].of)
      BY DEF SearchInv, AskedInOrder
    <3> QED BY <1>6, <2>2, <2>7, <3>2, <3>3, <3>4, <3>5, <3>6 DEF AskedInOrder, IsOf
  <2>10. OnItsWay'
    <3>1. SUFFICES ASSUME ~F!IsBlank(box.text)
                   PROVE  \/ \E n \in Queries(timers') : timers'[n].text = box
                          \/ \E s \in Sent' : s.id = latest + 1 /\ s.of = box
                          \/ hits # <<>> /\ hits[1].of = box
      BY <2>2 DEF OnItsWay
    <3>2. CASE \E n \in Queries(timers) : timers[n].text = box
      BY <1>2, <1>4, <2>7, <3>2
    <3>3. CASE hits # <<>> /\ hits[1].of = box
      BY <3>3
    <3>4. CASE \E s \in Sent : s.id = latest /\ s.of = box
      BY <1>3, <1>5, <1>7, <3>4 DEF IsOf
    <3> QED BY <3>1, <3>2, <3>3, <3>4 DEF SearchInv, OnItsWay
  <2>11. IndexedInTime'
    <3>1. ASSUME NEW n \in Queries(asked')
          PROVE  index'.edits >= asked'[n].text.when \/ IndexedBefore(asked'[n].text.when, asked', n)
      <4>1. CASE n = last
        <5>1. \/ index.edits >= text.when \/ \E m \in Builds(asked) : asked[m].library.edits >= text.when
          BY <1>4, <1>8 DEF Indexed, IndexedBefore
        <5> QED BY <2>5, <4>1, <5>1 DEF IndexedBefore
      <4>2. CASE n \in Queries(asked)
        BY <2>5, <4>2 DEF SearchInv, IndexedInTime, IndexedBefore
      <4> QED BY <2>5, <4>1, <4>2
    <3> QED BY <1>11, <2>2, <2>5, <3>1 DEF SearchInv, IndexedInTime
  <2> QED BY <1>9, <2>5, <2>8, <2>9, <2>10, <2>11 DEF SearchInv
<1>13. CASE ~worker
  <2>1. hits' = F!Shown(text, index) /\ asked' = asked /\ asked = <<>> /\ answers = <<>>
    BY <1>1, <1>2, <1>13 DEF SearchTyped
  <2>2. /\ Sent' = {} /\ Queries(asked') = {} /\ Builds(asked') = {} /\ Builds(asked) = {}
    BY <2>1 DEF Sent, Queries, Builds
  <2>3. hits' \in Lists /\ hits' # <<>> /\ hits'[1].of = text /\ hits'[1].knew = index
    BY <1>1, <1>3, <2>1, ListsAre DEF SearchTyped
  <2>4. SearchTyped'
    BY <1>1, <1>3, <1>7, <1>13, <2>1, <2>3 DEF SearchTyped
  <2>5. AskedInOrder'
    BY <1>5, <1>6, <2>2, <2>3 DEF AskedInOrder, IsOf
  <2>6. OnItsWay'
    <3>1. SUFFICES ASSUME ~F!IsBlank(box.text)
                   PROVE  \/ \E n \in Queries(timers') : timers'[n].text = box
                          \/ hits'[1].of = box
      BY <2>3 DEF OnItsWay
    <3>2. CASE \E n \in Queries(timers) : timers[n].text = box
      BY <1>2, <1>4, <2>3, <3>2
    <3>3. CASE hits # <<>> /\ hits[1].of = box
      BY <1>3, <1>5, <1>7, <3>3 DEF IsOf
    <3>4. Sent = {}
      BY <2>1 DEF Sent, Queries
    <3> QED BY <3>1, <3>2, <3>3, <3>4 DEF SearchInv, OnItsWay
  <2>7. IndexedInTime'
    <3>1. index.edits >= text.when
      BY <1>4, <1>8, <2>2 DEF Indexed, IndexedBefore
    <3>2. /\ Indexed(songs.edits, Len(timers) + 1)'
          /\ \A n \in Queries(timers') : Indexed(timers[n].text.when, n)'
      BY <1>11, <2>1
    <3>3. DOMAIN answers' = {}
      BY <2>1
    <3> QED BY <2>2, <2>3, <3>1, <3>2, <3>3 DEF IndexedInTime
  <2> QED BY <1>9, <2>1, <2>2, <2>4, <2>5, <2>6, <2>7 DEF SearchInv
<1> QED BY <1>12, <1>13

LEMMA SearchWake == SearchInv /\ F!Wake => SearchInv'
<1>1. SUFFICES ASSUME SearchInv, F!Wake PROVE SearchInv'
  OBVIOUS
<1>2. Head(timers) = timers[1] /\ timers[1].is \in {"build", "query"}
  <2>1. timers # <<>> /\ timers \in Seq(BuildTask \cup QueryTask)
    BY <1>1 DEF F!Wake, SearchInv, SearchTyped
  <2>2. Head(timers) = timers[1] /\ timers[1] \in BuildTask \cup QueryTask
    BY <2>1, Taken
  <2> QED BY <2>2, FieldsOf
<1>3. CASE timers[1].is = "build"
  BY <1>1, <1>2, <1>3, WakeToBuild DEF F!Wake
<1>4. CASE timers[1].is = "query"
  BY <1>1, <1>2, <1>4, WakeToSearch DEF F!Wake
<1> QED BY <1>2, <1>3, <1>4

\* The messages that the worker has yet to take when it has taken one.
LEMMA MessagesMoveUp ==
  ASSUME SearchInv, asked # <<>>, asked' = Tail(asked)
  PROVE  /\ asked' \in Seq(BuildTask \cup QueryMessage) /\ asked[1] \in BuildTask \cup QueryMessage
         /\ Head(asked) = asked[1]
         /\ \A n \in Queries(asked') :
              n \in Nat /\ n + 1 \in Queries(asked) /\ asked'[n] = asked[n + 1]
         /\ \A n \in Builds(asked') :
              n \in Nat /\ n + 1 \in Builds(asked) /\ asked'[n] = asked[n + 1]
         /\ \A n \in Queries(asked) :
              n # 1 => n - 1 \in Queries(asked') /\ asked'[n - 1] = asked[n]
         /\ \A n \in Builds(asked) : n \in Nat /\ n >= 1
              /\ (n # 1 => n - 1 \in Builds(asked') /\ asked'[n - 1] = asked[n])
         /\ asked[1].is = "build" => 1 \in Builds(asked) /\ 1 \notin Queries(asked)
         /\ asked[1].is = "query" => 1 \in Queries(asked) /\ 1 \notin Builds(asked)
         /\ \A n \in Builds(asked') :
              /\ index.edits <= asked'[n].library.edits /\ asked'[n].library.edits <= songs.edits
              /\ \A m \in Builds(asked') :
                   n < m => asked'[n].library.edits <= asked'[m].library.edits
              /\ \A m \in Builds(timers) : asked'[n].library.edits <= timers[m].library.edits
              /\ 1 \in Builds(asked) => asked[1].library.edits <= asked'[n].library.edits
<1>1. SearchTyped /\ asked \in Seq(BuildTask \cup QueryMessage)
  BY DEF SearchInv, SearchTyped
<1>2. /\ asked' \in Seq(BuildTask \cup QueryMessage) /\ asked[1] \in BuildTask \cup QueryMessage
      /\ Head(asked) = asked[1]
  BY <1>1, Taken
<1>3. /\ 1 \in DOMAIN asked
      /\ \A n \in DOMAIN asked' :
           n \in Nat /\ n >= 1 /\ n + 1 \in DOMAIN asked /\ asked'[n] = asked[n + 1]
      /\ \A n \in DOMAIN asked : n \in Nat /\ n >= 1
      /\ \A n \in DOMAIN asked : n # 1 => n - 1 \in DOMAIN asked' /\ asked'[n - 1] = asked[n]
  BY <1>1, Taken
<1>4. \A n \in Queries(asked') :
         n \in Nat /\ n >= 1 /\ n + 1 \in Queries(asked) /\ asked'[n] = asked[n + 1]
  BY <1>3 DEF Queries
<1>5. \A n \in Builds(asked') :
         n \in Nat /\ n >= 1 /\ n + 1 \in Builds(asked) /\ asked'[n] = asked[n + 1]
  BY <1>3 DEF Builds
<1>6. /\ \A n \in Queries(asked) :
           n # 1 => n - 1 \in Queries(asked') /\ asked'[n - 1] = asked[n]
      /\ asked[1].is = "build" => 1 \in Builds(asked) /\ 1 \notin Queries(asked)
      /\ asked[1].is = "query" => 1 \in Queries(asked) /\ 1 \notin Builds(asked)
  BY <1>3 DEF Queries, Builds
<1>7. \A n \in Builds(asked) : n \in Nat /\ n >= 1
         /\ (n # 1 => n - 1 \in Builds(asked') /\ asked'[n - 1] = asked[n])
  BY <1>3 DEF Builds
<1>8. ASSUME NEW n \in Builds(asked')
      PROVE  /\ index.edits <= asked'[n].library.edits /\ asked'[n].library.edits <= songs.edits
             /\ \A m \in Builds(asked') :
                  n < m => asked'[n].library.edits <= asked'[m].library.edits
             /\ \A m \in Builds(timers) : asked'[n].library.edits <= timers[m].library.edits
             /\ 1 \in Builds(asked) => asked[1].library.edits <= asked'[n].library.edits
  <2>1. n \in Nat /\ n >= 1 /\ n + 1 \in Builds(asked) /\ asked'[n] = asked[n + 1]
    BY <1>5
  <2>2. ASSUME NEW m \in Builds(asked'), n < m
        PROVE  m + 1 \in Builds(asked) /\ asked'[m] = asked[m + 1] /\ n + 1 < m + 1
    <3>1. m \in Nat /\ m + 1 \in Builds(asked) /\ asked'[m] = asked[m + 1]
      BY <1>5
    <3>2. n + 1 < m + 1
      BY <2>1, <2>2, <3>1
    <3> QED BY <3>1, <3>2
  <2>3. 1 < n + 1
    BY <2>1
  <2>4. /\ index.edits <= asked[n + 1].library.edits /\ asked[n + 1].library.edits <= songs.edits
        /\ \A m \in Builds(asked) :
             n + 1 < m => asked[n + 1].library.edits <= asked[m].library.edits
        /\ \A m \in Builds(timers) : asked[n + 1].library.edits <= timers[m].library.edits
        /\ 1 \in Builds(asked) => asked[1].library.edits <= asked[n + 1].library.edits
    BY <1>1, <2>1, <2>3 DEF SearchInv, BuiltInOrder
  <2> QED BY <2>1, <2>2, <2>4
<1> QED BY <1>2, <1>4, <1>5, <1>6, <1>7, <1>8

\* The worker indexes the songs.
LEMMA WorkerBuilds ==
  ASSUME SearchInv, asked # <<>>, asked' = Tail(asked), asked[1].is = "build",
         index' = asked[1].library,
         UNCHANGED <<worker, songs, box, timers, answers, latest, hits>>
  PROVE  SearchInv'
<1>1. SearchTyped
  BY DEF SearchInv
<1>2. /\ asked' \in Seq(BuildTask \cup QueryMessage)
      /\ asked[1].library \in Lib /\ asked[1].library.edits \in Nat
      /\ 1 \in Builds(asked) /\ 1 \notin Queries(asked)
  BY MessagesMoveUp, FieldsOf
<1>3. /\ \A n \in Queries(asked') :
           n \in Nat /\ n + 1 \in Queries(asked) /\ asked'[n] = asked[n + 1]
      /\ \A n \in Queries(asked) : n - 1 \in Queries(asked') /\ asked'[n - 1] = asked[n]
      /\ \A n \in Builds(asked) : n \in Nat /\ n >= 1
           /\ (n # 1 => n - 1 \in Builds(asked') /\ asked'[n - 1] = asked[n])
  BY <1>2, MessagesMoveUp
<1>4. Sent' = Sent
  <2>1. ASSUME NEW n \in Queries(asked')
        PROVE  \E m \in Queries(asked) : asked[m] = asked'[n]
    BY <1>3
  <2>2. ASSUME NEW n \in Queries(asked)
        PROVE  \E m \in Queries(asked') : asked'[m] = asked[n]
    BY <1>3
  <2>3. {[id |-> asked'[n].id, of |-> asked'[n].text] : n \in Queries(asked')}
          = {[id |-> asked[n].id, of |-> asked[n].text] : n \in Queries(asked)}
    <3> DEFINE Then == {[id |-> asked'[n].id, of |-> asked'[n].text] : n \in Queries(asked')}
               Before == {[id |-> asked[n].id, of |-> asked[n].text] : n \in Queries(asked)}
    <3>1. ASSUME NEW s \in Then PROVE s \in Before
      <4>1. PICK n \in Queries(asked') : s = [id |-> asked'[n].id, of |-> asked'[n].text]
        OBVIOUS
      <4>2. PICK m \in Queries(asked) : asked[m] = asked'[n]
        BY <2>1
      <4> QED BY <4>1, <4>2
    <3>2. ASSUME NEW s \in Before PROVE s \in Then
      <4>1. PICK n \in Queries(asked) : s = [id |-> asked[n].id, of |-> asked[n].text]
        OBVIOUS
      <4>2. PICK m \in Queries(asked') : asked'[m] = asked[n]
        BY <2>2
      <4> QED BY <4>1, <4>2
    <3> QED BY <3>1, <3>2
  <2> QED BY <2>3 DEF Sent
<1>5. SearchTyped'
  BY <1>1, <1>2 DEF SearchTyped
<1>6. AskedInOrder' /\ OnItsWay'
  BY <1>4 DEF SearchInv, AskedInOrder, OnItsWay, IsOf
<1>7. /\ songs.edits \in Nat /\ index.edits \in Nat
      /\ index.edits <= asked[1].library.edits /\ asked[1].library.edits <= songs.edits
      /\ \A n \in Builds(timers) : asked[1].library.edits <= timers[n].library.edits
  BY <1>1, <1>2, WhatIsThere DEF SearchInv, BuiltInOrder
<1>8. BuiltInOrder'
  <2>1. \A n \in Builds(asked') :
          /\ asked[1].library.edits <= asked'[n].library.edits
          /\ asked'[n].library.edits <= songs.edits
          /\ \A m \in Builds(asked') :
               n < m => asked'[n].library.edits <= asked'[m].library.edits
          /\ \A m \in Builds(timers) : asked'[n].library.edits <= timers[m].library.edits
    BY <1>2, MessagesMoveUp
  <2>2. \A n \in Builds(timers) :
          /\ timers[n].library.edits <= songs.edits
          /\ \A m \in Builds(timers) : n < m => timers[n].library.edits <= timers[m].library.edits
    BY DEF SearchInv, BuiltInOrder
  <2> QED BY <1>7, <2>1, <2>2 DEF BuiltInOrder
\* what was first among the messages is indexed now
<1>9. ASSUME NEW edits \in Nat,
             index.edits >= edits \/ \E m \in Builds(asked) : asked[m].library.edits >= edits
      PROVE  index'.edits >= edits \/ \E m \in Builds(asked') : asked'[m].library.edits >= edits
  <2>1. CASE index.edits >= edits
    <3>1. \A a, b, c \in Nat : a >= c /\ a <= b => b >= c
      OBVIOUS
    <3> QED BY <1>2, <1>7, <2>1, <3>1
  <2>2. CASE \E m \in Builds(asked) : asked[m].library.edits >= edits
    BY <1>3, <2>2
  <2> QED BY <1>9, <2>1, <2>2
<1>10. IndexedInTime'
  <2>1. Indexed(songs.edits, Len(timers) + 1)'
    BY <1>7, <1>9 DEF SearchInv, IndexedInTime, Indexed, IndexedBefore
  <2>2. ASSUME NEW n \in Queries(timers)
        PROVE  Indexed(timers[n].text.when, n)'
    <3>1. timers[n].text.when \in Nat
      BY <1>1, WhatIsThere
    <3>2. Indexed(timers[n].text.when, n)
      BY DEF SearchInv, IndexedInTime
    <3> QED BY <1>9, <3>1, <3>2 DEF Indexed, IndexedBefore
  <2>3. ASSUME NEW n \in Queries(asked')
        PROVE  index'.edits >= asked'[n].text.when \/ IndexedBefore(asked'[n].text.when, asked', n)
    <3>1. n \in Nat /\ n + 1 \in Queries(asked) /\ asked'[n] = asked[n + 1]
      BY <1>3
    <3>2. PICK when : when = asked'[n].text.when
      OBVIOUS
    <3>3. when \in Nat
      BY <1>1, <3>1, <3>2, WhatIsThere
    <3>4. CASE index.edits >= when
      <4>1. \A a, b, c \in Nat : a >= c /\ a <= b => b >= c
        OBVIOUS
      <4>2. asked[1].library.edits >= when
        BY <1>2, <1>7, <3>3, <3>4, <4>1
      <4> QED BY <3>2, <4>2
    <3>5. CASE IndexedBefore(when, asked, n + 1)
      <4>1. PICK m \in Builds(asked) : m < n + 1 /\ asked[m].library.edits >= when
        BY <3>5 DEF IndexedBefore
      <4>2. m \in Nat /\ (m = 1 \/ (m - 1 \in Builds(asked') /\ asked'[m - 1] = asked[m]))
        BY <1>3
      <4>3. m - 1 < n
        BY <3>1, <4>1, <4>2
      <4> QED BY <3>2, <4>1, <4>2, <4>3 DEF IndexedBefore
    <3> QED BY <3>1, <3>2, <3>4, <3>5 DEF SearchInv, IndexedInTime
  <2> QED BY <2>1, <2>2, <2>3 DEF SearchInv, IndexedInTime
<1> QED BY <1>5, <1>6, <1>8, <1>10 DEF SearchInv

\* The worker answers a query, from the songs that it has indexed.
LEMMA WorkerAnswers ==
  ASSUME SearchInv, asked # <<>>, asked' = Tail(asked), asked[1].is = "query",
         answers' = Append(answers, [id |-> asked[1].id, hits |-> F!Shown(asked[1].text, index)]),
         UNCHANGED <<worker, songs, box, timers, index, latest, hits>>
  PROVE  SearchInv'
<1>1. SearchTyped /\ answers \in Seq(Answer)
  BY DEF SearchInv, SearchTyped
<1>2. PICK text, id : text = asked[1].text /\ id = asked[1].id
  OBVIOUS
<1>3. /\ asked' \in Seq(BuildTask \cup QueryMessage)
      /\ text \in Text /\ id \in Nat
      /\ 1 \in Queries(asked) /\ 1 \notin Builds(asked)
  BY <1>2, MessagesMoveUp, FieldsOf
<1>4. /\ \A n \in Queries(asked') :
           n \in Nat /\ n + 1 \in Queries(asked) /\ asked'[n] = asked[n + 1]
      /\ \A n \in Queries(asked) :
           n # 1 => n - 1 \in Queries(asked') /\ asked'[n - 1] = asked[n]
      /\ \A n \in Builds(asked) : n \in Nat /\ n >= 1
           /\ n - 1 \in Builds(asked') /\ asked'[n - 1] = asked[n]
  BY <1>3, MessagesMoveUp
<1>5. PICK list : list = F!Shown(text, index)
  OBVIOUS
<1>6. list \in Lists /\ list # <<>> /\ list[1].of = text /\ list[1].knew = index
  BY <1>1, <1>3, <1>5, ListsAre DEF SearchTyped
<1>7. PICK answer : answer = [id |-> id, hits |-> list]
  OBVIOUS
<1>8. answer \in Answer /\ answers' = Append(answers, answer)
  BY <1>2, <1>3, <1>5, <1>6, <1>7 DEF Answer
<1>9. PICK last : last = Len(answers) + 1
  OBVIOUS
<1>10. /\ answers' \in Seq(Answer) /\ answers'[last] = answer
       /\ DOMAIN answers' = DOMAIN answers \cup {last}
       /\ \A n \in DOMAIN answers : answers'[n] = answers[n] /\ n < last
  BY <1>1, <1>8, <1>9, Appended
<1>11. Sent' = Sent
  <2> DEFINE one == [id |-> id, of |-> text]
             Left == {[id |-> asked'[n].id, of |-> asked'[n].text] : n \in Queries(asked')}
             Waited == {[id |-> asked[n].id, of |-> asked[n].text] : n \in Queries(asked)}
             Then == {[id |-> answers'[n].id, of |-> answers'[n].hits[1].of] : n \in DOMAIN answers'}
             Before == {[id |-> answers[n].id, of |-> answers[n].hits[1].of] : n \in DOMAIN answers}
  <2>1. Waited = Left \cup {one}
    <3>1. ASSUME NEW n \in Queries(asked')
          PROVE  \E m \in Queries(asked) : asked[m] = asked'[n]
      BY <1>4
    <3>2. ASSUME NEW n \in Queries(asked)
          PROVE  n = 1 \/ \E m \in Queries(asked') : asked'[m] = asked[n]
      BY <1>4
    <3>3. one \in Waited
      BY <1>2, <1>3
    <3>4. ASSUME NEW s \in Left PROVE s \in Waited
      <4>1. PICK n \in Queries(asked') : s = [id |-> asked'[n].id, of |-> asked'[n].text]
        OBVIOUS
      <4>2. PICK m \in Queries(asked) : asked[m] = asked'[n]
        BY <3>1
      <4> QED BY <4>1, <4>2
    <3>5. ASSUME NEW s \in Waited PROVE s \in Left \cup {one}
      <4>1. PICK n \in Queries(asked) : s = [id |-> asked[n].id, of |-> asked[n].text]
        OBVIOUS
      <4>2. CASE n = 1
        BY <1>2, <4>1, <4>2
      <4>3. CASE \E m \in Queries(asked') : asked'[m] = asked[n]
        BY <4>1, <4>3
      <4> QED BY <3>2, <4>2, <4>3
    <3> QED BY <3>3, <3>4, <3>5
  <2>2. Then = Before \cup {one}
    <3>1. answers'[last].id = id /\ answers'[last].hits[1].of = text
      BY <1>6, <1>7, <1>10
    <3> QED BY <1>10, <3>1
  <2>3. Sent' = Left \cup Then /\ Sent = Waited \cup Before
    BY DEF Sent
  <2> QED BY <2>1, <2>2, <2>3
<1>12. SearchTyped'
  <2>1. worker
    BY <1>1 DEF SearchTyped
  <2> QED BY <1>1, <1>3, <1>10, <2>1 DEF SearchTyped
<1>13. AskedInOrder' /\ OnItsWay'
  BY <1>11 DEF SearchInv, AskedInOrder, OnItsWay, IsOf
<1>14. BuiltInOrder'
  <2>1. \A n \in Builds(asked') :
          /\ index.edits <= asked'[n].library.edits
          /\ asked'[n].library.edits <= songs.edits
          /\ \A m \in Builds(asked') :
               n < m => asked'[n].library.edits <= asked'[m].library.edits
          /\ \A m \in Builds(timers) : asked'[n].library.edits <= timers[m].library.edits
    BY MessagesMoveUp
  <2> QED BY <2>1 DEF SearchInv, BuiltInOrder
<1>15. IndexedInTime'
  <2>1. ASSUME NEW edits, \E m \in Builds(asked) : asked[m].library.edits >= edits
        PROVE  \E m \in Builds(asked') : asked'[m].library.edits >= edits
    BY <1>4, <2>1
  <2>2. Indexed(songs.edits, Len(timers) + 1)'
    BY <2>1 DEF SearchInv, IndexedInTime, Indexed, IndexedBefore
  <2>3. ASSUME NEW n \in Queries(timers)
        PROVE  Indexed(timers[n].text.when, n)'
    <3>1. Indexed(timers[n].text.when, n)
      BY DEF SearchInv, IndexedInTime
    <3> QED BY <2>1, <3>1 DEF Indexed, IndexedBefore
  <2>4. ASSUME NEW n \in Queries(asked')
        PROVE  index'.edits >= asked'[n].text.when \/ IndexedBefore(asked'[n].text.when, asked', n)
    <3>1. n \in Nat /\ n + 1 \in Queries(asked) /\ asked'[n] = asked[n + 1]
      BY <1>4
    <3>2. PICK when : when = asked'[n].text.when
      OBVIOUS
    <3>3. CASE IndexedBefore(when, asked, n + 1)
      <4>1. PICK m \in Builds(asked) : m < n + 1 /\ asked[m].library.edits >= when
        BY <3>3 DEF IndexedBefore
      <4>2. m \in Nat /\ m - 1 \in Builds(asked') /\ asked'[m - 1] = asked[m]
        BY <1>4
      <4>3. m - 1 < n
        BY <3>1, <4>1, <4>2
      <4> QED BY <3>2, <4>1, <4>2, <4>3 DEF IndexedBefore
    <3> QED BY <3>1, <3>2, <3>3 DEF SearchInv, IndexedInTime
  <2>5. index.edits >= text.when
    <3>1. index.edits >= text.when \/ IndexedBefore(text.when, asked, 1)
      BY <1>2, <1>3 DEF SearchInv, IndexedInTime
    <3> QED BY <1>4, <3>1 DEF IndexedBefore
  <2>6. \A n \in DOMAIN answers' : answers'[n].hits[1].knew.edits >= answers'[n].hits[1].of.when
    BY <1>6, <1>7, <1>10, <2>5 DEF SearchInv, IndexedInTime
  <2> QED BY <2>2, <2>3, <2>4, <2>6 DEF SearchInv, IndexedInTime
<1> QED BY <1>12, <1>13, <1>14, <1>15 DEF SearchInv

LEMMA SearchWork == SearchInv /\ F!Work => SearchInv'
<1>1. SUFFICES ASSUME SearchInv, F!Work PROVE SearchInv'
  OBVIOUS
<1>2. Head(asked) = asked[1] /\ asked[1].is \in {"build", "query"}
  BY <1>1, MessagesMoveUp, FieldsOf DEF F!Work
<1>3. CASE asked[1].is = "build"
  BY <1>1, <1>2, <1>3, WorkerBuilds DEF F!Work
<1>4. CASE asked[1].is = "query"
  BY <1>1, <1>2, <1>4, WorkerAnswers DEF F!Work
<1> QED BY <1>2, <1>3, <1>4

\* The page takes an answer.
LEMMA SearchAnswered == SearchInv /\ F!Answered => SearchInv'
<1>1. SUFFICES ASSUME SearchInv, F!Answered PROVE SearchInv'
  OBVIOUS
<1>2. SearchTyped /\ answers \in Seq(Answer) /\ answers # <<>>
  BY <1>1 DEF SearchInv, SearchTyped, F!Answered
<1>3. /\ answers' \in Seq(Answer) /\ Head(answers) = answers[1]
      /\ 1 \in DOMAIN answers /\ answers[1] \in Answer
      /\ \A n \in DOMAIN answers' : n + 1 \in DOMAIN answers /\ answers'[n] = answers[n + 1]
      /\ \A n \in DOMAIN answers : n # 1 => n - 1 \in DOMAIN answers' /\ answers'[n - 1] = answers[n]
  BY <1>1, <1>2, Taken DEF F!Answered
<1>4. /\ hits' = IF answers[1].id = latest THEN answers[1].hits ELSE hits
      /\ UNCHANGED <<worker, songs, box, timers, asked, index, latest>>
  BY <1>1, <1>3 DEF F!Answered
<1>5. PICK first : first = [id |-> answers[1].id, of |-> answers[1].hits[1].of]
  OBVIOUS
<1>6. /\ answers[1].id \in Nat /\ answers[1].hits \in Lists /\ answers[1].hits # <<>>
      /\ first.id = answers[1].id /\ first.of = answers[1].hits[1].of
      /\ first \in Sent
  BY <1>3, <1>5, ListsAre DEF Answer, Sent
<1>7. /\ \A s \in Sent' : s \in Sent
      /\ \A s \in Sent : s = first \/ s \in Sent'
  <2> DEFINE Asked == {[id |-> asked[n].id, of |-> asked[n].text] : n \in Queries(asked)}
             Then == {[id |-> answers'[n].id, of |-> answers'[n].hits[1].of] : n \in DOMAIN answers'}
             Before == {[id |-> answers[n].id, of |-> answers[n].hits[1].of] : n \in DOMAIN answers}
  <2>1. ASSUME NEW s \in Then PROVE s \in Before
    <3>1. PICK n \in DOMAIN answers' : s = [id |-> answers'[n].id, of |-> answers'[n].hits[1].of]
      OBVIOUS
    <3>2. n + 1 \in DOMAIN answers /\ answers'[n] = answers[n + 1]
      BY <1>3
    <3> QED BY <3>1, <3>2
  <2>2. ASSUME NEW s \in Before PROVE s = first \/ s \in Then
    <3>1. PICK n \in DOMAIN answers : s = [id |-> answers[n].id, of |-> answers[n].hits[1].of]
      OBVIOUS
    <3>2. CASE n = 1
      BY <1>5, <3>1, <3>2
    <3>3. CASE n # 1
      BY <1>3, <3>1, <3>3
    <3> QED BY <3>2, <3>3
  <2>3. Sent' = Asked \cup Then /\ Sent = Asked \cup Before
    BY <1>4 DEF Sent
  <2> QED BY <2>1, <2>2, <2>3
<1>8. /\ \A s \in Sent : /\ s.id \in Nat /\ s.of.typed \in Nat /\ IsOf(s.of)
                         /\ s.id <= latest
                         /\ s.id = latest => \A t \in Sent : t.of.typed <= s.of.typed
                         /\ \A n \in Queries(timers) : s.of.typed < timers[n].text.typed
      /\ latest \in Nat /\ box.typed \in Nat
      /\ hits # <<>> => hits[1].of.typed \in Nat
  BY <1>1, <1>2, WhatIsThere DEF SearchInv, AskedInOrder
<1>9. BuiltInOrder'
  BY <1>1, <1>4 DEF SearchInv, BuiltInOrder
<1>10. /\ Indexed(songs.edits, Len(timers) + 1)'
       /\ \A n \in Queries(timers') : Indexed(timers[n].text.when, n)'
       /\ \A n \in Queries(asked') :
            index'.edits >= asked'[n].text.when \/ IndexedBefore(asked'[n].text.when, asked', n)
       /\ \A n \in DOMAIN answers' : answers'[n].hits[1].knew.edits >= answers'[n].hits[1].of.when
  BY <1>1, <1>3, <1>4 DEF SearchInv, IndexedInTime, Indexed, IndexedBefore
<1>11. CASE first.id = latest
  <2>1. hits' = answers[1].hits /\ hits'[1].of = first.of /\ hits' # <<>>
    BY <1>4, <1>6, <1>11
  <2>2. SearchTyped'
    BY <1>2, <1>3, <1>4, <1>6, <2>1 DEF SearchTyped
  <2>3. AskedInOrder'
    <3>1. /\ IsOf(first.of)
          /\ \A n \in Queries(timers) : first.of.typed < timers[n].text.typed
          /\ \A s \in Sent : s.id = latest => first.of.typed <= s.of.typed
      BY <1>6, <1>8
    <3>2. \A n \in Queries(timers) :
            /\ IsOf(timers[n].text)
            /\ \A m \in Queries(timers) : m < n => timers[m].text.typed < timers[n].text.typed
      BY <1>1 DEF SearchInv, AskedInOrder
    <3>3. \A s \in Sent' :
            /\ IsOf(s.of) /\ s.id <= latest
            /\ \A n \in Queries(timers) : s.of.typed < timers[n].text.typed
            /\ s.id = latest => /\ \A t \in Sent' : t.of.typed <= s.of.typed
                                /\ first.of.typed <= s.of.typed
      BY <1>7, <1>8, <3>1
    <3> QED BY <1>4, <2>1, <3>1, <3>2, <3>3 DEF AskedInOrder, IsOf
  <2>4. OnItsWay'
    <3>1. SUFFICES ASSUME ~F!IsBlank(box.text)
                   PROVE  \/ \E n \in Queries(timers) : timers[n].text = box
                          \/ \E s \in Sent' : s.id = latest /\ s.of = box
                          \/ first.of = box
      BY <1>4, <2>1 DEF OnItsWay
    <3>2. CASE \E s \in Sent : s.id = latest /\ s.of = box
      BY <1>7, <3>2
    <3>3. CASE hits # <<>> /\ hits[1].of = box
      <4>1. box.typed <= first.of.typed
        BY <1>1, <1>6, <1>11, <3>3 DEF SearchInv, AskedInOrder
      <4>2. first.of.typed <= box.typed /\ (first.of.typed = box.typed => first.of = box)
        BY <1>6, <1>8 DEF IsOf
      <4>3. first.of.typed \in Nat /\ box.typed \in Nat
        BY <1>6, <1>8
      <4>4. first.of.typed = box.typed
        BY <4>1, <4>2, <4>3
      <4> QED BY <4>2, <4>4
    <3> QED BY <1>1, <3>1, <3>2, <3>3 DEF SearchInv, OnItsWay
  <2>5. IndexedInTime'
    <3>1. hits'[1].knew.edits >= hits'[1].of.when
      BY <1>1, <1>3, <2>1 DEF SearchInv, IndexedInTime
    <3> QED BY <1>10, <3>1 DEF IndexedInTime
  <2> QED BY <1>9, <2>2, <2>3, <2>4, <2>5 DEF SearchInv
<1>12. CASE first.id # latest
  <2>1. hits' = hits
    BY <1>4, <1>6, <1>12
  <2>2. SearchTyped'
    BY <1>2, <1>3, <1>4, <2>1 DEF SearchTyped
  <2>3. AskedInOrder'
    BY <1>1, <1>4, <1>7, <2>1 DEF SearchInv, AskedInOrder, IsOf
  <2>4. OnItsWay'
    BY <1>1, <1>4, <1>7, <1>12, <2>1 DEF SearchInv, OnItsWay
  <2>5. IndexedInTime'
    BY <1>1, <1>10, <2>1 DEF SearchInv, IndexedInTime
  <2> QED BY <1>9, <2>2, <2>3, <2>4, <2>5 DEF SearchInv
<1> QED BY <1>11, <1>12

(***************************************************************************)
(* Once everything has been answered the list is of what is in the box, and*)
(* knows every song that was there when that was typed; and no list is of  *)
(* something older than the one before it: whatever the songs and the texts*)
(* are, and however often they change while the worker is at it            *)
(* (web/library/search.rs, `query`, search_worker.rs).                     *)
(***************************************************************************)
THEOREM TheBoxIsAnswered == F!Spec => []F!AnswerKeepsUp
<1>1. SearchInv /\ [F!Next]_F!vars => SearchInv'
  <2>1. SUFFICES ASSUME SearchInv, [F!Next]_F!vars PROVE SearchInv'
    OBVIOUS
  <2>2. CASE UNCHANGED F!vars
    <3>1. UNCHANGED <<worker, songs, box, timers, asked, index, answers, latest, hits>>
      BY <2>2 DEF F!vars
    <3>2. SearchTyped'
      BY <2>1, <3>1 DEF SearchInv, SearchTyped
    <3>3. AskedInOrder'
      BY <2>1, <3>1 DEF SearchInv, AskedInOrder, Sent, IsOf
    <3>4. BuiltInOrder'
      BY <2>1, <3>1 DEF SearchInv, BuiltInOrder, Indexed, IndexedBefore
    <3>5. OnItsWay'
      BY <2>1, <3>1 DEF SearchInv, OnItsWay, Sent, IsOf
    <3>6. IndexedInTime'
      BY <2>1, <3>1 DEF SearchInv, IndexedInTime, Indexed, IndexedBefore, Sent
    <3> QED BY <3>2, <3>3, <3>4, <3>5, <3>6 DEF SearchInv
  <2>3. CASE F!Next
    BY <2>1, <2>3, SearchSongs, SearchType, SearchWake, SearchWork, SearchAnswered DEF F!Next
  <2> QED BY <2>1, <2>2, <2>3
<1>2. SearchInv => F!AnswersTheBox
  <2>1. SUFFICES ASSUME SearchInv, timers = <<>>, asked = <<>>, answers = <<>>,
                        ~F!IsBlank(box.text)
                 PROVE  hits # <<>> /\ hits[1].of = box /\ hits[1].knew.edits >= box.when
    BY DEF F!AnswersTheBox
  <2>2. Queries(timers) = {} /\ Sent = {}
    BY <2>1 DEF Queries, Sent
  <2> QED BY <2>1, <2>2 DEF SearchInv, OnItsWay, IndexedInTime
<1>3. SearchInv => F!NeverBack
  <2>1. SUFFICES ASSUME SearchInv, hits # <<>>
                 PROVE  /\ hits[1].knew.edits >= hits[1].of.when
                        /\ \A n \in DOMAIN answers :
                             answers[n].id = latest => answers[n].hits[1].of.typed >= hits[1].of.typed
    BY DEF F!NeverBack
  <2>2. ASSUME NEW n \in DOMAIN answers, answers[n].id = latest
        PROVE  answers[n].hits[1].of.typed >= hits[1].of.typed
    <3>1. PICK s : s = [id |-> answers[n].id, of |-> answers[n].hits[1].of]
      OBVIOUS
    <3>2. s \in Sent /\ s.id = latest /\ s.of = answers[n].hits[1].of
      BY <2>2, <3>1 DEF Sent
    <3>3. hits[1].of.typed <= s.of.typed
      BY <2>1, <3>2 DEF SearchInv, AskedInOrder
    <3>4. hits[1].of.typed \in Nat /\ s.of.typed \in Nat
      BY <2>1, <3>2, WhatIsThere DEF SearchInv
    <3> QED BY <3>2, <3>3, <3>4
  <2> QED BY <2>1, <2>2 DEF SearchInv, IndexedInTime
<1>4. SearchInv => F!AnswerKeepsUp
  BY <1>2, <1>3 DEF F!AnswerKeepsUp
<1> QED BY SearchInit, <1>1, <1>4, PTL DEF F!Spec
Song(title, alt, artist, tag, lyrics) ==
  [Title |-> title, Alt |-> alt, Artist |-> artist, Tag |-> tag, Lyrics |-> lyrics]

-----------------------------------------------------------------------------
(* Files from outside: each is somewhere, and lands as often as it is read *)

LEMMA NothingListed == ToSet(<<>>) = {} /\ IsInjective(<<>>)
BY DEF ToSet, IsInjective

LEMMA HeadIsTaken ==
  ASSUME NEW S, NEW list \in Seq(S), list # <<>>
  PROVE  /\ Head(list) \in ToSet(list) /\ Head(list) \in S /\ Tail(list) \in Seq(S)
         /\ ToSet(list) = {Head(list)} \cup ToSet(Tail(list))
         /\ IsInjective(list) => IsInjective(Tail(list)) /\ Head(list) \notin ToSet(Tail(list))
<1>1. /\ Len(list) \in Nat \ {0} /\ Head(list) = list[1] /\ DOMAIN list = 1..Len(list)
      /\ Tail(list) \in Seq(S) /\ Len(Tail(list)) = Len(list) - 1
      /\ DOMAIN Tail(list) = 1..(Len(list) - 1)
      /\ \A i \in 1..(Len(list) - 1) : Tail(list)[i] = list[i + 1]
  OBVIOUS
<1>2. 1 \in DOMAIN list /\ list[1] \in S
  BY <1>1
<1>3. ASSUME NEW x \in ToSet(list), x # list[1] PROVE x \in ToSet(Tail(list))
  <2>1. PICK i \in DOMAIN list : list[i] = x
    BY DEF ToSet
  <2>2. i - 1 \in DOMAIN Tail(list) /\ Tail(list)[i - 1] = x
    BY <1>1, <1>3, <2>1
  <2> QED BY <2>2 DEF ToSet
<1>4. ASSUME NEW x \in ToSet(Tail(list)) PROVE \E i \in DOMAIN list : i # 1 /\ list[i] = x
  <2>1. PICK i \in DOMAIN Tail(list) : Tail(list)[i] = x
    BY DEF ToSet
  <2>2. i + 1 \in DOMAIN list /\ list[i + 1] = x /\ i + 1 # 1
    BY <1>1, <2>1
  <2> QED BY <2>2
<1>5. ToSet(list) = {list[1]} \cup ToSet(Tail(list))
  BY <1>2, <1>3, <1>4 DEF ToSet
<1>6. ASSUME IsInjective(list) PROVE IsInjective(Tail(list)) /\ list[1] \notin ToSet(Tail(list))
  <2>1. list[1] \notin ToSet(Tail(list))
    BY <1>2, <1>4, <1>6 DEF IsInjective
  <2>2. ASSUME NEW i \in DOMAIN Tail(list), NEW j \in DOMAIN Tail(list),
               Tail(list)[i] = Tail(list)[j]
        PROVE  i = j
    <3>1. /\ i + 1 \in DOMAIN list /\ j + 1 \in DOMAIN list /\ list[i + 1] = list[j + 1]
          /\ i \in Nat /\ j \in Nat
      BY <1>1, <2>2
    <3>2. i + 1 = j + 1
      BY <1>6, <3>1 DEF IsInjective
    <3> QED BY <3>1, <3>2
  <2> QED BY <2>1, <2>2 DEF IsInjective
<1> QED BY <1>1, <1>2, <1>5, <1>6 DEF ToSet

LEMMA OneMoreListed ==
  ASSUME NEW S, NEW list \in Seq(S), NEW e \in S
  PROVE  /\ Append(list, e) \in Seq(S) /\ ToSet(Append(list, e)) = ToSet(list) \cup {e}
         /\ IsInjective(list) /\ e \notin ToSet(list) => IsInjective(Append(list, e))
<1> DEFINE long == Append(list, e)
<1>1. /\ Len(list) \in Nat /\ DOMAIN list = 1..Len(list) /\ long \in Seq(S)
      /\ DOMAIN long = 1..(Len(list) + 1) /\ long[Len(list) + 1] = e
      /\ \A i \in 1..Len(list) : long[i] = list[i]
  OBVIOUS
<1> HIDE DEF long
<1>2. /\ \A i \in DOMAIN list : i \in DOMAIN long /\ long[i] = list[i]
      /\ Len(list) + 1 \in DOMAIN long
      /\ \A i \in DOMAIN long : i \in DOMAIN list \/ i = Len(list) + 1
  BY <1>1
<1>3. ToSet(long) = ToSet(list) \cup {e}
  BY <1>1, <1>2 DEF ToSet
<1>4. IsInjective(list) /\ e \notin ToSet(list) => IsInjective(long)
  BY <1>1, <1>2 DEF ToSet, IsInjective
<1> QED BY <1>1, <1>3, <1>4 DEF long

LEMMA BothListed ==
  ASSUME NEW S, NEW first \in Seq(S), NEW second \in Seq(S)
  PROVE  /\ first \o second \in Seq(S)
         /\ ToSet(first \o second) = ToSet(first) \cup ToSet(second)
         /\ IsInjective(first) /\ IsInjective(second) /\ ToSet(first) \cap ToSet(second) = {}
              => IsInjective(first \o second)
<1> DEFINE long == first \o second
           m == Len(first)
<1>1. /\ m \in Nat /\ DOMAIN first = 1..m /\ Len(second) \in Nat /\ DOMAIN second = 1..Len(second)
      /\ long \in Seq(S) /\ DOMAIN long = 1..(m + Len(second))
      /\ \A i \in DOMAIN long : long[i] = IF i <= m THEN first[i] ELSE second[i - m]
  OBVIOUS
<1> HIDE DEF long, m
<1>2. /\ \A i \in DOMAIN first : i \in DOMAIN long /\ long[i] = first[i]
      /\ \A i \in DOMAIN second : i + m \in DOMAIN long /\ long[i + m] = second[i]
  BY <1>1
<1>3. \A i \in DOMAIN long :
        \/ i \in DOMAIN first /\ long[i] = first[i]
        \/ i - m \in DOMAIN second /\ long[i] = second[i - m] /\ i \notin DOMAIN first
  BY <1>1
<1>4. ToSet(long) = ToSet(first) \cup ToSet(second)
  BY <1>2, <1>3 DEF ToSet
<1>5. ASSUME IsInjective(first), IsInjective(second), ToSet(first) \cap ToSet(second) = {},
             NEW i \in DOMAIN long, NEW j \in DOMAIN long, long[i] = long[j]
      PROVE  i = j
  <2>1. CASE i \in DOMAIN first /\ j \in DOMAIN first
    BY <1>3, <1>5, <2>1 DEF IsInjective
  <2>2. CASE i \notin DOMAIN first /\ j \notin DOMAIN first
    <3>1. i - m \in DOMAIN second /\ j - m \in DOMAIN second /\ second[i - m] = second[j - m]
      BY <1>3, <1>5, <2>2
    <3>2. i - m = j - m
      BY <1>5, <3>1 DEF IsInjective
    <3>3. i \in Int /\ j \in Int
      BY <1>1
    <3> QED BY <1>1, <3>2, <3>3
  <2>3. CASE ~(i \in DOMAIN first <=> j \in DOMAIN first)
    BY <1>3, <1>5, <2>3 DEF ToSet
  <2> QED BY <2>1, <2>2, <2>3
<1>6. IsInjective(first) /\ IsInjective(second) /\ ToSet(first) \cap ToSet(second) = {}
        => IsInjective(long)
  BY <1>5 DEF IsInjective
<1> QED BY <1>1, <1>4, <1>6 DEF long

(* `SetToSeq` lists each element once. *)
LEMMA AllListed ==
  ASSUME NEW S, IsFiniteSet(S)
  PROVE  SetToSeq(S) \in Seq(S) /\ ToSet(SetToSeq(S)) = S /\ IsInjective(SetToSeq(S))
<1> DEFINE n == Cardinality(S)
<1>1. n \in Nat /\ ExistsBijection(1..n, S)
  BY FS_CardinalityType
<1>2. \E f \in [1..n -> S] : IsInjective(f)
  BY <1>1 DEF ExistsBijection, Bijection, Injection
<1>3. SetToSeq(S) \in [1..n -> S] /\ IsInjective(SetToSeq(S))
  BY <1>2 DEF SetToSeq
<1>4. SetToSeq(S) \in Injection(1..n, S)
  BY <1>3 DEF Injection
<1>5. IsFiniteSet(1..n) /\ Cardinality(1..n) = n
  BY <1>1, FS_Interval
<1>6. SetToSeq(S) \in Surjection(1..n, S)
  BY <1>4, <1>5, FS_Injection
<1>7. ToSet(SetToSeq(S)) = S
  BY <1>3, <1>6 DEF Surjection, ToSet
<1>8. SetToSeq(S) \in Seq(S)
  BY <1>1, <1>3
<1> QED BY <1>3, <1>7, <1>8

LEMMA OneMoved ==
  ASSUME NEW A, NEW B, NEW w, IsFiniteSet(A), A \ {w} = B \ {w}
  PROVE  /\ IsFiniteSet(B) /\ Cardinality(A) \in Nat /\ Cardinality(B) \in Nat
         /\ (w \in A <=> w \in B) => Cardinality(B) = Cardinality(A)
         /\ w \in A /\ w \notin B => Cardinality(A) = Cardinality(B) + 1
         /\ w \notin A /\ w \in B => Cardinality(B) = Cardinality(A) + 1
<1> DEFINE C == A \ {w}
<1>1. IsFiniteSet(C) /\ Cardinality(C) \in Nat /\ w \notin C
  BY FS_RemoveElement, FS_CardinalityType
<1>2. IsFiniteSet(C \cup {w}) /\ Cardinality(C \cup {w}) = Cardinality(C) + 1
  BY <1>1, FS_AddElement
<1>3. /\ A = C \/ A = C \cup {w}
      /\ B = C \/ B = C \cup {w}
  OBVIOUS
<1> HIDE DEF C
<1> QED BY <1>1, <1>2, <1>3
-----------------------------------------------------------------------------

Doing == {"closed", "loading", "mounted", "matching", "deleting", "importing", "landing", "rest"}
Reports == [imported : SUBSET Files, early : SUBSET Files, odd : SUBSET Files, sheets : SUBSET Files]
Called == {NameOf[f] : f \in Files}
CacheKeys == [index : Nat, name : Called]

CacheTyped == cache \subseteq [index : Nat, name : Called, file : Files] /\ IsFiniteSet(cache)
WindowsTyped ==
  /\ at \in [Windows -> Doing] /\ early \in [Windows -> BOOLEAN]
  /\ handed \in [Windows -> Seq(Files)] /\ files \in [Windows -> Seq(Files)]
  /\ keys \in [Windows -> Seq(CacheKeys)]
LibraryTyped ==
  /\ kind \in [Files -> {"song", "odd", "sheet"}] /\ told \in Reports
  /\ landed \in [Files -> Nat] /\ charts \in [Files -> Nat] /\ read \in [Files -> Nat]
  /\ wrong \in Nat /\ fresh \subseteq Files /\ lost \subseteq Files

\* What a window holds while it does this.
HandsFull ==
  \A w \in Windows :
    /\ at[w] \in {"closed", "loading", "rest"} => files[w] = <<>>
    /\ at[w] = "closed" => handed[w] = <<>>
    /\ at[w] = "landing" => files[w] # <<>> /\ kind[Head(files[w])] = "song"
    /\ at[w] = "deleting" => keys[w] # <<>>

\* A file comes once: it is under one key, or it was handed to one window.
CacheAlone ==
  /\ \A p, q \in cache : p.file = q.file => p = q
  /\ \A p \in cache : p.file \notin fresh /\ \A w \in Windows : p.file \notin ToSet(handed[w])
HandedAlone ==
  \A w \in Windows :
    /\ ToSet(handed[w]) \cap fresh = {} /\ ToSet(files[w]) \cap fresh = {}
    /\ IsInjective(handed[w]) /\ IsInjective(files[w]) /\ IsInjective(keys[w])

\* So a window never reads a file that it has: none of those under its other keys.
StillToMatch ==
  \A w \in Windows :
    /\ at[w] = "mounted" => \A p \in cache : p.file \notin ToSet(files[w])
    /\ \A i \in DOMAIN keys[w] :
         at[w] = "matching" \/ (at[w] = "deleting" /\ i # 1) =>
           \A p \in Parked(keys[w][i]) : p.file \notin ToSet(files[w])

\* The windows that have yet to import this file, and those in the middle of it.
Landing(w, f) == at[w] = "landing" /\ Head(files[w]) = f
Expects(w, f) == f \in ToSet(files[w]) /\ ~Landing(w, f)
Lands(f) == {w \in Windows : Landing(w, f)}
Waits(f) == {w \in Windows : Expects(w, f)}

\* A file lands as often as it is read, less those that wait; its chart follows.
LandsAsRead ==
  \A f \in Files :
    /\ landed[f] + Cardinality(Waits(f)) <= read[f]
    /\ charts[f] + Cardinality(Lands(f)) <= landed[f]
    /\ wrong = 0 => charts[f] + Cardinality(Lands(f)) = landed[f]
    /\ landed[f] > 0 => kind[f] = "song"
    /\ wrong = 0 /\ f \in told.imported => charts[f] > 0

FilesTyped == CacheTyped /\ WindowsTyped /\ LibraryTyped
FilesInv ==
  /\ FilesTyped /\ HandsFull /\ CacheAlone /\ HandedAlone /\ StillToMatch
  /\ LandsAsRead /\ NoFileVanishes

\* One window has moved, the others stand where they stood.
Rest(w) ==
  \A v \in Windows \ {w} :
    /\ at'[v] = at[v] /\ early'[v] = early[v] /\ handed'[v] = handed[v]
    /\ files'[v] = files[v] /\ keys'[v] = keys[v]

\* A truth counts one.
Ones(b) == IF b THEN 1 ELSE 0

LEMMA WindowsCounted ==
  ASSUME NEW w \in Windows, NEW f, Rest(w)
  PROVE  /\ Cardinality(Waits(f)) \in Nat /\ Cardinality(Waits(f)') \in Nat
         /\ Cardinality(Lands(f)) \in Nat /\ Cardinality(Lands(f)') \in Nat
         /\ Cardinality(Waits(f)') + Ones(Expects(w, f)) = Cardinality(Waits(f)) + Ones(Expects(w, f)')
         /\ Cardinality(Lands(f)') + Ones(Landing(w, f)) = Cardinality(Lands(f)) + Ones(Landing(w, f)')
<1>1. \A v \in Windows \ {w} : /\ Expects(v, f)' <=> Expects(v, f)
                               /\ Landing(v, f)' <=> Landing(v, f)
  BY DEF Rest, Expects, Landing
<1>2. Waits(f) \ {w} = Waits(f)' \ {w} /\ Lands(f) \ {w} = Lands(f)' \ {w}
  BY <1>1 DEF Waits, Lands
<1>3. IsFiniteSet(Waits(f)) /\ IsFiniteSet(Lands(f))
  BY ArrivalsAssumption, FS_Subset DEF Waits, Lands
<1>4. /\ w \in Waits(f) <=> Expects(w, f)
      /\ w \in Waits(f)' <=> Expects(w, f)'
      /\ w \in Lands(f) <=> Landing(w, f)
      /\ w \in Lands(f)' <=> Landing(w, f)'
  BY DEF Waits, Lands
<1>5. /\ Cardinality(Waits(f)) \in Nat /\ Cardinality(Waits(f)') \in Nat
      /\ Cardinality(Waits(f)') + Ones(Expects(w, f)) = Cardinality(Waits(f)) + Ones(Expects(w, f)')
  <2> DEFINE A == Waits(f)
             B == Waits(f)'
             a == Expects(w, f)
             b == Expects(w, f)'
  <2>1. A \ {w} = B \ {w} /\ IsFiniteSet(A) /\ (w \in A <=> a) /\ (w \in B <=> b)
    BY <1>2, <1>3, <1>4
  <2> HIDE DEF A, B, a, b
  <2>2. /\ Cardinality(A) \in Nat /\ Cardinality(B) \in Nat
        /\ Cardinality(B) + Ones(a) = Cardinality(A) + Ones(b)
    BY <2>1, OneMoved DEF Ones
  <2> QED BY <2>2 DEF A, B, a, b
<1>6. /\ Cardinality(Lands(f)) \in Nat /\ Cardinality(Lands(f)') \in Nat
      /\ Cardinality(Lands(f)') + Ones(Landing(w, f)) = Cardinality(Lands(f)) + Ones(Landing(w, f)')
  <2> DEFINE A == Lands(f)
             B == Lands(f)'
             a == Landing(w, f)
             b == Landing(w, f)'
  <2>1. A \ {w} = B \ {w} /\ IsFiniteSet(A) /\ (w \in A <=> a) /\ (w \in B <=> b)
    BY <1>2, <1>3, <1>4
  <2> HIDE DEF A, B, a, b
  <2>2. /\ Cardinality(A) \in Nat /\ Cardinality(B) \in Nat
        /\ Cardinality(B) + Ones(a) = Cardinality(A) + Ones(b)
    BY <2>1, OneMoved DEF Ones
  <2> QED BY <2>2 DEF A, B, a, b
<1> QED BY <1>5, <1>6

\* What a file's numbers may do in a step of this window.
Accounts(w, f) ==
  /\ landed'[f] + Ones(Expects(w, f)') + read[f] <= landed[f] + Ones(Expects(w, f)) + read'[f]
  /\ charts'[f] + Ones(Landing(w, f)') + landed[f] <= charts[f] + Ones(Landing(w, f)) + landed'[f]
  /\ wrong' = 0 => /\ wrong = 0
                   /\ charts'[f] + Ones(Landing(w, f)') + landed[f]
                        = charts[f] + Ones(Landing(w, f)) + landed'[f]
  /\ landed'[f] > 0 => landed[f] > 0 \/ kind[f] = "song"
  /\ wrong' = 0 /\ f \in told'.imported => f \in told.imported \/ charts'[f] > 0
  /\ charts'[f] >= charts[f] /\ kind'[f] = kind[f]

LEMMA AccountsKept ==
  ASSUME LibraryTyped, LibraryTyped', LandsAsRead, NEW w \in Windows, Rest(w),
         \A f \in Files : Accounts(w, f)
  PROVE  LandsAsRead'
<1> SUFFICES ASSUME NEW f \in Files
             PROVE  /\ landed'[f] + Cardinality(Waits(f)') <= read'[f]
                    /\ charts'[f] + Cardinality(Lands(f)') <= landed'[f]
                    /\ wrong' = 0 => charts'[f] + Cardinality(Lands(f)') = landed'[f]
                    /\ landed'[f] > 0 => kind'[f] = "song"
                    /\ wrong' = 0 /\ f \in told'.imported => charts'[f] > 0
  BY DEF LandsAsRead
<1> DEFINE W == Cardinality(Waits(f))
           V == Cardinality(Waits(f)')
           L == Cardinality(Lands(f))
           M == Cardinality(Lands(f)')
           a == Ones(Expects(w, f))
           b == Ones(Expects(w, f)')
           c == Ones(Landing(w, f))
           d == Ones(Landing(w, f)')
<1>1. /\ W \in Nat /\ V \in Nat /\ L \in Nat /\ M \in Nat
      /\ a \in {0, 1} /\ b \in {0, 1} /\ c \in {0, 1} /\ d \in {0, 1}
      /\ V + a = W + b /\ M + c = L + d
  BY WindowsCounted DEF Ones
<1>2. /\ landed[f] \in Nat /\ charts[f] \in Nat /\ read[f] \in Nat
      /\ landed'[f] \in Nat /\ charts'[f] \in Nat /\ read'[f] \in Nat
      /\ wrong \in Nat /\ wrong' \in Nat
  BY DEF LibraryTyped
<1>3. /\ landed[f] + W <= read[f] /\ charts[f] + L <= landed[f]
      /\ wrong = 0 => charts[f] + L = landed[f]
      /\ landed[f] > 0 => kind[f] = "song"
      /\ wrong = 0 /\ f \in told.imported => charts[f] > 0
  BY DEF LandsAsRead
<1>4. /\ landed'[f] + b + read[f] <= landed[f] + a + read'[f]
      /\ charts'[f] + d + landed[f] <= charts[f] + c + landed'[f]
      /\ wrong' = 0 => wrong = 0 /\ charts'[f] + d + landed[f] = charts[f] + c + landed'[f]
      /\ landed'[f] > 0 => landed[f] > 0 \/ kind[f] = "song"
      /\ wrong' = 0 /\ f \in told'.imported => f \in told.imported \/ charts'[f] > 0
      /\ charts'[f] >= charts[f] /\ kind'[f] = kind[f]
  BY DEF Accounts
<1> HIDE DEF W, V, L, M, a, b, c, d
<1>5. landed'[f] + V <= read'[f]
  BY <1>1, <1>2, <1>3, <1>4
<1>6. charts'[f] + M <= landed'[f]
  BY <1>1, <1>2, <1>3, <1>4
<1>7. ASSUME wrong' = 0 PROVE charts'[f] + M = landed'[f]
  <2> DEFINE x == charts[f]
             y == landed[f]
             z == charts'[f]
             v == landed'[f]
  <2>1. x + L = y /\ z + d + y = x + c + v
    BY <1>3, <1>4, <1>7
  <2>2. M + c = L + d /\ M \in Nat /\ L \in Nat /\ c \in Nat /\ d \in Nat
    BY <1>1
  <2>3. x \in Nat /\ y \in Nat /\ z \in Nat /\ v \in Nat
    BY <1>2
  <2> HIDE DEF x, y, z, v
  <2>4. z + M = v
    BY <2>1, <2>2, <2>3
  <2> QED BY <2>4 DEF z, v
<1>8. wrong' = 0 /\ f \in told'.imported => charts'[f] > 0
  BY <1>2, <1>3, <1>4
<1>9. landed'[f] > 0 => kind'[f] = "song"
  BY <1>3, <1>4
<1> QED BY <1>5, <1>6, <1>7, <1>8, <1>9 DEF V, M

\* A step after which this window waits for the same files, and lands the same.
LEMMA AccountsStand ==
  ASSUME LibraryTyped, LibraryTyped', LandsAsRead, NEW w \in Windows, Rest(w),
         UNCHANGED <<kind, told, landed, charts, read>>, wrong' = 0 => wrong = 0,
         \A f \in Files : /\ Expects(w, f)' => Expects(w, f)
                          /\ Landing(w, f)' <=> Landing(w, f)
  PROVE  LandsAsRead'
<1> SUFFICES ASSUME NEW f \in Files PROVE Accounts(w, f)
  BY AccountsKept
<1>1. /\ Ones(Expects(w, f)') <= Ones(Expects(w, f)) /\ Ones(Landing(w, f)') = Ones(Landing(w, f))
      /\ Ones(Expects(w, f)') \in Nat /\ Ones(Expects(w, f)) \in Nat
      /\ Ones(Landing(w, f)') \in Nat
  BY DEF Ones
<1>2. landed[f] \in Nat /\ charts[f] \in Nat /\ read[f] \in Nat
  BY DEF LibraryTyped
<1> QED BY <1>1, <1>2 DEF Accounts

LEMMA FilesTypes ==
  ASSUME FilesInv, NEW w \in Windows
  PROVE  /\ at[w] \in Doing /\ early[w] \in BOOLEAN /\ handed[w] \in Seq(Files)
         /\ files[w] \in Seq(Files) /\ keys[w] \in Seq(CacheKeys)
         /\ DOMAIN at = Windows /\ DOMAIN handed = Windows /\ DOMAIN files = Windows
         /\ DOMAIN keys = Windows /\ DOMAIN early = Windows
BY DEF FilesInv, FilesTyped, WindowsTyped

\* A window that stands as it stood has what it had.
LEMMA RestHold ==
  ASSUME FilesInv, NEW w \in Windows, Rest(w), kind' = kind
  PROVE  \A v \in Windows \ {w} :
           /\ at'[v] \in {"closed", "loading", "rest"} => files'[v] = <<>>
           /\ at'[v] = "closed" => handed'[v] = <<>>
           /\ at'[v] = "landing" => files'[v] # <<>> /\ kind'[Head(files'[v])] = "song"
           /\ at'[v] = "deleting" => keys'[v] # <<>>
           /\ IsInjective(handed'[v]) /\ IsInjective(files'[v]) /\ IsInjective(keys'[v])
BY DEF FilesInv, HandsFull, HandedAlone, Rest

\* A window loads the share page, with a share that comes or without one.
LEMMA LoadsKeeps ==
  ASSUME FilesInv, NEW w \in Windows, at[w] \in {"closed", "rest"}, Loads(w), CacheTyped',
         fresh' \subseteq fresh, lost' \subseteq Files, wrong' = wrong,
         \A p, q \in cache' : p.file = q.file => p = q,
         \A p \in cache' : p.file \notin fresh' /\ (p \in cache \/ p.file \in fresh),
         \A f \in Files \ (fresh' \cup lost') :
           \/ \E p \in cache' : p.file = f
           \/ f \notin fresh \cup lost \cup ToSet(handed[w]) /\ \A p \in cache : p.file # f
  PROVE  FilesInv'
<1>1. /\ at'[w] = "loading" /\ handed'[w] = <<>> /\ files'[w] = <<>> /\ keys'[w] = <<>>
      /\ Rest(w) /\ UNCHANGED <<kind, early, told, landed, charts, read>>
  BY FilesTypes DEF Loads, Rest
<1>2. files[w] = <<>>
  BY DEF FilesInv, HandsFull
<1>3. FilesTyped'
  <2>1. WindowsTyped'
    BY DEF Loads, FilesInv, FilesTyped, WindowsTyped, Doing
  <2>2. LibraryTyped'
    BY <1>1 DEF FilesInv, FilesTyped, LibraryTyped
  <2> QED BY <2>1, <2>2 DEF FilesTyped
<1>4. HandsFull'
  BY <1>1, RestHold DEF HandsFull
<1>5. CacheAlone'
  <2>1. ASSUME NEW p \in cache', NEW v \in Windows PROVE p.file \notin ToSet(handed'[v])
    <3>1. CASE v = w
      BY <1>1, <3>1, NothingListed
    <3>2. CASE v # w
      BY <1>1, <3>2 DEF Rest, FilesInv, CacheAlone, HandedAlone
    <3> QED BY <3>1, <3>2
  <2> QED BY <2>1 DEF CacheAlone
<1>6. HandedAlone'
  <2>1. ASSUME NEW v \in Windows \ {w}
        PROVE  ToSet(handed'[v]) \cap fresh' = {} /\ ToSet(files'[v]) \cap fresh' = {}
    BY <1>1 DEF Rest, FilesInv, HandedAlone
  <2> QED BY <1>1, <2>1, RestHold, NothingListed DEF HandedAlone
<1>7. StillToMatch'
  <2>1. ASSUME NEW v \in Windows \ {w}, NEW p \in cache', p \notin cache
        PROVE  p.file \notin ToSet(files'[v])
    BY <1>1, <2>1 DEF Rest, FilesInv, HandedAlone
  <2>2. ASSUME NEW v \in Windows \ {w}, at'[v] = "mounted", NEW p \in cache'
        PROVE  p.file \notin ToSet(files'[v])
    BY <1>1, <2>1, <2>2 DEF Rest, FilesInv, StillToMatch
  <2>3. ASSUME NEW v \in Windows \ {w}, NEW i \in DOMAIN keys'[v], NEW p \in cache',
               [index |-> p.index, name |-> p.name] = keys'[v][i],
               at'[v] = "matching" \/ (at'[v] = "deleting" /\ i # 1)
        PROVE  p.file \notin ToSet(files'[v])
    <3>1. CASE p \in cache
      <4>1. keys'[v] = keys[v] /\ at'[v] = at[v] /\ files'[v] = files[v]
        BY <1>1 DEF Rest
      <4>2. p \in Parked(keys[v][i])
        BY <2>3, <3>1, <4>1 DEF Parked
      <4> QED BY <2>3, <4>1, <4>2 DEF FilesInv, StillToMatch
    <3> QED BY <2>1, <3>1
  <2>4. DOMAIN keys'[w] = {}
    BY <1>1
  <2> QED BY <1>1, <2>2, <2>3, <2>4 DEF StillToMatch, Parked
<1>8. LandsAsRead'
  <2>1. \A f \in Files : ~Expects(w, f)' /\ ~Landing(w, f)' /\ ~Landing(w, f)
    BY <1>1, NothingListed DEF Expects, Landing
  <2>2. LibraryTyped /\ LibraryTyped' /\ LandsAsRead
    BY <1>3 DEF FilesInv, FilesTyped
  <2> QED BY <1>1, <2>1, <2>2, AccountsStand
<1>9. NoFileVanishes'
  <2> SUFFICES ASSUME NEW f \in Files \ (fresh' \cup lost'), \A p \in cache' : p.file # f
               PROVE  \/ \E v \in Windows : f \in HeldBy(v)'
                      \/ \E as \in DOMAIN told' : f \in told'[as]
    BY DEF NoFileVanishes
  <2>1. f \notin fresh \cup lost \cup ToSet(handed[w]) /\ \A p \in cache : p.file # f
    OBVIOUS
  <2>2. CASE \E as \in DOMAIN told : f \in told[as]
    BY <1>1, <2>2
  <2>3. CASE \E v \in Windows : f \in HeldBy(v)
    <3>1. PICK v \in Windows : f \in HeldBy(v)
      BY <2>3
    <3>2. v # w
      BY <1>2, <2>1, <3>1, NothingListed DEF HeldBy
    <3>3. f \in HeldBy(v)'
      BY <1>1, <3>1, <3>2 DEF HeldBy, Rest
    <3> QED BY <3>3
  <2> QED BY <2>1, <2>2, <2>3 DEF FilesInv, NoFileVanishes
<1> QED BY <1>3, <1>4, <1>5, <1>6, <1>7, <1>8, <1>9 DEF FilesInv

LEMMA OpenKeeps == ASSUME FilesInv, NEW w \in Windows, Open(w) PROVE FilesInv'
<1>1. /\ at[w] \in {"closed", "rest"} /\ Loads(w) /\ UNCHANGED <<cache, wrong, fresh, lost>>
      /\ handed[w] = <<>>
  BY DEF Open, FilesInv, HandsFull
<1>2. CacheTyped' /\ lost' \subseteq Files
  BY <1>1 DEF FilesInv, FilesTyped, CacheTyped, LibraryTyped
<1>3. /\ \A p, q \in cache' : p.file = q.file => p = q
      /\ \A p \in cache' : p.file \notin fresh' /\ (p \in cache \/ p.file \in fresh)
  BY <1>1 DEF FilesInv, CacheAlone
<1>4. ASSUME NEW f \in Files \ (fresh' \cup lost')
      PROVE  \/ \E p \in cache' : p.file = f
             \/ f \notin fresh \cup lost \cup ToSet(handed[w]) /\ \A p \in cache : p.file # f
  BY <1>1, NothingListed
<1> QED BY <1>1, <1>2, <1>3, <1>4, LoadsKeeps

LEMMA ShareKeeps ==
  ASSUME FilesInv, NEW w \in Windows, NEW list \in TupleOf(Files, 1) \cup TupleOf(Files, 2),
         Share(w, list)
  PROVE  FilesInv'
<1> DEFINE over == UNION {Parked(Key(n, list[n])) : n \in DOMAIN list}
           Entry(n) == [index |-> n, name |-> NameOf[list[n]], file |-> list[n]]
           new == {Entry(n) : n \in DOMAIN list}
<1>1. /\ at[w] \in {"closed", "rest"} /\ Loads(w) /\ wrong' = wrong /\ IsInjective(list)
      /\ ToSet(list) \subseteq fresh /\ fresh' = fresh \ ToSet(list)
      /\ cache' = (cache \ over) \cup new
      /\ lost' = lost \cup {p.file : p \in over} \cup ToSet(handed[w])
  BY DEF Share, Brings
<1>2. /\ DOMAIN list = {1} \/ DOMAIN list = {1, 2}
      /\ \A n \in DOMAIN list : n \in Nat /\ list[n] \in Files /\ list[n] \in ToSet(list)
  BY DEF TupleOf, ToSet
<1>3. over \subseteq cache
  BY DEF Parked
<1>4. new \subseteq [index : Nat, name : Called, file : Files]
  BY <1>2 DEF Called
<1>5. IsFiniteSet((cache \ over) \cup new)
  <2>1. IsFiniteSet(cache \ over)
    BY FS_Subset DEF FilesInv, FilesTyped, CacheTyped
  <2>2. CASE DOMAIN list = {1}
    <3>1. new = {Entry(1)}
      BY <2>2
    <3> HIDE DEF new, Entry
    <3> QED BY <2>1, <3>1, FS_AddElement
  <2>3. CASE DOMAIN list = {1, 2}
    <3>1. new = {Entry(1), Entry(2)}
      BY <2>3
    <3> HIDE DEF new, over, Entry
    <3>2. IsFiniteSet((cache \ over) \cup {Entry(1)})
      BY <2>1, FS_AddElement
    <3>3. IsFiniteSet(((cache \ over) \cup {Entry(1)}) \cup {Entry(2)})
      BY <3>2, FS_AddElement
    <3>4. ((cache \ over) \cup {Entry(1)}) \cup {Entry(2)} = (cache \ over) \cup new
      BY <3>1
    <3> QED BY <3>3, <3>4
  <2> QED BY <1>2, <2>2, <2>3
<1>6. \A p \in new : p.file \in ToSet(list) /\ p.file \in fresh
  BY <1>1, <1>2
<1>7. ASSUME NEW p \in new, NEW q \in new, p.file = q.file PROVE p = q
  <2>1. PICK m \in DOMAIN list : p = Entry(m)
    OBVIOUS
  <2>2. PICK n \in DOMAIN list : q = Entry(n)
    OBVIOUS
  <2>3. list[m] = list[n]
    BY <1>7, <2>1, <2>2
  <2>4. m = n
    BY <1>1, <2>3 DEF IsInjective
  <2> QED BY <2>1, <2>2, <2>4
<1>8. \A f \in ToSet(list) : \E p \in new : p.file = f
  <2>1. \A n \in DOMAIN list : Entry(n) \in new /\ Entry(n).file = list[n]
    OBVIOUS
  <2> HIDE DEF new, Entry
  <2> QED BY <2>1 DEF ToSet
<1> HIDE DEF over, new, Entry
<1>9. CacheTyped' /\ lost' \subseteq Files
  <2>1. ToSet(handed[w]) \subseteq Files
    BY FilesTypes DEF ToSet
  <2>2. \A p \in over : p.file \in Files
    BY <1>3 DEF FilesInv, FilesTyped, CacheTyped
  <2>3. CacheTyped'
    BY <1>1, <1>4, <1>5 DEF FilesInv, FilesTyped, CacheTyped
  <2>4. lost \subseteq Files
    BY DEF FilesInv, FilesTyped, LibraryTyped
  <2> QED BY <1>1, <2>1, <2>2, <2>3, <2>4
<1>10. \A p \in cache : p.file \notin fresh
  BY DEF FilesInv, CacheAlone
<1>11. \A p, q \in cache' : p.file = q.file => p = q
  BY <1>1, <1>6, <1>7, <1>10 DEF FilesInv, CacheAlone
<1>12. \A p \in cache' : p.file \notin fresh' /\ (p \in cache \/ p.file \in fresh)
  BY <1>1, <1>6, <1>10
<1>13. ASSUME NEW f \in Files \ (fresh' \cup lost')
       PROVE  \/ \E p \in cache' : p.file = f
              \/ f \notin fresh \cup lost \cup ToSet(handed[w]) /\ \A p \in cache : p.file # f
  <2>1. CASE f \in ToSet(list)
    BY <1>1, <1>8, <2>1
  <2>2. CASE f \notin ToSet(list)
    <3>1. f \notin fresh \cup lost \cup ToSet(handed[w])
      BY <1>1, <2>2
    <3>2. ASSUME NEW p \in cache, p.file = f PROVE p \in cache'
      BY <1>1, <3>2
    <3> QED BY <3>1, <3>2
  <2> QED BY <2>1, <2>2
<1>14. fresh' \subseteq fresh
  BY <1>1
<1> QED BY <1>1, <1>9, <1>11, <1>12, <1>13, <1>14, LoadsKeeps

LEMMA LaunchKeeps ==
  ASSUME FilesInv, NEW w \in Windows, NEW f \in Files, Launch(w, f)
  PROVE  FilesInv'
<1>1. f \in fresh /\ fresh' = fresh \ {f} /\ fresh \subseteq Files
  BY DEF Launch, Brings, FilesInv, FilesTyped, LibraryTyped
<1>2. CASE at[w] = "rest"
  <2>1. /\ Loads(w) /\ lost' = lost \cup ToSet(handed[w]) \cup {f} /\ UNCHANGED <<cache, wrong>>
    BY <1>2 DEF Launch
  <2>2. CacheTyped' /\ lost' \subseteq Files
    <3>1. ToSet(handed[w]) \subseteq Files
      BY FilesTypes DEF ToSet
    <3> QED BY <2>1, <3>1 DEF FilesInv, FilesTyped, CacheTyped, LibraryTyped
  <2>3. /\ \A p, q \in cache' : p.file = q.file => p = q
        /\ \A p \in cache' : p.file \notin fresh' /\ (p \in cache \/ p.file \in fresh)
    BY <1>1, <2>1 DEF FilesInv, CacheAlone
  <2>4. ASSUME NEW g \in Files \ (fresh' \cup lost')
        PROVE  \/ \E p \in cache' : p.file = g
               \/ g \notin fresh \cup lost \cup ToSet(handed[w]) /\ \A p \in cache : p.file # g
    BY <1>1, <2>1
  <2> QED BY <1>1, <1>2, <2>1, <2>2, <2>3, <2>4, LoadsKeeps
<1>3. CASE at[w] # "rest"
  <2>1. /\ handed' = [handed EXCEPT ![w] = Append(@, f)] /\ at[w] # "closed"
        /\ UNCHANGED <<kind, cache, at, early, keys, files, told, landed, charts, wrong, read, lost>>
    BY <1>3 DEF Launch
  <2>2. /\ handed[w] \in Seq(Files) /\ IsInjective(handed[w]) /\ f \notin ToSet(handed[w])
        /\ \A v \in Windows : f \notin ToSet(handed[v]) /\ f \notin ToSet(files[v])
        /\ \A p \in cache : p.file # f
    BY <1>1, FilesTypes DEF FilesInv, HandedAlone, CacheAlone
  <2>3. /\ handed'[w] \in Seq(Files) /\ ToSet(handed'[w]) = ToSet(handed[w]) \cup {f}
        /\ IsInjective(handed'[w])
        /\ \A v \in Windows \ {w} : handed'[v] = handed[v]
    <3>1. handed'[w] = Append(handed[w], f) /\ \A v \in Windows \ {w} : handed'[v] = handed[v]
      BY <2>1, FilesTypes
    <3> QED BY <2>2, <3>1, OneMoreListed
  <2>4. FilesTyped'
    <3>1. WindowsTyped'
      BY <2>1, <2>3 DEF FilesInv, FilesTyped, WindowsTyped
    <3> QED BY <1>1, <2>1, <3>1 DEF FilesInv, FilesTyped, CacheTyped, LibraryTyped
  <2>5. HandsFull'
    BY <2>1, <2>3 DEF FilesInv, HandsFull
  <2>6. CacheAlone'
    BY <1>1, <2>1, <2>2, <2>3 DEF FilesInv, CacheAlone
  <2>7. HandedAlone'
    BY <1>1, <2>1, <2>2, <2>3 DEF FilesInv, HandedAlone
  <2>8. StillToMatch'
    BY <2>1 DEF FilesInv, StillToMatch, Parked
  <2>9. LandsAsRead'
    BY <2>1 DEF FilesInv, LandsAsRead, Waits, Lands, Expects, Landing
  <2>10. NoFileVanishes'
    <3> SUFFICES ASSUME NEW g \in Files \ (fresh' \cup lost')
                 PROVE  \/ \E p \in cache' : p.file = g
                        \/ \E v \in Windows : g \in HeldBy(v)'
                        \/ \E as \in DOMAIN told' : g \in told'[as]
      BY DEF NoFileVanishes
    <3>1. CASE g = f
      BY <2>3, <3>1 DEF HeldBy
    <3>2. \A v \in Windows : HeldBy(v) \subseteq HeldBy(v)'
      BY <2>1, <2>3 DEF HeldBy
    <3>3. CASE g # f
      <4>1. g \in Files \ (fresh \cup lost)
        BY <1>1, <2>1, <3>3
      <4> QED BY <2>1, <3>2, <4>1 DEF FilesInv, NoFileVanishes
    <3> QED BY <3>1, <3>3
  <2> QED BY <2>4, <2>5, <2>6, <2>7, <2>8, <2>9, <2>10 DEF FilesInv
<1> QED BY <1>2, <1>3

LEMMA FewAreListed ==
  ASSUME NEW A, IsFiniteSet(A)
  PROVE  /\ IsFiniteSet({p.file : p \in A})
         /\ IsFiniteSet({[index |-> p.index, name |-> p.name] : p \in A})
<1>1. [p \in A |-> p.file] \in Surjection(A, {p.file : p \in A})
  BY DEF Surjection
<1>2. [p \in A |-> [index |-> p.index, name |-> p.name]]
        \in Surjection(A, {[index |-> p.index, name |-> p.name] : p \in A})
  BY DEF Surjection
<1> QED BY <1>1, <1>2, FS_Surjection

LEMMA TailShifts ==
  ASSUME NEW S, NEW list \in Seq(S), list # <<>>
  PROVE  /\ Head(list) = list[1] /\ 1 \in DOMAIN list
         /\ \A i \in DOMAIN Tail(list) :
              i \in Nat \ {0} /\ i + 1 # 1 /\ i + 1 \in DOMAIN list /\ Tail(list)[i] = list[i + 1]
OBVIOUS

LEMMA MountKeeps == ASSUME FilesInv, NEW w \in Windows, Mount(w) PROVE FilesInv'
<1>1. /\ at[w] = "loading" /\ at'[w] = "mounted" /\ files'[w] = handed[w] /\ handed'[w] = <<>>
      /\ keys'[w] = keys[w] /\ Rest(w)
      /\ UNCHANGED <<kind, cache, keys, told, landed, charts, came, wrong, fresh, lost>>
      /\ read' = [f \in Files |-> IF f \in ToSet(handed[w]) THEN read[f] + 1 ELSE read[f]]
  BY FilesTypes DEF Mount, Reads, Rest
<1>2. files[w] = <<>> /\ handed[w] \in Seq(Files)
  BY <1>1, FilesTypes DEF FilesInv, HandsFull
<1>3. FilesTyped'
  <2>1. WindowsTyped'
    BY <1>2 DEF Mount, FilesInv, FilesTyped, WindowsTyped, Doing
  <2>2. LibraryTyped'
    BY <1>1 DEF FilesInv, FilesTyped, LibraryTyped
  <2> QED BY <1>1, <2>1, <2>2 DEF FilesInv, FilesTyped, CacheTyped
<1>4. HandsFull'
  BY <1>1, RestHold DEF HandsFull
<1>5. CacheAlone'
  <2>1. \A v \in Windows : ToSet(handed'[v]) \subseteq ToSet(handed[v])
    BY <1>1, NothingListed DEF Rest
  <2> QED BY <1>1, <2>1 DEF FilesInv, CacheAlone
<1>6. HandedAlone'
  <2>1. ASSUME NEW v \in Windows \ {w}
        PROVE  ToSet(handed'[v]) \cap fresh' = {} /\ ToSet(files'[v]) \cap fresh' = {}
    BY <1>1 DEF Rest, FilesInv, HandedAlone
  <2>2. /\ ToSet(handed[w]) \cap fresh = {} /\ IsInjective(handed[w]) /\ IsInjective(keys[w])
    BY DEF FilesInv, HandedAlone
  <2> QED BY <1>1, <2>1, <2>2, RestHold, NothingListed DEF HandedAlone
<1>7. StillToMatch'
  <2>1. \A p \in cache : p.file \notin ToSet(handed[w])
    BY DEF FilesInv, CacheAlone
  <2> QED BY <1>1, <2>1 DEF Rest, FilesInv, StillToMatch, Parked
<1>8. LandsAsRead'
  <2> SUFFICES ASSUME NEW f \in Files PROVE Accounts(w, f)
    BY <1>1, <1>3, AccountsKept DEF FilesInv, FilesTyped
  <2>1. /\ ~Expects(w, f) /\ ~Landing(w, f) /\ ~Landing(w, f)'
        /\ Expects(w, f)' <=> f \in ToSet(handed[w])
    BY <1>1, <1>2, NothingListed DEF Expects, Landing
  <2>2. /\ Ones(Expects(w, f)) = 0 /\ Ones(Landing(w, f)) = 0 /\ Ones(Landing(w, f)') = 0
        /\ Ones(Expects(w, f)') = IF f \in ToSet(handed[w]) THEN 1 ELSE 0
    BY <2>1 DEF Ones
  <2>3. landed[f] \in Nat /\ charts[f] \in Nat /\ read[f] \in Nat
    BY DEF FilesInv, FilesTyped, LibraryTyped
  <2>4. read'[f] = IF f \in ToSet(handed[w]) THEN read[f] + 1 ELSE read[f]
    BY <1>1
  <2> QED BY <1>1, <2>2, <2>3, <2>4 DEF Accounts
<1>9. NoFileVanishes'
  <2>1. HeldBy(w) \subseteq HeldBy(w)'
    BY <1>1, <1>2, NothingListed DEF HeldBy
  <2>2. \A v \in Windows : HeldBy(v) \subseteq HeldBy(v)'
    BY <1>1, <2>1 DEF HeldBy, Rest
  <2> QED BY <1>1, <2>2 DEF FilesInv, NoFileVanishes
<1> QED BY <1>3, <1>4, <1>5, <1>6, <1>7, <1>8, <1>9 DEF FilesInv

LEMMA ReadKeysKeeps == ASSUME FilesInv, NEW w \in Windows, ReadKeys(w) PROVE FilesInv'
<1> DEFINE found == {[index |-> p.index, name |-> p.name] : p \in cache}
<1>1. /\ at[w] = "mounted" /\ at'[w] = "matching" /\ keys'[w] = SetToSeq(found)
      /\ files'[w] = files[w] /\ handed'[w] = handed[w] /\ Rest(w)
      /\ UNCHANGED <<kind, cache, early, handed, files, told, landed, charts, wrong, fresh, read, lost>>
  BY FilesTypes DEF ReadKeys, Rest
<1>2. found \subseteq CacheKeys /\ IsFiniteSet(found)
  <2>1. IsFiniteSet(cache)
    BY DEF FilesInv, FilesTyped, CacheTyped
  <2>2. found \subseteq CacheKeys
    BY DEF FilesInv, FilesTyped, CacheTyped, CacheKeys
  <2> QED BY <2>1, <2>2, FewAreListed
<1>3. SetToSeq(found) \in Seq(CacheKeys) /\ IsInjective(SetToSeq(found))
  <2>1. SetToSeq(found) \in Seq(found) /\ IsInjective(SetToSeq(found))
    BY <1>2, AllListed
  <2> HIDE DEF found
  <2> QED BY <1>2, <2>1
<1> HIDE DEF found
<1>4. FilesTyped'
  <2>1. WindowsTyped'
    BY <1>1, <1>3 DEF ReadKeys, found, FilesInv, FilesTyped, WindowsTyped, Doing
  <2> QED BY <1>1, <2>1 DEF FilesInv, FilesTyped, CacheTyped, LibraryTyped
<1>5. HandsFull'
  BY <1>1, RestHold DEF HandsFull
<1>6. CacheAlone'
  BY <1>1 DEF FilesInv, CacheAlone
<1>7. HandedAlone'
  BY <1>1, <1>3, RestHold DEF FilesInv, HandedAlone
<1>8. StillToMatch'
  <2>1. \A p \in cache : p.file \notin ToSet(files[w])
    BY <1>1 DEF FilesInv, StillToMatch
  <2> QED BY <1>1, <2>1 DEF Rest, FilesInv, StillToMatch, Parked
<1>9. LandsAsRead'
  <2>1. \A f \in Files : (Expects(w, f)' <=> Expects(w, f)) /\ (Landing(w, f)' <=> Landing(w, f))
    BY <1>1 DEF Expects, Landing
  <2> QED BY <1>1, <1>4, <2>1, AccountsStand DEF FilesInv, FilesTyped
<1>10. NoFileVanishes'
  BY <1>1 DEF FilesInv, NoFileVanishes, HeldBy
<1> QED BY <1>4, <1>5, <1>6, <1>7, <1>8, <1>9, <1>10 DEF FilesInv

LEMMA MatchKeeps == ASSUME FilesInv, NEW w \in Windows, Match(w) PROVE FilesInv'
<1> DEFINE there == {p.file : p \in Parked(Head(keys[w]))}
<1>1. /\ at[w] = "matching" /\ keys[w] # <<>> /\ at'[w] = "deleting"
      /\ files'[w] = files[w] \o SetToSeq(there) /\ handed'[w] = handed[w] /\ Rest(w)
      /\ read' = [f \in Files |-> IF f \in there THEN read[f] + 1 ELSE read[f]]
      /\ UNCHANGED <<kind, cache, early, handed, keys, told, landed, charts, wrong, fresh, lost>>
  BY FilesTypes DEF Match, Reads, Rest
<1>2. /\ files[w] \in Seq(Files) /\ Head(keys[w]) = keys[w][1] /\ 1 \in DOMAIN keys[w]
      /\ IsInjective(keys[w])
  BY <1>1, FilesTypes, TailShifts DEF FilesInv, HandedAlone
<1>3. there \subseteq Files /\ IsFiniteSet(there)
  <2>1. Parked(Head(keys[w])) \subseteq cache /\ IsFiniteSet(cache)
    BY DEF Parked, FilesInv, FilesTyped, CacheTyped
  <2>2. IsFiniteSet(Parked(Head(keys[w])))
    BY <2>1, FS_Subset
  <2>3. IsFiniteSet(there)
    BY <2>2, FewAreListed
  <2> QED BY <2>1, <2>3 DEF FilesInv, FilesTyped, CacheTyped
<1>4. there \cap ToSet(files[w]) = {}
  BY <1>1, <1>2 DEF FilesInv, StillToMatch
<1>5. there \cap fresh = {} /\ ToSet(files[w]) \cap fresh = {}
  <2>1. \A p \in cache : p.file \notin fresh
    BY DEF FilesInv, CacheAlone
  <2>2. Parked(Head(keys[w])) \subseteq cache
    BY DEF Parked
  <2>3. there \cap fresh = {}
    BY <2>1, <2>2
  <2> QED BY <2>3 DEF FilesInv, HandedAlone
<1>6. /\ files'[w] \in Seq(Files) /\ ToSet(files'[w]) = ToSet(files[w]) \cup there
      /\ IsInjective(files'[w])
  <2>1. /\ SetToSeq(there) \in Seq(there) /\ IsInjective(SetToSeq(there))
        /\ ToSet(SetToSeq(there)) = there
    BY <1>3, AllListed
  <2>2. IsInjective(files[w])
    BY DEF FilesInv, HandedAlone
  <2> HIDE DEF there
  <2>3. SetToSeq(there) \in Seq(Files)
    BY <1>3, <2>1
  <2> QED BY <1>1, <1>2, <1>4, <2>1, <2>2, <2>3, BothListed
<1>7. ASSUME NEW i \in DOMAIN keys[w], i # 1, NEW p \in Parked(keys[w][i])
      PROVE  p.file \notin ToSet(files[w]) \cup there
  <2>1. p.file \notin ToSet(files[w])
    BY <1>1, <1>7 DEF FilesInv, StillToMatch
  <2>2. ASSUME NEW q \in Parked(keys[w][1]), q.file = p.file PROVE FALSE
    <3>1. p \in cache /\ q \in cache
      BY <1>7, <2>2 DEF Parked
    <3>2. p = q
      BY <2>2, <3>1 DEF FilesInv, CacheAlone
    <3>3. keys[w][i] = keys[w][1]
      BY <1>7, <2>2, <3>2 DEF Parked
    <3> QED BY <1>2, <1>7, <3>3 DEF IsInjective
  <2> QED BY <1>2, <2>1, <2>2
<1> HIDE DEF there
<1>8. FilesTyped'
  <2>1. at' = [at EXCEPT ![w] = "deleting"] /\ files' = [files EXCEPT ![w] = files'[w]]
    BY <1>1, FilesTypes DEF Match, FilesInv, FilesTyped, WindowsTyped
  <2>2. WindowsTyped'
    BY <1>1, <1>6, <2>1 DEF FilesInv, FilesTyped, WindowsTyped, Doing
  <2>3. LibraryTyped'
    BY <1>1 DEF FilesInv, FilesTyped, LibraryTyped
  <2> QED BY <1>1, <2>2, <2>3 DEF FilesInv, FilesTyped, CacheTyped
<1>9. HandsFull'
  BY <1>1, RestHold DEF HandsFull
<1>10. CacheAlone'
  BY <1>1 DEF FilesInv, CacheAlone
<1>11. HandedAlone'
  <2>1. ToSet(files'[w]) \cap fresh' = {}
    BY <1>1, <1>5, <1>6
  <2> QED BY <1>1, <1>6, <2>1 DEF Rest, FilesInv, HandedAlone
<1>12. StillToMatch'
  <2>1. ASSUME NEW v \in Windows, at'[v] = "mounted", NEW p \in cache'
        PROVE  p.file \notin ToSet(files'[v])
    BY <1>1, <2>1 DEF Rest, FilesInv, StillToMatch
  <2>2. ASSUME NEW v \in Windows, NEW i \in DOMAIN keys[v],
               at'[v] = "matching" \/ (at'[v] = "deleting" /\ i # 1), NEW p \in Parked(keys[v][i])
        PROVE  p.file \notin ToSet(files'[v])
    <3>1. CASE v = w
      BY <1>1, <1>6, <1>7, <2>2, <3>1
    <3>2. CASE v # w
      BY <1>1, <2>2, <3>2 DEF Rest, FilesInv, StillToMatch
    <3> QED BY <3>1, <3>2
  <2> QED BY <1>1, <2>1, <2>2 DEF StillToMatch, Parked
<1>13. LandsAsRead'
  <2> SUFFICES ASSUME NEW f \in Files PROVE Accounts(w, f)
    BY <1>1, <1>8, AccountsKept DEF FilesInv, FilesTyped
  <2>1. /\ ~Landing(w, f) /\ ~Landing(w, f)'
        /\ Expects(w, f) <=> f \in ToSet(files[w])
        /\ Expects(w, f)' <=> f \in ToSet(files[w]) \/ f \in there
    BY <1>1, <1>6 DEF Expects, Landing
  <2>2. /\ Ones(Landing(w, f)) = 0 /\ Ones(Landing(w, f)') = 0
        /\ Ones(Expects(w, f)) \in Nat
        /\ Ones(Expects(w, f)') = IF f \in there THEN Ones(Expects(w, f)) + 1 ELSE Ones(Expects(w, f))
    BY <1>4, <2>1 DEF Ones
  <2>3. landed[f] \in Nat /\ charts[f] \in Nat /\ read[f] \in Nat
    BY DEF FilesInv, FilesTyped, LibraryTyped
  <2>4. read'[f] = IF f \in there THEN read[f] + 1 ELSE read[f]
    BY <1>1
  <2> QED BY <1>1, <2>2, <2>3, <2>4 DEF Accounts
<1>14. NoFileVanishes'
  <2>1. \A v \in Windows : HeldBy(v) \subseteq HeldBy(v)'
    BY <1>1, <1>6 DEF HeldBy, Rest
  <2> QED BY <1>1, <2>1 DEF FilesInv, NoFileVanishes
<1> QED BY <1>8, <1>9, <1>10, <1>11, <1>12, <1>13, <1>14 DEF FilesInv

LEMMA DeleteKeeps == ASSUME FilesInv, NEW w \in Windows, Delete(w) PROVE FilesInv'
<1> DEFINE gone == Parked(Head(keys[w]))
<1>1. /\ at[w] = "deleting" /\ at'[w] = "matching" /\ keys'[w] = Tail(keys[w])
      /\ files'[w] = files[w] /\ handed'[w] = handed[w] /\ Rest(w)
      /\ cache' = cache \ gone /\ lost' = lost \cup ({p.file : p \in gone} \ ToSet(files[w]))
      /\ UNCHANGED <<kind, early, handed, files, told, landed, charts, wrong, fresh, read>>
  BY FilesTypes DEF Delete, Rest
<1>2. keys[w] # <<>> /\ keys[w] \in Seq(CacheKeys) /\ IsInjective(keys[w])
  BY <1>1, FilesTypes DEF FilesInv, HandsFull, HandedAlone
<1>3. Tail(keys[w]) \in Seq(CacheKeys) /\ IsInjective(Tail(keys[w]))
  BY <1>2, HeadIsTaken
<1>4. gone \subseteq cache /\ cache' \subseteq cache
  BY <1>1 DEF Parked
<1> HIDE DEF gone
<1>5. FilesTyped'
  <2>1. CacheTyped'
    BY <1>4, FS_Subset DEF FilesInv, FilesTyped, CacheTyped
  <2>2. WindowsTyped'
    BY <1>1, <1>3 DEF Delete, FilesInv, FilesTyped, WindowsTyped, Doing
  <2>3. {p.file : p \in gone} \subseteq Files
    BY <1>4 DEF FilesInv, FilesTyped, CacheTyped
  <2>4. LibraryTyped'
    BY <1>1, <2>3 DEF FilesInv, FilesTyped, LibraryTyped
  <2> QED BY <2>1, <2>2, <2>4 DEF FilesTyped
<1>6. HandsFull'
  BY <1>1, RestHold DEF HandsFull
<1>7. CacheAlone'
  BY <1>1, <1>4 DEF FilesInv, CacheAlone
<1>8. HandedAlone'
  BY <1>1, <1>3, RestHold DEF FilesInv, HandedAlone
<1>9. StillToMatch'
  <2>1. ASSUME NEW v \in Windows, at'[v] = "mounted", NEW p \in cache'
        PROVE  p.file \notin ToSet(files'[v])
    BY <1>1, <1>4, <2>1 DEF Rest, FilesInv, StillToMatch
  <2>2. ASSUME NEW v \in Windows, NEW i \in DOMAIN keys'[v],
               at'[v] = "matching" \/ (at'[v] = "deleting" /\ i # 1), NEW p \in cache',
               [index |-> p.index, name |-> p.name] = keys'[v][i]
        PROVE  p.file \notin ToSet(files'[v])
    <3>1. CASE v = w
      <4>1. i + 1 # 1 /\ i + 1 \in DOMAIN keys[w] /\ keys'[v][i] = keys[w][i + 1]
        BY <1>1, <1>2, <3>1, TailShifts
      <4>2. p \in Parked(keys[w][i + 1])
        BY <1>4, <2>2, <4>1 DEF Parked
      <4>3. p.file \notin ToSet(files[w])
        BY <1>1, <4>1, <4>2 DEF FilesInv, StillToMatch
      <4> QED BY <1>1, <3>1, <4>3
    <3>2. CASE v # w
      <4>1. keys'[v] = keys[v] /\ at'[v] = at[v] /\ files'[v] = files[v]
        BY <1>1, <3>2 DEF Rest
      <4>2. p \in Parked(keys[v][i])
        BY <1>4, <2>2, <4>1 DEF Parked
      <4> QED BY <2>2, <4>1, <4>2 DEF FilesInv, StillToMatch
    <3> QED BY <3>1, <3>2
  <2> QED BY <2>1, <2>2 DEF StillToMatch, Parked
<1>10. LandsAsRead'
  <2>1. \A f \in Files : (Expects(w, f)' <=> Expects(w, f)) /\ (Landing(w, f)' <=> Landing(w, f))
    BY <1>1 DEF Expects, Landing
  <2> QED BY <1>1, <1>5, <2>1, AccountsStand DEF FilesInv, FilesTyped
<1>11. NoFileVanishes'
  <2> SUFFICES ASSUME NEW f \in Files \ (fresh' \cup lost')
               PROVE  \/ \E p \in cache' : p.file = f
                      \/ \E v \in Windows : f \in HeldBy(v)'
                      \/ \E as \in DOMAIN told' : f \in told'[as]
    BY DEF NoFileVanishes
  <2>1. f \in Files \ (fresh \cup lost)
    BY <1>1
  <2>2. \A v \in Windows : HeldBy(v)' = HeldBy(v)
    BY <1>1 DEF HeldBy
  <2>3. CASE \E p \in gone : p.file = f
    <3>1. f \in ToSet(files[w])
      BY <1>1, <2>3
    <3> QED BY <2>2, <3>1 DEF HeldBy
  <2>4. CASE ~ \E p \in gone : p.file = f
    <3>1. \A p \in cache : p.file = f => p \in cache'
      BY <1>1, <2>4
    <3> QED BY <1>1, <2>1, <2>2, <3>1 DEF FilesInv, NoFileVanishes
  <2> QED BY <2>3, <2>4
<1> QED BY <1>5, <1>6, <1>7, <1>8, <1>9, <1>10, <1>11 DEF FilesInv

\* The page has all that came, and goes on to the import; or it has imported all.
LEMMA CollectedKeeps ==
  ASSUME FilesInv, NEW w \in Windows, Collected(w) \/ Finish(w)
  PROVE  FilesInv'
<1>1. /\ at[w] # "landing"
      /\ at'[w] = "importing" \/ (at'[w] = "rest" /\ files[w] = <<>>)
      /\ Rest(w) /\ at' = [at EXCEPT ![w] = at'[w]] /\ early' \in [Windows -> BOOLEAN]
      /\ UNCHANGED <<kind, cache, handed, keys, files, told, landed, charts, wrong, fresh,
                     read, lost>>
  BY FilesTypes DEF Collected, Finish, Rest, FilesInv, FilesTyped, WindowsTyped
<1>2. FilesTyped'
  <2>1. WindowsTyped'
    BY <1>1 DEF FilesInv, FilesTyped, WindowsTyped, Doing
  <2> QED BY <1>1, <2>1 DEF FilesInv, FilesTyped, CacheTyped, LibraryTyped
<1>3. HandsFull'
  BY <1>1, RestHold DEF HandsFull
<1>4. CacheAlone' /\ HandedAlone'
  BY <1>1 DEF FilesInv, CacheAlone, HandedAlone
<1>5. StillToMatch'
  BY <1>1 DEF Rest, FilesInv, StillToMatch, Parked
<1>6. LandsAsRead'
  <2>1. \A f \in Files : (Expects(w, f)' <=> Expects(w, f)) /\ (Landing(w, f)' <=> Landing(w, f))
    BY <1>1 DEF Expects, Landing
  <2> QED BY <1>1, <1>2, <2>1, AccountsStand DEF FilesInv, FilesTyped
<1>7. NoFileVanishes'
  BY <1>1 DEF FilesInv, NoFileVanishes, HeldBy
<1> QED BY <1>2, <1>3, <1>4, <1>5, <1>6, <1>7 DEF FilesInv

LEMMA ChooseKeeps ==
  ASSUME FilesInv, NEW w \in Windows, NEW list \in TupleOf(Files, 1) \cup TupleOf(Files, 2),
         Choose(w, list)
  PROVE  FilesInv'
<1>1. /\ at[w] = "rest" /\ at'[w] = "importing" /\ files'[w] = list /\ handed'[w] = handed[w]
      /\ ToSet(list) \subseteq fresh /\ fresh' = fresh \ ToSet(list) /\ IsInjective(list)
      /\ read' = [f \in Files |-> IF f \in ToSet(list) THEN read[f] + 1 ELSE read[f]]
      /\ Rest(w) /\ UNCHANGED <<kind, cache, early, handed, keys, told, landed, charts, wrong, lost>>
  BY FilesTypes DEF Choose, Brings, Reads, Rest
<1>2. files[w] = <<>> /\ list \in Seq(Files)
  <2>1. PICK n \in {1, 2} : list \in [1..n -> Files]
    BY DEF TupleOf
  <2>2. n \in Nat
    OBVIOUS
  <2>3. list \in Seq(Files)
    BY <2>1, <2>2
  <2> QED BY <1>1, <2>3 DEF FilesInv, HandsFull
<1>3. FilesTyped'
  <2>1. WindowsTyped'
    BY <1>2 DEF Choose, FilesInv, FilesTyped, WindowsTyped, Doing
  <2>2. LibraryTyped'
    BY <1>1 DEF FilesInv, FilesTyped, LibraryTyped
  <2> QED BY <1>1, <2>1, <2>2 DEF FilesInv, FilesTyped, CacheTyped
<1>4. HandsFull'
  BY <1>1, RestHold DEF HandsFull
<1>5. CacheAlone'
  BY <1>1 DEF FilesInv, CacheAlone
<1>6. HandedAlone'
  <2>1. ASSUME NEW v \in Windows \ {w}
        PROVE  ToSet(handed'[v]) \cap fresh' = {} /\ ToSet(files'[v]) \cap fresh' = {}
    BY <1>1 DEF Rest, FilesInv, HandedAlone
  <2>2. /\ ToSet(handed'[w]) \cap fresh' = {} /\ ToSet(files'[w]) \cap fresh' = {}
        /\ IsInjective(handed'[w]) /\ IsInjective(files'[w]) /\ IsInjective(keys'[w])
    BY <1>1 DEF FilesInv, HandedAlone
  <2> QED BY <1>1, <2>1, <2>2, RestHold DEF HandedAlone
<1>7. StillToMatch'
  BY <1>1 DEF Rest, FilesInv, StillToMatch, Parked
<1>8. LandsAsRead'
  <2> SUFFICES ASSUME NEW f \in Files PROVE Accounts(w, f)
    BY <1>1, <1>3, AccountsKept DEF FilesInv, FilesTyped
  <2>1. /\ ~Expects(w, f) /\ ~Landing(w, f) /\ ~Landing(w, f)'
        /\ Expects(w, f)' <=> f \in ToSet(list)
    BY <1>1, <1>2, NothingListed DEF Expects, Landing
  <2>2. /\ Ones(Expects(w, f)) = 0 /\ Ones(Landing(w, f)) = 0 /\ Ones(Landing(w, f)') = 0
        /\ Ones(Expects(w, f)') = IF f \in ToSet(list) THEN 1 ELSE 0
    BY <2>1 DEF Ones
  <2>3. landed[f] \in Nat /\ charts[f] \in Nat /\ read[f] \in Nat
    BY DEF FilesInv, FilesTyped, LibraryTyped
  <2>4. read'[f] = IF f \in ToSet(list) THEN read[f] + 1 ELSE read[f]
    BY <1>1
  <2> QED BY <1>1, <2>2, <2>3, <2>4 DEF Accounts
<1>9. NoFileVanishes'
  <2> SUFFICES ASSUME NEW f \in Files \ (fresh' \cup lost')
               PROVE  \/ \E p \in cache' : p.file = f
                      \/ \E v \in Windows : f \in HeldBy(v)'
                      \/ \E as \in DOMAIN told' : f \in told'[as]
    BY DEF NoFileVanishes
  <2>1. \A v \in Windows : HeldBy(v) \subseteq HeldBy(v)'
    <3>1. HeldBy(w) \subseteq HeldBy(w)'
      BY <1>1, <1>2, NothingListed DEF HeldBy
    <3> QED BY <1>1, <3>1 DEF HeldBy, Rest
  <2>2. CASE f \in ToSet(list)
    <3>1. f \in HeldBy(w)'
      BY <1>1, <2>2 DEF HeldBy
    <3> QED BY <3>1
  <2>3. CASE f \notin ToSet(list)
    <3>1. f \in Files \ (fresh \cup lost)
      BY <1>1, <2>3
    <3> QED BY <1>1, <2>1, <3>1 DEF FilesInv, NoFileVanishes
  <2> QED BY <2>2, <2>3
<1> QED BY <1>3, <1>4, <1>5, <1>6, <1>7, <1>8, <1>9 DEF FilesInv

\* Who waits and who lands when the first file of a window is dealt with.
LEMMA FirstIsDealtWith ==
  ASSUME FilesInv, NEW w \in Windows, NEW f, files[w] # <<>>,
         files'[w] = Tail(files[w]), at'[w] = "importing", at[w] \in {"importing", "landing"}
  PROVE  /\ Ones(Landing(w, f)') = 0 /\ Ones(Expects(w, f)) \in {0, 1}
         /\ Ones(Expects(w, f)') \in {0, 1} /\ Ones(Landing(w, f)) \in {0, 1}
         /\ Ones(Expects(w, f)') <= Ones(Expects(w, f))
         /\ Ones(Landing(w, f)) = IF at[w] = "landing" /\ Head(files[w]) = f THEN 1 ELSE 0
<1>1. /\ ToSet(files[w]) = {Head(files[w])} \cup ToSet(Tail(files[w]))
      /\ Head(files[w]) \notin ToSet(Tail(files[w]))
  BY FilesTypes, HeadIsTaken DEF FilesInv, HandedAlone
<1>2. ~Landing(w, f)' /\ (Expects(w, f)' => Expects(w, f))
  BY <1>1 DEF Expects, Landing
<1> QED BY <1>2 DEF Ones, Landing

LEMMA ReportKeeps ==
  ASSUME FilesInv, NEW w \in Windows, NEW as \in {"imported", "early", "odd", "sheets"},
         at[w] \in {"importing", "landing"}, at'[w] = "importing", files[w] # <<>>,
         Report(w, as), WindowsTyped', LibraryTyped', Rest(w),
         UNCHANGED <<kind, cache, handed, keys, fresh, lost>>, LandsAsRead'
  PROVE  FilesInv'
<1>1. files'[w] = Tail(files[w]) /\ told' = [told EXCEPT ![as] = @ \cup {Head(files[w])}]
  BY FilesTypes DEF Report
<1>2. /\ ToSet(files[w]) = {Head(files[w])} \cup ToSet(files'[w]) /\ IsInjective(files'[w])
      /\ Head(files[w]) \in Files
  BY <1>1, FilesTypes, HeadIsTaken DEF FilesInv, HandedAlone
<1>3. FilesTyped'
  BY DEF FilesInv, FilesTyped, CacheTyped
<1>4. HandsFull'
  BY RestHold DEF HandsFull
<1>5. CacheAlone'
  BY DEF FilesInv, CacheAlone
<1>6. HandedAlone'
  <2>1. ASSUME NEW v \in Windows \ {w}
        PROVE  ToSet(handed'[v]) \cap fresh' = {} /\ ToSet(files'[v]) \cap fresh' = {}
    BY DEF Rest, FilesInv, HandedAlone
  <2>2. /\ ToSet(handed'[w]) \cap fresh' = {} /\ ToSet(files'[w]) \cap fresh' = {}
        /\ IsInjective(handed'[w]) /\ IsInjective(keys'[w])
    BY <1>2 DEF FilesInv, HandedAlone
  <2> QED BY <1>2, <2>1, <2>2, RestHold DEF HandedAlone
<1>7. StillToMatch'
  BY DEF Rest, FilesInv, StillToMatch, Parked
<1>8. NoFileVanishes'
  <2> SUFFICES ASSUME NEW f \in Files \ (fresh' \cup lost')
               PROVE  \/ \E p \in cache' : p.file = f
                      \/ \E v \in Windows : f \in HeldBy(v)'
                      \/ \E way \in DOMAIN told' : f \in told'[way]
    BY DEF NoFileVanishes
  <2>1. /\ DOMAIN told' = DOMAIN told /\ as \in DOMAIN told
        /\ \A way \in DOMAIN told : told[way] \subseteq told'[way]
        /\ Head(files[w]) \in told'[as]
    BY <1>1 DEF FilesInv, FilesTyped, LibraryTyped, Reports
  <2>2. CASE f = Head(files[w])
    BY <2>1, <2>2
  <2>3. CASE f # Head(files[w])
    <3>1. \A v \in Windows : f \in HeldBy(v) => f \in HeldBy(v)'
      <4>1. f \in HeldBy(w) => f \in HeldBy(w)'
        BY <1>2, <2>3 DEF HeldBy
      <4> QED BY <4>1 DEF HeldBy, Rest
    <3> QED BY <2>1, <3>1 DEF FilesInv, NoFileVanishes
  <2> QED BY <2>2, <2>3
<1> QED BY <1>3, <1>4, <1>5, <1>6, <1>7, <1>8 DEF FilesInv

LEMMA ReportTyped ==
  ASSUME FilesInv, NEW w \in Windows, NEW as \in {"imported", "early", "odd", "sheets"},
         files[w] # <<>>, Report(w, as), at' = at \/ at' = [at EXCEPT ![w] = "importing"],
         UNCHANGED <<early, handed, keys>>
  PROVE  WindowsTyped' /\ told' \in Reports /\ Rest(w) /\ Head(files[w]) \in Files
         /\ told' = [told EXCEPT ![as] = @ \cup {Head(files[w])}] /\ files'[w] = Tail(files[w])
<1>1. /\ Head(files[w]) \in Files /\ Tail(files[w]) \in Seq(Files)
      /\ files' = [files EXCEPT ![w] = Tail(files[w])]
      /\ told' = [told EXCEPT ![as] = @ \cup {Head(files[w])}]
  BY FilesTypes, HeadIsTaken DEF Report
<1>2. WindowsTyped' /\ files'[w] = Tail(files[w])
  BY <1>1 DEF FilesInv, FilesTyped, WindowsTyped, Doing
<1>3. told' \in Reports
  BY <1>1 DEF FilesInv, FilesTyped, LibraryTyped, Reports
<1>4. Rest(w)
  BY <1>1, FilesTypes DEF Rest
<1> QED BY <1>1, <1>2, <1>3, <1>4

LEMMA SetAsideKeeps == ASSUME FilesInv, NEW w \in Windows, SetAside(w) PROVE FilesInv'
<1>1. PICK as \in {"early", "odd", "sheets"} : Report(w, as)
  BY DEF SetAside
<1>2. /\ at[w] = "importing" /\ files[w] # <<>>
      /\ UNCHANGED <<kind, cache, at, early, handed, keys, landed, charts, came, wrong, fresh, read, lost>>
  BY DEF SetAside
<1>3. /\ WindowsTyped' /\ told' \in Reports /\ Rest(w)
      /\ told'.imported = told.imported /\ files'[w] = Tail(files[w])
  <2>1. /\ WindowsTyped' /\ told' \in Reports /\ Rest(w) /\ files'[w] = Tail(files[w])
        /\ told' = [told EXCEPT ![as] = @ \cup {Head(files[w])}]
    BY <1>1, <1>2, ReportTyped
  <2> QED BY <2>1 DEF FilesInv, FilesTyped, LibraryTyped, Reports
<1>4. LibraryTyped'
  BY <1>2, <1>3 DEF FilesInv, FilesTyped, LibraryTyped
<1>5. LandsAsRead'
  <2> SUFFICES ASSUME NEW f \in Files PROVE Accounts(w, f)
    BY <1>3, <1>4, AccountsKept DEF FilesInv, FilesTyped
  <2>1. /\ Ones(Landing(w, f)') = 0 /\ Ones(Landing(w, f)) = 0 /\ Ones(Expects(w, f)) \in {0, 1}
        /\ Ones(Expects(w, f)') \in {0, 1} /\ Ones(Expects(w, f)') <= Ones(Expects(w, f))
    BY <1>2, <1>3, FirstIsDealtWith
  <2>2. landed[f] \in Nat /\ charts[f] \in Nat /\ read[f] \in Nat
    BY DEF FilesInv, FilesTyped, LibraryTyped
  <2> QED BY <1>2, <1>3, <2>1, <2>2 DEF Accounts
<1> QED BY <1>1, <1>2, <1>3, <1>4, <1>5, ReportKeeps

LEMMA LandSongKeeps == ASSUME FilesInv, NEW w \in Windows, LandSong(w) PROVE FilesInv'
<1> DEFINE h == Head(files[w])
<1>1. /\ at[w] = "importing" /\ files[w] # <<>> /\ kind[h] = "song"
      /\ UNCHANGED <<kind, cache, early, handed, keys, charts, came, fresh, read, lost>>
  BY DEF LandSong
<1>2. h \in Files /\ h \in ToSet(files[w])
  BY <1>1, FilesTypes, HeadIsTaken
<1>3. CASE /\ landed' = [landed EXCEPT ![h] = @ + 1] /\ at' = [at EXCEPT ![w] = "landing"]
           /\ UNCHANGED <<told, files, wrong>>
  <2>1. Rest(w) /\ at'[w] = "landing"
    BY <1>1, <1>3, FilesTypes DEF Rest
  <2>2. FilesTyped'
    <3>1. WindowsTyped'
      BY <1>1, <1>3 DEF FilesInv, FilesTyped, WindowsTyped, Doing
    <3>2. LibraryTyped'
      BY <1>1, <1>2, <1>3 DEF FilesInv, FilesTyped, LibraryTyped
    <3> QED BY <1>1, <3>1, <3>2 DEF FilesInv, FilesTyped, CacheTyped
  <2>3. HandsFull'
    BY <1>1, <1>3, <2>1, RestHold DEF HandsFull
  <2>4. CacheAlone' /\ HandedAlone'
    BY <1>1, <1>3 DEF FilesInv, CacheAlone, HandedAlone
  <2>5. StillToMatch'
    BY <1>1, <1>3, <2>1 DEF Rest, FilesInv, StillToMatch, Parked
  <2>6. LandsAsRead'
    <3> SUFFICES ASSUME NEW f \in Files PROVE Accounts(w, f)
      BY <2>1, <2>2, AccountsKept DEF FilesInv, FilesTyped
    <3>1. /\ landed[f] \in Nat /\ charts[f] \in Nat /\ read[f] \in Nat
          /\ landed'[f] = IF f = h THEN landed[f] + 1 ELSE landed[f]
      BY <1>3 DEF FilesInv, FilesTyped, LibraryTyped
    <3>2. /\ ~Landing(w, f)
          /\ Landing(w, f)' <=> f = h
          /\ Expects(w, f) <=> f \in ToSet(files[w])
          /\ Expects(w, f)' <=> f \in ToSet(files[w]) /\ f # h
      BY <1>1, <1>3, <2>1 DEF Expects, Landing
    <3>3. /\ Ones(Landing(w, f)) = 0
          /\ Ones(Landing(w, f)') = IF f = h THEN 1 ELSE 0
          /\ Ones(Expects(w, f)) \in {0, 1}
          /\ f = h => Ones(Expects(w, f)) = 1
          /\ Ones(Expects(w, f)') = IF f = h THEN 0 ELSE Ones(Expects(w, f))
      BY <1>2, <3>2 DEF Ones
    <3> QED BY <1>1, <1>3, <3>1, <3>3 DEF Accounts
  <2>7. NoFileVanishes'
    BY <1>1, <1>3 DEF FilesInv, NoFileVanishes, HeldBy
  <2> QED BY <2>2, <2>3, <2>4, <2>5, <2>6, <2>7 DEF FilesInv
<1>4. CASE Fails /\ Report(w, "imported") /\ UNCHANGED <<at, landed>>
  <2>1. WindowsTyped' /\ told' \in Reports /\ Rest(w) /\ files'[w] = Tail(files[w])
    BY <1>1, <1>4, ReportTyped
  <2>2. LibraryTyped' /\ wrong' # 0
    BY <1>1, <1>4, <2>1 DEF Fails, FilesInv, FilesTyped, LibraryTyped
  <2>3. LandsAsRead'
    <3> SUFFICES ASSUME NEW f \in Files PROVE Accounts(w, f)
      BY <2>1, <2>2, AccountsKept DEF FilesInv, FilesTyped
    <3>1. /\ Ones(Landing(w, f)') = 0 /\ Ones(Landing(w, f)) = 0 /\ Ones(Expects(w, f)) \in {0, 1}
          /\ Ones(Expects(w, f)') \in {0, 1} /\ Ones(Expects(w, f)') <= Ones(Expects(w, f))
      BY <1>1, <1>4, <2>1, FirstIsDealtWith
    <3>2. landed[f] \in Nat /\ charts[f] \in Nat /\ read[f] \in Nat
      BY DEF FilesInv, FilesTyped, LibraryTyped
    <3> QED BY <1>1, <1>4, <2>2, <3>1, <3>2 DEF Accounts
  <2> QED BY <1>1, <1>4, <2>1, <2>2, <2>3, ReportKeeps
<1> QED BY <1>3, <1>4 DEF LandSong

LEMMA LandChartKeeps == ASSUME FilesInv, NEW w \in Windows, LandChart(w) PROVE FilesInv'
<1> DEFINE h == Head(files[w])
<1>1. /\ at[w] = "landing" /\ at' = [at EXCEPT ![w] = "importing"] /\ Report(w, "imported")
      /\ UNCHANGED <<kind, cache, early, handed, keys, landed, came, fresh, read, lost>>
  BY DEF LandChart
<1>2. files[w] # <<>> /\ at'[w] = "importing"
  BY <1>1, FilesTypes DEF FilesInv, HandsFull
<1>3. /\ WindowsTyped' /\ told' \in Reports /\ Rest(w) /\ files'[w] = Tail(files[w]) /\ h \in Files
      /\ \A f \in told'.imported : f \in told.imported \/ f = h
  <2>1. /\ WindowsTyped' /\ told' \in Reports /\ Rest(w) /\ files'[w] = Tail(files[w])
        /\ h \in Files /\ told' = [told EXCEPT !["imported"] = @ \cup {h}]
    BY <1>1, <1>2, ReportTyped
  <2> QED BY <2>1 DEF FilesInv, FilesTyped, LibraryTyped, Reports
<1>4. \/ charts' = [charts EXCEPT ![h] = @ + 1] /\ UNCHANGED wrong
      \/ wrong' = wrong + 1 /\ UNCHANGED charts
  BY DEF LandChart, Fails
<1>5. LibraryTyped'
  BY <1>1, <1>3, <1>4 DEF FilesInv, FilesTyped, LibraryTyped
<1>6. LandsAsRead'
  <2> SUFFICES ASSUME NEW f \in Files PROVE Accounts(w, f)
    BY <1>3, <1>5, AccountsKept DEF FilesInv, FilesTyped
  <2>1. /\ Ones(Landing(w, f)') = 0 /\ Ones(Landing(w, f)) = IF f = h THEN 1 ELSE 0
        /\ Ones(Expects(w, f)) \in {0, 1}
        /\ Ones(Expects(w, f)') \in {0, 1} /\ Ones(Expects(w, f)') <= Ones(Expects(w, f))
    BY <1>1, <1>2, <1>3, FirstIsDealtWith
  <2>2. /\ landed[f] \in Nat /\ charts[f] \in Nat /\ read[f] \in Nat /\ wrong \in Nat
        /\ \/ charts'[f] = (IF f = h THEN charts[f] + 1 ELSE charts[f]) /\ wrong' = wrong
           \/ wrong' = wrong + 1 /\ charts'[f] = charts[f]
    BY <1>4 DEF FilesInv, FilesTyped, LibraryTyped
  <2> QED BY <1>1, <1>3, <2>1, <2>2 DEF Accounts
<1> QED BY <1>1, <1>2, <1>3, <1>5, <1>6, ReportKeeps

LEMMA CloseKeeps == ASSUME FilesInv, NEW w \in Windows, Close(w) PROVE FilesInv'
<1>1. /\ at'[w] = "closed" /\ handed'[w] = <<>> /\ keys'[w] = <<>> /\ files'[w] = <<>>
      /\ lost' = lost \cup HeldBy(w) /\ wrong' = wrong + 1 /\ Rest(w)
      /\ UNCHANGED <<kind, cache, told, landed, charts, came, fresh, read>>
  BY FilesTypes DEF Close, Fails, Rest
<1>2. FilesTyped'
  <2>1. WindowsTyped'
    BY DEF Close, FilesInv, FilesTyped, WindowsTyped, Doing
  <2>2. HeldBy(w) \subseteq Files
    BY FilesTypes DEF HeldBy, ToSet
  <2>3. LibraryTyped'
    BY <1>1, <2>2 DEF FilesInv, FilesTyped, LibraryTyped
  <2> QED BY <1>1, <2>1, <2>3 DEF FilesInv, FilesTyped, CacheTyped
<1>3. HandsFull'
  BY <1>1, RestHold DEF HandsFull
<1>4. \A v \in Windows : /\ ToSet(handed'[v]) \subseteq ToSet(handed[v])
                         /\ ToSet(files'[v]) \subseteq ToSet(files[v])
  BY <1>1, NothingListed DEF Rest
<1>5. CacheAlone'
  BY <1>1, <1>4 DEF FilesInv, CacheAlone
<1>6. HandedAlone'
  BY <1>1, <1>4, RestHold, NothingListed DEF FilesInv, HandedAlone
<1>7. StillToMatch'
  BY <1>1 DEF Rest, FilesInv, StillToMatch, Parked
<1>8. LandsAsRead'
  <2> SUFFICES ASSUME NEW f \in Files PROVE Accounts(w, f)
    BY <1>1, <1>2, AccountsKept DEF FilesInv, FilesTyped
  <2>1. ~Expects(w, f)' /\ ~Landing(w, f)'
    BY <1>1, NothingListed DEF Expects, Landing
  <2>2. /\ Ones(Expects(w, f)') = 0 /\ Ones(Landing(w, f)') = 0
        /\ Ones(Expects(w, f)) \in {0, 1} /\ Ones(Landing(w, f)) \in {0, 1}
    BY <2>1 DEF Ones
  <2>3. landed[f] \in Nat /\ charts[f] \in Nat /\ read[f] \in Nat /\ wrong' # 0
    BY <1>1 DEF FilesInv, FilesTyped, LibraryTyped
  <2> QED BY <1>1, <2>2, <2>3 DEF Accounts
<1>9. NoFileVanishes'
  <2> SUFFICES ASSUME NEW f \in Files \ (fresh' \cup lost')
               PROVE  \/ \E p \in cache' : p.file = f
                      \/ \E v \in Windows : f \in HeldBy(v)'
                      \/ \E as \in DOMAIN told' : f \in told'[as]
    BY DEF NoFileVanishes
  <2>1. f \in Files \ (fresh \cup lost) /\ f \notin HeldBy(w)
    BY <1>1
  <2>2. \A v \in Windows \ {w} : HeldBy(v)' = HeldBy(v)
    BY <1>1 DEF HeldBy, Rest
  <2> QED BY <1>1, <2>1, <2>2 DEF FilesInv, NoFileVanishes
<1> QED BY <1>2, <1>3, <1>5, <1>6, <1>7, <1>8, <1>9 DEF FilesInv

LEMMA FilesInit == ArrivalsInit => FilesInv
<1> SUFFICES ASSUME ArrivalsInit PROVE FilesInv
  OBVIOUS
<1>1. FilesTyped
  <2>1. CacheTyped
    BY FS_EmptySet DEF ArrivalsInit, CacheTyped
  <2>2. WindowsTyped
    BY DEF ArrivalsInit, WindowsTyped, Doing
  <2>3. LibraryTyped
    BY DEF ArrivalsInit, LibraryTyped, Reports
  <2> QED BY <2>1, <2>2, <2>3 DEF FilesTyped
<1>2. HandsFull /\ CacheAlone /\ HandedAlone
  BY NothingListed DEF ArrivalsInit, HandsFull, CacheAlone, HandedAlone
<1>3. StillToMatch
  BY DEF ArrivalsInit, StillToMatch
<1>4. LandsAsRead
  <2> SUFFICES ASSUME NEW f \in Files
               PROVE  /\ landed[f] + Cardinality(Waits(f)) <= read[f]
                      /\ charts[f] + Cardinality(Lands(f)) <= landed[f]
                      /\ wrong = 0 => charts[f] + Cardinality(Lands(f)) = landed[f]
                      /\ landed[f] > 0 => kind[f] = "song"
                      /\ wrong = 0 /\ f \in told.imported => charts[f] > 0
    BY DEF LandsAsRead
  <2>1. Waits(f) = {} /\ Lands(f) = {}
    BY NothingListed DEF ArrivalsInit, Waits, Lands, Expects, Landing
  <2> QED BY <2>1, FS_EmptySet DEF ArrivalsInit
<1>5. NoFileVanishes
  BY DEF ArrivalsInit, NoFileVanishes
<1> QED BY <1>1, <1>2, <1>3, <1>4, <1>5 DEF FilesInv

LEMMA FilesNext == FilesInv /\ [ArrivalsNext]_arrivalVars => FilesInv'
<1> SUFFICES ASSUME FilesInv, [ArrivalsNext]_arrivalVars PROVE FilesInv'
  OBVIOUS
<1>1. CASE UNCHANGED arrivalVars
  <2>1. UNCHANGED <<kind, cache, at, early, handed, keys, files, told, landed, charts,
                    wrong, fresh, read, lost>>
    BY <1>1 DEF arrivalVars
  <2>2. FilesTyped' /\ HandsFull' /\ CacheAlone' /\ HandedAlone'
    BY <2>1 DEF FilesInv, FilesTyped, CacheTyped, WindowsTyped, LibraryTyped, HandsFull,
                CacheAlone, HandedAlone
  <2>3. StillToMatch'
    BY <2>1 DEF FilesInv, StillToMatch, Parked
  <2>4. LandsAsRead'
    BY <2>1 DEF FilesInv, LandsAsRead, Waits, Lands, Expects, Landing
  <2>5. NoFileVanishes'
    BY <2>1 DEF FilesInv, NoFileVanishes, HeldBy
  <2> QED BY <2>2, <2>3, <2>4, <2>5 DEF FilesInv
<1>2. CASE ArrivalsNext
  <2>1. PICK w \in Windows :
          \/ \E f \in Files : Launch(w, f)
          \/ \E list \in TupleOf(Files, 1) \cup TupleOf(Files, 2) : Share(w, list) \/ Choose(w, list)
          \/ Open(w) \/ Mount(w) \/ ReadKeys(w) \/ Match(w) \/ Delete(w) \/ Collected(w)
          \/ SetAside(w) \/ LandSong(w) \/ LandChart(w) \/ Finish(w) \/ Close(w)
    BY <1>2 DEF ArrivalsNext
  <2>2. CASE \E f \in Files : Launch(w, f)
    BY <2>2, LaunchKeeps
  <2>3. CASE \E list \in TupleOf(Files, 1) \cup TupleOf(Files, 2) : Share(w, list) \/ Choose(w, list)
    BY <2>3, ShareKeeps, ChooseKeeps
  <2>4. CASE Open(w) \/ Mount(w) \/ ReadKeys(w) \/ Match(w) \/ Delete(w)
    BY <2>4, OpenKeeps, MountKeeps, ReadKeysKeeps, MatchKeeps, DeleteKeeps
  <2>5. CASE Collected(w) \/ Finish(w) \/ SetAside(w) \/ LandSong(w) \/ LandChart(w) \/ Close(w)
    BY <2>5, CollectedKeeps, SetAsideKeeps, LandSongKeeps, LandChartKeeps, CloseKeeps
  <2> QED BY <2>1, <2>2, <2>3, <2>4, <2>5
<1> QED BY <1>1, <1>2

(***************************************************************************)
(* "A file that fails is reported by name and reason while every other file*)
(* still lands" (import.rs:3): what came is parked, in a window or         *)
(* reported, what is reported as imported is in the library, and no file   *)
(* lands oftener than it was read, for any windows and files, any names of *)
(* theirs, and however many come (pwa/share.rs, library/import.rs).        *)
(***************************************************************************)
THEOREM EveryFileLands == ArrivalsSpec => []FilesLand
<1>1. FilesInv => FilesLand
  <2> SUFFICES ASSUME FilesInv PROVE WhatIsToldIsTrue
    BY DEF FilesInv, FilesLand
  <2>1. /\ landed \in [Files -> Nat] /\ charts \in [Files -> Nat] /\ read \in [Files -> Nat]
        /\ told.imported \subseteq Files
    BY DEF FilesInv, FilesTyped, LibraryTyped, Reports
  <2>2. ASSUME NEW f \in Files
        PROVE  /\ Cardinality(Waits(f)) \in Nat /\ Cardinality(Lands(f)) \in Nat
               /\ (\A w \in Windows : at[w] # "landing") => Cardinality(Lands(f)) = 0
    <3>1. Waits(f) \subseteq Windows /\ Lands(f) \subseteq Windows
      BY DEF Waits, Lands
    <3>2. IsFiniteSet(Waits(f)) /\ IsFiniteSet(Lands(f))
      BY <3>1, ArrivalsAssumption, FS_Subset
    <3>3. (\A w \in Windows : at[w] # "landing") => Lands(f) = {}
      BY DEF Lands, Landing
    <3> QED BY <3>2, <3>3, FS_CardinalityType, FS_EmptySet
  <2>3. ASSUME NEW f \in Files
        PROVE  /\ charts[f] <= landed[f] /\ landed[f] <= read[f]
               /\ landed[f] > 0 => kind[f] = "song"
               /\ wrong = 0 /\ f \in told.imported => charts[f] > 0
               /\ wrong = 0 /\ (\A w \in Windows : at[w] # "landing") => charts[f] = landed[f]
    <3>1. /\ landed[f] + Cardinality(Waits(f)) <= read[f]
          /\ charts[f] + Cardinality(Lands(f)) <= landed[f]
          /\ wrong = 0 => charts[f] + Cardinality(Lands(f)) = landed[f]
          /\ landed[f] > 0 => kind[f] = "song"
          /\ wrong = 0 /\ f \in told.imported => charts[f] > 0
      BY DEF FilesInv, LandsAsRead
    <3>2. landed[f] \in Nat /\ charts[f] \in Nat /\ read[f] \in Nat
      BY <2>1
    <3> QED BY <2>2, <3>1, <3>2
  <2>4. ASSUME wrong = 0, \A w \in Windows : at[w] # "landing" PROVE charts = landed
    BY <2>1, <2>3, <2>4
  <2> QED BY <2>1, <2>3, <2>4 DEF WhatIsToldIsTrue
<1> QED BY <1>1, FilesInit, FilesNext, PTL DEF ArrivalsSpec

-----------------------------------------------------------------------------
(* What is drawn over a capo: it sounds as the band does, and is spelled   *)

\* How far above its tonic a degree of a key is, and notes altered by any amount.
Steps(key, degree) == IF key.minor THEN R!MinorSteps[degree + 1] ELSE R!MajorSteps[degree + 1]
Wide == [letter : R!Letters, alter : Int]

LEMMA NaturalsAre == \A l \in R!Letters : R!Natural(l) \in 0..11
BY DEF R!Letters, R!Natural

LEMMA PitchClasses == \A note \in Wide : R!PitchClass(note) \in 0..11
<1> TAKE note \in Wide
<1>1. R!Natural(note.letter) \in 0..11 /\ note.alter \in Int
  BY NaturalsAre DEF Wide
<1> HIDE DEF R!Natural
<1> QED BY <1>1 DEF R!PitchClass

LEMMA StepsAre ==
  ASSUME NEW key \in R!Keys
  PROVE  /\ \A d \in 0..6 : Steps(key, d) \in 0..11
         /\ \A d, e \in 0..6 : Steps(key, d) = Steps(key, e) => d = e
BY DEF Steps, R!MinorSteps, R!MajorSteps, R!Keys

\* A pitch that was moved, and moved back.
LEMMA Moved ==
  ASSUME NEW x \in 0..11, NEW y \in 0..11, NEW s \in Int
  PROVE  /\ (x + s) % 12 = (y + s) % 12 => x = y
         /\ (x + s) % 12 \in 0..11
         /\ (((x + s) % 12) - s) % 12 = x
OBVIOUS

LEMMA Normalised ==
  ASSUME NEW x \in 0..11, NEW y \in 0..11
  PROVE  /\ R!NormaliseAlter(x - y) \in -6..5
         /\ (y + R!NormaliseAlter(x - y)) % 12 = x
BY DEF R!NormaliseAlter

\* The note of a key's scale at a degree.
Degree(key, d) ==
  LET letter == (key.tonic.letter + d) % 7
      wanted == (R!PitchClass(key.tonic) + Steps(key, d)) % 12
  IN [letter |-> letter, alter |-> R!NormaliseAlter(wanted - R!Natural(letter))]

LEMMA KeysAre ==
  ASSUME NEW key \in R!Keys
  PROVE  /\ key.tonic \in R!Notes /\ key.tonic \in Wide /\ key.minor \in BOOLEAN
         /\ key.tonic.letter \in 0..6 /\ R!PitchClass(key.tonic) \in 0..11
<1>1. key.tonic \in R!Notes /\ key.minor \in BOOLEAN
  BY DEF R!Keys
<1>2. key.tonic \in Wide /\ key.tonic.letter \in 0..6
  BY <1>1 DEF R!Notes, R!Alters, R!Letters, Wide
<1> QED BY <1>1, <1>2, PitchClasses

LEMMA DegreesAre ==
  ASSUME NEW key \in R!Keys, NEW d \in 0..6
  PROVE  /\ Degree(key, d) \in [letter : R!Letters, alter : -6..5]
         /\ Degree(key, d) \in Wide
         /\ R!PitchClass(Degree(key, d)) = (R!PitchClass(key.tonic) + Steps(key, d)) % 12
<1> DEFINE l == (key.tonic.letter + d) % 7
           p == R!PitchClass(key.tonic)
           x == (p + Steps(key, d)) % 12
           alter == R!NormaliseAlter(x - R!Natural(l))
<1>1. key.tonic.letter \in 0..6 /\ p \in 0..11 /\ Steps(key, d) \in 0..11
  BY KeysAre, StepsAre
<1>2. l \in R!Letters
  BY <1>1 DEF R!Letters
<1>3. R!Natural(l) \in 0..11
  BY <1>2, NaturalsAre
<1>4. x \in 0..11
  <2> HIDE DEF p
  <2> QED BY <1>1
<1>5. Degree(key, d) = [letter |-> l, alter |-> alter]
  BY DEF Degree
<1> HIDE DEF l, x
<1>6. alter \in -6..5 /\ (R!Natural(l) + alter) % 12 = x
  BY <1>3, <1>4, Normalised
<1>7. R!PitchClass(Degree(key, d)) = x
  BY <1>5, <1>6 DEF R!PitchClass
<1>8. Degree(key, d) \in [letter : R!Letters, alter : -6..5] /\ Degree(key, d) \in Wide
  BY <1>2, <1>5, <1>6 DEF Wide
<1> QED BY <1>7, <1>8 DEF x, p

LEMMA ScalesAre ==
  ASSUME NEW key \in R!Keys
  PROVE  R!Scale[key] = {Degree(key, d) : d \in 0..6}
<1>1. R!Scale[key] = R!ScaleOf(key)
  BY DEF R!Scale
<1> QED BY <1>1 DEF R!ScaleOf, Degree, Steps

\* The notes of a scale are seven pitches.
LEMMA ScalePitches ==
  ASSUME NEW key \in R!Keys, NEW m \in R!Scale[key], NEW n \in R!Scale[key]
  PROVE  /\ m \in Wide /\ R!PitchClass(m) \in 0..11
         /\ R!PitchClass(m) = R!PitchClass(n) => m = n
<1>1. PICK d \in 0..6 : m = Degree(key, d)
  BY ScalesAre
<1>2. PICK e \in 0..6 : n = Degree(key, e)
  BY ScalesAre
<1>3. m \in Wide /\ R!PitchClass(m) \in 0..11
  BY <1>1, DegreesAre, PitchClasses
<1>4. ASSUME R!PitchClass(m) = R!PitchClass(n) PROVE m = n
  <2> DEFINE p == R!PitchClass(key.tonic)
             x == Steps(key, d)
             y == Steps(key, e)
  <2>1. (p + x) % 12 = (p + y) % 12
    BY <1>1, <1>2, <1>4, DegreesAre
  <2>2. p \in 0..11 /\ x \in 0..11 /\ y \in 0..11 /\ (x = y => d = e)
    BY KeysAre, StepsAre
  <2> HIDE DEF p, x, y
  <2>3. x = y
    BY <2>1, <2>2
  <2> QED BY <1>1, <1>2, <2>2, <2>3
<1> QED BY <1>3, <1>4

Sides == {-1, 1}

\* A pitch has a plain name on either side.
LEMMA Names ==
  ASSUME NEW pitch \in 0..11, NEW side \in Sides
  PROVE  /\ R!Name(pitch, side) \in R!Notes
         /\ R!PitchClass(R!Name(pitch, side)) = pitch
         /\ R!Name(pitch, side).alter \in {0, side}
<1> DEFINE natural == \E l \in R!Letters : R!Natural(l) = pitch
           P(note) == /\ R!PitchClass(note) = pitch
                      /\ note.alter = IF natural THEN 0 ELSE side
<1>1. \E note \in R!Notes : P(note)
  <2>1. CASE natural
    <3>1. PICK l \in R!Letters : R!Natural(l) = pitch
      BY <2>1
    <3>2. [letter |-> l, alter |-> 0] \in R!Notes
      BY DEF R!Notes, R!Alters
    <3>3. R!PitchClass([letter |-> l, alter |-> 0]) = pitch
      BY <3>1 DEF R!PitchClass
    <3> QED BY <2>1, <3>2, <3>3
  <2>2. CASE ~natural
    <3>1. \E l \in R!Letters : R!Natural(l) = pitch - side
      <4>1. pitch \notin {0, 2, 4, 5, 7, 9, 11}
        BY <2>2 DEF R!Letters, R!Natural
      <4>2. pitch - side \in {0, 2, 4, 5, 7, 9, 11}
        BY <4>1 DEF Sides
      <4> QED BY <4>2 DEF R!Letters, R!Natural
    <3>2. PICK l \in R!Letters : R!Natural(l) = pitch - side
      BY <3>1
    <3>3. [letter |-> l, alter |-> side] \in R!Notes
      BY DEF R!Notes, R!Alters, Sides
    <3>4. R!PitchClass([letter |-> l, alter |-> side]) = pitch
      BY <3>2 DEF R!PitchClass, Sides
    <3> QED BY <2>2, <3>3, <3>4
  <2> QED BY <2>1, <2>2
<1>2. R!Name(pitch, side) = CHOOSE note \in R!Notes : P(note)
  BY DEF R!Name
<1>3. R!Name(pitch, side) \in R!Notes /\ P(R!Name(pitch, side))
  BY <1>1, <1>2
<1> QED BY <1>3

\* What Spelling says of a pitch in a key (rules 8, 14 of the domain model).
Spelled(key, pitch, s) ==
  /\ s.note \in Wide /\ R!PitchClass(s.note) = pitch
  /\ \A n \in R!Scale[key] : R!PitchClass(n) = pitch => s.note = n
  /\ s.note \notin R!Scale[key] =>
       /\ R!Size(s.note.alter) <= 1
       /\ ~s.respelled => \E n \in R!Scale[key] :
            n.letter = s.note.letter /\ (R!IsSharp(key) <=> n.alter < s.note.alter)

LEMMA SpellingIs ==
  ASSUME NEW key \in R!Keys, NEW pitch \in 0..11
  PROVE  Spelled(key, pitch, R!Spelling[key][pitch])
<1> DEFINE own == {note \in R!Scale[key] : R!PitchClass(note) = pitch}
           side == IF R!IsSharp(key) THEN 1 ELSE -1
           neighbour == {note \in R!Scale[key] : R!PitchClass(note) = (pitch - side) % 12}
           moved == {note \in {[n EXCEPT !.alter = @ + side] : n \in neighbour} :
                       R!Size(note.alter) <= 1}
           s == R!Spelling[key][pitch]
<1> SUFFICES Spelled(key, pitch, s)
  OBVIOUS
<1>1. s = R!SpellIn(key, pitch)
  BY DEF R!Spelling
<1>2. side \in Sides
  BY DEF Sides
<1>3. CASE own # {}
  <2>1. s = [note |-> CHOOSE n \in own : TRUE, respelled |-> FALSE]
    BY <1>1, <1>3 DEF R!SpellIn
  <2>2. s.note \in own
    BY <1>3, <2>1
  <2>3. s.note \in R!Scale[key] /\ R!PitchClass(s.note) = pitch
    BY <2>2
  <2> HIDE DEF s
  <2> QED BY <2>3, ScalePitches DEF Spelled
<1>4. CASE own = {} /\ moved # {}
  <2>1. s = [note |-> CHOOSE n \in moved : TRUE, respelled |-> FALSE]
    BY <1>1, <1>4 DEF R!SpellIn
  <2>2. s.note \in moved /\ s.respelled = FALSE
    <3> HIDE DEF moved
    <3>1. (CHOOSE n \in moved : TRUE) \in moved
      BY <1>4
    <3> QED BY <2>1, <3>1
  <2>3. PICK n \in neighbour : s.note = [n EXCEPT !.alter = @ + side]
    BY <2>2
  <2>4. n \in R!Scale[key] /\ n \in Wide /\ R!PitchClass(n) = (pitch - side) % 12
    BY <2>3, ScalePitches
  <2>5. R!Size(s.note.alter) <= 1
    BY <2>2
  <2> HIDE DEF s, side
  <2>6. s.note = [letter |-> n.letter, alter |-> n.alter + side] /\ s.note \in Wide
    BY <1>2, <2>3, <2>4 DEF Wide, Sides
  <2>7. R!PitchClass(s.note) = pitch
    <3> DEFINE q == R!Natural(n.letter)
    <3>1. q \in Int /\ n.alter \in Int
      BY <2>4, NaturalsAre DEF Wide
    <3>2. R!PitchClass(s.note) = (q + (n.alter + side)) % 12
      BY <2>6 DEF R!PitchClass
    <3>3. (q + n.alter) % 12 = (pitch - side) % 12
      BY <2>4 DEF R!PitchClass
    <3> HIDE DEF q
    <3> QED BY <1>2, <3>1, <3>2, <3>3 DEF Sides
  <2>8. n.letter = s.note.letter /\ (R!IsSharp(key) <=> n.alter < s.note.alter)
    BY <2>4, <2>6 DEF side, Wide
  <2>9. \A m \in R!Scale[key] : R!PitchClass(m) # pitch
    BY <1>4
  <2> QED BY <2>2, <2>4, <2>5, <2>6, <2>7, <2>8, <2>9 DEF Spelled
<1>5. CASE own = {} /\ moved = {}
  <2>1. s = [note |-> R!Name(pitch, side), respelled |-> TRUE]
    BY <1>1, <1>5 DEF R!SpellIn
  <2>2. s.note = R!Name(pitch, side) /\ s.respelled = TRUE
    BY <2>1
  <2>3. \A m \in R!Scale[key] : R!PitchClass(m) # pitch
    BY <1>5
  <2> HIDE DEF s, side
  <2>4. s.note \in R!Notes /\ R!PitchClass(s.note) = pitch /\ s.note.alter \in {0, side}
    BY <1>2, <2>2, Names
  <2>5. s.note \in Wide
    BY <2>4 DEF R!Notes, R!Alters, Wide
  <2>6. R!Size(s.note.alter) <= 1
    BY <1>2, <2>4 DEF R!Size, Sides
  <2> QED BY <2>2, <2>3, <2>4, <2>5, <2>6 DEF Spelled
<1> QED BY <1>3, <1>4, <1>5

\* A transposed key stands at the transposed pitch, by either of its names.
LEMMA TransposedIs ==
  ASSUME NEW key \in R!Keys, NEW n \in Int
  PROVE  /\ R!Transposed(key, n) \in R!Keys
         /\ R!PitchClass(R!Transposed(key, n).tonic) = (R!PitchClass(key.tonic) + n) % 12
<1> DEFINE pitch == (R!PitchClass(key.tonic) + n) % 12
           sharp == [tonic |-> R!Name(pitch, 1), minor |-> key.minor]
           flat == [tonic |-> R!Name(pitch, -1), minor |-> key.minor]
<1>1. pitch \in 0..11
  <2> DEFINE p == R!PitchClass(key.tonic)
  <2>1. p \in 0..11
    BY KeysAre
  <2> HIDE DEF p
  <2> QED BY <2>1 DEF p
<1>2. key.minor \in BOOLEAN
  BY KeysAre
<1> HIDE DEF pitch
<1>3. R!Transposed(key, n) \in {sharp, flat}
  <2>1. R!Transposed(key, n) = R!KeyAt[key.minor][pitch]
    BY DEF R!Transposed, pitch
  <2> QED BY <1>1, <1>2, <2>1 DEF R!KeyAt
<1>4. /\ sharp \in R!Keys /\ R!PitchClass(sharp.tonic) = pitch
      /\ flat \in R!Keys /\ R!PitchClass(flat.tonic) = pitch
  BY <1>1, <1>2, Names DEF R!Keys, Sides
<1> QED BY <1>3, <1>4 DEF pitch

\* What one of the four places may say, and what a chart may be read in.
Sayable == R!Keys \cup {R!NoKey}
ReadingInv ==
  /\ override \in Sayable /\ preferred \in Sayable /\ default \in Sayable /\ original \in Sayable
  /\ frets \in [R!Places -> -1..11]

\* Of the places that say a key, the first that does.
LEMMA FirstHeld ==
  ASSUME NEW n \in 1..4, NEW levels \in [1..n -> Sayable]
  PROVE  R!Effective(levels) \in Sayable
<1> DEFINE held == {i \in DOMAIN levels : levels[i] # R!NoKey}
           First(i) == \A j \in held : i <= j
<1>1. CASE held = {}
  BY <1>1 DEF R!Effective, Sayable
<1>2. CASE held # {}
  <2>1. \E i \in held : First(i)
    <3>1. held \subseteq {1, 2, 3, 4}
      OBVIOUS
    <3> HIDE DEF held
    <3>2. ASSUME 1 \notin held, 2 \notin held, 3 \notin held PROVE 4 \in held
      BY <1>2, <3>1, <3>2
    <3>3. /\ 1 \in held => First(1)
          /\ 1 \notin held /\ 2 \in held => First(2)
          /\ 1 \notin held /\ 2 \notin held /\ 3 \in held => First(3)
          /\ 1 \notin held /\ 2 \notin held /\ 3 \notin held => First(4)
      BY <3>1
    <3> HIDE DEF First
    <3> QED BY <3>2, <3>3
  <2>2. R!Effective(levels) = levels[CHOOSE i \in held : First(i)]
    BY <1>2 DEF R!Effective
  <2>3. (CHOOSE i \in held : First(i)) \in held
    <3> HIDE DEF held, First
    <3> QED BY <2>1
  <2>4. (CHOOSE i \in held : First(i)) \in 1..n
    <3> HIDE DEF First
    <3> QED BY <2>3
  <2> QED BY <2>2, <2>4
<1> QED BY <1>1, <1>2

LEMMA WhatIsSaid ==
  ASSUME ReadingInv
  PROVE  /\ R!Effective(R!Levels) \in Sayable /\ R!SourceKey(R!Levels) \in Sayable
         /\ R!Written \in R!Keys /\ R!Target \in R!Keys
         /\ R!Capo \in 0..11
<1>1. R!Levels \in [1..4 -> Sayable] /\ <<R!Levels[3], R!Levels[4]>> \in [1..2 -> Sayable]
  BY DEF R!Levels, ReadingInv
<1>2. R!Effective(R!Levels) \in Sayable /\ R!SourceKey(R!Levels) \in Sayable
  BY <1>1, FirstHeld DEF R!SourceKey
<1>3. R!InC \in R!Keys
  BY DEF R!InC, R!Keys, R!Notes, R!Letters, R!Alters
<1>4. R!Written \in R!Keys
  BY <1>2, <1>3 DEF R!Written, R!Or, Sayable
<1>5. R!Target \in R!Keys
  BY <1>2, <1>4 DEF R!Target, R!Or, Sayable
<1>6. R!Capo \in 0..11
  BY DEF R!Capo, R!Places, R!None, ReadingInv
<1> QED BY <1>2, <1>4, <1>5, <1>6

\* The key whose shapes are drawn, and how far the chart is moved to it.
Shape == R!ShapeKeyOf(R!Target, R!Capo)
Up == (R!PitchClass(Shape.tonic) - R!PitchClass(R!Written.tonic)) % 12

\* The shapes are the capo's frets below the key that sounds.
LEMMA ShapeIs ==
  ASSUME ReadingInv
  PROVE  /\ Shape \in R!Keys /\ Up \in 0..11
         /\ R!PitchClass(Shape.tonic) = (R!PitchClass(R!Target.tonic) - R!Capo) % 12
<1> DEFINE t == R!PitchClass(R!Target.tonic)
           c == R!Capo
           w == R!PitchClass(R!Written.tonic)
           x == R!PitchClass(Shape.tonic)
<1>1. t \in 0..11 /\ c \in 0..11 /\ w \in 0..11 /\ R!Target \in R!Keys
  BY WhatIsSaid, KeysAre
<1>2. Shape \in R!Keys /\ x = (t - c) % 12
  <2>1. CASE c = 0
    <3>1. Shape = R!Target
      BY <2>1 DEF Shape, R!ShapeKeyOf
    <3> HIDE DEF t, c
    <3>2. t = (t - c) % 12
      BY <1>1, <2>1
    <3> QED BY <1>1, <3>1, <3>2 DEF t
  <2>2. CASE c # 0
    <3>1. Shape = R!Transposed(R!Target, -c)
      BY <2>2 DEF Shape, R!ShapeKeyOf
    <3>2. -c \in Int
      <4> HIDE DEF c
      <4> QED BY <1>1
    <3>3. Shape \in R!Keys /\ x = (t + (-c)) % 12
      BY <1>1, <3>1, <3>2, TransposedIs
    <3> HIDE DEF t, c, x
    <3> QED BY <1>1, <3>3
  <2> QED BY <2>1, <2>2
<1>3. x \in 0..11
  BY <1>2, KeysAre
<1>4. Up = (x - w) % 12
  BY DEF Up
<1> HIDE DEF t, c, x, w
<1>5. Up \in 0..11
  BY <1>1, <1>3, <1>4
<1> QED BY <1>2, <1>5 DEF t, c, x

\* Each note is drawn as the key of the shapes spells it.
Sounds(note) == (R!PitchClass(note) + Up) % 12

LEMMA Drawn ==
  ASSUME ReadingInv, NEW note \in R!Notes
  PROVE  /\ R!Render({note}, R!Levels, R!Capo) = {R!Spelling[Shape][Sounds(note)]}
         /\ R!PitchClass(note) \in 0..11 /\ Sounds(note) \in 0..11
         /\ Spelled(Shape, Sounds(note), R!Spelling[Shape][Sounds(note)])
<1>1. R!Render({note}, R!Levels, R!Capo) = {R!Spelling[Shape][Sounds(note)]}
  BY DEF R!Render, R!TransposedChord, R!Written, R!Target, Shape, Up, Sounds
<1>2. R!PitchClass(note) \in 0..11
  BY PitchClasses DEF R!Notes, R!Alters, Wide
<1>3. Up \in 0..11 /\ Shape \in R!Keys
  BY ShapeIs
<1>4. Sounds(note) \in 0..11
  <2> DEFINE p == R!PitchClass(note)
  <2>1. Sounds(note) = (p + Up) % 12 /\ p \in 0..11
    BY <1>2 DEF Sounds
  <2> HIDE DEF p
  <2> QED BY <1>3, <2>1
<1> QED BY <1>1, <1>2, <1>3, <1>4, SpellingIs

LEMMA SoundRight == ASSUME ReadingInv PROVE R!ChordsSoundRight
<1> SUFFICES ASSUME NEW note \in R!Notes
    PROVE  LET drawn == CHOOSE s \in R!Render({note}, R!Levels, R!Capo) : TRUE
           IN (R!PitchClass(drawn.note) + R!Capo - R!PitchClass(note)) % 12
                = (R!PitchClass(R!Target.tonic) - R!PitchClass(R!Written.tonic)) % 12
  BY DEF R!ChordsSoundRight
<1> DEFINE drawn == CHOOSE s \in R!Render({note}, R!Levels, R!Capo) : TRUE
           d == R!PitchClass(drawn.note)
           n == R!PitchClass(note)
           t == R!PitchClass(R!Target.tonic)
           w == R!PitchClass(R!Written.tonic)
           x == R!PitchClass(Shape.tonic)
           c == R!Capo
<1>1. drawn = R!Spelling[Shape][Sounds(note)]
  BY Drawn
<1>2. d = (n + Up) % 12 /\ n \in 0..11
  BY <1>1, Drawn DEF Spelled, Sounds
<1>3. Up = (x - w) % 12 /\ x = (t - c) % 12
  BY ShapeIs DEF Up
<1>4. t \in 0..11 /\ w \in 0..11 /\ c \in 0..11
  BY WhatIsSaid, KeysAre
<1>5. (d + c - n) % 12 = (t - w) % 12
  <2> HIDE DEF d, n, t, w, x, c
  <2> QED BY <1>2, <1>3, <1>4
<1> QED BY <1>5

LEMMA Interval == ASSUME NEW n \in Nat PROVE IsFiniteSet(0..n) /\ Cardinality(0..n) = n + 1
BY FS_Interval

LEMMA AreSpelled == ASSUME ReadingInv PROVE R!ChordsAreSpelled
<1> DEFINE drawn == UNION {R!Render({note}, R!Levels, R!Capo) : note \in R!Notes}
           f == R!Spelling[Shape]
           pitches == 0..11
<1>1. Shape \in R!Keys /\ Up \in 0..11
  BY ShapeIs
<1>2. \A p \in pitches : Spelled(Shape, p, f[p])
  BY <1>1, SpellingIs
<1>3. ASSUME NEW s \in drawn PROVE \E p \in pitches : s = f[p]
  <2>1. PICK note \in R!Notes : s \in R!Render({note}, R!Levels, R!Capo)
    OBVIOUS
  <2>2. s = f[Sounds(note)] /\ Sounds(note) \in pitches
    BY <2>1, Drawn
  <2> QED BY <2>2
<1>4. ASSUME NEW p \in pitches PROVE f[p] \in drawn
  <2> DEFINE q == (p - Up) % 12
             note == R!Name(q, 1)
  <2>1. q \in 0..11 /\ (q + Up) % 12 = p
    BY <1>1
  <2> HIDE DEF q
  <2>2. note \in R!Notes /\ R!PitchClass(note) = q
    BY <2>1, Names DEF Sides
  <2>3. Sounds(note) = p
    BY <2>1, <2>2 DEF Sounds
  <2>4. R!Render({note}, R!Levels, R!Capo) = {f[p]}
    BY <2>2, <2>3, Drawn
  <2> QED BY <2>2, <2>4
<1>5. \A p, q \in pitches : f[p] = f[q] => p = q
  BY <1>2 DEF Spelled
<1>6. f \in [pitches -> drawn]
  <2>1. f = [p \in pitches |-> R!SpellIn(Shape, p)]
    BY <1>1 DEF R!Spelling
  <2> HIDE DEF f, pitches, drawn
  <2> QED BY <1>4, <2>1
<1>7. IsFiniteSet(pitches) /\ Cardinality(pitches) = 12
  <2>1. 11 \in Nat /\ 11 + 1 = 12
    OBVIOUS
  <2> QED BY <2>1, Interval
<1>8. \A n \in R!Scale[Shape] : R!PitchClass(n) \in pitches
  BY <1>1, ScalePitches
<1> HIDE DEF drawn, f, pitches
<1>9. f \in Bijection(pitches, drawn)
  BY <1>3, <1>5, <1>6 DEF Bijection, Injection, Surjection, IsInjective
<1>10. Cardinality(drawn) = 12
  BY <1>7, <1>9, FS_Bijection DEF ExistsBijection
<1>11. R!Scale[Shape] \subseteq {s.note : s \in drawn}
  <2> SUFFICES ASSUME NEW n \in R!Scale[Shape] PROVE \E s \in drawn : s.note = n
    OBVIOUS
  <2> QED BY <1>2, <1>6, <1>8 DEF Spelled
<1>12. \A s \in {q \in drawn : q.note \notin R!Scale[Shape]} :
         /\ R!Size(s.note.alter) <= 1
         /\ ~s.respelled => \E n \in R!Scale[Shape] :
              n.letter = s.note.letter /\ (R!IsSharp(Shape) <=> n.alter < s.note.alter)
  BY <1>2, <1>3 DEF Spelled
<1>13. R!Cardinality(drawn) = 12
  BY <1>10 DEF R!Cardinality, Cardinality
<1> QED BY <1>11, <1>12, <1>13 DEF R!ChordsAreSpelled, Shape, drawn

LEMMA MovedKeys ==
  ASSUME NEW key \in R!Keys
  PROVE  R!Choices(key) \subseteq R!Keys
BY TransposedIs DEF R!Choices

(***************************************************************************)
(* Business rules 8, 10, 11 and 14, for keys of any name, any note and any *)
(* capo: whatever the item, the reader, the arrangement and the song say,  *)
(* what is drawn, played over the capo, is what was written moved to the   *)
(* key on the header, and it is spelled as the key of its shapes spells it *)
(* (core/src/chart/render.rs, chord.rs).                                   *)
(***************************************************************************)
THEOREM ChordsStayTrue ==
  ASSUME R!ReadingsAssumption
  PROVE  R!Spec => [](R!ChordsSoundRight /\ R!ChordsAreSpelled)
<1>1. R!Init => ReadingInv
  BY DEF R!Init, R!ReadingsAssumption, R!None, ReadingInv, Sayable
<1>2. ReadingInv /\ [R!Next]_R!vars => ReadingInv'
  <2>1. SUFFICES ASSUME ReadingInv, [R!Next]_R!vars PROVE ReadingInv'
    OBVIOUS
  <2>2. R!InC \in R!Keys /\ R!SourceKey(R!Levels) \in Sayable
    BY <2>1, WhatIsSaid DEF R!InC, R!Keys, R!Notes, R!Letters, R!Alters
  <2>3. R!Twelve \subseteq R!Keys
    BY <2>2, MovedKeys DEF R!Twelve
  <2>4. CASE UNCHANGED R!vars
    BY <2>1, <2>4 DEF R!vars, ReadingInv
  <2>5. CASE R!SetOverride \/ R!NoKeyYet
    BY <2>1, <2>3, <2>5 DEF R!SetOverride, R!NoKeyYet, ReadingInv, Sayable
  <2>6. CASE R!PickKey
    <3>1. R!SourceKey(R!Levels) \in R!Keys
      BY <2>2, <2>6 DEF R!PickKey, Sayable
    <3>2. R!Choices(R!SourceKey(R!Levels)) \subseteq R!Keys
      BY <3>1, MovedKeys
    <3> QED BY <2>1, <2>6, <3>2 DEF R!PickKey, ReadingInv, Sayable
  <2>7. CASE R!WrittenIn
    <3>1. \A n \in {1, 4} : R!Transposed(R!InC, n) \in R!Keys
      BY <2>2, TransposedIs
    <3> QED BY <2>1, <2>7, <3>1 DEF R!WrittenIn, ReadingInv, Sayable
  <2>8. CASE R!SetCapo
    BY <2>1, <2>8 DEF R!SetCapo, R!None, R!ReadingsAssumption, ReadingInv
  <2> QED BY <2>1, <2>4, <2>5, <2>6, <2>7, <2>8 DEF R!Next
<1>3. ReadingInv => R!ChordsSoundRight /\ R!ChordsAreSpelled
  BY SoundRight, AreSpelled
<1> QED BY <1>1, <1>2, <1>3, PTL DEF R!Spec
-----------------------------------------------------------------------------
(* The running order: a rank in every gap                                  *)

\* What bounds a gap: a rank, or nothing.
AnyRank == {r \in Seq(Digits) : IsRank(r)}
End == AnyRank \cup {<<>>}

\* A rank that stands in the gap.
Between(low, r, high) ==
  /\ IsRank(r)
  /\ low # <<>> => Less(low, r)
  /\ high # <<>> => Less(r, high)

LEMMA LeastOf ==
  ASSUME NEW S, S \subseteq Nat, S # {}
  PROVE  \E i \in S : \A j \in S : i <= j
<1>1. \E i \in S : \A j \in S : ~ (<<j, i>> \in OpToRel(<, Nat))
  BY WFMin, NatLessThanWellFounded
<1>2. PICK i \in S : \A j \in S : ~ (<<j, i>> \in OpToRel(<, Nat))
  BY <1>1
<1>3. ASSUME NEW j \in S PROVE i <= j
  <2>1. i \in Nat /\ j \in Nat /\ ~ (j < i)
    BY <1>2 DEF OpToRel
  <2> QED BY <2>1
<1> QED BY <1>3

LEMMA Ends ==
  ASSUME NEW r \in End
  PROVE  /\ r \in Seq(Digits) /\ Len(r) \in Nat
         /\ \A i \in 1..Len(r) : r[i] \in 0..(Base - 1)
         /\ \A i \in Nat \ {0} : From(r, i) \in 0..(Base - 1)
         /\ r = <<>> <=> Len(r) = 0
         /\ r # <<>> => r[Len(r)] # 0
<1>1. r \in Seq(Digits) /\ (r # <<>> => r[Len(r)] # 0)
  <2>1. CASE r = <<>>
    BY <2>1
  <2>2. CASE r \in AnyRank
    BY <2>2 DEF AnyRank, IsRank
  <2> QED BY <2>1, <2>2 DEF End
<1>2. /\ Len(r) \in Nat
      /\ \A i \in 1..Len(r) : r[i] \in 0..(Base - 1)
      /\ r = <<>> <=> Len(r) = 0
  <2>1. Len(r) \in Nat /\ (r = <<>> <=> Len(r) = 0)
    BY <1>1
  <2>2. \A i \in 1..Len(r) : r[i] \in Digits
    BY <1>1
  <2> QED BY <2>1, <2>2 DEF Digits
<1>3. ASSUME NEW i \in Nat \ {0} PROVE From(r, i) \in 0..(Base - 1)
  BY <1>2, BaseAssumption DEF From
<1> QED BY <1>1, <1>2, <1>3

\* Digit for digit as low, then a digit between the two.
LEMMA InTheGap ==
  ASSUME NEW low \in End, NEW high \in End, ~OutOfOrder(low, high),
         NEW n \in Nat \ {0}, Fits(low, high, n), NEW r,
         r = [i \in 1..n |-> IF i < n THEN From(low, i)
                             ELSE (From(low, n) + To(low, high, n)) \div 2]
  PROVE  Between(low, r, high)
<1> DEFINE f == From(low, n)
           t == To(low, high, n)
<1>1. f \in 0..(Base - 1) /\ Base \in Nat /\ Base >= 2
  BY Ends, BaseAssumption
<1>2. t \in 0..Base /\ (Bounded(low, high, n) => n <= Len(high) /\ t = high[n])
  <2>1. CASE Bounded(low, high, n)
    <3>1. n \in 1..Len(high) /\ t = high[n]
      BY <2>1, Ends DEF Fits, RunsOut, To
    <3> QED BY <3>1, <1>1, Ends
  <2>2. CASE ~Bounded(low, high, n)
    BY <2>2, <1>1 DEF To
  <2> QED BY <2>1, <2>2
<1>3. f + 1 < t
  BY DEF Fits
<1> HIDE DEF f, t
<1>4. (f + t) \div 2 \in (f + 1)..(t - 1) /\ (f + t) \div 2 \in 1..(Base - 1)
  BY <1>1, <1>2, <1>3
<1>5. /\ DOMAIN r = 1..n /\ \A i \in 1..(n - 1) : r[i] = From(low, i)
      /\ r[n] = (f + t) \div 2
  BY DEF f, t
<1>6. r \in Seq(Digits) /\ Len(r) = n /\ r # <<>> /\ r[Len(r)] # 0
  <2>1. ASSUME NEW i \in 1..n PROVE r[i] \in Digits
    <3>1. CASE i = n
      BY <3>1, <1>4, <1>5 DEF Digits
    <3>2. CASE i # n
      <4>1. r[i] = From(low, i) /\ i \in Nat \ {0}
        BY <3>2, <1>5
      <4> QED BY <4>1, Ends DEF Digits
    <3> QED BY <3>1, <3>2
  <2>2. r \in [1..n -> Digits]
    BY <2>1
  <2>3. r \in Seq(Digits) /\ Len(r) = n
    BY <2>2
  <2> QED BY <2>3, <1>4, <1>5
<1>7. Less(low, r)
  <2>1. CASE n <= Len(low)
    <3>1. /\ n - 1 \in 0..Len(low) /\ n - 1 < Len(r)
          /\ \A i \in 1..(n - 1) : low[i] = r[i]
          /\ low[n] < r[n]
      <4>1. f = low[n] /\ \A i \in 1..(n - 1) : From(low, i) = low[i]
        BY <2>1, Ends DEF From, f
      <4>2. n - 1 \in 0..Len(low) /\ n - 1 < Len(r)
        BY <2>1, <1>6, Ends
      <4>3. low[n] < r[n]
        BY <1>1, <1>4, <1>5, <4>1
      <4> QED BY <1>5, <4>1, <4>2, <4>3
    <3>2. (n - 1) + 1 = n
      OBVIOUS
    <3> QED BY <3>1, <3>2 DEF Less
  <2>2. CASE n > Len(low)
    <3>1. /\ Len(low) \in 0..Len(low) /\ Len(low) < Len(r)
          /\ \A i \in 1..Len(low) : low[i] = r[i]
      BY <2>2, <1>5, <1>6, Ends DEF From
    <3> QED BY <3>1 DEF Less
  <2> QED BY <2>1, <2>2, Ends
<1>8. ASSUME high # <<>> PROVE Less(r, high)
  <2>1. CASE Bounded(low, high, n)
    <3>1. /\ n - 1 \in 0..Len(r) /\ n - 1 < Len(high)
          /\ \A i \in 1..(n - 1) : r[i] = high[i]
          /\ r[n] < high[n]
      <4>1. \A i \in 1..(n - 1) : From(low, i) = high[i]
        BY <2>1, <1>2, Ends DEF Bounded
      <4>2. n - 1 \in 0..Len(r) /\ n - 1 < Len(high)
        BY <2>1, <1>2, <1>6, Ends
      <4>3. r[n] < high[n]
        BY <2>1, <1>1, <1>2, <1>4, <1>5
      <4> QED BY <1>5, <4>1, <4>2, <4>3
    <3>2. (n - 1) + 1 = n
      OBVIOUS
    <3> QED BY <3>1, <3>2 DEF Less
  <2>2. CASE ~Bounded(low, high, n)
    <3> DEFINE Apart == {j \in 1..(n - 1) : j <= Len(high) /\ From(low, j) # high[j]}
    <3>1. Apart # {} /\ Apart \subseteq Nat
      BY <1>8, <2>2 DEF Bounded
    <3>2. PICK j \in Apart : \A i \in Apart : j <= i
      BY <3>1, LeastOf
    <3>3. /\ j \in 1..(n - 1) /\ j <= Len(high) /\ From(low, j) # high[j]
          /\ \A i \in 1..(j - 1) : From(low, i) = high[i]
      <4>1. j \in 1..(n - 1) /\ j <= Len(high) /\ From(low, j) # high[j]
        BY <3>2
      <4>2. ASSUME NEW i \in 1..(j - 1) PROVE From(low, i) = high[i]
        <5>1. i \in 1..(n - 1) /\ i <= Len(high) /\ ~(j <= i)
          BY <4>1, Ends
        <5> QED BY <5>1, <3>2
      <4> QED BY <4>1, <4>2
    <3>4. From(low, j) < high[j]
      <4>1. From(low, j) \in Int /\ high[j] \in Int /\ high[j] >= 0
        BY <3>3, <1>1, Ends
      <4>2. CASE low = <<>>
        <5>1. From(low, j) = 0
          BY <3>3, <4>2 DEF From
        <5> QED BY <3>3, <4>1, <5>1
      <4>3. CASE low # <<>>
        <5>1. Less(low, high)
          BY <1>8, <4>3 DEF OutOfOrder
        <5>2. PICK k \in 0..Len(low) :
                /\ k < Len(high)
                /\ \A i \in 1..k : low[i] = high[i]
                /\ k = Len(low) \/ low[k + 1] < high[k + 1]
          BY <5>1 DEF Less
        <5>3. \A i \in 1..k : From(low, i) = high[i]
          BY <5>2, Ends DEF From
        <5>4. j > k
          BY <3>3, <5>3, Ends
        <5>5. CASE k = Len(low)
          <6>1. From(low, j) = 0
            BY <3>3, <5>4, <5>5, Ends DEF From
          <6> QED BY <3>3, <4>1, <6>1
        <5>6. CASE k # Len(low)
          <6>1. low[k + 1] < high[k + 1] /\ k + 1 \in 1..Len(low)
            BY <5>2, <5>6, Ends
          <6>2. From(low, k + 1) = low[k + 1] /\ low[k + 1] \in Int /\ high[k + 1] \in Int
            BY <5>2, <6>1, Ends DEF From
          <6>3. j = k + 1
            <7>1. CASE j > k + 1
              <8>1. k + 1 \in 1..(j - 1)
                BY <7>1, <5>2, <3>3, Ends
              <8> QED BY <8>1, <3>3, <6>1, <6>2
            <7> QED BY <7>1, <5>4, <5>2, <3>3, Ends
          <6> QED BY <6>1, <6>2, <6>3
        <5> QED BY <5>5, <5>6
      <4> QED BY <4>2, <4>3
    <3>5. /\ j - 1 \in 0..Len(r) /\ j - 1 < Len(high)
          /\ \A i \in 1..(j - 1) : r[i] = high[i]
          /\ r[j] < high[j]
      <4>1. j - 1 \in 0..Len(r) /\ j - 1 < Len(high)
        BY <3>3, <1>6, Ends
      <4>2. r[j] = From(low, j) /\ \A i \in 1..(j - 1) : r[i] = From(low, i)
        BY <3>3, <1>5
      <4> QED BY <3>3, <3>4, <4>1, <4>2
    <3>6. (j - 1) + 1 = j
      BY <3>3
    <3> QED BY <3>5, <3>6 DEF Less
  <2> QED BY <2>1, <2>2
<1> QED BY <1>6, <1>7, <1>8 DEF Between, IsRank

\* No gap closes before its upper bound has run out, and a rank in order never does.
LEMMA NeverRunsOut ==
  ASSUME NEW low \in End, NEW high \in End, ~OutOfOrder(low, high), NEW i \in Nat \ {0}
  PROVE  ~RunsOut(low, high, i)
<1> SUFFICES ASSUME RunsOut(low, high, i) PROVE FALSE
  OBVIOUS
<1> DEFINE m == Len(high)
<1>1. /\ high # <<>> /\ m \in Nat \ {0} /\ i > m
      /\ \A j \in 1..m : From(low, j) = high[j]
  BY Ends DEF RunsOut, Bounded
<1>2. From(low, m) # 0
  <2>1. high[m] # 0
    BY <1>1, Ends
  <2> QED BY <1>1, <2>1
<1>3. m <= Len(low)
  BY <1>1, <1>2 DEF From
<1>4. low # <<>> /\ Less(low, high)
  BY <1>1, <1>3, Ends DEF OutOfOrder
<1>5. PICK k \in 0..Len(low) :
        /\ k < m
        /\ k = Len(low) \/ low[k + 1] < high[k + 1]
  BY <1>4 DEF Less
<1>6. k + 1 \in 1..m /\ k + 1 <= Len(low) /\ low[k + 1] < high[k + 1]
  BY <1>1, <1>3, <1>5, Ends
<1>7. From(low, k + 1) = low[k + 1] /\ low[k + 1] \in Int
  BY <1>6, Ends DEF From
<1> QED BY <1>1, <1>6, <1>7

LEMMA FitIsFound ==
  ASSUME NEW low \in End, NEW high \in End, ~OutOfOrder(low, high)
  PROVE  FirstFit(low, high) \in Nat \ {0} /\ Fits(low, high, FirstFit(low, high))
<1> DEFINE last == Len(low) + Len(high) + 1
           Fit == {i \in Indices(low, high) : Fits(low, high, i)}
           Is(i) == Fits(low, high, i) /\ \A j \in 1..(i - 1) : ~Fits(low, high, j)
<1>1. last \in Nat \ {0} /\ last > Len(low) /\ last > Len(high) /\ Indices(low, high) = 1..last
  BY Ends DEF Indices
<1>2. ~RunsOut(low, high, last) /\ ~Bounded(low, high, last)
  BY <1>1, NeverRunsOut DEF RunsOut
<1>3. Fits(low, high, last)
  <2>1. From(low, last) = 0 /\ To(low, high, last) = Base
    BY <1>1, <1>2 DEF From, To
  <2> QED BY <1>2, <2>1, BaseAssumption DEF Fits
<1>4. Fit # {} /\ Fit \subseteq Nat
  BY <1>1, <1>3
<1>5. PICK i \in Fit : \A j \in Fit : i <= j
  BY <1>4, LeastOf
<1>6. i \in Indices(low, high) /\ Is(i)
  <2>1. i \in Indices(low, high) /\ Fits(low, high, i) /\ i \in 1..last
    BY <1>1, <1>5
  <2>2. ASSUME NEW j \in 1..(i - 1), Fits(low, high, j) PROVE FALSE
    <3>1. j \in Fit /\ ~(i <= j)
      BY <1>1, <2>1, <2>2
    <3> QED BY <3>1, <1>5
  <2> QED BY <2>1, <2>2
<1>7. FirstFit(low, high) = CHOOSE n \in Indices(low, high) : Is(n)
  BY DEF FirstFit
<1> HIDE DEF Is
<1>8. FirstFit(low, high) \in Indices(low, high) /\ Is(FirstFit(low, high))
  BY <1>6, <1>7
<1> QED BY <1>1, <1>8 DEF Is

(***************************************************************************)
(* "There is always room to insert" (rank.rs:8), for ranks of any length   *)
(* over any digits: between two neighbours in order, in front of the first *)
(* and behind the last `rank_between` answers a rank, and it lies between  *)
(* them.                                                                   *)
(***************************************************************************)
THEOREM AlwaysRoom ==
  \A low, high \in End : ~OutOfOrder(low, high) =>
    /\ RankBetween(low, high).result = "ok"
    /\ Between(low, RankBetween(low, high).rank, high)
<1> SUFFICES ASSUME NEW low \in End, NEW high \in End, ~OutOfOrder(low, high)
    PROVE  /\ RankBetween(low, high).result = "ok"
           /\ Between(low, RankBetween(low, high).rank, high)
  OBVIOUS
<1>1. ~NoRoom(low, high)
  <2>1. \A i \in 1..(Len(low) + Len(high) + 1) : i \in Nat \ {0}
    OBVIOUS
  <2> QED BY <2>1, NeverRunsOut DEF NoRoom
<1>2. RankBetween(low, high) = [result |-> "ok", rank |-> Midpoint(low, high)]
  BY <1>1 DEF RankBetween
<1>3. Between(low, Midpoint(low, high), high)
  BY FitIsFound, InTheGap DEF Midpoint
<1> QED BY <1>2, <1>3

\* A running order in which each item stands before those after it.
Sorted(ranks) == \A i, j \in DOMAIN ranks : i < j => Less(ranks[i], ranks[j])
Without(ranks, from) ==
  [i \in 1..(Len(ranks) - 1) |-> ranks[IF i < from THEN i ELSE i + 1]]

(***************************************************************************)
(* So an item can be moved anywhere in a running order: the rank it gets   *)
(* lies between the two that are its neighbours once it is out             *)
(* (`rank_for_move`, rank.rs:89).                                          *)
(***************************************************************************)
THEOREM MovesHaveRoom ==
  \A ranks \in Seq(AnyRank) : \A from, to \in 1..Len(ranks) : Sorted(ranks) =>
    LET without == Without(ranks, from)
        found == RankForMove(ranks, from, to)
    IN found.result = "ok" /\ Between(At(without, to - 1), found.rank, At(without, to))
<1> SUFFICES ASSUME NEW ranks \in Seq(AnyRank), NEW from \in 1..Len(ranks),
                    NEW to \in 1..Len(ranks), Sorted(ranks)
    PROVE  LET without == Without(ranks, from)
               found == RankForMove(ranks, from, to)
           IN found.result = "ok" /\ Between(At(without, to - 1), found.rank, At(without, to))
  OBVIOUS
<1> DEFINE without == Without(ranks, from)
           low == At(without, to - 1)
           high == At(without, to)
           n == Len(ranks) - 1
<1>1. Len(ranks) \in Nat /\ n \in Nat /\ DOMAIN ranks = 1..Len(ranks)
  OBVIOUS
<1>2. /\ without \in Seq(AnyRank) /\ Len(without) = n
      /\ \A i \in 1..n : without[i] = ranks[IF i < from THEN i ELSE i + 1]
  <2>1. without \in [1..n -> AnyRank]
    <3>1. \A i \in 1..n : (IF i < from THEN i ELSE i + 1) \in DOMAIN ranks
      BY <1>1
    <3>2. \A i \in DOMAIN ranks : ranks[i] \in AnyRank
      OBVIOUS
    <3> QED BY <3>1, <3>2 DEF Without
  <2> QED BY <1>1, <2>1 DEF Without
<1>3. low \in End /\ high \in End
  BY <1>2 DEF At, End
<1>4. ~OutOfOrder(low, high)
  <2>1. CASE to - 1 \in 1..n /\ to \in 1..n
    <3> DEFINE a == IF to - 1 < from THEN to - 1 ELSE to
               b == IF to < from THEN to ELSE to + 1
    <3>1. low = ranks[a] /\ high = ranks[b]
      BY <1>1, <1>2, <2>1 DEF At
    <3>2. a \in DOMAIN ranks /\ b \in DOMAIN ranks /\ a < b
      BY <1>1, <2>1
    <3>3. Less(low, high)
      BY <3>1, <3>2 DEF Sorted
    <3> QED BY <3>3 DEF OutOfOrder
  <2>2. CASE to - 1 \notin 1..n \/ to \notin 1..n
    BY <1>2, <2>2 DEF At, OutOfOrder
  <2> QED BY <2>1, <2>2
<1>5. RankForMove(ranks, from, to) = RankBetween(low, high)
  BY DEF RankForMove, Without
<1> QED BY <1>3, <1>4, <1>5, AlwaysRoom
-----------------------------------------------------------------------------
(* Which sheet is shown                                                    *)

\* Both modules read the same module, Charts.
LEMMA SameKeys == K!Keys = R!Keys /\ K!NoKey = R!NoKey /\ K!InC = R!InC
BY DEF K!Keys, K!NoKey, K!InC, K!Notes, K!Letters, K!Alters,
       R!Keys, R!NoKey, R!InC, R!Notes, R!Letters, R!Alters

LEMMA SamePitches == \A note : K!PitchClass(note) = R!PitchClass(note)
BY DEF K!PitchClass, K!Natural, R!PitchClass, R!Natural

LEMMA SameKeyAt == \A key, n : K!Transposed(key, n) = R!Transposed(key, n)
BY Zenon DEF K!Transposed, K!PitchClass, K!Natural, K!KeyAt, K!Name, K!Notes, K!Letters, K!Alters,
     K!SignatureSize, K!Sum6, K!Size, K!Scale, K!ScaleOf, K!Keys, K!MajorSteps, K!MinorSteps, K!NormaliseAlter,
     R!Transposed, R!PitchClass, R!Natural, R!KeyAt, R!Name, R!Notes, R!Letters, R!Alters,
     R!SignatureSize, R!Sum6, R!Size, R!Scale, R!ScaleOf, R!Keys, R!MajorSteps, R!MinorSteps, R!NormaliseAlter

LEMMA SameEffective == \A levels : K!Effective(levels) = R!Effective(levels)
BY Zenon DEF K!Effective, K!NoKey, R!Effective, R!NoKey

\* Two pitches m fifths apart.
LEMMA Fifths ==
  ASSUME NEW x \in 0..11, NEW y \in 0..11, NEW m \in -6..6, (x + 7 * m) % 12 = y
  PROVE  ((x - y) * 7) % 12 = IF m <= 0 THEN -m ELSE 12 - m
<1>1. m \in {-6, -5, -4, -3, -2, -1, 0, 1, 2, 3, 4, 5, 6}
  OBVIOUS
<1>2. CASE m \in {-6, -5, -4, -3}
  BY <1>2
<1>3. CASE m \in {-2, -1, 0}
  BY <1>3
<1>4. CASE m \in {1, 2, 3}
  BY <1>4
<1>5. CASE m \in {4, 5, 6}
  BY <1>5
<1> QED BY <1>1, <1>2, <1>3, <1>4, <1>5

\* The distance on the circle of fifths is how many fifths the two are apart.
LEMMA FifthsAre ==
  ASSUME NEW a \in R!Keys, NEW b \in R!Keys
  PROVE  K!FifthsDistance(b, a) = K!FifthsApart(a, b) /\ K!FifthsApart(a, b) \in 0..6
<1> DEFINE x == K!PitchClass(a.tonic)
           y == K!PitchClass(b.tonic)
           steps == ((x - y) * 7) % 12
           d == IF steps < 12 - steps THEN steps ELSE 12 - steps
           Apart(n) == \E m \in {n, -n} : (x + 7 * m) % 12 = y
<1>1. x \in 0..11 /\ y \in 0..11
  BY KeysAre, SamePitches
<1>2. K!FifthsDistance(b, a) = d /\ K!FifthsApart(a, b) = CHOOSE n \in 0..6 : Apart(n)
  BY DEF K!FifthsDistance, K!FifthsApart
<1> HIDE DEF x, y
<1>3. steps \in 0..11 /\ d \in 0..6 /\ (d = steps \/ d = 12 - steps)
  BY <1>1
<1>4. (x - 7 * steps) % 12 = y /\ (x + 7 * (12 - steps)) % 12 = y
  BY <1>1
<1>5. Apart(d)
  <2> HIDE DEF steps, d
  <2>1. CASE d = steps
    <3>1. x + 7 * (-d) = x - 7 * steps
      BY <1>1, <1>3, <2>1
    <3>2. (x + 7 * (-d)) % 12 = y
      BY <1>4, <3>1
    <3> QED BY <3>2
  <2>2. CASE d = 12 - steps
    <3>1. (x + 7 * d) % 12 = y
      BY <1>4, <2>2
    <3> QED BY <3>1
  <2> QED BY <1>3, <2>1, <2>2
<1>6. ASSUME NEW n \in 0..6, Apart(n) PROVE n = d
  <2>1. PICK m \in {n, -n} : (x + 7 * m) % 12 = y
    BY <1>6
  <2>2. m \in -6..6 /\ (m = n \/ m = -n)
    OBVIOUS
  <2>3. steps = IF m <= 0 THEN -m ELSE 12 - m
    BY <1>1, <2>1, <2>2, Fifths
  <2> HIDE DEF steps
  <2> QED BY <1>3, <2>2, <2>3
<1> HIDE DEF d, Apart
<1> QED BY <1>2, <1>3, <1>5, <1>6

-----------------------------------------------------------------------------

Sheet == [song : Songs, key : Sayable, part : Parts, position : {n \in Int : n >= LeastPosition},
          there : BOOLEAN, state : {"live", "deleted"}]
KeepingInv ==
  /\ filed \in [SheetIds -> Sheet]
  /\ keyOf \in [Songs -> Sayable]
  /\ mine \in [pinned : SUBSET Songs, key : [Songs -> Sayable], part : Parts \cup {K!AnyPart}]

LEMMA KeepingInit == ASSUME K!KeepingAssumption PROVE K!Init => KeepingInv
<1> SUFFICES ASSUME K!Init PROVE KeepingInv
  OBVIOUS
<1>1. K!NoKey \in Sayable
  BY SameKeys DEF Sayable
<1>2. filed \in [SheetIds -> Sheet]
  BY SameKeys DEF K!Init, K!KeepingAssumption, Sheet, Sayable
<1>3. keyOf \in [Songs -> Sayable]
  BY <1>1 DEF K!Init
<1>4. mine \in [pinned : SUBSET Songs, key : [Songs -> Sayable], part : Parts \cup {K!AnyPart}]
  BY <1>1 DEF K!Init
<1> QED BY <1>2, <1>3, <1>4 DEF KeepingInv

LEMMA KeepingNext ==
  ASSUME KeepingInv, [K!Next]_K!vars
  PROVE  KeepingInv'
<1>1. K!InC \in R!Keys
  BY SameKeys DEF R!InC, R!Keys, R!Notes, R!Letters, R!Alters
<1>2. \A n \in Int : K!Transposed(K!InC, n) \in Sayable
  BY <1>1, TransposedIs, SameKeyAt DEF Sayable
<1>3. CASE UNCHANGED K!rows
  BY <1>3 DEF K!rows, KeepingInv
<1>4. CASE K!RowsChange
  <2>1. CASE K!DayPasses \/ K!PinSet
    BY <2>1 DEF K!DayPasses, K!PinSet, KeepingInv
  <2>2. CASE K!OverrideKey
    <3>1. PICK song \in Songs, n \in {0, 7} : keyOf' = [keyOf EXCEPT ![song] = K!Transposed(K!InC, n)]
      BY <2>2 DEF K!OverrideKey
    <3>2. keyOf' \in [Songs -> Sayable]
      BY <1>2, <3>1 DEF KeepingInv
    <3> QED BY <2>2, <3>2 DEF K!OverrideKey, KeepingInv
  <2>3. CASE K!ChangeMine
    <3>1. CASE \E song \in Songs : mine' = [mine EXCEPT !.pinned = (@ \ {song}) \cup ({song} \ @)]
      BY <2>3, <3>1 DEF K!ChangeMine, KeepingInv
    <3>2. CASE \E song \in Songs : mine' = [mine EXCEPT !.key[song] = K!Transposed(K!InC, 2)]
      BY <1>2, <2>3, <3>2 DEF K!ChangeMine, KeepingInv
    <3>3. CASE \E part \in Parts : mine' = [mine EXCEPT !.part = part]
      BY <2>3, <3>3 DEF K!ChangeMine, KeepingInv
    <3> QED BY <2>3, <3>1, <3>2, <3>3 DEF K!ChangeMine
  <2>4. CASE K!SheetChanges
    <3>1. PICK s \in SheetIds : \/ filed' = [filed EXCEPT ![s].there = TRUE]
                               \/ filed' = [filed EXCEPT ![s].state = "deleted"]
      BY <2>4 DEF K!SheetChanges
    <3>2. filed \in [SheetIds -> Sheet]
      BY DEF KeepingInv
    <3>3. filed[s] \in Sheet
      BY <3>2
    <3>4. [filed[s] EXCEPT !.there = TRUE] \in Sheet
      BY <3>3 DEF Sheet
    <3>5. [filed[s] EXCEPT !.state = "deleted"] \in Sheet
      BY <3>3 DEF Sheet
    <3>6. filed' \in [SheetIds -> Sheet]
      BY <3>1, <3>2, <3>4, <3>5
    <3> QED BY <2>4, <3>6 DEF K!SheetChanges, KeepingInv
  <2> QED BY <1>4, <2>1, <2>2, <2>3, <2>4 DEF K!RowsChange
<1>5. CASE ~K!RowsChange
  BY <1>3, <1>5 DEF K!Next, K!vars, K!Tick, K!FetchNext, K!DownloadEverything, K!Open, K!Reclaim,
                    K!ClearOpened, K!KeepAgain
<1> QED BY <1>4, <1>5

LEMMA KeysRead ==
  ASSUME K!KeepingAssumption, KeepingInv, NEW song \in Songs, NEW over \in Sayable
  PROVE  K!ReadKey(song, over) \in Sayable
<1>1. mine.key[song] \in Sayable /\ OriginalKey[song] \in Sayable
  BY SameKeys DEF K!KeepingAssumption, KeepingInv, Sayable
<1>2. <<over, mine.key[song], OriginalKey[song]>> \in [1..3 -> Sayable]
  BY <1>1
<1> QED BY <1>2, FirstHeld, SameEffective DEF K!ReadKey

\* Of some sheets one is listed first.
LEMMA ListedFirst ==
  ASSUME K!KeepingAssumption, KeepingInv, NEW S, S \subseteq SheetIds, S # {}
  PROVE  K!ByPosition(S) \in S /\ \A q \in S : K!Before(K!ByPosition(S), q)
<1> DEFINE Place(s) == filed[s].position - LeastPosition
           First(s) == \A q \in S : K!Before(s, q)
<1>1. \A s \in S : s \in Nat /\ filed[s].position \in Int /\ Place(s) \in Nat
  BY DEF K!KeepingAssumption, KeepingInv, Sheet
<1>2. PICK p \in {Place(s) : s \in S} : \A q \in {Place(s) : s \in S} : p <= q
  <2> HIDE DEF Place
  <2> QED BY <1>1, LeastOf
<1>3. PICK i \in {s \in S : Place(s) = p} : \A j \in {s \in S : Place(s) = p} : i <= j
  <2>1. {s \in S : Place(s) = p} # {} /\ {s \in S : Place(s) = p} \subseteq Nat
    BY <1>1, <1>2
  <2> HIDE DEF Place
  <2> QED BY <2>1, LeastOf
<1>4. i \in S /\ First(i)
  <2>1. ASSUME NEW q \in S PROVE K!Before(i, q)
    <3>1. p <= Place(q) /\ Place(i) = p
      BY <1>2, <1>3
    <3>2. Place(q) = p => i <= q
      BY <1>3
    <3> QED BY <1>1, <1>3, <3>1, <3>2, SMT DEF K!Before, K!KeepingAssumption
  <2> QED BY <1>3, <2>1
<1>5. K!ByPosition(S) = CHOOSE s \in S : First(s)
  BY DEF K!ByPosition
<1> HIDE DEF First
<1>6. K!ByPosition(S) \in S /\ First(K!ByPosition(S))
  BY <1>4, <1>5
<1> QED BY <1>6 DEF First

\* The sheets that no other one comes before, by how well they fit and by their place.
Best(usable, key, part) ==
  {s \in usable : \A q \in usable :
     \/ K!Cost(s, key, part) < K!Cost(q, key, part)
     \/ K!Cost(s, key, part) = K!Cost(q, key, part) /\ K!Before(s, q)}

LEMMA FirstIsBest ==
  ASSUME K!KeepingAssumption, KeepingInv, NEW usable, usable \subseteq SheetIds,
         NEW S, S \subseteq usable, S # {}, NEW key, NEW part, NEW c \in Int,
         \A s \in usable : K!Cost(s, key, part) \in Int,
         \A s \in S : K!Cost(s, key, part) = c,
         \A s \in usable \ S : K!Cost(s, key, part) > c
  PROVE  Best(usable, key, part) = {K!ByPosition(S)} /\ K!Cost(K!ByPosition(S), key, part) = c
<1> DEFINE b == K!ByPosition(S)
           C(s) == K!Cost(s, key, part)
<1>1. b \in S /\ \A q \in S : K!Before(b, q)
  BY ListedFirst
<1> HIDE DEF b, C
<1>2. b \in usable /\ C(b) = c
  BY <1>1 DEF C
<1>3. ASSUME NEW q \in usable PROVE C(b) < C(q) \/ (C(b) = C(q) /\ K!Before(b, q))
  <2>1. CASE q \in S
    BY <1>1, <1>2, <2>1 DEF C
  <2>2. CASE q \notin S
    BY <1>2, <2>2 DEF C
  <2> QED BY <2>1, <2>2
<1>4. ASSUME NEW s \in Best(usable, key, part) PROVE s = b
  <2>1. s \in usable /\ (C(s) < C(b) \/ (C(s) = C(b) /\ K!Before(s, b)))
    BY <1>2, <1>4 DEF Best, C
  <2>2. C(s) \in Int /\ C(b) \in Int
    BY <1>2, <2>1 DEF C
  <2>3. K!Before(b, s) /\ K!Before(s, b)
    BY <1>3, <2>1, <2>2
  <2>4. b \in Nat /\ s \in Nat /\ filed[b].position \in Int /\ filed[s].position \in Int
    BY <1>2, <2>1 DEF K!KeepingAssumption, KeepingInv, Sheet
  <2> QED BY <2>3, <2>4 DEF K!Before
<1>5. b \in Best(usable, key, part)
  BY <1>2, <1>3 DEF Best, C
<1> QED BY <1>2, <1>4, <1>5 DEF b, C

LEMMA CostsAre ==
  ASSUME K!KeepingAssumption, KeepingInv, NEW s \in SheetIds, NEW key \in Sayable, NEW part
  PROVE  LET inKey == K!InKey(s, key)
             isPart == K!IsPart(s, part)
             k == filed[s].key
             cost == K!Cost(s, key, part)
         IN /\ cost \in 0..10
            /\ inKey /\ isPart => cost = 0
            /\ inKey /\ ~isPart => cost = 1
            /\ k = R!NoKey => ~inKey
            /\ k = R!NoKey /\ isPart => cost = 2
            /\ ~inKey /\ isPart /\ k # R!NoKey /\ key # R!NoKey =>
                 cost = 3 + K!FifthsDistance(key, k) /\ K!FifthsDistance(key, k) \in 0..6
            /\ ~inKey /\ ~isPart => cost = 10
            /\ ~inKey /\ k # R!NoKey /\ key = R!NoKey => cost = 10
<1> DEFINE inKey == K!InKey(s, key)
           isPart == K!IsPart(s, part)
           k == filed[s].key
           cost == K!Cost(s, key, part)
<1>1. k \in Sayable
  BY DEF KeepingInv, Sheet
<1>2. k # R!NoKey /\ key # R!NoKey =>
        /\ K!FifthsDistance(key, k) = K!FifthsApart(k, key) /\ K!FifthsApart(k, key) \in 0..6
  BY <1>1, FifthsAre DEF Sayable
<1>3. k = R!NoKey => ~inKey
  BY SameKeys DEF K!InKey
<1>4. cost = CASE inKey -> IF isPart THEN 0 ELSE 1
               [] ~inKey /\ isPart /\ k = R!NoKey -> 2
               [] ~inKey /\ isPart /\ k # R!NoKey /\ key # R!NoKey -> 3 + K!FifthsApart(k, key)
               [] OTHER -> 10
  BY SameKeys DEF K!Cost
<1> HIDE DEF inKey, isPart, k, cost
<1>5. /\ inKey /\ isPart => cost = 0
      /\ inKey /\ ~isPart => cost = 1
      /\ ~inKey /\ isPart /\ k = R!NoKey => cost = 2
      /\ ~inKey /\ isPart /\ k # R!NoKey /\ key # R!NoKey => cost = 3 + K!FifthsApart(k, key)
      /\ ~inKey /\ ~isPart => cost = 10
      /\ ~inKey /\ k # R!NoKey /\ key = R!NoKey => cost = 10
  BY <1>4
<1>6. cost \in 0..10
  BY <1>2, <1>5
<1> QED BY <1>2, <1>3, <1>5, <1>6 DEF inKey, isPart, k, cost

\* What the banner says, which the provers need not read.
Word(n) == K!Promise[n]
Exact == "exact"
OtherPart == "other part"
AnyKey == "any key"
NearestKey == "nearest key"
FirstOfAll == "first"

LEMMA Promises ==
  /\ Word(0) = Exact /\ Word(1) = OtherPart /\ Word(2) = AnyKey
  /\ \A n \in 3..9 : Word(n) = NearestKey
  /\ Word(10) = FirstOfAll
<1>1. ASSUME NEW n \in 0..10
      PROVE  Word(n) = CASE n = 0 -> Exact [] n = 1 -> OtherPart [] n = 2 -> AnyKey
                         [] n \in 3..9 -> NearestKey [] n = 10 -> FirstOfAll
  BY Zenon DEF Word, K!Promise, Exact, OtherPart, AnyKey, NearestKey, FirstOfAll
<1>2. Word(0) = Exact /\ Word(1) = OtherPart /\ Word(2) = AnyKey /\ Word(10) = FirstOfAll
  BY <1>1
<1>3. \A n \in 3..9 : Word(n) = NearestKey
  BY <1>1
<1> QED BY <1>2, <1>3

LEMMA ChoiceIsBest ==
  ASSUME K!KeepingAssumption, KeepingInv, NEW usable, usable \subseteq SheetIds, usable # {},
         NEW key \in Sayable, NEW part
  PROVE  LET choice == K!SelectSheet(usable, key, part)
         IN /\ Best(usable, key, part) = {choice.sheet}
            /\ choice.fallback = Word(K!Cost(choice.sheet, key, part))
<1> DEFINE inKey  == {s \in usable : K!InKey(s, key)}
           exact  == {s \in inKey : K!IsPart(s, part)}
           anyKey == {s \in usable : filed[s].key = K!NoKey /\ K!IsPart(s, part)}
           keyed  == {s \in usable : filed[s].key # K!NoKey /\ K!IsPart(s, part)}
           choice == K!SelectSheet(usable, key, part)
           C(s)   == K!Cost(s, key, part)
           Right(fallback, S, c) ==
             /\ S \subseteq usable /\ S # {} /\ c \in 0..10 /\ Word(c) = fallback
             /\ choice = [fallback |-> fallback, sheet |-> K!ByPosition(S)]
             /\ \A s \in S : C(s) = c
             /\ \A s \in usable \ S : C(s) > c
<1>1. ASSUME NEW fallback, NEW S, NEW c, Right(fallback, S, c)
      PROVE  /\ Best(usable, key, part) = {choice.sheet}
             /\ choice.fallback = Word(C(choice.sheet))
  <2>1. \A s \in usable : C(s) \in Int
    BY CostsAre
  <2>2. c \in Int /\ choice.fallback = fallback /\ choice.sheet = K!ByPosition(S)
    BY <1>1
  <2>3. Best(usable, key, part) = {K!ByPosition(S)} /\ C(K!ByPosition(S)) = c
    BY <1>1, <2>1, <2>2, FirstIsBest
  <2> QED BY <1>1, <2>2, <2>3
<1>2. CASE exact # {}
  <2>1. choice = [fallback |-> Exact, sheet |-> K!ByPosition(exact)]
    BY <1>2 DEF K!SelectSheet, Exact
  <2>2. \A s \in usable : s \in exact <=> C(s) = 0
    BY CostsAre, SameKeys DEF Sayable
  <2>3. Right(Exact, exact, 0)
    BY <1>2, <2>1, <2>2, CostsAre, Promises
  <2> QED BY <1>1, <2>3
<1>3. CASE exact = {} /\ inKey # {}
  <2>1. choice = [fallback |-> OtherPart, sheet |-> K!ByPosition(inKey)]
    BY <1>3 DEF K!SelectSheet, OtherPart
  <2>2. ASSUME NEW s \in usable
        PROVE  (s \in inKey => C(s) = 1) /\ (s \notin inKey => C(s) > 1)
    BY <1>3, CostsAre, SameKeys
  <2>3. Right(OtherPart, inKey, 1)
    BY <1>3, <2>1, <2>2, Promises
  <2> QED BY <1>1, <2>3
<1>4. CASE inKey = {} /\ anyKey # {}
  <2>1. choice = [fallback |-> AnyKey, sheet |-> K!ByPosition(anyKey)]
    BY <1>4 DEF K!SelectSheet, AnyKey
  <2>2. ASSUME NEW s \in usable
        PROVE  (s \in anyKey => C(s) = 2) /\ (s \notin anyKey => C(s) > 2)
    BY <1>4, CostsAre, SameKeys
  <2>3. Right(AnyKey, anyKey, 2)
    BY <1>4, <2>1, <2>2, Promises
  <2> QED BY <1>1, <2>3
<1>5. CASE inKey = {} /\ anyKey = {} /\ key # K!NoKey /\ keyed # {}
  <2> DEFINE D(s) == K!FifthsDistance(key, filed[s].key)
             near == K!Nearest(keyed, key)
  <2>1. choice = [fallback |-> NearestKey, sheet |-> K!ByPosition(near)]
    BY <1>5 DEF K!SelectSheet, NearestKey
  <2>2. ASSUME NEW s \in usable
        PROVE  /\ s \in keyed => C(s) = 3 + D(s) /\ D(s) \in 0..6
               /\ s \notin keyed => C(s) = 10
    BY <1>5, CostsAre, SameKeys
  <2>3. PICK d \in {D(s) : s \in keyed} : \A e \in {D(s) : s \in keyed} : d <= e
    <3>1. {D(s) : s \in keyed} # {} /\ {D(s) : s \in keyed} \subseteq Nat
      BY <1>5, <2>2
    <3> HIDE DEF D, keyed
    <3> QED BY <3>1, LeastOf
  <2>4. near = {s \in keyed : D(s) = d}
    <3>1. near = {s \in keyed : \A q \in keyed : D(s) <= D(q)}
      BY DEF K!Nearest
    <3>2. \A s \in keyed : D(s) \in 0..6
      BY <2>2
    <3> HIDE DEF near, D, keyed
    <3> QED BY <2>3, <3>1, <3>2
  <2>5. near # {} /\ near \subseteq usable /\ d \in 0..6
    BY <2>2, <2>3, <2>4
  <2>6. Word(3 + d) = NearestKey
    BY <2>5, Promises
  <2> HIDE DEF near, D
  <2>7. \A s \in near : C(s) = 3 + d
    BY <2>2, <2>4
  <2>8. \A s \in usable \ near : C(s) > 3 + d
    <3> SUFFICES ASSUME NEW s \in usable \ near PROVE C(s) > 3 + d
      OBVIOUS
    <3>1. CASE s \in keyed
      <4>1. D(s) # d /\ d <= D(s) /\ D(s) \in 0..6 /\ C(s) = 3 + D(s)
        BY <2>2, <2>3, <2>4, <3>1
      <4> QED BY <4>1, <2>5
    <3>2. CASE s \notin keyed
      BY <2>2, <2>5, <3>2
    <3> QED BY <3>1, <3>2
  <2>9. 3 + d \in 0..10
    BY <2>5
  <2>10. Right(NearestKey, near, 3 + d)
    BY <2>1, <2>5, <2>6, <2>7, <2>8, <2>9
  <2> QED BY <1>1, <2>10
<1>6. CASE inKey = {} /\ anyKey = {} /\ (key = K!NoKey \/ keyed = {})
  <2>1. choice = [fallback |-> FirstOfAll, sheet |-> K!ByPosition(usable)]
    BY <1>6 DEF K!SelectSheet, FirstOfAll
  <2>2. \A s \in usable : C(s) = 10
    BY <1>6, CostsAre, SameKeys
  <2>3. Right(FirstOfAll, usable, 10)
    BY <2>1, <2>2, Promises
  <2> QED BY <1>1, <2>3
<1> QED BY <1>2, <1>3, <1>4, <1>5, <1>6

(***************************************************************************)
(* Business rule 4: for any sheets, keys, parts and overrides, the sheet   *)
(* that is shown is the one that comes first by how well it fits and then  *)
(* by its place, and the banner says how well (sheets/selection.rs).       *)
(***************************************************************************)
THEOREM BestSheetIsShown == ASSUME K!KeepingAssumption PROVE K!Spec => []K!BestSheet
<1>1. KeepingInv /\ [K!Next]_K!vars => KeepingInv'
  BY KeepingNext
<1>2. KeepingInv => K!BestSheet
  <2> SUFFICES ASSUME KeepingInv, NEW song \in Songs, NEW part \in Parts \cup {K!AnyPart},
                      NEW over \in {K!NoKey, keyOf[song]}
      PROVE  LET usable == K!SheetsOf(song)
                 key == K!ReadKey(song, over)
                 choice == K!SelectSheet(usable, key, part)
             IN IF usable = {} THEN choice = [fallback |-> "none", sheet |-> K!Nothing]
                ELSE /\ Best(usable, key, part) = {choice.sheet}
                     /\ choice.fallback = Word(K!Cost(choice.sheet, key, part))
    BY Zenon DEF K!BestSheet, Best, Word
  <2>1. over \in Sayable
    BY SameKeys DEF KeepingInv, Sayable
  <2>2. K!ReadKey(song, over) \in Sayable
    BY <2>1, KeysRead
  <2>3. K!SheetsOf(song) \subseteq SheetIds
    BY DEF K!SheetsOf
  <2>4. K!SelectSheet({}, K!ReadKey(song, over), part) = [fallback |-> "none", sheet |-> K!Nothing]
    BY DEF K!SelectSheet
  <2> QED BY <2>2, <2>3, <2>4, ChoiceIsBest
<1> QED BY <1>1, <1>2, KeepingInit, PTL DEF K!Spec
=============================================================================
