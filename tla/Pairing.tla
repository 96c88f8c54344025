------------------------------- MODULE Pairing -------------------------------
(***************************************************************************)
(* Pairing a device with a running session.  The control surface shows a   *)
(* code and waits at the relay (crates/api/src/signal.rs), a device that   *)
(* enters the code leaves an offer there, and the answer opens a channel   *)
(* between the two (crates/web/src/present/pairing.rs).  From then on the  *)
(* relay is out of it: the device shows what arrives over the channel      *)
(* (present/join.rs), and the control closes its socket.                   *)
(*                                                                         *)
(* Codes are numbered as they are shown, calls of `join` as they are made. *)
(* ICE candidates are part of the offer and of the answer.                 *)
(***************************************************************************)
EXTENDS Naturals, FiniteSets

CONSTANTS
  Devices,    \* phones and tablets
  MaxCodes,   \* bound: codes shown
  MaxJoins,   \* bound: calls of `join`
  MaxFaults   \* bound: channels cut, pages closed, sockets failed, sessions ended

ASSUME PairingAssumption ==
  /\ Devices # {}
  /\ MaxCodes \in Nat /\ MaxJoins \in Nat /\ MaxFaults \in Nat

VARIABLES
  live,       \* is the control surface of the session open?
  code,       \* the code it shows, 0 for none
  codes,      \* how many were shown
  status,     \* what it says about the pairing
  hostSock,   \* per code: the control's socket at the relay
  room,       \* per code: its room at the relay
  guest,      \*           and the call waiting in it, 0 for none
  joins,      \* the calls of `join`
  made,       \* how many there were
  phase,      \* per device: Phase
  slide,      \*             has it a state to show?
  entered,    \*             the code it entered last
  send,       \*             the call whose channel it acks over, 0 for none
  tired,      \*             are the five minutes of retrying over?
  dropped,    \* history: devices whose channel was cut by the network
  displaced,  \* history: devices whose channel the control closed
  faults      \* history: how many faults

control == <<live, code, codes, status>>
relay == <<hostSock, room, guest>>
device == <<phase, slide, entered, send, tired>>
history == <<dropped, displaced, faults>>
vars == <<control, relay, joins, made, device, history>>

CodeNos == 1..MaxCodes
JoinNos == 1..MaxJoins

NoJoin == [dev |-> CHOOSE d \in Devices : TRUE, code |-> 0, sock |-> "none", msg |-> "none",
           got |-> 0, host |-> "none", channel |-> "none", call |-> "none"]

(***************************************************************************)
(* Every value is of its kind, and who waits in a room is a call that is   *)
(* connected to it.                                                        *)
(***************************************************************************)
PairingTypeOK ==
  /\ live \in BOOLEAN /\ codes \in 0..MaxCodes /\ code \in 0..codes
  /\ status \in {"none", "waiting", "connected", "failed"}
  /\ hostSock \in [CodeNos -> {"none", "new", "in", "bye", "over"}]
  /\ room \in [CodeNos -> BOOLEAN]
  /\ guest \in [CodeNos -> 0..made]
  /\ \A c \in CodeNos : guest[c] # 0 =>
       room[c] /\ joins[guest[c]].code = c /\ joins[guest[c]].sock \in {"in", "bye"}
  /\ joins \in [JoinNos -> [dev : Devices, code : 0..codes,
                            sock : {"none", "new", "vet", "in", "bye", "over"},
                            msg : {"none", "offer", "relayed", "taken", "answered", "lost"},
                            got : 0..made,
                            host : {"none", "new", "open", "closed"},
                            channel : {"none", "connecting", "open", "closed"},
                            call : {"none", "running", "ok", "failed"}]]
  /\ made \in 0..MaxJoins
  /\ phase \in [Devices -> {"idle", "joining", "joined", "stale"}]
  /\ slide \in [Devices -> BOOLEAN] /\ tired \in [Devices -> BOOLEAN]
  /\ entered \in [Devices -> 0..codes] /\ send \in [Devices -> 0..made]
  /\ dropped \subseteq Devices /\ displaced \subseteq Devices
  /\ faults \in 0..MaxFaults

Init ==
  /\ live = TRUE /\ code = 0 /\ codes = 0 /\ status = "none"
  /\ hostSock = [c \in CodeNos |-> "none"]
  /\ room = [c \in CodeNos |-> FALSE] /\ guest = [c \in CodeNos |-> 0]
  /\ joins = [a \in JoinNos |-> NoJoin] /\ made = 0
  /\ phase = [d \in Devices |-> "idle"] /\ slide = [d \in Devices |-> FALSE]
  /\ entered = [d \in Devices |-> 0] /\ send = [d \in Devices |-> 0]
  /\ tired = [d \in Devices |-> FALSE]
  /\ dropped = {} /\ displaced = {} /\ faults = 0

Fault == faults < MaxFaults /\ faults' = faults + 1

Goes(sock) == IF sock \in {"new", "vet", "in"} THEN "bye" ELSE sock

-----------------------------------------------------------------------------
(* The control surface: present/control.rs and `PairingHost` *)

(* `PairingHost::close`: the socket, and every connection it ever answered. *)
Connected(c) == {a \in JoinNos : joins[a].code = c /\ joins[a].host # "none"
                                                  /\ joins[a].channel = "open"}

Unhosted(c) ==
  [a \in JoinNos |-> IF joins[a].code = c /\ joins[a].host # "none"
                     THEN [joins[a] EXCEPT !.host = "closed"] ELSE joins[a]]

CloseHost ==
  /\ joins' = IF code = 0 THEN joins ELSE Unhosted(code)
  /\ displaced' = IF code = 0 THEN displaced ELSE displaced \cup {joins[a].dev : a \in Connected(code)}

StartPairing ==
  /\ live /\ codes < MaxCodes
  /\ CloseHost
  /\ codes' = codes + 1 /\ code' = codes + 1 /\ status' = "waiting"
  /\ hostSock' = [c \in CodeNos |-> IF c = codes + 1 THEN "new" ELSE Goes(hostSock[c])]
  /\ UNCHANGED <<live, room, guest, made, device, dropped, faults>>

(* Half an hour without a device. *)
CodeExpires ==
  /\ live /\ code # 0 /\ status # "connected"
  /\ CloseHost
  /\ code' = 0 /\ status' = "none"
  /\ hostSock' = [hostSock EXCEPT ![code] = Goes(@)]
  /\ UNCHANGED <<live, codes, room, guest, made, device, dropped, faults>>

(* The end is told to who is connected, as far as it still gets through,   *)
(* and the page is left: `finish` and on_cleanup.                          *)
EndSession ==
  /\ Fault
  /\ live /\ live' = FALSE
  /\ CloseHost
  /\ \E heard \in SUBSET {joins[a].dev : a \in {b \in Connected(code) : joins[b].host = "open"}} :
       /\ phase' = [d \in Devices |-> IF d \in heard THEN "idle" ELSE phase[d]]
       /\ slide' = [d \in Devices |-> slide[d] /\ d \notin heard]
  /\ hostSock' = [c \in CodeNos |-> Goes(hostSock[c])]
  /\ UNCHANGED <<code, codes, status, room, guest, made, entered, send, tired, dropped>>

(* An offer is answered by a connection of its own. *)
HostTakes(a) ==
  /\ joins[a].msg = "relayed" /\ hostSock[joins[a].code] = "in"
  /\ joins' = [joins EXCEPT ![a].msg = "taken", ![a].host = "new"]
  /\ UNCHANGED <<control, relay, made, device, history>>

(* The channel opens at the control: nothing is left for the relay to do.  *)
HostOpens(a) ==
  /\ joins[a].got = a /\ joins[a].host = "new" /\ joins[a].channel \in {"connecting", "open"}
  /\ joins' = [joins EXCEPT ![a].host = "open"]
  /\ status' = "connected"
  /\ hostSock' = [hostSock EXCEPT ![joins[a].code] = Goes(@)]
  /\ UNCHANGED <<live, code, codes, room, guest, made, device, history>>

(* onerror of the control's socket. *)
HostSocketFails ==
  /\ Fault
  /\ \E c \in CodeNos :
       /\ hostSock[c] \in {"new", "in"} /\ hostSock' = [hostSock EXCEPT ![c] = "bye"]
       /\ status' = "failed"
  /\ UNCHANGED <<live, code, codes, room, guest, joins, made, device, dropped, displaced>>

-----------------------------------------------------------------------------
(* The relay: `connection` of crates/api/src/signal.rs *)

(* There is no room of this code yet, so whoever declares a workspace and  *)
(* belongs to it opens one.                                                *)
HostArrives(c) ==
  /\ hostSock[c] = "new"
  /\ hostSock' = [hostSock EXCEPT ![c] = "in"]
  /\ room' = [room EXCEPT ![c] = TRUE]
  /\ UNCHANGED <<control, guest, joins, made, device, history>>

(* A guest declares none: without a room it is refused at once. *)
GuestArrives(a) ==
  /\ joins[a].sock = "new"
  /\ joins' = [joins EXCEPT ![a].sock = IF room[joins[a].code] THEN "vet" ELSE "over"]
  /\ UNCHANGED <<control, relay, made, device, history>>

\* mutant: whoever comes last is the guest
JoinRoomOver(a) ==
  /\ joins[a].sock = "vet"
  /\ \E allowed \in BOOLEAN :
     LET c == joins[a].code
         free == allowed /\ room[c] IN
       /\ joins' = [joins EXCEPT ![a].sock = IF free THEN "in" ELSE "over"]
       /\ guest' = IF free THEN [guest EXCEPT ![c] = a] ELSE guest
  /\ UNCHANGED <<control, hostSock, room, made, device, history>>

(* Its membership was looked up, and the room may be gone or taken by now. *)
JoinRoom(a) ==
  /\ joins[a].sock = "vet"
  /\ \E allowed \in BOOLEAN :
     LET c == joins[a].code
         free == allowed /\ room[c] /\ guest[c] = 0 IN
       /\ joins' = [joins EXCEPT ![a].sock = IF free THEN "in" ELSE "over"]
       /\ guest' = IF free THEN [guest EXCEPT ![c] = a] ELSE guest
  /\ UNCHANGED <<control, hostSock, room, made, device, history>>

ForwardOffer(a) ==
  /\ joins[a].sock = "in" /\ joins[a].msg = "offer"
  /\ joins' = [joins EXCEPT ![a].msg = IF room[joins[a].code] THEN "relayed" ELSE "lost"]
  /\ UNCHANGED <<control, relay, made, device, history>>

(* `peer_of` the host is whoever is the guest now. *)
ForwardAnswer(a) ==
  /\ joins[a].msg = "taken" /\ joins[a].host = "new"
  /\ LET c == joins[a].code IN
       /\ hostSock[c] = "in"
       /\ joins' = IF ~room[c] \/ guest[c] = 0
                   THEN [joins EXCEPT ![a].msg = "lost"]
                   ELSE [[joins EXCEPT ![a].msg = "answered"] EXCEPT ![guest[c]].got = a]
  /\ UNCHANGED <<control, relay, made, device, history>>

(* Either end leaving ends the pairing, and the other end is told (4410).  *)
HostLeaves(c) ==
  /\ hostSock[c] = "bye"
  /\ hostSock' = [hostSock EXCEPT ![c] = "over"]
  /\ joins' = IF guest[c] = 0 THEN joins ELSE [joins EXCEPT ![guest[c]].sock = "over"]
  /\ room' = [room EXCEPT ![c] = FALSE]
  /\ guest' = [guest EXCEPT ![c] = 0]
  /\ UNCHANGED <<control, made, device, history>>

GuestLeaves(a) ==
  /\ joins[a].sock = "bye"
  /\ LET c == joins[a].code IN
       /\ joins' = [joins EXCEPT ![a].sock = "over"]
       /\ IF guest[c] = a
          THEN /\ hostSock' = [hostSock EXCEPT ![c] = "over"]
               /\ room' = [room EXCEPT ![c] = FALSE]
               /\ guest' = [guest EXCEPT ![c] = 0]
          ELSE UNCHANGED relay
  /\ UNCHANGED <<control, made, device, history>>

(* Two minutes: the room goes, the sockets stay. *)
Sweep(c) ==
  /\ room[c]
  /\ room' = [room EXCEPT ![c] = FALSE]
  /\ guest' = [guest EXCEPT ![c] = 0]
  /\ UNCHANGED <<control, hostSock, joins, made, device, history>>

-----------------------------------------------------------------------------
(* The device: present/join.rs and `join` of present/pairing.rs *)

Attempt(d, c) ==
  /\ made < MaxJoins /\ made' = made + 1
  /\ joins' = [joins EXCEPT ![made + 1] =
                 [NoJoin EXCEPT !.dev = d, !.code = c, !.sock = "new", !.msg = "offer",
                                !.channel = "connecting", !.call = "running"]]
  /\ phase' = [phase EXCEPT ![d] = "joining"]

(* A code from the screen, or one noted down earlier. *)
Enter(d) ==
  /\ phase[d] = "idle"
  /\ \E c \in 1..codes : Attempt(d, c) /\ entered' = [entered EXCEPT ![d] = c]
  /\ UNCHANGED <<control, relay, slide, send, tired, history>>

Retry(d) ==
  /\ phase[d] = "stale" /\ ~tired[d]
  /\ Attempt(d, entered[d])
  /\ UNCHANGED <<control, relay, slide, entered, send, tired, history>>

(* Five minutes since the device joined, not since it was dropped. *)
FiveMinutes(d) ==
  /\ phase[d] = "stale" /\ send[d] # 0 /\ ~tired[d]
  /\ tired' = [tired EXCEPT ![d] = TRUE]
  /\ UNCHANGED <<control, relay, joins, made, phase, slide, entered, send, history>>

ChannelOpens(a) ==
  /\ joins[a].got = a /\ joins[a].channel = "connecting" /\ joins[a].host \in {"new", "open"}
  /\ joins' = [joins EXCEPT ![a].channel = "open"]
  /\ UNCHANGED <<control, relay, made, device, history>>

JoinSucceeds(a) ==
  /\ joins[a].call = "running" /\ joins[a].channel = "open"
  /\ joins' = [joins EXCEPT ![a].call = "ok", ![a].sock = Goes(@)]
  /\ phase' = [phase EXCEPT ![joins[a].dev] = "joined"]
  /\ send' = [send EXCEPT ![joins[a].dev] = a]
  /\ tired' = [tired EXCEPT ![joins[a].dev] = FALSE]
  /\ UNCHANGED <<control, relay, made, slide, entered, history>>

\* mutant: only a device that was let in runs out of time
JoinFailsInside(a) ==
  /\ joins[a].call = "running" /\ joins[a].channel # "open" /\ joins[a].sock = "in"
  /\ joins' = [joins EXCEPT ![a].call = "failed"]
  /\ phase' = [phase EXCEPT ![joins[a].dev] = "idle"]
  /\ UNCHANGED <<control, relay, made, slide, entered, send, tired, history>>

(* Twenty seconds: neither the socket nor the connection is closed. *)
JoinFails(a) ==
  /\ joins[a].call = "running" /\ joins[a].channel # "open"
  /\ joins' = [joins EXCEPT ![a].call = "failed"]
  /\ phase' = [phase EXCEPT ![joins[a].dev] = "idle"]
  /\ UNCHANGED <<control, relay, made, slide, entered, send, tired, history>>

(* The device looks every fifty milliseconds, for twenty seconds. *)
Wait(a) == JoinSucceeds(a) \/ JoinFails(a)

StateArrives(a) ==
  /\ live /\ joins[a].host = "open" /\ joins[a].channel = "open"
  /\ phase' = [phase EXCEPT ![joins[a].dev] = "joined"]
  /\ slide' = [slide EXCEPT ![joins[a].dev] = TRUE]
  /\ UNCHANGED <<control, relay, joins, made, entered, send, tired, history>>

(* onclose, whatever the device was doing. *)
Closed(a) == phase' = [phase EXCEPT ![joins[a].dev] = "stale"]

ChannelCloses(a) ==
  /\ joins[a].channel = "open" /\ joins[a].host = "closed"
  /\ joins' = [joins EXCEPT ![a].channel = "closed"]
  /\ Closed(a)
  /\ UNCHANGED <<control, relay, made, slide, entered, send, tired, history>>

(* The network goes: the control hears nothing of it. *)
ChannelDrops(a) ==
  /\ Fault
  /\ joins[a].channel = "open"
  /\ joins' = [joins EXCEPT ![a].channel = "closed"]
  /\ Closed(a)
  /\ dropped' = dropped \cup {joins[a].dev}
  /\ UNCHANGED <<control, relay, made, slide, entered, send, tired, displaced>>

(* The page is closed, and opened again. *)
LeavePage(d) ==
  /\ Fault
  /\ joins' = [a \in JoinNos |->
       IF joins[a].dev # d \/ joins[a].call = "none" THEN joins[a]
       ELSE [joins[a] EXCEPT !.sock = Goes(@), !.channel = "closed",
                             !.call = IF @ = "running" THEN "failed" ELSE @]]
  /\ phase' = [phase EXCEPT ![d] = "idle"] /\ slide' = [slide EXCEPT ![d] = FALSE]
  /\ send' = [send EXCEPT ![d] = 0] /\ tired' = [tired EXCEPT ![d] = FALSE]
  /\ entered' = [entered EXCEPT ![d] = 0]
  /\ UNCHANGED <<control, relay, made, dropped, displaced>>

-----------------------------------------------------------------------------

Call(a) ==
  \/ HostTakes(a) \/ HostOpens(a) \/ GuestArrives(a) \/ JoinRoom(a)
  \/ ForwardOffer(a) \/ ForwardAnswer(a) \/ GuestLeaves(a)
  \/ ChannelOpens(a) \/ Wait(a) \/ StateArrives(a)
  \/ ChannelCloses(a) \/ ChannelDrops(a)

Next ==
  \/ StartPairing \/ CodeExpires \/ EndSession \/ HostSocketFails
  \/ \E c \in CodeNos : HostArrives(c) \/ HostLeaves(c) \/ Sweep(c)
  \/ \E a \in JoinNos : Call(a)
  \/ \E d \in Devices : Enter(d) \/ Retry(d) \/ FiveMinutes(d) \/ LeavePage(d)

Fairness == \A a \in JoinNos : WF_vars(Wait(a))

Spec == Init /\ [][Next]_vars /\ Fairness

-----------------------------------------------------------------------------

(***************************************************************************)
(* The control answers one call for a code and never another: "a third is  *)
(* refused rather than queued, so a stray tab cannot take the place of the *)
(* tablet somebody is holding" (signal.rs), and a code that was used or    *)
(* given up is not one a second device gets in with.  The answer reaches   *)
(* the device whose offer it answers and no other, although the relay sends*)
(* what a host says to whoever is the guest by then.                       *)
(***************************************************************************)
OneDeviceAnswered ==
  /\ \A c \in CodeNos :
       Cardinality({a \in JoinNos : joins[a].code = c /\ joins[a].host # "none"}) <= 1
  /\ \A a \in JoinNos : joins[a].got \in {0, a}

(***************************************************************************)
(* A failed join never affects the running session: nothing but the        *)
(* network, and the control closing its own side, takes the channel from a *)
(* device; nor do the relay's time limit and a socket that ends.           *)
(***************************************************************************)
JoinedStayJoined ==
  \A d \in Devices : phase[d] = "stale" => d \in dropped \cup displaced

(***************************************************************************)
(* One device to a code, its own answer, and no loss but by the network or *)
(* by the control (signal.rs, pairing.rs).                                 *)
(***************************************************************************)
OneDevicePerCode == PairingTypeOK /\ OneDeviceAnswered /\ JoinedStayJoined

(***************************************************************************)
(* Whoever is joining is told how it ended: a device refused, overtaken,   *)
(* swept or never answered does not wait for ever.                         *)
(***************************************************************************)
JoinsEnd == \A d \in Devices : phase[d] = "joining" ~> phase[d] # "joining"
=============================================================================
