---------------------------- MODULE Presentation ----------------------------
(***************************************************************************)
(* One live session: the control surface that writes its state, the wires  *)
(* that carry the state to every screen (crates/web/src/present/           *)
(* transport.rs), the screens (audience and stage windows of the same      *)
(* device, and paired devices), and the copy of the state in IndexedDB     *)
(* that a reloaded control and a new audience window read.                 *)
(*                                                                         *)
(* Messages between two windows arrive in the order they were posted, and  *)
(* a window that is not open receives nothing.  The database answers the   *)
(* requests of the control in the order it made them.                      *)
(***************************************************************************)
EXTENDS Integers, Sequences, FiniteSets, SequencesExt, Functions, TLC

CONSTANTS
    Audience, Stage,  \* output ids that windows of this device take
    Paired,           \* output ids the control gives to paired devices
    LastIndex,        \* the index of the last slide
    LosesWrites,      \* may a window that closes abort its unfinished writes?
    None,             \* Option::None
    MaxRevision,      \* bound: revisions the operator goes through
    MaxOpens,         \* bound: times the control page is opened
    MaxQueue          \* bound: states on a wire, writes in a queue

ASSUME PresentationAssumption ==
    /\ LastIndex \in Nat
    /\ LosesWrites \in BOOLEAN
    /\ MaxRevision \in Nat /\ MaxOpens \in Nat /\ MaxQueue \in Nat
    /\ None \notin Nat

Outputs == Audience \cup Stage \cup Paired

(***************************************************************************)
(* SessionState, as far as a session tells its states apart here: a blank  *)
(* mode, a message or a theme is a revision that keeps the slide.          *)
(***************************************************************************)
State == [index: 0..LastIndex, revision: Nat, ended: BOOLEAN]

ASSUME NoneAssumption == None \notin State

Created == [index |-> 0, revision |-> 1, ended |-> FALSE]

Clamp(i) == IF i < 0 THEN 0 ELSE IF i > LastIndex THEN LastIndex ELSE i

\* Blanked, given a message, or another theme.
Revised(s) == [s EXCEPT !.revision = @ + 1]

Jumped(s, i) == [Revised(s) EXCEPT !.index = Clamp(i)]

\* A move past either end is not a move, and not a revision.
Advanced(s, delta) ==
    IF Clamp(s.index + delta) = s.index THEN s ELSE Jumped(s, s.index + delta)

Ended(s) == [Revised(s) EXCEPT !.ended = TRUE]

-----------------------------------------------------------------------------

VARIABLES
    control,   \* is the control page open?
    state,     \* its state, None until the mirror is read
    held,      \* the transport's copy, which it repeats to who asks
    listed,    \* the transport's outputs: id -> acked revision and grant
    db,        \* the control's database requests, oldest first
    mirror,    \* the session's row of live_sessions
    win,       \* output -> "new", "open", "left" (with a Bye) or "gone"
    shown,     \* output -> the state on its screen
    applied,   \* output -> the revision it orders messages by
    reading,   \* output -> has it yet to read the mirror?
    up, down,  \* output -> the messages to and from the control
    opens,     \* how often the control page was opened
    last       \* history: the last state a control broadcast

screenVars == <<win, shown, applied, reading>>
vars == <<control, state, held, listed, db, mirror, screenVars, up, down,
          opens, last>>

Hello == [type |-> "hello"]
RequestState == [type |-> "request-state"]
Ack(r) == [type |-> "ack", revision |-> r]
Advance(d) == [type |-> "advance", delta |-> d]
Bye == [type |-> "bye"]

Put(s) == [op |-> "put", state |-> s]
\* mutant: the state that is saved is the one before the end
PutUnended(s) == [op |-> "end", state |-> [s EXCEPT !.ended = FALSE]]
PutEnded(s) == [op |-> "end", state |-> s]
Delete == [op |-> "delete"]
Load == [op |-> "load"]
Unheard == [op |-> "unheard"]   \* a load of a page that is no longer there

Empty == [o \in Outputs |-> <<>>]

Open(o) == win[o] = "open"

\* The session was created, and saved, by the page of its set.
Init ==
    /\ control = FALSE /\ state = None /\ held = None /\ listed = << >>
    /\ db = <<>> /\ mirror = Created
    /\ win = [o \in Outputs |-> "new"]
    /\ shown = [o \in Outputs |-> None]
    /\ applied = [o \in Outputs |-> None]
    /\ reading = [o \in Outputs |-> FALSE]
    /\ up = Empty /\ down = Empty
    /\ opens = 0 /\ last = None

(***************************************************************************)
(* The bounds: an operator waits for full wires and queues to drain, and   *)
(* for the advances that are on their way.                                 *)
(***************************************************************************)
Advances == {o \in Outputs : \E i \in 1..Len(up[o]) : up[o][i].type = "advance"}

Slack ==
    /\ Len(db) < MaxQueue
    /\ \A o \in Outputs : Len(down[o]) < MaxQueue /\ Len(up[o]) < MaxQueue

MayRevise ==
    /\ Slack
    /\ state.revision + Cardinality(Advances) < MaxRevision

-----------------------------------------------------------------------------
(* The control surface. *)

\* ControlTransport::broadcast: remembered, and sent to every open output.
Broadcast(s) ==
    /\ held' = s
    /\ last' = s
    /\ down' = [o \in Outputs |->
                  IF Open(o) THEN Append(down[o], s) ELSE down[o]]

\* mutant: an output that asks is not answered
RepeatNothing == UNCHANGED <<held, last, down>>

\* Rebroadcast what is held, if anything is.
Repeat ==
    IF held = None THEN UNCHANGED <<held, last, down>> ELSE Broadcast(held)

\* mutant: a revision is not saved
ApplyUnsaved(next) ==
    /\ state' = next
    /\ Broadcast(next)
    /\ UNCHANGED db

\* The control's `apply': stored, broadcast, and its write begun.
Apply(next) ==
    /\ state' = next
    /\ Broadcast(next)
    /\ db' = Append(db, Put(next))

\* The page opens its transport, and asks the database for the session.
OpenControl ==
    /\ ~control /\ opens < MaxOpens
    /\ control' = TRUE
    /\ db' = Append(db, Load)
    /\ opens' = opens + 1
    /\ UNCHANGED <<state, held, listed, mirror, screenVars, up, down, last>>

Operate ==
    /\ control /\ state # None /\ MayRevise
    /\ \/ \E d \in {-1, 1} : Apply(Advanced(state, d))
       \/ \E i \in 0..LastIndex : Apply(Jumped(state, i))
       \/ Apply(Revised(state))
    /\ UNCHANGED <<control, listed, mirror, screenVars, up, opens>>

Status(r, allowed) == [acked |-> r, can_advance |-> allowed]

CanAdvance(o) == o \in DOMAIN listed /\ listed[o].can_advance

\* An output is listed anew, or its line replaced.
List(o, r, allowed) ==
    listed' = [x \in DOMAIN listed \cup {o} |->
                 IF x = o THEN Status(r, allowed) ELSE listed[x]]

Forget(o) == listed' = Restrict(listed, DOMAIN listed \ {o})

\* mutant: the grant of the other outputs is left as it is
GrantAlso(o, allowed) ==
    /\ control /\ o \in Paired \cap DOMAIN listed
    /\ List(o, listed[o].acked, allowed)
    /\ UNCHANGED <<control, state, held, db, mirror, screenVars, up, down,
                   opens, last>>

\* The checkbox `may advance', shown for paired devices only.
GrantAdvance(o, allowed) ==
    /\ control /\ o \in Paired \cap DOMAIN listed
    /\ listed' = [x \in DOMAIN listed |->
                    Status(listed[x].acked, allowed /\ x = o)]
    /\ UNCHANGED <<control, state, held, db, mirror, screenVars, up, down,
                   opens, last>>

\* Nothing hears the channel any more, and the data channels close.
ShutDown ==
    /\ control' = FALSE /\ state' = None /\ listed' = << >>
    /\ up' = Empty
    /\ win' = [o \in Outputs |->
                 IF o \in Paired /\ Open(o) THEN "gone" ELSE win[o]]
    /\ shown' = [o \in Outputs |-> IF o \in Paired THEN None ELSE shown[o]]
    /\ applied' = [o \in Outputs |-> IF o \in Paired THEN None ELSE applied[o]]
    /\ UNCHANGED <<reading, opens>>

\* `finish': the end is broadcast and saved, and the page left.
Finish ==
    /\ control /\ state # None /\ Slack /\ state.revision <= MaxRevision
    /\ ShutDown
    /\ held' = None
    /\ last' = Ended(state)
    /\ down' = [o \in Outputs |->
                  IF o \in Paired THEN <<>>
                  ELSE IF Open(o) THEN Append(down[o], Ended(state))
                  ELSE down[o]]
    /\ db' = Append(db, PutEnded(Ended(state)))
    /\ UNCHANGED mirror

\* The page is left, or its window closed: a load has nobody to tell, and
\* writes that are not finished may be aborted.
CloseControl ==
    /\ control \/ db # <<>>
    /\ ShutDown
    /\ held' = None
    /\ down' = [o \in Outputs |-> IF o \in Paired THEN <<>> ELSE down[o]]
    /\ \E n \in 0..Len(db) :
         /\ n < Len(db) => LosesWrites
         /\ db' = [i \in 1..n |-> IF db[i] = Load THEN Unheard ELSE db[i]]
    /\ UNCHANGED <<mirror, last>>

\* The database answers its oldest request.
Commit ==
    /\ db # <<>>
    /\ LET r == Head(db) IN
         \/ /\ r.op = "put"
            /\ mirror' = r.state /\ db' = Tail(db)
            /\ UNCHANGED <<state, held, last, down>>
         \/ /\ r.op = "end"   \* Sessions::end goes on to the delete
            /\ mirror' = r.state /\ db' = Append(Tail(db), Delete)
            /\ UNCHANGED <<state, held, last, down>>
         \/ /\ r.op = "delete"
            /\ mirror' = None /\ db' = Tail(db)
            /\ UNCHANGED <<state, held, last, down>>
         \/ /\ r.op = "load"
            /\ db' = Tail(db)
            /\ IF mirror = None
               THEN UNCHANGED <<state, held, last, down>>
               ELSE state' = mirror /\ Broadcast(mirror)
            /\ UNCHANGED mirror
         \/ /\ r.op = "unheard"
            /\ db' = Tail(db)
            /\ UNCHANGED <<state, held, last, down, mirror>>
    /\ UNCHANGED <<control, listed, screenVars, up, opens>>

\* ControlTransport::receive, one message of one output.
Receive(o) ==
    /\ control /\ up[o] # <<>>
    /\ up' = [up EXCEPT ![o] = Tail(@)]
    /\ LET m == Head(up[o]) IN
         \/ /\ m.type = "hello"
            /\ List(o, 0, FALSE)
            /\ Repeat
            /\ UNCHANGED <<state, db>>
         \/ /\ m.type = "request-state"
            /\ Repeat
            /\ UNCHANGED <<state, db, listed>>
         \/ /\ m.type = "ack"
            /\ List(o, m.revision, CanAdvance(o))
            /\ UNCHANGED <<state, held, last, down, db>>
         \/ /\ m.type = "advance"
            /\ IF CanAdvance(o) /\ state # None
               THEN Apply(Advanced(state, m.delta))
               ELSE UNCHANGED <<state, held, last, down, db>>
            /\ UNCHANGED listed
         \/ /\ m.type = "bye"
            /\ Forget(o)
            /\ UNCHANGED <<state, held, last, down, db>>
    /\ UNCHANGED <<control, mirror, screenVars, opens>>

-----------------------------------------------------------------------------
(* The screens. *)

\* What an output posts reaches the control that is open, or nobody.
Post(o, messages) ==
    up' = IF control THEN [up EXCEPT ![o] = @ \o messages] ELSE up

\* OutputTransport::open; an audience window asks for the mirror as well.
OpenWindow(o) ==
    /\ o \in Audience \cup Stage /\ win[o] = "new"
    /\ win' = [win EXCEPT ![o] = "open"]
    /\ reading' = [reading EXCEPT ![o] = o \in Audience]
    /\ Post(o, <<Hello, RequestState>>)
    /\ UNCHANGED <<control, state, held, listed, db, mirror, shown, applied,
                   down, opens, last>>

\* The first paint of an audience window, unless a state came first.
Paint(o) ==
    /\ Open(o) /\ reading[o]
    /\ reading' = [reading EXCEPT ![o] = FALSE]
    /\ shown' = [shown EXCEPT ![o] = IF @ = None THEN mirror ELSE @]
    /\ UNCHANGED <<control, state, held, listed, db, mirror, win, applied, up,
                   down, opens, last>>

\* The data channel of a paired device opens: attach_peer sends it the state,
\* and the Hello that follows sends the state to everybody.
AttachPeer(o) ==
    /\ o \in Paired /\ win[o] = "new" /\ control /\ Slack
    /\ win' = [win EXCEPT ![o] = "open"]
    /\ List(o, 0, FALSE)
    /\ IF held = None
       THEN UNCHANGED down
       ELSE down' = [x \in Outputs |->
                       IF x = o THEN <<held, held>>
                       ELSE IF Open(x) THEN Append(down[x], held)
                       ELSE down[x]]
    /\ UNCHANGED <<control, state, held, db, mirror, shown, applied, reading,
                   up, opens, last>>

Newer(o, s) == applied[o] = None \/ s.revision >= applied[o]

Acked(o) == IF applied[o] = None THEN 0 ELSE applied[o]

\* mutant: the ack is posted before the revision is taken
ReplyBefore(o, s) == Post(o, <<Ack(Acked(o))>>)

Reply(o, s) == Post(o, <<Ack(s.revision)>>)

\* A window that shows the end tries to close itself, and may be refused.
Deliver(o) ==
    /\ Open(o) /\ down[o] # <<>>
    /\ down' = [down EXCEPT ![o] = Tail(@)]
    /\ LET s == Head(down[o]) IN
         IF Newer(o, s)
         THEN /\ applied' = [applied EXCEPT ![o] = s.revision]
              /\ shown' = [shown EXCEPT ![o] = s]
              /\ Reply(o, s)
         ELSE UNCHANGED <<applied, shown, up>>
    /\ UNCHANGED <<control, state, held, listed, db, mirror, win, reading,
                   opens, last>>

Heartbeat(o) ==
    /\ Open(o) /\ control /\ up[o] = <<>>
    /\ Post(o, <<Ack(Acked(o))>>)
    /\ UNCHANGED <<control, state, held, listed, db, mirror, screenVars, down,
                   opens, last>>

RequestAdvance(o, delta) ==
    /\ o \in Stage \cup Paired /\ Open(o) /\ control /\ state # None
    /\ o \notin Advances /\ MayRevise
    /\ Post(o, <<Advance(delta)>>)
    /\ UNCHANGED <<control, state, held, listed, db, mirror, screenVars, down,
                   opens, last>>

Blacken(o, how) ==
    /\ win' = [win EXCEPT ![o] = how]
    /\ shown' = [shown EXCEPT ![o] = None]
    /\ applied' = [applied EXCEPT ![o] = None]
    /\ reading' = [reading EXCEPT ![o] = FALSE]
    /\ down' = [down EXCEPT ![o] = <<>>]

\* OutputTransport::close, when the page is left for another.
LeavePage(o) ==
    /\ o \in Audience \cup Stage /\ Open(o)
    /\ Blacken(o, "left")
    /\ Post(o, <<Bye>>)
    /\ UNCHANGED <<control, state, held, listed, db, mirror, opens, last>>

\* The window is closed or reloaded, or the data channel drops.  Nothing says
\* so to the control; what a window posted before still arrives.
Vanish(o) ==
    /\ Open(o)
    /\ Blacken(o, "gone")
    /\ up' = IF o \in Paired THEN [up EXCEPT ![o] = <<>>] ELSE up
    /\ UNCHANGED <<control, state, held, listed, db, mirror, opens, last>>

-----------------------------------------------------------------------------

Next ==
    \/ OpenControl \/ Operate \/ Finish \/ CloseControl \/ Commit
    \/ \E o \in Outputs :
         \/ \E allowed \in BOOLEAN : GrantAdvance(o, allowed)
         \/ Receive(o)
         \/ OpenWindow(o) \/ Paint(o) \/ AttachPeer(o)
         \/ Deliver(o) \/ Heartbeat(o)
         \/ \E delta \in {-1, 1} : RequestAdvance(o, delta)
         \/ LeavePage(o) \/ Vanish(o)

Spec == Init /\ [][Next]_vars

-----------------------------------------------------------------------------
(* Properties. *)

\* Nothing is on its way between the control and an output, or to the control
\* from its database.
AtRest(o) ==
    /\ control /\ state # None
    /\ up[o] = <<>> /\ down[o] = <<>>
    /\ Load \notin ToSet(db)

\* A screen with nothing on its way shows what the control shows, however
\* often either was closed, opened and reloaded (session.rs: every output is a
\* pure function of what it last received; transport.rs: receive).
ScreensFollow ==
    \A o \in Outputs : Open(o) /\ AtRest(o) => shown[o] = state

\* What the operator's list says is true once the messages are read: the
\* revision beside an output is the one it shows (transport.rs: Ack and Hello,
\* which starts an output over), and a page that said Bye is not on the list, no
\* answer that it posted before brings it back (Bye).
OperatorSeesAcks ==
    \A o \in DOMAIN listed :
        /\ Open(o) /\ AtRest(o) => listed[o].acked = Acked(o)
        /\ win[o] = "left" => Bye \in ToSet(up[o])

\* At most one output may advance the session, whatever is repeated, replayed
\* or reconnected (transport.rs: grant_advance, Hello, Ack).
OneGrant ==
    \A o, p \in DOMAIN listed :
        listed[o].can_advance /\ listed[p].can_advance => o = p

\* A session that was ended is never live again, although its control can be
\* reopened and its row is deleted after its last save (store.rs: end).
NoEncore == [][last # None /\ last.ended => last'.ended]_vars

\* A state that is on its way is never older than the one its screen holds,
\* so nothing that is sent is ignored, the end of the session least of all
\* (transport.rs: receive; control.rs: finish).
NothingIsIgnored ==
    \A o \in Outputs : \A s \in ToSet(down[o]) : Newer(o, s)
-----------------------------------------------------------------------------
(* The inductive invariant. *)

Requests == {Put(s) : s \in State} \cup {PutEnded(s) : s \in State}
              \cup {Delete, Load, Unheard}

Messages == {Hello, RequestState, Bye}
              \cup {Ack(r) : r \in Nat} \cup {Advance(d) : d \in {-1, 1}}

Lines == [acked : Nat, can_advance : BOOLEAN]

PresentationTypeOK ==
    /\ control \in BOOLEAN
    /\ state \in State \cup {None}
    /\ held \in State \cup {None}
    /\ DOMAIN listed \subseteq Outputs
    /\ \A o \in DOMAIN listed : listed[o] \in Lines
    /\ db \in Seq(Requests)
    /\ mirror \in State \cup {None}
    /\ win \in [Outputs -> {"new", "open", "left", "gone"}]
    /\ shown \in [Outputs -> State \cup {None}]
    /\ applied \in [Outputs -> Nat \cup {None}]
    /\ reading \in [Outputs -> BOOLEAN]
    /\ up \in [Outputs -> Seq(Messages)]
    /\ down \in [Outputs -> Seq(State)]
    /\ opens \in Nat
    /\ last \in State \cup {None}

\* The newest state there is: what a control broadcast last, or the state the
\* session was created with.
Newest == IF last = None THEN Created ELSE last

\* The control and its transport hold the newest state; a page that is not
\* there holds nothing, and nobody reaches it.  A load is asked for once, by
\* the page that is there and has no state yet.
OneState ==
    /\ held = state
    /\ state # None => control /\ state = last
    /\ ~control => DOMAIN listed = {} /\ \A o \in Outputs : up[o] = <<>>
    /\ \A i \in 1..Len(db) : db[i] = Load => control /\ state = None
    /\ \A i, j \in 1..Len(db) : db[i] = Load /\ db[j] = Load => i = j

Writes == {i \in 1..Len(db) : db[i].op \in {"put", "end"}}

\* What will be in the mirror is the newest state, or nothing after an end;
\* a load is answered when that is so.
Saved ==
    /\ \A i \in Writes :
         (\A j \in Writes : j <= i) => db[i].state = Newest
    /\ Writes = {} => mirror \in {None, Newest}
    /\ \A i \in 1..Len(db) : db[i] = Load => \A j \in Writes : j < i

\* An output that was not opened has nothing.
Untouched(o) ==
    win[o] = "new" =>
        /\ shown[o] = None /\ applied[o] = None
        /\ up[o] = <<>> /\ down[o] = <<>>
        /\ o \notin DOMAIN listed

\* The states on a wire are in order, not older than what the screen applied
\* and not newer than the newest.
InOrder(o) ==
    /\ \A i, j \in 1..Len(down[o]) :
         i <= j => down[o][i].revision <= down[o][j].revision
    /\ \A i \in 1..Len(down[o]) :
         /\ down[o][i].revision <= Newest.revision
         /\ applied[o] # None => applied[o] <= down[o][i].revision
    /\ applied[o] # None => applied[o] <= Newest.revision

Asks(o) == \E i \in 1..Len(up[o]) : up[o][i].type \in {"hello", "request-state"}

\* An open screen has the state of the control, or it is the last that is on
\* its way to it, or the screen has still to be heard asking for it.
Served(o) ==
    Open(o) /\ state # None =>
        \/ Asks(o)
        \/ /\ down[o] # <<>>
           /\ down[o][Len(down[o])] = state
        \/ /\ down[o] = <<>>
           /\ shown[o] = state

Reports(o) == {i \in 1..Len(up[o]) : up[o][i].type \in {"hello", "ack"}}
Reported(m) == IF m.type = "hello" THEN 0 ELSE m.revision

\* The last report of a screen that is on its way, or the line on the list
\* when none is, has the revision that the screen applied.
Accounted(o) ==
    Open(o) /\ control =>
        /\ \A i \in Reports(o) :
             (\A j \in Reports(o) : j <= i) => Reported(up[o][i]) = Acked(o)
        /\ Reports(o) = {} /\ o \in DOMAIN listed =>
             listed[o].acked = Acked(o)

\* Nothing follows a Bye.
SaidBye(o) ==
    win[o] = "left" =>
        /\ up[o] # <<>> => up[o][Len(up[o])] = Bye
        /\ o \in DOMAIN listed => up[o] # <<>>

\* What holds whatever becomes of the writes of a window that closes.
ListInv ==
    /\ PresentationTypeOK
    /\ OneState
    /\ \A o \in Outputs : Untouched(o) /\ Accounted(o) /\ SaidBye(o)

\* What holds when they are finished.
ScreenInv ==
    /\ Saved
    /\ \A o \in Outputs : InOrder(o) /\ Served(o)

=============================================================================
