------------------------- MODULE PresentationProofs -------------------------
(***************************************************************************)
(* Theorems about a live session, for any screens and any bounds.          *)
(***************************************************************************)
EXTENDS Presentation, TLAPS

\* A line that is put on the list never carries a grant its output had not.
LEMMA ListKeepsGrants ==
    ASSUME OneGrant, NEW o, NEW r, NEW allowed,
           List(o, r, allowed), allowed => CanAdvance(o)
    PROVE  OneGrant'
<1>1. \A x \in DOMAIN listed' :
        listed'[x].can_advance => x \in DOMAIN listed /\ listed[x].can_advance
  BY DEF List, Status, CanAdvance
<1> QED BY <1>1 DEF OneGrant

\* A Bye takes its output off the list and leaves the other lines.
LEMMA ForgetKeepsGrants ==
    ASSUME OneGrant, NEW o, Forget(o)
    PROVE  OneGrant'
BY DEF OneGrant, Forget, Restrict

\* At most one output may ever advance the session: a grant takes the others
\* away, and no message, reconnection or reload gives one.
THEOREM GrantIsExclusive == Spec => []OneGrant
<1>1. Init => OneGrant
  BY DEF Init, OneGrant
<1>2. OneGrant /\ [Next]_vars => OneGrant'
  <2> SUFFICES ASSUME OneGrant, [Next]_vars PROVE OneGrant'
    OBVIOUS
  <2>1. CASE OpenControl
    BY <2>1 DEF OpenControl, OneGrant
  <2>2. CASE Operate
    BY <2>2 DEF Operate, OneGrant
  <2>3. CASE Finish
    BY <2>3 DEF Finish, ShutDown, OneGrant
  <2>4. CASE CloseControl
    BY <2>4 DEF CloseControl, ShutDown, OneGrant
  <2>5. CASE Commit
    BY <2>5 DEF Commit, OneGrant
  <2>6. ASSUME NEW o \in Outputs, NEW allowed \in BOOLEAN,
               GrantAdvance(o, allowed)
        PROVE  OneGrant'
    BY <2>6 DEF GrantAdvance, Status, OneGrant
  <2>7. ASSUME NEW o \in Outputs, Receive(o)
        PROVE  OneGrant'
    <3>1. \/ List(o, 0, FALSE)
          \/ List(o, Head(up[o]).revision, CanAdvance(o))
          \/ Forget(o)
          \/ UNCHANGED listed
      BY <2>7 DEF Receive
    <3>2. CASE List(o, 0, FALSE)
      BY <3>2, ListKeepsGrants
    <3>3. CASE List(o, Head(up[o]).revision, CanAdvance(o))
      BY <3>3, ListKeepsGrants
    <3>4. CASE Forget(o)
      BY <3>4, ForgetKeepsGrants
    <3>5. CASE UNCHANGED listed
      BY <3>5 DEF OneGrant
    <3> QED BY <3>1, <3>2, <3>3, <3>4, <3>5
  <2>8. ASSUME NEW o \in Outputs, AttachPeer(o)
        PROVE  OneGrant'
    <3>1. List(o, 0, FALSE)
      BY <2>8 DEF AttachPeer
    <3> QED BY <3>1, ListKeepsGrants
  <2>9. ASSUME NEW o \in Outputs,
               \/ OpenWindow(o) \/ Paint(o) \/ Deliver(o) \/ Heartbeat(o)
               \/ \E delta \in {-1, 1} : RequestAdvance(o, delta)
               \/ LeavePage(o) \/ Vanish(o)
        PROVE  OneGrant'
    BY <2>9 DEF OpenWindow, Paint, Deliver, Heartbeat, RequestAdvance,
                LeavePage, Vanish, OneGrant
  <2>10. CASE UNCHANGED vars
    BY <2>10 DEF vars, OneGrant
  <2> QED BY <2>1, <2>2, <2>3, <2>4, <2>5, <2>6, <2>7, <2>8, <2>9, <2>10 DEF Next
<1> QED BY <1>1, <1>2, PTL DEF Spec
-----------------------------------------------------------------------------
(* The operators a session is built from. *)

\* Whatever the operator does makes a state that is not older, and a session
\* that was ended stays so.
LEMMA StateFacts ==
    ASSUME NEW s \in State
    PROVE  /\ Revised(s) \in State /\ Ended(s) \in State
           /\ Revised(s).revision = s.revision + 1
           /\ Revised(s).ended = s.ended
           /\ Ended(s).revision = s.revision + 1
           /\ Ended(s).ended
           /\ s.revision \in Nat /\ s.index \in 0..LastIndex
           /\ s # None
<1>1. /\ s.index \in 0..LastIndex /\ s.revision \in Nat /\ s.ended \in BOOLEAN
      /\ s = [index |-> s.index, revision |-> s.revision, ended |-> s.ended]
  BY DEF State
<1>2. Revised(s) = [index |-> s.index, revision |-> s.revision + 1, ended |-> s.ended]
  BY <1>1 DEF Revised
<1>3. Revised(s) \in State
  BY <1>1, <1>2 DEF State
<1>4. /\ Ended(s) \in State /\ Ended(s).ended
      /\ Ended(s).revision = Revised(s).revision
  BY <1>3 DEF State, Ended
<1> QED BY <1>1, <1>2, <1>3, <1>4, NoneAssumption

LEMMA CreatedType == Created \in State
<1>1. 0 \in 0..LastIndex
  BY PresentationAssumption
<1> QED BY <1>1 DEF State, Created

LEMMA JumpedFacts ==
    ASSUME NEW s \in State, NEW i \in Int
    PROVE  /\ Jumped(s, i) \in State
           /\ Jumped(s, i).revision = s.revision + 1
           /\ Jumped(s, i).ended = s.ended
<1>1. Clamp(i) \in 0..LastIndex
  BY PresentationAssumption DEF Clamp
<1>2. Revised(s) \in State
  BY StateFacts
<1> QED BY <1>1, <1>2, StateFacts DEF State, Jumped

LEMMA AdvancedFacts ==
    ASSUME NEW s \in State, NEW d \in {-1, 1}
    PROVE  /\ Advanced(s, d) \in State
           /\ Advanced(s, d).revision >= s.revision
           /\ Advanced(s, d).ended = s.ended
<1>1. s.index + d \in Int /\ s.revision \in Nat
  BY PresentationAssumption DEF State
<1>2. Advanced(s, d) \in {s, Jumped(s, s.index + d)}
  BY DEF Advanced
<1>3. s.revision + 1 >= s.revision /\ s.revision >= s.revision
  BY <1>1
<1>4. CASE Advanced(s, d) = s
  BY <1>3, <1>4
<1>5. CASE Advanced(s, d) = Jumped(s, s.index + d)
  <2>1. /\ Jumped(s, s.index + d) \in State
        /\ Jumped(s, s.index + d).revision = s.revision + 1
        /\ Jumped(s, s.index + d).ended = s.ended
    BY <1>1, JumpedFacts
  <2> QED BY <1>3, <1>5, <2>1
<1> QED BY <1>2, <1>4, <1>5

\* What the operator may do, with the control's checkboxes and keys.
LEMMA OperateFacts ==
    ASSUME Operate, state \in State \cup {None}
    PROVE  /\ control /\ state \in State
           /\ \E next \in State :
                /\ next.revision >= state.revision
                /\ next.ended = state.ended
                /\ Apply(next)
           /\ UNCHANGED <<control, listed, mirror, screenVars, up, opens>>
<1>1. control /\ state \in State
  BY DEF Operate
<1>2. state.revision \in Nat
  BY <1>1, StateFacts
<1>3. CASE \E d \in {-1, 1} : Apply(Advanced(state, d))
  BY <1>1, <1>3, AdvancedFacts DEF Operate
<1>4. CASE \E i \in 0..LastIndex : Apply(Jumped(state, i))
  <2>1. PICK i \in 0..LastIndex : Apply(Jumped(state, i))
    BY <1>4
  <2>2. i \in Int
    BY PresentationAssumption
  <2> QED BY <1>1, <1>2, <2>1, <2>2, JumpedFacts DEF Operate
<1>5. CASE Apply(Revised(state))
  <2>1. /\ Revised(state) \in State /\ Revised(state).revision = state.revision + 1
        /\ Revised(state).ended = state.ended
    BY <1>1, StateFacts
  <2>2. Revised(state).revision >= state.revision
    BY <1>2, <2>1
  <2> QED BY <1>1, <1>5, <2>1, <2>2 DEF Operate
<1> QED BY <1>3, <1>4, <1>5 DEF Operate

LEMMA RequestFacts ==
    ASSUME NEW r \in Requests
    PROVE  /\ r.op \in {"put", "end", "delete", "load", "unheard"}
           /\ r.op \in {"put", "end"} => r.state \in State
           /\ r.op = "load" <=> r = Load
BY DEF Requests, Put, PutEnded, Delete, Load, Unheard

LEMMA RequestTypes ==
    /\ Delete \in Requests /\ Load \in Requests /\ Unheard \in Requests
    /\ \A s \in State : Put(s) \in Requests /\ PutEnded(s) \in Requests
BY DEF Requests

LEMMA MessageFacts ==
    ASSUME NEW m \in Messages
    PROVE  /\ m.type \in {"hello", "request-state", "ack", "advance", "bye"}
           /\ m.type = "ack" => m.revision \in Nat
           /\ m.type = "advance" => m.delta \in {-1, 1}
           /\ m.type = "bye" <=> m = Bye
BY DEF Messages, Hello, RequestState, Ack, Advance, Bye

LEMMA MessageTypes ==
    /\ Hello \in Messages /\ RequestState \in Messages /\ Bye \in Messages
    /\ \A r \in Nat : Ack(r) \in Messages
    /\ \A d \in {-1, 1} : Advance(d) \in Messages
BY DEF Messages

\* A broadcast reaches the outputs that are open, behind what is on its way.
LEMMA BroadcastFacts ==
    ASSUME down \in [Outputs -> Seq(State)], NEW s \in State, Broadcast(s)
    PROVE  /\ held' = s /\ last' = s
           /\ down' \in [Outputs -> Seq(State)]
           /\ \A o \in Outputs :
                down'[o] = IF Open(o) THEN Append(down[o], s) ELSE down[o]
BY DEF Broadcast

\* What was on the list before is there with another revision.
LEMMA ListFacts ==
    ASSUME PresentationTypeOK,
           NEW o \in Outputs, NEW r \in Nat, NEW allowed \in BOOLEAN,
           List(o, r, allowed)
    PROVE  /\ DOMAIN listed' = DOMAIN listed \cup {o}
           /\ \A x \in DOMAIN listed' : listed'[x] \in Lines
           /\ listed'[o].acked = r
           /\ \A x \in DOMAIN listed \ {o} : listed'[x] = listed[x]
BY DEF List, Status, Lines, PresentationTypeOK

LEMMA ForgetFacts ==
    ASSUME NEW o, Forget(o)
    PROVE  /\ DOMAIN listed' = DOMAIN listed \ {o}
           /\ \A x \in DOMAIN listed \ {o} : listed'[x] = listed[x]
BY DEF Forget, Restrict

LEMMA CanAdvanceType ==
    ASSUME PresentationTypeOK, NEW o
    PROVE  CanAdvance(o) \in BOOLEAN
BY DEF CanAdvance, PresentationTypeOK, Lines

\* What an output posts comes last.
LEMMA PostFacts ==
    ASSUME PresentationTypeOK, NEW o \in Outputs, NEW m \in Messages,
           Post(o, <<m>>)
    PROVE  /\ up' \in [Outputs -> Seq(Messages)]
           /\ ~control => up' = up
           /\ \A x \in Outputs \ {o} : up'[x] = up[x]
           /\ control => up'[o] = Append(up[o], m)
<1>1. up[o] \in Seq(Messages) /\ up \in [Outputs -> Seq(Messages)]
  BY DEF PresentationTypeOK
<1>2. up[o] \o <<m>> = Append(up[o], m) /\ up[o] \o <<m>> \in Seq(Messages)
  BY <1>1
<1> QED BY <1>1, <1>2 DEF Post

LEMMA AckedType ==
    ASSUME PresentationTypeOK, NEW o \in Outputs
    PROVE  Acked(o) \in Nat
BY DEF Acked, PresentationTypeOK

\* A queue without its first element.
LEMMA TailFacts ==
    ASSUME NEW S, NEW q \in Seq(S), q # <<>>
    PROVE  /\ Len(q) \in Nat /\ Len(q) >= 1 /\ 1 \in 1..Len(q)
           /\ Head(q) = q[1] /\ q[1] \in S
           /\ Tail(q) \in Seq(S) /\ Len(Tail(q)) = Len(q) - 1
           /\ \A i \in 1..Len(Tail(q)) : Tail(q)[i] = q[i + 1] /\ i + 1 \in 1..Len(q)
           /\ Tail(q) = <<>> <=> Len(q) = 1
           /\ Tail(q) # <<>> =>
                /\ Len(Tail(q)) \in 1..Len(Tail(q))
                /\ Tail(q)[Len(Tail(q))] = q[Len(q)]
<1>1. /\ Len(q) \in Nat /\ Len(q) >= 1
      /\ Head(q) = q[1] /\ q[1] \in S
      /\ Tail(q) \in Seq(S) /\ Len(Tail(q)) = Len(q) - 1
  OBVIOUS
<1>2. 1 \in 1..Len(q)
  BY <1>1
<1>3. \A i \in 1..Len(Tail(q)) : Tail(q)[i] = q[i + 1] /\ i + 1 \in 1..Len(q)
  BY <1>1
<1>4. Tail(q) = <<>> <=> Len(Tail(q)) = 0
  <2>1. \A t \in Seq(S) : t = <<>> <=> Len(t) = 0
    OBVIOUS
  <2> QED BY <1>1, <2>1
<1>5. Tail(q) = <<>> <=> Len(q) = 1
  BY <1>1, <1>4
<1>6. ASSUME Tail(q) # <<>>
      PROVE  /\ Len(Tail(q)) \in 1..Len(Tail(q))
             /\ Tail(q)[Len(Tail(q))] = q[Len(q)]
  <2>1. Len(Tail(q)) \in 1..Len(Tail(q)) /\ Len(Tail(q)) + 1 = Len(q)
    BY <1>1, <1>5, <1>6
  <2> QED BY <1>3, <2>1
<1> QED BY <1>1, <1>2, <1>3, <1>5, <1>6

\* A queue with one more element.
LEMMA AppendFacts ==
    ASSUME NEW S, NEW q \in Seq(S), NEW e \in S
    PROVE  /\ Append(q, e) \in Seq(S) /\ Append(q, e) # <<>>
           /\ Len(Append(q, e)) = Len(q) + 1 /\ Len(q) \in Nat
           /\ \A i \in 1..Len(q) : Append(q, e)[i] = q[i]
           /\ Append(q, e)[Len(q) + 1] = e
OBVIOUS

-----------------------------------------------------------------------------
(* Types. *)

LEMMA InitTypes == Init => PresentationTypeOK
<1> SUFFICES ASSUME Init PROVE PresentationTypeOK
  OBVIOUS
<1>1. Created \in State
  BY CreatedType
<1>2. up \in [Outputs -> Seq(Messages)] /\ down \in [Outputs -> Seq(State)]
  BY DEF Init, Empty
<1>3. db \in Seq(Requests)
  BY DEF Init
<1>4. DOMAIN listed = {}
  BY DEF Init
<1> QED BY <1>1, <1>2, <1>3, <1>4 DEF Init, PresentationTypeOK

LEMMA ShutDownTypes ==
    ASSUME PresentationTypeOK, ShutDown
    PROVE  /\ control' \in BOOLEAN /\ state' \in State \cup {None}
           /\ DOMAIN listed' \subseteq Outputs
           /\ \A o \in DOMAIN listed' : listed'[o] \in Lines
           /\ win' \in [Outputs -> {"new", "open", "left", "gone"}]
           /\ shown' \in [Outputs -> State \cup {None}]
           /\ applied' \in [Outputs -> Nat \cup {None}]
           /\ reading' \in [Outputs -> BOOLEAN]
           /\ up' \in [Outputs -> Seq(Messages)]
           /\ opens' \in Nat
<1>1. DOMAIN listed' = {}
  BY DEF ShutDown
<1>2. up' \in [Outputs -> Seq(Messages)]
  BY DEF ShutDown, Empty
<1>3. /\ win' \in [Outputs -> {"new", "open", "left", "gone"}]
      /\ shown' \in [Outputs -> State \cup {None}]
      /\ applied' \in [Outputs -> Nat \cup {None}]
  BY DEF ShutDown, PresentationTypeOK
<1> QED BY <1>1, <1>2, <1>3 DEF ShutDown, PresentationTypeOK

LEMMA PageTypes ==
    ASSUME PresentationTypeOK, OpenControl \/ Operate \/ Finish \/ CloseControl
    PROVE  PresentationTypeOK'
<1> USE RequestTypes
<1>1. CASE OpenControl
  BY <1>1 DEF OpenControl, PresentationTypeOK, screenVars
<1>2. CASE Operate
  <2>1. PICK next \in State : Apply(next)
    BY <1>2, OperateFacts DEF PresentationTypeOK
  <2>2. held' \in State /\ last' \in State /\ down' \in [Outputs -> Seq(State)]
    BY <2>1, BroadcastFacts DEF Apply, PresentationTypeOK
  <2>3. state' \in State /\ db' \in Seq(Requests)
    BY <2>1 DEF Apply, PresentationTypeOK
  <2> QED
    BY <1>2, <2>2, <2>3, OperateFacts DEF PresentationTypeOK, screenVars
<1>3. CASE Finish
  <2>1. ShutDown /\ Ended(state) \in State
    BY <1>3, StateFacts DEF Finish, PresentationTypeOK
  <2>2. held' = None /\ last' \in State /\ db' \in Seq(Requests) /\ mirror' = mirror
    BY <1>3, <2>1 DEF Finish, PresentationTypeOK
  <2>3. down' \in [Outputs -> Seq(State)]
    BY <1>3, <2>1 DEF Finish, PresentationTypeOK
  <2> QED BY <2>1, <2>2, <2>3, ShutDownTypes DEF PresentationTypeOK
<1>4. CASE CloseControl
  <2>1. ShutDown /\ held' = None /\ mirror' = mirror /\ last' = last
    BY <1>4 DEF CloseControl
  <2>2. PICK n \in 0..Len(db) :
          db' = [i \in 1..n |-> IF db[i] = Load THEN Unheard ELSE db[i]]
    BY <1>4 DEF CloseControl
  <2>3. db \in Seq(Requests) /\ Len(db) \in Nat /\ n \in Nat
    BY DEF PresentationTypeOK
  <2>4. \A i \in 1..n : (IF db[i] = Load THEN Unheard ELSE db[i]) \in Requests
    BY <2>3
  <2>5. db' \in Seq(Requests)
    BY <2>2, <2>3, <2>4
  <2>6. down' \in [Outputs -> Seq(State)]
    BY <1>4 DEF CloseControl, PresentationTypeOK
  <2> QED BY <2>1, <2>5, <2>6, ShutDownTypes DEF PresentationTypeOK
<1> QED BY <1>1, <1>2, <1>3, <1>4

\* What the database makes of its oldest request.
LEMMA CommitTypes ==
    ASSUME PresentationTypeOK, Commit
    PROVE  PresentationTypeOK'
<1>1. db \in Seq(Requests) /\ db # <<>>
  BY DEF Commit, PresentationTypeOK
<1>2. Head(db) \in Requests /\ Tail(db) \in Seq(Requests)
  BY <1>1
<1>3. db' \in Seq(Requests)
  BY <1>2, RequestTypes DEF Commit
<1>4. mirror' \in State \cup {None}
  BY <1>2, RequestFacts DEF Commit, PresentationTypeOK
<1>5. /\ state' \in State \cup {None} /\ held' \in State \cup {None}
      /\ last' \in State \cup {None} /\ down' \in [Outputs -> Seq(State)]
  <2>1. CASE UNCHANGED <<state, held, last, down>>
    BY <2>1 DEF PresentationTypeOK
  <2>2. CASE mirror # None /\ state' = mirror /\ Broadcast(mirror)
    BY <2>2, BroadcastFacts DEF PresentationTypeOK
  <2> QED BY <2>1, <2>2 DEF Commit
<1> QED
  BY <1>3, <1>4, <1>5 DEF Commit, PresentationTypeOK, screenVars

LEMMA RepeatTypes ==
    ASSUME PresentationTypeOK, Repeat
    PROVE  /\ held' \in State \cup {None} /\ last' \in State \cup {None}
           /\ down' \in [Outputs -> Seq(State)]
BY BroadcastFacts DEF Repeat, PresentationTypeOK

LEMMA ReceiveTypes ==
    ASSUME PresentationTypeOK, NEW o \in Outputs, Receive(o)
    PROVE  PresentationTypeOK'
<1> DEFINE m == Head(up[o])
<1>1. up \in [Outputs -> Seq(Messages)] /\ up[o] # <<>>
  BY DEF Receive, PresentationTypeOK
<1>2. m \in Messages /\ Tail(up[o]) \in Seq(Messages)
  BY <1>1
<1>3. up' \in [Outputs -> Seq(Messages)]
  BY <1>1, <1>2 DEF Receive
<1>4. UNCHANGED <<control, mirror, screenVars, opens>>
  BY DEF Receive
<1> DEFINE ListOK == /\ DOMAIN listed' \subseteq Outputs
                     /\ \A x \in DOMAIN listed' : listed'[x] \in Lines
           SentOK == /\ held' \in State \cup {None} /\ last' \in State \cup {None}
                     /\ down' \in [Outputs -> Seq(State)]
           HereOK == state' \in State \cup {None} /\ db' \in Seq(Requests)
<1> HIDE DEF m
<1>5. CASE m.type \in {"hello", "request-state"}
  <2>1. ListOK
    <3>1. List(o, 0, FALSE) \/ UNCHANGED listed
      BY <1>5 DEF Receive, m
    <3> QED BY <3>1, ListFacts DEF PresentationTypeOK
  <2>2. Repeat /\ UNCHANGED <<state, db>>
    BY <1>5 DEF Receive, m
  <2> QED
    BY <1>3, <1>4, <2>1, <2>2, RepeatTypes DEF PresentationTypeOK, screenVars
<1>6. CASE m.type = "ack"
  <2>1. List(o, m.revision, CanAdvance(o)) /\ UNCHANGED <<state, held, last, down, db>>
    BY <1>6 DEF Receive, m
  <2>2. ListOK
    <3>1. m.revision \in Nat /\ CanAdvance(o) \in BOOLEAN
      BY <1>2, <1>6, MessageFacts, CanAdvanceType
    <3>2. /\ DOMAIN listed' = DOMAIN listed \cup {o}
          /\ \A x \in DOMAIN listed' : listed'[x] \in Lines
      BY <2>1, <3>1, ListFacts
    <3> QED BY <3>2 DEF PresentationTypeOK
  <2> QED BY <1>3, <1>4, <2>1, <2>2 DEF PresentationTypeOK, screenVars
<1>7. CASE m.type = "advance"
  <2>1. CASE state # None /\ Apply(Advanced(state, m.delta)) /\ UNCHANGED listed
    <3>1. state \in State /\ m.delta \in {-1, 1}
      BY <1>2, <1>7, <2>1, MessageFacts DEF PresentationTypeOK
    <3>2. Advanced(state, m.delta) \in State
      BY <3>1, AdvancedFacts
    <3>3. SentOK
      BY <2>1, <3>2, BroadcastFacts DEF Apply, PresentationTypeOK
    <3>4. HereOK
      BY <2>1, <3>2, RequestTypes DEF Apply, PresentationTypeOK
    <3> QED BY <1>3, <1>4, <2>1, <3>3, <3>4 DEF PresentationTypeOK, screenVars
  <2>2. CASE UNCHANGED <<state, held, last, down, db, listed>>
    BY <1>3, <1>4, <2>2 DEF PresentationTypeOK, screenVars
  <2> QED BY <1>7, <2>1, <2>2 DEF Receive, m
<1>8. CASE m.type = "bye"
  <2>1. Forget(o) /\ UNCHANGED <<state, held, last, down, db>>
    BY <1>8 DEF Receive, m
  <2>2. ListOK
    BY <2>1, ForgetFacts DEF PresentationTypeOK
  <2> QED BY <1>3, <1>4, <2>1, <2>2 DEF PresentationTypeOK, screenVars
<1> QED BY <1>2, <1>5, <1>6, <1>7, <1>8, MessageFacts

LEMMA GrantTypes ==
    ASSUME PresentationTypeOK, NEW o \in Outputs, NEW allowed \in BOOLEAN,
           GrantAdvance(o, allowed)
    PROVE  PresentationTypeOK'
<1>1. /\ DOMAIN listed' = DOMAIN listed
      /\ \A x \in DOMAIN listed' : listed'[x] \in Lines
  BY DEF GrantAdvance, Status, Lines, PresentationTypeOK
<1> QED BY <1>1 DEF GrantAdvance, PresentationTypeOK, screenVars

LEMMA AttachTypes ==
    ASSUME PresentationTypeOK, NEW o \in Outputs, AttachPeer(o)
    PROVE  PresentationTypeOK'
<1>1. /\ DOMAIN listed' \subseteq Outputs
      /\ \A x \in DOMAIN listed' : listed'[x] \in Lines
  BY ListFacts DEF AttachPeer, PresentationTypeOK
<1>2. down' \in [Outputs -> Seq(State)]
  <2>1. CASE held = None
    BY <2>1 DEF AttachPeer, PresentationTypeOK
  <2>2. CASE held # None
    <3>1. held \in State /\ <<held, held>> \in Seq(State)
      BY <2>2 DEF PresentationTypeOK
    <3>2. \A x \in Outputs : Append(down[x], held) \in Seq(State) /\ down[x] \in Seq(State)
      BY <3>1 DEF PresentationTypeOK
    <3> QED BY <2>2, <3>1, <3>2 DEF AttachPeer
  <2> QED BY <2>1, <2>2
<1> QED BY <1>1, <1>2 DEF AttachPeer, PresentationTypeOK

LEMMA BlackenTypes ==
    ASSUME PresentationTypeOK, NEW o \in Outputs,
           NEW how \in {"left", "gone"}, Blacken(o, how)
    PROVE  /\ win' \in [Outputs -> {"new", "open", "left", "gone"}]
           /\ shown' \in [Outputs -> State \cup {None}]
           /\ applied' \in [Outputs -> Nat \cup {None}]
           /\ reading' \in [Outputs -> BOOLEAN]
           /\ down' \in [Outputs -> Seq(State)]
BY DEF Blacken, PresentationTypeOK

\* The screens change nothing of the control but what is on its way to it.
LEMMA ScreenTypes ==
    ASSUME PresentationTypeOK, NEW o \in Outputs,
           \/ OpenWindow(o) \/ Paint(o) \/ Deliver(o) \/ Heartbeat(o)
           \/ \E delta \in {-1, 1} : RequestAdvance(o, delta)
           \/ LeavePage(o) \/ Vanish(o)
    PROVE  PresentationTypeOK'
<1> USE MessageTypes
<1>1. CASE OpenWindow(o)
  <2>1. up[o] \o <<Hello, RequestState>> \in Seq(Messages)
    BY DEF PresentationTypeOK
  <2>2. up' \in [Outputs -> Seq(Messages)]
    BY <1>1, <2>1 DEF OpenWindow, Post, PresentationTypeOK
  <2>3. /\ win' \in [Outputs -> {"new", "open", "left", "gone"}]
        /\ reading' \in [Outputs -> BOOLEAN]
    BY <1>1 DEF OpenWindow, PresentationTypeOK
  <2> QED BY <1>1, <2>2, <2>3 DEF OpenWindow, PresentationTypeOK
<1>2. CASE Paint(o)
  BY <1>2 DEF Paint, PresentationTypeOK
<1>3. CASE Deliver(o)
  <2>1. down[o] \in Seq(State) /\ down[o] # <<>>
    BY <1>3 DEF Deliver, PresentationTypeOK
  <2>2. Head(down[o]) \in State /\ Tail(down[o]) \in Seq(State)
    BY <2>1
  <2>3. Head(down[o]).revision \in Nat
    BY <2>2, StateFacts
  <2>4. up' \in [Outputs -> Seq(Messages)]
    <3>1. Post(o, <<Ack(Head(down[o]).revision)>>) \/ up' = up
      BY <1>3 DEF Deliver, Reply
    <3> QED BY <2>3, <3>1, PostFacts DEF PresentationTypeOK
  <2>5. down' \in [Outputs -> Seq(State)]
    BY <1>3, <2>2 DEF Deliver, PresentationTypeOK
  <2>6. /\ applied' \in [Outputs -> Nat \cup {None}]
        /\ shown' \in [Outputs -> State \cup {None}]
    BY <1>3, <2>2, <2>3 DEF Deliver, PresentationTypeOK
  <2> QED BY <1>3, <2>4, <2>5, <2>6 DEF Deliver, PresentationTypeOK
<1>4. CASE Heartbeat(o)
  <2>1. up' \in [Outputs -> Seq(Messages)]
    BY <1>4, AckedType, PostFacts DEF Heartbeat
  <2> QED BY <1>4, <2>1 DEF Heartbeat, PresentationTypeOK, screenVars
<1>5. CASE \E delta \in {-1, 1} : RequestAdvance(o, delta)
  <2>1. up' \in [Outputs -> Seq(Messages)]
    BY <1>5, PostFacts DEF RequestAdvance
  <2> QED BY <1>5, <2>1 DEF RequestAdvance, PresentationTypeOK, screenVars
<1>6. CASE LeavePage(o)
  <2>1. up' \in [Outputs -> Seq(Messages)]
    BY <1>6, PostFacts DEF LeavePage
  <2>2. Blacken(o, "left")
    BY <1>6 DEF LeavePage
  <2> QED BY <1>6, <2>1, <2>2, BlackenTypes DEF LeavePage, PresentationTypeOK
<1>7. CASE Vanish(o)
  <2>1. up' \in [Outputs -> Seq(Messages)]
    BY <1>7 DEF Vanish, PresentationTypeOK
  <2>2. Blacken(o, "gone")
    BY <1>7 DEF Vanish
  <2> QED BY <1>7, <2>1, <2>2, BlackenTypes DEF Vanish, PresentationTypeOK
<1> QED BY <1>1, <1>2, <1>3, <1>4, <1>5, <1>6, <1>7

LEMMA NextTypes == PresentationTypeOK /\ [Next]_vars => PresentationTypeOK'
<1> SUFFICES ASSUME PresentationTypeOK, [Next]_vars PROVE PresentationTypeOK'
  OBVIOUS
<1>1. CASE UNCHANGED vars
  BY <1>1 DEF vars, screenVars, PresentationTypeOK
<1> QED
  BY <1>1, PageTypes, CommitTypes, ReceiveTypes, GrantTypes, AttachTypes,
     ScreenTypes DEF Next

-----------------------------------------------------------------------------
(* The operator's list. *)

Told(o) == Untouched(o) /\ Accounted(o) /\ SaidBye(o)

\* What an output said stays true while its line, its screen and what it sent
\* are left alone; more may be on its way to a screen that is open.
LEMMA Undisturbed ==
    ASSUME NEW o, Told(o), control' = control,
           win'[o] = win[o], applied'[o] = applied[o], up'[o] = up[o],
           Open(o) \/ (shown'[o] = shown[o] /\ down'[o] = down[o]),
           o \in DOMAIN listed' <=> o \in DOMAIN listed,
           o \in DOMAIN listed => listed'[o].acked = listed[o].acked
    PROVE  Told(o)'
<1>1. Untouched(o)'
  BY DEF Told, Untouched, Open
<1>2. Acked(o)' = Acked(o) /\ Reports(o)' = Reports(o)
  BY DEF Acked, Reports
<1>3. Accounted(o)'
  BY <1>2 DEF Told, Accounted, Open
<1>4. SaidBye(o)'
  BY DEF Told, SaidBye
<1> QED BY <1>1, <1>3, <1>4 DEF Told

\* The control's own state is left alone when a screen acts.
LEMMA StillOne ==
    ASSUME OneState, UNCHANGED <<control, state, held, last, db, listed>>,
           ~control => \A o \in Outputs : up'[o] = <<>>
    PROVE  OneState'
BY DEF OneState

\* A page that goes takes the list and everything sent to it along.
LEMMA ShutDownTold ==
    ASSUME PresentationTypeOK, ShutDown, NEW o \in Outputs, Told(o),
           Open(o) \/ down'[o] \in {down[o], <<>>}
    PROVE  Told(o)'
<1>1. ~control' /\ DOMAIN listed' = {} /\ up'[o] = <<>>
  BY DEF ShutDown, Empty
<1>2. /\ win'[o] = IF o \in Paired /\ Open(o) THEN "gone" ELSE win[o]
      /\ shown'[o] \in {shown[o], None} /\ applied'[o] \in {applied[o], None}
  BY DEF ShutDown, PresentationTypeOK
<1>3. Untouched(o)'
  BY <1>1, <1>2 DEF Told, Untouched, Open
<1>4. Accounted(o)'
  BY <1>1 DEF Accounted
<1>5. SaidBye(o)'
  BY <1>1 DEF SaidBye
<1> QED BY <1>3, <1>4, <1>5 DEF Told

LEMMA ApplyOne ==
    ASSUME PresentationTypeOK, OneState, control, state # None,
           NEW next \in State, Apply(next), UNCHANGED <<control, listed>>
    PROVE  OneState'
<1>1. held' = next /\ last' = next /\ state' = next /\ db' = Append(db, Put(next))
  BY DEF Apply, Broadcast
<1>2. db \in Seq(Requests) /\ Put(next) \in Requests
  BY RequestTypes DEF PresentationTypeOK
<1>3. \A i \in 1..Len(db) : db[i] # Load
  BY DEF OneState
<1>4. Put(next) # Load
  BY DEF Put, Load
<1>5. \A i \in 1..Len(db') : db'[i] # Load
  BY <1>1, <1>2, <1>3, <1>4
<1> QED BY <1>1, <1>5 DEF OneState

\* What is broadcast leaves what every output said as it was.
LEMMA BroadcastTold ==
    ASSUME PresentationTypeOK, NEW s \in State, Broadcast(s),
           control' = control, UNCHANGED <<screenVars>>,
           NEW o \in Outputs, Told(o), up'[o] = up[o],
           o \in DOMAIN listed' <=> o \in DOMAIN listed,
           o \in DOMAIN listed => listed'[o].acked = listed[o].acked
    PROVE  Told(o)'
<1>1. Open(o) \/ down'[o] = down[o]
  BY BroadcastFacts DEF PresentationTypeOK
<1> QED BY <1>1, Undisturbed DEF screenVars

LEMMA ShutDownOne ==
    ASSUME ShutDown, held' = None,
           \A i \in 1..Len(db') : db'[i] # Load
    PROVE  OneState'
<1>1. ~control' /\ state' = None /\ DOMAIN listed' = {}
      /\ \A o \in Outputs : up'[o] = <<>>
  BY DEF ShutDown, Empty
<1> QED BY <1>1 DEF OneState

LEMMA PageList ==
    ASSUME ListInv, OpenControl \/ Operate \/ Finish \/ CloseControl
    PROVE  OneState' /\ \A o \in Outputs : Told(o)'
<1>0. /\ PresentationTypeOK /\ OneState /\ \A o \in Outputs : Told(o)
      /\ db \in Seq(Requests)
  BY DEF ListInv, Told, PresentationTypeOK
<1>1. CASE OpenControl
  <2>1. /\ ~control /\ control' /\ db' = Append(db, Load)
        /\ UNCHANGED <<state, held, listed, mirror, screenVars, up, down, last>>
    BY <1>1 DEF OpenControl
  <2>2. /\ state = None /\ DOMAIN listed = {} /\ \A o \in Outputs : up[o] = <<>>
        /\ \A i \in 1..Len(db) : db[i] # Load
    BY <1>0, <2>1 DEF OneState
  <2>3. \A i \in 1..Len(db') : db'[i] = Load => i = Len(db) + 1
    BY <1>0, <2>1, <2>2
  <2>4. OneState'
    BY <1>0, <2>1, <2>2, <2>3 DEF OneState
  <2>5. ASSUME NEW o \in Outputs PROVE Told(o)'
    <3>1. up'[o] = <<>> /\ o \notin DOMAIN listed' /\ Reports(o)' = {}
      BY <2>1, <2>2 DEF Reports
    <3> QED BY <1>0, <2>1, <3>1
          DEF Told, Untouched, Accounted, SaidBye, screenVars
  <2> QED BY <2>4, <2>5
<1>2. CASE Operate
  <2>1. PICK next \in State : Apply(next)
    BY <1>0, <1>2, OperateFacts DEF PresentationTypeOK
  <2>2. /\ control /\ state # None /\ Broadcast(next)
        /\ UNCHANGED <<control, listed, screenVars, up>>
    BY <1>2, <2>1 DEF Operate, Apply
  <2>3. OneState'
    BY <1>0, <2>1, <2>2, ApplyOne
  <2>4. ASSUME NEW o \in Outputs PROVE Told(o)'
    BY <1>0, <2>2, BroadcastTold
  <2> QED BY <2>3, <2>4
<1>3. CASE Finish
  <2>1. /\ ShutDown /\ held' = None /\ state # None
        /\ db' = Append(db, PutEnded(Ended(state)))
    BY <1>3 DEF Finish
  <2>2. \A i \in 1..Len(db) : db[i] # Load
    BY <1>0, <2>1 DEF OneState
  <2>3. PutEnded(Ended(state)) # Load
    BY DEF PutEnded, Load
  <2>4. \A i \in 1..Len(db') : db'[i] # Load
    BY <1>0, <2>1, <2>2, <2>3
  <2>5. ASSUME NEW o \in Outputs PROVE Told(o)'
    <3>1. Open(o) \/ down'[o] \in {down[o], <<>>}
      BY <1>3 DEF Finish
    <3> QED BY <1>0, <2>1, <3>1, ShutDownTold
  <2> QED BY <2>1, <2>4, <2>5, ShutDownOne
<1>4. CASE CloseControl
  <2>1. ShutDown /\ held' = None
    BY <1>4 DEF CloseControl
  <2>2. PICK n \in 0..Len(db) :
          db' = [i \in 1..n |-> IF db[i] = Load THEN Unheard ELSE db[i]]
    BY <1>4 DEF CloseControl
  <2>3. n \in Nat /\ Len(db') = n /\ Unheard # Load
    BY <1>0, <2>2 DEF Unheard, Load
  <2>4. \A i \in 1..Len(db') : db'[i] # Load
    BY <2>2, <2>3
  <2>5. ASSUME NEW o \in Outputs PROVE Told(o)'
    <3>1. Open(o) \/ down'[o] \in {down[o], <<>>}
      BY <1>4 DEF CloseControl
    <3> QED BY <1>0, <2>1, <3>1, ShutDownTold
  <2> QED BY <2>1, <2>4, <2>5, ShutDownOne
<1> QED BY <1>1, <1>2, <1>3, <1>4

LEMMA CommitList ==
    ASSUME ListInv, Commit
    PROVE  OneState' /\ \A o \in Outputs : Told(o)'
<1>0. /\ PresentationTypeOK /\ OneState /\ \A o \in Outputs : Told(o)
      /\ db \in Seq(Requests) /\ db # <<>>
      /\ UNCHANGED <<control, listed, screenVars, up>>
  BY DEF ListInv, Told, PresentationTypeOK, Commit
<1>1. /\ Tail(db) \in Seq(Requests) /\ Len(Tail(db)) = Len(db) - 1
      /\ Head(db) = db[1] /\ db[1] \in Requests
      /\ \A i \in 1..Len(Tail(db)) : Tail(db)[i] = db[i + 1]
      /\ Len(db) \in Nat \ {0}
  BY <1>0
\* What is left, with the delete behind it or not, has the loads it had.
<1>2. \A i \in 1..Len(db') : db'[i] = Load => i + 1 \in 1..Len(db) /\ db[i + 1] = Load
  <2>1. CASE db' = Tail(db)
    BY <1>1, <2>1
  <2>2. CASE db' = Append(Tail(db), Delete)
    BY <1>1, <2>2 DEF Delete, Load
  <2> QED BY <2>1, <2>2 DEF Commit
<1>3. \A i, j \in 1..Len(db') : db'[i] = Load /\ db'[j] = Load => i = j
  <2> SUFFICES ASSUME NEW i \in 1..Len(db'), NEW j \in 1..Len(db'),
                      db'[i] = Load, db'[j] = Load
               PROVE  i = j
    OBVIOUS
  <2>1. i + 1 = j + 1
    BY <1>0, <1>2 DEF OneState
  <2> QED BY <2>1
<1>4. CASE UNCHANGED <<state, held, last, down>>
  <2>1. OneState'
    BY <1>0, <1>2, <1>3, <1>4 DEF OneState
  <2>2. ASSUME NEW o \in Outputs PROVE Told(o)'
    BY <1>0, <1>4, Undisturbed DEF screenVars
  <2> QED BY <2>1, <2>2
<1>5. CASE /\ Head(db).op = "load" /\ mirror # None
           /\ state' = mirror /\ Broadcast(mirror)
  <2>1. db[1] = Load /\ mirror \in State
    BY <1>0, <1>1, <1>5, RequestFacts DEF PresentationTypeOK
  <2>2. control /\ \A i \in 1..Len(db') : db'[i] # Load
    <3>1. control
      BY <1>0, <1>1, <2>1 DEF OneState
    <3>2. ASSUME NEW i \in 1..Len(db'), db'[i] = Load PROVE FALSE
      <4>1. i + 1 = 1
        BY <1>0, <1>1, <1>2, <2>1, <3>2 DEF OneState
      <4> QED BY <4>1
    <3> QED BY <3>1, <3>2
  <2>3. held' = mirror /\ last' = mirror
    BY <1>5 DEF Broadcast
  <2>4. OneState'
    BY <1>0, <1>5, <2>2, <2>3 DEF OneState
  <2>5. ASSUME NEW o \in Outputs PROVE Told(o)'
    BY <1>0, <1>5, <2>1, BroadcastTold
  <2> QED BY <2>4, <2>5
<1> QED BY <1>4, <1>5 DEF Commit

\* The first thing an output sent is heard: its line says what a report said,
\* and is left alone by anything else but a Bye.
LEMMA Heard ==
    ASSUME PresentationTypeOK, NEW o \in Outputs, Told(o),
           up[o] # <<>>, up'[o] = Tail(up[o]), control' = control,
           win'[o] = win[o], applied'[o] = applied[o],
           Open(o) \/ (shown'[o] = shown[o] /\ down'[o] = down[o]),
           Head(up[o]) = Bye => o \notin DOMAIN listed',
           Head(up[o]).type \in {"hello", "ack"} =>
             listed'[o].acked = Reported(Head(up[o])),
           Head(up[o]).type \in {"request-state", "advance"} =>
             /\ o \in DOMAIN listed' <=> o \in DOMAIN listed
             /\ o \in DOMAIN listed => listed'[o].acked = listed[o].acked
    PROVE  Told(o)'
<1> DEFINE q == up[o]
<1>0. q \in Seq(Messages) /\ q # <<>>
  BY DEF PresentationTypeOK
<1>1. /\ Len(q) \in Nat /\ 1 \in 1..Len(q)
      /\ Head(q) = q[1] /\ q[1] \in Messages
      /\ Tail(q) \in Seq(Messages) /\ Len(Tail(q)) = Len(q) - 1
      /\ \A i \in 1..Len(Tail(q)) : Tail(q)[i] = q[i + 1] /\ i + 1 \in 1..Len(q)
      /\ Tail(q) = <<>> <=> Len(q) = 1
      /\ Tail(q) # <<>> => Tail(q)[Len(Tail(q))] = q[Len(q)]
  BY <1>0, TailFacts
<1>2. Untouched(o)'
  BY DEF Told, Untouched
<1>3. SaidBye(o)'
  <2> SUFFICES ASSUME win[o] = "left"
               PROVE  /\ up'[o] # <<>> => up'[o][Len(up'[o])] = Bye
                      /\ o \in DOMAIN listed' => up'[o] # <<>>
    BY DEF SaidBye
  <2>1. q[Len(q)] = Bye
    BY DEF Told, SaidBye
  <2>2. Tail(q) = <<>> => o \notin DOMAIN listed'
    BY <1>1, <2>1
  <2>3. Tail(q) # <<>> => Tail(q)[Len(Tail(q))] = Bye
    BY <1>1, <2>1
  <2> QED BY <2>2, <2>3
<1>4. Accounted(o)'
  <2> SUFFICES ASSUME Open(o), control
               PROVE  /\ \A i \in Reports(o)' : (\A j \in Reports(o)' : j <= i) =>
                           Reported(Tail(q)[i]) = Acked(o)
                      /\ Reports(o)' = {} /\ o \in DOMAIN listed' =>
                           listed'[o].acked = Acked(o)
    BY DEF Accounted, Open, Acked
  <2>1. Reports(o)' = {i \in 1..Len(Tail(q)) : Tail(q)[i].type \in {"hello", "ack"}}
    BY DEF Reports
  <2>2. \A i \in Reports(o)' : i \in Nat /\ i + 1 \in Reports(o) /\ Tail(q)[i] = q[i + 1]
    BY <1>1, <2>1 DEF Reports
  <2>3. \A j \in Reports(o) : j \in Nat /\ (j = 1 \/ j - 1 \in Reports(o)')
    <3> SUFFICES ASSUME NEW j \in Reports(o), j # 1
                 PROVE  j \in Nat /\ j - 1 \in Reports(o)'
      BY DEF Reports
    <3>1. j \in 1..Len(q) /\ q[j].type \in {"hello", "ack"}
      BY DEF Reports
    <3>2. j - 1 \in 1..Len(Tail(q)) /\ j \in Nat /\ (j - 1) + 1 = j
      BY <1>1, <3>1
    <3> QED BY <1>1, <2>1, <3>1, <3>2
  <2>4. ASSUME NEW i \in Reports(o)', \A j \in Reports(o)' : j <= i
        PROVE  Reported(Tail(q)[i]) = Acked(o)
    <3>1. i \in Nat /\ i + 1 \in Reports(o) /\ Tail(q)[i] = q[i + 1]
      BY <2>2
    <3>2. ASSUME NEW j \in Reports(o) PROVE j <= i + 1
      <4>1. CASE j = 1
        BY <3>1, <4>1
      <4>2. CASE j - 1 \in Reports(o)'
        <5>1. j \in Nat /\ j - 1 <= i
          BY <2>3, <2>4, <4>2
        <5> QED BY <3>1, <5>1
      <4> QED BY <2>3, <4>1, <4>2
    <3> QED BY <3>1, <3>2 DEF Told, Accounted
  <2>5. ASSUME Reports(o)' = {}, o \in DOMAIN listed'
        PROVE  listed'[o].acked = Acked(o)
    <3>1. CASE Head(q).type \in {"hello", "ack"}
      <4>1. 1 \in Reports(o) /\ \A j \in Reports(o) : j = 1
        <5>1. 1 \in Reports(o)
          BY <1>1, <3>1 DEF Reports
        <5> QED BY <2>3, <2>5, <5>1
      <4>2. \A j \in Reports(o) : j <= 1
        BY <4>1
      <4>3. Reported(q[1]) = Acked(o)
        BY <4>1, <4>2 DEF Told, Accounted
      <4> QED BY <1>1, <3>1, <4>3
    <3>2. CASE Head(q).type \notin {"hello", "ack"}
      <4>1. Head(q).type \in {"request-state", "advance"}
        BY <1>1, <2>5, <3>2, MessageFacts
      <4>2. 1 \notin Reports(o)
        BY <1>1, <3>2 DEF Reports
      <4>3. Reports(o) = {}
        BY <2>3, <2>5, <4>2
      <4> QED BY <2>5, <4>1, <4>3 DEF Told, Accounted
    <3> QED BY <3>1, <3>2
  <2> QED BY <2>4, <2>5
<1> QED BY <1>2, <1>3, <1>4 DEF Told

\* What is sent last to a control is a report of what the screen applied.
LEMMA Reporting ==
    ASSUME PresentationTypeOK, NEW o \in Outputs, Open(o), win'[o] = win[o],
           NEW r \in Nat, r = Acked(o)',
           ~control => ~control',
           control => up'[o] = Append(up[o], Ack(r))
    PROVE  Told(o)'
<1>1. Untouched(o)' /\ SaidBye(o)'
  BY DEF Open, Untouched, SaidBye
<1>2. Accounted(o)'
  <2> SUFFICES ASSUME control PROVE Accounted(o)'
    BY DEF Accounted
  <2>1. up[o] \in Seq(Messages) /\ Ack(r) \in Messages /\ Len(up[o]) \in Nat
    BY MessageTypes DEF PresentationTypeOK
  <2>2. /\ Len(up'[o]) = Len(up[o]) + 1
        /\ up'[o][Len(up[o]) + 1] = Ack(r)
    BY <2>1
  <2>3. Len(up[o]) + 1 \in Reports(o)' /\ \A i \in Reports(o)' : i \in 1..(Len(up[o]) + 1)
    BY <2>1, <2>2 DEF Reports, Ack
  <2>4. \A i \in Reports(o)' : (\A j \in Reports(o)' : j <= i) => i = Len(up[o]) + 1
    BY <2>1, <2>3
  <2>5. Reported(up'[o][Len(up[o]) + 1]) = r
    BY <2>2 DEF Reported, Ack
  <2> QED BY <2>3, <2>4, <2>5 DEF Accounted
<1> QED BY <1>1, <1>2 DEF Told

\* What a control does with what it hears: nothing to its state, or the state
\* is sent again, or the session goes to another slide.
LEMMA ReceiveFacts ==
    ASSUME PresentationTypeOK, OneState, NEW o \in Outputs, Receive(o)
    PROVE  \/ /\ UNCHANGED <<state, held, last, down, db>>
              /\ state = None \/ Head(up[o]).type \notin {"hello", "request-state"}
           \/ state # None /\ Broadcast(state) /\ UNCHANGED <<state, db>>
           \/ /\ state # None
              /\ \E next \in State :
                   /\ next.revision >= state.revision /\ next.ended = state.ended
                   /\ Apply(next) /\ UNCHANGED listed
<1> DEFINE m == Head(up[o])
<1>0. up[o] \in Seq(Messages) /\ up[o] # <<>>
  BY DEF PresentationTypeOK, Receive
<1>1. m \in Messages
  BY <1>0
<1> HIDE DEF m
<1>2. CASE m.type = "advance"
  <2>1. \/ UNCHANGED <<state, held, last, down, db>>
        \/ state # None /\ Apply(Advanced(state, m.delta)) /\ UNCHANGED listed
    BY <1>2 DEF Receive, m
  <2>2. ASSUME state # None
        PROVE  /\ Advanced(state, m.delta) \in State
               /\ Advanced(state, m.delta).revision >= state.revision
               /\ Advanced(state, m.delta).ended = state.ended
    <3>1. state \in State /\ m.delta \in {-1, 1}
      BY <1>1, <1>2, <2>2, MessageFacts DEF PresentationTypeOK
    <3> QED BY <3>1, AdvancedFacts
  <2> QED BY <1>2, <2>1, <2>2 DEF m
<1>3. CASE m.type \in {"hello", "request-state"}
  <2>1. held = state
    BY DEF OneState
  <2>2. Repeat /\ UNCHANGED <<state, db>>
    BY <1>3 DEF Receive, m
  <2> QED BY <2>1, <2>2 DEF Repeat
<1>4. CASE m.type \in {"ack", "bye"}
  <2>1. UNCHANGED <<state, held, last, down, db>>
    BY <1>4 DEF Receive, m
  <2> QED BY <1>4, <2>1 DEF m
<1> QED BY <1>1, <1>2, <1>3, <1>4, MessageFacts

LEMMA ReceiveList ==
    ASSUME ListInv, NEW o \in Outputs, Receive(o)
    PROVE  OneState' /\ \A x \in Outputs : Told(x)'
<1> DEFINE m == Head(up[o])
<1>0. /\ PresentationTypeOK /\ OneState /\ \A x \in Outputs : Told(x)
      /\ control /\ up[o] # <<>> /\ up \in [Outputs -> Seq(Messages)]
      /\ up'[o] = Tail(up[o]) /\ \A x \in Outputs \ {o} : up'[x] = up[x]
      /\ UNCHANGED <<control, mirror, screenVars, opens>>
  BY DEF ListInv, Told, PresentationTypeOK, Receive
<1>1. m \in Messages
  BY <1>0
<1> HIDE DEF m
<1>2. \/ UNCHANGED <<state, held, last, down, db>>
      \/ state # None /\ Broadcast(state) /\ UNCHANGED <<state, db>>
      \/ \E next \in State : state # None /\ Apply(next) /\ UNCHANGED listed
  BY <1>0, ReceiveFacts
<1>3. /\ \A x \in Outputs : Open(x) \/ down'[x] = down[x]
      /\ OneState'
  <2>1. CASE UNCHANGED <<state, held, last, down, db>>
    BY <1>0, <2>1 DEF OneState
  <2>2. CASE state # None /\ Broadcast(state) /\ UNCHANGED <<state, db>>
    <3>1. state \in State /\ held' = state /\ last' = state
      BY <1>0, <2>2 DEF Broadcast, PresentationTypeOK
    <3>2. OneState'
      BY <1>0, <2>2, <3>1 DEF OneState
    <3> QED BY <1>0, <2>2, <3>1, <3>2, BroadcastFacts DEF PresentationTypeOK
  <2>3. CASE \E next \in State : state # None /\ Apply(next) /\ UNCHANGED listed
    <3>1. PICK next \in State : state # None /\ Apply(next) /\ UNCHANGED listed
      BY <2>3
    <3>2. OneState'
      BY <1>0, <3>1, ApplyOne
    <3> QED BY <1>0, <3>1, <3>2, BroadcastFacts DEF Apply, PresentationTypeOK
  <2> QED BY <1>2, <2>1, <2>2, <2>3
\* The line of the output that is heard, and of the others.
<1>4. /\ m = Bye => o \notin DOMAIN listed'
      /\ m.type \in {"hello", "ack"} => listed'[o].acked = Reported(m)
      /\ m.type \in {"request-state", "advance"} => UNCHANGED listed
      /\ \A x \in Outputs \ {o} :
           /\ x \in DOMAIN listed' <=> x \in DOMAIN listed
           /\ x \in DOMAIN listed => listed'[x] = listed[x]
  <2>1. CASE m.type = "hello"
    <3>1. List(o, 0, FALSE)
      BY <2>1 DEF Receive, m
    <3>2. Reported(m) = 0 /\ m # Bye
      BY <2>1 DEF Reported, Bye
    <3>3. /\ listed'[o].acked = 0
          /\ \A x \in Outputs \ {o} :
               /\ x \in DOMAIN listed' <=> x \in DOMAIN listed
               /\ x \in DOMAIN listed => listed'[x] = listed[x]
      BY <1>0, <3>1, ListFacts
    <3> QED BY <2>1, <3>2, <3>3
  <2>2. CASE m.type = "ack"
    <3>1. List(o, m.revision, CanAdvance(o))
      BY <2>2 DEF Receive, m
    <3>3. Reported(m) = m.revision /\ m # Bye
      BY <2>2 DEF Reported, Bye
    <3>2. m.revision \in Nat /\ CanAdvance(o) \in BOOLEAN
      BY <1>0, <1>1, <2>2, MessageFacts, CanAdvanceType
    <3>4. /\ listed'[o].acked = m.revision
          /\ \A x \in Outputs \ {o} :
               /\ x \in DOMAIN listed' <=> x \in DOMAIN listed
               /\ x \in DOMAIN listed => listed'[x] = listed[x]
      <4>1. PICK r \in Nat, allowed \in BOOLEAN :
              r = m.revision /\ List(o, r, allowed)
        BY <3>1, <3>2
      <4>2. List(o, r, allowed) /\ PresentationTypeOK
        BY <1>0, <4>1
      <4>3. /\ DOMAIN listed' = DOMAIN listed \cup {o}
            /\ listed'[o].acked = r
            /\ \A x \in DOMAIN listed \ {o} : listed'[x] = listed[x]
        BY <4>2, ListFacts
      <4> QED BY <4>1, <4>3
    <3> QED BY <2>2, <3>3, <3>4
  <2>3. CASE m.type \in {"request-state", "advance"}
    <3>1. UNCHANGED listed
      BY <2>3 DEF Receive, m
    <3>2. m # Bye
      BY <2>3 DEF Bye
    <3> QED BY <2>3, <3>1, <3>2
  <2>4. CASE m.type = "bye"
    <3>1. Forget(o)
      BY <2>4 DEF Receive, m
    <3> QED BY <2>4, <3>1, ForgetFacts
  <2> QED BY <1>1, <2>1, <2>2, <2>3, <2>4, MessageFacts
<1>5. Told(o)'
  BY <1>0, <1>3, <1>4, Heard DEF m, screenVars
<1>6. ASSUME NEW x \in Outputs, x # o PROVE Told(x)'
  BY <1>0, <1>3, <1>4, <1>6, Undisturbed DEF screenVars
<1> QED BY <1>3, <1>5, <1>6

LEMMA GrantList ==
    ASSUME ListInv, NEW o \in Outputs, NEW allowed \in BOOLEAN,
           GrantAdvance(o, allowed)
    PROVE  OneState' /\ \A x \in Outputs : Told(x)'
<1>0. /\ OneState /\ \A x \in Outputs : Told(x)
      /\ UNCHANGED <<control, state, held, db, mirror, screenVars, up, down,
                     opens, last>>
      /\ DOMAIN listed' = DOMAIN listed
      /\ \A x \in DOMAIN listed : listed'[x].acked = listed[x].acked
  BY DEF ListInv, Told, GrantAdvance, Status
<1>1. OneState'
  BY <1>0 DEF OneState
<1>2. ASSUME NEW x \in Outputs PROVE Told(x)'
  BY <1>0, Undisturbed DEF screenVars
<1> QED BY <1>1, <1>2

LEMMA AttachList ==
    ASSUME ListInv, NEW o \in Outputs, AttachPeer(o)
    PROVE  OneState' /\ \A x \in Outputs : Told(x)'
<1>0. /\ PresentationTypeOK /\ OneState /\ \A x \in Outputs : Told(x)
      /\ List(o, 0, FALSE) /\ control /\ win[o] = "new"
      /\ win' = [win EXCEPT ![o] = "open"]
      /\ UNCHANGED <<control, state, held, db, mirror, shown, applied, reading,
                     up, opens, last>>
  BY DEF ListInv, Told, AttachPeer
<1>1. OneState'
  BY <1>0 DEF OneState
<1>2. \A x \in Outputs \ {o} : Open(x) \/ down'[x] = down[x]
  BY DEF AttachPeer
<1>3. /\ listed'[o].acked = 0
      /\ \A x \in Outputs \ {o} :
           /\ x \in DOMAIN listed' <=> x \in DOMAIN listed
           /\ x \in DOMAIN listed => listed'[x] = listed[x]
  BY <1>0, ListFacts
<1>4. Told(o)'
  <2>1. up'[o] = <<>> /\ applied'[o] = None /\ win'[o] = "open"
    BY <1>0 DEF Told, Untouched, PresentationTypeOK
  <2>2. Reports(o)' = {} /\ Acked(o)' = 0
    BY <2>1 DEF Reports, Acked
  <2> QED BY <1>3, <2>1, <2>2 DEF Told, Untouched, Accounted, SaidBye
<1>5. ASSUME NEW x \in Outputs, x # o PROVE Told(x)'
  <2>1. win'[x] = win[x]
    BY <1>0, <1>5 DEF PresentationTypeOK
  <2> QED BY <1>0, <1>2, <1>3, <1>5, <2>1, Undisturbed
<1> QED BY <1>1, <1>4, <1>5

LEMMA ScreenList ==
    ASSUME ListInv, NEW o \in Outputs,
           \/ OpenWindow(o) \/ Paint(o) \/ Deliver(o) \/ Heartbeat(o)
           \/ \E delta \in {-1, 1} : RequestAdvance(o, delta)
           \/ LeavePage(o) \/ Vanish(o)
    PROVE  OneState' /\ \A x \in Outputs : Told(x)'
<1>0. /\ PresentationTypeOK /\ OneState /\ \A x \in Outputs : Told(x)
      /\ up \in [Outputs -> Seq(Messages)] /\ win \in [Outputs -> {"new", "open", "left", "gone"}]
      /\ down \in [Outputs -> Seq(State)]
      /\ shown \in [Outputs -> State \cup {None}]
      /\ applied \in [Outputs -> Nat \cup {None}]
      /\ UNCHANGED <<control, state, held, listed, db, mirror, opens, last>>
  BY DEF ListInv, Told, PresentationTypeOK, OpenWindow, Paint, Deliver,
         Heartbeat, RequestAdvance, LeavePage, Vanish, screenVars
<1>1. up' = up \/ (\E ms : Post(o, ms)) \/ up' = [up EXCEPT ![o] = <<>>]
  BY DEF OpenWindow, Paint, Deliver, Reply, Heartbeat, RequestAdvance,
         LeavePage, Vanish
<1>2. /\ \A x \in Outputs \ {o} : up'[x] = up[x]
      /\ ~control => \A x \in Outputs : up'[x] = <<>>
  BY <1>0, <1>1 DEF Post, OneState
<1>3. OneState'
  BY <1>0, <1>2, StillOne
<1>4. \A x \in Outputs \ {o} :
        /\ win'[x] = win[x] /\ applied'[x] = applied[x]
        /\ shown'[x] = shown[x] /\ down'[x] = down[x]
  BY <1>0 DEF OpenWindow, Paint, Deliver, Heartbeat, RequestAdvance, LeavePage,
              Vanish, Blacken, screenVars
<1>5. ASSUME NEW x \in Outputs, x # o PROVE Told(x)'
  BY <1>0, <1>2, <1>4, <1>5, Undisturbed
<1>6. Told(o)'
  <2>1. CASE OpenWindow(o)
    <3>1. /\ up[o] = <<>> /\ applied[o] = None /\ o \notin DOMAIN listed
          /\ win'[o] = "open" /\ applied' = applied
      BY <1>0, <2>1 DEF Told, Untouched, OpenWindow
    <3>2. Untouched(o)' /\ SaidBye(o)'
      BY <3>1 DEF Untouched, SaidBye
    <3>3. Accounted(o)'
      <4> SUFFICES ASSUME control PROVE Accounted(o)'
        BY <1>0 DEF Accounted
      <4>1. up'[o] = <<Hello, RequestState>>
        BY <1>0, <2>1, <3>1 DEF OpenWindow, Post
      <4>2. Reports(o)' = {1} /\ Reported(up'[o][1]) = 0
        BY <4>1 DEF Reports, Reported, Hello, RequestState
      <4> QED BY <1>0, <3>1, <4>2 DEF Accounted, Acked
    <3> QED BY <3>2, <3>3 DEF Told
  <2>2. CASE Paint(o)
    BY <1>0, <2>2, Undisturbed DEF Paint
  <2>3. CASE Deliver(o)
    <3> DEFINE s == Head(down[o])
    <3>0. down[o] \in Seq(State) /\ down[o] # <<>> /\ Open(o)
      BY <1>0, <2>3 DEF Deliver
    <3>1. s \in State /\ Open(o)
      BY <3>0
    <3>9. s.revision \in Nat /\ s.revision # None
      <4> HIDE DEF s
      <4>1. s.revision \in Nat
        BY <3>1, StateFacts
      <4> QED BY <4>1, PresentationAssumption
    <3>2. CASE Newer(o, s)
      <4>1. /\ applied' = [applied EXCEPT ![o] = s.revision]
            /\ Post(o, <<Ack(s.revision)>>) /\ win' = win
        BY <2>3, <3>2 DEF Deliver, Reply
      <4>2. Acked(o)' = s.revision
        BY <1>0, <3>1, <3>9, <4>1 DEF Acked
      <4>3. control => up'[o] = Append(up[o], Ack(s.revision))
        BY <1>0, <3>1, <3>9, <4>1, MessageTypes, PostFacts
      <4> QED BY <1>0, <3>1, <3>9, <4>1, <4>2, <4>3, Reporting
    <3>3. CASE ~Newer(o, s)
      <4>1. UNCHANGED <<applied, shown, up, win>>
        BY <2>3, <3>3 DEF Deliver
      <4> QED BY <1>0, <3>1, <3>9, <4>1, Undisturbed
    <3> QED BY <3>2, <3>3
  <2>4. CASE Heartbeat(o)
    <3>1. Open(o) /\ win' = win /\ applied' = applied /\ Post(o, <<Ack(Acked(o))>>)
      BY <2>4 DEF Heartbeat, screenVars
    <3>2. Acked(o)' = Acked(o) /\ Acked(o) \in Nat
      BY <1>0, <3>1, AckedType DEF Acked
    <3>3. control => up'[o] = Append(up[o], Ack(Acked(o)))
      BY <1>0, <3>1, <3>2, MessageTypes, PostFacts
    <3> QED BY <1>0, <3>1, <3>2, <3>3, Reporting
  <2>5. CASE \E delta \in {-1, 1} : RequestAdvance(o, delta)
    <3>1. PICK delta \in {-1, 1} : RequestAdvance(o, delta)
      BY <2>5
    <3>2. /\ Open(o) /\ UNCHANGED <<win, applied>>
          /\ control /\ up'[o] = Append(up[o], Advance(delta))
      BY <1>0, <3>1, MessageTypes, PostFacts DEF RequestAdvance, screenVars
    <3>3. /\ Len(up'[o]) = Len(up[o]) + 1 /\ Len(up[o]) \in Nat
          /\ \A i \in 1..Len(up[o]) : up'[o][i] = up[o][i]
          /\ up'[o][Len(up[o]) + 1].type = "advance"
      BY <1>0, <3>2, MessageTypes DEF Advance
    <3>4. /\ Reports(o)' = Reports(o)
          /\ \A i \in Reports(o) : up'[o][i] = up[o][i]
      BY <3>3 DEF Reports
    <3>5. Acked(o)' = Acked(o)
      BY <3>2 DEF Acked
    <3>6. Accounted(o)'
      BY <1>0, <3>2, <3>4, <3>5 DEF Told, Accounted, Open
    <3> QED BY <3>2, <3>6 DEF Told, Untouched, SaidBye, Open
  <2>6. CASE LeavePage(o)
    <3>1. win'[o] = "left" /\ Post(o, <<Bye>>)
      BY <1>0, <2>6 DEF LeavePage, Blacken
    <3>2. control => up'[o] = Append(up[o], Bye)
      BY <1>0, <3>1, MessageTypes, PostFacts
    <3>3. SaidBye(o)'
      <4>1. CASE control
        <5>1. up'[o] # <<>> /\ up'[o][Len(up'[o])] = Bye
          BY <1>0, <3>2, <4>1, MessageTypes
        <5> QED BY <5>1 DEF SaidBye
      <4>2. CASE ~control
        BY <1>0, <1>2, <4>2 DEF SaidBye, OneState
      <4> QED BY <4>1, <4>2
    <3> QED BY <3>1, <3>3 DEF Told, Untouched, Accounted, Open
  <2>7. CASE Vanish(o)
    <3>1. win'[o] = "gone"
      BY <1>0, <2>7 DEF Vanish, Blacken
    <3> QED BY <3>1 DEF Told, Untouched, Accounted, SaidBye, Open
  <2> QED BY <2>1, <2>2, <2>3, <2>4, <2>5, <2>6, <2>7
<1> QED BY <1>3, <1>5, <1>6

LEMMA ListInductive == ListInv /\ [Next]_vars => ListInv'
<1> SUFFICES ASSUME ListInv, [Next]_vars PROVE ListInv'
  OBVIOUS
<1>1. PresentationTypeOK'
  BY NextTypes DEF ListInv
<1>2. OneState' /\ \A o \in Outputs : Told(o)'
  <2>1. CASE UNCHANGED vars
    <3>1. OneState'
      BY <2>1 DEF vars, ListInv, OneState
    <3>2. ASSUME NEW o \in Outputs PROVE Told(o)'
      BY <2>1, Undisturbed DEF vars, screenVars, ListInv, Told
    <3> QED BY <3>1, <3>2
  <2> QED
    BY <2>1, PageList, CommitList, ReceiveList, GrantList, AttachList,
       ScreenList DEF Next
<1> QED BY <1>1, <1>2 DEF ListInv, Told

LEMMA InitList == Init => ListInv
<1> SUFFICES ASSUME Init PROVE ListInv
  OBVIOUS
<1>1. /\ \A o \in Outputs : win[o] = "new" /\ up[o] = <<>> /\ down[o] = <<>>
           /\ shown[o] = None /\ applied[o] = None
      /\ DOMAIN listed = {} /\ Len(db) = 0
      /\ ~control /\ state = None /\ held = None
  BY DEF Init, Empty
<1>2. OneState
  BY <1>1 DEF OneState
<1>3. \A o \in Outputs : Untouched(o) /\ Accounted(o) /\ SaidBye(o)
  BY <1>1 DEF Untouched, Accounted, SaidBye
<1> QED BY <1>2, <1>3, InitTypes DEF ListInv

LEMMA ListStays == Spec => []ListInv
BY InitList, ListInductive, PTL DEF Spec

\* The list beside the operator is true whenever nothing is on its way, and a
\* page that said Bye does not come back on it, whether or not the writes of a
\* window that closes are finished.
THEOREM OperatorListIsTrue == Spec => []OperatorSeesAcks
<1>1. ListInv => OperatorSeesAcks
  <2> SUFFICES ASSUME ListInv, NEW o \in DOMAIN listed
               PROVE  /\ Open(o) /\ AtRest(o) => listed[o].acked = Acked(o)
                      /\ win[o] = "left" => Bye \in ToSet(up[o])
    BY DEF OperatorSeesAcks
  <2>1. o \in Outputs /\ up[o] \in Seq(Messages)
    BY DEF ListInv, PresentationTypeOK
  <2>2. ASSUME Open(o), AtRest(o) PROVE listed[o].acked = Acked(o)
    <3>1. Reports(o) = {}
      BY <2>2 DEF AtRest, Reports
    <3> QED BY <2>1, <2>2, <3>1 DEF AtRest, ListInv, Accounted
  <2>3. ASSUME win[o] = "left" PROVE Bye \in ToSet(up[o])
    <3>1. up[o] # <<>> /\ up[o][Len(up[o])] = Bye
      BY <2>1, <2>3 DEF ListInv, SaidBye
    <3>2. Len(up[o]) \in DOMAIN up[o]
      BY <2>1, <3>1
    <3> QED BY <3>1, <3>2 DEF ToSet
  <2> QED BY <2>2, <2>3
<1> QED BY <1>1, ListStays, PTL

-----------------------------------------------------------------------------
(* The screens and the mirror. *)

Seen(o) == InOrder(o) /\ Served(o)

LEMMA NewestType ==
    ASSUME PresentationTypeOK
    PROVE  Newest \in State /\ Newest.revision \in Nat
<1>1. Newest \in State
  BY StateFacts, CreatedType DEF Newest, PresentationTypeOK
<1> QED BY <1>1, StateFacts

LEMMA WireFacts ==
    ASSUME PresentationTypeOK, NEW o \in Outputs
    PROVE  /\ down[o] \in Seq(State)
           /\ \A i \in 1..Len(down[o]) : down[o][i] \in State /\ down[o][i].revision \in Nat
<1>1. down[o] \in Seq(State)
  BY DEF PresentationTypeOK
<1>2. \A i \in 1..Len(down[o]) : down[o][i] \in State
  BY <1>1
<1> QED BY <1>1, <1>2, StateFacts

\* A state that is not older than any goes behind those on their way.
LEMMA SentInOrder ==
    ASSUME PresentationTypeOK, NEW o \in Outputs, InOrder(o),
           NEW s \in State, Newest.revision <= s.revision, Newest' = s,
           applied'[o] = applied[o],
           down'[o] = IF Open(o) THEN Append(down[o], s) ELSE down[o]
    PROVE  InOrder(o)'
<1>1. /\ down[o] \in Seq(State) /\ s.revision \in Nat /\ Newest.revision \in Nat
      /\ applied[o] \in Nat \cup {None} /\ Len(down[o]) \in Nat
      /\ \A i \in 1..Len(down[o]) : down[o][i].revision \in Nat
  <2>1. s.revision \in Nat
    BY StateFacts
  <2>2. Newest.revision \in Nat
    BY NewestType
  <2> QED BY <2>1, <2>2, WireFacts DEF PresentationTypeOK
<1>2. CASE Open(o)
  <2> DEFINE q == Append(down[o], s)
             n == Len(down[o]) + 1
  <2>1. /\ Len(q) = n /\ q[n] = s /\ q # <<>> /\ n \in Nat
        /\ \A i \in 1..n : i = n \/ (i \in 1..Len(down[o]) /\ q[i] = down[o][i])
    BY <1>1, AppendFacts
  <2> HIDE DEF q, n
  <2>2. down'[o] = q
    BY <1>2 DEF q
  <2>3. \A i \in 1..n : q[i].revision <= s.revision
    <3> SUFFICES ASSUME NEW i \in 1..n, i # n PROVE q[i].revision <= s.revision
      BY <1>1, <2>1
    <3>1. i \in 1..Len(down[o]) /\ q[i] = down[o][i]
      BY <2>1
    <3>2. down[o][i].revision <= Newest.revision /\ down[o][i].revision \in Nat
      BY <1>1, <3>1 DEF InOrder
    <3> QED BY <1>1, <3>1, <3>2
  <2>4. ASSUME NEW i \in 1..n, NEW j \in 1..n, i <= j
        PROVE  q[i].revision <= q[j].revision
    <3>1. CASE j = n
      BY <2>1, <2>3, <3>1
    <3>2. CASE j # n
      <4>1. i # n
        BY <2>1, <2>4, <3>2
      <4> QED BY <2>1, <2>4, <3>2, <4>1 DEF InOrder
    <3> QED BY <3>1, <3>2
  <2>5. applied[o] # None =>
          /\ applied[o] <= s.revision
          /\ \A i \in 1..n : applied[o] <= q[i].revision
    <3> SUFFICES ASSUME applied[o] # None
                 PROVE  /\ applied[o] <= s.revision
                        /\ \A i \in 1..n : applied[o] <= q[i].revision
      OBVIOUS
    <3>1. applied[o] <= s.revision
      BY <1>1 DEF InOrder
    <3>2. \A i \in 1..n : i # n => applied[o] <= q[i].revision
      BY <2>1 DEF InOrder
    <3> QED BY <2>1, <3>1, <3>2
  <2> QED BY <2>1, <2>2, <2>3, <2>4, <2>5 DEF InOrder
<1>3. CASE ~Open(o)
  <2>2. \A i \in 1..Len(down[o]) : down[o][i].revision <= s.revision
    <3> SUFFICES ASSUME NEW i \in 1..Len(down[o])
                 PROVE  down[o][i].revision <= s.revision
      OBVIOUS
    <3>1. down[o][i].revision <= Newest.revision /\ down[o][i].revision \in Nat
      BY <1>1 DEF InOrder
    <3> QED BY <1>1, <3>1
  <2>3. applied[o] # None => applied[o] <= s.revision
    BY <1>1 DEF InOrder
  <2>4. down'[o] = down[o]
    BY <1>3
  <2> QED BY <2>2, <2>3, <2>4 DEF InOrder
<1> QED BY <1>2, <1>3

\* It serves the screens it is sent to, whatever they had before.
LEMMA SentSeen ==
    ASSUME PresentationTypeOK, NEW o \in Outputs, InOrder(o),
           NEW s \in State, Newest.revision <= s.revision, Newest' = s,
           state' = s, win'[o] = win[o], applied'[o] = applied[o],
           down'[o] = IF Open(o) THEN Append(down[o], s) ELSE down[o]
    PROVE  Seen(o)'
<1>1. InOrder(o)'
  BY SentInOrder
<1>2. Served(o)'
  <2>1. CASE Open(o)
    <3>1. down[o] \in Seq(State)
      BY DEF PresentationTypeOK
    <3>2. down'[o] # <<>> /\ down'[o][Len(down'[o])] = s
      BY <2>1, <3>1, AppendFacts
    <3> QED BY <3>2 DEF Served
  <2>2. CASE ~Open(o)
    BY <2>2 DEF Served, Open
  <2> QED BY <2>1, <2>2
<1> QED BY <1>1, <1>2 DEF Seen

\* A state that is broadcast serves every screen.
LEMMA BroadcastSeen ==
    ASSUME PresentationTypeOK, NEW s \in State, Newest.revision <= s.revision,
           Broadcast(s), state' = s, UNCHANGED screenVars,
           \A o \in Outputs : Seen(o)
    PROVE  /\ Newest' = s
           /\ \A o \in Outputs : Seen(o)'
<1>1. Newest' = s
  BY StateFacts DEF Newest, Broadcast
<1>2. ASSUME NEW o \in Outputs PROVE Seen(o)'
  <2>1. down'[o] = IF Open(o) THEN Append(down[o], s) ELSE down[o]
    BY DEF Broadcast
  <2>2. win'[o] = win[o] /\ applied'[o] = applied[o] /\ InOrder(o)
    BY DEF screenVars, Seen
  <2> QED BY <1>1, <2>1, <2>2, SentSeen
<1> QED BY <1>1, <1>2

\* A screen that nothing is sent to, and that sends what it likes, sees what it
\* saw, until it is heard asking.
LEMMA StillSeen ==
    ASSUME NEW o, Seen(o), Newest' = Newest, state' = state,
           win'[o] = win[o] \/ win'[o] # "open",
           applied'[o] = applied[o], down'[o] = down[o],
           shown'[o] = shown[o] \/ shown[o] = None,
           Asks(o) => Asks(o)'
    PROVE  Seen(o)'
<1>1. InOrder(o)'
  BY DEF Seen, InOrder
<1>2. Served(o)'
  BY DEF Seen, Served, Open
<1> QED BY <1>1, <1>2 DEF Seen

\* A screen that is dark, or whose control is gone, is not to be served.
LEMMA DarkSeen ==
    ASSUME PresentationTypeOK, NEW o \in Outputs, Seen(o),
           Newest' \in State, Newest.revision <= Newest'.revision,
           state' = None \/ win'[o] # "open",
           applied'[o] \in {applied[o], None}, down'[o] \in {down[o], <<>>}
    PROVE  Seen(o)'
<1>0. /\ Newest.revision \in Nat /\ Newest'.revision \in Nat
      /\ applied[o] \in Nat \cup {None}
      /\ \A i \in 1..Len(down[o]) : down[o][i].revision \in Nat
  <2>1. Newest.revision \in Nat
    BY NewestType
  <2>2. Newest'.revision \in Nat
    <3>1. PICK s \in State : s = Newest'
      OBVIOUS
    <3> QED BY <3>1, StateFacts
  <2> QED BY <2>1, <2>2, WireFacts DEF PresentationTypeOK
<1>1. Served(o)'
  BY DEF Served, Open
<1>2. \A i \in 1..Len(down'[o]) : i \in 1..Len(down[o]) /\ down'[o][i] = down[o][i]
  OBVIOUS
<1>3. /\ \A i, j \in 1..Len(down'[o]) :
           i <= j => down'[o][i].revision <= down'[o][j].revision
      /\ \A i \in 1..Len(down'[o]) :
           applied'[o] # None => applied'[o] <= down'[o][i].revision
  BY <1>2 DEF Seen, InOrder
<1>4. \A i \in 1..Len(down'[o]) : down'[o][i].revision <= Newest'.revision
  <2> SUFFICES ASSUME NEW i \in 1..Len(down'[o])
               PROVE  down'[o][i].revision <= Newest'.revision
    OBVIOUS
  <2>1. down[o][i].revision <= Newest.revision /\ down[o][i].revision \in Nat
    BY <1>0, <1>2 DEF Seen, InOrder
  <2> QED BY <1>0, <1>2, <2>1
<1>5. applied'[o] # None => applied'[o] <= Newest'.revision
  BY <1>0 DEF Seen, InOrder
<1>6. InOrder(o)'
  BY <1>3, <1>4, <1>5 DEF InOrder
<1> QED BY <1>1, <1>6 DEF Seen

\* A load that is the oldest request finds the newest state, or none.
LEMMA LoadFinds ==
    ASSUME PresentationTypeOK, Saved, db # <<>>, Head(db).op = "load"
    PROVE  mirror \in {None, Newest}
<1>1. /\ db \in Seq(Requests) /\ 1 \in 1..Len(db) /\ Head(db) = db[1]
      /\ db[1] \in Requests
  BY TailFacts DEF PresentationTypeOK
<1>2. db[1] = Load
  BY <1>1, RequestFacts
<1>3. ASSUME NEW j \in Writes PROVE FALSE
  <2>1. j < 1
    BY <1>1, <1>2 DEF Saved
  <2>2. j \in Nat /\ j >= 1
    BY DEF Writes
  <2> QED BY <2>1, <2>2
<1> QED BY <1>3 DEF Saved

\* A save goes behind the others, and is of the newest state.
LEMMA SavedBehind ==
    ASSUME PresentationTypeOK, NEW r \in Requests, r.op \in {"put", "end"},
           r.state = Newest', db' = Append(db, r),
           \A i \in 1..Len(db) : db[i] # Load
    PROVE  Saved'
<1>1. /\ db \in Seq(Requests) /\ Len(db) \in Nat
      /\ Len(db') = Len(db) + 1 /\ db'[Len(db) + 1] = r
      /\ \A i \in 1..Len(db) : db'[i] = db[i]
  BY AppendFacts DEF PresentationTypeOK
<1>2. Len(db) + 1 \in Writes'
  BY <1>1 DEF Writes
<1>3. \A i \in Writes' : i \in 1..(Len(db) + 1)
  BY <1>1 DEF Writes
<1>4. \A i \in Writes' : (\A j \in Writes' : j <= i) => i = Len(db) + 1
  BY <1>1, <1>2, <1>3
<1>5. \A i \in 1..Len(db') : db'[i] # Load
  <2>1. r # Load
    BY DEF Load
  <2>2. \A i \in 1..Len(db') : i = Len(db) + 1 \/ i \in 1..Len(db)
    BY <1>1
  <2> QED BY <1>1, <2>1, <2>2
<1> QED BY <1>1, <1>2, <1>4, <1>5 DEF Saved

LEMMA PageScreens ==
    ASSUME ListInv, ScreenInv, ~LosesWrites,
           OpenControl \/ Operate \/ Finish \/ CloseControl
    PROVE  Saved' /\ \A o \in Outputs : Seen(o)'
<1>0. /\ PresentationTypeOK /\ OneState /\ Saved /\ \A o \in Outputs : Seen(o)
      /\ db \in Seq(Requests) /\ Len(db) \in Nat
      /\ Newest \in State /\ Newest.revision \in Nat
  BY NewestType DEF ListInv, ScreenInv, Seen, PresentationTypeOK
<1>1. CASE OpenControl
  <2>1. /\ ~control /\ db' = Append(db, Load) /\ Newest' = Newest
        /\ UNCHANGED <<state, mirror, screenVars, up, down>>
    BY <1>1 DEF OpenControl, Newest
  <2>2. /\ Len(db') = Len(db) + 1 /\ db'[Len(db) + 1] = Load
        /\ \A i \in 1..Len(db) : db'[i] = db[i]
    BY <1>0, <2>1, RequestTypes, AppendFacts
  <2>3. Writes' = Writes /\ \A i \in Writes : db'[i] = db[i] /\ i < Len(db) + 1
    BY <1>0, <2>2 DEF Writes, Load
  <2>4. \A i \in 1..Len(db) : db[i] # Load
    BY <1>0, <2>1 DEF OneState
  <2>5. \A i \in 1..Len(db') : db'[i] = Load => i = Len(db) + 1
    BY <1>0, <2>2, <2>4
  <2>6. Saved'
    BY <1>0, <2>1, <2>3, <2>5 DEF Saved
  <2>7. ASSUME NEW o \in Outputs PROVE Seen(o)'
    <3>1. Asks(o) => Asks(o)'
      BY <2>1 DEF Asks
    <3> QED BY <1>0, <2>1, <3>1, StillSeen DEF screenVars
  <2> QED BY <2>6, <2>7
<1>2. CASE Operate
  <2>1. PICK next \in State : next.revision >= state.revision /\ Apply(next)
    BY <1>0, <1>2, OperateFacts DEF PresentationTypeOK
  <2>2. state # None /\ Newest = state /\ UNCHANGED screenVars
    BY <1>0, <1>2 DEF Operate, OneState, Newest
  <2>3. Newest.revision <= next.revision
    <3>1. next.revision \in Nat
      BY StateFacts
    <3> QED BY <1>0, <2>1, <2>2, <3>1
  <2>4. Newest' = next /\ \A o \in Outputs : Seen(o)'
    BY <1>0, <2>1, <2>2, <2>3, BroadcastSeen DEF Apply
  <2>5. db' = Append(db, Put(next)) /\ Put(next) \in Requests
        /\ Put(next).op = "put" /\ Put(next).state = next
    BY <2>1, RequestTypes DEF Apply, Put
  <2>6. \A i \in 1..Len(db) : db[i] # Load
    BY <1>0, <2>2 DEF OneState
  <2> QED BY <1>0, <2>4, <2>5, <2>6, SavedBehind
<1>3. CASE Finish
  <2> DEFINE e == Ended(state)
  <2>1. /\ state \in State /\ Newest = state /\ state # None
        /\ ShutDown /\ last' = e /\ db' = Append(db, PutEnded(e))
    BY <1>0, <1>3 DEF Finish, OneState, Newest, PresentationTypeOK
  <2>2. e \in State /\ e.revision = state.revision + 1 /\ e # None
    BY <2>1, StateFacts
  <2>3. Newest' = e /\ Newest.revision <= e.revision
    BY <1>0, <2>1, <2>2 DEF Newest
  <2>4. PutEnded(e) \in Requests /\ PutEnded(e).op = "end" /\ PutEnded(e).state = e
    BY <2>2, RequestTypes DEF PutEnded
  <2>5. \A i \in 1..Len(db) : db[i] # Load
    BY <1>0, <2>1 DEF OneState
  <2> HIDE DEF e
  <2>6. Saved'
    BY <1>0, <2>1, <2>3, <2>4, <2>5, SavedBehind
  <2>7. ASSUME NEW o \in Outputs PROVE Seen(o)'
    <3>1. /\ state' = None
          /\ applied'[o] = IF o \in Paired THEN None ELSE applied[o]
      BY <2>1 DEF ShutDown
    <3>2. CASE o \in Paired \/ ~Open(o)
      <4>1. down'[o] \in {down[o], <<>>}
        BY <1>3, <3>2 DEF Finish
      <4> QED BY <1>0, <2>2, <2>3, <3>1, <4>1, DarkSeen
    \* A window of this device, which will see the end.
    <3>3. CASE o \notin Paired /\ Open(o)
      <4>1. /\ down'[o] = Append(down[o], e)
            /\ applied'[o] = applied[o] /\ win'[o] = win[o]
        BY <1>0, <1>3, <2>1, <3>1, <3>3 DEF Finish, ShutDown, PresentationTypeOK, e
      <4> QED BY <1>0, <2>2, <2>3, <3>1, <3>3, <4>1, SentInOrder DEF Seen, Served
    <3> QED BY <3>2, <3>3
  <2> QED BY <2>6, <2>7
<1>4. CASE CloseControl
  <2>1. ShutDown /\ mirror' = mirror /\ Newest' = Newest
    BY <1>4 DEF CloseControl, Newest
  <2>2. PICK n \in 0..Len(db) :
          /\ n < Len(db) => LosesWrites
          /\ db' = [i \in 1..n |-> IF db[i] = Load THEN Unheard ELSE db[i]]
    BY <1>4 DEF CloseControl
  <2>3. n = Len(db)
    BY <1>0, <2>2
  <2>4. /\ Len(db') = Len(db)
        /\ \A i \in 1..Len(db) :
             db'[i] = IF db[i] = Load THEN Unheard ELSE db[i]
    BY <1>0, <2>2, <2>3
  <2>5. Writes' = Writes /\ \A i \in Writes : db'[i] = db[i]
    BY <2>4 DEF Writes, Load, Unheard
  <2>6. \A i \in 1..Len(db') : db'[i] # Load
    BY <2>4 DEF Load, Unheard
  <2>7. Saved'
    BY <1>0, <2>1, <2>5, <2>6 DEF Saved
  <2>8. ASSUME NEW o \in Outputs PROVE Seen(o)'
    <3>1. state' = None /\ applied'[o] \in {applied[o], None}
      BY <2>1 DEF ShutDown
    <3>2. down'[o] \in {down[o], <<>>}
      BY <1>4 DEF CloseControl
    <3>3. Newest' \in State /\ Newest.revision <= Newest'.revision
      BY <1>0, <2>1
    <3> QED BY <1>0, <3>1, <3>2, <3>3, DarkSeen
  <2> QED BY <2>7, <2>8
<1> QED BY <1>1, <1>2, <1>3, <1>4

\* The mirror follows the saves, and a load that is answered finds them done.
LEMMA CommitScreens ==
    ASSUME ListInv, ScreenInv, Commit
    PROVE  Saved' /\ \A o \in Outputs : Seen(o)'
<1>0. /\ PresentationTypeOK /\ OneState /\ Saved /\ \A o \in Outputs : Seen(o)
      /\ db \in Seq(Requests) /\ db # <<>>
      /\ Newest \in State /\ Newest.revision \in Nat
      /\ UNCHANGED <<control, listed, screenVars, up, opens>>
  BY NewestType DEF ListInv, ScreenInv, Seen, PresentationTypeOK, Commit
<1> DEFINE r == Head(db)
<1>1. /\ Len(db) \in Nat /\ 1 \in 1..Len(db) /\ r = db[1] /\ r \in Requests
      /\ Tail(db) \in Seq(Requests) /\ Len(Tail(db)) = Len(db) - 1
      /\ \A i \in 1..Len(Tail(db)) : Tail(db)[i] = db[i + 1] /\ i + 1 \in 1..Len(db)
  BY <1>0, TailFacts
<1> HIDE DEF r
<1>2. /\ \A i \in 1..Len(db') : i \in 1..Len(Tail(db)) \/ db'[i] = Delete
      /\ \A i \in 1..Len(Tail(db)) : i \in 1..Len(db') /\ db'[i] = Tail(db)[i]
  <2>1. CASE db' = Tail(db)
    BY <2>1
  <2>2. CASE db' = Append(Tail(db), Delete)
    <3>1. /\ Len(db') = Len(Tail(db)) + 1 /\ Len(Tail(db)) \in Nat
          /\ \A i \in 1..Len(Tail(db)) : db'[i] = Tail(db)[i]
          /\ db'[Len(Tail(db)) + 1] = Delete
      BY <1>1, <2>2, RequestTypes, AppendFacts
    <3> QED BY <3>1
  <2> QED BY <2>1, <2>2 DEF Commit
<1>3. \A i \in Writes' : i \in Nat /\ i + 1 \in Writes /\ db'[i] = db[i + 1]
  <2> SUFFICES ASSUME NEW i \in Writes'
               PROVE  i \in Nat /\ i + 1 \in Writes /\ db'[i] = db[i + 1]
    OBVIOUS
  <2>1. i \in 1..Len(db') /\ db'[i].op \in {"put", "end"}
    BY DEF Writes
  <2>2. db'[i] # Delete
    BY <2>1 DEF Delete
  <2>3. i \in 1..Len(Tail(db)) /\ db'[i] = db[i + 1] /\ i + 1 \in 1..Len(db)
    BY <1>1, <1>2, <2>1, <2>2
  <2> QED BY <2>1, <2>3 DEF Writes
<1>4. \A j \in Writes : j \in Nat /\ (j = 1 \/ j - 1 \in Writes')
  <2> SUFFICES ASSUME NEW j \in Writes, j # 1
               PROVE  j \in Nat /\ j - 1 \in Writes'
    BY DEF Writes
  <2>1. j \in 1..Len(db) /\ db[j].op \in {"put", "end"}
    BY DEF Writes
  <2>2. j - 1 \in 1..Len(Tail(db)) /\ j \in Nat /\ (j - 1) + 1 = j
    BY <1>1, <2>1
  <2>3. j - 1 \in 1..Len(db') /\ db'[j - 1] = db[j]
    BY <1>1, <1>2, <2>2
  <2> QED BY <2>1, <2>2, <2>3 DEF Writes
<1>5. ASSUME NEW i \in Writes', \A j \in Writes' : j <= i
      PROVE  db'[i].state = Newest
  <2>1. i \in Nat /\ i + 1 \in Writes /\ db'[i] = db[i + 1]
    BY <1>3
  <2>2. \A j \in Writes : j <= i + 1
    <3> SUFFICES ASSUME NEW j \in Writes PROVE j <= i + 1
      OBVIOUS
    <3>1. CASE j = 1
      BY <2>1, <3>1
    <3>2. CASE j - 1 \in Writes'
      <4>1. j \in Nat /\ j - 1 <= i
        BY <1>4, <1>5, <3>2
      <4> QED BY <2>1, <4>1
    <3> QED BY <1>4, <3>1, <3>2
  <2> QED BY <1>0, <2>1, <2>2 DEF Saved
<1>6. ASSUME NEW i \in 1..Len(db'), db'[i] = Load, NEW j \in Writes'
      PROVE  j < i
  <2>1. i \in 1..Len(Tail(db)) /\ i + 1 \in 1..Len(db) /\ db[i + 1] = Load
    BY <1>1, <1>2, <1>6 DEF Load, Delete
  <2>2. j + 1 \in Writes /\ j \in Nat
    BY <1>3
  <2>3. j + 1 < i + 1
    BY <1>0, <2>1, <2>2 DEF Saved
  <2> QED BY <2>1, <2>2, <2>3
<1>7. Writes' = {} => mirror' \in {None, Newest}
  <2> SUFFICES ASSUME Writes' = {} PROVE mirror' \in {None, Newest}
    OBVIOUS
  <2>1. \A j \in Writes : j = 1
    BY <1>4
  <2>2. CASE r.op \in {"put", "end"}
    <3>1. 1 \in Writes
      BY <1>1, <2>2 DEF Writes
    <3>2. \A j \in Writes : j <= 1
      BY <2>1
    <3>3. r.state = Newest
      BY <1>0, <1>1, <3>1, <3>2 DEF Saved
    <3> QED BY <2>2, <3>3 DEF Commit, r
  <2>3. CASE r.op \notin {"put", "end"}
    <3>1. 1 \notin Writes
      BY <1>1, <2>3 DEF Writes
    <3>2. mirror \in {None, Newest}
      BY <1>0, <2>1, <3>1 DEF Saved
    <3> QED BY <2>3, <3>2 DEF Commit, r
  <2> QED BY <2>2, <2>3
<1>8. CASE UNCHANGED <<state, held, last, down>>
  <2>1. Newest' = Newest
    BY <1>8 DEF Newest
  <2>2. Saved'
    BY <1>5, <1>6, <1>7, <2>1 DEF Saved
  <2>3. ASSUME NEW o \in Outputs PROVE Seen(o)'
    <3>1. Asks(o) => Asks(o)'
      BY <1>0 DEF Asks
    <3> QED BY <1>0, <1>8, <2>1, <3>1, StillSeen DEF screenVars
  <2> QED BY <2>2, <2>3
<1>9. CASE /\ r.op = "load" /\ mirror # None
           /\ state' = mirror /\ Broadcast(mirror)
  <2>1. mirror = Newest
    BY <1>0, <1>1, <1>9, LoadFinds DEF r
  <2>2. /\ mirror \in State /\ Newest.revision <= mirror.revision
        /\ UNCHANGED screenVars
    BY <1>0, <2>1
  <2>3. Newest' = Newest /\ \A o \in Outputs : Seen(o)'
    BY <1>0, <1>9, <2>1, <2>2, BroadcastSeen
  <2>4. Saved'
    BY <1>5, <1>6, <1>7, <2>3 DEF Saved
  <2> QED BY <2>3, <2>4
<1> QED BY <1>8, <1>9 DEF Commit, r

LEMMA ReceiveScreens ==
    ASSUME ListInv, ScreenInv, NEW o \in Outputs, Receive(o)
    PROVE  Saved' /\ \A x \in Outputs : Seen(x)'
<1>0. /\ PresentationTypeOK /\ OneState /\ Saved /\ \A x \in Outputs : Seen(x)
      /\ Newest \in State /\ Newest.revision \in Nat
      /\ up \in [Outputs -> Seq(Messages)] /\ up[o] # <<>>
      /\ up' = [up EXCEPT ![o] = Tail(@)]
      /\ UNCHANGED <<control, mirror, screenVars, opens>>
  BY NewestType DEF ListInv, ScreenInv, Seen, PresentationTypeOK, Receive
<1>1. state # None => Newest = state /\ state \in State
  BY <1>0 DEF OneState, Newest, PresentationTypeOK
<1>2. CASE /\ UNCHANGED <<state, held, last, down, db>>
           /\ state = None \/ Head(up[o]).type \notin {"hello", "request-state"}
  <2>1. Newest' = Newest /\ Saved'
    BY <1>0, <1>2 DEF Newest, Saved, Writes
  <2>2. ASSUME NEW x \in Outputs PROVE Seen(x)'
    <3>1. CASE x # o
      <4>1. Asks(x) => Asks(x)'
        BY <1>0, <3>1 DEF Asks
      <4> QED BY <1>0, <1>2, <2>1, <4>1, StillSeen DEF screenVars
    <3>2. CASE x = o /\ state = None
      <4>1. Served(x)'
        BY <1>2, <3>2 DEF Served
      <4>2. InOrder(x)'
        BY <1>0, <1>2, <2>1 DEF Seen, InOrder, screenVars
      <4> QED BY <4>1, <4>2 DEF Seen
    <3>3. CASE x = o /\ Head(up[o]).type \notin {"hello", "request-state"}
      <4> DEFINE q == up[o]
      <4>1. /\ Len(q) \in Nat /\ Len(Tail(q)) = Len(q) - 1 /\ Head(q) = q[1]
            /\ \A i \in 1..Len(Tail(q)) : Tail(q)[i] = q[i + 1]
        BY <1>0, TailFacts
      <4>2. ASSUME Asks(o) PROVE Asks(o)'
        <5>1. PICK i \in 1..Len(q) : q[i].type \in {"hello", "request-state"}
          BY <4>2 DEF Asks
        <5>2. i # 1
          BY <3>3, <4>1, <5>1
        <5>3. i - 1 \in 1..Len(Tail(q)) /\ (i - 1) + 1 = i
          BY <4>1, <5>2
        <5>4. Tail(q)[i - 1].type \in {"hello", "request-state"}
          BY <4>1, <5>1, <5>3
        <5> QED BY <1>0, <5>3, <5>4 DEF Asks
      <4> QED BY <1>0, <1>2, <2>1, <3>3, <4>2, StillSeen DEF screenVars
    <3> QED BY <1>2, <3>1, <3>2, <3>3
  <2> QED BY <2>1, <2>2
<1>3. CASE state # None /\ Broadcast(state) /\ UNCHANGED <<state, db>>
  <2>1. Newest.revision <= state.revision
    BY <1>0, <1>1, <1>3
  <2>2. Newest' = state /\ \A x \in Outputs : Seen(x)'
    BY <1>0, <1>1, <1>3, <2>1, BroadcastSeen
  <2>3. Saved'
    BY <1>0, <1>1, <1>3, <2>2 DEF Saved, Writes
  <2> QED BY <2>2, <2>3
<1>4. CASE /\ state # None
           /\ \E next \in State : next.revision >= state.revision /\ Apply(next)
  <2>1. PICK next \in State : next.revision >= state.revision /\ Apply(next)
    BY <1>4
  <2>2. Newest.revision <= next.revision
    <3>1. next.revision \in Nat
      BY StateFacts
    <3> QED BY <1>0, <1>1, <1>4, <2>1, <3>1
  <2>3. Newest' = next /\ \A x \in Outputs : Seen(x)'
    BY <1>0, <2>1, <2>2, BroadcastSeen DEF Apply
  <2>4. db' = Append(db, Put(next)) /\ Put(next) \in Requests
        /\ Put(next).op = "put" /\ Put(next).state = next
    BY <2>1, RequestTypes DEF Apply, Put
  <2>5. \A i \in 1..Len(db) : db[i] # Load
    BY <1>0, <1>4 DEF OneState
  <2> QED BY <1>0, <2>3, <2>4, <2>5, SavedBehind
<1> QED BY <1>0, <1>2, <1>3, <1>4, ReceiveFacts

LEMMA AttachScreens ==
    ASSUME ListInv, ScreenInv, NEW o \in Outputs, AttachPeer(o)
    PROVE  Saved' /\ \A x \in Outputs : Seen(x)'
<1>0. /\ PresentationTypeOK /\ OneState /\ Saved /\ \A x \in Outputs : Seen(x)
      /\ Newest \in State /\ Newest.revision \in Nat
      /\ Untouched(o) /\ win[o] = "new" /\ win' = [win EXCEPT ![o] = "open"]
      /\ win \in [Outputs -> {"new", "open", "left", "gone"}]
      /\ UNCHANGED <<state, held, db, mirror, shown, applied, up, last>>
  BY NewestType DEF ListInv, ScreenInv, Seen, PresentationTypeOK, AttachPeer
<1>1. Newest' = Newest
  BY <1>0 DEF Newest
<1>2. Saved'
  BY <1>0, <1>1 DEF Saved, Writes
<1>3. CASE held = None
  <2>1. state = None /\ down' = down
    BY <1>0, <1>3 DEF OneState, AttachPeer
  <2>2. ASSUME NEW x \in Outputs PROVE Seen(x)'
    <3>1. InOrder(x)'
      BY <1>0, <1>1, <2>1 DEF Seen, InOrder
    <3>2. Served(x)'
      BY <1>0, <2>1 DEF Served
    <3> QED BY <3>1, <3>2 DEF Seen
  <2> QED BY <1>2, <2>2
<1>4. CASE held # None
  <2>1. held = state /\ state = Newest
    BY <1>0, <1>4 DEF OneState, Newest
  <2>2. down' = [x \in Outputs |->
                   IF x = o THEN <<held, held>>
                   ELSE IF Open(x) THEN Append(down[x], held)
                   ELSE down[x]]
    BY <1>4 DEF AttachPeer
  <2>3. Seen(o)'
    <3>1. down'[o] = <<state, state>> /\ applied'[o] = None
      BY <1>0, <2>1, <2>2 DEF Untouched
    <3>2. InOrder(o)'
      BY <1>0, <1>1, <2>1, <3>1 DEF InOrder
    <3>3. Served(o)'
      BY <1>0, <3>1 DEF Served
    <3> QED BY <3>2, <3>3 DEF Seen
  <2>4. ASSUME NEW x \in Outputs, x # o PROVE Seen(x)'
    <3>1. /\ down'[x] = IF Open(x) THEN Append(down[x], state) ELSE down[x]
          /\ win'[x] = win[x] /\ InOrder(x)
      BY <1>0, <2>1, <2>2, <2>4 DEF Seen
    <3>2. Newest.revision <= state.revision
      BY <1>0, <2>1
    <3> QED BY <1>0, <1>1, <2>1, <3>1, <3>2, SentSeen
  <2> QED BY <1>2, <2>3, <2>4
<1> QED BY <1>3, <1>4

\* What a screen posts goes behind what it asked for.
LEMMA PostedAsks ==
    ASSUME PresentationTypeOK, NEW o \in Outputs, NEW m \in Messages, Post(o, <<m>>),
           Asks(o)
    PROVE  Asks(o)'
<1>1. up[o] \in Seq(Messages)
  BY DEF PresentationTypeOK
<1>2. PICK i \in 1..Len(up[o]) : up[o][i].type \in {"hello", "request-state"}
  BY DEF Asks
<1>3. CASE control
  <2>1. up'[o] = Append(up[o], m)
    BY <1>3, PostFacts
  <2>2. i \in 1..Len(up'[o]) /\ up'[o][i] = up[o][i]
    BY <1>1, <2>1, AppendFacts
  <2> QED BY <1>2, <2>2 DEF Asks
<1>4. CASE ~control
  <2>1. up' = up
    BY <1>4, PostFacts
  <2> QED BY <1>2, <2>1 DEF Asks
<1> QED BY <1>3, <1>4

\* A state arrives: it is never ignored.
LEMMA DeliverSeen ==
    ASSUME ListInv, ScreenInv, NEW o \in Outputs, Deliver(o)
    PROVE  Seen(o)'
<1> DEFINE q == down[o]
           s == Head(q)
<1>0. /\ PresentationTypeOK /\ Seen(o) /\ q \in Seq(State) /\ q # <<>>
      /\ Open(o) /\ win' = win /\ state' = state /\ Newest' = Newest
      /\ down'[o] = Tail(q)
      /\ applied \in [Outputs -> Nat \cup {None}]
      /\ shown \in [Outputs -> State \cup {None}]
  BY DEF ListInv, ScreenInv, Seen, PresentationTypeOK, Deliver, Newest
<1>1. /\ Len(q) \in Nat /\ 1 \in 1..Len(q) /\ s = q[1] /\ s \in State
      /\ Len(Tail(q)) = Len(q) - 1
      /\ \A i \in 1..Len(Tail(q)) : Tail(q)[i] = q[i + 1] /\ i + 1 \in 1..Len(q)
      /\ Tail(q) = <<>> <=> Len(q) = 1
      /\ Tail(q) # <<>> => Tail(q)[Len(Tail(q))] = q[Len(q)]
  BY <1>0, TailFacts
<1>2. Newer(o, s)
  <2>1. applied[o] # None => applied[o] <= q[1].revision
    BY <1>0, <1>1 DEF Seen, InOrder
  <2>2. q[1].revision \in Nat /\ applied[o] \in Nat \cup {None}
    BY <1>0, <1>1, WireFacts
  <2> QED BY <1>1, <2>1, <2>2 DEF Newer
<1>3. /\ applied'[o] = s.revision /\ shown'[o] = s
      /\ Post(o, <<Ack(s.revision)>>)
  BY <1>0, <1>2 DEF Deliver, Reply
<1>4. s.revision \in Nat
  BY <1>1, StateFacts
<1> HIDE DEF s
<1>5. InOrder(o)'
  <2>1. ASSUME NEW i \in 1..Len(Tail(q)), NEW j \in 1..Len(Tail(q)), i <= j
        PROVE  Tail(q)[i].revision <= Tail(q)[j].revision
    <3>1. i + 1 <= j + 1
      BY <2>1
    <3> QED BY <1>0, <1>1, <3>1 DEF Seen, InOrder
  <2>2. ASSUME NEW i \in 1..Len(Tail(q))
        PROVE  /\ Tail(q)[i].revision <= Newest.revision
               /\ s.revision <= Tail(q)[i].revision
    <3>1. 1 <= i + 1 /\ i + 1 \in 1..Len(q)
      BY <1>1
    <3> QED BY <1>0, <1>1, <3>1 DEF Seen, InOrder
  <2>3. s.revision <= Newest.revision
    BY <1>0, <1>1 DEF Seen, InOrder
  <2> QED BY <1>0, <1>3, <2>1, <2>2, <2>3 DEF InOrder
<1>6. Served(o)'
  <2> SUFFICES ASSUME state # None
               PROVE  \/ Asks(o)'
                      \/ Tail(q) # <<>> /\ Tail(q)[Len(Tail(q))] = state
                      \/ Tail(q) = <<>> /\ s = state
    BY <1>0, <1>3 DEF Served
  <2>1. CASE Asks(o)
    BY <1>0, <1>3, <1>4, <2>1, MessageTypes, PostedAsks
  <2>2. CASE q[Len(q)] = state
    BY <1>1, <2>2
  <2> QED BY <1>0, <2>1, <2>2 DEF Seen, Served
<1> QED BY <1>5, <1>6 DEF Seen

LEMMA ScreenScreens ==
    ASSUME ListInv, ScreenInv, NEW o \in Outputs,
           \/ OpenWindow(o) \/ Paint(o) \/ Deliver(o) \/ Heartbeat(o)
           \/ \E delta \in {-1, 1} : RequestAdvance(o, delta)
           \/ LeavePage(o) \/ Vanish(o)
    PROVE  Saved' /\ \A x \in Outputs : Seen(x)'
<1>0. /\ PresentationTypeOK /\ OneState /\ Saved /\ \A x \in Outputs : Seen(x)
      /\ Newest \in State /\ Newest.revision \in Nat
      /\ up \in [Outputs -> Seq(Messages)] /\ win \in [Outputs -> {"new", "open", "left", "gone"}]
      /\ down \in [Outputs -> Seq(State)]
      /\ shown \in [Outputs -> State \cup {None}]
      /\ applied \in [Outputs -> Nat \cup {None}]
      /\ UNCHANGED <<control, state, held, listed, db, mirror, opens, last>>
  BY NewestType
     DEF ListInv, ScreenInv, Seen, PresentationTypeOK, OpenWindow, Paint, Deliver,
         Heartbeat, RequestAdvance, LeavePage, Vanish, screenVars
<1>1. Newest' = Newest
  BY <1>0 DEF Newest
<1>2. Saved'
  BY <1>0, <1>1 DEF Saved, Writes
<1>3. \A x \in Outputs \ {o} :
        /\ win'[x] = win[x] /\ applied'[x] = applied[x]
        /\ shown'[x] = shown[x] /\ down'[x] = down[x]
  BY <1>0 DEF OpenWindow, Paint, Deliver, Heartbeat, RequestAdvance, LeavePage,
              Vanish, Blacken, screenVars
<1>4. \A x \in Outputs \ {o} : up'[x] = up[x]
  <2>1. up' = up \/ (\E ms : Post(o, ms)) \/ up' = [up EXCEPT ![o] = <<>>]
    BY DEF OpenWindow, Paint, Deliver, Reply, Heartbeat, RequestAdvance,
           LeavePage, Vanish
  <2> QED BY <1>0, <2>1 DEF Post
<1>5. ASSUME NEW x \in Outputs, x # o PROVE Seen(x)'
  <2>1. Asks(x) => Asks(x)'
    BY <1>4, <1>5 DEF Asks
  <2> QED BY <1>0, <1>1, <1>3, <1>5, <2>1, StillSeen
<1>6. Seen(o)'
  <2>1. CASE OpenWindow(o)
    <3>1. InOrder(o)'
      BY <1>0, <1>1, <2>1 DEF OpenWindow, Seen, InOrder
    <3>2. Served(o)'
      <4> SUFFICES ASSUME state # None PROVE Asks(o)'
        BY <1>0 DEF Served
      <4>1. control
        BY <1>0 DEF OneState
      <4>2. up[o] = <<>>
        BY <2>1 DEF OpenWindow, ListInv, Untouched
      <4>3. up'[o] = <<Hello, RequestState>>
        BY <1>0, <2>1, <4>1, <4>2 DEF OpenWindow, Post
      <4> QED BY <4>3 DEF Asks, Hello
    <3> QED BY <3>1, <3>2 DEF Seen
  <2>2. CASE Paint(o)
    <3>1. /\ Asks(o)' = Asks(o) /\ UNCHANGED <<win, applied, down>>
          /\ shown'[o] = shown[o] \/ shown[o] = None
      BY <1>0, <2>2 DEF Paint, Asks
    <3> QED BY <1>0, <1>1, <3>1, StillSeen
  <2>3. CASE Deliver(o)
    BY <2>3, DeliverSeen
  <2>4. CASE Heartbeat(o) \/ \E delta \in {-1, 1} : RequestAdvance(o, delta)
    <3>1. PICK m \in Messages : Post(o, <<m>>)
      BY <1>0, <2>4, AckedType, MessageTypes DEF Heartbeat, RequestAdvance
    <3>2. UNCHANGED <<win, applied, down, shown>>
      BY <2>4 DEF Heartbeat, RequestAdvance, screenVars
    <3> QED BY <1>0, <1>1, <3>1, <3>2, PostedAsks, StillSeen
  <2>5. CASE LeavePage(o) \/ Vanish(o)
    <3>1. /\ win'[o] # "open" /\ applied'[o] = None /\ down'[o] = <<>>
      BY <1>0, <2>5 DEF LeavePage, Vanish, Blacken
    <3>2. Newest' \in State /\ Newest.revision <= Newest'.revision
      BY <1>0, <1>1
    <3> QED BY <1>0, <3>1, <3>2, DarkSeen
  <2> QED BY <2>1, <2>2, <2>3, <2>4, <2>5
<1> QED BY <1>2, <1>5, <1>6

LEMMA ScreensInductive ==
    ASSUME ~LosesWrites
    PROVE  ListInv /\ ScreenInv /\ [Next]_vars => ScreenInv'
<1> SUFFICES ASSUME ListInv, ScreenInv, [Next]_vars PROVE ScreenInv'
  OBVIOUS
<1>1. CASE UNCHANGED vars \/ \E o \in Outputs, allowed \in BOOLEAN : GrantAdvance(o, allowed)
  <2>1. UNCHANGED <<state, db, mirror, win, applied, shown, up, down, last>>
    BY <1>1 DEF vars, screenVars, GrantAdvance
  <2>2. Newest' = Newest /\ Saved'
    BY <2>1 DEF ScreenInv, Newest, Saved, Writes, vars, GrantAdvance, OneState
  <2>3. ASSUME NEW o \in Outputs PROVE Seen(o)'
    <3>1. Asks(o)' = Asks(o)
      BY <2>1 DEF Asks
    <3> QED BY <2>1, <2>2, <3>1, StillSeen DEF ScreenInv, Seen
  <2> QED BY <2>2, <2>3 DEF ScreenInv, Seen
<1>2. CASE OpenControl \/ Operate \/ Finish \/ CloseControl
  BY <1>2, PageScreens DEF ScreenInv, Seen
<1>3. CASE Commit
  BY <1>3, CommitScreens DEF ScreenInv, Seen
<1>4. ASSUME NEW o \in Outputs, Receive(o) PROVE ScreenInv'
  BY <1>4, ReceiveScreens DEF ScreenInv, Seen
<1>5. ASSUME NEW o \in Outputs, AttachPeer(o) PROVE ScreenInv'
  BY <1>5, AttachScreens DEF ScreenInv, Seen
<1>6. ASSUME NEW o \in Outputs,
             \/ OpenWindow(o) \/ Paint(o) \/ Deliver(o) \/ Heartbeat(o)
             \/ \E delta \in {-1, 1} : RequestAdvance(o, delta)
             \/ LeavePage(o) \/ Vanish(o)
      PROVE  ScreenInv'
  BY <1>6, ScreenScreens DEF ScreenInv, Seen
<1> QED BY <1>1, <1>2, <1>3, <1>4, <1>5, <1>6 DEF Next

LEMMA InitScreens == Init => ScreenInv
<1> SUFFICES ASSUME Init PROVE ScreenInv
  OBVIOUS
<1>1. /\ \A o \in Outputs : Len(down[o]) = 0 /\ applied[o] = None
      /\ Len(db) = 0 /\ mirror = Created /\ Newest = Created /\ state = None
  BY DEF Init, Empty, Newest
<1>2. Saved
  BY <1>1 DEF Saved, Writes
<1>3. \A o \in Outputs : InOrder(o) /\ Served(o)
  BY <1>1 DEF InOrder, Served
<1> QED BY <1>2, <1>3 DEF ScreenInv

LEMMA ScreensStay ==
    ASSUME ~LosesWrites
    PROVE  Spec => [](ListInv /\ ScreenInv)
<1>1. ListInv /\ ScreenInv /\ [Next]_vars => (ListInv /\ ScreenInv)'
  BY ListInductive, ScreensInductive
<1>2. Init => ListInv /\ ScreenInv
  BY InitList, InitScreens
<1> QED BY <1>1, <1>2, PTL DEF Spec

\* However often windows are opened, closed and reloaded, a screen that has
\* nothing on its way shows what the control shows, when the browser finishes
\* the writes of a page that goes.
THEOREM EveryScreenFollows ==
    ASSUME ~LosesWrites
    PROVE  Spec => []ScreensFollow
<1>1. ListInv /\ ScreenInv => ScreensFollow
  <2> SUFFICES ASSUME ScreenInv, NEW o \in Outputs, Open(o), AtRest(o)
               PROVE  shown[o] = state
    BY DEF ScreensFollow
  <2>1. ~Asks(o)
    BY DEF AtRest, Asks
  <2> QED BY <2>1 DEF ScreenInv, Served, AtRest
<1> QED BY <1>1, ScreensStay, PTL

\* Nothing that is sent to a screen is ignored as old, under the same
\* assumption: the mirror a control starts from is the newest state.
THEOREM NothingSentIsIgnored ==
    ASSUME ~LosesWrites
    PROVE  Spec => []NothingIsIgnored
<1>1. ListInv /\ ScreenInv => NothingIsIgnored
  <2> SUFFICES ASSUME ListInv, ScreenInv, NEW o \in Outputs, NEW s \in ToSet(down[o])
               PROVE  Newer(o, s)
    BY DEF NothingIsIgnored
  <2>1. /\ down[o] \in Seq(State) /\ applied[o] \in Nat \cup {None}
        /\ \A i \in 1..Len(down[o]) : down[o][i].revision \in Nat
    BY WireFacts DEF ListInv, PresentationTypeOK
  <2>2. PICK i \in DOMAIN down[o] : s = down[o][i]
    BY DEF ToSet
  <2>3. i \in 1..Len(down[o])
    BY <2>1, <2>2
  <2>4. applied[o] # None => applied[o] <= s.revision
    BY <2>2, <2>3 DEF ScreenInv, InOrder
  <2> QED BY <2>1, <2>2, <2>3, <2>4 DEF Newer
<1> QED BY <1>1, ScreensStay, PTL

\* A session that was ended is never live again, under the same assumption.
THEOREM EndedIsEnded ==
    ASSUME ~LosesWrites
    PROVE  Spec => NoEncore
<1>1. ListInv /\ ScreenInv /\ [Next]_vars => [last # None /\ last.ended => last'.ended]_vars
  <2> SUFFICES ASSUME ListInv, ScreenInv, Next, last # None, last.ended
               PROVE  last'.ended
    OBVIOUS
  <2>0. /\ PresentationTypeOK /\ OneState /\ Saved
        /\ state # None => state = last /\ state \in State
        /\ Newest = last
    BY DEF ListInv, ScreenInv, OneState, Newest, PresentationTypeOK
  <2>1. CASE Operate
    <3>1. PICK next \in State : next.ended = state.ended /\ Apply(next)
      BY <2>0, <2>1, OperateFacts DEF PresentationTypeOK
    <3> QED BY <2>0, <2>1, <3>1 DEF Operate, Apply, Broadcast
  <2>2. CASE Finish
    <3>1. last' = Ended(state) /\ state \in State
      BY <2>0, <2>2 DEF Finish
    <3> QED BY <3>1, StateFacts
  <2>3. CASE Commit
    <3>1. CASE last' = last
      BY <3>1
    <3>2. CASE db # <<>> /\ Head(db).op = "load" /\ mirror # None /\ Broadcast(mirror)
      <4>1. mirror = last
        BY <2>0, <3>2, LoadFinds
      <4> QED BY <3>2, <4>1 DEF Broadcast
    <3> QED BY <2>3, <3>1, <3>2 DEF Commit
  <2>4. ASSUME NEW o \in Outputs, Receive(o) PROVE last'.ended
    BY <2>0, <2>4, ReceiveFacts DEF Apply, Broadcast
  <2>5. CASE last' = last
    BY <2>5
  <2>6. Operate \/ Finish \/ Commit \/ (\E o \in Outputs : Receive(o)) \/ last' = last
    BY DEF Next, OpenControl, CloseControl, GrantAdvance, OpenWindow, Paint,
           AttachPeer, Deliver, Heartbeat, RequestAdvance, LeavePage, Vanish
  <2> QED BY <2>1, <2>2, <2>3, <2>4, <2>5, <2>6
<1> QED BY <1>1, ScreensStay, PTL DEF Spec, NoEncore
=============================================================================
