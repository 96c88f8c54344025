------------------------------ MODULE Sessions ------------------------------
(***************************************************************************)
(* Staying signed in on one device.  The server keeps a row per session    *)
(* (crates/api/src/repo/sessions.rs); its refresh token is single-use and  *)
(* travels in a cookie every window of the device shares, its access token *)
(* lives in the memory of one window (crates/web/src/api/client.rs).       *)
(* Windows take turns to refresh (crates/web/src/app/locks.rs), because a  *)
(* token presented twice ends the whole family.                            *)
(*                                                                         *)
(* A session, its refresh token and its access token are one number: each  *)
(* row is made with one of either, and the row holds the hash of the first.*)
(* Handlers of the server run one SQL statement at a time, side by side:   *)
(* no handler of this module opens a transaction.                          *)
(***************************************************************************)
EXTENDS Naturals, FiniteSets

CONSTANTS
  Windows,      \* windows of the app on one device
  Tasks,        \* what may call the server: pages, the tick of the sync engine
  WindowOf,     \* the window a task runs in
  HasLocks,     \* whether the browser has the Web Locks API
  MaxSessions,  \* bound: rows of the table
  MaxFaults,    \* bound: requests lost, windows closed in the middle, passwords reset
  Nobody        \* no task

ASSUME SessionsAssumption ==
  /\ WindowOf \in [Tasks -> Windows]
  /\ HasLocks \in BOOLEAN
  /\ MaxSessions \in Nat /\ MaxFaults \in Nat
  /\ Nobody \notin Tasks

Sids == 1..MaxSessions
None == 0                       \* no session, no cookie, no token

VARIABLES
  rows,      \* the table `sessions`
  fresh,     \* sessions whose access token has minutes left on it
  cookie,    \* the refresh cookie in the device's jar
  token,     \* ACCESS_TOKEN of each window
  phase,     \* what each window shows
  task,      \* where each task is in `send` and `refresh_once`
  jobs,      \* requests on their way, in a handler, or answered
  turn,      \* the holders of the lock "aurum-refresh"
  excused,   \* history: families a person may find themselves signed out of
  faults     \* history: faults so far

vars == <<rows, fresh, cookie, token, phase, task, jobs, turn, excused, faults>>
server == <<rows, fresh>>
client == <<cookie, token, phase, task, turn>>
history == <<excused, faults>>

NoRow == [family |-> None, revoked |-> FALSE, replaced |-> None, age |-> "young"]
Idle  == [at |-> "idle", op |-> "none", retry |-> FALSE, verdict |-> "none", with |-> None]

Ops      == {"none", "restore", "me", "call", "logout", "login"}
Verdicts == {"none", "ok", "missing", "unknown", "reused", "expired", "revoked", "offline"}

Token == Sids \cup {None}

SessionRow == [family : Token, revoked : BOOLEAN, replaced : Token,
               age : {"young", "lapsed", "purged"}]
TaskState == [at : {"idle", "turn", "refresh", "send"}, op : Ops,
              retry : BOOLEAN, verdict : Verdicts, with : Token]
Request == [of : Tasks \cup {Nobody}, kind : {"refresh", "me", "call", "logout", "login"},
            sid : Token, new : Token,
            stage : {"sent", "reused", "found", "opened", "done"}, verdict : Verdicts]

(***************************************************************************)
(* Every value is of its kind; where there are locks one task has the turn.*)
(***************************************************************************)
SessionsTypeOK ==
  /\ rows \in [Sids -> SessionRow]
  /\ fresh \subseteq Sids
  /\ cookie \in Token
  /\ token \in [Windows -> Token]
  /\ phase \in [Windows -> {"closed", "loading", "ready", "out"}]
  /\ task \in [Tasks -> TaskState]
  /\ jobs \subseteq Request
  /\ turn \subseteq Tasks /\ (HasLocks => \A t, u \in turn : t = u)
  /\ excused \subseteq Sids
  /\ faults \in 0..MaxFaults

Exists(s)  == s # None /\ rows[s].family # None /\ rows[s].age # "purged"
Usable(s)  == ~rows[s].revoked /\ rows[s].age = "young"
Carries(s) == rows[s].age = "young" /\ (~rows[s].revoked \/ rows[s].replaced # None)

Unused == {s \in Sids : rows[s].family = None}
NextSid == CHOOSE s \in Unused : \A r \in Unused : s <= r

Init ==
  /\ rows = [s \in Sids |-> NoRow]
  /\ fresh = {}
  /\ cookie = None
  /\ token = [w \in Windows |-> None]
  /\ phase = [w \in Windows |-> "closed"]
  /\ task = [t \in Tasks |-> Idle]
  /\ jobs = {}
  /\ turn = {}
  /\ excused = {}
  /\ faults = 0

-----------------------------------------------------------------------------
(* The server: crates/api/src/handlers/auth.rs, extract.rs *)

Job(t, kind, sid) ==
  [of |-> t, kind |-> kind, sid |-> sid, new |-> None, stage |-> "sent", verdict |-> "none"]

Advance(j, stage, verdict) ==
  jobs' = (jobs \ {j}) \cup {[j EXCEPT !.stage = stage, !.verdict = verdict]}

(* A new row, of a new family when none is named, and its two tokens. *)
Issue(j, family, stage, verdict) ==
  /\ Unused # {}
  /\ rows' = [rows EXCEPT ![NextSid] =
                [NoRow EXCEPT !.family = IF family = None THEN NextSid ELSE family]]
  /\ fresh' = fresh \cup {NextSid}
  /\ jobs' = (jobs \ {j}) \cup {[j EXCEPT !.new = NextSid, !.stage = stage, !.verdict = verdict]}

(* A right password, and a right code where there is a second factor. *)
Login(j) ==
  /\ j.kind = "login" /\ j.stage = "sent"
  /\ Issue(j, None, "done", "ok")

RefreshFinds(j) ==
  /\ j.kind = "refresh" /\ j.stage = "sent"
  /\ \/ j.sid = None /\ Advance(j, "done", "missing")
     \/ j.sid # None /\ ~Exists(j.sid) /\ Advance(j, "done", "unknown")
     \/ Exists(j.sid) /\ rows[j.sid].revoked /\ Advance(j, "reused", "none")
     \/ /\ Exists(j.sid) /\ ~rows[j.sid].revoked /\ ~Usable(j.sid)
        /\ Advance(j, "done", "expired")
     \/ Exists(j.sid) /\ Usable(j.sid) /\ Advance(j, "found", "none")
  /\ UNCHANGED server

RevokeFamily(j) ==
  /\ j.stage = "reused"
  /\ rows' = [s \in Sids |-> IF rows[s].family = rows[j.sid].family
                             THEN [rows[s] EXCEPT !.revoked = TRUE, !.replaced = None]
                             ELSE rows[s]]
  /\ Advance(j, "done", "reused")
  /\ UNCHANGED fresh

RefreshOpens(j) ==
  /\ j.kind = "refresh" /\ j.stage = "found"
  /\ Issue(j, rows[j.sid].family, "opened", "none")

\* mutant: the row does not say that it was replaced
MarkRevoked(j) ==
  /\ j.kind = "refresh" /\ j.stage = "opened"
  /\ rows' = [rows EXCEPT ![j.sid].revoked = TRUE]
  /\ Advance(j, "done", "ok")
  /\ UNCHANGED fresh

MarkReplaced(j) ==
  /\ j.kind = "refresh" /\ j.stage = "opened"
  /\ rows' = [rows EXCEPT ![j.sid].revoked = TRUE, ![j.sid].replaced = j.new]
  /\ Advance(j, "done", "ok")
  /\ UNCHANGED fresh

(* The extractor `Caller`: the token's own time first, then its row. *)
Caller(sid) ==
  CASE sid = None                           -> "missing"
    [] sid # None /\ sid \notin fresh       -> "expired"
    [] sid \in fresh /\ (~Exists(sid) \/ ~Carries(sid)) -> "revoked"
    [] sid \in fresh /\ Exists(sid) /\ Carries(sid)     -> "ok"

Answer(j) ==
  /\ j.kind \in {"me", "call"} /\ j.stage = "sent"
  /\ Advance(j, "done", Caller(j.sid))
  /\ UNCHANGED server

LogoutFinds(j) ==
  /\ j.kind = "logout" /\ j.stage = "sent"
  /\ IF Caller(j.sid) = "ok"
     THEN Advance(j, "found", "none")
     ELSE Advance(j, "done", Caller(j.sid))
  /\ UNCHANGED server

Revoke(j) ==
  /\ j.kind = "logout" /\ j.stage = "found"
  /\ rows' = IF rows[j.sid].revoked THEN rows
             ELSE [rows EXCEPT ![j.sid].revoked = TRUE, ![j.sid].replaced = None]
  /\ Advance(j, "done", "ok")
  /\ UNCHANGED fresh

(* A step of the handler of one request. *)
Handle(t) ==
  /\ \E j \in jobs :
       /\ j.of = t
       /\ \/ Login(j) \/ RefreshFinds(j) \/ RevokeFamily(j) \/ RefreshOpens(j)
          \/ MarkReplaced(j) \/ Answer(j) \/ LogoutFinds(j) \/ Revoke(j)
       /\ excused' = IF j.kind = "logout" /\ j.stage = "found"
                     THEN excused \cup {rows[j.sid].family} ELSE excused
  /\ UNCHANGED <<client, faults>>

(* A reset from the link in a mail: `revoke_all_for_user`. *)
ResetPassword ==
  /\ faults < MaxFaults /\ faults' = faults + 1
  /\ \E s \in Sids : Exists(s) /\ ~rows[s].revoked
  /\ rows' = [s \in Sids |-> IF Exists(s) /\ ~rows[s].revoked
                             THEN [rows[s] EXCEPT !.revoked = TRUE, !.replaced = None]
                             ELSE rows[s]]
  /\ excused' = excused \cup {rows[s].family : s \in {r \in Sids : Exists(r)}}
  /\ UNCHANGED <<fresh, client, jobs>>

(* Fifteen minutes: the oldest access token runs out. *)
TokenExpires ==
  /\ \E s \in fresh : (\A r \in fresh : s <= r) /\ fresh' = fresh \ {s}
  /\ UNCHANGED <<rows, client, jobs, history>>

(* Thirty days: the oldest session runs out, long after its access token. *)
SessionLapses ==
  /\ \E s \in Sids \ fresh :
       /\ Exists(s) /\ \A r \in Sids : rows[r].age = "young" <=> s <= r
       /\ rows' = [rows EXCEPT ![s].age = "lapsed"]
       /\ excused' = excused \cup {rows[s].family}
  /\ UNCHANGED <<fresh, client, jobs, faults>>

(* The nightly purge: `purge_expired`. *)
PurgeExpired ==
  /\ \E s \in Sids : rows[s].age = "lapsed"
  /\ rows' = [s \in Sids |-> IF rows[s].age = "lapsed" THEN [rows[s] EXCEPT !.age = "purged"]
                             ELSE rows[s]]
  /\ UNCHANGED <<fresh, client, jobs, history>>

-----------------------------------------------------------------------------
(* The windows: crates/web/src/api/client.rs, app/locks.rs, routes.rs *)

Of(t) == WindowOf[t]

Send(t, kind, tok, retry) ==
  /\ task' = [task EXCEPT ![t] = [at |-> "send", op |-> kind, retry |-> retry,
                                  verdict |-> "none", with |-> None]]
  /\ jobs' = {j \in jobs : j.of # t} \cup {Job(t, kind, tok)}

(* What a task began is over, and this is what it was told of which token. *)
Finish(t, v, sid) ==
  /\ task' = [task EXCEPT ![t] = [Idle EXCEPT !.verdict = v, !.with = sid]]
  /\ jobs' = {j \in jobs : j.of # t}

(* Bound: what is begun finds a free row, twice for a task at most. *)
Room(t) ==
  Cardinality(Unused) >= 2 * Cardinality({u \in Tasks : u = t \/ task[u].at # "idle"})
                         + Cardinality({j \in jobs : j.of = Nobody})

(* The app starts: `restore` asks for a token before anything is shown. *)
Start(t) ==
  /\ Room(t)
  /\ phase[Of(t)] = "closed" /\ task[t].at = "idle"
  /\ phase' = [phase EXCEPT ![Of(t)] = "loading"]
  /\ task' = [task EXCEPT ![t] = [Idle EXCEPT !.at = "turn", !.op = "restore"]]
  /\ UNCHANGED <<server, cookie, token, jobs, turn, history>>

Ask(t) ==
  /\ Room(t)
  /\ task[t].at = "idle"
  /\ \/ phase[Of(t)] = "ready" /\ \E op \in {"call", "logout"} : Send(t, op, token[Of(t)], TRUE)
     \/ phase[Of(t)] = "out" /\ Send(t, "login", token[Of(t)], TRUE)
  /\ UNCHANGED <<server, cookie, token, phase, turn, history>>

(* `in_turn`: the cookie is read when it is this task's turn. *)
TakeTurn(t) ==
  /\ task[t].at = "turn"
  /\ HasLocks => turn = {}
  /\ turn' = turn \cup {t}
  /\ task' = [task EXCEPT ![t].at = "refresh"]
  /\ jobs' = jobs \cup {Job(t, "refresh", cookie)}
  /\ UNCHANGED <<server, cookie, token, phase, history>>

(* A failure is a failure of what was begun: a start or the first question *)
(* of a signed-in window ends at the sign-in screen, and so does a sign-out*)
(* whatever its answer.                                                    *)
Fail(t, j) ==
  /\ Finish(t, j.verdict, j.sid)
  /\ phase' = IF task[t].op \in {"restore", "me", "logout"}
              THEN [phase EXCEPT ![Of(t)] = "out"] ELSE phase

\* mutant: the answer is used and the jar is left as it was
KeepOldCookie(t, j) ==
  /\ j.kind = "refresh"
  /\ turn' = turn \ {t}
  /\ IF j.verdict = "ok"
     THEN /\ token' = [token EXCEPT ![Of(t)] = j.new]
          /\ Send(t, task[t].op, j.new, FALSE)
          /\ UNCHANGED phase
     ELSE /\ token' = [token EXCEPT ![Of(t)] = None]
          /\ Fail(t, j)
  /\ UNCHANGED cookie

RefreshAnswered(t, j) ==
  /\ j.kind = "refresh"
  /\ turn' = turn \ {t}
  /\ IF j.verdict = "ok"
     THEN /\ cookie' = j.new
          /\ token' = [token EXCEPT ![Of(t)] = j.new]
          /\ IF task[t].op = "restore" THEN Send(t, "me", j.new, TRUE)
                                       ELSE Send(t, task[t].op, j.new, FALSE)
          /\ UNCHANGED phase
     ELSE /\ token' = [token EXCEPT ![Of(t)] = None]
          /\ Fail(t, j)
          /\ UNCHANGED cookie

(* 401 for a token that ran out, or in a window that has none: one refresh *)
(* and one more try.  Any other 401 is an error for whoever asked.         *)
Unauthorized(t, j) ==
  /\ j.kind # "refresh" /\ j.verdict # "ok"
  /\ IF task[t].retry /\ (j.verdict = "expired" \/ token[Of(t)] = None)
     THEN /\ task' = [task EXCEPT ![t].at = "turn"]
          /\ jobs' = jobs \ {j}
          /\ UNCHANGED phase
     ELSE Fail(t, j)
  /\ UNCHANGED <<cookie, token, turn>>

Granted(t, j) ==
  /\ j.kind # "refresh" /\ j.verdict = "ok"
  /\ Finish(t, "ok", None)
  /\ \/ j.kind = "call" /\ UNCHANGED <<cookie, token, phase>>
     \/ /\ j.kind = "me"
        /\ phase' = [phase EXCEPT ![Of(t)] = "ready"]
        /\ UNCHANGED <<cookie, token>>
     \/ /\ j.kind = "login"
        /\ phase' = [phase EXCEPT ![Of(t)] = "ready"]
        /\ cookie' = j.new
        /\ token' = [token EXCEPT ![Of(t)] = j.new]
     \/ /\ j.kind = "logout"
        /\ phase' = [phase EXCEPT ![Of(t)] = "out"]
        /\ cookie' = None
        /\ token' = [token EXCEPT ![Of(t)] = None]
  /\ UNCHANGED turn

Receive(t) ==
  /\ \E j \in jobs :
       /\ j.of = t /\ j.stage = "done"
       /\ RefreshAnswered(t, j) \/ Unauthorized(t, j) \/ Granted(t, j)
  /\ UNCHANGED <<server, excused, faults>>

-----------------------------------------------------------------------------
(* Faults *)

(* The server goes on with what it was asked; nobody hears the answer.  A  *)
(* rotation nobody hears of is one the jar does not follow.                *)
Orphan(ts, lost) ==
  /\ jobs' = {j \in jobs : j.of \notin ts} \cup
             {[j EXCEPT !.of = Nobody] : j \in {k \in jobs : k.of \in ts /\ k \notin lost}}
  /\ excused' = excused \cup
       {rows[j.sid].family : j \in {k \in jobs : k.of \in ts /\ k.kind = "refresh"
                                               /\ k.sid # None /\ k \notin lost}}

Lost(ts) == {{}, {j \in jobs : j.of \in ts /\ j.stage = "sent"}}

(* The network is gone: before the server heard of it, or before the       *)
(* answer came back.  Says nothing about the session.                      *)
Disconnect(t) ==
  /\ faults < MaxFaults /\ faults' = faults + 1
  /\ task[t].at \in {"refresh", "send"}
  /\ \E lost \in Lost({t}) : Orphan({t}, lost)
  /\ task' = [task EXCEPT ![t] = [Idle EXCEPT !.verdict = "offline"]]
  /\ phase' = IF task[t].op \in {"restore", "me", "logout"}
              THEN [phase EXCEPT ![Of(t)] = "out"] ELSE phase
  /\ turn' = turn \ {t}
  /\ UNCHANGED <<server, cookie, token>>

\* mutant: a closed window keeps its turn
CloseHolding(w) ==
  /\ faults < MaxFaults /\ faults' = faults + 1
  /\ phase[w] # "closed"
  /\ phase' = [phase EXCEPT ![w] = "closed"]
  /\ token' = [token EXCEPT ![w] = None]
  /\ LET ts == {t \in Tasks : Of(t) = w} IN
       /\ task' = [t \in Tasks |-> IF t \in ts THEN Idle ELSE task[t]]
       /\ \E lost \in Lost(ts) : Orphan(ts, lost)
  /\ UNCHANGED <<server, cookie, turn>>

(* A window is closed: its memory is gone and its lock is free. *)
Close(w) ==
  /\ faults < MaxFaults /\ faults' = faults + 1
  /\ phase[w] # "closed"
  /\ phase' = [phase EXCEPT ![w] = "closed"]
  /\ token' = [token EXCEPT ![w] = None]
  /\ LET ts == {t \in Tasks : Of(t) = w} IN
       /\ task' = [t \in Tasks |-> IF t \in ts THEN Idle ELSE task[t]]
       /\ turn' = turn \ ts
       /\ \E lost \in Lost(ts) : Orphan(ts, lost)
  /\ UNCHANGED <<server, cookie>>

-----------------------------------------------------------------------------

Next ==
  \/ \E t \in Tasks \cup {Nobody} : Handle(t)
  \/ ResetPassword \/ TokenExpires \/ SessionLapses \/ PurgeExpired
  \/ \E t \in Tasks : Start(t) \/ Ask(t) \/ TakeTurn(t) \/ Receive(t) \/ Disconnect(t)
  \/ \E w \in Windows : Close(w)

(* The server answers, an answer is heard, and a lock that is free again   *)
(* and again is granted in the order it was asked for.                     *)
Fairness ==
  /\ \A t \in Tasks \cup {Nobody} : WF_vars(Handle(t))
  /\ \A t \in Tasks : SF_vars(TakeTurn(t)) /\ WF_vars(Receive(t))

Spec == Init /\ [][Next]_vars /\ Fairness

-----------------------------------------------------------------------------

Refreshing == \E j \in jobs : j.kind = "refresh" /\ j.of # Nobody

(***************************************************************************)
(* Nobody is signed out, nor has a request refused as revoked, for having  *)
(* several windows open: unless a person signed out or reset the password, *)
(* the session lapsed, or the answer of a rotation was lost, no window is  *)
(* told that its token was used, is unknown, or was revoked (locks.rs:     *)
(* "taking turns means each window presents the cookie the last one left   *)
(* behind"; sessions.rs: a replaced session still carries).                *)
(***************************************************************************)
NeverThrownOut ==
  \A t \in Tasks :
    task[t].verdict \in {"unknown", "reused", "revoked"} =>
      task[t].with # None /\ rows[task[t].with].family \in excused

\* One task of a device has its turn at a time, and no window of a device that
\* lost nothing is thrown out (sessions.rs:75, auth.rs:456).
SessionsHold == SessionsTypeOK /\ NeverThrownOut

(***************************************************************************)
(* Between two rotations the jar holds the one token of its family that    *)
(* can still be presented.                                                 *)
(***************************************************************************)
CookieIsCurrent ==
  cookie # None /\ ~Refreshing /\ rows[cookie].family \notin excused =>
    /\ Exists(cookie) /\ Usable(cookie)
    /\ \A s \in Sids : rows[s].family = rows[cookie].family /\ Usable(s) => s = cookie

(***************************************************************************)
(* Whatever a window began comes to an end: no window waits for ever for   *)
(* its turn at the cookie, whoever else was closed or cut off holding it.  *)
(***************************************************************************)
EveryCallEnds == \A t \in Tasks : task[t].at # "idle" ~> task[t].at = "idle"
-----------------------------------------------------------------------------
(* The inductive invariant. *)

Family(s) == rows[s].family

(* A session of a family a person may not find themselves signed out of. *)
Kept(s) == s # None /\ Family(s) \notin excused

(* The one session of its family whose refresh token may be presented. *)
Current(s) ==
  /\ ~rows[s].revoked
  /\ \A r \in Sids : Family(r) = Family(s) /\ ~rows[r].revoked => r = s

(* A family is named after its first session, and while nothing excuses it *)
(* its sessions are young and were revoked by a rotation only.             *)
RowsHold ==
  /\ \A s \in Sids : Family(s) # None => Family(Family(s)) = Family(s)
  /\ \A s \in Sids : Family(s) # None /\ Kept(s) =>
       rows[s].age = "young" /\ (rows[s].revoked => rows[s].replaced # None)

(* Every token that is anywhere was issued. *)
Issued(s) == s # None => Family(s) # None

TokensHold ==
  /\ \A s \in fresh : Issued(s)
  /\ Issued(cookie)
  /\ \A w \in Windows : Issued(token[w])
  /\ \A t \in Tasks : Issued(task[t].with)
  /\ \A j \in jobs : Issued(j.sid) /\ Issued(j.new)

(* A task has one request, which says where the task is; it refreshes in   *)
(* its turn.                                                               *)
TasksHold ==
  /\ \A j \in jobs : j.of # Nobody =>
       task[j.of].at = IF j.kind = "refresh" THEN "refresh" ELSE "send"
  /\ \A j, k \in jobs : j.of = k.of /\ j.of # Nobody => j = k
  /\ \A t \in Tasks : task[t].at = "refresh" <=> t \in turn
  /\ \A t \in Tasks : task[t].at # "idle" => task[t].op # "none"
  /\ \A t \in Tasks : task[t].at = "send" => task[t].op # "restore"

InFlight == {j \in jobs : j.kind = "refresh" /\ j.of # Nobody}

(* What a handler found out of a token, and what it will answer. *)
HandlerHolds(j) ==
  /\ j.stage \in {"found", "opened", "reused"} => j.sid # None
  /\ j.stage \in {"opened", "reused"} => j.kind = "refresh"
  /\ j.stage = "found" => j.kind \in {"refresh", "logout"}
  /\ j.kind = "refresh" /\ (j.stage = "opened" \/ (j.stage = "done" /\ j.verdict = "ok")) =>
       j.sid # None /\ j.new # None /\ Family(j.new) = Family(j.sid)
  /\ j.stage = "reused" => ~Kept(j.sid)
  /\ j.stage = "done" /\ j.verdict \in {"unknown", "reused", "revoked"} =>
       j.sid # None /\ ~Kept(j.sid)
  /\ j.kind = "refresh" /\ j.of = Nobody => ~Kept(j.sid)

(* The rotation that a window waits for: what it presented is the current  *)
(* token of its family until the row says that it was replaced.            *)
RotationHolds(j) ==
  Kept(j.sid) =>
    /\ j.stage \in {"sent", "found"} => Current(j.sid)
    /\ j.stage = "opened" =>
         /\ j.new # j.sid /\ ~rows[j.sid].revoked /\ ~rows[j.new].revoked
         /\ \A r \in Sids : Family(r) = Family(j.sid) /\ ~rows[r].revoked =>
              r \in {j.sid, j.new}
    /\ j.stage = "done" => j.verdict = "ok" /\ Current(j.new)

(* The session of a login that nobody was told of yet: nobody has it. *)
LoginHolds(j) ==
  /\ j.stage \in {"sent", "done"}
  /\ j.stage = "done" =>
       /\ j.verdict = "ok"
       /\ j.new # None /\ Family(j.new) = j.new
       /\ \A r \in Sids : Family(r) = j.new => r = j.new
       /\ Kept(j.new) => ~rows[j.new].revoked
       /\ cookie # None => Family(cookie) # j.new
       /\ \A k \in jobs : k.kind = "refresh" /\ k.sid # None => Family(k.sid) # j.new
       /\ \A k \in jobs : k.kind = "login" /\ k.new = j.new => k = j

(* The jar holds what is being rotated, or else a current token. *)
JarHolds ==
  Kept(cookie) =>
    \/ \E j \in InFlight : j.sid = cookie
    \/ /\ Current(cookie)
       /\ \A j \in InFlight : j.sid # None => Family(j.sid) # Family(cookie)

SessionsInv ==
  /\ SessionsTypeOK
  /\ RowsHold /\ TokensHold /\ TasksHold
  /\ \A j \in jobs : HandlerHolds(j) /\ (j.kind = "login" => LoginHolds(j))
  /\ \A j \in InFlight : RotationHolds(j)
  /\ JarHolds
  /\ NeverThrownOut
=============================================================================
