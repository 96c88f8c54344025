--------------------------- MODULE SessionsProofs ---------------------------
(***************************************************************************)
(* Nobody is thrown out for having several windows open, and a mail arrives*)
(* once: theorems about the sessions of one device, for any windows, tasks *)
(* and bounds, and about the queue of mails (module MailQueue).            *)
(***************************************************************************)
EXTENDS MCSessions, Sequences, WellFoundedInduction, TLAPS

-----------------------------------------------------------------------------
(* The operators. *)

(* A row that is free, the first one. *)
LEMMA NextIsUnused ==
  ASSUME Unused # {}
  PROVE  NextSid \in Unused /\ NextSid \in Sids /\ Family(NextSid) = None
<1>1. Unused \subseteq Nat
  BY SessionsAssumption DEF Unused, Sids
<1>2. PICK s \in Unused : \A r \in Unused : ~ (<<r, s>> \in OpToRel(<, Nat))
  BY <1>1, WFMin, NatLessThanWellFounded
<1>3. ASSUME NEW r \in Unused PROVE s <= r
  <2>1. ~ (r < s) /\ r \in Nat /\ s \in Nat
    BY <1>1, <1>2 DEF OpToRel
  <2> QED BY <2>1
<1>4. NextSid \in Unused
  BY <1>2, <1>3 DEF NextSid
<1> QED BY <1>4 DEF Unused, Family

LEMMA NobodyIsNoTask == \A t \in Tasks : t # Nobody
BY SessionsAssumption

LEMMA SidFacts == \A s \in Sids : s # None /\ s \in Token
BY SessionsAssumption DEF Sids, None, Token

LEMMA JobFacts ==
  ASSUME NEW t \in Tasks, NEW kind \in {"refresh", "me", "call", "logout", "login"},
         NEW sid \in Token
  PROVE  /\ Job(t, kind, sid) \in Request
         /\ Job(t, kind, sid).of = t /\ Job(t, kind, sid).kind = kind
         /\ Job(t, kind, sid).sid = sid /\ Job(t, kind, sid).new = None
         /\ Job(t, kind, sid).stage = "sent" /\ Job(t, kind, sid).verdict = "none"
BY DEF Job, Request, Token, Verdicts

LEMMA RequestFields ==
  ASSUME NEW j \in Request
  PROVE  /\ j.of \in Tasks \cup {Nobody}
         /\ j.kind \in {"refresh", "me", "call", "logout", "login"}
         /\ j.sid \in Token /\ j.new \in Token
         /\ j.stage \in {"sent", "reused", "found", "opened", "done"}
         /\ j.verdict \in Verdicts
BY DEF Request

(* A step of a handler takes a request on, and leaves the others. *)
Stepped(j, k) ==
  /\ k \in Request
  /\ k.of = j.of /\ k.kind = j.kind /\ k.sid = j.sid
  /\ jobs' = (jobs \ {j}) \cup {k}

LEMMA AdvanceFacts ==
  ASSUME NEW j \in Request, NEW stage \in {"sent", "reused", "found", "opened", "done"},
         NEW verdict \in Verdicts, Advance(j, stage, verdict)
  PROVE  \E k \in Request : /\ Stepped(j, k) /\ k.new = j.new
                            /\ k.stage = stage /\ k.verdict = verdict
<1> DEFINE k == [j EXCEPT !.stage = stage, !.verdict = verdict]
<1>1. /\ k \in Request /\ k.of = j.of /\ k.kind = j.kind /\ k.sid = j.sid
      /\ k.new = j.new /\ k.stage = stage /\ k.verdict = verdict
  BY DEF Request
<1>2. jobs' = (jobs \ {j}) \cup {k}
  BY DEF Advance
<1> HIDE DEF k
<1> QED BY <1>1, <1>2 DEF Stepped

(* The row that is made, of a family of its own or of the one that is named. *)
LEMMA IssueFacts ==
  ASSUME SessionsTypeOK, NEW j \in Request, NEW family \in Token,
         NEW stage \in {"sent", "reused", "found", "opened", "done"},
         NEW verdict \in Verdicts, Issue(j, family, stage, verdict)
  PROVE  \E n \in Sids :
           /\ Family(n) = None
           /\ rows' \in [Sids -> SessionRow] /\ fresh' = fresh \cup {n}
           /\ \A s \in Sids : s # n => rows'[s] = rows[s]
           /\ rows'[n].family = IF family = None THEN n ELSE family
           /\ ~rows'[n].revoked /\ rows'[n].age = "young"
           /\ \E k \in Request : /\ Stepped(j, k) /\ k.new = n
                                 /\ k.stage = stage /\ k.verdict = verdict
<1>1. PICK n \in Sids : n = NextSid /\ Family(n) = None
  BY NextIsUnused DEF Issue
<1> DEFINE f == IF family = None THEN n ELSE family
           row == [NoRow EXCEPT !.family = f]
           k == [j EXCEPT !.new = n, !.stage = stage, !.verdict = verdict]
<1>2. /\ rows' = [rows EXCEPT ![n] = row] /\ fresh' = fresh \cup {n}
      /\ jobs' = (jobs \ {j}) \cup {k}
  BY <1>1 DEF Issue
<1>3. f \in Token
  BY SidFacts
<1>4. row \in SessionRow /\ row.family = f /\ ~row.revoked /\ row.age = "young"
  BY <1>3 DEF NoRow, SessionRow, Token
<1>5. /\ k \in Request /\ k.of = j.of /\ k.kind = j.kind /\ k.sid = j.sid
      /\ k.new = n /\ k.stage = stage /\ k.verdict = verdict
  BY SidFacts DEF Request
<1> HIDE DEF k, row
<1>6. /\ rows' \in [Sids -> SessionRow] /\ rows'[n] = row
      /\ \A s \in Sids : s # n => rows'[s] = rows[s]
  BY <1>2, <1>4 DEF SessionsTypeOK
<1>7. Stepped(j, k)
  BY <1>2, <1>5 DEF Stepped
<1> QED BY <1>1, <1>2, <1>4, <1>5, <1>6, <1>7

-----------------------------------------------------------------------------
(* Types. *)

LEMMA InitTypes == Init => SessionsTypeOK
<1> SUFFICES ASSUME Init PROVE SessionsTypeOK
  OBVIOUS
<1>1. NoRow \in SessionRow /\ None \in Token
  BY DEF NoRow, SessionRow, Token
<1>2. Idle \in TaskState
  BY <1>1 DEF Idle, TaskState, Ops, Verdicts
<1> QED BY <1>1, <1>2, SessionsAssumption DEF Init, SessionsTypeOK

LEMMA CallerVerdict ==
  ASSUME fresh \subseteq Sids, NEW sid
  PROVE  /\ Caller(sid) \in Verdicts
         /\ Caller(sid) = "ok" => sid \in fresh /\ sid # None
         /\ Caller(sid) # "unknown" /\ Caller(sid) # "reused"
         /\ Caller(sid) = "revoked" => sid \in fresh /\ (~Exists(sid) \/ ~Carries(sid))
<1>1. CASE sid = None
  BY <1>1, SidFacts DEF Caller, Verdicts
<1>2. CASE sid # None /\ sid \notin fresh
  BY <1>2 DEF Caller, Verdicts
<1>3. CASE sid # None /\ sid \in fresh /\ (~Exists(sid) \/ ~Carries(sid))
  BY <1>3 DEF Caller, Verdicts
<1>4. CASE sid # None /\ sid \in fresh /\ Exists(sid) /\ Carries(sid)
  BY <1>4 DEF Caller, Verdicts
<1> QED BY <1>1, <1>2, <1>3, <1>4

(* The row of a session that is revoked for good. *)
LEMMA RevokedRow ==
  ASSUME NEW row \in SessionRow
  PROVE  [row EXCEPT !.revoked = TRUE, !.replaced = None] \in SessionRow
BY DEF SessionRow, Token

LEMMA SteppedTypes ==
  ASSUME SessionsTypeOK, NEW j, NEW k, Stepped(j, k)
  PROVE  jobs' \subseteq Request
BY DEF Stepped, SessionsTypeOK

(* What a handler does to the table, the requests and the fresh tokens. *)
LEMMA HandleTypes ==
  ASSUME SessionsTypeOK, TokensHold, NEW j \in jobs,
         \/ Login(j) \/ RefreshFinds(j) \/ RevokeFamily(j) \/ RefreshOpens(j)
         \/ MarkReplaced(j) \/ Answer(j) \/ LogoutFinds(j) \/ Revoke(j),
         HandlerHolds(j)
  PROVE  /\ rows' \in [Sids -> SessionRow]
         /\ fresh' \subseteq Sids
         /\ jobs' \subseteq Request
<1>0. /\ j \in Request /\ rows \in [Sids -> SessionRow] /\ fresh \subseteq Sids
      /\ j.sid \in Token /\ j.new \in Token
  BY RequestFields DEF SessionsTypeOK
<1>1. CASE Login(j)
  <2>1. None \in Token /\ "ok" \in Verdicts
    BY DEF Token, Verdicts
  <2>2. Issue(j, None, "done", "ok")
    BY <1>1 DEF Login
  <2> QED BY <1>0, <2>1, <2>2, IssueFacts, SteppedTypes
<1>2. CASE RefreshFinds(j)
  <2>1. PICK stage \in {"done", "reused", "found"}, verdict \in Verdicts :
          Advance(j, stage, verdict)
    BY <1>2 DEF RefreshFinds, Verdicts
  <2>2. jobs' \subseteq Request
    BY <1>0, <2>1, AdvanceFacts, SteppedTypes
  <2> QED BY <1>0, <1>2, <2>2 DEF RefreshFinds, server
<1>3. CASE RevokeFamily(j)
  <2>1. jobs' \subseteq Request
    <3>1. Advance(j, "done", "reused") /\ "reused" \in Verdicts
      BY <1>3 DEF RevokeFamily, Verdicts
    <3> QED BY <1>0, <3>1, AdvanceFacts, SteppedTypes
  <2>2. rows' \in [Sids -> SessionRow]
    BY <1>0, <1>3, RevokedRow DEF RevokeFamily
  <2> QED BY <1>0, <1>3, <2>1, <2>2 DEF RevokeFamily
<1>4. CASE RefreshOpens(j)
  <2>1. Issue(j, rows[j.sid].family, "opened", "none") /\ "none" \in Verdicts
    BY <1>4 DEF RefreshOpens, Verdicts
  <2>2. j.sid \in Sids
    BY <1>0, <1>4 DEF RefreshOpens, HandlerHolds, Token
  <2>3. rows[j.sid].family \in Token
    BY <1>0, <2>2 DEF SessionRow
  <2> QED BY <1>0, <2>1, <2>3, IssueFacts, SteppedTypes
<1>5. CASE MarkReplaced(j)
  <2>1. jobs' \subseteq Request
    <3>1. Advance(j, "done", "ok") /\ "ok" \in Verdicts
      BY <1>5 DEF MarkReplaced, Verdicts
    <3> QED BY <1>0, <3>1, AdvanceFacts, SteppedTypes
  <2>2. rows' \in [Sids -> SessionRow]
    BY <1>0, <1>5 DEF MarkReplaced, SessionRow
  <2> QED BY <1>0, <1>5, <2>1, <2>2 DEF MarkReplaced
<1>6. CASE Answer(j)
  <2>1. jobs' \subseteq Request
    <3>1. Advance(j, "done", Caller(j.sid)) /\ Caller(j.sid) \in Verdicts
      BY <1>0, <1>6, CallerVerdict DEF Answer
    <3> QED BY <1>0, <3>1, AdvanceFacts, SteppedTypes
  <2> QED BY <1>0, <1>6, <2>1 DEF Answer, server
<1>7. CASE LogoutFinds(j)
  <2>1. PICK stage \in {"done", "found"}, verdict \in Verdicts :
          Advance(j, stage, verdict)
    BY <1>0, <1>7, CallerVerdict DEF LogoutFinds, Verdicts
  <2>2. jobs' \subseteq Request
    BY <1>0, <2>1, AdvanceFacts, SteppedTypes
  <2> QED BY <1>0, <1>7, <2>2 DEF LogoutFinds, server
<1>8. CASE Revoke(j)
  <2>1. jobs' \subseteq Request
    <3>1. Advance(j, "done", "ok") /\ "ok" \in Verdicts
      BY <1>8 DEF Revoke, Verdicts
    <3> QED BY <1>0, <3>1, AdvanceFacts, SteppedTypes
  <2>2. rows' \in [Sids -> SessionRow]
    <3> DEFINE r == [rows[j.sid] EXCEPT !.revoked = TRUE, !.replaced = None]
    <3>1. rows \in [Sids -> SessionRow] /\ (rows' = rows \/ rows' = [rows EXCEPT ![j.sid] = r])
      BY <1>0, <1>8 DEF Revoke
    <3>2. ASSUME j.sid \in Sids PROVE r \in SessionRow
      <4>1. rows[j.sid] \in SessionRow
        BY <3>1, <3>2
      <4> QED BY <4>1 DEF SessionRow, Token
    <3> HIDE DEF r
    <3> QED BY <3>1, <3>2
  <2> QED BY <1>0, <1>8, <2>1, <2>2 DEF Revoke
<1> QED BY <1>1, <1>2, <1>3, <1>4, <1>5, <1>6, <1>7, <1>8

(* Every family is a session. *)
LEMMA FamilyType ==
  ASSUME SessionsTypeOK, NEW s \in Sids
  PROVE  /\ Family(s) \in Token /\ (Family(s) # None => Family(s) \in Sids)
         /\ rows[s].family = Family(s)
BY DEF SessionsTypeOK, SessionRow, Family, Token

-----------------------------------------------------------------------------
(* What a step on the server leaves as it was. *)

(* A session keeps its family, and only the sessions of the family F and of *)
(* families that are excused change, or are made.                          *)
Only(F) ==
  /\ excused \subseteq excused'
  /\ \A s \in Sids : Family(s) # None => Family(s)' = Family(s)
  /\ \A s \in Sids : rows'[s] # rows[s] =>
       Family(s)' = F \/ (Family(s)' = Family(s) /\ Family(s) \in excused')

LEMMA KeptBefore ==
  ASSUME NEW F, Only(F), NEW s \in Token, Issued(s), Kept(s)'
  PROVE  Kept(s) /\ s \in Sids /\ Family(s)' = Family(s) /\ Family(s) # None
BY DEF Only, Issued, Kept, Token

LEMMA CurrentStays ==
  ASSUME NEW F, Only(F), NEW s \in Token, Issued(s), Kept(s)',
         Family(s) # F, Current(s)
  PROVE  Current(s)'
<1>1. Kept(s) /\ s \in Sids /\ Family(s)' = Family(s) /\ Family(s) \notin excused'
  BY KeptBefore DEF Kept
<1>2. \A r \in Sids : Family(r)' = Family(s) => rows'[r] = rows[r]
  BY <1>1 DEF Only
<1>3. \A r \in Sids : Family(r)' = Family(s) => Family(r) = Family(s)
  BY <1>2 DEF Family
<1> QED BY <1>1, <1>2, <1>3 DEF Current

LEMMA IssuedStays ==
  ASSUME NEW F, Only(F), NEW s \in Token, Issued(s)
  PROVE  Issued(s)'
BY DEF Only, Issued, Token

LEMMA HandlerStays ==
  ASSUME NEW F, Only(F), NEW i \in Request, Issued(i.sid), Issued(i.new),
         HandlerHolds(i)
  PROVE  HandlerHolds(i)'
<1>1. i.sid \in Token /\ i.new \in Token
  BY RequestFields
<1>2. ~Kept(i.sid) => ~Kept(i.sid)'
  BY <1>1, KeptBefore
<1>3. /\ i.sid # None => Family(i.sid)' = Family(i.sid)
      /\ i.new # None => Family(i.new)' = Family(i.new)
  BY <1>1 DEF Only, Issued, Token
<1> QED BY <1>2, <1>3 DEF HandlerHolds

LEMMA RotationStays ==
  ASSUME NEW F, Only(F), NEW i \in Request, Issued(i.sid), Issued(i.new),
         i.kind = "refresh", HandlerHolds(i), RotationHolds(i),
         Kept(i.sid)' => Family(i.sid) # F
  PROVE  RotationHolds(i)'
<1> SUFFICES ASSUME Kept(i.sid)' PROVE RotationHolds(i)'
  BY DEF RotationHolds
<1>1. i.sid \in Token /\ i.new \in Token
  BY RequestFields
<1>2. /\ Kept(i.sid) /\ i.sid \in Sids /\ Family(i.sid)' = Family(i.sid)
      /\ Family(i.sid) # F /\ Family(i.sid) \notin excused' /\ Family(i.sid) # None
  BY <1>1, KeptBefore DEF Kept
<1>3. \A r \in Sids : Family(r)' = Family(i.sid) =>
        rows'[r] = rows[r] /\ Family(r) = Family(i.sid)
  BY <1>2 DEF Only, Family
<1>4. i.stage \in {"sent", "found"} => Current(i.sid)'
  BY <1>1, <1>2, CurrentStays DEF RotationHolds
<1>5. ASSUME i.stage = "opened"
      PROVE  /\ i.new # i.sid /\ ~rows'[i.sid].revoked /\ ~rows'[i.new].revoked
             /\ \A r \in Sids : Family(r)' = Family(i.sid)' /\ ~rows'[r].revoked =>
                  r \in {i.sid, i.new}
  <2>1. i.new \in Sids /\ Family(i.new)' = Family(i.sid)
    BY <1>1, <1>2, <1>5 DEF HandlerHolds, Only, Issued, Token
  <2> QED BY <1>2, <1>3, <1>5, <2>1 DEF RotationHolds
<1>6. ASSUME i.stage = "done" PROVE i.verdict = "ok" /\ Current(i.new)'
  <2>1. i.verdict = "ok" /\ Current(i.new)
    BY <1>2, <1>6 DEF RotationHolds
  <2>2. Family(i.new) = Family(i.sid) /\ i.new # None
    BY <1>6, <2>1 DEF HandlerHolds
  <2>3. Kept(i.new)'
    BY <1>1, <1>2, <2>2 DEF Kept, Only, Token
  <2> QED BY <1>1, <1>2, <2>1, <2>2, <2>3, CurrentStays
<1> QED BY <1>4, <1>5, <1>6 DEF RotationHolds

(* A login that nobody was told of stays unknown, whatever the others do.  *)
LEMMA LoginStays ==
  ASSUME SessionsTypeOK, NEW F, Only(F), TokensHold,
         NEW i \in jobs, i \in jobs', i.kind = "login", LoginHolds(i),
         i.stage = "done" =>
           /\ i.new # F
           /\ cookie' # None => cookie' = cookie \/ rows'[cookie'].family # i.new
           /\ \A k \in jobs' : k.kind = "refresh" /\ k.sid # None =>
                \/ \E m \in jobs : m.kind = "refresh" /\ m.sid = k.sid
                \/ Family(k.sid)' # i.new
           /\ \A k \in jobs' : k \in jobs \/ k.kind # "login" \/ k.new # i.new
  PROVE  LoginHolds(i)'
<1> SUFFICES ASSUME i.stage = "done" PROVE LoginHolds(i)'
  BY DEF LoginHolds
<1>1. /\ i.new \in Sids /\ Issued(i.new) /\ Family(i.new) = i.new
      /\ cookie \in Token /\ Issued(cookie)
      /\ \A m \in jobs : m.sid \in Token /\ Issued(m.sid)
  BY RequestFields DEF LoginHolds, TokensHold, SessionsTypeOK, Token
<1>2. Family(i.new)' = i.new
  BY <1>1, SidFacts DEF Only
<1>3. \A r \in Sids : Family(r)' = i.new => r = i.new
  <2> SUFFICES ASSUME NEW r \in Sids, Family(r)' = i.new, r # i.new PROVE FALSE
    OBVIOUS
  <2>1. Family(r) # i.new
    BY DEF LoginHolds
  <2>2. rows'[r] # rows[r]
    BY <2>1 DEF Family
  <2> QED BY <2>1, <2>2 DEF Only
<1>4. Kept(i.new)' => ~rows'[i.new].revoked
  <2> SUFFICES ASSUME Kept(i.new)' PROVE ~rows'[i.new].revoked
    OBVIOUS
  <2>1. Kept(i.new) /\ Family(i.new)' # F /\ Family(i.new)' \notin excused'
    BY <1>1, <1>2, KeptBefore DEF Kept, Token
  <2>2. rows'[i.new] = rows[i.new]
    BY <1>1, <1>2, <2>1 DEF Only
  <2> QED BY <2>1, <2>2 DEF LoginHolds
<1>5. cookie' # None => rows'[cookie'].family # i.new
  <2> PICK c \in Token : c = cookie
    BY <1>1
  <2>1. c # None => Family(c)' = Family(c) /\ Family(c) # i.new
    BY <1>1 DEF Only, Issued, Token, LoginHolds
  <2> QED BY <2>1 DEF Family
<1>6. ASSUME NEW k \in jobs', k.kind = "refresh", k.sid # None
      PROVE  Family(k.sid)' # i.new
  <2>1. CASE \E m \in jobs : m.kind = "refresh" /\ m.sid = k.sid
    <3>1. Family(k.sid) # i.new /\ k.sid \in Sids /\ Family(k.sid) # None
      BY <1>1, <1>6, <2>1 DEF LoginHolds, Issued, Token
    <3> QED BY <3>1 DEF Only
  <2> QED BY <1>6, <2>1
<1>7. \A k \in jobs' : k.kind = "login" /\ k.new = i.new => k = i
  BY DEF LoginHolds
<1>8. i.verdict = "ok" /\ i.new # None
  BY DEF LoginHolds
<1> HIDE DEF Family
<1> QED BY <1>2, <1>3, <1>4, <1>5, <1>6, <1>7, <1>8 DEF LoginHolds, Family

(* What a task was told stays excused. *)
LEMMA ToldStays ==
  ASSUME SessionsTypeOK, NEW F, Only(F), NEW t \in Tasks, task'[t] = task[t],
         task[t].verdict \in {"unknown", "reused", "revoked"} =>
           task[t].with # None /\ rows[task[t].with].family \in excused,
         Issued(task[t].with)
  PROVE  /\ task'[t].verdict \in {"unknown", "reused", "revoked"} =>
              task'[t].with # None /\ rows'[task'[t].with].family \in excused'
         /\ Issued(task[t].with)'
<1> PICK s \in Token : s = task[t].with
  BY DEF SessionsTypeOK, TaskState
<1>1. s # None => Family(s)' = Family(s) /\ Family(s) # None
  BY DEF Only, Issued, Token
<1> QED BY <1>1 DEF Only, Family, Issued

-----------------------------------------------------------------------------
(* A step that leaves the windows alone. *)

(* One task refreshes at a time. *)
LEMMA OneInFlight ==
  ASSUME HasLocks, SessionsTypeOK, TasksHold
  PROVE  \A i, k \in InFlight : i = k
<1> SUFFICES ASSUME NEW i \in InFlight, NEW k \in InFlight PROVE i = k
  OBVIOUS
<1>1. i.of \in Tasks /\ k.of \in Tasks
  BY RequestFields DEF InFlight, SessionsTypeOK
<1>2. i.of \in turn /\ k.of \in turn
  BY <1>1 DEF InFlight, TasksHold
<1>3. i.of = k.of
  BY <1>2 DEF SessionsTypeOK
<1> QED BY <1>3 DEF InFlight, TasksHold

LEMMA SteppedTasks ==
  ASSUME TasksHold, NEW j \in jobs, NEW k, Stepped(j, k), UNCHANGED client
  PROVE  TasksHold'
<1>1. \A i \in jobs' : i = k \/ (i \in jobs /\ i # j)
  BY DEF Stepped
<1>2. task' = task /\ turn' = turn
  BY DEF client
<1>3. \A i \in jobs' : i.of # Nobody =>
        task'[i.of].at = IF i.kind = "refresh" THEN "refresh" ELSE "send"
  BY <1>1, <1>2 DEF TasksHold, Stepped
<1>4. \A i, m \in jobs' : i.of = m.of /\ i.of # Nobody => i = m
  BY <1>1 DEF TasksHold, Stepped
<1> QED BY <1>2, <1>3, <1>4 DEF TasksHold

(* A step of the server presents no token, and takes none back. *)
LEMMA SteppedSids ==
  ASSUME NEW j \in jobs, NEW k, Stepped(j, k)
  PROVE  /\ \A i \in InFlight : \E m \in InFlight' : m.sid = i.sid
         /\ \A m \in InFlight' : \E i \in InFlight : m.sid = i.sid
<1>1. \A i \in jobs' : i = k \/ i \in jobs
  BY DEF Stepped
<1>2. \A i \in jobs : i = j \/ i \in jobs'
  BY DEF Stepped
<1>3. k \in jobs'
  BY DEF Stepped
<1> QED BY <1>1, <1>2, <1>3 DEF InFlight, Stepped

LEMMA JarStays ==
  ASSUME SessionsTypeOK, TokensHold, JarHolds, NEW F, Only(F), cookie' = cookie,
         \A i \in InFlight : \E m \in InFlight' : m.sid = i.sid,
         \A m \in InFlight' : \E i \in InFlight : m.sid = i.sid,
         \/ Kept(cookie)' => Family(cookie) # F
         \/ \E i \in InFlight : i.sid = cookie
  PROVE  JarHolds'
<1> PICK c \in Token : c = cookie
  BY DEF SessionsTypeOK
<1> SUFFICES ASSUME Kept(c)'
             PROVE  \/ \E m \in InFlight' : m.sid = c
                    \/ /\ Current(c)'
                       /\ \A m \in InFlight' : m.sid # None => Family(m.sid)' # Family(c)'
  BY DEF JarHolds, Kept, Current, Family
<1>1. Issued(c) /\ \A i \in InFlight : i.sid \in Token /\ Issued(i.sid)
  BY RequestFields DEF TokensHold, SessionsTypeOK, InFlight
<1>2. Kept(c) /\ c \in Sids /\ Family(c)' = Family(c)
  BY <1>1, KeptBefore
<1>3. CASE \E i \in InFlight : i.sid = c
  BY <1>3
<1>4. CASE ~ \E i \in InFlight : i.sid = c
  <2>1. Current(c) /\ \A i \in InFlight : i.sid # None => Family(i.sid) # Family(c)
    BY <1>2, <1>4 DEF JarHolds
  <2>2. Family(c) # F
    BY <1>4 DEF Kept, Family
  <2>3. Current(c)'
    BY <1>1, <2>1, <2>2, CurrentStays
  <2>4. ASSUME NEW m \in InFlight', m.sid # None PROVE Family(m.sid)' # Family(c)'
    <3>1. PICK i \in InFlight : i.sid = m.sid
      OBVIOUS
    <3>2. Family(i.sid)' = Family(i.sid)
      BY <1>1, <2>4, <3>1 DEF Only, Issued, Token
    <3> QED BY <1>2, <2>1, <2>4, <3>1, <3>2
  <2> QED BY <2>3, <2>4
<1> QED BY <1>3, <1>4

(* The rows: what changes or is made is of F and is as a row should be.    *)
LEMMA RowsStay ==
  ASSUME SessionsTypeOK, SessionsTypeOK', RowsHold, NEW F, Only(F),
         \A s \in Sids : Family(s) = None /\ Family(s)' # None =>
           Family(s)' = s \/ \E r \in Sids : Family(r) # None /\ Family(r) = Family(s)',
         \A s \in Sids : rows'[s] # rows[s] /\ Family(s)' = F /\ F # None /\ Kept(s)' =>
           rows'[s].age = "young" /\ (rows'[s].revoked => rows'[s].replaced # None)
  PROVE  RowsHold'
<1>1. ASSUME NEW s \in Sids, Family(s)' # None
      PROVE  \E f \in Sids : Family(s)' = f /\ Family(f)' = f
  <2>1. CASE Family(s)' = s
    BY <2>1
  <2>2. CASE \E r \in Sids : Family(r) # None /\ Family(r) = Family(s)'
    <3>1. PICK r \in Sids : Family(r) # None /\ Family(r) = Family(s)'
      BY <2>2
    <3>2. PICK f \in Sids : f = Family(r)
      BY <3>1, FamilyType
    <3>3. Family(f) = f /\ f # None
      BY <3>1, <3>2, SidFacts DEF RowsHold
    <3> QED BY <3>1, <3>2, <3>3 DEF Only
  <2> QED BY <1>1, <2>1, <2>2 DEF Only
<1>2. ASSUME NEW s \in Sids, Family(s)' # None, Kept(s)'
      PROVE  rows'[s].age = "young" /\ (rows'[s].revoked => rows'[s].replaced # None)
  <2>1. CASE rows'[s] = rows[s]
    <3>1. Family(s) = Family(s)' /\ Kept(s)
      BY <1>2, <2>1 DEF Family, Kept, Only
    <3> QED BY <1>2, <2>1, <3>1 DEF RowsHold
  <2>2. CASE rows'[s] # rows[s]
    <3>1. Family(s)' = F
      BY <1>2, <2>2 DEF Only, Kept
    <3> QED BY <1>2, <2>2, <3>1
  <2> QED BY <2>1, <2>2
<1>3. \A s \in Sids : Family(s)' # None => rows'[rows'[s].family].family = rows'[s].family
  BY <1>1 DEF Family
<1> HIDE DEF Family
<1> QED BY <1>2, <1>3 DEF RowsHold, Family

(* Where the requests stand: K were taken on, and the others keep away from F. *)
Answered(F, K) ==
  \A i \in jobs' :
    \/ /\ i \in K
       /\ Issued(i.sid) /\ Issued(i.new)'
       /\ HandlerHolds(i)'
       /\ i.kind = "login" => LoginHolds(i)'
       /\ i.kind = "refresh" /\ i.of # Nobody => RotationHolds(i)'
    \/ /\ i \in jobs
       /\ i.kind = "refresh" /\ i.of # Nobody /\ Kept(i.sid)' => Family(i.sid) # F
       /\ i.kind = "login" /\ i.stage = "done" =>
            i.new # F /\ \A k \in K : k.kind # "login" \/ k.new # i.new

(* A step that leaves the windows alone: the rows of F may change, and of   *)
(* families that are excused; K is what a handler made of a request.       *)
LEMMA ServerStep ==
  ASSUME HasLocks, SessionsInv, SessionsTypeOK', RowsHold', TasksHold', UNCHANGED client,
         NEW F, Only(F),
         \A s \in fresh' : s \in fresh \/ Issued(s)',
         NEW K, Answered(F, K),
         \A i \in jobs' : i.kind = "refresh" =>
           \E m \in jobs : m.kind = "refresh" /\ m.sid = i.sid,
         \A i \in InFlight : \E m \in InFlight' : m.sid = i.sid,
         \A m \in InFlight' : \E i \in InFlight : m.sid = i.sid,
         \/ Kept(cookie)' => Family(cookie) # F
         \/ \E i \in InFlight : i.sid = cookie
  PROVE  SessionsInv'
<1>0. /\ SessionsTypeOK /\ TokensHold /\ JarHolds /\ NeverThrownOut
      /\ \A i \in jobs : HandlerHolds(i) /\ (i.kind = "login" => LoginHolds(i))
      /\ \A i \in InFlight : RotationHolds(i)
      /\ cookie' = cookie /\ token' = token /\ task' = task
      /\ \A i \in jobs : i \in Request /\ i.sid \in Token /\ i.new \in Token
                         /\ Issued(i.sid) /\ Issued(i.new)
  BY RequestFields DEF SessionsInv, client, TokensHold, SessionsTypeOK
<1>1. TokensHold'
  <2>1. \A s \in fresh' : Issued(s)'
    <3> SUFFICES ASSUME NEW s \in fresh, s \in fresh' PROVE Issued(s)'
      OBVIOUS
    <3> QED BY <1>0, SidFacts, IssuedStays DEF TokensHold, SessionsTypeOK
  <2>2. Issued(cookie)'
    <3> PICK c \in Token : c = cookie
      BY <1>0 DEF SessionsTypeOK
    <3>1. Issued(c)'
      BY <1>0, IssuedStays DEF TokensHold
    <3> QED BY <1>0, <3>1 DEF Issued, Family
  <2>3. ASSUME NEW w \in Windows PROVE Issued(token[w])'
    <3> PICK c \in Token : c = token[w]
      BY <1>0 DEF SessionsTypeOK
    <3>1. Issued(c)'
      BY <1>0, IssuedStays DEF TokensHold
    <3> QED BY <1>0, <3>1 DEF Issued, Family
  <2>4. ASSUME NEW t \in Tasks PROVE Issued(task[t].with)'
    <3> PICK c \in Token : c = task[t].with
      BY <1>0 DEF SessionsTypeOK, TaskState
    <3>1. Issued(c)'
      BY <1>0, IssuedStays DEF TokensHold
    <3> QED BY <1>0, <3>1 DEF Issued, Family
  <2>5. ASSUME NEW i \in jobs' PROVE Issued(i.sid)' /\ Issued(i.new)'
    <3>1. i.sid \in Token /\ i.new \in Token
      BY RequestFields DEF SessionsTypeOK
    <3>2. CASE Issued(i.sid) /\ Issued(i.new)'
      BY <3>1, <3>2, IssuedStays
    <3>3. CASE i \in jobs
      BY <1>0, <3>1, <3>3, IssuedStays
    <3> QED BY <3>2, <3>3 DEF Answered
  <2> HIDE DEF Issued
  <2> QED BY <2>1, <2>2, <2>3, <2>4, <2>5 DEF TokensHold
<1>2. ASSUME NEW i \in jobs' PROVE HandlerHolds(i)'
  <2>1. CASE i \in jobs
    BY <1>0, <2>1, HandlerStays
  <2> QED BY <2>1 DEF Answered
<1>3. ASSUME NEW i \in jobs', i.kind = "refresh", i.of # Nobody PROVE RotationHolds(i)'
  <2>1. CASE i \in jobs /\ (Kept(i.sid)' => Family(i.sid) # F)
    <3>1. i \in InFlight
      BY <1>3, <2>1 DEF InFlight
    <3> QED BY <1>0, <1>3, <2>1, <3>1, RotationStays
  <2> QED BY <1>3, <2>1 DEF Answered
<1>4. ASSUME NEW i \in jobs', i.kind = "login" PROVE LoginHolds(i)'
  <2>1. CASE LoginHolds(i)'
    BY <2>1
  <2>2. CASE /\ i \in jobs
             /\ i.stage = "done" =>
                  i.new # F /\ \A k \in K : k.kind # "login" \/ k.new # i.new
    <3>1. i.stage = "done" => \A k \in jobs' : k \in jobs \/ k.kind # "login" \/ k.new # i.new
      BY <2>2 DEF Answered
    <3>2. \A k \in jobs' : k.kind = "refresh" /\ k.sid # None =>
            \E m \in jobs : m.kind = "refresh" /\ m.sid = k.sid
      OBVIOUS
    <3>3. LoginHolds(i)
      BY <1>0, <1>4, <2>2
    <3>4. i.stage = "done" =>
           /\ i.new # F
           /\ cookie' # None => cookie' = cookie \/ rows'[cookie'].family # i.new
           /\ \A k \in jobs' : k.kind = "refresh" /\ k.sid # None =>
                \/ \E m \in jobs : m.kind = "refresh" /\ m.sid = k.sid
                \/ Family(k.sid)' # i.new
           /\ \A k \in jobs' : k \in jobs \/ k.kind # "login" \/ k.new # i.new
      BY <1>0, <2>2, <3>1, <3>2
    <3> QED BY <1>0, <1>4, <2>2, <3>3, <3>4, LoginStays
  <2> QED BY <1>4, <2>1, <2>2 DEF Answered
<1>5. JarHolds'
  BY <1>0, JarStays
<1>6. NeverThrownOut'
  <2> SUFFICES ASSUME NEW t \in Tasks
               PROVE  task'[t].verdict \in {"unknown", "reused", "revoked"} =>
                        task'[t].with # None /\ rows'[task'[t].with].family \in excused'
    BY DEF NeverThrownOut
  <2>1. /\ task'[t] = task[t] /\ Issued(task[t].with)
        /\ task[t].verdict \in {"unknown", "reused", "revoked"} =>
             task[t].with # None /\ rows[task[t].with].family \in excused
    BY <1>0 DEF NeverThrownOut, TokensHold
  <2> QED BY <1>0, <2>1, ToldStays
<1>7. \A i \in InFlight' : RotationHolds(i)'
  BY <1>3 DEF InFlight
<1> QED BY <1>1, <1>2, <1>4, <1>5, <1>6, <1>7 DEF SessionsInv

(* A step of the handler of j, that makes k of it.  It touches no family,  *)
(* the family that j is rotating, or a family it makes.                    *)
LEMMA HandlerStep ==
  ASSUME HasLocks, SessionsInv, SessionsTypeOK', RowsHold', UNCHANGED client,
         NEW j \in jobs, NEW k, Stepped(j, k), NEW F, Only(F),
         \/ F = None
         \/ j.kind = "refresh" /\ j.sid # None /\ F = Family(j.sid)
         \/ F \in Sids /\ Family(F) = None,
         \A s \in fresh' : s \in fresh \/ Issued(s)',
         Issued(k.new)', HandlerHolds(k)',
         k.kind = "login" => LoginHolds(k)' /\ Family(k.new) = None,
         k.kind = "refresh" /\ k.of # Nobody => RotationHolds(k)'
  PROVE  SessionsInv'
<1>0. /\ SessionsTypeOK /\ RowsHold /\ TokensHold /\ TasksHold /\ JarHolds
      /\ \A i \in jobs : HandlerHolds(i) /\ (i.kind = "login" => LoginHolds(i))
      /\ \A i \in InFlight : RotationHolds(i)
      /\ \A i \in jobs : i \in Request /\ i.sid \in Token /\ i.new \in Token
                         /\ Issued(i.sid) /\ Issued(i.new)
      /\ cookie \in Token /\ Issued(cookie)
  BY RequestFields DEF SessionsInv, TokensHold, SessionsTypeOK
<1>1. TasksHold'
  BY <1>0, SteppedTasks
<1>2. /\ \A i \in InFlight : \E m \in InFlight' : m.sid = i.sid
      /\ \A m \in InFlight' : \E i \in InFlight : m.sid = i.sid
  BY SteppedSids
<1>3. \A i \in jobs' : i = k \/ (i \in jobs /\ i # j)
  BY DEF Stepped
<1>4. \A i \in jobs' : i.kind = "refresh" => \E m \in jobs : m.kind = "refresh" /\ m.sid = i.sid
  BY <1>3 DEF Stepped
<1>5. Issued(k.sid)
  BY <1>0 DEF Stepped
<1>6. \A s \in Token : s # None /\ Issued(s) /\ Kept(s)' /\ Family(s) = F =>
        F \in Sids /\ Family(F) # None /\ F \notin excused'
  <2> SUFFICES ASSUME NEW s \in Sids, Issued(s), Kept(s)', Family(s) = F, s # None
               PROVE  F \in Sids /\ Family(F) # None /\ F \notin excused'
    BY DEF Token
  <2>1. Family(s) # None /\ Family(s) \notin excused'
    BY SidFacts, KeptBefore DEF Kept
  <2>2. F \in Sids /\ Family(F) = F
    BY <1>0, <2>1, FamilyType DEF RowsHold
  <2> QED BY <2>1, <2>2
<1>7. CASE F \in excused'
  <2>1. \A i \in jobs : Kept(i.sid)' => Family(i.sid) # F
    BY <1>0, <1>6, <1>7 DEF Kept
  <2>2. Kept(cookie)' => Family(cookie) # F
    <3> PICK c \in Token : c = cookie
      BY <1>0
    <3>1. Kept(c)' => Family(c) # F
      BY <1>0, <1>6, <1>7 DEF Kept
    <3> QED BY <3>1 DEF client, Kept, Family
  <2>3. \A i \in jobs : i.kind = "login" /\ i.stage = "done" => i.new # F
    <3> SUFFICES ASSUME NEW i \in jobs, i.kind = "login", i.stage = "done", i.new = F
                 PROVE  FALSE
      OBVIOUS
    <3>1. /\ F # None /\ Family(F) = F
          /\ \A m \in jobs : m.kind = "refresh" /\ m.sid # None => Family(m.sid) # F
      BY <1>0 DEF LoginHolds
    <3> QED BY <3>1
  <2>4. Answered(F, {k})
    <3> SUFFICES ASSUME NEW i \in jobs, i # k
                 PROVE  i.kind = "login" /\ i.stage = "done" =>
                          \A m \in {k} : m.kind # "login" \/ m.new # i.new
      BY <1>3, <1>5, <2>1, <2>3 DEF Answered
    <3>1. i.kind = "login" /\ i.stage = "done" => i.new # None /\ Family(i.new) = i.new
      BY <1>0 DEF LoginHolds
    <3>2. k.kind = "login" => Family(k.new) = None
      OBVIOUS
    <3> HIDE DEF Family
    <3> QED BY <3>1, <3>2
  <2> QED BY <1>1, <1>2, <1>4, <2>2, <2>4, ServerStep
<1>8. CASE F \notin excused'
  <2>1. ASSUME NEW i \in jobs, i # j, i.kind = "refresh", i.of # Nobody, Kept(i.sid)'
        PROVE  Family(i.sid) # F
    <3>1. F \in Sids /\ Family(F) = None => Family(i.sid) # F
      BY <1>0, <1>6, <2>1 DEF Kept
    <3>2. F = None => Family(i.sid) # F
      BY <1>0, <1>6, <2>1, SidFacts DEF Kept
    <3>3. ASSUME j.kind = "refresh", j.sid # None, F = Family(j.sid)
          PROVE  Family(i.sid) # F
      <4>1. j.of # Nobody
        <5> SUFFICES ASSUME j.of = Nobody PROVE FALSE
          OBVIOUS
        <5>1. ~Kept(j.sid)
          BY <1>0, <3>3 DEF HandlerHolds
        <5> QED BY <1>8, <3>3, <5>1 DEF Kept, Only
      <4>2. j \in InFlight /\ i \in InFlight
        BY <2>1, <3>3, <4>1 DEF InFlight
      <4> QED BY <1>0, <2>1, <4>2, OneInFlight
    <3> QED BY <3>1, <3>2, <3>3
  <2>2. \/ Kept(cookie)' => Family(cookie) # F
        \/ \E i \in InFlight : i.sid = cookie
    <3> PICK c \in Token : c = cookie /\ Issued(c)
      BY <1>0
    <3> SUFFICES ASSUME Kept(c)' PROVE Family(c) # F \/ \E i \in InFlight : i.sid = c
      BY DEF client, Kept, Family
    <3>1. c # None /\ Kept(c)
      BY KeptBefore DEF Kept
    <3>2. (F \in Sids /\ Family(F) = None) \/ F = None => Family(c) # F
      BY <1>6, <3>1, SidFacts
    <3>3. ASSUME j.kind = "refresh", j.sid # None, F = Family(j.sid)
          PROVE  Family(c) # F \/ \E i \in InFlight : i.sid = c
      <4>1. j.of # Nobody
        <5> SUFFICES ASSUME j.of = Nobody PROVE FALSE
          OBVIOUS
        <5>1. ~Kept(j.sid)
          BY <1>0, <3>3 DEF HandlerHolds
        <5> QED BY <1>8, <3>3, <5>1 DEF Kept, Only
      <4>2. j \in InFlight
        BY <3>3, <4>1 DEF InFlight
      <4> QED BY <1>0, <3>1, <3>3, <4>2 DEF JarHolds
    <3> QED BY <3>2, <3>3
  <2>3. ASSUME NEW i \in jobs, i.kind = "login", i.stage = "done" PROVE i.new # F
    <3>1. /\ i.new # None /\ Family(i.new) = i.new
          /\ \A m \in jobs : m.kind = "refresh" /\ m.sid # None => Family(m.sid) # i.new
      BY <1>0, <2>3 DEF LoginHolds
    <3> QED BY <3>1
  <2>4. Answered(F, {k})
    <3> SUFFICES ASSUME NEW i \in jobs, i # k, i # j
                 PROVE  i.kind = "login" /\ i.stage = "done" =>
                          \A m \in {k} : m.kind # "login" \/ m.new # i.new
      BY <1>3, <1>5, <2>1, <2>3 DEF Answered
    <3>1. i.kind = "login" /\ i.stage = "done" => i.new # None /\ Family(i.new) = i.new
      BY <1>0 DEF LoginHolds
    <3>2. k.kind = "login" => Family(k.new) = None
      OBVIOUS
    <3> HIDE DEF Family
    <3> QED BY <3>1, <3>2
  <2> QED BY <1>1, <1>2, <1>4, <2>2, <2>4, ServerStep
<1> QED BY <1>7, <1>8

(* A step of a handler that only takes the request on. *)
LEMMA QuietStep ==
  ASSUME HasLocks, SessionsInv, SessionsTypeOK', UNCHANGED <<server, client, excused>>,
         NEW j \in jobs, NEW k, Stepped(j, k), k.new = j.new, k.kind # "login",
         HandlerHolds(k),
         k.kind = "refresh" /\ k.of # Nobody => RotationHolds(k)
  PROVE  SessionsInv'
<1>1. rows' = rows /\ fresh' = fresh /\ excused' = excused /\ client' = client
  BY DEF server
<1>2. Only(None)
  BY <1>1 DEF Only, Family
<1>3. RowsHold'
  BY <1>1 DEF SessionsInv, RowsHold, Family, Kept
<1>4. HandlerHolds(k)' /\ (k.kind = "refresh" /\ k.of # Nobody => RotationHolds(k)')
  BY <1>1 DEF HandlerHolds, RotationHolds, Current, Kept, Family
<1>5. Issued(k.new)'
  BY <1>1 DEF SessionsInv, TokensHold, Issued, Family
<1> QED BY <1>1, <1>2, <1>3, <1>4, <1>5, HandlerStep

-----------------------------------------------------------------------------
(* The handlers of the server. *)

(* What the invariant says of one request. *)
LEMMA OfRequest ==
  ASSUME SessionsInv, NEW j \in jobs
  PROVE  /\ j \in Request /\ j.sid \in Token /\ j.new \in Token
         /\ Issued(j.sid) /\ Issued(j.new)
         /\ HandlerHolds(j) /\ (j.kind = "login" => LoginHolds(j))
         /\ (j.kind = "refresh" /\ j.of # Nobody => RotationHolds(j))
<1>1. j \in Request
  BY DEF SessionsInv, SessionsTypeOK
<1> QED BY <1>1, RequestFields DEF SessionsInv, TokensHold, InFlight

(* Whatever is kept and was issued is young, and revoked by a rotation only. *)
LEMMA KeptIsYoung ==
  ASSUME SessionsInv, NEW s \in Token, Issued(s), Kept(s)
  PROVE  /\ s \in Sids /\ Exists(s) /\ Carries(s) /\ rows[s].age = "young"
         /\ (rows[s].revoked => rows[s].replaced # None)
<1>1. s \in Sids /\ Family(s) # None
  BY DEF Kept, Issued, Token
<1>2. rows[s].age = "young" /\ (rows[s].revoked => rows[s].replaced # None)
  BY <1>1 DEF SessionsInv, RowsHold
<1> QED BY <1>1, <1>2 DEF Exists, Carries, Kept, Family

LEMMA CallerRefuses ==
  ASSUME SessionsInv, NEW s \in Token, Issued(s)
  PROVE  /\ Caller(s) \in Verdicts
         /\ Caller(s) \in {"unknown", "reused", "revoked"} => s # None /\ ~Kept(s)
         /\ Caller(s) = "ok" => s # None
<1>1. fresh \subseteq Sids
  BY DEF SessionsInv, SessionsTypeOK
<1> QED BY <1>1, CallerVerdict, KeptIsYoung, SidFacts

LEMMA LoginKeeps ==
  ASSUME HasLocks, SessionsInv, SessionsTypeOK', UNCHANGED client, excused' = excused,
         NEW j \in jobs, Login(j)
  PROVE  SessionsInv'
<1>0. SessionsTypeOK /\ RowsHold /\ j \in Request /\ j.kind = "login"
  BY OfRequest DEF SessionsInv, Login
<1>1. None \in Token /\ "ok" \in Verdicts /\ Issue(j, None, "done", "ok")
  BY DEF Token, Verdicts, Login
<1>2. PICK n \in Sids :
        /\ Family(n) = None /\ fresh' = fresh \cup {n}
        /\ \A s \in Sids : s # n => rows'[s] = rows[s]
        /\ rows'[n].family = n /\ ~rows'[n].revoked /\ rows'[n].age = "young"
        /\ \E k \in Request : /\ Stepped(j, k) /\ k.new = n
                              /\ k.stage = "done" /\ k.verdict = "ok"
  BY <1>0, <1>1, IssueFacts
<1>3. PICK k \in Request : Stepped(j, k) /\ k.new = n /\ k.stage = "done" /\ k.verdict = "ok"
  BY <1>2
<1>4. Family(n)' = n /\ n # None /\ n \in Token
  BY <1>2, SidFacts DEF Family
<1>5. Only(n)
  BY <1>2, <1>4 DEF Only, Family
<1>6. RowsHold'
  <2>1. \A s \in Sids : rows'[s] # rows[s] => s = n
    BY <1>2
  <2>2. \A s \in Sids : Family(s) = None /\ Family(s)' # None => s = n
    BY <2>1 DEF Family
  <2> QED BY <1>0, <1>2, <1>4, <1>5, <2>1, <2>2, RowsStay
<1>7. k.of = j.of /\ k.kind = "login" /\ jobs' = (jobs \ {j}) \cup {k}
  BY <1>0, <1>3 DEF Stepped
<1>8. HandlerHolds(k)'
  BY <1>3, <1>7 DEF HandlerHolds
<1>9. \A s \in Sids : Family(s) # n
  BY <1>0, <1>2, <1>4 DEF RowsHold
<1>10. LoginHolds(k)'
  <2>1. \A r \in Sids : Family(r)' = n => r = n
    BY <1>2, <1>9 DEF Family
  <2>2. cookie' # None => rows'[cookie'].family # n
    <3> PICK c \in Token : c = cookie' /\ Issued(c)
      BY DEF SessionsInv, SessionsTypeOK, TokensHold, client
    <3>1. c # None => Family(c)' # n
      BY <1>5, <1>9 DEF Only, Issued, Token
    <3> QED BY <3>1 DEF Family
  <2>3. ASSUME NEW m \in jobs', m.kind = "refresh", m.sid # None PROVE Family(m.sid)' # n
    <3>1. m \in jobs
      BY <1>7, <2>3
    <3>2. m.sid \in Sids /\ Family(m.sid) # None
      BY <2>3, <3>1, OfRequest DEF Issued, Token
    <3> QED BY <1>5, <1>9, <3>2 DEF Only
  <2>4. ASSUME NEW m \in jobs', m.kind = "login", m.new = n PROVE m = k
    <3>1. m \in jobs => m.new # n
      BY <1>2, <1>4, OfRequest DEF Issued
    <3> QED BY <1>7, <2>4, <3>1
  <2> HIDE DEF Family
  <2> QED BY <1>2, <1>3, <1>4, <2>1, <2>2, <2>3, <2>4 DEF LoginHolds, Family
<1>11. Issued(k.new)' /\ \A s \in fresh' : s \in fresh \/ Issued(s)'
  BY <1>2, <1>3, <1>4 DEF Issued
<1> QED BY <1>2, <1>3, <1>5, <1>6, <1>7, <1>8, <1>10, <1>11, HandlerStep

LEMMA RefreshFindsKeeps ==
  ASSUME HasLocks, SessionsInv, SessionsTypeOK', UNCHANGED client, excused' = excused,
         NEW j \in jobs, RefreshFinds(j)
  PROVE  SessionsInv'
<1>0. /\ j \in Request /\ j.kind = "refresh" /\ j.stage = "sent"
      /\ j.sid \in Token /\ Issued(j.sid) /\ HandlerHolds(j)
      /\ j.of # Nobody => RotationHolds(j)
      /\ UNCHANGED server
  BY OfRequest DEF RefreshFinds
<1>1. {"missing", "unknown", "none", "expired"} \subseteq Verdicts
  BY DEF Verdicts
<1>2. PICK stage \in {"done", "reused", "found"}, verdict \in {"missing", "unknown", "none", "expired"} :
        /\ Advance(j, stage, verdict)
        /\ stage \in {"found", "reused"} => j.sid # None
        /\ stage = "reused" => ~Kept(j.sid)
        /\ stage = "done" => ~Kept(j.sid)
        /\ verdict = "unknown" => j.sid # None
        /\ stage \in {"found", "reused"} => verdict = "none"
  <2>1. CASE j.sid = None /\ Advance(j, "done", "missing")
    BY <2>1 DEF Kept
  <2>2. CASE j.sid # None /\ ~Exists(j.sid) /\ Advance(j, "done", "unknown")
    BY <1>0, <2>2, KeptIsYoung
  <2>3. CASE Exists(j.sid) /\ rows[j.sid].revoked /\ Advance(j, "reused", "none")
    <3>1. ~Kept(j.sid)
      BY <1>0, <2>3 DEF HandlerHolds, RotationHolds, Current
    <3> QED BY <2>3, <3>1 DEF Exists
  <2>4. CASE Exists(j.sid) /\ ~rows[j.sid].revoked /\ ~Usable(j.sid) /\ Advance(j, "done", "expired")
    BY <1>0, <2>4, KeptIsYoung DEF Usable
  <2>5. CASE Exists(j.sid) /\ Usable(j.sid) /\ Advance(j, "found", "none")
    BY <2>5 DEF Exists
  <2> QED BY <2>1, <2>2, <2>3, <2>4, <2>5 DEF RefreshFinds
<1>3. PICK k \in Request : Stepped(j, k) /\ k.new = j.new /\ k.stage = stage /\ k.verdict = verdict
  BY <1>0, <1>1, <1>2, AdvanceFacts
<1>4. k.of = j.of /\ k.kind = "refresh" /\ k.sid = j.sid
  BY <1>0, <1>3 DEF Stepped
<1>5. HandlerHolds(k)
  BY <1>0, <1>2, <1>3, <1>4 DEF HandlerHolds
<1>6. k.of # Nobody => RotationHolds(k)
  BY <1>0, <1>2, <1>3, <1>4 DEF RotationHolds
<1> QED BY <1>0, <1>3, <1>4, <1>5, <1>6, QuietStep

LEMMA RevokeFamilyKeeps ==
  ASSUME HasLocks, SessionsInv, SessionsTypeOK', UNCHANGED client, excused' = excused,
         NEW j \in jobs, RevokeFamily(j)
  PROVE  SessionsInv'
<1>0. /\ j \in Request /\ j.kind = "refresh" /\ j.stage = "reused" /\ j.sid \in Sids
      /\ ~Kept(j.sid) /\ Family(j.sid) \in excused
      /\ HandlerHolds(j) /\ Issued(j.new) /\ j.new \in Token /\ fresh' = fresh
      /\ SessionsTypeOK /\ RowsHold
  BY OfRequest DEF RevokeFamily, HandlerHolds, Token, Kept, SessionsInv
<1>1. \A s \in Sids : /\ Family(s)' = Family(s)
                      /\ rows'[s] # rows[s] => Family(s) \in excused'
  <2> SUFFICES ASSUME NEW s \in Sids
               PROVE  rows'[s].family = rows[s].family /\ (rows'[s] = rows[s] \/ Family(s) \in excused)
    BY <1>0 DEF Family
  <2> DEFINE r == [rows[s] EXCEPT !.revoked = TRUE, !.replaced = None]
  <2>1. rows[s] \in SessionRow
    BY <1>0 DEF SessionsTypeOK
  <2>2. r.family = rows[s].family
    BY <2>1 DEF SessionRow
  <2>3. rows'[s] = rows[s] \/ (rows'[s] = r /\ rows[s].family = rows[j.sid].family)
    BY <1>0 DEF RevokeFamily
  <2> HIDE DEF r
  <2> QED BY <1>0, <2>2, <2>3 DEF Family
<1>2. Only(None)
  BY <1>1 DEF Only
<1>3. RowsHold'
  <2>1. \A s \in Sids : rows'[s] # rows[s] => ~Kept(s)'
    BY <1>1 DEF Kept
  <2> QED BY <1>0, <1>1, <1>2, <2>1, RowsStay
<1>4. PICK k \in Request : Stepped(j, k) /\ k.new = j.new /\ k.stage = "done" /\ k.verdict = "reused"
  <2>1. Advance(j, "done", "reused") /\ "reused" \in Verdicts
    BY DEF RevokeFamily, Verdicts
  <2> QED BY <1>0, <2>1, AdvanceFacts
<1>5. k.of = j.of /\ k.kind = "refresh" /\ k.sid = j.sid
  BY <1>0, <1>4 DEF Stepped
<1>6. ~Kept(j.sid)'
  BY <1>0, <1>1 DEF Kept
<1>7. HandlerHolds(k)' /\ RotationHolds(k)'
  BY <1>0, <1>4, <1>5, <1>6, SidFacts DEF HandlerHolds, RotationHolds
<1>8. Issued(k.new)'
  BY <1>0, <1>2, <1>4, IssuedStays
<1> QED BY <1>0, <1>2, <1>3, <1>4, <1>5, <1>7, <1>8, HandlerStep

LEMMA RefreshOpensKeeps ==
  ASSUME HasLocks, SessionsInv, SessionsTypeOK', UNCHANGED client, excused' = excused,
         NEW j \in jobs, RefreshOpens(j)
  PROVE  SessionsInv'
<1>0. /\ j \in Request /\ j.kind = "refresh" /\ j.stage = "found" /\ j.sid \in Sids
      /\ j.sid # None /\ Family(j.sid) \in Token /\ Family(j.sid) # None
      /\ HandlerHolds(j) /\ (j.of # Nobody => RotationHolds(j))
      /\ SessionsTypeOK /\ RowsHold
  BY OfRequest, FamilyType DEF RefreshOpens, HandlerHolds, Token, Issued, SessionsInv
<1> DEFINE F == Family(j.sid)
<1>1. "none" \in Verdicts /\ Issue(j, F, "opened", "none")
  BY DEF Verdicts, RefreshOpens, Family
<1> HIDE DEF F
<1>2. PICK n \in Sids :
        /\ Family(n) = None /\ fresh' = fresh \cup {n}
        /\ \A s \in Sids : s # n => rows'[s] = rows[s]
        /\ rows'[n].family = F /\ ~rows'[n].revoked /\ rows'[n].age = "young"
        /\ \E k \in Request : /\ Stepped(j, k) /\ k.new = n
                              /\ k.stage = "opened" /\ k.verdict = "none"
  BY <1>0, <1>1, IssueFacts DEF F
<1>3. PICK k \in Request : Stepped(j, k) /\ k.new = n /\ k.stage = "opened" /\ k.verdict = "none"
  BY <1>2
<1>4. Family(n)' = F /\ n # None /\ n \in Token /\ F # None /\ n # j.sid
  BY <1>0, <1>2, SidFacts DEF Family, F
<1>5. Only(F)
  BY <1>2, <1>4 DEF Only, Family
<1>6. RowsHold'
  <2>1. \A s \in Sids : rows'[s] # rows[s] => s = n
    BY <1>2
  <2>2. \A s \in Sids : Family(s) = None /\ Family(s)' # None => Family(s)' = Family(j.sid)
    BY <1>4, <2>1 DEF Family, F
  <2> QED BY <1>0, <1>2, <1>4, <1>5, <2>1, <2>2, RowsStay
<1>7. k.of = j.of /\ k.kind = "refresh" /\ k.sid = j.sid
  BY <1>0, <1>3 DEF Stepped
<1>8. Family(j.sid)' = F /\ rows'[j.sid] = rows[j.sid]
  BY <1>0, <1>2, <1>4 DEF Family, F
<1>9. Kept(j.sid)' => Kept(j.sid)
  BY <1>8 DEF Kept, F
<1>10. HandlerHolds(k)'
  BY <1>0, <1>3, <1>4, <1>7, <1>8, <1>9 DEF HandlerHolds
<1>11. k.of # Nobody => RotationHolds(k)'
  <2> SUFFICES ASSUME k.of # Nobody, Kept(j.sid)' PROVE RotationHolds(k)'
    BY <1>7 DEF RotationHolds
  <2>1. Current(j.sid)
    BY <1>0, <1>7, <1>9 DEF RotationHolds
  <2>2. \A r \in Sids : Family(r)' = F /\ ~rows'[r].revoked => r \in {j.sid, n}
    BY <1>2, <2>1 DEF Current, Family, F
  <2>3. ~rows'[j.sid].revoked
    BY <1>8, <2>1 DEF Current
  <2> QED BY <1>2, <1>3, <1>4, <1>7, <1>8, <2>2, <2>3 DEF RotationHolds
<1>12. Issued(k.new)' /\ \A s \in fresh' : s \in fresh \/ Issued(s)'
  BY <1>2, <1>3, <1>4 DEF Issued
<1> QED BY <1>0, <1>3, <1>5, <1>6, <1>7, <1>10, <1>11, <1>12, HandlerStep DEF F

LEMMA MarkReplacedKeeps ==
  ASSUME HasLocks, SessionsInv, SessionsTypeOK', UNCHANGED client, excused' = excused,
         NEW j \in jobs, MarkReplaced(j)
  PROVE  SessionsInv'
<1>0. /\ j \in Request /\ j.kind = "refresh" /\ j.stage = "opened" /\ j.sid \in Sids
      /\ j.sid # None /\ Family(j.sid) # None /\ Issued(j.sid)
      /\ j.new \in Sids /\ j.new # None /\ Issued(j.new) /\ Family(j.new) = Family(j.sid)
      /\ HandlerHolds(j) /\ (j.of # Nobody => RotationHolds(j))
      /\ SessionsTypeOK /\ RowsHold /\ fresh' = fresh
  BY OfRequest DEF MarkReplaced, HandlerHolds, Token, Issued, SessionsInv
<1> DEFINE F == Family(j.sid)
<1>1. /\ \A s \in Sids : s # j.sid => rows'[s] = rows[s]
      /\ rows'[j.sid].family = F /\ rows'[j.sid].revoked /\ rows'[j.sid].replaced = j.new
      /\ rows'[j.sid].age = rows[j.sid].age
  BY <1>0 DEF MarkReplaced, SessionsTypeOK, SessionRow, Family
<1> HIDE DEF F
<1>2. \A s \in Sids : Family(s)' = Family(s)
  BY <1>1 DEF Family, F
<1>3. Only(F)
  BY <1>1, <1>2 DEF Only, F
<1>4. Kept(j.sid)' => Kept(j.sid)
  BY <1>0, <1>2 DEF Kept
<1>5. RowsHold'
  <2>1. \A s \in Sids : rows'[s] # rows[s] => s = j.sid
    BY <1>1
  <2>2. Kept(j.sid)' => rows[j.sid].age = "young"
    BY <1>0, <1>4 DEF RowsHold
  <2> QED BY <1>0, <1>1, <1>2, <1>3, <2>1, <2>2, RowsStay
<1>6. PICK k \in Request : Stepped(j, k) /\ k.new = j.new /\ k.stage = "done" /\ k.verdict = "ok"
  <2>1. Advance(j, "done", "ok") /\ "ok" \in Verdicts
    BY DEF MarkReplaced, Verdicts
  <2> QED BY <1>0, <2>1, AdvanceFacts
<1>7. k.of = j.of /\ k.kind = "refresh" /\ k.sid = j.sid
  BY <1>0, <1>6 DEF Stepped
<1>8. HandlerHolds(k)'
  BY <1>0, <1>2, <1>4, <1>6, <1>7 DEF HandlerHolds
<1>9. k.of # Nobody => RotationHolds(k)'
  <2> SUFFICES ASSUME k.of # Nobody, Kept(j.sid)' PROVE RotationHolds(k)'
    BY <1>7 DEF RotationHolds
  <2>1. /\ j.new # j.sid /\ ~rows[j.new].revoked
        /\ \A r \in Sids : Family(r) = F /\ ~rows[r].revoked => r \in {j.sid, j.new}
    BY <1>0, <1>4, <1>7 DEF RotationHolds, F
  <2>2. rows'[j.new] = rows[j.new]
    BY <1>0, <1>1, <2>1
  <2>3. \A r \in Sids : Family(r)' = F /\ ~rows'[r].revoked => r = j.new
    BY <1>1, <1>2, <2>1
  <2>4. Family(j.new)' = F
    BY <1>0, <1>2 DEF F
  <2>5. Current(j.new)'
    BY <2>1, <2>2, <2>3, <2>4 DEF Current
  <2> QED BY <1>6, <1>7, <2>5 DEF RotationHolds
<1>10. Issued(k.new)'
  BY <1>0, <1>3, <1>6, SidFacts, IssuedStays
<1> QED BY <1>0, <1>3, <1>5, <1>6, <1>7, <1>8, <1>9, <1>10, HandlerStep DEF F

LEMMA AnswerKeeps ==
  ASSUME HasLocks, SessionsInv, SessionsTypeOK', UNCHANGED client, excused' = excused,
         NEW j \in jobs, Answer(j)
  PROVE  SessionsInv'
<1>0. /\ j \in Request /\ j.kind \in {"me", "call"} /\ j.sid \in Token /\ Issued(j.sid)
      /\ Caller(j.sid) \in Verdicts /\ UNCHANGED server
      /\ Caller(j.sid) \in {"unknown", "reused", "revoked"} => j.sid # None /\ ~Kept(j.sid)
  BY OfRequest, CallerRefuses DEF Answer
<1>1. PICK k \in Request : /\ Stepped(j, k) /\ k.new = j.new
                           /\ k.stage = "done" /\ k.verdict = Caller(j.sid)
  BY <1>0, AdvanceFacts DEF Answer
<1>2. k.kind \in {"me", "call"} /\ k.sid = j.sid
  BY <1>0, <1>1 DEF Stepped
<1>3. HandlerHolds(k)
  BY <1>0, <1>1, <1>2 DEF HandlerHolds
<1> QED BY <1>0, <1>1, <1>2, <1>3, QuietStep

LEMMA LogoutFindsKeeps ==
  ASSUME HasLocks, SessionsInv, SessionsTypeOK', UNCHANGED client, excused' = excused,
         NEW j \in jobs, LogoutFinds(j)
  PROVE  SessionsInv'
<1>0. /\ j \in Request /\ j.kind = "logout" /\ j.sid \in Token /\ Issued(j.sid)
      /\ Caller(j.sid) \in Verdicts /\ "none" \in Verdicts /\ UNCHANGED server
      /\ Caller(j.sid) \in {"unknown", "reused", "revoked"} => j.sid # None /\ ~Kept(j.sid)
      /\ Caller(j.sid) = "ok" => j.sid # None
  BY OfRequest, CallerRefuses DEF LogoutFinds, Verdicts
<1>1. PICK stage \in {"done", "found"}, verdict \in Verdicts :
        /\ Advance(j, stage, verdict)
        /\ stage = "found" => j.sid # None
        /\ stage = "done" => verdict = Caller(j.sid)
  BY <1>0 DEF LogoutFinds
<1>2. PICK k \in Request : Stepped(j, k) /\ k.new = j.new /\ k.stage = stage /\ k.verdict = verdict
  BY <1>0, <1>1, AdvanceFacts
<1>3. k.kind = "logout" /\ k.sid = j.sid
  BY <1>0, <1>2 DEF Stepped
<1>4. HandlerHolds(k)
  BY <1>0, <1>1, <1>2, <1>3 DEF HandlerHolds
<1> QED BY <1>0, <1>2, <1>3, <1>4, QuietStep

LEMMA RevokeKeeps ==
  ASSUME HasLocks, SessionsInv, SessionsTypeOK', UNCHANGED client,
         NEW j \in jobs, Revoke(j), excused' = excused \cup {rows[j.sid].family}
  PROVE  SessionsInv'
<1>0. /\ j \in Request /\ j.kind = "logout" /\ j.stage = "found" /\ j.sid \in Sids
      /\ Family(j.sid) \in excused' /\ excused \subseteq excused'
      /\ Issued(j.new) /\ j.new \in Token /\ fresh' = fresh
      /\ SessionsTypeOK /\ RowsHold
  BY OfRequest DEF Revoke, HandlerHolds, Token, Family, SessionsInv
<1>1. \A s \in Sids : /\ Family(s)' = Family(s)
                      /\ rows'[s] # rows[s] => Family(s) \in excused'
  BY <1>0 DEF Revoke, Family, SessionsTypeOK, SessionRow
<1>2. Only(None)
  BY <1>0, <1>1 DEF Only
<1>3. RowsHold'
  BY <1>0, <1>1, <1>2, RowsStay
<1>4. PICK k \in Request : Stepped(j, k) /\ k.new = j.new /\ k.stage = "done" /\ k.verdict = "ok"
  <2>1. Advance(j, "done", "ok") /\ "ok" \in Verdicts
    BY DEF Revoke, Verdicts
  <2> QED BY <1>0, <2>1, AdvanceFacts
<1>5. k.kind = "logout"
  BY <1>0, <1>4 DEF Stepped
<1>6. HandlerHolds(k)' /\ Issued(k.new)'
  BY <1>0, <1>2, <1>4, <1>5, IssuedStays DEF HandlerHolds
<1> QED BY <1>0, <1>2, <1>3, <1>4, <1>5, <1>6, HandlerStep

LEMMA HandleKeeps ==
  ASSUME HasLocks, SessionsInv, NEW t \in Tasks \cup {Nobody}, Handle(t)
  PROVE  SessionsInv'
<1>1. PICK j \in jobs :
        /\ \/ Login(j) \/ RefreshFinds(j) \/ RevokeFamily(j) \/ RefreshOpens(j)
           \/ MarkReplaced(j) \/ Answer(j) \/ LogoutFinds(j) \/ Revoke(j)
        /\ excused' = IF j.kind = "logout" /\ j.stage = "found"
                      THEN excused \cup {rows[j.sid].family} ELSE excused
  BY DEF Handle
<1>2. client' = client /\ faults' = faults
  BY DEF Handle
<1>3. SessionsTypeOK'
  <2>1. rows' \in [Sids -> SessionRow] /\ fresh' \subseteq Sids /\ jobs' \subseteq Request
    BY <1>1, OfRequest, HandleTypes DEF SessionsInv
  <2>2. excused' \subseteq Sids
    <3>1. SessionsTypeOK
      BY DEF SessionsInv
    <3>2. j.kind = "logout" /\ j.stage = "found" =>
            j.sid \in Sids /\ rows[j.sid].family \in Sids
      BY <3>1, OfRequest, FamilyType DEF HandlerHolds, Token, Issued
    <3> QED BY <1>1, <3>1, <3>2 DEF SessionsTypeOK
  <2> QED BY <1>2, <2>1, <2>2 DEF SessionsInv, SessionsTypeOK, client
<1>4. CASE Revoke(j)
  BY <1>1, <1>2, <1>3, <1>4, RevokeKeeps DEF Revoke
<1>5. CASE ~Revoke(j)
  <2>1. j.kind = "logout" /\ j.stage = "found" => FALSE
    BY <1>1, <1>5, OfRequest
       DEF Login, RefreshFinds, RevokeFamily, RefreshOpens, MarkReplaced, Answer,
           LogoutFinds, HandlerHolds
  <2>2. excused' = excused
    BY <1>1, <2>1
  <2> QED BY <1>1, <1>2, <1>3, <1>5, <2>2, LoginKeeps, RefreshFindsKeeps,
             RevokeFamilyKeeps, RefreshOpensKeeps, MarkReplacedKeeps, AnswerKeeps,
             LogoutFindsKeeps
<1> QED BY <1>4, <1>5

-----------------------------------------------------------------------------
(* Time, and a reset of the password. *)

(* A step that changes rows of families that are excused, and nothing that  *)
(* a window or a handler holds.                                            *)
LEMMA TableStep ==
  ASSUME HasLocks, SessionsInv, SessionsTypeOK', UNCHANGED <<client, jobs>>,
         fresh' \subseteq fresh, excused \subseteq excused',
         \A s \in Sids : /\ Family(s)' = Family(s)
                         /\ rows'[s] # rows[s] =>
                              Family(s) = None \/ Family(s) \in excused'
  PROVE  SessionsInv'
<1>1. /\ SessionsTypeOK /\ RowsHold /\ TasksHold /\ client' = client /\ jobs' = jobs
      /\ \A i \in jobs : i.sid \in Token /\ Issued(i.sid) /\ i.new \in Token
      /\ cookie \in Token /\ Issued(cookie) /\ cookie' = cookie
  BY OfRequest DEF SessionsInv, SessionsTypeOK, TokensHold, client
<1>2. Only(None)
  BY DEF Only
<1>3. RowsHold'
  BY <1>1, <1>2, RowsStay
<1>4. TasksHold'
  BY <1>1 DEF TasksHold, client
<1>5. Answered(None, {})
  <2>1. ASSUME NEW i \in jobs, Kept(i.sid)' PROVE Family(i.sid) # None
    BY <1>1, <1>2, <2>1, KeptBefore
  <2>2. ASSUME NEW i \in jobs, i.kind = "login", i.stage = "done" PROVE i.new # None
    BY <2>2, OfRequest DEF LoginHolds
  <2> QED BY <1>1, <2>1, <2>2 DEF Answered
<1>6. Kept(cookie)' => Family(cookie) # None
  <2> PICK c \in Token : c = cookie
    BY <1>1
  <2>1. Kept(c)' => Family(c) # None
    BY <1>1, <1>2, KeptBefore
  <2> QED BY <1>1, <2>1 DEF Kept, Family
<1>7. InFlight' = InFlight
  BY <1>1 DEF InFlight
<1> QED BY <1>1, <1>2, <1>3, <1>4, <1>5, <1>6, <1>7, ServerStep

LEMMA FaultsStep ==
  ASSUME SessionsTypeOK, faults < MaxFaults, faults' = faults + 1
  PROVE  faults' \in 0..MaxFaults
<1>1. faults \in 0..MaxFaults
  BY DEF SessionsTypeOK
<1> QED BY <1>1, SessionsAssumption

LEMMA ResetPasswordKeeps ==
  ASSUME HasLocks, SessionsInv, ResetPassword
  PROVE  SessionsInv'
<1>1. SessionsTypeOK /\ fresh' = fresh /\ jobs' = jobs /\ client' = client
  BY DEF SessionsInv, ResetPassword
<1>2. \A s \in Sids : /\ rows'[s].family = rows[s].family
                      /\ rows'[s] # rows[s] => Exists(s)
  BY <1>1 DEF ResetPassword, SessionsTypeOK, SessionRow
<1>3. rows' \in [Sids -> SessionRow]
  BY <1>1, RevokedRow DEF ResetPassword, SessionsTypeOK
<1>4. /\ \A s \in Sids : Exists(s) => Family(s) \in excused'
      /\ excused \subseteq excused' /\ excused' \subseteq Sids
  <2> DEFINE Ended == {rows[s].family : s \in {r \in Sids : Exists(r)}}
  <2>1. \A s \in Sids : Exists(s) => Family(s) \in Ended
    BY DEF Family
  <2>2. \A f \in Ended : f \in Sids
    BY <1>1, FamilyType DEF Exists
  <2>3. excused' = excused \cup Ended
    BY DEF ResetPassword
  <2>4. excused \subseteq Sids
    BY <1>1 DEF SessionsTypeOK
  <2> HIDE DEF Ended
  <2> QED BY <2>1, <2>2, <2>3, <2>4
<1>5. faults' \in 0..MaxFaults
  BY <1>1, FaultsStep DEF ResetPassword
<1>6. SessionsTypeOK'
  BY <1>1, <1>3, <1>4, <1>5 DEF SessionsTypeOK, client
<1> QED BY <1>1, <1>2, <1>4, <1>6, TableStep DEF Family

LEMMA TokenExpiresKeeps ==
  ASSUME HasLocks, SessionsInv, TokenExpires
  PROVE  SessionsInv'
<1>1. /\ SessionsTypeOK /\ fresh' \subseteq fresh /\ jobs' = jobs /\ client' = client
      /\ rows' = rows /\ excused' = excused /\ faults' = faults
  BY DEF SessionsInv, TokenExpires, history
<1>2. SessionsTypeOK'
  BY <1>1 DEF SessionsTypeOK, client
<1> QED BY <1>1, <1>2, TableStep DEF Family

LEMMA SessionLapsesKeeps ==
  ASSUME HasLocks, SessionsInv, SessionLapses
  PROVE  SessionsInv'
<1>1. SessionsTypeOK /\ fresh' = fresh /\ jobs' = jobs /\ client' = client /\ faults' = faults
  BY DEF SessionsInv, SessionLapses
<1>2. PICK s \in Sids : /\ Exists(s) /\ rows' = [rows EXCEPT ![s].age = "lapsed"]
                        /\ excused' = excused \cup {rows[s].family}
  BY DEF SessionLapses
<1>3. \A r \in Sids : rows'[r].family = rows[r].family /\ (rows'[r] # rows[r] => r = s)
  BY <1>1, <1>2 DEF SessionsTypeOK, SessionRow
<1>4. rows' \in [Sids -> SessionRow]
  BY <1>1, <1>2 DEF SessionsTypeOK, SessionRow
<1>5. Family(s) \in excused' /\ excused \subseteq excused' /\ excused' \subseteq Sids
  BY <1>1, <1>2, FamilyType DEF Family, Exists, SessionsTypeOK
<1>6. SessionsTypeOK'
  BY <1>1, <1>4, <1>5 DEF SessionsTypeOK, client
<1> QED BY <1>1, <1>3, <1>5, <1>6, TableStep DEF Family

LEMMA PurgeExpiredKeeps ==
  ASSUME HasLocks, SessionsInv, PurgeExpired
  PROVE  SessionsInv'
<1>1. /\ SessionsTypeOK /\ fresh' = fresh /\ jobs' = jobs /\ client' = client
      /\ excused' = excused /\ faults' = faults /\ RowsHold
  BY DEF SessionsInv, PurgeExpired, history
<1>2. \A s \in Sids : /\ rows'[s].family = rows[s].family
                      /\ rows'[s] # rows[s] => rows[s].age = "lapsed"
  BY <1>1 DEF PurgeExpired, SessionsTypeOK, SessionRow
<1>3. rows' \in [Sids -> SessionRow]
  BY <1>1 DEF PurgeExpired, SessionsTypeOK, SessionRow
<1>4. SessionsTypeOK'
  BY <1>1, <1>3 DEF SessionsTypeOK, client
<1>5. \A s \in Sids : rows'[s] # rows[s] => Family(s) = None \/ Family(s) \in excused'
  BY <1>1, <1>2, SidFacts DEF RowsHold, Kept
<1> QED BY <1>1, <1>2, <1>4, <1>5, TableStep DEF Family

-----------------------------------------------------------------------------
(* The windows. *)

(* A request that is begun: nobody dealt with it, and what it rotates is    *)
(* the current token.                                                      *)
Begun(i) ==
  /\ i \in Request /\ i.stage = "sent" /\ i.of # Nobody /\ i.new = None /\ Issued(i.sid)
  /\ i.kind = "refresh" => i.sid = cookie /\ (Kept(cookie) => Current(cookie))

(* What is left in the jar was issued, and nobody waits for its login. *)
InTheJar(c) ==
  /\ c = cookie' /\ Issued(c)
  /\ \A i \in jobs : i \in jobs' /\ i.kind = "login" /\ i.stage = "done" =>
       c = None \/ Family(c) # i.new

(* What a task was told of a token. *)
Told(t, c) ==
  /\ c = task'[t].with /\ Issued(c)
  /\ task'[t].verdict \in {"unknown", "reused", "revoked"} => c # None /\ ~Kept(c)

(* A step of the windows: the table is as it was. *)
LEMMA ClientStep ==
  ASSUME SessionsInv, SessionsTypeOK', UNCHANGED <<server, excused>>,
         TasksHold', JarHolds',
         NEW c \in Token, InTheJar(c),
         \A w \in Windows : token'[w] = token[w] \/ Issued(token'[w]),
         \A t \in Tasks : task'[t] = task[t] \/ \E s \in Token : Told(t, s),
         \A i \in jobs' : i \in jobs \/ Begun(i)
  PROVE  SessionsInv'
<1>1. /\ rows' = rows /\ fresh' = fresh /\ excused' = excused
      /\ TokensHold /\ NeverThrownOut /\ RowsHold
  BY DEF SessionsInv, server
<1>2. /\ \A s : Issued(s)' <=> (s # None => Family(s) # None)
      /\ \A s : Kept(s)' <=> (s # None /\ Family(s) \notin excused)
  BY <1>1 DEF Issued, Kept, Family
<1>3. RowsHold'
  BY <1>1 DEF RowsHold, Family, Kept
<1>4. TokensHold'
  <2>1. \A s \in fresh' : Issued(s)'
    BY <1>1, <1>2 DEF TokensHold, Issued
  <2>2. cookie' # None => rows'[cookie'].family # None
    BY <1>1 DEF InTheJar, Issued, Family
  <2>3. \A w \in Windows : token'[w] # None => rows'[token'[w]].family # None
    BY <1>1 DEF TokensHold, Issued, Family
  <2>4. \A t \in Tasks : task'[t].with # None => rows'[task'[t].with].family # None
    BY <1>1 DEF TokensHold, Issued, Family, Told
  <2>5. \A i \in jobs' : Issued(i.sid) /\ Issued(i.new)
    <3>1. Issued(None)
      BY DEF Issued
    <3> QED BY <1>1, <3>1 DEF TokensHold, Begun
  <2>6. \A i \in jobs' : Issued(i.sid)' /\ Issued(i.new)'
    BY <1>2, <2>5 DEF Issued
  <2> QED BY <2>1, <2>2, <2>3, <2>4, <2>6 DEF TokensHold, Issued, Family
<1>5. ASSUME NEW i \in jobs' PROVE HandlerHolds(i)'
  <2>1. HandlerHolds(i)
    BY OfRequest DEF Begun, HandlerHolds
  <2> QED BY <1>1, <2>1 DEF HandlerHolds, Kept, Family
<1>6. ASSUME NEW i \in jobs', i.kind = "refresh", i.of # Nobody PROVE RotationHolds(i)'
  <2>1. RotationHolds(i)
    BY <1>6, OfRequest DEF Begun, RotationHolds
  <2> QED BY <1>1, <2>1 DEF RotationHolds, Current, Kept, Family
<1>7. ASSUME NEW i \in jobs', i.kind = "login" PROVE LoginHolds(i)'
  <2>1. CASE i.stage # "done"
    <3>1. i.stage = "sent"
      BY <1>7, <2>1, OfRequest DEF Begun, LoginHolds
    <3> QED BY <3>1 DEF LoginHolds
  <2>2. CASE i.stage = "done"
    <3>1. i \in jobs /\ LoginHolds(i)
      BY <1>7, <2>2, OfRequest DEF Begun
    <3>2. /\ i.verdict = "ok" /\ i.new # None /\ Family(i.new) = i.new
          /\ \A r \in Sids : Family(r) = i.new => r = i.new
          /\ Kept(i.new) => ~rows[i.new].revoked
      BY <2>2, <3>1 DEF LoginHolds
    <3>3. cookie' # None => rows[cookie'].family # i.new
      BY <1>7, <2>2, <3>1 DEF InTheJar, Family
    <3>4. ASSUME NEW k \in jobs', k.kind = "refresh", k.sid # None
          PROVE  Family(k.sid) # i.new
      <4>1. k \notin jobs => k.sid = cookie
        BY <3>4 DEF Begun
      <4> QED BY <2>2, <3>1, <3>4, <4>1 DEF LoginHolds
    <3>5. ASSUME NEW k \in jobs', k.kind = "login", k.new = i.new PROVE k = i
      <4>1. k \in jobs
        BY <3>2, <3>5 DEF Begun
      <4> QED BY <2>2, <3>1, <3>5, <4>1 DEF LoginHolds
    <3> QED BY <1>1, <2>2, <3>2, <3>3, <3>4, <3>5 DEF LoginHolds, Family, Kept
  <2> QED BY <2>1, <2>2
<1>8. NeverThrownOut'
  <2> SUFFICES ASSUME NEW t \in Tasks, task'[t].verdict \in {"unknown", "reused", "revoked"}
               PROVE  task'[t].with # None /\ rows'[task'[t].with].family \in excused'
    BY DEF NeverThrownOut
  <2>1. CASE task'[t] = task[t]
    BY <1>1, <2>1 DEF NeverThrownOut
  <2>2. CASE \E s \in Token : Told(t, s)
    BY <1>1, <2>2 DEF Told, Kept, Family
  <2> QED BY <2>1, <2>2
<1>9. \A i \in InFlight' : RotationHolds(i)'
  BY <1>6 DEF InFlight
<1> QED BY <1>3, <1>4, <1>5, <1>7, <1>8, <1>9 DEF SessionsInv

(* A task moves on, with at most one request of its own. *)
LEMMA TaskMoves ==
  ASSUME SessionsTypeOK, TasksHold, NEW t \in Tasks, NEW r \in TaskState,
         task' = [task EXCEPT ![t] = r],
         \A u \in Tasks : u # t => (u \in turn' <=> u \in turn),
         r.at = "refresh" <=> t \in turn',
         r.at # "idle" => r.op # "none",
         r.at = "send" => r.op # "restore",
         \A i \in jobs' :
           \/ i \in jobs /\ i.of # t
           \/ i.of = t /\ r.at = (IF i.kind = "refresh" THEN "refresh" ELSE "send"),
         \A i, k \in jobs' : i.of = t /\ k.of = t => i = k
  PROVE  TasksHold' /\ task' \in [Tasks -> TaskState]
<1>1. /\ task' \in [Tasks -> TaskState] /\ task'[t] = r
      /\ \A u \in Tasks : u # t => task'[u] = task[u]
  BY DEF SessionsTypeOK
<1>2. ASSUME NEW i \in jobs', i.of # Nobody
      PROVE  task'[i.of].at = IF i.kind = "refresh" THEN "refresh" ELSE "send"
  <2>1. CASE i.of = t
    BY <1>1, <2>1
  <2>2. CASE i.of # t
    <3>1. i \in jobs /\ i.of \in Tasks
      BY <1>2, <2>2, RequestFields DEF SessionsTypeOK
    <3> QED BY <1>1, <1>2, <2>2, <3>1 DEF TasksHold
  <2> QED BY <2>1, <2>2
<1>3. \A i, k \in jobs' : i.of = k.of /\ i.of # Nobody => i = k
  BY DEF TasksHold
<1>4. \A u \in Tasks : /\ task'[u].at = "refresh" <=> u \in turn'
                       /\ task'[u].at # "idle" => task'[u].op # "none"
                       /\ task'[u].at = "send" => task'[u].op # "restore"
  BY <1>1 DEF TasksHold
<1> QED BY <1>1, <1>2, <1>3, <1>4 DEF TasksHold

LEMMA SendFacts ==
  ASSUME SessionsTypeOK, NEW t \in Tasks, NEW kind \in {"me", "call", "logout", "login"},
         NEW tok \in Token, NEW retry \in BOOLEAN, Send(t, kind, tok, retry)
  PROVE  \E r \in TaskState, k \in Request :
           /\ task' = [task EXCEPT ![t] = r]
           /\ r.at = "send" /\ r.op = kind /\ r.verdict = "none" /\ r.with = None
           /\ jobs' = {j \in jobs : j.of # t} \cup {k}
           /\ k.of = t /\ k.kind = kind /\ k.sid = tok /\ k.new = None
           /\ k.stage = "sent"
<1> DEFINE r == [at |-> "send", op |-> kind, retry |-> retry, verdict |-> "none", with |-> None]
           k == Job(t, kind, tok)
<1>1. r \in TaskState
  BY DEF TaskState, Ops, Verdicts, Token
<1>2. k \in Request /\ k.of = t /\ k.kind = kind /\ k.sid = tok /\ k.new = None /\ k.stage = "sent"
  BY JobFacts
<1>3. r.at = "send" /\ r.op = kind /\ r.verdict = "none" /\ r.with = None
  OBVIOUS
<1>4. task' = [task EXCEPT ![t] = r] /\ jobs' = {j \in jobs : j.of # t} \cup {k}
  BY DEF Send
<1> HIDE DEF r, k
<1> QED BY <1>1, <1>2, <1>3, <1>4

LEMMA FinishFacts ==
  ASSUME NEW t \in Tasks, NEW v \in Verdicts, NEW sid \in Token, Finish(t, v, sid)
  PROVE  \E r \in TaskState :
           /\ task' = [task EXCEPT ![t] = r]
           /\ r.at = "idle" /\ r.op = "none" /\ r.verdict = v /\ r.with = sid
           /\ jobs' = {j \in jobs : j.of # t}
<1> DEFINE r == [Idle EXCEPT !.verdict = v, !.with = sid]
<1>1. r \in TaskState /\ r.at = "idle" /\ r.op = "none" /\ r.verdict = v /\ r.with = sid
  BY DEF Idle, TaskState, Ops, Verdicts, Token
<1>2. task' = [task EXCEPT ![t] = r] /\ jobs' = {j \in jobs : j.of # t}
  BY DEF Finish
<1> HIDE DEF r
<1> QED BY <1>1, <1>2

(* What `SessionsInv` says of the windows. *)
LEMMA ClientFacts ==
  ASSUME SessionsInv
  PROVE  /\ SessionsTypeOK /\ RowsHold /\ TokensHold /\ TasksHold /\ JarHolds
         /\ cookie \in Token /\ Issued(cookie)
         /\ \A w \in Windows : token[w] \in Token /\ Issued(token[w])
         /\ \A t \in Tasks : Of(t) \in Windows /\ task[t] \in TaskState
                             /\ Issued(task[t].with)
BY SessionsAssumption DEF SessionsInv, SessionsTypeOK, TokensHold, Of

(* The jar, in a step that leaves it and what is in flight alone. *)
LEMMA JarAlone ==
  ASSUME JarHolds, UNCHANGED <<rows, cookie, excused>>, InFlight' = InFlight
  PROVE  JarHolds'
BY DEF JarHolds, Kept, Current, Family

LEMMA JarKept ==
  ASSUME SessionsInv, UNCHANGED cookie
  PROVE  cookie \in Token /\ InTheJar(cookie)
<1>1. cookie \in Token /\ Issued(cookie)
  BY ClientFacts
<1>2. \A i \in jobs : i.kind = "login" /\ i.stage = "done" =>
        cookie = None \/ Family(cookie) # i.new
  BY OfRequest DEF LoginHolds
<1> QED BY <1>1, <1>2 DEF InTheJar

LEMMA StartKeeps ==
  ASSUME SessionsInv, NEW t \in Tasks, Start(t)
  PROVE  SessionsInv'
<1> DEFINE r == [Idle EXCEPT !.at = "turn", !.op = "restore"]
<1>1. /\ r \in TaskState /\ r.at = "turn" /\ r.op = "restore"
      /\ r.verdict = "none" /\ r.with = None
  BY DEF Idle, TaskState, Ops, Verdicts, Token
<1>2. task' = [task EXCEPT ![t] = r] /\ task[t].at = "idle"
  BY DEF Start
<1> HIDE DEF r
<1>3. /\ rows' = rows /\ fresh' = fresh /\ cookie' = cookie /\ token' = token
      /\ jobs' = jobs /\ turn' = turn /\ excused' = excused /\ faults' = faults
  BY DEF Start, server, history
<1>4. \A i \in jobs : i.of # t
  BY <1>2, ClientFacts, NobodyIsNoTask DEF TasksHold
<1>5. TasksHold' /\ task' \in [Tasks -> TaskState]
  <2>1. t \notin turn'
    BY <1>2, <1>3, ClientFacts DEF TasksHold
  <2> QED BY <1>1, <1>2, <1>3, <1>4, <2>1, ClientFacts, TaskMoves
<1>6. phase' \in [Windows -> {"closed", "loading", "ready", "out"}]
  BY ClientFacts DEF Start, SessionsTypeOK
<1>7. SessionsTypeOK'
  BY <1>3, <1>5, <1>6, ClientFacts DEF SessionsTypeOK
<1>8. JarHolds'
  BY <1>3, ClientFacts, JarAlone DEF InFlight
<1>9. Told(t, None)
  BY <1>1, <1>2, ClientFacts DEF Told, Issued, SessionsTypeOK
<1>10. \A u \in Tasks : task'[u] = task[u] \/ \E s \in Token : Told(u, s)
  BY <1>2, <1>9, ClientFacts DEF Token, SessionsTypeOK
<1> QED BY <1>3, <1>5, <1>7, <1>8, <1>10, JarKept, ClientStep DEF server

LEMMA AskKeeps ==
  ASSUME SessionsInv, NEW t \in Tasks, Ask(t)
  PROVE  SessionsInv'
<1>1. /\ rows' = rows /\ fresh' = fresh /\ cookie' = cookie /\ token' = token
      /\ phase' = phase /\ turn' = turn /\ excused' = excused /\ faults' = faults
      /\ task[t].at = "idle"
  BY DEF Ask, server, history
<1>2. PICK kind \in {"me", "call", "logout", "login"} : Send(t, kind, token[Of(t)], TRUE)
  BY DEF Ask
<1>3. PICK tok \in Token : tok = token[Of(t)] /\ Issued(tok)
  BY ClientFacts
<1>4. PICK r \in TaskState, k \in Request :
           /\ task' = [task EXCEPT ![t] = r]
           /\ r.at = "send" /\ r.op = kind /\ r.verdict = "none" /\ r.with = None
           /\ jobs' = {j \in jobs : j.of # t} \cup {k}
           /\ k.of = t /\ k.kind = kind /\ k.sid = tok /\ k.new = None
           /\ k.stage = "sent"
  <2>1. PICK b \in BOOLEAN : Send(t, kind, tok, b)
    BY <1>2, <1>3 DEF Send
  <2>2. SessionsTypeOK
    BY ClientFacts
  <2> QED BY <2>1, <2>2, SendFacts
<1>5. \A i \in jobs : i.of # t
  BY <1>1, ClientFacts, NobodyIsNoTask DEF TasksHold
<1>6. jobs' = jobs \cup {k}
  BY <1>4, <1>5
<1>7. TasksHold' /\ task' \in [Tasks -> TaskState]
  <2>1. t \notin turn'
    BY <1>1, ClientFacts DEF TasksHold
  <2>2. \A i, m \in jobs' : i.of = t /\ m.of = t => i = m
    BY <1>5, <1>6
  <2>3. \A i \in jobs' :
           \/ i \in jobs /\ i.of # t
           \/ i.of = t /\ r.at = (IF i.kind = "refresh" THEN "refresh" ELSE "send")
    BY <1>4, <1>5, <1>6
  <2>4. SessionsTypeOK /\ TasksHold /\ turn' = turn
    BY <1>1, ClientFacts
  <2>5. /\ r \in TaskState /\ task' = [task EXCEPT ![t] = r]
        /\ r.at = "send" /\ (r.at # "idle" => r.op # "none") /\ r.op # "restore"
    BY <1>1, <1>4
  <2>6. \A u \in Tasks : u # t => (u \in turn' <=> u \in turn)
    BY <2>4
  <2>7. r.at = "refresh" <=> t \in turn'
    BY <2>1, <2>5
  <2> QED BY <2>2, <2>3, <2>4, <2>5, <2>6, <2>7, TaskMoves
<1>8. SessionsTypeOK'
  BY <1>1, <1>6, <1>7, ClientFacts DEF SessionsTypeOK
<1>9. JarHolds'
  <2>1. InFlight' = InFlight
    BY <1>4, <1>6 DEF InFlight
  <2> QED BY <1>1, <2>1, ClientFacts, JarAlone
<1>10. Told(t, None)
  BY <1>4, ClientFacts DEF Told, Issued, SessionsTypeOK
<1>11. \A u \in Tasks : task'[u] = task[u] \/ \E s \in Token : Told(u, s)
  BY <1>4, <1>10, ClientFacts DEF Token, SessionsTypeOK
<1>12. Begun(k)
  BY <1>3, <1>4, NobodyIsNoTask DEF Begun
<1> QED BY <1>1, <1>6, <1>7, <1>8, <1>9, <1>11, <1>12, JarKept, ClientStep DEF server

LEMMA TakeTurnKeeps ==
  ASSUME HasLocks, SessionsInv, NEW t \in Tasks, TakeTurn(t)
  PROVE  SessionsInv'
<1>1. /\ rows' = rows /\ fresh' = fresh /\ cookie' = cookie /\ token' = token
      /\ phase' = phase /\ turn' = {t} /\ turn = {} /\ excused' = excused
      /\ faults' = faults /\ task[t].at = "turn"
  BY DEF TakeTurn, server, history
<1> DEFINE r == [task[t] EXCEPT !.at = "refresh"]
<1>2. /\ r \in TaskState /\ r.at = "refresh" /\ r.op = task[t].op
      /\ r.verdict = task[t].verdict /\ r.with = task[t].with
  BY ClientFacts DEF TaskState
<1>3. task' = [task EXCEPT ![t] = r]
  BY ClientFacts DEF TakeTurn, SessionsTypeOK
<1> HIDE DEF r
<1>4. PICK k \in Request : /\ k = Job(t, "refresh", cookie)
                           /\ k.of = t /\ k.kind = "refresh" /\ k.sid = cookie
                           /\ k.new = None /\ k.stage = "sent"
  BY ClientFacts, JobFacts
<1>5. jobs' = jobs \cup {k}
  BY <1>4 DEF TakeTurn
<1>6. \A i \in jobs : i.of # t
  BY <1>1, ClientFacts, NobodyIsNoTask DEF TasksHold
<1>7. TasksHold' /\ task' \in [Tasks -> TaskState]
  <2>1. \A i, m \in jobs' : i.of = t /\ m.of = t => i = m
    BY <1>5, <1>6
  <2>2. task[t].op # "none"
    BY <1>1, ClientFacts DEF TasksHold
  <2>3. \A i \in jobs' :
           \/ i \in jobs /\ i.of # t
           \/ i.of = t /\ r.at = (IF i.kind = "refresh" THEN "refresh" ELSE "send")
    BY <1>2, <1>4, <1>5, <1>6
  <2> QED BY <1>1, <1>2, <1>3, <2>1, <2>2, <2>3, ClientFacts, TaskMoves
<1>8. SessionsTypeOK'
  BY <1>1, <1>5, <1>7, ClientFacts DEF SessionsTypeOK
<1>9. k \in InFlight' /\ InFlight = {}
  <2>1. InFlight = {}
    <3> SUFFICES ASSUME NEW i \in InFlight PROVE FALSE
      OBVIOUS
    <3>1. i.of \in Tasks
      BY RequestFields, ClientFacts DEF InFlight, SessionsTypeOK
    <3> QED BY <1>1, <3>1, ClientFacts DEF TasksHold, InFlight
  <2> QED BY <1>4, <1>5, <2>1, NobodyIsNoTask DEF InFlight
<1>10. JarHolds'
  BY <1>1, <1>4, <1>9 DEF JarHolds
<1>11. Begun(k)
  BY <1>4, <1>9, ClientFacts, NobodyIsNoTask DEF Begun, JarHolds
<1>12. Told(t, task[t].with)
  BY <1>2, <1>3, ClientFacts DEF Told, SessionsTypeOK, SessionsInv, NeverThrownOut, Kept, Family
<1>13. \A u \in Tasks : task'[u] = task[u] \/ \E s \in Token : Told(u, s)
  BY <1>3, <1>12, ClientFacts DEF SessionsTypeOK, TaskState
<1> QED BY <1>1, <1>5, <1>7, <1>8, <1>10, <1>11, <1>13, JarKept, ClientStep DEF server

(* The one request of a task. *)
LEMMA OwnRequest ==
  ASSUME SessionsInv, NEW t \in Tasks, NEW j \in jobs, j.of = t
  PROVE  /\ {i \in jobs : i.of # t} = jobs \ {j}
         /\ task[t].at = IF j.kind = "refresh" THEN "refresh" ELSE "send"
         /\ j.kind = "refresh" <=> t \in turn
<1>1. /\ \A i \in jobs : i.of = t => i = j
      /\ task[t].at = IF j.kind = "refresh" THEN "refresh" ELSE "send"
      /\ j.kind = "refresh" <=> t \in turn
  BY ClientFacts, NobodyIsNoTask DEF TasksHold
<1> QED BY <1>1

(* A task that heard its answer is idle, *)
LEMMA Finishes ==
  ASSUME SessionsInv, NEW t \in Tasks, NEW j \in jobs, j.of = t,
         NEW v \in Verdicts, NEW sid \in Token, Issued(sid), Finish(t, v, sid),
         v \in {"unknown", "reused", "revoked"} => sid # None /\ ~Kept(sid),
         turn' = turn \ {t}
  PROVE  /\ TasksHold' /\ task' \in [Tasks -> TaskState]
         /\ jobs' = jobs \ {j}
         /\ \A u \in Tasks : task'[u] = task[u] \/ \E s \in Token : Told(u, s)
<1>1. PICK r \in TaskState :
           /\ task' = [task EXCEPT ![t] = r]
           /\ r.at = "idle" /\ r.op = "none" /\ r.verdict = v /\ r.with = sid
           /\ jobs' = {i \in jobs : i.of # t}
  BY FinishFacts
<1>2. TasksHold' /\ task' \in [Tasks -> TaskState]
  BY <1>1, ClientFacts, TaskMoves
<1>3. Told(t, sid)
  BY <1>1, ClientFacts DEF Told, SessionsTypeOK
<1>4. \A u \in Tasks : task'[u] = task[u] \/ \E s \in Token : Told(u, s)
  BY <1>1, <1>3, ClientFacts DEF SessionsTypeOK
<1> QED BY <1>1, <1>2, <1>4, OwnRequest

(* or asks once more with what it has now. *)
LEMMA SendsAgain ==
  ASSUME SessionsInv, NEW t \in Tasks, NEW j \in jobs, j.of = t,
         NEW kind \in {"me", "call", "logout", "login"}, NEW tok \in Token, Issued(tok),
         NEW retry \in BOOLEAN, Send(t, kind, tok, retry), turn' = turn \ {t}
  PROVE  /\ TasksHold' /\ task' \in [Tasks -> TaskState]
         /\ \E k \in Request : /\ jobs' = (jobs \ {j}) \cup {k}
                               /\ Begun(k) /\ k.kind # "refresh"
         /\ \A u \in Tasks : task'[u] = task[u] \/ \E s \in Token : Told(u, s)
<1>0. SessionsTypeOK
  BY ClientFacts
<1>1. PICK r \in TaskState, k \in Request :
           /\ task' = [task EXCEPT ![t] = r]
           /\ r.at = "send" /\ r.op = kind /\ r.verdict = "none" /\ r.with = None
           /\ jobs' = {i \in jobs : i.of # t} \cup {k}
           /\ k.of = t /\ k.kind = kind /\ k.sid = tok /\ k.new = None
           /\ k.stage = "sent"
  BY <1>0, SendFacts
<1>2. TasksHold' /\ task' \in [Tasks -> TaskState]
  <2>1. \A i \in jobs' :
           \/ i \in jobs /\ i.of # t
           \/ i.of = t /\ r.at = (IF i.kind = "refresh" THEN "refresh" ELSE "send")
    BY <1>1
  <2>2. \A i, m \in jobs' : i.of = t /\ m.of = t => i = m
    BY <1>1
  <2> QED BY <1>1, <2>1, <2>2, ClientFacts, TaskMoves
<1>3. Told(t, None)
  BY <1>1, ClientFacts DEF Told, Issued, SessionsTypeOK
<1>4. \A u \in Tasks : task'[u] = task[u] \/ \E s \in Token : Told(u, s)
  BY <1>1, <1>3, ClientFacts DEF SessionsTypeOK, Token
<1>5. Begun(k) /\ k.kind # "refresh"
  BY <1>1, NobodyIsNoTask DEF Begun
<1> QED BY <1>1, <1>2, <1>4, <1>5, OwnRequest

(* An answer in hand. *)
Heard(t, j) ==
  /\ t \in Tasks /\ j \in jobs /\ j.of = t /\ j.stage = "done"
  /\ UNCHANGED <<server, excused, faults>>

LEMMA FailTypes ==
  ASSUME SessionsInv, NEW t \in Tasks, NEW j, Fail(t, j)
  PROVE  phase' \in [Windows -> {"closed", "loading", "ready", "out"}]
BY ClientFacts DEF Fail, SessionsTypeOK

LEMMA RefreshAnsweredKeeps ==
  ASSUME HasLocks, SessionsInv, NEW t, NEW j, Heard(t, j), RefreshAnswered(t, j)
  PROVE  SessionsInv'
<1>0. /\ t \in Tasks /\ j \in jobs /\ j.of = t /\ j.stage = "done"
      /\ rows' = rows /\ fresh' = fresh /\ excused' = excused /\ faults' = faults
      /\ turn' = turn \ {t} /\ j.kind = "refresh"
      /\ Of(t) \in Windows /\ SessionsTypeOK /\ turn' \subseteq Tasks
      /\ \A u, v \in turn' : u = v
  BY ClientFacts DEF Heard, server, RefreshAnswered, SessionsTypeOK
<1>1. /\ j \in InFlight /\ \A i \in InFlight : i = j
      /\ HandlerHolds(j) /\ RotationHolds(j) /\ j.sid \in Token /\ j.new \in Token
      /\ Issued(j.sid) /\ Issued(j.new) /\ j.verdict \in Verdicts
  <2>1. j.of # Nobody
    BY <1>0, NobodyIsNoTask
  <2>2. j \in InFlight
    BY <1>0, <2>1 DEF InFlight
  <2> QED BY <1>0, <2>1, <2>2, OneInFlight, OfRequest, RequestFields, ClientFacts
<1>2. CASE j.verdict = "ok"
  <2>1. /\ cookie' = j.new /\ token' = [token EXCEPT ![Of(t)] = j.new] /\ phase' = phase
        /\ j.new # None /\ j.sid # None /\ Family(j.new) = Family(j.sid)
    BY <1>0, <1>1, <1>2 DEF RefreshAnswered, HandlerHolds
  <2>2. PICK kind \in {"me", "call", "logout", "login"}, b \in BOOLEAN :
          Send(t, kind, j.new, b)
    <3>1. task[t].op \in Ops /\ task[t].op # "none"
      BY <1>0, OwnRequest, ClientFacts DEF TaskState, TasksHold
    <3>2. CASE task[t].op = "restore"
      BY <1>2, <3>2 DEF RefreshAnswered
    <3>3. CASE task[t].op # "restore"
      <4>1. task[t].op \in {"me", "call", "logout", "login"}
        BY <3>1, <3>3 DEF Ops
      <4> QED BY <1>2, <3>3, <4>1 DEF RefreshAnswered
    <3> QED BY <3>2, <3>3
  <2>3. PICK k \in Request : /\ jobs' = (jobs \ {j}) \cup {k}
                             /\ Begun(k) /\ k.kind # "refresh"
    BY <1>0, <1>1, <2>2, SendsAgain
  <2>4. /\ TasksHold' /\ task' \in [Tasks -> TaskState]
        /\ \A u \in Tasks : task'[u] = task[u] \/ \E s \in Token : Told(u, s)
    BY <1>0, <1>1, <2>2, SendsAgain
  <2>5. SessionsTypeOK'
    BY <1>0, <1>1, <2>1, <2>3, <2>4 DEF SessionsTypeOK
  <2>6. InFlight' = {}
    BY <1>1, <2>3 DEF InFlight
  <2>7. Kept(j.new) => Current(j.new)
    BY <1>0, <1>1, <2>1 DEF RotationHolds, Kept
  <2>8. JarHolds'
    BY <1>0, <2>1, <2>6, <2>7 DEF JarHolds, Kept, Current, Family
  <2>9. InTheJar(j.new)
    <3>1. \A i \in jobs : i.kind = "login" /\ i.stage = "done" => Family(j.sid) # i.new
      BY <1>0, <2>1, OfRequest DEF LoginHolds
    <3> QED BY <1>1, <2>1, <3>1 DEF InTheJar
  <2>10. \A w \in Windows : token'[w] = token[w] \/ Issued(token'[w])
    BY <1>0, <1>1, <2>1 DEF SessionsTypeOK
  <2>11. \A i \in jobs' : i \in jobs \/ Begun(i)
    BY <2>3
  <2> QED BY <1>0, <1>1, <2>4, <2>5, <2>8, <2>9, <2>10, <2>11, ClientStep DEF server
<1>3. CASE j.verdict # "ok"
  <2>1. /\ cookie' = cookie /\ token' = [token EXCEPT ![Of(t)] = None] /\ Fail(t, j)
        /\ phase' \in [Windows -> {"closed", "loading", "ready", "out"}]
    BY <1>0, <1>3, FailTypes DEF RefreshAnswered
  <2>2. /\ TasksHold' /\ task' \in [Tasks -> TaskState] /\ jobs' = jobs \ {j}
        /\ \A u \in Tasks : task'[u] = task[u] \/ \E s \in Token : Told(u, s)
    <3>1. Finish(t, j.verdict, j.sid)
      BY <2>1 DEF Fail
    <3>2. j.verdict \in {"unknown", "reused", "revoked"} => j.sid # None /\ ~Kept(j.sid)
      BY <1>0, <1>1 DEF HandlerHolds
    <3> QED BY <1>0, <1>1, <3>1, <3>2, Finishes
  <2>3. SessionsTypeOK'
    BY <1>0, <2>1, <2>2 DEF SessionsTypeOK, Token
  <2>4. InFlight' = {}
    BY <1>1, <2>2 DEF InFlight
  <2>5. Kept(cookie) => Current(cookie)
    BY <1>0, <1>1, <1>3, ClientFacts DEF JarHolds, RotationHolds
  <2>6. JarHolds'
    BY <1>0, <2>1, <2>4, <2>5 DEF JarHolds, Kept, Current, Family
  <2>7. \A w \in Windows : token'[w] = token[w] \/ Issued(token'[w])
    BY <1>0, <2>1 DEF SessionsTypeOK, Issued
  <2> QED BY <1>0, <2>1, <2>2, <2>3, <2>6, <2>7, JarKept, ClientStep DEF server
<1> QED BY <1>2, <1>3

LEMMA UnauthorizedKeeps ==
  ASSUME SessionsInv, NEW t, NEW j, Heard(t, j), Unauthorized(t, j)
  PROVE  SessionsInv'
<1>0. /\ t \in Tasks /\ j \in jobs /\ j.of = t /\ j.stage = "done"
      /\ rows' = rows /\ fresh' = fresh /\ excused' = excused /\ faults' = faults
      /\ cookie' = cookie /\ token' = token /\ turn' = turn /\ j.kind # "refresh"
      /\ SessionsTypeOK
  BY ClientFacts DEF Heard, server, Unauthorized
<1>1. /\ HandlerHolds(j) /\ j.sid \in Token /\ Issued(j.sid) /\ j.verdict \in Verdicts
      /\ task[t].at = "send" /\ t \notin turn /\ turn' = turn \ {t}
      /\ {i \in jobs : i.of # t} = jobs \ {j}
  BY <1>0, OfRequest, RequestFields, OwnRequest
<1>2. /\ TasksHold' /\ task' \in [Tasks -> TaskState] /\ jobs' = jobs \ {j}
      /\ \A u \in Tasks : task'[u] = task[u] \/ \E s \in Token : Told(u, s)
      /\ phase' \in [Windows -> {"closed", "loading", "ready", "out"}]
  <2>1. CASE Fail(t, j)
    <3>1. Finish(t, j.verdict, j.sid)
      BY <2>1 DEF Fail
    <3>2. j.verdict \in {"unknown", "reused", "revoked"} => j.sid # None /\ ~Kept(j.sid)
      BY <1>0, <1>1 DEF HandlerHolds
    <3> QED BY <1>0, <1>1, <2>1, <3>1, <3>2, Finishes, FailTypes
  <2>2. CASE /\ task' = [task EXCEPT ![t].at = "turn"] /\ jobs' = jobs \ {j} /\ phase' = phase
    <3> DEFINE r == [task[t] EXCEPT !.at = "turn"]
    <3>1. /\ r \in TaskState /\ r.at = "turn" /\ r.op = task[t].op
          /\ r.verdict = task[t].verdict /\ r.with = task[t].with
      BY <1>0, ClientFacts DEF TaskState
    <3>2. task' = [task EXCEPT ![t] = r]
      BY <1>0, <2>2 DEF SessionsTypeOK
    <3> HIDE DEF r
    <3>3. task[t].op # "none"
      BY <1>0, <1>1, ClientFacts DEF TasksHold
    <3>4. \A i \in jobs' : i \in jobs /\ i.of # t
      BY <1>1, <2>2
    <3>5. TasksHold' /\ task' \in [Tasks -> TaskState]
      <4>1. SessionsTypeOK /\ TasksHold /\ t \in Tasks
        BY <1>0, ClientFacts
      <4>2. /\ r.at # "refresh" /\ t \notin turn' /\ r.at # "send"
            /\ \A u \in Tasks : u # t => (u \in turn' <=> u \in turn)
            /\ r.op # "none"
        BY <1>0, <1>1, <3>1, <3>3
      <4>3. \A i, k \in jobs' : i.of = t /\ k.of = t => i = k
        BY <3>4
      <4> QED BY <3>1, <3>2, <3>4, <4>1, <4>2, <4>3, TaskMoves
    <3>6. Told(t, task[t].with)
      BY <1>0, <3>1, <3>2, ClientFacts
         DEF Told, SessionsTypeOK, SessionsInv, NeverThrownOut, Kept, Family
    <3>7. \A u \in Tasks : task'[u] = task[u] \/ \E s \in Token : Told(u, s)
      BY <1>0, <3>2, <3>6, ClientFacts DEF SessionsTypeOK, TaskState
    <3> QED BY <1>0, <2>2, <3>5, <3>7 DEF SessionsTypeOK
  <2> QED BY <2>1, <2>2 DEF Unauthorized
<1>3. SessionsTypeOK'
  BY <1>0, <1>2 DEF SessionsTypeOK
<1>4. JarHolds'
  <2>1. InFlight' = InFlight
    BY <1>0, <1>2 DEF InFlight
  <2> QED BY <1>0, <2>1, ClientFacts, JarAlone
<1> QED BY <1>0, <1>2, <1>3, <1>4, JarKept, ClientStep DEF server

LEMMA GrantedKeeps ==
  ASSUME SessionsInv, NEW t, NEW j, Heard(t, j), Granted(t, j)
  PROVE  SessionsInv'
<1>0. /\ t \in Tasks /\ j \in jobs /\ j.of = t /\ j.stage = "done"
      /\ rows' = rows /\ fresh' = fresh /\ excused' = excused /\ faults' = faults
      /\ turn' = turn /\ j.kind # "refresh" /\ j.verdict = "ok"
      /\ SessionsTypeOK /\ Of(t) \in Windows /\ j.new \in Token /\ Issued(j.new)
      /\ cookie \in Token
  BY ClientFacts, OfRequest DEF Heard, server, Granted
<1>1. /\ TasksHold' /\ task' \in [Tasks -> TaskState] /\ jobs' = jobs \ {j}
      /\ \A u \in Tasks : task'[u] = task[u] \/ \E s \in Token : Told(u, s)
  <2>1. PICK v \in Verdicts, s \in Token : v = "ok" /\ s = None /\ Finish(t, v, s)
    BY DEF Granted, Verdicts, Token
  <2>2. Issued(s) /\ turn' = turn \ {t}
    BY <1>0, <2>1, OwnRequest DEF Issued
  <2> QED BY <1>0, <2>1, <2>2, Finishes
<1>2. InFlight' = InFlight
  BY <1>0, <1>1 DEF InFlight
<1>3. \A i \in jobs' : i \in jobs \/ Begun(i)
  BY <1>1
<1>4. CASE cookie' = cookie /\ token' = token
  <2>1. phase' \in [Windows -> {"closed", "loading", "ready", "out"}]
    BY <1>0 DEF Granted, SessionsTypeOK
  <2>2. SessionsTypeOK'
    BY <1>0, <1>1, <1>4, <2>1 DEF SessionsTypeOK
  <2>3. JarHolds'
    BY <1>0, <1>2, <1>4, ClientFacts, JarAlone
  <2> QED BY <1>0, <1>1, <1>3, <1>4, <2>2, <2>3, JarKept, ClientStep DEF server
<1>5. CASE /\ j.kind = "login" /\ cookie' = j.new
           /\ token' = [token EXCEPT ![Of(t)] = j.new]
           /\ phase' = [phase EXCEPT ![Of(t)] = "ready"]
  <2>1. SessionsTypeOK'
    BY <1>0, <1>1, <1>5 DEF SessionsTypeOK
  <2>2. /\ j.new # None /\ Family(j.new) = j.new
        /\ \A r \in Sids : Family(r) = j.new => r = j.new
        /\ Kept(j.new) => ~rows[j.new].revoked
        /\ \A k \in jobs : k.kind = "refresh" /\ k.sid # None => Family(k.sid) # j.new
        /\ \A k \in jobs : k.kind = "login" /\ k.new = j.new => k = j
    BY <1>0, <1>5, OfRequest DEF LoginHolds
  <2>3. Kept(j.new) => Current(j.new)
    BY <2>2 DEF Current
  <2>4. \A i \in InFlight : i.sid # None => Family(i.sid) # Family(j.new)
    BY <2>2 DEF InFlight
  <2>5. JarHolds'
    BY <1>0, <1>2, <1>5, <2>3, <2>4 DEF JarHolds, Kept, Current, Family
  <2>6. InTheJar(j.new)
    BY <1>0, <1>1, <1>5, <2>2 DEF InTheJar
  <2>7. \A w \in Windows : token'[w] = token[w] \/ Issued(token'[w])
    BY <1>0, <1>5 DEF SessionsTypeOK
  <2> QED BY <1>0, <1>1, <1>3, <2>1, <2>5, <2>6, <2>7, ClientStep DEF server
<1>6. CASE /\ cookie' = None /\ token' = [token EXCEPT ![Of(t)] = None]
           /\ phase' = [phase EXCEPT ![Of(t)] = "out"]
  <2>1. SessionsTypeOK'
    BY <1>0, <1>1, <1>6 DEF SessionsTypeOK, Token
  <2>2. JarHolds'
    BY <1>6 DEF JarHolds, Kept
  <2>3. None \in Token /\ InTheJar(None)
    BY <1>6 DEF InTheJar, Issued, Token
  <2>4. \A w \in Windows : token'[w] = token[w] \/ Issued(token'[w])
    BY <1>0, <1>6 DEF SessionsTypeOK, Issued
  <2> QED BY <1>0, <1>1, <1>3, <2>1, <2>2, <2>3, <2>4, ClientStep DEF server
<1> QED BY <1>4, <1>5, <1>6 DEF Granted

LEMMA ReceiveKeeps ==
  ASSUME HasLocks, SessionsInv, NEW t \in Tasks, Receive(t)
  PROVE  SessionsInv'
<1>1. PICK j \in jobs : /\ Heard(t, j)
                        /\ RefreshAnswered(t, j) \/ Unauthorized(t, j) \/ Granted(t, j)
  BY DEF Receive, Heard
<1> QED BY <1>1, RefreshAnsweredKeeps, UnauthorizedKeeps, GrantedKeeps

-----------------------------------------------------------------------------
(* Faults: the server goes on with what it was asked. *)

LEMMA OrphanKeeps ==
  ASSUME HasLocks, SessionsInv, NEW ts \in SUBSET Tasks, NEW lost \in Lost(ts),
         Orphan(ts, lost), UNCHANGED <<server, cookie>>,
         faults' \in 0..MaxFaults, turn' = turn \ ts,
         token' \in [Windows -> Token],
         \A w \in Windows : token'[w] = token[w] \/ token'[w] = None,
         phase' \in [Windows -> {"closed", "loading", "ready", "out"}],
         task' \in [Tasks -> TaskState],
         \A t \in Tasks :
           IF t \in ts THEN /\ task'[t].at = "idle" /\ task'[t].with = None
                            /\ task'[t].verdict \in {"none", "offline"}
                       ELSE task'[t] = task[t]
  PROVE  SessionsInv'
<1> DEFINE Left(i, m) == \/ m = i /\ i.of \notin ts
                         \/ /\ i.of \in ts /\ i \notin lost
                            /\ m = [i EXCEPT !.of = Nobody]
<1>0. /\ SessionsTypeOK /\ rows' = rows /\ fresh' = fresh /\ cookie' = cookie
      /\ RowsHold /\ TokensHold /\ TasksHold /\ JarHolds /\ cookie \in Token
      /\ Nobody \notin ts /\ excused \subseteq excused'
  BY ClientFacts, NobodyIsNoTask DEF server, Orphan
<1>1. \A i \in lost : i.stage = "sent"
  BY DEF Lost
<1>2. ASSUME NEW m \in jobs' PROVE \E i \in jobs : Left(i, m)
  BY DEF Orphan
<1>3. ASSUME NEW i \in jobs, NEW m, Left(i, m)
      PROVE  /\ m \in Request /\ m.kind = i.kind /\ m.sid = i.sid /\ m.new = i.new
             /\ m.stage = i.stage /\ m.verdict = i.verdict
             /\ m.of = i.of \/ m.of = Nobody
             /\ i.of \notin ts => m = i
             /\ i.of \in ts => m.of = Nobody /\ i \notin lost
  <2>1. i \in Request
    BY OfRequest
  <2> QED BY <1>3, <2>1 DEF Request
<1>4. \A i \in jobs : i.of \in ts /\ i.kind = "refresh" /\ i.sid # None /\ i \notin lost =>
        Family(i.sid) \in excused'
  BY DEF Orphan, Family
<1> HIDE DEF Left
<1>5. jobs' \subseteq Request
  BY <1>2, <1>3
<1>6. excused' \subseteq Sids
  <2> DEFINE More == {rows[j.sid].family : j \in {k \in jobs : k.of \in ts /\ k.kind = "refresh"
                                               /\ k.sid # None /\ k \notin lost}}
  <2>1. \A f \in More : f \in Sids
    <3> SUFFICES ASSUME NEW k \in jobs, k.sid # None PROVE rows[k.sid].family \in Sids
      OBVIOUS
    <3> QED BY <1>0, OfRequest, FamilyType DEF Issued, Token
  <2>2. excused' = excused \cup More
    BY DEF Orphan
  <2>3. excused \subseteq Sids
    BY <1>0 DEF SessionsTypeOK
  <2> HIDE DEF More
  <2> QED BY <2>1, <2>2, <2>3
<1>7. SessionsTypeOK'
  <2>1. turn' \subseteq Tasks /\ \A t, u \in turn' : t = u
    BY <1>0 DEF SessionsTypeOK
  <2> QED BY <1>0, <1>5, <1>6, <2>1 DEF SessionsTypeOK
<1>8. \A s : Family(s)' = Family(s) /\ (Kept(s)' => Kept(s)) /\ (Current(s)' <=> Current(s))
  BY <1>0 DEF Family, Kept, Current
<1>9. RowsHold'
  BY <1>0 DEF RowsHold, Family, Kept
<1>10. TokensHold'
  <2>1. \A m \in jobs' : Issued(m.sid)' /\ Issued(m.new)'
    <3> SUFFICES ASSUME NEW m \in jobs' PROVE Issued(m.sid)' /\ Issued(m.new)'
      OBVIOUS
    <3>1. PICK i \in jobs : Left(i, m)
      BY <1>2
    <3> QED BY <1>3, <1>8, <3>1, OfRequest DEF Issued
  <2>2. \A s \in fresh' : Issued(s)'
    BY <1>0, <1>8 DEF TokensHold, Issued
  <2>3. Issued(cookie)' /\ \A w \in Windows : Issued(token[w])'
    BY <1>0 DEF TokensHold, Issued, Family
  <2>4. \A t \in Tasks : Issued(task[t].with)'
    BY <1>0 DEF TokensHold, Issued, Family
  <2> QED BY <2>1, <2>2, <2>3, <2>4 DEF TokensHold
<1>11. \A m \in jobs' : m.of # Nobody => m \in jobs /\ m.of \notin ts
  BY <1>2, <1>3
<1>12. TasksHold'
  <2>1. ASSUME NEW m \in jobs', m.of # Nobody
        PROVE  task'[m.of].at = IF m.kind = "refresh" THEN "refresh" ELSE "send"
    <3>1. m \in jobs /\ m.of \in Tasks \ ts
      BY <1>0, <1>11, <2>1, RequestFields DEF SessionsTypeOK
    <3> QED BY <1>0, <2>1, <3>1 DEF TasksHold
  <2>2. \A i, k \in jobs' : i.of = k.of /\ i.of # Nobody => i = k
    BY <1>0, <1>11 DEF TasksHold
  <2>3. \A t \in Tasks : /\ task'[t].at = "refresh" <=> t \in turn'
                         /\ task'[t].at # "idle" => task'[t].op # "none"
                         /\ task'[t].at = "send" => task'[t].op # "restore"
    BY <1>0 DEF TasksHold
  <2> QED BY <2>1, <2>2, <2>3 DEF TasksHold
<1>13. ASSUME NEW m \in jobs' PROVE HandlerHolds(m)'
  <2>1. PICK i \in jobs : Left(i, m)
    BY <1>2
  <2>2. HandlerHolds(i)
    BY OfRequest
  <2>3. m.kind = "refresh" /\ m.of = Nobody => ~Kept(m.sid)'
    <3>1. CASE i.of \in ts
      BY <1>3, <1>4, <1>8, <2>1, <3>1 DEF Kept
    <3>2. CASE i.of \notin ts
      BY <1>3, <1>8, <2>1, <2>2, <3>2 DEF HandlerHolds
    <3> QED BY <3>1, <3>2
  <2> QED BY <1>3, <1>8, <2>1, <2>2, <2>3 DEF HandlerHolds
<1>14. \A m \in InFlight' : m \in InFlight /\ m.of \notin ts
  BY <1>11 DEF InFlight
<1>15. ASSUME NEW m \in InFlight' PROVE RotationHolds(m)'
  <2>1. RotationHolds(m)
    BY <1>14 DEF SessionsInv
  <2> QED BY <1>0, <1>8, <2>1 DEF RotationHolds, Family
<1>16. ASSUME NEW m \in jobs', m.kind = "login" PROVE LoginHolds(m)'
  <2>1. PICK i \in jobs : Left(i, m)
    BY <1>2
  <2>2. LoginHolds(i) /\ m.kind = i.kind /\ m.new = i.new /\ m.stage = i.stage /\ m.verdict = i.verdict
    BY <1>3, <1>16, <2>1, OfRequest
  <2>3. ASSUME NEW k \in jobs', k.kind = "refresh", k.sid # None, m.stage = "done"
        PROVE  Family(k.sid)' # m.new
    <3>1. PICK p \in jobs : Left(p, k)
      BY <1>2
    <3> QED BY <1>3, <1>8, <2>2, <2>3, <3>1 DEF LoginHolds
  <2>4. ASSUME NEW k \in jobs', k.kind = "login", k.new = m.new, m.stage = "done" PROVE k = m
    <3>1. PICK p \in jobs : Left(p, k)
      BY <1>2
    <3>2. p = i
      BY <1>3, <2>2, <2>4, <3>1 DEF LoginHolds
    <3> QED BY <2>1, <3>1, <3>2 DEF Left
  <2> QED BY <1>0, <1>8, <2>2, <2>3, <2>4 DEF LoginHolds, Family
<1>17. JarHolds'
  <2> SUFFICES ASSUME Kept(cookie)'
               PROVE  \/ \E i \in InFlight' : i.sid = cookie
                      \/ /\ Current(cookie)
                         /\ \A i \in InFlight' : i.sid # None => Family(i.sid) # Family(cookie)
    BY <1>0 DEF JarHolds, Kept, Current, Family
  <2>1. Kept(cookie) /\ Family(cookie) \notin excused'
    BY <1>0 DEF Kept, Family
  <2>2. CASE \E i \in InFlight : i.sid = cookie
    <3>1. PICK i \in InFlight : i.sid = cookie
      BY <2>2
    <3>2. i \in jobs /\ i.kind = "refresh" /\ i.of # Nobody
      BY DEF InFlight
    <3>3. CASE i.of \notin ts
      <4>1. i \in jobs'
        BY <3>2, <3>3 DEF Orphan
      <4> QED BY <3>1, <3>2, <4>1 DEF InFlight
    <3>4. CASE i.of \in ts
      <4>1. i \in lost
        BY <1>4, <2>1, <3>1, <3>2, <3>4 DEF Kept
      <4>2. Current(cookie)
        BY <1>1, <2>1, <3>1, <3>2, <4>1, OfRequest DEF RotationHolds
      <4>3. InFlight' = {}
        <5> SUFFICES ASSUME NEW m \in InFlight' PROVE FALSE
          OBVIOUS
        <5> QED BY <1>0, <1>14, <3>4, OneInFlight
      <4> QED BY <4>2, <4>3
    <3> QED BY <3>3, <3>4
  <2>3. CASE ~ \E i \in InFlight : i.sid = cookie
    BY <1>0, <1>14, <2>1, <2>3 DEF JarHolds
  <2> QED BY <2>2, <2>3
<1>18. NeverThrownOut'
  BY <1>0 DEF SessionsInv, NeverThrownOut
<1> QED BY <1>7, <1>9, <1>10, <1>12, <1>13, <1>15, <1>16, <1>17, <1>18 DEF SessionsInv

LEMMA DisconnectKeeps ==
  ASSUME HasLocks, SessionsInv, NEW t \in Tasks, Disconnect(t)
  PROVE  SessionsInv'
<1>0. /\ SessionsTypeOK /\ rows' = rows /\ fresh' = fresh /\ cookie' = cookie
      /\ token' = token /\ turn' = turn \ {t} /\ {t} \in SUBSET Tasks
      /\ token \in [Windows -> Token]
  BY ClientFacts DEF Disconnect, server, SessionsTypeOK
<1>1. PICK lost \in Lost({t}) : Orphan({t}, lost)
  BY DEF Disconnect
<1>2. faults' \in 0..MaxFaults
  BY <1>0, FaultsStep DEF Disconnect
<1>3. phase' \in [Windows -> {"closed", "loading", "ready", "out"}]
  BY <1>0 DEF Disconnect, SessionsTypeOK
<1> DEFINE r == [Idle EXCEPT !.verdict = "offline"]
<1>4. r \in TaskState /\ r.at = "idle" /\ r.verdict = "offline" /\ r.with = None
  BY DEF Idle, TaskState, Ops, Verdicts, Token
<1>5. task' = [task EXCEPT ![t] = r]
  BY DEF Disconnect
<1> HIDE DEF r
<1>6. /\ task' \in [Tasks -> TaskState]
      /\ \A u \in Tasks :
           IF u \in {t} THEN /\ task'[u].at = "idle" /\ task'[u].with = None
                             /\ task'[u].verdict \in {"none", "offline"}
                        ELSE task'[u] = task[u]
  BY <1>0, <1>4, <1>5 DEF SessionsTypeOK
<1> QED BY <1>0, <1>1, <1>2, <1>3, <1>6, OrphanKeeps DEF server

LEMMA CloseKeeps ==
  ASSUME HasLocks, SessionsInv, NEW w \in Windows, Close(w)
  PROVE  SessionsInv'
<1> DEFINE ts == {t \in Tasks : Of(t) = w}
<1>0. /\ SessionsTypeOK /\ rows' = rows /\ fresh' = fresh /\ cookie' = cookie
      /\ turn' = turn \ ts /\ ts \in SUBSET Tasks
      /\ token' = [token EXCEPT ![w] = None] /\ None \in Token
  BY ClientFacts DEF Close, server, Token
<1>1. PICK lost \in Lost(ts) : Orphan(ts, lost)
  BY DEF Close
<1>2. task' = [t \in Tasks |-> IF t \in ts THEN Idle ELSE task[t]]
  BY DEF Close
<1> HIDE DEF ts
<1>3. faults' \in 0..MaxFaults
  BY <1>0, FaultsStep DEF Close
<1>4. phase' \in [Windows -> {"closed", "loading", "ready", "out"}]
  BY <1>0 DEF Close, SessionsTypeOK
<1>5. /\ token' \in [Windows -> Token]
      /\ \A v \in Windows : token'[v] = token[v] \/ token'[v] = None
  BY <1>0 DEF SessionsTypeOK
<1>6. Idle \in TaskState /\ Idle.at = "idle" /\ Idle.with = None /\ Idle.verdict = "none"
  BY DEF Idle, TaskState, Ops, Verdicts, Token
<1>7. /\ task' \in [Tasks -> TaskState]
      /\ \A u \in Tasks :
           IF u \in ts THEN /\ task'[u].at = "idle" /\ task'[u].with = None
                            /\ task'[u].verdict \in {"none", "offline"}
                       ELSE task'[u] = task[u]
  BY <1>0, <1>2, <1>6 DEF SessionsTypeOK
<1> QED BY <1>0, <1>1, <1>3, <1>4, <1>5, <1>7, OrphanKeeps DEF server

-----------------------------------------------------------------------------
(* The theorems: of a browser that has locks. *)

LEMMA InitHolds == Init => SessionsInv
<1> SUFFICES ASSUME Init PROVE SessionsInv
  OBVIOUS
<1>1. SessionsTypeOK
  BY InitTypes
<1>2. RowsHold /\ TokensHold /\ JarHolds /\ NeverThrownOut
  BY DEF Init, NoRow, Idle, RowsHold, TokensHold, JarHolds, NeverThrownOut,
         Issued, Kept, Family
<1>3. TasksHold
  BY DEF Init, Idle, TasksHold
<1> QED BY <1>1, <1>2, <1>3 DEF Init, InFlight, SessionsInv

LEMMA NextKeeps ==
  ASSUME HasLocks, SessionsInv, [Next]_vars
  PROVE  SessionsInv'
<1>1. CASE \E t \in Tasks \cup {Nobody} : Handle(t)
  BY <1>1, HandleKeeps
<1>2. CASE ResetPassword \/ TokenExpires \/ SessionLapses \/ PurgeExpired
  BY <1>2, ResetPasswordKeeps, TokenExpiresKeeps, SessionLapsesKeeps, PurgeExpiredKeeps
<1>3. CASE \E t \in Tasks : Start(t) \/ Ask(t) \/ TakeTurn(t) \/ Receive(t) \/ Disconnect(t)
  BY <1>3, StartKeeps, AskKeeps, TakeTurnKeeps, ReceiveKeeps, DisconnectKeeps
<1>4. CASE \E w \in Windows : Close(w)
  BY <1>4, CloseKeeps
<1>5. CASE UNCHANGED vars
  <2>1. SessionsTypeOK' /\ RowsHold' /\ TokensHold'
    BY <1>5 DEF vars, SessionsInv, SessionsTypeOK, RowsHold, TokensHold, Kept, Current, Issued, Family
  <2>2. TasksHold'
    BY <1>5 DEF vars, SessionsInv, TasksHold
  <2>3. \A j \in jobs' : HandlerHolds(j)' /\ (j.kind = "login" => LoginHolds(j)')
    BY <1>5 DEF vars, SessionsInv, HandlerHolds, LoginHolds, Kept, Current, Issued, Family
  <2>4. \A j \in InFlight' : RotationHolds(j)'
    BY <1>5 DEF vars, SessionsInv, InFlight, RotationHolds, Kept, Current, Issued, Family
  <2>5. JarHolds' /\ NeverThrownOut'
    BY <1>5 DEF vars, SessionsInv, InFlight, JarHolds, NeverThrownOut, Kept, Current, Issued, Family
  <2> QED BY <2>1, <2>2, <2>3, <2>4, <2>5 DEF SessionsInv
<1> QED BY <1>1, <1>2, <1>3, <1>4, <1>5 DEF Next

(* The table, the jar, the windows and the handlers agree, at every step,  *)
(* however many windows take turns (locks.rs, client.rs, auth.rs).         *)
THEOREM SessionsAgree == ASSUME HasLocks PROVE Spec => []SessionsInv
<1>1. SessionsInv /\ [Next]_vars => SessionsInv'
  BY NextKeeps
<1> QED BY InitHolds, <1>1, PTL DEF Spec

(* Nobody is signed out, nor refused as revoked, for having several windows *)
(* open (locks.rs:90, "each window presents the cookie the last one left").  *)
THEOREM NobodyIsThrownOut == ASSUME HasLocks PROVE Spec => []SessionsHold
<1>1. SessionsInv => SessionsHold
  BY DEF SessionsInv, SessionsHold
<1> QED BY <1>1, SessionsAgree, PTL

(* Between two rotations the jar of the device holds the one token of its  *)
(* family that may still be presented (auth.rs: `refresh`; client.rs).     *)
THEOREM JarIsCurrent == ASSUME HasLocks PROVE Spec => []CookieIsCurrent
<1>1. SessionsInv => CookieIsCurrent
  <2> SUFFICES ASSUME SessionsInv, cookie # None, ~Refreshing,
                      rows[cookie].family \notin excused
               PROVE  /\ Exists(cookie) /\ Usable(cookie)
                      /\ \A s \in Sids : rows[s].family = rows[cookie].family /\ Usable(s) =>
                           s = cookie
    BY DEF CookieIsCurrent
  <2>1. Kept(cookie) /\ cookie \in Token /\ Issued(cookie)
    BY ClientFacts DEF Kept, Family
  <2>2. Current(cookie)
    BY <2>1, ClientFacts DEF Refreshing, InFlight, JarHolds
  <2>3. Exists(cookie) /\ rows[cookie].age = "young"
    BY <2>1, KeptIsYoung
  <2> QED BY <2>2, <2>3 DEF Current, Usable, Family
<1> QED BY <1>1, SessionsAgree, PTL

-----------------------------------------------------------------------------
(* The queue of mails: what a run has read is still true when it writes,  *)
(* while no other run has mails and none died.                             *)

Entry == [mail : Mails, had : Nat, outcome : {"none", "sent", "failed"}]

MailTyped ==
  /\ queued \subseteq Mails /\ sent \subseteq Mails
  /\ attempts \in [Mails -> Nat] /\ batch \in [Runs -> Seq(Entry)]
  /\ deliveries \in [Mails -> Nat] /\ tries \in [Mails -> Nat]
  /\ pardoned \in BOOLEAN

\* The mail whose outcome a run knows and has not written yet.
InHand(m, outcome) ==
  \E r \in Runs : batch[r] # <<>> /\ batch[r][1].mail = m /\ batch[r][1].outcome = outcome

\* What a run read is still true: nobody else writes what it has not come to yet.
AsRead(e) == e.mail \notin sent /\ e.had = attempts[e.mail] /\ e.had < MAX_MAIL_ATTEMPTS

\* One run at a time has mails, each once.
OneRun ==
  /\ \A q, r \in Runs : batch[q] # <<>> /\ batch[r] # <<>> => q = r
  /\ \A r \in Runs, i \in Nat : i \in DOMAIN batch[r] =>
       /\ AsRead(batch[r][i])
       /\ i # 1 => batch[r][i].outcome = "none"
       /\ \A j \in DOMAIN batch[r] : j # i => batch[r][j].mail # batch[r][i].mail

\* What arrived is marked, or will be next; and so with what was refused.
Counted(m) ==
  /\ deliveries[m] = 0 \/ (deliveries[m] = 1 /\ (m \in sent \/ InHand(m, "sent")))
  /\ attempts[m] <= MAX_MAIL_ATTEMPTS
  /\ tries[m] <= attempts[m] \/ (InHand(m, "failed") /\ tries[m] = attempts[m] + 1)

MailInv == MailTyped /\ (~pardoned => OneRun /\ \A m \in Mails : Counted(m))

LEMMA MailInit == ASSUME Q!MailAssumption PROVE Q!Init => MailInv
<1> SUFFICES ASSUME Q!Init PROVE MailInv
  OBVIOUS
<1>1. <<>> \in Seq(Entry)
  OBVIOUS
<1>2. MailTyped
  BY <1>1 DEF Q!Init, MailTyped
<1>3. OneRun
  BY DEF Q!Init, OneRun
<1>4. \A m \in Mails : Counted(m)
  BY DEF Q!Init, Q!MailAssumption, Counted
<1> QED BY <1>2, <1>3, <1>4 DEF MailInv

LEMMA Batches ==
  ASSUME MailTyped, NEW r \in Runs
  PROVE  /\ batch[r] \in Seq(Entry) /\ Len(batch[r]) \in Nat
         /\ DOMAIN batch[r] = 1..Len(batch[r])
         /\ \A i \in DOMAIN batch[r] : i \in Nat /\ batch[r][i] \in Entry
         /\ batch[r] # <<>> => /\ 1 \in DOMAIN batch[r] /\ Head(batch[r]) = batch[r][1]
                               /\ Head(batch[r]) \in Entry
BY DEF MailTyped

LEMMA MailStartKeeps ==
  ASSUME Q!MailAssumption, MailInv, NEW r \in Runs, Q!StartRun(r)
  PROVE  MailInv'
<1>0. PICK n \in 1..Limit : \E mails \in [1..n -> Q!Waiting] :
        /\ Q!Oldest(n, mails)
        /\ batch' = [batch EXCEPT ![r] = [i \in 1..n |->
             [mail |-> mails[i], had |-> attempts[mails[i]], outcome |-> "none"]]]
  BY DEF Q!StartRun
<1>1. PICK mails \in [1..n -> Q!Waiting] :
        /\ Q!Oldest(n, mails)
        /\ batch' = [batch EXCEPT ![r] = [i \in 1..n |->
             [mail |-> mails[i], had |-> attempts[mails[i]], outcome |-> "none"]]]
  BY <1>0
<1>2. /\ UNCHANGED <<queued, attempts, sent, deliveries, tries>> /\ batch[r] = <<>>
      /\ pardoned' = (pardoned \/ \E q \in Runs \ {r} : batch[q] # <<>>)
  BY DEF Q!StartRun
<1>3. n \in Nat
  BY DEF Q!MailAssumption
<1>4. \A i \in 1..n : /\ mails[i] \in Mails /\ mails[i] \notin sent
                      /\ attempts[mails[i]] \in Nat /\ attempts[mails[i]] < MAX_MAIL_ATTEMPTS
  BY DEF Q!Waiting, MailInv, MailTyped
<1>5. PICK b : b = [i \in 1..n |->
                     [mail |-> mails[i], had |-> attempts[mails[i]], outcome |-> "none"]]
  OBVIOUS
<1>6. /\ DOMAIN b = 1..n
      /\ \A i \in 1..n : /\ b[i] \in Entry /\ b[i].mail = mails[i]
                         /\ b[i].had = attempts[mails[i]] /\ b[i].outcome = "none"
  BY <1>4, <1>5 DEF Entry
<1>7. b \in Seq(Entry)
  BY <1>3, <1>5, <1>6
<1>8. batch' = [batch EXCEPT ![r] = b]
  BY <1>1, <1>5
<1>9. MailTyped'
  BY <1>2, <1>7, <1>8 DEF MailInv, MailTyped
<1>10. ASSUME ~pardoned' PROVE OneRun' /\ \A m \in Mails : Counted(m)'
  <2>1. /\ ~pardoned /\ \A q \in Runs : batch[q] = <<>>
        /\ batch'[r] = b /\ \A q \in Runs \ {r} : batch'[q] = <<>>
    BY <1>2, <1>8, <1>10 DEF MailInv, MailTyped
  <2>2. \A i, j \in 1..n : i # j => mails[i] # mails[j]
    <3>1. \A i, j \in 1..n : i < j => mails[i] < mails[j]
      BY <1>1 DEF Q!Oldest
    <3>2. \A i \in 1..n : mails[i] \in Nat
      BY <1>4 DEF Q!MailAssumption
    <3> QED BY <3>1, <3>2
  <2>3. \A i \in 1..n : AsRead(b[i])'
    BY <1>2, <1>4, <1>6 DEF AsRead
  <2>4. OneRun'
    BY <1>6, <2>1, <2>2, <2>3 DEF OneRun
  <2>5. \A m \in Mails : Counted(m)'
    <3>1. \A m, o : ~InHand(m, o)
      BY <2>1 DEF InHand
    <3>2. \A m \in Mails : Counted(m)
      BY <2>1 DEF MailInv
    <3> QED BY <1>2, <3>1, <3>2 DEF Counted
  <2> QED BY <2>4, <2>5
<1> QED BY <1>9, <1>10 DEF MailInv

\* A batch that is over, or died.
LEMMA DropKeeps ==
  ASSUME MailInv, NEW r \in Runs, batch[r] # <<>>, Head(batch[r]).outcome = "none",
         batch' = [batch EXCEPT ![r] = <<>>],
         UNCHANGED <<queued, attempts, sent, deliveries, tries, pardoned>>
  PROVE  MailInv'
<1>1. MailTyped'
  BY DEF MailInv, MailTyped
<1>2. batch'[r] = <<>> /\ \A q \in Runs \ {r} : batch'[q] = batch[q]
  BY DEF MailInv, MailTyped
<1>3. ASSUME ~pardoned PROVE OneRun' /\ \A m \in Mails : Counted(m)'
  <2>1. OneRun'
    BY <1>2, <1>3 DEF MailInv, OneRun, AsRead
  <2>2. ASSUME NEW m, NEW o \in {"sent", "failed"}, InHand(m, o) PROVE InHand(m, o)'
    <3>1. PICK q \in Runs : batch[q] # <<>> /\ batch[q][1].mail = m /\ batch[q][1].outcome = o
      BY <2>2 DEF InHand
    <3>2. q # r
      BY <2>2, <3>1, Batches DEF MailInv
    <3> QED BY <1>2, <3>1, <3>2 DEF InHand
  <2>3. \A m \in Mails : Counted(m)
    BY <1>3 DEF MailInv
  <2> QED BY <2>1, <2>2, <2>3 DEF Counted
<1> QED BY <1>1, <1>3 DEF MailInv

\* The first mail of a run comes to its outcome.
LEMMA OutcomeKeeps ==
  ASSUME Q!MailAssumption, MailInv, NEW r \in Runs, NEW o \in {"sent", "failed"}, batch[r] # <<>>,
         Head(batch[r]).outcome = "none",
         batch' = [batch EXCEPT ![r][1].outcome = o],
         deliveries' = IF o = "sent" THEN [deliveries EXCEPT ![Head(batch[r]).mail] = @ + 1]
                                     ELSE deliveries,
         tries' = IF o = "failed" THEN [tries EXCEPT ![Head(batch[r]).mail] = @ + 1] ELSE tries,
         UNCHANGED <<queued, attempts, sent, pardoned>>
  PROVE  MailInv'
<1>1. PICK e : e = batch[r][1]
  OBVIOUS
<1>2. /\ e \in Entry /\ e.mail \in Mails /\ Head(batch[r]) = e /\ 1 \in DOMAIN batch[r]
  BY <1>1, Batches DEF MailInv, Entry
<1>3. /\ DOMAIN batch'[r] = DOMAIN batch[r]
      /\ batch'[r] \in Seq(Entry) /\ batch'[r] # <<>>
      /\ batch'[r][1] = [e EXCEPT !.outcome = o]
      /\ \A i \in DOMAIN batch[r] : i # 1 => batch'[r][i] = batch[r][i]
      /\ \A q \in Runs \ {r} : batch'[q] = batch[q]
      /\ batch' \in [Runs -> Seq(Entry)]
  <2>1. [e EXCEPT !.outcome = o] \in Entry
    BY <1>2 DEF Entry
  <2>2. PICK s : s = [batch[r] EXCEPT ![1] = [e EXCEPT !.outcome = o]]
    OBVIOUS
  <2>3. batch' = [batch EXCEPT ![r] = s]
    BY <1>1, <2>2
  <2>4. s \in Seq(Entry) /\ DOMAIN s = DOMAIN batch[r] /\ Len(s) = Len(batch[r])
    BY <1>2, <2>1, <2>2, Batches DEF MailInv
  <2>5. s[1] = [e EXCEPT !.outcome = o] /\ \A i \in DOMAIN batch[r] : i # 1 => s[i] = batch[r][i]
    BY <1>2, <2>2
  <2>6. s # <<>>
    BY <1>2, <2>4
  <2> QED BY <2>3, <2>4, <2>5, <2>6 DEF MailInv, MailTyped
<1>4. /\ batch'[r][1].mail = e.mail /\ batch'[r][1].had = e.had /\ batch'[r][1].outcome = o
  BY <1>2, <1>3 DEF Entry
<1>5. MailTyped'
  BY <1>2, <1>3 DEF MailInv, MailTyped
<1>6. ASSUME ~pardoned PROVE OneRun' /\ \A m \in Mails : Counted(m)'
  <2>0. OneRun /\ \A m \in Mails : Counted(m)
    BY <1>6 DEF MailInv
  <2>1. \A q \in Runs \ {r} : batch[q] = <<>>
    BY <2>0 DEF OneRun
  <2>2. AsRead(e)
    BY <1>1, <1>2, <2>0 DEF OneRun
  <2>3. \A i \in DOMAIN batch[r] : batch'[r][i].mail = batch[r][i].mail
                                   /\ batch'[r][i].had = batch[r][i].had
    BY <1>1, <1>3, <1>4
  <2>4. OneRun'
    <3>1. \A q, p \in Runs : batch'[q] # <<>> /\ batch'[p] # <<>> => q = p
      BY <1>3, <2>1
    <3>2. ASSUME NEW q \in Runs, NEW i \in Nat, i \in DOMAIN batch'[q]
          PROVE  /\ AsRead(batch[q][i])'
                 /\ i # 1 => batch'[q][i].outcome = "none"
                 /\ \A j \in DOMAIN batch'[q] : j # i => batch'[q][j].mail # batch'[q][i].mail
      <4>1. q = r
        BY <3>2, <1>3, <2>1
      <4>2. i \in DOMAIN batch[r]
        BY <4>1, <3>2, <1>3
      <4>3. AsRead(batch[r][i])
        BY <2>0, <4>2 DEF OneRun
      <4>4. AsRead(batch[r][i])'
        BY <2>3, <4>2, <4>3 DEF AsRead
      <4>5. i # 1 => batch'[r][i].outcome = "none"
        BY <1>3, <2>0, <4>2 DEF OneRun
      <4>6. \A j \in DOMAIN batch'[r] : j # i => batch'[r][j].mail # batch'[r][i].mail
        BY <1>3, <2>0, <2>3, <4>2 DEF OneRun
      <4> QED BY <4>1, <4>4, <4>5, <4>6
    <3> QED BY <3>1, <3>2 DEF OneRun
  <2>5. ASSUME NEW m \in Mails PROVE Counted(m)'
    <3>0. /\ Counted(m) /\ deliveries[m] \in Nat /\ attempts[m] \in Nat /\ tries[m] \in Nat
          /\ attempts' = attempts /\ sent' = sent /\ MAX_MAIL_ATTEMPTS \in Nat
      BY <2>0 DEF MailInv, MailTyped, Q!MailAssumption
    <3>1. \A x, p : ~InHand(x, p) \/ p = "none"
      BY <1>1, <1>2, <2>1 DEF InHand
    <3>2. ~InHand(m, "sent") /\ ~InHand(m, "failed")
      BY <3>1
    <3>3. CASE m = e.mail
      <4>1. m \notin sent /\ InHand(m, o)'
        BY <1>3, <1>4, <2>2, <3>3 DEF InHand, AsRead
      <4>2. deliveries[m] = 0 /\ tries[m] <= attempts[m] /\ attempts[m] < MAX_MAIL_ATTEMPTS
            /\ attempts[m] <= MAX_MAIL_ATTEMPTS
        BY <2>2, <3>0, <3>2, <3>3, <4>1 DEF Counted, AsRead
      <4>3. CASE o = "sent"
        <5>1. deliveries'[m] = 1 /\ tries' = tries
          BY <1>2, <3>3, <4>2, <4>3 DEF MailInv, MailTyped
        <5> QED BY <3>0, <4>1, <4>2, <4>3, <5>1 DEF Counted
      <4>4. CASE o = "failed"
        <5>1. deliveries' = deliveries /\ tries'[m] = tries[m] + 1
          BY <1>2, <3>3, <4>2, <4>4 DEF MailInv, MailTyped
        <5>2. tries'[m] <= attempts[m] \/ tries'[m] = attempts[m] + 1
          BY <3>0, <4>2, <5>1
        <5> QED BY <3>0, <4>1, <4>2, <4>4, <5>1, <5>2 DEF Counted
      <4> QED BY <4>3, <4>4
    <3>4. CASE m # e.mail
      <4>1. deliveries'[m] = deliveries[m] /\ tries'[m] = tries[m]
        BY <1>2, <3>4 DEF MailInv, MailTyped
      <4> QED BY <3>0, <3>2, <4>1 DEF Counted
    <3> QED BY <3>3, <3>4
  <2> QED BY <2>4, <2>5
<1> QED BY <1>5, <1>6 DEF MailInv

LEMMA SendKeeps ==
  ASSUME Q!MailAssumption, MailInv, NEW r \in Runs, Q!SendNext(r)
  PROVE  MailInv'
<1>1. /\ batch[r] # <<>> /\ Head(batch[r]).outcome = "none"
      /\ UNCHANGED <<queued, attempts, sent, pardoned>>
  BY DEF Q!SendNext
<1>2. CASE batch' = [batch EXCEPT ![r] = <<>>] /\ UNCHANGED <<deliveries, tries>>
  BY <1>1, <1>2, DropKeeps
<1>3. CASE /\ batch' = [batch EXCEPT ![r][1].outcome = "sent"] /\ UNCHANGED tries
           /\ deliveries' = [deliveries EXCEPT ![Head(batch[r]).mail] = @ + 1]
  BY <1>1, <1>3, OutcomeKeeps
<1>4. CASE /\ batch' = [batch EXCEPT ![r][1].outcome = "failed"] /\ UNCHANGED deliveries
           /\ tries' = [tries EXCEPT ![Head(batch[r]).mail] = @ + 1]
  BY <1>1, <1>4, OutcomeKeeps
<1> QED BY <1>2, <1>3, <1>4 DEF Q!SendNext

LEMMA MarkKeeps ==
  ASSUME Q!MailAssumption, MailInv, NEW r \in Runs, Q!Mark(r)
  PROVE  MailInv'
<1>1. PICK e : e = batch[r][1]
  OBVIOUS
<1>2. /\ e \in Entry /\ e.mail \in Mails /\ Head(batch[r]) = e /\ 1 \in DOMAIN batch[r]
      /\ e.had \in Nat /\ batch[r] # <<>> /\ e.outcome \in {"sent", "failed"}
  BY <1>1, Batches DEF MailInv, Entry, Q!Mark
<1>3. /\ UNCHANGED <<queued, deliveries, tries, pardoned>>
      /\ batch' = [batch EXCEPT ![r] = Tail(batch[r])]
      /\ e.outcome = "sent" => sent' = sent \cup {e.mail} /\ attempts' = attempts
      /\ e.outcome = "failed" => attempts' = [attempts EXCEPT ![e.mail] = e.had + 1] /\ sent' = sent
  BY <1>2 DEF Q!Mark, Q!history
<1>4. PICK t : t = Tail(batch[r])
  OBVIOUS
<1>5. /\ batch'[r] = t /\ \A q \in Runs \ {r} : batch'[q] = batch[q]
      /\ t \in Seq(Entry) /\ batch' \in [Runs -> Seq(Entry)]
      /\ \A i \in DOMAIN t : /\ i \in Nat /\ i + 1 \in DOMAIN batch[r] /\ i + 1 # 1
                            /\ t[i] = batch[r][i + 1]
  <2>1. t \in Seq(Entry) /\ Len(t) = Len(batch[r]) - 1
    BY <1>2, <1>4, Batches DEF MailInv
  <2>2. \A i \in DOMAIN t : /\ i \in Nat /\ i + 1 \in DOMAIN batch[r] /\ i + 1 # 1
                            /\ t[i] = batch[r][i + 1]
    BY <1>2, <1>4, <2>1, Batches DEF MailInv
  <2>3. batch' = [batch EXCEPT ![r] = t]
    BY <1>3, <1>4
  <2>4. /\ batch'[r] = t /\ \A q \in Runs \ {r} : batch'[q] = batch[q]
        /\ batch' \in [Runs -> Seq(Entry)]
    BY <2>1, <2>3 DEF MailInv, MailTyped
  <2> QED BY <2>1, <2>2, <2>4
<1>6. MailTyped'
  <2>1. sent' \subseteq Mails
    BY <1>2, <1>3 DEF MailInv, MailTyped
  <2>2. attempts' \in [Mails -> Nat]
    <3>1. e.had + 1 \in Nat
      BY <1>2
    <3> QED BY <1>2, <1>3, <3>1 DEF MailInv, MailTyped
  <2>3. batch' \in [Runs -> Seq(Entry)]
    BY <1>5
  <2>4. UNCHANGED <<queued, deliveries, tries, pardoned>>
    BY <1>3
  <2> QED BY <2>1, <2>2, <2>3, <2>4 DEF MailInv, MailTyped
<1>7. ASSUME ~pardoned PROVE OneRun' /\ \A m \in Mails : Counted(m)'
  <2>0. OneRun /\ \A m \in Mails : Counted(m)
    BY <1>7 DEF MailInv
  <2>1. \A q \in Runs \ {r} : batch[q] = <<>>
    BY <1>2, <2>0 DEF OneRun
  <2>2. AsRead(e)
    BY <1>1, <1>2, <2>0 DEF OneRun
  <2>3. \A i \in DOMAIN batch[r] : i # 1 => batch[r][i].mail # e.mail /\ AsRead(batch[r][i])
                                             /\ batch[r][i].outcome = "none"
                                             /\ batch[r][i].mail \in Mails
    <3>1. \A i \in DOMAIN batch[r] : i \in Nat /\ batch[r][i] \in Entry
      BY Batches DEF MailInv
    <3> QED BY <1>1, <1>2, <2>0, <3>1 DEF OneRun, Entry
  <2>4. \A i \in DOMAIN t : t[i].mail # e.mail /\ AsRead(t[i]) /\ t[i].outcome = "none"
                            /\ t[i].mail \in Mails
    BY <1>5, <2>3
  <2>5. ASSUME NEW i \in DOMAIN t PROVE AsRead(t[i])'
    <3>1. attempts'[t[i].mail] = attempts[t[i].mail] /\ t[i].mail \notin sent'
      BY <1>2, <1>3, <2>4 DEF AsRead, MailInv, MailTyped
    <3> QED BY <2>4, <3>1 DEF AsRead
  <2>6. ASSUME NEW i \in DOMAIN t, NEW j \in DOMAIN t, i # j PROVE t[j].mail # t[i].mail
    <3>1. i + 1 # j + 1 /\ i + 1 \in Nat /\ j + 1 \in DOMAIN batch[r] /\ i + 1 \in DOMAIN batch[r]
      BY <1>5, <2>6
    <3>2. batch[r][j + 1].mail # batch[r][i + 1].mail
      BY <2>0, <3>1 DEF OneRun
    <3> QED BY <1>5, <3>2
  <2>7. OneRun'
    <3>1. \A q, p \in Runs : batch'[q] # <<>> /\ batch'[p] # <<>> => q = p
      BY <1>5, <2>1
    <3>2. ASSUME NEW q \in Runs, NEW i \in Nat, i \in DOMAIN batch'[q]
          PROVE  /\ AsRead(batch[q][i])'
                 /\ i # 1 => batch'[q][i].outcome = "none"
                 /\ \A j \in DOMAIN batch'[q] : j # i => batch'[q][j].mail # batch'[q][i].mail
      <4>1. q = r
        BY <3>2, <1>5, <2>1
      <4>2. i \in DOMAIN t /\ AsRead(t[i])'
        BY <1>5, <2>5, <3>2, <4>1
      <4>3. AsRead(batch[q][i])'
        BY <1>5, <4>1, <4>2 DEF AsRead
      <4> QED BY <1>5, <2>4, <2>6, <4>1, <4>2, <4>3
    <3> QED BY <3>1, <3>2 DEF OneRun
  <2>8. ASSUME NEW m \in Mails PROVE Counted(m)'
    <3>0. /\ Counted(m) /\ deliveries[m] \in Nat /\ attempts[m] \in Nat /\ tries[m] \in Nat
          /\ deliveries' = deliveries /\ tries' = tries /\ MAX_MAIL_ATTEMPTS \in Nat
      BY <2>0, <1>3 DEF MailInv, MailTyped, Q!MailAssumption
    <3>1. \A p : InHand(m, p) => m = e.mail /\ p = e.outcome
      BY <1>1, <1>2, <2>1 DEF InHand
    <3>2. CASE m = e.mail
      <4>1. m \notin sent /\ e.had = attempts[m] /\ attempts[m] < MAX_MAIL_ATTEMPTS
        BY <2>2, <3>2 DEF AsRead
      <4>2. CASE e.outcome = "sent"
        <5>1. m \in sent' /\ attempts'[m] = attempts[m] /\ ~InHand(m, "failed")
          BY <1>3, <3>1, <3>2, <4>2
        <5> QED BY <3>0, <5>1 DEF Counted
      <4>3. CASE e.outcome = "failed"
        <5>1. attempts'[m] = attempts[m] + 1 /\ ~InHand(m, "sent")
          BY <1>2, <1>3, <3>1, <3>2, <4>1, <4>3 DEF MailInv, MailTyped
        <5>2. attempts'[m] <= MAX_MAIL_ATTEMPTS /\ attempts[m] <= attempts'[m]
          BY <3>0, <4>1, <5>1
        <5>3. tries[m] <= attempts'[m]
          BY <3>0, <5>1 DEF Counted
        <5>4. deliveries[m] = 0
          BY <3>0, <4>1, <5>1 DEF Counted
        <5> QED BY <3>0, <5>2, <5>3, <5>4 DEF Counted
      <4> QED BY <1>2, <4>2, <4>3
    <3>3. CASE m # e.mail
      <4>1. ~InHand(m, "sent") /\ ~InHand(m, "failed")
        BY <3>1, <3>3
      <4>2. attempts'[m] = attempts[m] /\ (m \in sent => m \in sent')
        BY <1>2, <1>3, <3>3 DEF MailInv, MailTyped
      <4> QED BY <3>0, <4>1, <4>2 DEF Counted
    <3> QED BY <3>2, <3>3
  <2> QED BY <2>7, <2>8
<1> QED BY <1>3, <1>6, <1>7 DEF MailInv

LEMMA MailNext ==
  ASSUME Q!MailAssumption, MailInv, [Q!Next]_Q!vars
  PROVE  MailInv'
<1>1. CASE Q!Enqueue
  <2>1. MailTyped' /\ UNCHANGED <<attempts, sent, batch, deliveries, tries, pardoned>>
    BY <1>1 DEF Q!Enqueue, Q!history, MailInv, MailTyped
  <2>2. OneRun => OneRun'
    BY <2>1 DEF OneRun, AsRead
  <2>3. ASSUME NEW m \in Mails, Counted(m) PROVE Counted(m)'
    BY <2>1, <2>3 DEF Counted, InHand
  <2> QED BY <2>1, <2>2, <2>3 DEF MailInv
<1>2. ASSUME NEW r \in Runs, Q!RunDies(r) PROVE MailInv'
  <2>1. MailTyped' /\ pardoned'
    BY <1>2 DEF Q!RunDies, MailInv, MailTyped
  <2> QED BY <2>1 DEF MailInv
<1>3. CASE UNCHANGED Q!vars
  <2>1. UNCHANGED <<queued, attempts, sent, batch, deliveries, tries, pardoned>>
    BY <1>3 DEF Q!vars
  <2>2. MailTyped => MailTyped'
    BY <2>1 DEF MailTyped
  <2>3. OneRun => OneRun'
    BY <2>1 DEF OneRun, AsRead
  <2>4. ASSUME NEW m \in Mails, Counted(m) PROVE Counted(m)'
    BY <2>1, <2>4 DEF Counted, InHand
  <2> QED BY <2>1, <2>2, <2>3, <2>4 DEF MailInv
<1> QED BY <1>1, <1>2, <1>3, MailStartKeeps, SendKeeps, MarkKeeps DEF Q!Next, Q!Work

(***************************************************************************)
(* A mail arrives once, and is given up after as many refusals as it is    *)
(* allowed (invites.rs: "Five attempts, then it stops trying"), however    *)
(* many wait and however many a run takes, unless a run died or two of     *)
(* them overlapped.                                                        *)
(***************************************************************************)
THEOREM EachMailOnce ==
  ASSUME Q!MailAssumption
  PROVE  Q!Spec => []SentOnce
<1>1. Q!Init => MailInv
  BY MailInit
<1>2. MailInv /\ [Q!Next]_Q!vars => MailInv'
  BY MailNext
<1>3. MailInv => SentOnce
  <2> SUFFICES ASSUME MailInv, ~pardoned, NEW m \in Mails
               PROVE  deliveries[m] <= 1 /\ tries[m] <= MAX_MAIL_ATTEMPTS
    BY DEF SentOnce, Q!SentOnce
  <2>1. Counted(m) /\ deliveries[m] \in Nat /\ tries[m] \in Nat /\ attempts[m] \in Nat
        /\ MAX_MAIL_ATTEMPTS \in Nat
    BY DEF MailInv, MailTyped, Q!MailAssumption
  <2>2. CASE InHand(m, "failed")
    <3>1. PICK r \in Runs : batch[r] # <<>> /\ batch[r][1].mail = m
      BY <2>2 DEF InHand
    <3>2. 1 \in DOMAIN batch[r]
      BY <3>1, Batches DEF MailInv
    <3>3. AsRead(batch[r][1])
      BY <3>2 DEF MailInv, OneRun
    <3>4. attempts[m] < MAX_MAIL_ATTEMPTS
      BY <3>1, <3>3 DEF AsRead
    <3> QED BY <2>1, <3>4 DEF Counted
  <2>3. CASE ~InHand(m, "failed")
    BY <2>1, <2>3 DEF Counted
  <2> QED BY <2>2, <2>3
<1> QED BY <1>1, <1>2, <1>3, PTL DEF Q!Spec
=============================================================================
