---------------------------- MODULE AccountsProofs ----------------------------
(***************************************************************************)
(* Theorems about Members, SecondFactor and Passwords, for any people and  *)
(* addresses and any number of requests at a time: a workspace keeps an    *)
(* owner, an owner a second factor, and who leaves stays away; a code works*)
(* once, and guessing at one ends; an account has one personal workspace,  *)
(* and a reset signs everybody out.                                        *)
(*                                                                         *)
(* None is inductive: what a request has found is true when it looked, and *)
(* is used later.  The invariants say how much of it is still true when    *)
(* the request writes, and what the history variables hold of the rest.    *)
(***************************************************************************)
EXTENDS MCAccounts, Sequences, TLAPS, FiniteSetTheorems

-----------------------------------------------------------------------------
(* The members of a workspace *)

Steps == {"idle", "create", "member", "factor", "owns", "count", "write", "forget", "clear",
          "insert", "mail", "revoke", "role", "add", "accept", "stage", "confirm", "secret",
          "drop", "push"}
Operations == {"none", "create", "update", "remove", "invite", "revoke", "accept", "enrol",
               "confirm", "disable", "push"}
Request == [op : Operations, at : Steps, by : People, on : People, role : Roles, n : Nat]
Invite  == [n : Ids, email : People, role : Lesser, used : BOOLEAN, expired : BOOLEAN]

Inviting(r) == r.op \in {"accept", "invite"}

Wellformed ==
  /\ req \in [Workers -> Request]
  /\ \A w \in Workers : Inviting(req[w]) => req[w].role \in Lesser

\* What the proofs need to know of the values.
Typed ==
  /\ created \in BOOLEAN /\ crossed \in BOOLEAN /\ exempt \subseteq People
  /\ role \in [People -> Roles \cup {"none"}]
  /\ factor \in [People -> {"none", "staged", "confirmed"}]
  /\ invites \subseteq Invite
  /\ Wellformed

LEMMA RolesAreRoles == "owner" \in Roles /\ "owner" \notin Lesser /\ Lesser \subseteq Roles
                         /\ "none" \notin Roles /\ Founder \in People /\ IsFiniteSet(People)
  BY MembersAssumption DEF Roles

LEMMA FreeIsARequest == Free \in Request /\ Free.op = "none" /\ Free.at = "idle"
  BY RolesAreRoles DEF Free, Request, Operations, Steps

LEMMA TypedInit == Init => Typed
  BY FreeIsARequest, RolesAreRoles DEF Init, Typed, Wellformed, Inviting

\* A request that moves on, and one that is over, are requests.
LEMMA Moves ==
  ASSUME Typed, NEW w \in Workers, NEW at \in Steps,
         Go(w, at) \/ Done(w)
  PROVE  Wellformed'
  BY FreeIsARequest DEF Typed, Wellformed, Go, Done, Request, Operations, Steps, Inviting

\* A request that begins is one.
LEMMA Begins ==
  ASSUME Typed, NEW w \in Workers, NEW r \in Request, req' = [req EXCEPT ![w] = r],
         Inviting(r) => r.role \in Lesser
  PROVE  Wellformed'
  BY DEF Typed, Wellformed, Request, Inviting

LEMMA BeginsFor ==
  ASSUME Typed, NEW w \in Workers, NEW op \in Operations \ {"accept", "invite"}, NEW at \in Steps,
         NEW p \in People, Begin(w, op, at, p)
  PROVE  Wellformed'
<1>1. [Free EXCEPT !.op = op, !.at = at, !.by = p] \in Request
  BY FreeIsARequest DEF Request
<1>2. [Free EXCEPT !.op = op, !.at = at, !.by = p].op = op
  BY FreeIsARequest DEF Request
<1>3. QED
  BY <1>1, <1>2, Begins DEF Begin, Inviting

LEMMA BeginsSo ==
  ASSUME Typed, NEW w \in Workers, NEW op, NEW at, NEW p, Begin(w, op, at, p)
  PROVE  /\ req'[w].at = at /\ req'[w].op = op /\ req'[w].by = p
         /\ \A v \in Workers \ {w} : req'[v] = req[v]
<1>1. /\ [Free EXCEPT !.op = op, !.at = at, !.by = p].at = at
      /\ [Free EXCEPT !.op = op, !.at = at, !.by = p].op = op
      /\ [Free EXCEPT !.op = op, !.at = at, !.by = p].by = p
  BY FreeIsARequest DEF Request
<1>2. QED
  BY <1>1 DEF Begin, Typed, Wellformed

LEMMA GateAsks ==
  ASSUME Typed, NEW w \in Workers, Gate(w)
  PROVE  \E a \in Request :
           /\ req' = [req EXCEPT ![w] = a]
           /\ a.at \in {"member", "clear", "revoke", "push"}
           /\ a.op \in {"update", "remove", "invite", "revoke", "push"}
           /\ a.op = "invite" => a.role \in Lesser
<1>1. ASSUME NEW q \in People, NEW r \in Roles,
             req' = [req EXCEPT ![w] = [Free EXCEPT !.op = "update", !.at = "member",
                                                   !.on = q, !.role = r]]
      PROVE  \E a \in Request : req' = [req EXCEPT ![w] = a] /\ a.at = "member" /\ a.op = "update"
  <2> DEFINE a == [Free EXCEPT !.op = "update", !.at = "member", !.on = q, !.role = r]
  <2>1. a \in Request /\ a.at = "member" /\ a.op = "update"
    BY FreeIsARequest DEF Request, Operations, Steps
  <2>2. req' = [req EXCEPT ![w] = a]
    BY <1>1
  <2> QED BY <2>1, <2>2
<1>2. ASSUME NEW q \in People,
             req' = [req EXCEPT ![w] = [Free EXCEPT !.op = "remove", !.at = "member", !.on = q]]
      PROVE  \E a \in Request : req' = [req EXCEPT ![w] = a] /\ a.at = "member" /\ a.op = "remove"
  <2> DEFINE a == [Free EXCEPT !.op = "remove", !.at = "member", !.on = q]
  <2>1. a \in Request /\ a.at = "member" /\ a.op = "remove"
    BY FreeIsARequest DEF Request, Operations, Steps
  <2>2. req' = [req EXCEPT ![w] = a]
    BY <1>2
  <2> QED BY <2>1, <2>2
<1>3. ASSUME NEW q \in People, NEW r \in Lesser,
             req' = [req EXCEPT ![w] = [Free EXCEPT !.op = "invite", !.at = "clear",
                                                   !.on = q, !.role = r]]
      PROVE  \E a \in Request : /\ req' = [req EXCEPT ![w] = a]
                                 /\ a.at = "clear" /\ a.op = "invite" /\ a.role \in Lesser
  <2> DEFINE a == [Free EXCEPT !.op = "invite", !.at = "clear", !.on = q, !.role = r]
  <2>1. a \in Request /\ a.at = "clear" /\ a.op = "invite" /\ a.role \in Lesser
    BY FreeIsARequest, RolesAreRoles DEF Request, Operations, Steps
  <2>2. req' = [req EXCEPT ![w] = a]
    BY <1>3
  <2> QED BY <2>1, <2>2
<1>4. ASSUME NEW n \in Made,
             req' = [req EXCEPT ![w] = [Free EXCEPT !.op = "revoke", !.at = "revoke", !.n = n]]
      PROVE  \E a \in Request : req' = [req EXCEPT ![w] = a] /\ a.at = "revoke" /\ a.op = "revoke"
  <2> DEFINE a == [Free EXCEPT !.op = "revoke", !.at = "revoke", !.n = n]
  <2>1. n \in Nat
    BY MembersAssumption DEF Made, Ids
  <2>2. a \in Request /\ a.at = "revoke" /\ a.op = "revoke"
    BY <2>1, FreeIsARequest DEF Request, Operations, Steps
  <2>3. req' = [req EXCEPT ![w] = a]
    BY <1>4
  <2> QED BY <2>2, <2>3
<1>5. ASSUME NEW p \in Keepers, Begin(w, "push", "push", p)
      PROVE  \E a \in Request : req' = [req EXCEPT ![w] = a] /\ a.at = "push" /\ a.op = "push"
  <2> DEFINE a == [Free EXCEPT !.op = "push", !.at = "push", !.by = p]
  <2>1. a \in Request /\ a.at = "push" /\ a.op = "push"
    BY MembersAssumption, FreeIsARequest DEF Request, Operations, Steps
  <2>2. req' = [req EXCEPT ![w] = a]
    BY <1>5 DEF Begin
  <2> QED BY <2>1, <2>2
<1> HIDE DEF Request
<1>6. CASE \/ \E q \in People, r \in Roles :
                req' = [req EXCEPT ![w] = [Free EXCEPT !.op = "update", !.at = "member",
                                                      !.on = q, !.role = r]]
           \/ \E q \in People :
                req' = [req EXCEPT ![w] = [Free EXCEPT !.op = "remove", !.at = "member", !.on = q]]
  BY <1>1, <1>2, <1>6
<1>7. CASE \E q \in People, r \in Lesser :
             req' = [req EXCEPT ![w] = [Free EXCEPT !.op = "invite", !.at = "clear",
                                                   !.on = q, !.role = r]]
  BY <1>3, <1>7
<1>8. CASE \E n \in Made :
             req' = [req EXCEPT ![w] = [Free EXCEPT !.op = "revoke", !.at = "revoke", !.n = n]]
  BY <1>4, <1>8
<1>9. CASE \E p \in Keepers : Begin(w, "push", "push", p)
  BY <1>5, <1>9
<1>10. QED
  BY <1>6, <1>7, <1>8, <1>9 DEF Gate

LEMMA InviteFound ==
  ASSUME Typed, NEW w \in Workers, FindInvite(w)
  PROVE  \E a \in Request :
           /\ req' = [req EXCEPT ![w] = a]
           /\ a.at = "role" /\ a.op = "accept" /\ a.role \in Lesser
<1>1. PICK i \in invites :
        req' = [req EXCEPT ![w] = [Free EXCEPT !.op = "accept", !.at = "role", !.by = i.email,
                                               !.role = i.role, !.n = i.n]]
  BY DEF FindInvite
<1>2. /\ i.email \in People /\ i.role \in Lesser /\ i.role \in Roles /\ i.n \in Nat
  BY <1>1, RolesAreRoles DEF Typed, Invite, Ids
<1> DEFINE a == [Free EXCEPT !.op = "accept", !.at = "role", !.by = i.email,
                             !.role = i.role, !.n = i.n]
<1>3. a \in Request /\ a.at = "role" /\ a.op = "accept" /\ a.role \in Lesser
  BY <1>2, FreeIsARequest DEF Request, Operations, Steps
<1>4. req' = [req EXCEPT ![w] = a]
  BY <1>1
<1>5. QED
  BY <1>3, <1>4

LEMMA InviteFoundSo ==
  ASSUME Typed, NEW w \in Workers, FindInvite(w)
  PROVE  \E i \in invites :
           /\ ~i.used
           /\ req'[w].op = "accept" /\ req'[w].at = "role" /\ req'[w].n = i.n
           /\ \A v \in Workers \ {w} : req'[v] = req[v]
           /\ rushed' = IF \E r \in Others(w) : r.op = "accept" /\ r.n = i.n
                        THEN rushed \cup {i.n} ELSE rushed
<1>1. PICK i \in invites :
        /\ ~i.used
        /\ req' = [req EXCEPT ![w] = [Free EXCEPT !.op = "accept", !.at = "role", !.by = i.email,
                                                  !.role = i.role, !.n = i.n]]
        /\ rushed' = IF \E r \in Others(w) : r.op = "accept" /\ r.n = i.n
                     THEN rushed \cup {i.n} ELSE rushed
  BY DEF FindInvite
<1> DEFINE a == [Free EXCEPT !.op = "accept", !.at = "role", !.by = i.email,
                             !.role = i.role, !.n = i.n]
<1>2. a.at = "role" /\ a.op = "accept" /\ a.n = i.n
  BY FreeIsARequest DEF Request
<1>3. req' = [req EXCEPT ![w] = a]
  BY <1>1
<1> HIDE DEF a
<1>4. QED
  BY <1>1, <1>2, <1>3 DEF Typed, Wellformed

LEMMA TypedStep ==
  ASSUME Typed, [Next]_vars
  PROVE  Typed'
<1>1. CASE UNCHANGED vars
  BY <1>1 DEF Typed, Wellformed, vars
<1>2. CASE Expire
  BY <1>2 DEF Expire, Typed, Wellformed, history, Invite
<1>3. ASSUME NEW w \in Workers, Step(w)
      PROVE  Typed'
  <2>1. CASE Gate(w)
    <3>1. PICK a \in Request :
            req' = [req EXCEPT ![w] = a] /\ (Inviting(a) => a.role \in Lesser)
      BY <2>1, GateAsks DEF Inviting
    <3>2. Wellformed'
      BY <3>1, Begins
    <3>3. QED
      BY <2>1, <3>2 DEF Gate, Typed, Wellformed, tables, history
  <2>2. CASE Claim(w)
    BY <2>2, RolesAreRoles, BeginsFor DEF Claim, Typed, Wellformed, history, Operations, Steps
  <2>3. CASE CreateWorkspace(w)
    BY <2>3, RolesAreRoles, Moves DEF Inviting, CreateWorkspace, Typed, Wellformed, Operations, Steps
  <2>4. CASE IsMember(w) \/ HasFactor(w) \/ Owns(w) \/ CountOwners(w)
    BY <2>4, Moves DEF Inviting, IsMember, HasFactor, Owns, CountOwners, Typed, Wellformed, tables, history, Operations, Steps
  <2>5. CASE UpdateRole(w)
    BY <2>5, Moves DEF Inviting, UpdateRole, StillExempt, Typed, Wellformed, Request, Racing, Operations, Steps
  <2>6. CASE RemoveMember(w)
    BY <2>6, Moves DEF Inviting, RemoveMember, StillExempt, Typed, Wellformed, Request, Racing, Operations, Steps
  <2>7. CASE ForgetPreferences(w) \/ PushPreference(w) \/ EnqueueMail(w)
    BY <2>7, Moves DEF Inviting, ForgetPreferences, PushPreference, EnqueueMail, Typed, Wellformed, history, Operations, Steps
  <2>8. CASE ClearPending(w) \/ RevokeInvite(w)
    BY <2>8, Moves DEF Inviting, ClearPending, RevokeInvite, Typed, Wellformed, history, Operations, Steps
  <2>9. CASE Insert(w)
    <3>1. CASE UNCHANGED invites /\ Done(w)
      BY <2>9, <3>1, Moves DEF Inviting, Insert, Typed, Wellformed, history, Steps
    <3>2. CASE \E n \in Ids :
                 /\ invites' = invites \cup {[n |-> n, email |-> req[w].on, role |-> req[w].role,
                                              used |-> FALSE, expired |-> FALSE]}
                 /\ req' = [req EXCEPT ![w].at = "mail", ![w].n = n]
      <4>1. /\ req[w] \in Request /\ req[w].role \in Lesser
        BY <2>9 DEF Insert, At, Typed, Wellformed, Inviting
      <4>2. PICK n \in Ids :
              /\ invites' = invites \cup {[n |-> n, email |-> req[w].on, role |-> req[w].role,
                                           used |-> FALSE, expired |-> FALSE]}
              /\ req' = [req EXCEPT ![w].at = "mail", ![w].n = n]
        BY <3>2
      <4>3. invites' \subseteq Invite
        <5>1. req[w].on \in People
          BY <4>1 DEF Request
        <5> DEFINE i == [n |-> n, email |-> req[w].on, role |-> req[w].role,
                         used |-> FALSE, expired |-> FALSE]
        <5>2. i \in Invite
          BY <4>1, <5>1 DEF Invite
        <5>3. QED
          BY <4>2, <5>2 DEF Typed, Wellformed
      <4>4. req' = [req EXCEPT ![w] = [@ EXCEPT !.at = "mail", !.n = n]]
        BY <4>2
      <4>5. Wellformed'
        <5>1. n \in Nat
          BY MembersAssumption DEF Ids
        <5>2. QED
          BY <4>1, <4>4, <5>1 DEF Typed, Wellformed, Request, Steps, Inviting
      <4>6. QED
        BY <2>9, <4>3, <4>5 DEF Insert, Typed, Wellformed, history
    <3>3. QED
      BY <2>9, <3>1, <3>2 DEF Insert
  <2>10. CASE FindInvite(w)
    <3>1. PICK a \in Request : req' = [req EXCEPT ![w] = a] /\ a.role \in Lesser
      BY <2>10, InviteFound
    <3>2. Wellformed'
      BY <3>1, Begins
    <3>3. QED
      BY <2>10, <3>2 DEF FindInvite, Typed, tables
  <2>11. CASE BelongsAlready(w)
    BY <2>11, Moves DEF Inviting, BelongsAlready, Typed, Wellformed, tables, history, Operations, Steps
  <2>12. CASE AddMember(w)
    <3>1. Wellformed'
      BY <2>12, Moves DEF AddMember, Steps
    <3>2. req[w] \in Request
      BY DEF Typed, Wellformed
    <3>3. req[w].by \in People /\ req[w].role \in Roles
      BY <3>2 DEF Request
    <3>4. role' \in [People -> Roles \cup {"none"}]
      BY <2>12, <3>3 DEF AddMember, Typed
    <3>5. exempt' \subseteq People
      BY <2>12, <3>3 DEF AddMember, StillExempt, Typed
    <3>6. crossed' \in BOOLEAN
      BY <2>12 DEF AddMember, Typed
    <3>7. UNCHANGED <<created, factor, invites>>
      BY <2>12 DEF AddMember
    <3>8. QED
      BY <3>1, <3>4, <3>5, <3>6, <3>7 DEF Typed
  <2>13. CASE AcceptInvite(w)
    <3>1. Wellformed'
      BY <2>13, Moves DEF AcceptInvite, Operations, Steps
    <3>2. invites' \subseteq Invite
      BY <2>13 DEF AcceptInvite, Typed, Invite
    <3>3. UNCHANGED <<created, role, factor, history>>
      BY <2>13 DEF AcceptInvite
    <3> QED BY <3>1, <3>2, <3>3 DEF Typed, history
  <2>14. CASE DropSecret(w)
    BY <2>14, BeginsFor DEF DropSecret, Typed, Wellformed, Operations, Steps
  <2>15. CASE StageSecret(w) \/ ConfirmFactor(w)
    BY <2>15, Moves DEF Inviting, StageSecret, ConfirmFactor, Typed, Wellformed, Request, history, Operations, Steps
  <2>16. CASE FindPending(w) \/ RequiresFactor(w)
    BY <2>16, BeginsFor DEF FindPending, RequiresFactor, Typed, Wellformed, tables, history, Operations, Steps
  <2>17. CASE VerifyFactor(w)
    BY <2>17, Moves DEF Inviting, VerifyFactor, Typed, Wellformed, tables, history, Operations, Steps
  <2>18. CASE DisableFactor(w)
    BY <2>18, Moves DEF Inviting, DisableFactor, Typed, Wellformed, Request, Operations, Steps
  <2>19. QED
    BY <1>3, <2>1, <2>2, <2>3, <2>4, <2>5, <2>6, <2>7, <2>8, <2>9, <2>10, <2>11, <2>12, <2>13,
       <2>14, <2>15, <2>16, <2>17, <2>18 DEF Step
<1>4. QED
  BY <1>1, <1>2, <1>3 DEF Next

-----------------------------------------------------------------------------
(* A workspace has an owner                                                *)

\* A request that takes a role of owner away, if the person has one.
Leaving(w) == req[w].op = "remove" \/ req[w].role # "owner"

\* Before the workspace exists nobody belongs to it or manages it.
Unborn ==
  /\ \A p \in People : role[p] = "none"
  /\ invites = {}
  /\ \A w \in Workers : req[w].at \in {"idle", "create", "stage", "confirm", "secret", "drop"}

\* And as long as no write was crossed by another, what a request has counted
\* is still so when it writes: somebody else owns the workspace.
OwnersInv ==
  /\ ~created => Unborn
  /\ created /\ ~crossed =>
       /\ Owners # {}
       /\ \A w \in Workers :
            req[w].at = "write" /\ Leaving(w) => Owners \ {req[w].on} # {}

LEMMA OwnersInit == Init => OwnersInv
  BY FreeIsARequest DEF Init, OwnersInv, Unborn

\* Two owners are somebody besides any one of them.
LEMMA AnotherOwner ==
  ASSUME NEW p, ~(Cardinality(Owners) <= 1)
  PROVE  Owners \ {p} # {}
<1>1. SUFFICES ASSUME Owners \subseteq {p} PROVE FALSE
  OBVIOUS
<1>2. IsFiniteSet({p}) /\ Cardinality({p}) = 1
  BY FS_Singleton
<1>3. Cardinality(Owners) \in Nat /\ Cardinality(Owners) <= 1
  BY <1>1, <1>2, FS_Subset, FS_CardinalityType
<1>4. QED
  BY <1>3

\* What changes neither who belongs nor what a request at its write intends.
LEMMA OwnersKept ==
  ASSUME Typed, OwnersInv, NEW w \in Workers,
         UNCHANGED <<created, crossed, role>>,
         ~created => invites' = {} /\ req'[w].at \in {"idle", "create", "stage", "confirm", "secret", "drop"},
         \A v \in Workers \ {w} : req'[v] = req[v],
         created /\ ~crossed /\ req'[w].at = "write" /\ Leaving(w)' => Owners \ {req'[w].on} # {}
  PROVE  OwnersInv'
  BY DEF OwnersInv, Unborn, Leaving, Owners

LEMMA OwnersStep ==
  ASSUME Typed, Typed', OwnersInv, [Next]_vars
  PROVE  OwnersInv'
<1>1. CASE UNCHANGED vars
  BY <1>1 DEF OwnersInv, Unborn, Leaving, Owners, vars
<1>2. CASE Expire
  BY <1>2 DEF Expire, OwnersInv, Unborn, Leaving, Owners, history
<1>3. ASSUME NEW w \in Workers, Step(w)
      PROVE  OwnersInv'
  <2> USE RolesAreRoles, FreeIsARequest
  <2>1. CASE Gate(w)
    <3>1. created
      BY <2>1, MembersAssumption DEF Gate, OwnersInv, Unborn, Owners
    <3>2. req'[w].at \in {"member", "clear", "revoke", "push"} /\ \A v \in Workers \ {w} : req'[v] = req[v]
      BY <2>1, GateAsks DEF Typed, Wellformed
    <3>3. QED
      BY <2>1, <3>1, <3>2, OwnersKept DEF Gate, tables, history
  <2>2. CASE Claim(w)
    <3>1. req' = req \/ (req'[w].at = "create" /\ \A v \in Workers \ {w} : req'[v] = req[v])
      BY <2>2, BeginsSo DEF Claim
    <3>2. UNCHANGED <<created, crossed, role, invites>>
      BY <2>2 DEF Claim, history
    <3>3. CASE req' = req
      BY <3>2, <3>3 DEF OwnersInv, Unborn, Leaving, Owners
    <3>4. QED
      BY <3>1, <3>2, <3>3, OwnersKept DEF OwnersInv, Unborn
  <2>3. CASE CreateWorkspace(w)
    <3>1. req'[w].at = "idle" /\ \A v \in Workers \ {w} : req'[v] = req[v]
      BY <2>3 DEF CreateWorkspace, Done, Typed, Wellformed
    <3>2. CASE created
      BY <2>3, <3>1, <3>2, OwnersKept DEF CreateWorkspace
    <3>3. CASE ~created
      <4>1. \A v \in Workers : req'[v].at # "write"
        BY <3>1, <3>3 DEF OwnersInv, Unborn
      <4>2. created' /\ Founder \in Owners'
        BY <2>3, <3>3 DEF CreateWorkspace, Typed, Owners
      <4>3. QED
        BY <4>1, <4>2 DEF OwnersInv
    <3>4. QED
      BY <3>2, <3>3
  <2>4. CASE IsMember(w) \/ HasFactor(w)
    BY <2>4, OwnersKept DEF IsMember, HasFactor, Go, Done, Typed, Wellformed, Request, tables, history, OwnersInv, Unborn
  <2>5. CASE Owns(w)
    <3>1. PICK at \in {"count", "write"} :
            /\ Go(w, at) /\ req[w].at = "owns"
            /\ at = "write" => ~(role[req[w].on] = "owner" /\ (req[w].op = "remove" \/ req[w].role # "owner"))
      BY <2>5 DEF Owns
    <3>2. /\ req'[w].at = at /\ req'[w].on = req[w].on /\ req'[w].op = req[w].op
          /\ req'[w].role = req[w].role /\ \A v \in Workers \ {w} : req'[v] = req[v]
      BY <3>1 DEF Go, Typed, Wellformed, Request
    <3>3. UNCHANGED <<created, crossed, role, invites>>
      BY <2>5 DEF Owns, tables, history
    <3>4. created
      BY <3>1 DEF OwnersInv, Unborn
    <3>5. ~crossed /\ at = "write" /\ Leaving(w)' => Owners \ {req'[w].on} # {}
      <4>1. at = "write" /\ Leaving(w)' => req[w].on \notin Owners
        BY <3>1, <3>2 DEF Leaving, Owners
      <4>2. ~crossed => Owners # {}
        BY <3>4 DEF OwnersInv
      <4>3. QED
        BY <3>2, <4>1, <4>2
    <3>6. QED
      BY <3>2, <3>3, <3>4, <3>5, OwnersKept
  <2>6. CASE CountOwners(w)
    BY <2>6, AnotherOwner, OwnersKept DEF CountOwners, Go, Done, Typed, Wellformed, Request, tables, history, OwnersInv, Unborn
  <2>7. CASE UpdateRole(w)
    BY <2>7 DEF UpdateRole, At, Done, Racing, Others, Typed, Wellformed, Request, OwnersInv, Unborn, Owners, Leaving
  <2>8. CASE RemoveMember(w)
    BY <2>8 DEF RemoveMember, At, Go, Racing, Others, Typed, Wellformed, Request, OwnersInv, Unborn, Owners, Leaving
  <2>9. CASE ForgetPreferences(w) \/ PushPreference(w) \/ EnqueueMail(w)
    BY <2>9, OwnersKept DEF ForgetPreferences, PushPreference, EnqueueMail, At, Go, Done, Typed, Wellformed, Request, history, OwnersInv, Unborn
  <2>10. CASE ClearPending(w) \/ RevokeInvite(w)
    BY <2>10, OwnersKept DEF ClearPending, RevokeInvite, At, Go, Done, Typed, Wellformed, Request, history, OwnersInv, Unborn
  <2>11. CASE Insert(w)
    BY <2>11, OwnersKept DEF Insert, At, Done, Typed, Wellformed, Request, history, OwnersInv, Unborn
  <2>12. CASE FindInvite(w) \/ BelongsAlready(w)
    <3>1. created
      BY <2>12 DEF FindInvite, BelongsAlready, At, OwnersInv, Unborn
    <3>2. req'[w].at \in {"role", "add", "accept"} /\ \A v \in Workers \ {w} : req'[v] = req[v]
      <4>1. CASE FindInvite(w)
        BY <4>1, InviteFound DEF Typed, Wellformed
      <4>2. CASE BelongsAlready(w)
        BY <4>2 DEF BelongsAlready, Go, Typed, Wellformed, Request
      <4>3. QED
        BY <2>12, <4>1, <4>2
    <3>3. QED
      BY <2>12, <3>1, <3>2, OwnersKept DEF FindInvite, BelongsAlready, tables, history
  <2>13. CASE AddMember(w)
    BY <2>13 DEF AddMember, At, Go, Inviting, Typed, Wellformed, Request, OwnersInv, Unborn, Owners, Leaving
  <2>14. CASE AcceptInvite(w)
    BY <2>14, OwnersKept DEF AcceptInvite, At, Done, Typed, Wellformed, Request, history, OwnersInv, Unborn
  <2>15. CASE DropSecret(w) \/ StageSecret(w) \/ FindPending(w) \/ ConfirmFactor(w)
    <3>1. req'[w].at \in {"stage", "idle", "confirm"} /\ \A v \in Workers \ {w} : req'[v] = req[v]
      BY <2>15, BeginsSo DEF DropSecret, StageSecret, FindPending, ConfirmFactor, Done, Typed, Wellformed
    <3>2. UNCHANGED <<created, crossed, role, invites>>
      BY <2>15 DEF DropSecret, StageSecret, FindPending, ConfirmFactor, tables, history
    <3>3. QED
      BY <3>1, <3>2, OwnersKept DEF OwnersInv, Unborn
  <2>16. CASE RequiresFactor(w) \/ VerifyFactor(w) \/ DisableFactor(w)
    <3>1. req'[w].at \in {"secret", "drop", "idle"} /\ \A v \in Workers \ {w} : req'[v] = req[v]
      BY <2>16, BeginsSo DEF RequiresFactor, VerifyFactor, DisableFactor, Go, Done, Typed, Wellformed, Request
    <3>2. UNCHANGED <<created, crossed, role, invites>>
      BY <2>16 DEF RequiresFactor, VerifyFactor, DisableFactor, tables, history
    <3>3. QED
      BY <3>1, <3>2, OwnersKept DEF OwnersInv, Unborn
  <2>17. QED
    BY <1>3, <2>1, <2>2, <2>3, <2>4, <2>5, <2>6, <2>7, <2>8, <2>9, <2>10, <2>11, <2>12, <2>13,
       <2>14, <2>15, <2>16 DEF Step
<1>4. QED
  BY <1>1, <1>2, <1>3 DEF Next

-----------------------------------------------------------------------------
(* An owner carries a second factor                                        *)

Proven(p) == factor[p] = "confirmed" \/ p \in exempt

\* What a promotion has seen of a factor, and a request that turns one off has
\* seen of a role, is still so when it writes, or somebody is exempt for it.
ProvenInv ==
  /\ \A p \in Owners : Proven(p)
  /\ \A w \in Workers :
       /\ req[w].op = "update" /\ req[w].role = "owner" /\ req[w].at \in {"owns", "count", "write"} =>
            Proven(req[w].on)
       /\ req[w].op = "disable" /\ req[w].at \in {"secret", "drop"} /\ role[req[w].by] = "owner" =>
            req[w].by \in exempt

LEMMA ProvenInit == Init => ProvenInv
  BY FreeIsARequest DEF Init, ProvenInv, Owners

\* What touches neither roles nor factors, by a request that promotes nobody and
\* turns nothing off.
LEMMA ProvenKept ==
  ASSUME Typed, ProvenInv, NEW w \in Workers,
         UNCHANGED <<role, factor, exempt>>,
         \A v \in Workers \ {w} : req'[v] = req[v],
         req'[w].op = "disable" /\ req'[w].at \in {"secret", "drop"} =>
           role[req'[w].by] # "owner" \/ req'[w].by \in exempt,
         req'[w].op = "update" /\ req'[w].role = "owner" /\ req'[w].at \in {"owns", "count", "write"} =>
           Proven(req'[w].on)
  PROVE  ProvenInv'
  BY DEF ProvenInv, Proven, Owners

LEMMA ProvenStep ==
  ASSUME Typed, Typed', ProvenInv, [Next]_vars
  PROVE  ProvenInv'
<1>1. CASE UNCHANGED vars
  BY <1>1 DEF ProvenInv, Proven, Owners, vars
<1>2. CASE Expire
  BY <1>2 DEF Expire, ProvenInv, Proven, Owners, history
<1>3. ASSUME NEW w \in Workers, Step(w)
      PROVE  ProvenInv'
  <2> USE RolesAreRoles, FreeIsARequest
  <2>1. CASE Gate(w)
    <3>1. /\ req'[w].op # "disable" /\ req'[w].at \notin {"owns", "count", "write"}
          /\ \A v \in Workers \ {w} : req'[v] = req[v]
      BY <2>1, GateAsks DEF Typed, Wellformed
    <3>2. QED
      BY <2>1, <3>1, ProvenKept DEF Gate, tables, history
  <2>2. CASE Claim(w)
    <3>1. req' = req \/ (req'[w].op = "create" /\ \A v \in Workers \ {w} : req'[v] = req[v])
      BY <2>2, BeginsSo DEF Claim
    <3>2. UNCHANGED <<role, factor, exempt>>
      BY <2>2 DEF Claim, history
    <3>3. CASE req' = req
      BY <3>2, <3>3 DEF ProvenInv, Proven, Owners
    <3>4. QED
      BY <3>1, <3>2, <3>3, ProvenKept
  <2>3. CASE CreateWorkspace(w)
    <3>1. req'[w].op = "none" /\ \A v \in Workers \ {w} : req'[v] = req[v]
      BY <2>3 DEF CreateWorkspace, Done, Typed, Wellformed
    <3>2. CASE created
      BY <2>3, <3>1, <3>2, ProvenKept DEF CreateWorkspace
    <3>3. CASE ~created
      <4>1. /\ role' = [role EXCEPT ![Founder] = "owner"] /\ exempt' = exempt \cup {Founder}
            /\ factor' = factor
        BY <2>3, <3>3 DEF CreateWorkspace
      <4>2. \A p \in Owners' : Proven(p)'
        BY <4>1 DEF Typed, ProvenInv, Proven, Owners
      <4>3. \A v \in Workers : req'[v].op # "none" => req'[v] = req[v]
        BY <3>1
      <4>4. QED
        BY <4>1, <4>2, <4>3 DEF Typed, Wellformed, Request, ProvenInv, Proven
    <3>4. QED
      BY <3>2, <3>3
  <2>4. CASE IsMember(w)
    BY <2>4, ProvenKept DEF IsMember, At, Go, Done, Typed, Wellformed, Request, tables, history, ProvenInv
  <2>5. CASE HasFactor(w)
    BY <2>5, ProvenKept DEF HasFactor, Go, Done, Typed, Wellformed, Request, tables, history, ProvenInv, Proven
  <2>6. CASE Owns(w) \/ CountOwners(w)
    BY <2>6, ProvenKept DEF Owns, CountOwners, Go, Done, Typed, Wellformed, Request, tables, history, ProvenInv
  <2>7. CASE UpdateRole(w)
    <3>1. req'[w].op = "none" /\ \A v \in Workers \ {w} : req'[v] = req[v]
      BY <2>7 DEF UpdateRole, Done, Typed, Wellformed
    <3>2. CASE role[req[w].on] = "none"
      BY <2>7, <3>1, <3>2, ProvenKept DEF UpdateRole
    <3>3. CASE role[req[w].on] # "none" /\ req[w].role # "owner"
      BY <2>7, <3>1, <3>3 DEF UpdateRole, StillExempt, Promoting, Others, Typed, Wellformed, Request,
                              ProvenInv, Proven, Owners
    <3>4. CASE role[req[w].on] # "none" /\ req[w].role = "owner"
      BY <2>7, <3>1, <3>4 DEF UpdateRole, At, Disabling, Others, Typed, Wellformed, Request, ProvenInv,
                              Proven, Owners
    <3>5. QED
      BY <3>2, <3>3, <3>4
  <2>8. CASE RemoveMember(w)
    BY <2>8 DEF RemoveMember, At, Go, StillExempt, Promoting, Others, Typed, Wellformed, Request,
                ProvenInv, Proven, Owners
  <2>9. CASE ForgetPreferences(w) \/ PushPreference(w) \/ EnqueueMail(w)
    BY <2>9, ProvenKept DEF ForgetPreferences, PushPreference, EnqueueMail, Done, Typed, Wellformed, history
  <2>10. CASE ClearPending(w) \/ RevokeInvite(w)
    BY <2>10, ProvenKept DEF ClearPending, RevokeInvite, At, Go, Done, Typed, Wellformed, Request, history
  <2>11. CASE Insert(w)
    BY <2>11, ProvenKept DEF Insert, At, Done, Typed, Wellformed, Request, history
  <2>12. CASE FindInvite(w)
    <3>1. req'[w].op = "accept" /\ \A v \in Workers \ {w} : req'[v] = req[v]
      BY <2>12, InviteFound DEF Typed, Wellformed
    <3>2. QED
      BY <2>12, <3>1, ProvenKept DEF FindInvite, tables
  <2>13. CASE BelongsAlready(w) \/ AcceptInvite(w)
    BY <2>13, ProvenKept DEF BelongsAlready, AcceptInvite, At, Go, Done, Typed, Wellformed, Request, tables, history
  <2>14. CASE AddMember(w)
    BY <2>14 DEF AddMember, At, Go, StillExempt, Promoting, Others, Inviting, Typed, Wellformed, Request,
                 ProvenInv, Proven, Owners
  <2>15. CASE DropSecret(w)
    <3>1. req'[w].op = "enrol" /\ \A v \in Workers \ {w} : req'[v] = req[v]
      BY <2>15, BeginsSo DEF DropSecret
    <3>2. QED
      BY <2>15, <3>1 DEF DropSecret, Promoting, Others, Typed, Wellformed, ProvenInv, Proven, Owners
  <2>16. CASE StageSecret(w) \/ ConfirmFactor(w)
    BY <2>16 DEF StageSecret, ConfirmFactor, Done, Typed, Wellformed, Request, history, ProvenInv, Proven, Owners
  <2>17. CASE FindPending(w) \/ RequiresFactor(w)
    <3>1. /\ req'[w].op \in {"confirm", "disable"} /\ \A v \in Workers \ {w} : req'[v] = req[v]
          /\ req'[w].op = "disable" => role[req'[w].by] # "owner"
      BY <2>17, BeginsSo DEF FindPending, RequiresFactor
    <3>2. QED
      BY <2>17, <3>1, ProvenKept DEF FindPending, RequiresFactor, tables, history
  <2>18. CASE VerifyFactor(w)
    BY <2>18, ProvenKept DEF VerifyFactor, At, Go, Done, Typed, Wellformed, Request, tables, history, ProvenInv
  <2>19. CASE DisableFactor(w)
    <3>1. req'[w].op = "none" /\ \A v \in Workers \ {w} : req'[v] = req[v]
      BY <2>19 DEF DisableFactor, Done, Typed, Wellformed
    <3>2. QED
      BY <2>19, <3>1 DEF DisableFactor, At, Promoting, Others, Typed, Wellformed, Request, ProvenInv, Proven, Owners
  <2>20. QED
    BY <1>3, <2>1, <2>2, <2>3, <2>4, <2>5, <2>6, <2>7, <2>8, <2>9, <2>10, <2>11, <2>12, <2>13,
       <2>14, <2>15, <2>16, <2>17, <2>18, <2>19 DEF Step
<1>4. QED
  BY <1>1, <1>2, <1>3 DEF Next

-----------------------------------------------------------------------------
(* Who leaves is gone                                                      *)

Accepting(w, n) == req[w].op = "accept" /\ req[w].n = n
Issued(n) == n \in mailed \/ \E w \in Workers : At(w, "invite", "mail") /\ req[w].n = n

\* Who is a member by an invitation used it up, or is about to.
UsedUp(n) ==
  /\ \A v, w \in Workers : Accepting(v, n) /\ Accepting(w, n) => v = w
  /\ joins[n] <= 1
  /\ joins[n] > 0 => \A w \in Workers : Accepting(w, n) => req[w].at = "accept"
  /\ joins[n] > 0 /\ (\A w \in Workers : ~Accepting(w, n)) =>
       \A i \in invites : i.n = n => i.used

Kept(p) ==
  \/ role[p] # "none" \/ p \in late
  \/ \E w \in Workers : At(w, "remove", "forget") /\ req[w].on = p

LeaveInv ==
  /\ \A w \in Workers : req[w].op = "accept" => req[w].at \in {"role", "add", "accept"}
  /\ joins \in [Ids -> Nat]
  /\ \A n \in Ids : joins[n] > 0 \/ (\E w \in Workers : Accepting(w, n))
                      \/ (\E i \in invites : i.n = n) => Issued(n)
  /\ \A n \in Ids : UsedUp(n) \/ n \in rushed
  /\ prefs \subseteq People /\ \A p \in prefs : Kept(p)

LEMMA LeaveInit == Init => LeaveInv
  BY FreeIsARequest, MembersAssumption DEF Init, LeaveInv, UsedUp, Accepting, Ids

\* A step that neither invites nor accepts, neither removes nor forgets.
LEMMA LeaveKept ==
  ASSUME Typed, LeaveInv, NEW w \in Workers,
         UNCHANGED <<joins, mailed, rushed, late>>,
         \A v \in Workers \ {w} : req'[v] = req[v],
         req[w].op # "accept" /\ req'[w].op # "accept",
         req[w].at \notin {"mail", "forget"},
         invites' \subseteq invites, prefs' \subseteq prefs,
         \A p \in People : role[p] # "none" => role'[p] # "none"
  PROVE  LeaveInv'
<1>1. \A n \in Ids, v \in Workers : Accepting(v, n)' <=> Accepting(v, n)
  BY DEF Accepting
<1>2. \A n \in Ids : Issued(n) => Issued(n)'
  BY DEF Issued, At
<1>3. \A n \in Ids : UsedUp(n) => UsedUp(n)'
  BY <1>1 DEF UsedUp, Accepting
<1>4. \A p \in People : Kept(p) => Kept(p)'
  BY DEF Kept, At
<1>5. QED
  BY <1>1, <1>2, <1>3, <1>4 DEF LeaveInv, Typed

LEMMA LeaveStep ==
  ASSUME Typed, Typed', LeaveInv, [Next]_vars
  PROVE  LeaveInv'
<1>1. CASE UNCHANGED vars
  BY <1>1 DEF LeaveInv, UsedUp, Accepting, Issued, Kept, At, vars
<1>2. CASE Expire
  <2>1. \A i \in invites' : \E j \in invites : j.n = i.n /\ j.used = i.used
    BY <1>2 DEF Expire, Typed, Invite
  <2>2. UNCHANGED <<role, prefs, mailed, req, late, joins, rushed>>
    BY <1>2 DEF Expire, history
  <2>3. \A n \in Ids : (UsedUp(n) \/ n \in rushed)'
    BY <2>1, <2>2 DEF LeaveInv, UsedUp, Accepting
  <2>4. \A n \in Ids : (\E i \in invites' : i.n = n) => \E i \in invites : i.n = n
    BY <2>1
  <2>5. \A n \in Ids : joins'[n] > 0 \/ (\E w \in Workers : Accepting(w, n)')
                         \/ (\E i \in invites' : i.n = n) => Issued(n)'
    BY <2>2, <2>4 DEF LeaveInv, Accepting, Issued, At
  <2>6. prefs' \subseteq People /\ \A p \in prefs' : Kept(p)'
    BY <2>2 DEF LeaveInv, Kept, At
  <2>7. QED
    BY <2>2, <2>3, <2>5, <2>6 DEF LeaveInv
<1>3. ASSUME NEW w \in Workers, Step(w)
      PROVE  LeaveInv'
  <2>1. CASE Gate(w)
    <3>1. /\ req'[w].op # "accept" /\ \A v \in Workers \ {w} : req'[v] = req[v]
          /\ req[w].at = "idle"
      <4>1. PICK a \in Request : req' = [req EXCEPT ![w] = a] /\ a.op # "accept"
        BY <2>1, GateAsks
      <4>2. req[w].at = "idle"
        BY <2>1 DEF Gate, Begin
      <4> QED BY <4>1, <4>2 DEF Typed, Wellformed
    <3>2. UNCHANGED <<joins, mailed, rushed, late, invites, prefs, role>>
      BY <2>1 DEF Gate, tables, history
    <3>3. req[w].op # "accept"
      BY <3>1 DEF LeaveInv
    <3>4. QED
      BY <3>1, <3>2, <3>3, LeaveKept
  <2>2. CASE Claim(w)
    <3>1. req' = req \/ (req'[w].op = "create" /\ \A v \in Workers \ {w} : req'[v] = req[v])
      BY <2>2, BeginsSo DEF Claim
    <3>2. UNCHANGED <<role, invites, prefs, mailed, late, joins, rushed>> /\ req[w].at = "idle"
      BY <2>2 DEF Claim, history
    <3>3. QED
      BY <3>1, <3>2, LeaveKept DEF LeaveInv
  <2>3. CASE CreateWorkspace(w)
    <3>1. req'[w].op = "none" /\ \A v \in Workers \ {w} : req'[v] = req[v]
      BY <2>3, FreeIsARequest DEF CreateWorkspace, Done, Typed, Wellformed
    <3>2. \A p \in People : role[p] # "none" => role'[p] # "none"
      BY <2>3 DEF CreateWorkspace, Typed
    <3>3. QED
      BY <2>3, <3>1, <3>2, LeaveKept DEF CreateWorkspace, At
  <2>4. CASE IsMember(w) \/ HasFactor(w) \/ Owns(w) \/ CountOwners(w)
    <3>1. req[w].op # "accept" /\ req[w].at \in {"member", "factor", "owns", "count"}
      BY <2>4 DEF IsMember, HasFactor, Owns, CountOwners, LeaveInv
    <3>2. req'[w].op # "accept" /\ \A v \in Workers \ {w} : req'[v] = req[v]
      BY <2>4, <3>1, FreeIsARequest DEF IsMember, HasFactor, Owns, CountOwners, Go, Done, Typed, Wellformed, Request
    <3>3. UNCHANGED <<role, invites, prefs, mailed, late, joins, rushed>>
      BY <2>4 DEF IsMember, HasFactor, Owns, CountOwners, tables, history
    <3>4. QED
      BY <3>1, <3>2, <3>3, LeaveKept
  <2>5. CASE UpdateRole(w)
    <3>1. req'[w].op = "none" /\ \A v \in Workers \ {w} : req'[v] = req[v]
      BY <2>5, FreeIsARequest DEF UpdateRole, Done, Typed, Wellformed
    <3>2. \A p \in People : role[p] # "none" => role'[p] # "none"
      BY <2>5, RolesAreRoles DEF UpdateRole, Typed, Wellformed, Request
    <3>3. QED
      BY <2>5, <3>1, <3>2, LeaveKept DEF UpdateRole, At
  <2>6. CASE RemoveMember(w)
    <3>1. /\ req'[w].op = "remove" /\ req'[w].at = "forget" /\ req'[w].on = req[w].on
          /\ \A v \in Workers \ {w} : req'[v] = req[v]
      BY <2>6 DEF RemoveMember, At, Go, Typed, Wellformed, Request
    <3>2. \A p \in People : Kept(p) => Kept(p)'
      BY <2>6, <3>1 DEF RemoveMember, Kept, At, Typed
    <3>3. \A n \in Ids : UsedUp(n) => UsedUp(n)'
      BY <2>6, <3>1 DEF RemoveMember, UsedUp, Accepting, At
    <3>4. \A n \in Ids : Issued(n) => Issued(n)'
      BY <2>6, <3>1 DEF RemoveMember, Issued, At
    <3>5. \A n \in Ids, v \in Workers : Accepting(v, n)' => Accepting(v, n)
      BY <3>1 DEF Accepting
    <3>6. QED
      BY <2>6, <3>1, <3>2, <3>3, <3>4, <3>5 DEF RemoveMember, LeaveInv, Typed
  <2>7. CASE ForgetPreferences(w)
    <3>1. req'[w].op = "none" /\ \A v \in Workers \ {w} : req'[v] = req[v]
      BY <2>7, FreeIsARequest DEF ForgetPreferences, Done, Typed, Wellformed
    <3>2. \A p \in People \ {req[w].on} : Kept(p) => Kept(p)'
      BY <2>7, <3>1 DEF ForgetPreferences, Kept, At, history
    <3>3. \A n \in Ids : UsedUp(n) => UsedUp(n)'
      BY <2>7, <3>1 DEF ForgetPreferences, UsedUp, Accepting, At, history
    <3>4. \A n \in Ids : Issued(n) => Issued(n)'
      BY <2>7, <3>1 DEF ForgetPreferences, Issued, At
    <3>5. \A n \in Ids, v \in Workers : Accepting(v, n)' => Accepting(v, n)
      BY <3>1 DEF Accepting
    <3>6. QED
      BY <2>7, <3>1, <3>2, <3>3, <3>4, <3>5 DEF ForgetPreferences, LeaveInv, Typed, history
  <2>8. CASE PushPreference(w)
    <3>1. req'[w].op = "none" /\ \A v \in Workers \ {w} : req'[v] = req[v]
      BY <2>8, FreeIsARequest DEF PushPreference, Done, Typed, Wellformed
    <3>2. \A p \in People : Kept(p) \/ p = req[w].by => Kept(p)'
      BY <2>8, <3>1 DEF PushPreference, Kept, At
    <3>3. \A n \in Ids : UsedUp(n) => UsedUp(n)'
      BY <2>8, <3>1 DEF PushPreference, UsedUp, Accepting, At
    <3>4. \A n \in Ids : Issued(n) => Issued(n)'
      BY <2>8, <3>1 DEF PushPreference, Issued, At
    <3>5. \A n \in Ids, v \in Workers : Accepting(v, n)' => Accepting(v, n)
      BY <3>1 DEF Accepting
    <3>6. req[w].by \in People
      BY DEF Typed, Wellformed, Request
    <3>7. QED
      BY <2>8, <3>1, <3>2, <3>3, <3>4, <3>5, <3>6 DEF PushPreference, LeaveInv, Typed
  <2>9. CASE ClearPending(w) \/ RevokeInvite(w)
    <3>1. /\ req[w].op # "accept" /\ req[w].at \in {"clear", "revoke"}
          /\ UNCHANGED <<role, prefs, mailed, late, joins, rushed>> /\ invites' \subseteq invites
      BY <2>9 DEF ClearPending, RevokeInvite, At, history
    <3>2. req'[w].op # "accept" /\ \A v \in Workers \ {w} : req'[v] = req[v]
      BY <2>9, FreeIsARequest DEF ClearPending, RevokeInvite, At, Go, Done, Typed, Wellformed, Request
    <3>3. QED
      BY <3>1, <3>2, LeaveKept
  <2>10. CASE Insert(w)
    <3>1. req[w].op = "invite" /\ req[w].at = "insert" /\ UNCHANGED <<role, prefs, mailed, late, joins, rushed>>
      BY <2>10 DEF Insert, At, history
    <3>2. CASE UNCHANGED invites /\ Done(w)
      <4>1. req'[w].op = "none" /\ \A v \in Workers \ {w} : req'[v] = req[v]
        BY <3>2, FreeIsARequest DEF Done, Typed, Wellformed
      <4>2. QED
        BY <3>1, <3>2, <4>1, LeaveKept
    <3>3. ASSUME NEW m \in Ids \ Made,
                 invites' = invites \cup {[n |-> m, email |-> req[w].on, role |-> req[w].role,
                                           used |-> FALSE, expired |-> FALSE]},
                 req' = [req EXCEPT ![w].at = "mail", ![w].n = m]
          PROVE  LeaveInv'
      <4>1. req' = [req EXCEPT ![w] = [@ EXCEPT !.at = "mail", !.n = m]]
        BY <3>3
      <4>2. /\ req'[w].op = "invite" /\ req'[w].at = "mail" /\ req'[w].n = m
            /\ \A v \in Workers \ {w} : req'[v] = req[v]
        BY <3>1, <4>1 DEF Typed, Wellformed, Request
      <4>3. \A n \in Ids : Issued(n) \/ n = m => Issued(n)'
        BY <3>1, <4>2 DEF Issued, At
      <4>4. \A n \in Ids, v \in Workers : Accepting(v, n)' <=> Accepting(v, n)
        BY <3>1, <4>2 DEF Accepting
      <4>5. joins[m] = 0 /\ \A v \in Workers : ~Accepting(v, m)
        <5>1. ~Issued(m)
          BY <3>3 DEF Made, Issued, At
        <5>2. m \in Ids /\ joins[m] \in Nat
          BY <3>3 DEF LeaveInv
        <5>3. ~(joins[m] > 0) /\ \A v \in Workers : ~Accepting(v, m)
          BY <5>1, <5>2 DEF LeaveInv
        <5>4. QED
          BY <5>2, <5>3
      <4>6. \A n \in Ids : UsedUp(n) => UsedUp(n)'
        <5> SUFFICES ASSUME NEW n \in Ids, UsedUp(n) PROVE UsedUp(n)'
          OBVIOUS
        <5>1. joins' = joins
          BY <3>1
        <5>2. CASE n = m
          <6>1. ~(joins'[n] > 0) /\ joins'[n] <= 1
            BY <4>5, <5>1, <5>2
          <6>2. QED
            BY <4>4, <4>5, <5>2, <6>1 DEF UsedUp
        <5>3. CASE n # m
          <6>1. \A i \in invites' : i.n = n => i \in invites
            BY <3>3, <5>3
          <6>2. \A v \in Workers : Accepting(v, n) => req'[v] = req[v]
            BY <3>1, <4>2 DEF Accepting
          <6>3. QED
            BY <4>4, <5>1, <6>1, <6>2 DEF UsedUp
        <5>4. QED
          BY <5>2, <5>3
      <4>7. \A p \in People : Kept(p) => Kept(p)'
        BY <3>1, <4>2 DEF Kept, At
      <4>8. \A i \in invites' : i \in invites \/ i.n = m
        BY <3>3
      <4>9. QED
        BY <3>1, <4>2, <4>3, <4>4, <4>6, <4>7, <4>8 DEF LeaveInv, Typed
    <3>4. QED
      BY <2>10, <3>2, <3>3 DEF Insert
  <2>11. CASE EnqueueMail(w)
    <3>1. req'[w].op = "none" /\ \A v \in Workers \ {w} : req'[v] = req[v]
      BY <2>11, FreeIsARequest DEF EnqueueMail, Done, Typed, Wellformed
    <3>2. \A p \in People : Kept(p) => Kept(p)'
      BY <2>11, <3>1 DEF EnqueueMail, Kept, At, history
    <3>3. \A n \in Ids : UsedUp(n) => UsedUp(n)'
      BY <2>11, <3>1 DEF EnqueueMail, UsedUp, Accepting, At, history
    <3>4. \A n \in Ids : Issued(n) => Issued(n)'
      BY <2>11, <3>1 DEF EnqueueMail, Issued, At
    <3>5. \A n \in Ids, v \in Workers : Accepting(v, n)' => Accepting(v, n)
      BY <3>1 DEF Accepting
    <3>6. QED
      BY <2>11, <3>1, <3>2, <3>3, <3>4, <3>5 DEF EnqueueMail, LeaveInv, Typed, history
  <2>12. CASE FindInvite(w)
    <3>1. PICK i \in invites :
            /\ ~i.used
            /\ req'[w].op = "accept" /\ req'[w].at = "role" /\ req'[w].n = i.n
            /\ \A v \in Workers \ {w} : req'[v] = req[v]
            /\ rushed' = IF \E r \in Others(w) : r.op = "accept" /\ r.n = i.n
                         THEN rushed \cup {i.n} ELSE rushed
      BY <2>12, InviteFoundSo
    <3>2. req[w].at = "idle" /\ req[w].op # "accept" /\ UNCHANGED <<role, invites, prefs, mailed, late, joins>>
      BY <2>12 DEF FindInvite, tables, LeaveInv
    <3>3. \A p \in People : Kept(p) => Kept(p)'
      BY <3>1, <3>2 DEF Kept, At
    <3>4. \A n \in Ids : Issued(n) => Issued(n)'
      BY <3>1, <3>2 DEF Issued, At
    <3>5. \A n \in Ids, v \in Workers : Accepting(v, n)' <=> Accepting(v, n) \/ (v = w /\ n = i.n)
      BY <3>1, <3>2 DEF Accepting
    <3>6. \A n \in Ids : UsedUp(n) => UsedUp(n)' \/ n \in rushed'
      <4>1. ASSUME NEW n \in Ids, UsedUp(n), n # i.n PROVE UsedUp(n)'
        BY <3>1, <3>2, <3>5, <4>1 DEF UsedUp, Accepting
      <4>2. ASSUME NEW n \in Ids, UsedUp(n), n = i.n, n \notin rushed' PROVE UsedUp(n)'
        <5>1. \A v \in Workers : ~Accepting(v, n)
          BY <3>1, <3>2, <4>2 DEF Others, Accepting
        <5>2. joins[n] <= 0
          BY <3>1, <4>2, <5>1 DEF UsedUp, LeaveInv
        <5>3. joins' = joins /\ joins[n] \in Nat /\ ~(joins'[n] > 0) /\ joins'[n] <= 1
          BY <3>2, <4>2, <5>2 DEF LeaveInv
        <5>4. \A v \in Workers : Accepting(v, n)' => v = w
          BY <3>5, <5>1
        <5>5. QED
          BY <5>3, <5>4 DEF UsedUp
      <4>3. QED
        BY <4>1, <4>2
    <3>7. rushed \subseteq rushed'
      BY <3>1
    <3>8. QED
      BY <3>1, <3>2, <3>3, <3>4, <3>5, <3>6, <3>7 DEF LeaveInv, Typed
  <2>13. CASE BelongsAlready(w)
    <3>1. /\ req[w].op = "accept" /\ req[w].at = "role"
          /\ req'[w].op = "accept" /\ req'[w].at \in {"add", "accept"} /\ req'[w].n = req[w].n
          /\ \A v \in Workers \ {w} : req'[v] = req[v]
          /\ UNCHANGED <<role, invites, prefs, mailed, late, joins, rushed>>
      BY <2>13 DEF BelongsAlready, At, Go, tables, history, Typed, Wellformed, Request
    <3>2. \A p \in People : Kept(p) => Kept(p)'
      BY <3>1 DEF Kept, At
    <3>3. \A n \in Ids : Issued(n) => Issued(n)'
      BY <3>1 DEF Issued, At
    <3>4. \A n \in Ids, v \in Workers : Accepting(v, n)' <=> Accepting(v, n)
      BY <3>1 DEF Accepting
    <3>5. \A n \in Ids : UsedUp(n) => UsedUp(n)'
      BY <3>1, <3>4 DEF UsedUp, Accepting
    <3>6. QED
      BY <3>1, <3>2, <3>3, <3>4, <3>5 DEF LeaveInv, Typed
  <2>14. CASE AddMember(w)
    <3> DEFINE m == req[w].n
    <3>1. /\ req[w].op = "accept" /\ req[w].at = "add"
          /\ req'[w].op = "accept" /\ req'[w].at = "accept" /\ req'[w].n = m
          /\ \A v \in Workers \ {w} : req'[v] = req[v]
          /\ UNCHANGED <<invites, prefs, mailed, late, rushed>>
      BY <2>14 DEF AddMember, At, Go, Typed, Wellformed, Request
    <3>2. role' = [role EXCEPT ![req[w].by] = req[w].role] /\ req[w].role # "none"
      BY <2>14, RolesAreRoles DEF AddMember, Typed, Wellformed, Request
    <3>3. joins' \in {joins, [joins EXCEPT ![m] = @ + 1]}
      BY <2>14 DEF AddMember
    <3>4. \A p \in People : Kept(p) => Kept(p)'
      BY <3>1, <3>2 DEF Kept, At, Typed
    <3>5. \A n \in Ids : Issued(n) => Issued(n)'
      BY <3>1 DEF Issued, At
    <3>6. \A n \in Ids, v \in Workers : Accepting(v, n)' <=> Accepting(v, n)
      BY <3>1 DEF Accepting
    <3>7. /\ joins' \in [Ids -> Nat]
          /\ \A n \in Ids : n # m => joins'[n] = joins[n]
          /\ m \in Ids => joins'[m] <= joins[m] + 1
      BY <3>3 DEF LeaveInv
    <3>8. ASSUME NEW n \in Ids, UsedUp(n) PROVE UsedUp(n)'
      <4>1. CASE n # m
        BY <3>1, <3>6, <3>7, <3>8, <4>1 DEF UsedUp, Accepting
      <4>2. CASE n = m
        <5>1. Accepting(w, n) /\ Accepting(w, n)'
          BY <3>1, <4>2 DEF Accepting
        <5>2. joins[n] = 0
          BY <3>1, <3>8, <5>1 DEF UsedUp, LeaveInv
        <5>3. joins'[n] <= 1
          BY <3>7, <4>2, <5>2
        <5>4. \A v \in Workers : Accepting(v, n)' => v = w
          BY <3>6, <3>8, <5>1 DEF UsedUp
        <5>5. QED
          BY <3>1, <5>1, <5>3, <5>4 DEF UsedUp
      <4>3. QED
        BY <4>1, <4>2
    <3>9. QED
      BY <3>1, <3>4, <3>5, <3>6, <3>7, <3>8 DEF LeaveInv, Typed, Accepting
  <2>15. CASE AcceptInvite(w)
    <3> DEFINE m == req[w].n
    <3>1. /\ req[w].op = "accept" /\ req[w].at = "accept"
          /\ req'[w].op = "none" /\ \A v \in Workers \ {w} : req'[v] = req[v]
          /\ UNCHANGED <<role, prefs, mailed, late, joins, rushed>>
      BY <2>15, FreeIsARequest DEF AcceptInvite, At, Done, history, Typed, Wellformed
    <3>2. \A i \in invites' : /\ i.n = m => i.used
                             /\ \E j \in invites : j.n = i.n /\ (j.used => i.used)
      BY <2>15 DEF AcceptInvite, Typed, Invite
    <3>3. \A p \in People : Kept(p) => Kept(p)'
      BY <3>1 DEF Kept, At
    <3>4. \A n \in Ids : Issued(n) => Issued(n)'
      BY <3>1 DEF Issued, At
    <3>5. \A n \in Ids, v \in Workers : Accepting(v, n)' <=> Accepting(v, n) /\ v # w
      BY <3>1 DEF Accepting
    <3>6. ASSUME NEW n \in Ids, UsedUp(n) PROVE UsedUp(n)'
      <4>1. CASE n # m
        <5>1. ~Accepting(w, n)
          BY <4>1 DEF Accepting
        <5>2. QED
          BY <3>1, <3>2, <3>5, <3>6, <5>1 DEF UsedUp
      <4>2. CASE n = m
        BY <3>1, <3>2, <3>5, <3>6, <4>2 DEF UsedUp
      <4>3. QED
        BY <4>1, <4>2
    <3>7. QED
      BY <3>1, <3>2, <3>3, <3>4, <3>5, <3>6 DEF LeaveInv, Typed
  <2>16. CASE DropSecret(w) \/ StageSecret(w) \/ FindPending(w) \/ ConfirmFactor(w)
    <3>1. /\ req[w].op # "accept" /\ req[w].at \in {"idle", "stage", "confirm"}
          /\ UNCHANGED <<role, invites, prefs, mailed, late, joins, rushed>>
      BY <2>16 DEF DropSecret, StageSecret, FindPending, ConfirmFactor, Begin, At, tables, history, LeaveInv
    <3>2. req'[w].op # "accept" /\ \A v \in Workers \ {w} : req'[v] = req[v]
      BY <2>16, BeginsSo, FreeIsARequest DEF DropSecret, StageSecret, FindPending, ConfirmFactor, Done, Typed, Wellformed
    <3>3. QED
      BY <3>1, <3>2, LeaveKept
  <2>17. CASE RequiresFactor(w) \/ VerifyFactor(w) \/ DisableFactor(w)
    <3>1. /\ req[w].op # "accept" /\ req[w].at \in {"idle", "secret", "drop"}
          /\ UNCHANGED <<role, invites, prefs, mailed, late, joins, rushed>>
      BY <2>17 DEF RequiresFactor, VerifyFactor, DisableFactor, Begin, At, tables, history, LeaveInv
    <3>2. req'[w].op # "accept" /\ \A v \in Workers \ {w} : req'[v] = req[v]
      BY <2>17, BeginsSo, FreeIsARequest DEF RequiresFactor, VerifyFactor, DisableFactor, At, Go, Done, Typed, Wellformed, Request
    <3>3. QED
      BY <3>1, <3>2, LeaveKept
  <2>18. QED
    BY <1>3, <2>1, <2>2, <2>3, <2>4, <2>5, <2>6, <2>7, <2>8, <2>9, <2>10, <2>11, <2>12, <2>13,
       <2>14, <2>15, <2>16, <2>17 DEF Step
<1>4. QED
  BY <1>1, <1>2, <1>3 DEF Next

-----------------------------------------------------------------------------

(***************************************************************************)
(* A workspace that exists has an owner, unless two requests met between a *)
(* check and its write (workspaces.rs, assert_not_last_owner).             *)
(***************************************************************************)
THEOREM AnOwnerRemains == Spec => []AlwaysAnOwner
<1>1. Init => Typed /\ OwnersInv
  BY TypedInit, OwnersInit
<1>2. Typed /\ OwnersInv /\ [Next]_vars => (Typed /\ OwnersInv)'
  BY TypedStep, OwnersStep
<1>3. OwnersInv => AlwaysAnOwner
  BY DEF OwnersInv, AlwaysAnOwner
<1>4. QED
  BY <1>1, <1>2, <1>3, PTL DEF Spec

(***************************************************************************)
(* Everybody made an owner carries a confirmed second factor, except by the*)
(* two ways around it (workspaces.rs, update_member; account.rs).          *)
(***************************************************************************)
THEOREM OwnersAreProven == Spec => []OwnersCarryAFactor
<1>1. Init => Typed /\ ProvenInv
  BY TypedInit, ProvenInit
<1>2. Typed /\ ProvenInv /\ [Next]_vars => (Typed /\ ProvenInv)'
  BY TypedStep, ProvenStep
<1>3. ProvenInv => OwnersCarryAFactor
  BY DEF ProvenInv, Proven, OwnersCarryAFactor
<1>4. QED
  BY <1>1, <1>2, <1>3, PTL DEF Spec

(***************************************************************************)
(* Who was removed stays away, unless they followed their link twice at one*)
(* time, and leaves no preferences behind, unless their device was pushing *)
(* some (workspaces.rs, accept_invite and remove_member).                  *)
(***************************************************************************)
THEOREM LeaversAreGone == Spec => []MembersLeaveForGood
<1>1. Init => Typed /\ LeaveInv
  BY TypedInit, LeaveInit
<1>2. Typed /\ LeaveInv /\ [Next]_vars => (Typed /\ LeaveInv)'
  BY TypedStep, LeaveStep
<1>3. LeaveInv => MembersLeaveForGood
  BY DEF LeaveInv, UsedUp, Kept, MembersLeaveForGood
<1>4. QED
  BY <1>1, <1>2, <1>3, PTL DEF Spec

-----------------------------------------------------------------------------
(* How many an invitation makes members                                   *)

\* The requests that may still make a member with this invitation, and those that
\* may have and are to mark it.
Joining(n) == {w \in Workers : Accepting(w, n) /\ req[w].at # "accept"}
Joined(n)  == {w \in Workers : Accepting(w, n) /\ req[w].at = "accept"}

\* Nobody finds an invitation any more once a request has marked it: until then
\* whoever joined by it is at work.
JoinsCounted ==
  \A n \in Ids :
    /\ joins[n] + Cardinality(Joining(n)) <= Cardinality(Workers)
    /\ (\E i \in invites : i.n = n /\ ~i.used) => joins[n] <= Cardinality(Joined(n))

RestTyped ==
  /\ local \in BOOLEAN /\ late \subseteq People /\ mailed \subseteq Ids /\ rushed \subseteq Ids
  /\ \A w \in Workers : /\ req[w].n \in 0..MaxInvites
                        /\ req[w].at = "mail" => req[w].n \in Ids

LEMMA FitTogether ==
  ASSUME NEW S, IsFiniteSet(S), NEW A, A \subseteq S, NEW B, B \subseteq S, A \cap B = {}
  PROVE  /\ IsFiniteSet(A) /\ IsFiniteSet(B)
         /\ Cardinality(S) \in Nat /\ Cardinality(A) \in Nat /\ Cardinality(B) \in Nat
         /\ Cardinality(A) + Cardinality(B) <= Cardinality(S)
<1>1. /\ IsFiniteSet(A) /\ IsFiniteSet(B)
      /\ Cardinality(S) \in Nat /\ Cardinality(A) \in Nat /\ Cardinality(B) \in Nat
  BY FS_Subset, FS_CardinalityType
<1>2. Cardinality(A \cap B) = 0
  BY FS_EmptySet
<1>3. Cardinality(A \cup B) = Cardinality(A) + Cardinality(B) - Cardinality(A \cap B)
  BY <1>1, FS_Union
<1>4. Cardinality(A \cup B) <= Cardinality(S)
  BY FS_Subset
<1> QED BY <1>1, <1>2, <1>3, <1>4

LEMMA AtWorkAreFew ==
  ASSUME NEW n
  PROVE  /\ Cardinality(Workers) \in Nat
         /\ IsFiniteSet(Joining(n)) /\ Cardinality(Joining(n)) \in Nat
         /\ IsFiniteSet(Joined(n)) /\ Cardinality(Joined(n)) \in Nat
<1>1. /\ Joining(n) \subseteq Workers /\ Joined(n) \subseteq Workers
      /\ Joining(n) \cap Joined(n) = {}
  BY DEF Joining, Joined
<1> QED BY <1>1, FitTogether, MembersAssumption

LEMMA AtWorkAreFewThen ==
  ASSUME NEW n
  PROVE  /\ Cardinality(Workers) \in Nat /\ Cardinality(Joining(n)') \in Nat
         /\ Cardinality(Joined(n)') \in Nat
         /\ Cardinality(Joining(n)') + Cardinality(Joined(n)') <= Cardinality(Workers)
<1>1. /\ Joining(n)' \subseteq Workers /\ Joined(n)' \subseteq Workers
      /\ Joining(n)' \cap Joined(n)' = {}
  BY DEF Joining, Joined
<1> QED BY <1>1, FitTogether, MembersAssumption

\* A step that makes nobody a member and accepts nothing.
LEMMA JoinsKept ==
  ASSUME Typed, LeaveInv, JoinsCounted, joins' = joins,
         \A n \in Ids : Joining(n)' \subseteq Joining(n),
         \A n \in Ids : (\E i \in invites' : i.n = n /\ ~i.used) =>
           \/ joins[n] = 0
           \/ /\ \E i \in invites : i.n = n /\ ~i.used
              /\ Joined(n) \subseteq Joined(n)'
  PROVE  JoinsCounted'
<1> SUFFICES ASSUME NEW n \in Ids
             PROVE  /\ joins'[n] + Cardinality(Joining(n)') <= Cardinality(Workers)
                    /\ (\E i \in invites' : i.n = n /\ ~i.used) =>
                          joins'[n] <= Cardinality(Joined(n)')
  BY DEF JoinsCounted
<1>1. joins'[n] = joins[n] /\ joins[n] \in Nat
  BY DEF LeaveInv
<1>2. /\ Cardinality(Workers) \in Nat /\ Cardinality(Joining(n)) \in Nat
      /\ IsFiniteSet(Joining(n)) /\ Cardinality(Joined(n)) \in Nat
  BY AtWorkAreFew
<1>3. Cardinality(Joining(n)') \in Nat /\ Cardinality(Joining(n)') <= Cardinality(Joining(n))
  BY <1>2, FS_Subset, FS_CardinalityType
<1>4. IsFiniteSet(Joined(n)') /\ Cardinality(Joined(n)') \in Nat
  <2>1. Joined(n)' \subseteq Workers
    BY DEF Joined
  <2> QED BY <2>1, MembersAssumption, FS_Subset, FS_CardinalityType
<1>5. ASSUME \E i \in invites' : i.n = n /\ ~i.used PROVE joins[n] <= Cardinality(Joined(n)')
  <2>1. CASE joins[n] = 0
    BY <1>4, <2>1
  <2>2. CASE (\E i \in invites : i.n = n /\ ~i.used) /\ Joined(n) \subseteq Joined(n)'
    <3>1. Cardinality(Joined(n)) <= Cardinality(Joined(n)')
      BY <1>4, <2>2, FS_Subset
    <3>2. joins[n] <= Cardinality(Joined(n))
      BY <2>2 DEF JoinsCounted
    <3> QED BY <1>1, <1>2, <1>4, <3>1, <3>2
  <2> QED BY <1>5, <2>1, <2>2
<1>6. joins[n] + Cardinality(Joining(n)) <= Cardinality(Workers)
  BY DEF JoinsCounted
<1> QED BY <1>1, <1>2, <1>3, <1>5, <1>6

\* Who neither invites nor accepts leaves the invitations' requests as they are.
LEMMA Elsewhere ==
  ASSUME Typed, NEW w \in Workers, \A v \in Workers \ {w} : req'[v] = req[v],
         req[w].op # "accept", req'[w].op # "accept", NEW n
  PROVE  Joining(n)' = Joining(n) /\ Joined(n)' = Joined(n)
BY DEF Joining, Joined, Accepting

LEMMA NotAccepting ==
  ASSUME Typed, LeaveInv, NEW w \in Workers, Step(w),
         ~FindInvite(w), ~BelongsAlready(w), ~AddMember(w), ~AcceptInvite(w), ~Insert(w)
  PROVE  /\ req[w].op # "accept" /\ req'[w].op # "accept"
         /\ \A v \in Workers \ {w} : req'[v] = req[v]
         /\ joins' = joins /\ invites' \subseteq invites
<1>1. CASE Gate(w)
  <2>1. PICK a \in Request : req' = [req EXCEPT ![w] = a] /\ a.op # "accept"
    BY <1>1, GateAsks
  <2>2. req[w].at = "idle" /\ joins' = joins /\ invites' = invites
    BY <1>1 DEF Gate, Begin, tables, history
  <2> QED BY <2>1, <2>2 DEF LeaveInv, Typed, Wellformed
<1>2. CASE Claim(w)
  <2>1. req[w].at = "idle" /\ joins' = joins /\ invites' = invites
    BY <1>2 DEF Claim, history
  <2>2. req' = req \/ (req'[w].op = "create" /\ \A v \in Workers \ {w} : req'[v] = req[v])
    BY <1>2, BeginsSo DEF Claim
  <2> QED BY <2>1, <2>2 DEF LeaveInv
<1>3. CASE CreateWorkspace(w) \/ UpdateRole(w) \/ ForgetPreferences(w) \/ PushPreference(w)
           \/ EnqueueMail(w) \/ RevokeInvite(w) \/ StageSecret(w) \/ ConfirmFactor(w)
           \/ DisableFactor(w)
  <2>1. Done(w) /\ req[w].op # "accept" /\ joins' = joins /\ invites' \subseteq invites
    BY <1>3 DEF CreateWorkspace, UpdateRole, ForgetPreferences, PushPreference, EnqueueMail,
                RevokeInvite, StageSecret, ConfirmFactor, DisableFactor, At, history
  <2> QED BY <2>1, FreeIsARequest DEF Done, Typed, Wellformed
<1>4. CASE IsMember(w) \/ HasFactor(w) \/ Owns(w) \/ CountOwners(w) \/ VerifyFactor(w)
           \/ RemoveMember(w) \/ ClearPending(w)
  <2>1. /\ Done(w) \/ \E at : Go(w, at)
        /\ joins' = joins /\ invites' \subseteq invites
    BY <1>4 DEF IsMember, HasFactor, Owns, CountOwners, VerifyFactor, RemoveMember,
                ClearPending, tables, history
  <2>2. req[w].op # "accept"
    BY <1>4 DEF IsMember, HasFactor, Owns, CountOwners, VerifyFactor, RemoveMember,
                ClearPending, At, LeaveInv
  <2> QED BY <2>1, <2>2, FreeIsARequest DEF Done, Go, Typed, Wellformed, Request
<1>5. CASE DropSecret(w) \/ FindPending(w) \/ RequiresFactor(w)
  <2>1. PICK op \in {"enrol", "confirm", "disable"}, at \in Steps, p \in People :
          Begin(w, op, at, p) /\ joins' = joins /\ invites' = invites
    BY <1>5 DEF DropSecret, FindPending, RequiresFactor, tables, history, Steps
  <2>2. req[w].op # "accept"
    BY <2>1 DEF Begin, LeaveInv
  <2> QED BY <2>1, <2>2, BeginsSo
<1> QED BY <1>1, <1>2, <1>3, <1>4, <1>5 DEF Step

LEMMA JoinsStep ==
  ASSUME Typed, Typed', LeaveInv, LeaveInv', JoinsCounted, [Next]_vars
  PROVE  JoinsCounted'
<1>1. CASE UNCHANGED vars
  BY <1>1 DEF vars, JoinsCounted, Joining, Joined, Accepting
<1>2. CASE Expire
  <2>1. \A i \in invites' : \E j \in invites : j.n = i.n /\ j.used = i.used
    BY <1>2 DEF Expire, Typed, Invite
  <2>2. UNCHANGED <<req, joins>>
    BY <1>2 DEF Expire, history
  <2>3. \A n \in Ids : Joining(n)' = Joining(n) /\ Joined(n)' = Joined(n)
    BY <2>2 DEF Joining, Joined, Accepting
  <2> QED BY <2>1, <2>2, <2>3, JoinsKept
<1>3. ASSUME NEW w \in Workers, Step(w) PROVE JoinsCounted'
  <2>1. CASE Insert(w)
    <3>1. req[w].op = "invite" /\ joins' = joins
      BY <2>1 DEF Insert, At, history
    <3>2. CASE UNCHANGED invites /\ Done(w)
      <4>1. req'[w].op # "accept" /\ \A v \in Workers \ {w} : req'[v] = req[v]
        BY <3>2, FreeIsARequest DEF Done, Typed, Wellformed
      <4>2. \A n \in Ids : Joining(n)' = Joining(n) /\ Joined(n)' = Joined(n)
        BY <3>1, <4>1, Elsewhere
      <4> QED BY <3>1, <3>2, <4>2, JoinsKept
    <3>3. ASSUME NEW m \in Ids \ Made,
                 invites' = invites \cup {[n |-> m, email |-> req[w].on, role |-> req[w].role,
                                           used |-> FALSE, expired |-> FALSE]},
                 req' = [req EXCEPT ![w].at = "mail", ![w].n = m]
          PROVE  JoinsCounted'
      <4>1. req' = [req EXCEPT ![w] = [@ EXCEPT !.at = "mail", !.n = m]]
        BY <3>3
      <4>2. req'[w].op # "accept" /\ \A v \in Workers \ {w} : req'[v] = req[v]
        BY <3>1, <4>1 DEF Typed, Wellformed, Request
      <4>3. joins[m] = 0
        <5>1. ~Issued(m)
          BY <3>3 DEF Made, Issued, At
        <5> QED BY <3>3, <5>1 DEF LeaveInv
      <4>4. \A n \in Ids : Joining(n)' = Joining(n) /\ Joined(n)' = Joined(n)
        BY <3>1, <4>2, Elsewhere
      <4>5. \A i \in invites' : i \in invites \/ i.n = m
        BY <3>3
      <4> QED BY <3>1, <4>3, <4>4, <4>5, JoinsKept
    <3> QED BY <2>1, <3>2, <3>3 DEF Insert
  <2>2. CASE FindInvite(w)
    <3>1. PICK i \in invites :
            /\ ~i.used
            /\ req'[w].op = "accept" /\ req'[w].at = "role" /\ req'[w].n = i.n
            /\ \A v \in Workers \ {w} : req'[v] = req[v]
      BY <2>2, InviteFoundSo
    <3>2. req[w].op # "accept" /\ invites' = invites /\ joins' = joins
      BY <2>2 DEF FindInvite, tables, LeaveInv
    <3>3. ASSUME NEW n \in Ids
          PROVE  /\ Joined(n)' = Joined(n)
                 /\ n # i.n => Joining(n)' = Joining(n)
      BY <3>1, <3>2 DEF Joining, Joined, Accepting
    <3>4. ASSUME NEW n \in Ids
          PROVE  /\ joins'[n] + Cardinality(Joining(n)') <= Cardinality(Workers)
                 /\ (\E j \in invites' : j.n = n /\ ~j.used) =>
                       joins'[n] <= Cardinality(Joined(n)')
      <4>1. /\ Cardinality(Workers) \in Nat /\ Cardinality(Joining(n)') \in Nat
            /\ Cardinality(Joined(n)') \in Nat
            /\ Cardinality(Joining(n)') + Cardinality(Joined(n)') <= Cardinality(Workers)
        BY AtWorkAreFewThen
      <4>2. (\E j \in invites : j.n = n /\ ~j.used) => joins[n] <= Cardinality(Joined(n)')
        BY <3>3 DEF JoinsCounted
      <4>3. joins'[n] = joins[n] /\ joins[n] \in Nat
        BY <3>2 DEF LeaveInv
      <4>4. CASE n = i.n
        <5>1. joins[n] <= Cardinality(Joined(n)')
          BY <3>1, <4>2, <4>4
        <5> QED BY <3>2, <4>1, <4>3, <5>1
      <4>5. CASE n # i.n
        <5>1. joins[n] + Cardinality(Joining(n)') <= Cardinality(Workers)
          BY <3>3, <4>5 DEF JoinsCounted
        <5> QED BY <3>2, <4>2, <4>3, <5>1
      <4> QED BY <4>4, <4>5
    <3> QED BY <3>4 DEF JoinsCounted
  <2>3. CASE BelongsAlready(w)
    <3>1. /\ req[w].op = "accept" /\ req[w].at = "role"
          /\ req'[w].op = "accept" /\ req'[w].at \in {"add", "accept"} /\ req'[w].n = req[w].n
          /\ \A v \in Workers \ {w} : req'[v] = req[v]
          /\ invites' = invites /\ joins' = joins
      BY <2>3 DEF BelongsAlready, At, Go, tables, history, Typed, Wellformed, Request
    <3>2. \A n \in Ids : Joining(n)' \subseteq Joining(n) /\ Joined(n) \subseteq Joined(n)'
      BY <3>1 DEF Joining, Joined, Accepting
    <3> QED BY <3>1, <3>2, JoinsKept
  <2>4. CASE AddMember(w)
    <3>1. /\ req[w].op = "accept" /\ req[w].at = "add"
          /\ req'[w].op = "accept" /\ req'[w].at = "accept" /\ req'[w].n = req[w].n
          /\ \A v \in Workers \ {w} : req'[v] = req[v]
          /\ invites' = invites
      BY <2>4 DEF AddMember, At, Go, Typed, Wellformed, Request
    <3>2. joins' \in {joins, [joins EXCEPT ![req[w].n] = @ + 1]}
      BY <2>4 DEF AddMember
    <3>3. ASSUME NEW n \in Ids
          PROVE  /\ joins'[n] + Cardinality(Joining(n)') <= Cardinality(Workers)
                 /\ (\E j \in invites' : j.n = n /\ ~j.used) =>
                       joins'[n] <= Cardinality(Joined(n)')
      <4>1. /\ Cardinality(Workers) \in Nat /\ IsFiniteSet(Joining(n))
            /\ Cardinality(Joining(n)) \in Nat /\ Cardinality(Joined(n)) \in Nat
            /\ IsFiniteSet(Joined(n))
        BY AtWorkAreFew
      <4>2. /\ joins[n] \in Nat /\ joins[n] + Cardinality(Joining(n)) <= Cardinality(Workers)
            /\ (\E j \in invites' : j.n = n /\ ~j.used) => joins[n] <= Cardinality(Joined(n))
        BY <3>1 DEF LeaveInv, JoinsCounted
      <4>3. CASE n = req[w].n
        <5>1. w \in Joining(n) /\ Joining(n)' = Joining(n) \ {w}
              /\ w \notin Joined(n) /\ Joined(n)' = Joined(n) \cup {w}
          BY <3>1, <4>3 DEF Joining, Joined, Accepting
        <5>2. Cardinality(Joining(n)') = Cardinality(Joining(n)) - 1
          BY <4>1, <5>1, FS_RemoveElement
        <5>3. Cardinality(Joined(n)') = Cardinality(Joined(n)) + 1
          BY <4>1, <5>1, FS_AddElement
        <5>4. joins'[n] \in Nat /\ joins'[n] <= joins[n] + 1
          BY <3>2, <4>2, <4>3 DEF LeaveInv
        <5>5. joins'[n] + Cardinality(Joining(n)') <= Cardinality(Workers)
          BY <4>1, <4>2, <5>2, <5>4
        <5>6. joins[n] <= Cardinality(Joined(n)) => joins'[n] <= Cardinality(Joined(n)')
          BY <4>1, <4>2, <5>3, <5>4
        <5> QED BY <4>2, <5>5, <5>6
      <4>4. CASE n # req[w].n
        <5>1. Joining(n)' = Joining(n) /\ Joined(n)' = Joined(n)
          BY <3>1, <4>4 DEF Joining, Joined, Accepting
        <5>2. joins'[n] = joins[n]
          BY <3>2, <4>4 DEF LeaveInv
        <5> QED BY <4>2, <5>1, <5>2
      <4> QED BY <4>3, <4>4
    <3> QED BY <3>3 DEF JoinsCounted
  <2>5. CASE AcceptInvite(w)
    <3>1. /\ req[w].op = "accept" /\ req'[w].op = "none"
          /\ \A v \in Workers \ {w} : req'[v] = req[v]
          /\ joins' = joins
      BY <2>5, FreeIsARequest DEF AcceptInvite, At, Done, history, Typed, Wellformed
    <3>2. \A i \in invites' : /\ i.n = req[w].n => i.used
                              /\ \E j \in invites : j.n = i.n /\ (j.used => i.used)
      BY <2>5 DEF AcceptInvite, Typed, Invite
    <3>3. \A n \in Ids : /\ Joining(n)' \subseteq Joining(n)
                         /\ n # req[w].n => Joined(n) \subseteq Joined(n)'
      BY <3>1 DEF Joining, Joined, Accepting
    <3> QED BY <3>1, <3>2, <3>3, JoinsKept
  <2>6. CASE /\ ~FindInvite(w) /\ ~BelongsAlready(w) /\ ~AddMember(w) /\ ~AcceptInvite(w)
             /\ ~Insert(w)
    <3>1. /\ req[w].op # "accept" /\ req'[w].op # "accept"
          /\ \A v \in Workers \ {w} : req'[v] = req[v]
          /\ joins' = joins /\ invites' \subseteq invites
      BY <1>3, <2>6, NotAccepting
    <3>2. \A n \in Ids : Joining(n)' = Joining(n) /\ Joined(n)' = Joined(n)
      BY <3>1, Elsewhere
    <3> QED BY <3>1, <3>2, JoinsKept
  <2> QED BY <2>1, <2>2, <2>3, <2>4, <2>5, <2>6
<1> QED BY <1>1, <1>2, <1>3 DEF Next

LEMMA GateNumbers ==
  ASSUME Typed, NEW w \in Workers, Gate(w)
  PROVE  /\ \A v \in Workers \ {w} : req'[v] = req[v]
         /\ req'[w].n \in 0..MaxInvites /\ req'[w].at # "mail"
<1>1. PICK a \in Request : /\ req' = [req EXCEPT ![w] = a]
                           /\ a.at \in {"member", "clear", "revoke", "push"}
  BY GateAsks
<1>2. req'[w] = a /\ \A v \in Workers \ {w} : req'[v] = req[v]
  BY <1>1 DEF Typed, Wellformed
<1>3. req'[w].n \in {0} \cup Made
  <2>0. \A x : req' = [req EXCEPT ![w] = x] => req'[w] = x
    BY DEF Typed, Wellformed
  <2>1. \/ \E q \in People, r \in Roles :
             req'[w] = [Free EXCEPT !.op = "update", !.at = "member", !.on = q, !.role = r]
        \/ \E q \in People : req'[w] = [Free EXCEPT !.op = "remove", !.at = "member", !.on = q]
        \/ \E q \in People, r \in Lesser :
             req'[w] = [Free EXCEPT !.op = "invite", !.at = "clear", !.on = q, !.role = r]
        \/ \E n \in Made :
             req'[w] = [Free EXCEPT !.op = "revoke", !.at = "revoke", !.n = n]
        \/ \E p \in Keepers :
             req'[w] = [Free EXCEPT !.op = "push", !.at = "push", !.by = p]
    BY <2>0 DEF Gate, Begin
  <2>2. Free.n = 0 /\ DOMAIN Free = {"op", "at", "by", "on", "role", "n"}
    BY DEF Free
  <2> QED BY <2>1, <2>2
<1> QED BY <1>1, <1>2, <1>3, MembersAssumption DEF Made, Ids

LEMMA RestStep ==
  ASSUME Typed, Typed', RestTyped, [Next]_vars
  PROVE  RestTyped'
<1>1. CASE UNCHANGED vars \/ Expire
  BY <1>1 DEF vars, Expire, history, RestTyped
<1>2. ASSUME NEW w \in Workers, Step(w) PROVE RestTyped'
  <2>0. MaxInvites \in Nat /\ 0 \in 0..MaxInvites /\ Ids \subseteq 0..MaxInvites
    BY MembersAssumption DEF Ids
  <2>1. Free.n = 0 /\ Free.at # "mail"
    BY FreeIsARequest DEF Free
  <2>2. local' \in BOOLEAN
    BY <1>2 DEF Step, RestTyped, Gate, Claim, CreateWorkspace, IsMember, HasFactor, Owns,
       CountOwners, UpdateRole, RemoveMember, ForgetPreferences, PushPreference, ClearPending,
       Insert, EnqueueMail, RevokeInvite, FindInvite, BelongsAlready, AddMember, AcceptInvite,
       DropSecret, StageSecret, FindPending, ConfirmFactor, RequiresFactor, VerifyFactor,
       DisableFactor, tables, history
  <2>3. late' \subseteq People
    <3>1. req[w].by \in People
      BY DEF Typed, Wellformed, Request
    <3>2. late' = late \/ late' = late \cup {req[w].by}
      BY <1>2 DEF Step, Gate, Claim, CreateWorkspace, IsMember, HasFactor, Owns,
         CountOwners, UpdateRole, RemoveMember, ForgetPreferences, PushPreference, ClearPending,
         Insert, EnqueueMail, RevokeInvite, FindInvite, BelongsAlready, AddMember, AcceptInvite,
         DropSecret, StageSecret, FindPending, ConfirmFactor, RequiresFactor, VerifyFactor,
         DisableFactor, tables, history
    <3> QED BY <3>1, <3>2 DEF RestTyped
  <2>4. mailed' \subseteq Ids
    <3>1. CASE EnqueueMail(w)
      BY <3>1 DEF EnqueueMail, At, RestTyped
    <3>2. CASE ~EnqueueMail(w)
      BY <1>2, <3>2 DEF Step, RestTyped, Gate, Claim, CreateWorkspace, IsMember, HasFactor, Owns,
         CountOwners, UpdateRole, RemoveMember, ForgetPreferences, PushPreference, ClearPending,
         Insert, RevokeInvite, FindInvite, BelongsAlready, AddMember, AcceptInvite,
         DropSecret, StageSecret, FindPending, ConfirmFactor, RequiresFactor, VerifyFactor,
         DisableFactor, tables, history
    <3> QED BY <3>1, <3>2
  <2>5. rushed' \subseteq Ids
    <3>1. CASE FindInvite(w)
      BY <3>1, InviteFoundSo DEF Typed, Invite, RestTyped
    <3>2. CASE ~FindInvite(w)
      BY <1>2, <3>2 DEF Step, RestTyped, Gate, Claim, CreateWorkspace, IsMember, HasFactor, Owns,
         CountOwners, UpdateRole, RemoveMember, ForgetPreferences, PushPreference, ClearPending,
         Insert, EnqueueMail, RevokeInvite, BelongsAlready, AddMember, AcceptInvite,
         DropSecret, StageSecret, FindPending, ConfirmFactor, RequiresFactor, VerifyFactor,
         DisableFactor, tables, history
    <3> QED BY <3>1, <3>2
  <2>6. /\ \A v \in Workers \ {w} : req'[v] = req[v]
        /\ req'[w].n \in 0..MaxInvites /\ (req'[w].at = "mail" => req'[w].n \in Ids)
    <3>0. req[w] \in Request /\ req[w].n \in 0..MaxInvites
          /\ (req[w].at = "mail" => req[w].n \in Ids)
      BY DEF Typed, Wellformed, RestTyped
    <3>1. CASE Gate(w)
      BY <3>1, GateNumbers
    <3>2. CASE Insert(w)
      <4>1. CASE Done(w)
        BY <2>0, <2>1, <4>1 DEF Done, Typed, Wellformed
      <4>2. ASSUME NEW m \in Ids, req' = [req EXCEPT ![w].at = "mail", ![w].n = m]
            PROVE  req'[w].n = m /\ \A v \in Workers \ {w} : req'[v] = req[v]
        <5>1. req' = [req EXCEPT ![w] = [@ EXCEPT !.at = "mail", !.n = m]]
          BY <4>2
        <5> QED BY <3>0, <5>1 DEF Typed, Wellformed, Request
      <4> QED BY <2>0, <3>2, <4>1, <4>2 DEF Insert
    <3>3. CASE FindInvite(w)
      BY <2>0, <3>3, InviteFoundSo DEF Typed, Invite
    <3>4. CASE Claim(w) \/ DropSecret(w) \/ FindPending(w) \/ RequiresFactor(w)
      <4>1. req' = req \/ \E op : \E at \in Steps \ {"mail"} : \E p : Begin(w, op, at, p)
        <5>1. CASE Claim(w)
          BY <5>1 DEF Claim, Steps
        <5>2. CASE DropSecret(w)
          BY <5>2 DEF DropSecret, Steps
        <5>3. CASE FindPending(w)
          BY <5>3 DEF FindPending, Steps
        <5>4. CASE RequiresFactor(w)
          BY <5>4 DEF RequiresFactor, Steps
        <5> QED BY <3>4, <5>1, <5>2, <5>3, <5>4
      <4>2. ASSUME NEW op, NEW at \in Steps \ {"mail"}, NEW p, Begin(w, op, at, p)
            PROVE  /\ req'[w].n = 0 /\ req'[w].at # "mail"
                   /\ \A v \in Workers \ {w} : req'[v] = req[v]
        BY <4>2, <2>1, FreeIsARequest DEF Begin, Typed, Wellformed, Request
      <4> QED BY <2>0, <3>0, <4>1, <4>2
    <3>5. CASE ~Gate(w) /\ ~Insert(w) /\ ~FindInvite(w) /\ ~Claim(w) /\ ~DropSecret(w)
               /\ ~FindPending(w) /\ ~RequiresFactor(w)
      <4>1. Done(w) \/ \E at \in Steps \ {"mail"} : Go(w, at)
        BY <1>2, <3>5 DEF Step, CreateWorkspace, IsMember, HasFactor, Owns,
           CountOwners, UpdateRole, RemoveMember, ForgetPreferences, PushPreference,
           ClearPending, EnqueueMail, RevokeInvite, BelongsAlready, AddMember, AcceptInvite,
           StageSecret, ConfirmFactor, VerifyFactor, DisableFactor, Steps
      <4> QED BY <2>0, <2>1, <3>0, <4>1 DEF Done, Go, Typed, Wellformed, Request
    <3> QED BY <3>1, <3>2, <3>3, <3>4, <3>5
  <2> QED BY <2>2, <2>3, <2>4, <2>5, <2>6 DEF RestTyped
<1> QED BY <1>1, <1>2 DEF Next

MembersInv == Typed /\ LeaveInv /\ JoinsCounted /\ RestTyped

LEMMA MembersInit == Init => MembersInv
<1> SUFFICES ASSUME Init PROVE MembersInv
  OBVIOUS
<1>1. Typed /\ LeaveInv
  BY TypedInit, LeaveInit
<1>2. JoinsCounted
  <2>1. ASSUME NEW n \in Ids
        PROVE  joins[n] + Cardinality(Joining(n)) <= Cardinality(Workers)
    <3>1. Joining(n) = {} /\ joins[n] = 0
      BY <2>1, FreeIsARequest DEF Init, Joining, Accepting
    <3>2. Cardinality(Joining(n)) = 0 /\ Cardinality(Workers) \in Nat
      BY <3>1, FS_EmptySet, AtWorkAreFew
    <3> QED BY <3>1, <3>2
  <2> QED BY <2>1 DEF Init, JoinsCounted
<1>3. RestTyped
  BY MembersAssumption, FreeIsARequest DEF Init, RestTyped, Free, Ids
<1> QED BY <1>1, <1>2, <1>3 DEF MembersInv

LEMMA MembersNext == MembersInv /\ [Next]_vars => MembersInv'
<1> SUFFICES ASSUME MembersInv, [Next]_vars PROVE MembersInv'
  OBVIOUS
<1>1. Typed'
  BY TypedStep DEF MembersInv
<1>2. LeaveInv'
  BY <1>1, LeaveStep DEF MembersInv
<1> QED BY <1>1, <1>2, JoinsStep, RestStep DEF MembersInv

LEMMA MembersTyped == MembersInv => MembersTypeOK
<1> SUFFICES ASSUME MembersInv PROVE MembersTypeOK
  OBVIOUS
<1>1. ASSUME NEW n \in Ids PROVE joins[n] \in 0..Cardinality(Workers)
  <2>1. /\ joins[n] \in Nat /\ Cardinality(Joining(n)) \in Nat /\ Cardinality(Workers) \in Nat
        /\ joins[n] + Cardinality(Joining(n)) <= Cardinality(Workers)
    BY AtWorkAreFew DEF MembersInv, LeaveInv, JoinsCounted
  <2> QED BY <2>1
<1>2. joins \in [Ids -> 0..Cardinality(Workers)]
  BY <1>1 DEF MembersInv, LeaveInv
<1>3. req \in [Workers -> [op : Operations, at : Steps, by : People, on : People,
                           role : Roles, n : 0..MaxInvites]]
  BY DEF MembersInv, Typed, Wellformed, RestTyped, Request
<1> QED
  BY <1>2, <1>3 DEF MembersInv, Typed, RestTyped, LeaveInv, MembersTypeOK, Invite, Operations, Steps

(***************************************************************************)
(* Every value is of its kind; above all, an invitation makes no more      *)
(* members than the requests that could follow it at one time, since the   *)
(* first of them to end marks it (workspaces.rs, accept_invite).           *)
(***************************************************************************)
THEOREM MembersTypes == Spec => []MembersTypeOK
  BY MembersInit, MembersNext, MembersTyped, PTL DEF Spec

-----------------------------------------------------------------------------
(* The second factor *)

FactorSteps == {"idle", "challenge", "secret", "recover", "count", "record", "forget", "issue",
                "stage", "confirm", "codes", "drop", "dropcodes"}
FactorJob ==
  [op : {"none", "login", "totp", "enrol", "confirm", "disable", "renew"}, at : FactorSteps,
   ch : 0..MaxChallenges, code : F!Codes]
Secrets == [id : 0..MaxSecrets, confirmed : BOOLEAN, last : F!Steps \cup {F!Never}]
SignIn == [n : 1..MaxChallenges, attempts : Nat]

FactorTyped ==
  /\ now \in 0..MaxStep /\ secret \in Secrets
  /\ enrolled \in 0..MaxSecrets /\ sets \in 0..MaxSets /\ opened \in 0..MaxChallenges
  /\ codes \subseteq F!RecoveryCodes /\ challenges \subseteq SignIn
  /\ job \in [Workers -> FactorJob]
  /\ accepted \in [F!Codes -> Nat] /\ proven \subseteq 1..MaxSecrets /\ overlapped \in BOOLEAN

\* The codes there are: of secrets that were generated and sets that were issued.
Known ==
  {c \in F!TotpCodes : c.of <= enrolled} \cup {c \in F!RecoveryCodes : c.of <= sets} \cup {F!Wrong}

\* The code of this request is verified and not written down; a code is being
\* spent by this one, or it was spent.
Verified(w) == job[w].at \in {"record", "confirm"}
Holds(w, c) == job[w].at \in {"forget", "issue"} /\ job[w].code = c
Spent(c)    == accepted[c] # 0 \/ \E w \in Workers : Holds(w, c)

SecretIsKnown ==
  secret.id <= enrolled /\ (secret.confirmed => secret.id # 0 /\ secret.last # F!Never)

\* Nobody has a code of a secret or of a set that does not exist yet.
CodesAreKnown ==
  /\ codes \subseteq Known /\ SecretIsKnown
  /\ \A w \in Workers : job[w].code \in Known /\ (Verified(w) => job[w].code \in F!TotpCodes)
  /\ \A c \in F!Codes : accepted[c] # 0 => c \in Known

\* What is still on the sheet was not used.
UnusedAreUnspent == \A c \in codes : ~Spent(c)

Once(c) ==
  /\ accepted[c] <= 1
  /\ \A w \in Workers : Holds(w, c) =>
       accepted[c] = 0 /\ \A v \in Workers : Holds(v, c) => v = w

CodesWorkOnce ==
  /\ \A c \in F!RecoveryCodes : Once(c)
  /\ ~overlapped => \A c \in F!TotpCodes : Once(c)

\* While no two requests had a verified code in hand at once: the code in hand
\* was not spent, and is of a later step than any of the secret's that was.
Alone == \A w, v \in Workers : Verified(w) /\ Verified(v) => w = v
RecordsAreLater ==
  \A w \in Workers : job[w].at = "record" =>
    /\ ~Spent(job[w].code)
    /\ secret.confirmed <=> job[w].code.of = secret.id
    /\ secret.confirmed => job[w].code.k > secret.last
ConfirmsAreFirst ==
  \A w \in Workers : job[w].at = "confirm" =>
    job[w].code.of \in proven /\ (job[w].code.of = secret.id => ~secret.confirmed)
SpentAreBehind ==
  \A c \in F!TotpCodes : Spent(c) /\ c.of = secret.id => secret.confirmed /\ c.k <= secret.last

InTurn ==
  ~overlapped => /\ Alone /\ RecordsAreLater /\ ConfirmsAreFirst /\ SpentAreBehind
                 /\ secret.confirmed => secret.id \in proven

FactorInv ==
  FactorTyped /\ CodesAreKnown /\ UnusedAreUnspent /\ CodesWorkOnce /\ InTurn

-----------------------------------------------------------------------------

\* Codes are of one kind, and a step of the clock is a number.
LEMMA CodeFacts ==
  ASSUME F!SecondFactorAssumption
  PROVE  /\ F!TotpCodes \cap F!RecoveryCodes = {}
         /\ F!Wrong \notin F!TotpCodes /\ F!Wrong \notin F!RecoveryCodes /\ F!Wrong \in F!Codes
         /\ F!TotpCodes \subseteq F!Codes /\ F!RecoveryCodes \subseteq F!Codes
         /\ \A c \in F!TotpCodes : c.kind = "totp" /\ c.of \in 1..MaxSecrets /\ c.k \in F!Steps
         /\ \A c \in F!RecoveryCodes : c.kind = "recovery" /\ c.of \in 1..MaxSets
         /\ F!Wrong.kind = "wrong" /\ F!Codes = F!TotpCodes \cup F!RecoveryCodes \cup {F!Wrong}
         /\ F!Steps \subseteq Nat /\ F!Never \in Nat /\ F!Never \notin F!Steps
  BY DEF F!SecondFactorAssumption, F!TotpCodes, F!RecoveryCodes, F!Wrong, F!Codes, F!Steps, F!Never

LEMMA FreeIsAJob == ASSUME F!SecondFactorAssumption PROVE F!Free \in FactorJob
  BY CodeFacts DEF F!Free, FactorJob, FactorSteps, F!SecondFactorAssumption

LEMMA NoSecretIsOne == ASSUME F!SecondFactorAssumption PROVE F!NoSecret \in Secrets
  BY DEF F!NoSecret, Secrets, F!SecondFactorAssumption

LEMMA FactorInit ==
  ASSUME F!SecondFactorAssumption, F!Init
  PROVE  FactorInv
<1> USE DEF F!Init
<1>0. FactorTyped
  <2>1. /\ 0 \in 0..MaxStep /\ 0 \in 0..MaxSecrets /\ 0 \in 0..MaxSets /\ 0 \in 0..MaxChallenges
        /\ 0 \in Nat
    BY DEF F!SecondFactorAssumption
  <2>2. job \in [Workers -> FactorJob] /\ accepted \in [F!Codes -> Nat]
    BY FreeIsAJob
  <2> QED BY <2>1, <2>2, NoSecretIsOne DEF FactorTyped
<1>1. \A w \in Workers : job[w].at = "idle" /\ job[w].code = F!Wrong
  BY DEF F!Free
<1>2. \A c \in F!Codes : ~Spent(c) /\ Once(c)
  BY <1>1 DEF Spent, Holds, Once
<1>3. CodesAreKnown
  BY <1>1, F!SecondFactorAssumption DEF CodesAreKnown, SecretIsKnown, Known, Verified, F!NoSecret
<1>4. UnusedAreUnspent
  BY DEF UnusedAreUnspent
<1>5. CodesWorkOnce
  BY <1>2, CodeFacts DEF CodesWorkOnce
<1>6. InTurn
  BY <1>1, <1>2, CodeFacts
  DEF InTurn, Alone, RecordsAreLater, ConfirmsAreFirst, SpentAreBehind, Verified, F!NoSecret
<1> QED BY <1>0, <1>3, <1>4, <1>5, <1>6 DEF FactorInv

-----------------------------------------------------------------------------

OthersWork(w) == \A v \in Workers \ {w} : job'[v] = job[v]

\* A request that moves on, one that is over, and one that begins.
LEMMA FactorMoves ==
  ASSUME FactorTyped, NEW w \in Workers, NEW at \in FactorSteps, F!Go(w, at)
  PROVE  /\ job' \in [Workers -> FactorJob] /\ OthersWork(w) /\ job'[w].at = at
         /\ job'[w].code = job[w].code /\ job'[w].op = job[w].op /\ job'[w].ch = job[w].ch
  BY DEF FactorTyped, F!Go, FactorJob, OthersWork

LEMMA FactorEnds ==
  ASSUME F!SecondFactorAssumption, FactorTyped, NEW w \in Workers, F!Done(w)
  PROVE  /\ job' \in [Workers -> FactorJob] /\ OthersWork(w) /\ job'[w].at = "idle"
         /\ job'[w].code = F!Wrong /\ job'[w].op = "none"
<1>1. job' \in [Workers -> FactorJob] /\ OthersWork(w) /\ job'[w] = F!Free
  BY FreeIsAJob DEF FactorTyped, F!Done, OthersWork
<1> QED BY <1>1 DEF F!Free

LEMMA FactorBegins ==
  ASSUME FactorTyped, NEW w \in Workers, NEW op, NEW at, NEW ch, NEW code,
         F!Begin(w, op, at, ch, code),
         [op |-> op, at |-> at, ch |-> ch, code |-> code] \in FactorJob
  PROVE  /\ job' \in [Workers -> FactorJob] /\ OthersWork(w) /\ job[w].at = "idle"
         /\ job'[w].at = at /\ job'[w].code = code /\ job'[w].op = op /\ job'[w].ch = ch
  BY DEF FactorTyped, F!Begin, OthersWork

LEMMA FactorMisses ==
  ASSUME F!SecondFactorAssumption, FactorTyped, NEW w \in Workers,
         job' = [job EXCEPT ![w].at = "count", ![w].code = F!Wrong]
  PROVE  /\ job' \in [Workers -> FactorJob] /\ OthersWork(w) /\ job'[w].at = "count"
         /\ job'[w].code = F!Wrong /\ job'[w].op = job[w].op /\ job'[w].ch = job[w].ch
<1>1. job'[w] = [job[w] EXCEPT !.at = "count", !.code = F!Wrong] /\ OthersWork(w)
  BY DEF FactorTyped, OthersWork
<1>2. job[w] \in FactorJob
  BY DEF FactorTyped
<1>3. job'[w] \in FactorJob
  <2>1. F!Wrong \in F!Codes /\ "count" \in FactorSteps
    BY CodeFacts DEF FactorSteps
  <2>2. [job[w] EXCEPT !.at = "count"] \in FactorJob
    BY <2>1, <1>2 DEF FactorJob
  <2>3. PICK counting \in FactorJob : counting = [job[w] EXCEPT !.at = "count"]
    BY <2>2
  <2>4. [counting EXCEPT !.code = F!Wrong] \in FactorJob
    BY <2>1, <2>3 DEF FactorJob
  <2>5. job'[w] = [counting EXCEPT !.code = F!Wrong]
    BY <1>1, <2>3
  <2> QED BY <2>4, <2>5
<1>4. job' \in [Workers -> FactorJob]
  BY <1>3 DEF FactorTyped
<1>5. /\ job'[w].at = "count" /\ job'[w].code = F!Wrong
      /\ job'[w].op = job[w].op /\ job'[w].ch = job[w].ch
  BY <1>1, <1>2 DEF FactorJob
<1> QED BY <1>1, <1>4, <1>5

LEMMA VerifiedAreTotp ==
  ASSUME F!SecondFactorAssumption, NEW s, NEW c \in F!Codes, NEW l, F!Verifies(s, c, l)
  PROVE  c \in F!TotpCodes /\ c.of = s.id /\ (l = F!Never \/ c.k > l)
  BY CodeFacts DEF F!Verifies

LEMMA EnteredAreKnown ==
  ASSUME F!SecondFactorAssumption
  PROVE  F!Entered \subseteq Known /\ Known \subseteq F!Codes
  BY CodeFacts DEF F!Entered, Known

\* What the steps of a request may do to its job.
LEMMA FactorJobs ==
  ASSUME F!SecondFactorAssumption, FactorTyped, NEW w \in Workers, F!Step(w)
  PROVE  job' \in [Workers -> FactorJob] /\ OthersWork(w)
<1> USE CodeFacts, EnteredAreKnown
<1>1. ASSUME F!Done(w) PROVE job' \in [Workers -> FactorJob] /\ OthersWork(w)
  BY <1>1, FactorEnds
<1>2. ASSUME NEW at \in FactorSteps, F!Go(w, at) PROVE job' \in [Workers -> FactorJob] /\ OthersWork(w)
  BY <1>2, FactorMoves
<1>3. ASSUME NEW op \in {"login", "totp", "enrol", "confirm", "disable", "renew"},
             NEW at \in FactorSteps, NEW ch \in 0..MaxChallenges, NEW code \in F!Codes,
             F!Begin(w, op, at, ch, code)
      PROVE  job' \in [Workers -> FactorJob] /\ OthersWork(w)
  <2>1. [op |-> op, at |-> at, ch |-> ch, code |-> code] \in FactorJob
    BY DEF FactorJob
  <2> QED BY <2>1, <1>3, FactorBegins
<1>4. job' = job => job' \in [Workers -> FactorJob] /\ OthersWork(w)
  BY DEF FactorTyped, OthersWork
<1>0. 0 \in 0..MaxChallenges
  BY DEF F!SecondFactorAssumption
<1>5. CASE F!Login(w)
  BY <1>5, <1>0, <1>3 DEF F!Login, FactorSteps
<1>6. CASE F!CreateChallenge(w)
  BY <1>6, <1>1 DEF F!CreateChallenge
<1>7. CASE F!FindChallenge(w)
  <2>1. \A c \in challenges : c.n \in 0..MaxChallenges
    BY DEF FactorTyped, SignIn
  <2> QED BY <1>7, <2>1, <1>3, <1>4 DEF F!FindChallenge, FactorSteps
<1>8. CASE F!VerifyCode(w)
  BY <1>8, <1>1, <1>2 DEF F!VerifyCode, FactorSteps
<1>9. CASE F!RecordStep(w)
  BY <1>9, <1>2 DEF F!RecordStep, FactorSteps
<1>10. CASE F!ConsumeRecoveryCode(w)
  <2>1. CASE job[w].code \in codes
    BY <2>1, <1>10, <1>2 DEF F!ConsumeRecoveryCode, FactorSteps
  <2>2. CASE job[w].code \notin codes
    BY <2>2, <1>10, FactorMisses DEF F!ConsumeRecoveryCode
  <2> QED BY <2>1, <2>2
<1>11. CASE F!CountAttempt(w)
  BY <1>11, <1>1 DEF F!CountAttempt
<1>12. CASE F!DeleteChallenge(w)
  BY <1>12, <1>2 DEF F!DeleteChallenge, FactorSteps
<1>13. CASE F!IssueSession(w)
  BY <1>13, <1>1 DEF F!IssueSession
<1>14. CASE F!Enrol(w)
  BY <1>14, <1>0, <1>3 DEF F!Enrol, FactorSteps
<1>15. CASE F!StageSecret(w)
  BY <1>15, <1>1 DEF F!StageSecret
<1>16. CASE F!FindPending(w)
  BY <1>16, <1>0, <1>3 DEF F!FindPending, FactorSteps
<1>17. CASE F!ConfirmSecret(w)
  BY <1>17, <1>2 DEF F!ConfirmSecret, FactorSteps
<1>18. CASE F!ReplaceRecoveryCodes(w)
  BY <1>18, <1>1 DEF F!ReplaceRecoveryCodes
<1>19. CASE F!VerifyForSettings(w)
  BY <1>19, <1>0, <1>3 DEF F!VerifyForSettings, FactorSteps
<1>20. CASE F!RemoveSecret(w)
  BY <1>20, <1>2 DEF F!RemoveSecret, FactorSteps
<1>21. CASE F!RemoveRecoveryCodes(w)
  BY <1>21, <1>1 DEF F!RemoveRecoveryCodes
<1> QED
  BY <1>5, <1>6, <1>7, <1>8, <1>9, <1>10, <1>11, <1>12, <1>13, <1>14, <1>15, <1>16, <1>17,
     <1>18, <1>19, <1>20, <1>21 DEF F!Step

LEMMA FactorTypes ==
  ASSUME F!SecondFactorAssumption, FactorTyped, CodesAreKnown, NEW w \in Workers, F!Step(w)
  PROVE  FactorTyped'
<1> USE F!SecondFactorAssumption DEF F!history
<1>0. job' \in [Workers -> FactorJob]
  BY FactorJobs
<1>1. SUFFICES /\ now' \in 0..MaxStep /\ secret' \in Secrets /\ enrolled' \in 0..MaxSecrets
               /\ sets' \in 0..MaxSets /\ opened' \in 0..MaxChallenges
               /\ codes' \subseteq F!RecoveryCodes /\ challenges' \subseteq SignIn
               /\ accepted' \in [F!Codes -> Nat] /\ proven' \subseteq 1..MaxSecrets
               /\ overlapped' \in BOOLEAN
  BY <1>0 DEF FactorTyped
<1>2. /\ now \in 0..MaxStep /\ secret \in Secrets /\ enrolled \in 0..MaxSecrets
      /\ sets \in 0..MaxSets /\ opened \in 0..MaxChallenges
      /\ codes \subseteq F!RecoveryCodes /\ challenges \subseteq SignIn
      /\ accepted \in [F!Codes -> Nat] /\ proven \subseteq 1..MaxSecrets
      /\ overlapped \in BOOLEAN /\ job[w].code \in F!Codes
  BY DEF FactorTyped, FactorJob
<1>3. Verified(w) => job[w].code.k \in F!Steps
  BY CodeFacts DEF CodesAreKnown
<1>4. F!NoSecret \in Secrets
  BY NoSecretIsOne
<1>5. CASE \/ F!Login(w) \/ F!RemoveRecoveryCodes(w) \/ F!ConsumeRecoveryCode(w)
  BY <1>5, <1>2 DEF F!Login, F!RemoveRecoveryCodes, F!ConsumeRecoveryCode
<1>6. CASE F!CreateChallenge(w)
  BY <1>6, <1>2 DEF F!CreateChallenge, SignIn, F!SecondFactorAssumption
<1>7. CASE F!FindChallenge(w) \/ F!DeleteChallenge(w)
  BY <1>7, <1>2 DEF F!FindChallenge, F!DeleteChallenge
<1>8. CASE F!VerifyCode(w) \/ F!VerifyForSettings(w)
  <2>1. /\ overlapped' \in BOOLEAN
        /\ UNCHANGED <<now, secret, enrolled, codes, sets, challenges, opened, accepted, proven>>
    BY <1>8, <1>2 DEF F!VerifyCode, F!VerifyForSettings
  <2> QED BY <2>1, <1>2
<1>9. CASE F!RecordStep(w)
  <2>1. secret' \in Secrets
    BY <1>9, <1>2, <1>3 DEF F!RecordStep, Verified, Secrets
  <2> QED BY <1>9, <2>1, <1>2 DEF F!RecordStep
<1>11. CASE F!CountAttempt(w)
  <2>1. challenges' \subseteq SignIn
    BY <1>11, <1>2 DEF F!CountAttempt, SignIn
  <2> QED BY <1>11, <2>1, <1>2 DEF F!CountAttempt
<1>13. CASE F!IssueSession(w)
  <2>1. accepted' \in [F!Codes -> Nat]
    BY <1>13, <1>2 DEF F!IssueSession
  <2> QED BY <1>13, <2>1, <1>2 DEF F!IssueSession
<1>14. CASE F!Enrol(w) \/ F!RemoveSecret(w)
  BY <1>14, <1>2, <1>4 DEF F!Enrol, F!RemoveSecret
<1>15. CASE F!StageSecret(w)
  <2>1. /\ enrolled < MaxSecrets => enrolled + 1 \in 0..MaxSecrets
                                    /\ [F!NoSecret EXCEPT !.id = enrolled + 1] \in Secrets
    BY <1>2, <1>4 DEF Secrets, F!SecondFactorAssumption
  <2> QED BY <1>15, <2>1, <1>2 DEF F!StageSecret
<1>16. CASE F!FindPending(w)
  <2>1. PICK code \in F!Entered :
          F!Verifies(secret, code, F!Never) /\ proven' = proven \cup {code.of}
    BY <1>16 DEF F!FindPending
  <2>2. code \in F!TotpCodes
    BY <2>1, EnteredAreKnown, VerifiedAreTotp
  <2>3. overlapped' \in BOOLEAN /\ proven' \subseteq 1..MaxSecrets
    BY <1>16, <1>2, <2>1, <2>2, CodeFacts DEF F!FindPending
  <2> QED BY <1>16, <2>3, <1>2 DEF F!FindPending
<1>17. CASE F!ConfirmSecret(w)
  <2>1. secret' \in Secrets
    BY <1>17, <1>2, <1>3 DEF F!ConfirmSecret, F!At, Verified, Secrets
  <2> QED BY <1>17, <2>1, <1>2 DEF F!ConfirmSecret
<1>18. CASE F!ReplaceRecoveryCodes(w)
  BY <1>18, <1>2 DEF F!ReplaceRecoveryCodes, F!SecondFactorAssumption
<1> QED
  BY <1>5, <1>6, <1>7, <1>8, <1>9, <1>11, <1>13, <1>14, <1>15, <1>16, <1>17, <1>18 DEF F!Step

LEMMA KnownGrows ==
  ASSUME F!SecondFactorAssumption, FactorTyped,
         enrolled' \in Nat, sets' \in Nat, enrolled <= enrolled', sets <= sets'
  PROVE  Known \subseteq Known'
  BY CodeFacts DEF Known, FactorTyped, F!SecondFactorAssumption

LEMMA KnownStays ==
  ASSUME F!SecondFactorAssumption, FactorTyped, FactorTyped', CodesAreKnown,
         enrolled <= enrolled', sets <= sets', codes' \subseteq Known', SecretIsKnown',
         NEW w \in Workers, OthersWork(w), job'[w].code \in Known',
         Verified(w)' => job'[w].code \in F!TotpCodes,
         \A c \in F!Codes : accepted'[c] # 0 => accepted[c] # 0 \/ c \in Known
  PROVE  CodesAreKnown'
<1>1. Known \subseteq Known'
  BY KnownGrows DEF FactorTyped, F!SecondFactorAssumption
<1>2. \A c \in F!Codes : accepted'[c] # 0 => c \in Known'
  BY <1>1 DEF CodesAreKnown
<1>3. ASSUME NEW v \in Workers
      PROVE  job'[v].code \in Known' /\ (Verified(v)' => job'[v].code \in F!TotpCodes)
  BY <1>1, <1>3 DEF CodesAreKnown, Verified, OthersWork
<1> QED BY <1>2, <1>3 DEF CodesAreKnown

LEMMA FactorKnown ==
  ASSUME F!SecondFactorAssumption, FactorTyped, CodesAreKnown, NEW w \in Workers, F!Step(w)
  PROVE  CodesAreKnown'
<1> USE F!SecondFactorAssumption DEF F!history
<1>0. FactorTyped' /\ OthersWork(w)
  BY FactorTypes, FactorJobs
<1>1. /\ enrolled \in Nat /\ sets \in Nat /\ codes \subseteq F!RecoveryCodes
      /\ secret \in Secrets /\ F!Wrong \in Known /\ F!Wrong \in Known'
      /\ job[w].code \in Known /\ (Verified(w) => job[w].code \in F!TotpCodes)
      /\ codes \subseteq Known /\ SecretIsKnown
  BY DEF FactorTyped, CodesAreKnown, Known, F!SecondFactorAssumption
<1>2. ASSUME UNCHANGED <<enrolled, sets, accepted>>, codes' \subseteq codes, SecretIsKnown',
             job'[w].code \in Known, Verified(w)' => job'[w].code \in F!TotpCodes
      PROVE  CodesAreKnown'
  <2>1. Known' = Known
    BY <1>2 DEF Known
  <2> QED BY <1>0, <1>1, <1>2, <2>1, KnownStays
<1>3. secret' = secret /\ enrolled' = enrolled => SecretIsKnown'
  BY <1>1 DEF SecretIsKnown
<1>4. ASSUME F!Done(w) PROVE job'[w].code = F!Wrong /\ ~Verified(w)'
  BY <1>4, FactorEnds DEF Verified
<1>5. ASSUME NEW at \in FactorSteps, F!Go(w, at)
      PROVE  job'[w].code = job[w].code /\ job'[w].at = at
  BY <1>5, FactorMoves
<1>6. CASE \/ F!CreateChallenge(w) \/ F!CountAttempt(w) \/ F!RemoveRecoveryCodes(w)
  <2>1. F!Done(w) /\ UNCHANGED <<enrolled, sets, accepted, secret>> /\ codes' \subseteq codes
    BY <1>6 DEF F!CreateChallenge, F!CountAttempt, F!RemoveRecoveryCodes
  <2> QED BY <2>1, <1>1, <1>2, <1>3, <1>4
<1>7. CASE F!Login(w)
  <2>1. job'[w].code = F!Wrong /\ job'[w].at = "challenge"
    <3>1. [op |-> "login", at |-> "challenge", ch |-> 0, code |-> F!Wrong] \in FactorJob
      BY CodeFacts DEF FactorJob, FactorSteps, F!SecondFactorAssumption
    <3> QED BY <1>7, <3>1, FactorBegins DEF F!Login
  <2> QED BY <1>7, <2>1, <1>1, <1>2, <1>3 DEF F!Login, Verified
<1>8. CASE F!FindChallenge(w)
  <2>1. PICK c \in challenges, code \in F!Entered :
          \/ job[w].at = "idle" /\ UNCHANGED job
          \/ F!Begin(w, "totp", "secret", c.n, code)
    BY <1>8 DEF F!FindChallenge
  <2>2. code \in Known /\ code \in F!Codes
    BY EnteredAreKnown
  <2>3. [op |-> "totp", at |-> "secret", ch |-> c.n, code |-> code] \in FactorJob
    BY <2>2 DEF FactorJob, FactorSteps, FactorTyped, SignIn, F!SecondFactorAssumption
  <2>4. CASE job[w].at = "idle" /\ UNCHANGED job
    BY <1>8, <2>4, <1>1, <1>2, <1>3 DEF F!FindChallenge, Verified
  <2>5. CASE F!Begin(w, "totp", "secret", c.n, code)
    <3>1. job'[w].at = "secret" /\ job'[w].code = code
      BY <2>5, <2>3, FactorBegins
    <3> QED BY <1>8, <3>1, <2>2, <1>2, <1>3 DEF F!FindChallenge, Verified
  <2> QED BY <2>1, <2>4, <2>5
<1>9. CASE F!VerifyCode(w)
  <2>1. CASE F!Done(w)
    BY <2>1, <1>9, <1>1, <1>2, <1>3, <1>4 DEF F!VerifyCode
  <2>2. CASE F!Go(w, IF F!Verifies(secret, job[w].code, secret.last) THEN "record" ELSE "recover")
    <3>1. CASE F!Verifies(secret, job[w].code, secret.last)
      <4>1. F!Go(w, "record")
        BY <2>2, <3>1
      <4>2. job'[w].code = job[w].code
        BY <4>1, <1>5 DEF FactorSteps
      <4>3. job[w].code \in F!TotpCodes
        BY <3>1, <1>1, EnteredAreKnown, VerifiedAreTotp
      <4> QED BY <1>9, <4>2, <4>3, <1>1, <1>2, <1>3 DEF F!VerifyCode
    <3>2. CASE ~F!Verifies(secret, job[w].code, secret.last)
      <4>1. F!Go(w, "recover")
        BY <2>2, <3>2
      <4>2. job'[w].code = job[w].code /\ job'[w].at = "recover"
        BY <4>1, <1>5 DEF FactorSteps
      <4> QED BY <1>9, <4>2, <1>1, <1>2, <1>3 DEF F!VerifyCode, Verified
    <3> QED BY <3>1, <3>2
  <2> QED BY <2>1, <2>2, <1>9 DEF F!VerifyCode
<1>10. CASE F!RecordStep(w)
  <2>1. PICK at \in {"forget", "codes"} : F!Go(w, at)
    BY <1>10 DEF F!RecordStep
  <2>2. job'[w].code = job[w].code /\ job'[w].at = at
    BY <2>1, <1>5 DEF FactorSteps
  <2>3. SecretIsKnown'
    <3>1. job[w].code.k # F!Never
      BY <1>10, <1>1, CodeFacts DEF F!RecordStep, Verified
    <3> QED BY <1>10, <1>1, <3>1 DEF F!RecordStep, SecretIsKnown, Secrets
  <2> QED BY <1>10, <2>2, <2>3, <1>1, <1>2 DEF F!RecordStep, Verified
<1>11. CASE F!ConsumeRecoveryCode(w)
  <2>1. CASE job[w].code \in codes
    <3>1. job'[w].code = job[w].code /\ job'[w].at = "forget"
      BY <2>1, <1>11, <1>5 DEF F!ConsumeRecoveryCode, FactorSteps
    <3> QED BY <1>11, <2>1, <3>1, <1>1, <1>2, <1>3 DEF F!ConsumeRecoveryCode, Verified
  <2>2. CASE job[w].code \notin codes
    <3>1. job'[w].code = F!Wrong /\ job'[w].at = "count"
      BY <2>2, <1>11, FactorMisses DEF F!ConsumeRecoveryCode
    <3> QED BY <1>11, <2>2, <3>1, <1>1, <1>2, <1>3 DEF F!ConsumeRecoveryCode, Verified
  <2> QED BY <2>1, <2>2
<1>12. CASE F!DeleteChallenge(w)
  <2>1. job'[w].code = job[w].code /\ job'[w].at = "issue"
    BY <1>12, <1>5 DEF F!DeleteChallenge, FactorSteps
  <2> QED BY <1>12, <2>1, <1>1, <1>2, <1>3 DEF F!DeleteChallenge, Verified
<1>13. CASE F!IssueSession(w)
  <2>1. \A c \in F!Codes : accepted'[c] # 0 => accepted[c] # 0 \/ c \in Known
    BY <1>13, <1>1 DEF F!IssueSession, FactorTyped
  <2>2. Known' = Known
    BY <1>13 DEF F!IssueSession, Known
  <2> QED BY <1>0, <1>1, <1>3, <1>4, <1>13, <2>1, <2>2, KnownStays DEF F!IssueSession
<1>14. CASE F!Enrol(w)
  <2>1. job'[w].code = F!Wrong /\ job'[w].at = "stage"
    <3>1. [op |-> "enrol", at |-> "stage", ch |-> 0, code |-> F!Wrong] \in FactorJob
      BY CodeFacts DEF FactorJob, FactorSteps, F!SecondFactorAssumption
    <3> QED BY <1>14, <3>1, FactorBegins DEF F!Enrol
  <2>2. SecretIsKnown'
    BY <1>14, <1>1 DEF F!Enrol, SecretIsKnown, F!NoSecret
  <2> QED BY <1>14, <2>1, <2>2, <1>1, <1>2 DEF F!Enrol, Verified
<1>15. CASE F!StageSecret(w)
  <2>1. SecretIsKnown' /\ enrolled <= enrolled'
    BY <1>15, <1>1 DEF F!StageSecret, SecretIsKnown, F!NoSecret
  <2>2. Known \subseteq Known'
    BY <1>0, <1>1, <1>15, <2>1, KnownGrows DEF F!StageSecret, FactorTyped
  <2> QED BY <1>0, <1>1, <1>4, <1>15, <2>1, <2>2, KnownStays DEF F!StageSecret
<1>16. CASE F!FindPending(w)
  <2>1. PICK code \in F!Entered :
          F!Verifies(secret, code, F!Never) /\ F!Begin(w, "confirm", "confirm", 0, code)
    BY <1>16 DEF F!FindPending
  <2>2. code \in Known /\ code \in F!TotpCodes /\ code \in F!Codes
    BY <2>1, EnteredAreKnown, VerifiedAreTotp
  <2>3. [op |-> "confirm", at |-> "confirm", ch |-> 0, code |-> code] \in FactorJob
    BY <2>2 DEF FactorJob, FactorSteps, F!SecondFactorAssumption
  <2>4. job'[w].code = code
    BY <2>1, <2>3, FactorBegins
  <2> QED BY <1>16, <2>2, <2>4, <1>2, <1>3 DEF F!FindPending
<1>17. CASE F!ConfirmSecret(w)
  <2>1. job'[w].code = job[w].code /\ job'[w].at = "codes"
    BY <1>17, <1>5 DEF F!ConfirmSecret, FactorSteps
  <2>2. SecretIsKnown'
    <3>1. job[w].code.k # F!Never
      BY <1>17, <1>1, CodeFacts DEF F!ConfirmSecret, F!At, Verified
    <3> QED BY <1>17, <1>1, <3>1 DEF F!ConfirmSecret, SecretIsKnown, Secrets
  <2> QED BY <1>17, <2>1, <2>2, <1>1, <1>2 DEF F!ConfirmSecret, Verified
<1>18. CASE F!ReplaceRecoveryCodes(w)
  <2>1. sets <= sets' /\ codes' \subseteq Known'
    BY <1>18, <1>1 DEF F!ReplaceRecoveryCodes, Known
  <2> QED BY <1>0, <1>1, <1>3, <1>4, <1>18, <2>1, KnownStays DEF F!ReplaceRecoveryCodes
<1>19. CASE F!VerifyForSettings(w)
  <2>1. PICK code \in F!Entered :
          /\ F!Verifies(secret, code, secret.last)
          /\ \/ F!Begin(w, "renew", "record", 0, code)
             \/ F!Begin(w, "disable", "drop", 0, code)
    BY <1>19 DEF F!VerifyForSettings
  <2>2. code \in Known /\ code \in F!TotpCodes /\ code \in F!Codes
    BY <2>1, EnteredAreKnown, VerifiedAreTotp
  <2>3. /\ [op |-> "renew", at |-> "record", ch |-> 0, code |-> code] \in FactorJob
        /\ [op |-> "disable", at |-> "drop", ch |-> 0, code |-> code] \in FactorJob
    BY <2>2 DEF FactorJob, FactorSteps, F!SecondFactorAssumption
  <2>4. job'[w].code = code
    BY <2>1, <2>3, FactorBegins
  <2> QED BY <1>19, <2>2, <2>4, <1>2, <1>3 DEF F!VerifyForSettings
<1>20. CASE F!RemoveSecret(w)
  <2>1. job'[w].code = job[w].code /\ job'[w].at = "dropcodes"
    BY <1>20, <1>5 DEF F!RemoveSecret, FactorSteps
  <2>2. SecretIsKnown'
    BY <1>20, <1>1 DEF F!RemoveSecret, SecretIsKnown, F!NoSecret
  <2> QED BY <1>20, <2>1, <2>2, <1>1, <1>2 DEF F!RemoveSecret, Verified
<1> QED
  BY <1>6, <1>7, <1>8, <1>9, <1>10, <1>11, <1>12, <1>13, <1>14, <1>15, <1>16, <1>17,
     <1>18, <1>19, <1>20 DEF F!Step

-----------------------------------------------------------------------------

FactorSound == UnusedAreUnspent /\ CodesWorkOnce /\ InTurn

\* A step that verifies no code and spends none: the account's secret stays or
\* makes way for one nobody has a code of, and no code comes back.
QuietSecret ==
  secret' = secret \/ (~secret'.confirmed /\ \A c \in F!TotpCodes \cap Known : c.of # secret'.id)
QuietJob(w) ==
  \/ job'[w] = job[w]
  \/ /\ job'[w].at \notin {"record", "confirm"}
     /\ job'[w].at \in {"forget", "issue"} =>
          job[w].at \in {"forget", "issue"} /\ job'[w].code = job[w].code
Quiet ==
  /\ UNCHANGED <<accepted, proven>> /\ (overlapped => overlapped')
  /\ \A c \in codes' : c \in codes \/ ~Spent(c)
  /\ QuietSecret /\ \A w \in Workers : QuietJob(w)

LEMMA QuietSteps ==
  ASSUME F!SecondFactorAssumption, FactorTyped, CodesAreKnown, FactorSound, Quiet
  PROVE  FactorSound'
<1> USE F!SecondFactorAssumption
<1>1. \A w \in Workers, c \in F!Codes : Holds(w, c)' => Holds(w, c)
  BY DEF Quiet, QuietJob, Holds
<1>2. \A c \in F!Codes : Spent(c)' => Spent(c)
  BY <1>1 DEF Spent, Quiet
<1>3. \A w \in Workers : Verified(w)' => Verified(w) /\ job'[w] = job[w]
  BY DEF Quiet, QuietJob, Verified
<1>4. \A c \in F!Codes : Once(c) => Once(c)'
  BY <1>1 DEF Once, Quiet
<1>5. UnusedAreUnspent'
  <2>1. \A c \in codes' : ~Spent(c)
    BY DEF Quiet, FactorSound, UnusedAreUnspent
  <2>2. \A c : Spent(c)' => Spent(c)
    BY DEF Quiet, QuietJob, Holds, Spent
  <2> QED BY <2>1, <2>2 DEF UnusedAreUnspent
<1>6. CodesWorkOnce'
  BY <1>4, CodeFacts DEF FactorSound, CodesWorkOnce, Quiet
<1>7. ASSUME ~overlapped'
      PROVE  /\ Alone' /\ RecordsAreLater' /\ ConfirmsAreFirst' /\ SpentAreBehind'
             /\ secret'.confirmed => secret'.id \in proven'
  <2>1. /\ Alone /\ RecordsAreLater /\ ConfirmsAreFirst /\ SpentAreBehind
        /\ secret.confirmed => secret.id \in proven
    BY <1>7 DEF Quiet, FactorSound, InTurn
  <2>2. Alone'
    BY <2>1, <1>3 DEF Alone
  <2>3. \A w \in Workers : Verified(w) => job[w].code \in F!TotpCodes \cap Known
    BY DEF CodesAreKnown
  <2>4. \A c \in F!TotpCodes : Spent(c) => c \in Known
    BY CodeFacts DEF Spent, Holds, CodesAreKnown
  <2>5. RecordsAreLater'
    <3>1. SUFFICES ASSUME NEW w \in Workers, job'[w].at = "record"
                   PROVE  /\ (~Spent(job[w].code))'
                          /\ secret'.confirmed <=> job'[w].code.of = secret'.id
                          /\ secret'.confirmed => job'[w].code.k > secret'.last
      BY DEF RecordsAreLater
    <3>2. job[w].at = "record" /\ job'[w] = job[w] /\ job[w].code \in F!TotpCodes \cap Known
      BY <3>1, <1>3, <2>3 DEF Verified
    <3>3. (~Spent(job[w].code))'
      BY <3>2, <2>1, <1>2, CodeFacts DEF RecordsAreLater
    <3>4. CASE secret' = secret
      BY <3>2, <3>3, <3>4, <2>1 DEF RecordsAreLater
    <3>5. CASE ~secret'.confirmed /\ \A c \in F!TotpCodes \cap Known : c.of # secret'.id
      BY <3>2, <3>3, <3>5
    <3> QED BY <3>4, <3>5 DEF Quiet, QuietSecret
  <2>6. ConfirmsAreFirst'
    <3>1. \A w \in Workers : job'[w].at = "confirm" => job[w].at = "confirm" /\ job'[w] = job[w]
      BY <1>3 DEF Verified
    <3> QED BY <3>1, <2>1 DEF ConfirmsAreFirst, Quiet, QuietSecret
  <2>7. SpentAreBehind'
    <3>1. SUFFICES ASSUME NEW c \in F!TotpCodes, Spent(c), c.of = secret'.id
                   PROVE  secret'.confirmed /\ c.k <= secret'.last
      BY <1>2, CodeFacts DEF SpentAreBehind
    <3>2. c \in F!TotpCodes \cap Known
      BY <3>1, <2>4
    <3>3. secret' = secret
      BY <3>1, <3>2 DEF Quiet, QuietSecret
    <3> QED BY <3>1, <3>3, <2>1 DEF SpentAreBehind
  <2> QED BY <2>1, <2>2, <2>5, <2>6, <2>7 DEF Quiet, QuietSecret
<1> QED BY <1>5, <1>6, <1>7 DEF FactorSound, InTurn

\* Where nobody begins to spend a code or has spent one, the rest is as it was.
LEMMA HoldersStay ==
  ASSUME NEW w \in Workers, OthersWork(w), accepted' = accepted,
         job[w].at \notin {"forget", "issue"}, job'[w].at \notin {"forget", "issue"}
  PROVE  \A c : (Spent(c)' <=> Spent(c)) /\ (Once(c) => Once(c)')
<1>1. \A v \in Workers : \A c : Holds(v, c)' <=> Holds(v, c)
  BY DEF Holds, OthersWork
<1> QED BY <1>1 DEF Spent, Once

LEMMA SpentAreKnown ==
  ASSUME F!SecondFactorAssumption, CodesAreKnown, NEW c \in F!TotpCodes, Spent(c)
  PROVE  c \in Known
  BY CodeFacts DEF Spent, Holds, CodesAreKnown

\* A code is verified: the account's own, and later than any that was spent.
LEMMA TakesInHand ==
  ASSUME F!SecondFactorAssumption, FactorTyped, CodesAreKnown, FactorSound,
         NEW w \in Workers, OthersWork(w), UNCHANGED <<secret, accepted, codes>>,
         NEW at \in {"record", "confirm"}, job'[w].at = at,
         job[w].at \notin {"forget", "issue", "record", "confirm"},
         job'[w].code \in F!TotpCodes, job'[w].code.of = secret.id,
         at = "record" => /\ secret.confirmed /\ proven' = proven
                          /\ secret.last = F!Never \/ job'[w].code.k > secret.last,
         at = "confirm" => ~secret.confirmed /\ proven' = proven \cup {job'[w].code.of},
         overlapped' = (overlapped \/ F!InHand(w))
  PROVE  FactorSound'
<1> USE F!SecondFactorAssumption
<1>1. \A c : (Spent(c)' <=> Spent(c)) /\ (Once(c) => Once(c)')
  BY HoldersStay
<1>2. UnusedAreUnspent' /\ CodesWorkOnce'
  BY <1>1 DEF FactorSound, UnusedAreUnspent, CodesWorkOnce
<1>3. ASSUME ~overlapped'
      PROVE  /\ Alone' /\ RecordsAreLater' /\ ConfirmsAreFirst' /\ SpentAreBehind'
             /\ secret'.confirmed => secret'.id \in proven'
  <2>1. /\ Alone /\ RecordsAreLater /\ ConfirmsAreFirst /\ SpentAreBehind
        /\ secret.confirmed => secret.id \in proven
    BY <1>3 DEF FactorSound, InTurn
  <2>2. \A v \in Workers : Verified(v)' => v = w
    BY <1>3 DEF F!InHand, Verified, OthersWork
  <2>3. proven \subseteq proven'
    OBVIOUS
  <2>4. SpentAreBehind' /\ Alone'
    BY <1>1, <2>1, <2>2 DEF SpentAreBehind, Alone
  <2>5. RecordsAreLater'
    <3>1. SUFFICES ASSUME at = "record"
                   PROVE  /\ (~Spent(job[w].code))' /\ secret.confirmed
                          /\ job'[w].code.k > secret.last
      BY <2>2 DEF RecordsAreLater, Verified
    <3>2. secret.last # F!Never
      BY <3>1 DEF CodesAreKnown, SecretIsKnown
    <3>3. job'[w].code.k > secret.last
      BY <3>1, <3>2
    <3>4. job'[w].code.k \in Nat /\ secret.last \in Nat
      BY CodeFacts DEF FactorTyped, Secrets
    <3>5. ~Spent(job'[w].code)
      BY <3>3, <3>4, <2>1 DEF SpentAreBehind
    <3>6. (~Spent(job[w].code))'
      BY <1>1, <3>5
    <3> QED BY <3>1, <3>3, <3>6
  <2>6. ConfirmsAreFirst'
    BY <2>2 DEF ConfirmsAreFirst, Verified
  <2> QED BY <2>1, <2>3, <2>4, <2>5, <2>6
<1> QED BY <1>2, <1>3 DEF FactorSound, InTurn

LEMMA ConfirmIsSound ==
  ASSUME F!SecondFactorAssumption, FactorTyped, CodesAreKnown, FactorSound,
         NEW w \in Workers, F!ConfirmSecret(w)
  PROVE  FactorSound'
<1> USE F!SecondFactorAssumption
<1>1. F!Go(w, "codes") /\ "codes" \in FactorSteps
  BY DEF F!ConfirmSecret, FactorSteps
<1>2. OthersWork(w) /\ job'[w].at = "codes" /\ job[w].at = "confirm"
  BY <1>1, FactorMoves DEF F!ConfirmSecret, F!At
<1>3. UNCHANGED <<accepted, codes, proven>> /\ (overlapped => overlapped')
  BY DEF F!ConfirmSecret
<1>4. \A c : (Spent(c)' <=> Spent(c)) /\ (Once(c) => Once(c)')
  BY <1>2, <1>3, HoldersStay
<1>5. UnusedAreUnspent' /\ CodesWorkOnce'
  BY <1>3, <1>4 DEF FactorSound, UnusedAreUnspent, CodesWorkOnce
<1>6. ASSUME ~overlapped'
      PROVE  /\ Alone' /\ RecordsAreLater' /\ ConfirmsAreFirst' /\ SpentAreBehind'
             /\ secret'.confirmed => secret'.id \in proven'
  <2>1. Alone /\ ConfirmsAreFirst /\ SpentAreBehind
    BY <1>3, <1>6 DEF FactorSound, InTurn
  <2>2. \A v \in Workers : ~Verified(v)'
    BY <1>2, <2>1 DEF Alone, Verified, OthersWork
  <2>3. secret.id = job[w].code.of /\ ~secret.confirmed /\ secret.id \in proven
    BY <1>6, <1>2, <2>1 DEF F!ConfirmSecret, ConfirmsAreFirst
  <2>4. secret'.id = secret.id
    BY DEF F!ConfirmSecret, FactorTyped, Secrets
  <2>5. \A c \in F!TotpCodes : Spent(c) => c.of # secret.id
    BY <2>1, <2>3 DEF SpentAreBehind
  <2>6. SpentAreBehind'
    BY <1>4, <2>4, <2>5 DEF SpentAreBehind
  <2> QED
    BY <1>3, <2>2, <2>3, <2>4, <2>6 DEF Alone, RecordsAreLater, ConfirmsAreFirst, Verified
<1> QED BY <1>5, <1>6 DEF FactorSound, InTurn

\* The step of a code that is in hand is written down: it is the last one now.
LEMMA RecordIsSound ==
  ASSUME F!SecondFactorAssumption, FactorTyped, CodesAreKnown, FactorSound,
         NEW w \in Workers, F!RecordStep(w)
  PROVE  FactorSound'
<1> USE F!SecondFactorAssumption DEF F!history
<1>1. PICK at \in {"forget", "codes"} : F!Go(w, at)
  BY DEF F!RecordStep
<1>2. OthersWork(w) /\ job'[w].at = at /\ job'[w].code = job[w].code /\ job[w].at = "record"
  BY <1>1, FactorMoves DEF F!RecordStep, FactorSteps
<1>3. UNCHANGED <<accepted, codes, proven, overlapped>>
  BY DEF F!RecordStep
<1>4. PICK c \in F!TotpCodes : c = job[w].code
  BY <1>2 DEF CodesAreKnown, Verified
<1>5. \A d : d # c => (Spent(d)' <=> Spent(d)) /\ (Once(d) => Once(d)')
  BY <1>2, <1>3, <1>4 DEF Spent, Once, Holds, OthersWork
<1>6. UnusedAreUnspent'
  BY <1>3, <1>4, <1>5, CodeFacts DEF FactorSound, UnusedAreUnspent, FactorTyped
<1>7. \A d \in F!RecoveryCodes : Once(d)'
  BY <1>4, <1>5, CodeFacts DEF FactorSound, CodesWorkOnce
<1>8. ASSUME ~overlapped'
      PROVE  /\ \A d \in F!TotpCodes : Once(d)'
             /\ Alone' /\ RecordsAreLater' /\ ConfirmsAreFirst' /\ SpentAreBehind'
             /\ secret'.confirmed => secret'.id \in proven'
  <2>1. /\ Alone /\ RecordsAreLater /\ SpentAreBehind
        /\ secret.confirmed => secret.id \in proven
        /\ \A d \in F!TotpCodes : Once(d)
    BY <1>3, <1>8 DEF FactorSound, InTurn, CodesWorkOnce
  <2>2. \A v \in Workers : ~Verified(v)'
    BY <1>2, <2>1 DEF Alone, Verified, OthersWork
  <2>3. /\ ~Spent(c) /\ (secret.confirmed <=> c.of = secret.id)
        /\ secret.confirmed => c.k > secret.last
    BY <1>2, <1>4, <2>1 DEF RecordsAreLater
  <2>4. Once(c)'
    BY <1>2, <1>3, <1>4, <2>3 DEF Once, Spent, Holds, OthersWork
  <2>5. secret'.id = secret.id /\ secret'.confirmed = secret.confirmed
    BY DEF F!RecordStep, FactorTyped, Secrets
  <2>6. SpentAreBehind'
    <3>1. SUFFICES ASSUME NEW d \in F!TotpCodes, Spent(d)', d.of = secret.id
                   PROVE  secret.confirmed /\ d.k <= secret'.last
      BY <2>5 DEF SpentAreBehind
    <3>2. CASE d = c
      <4>1. secret.confirmed /\ secret.id # 0
        BY <2>3, <3>1, <3>2 DEF CodesAreKnown, SecretIsKnown
      <4>2. secret'.last = c.k
        BY <1>4, <4>1 DEF F!RecordStep, FactorTyped, Secrets
      <4> QED BY <3>2, <4>1, <4>2, CodeFacts
    <3>3. CASE d # c
      <4>1. secret.confirmed /\ d.k <= secret.last
        BY <1>5, <2>1, <3>1, <3>3 DEF SpentAreBehind
      <4>2. secret.id # 0 /\ c.k > secret.last
        BY <4>1, <2>3 DEF CodesAreKnown, SecretIsKnown
      <4>3. secret'.last = c.k
        BY <1>4, <4>2 DEF F!RecordStep, FactorTyped, Secrets
      <4>4. d.k \in Nat /\ c.k \in Nat /\ secret.last \in Nat
        BY <1>4, CodeFacts DEF FactorTyped, Secrets
      <4> QED BY <4>1, <4>2, <4>3, <4>4
    <3> QED BY <3>2, <3>3
  <2>7. Alone' /\ RecordsAreLater' /\ ConfirmsAreFirst'
    BY <2>2 DEF Alone, RecordsAreLater, ConfirmsAreFirst, Verified
  <2>8. \A d \in F!TotpCodes : Once(d)'
    BY <1>5, <2>1, <2>4
  <2> QED BY <1>3, <2>1, <2>5, <2>6, <2>7, <2>8
<1> QED BY <1>3, <1>6, <1>7, <1>8 DEF FactorSound, InTurn, CodesWorkOnce

\* A code off the sheet is struck from it as it is used.
LEMMA ConsumeIsSound ==
  ASSUME F!SecondFactorAssumption, FactorTyped, CodesAreKnown, FactorSound,
         NEW w \in Workers, F!ConsumeRecoveryCode(w), job[w].code \in codes
  PROVE  FactorSound'
<1> USE F!SecondFactorAssumption DEF F!history
<1>1. F!Go(w, "forget") /\ codes' = codes \ {job[w].code}
      /\ UNCHANGED <<secret, accepted, proven, overlapped>>
  BY DEF F!ConsumeRecoveryCode
<1>2. /\ OthersWork(w) /\ job'[w].at = "forget" /\ job'[w].code = job[w].code
      /\ job[w].at = "recover"
  BY <1>1, FactorMoves DEF F!ConsumeRecoveryCode, F!At, FactorSteps
<1>4. PICK c \in F!RecoveryCodes : c = job[w].code /\ ~Spent(c)
  BY DEF FactorTyped, FactorSound, UnusedAreUnspent
<1>5. \A d : d # c => (Spent(d)' <=> Spent(d)) /\ (Once(d) => Once(d)')
  BY <1>1, <1>2, <1>4 DEF Spent, Once, Holds, OthersWork
<1>6. UnusedAreUnspent'
  BY <1>1, <1>4, <1>5 DEF FactorSound, UnusedAreUnspent
<1>7. Once(c)'
  BY <1>1, <1>2, <1>4 DEF Once, Spent, Holds, OthersWork
<1>8. CodesWorkOnce'
  BY <1>1, <1>4, <1>5, <1>7, CodeFacts DEF FactorSound, CodesWorkOnce
<1>9. \A v \in Workers : Verified(v)' => v # w /\ job'[v] = job[v] /\ Verified(v)
  BY <1>2 DEF Verified, OthersWork
<1>10. \A d \in F!TotpCodes : Spent(d)' <=> Spent(d)
  BY <1>4, <1>5, CodeFacts
<1>11. ASSUME ~overlapped'
       PROVE  /\ Alone' /\ RecordsAreLater' /\ ConfirmsAreFirst' /\ SpentAreBehind'
              /\ secret'.confirmed => secret'.id \in proven'
  <2>1. /\ Alone /\ RecordsAreLater /\ ConfirmsAreFirst /\ SpentAreBehind
        /\ secret.confirmed => secret.id \in proven
    BY <1>1, <1>11 DEF FactorSound, InTurn
  <2>2. Alone' /\ ConfirmsAreFirst' /\ SpentAreBehind'
    BY <1>1, <1>9, <1>10, <2>1 DEF Alone, ConfirmsAreFirst, SpentAreBehind, Verified
  <2>3. RecordsAreLater'
    <3>1. SUFFICES ASSUME NEW v \in Workers, job'[v].at = "record"
                   PROVE  /\ (~Spent(job[v].code))'
                          /\ secret.confirmed <=> job[v].code.of = secret.id
                          /\ secret.confirmed => job[v].code.k > secret.last
      BY <1>1, <1>9 DEF RecordsAreLater, Verified
    <3>2. job'[v] = job[v] /\ job[v].at = "record" /\ job[v].code \in F!TotpCodes
      BY <1>9, <3>1 DEF Verified, CodesAreKnown
    <3> QED BY <1>10, <2>1, <3>2 DEF RecordsAreLater
  <2> QED BY <1>1, <2>1, <2>2, <2>3
<1> QED BY <1>6, <1>8, <1>11 DEF FactorSound, InTurn

\* What a code was for is given.
LEMMA IssueIsSound ==
  ASSUME F!SecondFactorAssumption, FactorTyped, CodesAreKnown, FactorSound,
         NEW w \in Workers, F!IssueSession(w)
  PROVE  FactorSound'
<1> USE F!SecondFactorAssumption
<1>1. /\ OthersWork(w) /\ job'[w].at = "idle" /\ job[w].at = "issue"
      /\ UNCHANGED <<secret, codes, proven, overlapped>>
  BY FactorEnds DEF F!IssueSession, F!At
<1>2. PICK c \in F!Codes :
        /\ c = job[w].code /\ accepted[c] \in Nat /\ accepted'[c] = accepted[c] + 1
        /\ \A d \in F!Codes : d # c => accepted'[d] = accepted[d]
  BY DEF F!IssueSession, FactorTyped, FactorJob
<1>3. Holds(w, c) /\ Spent(c)
  BY <1>1, <1>2 DEF Holds, Spent
<1>4. \A v \in Workers : \A d : Holds(v, d)' <=> v # w /\ Holds(v, d)
  BY <1>1 DEF Holds, OthersWork
<1>5. \A d \in F!Codes : Spent(d)' => Spent(d)
  BY <1>2, <1>3, <1>4 DEF Spent
<1>6. \A d \in F!Codes : Once(d) => Once(d)'
  <2>1. SUFFICES ASSUME NEW d \in F!Codes, Once(d) PROVE Once(d)'
    OBVIOUS
  <2>2. CASE d = c
    BY <1>2, <1>3, <1>4, <2>1, <2>2 DEF Once
  <2>3. CASE d # c
    BY <1>2, <1>4, <2>1, <2>3 DEF Once
  <2> QED BY <2>2, <2>3
<1>7. UnusedAreUnspent' /\ CodesWorkOnce'
  BY <1>1, <1>5, <1>6, CodeFacts DEF FactorSound, UnusedAreUnspent, CodesWorkOnce, FactorTyped
<1>9. \A v \in Workers : Verified(v)' => v # w /\ job'[v] = job[v] /\ Verified(v)
  BY <1>1 DEF Verified, OthersWork
<1>11. ASSUME ~overlapped'
       PROVE  /\ Alone' /\ RecordsAreLater' /\ ConfirmsAreFirst' /\ SpentAreBehind'
              /\ secret'.confirmed => secret'.id \in proven'
  <2>1. /\ Alone /\ RecordsAreLater /\ ConfirmsAreFirst /\ SpentAreBehind
        /\ secret.confirmed => secret.id \in proven
    BY <1>1, <1>11 DEF FactorSound, InTurn
  <2>2. Alone' /\ ConfirmsAreFirst' /\ SpentAreBehind'
    BY <1>1, <1>5, <1>9, <2>1, CodeFacts DEF Alone, ConfirmsAreFirst, SpentAreBehind, Verified
  <2>3. RecordsAreLater'
    <3>1. SUFFICES ASSUME NEW v \in Workers, job'[v].at = "record"
                   PROVE  /\ (~Spent(job[v].code))'
                          /\ secret.confirmed <=> job[v].code.of = secret.id
                          /\ secret.confirmed => job[v].code.k > secret.last
      BY <1>1, <1>9 DEF RecordsAreLater, Verified
    <3>2. job'[v] = job[v] /\ job[v].at = "record" /\ job[v].code \in F!Codes
      BY <1>9, <3>1, CodeFacts DEF Verified, CodesAreKnown
    <3> QED BY <1>5, <2>1, <3>2 DEF RecordsAreLater
  <2> QED BY <1>1, <2>1, <2>2, <2>3
<1> QED BY <1>7, <1>11 DEF FactorSound, InTurn

\* One step of a request.
LEMMA FactorStepIsSound ==
  ASSUME F!SecondFactorAssumption, FactorTyped, CodesAreKnown, FactorSound,
         NEW w \in Workers, F!Step(w)
  PROVE  FactorSound'
<1> USE F!SecondFactorAssumption DEF F!history
<1>0. /\ OthersWork(w) /\ FactorTyped' /\ CodesAreKnown'
      /\ job[w].code \in Known /\ job[w].code \in F!Codes
  BY FactorTypes, FactorKnown, FactorJobs, EnteredAreKnown DEF CodesAreKnown
<1>1. ASSUME NEW v \in Workers \ {w} PROVE QuietJob(v)
  BY <1>0, <1>1 DEF QuietJob, OthersWork
<1>2. ASSUME UNCHANGED <<accepted, proven>>, overlapped => overlapped', codes' \subseteq codes,
             QuietSecret, QuietJob(w)
      PROVE  FactorSound'
  <2>1. Quiet
    BY <1>1, <1>2 DEF Quiet
  <2> QED BY <2>1, QuietSteps
<1>3. F!Done(w) => QuietJob(w)
  BY FactorEnds DEF QuietJob
<1>4. ASSUME NEW at \in FactorSteps \ {"record", "confirm", "forget", "issue"}, F!Go(w, at)
      PROVE  QuietJob(w)
  BY <1>4, FactorMoves DEF QuietJob
<1>5. ASSUME NEW op \in {"login", "totp", "enrol", "confirm", "disable", "renew"},
             NEW at \in FactorSteps, NEW ch \in 0..MaxChallenges, NEW code \in F!Codes,
             F!Begin(w, op, at, ch, code)
      PROVE  /\ job[w].at = "idle" /\ job'[w].at = at /\ job'[w].code = code
             /\ at \notin {"record", "confirm", "forget", "issue"} => QuietJob(w)
  <2>1. [op |-> op, at |-> at, ch |-> ch, code |-> code] \in FactorJob
    BY DEF FactorJob
  <2> QED BY <1>5, <2>1, FactorBegins DEF QuietJob
<1>6. secret' = secret => QuietSecret
  BY DEF QuietSecret
<1>7. secret' = F!NoSecret => QuietSecret
  BY CodeFacts DEF QuietSecret, F!NoSecret
<1>8. 0 \in 0..MaxChallenges /\ \A c \in challenges : c.n \in 0..MaxChallenges
  BY DEF F!SecondFactorAssumption, FactorTyped, SignIn
<1>9. F!Wrong \in F!Codes /\ F!Entered \subseteq F!Codes
  BY CodeFacts, EnteredAreKnown
<1>10. CASE F!Login(w)
  BY <1>10, <1>2, <1>5, <1>6, <1>8, <1>9 DEF F!Login, FactorSteps
<1>11. CASE \/ F!CreateChallenge(w) \/ F!CountAttempt(w) \/ F!RemoveRecoveryCodes(w)
  <2>1. /\ F!Done(w) /\ UNCHANGED <<accepted, proven, overlapped, secret>>
        /\ codes' \subseteq codes
    BY <1>11 DEF F!CreateChallenge, F!CountAttempt, F!RemoveRecoveryCodes
  <2> QED BY <2>1, <1>2, <1>3, <1>6
<1>12. CASE F!FindChallenge(w)
  <2>1. PICK c \in challenges, code \in F!Entered :
          UNCHANGED job \/ F!Begin(w, "totp", "secret", c.n, code)
    BY <1>12 DEF F!FindChallenge
  <2>2. QuietJob(w)
    <3>1. CASE UNCHANGED job
      BY <3>1 DEF QuietJob
    <3>2. CASE F!Begin(w, "totp", "secret", c.n, code)
      BY <3>2, <1>5, <1>8, <1>9 DEF FactorSteps
    <3> QED BY <2>1, <3>1, <3>2
  <2> QED BY <1>12, <2>2, <1>2, <1>6 DEF F!FindChallenge
<1>13. CASE F!VerifyCode(w)
  <2>1. CASE secret.confirmed /\ F!Verifies(secret, job[w].code, secret.last)
    <3>1. F!Go(w, "record") /\ job[w].at = "secret" /\ "record" \in FactorSteps
      BY <1>13, <2>1 DEF F!VerifyCode, F!At, FactorSteps
    <3>2. job'[w].at = "record" /\ job'[w].code = job[w].code
      BY <3>1, FactorMoves
    <3>3. /\ job[w].code \in F!TotpCodes /\ job[w].code.of = secret.id
          /\ secret.last = F!Never \/ job[w].code.k > secret.last
      BY <2>1, <1>0, VerifiedAreTotp
    <3>4. /\ UNCHANGED <<secret, accepted, codes, proven>>
          /\ overlapped' = (overlapped \/ F!InHand(w))
      BY <1>13, <2>1 DEF F!VerifyCode
    <3> QED BY <1>0, <2>1, <3>1, <3>2, <3>3, <3>4, TakesInHand
  <2>2. CASE ~(secret.confirmed /\ F!Verifies(secret, job[w].code, secret.last))
    <3>1. F!Done(w) \/ F!Go(w, "recover")
      BY <1>13, <2>2 DEF F!VerifyCode
    <3>2. QuietJob(w)
      BY <3>1, <1>3, <1>4 DEF FactorSteps
    <3>3. overlapped => overlapped'
      BY <1>13 DEF F!VerifyCode
    <3> QED BY <1>13, <3>2, <3>3, <1>2, <1>6 DEF F!VerifyCode
  <2> QED BY <2>1, <2>2
<1>14. CASE F!RecordStep(w)
  BY <1>14, RecordIsSound
<1>15. CASE F!ConsumeRecoveryCode(w)
  <2>1. CASE job[w].code \in codes
    BY <1>15, <2>1, ConsumeIsSound
  <2>2. CASE job[w].code \notin codes
    <3>1. QuietJob(w)
      BY <1>15, <2>2, FactorMisses DEF F!ConsumeRecoveryCode, QuietJob
    <3> QED BY <1>15, <2>2, <3>1, <1>2, <1>6 DEF F!ConsumeRecoveryCode
  <2> QED BY <2>1, <2>2
<1>16. CASE F!DeleteChallenge(w)
  <2>1. F!Go(w, "issue") /\ job[w].at = "forget" /\ "issue" \in FactorSteps
    BY <1>16 DEF F!DeleteChallenge, F!At, FactorSteps
  <2>2. QuietJob(w)
    BY <2>1, FactorMoves DEF QuietJob
  <2> QED BY <1>16, <2>2, <1>2, <1>6 DEF F!DeleteChallenge
<1>17. CASE F!IssueSession(w)
  BY <1>17, IssueIsSound
<1>18. CASE F!Enrol(w)
  BY <1>18, <1>2, <1>5, <1>7, <1>8, <1>9 DEF F!Enrol, FactorSteps
<1>19. CASE F!StageSecret(w)
  <2>1. QuietSecret
    <3>1. CASE UNCHANGED secret
      BY <3>1, <1>6
    <3>2. CASE secret' = [F!NoSecret EXCEPT !.id = enrolled + 1]
      <4>1. secret'.id = enrolled + 1 /\ ~secret'.confirmed
        BY <3>2 DEF F!NoSecret
      <4>2. \A c \in F!TotpCodes \cap Known : c.of \in Nat /\ c.of <= enrolled
        BY CodeFacts DEF Known
      <4>3. enrolled \in Nat
        BY DEF FactorTyped, F!SecondFactorAssumption
      <4> QED BY <4>1, <4>2, <4>3 DEF QuietSecret
    <3> QED BY <1>19, <3>1, <3>2 DEF F!StageSecret
  <2> QED BY <1>19, <2>1, <1>2, <1>3 DEF F!StageSecret
<1>20. CASE F!FindPending(w)
  <2>1. PICK code \in F!Entered :
          /\ F!Verifies(secret, code, F!Never) /\ F!Begin(w, "confirm", "confirm", 0, code)
          /\ proven' = proven \cup {code.of}
    BY <1>20 DEF F!FindPending
  <2>2. job[w].at = "idle" /\ job'[w].at = "confirm" /\ job'[w].code = code
    BY <2>1, <1>5, <1>8, <1>9 DEF FactorSteps
  <2>3. code \in F!TotpCodes /\ code.of = secret.id
    BY <2>1, <1>9, VerifiedAreTotp
  <2>4. /\ UNCHANGED <<secret, accepted, codes>> /\ ~secret.confirmed
        /\ overlapped' = (overlapped \/ F!InHand(w))
    BY <1>20 DEF F!FindPending
  <2> QED BY <1>0, <2>1, <2>2, <2>3, <2>4, TakesInHand
<1>21. CASE F!ConfirmSecret(w)
  BY <1>21, ConfirmIsSound
<1>22. CASE F!ReplaceRecoveryCodes(w)
  <2>1. \A c \in codes' : c \in codes \/ ~Spent(c)
    <3>1. \A c \in F!RecoveryCodes : Spent(c) => c.of <= sets
      BY CodeFacts DEF Spent, Holds, CodesAreKnown, Known
    <3>2. sets \in Nat
      BY DEF FactorTyped, F!SecondFactorAssumption
    <3> QED BY <1>22, <3>1, <3>2 DEF F!ReplaceRecoveryCodes
  <2>2. Quiet
    BY <1>22, <2>1, <1>1, <1>3, <1>6 DEF F!ReplaceRecoveryCodes, Quiet
  <2> QED BY <2>2, QuietSteps
<1>23. CASE F!VerifyForSettings(w)
  <2>1. PICK code \in F!Entered :
          /\ F!Verifies(secret, code, secret.last)
          /\ \/ F!Begin(w, "renew", "record", 0, code)
             \/ F!Begin(w, "disable", "drop", 0, code)
    BY <1>23 DEF F!VerifyForSettings
  <2>2. /\ UNCHANGED <<secret, accepted, codes, proven>> /\ secret.confirmed
        /\ overlapped' = (overlapped \/ F!InHand(w))
    BY <1>23 DEF F!VerifyForSettings
  <2>3. CASE F!Begin(w, "renew", "record", 0, code)
    <3>1. job[w].at = "idle" /\ job'[w].at = "record" /\ job'[w].code = code
      BY <2>3, <1>5, <1>8, <1>9 DEF FactorSteps
    <3>2. /\ code \in F!TotpCodes /\ code.of = secret.id
          /\ secret.last = F!Never \/ code.k > secret.last
      BY <2>1, <1>9, VerifiedAreTotp
    <3> QED BY <1>0, <2>2, <3>1, <3>2, TakesInHand
  <2>4. CASE F!Begin(w, "disable", "drop", 0, code)
    <3>1. QuietJob(w)
      BY <2>4, <1>5, <1>8, <1>9 DEF FactorSteps
    <3>2. overlapped => overlapped'
      BY <2>2
    <3> QED BY <2>2, <3>1, <3>2, <1>2, <1>6
  <2> QED BY <2>1, <2>3, <2>4
<1>24. CASE F!RemoveSecret(w)
  <2>1. QuietJob(w)
    BY <1>24, <1>4 DEF F!RemoveSecret, FactorSteps
  <2> QED BY <1>24, <2>1, <1>2, <1>7 DEF F!RemoveSecret
<1> QED
  BY <1>10, <1>11, <1>12, <1>13, <1>14, <1>15, <1>16, <1>17, <1>18, <1>19, <1>20, <1>21,
     <1>22, <1>23, <1>24 DEF F!Step

LEMMA FactorNext ==
  ASSUME F!SecondFactorAssumption, FactorInv, [F!Next]_F!vars
  PROVE  FactorInv'
<1> USE F!SecondFactorAssumption DEF FactorInv, F!history
<1>1. CASE \E w \in Workers : F!Step(w)
  BY <1>1, FactorTypes, FactorKnown, FactorStepIsSound DEF FactorSound
<1>2. ASSUME FactorTyped',
             UNCHANGED <<secret, enrolled, codes, sets, job, accepted, proven, overlapped>>
      PROVE  FactorInv'
  <2>1. CodesAreKnown'
    BY <1>2 DEF CodesAreKnown, SecretIsKnown, Known, Verified
  <2>2. Quiet
    BY <1>2 DEF Quiet, QuietSecret, QuietJob
  <2> QED BY <1>2, <2>1, <2>2, QuietSteps DEF FactorSound
<1>3. CASE F!Tick
  <2>1. FactorTyped'
    BY <1>3 DEF F!Tick, FactorTyped, F!SecondFactorAssumption
  <2> QED BY <1>2, <1>3, <2>1 DEF F!Tick
<1>4. CASE F!ChallengeExpires
  <2>1. FactorTyped'
    BY <1>4 DEF F!ChallengeExpires, FactorTyped
  <2> QED BY <1>2, <1>4, <2>1 DEF F!ChallengeExpires
<1>5. CASE UNCHANGED F!vars
  <2>1. FactorTyped'
    BY <1>5 DEF F!vars, FactorTyped
  <2> QED BY <1>2, <1>5, <2>1 DEF F!vars
<1> QED BY <1>1, <1>3, <1>4, <1>5 DEF F!Next

-----------------------------------------------------------------------------

\* The requests that may still count a wrong code against this challenge.
Tries(r) == r.op = "totp" /\ r.at \in {"secret", "recover", "count"}
Trying(n) == {w \in Workers : Tries(job[w]) /\ job[w].ch = n}

\* A challenge is found while it has an attempt left, and by each request once.
AttemptsCounted ==
  /\ \A c \in challenges : c.n <= opened
  /\ \A c, d \in challenges : c.n = d.n => c = d
  /\ \A c \in challenges :
       c.attempts + Cardinality(Trying(c.n)) <= MAX_TOTP_ATTEMPTS - 1 + Cardinality(Workers)

LEMMA SameCardinality == \A S : F!Cardinality(S) = Cardinality(S)
  BY Zenon DEF F!Cardinality, Cardinality

LEMMA SameFiniteness == \A S : F!IsFiniteSet(S) <=> IsFiniteSet(S)
  BY Zenon DEF F!IsFiniteSet, IsFiniteSet

LEMMA TryingIsFinite ==
  ASSUME F!SecondFactorAssumption, NEW n
  PROVE  /\ IsFiniteSet(Workers) /\ Cardinality(Workers) \in Nat
         /\ IsFiniteSet(Trying(n)) /\ Cardinality(Trying(n)) \in Nat
         /\ Cardinality(Trying(n)) <= Cardinality(Workers)
<1>1. IsFiniteSet(Workers)
  BY SameFiniteness DEF F!SecondFactorAssumption
<1>2. Trying(n) \subseteq Workers
  BY DEF Trying
<1> QED BY <1>1, <1>2, FS_Subset, FS_CardinalityType

\* Only finding a challenge makes a request one that tries it.
LEMMA WhoTries ==
  ASSUME F!SecondFactorAssumption, FactorTyped, NEW w \in Workers, F!Step(w), ~F!FindChallenge(w)
  PROVE  \A n : Trying(n)' \subseteq Trying(n)
<1> USE F!SecondFactorAssumption
<1>0. OthersWork(w)
  BY FactorJobs
<1>1. SUFFICES Tries(job'[w]) => Tries(job[w]) /\ job'[w].ch = job[w].ch
  BY <1>0 DEF OthersWork, Trying
<1>2. F!Done(w) => ~Tries(job'[w])
  BY FactorEnds DEF Tries
<1>3. ASSUME NEW at \in FactorSteps, F!Go(w, at)
      PROVE  job'[w].at = at /\ job'[w].ch = job[w].ch /\ job'[w].op = job[w].op
  BY <1>3, FactorMoves
<1>4. ASSUME NEW op \in {"login", "enrol", "confirm", "disable", "renew"},
             NEW at, NEW code, F!Begin(w, op, at, 0, code)
      PROVE  ~Tries(job'[w])
  BY <1>4 DEF F!Begin, FactorTyped, Tries
<1>5. CASE F!Login(w) \/ F!Enrol(w)
  BY <1>5, <1>4 DEF F!Login, F!Enrol
<1>6. CASE \/ F!CreateChallenge(w) \/ F!CountAttempt(w) \/ F!RemoveRecoveryCodes(w)
           \/ F!IssueSession(w) \/ F!StageSecret(w) \/ F!ReplaceRecoveryCodes(w)
  BY <1>6, <1>2 DEF F!CreateChallenge, F!CountAttempt, F!RemoveRecoveryCodes, F!IssueSession,
                    F!StageSecret, F!ReplaceRecoveryCodes
<1>7. CASE F!VerifyCode(w)
  <2>1. \/ F!Done(w) \/ F!Go(w, "record") \/ F!Go(w, "recover")
    BY <1>7 DEF F!VerifyCode
  <2> QED BY <1>7, <2>1, <1>2, <1>3 DEF F!VerifyCode, F!At, FactorSteps, Tries
<1>8. CASE F!RecordStep(w)
  <2>1. F!Go(w, "forget") \/ F!Go(w, "codes")
    BY <1>8 DEF F!RecordStep
  <2> QED BY <2>1, <1>3 DEF FactorSteps, Tries
<1>9. CASE F!ConsumeRecoveryCode(w)
  BY <1>9, <1>3, FactorMisses DEF F!ConsumeRecoveryCode, F!At, FactorSteps, Tries
<1>10. CASE F!DeleteChallenge(w) \/ F!ConfirmSecret(w) \/ F!RemoveSecret(w)
  BY <1>10, <1>3 DEF F!DeleteChallenge, F!ConfirmSecret, F!RemoveSecret, FactorSteps, Tries
<1>11. CASE F!FindPending(w) \/ F!VerifyForSettings(w)
  BY <1>11, <1>4 DEF F!FindPending, F!VerifyForSettings
<1> QED
  BY <1>5, <1>6, <1>7, <1>8, <1>9, <1>10, <1>11 DEF F!Step

LEMMA AttemptsStay ==
  ASSUME F!SecondFactorAssumption, AttemptsCounted, challenges' \subseteq challenges,
         FactorTyped, opened' = opened, \A n : Trying(n)' \subseteq Trying(n)
  PROVE  AttemptsCounted'
<1>1. ASSUME NEW n PROVE /\ Cardinality(Trying(n)') \in Nat
                         /\ Cardinality(Trying(n)') <= Cardinality(Trying(n))
  BY TryingIsFinite, FS_Subset, FS_CardinalityType
<1>2. Cardinality(Workers) \in Nat /\ \A n : Cardinality(Trying(n)) \in Nat
  BY TryingIsFinite
<1>3. \A c \in challenges : c.attempts \in Nat
  BY DEF FactorTyped, SignIn
<1> QED BY <1>1, <1>2, <1>3 DEF AttemptsCounted, F!SecondFactorAssumption

LEMMA AttemptsNext ==
  ASSUME F!SecondFactorAssumption, FactorTyped, AttemptsCounted, [F!Next]_F!vars
  PROVE  AttemptsCounted'
<1> USE F!SecondFactorAssumption DEF F!history
<1>1. /\ Cardinality(Workers) \in Nat /\ \A n : Cardinality(Trying(n)) \in Nat
      /\ \A n : Cardinality(Trying(n)) <= Cardinality(Workers)
      /\ \A c \in challenges : c.attempts \in Nat /\ c.n \in Nat
      /\ MAX_TOTP_ATTEMPTS \in Nat \ {0} /\ opened \in Nat
  BY TryingIsFinite DEF FactorTyped, SignIn, F!SecondFactorAssumption
<1>2. ASSUME UNCHANGED <<job, opened>>, challenges' \subseteq challenges PROVE AttemptsCounted'
  <2>1. \A n : Trying(n)' \subseteq Trying(n)
    BY <1>2 DEF Trying
  <2> QED BY <1>2, <2>1, AttemptsStay
<1>3. CASE F!Tick \/ F!ChallengeExpires \/ UNCHANGED F!vars
  BY <1>3, <1>2 DEF F!Tick, F!ChallengeExpires, F!vars
<1>4. ASSUME NEW w \in Workers, F!Step(w) PROVE AttemptsCounted'
  <2>1. CASE F!FindChallenge(w)
    <3>1. PICK c \in challenges, code \in F!Entered :
            IF c.attempts >= MAX_TOTP_ATTEMPTS
            THEN challenges' = challenges \ {c} /\ UNCHANGED job
            ELSE F!Begin(w, "totp", "secret", c.n, code) /\ UNCHANGED challenges
      BY <2>1 DEF F!FindChallenge
    <3>2. opened' = opened
      BY <2>1 DEF F!FindChallenge
    <3>3. CASE c.attempts >= MAX_TOTP_ATTEMPTS
      BY <3>1, <3>2, <3>3, <1>2
    <3>4. CASE ~(c.attempts >= MAX_TOTP_ATTEMPTS)
      <4>1. /\ F!Begin(w, "totp", "secret", c.n, code) /\ challenges' = challenges
            /\ c.attempts <= MAX_TOTP_ATTEMPTS - 1
        BY <3>1, <3>4, <1>1
      <4>2. \A n : n # c.n => Trying(n)' \subseteq Trying(n)
        BY <4>1 DEF F!Begin, Trying, FactorTyped, Tries
      <4>3. Cardinality(Trying(c.n)') \in Nat /\ Cardinality(Trying(c.n)') <= Cardinality(Workers)
        <5>1. Trying(c.n)' \subseteq Workers
          BY DEF Trying
        <5> QED BY <5>1, TryingIsFinite, FS_Subset, FS_CardinalityType
      <4>4. ASSUME NEW d \in challenges
            PROVE  d.attempts + Cardinality(Trying(d.n)')
                     <= MAX_TOTP_ATTEMPTS - 1 + Cardinality(Workers)
        <5>1. CASE d.n = c.n
          BY <4>1, <4>3, <5>1, <1>1 DEF AttemptsCounted
        <5>2. CASE d.n # c.n
          <6>1. /\ Cardinality(Trying(d.n)') \in Nat
                /\ Cardinality(Trying(d.n)') <= Cardinality(Trying(d.n))
            BY <4>2, <5>2, TryingIsFinite, FS_Subset, FS_CardinalityType
          <6> QED BY <6>1, <1>1 DEF AttemptsCounted
        <5> QED BY <5>1, <5>2
      <4> QED BY <3>2, <4>1, <4>4 DEF AttemptsCounted
    <3> QED BY <3>3, <3>4
  <2>2. CASE F!CountAttempt(w)
    <3>1. \A n : Trying(n)' \subseteq Trying(n)
      BY <1>4, <2>2, WhoTries DEF F!CountAttempt, F!At, F!FindChallenge, F!Begin
    <3>2. /\ w \in Trying(job[w].ch) /\ w \notin Trying(job[w].ch)' /\ opened' = opened
      BY <2>2, FactorEnds DEF F!CountAttempt, F!At, Trying, Tries
    <3>3. ASSUME NEW d \in challenges'
          PROVE  \E c \in challenges :
                   /\ d.n = c.n /\ (c.n = job[w].ch => d.attempts = c.attempts + 1)
                   /\ (c.n # job[w].ch => d = c)
                   /\ d = IF c.n = job[w].ch THEN [c EXCEPT !.attempts = @ + 1] ELSE c
      BY <2>2, <3>3 DEF F!CountAttempt, FactorTyped, SignIn
    <3>4. ASSUME NEW n
          PROVE  /\ Cardinality(Trying(n)') \in Nat
                 /\ Cardinality(Trying(n)') <= Cardinality(Trying(n))
                 /\ n = job[w].ch => Cardinality(Trying(n)') + 1 <= Cardinality(Trying(n))
      <4>1. /\ IsFiniteSet(Trying(n)) /\ Cardinality(Trying(n)) \in Nat
        BY TryingIsFinite
      <4>2. /\ Cardinality(Trying(n)') \in Nat
            /\ Cardinality(Trying(n)') <= Cardinality(Trying(n))
        BY <3>1, <4>1, FS_Subset, FS_CardinalityType
      <4>3. ASSUME n = job[w].ch
            PROVE  Cardinality(Trying(n)') + 1 <= Cardinality(Trying(n))
        <5>1. Trying(n)' \subseteq Trying(n) \ {w} /\ w \in Trying(n)
          <6>1. w \notin Trying(n)'
            BY <4>3, <2>2, FactorEnds DEF F!CountAttempt, Trying, Tries
          <6> QED BY <6>1, <3>1, <3>2, <4>3
        <5>2. /\ IsFiniteSet(Trying(n) \ {w})
              /\ Cardinality(Trying(n) \ {w}) = Cardinality(Trying(n)) - 1
          BY <4>1, <5>1, FS_RemoveElement
        <5>3. Cardinality(Trying(n)') <= Cardinality(Trying(n) \ {w})
          BY <5>1, <5>2, FS_Subset
        <5> QED BY <4>1, <4>2, <5>2, <5>3
      <4> QED BY <4>2, <4>3
    <3>5. ASSUME NEW d \in challenges'
          PROVE  /\ d.n <= opened
                 /\ d.attempts + Cardinality(Trying(d.n)')
                      <= MAX_TOTP_ATTEMPTS - 1 + Cardinality(Workers)
      <4>1. PICK c \in challenges :
                /\ d.n = c.n /\ (c.n = job[w].ch => d.attempts = c.attempts + 1)
                /\ (c.n # job[w].ch => d = c)
        BY <3>3, <3>5
      <4> QED BY <4>1, <3>4, <1>1 DEF AttemptsCounted
    <3>6. \A d, e \in challenges' : d.n = e.n => d = e
      BY <3>3 DEF AttemptsCounted
    <3> QED BY <3>2, <3>5, <3>6 DEF AttemptsCounted
  <2>3. CASE F!CreateChallenge(w)
    <3>1. \A n : Trying(n)' \subseteq Trying(n)
      BY <1>4, <2>3, WhoTries DEF F!CreateChallenge, F!At, F!FindChallenge, F!Begin
    <3>2. CASE opened < MaxChallenges
      <4>1. /\ opened' = opened + 1
            /\ challenges' = challenges \cup {[n |-> opened + 1, attempts |-> 0]}
        BY <2>3, <3>2 DEF F!CreateChallenge
      <4>2. \A n : /\ Cardinality(Trying(n)') \in Nat
                   /\ Cardinality(Trying(n)') <= Cardinality(Trying(n))
        BY <3>1, TryingIsFinite, FS_Subset, FS_CardinalityType
      <4>3. ASSUME NEW d \in challenges'
            PROVE  /\ d.n <= opened'
                   /\ d.attempts + Cardinality(Trying(d.n)')
                        <= MAX_TOTP_ATTEMPTS - 1 + Cardinality(Workers)
        BY <4>1, <4>2, <1>1 DEF AttemptsCounted
      <4>4. \A d, e \in challenges' : d.n = e.n => d = e
        BY <4>1, <1>1 DEF AttemptsCounted
      <4> QED BY <4>3, <4>4 DEF AttemptsCounted
    <3>3. CASE ~(opened < MaxChallenges)
      BY <2>3, <3>1, <3>3, AttemptsStay DEF F!CreateChallenge
    <3> QED BY <3>2, <3>3
  <2>4. CASE ~F!FindChallenge(w) /\ ~F!CountAttempt(w) /\ ~F!CreateChallenge(w)
    <3>1. \A n : Trying(n)' \subseteq Trying(n)
      BY <1>4, <2>4, WhoTries
    <3>2. opened' = opened /\ challenges' \subseteq challenges
      BY <1>4, <2>4
      DEF F!Step, F!Login, F!VerifyCode, F!RecordStep, F!ConsumeRecoveryCode, F!DeleteChallenge,
          F!IssueSession, F!Enrol, F!StageSecret, F!FindPending, F!ConfirmSecret,
          F!ReplaceRecoveryCodes, F!VerifyForSettings, F!RemoveSecret, F!RemoveRecoveryCodes
    <3> QED BY <3>1, <3>2, AttemptsStay
  <2> QED BY <2>1, <2>2, <2>3, <2>4
<1> QED BY <1>3, <1>4 DEF F!Next

(***************************************************************************)
(* A challenge is answered wrongly MAX_TOTP_ATTEMPTS times at most, plus   *)
(* once for each further request that was answering it by then (auth.rs    *)
(* looks at the count and adds to it in two statements).                   *)
(***************************************************************************)
THEOREM SignInsAreLimited ==
  ASSUME F!SecondFactorAssumption
  PROVE  F!Spec => []F!SecondFactorTypeOK
<1>1. F!Init => FactorInv /\ AttemptsCounted
  BY FactorInit DEF F!Init, AttemptsCounted
<1>2. FactorInv /\ AttemptsCounted /\ [F!Next]_F!vars => FactorInv' /\ AttemptsCounted'
  BY FactorNext, AttemptsNext DEF FactorInv
<1>3. FactorInv /\ AttemptsCounted => F!SecondFactorTypeOK
  <2>1. SUFFICES ASSUME FactorTyped, AttemptsCounted PROVE F!SecondFactorTypeOK
    BY DEF FactorInv
  <2>2. ASSUME NEW c \in challenges
        PROVE  c \in [n : 1..MaxChallenges,
                      attempts : 0..(MAX_TOTP_ATTEMPTS + F!Cardinality(Workers) - 1)]
    <3>1. /\ c \in SignIn /\ Cardinality(Workers) \in Nat
          /\ Cardinality(Trying(c.n)) \in Nat /\ MAX_TOTP_ATTEMPTS \in Nat
          /\ F!Cardinality(Workers) = Cardinality(Workers)
      BY <2>1, <2>2, TryingIsFinite, SameCardinality DEF FactorTyped, F!SecondFactorAssumption
    <3>2. c.attempts \in 0..(MAX_TOTP_ATTEMPTS + Cardinality(Workers) - 1)
      BY <2>1, <2>2, <3>1 DEF AttemptsCounted, SignIn
    <3> QED BY <3>1, <3>2 DEF SignIn
  <2> QED BY <2>1, <2>2 DEF FactorTyped, F!SecondFactorTypeOK, Secrets, FactorJob, FactorSteps
<1> QED BY <1>1, <1>2, <1>3, PTL DEF F!Spec

(***************************************************************************)
(* A recovery code signs one person in, a TOTP code too unless two requests*)
(* verified one at the same time, and the secret a person has is one they  *)
(* confirmed (totp.rs, account.rs), for any number of requests, secrets,   *)
(* sets of codes and challenges, and any order of their statements; and    *)
(* the tables of the members and of the codes hold what they may.          *)
(***************************************************************************)
THEOREM EachCodeOnce ==
  ASSUME F!SecondFactorAssumption
  PROVE  Spec /\ F!Spec => []SecondFactorHolds
<1>1. F!Init => FactorInv
  BY FactorInit
<1>2. FactorInv /\ [F!Next]_F!vars => FactorInv'
  BY FactorNext
<1>3. FactorInv => F!SecondFactorHolds
  BY DEF FactorInv, CodesWorkOnce, Once, InTurn, F!SecondFactorHolds
<1>4. F!Spec => []F!SecondFactorHolds
  BY <1>1, <1>2, <1>3, PTL DEF F!Spec
<1> QED BY <1>4, MembersTypes, SignInsAreLimited, PTL DEF SecondFactorHolds

-----------------------------------------------------------------------------
(* Passwords *)

SigningIn == [step : {"create", "workspace", "issue", "rehash"}, of : Addresses, word : Chosen]
Resetting == [step : {"mark", "hash", "revoke"}, of : Addresses, word : Chosen, link : Nat]
Link == [of : Addresses, used : BOOLEAN]

PasswordsTyped ==
  /\ hash \in [Addresses -> Chosen \cup {P!NoAccount}]
  /\ personal \in [Addresses -> Nat] /\ knows \in [Addresses -> SUBSET Chosen]
  /\ outdated \subseteq Addresses /\ interrupted \subseteq Addresses
  /\ resetCrossed \subseteq Addresses
  /\ links \in Seq(Link) /\ spent \in Seq(Nat) /\ Len(spent) = Len(links)
  /\ doing \in [Workers -> {P!Idle} \cup SigningIn \cup Resetting]

\* What is done for an address, once it is past registering it, is done for an account.
Registered ==
  /\ \A e \in Addresses : hash[e] = P!NoAccount => personal[e] = 0 /\ knows[e] = {}
  /\ \A r \in Workers : doing[r].step \notin {"idle", "create"} => hash[doing[r].of] # P!NoAccount
  /\ \A n \in DOMAIN links : hash[links[n].of] # P!NoAccount

\* One request at most is about to make an account its workspace.
Furnishes(r, e) == doing[r].step = "workspace" /\ doing[r].of = e
WorkspacesCounted ==
  \A e \in Addresses :
    /\ personal[e] <= 1
    /\ \A r \in Workers : Furnishes(r, e) =>
         personal[e] = 0 /\ \A q \in Workers : Furnishes(q, e) => q = r
    /\ hash[e] # P!NoAccount /\ personal[e] = 0 =>
         e \in interrupted \/ \E r \in Workers : Furnishes(r, e)

\* A sign-in under way was checked against the password of now, and who is signed
\* in knows it unless a reset is about to sign everybody out.
WordsAreCurrent ==
  /\ \A r \in Workers :
       doing[r].step \in {"workspace", "issue", "rehash"} /\ doing[r].of \notin resetCrossed =>
         doing[r].word = hash[doing[r].of]
  /\ \A e \in Addresses \ (resetCrossed \cup interrupted) :
       \/ knows[e] \subseteq {hash[e]}
       \/ \E r \in Workers : doing[r].step = "revoke" /\ doing[r].of = e

\* A link under way was not spent, and one that was is used.
LinksCounted ==
  /\ \A r \in Workers : doing[r].step \in {"mark", "hash", "revoke"} =>
       /\ doing[r].link \in DOMAIN links /\ doing[r].of = links[doing[r].link].of
       /\ doing[r].of \notin resetCrossed => spent[doing[r].link] = 0
       /\ doing[r].step # "mark" => links[doing[r].link].used
  /\ \A n \in DOMAIN links :
       (spent[n] > 0 => links[n].used) /\ (spent[n] > 1 => links[n].of \in resetCrossed)

PasswordsInv == PasswordsTyped /\ Registered /\ WorkspacesCounted /\ WordsAreCurrent /\ LinksCounted

LEMMA PasswordsInit == P!Init => PasswordsInv
<1> SUFFICES ASSUME P!Init PROVE PasswordsInv
  OBVIOUS
<1> USE DEF P!Init
<1>1. \A r \in Workers : doing[r] = P!Idle /\ doing[r].step = "idle"
  BY DEF P!Idle
<1>2. PasswordsTyped
  BY DEF PasswordsTyped
<1> QED
  BY <1>1, <1>2 DEF PasswordsInv, Registered, WorkspacesCounted, WordsAreCurrent, LinksCounted, Furnishes

OthersGoOn(r) == \A q \in Workers \ {r} : doing'[q] = doing[q]

LEMMA LinkFacts ==
  ASSUME PasswordsTyped
  PROVE  /\ DOMAIN links = DOMAIN spent /\ DOMAIN links \subseteq Nat
         /\ \A n \in DOMAIN links : /\ links[n] \in Link /\ links[n].of \in Addresses
                                    /\ spent[n] \in Nat
<1>1. links \in Seq(Link) /\ spent \in Seq(Nat) /\ Len(spent) = Len(links)
  BY DEF PasswordsTyped
<1>2. /\ DOMAIN links = DOMAIN spent /\ DOMAIN links \subseteq Nat
      /\ \A n \in DOMAIN links : links[n] \in Link /\ spent[n] \in Nat
  BY <1>1
<1>3. \A k \in Link : k.of \in Addresses
  BY DEF Link
<1> QED BY <1>2, <1>3

LEMMA JobKinds ==
  ASSUME PasswordsTyped, NEW r \in Workers
  PROVE  /\ doing[r] = P!Idle => doing[r].step = "idle"
         /\ doing[r].step = "idle" => doing[r] = P!Idle
         /\ doing[r].step \in {"create", "workspace", "issue", "rehash"} => doing[r] \in SigningIn
         /\ doing[r].step \in {"mark", "hash", "revoke"} => doing[r] \in Resetting
         /\ doing[r].step \in {"idle", "create", "workspace", "issue", "rehash", "mark", "hash", "revoke"}
         /\ doing[r].step # "idle" => doing[r].of \in Addresses /\ doing[r].word \in Chosen
<1>1. doing[r] \in {P!Idle} \cup SigningIn \cup Resetting
  BY DEF PasswordsTyped
<1> QED BY <1>1 DEF P!Idle, SigningIn, Resetting

\* A request moves on, ends, or begins.
LEMMA SignInMoves ==
  ASSUME PasswordsTyped, NEW r \in Workers, NEW step \in {"workspace", "issue"},
         doing[r].step \in {"create", "workspace", "rehash"}, P!Goes(r, step)
  PROVE  /\ doing' \in [Workers -> {P!Idle} \cup SigningIn \cup Resetting] /\ OthersGoOn(r)
         /\ doing'[r].step = step /\ doing'[r].of = doing[r].of /\ doing'[r].word = doing[r].word
<1>1. doing[r] \in SigningIn
  BY JobKinds
<1>2. PICK new : new = [doing[r] EXCEPT !.step = step]
  OBVIOUS
<1>3. new \in SigningIn /\ new.step = step /\ new.of = doing[r].of /\ new.word = doing[r].word
  BY <1>1, <1>2 DEF SigningIn
<1>4. doing' = [doing EXCEPT ![r] = new]
  BY <1>2 DEF P!Goes
<1> QED BY <1>3, <1>4 DEF PasswordsTyped, OthersGoOn

LEMMA ResetMoves ==
  ASSUME PasswordsTyped, NEW r \in Workers, NEW step \in {"hash", "revoke"},
         doing[r].step \in {"mark", "hash"}, P!Goes(r, step)
  PROVE  /\ doing' \in [Workers -> {P!Idle} \cup SigningIn \cup Resetting] /\ OthersGoOn(r)
         /\ doing'[r].step = step /\ doing'[r].of = doing[r].of
         /\ doing'[r].word = doing[r].word /\ doing'[r].link = doing[r].link
<1>1. doing[r] \in Resetting
  BY JobKinds
<1>2. PICK new : new = [doing[r] EXCEPT !.step = step]
  OBVIOUS
<1>3. /\ new \in Resetting /\ new.step = step /\ new.of = doing[r].of
      /\ new.word = doing[r].word /\ new.link = doing[r].link
  BY <1>1, <1>2 DEF Resetting
<1>4. doing' = [doing EXCEPT ![r] = new]
  BY <1>2 DEF P!Goes
<1> QED BY <1>3, <1>4 DEF PasswordsTyped, OthersGoOn

LEMMA RequestEnds ==
  ASSUME PasswordsTyped, NEW r \in Workers, P!Ends(r)
  PROVE  /\ doing' \in [Workers -> {P!Idle} \cup SigningIn \cup Resetting] /\ OthersGoOn(r)
         /\ doing'[r].step = "idle"
  BY DEF PasswordsTyped, P!Ends, P!Idle, OthersGoOn

LEMMA RequestBegins ==
  ASSUME PasswordsTyped, NEW r \in Workers, NEW new \in SigningIn \cup Resetting,
         doing' = [doing EXCEPT ![r] = new]
  PROVE  /\ doing' \in [Workers -> {P!Idle} \cup SigningIn \cup Resetting] /\ OthersGoOn(r)
         /\ doing'[r] = new
  BY DEF PasswordsTyped, OthersGoOn

LEMMA RegisterKeeps ==
  ASSUME P!PasswordsAssumption, PasswordsInv, NEW r \in Workers, NEW e \in Addresses,
         NEW word \in Chosen, P!Register(r, e, word)
  PROVE  PasswordsInv'
<1>1. PICK new \in SigningIn : new = [step |-> "create", of |-> e, word |-> word]
  BY DEF SigningIn
<1>2. /\ doing' \in [Workers -> {P!Idle} \cup SigningIn \cup Resetting] /\ OthersGoOn(r)
      /\ doing'[r].step = "create" /\ doing[r].step = "idle"
  BY <1>1, RequestBegins DEF P!Register, P!Busy, PasswordsInv
<1>3. UNCHANGED <<hash, outdated, personal, knows, links, interrupted, resetCrossed, spent>>
  BY DEF P!Register
<1>4. PasswordsTyped'
  BY <1>2, <1>3 DEF PasswordsInv, PasswordsTyped
<1>5. Registered'
  BY <1>2, <1>3 DEF PasswordsInv, Registered, OthersGoOn
<1>6. WorkspacesCounted'
  BY <1>2, <1>3 DEF PasswordsInv, WorkspacesCounted, Furnishes, OthersGoOn
<1>7. WordsAreCurrent'
  BY <1>2, <1>3 DEF PasswordsInv, WordsAreCurrent, OthersGoOn
<1>8. LinksCounted'
  BY <1>2, <1>3 DEF PasswordsInv, LinksCounted, OthersGoOn
<1> QED BY <1>4, <1>5, <1>6, <1>7, <1>8 DEF PasswordsInv

LEMMA CreateAccountKeeps ==
  ASSUME P!PasswordsAssumption, PasswordsInv, NEW r \in Workers, P!CreateAccount(r)
  PROVE  PasswordsInv'
<1>0. PasswordsTyped /\ doing[r].step = "create" /\ doing[r].of \in Addresses
      /\ doing[r].word \in Chosen
  BY JobKinds DEF PasswordsInv, P!CreateAccount, P!Busy
<1>3. UNCHANGED <<outdated, personal, knows, links, interrupted, resetCrossed, spent>>
  BY DEF P!CreateAccount
<1>1. CASE hash[doing[r].of] = P!NoAccount
  <2>1. /\ P!Goes(r, "workspace") /\ hash' = [hash EXCEPT ![doing[r].of] = doing[r].word]
    BY <1>1 DEF P!CreateAccount
  <2>2. /\ doing' \in [Workers -> {P!Idle} \cup SigningIn \cup Resetting] /\ OthersGoOn(r)
        /\ doing'[r].step = "workspace" /\ doing'[r].of = doing[r].of
        /\ doing'[r].word = doing[r].word
    BY <1>0, <2>1, SignInMoves
  <2>3. PICK e \in Addresses : e = doing[r].of /\ hash[e] = P!NoAccount
    BY <1>0, <1>1
  <2>4. /\ hash' \in [Addresses -> Chosen \cup {P!NoAccount}] /\ hash'[e] = doing[r].word
        /\ hash'[e] # P!NoAccount /\ \A d \in Addresses : d # e => hash'[d] = hash[d]
    BY <1>0, <2>1, <2>3 DEF PasswordsTyped, P!PasswordsAssumption
  <2>5. /\ personal[e] = 0 /\ knows[e] = {}
        /\ \A q \in Workers : doing[q].step \notin {"idle", "create"} => doing[q].of # e
        /\ \A q \in Workers : doing[q].step \notin {"idle"} => doing[q].of \in Addresses
    BY <2>3, <1>0, JobKinds DEF PasswordsInv, Registered
  <2>6. PasswordsTyped'
    BY <1>0, <2>2, <1>3, <2>4 DEF PasswordsTyped
  <2>7. Registered'
    <3>1. \A n \in DOMAIN links : links[n].of \in Addresses
      BY <1>0, LinkFacts
    <3>2. \A q \in Workers :
            doing'[q].step \notin {"idle", "create"} => hash'[doing'[q].of] # P!NoAccount
      BY <2>2, <2>3, <2>4, <2>5 DEF PasswordsInv, Registered, OthersGoOn
    <3> QED BY <1>3, <2>4, <3>1, <3>2 DEF PasswordsInv, Registered
  <2>8. WorkspacesCounted'
    BY <1>3, <2>2, <2>3, <2>4, <2>5 DEF PasswordsInv, WorkspacesCounted, Furnishes, OthersGoOn
  <2>9. WordsAreCurrent'
    <3>1. \A q \in Workers :
            doing'[q].step \in {"workspace", "issue", "rehash"} /\ doing'[q].of \notin resetCrossed =>
              doing'[q].word = hash'[doing'[q].of]
      BY <2>2, <2>3, <2>4, <2>5 DEF PasswordsInv, WordsAreCurrent, OthersGoOn
    <3>2. ASSUME NEW d \in Addresses \ (resetCrossed \cup interrupted)
          PROVE  \/ knows[d] \subseteq {hash'[d]}
                 \/ \E q \in Workers : doing'[q].step = "revoke" /\ doing'[q].of = d
      BY <1>0, <2>2, <2>4, <2>5 DEF PasswordsInv, WordsAreCurrent, OthersGoOn
    <3> QED BY <1>3, <3>1, <3>2 DEF WordsAreCurrent
  <2>10. LinksCounted'
    BY <2>2, <1>3 DEF PasswordsInv, LinksCounted, OthersGoOn
  <2> QED BY <2>6, <2>7, <2>8, <2>9, <2>10 DEF PasswordsInv
<1>2. CASE hash[doing[r].of] # P!NoAccount
  <2>1. hash' = hash /\ P!Ends(r)
    BY <1>2 DEF P!CreateAccount
  <2>2. /\ doing' \in [Workers -> {P!Idle} \cup SigningIn \cup Resetting] /\ OthersGoOn(r)
        /\ doing'[r].step = "idle"
    BY <1>0, <2>1, RequestEnds
  <2>4. PasswordsTyped'
    BY <1>0, <1>3, <2>1, <2>2 DEF PasswordsTyped
  <2>5. Registered'
    BY <1>3, <2>1, <2>2 DEF PasswordsInv, Registered, OthersGoOn
  <2>6. WorkspacesCounted'
    BY <1>0, <1>3, <2>1, <2>2 DEF PasswordsInv, WorkspacesCounted, Furnishes, OthersGoOn
  <2>7. WordsAreCurrent'
    BY <1>0, <1>3, <2>1, <2>2 DEF PasswordsInv, WordsAreCurrent, OthersGoOn
  <2>8. LinksCounted'
    BY <1>3, <2>2 DEF PasswordsInv, LinksCounted, OthersGoOn
  <2> QED BY <2>4, <2>5, <2>6, <2>7, <2>8 DEF PasswordsInv
<1> QED BY <1>1, <1>2

LEMMA CreateWorkspaceKeeps ==
  ASSUME PasswordsInv, NEW r \in Workers, P!CreateWorkspace(r)
  PROVE  PasswordsInv'
<1>0. PasswordsTyped /\ doing[r].step = "workspace"
  BY DEF PasswordsInv, P!CreateWorkspace, P!Busy
<1>1. PICK e \in Addresses : e = doing[r].of
  BY <1>0, JobKinds
<1>2. /\ doing' \in [Workers -> {P!Idle} \cup SigningIn \cup Resetting] /\ OthersGoOn(r)
      /\ doing'[r].step = "issue" /\ doing'[r].of = e /\ doing'[r].word = doing[r].word
  BY <1>0, <1>1, SignInMoves DEF P!CreateWorkspace
<1>3. UNCHANGED <<hash, outdated, knows, links, interrupted, resetCrossed, spent>>
  BY DEF P!CreateWorkspace
<1>4. /\ personal[e] = 0 /\ hash[e] # P!NoAccount
      /\ \A q \in Workers : Furnishes(q, e) => q = r
  BY <1>0, <1>1 DEF PasswordsInv, WorkspacesCounted, Registered, Furnishes
<1>5. /\ personal' \in [Addresses -> Nat] /\ personal'[e] = 1
      /\ \A d \in Addresses : d # e => personal'[d] = personal[d]
  BY <1>0, <1>1, <1>4 DEF PasswordsTyped, P!CreateWorkspace
<1>6. PasswordsTyped'
  BY <1>0, <1>2, <1>3, <1>5 DEF PasswordsTyped
<1>7. Registered'
  BY <1>2, <1>3, <1>4, <1>5 DEF PasswordsInv, Registered, OthersGoOn
<1>8. WorkspacesCounted'
  <2>1. ASSUME NEW d \in Addresses
        PROVE  /\ personal'[d] <= 1
               /\ \A q \in Workers : Furnishes(q, d)' =>
                    personal'[d] = 0 /\ \A v \in Workers : Furnishes(v, d)' => v = q
               /\ hash[d] # P!NoAccount /\ personal'[d] = 0 =>
                    d \in interrupted \/ \E q \in Workers : Furnishes(q, d)'
    <3>1. CASE d = e
      BY <3>1, <1>2, <1>4, <1>5 DEF Furnishes, OthersGoOn
    <3>2. CASE d # e
      <4>1. \A q \in Workers : Furnishes(q, d)' <=> Furnishes(q, d)
        BY <3>2, <1>1, <1>2 DEF Furnishes, OthersGoOn
      <4> QED BY <3>2, <4>1, <1>5 DEF PasswordsInv, WorkspacesCounted
    <3> QED BY <3>1, <3>2
  <2> QED BY <1>3, <2>1 DEF WorkspacesCounted
<1>9. WordsAreCurrent'
  BY <1>0, <1>1, <1>2, <1>3 DEF PasswordsInv, WordsAreCurrent, OthersGoOn
<1>10. LinksCounted'
  BY <1>2, <1>3 DEF PasswordsInv, LinksCounted, OthersGoOn
<1> QED BY <1>6, <1>7, <1>8, <1>9, <1>10 DEF PasswordsInv

LEMMA IssueKeeps ==
  ASSUME PasswordsInv, NEW r \in Workers, P!Issue(r)
  PROVE  PasswordsInv'
<1>0. PasswordsTyped /\ doing[r].step = "issue"
  BY DEF PasswordsInv, P!Issue, P!Busy
<1>1. PICK e \in Addresses : e = doing[r].of
  BY <1>0, JobKinds
<1>2. /\ doing' \in [Workers -> {P!Idle} \cup SigningIn \cup Resetting] /\ OthersGoOn(r)
      /\ doing'[r].step = "idle"
  BY <1>0, RequestEnds DEF P!Issue
<1>3. UNCHANGED <<hash, outdated, personal, links, interrupted, resetCrossed, spent>>
  BY DEF P!Issue
<1>4. /\ hash[e] # P!NoAccount /\ (e \notin resetCrossed => doing[r].word = hash[e])
      /\ doing[r].word \in Chosen
  BY <1>0, <1>1, JobKinds DEF PasswordsInv, Registered, WordsAreCurrent
<1>5. /\ knows' \in [Addresses -> SUBSET Chosen] /\ knows'[e] = knows[e] \cup {doing[r].word}
      /\ \A d \in Addresses : d # e => knows'[d] = knows[d]
  BY <1>0, <1>1, <1>4 DEF PasswordsTyped, P!Issue
<1>6. PasswordsTyped'
  BY <1>0, <1>2, <1>3, <1>5 DEF PasswordsTyped
<1>7. Registered'
  BY <1>2, <1>3, <1>4, <1>5 DEF PasswordsInv, Registered, OthersGoOn
<1>8. WorkspacesCounted'
  BY <1>0, <1>2, <1>3 DEF PasswordsInv, WorkspacesCounted, Furnishes, OthersGoOn
<1>9. WordsAreCurrent'
  <2>1. \A q \in Workers : doing[q].step = "revoke" => doing'[q] = doing[q]
    BY <1>0, <1>2 DEF OthersGoOn
  <2>2. ASSUME NEW d \in Addresses \ (resetCrossed \cup interrupted)
        PROVE  \/ knows'[d] \subseteq {hash[d]}
               \/ \E q \in Workers : doing'[q].step = "revoke" /\ doing'[q].of = d
    BY <1>4, <1>5, <2>1 DEF PasswordsInv, WordsAreCurrent
  <2>3. \A q \in Workers :
          doing'[q].step \in {"workspace", "issue", "rehash"} /\ doing'[q].of \notin resetCrossed =>
            doing'[q].word = hash[doing'[q].of]
    BY <1>2 DEF PasswordsInv, WordsAreCurrent, OthersGoOn
  <2> QED BY <1>3, <2>2, <2>3 DEF WordsAreCurrent
<1>10. LinksCounted'
  BY <1>2, <1>3 DEF PasswordsInv, LinksCounted, OthersGoOn
<1> QED BY <1>6, <1>7, <1>8, <1>9, <1>10 DEF PasswordsInv

LEMMA AuthenticateKeeps ==
  ASSUME PasswordsInv, NEW r \in Workers, NEW e \in Addresses, P!Authenticate(r, e)
  PROVE  PasswordsInv'
<1>0. PasswordsTyped /\ doing[r].step = "idle" /\ hash[e] # P!NoAccount
  BY DEF PasswordsInv, P!Authenticate, P!Busy
<1>1. PICK step \in {"rehash", "issue"} :
        doing' = [doing EXCEPT ![r] = [step |-> step, of |-> e, word |-> hash[e]]]
  BY DEF P!Authenticate
<1>2. PICK new \in SigningIn : new = [step |-> step, of |-> e, word |-> hash[e]]
  BY <1>0 DEF SigningIn, PasswordsTyped
<1>3. /\ doing' \in [Workers -> {P!Idle} \cup SigningIn \cup Resetting] /\ OthersGoOn(r)
      /\ doing'[r].step = step /\ doing'[r].of = e /\ doing'[r].word = hash[e]
  BY <1>0, <1>1, <1>2, RequestBegins
<1>4. UNCHANGED <<hash, outdated, personal, knows, links, interrupted, resetCrossed, spent>>
  BY DEF P!Authenticate
<1>5. PasswordsTyped'
  BY <1>0, <1>3, <1>4 DEF PasswordsTyped
<1>6. Registered'
  BY <1>0, <1>3, <1>4 DEF PasswordsInv, Registered, OthersGoOn
<1>7. WorkspacesCounted'
  BY <1>0, <1>3, <1>4 DEF PasswordsInv, WorkspacesCounted, Furnishes, OthersGoOn
<1>8. WordsAreCurrent'
  BY <1>0, <1>3, <1>4 DEF PasswordsInv, WordsAreCurrent, OthersGoOn
<1>9. LinksCounted'
  BY <1>3, <1>4 DEF PasswordsInv, LinksCounted, OthersGoOn
<1> QED BY <1>5, <1>6, <1>7, <1>8, <1>9 DEF PasswordsInv

LEMMA RehashKeeps ==
  ASSUME P!PasswordsAssumption, PasswordsInv, NEW r \in Workers, P!Rehash(r)
  PROVE  PasswordsInv'
<1>0. PasswordsTyped /\ doing[r].step = "rehash" /\ doing[r].word \in Chosen
  BY JobKinds DEF PasswordsInv, P!Rehash, P!Busy
<1>1. PICK e \in Addresses : e = doing[r].of
  BY <1>0, JobKinds
<1>2. /\ doing' \in [Workers -> {P!Idle} \cup SigningIn \cup Resetting] /\ OthersGoOn(r)
      /\ doing'[r].step = "issue" /\ doing'[r].of = e /\ doing'[r].word = doing[r].word
  BY <1>0, <1>1, SignInMoves DEF P!Rehash
<1>3. UNCHANGED <<personal, knows, links, interrupted, resetCrossed, spent>>
      /\ outdated' \subseteq outdated
  BY DEF P!Rehash
<1>4. /\ hash[e] # P!NoAccount /\ (e \notin resetCrossed => doing[r].word = hash[e])
  BY <1>0, <1>1 DEF PasswordsInv, Registered, WordsAreCurrent
<1>5. /\ hash' \in [Addresses -> Chosen \cup {P!NoAccount}] /\ hash'[e] = doing[r].word
      /\ hash'[e] # P!NoAccount /\ \A d \in Addresses : d # e => hash'[d] = hash[d]
      /\ \A d \in Addresses : hash'[d] = P!NoAccount <=> hash[d] = P!NoAccount
      /\ \A d \in Addresses \ resetCrossed : hash'[d] = hash[d]
  <2>1. hash' = [hash EXCEPT ![e] = doing[r].word] /\ doing[r].word # P!NoAccount
    BY <1>0, <1>1 DEF P!Rehash, P!PasswordsAssumption
  <2> QED BY <2>1, <1>0, <1>4 DEF PasswordsTyped
<1>6. PasswordsTyped'
  BY <1>0, <1>2, <1>3, <1>5 DEF PasswordsTyped
<1>7. Registered'
  <2>1. \A n \in DOMAIN links : links[n].of \in Addresses
    BY <1>0, LinkFacts
  <2>2. \A q \in Workers : doing[q].step # "idle" => doing[q].of \in Addresses
    BY <1>0, JobKinds
  <2>3. \A q \in Workers :
          doing'[q].step \notin {"idle", "create"} => hash'[doing'[q].of] # P!NoAccount
    BY <1>2, <1>5, <2>2 DEF PasswordsInv, Registered, OthersGoOn
  <2> QED BY <1>3, <1>5, <2>1, <2>3 DEF PasswordsInv, Registered
<1>8. WorkspacesCounted'
  <2>1. \A q \in Workers, d \in Addresses : Furnishes(q, d)' <=> Furnishes(q, d)
    BY <1>0, <1>2 DEF Furnishes, OthersGoOn
  <2> QED BY <1>3, <1>5, <2>1 DEF PasswordsInv, WorkspacesCounted
<1>9. WordsAreCurrent'
  <2>1. \A q \in Workers : doing[q].step # "idle" => doing[q].of \in Addresses
    BY <1>0, JobKinds
  <2>2. \A q \in Workers :
          doing'[q].step \in {"workspace", "issue", "rehash"} /\ doing'[q].of \notin resetCrossed =>
            doing'[q].word = hash'[doing'[q].of]
    BY <1>2, <1>5, <2>1 DEF PasswordsInv, WordsAreCurrent, OthersGoOn
  <2>3. \A q \in Workers : doing[q].step = "revoke" => doing'[q] = doing[q]
    BY <1>0, <1>2 DEF OthersGoOn
  <2>4. ASSUME NEW d \in Addresses \ (resetCrossed \cup interrupted)
        PROVE  \/ knows[d] \subseteq {hash'[d]}
               \/ \E q \in Workers : doing'[q].step = "revoke" /\ doing'[q].of = d
    BY <1>5, <2>3 DEF PasswordsInv, WordsAreCurrent
  <2> QED BY <1>3, <2>2, <2>4 DEF WordsAreCurrent
<1>10. LinksCounted'
  BY <1>2, <1>3 DEF PasswordsInv, LinksCounted, OthersGoOn
<1> QED BY <1>6, <1>7, <1>8, <1>9, <1>10 DEF PasswordsInv

LEMMA ForgotPasswordKeeps ==
  ASSUME PasswordsInv, NEW e \in Addresses, P!ForgotPassword(e)
  PROVE  PasswordsInv'
<1>0. PasswordsTyped /\ hash[e] # P!NoAccount
  BY DEF PasswordsInv, P!ForgotPassword
<1>1. UNCHANGED <<hash, outdated, personal, knows, doing, interrupted, resetCrossed>>
  BY DEF P!ForgotPassword
<1>2. PICK new \in Link : new.of = e /\ new = [of |-> e, used |-> FALSE]
  BY DEF Link
<1>3. /\ links' \in Seq(Link) /\ spent' \in Seq(Nat) /\ Len(spent') = Len(links')
      /\ DOMAIN links \subseteq DOMAIN links'
      /\ \A n \in DOMAIN links : links'[n] = links[n] /\ spent'[n] = spent[n]
      /\ \A n \in DOMAIN links' \ DOMAIN links : links'[n].of = e /\ spent'[n] = 0
  <2>1. links' = Append(links, new) /\ spent' = Append(spent, 0)
    BY <1>2 DEF P!ForgotPassword
  <2>2. links \in Seq(Link) /\ spent \in Seq(Nat) /\ Len(spent) = Len(links)
    BY <1>0 DEF PasswordsTyped
  <2> QED BY <1>2, <2>1, <2>2
<1>4. PasswordsTyped'
  BY <1>0, <1>1, <1>3 DEF PasswordsTyped
<1>5. Registered'
  BY <1>0, <1>1, <1>3 DEF PasswordsInv, Registered
<1>6. WorkspacesCounted' /\ WordsAreCurrent'
  BY <1>1 DEF PasswordsInv, WorkspacesCounted, Furnishes, WordsAreCurrent
<1>7. LinksCounted'
  <2>1. ASSUME NEW q \in Workers, doing[q].step \in {"mark", "hash", "revoke"}
        PROVE  /\ doing[q].link \in DOMAIN links' /\ doing[q].of = links'[doing[q].link].of
               /\ doing[q].of \notin resetCrossed => spent'[doing[q].link] = 0
               /\ doing[q].step # "mark" => links'[doing[q].link].used
    BY <2>1, <1>3 DEF PasswordsInv, LinksCounted
  <2>2. ASSUME NEW n \in DOMAIN links'
        PROVE  (spent'[n] > 0 => links'[n].used) /\ (spent'[n] > 1 => links'[n].of \in resetCrossed)
    <3>1. CASE n \in DOMAIN links
      BY <3>1, <1>3 DEF PasswordsInv, LinksCounted
    <3>2. CASE n \notin DOMAIN links
      <4>1. spent'[n] = 0
        BY <3>2, <1>3
      <4> QED BY <4>1
    <3> QED BY <3>1, <3>2
  <2> QED BY <1>1, <2>1, <2>2 DEF LinksCounted
<1> QED BY <1>4, <1>5, <1>6, <1>7 DEF PasswordsInv

LEMMA FindResetKeeps ==
  ASSUME PasswordsInv, NEW r \in Workers, NEW n \in DOMAIN links, NEW word \in Chosen,
         P!FindReset(r, n, word)
  PROVE  PasswordsInv'
<1>0. PasswordsTyped /\ doing[r].step = "idle" /\ ~links[n].used
  BY DEF PasswordsInv, P!FindReset, P!Busy
<1>1. n \in Nat /\ links[n] \in Link /\ links[n].of \in Addresses
  BY <1>0, LinkFacts
<1>2. PICK new \in Resetting : new = [step |-> "mark", of |-> links[n].of, word |-> word, link |-> n]
  BY <1>1 DEF Resetting
<1>3. /\ doing' \in [Workers -> {P!Idle} \cup SigningIn \cup Resetting] /\ OthersGoOn(r)
      /\ doing'[r].step = "mark" /\ doing'[r].of = links[n].of /\ doing'[r].link = n
  BY <1>0, <1>2, RequestBegins DEF P!FindReset
<1>4. UNCHANGED <<hash, outdated, personal, knows, links, interrupted, resetCrossed, spent>>
  BY DEF P!FindReset
<1>5. PasswordsTyped'
  BY <1>0, <1>3, <1>4 DEF PasswordsTyped
<1>6. Registered'
  BY <1>3, <1>4 DEF PasswordsInv, Registered, OthersGoOn
<1>7. WorkspacesCounted'
  BY <1>0, <1>3, <1>4 DEF PasswordsInv, WorkspacesCounted, Furnishes, OthersGoOn
<1>8. WordsAreCurrent'
  BY <1>0, <1>3, <1>4 DEF PasswordsInv, WordsAreCurrent, OthersGoOn
<1>9. LinksCounted'
  <2>1. spent[n] = 0
    <3>1. spent[n] \in Nat
      BY <1>0, LinkFacts
    <3> QED BY <1>0, <3>1 DEF PasswordsInv, LinksCounted
  <2> QED BY <2>1, <1>3, <1>4 DEF PasswordsInv, LinksCounted, OthersGoOn
<1> QED BY <1>5, <1>6, <1>7, <1>8, <1>9 DEF PasswordsInv

LEMMA MarkUsedKeeps ==
  ASSUME PasswordsInv, NEW r \in Workers, P!MarkUsed(r)
  PROVE  PasswordsInv'
<1>0. PasswordsTyped /\ doing[r].step = "mark"
  BY DEF PasswordsInv, P!MarkUsed, P!Busy
<1>1. PICK n \in DOMAIN links : n = doing[r].link /\ doing[r].of = links[n].of
  BY <1>0 DEF PasswordsInv, LinksCounted
<1>2. /\ doing' \in [Workers -> {P!Idle} \cup SigningIn \cup Resetting] /\ OthersGoOn(r)
      /\ doing'[r].step = "hash" /\ doing'[r].of = doing[r].of /\ doing'[r].link = n
  BY <1>0, <1>1, ResetMoves DEF P!MarkUsed
<1>3. UNCHANGED <<hash, outdated, personal, knows, interrupted, resetCrossed, spent>>
  BY DEF P!MarkUsed
<1>4. /\ links' \in Seq(Link) /\ Len(links') = Len(links) /\ DOMAIN links' = DOMAIN links
      /\ links'[n].used
      /\ \A m \in DOMAIN links : links'[m].of = links[m].of /\ (links[m].used => links'[m].used)
  <2>1. links \in Seq(Link) /\ links[n] \in Link
    BY <1>0 DEF PasswordsTyped
  <2>2. PICK new : new = [links[n] EXCEPT !.used = TRUE]
    OBVIOUS
  <2>4. new \in Link /\ new.of = links[n].of /\ new.used
    BY <2>1, <2>2 DEF Link
  <2>3. links' = [links EXCEPT ![n] = new]
    BY <1>1, <2>2 DEF P!MarkUsed
  <2> QED BY <2>1, <2>3, <2>4
<1>5. PasswordsTyped'
  BY <1>0, <1>2, <1>3, <1>4 DEF PasswordsTyped
<1>6. Registered'
  <2>1. \A q \in Workers :
          doing'[q].step \notin {"idle", "create"} => hash[doing'[q].of] # P!NoAccount
    BY <1>0, <1>2 DEF PasswordsInv, Registered, OthersGoOn
  <2> QED BY <1>3, <1>4, <2>1 DEF PasswordsInv, Registered
<1>7. WorkspacesCounted'
  BY <1>0, <1>2, <1>3 DEF PasswordsInv, WorkspacesCounted, Furnishes, OthersGoOn
<1>8. WordsAreCurrent'
  BY <1>0, <1>2, <1>3 DEF PasswordsInv, WordsAreCurrent, OthersGoOn
<1>9. LinksCounted'
  BY <1>0, <1>1, <1>2, <1>3, <1>4 DEF PasswordsInv, LinksCounted, OthersGoOn
<1> QED BY <1>5, <1>6, <1>7, <1>8, <1>9 DEF PasswordsInv

\* Whoever else is at work for the address of a reset is counted as crossed by it.
LEMMA CrossesOthers ==
  ASSUME PasswordsTyped, NEW r \in Workers, doing[r].of \in Addresses, P!Crosses(r)
  PROVE  /\ resetCrossed \subseteq resetCrossed' /\ resetCrossed' \subseteq Addresses
         /\ resetCrossed' \subseteq resetCrossed \cup {doing[r].of}
         /\ \A q \in Workers : q # r /\ doing[q].step # "idle" /\ doing[q].of = doing[r].of =>
              doing[r].of \in resetCrossed'
  BY DEF P!Crosses, P!Others, PasswordsTyped

LEMMA UpdateKeeps ==
  ASSUME P!PasswordsAssumption, PasswordsInv, NEW r \in Workers, P!UpdatePasswordHash(r)
  PROVE  PasswordsInv'
<1>0. PasswordsTyped /\ doing[r].step = "hash" /\ doing[r].word \in Chosen
  BY JobKinds DEF PasswordsInv, P!UpdatePasswordHash, P!Busy
<1>1. PICK e \in Addresses : e = doing[r].of
  BY <1>0, JobKinds
<1>2. /\ doing' \in [Workers -> {P!Idle} \cup SigningIn \cup Resetting] /\ OthersGoOn(r)
      /\ doing'[r].step = "revoke" /\ doing'[r].of = e /\ doing'[r].link = doing[r].link
  BY <1>0, <1>1, ResetMoves DEF P!UpdatePasswordHash
<1>3. UNCHANGED <<personal, knows, links, interrupted, spent>> /\ outdated' \subseteq outdated
  BY DEF P!UpdatePasswordHash
<1>4. /\ resetCrossed \subseteq resetCrossed' /\ resetCrossed' \subseteq Addresses
      /\ \A q \in Workers : q # r /\ doing[q].step # "idle" /\ doing[q].of = e => e \in resetCrossed'
  BY <1>0, <1>1, CrossesOthers DEF P!UpdatePasswordHash
<1>5. hash[e] # P!NoAccount
  BY <1>0, <1>1 DEF PasswordsInv, Registered
<1>6. /\ hash' \in [Addresses -> Chosen \cup {P!NoAccount}] /\ hash'[e] # P!NoAccount
      /\ \A d \in Addresses : d # e => hash'[d] = hash[d]
      /\ \A d \in Addresses : hash'[d] = P!NoAccount <=> hash[d] = P!NoAccount
  <2>1. hash' = [hash EXCEPT ![e] = doing[r].word] /\ doing[r].word # P!NoAccount
    BY <1>0, <1>1 DEF P!UpdatePasswordHash, P!PasswordsAssumption
  <2> QED BY <2>1, <1>0, <1>5 DEF PasswordsTyped
<1>7. \A q \in Workers : doing[q].step # "idle" => doing[q].of \in Addresses
  BY <1>0, JobKinds
<1>8. PasswordsTyped'
  BY <1>0, <1>2, <1>3, <1>4, <1>6 DEF PasswordsTyped
<1>9. Registered'
  <2>1. \A n \in DOMAIN links : links[n].of \in Addresses
    BY <1>0, LinkFacts
  <2>2. \A q \in Workers :
          doing'[q].step \notin {"idle", "create"} => hash'[doing'[q].of] # P!NoAccount
    BY <1>2, <1>6, <1>7 DEF PasswordsInv, Registered, OthersGoOn
  <2> QED BY <1>3, <1>6, <2>1, <2>2 DEF PasswordsInv, Registered
<1>10. WorkspacesCounted'
  <2>1. \A q \in Workers, d \in Addresses : Furnishes(q, d)' <=> Furnishes(q, d)
    BY <1>0, <1>2 DEF Furnishes, OthersGoOn
  <2> QED BY <1>3, <1>6, <2>1 DEF PasswordsInv, WorkspacesCounted
<1>11. WordsAreCurrent'
  <2>1. ASSUME NEW q \in Workers, doing'[q].step \in {"workspace", "issue", "rehash"},
               doing'[q].of \notin resetCrossed'
        PROVE  doing'[q].word = hash'[doing'[q].of]
    <3>1. q # r /\ doing'[q] = doing[q] /\ doing[q].of # e /\ doing[q].of \in Addresses
      BY <1>2, <1>4, <1>7, <2>1 DEF OthersGoOn
    <3> QED BY <3>1, <2>1, <1>4, <1>6 DEF PasswordsInv, WordsAreCurrent
  <2>2. ASSUME NEW d \in Addresses \ (resetCrossed' \cup interrupted)
        PROVE  \/ knows[d] \subseteq {hash'[d]}
               \/ \E q \in Workers : doing'[q].step = "revoke" /\ doing'[q].of = d
    <3>1. CASE d = e
      BY <3>1, <1>2
    <3>2. CASE d # e
      <4>1. \A q \in Workers : doing[q].step = "revoke" => doing'[q] = doing[q]
        BY <1>0, <1>2 DEF OthersGoOn
      <4> QED BY <3>2, <4>1, <1>4, <1>6 DEF PasswordsInv, WordsAreCurrent
    <3> QED BY <3>1, <3>2
  <2> QED BY <1>3, <2>1, <2>2 DEF WordsAreCurrent
<1>12. LinksCounted'
  BY <1>0, <1>1, <1>2, <1>3, <1>4 DEF PasswordsInv, LinksCounted, OthersGoOn
<1> QED BY <1>8, <1>9, <1>10, <1>11, <1>12 DEF PasswordsInv

LEMMA RevokeKeeps ==
  ASSUME PasswordsInv, NEW r \in Workers, P!RevokeAll(r)
  PROVE  PasswordsInv'
<1>0. PasswordsTyped /\ doing[r].step = "revoke"
  BY DEF PasswordsInv, P!RevokeAll, P!Busy
<1>1. PICK e \in Addresses, n \in DOMAIN links :
        e = doing[r].of /\ n = doing[r].link /\ links[n].of = e /\ links[n].used
        /\ (e \notin resetCrossed => spent[n] = 0)
  BY <1>0, JobKinds DEF PasswordsInv, LinksCounted
<1>2. /\ doing' \in [Workers -> {P!Idle} \cup SigningIn \cup Resetting] /\ OthersGoOn(r)
      /\ doing'[r].step = "idle"
  BY <1>0, RequestEnds DEF P!RevokeAll
<1>3. UNCHANGED <<hash, outdated, personal, links, interrupted>>
  BY DEF P!RevokeAll
<1>4. /\ resetCrossed \subseteq resetCrossed' /\ resetCrossed' \subseteq Addresses
      /\ \A q \in Workers : q # r /\ doing[q].step # "idle" /\ doing[q].of = e => e \in resetCrossed'
  BY <1>0, <1>1, CrossesOthers DEF P!RevokeAll
<1>5. /\ knows' \in [Addresses -> SUBSET Chosen] /\ knows'[e] = {}
      /\ \A d \in Addresses : d # e => knows'[d] = knows[d]
  BY <1>0, <1>1 DEF PasswordsTyped, P!RevokeAll
<1>6. /\ spent' \in Seq(Nat) /\ Len(spent') = Len(spent) /\ spent'[n] = spent[n] + 1
      /\ spent[n] \in Nat
      /\ \A m \in DOMAIN links : m # n => spent'[m] = spent[m]
  <2>1. spent \in Seq(Nat) /\ n \in DOMAIN spent /\ spent' = [spent EXCEPT ![n] = @ + 1]
        /\ DOMAIN links = DOMAIN spent
    BY <1>0, <1>1 DEF PasswordsTyped, P!RevokeAll
  <2> QED BY <2>1
<1>7. PasswordsTyped'
  BY <1>0, <1>2, <1>3, <1>4, <1>5, <1>6 DEF PasswordsTyped
<1>8. Registered'
  BY <1>2, <1>3, <1>5 DEF PasswordsInv, Registered, OthersGoOn
<1>9. WorkspacesCounted'
  BY <1>0, <1>2, <1>3 DEF PasswordsInv, WorkspacesCounted, Furnishes, OthersGoOn
<1>10. WordsAreCurrent'
  <2>1. \A q \in Workers :
          doing'[q].step \in {"workspace", "issue", "rehash"} /\ doing'[q].of \notin resetCrossed' =>
            doing'[q].word = hash[doing'[q].of]
    BY <1>2, <1>4 DEF PasswordsInv, WordsAreCurrent, OthersGoOn
  <2>2. ASSUME NEW d \in Addresses \ (resetCrossed' \cup interrupted)
        PROVE  \/ knows'[d] \subseteq {hash[d]}
               \/ \E q \in Workers : doing'[q].step = "revoke" /\ doing'[q].of = d
    <3>1. CASE d = e
      BY <3>1, <1>5
    <3>2. CASE d # e
      <4>1. \A q \in Workers : doing[q].of = d => q # r
        BY <1>1, <3>2
      <4> QED BY <3>2, <4>1, <1>2, <1>4, <1>5 DEF PasswordsInv, WordsAreCurrent, OthersGoOn
    <3> QED BY <3>1, <3>2
  <2> QED BY <1>3, <2>1, <2>2 DEF WordsAreCurrent
<1>11. LinksCounted'
  <2>1. ASSUME NEW q \in Workers, doing'[q].step \in {"mark", "hash", "revoke"}
        PROVE  /\ doing'[q].link \in DOMAIN links /\ doing'[q].of = links[doing'[q].link].of
               /\ doing'[q].of \notin resetCrossed' => spent'[doing'[q].link] = 0
               /\ doing'[q].step # "mark" => links[doing'[q].link].used
    <3>1. q # r /\ doing'[q] = doing[q] /\ doing[q].step # "idle"
      BY <1>2, <2>1 DEF OthersGoOn
    <3>2. /\ doing[q].link \in DOMAIN links /\ doing[q].of = links[doing[q].link].of
          /\ doing[q].of \notin resetCrossed => spent[doing[q].link] = 0
          /\ doing[q].step # "mark" => links[doing[q].link].used
      BY <2>1, <3>1 DEF PasswordsInv, LinksCounted
    <3> QED BY <3>1, <3>2, <1>1, <1>4, <1>6
  <2>2. ASSUME NEW m \in DOMAIN links
        PROVE  (spent'[m] > 0 => links[m].used) /\ (spent'[m] > 1 => links[m].of \in resetCrossed')
    BY <1>1, <1>4, <1>6 DEF PasswordsInv, LinksCounted
  <2> QED BY <1>3, <2>1, <2>2 DEF LinksCounted
<1> QED BY <1>7, <1>8, <1>9, <1>10, <1>11 DEF PasswordsInv

LEMMA RestartKeeps ==
  ASSUME PasswordsInv, P!Restart
  PROVE  PasswordsInv'
<1>0. PasswordsTyped
  BY DEF PasswordsInv
<1>1. \A r \in Workers : doing'[r] = P!Idle /\ doing'[r].step = "idle"
  BY DEF P!Restart, P!Idle
<1>2. UNCHANGED <<hash, outdated, personal, knows, links, resetCrossed, spent>>
  BY DEF P!Restart
<1>3. /\ interrupted \subseteq interrupted' /\ interrupted' \subseteq Addresses
      /\ \A r \in Workers : doing[r].step # "idle" => doing[r].of \in interrupted'
  BY <1>0, JobKinds DEF P!Restart, PasswordsTyped
<1>4. PasswordsTyped'
  BY <1>0, <1>2, <1>3 DEF PasswordsTyped, P!Restart
<1>5. Registered' /\ LinksCounted'
  BY <1>1, <1>2 DEF PasswordsInv, Registered, LinksCounted
<1>6. WorkspacesCounted'
  BY <1>1, <1>2, <1>3 DEF PasswordsInv, WorkspacesCounted, Furnishes
<1>7. WordsAreCurrent'
  BY <1>1, <1>2, <1>3 DEF PasswordsInv, WordsAreCurrent
<1> QED BY <1>4, <1>5, <1>6, <1>7 DEF PasswordsInv

LEMMA PasswordsNext ==
  ASSUME P!PasswordsAssumption, PasswordsInv, [P!Next]_P!vars
  PROVE  PasswordsInv'
<1>1. ASSUME UNCHANGED <<hash, personal, knows, links, doing, interrupted, resetCrossed, spent>>,
             outdated' \subseteq Addresses
      PROVE  PasswordsInv'
  BY <1>1 DEF PasswordsInv, PasswordsTyped, Registered, WorkspacesCounted, Furnishes,
              WordsAreCurrent, LinksCounted
<1>2. CASE P!NewPolicy
  BY <1>1, <1>2 DEF P!NewPolicy
<1>3. CASE UNCHANGED P!vars
  BY <1>1, <1>3 DEF P!vars, PasswordsInv, PasswordsTyped
<1>4. CASE P!Restart
  BY <1>4, RestartKeeps
<1>5. CASE \E e \in Addresses : P!ForgotPassword(e)
  BY <1>5, ForgotPasswordKeeps
<1>6. ASSUME NEW r \in Workers,
             \/ \E e \in Addresses, word \in Chosen : P!Register(r, e, word)
             \/ P!CreateAccount(r) \/ P!CreateWorkspace(r) \/ P!Issue(r) \/ P!Rehash(r)
             \/ \E e \in Addresses : P!Authenticate(r, e)
             \/ \E n \in DOMAIN links, word \in Chosen : P!FindReset(r, n, word)
             \/ P!MarkUsed(r) \/ P!UpdatePasswordHash(r) \/ P!RevokeAll(r)
      PROVE  PasswordsInv'
  BY <1>6, RegisterKeeps, CreateAccountKeeps, CreateWorkspaceKeeps, IssueKeeps, RehashKeeps,
     AuthenticateKeeps, FindResetKeeps, MarkUsedKeeps, UpdateKeeps, RevokeKeeps
<1> QED BY <1>2, <1>3, <1>4, <1>5, <1>6 DEF P!Next

(***************************************************************************)
(* An account gets one personal workspace, a reset signs out whoever knew  *)
(* the old password, and its link works once (auth.rs), for any addresses, *)
(* passwords and links, wherever the server restarts.                      *)
(***************************************************************************)
THEOREM PasswordsAreKept ==
  ASSUME P!PasswordsAssumption
  PROVE  P!Init /\ [][P!Next]_P!vars => []PasswordsHold
<1>1. P!Init => PasswordsInv
  BY PasswordsInit
<1>2. PasswordsInv /\ [P!Next]_P!vars => PasswordsInv'
  BY PasswordsNext
<1>3. PasswordsInv => P!PasswordsHold
  <2>1. SUFFICES ASSUME PasswordsInv
                 PROVE  P!PasswordsHold
    OBVIOUS
  <2>2. P!OnePersonalWorkspace
    BY <2>1 DEF PasswordsInv, Registered, WorkspacesCounted, Furnishes, P!OnePersonalWorkspace, P!Working
  <2>3. P!SignedInKnow
    BY <2>1 DEF PasswordsInv, WordsAreCurrent, P!SignedInKnow, P!Working
  <2>4. P!LinksWorkOnce
    BY <2>1 DEF PasswordsInv, LinksCounted, P!LinksWorkOnce
  <2> QED BY <2>2, <2>3, <2>4 DEF P!PasswordsHold
<1> QED BY <1>1, <1>2, <1>3, PTL DEF PasswordsHold
=============================================================================
