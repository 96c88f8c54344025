------------------------------- MODULE Members -------------------------------
(***************************************************************************)
(* A band workspace and the people in it: who belongs to it in which role, *)
(* the invitations that add one, and the second factor an owner must carry *)
(* (crates/api/src/handlers/workspaces.rs and account.rs, with the tables  *)
(* of crates/api/src/repo).  No handler opens a transaction here, so each  *)
(* SQL statement is a step, and requests run side by side.                 *)
(*                                                                         *)
(* A person is an account and its email address.  The workspace began on a *)
(* device in local mode and is claimed by its founder's first sign-in      *)
(* (crates/web/src/auth/local.rs).                                         *)
(***************************************************************************)
EXTENDS Naturals, FiniteSets

CONSTANTS
  People,      \* accounts
  Founder,     \* the one whose device made the workspace
  Workers,     \* requests the server runs at a time
  Keepers,     \* bound: people whose devices push preferences
  Lesser,      \* roles below owner: viewer and editor have one part in this
  MaxInvites   \* bound: invitations ever made

ASSUME MembersAssumption ==
  /\ Founder \in People /\ IsFiniteSet(People) /\ Keepers \subseteq People
  /\ IsFiniteSet(Workers)
  /\ Lesser \subseteq {"viewer", "editor"}
  /\ MaxInvites \in Nat

VARIABLES
  created,     \* the workspace has a row on the server
  local,       \* the founder's device is still in local mode
  role,        \* memberships
  factor,      \* totp_secrets: none, staged by an enrolment, or confirmed
  prefs,       \* people with rows in the workspace's table `preferences`
  invites,     \* the table `invites`
  mailed,      \* invitations with a mail in the queue
  req,         \* what each worker is doing
  crossed,     \* history: two requests met between a check and its write
  exempt,      \* history: owners nobody checked the second factor of
  late,        \* history: people whose preferences came in as they left
  joins,       \* history: how often an invitation made somebody a member
  rushed       \* history: invitations accepted twice at one time

vars == <<created, local, role, factor, prefs, invites, mailed, req,
          crossed, exempt, late, joins, rushed>>
history == <<crossed, exempt, late, joins, rushed>>
tables == <<created, local, role, factor, prefs, invites, mailed>>

Ids   == 1..MaxInvites
Roles == Lesser \cup {"owner"}
Free  == [op |-> "none", at |-> "idle", by |-> Founder, on |-> Founder, role |-> "owner", n |-> 0]

(***************************************************************************)
(* Every value is of its kind.                                             *)
(***************************************************************************)
MembersTypeOK ==
  /\ created \in BOOLEAN /\ local \in BOOLEAN /\ crossed \in BOOLEAN
  /\ role \in [People -> Roles \cup {"none"}]
  /\ factor \in [People -> {"none", "staged", "confirmed"}]
  /\ invites \subseteq [n : Ids, email : People, role : Lesser,
                        used : BOOLEAN, expired : BOOLEAN]
  /\ prefs \subseteq People /\ exempt \subseteq People /\ late \subseteq People
  /\ mailed \subseteq Ids /\ rushed \subseteq Ids
  /\ joins \in [Ids -> 0..Cardinality(Workers)]
  /\ req \in [Workers -> [op : {"none", "create", "update", "remove", "invite", "revoke", "accept",
                                "enrol", "confirm", "disable", "push"},
                          at : {"idle", "create", "member", "factor", "owns", "count", "write",
                                "forget", "clear", "insert", "mail", "revoke", "role", "add",
                                "accept", "stage", "confirm", "secret", "drop", "push"},
                          by : People, on : People, role : Roles, n : 0..MaxInvites]]

Init ==
  /\ created = FALSE /\ local = TRUE
  /\ role = [p \in People |-> "none"]
  /\ factor = [p \in People |-> "none"]
  /\ prefs = {} /\ invites = {} /\ mailed = {}
  /\ req = [w \in Workers |-> Free]
  /\ crossed = FALSE /\ exempt = {} /\ late = {} /\ rushed = {}
  /\ joins = [n \in Ids |-> 0]

Owners == {p \in People : role[p] = "owner"}
Pending(p) == {i \in invites : i.email = p /\ ~i.used}
\* an id is a new one: it is not that of an invitation replaced before its mail
Made == {n \in Ids : \/ n \in mailed \/ \E i \in invites : i.n = n
                    \/ \E w \in Workers : req[w].n = n}

At(w, op, at) == req[w].op = op /\ req[w].at = at
Go(w, at)     == req' = [req EXCEPT ![w].at = at]
Done(w)       == req' = [req EXCEPT ![w] = Free]
Others(w)     == {req[v] : v \in Workers \ {w}}

-----------------------------------------------------------------------------
(* A request is seen when its first statement runs: for what owners manage *)
(* and for a push that is the question the extractor `Workspace` asks.     *)

Begin(w, op, at, p) ==
  /\ req[w].at = "idle"
  /\ req' = [req EXCEPT ![w] = [Free EXCEPT !.op = op, !.at = at, !.by = p]]

(* `Workspace<Manage>`, or `Workspace<Read>` for a push. *)
Gate(w) ==
  /\ req[w].at = "idle"
  /\ \/ /\ Owners # {}
        /\ \E q \in People :
             \/ \E r \in Roles :
                  req' = [req EXCEPT ![w] = [Free EXCEPT !.op = "update", !.at = "member",
                                                        !.on = q, !.role = r]]
             \/ req' = [req EXCEPT ![w] = [Free EXCEPT !.op = "remove", !.at = "member", !.on = q]]
             \/ /\ Made # Ids
                /\ \E r \in Lesser :
                     req' = [req EXCEPT ![w] = [Free EXCEPT !.op = "invite", !.at = "clear",
                                                           !.on = q, !.role = r]]
     \/ /\ Owners # {}
        /\ \E n \in Made :
             req' = [req EXCEPT ![w] = [Free EXCEPT !.op = "revoke", !.at = "revoke", !.n = n]]
     \/ \E p \in Keepers : role[p] # "none" /\ Begin(w, "push", "push", p)
  /\ UNCHANGED <<tables, history>>

-----------------------------------------------------------------------------
(* The founder's local workspace, created under the id it already has.     *)

Claim(w) ==
  /\ local /\ req[w].at = "idle"
  /\ \/ created /\ local' = FALSE /\ UNCHANGED req    \* workspace_exists: an earlier attempt made it
     \/ ~created /\ Begin(w, "create", "create", Founder) /\ UNCHANGED local
  /\ UNCHANGED <<created, role, factor, prefs, invites, mailed, history>>

(* One transaction.  The answer may be lost, and the device stays local.   *)
CreateWorkspace(w) ==
  /\ At(w, "create", "create")
  /\ IF created
     THEN UNCHANGED <<created, local, role, exempt>>    \* the row exists: an error
     ELSE /\ created' = TRUE
          /\ role' = [role EXCEPT ![Founder] = "owner"]
          /\ exempt' = exempt \cup {Founder}
          /\ local' \in {local, FALSE}
  /\ Done(w)
  /\ UNCHANGED <<factor, prefs, invites, mailed, crossed, late, joins, rushed>>

-----------------------------------------------------------------------------
(* Roles: update_member, remove_member, assert_not_last_owner              *)

\* mutant: a member is made an owner without a second factor
IsMemberOnly(w) ==
  /\ req[w].at = "member"
  /\ IF role[req[w].on] = "none" THEN Done(w) ELSE Go(w, "owns")
  /\ UNCHANGED <<tables, history>>

IsMember(w) ==
  /\ req[w].at = "member"
  /\ CASE role[req[w].on] = "none" -> Done(w)
       [] role[req[w].on] # "none" /\ At(w, "update", "member") /\ req[w].role = "owner" -> Go(w, "factor")
       [] OTHER -> Go(w, "owns")
  /\ UNCHANGED <<tables, history>>

HasFactor(w) ==
  /\ req[w].at = "factor"
  /\ IF factor[req[w].on] = "confirmed" THEN Go(w, "owns") ELSE Done(w)
  /\ UNCHANGED <<tables, history>>

Owns(w) ==
  /\ req[w].at = "owns"
  /\ LET leaving == /\ role[req[w].on] = "owner"
                    /\ req[w].op = "remove" \/ req[w].role # "owner"
     IN Go(w, IF leaving THEN "count" ELSE "write")
  /\ UNCHANGED <<tables, history>>

\* mutant: one owner is enough to leave
CountNone(w) ==
  /\ req[w].at = "count"
  /\ IF Cardinality(Owners) < 1 THEN Done(w) ELSE Go(w, "write")
  /\ UNCHANGED <<tables, history>>

CountOwners(w) ==
  /\ req[w].at = "count"
  /\ IF Cardinality(Owners) <= 1 THEN Done(w) ELSE Go(w, "write")
  /\ UNCHANGED <<tables, history>>

(* Requests whose checks are behind them and whose write is ahead.         *)
Racing(w) == \E r \in Others(w) : r.at = "write"
(* A promotion that has seen the second factor and has not written yet.    *)
Promoting(w, p) ==
  \E r \in Others(w) : r.op = "update" /\ r.role = "owner" /\ r.on = p
                        /\ r.at \in {"owns", "count", "write"}
Disabling(w, p) == \E r \in Others(w) : r.op = "disable" /\ r.by = p /\ r.at \in {"secret", "drop"}

StillExempt(w, p) == IF Promoting(w, p) THEN exempt ELSE exempt \ {p}

UpdateRole(w) ==
  /\ At(w, "update", "write")
  /\ LET p == req[w].on  r == req[w].role IN
     IF role[p] = "none" THEN UNCHANGED <<role, exempt>>
     ELSE /\ role' = [role EXCEPT ![p] = r]
          /\ exempt' = CASE r # "owner" -> StillExempt(w, p)
                         [] r = "owner" /\ Disabling(w, p) -> exempt \cup {p}
                         [] OTHER -> exempt
  /\ crossed' = (crossed \/ Racing(w))
  /\ Done(w)
  /\ UNCHANGED <<created, local, factor, prefs, invites, mailed, late, joins, rushed>>

RemoveMember(w) ==
  /\ At(w, "remove", "write")
  /\ role' = [role EXCEPT ![req[w].on] = "none"]
  /\ exempt' = StillExempt(w, req[w].on)
  /\ crossed' = (crossed \/ Racing(w))
  /\ Go(w, "forget")
  /\ UNCHANGED <<created, local, factor, prefs, invites, mailed, late, joins, rushed>>

ForgetPreferences(w) ==
  /\ At(w, "remove", "forget")
  /\ prefs' = prefs \ {req[w].on}
  /\ Done(w)
  /\ UNCHANGED <<created, local, role, factor, invites, mailed, history>>

(* What a person keeps for themselves, pushed by their device.             *)
PushPreference(w) ==
  /\ At(w, "push", "push")
  /\ prefs' = prefs \cup {req[w].by}
  /\ late' = IF role[req[w].by] = "none" THEN late \cup {req[w].by} ELSE late
  /\ Done(w)
  /\ UNCHANGED <<created, local, role, factor, invites, mailed, crossed, exempt, joins, rushed>>

-----------------------------------------------------------------------------
(* Invitations                                                             *)

(* A second invitation to an address replaces the first.                   *)
ClearPending(w) ==
  /\ At(w, "invite", "clear")
  /\ invites' = invites \ Pending(req[w].on)
  /\ Go(w, "insert")
  /\ UNCHANGED <<created, local, role, factor, prefs, mailed, history>>

Insert(w) ==
  /\ At(w, "invite", "insert")
  /\ IF Pending(req[w].on) # {} \/ Made = Ids   \* the index `invites_pending`; the bound
     THEN Done(w) /\ UNCHANGED invites
     ELSE \E n \in Ids \ Made :
            /\ \A m \in Ids \ Made : n <= m
            /\ invites' = invites \cup {[n |-> n, email |-> req[w].on, role |-> req[w].role,
                                         used |-> FALSE, expired |-> FALSE]}
            /\ req' = [req EXCEPT ![w].at = "mail", ![w].n = n]
  /\ UNCHANGED <<created, local, role, factor, prefs, mailed, history>>

EnqueueMail(w) ==
  /\ At(w, "invite", "mail")
  /\ mailed' = mailed \cup {req[w].n}
  /\ Done(w)
  /\ UNCHANGED <<created, local, role, factor, prefs, invites, history>>

RevokeInvite(w) ==
  /\ At(w, "revoke", "revoke")
  /\ invites' = {i \in invites : i.n # req[w].n \/ i.used}
  /\ Done(w)
  /\ UNCHANGED <<created, local, role, factor, prefs, mailed, history>>

(* Fourteen days. *)
Expire ==
  /\ \E i \in invites :
       ~i.expired /\ invites' = (invites \ {i}) \cup {[i EXCEPT !.expired = TRUE]}
  /\ UNCHANGED <<created, local, role, factor, prefs, mailed, req, history>>

FindInvite(w) ==
  /\ req[w].at = "idle"
  /\ \E i \in invites :
       /\ ~i.used /\ ~i.expired
       /\ req' = [req EXCEPT ![w] = [Free EXCEPT !.op = "accept", !.at = "role", !.by = i.email,
                                                 !.role = i.role, !.n = i.n]]
       /\ rushed' = IF \E r \in Others(w) : r.op = "accept" /\ r.n = i.n
                    THEN rushed \cup {i.n} ELSE rushed
  /\ UNCHANGED <<tables, crossed, exempt, late, joins>>

BelongsAlready(w) ==
  /\ At(w, "accept", "role")
  /\ Go(w, IF role[req[w].by] = "none" THEN "add" ELSE "accept")
  /\ UNCHANGED <<tables, history>>

(* An upsert: it overwrites a role that was given in the meantime.         *)
AddMember(w) ==
  /\ At(w, "accept", "add")
  /\ LET p == req[w].by IN
       /\ role' = [role EXCEPT ![p] = req[w].role]
       /\ exempt' = StillExempt(w, p)
       /\ joins' = IF role[p] = "none" THEN [joins EXCEPT ![req[w].n] = @ + 1] ELSE joins
       /\ crossed' = (crossed \/ role[p] = "owner")
  /\ Go(w, "accept")
  /\ UNCHANGED <<created, local, factor, prefs, invites, mailed, late, rushed>>

\* mutant: the invitation is not marked as used
AcceptUnmarked(w) ==
  /\ At(w, "accept", "accept")
  /\ Done(w)
  /\ UNCHANGED <<tables, history>>

AcceptInvite(w) ==
  /\ At(w, "accept", "accept")
  /\ invites' = {[i EXCEPT !.used = i.used \/ i.n = req[w].n] : i \in invites}
  /\ Done(w)
  /\ UNCHANGED <<created, local, role, factor, prefs, mailed, history>>

-----------------------------------------------------------------------------
(* The second factor, as far as owning a workspace asks about it.          *)

(* An enrolment begins by dropping the secret there is, confirmed or not.  *)
DropSecret(w) ==
  /\ \E p \in People :
       /\ Begin(w, "enrol", "stage", p)
       /\ factor' = [factor EXCEPT ![p] = "none"]
       /\ exempt' = IF role[p] = "owner" \/ Promoting(w, p) THEN exempt \cup {p} ELSE exempt
  /\ UNCHANGED <<created, local, role, prefs, invites, mailed, crossed, late, joins, rushed>>

StageSecret(w) ==
  /\ At(w, "enrol", "stage")
  /\ factor' = IF factor[req[w].by] = "none"    \* the primary key refuses a second row
               THEN [factor EXCEPT ![req[w].by] = "staged"] ELSE factor
  /\ Done(w)
  /\ UNCHANGED <<created, local, role, prefs, invites, mailed, history>>

(* With a code of the right secret: a wrong one changes nothing.           *)
FindPending(w) ==
  /\ \E p \in People : factor[p] = "staged" /\ Begin(w, "confirm", "confirm", p)
  /\ UNCHANGED <<tables, history>>

ConfirmFactor(w) ==
  /\ At(w, "confirm", "confirm")
  /\ factor' = IF factor[req[w].by] = "none" THEN factor
               ELSE [factor EXCEPT ![req[w].by] = "confirmed"]
  /\ Done(w)
  /\ UNCHANGED <<created, local, role, prefs, invites, mailed, history>>

(* Refused while the person owns a band's workspace. *)
RequiresFactor(w) ==
  /\ \E p \in People : role[p] # "owner" /\ Begin(w, "disable", "secret", p)
  /\ UNCHANGED <<tables, history>>

(* With the password and a code, both right: wrong ones change nothing.    *)
VerifyFactor(w) ==
  /\ At(w, "disable", "secret")
  /\ IF factor[req[w].by] = "confirmed" THEN Go(w, "drop") ELSE Done(w)
  /\ UNCHANGED <<tables, history>>

DisableFactor(w) ==
  /\ At(w, "disable", "drop")
  /\ factor' = [factor EXCEPT ![req[w].by] = "none"]
  /\ exempt' = IF Promoting(w, req[w].by) THEN exempt \cup {req[w].by} ELSE exempt
  /\ Done(w)
  /\ UNCHANGED <<created, local, role, prefs, invites, mailed, crossed, late, joins, rushed>>

-----------------------------------------------------------------------------

Step(w) ==
  \/ Gate(w) \/ Claim(w) \/ CreateWorkspace(w)
  \/ IsMember(w) \/ HasFactor(w) \/ Owns(w) \/ CountOwners(w)
  \/ UpdateRole(w) \/ RemoveMember(w) \/ ForgetPreferences(w) \/ PushPreference(w)
  \/ ClearPending(w) \/ Insert(w) \/ EnqueueMail(w) \/ RevokeInvite(w)
  \/ FindInvite(w) \/ BelongsAlready(w) \/ AddMember(w) \/ AcceptInvite(w)
  \/ DropSecret(w) \/ StageSecret(w) \/ FindPending(w) \/ ConfirmFactor(w)
  \/ RequiresFactor(w) \/ VerifyFactor(w) \/ DisableFactor(w)

Next == Expire \/ \E w \in Workers : Step(w)

Spec == Init /\ [][Next]_vars

-----------------------------------------------------------------------------

(***************************************************************************)
(* Once it exists, the workspace has an owner (workspaces.rs: "A workspace *)
(* always has an owner"), whoever demotes or removes whom, unless another  *)
(* request stood between its own check and its write at that moment.       *)
(***************************************************************************)
AlwaysAnOwner == created /\ ~crossed => Owners # {}

(***************************************************************************)
(* Everybody made an owner carries a confirmed second factor and cannot    *)
(* turn it off, except by the two ways around it the code leaves: starting *)
(* another enrolment, and turning it off as the promotion is being written.*)
(***************************************************************************)
OwnersCarryAFactor == \A p \in Owners : factor[p] = "confirmed" \/ p \in exempt

(***************************************************************************)
(* Who was removed stays away and leaves nothing behind: an invitation     *)
(* makes one person a member once, so nobody comes back with the link they *)
(* joined with, unless they followed it twice at the same time; and when a *)
(* removal is over the workspace has no preferences of somebody who is not *)
(* a member, unless their device was pushing some as they left.            *)
(***************************************************************************)
MembersLeaveForGood ==
  /\ \A n \in Ids : joins[n] <= 1 \/ n \in rushed
  /\ \A p \in prefs :
       \/ role[p] # "none" \/ p \in late
       \/ \E w \in Workers : At(w, "remove", "forget") /\ req[w].on = p
=============================================================================
