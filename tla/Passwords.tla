------------------------------ MODULE Passwords ------------------------------
(***************************************************************************)
(* Registering, signing in with a password, and resetting a forgotten one  *)
(* (crates/api/src/handlers/auth.rs, repo/accounts.rs), by requests that   *)
(* interleave at each statement.  An account is its address, a password    *)
(* stands for its hash.  Attempts are not counted, and what follows a      *)
(* second factor is module SecondFactor.                                   *)
(***************************************************************************)
EXTENDS Naturals, Sequences

CONSTANTS
  Addresses, Requests,
  Chosen,      \* passwords
  MaxLinks,    \* bound: reset links mailed
  MaxCrashes   \* bound: restarts of the server

VARIABLES
  hash,        \* per address: its password, NoAccount before it is registered
  outdated,    \* addresses whose hash was made under an earlier policy
  personal,    \* per address: how many personal workspaces
  knows,       \* per address: the passwords its live sessions were opened with
  links,       \* of resets: [of, used]
  job,         \* per request: what it is about to do
  restarts,
  interrupted, \* history: addresses whose registration was cut short
  crossed,     \* history: addresses whose password was reset while it was being used
  spent        \* history: per link, how many resets were answered

vars == <<hash, outdated, personal, knows, links, job, restarts, interrupted, crossed, spent>>

NoAccount == "none"
Idle == [step |-> "idle"]

\* What the proofs need: there is no password that stands for no account.
PasswordsAssumption == NoAccount \notin Chosen

Init ==
  /\ hash = [e \in Addresses |-> NoAccount] /\ outdated = {}
  /\ personal = [e \in Addresses |-> 0] /\ knows = [e \in Addresses |-> {}]
  /\ links = <<>> /\ job = [r \in Requests |-> Idle]
  /\ restarts = 0 /\ interrupted = {} /\ crossed = {} /\ spent = <<>>

Busy(r, step) == job[r].step = step
Goes(r, step) == job' = [job EXCEPT ![r].step = step]
Ends(r)       == job' = [job EXCEPT ![r] = Idle]

-----------------------------------------------------------------------------
(* `register` *)

Register(r, e, word) ==
  /\ Busy(r, "idle") /\ hash[e] = NoAccount
  /\ job' = [job EXCEPT ![r] = [step |-> "create", of |-> e, word |-> word]]
  /\ UNCHANGED <<hash, outdated, personal, knows, links, restarts, interrupted, crossed, spent>>

\* mutant: an address that is there already is not an error
CreateOrFind(r) ==
  /\ Busy(r, "create") /\ Goes(r, "workspace")
  /\ hash' = [hash EXCEPT ![job[r].of] = IF @ = NoAccount THEN job[r].word ELSE @]
  /\ UNCHANGED <<outdated, personal, knows, links, restarts, interrupted, crossed, spent>>

(* Addresses are UNIQUE: the second of two requests fails.                 *)
CreateAccount(r) ==
  /\ Busy(r, "create")
  /\ IF hash[job[r].of] = NoAccount
     THEN hash' = [hash EXCEPT ![job[r].of] = job[r].word] /\ Goes(r, "workspace")
     ELSE UNCHANGED hash /\ Ends(r)
  /\ UNCHANGED <<outdated, personal, knows, links, restarts, interrupted, crossed, spent>>

CreateWorkspace(r) ==
  /\ Busy(r, "workspace") /\ Goes(r, "issue")
  /\ personal' = [personal EXCEPT ![job[r].of] = @ + 1]
  /\ UNCHANGED <<hash, outdated, knows, links, restarts, interrupted, crossed, spent>>

Issue(r) ==
  /\ Busy(r, "issue") /\ Ends(r)
  /\ knows' = [knows EXCEPT ![job[r].of] = @ \cup {job[r].word}]
  /\ UNCHANGED <<hash, outdated, personal, links, restarts, interrupted, crossed, spent>>

-----------------------------------------------------------------------------
(* `login` and `authenticate` *)

(* The hash is read, and compared with what was typed outside the database.*)
Authenticate(r, e) ==
  /\ Busy(r, "idle") /\ hash[e] # NoAccount
  /\ job' = [job EXCEPT ![r] = [step |-> IF e \in outdated THEN "rehash" ELSE "issue",
                                of |-> e, word |-> hash[e]]]
  /\ UNCHANGED <<hash, outdated, personal, knows, links, restarts, interrupted, crossed, spent>>

Rehash(r) ==
  /\ Busy(r, "rehash") /\ Goes(r, "issue")
  /\ hash' = [hash EXCEPT ![job[r].of] = job[r].word]
  /\ outdated' = outdated \ {job[r].of}
  /\ UNCHANGED <<personal, knows, links, restarts, interrupted, crossed, spent>>

-----------------------------------------------------------------------------
(* `forgot_password` and `reset_password` *)

ForgotPassword(e) ==
  /\ Len(links) < MaxLinks /\ hash[e] # NoAccount
  /\ links' = Append(links, [of |-> e, used |-> FALSE]) /\ spent' = Append(spent, 0)
  /\ UNCHANGED <<hash, outdated, personal, knows, job, restarts, interrupted, crossed>>

(* `consume_password_reset` finds the link, and then marks it.             *)
FindReset(r, n, word) ==
  /\ Busy(r, "idle") /\ ~links[n].used
  /\ job' = [job EXCEPT ![r] = [step |-> "mark", of |-> links[n].of, word |-> word, link |-> n]]
  /\ UNCHANGED <<hash, outdated, personal, knows, links, restarts, interrupted, crossed, spent>>

MarkUsed(r) ==
  /\ Busy(r, "mark") /\ Goes(r, "hash")
  /\ links' = [links EXCEPT ![job[r].link].used = TRUE]
  /\ UNCHANGED <<hash, outdated, personal, knows, restarts, interrupted, crossed, spent>>

Others(r) == {q \in Requests \ {r} : job[q].step # "idle" /\ job[q].of = job[r].of}
Crosses(r) == crossed' = IF Others(r) = {} THEN crossed ELSE crossed \cup {job[r].of}

UpdatePasswordHash(r) ==
  /\ Busy(r, "hash") /\ Goes(r, "revoke") /\ Crosses(r)
  /\ hash' = [hash EXCEPT ![job[r].of] = job[r].word]
  /\ outdated' = outdated \ {job[r].of}
  /\ UNCHANGED <<personal, knows, links, restarts, interrupted, spent>>

(* Everybody who is signed in is signed out.                               *)
RevokeAll(r) ==
  /\ Busy(r, "revoke") /\ Ends(r) /\ Crosses(r)
  /\ knows' = [knows EXCEPT ![job[r].of] = {}]
  /\ spent' = [spent EXCEPT ![job[r].link] = @ + 1]
  /\ UNCHANGED <<hash, outdated, personal, links, restarts, interrupted>>

-----------------------------------------------------------------------------

(* Whatever a request was doing stays as it is: the statements of a request*)
(* are no transaction.                                                     *)
Restart ==
  /\ restarts < MaxCrashes /\ restarts' = restarts + 1
  /\ interrupted' = interrupted \cup {job[r].of : r \in {q \in Requests : job[q].step # "idle"}}
  /\ job' = [r \in Requests |-> Idle]
  /\ UNCHANGED <<hash, outdated, personal, knows, links, crossed, spent>>

(* The deployment asks for costlier hashes from now on.                    *)
NewPolicy ==
  /\ outdated = {} /\ \A r \in Requests : Busy(r, "idle")
  /\ outdated' = {e \in Addresses : hash[e] # NoAccount} /\ outdated' # {}
  /\ UNCHANGED <<hash, personal, knows, links, job, restarts, interrupted, crossed, spent>>

Next ==
  \/ \E r \in Requests :
       \/ \E e \in Addresses, word \in Chosen : Register(r, e, word)
       \/ CreateAccount(r) \/ CreateWorkspace(r) \/ Issue(r) \/ Rehash(r)
       \/ \E e \in Addresses : Authenticate(r, e)
       \/ \E n \in DOMAIN links, word \in Chosen : FindReset(r, n, word)
       \/ MarkUsed(r) \/ UpdatePasswordHash(r) \/ RevokeAll(r)
  \/ \E e \in Addresses : ForgotPassword(e)
  \/ Restart \/ NewPolicy

-----------------------------------------------------------------------------

Working(e) == \E r \in Requests : job[r].step # "idle" /\ job[r].of = e

(***************************************************************************)
(* "Exactly one personal workspace, created on first sign-in" (auth.rs,    *)
(* business rule 1), also for who sent the form twice: only a registration *)
(* that was cut short leaves an account without one.                       *)
(***************************************************************************)
OnePersonalWorkspace ==
  \A e \in Addresses :
    /\ personal[e] <= 1 /\ (hash[e] = NoAccount => personal[e] = 0)
    /\ hash[e] # NoAccount /\ ~Working(e) /\ personal[e] = 0 => e \in interrupted

(***************************************************************************)
(* "Whoever knew the old password is signed out everywhere: that is the    *)
(* point of a reset" (auth.rs): who is signed in knows the password.  Not  *)
(* if it was reset while a sign-in, or another reset, was under way, nor if*)
(* the reset was cut short before it signed anybody out.                   *)
(***************************************************************************)
SignedInKnow ==
  \A e \in Addresses \ (crossed \cup interrupted) :
    ~Working(e) => knows[e] \subseteq {hash[e]}

(***************************************************************************)
(* "The link works once" (the mail says so): one reset is answered, unless *)
(* two were under way at the same time.                                    *)
(***************************************************************************)
LinksWorkOnce ==
  \A n \in DOMAIN links : spent[n] > 1 => links[n].of \in crossed

PasswordsHold == OnePersonalWorkspace /\ SignedInKnow /\ LinksWorkOnce
=============================================================================
