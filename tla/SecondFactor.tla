---------------------------- MODULE SecondFactor ----------------------------
(***************************************************************************)
(* The second factor of one account: enrolling it, signing in with it,     *)
(* the recovery codes that stand in for it, and turning it off             *)
(* (crates/api/src/handlers/auth.rs login and login_totp, account.rs,      *)
(* repo/accounts.rs, auth/totp.rs).  Requests run side by side, a          *)
(* statement at a time.  The password is right; a wrong one changes        *)
(* nothing here.                                                           *)
(*                                                                         *)
(* A code of an authenticator is a secret and a step of thirty seconds, a  *)
(* recovery code is the set it was issued with and its place in it.        *)
(***************************************************************************)
EXTENDS Naturals, FiniteSets

CONSTANTS
  Workers,        \* requests the server runs at a time
  MAX_TOTP_ATTEMPTS,
  RECOVERY_CODE_COUNT,
  MaxSecrets,     \* bound: enrolments begun
  MaxSets,        \* bound: sets of recovery codes issued
  MaxChallenges,  \* bound: sign-ins begun
  MaxStep         \* bound: steps of the clock

\* What the proofs need of the constants: a limit of at least one attempt (account.rs).
SecondFactorAssumption ==
  /\ IsFiniteSet(Workers)
  /\ MAX_TOTP_ATTEMPTS \in Nat \ {0} /\ RECOVERY_CODE_COUNT \in Nat
  /\ MaxSecrets \in Nat /\ MaxSets \in Nat /\ MaxChallenges \in Nat /\ MaxStep \in Nat

VARIABLES
  now,          \* the clock, in steps
  secret,       \* the row of `totp_secrets`, its id 0 where there is none
  enrolled,     \* how many secrets were generated
  codes,        \* `recovery_codes` not used yet
  sets,         \* how many sets of them were issued
  challenges,   \* `totp_challenges`
  opened,       \* how many challenges were made
  job,          \* what each worker is doing
  accepted,     \* history: how often each code signed somebody in
  proven,       \* history: secrets a code of was entered
  overlapped       \* history: two requests had a verified code in hand at once

vars == <<now, secret, enrolled, codes, sets, challenges, opened, job, accepted, proven, overlapped>>
history == <<accepted, proven, overlapped>>

Steps    == 0..(MaxStep + 1)
Never    == MaxStep + 2                 \* last_accepted_step is NULL
TotpCodes     == [kind : {"totp"}, of : 1..MaxSecrets, k : Steps]
RecoveryCodes == [kind : {"recovery"}, of : 1..MaxSets, k : 1..RECOVERY_CODE_COUNT]
Wrong    == [kind |-> "wrong", of |-> 0, k |-> 0]
Codes    == TotpCodes \cup RecoveryCodes \cup {Wrong}

NoSecret == [id |-> 0, confirmed |-> FALSE, last |-> Never]
Free     == [op |-> "none", at |-> "idle", ch |-> 0, code |-> Wrong]

(***************************************************************************)
(* Every value is of its kind, and no challenge takes more wrong codes     *)
(* than it allows and there are other requests beside the last.            *)
(***************************************************************************)
SecondFactorTypeOK ==
  /\ now \in 0..MaxStep
  /\ secret \in [id : 0..MaxSecrets, confirmed : BOOLEAN, last : Steps \cup {Never}]
  /\ enrolled \in 0..MaxSecrets /\ sets \in 0..MaxSets /\ opened \in 0..MaxChallenges
  /\ codes \subseteq RecoveryCodes
  /\ challenges \subseteq [n : 1..MaxChallenges,
                           attempts : 0..(MAX_TOTP_ATTEMPTS + Cardinality(Workers) - 1)]
  /\ job \in [Workers -> [op : {"none", "login", "totp", "enrol", "confirm", "disable", "renew"},
                          at : {"idle", "challenge", "secret", "recover", "count", "record", "forget",
                                "issue", "stage", "confirm", "codes", "drop", "dropcodes"},
                          ch : 0..MaxChallenges, code : Codes]]
  /\ accepted \in [Codes -> Nat]
  /\ proven \subseteq 1..MaxSecrets
  /\ overlapped \in BOOLEAN

Init ==
  /\ now = 0 /\ secret = NoSecret /\ enrolled = 0 /\ codes = {} /\ sets = 0
  /\ challenges = {} /\ opened = 0
  /\ job = [w \in Workers |-> Free]
  /\ accepted = [c \in Codes |-> 0] /\ proven = {} /\ overlapped = FALSE

At(w, op, at) == job[w].op = op /\ job[w].at = at
Go(w, at)     == job' = [job EXCEPT ![w].at = at]
Done(w)       == job' = [job EXCEPT ![w] = Free]
Begin(w, op, at, ch, code) ==
  job[w].at = "idle" /\ job' = [job EXCEPT ![w] = [op |-> op, at |-> at, ch |-> ch, code |-> code]]

(* What a person can enter: a code their phone shows, its clock a step out *)
(* at most, one off the sheet of recovery codes, or something else.        *)
Entered ==
  {c \in TotpCodes : c.of <= enrolled /\ c.k <= now + 1 /\ now <= c.k + 1}
    \cup {c \in RecoveryCodes : c.of <= sets} \cup {Wrong}

(* `verify`: a code of this secret, of a step after the last one accepted. *)
Verifies(s, c, last) == c.kind = "totp" /\ c.of = s.id /\ (last = Never \/ c.k > last)

(* Verified, and not yet written down. *)
InHand(w) == \E v \in Workers \ {w} : job[v].at \in {"record", "confirm"}

-----------------------------------------------------------------------------
(* Signing in *)

(* A right password answers with a challenge where there is a second       *)
(* factor, and with a session where there is none.                         *)
Login(w) ==
  /\ secret.confirmed /\ opened < MaxChallenges
  /\ Begin(w, "login", "challenge", 0, Wrong)
  /\ UNCHANGED <<now, secret, enrolled, codes, sets, challenges, opened, history>>

CreateChallenge(w) ==
  /\ At(w, "login", "challenge")
  /\ IF opened < MaxChallenges
     THEN opened' = opened + 1 /\ challenges' = challenges \cup {[n |-> opened + 1, attempts |-> 0]}
     ELSE UNCHANGED <<opened, challenges>>
  /\ Done(w)
  /\ UNCHANGED <<now, secret, enrolled, codes, sets, history>>

ChallengeExpires ==
  /\ \E c \in challenges : challenges' = challenges \ {c}
  /\ UNCHANGED <<now, secret, enrolled, codes, sets, opened, job, history>>

FindChallenge(w) ==
  /\ \E c \in challenges, code \in Entered :
       IF c.attempts >= MAX_TOTP_ATTEMPTS
       THEN job[w].at = "idle" /\ challenges' = challenges \ {c} /\ UNCHANGED job
       ELSE Begin(w, "totp", "secret", c.n, code) /\ UNCHANGED challenges
  /\ UNCHANGED <<now, secret, enrolled, codes, sets, opened, history>>

VerifyCode(w) ==
  /\ At(w, "totp", "secret")
  /\ LET good == Verifies(secret, job[w].code, secret.last) IN
       /\ IF ~secret.confirmed THEN Done(w)
          ELSE Go(w, IF good THEN "record" ELSE "recover")
       /\ overlapped' = (overlapped \/ (secret.confirmed /\ good /\ InHand(w)))
  /\ UNCHANGED <<now, secret, enrolled, codes, sets, challenges, opened, accepted, proven>>

\* mutant: the step is not written down
RecordNothing(w) ==
  /\ job[w].at = "record"
  /\ Go(w, IF job[w].op = "totp" THEN "forget" ELSE "codes")
  /\ UNCHANGED <<now, secret, enrolled, codes, sets, challenges, opened, history>>

(* `record_totp_step`: for the account, whichever secret it has by now.    *)
RecordStep(w) ==
  /\ job[w].at = "record"
  /\ secret' = IF secret.id = 0 THEN secret ELSE [secret EXCEPT !.last = job[w].code.k]
  /\ Go(w, IF job[w].op = "totp" THEN "forget" ELSE "codes")
  /\ UNCHANGED <<now, enrolled, codes, sets, challenges, opened, history>>

(* The check and the spend are one statement. *)
ConsumeRecoveryCode(w) ==
  /\ At(w, "totp", "recover")
  /\ IF job[w].code \in codes
     THEN codes' = codes \ {job[w].code} /\ Go(w, "forget")
     ELSE UNCHANGED codes /\ job' = [job EXCEPT ![w].at = "count", ![w].code = Wrong]
  /\ UNCHANGED <<now, secret, enrolled, sets, challenges, opened, history>>

CountAttempt(w) ==
  /\ At(w, "totp", "count")
  /\ challenges' = {IF c.n = job[w].ch THEN [c EXCEPT !.attempts = @ + 1] ELSE c : c \in challenges}
  /\ Done(w)
  /\ UNCHANGED <<now, secret, enrolled, codes, sets, opened, history>>

DeleteChallenge(w) ==
  /\ At(w, "totp", "forget")
  /\ challenges' = {c \in challenges : c.n # job[w].ch}
  /\ Go(w, "issue")
  /\ UNCHANGED <<now, secret, enrolled, codes, sets, opened, history>>

IssueSession(w) ==
  /\ At(w, "totp", "issue")
  /\ accepted' = [accepted EXCEPT ![job[w].code] = @ + 1]
  /\ Done(w)
  /\ UNCHANGED <<now, secret, enrolled, codes, sets, challenges, opened, proven, overlapped>>

-----------------------------------------------------------------------------
(* Settings *)

(* An enrolment drops the secret there is, confirmed or not. *)
Enrol(w) ==
  /\ enrolled < MaxSecrets
  /\ Begin(w, "enrol", "stage", 0, Wrong)
  /\ secret' = NoSecret
  /\ UNCHANGED <<now, enrolled, codes, sets, challenges, opened, history>>

(* The primary key refuses a second row. *)
StageSecret(w) ==
  /\ At(w, "enrol", "stage")
  /\ IF secret.id = 0 /\ enrolled < MaxSecrets
     THEN enrolled' = enrolled + 1 /\ secret' = [NoSecret EXCEPT !.id = enrolled + 1]
     ELSE UNCHANGED <<enrolled, secret>>
  /\ Done(w)
  /\ UNCHANGED <<now, codes, sets, challenges, opened, history>>

(* Only codes that verify go on; any other changes nothing. *)
FindPending(w) ==
  /\ secret.id # 0 /\ ~secret.confirmed
  /\ \E code \in Entered :
       /\ Verifies(secret, code, Never)
       /\ Begin(w, "confirm", "confirm", 0, code)
       /\ proven' = proven \cup {code.of}
  /\ overlapped' = (overlapped \/ InHand(w))
  /\ UNCHANGED <<now, secret, enrolled, codes, sets, challenges, opened, accepted>>

(* The row the account has now, which a second enrolment may have replaced.*)
ConfirmSecret(w) ==
  /\ At(w, "confirm", "confirm")
  /\ secret' = IF secret.id = 0 THEN secret
               ELSE [secret EXCEPT !.confirmed = TRUE, !.last = job[w].code.k]
  /\ overlapped' = (overlapped \/ secret.id # job[w].code.of)
  /\ Go(w, "codes")
  /\ UNCHANGED <<now, enrolled, codes, sets, challenges, opened, accepted, proven>>

(* A new set of codes replaces the old one outright, in a transaction.     *)
ReplaceRecoveryCodes(w) ==
  /\ job[w].at = "codes"
  /\ IF sets < MaxSets
     THEN /\ sets' = sets + 1
          /\ codes' = {c \in RecoveryCodes : c.of = sets + 1}
     ELSE UNCHANGED <<sets, codes>>
  /\ Done(w)
  /\ UNCHANGED <<now, secret, enrolled, challenges, opened, history>>

(* New codes, and turning the factor off, ask for a code that verifies.    *)
(* Only the first writes down that it was used.                            *)
VerifyForSettings(w) ==
  /\ secret.confirmed
  /\ \E code \in Entered :
       /\ Verifies(secret, code, secret.last)
       /\ \/ sets < MaxSets /\ Begin(w, "renew", "record", 0, code)
          \/ Begin(w, "disable", "drop", 0, code)
  /\ overlapped' = (overlapped \/ InHand(w))
  /\ UNCHANGED <<now, secret, enrolled, codes, sets, challenges, opened, accepted, proven>>

RemoveSecret(w) ==
  /\ At(w, "disable", "drop")
  /\ secret' = NoSecret
  /\ Go(w, "dropcodes")
  /\ UNCHANGED <<now, enrolled, codes, sets, challenges, opened, history>>

RemoveRecoveryCodes(w) ==
  /\ At(w, "disable", "dropcodes")
  /\ codes' = {}
  /\ Done(w)
  /\ UNCHANGED <<now, secret, enrolled, sets, challenges, opened, history>>

-----------------------------------------------------------------------------

Tick ==
  /\ now < MaxStep /\ now' = now + 1
  /\ UNCHANGED <<secret, enrolled, codes, sets, challenges, opened, job, history>>

Step(w) ==
  \/ Login(w) \/ CreateChallenge(w) \/ FindChallenge(w) \/ VerifyCode(w) \/ RecordStep(w)
  \/ ConsumeRecoveryCode(w) \/ CountAttempt(w) \/ DeleteChallenge(w) \/ IssueSession(w)
  \/ Enrol(w) \/ StageSecret(w) \/ FindPending(w) \/ ConfirmSecret(w) \/ ReplaceRecoveryCodes(w)
  \/ VerifyForSettings(w) \/ RemoveSecret(w) \/ RemoveRecoveryCodes(w)

Next == Tick \/ ChallengeExpires \/ \E w \in Workers : Step(w)

Spec == Init /\ [][Next]_vars

-----------------------------------------------------------------------------

(***************************************************************************)
(* The second factor is what its owner has, and each code of it works once *)
(* (totp.rs: "within that window it must work exactly once"): a recovery   *)
(* code always, a code of an authenticator unless another request had a    *)
(* verified code in hand in the same moment; and a secret is confirmed     *)
(* only by a code of that secret, however many enrolments are begun and    *)
(* abandoned, one request at a time.                                       *)
(***************************************************************************)
SecondFactorHolds ==
  /\ \A c \in RecoveryCodes : accepted[c] <= 1
  /\ ~overlapped => \A c \in TotpCodes : accepted[c] <= 1
  /\ secret.confirmed /\ ~overlapped => secret.id \in proven
=============================================================================
