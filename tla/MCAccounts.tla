------------------------------ MODULE MCAccounts ------------------------------
(***************************************************************************)
(* A workspace of two people, the second factor of one account, and its    *)
(* password, with two requests at a time.  What Members knows of the second*)
(* factor is its own: `part` says at the start which is checked.           *)
(***************************************************************************)
EXTENDS Members, TLC

CONSTANTS
  w1, w2, ada, ben,
  MAX_TOTP_ATTEMPTS, RECOVERY_CODE_COUNT, MaxSecrets, MaxSets, MaxChallenges, MaxStep,
  Addresses, Chosen, MaxLinks, MaxCrashes

VARIABLES
  part, now, secret, enrolled, codes, sets, challenges, opened, job, accepted, proven,
  overlapped,
  hash, outdated, personal, knows, links, doing, restarts, interrupted, resetCrossed, spent

factorVars == <<now, secret, enrolled, codes, sets, challenges, opened, job, accepted,
                proven, overlapped>>
passwordVars == <<hash, outdated, personal, knows, links, doing, restarts, interrupted,
                  resetCrossed, spent>>

F == INSTANCE SecondFactor
P == INSTANCE Passwords WITH Requests <- Workers, job <- doing, crossed <- resetCrossed

ASSUME AccountsAssumption == F!SecondFactorAssumption /\ P!PasswordsAssumption

Symmetry == Permutations(Workers)

SmallInit == part \in {"members", "factor", "passwords"} /\ Init /\ F!Init /\ P!Init

\* Bound: where the clock ticks there is one set of recovery codes.
Enough == now' + sets' <= 2

SmallNext ==
  \/ part = "members" /\ Next /\ UNCHANGED <<part, factorVars, passwordVars>>
  \/ part = "factor" /\ F!Next /\ Enough /\ UNCHANGED <<part, vars, passwordVars>>
  \/ part = "passwords" /\ P!Next /\ UNCHANGED <<part, vars, factorVars>>

SmallSpec == SmallInit /\ [][SmallNext]_<<part, vars, factorVars, passwordVars>>

\* Each code works once, a confirmed secret is its owner's, and the tables hold
\* what they may hold (totp.rs, account.rs).
SecondFactorHolds == MembersTypeOK /\ F!SecondFactorTypeOK /\ F!SecondFactorHolds

\* One personal workspace each, a reset that signs everybody out, and a link that
\* works once (auth.rs).
PasswordsHold == P!PasswordsHold
=============================================================================
