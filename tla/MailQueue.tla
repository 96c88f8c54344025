----------------------------- MODULE MailQueue -----------------------------
(***************************************************************************)
(* The queue of mails: invitations and password resets are put in it       *)
(* (crates/api/src/repo/invites.rs), and the command `mail:send`, run by a *)
(* timer, sends what waits (crates/api/src/cli.rs).  A mail is the number  *)
(* it was queued under, which is also its age.                             *)
(***************************************************************************)
EXTENDS Naturals, Sequences

CONSTANTS
  Mails,              \* numbers of mails
  Unreadable,         \* those whose recipient the mail library cannot read
  Refused,            \* those the mail server may refuse, however often
  Runs,               \* runs of the command that may overlap
  Limit,              \* --limit
  MAX_MAIL_ATTEMPTS,
  MaxCrashes          \* bound: runs that die in the middle

MailAssumption ==
  /\ Mails \subseteq Nat /\ Limit \in Nat /\ MAX_MAIL_ATTEMPTS \in Nat
  /\ MaxCrashes \in Nat

VARIABLES
  queued,      \* mail_queue: the mails in it
  attempts,    \*             how often each was refused
  sent,        \*             those with a sent_at
  batch,       \* what each run read and has not come to yet
  deliveries,  \* history: how often each mail arrived
  tries,       \* history: how often each mail was refused
  pardoned,    \* history: a run died, or two overlapped
  crashes      \* history: runs that died

vars == <<queued, attempts, sent, batch, deliveries, tries, pardoned, crashes>>
history == <<deliveries, tries, pardoned, crashes>>

Init ==
  /\ queued = {} /\ sent = {}
  /\ attempts = [m \in Mails |-> 0]
  /\ batch = [r \in Runs |-> <<>>]
  /\ deliveries = [m \in Mails |-> 0] /\ tries = [m \in Mails |-> 0]
  /\ pardoned = FALSE /\ crashes = 0

\* mutant: a mail with one attempt left waits no more
WaitingOneLess == {m \in queued : m \notin sent /\ attempts[m] + 1 < MAX_MAIL_ATTEMPTS}

Waiting == {m \in queued : m \notin sent /\ attempts[m] < MAX_MAIL_ATTEMPTS}

Enqueue ==
  /\ \E m \in Mails \ queued : (\A k \in Mails \ queued : m <= k) /\ queued' = queued \cup {m}
  /\ UNCHANGED <<attempts, sent, batch, history>>

(* `unsent_mail`: the oldest that still wait, with the attempts they had.  *)
Oldest(n, mails) ==
  /\ \A i, j \in 1..n : i < j => mails[i] < mails[j]
  /\ \A m \in Waiting :
       \/ \E i \in 1..n : mails[i] = m
       \/ n = Limit /\ \A i \in 1..n : mails[i] < m

StartRun(r) ==
  /\ batch[r] = <<>>
  /\ \E n \in 1..Limit : \E mails \in [1..n -> Waiting] :
       /\ Oldest(n, mails)
       /\ batch' = [batch EXCEPT ![r] = [i \in 1..n |->
            [mail |-> mails[i], had |-> attempts[mails[i]], outcome |-> "none"]]]
  /\ pardoned' = (pardoned \/ \E q \in Runs \ {r} : batch[q] # <<>>)
  /\ UNCHANGED <<queued, attempts, sent, deliveries, tries, crashes>>

(* A recipient that cannot be read ends the whole run. *)
SendNext(r) ==
  /\ batch[r] # <<>> /\ Head(batch[r]).outcome = "none"
  /\ LET m == Head(batch[r]).mail IN
       \/ /\ m \in Unreadable
          /\ batch' = [batch EXCEPT ![r] = <<>>]
          /\ UNCHANGED <<deliveries, tries>>
       \/ /\ m \notin Unreadable
          /\ batch' = [batch EXCEPT ![r][1].outcome = "sent"]
          /\ deliveries' = [deliveries EXCEPT ![m] = @ + 1]
          /\ UNCHANGED tries
       \/ /\ m \in Refused \ Unreadable
          /\ batch' = [batch EXCEPT ![r][1].outcome = "failed"]
          /\ tries' = [tries EXCEPT ![m] = @ + 1]
          /\ UNCHANGED deliveries
  /\ UNCHANGED <<queued, attempts, sent, pardoned, crashes>>

\* mutant: a mail that was sent is not marked
MarkNothing(r) ==
  /\ batch[r] # <<>> /\ Head(batch[r]).outcome # "none"
  /\ LET b == Head(batch[r]) IN
     IF b.outcome = "sent"
     THEN UNCHANGED <<sent, attempts>>
     ELSE attempts' = [attempts EXCEPT ![b.mail] = b.had + 1] /\ UNCHANGED sent
  /\ batch' = [batch EXCEPT ![r] = Tail(batch[r])]
  /\ UNCHANGED <<queued, history>>

(* `mark_mail_sent`, or `mark_mail_failed` with the count that was read.   *)
Mark(r) ==
  /\ batch[r] # <<>> /\ Head(batch[r]).outcome # "none"
  /\ LET b == Head(batch[r]) IN
     IF b.outcome = "sent"
     THEN sent' = sent \cup {b.mail} /\ UNCHANGED attempts
     ELSE attempts' = [attempts EXCEPT ![b.mail] = b.had + 1] /\ UNCHANGED sent
  /\ batch' = [batch EXCEPT ![r] = Tail(batch[r])]
  /\ UNCHANGED <<queued, history>>

(* The process dies, with a mail perhaps sent and not marked. *)
RunDies(r) ==
  /\ crashes < MaxCrashes /\ crashes' = crashes + 1
  /\ batch[r] # <<>> /\ batch' = [batch EXCEPT ![r] = <<>>]
  /\ pardoned' = TRUE
  /\ UNCHANGED <<queued, attempts, sent, deliveries, tries>>

Work(r) == StartRun(r) \/ SendNext(r) \/ Mark(r)
Next == Enqueue \/ \E r \in Runs : Work(r) \/ RunDies(r)

(* The timer runs the command again and again. *)
Spec == Init /\ [][Next]_vars /\ \A r \in Runs : WF_vars(Work(r))

-----------------------------------------------------------------------------

(***************************************************************************)
(* A mail arrives once, and is given up after as many refusals as it is    *)
(* allowed (invites.rs: "Five attempts, then it stops trying"), unless a   *)
(* run died or two of them overlapped.                                     *)
(***************************************************************************)
SentOnce ==
  ~pardoned => \A m \in Mails : deliveries[m] <= 1 /\ tries[m] <= MAX_MAIL_ATTEMPTS

(***************************************************************************)
(* Every mail in the queue is sent in the end, or refused as often as it   *)
(* may be and shown as undelivered: none of them waits for ever behind     *)
(* others, unless one whose recipient cannot be read is before it.         *)
(***************************************************************************)
EveryMailIsSettled ==
  \A m \in Mails :
    (\A k \in Unreadable : m < k) =>
      (m \in queued ~> m \in sent \/ attempts[m] >= MAX_MAIL_ATTEMPTS)
=============================================================================
