----------------------------- MODULE MCSessions -----------------------------
(***************************************************************************)
(* The sessions of a device with two windows, and the mails that carry the *)
(* links of a reset or an invitation: two parts of the server that share   *)
(* nothing.  `part` says at the start which of them is checked.            *)
(***************************************************************************)
EXTENDS Sessions, TLC

CONSTANTS
  w1, w2, t1, t2,
  Mails, Unreadable, Refused, Runs, Limit, MAX_MAIL_ATTEMPTS, MaxCrashes

VARIABLES part, queued, attempts, sent, batch, deliveries, tries, pardoned, crashes

OneEach == (t1 :> w1) @@ (t2 :> w2)

mail == <<queued, attempts, sent, batch, deliveries, tries, pardoned, crashes>>
all  == <<part, vars, mail>>

Q == INSTANCE MailQueue

ASSUME SessionsMailAssumption == Q!MailAssumption

InSessions(A) == part = "sessions" /\ A /\ UNCHANGED <<part, mail>>
InMail(A)     == part = "mail" /\ A /\ UNCHANGED <<part, vars>>

SmallInit == part \in {"sessions", "mail"} /\ Init /\ Q!Init
SmallNext == InSessions(Next) \/ InMail(Q!Next)

\* the fairness of Sessions and of MailQueue
SmallSpec ==
  /\ SmallInit /\ [][SmallNext]_all
  /\ \A t \in Tasks \cup {Nobody} : WF_all(InSessions(Handle(t)))
  /\ \A t \in Tasks : /\ SF_all(InSessions(TakeTurn(t)))
                      /\ WF_all(InSessions(Receive(t)))
  /\ \A r \in Runs : WF_all(InMail(Q!Work(r)))

\* A mail arrives once and is given up in time (invites.rs:231).
SentOnce == Q!SentOnce

\* Every call of a window ends (client.rs), and no mail waits for ever behind
\* others (cli.rs send_mail).
EverythingIsSettled == EveryCallEnds /\ Q!EveryMailIsSettled
=============================================================================
