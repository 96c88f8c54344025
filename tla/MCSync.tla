------------------------------- MODULE MCSync -------------------------------
(***************************************************************************)
(* Small instances of Sync: one or two rows of a library on two devices.   *)
(***************************************************************************)
EXTENDS Sync, TLC

CONSTANTS d1, d2, s1, s2, title, notes

OwnSong   == [r \in Records |-> r]
OneTable  == [r \in Records |-> 1]

HasS1   == [r \in Records |-> IF r = s1 THEN 1 ELSE 0]

Create(r)     == [rec |-> r, kind |-> "upsert", set |-> [f \in Fields |-> 1]]
Set(r, f, v)  == [rec |-> r, kind |-> "upsert", set |-> [g \in {f} |-> v]]
Delete(r)     == [rec |-> r, kind |-> "delete", set |-> [g \in {} |-> 0]]

CreateEditDelete == {Create(s1), Set(s1, title, 0), Delete(s1)}
FlipTitle        == {Set(s1, title, 1), Set(s1, title, 0)}

-----------------------------------------------------------------------------

(***************************************************************************)
(* Calm: lost and late requests, closed windows and dead transactions are  *)
(* the only faults, nobody restores a deleted record, and the two overlaps *)
(* the code leaves open do not happen: no push commits while a pull is     *)
(* between its first table and the counter, and no row of a pull is stored *)
(* while `record` holds a copy of a row of that device.                    *)
(***************************************************************************)
MidRead(d) == pull[d] # None /\ pull[d].table > 1 /\ pull[d].seq = None

Calm ==
  /\ \A d \in Devices : MidRead(d) => db' = db
  /\ \A d \in Devices :
       half[d] # None /\ half'[d] = half[d] => local'[d] = local[d]
  /\ \A d \in Devices : half'[d] # None => half'[d].op.saw.state # "dead"

CalmRecord(d) == Record(d) /\ Calm
CalmEngine(d) == Engine(d) /\ Calm
CalmServer    == Server /\ Calm

CalmNext ==
  \/ \E d \in Writers : StartRecord(d) /\ Calm
  \/ \E d \in Devices : CalmRecord(d) \/ CalmEngine(d)
  \/ CalmServer
  \/ (LoseTxn \/ \E d \in Devices : Abandon(d)) /\ Calm

(***************************************************************************)
(* A call of `record` goes on once it is made, the thirty-second tick      *)
(* starts a pass again and again, the server answers.  Strong fairness,    *)
(* because Calm holds a commit back while a pull is in the middle.         *)
(***************************************************************************)
CalmSpec ==
  /\ Init /\ [][CalmNext]_vars
  /\ \A d \in Devices : WF_vars(CalmRecord(d)) /\ SF_vars(CalmEngine(d))
  /\ SF_vars(CalmServer)
=============================================================================
