------------------------------- MODULE MCBlobs -------------------------------
(***************************************************************************)
(* Small instances of Blobs: files of two lengths.                         *)
(***************************************************************************)
EXTENDS Blobs, TLC

CONSTANTS d1, d2, s1, s2, f1, f2

Sizes == (f1 :> 1) @@ (f2 :> 2)

(* Two changes, and one thing beside them: a view, a fault, or an orphan   *)
(* in the store.                                                           *)
OneThing ==
  /\ changes = 0
  /\ \/ views = 0 /\ faults = MaxFaults /\ old = {}
     \/ views = MaxViews /\ faults = 0 /\ old = {}
     \/ views = MaxViews /\ faults = MaxFaults /\ old = {f2}
SmallInit == Init /\ OneThing
SmallSpec == SmallInit /\ [][Next]_vars /\ Fairness
=============================================================================
