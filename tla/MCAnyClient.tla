---------------------------- MODULE MCAnyClient -----------------------------
(***************************************************************************)
(* Small instances of AnyClient: two arrangements of one song that two     *)
(* people make the default, edit and delete.                               *)
(***************************************************************************)
EXTENDS AnyClient

CONSTANTS d1, d2, a1, a2, song, flag, body

MCSongOf  == [r \in {a1, a2} |-> song]
TwoTables == [r \in {a1, a2} |-> IF r = a1 THEN 1 ELSE 2]

Upsert(i, r, set, base) ==
  [id |-> i, rec |-> r, kind |-> "upsert", set |-> set, base |-> base, saw |-> NoRow]
Delete(i, r, base) ==
  [id |-> i, rec |-> r, kind |-> "delete", set |-> [f \in {} |-> 0], base |-> base,
   saw |-> NoRow]

Both(v, w) == [f \in {flag, body} |-> IF f = flag THEN v ELSE w]
Only(f, v) == [g \in {f} |-> v]

\* both arrangements arrive as defaults, then one is edited, deleted, or chosen again
DefaultOps ==
  {Upsert(1, a1, Both(1, 0), NoBase), Upsert(2, a2, Both(1, 0), NoBase),
   Upsert(3, a1, Only(flag, 1), 1),   Delete(4, a1, 1)}
=============================================================================
