-------------------------------- MODULE Ranks --------------------------------
(***************************************************************************)
(* Fractional ranks (crates/core/src/sets/rank.rs): the place of an item   *)
(* in a running order is a string of digits that sorts between those of    *)
(* its neighbours.  A string is a sequence of digits here, and the empty   *)
(* one stands for "before everything" and "after everything".              *)
(***************************************************************************)
EXTENDS Integers, Sequences

CONSTANT Base    \* the length of DIGITS, 62 in the code

ASSUME BaseAssumption == Base \in Nat /\ Base >= 2

Digits == 0..(Base - 1)

\* the one invariant: never empty, and never ending in the lowest digit
IsRank(r) == r \in Seq(Digits) /\ r # <<>> /\ r[Len(r)] # 0

\* a < b, byte by byte
Less(a, b) ==
  \E n \in 0..Len(a) :
     /\ n < Len(b)
     /\ \A i \in 1..n : a[i] = b[i]
     /\ n = Len(a) \/ a[n + 1] < b[n + 1]

-----------------------------------------------------------------------------
(* `rank_between`, digit by digit *)

From(low, i) == IF i <= Len(low) THEN low[i] ELSE 0

\* does the rank still match `high` before its i-th digit?
Bounded(low, high, i) ==
  high # <<>> /\ \A j \in 1..(i - 1) : j <= Len(high) => From(low, j) = high[j]

RunsOut(low, high, i) == Bounded(low, high, i) /\ i > Len(high)

To(low, high, i) == IF Bounded(low, high, i) THEN high[i] ELSE Base

\* mutant: a midpoint where there is none between the digits
FitsTight(low, high, i) == ~RunsOut(low, high, i) /\ From(low, i) < To(low, high, i)

Fits(low, high, i) == ~RunsOut(low, high, i) /\ From(low, i) + 1 < To(low, high, i)

\* no loop is longer: beyond both bounds the lowest digit leaves room
Indices(low, high) == 1..(Len(low) + Len(high) + 1)

FirstFit(low, high) ==
  CHOOSE i \in Indices(low, high) :
     Fits(low, high, i) /\ \A j \in 1..(i - 1) : ~Fits(low, high, j)

Midpoint(low, high) ==
  LET n == FirstFit(low, high) IN
  [i \in 1..n |-> IF i < n THEN From(low, i) ELSE (From(low, n) + To(low, high, n)) \div 2]

OutOfOrder(low, high) == low # <<>> /\ high # <<>> /\ ~Less(low, high)

NoRoom(low, high) ==
  \E i \in 1..(Len(low) + Len(high) + 1) :
     RunsOut(low, high, i) /\ \A j \in 1..(i - 1) : ~Fits(low, high, j)

RankBetween(low, high) ==
  CASE OutOfOrder(low, high) -> [result |-> "OutOfOrder", rank |-> <<>>]
    [] ~OutOfOrder(low, high) /\ NoRoom(low, high) -> [result |-> "NoRoom", rank |-> <<>>]
    [] OTHER -> [result |-> "ok", rank |-> Midpoint(low, high)]

\* `initial_ranks`: each after the one before
InitialRanks(count) ==
  LET ranks[n \in Nat] ==
        IF n = 0 THEN <<>>
        ELSE LET before == ranks[n - 1]
                 last == IF n = 1 THEN <<>> ELSE before[n - 1]
             IN Append(before, RankBetween(last, <<>>).rank)
  IN ranks[count]

\* the i-th of them, or no bound at all
At(ranks, i) == IF i \in 1..Len(ranks) THEN ranks[i] ELSE <<>>

\* mutant: the moved item is still counted
RankForMoveAmong(ranks, from, to) == RankBetween(At(ranks, to - 1), At(ranks, to))

\* `rank_for_move`, positions counted from 1: the gap at `to` once the item is out
RankForMove(ranks, from, to) ==
  LET without == [i \in 1..(Len(ranks) - IF from \in 1..Len(ranks) THEN 1 ELSE 0) |->
                    ranks[IF i < from THEN i ELSE i + 1]]
  IN RankBetween(At(without, to - 1), At(without, to))
=============================================================================
