-------------------------------- MODULE Arrays --------------------------------
(***************************************************************************)
(* Lists as the pages make them: of the rows of a set in the order of a    *)
(* column, of time or of the number of matches (Array.sort), of the        *)
(* elements of a list that a filter keeps, in their order (Array.filter),  *)
(* of the first of them (Array.slice), and their sums (Array.reduce).      *)
(***************************************************************************)
EXTENDS Naturals, FiniteSets, Sequences

(* An order is a set of pairs, of which the first comes before the second. *)
OrdersTotally(R, S) ==
  /\ \A x \in S : <<x, x>> \notin R
  /\ \A x, y \in S : x # y => <<x, y>> \in R \/ <<y, x>> \in R
  /\ \A x, y, z \in S : <<x, y>> \in R /\ <<y, z>> \in R => <<x, z>> \in R

AheadOf(x, S, R) == {y \in S : <<y, x>> \in R}

Ranked(S, R) == [k \in 1 .. Cardinality(S) |-> CHOOSE x \in S : Cardinality(AheadOf(x, S, R)) = k - 1]

Earlier(rows) == {p \in rows \X rows : p[1] < p[2]}

Kept(s, rows) == LET order == Ranked(rows, Earlier(rows)) IN [k \in DOMAIN order |-> s[order[k]]]

(* The first n, or all when there are fewer (Array.slice). *)
FirstOf(seq, n) == SubSeq(seq, 1, IF Len(seq) < n THEN Len(seq) ELSE n)

(* Finitely many numbers, and their sum: one after the other is added.      *)
Counts(f) == IsFiniteSet(DOMAIN f) /\ f \in [DOMAIN f -> Nat]
SumOf(f) ==
  LET sum[S \in SUBSET DOMAIN f] == IF S = {} THEN 0
                                   ELSE LET x == CHOOSE y \in S : TRUE IN f[x] + sum[S \ {x}]
  IN  sum[DOMAIN f]
=============================================================================
