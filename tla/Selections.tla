------------------------------ MODULE Selections ------------------------------
(***************************************************************************)
(* Lists as the code of Layer 2 builds them: sorted() with a key, and a    *)
(* comprehension with a condition.  Both are given by the rank of each     *)
(* position, which can be reasoned about where SelectSeq and SortSeq       *)
(* cannot.                                                                 *)
(***************************************************************************)
EXTENDS Integers, FiniteSets, Sequences

\* The elements of a finite set one after the other, in a strict total order of
\* them that is a set of pairs.
Enumerate(S, order) ==
  [k \in 1 .. Cardinality(S) |->
     CHOOSE i \in S : Cardinality({j \in S : <<j, i>> \in order}) = k - 1]

\* [x for x in s if x in T]
Filter(s, T) ==
  LET positions == {i \in DOMAIN s : s[i] \in T}
      order == {p \in positions \X positions : p[1] < p[2]}
  IN [k \in 1 .. Cardinality(positions) |-> s[Enumerate(positions, order)[k]]]
===============================================================================
