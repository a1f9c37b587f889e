---- MODULE Subsequences ----
(***************************************************************************)
(* What Iterator::filter and Vec::retain leave of a sequence: SelectSeq    *)
(* with a set, said by counting, because the proofs know nothing of        *)
(* SelectSeq.                                                              *)
(***************************************************************************)
EXTENDS Integers, FiniteSets, Sequences

\* How many of the first i elements of s are in S.
CountIn(s, S, i) == Cardinality({j \in 1..i : s[j] \in S})

\* The elements of s that are in S, in their order.
Among(s, S) ==
    [k \in 1..CountIn(s, S, Len(s)) |->
        s[CHOOSE i \in 1..Len(s) : s[i] \in S /\ CountIn(s, S, i) = k]]
====
