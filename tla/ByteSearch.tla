---- MODULE ByteSearch ----
(***************************************************************************)
(* Bytes in the output of a shell, and how escape sequences are found in   *)
(* it, by the terminal (ade-app) as by the daemon.  Bytes are values; the  *)
(* sequences share their first bytes the way the real ones do.             *)
(***************************************************************************)
EXTENDS Integers, Sequences, FiniteSetsExt

CONSTANTS Bytes,
          Bell, St,   \* what ends a sequence: a byte, or two
          Letters     \* bytes of a text without control bytes

ASSUME BytesAssumption ==
    /\ Bell \in Bytes /\ St \in Seq(Bytes) \ {<<>>} /\ Letters \subseteq Bytes
    /\ Bell \notin Letters /\ St[1] \notin Letters

Places(s, needle) ==
    {i \in 1..(Len(s) - Len(needle) + 1) : SubSeq(s, i, i + Len(needle) - 1) = needle}

Has(s, needle) == Places(s, needle) # {}

\* The place of the first, from 1.
Find(s, needle) == Min(Places(s, needle))

From(s, i) == SubSeq(s, i, Len(s))

\* Mutant: only a suffix of one byte.
PartialSuffixOne(s, needle) ==
    IF s # <<>> /\ s[Len(s)] = needle[1] THEN 1 ELSE 0

\* The longest suffix that may be the start of a needle.
PartialSuffix(s, needle) ==
    Max({n \in 0..(Len(needle) - 1) : n <= Len(s) /\ SubSeq(needle, 1, n) = From(s, Len(s) - n + 1)})
====
