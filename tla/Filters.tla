------------------------------- MODULE Filters -------------------------------
(***************************************************************************)
(* What Rust's retain, and filter with collect, leave of a list.           *)
(***************************************************************************)
EXTENDS Integers, Sequences

\* The elements of the sequence that are in the set, in their order: SelectSeq for a
\* test that is a set, which lets what it leaves be reasoned about.
Retain(s, S) ==
    LET kept[i \in 0 .. Len(s)] ==
            IF i = 0 THEN <<>>
            ELSE IF s[i] \in S THEN Append(kept[i - 1], s[i]) ELSE kept[i - 1]
    IN  kept[Len(s)]

\* What is on the list.
Elements(s) == {s[i] : i \in DOMAIN s}
================================================================================
