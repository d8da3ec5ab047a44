------------------------------- MODULE Spans -------------------------------
(***************************************************************************)
(* Sequences made of consecutive spans of integers: span k starts at lo[k] *)
(* and has len[k] numbers lo[k], lo[k] + 1, ...  Used to say what the     *)
(* expansion of a CPU list is without computing it by recursion.           *)
(***************************************************************************)
EXTENDS Integers, Sequences

\* c cuts s into spans 1..n followed by the first m numbers of span n + 1:
\* c[k] is where span k ends in s.
SpanEnds(c, s, lo, len, n, m) ==
    /\ c[0] = 0
    /\ Len(s) = c[n] + m
    /\ \A k \in 1..n :
           /\ c[k] = c[k - 1] + len[k]
           /\ \A j \in 1..len[k] : s[c[k - 1] + j] = lo[k] + j - 1
    /\ \A j \in 1..m : s[c[n] + j] = lo[n + 1] + j - 1

\* s is spans 1..n followed by the first m numbers of span n + 1.
Partial(s, lo, len, n, m) ==
    \E c \in [0..n -> 0..Len(s)] : SpanEnds(c, s, lo, len, n, m)
=============================================================================
