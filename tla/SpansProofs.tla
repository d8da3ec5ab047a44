---------------------------- MODULE SpansProofs ----------------------------
(***************************************************************************)
(* Lemmas about Partial (module Spans): how appending to a sequence moves  *)
(* along the spans.  Stated for any starts lo and lengths len of N spans.  *)
(***************************************************************************)
EXTENDS Spans, TLAPS


\* Nothing appended: no span.
LEMMA PartialEmpty ==
    ASSUME NEW N \in Nat, NEW lo, NEW len \in [1..N -> Nat]
    PROVE  Partial(<<>>, lo, len, 0, 0)
<1>. DEFINE c == [i \in 0..0 |-> 0]
<1>1. c \in [0..0 -> 0..Len(<<>>)] /\ c[0] = 0 /\ Len(<<>>) = c[0] + 0
  OBVIOUS
<1>2. 1..0 = {}
  OBVIOUS
<1>3. SpanEnds(c, <<>>, lo, len, 0, 0)
  BY <1>1, <1>2, Zenon DEF SpanEnds
<1>. QED  BY <1>1, <1>3 DEF Partial

\* Appending the next number of span n + 1.
LEMMA PartialAppend ==
    ASSUME NEW s \in Seq(Int), NEW N \in Nat,
           NEW lo, NEW len \in [1..N -> Nat],
           NEW n \in 0..(N - 1), NEW m \in Nat,
           Partial(s, lo, len, n, m)
    PROVE  Partial(Append(s, lo[n + 1] + m), lo, len, n, m + 1)
<1>. PICK c \in [0..n -> 0..Len(s)] : SpanEnds(c, s, lo, len, n, m)
  BY DEF Partial
<1>. DEFINE t == Append(s, lo[n + 1] + m)
<1>1. Len(t) = Len(s) + 1 /\ \A i \in 1..Len(s) : t[i] = s[i]
  OBVIOUS
<1>2. c \in [0..n -> 0..Len(t)]
  BY <1>1
<1>3. \A k \in 1..n :
          /\ c[k] = c[k - 1] + len[k]
          /\ \A j \in 1..len[k] : t[c[k - 1] + j] = lo[k] + j - 1
  <2>. SUFFICES ASSUME NEW k \in 1..n
                PROVE  /\ c[k] = c[k - 1] + len[k]
                       /\ \A j \in 1..len[k] : t[c[k - 1] + j] = lo[k] + j - 1
    OBVIOUS
  <2>1. /\ c[k] = c[k - 1] + len[k]
        /\ \A j \in 1..len[k] : s[c[k - 1] + j] = lo[k] + j - 1
    BY Zenon DEF SpanEnds
  <2>2. c[k] \in 0..Len(s) /\ c[k - 1] \in 0..Len(s) /\ len[k] \in Nat
    OBVIOUS
  <2>3. \A j \in 1..len[k] : c[k - 1] + j \in 1..Len(s)
    <3>1. c[k - 1] + len[k] <= Len(s)
      BY <2>1, <2>2
    <3>. SUFFICES ASSUME NEW j \in 1..len[k]
                  PROVE  c[k - 1] + j \in 1..Len(s)
      OBVIOUS
    <3>2. c[k - 1] \in Nat /\ len[k] \in Nat /\ Len(s) \in Nat
      BY <2>2
    <3>. QED  BY <3>1, <3>2, SMTT(30)
  <2>. QED  BY <2>1, <2>3, <1>1, Zenon
<1>4. \A j \in 1..(m + 1) : t[c[n] + j] = lo[n + 1] + j - 1
  <2>. SUFFICES ASSUME NEW j \in 1..(m + 1)
                PROVE  t[c[n] + j] = lo[n + 1] + j - 1
    OBVIOUS
  <2>1. Len(s) = c[n] + m /\ c[n] \in Nat
    BY DEF SpanEnds
  <2>2. CASE j <= m
    <3>0. j \in 1..m
      BY <2>2
    <3>1. s[c[n] + j] = lo[n + 1] + j - 1
      BY <3>0, Zenon DEF SpanEnds
    <3>2. c[n] + j \in 1..Len(s)
      BY <2>1, <2>2
    <3>. QED  BY <3>1, <3>2, <1>1
  <2>3. CASE j = m + 1
    <3>1. c[n] + j = Len(s) + 1
      BY <2>1, <2>3
    <3>2. t[Len(s) + 1] = lo[n + 1] + m
      OBVIOUS
    <3>3. lo[n + 1] + m = lo[n + 1] + j - 1
      BY <2>3
    <3>. QED  BY <3>1, <3>2, <3>3, Zenon
  <2>4. j <= m \/ j = m + 1
    OBVIOUS
  <2>. QED  BY <2>2, <2>3, <2>4
<1>5. c[0] = 0 /\ Len(t) = c[n] + (m + 1)
  BY <1>1 DEF SpanEnds
<1>6. SpanEnds(c, t, lo, len, n, m + 1)
  BY <1>3, <1>4, <1>5, Zenon DEF SpanEnds
<1>. QED  BY <1>2, <1>6 DEF Partial

\* Span n + 1 complete: the spans of n + 1 components.
LEMMA PartialClose ==
    ASSUME NEW s \in Seq(Int), NEW N \in Nat,
           NEW lo, NEW len \in [1..N -> Nat],
           NEW n \in 0..(N - 1),
           Partial(s, lo, len, n, len[n + 1])
    PROVE  Partial(s, lo, len, n + 1, 0)
<1>. PICK c \in [0..n -> 0..Len(s)] : SpanEnds(c, s, lo, len, n, len[n + 1])
  BY DEF Partial
<1>. DEFINE d == [i \in 0..(n + 1) |-> IF i <= n THEN c[i] ELSE Len(s)]
<1>1. d \in [0..(n + 1) -> 0..Len(s)] /\ d[0] = 0 /\ Len(s) = d[n + 1] + 0
  BY DEF SpanEnds
<1>2. \A k \in 1..(n + 1) :
          /\ d[k] = d[k - 1] + len[k]
          /\ \A j \in 1..len[k] : s[d[k - 1] + j] = lo[k] + j - 1
  <2>. SUFFICES ASSUME NEW k \in 1..(n + 1)
                PROVE  /\ d[k] = d[k - 1] + len[k]
                       /\ \A j \in 1..len[k] : s[d[k - 1] + j] = lo[k] + j - 1
    OBVIOUS
  <2>1. CASE k <= n
    <3>1. d[k] = c[k] /\ d[k - 1] = c[k - 1] /\ k \in 1..n
      BY <2>1
    <3>2. /\ c[k] = c[k - 1] + len[k]
          /\ \A j \in 1..len[k] : s[c[k - 1] + j] = lo[k] + j - 1
      BY <3>1, Zenon DEF SpanEnds
    <3>. QED  BY <3>1, <3>2
  <2>2. CASE k = n + 1
    <3>1. d[k] = Len(s) /\ d[k - 1] = c[n]
      BY <2>2
    <3>2. /\ Len(s) = c[n] + len[n + 1]
          /\ \A j \in 1..len[n + 1] : s[c[n] + j] = lo[n + 1] + j - 1
      BY DEF SpanEnds
    <3>3. d[k] = d[k - 1] + len[k]
      BY <2>2, <3>1, <3>2
    <3>4. \A j \in 1..len[k] : s[d[k - 1] + j] = lo[k] + j - 1
      <4>. SUFFICES ASSUME NEW j \in 1..len[k]
                    PROVE  s[d[k - 1] + j] = lo[k] + j - 1
        OBVIOUS
      <4>1. j \in 1..len[n + 1] /\ lo[k] = lo[n + 1]
        BY <2>2
      <4>2. s[c[n] + j] = lo[n + 1] + j - 1
        BY <3>2, <4>1
      <4>. QED  BY <3>1, <4>1, <4>2
    <3>. QED  BY <3>3, <3>4
  <2>3. k <= n \/ k = n + 1
    OBVIOUS
  <2>. QED  BY <2>1, <2>2, <2>3
<1>3. 1..0 = {}
  OBVIOUS
<1>4. SpanEnds(d, s, lo, len, n + 1, 0)
  BY <1>1, <1>2, <1>3, Zenon DEF SpanEnds
<1>. QED  BY <1>1, <1>4 DEF Partial

\* The spans of n components are those of n - 1 followed by all of span n.
LEMMA PartialOpen ==
    ASSUME NEW s \in Seq(Int), NEW N \in Nat,
           NEW lo, NEW len \in [1..N -> Nat],
           NEW n \in 1..N,
           Partial(s, lo, len, n, 0)
    PROVE  Partial(s, lo, len, n - 1, len[n])
<1>. PICK c \in [0..n -> 0..Len(s)] : SpanEnds(c, s, lo, len, n, 0)
  BY DEF Partial
<1>. DEFINE d == [i \in 0..(n - 1) |-> c[i]]
<1>1. d \in [0..(n - 1) -> 0..Len(s)] /\ d[0] = 0
  BY DEF SpanEnds
<1>2. /\ c[n] = c[n - 1] + len[n]
      /\ \A j \in 1..len[n] : s[c[n - 1] + j] = lo[n] + j - 1
  <2>1. n \in 1..n
    OBVIOUS
  <2>. QED  BY <2>1, Zenon DEF SpanEnds
<1>3. Len(s) = d[n - 1] + len[n]
  BY <1>2 DEF SpanEnds
<1>4. \A j \in 1..len[n] : s[d[n - 1] + j] = lo[n - 1 + 1] + j - 1
  BY <1>2
<1>5. \A k \in 1..(n - 1) :
          /\ d[k] = d[k - 1] + len[k]
          /\ \A j \in 1..len[k] : s[d[k - 1] + j] = lo[k] + j - 1
  <2>. SUFFICES ASSUME NEW k \in 1..(n - 1)
                PROVE  /\ d[k] = d[k - 1] + len[k]
                       /\ \A j \in 1..len[k] : s[d[k - 1] + j] = lo[k] + j - 1
    OBVIOUS
  <2>1. d[k] = c[k] /\ d[k - 1] = c[k - 1] /\ k \in 1..n
    OBVIOUS
  <2>2. /\ c[k] = c[k - 1] + len[k]
        /\ \A j \in 1..len[k] : s[c[k - 1] + j] = lo[k] + j - 1
    BY <2>1, Zenon DEF SpanEnds
  <2>. QED  BY <2>1, <2>2
<1>6. SpanEnds(d, s, lo, len, n - 1, len[n])
  BY <1>1, <1>3, <1>4, <1>5, Zenon DEF SpanEnds
<1>. QED  BY <1>1, <1>6 DEF Partial
=============================================================================
