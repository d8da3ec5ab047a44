--------------------------- MODULE CPURangeProofs ---------------------------
(***************************************************************************)
(* Proofs about parseCPURange (module CPURange) for every width W, every   *)
(* bound MaxOut and every set of inputs: it implements what CPURangeSpec   *)
(* promises, and on the values spec.md section 8 calls valid it appends    *)
(* exactly the spans in order, as long as no span ends at MaxInt64.        *)
(***************************************************************************)
EXTENDS CPURange, SpansProofs, TLAPS

-----------------------------------------------------------------------------
(* Lemmas about int64 arithmetic and strconv.ParseInt.                     *)

\* The width leaves 0 and the small numbers inside the int64 range.
LEMMA Int64Bounds ==
    /\ IntMax \in Nat /\ IntMax >= 1
    /\ IntMin \in Int /\ IntMin <= 0
    /\ IntMin + Modulus - 1 = IntMax
    /\ 0..IntMax \subseteq Int64
BY ModulusAssumption DEF IntMax, IntMin, Int64

\* ParseInt returns an int64 whatever the text.
LEMMA ParseIntType ==
    ASSUME NEW t \in Text
    PROVE  /\ ParseInt(t).val \in Int64
           /\ ParseInt(t).err \in BOOLEAN
<1>1. CASE t = NaN
  BY <1>1, Int64Bounds DEF ParseInt, Int64
<1>2. CASE t # NaN /\ t > IntMax
  BY <1>2, Int64Bounds DEF ParseInt, Int64
<1>3. CASE t # NaN /\ ~(t > IntMax)
  <2>1. t \in Nat
    BY <1>3 DEF Text
  <2>. QED  BY <1>3, <2>1, Int64Bounds DEF ParseInt, Int64
<1>. QED  BY <1>1, <1>2, <1>3

\* i++ with wrap-around stays an int64.
LEMMA WrapType ==
    ASSUME NEW x \in Int
    PROVE  Wrap(x) \in Int64
<1>1. (x - IntMin) % Modulus \in 0..(Modulus - 1)
  BY ModulusAssumption, Int64Bounds
<1>. QED  BY <1>1, Int64Bounds, ModulusAssumption DEF Wrap, Int64

\* A part parses to a number of 0..IntMax, a literal of that range to
\* itself.
LEMMA PartValRange ==
    ASSUME NEW t \in Text
    PROVE  /\ PartVal(t) \in 0..IntMax
           /\ t \in 0..IntMax => PartVal(t) = t
<1>1. CASE t = NaN
  BY <1>1, Int64Bounds, NaNAssumption DEF PartVal, ParseInt
<1>2. CASE t # NaN
  <2>1. t \in Nat
    BY <1>2 DEF Text
  <2>. QED  BY <1>2, <2>1, Int64Bounds DEF PartVal, ParseInt
<1>. QED  BY <1>1, <1>2

\* i++ on an int64 below IntMax does not wrap.
LEMMA WrapId ==
    ASSUME NEW x \in IntMin..IntMax
    PROVE  Wrap(x) = x
<1>1. x - IntMin \in 0..(Modulus - 1)
  BY ModulusAssumption DEF IntMin, IntMax
<1>2. (x - IntMin) % Modulus = x - IntMin
  BY <1>1, ModulusAssumption
<1>. QED  BY <1>2, Int64Bounds DEF Wrap

-----------------------------------------------------------------------------
(* The spans of the value being parsed, as plain operators of this module. *)

\* The first number and the length of the span of each component of v, as
\* CPURangeSpec defines them with PartValue the conversion of ParseInt.
LoOf(v) == [k \in 1..Len(v) |-> PartVal(v[k][1])]
LenOf(v) ==
    [k \in 1..Len(v) |->
        IF Len(v[k]) < 2 \/ PartVal(v[k][2]) < LoOf(v)[k] THEN 0
        ELSE PartVal(v[k][2]) - LoOf(v)[k] + 1]

-----------------------------------------------------------------------------
(* The inductive invariant.                                                *)

\* The components the outer loop has passed all had a second part.
IPassed ==
    rPc \in {"comp", "loop"} => \A k \in 1..(rK - 1) : Len(rComps[k]) >= 2
\* At the loop head cpuSlice holds the spans of the components passed.
IComp ==
    rPc = "comp" => Partial(rOut, LoOf(rComps), LenOf(rComps), rK - 1, 0)
\* In the inner loop cpuSlice holds them followed by first..i-1 of the
\* current span, unless last is MaxInt64 and i may have wrapped around.
ILoop ==
    rPc = "loop" =>
        /\ rK \in 1..Len(rComps)
        /\ Len(rComps[rK]) >= 2
        /\ rLast = PartVal(rComps[rK][2])
        /\ \/ rLast = IntMax
           \/ /\ rI - LoOf(rComps)[rK] \in 0..LenOf(rComps)[rK]
              /\ Partial(rOut, LoOf(rComps), LenOf(rComps), rK - 1,
                         rI - LoOf(rComps)[rK])
\* On return every component had a span and cpuSlice holds them all.
IDone ==
    rPc = "done" =>
        /\ \A k \in 1..Len(rComps) : Len(rComps[k]) >= 2
        /\ Partial(rOut, LoOf(rComps), LenOf(rComps), Len(rComps), 0)
\* A panic is at a component without a second part.
IPanic ==
    rPc = "panic" => rK \in 1..Len(rComps) /\ Len(rComps[rK]) < 2

RInv ==
    /\ RangeTypeOK /\ rComps \in RangeValue
    /\ IPassed /\ IComp /\ ILoop /\ IDone /\ IPanic

-----------------------------------------------------------------------------
(* Lemmas about the spans of a value.                                      *)

\* Every component has a first part, which parses to a number of
\* 0..IntMax; each span has a length.
LEMMA SpansType ==
    ASSUME NEW v \in Seq(Component)
    PROVE  /\ LoOf(v) \in [1..Len(v) -> 0..IntMax]
           /\ LenOf(v) \in [1..Len(v) -> Nat]
<1>1. \A k \in 1..Len(v) : v[k][1] \in Text
  BY DEF Component
<1>2. \A k \in 1..Len(v) : PartVal(v[k][1]) \in 0..IntMax
  BY <1>1, PartValRange
<1>3. LoOf(v) \in [1..Len(v) -> 0..IntMax]
  BY <1>2 DEF LoOf
<1>4. \A k \in 1..Len(v) : Len(v[k]) >= 2 => PartVal(v[k][2]) \in 0..IntMax
  <2>. SUFFICES ASSUME NEW k \in 1..Len(v), Len(v[k]) >= 2
                PROVE  PartVal(v[k][2]) \in 0..IntMax
    OBVIOUS
  <2>1. v[k][2] \in Text
    BY DEF Component
  <2>. QED  BY <2>1, PartValRange
<1>5. LenOf(v) \in [1..Len(v) -> Nat]
  BY <1>3, <1>4, Int64Bounds DEF LenOf
<1>. QED  BY <1>3, <1>5

-----------------------------------------------------------------------------
(* Init and the steps preserve RInv.                                       *)

LEMMA InitRInv == RangeInit => RInv
<1>. SUFFICES ASSUME RangeInit PROVE RInv
  OBVIOUS
<1>1. rComps \in RangeValue
  BY InputsAssumption DEF RangeInit
<1>2. RangeTypeOK
  BY <1>1, Int64Bounds DEF RangeInit, RangeTypeOK, RangeValue, RangePcs
<1>3. IComp
  <2>1. LenOf(rComps) \in [1..Len(rComps) -> Nat]
    BY <1>1, SpansType DEF RangeValue
  <2>. QED  BY <2>1, PartialEmpty DEF RangeInit, IComp
<1>. QED  BY <1>1, <1>2, <1>3
          DEF RangeInit, RInv, IPassed, ILoop, IDone, IPanic

\* The loop head splits a component: it panics on one without a second
\* part, or enters the inner loop with i at the start of the span.
LEMMA SplitRInv ==
    ASSUME RInv, SplitComponent
    PROVE  RInv'
<1>. USE DEF RInv
<1>1. rPc = "comp" /\ rK \in 1..Len(rComps) /\ rComps \in Seq(Component)
  BY DEF SplitComponent, RangeTypeOK
<1>2. rComps[rK] \in Component /\ rComps[rK][1] \in Text
  BY <1>1 DEF Component
<1>3. CASE Len(rComps[rK]) < 2
  <2>1. rPc' = "panic" /\ UNCHANGED <<rComps, rK, rI, rLast, rOut>>
    BY <1>3 DEF SplitComponent
  <2>2. RangeTypeOK'
    BY <2>1 DEF RangeTypeOK, RangePcs
  <2>. QED  BY <1>1, <1>3, <2>1, <2>2 DEF IPassed, IComp, ILoop, IDone, IPanic
<1>4. CASE ~(Len(rComps[rK]) < 2)
  <2>1. /\ rI' = PartVal(rComps[rK][1])
        /\ rLast' = PartVal(rComps[rK][2])
        /\ rPc' = "loop"
        /\ UNCHANGED <<rComps, rK, rOut>>
    BY <1>4 DEF SplitComponent, PartVal
  <2>2. rComps[rK][2] \in Text
    BY <1>2, <1>4 DEF Component
  <2>3. rI' \in Int64 /\ rLast' \in Int64
    BY <1>2, <2>1, <2>2, PartValRange, Int64Bounds
  <2>4. RangeTypeOK'
    BY <2>1, <2>3 DEF RangeTypeOK, RangePcs
  <2>5. rI' - LoOf(rComps)[rK] = 0 /\ LenOf(rComps)[rK] \in Nat
    BY <1>1, <2>1, SpansType DEF LoOf
  <2>6. Partial(rOut, LoOf(rComps), LenOf(rComps), rK - 1, 0)
    BY <1>1 DEF IComp
  <2>7. ILoop'
    BY <1>1, <1>4, <2>1, <2>5, <2>6 DEF ILoop
  <2>8. IPassed'
    BY <1>1, <2>1 DEF IPassed
  <2>. QED  BY <2>1, <2>4, <2>7, <2>8 DEF IComp, IDone, IPanic
<1>. QED  BY <1>3, <1>4

\* One iteration of the inner loop appends i, the next number of the span,
\* and i++ does not wrap unless last is MaxInt64.
LEMMA AppendRInv ==
    ASSUME RInv, AppendCPU
    PROVE  RInv'
<1>. USE DEF RInv
<1>. DEFINE lo == LoOf(rComps)
            len == LenOf(rComps)
            m == rI - lo[rK]
<1>1. /\ rPc = "loop" /\ rI <= rLast
      /\ rOut' = Append(rOut, rI) /\ rI' = Wrap(rI + 1)
      /\ UNCHANGED <<rComps, rK, rLast, rPc>>
  BY DEF AppendCPU
<1>2. /\ rComps \in Seq(Component) /\ rK \in 1..Len(rComps)
      /\ Len(rComps[rK]) >= 2 /\ rLast = PartVal(rComps[rK][2])
      /\ rI \in Int64 /\ rLast \in Int64 /\ rOut \in Seq(Int64)
  BY <1>1 DEF ILoop, RangeTypeOK
<1>3. RangeTypeOK'
  <2>1. rI' \in Int64
    BY <1>1, <1>2, WrapType DEF Int64
  <2>2. rOut' \in Seq(Int64)
    BY <1>1, <1>2
  <2>. QED  BY <1>1, <2>1, <2>2 DEF RangeTypeOK
<1>4. IPassed' /\ IComp' /\ IDone' /\ IPanic'
  BY <1>1 DEF IPassed, IComp, IDone, IPanic
<1>5. CASE rLast = IntMax
  BY <1>1, <1>2, <1>3, <1>4, <1>5 DEF ILoop
<1>6. CASE rLast # IntMax
  <2>1. m \in 0..len[rK] /\ Partial(rOut, lo, len, rK - 1, m)
    BY <1>1, <1>6 DEF ILoop
  <2>2. lo \in [1..Len(rComps) -> 0..IntMax] /\ len \in [1..Len(rComps) -> Nat]
    BY <1>2, SpansType
  <2>3. m < len[rK]
    <3>1. CASE rLast < lo[rK]
      <4>1. len[rK] = 0
        BY <1>2, <3>1 DEF LenOf, LoOf
      <4>2. lo[rK] \in Int /\ rI \in Int /\ rLast \in Int
        BY <1>2, <2>2, Int64Bounds DEF Int64
      <4>3. rI = lo[rK]
        BY <2>1, <4>1, <4>2
      <4>. QED  BY <1>1, <3>1, <4>2, <4>3
    <3>2. CASE ~(rLast < lo[rK])
      <4>1. len[rK] = rLast - lo[rK] + 1
        BY <1>2, <3>2 DEF LenOf, LoOf
      <4>2. lo[rK] \in Int /\ rI \in Int /\ rLast \in Int
        BY <1>2, <2>2, Int64Bounds DEF Int64
      <4>3. rI <= rLast
        BY <1>1
      <4>. QED  BY <4>1, <4>2, <4>3
    <3>. QED  BY <3>1, <3>2
  <2>4. rI' = rI + 1
    <3>1. rI + 1 \in IntMin..IntMax
      BY <1>1, <1>2, <1>6, Int64Bounds DEF Int64
    <3>. QED  BY <1>1, <3>1, WrapId
  <2>5. rOut' = Append(rOut, lo[rK - 1 + 1] + m)
    <3>1. lo[rK] \in Int /\ rI \in Int /\ rK \in Int
      BY <1>2, <2>2, Int64Bounds, SMTT(30) DEF Int64
    <3>2. lo[rK - 1 + 1] + m = rI
      BY <3>1
    <3>3. rOut' = Append(rOut, rI)
      BY <1>1
    <3>. QED  BY <3>2, <3>3
  <2>6. Partial(rOut', lo, len, rK - 1, m + 1)
    <3>1. rOut \in Seq(Int)
      BY <1>2, Int64Bounds DEF Int64
    <3>2. rK - 1 \in 0..(Len(rComps) - 1) /\ m \in Nat /\ Len(rComps) \in Nat
      BY <1>2, <2>1, <2>2
    <3>3. Partial(Append(rOut, lo[rK - 1 + 1] + m), lo, len, rK - 1, m + 1)
      BY <2>1, <2>2, <3>1, <3>2, PartialAppend
    <3>. QED  BY <2>5, <3>3
  <2>7. rI' - lo[rK] = m + 1 /\ m + 1 \in 0..len[rK]
    BY <2>1, <2>2, <2>3, <2>4, <1>2, SMTT(30) DEF Int64
  <2>8. ILoop'
    BY <1>1, <1>2, <2>6, <2>7 DEF ILoop
  <2>. QED  BY <1>1, <1>3, <1>4, <2>8
<1>. QED  BY <1>5, <1>6

\* The inner loop exits once i passes last, which it cannot do when last
\* is MaxInt64: the span is then complete.
LEMMA NextComponentRInv ==
    ASSUME RInv, NextComponent
    PROVE  RInv'
<1>. USE DEF RInv
<1>. DEFINE lo == LoOf(rComps)
            len == LenOf(rComps)
            m == rI - lo[rK]
<1>1. /\ rPc = "loop" /\ rI > rLast
      /\ rK' = rK + 1 /\ rPc' = "comp"
      /\ UNCHANGED <<rComps, rI, rLast, rOut>>
  BY DEF NextComponent
<1>2. /\ rComps \in Seq(Component) /\ rK \in 1..Len(rComps)
      /\ Len(rComps[rK]) >= 2 /\ rLast = PartVal(rComps[rK][2])
      /\ rI \in Int64 /\ rLast \in Int64 /\ rOut \in Seq(Int64)
  BY <1>1 DEF ILoop, RangeTypeOK
<1>3. rLast # IntMax
  BY <1>1, <1>2, Int64Bounds DEF Int64
<1>4. m \in 0..len[rK] /\ Partial(rOut, lo, len, rK - 1, m)
  BY <1>1, <1>3 DEF ILoop
<1>5. lo \in [1..Len(rComps) -> 0..IntMax] /\ len \in [1..Len(rComps) -> Nat]
  BY <1>2, SpansType
<1>6. lo[rK] \in Int /\ rI \in Int /\ rLast \in Int
  BY <1>2, <1>5, Int64Bounds DEF Int64
<1>7. m = len[rK]
  <2>1. CASE rLast < lo[rK]
    <3>1. len[rK] = 0
      BY <1>2, <2>1 DEF LenOf, LoOf
    <3>. QED  BY <1>4, <3>1
  <2>2. CASE ~(rLast < lo[rK])
    <3>1. len[rK] = rLast - lo[rK] + 1
      BY <1>2, <2>2 DEF LenOf, LoOf
    <3>. QED  BY <1>1, <1>4, <1>6, <3>1
  <2>. QED  BY <2>1, <2>2
<1>8. IComp'
  <2>1. rOut \in Seq(Int)
    BY <1>2, Int64Bounds DEF Int64
  <2>2. rK - 1 \in 0..(Len(rComps) - 1) /\ Len(rComps) \in Nat
    BY <1>2
  <2>3. Partial(rOut, lo, len, rK - 1, len[rK - 1 + 1])
    <3>1. len[rK - 1 + 1] = m
      BY <1>2, <1>7
    <3>. QED  BY <1>4, <3>1, Zenon
  <2>4. Partial(rOut, lo, len, rK - 1 + 1, 0)
    BY <1>5, <2>1, <2>2, <2>3, PartialClose
  <2>5. rK' - 1 = rK - 1 + 1
    BY <1>1, <1>2
  <2>6. Partial(rOut', LoOf(rComps'), LenOf(rComps'), rK' - 1, 0)
    BY <1>1, <2>4, <2>5, Zenon
  <2>. QED  BY <1>1, <2>6 DEF IComp
<1>9. IPassed'
  <2>1. \A k \in 1..(rK - 1) : Len(rComps[k]) >= 2
    BY <1>1 DEF IPassed
  <2>. QED  BY <1>1, <1>2, <2>1 DEF IPassed
<1>10. RangeTypeOK'
  BY <1>1, <1>2 DEF RangeTypeOK, RangePcs
<1>. QED  BY <1>1, <1>8, <1>9, <1>10 DEF ILoop, IDone, IPanic

\* The outer loop ends after the last component: cpuSlice holds every span.
LEMMA ReturnRInv ==
    ASSUME RInv, RangeReturn
    PROVE  RInv'
<1>. USE DEF RInv
<1>1. /\ rPc = "comp" /\ rK > Len(rComps) /\ rPc' = "done"
      /\ UNCHANGED <<rComps, rK, rI, rLast, rOut>>
  BY DEF RangeReturn
<1>2. rK = Len(rComps) + 1
  BY <1>1 DEF RangeTypeOK
<1>3. IDone'
  BY <1>1, <1>2 DEF IPassed, IComp, IDone
<1>4. RangeTypeOK'
  BY <1>1 DEF RangeTypeOK, RangePcs
<1>. QED  BY <1>1, <1>3, <1>4 DEF IPassed, IComp, ILoop, IPanic

\* RInv is inductive.
LEMMA NextRInv == RInv /\ [RangeNext]_rvars => RInv'
<1>. SUFFICES ASSUME RInv, [RangeNext]_rvars PROVE RInv'
  OBVIOUS
<1>1. CASE SplitComponent
  BY <1>1, SplitRInv
<1>2. CASE AppendCPU
  BY <1>2, AppendRInv
<1>3. CASE NextComponent
  BY <1>3, NextComponentRInv
<1>4. CASE RangeReturn
  BY <1>4, ReturnRInv
<1>5. CASE RangeHalted \/ UNCHANGED rvars
  BY <1>5 DEF RangeHalted, rvars, RInv, RangeTypeOK, RangeValue,
              IPassed, IComp, ILoop, IDone, IPanic
<1>. QED  BY <1>1, <1>2, <1>3, <1>4, <1>5 DEF RangeNext, RangeStep

-----------------------------------------------------------------------------
(* CPURangeSpec under the refinement mapping.                              *)

\* With PartValue the conversion of ParseInt, the spec's spans are LoOf and
\* LenOf, and its Partial is that of module Spans.
LEMMA AbsSpans ==
    ASSUME NEW s, NEW v
    PROVE  /\ Abs!SpansOf(s, v) <=> Partial(s, LoOf(v), LenOf(v), Len(v), 0)
           /\ Abs!ExpansionPrefix(s, v) <=>
                \E k \in 1..Len(v) : \E m \in 0..LenOf(v)[k] :
                    Partial(s, LoOf(v), LenOf(v), k - 1, m)
           /\ Abs!HasSpans(v) <=> \A k \in 1..Len(v) : Len(v[k]) >= 2
<1>1. Abs!Lo(v) = LoOf(v)
  BY DEF Abs!Lo, LoOf
<1>2. Abs!SpanLen(v) = LenOf(v)
  BY <1>1 DEF Abs!SpanLen, LenOf
<1>3. \A t, lo, len, n, m : Abs!Partial(t, lo, len, n, m) <=> Partial(t, lo, len, n, m)
  BY DEF Abs!Partial, Partial, Abs!SpanEnds, SpanEnds
<1>. QED  BY <1>1, <1>2, <1>3 DEF Abs!SpansOf, Abs!ExpansionPrefix, Abs!HasSpans

\* All the spans of a value of at least one component are a prefix of them:
\* the last span complete.
LEMMA FullPrefix ==
    ASSUME NEW v \in Seq(Component), Len(v) >= 1, NEW s \in Seq(Int),
           Partial(s, LoOf(v), LenOf(v), Len(v), 0)
    PROVE  Abs!ExpansionPrefix(s, v)
<1>1. LoOf(v) \in [1..Len(v) -> 0..IntMax] /\ LenOf(v) \in [1..Len(v) -> Nat]
  BY SpansType
<1>2. Partial(s, LoOf(v), LenOf(v), Len(v) - 1, LenOf(v)[Len(v)])
  <2>1. Len(v) \in Nat /\ Len(v) \in 1..Len(v)
    OBVIOUS
  <2>. QED  BY <1>1, <2>1, PartialOpen, Zenon
<1>3. Len(v) \in 1..Len(v) /\ LenOf(v)[Len(v)] \in 0..LenOf(v)[Len(v)]
  <2>1. Len(v) \in 1..Len(v)
    OBVIOUS
  <2>2. LenOf(v)[Len(v)] \in Nat
    BY <1>1, <2>1
  <2>. QED  BY <2>1, <2>2, SMTT(30)
<1>. QED  BY <1>2, <1>3, AbsSpans

\* RInv gives the expansion property whenever no span ends at MaxInt64: a
\* well-formed value has no component without a hyphen, so the call does
\* not panic, and the current span is the one being appended to.
LEMMA RInvExpands ==
    ASSUME RInv, BelowMax(rComps)
    PROVE  RangeExpandsSpans
<1>. USE DEF RInv
<1>. SUFFICES ASSUME WellFormed(rComps)
              PROVE  /\ Abs!ExpansionPrefix(rOut, rComps)
                     /\ rPc = "done" => Abs!SpansOf(rOut, rComps)
  BY DEF RangeExpandsSpans
<1>. DEFINE lo == LoOf(rComps)
            len == LenOf(rComps)
            N == Len(rComps)
<1>1. /\ rComps \in Seq(Component) /\ N \in Nat /\ N >= 1
      /\ rK \in 1..(N + 1) /\ rOut \in Seq(Int)
  BY Int64Bounds DEF RangeTypeOK, RangeValue, Int64
<1>2. lo \in [1..N -> 0..IntMax] /\ len \in [1..N -> Nat]
  BY <1>1, SpansType
<1>3. \A k \in 1..N : Len(rComps[k]) >= 2
  BY DEF WellFormed
<1>4. Partial(rOut, lo, len, N, 0) => Abs!ExpansionPrefix(rOut, rComps)
  BY <1>1, FullPrefix
<1>5. CASE rPc = "comp"
  <2>1. Partial(rOut, lo, len, rK - 1, 0)
    BY <1>5 DEF IComp
  <2>2. CASE rK <= N
    <3>1. rK \in 1..N /\ 0 \in 0..len[rK]
      BY <1>1, <1>2, <2>2, SMTT(30)
    <3>. QED  BY <1>5, <2>1, <3>1, AbsSpans
  <2>3. CASE rK = N + 1
    <3>1. Partial(rOut, lo, len, N, 0)
      BY <2>1, <2>3
    <3>. QED  BY <1>4, <1>5, <3>1
  <2>. QED  BY <1>1, <2>2, <2>3
<1>6. CASE rPc = "loop"
  <2>1. rK \in 1..N /\ rLast = PartVal(rComps[rK][2])
    BY <1>6 DEF ILoop
  <2>2. rLast # IntMax
    BY <1>3, <2>1 DEF BelowMax
  <2>3. /\ rI - lo[rK] \in 0..len[rK]
        /\ Partial(rOut, lo, len, rK - 1, rI - lo[rK])
    BY <1>6, <2>2 DEF ILoop
  <2>. QED  BY <1>6, <2>1, <2>3, AbsSpans
<1>7. CASE rPc = "done"
  <2>1. Partial(rOut, lo, len, N, 0)
    BY <1>7 DEF IDone
  <2>. QED  BY <1>4, <2>1, AbsSpans
<1>8. CASE rPc = "panic"
  BY <1>3, <1>8 DEF IPanic
<1>. QED  BY <1>5, <1>6, <1>7, <1>8 DEF RangeTypeOK, RangePcs

\* The call starts running on a value of Inputs with an empty result.
LEMMA InitRefines == RangeInit => Abs!Init
BY DEF RangeInit, Abs!Init

\* Under RInv every step of parseCPURange is a step of CPURangeSpec or
\* leaves its variables as they are: the panic at a component without a
\* hyphen is Panic, the return is Return, every other step is internal.
LEMMA NextRefines ==
    RInv /\ RInv' /\ [RangeNext]_rvars => [Abs!Next]_Abs!avars
<1>. SUFFICES ASSUME RInv, RInv', [RangeNext]_rvars
              PROVE  [Abs!Next]_Abs!avars
  OBVIOUS
\* The steps inside the call, before it returns or panics.
<1>1. ASSUME rPc \in {"comp", "loop"}, rPc' \in {"comp", "loop"},
             rComps' = rComps
      PROVE  UNCHANGED Abs!avars
  BY <1>1 DEF Abs!avars
<1>2. CASE SplitComponent
  <2>1. CASE Len(rComps[rK]) < 2
    <3>1. rPc = "comp" /\ rPc' = "panic" /\ UNCHANGED <<rComps, rOut>>
      BY <1>2, <2>1 DEF SplitComponent
    <3>2. rK \in 1..Len(rComps) /\ Len(rComps[rK]) < 2
      BY <1>2, <2>1 DEF SplitComponent, RInv, RangeTypeOK
    <3>3. ~Abs!HasSpans(rComps)
      BY <3>2 DEF Abs!HasSpans
    <3>. QED  BY <3>1, <3>3 DEF Abs!Next, Abs!Panic
  <2>2. CASE ~(Len(rComps[rK]) < 2)
    BY <1>1, <1>2, <2>2 DEF SplitComponent
  <2>. QED  BY <2>1, <2>2
<1>3. CASE AppendCPU
  BY <1>1, <1>3 DEF AppendCPU
<1>4. CASE NextComponent
  BY <1>1, <1>4 DEF NextComponent
<1>5. CASE RangeReturn
  <2>1. rPc = "comp" /\ rPc' = "done" /\ UNCHANGED <<rComps, rOut>>
    BY <1>5 DEF RangeReturn
  <2>2. /\ \A k \in 1..Len(rComps) : Len(rComps[k]) >= 2
        /\ Partial(rOut, LoOf(rComps), LenOf(rComps), Len(rComps), 0)
    BY <2>1 DEF RInv, IDone
  <2>3. Abs!HasSpans(rComps) /\ Abs!SpansOf(rOut, rComps)
    BY <2>2, AbsSpans
  <2>. QED  BY <2>1, <2>3 DEF Abs!Next, Abs!Return
<1>6. CASE RangeHalted \/ UNCHANGED rvars
  BY <1>6 DEF RangeHalted, rvars, Abs!avars
<1>. QED  BY <1>2, <1>3, <1>4, <1>5, <1>6 DEF RangeNext, RangeStep

\* Only AppendCPU grows cpuSlice, and under RInv the number it appends is
\* first + m for an m below the length of the span.
LEMMA StepWithinSpan ==
    ASSUME RInv, [RangeNext]_rvars
    PROVE  BelowMax(rComps) /\ Len(rOut') > Len(rOut) =>
               /\ PartVal(rComps[rK][1]) <= rOut'[Len(rOut')]
               /\ rOut'[Len(rOut')] <= PartVal(rComps[rK][2])
<1>. SUFFICES ASSUME BelowMax(rComps), Len(rOut') > Len(rOut)
              PROVE  /\ PartVal(rComps[rK][1]) <= rOut'[Len(rOut')]
                     /\ rOut'[Len(rOut')] <= PartVal(rComps[rK][2])
  OBVIOUS
<1>1. AppendCPU
  <2>1. ~(SplitComponent \/ NextComponent \/ RangeReturn \/ RangeHalted
          \/ UNCHANGED rvars)
    BY DEF SplitComponent, NextComponent, RangeReturn, RangeHalted, rvars
  <2>. QED  BY <2>1 DEF RangeNext, RangeStep
<1>. USE DEF RInv
<1>. DEFINE lo == LoOf(rComps)
            len == LenOf(rComps)
<1>2. /\ rPc = "loop" /\ rI <= rLast /\ rOut' = Append(rOut, rI)
      /\ rComps \in Seq(Component) /\ rK \in 1..Len(rComps)
      /\ Len(rComps[rK]) >= 2 /\ rLast = PartVal(rComps[rK][2])
      /\ rI \in Int64 /\ rOut \in Seq(Int64)
  BY <1>1 DEF AppendCPU, ILoop, RangeTypeOK
<1>3. rLast # IntMax
  BY <1>2 DEF BelowMax
<1>4. rI - lo[rK] \in 0..len[rK]
  BY <1>2, <1>3 DEF ILoop
<1>5. lo \in [1..Len(rComps) -> 0..IntMax] /\ len \in [1..Len(rComps) -> Nat]
  BY <1>2, SpansType
<1>6. rOut'[Len(rOut')] = rI
  BY <1>2
<1>7. lo[rK] = PartVal(rComps[rK][1])
  BY <1>2 DEF LoOf
<1>8. lo[rK] \in Int /\ rI \in Int /\ len[rK] \in Nat
  BY <1>2, <1>5, Int64Bounds DEF Int64
<1>9. lo[rK] <= rI /\ rI <= rLast
  BY <1>2, <1>4, <1>8
<1>. QED  BY <1>2, <1>6, <1>7, <1>9

-----------------------------------------------------------------------------
(* Theorems.                                                               *)

\* spec.md section 8, for every width, every bound on the result and every
\* set of inputs: on a valid range string whose spans all end below
\* MaxInt64, what parseCPURange has appended is at every step a prefix of
\* the spans concatenated in order, and on return it is all of them.  (When
\* a span ends at MaxInt64 i++ wraps around and the loop never exits; run
\* cpurange_overflow shows RangeExpandsSpans fails there.)
THEOREM RangeExpandsSpansHolds ==
    RangeSpec => [](BelowMax(rComps) => RangeExpandsSpans)
<1>1. RangeInit => RInv
  BY InitRInv
<1>2. RInv /\ [RangeNext]_rvars => RInv'
  BY NextRInv
<1>3. RInv => (BelowMax(rComps) => RangeExpandsSpans)
  BY RInvExpands
<1>. QED  BY <1>1, <1>2, <1>3, PTL DEF RangeSpec

\* parseCPURange implements what CPURangeSpec promises, for every width,
\* every bound on the result and every set of inputs: it returns exactly
\* the concatenated spans of the components, panics only on a component
\* without a hyphen, and takes no other visible step.  (That a call always
\* returns or panics, Terminates, is liveness: run cpurange_refinement
\* checks it.)
THEOREM RangeImplementsSpec == RangeSpec => Abs!SafeSpec
<1>1. RangeInit => RInv /\ Abs!Init
  BY InitRInv, InitRefines
<1>2. RInv /\ [RangeNext]_rvars => RInv'
  BY NextRInv
<1>3. RInv /\ RInv' /\ [RangeNext]_rvars => [Abs!Next]_Abs!avars
  BY NextRefines
<1>. QED  BY <1>1, <1>2, <1>3, PTL DEF RangeSpec, Abs!SafeSpec

\* The action property AppendsWithinSpan, for every width, bound and set of
\* inputs: while no span ends at MaxInt64, each number appended to cpuSlice
\* lies between first and last of the component being expanded.
THEOREM AppendsWithinSpanHolds == RangeSpec => AppendsWithinSpan
<1>1. RangeInit => RInv
  BY InitRInv
<1>2. RInv /\ [RangeNext]_rvars => RInv'
  BY NextRInv
<1>3. RInv /\ [RangeNext]_rvars =>
        [BelowMax(rComps) /\ Len(rOut') > Len(rOut) =>
           /\ PartVal(rComps[rK][1]) <= rOut'[Len(rOut')]
           /\ rOut'[Len(rOut')] <= PartVal(rComps[rK][2])]_rvars
  BY StepWithinSpan
<1>. QED  BY <1>1, <1>2, <1>3, PTL DEF RangeSpec, AppendsWithinSpan

=============================================================================
