---------------------------- MODULE MC_CPURange ----------------------------
(***************************************************************************)
(* Model checking parseCPURange against the expansion spec.md section 8    *)
(* asks for, on every value of up to two components of up to three parts. *)
(***************************************************************************)
EXTENDS CPURange, SequencesExt

CONSTANT Lits   \* the decimal literals a part may hold

\* Every value with up to MaxComps components of up to three parts.
MaxComps == 2
PartTexts == Lits \cup {NaN}
MCComponents == UNION {[1..n -> PartTexts] : n \in 1..3}
MCInputs == UNION {[1..n -> MCComponents] : n \in 1..MaxComps}

\* The inclusive range a..b in ascending order (empty when b < a).
Interval(a, b) == [j \in 1..(b - a + 1) |-> a + j - 1]

\* Reference expansion: the ranges' inclusive spans, between the values
\* the parts parse to, concatenated in the order of the components.
Expansion(v) ==
    FlattenSeq([k \in 1..Len(v) |-> Interval(PartVal(v[k][1]), PartVal(v[k][2]))])

\* The spans concatenated as SpansOf describes them are the reference
\* expansion, on every value the runs feed to parseCPURange.
ASSUME SpansOfIsExpansion ==
    \A v \in MCInputs :
        Abs!HasSpans(v) => Abs!SpansOf(Expansion(v), v)

\* parseCPURange implements CPURangeSpec: every call on a value whose
\* bounds stay below MaxInt64 returns the concatenated spans of its
\* components, or panics exactly when a component has no hyphen, and it
\* always does one or the other.
RangeRefinesSpec == Abs!Spec

\* spec.md section 4.1: a malformed component never aborts the call; at
\* worst it contributes a zero.  parseCPURange panics instead on any
\* component without a hyphen ("", "0").
RangeNeverPanics == rPc # "panic"
=============================================================================
