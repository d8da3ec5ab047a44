------------------------------ MODULE CPURange ------------------------------
(***************************************************************************)
(* parseCPURange (src/sysfs/cpu_system_devices.go, lines 283-299): expand  *)
(* the kernel's CPU list notation "0-23,48-71" into a slice of int64.      *)
(*                                                                         *)
(* The text of the file is abstracted to what strings.Split leaves of it:  *)
(* a value is the sequence of its comma-separated components, and a        *)
(* component the sequence of its hyphen-separated parts (Split never       *)
(* returns an empty slice).  A part is a decimal literal (a natural        *)
(* number) or NaN, standing for every text strconv.ParseInt rejects, the   *)
(* empty string included.  int64 keeps its wrap-around at a width W.       *)
(*                                                                         *)
(* The loop is a step machine: one step per component split, one per      *)
(* iteration of the inner for loop.  Logging (log.Debugln) has no effect   *)
(* on the result and is left out.                                          *)
(***************************************************************************)
EXTENDS Integers, Sequences

CONSTANTS
    W,        \* bit width of the Go int64 the values are parsed into
    NaN,      \* any part text strconv.ParseInt rejects with a syntax error
    MaxOut    \* bound on the length of the result slice (memory)

ASSUME WAssumption == W \in Nat /\ W >= 2
ASSUME MaxOutAssumption == MaxOut \in Nat
ASSUME NaNAssumption == NaN \notin Nat

\* The int64 arithmetic of Go at width W: values modulo 2^W, from IntMin to
\* IntMax.
Modulus == 2^W
IntMax == (Modulus \div 2) - 1
IntMin == -(Modulus \div 2)
Int64 == IntMin..IntMax

\* What WAssumption implies of 2^W.  The provers have no induction over ^,
\* so the fact is stated here and TLC evaluates it on every run.
ASSUME ModulusAssumption ==
    Modulus \in Nat /\ Modulus >= 4 /\ Modulus % 2 = 0

\* Part texts, components (parts of one comma-separated element) and values.
Text == Nat \cup {NaN}
Component == Seq(Text) \ {<<>>}
RangeValue == Seq(Component) \ {<<>>}

\* strconv.ParseInt(s, 10, 64): a syntax error yields 0, a literal out of
\* range yields the largest int64, both with a non-nil error.
ParseInt(t) ==
    IF t = NaN THEN [val |-> 0, err |-> TRUE]
    ELSE IF t > IntMax THEN [val |-> IntMax, err |-> TRUE]
    ELSE [val |-> t, err |-> FALSE]

\* i++ on an int64: two's complement wrap-around.
Wrap(x) == ((x - IntMin) % Modulus) + IntMin

VARIABLES
    rComps,   \* strings.Split(value, ","), split again on "-"
    rK,       \* index of the component the outer loop is at
    rI,       \* loop variable i of the inner for loop
    rLast,    \* last, parsed from the second part of the component
    rOut,     \* cpuSlice, the result being built
    rPc       \* "comp", "loop", "done" or "panic"

rvars == <<rComps, rK, rI, rLast, rOut, rPc>>

RangePcs == {"comp", "loop", "done", "panic"}

\* The call parseCPURange(value) starting on value v.
RangeStart(v) ==
    /\ rComps' = v
    /\ rK' = 1
    /\ rI' = 0
    /\ rLast' = 0
    /\ rOut' = <<>>
    /\ rPc' = "comp"

\* Mutant: last parsed from the first part of the component, as a copy of
\* the line above would.
SplitComponentLastFromFirst ==
    /\ rPc = "comp"
    /\ rK <= Len(rComps)
    /\ IF Len(rComps[rK]) < 2
         THEN /\ rPc' = "panic"
              /\ UNCHANGED <<rComps, rK, rI, rLast, rOut>>
         ELSE /\ rI' = ParseInt(rComps[rK][1]).val
              /\ rLast' = ParseInt(rComps[rK][1]).val
              /\ rPc' = "loop"
              /\ UNCHANGED <<rComps, rK, rOut>>

\* Loop head: parse first and last of the next component.  Indexing [1]
\* of a component without a hyphen panics with index out of range.
SplitComponent ==
    /\ rPc = "comp"
    /\ rK <= Len(rComps)
    /\ IF Len(rComps[rK]) < 2
         THEN /\ rPc' = "panic"
              /\ UNCHANGED <<rComps, rK, rI, rLast, rOut>>
         ELSE /\ rI' = ParseInt(rComps[rK][1]).val
              /\ rLast' = ParseInt(rComps[rK][2]).val
              /\ rPc' = "loop"
              /\ UNCHANGED <<rComps, rK, rOut>>

\* for i := first; i <= last; i++ { cpuSlice = append(cpuSlice, i) }
AppendCPU ==
    /\ rPc = "loop"
    /\ rI <= rLast
    /\ Len(rOut) < MaxOut
    /\ rOut' = Append(rOut, rI)
    /\ rI' = Wrap(rI + 1)
    /\ UNCHANGED <<rComps, rK, rLast, rPc>>

\* Mutant: the loop condition tested as i < last, so each range loses its
\* upper end.
NextComponentEarly ==
    /\ rPc = "loop"
    /\ rI >= rLast
    /\ rK' = rK + 1
    /\ rPc' = "comp"
    /\ UNCHANGED <<rComps, rI, rLast, rOut>>

\* The inner loop exits; the outer loop moves to the next component.
NextComponent ==
    /\ rPc = "loop"
    /\ rI > rLast
    /\ rK' = rK + 1
    /\ rPc' = "comp"
    /\ UNCHANGED <<rComps, rI, rLast, rOut>>

\* All components done: return cpuSlice.
RangeReturn ==
    /\ rPc = "comp"
    /\ rK > Len(rComps)
    /\ rPc' = "done"
    /\ UNCHANGED <<rComps, rK, rI, rLast, rOut>>

RangeStep == SplitComponent \/ AppendCPU \/ NextComponent \/ RangeReturn

-----------------------------------------------------------------------------
(* The standalone specification: one call on any value of Inputs.          *)

CONSTANT Inputs   \* the file contents a run feeds to parseCPURange

ASSUME InputsAssumption == Inputs \subseteq RangeValue

RangeInit ==
    /\ rComps \in Inputs
    /\ rK = 1
    /\ rI = 0
    /\ rLast = 0
    /\ rOut = <<>>
    /\ rPc = "comp"

\* The call has returned or the goroutine has panicked: nothing moves.
RangeHalted ==
    /\ rPc \in {"done", "panic"}
    /\ UNCHANGED rvars

RangeNext == RangeStep \/ RangeHalted

RangeSpec == RangeInit /\ [][RangeNext]_rvars

\* parseCPURange runs in one goroutine and never blocks: a step it can take
\* is eventually taken.
RangeFairSpec == RangeSpec /\ WF_rvars(RangeStep)

\* rComps is <<>> only before the first call, when parseCPURange has not run.
RangeTypeOK ==
    /\ rComps \in Seq(Component)
    /\ rK \in 1..(Len(rComps) + 1)
    /\ rI \in Int64
    /\ rLast \in Int64
    /\ rOut \in Seq(Int64)
    /\ rPc \in RangePcs

-----------------------------------------------------------------------------
(* What the call promises (module CPURangeSpec) and what it computes.      *)

\* The value of a part text as parseCPURange computes it.
PartVal(t) == ParseInt(t).val

\* The refinement mapping: the call is running until rPc says it returned
\* or panicked, and its result is cpuSlice once it has returned.
Abs == INSTANCE CPURangeSpec
         WITH value <- rComps,
              state <- IF rPc \in {"done", "panic"} THEN rPc ELSE "running",
              out <- IF rPc = "done" THEN rOut ELSE <<>>,
              PartValue <- PartVal

\* The notation the spec calls valid: every component is "N-M" with both
\* numbers representable in an int64.
WellFormed(v) ==
    \A k \in 1..Len(v) :
        /\ Len(v[k]) = 2
        /\ \A p \in 1..2 : v[k][p] \in 0..IntMax

\* spec.md section 8: on a valid range string the expansion is
\* order-preserving and yields exactly the integers of the inclusive spans.
\* Checked at every step of the loop of parseCPURange: what it has appended
\* so far is a prefix of the spans concatenated in order, and on return it
\* is all of them.
RangeExpandsSpans ==
    WellFormed(rComps) =>
        /\ Abs!ExpansionPrefix(rOut, rComps)
        /\ rPc = "done" => Abs!SpansOf(rOut, rComps)

\* No component's last part parses to MaxInt64: the one case where i++
\* wraps around before the loop condition i <= last fails.
BelowMax(v) ==
    \A k \in 1..Len(v) : Len(v[k]) >= 2 => PartVal(v[k][2]) # IntMax

\* spec.md section 8, step by step: as long as no span ends at MaxInt64,
\* every number the inner loop appends to cpuSlice lies between first and
\* last of the component being expanded: the loop starts i at the first
\* part, stops at the second, and i++ never carries it outside.
AppendsWithinSpan ==
    [][BelowMax(rComps) /\ Len(rOut') > Len(rOut) =>
         /\ PartVal(rComps[rK][1]) <= rOut'[Len(rOut')]
         /\ rOut'[Len(rOut')] <= PartVal(rComps[rK][2])]_rvars

=============================================================================
