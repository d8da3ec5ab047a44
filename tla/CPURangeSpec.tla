---------------------------- MODULE CPURangeSpec ----------------------------
(***************************************************************************)
(* What parseCPURange promises, in one step: a value of comma-separated    *)
(* components "N-M" denotes the inclusive spans N..M in the order of the   *)
(* components (spec.md sections 4.1 and 8).  A component without a        *)
(* second part has no span, and the call panics on it.  A call returns or  *)
(* panics: it never runs forever.                                          *)
(*                                                                         *)
(* The number a part text denotes is the parameter PartValue, so that the  *)
(* same promise holds whatever conversion the parser uses.  The result is  *)
(* described by where each span ends in it (module Spans), not computed by *)
(* recursion, so that the promise can be reasoned about by the prover.     *)
(***************************************************************************)
EXTENDS Integers, Sequences, Spans

CONSTANTS
    Inputs,        \* the values a call may be given
    PartValue(_)   \* the integer a part text denotes

VARIABLES
    state,   \* "running", "done" or "panic"
    value,   \* the value the call was given
    out      \* the result, once returned

avars == <<state, value, out>>

\* The first number and the length of the span of each component of v: no
\* number when the component has no second part or the last is below the
\* first.
Lo(v) == [k \in 1..Len(v) |-> PartValue(v[k][1])]
SpanLen(v) ==
    [k \in 1..Len(v) |->
        IF Len(v[k]) < 2 \/ PartValue(v[k][2]) < Lo(v)[k] THEN 0
        ELSE PartValue(v[k][2]) - Lo(v)[k] + 1]

\* s is the spans of all components of v, concatenated in order.
SpansOf(s, v) == Partial(s, Lo(v), SpanLen(v), Len(v), 0)

\* s is a prefix of the concatenated spans of the components of v.
ExpansionPrefix(s, v) ==
    \E k \in 1..Len(v) : \E m \in 0..SpanLen(v)[k] :
        Partial(s, Lo(v), SpanLen(v), k - 1, m)

HasSpans(v) == \A k \in 1..Len(v) : Len(v[k]) >= 2

Init ==
    /\ value \in Inputs
    /\ state = "running"
    /\ out = <<>>

Return ==
    /\ state = "running"
    /\ HasSpans(value)
    /\ state' = "done"
    /\ SpansOf(out', value)
    /\ UNCHANGED value

Panic ==
    /\ state = "running"
    /\ ~HasSpans(value)
    /\ state' = "panic"
    /\ UNCHANGED <<value, out>>

Next == Return \/ Panic

SafeSpec == Init /\ [][Next]_avars

\* A call ends.  Stated as an eventuality rather than as weak fairness of
\* Next: the result of Return is described, not computed, so ENABLED Return
\* cannot be evaluated.  While the call runs one of Return and Panic is
\* always possible, so the two forms say the same.
Terminates == <>(state # "running")

Spec == SafeSpec /\ Terminates
=============================================================================
