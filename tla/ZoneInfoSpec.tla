---------------------------- MODULE ZoneInfoSpec ----------------------------
(***************************************************************************)
(* What NewZoneInfo promises, in one step (spec.md sections 4.2 and 7):    *)
(* the call returns the records of the "Node" lines of the file in order   *)
(* with a nil error, or the records of the lines read before a read error  *)
(* or a line over the scanner's token limit, with that error, or nil with  *)
(* the error of NewFS or os.Open.  It panics only on a "Node" line with    *)
(* fewer than four fields that the scan reaches.  A call ends.             *)
(***************************************************************************)
EXTENDS ZoneLines

VARIABLES
    state,    \* "running", "done" or "panic"
    file,     \* the lines of the file the call read, once it ended
    result,   \* the zones returned
    error     \* the error returned

avars == <<state, file, result, error>>

\* The first n lines of t are scanned without a panic: none is over the
\* token limit and every "Node" line among them has four fields.
Scannable(t, n) ==
    \A i \in 1..n : ~t[i].long /\ (t[i].node => Len(t[i].fields) >= 4)

\* The call ends having read n lines of file t, with error e: it returns
\* the records of those lines.
Ends(t, n, e) ==
    /\ state = "running"
    /\ Scannable(t, n)
    /\ file' = t
    /\ RecordsOf(result', t, n)
    /\ error' = e
    /\ state' = "done"

Init ==
    /\ state = "running"
    /\ file = <<>>
    /\ result = <<>>
    /\ error = "none"

\* NewFS or os.Open fails: nil and the error, no file read.
Fail ==
    /\ state = "running"
    /\ error' \in {"NewFS", "Open"}
    /\ state' = "done"
    /\ UNCHANGED <<file, result>>

\* The whole file is scanned: all its records and a nil error.
ReturnAll == \E t \in Files : Ends(t, Len(t), "none")

\* The scan stops before a line over the token limit: bufio.ErrTooLong.
ReturnTooLong ==
    \E t \in Files : \E n \in 0..(Len(t) - 1) :
        t[n + 1].long /\ Ends(t, n, "TooLong")

\* A read error stops the scan after any number of lines.
ReturnReadError ==
    \E t \in Files : \E n \in 0..Len(t) : Ends(t, n, "Read")

\* The scan reaches a "Node" line with fewer than four fields.
Panic ==
    \E t \in Files : \E n \in 0..(Len(t) - 1) :
        /\ state = "running"
        /\ Scannable(t, n)
        /\ t[n + 1].node /\ ~t[n + 1].long /\ Len(t[n + 1].fields) < 4
        /\ file' = t
        /\ state' = "panic"
        /\ UNCHANGED <<result, error>>

Next == Fail \/ ReturnAll \/ ReturnTooLong \/ ReturnReadError \/ Panic

SafeSpec == Init /\ [][Next]_avars

\* A call ends.  Stated as an eventuality, not as weak fairness of Next:
\* the result is described, not computed, so ENABLED Next cannot be
\* evaluated.  While the call runs Fail is always possible, so the two
\* forms say the same.
Terminates == <>(state # "running")

Spec == SafeSpec /\ Terminates
=============================================================================
