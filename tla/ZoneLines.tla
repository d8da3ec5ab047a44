----------------------------- MODULE ZoneLines -----------------------------
(***************************************************************************)
(* The data of /proc/zoneinfo as parseZoneInfo (src/unnamed/part_000,      *)
(* lines 53-72) sees it: lines, the fields strings.Fields splits a line    *)
(* into, the files os.Open may find, and the record a "Node" line gives.   *)
(* Shared by the model of the code (ZoneInfo) and by what the call         *)
(* promises (ZoneInfoSpec).                                                *)
(*                                                                         *)
(* A line is abstracted to what the code looks at: whether it has the      *)
(* prefix "Node", its fields, and whether it is longer than the scanner's  *)
(* 64 KiB token limit.  A field is a word and whether trailing commas      *)
(* follow it.                                                              *)
(***************************************************************************)
EXTENDS Naturals, Sequences

CONSTANTS
    Words,     \* the words a field of a line may hold
    Lines,     \* the lines a zoneinfo file may hold
    MaxLines   \* bound on the number of lines of the file

Field == [word : Words, comma : BOOLEAN]
Line == [node : BOOLEAN, fields : Seq(Field), long : BOOLEAN]

ASSUME LinesAssumption == Lines \subseteq Line
ASSUME MaxLinesAssumption == MaxLines \in Nat

\* The files os.Open may find: every sequence of up to MaxLines lines.
Files == UNION {[1..n -> Lines] : n \in 0..MaxLines}

\* Mutant: the field kept as it is, trailing commas included.
TrimRightNone(f) == f

\* strings.TrimRight(field, ","): the word without its trailing commas.
TrimRight(f) == f.word

\* The errors the call can return; "none" is a nil error.
Errors == {"none", "NewFS", "Open", "Read", "TooLong"}

\* The record of a "Node" line: the second and the fourth field, trailing
\* commas trimmed.
Record(l) == [node |-> TrimRight(l.fields[2]), zone |-> TrimRight(l.fields[4])]

\* A record of the result: a node and a zone name.
Zone == [node : Words, zone : Words]

\* z holds exactly the records of the "Node" lines among the first n lines
\* of t, in file order: f maps each record to its line, increasing and
\* onto the "Node" lines.
RecordsOf(z, t, n) ==
    \E f \in [1..Len(z) -> 1..n] :
        /\ \A j, k \in 1..Len(z) : j < k => f[j] < f[k]
        /\ \A j \in 1..Len(z) : t[f[j]].node /\ z[j] = Record(t[f[j]])
        /\ \A i \in 1..n : t[i].node => \E j \in 1..Len(z) : f[j] = i
=============================================================================
