------------------------------ MODULE ZoneInfo ------------------------------
(***************************************************************************)
(* NewZoneInfo, FS.NewZoneInfo and parseZoneInfo (src/unnamed/part_000,    *)
(* lines 33-72): open <proc>/zoneinfo and scan it line by line with a      *)
(* bufio.Scanner, appending a {Node, Zone} record for every line that      *)
(* starts with "Node".                                                     *)
(*                                                                         *)
(* Lines, fields and records are those of module ZoneLines.  The file is   *)
(* fixed when it is opened; a read error of the                            *)
(* underlying reader may end the scan before any line (the scanner still   *)
(* hands out what it buffered before the error, which is the text read so  *)
(* far).                                                                   *)
(***************************************************************************)
EXTENDS ZoneLines

VARIABLES
    pc,     \* "NewFS", "Open", "Scan", "Done" or "Panic"
    text,   \* the lines of the opened file
    li,     \* how many lines scanner.Scan has returned
    zones,  \* zoneInfo, the result being built
    err     \* the error the call returns

vars == <<pc, text, li, zones, err>>

Pcs == {"NewFS", "Open", "Scan", "Done", "Panic"}

\* A call of NewZoneInfo() starts with NewFS(DefaultMountPoint); a call of
\* fs.NewZoneInfo() on an FS the caller made starts with os.Open.
Init ==
    /\ pc \in {"NewFS", "Open"}
    /\ text = <<>>
    /\ li = 0
    /\ zones = <<>>
    /\ err = "none"

\* NewFS fails (the mount point is not a directory): return nil, err.
NewFSFail ==
    /\ pc = "NewFS"
    /\ pc' = "Done"
    /\ err' = "NewFS"
    /\ UNCHANGED <<text, li, zones>>

\* NewFS succeeds: return fs.NewZoneInfo().
NewFSOk ==
    /\ pc = "NewFS"
    /\ pc' = "Open"
    /\ UNCHANGED <<text, li, zones, err>>

\* os.Open(fs.Path("zoneinfo")) succeeds; parseZoneInfo starts with an
\* empty zoneInfo.
Open ==
    /\ pc = "Open"
    /\ text' \in Files
    /\ pc' = "Scan"
    /\ UNCHANGED <<li, zones, err>>

\* os.Open fails: return nil, err.
OpenFail ==
    /\ pc = "Open"
    /\ pc' = "Done"
    /\ err' = "Open"
    /\ UNCHANGED <<text, li, zones>>

\* The line scanner.Scan returns next.
NextLine == text[li + 1]

\* scanner.Scan returns a line that fits in the token buffer.
ScanLine ==
    /\ pc = "Scan"
    /\ li < Len(text)
    /\ ~NextLine.long

\* A line starting with "Node" with at least four fields: append its record.
ScanNodeLine ==
    /\ ScanLine
    /\ NextLine.node
    /\ Len(NextLine.fields) >= 4
    /\ zones' = Append(zones, Record(NextLine))
    /\ li' = li + 1
    /\ UNCHANGED <<pc, text, err>>

\* A line starting with "Node" with fewer than four fields: parts[3] (or
\* parts[1]) is out of range and the goroutine panics.
ScanShortNodeLine ==
    /\ ScanLine
    /\ NextLine.node
    /\ Len(NextLine.fields) < 4
    /\ pc' = "Panic"
    /\ UNCHANGED <<text, li, zones, err>>

\* Any other line is skipped.
ScanOtherLine ==
    /\ ScanLine
    /\ ~NextLine.node
    /\ li' = li + 1
    /\ UNCHANGED <<pc, text, zones, err>>

\* Mutant: scanner.Err() not returned, the scan stopping short with a nil
\* error.
ScanTooLongNoErr ==
    /\ pc = "Scan"
    /\ li < Len(text)
    /\ NextLine.long
    /\ pc' = "Done"
    /\ UNCHANGED <<text, li, zones, err>>

\* The next line exceeds the token limit: Scan returns false and
\* scanner.Err() is bufio.ErrTooLong, returned with the zones so far.
ScanTooLong ==
    /\ pc = "Scan"
    /\ li < Len(text)
    /\ NextLine.long
    /\ pc' = "Done"
    /\ err' = "TooLong"
    /\ UNCHANGED <<text, li, zones>>

\* The reader fails: Scan returns false and scanner.Err() is the read error,
\* returned with the zones so far.
ScanReadError ==
    /\ pc = "Scan"
    /\ pc' = "Done"
    /\ err' = "Read"
    /\ UNCHANGED <<text, li, zones>>

\* End of file: Scan returns false and scanner.Err() is nil.
ScanEOF ==
    /\ pc = "Scan"
    /\ li = Len(text)
    /\ pc' = "Done"
    /\ UNCHANGED <<text, li, zones, err>>

\* The call has returned or panicked: nothing moves.
Halted ==
    /\ pc \in {"Done", "Panic"}
    /\ UNCHANGED vars

ZoneStep ==
    \/ NewFSFail \/ NewFSOk \/ Open \/ OpenFail
    \/ ScanNodeLine \/ ScanShortNodeLine \/ ScanOtherLine
    \/ ScanTooLong \/ ScanReadError \/ ScanEOF

Next == ZoneStep \/ Halted

Spec == Init /\ [][Next]_vars

\* The call runs in the caller's goroutine and the reads of a procfs file
\* return (a failed read is the step ScanReadError): a step it can take
\* is eventually taken.
ZoneFairSpec == Spec /\ WF_vars(ZoneStep)

-----------------------------------------------------------------------------
(* Types and properties.                                                   *)

TypeOK ==
    /\ pc \in Pcs
    /\ text \in Seq(Line)
    /\ li \in 0..Len(text)
    /\ zones \in Seq(Zone)
    /\ err \in Errors

\* spec.md sections 4.2 and 7: parseZoneInfo returns one record per "Node"
\* line, in file order.  At every step of the scan zoneInfo holds the
\* records of the lines Scan has returned, and a nil error means they are
\* the records of the whole file: a scan cut short by a read error or by
\* a line over the 64 KiB token limit (bufio.ErrTooLong) must be reported
\* by scanner.Err().
ZonesInFileOrder ==
    /\ pc \in {"Scan", "Done"} => RecordsOf(zones, text, li)
    /\ (pc = "Done" /\ err = "none") => RecordsOf(zones, text, Len(text))

\* spec.md section 4.2: a "Node" line with fewer than four fields must be
\* reported as malformed input, not crash.  parseZoneInfo indexes parts[3]
\* unchecked.
ZoneNeverPanics == pc # "Panic"
-----------------------------------------------------------------------------
(* What the call promises (module ZoneInfoSpec).                           *)

\* The refinement mapping: the call is running until pc says it returned
\* or panicked; the file it read and the zones it returned are visible
\* from then on.
Abs == INSTANCE ZoneInfoSpec
         WITH state <- CASE pc = "Done" -> "done"
                         [] pc = "Panic" -> "panic"
                         [] OTHER -> "running",
              file <- IF pc \in {"Done", "Panic"} THEN text ELSE <<>>,
              result <- IF pc = "Done" THEN zones ELSE <<>>,
              error <- err
=============================================================================
