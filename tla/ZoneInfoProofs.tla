--------------------------- MODULE ZoneInfoProofs ---------------------------
(***************************************************************************)
(* Proofs about NewZoneInfo and parseZoneInfo (module ZoneInfo) for every  *)
(* set of words and lines and every bound on the length of the file.       *)
(***************************************************************************)
EXTENDS ZoneInfo, TLAPS

-----------------------------------------------------------------------------
(* Lemmas about RecordsOf.                                                 *)

\* Before any line is scanned, the empty zoneInfo holds the records of the
\* (no) lines read.
LEMMA RecordsNone ==
    ASSUME NEW t
    PROVE  RecordsOf(<<>>, t, 0)
<1>. DEFINE f == [j \in 1..0 |-> 1]
<1>1. f \in [1..Len(<<>>) -> 1..0]
  OBVIOUS
<1>2. 1..Len(<<>>) = {} /\ 1..0 = {}
  OBVIOUS
<1>3. /\ \A j, k \in 1..Len(<<>>) : j < k => f[j] < f[k]
      /\ \A j \in 1..Len(<<>>) : t[f[j]].node /\ <<>>[j] = Record(t[f[j]])
      /\ \A i \in 1..0 : t[i].node => \E j \in 1..Len(<<>>) : f[j] = i
  BY <1>2
<1>. QED  BY <1>1, <1>3 DEF RecordsOf

\* Scanning a "Node" line appends its record: the map to the lines is
\* extended by the new line.
LEMMA RecordsAppend ==
    ASSUME NEW z \in Seq(Zone), NEW t \in Seq(Line),
           NEW n \in 0..(Len(t) - 1),
           RecordsOf(z, t, n),
           t[n + 1].node
    PROVE  RecordsOf(Append(z, Record(t[n + 1])), t, n + 1)
<1>. PICK f \in [1..Len(z) -> 1..n] :
        /\ \A j, k \in 1..Len(z) : j < k => f[j] < f[k]
        /\ \A j \in 1..Len(z) : t[f[j]].node /\ z[j] = Record(t[f[j]])
        /\ \A i \in 1..n : t[i].node => \E j \in 1..Len(z) : f[j] = i
  BY DEF RecordsOf
<1>. DEFINE g == [j \in 1..(Len(z) + 1) |-> IF j <= Len(z) THEN f[j]
                                                            ELSE n + 1]
<1>. DEFINE z2 == Append(z, Record(t[n + 1]))
<1>1. Len(z2) = Len(z) + 1
  OBVIOUS
<1>2. g \in [1..Len(z2) -> 1..(n + 1)]
  BY <1>1
<1>3. \A j, k \in 1..Len(z2) : j < k => g[j] < g[k]
  <2>. SUFFICES ASSUME NEW j \in 1..Len(z2), NEW k \in 1..Len(z2), j < k
                PROVE  g[j] < g[k]
    OBVIOUS
  <2>1. j \in 1..Len(z) /\ g[j] = f[j]
    BY <1>1
  <2>2. CASE k <= Len(z)
    BY <2>1, <2>2
  <2>3. CASE k = Len(z) + 1
    BY <2>1, <2>3
  <2>. QED  BY <2>2, <2>3, <1>1
<1>4. \A j \in 1..Len(z2) : t[g[j]].node /\ z2[j] = Record(t[g[j]])
  <2>. SUFFICES ASSUME NEW j \in 1..Len(z2)
                PROVE  t[g[j]].node /\ z2[j] = Record(t[g[j]])
    OBVIOUS
  <2>1. CASE j <= Len(z)
    <3>1. g[j] = f[j] /\ z2[j] = z[j]
      BY <2>1, <1>1
    <3>. QED  BY <2>1, <3>1
  <2>2. CASE j = Len(z) + 1
    <3>1. g[j] = n + 1 /\ z2[j] = Record(t[n + 1])
      BY <2>2, <1>1
    <3>. QED  BY <3>1
  <2>. QED  BY <2>1, <2>2, <1>1
<1>5. \A i \in 1..(n + 1) : t[i].node => \E j \in 1..Len(z2) : g[j] = i
  <2>. SUFFICES ASSUME NEW i \in 1..(n + 1), t[i].node
                PROVE  \E j \in 1..Len(z2) : g[j] = i
    OBVIOUS
  <2>1. CASE i = n + 1
    <3>1. Len(z) + 1 \in 1..Len(z2) /\ g[Len(z) + 1] = n + 1
      BY <1>1
    <3>. QED  BY <2>1, <3>1
  <2>2. CASE i <= n
    <3>1. i \in 1..n
      BY <2>2
    <3>. PICK j \in 1..Len(z) : f[j] = i
      BY <3>1
    <3>2. j \in 1..Len(z2) /\ g[j] = i
      BY <1>1
    <3>. QED  BY <3>2
  <2>. QED  BY <2>1, <2>2
<1>. QED  BY <1>2, <1>3, <1>4, <1>5 DEF RecordsOf

\* Scanning any other line leaves zoneInfo as it is: the same map serves.
LEMMA RecordsSkip ==
    ASSUME NEW z \in Seq(Zone), NEW t \in Seq(Line),
           NEW n \in 0..(Len(t) - 1),
           RecordsOf(z, t, n),
           ~t[n + 1].node
    PROVE  RecordsOf(z, t, n + 1)
<1>. PICK f \in [1..Len(z) -> 1..n] :
        /\ \A j, k \in 1..Len(z) : j < k => f[j] < f[k]
        /\ \A j \in 1..Len(z) : t[f[j]].node /\ z[j] = Record(t[f[j]])
        /\ \A i \in 1..n : t[i].node => \E j \in 1..Len(z) : f[j] = i
  BY DEF RecordsOf
<1>1. f \in [1..Len(z) -> 1..(n + 1)]
  OBVIOUS
<1>2. \A i \in 1..(n + 1) : t[i].node => \E j \in 1..Len(z) : f[j] = i
  OBVIOUS
<1>. QED  BY <1>1, <1>2 DEF RecordsOf

\* The files os.Open may find are sequences of lines.
LEMMA FilesType == Files \subseteq Seq(Line)
BY LinesAssumption, MaxLinesAssumption DEF Files

-----------------------------------------------------------------------------
(* The inductive invariant.                                                *)

\* Before the file is opened nothing is read or returned.
IStart == pc \in {"NewFS", "Open"} => li = 0 /\ zones = <<>> /\ err = "none"
\* From the open on, zoneInfo holds the records of the lines scanned.
IRecords == pc \in {"Scan", "Done"} => RecordsOf(zones, text, li)
\* A nil error is returned only at the end of the file.
IEnd == (pc = "Done" /\ err = "none") => li = Len(text)

IInv == TypeOK /\ IStart /\ IRecords /\ IEnd

LEMMA InitIInv == Init => IInv
<1>. SUFFICES ASSUME Init PROVE IInv
  OBVIOUS
<1>1. TypeOK
  BY DEF Init, TypeOK, Pcs, Errors
<1>. QED  BY <1>1 DEF Init, IInv, IStart, IRecords, IEnd

\* The steps of a scan: one per case of Next that moves li or zones.
LEMMA ScanIInv ==
    ASSUME IInv, ScanNodeLine \/ ScanOtherLine
    PROVE  IInv'
<1>. USE DEF IInv
<1>1. /\ text \in Seq(Line) /\ li \in 0..(Len(text) - 1) /\ pc = "Scan"
      /\ zones \in Seq(Zone) /\ RecordsOf(zones, text, li)
  BY DEF ScanNodeLine, ScanOtherLine, ScanLine, TypeOK, IRecords
<1>2. CASE ScanNodeLine
  <2>0. NextLine \in Line
    BY <1>1 DEF NextLine
  <2>1. NextLine \in Line /\ NextLine.fields \in Seq(Field)
    BY <2>0 DEF Line
  <2>2. Len(NextLine.fields) >= 4
    BY <1>2 DEF ScanNodeLine
  <2>3. NextLine.fields[2] \in Field /\ NextLine.fields[4] \in Field
    BY <2>1, <2>2
  <2>4. Record(NextLine) \in Zone
    BY <2>3 DEF Record, TrimRight, Zone, Field
  <2>5. RecordsOf(zones', text', li')
    BY <1>1, <1>2, RecordsAppend DEF ScanNodeLine, NextLine
  <2>6. zones' \in Seq(Zone) /\ li' \in 0..Len(text') /\ text' = text
    BY <1>1, <1>2, <2>4 DEF ScanNodeLine
  <2>7. TypeOK'
    BY <2>6, <1>1, <1>2 DEF ScanNodeLine, TypeOK
  <2>. QED  BY <1>1, <1>2, <2>5, <2>7 DEF ScanNodeLine, IStart, IRecords, IEnd
<1>3. CASE ScanOtherLine
  <2>1. RecordsOf(zones', text', li')
    BY <1>1, <1>3, RecordsSkip DEF ScanOtherLine, ScanLine, NextLine
  <2>2. TypeOK'
    BY <1>1, <1>3 DEF ScanOtherLine, TypeOK
  <2>. QED  BY <1>1, <1>3, <2>1, <2>2 DEF ScanOtherLine, IStart, IRecords, IEnd
<1>. QED  BY <1>2, <1>3

\* The steps that end the call or do not touch the scan.
LEMMA OtherIInv ==
    ASSUME IInv,
           \/ NewFSFail \/ NewFSOk \/ Open \/ OpenFail \/ ScanShortNodeLine
           \/ ScanTooLong \/ ScanReadError \/ ScanEOF \/ Halted
           \/ UNCHANGED vars
    PROVE  IInv'
<1>. USE DEF IInv, TypeOK, Pcs, Errors
<1>1. CASE NewFSFail
  BY <1>1, RecordsNone DEF NewFSFail, IStart, IRecords, IEnd
<1>2. CASE NewFSOk
  BY <1>2 DEF NewFSOk, IStart, IRecords, IEnd
<1>3. CASE Open
  <2>1. text' \in Seq(Line)
    BY <1>3, FilesType DEF Open
  <2>. QED  BY <1>3, <2>1, RecordsNone DEF Open, IStart, IRecords, IEnd
<1>4. CASE OpenFail
  BY <1>4, RecordsNone DEF OpenFail, IStart, IRecords, IEnd
<1>5. CASE ScanShortNodeLine
  BY <1>5 DEF ScanShortNodeLine, IStart, IRecords, IEnd
<1>6. CASE ScanTooLong
  BY <1>6 DEF ScanTooLong, IStart, IRecords, IEnd
<1>7. CASE ScanReadError
  BY <1>7 DEF ScanReadError, IStart, IRecords, IEnd
<1>8. CASE ScanEOF
  BY <1>8 DEF ScanEOF, IStart, IRecords, IEnd
<1>9. CASE Halted \/ UNCHANGED vars
  BY <1>9 DEF Halted, vars, IStart, IRecords, IEnd
<1>. QED  BY <1>1, <1>2, <1>3, <1>4, <1>5, <1>6, <1>7, <1>8, <1>9

LEMMA NextIInv == IInv /\ [Next]_vars => IInv'
BY ScanIInv, OtherIInv DEF Next, ZoneStep

-----------------------------------------------------------------------------
(* The invariant of the refinement: what the scan has seen so far.         *)

\* The file is one os.Open may find, and is empty until it is opened.
IFile == text \in Files /\ (pc \in {"NewFS", "Open"} => text = <<>>)
\* The lines scanned so far caused no panic and no stop.
IScanned == pc \in {"Scan", "Done", "Panic"} => Abs!Scannable(text, li)
\* The error is nil while the scan runs.
IScanErr == pc = "Scan" => err = "none"
\* A panic is at the next line, a "Node" line with fewer than four fields.
IPanicAt ==
    pc = "Panic" =>
        /\ li < Len(text)
        /\ text[li + 1].node /\ ~text[li + 1].long
        /\ Len(text[li + 1].fields) < 4
\* bufio.ErrTooLong is returned only before a line over the limit.
ITooLong == (pc = "Done" /\ err = "TooLong") => li < Len(text) /\ text[li + 1].long

ZInv == IInv /\ IFile /\ IScanned /\ IScanErr /\ IPanicAt /\ ITooLong

\* ZoneInfoSpec's operators on the data are those of ZoneLines.
LEMMA AbsLines ==
    /\ Abs!Files = Files
    /\ \A z, t, n : Abs!RecordsOf(z, t, n) <=> RecordsOf(z, t, n)
BY DEF Abs!Files, Files, Abs!RecordsOf, RecordsOf, Abs!Record, Record,
       Abs!TrimRight, TrimRight

\* The empty file is one os.Open may find.
LEMMA EmptyFile == <<>> \in Files
<1>1. <<>> \in [1..0 -> Lines]
  OBVIOUS
<1>. QED  BY <1>1, MaxLinesAssumption DEF Files

\* Scanning a line that is not long, and is not a short "Node" line,
\* extends the lines scanned without a panic.
LEMMA ScannableNext ==
    ASSUME NEW t \in Seq(Line), NEW n \in 0..(Len(t) - 1),
           Abs!Scannable(t, n),
           ~t[n + 1].long,
           t[n + 1].node => Len(t[n + 1].fields) >= 4
    PROVE  Abs!Scannable(t, n + 1)
BY DEF Abs!Scannable

LEMMA InitZInv == Init => ZInv
<1>. SUFFICES ASSUME Init PROVE ZInv
  OBVIOUS
<1>1. IInv
  BY InitIInv
<1>2. IFile
  BY EmptyFile DEF Init, IFile
<1>. QED  BY <1>1, <1>2 DEF Init, ZInv, IScanned, IScanErr, IPanicAt, ITooLong

\* The groups of ZInv beyond IInv, one case per action.
LEMMA NextZGroups ==
    ASSUME ZInv, [Next]_vars
    PROVE  (IFile /\ IScanned /\ IScanErr /\ IPanicAt /\ ITooLong)'
<1>. USE DEF ZInv, IInv
<1>1. text \in Seq(Line) /\ li \in 0..Len(text)
  BY DEF TypeOK
<1>2. CASE NewFSFail \/ OpenFail
  <2>1. pc \in {"NewFS", "Open"} /\ pc' = "Done" /\ err' \in {"NewFS", "Open"}
        /\ UNCHANGED <<text, li>>
    BY <1>2 DEF NewFSFail, OpenFail
  <2>2. li = 0
    BY <2>1 DEF IStart
  <2>3. Abs!Scannable(text, 0)
    BY DEF Abs!Scannable
  <2>. QED  BY <2>1, <2>2, <2>3 DEF IFile, IScanned, IScanErr, IPanicAt, ITooLong
<1>3. CASE NewFSOk
  BY <1>3 DEF NewFSOk, IFile, IScanned, IScanErr, IPanicAt, ITooLong
<1>4. CASE Open
  <2>1. pc = "Open" /\ pc' = "Scan" /\ text' \in Files /\ UNCHANGED <<li, err>>
    BY <1>4 DEF Open
  <2>2. li = 0 /\ err = "none"
    BY <2>1 DEF IStart
  <2>3. Abs!Scannable(text', 0)
    BY DEF Abs!Scannable
  <2>. QED  BY <2>1, <2>2, <2>3 DEF IFile, IScanned, IScanErr, IPanicAt, ITooLong
<1>5. CASE ScanNodeLine \/ ScanOtherLine
  <2>1. /\ pc = "Scan" /\ pc' = "Scan" /\ li < Len(text) /\ li' = li + 1
        /\ ~text[li + 1].long
        /\ (text[li + 1].node => Len(text[li + 1].fields) >= 4)
        /\ UNCHANGED <<text, err>>
    BY <1>5 DEF ScanNodeLine, ScanOtherLine, ScanLine, NextLine
  <2>2. Abs!Scannable(text, li + 1)
    BY <1>1, <2>1, ScannableNext DEF IScanned
  <2>. QED  BY <2>1, <2>2 DEF IFile, IScanned, IScanErr, IPanicAt, ITooLong
<1>6. CASE ScanShortNodeLine
  <2>1. /\ pc = "Scan" /\ pc' = "Panic" /\ li < Len(text)
        /\ text[li + 1].node /\ ~text[li + 1].long
        /\ Len(text[li + 1].fields) < 4
        /\ UNCHANGED <<text, li, err>>
    BY <1>6 DEF ScanShortNodeLine, ScanLine, NextLine
  <2>. QED  BY <2>1 DEF IFile, IScanned, IScanErr, IPanicAt, ITooLong
<1>7. CASE ScanTooLong
  <2>1. /\ pc = "Scan" /\ pc' = "Done" /\ err' = "TooLong"
        /\ li < Len(text) /\ text[li + 1].long
        /\ UNCHANGED <<text, li>>
    BY <1>7 DEF ScanTooLong, NextLine
  <2>. QED  BY <2>1 DEF IFile, IScanned, IScanErr, IPanicAt, ITooLong
<1>8. CASE ScanReadError \/ ScanEOF
  <2>1. /\ pc = "Scan" /\ pc' = "Done" /\ err' \in {"Read", "none"}
        /\ UNCHANGED <<text, li>>
    BY <1>8, <1>1 DEF ScanReadError, ScanEOF, IScanErr
  <2>. QED  BY <2>1 DEF IFile, IScanned, IScanErr, IPanicAt, ITooLong
<1>9. CASE Halted \/ UNCHANGED vars
  BY <1>9 DEF Halted, vars, IFile, IScanned, IScanErr, IPanicAt, ITooLong
<1>. QED  BY <1>2, <1>3, <1>4, <1>5, <1>6, <1>7, <1>8, <1>9 DEF Next, ZoneStep

LEMMA NextZInv == ZInv /\ [Next]_vars => ZInv'
BY NextIInv, NextZGroups DEF ZInv

\* Every step of NewZoneInfo is a step of ZoneInfoSpec or leaves its
\* variables unchanged: the steps that end the call are Fail, ReturnAll,
\* ReturnTooLong, ReturnReadError and Panic, all others stutter.
LEMMA ZoneNextRefines ==
    ASSUME ZInv, ZInv', [Next]_vars
    PROVE  [Abs!Next]_Abs!avars
<1>. USE DEF ZInv, IInv
<1>1. text \in Seq(Line) /\ li \in 0..Len(text) /\ text \in Files
  BY DEF TypeOK, IFile
<1>2. CASE NewFSFail \/ OpenFail
  <2>1. /\ pc \in {"NewFS", "Open"} /\ pc' = "Done"
        /\ err' \in {"NewFS", "Open"}
        /\ UNCHANGED <<text, li, zones>>
    BY <1>2 DEF NewFSFail, OpenFail
  <2>2. text = <<>> /\ zones = <<>>
    BY <2>1 DEF IFile, IStart
  <2>3. Abs!Fail
    BY <2>1, <2>2 DEF Abs!Fail
  <2>. QED  BY <2>3 DEF Abs!Next
<1>3. CASE NewFSOk \/ Open \/ ScanNodeLine \/ ScanOtherLine
  <2>1. /\ pc \in {"NewFS", "Open", "Scan"} /\ pc' \in {"Open", "Scan"}
        /\ err' = err
    BY <1>3 DEF NewFSOk, Open, ScanNodeLine, ScanOtherLine, ScanLine
  <2>. QED  BY <2>1 DEF Abs!avars
<1>4. CASE ScanShortNodeLine
  <2>1. /\ pc = "Scan" /\ pc' = "Panic" /\ li < Len(text)
        /\ text[li + 1].node /\ ~text[li + 1].long
        /\ Len(text[li + 1].fields) < 4
        /\ UNCHANGED <<text, li, zones, err>>
    BY <1>4 DEF ScanShortNodeLine, ScanLine, NextLine
  <2>2. Abs!Scannable(text, li)
    BY <2>1 DEF IScanned
  <2>3. li \in 0..(Len(text) - 1)
    BY <1>1, <2>1
  <2>4. Abs!Panic
    BY <1>1, <2>1, <2>2, <2>3, AbsLines DEF Abs!Panic
  <2>. QED  BY <2>4 DEF Abs!Next
<1>5. CASE ScanTooLong
  <2>1. /\ pc = "Scan" /\ pc' = "Done" /\ err' = "TooLong"
        /\ li < Len(text) /\ text[li + 1].long
        /\ UNCHANGED <<text, li, zones>>
    BY <1>5 DEF ScanTooLong, NextLine
  <2>2. Abs!Scannable(text, li) /\ RecordsOf(zones, text, li)
    BY <2>1 DEF IScanned, IRecords
  <2>3. li \in 0..(Len(text) - 1)
    BY <1>1, <2>1
  <2>4. Abs!Ends(text, li, "TooLong")
    BY <2>1, <2>2, AbsLines DEF Abs!Ends
  <2>. QED  BY <1>1, <2>1, <2>3, <2>4, AbsLines DEF Abs!Next, Abs!ReturnTooLong
<1>6. CASE ScanReadError
  <2>1. /\ pc = "Scan" /\ pc' = "Done" /\ err' = "Read"
        /\ UNCHANGED <<text, li, zones>>
    BY <1>6 DEF ScanReadError
  <2>2. Abs!Scannable(text, li) /\ RecordsOf(zones, text, li)
    BY <2>1 DEF IScanned, IRecords
  <2>3. Abs!Ends(text, li, "Read")
    BY <2>1, <2>2, AbsLines DEF Abs!Ends
  <2>. QED  BY <1>1, <2>3, AbsLines DEF Abs!Next, Abs!ReturnReadError
<1>7. CASE ScanEOF
  <2>1. /\ pc = "Scan" /\ pc' = "Done" /\ li = Len(text)
        /\ UNCHANGED <<text, li, zones, err>>
    BY <1>7 DEF ScanEOF
  <2>2. /\ Abs!Scannable(text, Len(text))
        /\ RecordsOf(zones, text, Len(text))
        /\ err = "none"
    BY <2>1 DEF IScanned, IRecords, IScanErr
  <2>3. Abs!Ends(text, Len(text), "none")
    BY <2>1, <2>2, AbsLines DEF Abs!Ends
  <2>. QED  BY <1>1, <2>3, AbsLines DEF Abs!Next, Abs!ReturnAll
<1>8. CASE Halted \/ UNCHANGED vars
  BY <1>8 DEF Halted, vars, Abs!avars
<1>. QED  BY <1>2, <1>3, <1>4, <1>5, <1>6, <1>7, <1>8 DEF Next, ZoneStep

-----------------------------------------------------------------------------
(* Theorems.                                                               *)

\* The variables of NewZoneInfo keep their types: the records appended
\* are made of words of the file, for every file.
THEOREM ZoneTypeCorrect == Spec => []TypeOK
<1>1. Init => IInv
  BY InitIInv
<1>2. IInv /\ [Next]_vars => IInv'
  BY NextIInv
<1>3. IInv => TypeOK
  BY DEF IInv
<1>. QED  BY <1>1, <1>2, <1>3, PTL DEF Spec

\* parseZoneInfo returns the records of the "Node" lines it scanned, in
\* file order, and a nil error only when it scanned the whole file (a
\* too-long line or a read error is returned by scanner.Err()), for every
\* file of every length.
THEOREM ZonesInFileOrderHolds == Spec => []ZonesInFileOrder
<1>1. Init => IInv
  BY InitIInv
<1>2. IInv /\ [Next]_vars => IInv'
  BY NextIInv
<1>3. IInv => ZonesInFileOrder
  BY DEF IInv, IRecords, IEnd, ZonesInFileOrder
<1>. QED  BY <1>1, <1>2, <1>3, PTL DEF Spec

\* NewZoneInfo implements what it promises: every behaviour of the call
\* (NewFS, os.Open, the scan loop and scanner.Err) is, under the mapping
\* Abs, a behaviour of ZoneInfoSpec, whose every ending names the file
\* read, the lines scanned and the records returned.
THEOREM ZoneImplementsSpec == Spec => Abs!SafeSpec
<1>1. Init => Abs!Init
  BY DEF Init, Abs!Init
<1>2. Init => ZInv
  BY InitZInv
<1>3. ZInv /\ [Next]_vars => ZInv'
  BY NextZInv
<1>4. ZInv /\ ZInv' /\ [Next]_vars => [Abs!Next]_Abs!avars
  BY ZoneNextRefines
<1>. QED  BY <1>1, <1>2, <1>3, <1>4, PTL DEF Spec, Abs!SafeSpec
=============================================================================
