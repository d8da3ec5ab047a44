---------------------------- MODULE MC_ZoneInfo ----------------------------
(***************************************************************************)
(* A small /proc/zoneinfo: files of up to three lines drawn from two zone  *)
(* header lines, a "Node" line cut short after its third field, a         *)
(* statistics line and a line over the scanner's token limit.             *)
(***************************************************************************)
EXTENDS ZoneInfo

CONSTANTS NodeW, ZoneW, N0, N1, Dma, Normal, Zo, Pages

Fld(w, c) == [word |-> w, comma |-> c]

\* "Node 0, zone DMA" and "Node 1, zone Normal".
ZoneLine(n, z) ==
    [node |-> TRUE, long |-> FALSE,
     fields |-> <<Fld(NodeW, FALSE), Fld(n, TRUE), Fld(ZoneW, FALSE),
                  Fld(z, FALSE)>>]
\* "Node 0, zo": a header line cut short.
ShortLine ==
    [node |-> TRUE, long |-> FALSE,
     fields |-> <<Fld(NodeW, FALSE), Fld(N0, TRUE), Fld(Zo, FALSE)>>]
\* "  pages free 3968": an indented statistics line.
StatLine ==
    [node |-> FALSE, long |-> FALSE,
     fields |-> <<Fld(Pages, FALSE), Fld(Pages, FALSE)>>]
\* A line longer than bufio.MaxScanTokenSize.
LongLine ==
    [node |-> FALSE, long |-> TRUE, fields |-> <<Fld(Pages, FALSE)>>]

MCWords == {NodeW, ZoneW, N0, N1, Dma, Normal, Zo, Pages}
MCLines == {ZoneLine(N0, Dma), ZoneLine(N1, Normal), ShortLine, StatLine,
            LongLine}

\* NewZoneInfo implements ZoneInfoSpec: it returns the records of the whole
\* file with a nil error, or those before a long line or a read error with
\* that error, panics only on a short "Node" line the scan reaches, and
\* always does one of these.
ZoneRefinesSpec == Abs!Spec
=============================================================================
