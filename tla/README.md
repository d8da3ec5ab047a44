# Verification of the sysfs CPU readers of procfs

This directory holds TLA+ models of `src/sysfs/cpu_system_devices.go` and
of `zoneinfo.go` (lines 1-72 of `src/unnamed/part_000`), the TLC
configurations that check them on small instances, and TLAPS proofs about
them. The rest of `part_000` holds two earlier revisions of the CPU code,
which are not modelled.

## The system

`NewCPUInfo()` (lines 78-85) calls `NewFS(DefaultMountPoint)` and returns
its error, or calls `FS.NewCPUInfo`. `FS.NewCPUInfo` (lines 88-114) is a single sequential goroutine that runs
four readers in a fixed order. It returns early on the first error:

1. `parseCPUInfoGeneric` (243-281) lists `devices/system/cpu`, skips the
   directories and reads every file.
   - `kernel_max` is converted with `strconv.ParseInt`.
   - `offline`, `online`, `possible` and `present` go through
     `parseCPURange` (283-299), which expands `"0-3,8-9"` into a slice of
     int64.
2. `parseCPUFreq` (190-241), `parseCPUTopology` (149-188) and
   `parseCPUThermalThrottle` (116-147) are the *fan-outs*. Each makes a
   slice of `len(online)` zero records. Then, for every `cpuNum` of the
   online list, it lists `cpu<N>/<subsystem>`:
   - a listing that fails is skipped;
   - every entry is read, and a read failure is fatal;
   - the field named by the file is written into `slice[cpuNum]`, which is
     indexed by CPU number, not by position.
3. Conversion errors are logged and dropped. The `err` declared with `:=`
   inside each loop shadows the one the function returns.

`NewZoneInfo()` (part_000 33-40) does the same with `FS.NewZoneInfo`
(43-51), which opens `zoneinfo` and hands it to `parseZoneInfo` (53-72). That
function scans the file line by line with a `bufio.Scanner`. For every line
that starts with `"Node"` it appends `{parts[1], parts[3]}` of
`strings.Fields(line)`, trailing commas trimmed, and at the end it returns
`scanner.Err()`. ZoneInfo and the CPU readers do not interact.

There is no concurrency inside the code. What can interleave with it is the
kernel: the files and directories it reads may change, vanish or be
unreadable, and CPUs come and go. The model therefore treats the filesystem
as a nondeterministic environment.

## Inventory

| Part | Source | Module | Status |
|---|---|---|---|
| parseCPURange | cpu_system_devices.go 283-299 | `CPURange`, `MC_CPURange`; proofs in `CPURangeProofs` | modelled |
| parseCPUInfoGeneric | 243-281 | `CPUInfo` | modelled |
| the three fan-outs | 116-241 | `CPUInfo` (one set of actions for the three) | modelled |
| FS.NewCPUInfo | 88-114 | `CPUInfo` | modelled |
| NewCPUInfo() | 78-85 | `CPUInfo` (`NewFSFail`, `NewFSOk`) | modelled; NewFS and FS.Path are not in src/ and are modelled by their outcomes |
| what parseCPURange promises | spec sections 4.1 and 8 | `CPURangeSpec`, `Spans`; lemmas in `SpansProofs` | abstract specification |
| NewZoneInfo, FS.NewZoneInfo, parseZoneInfo | part_000 33-72 | `ZoneLines`, `ZoneInfo`, `MC_ZoneInfo`; proofs in `ZoneInfoProofs` | modelled |
| what NewZoneInfo promises | spec sections 4.2 and 7 | `ZoneInfoSpec` | abstract specification |
| earlier revisions of the CPU code | part_000 73-414 | none | not modelled; their parseCPURange is the current one |

## The modules

**`CPURange`** is parseCPURange as a step machine, with variables `rComps`,
`rK`, `rI`, `rLast`, `rOut` and `rPc`.
- A value is abstracted to what `strings.Split` makes of it: a sequence of
  components, each a sequence of parts.
- A part is a natural literal or `NaN`, which stands for every text
  `ParseInt` rejects, `""` included.
- `ParseInt` is modelled by what it returns: `0` with an error on a syntax
  error, `IntMax` with an error on a literal out of range.
- int64 is kept at a width `W`, so `i++` wraps around (`Wrap`).
- Actions:
  - `SplitComponent` is the loop head. It panics when the component has
    fewer than two parts.
  - `AppendCPU` is one iteration of the inner loop.
  - `NextComponent` is the inner loop's exit.
  - `RangeReturn` is the function's return.
- `MaxOut` bounds the length of the result, like a memory limit, so that
  the overflowing loop stays finite for TLC.

**`CPUInfo`** extends `CPURange` and models NewCPUInfo with one action per
ReadDir, per file read and per parseCPURange step.
- The phase of the call is in `pc`: `NewFS`, `GenReadDir`, `GenFile`, `GenRange`,
  `FanCPU`, `FanFile`, `Done` or `Panic`.
- `files` and `fi` are the listing being walked, and `gen` is
  `cpuInfoGeneric`.
- `sub`, `cpuIdx` and `cur` are the running fan-out and its slice.
- `info` holds the slices stored in `cpuInformation`. `err` is the error
  returned, and `logged` the conversion failures that `log.Debugln`
  reported.
- The environment is given by two things:
  - `Listings(d)`: the listings a ReadDir of `d` may return, each entry with
    `isDir` and `readable` flags;
  - the contents a file read may return (`IntTexts`, `StrTexts`, and
    `Inputs` for the range files). `Held(n)` is the set of contents the
    files of `cpu<n>` may hold; a fan-out read of `cpu<n>` returns one of
    them. This lets a property tell one CPU's data from another's.

  Every path is read at most once per call, so choosing a content when it
  is read is the same as fixing it beforehand.
- `NewFSFail` and `NewFSOk` are the two outcomes of `NewFS` in
  `NewCPUInfo()` (79-84). A call of `FS.NewCPUInfo` starts at `GenReadDir`.
- Actions of the generic phase: `GenReadDir` and `GenReadDirFail` (lines
  248-251), `GenSkipDir` (255), `GenReadFail` (258-261), `GenKernelMax`
  (266), `GenRangeFile`, `GenRangeStep`, `GenRangeReturn` and
  `GenRangePanic` (268-274 together with parseCPURange), `GenOtherFile` (no
  case matches) and `GenReturn` (280, 94-100).
- Actions of the fan-outs: `FanDirMissing` (123-127), `FanReadDir`,
  `FanReadFail` (130-133, which also fires on a subdirectory, because there
  is no IsDir test), `FanIndexPanic` (`slice[cpuNum]` out of range),
  `FanReadInt`, `FanReadStr`, `FanOtherFile`, `FanDirDone` and `FanReturn`
  (NewCPUInfo storing the slice and calling the next fan-out).
- `Halted` is the stutter after the return or a panic.

**`MC_CPUInfo`** gives small sysfs trees:
- two listings of `devices/system/cpu`, one with a subdirectory, an ignored
  file and `kernel_max`, the other with an unreadable file;
- two listings of `cpufreq`, one of them with a subdirectory;
- one listing of `topology`;
- two listings of `thermal_throttle`, one of them with an unreadable file;
- online values `"0-1"`, `"1-2"`, `"x-0"` and `"0"`;
- file contents that differ by CPU: the files of `cpu<N>` hold `4 + N`, an
  unparsable text, or the string `TextN` (`MCHeld`).

**`Spans`** describes a sequence made of consecutive spans of integers
without recursion. `SpanEnds(c, s, lo, len, n, m)` says that `c[k]` is where
span `k` ends in `s`, that span `k` is `lo[k], lo[k]+1, ...` of length
`len[k]`, and that the first `m` numbers of span `n+1` follow span `n`.
`Partial(s, lo, len, n, m)` says that such a `c` exists.

**`CPURangeSpec`** is the abstract specification of parseCPURange: a call
is `running` until one step takes it to `done`, with the concatenated spans
of its components as result (`SpansOf`, a `Partial` with every span
complete), or to `panic` when a component has fewer than two parts. The
number a part denotes is a constant operator `PartValue`. That a call ends
is the property `Terminates == <>(state # "running")`, not weak fairness
of `Next`. The result of `Return` is described rather than computed, so TLC
cannot evaluate `ENABLED Return`. While the call runs, one of `Return` and
`Panic` is always possible, so the two forms say the same.

**`MC_CPURange`** feeds parseCPURange every value of up to two components of
up to three parts over a set of literals `Lits` plus `NaN`. The assumption
`SpansOfIsExpansion` checks on every one of these values that `SpansOf` is
the reference expansion written with `FlattenSeq`. So the non-recursive
description says what the recursive one says.

`CPURange` instantiates the spec with the refinement mapping `Abs`:
- `value` is `rComps`;
- `state` is `rPc` once it is `done` or `panic`, and `running` before;
- `out` is `rOut` once the call returned, and `<<>>` before;
- `PartValue` is `ParseInt(t).val`.

`RangeRefinesSpec == Abs!Spec` (in `MC_CPURange`) is checked as a temporal
property of `RangeFairSpec`, the step machine with weak fairness on
`RangeStep`.

**`ZoneLines`** holds the data shared by `ZoneInfo` and `ZoneInfoSpec`:
the constants `Words`, `Lines` and `MaxLines`, lines, fields, the files
`os.Open` may find (`Files`), `Record` (the `{Node, Zone}` record a line
gives, 63-67, with `TrimRight`) and `RecordsOf`.

**`ZoneInfo`** models NewZoneInfo, FS.NewZoneInfo and parseZoneInfo.
- A line is abstracted to what the code looks at:
  - `node`: whether it has the prefix `"Node"`;
  - `fields`: what `strings.Fields` splits it into, each field a word and
    whether trailing commas follow it, so `TrimRight(f, ",")` is the word;
  - `long`: whether it exceeds the scanner's 64 KiB token limit.
- Variables: `pc` (`NewFS`, `Open`, `Scan`, `Done`, `Panic`), `text` (the
  file, fixed at the open), `li` (the lines Scan has returned), `zones` (the
  `zoneInfo` slice) and `err`.
- Actions: `NewFSFail` and `NewFSOk` (34-39), `Open` and `OpenFail` (44-48),
  then one step per call of `scanner.Scan`:
  - `ScanNodeLine` appends the `Record` of the line (61-67);
  - `ScanShortNodeLine` panics on `parts[3]` when the line has fewer than
    four fields;
  - `ScanOtherLine` skips the line;
  - `ScanTooLong`, `ScanReadError` and `ScanEOF` end the loop with
    `bufio.ErrTooLong`, the read error or nil (71).
- A read error may come between any two lines. The scanner hands out the
  partial line it buffered before the error, and such a line is simply one
  of the lines of the file in the model (the `Node` line cut short in
  `MC_ZoneInfo`).

**`ZoneInfoSpec`** is the abstract specification of NewZoneInfo: one
step per way a call can end. `Fail` returns the error of NewFS or
`os.Open`. `ReturnAll` returns the records of a whole file with a nil
error. `ReturnTooLong` returns the records before a line over the token
limit, with `ErrTooLong`. `ReturnReadError` returns the records of any
prefix, with the read error. `Panic` ends at a `Node` line with fewer
than four fields. Each ending names the file read (`file`). A call ends
(`Terminates`). `ZoneInfo` maps onto it by `Abs`:
- the state is running until `pc` is `Done` or `Panic`;
- `file` and `result` show `text` and `zones` once the call has ended;
- `error` is `err`.

`ZoneRefinesSpec == Abs!Spec` (in `MC_ZoneInfo`) is checked as a temporal
property of `ZoneFairSpec`, the step machine with weak fairness on
`ZoneStep`.

**`MC_ZoneInfo`** gives files of up to three lines drawn from
`Node 0, zone DMA`, `Node 1, zone Normal`, a `Node` line cut short after
three fields, a statistics line and a line over the token limit.

## Runs

| Run | Checks | Result |
|---|---|---|
| `mc_cpurange` | `RangeExpandsSpans`: on a well-formed value, what has been appended at every step is a prefix of the inclusive spans in order, and on return it is all of them (spec section 8). `AppendsWithinSpan`, an action property: while no span ends at MaxInt64, each number appended lies between first and last of its component. | passes, 55530 states |
| `cpurange_panic` | `RangeNeverPanics` (spec 4.1: never aborts) | violated by `""` or `"0"`: the index `[1]` of line 290 |
| `cpurange_overflow` | `RangeExpandsSpans` with `Lits = {6,7}`, where 7 is IntMax at `W = 4` | violated by `"7-7"`: `i++` wraps and the loop never ends |
| `mc_cpuinfo` | `TypeOK`, `SlotsHoldTheirCPUsData` (every field of slot `j` of a stored slice holds its zero value or data read from the files of `cpu<j-1>`; the files of each CPU hold different contents in `MC_CPUInfo`, so a slot filled by position, as on online `"1-2"`, is caught), `ResultSized` (a successful call returns three slices of `len(online)`, spec section 3) | passes, 17383 states, every action taken |
| `kernelmax_error` | `KernelMaxErrorReturned` (spec 4.3) | violated: the shadowed `err` of line 258 drops the error |
| `index_panic` | `NoIndexPanic` (spec sections 3 and 4.4) | violated with online `"1-2"`: `slice[2]` in a slice of 2 |
| `subdir_fatal` | `ErrorOnlyFromUnreadableFile`, an action property: a step that makes `err` true is NewFS, the listing of the cpu directory, or the read of a listed entry that is a file and unreadable (spec sections 4.3 and 7) | violated by a subdirectory of `cpufreq` (`stats`): the fan-outs call ReadFile on it (lines 130, 163, 205) |
| `cpurange_refinement` | `RangeRefinesSpec`: parseCPURange implements `CPURangeSpec`, safety and liveness | passes, 55530 states |
| `mc_zoneinfo` | `TypeOK`, `ZonesInFileOrder`: at every step `zones` holds exactly the records of the `Node` lines scanned so far in file order, and a nil error comes only with the records of the whole file | passes, 820 states, every action taken |
| `zoneinfo_refinement` | `ZoneRefinesSpec`: NewZoneInfo implements `ZoneInfoSpec`, safety and liveness | passes, 820 states |
| `zoneinfo_panic` | `ZoneNeverPanics` (spec 4.2: a short `Node` line is malformed input, not a crash) | violated by `Node 0, zo`: `parts[3]` at part_000 line 65 |

Every property of a passing run has a mutant in `PROJECT.json`: a plausible
bug in the code's model that TLC then catches.
- `NextComponentEarly`: the loop tests `i < last`.
- `FanReadDirNoReset`: the file index is not reset.
- `FanReadIntByPosition`: the slot is indexed by position.
- `NewSliceShort`: the slice is one slot short.
- `SplitComponentLastFromFirst`: `last` parsed from the first part. It
  breaks `RangeRefinesSpec` and `AppendsWithinSpan`.
- `TrimRightNone`: the trailing comma not trimmed.
- `ScanTooLongNoErr`: `scanner.Err()` not returned, so a scan cut short by
  a long line reports success. It breaks `ZonesInFileOrder` and
  `ZoneRefinesSpec`.

## Bounds

- **Width `W = 4`.** The int64 range becomes -8..7. The overflow needs a
  literal equal to IntMax, which `Lits = {6,7}` provides. The wrap-around
  is the same at every width.
- **`MaxOut = 8`.** This is longer than any well-formed expansion of the
  inputs (two components of at most three numbers), so the bound only stops
  the looping case.
- **Two-component values of up to three parts.** These cover the
  malformed shapes: one part, three parts, and unparsable parts.
- **Files of up to three lines for zoneinfo.** Three lines let a cut
  short, long or unreadable line come after a record has been appended, and
  two `Node` lines come in either order.
- **Online lists.** They have up to two CPUs, which is enough for a
  non-zero-based list (`"1-2"`), a duplicate-free contiguous one (`"0-1"`),
  a malformed one, and a bare `"0"` on which parseCPURange panics.

## Fairness

parseCPURange runs in the caller's goroutine and never blocks: it reads
no file, takes no lock and waits on nothing. So a step it can take is
eventually taken, which is weak fairness on `RangeStep` (`RangeFairSpec`).
The abstract `CPURangeSpec` asks that a call ends (`Terminates`), so the
refinement includes termination: a call always returns or panics. It holds
on the `cpurange_refinement` instance, whose bounds stay below IntMax. With
a bound equal to IntMax the loop never ends, which `cpurange_overflow`
shows. NewZoneInfo also runs in the caller's goroutine. Its reads of a procfs
file return, and a failed read is the step `ScanReadError`. So
`ZoneFairSpec` assumes weak fairness on `ZoneStep`, and
`zoneinfo_refinement` shows that every call ends (`ZoneInfoSpec`'s
`Terminates`). No other run assumes fairness: the other properties are safety
properties.

## Proofs (`CPUInfoProofs`)

Three theorems about NewCPUInfo are proved. `THEOREM TypeCorrect == Spec => []TypeOK` is proved by TLAPS for every
width `W >= 2`, every set of listings and every file content.

`TypeOK` alone is not inductive. A step reads `files[fi]`, `Online[cpuIdx]`
and `cur[cpuNum + 1]`, and only the position of the loops guarantees that
these indices are in range. The inductive invariant `TypeInv` therefore adds
four facts:
- while parseCPURange loops, `rK` is within its components (`RangeInv`);
- while a range file is parsed, `fi` is an entry of the listing
  (`GRangeFi`);
- during a fan-out, `cpuIdx` is within `online + 1` and `cur` has
  `len(online)` slots (`GFan`);
- inside a directory listing, `cpuIdx` is within `online`.

`TypeInv` is split into groups by the variables they constrain, so that each
action's case re-proves only the groups it changes.

The lemmas:
- `ParseIntType` and `WrapType`: the conversion and the wrap-around stay in
  int64. These are stated in `CPURangeProofs`, which `CPUInfoProofs`
  extends;
- `RangeStepType`: a step of parseCPURange keeps `RangeInv`;
- `NewSliceType` and `SliceUpdate`: a new slice, and a slice with one field
  of one slot written, keep the slice type and length;
- `InitTypeInv`, `GenTypeInv` and `FanTypeInv`: the initial state, the steps
  of the generic phase and the steps of the fan-outs;
- `NextTypeInv`, which combines them.

The assumptions are on the constants: `WAssumption`, and
`ModulusAssumption`, which says that `2^W` is even and at least 4 (the
provers have no induction over `^`, and TLC evaluates the assumption on
every run). Also `ListingsAssumption`, `TextsAssumption` and
`InputsAssumption`.

### The two safety invariants

`THEOREM SlotsHoldTheirCPUsDataHolds == Spec => []SlotsHoldTheirCPUsData` and
`THEOREM ResultSizedHolds == Spec => []ResultSized` rest on the inductive
invariant `SlotsInv`. It adds four groups to `TypeInv`:

- `GInfoEmpty`: nothing is stored in `info` while the generic phase may
  still change the online list. Without this group, a later `online` file
  could change `len(online)` after a slice was stored.
- `GInfoSlots`: the stored slices satisfy `FromItsCPU`: every field of slot
  `j` holds a value of `CPUVals(s, j - 1, f)`, the zero value or a value
  of a content `Held(j - 1)` allows.
- `GCurSlots`: the running fan-out's own slice satisfies `FromItsCPU`, and
  the fan-outs before it stored slices of `len(online)` slots. This is what
  makes `ResultSized` true when the last fan-out returns.
- `ResultSized` itself.

The proof has one lemma per group of actions:
- `GenSlotsInv` and `GenReturnSlotsInv` for the generic phase and its
  return;
- `FanFrameSlotsInv` for the fan-out steps that change no slice;
- `FanReadSlotsInv` for a field written into `slice[cpuNum]`: the value
  comes from a content of `Held(cpuNum)`, so it belongs to slot
  `cpuNum + 1` (helper lemmas `SlotWrite`, `FieldKindsDisjoint`, and
  `ZeroFromItsCPU` for the slices `make` creates).
- `FanReadFailSlotsInv` and `FanReturnSlotsInv` for the slice stored by
  NewCPUInfo, through `StoreSlots`.

TLC checked `SlotsInv` on the `mc_cpuinfo` instance before it was proved.

The fact that the write does not panic is not part of the proof. Where the
code would panic, the model moves to `Panic` and stores nothing.

## Proofs (`ZoneInfoProofs`)

`THEOREM ZoneTypeCorrect == Spec => []TypeOK` and
`THEOREM ZonesInFileOrderHolds == Spec => []ZonesInFileOrder` are proved for
every set of words and lines and every `MaxLines`.

`ZonesInFileOrder` is stated with `RecordsOf(z, t, n)`: there is an
increasing map `f` from the records to the first `n` lines, onto the `Node`
lines among them, with `z[j] = Record(t[f[j]])`. This form needs no
recursion, unlike a `SelectSeq` over the file, so the provers can use it.
The inductive invariant `IInv` adds to `TypeOK`:
- `IStart`: before the open, nothing is read and the error is nil;
- `IRecords`: from the open on, `RecordsOf(zones, text, li)`;
- `IEnd`: a nil error at `Done` means `li = Len(text)`.

The lemmas `RecordsAppend` and `RecordsSkip` carry `RecordsOf` over a
scanned `Node` line, by extending `f` with the new line, and over any other
line, with the same `f`. `RecordsNone` gives the empty map at the open.

`THEOREM ZoneImplementsSpec == Spec => Abs!SafeSpec` is the safety part of
the refinement. `IInv` does not suffice for it: a step that ends the call
must match an ending of `ZoneInfoSpec`, which speaks of the file read and
of the lines before the one the scan stopped at. The invariant `ZInv`
adds to `IInv`:
- `IFile`: `text` is a file of `Files`, and empty before the open;
- `IScanned`: from the open on, the `li` lines scanned are `Scannable`
  (none long, every `Node` line with four fields);
- `IScanErr`: the error is nil while scanning;
- `IPanicAt`: a panic is at line `li + 1`, a short `Node` line;
- `ITooLong`: `ErrTooLong` is returned before line `li + 1`, a long line.

TLC checked `ZInv` on the `MC_ZoneInfo` instance before it was proved.
`NextZGroups` shows it inductive, one case per action (`ScannableNext`
extends `Scannable` over a scanned line). `ZoneNextRefines` maps:
- `NewFSFail` and `OpenFail` to `Fail`;
- `ScanShortNodeLine` to `Panic`;
- `ScanTooLong`, `ScanReadError` and `ScanEOF` to `ReturnTooLong`,
  `ReturnReadError` and `ReturnAll`, with the file `text` and `li` lines;
- every other step to a stutter.

## Proofs (`SpansProofs`, `CPURangeProofs`)

`SpansProofs` has lemmas about `Partial` for any starts `lo` and lengths
`len` of `N` spans:
- `PartialEmpty`: the empty sequence is zero complete spans;
- `PartialAppend`: appending `lo[n+1] + m` moves from `m` to `m + 1`
  numbers of span `n + 1`;
- `PartialClose`: `len[n+1]` numbers of span `n + 1` are `n + 1` complete
  spans;
- `PartialOpen`: `n` complete spans are `n - 1` spans and all of span `n`.

`CPURangeProofs` proves three theorems about parseCPURange, for every
width `W >= 2`, every `MaxOut` and every set of inputs:
- `THEOREM RangeExpandsSpansHolds == RangeSpec => [](BelowMax(rComps) => RangeExpandsSpans)`;
- `THEOREM AppendsWithinSpanHolds == RangeSpec => AppendsWithinSpan`;
- `THEOREM RangeImplementsSpec == RangeSpec => Abs!SafeSpec`, the safety
  part of the refinement.

`BelowMax(v)` says that no component's last part parses to MaxInt64. It
is a hypothesis of the first theorem because `cpurange_overflow` shows the
property fails without it. `AppendsWithinSpan` carries it in its own text.

All three rest on the inductive invariant `RInv`. It adds to `RangeTypeOK`
that the value is non-empty, and:
- `IPassed`: every component the outer loop has passed had a second part;
- `IComp`: at the loop head, `cpuSlice` is the spans of the components
  passed (`Partial(rOut, LoOf, LenOf, rK - 1, 0)`);
- `ILoop`: in the inner loop, `last` is the parsed second part, and either
  `last` is MaxInt64 or `cpuSlice` is those spans followed by the first
  `i - first` numbers of the current span, with `i - first` at most its
  length;
- `IDone`: on return every component had a second part and `cpuSlice` is
  all the spans;
- `IPanic`: a panic is at a component without a second part.

`RangeExpandsSpans` alone is not inductive. It says nothing of `i`, nor of
which component the loop is in. The disjunct "`last` is MaxInt64" is what
lets `RInv` hold on the wrapping loop: the loop can then never reach the
next component, because `i > MaxInt64` is impossible. TLC checked `RInv` on
a `W = 3` instance with literals above IntMax before it was proved.

One lemma per action shows that `RInv` is inductive: `SplitRInv`,
`AppendRInv` (through `PartialAppend` and `WrapId`: `i++` does not wrap
below MaxInt64), `NextComponentRInv` (`i > last` means the span is
complete, then `PartialClose`) and `ReturnRInv`. They are combined in
`NextRInv`. `AbsSpans` shows that `CPURangeSpec`'s operators under `Abs`
are `LoOf`, `LenOf` and `Partial`. `NextRefines` maps:
- the panic of `SplitComponent` to `Panic`;
- `RangeReturn` to `Return`;
- every other step to a stutter.

## Only model-checked

The following are checked by TLC on the small instance only:
- `Terminates`, the liveness half of `RangeRefinesSpec` (run
  `cpurange_refinement`). The provers cannot reach liveness under
  fairness, or `ENABLED`.
- `Terminates` of `ZoneInfoSpec`, the liveness half of `ZoneRefinesSpec`
  (run `zoneinfo_refinement`), for the same reason.
- `RangeExpandsSpans` when a span ends at MaxInt64. It is false there (run
  `cpurange_overflow`).
- `SpansOfIsExpansion`, the agreement of `SpansOf` with the recursive
  reference expansion. `FlattenSeq` is recursive, and induction over data
  is out of the provers' reach.
- the six violations.

## Not modelled

The two earlier revisions of the CPU code (part_000 73-414) are not
modelled. Their parseCPURange (398-414) is the current one, and their
readers are older versions of the same loops. Modelling them would repeat
`CPUInfo` and say nothing about the code in use.

## Plan

1. State the shape of NewCPUInfo's result on an error: the slices of the
   fan-outs before the failing one are full, and the later ones are nil.
