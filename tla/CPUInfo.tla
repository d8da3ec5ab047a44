------------------------------ MODULE CPUInfo ------------------------------
(***************************************************************************)
(* FS.NewCPUInfo (src/sysfs/cpu_system_devices.go): parseCPUInfoGeneric   *)
(* over devices/system/cpu, then parseCPUFreq, parseCPUTopology and        *)
(* parseCPUThermalThrottle over cpu<N>/<subsystem> for every N of the      *)
(* online list.  One step per directory listing, per file read and per     *)
(* iteration of parseCPURange, whose step machine this module extends.     *)
(*                                                                         *)
(* The filesystem is the environment: a ReadDir returns one of the         *)
(* listings Listings(dir) allows (sorted by name, as ioutil.ReadDir sorts) *)
(* or fails, and a ReadFile of a readable file returns any content of the  *)
(* field's kind (of cpu<N>/..., one that Held(N) allows).  Every path is   *)
(* read at most once per call, so choosing the content when it is read is *)
(* the same as fixing it beforehand.                                       *)
(* Contents stand for their text after strings.TrimSpace.                 *)
(***************************************************************************)
EXTENDS CPURange

CONSTANTS
    Listings(_),  \* the listings ReadDir may return for "cpu" or a subsystem
    OtherFile,    \* a file name no case of a switch matches ("uevent")
    IntTexts,     \* contents of a file holding an integer
    StrTexts,     \* contents of a file holding a string
    EmptyStr,     \* the string "", zero value of a string field
    Held(_)       \* the contents the files of cpu<N> may hold

\* Subsystems in the order NewCPUInfo parses them.
SubOrder == <<"cpufreq", "topology", "thermal_throttle">>
Subsystems == {SubOrder[i] : i \in 1..3}

\* The fields of CPUFreq, CPUTopology and CPUThermalThrottle, by the file
\* name each case of the switch of their parser reads.
IntFields == [cpufreq |-> {"cpuinfo_cur_freq", "cpuinfo_max_freq",
                           "cpuinfo_min_freq", "cpuinfo_transition_latency",
                           "scaling_cur_freq", "scaling_max_freq",
                           "scaling_min_freq", "scaling_setspeed"},
              topology |-> {"core_id", "physical_package_id"},
              thermal_throttle |-> {"core_throttle_count",
                                    "package_throttle_count"}]
StrFields == [cpufreq |-> {"scaling_available_governors", "scaling_driver",
                           "scaling_governor"},
              topology |-> {"core_siblings", "core_siblings_list",
                            "thread_siblings", "thread_siblings_list"},
              thermal_throttle |-> {}]
Fields(s) == IntFields[s] \cup StrFields[s]

\* The files of devices/system/cpu that parseCPUInfoGeneric parses.
RangeFiles == {"offline", "online", "possible", "present"}
GenField == [offline |-> "Offline", online |-> "Online",
             possible |-> "Possible", present |-> "Present"]

Names == {"kernel_max", OtherFile} \cup RangeFiles
         \cup UNION {Fields(s) : s \in Subsystems}
Entry == [name : Names, isDir : BOOLEAN, readable : BOOLEAN]
FieldVal == {EmptyStr} \cup StrTexts \cup Int64

ASSUME ListingsAssumption ==
    \A d \in {"cpu"} \cup Subsystems : Listings(d) \subseteq Seq(Entry)
ASSUME TextsAssumption ==
    /\ IntTexts \subseteq Text
    /\ EmptyStr \notin StrTexts
    /\ OtherFile \notin {"kernel_max"} \cup RangeFiles
                        \cup UNION {Fields(s) : s \in Subsystems}

\* The zero value of a CPUFreq, CPUTopology or CPUThermalThrottle.
Zero(s) == [f \in Fields(s) |-> IF f \in IntFields[s] THEN 0 ELSE EmptyStr]
\* The zero value of CPUInfoGeneric.
ZeroGeneric == [KernelMax |-> 0, Offline |-> <<>>, Online |-> <<>>,
                Possible |-> <<>>, Present |-> <<>>]

VARIABLES
    pc,      \* where the goroutine is in NewCPUInfo
    files,   \* the listing the current loop over files walks
    fi,      \* index of the next entry of files
    label,   \* the range file parseCPURange is parsing
    gen,     \* cpuInfoGeneric
    sub,     \* index in SubOrder of the fan-out being run
    cpuIdx,  \* index in Online of the cpuNum the fan-out is at
    cur,     \* the slice the running fan-out fills (cpuFreqSlice, ...)
    info,    \* the slices cpuInformation holds, by subsystem
    err,     \* the error NewCPUInfo returns
    logged   \* the conversion failures log.Debugln has reported

cvars == <<pc, files, fi, label, gen, sub, cpuIdx, cur, info, err, logged>>
vars == <<cvars, rvars>>

Online == gen.Online
Sub == SubOrder[sub]
Pcs == {"NewFS", "GenReadDir", "GenFile", "GenRange", "FanCPU", "FanFile",
        "Done", "Panic"}

\* A call of NewCPUInfo() starts with NewFS(DefaultMountPoint); a call of
\* fs.NewCPUInfo() on an FS the caller made starts with parseCPUInfoGeneric.
Init ==
    /\ pc \in {"NewFS", "GenReadDir"}
    /\ files = <<>>
    /\ fi = 1
    /\ label = "online"
    /\ gen = ZeroGeneric
    /\ sub = 1
    /\ cpuIdx = 1
    /\ cur = <<>>
    /\ info = [s \in Subsystems |-> <<>>]
    /\ err = FALSE
    /\ logged = {}
    /\ rComps = <<>> /\ rK = 1 /\ rI = 0 /\ rLast = 0 /\ rOut = <<>>
    /\ rPc = "done"

-----------------------------------------------------------------------------
(* NewCPUInfo                                                              *)

\* NewFS fails (the mount point is not a directory): return CPUInfo{}, err.
NewFSFail ==
    /\ pc = "NewFS"
    /\ pc' = "Done"
    /\ err' = TRUE
    /\ UNCHANGED <<files, fi, label, gen, sub, cpuIdx, cur, info, logged,
                   rvars>>

\* NewFS succeeds: return fs.NewCPUInfo().
NewFSOk ==
    /\ pc = "NewFS"
    /\ pc' = "GenReadDir"
    /\ UNCHANGED <<files, fi, label, gen, sub, cpuIdx, cur, info, err, logged,
                   rvars>>

-----------------------------------------------------------------------------
(* parseCPUInfoGeneric                                                     *)

\* ioutil.ReadDir(path) lists devices/system/cpu.
GenReadDir ==
    /\ pc = "GenReadDir"
    /\ files' \in Listings("cpu")
    /\ fi' = 1
    /\ pc' = "GenFile"
    /\ UNCHANGED <<label, gen, sub, cpuIdx, cur, info, err, logged, rvars>>

\* The listing fails: parseCPUInfoGeneric and NewCPUInfo return the error.
GenReadDirFail ==
    /\ pc = "GenReadDir"
    /\ pc' = "Done"
    /\ err' = TRUE
    /\ UNCHANGED <<files, fi, label, gen, sub, cpuIdx, cur, info, logged,
                   rvars>>

GenEntry == files[fi]

\* if fileDir.IsDir() { continue }
GenSkipDir ==
    /\ pc = "GenFile"
    /\ fi <= Len(files)
    /\ GenEntry.isDir
    /\ fi' = fi + 1
    /\ UNCHANGED <<pc, files, label, gen, sub, cpuIdx, cur, info, err,
                   logged, rvars>>

\* ioutil.ReadFile fails: the generic record read so far and the error are
\* returned, and NewCPUInfo returns them.
GenReadFail ==
    /\ pc = "GenFile"
    /\ fi <= Len(files)
    /\ ~GenEntry.isDir /\ ~GenEntry.readable
    /\ pc' = "Done"
    /\ err' = TRUE
    /\ UNCHANGED <<files, fi, label, gen, sub, cpuIdx, cur, info, logged,
                   rvars>>

\* case "kernel_max": the ParseInt error goes to the err of the loop body,
\* which is logged and then dropped.
GenKernelMax ==
    /\ pc = "GenFile"
    /\ fi <= Len(files)
    /\ ~GenEntry.isDir /\ GenEntry.readable
    /\ GenEntry.name = "kernel_max"
    /\ \E t \in IntTexts :
          /\ gen' = [gen EXCEPT !.KernelMax = ParseInt(t).val]
          /\ logged' = IF ParseInt(t).err
                         THEN logged \cup {<<"cpu", -1, "kernel_max">>}
                         ELSE logged
    /\ fi' = fi + 1
    /\ UNCHANGED <<pc, files, label, sub, cpuIdx, cur, info, err, rvars>>

\* case "offline", "online", "possible", "present": call parseCPURange.
GenRangeFile ==
    /\ pc = "GenFile"
    /\ fi <= Len(files)
    /\ ~GenEntry.isDir /\ GenEntry.readable
    /\ GenEntry.name \in RangeFiles
    /\ \E v \in Inputs : RangeStart(v)
    /\ label' = GenEntry.name
    /\ pc' = "GenRange"
    /\ UNCHANGED <<files, fi, gen, sub, cpuIdx, cur, info, err, logged>>

\* A file no case matches is read and ignored.
GenOtherFile ==
    /\ pc = "GenFile"
    /\ fi <= Len(files)
    /\ ~GenEntry.isDir /\ GenEntry.readable
    /\ GenEntry.name \notin {"kernel_max"} \cup RangeFiles
    /\ fi' = fi + 1
    /\ UNCHANGED <<pc, files, label, gen, sub, cpuIdx, cur, info, err,
                   logged, rvars>>

\* One step of parseCPURange.
GenRangeStep ==
    /\ pc = "GenRange"
    /\ RangeStep
    /\ UNCHANGED cvars

\* parseCPURange returns: its slice is stored in the field of the file.
GenRangeReturn ==
    /\ pc = "GenRange"
    /\ rPc = "done"
    /\ gen' = [gen EXCEPT ![GenField[label]] = rOut]
    /\ fi' = fi + 1
    /\ pc' = "GenFile"
    /\ UNCHANGED <<files, label, sub, cpuIdx, cur, info, err, logged, rvars>>

\* parseCPURange panics: the panic unwinds NewCPUInfo.
GenRangePanic ==
    /\ pc = "GenRange"
    /\ rPc = "panic"
    /\ pc' = "Panic"
    /\ UNCHANGED <<files, fi, label, gen, sub, cpuIdx, cur, info, err,
                   logged, rvars>>
-----------------------------------------------------------------------------
(* parseCPUFreq, parseCPUTopology, parseCPUThermalThrottle: the same loop  *)
(* over Online, run for SubOrder[sub].                                     *)

\* Mutant: the slice made one slot short of len(online).
NewSliceShort(s) == [j \in 1..(Len(Online) - 1) |-> Zero(s)]

\* make([]CPUFreq, len(online)) and its siblings.
NewSlice(s) == [j \in 1..Len(Online) |-> Zero(s)]

\* parseCPUInfoGeneric returns with a nil error (the err of the function
\* scope is the nil one of ReadDir); NewCPUInfo calls parseCPUFreq.
GenReturn ==
    /\ pc = "GenFile"
    /\ fi > Len(files)
    /\ sub' = 1
    /\ cur' = NewSlice("cpufreq")
    /\ cpuIdx' = 1
    /\ pc' = "FanCPU"
    /\ UNCHANGED <<files, fi, label, gen, info, err, logged, rvars>>

CPUNum == Online[cpuIdx]

\* ioutil.ReadDir of cpu<N>/<subsystem> fails: "continue", the slot keeps
\* its zero value.
FanDirMissing ==
    /\ pc = "FanCPU"
    /\ cpuIdx <= Len(Online)
    /\ cpuIdx' = cpuIdx + 1
    /\ UNCHANGED <<pc, files, fi, label, gen, sub, cur, info, err, logged,
                   rvars>>

\* Mutant: the index into the listing not reset for the new directory.
FanReadDirNoReset ==
    /\ pc = "FanCPU"
    /\ cpuIdx <= Len(Online)
    /\ files' \in Listings(Sub)
    /\ pc' = "FanFile"
    /\ UNCHANGED <<fi, label, gen, sub, cpuIdx, cur, info, err, logged, rvars>>

\* ioutil.ReadDir of cpu<N>/<subsystem> lists the directory.
FanReadDir ==
    /\ pc = "FanCPU"
    /\ cpuIdx <= Len(Online)
    /\ files' \in Listings(Sub)
    /\ fi' = 1
    /\ pc' = "FanFile"
    /\ UNCHANGED <<label, gen, sub, cpuIdx, cur, info, err, logged, rvars>>

FanEntry == files[fi]

\* ioutil.ReadFile fails, on an unreadable file or on a subdirectory (no
\* IsDir test here): the slice so far and the error are returned, and
\* NewCPUInfo stores the slice and returns the error.
FanReadFail ==
    /\ pc = "FanFile"
    /\ fi <= Len(files)
    /\ FanEntry.isDir \/ ~FanEntry.readable
    /\ info' = [info EXCEPT ![Sub] = cur]
    /\ err' = TRUE
    /\ pc' = "Done"
    /\ UNCHANGED <<files, fi, label, gen, sub, cpuIdx, cur, logged, rvars>>

\* A file read whose name a case matches.
FanFieldRead ==
    /\ pc = "FanFile"
    /\ fi <= Len(files)
    /\ ~FanEntry.isDir /\ FanEntry.readable
    /\ FanEntry.name \in Fields(Sub)

\* cpuFreqSlice[cpuNum] with cpuNum outside 0..len(online)-1: index out of
\* range panics and unwinds NewCPUInfo.
FanIndexPanic ==
    /\ FanFieldRead
    /\ CPUNum \notin 0..(Len(cur) - 1)
    /\ pc' = "Panic"
    /\ UNCHANGED <<files, fi, label, gen, sub, cpuIdx, cur, info, err,
                   logged, rvars>>

\* Mutant: the slot addressed by position in the online list
\* (slice[i] for i, cpuNum := range online).
FanReadIntByPosition ==
    /\ FanFieldRead
    /\ CPUNum \in 0..(Len(cur) - 1)
    /\ FanEntry.name \in IntFields[Sub]
    /\ \E t \in IntTexts \cap Held(CPUNum) :
          /\ cur' = [cur EXCEPT ![cpuIdx][FanEntry.name] = ParseInt(t).val]
          /\ logged' = IF ParseInt(t).err
                         THEN logged \cup {<<Sub, CPUNum, FanEntry.name>>}
                         ELSE logged
    /\ fi' = fi + 1
    /\ UNCHANGED <<pc, files, label, gen, sub, cpuIdx, info, err, rvars>>

\* slice[cpuNum].Field, err = strconv.ParseInt(value, 10, 64); the error
\* is logged and dropped with the loop body's err.
FanReadInt ==
    /\ FanFieldRead
    /\ CPUNum \in 0..(Len(cur) - 1)
    /\ FanEntry.name \in IntFields[Sub]
    /\ \E t \in IntTexts \cap Held(CPUNum) :
          /\ cur' = [cur EXCEPT ![CPUNum + 1][FanEntry.name] = ParseInt(t).val]
          /\ logged' = IF ParseInt(t).err
                         THEN logged \cup {<<Sub, CPUNum, FanEntry.name>>}
                         ELSE logged
    /\ fi' = fi + 1
    /\ UNCHANGED <<pc, files, label, gen, sub, cpuIdx, info, err, rvars>>

\* slice[cpuNum].Field = value
FanReadStr ==
    /\ FanFieldRead
    /\ CPUNum \in 0..(Len(cur) - 1)
    /\ FanEntry.name \in StrFields[Sub]
    /\ \E t \in StrTexts \cap Held(CPUNum) :
          cur' = [cur EXCEPT ![CPUNum + 1][FanEntry.name] = t]
    /\ fi' = fi + 1
    /\ UNCHANGED <<pc, files, label, gen, sub, cpuIdx, info, err, logged,
                   rvars>>

\* A file no case matches is read and ignored.
FanOtherFile ==
    /\ pc = "FanFile"
    /\ fi <= Len(files)
    /\ ~FanEntry.isDir /\ FanEntry.readable
    /\ FanEntry.name \notin Fields(Sub)
    /\ fi' = fi + 1
    /\ UNCHANGED <<pc, files, label, gen, sub, cpuIdx, cur, info, err,
                   logged, rvars>>

\* The files of cpu<N>/<subsystem> are done: next cpuNum.
FanDirDone ==
    /\ pc = "FanFile"
    /\ fi > Len(files)
    /\ cpuIdx' = cpuIdx + 1
    /\ pc' = "FanCPU"
    /\ UNCHANGED <<files, fi, label, gen, sub, cur, info, err, logged, rvars>>

\* The fan-out returns its slice with its function-scope err, always nil;
\* NewCPUInfo stores it and calls the next fan-out, or returns nil.
FanReturn ==
    /\ pc = "FanCPU"
    /\ cpuIdx > Len(Online)
    /\ info' = [info EXCEPT ![Sub] = cur]
    /\ IF sub < 3
         THEN /\ sub' = sub + 1
              /\ cur' = NewSlice(SubOrder[sub + 1])
              /\ cpuIdx' = 1
              /\ UNCHANGED <<pc, err>>
         ELSE /\ pc' = "Done"
              /\ err' = FALSE
              /\ UNCHANGED <<sub, cur, cpuIdx>>
    /\ UNCHANGED <<files, fi, label, gen, logged, rvars>>

\* NewCPUInfo has returned or panicked: nothing moves.
Halted ==
    /\ pc \in {"Done", "Panic"}
    /\ UNCHANGED vars

Next ==
    \/ NewFSFail \/ NewFSOk
    \/ GenReadDir \/ GenReadDirFail \/ GenSkipDir \/ GenReadFail
    \/ GenKernelMax \/ GenRangeFile \/ GenOtherFile
    \/ GenRangeStep \/ GenRangeReturn \/ GenRangePanic \/ GenReturn
    \/ FanDirMissing \/ FanReadDir \/ FanReadFail \/ FanIndexPanic
    \/ FanReadInt \/ FanReadStr \/ FanOtherFile \/ FanDirDone \/ FanReturn
    \/ Halted

Spec == Init /\ [][Next]_vars

-----------------------------------------------------------------------------
(* Types and properties.                                                   *)

Slice(s) == Seq([Fields(s) -> FieldVal])

TypeOK ==
    /\ RangeTypeOK
    /\ pc \in Pcs
    /\ files \in Seq(Entry)
    /\ fi \in 1..(Len(files) + 1)
    /\ label \in RangeFiles
    /\ gen \in [KernelMax : Int64, Offline : Seq(Int64), Online : Seq(Int64),
                Possible : Seq(Int64), Present : Seq(Int64)]
    /\ sub \in 1..3
    /\ cpuIdx \in Nat \ {0}
    /\ cur \in Slice(Sub)
    /\ DOMAIN info = Subsystems
    /\ \A s \in Subsystems : info[s] \in Slice(s)
    /\ err \in BOOLEAN
    /\ logged \subseteq (({"cpu"} \cup Subsystems) \X Int \X Names)

\* The values field f of subsystem s may take from the files of cpu<n>:
\* its zero value, or what ParseInt makes of, or the string of, a content
\* those files may hold.
CPUVals(s, n, f) ==
    IF f \in IntFields[s]
      THEN {0} \cup {ParseInt(t).val : t \in IntTexts \cap Held(n)}
      ELSE {EmptyStr} \cup (StrTexts \cap Held(n))

\* Every field of slot j of sl holds data of cpu<j-1>.
FromItsCPU(sl, s) ==
    \A j \in 1..Len(sl) : \A f \in Fields(s) : sl[j][f] \in CPUVals(s, j - 1, f)

\* spec.md section 3: the per-CPU slices are indexed by CPU number.  Every
\* slot of a slice NewCPUInfo stores holds, in every field, the zero value
\* or data read from the files of the CPU whose number is the slot's index
\* (cpuFreqSlice[cpuNum] in the three fan-outs): data read for one CPU
\* never lands in the slot of another, whatever the online list is, over
\* the fan-outs, the files skipped and the errors.
SlotsHoldTheirCPUsData == \A s \in Subsystems : FromItsCPU(info[s], s)

\* spec.md section 3: when NewCPUInfo succeeds, the three per-CPU slices
\* are all sized to the online list, missing subsystem directories
\* included.
ResultSized ==
    (pc = "Done" /\ ~err) => \A s \in Subsystems : Len(info[s]) = Len(Online)

\* spec.md section 4.3: a kernel_max that does not parse is reported as the
\* error of the call.  parseCPUInfoGeneric assigns it to the err of the
\* loop body, which shadows the one it returns.
KernelMaxErrorReturned ==
    (pc = "Done" /\ <<"cpu", -1, "kernel_max">> \in logged) => err

\* spec.md sections 3 and 4.4: every online CPU has its slot in the slices;
\* a CPU number at or beyond len(online) must not crash the read.  The
\* fan-outs index the slice by CPU number and panic.
NoIndexPanic == pc = "Panic" => rPc = "panic"

\* spec.md sections 4.3 and 7: the call fails only when the root is not
\* accessible, the cpu directory cannot be listed or a file present in a
\* listing cannot be read; directory entries are skipped.  parseCPUInfoGeneric tests IsDir, but
\* the fan-outs call ioutil.ReadFile on every entry of cpu<N>/<subsystem>,
\* so a subdirectory such as cpufreq/stats fails the whole NewCPUInfo.
ErrorOnlyFromUnreadableFile ==
    [][(~err /\ err') =>
         \/ pc \in {"NewFS", "GenReadDir"}
         \/ pc = "GenFile" /\ ~GenEntry.isDir /\ ~GenEntry.readable
         \/ pc = "FanFile" /\ ~FanEntry.isDir /\ ~FanEntry.readable]_vars
=============================================================================
