--------------------------- MODULE CPUInfoProofs ---------------------------
(***************************************************************************)
(* Proofs about NewCPUInfo (module CPUInfo) for every width W, every       *)
(* filesystem the Listings allow and every content of its files.           *)
(***************************************************************************)
EXTENDS CPUInfo, CPURangeProofs, TLAPS

-----------------------------------------------------------------------------
(* parseCPURange keeps its types.                                          *)

\* The loop of parseCPURange only runs on a component that exists.
RangeInv ==
    /\ RangeTypeOK
    /\ rPc = "loop" => rK \in 1..Len(rComps)

LEMMA RangeStepType ==
    RangeInv /\ RangeStep => RangeInv'
<1>. SUFFICES ASSUME RangeInv, RangeStep PROVE RangeInv'
  OBVIOUS
<1>. USE DEF RangeInv, RangeTypeOK, RangePcs
<1>1. CASE SplitComponent
  <2>1. CASE Len(rComps[rK]) < 2
    BY <1>1, <2>1 DEF SplitComponent
  <2>2. CASE ~(Len(rComps[rK]) < 2)
    <3>1. rComps[rK] \in Seq(Text) /\ Len(rComps[rK]) >= 2
      BY <1>1, <2>2 DEF SplitComponent, Component
    <3>2. rComps[rK][1] \in Text /\ rComps[rK][2] \in Text
      BY <3>1
    <3>. QED  BY <1>1, <2>2, <3>2, ParseIntType DEF SplitComponent
  <2>. QED  BY <2>1, <2>2
<1>2. CASE AppendCPU
  BY <1>2, WrapType DEF AppendCPU, Int64
<1>3. CASE NextComponent
  BY <1>3 DEF NextComponent
<1>4. CASE RangeReturn
  BY <1>4 DEF RangeReturn
<1>. QED  BY <1>1, <1>2, <1>3, <1>4 DEF RangeStep
-----------------------------------------------------------------------------
(* Lemmas about the subsystems, their records and slices.                  *)

LEMMA SubType ==
    ASSUME NEW i \in 1..3
    PROVE  SubOrder[i] \in Subsystems
BY DEF SubOrder, Subsystems

LEMMA ZeroType ==
    ASSUME NEW s \in Subsystems
    PROVE  Zero(s) \in [Fields(s) -> FieldVal]
BY Int64Bounds DEF Zero, FieldVal, Int64

LEMMA NewSliceType ==
    ASSUME NEW s \in Subsystems, Online \in Seq(Int64)
    PROVE  /\ NewSlice(s) \in Slice(s)
           /\ Len(NewSlice(s)) = Len(Online)
BY ZeroType DEF NewSlice, Slice

\* Writing one field of one slot keeps a slice a slice of the same length.
LEMMA SliceUpdate ==
    ASSUME NEW s \in Subsystems, NEW sl \in Slice(s),
           NEW j \in 1..Len(sl), NEW f \in Fields(s), NEW v \in FieldVal
    PROVE  /\ [sl EXCEPT ![j][f] = v] \in Slice(s)
           /\ Len([sl EXCEPT ![j][f] = v]) = Len(sl)
BY DEF Slice

-----------------------------------------------------------------------------
(* Type correctness of NewCPUInfo.  TypeOK is not inductive: the file and  *)
(* CPU indices must also stay inside the listing and the online list while *)
(* the loops use them, and the fan-out's slice must have len(online)       *)
(* slots.  TypeInv adds these facts; it is split into groups by the        *)
(* variables they constrain, so that a step only re-proves the groups it   *)
(* changes.                                                                *)

GPc    == pc \in Pcs
GFiles == files \in Seq(Entry) /\ fi \in 1..(Len(files) + 1)
GLabel == label \in RangeFiles
GGen   == gen \in [KernelMax : Int64, Offline : Seq(Int64), Online : Seq(Int64),
                   Possible : Seq(Int64), Present : Seq(Int64)]
GSub   == sub \in 1..3 /\ cur \in Slice(Sub)
GIdx   == cpuIdx \in Nat \ {0}
GInfo  == DOMAIN info = Subsystems /\ \A s \in Subsystems : info[s] \in Slice(s)
GErr   == err \in BOOLEAN
GLog   == logged \subseteq (({"cpu"} \cup Subsystems) \X Int \X Names)
\* parseCPURange runs on an entry of the listing.
GRangeFi == pc = "GenRange" => fi \in 1..Len(files)
\* The fan-out's loop over online and its slice of len(online) slots.
GFan ==
    /\ pc \in {"FanCPU", "FanFile"} =>
          /\ cpuIdx \in 1..(Len(Online) + 1)
          /\ Len(cur) = Len(Online)
    /\ pc = "FanFile" => cpuIdx \in 1..Len(Online)

TypeInv ==
    /\ RangeInv /\ GPc /\ GFiles /\ GLabel /\ GGen /\ GSub /\ GIdx /\ GInfo
    /\ GErr /\ GLog /\ GRangeFi /\ GFan

LEMMA TypeInvTypeOK == TypeInv => TypeOK
BY DEF TypeInv, TypeOK, RangeInv, GPc, GFiles, GLabel, GGen, GSub, GIdx,
       GInfo, GErr, GLog, Sub

LEMMA InitTypeInv == Init => TypeInv
<1>. SUFFICES ASSUME Init PROVE TypeInv
  OBVIOUS
<1>1. RangeInv
  BY Int64Bounds DEF Init, RangeInv, RangeTypeOK, RangePcs, Int64
<1>2. GGen
  BY Int64Bounds DEF Init, GGen, ZeroGeneric, Int64
<1>3. GSub /\ GInfo
  BY DEF Init, GSub, GInfo, Slice
<1>41. GPc /\ GLabel
  BY DEF Init, GPc, Pcs, GLabel, RangeFiles
<1>42. GFiles /\ GIdx
  BY DEF Init, GFiles, GIdx
<1>43. GErr /\ GLog
  BY DEF Init, GErr, GLog
<1>4. GPc /\ GFiles /\ GLabel /\ GIdx /\ GErr /\ GLog
  BY <1>41, <1>42, <1>43
<1>5. GRangeFi /\ GFan
  BY DEF Init, GRangeFi, GFan
<1>. QED  BY <1>1, <1>2, <1>3, <1>4, <1>5 DEF TypeInv

\* The facts every case below starts from.
LEMMA TypeInvFacts ==
    ASSUME TypeInv
    PROVE  /\ Sub \in Subsystems
           /\ Online \in Seq(Int64)
           /\ files \in Seq(Entry)
           /\ fi \in Nat \ {0}
           /\ cur \in Slice(Sub)
BY SubType DEF TypeInv, GSub, GGen, GFiles, Sub, Online

\* A step of parseCPUInfoGeneric keeps TypeInv.
LEMMA GenTypeInv ==
    ASSUME TypeInv,
           \/ NewFSFail \/ NewFSOk
           \/ GenReadDir \/ GenReadDirFail \/ GenSkipDir \/ GenReadFail
           \/ GenKernelMax \/ GenRangeFile \/ GenOtherFile
           \/ GenRangeStep \/ GenRangeReturn \/ GenRangePanic \/ GenReturn
    PROVE  TypeInv'
<1>. USE TypeInvFacts DEF TypeInv
<1>1. CASE GenReadDir
  <2>1. GFiles'
    BY <1>1, ListingsAssumption DEF GenReadDir, GFiles
  <2>2. GPc' /\ GRangeFi' /\ GFan'
    BY <1>1 DEF GenReadDir, GPc, Pcs, GRangeFi, GFan
  <2>3. RangeInv' /\ GLabel' /\ GGen' /\ GSub' /\ GIdx' /\ GInfo' /\ GErr'
        /\ GLog'
    BY <1>1 DEF GenReadDir, rvars, RangeInv, RangeTypeOK, GLabel, GGen, GSub,
       Sub, GIdx, GInfo, GErr, GLog
  <2>. QED  BY <2>1, <2>2, <2>3
<1>2. CASE NewFSFail \/ NewFSOk \/ GenReadDirFail \/ GenReadFail
           \/ GenRangePanic
  <2>1. GPc' /\ GErr' /\ GRangeFi' /\ GFan'
    BY <1>2 DEF NewFSFail, NewFSOk, GenReadDirFail, GenReadFail,
       GenRangePanic, GPc, Pcs, GErr, GRangeFi, GFan
  <2>2. RangeInv' /\ GFiles' /\ GLabel' /\ GGen' /\ GSub' /\ GIdx' /\ GInfo'
        /\ GLog'
    BY <1>2 DEF NewFSFail, NewFSOk, GenReadDirFail, GenReadFail,
       GenRangePanic, rvars, RangeInv, RangeTypeOK, GFiles, GLabel, GGen, GSub,
       Sub, GIdx, GInfo, GLog
  <2>. QED  BY <2>1, <2>2
<1>3. CASE GenSkipDir \/ GenOtherFile
  <2>1. GFiles' /\ GRangeFi' /\ GFan'
    BY <1>3 DEF GenSkipDir, GenOtherFile, GFiles, GRangeFi, GFan
  <2>2. RangeInv' /\ GPc' /\ GLabel' /\ GGen' /\ GSub' /\ GIdx' /\ GInfo'
        /\ GErr' /\ GLog'
    BY <1>3 DEF GenSkipDir, GenOtherFile, rvars, RangeInv, RangeTypeOK, GPc,
       GLabel, GGen, GSub, Sub, GIdx, GInfo, GErr, GLog
  <2>. QED  BY <2>1, <2>2
<1>4. CASE GenKernelMax
  <2>1. PICK t \in IntTexts :
           /\ gen' = [gen EXCEPT !.KernelMax = ParseInt(t).val]
           /\ logged' = IF ParseInt(t).err
                          THEN logged \cup {<<"cpu", -1, "kernel_max">>}
                          ELSE logged
    BY <1>4 DEF GenKernelMax
  <2>2. ParseInt(t).val \in Int64
    BY ParseIntType, TextsAssumption
  <2>3. GLog'
    BY <2>1 DEF GLog, Names
  <2>4. GGen'
    BY <2>1, <2>2 DEF GGen
  <2>5. GFiles' /\ GRangeFi' /\ GFan'
    BY <1>4 DEF GenKernelMax, GFiles, GRangeFi, GFan
  <2>6. RangeInv' /\ GPc' /\ GLabel' /\ GSub' /\ GIdx' /\ GInfo' /\ GErr'
    BY <1>4 DEF GenKernelMax, rvars, RangeInv, RangeTypeOK, GPc, GLabel, GSub,
       Sub, GIdx, GInfo, GErr
  <2>. QED  BY <2>3, <2>4, <2>5, <2>6
<1>5. CASE GenRangeFile
  <2>1. PICK v \in Inputs : RangeStart(v)
    BY <1>5 DEF GenRangeFile
  <2>2. v \in Seq(Component)
    BY InputsAssumption DEF RangeValue
  <2>3. RangeInv'
    BY <2>1, <2>2, Int64Bounds DEF RangeStart, RangeInv, RangeTypeOK,
       RangePcs, Int64
  <2>4. GLabel'
    BY <1>5 DEF GenRangeFile, GenEntry, GLabel
  <2>5. GPc' /\ GRangeFi' /\ GFan'
    BY <1>5 DEF GenRangeFile, GPc, Pcs, GRangeFi, GFiles, GFan
  <2>6. GFiles' /\ GGen' /\ GSub' /\ GIdx' /\ GInfo' /\ GErr' /\ GLog'
    BY <1>5 DEF GenRangeFile, GFiles, GGen, GSub, Sub, GIdx, GInfo, GErr, GLog
  <2>. QED  BY <2>3, <2>4, <2>5, <2>6
<1>6. CASE GenRangeStep
  <2>1. RangeInv'
    BY <1>6, RangeStepType DEF GenRangeStep
  <2>2. GPc' /\ GFiles' /\ GLabel' /\ GGen' /\ GSub' /\ GIdx' /\ GInfo'
        /\ GErr' /\ GLog' /\ GRangeFi' /\ GFan'
    BY <1>6 DEF GenRangeStep, cvars, GPc, GFiles, GLabel, GGen, GSub, Sub,
       GIdx, GInfo, GErr, GLog, GRangeFi, GFan
  <2>. QED  BY <2>1, <2>2
<1>7. CASE GenRangeReturn
  <2>1. GenField[label] \in {"Offline", "Online", "Possible", "Present"}
    BY DEF GLabel, RangeFiles, GenField
  <2>2. rOut \in Seq(Int64)
    BY DEF RangeInv, RangeTypeOK
  <2>3. GGen'
    BY <1>7, <2>1, <2>2 DEF GenRangeReturn, GGen
  <2>4. GFiles'
    BY <1>7 DEF GenRangeReturn, GRangeFi, GFiles
  <2>5. GPc' /\ GRangeFi' /\ GFan'
    BY <1>7 DEF GenRangeReturn, GPc, Pcs, GRangeFi, GFan
  <2>6. RangeInv' /\ GLabel' /\ GSub' /\ GIdx' /\ GInfo' /\ GErr' /\ GLog'
    BY <1>7 DEF GenRangeReturn, rvars, RangeInv, RangeTypeOK, GLabel, GSub,
       Sub, GIdx, GInfo, GErr, GLog
  <2>. QED  BY <2>3, <2>4, <2>5, <2>6
<1>8. CASE GenReturn
  <2>1. cur' \in Slice("cpufreq") /\ Len(cur') = Len(Online)
    BY <1>8, NewSliceType DEF GenReturn, Subsystems, SubOrder
  <2>2. GSub'
    BY <1>8, <2>1 DEF GenReturn, GSub, Sub, SubOrder
  <2>3. GFan'
    BY <1>8, <2>1 DEF GenReturn, GFan, Online
  <2>4. GPc' /\ GIdx' /\ GRangeFi'
    BY <1>8 DEF GenReturn, GPc, Pcs, GIdx, GRangeFi
  <2>5. RangeInv' /\ GFiles' /\ GLabel' /\ GGen' /\ GInfo' /\ GErr' /\ GLog'
    BY <1>8 DEF GenReturn, rvars, RangeInv, RangeTypeOK, GFiles, GLabel, GGen,
       GInfo, GErr, GLog
  <2>. QED  BY <2>2, <2>3, <2>4, <2>5
<1>. QED  BY <1>1, <1>2, <1>3, <1>4, <1>5, <1>6, <1>7, <1>8

\* The file the fan-out reads is an entry of the listing.
LEMMA FanEntryType ==
    ASSUME TypeInv, pc = "FanFile", fi <= Len(files)
    PROVE  /\ fi \in 1..Len(files)
           /\ FanEntry \in Entry
           /\ cpuIdx \in 1..Len(Online)
           /\ CPUNum \in Int
<1>1. fi \in 1..Len(files)
  BY DEF TypeInv, GFiles
<1>2. FanEntry \in Entry
  BY <1>1, TypeInvFacts DEF FanEntry
<1>3. cpuIdx \in 1..Len(Online)
  BY DEF TypeInv, GFan
<1>4. CPUNum \in Int64
  BY <1>3, TypeInvFacts DEF CPUNum
<1>5. CPUNum \in Int
  BY <1>4, Int64Bounds DEF Int64
<1>. QED  BY <1>1, <1>2, <1>3, <1>5

\* Writing the slot of cpuNum keeps the slice's type and length.
LEMMA FanWrite ==
    ASSUME TypeInv, pc = "FanFile", fi <= Len(files),
           CPUNum \in 0..(Len(cur) - 1),
           NEW f \in Fields(Sub), NEW v \in FieldVal
    PROVE  /\ [cur EXCEPT ![CPUNum + 1][f] = v] \in Slice(Sub)
           /\ Len([cur EXCEPT ![CPUNum + 1][f] = v]) = Len(cur)
<1>1. CPUNum + 1 \in 1..Len(cur)
  BY FanEntryType
<1>. QED  BY <1>1, TypeInvFacts, SliceUpdate

\* A step of a fan-out (parseCPUFreq, parseCPUTopology,
\* parseCPUThermalThrottle) keeps TypeInv.
LEMMA FanTypeInv ==
    ASSUME TypeInv,
           \/ FanDirMissing \/ FanReadDir \/ FanReadFail \/ FanIndexPanic
           \/ FanReadInt \/ FanReadStr \/ FanOtherFile \/ FanDirDone
           \/ FanReturn
    PROVE  TypeInv'
<1>. USE TypeInvFacts DEF TypeInv
<1>1. CASE FanDirMissing
  <2>1. GIdx' /\ GFan'
    BY <1>1 DEF FanDirMissing, GIdx, GFan, Online
  <2>2. RangeInv' /\ GPc' /\ GFiles' /\ GLabel' /\ GGen' /\ GSub' /\ GInfo'
        /\ GErr' /\ GLog' /\ GRangeFi'
    BY <1>1 DEF FanDirMissing, rvars, RangeInv, RangeTypeOK, GPc, GFiles,
       GLabel, GGen, GSub, Sub, GInfo, GErr, GLog, GRangeFi
  <2>. QED  BY <2>1, <2>2
<1>2. CASE FanReadDir
  <2>0. Listings(Sub) \subseteq Seq(Entry)
    BY ListingsAssumption
  <2>1. GFiles'
    BY <1>2, <2>0 DEF FanReadDir, GFiles
  <2>2. GPc' /\ GRangeFi' /\ GFan'
    BY <1>2 DEF FanReadDir, GPc, Pcs, GRangeFi, GFan, Online
  <2>3. RangeInv' /\ GLabel' /\ GGen' /\ GSub' /\ GIdx' /\ GInfo' /\ GErr'
        /\ GLog'
    BY <1>2 DEF FanReadDir, rvars, RangeInv, RangeTypeOK, GLabel, GGen, GSub,
       Sub, GIdx, GInfo, GErr, GLog
  <2>. QED  BY <2>1, <2>2, <2>3
<1>3. CASE FanReadFail
  <2>1. GInfo'
    BY <1>3 DEF FanReadFail, GInfo
  <2>2. GPc' /\ GErr' /\ GRangeFi' /\ GFan'
    BY <1>3 DEF FanReadFail, GPc, Pcs, GErr, GRangeFi, GFan
  <2>3. RangeInv' /\ GFiles' /\ GLabel' /\ GGen' /\ GSub' /\ GIdx' /\ GLog'
    BY <1>3 DEF FanReadFail, rvars, RangeInv, RangeTypeOK, GFiles, GLabel,
       GGen, GSub, Sub, GIdx, GLog
  <2>. QED  BY <2>1, <2>2, <2>3
<1>4. CASE FanIndexPanic
  <2>1. GPc' /\ GRangeFi' /\ GFan'
    BY <1>4 DEF FanIndexPanic, GPc, Pcs, GRangeFi, GFan
  <2>2. RangeInv' /\ GFiles' /\ GLabel' /\ GGen' /\ GSub' /\ GIdx' /\ GInfo'
        /\ GErr' /\ GLog'
    BY <1>4 DEF FanIndexPanic, rvars, RangeInv, RangeTypeOK, GFiles, GLabel,
       GGen, GSub, Sub, GIdx, GInfo, GErr, GLog
  <2>. QED  BY <2>1, <2>2
<1>5. CASE FanReadInt
  <2>1. /\ pc = "FanFile" /\ fi <= Len(files)
        /\ CPUNum \in 0..(Len(cur) - 1)
        /\ FanEntry.name \in IntFields[Sub]
    BY <1>5 DEF FanReadInt, FanFieldRead
  <2>2. PICK t \in IntTexts :
           /\ cur' = [cur EXCEPT ![CPUNum + 1][FanEntry.name] = ParseInt(t).val]
           /\ logged' = IF ParseInt(t).err
                          THEN logged \cup {<<Sub, CPUNum, FanEntry.name>>}
                          ELSE logged
    BY <1>5 DEF FanReadInt
  <2>3. ParseInt(t).val \in FieldVal
    BY ParseIntType, TextsAssumption DEF FieldVal
  <2>4. FanEntry.name \in Fields(Sub) /\ FanEntry.name \in Names
    BY <2>1, FanEntryType DEF Fields, Entry
  <2>5. cur' \in Slice(Sub) /\ Len(cur') = Len(cur)
    BY <2>1, <2>2, <2>3, <2>4, FanWrite
  <2>6. GSub' /\ GFan'
    BY <1>5, <2>5 DEF FanReadInt, GSub, Sub, GFan, Online
  <2>7. GLog'
    BY <2>1, <2>2, <2>4, FanEntryType DEF GLog
  <2>8. GFiles' /\ GRangeFi'
    BY <1>5, <2>1 DEF FanReadInt, GFiles, GRangeFi
  <2>9. RangeInv' /\ GPc' /\ GLabel' /\ GGen' /\ GIdx' /\ GInfo' /\ GErr'
    BY <1>5 DEF FanReadInt, rvars, RangeInv, RangeTypeOK, GPc, GLabel, GGen,
       GIdx, GInfo, GErr
  <2>. QED  BY <2>6, <2>7, <2>8, <2>9
<1>6. CASE FanReadStr
  <2>1. /\ pc = "FanFile" /\ fi <= Len(files)
        /\ CPUNum \in 0..(Len(cur) - 1)
        /\ FanEntry.name \in StrFields[Sub]
    BY <1>6 DEF FanReadStr, FanFieldRead
  <2>2. PICK t \in StrTexts : cur' = [cur EXCEPT ![CPUNum + 1][FanEntry.name] = t]
    BY <1>6 DEF FanReadStr
  <2>3. t \in FieldVal /\ FanEntry.name \in Fields(Sub)
    BY <2>1 DEF FieldVal, Fields
  <2>4. cur' \in Slice(Sub) /\ Len(cur') = Len(cur)
    BY <2>1, <2>2, <2>3, FanWrite
  <2>5. GSub' /\ GFan'
    BY <1>6, <2>4 DEF FanReadStr, GSub, Sub, GFan, Online
  <2>6. GFiles' /\ GRangeFi'
    BY <1>6, <2>1 DEF FanReadStr, GFiles, GRangeFi
  <2>7. RangeInv' /\ GPc' /\ GLabel' /\ GGen' /\ GIdx' /\ GInfo' /\ GErr'
        /\ GLog'
    BY <1>6 DEF FanReadStr, rvars, RangeInv, RangeTypeOK, GPc, GLabel, GGen,
       GIdx, GInfo, GErr, GLog
  <2>. QED  BY <2>5, <2>6, <2>7
<1>7. CASE FanOtherFile
  <2>1. GFiles' /\ GFan'
    BY <1>7 DEF FanOtherFile, GFiles, GFan, Online
  <2>2. RangeInv' /\ GPc' /\ GLabel' /\ GGen' /\ GSub' /\ GIdx' /\ GInfo'
        /\ GErr' /\ GLog' /\ GRangeFi'
    BY <1>7 DEF FanOtherFile, rvars, RangeInv, RangeTypeOK, GPc, GLabel, GGen,
       GSub, Sub, GIdx, GInfo, GErr, GLog, GRangeFi
  <2>. QED  BY <2>1, <2>2
<1>8. CASE FanDirDone
  <2>1. GPc' /\ GIdx' /\ GFan' /\ GRangeFi'
    BY <1>8 DEF FanDirDone, GPc, Pcs, GIdx, GFan, Online, GRangeFi
  <2>2. RangeInv' /\ GFiles' /\ GLabel' /\ GGen' /\ GSub' /\ GInfo' /\ GErr'
        /\ GLog'
    BY <1>8 DEF FanDirDone, rvars, RangeInv, RangeTypeOK, GFiles, GLabel,
       GGen, GSub, Sub, GInfo, GErr, GLog
  <2>. QED  BY <2>1, <2>2
<1>9. CASE FanReturn
  <2>1. GInfo'
    BY <1>9 DEF FanReturn, GInfo
  <2>2. GSub' /\ GIdx' /\ GFan' /\ GPc' /\ GErr' /\ GRangeFi'
    <3>1. CASE sub < 3
      <4>1. SubOrder[sub + 1] \in Subsystems /\ sub + 1 \in 1..3
        BY <3>1, SubType DEF GSub
      <4>2. cur' \in Slice(SubOrder[sub + 1]) /\ Len(cur') = Len(Online)
        BY <1>9, <3>1, <4>1, NewSliceType DEF FanReturn
      <4>3. GSub' /\ GIdx' /\ GFan'
        BY <1>9, <3>1, <4>1, <4>2 DEF FanReturn, GSub, Sub, GIdx, GFan, Online
      <4>4. GPc' /\ GErr' /\ GRangeFi'
        BY <1>9, <3>1 DEF FanReturn, GPc, GErr, GRangeFi
      <4>. QED  BY <4>3, <4>4
    <3>2. CASE ~(sub < 3)
      <4>1. GSub' /\ GIdx'
        BY <1>9, <3>2 DEF FanReturn, GSub, Sub, GIdx
      <4>2. GPc' /\ GErr' /\ GFan' /\ GRangeFi'
        BY <1>9, <3>2 DEF FanReturn, GPc, Pcs, GErr, GFan, GRangeFi
      <4>. QED  BY <4>1, <4>2
    <3>. QED  BY <3>1, <3>2
  <2>3. RangeInv' /\ GFiles' /\ GLabel' /\ GGen' /\ GLog'
    BY <1>9 DEF FanReturn, rvars, RangeInv, RangeTypeOK, GFiles, GLabel, GGen,
       GLog
  <2>. QED  BY <2>1, <2>2, <2>3
<1>. QED  BY <1>1, <1>2, <1>3, <1>4, <1>5, <1>6, <1>7, <1>8, <1>9

\* Every step of NewCPUInfo, and a stutter, keeps TypeInv.
LEMMA NextTypeInv == TypeInv /\ [Next]_vars => TypeInv'
<1>. SUFFICES ASSUME TypeInv, [Next]_vars PROVE TypeInv'
  OBVIOUS
<1>1. CASE Halted \/ UNCHANGED vars
  BY <1>1 DEF Halted, vars, cvars, rvars, TypeInv, RangeInv, RangeTypeOK,
     GPc, GFiles, GLabel, GGen, GSub, Sub, GIdx, GInfo, GErr, GLog, GRangeFi,
     GFan, Online
<1>. QED  BY <1>1, GenTypeInv, FanTypeInv DEF Next

\* Type correctness of NewCPUInfo: in every reachable state every variable,
\* the per-CPU slices returned in cpuInformation included, has its type.
THEOREM TypeCorrect == Spec => []TypeOK
<1>1. Init => TypeInv
  BY InitTypeInv
<1>2. TypeInv /\ [Next]_vars => TypeInv'
  BY NextTypeInv
<1>3. TypeInv => TypeOK
  BY TypeInvTypeOK
<1>. QED  BY <1>1, <1>2, <1>3, PTL DEF Spec

-----------------------------------------------------------------------------
(* The per-CPU slices: sized to the online list, and each slot filled only *)
(* with data of the CPU whose number is its index.                         *)

\* While the generic phase may still change Online, nothing is stored.
GInfoEmpty ==
    pc \in {"NewFS", "GenReadDir", "GenFile", "GenRange"} =>
        \A s \in Subsystems : info[s] = <<>>
\* The slices stored so far hold in each slot data of that slot's CPU.
GInfoSlots == \A s \in Subsystems : FromItsCPU(info[s], s)
\* The running fan-out: its slice holds in each slot data of that slot's
\* CPU, and the fan-outs before it have stored slices of len(online).
GCurSlots ==
    pc \in {"FanCPU", "FanFile"} =>
        /\ FromItsCPU(cur, Sub)
        /\ \A i \in 1..(sub - 1) : Len(info[SubOrder[i]]) = Len(Online)

SlotsInv ==
    /\ TypeInv /\ GInfoEmpty /\ GInfoSlots /\ GCurSlots /\ ResultSized

\* No file name is both an integer and a string field of a subsystem.
LEMMA FieldKindsDisjoint ==
    \A s \in Subsystems : IntFields[s] \cap StrFields[s] = {}
BY DEF Subsystems, SubOrder, IntFields, StrFields

\* A slice of zero records holds data of no CPU.
LEMMA ZeroFromItsCPU ==
    ASSUME NEW s \in Subsystems, NEW n \in Nat
    PROVE  FromItsCPU([j \in 1..n |-> Zero(s)], s)
BY DEF FromItsCPU, Zero, CPUVals

LEMMA InitSlotsInv == Init => SlotsInv
<1>. SUFFICES ASSUME Init PROVE SlotsInv
  OBVIOUS
<1>1. TypeInv
  BY InitTypeInv
<1>2. GInfoEmpty /\ GInfoSlots
  BY DEF Init, GInfoEmpty, GInfoSlots, FromItsCPU
<1>3. GCurSlots /\ ResultSized
  BY DEF Init, GCurSlots, ResultSized
<1>. QED  BY <1>1, <1>2, <1>3 DEF SlotsInv

\* Steps of the generic phase that leave info alone: no slice is stored
\* yet, and the phase does not enter a fan-out or return successfully.
LEMMA GenSlotsInv ==
    ASSUME SlotsInv, TypeInv',
           \/ NewFSFail \/ NewFSOk
           \/ GenReadDir \/ GenReadDirFail \/ GenSkipDir \/ GenReadFail
           \/ GenKernelMax \/ GenRangeFile \/ GenOtherFile
           \/ GenRangeStep \/ GenRangeReturn \/ GenRangePanic
    PROVE  SlotsInv'
<1>1. pc \in {"NewFS", "GenReadDir", "GenFile", "GenRange"}
  BY DEF NewFSFail, NewFSOk, GenReadDir, GenReadDirFail, GenSkipDir, GenReadFail, GenKernelMax,
     GenRangeFile, GenOtherFile, GenRangeStep, GenRangeReturn, GenRangePanic
<1>2. info' = info
  BY DEF NewFSFail, NewFSOk, GenReadDir, GenReadDirFail, GenSkipDir, GenReadFail, GenKernelMax,
     GenRangeFile, GenOtherFile, GenRangeStep, GenRangeReturn, GenRangePanic,
     cvars
<1>3. \/ pc' \in {"GenReadDir", "GenFile", "GenRange", "Panic"}
      \/ pc' = "Done" /\ err' = TRUE
  BY DEF NewFSFail, NewFSOk, GenReadDir, GenReadDirFail, GenSkipDir, GenReadFail, GenKernelMax,
     GenRangeFile, GenOtherFile, GenRangeStep, GenRangeReturn, GenRangePanic,
     cvars
<1>4. \A s \in Subsystems : info'[s] = <<>>
  BY <1>1, <1>2 DEF SlotsInv, GInfoEmpty
<1>5. GInfoEmpty' /\ GInfoSlots'
  BY <1>4 DEF GInfoEmpty, GInfoSlots, FromItsCPU
<1>6. GCurSlots' /\ ResultSized'
  BY <1>3 DEF GCurSlots, ResultSized
<1>. QED  BY <1>5, <1>6 DEF SlotsInv

\* parseCPUInfoGeneric returns: the first fan-out starts with zero records.
LEMMA GenReturnSlotsInv ==
    ASSUME SlotsInv, TypeInv', GenReturn
    PROVE  SlotsInv'
<1>1. \A s \in Subsystems : info'[s] = <<>>
  BY DEF GenReturn, SlotsInv, GInfoEmpty
<1>2. GInfoEmpty' /\ GInfoSlots'
  BY <1>1 DEF GInfoEmpty, GInfoSlots, FromItsCPU
<1>3. FromItsCPU(cur, Sub)'
  <2>1. cur' = NewSlice("cpufreq") /\ Sub' = "cpufreq"
    BY DEF GenReturn, Sub, SubOrder
  <2>2. "cpufreq" \in Subsystems /\ Len(Online) \in Nat
    BY DEF SlotsInv, TypeInv, GGen, Online, Subsystems, SubOrder
  <2>. QED  BY <2>1, <2>2, ZeroFromItsCPU DEF NewSlice
<1>4. GCurSlots'
  BY <1>3 DEF GenReturn, GCurSlots
<1>5. ResultSized'
  BY DEF GenReturn, ResultSized
<1>. QED  BY <1>2, <1>4, <1>5 DEF SlotsInv

\* Writing into the slot of CPU n a value of n's files keeps FromItsCPU.
LEMMA SlotWrite ==
    ASSUME NEW s \in Subsystems, NEW sl \in Slice(s), NEW n \in Int,
           NEW f \in Fields(s), NEW v \in CPUVals(s, n, f),
           n + 1 \in 1..Len(sl), FromItsCPU(sl, s)
    PROVE  FromItsCPU([sl EXCEPT ![n + 1][f] = v], s)
<1>. DEFINE sl2 == [sl EXCEPT ![n + 1][f] = v]
<1>1. /\ Len(sl2) = Len(sl)
      /\ \A j \in 1..Len(sl) : j # n + 1 => sl2[j] = sl[j]
      /\ \A g \in Fields(s) : sl2[n + 1][g] = IF g = f THEN v ELSE sl[n + 1][g]
  BY DEF Slice
<1>. SUFFICES ASSUME NEW j \in 1..Len(sl2), NEW g \in Fields(s)
              PROVE  sl2[j][g] \in CPUVals(s, j - 1, g)
  BY DEF FromItsCPU
<1>2. CASE j = n + 1
  BY <1>1, <1>2 DEF FromItsCPU
<1>3. CASE j # n + 1
  BY <1>1, <1>3 DEF FromItsCPU
<1>. QED  BY <1>2, <1>3

\* Fan-out steps that change neither the slices nor the online list.
LEMMA FanFrameSlotsInv ==
    ASSUME SlotsInv, TypeInv',
           \/ FanDirMissing \/ FanReadDir \/ FanIndexPanic \/ FanOtherFile
           \/ FanDirDone
    PROVE  SlotsInv'
<1>1. pc \in {"FanCPU", "FanFile"} /\ pc' \in {"FanCPU", "FanFile", "Panic"}
  BY DEF FanDirMissing, FanReadDir, FanIndexPanic, FanOtherFile, FanDirDone,
     FanFieldRead
<1>2. UNCHANGED <<info, cur, gen, sub>>
  BY DEF FanDirMissing, FanReadDir, FanIndexPanic, FanOtherFile, FanDirDone
<1>3. GInfoEmpty' /\ ResultSized'
  BY <1>1 DEF GInfoEmpty, ResultSized
<1>4. GInfoSlots'
  BY <1>2 DEF SlotsInv, GInfoSlots
<1>5. GCurSlots'
  BY <1>1, <1>2 DEF SlotsInv, GCurSlots, Online, Sub
<1>. QED  BY <1>3, <1>4, <1>5 DEF SlotsInv

\* A field read from the files of cpuNum lands in the slot of cpuNum.
LEMMA FanReadSlotsInv ==
    ASSUME SlotsInv, TypeInv', FanReadInt \/ FanReadStr
    PROVE  SlotsInv'
<1>1. /\ pc = "FanFile" /\ fi <= Len(files)
      /\ CPUNum \in 0..(Len(cur) - 1)
      /\ FanEntry.name \in Fields(Sub)
      /\ \E v \in CPUVals(Sub, CPUNum, FanEntry.name) :
            cur' = [cur EXCEPT ![CPUNum + 1][FanEntry.name] = v]
  <2>1. Sub \in Subsystems
    BY TypeInvFacts DEF SlotsInv
  <2>2. CASE FanReadInt
    <3>1. /\ pc = "FanFile" /\ fi <= Len(files)
          /\ CPUNum \in 0..(Len(cur) - 1)
          /\ FanEntry.name \in IntFields[Sub]
      BY <2>2 DEF FanReadInt, FanFieldRead
    <3>2. PICK t \in IntTexts \cap Held(CPUNum) :
             cur' = [cur EXCEPT ![CPUNum + 1][FanEntry.name] = ParseInt(t).val]
      BY <2>2 DEF FanReadInt
    <3>3. ParseInt(t).val \in CPUVals(Sub, CPUNum, FanEntry.name)
      BY <3>1 DEF CPUVals
    <3>. QED  BY <3>1, <3>2, <3>3 DEF Fields
  <2>3. CASE FanReadStr
    <3>1. /\ pc = "FanFile" /\ fi <= Len(files)
          /\ CPUNum \in 0..(Len(cur) - 1)
          /\ FanEntry.name \in StrFields[Sub]
      BY <2>3 DEF FanReadStr, FanFieldRead
    <3>2. PICK t \in StrTexts \cap Held(CPUNum) :
             cur' = [cur EXCEPT ![CPUNum + 1][FanEntry.name] = t]
      BY <2>3 DEF FanReadStr
    <3>3. FanEntry.name \notin IntFields[Sub]
      BY <2>1, <3>1, FieldKindsDisjoint
    <3>4. t \in CPUVals(Sub, CPUNum, FanEntry.name)
      BY <3>2, <3>3 DEF CPUVals
    <3>. QED  BY <3>1, <3>2, <3>4 DEF Fields
  <2>. QED  BY <2>2, <2>3
<1>2. UNCHANGED <<info, gen, sub, pc>>
  BY DEF FanReadInt, FanReadStr
<1>3. CPUNum \in Int
  BY <1>1
<1>4. FromItsCPU(cur, Sub) /\ cur \in Slice(Sub) /\ Sub \in Subsystems
  BY <1>1, TypeInvFacts DEF SlotsInv, GCurSlots
<1>5. FromItsCPU(cur, Sub)'
  <2>1. PICK v \in CPUVals(Sub, CPUNum, FanEntry.name) :
           cur' = [cur EXCEPT ![CPUNum + 1][FanEntry.name] = v]
    BY <1>1
  <2>2. CPUNum + 1 \in 1..Len(cur)
    BY <1>1
  <2>3. FromItsCPU([cur EXCEPT ![CPUNum + 1][FanEntry.name] = v], Sub)
    BY <1>1, <1>3, <1>4, <2>2, SlotWrite
  <2>. QED  BY <1>2, <2>1, <2>3 DEF Sub
<1>6. GCurSlots'
  BY <1>1, <1>2, <1>5 DEF SlotsInv, GCurSlots, Online
<1>7. GInfoEmpty' /\ ResultSized' /\ GInfoSlots'
  BY <1>1, <1>2 DEF SlotsInv, GInfoEmpty, ResultSized, GInfoSlots, Online
<1>. QED  BY <1>6, <1>7 DEF SlotsInv

\* NewCPUInfo stores the fan-out's slice, on return or on error.
LEMMA StoreSlots ==
    ASSUME SlotsInv, pc \in {"FanCPU", "FanFile"},
           info' = [info EXCEPT ![Sub] = cur]
    PROVE  GInfoSlots'
<1>1. DOMAIN info = Subsystems /\ Sub \in Subsystems
  BY TypeInvFacts DEF SlotsInv, TypeInv, GInfo
<1>2. FromItsCPU(cur, Sub) /\ \A s \in Subsystems : FromItsCPU(info[s], s)
  BY DEF SlotsInv, GCurSlots, GInfoSlots
<1>3. \A s \in Subsystems : info'[s] = IF s = Sub THEN cur ELSE info[s]
  BY <1>1
<1>4. \A s \in Subsystems : FromItsCPU(info'[s], s)
  BY <1>2, <1>3
<1>. QED  BY <1>4 DEF GInfoSlots

LEMMA FanReadFailSlotsInv ==
    ASSUME SlotsInv, TypeInv', FanReadFail
    PROVE  SlotsInv'
<1>1. GInfoSlots'
  BY StoreSlots DEF FanReadFail
<1>2. GInfoEmpty' /\ GCurSlots' /\ ResultSized'
  BY DEF FanReadFail, GInfoEmpty, GCurSlots, ResultSized
<1>. QED  BY <1>1, <1>2 DEF SlotsInv

\* A fan-out returns: its slice of len(online) slots is stored, and the next
\* fan-out starts with zero records or NewCPUInfo returns all three.
LEMMA FanReturnSlotsInv ==
    ASSUME SlotsInv, TypeInv', FanReturn
    PROVE  SlotsInv'
<1>1. GInfoSlots'
  BY StoreSlots DEF FanReturn
<1>2. /\ DOMAIN info = Subsystems /\ sub \in 1..3 /\ Len(cur) = Len(Online)
      /\ \A i \in 1..(sub - 1) : Len(info[SubOrder[i]]) = Len(Online)
  BY DEF FanReturn, SlotsInv, TypeInv, GInfo, GSub, GFan, GCurSlots
<1>3. \A i \in 1..sub : Len(info'[SubOrder[i]]) = Len(Online')
  <2>1. \A i \in 1..sub :
           info'[SubOrder[i]] = IF i = sub THEN cur ELSE info[SubOrder[i]]
    BY <1>2 DEF FanReturn, Sub, SubOrder, Subsystems
  <2>. QED  BY <1>2, <2>1 DEF FanReturn, Online
<1>4. CASE sub < 3
  <2>1. FromItsCPU(cur, Sub)'
    <3>1. cur' = NewSlice(SubOrder[sub + 1]) /\ Sub' = SubOrder[sub + 1]
      BY <1>4 DEF FanReturn, Sub
    <3>2. SubOrder[sub + 1] \in Subsystems /\ Len(Online) \in Nat
      BY <1>2, <1>4 DEF SubOrder, Subsystems
    <3>. QED  BY <3>1, <3>2, ZeroFromItsCPU DEF NewSlice
  <2>2. GCurSlots'
    BY <1>2, <1>3, <1>4, <2>1 DEF FanReturn, GCurSlots
  <2>3. GInfoEmpty' /\ ResultSized'
    BY <1>4 DEF FanReturn, SlotsInv, GInfoEmpty, ResultSized
  <2>. QED  BY <1>1, <2>2, <2>3 DEF SlotsInv
<1>5. CASE ~(sub < 3)
  <2>1. sub = 3
    BY <1>2, <1>5
  <2>2. ResultSized'
    BY <1>3, <2>1 DEF ResultSized, Subsystems
  <2>3. GInfoEmpty' /\ GCurSlots'
    BY <1>5 DEF FanReturn, GInfoEmpty, GCurSlots
  <2>. QED  BY <1>1, <2>2, <2>3 DEF SlotsInv
<1>. QED  BY <1>4, <1>5

LEMMA NextSlotsInv == SlotsInv /\ [Next]_vars => SlotsInv'
<1>. SUFFICES ASSUME SlotsInv, [Next]_vars PROVE SlotsInv'
  OBVIOUS
<1>1. TypeInv'
  BY NextTypeInv DEF SlotsInv
<1>2. CASE Halted \/ UNCHANGED vars
  <2>1. UNCHANGED <<pc, gen, sub, cur, info, err>>
    BY <1>2 DEF Halted, vars, cvars
  <2>. QED  BY <1>1, <2>1 DEF SlotsInv, GInfoEmpty, GInfoSlots, GCurSlots,
                             ResultSized, Online, Sub
<1>. QED
  BY <1>1, <1>2, GenSlotsInv, GenReturnSlotsInv, FanFrameSlotsInv,
     FanReadSlotsInv, FanReadFailSlotsInv, FanReturnSlotsInv DEF Next

\* For every filesystem and every online list, every slot of the per-CPU
\* slices NewCPUInfo stores holds, in every field, the zero value or data
\* read from the files of the CPU whose number is the slot's index: what is
\* read for one CPU never lands in the slot of another (cpuFreqSlice[cpuNum]
\* and its siblings in parseCPUFreq, parseCPUTopology,
\* parseCPUThermalThrottle).
THEOREM SlotsHoldTheirCPUsDataHolds == Spec => []SlotsHoldTheirCPUsData
<1>1. Init => SlotsInv
  BY InitSlotsInv
<1>2. SlotsInv /\ [Next]_vars => SlotsInv'
  BY NextSlotsInv
<1>3. SlotsInv => SlotsHoldTheirCPUsData
  BY DEF SlotsInv, GInfoSlots, SlotsHoldTheirCPUsData
<1>. QED  BY <1>1, <1>2, <1>3, PTL DEF Spec

\* When NewCPUInfo returns a nil error, its three per-CPU slices each have
\* len(online) slots (make(..., len(online)) in the three fan-outs, stored
\* by FS.NewCPUInfo), for every filesystem.
THEOREM ResultSizedHolds == Spec => []ResultSized
<1>1. Init => SlotsInv
  BY InitSlotsInv
<1>2. SlotsInv /\ [Next]_vars => SlotsInv'
  BY NextSlotsInv
<1>3. SlotsInv => ResultSized
  BY DEF SlotsInv
<1>. QED  BY <1>1, <1>2, <1>3, PTL DEF Spec
=============================================================================
