----------------------------- MODULE MC_CPUInfo -----------------------------
(***************************************************************************)
(* A small sysfs for NewCPUInfo: two listings of devices/system/cpu, up to *)
(* two listings per subsystem directory, online lists "0-1", "1-2", "x-0" *)
(* (a malformed first part, parsed as 0) and "0" (a single CPU).          *)
(***************************************************************************)
EXTENDS CPUInfo

File(n) == [name |-> n, isDir |-> FALSE, readable |-> TRUE]
Locked(n) == [name |-> n, isDir |-> FALSE, readable |-> FALSE]
Dir(n) == [name |-> n, isDir |-> TRUE, readable |-> TRUE]

\* Listings in the order ioutil.ReadDir sorts them; OtherFile stands for
\* "cpu0" or "uevent" in devices/system/cpu, for "affected_cpus" or the
\* "stats" directory in cpufreq.
MCListings(d) ==
    CASE d = "cpu" ->
            { << Dir(OtherFile), File(OtherFile), File("kernel_max"),
                 File("online") >>,
              << File("kernel_max"), File("offline"), File("online"),
                 Locked(OtherFile) >> }
      [] d = "cpufreq" ->
            { << File("cpuinfo_cur_freq"), File("scaling_driver") >>,
              << File(OtherFile), Dir(OtherFile) >> }
      [] d = "topology" ->
            { << File("core_id"), File("core_siblings_list") >> }
      [] d = "thermal_throttle" ->
            { << File("core_throttle_count") >>,
              << Locked("package_throttle_count") >> }

MCRangeInputs == { <<<<0, 1>>>>, <<<<1, 2>>>>, <<<<NaN, 0>>>>, <<<<0>>>> }
CONSTANTS Text0, Text1, Text2  \* the core_siblings_list of cpu0, cpu1, cpu2
MCStrTexts == {Text0, Text1, Text2}
MCIntTexts == {4, 5, 6, NaN}
\* The files of cpu<N> hold 4 + N, a text ParseInt rejects, or the string
\* TextN: what is read for one CPU differs from what is read for another.
MCHeld(n) == {NaN, 4 + n} \cup {t \in MCStrTexts : t = <<Text0, Text1, Text2>>[n + 1]}
=============================================================================
