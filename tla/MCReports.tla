----------------------------- MODULE MCReports -----------------------------
(***************************************************************************)
(* Plugins of every rule, with two items of which one is there at first.   *)
(***************************************************************************)
EXTENDS Reports

CONSTANTS a, b, one

\* The other plugins differ from one of these by a trigger.
DifferentPlugins ==
    {AptPreferences, ComputerInfo, ProcessorInfo,
     ActiveProcessInfo, MountInfo, UserMonitor, LivePatch, HardwareInfo, SnapManager}

OneOfTwo == {[i \in Items |-> IF i = a THEN one ELSE Absent]}
=============================================================================
