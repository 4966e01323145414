--------------------------- MODULE ReportPlugins ---------------------------
(***************************************************************************)
(* The plugins of the monitor and of the manager that tell the server how  *)
(* the machine is, and tell it again when it has changed                   *)
(* (landscape/client/monitor, landscape/client/manager).  A plugin is      *)
(*                                                                         *)
(*   rule      what is compared, what is sent, and when it counts as told  *)
(*   triggers  what makes it look: the acceptance of its message type by   *)
(*             the server, a coming exchange, its own loop, a new session  *)
(*             id (run_immediately), the start of the process              *)
(*   absent    what it makes of a thing that is not there: a value that    *)
(*             says so ("told"), None ("none"), or nothing ("silent")      *)
(*   disk      whether what it has told is kept in the persist file        *)
(*   resets    whether a resynchronisation makes it forget what it told    *)
(***************************************************************************)

\* get_message compares with "data" and puts the new data there, then sends.
DataWatcher ==
    [rule |-> "data", triggers |-> {"exchange"}, absent |-> "told", disk |-> TRUE,
     resets |-> TRUE]

\* The files of APT, or None; each is cut to its share of the limit.
AptPreferences ==
    [DataWatcher EXCEPT !.triggers = @ \cup {"run"}, !.absent = "none"]

\* What cloud-init says, or the error it ends with.  Without run() the
\* interval means nothing.
CloudInit == [DataWatcher EXCEPT !.triggers = @ \cup {"accepted"}]

\* An error of snapd reads as no services.
SnapServicesMonitor == DataWatcher

\* Tags that are not valid are None.
ComputerTags == [DataWatcher EXCEPT !.absent = "none"]

\* The token of keystone, or None; it has a persist file of its own.
KeystoneToken == [DataWatcher EXCEPT !.absent = "none"]

NetworkDevice == [DataWatcher EXCEPT !.triggers = @ \cup {"accepted"}]

\* A file that is not there, or has another value, is "normal".
UpdateManager == [DataWatcher EXCEPT !.triggers = {"run", "session"}]

\* The flag and the packages are compared and sent one by one.
RebootRequired ==
    [rule |-> "items", triggers |-> {"run", "session"}, absent |-> "told", disk |-> TRUE,
     resets |-> TRUE]

\* So are name, memory, annotations and snaps; annotations that are gone
\* are not told.
ComputerInfo ==
    [rule |-> "items", triggers |-> {"accepted", "exchange"}, absent |-> "silent",
     disk |-> TRUE, resets |-> TRUE]

\* All processors are sent if one is new or has changed; only at the start
\* and when the server begins to accept the message.
ProcessorInfo ==
    [rule |-> "processors", triggers |-> {"accepted", "start"}, absent |-> "silent",
     disk |-> TRUE, resets |-> TRUE]

\* In memory only: a new process begins with kill-all-processes.
ActiveProcessInfo ==
    [rule |-> "processes", triggers |-> {"accepted", "exchange"}, absent |-> "none",
     disk |-> FALSE, resets |-> TRUE]

MountInfo ==
    [rule |-> "mounts", triggers |-> {"accepted", "exchange"}, absent |-> "silent",
     disk |-> TRUE, resets |-> TRUE]

UserMonitor ==
    [rule |-> "users", triggers |-> {"accepted", "run", "resync"}, absent |-> "none",
     disk |-> TRUE, resets |-> TRUE]

\* The manager's: the same rule, in memory.
DataWatcherManager ==
    [rule |-> "data", triggers |-> {"accepted", "run"}, absent |-> "told", disk |-> FALSE,
     resets |-> TRUE]

\* What canonical-livepatch says, without its times, or its error.
LivePatch == [DataWatcherManager EXCEPT !.triggers = @ \cup {"session"}]

\* What pro says, or an error in its form.
UbuntuProInfo == DataWatcherManager

UbuntuProRebootRequired == [DataWatcherManager EXCEPT !.triggers = @ \cup {"session"}]

\* lshw is run and sent without a comparison.
HardwareInfo ==
    [rule |-> "always", triggers |-> {"accepted", "run", "session"}, absent |-> "told",
     disk |-> FALSE, resets |-> TRUE]

\* The snaps of the machine; an empty list is kept in mind and not sent, and
\* there is no _reset.
SnapManager == [DataWatcherManager EXCEPT !.absent = "silent", !.resets = FALSE]

ReportPlugins ==
    {AptPreferences, CloudInit, SnapServicesMonitor, ComputerTags, KeystoneToken,
     NetworkDevice, UpdateManager, RebootRequired, ComputerInfo, ProcessorInfo, ActiveProcessInfo,
     MountInfo, UserMonitor, LivePatch, UbuntuProInfo, UbuntuProRebootRequired,
     HardwareInfo, SnapManager}
=============================================================================
