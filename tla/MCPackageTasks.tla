--------------------------- MODULE MCPackageTasks ---------------------------
(***************************************************************************)
(* What may happen around a few tasks: everything at once would be too     *)
(* much for one run, so each setting joins the causes that meet.           *)
(***************************************************************************)
EXTENDS PackageTasks

Quiet == [sent |-> {}, ids |-> 0, resyncs |-> 0, breaks |-> 0, downs |-> 0, fair |-> FALSE]

Various ==
  { \* two changes, and a changer that breaks and loses the broker
    [Quiet EXCEPT !.sent = {"change 1", "change 2"}, !.breaks = 1, !.downs = 1],
    \* a resynchronisation between two changes
    [Quiet EXCEPT !.sent = {"change 1", "change 2"}, !.resyncs = 1],
    \* a resynchronisation around an upgrade
    [Quiet EXCEPT !.sent = {"upgrade"}, !.resyncs = 1, !.breaks = 1],
    \* the tasks end: those of all queues, with a resynchronisation, with breaks
    [Quiet EXCEPT !.sent = {"change 1"}, !.ids = 1, !.breaks = 1, !.fair = TRUE],
    [Quiet EXCEPT !.sent = {"change 1"}, !.resyncs = 1, !.fair = TRUE],
    [Quiet EXCEPT !.sent = {"upgrade"}, !.breaks = 1, !.downs = 1, !.fair = TRUE] }
=============================================================================
