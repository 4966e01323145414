-------------------------- MODULE MCPackageReports --------------------------
(***************************************************************************)
(* Two packages, the second of which the server does not know at first.    *)
(* Each setting joins the causes that meet.                                *)
(***************************************************************************)
EXTENDS PackageReports

Simple == [canned |-> {}, changes |-> 1, resyncs |-> 0, faults |-> 0, old |-> 0, repeats |-> 0,
           machine |-> [installed |-> Hash, security |-> {1}]]

Various ==
  { \* a resynchronisation around a change
    [Simple EXCEPT !.resyncs = 1],
    \* a run that breaks, and a request that gets too old
    [Simple EXCEPT !.faults = 1, !.old = 1],
    \* a database that holds one of the packages, and a run that breaks
    [Simple EXCEPT !.faults = 1, !.canned = {2}],
    \* an answer that comes a second time
    [Simple EXCEPT !.repeats = 1] }
=============================================================================
