------------------------- MODULE MCExchangeSchedule -------------------------
(***************************************************************************)
(* A server that may answer anything, at intervals that are just too short *)
(* and just long enough; and one that is fair, at one interval.            *)
(***************************************************************************)
EXTENDS ExchangeSchedule

Unkind == [intervals |-> {9, 10}, maxReply |-> 2, raises |-> {"404", "overloaded"},
        fair |-> FALSE]
Fair == [intervals |-> {60}, maxReply |-> 1, raises |-> {}, fair |-> TRUE]
Both == {Unkind, Fair}

\* The transport as it is: no error gets through.
Quiet == {[Unkind EXCEPT !.maxReply = 1, !.raises = {}]}
=============================================================================
