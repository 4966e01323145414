---------------------------- MODULE MCWatchdog ----------------------------
EXTENDS Watchdog

Only == <<"broker">>
Two == <<"broker", "monitor">>

Usual == [order |-> Two, maxRetries |-> 0, lingers |-> FALSE, vanishes |-> FALSE]
Alone == [Usual EXCEPT !.order = Only]

\* Two daemons; or only the broker, with calls that are tried again, pipes that
\* outlive their process or an executable that is missing for a while.
Various == {Usual, [Alone EXCEPT !.maxRetries = 1],
            [Alone EXCEPT !.lingers = TRUE], [Alone EXCEPT !.vanishes = TRUE]}
=============================================================================
