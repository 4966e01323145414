---------------------------- MODULE CustomGraph ----------------------------
(***************************************************************************)
(* Scripts that give a value now and then for a graph at the server        *)
(* (landscape/client/manager/customgraph.py).  The store has the graphs,   *)
(* the disk has one script for each, `data' is what goes into the next     *)
(* message.  A run asks the broker first, with the graphs as they were,    *)
(* and then starts all scripts; graphs are added, replaced and removed in  *)
(* between.  A value is not sent as it is: the accumulator, whose state is *)
(* in the store as well, makes one data point of the values of a step of   *)
(* 300 seconds.                                                            *)
(***************************************************************************)
EXTENDS Naturals, FiniteSets, Sequences

CONSTANTS
    Graph,          \* the ids of graphs
    MaxVersions,    \* bound: scripts the server sends
    MaxRuns,        \* bound: runs
    MaxRestarts     \* bound: restarts of the manager

VARIABLES
    store,          \* graphs in the table graph
    accumulated,    \* the table graph_accumulate: the step of the last value
                    \* and the scripts whose values are in the sum
    file,           \* which script is in the file of a graph; 0 for no file
    data,           \* CustomGraphPlugin._data: the script-hash and data points
    do_send,
    asked,          \* the graphs of runs for which the broker was asked
    running,        \* the scripts that are running
    clock,          \* the step that the last run was in
    server,         \* the data points the server has got, by graph and hash
    crossed,        \* graphs with an entry that a script or a list of graphs
                    \* from before a change gets into
    bounds

vars == <<store, accumulated, file, data, do_send, asked, running, clock, server, crossed,
          bounds>>

NoFile == 0
Keys == DOMAIN data
Drop(g) == [k \in Keys \ {g} |-> data[k]]
Entry(hash) == [hash |-> hash, values |-> {}]

\* The accumulator has nothing: a time of 0, which is steps ago.
Init ==
    /\ store = {} /\ file = [g \in Graph |-> NoFile]
    /\ accumulated = [g \in Graph |-> [step |-> 0, made_by |-> {}]] /\ clock = 2
    /\ data = [g \in {} |-> Entry(NoFile)]
    /\ do_send = TRUE /\ asked = <<>> /\ running = {} /\ server = {} /\ crossed = {}
    /\ bounds = [versions |-> 0, runs |-> 0, restarts |-> 0]

\* Entries that a script with another hash is going to put its value into
Mixes(entries) ==
    {g \in DOMAIN entries :
       \E r \in running : r.graph = g /\ entries[g].hash \notin {r.hash, NoFile}}

\* Mutant: the values of the script before stay
KeepsData(g) == data

\* What was found out with another script is dropped, but for what the
\* accumulator has.
Forget(g) == Drop(g)

\* _handle_custom_graph_add: of an unknown user the graph is stored, the
\* file is gone, and the data stays.
Add(g) ==
    /\ bounds.versions < MaxVersions
    /\ bounds' = [bounds EXCEPT !.versions = @ + 1]
    /\ \/ file' = [file EXCEPT ![g] = bounds.versions + 1] /\ data' = Forget(g)
       \/ file' = [file EXCEPT ![g] = NoFile] /\ UNCHANGED data
    /\ store' = store \cup {g}
    /\ UNCHANGED <<accumulated, do_send, asked, running, clock, server, crossed>>

\* open or write_script_file raises: the script before is gone, and the one
\* that is there may be the new one, beside the data of the one before.
AddFails(g) ==
    /\ bounds.versions < MaxVersions
    /\ bounds' = [bounds EXCEPT !.versions = @ + 1]
    /\ \/ file' = [file EXCEPT ![g] = NoFile] /\ UNCHANGED crossed
       \/ /\ file' = [file EXCEPT ![g] = bounds.versions + 1]
          /\ crossed' = crossed \cup ({g} \cap Keys)
    /\ UNCHANGED <<store, accumulated, data, do_send, asked, running, clock, server>>

\* _handle_custom_graph_remove: of a graph that is not stored the data is
\* dropped all the same; os.unlink raises if there is no file, and then the
\* graph stays.
Remove(g) ==
    /\ g \in store => file[g] # NoFile
    /\ file' = IF g \in store THEN [file EXCEPT ![g] = NoFile] ELSE file
    /\ store' = store \ {g} /\ data' = Drop(g)
    /\ UNCHANGED <<accumulated, do_send, asked, running, clock, server, crossed, bounds>>

\* run: no call without graphs
Run ==
    /\ bounds.runs < MaxRuns /\ bounds' = [bounds EXCEPT !.runs = @ + 1]
    /\ do_send' = TRUE
    /\ asked' = IF store = {} THEN asked ELSE Append(asked, store)
    /\ UNCHANGED <<store, accumulated, file, data, running, clock, server, crossed>>

\* _continue_run: a script whose file is not there is not run, and its hash
\* is that of nothing.  A user who is unknown or not allowed has an error.
\* A graph that was removed since is put back.  The time of the values is in
\* the step of the run before, the next one or a later one.
ContinueRun ==
    /\ asked # <<>> /\ asked' = Tail(asked)
    /\ clock' \in {clock, clock + 1, clock + 2}
    /\ data' = [g \in Keys \cup Head(asked) |->
                  IF g \notin Head(asked) THEN data[g]
                  ELSE IF g \in Keys THEN [data[g] EXCEPT !.hash = file[g]]
                  ELSE Entry(file[g])]
    /\ \E Allowed \in SUBSET Head(asked) :
         running' = running \cup {[graph |-> g, hash |-> file[g], step |-> clock'] :
                                    g \in {h \in Allowed : file[h] # NoFile}}
    /\ crossed' = crossed \cup Mixes(data') \cup (Head(asked) \ store)
    /\ UNCHANGED <<store, accumulated, file, do_send, server, bounds>>

\* The first value of the next step completes a data point with what was
\* added up before, whichever script that came from.  Values that are later
\* than that, or older, begin a new sum.  (A value that lasted for no time
\* counts as one that is in the sum.)
accumulate(r) ==
    LET before == accumulated[r.graph]
    IN /\ accumulated' = [accumulated EXCEPT ![r.graph] =
            [step |-> r.step,
             made_by |-> IF r.step = before.step THEN before.made_by \cup {r.hash} ELSE {r.hash}]]
       /\ IF r.step = before.step + 1
          THEN data' = [data EXCEPT ![r.graph].values =
                          @ \cup {[made_by |-> r.hash, with |-> before.made_by, at |-> r.step]}]
          ELSE UNCHANGED data

\* _handle_data, _handle_error: a value, or an error; nothing for a graph
\* that is not there any more
ScriptEnds(r) ==
    /\ r \in running /\ running' = running \ {r}
    /\ \/ UNCHANGED <<data, accumulated>>
       \/ r.graph \in Keys /\ accumulate(r)
    /\ UNCHANGED <<store, file, do_send, asked, clock, server, crossed, bounds>>

\* send_message, at an exchange: once for each run.  The broker may not let
\* the message in, and then its data points are lost.
Send ==
    LET all == [g \in Keys \cup {h \in store : file[h] # NoFile} |->
                  IF g \in Keys THEN data[g] ELSE Entry(file[g])]
    IN /\ do_send /\ do_send' = FALSE
       /\ \/ server' = server \cup
                  UNION {{[graph |-> g, hash |-> all[g].hash, point |-> v] : v \in all[g].values} :
                           g \in DOMAIN all}
          \/ UNCHANGED server
       /\ data' = [g \in DOMAIN all |-> Entry(all[g].hash)]
       /\ crossed' = crossed \cup Mixes(data')
       /\ UNCHANGED <<store, accumulated, file, asked, running, clock, bounds>>

\* The manager starts again, with what is in the store and on the disk.
Restart ==
    /\ bounds.restarts < MaxRestarts /\ bounds' = [bounds EXCEPT !.restarts = @ + 1]
    /\ data' = [g \in {} |-> Entry(NoFile)]
    /\ do_send' = TRUE /\ asked' = <<>> /\ running' = {}
    /\ UNCHANGED <<store, accumulated, file, clock, server, crossed>>

Next ==
    \/ \E g \in Graph : Add(g) \/ AddFails(g) \/ Remove(g)
    \/ Run \/ ContinueRun \/ Send \/ Restart
    \/ \E r \in running : ScriptEnds(r)

Spec == Init /\ [][Next]_vars

-----------------------------------------------------------------------------
\* A data point with values of another script than the one that completed it
Mixed(point) == point.with \ {point.made_by} # {}

(***************************************************************************)
(* A data point is sent with the hash of the script that completed it, or  *)
(* of none.  The accumulator still has values of the script before when a  *)
(* graph is replaced, or removed and added again, and add_graph and        *)
(* remove_graph leave them there: they get into one data point of the new  *)
(* script and into no other.  And nothing of a graph that is removed stays *)
(* in the data.  None of this holds of a graph once its entry is put back, *)
(* by a run or a message, while a script from before a change is still     *)
(* running or from a list of graphs from before its removal, or once       *)
(* writing its new script failed beside the data of the old one.           *)
(***************************************************************************)
ValuesAreOfTheirScript ==
    /\ \A v \in server : v.graph \notin crossed => v.hash \in {v.point.made_by, NoFile}
    /\ \A v, w \in server :
         /\ v.graph = w.graph /\ v.graph \notin crossed
         /\ v.point.made_by = w.point.made_by /\ Mixed(v.point) /\ Mixed(w.point)
         => v.point = w.point
    /\ \A g \in Keys : g \in store \/ g \in crossed
=============================================================================
