------------------------------- MODULE Persist -------------------------------
(***************************************************************************)
(* The file of a Persist (landscape/lib/persist.py), in which the broker,  *)
(* the monitor and the manager keep what they must find again.             *)
(*                                                                         *)
(* save() renames the file to <file>.old and writes a new one in its       *)
(* place, and load() falls back to <file>.old.  The process may be killed  *)
(* anywhere in a save, and the write may fail or stop half way, as on a    *)
(* full disk: the process then goes on with what it has in memory and      *)
(* saves again later.  The tree of values that is saved is one number, the *)
(* one of the last change to it.                                           *)
(***************************************************************************)
EXTENDS Naturals

CONSTANTS
    MaxChanges,     \* bound: changes of the data
    MaxTorn         \* bound: saves that do not come to their end

VARIABLES
    file, old,      \* <file> and <file>.old
    memory,         \* _hardmap
    phase,          \* of the process: idle, in a save, down, or refused to start
    last,           \* history: what the last complete save wrote
    torn            \* history: saves begun since then that did not end

persist_vars == <<file, old, memory, phase, last, torn>>

NOTHING == 0        \* backend.new()

\* what a path can lead to
Missing == [kind |-> "missing", data |-> NOTHING]
Empty == [kind |-> "empty", data |-> NOTHING]
Broken == [kind |-> "broken", data |-> NOTHING]
Whole(data) == [kind |-> "whole", data |-> data]

-----------------------------------------------------------------------------
(* Loading *)

Loaded(data) == [ok |-> TRUE, data |-> data]
PersistError == [ok |-> FALSE, data |-> NOTHING]

\* load_old, where it returns True or raises
LoadOld == IF old.kind = "whole" THEN Loaded(old.data) ELSE PersistError

\* load, as the constructor calls it: for a file that exists
Load ==
    CASE file.kind = "missing" -> Loaded(NOTHING)
      [] file.kind = "empty" ->
           IF old.kind \in {"missing", "empty"} THEN Loaded(NOTHING) ELSE LoadOld
      [] file.kind = "broken" -> LoadOld
      [] file.kind = "whole" -> Loaded(file.data)

-----------------------------------------------------------------------------
(* The process *)

Init ==
    /\ file = Missing /\ old = Missing
    /\ memory = NOTHING /\ phase = "idle" /\ last = NOTHING /\ torn = 0

\* set, add, remove, move
Set ==
    /\ phase = "idle" /\ memory < MaxChanges
    /\ memory' = memory + 1
    /\ UNCHANGED <<file, old, phase, last, torn>>

\* Mutant: the file is overwritten
RenameNothing ==
    /\ phase = "idle"
    /\ phase' = "renamed" /\ torn' = torn + 1
    /\ UNCHANGED <<file, old, memory, last>>

\* save, to the rename
Rename ==
    /\ phase = "idle"
    /\ phase' = "renamed" /\ torn' = torn + 1
    /\ IF file = Missing THEN UNCHANGED <<file, old>>
                         ELSE old' = file /\ file' = Missing
    /\ UNCHANGED <<memory, last>>

\* BPickleBackend.save opens the file, which makes it empty, ...
Open ==
    /\ phase = "renamed" /\ phase' = "opened"
    /\ file' = Empty
    /\ UNCHANGED <<old, memory, last, torn>>

\* ... writes it ...
WriteAll ==
    /\ phase = "opened" /\ phase' = "idle"
    /\ file' = Whole(memory) /\ last' = memory /\ torn' = 0
    /\ UNCHANGED <<old, memory>>

\* ... or a part of it.
WritePart ==
    /\ phase = "opened" /\ phase' = "part"
    /\ file' = Broken
    /\ UNCHANGED <<old, memory, last, torn>>

\* open or write raises, and the caller's event or timer logs it
SaveRaises ==
    /\ phase \in {"renamed", "opened", "part"} /\ phase' = "idle"
    /\ torn < MaxTorn
    /\ UNCHANGED <<file, old, memory, last, torn>>

Kill ==
    /\ phase \notin {"down", "refused"} /\ phase' = "down"
    /\ torn < MaxTorn \/ phase = "idle"
    /\ UNCHANGED <<file, old, memory, last, torn>>

\* Persist(filename=...)
Start ==
    /\ phase = "down"
    /\ phase' = IF Load.ok THEN "idle" ELSE "refused"
    /\ memory' = Load.data
    /\ UNCHANGED <<file, old, last, torn>>

Next == Set \/ Rename \/ Open \/ WriteAll \/ WritePart \/ SaveRaises \/ Kill \/ Start
-----------------------------------------------------------------------------
(***************************************************************************)
(* One save that is cut short costs nothing but itself: what the save      *)
(* before it wrote is in one of the two files at every moment, and the     *)
(* program can start and finds it.  Two things are excepted, and both are  *)
(* losses of the code as it is: a save cut short between the rename and    *)
(* the open, after which the constructor sees no file and does not look    *)
(* for the old one; and the very first save.                               *)
(***************************************************************************)
SavedIsFound ==
    torn <= 1 /\ last # NOTHING =>
      /\ Whole(last) \in {file, old}
      /\ file # Missing => Load = Loaded(last)
=============================================================================
