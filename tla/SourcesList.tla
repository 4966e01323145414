---------------------------- MODULE SourcesList ----------------------------
(***************************************************************************)
(* The lists of repositories of APT that the server replaces and puts back *)
(* (landscape/client/manager/aptsources.py).  sources.list is moved aside  *)
(* once; the files of sources.list.d are moved aside each time, and those  *)
(* of the server are written.  An empty list of sources puts everything    *)
(* back.  All of this is one step for the reactor, but the process may be  *)
(* killed, or the disk be full, between any two files.                     *)
(***************************************************************************)
EXTENDS Naturals, Sequences, FiniteSets

CONSTANTS
    Mine,           \* files of sources.list.d that the administrator made
    Theirs,         \* names of the files landscape-*.list
    MaxMessages,    \* bound: messages of the server
    MaxBreaks,      \* bound: times that a message is not finished
    MaxEdits        \* bound: times the administrator writes a file again

VARIABLES
    list, list_save,    \* sources.list and sources.list.save
    files, saves,       \* what is in sources.list.d, and in its .save files
    job,                \* the message that is being handled
    newest,             \* what the administrator last wrote, file by file
    clashed,            \* files written anew while an older one was beside them
    manage_sources_list_d,
    bounds

vars == <<list, list_save, files, saves, job, newest, clashed, manage_sources_list_d, bounds>>

Gone == 0
Original == 1
Managed == 2            \* the text that Landscape writes
Names == Mine \cup Theirs

Idle == [does |-> "nothing", at |-> "idle", todo |-> {}]

Init ==
    /\ list = Original /\ list_save = Gone
    /\ files = [f \in Names |-> IF f \in Mine THEN Original ELSE Gone]
    /\ saves = [f \in Names |-> Gone]
    /\ newest = [f \in Mine |-> Original] /\ clashed = {}
    /\ manage_sources_list_d \in BOOLEAN
    /\ job = Idle
    /\ bounds = [messages |-> 0, breaks |-> 0, edits |-> 0]

There(dir) == {f \in Names : dir[f] # Gone}
ToMove(dir) == IF manage_sources_list_d THEN There(dir) ELSE {}

-----------------------------------------------------------------------------
(* _handle_sources with sources                                            *)

Replace ==
    /\ job = Idle /\ bounds.messages < MaxMessages
    /\ bounds' = [bounds EXCEPT !.messages = @ + 1]
    /\ job' = [Idle EXCEPT !.does = "replace", !.at = "stat"]
    /\ UNCHANGED <<list, list_save, files, saves, newest, clashed,
                   manage_sources_list_d>>

\* Mutant: the saved list is overwritten each time
SaveAlways == TRUE

\* What is beside it is the original, and stays.
SaveOnce == list_save = Gone

\* os.stat raises if there is no sources.list.
MoveAway ==
    /\ job.at = "stat"
    /\ IF list = Gone THEN job' = Idle /\ UNCHANGED <<list, list_save>>
       ELSE /\ job' = [job EXCEPT !.at = "write"]
            /\ IF SaveOnce THEN list_save' = list /\ list' = Gone
               ELSE UNCHANGED <<list, list_save>>
    /\ UNCHANGED <<files, saves, newest, clashed,
                   manage_sources_list_d, bounds>>

WriteList ==
    /\ job.at = "write" /\ list' = Managed
    /\ job' = [job EXCEPT !.at = "aside", !.todo = ToMove(files)]
    /\ UNCHANGED <<list_save, files, saves, newest, clashed,
                   manage_sources_list_d, bounds>>

\* shutil.move(filename, filename.save), in the order of glob
MoveAside(f) ==
    /\ job.at = "aside" /\ f \in job.todo
    /\ saves' = [saves EXCEPT ![f] = files[f]] /\ files' = [files EXCEPT ![f] = Gone]
    /\ job' = [job EXCEPT !.todo = @ \ {f}]
    /\ UNCHANGED <<list, list_save, newest, clashed,
                   manage_sources_list_d, bounds>>

\* The files of the server, then the reporter
WriteFiles ==
    /\ job.at = "aside" /\ job.todo = {}
    /\ \E S \in SUBSET Theirs :
         S # {} /\ files' = [f \in Names |-> IF f \in S THEN Managed ELSE files[f]]
    /\ job' = Idle
    /\ UNCHANGED <<list, list_save, saves, newest, clashed,
                   manage_sources_list_d, bounds>>

-----------------------------------------------------------------------------
(* _handle_sources without sources                                         *)

Restore ==
    /\ job = Idle /\ bounds.messages < MaxMessages
    /\ bounds' = [bounds EXCEPT !.messages = @ + 1]
    /\ IF list_save = Gone THEN UNCHANGED <<list, list_save>>
       ELSE list' = list_save /\ list_save' = Gone
    /\ job' = [does |-> "restore", at |-> "back", todo |-> ToMove(saves)]
    /\ UNCHANGED <<files, saves, newest, clashed,
                   manage_sources_list_d>>

MoveBack(f) ==
    /\ job.at = "back" /\ f \in job.todo
    /\ files' = [files EXCEPT ![f] = saves[f]] /\ saves' = [saves EXCEPT ![f] = Gone]
    /\ job' = [job EXCEPT !.todo = @ \ {f}]
    /\ UNCHANGED <<list, list_save, newest, clashed,
                   manage_sources_list_d, bounds>>

\* glob of landscape-*.list, after the .save files are back
Landscapes == {f \in Theirs : files[f] # Gone}

RemoveTheirs ==
    /\ job.at = "back" /\ job.todo = {}
    /\ files' = [f \in Names |-> IF f \in Landscapes THEN Gone ELSE files[f]]
    /\ job' = Idle
    /\ UNCHANGED <<list, list_save, saves, newest, clashed,
                   manage_sources_list_d, bounds>>

-----------------------------------------------------------------------------
Break ==
    /\ job # Idle /\ bounds.breaks < MaxBreaks
    /\ bounds' = [bounds EXCEPT !.breaks = @ + 1] /\ job' = Idle
    /\ UNCHANGED <<list, list_save, files, saves, newest, clashed,
                   manage_sources_list_d>>

\* The administrator writes a file of that name anew.
Edit(f) ==
    /\ job = Idle /\ bounds.edits < MaxEdits
    /\ bounds' = [bounds EXCEPT !.edits = @ + 1]
    /\ newest' = [newest EXCEPT ![f] = Managed + bounds.edits + 1]
    /\ files' = [files EXCEPT ![f] = newest'[f]]
    /\ clashed' = IF saves[f] = Gone THEN clashed ELSE clashed \cup {f}
    /\ UNCHANGED <<list, list_save, saves, job, manage_sources_list_d>>

Next ==
    \/ Replace \/ MoveAway \/ WriteList \/ WriteFiles
    \/ Restore \/ RemoveTheirs \/ Break
    \/ \E f \in Names : MoveAside(f) \/ MoveBack(f)
    \/ \E f \in Mine : Edit(f)

Spec == Init /\ [][Next]_vars

-----------------------------------------------------------------------------
(***************************************************************************)
(* Nothing of the administrator is lost, wherever a message breaks off and *)
(* whatever comes after: the original sources.list is in its place or      *)
(* beside it, and the newest version of each file of sources.list.d is one *)
(* of the two.  Of a file that was written anew while an older one was     *)
(* beside it, one of the two versions is left.                             *)
(***************************************************************************)
NothingLost ==
    /\ Original \in {list, list_save}
    /\ \A f \in Mine : 
         /\ {files[f], saves[f]} # {Gone}
         /\ newest[f] \in {files[f], saves[f]} \/ f \in clashed

(***************************************************************************)
(* Nothing is lost; and a message without sources that is carried out to   *)
(* its end leaves the machine as it was before Landscape, also after       *)
(* messages that broke off.                                                *)
(***************************************************************************)
ListsKept ==
    [][/\ NothingLost'
       /\ RemoveTheirs => /\ list' = Original /\ list_save' = Gone
                          /\ There(saves') = {} /\ There(files') = Mine]_vars
=============================================================================
