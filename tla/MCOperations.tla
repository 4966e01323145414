---------------------------- MODULE MCOperations ----------------------------
(***************************************************************************)
(* The work that the server asks for, one part of it at a time: operations *)
(* of the manager and their answers, scripts, the recovery key, the lists  *)
(* of repositories, custom graphs, and a task of the package changer.  The *)
(* other parts stay as they are.                                           *)
(*                                                                         *)
(* The task of the changer is about two packages, with an upgrade for one  *)
(* and the other perhaps not installed, beside a package of another        *)
(* architecture.                                                           *)
(***************************************************************************)
EXTENDS Operations, FiniteSets

CONSTANTS
    Script, Limited, Attached,                      \* Scripts
    Request, MaxCrashes,                            \* RecoveryKey
    Mine, Theirs, MaxMessages, MaxBreaks, MaxEdits, \* SourcesList
    Graph, MaxVersions, MaxRuns, MaxRestarts,       \* CustomGraph
    Package, Version, PackageOf, None, Available, Foreign, Requests, Machines, Begins,
    MaxTries, MaxEnds, MaxHolds                     \* PackageChanges

\* The files of the server have names of their own.
ASSUME ListsAssumption == Mine \cap Theirs = {}

\* What is installed of a package is a version of it, or nothing.
ASSUME PackagesAssumption ==
    /\ PackageOf \in [Version -> Package] /\ None \notin Version
    /\ \A t \in Machines \cup Begins : \A p \in Package :
         t[p] = None \/ (t[p] \in Version /\ PackageOf[t[p]] = p)

VARIABLES
    part,
    script, process, pipes, timer, umask, spawned, script_received, overlapped, swept,
    script_faults,
    request, change, slot, exchange_state, queue, key_server, overtaken, untold,
    crashes,
    list, list_save, files, saves, job, newest, clashed, manage_sources_list_d, bounds,
    store, accumulated, file, data, do_send, asked, running, clock, graph_server, crossed,
    graph_bounds,
    message, old, known, installed, held, cache, marks, changer, plan, changed, spoilt,
    changer_bounds

S == INSTANCE Scripts WITH received <- script_received, faults <- script_faults
K == INSTANCE RecoveryKey WITH server <- key_server
L == INSTANCE SourcesList
G == INSTANCE CustomGraph WITH server <- graph_server, bounds <- graph_bounds

-----------------------------------------------------------------------------
P == INSTANCE PackageChanges WITH
       MaxBreaks <- MaxEnds, request <- message, bounds <- changer_bounds

-----------------------------------------------------------------------------
(* The packages of the model                                               *)

TheNone == "none"
TheVersions == {"a1", "a2", "b1", "f1"}
ThePackageOf == [a1 |-> "a", a2 |-> "a", b1 |-> "b", f1 |-> "f"]
TheMachines == [a : {"a1", "a2", TheNone}, b : {"b1", TheNone}, f : {"f1", TheNone}]
OneOrBoth == {[a |-> "a1", b |-> b, f |-> "f1"] : b \in {"b1", TheNone}}

Nothing == [install |-> {}, remove |-> {}, hold |-> {}, remove_hold |-> {},
            upgrade_all |-> FALSE, policy |-> "strict"]

Several ==
  {[Nothing EXCEPT !.install = {"b1"}, !.policy = p] : p \in {"strict", "installs"}}
  \cup
  {[Nothing EXCEPT !.upgrade_all = TRUE, !.policy = "installs"],
   [Nothing EXCEPT !.install = {"a2"}, !.remove = {"a1"}, !.policy = "installs"],
   [Nothing EXCEPT !.install = {"a1", "b1"}, !.policy = "all"],
   [Nothing EXCEPT !.hold = {"a1"}],
   [Nothing EXCEPT !.remove = {"a1"}, !.hold = {"b1"}],
   [Nothing EXCEPT !.install = {"b1"}, !.remove_hold = {"a1"}, !.policy = "installs"]}

-----------------------------------------------------------------------------
script_vars == <<script, process, pipes, timer, umask, spawned, script_received, overlapped,
                 swept, script_faults>>
key_vars == <<request, change, slot, exchange_state, queue, key_server, overtaken, untold,
              crashes>>
list_vars == <<list, list_save, files, saves, job, newest, clashed, manage_sources_list_d,
               bounds>>
graph_vars == <<store, accumulated, file, data, do_send, asked, running, clock, graph_server,
                crossed, graph_bounds>>
change_vars == <<message, old, known, installed, held, cache, marks, changer, plan, changed,
                 spoilt, changer_bounds>>
all_vars == <<part, vars, script_vars, key_vars, list_vars, graph_vars, change_vars>>

Parts == {"operations", "scripts", "key", "lists", "graphs", "changes"}

\* Every kind beside a new user, so that user operations meet as well
EveryKind == {[o \in Operation |-> IF o = "o1" THEN k ELSE UserManager(add_user)] :
                k \in OtherKinds \cup UserManagers}

PartsInit ==
    /\ part \in Parts
    /\ Init /\ S!Init /\ K!Init /\ L!Init /\ G!Init /\ P!Init
    /\ part # "operations" => kind = CHOOSE k \in EveryKind : TRUE
    /\ part # "lists" => manage_sources_list_d
    /\ part # "changes" => /\ message = CHOOSE r \in Requests : TRUE
                           /\ installed = CHOOSE i \in Begins : TRUE
                           /\ held = {} /\ known = Version

PartsNext ==
    \/ /\ part = "operations" /\ Next
       /\ UNCHANGED <<part, script_vars, key_vars, list_vars, graph_vars, change_vars>>
    \/ /\ part = "scripts" /\ S!Next
       /\ UNCHANGED <<part, vars, key_vars, list_vars, graph_vars, change_vars>>
    \/ /\ part = "key" /\ K!Next
       /\ UNCHANGED <<part, vars, script_vars, list_vars, graph_vars, change_vars>>
    \/ /\ part = "lists" /\ L!Next
       /\ UNCHANGED <<part, vars, script_vars, key_vars, graph_vars, change_vars>>
    \/ /\ part = "graphs" /\ G!Next
       /\ UNCHANGED <<part, vars, script_vars, key_vars, list_vars, change_vars>>
    \/ /\ part = "changes" /\ P!Next
       /\ UNCHANGED <<part, vars, script_vars, key_vars, list_vars, graph_vars>>

\* The fairness of Operations, Scripts and PackageChanges, each where it has its part
PartsSpec ==
    /\ PartsInit /\ [][PartsNext]_all_vars
    /\ \A o \in Operation : WF_vars(part = "operations" /\ Progress(o))
    /\ \A s \in Script :
         /\ WF_script_vars(part = "scripts" /\ S!RunScript(s))
         /\ WF_script_vars(part = "scripts" /\ S!Fetched(s))
         /\ WF_script_vars(part = "scripts" /\ S!Reap(s))
         /\ WF_script_vars(part = "scripts" /\ S!_cancel(s))
         /\ WF_script_vars(part = "scripts" /\ S!ProcessEnded(s))
         /\ WF_script_vars(part = "scripts" /\ S!Answered(s))
    /\ WF_change_vars(part = "changes" /\ P!Step)
    /\ WF_change_vars(part = "changes" /\ P!GetOld)

-----------------------------------------------------------------------------
(* Every operation ends with its answer (Operations).                      *)
OperationsAnswered == part = "operations" => AllAnswered

(* The umask of scripts and of the manager, and the answer to a script,    *)
(* which is how its process ended (Scripts).                               *)
ScriptsRight == S!UmaskKept /\ S!HowItEnded

(* A script with a time limit ends and is answered (Scripts).              *)
ScriptsEnd == S!ScriptsEnd

(* The key that the server has opens the disk (RecoveryKey).               *)
KeyOpens == K!KeyOpens

(* No list of the administrator is lost, and the machine gets its own      *)
(* lists back (SourcesList).                                               *)
ListsKept == L!ListsKept

(* A value is of the script whose hash it is sent with (CustomGraph).      *)
ValuesAreOfTheirScript == G!ValuesAreOfTheirScript

(* Nothing is changed that the policy does not allow (PackageChanges).     *)
NothingUnasked == P!NothingUnasked

(* The answer to a change of packages tells what was done                  *)
(* (PackageChanges).                                                       *)
AnswerTrue == P!AnswerTrue

(* Every change of packages is answered (PackageChanges).                  *)
ChangeAnswered == part = "changes" => P!ChangeAnswered
=============================================================================
