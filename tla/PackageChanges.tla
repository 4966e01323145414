--------------------------- MODULE PackageChanges ---------------------------
(***************************************************************************)
(* One change-packages task of the package changer, from its marks to its  *)
(* answer (landscape/client/package/changer.py), with the facade that      *)
(* stands between it and APT (landscape/lib/apt/package/facade.py).        *)
(*                                                                         *)
(* What APT resolves is not in this repository: it may plan anything that  *)
(* has the versions it was told to install and none of the packages it was *)
(* told to remove.  The facade works on what it loaded when the run began, *)
(* while somebody else may put packages on hold.  A changer that is killed *)
(* finds its task again.                                                   *)
(***************************************************************************)
EXTENDS Naturals, FiniteSets

CONSTANTS
    Package, Version,
    PackageOf,      \* a function from Version to Package
    None,           \* no version is installed
    Available,      \* versions that are in a repository
    Foreign,        \* packages of another architecture than the main one
    Requests,       \* messages, see Asked
    Machines,       \* what may be installed: a version or None, for each package
    Begins,         \* what may be installed at first
    MaxTries,       \* max_dpkg_retries + 1
    MaxBreaks,      \* bound: times the changer is killed, or raises
    MaxHolds        \* bound: holds that somebody sets or removes

VARIABLES
    request,        \* the message
    old,            \* its task is older than UNKNOWN_PACKAGE_DATA_TIMEOUT
    known,          \* versions whose ids and hashes are in the package store
    installed, held,    \* the machine
    cache,          \* what the facade has loaded
    marks,          \* _version_installs, _version_removals, _version_hold_...
    changer,        \* the changer
    plan,           \* what APT is going to do
    changed,        \* what this task has changed
    spoilt,         \* dpkg broke, the changer was killed or raised, somebody meddled
    bounds

vars == <<request, old, known, installed, held, cache, marks, changer, plan, changed, spoilt,
          bounds>>

SUCCESS_RESULT == "SUCCESS"
ERROR_RESULT == "ERROR"
DEPENDENCY_ERROR_RESULT == "DEPENDENCY"
NoResult == "none"

Packages(versions) == {PackageOf[v] : v \in versions}
Here == {p \in Package : installed[p] # None}
NoMarks == [installs |-> {}, removals |-> {}, holds |-> {}, unholds |-> {}]
Waiting == [at |-> "waiting", count |-> 0, tries |-> 0, code |-> NoResult, must |-> {}]

\* Every version that the message names
Asked == request.install \cup request.remove \cup request.hold \cup request.remove_hold

Init ==
    /\ request \in Requests /\ old = FALSE /\ known \in {Version, Version \ Available}
    /\ installed \in Begins /\ held \in SUBSET {p \in Package \ Foreign : installed[p] # None}
    /\ cache = [installed |-> installed, held |-> held]
    /\ marks = NoMarks /\ changer = Waiting /\ plan = installed
    /\ changed = [gone |-> {}, new |-> {}, held |-> {}] /\ spoilt = {}
    /\ bounds = [breaks |-> 0, holds |-> 0]

-----------------------------------------------------------------------------
(* The changer                                                             *)

At(where) == changer.at = where
Answer(code) == changer' = [changer EXCEPT !.at = "answering", !.code = code]

\* Mutant: an old task is not answered either
WaitsForever == changer' = Waiting

\* The changer ends without an answer, and its task is still in the queue.
Breaks(how) ==
    /\ bounds.breaks < MaxBreaks /\ bounds' = [bounds EXCEPT !.breaks = @ + 1]
    /\ changer' = Waiting /\ spoilt' = spoilt \cup {how}

\* unknown_package_data_error: an old task is answered, another one stays.
UnknownPackageData ==
    IF old THEN Answer(ERROR_RESULT) ELSE changer' = Waiting

\* reload_channels: every version of the main architecture that APT knows
Channel(c) == {v \in Version : /\ PackageOf[v] \notin Foreign
                               /\ v \in Available \/ c.installed[PackageOf[v]] = v}

\* handle_change_packages begins: init_channels and mark_packages.  Each run is
\* a process of its own, which loads the channels for its first task.  (A later
\* task of the same run has what was loaded then; this is a first one.)
MarkPackages ==
    /\ At("waiting")
    /\ cache' = [installed |-> installed, held |-> held]
    /\ marks' = [installs |-> request.install, removals |-> request.remove,
                 holds |-> request.hold, unholds |-> request.remove_hold]
    /\ IF Asked \subseteq known \cap Channel(cache')
       THEN changer' = [Waiting EXCEPT !.at = "performing", !.count = 1]
       ELSE UnknownPackageData
    /\ UNCHANGED <<request, old, known, installed, held, plan, changed, spoilt, bounds>>

\* Mutant: any complement is allowed
IgnoresPolicy(must) == TRUE

\* may_complement_changes
may_complement_changes(must) ==
    \/ request.policy = "all"
    \/ request.policy = "installs" /\ \A v \in must : cache.installed[PackageOf[v]] # v

\* DependencyError in change_packages: changes that nobody asked for
Complement(extra) ==
    LET must == changer.must \cup extra IN
    IF \E v \in extra : v \notin known THEN UnknownPackageData /\ UNCHANGED marks
    ELSE IF changer.count = 1 /\ may_complement_changes(must)
    THEN /\ marks' = [marks EXCEPT
              !.installs = @ \cup {v \in extra : cache.installed[PackageOf[v]] # v},
              !.removals = @ \cup {v \in extra : cache.installed[PackageOf[v]] = v}]
         /\ changer' = [changer EXCEPT !.at = "performing", !.count = 2, !.must = must]
    ELSE /\ changer' = [changer EXCEPT !.at = "answering", !.must = must,
                          !.code = DEPENDENCY_ERROR_RESULT]
         /\ UNCHANGED marks

-----------------------------------------------------------------------------
(* perform_changes                                                         *)

\* _perform_hold_changes comes first, whatever becomes of the rest.
PerformHolds ==
    /\ At("performing")
    /\ IF \E v \in marks.holds : cache.installed[PackageOf[v]] # v
       THEN Answer(ERROR_RESULT) /\ UNCHANGED held
       ELSE /\ held' = (held \cup Packages(marks.holds))
                       \ {PackageOf[v] : v \in {u \in marks.unholds :
                            cache.installed[PackageOf[u]] = u /\ PackageOf[u] \in cache.held}}
            /\ changer' = [changer EXCEPT !.at = "resolving"]
    /\ UNCHANGED <<request, old, known, installed, cache, marks, plan, changed, spoilt, bounds>>

\* _preprocess_package_changes has nothing to do.
NoChanges ==
    /\ At("resolving") /\ marks.installs \cup marks.removals = {} /\ ~request.upgrade_all
    /\ Answer(SUCCESS_RESULT)
    /\ UNCHANGED <<request, old, known, installed, held, cache, marks, plan, changed, spoilt,
                   bounds>>

\* _preprocess_removes: a package that is held is in the way.
HeldInTheWay == Packages(marks.removals) \cap cache.held # {}

\* What APT may come to: _preprocess_installs, _preprocess_global_upgrade,
\* _preprocess_removes, _resolve_broken_packages
Plans ==
    LET wanted == {v \in marks.installs : cache.installed[PackageOf[v]] # v}
        deleted == Packages(marks.removals) \ Packages(marks.installs)
    IN {t \in Machines :
          /\ \A p \in Package : t[p] \in Available \cup {cache.installed[p], None}
          /\ \A v \in wanted : t[PackageOf[v]] = v
          /\ \A p \in deleted : t[p] = None}

\* _get_changed_versions, of the main architecture only
Changes(t) ==
    {v \in Version : \E p \in Package \ Foreign : /\ t[p] # cache.installed[p]
                                                /\ v \in {t[p], cache.installed[p]}}

\* _check_changes
Resolve(t) ==
    /\ At("resolving") /\ (marks.installs \cup marks.removals # {} \/ request.upgrade_all)
    /\ ~HeldInTheWay
    /\ LET extra == Changes(t) \ (marks.installs \cup marks.removals)
       IN CASE extra # {} -> Complement(extra) /\ UNCHANGED plan
            [] extra = {} /\ Changes(t) = {} -> Answer(SUCCESS_RESULT) /\ UNCHANGED <<plan, marks>>
            [] OTHER -> /\ plan' = t /\ changer' = [changer EXCEPT !.at = "committing"]
                        /\ UNCHANGED marks
    /\ UNCHANGED <<request, old, known, installed, held, cache, changed, spoilt, bounds>>

\* TransactionError: packages are held, or dependencies can not be met.  To name
\* them raises something else if a package is broken that is not one to install,
\* and the task is left as it is.
ResolveFails(explained) ==
    /\ At("resolving") /\ (marks.installs \cup marks.removals # {} \/ request.upgrade_all)
    /\ IF explained THEN Answer(ERROR_RESULT) /\ UNCHANGED <<spoilt, bounds>>
                    ELSE Breaks("raised")
    /\ UNCHANGED <<request, old, known, installed, held, cache, marks, plan, changed>>

Install(after) ==
    LET touched == {p \in Package \ Foreign : installed[p] # after[p]}
        gone == {installed[p] : p \in touched} \ {None}
    IN /\ installed' = after
       /\ changed' = [gone |-> changed.gone \cup gone,
                      new |-> changed.new \cup ({after[p] : p \in touched} \ {None}),
                      held |-> changed.held \cup {v \in gone : PackageOf[v] \in cache.held}]

\* _commit_package_changes: dpkg does it,
Commit ==
    /\ At("committing") /\ Install(plan) /\ Answer(SUCCESS_RESULT)
    /\ UNCHANGED <<request, old, known, held, cache, marks, plan, spoilt, bounds>>

\* or is locked, so that it is tried again,
CommitLocked ==
    /\ At("committing")
    /\ IF changer.tries + 1 < MaxTries THEN changer' = [changer EXCEPT !.tries = @ + 1]
                                       ELSE Answer(ERROR_RESULT)
    /\ UNCHANGED <<request, old, known, installed, held, cache, marks, plan, changed, spoilt,
                   bounds>>

Halfway == {after \in Machines : \A p \in Package : after[p] \in {installed[p], plan[p]}}

\* Mutant: an error of dpkg is not noticed
BreaksUnseen ==
    /\ At("committing") /\ \E after \in Halfway : Install(after)
    /\ Answer(SUCCESS_RESULT)
    /\ UNCHANGED <<request, old, known, held, cache, marks, plan, spoilt, bounds>>

\* or breaks half way,
CommitBreaks ==
    /\ At("committing") /\ \E after \in Halfway : Install(after)
    /\ Answer(ERROR_RESULT) /\ spoilt' = spoilt \cup {"dpkg"}
    /\ UNCHANGED <<request, old, known, held, cache, marks, plan, bounds>>

\* or is not reached, since a download fails: that exception is not caught.
FetchFails ==
    /\ At("committing") /\ Breaks("raised")
    /\ UNCHANGED <<request, old, known, installed, held, cache, marks, plan, changed>>

-----------------------------------------------------------------------------
\* _send_response
Respond ==
    /\ At("answering") /\ changer' = [changer EXCEPT !.at = "over"]
    /\ UNCHANGED <<request, old, known, installed, held, cache, marks, plan, changed, spoilt,
                   bounds>>

\* The changer is killed.
Killed ==
    /\ changer.at \notin {"waiting", "over"} /\ Breaks("killed")
    /\ IF At("committing") THEN \E after \in Halfway : Install(after)
                           ELSE UNCHANGED <<installed, changed>>
    /\ UNCHANGED <<request, old, known, held, cache, marks, plan>>

\* The reporter gets the missing ids.
Learn ==
    /\ known # Version /\ known' = Version
    /\ UNCHANGED <<request, old, installed, held, cache, marks, changer, plan, changed, spoilt,
                   bounds>>

GetOld ==
    /\ ~old /\ old' = TRUE
    /\ UNCHANGED <<request, known, installed, held, cache, marks, changer, plan, changed,
                   spoilt, bounds>>

\* Somebody puts a package on hold, or takes it off, after the facade has looked.
Meddle(p) ==
    /\ p \in Here \ Foreign /\ bounds.holds < MaxHolds /\ changer.at \notin {"waiting", "over"}
    /\ bounds' = [bounds EXCEPT !.holds = @ + 1]
    /\ held' = IF p \in held THEN held \ {p} ELSE held \cup {p}
    /\ spoilt' = spoilt \cup {"meddled"}
    /\ UNCHANGED <<request, old, known, installed, cache, marks, changer, plan, changed>>

-----------------------------------------------------------------------------
Step ==
    \/ MarkPackages \/ PerformHolds \/ NoChanges \/ Commit \/ CommitLocked \/ CommitBreaks
    \/ FetchFails \/ Respond \/ (\E t \in Plans : Resolve(t)) \/ (\E e \in BOOLEAN : ResolveFails(e))

Next ==
    \/ Step \/ Killed \/ Learn \/ GetOld
    \/ \E p \in Package : Meddle(p)

\* The changer is started every half hour, and time passes.
Spec == Init /\ [][Next]_vars /\ WF_vars(Step) /\ WF_vars(GetOld)

-----------------------------------------------------------------------------
(***************************************************************************)
(* A change that nobody asked for happens only as the policy allows: none  *)
(* for a strict request, and no removal for one that allows installs.  A   *)
(* package that was on hold when APT's data were loaded is not taken away. *)
(* Not so for a version that is asked to be installed and was so already.  *)
(***************************************************************************)
NothingUnasked ==
    /\ request.policy = "strict" =>
         changed.gone \cup changed.new \subseteq request.install \cup request.remove
    /\ request.policy = "installs" => changed.gone \subseteq request.install \cup request.remove
    /\ changed.held \subseteq request.install

(***************************************************************************)
(* The answer tells how it is: after success what was asked for is done,   *)
(* and whatever else was done is named; after anything else no package has *)
(* changed, unless dpkg broke or an earlier changer was killed.  To remove *)
(* a version of a package that is to be installed is taken for an upgrade: *)
(* the version stays if it is to be installed as well, or if what is to be *)
(* installed was so already.  A hold that is set and removed is removed.   *)
(***************************************************************************)
AnswerTrue ==
    At("answering") =>
      /\ changer.code = SUCCESS_RESULT =>
           /\ \A v \in request.install : v \in {installed[PackageOf[v]], cache.installed[PackageOf[v]]}
           /\ \A v \in request.remove : installed[PackageOf[v]] = v =>
                {v, cache.installed[PackageOf[v]]} \cap request.install # {}
           /\ "meddled" \in spoilt
              \/ Packages(request.hold) \ Packages(request.remove_hold) \subseteq held
           /\ \/ "killed" \in spoilt
              \/ changed.gone \cup changed.new
                   \subseteq request.install \cup request.remove \cup changer.must
      /\ changer.code # SUCCESS_RESULT /\ spoilt \cap {"dpkg", "killed"} = {} =>
           changed.gone \cup changed.new = {}

(***************************************************************************)
(* Every change is answered: missing ids are waited for only so long, a    *)
(* locked dpkg is tried only so often, and changes are completed once.     *)
(* Not so if the changer fails to say which dependencies are not met, or   *)
(* if a download fails when the changes are committed: neither exception   *)
(* is caught, and the task stays in the queue for as long as it fails.     *)
(***************************************************************************)
ChangeAnswered == <>(At("over") \/ "raised" \in spoilt)
=============================================================================
