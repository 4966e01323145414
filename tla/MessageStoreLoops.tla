-------------------------- MODULE MessageStoreLoops --------------------------
(***************************************************************************)
(* The two loops of the message store that rename the files they are       *)
(* walking over, written step by step as store.py runs them.  MessageStore *)
(* states the same two operations in closed form, as sets of files; the    *)
(* invariants below say that both give the same store.                     *)
(***************************************************************************)
EXTENDS MessageQueue, SequencesExt

Ascending(S) == SetToSortSeq(S, <)

\* os.rename to _get_next_message_filename, then _set_flags without HELD
RenameToEnd(s, p) ==
    [s EXCEPT
      !.files = [x \in (Positions(s) \ {p}) \cup {s.nextPos} |->
                   IF x = s.nextPos
                   THEN [s.files[p] EXCEPT !.held = FALSE, !.dir = NextDir(s)]
                   ELSE s.files[x]],
      !.dirs = @ \cup {NextDir(s)},
      !.nextPos = @ + 1]

\* The body of the loop of _reprocess_holding
ReprocessFile(st, p, accepted, pending_offset) ==
    LET f == st.store.files[p]
        counted == st.offset + (IF f.held THEN 0 ELSE 1)
        unwanted == ~f.corrupt /\ f.type \notin accepted
    IN  IF f.held /\ ~f.corrupt /\ f.type \in accepted
        THEN [st EXCEPT !.store = RenameToEnd(@, p)]
        ELSE IF ~f.held /\ unwanted /\ st.offset >= pending_offset
        THEN [store |-> [st.store EXCEPT !.files[p].held = TRUE],
              offset |-> counted]
        ELSE [st EXCEPT !.offset = counted]

\* _walk_messages lists the directories once, and the files of each one when
\* it gets to it: the generator sees the renames made by the loop it feeds.
ReprocessDirectory(st, d, accepted, pending_offset) ==
    FoldLeft(LAMBDA x, p : ReprocessFile(x, p, accepted, pending_offset),
             st, Ascending(FilesIn(st.store, d)))

ReprocessLoop(s, accepted) ==
    FoldLeft(LAMBDA st, d : ReprocessDirectory(st, d, accepted, s.meta.offset),
             [store |-> s, offset |-> 0], Ascending(s.dirs)).store

\* The body of the loop of get_pending_messages: messages counts the list
ReadFile(st, p, max) ==
    LET f == st.store.files[p]
    IN  IF st.messages >= max THEN st
        ELSE IF f.corrupt
        THEN [st EXCEPT !.store.files[p].broken = TRUE,
                        !.store.damage = @ \cup {"broken"}]
        ELSE IF Sendable(st.store, p)
        THEN [st EXCEPT !.messages = @ + 1]
        ELSE [st EXCEPT !.store.files[p].held = TRUE]

ReadLoop(s, max) ==
    FoldLeft(LAMBDA st, p : ReadFile(st, p, max),
             [store |-> s, messages |-> 0], Ascending(Pending(s))).store

-----------------------------------------------------------------------------
(***************************************************************************)
(* _reprocess_holding moves unheld files while it walks the directory they *)
(* are moved to.  It still visits every file that was there once, decides  *)
(* on each as if all were decided at once, and leaves the unheld ones at   *)
(* the end in their old order.                                             *)
(***************************************************************************)
ReprocessAgrees ==
    \A accepted \in SUBSET Types :
        SetAcceptedTypes(queue, accepted)
          = ReprocessLoop([queue EXCEPT !.meta.accepted = accepted], accepted)

(***************************************************************************)
(* get_pending_messages flags files under its own generator.  What it      *)
(* flags is what is not sendable before the batch is full.                 *)
(***************************************************************************)
ReadAgrees ==
    \A max \in Batches : FlagUnsendable(queue, max) = ReadLoop(queue, max)

(***************************************************************************)
(* Both loops, which rename or flag the files they walk over, do to every  *)
(* store that can be reached what MessageStore says.                       *)
(***************************************************************************)
LoopsAgree == ReprocessAgrees /\ ReadAgrees
=============================================================================
