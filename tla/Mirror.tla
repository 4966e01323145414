------------------------------- MODULE Mirror -------------------------------
(***************************************************************************)
(* What the reports of the client are for: the server has a mirror of some *)
(* items of the machine (its users, mount points, configuration files).    *)
(* An item of the mirror is as the machine once was, and is only replaced  *)
(* by something later, until a resynchronisation empties the mirror.       *)
(*                                                                         *)
(* A mirror may go astray.  Then nothing is said of it, except that a      *)
(* resynchronisation may bring it back.                                    *)
(***************************************************************************)
EXTENDS Naturals, Sequences

CONSTANTS Items, Absent

VARIABLES
    shown,      \* every state of the machine so far
    mirror,     \* what the server shows of each item
    at,         \* the state of the machine that is from; 0 for none
    since,      \* the state of the machine at the last resynchronisation
    astray

vars == <<shown, mirror, at, since, astray>>

Blank == [i \in Items |-> Absent]

Init ==
    /\ Len(shown) = 1 /\ mirror = Blank
    /\ at = [i \in Items |-> 0] /\ since = 0 /\ astray = FALSE

Change ==
    /\ Len(shown') = Len(shown) + 1 /\ SubSeq(shown', 1, Len(shown)) = shown
    /\ UNCHANGED <<mirror, at, since, astray>>

\* The server is told: each item stays, or becomes what it was later on.
Tell ==
    /\ ~astray
    /\ \A i \in Items :
         \/ at'[i] = at[i] /\ mirror'[i] = mirror[i]
         \/ /\ at'[i] \in (at[i] .. Len(shown)) \ {0} /\ at'[i] >= since
            /\ mirror'[i] = shown[at'[i]][i]
    /\ UNCHANGED <<shown, since, astray>>

GoAstray == astray' /\ UNCHANGED <<shown, since>>

Resynchronize ==
    /\ at' = [i \in Items |-> 0] /\ mirror' = Blank /\ since' \in {0, Len(shown)}
    /\ UNCHANGED shown

\* A plugin that forgets what it told may find its way back.
ComeBack == at = [i \in Items |-> 0] /\ UNCHANGED <<shown, mirror, at, since>>

Next == Change \/ Tell \/ GoAstray \/ Resynchronize \/ ComeBack

Spec == Init /\ [][Next]_vars
=============================================================================
