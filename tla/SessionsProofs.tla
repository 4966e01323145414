--------------------------- MODULE SessionsProofs ---------------------------
(***************************************************************************)
(* The three parts of MCSessions.  Sessions: no report made before a       *)
(* resynchronisation is let in after it, for any number of plugins,        *)
(* scopes, resynchronisations, calls on their way and crashes of the       *)
(* broker.  Broadcasts: no operation that some client takes is answered as *)
(* failed.  Method calls: one outcome for each call.                       *)
(***************************************************************************)
EXTENDS MCSessions, SequenceTheorems, FiniteSetTheorems, TLAPS

Message == [method : {"send_message"}, id : Nat, made : Nat]
Loops == {"none", "delayed", "cancelled", "running", "stopped"}
Call == {get_session_id} \cup Message

\* The messages of p that are on their way, and the ids that p holds: its own,
\* those on their way to it and those it sends with.
Elements(s) == {s[i] : i \in DOMAIN s}
MessagesOf(p) == {c \in Elements(calls[p]) : c.method = "send_message"}
ResultsOf(p) == Elements(results[p])
HeldIds(p) == {plugin[p].id} \cup ResultsOf(p) \cup {m.id : m \in MessagesOf(p)}

Types ==
    /\ sessions \in [Scopes -> Nat] /\ saved \in [Scopes -> Nat]
    /\ issued \in Nat
    /\ plugin \in [Plugins -> [id : Nat, loop : Loops, delayed : Int, running : Int]]
    /\ events \in [Plugins -> Seq(Requests)]
    /\ calls \in [Plugins -> Seq(Call)]
    /\ results \in [Plugins -> Seq(Nat)]
    /\ resyncs \in [all : Nat, scope : [Scopes -> Nat]]
    /\ history \in [stale : BOOLEAN, deaf : SUBSET Plugins]

\* Ids were given out, and those of different scopes are different.
Given ==
    /\ \A s \in Scopes : sessions[s] <= issued /\ saved[s] <= issued
    /\ \A p \in Plugins : \A x \in HeldIds(p) : x <= issued
ScopesApart ==
    \A s, t \in Scopes : s # t =>
        \A x \in {sessions[s], saved[s]} : x \in {sessions[t], saved[t]} => x = NoId

\* What a plugin holds is never the id of another scope.
OwnIds ==
    \A p \in Plugins, t \in Scopes : t # Scope[p] =>
        \A x \in HeldIds(p) : x \in {sessions[t], saved[t]} => x = NoId

\* A message is sent with an id, and one that was made before the last
\* resynchronisation with one that is no longer in use, nor will be.
StaleOut ==
    \A p \in Plugins : \A m \in MessagesOf(p) :
        /\ m.id # NoId
        /\ m.made < resyncs.scope[Scope[p]]
             => m.id \notin {sessions[Scope[p]], saved[Scope[p]]}

Inv == Types /\ Given /\ ScopesApart /\ OwnIds /\ StaleOut /\ NoStaleMessage
-----------------------------------------------------------------------------
(* What is in a sequence after Append and Tail.                            *)

\* A call or a result that is sent adds itself and nothing else.
LEMMA AppendElements ==
  ASSUME NEW S, NEW s \in Seq(S), NEW e \in S
  PROVE  /\ Append(s, e) \in Seq(S)
         /\ Elements(Append(s, e)) \subseteq Elements(s) \cup {e}
  <1>1. Append(s, e) \in Seq(S) /\ Len(Append(s, e)) = Len(s) + 1
    OBVIOUS
  <1>2. \A i \in 1 .. Len(s) : Append(s, e)[i] = s[i]
    OBVIOUS
  <1>3. Append(s, e)[Len(s) + 1] = e
    OBVIOUS
  <1>. QED  BY <1>1, <1>2, <1>3 DEF Elements

\* One that arrives was there, and leaves the others.
LEMMA TailElements ==
  ASSUME NEW S, NEW s \in Seq(S), s # <<>>
  PROVE  /\ Tail(s) \in Seq(S)
         /\ Elements(Tail(s)) \subseteq Elements(s)
         /\ Head(s) \in Elements(s) /\ Head(s) \in S
  <1>1. Tail(s) \in Seq(S) /\ Len(Tail(s)) = Len(s) - 1 /\ Len(s) > 0
    OBVIOUS
  <1>2. \A i \in 1 .. Len(Tail(s)) : Tail(s)[i] = s[i + 1]
    BY <1>1
  <1>3. 1 \in DOMAIN s /\ Head(s) = s[1] /\ Head(s) \in S
    OBVIOUS
  <1>4. \A i \in DOMAIN Tail(s) : i + 1 \in DOMAIN s /\ Tail(s)[i] = s[i + 1]
    BY <1>1, <1>2
  <1>. QED  BY <1>1, <1>3, <1>4 DEF Elements

-----------------------------------------------------------------------------
(* The invariant survives a step that gives out no id, lets no plugin hold *)
(* another one, and makes no message stale unless its scope has no id.     *)

\* One lemma for every step but get_session_id.
LEMMA Keeps ==
  ASSUME Inv, Types', issued' = issued, NoStaleMessage',
         \A s \in Scopes : /\ sessions'[s] \in {sessions[s], saved[s], NoId}
                           /\ saved'[s] \in {sessions[s], saved[s], NoId},
         \A q \in Plugins : HeldIds(q)' \subseteq HeldIds(q),
         \A q \in Plugins : \A m \in MessagesOf(q)' :
            /\ m.id # NoId
            /\ \/ m \in MessagesOf(q) /\ resyncs'.scope[Scope[q]] = resyncs.scope[Scope[q]]
               \/ sessions'[Scope[q]] = NoId /\ saved'[Scope[q]] = NoId
               \/ ~(m.made < resyncs'.scope[Scope[q]])
  PROVE  Inv'
  <1>. USE DEF Inv, NoId
  <1>0. issued \in Nat
    BY DEF Types
  <1>1. Given'
    <2>1. \A s \in Scopes : sessions'[s] <= issued /\ saved'[s] <= issued
      BY <1>0 DEF Given
    <2>2. \A p \in Plugins : \A x \in HeldIds(p)' : x <= issued
      BY DEF Given
    <2>. QED  BY <2>1, <2>2 DEF Given
  <1>2. ScopesApart'
    BY DEF ScopesApart
  <1>3. OwnIds'
    BY DEF OwnIds
  <1>4. StaleOut'
    <2>. SUFFICES ASSUME NEW q \in Plugins, NEW m \in MessagesOf(q)'
                  PROVE  /\ m.id # NoId
                         /\ m.made < resyncs'.scope[Scope[q]]
                              => m.id \notin {sessions'[Scope[q]], saved'[Scope[q]]}
      BY DEF StaleOut
    <2>1. Scope[q] \in Scopes
      BY SessionsAssumption
    <2>. QED  BY <2>1 DEF StaleOut
  <1>. QED  BY <1>1, <1>2, <1>3, <1>4

\* At registration nobody holds an id.
LEMMA InitInv == Init => Inv
  <1>. SUFFICES ASSUME Init PROVE Inv
    OBVIOUS
  <1>. USE DEF Init, NoId
  <1>1. \A p \in Plugins : calls[p] = <<get_session_id>> /\ results[p] = <<>> /\ plugin[p].id = 0
    OBVIOUS
  <1>2. \A p \in Plugins : MessagesOf(p) = {}
    BY <1>1 DEF MessagesOf, Elements, get_session_id
  <1>3. \A p \in Plugins : HeldIds(p) = {0}
    BY <1>1, <1>2 DEF HeldIds, ResultsOf, Elements
  <1>4. Types
    <2>1. <<get_session_id>> \in Seq(Call)
      BY DEF Call
    <2>2. calls \in [Plugins -> Seq(Call)]
      BY <2>1
    <2>3. /\ events \in [Plugins -> Seq(Requests)]
          /\ results \in [Plugins -> Seq(Nat)]
      OBVIOUS
    <2>4. plugin \in [Plugins -> [id : Nat, loop : Loops, delayed : Int, running : Int]]
      BY DEF Loops
    <2>5. /\ sessions \in [Scopes -> Nat] /\ saved \in [Scopes -> Nat] /\ issued \in Nat
          /\ resyncs \in [all : Nat, scope : [Scopes -> Nat]]
      OBVIOUS
    <2>6. history \in [stale : BOOLEAN, deaf : SUBSET Plugins]
      OBVIOUS
    <2>. QED  BY <2>2, <2>3, <2>4, <2>5, <2>6 DEF Types
  <1>. QED  BY <1>2, <1>3, <1>4 DEF Inv, Given, ScopesApart, OwnIds, StaleOut, NoStaleMessage
-----------------------------------------------------------------------------
(* The steps of the broker.                                                *)

\* What a plugin holds only depends on three variables.
LEMMA HeldSame ==
  ASSUME UNCHANGED <<plugin, calls, results>>
  PROVE  \A q \in Plugins : HeldIds(q)' = HeldIds(q) /\ MessagesOf(q)' = MessagesOf(q)
  BY DEF HeldIds, MessagesOf, ResultsOf

\* Where a message becomes stale, the id of its scope is dropped with it, in
\* memory and on disk.
LEMMA ResynchronizeStep ==
  ASSUME Inv, NEW request \in Requests, Resynchronize(request) PROVE Inv'
  <1>. USE DEF Resynchronize
  <1>1. resyncs' \in [all : Nat, scope : [Scopes -> Nat]]
    BY DEF Inv, Types
  <1>2. sessions' \in [Scopes -> Nat] /\ saved' \in [Scopes -> Nat]
    BY DEF Inv, Types, NoId
  <1>3. events' \in [Plugins -> Seq(Requests)]
    BY DEF Inv, Types
  <1>4. Types'
    BY <1>1, <1>2, <1>3 DEF Inv, Types
  <1>5. \A s \in Scopes : /\ sessions'[s] \in {sessions[s], saved[s], NoId}
                          /\ saved'[s] \in {sessions[s], saved[s], NoId}
    OBVIOUS
  <1>6. \A q \in Plugins : HeldIds(q)' = HeldIds(q) /\ MessagesOf(q)' = MessagesOf(q)
    BY HeldSame
  <1>7. \A q \in Plugins : \/ resyncs'.scope[Scope[q]] = resyncs.scope[Scope[q]]
                           \/ sessions'[Scope[q]] = NoId /\ saved'[Scope[q]] = NoId
    BY SessionsAssumption DEF InScope, Drops
  <1>8. NoStaleMessage' /\ issued' = issued
    BY DEF Inv, NoStaleMessage
  <1>. QED  BY <1>4, <1>5, <1>6, <1>7, <1>8, Keeps DEF Inv, StaleOut

\* What is saved is what is in use.
LEMMA CommitStep ==
  ASSUME Inv, Commit PROVE Inv'
  <1>. USE DEF Commit
  <1>1. Types'
    BY DEF Inv, Types
  <1>2. \A q \in Plugins : HeldIds(q)' = HeldIds(q) /\ MessagesOf(q)' = MessagesOf(q)
    BY HeldSame
  <1>3. NoStaleMessage' /\ issued' = issued
    BY DEF Inv, NoStaleMessage
  <1>4. resyncs' = resyncs /\ sessions' = sessions /\ saved' = sessions
    OBVIOUS
  <1>. QED  BY <1>1, <1>2, <1>3, <1>4, Keeps DEF Inv, StaleOut

\* Nothing is on its way any more.
LEMMA CrashStep ==
  ASSUME Inv, Crash PROVE Inv'
  <1>. USE DEF Crash
  <1>1. Types'
    <2>1. history' \in [stale : BOOLEAN, deaf : SUBSET Plugins]
      BY DEF Inv, Types
    <2>2. /\ events' \in [Plugins -> Seq(Requests)] /\ calls' \in [Plugins -> Seq(Call)]
          /\ results' \in [Plugins -> Seq(Nat)]
      OBVIOUS
    <2>. QED  BY <2>1, <2>2 DEF Inv, Types
  <1>2. \A q \in Plugins : calls'[q] = <<>> /\ results'[q] = <<>>
    OBVIOUS
  <1>3. \A q \in Plugins : MessagesOf(q)' = {} /\ HeldIds(q)' \subseteq HeldIds(q)
    BY <1>2 DEF MessagesOf, HeldIds, ResultsOf, Elements
  <1>4. NoStaleMessage' /\ issued' = issued
    BY DEF Inv, NoStaleMessage
  <1>5. sessions' = saved /\ saved' = saved
    OBVIOUS
  <1>. QED  BY <1>1, <1>3, <1>4, <1>5, Keeps

\* The message that is let in has an id that is in use, which can only be the
\* one of the plugin's own scope, and then the message is not stale.
LEMMA SendMessageStep ==
  ASSUME Inv, NEW p \in Plugins, SendMessage(p) PROVE Inv'
  <1>. USE DEF SendMessage
  <1>1. calls[p] \in Seq(Call) /\ calls \in [Plugins -> Seq(Call)]
    BY DEF Inv, Types
  <1>2. /\ Tail(calls[p]) \in Seq(Call)
        /\ Elements(Tail(calls[p])) \subseteq Elements(calls[p])
        /\ Head(calls[p]) \in Elements(calls[p])
    BY <1>1, TailElements
  <1>3. \A q \in Plugins : MessagesOf(q)' \subseteq MessagesOf(q)
    BY <1>1, <1>2 DEF MessagesOf
  <1>4. \A q \in Plugins : HeldIds(q)' \subseteq HeldIds(q)
    BY <1>3 DEF HeldIds, ResultsOf
  <1>5. Head(calls[p]) \in MessagesOf(p)
    BY <1>2 DEF MessagesOf
  <1>6. NoStaleMessage'
    <2>. DEFINE m == Head(calls[p])
    <2>. HIDE DEF m
    <2>1. m.id \in HeldIds(p)
      BY <1>5 DEF HeldIds, m
    <2>2. is_valid_session_id(m.id) => ~(m.made < resyncs.scope[Scope[p]])
      <3>. SUFFICES ASSUME NEW t \in Scopes, sessions[t] = m.id
                    PROVE  ~(m.made < resyncs.scope[Scope[p]])
        BY DEF is_valid_session_id
      <3>1. m.id # NoId
        BY <1>5 DEF Inv, StaleOut, m
      <3>2. t = Scope[p]
        BY <2>1, <3>1 DEF Inv, OwnIds
      <3>. QED  BY <1>5, <3>2 DEF Inv, StaleOut, m
    <2>. QED  BY <2>2 DEF Inv, Types, NoStaleMessage, m
  <1>7. Types'
    <2>1. calls' \in [Plugins -> Seq(Call)]
      BY <1>1, <1>2
    <2>. QED  BY <2>1, <1>6 DEF Inv, Types, NoStaleMessage
  <1>8. /\ issued' = issued /\ sessions' = sessions /\ saved' = saved /\ resyncs' = resyncs
    OBVIOUS
  <1>. QED  BY <1>3, <1>4, <1>6, <1>7, <1>8, Keeps DEF Inv, StaleOut

\* The id that is given is the one of the plugin's scope, or one that nobody
\* has had before.
LEMMA GetSessionIdStep ==
  ASSUME Inv, NEW p \in Plugins, GetSessionId(p) PROVE Inv'
  <1>. DEFINE S == Scope[p]
              n == sessions'[S]
  <1>1. /\ calls \in [Plugins -> Seq(Call)] /\ calls[p] \in Seq(Call)
        /\ results \in [Plugins -> Seq(Nat)] /\ results[p] \in Seq(Nat)
        /\ sessions \in [Scopes -> Nat] /\ saved \in [Scopes -> Nat] /\ issued \in Nat
        /\ S \in Scopes
    BY SessionsAssumption DEF Inv, Types
  <1>2. /\ calls' = [calls EXCEPT ![p] = Tail(@)]
        /\ results' = [results EXCEPT ![p] = Append(@, n)]
        /\ calls[p] # <<>>
        /\ UNCHANGED <<saved, plugin, events, resyncs, crashes, history>>
    BY DEF GetSessionId
  <1>3. \/ UNCHANGED <<issued, sessions>>
        \/ /\ issued' = issued + 1
           /\ sessions' = [sessions EXCEPT ![S] = issued + 1]
    BY DEF GetSessionId
  <1>4. n \in Nat /\ sessions' \in [Scopes -> Nat] /\ issued' \in Nat
    <2>1. sessions' \in [Scopes -> Nat] /\ issued' \in Nat
      <3>1. issued + 1 \in Nat
        BY <1>1
      <3>. QED  BY <1>1, <1>3, <3>1
    <2>. QED  BY <1>1, <2>1
  <1>5. /\ Tail(calls[p]) \in Seq(Call)
        /\ Elements(Tail(calls[p])) \subseteq Elements(calls[p])
    BY <1>1, <1>2, TailElements
  <1>. HIDE DEF n
  <1>6. /\ Append(results[p], n) \in Seq(Nat)
        /\ Elements(Append(results[p], n)) \subseteq Elements(results[p]) \cup {n}
    BY <1>1, <1>4, AppendElements
  <1>7. \A q \in Plugins : MessagesOf(q)' \subseteq MessagesOf(q)
    BY <1>1, <1>2, <1>5 DEF MessagesOf
  <1>8. /\ ResultsOf(p)' \subseteq ResultsOf(p) \cup {n}
        /\ \A q \in Plugins : q # p => ResultsOf(q)' = ResultsOf(q)
    BY <1>1, <1>2, <1>6 DEF ResultsOf
  <1>9. /\ HeldIds(p)' \subseteq HeldIds(p) \cup {n}
        /\ \A q \in Plugins : q # p => HeldIds(q)' \subseteq HeldIds(q)
    BY <1>2, <1>7, <1>8 DEF HeldIds
  <1>10. Types'
    <2>1. calls' \in [Plugins -> Seq(Call)] /\ results' \in [Plugins -> Seq(Nat)]
      BY <1>1, <1>2, <1>5, <1>6
    <2>. QED  BY <1>2, <1>4, <2>1 DEF Inv, Types
  <1>11. /\ \A s \in Scopes : sessions[s] <= issued /\ saved[s] <= issued
         /\ \A q \in Plugins : \A x \in HeldIds(q) : x <= issued
    BY DEF Inv, Given
  <1>12. /\ \A m \in Nat : m <= issued => m <= issued' /\ m # issued + 1
         /\ n <= issued'
    BY <1>1, <1>3, <1>11 DEF n
  <1>13. \A q \in Plugins : HeldIds(q) \subseteq Nat
    <2>. SUFFICES ASSUME NEW q \in Plugins PROVE HeldIds(q) \subseteq Nat
      OBVIOUS
    <2>1. plugin[q].id \in Nat /\ results[q] \in Seq(Nat) /\ calls[q] \in Seq(Call)
      BY DEF Inv, Types
    <2>2. ResultsOf(q) \subseteq Nat
      BY <2>1 DEF ResultsOf, Elements
    <2>3. Elements(calls[q]) \subseteq Call
      BY <2>1 DEF Elements
    <2>4. \A m \in MessagesOf(q) : m.id \in Nat
      BY <2>3 DEF MessagesOf, Call, Message, get_session_id
    <2>. QED  BY <2>1, <2>2, <2>4 DEF HeldIds
  <1>14. Given'
    <2>1. \A s \in Scopes : sessions'[s] <= issued' /\ saved'[s] <= issued'
      BY <1>1, <1>2, <1>3, <1>11, <1>12 DEF n
    <2>2. \A q \in Plugins : \A x \in HeldIds(q)' : x <= issued'
      BY <1>9, <1>11, <1>12, <1>13
    <2>. QED  BY <2>1, <2>2 DEF Given
  <1>15. CASE UNCHANGED <<issued, sessions>>
    <2>1. n = sessions[S]
      BY <1>15 DEF n
    <2>2. ScopesApart'
      BY <1>2, <1>15 DEF Inv, ScopesApart
    <2>3. OwnIds'
      <3>. SUFFICES ASSUME NEW q \in Plugins, NEW t \in Scopes, t # Scope[q],
                           NEW x \in HeldIds(q)', x \in {sessions[t], saved[t]}
                    PROVE  x = NoId
        BY <1>2, <1>15 DEF OwnIds
      <3>1. CASE x \in HeldIds(q)
        BY <3>1 DEF Inv, OwnIds
      <3>2. CASE q = p /\ x = n
        BY <1>1, <2>1, <3>2 DEF Inv, ScopesApart
      <3>. QED  BY <1>9, <3>1, <3>2
    <2>4. StaleOut'
      BY <1>2, <1>7, <1>15 DEF Inv, StaleOut
    <2>. QED  BY <1>2, <1>10, <1>14, <2>2, <2>3, <2>4 DEF Inv, NoStaleMessage
  <1>16. CASE issued' = issued + 1 /\ sessions' = [sessions EXCEPT ![S] = issued + 1]
    <2>1. /\ n = issued + 1
          /\ \A t \in Scopes : sessions'[t] = IF t = S THEN n ELSE sessions[t]
          /\ \A t \in Scopes : sessions[t] # n /\ saved[t] # n
          /\ \A q \in Plugins : n \notin HeldIds(q)
      BY <1>1, <1>11, <1>12, <1>13, <1>16 DEF n
    <2>2. ScopesApart'
      BY <1>2, <2>1 DEF Inv, ScopesApart
    <2>3. OwnIds'
      <3>. SUFFICES ASSUME NEW q \in Plugins, NEW t \in Scopes, t # Scope[q],
                           NEW x \in HeldIds(q)', x \in {sessions'[t], saved[t]}
                    PROVE  x = NoId
        BY <1>2 DEF OwnIds
      <3>1. CASE x \in HeldIds(q)
        BY <2>1, <3>1 DEF Inv, OwnIds
      <3>2. CASE q = p /\ x = n
        BY <2>1, <3>2
      <3>. QED  BY <1>9, <3>1, <3>2
    <2>4. StaleOut'
      <3>. SUFFICES ASSUME NEW q \in Plugins, NEW m \in MessagesOf(q)'
                    PROVE  /\ m.id # NoId
                           /\ m.made < resyncs.scope[Scope[q]]
                                => m.id \notin {sessions'[Scope[q]], saved[Scope[q]]}
        BY <1>2 DEF StaleOut
      <3>1. m \in MessagesOf(q) /\ m.id \in HeldIds(q) /\ Scope[q] \in Scopes
        BY <1>7, SessionsAssumption DEF HeldIds
      <3>. QED  BY <2>1, <3>1 DEF Inv, StaleOut
    <2>. QED  BY <1>2, <1>10, <1>14, <2>2, <2>3, <2>4 DEF Inv, NoStaleMessage
  <1>. QED  BY <1>3, <1>15, <1>16
-----------------------------------------------------------------------------
(* The steps of the plugins.                                               *)

PluginState == [id : Nat, loop : Loops, delayed : Int, running : Int]

\* Starting, stopping and cancelling a loop keep a plugin's type and its id.
LEMMA LoopUpdate ==
  ASSUME NEW q \in PluginState
  PROVE  /\ [q EXCEPT !.loop = "cancelled", !.delayed = @ - 1] \in PluginState
         /\ [q EXCEPT !.loop = "cancelled", !.delayed = @ - 1].id = q.id
         /\ [q EXCEPT !.loop = "stopped", !.running = @ - 1] \in PluginState
         /\ [q EXCEPT !.loop = "stopped", !.running = @ - 1].id = q.id
         /\ [q EXCEPT !.loop = "running", !.delayed = @ - 1, !.running = @ + 1] \in PluginState
         /\ [q EXCEPT !.loop = "running", !.delayed = @ - 1, !.running = @ + 1].id = q.id
  <1>1. q.delayed - 1 \in Int /\ q.running - 1 \in Int /\ q.running + 1 \in Int
    BY DEF PluginState
  <1>2. "cancelled" \in Loops /\ "stopped" \in Loops /\ "running" \in Loops
    BY DEF Loops
  <1>. QED  BY <1>1, <1>2 DEF PluginState

\* What a plugin does to its loops leaves its id alone.
LEMMA CancelLoopKeeps ==
  ASSUME NEW q \in PluginState
  PROVE  CancelLoop(q) \in PluginState /\ CancelLoop(q).id = q.id
  <1>1. CASE q.loop = "delayed"
    <2>1. CancelLoop(q) = [q EXCEPT !.loop = "cancelled", !.delayed = @ - 1]
      BY <1>1 DEF CancelLoop
    <2>. QED  BY <2>1, LoopUpdate
  <1>2. CASE q.loop = "running"
    <2>1. CancelLoop(q) = [q EXCEPT !.loop = "stopped", !.running = @ - 1]
      BY <1>2 DEF CancelLoop
    <2>. QED  BY <2>1, LoopUpdate
  <1>3. CASE q.loop \notin {"delayed", "running"}
    BY <1>3 DEF CancelLoop
  <1>. QED  BY <1>1, <1>2, <1>3

\* A plugin that hears of a resynchronisation keeps its id until it has another.
LEMMA ResynchronizePluginStep ==
  ASSUME Inv, NEW p \in Plugins, ResynchronizePlugin(p) PROVE Inv'
  <1>1. /\ calls \in [Plugins -> Seq(Call)] /\ calls[p] \in Seq(Call)
        /\ events \in [Plugins -> Seq(Requests)]
        /\ events[p] \in Seq(Requests)
        /\ plugin \in [Plugins -> PluginState] /\ plugin[p] \in PluginState
    BY DEF Inv, Types, PluginState
  <1>2. /\ events[p] # <<>> /\ events' = [events EXCEPT ![p] = Tail(@)]
        /\ UNCHANGED <<sessions, saved, issued, results, resyncs, crashes>>
        /\ \/ UNCHANGED <<plugin, calls>>
           \/ /\ plugin' = [plugin EXCEPT ![p] = CancelLoop(@)]
              /\ calls' = [calls EXCEPT ![p] = Append(@, get_session_id)]
    BY DEF ResynchronizePlugin
  <1>3. Tail(events[p]) \in Seq(Requests)
    BY <1>1, <1>2, TailElements
  <1>4. CancelLoop(plugin[p]) \in PluginState /\ CancelLoop(plugin[p]).id = plugin[p].id
    BY <1>1, CancelLoopKeeps
  <1>5. plugin' \in [Plugins -> PluginState] /\ \A q \in Plugins : plugin'[q].id = plugin[q].id
    BY <1>1, <1>2, <1>4
  <1>6. /\ Append(calls[p], get_session_id) \in Seq(Call)
        /\ Elements(Append(calls[p], get_session_id))
             \subseteq Elements(calls[p]) \cup {get_session_id}
    <2>1. get_session_id \in Call
      BY DEF Call
    <2>. QED  BY <1>1, <2>1, AppendElements
  <1>7. \A q \in Plugins : MessagesOf(q)' \subseteq MessagesOf(q)
    <2>1. get_session_id.method # "send_message"
      BY DEF get_session_id
    <2>. QED  BY <1>1, <1>2, <1>6, <2>1 DEF MessagesOf
  <1>8. \A q \in Plugins : HeldIds(q)' \subseteq HeldIds(q)
    BY <1>2, <1>5, <1>7 DEF HeldIds, ResultsOf
  <1>9. \E deaf \in SUBSET Plugins : history' = [history EXCEPT !.deaf = deaf]
    BY DEF ResynchronizePlugin, Inv, Types
  <1>10. Types'
    <2>1. calls' \in [Plugins -> Seq(Call)]
      BY <1>1, <1>2, <1>6
    <2>2. events' \in [Plugins -> Seq(Requests)]
      BY <1>1, <1>2, <1>3
    <2>3. history' \in [stale : BOOLEAN, deaf : SUBSET Plugins]
      BY <1>9 DEF Inv, Types
    <2>. QED  BY <1>2, <1>5, <2>1, <2>2, <2>3 DEF Inv, Types, PluginState
  <1>11. NoStaleMessage'
    BY <1>9 DEF Inv, Types, NoStaleMessage
  <1>. QED  BY <1>2, <1>7, <1>8, <1>10, <1>11, Keeps DEF Inv, StaleOut

\* The id that a plugin takes was on its way to it.
LEMMA SessionIdArrivesStep ==
  ASSUME Inv, NEW p \in Plugins, SessionIdArrives(p) PROVE Inv'
  <1>. DEFINE id == Head(results[p])
  <1>1. /\ results \in [Plugins -> Seq(Nat)] /\ results[p] \in Seq(Nat)
        /\ plugin \in [Plugins -> PluginState] /\ plugin[p] \in PluginState
    BY DEF Inv, Types, PluginState
  <1>2. /\ results[p] # <<>> /\ results' = [results EXCEPT ![p] = Tail(@)]
        /\ plugin' = [plugin EXCEPT ![p] = GotSessionId(@, id)]
        /\ UNCHANGED <<sessions, saved, issued, events, calls, resyncs, crashes, history>>
    BY DEF SessionIdArrives
  <1>3. /\ Tail(results[p]) \in Seq(Nat)
        /\ Elements(Tail(results[p])) \subseteq Elements(results[p])
        /\ id \in ResultsOf(p) /\ id \in Nat
    BY <1>1, <1>2, TailElements DEF ResultsOf
  <1>. HIDE DEF id
  <1>4. GotSessionId(plugin[p], id) \in PluginState /\ GotSessionId(plugin[p], id).id = id
    <2>1. plugin[p].delayed + 1 \in Int /\ "delayed" \in Loops
      BY <1>1 DEF PluginState, Loops
    <2>. QED  BY <1>1, <1>3, <2>1 DEF GotSessionId, PluginState
  <1>5. \A q \in Plugins : MessagesOf(q)' = MessagesOf(q)
    BY <1>2 DEF MessagesOf
  <1>6. \A q \in Plugins : ResultsOf(q)' \subseteq ResultsOf(q)
    BY <1>1, <1>2, <1>3 DEF ResultsOf
  <1>7. \A q \in Plugins : plugin'[q].id \in {plugin[q].id} \cup ResultsOf(q)
    BY <1>1, <1>2, <1>3, <1>4
  <1>8. \A q \in Plugins : HeldIds(q)' \subseteq HeldIds(q)
    BY <1>5, <1>6, <1>7 DEF HeldIds
  <1>9. Types'
    <2>1. plugin' \in [Plugins -> PluginState] /\ results' \in [Plugins -> Seq(Nat)]
      BY <1>1, <1>2, <1>3, <1>4
    <2>. QED  BY <1>2, <2>1 DEF Inv, Types, PluginState
  <1>10. NoStaleMessage'
    BY <1>2 DEF Inv, NoStaleMessage
  <1>. QED  BY <1>2, <1>5, <1>8, <1>9, <1>10, Keeps DEF Inv, StaleOut

\* A loop that starts changes no id.
LEMMA StartLoopStep ==
  ASSUME Inv, NEW p \in Plugins, StartLoop(p) PROVE Inv'
  <1>. USE DEF StartLoop
  <1>1. plugin \in [Plugins -> PluginState] /\ plugin[p] \in PluginState
    BY DEF Inv, Types, PluginState
  <1>2. plugin' \in [Plugins -> PluginState] /\ \A q \in Plugins : plugin'[q].id = plugin[q].id
    <2>1. _start_loop(plugin[p]) \in PluginState /\ _start_loop(plugin[p]).id = plugin[p].id
      BY <1>1, LoopUpdate DEF _start_loop
    <2>. QED  BY <1>1, <2>1
  <1>3. \A q \in Plugins : MessagesOf(q)' = MessagesOf(q) /\ HeldIds(q)' = HeldIds(q)
    BY <1>2 DEF MessagesOf, HeldIds, ResultsOf
  <1>4. Types'
    BY <1>2 DEF Inv, Types, PluginState
  <1>5. NoStaleMessage'
    BY DEF Inv, NoStaleMessage
  <1>6. issued' = issued /\ sessions' = sessions /\ saved' = saved /\ resyncs' = resyncs
    OBVIOUS
  <1>. QED  BY <1>3, <1>4, <1>5, <1>6, Keeps DEF Inv, StaleOut

\* A message is made with the plugin's own id, and is not stale when made.
LEMMA ReportStep ==
  ASSUME Inv, NEW p \in Plugins, Report(p) PROVE Inv'
  <1>. DEFINE message == [method |-> "send_message", id |-> plugin[p].id,
                          made |-> resyncs.scope[Scope[p]]]
  <1>1. /\ calls \in [Plugins -> Seq(Call)] /\ calls[p] \in Seq(Call)
        /\ plugin[p] \in PluginState
        /\ resyncs.scope[Scope[p]] \in Nat
    BY SessionsAssumption DEF Inv, Types, PluginState
  <1>2. /\ calls' = [calls EXCEPT ![p] = Append(@, message)]
        /\ UNCHANGED <<sessions, saved, issued, plugin, events, results, resyncs,
                       crashes, history>>
        /\ plugin[p].id # NoId
    BY DEF Report
  <1>3. message \in Call
    BY <1>1 DEF Call, Message, PluginState
  <1>4. message.id = plugin[p].id /\ message.made = resyncs.scope[Scope[p]]
    OBVIOUS
  <1>. HIDE DEF message
  <1>5. /\ Append(calls[p], message) \in Seq(Call)
        /\ Elements(Append(calls[p], message)) \subseteq Elements(calls[p]) \cup {message}
    BY <1>1, <1>3, AppendElements
  <1>6. /\ MessagesOf(p)' \subseteq MessagesOf(p) \cup {message}
        /\ \A q \in Plugins : q # p => MessagesOf(q)' = MessagesOf(q)
    BY <1>1, <1>2, <1>5 DEF MessagesOf
  <1>7. \A q \in Plugins : HeldIds(q)' \subseteq HeldIds(q)
    BY <1>2, <1>4, <1>6 DEF HeldIds, ResultsOf
  <1>8. Types'
    <2>1. calls' \in [Plugins -> Seq(Call)]
      BY <1>1, <1>2, <1>5
    <2>. QED  BY <1>2, <2>1 DEF Inv, Types
  <1>9. NoStaleMessage'
    BY <1>2 DEF Inv, NoStaleMessage
  <1>10. \A q \in Plugins : \A m \in MessagesOf(q)' :
           /\ m.id # NoId
           /\ m \in MessagesOf(q) \/ ~(m.made < resyncs'.scope[Scope[q]])
    BY <1>1, <1>2, <1>4, <1>6 DEF Inv, StaleOut
  <1>. QED  BY <1>2, <1>7, <1>8, <1>9, <1>10, Keeps
-----------------------------------------------------------------------------
\* The invariant is inductive.
LEMMA NextInv ==
  Inv /\ [Next]_vars => Inv'
  <1>. SUFFICES ASSUME Inv, [Next]_vars PROVE Inv'
    OBVIOUS
  <1>1. CASE UNCHANGED vars
    <2>1. Types'
      BY <1>1 DEF vars, Inv, Types
    <2>2. \A q \in Plugins : HeldIds(q)' = HeldIds(q) /\ MessagesOf(q)' = MessagesOf(q)
      BY <1>1, HeldSame DEF vars
    <2>3. /\ NoStaleMessage' /\ issued' = issued /\ sessions' = sessions /\ saved' = saved
          /\ resyncs' = resyncs
      BY <1>1 DEF vars, Inv, NoStaleMessage
    <2>. QED  BY <2>1, <2>2, <2>3, Keeps DEF Inv, StaleOut
  <1>2. ASSUME NEW request \in Requests, Resynchronize(request) PROVE Inv'
    BY <1>2, ResynchronizeStep
  <1>3. CASE Commit
    BY <1>3, CommitStep
  <1>4. CASE Crash
    BY <1>4, CrashStep
  <1>5. ASSUME NEW p \in Plugins,
               \/ GetSessionId(p) \/ SendMessage(p) \/ ResynchronizePlugin(p)
               \/ SessionIdArrives(p) \/ StartLoop(p) \/ Report(p)
        PROVE  Inv'
    BY <1>5, GetSessionIdStep, SendMessageStep, ResynchronizePluginStep,
       SessionIdArrivesStep, StartLoopStep, ReportStep
  <1>. QED  BY <1>1, <1>2, <1>3, <1>4, <1>5 DEF Next

(***************************************************************************)
(* What send_message lets in was made after the last resynchronisation of  *)
(* the plugin's scope, whatever overtakes what on the two sockets and      *)
(* whenever the broker is killed.                                          *)
(***************************************************************************)
THEOREM NoStaleMessageEver == Spec => []NoStaleMessage
  <1>1. Inv => NoStaleMessage
    BY DEF Inv
  <1>. QED  BY InitInv, NextInv, <1>1, PTL DEF Spec

-----------------------------------------------------------------------------
(* Broadcasts to the clients                                               *)

\* How a message is broadcast: its state, the clients that are called, what
\* they answered, how often it was handled and reported as failed.  The client
\* with the plugin is called once; what is reported as failed is over, and
\* nobody has handled it.
Told(state, out, said, handled, failed) ==
    /\ handled \in {0, 1} /\ failed \in Nat
    /\ state = "none" => handled = 0 /\ failed = 0 /\ out = {}
    /\ manager \in out => handled = 0
    /\ failed # 0 => out = {} /\ handled = 0
    /\ state = "out" /\ handled = 1 => said # {}

Broadcasts ==
    [state : {"none", "out", "error", "done", "gone"}, out : SUBSET {monitor, manager},
     results : SUBSET {monitor, manager}, handled : Nat, failed : Nat]
RightlyTold(x) == x \in Broadcasts /\ Told(x.state, x.out, x.results, x.handled, x.failed)

BroadcastInv ==
    /\ op = [o \in Operations |-> op[o]]
    /\ \A o \in Operations : RightlyTold(op[o])

LEMMA OneTold ==
    ASSUME BroadcastInv, NEW o \in Operations, NEW x, RightlyTold(x), op' = [op EXCEPT ![o] = x]
    PROVE  BroadcastInv'
  <1>. HIDE DEF RightlyTold
  <1>. QED  BY DEF BroadcastInv

LEMMA BroadcastStep ==
    ASSUME BroadcastInv, NEW o \in Operations, C!Broadcast(o) PROVE BroadcastInv'
  <1>. DEFINE out == {n \in C!Known : C!Connected(n)}
              state == IF \A n \in C!Known : C!Connected(n) THEN "out" ELSE "error"
              failed == IF C!Known = {} THEN 1 ELSE 0
              x == [op[o] EXCEPT !.out = out, !.state = state, !.failed = failed]
  <1>1. op[o].state = "none" /\ op' = [op EXCEPT ![o] = x] /\ RightlyTold(op[o])
    BY DEF C!Broadcast, BroadcastInv
  <1>2. /\ failed \in Nat /\ (failed # 0 => out = {}) /\ state \in {"out", "error"}
        /\ out \subseteq {monitor, manager}
    BY DEF C!Known
  <1>. HIDE DEF out, state, failed
  <1>3. /\ x \in Broadcasts /\ x.state = state /\ x.out = out /\ x.results = op[o].results
        /\ x.handled = op[o].handled /\ x.failed = failed
    <2>1. op[o] \in Broadcasts
      BY <1>1 DEF RightlyTold
    <2>. QED  BY <1>2, <2>1 DEF Broadcasts
  <1>. HIDE DEF x
  <1>4. RightlyTold(x)
    BY <1>1, <1>2, <1>3 DEF RightlyTold, Told
  <1>. QED  BY <1>1, <1>4, OneTold

LEMMA MessageCalledStep ==
    ASSUME BroadcastInv, NEW o \in Operations, NEW n \in {monitor, manager}, C!MessageCalled(o, n)
    PROVE  BroadcastInv'
  <1>. DEFINE said == op[o].results \cup {m \in {n} : C!Handles(m)}
              last == op[o].state = "out" /\ op[o].out = {n}
              out == op[o].out \ {n}
              handled == IF C!Handles(n) THEN op[o].handled + 1 ELSE op[o].handled
              state == IF last THEN "done" ELSE op[o].state
              failed == IF last /\ said = {} THEN op[o].failed + 1 ELSE op[o].failed
              x == [op[o] EXCEPT !.out = out, !.results = said, !.handled = handled,
                                 !.state = state, !.failed = failed]
  <1>1. n \in op[o].out /\ op' = [op EXCEPT ![o] = x] /\ RightlyTold(op[o])
    BY DEF C!MessageCalled, BroadcastInv
  <1>2. op[o].handled \in {0, 1} /\ op[o].failed = 0 /\ (n = manager => op[o].handled = 0)
        /\ op[o].state # "none"
    BY <1>1 DEF RightlyTold, Told
  <1>3. /\ C!Handles(n) => n = manager /\ said # {}
        /\ op[o].results \subseteq said /\ said \subseteq op[o].results \cup {n}
    BY DEF C!Handles
  <1>4. Told(state, out, said, handled, failed)
    <2>. HIDE DEF said
    <2>. QED  BY <1>1, <1>2, <1>3 DEF RightlyTold, Told
  <1>5. /\ out \in SUBSET {monitor, manager} /\ said \in SUBSET {monitor, manager}
        /\ handled \in Nat /\ failed \in Nat
        /\ state \in {"none", "out", "error", "done", "gone"} /\ op[o] \in Broadcasts
    BY <1>1, <1>2, <1>3 DEF RightlyTold, Broadcasts
  <1>. HIDE DEF out, said, handled, state, failed
  <1>6. /\ x \in Broadcasts /\ x.state = state /\ x.out = out /\ x.results = said
        /\ x.handled = handled /\ x.failed = failed
    BY <1>5 DEF Broadcasts
  <1>. HIDE DEF x
  <1>. QED  BY <1>1, <1>4, <1>6, OneTold DEF RightlyTold

LEMMA AnswerLostStep ==
    ASSUME BroadcastInv, NEW o \in Operations, NEW n \in {monitor, manager}, C!AnswerLost(o, n)
    PROVE  BroadcastInv'
  <1>. DEFINE out == op[o].out \ {n}
              handled == IF C!Handles(n) THEN op[o].handled + 1 ELSE op[o].handled
              state == IF op[o].state = "out" THEN "error" ELSE op[o].state
              x == [op[o] EXCEPT !.out = out, !.handled = handled, !.state = state]
  <1>1. n \in op[o].out /\ op' = [op EXCEPT ![o] = x] /\ RightlyTold(op[o])
    BY DEF C!AnswerLost, BroadcastInv
  <1>2. C!Handles(n) => n = manager
    BY DEF C!Handles
  <1>3. Told(state, out, op[o].results, handled, op[o].failed)
    BY <1>1, <1>2 DEF RightlyTold, Told
  <1>4. /\ out \in SUBSET {monitor, manager} /\ handled \in Nat
        /\ state \in {"none", "out", "error", "done", "gone"} /\ op[o] \in Broadcasts
    BY <1>1 DEF RightlyTold, Broadcasts
  <1>. HIDE DEF out, handled, state
  <1>5. /\ x \in Broadcasts /\ x.state = state /\ x.out = out /\ x.results = op[o].results
        /\ x.handled = handled /\ x.failed = op[o].failed
    BY <1>4 DEF Broadcasts
  <1>. HIDE DEF x
  <1>. QED  BY <1>1, <1>3, <1>5, OneTold DEF RightlyTold

\* Calls fail for many broadcasts at once.
LEMMA CallsFailStep ==
    ASSUME BroadcastInv, NEW lost, C!CallsFail(lost) PROVE BroadcastInv'
  <1>1. op' = [o \in Operations |-> op'[o]]
    BY DEF C!CallsFail
  <1>2. ASSUME NEW o \in Operations PROVE RightlyTold(op'[o])
    <2>. DEFINE out == op[o].out \ lost
                state == IF op[o].state = "out" THEN "error" ELSE op[o].state
                x == [op[o] EXCEPT !.out = out, !.state = state]
    <2>0. RightlyTold(op[o])
      BY DEF BroadcastInv
    <2>1. Told(state, out, op[o].results, op[o].handled, op[o].failed)
      BY <2>0 DEF RightlyTold, Told
    <2>2. op'[o] = op[o] \/ op'[o] = x
      BY DEF C!CallsFail
    <2>3. /\ out \in SUBSET {monitor, manager} /\ op[o] \in Broadcasts
          /\ state \in {"none", "out", "error", "done", "gone"}
      BY <2>0 DEF RightlyTold, Broadcasts
    <2>. HIDE DEF out, state
    <2>4. /\ x \in Broadcasts /\ x.state = state /\ x.out = out /\ x.results = op[o].results
          /\ x.handled = op[o].handled /\ x.failed = op[o].failed
      BY <2>3 DEF Broadcasts
    <2>. HIDE DEF x
    <2>5. RightlyTold(x)
      BY <2>1, <2>4 DEF RightlyTold
    <2>. HIDE DEF RightlyTold
    <2>. QED  BY <2>0, <2>2, <2>5
  <1>. QED  BY <1>1, <1>2 DEF BroadcastInv

LEMMA BrokerRestartsStep ==
    ASSUME BroadcastInv, C!BrokerRestarts PROVE BroadcastInv'
  <1>1. op' = [o \in Operations |-> op'[o]]
    BY DEF C!BrokerRestarts
  <1>2. ASSUME NEW o \in Operations PROVE RightlyTold(op'[o])
    <2>. DEFINE x == [op[o] EXCEPT !.state = "gone", !.out = {}]
    <2>0. RightlyTold(op[o])
      BY DEF BroadcastInv
    <2>1. op'[o] = op[o] \/ op'[o] = x
      BY DEF C!BrokerRestarts
    <2>2. /\ x \in Broadcasts /\ x.state = "gone" /\ x.out = {} /\ x.results = op[o].results
          /\ x.handled = op[o].handled /\ x.failed = op[o].failed
      <3>1. op[o] \in Broadcasts
        BY <2>0 DEF RightlyTold
      <3>. QED  BY <2>1, <3>1 DEF Broadcasts
    <2>. HIDE DEF x
    <2>3. RightlyTold(x)
      BY <2>0, <2>2 DEF RightlyTold, Told
    <2>. HIDE DEF RightlyTold
    <2>. QED  BY <2>0, <2>1, <2>3
  <1>. QED  BY <1>1, <1>2 DEF BroadcastInv

LEMMA ClientsNext == BroadcastInv /\ [C!Next]_client_vars => BroadcastInv'
  <1>. SUFFICES ASSUME BroadcastInv, [C!Next]_client_vars PROVE BroadcastInv'
    OBVIOUS
  <1>1. UNCHANGED op => BroadcastInv'
    BY DEF BroadcastInv
  <1>2. ASSUME NEW n \in {monitor, manager}, C!RegisterClient(n) PROVE BroadcastInv'
    BY <1>1, <1>2, CallsFailStep DEF C!RegisterClient
  <1>3. ASSUME NEW n \in {monitor, manager}, C!ClientStarts(n) \/ C!ClientConnects(n) \/ C!ClientDies(n)
        PROVE  BroadcastInv'
    BY <1>1, <1>3, CallsFailStep DEF C!ClientStarts, C!ClientConnects, C!ClientDies
  <1>4. ASSUME NEW r \in Remotes, C!Connects(r) PROVE BroadcastInv'
    BY <1>1, <1>4 DEF C!Connects
  <1>5. CASE UNCHANGED client_vars
    BY <1>1, <1>5 DEF client_vars
  <1>6. CASE C!Next
    BY <1>2, <1>3, <1>4, <1>6, BroadcastStep, MessageCalledStep, AnswerLostStep, BrokerRestartsStep
    DEF C!Next, C!ClientSteps
  <1>. QED  BY <1>5, <1>6

(***************************************************************************)
(* An operation that a plugin handled is not answered as failed by the     *)
(* broker, and it is handled once, for any number of broadcasts, deaths of *)
(* clients, registrations and restarts of the broker.                      *)
(***************************************************************************)
THEOREM NotFailedIfHandledEver == PartsSpec => []NotFailedIfHandled
  <1>1. PartsInit => BroadcastInv
    <2>1. C!Init => BroadcastInv
      BY DEF C!Init, BroadcastInv, RightlyTold, Told, Broadcasts
    <2>. QED  BY <2>1 DEF PartsInit
  <1>2. BroadcastInv /\ [PartsNext]_all_vars => BroadcastInv'
    BY ClientsNext DEF PartsNext, all_vars, client_vars
  <1>3. BroadcastInv => NotFailedIfHandled
    BY DEF BroadcastInv, RightlyTold, Told, NotFailedIfHandled, C!NotFailedIfHandled
  <1>. QED  BY <1>1, <1>2, <1>3, PTL DEF PartsSpec

-----------------------------------------------------------------------------
(* Method calls                                                            *)

CallRecords == [stage : {"unmade", "idle", "chunk", "last", "pending"}, at : Nat,
                timer : {"none", "set", "spent"}, fired : {0, 1}]

\* The deferred has fired if the retry timer is spent, and not while it is set
\* or while the call goes on without one.
FiredRight(q) ==
    /\ q \in CallRecords
    /\ q.timer = "spent" => q.fired = 1
    /\ q.timer = "set" => q.fired = 0 /\ q.stage \in {"chunk", "last", "pending"}
    /\ q.stage \in {"chunk", "last", "pending"} /\ q.timer # "spent" => q.fired = 0
    /\ q.stage = "unmade" => q.fired = 0 /\ q.timer = "none"
    /\ q.stage = "pending" => setting.retryOnReconnect

\* How often a call may have been executed: once for each connection.
Limit == IF setting.retryOnReconnect THEN losses + (IF connected THEN 1 ELSE 0) ELSE 1

\* The first n chunks of a call
Chunks(c, n) == [i \in 1 .. n |-> <<c, i>>]

\* Where a call is, by what is on its way of it (w to the receiver, a back),
\* what the receiver has of it and how often it was executed: nowhere,
Away(c, w, a, q, b, x) ==
    /\ w = {} /\ a = {} /\ b = <<>> /\ q.stage \notin {"chunk", "last"} /\ x <= Limit
    /\ q.stage = "unmade" => x = 0
\* on its way with a chunk,
Sending(c, w, a, q, b, x) ==
    /\ w = {R!SentChunk(c, q.at)} /\ a = {} /\ x < Limit
    /\ q.at \in 1 .. R!LastChunk(c) /\ b = Chunks(c, q.at - 1)
    /\ IF q.at < R!LastChunk(c) THEN q.stage = "chunk" ELSE q.stage \in {"last", "idle"}
\* acknowledged so far,
Acked(c, w, a, q, b, x) ==
    /\ w = {} /\ a = {[kind |-> "chunk", call |-> c]} /\ x < Limit
    /\ q.at \in 1 .. R!LastChunk(c) - 1 /\ b = Chunks(c, q.at) /\ q.stage = "chunk"
\* or answered.
Answered(c, w, a, q, b, x) ==
    /\ w = {} /\ b = <<>> /\ q.stage \in {"last", "idle"} /\ x <= Limit
    /\ \E kind \in {"result", "error"} : a = {[kind |-> kind, call |-> c]}

Somewhere(c, w, a, q, b, x) ==
    \/ Away(c, w, a, q, b, x) \/ Sending(c, w, a, q, b, x)
    \/ Acked(c, w, a, q, b, x) \/ Answered(c, w, a, q, b, x)

Of(s, c) == {m \in ToSet(s) : m.call = c}
CallInv(c) ==
    /\ FiredRight(call[c]) /\ executed[c] \in Nat
    /\ Somewhere(c, Of(wire, c), Of(answers, c), call[c], buffer[c], executed[c])

Distinct(s) == \A i, j \in DOMAIN s : s[i].call = s[j].call => i = j

CallTypes ==
    /\ setting \in Settings /\ losses \in Nat
    /\ call = [c \in Calls |-> call[c]] /\ buffer = [c \in Calls |-> buffer[c]]
    /\ executed = [c \in Calls |-> executed[c]]
    /\ wire \in Seq([call : Calls, chunk : Nat]) /\ Distinct(wire)
    /\ answers \in Seq([kind : {"chunk", "result", "error"}, call : Calls]) /\ Distinct(answers)
    /\ pending \in Seq(Calls)
    /\ ~connected => wire = <<>> /\ answers = <<>>

CallsInv == CallTypes /\ ~garbled /\ R!PendingRight /\ \A c \in Calls : CallInv(c)

Wires == [call : Calls, chunk : Nat]
Replies == [kind : {"chunk", "result", "error"}, call : Calls]

LEMMA TailOf ==
    ASSUME NEW T, NEW s \in Seq(T), s # <<>>, Distinct(s)
    PROVE  /\ Distinct(Tail(s)) /\ Tail(s) \in Seq(T) /\ Head(s) \in T
           /\ Head(s) \in Of(s, Head(s).call) /\ Of(Tail(s), Head(s).call) = {}
           /\ \A d : d # Head(s).call => Of(Tail(s), d) = Of(s, d)
  <1>1. /\ Tail(s) \in Seq(T) /\ Len(Tail(s)) = Len(s) - 1 /\ Head(s) = s[1] /\ Len(s) \in Nat \ {0}
        /\ \A i \in 1 .. Len(s) - 1 : Tail(s)[i] = s[i + 1]
        /\ DOMAIN s = 1 .. Len(s) /\ DOMAIN Tail(s) = 1 .. Len(s) - 1 /\ Head(s) \in T
    OBVIOUS
  <1>2. Distinct(Tail(s))
    BY <1>1 DEF Distinct
  <1>3. Head(s) \in Of(s, Head(s).call)
    BY <1>1 DEF Of, ToSet
  <1>4. \A m \in ToSet(Tail(s)) : m.call # Head(s).call /\ m \in ToSet(s)
    BY <1>1 DEF Distinct, ToSet
  <1>5. \A m \in ToSet(s) : m = Head(s) \/ m \in ToSet(Tail(s))
    <2>. SUFFICES ASSUME NEW i \in DOMAIN s, i # 1 PROVE s[i] \in ToSet(Tail(s))
      BY <1>1 DEF ToSet
    <2>1. i - 1 \in 1 .. Len(s) - 1 /\ Tail(s)[i - 1] = s[i]
      BY <1>1
    <2>. QED  BY <1>1, <2>1 DEF ToSet
  <1>. QED  BY <1>1, <1>2, <1>3, <1>4, <1>5 DEF Of

\* The sequence t is s and then e, which belongs to a call that s does not have
Appended(T, s, c, e, t) ==
    /\ t \in Seq(T) /\ Distinct(t) /\ Of(t, c) = {e}
    /\ \A d \in Calls \ {c} : Of(t, d) = Of(s, d)

LEMMA AppendIs ==
    ASSUME NEW T, NEW s \in Seq(T), Distinct(s), NEW c, Of(s, c) = {}, NEW e \in T, e.call = c
    PROVE  Appended(T, s, c, e, Append(s, e))
  <1>. DEFINE t == Append(s, e)
  <1>1. /\ t \in Seq(T) /\ DOMAIN t = 1 .. Len(s) + 1 /\ Len(s) \in Nat
        /\ \A i \in 1 .. Len(s) : t[i] = s[i]
        /\ t[Len(s) + 1] = e /\ DOMAIN s = 1 .. Len(s)
    OBVIOUS
  <1>. HIDE DEF t
  <1>2. \A i \in DOMAIN s : s[i].call # c
    BY DEF Of, ToSet
  <1>3. Distinct(t)
    BY <1>1, <1>2 DEF Distinct
  <1>4. ToSet(t) = ToSet(s) \cup {e}
    BY <1>1 DEF ToSet
  <1>5. Of(t, c) = {e}
    BY <1>2, <1>4 DEF Of, ToSet
  <1>6. \A d \in Calls \ {c} : Of(t, d) = Of(s, d)
    BY <1>4 DEF Of
  <1>7. Appended(T, s, c, e, t)
    BY <1>1, <1>3, <1>5, <1>6 DEF Appended
  <1>. QED  BY <1>7 DEF t

\* What becomes of a call
LEMMA GiveUpIs ==
    ASSUME NEW q, FiredRight(q), q.stage \in {"unmade", "chunk", "last"}
    PROVE  FiredRight(R!GiveUp(q)) /\ R!GiveUp(q).stage = "idle" /\ R!GiveUp(q).at = q.at
  <1>1. CASE q.timer = "spent"
    <2>. DEFINE x == [q EXCEPT !.stage = "idle"]
    <2>1. R!GiveUp(q) = x
      BY <1>1 DEF R!GiveUp
    <2>2. x \in CallRecords /\ x.stage = "idle" /\ x.at = q.at /\ x.timer = q.timer /\ x.fired = q.fired
      BY DEF FiredRight, CallRecords
    <2>. HIDE DEF x
    <2>. QED  BY <1>1, <2>1, <2>2 DEF FiredRight
  <1>2. CASE q.timer # "spent"
    <2>. DEFINE x == [q EXCEPT !.stage = "idle", !.timer = "none", !.fired = 1]
    <2>1. q.fired = 0 /\ q.fired + 1 = 1 /\ q \in CallRecords
      BY <1>2 DEF FiredRight
    <2>2. R!GiveUp(q) = x
      BY <1>2, <2>1 DEF R!GiveUp, R!Fire
    <2>3. x \in CallRecords /\ x.stage = "idle" /\ x.at = q.at /\ x.timer = "none"
      BY <2>1 DEF CallRecords
    <2>. HIDE DEF x
    <2>. QED  BY <2>2, <2>3 DEF FiredRight
  <1>. QED  BY <1>1, <1>2

LEMMA FailIs ==
    ASSUME NEW q, FiredRight(q), q.stage \in {"unmade", "chunk", "last"}
    PROVE  /\ FiredRight(R!Fail(q)) /\ R!Fail(q).stage \in {"idle", "pending"}
           /\ R!Fail(q).stage = "pending" <=> setting.retryOnReconnect
  <1>1. CASE ~setting.retryOnReconnect
    BY <1>1, GiveUpIs DEF R!Fail
  <1>2. CASE setting.retryOnReconnect
    <2>. DEFINE x == R!Keep(q)
    <2>1. /\ x \in CallRecords /\ x.stage = "pending" /\ x.fired = q.fired
          /\ x.timer \in {q.timer, "set"} /\ (q.timer = "spent" <=> x.timer = "spent")
      BY DEF FiredRight, CallRecords, R!Keep
    <2>2. R!Fail(q) = x
      BY <1>2 DEF R!Fail
    <2>. HIDE DEF x
    <2>3. FiredRight(x)
      BY <1>2, <2>1 DEF FiredRight
    <2>. QED  BY <1>2, <2>1, <2>2, <2>3
  <1>. QED  BY <1>1, <1>2

LEMMA WaitingIs ==
    ASSUME NEW c, NEW q, NEW n \in Nat, FiredRight(q), q.stage \in {"unmade", "chunk", "pending"}
    PROVE  LET x == R!Waiting(c, q, n)
           IN  /\ FiredRight(x) /\ x.at = n
               /\ x.stage = IF n = R!LastChunk(c) THEN "last" ELSE "chunk"
  <1>. DEFINE x == R!Waiting(c, q, n)
  <1>1. /\ x \in CallRecords /\ x.at = n /\ x.fired = q.fired /\ x.timer = q.timer
        /\ x.stage = IF n = R!LastChunk(c) THEN "last" ELSE "chunk"
    BY DEF FiredRight, CallRecords, R!Waiting
  <1>. HIDE DEF x
  <1>2. FiredRight(x)
    BY <1>1 DEF FiredRight
  <1>. QED  BY <1>1, <1>2 DEF x

LEMMA ResultIs ==
    ASSUME NEW q, FiredRight(q), q.stage = "last"
    PROVE  LET x == R!HandleResult(q)
           IN  FiredRight(x) /\ x.stage \in {"idle", "pending"}
  <1>1. CASE q.timer = "spent"
    BY <1>1, FailIs DEF R!HandleResult
  <1>2. CASE q.timer # "spent"
    <2>1. R!HandleResult(q) = R!GiveUp(q)
      BY <1>2 DEF R!HandleResult, R!GiveUp
    <2>. QED  BY <2>1, GiveUpIs
  <1>. QED  BY <1>1, <1>2

\* The call to which nothing happens, while connections are lost and made
LEMMA CallStays ==
    ASSUME CallsInv, NEW d \in Calls, UNCHANGED setting, Limit' >= Limit, Limit' \in Nat,
           Of(wire, d)' = Of(wire, d), Of(answers, d)' = Of(answers, d),
           call'[d] = call[d], buffer'[d] = buffer[d], executed'[d] = executed[d]
    PROVE  CallInv(d)'
  <1>0. FiredRight(call[d]) /\ executed[d] \in Nat /\ Limit \in Nat /\ setting' = setting
        /\ Somewhere(d, Of(wire, d), Of(answers, d), call[d], buffer[d], executed[d])
    BY DEF CallsInv, CallInv, Limit, CallTypes
  <1>1. FiredRight(call[d])'
    BY <1>0 DEF FiredRight, CallRecords
  <1>. DEFINE w == Of(wire, d)  a == Of(answers, d)
  <1>2. Somewhere(d, w, a, call[d], buffer[d], executed[d])'
    <2>. HIDE DEF w, a
    <2>1. /\ w' = w /\ a' = a
          /\ Somewhere(d, w, a, call[d], buffer[d], executed[d])
      BY <1>0 DEF w, a
    <2>2. R!LastChunk(d)' = R!LastChunk(d) /\ Chunks(d, call[d].at - 1)' = Chunks(d, call[d].at - 1)
          /\ Chunks(d, call[d].at)' = Chunks(d, call[d].at)
          /\ R!SentChunk(d, call[d].at)' = R!SentChunk(d, call[d].at)
      BY <1>0 DEF R!LastChunk, Chunks, R!SentChunk
    <2>3. CASE Away(d, w, a, call[d], buffer[d], executed[d])
      BY <1>0, <2>1, <2>3 DEF Somewhere, Away
    <2>4. CASE Sending(d, w, a, call[d], buffer[d], executed[d])
      BY <1>0, <2>1, <2>2, <2>4 DEF Somewhere, Sending
    <2>5. CASE Acked(d, w, a, call[d], buffer[d], executed[d])
      BY <1>0, <2>1, <2>2, <2>5 DEF Somewhere, Acked
    <2>6. CASE Answered(d, w, a, call[d], buffer[d], executed[d])
      BY <1>0, <2>1, <2>6 DEF Somewhere, Answered
    <2>. QED  BY <2>1, <2>3, <2>4, <2>5, <2>6 DEF Somewhere
  <1>. QED  BY <1>0, <1>1, <1>2 DEF CallInv

\* A step of one call, after which it is somewhere again
LEMMA OneCall ==
    ASSUME CallsInv, CallTypes', ~garbled', R!PendingRight',
           UNCHANGED <<setting, losses, connected>>, NEW c \in Calls,
           \A d \in Calls \ {c} :
             /\ Of(wire, d)' = Of(wire, d) /\ Of(answers, d)' = Of(answers, d)
             /\ call'[d] = call[d] /\ buffer'[d] = buffer[d] /\ executed'[d] = executed[d],
           FiredRight(call'[c]), executed'[c] \in Nat,
           Somewhere(c, Of(wire', c), Of(answers', c), call'[c], buffer'[c], executed'[c])
    PROVE  CallsInv'
  <1>0. Limit' = Limit /\ Limit \in Nat /\ setting' = setting
    BY DEF Limit, CallsInv, CallTypes
  <1>1. \A d \in Calls \ {c} : CallInv(d)'
    BY <1>0, CallStays
  <1>2. CallInv(c)'
    <2>1. FiredRight(call[c])'
      BY <1>0 DEF FiredRight, CallRecords
    <2>. DEFINE w == Of(wire', c)  a == Of(answers', c)
    <2>2. /\ R!LastChunk(c)' = R!LastChunk(c)
          /\ Chunks(c, call[c].at - 1)' = Chunks(c, call'[c].at - 1)
          /\ Chunks(c, call[c].at)' = Chunks(c, call'[c].at)
          /\ R!SentChunk(c, call[c].at)' = R!SentChunk(c, call'[c].at)
      BY <1>0 DEF R!LastChunk, Chunks, R!SentChunk
    <2>3. Somewhere(c, Of(wire, c), Of(answers, c), call[c], buffer[c], executed[c])'
      <3>0. w = Of(wire, c)' /\ a = Of(answers, c)'
            /\ Somewhere(c, w, a, call'[c], buffer'[c], executed'[c])
        BY DEF Of, ToSet
      <3>. HIDE DEF w, a
      <3>1. CASE Away(c, w, a, call'[c], buffer'[c], executed'[c])
        BY <1>0, <3>0, <3>1 DEF Somewhere, Away
      <3>2. CASE Sending(c, w, a, call'[c], buffer'[c], executed'[c])
        BY <1>0, <2>2, <3>0, <3>2 DEF Somewhere, Sending
      <3>3. CASE Acked(c, w, a, call'[c], buffer'[c], executed'[c])
        BY <1>0, <2>2, <3>0, <3>3 DEF Somewhere, Acked
      <3>4. CASE Answered(c, w, a, call'[c], buffer'[c], executed'[c])
        BY <1>0, <3>0, <3>4 DEF Somewhere, Answered
      <3>. QED  BY <3>0, <3>1, <3>2, <3>3, <3>4 DEF Somewhere
    <2>. QED  BY <2>1, <2>3 DEF CallInv
  <1>. QED  BY <1>1, <1>2 DEF CallsInv

LEMMA PendingIs ==
    /\ R!PendingRight <=> (ToSet(pending) = R!Kept(call) /\ IsInjective(pending))
    /\ R!PendingRight' <=> (ToSet(pending') = R!Kept(call') /\ IsInjective(pending'))
  BY DEF R!PendingRight, R!ToSet, R!IsInjective, ToSet, IsInjective, R!Kept

\* The calls that are kept, after a step of one call that was not
LEMMA KeptAfter ==
    ASSUME CallsInv, NEW c \in Calls, call[c].stage # "pending",
           \A d \in Calls \ {c} : call'[d] = call[d],
           pending' = IF call'[c].stage = "pending" THEN Append(pending, c) ELSE pending
    PROVE  R!PendingRight' /\ pending' \in Seq(Calls)
  <1>0. /\ pending \in Seq(Calls) /\ ToSet(pending) = R!Kept(call) /\ c \notin ToSet(pending)
        /\ IsInjective(pending)
    BY PendingIs DEF CallsInv, CallTypes, R!Kept
  <1>1. CASE call'[c].stage = "pending"
    <2>1. pending' = Append(pending, c)
      BY <1>1
    <2>2. ToSet(pending') = ToSet(pending) \cup {c} /\ IsInjective(pending') /\ pending' \in Seq(Calls)
      BY <1>0, <2>1 DEF ToSet, IsInjective
    <2>3. R!Kept(call') = R!Kept(call) \cup {c}
      BY <1>1 DEF R!Kept
    <2>. QED  BY <1>0, <2>2, <2>3, PendingIs
  <1>2. CASE call'[c].stage # "pending"
    <2>1. R!Kept(call') = R!Kept(call) /\ pending' = pending
      BY <1>2 DEF R!Kept
    <2>. QED  BY <1>0, <2>1, PendingIs
  <1>. QED  BY <1>1, <1>2

LEMMA CallIs ==
    ASSUME CallsInv, NEW c \in Calls
    PROVE  /\ FiredRight(call[c]) /\ executed[c] \in Nat /\ Limit \in Nat
           /\ Somewhere(c, Of(wire, c), Of(answers, c), call[c], buffer[c], executed[c])
           /\ R!LastChunk(c) \in Nat \ {0} /\ call[c].at \in Nat
  BY CallsAssumption
  DEF CallsInv, CallInv, CallTypes, Limit, R!LastChunk, FiredRight, CallRecords

\* The places of a call, by its stage
LEMMA PlaceByStage ==
    ASSUME CallsInv, NEW c \in Calls
    PROVE  /\ call[c].stage \in {"unmade", "pending"} =>
                Away(c, Of(wire, c), Of(answers, c), call[c], buffer[c], executed[c])
           /\ call[c].stage = "last" =>
                \/ Sending(c, Of(wire, c), Of(answers, c), call[c], buffer[c], executed[c])
                \/ Answered(c, Of(wire, c), Of(answers, c), call[c], buffer[c], executed[c])
  BY CallIs DEF Somewhere, Away, Sending, Acked, Answered

LEMMA MakeCallStep ==
    ASSUME CallsInv, NEW c \in Calls, R!MakeCall(c) PROVE CallsInv'
  <1>0. /\ call[c].stage = "unmade" /\ UNCHANGED <<setting, connected, losses, answers, buffer,
                                                   executed, garbled>>
        /\ Away(c, Of(wire, c), Of(answers, c), call[c], buffer[c], executed[c])
    BY PlaceByStage DEF R!MakeCall
  <1>1. CASE connected
    <2>. DEFINE q == R!Waiting(c, call[c], 1)
                e == R!SentChunk(c, 1)
    <2>1. /\ call' = [call EXCEPT ![c] = q] /\ wire' = Append(wire, e) /\ pending' = pending
      BY <1>1 DEF R!MakeCall
    <2>2. FiredRight(q) /\ q.at = 1 /\ q.stage = IF 1 = R!LastChunk(c) THEN "last" ELSE "chunk"
      BY <1>0, CallIs, WaitingIs
    <2>. HIDE DEF q
    <2>3. e \in Wires /\ e.call = c
      BY DEF R!SentChunk, Wires
    <2>. HIDE DEF e
    <2>4. /\ Distinct(wire') /\ wire' \in Seq(Wires)
          /\ Of(wire', c) = {e} /\ \A d \in Calls \ {c} : Of(wire', d) = Of(wire, d)
      <3>1. wire \in Seq(Wires) /\ Distinct(wire) /\ Of(wire, c) = {}
        BY <1>0 DEF Away, CallsInv, CallTypes, Wires
      <3>2. Appended(Wires, wire, c, e, Append(wire, e))
        BY <2>3, <3>1, AppendIs
      <3>. QED  BY <2>1, <3>2 DEF Appended
    <2>5. call'[c] = q /\ \A d \in Calls \ {c} : call'[d] = call[d]
      BY <2>1 DEF CallsInv, CallTypes
    <2>6. call' = [d \in Calls |-> call'[d]]
      BY <2>1 DEF CallsInv, CallTypes
    <2>7. R!PendingRight' /\ pending' \in Seq(Calls)
      BY <1>0, <2>1, <2>2, <2>5, KeptAfter
    <2>8. CallTypes'
      BY <1>0, <1>1, <2>4, <2>6, <2>7 DEF CallsInv, CallTypes, Distinct, Wires
    <2>9. Sending(c, Of(wire', c), Of(answers', c), call'[c], buffer'[c], executed'[c])
      <3>1. Limit > 0 /\ executed[c] = 0
        BY <1>0, <1>1 DEF Away, Limit, CallsInv, CallTypes
      <3>2. buffer[c] = Chunks(c, 1 - 1)
        BY <1>0 DEF Away, Chunks
      <3>. QED  BY <1>0, <2>2, <2>4, <2>5, <3>1, <3>2, CallIs DEF Sending, Away, e
    <2>. QED  BY <1>0, <2>2, <2>4, <2>5, <2>7, <2>8, <2>9, OneCall, CallIs
              DEF Somewhere, CallsInv
  <1>2. CASE ~connected
    <2>. DEFINE q == R!Fail(call[c])
    <2>1. /\ call' = [call EXCEPT ![c] = q] /\ wire' = wire
          /\ pending' = IF setting.retryOnReconnect THEN Append(pending, c) ELSE pending
      BY <1>2 DEF R!MakeCall
    <2>2. /\ FiredRight(q) /\ q.stage \in {"idle", "pending"}
          /\ q.stage = "pending" <=> setting.retryOnReconnect
      BY <1>0, CallIs, FailIs
    <2>. HIDE DEF q
    <2>5. call'[c] = q /\ \A d \in Calls \ {c} : call'[d] = call[d]
      BY <2>1 DEF CallsInv, CallTypes
    <2>6. call' = [d \in Calls |-> call'[d]]
      BY <2>1 DEF CallsInv, CallTypes
    <2>7. R!PendingRight' /\ pending' \in Seq(Calls)
      BY <1>0, <2>1, <2>2, <2>5, KeptAfter
    <2>8. CallTypes'
      BY <1>0, <1>2, <2>1, <2>6, <2>7 DEF CallsInv, CallTypes, Distinct
    <2>9. Away(c, Of(wire', c), Of(answers', c), call'[c], buffer'[c], executed'[c])
      BY <1>0, <2>1, <2>2, <2>5 DEF Away
    <2>. QED  BY <1>0, <2>1, <2>2, <2>5, <2>7, <2>8, <2>9, OneCall, CallIs DEF Somewhere, CallsInv
  <1>. QED  BY <1>1, <1>2

\* The first thing that is on its way to the receiver, or back
LEMMA FirstOnWire ==
    ASSUME CallsInv, wire # <<>>
    PROVE  LET c == Head(wire).call
           IN  /\ c \in Calls /\ Head(wire) = R!SentChunk(c, call[c].at)
               /\ Sending(c, Of(wire, c), Of(answers, c), call[c], buffer[c], executed[c])
               /\ Distinct(Tail(wire)) /\ Tail(wire) \in Seq(Wires) /\ Of(Tail(wire), c) = {}
               /\ \A d \in Calls \ {c} : Of(Tail(wire), d) = Of(wire, d)
               /\ connected
  <1>. DEFINE c == Head(wire).call
  <1>0. wire \in Seq(Wires) /\ Distinct(wire) /\ (~connected => wire = <<>>)
    BY DEF CallsInv, CallTypes, Wires
  <1>1. /\ Distinct(Tail(wire)) /\ Tail(wire) \in Seq(Wires) /\ Head(wire) \in Wires
        /\ Head(wire) \in Of(wire, c) /\ Of(Tail(wire), c) = {}
        /\ \A d \in Calls \ {c} : Of(Tail(wire), d) = Of(wire, d)
    BY <1>0, TailOf
  <1>2. c \in Calls
    BY <1>1 DEF Wires
  <1>3. Sending(c, Of(wire, c), Of(answers, c), call[c], buffer[c], executed[c])
    <2>. HIDE DEF c
    <2>. QED  BY <1>1, <1>2, CallIs DEF Somewhere, Away, Acked, Answered
  <1>4. Head(wire) = R!SentChunk(c, call[c].at)
    BY <1>1, <1>3 DEF Sending
  <1>. QED  BY <1>0, <1>1, <1>2, <1>3, <1>4

LEMMA FirstAnswer ==
    ASSUME CallsInv, answers # <<>>
    PROVE  LET c == Head(answers).call
           IN  /\ c \in Calls
               /\ IF Head(answers).kind = "chunk"
                  THEN Acked(c, Of(wire, c), Of(answers, c), call[c], buffer[c], executed[c])
                  ELSE Answered(c, Of(wire, c), Of(answers, c), call[c], buffer[c], executed[c])
               /\ Distinct(Tail(answers)) /\ Tail(answers) \in Seq(Replies)
               /\ Of(Tail(answers), c) = {}
               /\ \A d \in Calls \ {c} : Of(Tail(answers), d) = Of(answers, d)
               /\ connected
  <1>. DEFINE c == Head(answers).call
  <1>0. answers \in Seq(Replies) /\ Distinct(answers) /\ (~connected => answers = <<>>)
    BY DEF CallsInv, CallTypes, Replies
  <1>1. /\ Distinct(Tail(answers)) /\ Tail(answers) \in Seq(Replies) /\ Head(answers) \in Replies
        /\ Head(answers) \in Of(answers, c) /\ Of(Tail(answers), c) = {}
        /\ \A d \in Calls \ {c} : Of(Tail(answers), d) = Of(answers, d)
    BY <1>0, TailOf
  <1>2. c \in Calls
    BY <1>1 DEF Replies
  <1>3. IF Head(answers).kind = "chunk"
        THEN Acked(c, Of(wire, c), Of(answers, c), call[c], buffer[c], executed[c])
        ELSE Answered(c, Of(wire, c), Of(answers, c), call[c], buffer[c], executed[c])
    <2>. HIDE DEF c
    <2>1. CASE Acked(c, Of(wire, c), Of(answers, c), call[c], buffer[c], executed[c])
      BY <1>1, <2>1 DEF Acked
    <2>2. CASE Answered(c, Of(wire, c), Of(answers, c), call[c], buffer[c], executed[c])
      BY <1>1, <2>2 DEF Answered
    <2>. QED  BY <1>1, <1>2, <2>1, <2>2, CallIs DEF Somewhere, Away, Sending
  <1>. QED  BY <1>0, <1>1, <1>2, <1>3

LEMMA AcknowledgedStep ==
    ASSUME CallsInv, R!Acknowledged PROVE CallsInv'
  <1>. DEFINE c == Head(answers).call
              n == call[c].at + 1
              q == R!Waiting(c, call[c], n)
              e == R!SentChunk(c, n)
  <1>0. /\ answers # <<>> /\ Head(answers).kind = "chunk" /\ answers' = Tail(answers)
        /\ call' = [call EXCEPT ![c] = q] /\ wire' = Append(wire, e)
        /\ UNCHANGED <<setting, connected, losses, pending, buffer, executed, garbled>>
    BY DEF R!Acknowledged
  <1>1. /\ c \in Calls /\ Acked(c, Of(wire, c), Of(answers, c), call[c], buffer[c], executed[c])
        /\ Distinct(Tail(answers)) /\ Tail(answers) \in Seq(Replies)
        /\ Of(Tail(answers), c) = {} /\ connected
        /\ \A d \in Calls \ {c} : Of(Tail(answers), d) = Of(answers, d)
    BY <1>0, FirstAnswer
  <1>. HIDE DEF c
  <1>2. n \in Nat /\ call[c].stage = "chunk" /\ n \in 1 .. R!LastChunk(c)
    BY <1>1, CallIs DEF Acked
  <1>3. FiredRight(q) /\ q.at = n /\ q.stage = IF n = R!LastChunk(c) THEN "last" ELSE "chunk"
    BY <1>1, <1>2, CallIs, WaitingIs
  <1>4. call'[c] = q /\ (\A d \in Calls \ {c} : call'[d] = call[d]) /\ call' = [d \in Calls |-> call'[d]]
    BY <1>0, <1>1 DEF CallsInv, CallTypes
  <1>. HIDE DEF q
  <1>5. e \in Wires /\ e.call = c
    BY <1>1, <1>2 DEF R!SentChunk, Wires
  <1>6. /\ Distinct(wire') /\ wire' \in Seq(Wires)
        /\ Of(wire', c) = {e} /\ \A d \in Calls \ {c} : Of(wire', d) = Of(wire, d)
    <2>1. wire \in Seq(Wires) /\ Distinct(wire) /\ Of(wire, c) = {}
      BY <1>1 DEF Acked, CallsInv, CallTypes, Wires
    <2>. HIDE DEF e
    <2>2. Appended(Wires, wire, c, e, Append(wire, e))
      BY <1>5, <2>1, AppendIs
    <2>. QED  BY <1>0, <2>2 DEF Appended
  <1>7. R!PendingRight' /\ pending' \in Seq(Calls)
    BY <1>0, <1>1, <1>2, <1>3, <1>4, KeptAfter
  <1>8. CallTypes'
    BY <1>0, <1>1, <1>4, <1>6, <1>7 DEF CallsInv, CallTypes, Distinct, Wires, Replies
  <1>9. Sending(c, Of(wire', c), Of(answers', c), call'[c], buffer'[c], executed'[c])
    <2>1. call[c].at = n - 1
      BY <1>1, CallIs
    <2>. HIDE DEF n
    <2>. QED  BY <1>0, <1>1, <1>2, <1>3, <1>4, <1>6, <2>1, CallIs DEF Sending, Acked
  <1>10. \A d \in Calls \ {c} :
            /\ Of(wire, d)' = Of(wire, d) /\ Of(answers, d)' = Of(answers, d)
            /\ call'[d] = call[d] /\ buffer'[d] = buffer[d] /\ executed'[d] = executed[d]
    BY <1>0, <1>1, <1>4, <1>6
  <1>11. /\ FiredRight(call'[c]) /\ executed'[c] \in Nat /\ ~garbled'
         /\ Somewhere(c, Of(wire', c), Of(answers', c), call'[c], buffer'[c], executed'[c])
    BY <1>0, <1>1, <1>3, <1>4, <1>9, CallIs DEF Somewhere, CallsInv
  <1>. QED  BY <1>0, <1>1, <1>7, <1>8, <1>10, <1>11, OneCall

LEMMA ResultStep ==
    ASSUME CallsInv, R!Result PROVE CallsInv'
  <1>. DEFINE c == Head(answers).call
              q == IF Head(answers).kind = "result" THEN R!HandleResult(call[c])
                                                    ELSE R!GiveUp(call[c])
  <1>0. /\ answers # <<>> /\ Head(answers).kind \in {"result", "error"} /\ answers' = Tail(answers)
        /\ IF call[c].stage = "last"
           THEN /\ call' = [call EXCEPT ![c] = q]
                /\ pending' = IF q.stage = "pending" THEN Append(pending, c) ELSE pending
           ELSE UNCHANGED <<call, pending>>
        /\ UNCHANGED <<setting, connected, losses, wire, buffer, executed, garbled>>
    BY DEF R!Result
  <1>1. /\ c \in Calls /\ Answered(c, Of(wire, c), Of(answers, c), call[c], buffer[c], executed[c])
        /\ Distinct(Tail(answers)) /\ Tail(answers) \in Seq(Replies)
        /\ Of(Tail(answers), c) = {} /\ connected
        /\ \A d \in Calls \ {c} : Of(Tail(answers), d) = Of(answers, d)
    BY <1>0, FirstAnswer
  <1>. DEFINE kind == Head(answers).kind
  <1>. HIDE DEF c, kind
  <1>2. call[c].stage = "last" => FiredRight(q) /\ q.stage \in {"idle", "pending"}
    <2>1. FiredRight(call[c])
      BY <1>1, CallIs
    <2>. QED  BY <2>1, ResultIs, GiveUpIs
  <1>. HIDE DEF q
  <1>3. /\ FiredRight(call'[c]) /\ call'[c].stage \in {"idle", "pending"}
        /\ \A d \in Calls \ {c} : call'[d] = call[d]
        /\ call' = [d \in Calls |-> call'[d]]
    <2>1. FiredRight(call[c]) /\ call = [d \in Calls |-> call[d]] /\ call[c].stage \in {"last", "idle"}
      BY <1>1, CallIs DEF CallsInv, CallTypes, Answered
    <2>2. CASE call[c].stage = "last"
      <3>1. call' = [call EXCEPT ![c] = q]
        BY <1>0, <2>2
      <3>. QED  BY <1>1, <1>2, <2>1, <2>2, <3>1
    <2>3. CASE call[c].stage # "last"
      BY <1>0, <1>1, <2>1, <2>3
    <2>. QED  BY <2>2, <2>3
  <1>4. pending' = IF call'[c].stage = "pending" THEN Append(pending, c) ELSE pending
    <2>1. CASE call[c].stage = "last"
      <3>1. call' = [call EXCEPT ![c] = q] /\ call = [d \in Calls |-> call[d]]
        BY <1>0, <2>1 DEF CallsInv, CallTypes
      <3>2. call'[c] = q
        BY <1>1, <3>1
      <3>. QED  BY <1>0, <2>1, <3>2
    <2>2. CASE call[c].stage # "last"
      BY <1>0, <1>1, <2>2 DEF Answered
    <2>. QED  BY <2>1, <2>2
  <1>5. R!PendingRight' /\ pending' \in Seq(Calls)
    BY <1>1, <1>3, <1>4, KeptAfter DEF Answered
  <1>6. CallTypes'
    BY <1>0, <1>1, <1>3, <1>5 DEF CallsInv, CallTypes, Distinct, Replies
  <1>7. Away(c, Of(wire', c), Of(answers', c), call'[c], buffer'[c], executed'[c])
    BY <1>0, <1>1, <1>3 DEF Away, Answered
  <1>8. \A d \in Calls \ {c} :
            /\ Of(wire, d)' = Of(wire, d) /\ Of(answers, d)' = Of(answers, d)
            /\ call'[d] = call[d] /\ buffer'[d] = buffer[d] /\ executed'[d] = executed[d]
    BY <1>0, <1>1, <1>3
  <1>9. /\ executed'[c] \in Nat /\ ~garbled'
        /\ Somewhere(c, Of(wire', c), Of(answers', c), call'[c], buffer'[c], executed'[c])
    BY <1>0, <1>1, <1>7, CallIs DEF Somewhere, CallsInv
  <1>. QED  BY <1>0, <1>1, <1>3, <1>5, <1>6, <1>8, <1>9, OneCall

LEMMA TimeOutStep ==
    ASSUME CallsInv, NEW c \in Calls, R!TimeOut(c) PROVE CallsInv'
  <1>. DEFINE q == R!GiveUp(call[c])
  <1>0. /\ call[c].stage = "last" /\ call' = [call EXCEPT ![c] = q]
        /\ UNCHANGED <<setting, connected, losses, pending, wire, answers, buffer, executed, garbled>>
    BY DEF R!TimeOut
  <1>1. FiredRight(q) /\ q.stage = "idle" /\ q.at = call[c].at
    BY <1>0, CallIs, GiveUpIs
  <1>. HIDE DEF q
  <1>2. call'[c] = q /\ (\A d \in Calls \ {c} : call'[d] = call[d]) /\ call' = [d \in Calls |-> call'[d]]
    BY <1>0 DEF CallsInv, CallTypes
  <1>3. R!PendingRight' /\ pending' \in Seq(Calls)
    BY <1>0, <1>1, <1>2, KeptAfter
  <1>4. CallTypes'
    BY <1>0, <1>2, <1>3 DEF CallsInv, CallTypes, Distinct
  <1>5. Somewhere(c, Of(wire', c), Of(answers', c), call'[c], buffer'[c], executed'[c])
    <2>. DEFINE w == Of(wire, c)  a == Of(answers, c)
    <2>0. Of(wire', c) = w /\ Of(answers', c) = a
      BY <1>0
    <2>1. Sending(c, w, a, call[c], buffer[c], executed[c])
          \/ Answered(c, w, a, call[c], buffer[c], executed[c])
      BY <1>0, PlaceByStage
    <2>. HIDE DEF w, a
    <2>2. CASE Sending(c, w, a, call[c], buffer[c], executed[c])
      <3>1. Sending(c, w, a, q, buffer[c], executed[c])
        BY <1>0, <1>1, <2>2 DEF Sending
      <3>. QED  BY <1>0, <1>2, <2>0, <3>1 DEF Somewhere
    <2>3. CASE Answered(c, w, a, call[c], buffer[c], executed[c])
      <3>1. Answered(c, w, a, q, buffer[c], executed[c])
        BY <1>0, <1>1, <2>3 DEF Answered
      <3>. QED  BY <1>0, <1>2, <2>0, <3>1 DEF Somewhere
    <2>. QED  BY <2>1, <2>2, <2>3
  <1>6. \A d \in Calls \ {c} :
            /\ Of(wire, d)' = Of(wire, d) /\ Of(answers, d)' = Of(answers, d)
            /\ call'[d] = call[d] /\ buffer'[d] = buffer[d] /\ executed'[d] = executed[d]
    BY <1>0, <1>2
  <1>7. executed'[c] \in Nat /\ ~garbled' /\ FiredRight(call'[c])
    BY <1>0, <1>1, <1>2, CallIs DEF CallsInv
  <1>. QED  BY <1>0, <1>3, <1>4, <1>5, <1>6, <1>7, OneCall

LEMMA RemoveAtIs ==
    ASSUME NEW S, NEW s \in Seq(S), IsInjective(s), NEW i \in DOMAIN s
    PROVE  LET t == R!RemoveAt(s, i)
           IN  t \in Seq(S) /\ ToSet(t) = ToSet(s) \ {s[i]} /\ IsInjective(t)
  <1>. DEFINE n == Len(s)
              a == SubSeq(s, 1, i - 1)
              b == SubSeq(s, i + 1, n)
              t == a \o b
  <1>1. n \in Nat /\ DOMAIN s = 1 .. n /\ i \in 1 .. n /\ \A k \in 1 .. n : s[k] \in S
    OBVIOUS
  <1>2. a \in Seq(S) /\ Len(a) = i - 1 /\ \A k \in 1 .. i - 1 : a[k] = s[k]
    BY <1>1, SubSeqProperties
  <1>3. b \in Seq(S) /\ Len(b) = n - i /\ \A k \in 1 .. n - i : b[k] = s[i + k]
    BY <1>1, SubSeqProperties
  <1>. HIDE DEF a, b
  <1>4. /\ t \in Seq(S) /\ Len(t) = n - 1 /\ DOMAIN t = 1 .. n - 1
        /\ \A k \in 1 .. n - 1 : t[k] = IF k < i THEN s[k] ELSE s[k + 1]
    <2>1. /\ t \in Seq(S) /\ Len(t) = (i - 1) + (n - i)
          /\ \A k \in 1 .. (i - 1) + (n - i) : t[k] = IF k <= i - 1 THEN a[k] ELSE b[k - (i - 1)]
      <3>1. /\ t \in Seq(S) /\ Len(t) = Len(a) + Len(b)
            /\ \A k \in 1 .. Len(a) + Len(b) : t[k] = IF k <= Len(a) THEN a[k] ELSE b[k - Len(a)]
        BY <1>2, <1>3, ConcatProperties, Zenon
      <3>. HIDE DEF t
      <3>. QED  BY <1>2, <1>3, <3>1
    <2>2. (i - 1) + (n - i) = n - 1
      BY <1>1
    <2>. HIDE DEF t
    <2>3. ASSUME NEW k \in 1 .. n - 1 PROVE t[k] = IF k < i THEN s[k] ELSE s[k + 1]
      <3>1. CASE k < i
        BY <1>1, <1>2, <2>1, <2>2, <3>1
      <3>2. CASE k >= i
        <4>1. k - (i - 1) \in 1 .. n - i /\ i + (k - (i - 1)) = k + 1 /\ ~(k <= i - 1)
          BY <1>1, <3>2
        <4>2. b[k - (i - 1)] = s[k + 1]
          BY <1>3, <4>1
        <4>3. t[k] = b[k - (i - 1)]
          BY <2>1, <2>2, <4>1
        <4>. QED  BY <1>1, <3>2, <4>2, <4>3
      <3>. QED  BY <1>1, <3>1, <3>2
    <2>4. t \in Seq(S) /\ Len(t) = n - 1
      BY <2>1, <2>2
    <2>5. DOMAIN t = 1 .. n - 1
      BY <2>4
    <2>. QED  BY <2>3, <2>4, <2>5
  <1>. HIDE DEF t
  <1>5. IsInjective(t)
    <2>1. ASSUME NEW k \in 1 .. n - 1, NEW l \in 1 .. n - 1, t[k] = t[l] PROVE k = l
      <3>1. \A k1, l1 \in 1 .. n : s[k1] = s[l1] => k1 = l1
        BY <1>1 DEF IsInjective
      <3>2. /\ k \in 1 .. n /\ k + 1 \in 1 .. n /\ l \in 1 .. n /\ l + 1 \in 1 .. n
        BY <1>1
      <3>3. (IF k < i THEN s[k] ELSE s[k + 1]) = (IF l < i THEN s[l] ELSE s[l + 1])
        BY <1>4, <2>1
      <3>4. (IF k < i THEN k ELSE k + 1) = (IF l < i THEN l ELSE l + 1)
        BY <3>1, <3>2, <3>3
      <3>. QED  BY <1>1, <3>4
    <2>. QED  BY <1>4, <2>1 DEF IsInjective
  <1>6. ToSet(t) = ToSet(s) \ {s[i]}
    <2>1. ASSUME NEW k \in 1 .. n - 1 PROVE t[k] \in ToSet(s) \ {s[i]}
      <3>1. PICK l \in 1 .. n : l # i /\ t[k] = s[l]
        <4>1. k \in 1 .. n /\ k + 1 \in 1 .. n /\ (k < i => k # i) /\ (~(k < i) => k + 1 # i)
          BY <1>1
        <4>. QED  BY <1>4, <4>1
      <3>2. s[l] # s[i]
        BY <1>1, <3>1 DEF IsInjective
      <3>. QED  BY <1>1, <3>1, <3>2 DEF ToSet
    <2>2. ASSUME NEW k \in 1 .. n, k # i PROVE s[k] \in ToSet(t)
      <3>1. CASE k < i
        <4>1. k \in 1 .. n - 1 /\ t[k] = s[k]
          BY <1>1, <1>4, <3>1
        <4>. QED  BY <1>4, <4>1 DEF ToSet
      <3>2. CASE k > i
        <4>1. k - 1 \in 1 .. n - 1 /\ t[k - 1] = s[k]
          BY <1>1, <1>4, <3>2
        <4>. QED  BY <1>4, <4>1 DEF ToSet
      <3>. QED  BY <1>1, <2>2, <3>1, <3>2
    <2>. QED  BY <1>1, <1>4, <2>1, <2>2 DEF ToSet
  <1>7. R!RemoveAt(s, i) = t
    BY DEF R!RemoveAt, t, a, b
  <1>. QED  BY <1>4, <1>5, <1>6, <1>7

LEMMA RetryTimeOutStep ==
    ASSUME CallsInv, NEW c \in Calls, R!RetryTimeOut(c) PROVE CallsInv'
  <1>. DEFINE stage == IF call[c].stage = "pending" THEN "idle" ELSE call[c].stage
              q == [call[c] EXCEPT !.timer = "spent", !.fired = 1, !.stage = stage]
  <1>0. /\ call[c].timer = "set"
        /\ IF c \in ToSet(pending)
           THEN \E i \in DOMAIN pending : pending[i] = c /\ pending' = R!RemoveAt(pending, i)
           ELSE pending' = pending
        /\ UNCHANGED <<setting, connected, losses, wire, answers, buffer, executed, garbled>>
    BY DEF R!RetryTimeOut, R!ToSet, ToSet
  <1>1. /\ call[c] \in CallRecords /\ call[c].fired = 0 /\ call[c].fired + 1 = 1
        /\ call[c].stage \in {"chunk", "last", "pending"}
    BY <1>0, CallIs DEF FiredRight
  <1>2. call' = [call EXCEPT ![c] = q]
    BY <1>1 DEF R!RetryTimeOut
  <1>3. stage \in {"chunk", "last", "idle"} /\ (stage = "idle" <=> call[c].stage = "pending")
        /\ (stage # "idle" => stage = call[c].stage)
    BY <1>1
  <1>. HIDE DEF stage
  <1>4. /\ q \in CallRecords /\ q.timer = "spent" /\ q.fired = 1 /\ q.stage = stage
        /\ q.at = call[c].at
    BY <1>1, <1>3 DEF CallRecords
  <1>. HIDE DEF q
  <1>5. FiredRight(q)
    BY <1>3, <1>4 DEF FiredRight
  <1>6. call'[c] = q /\ (\A d \in Calls \ {c} : call'[d] = call[d]) /\ call' = [d \in Calls |-> call'[d]]
    BY <1>2 DEF CallsInv, CallTypes
  <1>7. R!PendingRight' /\ pending' \in Seq(Calls)
    <2>1. /\ pending \in Seq(Calls) /\ ToSet(pending) = R!Kept(call) /\ IsInjective(pending)
      BY PendingIs DEF CallsInv, CallTypes
    <2>2. R!Kept(call') = R!Kept(call) \ {c}
      BY <1>3, <1>4, <1>6 DEF R!Kept
    <2>3. CASE c \in ToSet(pending)
      <3>1. PICK i \in DOMAIN pending : pending[i] = c /\ pending' = R!RemoveAt(pending, i)
        BY <1>0, <2>3
      <3>2. pending' \in Seq(Calls) /\ ToSet(pending') = ToSet(pending) \ {c} /\ IsInjective(pending')
        BY <2>1, <3>1, RemoveAtIs
      <3>. QED  BY <2>1, <2>2, <3>2, PendingIs
    <2>4. CASE c \notin ToSet(pending)
      <3>1. pending' = pending /\ R!Kept(call') = R!Kept(call)
        BY <1>0, <2>1, <2>2, <2>4
      <3>. QED  BY <2>1, <3>1, PendingIs
    <2>. QED  BY <2>3, <2>4
  <1>8. CallTypes'
    BY <1>0, <1>6, <1>7 DEF CallsInv, CallTypes, Distinct
  <1>9. Somewhere(c, Of(wire', c), Of(answers', c), call'[c], buffer'[c], executed'[c])
    <2>. DEFINE w == Of(wire, c)  a == Of(answers, c)
    <2>0. Of(wire', c) = w /\ Of(answers', c) = a
      BY <1>0
    <2>1. Somewhere(c, w, a, call[c], buffer[c], executed[c])
      BY CallIs
    <2>2. call[c].stage = "pending" => Away(c, w, a, call[c], buffer[c], executed[c])
      BY PlaceByStage
    <2>. HIDE DEF w, a
    <2>3. Somewhere(c, w, a, q, buffer[c], executed[c])
      <3>1. CASE call[c].stage = "pending"
        BY <1>3, <1>4, <2>2, <3>1 DEF Somewhere, Away
      <3>2. CASE call[c].stage # "pending"
        <4>1. q.stage = call[c].stage /\ q.at = call[c].at
          BY <1>3, <1>4, <3>2
        <4>2. CASE Away(c, w, a, call[c], buffer[c], executed[c])
          BY <4>1, <4>2 DEF Somewhere, Away
        <4>3. CASE Sending(c, w, a, call[c], buffer[c], executed[c])
          BY <4>1, <4>3 DEF Somewhere, Sending
        <4>4. CASE Acked(c, w, a, call[c], buffer[c], executed[c])
          BY <4>1, <4>4 DEF Somewhere, Acked
        <4>5. CASE Answered(c, w, a, call[c], buffer[c], executed[c])
          BY <4>1, <4>5 DEF Somewhere, Answered
        <4>. QED  BY <2>1, <4>2, <4>3, <4>4, <4>5 DEF Somewhere
      <3>. QED  BY <3>1, <3>2
    <2>. QED  BY <1>0, <1>6, <2>0, <2>3
  <1>10. \A d \in Calls \ {c} :
            /\ Of(wire, d)' = Of(wire, d) /\ Of(answers, d)' = Of(answers, d)
            /\ call'[d] = call[d] /\ buffer'[d] = buffer[d] /\ executed'[d] = executed[d]
    BY <1>0, <1>6
  <1>11. executed'[c] \in Nat /\ ~garbled' /\ FiredRight(call'[c])
    BY <1>0, <1>5, <1>6, CallIs DEF CallsInv
  <1>. QED  BY <1>0, <1>7, <1>8, <1>9, <1>10, <1>11, OneCall

LEMMA NextChunk ==
    ASSUME NEW c, NEW n \in Nat \ {0}
    PROVE  Append(Chunks(c, n - 1), <<c, n>>) = Chunks(c, n)
  <1>. DEFINE a == Append(Chunks(c, n - 1), <<c, n>>)
  <1>1. Chunks(c, n - 1) \in Seq({<<c, k>> : k \in Nat}) /\ Len(Chunks(c, n - 1)) = n - 1
    BY DEF Chunks
  <1>2. a = [k \in 1 .. n |-> IF k = n THEN <<c, n>> ELSE Chunks(c, n - 1)[k]]
    BY <1>1
  <1>3. \A k \in 1 .. n : (IF k = n THEN <<c, n>> ELSE Chunks(c, n - 1)[k]) = <<c, k>>
    BY DEF Chunks
  <1>. HIDE DEF a
  <1>4. a = [k \in 1 .. n |-> <<c, k>>]
    BY <1>2, <1>3
  <1>. QED  BY <1>4 DEF Chunks, a

LEMMA ReceiveChunkStep ==
    ASSUME CallsInv, R!ReceiveChunk PROVE CallsInv'
  <1>. DEFINE c == Head(wire).call
              e == [kind |-> "chunk", call |-> c]
              n == call[c].at
  <1>0. /\ wire # <<>> /\ Head(wire).chunk < R!LastChunk(c) /\ wire' = Tail(wire)
        /\ buffer' = [buffer EXCEPT ![c] = Append(buffer[c], <<c, Head(wire).chunk>>)]
        /\ answers' = Append(answers, e)
        /\ UNCHANGED <<setting, connected, losses, call, pending, executed, garbled>>
    BY DEF R!ReceiveChunk
  <1>1. /\ c \in Calls /\ Head(wire) = R!SentChunk(c, call[c].at)
        /\ Sending(c, Of(wire, c), Of(answers, c), call[c], buffer[c], executed[c])
        /\ Distinct(Tail(wire)) /\ Tail(wire) \in Seq(Wires) /\ Of(Tail(wire), c) = {}
        /\ \A d \in Calls \ {c} : Of(Tail(wire), d) = Of(wire, d)
        /\ connected
    BY <1>0, FirstOnWire
  <1>2. Head(wire).chunk = n
    BY <1>1 DEF R!SentChunk
  <1>. HIDE DEF c
  <1>3. e \in Replies /\ e.call = c
    BY <1>1 DEF Replies
  <1>4. /\ Distinct(answers') /\ answers' \in Seq(Replies) /\ Of(answers', c) = {e}
        /\ \A d \in Calls \ {c} : Of(answers', d) = Of(answers, d)
    <2>1. answers \in Seq(Replies) /\ Distinct(answers) /\ Of(answers, c) = {}
      BY <1>1 DEF Sending, CallsInv, CallTypes, Replies
    <2>. HIDE DEF e
    <2>2. Appended(Replies, answers, c, e, Append(answers, e))
      BY <1>3, <2>1, AppendIs
    <2>. QED  BY <1>0, <2>2 DEF Appended
  <1>5. /\ buffer'[c] = Chunks(c, n) /\ buffer' = [d \in Calls |-> buffer'[d]]
        /\ \A d \in Calls \ {c} : buffer'[d] = buffer[d]
    <2>1. buffer[c] = Chunks(c, n - 1) /\ n \in Nat \ {0}
      BY <1>1, CallIs DEF Sending
    <2>. HIDE DEF n
    <2>2. Append(buffer[c], <<c, Head(wire).chunk>>) = Chunks(c, n)
      BY <1>2, <2>1, NextChunk
    <2>3. buffer' = [buffer EXCEPT ![c] = Chunks(c, n)] /\ buffer = [d \in Calls |-> buffer[d]]
      BY <1>0, <2>2 DEF CallsInv, CallTypes
    <2>. QED  BY <1>1, <2>3
  <1>6. R!PendingRight' /\ pending' \in Seq(Calls)
    BY <1>0, PendingIs DEF CallsInv, CallTypes
  <1>7. CallTypes'
    BY <1>0, <1>1, <1>4, <1>5, <1>6 DEF CallsInv, CallTypes, Distinct, Wires, Replies
  <1>8. Acked(c, Of(wire', c), Of(answers', c), call'[c], buffer'[c], executed'[c])
    <2>1. n \in Nat /\ n < R!LastChunk(c) /\ n \in 1 .. R!LastChunk(c) /\ R!LastChunk(c) \in Nat
      BY <1>0, <1>1, <1>2, CallIs DEF Sending
    <2>2. n \in 1 .. R!LastChunk(c) - 1
      BY <2>1
    <2>. QED  BY <1>0, <1>1, <1>4, <1>5, <2>1, <2>2 DEF Acked, Sending
  <1>9. \A d \in Calls \ {c} :
            /\ Of(wire, d)' = Of(wire, d) /\ Of(answers, d)' = Of(answers, d)
            /\ call'[d] = call[d] /\ buffer'[d] = buffer[d] /\ executed'[d] = executed[d]
    BY <1>0, <1>1, <1>4, <1>5
  <1>10. /\ FiredRight(call'[c]) /\ executed'[c] \in Nat /\ ~garbled'
         /\ Somewhere(c, Of(wire', c), Of(answers', c), call'[c], buffer'[c], executed'[c])
    BY <1>0, <1>1, <1>8, CallIs DEF Somewhere, CallsInv
  <1>. QED  BY <1>0, <1>1, <1>6, <1>7, <1>9, <1>10, OneCall

LEMMA ReceiveCallStep ==
    ASSUME CallsInv, R!ReceiveCall PROVE CallsInv'
  <1>. DEFINE c == Head(wire).call
              n == R!LastChunk(c)
  <1>0. /\ wire # <<>> /\ Head(wire).chunk = n /\ wire' = Tail(wire)
        /\ buffer' = [buffer EXCEPT ![c] = <<>>]
        /\ executed' = [executed EXCEPT ![c] = executed[c] + 1]
        /\ garbled' = (garbled \/ Append(buffer[c], <<c, n>>) # Chunks(c, n))
        /\ UNCHANGED <<setting, connected, losses, call, pending>>
    BY DEF R!ReceiveCall, R!BufferOf, Chunks
  <1>1. PICK kind \in {"result", "error"} : answers' = Append(answers, [kind |-> kind, call |-> c])
    BY DEF R!ReceiveCall
  <1>. DEFINE e == [kind |-> kind, call |-> c]
  <1>2. /\ c \in Calls /\ Head(wire) = R!SentChunk(c, call[c].at)
        /\ Sending(c, Of(wire, c), Of(answers, c), call[c], buffer[c], executed[c])
        /\ Distinct(Tail(wire)) /\ Tail(wire) \in Seq(Wires) /\ Of(Tail(wire), c) = {}
        /\ \A d \in Calls \ {c} : Of(Tail(wire), d) = Of(wire, d)
        /\ connected
    BY <1>0, FirstOnWire
  <1>3. call[c].at = n
    BY <1>0, <1>2 DEF R!SentChunk
  <1>. HIDE DEF c
  <1>4. n \in Nat \ {0} /\ call[c].stage \in {"last", "idle"} /\ buffer[c] = Chunks(c, n - 1)
    BY <1>2, <1>3, CallIs DEF Sending
  <1>. HIDE DEF n
  <1>5. ~garbled'
    BY <1>0, <1>4, NextChunk DEF CallsInv
  <1>6. e \in Replies /\ e.call = c
    BY <1>2 DEF Replies
  <1>7. /\ Distinct(answers') /\ answers' \in Seq(Replies) /\ Of(answers', c) = {e}
        /\ \A d \in Calls \ {c} : Of(answers', d) = Of(answers, d)
    <2>1. answers \in Seq(Replies) /\ Distinct(answers) /\ Of(answers, c) = {}
      BY <1>2 DEF Sending, CallsInv, CallTypes, Replies
    <2>2. answers' = Append(answers, e)
      BY <1>1
    <2>. HIDE DEF e
    <2>3. Appended(Replies, answers, c, e, Append(answers, e))
      BY <1>6, <2>1, AppendIs
    <2>. QED  BY <2>2, <2>3 DEF Appended
  <1>8. /\ buffer'[c] = <<>> /\ buffer' = [d \in Calls |-> buffer'[d]]
        /\ executed'[c] = executed[c] + 1 /\ executed' = [d \in Calls |-> executed'[d]]
        /\ \A d \in Calls \ {c} : buffer'[d] = buffer[d] /\ executed'[d] = executed[d]
    BY <1>0, <1>2 DEF CallsInv, CallTypes
  <1>9. R!PendingRight' /\ pending' \in Seq(Calls)
    BY <1>0, PendingIs DEF CallsInv, CallTypes
  <1>10. CallTypes'
    BY <1>0, <1>2, <1>7, <1>8, <1>9 DEF CallsInv, CallTypes, Distinct, Wires, Replies
  <1>11. executed'[c] \in Nat /\ executed'[c] <= Limit
    BY <1>2, <1>8, CallIs DEF Sending
  <1>12. Answered(c, Of(wire', c), Of(answers', c), call'[c], buffer'[c], executed'[c])
    BY <1>0, <1>2, <1>4, <1>7, <1>8, <1>11 DEF Answered
  <1>13. \A d \in Calls \ {c} :
            /\ Of(wire, d)' = Of(wire, d) /\ Of(answers, d)' = Of(answers, d)
            /\ call'[d] = call[d] /\ buffer'[d] = buffer[d] /\ executed'[d] = executed[d]
    BY <1>0, <1>2, <1>7, <1>8
  <1>14. /\ FiredRight(call'[c])
         /\ Somewhere(c, Of(wire', c), Of(answers', c), call'[c], buffer'[c], executed'[c])
    BY <1>0, <1>2, <1>12, CallIs DEF Somewhere, CallsInv
  <1>. QED  BY <1>0, <1>2, <1>5, <1>9, <1>10, <1>11, <1>13, <1>14, OneCall

\* An order of a finite set has each of its elements once.
LEMMA OrderIs ==
    ASSUME NEW S, IsFiniteSet(S), NEW order \in R!SetToSeqs(S)
    PROVE  order \in Seq(S) /\ ToSet(order) = S /\ IsInjective(order)
  <1>. DEFINE n == Cardinality(S)
  <1>1. n \in Nat
    BY FS_CardinalityType
  <1>2. order \in [1 .. n -> S] /\ IsInjective(order)
    <2>1. R!Cardinality(S) = n
      BY DEF R!Cardinality, Cardinality
    <2>. QED  BY <2>1 DEF R!SetToSeqs, IsInjective
  <1>3. Cardinality(1 .. n) = n
    BY <1>1, FS_Interval
  <1>. HIDE DEF n
  <1>4. order \in Surjection(1 .. n, S)
    <2>1. order \in Injection(1 .. n, S)
      BY <1>2 DEF Injection
    <2>. QED  BY <1>3, <2>1, FS_Injection DEF n
  <1>5. ToSet(order) = S
    BY <1>2, <1>4 DEF Surjection, ToSet
  <1>. QED  BY <1>1, <1>2, <1>5

LEMMA ConcatOf ==
    ASSUME NEW S, NEW s \in Seq(S), NEW t \in Seq(S), IsInjective(s), IsInjective(t),
           ToSet(s) \cap ToSet(t) = {}
    PROVE  s \o t \in Seq(S) /\ ToSet(s \o t) = ToSet(s) \cup ToSet(t) /\ IsInjective(s \o t)
  <1>. DEFINE u == s \o t
              m == Len(s)
              n == Len(t)
  <1>1. /\ m \in Nat /\ n \in Nat /\ DOMAIN s = 1 .. m /\ DOMAIN t = 1 .. n
        /\ u \in Seq(S) /\ DOMAIN u = 1 .. m + n
        /\ \A k \in 1 .. m + n : u[k] = IF k <= m THEN s[k] ELSE t[k - m]
    BY ConcatProperties
  <1>. HIDE DEF u, m, n
  <1>2. \A k \in 1 .. m, l \in 1 .. n : s[k] # t[l]
    BY <1>1 DEF ToSet
  <1>3. \A k \in 1 .. m + n : (k <= m => k \in 1 .. m) /\ (~(k <= m) => k - m \in 1 .. n)
    BY <1>1
  <1>4. IsInjective(u)
    <2>1. ASSUME NEW k \in 1 .. m + n, NEW l \in 1 .. m + n, u[k] = u[l] PROVE k = l
      <3>1. (IF k <= m THEN s[k] ELSE t[k - m]) = (IF l <= m THEN s[l] ELSE t[l - m])
        BY <1>1, <2>1
      <3>2. CASE k <= m /\ l <= m
        BY <1>1, <1>3, <3>1, <3>2 DEF IsInjective
      <3>3. CASE ~(k <= m) /\ ~(l <= m)
        <4>1. k - m \in 1 .. n /\ l - m \in 1 .. n /\ t[k - m] = t[l - m]
          BY <1>3, <3>1, <3>3
        <4>2. k - m = l - m
          BY <1>1, <4>1 DEF IsInjective
        <4>. QED  BY <1>1, <4>2
      <3>4. CASE k <= m /\ ~(l <= m)
        BY <1>2, <1>3, <3>1, <3>4
      <3>5. CASE ~(k <= m) /\ l <= m
        BY <1>2, <1>3, <3>1, <3>5
      <3>. QED  BY <3>2, <3>3, <3>4, <3>5
    <2>. QED  BY <1>1, <2>1 DEF IsInjective
  <1>5. ToSet(u) = ToSet(s) \cup ToSet(t)
    <2>1. \A k \in 1 .. m + n : u[k] \in ToSet(s) \cup ToSet(t)
      BY <1>1, <1>3 DEF ToSet
    <2>2. ASSUME NEW k \in 1 .. m PROVE s[k] \in ToSet(u)
      <3>1. k \in 1 .. m + n /\ u[k] = s[k]
        BY <1>1
      <3>. QED  BY <1>1, <3>1 DEF ToSet
    <2>3. ASSUME NEW k \in 1 .. n PROVE t[k] \in ToSet(u)
      <3>1. k + m \in 1 .. m + n /\ ~(k + m <= m) /\ (k + m) - m = k
        BY <1>1
      <3>2. u[k + m] = t[k]
        BY <1>1, <3>1
      <3>. QED  BY <1>1, <3>1, <3>2 DEF ToSet
    <2>. QED  BY <1>1, <2>1, <2>2, <2>3 DEF ToSet
  <1>. QED  BY <1>1, <1>4, <1>5 DEF u

LEMMA ConnectionLostStep ==
    ASSUME CallsInv, R!ConnectionLost PROVE CallsInv'
  <1>. DEFINE S == R!OnTheWire \cap R!Kept(call')
  <1>0. /\ connected /\ connected' = FALSE /\ losses' = losses + 1
        /\ call' = [c \in Calls |-> IF c \in R!OnTheWire THEN R!Fail(call[c]) ELSE call[c]]
        /\ wire' = <<>> /\ answers' = <<>> /\ buffer' = [c \in Calls |-> <<>>]
        /\ UNCHANGED <<setting, executed, garbled>>
    BY DEF R!ConnectionLost
  <1>1. PICK order \in R!SetToSeqs(S) : pending' = pending \o order
    BY DEF R!ConnectionLost
  <1>2. ASSUME NEW c \in Calls
        PROVE  /\ FiredRight(call'[c]) /\ call'[c].stage \notin {"chunk", "last"}
               /\ call'[c].stage = "unmade" => call[c].stage = "unmade"
               /\ c \notin R!OnTheWire => call'[c] = call[c]
    <2>1. CASE c \in R!OnTheWire
      <3>1. call[c].stage \in {"chunk", "last"} /\ FiredRight(call[c]) /\ call'[c] = R!Fail(call[c])
        BY <1>0, <2>1, CallIs DEF R!OnTheWire
      <3>. QED  BY <2>1, <3>1, FailIs
    <2>2. CASE c \notin R!OnTheWire
      <3>1. call[c].stage \notin {"chunk", "last"} /\ FiredRight(call[c]) /\ call'[c] = call[c]
        BY <1>0, <2>2, CallIs DEF R!OnTheWire
      <3>. QED  BY <3>1
    <2>. QED  BY <2>1, <2>2
  <1>3. Limit' = Limit /\ setting' = setting
    BY <1>0 DEF Limit, CallsInv, CallTypes
  <1>4. R!PendingRight' /\ pending' \in Seq(Calls)
    <2>1. pending \in Seq(Calls) /\ ToSet(pending) = R!Kept(call) /\ IsInjective(pending)
      BY PendingIs DEF CallsInv, CallTypes
    <2>2. S \subseteq Calls /\ IsFiniteSet(S)
      BY CallsAssumption, FS_Subset DEF R!OnTheWire
    <2>3. R!Kept(call') = R!Kept(call) \cup S /\ R!Kept(call) \cap S = {}
      BY <1>2 DEF R!Kept, R!OnTheWire
    <2>. HIDE DEF S
    <2>4. order \in Seq(S) /\ ToSet(order) = S /\ IsInjective(order)
      BY <2>2, OrderIs
    <2>5. order \in Seq(Calls)
      BY <2>2, <2>4
    <2>6. pending' \in Seq(Calls) /\ ToSet(pending') = ToSet(pending) \cup S /\ IsInjective(pending')
      BY <1>1, <2>1, <2>3, <2>4, <2>5, ConcatOf
    <2>. QED  BY <2>1, <2>3, <2>6, PendingIs
  <1>5. CallTypes'
    <2>1. losses' \in Nat /\ setting' \in Settings /\ executed' = [c \in Calls |-> executed'[c]]
      BY <1>0 DEF CallsInv, CallTypes
    <2>2. call' = [c \in Calls |-> call'[c]] /\ buffer' = [c \in Calls |-> buffer'[c]]
      BY <1>0
    <2>3. wire' \in Seq(Wires) /\ Distinct(wire') /\ answers' \in Seq(Replies) /\ Distinct(answers')
      BY <1>0 DEF Distinct
    <2>. QED  BY <1>0, <1>4, <2>1, <2>2, <2>3 DEF CallTypes, Wires, Replies, Distinct
  <1>6. ASSUME NEW c \in Calls PROVE CallInv(c)'
    <2>1. FiredRight(call[c])'
      BY <1>2, <1>3 DEF FiredRight, CallRecords
    <2>2. /\ executed[c] \in Nat /\ executed[c] <= Limit
          /\ call[c].stage = "unmade" => executed[c] = 0
      BY CallIs, PlaceByStage DEF Somewhere, Away, Sending, Acked, Answered
    <2>3. Of(wire', c) = {} /\ Of(answers', c) = {} /\ buffer'[c] = <<>>
      BY <1>0 DEF Of, ToSet
    <2>4. Away(c, Of(wire, c), Of(answers, c), call[c], buffer[c], executed[c])'
      BY <1>0, <1>2, <1>3, <2>2, <2>3 DEF Away
    <2>. QED  BY <1>0, <2>1, <2>2, <2>4 DEF CallInv, Somewhere
  <1>. QED  BY <1>0, <1>4, <1>5, <1>6 DEF CallsInv

LEMMA ReconnectStep ==
    ASSUME CallsInv, R!Reconnect PROVE CallsInv'
  <1>. DEFINE n == Len(pending)
  <1>0. /\ ~connected /\ connected' = TRUE /\ pending' = <<>>
        /\ wire' = [i \in 1 .. n |-> R!SentChunk(R!Reverse(pending)[i], 1)]
        /\ call' = [c \in Calls |-> IF c \in ToSet(pending) THEN R!Waiting(c, call[c], 1) ELSE call[c]]
        /\ UNCHANGED <<setting, losses, answers, buffer, executed, garbled>>
    BY DEF R!Reconnect, R!Retried, R!ToSet, ToSet
  <1>1. /\ pending \in Seq(Calls) /\ ToSet(pending) = R!Kept(call) /\ IsInjective(pending)
        /\ wire = <<>> /\ answers = <<>>
    BY <1>0, PendingIs DEF CallsInv, CallTypes
  <1>2. /\ n \in Nat /\ DOMAIN pending = 1 .. n /\ \A i \in 1 .. n : pending[i] \in Calls
        /\ \A i \in 1 .. n : R!Reverse(pending)[i] = pending[(n - i) + 1] /\ (n - i) + 1 \in 1 .. n
    BY <1>1 DEF R!Reverse
  <1>. HIDE DEF n
  <1>3. /\ DOMAIN wire' = 1 .. n
        /\ \A i \in 1 .. n : wire'[i] = [call |-> pending[(n - i) + 1], chunk |-> 1]
    BY <1>0, <1>2 DEF R!SentChunk
  <1>4. wire' \in Seq(Wires)
    <2>1. \A i \in 1 .. n : wire'[i] \in Wires
      BY <1>2, <1>3 DEF Wires
    <2>2. wire' = [i \in 1 .. n |-> wire'[i]]
      BY <1>0
    <2>. QED  BY <1>2, <2>1, <2>2
  <1>5. Distinct(wire')
    <2>1. ASSUME NEW i \in 1 .. n, NEW j \in 1 .. n, wire'[i].call = wire'[j].call PROVE i = j
      <3>1. pending[(n - i) + 1] = pending[(n - j) + 1]
        BY <1>3, <2>1
      <3>2. (n - i) + 1 = (n - j) + 1
        BY <1>1, <1>2, <3>1 DEF IsInjective
      <3>. QED  BY <1>2, <3>2
    <2>. QED  BY <1>3, <2>1 DEF Distinct
  <1>6. ASSUME NEW c \in Calls
        PROVE  Of(wire', c) = IF c \in ToSet(pending) THEN {R!SentChunk(c, 1)} ELSE {}
    <2>1. ASSUME NEW i \in 1 .. n, wire'[i].call = c
          PROVE  wire'[i] = R!SentChunk(c, 1) /\ c \in ToSet(pending)
      BY <1>2, <1>3, <2>1 DEF R!SentChunk, ToSet
    <2>2. ASSUME c \in ToSet(pending)
          PROVE  \E i \in 1 .. n : wire'[i] = R!SentChunk(c, 1) /\ wire'[i].call = c
      <3>1. PICK k \in 1 .. n : pending[k] = c
        BY <1>2, <2>2 DEF ToSet
      <3>2. (n - k) + 1 \in 1 .. n /\ (n - ((n - k) + 1)) + 1 = k
        BY <1>2
      <3>3. wire'[(n - k) + 1] = [call |-> c, chunk |-> 1]
        BY <1>3, <3>1, <3>2
      <3>. QED  BY <3>2, <3>3 DEF R!SentChunk
    <2>. QED  BY <1>3, <2>1, <2>2 DEF Of, ToSet
  <1>7. CallTypes'
    <2>1. /\ call' = [c \in Calls |-> call'[c]] /\ pending' \in Seq(Calls)
          /\ buffer' = [c \in Calls |-> buffer'[c]] /\ executed' = [c \in Calls |-> executed'[c]]
          /\ setting' \in Settings /\ losses' \in Nat
      BY <1>0 DEF CallsInv, CallTypes
    <2>2. answers' \in Seq(Replies) /\ Distinct(answers')
      BY <1>0 DEF CallsInv, CallTypes, Replies
    <2>. QED  BY <1>0, <1>4, <1>5, <2>1, <2>2 DEF CallTypes, Wires, Replies, Distinct
  <1>8. Limit \in Nat /\ Limit' \in Nat /\ Limit' >= Limit /\ setting' = setting
        /\ (setting.retryOnReconnect => Limit' > Limit)
    BY <1>0 DEF Limit, CallsInv, CallTypes
  <1>9. ASSUME NEW c \in Calls, c \in ToSet(pending)
        PROVE  CallInv(c)' /\ call'[c].stage # "pending"
    <2>. DEFINE q == R!Waiting(c, call[c], 1)
    <2>1. call[c].stage = "pending" /\ call'[c] = q
      BY <1>0, <1>1, <1>9 DEF R!Kept
    <2>2. FiredRight(q) /\ q.at = 1 /\ q.stage = IF 1 = R!LastChunk(c) THEN "last" ELSE "chunk"
      BY <2>1, CallIs, WaitingIs
    <2>. HIDE DEF q
    <2>3. FiredRight(call[c])'
      BY <1>8, <2>1, <2>2 DEF FiredRight, CallRecords
    <2>4. /\ executed[c] \in Nat /\ executed[c] <= Limit /\ buffer[c] = <<>>
          /\ setting.retryOnReconnect
      BY <2>1, CallIs, PlaceByStage DEF Away, FiredRight
    <2>5. Of(wire', c) = {R!SentChunk(c, 1)} /\ Of(answers', c) = {}
      BY <1>0, <1>1, <1>6, <1>9 DEF Of, ToSet
    <2>6. Chunks(c, 1 - 1) = <<>> /\ executed[c] < Limit'
      BY <1>8, <2>4 DEF Chunks
    <2>7. R!LastChunk(c)' = R!LastChunk(c) /\ R!LastChunk(c) \in Nat \ {0}
      BY <1>8, CallIs DEF R!LastChunk
    <2>8. Sending(c, Of(wire, c), Of(answers, c), call[c], buffer[c], executed[c])'
      <3>1. /\ R!SentChunk(c, call[c].at)' = R!SentChunk(c, 1)
            /\ Chunks(c, call[c].at - 1)' = Chunks(c, 1 - 1)
        BY <2>1, <2>2 DEF R!SentChunk, Chunks
      <3>. QED  BY <1>0, <2>1, <2>2, <2>4, <2>5, <2>6, <2>7, <3>1 DEF Sending
    <2>. QED  BY <1>0, <2>1, <2>2, <2>3, <2>4, <2>8 DEF CallInv, Somewhere
  <1>10. ASSUME NEW c \in Calls, c \notin ToSet(pending)
         PROVE  CallInv(c)' /\ call'[c].stage # "pending"
    <2>1. call'[c] = call[c] /\ call[c].stage # "pending"
      BY <1>0, <1>1, <1>10 DEF R!Kept
    <2>2. Of(wire', c) = Of(wire, c) /\ Of(answers', c) = Of(answers, c)
      BY <1>0, <1>1, <1>6, <1>10 DEF Of, ToSet
    <2>. QED  BY <1>0, <1>8, <2>1, <2>2, CallStays
  <1>11. R!PendingRight'
    <2>1. R!Kept(call') = {}
      BY <1>9, <1>10 DEF R!Kept
    <2>2. ToSet(pending') = {} /\ IsInjective(pending')
      BY <1>0 DEF ToSet, IsInjective
    <2>. QED  BY <2>1, <2>2, PendingIs
  <1>. QED  BY <1>0, <1>7, <1>9, <1>10, <1>11 DEF CallsInv

LEMMA CallsStutter == CallsInv /\ UNCHANGED remote_vars => CallsInv'
  <1>. SUFFICES ASSUME CallsInv, UNCHANGED remote_vars PROVE CallsInv'
    OBVIOUS
  <1>0. UNCHANGED <<setting, connected, losses, call, pending, wire, answers, buffer, executed, garbled>>
    BY DEF remote_vars
  <1>1. Limit' = Limit /\ Limit \in Nat
    BY <1>0 DEF Limit, CallsInv, CallTypes
  <1>2. \A c \in Calls : CallInv(c)'
    <2>. SUFFICES ASSUME NEW c \in Calls PROVE CallInv(c)'
      OBVIOUS
    <2>1. Of(wire, c)' = Of(wire, c) /\ Of(answers, c)' = Of(answers, c)
      BY <1>0 DEF Of, ToSet
    <2>. QED  BY <1>0, <1>1, <2>1, CallStays
  <1>3. CallTypes' /\ R!PendingRight' /\ ~garbled'
    BY <1>0, PendingIs DEF CallsInv, CallTypes, Distinct
  <1>. QED  BY <1>2, <1>3 DEF CallsInv

LEMMA CallsNext == CallsInv /\ [R!Next]_remote_vars => CallsInv'
  BY CallsStutter, MakeCallStep, TimeOutStep, RetryTimeOutStep, AcknowledgedStep, ResultStep,
     ConnectionLostStep, ReconnectStep, ReceiveChunkStep, ReceiveCallStep
  DEF R!Next

(***************************************************************************)
(* A remote method call is executed with its own arguments, at most once   *)
(* for each connection, its deferred fires at most once, and it waits for  *)
(* a connection just while it is among the pending requests, for any       *)
(* number of calls and chunks, any order of answers, timeouts and lost     *)
(* connections, and any way of using a RemoteObject.                       *)
(***************************************************************************)
THEOREM CallsRightEver == PartsSpec => []CallsRight
  <1>1. PartsInit => CallsInv
    <2>. SUFFICES ASSUME R!Init PROVE CallsInv
      BY DEF PartsInit
    <2>0. /\ setting \in Settings /\ connected = TRUE /\ losses = 0 /\ ~garbled
          /\ pending = <<>> /\ wire = <<>> /\ answers = <<>>
          /\ call = [c \in Calls |-> [stage |-> "unmade", at |-> 0, timer |-> "none", fired |-> 0]]
          /\ buffer = [c \in Calls |-> <<>>] /\ executed = [c \in Calls |-> 0]
      BY DEF R!Init
    <2>1. CallTypes
      BY <2>0 DEF CallTypes, Distinct
    <2>2. R!PendingRight
      BY <2>0, PendingIs DEF ToSet, IsInjective, R!Kept
    <2>3. ASSUME NEW c \in Calls PROVE CallInv(c)
      <3>1. FiredRight(call[c]) /\ executed[c] = 0 /\ call[c].stage = "unmade" /\ buffer[c] = <<>>
        BY <2>0 DEF FiredRight, CallRecords
      <3>2. Of(wire, c) = {} /\ Of(answers, c) = {}
        BY <2>0 DEF Of, ToSet
      <3>3. Limit \in Nat
        BY <2>0 DEF Limit
      <3>. QED  BY <3>1, <3>2, <3>3 DEF CallInv, Somewhere, Away
    <2>. QED  BY <2>0, <2>1, <2>2, <2>3 DEF CallsInv
  <1>2. CallsInv /\ [PartsNext]_all_vars => CallsInv'
    BY CallsNext, CallsStutter DEF PartsNext, all_vars
  <1>3. CallsInv => CallsRight
    <2>. SUFFICES ASSUME CallsInv PROVE CallsRight
      OBVIOUS
    <2>1. R!FiresOnce
      BY CallIs DEF R!FiresOnce, FiredRight, CallRecords
    <2>2. R!ExecutedOncePerConnection
      <3>. SUFFICES ASSUME NEW c \in Calls
                    PROVE  executed[c] <= 1 + (IF setting.retryOnReconnect THEN losses ELSE 0)
        BY DEF R!ExecutedOncePerConnection
      <3>1. executed[c] \in Nat /\ executed[c] <= Limit
        BY CallIs DEF Somewhere, Away, Sending, Acked, Answered
      <3>. QED  BY <3>1 DEF Limit, CallsInv, CallTypes
    <2>. QED  BY <2>1, <2>2 DEF CallsInv, CallsRight, R!CallsRight, R!ArgumentsIntact
  <1>. QED  BY <1>1, <1>2, <1>3, PTL DEF PartsSpec
=============================================================================
