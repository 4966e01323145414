------------------------- MODULE OperationsProofs -------------------------
(***************************************************************************)
(* Proofs about the work that the server asks for: the answers of the      *)
(* operations (Operations), and the parts of MCOperations.                 *)
(***************************************************************************)
EXTENDS MCOperations, SequenceTheorems, TLAPS

-----------------------------------------------------------------------------
(* Operations and their answers                                            *)

Where == {"waiting", "working", "answering", "closing", "over"}
Places == [at : Where, step : Nat \ {0}, status : {SUCCEEDED, FAILED}]

Answers == {<<>>, <<SUCCEEDED>>, <<FAILED>>, <<SUCCEEDED, FAILED>>}

\* What an answer says is what has happened: of an operation of kind k that is
\* at a place, with a status, the answers r and the excuses e
SaysWhatHappened(k, at, status, r, e) ==
    LET noticed == e \cap (NamesOf(k.steps) \ k.ignored)
    IN  /\ status = SUCCEEDED /\ at # "over" => noticed = {}
        /\ status = FAILED => e # {}
        /\ r \in {<<SUCCEEDED>>, <<SUCCEEDED, FAILED>>} => noticed = {}
        /\ r = <<FAILED>> => e # {}

\* Which answers there are at each place, and the reason of a second one
AnswersSoFar(k, at, status, r, e) ==
    LET reason == e \cap ({"call"} \cup NamesOf(k.closing)) # {}
    IN  /\ at \in {"waiting", "working"} => r = <<>>
        /\ at = "answering" /\ r # <<>> =>
             r = <<SUCCEEDED>> /\ status = FAILED /\ k.again /\ reason
        /\ at = "closing" /\ k.again => r = <<SUCCEEDED>>
        /\ r = <<SUCCEEDED, FAILED>> => k.again /\ reason

Sound(k, at, status, r, e) ==
    /\ r \in Answers
    /\ SaysWhatHappened(k, at, status, r, e) /\ AnswersSoFar(k, at, status, r, e)

AnswersInv ==
    /\ kind \in KindsTogether
    /\ op \in [Operation -> Places]
    /\ received \in [Operation -> Answers]
    /\ excuses = [o \in Operation |-> excuses[o]]
    /\ \A o \in Operation : Sound(kind[o], op[o].at, op[o].status, received[o], excuses[o])

\* How the answers and the excuses of one operation change
Hears(o, r) == received' = [received EXCEPT ![o] = r]
Excused(o, e) == excuses' = [excuses EXCEPT ![o] = e]

\* A second element makes a pair.
LEMMA Pair == ASSUME NEW a, NEW b PROVE Append(<<a>>, b) = <<a, b>>
  <1>1. <<a>> \in Seq({a, b}) /\ <<a, b>> \in Seq({a, b}) /\ Len(<<a>>) = 1 /\ Len(<<a, b>>) = 2
    OBVIOUS
  <1>2. /\ Append(<<a>>, b) \in Seq({a, b}) /\ Len(Append(<<a>>, b)) = 2
        /\ Append(<<a>>, b)[1] = a /\ Append(<<a>>, b)[2] = b
    OBVIOUS
  <1>3. \A i \in 1 .. 2 : Append(<<a>>, b)[i] = <<a, b>>[i]
    BY <1>2
  <1>. QED  BY ONLY <1>1, <1>2, <1>3, SeqEqual

\* What is assumed of the kinds, for one operation
LEMMA KindOf ==
    ASSUME AnswersInv, NEW o \in Operation
    PROVE  /\ kind[o] \in Kind
           /\ NamesOf(kind[o].steps)
                \cap (NamesOf(kind[o].closing) \cup {"call", "crash", "shared"}) = {}
           /\ kind[o].again => ~kind[o].anyway
           /\ kind[o].again => "send_changes" \notin NamesOf(kind[o].closing)
  BY KindsAssumption DEF AnswersInv

\* The step that an operation is at is one of its kind.
LEMMA CurrentIs ==
    ASSUME AnswersInv, NEW o \in Operation, Working(o)
    PROVE  /\ Under(o, "working") => Current(o) \in NamesOf(kind[o].steps)
           /\ Under(o, "closing") => Current(o) \in NamesOf(kind[o].closing)
  <1>1. op[o] \in Places /\ kind[o].steps \in Seq(STRING) /\ kind[o].closing \in Seq(STRING)
    BY KindOf DEF AnswersInv, Kind
  <1>2. steps(o) \in Seq(STRING) /\ op[o].step \in 1 .. Len(steps(o))
    BY <1>1 DEF Working, steps, Under, Places
  <1>3. op[o].step \in DOMAIN steps(o)
    BY <1>2
  <1>4. Current(o) \in NamesOf(steps(o))
    BY <1>3 DEF Current, NamesOf
  <1>. QED  BY <1>3, <1>4 DEF steps, Under

\* Where an operation is, and that it is sound
LEMMA PlaceOf ==
    ASSUME AnswersInv, NEW o \in Operation
    PROVE  /\ op[o].at \in Where /\ op[o].step \in Nat \ {0} /\ op[o].step + 1 \in Nat \ {0}
           /\ op[o].status \in {SUCCEEDED, FAILED}
           /\ received[o] \in Answers
           /\ SaysWhatHappened(kind[o], op[o].at, op[o].status, received[o], excuses[o])
           /\ AnswersSoFar(kind[o], op[o].at, op[o].status, received[o], excuses[o])
           /\ received = [received EXCEPT ![o] = received[o]]
           /\ excuses = [excuses EXCEPT ![o] = excuses[o]]
  <1>1. op[o] \in Places
    BY DEF AnswersInv
  <1>2. /\ op[o].at \in Where /\ op[o].step \in Nat \ {0} /\ op[o].step + 1 \in Nat \ {0}
        /\ op[o].status \in {SUCCEEDED, FAILED}
    BY <1>1 DEF Places
  <1>. QED  BY <1>2 DEF AnswersInv, Sound

\* One operation moves, and the others stay as they are.
LEMMA OneMoves ==
    ASSUME AnswersInv, NEW o \in Operation, NEW where \in Where, NEW step \in Nat \ {0},
           NEW status \in {SUCCEEDED, FAILED}, NEW r, NEW e,
           Sound(kind[o], where, status, r, e), kind' = kind, Move(o, where, step, status),
           Hears(o, r), Excused(o, e)
    PROVE  AnswersInv'
  <1>. DEFINE x == [at |-> where, step |-> step, status |-> status]
  <1>1. x \in Places /\ r \in Answers
    BY DEF Sound, Places
  <1>2. /\ op' \in [Operation -> Places] /\ received' \in [Operation -> Answers]
        /\ excuses' = [q \in Operation |-> excuses'[q]] /\ kind' \in KindsTogether
    BY <1>1 DEF AnswersInv, Move, Hears, Excused
  <1>3. ASSUME NEW q \in Operation
        PROVE  Sound(kind'[q], op'[q].at, op'[q].status, received'[q], excuses'[q])
    <2>1. CASE q = o
      BY <2>1 DEF AnswersInv, Move, Hears, Excused
    <2>2. CASE q # o
      BY <2>2 DEF AnswersInv, Move, Hears, Excused
    <2>. QED  BY <2>1, <2>2
  <1>. QED  BY <1>2, <1>3 DEF AnswersInv

LEMMA BeginSound ==
    ASSUME AnswersInv, NEW o \in Operation, Begin(o) PROVE AnswersInv'
  <1>1. op[o].at = "waiting" /\ kind' = kind /\ Move(o, "working", 1, op[o].status)
    BY DEF Begin, Under, Go
  <1>2. Hears(o, received[o]) /\ Excused(o, excuses[o])
    BY PlaceOf DEF Begin, Hears, Excused
  <1>3. Sound(kind[o], "working", op[o].status, received[o], excuses[o])
    BY <1>1, PlaceOf DEF Sound, SaysWhatHappened, AnswersSoFar
  <1>. QED  BY <1>1, <1>2, <1>3, PlaceOf, OneMoves DEF Where

LEMMA StepDoneSound ==
    ASSUME AnswersInv, NEW o \in Operation, StepDone(o) PROVE AnswersInv'
  <1>1. kind' = kind /\ Move(o, op[o].at, op[o].step + 1, op[o].status)
    BY DEF StepDone, GoOn
  <1>2. Hears(o, received[o]) /\ Excused(o, excuses[o])
    BY PlaceOf DEF StepDone, Hears, Excused
  <1>. QED  BY <1>1, <1>2, PlaceOf, OneMoves DEF Sound

LEMMA StepsEndSound ==
    ASSUME AnswersInv, NEW o \in Operation, StepsEnd(o) PROVE AnswersInv'
  <1>1. kind' = kind /\ op[o].at \in {"working", "closing"}
    BY DEF StepsEnd
  <1>2. Hears(o, received[o]) /\ Excused(o, excuses[o])
    BY PlaceOf DEF StepsEnd, Hears, Excused
  <1>3. CASE op[o].at = "working"
    <2>1. Move(o, "answering", 1, op[o].status)
      BY <1>3 DEF StepsEnd, Go, Under
    <2>2. Sound(kind[o], "answering", op[o].status, received[o], excuses[o])
      BY <1>3, PlaceOf DEF Sound, SaysWhatHappened, AnswersSoFar
    <2>. QED  BY <1>1, <1>2, <2>1, <2>2, PlaceOf, OneMoves DEF Where
  <1>4. CASE op[o].at = "closing"
    <2>1. Move(o, "over", 1, op[o].status)
      BY <1>4 DEF StepsEnd, Go, Under
    <2>2. Sound(kind[o], "over", op[o].status, received[o], excuses[o])
      BY <1>4, PlaceOf DEF Sound, SaysWhatHappened, AnswersSoFar
    <2>. QED  BY <1>1, <1>2, <2>1, <2>2, PlaceOf, OneMoves DEF Where
  <1>. QED  BY <1>1, <1>3, <1>4

\* A step has failed, and nothing is said of what follows.
LEMMA MoreExcuses ==
    ASSUME AnswersInv, NEW o \in Operation, NEW why,
           why \in NamesOf(kind[o].steps) => op[o].at = "working"
    PROVE  LET e == excuses[o] \cup {why}
           IN  /\ e # {}
               /\ received[o] \in {<<SUCCEEDED>>, <<SUCCEEDED, FAILED>>} =>
                    e \cap (NamesOf(kind[o].steps) \ kind[o].ignored) = {}
               /\ excuses[o] \cap ({"call"} \cup NamesOf(kind[o].closing)) # {} =>
                    e \cap ({"call"} \cup NamesOf(kind[o].closing)) # {}
  <1>1. why \in NamesOf(kind[o].steps) => received[o] = <<>>
    BY PlaceOf DEF AnswersSoFar
  <1>2. <<>> \notin {<<SUCCEEDED>>, <<SUCCEEDED, FAILED>>}
    OBVIOUS
  <1>. QED  BY <1>1, <1>2, PlaceOf DEF SaysWhatHappened

LEMMA StepFailsSound ==
    ASSUME AnswersInv, NEW o \in Operation, StepFails(o) PROVE AnswersInv'
  <1>. DEFINE why == IF Possible(o) THEN Current(o) ELSE "shared"
              e == excuses[o] \cup {why}
              Last == NamesOf(kind[o].closing)
              N == NamesOf(kind[o].steps)
  <1>1. op[o].at \in {"working", "closing"} /\ Working(o)
    BY DEF StepFails, Working
  <1>2. why = Current(o) \/ (why = "shared" /\ Current(o) = "send_changes")
    BY <1>1, CurrentIs DEF Possible
  <1>3. kind' = kind /\ Hears(o, received[o])
        /\ Excused(o, e)
    BY PlaceOf DEF StepFails, Excuse, Hears, Excused
  <1>. HIDE DEF why
  <1>4. /\ why \in N => op[o].at = "working" /\ why = Current(o)
        /\ op[o].at = "closing" /\ kind[o].again => why \in Last
    BY <1>1, <1>2, CurrentIs, KindOf DEF Under
  <1>5. /\ e # {} /\ why \in e
        /\ received[o] \in {<<SUCCEEDED>>, <<SUCCEEDED, FAILED>>} =>
             e \cap (N \ kind[o].ignored) = {}
        /\ excuses[o] \cap ({"call"} \cup Last) # {} => e \cap ({"call"} \cup Last) # {}
    BY <1>2, <1>4, MoreExcuses
  <1>6. op[o].status = SUCCEEDED /\ Current(o) \in kind[o].ignored =>
          e \cap (N \ kind[o].ignored) = {}
    BY <1>1, <1>4, PlaceOf DEF SaysWhatHappened
  <1>7. op[o].at = "closing" /\ kind[o].again => e \cap ({"call"} \cup Last) # {}
    BY <1>4, <1>5
  <1>. HIDE DEF e, Last, N
  <1>8. CASE Current(o) \in kind[o].ignored /\ GoOn(o, op[o].status)
    <2>1. Sound(kind[o], op[o].at, op[o].status, received[o], e)
      BY <1>1, <1>5, <1>6, <1>8, PlaceOf DEF Sound, SaysWhatHappened, AnswersSoFar, Last, N
    <2>. QED  BY <1>3, <1>8, <2>1, PlaceOf, OneMoves DEF GoOn
  <1>9. CASE GoOn(o, FAILED)
    <2>1. Sound(kind[o], op[o].at, FAILED, received[o], e)
      BY <1>1, <1>5, PlaceOf DEF Sound, SaysWhatHappened, AnswersSoFar, Last, N, SUCCEEDED, FAILED
    <2>. QED  BY <1>3, <1>9, <2>1, PlaceOf, OneMoves DEF GoOn
  <1>10. CASE Go(o, "over")
    <2>1. Sound(kind[o], "over", op[o].status, received[o], e)
      BY <1>1, <1>5, PlaceOf DEF Sound, SaysWhatHappened, AnswersSoFar, Last, N
    <2>. QED  BY <1>3, <1>10, <2>1, PlaceOf, OneMoves DEF Go, Where
  <1>11. CASE AnswerWith(o, FAILED) /\ (Under(o, "closing") => kind[o].again)
    <2>1. Sound(kind[o], "answering", FAILED, received[o], e)
      BY <1>1, <1>5, <1>7, <1>11, PlaceOf
      DEF Sound, SaysWhatHappened, AnswersSoFar, Last, N, SUCCEEDED, FAILED, Under
    <2>. QED  BY <1>3, <1>11, <2>1, PlaceOf, OneMoves DEF AnswerWith, Where
  <1>. QED  BY <1>8, <1>9, <1>10, <1>11 DEF StepFails

\* What the broker has when it gets an answer
LEMMA OneMore ==
    ASSUME AnswersInv, NEW o \in Operation, op[o].at = "answering"
    PROVE  LET r == Append(received[o], op[o].status)
           IN  /\ r \in Answers /\ r # <<>>
               /\ received[o] = <<>> => r = <<op[o].status>>
               /\ received[o] # <<>> =>
                    /\ r = <<SUCCEEDED, FAILED>> /\ op[o].status = FAILED /\ kind[o].again
                    /\ excuses[o] \cap ({"call"} \cup NamesOf(kind[o].closing)) # {}
                    /\ excuses[o] \cap (NamesOf(kind[o].steps) \ kind[o].ignored) = {}
  <1>1. CASE received[o] = <<>>
    BY <1>1, PlaceOf DEF Answers
  <1>2. CASE received[o] # <<>>
    <2>1. /\ received[o] = <<SUCCEEDED>> /\ op[o].status = FAILED /\ kind[o].again
          /\ excuses[o] \cap ({"call"} \cup NamesOf(kind[o].closing)) # {}
      BY <1>2, PlaceOf DEF AnswersSoFar
    <2>2. excuses[o] \cap (NamesOf(kind[o].steps) \ kind[o].ignored) = {}
      BY <2>1, PlaceOf DEF SaysWhatHappened
    <2>3. Append(received[o], op[o].status) = <<SUCCEEDED, FAILED>>
      BY <2>1, Pair
    <2>. QED  BY <1>2, <2>1, <2>2, <2>3 DEF Answers
  <1>. QED  BY <1>1, <1>2

\* An answer the broker has got is sound, wherever that leads.
LEMMA OneMoreSound ==
    ASSUME AnswersInv, NEW o \in Operation, op[o].at = "answering",
           NEW e, e \in {excuses[o], excuses[o] \cup {"call"}},
           NEW where \in {"closing", "over"},
           where = "closing" /\ kind[o].again =>
             received[o] = <<>> /\ op[o].status = SUCCEEDED
    PROVE  Sound(kind[o], where, op[o].status, Append(received[o], op[o].status), e)
  <1>. DEFINE r == Append(received[o], op[o].status)
              reason == e \cap ({"call"} \cup NamesOf(kind[o].closing)) # {}
              noticed == e \cap (NamesOf(kind[o].steps) \ kind[o].ignored)
  <1>1. /\ r \in Answers /\ r # <<>>
        /\ received[o] = <<>> => r = <<op[o].status>>
        /\ received[o] # <<>> => r = <<SUCCEEDED, FAILED>> /\ op[o].status = FAILED /\ kind[o].again
    BY OneMore
  <1>2. /\ excuses[o] \subseteq e
        /\ noticed = excuses[o] \cap (NamesOf(kind[o].steps) \ kind[o].ignored)
    BY KindOf, PlaceOf
  <1>3. /\ op[o].status \in {SUCCEEDED, FAILED}
        /\ op[o].status = SUCCEEDED => noticed = {}
        /\ op[o].status = FAILED => e # {}
        /\ received[o] # <<>> => noticed = {} /\ reason
    BY <1>2, PlaceOf, OneMore DEF SaysWhatHappened
  <1>4. /\ r = <<SUCCEEDED>> => op[o].status = SUCCEEDED
        /\ r = <<FAILED>> => op[o].status = FAILED
        /\ r = <<SUCCEEDED, FAILED>> => received[o] # <<>>
    BY <1>1, <1>3 DEF SUCCEEDED, FAILED
  <1>. HIDE DEF r, reason, noticed
  <1>5. SaysWhatHappened(kind[o], where, op[o].status, r, e)
    BY <1>3, <1>4 DEF SaysWhatHappened, noticed
  <1>6. AnswersSoFar(kind[o], where, op[o].status, r, e)
    BY <1>1, <1>3, <1>4 DEF AnswersSoFar, reason, SUCCEEDED, FAILED
  <1>. QED  BY <1>1, <1>2, <1>5, <1>6 DEF Sound, r

LEMMA AnsweredSound ==
    ASSUME AnswersInv, NEW o \in Operation, Answered(o) PROVE AnswersInv'
  <1>1. op[o].at = "answering" /\ kind' = kind
    BY DEF Answered, Under
  <1>2. /\ Hears(o, Append(received[o], op[o].status))
        /\ Excused(o, excuses[o])
    BY PlaceOf DEF Answered, Receive, Hears, Excused
  <1>3. PICK where \in {"closing", "over"} :
          /\ Move(o, where, 1, op[o].status)
          /\ where = "closing" /\ kind[o].again => received[o] = <<>> /\ op[o].status = SUCCEEDED
    BY DEF Answered, AfterAnswer, Go
  <1>4. Sound(kind[o], where, op[o].status, Append(received[o], op[o].status), excuses[o])
    BY <1>1, <1>3, OneMoreSound
  <1>. QED  BY <1>1, <1>2, <1>3, <1>4, PlaceOf, OneMoves DEF Where

\* The call failed, and the broker has no answer of it.
LEMMA NoMoreSound ==
    ASSUME AnswersInv, NEW o \in Operation, op[o].at = "answering",
           NEW where \in {"closing", "over"}, where = "closing" => ~kind[o].again
    PROVE  Sound(kind[o], where, op[o].status, received[o], excuses[o] \cup {"call"})
  <1>1. "call" \notin NamesOf(kind[o].steps)
    BY KindOf
  <1>. QED  BY <1>1, PlaceOf DEF Sound, SaysWhatHappened, AnswersSoFar

\* The answer SUCCEEDED may have been received, and FAILED is going to follow.
LEMMA AgainSound ==
    ASSUME AnswersInv, NEW o \in Operation, op[o].at = "answering", AnswerAgain(o),
           NEW r \in {received[o], Append(received[o], op[o].status)}
    PROVE  Sound(kind[o], "answering", FAILED, r, excuses[o] \cup {"call"})
  <1>. DEFINE e == excuses[o] \cup {"call"}
  <1>1. kind[o].again /\ op[o].status = SUCCEEDED
    BY DEF AnswerAgain
  <1>2. received[o] = <<>>
    BY <1>1, PlaceOf DEF AnswersSoFar, SUCCEEDED, FAILED
  <1>3. r \in {<<>>, <<SUCCEEDED>>}
    BY <1>1, <1>2
  <1>4. e # {} /\ e \cap ({"call"} \cup NamesOf(kind[o].closing)) # {}
    BY PlaceOf
  <1>5. e \cap (NamesOf(kind[o].steps) \ kind[o].ignored) = {}
    BY <1>1, KindOf, PlaceOf DEF SaysWhatHappened
  <1>. HIDE DEF e
  <1>6. SaysWhatHappened(kind[o], "answering", FAILED, r, e)
    BY <1>4, <1>5 DEF SaysWhatHappened, SUCCEEDED, FAILED
  <1>7. r # <<SUCCEEDED, FAILED>>
    BY <1>3
  <1>8. AnswersSoFar(kind[o], "answering", FAILED, r, e)
    BY <1>1, <1>3, <1>4, <1>7 DEF AnswersSoFar
  <1>. QED  BY <1>3, <1>4, <1>6, <1>8 DEF Sound, Answers, e

LEMMA AnswerFailsSound ==
    ASSUME AnswersInv, NEW o \in Operation, AnswerFails(o) PROVE AnswersInv'
  <1>. DEFINE e == excuses[o] \cup {"call"}
  <1>1. op[o].at = "answering" /\ kind' = kind /\ Excused(o, e)
    BY DEF AnswerFails, Under, Excuse, Excused
  <1>2. PICK r \in {received[o], Append(received[o], op[o].status)} :
          Hears(o, r)
    BY PlaceOf DEF AnswerFails, Receive, Hears
  <1>3. CASE AnswerAgain(o)
    <2>1. Move(o, "answering", 1, FAILED)
      BY <1>3 DEF AnswerFails, AnswerWith
    <2>2. Sound(kind[o], "answering", FAILED, r, e)
      BY <1>1, <1>2, <1>3, AgainSound
    <2>. HIDE DEF e
    <2>. QED  BY <1>1, <1>2, <2>1, <2>2, OneMoves DEF Where
  <1>4. CASE ~AnswerAgain(o)
    <2>1. PICK where \in {"closing", "over"} :
            Move(o, where, 1, op[o].status) /\ (where = "closing" => kind[o].anyway)
      BY <1>4 DEF AnswerFails, Go
    <2>2. where = "closing" => ~kind[o].again
      BY <2>1, KindOf
    <2>3. Sound(kind[o], where, op[o].status, r, e)
      <3>1. CASE r = received[o]
        BY <1>1, <2>1, <2>2, <3>1, NoMoreSound
      <3>2. CASE r = Append(received[o], op[o].status)
        BY <1>1, <2>1, <2>2, <3>2, OneMoreSound
      <3>. QED  BY <1>2, <3>1, <3>2
    <2>. HIDE DEF e
    <2>. QED  BY <1>1, <1>2, <2>1, <2>3, PlaceOf, OneMoves DEF Where
  <1>. QED  BY <1>3, <1>4

LEMMA CrashSound ==
    ASSUME AnswersInv, Crash PROVE AnswersInv'
  <1>1. kind' = kind /\ received' = received
    BY DEF Crash
  <1>2. DOMAIN op' = Operation /\ DOMAIN excuses' = Operation
    BY DEF Crash
  <1>3. ASSUME NEW o \in Operation
        PROVE  /\ op'[o] \in Places
               /\ Sound(kind[o], op'[o].at, op'[o].status, received[o], excuses'[o])
    <2>0. op[o] \in Places
      BY DEF AnswersInv
    <2>1. CASE op[o].at = "waiting"
      <3>1. op'[o] = op[o] /\ excuses'[o] = excuses[o]
        BY <2>1 DEF Crash, Under
      <3>. QED  BY <2>0, <3>1, PlaceOf DEF Sound
    <2>2. CASE op[o].at # "waiting"
      <3>1. op'[o] = [op[o] EXCEPT !.at = "over"]
        BY <2>2 DEF Crash, Under
      <3>2. op'[o] \in Places /\ op'[o].at = "over" /\ op'[o].status = op[o].status
        BY <2>0, <3>1 DEF Places, Where
      <3>3. excuses'[o] \in {excuses[o], excuses[o] \cup {"crash"}}
        BY DEF Crash
      <3>4. "crash" \notin NamesOf(kind[o].steps)
        BY KindOf
      <3>5. Sound(kind[o], "over", op[o].status, received[o], excuses'[o])
        BY <3>3, <3>4, PlaceOf DEF Sound, SaysWhatHappened, AnswersSoFar
      <3>. QED  BY <3>2, <3>5
    <2>. QED  BY <2>1, <2>2
  <1>4. op' \in [Operation -> Places]
    BY <1>2, <1>3 DEF Crash
  <1>5. excuses' = [q \in Operation |-> excuses'[q]]
    BY <1>2, <1>3 DEF Crash, Sound
  <1>. QED  BY <1>1, <1>3, <1>4, <1>5 DEF AnswersInv

LEMMA AnswersInvInit == Init => AnswersInv
  <1>. SUFFICES ASSUME Init PROVE AnswersInv
    OBVIOUS
  <1>1. ASSUME NEW o \in Operation
        PROVE  Sound(kind[o], op[o].at, op[o].status, received[o], excuses[o])
    BY DEF Init, Sound, Places, Answers, SaysWhatHappened, AnswersSoFar, SUCCEEDED, FAILED
  <1>2. op \in [Operation -> Places]
    BY DEF Init, Places, Where
  <1>. QED  BY <1>1, <1>2 DEF Init, AnswersInv, Answers

LEMMA AnswersInvNext == AnswersInv /\ [Next]_vars => AnswersInv'
  <1>1. AnswersInv /\ UNCHANGED vars => AnswersInv'
    BY DEF vars, AnswersInv
  <1>. QED  BY <1>1, BeginSound, StepDoneSound, StepFailsSound, StepsEndSound, AnsweredSound,
               AnswerFailsSound, CrashSound DEF Next

(***************************************************************************)
(* The first answer of an operation of any kind is true, and a second one  *)
(* only follows a SUCCEEDED that was not sent for sure or whose closing    *)
(* work failed: for any number of operations at the same time, and any     *)
(* number of failing calls and crashes.                                    *)
(***************************************************************************)
THEOREM OneTrueAnswerAlways == Spec => []OneTrueAnswer
  <1>1. AnswersInv => OneTrueAnswer
    <2>. SUFFICES ASSUME AnswersInv, NEW o \in Operation
                  PROVE  /\ received[o] # <<>> /\ received[o][1] = SUCCEEDED => Noticed(o) = {}
                         /\ received[o] = <<FAILED>> => excuses[o] # {}
                         /\ Len(received[o]) > 1 =>
                              /\ received[o] = <<SUCCEEDED, FAILED>> /\ kind[o].again
                              /\ excuses[o] \cap ({"call"} \cup NamesOf(kind[o].closing)) # {}
      BY DEF OneTrueAnswer
    <2>1. CASE received[o] = <<>>
      BY <2>1
    <2>2. CASE received[o] = <<SUCCEEDED>>
      <3>1. Len(received[o]) = 1 /\ received[o] # <<FAILED>>
        BY <2>2 DEF SUCCEEDED, FAILED
      <3>2. Noticed(o) = {}
        BY <2>2, PlaceOf DEF SaysWhatHappened, Noticed
      <3>. QED  BY <3>1, <3>2
    <2>3. CASE received[o] = <<FAILED>>
      BY <2>3, PlaceOf DEF SaysWhatHappened, SUCCEEDED, FAILED
    <2>4. CASE received[o] = <<SUCCEEDED, FAILED>>
      BY <2>4, PlaceOf DEF SaysWhatHappened, AnswersSoFar, Noticed, SUCCEEDED, FAILED
    <2>. QED  BY <2>1, <2>2, <2>3, <2>4, PlaceOf DEF Answers
  <1>. QED  BY <1>1, AnswersInvInit, AnswersInvNext, PTL DEF Spec

-----------------------------------------------------------------------------
(* Scripts: the answers and the umask                                      *)

ScriptStatus == {S!SUCCEEDED, S!FAILED, S!TIMEOUT, S!PROCESS_FAILED}
ScriptAnswers == {<<>>, <<S!SUCCEEDED>>, <<S!FAILED>>, <<S!TIMEOUT>>, <<S!PROCESS_FAILED>>,
                  <<S!SUCCEEDED, S!FAILED>>}
Umasks == {S!Daemon, S!Open}
ScriptPlaces == {"waiting", "fetching", "running", "answering", "over"}
ScriptRecord == [at : ScriptPlaces, old_umask : Umasks, cancelled : BOOLEAN, status : ScriptStatus]
Processes == {"none", "running", "done", "failed", "killed", "reaped_done", "reaped_failed"}

\* A status is how the process of s ended.
Matches(s, status, p) ==
    /\ status = S!SUCCEEDED => p = "reaped_done"
    /\ status = S!TIMEOUT => s \in Limited
    /\ status = S!PROCESS_FAILED => p = "reaped_failed"

\* A script s at a place, with its process p, its pipes, its timer and the
\* answers r
ScriptSound(s, at, cancelled, status, p, open, timed, r, failed) ==
    /\ at \in {"waiting", "fetching"} => p = "none" /\ ~open /\ ~timed /\ ~cancelled
    /\ at = "running" => p # "none" /\ (timed \/ cancelled => s \in Limited)
    /\ at \in {"answering", "over"} =>
         /\ p \in {"none", "reaped_done", "reaped_failed"} /\ ~open /\ ~timed
         /\ Matches(s, status, p)
    /\ at \in {"waiting", "fetching", "running"} => r = <<>>
    /\ at = "answering" /\ r # <<>> => r = <<S!SUCCEEDED>> /\ status = S!FAILED /\ failed > 0
    /\ r \in {<<S!SUCCEEDED>>, <<S!SUCCEEDED, S!FAILED>>} => p = "reaped_done"
    /\ r = <<S!TIMEOUT>> => s \in Limited
    /\ r = <<S!PROCESS_FAILED>> => p = "reaped_failed"
    /\ r = <<S!SUCCEEDED, S!FAILED>> => failed > 0

ScriptSoundNow(s) ==
    ScriptSound(s, script[s].at, script[s].cancelled, script[s].status, process[s], pipes[s],
                timer[s], script_received[s], script_faults)

ScriptTypes ==
    /\ script \in [Script -> ScriptRecord] /\ process \in [Script -> Processes]
    /\ pipes \in [Script -> BOOLEAN] /\ timer \in [Script -> BOOLEAN]
    /\ script_received \in [Script -> ScriptAnswers] /\ script_faults \in Nat

ScriptsInv == ScriptTypes /\ \A s \in Script : ScriptSoundNow(s)

\* How one script changes
Becomes(s, x, p, open, timed, r) ==
    /\ script' = [script EXCEPT ![s] = x] /\ process' = [process EXCEPT ![s] = p]
    /\ pipes' = [pipes EXCEPT ![s] = open] /\ timer' = [timer EXCEPT ![s] = timed]
    /\ script_received' = [script_received EXCEPT ![s] = r]

LEMMA ScriptIs ==
    ASSUME ScriptsInv, NEW s \in Script
    PROVE  /\ script[s] \in ScriptRecord /\ process[s] \in Processes
           /\ pipes[s] \in BOOLEAN /\ timer[s] \in BOOLEAN
           /\ script_received[s] \in ScriptAnswers /\ script_faults \in Nat
           /\ script[s].at \in ScriptPlaces /\ script[s].old_umask \in Umasks
           /\ script[s].cancelled \in BOOLEAN /\ script[s].status \in ScriptStatus
           /\ script = [script EXCEPT ![s] = script[s]]
           /\ process = [process EXCEPT ![s] = process[s]]
           /\ pipes = [pipes EXCEPT ![s] = pipes[s]]
           /\ timer = [timer EXCEPT ![s] = timer[s]]
           /\ script_received = [script_received EXCEPT ![s] = script_received[s]]
           /\ ScriptSoundNow(s)
  <1>1. /\ script[s] \in ScriptRecord /\ process[s] \in Processes
        /\ pipes[s] \in BOOLEAN /\ timer[s] \in BOOLEAN
        /\ script_received[s] \in ScriptAnswers /\ script_faults \in Nat
    BY DEF ScriptsInv, ScriptTypes
  <1>2. /\ script[s].at \in ScriptPlaces /\ script[s].old_umask \in Umasks
        /\ script[s].cancelled \in BOOLEAN /\ script[s].status \in ScriptStatus
    BY <1>1 DEF ScriptRecord
  <1>. QED  BY <1>1, <1>2 DEF ScriptsInv, ScriptTypes

\* One script moves, and the others stay as they are.
LEMMA OneScriptMoves ==
    ASSUME ScriptsInv, NEW s \in Script, NEW x \in ScriptRecord, NEW p \in Processes,
           NEW open \in BOOLEAN, NEW timed \in BOOLEAN, NEW r \in ScriptAnswers,
           Becomes(s, x, p, open, timed, r),
           script_faults' \in {script_faults, script_faults + 1},
           ScriptSound(s, x.at, x.cancelled, x.status, p, open, timed, r, script_faults')
    PROVE  ScriptsInv'
  <1>1. ScriptTypes'
    BY DEF ScriptsInv, ScriptTypes, Becomes
  <1>2. ASSUME NEW q \in Script PROVE ScriptSoundNow(q)'
    <2>1. CASE q = s
      BY <2>1 DEF ScriptsInv, ScriptTypes, Becomes, ScriptSoundNow
    <2>2. CASE q # s
      <3>1. /\ script'[q] = script[q] /\ process'[q] = process[q] /\ pipes'[q] = pipes[q]
            /\ timer'[q] = timer[q] /\ script_received'[q] = script_received[q]
        BY <2>2 DEF ScriptsInv, ScriptTypes, Becomes
      <3>2. script_faults \in Nat /\ (script_faults > 0 => script_faults' > 0)
        BY DEF ScriptsInv, ScriptTypes
      <3>3. ScriptSoundNow(q)
        BY DEF ScriptsInv
      <3>. QED  BY <3>1, <3>2, <3>3 DEF ScriptSoundNow, ScriptSound
    <2>. QED  BY <2>1, <2>2
  <1>. QED  BY <1>1, <1>2 DEF ScriptsInv

\* Move, as a record
Moved(s, where, status) ==
    [at |-> where, old_umask |-> script[s].old_umask, cancelled |-> script[s].cancelled,
     status |-> status]

LEMMA MovedIs ==
    ASSUME ScriptsInv, NEW s \in Script, NEW where \in ScriptPlaces, NEW status \in ScriptStatus
    PROVE  /\ Moved(s, where, status) \in ScriptRecord
           /\ Moved(s, where, status).at = where
           /\ Moved(s, where, status).cancelled = script[s].cancelled
           /\ Moved(s, where, status).status = status
  BY ScriptIs DEF Moved, ScriptRecord

LEMMA RefuseSound ==
    ASSUME ScriptsInv, NEW s \in Script, S!Refuse(s) PROVE ScriptsInv'
  <1>. DEFINE x == Moved(s, "answering", S!FAILED)
  <1>1. x \in ScriptRecord /\ x.at = "answering" /\ x.cancelled = script[s].cancelled
        /\ x.status = S!FAILED
    BY MovedIs DEF ScriptPlaces, ScriptStatus
  <1>2. /\ Becomes(s, x, process[s], pipes[s], timer[s], script_received[s])
        /\ script[s].at = "waiting" /\ script_faults' = script_faults
    BY ScriptIs DEF S!Refuse, S!Move, Becomes, Moved
  <1>3. ScriptSound(s, x.at, x.cancelled, x.status, process[s], pipes[s], timer[s],
                    script_received[s], script_faults')
    BY <1>1, <1>2, ScriptIs
    DEF ScriptSoundNow, ScriptSound, Matches, S!FAILED, S!SUCCEEDED, S!TIMEOUT, S!PROCESS_FAILED
  <1>. HIDE DEF x
  <1>. QED  BY <1>1, <1>2, <1>3, ScriptIs, OneScriptMoves

LEMMA RunScriptSound ==
    ASSUME ScriptsInv, umask \in Umasks, NEW s \in Script, S!RunScript(s) PROVE ScriptsInv'
  <1>. DEFINE x == [S!New EXCEPT !.at = IF s \in Attached THEN "fetching" ELSE "running",
                                 !.old_umask = umask]
  <1>1. /\ x \in ScriptRecord /\ x.at = (IF s \in Attached THEN "fetching" ELSE "running")
        /\ x.cancelled = FALSE /\ x.status = S!SUCCEEDED
    BY DEF S!New, ScriptRecord, ScriptPlaces, ScriptStatus
  <1>2. script[s].at = "waiting" /\ script_faults' = script_faults
    BY DEF S!RunScript
  <1>3. CASE s \in Attached
    <2>1. Becomes(s, x, process[s], pipes[s], timer[s], script_received[s])
      BY <1>3, ScriptIs DEF S!RunScript, Becomes
    <2>2. ScriptSound(s, x.at, x.cancelled, x.status, process[s], pipes[s], timer[s],
                      script_received[s], script_faults')
      BY <1>1, <1>2, <1>3, ScriptIs DEF ScriptSoundNow, ScriptSound
    <2>. HIDE DEF x
    <2>. QED  BY <1>1, <1>2, <2>1, <2>2, ScriptIs, OneScriptMoves
  <1>4. CASE s \notin Attached
    <2>9. PICK open \in BOOLEAN : open = TRUE
      OBVIOUS
    <2>0. PICK timed \in BOOLEAN : timed <=> s \in Limited
      OBVIOUS
    <2>1. Becomes(s, x, "running", open, timed, script_received[s])
      BY <1>4, <2>0, <2>9, ScriptIs DEF S!RunScript, S!Spawn, Becomes
    <2>2. ScriptSound(s, x.at, x.cancelled, x.status, "running", open, timed,
                      script_received[s], script_faults')
      BY <1>1, <1>2, <1>4, <2>0, ScriptIs DEF ScriptSoundNow, ScriptSound
    <2>. HIDE DEF x
    <2>. QED  BY <1>1, <1>2, <2>1, <2>2, ScriptIs, OneScriptMoves DEF Processes
  <1>. QED  BY <1>3, <1>4

LEMMA FetchedSound ==
    ASSUME ScriptsInv, NEW s \in Script, S!Fetched(s) PROVE ScriptsInv'
  <1>. DEFINE x == Moved(s, "running", script[s].status)
  <1>1. x \in ScriptRecord /\ x.at = "running" /\ x.cancelled = script[s].cancelled
    BY MovedIs, ScriptIs DEF ScriptPlaces
  <1>9. PICK open \in BOOLEAN : open = TRUE
    OBVIOUS
  <1>0. PICK timed \in BOOLEAN : timed <=> s \in Limited
    OBVIOUS
  <1>2. /\ Becomes(s, x, "running", open, timed, script_received[s])
        /\ script[s].at = "fetching" /\ script_faults' = script_faults
    BY <1>0, <1>9, ScriptIs DEF S!Fetched, S!Spawn, S!Move, Becomes, Moved
  <1>3. ScriptSound(s, x.at, x.cancelled, x.status, "running", open, timed,
                    script_received[s], script_faults')
    BY <1>0, <1>1, <1>2, ScriptIs DEF ScriptSoundNow, ScriptSound
  <1>. HIDE DEF x
  <1>. QED  BY <1>1, <1>2, <1>3, ScriptIs, OneScriptMoves DEF Processes

LEMMA FetchFailsSound ==
    ASSUME ScriptsInv, NEW s \in Script, S!FetchFails(s) PROVE ScriptsInv'
  <1>. DEFINE x == Moved(s, "answering", S!FAILED)
  <1>1. x \in ScriptRecord /\ x.at = "answering" /\ x.cancelled = script[s].cancelled
        /\ x.status = S!FAILED
    BY MovedIs DEF ScriptPlaces, ScriptStatus
  <1>2. /\ Becomes(s, x, process[s], pipes[s], timer[s], script_received[s])
        /\ script[s].at = "fetching" /\ script_faults' = script_faults
    BY ScriptIs DEF S!FetchFails, S!End, S!Move, Becomes, Moved
  <1>3. ScriptSound(s, x.at, x.cancelled, x.status, process[s], pipes[s], timer[s],
                    script_received[s], script_faults')
    BY <1>1, <1>2, ScriptIs
    DEF ScriptSoundNow, ScriptSound, Matches, S!FAILED, S!SUCCEEDED, S!TIMEOUT, S!PROCESS_FAILED
  <1>. HIDE DEF x
  <1>. QED  BY <1>1, <1>2, <1>3, ScriptIs, OneScriptMoves

\* The process goes on: it runs only while its script does.
LEMMA ProcessSound ==
    ASSUME ScriptsInv, NEW s \in Script, S!Exits(s) \/ S!ChildrenEnd(s) \/ S!Reap(s)
    PROVE  ScriptsInv'
  <1>1. PICK p \in Processes \ {"none"}, open \in BOOLEAN :
          /\ Becomes(s, script[s], p, open, timer[s], script_received[s])
          /\ script_faults' = script_faults
          /\ process[s] \in {"running", "done", "failed", "killed"} \/ pipes[s]
    <2>1. CASE S!Exits(s)
      BY <2>1, ScriptIs DEF S!Exits, Becomes, Processes
    <2>2. CASE S!ChildrenEnd(s)
      BY <2>2, ScriptIs DEF S!ChildrenEnd, Becomes, Processes
    <2>3. CASE S!Reap(s)
      BY <2>3, ScriptIs DEF S!Reap, S!Reaped, Becomes, Processes
    <2>. QED  BY <2>1, <2>2, <2>3
  <1>2. script[s].at = "running"
    BY <1>1, ScriptIs DEF ScriptSoundNow, ScriptSound, ScriptPlaces
  <1>3. ScriptSound(s, script[s].at, script[s].cancelled, script[s].status, p, open, timer[s],
                    script_received[s], script_faults')
    BY <1>1, <1>2, ScriptIs
    DEF ScriptSoundNow, ScriptSound, S!FAILED, S!SUCCEEDED, S!TIMEOUT, S!PROCESS_FAILED
  <1>4. script[s] \in ScriptRecord /\ timer[s] \in BOOLEAN /\ script_received[s] \in ScriptAnswers
    BY ScriptIs
  <1>. QED  BY <1>1, <1>3, <1>4, OneScriptMoves

LEMMA CancelSound ==
    ASSUME ScriptsInv, NEW s \in Script, S!_cancel(s) PROVE ScriptsInv'
  <1>. DEFINE x == [script[s] EXCEPT !.cancelled = ~S!IsReaped(s)]
              p == IF process[s] = "running" THEN "killed" ELSE process[s]
  <1>1. x \in ScriptRecord /\ x.at = script[s].at
    BY ScriptIs DEF ScriptRecord
  <1>2. PICK open \in BOOLEAN, timed \in BOOLEAN : ~open /\ ~timed
    OBVIOUS
  <1>3. /\ Becomes(s, x, p, open, timed, script_received[s])
        /\ script[s].at = "running" /\ timer[s] /\ script_faults' = script_faults
    BY <1>2, ScriptIs DEF S!_cancel, S!CloseAll, Becomes
  <1>4. p \in Processes
    BY ScriptIs DEF Processes
  <1>5. ScriptSound(s, x.at, x.cancelled, x.status, p, open, timed, script_received[s],
                    script_faults')
    BY <1>1, <1>2, <1>3, ScriptIs
    DEF ScriptSoundNow, ScriptSound, S!FAILED, S!SUCCEEDED, S!TIMEOUT, S!PROCESS_FAILED
  <1>. HIDE DEF x, p
  <1>. QED  BY <1>1, <1>3, <1>4, <1>5, ScriptIs, OneScriptMoves

LEMMA ProcessEndedSound ==
    ASSUME ScriptsInv, NEW s \in Script, S!ProcessEnded(s) PROVE ScriptsInv'
  <1>. DEFINE x == Moved(s, "answering", S!Outcome(s))
  <1>0. S!Outcome(s) \in ScriptStatus
    BY DEF S!Outcome, ScriptStatus
  <1>1. x \in ScriptRecord /\ x.at = "answering" /\ x.cancelled = script[s].cancelled
        /\ x.status = S!Outcome(s)
    BY <1>0, MovedIs DEF ScriptPlaces
  <1>2. PICK timed \in BOOLEAN : ~timed
    OBVIOUS
  <1>3. /\ Becomes(s, x, process[s], pipes[s], timed, script_received[s])
        /\ script[s].at = "running" /\ script_faults' = script_faults
        /\ process[s] \in {"reaped_done", "reaped_failed"} /\ ~pipes[s]
    BY <1>2, ScriptIs DEF S!ProcessEnded, S!IsReaped, S!End, S!Move, Becomes, Moved
  <1>4. Matches(s, S!Outcome(s), process[s])
    BY <1>3, ScriptIs DEF ScriptSoundNow, ScriptSound, Matches, S!Outcome, S!FAILED, S!SUCCEEDED,
                          S!TIMEOUT, S!PROCESS_FAILED
  <1>5. ScriptSound(s, x.at, x.cancelled, x.status, process[s], pipes[s], timed,
                    script_received[s], script_faults')
    BY <1>1, <1>2, <1>3, <1>4, ScriptIs
    DEF ScriptSoundNow, ScriptSound, S!FAILED, S!SUCCEEDED, S!TIMEOUT, S!PROCESS_FAILED
  <1>. HIDE DEF x
  <1>. QED  BY <1>1, <1>3, <1>5, ScriptIs, OneScriptMoves

\* What the broker has when it gets the answer of a script
LEMMA ScriptReceives ==
    ASSUME ScriptsInv, NEW s \in Script, script[s].at = "answering"
    PROVE  LET r == Append(script_received[s], script[s].status)
           IN  /\ r \in ScriptAnswers
               /\ \/ script_received[s] = <<>> /\ r = <<script[s].status>>
                  \/ /\ script_received[s] = <<S!SUCCEEDED>> /\ script[s].status = S!FAILED
                     /\ r = <<S!SUCCEEDED, S!FAILED>> /\ script_faults > 0
                     /\ process[s] = "reaped_done"
  <1>1. CASE script_received[s] = <<>>
    BY <1>1, ScriptIs DEF ScriptAnswers, ScriptStatus
  <1>2. CASE script_received[s] # <<>>
    <2>1. /\ script_received[s] = <<S!SUCCEEDED>> /\ script[s].status = S!FAILED
          /\ script_faults > 0 /\ process[s] = "reaped_done"
      BY <1>2, ScriptIs DEF ScriptSoundNow, ScriptSound
    <2>2. Append(script_received[s], script[s].status) = <<S!SUCCEEDED, S!FAILED>>
      BY <2>1, Pair
    <2>. QED  BY <2>1, <2>2 DEF ScriptAnswers
  <1>. QED  BY <1>1, <1>2

LEMMA ScriptAnsweredSound ==
    ASSUME ScriptsInv, NEW s \in Script, S!Answered(s) PROVE ScriptsInv'
  <1>. DEFINE x == Moved(s, "over", script[s].status)
              r == Append(script_received[s], script[s].status)
  <1>1. x \in ScriptRecord /\ x.at = "over" /\ x.cancelled = script[s].cancelled
        /\ x.status = script[s].status
    BY MovedIs, ScriptIs DEF ScriptPlaces
  <1>2. /\ Becomes(s, x, process[s], pipes[s], timer[s], r)
        /\ script[s].at = "answering" /\ script_faults' = script_faults
    BY ScriptIs DEF S!Answered, S!Receive, S!Move, Becomes, Moved
  <1>3. r \in ScriptAnswers
    BY <1>2, ScriptReceives
  <1>4. ScriptSound(s, x.at, x.cancelled, x.status, process[s], pipes[s], timer[s], r,
                    script_faults')
    <2>1. CASE r = <<script[s].status>>
      BY <1>1, <1>2, <2>1, ScriptIs DEF ScriptSoundNow, ScriptSound, Matches
    <2>2. CASE r = <<S!SUCCEEDED, S!FAILED>> /\ script_faults > 0 /\ process[s] = "reaped_done"
      BY <1>1, <1>2, <2>2, ScriptIs DEF ScriptSoundNow, ScriptSound
    <2>. QED  BY <1>2, <2>1, <2>2, ScriptReceives
  <1>. HIDE DEF x, r
  <1>. QED  BY <1>1, <1>2, <1>3, <1>4, ScriptIs, OneScriptMoves

LEMMA ScriptAnswerFailsSound ==
    ASSUME ScriptsInv, NEW s \in Script, S!AnswerFails(s) PROVE ScriptsInv'
  <1>1. script[s].at = "answering" /\ script_faults' = script_faults + 1 /\ script_faults' > 0
    BY ScriptIs DEF S!AnswerFails
  <1>2. PICK r \in ScriptAnswers :
          /\ script_received' = [script_received EXCEPT ![s] = r]
          /\ \/ r = script_received[s]
             \/ r = <<script[s].status>>
             \/ r = <<S!SUCCEEDED, S!FAILED>> /\ script[s].status = S!FAILED
                /\ process[s] = "reaped_done"
    BY <1>1, ScriptIs, ScriptReceives DEF S!AnswerFails, S!Receive
  <1>3. CASE script[s].status = S!SUCCEEDED
    <2>. DEFINE x == Moved(s, "answering", S!FAILED)
    <2>1. x \in ScriptRecord /\ x.at = "answering" /\ x.cancelled = script[s].cancelled
          /\ x.status = S!FAILED
      BY MovedIs, ScriptIs DEF ScriptPlaces, ScriptStatus
    <2>2. Becomes(s, x, process[s], pipes[s], timer[s], r)
      BY <1>2, <1>3, ScriptIs DEF S!AnswerFails, S!Move, Becomes, Moved
    <2>3. script_received[s] = <<>>
      BY <1>1, <1>3, ScriptIs DEF ScriptSoundNow, ScriptSound, S!SUCCEEDED, S!FAILED
    <2>4. r = <<>> \/ r = <<S!SUCCEEDED>>
      BY <1>2, <1>3, <2>3 DEF S!SUCCEEDED, S!FAILED
    <2>5. process[s] = "reaped_done" /\ ~pipes[s] /\ ~timer[s]
      BY <1>1, <1>3, ScriptIs DEF ScriptSoundNow, ScriptSound, Matches
    <2>6. ScriptSound(s, x.at, x.cancelled, x.status, process[s], pipes[s], timer[s], r,
                      script_faults')
      <3>1. /\ r # <<S!SUCCEEDED, S!FAILED>> /\ r # <<S!TIMEOUT>> /\ r # <<S!PROCESS_FAILED>>
            /\ r # <<>> => r = <<S!SUCCEEDED>>
        BY <2>4 DEF S!FAILED, S!SUCCEEDED, S!TIMEOUT, S!PROCESS_FAILED
      <3>2. Matches(s, S!FAILED, process[s])
        BY DEF Matches, S!FAILED, S!SUCCEEDED, S!TIMEOUT, S!PROCESS_FAILED
      <3>. QED  BY <1>1, <2>1, <2>5, <3>1, <3>2 DEF ScriptSound
    <2>. HIDE DEF x
    <2>. QED  BY <1>1, <1>2, <2>1, <2>2, <2>6, ScriptIs, OneScriptMoves
  <1>4. CASE script[s].status # S!SUCCEEDED
    <2>. DEFINE x == Moved(s, "over", script[s].status)
    <2>1. x \in ScriptRecord /\ x.at = "over" /\ x.cancelled = script[s].cancelled
          /\ x.status = script[s].status
      BY MovedIs, ScriptIs DEF ScriptPlaces
    <2>2. Becomes(s, x, process[s], pipes[s], timer[s], r)
      BY <1>2, <1>4, ScriptIs DEF S!AnswerFails, S!Move, Becomes, Moved
    <2>3. ScriptSound(s, x.at, x.cancelled, x.status, process[s], pipes[s], timer[s], r,
                      script_faults')
      <3>1. CASE r = script_received[s]
        BY <1>1, <2>1, <3>1, ScriptIs DEF ScriptSoundNow, ScriptSound
      <3>2. CASE r = <<script[s].status>>
        BY <1>1, <2>1, <3>2, ScriptIs DEF ScriptSoundNow, ScriptSound, Matches
      <3>3. CASE r = <<S!SUCCEEDED, S!FAILED>> /\ process[s] = "reaped_done"
        BY <1>1, <2>1, <3>3, ScriptIs DEF ScriptSoundNow, ScriptSound
      <3>. QED  BY <1>2, <3>1, <3>2, <3>3
    <2>. HIDE DEF x
    <2>. QED  BY <1>1, <1>2, <2>1, <2>2, <2>3, ScriptIs, OneScriptMoves
  <1>. QED  BY <1>3, <1>4

LEMMA ScriptsInvInit == S!Init => ScriptsInv
  <1>. SUFFICES ASSUME S!Init PROVE ScriptsInv
    OBVIOUS
  <1>1. S!New \in ScriptRecord
    BY DEF S!New, ScriptRecord, ScriptPlaces, ScriptStatus, Umasks
  <1>2. ScriptTypes
    BY <1>1 DEF S!Init, ScriptTypes, Processes, ScriptAnswers
  <1>3. ASSUME NEW s \in Script PROVE ScriptSoundNow(s)
    BY DEF S!Init, S!New, ScriptSoundNow, ScriptSound
  <1>. QED  BY <1>2, <1>3 DEF ScriptsInv

-----------------------------------------------------------------------------
(* The umask                                                               *)

\* As long as no two scripts had it at the same time, it is the manager's own,
\* or that of the one script that is busy.
UmaskInv ==
    /\ umask \in Umasks /\ overlapped \in BOOLEAN
    /\ spawned = [s \in Script |-> spawned[s]]
    /\ \A s \in Script :
         /\ spawned[s] \in {"never", S!Open} \/ s \in swept
         /\ script[s].at = "fetching" => umask = S!Open \/ s \in swept
    /\ ~overlapped =>
         \/ S!Busy = {} /\ umask = S!Daemon
         \/ \E s \in Script :
              S!Busy = {s} /\ umask = S!Open /\ script[s].old_umask = S!Daemon

\* Nothing of it changes.
LEMMA UmaskSame ==
    ASSUME UmaskInv, UNCHANGED <<umask, spawned, overlapped, swept>>,
           \A s \in Script :
             \/ script'[s].at = script[s].at /\ script'[s].old_umask = script[s].old_umask
             \/ /\ script[s].at \notin {"fetching", "running"}
                /\ script'[s].at \notin {"fetching", "running"}
    PROVE  UmaskInv'
  <1>1. S!Busy' = S!Busy
    BY DEF S!Busy
  <1>2. \A s \in S!Busy : script'[s].old_umask = script[s].old_umask
    BY DEF S!Busy
  <1>3. \A s \in Script : script'[s].at = "fetching" => script[s].at = "fetching"
    OBVIOUS
  <1>. QED  BY <1>1, <1>2, <1>3 DEF UmaskInv

\* A move changes the place of one script.
LEMMA MoveIs ==
    ASSUME ScriptsInv, NEW s \in Script, NEW where, NEW status, S!Move(s, where, status)
    PROVE  /\ script'[s].at = where /\ script'[s].old_umask = script[s].old_umask
           /\ \A q \in Script \ {s} : script'[q] = script[q]
  BY DEF S!Move, ScriptsInv, ScriptTypes

LEMMA UmaskRunScript ==
    ASSUME ScriptsInv, UmaskInv, NEW s \in Script, S!RunScript(s) PROVE UmaskInv'
  <1>1. /\ script[s].at = "waiting" /\ umask' = S!Open /\ swept' = swept
        /\ overlapped' = (overlapped \/ S!Busy # {})
        /\ spawned' = spawned \/ spawned' = [spawned EXCEPT ![s] = S!Open]
    BY DEF S!RunScript
  <1>2. /\ script'[s].at \in {"fetching", "running"} /\ script'[s].old_umask = umask
        /\ \A q \in Script \ {s} : script'[q] = script[q]
    BY DEF S!RunScript, S!New, ScriptsInv, ScriptTypes
  <1>3. S!Busy' = S!Busy \cup {s}
    BY <1>2 DEF S!Busy
  <1>4. ASSUME ~overlapped'
        PROVE  S!Busy' = {s} /\ umask' = S!Open /\ script'[s].old_umask = S!Daemon
    <2>1. ~overlapped /\ S!Busy = {}
      BY <1>1, <1>4
    <2>2. umask = S!Daemon
      BY <2>1 DEF UmaskInv
    <2>. QED  BY <1>1, <1>2, <1>3, <2>1, <2>2
  <1>5. \A q \in Script : spawned'[q] \in {"never", S!Open} \/ q \in swept'
    BY <1>1 DEF UmaskInv
  <1>6. overlapped' \in BOOLEAN /\ spawned' = [q \in Script |-> spawned'[q]] /\ umask' \in Umasks
    BY <1>1 DEF UmaskInv, Umasks
  <1>. QED  BY <1>1, <1>4, <1>5, <1>6 DEF UmaskInv

LEMMA UmaskFetched ==
    ASSUME ScriptsInv, UmaskInv, NEW s \in Script, S!Fetched(s) PROVE UmaskInv'
  <1>1. /\ script[s].at = "fetching" /\ umask' = umask /\ swept' = swept
        /\ overlapped' = overlapped /\ spawned' = [spawned EXCEPT ![s] = umask]
    BY DEF S!Fetched
  <1>2. /\ script'[s].at = "running" /\ script'[s].old_umask = script[s].old_umask
        /\ \A q \in Script \ {s} : script'[q] = script[q]
    BY MoveIs DEF S!Fetched
  <1>3. S!Busy' = S!Busy
    BY <1>1, <1>2 DEF S!Busy
  <1>4. \A q \in Script : script'[q].old_umask = script[q].old_umask
    BY <1>2
  <1>5. \A q \in Script :
          /\ spawned'[q] \in {"never", S!Open} \/ q \in swept'
          /\ script'[q].at = "fetching" => umask' = S!Open \/ q \in swept'
    BY <1>1, <1>2 DEF UmaskInv
  <1>6. spawned' = [q \in Script |-> spawned'[q]]
    BY <1>1 DEF UmaskInv
  <1>. QED  BY <1>1, <1>3, <1>4, <1>5, <1>6 DEF UmaskInv

\* A script ends while it has the umask, and puts back what it had found.
LEMMA UmaskEnd ==
    ASSUME ScriptsInv, UmaskInv, NEW s \in Script, NEW status, S!End(s, status),
           s \in S!Busy, UNCHANGED <<spawned, overlapped>>
    PROVE  UmaskInv'
  <1>1. /\ umask' = script[s].old_umask
        /\ swept' = swept \cup {t \in S!Busy \ {s} : script[t].at = "fetching"}
    BY DEF S!End, S!_cleanup
  <1>2. /\ script'[s].at = "answering" /\ \A q \in Script \ {s} : script'[q] = script[q]
    BY MoveIs DEF S!End
  <1>3. S!Busy' = S!Busy \ {s}
    BY <1>2 DEF S!Busy
  <1>4. ASSUME NEW q \in Script
        PROVE  /\ spawned'[q] \in {"never", S!Open} \/ q \in swept'
               /\ script'[q].at = "fetching" => q \in swept'
    BY <1>1, <1>2 DEF UmaskInv, S!Busy
  <1>5. ASSUME ~overlapped' PROVE S!Busy' = {} /\ umask' = S!Daemon
    <2>1. PICK q \in Script : S!Busy = {q} /\ script[q].old_umask = S!Daemon
      BY <1>5 DEF UmaskInv
    <2>. QED  BY <1>1, <1>3, <2>1
  <1>6. umask' \in Umasks
    BY <1>1, ScriptIs
  <1>. QED  BY <1>4, <1>5, <1>6 DEF UmaskInv

LEMMA UmaskNext ==
    ASSUME ScriptsInv, UmaskInv, S!Next PROVE UmaskInv'
  <1>1. PICK s \in Script :
          \/ S!Refuse(s) \/ S!RunScript(s) \/ S!Fetched(s) \/ S!FetchFails(s)
          \/ S!Exits(s) \/ S!ChildrenEnd(s) \/ S!Reap(s) \/ S!_cancel(s) \/ S!ProcessEnded(s)
          \/ S!Answered(s) \/ S!AnswerFails(s)
    BY DEF S!Next
  <1>2. CASE S!Refuse(s)
    BY <1>2, MoveIs, UmaskSame DEF S!Refuse
  <1>3. CASE S!FetchFails(s)
    BY <1>3, UmaskEnd DEF S!FetchFails, S!Busy
  <1>4. CASE S!Exits(s) \/ S!ChildrenEnd(s) \/ S!Reap(s)
    BY <1>4, UmaskSame DEF S!Exits, S!ChildrenEnd, S!Reap
  <1>5. CASE S!_cancel(s)
    <2>1. \A q \in Script : script'[q].at = script[q].at /\ script'[q].old_umask = script[q].old_umask
      BY <1>5, ScriptIs DEF S!_cancel, ScriptsInv, ScriptTypes, ScriptRecord
    <2>. QED  BY <1>5, <2>1, UmaskSame DEF S!_cancel
  <1>6. CASE S!ProcessEnded(s)
    BY <1>6, UmaskEnd DEF S!ProcessEnded, S!Busy
  <1>7. CASE S!Answered(s)
    BY <1>7, MoveIs, UmaskSame DEF S!Answered
  <1>8. CASE S!AnswerFails(s)
    <2>1. script[s].at = "answering" /\ UNCHANGED <<umask, spawned, overlapped, swept>>
      BY <1>8 DEF S!AnswerFails
    <2>2. PICK where \in {"answering", "over"} : \E status : S!Move(s, where, status)
      BY <1>8 DEF S!AnswerFails
    <2>. QED  BY <2>1, <2>2, MoveIs, UmaskSame
  <1>. QED  BY <1>1, <1>2, <1>3, <1>4, <1>5, <1>6, <1>7, <1>8, UmaskRunScript, UmaskFetched

LEMMA ScriptsNext ==
    ScriptsInv /\ UmaskInv /\ [S!Next]_script_vars => ScriptsInv' /\ UmaskInv'
  <1>1. ASSUME ScriptsInv, UmaskInv, UNCHANGED script_vars PROVE ScriptsInv' /\ UmaskInv'
    BY <1>1 DEF script_vars, ScriptsInv, ScriptTypes, ScriptSoundNow, UmaskInv, S!Busy
  <1>2. ASSUME ScriptsInv, UmaskInv, S!Next PROVE ScriptsInv'
    <2>1. umask \in Umasks
      BY <1>2 DEF UmaskInv
    <2>. QED  BY <1>2, <2>1, RefuseSound, RunScriptSound, FetchedSound, FetchFailsSound,
                 ProcessSound, CancelSound, ProcessEndedSound, ScriptAnsweredSound,
                 ScriptAnswerFailsSound DEF S!Next
  <1>. QED  BY <1>1, <1>2, UmaskNext

(***************************************************************************)
(* Scripts run with their umask and the manager gets its own one back, and *)
(* what the server hears is how a script ended: for any number of scripts, *)
(* with and without attachments and time limits, and any number of calls   *)
(* that fail.                                                              *)
(***************************************************************************)
THEOREM ScriptsRightAlways == PartsSpec => []ScriptsRight
  <1>1. PartsInit => ScriptsInv /\ UmaskInv
    <2>1. S!Init => UmaskInv
      <3>1. S!Init => S!Busy = {}
        BY DEF S!Init, S!New, S!Busy
      <3>2. S!Init => \A s \in Script : script[s].at # "fetching" /\ spawned[s] = "never"
        BY DEF S!Init, S!New
      <3>3. S!Init => spawned = [s \in Script |-> spawned[s]]
        BY DEF S!Init
      <3>. QED  BY <3>1, <3>2, <3>3 DEF S!Init, UmaskInv, Umasks
    <2>. QED  BY <2>1, ScriptsInvInit DEF PartsInit
  <1>2. ScriptsInv /\ UmaskInv /\ [PartsNext]_all_vars => ScriptsInv' /\ UmaskInv'
    BY ScriptsNext DEF PartsNext, all_vars, script_vars
  <1>3. UmaskInv => S!UmaskKept
    BY DEF UmaskInv, S!UmaskKept, S!Daemon, S!Open
  <1>4. ScriptsInv => S!HowItEnded
    <2>. SUFFICES ASSUME ScriptsInv, NEW s \in Script
         PROVE  /\ \A i \in DOMAIN script_received[s] :
                     /\ script_received[s][i] = S!SUCCEEDED => process[s] = "reaped_done"
                     /\ script_received[s][i] = S!TIMEOUT => s \in Limited
                     /\ script_received[s][i] = S!PROCESS_FAILED => process[s] = "reaped_failed"
                /\ Len(script_received[s]) > 1 =>
                     script_received[s] = <<S!SUCCEEDED, S!FAILED>> /\ script_faults > 0
                /\ script[s].at = "over" => process[s] # "running" /\ ~pipes[s] /\ ~timer[s]
      BY DEF S!HowItEnded
    <2>. DEFINE r == script_received[s]
    <2>1. script[s].at = "over" => process[s] # "running" /\ ~pipes[s] /\ ~timer[s]
      BY ScriptIs DEF ScriptSoundNow, ScriptSound
    <2>2. CASE r = <<>>
      BY <2>1, <2>2
    <2>3. CASE r = <<S!SUCCEEDED, S!FAILED>>
      <3>1. process[s] = "reaped_done" /\ script_faults > 0
        BY <2>3, ScriptIs DEF ScriptSoundNow, ScriptSound
      <3>2. DOMAIN r = {1, 2} /\ r[1] = S!SUCCEEDED /\ r[2] = S!FAILED
        BY <2>3
      <3>. QED  BY <2>1, <2>3, <3>1, <3>2 DEF S!SUCCEEDED, S!FAILED, S!TIMEOUT, S!PROCESS_FAILED
    <2>4. ASSUME NEW x \in ScriptStatus, r = <<x>>
          PROVE  /\ \A i \in DOMAIN r :
                      /\ r[i] = S!SUCCEEDED => process[s] = "reaped_done"
                      /\ r[i] = S!TIMEOUT => s \in Limited
                      /\ r[i] = S!PROCESS_FAILED => process[s] = "reaped_failed"
                 /\ Len(r) = 1
      <3>1. DOMAIN r = {1} /\ r[1] = x /\ Len(r) = 1
        BY <2>4
      <3>2. Matches(s, x, process[s])
        BY <2>4, ScriptIs DEF ScriptSoundNow, ScriptSound, Matches
      <3>. QED  BY <3>1, <3>2 DEF Matches
    <2>5. r \in {<<>>, <<S!SUCCEEDED, S!FAILED>>} \/ \E x \in ScriptStatus : r = <<x>>
      BY ScriptIs DEF ScriptAnswers, ScriptStatus
    <2>. QED  BY <2>1, <2>2, <2>3, <2>4, <2>5
  <1>. QED  BY <1>1, <1>2, <1>3, <1>4, PTL DEF PartsSpec, ScriptsRight

-----------------------------------------------------------------------------
(* The recovery key                                                        *)

KeyTypes ==
    /\ request \in [Request -> {"waiting", "polling", "failing", "handing_over", "sending", "over"}]
    /\ change \in [Request -> {"none", "Doing", "Done", "Error"}]
    /\ queue \in Seq(BOOLEAN)
    /\ key_server = [successful |-> key_server.successful, key |-> key_server.key]
    /\ \A r \in Request : /\ request[r] = "waiting" => change[r] = "none"
                          /\ request[r] = "polling" => change[r] # "none"

\* A request whose key may still get into the slot, or to the broker
Active(r) == request[r] \in {"polling", "handing_over", "sending"} \/ change[r] = "Doing"

\* What the server is going to have heard last
HeardLast == IF queue = <<>> THEN key_server.successful ELSE queue[Len(queue)]

\* A key that the server may have: the one in the slot, one that snapd failed
\* to put there, or any one if nobody was told, or is yet to be told, of the
\* one in the slot.
Right(key) == key = slot \/ slot \in untold \/ slot \in K!UnderWay \/ key \in K!Failed

\* One request at a time has a key, and hands over the one that is in the
\* slot, unless snapd failed.
OneKey ==
    /\ \A r, q \in Request : Active(r) /\ Active(q) => r = q
    /\ \A r \in Request :
         /\ request[r] \in {"handing_over", "sending"} => change[r] \in {"Done", "Error"}
         /\ request[r] \in {"polling", "handing_over", "sending"} /\ change[r] = "Done" => slot = r
         /\ request[r] = "sending" => exchange_state = r

\* A slot that changes after the request is over was reported as a failure,
\* or not at all.
LateChange ==
    \A r \in Request : change[r] = "Doing" /\ request[r] = "over" => ~HeardLast \/ r \in untold

\* What the server has, or is going to get, is such a key.
RightKey ==
    HeardLast => IF queue = <<>> THEN Right(key_server.key)
                                 ELSE exchange_state = K!NoKey \/ Right(exchange_state)

KeyInv ==
    /\ KeyTypes
    /\ ~overtaken => OneKey /\ LateChange /\ RightKey

LEMMA AppendedLast ==
    ASSUME NEW q \in Seq(BOOLEAN), NEW x \in BOOLEAN
    PROVE  /\ Append(q, x) \in Seq(BOOLEAN) /\ Append(q, x) # <<>>
           /\ Append(q, x)[Len(Append(q, x))] = x
  OBVIOUS

LEMMA LastOfTail ==
    ASSUME NEW q \in Seq(BOOLEAN), q # <<>>
    PROVE  /\ Tail(q) # <<>> => Tail(q)[Len(Tail(q))] = q[Len(q)]
           /\ Tail(q) = <<>> => Head(q) = q[Len(q)]
  <1>1. ASSUME NEW t \in Seq(BOOLEAN) PROVE t = <<>> <=> Len(t) = 0
    OBVIOUS
  <1>2. Len(q) \in Nat \ {0} /\ Len(Tail(q)) = Len(q) - 1 /\ Tail(q) \in Seq(BOOLEAN)
    OBVIOUS
  <1>3. \A i \in 1 .. Len(q) - 1 : Tail(q)[i] = q[i + 1]
    OBVIOUS
  <1>4. Tail(q) # <<>> => Len(Tail(q)) # 0
    BY <1>1, <1>2
  <1>5. Tail(q) = <<>> => Len(Tail(q)) = 0
    BY <1>1, <1>2
  <1>6. CASE Len(q) = 1
    BY <1>2, <1>4, <1>6
  <1>7. CASE Len(q) > 1
    BY <1>2, <1>3, <1>5, <1>7
  <1>. QED  BY <1>2, <1>6, <1>7

\* A key that was handed over is in the slot, unless snapd failed.
LEMMA HandedOver ==
    ASSUME KeyInv, OneKey, NEW r \in Request, request[r] \in {"handing_over", "sending"}
    PROVE  r = slot \/ r \in K!Failed
  BY DEF OneKey, K!Failed

LEMMA KeyUpdate ==
    ASSUME KeyInv, NEW r \in Request, K!Update(r) PROVE KeyInv'
  <1>1. KeyTypes'
    BY DEF KeyInv, KeyTypes, K!Update
  <1>2. ASSUME ~overtaken' PROVE OneKey' /\ LateChange' /\ RightKey'
    <2>1. ~overtaken /\ K!UnderWay = {} /\ \A q \in Request : change[q] # "Doing"
      BY <1>2 DEF K!Update
    <2>2. /\ request[r] = "waiting" /\ request' = [request EXCEPT ![r] = "polling"]
          /\ change' = [change EXCEPT ![r] = "Doing"]
          /\ UNCHANGED <<slot, exchange_state, queue, key_server, untold>>
      BY DEF K!Update
    <2>3. \A q \in Request : ~Active(q)
      BY <2>1 DEF Active, K!UnderWay
    <2>4. \A q \in Request \ {r} : request'[q] = request[q] /\ change'[q] = change[q]
      BY <2>2 DEF KeyInv, KeyTypes
    <2>5. request'[r] = "polling" /\ change'[r] = "Doing"
      BY <2>2 DEF KeyInv, KeyTypes
    <2>6. OneKey'
      BY <2>3, <2>4, <2>5 DEF OneKey, Active
    <2>7. LateChange'
      BY <2>1, <2>4, <2>5 DEF LateChange
    <2>8. K!Failed \subseteq K!Failed'
      BY <2>2, <2>4 DEF K!Failed, KeyInv, KeyTypes
    <2>9. RightKey'
      BY <2>1, <2>2, <2>8 DEF KeyInv, RightKey, Right, HeardLast, K!NoKey
    <2>. QED  BY <2>6, <2>7, <2>9
  <1>. QED  BY <1>1, <1>2 DEF KeyInv

LEMMA KeyChangeEnds ==
    ASSUME KeyInv, NEW r \in Request, K!ChangeEnds(r) PROVE KeyInv'
  <1>1. KeyTypes'
    BY DEF KeyInv, KeyTypes, K!ChangeEnds
  <1>2. ASSUME ~overtaken' PROVE OneKey' /\ LateChange' /\ RightKey'
    <2>0. /\ UNCHANGED <<request, exchange_state, queue, key_server, overtaken, untold>>
          /\ change[r] = "Doing"
      BY DEF K!ChangeEnds
    <2>1. PICK how \in {"Done", "Error"} :
            change' = [change EXCEPT ![r] = how] /\ slot' = IF how = "Done" THEN r ELSE slot
      BY DEF K!ChangeEnds
    <2>2. change'[r] = how /\ \A q \in Request \ {r} : change'[q] = change[q]
      BY <2>1 DEF KeyInv, KeyTypes
    <2>4. OneKey /\ LateChange /\ RightKey
      BY <1>2, <2>0 DEF KeyInv
    <2>5. \A q \in Request \ {r} : ~Active(q)
      BY <2>0, <2>4 DEF OneKey, Active
    <2>6. \A q \in Request : ~(Active(q)' /\ q # r)
      BY <2>0, <2>2, <2>5 DEF Active
    <2>7. OneKey'
      BY <2>0, <2>1, <2>2, <2>4, <2>5, <2>6 DEF OneKey, Active
    <2>8. LateChange'
      BY <2>0, <2>2, <2>4 DEF LateChange, HeardLast
    <2>9. RightKey'
      <3>1. K!Failed \subseteq K!Failed' /\ K!UnderWay' = K!UnderWay
        BY <2>0, <2>2 DEF K!Failed, K!UnderWay
      <3>2. HeardLast => r \in untold \/ r \in K!UnderWay
        BY <2>0, <2>4 DEF LateChange, K!UnderWay, KeyInv, KeyTypes
      <3>3. HeardLast' <=> HeardLast
        BY <2>0 DEF HeardLast
      <3>4. CASE how = "Done"
        BY <2>0, <2>1, <3>1, <3>2, <3>3, <3>4 DEF RightKey, Right
      <3>5. CASE how = "Error"
        BY <2>0, <2>1, <2>4, <3>1, <3>3, <3>5 DEF RightKey, Right, K!NoKey
      <3>. QED  BY <3>4, <3>5
    <2>. QED  BY <2>7, <2>8, <2>9
  <1>. QED  BY <1>1, <1>2 DEF KeyInv

\* A request moves on while it is under way, and nothing else changes.
LEMMA KeyStaysUnderWay ==
    ASSUME KeyInv, NEW r \in Request, NEW where \in {"failing", "handing_over"},
           request' = [request EXCEPT ![r] = where],
           request[r] \in {"waiting", "polling", "handing_over", "sending"},
           where = "handing_over" => request[r] = "polling" /\ change[r] # "Doing",
           UNCHANGED <<change, slot, exchange_state, queue, key_server, overtaken, untold>>
    PROVE  KeyInv'
  <1>1. KeyTypes'
    BY DEF KeyInv, KeyTypes
  <1>2. ASSUME ~overtaken' PROVE OneKey' /\ LateChange' /\ RightKey'
    <2>1. request'[r] = where /\ \A q \in Request \ {r} : request'[q] = request[q]
      BY DEF KeyInv, KeyTypes
    <2>2. OneKey /\ LateChange /\ RightKey
      BY <1>2 DEF KeyInv
    <2>3. where = "handing_over" => change[r] \in {"Done", "Error"}
      BY DEF KeyInv, KeyTypes
    <2>4. \A q \in Request : Active(q)' => Active(q)
      BY <2>1 DEF Active
    <2>5. OneKey'
      BY <2>1, <2>2, <2>3, <2>4 DEF OneKey
    <2>6. LateChange'
      BY <2>1, <2>2 DEF LateChange, HeardLast
    <2>7. K!UnderWay \subseteq K!UnderWay' /\ K!Failed' = K!Failed
      BY <2>1 DEF K!UnderWay, K!Failed
    <2>8. RightKey'
      BY <2>2, <2>7 DEF RightKey, Right, HeardLast, K!NoKey
    <2>. QED  BY <2>5, <2>6, <2>8
  <1>. QED  BY <1>1, <1>2 DEF KeyInv

LEMMA KeyHandOver ==
    ASSUME KeyInv, NEW r \in Request, K!HandOver(r) PROVE KeyInv'
  <1>0. /\ request[r] = "handing_over" /\ exchange_state' = r
        /\ request' = [request EXCEPT ![r] = "sending"]
        /\ UNCHANGED <<change, slot, queue, key_server, overtaken, untold>>
    BY DEF K!HandOver, K!update_exchange_state
  <1>1. KeyTypes'
    BY <1>0 DEF KeyInv, KeyTypes
  <1>2. ASSUME ~overtaken' PROVE OneKey' /\ LateChange' /\ RightKey'
    <2>1. request'[r] = "sending" /\ \A q \in Request \ {r} : request'[q] = request[q]
      BY <1>0 DEF KeyInv, KeyTypes
    <2>2. OneKey /\ LateChange /\ RightKey
      BY <1>0, <1>2 DEF KeyInv
    <2>3. \A q \in Request : (Active(q)' <=> Active(q)) /\ (q # r => ~Active(q))
      BY <1>0, <2>1, <2>2 DEF Active, OneKey
    <2>4. OneKey'
      BY <1>0, <2>1, <2>2, <2>3 DEF OneKey, Active
    <2>5. LateChange'
      BY <1>0, <2>1, <2>2 DEF LateChange, HeardLast
    <2>6. K!UnderWay' = K!UnderWay /\ K!Failed' = K!Failed
      BY <1>0, <2>1 DEF K!UnderWay, K!Failed
    <2>7. r = slot \/ r \in K!Failed
      BY <1>0, <2>2, HandedOver
    <2>8. RightKey'
      BY <1>0, <2>2, <2>6, <2>7 DEF RightKey, Right, HeardLast
    <2>. QED  BY <2>4, <2>5, <2>8
  <1>. QED  BY <1>1, <1>2 DEF KeyInv

\* A message is let in, and the request is over, or the call fails all the same.
LEMMA KeySends ==
    ASSUME KeyInv, NEW r \in Request, NEW x \in BOOLEAN, NEW where \in {"over", "failing"},
           request[r] = IF x THEN "sending" ELSE "failing",
           queue' = Append(queue, x), request' = [request EXCEPT ![r] = where],
           UNCHANGED <<change, slot, exchange_state, key_server, overtaken, untold>>
    PROVE  KeyInv'
  <1>1. queue' \in Seq(BOOLEAN) /\ queue' # <<>> /\ queue'[Len(queue')] = x
    BY AppendedLast DEF KeyInv, KeyTypes
  <1>2. KeyTypes'
    BY <1>1 DEF KeyInv, KeyTypes
  <1>3. ASSUME ~overtaken' PROVE OneKey' /\ LateChange' /\ RightKey'
    <2>1. request'[r] = where /\ \A q \in Request \ {r} : request'[q] = request[q]
      BY DEF KeyInv, KeyTypes
    <2>2. OneKey /\ LateChange
      BY <1>3 DEF KeyInv
    <2>3. \A q \in Request : Active(q)' => Active(q)
      BY <2>1 DEF Active
    <2>4. OneKey'
      BY <2>1, <2>2, <2>3 DEF OneKey
    <2>5. x => /\ r = slot \/ r \in K!Failed
               /\ exchange_state = r
               /\ \A q \in Request : change[q] # "Doing"
      BY <2>2, HandedOver DEF OneKey, Active
    <2>6. LateChange'
      BY <1>1, <2>5 DEF LateChange, HeardLast
    <2>7. K!Failed' = K!Failed
      BY DEF K!Failed
    <2>8. RightKey'
      BY <1>1, <2>5, <2>7 DEF RightKey, Right, HeardLast
    <2>. QED  BY <2>4, <2>6, <2>8
  <1>. QED  BY <1>2, <1>3 DEF KeyInv

\* Requests end, and nobody is told.
LEMMA KeyUntold ==
    ASSUME KeyInv, NEW ended \in SUBSET K!UnderWay,
           request' = [q \in Request |-> IF q \in ended THEN "over" ELSE request[q]],
           untold' = untold \cup ended,
           UNCHANGED <<change, slot, exchange_state, queue, key_server, overtaken>>
    PROVE  KeyInv'
  <1>1. KeyTypes'
    BY DEF KeyInv, KeyTypes
  <1>2. ASSUME ~overtaken' PROVE OneKey' /\ LateChange' /\ RightKey'
    <2>1. OneKey /\ LateChange /\ RightKey
      BY <1>2 DEF KeyInv
    <2>2. \A q \in Request : Active(q)' => Active(q)
      BY DEF Active
    <2>3. OneKey'
      BY <2>1, <2>2 DEF OneKey
    <2>4. LateChange'
      BY <2>1 DEF LateChange, HeardLast
    <2>5. K!UnderWay \subseteq K!UnderWay' \cup untold' /\ K!Failed' = K!Failed
      BY DEF K!UnderWay, K!Failed
    <2>6. RightKey'
      BY <2>1, <2>5 DEF RightKey, Right, HeardLast, K!NoKey
    <2>. QED  BY <2>3, <2>4, <2>6
  <1>. QED  BY <1>1, <1>2 DEF KeyInv

LEMMA KeyExchange ==
    ASSUME KeyInv, K!Exchange PROVE KeyInv'
  <1>0. /\ queue # <<>> /\ queue' = Tail(queue) /\ queue \in Seq(BOOLEAN)
        /\ UNCHANGED <<request, change, slot, exchange_state, overtaken, untold>>
    BY DEF K!Exchange, KeyInv, KeyTypes
  <1>1. queue' \in Seq(BOOLEAN) /\ Len(queue') = Len(queue) - 1 /\ Len(queue) \in Nat \ {0}
    BY <1>0
  <1>2. /\ key_server' = [successful |-> key_server'.successful, key |-> key_server'.key]
        /\ key_server'.successful => /\ Head(queue) /\ exchange_state # K!NoKey
                                      /\ key_server'.key = exchange_state
    <2>1. CASE Head(queue) /\ exchange_state # K!NoKey
      BY <2>1 DEF K!Exchange
    <2>2. CASE ~(Head(queue) /\ exchange_state # K!NoKey)
      <3>1. key_server' = [key_server EXCEPT !.successful = FALSE]
        BY <2>2 DEF K!Exchange
      <3>. QED  BY <3>1 DEF KeyInv, KeyTypes
    <2>. QED  BY <2>1, <2>2
  <1>3. KeyTypes'
    BY <1>0, <1>1, <1>2 DEF KeyInv, KeyTypes
  <1>4. /\ queue' # <<>> => queue'[Len(queue')] = queue[Len(queue)]
        /\ queue' = <<>> => Head(queue) = queue[Len(queue)]
    BY <1>0, LastOfTail
  <1>5. HeardLast' => HeardLast
    BY <1>0, <1>2, <1>4 DEF HeardLast
  <1>6. ASSUME ~overtaken' PROVE OneKey' /\ LateChange' /\ RightKey'
    <2>1. OneKey /\ LateChange /\ RightKey
      BY <1>0, <1>6 DEF KeyInv
    <2>2. OneKey' /\ LateChange'
      BY <1>0, <1>5, <2>1 DEF OneKey, Active, LateChange
    <2>3. K!UnderWay' = K!UnderWay /\ K!Failed' = K!Failed
      BY <1>0 DEF K!UnderWay, K!Failed
    <2>4. \A key : Right(key)' <=> Right(key)
      BY <1>0, <2>3 DEF Right
    <2>5. HeardLast' => exchange_state = K!NoKey \/ Right(exchange_state)
      BY <1>0, <1>5, <2>1 DEF RightKey
    <2>6. HeardLast' /\ queue' = <<>> => Right(key_server'.key)
      BY <1>2, <2>5 DEF HeardLast
    <2>7. RightKey'
      BY <1>0, <2>4, <2>5, <2>6 DEF RightKey, K!NoKey
    <2>. QED  BY <2>2, <2>7
  <1>. QED  BY <1>3, <1>6 DEF KeyInv

LEMMA KeyBrokerCrash ==
    ASSUME KeyInv, K!BrokerCrash PROVE KeyInv'
  <1>0. /\ exchange_state' = K!NoKey
        /\ UNCHANGED <<change, slot, queue, key_server, overtaken, untold>>
        /\ \A r \in Request : request'[r] = IF request[r] \in {"handing_over", "sending"}
                                              THEN "failing" ELSE request[r]
    BY DEF K!BrokerCrash
  <1>1. KeyTypes'
    BY <1>0 DEF KeyInv, KeyTypes, K!BrokerCrash
  <1>2. ASSUME ~overtaken' PROVE OneKey' /\ LateChange' /\ RightKey'
    <2>1. OneKey /\ LateChange /\ RightKey
      BY <1>0, <1>2 DEF KeyInv
    <2>2. \A q \in Request : Active(q)' => Active(q)
      BY <1>0 DEF Active
    <2>3. OneKey'
      BY <1>0, <2>1, <2>2 DEF OneKey
    <2>4. LateChange'
      BY <1>0, <2>1 DEF LateChange, HeardLast
    <2>5. K!UnderWay' = K!UnderWay /\ K!Failed' = K!Failed
      BY <1>0 DEF K!UnderWay, K!Failed
    <2>6. RightKey'
      BY <1>0, <2>1, <2>5 DEF RightKey, Right, HeardLast, K!NoKey
    <2>. QED  BY <2>3, <2>4, <2>6
  <1>. QED  BY <1>1, <1>2 DEF KeyInv

LEMMA KeyNext == KeyInv /\ [K!Next]_key_vars => KeyInv'
  <1>. SUFFICES ASSUME KeyInv, [K!Next]_key_vars PROVE KeyInv'
    OBVIOUS
  <1>1. ASSUME NEW r \in Request, K!UpdateRefused(r) PROVE KeyInv'
    BY <1>1, KeyStaysUnderWay DEF K!UpdateRefused
  <1>2. ASSUME NEW r \in Request, K!Poll(r) PROVE KeyInv'
    BY <1>2, KeyStaysUnderWay DEF K!Poll
  <1>3. ASSUME NEW r \in Request, K!PollFails(r) PROVE KeyInv'
    BY <1>3, KeyStaysUnderWay DEF K!PollFails
  <1>4. ASSUME NEW r \in Request, K!SendSuccessful(r) PROVE KeyInv'
    BY <1>4, KeySends DEF K!SendSuccessful
  <1>5. ASSUME NEW r \in Request, K!SendUnsuccessful(r) PROVE KeyInv'
    BY <1>5, KeySends DEF K!SendUnsuccessful
  <1>6. ASSUME NEW r \in Request, K!SendFails(r) PROVE KeyInv'
    <2>1. CASE request[r] \in {"handing_over", "sending"} /\ UNCHANGED queue
      BY <1>6, <2>1, KeyStaysUnderWay DEF K!SendFails
    <2>2. CASE request[r] = "sending" /\ queue' = Append(queue, TRUE)
      BY <1>6, <2>2, KeySends DEF K!SendFails
    <2>. QED  BY <1>6, <2>1, <2>2 DEF K!SendFails
  <1>7. ASSUME NEW r \in Request, K!SendDropped(r) PROVE KeyInv'
    <2>1. {r} \in SUBSET K!UnderWay
      BY <1>7 DEF K!SendDropped, K!UnderWay
    <2>2. request' = [q \in Request |-> IF q \in {r} THEN "over" ELSE request[q]]
      BY <1>7 DEF K!SendDropped, KeyInv, KeyTypes
    <2>. QED  BY <1>7, <2>1, <2>2, KeyUntold DEF K!SendDropped
  <1>8. CASE K!ManagerCrash
    BY <1>8, KeyUntold DEF K!ManagerCrash
  <1>9. CASE UNCHANGED key_vars
    BY <1>9 DEF key_vars, KeyInv, KeyTypes, OneKey, Active, LateChange, RightKey, Right,
                HeardLast, K!UnderWay, K!Failed, K!NoKey
  <1>. QED  BY <1>1, <1>2, <1>3, <1>4, <1>5, <1>6, <1>7, <1>8, <1>9, KeyUpdate, KeyChangeEnds,
               KeyHandOver, KeyExchange, KeyBrokerCrash DEF K!Next

(***************************************************************************)
(* The key that the server was told of last opens the disk, for any number *)
(* of requests, of crashes of the broker and of the manager and of         *)
(* messages that the broker does not let in: unless snapd failed at the    *)
(* change for that key, nobody was told of the one that is in the slot, or *)
(* two requests overtook each other.                                       *)
(***************************************************************************)
THEOREM KeyOpensAlways == PartsSpec => []KeyOpens
  <1>1. PartsInit => KeyInv
    <2>1. K!Init => KeyInv
      BY DEF K!Init, KeyInv, KeyTypes, OneKey, Active, LateChange, RightKey, HeardLast
    <2>. QED  BY <2>1 DEF PartsInit
  <1>2. KeyInv /\ [PartsNext]_all_vars => KeyInv'
    BY KeyNext DEF PartsNext, all_vars, key_vars
  <1>3. KeyInv => KeyOpens
    BY DEF KeyInv, RightKey, Right, HeardLast, KeyOpens, K!KeyOpens, K!Quiet
  <1>. QED  BY <1>1, <1>2, <1>3, PTL DEF PartsSpec

-----------------------------------------------------------------------------
(* The lists of repositories                                               *)

ListTypes ==
    /\ list \in {L!Gone, L!Original, L!Managed} /\ list_save \in {L!Gone, L!Original}
    /\ files \in [L!Names -> Nat] /\ saves \in [L!Names -> Nat]
    /\ newest \in [Mine -> Nat \ {0}]
    /\ job.at \in {"idle", "stat", "write", "aside", "back"}
    /\ job = [does |-> job.does, at |-> job.at, todo |-> job.todo]
    /\ bounds \in [messages : Nat, breaks : Nat, edits : Nat]

\* sources.list: what is not beside it is in its place.
ListInv ==
    /\ list_save = L!Gone => list = L!Original
    /\ job.at = "write" => list_save = L!Original
    /\ job.at = "back" => list = L!Original /\ list_save = L!Gone

\* sources.list.d: a file of the administrator is at one of its two places,
\* and what is to be moved is there.
FilesInv ==
    /\ \A f \in Mine :
         /\ files[f] # L!Gone \/ saves[f] # L!Gone
         /\ f \notin clashed => \/ files[f] = newest[f] /\ saves[f] = L!Gone
                                \/ files[f] = L!Gone /\ saves[f] = newest[f]
    /\ ~manage_sources_list_d => L!There(saves) = {}
    /\ job.at = "aside" => /\ job.todo \subseteq L!There(files)
                           /\ ~manage_sources_list_d => job.todo = {}
    /\ job.at = "back" => job.todo = L!There(saves)

ListsInv == ListTypes /\ ListInv /\ FilesInv

LEMMA ListsSources ==
    ASSUME ListsInv, L!Replace \/ L!MoveAway \/ L!WriteList \/ L!Restore PROVE ListsInv'
  <1>1. CASE L!Replace
    <2>1. job' = [does |-> "replace", at |-> "stat", todo |-> {}]
      BY <1>1 DEF L!Replace, L!Idle
    <2>2. bounds' \in [messages : Nat, breaks : Nat, edits : Nat]
      BY <1>1 DEF L!Replace, ListsInv, ListTypes
    <2>. QED  BY <1>1, <2>1, <2>2 DEF L!Replace, ListsInv, ListTypes, ListInv, FilesInv, L!There
  <1>2. CASE L!MoveAway
    BY <1>2 DEF L!MoveAway, L!SaveOnce, L!Idle, ListsInv, ListTypes, ListInv, FilesInv, L!There,
                L!Names, L!Gone, L!Original, L!Managed
  <1>3. CASE L!WriteList
    BY <1>3 DEF L!WriteList, L!ToMove, ListsInv, ListTypes, ListInv, FilesInv, L!There, L!Names,
                L!Gone, L!Original, L!Managed
  <1>4. CASE L!Restore
    BY <1>4 DEF L!Restore, L!ToMove, L!Idle, ListsInv, ListTypes, ListInv, FilesInv, L!There,
                L!Names, L!Gone, L!Original, L!Managed
  <1>. QED  BY <1>1, <1>2, <1>3, <1>4

LEMMA ListsMoveAside ==
    ASSUME ListsInv, NEW f \in L!Names, L!MoveAside(f) PROVE ListsInv'
  <1>1. /\ job.at = "aside" /\ f \in job.todo /\ files[f] # L!Gone /\ manage_sources_list_d
        /\ saves' = [saves EXCEPT ![f] = files[f]] /\ files' = [files EXCEPT ![f] = L!Gone]
        /\ job' = [job EXCEPT !.todo = job.todo \ {f}]
        /\ UNCHANGED <<list, list_save, newest, clashed, manage_sources_list_d, bounds>>
    BY DEF L!MoveAside, ListsInv, FilesInv, L!There
  <1>2. /\ job'.at = "aside" /\ job'.todo = job.todo \ {f}
        /\ job' = [does |-> job'.does, at |-> job'.at, todo |-> job'.todo]
    BY <1>1 DEF ListsInv, ListTypes
  <1>3. ListTypes' /\ ListInv'
    BY <1>1, <1>2 DEF ListsInv, ListTypes, ListInv, L!Gone, L!Names
  <1>4. \A g \in L!Names \ {f} : files'[g] = files[g] /\ saves'[g] = saves[g]
    BY <1>1 DEF ListsInv, ListTypes
  <1>5. files'[f] = L!Gone /\ saves'[f] = files[f]
    BY <1>1 DEF ListsInv, ListTypes
  <1>6. FilesInv'
    BY <1>1, <1>2, <1>4, <1>5 DEF ListsInv, FilesInv, L!There, L!Names
  <1>. QED  BY <1>3, <1>6 DEF ListsInv

LEMMA ListsMoveBack ==
    ASSUME ListsInv, NEW f \in L!Names, L!MoveBack(f) PROVE ListsInv'
  <1>1. /\ job.at = "back" /\ f \in job.todo /\ saves[f] # L!Gone
        /\ files' = [files EXCEPT ![f] = saves[f]] /\ saves' = [saves EXCEPT ![f] = L!Gone]
        /\ job' = [job EXCEPT !.todo = job.todo \ {f}]
        /\ UNCHANGED <<list, list_save, newest, clashed, manage_sources_list_d, bounds>>
    BY DEF L!MoveBack, ListsInv, FilesInv, L!There
  <1>2. /\ job'.at = "back" /\ job'.todo = job.todo \ {f}
        /\ job' = [does |-> job'.does, at |-> job'.at, todo |-> job'.todo]
    BY <1>1 DEF ListsInv, ListTypes
  <1>3. ListTypes' /\ ListInv'
    BY <1>1, <1>2 DEF ListsInv, ListTypes, ListInv, L!Gone, L!Names
  <1>4. \A g \in L!Names \ {f} : files'[g] = files[g] /\ saves'[g] = saves[g]
    BY <1>1 DEF ListsInv, ListTypes
  <1>5. files'[f] = saves[f] /\ saves'[f] = L!Gone
    BY <1>1 DEF ListsInv, ListTypes
  <1>6. L!There(saves') = L!There(saves) \ {f}
    BY <1>4, <1>5 DEF L!There
  <1>7. ASSUME NEW g \in Mine
        PROVE  /\ files'[g] # L!Gone \/ saves'[g] # L!Gone
               /\ g \notin clashed => \/ files'[g] = newest[g] /\ saves'[g] = L!Gone
                                      \/ files'[g] = L!Gone /\ saves'[g] = newest[g]
    <2>1. CASE g = f
      BY <1>1, <1>5, <2>1 DEF ListsInv, FilesInv
    <2>2. CASE g # f
      BY <1>4, <2>2 DEF ListsInv, FilesInv, L!Names
    <2>. QED  BY <2>1, <2>2
  <1>8. /\ ~manage_sources_list_d => L!There(saves') = {}
        /\ job'.todo = L!There(saves')
    BY <1>1, <1>2, <1>6 DEF ListsInv, FilesInv
  <1>9. FilesInv'
    BY <1>1, <1>2, <1>7, <1>8 DEF FilesInv, L!There
  <1>. QED  BY <1>3, <1>9 DEF ListsInv

LEMMA ListsTheirs ==
    ASSUME ListsInv, L!WriteFiles \/ L!RemoveTheirs PROVE ListsInv'
  <1>1. /\ \A f \in Mine : files'[f] = files[f]
        /\ files' \in [L!Names -> Nat] /\ job' = L!Idle
        /\ UNCHANGED <<list, list_save, saves, newest, clashed, manage_sources_list_d, bounds>>
    <2>1. CASE L!WriteFiles
      BY <2>1, ListsAssumption DEF L!WriteFiles, L!Names, L!Managed, ListsInv, ListTypes
    <2>2. CASE L!RemoveTheirs
      BY <2>2, ListsAssumption
      DEF L!RemoveTheirs, L!Landscapes, L!Names, L!Gone, ListsInv, ListTypes
    <2>. QED  BY <2>1, <2>2
  <1>. QED  BY <1>1 DEF L!Idle, ListsInv, ListTypes, ListInv, FilesInv

LEMMA ListsEdit ==
    ASSUME ListsInv, NEW f \in Mine, L!Edit(f) PROVE ListsInv'
  <1>. DEFINE text == L!Managed + bounds.edits + 1
  <1>1. /\ newest' = [newest EXCEPT ![f] = text] /\ files' = [files EXCEPT ![f] = text]
        /\ clashed' = IF saves[f] = L!Gone THEN clashed ELSE clashed \cup {f}
        /\ bounds' = [bounds EXCEPT !.edits = @ + 1]
        /\ UNCHANGED <<list, list_save, saves, job, manage_sources_list_d>> /\ job.at = "idle"
    BY DEF L!Edit, L!Idle, ListsInv, ListTypes
  <1>2. text \in Nat \ {0}
    BY DEF ListsInv, ListTypes, L!Managed
  <1>. HIDE DEF text
  <1>3. bounds' \in [messages : Nat, breaks : Nat, edits : Nat]
    BY <1>1 DEF ListsInv, ListTypes
  <1>4. ListTypes' /\ ListInv'
    BY <1>1, <1>2, <1>3 DEF ListsInv, ListTypes, ListInv
  <1>5. /\ files'[f] = text /\ newest'[f] = text
        /\ \A g \in Mine \ {f} : files'[g] = files[g] /\ newest'[g] = newest[g]
    BY <1>1 DEF ListsInv, ListTypes, L!Names
  <1>6. FilesInv'
    BY <1>1, <1>2, <1>5 DEF ListsInv, FilesInv, L!Gone
  <1>. QED  BY <1>4, <1>6 DEF ListsInv

LEMMA ListsBreak ==
    ASSUME ListsInv, L!Break PROVE ListsInv'
  <1>1. bounds' \in [messages : Nat, breaks : Nat, edits : Nat]
    BY DEF L!Break, ListsInv, ListTypes
  <1>. QED  BY <1>1 DEF L!Break, L!Idle, ListsInv, ListTypes, ListInv, FilesInv

LEMMA ListsNext == ListsInv /\ [L!Next]_list_vars => ListsInv'
  <1>1. ListsInv /\ UNCHANGED list_vars => ListsInv'
    BY DEF list_vars, ListsInv, ListTypes, ListInv, FilesInv, L!There
  <1>. QED  BY <1>1, ListsSources, ListsMoveAside, ListsMoveBack, ListsTheirs, ListsEdit,
               ListsBreak DEF L!Next

\* What a message without sources leaves when it is carried out to its end
LEMMA ListsBack ==
    ASSUME ListsInv, L!RemoveTheirs
    PROVE  /\ list' = L!Original /\ list_save' = L!Gone
           /\ L!There(saves') = {} /\ L!There(files') = Mine
  <1>1. /\ job.at = "back" /\ job.todo = {} /\ UNCHANGED <<list, list_save, saves>>
        /\ files' = [f \in L!Names |-> IF f \in L!Landscapes THEN L!Gone ELSE files[f]]
    BY DEF L!RemoveTheirs
  <1>2. L!There(saves) = {}
    BY <1>1 DEF ListsInv, FilesInv
  <1>3. \A f \in Mine : files[f] # L!Gone /\ f \notin L!Landscapes
    BY <1>2, ListsAssumption DEF ListsInv, FilesInv, L!There, L!Names, L!Landscapes
  <1>4. \A f \in L!Names \ Mine : files'[f] = L!Gone
    BY <1>1 DEF L!Names, L!Landscapes
  <1>5. L!There(files') = Mine
    BY <1>1, <1>3, <1>4 DEF L!There, L!Names
  <1>. QED  BY <1>1, <1>2, <1>5 DEF ListsInv, ListInv

(***************************************************************************)
(* No list of the administrator is lost, wherever a message breaks off,    *)
(* and a message without sources that is carried out leaves the machine as *)
(* it was, for any files and any number of messages, breaks and edits.     *)
(***************************************************************************)
THEOREM ListsKeptAlways == PartsSpec => ListsKept
  <1>1. PartsInit => ListsInv
    <2>1. L!Init => ListsInv
      BY DEF L!Init, L!Idle, ListsInv, ListTypes, ListInv, FilesInv, L!There, L!Names, L!Gone,
             L!Original, L!Managed
    <2>. QED  BY <2>1 DEF PartsInit
  <1>2. ListsInv /\ [PartsNext]_all_vars => ListsInv'
    BY ListsNext DEF PartsNext, all_vars, list_vars
  <1>3. ListsInv => L!NothingLost
    BY DEF ListsInv, ListTypes, ListInv, FilesInv, L!NothingLost
  <1>4. ListsInv /\ ListsInv' /\ [PartsNext]_all_vars =>
          [/\ L!NothingLost'
           /\ L!RemoveTheirs => /\ list' = L!Original /\ list_save' = L!Gone
                                /\ L!There(saves') = {} /\ L!There(files') = Mine]_list_vars
    <2>1. ListsInv' => L!NothingLost'
      BY <1>3, PTL
    <2>. QED  BY <2>1, ListsBack
  <1>. QED  BY <1>1, <1>2, <1>4, PTL DEF PartsSpec, ListsKept, L!ListsKept, L!vars, list_vars

-----------------------------------------------------------------------------
(* Custom graphs                                                           *)

Points == [made_by : Nat, with : SUBSET Nat, at : Nat]
Entries == [hash : Nat, values : SUBSET Points]
GraphBounds == [versions : Nat, runs : Nat, restarts : Nat]

GraphTypes ==
    /\ store \subseteq Graph /\ asked \in Seq(SUBSET Graph) /\ clock \in Nat
    /\ accumulated \in [Graph -> [step : Nat, made_by : SUBSET Nat]]
    /\ DOMAIN data \subseteq Graph /\ \A g \in DOMAIN data : data[g] \in Entries
    /\ graph_server \subseteq [graph : Graph, hash : Nat, point : Points]
    /\ graph_bounds \in GraphBounds
    /\ file \in [Graph -> 0 .. graph_bounds.versions]
    /\ running \subseteq [graph : Graph, hash : 1 .. graph_bounds.versions, step : Nat]

\* The data points of a graph: those that are to be sent and those that were
PointsOf(g) == {p \in Points : \/ g \in G!Keys /\ p \in data[g].values
                               \/ \E v \in graph_server : v.graph = g /\ v.point = p}

ScriptsOf(g) == {r \in running : r.graph = g}

\* The scripts of a graph that run are the same, and what its entry has, and
\* is going to have, as its hash is the one of that script and of its points,
\* or of no file.
Agrees(g) ==
    /\ \A r, q \in ScriptsOf(g) : r.hash = q.hash
    /\ g \in G!Keys =>
         /\ g \in store
         /\ \A r \in ScriptsOf(g) : {data[g].hash, file[g]} \subseteq {r.hash, G!NoFile}
         /\ \A p \in data[g].values : {data[g].hash, file[g]} \subseteq {p.made_by, G!NoFile}

\* Nothing of the graph is by a newer script than version n.
UpTo(g, n) == /\ \A x \in accumulated[g].made_by : x <= n
              /\ \A p \in PointsOf(g) : p.made_by <= n

\* Scripts come in the order of their versions: first in data points, then in
\* the sum of the accumulator, then running and in the file.
Ordered(g) ==
    /\ \A p \in PointsOf(g) : \A x \in accumulated[g].made_by : p.made_by <= x
    /\ \A r \in ScriptsOf(g) : UpTo(g, r.hash)
    /\ file[g] # G!NoFile => UpTo(g, file[g])
    /\ UpTo(g, graph_bounds.versions)

\* A script completes one data point that is not only its own.
MixedOnce(g) ==
    \A p, q \in PointsOf(g) :
        G!Mixed(p) /\ G!Mixed(q) /\ p.made_by = q.made_by => p = q

SentRight(g) == \A v \in graph_server : v.graph = g => v.hash \in {v.point.made_by, G!NoFile}

Tidy(g) == Agrees(g) /\ Ordered(g) /\ MixedOnce(g) /\ SentRight(g)

GraphInv == GraphTypes /\ \A g \in Graph \ crossed : Tidy(g)

\* What keeps a graph tidy, as long as its scripts and its entry agree: no
\* data point is new, and neither is a script but for the one in the file.
LEMMA GraphKept ==
    ASSUME GraphInv, GraphTypes', NEW g \in Graph, g \notin crossed,
           accumulated'[g] = accumulated[g],
           graph_bounds.versions <= graph_bounds'.versions,
           PointsOf(g)' \subseteq PointsOf(g),
           \A v \in graph_server' : v.graph = g =>
               \/ v \in graph_server
               \/ g \in G!Keys /\ v.hash = data[g].hash /\ v.point \in data[g].values,
           \A r \in running' : r.graph = g =>
               r \in running \/ (r.hash = file[g] /\ file[g] # G!NoFile),
           file'[g] \in {file[g], G!NoFile, graph_bounds.versions + 1},
           Agrees(g)'
    PROVE  Tidy(g)'
  <1>0. Tidy(g) /\ GraphTypes
    BY DEF GraphInv
  <1>1. /\ \A p \in PointsOf(g) : p.made_by \in Nat
        /\ \A x \in accumulated[g].made_by : x \in Nat
        /\ graph_bounds.versions \in Nat /\ graph_bounds'.versions \in Nat /\ file[g] \in Nat
    BY <1>0 DEF GraphTypes, GraphBounds, PointsOf, Points
  <1>2. ASSUME NEW n \in Nat, NEW m \in Nat, n <= m, UpTo(g, n)
        PROVE  /\ \A x \in accumulated'[g].made_by : x <= m
               /\ \A p \in PointsOf(g)' : p.made_by <= m
    BY <1>1, <1>2 DEF UpTo
  <1>3. Ordered(g)'
    <2>1. \A p \in PointsOf(g)' : \A x \in accumulated'[g].made_by : p.made_by <= x
      BY <1>0 DEF Tidy, Ordered
    <2>2. ASSUME NEW r \in ScriptsOf(g)' PROVE UpTo(g, r.hash)'
      <3>1. r \in running' /\ r.graph = g /\ r.hash \in Nat
        BY <1>1 DEF ScriptsOf, GraphTypes
      <3>2. CASE r \in running
        BY <1>0, <1>2, <3>1, <3>2 DEF ScriptsOf, Tidy, Ordered, UpTo
      <3>3. CASE r.hash = file[g] /\ file[g] # G!NoFile
        BY <1>0, <1>1, <1>2, <3>3 DEF Tidy, Ordered, UpTo
      <3>. QED  BY <3>1, <3>2, <3>3
    <2>3. UpTo(g, graph_bounds.versions)'
      BY <1>0, <1>1, <1>2 DEF Tidy, Ordered, UpTo
    <2>4. ASSUME file'[g] # G!NoFile PROVE UpTo(g, file[g])'
      <3>1. CASE file'[g] = file[g]
        BY <1>0, <1>1, <1>2, <2>4, <3>1 DEF Tidy, Ordered, UpTo
      <3>2. CASE file'[g] = graph_bounds.versions + 1
        BY <1>0, <1>1, <1>2, <3>2 DEF Tidy, Ordered, UpTo
      <3>. QED  BY <2>4, <3>1, <3>2
    <2>. QED  BY <2>1, <2>2, <2>3, <2>4 DEF Ordered, G!NoFile
  <1>4. MixedOnce(g)'
    BY <1>0 DEF Tidy, MixedOnce, G!Mixed
  <1>5. SentRight(g)'
    <2>. SUFFICES ASSUME NEW v \in graph_server', v.graph = g
                  PROVE  v.hash \in {v.point.made_by, G!NoFile}
      BY DEF SentRight, G!NoFile
    <2>. QED  BY <1>0 DEF Tidy, SentRight, Agrees
  <1>. QED  BY <1>3, <1>4, <1>5 DEF Tidy

\* Handlers of the server's messages: of every graph the entry stays or goes,
\* and beside an entry that stays the file stays or goes.
LEMMA GraphHandled ==
    ASSUME GraphInv, GraphTypes', crossed \subseteq crossed',
           UNCHANGED <<accumulated, running, graph_server>>,
           graph_bounds.versions <= graph_bounds'.versions,
           G!Keys' \subseteq G!Keys, \A g \in G!Keys' : data'[g] = data[g],
           \A g \in Graph : file'[g] \in {file[g], G!NoFile, graph_bounds.versions + 1},
           \A g \in G!Keys' \ crossed' :
               (g \in store => g \in store') /\ file'[g] \in {file[g], G!NoFile}
    PROVE  GraphInv'
  <1>. SUFFICES ASSUME NEW g \in Graph, g \notin crossed' PROVE Tidy(g)'
    BY DEF GraphInv
  <1>1. Agrees(g) /\ g \notin crossed
    BY DEF GraphInv, Tidy
  <1>2. Agrees(g)'
    BY <1>1 DEF Agrees, ScriptsOf, G!NoFile
  <1>3. PointsOf(g)' \subseteq PointsOf(g)
    BY DEF PointsOf
  <1>. QED  BY <1>1, <1>2, <1>3, GraphKept DEF G!NoFile

LEMMA BoundsGrow ==
    ASSUME NEW b \in GraphBounds
    PROVE  /\ b.versions \in Nat
           /\ [b EXCEPT !.versions = @ + 1] \in GraphBounds
           /\ [b EXCEPT !.versions = @ + 1].versions = b.versions + 1
           /\ [b EXCEPT !.runs = @ + 1] \in GraphBounds
           /\ [b EXCEPT !.runs = @ + 1].versions = b.versions
           /\ [b EXCEPT !.restarts = @ + 1] \in GraphBounds
           /\ [b EXCEPT !.restarts = @ + 1].versions = b.versions
  BY DEF GraphBounds

LEMMA GraphAdd ==
    ASSUME GraphInv, NEW g \in Graph, G!Add(g) PROVE GraphInv'
  <1>0. /\ UNCHANGED <<accumulated, asked, running, clock, graph_server, crossed>>
        /\ store' = store \cup {g} /\ GraphTypes /\ graph_bounds.versions \in Nat
        /\ graph_bounds' = [graph_bounds EXCEPT !.versions = @ + 1]
    BY DEF G!Add, GraphInv, GraphTypes, GraphBounds
  <1>1. /\ graph_bounds' \in GraphBounds
        /\ graph_bounds'.versions = graph_bounds.versions + 1
    BY <1>0, BoundsGrow DEF GraphTypes
  <1>2. CASE file' = [file EXCEPT ![g] = graph_bounds.versions + 1] /\ data' = G!Forget(g)
    <2>1. DOMAIN data' = DOMAIN data \ {g} /\ \A h \in DOMAIN data' : data'[h] = data[h]
      BY <1>2 DEF G!Forget, G!Drop, G!Keys
    <2>2. /\ file' \in [Graph -> 0 .. graph_bounds'.versions]
          /\ running \subseteq [graph : Graph, hash : 1 .. graph_bounds'.versions, step : Nat]
      BY <1>0, <1>1, <1>2 DEF GraphTypes
    <2>3. GraphTypes'
      BY <1>0, <1>1, <2>1, <2>2 DEF GraphTypes
    <2>4. \A h \in Graph : file'[h] = IF h = g THEN graph_bounds.versions + 1 ELSE file[h]
      BY <1>0, <1>2 DEF GraphTypes
    <2>. QED  BY <1>0, <1>1, <2>1, <2>3, <2>4, GraphHandled DEF G!Keys, GraphTypes
  <1>3. CASE file' = [file EXCEPT ![g] = G!NoFile] /\ UNCHANGED data
    <2>1. /\ file' \in [Graph -> 0 .. graph_bounds'.versions]
          /\ running \subseteq [graph : Graph, hash : 1 .. graph_bounds'.versions, step : Nat]
      BY <1>0, <1>1, <1>3 DEF GraphTypes, G!NoFile
    <2>2. GraphTypes'
      BY <1>0, <1>1, <1>3, <2>1 DEF GraphTypes
    <2>3. \A h \in Graph : file'[h] \in {file[h], G!NoFile}
      BY <1>0, <1>3 DEF GraphTypes
    <2>. QED  BY <1>0, <1>1, <1>3, <2>2, <2>3, GraphHandled DEF G!Keys, GraphTypes
  <1>. QED  BY <1>2, <1>3 DEF G!Add

LEMMA GraphAddFails ==
    ASSUME GraphInv, NEW g \in Graph, G!AddFails(g) PROVE GraphInv'
  <1>0. /\ UNCHANGED <<store, accumulated, data, asked, running, clock, graph_server>>
        /\ GraphTypes /\ graph_bounds.versions \in Nat
        /\ graph_bounds' = [graph_bounds EXCEPT !.versions = @ + 1]
    BY DEF G!AddFails, GraphInv, GraphTypes, GraphBounds
  <1>1. /\ graph_bounds' \in GraphBounds
        /\ graph_bounds'.versions = graph_bounds.versions + 1
    BY <1>0, BoundsGrow DEF GraphTypes
  <1>2. PICK new \in {G!NoFile, graph_bounds.versions + 1} :
          /\ file' = [file EXCEPT ![g] = new]
          /\ crossed' = IF new = G!NoFile THEN crossed ELSE crossed \cup ({g} \cap G!Keys)
    <2>1. CASE file' = [file EXCEPT ![g] = G!NoFile] /\ UNCHANGED crossed
      BY <2>1
    <2>2. CASE /\ file' = [file EXCEPT ![g] = graph_bounds.versions + 1]
               /\ crossed' = crossed \cup ({g} \cap G!Keys)
      BY <1>0, <2>2 DEF G!NoFile
    <2>. QED  BY <2>1, <2>2 DEF G!AddFails
  <1>3. /\ file' \in [Graph -> 0 .. graph_bounds'.versions]
        /\ running \subseteq [graph : Graph, hash : 1 .. graph_bounds'.versions, step : Nat]
    BY <1>0, <1>1, <1>2 DEF GraphTypes, G!NoFile
  <1>4. GraphTypes'
    BY <1>0, <1>1, <1>3 DEF GraphTypes
  <1>5. \A h \in Graph : file'[h] = IF h = g THEN new ELSE file[h]
    BY <1>0, <1>2 DEF GraphTypes
  <1>. QED  BY <1>0, <1>1, <1>2, <1>4, <1>5, GraphHandled DEF G!Keys, GraphTypes

LEMMA GraphRemove ==
    ASSUME GraphInv, NEW g \in Graph, G!Remove(g) PROVE GraphInv'
  <1>0. /\ UNCHANGED <<accumulated, asked, running, clock, graph_server, crossed, graph_bounds>>
        /\ GraphTypes /\ graph_bounds.versions \in Nat /\ store' = store \ {g}
        /\ DOMAIN data' = DOMAIN data \ {g} /\ \A h \in DOMAIN data' : data'[h] = data[h]
    BY DEF G!Remove, G!Drop, G!Keys, GraphInv, GraphTypes, GraphBounds
  <1>1. /\ file' \in [Graph -> 0 .. graph_bounds.versions]
        /\ \A h \in Graph : file'[h] \in {file[h], G!NoFile}
    <2>1. CASE file' = [file EXCEPT ![g] = G!NoFile]
      BY <1>0, <2>1 DEF GraphTypes, G!NoFile
    <2>2. CASE file' = file
      BY <1>0, <2>2 DEF GraphTypes
    <2>. QED  BY <2>1, <2>2 DEF G!Remove
  <1>2. GraphTypes'
    BY <1>0, <1>1 DEF GraphTypes
  <1>. QED  BY <1>0, <1>1, <1>2, GraphHandled DEF G!Keys, GraphTypes

LEMMA GraphRun ==
    ASSUME GraphInv, G!Run PROVE GraphInv'
  <1>0. /\ UNCHANGED <<store, accumulated, file, data, running, clock, graph_server, crossed>>
        /\ GraphTypes /\ graph_bounds' = [graph_bounds EXCEPT !.runs = @ + 1]
    BY DEF G!Run, GraphInv
  <1>1. /\ graph_bounds' \in GraphBounds
        /\ graph_bounds'.versions = graph_bounds.versions /\ graph_bounds.versions \in Nat
    BY <1>0, BoundsGrow DEF GraphTypes
  <1>2. asked' \in Seq(SUBSET Graph)
    <2>1. CASE asked' = asked
      BY <1>0, <2>1 DEF GraphTypes
    <2>2. CASE asked' = Append(asked, store)
      BY <1>0, <2>2 DEF GraphTypes
    <2>. QED  BY <2>1, <2>2 DEF G!Run
  <1>3. GraphTypes'
    BY <1>0, <1>1, <1>2 DEF GraphTypes
  <1>. QED  BY <1>0, <1>1, <1>3, GraphHandled DEF G!Keys

LEMMA GraphRestart ==
    ASSUME GraphInv, G!Restart PROVE GraphInv'
  <1>0. /\ UNCHANGED <<store, accumulated, file, clock, graph_server, crossed>>
        /\ GraphTypes /\ graph_bounds' = [graph_bounds EXCEPT !.restarts = @ + 1]
        /\ DOMAIN data' = {} /\ running' = {} /\ asked' = <<>>
    BY DEF G!Restart, GraphInv
  <1>1. /\ graph_bounds' \in GraphBounds
        /\ graph_bounds'.versions = graph_bounds.versions /\ graph_bounds.versions \in Nat
    BY <1>0, BoundsGrow DEF GraphTypes
  <1>2. GraphTypes'
    BY <1>0, <1>1 DEF GraphTypes
  <1>3. ASSUME NEW g \in Graph PROVE Agrees(g)' /\ PointsOf(g)' \subseteq PointsOf(g)
    BY <1>0 DEF Agrees, ScriptsOf, PointsOf, G!Keys
  <1>. QED  BY <1>0, <1>1, <1>2, <1>3, GraphKept DEF GraphInv

LEMMA GraphContinue ==
    ASSUME GraphInv, G!ContinueRun PROVE GraphInv'
  <1>. DEFINE now == Head(asked)
  <1>0. /\ UNCHANGED <<store, accumulated, file, graph_server, graph_bounds>> /\ GraphTypes
        /\ asked # <<>> /\ asked' = Tail(asked) /\ clock' \in {clock, clock + 1, clock + 2}
        /\ crossed' = (crossed \cup G!Mixes(data')) \cup (now \ store)
    BY DEF G!ContinueRun, GraphInv
  <1>1. now \subseteq Graph /\ asked' \in Seq(SUBSET Graph) /\ clock' \in Nat
    BY <1>0 DEF GraphTypes
  <1>2. /\ DOMAIN data' = DOMAIN data \cup now
        /\ \A g \in DOMAIN data \ now : data'[g] = data[g]
        /\ \A g \in now : /\ data'[g].hash = file[g]
                          /\ data'[g].values = IF g \in DOMAIN data THEN data[g].values ELSE {}
    BY DEF G!ContinueRun, G!Keys, G!Entry
  <1>3. \A r \in running' :
          \/ r \in running
          \/ \E g \in now : /\ r = [graph |-> g, hash |-> file[g], step |-> clock']
                            /\ file[g] # G!NoFile
    BY DEF G!ContinueRun
  <1>4. \A g \in DOMAIN data' : data'[g] \in Entries
    <2>1. \A g \in Graph : file[g] \in Nat
      BY <1>0 DEF GraphTypes
    <2>2. \A g \in DOMAIN data : data[g] \in Entries
      BY <1>0 DEF GraphTypes
    <2>3. data' = [g \in DOMAIN data \cup now |->
                     IF g \notin now THEN data[g]
                     ELSE IF g \in DOMAIN data THEN [data[g] EXCEPT !.hash = file[g]]
                     ELSE G!Entry(file[g])]
      BY DEF G!ContinueRun, G!Keys
    <2>. QED  BY <1>1, <2>1, <2>2, <2>3 DEF G!Entry, Entries
  <1>. HIDE DEF now
  <1>5. running' \subseteq [graph : Graph, hash : 1 .. graph_bounds.versions, step : Nat]
    <2>1. \A g \in now : file[g] \in 0 .. graph_bounds.versions
      BY <1>0, <1>1 DEF GraphTypes
    <2>. QED  BY <1>0, <1>1, <1>3, <2>1 DEF GraphTypes, G!NoFile
  <1>6. GraphTypes'
    BY <1>0, <1>1, <1>2, <1>4, <1>5 DEF GraphTypes
  <1>7. ASSUME NEW g \in Graph, g \notin crossed' PROVE Tidy(g)'
    <2>0. Agrees(g) /\ g \notin crossed /\ graph_bounds.versions \in Nat
      BY <1>0, <1>7 DEF GraphInv, Tidy, GraphTypes, GraphBounds
    <2>1. PointsOf(g)' \subseteq PointsOf(g)
      BY <1>0, <1>2 DEF PointsOf, G!Keys
    <2>2. \A r \in running' : r.graph = g =>
            r \in running \/ (g \in now /\ r.hash = file[g] /\ file[g] # G!NoFile)
      BY <1>3
    <2>3. g \in now => g \in store /\ \A r \in ScriptsOf(g) : file[g] \in {r.hash, G!NoFile}
      BY <1>0, <1>2, <1>7 DEF G!Mixes, ScriptsOf
    <2>4. Agrees(g)'
      <3>1. CASE g \in now
        <4>1. \A r \in ScriptsOf(g)' : file[g] \in {r.hash, G!NoFile}
          BY <2>2, <2>3, <3>1 DEF ScriptsOf
        <4>2. \A r, q \in ScriptsOf(g)' : r.hash = q.hash
          BY <2>0, <2>2, <2>3 DEF Agrees, ScriptsOf
        <4>3. \A p \in data'[g].values : file[g] \in {p.made_by, G!NoFile}
          BY <1>2, <2>0, <3>1 DEF Agrees, G!Keys
        <4>. QED  BY <1>0, <1>2, <2>3, <3>1, <4>1, <4>2, <4>3 DEF Agrees, G!Keys, G!NoFile
      <3>2. CASE g \notin now
        <4>1. ScriptsOf(g)' \subseteq ScriptsOf(g)
          BY <2>2, <3>2 DEF ScriptsOf
        <4>. QED  BY <1>0, <1>2, <2>0, <3>2, <4>1 DEF Agrees, G!Keys, G!NoFile
      <3>. QED  BY <3>1, <3>2
    <2>. QED  BY <1>0, <1>6, <2>0, <2>1, <2>2, <2>4, GraphKept
  <1>. QED  BY <1>6, <1>7 DEF GraphInv

LEMMA GraphSend ==
    ASSUME GraphInv, G!Send PROVE GraphInv'
  <1>. DEFINE new == {h \in store : file[h] # G!NoFile} \ DOMAIN data
  <1>0. /\ UNCHANGED <<store, accumulated, file, asked, running, clock, graph_bounds>>
        /\ GraphTypes /\ crossed' = crossed \cup G!Mixes(data')
    BY DEF G!Send, GraphInv
  <1>1. /\ DOMAIN data' = DOMAIN data \cup new
        /\ \A g \in DOMAIN data : data'[g].hash = data[g].hash /\ data'[g].values = {}
        /\ \A g \in new : data'[g].hash = file[g] /\ data'[g].values = {}
    BY DEF G!Send, G!Keys, G!Entry
  <1>2. \A v \in graph_server' :
          \/ v \in graph_server
          \/ \E g \in DOMAIN data : \E w \in data[g].values :
               v = [graph |-> g, hash |-> data[g].hash, point |-> w]
    <2>. DEFINE all == [g \in DOMAIN data \cup {h \in store : file[h] # G!NoFile} |->
                          IF g \in DOMAIN data THEN data[g] ELSE G!Entry(file[g])]
                of(g) == {[graph |-> g, hash |-> all[g].hash, point |-> v] : v \in all[g].values}
    <2>1. graph_server' \in {graph_server, graph_server \cup UNION {of(g) : g \in DOMAIN all}}
      BY DEF G!Send, G!Keys
    <2>. SUFFICES ASSUME NEW v \in graph_server', v \notin graph_server
                  PROVE  \E g \in DOMAIN data : \E w \in data[g].values :
                           v = [graph |-> g, hash |-> data[g].hash, point |-> w]
      OBVIOUS
    <2>2. PICK g \in DOMAIN all : v \in of(g)
      BY <2>1
    <2>3. PICK w \in all[g].values : v = [graph |-> g, hash |-> all[g].hash, point |-> w]
      BY <2>2
    <2>4. g \in DOMAIN data /\ all[g] = data[g]
      BY <2>3 DEF G!Entry
    <2>. QED  BY <2>3, <2>4
  <1>3. GraphTypes'
    <2>1. \A g \in DOMAIN data' : data'[g] \in Entries
      BY <1>0 DEF G!Send, G!Keys, G!Entry, GraphTypes, Entries
    <2>2. graph_server' \subseteq [graph : Graph, hash : Nat, point : Points]
      BY <1>0, <1>2 DEF GraphTypes, Entries
    <2>. QED  BY <1>0, <1>1, <2>1, <2>2 DEF GraphTypes
  <1>. HIDE DEF new
  <1>4. ASSUME NEW g \in Graph, g \notin crossed' PROVE Tidy(g)'
    <2>0. Agrees(g) /\ g \notin crossed /\ graph_bounds.versions \in Nat
      BY <1>0, <1>4 DEF GraphInv, Tidy, GraphTypes, GraphBounds
    <2>1. \A v \in graph_server' : v.graph = g =>
            \/ v \in graph_server
            \/ g \in G!Keys /\ v.hash = data[g].hash /\ v.point \in data[g].values
      BY <1>2 DEF G!Keys
    <2>2. PointsOf(g)' \subseteq PointsOf(g)
      <3>. SUFFICES ASSUME NEW p \in PointsOf(g)' PROVE p \in PointsOf(g)
        OBVIOUS
      <3>1. p \in Points /\ \E v \in graph_server' : v.graph = g /\ v.point = p
        BY <1>1 DEF PointsOf, G!Keys
      <3>. QED  BY <2>1, <3>1 DEF PointsOf
    <2>3. Agrees(g)'
      <3>1. CASE g \in new
        <4>1. \A r \in ScriptsOf(g) : file[g] \in {r.hash, G!NoFile}
          BY <1>0, <1>1, <1>4, <3>1 DEF G!Mixes, ScriptsOf
        <4>. QED  BY <1>0, <1>1, <2>0, <3>1, <4>1 DEF Agrees, ScriptsOf, G!Keys, G!NoFile, new
      <3>2. CASE g \notin new
        BY <1>0, <1>1, <2>0, <3>2 DEF Agrees, ScriptsOf, G!Keys, G!NoFile
      <3>. QED  BY <3>1, <3>2
    <2>. QED  BY <1>0, <1>3, <2>0, <2>1, <2>2, <2>3, GraphKept
  <1>. QED  BY <1>3, <1>4 DEF GraphInv

\* A script that is the newest of its graph puts its value into the sum.
LEMMA GraphAccumulates ==
    ASSUME GraphInv, GraphTypes', NEW r \in running, r.graph \notin crossed,
           r.graph \in G!Keys, running' = running \ {r},
           UNCHANGED <<store, file, graph_server, graph_bounds>>,
           NEW prior \in SUBSET Nat, prior \in {{}, accumulated[r.graph].made_by},
           accumulated'[r.graph].made_by = prior \cup {r.hash},
           NEW points \in SUBSET Points,
           \A p \in points : p.made_by = r.hash /\ p.with = accumulated[r.graph].made_by,
           \A p, q \in points : p = q,
           points # {} => prior = {},
           DOMAIN data' = DOMAIN data, data'[r.graph].hash = data[r.graph].hash,
           data'[r.graph].values = data[r.graph].values \cup points
    PROVE  Tidy(r.graph)'
  <1>. DEFINE g == r.graph
  <1>0. GraphTypes /\ g \in Graph /\ r \in ScriptsOf(g)
    BY DEF GraphInv, GraphTypes, ScriptsOf
  <1>1. Agrees(g) /\ Ordered(g) /\ MixedOnce(g) /\ SentRight(g)
    BY <1>0 DEF GraphInv, Tidy
  <1>2. /\ r.hash \in Nat /\ r.hash <= graph_bounds.versions /\ graph_bounds.versions \in Nat
        /\ \A x \in accumulated[g].made_by : x \in Nat
        /\ \A p \in PointsOf(g) : p.made_by \in Nat
    BY <1>0 DEF GraphTypes, GraphBounds, PointsOf, Points
  <1>3. PointsOf(g)' = PointsOf(g) \cup points
    BY DEF PointsOf, G!Keys
  <1>4. \A x \in accumulated'[g].made_by : x \in accumulated[g].made_by \/ x = r.hash
    OBVIOUS
  <1>5. ScriptsOf(g)' \subseteq ScriptsOf(g)
    BY DEF ScriptsOf
  <1>. HIDE DEF g
  <1>6. Agrees(g)'
    <2>1. file[g] \in {r.hash, G!NoFile} /\ data[g].hash \in {r.hash, G!NoFile} /\ g \in store
      BY <1>0, <1>1 DEF Agrees, g
    <2>2. \A p \in data'[g].values : p \in data[g].values \/ p.made_by = r.hash
      BY DEF g
    <2>. QED  BY <1>1, <1>5, <2>1, <2>2 DEF Agrees, G!Keys, G!NoFile, g
  <1>7. ASSUME NEW n \in Nat, UpTo(g, n), r.hash <= n PROVE UpTo(g, n)'
    BY <1>3, <1>4, <1>7 DEF UpTo
  <1>8. Ordered(g)'
    <2>1. UpTo(g, r.hash)
      BY <1>0, <1>1 DEF Ordered
    <2>2. ASSUME NEW p \in PointsOf(g)', NEW x \in accumulated'[g].made_by PROVE p.made_by <= x
      <3>1. CASE p \in PointsOf(g)
        BY <1>1, <1>4, <2>1, <3>1 DEF Ordered, UpTo
      <3>2. CASE p \in points
        <4>1. x = r.hash
          BY <3>2 DEF g
        <4>. QED  BY <1>2, <3>2, <4>1
      <3>. QED  BY <1>3, <3>1, <3>2
    <2>3. ASSUME NEW q \in ScriptsOf(g)' PROVE UpTo(g, q.hash)'
      BY <1>0, <1>1, <1>2, <1>5, <1>7, <2>1 DEF Agrees
    <2>4. ASSUME file'[g] # G!NoFile PROVE UpTo(g, file[g])'
      <3>1. file[g] = r.hash
        BY <1>0, <1>1, <2>4 DEF Agrees, g
      <3>. QED  BY <1>2, <1>7, <2>1, <3>1 DEF UpTo
    <2>5. UpTo(g, graph_bounds.versions)'
      BY <1>1, <1>2, <1>7 DEF Ordered, UpTo
    <2>. QED  BY <2>2, <2>3, <2>4, <2>5 DEF Ordered, G!NoFile
  <1>9. MixedOnce(g)'
    <2>1. ASSUME NEW p \in PointsOf(g), NEW q \in points, p.made_by = r.hash PROVE ~G!Mixed(q)
      <3>1. \A x \in accumulated[g].made_by : r.hash <= x /\ x <= r.hash /\ x \in Nat
        BY <1>0, <1>1, <1>2, <2>1 DEF Ordered, UpTo
      <3>2. \A x \in accumulated[g].made_by : x = r.hash
        BY <1>2, <3>1
      <3>. QED  BY <3>2 DEF G!Mixed, g
    <2>. QED  BY <1>1, <1>3, <2>1 DEF MixedOnce, G!Mixed
  <1>10. SentRight(g)'
    BY <1>1 DEF SentRight, G!NoFile
  <1>. QED  BY <1>6, <1>8, <1>9, <1>10 DEF Tidy, g

LEMMA GraphScriptEnds ==
    ASSUME GraphInv, NEW r \in running, G!ScriptEnds(r) PROVE GraphInv'
  <1>0. /\ UNCHANGED <<store, file, asked, clock, graph_server, crossed, graph_bounds>>
        /\ running' = running \ {r} /\ GraphTypes
        /\ r.graph \in Graph /\ r.step \in Nat /\ r.hash \in Nat /\ graph_bounds.versions \in Nat
    BY DEF G!ScriptEnds, GraphInv, GraphTypes, GraphBounds
  <1>1. ASSUME NEW g \in Graph, g \notin crossed, GraphTypes',
               accumulated'[g] = accumulated[g], DOMAIN data' = DOMAIN data,
               g \in DOMAIN data => data'[g] = data[g]
        PROVE  Tidy(g)'
    <2>1. Agrees(g)
      BY <1>1 DEF GraphInv, Tidy
    <2>2. Agrees(g)'
      BY <1>0, <1>1, <2>1 DEF Agrees, ScriptsOf, G!Keys, G!NoFile
    <2>3. PointsOf(g)' \subseteq PointsOf(g)
      BY <1>0, <1>1 DEF PointsOf, G!Keys
    <2>. QED  BY <1>0, <1>1, <2>2, <2>3, GraphKept DEF G!NoFile
  <1>2. CASE UNCHANGED <<data, accumulated>>
    <2>1. GraphTypes'
      BY <1>0, <1>2 DEF GraphTypes
    <2>. QED  BY <1>0, <1>1, <1>2, <2>1 DEF GraphInv
  <1>3. CASE r.graph \in G!Keys /\ G!accumulate(r)
    <2>. DEFINE before == accumulated[r.graph]
                prior == IF r.step = before.step THEN before.made_by ELSE {}
                point == [made_by |-> r.hash, with |-> before.made_by, at |-> r.step]
                points == IF r.step = before.step + 1 THEN {point} ELSE {}
    <2>1. before \in [step : Nat, made_by : SUBSET Nat] /\ point \in Points
      BY <1>0 DEF GraphTypes, Points
    <2>2. /\ accumulated' = [accumulated EXCEPT ![r.graph] = [step |-> r.step, made_by |-> prior \cup {r.hash}]]
          /\ prior \in SUBSET Nat /\ prior \in {{}, before.made_by} /\ points \in SUBSET Points
      BY <1>3, <2>1 DEF G!accumulate
    <2>3. /\ accumulated'[r.graph].made_by = prior \cup {r.hash}
          /\ accumulated' \in [Graph -> [step : Nat, made_by : SUBSET Nat]]
          /\ \A g \in Graph : g # r.graph => accumulated'[g] = accumulated[g]
      BY <1>0, <2>2 DEF GraphTypes
    <2>4. r.graph \in DOMAIN data /\ data[r.graph] \in Entries
      BY <1>0, <1>3 DEF G!Keys, GraphTypes
    <2>5. /\ DOMAIN data' = DOMAIN data
          /\ \A g \in DOMAIN data : g # r.graph => data'[g] = data[g]
          /\ data'[r.graph] = [hash |-> data[r.graph].hash,
                               values |-> data[r.graph].values \cup points]
      <3>1. CASE r.step = before.step + 1
        <4>1. data' = [data EXCEPT ![r.graph].values = @ \cup {point}]
          BY <1>3, <3>1 DEF G!accumulate
        <4>. QED  BY <2>4, <3>1, <4>1 DEF Entries
      <3>2. CASE r.step # before.step + 1
        <4>1. data' = data
          BY <1>3, <3>2 DEF G!accumulate
        <4>. QED  BY <2>4, <3>2, <4>1 DEF Entries
      <3>. QED  BY <3>1, <3>2
    <2>6. GraphTypes'
      <3>1. data'[r.graph] \in Entries
        BY <2>2, <2>4, <2>5 DEF Entries
      <3>. QED  BY <1>0, <2>3, <2>5, <3>1 DEF GraphTypes
    <2>7. /\ \A p \in points : p.made_by = r.hash /\ p.with = before.made_by
          /\ \A p, q \in points : p = q
          /\ points # {} => prior = {}
      BY <2>1
    <2>8. /\ data'[r.graph].hash = data[r.graph].hash
          /\ data'[r.graph].values = data[r.graph].values \cup points
      BY <2>5
    <2>. HIDE DEF prior, points
    <2>9. r.graph \notin crossed => Tidy(r.graph)'
      BY <1>0, <1>3, <2>2, <2>3, <2>5, <2>6, <2>7, <2>8, GraphAccumulates
    <2>10. \A g \in Graph \ crossed : g # r.graph => Tidy(g)'
      BY <1>1, <2>3, <2>5, <2>6
    <2>. QED  BY <1>0, <2>6, <2>9, <2>10 DEF GraphInv
  <1>. QED  BY <1>2, <1>3 DEF G!ScriptEnds

LEMMA GraphNext == GraphInv /\ [G!Next]_graph_vars => GraphInv'
  <1>. SUFFICES ASSUME GraphInv, [G!Next]_graph_vars PROVE GraphInv'
    OBVIOUS
  <1>1. CASE UNCHANGED graph_vars
    <2>1. UNCHANGED graph_vars => GraphTypes'
      BY DEF graph_vars, GraphInv, GraphTypes
    <2>2. graph_bounds.versions \in Nat
      BY DEF GraphInv, GraphTypes, GraphBounds
    <2>. QED  BY <1>1, <2>1, <2>2, GraphHandled DEF graph_vars, G!Keys
  <1>2. CASE G!Next
    BY <1>2, GraphAdd, GraphAddFails, GraphRemove, GraphRun, GraphContinue, GraphSend,
       GraphRestart, GraphScriptEnds DEF G!Next
  <1>. QED  BY <1>1, <1>2

(***************************************************************************)
(* A data point of a custom graph comes to the server with the hash of the *)
(* script that completed it, or of none; no more than one of the points    *)
(* that a script completes has values of the scripts before it, those that *)
(* the accumulator still had; and no graph that is removed is reported.    *)
(* This is for any graphs, versions of their scripts, runs and restarts of *)
(* the manager: but for the graphs whose entry is put back while a script  *)
(* from before a change is running, or from a list of graphs from before   *)
(* the removal, and those whose new script could not be written beside the *)
(* data of the old one.                                                    *)
(***************************************************************************)
THEOREM ValuesAreOfTheirScriptAlways == PartsSpec => []ValuesAreOfTheirScript
  <1>1. PartsInit => GraphInv
    <2>. SUFFICES ASSUME G!Init PROVE GraphInv
      BY DEF PartsInit
    <2>1. GraphTypes
      <3>1. graph_bounds \in GraphBounds /\ graph_bounds.versions = 0
        BY DEF G!Init, GraphBounds
      <3>2. file \in [Graph -> 0 .. graph_bounds.versions]
        BY <3>1 DEF G!Init, G!NoFile
      <3>3. accumulated \in [Graph -> [step : Nat, made_by : SUBSET Nat]]
        BY DEF G!Init
      <3>. QED  BY <3>1, <3>2, <3>3 DEF G!Init, GraphTypes
    <2>2. ASSUME NEW g \in Graph PROVE Tidy(g)
      <3>1. PointsOf(g) = {} /\ ScriptsOf(g) = {} /\ accumulated[g].made_by = {} /\ g \notin G!Keys
        BY DEF G!Init, PointsOf, ScriptsOf, G!Keys
      <3>2. graph_server = {} /\ file[g] = G!NoFile
        BY DEF G!Init
      <3>. QED  BY <3>1, <3>2 DEF Tidy, Agrees, Ordered, UpTo, MixedOnce, SentRight
    <2>. QED  BY <2>1, <2>2 DEF GraphInv
  <1>2. GraphInv /\ [PartsNext]_all_vars => GraphInv'
    BY GraphNext DEF PartsNext, all_vars, graph_vars
  <1>3. GraphInv => ValuesAreOfTheirScript
    <2>. SUFFICES ASSUME GraphInv PROVE G!ValuesAreOfTheirScript
      BY DEF ValuesAreOfTheirScript
    <2>0. \A v \in graph_server : v.graph \in Graph /\ v.point \in PointsOf(v.graph)
      BY DEF GraphInv, GraphTypes, PointsOf
    <2>1. \A v \in graph_server : v.graph \notin crossed => v.hash \in {v.point.made_by, G!NoFile}
      BY <2>0 DEF GraphInv, Tidy, SentRight
    <2>2. \A v, w \in graph_server :
            /\ v.graph = w.graph /\ v.graph \notin crossed
            /\ v.point.made_by = w.point.made_by /\ G!Mixed(v.point) /\ G!Mixed(w.point)
            => v.point = w.point
      BY <2>0 DEF GraphInv, Tidy, MixedOnce
    <2>3. \A g \in G!Keys : g \in store \/ g \in crossed
      BY DEF GraphInv, GraphTypes, Tidy, Agrees, G!Keys
    <2>. QED  BY <2>1, <2>2, <2>3 DEF G!ValuesAreOfTheirScript
  <1>. QED  BY <1>1, <1>2, <1>3, PTL DEF PartsSpec

-----------------------------------------------------------------------------
(* Changes of packages                                                     *)

Codes == {P!SUCCESS_RESULT, P!ERROR_RESULT, P!DEPENDENCY_ERROR_RESULT, P!NoResult}
Changers == [at : {"waiting", "performing", "resolving", "committing", "answering", "over"},
             count : Nat, tries : Nat, code : Codes, must : SUBSET Version]
Marks == [installs : SUBSET Version, removals : SUBSET Version, holds : SUBSET Version,
          unholds : SUBSET Version]

\* Of each package a version of its own, or none
OfItself(t) == \A p \in Package : t[p] = None \/ (t[p] \in Version /\ PackageOf[t[p]] = p)

Busy == changer.at \in {"performing", "resolving", "committing"}

ChangeTypes ==
    /\ changer \in Changers /\ known \subseteq Version
    /\ OfItself(installed) /\ OfItself(cache.installed)
    /\ Busy => marks \in Marks

\* While the changer is at work, nothing of the packages has changed since the
\* facade has looked, and the marks are what was asked for and what completes it,
\* all of the main architecture.
MarksRight ==
    Busy => /\ installed = cache.installed
            /\ marks.installs = message.install
                 \cup {v \in changer.must : cache.installed[PackageOf[v]] # v}
            /\ marks.removals = message.remove
                 \cup {v \in changer.must : cache.installed[PackageOf[v]] = v}
            /\ marks.holds = message.hold /\ marks.unholds = message.remove_hold
            /\ \A v \in message.install \cup message.remove : PackageOf[v] \notin Foreign

\* More is done only as the policy allows, and it is not what was asked for.
MustRight ==
    Busy => /\ changer.must \cap (message.install \cup message.remove) = {}
            /\ message.policy = "strict" => changer.must = {}
            /\ message.policy = "installs" =>
                 \A v \in changer.must : cache.installed[PackageOf[v]] # v

\* What APT is about to do is all marked, and touches no package on hold.
PlanRight ==
    changer.at = "committing" =>
        /\ plan \in P!Plans /\ ~P!HeldInTheWay
        /\ P!Changes(plan) \subseteq marks.installs \cup marks.removals

Successful == changer.at = "answering" /\ changer.code = P!SUCCESS_RESULT

\* The holds come first, and stay.
HoldsRight ==
    changer.at \in {"resolving", "committing"} \/ Successful =>
        \/ "meddled" \in spoilt
        \/ P!Packages(message.hold) \ P!Packages(message.remove_hold) \subseteq held

\* The changer that gets to its end is the first one to change something.
Untouched ==
    changer.at \in {"waiting", "performing", "resolving", "committing"} /\ "killed" \notin spoilt
      => changed.gone \cup changed.new = {}

ChangeInv ==
    /\ ChangeTypes /\ MarksRight /\ MustRight /\ PlanRight /\ HoldsRight /\ Untouched
    /\ NothingUnasked /\ AnswerTrue

LEMMA ChangerAnswers ==
    ASSUME ChangeTypes, NEW code \in Codes, P!Answer(code)
    PROVE  /\ changer' \in Changers /\ changer'.at = "answering" /\ changer'.code = code
           /\ changer'.must = changer.must
  <1>0. changer \in Changers /\ changer' = [changer EXCEPT !.at = "answering", !.code = code]
    BY DEF ChangeTypes, P!Answer
  <1>1. changer' \in Changers
    BY <1>0 DEF Changers
  <1>2. changer'.at = "answering" /\ changer'.code = code /\ changer'.must = changer.must
    BY <1>0 DEF Changers
  <1>. QED  BY <1>1, <1>2

LEMMA Waits == P!Waiting \in Changers /\ P!Waiting.at = "waiting"
  BY DEF P!Waiting, Changers, Codes

LEMMA CodesDiffer == {P!ERROR_RESULT, P!DEPENDENCY_ERROR_RESULT} \subseteq Codes \ {P!SUCCESS_RESULT}
  BY DEF Codes, P!ERROR_RESULT, P!DEPENDENCY_ERROR_RESULT, P!SUCCESS_RESULT

\* Nothing was changed, and the answer says so.
LEMMA ChangeRefused ==
    ASSUME ChangeInv, UNCHANGED <<message, known, installed, changed, spoilt>>,
           changer.at \in {"waiting", "performing", "resolving", "committing"},
           changer' \in Changers, changer'.at = "answering", changer'.code # P!SUCCESS_RESULT,
           OfItself(cache'.installed)
    PROVE  ChangeInv'
  <1>1. ChangeTypes' /\ MarksRight' /\ MustRight' /\ PlanRight' /\ HoldsRight' /\ Untouched'
    BY DEF ChangeInv, ChangeTypes, Busy, MarksRight, MustRight, PlanRight, HoldsRight, Untouched,
           Successful, OfItself, P!SUCCESS_RESULT
  <1>2. NothingUnasked' /\ AnswerTrue'
    BY DEF ChangeInv, Untouched, NothingUnasked, AnswerTrue, P!NothingUnasked, P!AnswerTrue, P!At,
           P!SUCCESS_RESULT
  <1>. QED  BY <1>1, <1>2 DEF ChangeInv

\* The changer has ended, and its task is still there.
LEMMA ChangeWaits ==
    ASSUME ChangeInv, UNCHANGED <<message, known>>, changer' = P!Waiting,
           NothingUnasked', OfItself(installed'), OfItself(cache'.installed),
           "killed" \notin spoilt' => changed'.gone \cup changed'.new = {}
    PROVE  ChangeInv'
  <1>0. changer' \in Changers /\ changer'.at = "waiting"
    BY Waits
  <1>1. ChangeTypes' /\ MarksRight' /\ MustRight' /\ PlanRight' /\ HoldsRight' /\ Untouched'
    BY <1>0 DEF ChangeInv, ChangeTypes, Busy, MarksRight, MustRight, PlanRight, HoldsRight,
                Untouched, Successful, OfItself
  <1>2. AnswerTrue'
    BY <1>0 DEF AnswerTrue, P!AnswerTrue, P!At
  <1>. QED  BY <1>1, <1>2 DEF ChangeInv

LEMMA ChangeUnknown ==
    ASSUME ChangeInv, P!UnknownPackageData,
           UNCHANGED <<message, known, installed, changed, spoilt>>,
           changer.at \in {"waiting", "performing", "resolving", "committing"},
           OfItself(cache'.installed)
    PROVE  ChangeInv'
  <1>1. CASE P!Answer(P!ERROR_RESULT)
    BY <1>1, ChangerAnswers, CodesDiffer, ChangeRefused DEF ChangeInv
  <1>2. CASE changer' = P!Waiting
    <2>1. NothingUnasked' /\ OfItself(installed')
          /\ ("killed" \notin spoilt' => changed'.gone \cup changed'.new = {})
      BY DEF ChangeInv, ChangeTypes, Untouched, NothingUnasked, P!NothingUnasked, OfItself
    <2>. QED  BY <1>2, <2>1, ChangeWaits
  <1>. QED  BY <1>1, <1>2 DEF P!UnknownPackageData

LEMMA ChangeMarks ==
    ASSUME ChangeInv, P!MarkPackages PROVE ChangeInv'
  <1>0. /\ changer.at = "waiting" /\ UNCHANGED <<message, known, installed, held, changed, spoilt>>
        /\ cache'.installed = installed
        /\ marks' = [installs |-> message.install, removals |-> message.remove,
                     holds |-> message.hold, unholds |-> message.remove_hold]
    BY DEF P!MarkPackages, P!At
  <1>1. OfItself(cache'.installed) /\ OfItself(installed')
    BY <1>0 DEF ChangeInv, ChangeTypes
  <1>2. CASE P!UnknownPackageData
    BY <1>0, <1>1, <1>2, ChangeUnknown
  <1>3. CASE /\ P!Asked \subseteq known \cap P!Channel(cache')
             /\ changer' = [P!Waiting EXCEPT !.at = "performing", !.count = 1]
    <2>1. changer' \in Changers /\ changer'.at = "performing" /\ changer'.must = {}
      BY <1>3 DEF P!Waiting, Changers, Codes
    <2>2. marks' \in Marks
      BY <1>0, <1>3 DEF Marks, P!Asked, ChangeInv, ChangeTypes
    <2>3. \A v \in message.install \cup message.remove : PackageOf[v] \notin Foreign
      BY <1>3 DEF P!Asked, P!Channel
    <2>4. /\ ChangeTypes' /\ MarksRight' /\ MustRight'
          /\ PlanRight' /\ HoldsRight' /\ Untouched'
      BY <1>0, <1>1, <2>1, <2>2, <2>3 DEF ChangeInv, ChangeTypes, Busy, MarksRight, MustRight,
                                          PlanRight, HoldsRight, Untouched, Successful
    <2>5. NothingUnasked' /\ AnswerTrue'
      BY <1>0, <2>1 DEF ChangeInv, NothingUnasked, AnswerTrue, P!NothingUnasked, P!AnswerTrue, P!At
    <2>. QED  BY <2>4, <2>5 DEF ChangeInv
  <1>. QED  BY <1>2, <1>3 DEF P!MarkPackages

LEMMA ChangeHolds ==
    ASSUME ChangeInv, P!PerformHolds PROVE ChangeInv'
  <1>0. /\ changer.at = "performing"
        /\ UNCHANGED <<message, known, installed, cache, marks, plan, changed, spoilt>>
        /\ OfItself(cache'.installed)
    BY DEF P!PerformHolds, P!At, ChangeInv, ChangeTypes
  <1>1. CASE P!Answer(P!ERROR_RESULT)
    BY <1>0, <1>1, ChangerAnswers, CodesDiffer, ChangeRefused DEF ChangeInv
  <1>2. CASE changer' = [changer EXCEPT !.at = "resolving"] /\ ~P!Answer(P!ERROR_RESULT)
    <2>1. changer' \in Changers /\ changer'.at = "resolving" /\ changer'.must = changer.must
      BY <1>2 DEF ChangeInv, ChangeTypes, Changers
    <2>2. P!Packages(message.hold) \ P!Packages(message.remove_hold) \subseteq held'
      BY <1>0, <1>2 DEF P!PerformHolds, P!Packages, ChangeInv, MarksRight, Busy
    <2>3. ChangeTypes' /\ MarksRight' /\ MustRight'
      BY <1>0, <2>1 DEF ChangeInv, ChangeTypes, Busy, MarksRight, MustRight, OfItself
    <2>4. PlanRight' /\ HoldsRight' /\ Untouched'
      BY <1>0, <2>1, <2>2 DEF ChangeInv, PlanRight, HoldsRight, Untouched, P!Packages
    <2>5. NothingUnasked' /\ AnswerTrue'
      BY <1>0, <2>1 DEF ChangeInv, NothingUnasked, AnswerTrue, P!NothingUnasked, P!AnswerTrue, P!At
    <2>. QED  BY <2>3, <2>4, <2>5 DEF ChangeInv
  <1>. QED  BY <1>1, <1>2 DEF P!PerformHolds

\* An answer of success: what it says is so, and the holds are set.
LEMMA ChangeSucceeds ==
    ASSUME ChangeInv, P!Answer(P!SUCCESS_RESULT), changer.at \in {"resolving", "committing"},
           UNCHANGED <<message, known, held, cache, spoilt>>,
           NothingUnasked', OfItself(installed'),
           \A v \in message.install :
             v \in {installed'[PackageOf[v]], cache.installed[PackageOf[v]]},
           \A v \in message.remove : installed'[PackageOf[v]] = v =>
             {v, cache.installed[PackageOf[v]]} \cap message.install # {},
           \/ "killed" \in spoilt
           \/ changed'.gone \cup changed'.new \subseteq message.install \cup message.remove
                                                           \cup changer.must
    PROVE  ChangeInv'
  <1>0. /\ changer' \in Changers /\ changer'.at = "answering" /\ changer'.code = P!SUCCESS_RESULT
        /\ changer'.must = changer.must
    BY ChangerAnswers DEF Codes, ChangeInv
  <1>1. ChangeTypes' /\ MarksRight' /\ MustRight' /\ PlanRight' /\ Untouched'
    BY <1>0 DEF ChangeInv, ChangeTypes, Busy, MarksRight, MustRight, PlanRight, Untouched,
                OfItself
  <1>2. HoldsRight'
    BY <1>0 DEF ChangeInv, HoldsRight, P!Packages
  <1>3. AnswerTrue'
    BY <1>0, <1>2 DEF AnswerTrue, P!AnswerTrue, P!At, HoldsRight, Successful, P!Packages,
                      P!SUCCESS_RESULT
  <1>. QED  BY <1>1, <1>2, <1>3 DEF ChangeInv

LEMMA ChangeNothing ==
    ASSUME ChangeInv, P!NoChanges PROVE ChangeInv'
  <1>0. /\ changer.at = "resolving" /\ P!Answer(P!SUCCESS_RESULT)
        /\ message.install = {} /\ message.remove = {}
        /\ UNCHANGED <<message, known, installed, held, cache, changed, spoilt>>
    BY DEF P!NoChanges, P!At, ChangeInv, MarksRight, Busy
  <1>1. NothingUnasked' /\ OfItself(installed')
    BY <1>0 DEF ChangeInv, ChangeTypes, NothingUnasked, P!NothingUnasked, OfItself
  <1>2. "killed" \in spoilt \/ changed'.gone \cup changed'.new = {}
    BY <1>0 DEF ChangeInv, Untouched
  <1>. QED  BY <1>0, <1>1, <1>2, ChangeSucceeds

\* What completes the changes is marked once, if the policy allows it.
LEMMA ChangeComplement ==
    ASSUME ChangeInv, NEW extra \in SUBSET Version, changer.at = "resolving",
           P!Complement(extra), extra \cap (marks.installs \cup marks.removals) = {},
           UNCHANGED <<message, known, installed, held, cache, changed, spoilt>>
    PROVE  ChangeInv'
  <1>. DEFINE must == changer.must \cup extra
  <1>0. changer \in Changers /\ marks \in Marks /\ OfItself(cache'.installed) /\ must \in SUBSET Version
    BY DEF ChangeInv, ChangeTypes, Busy, Changers
  <1>1. CASE P!UnknownPackageData
    BY <1>0, <1>1, ChangeUnknown
  <1>2. CASE changer' = [changer EXCEPT !.at = "answering", !.must = must,
                                        !.code = P!DEPENDENCY_ERROR_RESULT]
    <2>. HIDE DEF must
    <2>1. changer' \in Changers
      BY <1>0, <1>2, CodesDiffer DEF Changers
    <2>2. changer'.at = "answering" /\ changer'.code = P!DEPENDENCY_ERROR_RESULT
      BY <1>0, <1>2 DEF Changers
    <2>. QED  BY <1>0, <2>1, <2>2, CodesDiffer, ChangeRefused
  <1>3. CASE /\ P!may_complement_changes(must)
             /\ marks' = [marks EXCEPT
                  !.installs = @ \cup {v \in extra : cache.installed[PackageOf[v]] # v},
                  !.removals = @ \cup {v \in extra : cache.installed[PackageOf[v]] = v}]
             /\ changer' = [changer EXCEPT !.at = "performing", !.count = 2, !.must = must]
    <2>1. changer' \in Changers /\ changer'.at = "performing" /\ changer'.must = must
      <3>. HIDE DEF must
      <3>. QED  BY <1>0, <1>3 DEF Changers
    <2>2. marks' \in Marks
      BY <1>0, <1>3 DEF Marks
    <2>3. /\ marks'.installs = marks.installs \cup {v \in extra : cache.installed[PackageOf[v]] # v}
          /\ marks'.removals = marks.removals \cup {v \in extra : cache.installed[PackageOf[v]] = v}
          /\ marks'.holds = marks.holds /\ marks'.unholds = marks.unholds
      BY <1>0, <1>3 DEF Marks
    <2>4. ChangeTypes'
      BY <1>0, <2>1, <2>2 DEF ChangeInv, ChangeTypes, OfItself
    <2>5. MarksRight'
      BY <2>1, <2>3 DEF ChangeInv, MarksRight, Busy
    <2>6. MustRight'
      BY <1>3, <2>1 DEF ChangeInv, MarksRight, MustRight, Busy, P!may_complement_changes
    <2>7. PlanRight' /\ HoldsRight' /\ Untouched'
      BY <2>1 DEF ChangeInv, PlanRight, HoldsRight, Untouched, Successful
    <2>8. NothingUnasked' /\ AnswerTrue'
      BY <2>1 DEF ChangeInv, NothingUnasked, AnswerTrue, P!NothingUnasked, P!AnswerTrue, P!At
    <2>. QED  BY <2>4, <2>5, <2>6, <2>7, <2>8 DEF ChangeInv
  <1>. QED  BY <1>1, <1>2, <1>3 DEF P!Complement

\* What a plan makes of what is to be installed and to be removed.
LEMMA PlanDoes ==
    ASSUME ChangeInv, Busy, NEW t \in P!Plans
    PROVE  /\ OfItself(t)
           /\ \A v \in message.install : v \in {t[PackageOf[v]], cache.installed[PackageOf[v]]}
           /\ \A v \in message.remove : t[PackageOf[v]] = v =>
                {v, cache.installed[PackageOf[v]]} \cap message.install # {}
           /\ P!Changes(t) \subseteq Version
  <1>1. t \in Machines /\ OfItself(t) /\ OfItself(cache.installed)
    BY PackagesAssumption DEF P!Plans, OfItself, ChangeInv, ChangeTypes
  <1>2. \A v \in message.install : v \in {t[PackageOf[v]], cache.installed[PackageOf[v]]}
    BY DEF P!Plans, ChangeInv, MarksRight
  <1>3. ASSUME NEW v \in message.remove, t[PackageOf[v]] = v,
               {v, cache.installed[PackageOf[v]]} \cap message.install = {}
        PROVE  FALSE
    <2>0. v \in marks.removals /\ v \in Version
      BY DEF ChangeInv, MarksRight, ChangeTypes, Marks
    <2>1. PackageOf[v] \in P!Packages(marks.installs)
      <3>1. t[PackageOf[v]] # None
        BY <1>3, <2>0, PackagesAssumption
      <3>2. PackageOf[v] \in Package
        BY <2>0, PackagesAssumption
      <3>. QED  BY <2>0, <3>1, <3>2 DEF P!Plans, P!Packages
    <2>2. PICK u \in marks.installs : PackageOf[u] = PackageOf[v]
      BY <2>1 DEF P!Packages
    <2>3. CASE cache.installed[PackageOf[u]] = u
      BY <1>3, <2>2, <2>3 DEF ChangeInv, MarksRight
    <2>4. CASE cache.installed[PackageOf[u]] # u
      <3>1. u = v
        BY <1>3, <2>2, <2>4 DEF P!Plans
      <3>. QED  BY <1>3, <2>2, <3>1 DEF ChangeInv, MarksRight, MustRight
    <2>. QED  BY <2>3, <2>4
  <1>4. P!Changes(t) \subseteq Version
    BY DEF P!Changes
  <1>. QED  BY <1>1, <1>2, <1>3, <1>4

\* _check_changes lets a plan through if it does nothing but what is marked.
LEMMA ChangeResolve ==
    ASSUME ChangeInv, NEW t \in P!Plans, P!Resolve(t) PROVE ChangeInv'
  <1>. DEFINE marked == marks.installs \cup marks.removals
              extra == P!Changes(t) \ marked
  <1>0. /\ changer.at = "resolving" /\ ~P!HeldInTheWay
        /\ UNCHANGED <<message, known, installed, held, cache, changed, spoilt>>
        /\ Busy /\ changer \in Changers /\ installed = cache.installed /\ OfItself(cache.installed)
    BY DEF P!Resolve, P!At, ChangeInv, ChangeTypes, MarksRight, Busy
  <1>1. CASE extra # {} /\ P!Complement(extra)
    BY <1>0, <1>1, PlanDoes, ChangeComplement
  <1>2. CASE P!Changes(t) = {} /\ P!Answer(P!SUCCESS_RESULT)
    <2>0. OfItself(t)
      BY <1>0, PlanDoes
    <2>1. \A p \in Package \ Foreign : t[p] = cache.installed[p]
      BY <1>0, <1>2, <2>0 DEF P!Changes, OfItself
    <2>2. \A v \in message.install \cup message.remove :
            t[PackageOf[v]] = cache.installed[PackageOf[v]]
      <3>1. \A v \in message.install \cup message.remove : PackageOf[v] \in Package \ Foreign
        BY <1>0, PackagesAssumption DEF ChangeInv, ChangeTypes, MarksRight, Marks
      <3>. QED  BY <2>1, <3>1
    <2>3. NothingUnasked' /\ OfItself(installed')
      BY <1>0 DEF ChangeInv, NothingUnasked, P!NothingUnasked, OfItself
    <2>4. "killed" \in spoilt \/ changed'.gone \cup changed'.new = {}
      BY <1>0 DEF ChangeInv, Untouched
    <2>5. /\ \A v \in message.install :
               v \in {installed'[PackageOf[v]], cache.installed[PackageOf[v]]}
          /\ \A v \in message.remove : installed'[PackageOf[v]] = v =>
               {v, cache.installed[PackageOf[v]]} \cap message.install # {}
      BY <1>0, <2>2, PlanDoes
    <2>. QED  BY <1>0, <1>2, <2>3, <2>4, <2>5, ChangeSucceeds
  <1>3. CASE /\ extra = {} /\ plan' = t /\ changer' = [changer EXCEPT !.at = "committing"]
             /\ UNCHANGED marks
    <2>1. changer' \in Changers /\ changer'.at = "committing" /\ changer'.must = changer.must
      BY <1>0, <1>3 DEF Changers
    <2>2. ChangeTypes' /\ MarksRight' /\ MustRight'
      BY <1>0, <1>3, <2>1 DEF ChangeInv, ChangeTypes, Busy, MarksRight, MustRight, OfItself
    <2>3. PlanRight'
      BY <1>0, <1>3, <2>1 DEF PlanRight, P!Plans, P!HeldInTheWay, P!Changes, P!Packages
    <2>4. HoldsRight' /\ Untouched'
      BY <1>0, <2>1 DEF ChangeInv, HoldsRight, Untouched, P!Packages
    <2>5. NothingUnasked' /\ AnswerTrue'
      BY <1>0, <2>1 DEF ChangeInv, NothingUnasked, AnswerTrue, P!NothingUnasked, P!AnswerTrue, P!At
    <2>. QED  BY <2>2, <2>3, <2>4, <2>5 DEF ChangeInv
  <1>. QED  BY <1>1, <1>2, <1>3 DEF P!Resolve

\* dpkg gets as far as it gets: what it changes was marked, and is not more
\* than the policy allows.
LEMMA InstallRight ==
    ASSUME ChangeInv, changer.at = "committing", UNCHANGED <<message, cache>>,
           NEW after, OfItself(after), \A p \in Package : after[p] \in {installed[p], plan[p]},
           P!Install(after)
    PROVE  /\ installed' = after /\ NothingUnasked'
           /\ changed'.gone \cup changed'.new \subseteq
                changed.gone \cup changed.new \cup message.install \cup message.remove \cup changer.must
  <1>. DEFINE touched == {p \in Package \ Foreign : installed[p] # after[p]}
              gone == {installed[p] : p \in touched} \ {None}
              new == {after[p] : p \in touched} \ {None}
  <1>0. /\ Busy /\ installed = cache.installed /\ OfItself(installed) /\ ~P!HeldInTheWay
        /\ P!Changes(plan) \subseteq marks.installs \cup marks.removals
    BY DEF ChangeInv, ChangeTypes, MarksRight, PlanRight, Busy
  <1>1. /\ installed' = after /\ changed'.gone = changed.gone \cup gone
        /\ changed'.new = changed.new \cup new
        /\ changed'.held = changed.held \cup {v \in gone : PackageOf[v] \in cache.held}
    BY DEF P!Install
  <1>2. gone \cup new \subseteq P!Changes(plan)
    BY <1>0 DEF P!Changes, OfItself
  <1>3. \A v \in gone : cache.installed[PackageOf[v]] = v
    BY <1>0 DEF OfItself
  <1>. HIDE DEF gone, new
  <1>4. gone \cup new \subseteq message.install \cup message.remove \cup changer.must
    BY <1>0, <1>2 DEF ChangeInv, MarksRight
  <1>5. message.policy = "strict" => gone \cup new \subseteq message.install \cup message.remove
    BY <1>0, <1>4 DEF ChangeInv, MustRight
  <1>6. message.policy = "installs" => gone \subseteq message.install \cup message.remove
    BY <1>0, <1>3, <1>4 DEF ChangeInv, MustRight
  <1>7. \A v \in gone : PackageOf[v] \in cache.held => v \in message.install
    <2>. SUFFICES ASSUME NEW v \in gone, PackageOf[v] \in cache.held PROVE v \in message.install
      OBVIOUS
    <2>1. v \notin marks.removals
      BY <1>0 DEF P!HeldInTheWay, P!Packages
    <2>2. v \in marks.installs /\ cache.installed[PackageOf[v]] = v
      BY <1>0, <1>2, <1>3, <2>1
    <2>. QED  BY <1>0, <2>2 DEF ChangeInv, MarksRight
  <1>8. NothingUnasked'
    BY <1>1, <1>5, <1>6, <1>7 DEF ChangeInv, NothingUnasked, P!NothingUnasked
  <1>9. changed'.gone \cup changed'.new \subseteq
          changed.gone \cup changed.new \cup message.install \cup message.remove \cup changer.must
    BY <1>1, <1>4
  <1>. QED  BY <1>1, <1>8, <1>9

LEMMA ChangeCommit ==
    ASSUME ChangeInv, P!Commit PROVE ChangeInv'
  <1>0. /\ changer.at = "committing" /\ P!Install(plan) /\ P!Answer(P!SUCCESS_RESULT)
        /\ UNCHANGED <<message, known, held, cache, spoilt>>
        /\ Busy /\ plan \in P!Plans
    BY DEF P!Commit, P!At, ChangeInv, PlanRight, Busy
  <1>1. OfItself(plan)
    BY <1>0, PlanDoes
  <1>2. /\ installed' = plan /\ NothingUnasked'
        /\ changed'.gone \cup changed'.new \subseteq
             changed.gone \cup changed.new \cup message.install \cup message.remove \cup changer.must
    BY <1>0, <1>1, InstallRight
  <1>3. \/ "killed" \in spoilt
        \/ changed'.gone \cup changed'.new \subseteq message.install \cup message.remove
                                                        \cup changer.must
    BY <1>0, <1>2 DEF ChangeInv, Untouched
  <1>4. /\ \A v \in message.install :
             v \in {installed'[PackageOf[v]], cache.installed[PackageOf[v]]}
        /\ \A v \in message.remove : installed'[PackageOf[v]] = v =>
             {v, cache.installed[PackageOf[v]]} \cap message.install # {}
        /\ OfItself(installed')
    BY <1>0, <1>1, <1>2, PlanDoes
  <1>. QED  BY <1>0, <1>2, <1>3, <1>4, ChangeSucceeds

LEMMA HalfwayThere ==
    ASSUME ChangeInv, NEW after \in P!Halfway
    PROVE  OfItself(after) /\ \A p \in Package : after[p] \in {installed[p], plan[p]}
  BY PackagesAssumption DEF P!Halfway, OfItself

LEMMA ChangeCommitFails ==
    ASSUME ChangeInv, P!CommitLocked \/ P!CommitBreaks PROVE ChangeInv'
  <1>0. changer.at = "committing" /\ UNCHANGED <<message, known, cache>>
        /\ OfItself(cache'.installed)
    BY DEF P!CommitLocked, P!CommitBreaks, P!At, ChangeInv, ChangeTypes
  <1>1. CASE P!CommitLocked
    <2>1. UNCHANGED <<installed, held, marks, plan, changed, spoilt>>
      BY <1>1 DEF P!CommitLocked
    <2>2. CASE P!Answer(P!ERROR_RESULT)
      BY <1>0, <2>1, <2>2, ChangerAnswers, CodesDiffer, ChangeRefused DEF ChangeInv
    <2>3. CASE changer' = [changer EXCEPT !.tries = @ + 1]
      <3>1. changer' \in Changers /\ changer'.at = changer.at /\ changer'.must = changer.must
        BY <2>3 DEF Changers, ChangeInv, ChangeTypes
      <3>2. ChangeTypes' /\ MarksRight' /\ MustRight'
        BY <1>0, <2>1, <3>1 DEF ChangeInv, ChangeTypes, Busy, MarksRight, MustRight, OfItself
      <3>3. PlanRight'
        BY <1>0, <2>1, <3>1 DEF ChangeInv, PlanRight, P!Plans, P!HeldInTheWay, P!Changes, P!Packages
      <3>4. HoldsRight' /\ Untouched'
        BY <1>0, <2>1, <3>1 DEF ChangeInv, HoldsRight, Untouched, P!Packages
      <3>5. NothingUnasked' /\ AnswerTrue'
        BY <1>0, <2>1, <3>1
        DEF ChangeInv, NothingUnasked, AnswerTrue, P!NothingUnasked, P!AnswerTrue, P!At
      <3>. QED  BY <3>2, <3>3, <3>4, <3>5 DEF ChangeInv
    <2>. QED  BY <1>1, <2>2, <2>3 DEF P!CommitLocked
  <1>2. CASE P!CommitBreaks
    <2>0. P!Answer(P!ERROR_RESULT) /\ "dpkg" \in spoilt'
      BY <1>2 DEF P!CommitBreaks
    <2>1. PICK after \in P!Halfway : P!Install(after)
      BY <1>2 DEF P!CommitBreaks
    <2>2. NothingUnasked' /\ OfItself(installed')
      BY <1>0, <2>1, HalfwayThere, InstallRight
    <2>3. changer' \in Changers /\ changer'.at = "answering" /\ changer'.code # P!SUCCESS_RESULT
      BY <2>0, ChangerAnswers, CodesDiffer DEF ChangeInv
    <2>4. ChangeTypes' /\ MarksRight' /\ MustRight' /\ PlanRight' /\ HoldsRight' /\ Untouched'
      BY <1>0, <2>2, <2>3 DEF ChangeInv, ChangeTypes, Busy, MarksRight, MustRight, PlanRight,
                              HoldsRight, Untouched, Successful, P!SUCCESS_RESULT
    <2>5. AnswerTrue'
      BY <2>0, <2>3 DEF AnswerTrue, P!AnswerTrue, P!SUCCESS_RESULT
    <2>. QED  BY <2>2, <2>4, <2>5 DEF ChangeInv
  <1>. QED  BY <1>1, <1>2

LEMMA ChangeResolveFails ==
    ASSUME ChangeInv, NEW explained \in BOOLEAN, P!ResolveFails(explained) PROVE ChangeInv'
  <1>0. /\ changer.at = "resolving" /\ UNCHANGED <<message, known, installed, cache, changed>>
        /\ OfItself(installed') /\ OfItself(cache'.installed)
    BY DEF P!ResolveFails, P!At, ChangeInv, ChangeTypes, OfItself
  <1>1. CASE P!Answer(P!ERROR_RESULT) /\ UNCHANGED spoilt
    BY <1>0, <1>1, ChangerAnswers, CodesDiffer, ChangeRefused DEF ChangeInv
  <1>2. CASE P!Breaks("raised")
    <2>1. changer' = P!Waiting /\ spoilt \subseteq spoilt'
      BY <1>2 DEF P!Breaks
    <2>2. NothingUnasked' /\ ("killed" \notin spoilt' => changed'.gone \cup changed'.new = {})
      BY <1>0, <2>1 DEF ChangeInv, Untouched, NothingUnasked, P!NothingUnasked
    <2>. QED  BY <1>0, <2>1, <2>2, ChangeWaits
  <1>. QED  BY <1>1, <1>2 DEF P!ResolveFails

LEMMA ChangeFetchFails ==
    ASSUME ChangeInv, P!FetchFails PROVE ChangeInv'
  <1>0. /\ changer.at = "committing" /\ UNCHANGED <<message, known, installed, cache, changed>>
        /\ OfItself(installed') /\ OfItself(cache'.installed)
    BY DEF P!FetchFails, P!At, ChangeInv, ChangeTypes, OfItself
  <1>1. changer' = P!Waiting /\ spoilt \subseteq spoilt'
    BY DEF P!FetchFails, P!Breaks
  <1>2. NothingUnasked' /\ ("killed" \notin spoilt' => changed'.gone \cup changed'.new = {})
    BY <1>0, <1>1 DEF ChangeInv, Untouched, NothingUnasked, P!NothingUnasked
  <1>. QED  BY <1>0, <1>1, <1>2, ChangeWaits

LEMMA ChangeKilled ==
    ASSUME ChangeInv, P!Killed PROVE ChangeInv'
  <1>0. /\ changer' = P!Waiting /\ "killed" \in spoilt' /\ UNCHANGED <<message, known, cache>>
        /\ OfItself(cache'.installed)
    BY DEF P!Killed, P!Breaks, ChangeInv, ChangeTypes
  <1>1. NothingUnasked' /\ OfItself(installed')
    <2>1. CASE changer.at = "committing" /\ \E after \in P!Halfway : P!Install(after)
      <3>1. PICK after \in P!Halfway : P!Install(after)
        BY <2>1
      <3>. QED  BY <1>0, <2>1, <3>1, HalfwayThere, InstallRight
    <2>2. CASE UNCHANGED <<installed, changed>>
      BY <1>0, <2>2 DEF ChangeInv, ChangeTypes, NothingUnasked, P!NothingUnasked, OfItself
    <2>. QED  BY <2>1, <2>2 DEF P!Killed, P!At
  <1>. QED  BY <1>0, <1>1, ChangeWaits

LEMMA ChangeRespond ==
    ASSUME ChangeInv, P!Respond PROVE ChangeInv'
  <1>0. /\ UNCHANGED <<message, known, installed, cache, changed>>
        /\ changer' = [changer EXCEPT !.at = "over"]
    BY DEF P!Respond
  <1>1. changer' \in Changers /\ changer'.at = "over"
    BY <1>0 DEF Changers, ChangeInv, ChangeTypes
  <1>2. ChangeTypes' /\ MarksRight' /\ MustRight' /\ PlanRight' /\ HoldsRight' /\ Untouched'
    BY <1>0, <1>1 DEF ChangeInv, ChangeTypes, Busy, MarksRight, MustRight, PlanRight, HoldsRight,
                      Untouched, Successful, OfItself
  <1>3. NothingUnasked' /\ AnswerTrue'
    BY <1>0, <1>1 DEF ChangeInv, NothingUnasked, P!NothingUnasked, AnswerTrue, P!AnswerTrue, P!At
  <1>. QED  BY <1>2, <1>3 DEF ChangeInv

\* What goes on beside the changer: ids come, somebody sets or removes a hold.
LEMMA ChangeBeside ==
    ASSUME ChangeInv, UNCHANGED <<message, installed, cache, marks, changer, plan, changed>>,
           known' \subseteq Version,
           \/ UNCHANGED <<held, spoilt>>
           \/ spoilt' = spoilt \cup {"meddled"}
    PROVE  ChangeInv'
  <1>0. /\ "killed" \notin spoilt' => "killed" \notin spoilt
        /\ "dpkg" \notin spoilt' => "dpkg" \notin spoilt
        /\ "meddled" \in spoilt' \/ (UNCHANGED held /\ "meddled" \notin spoilt)
        /\ spoilt \subseteq spoilt'
    OBVIOUS
  <1>1. ChangeTypes' /\ MarksRight' /\ MustRight'
    BY DEF ChangeInv, ChangeTypes, Busy, MarksRight, MustRight, OfItself, Changers, Codes,
           P!SUCCESS_RESULT, P!ERROR_RESULT, P!DEPENDENCY_ERROR_RESULT, P!NoResult
  <1>2. PlanRight'
    BY DEF ChangeInv, PlanRight, P!Plans, P!HeldInTheWay, P!Changes, P!Packages
  <1>3. HoldsRight' /\ Untouched'
    BY <1>0 DEF ChangeInv, HoldsRight, Untouched, Successful, P!Packages, P!SUCCESS_RESULT
  <1>4. NothingUnasked'
    BY DEF ChangeInv, NothingUnasked, P!NothingUnasked
  <1>5. AnswerTrue'
    BY <1>0 DEF ChangeInv, AnswerTrue, P!AnswerTrue, P!At, P!Packages, P!SUCCESS_RESULT
  <1>. QED  BY <1>1, <1>2, <1>3, <1>4, <1>5 DEF ChangeInv

LEMMA ChangeNext == ChangeInv /\ [P!Next]_change_vars => ChangeInv'
  <1>. SUFFICES ASSUME ChangeInv, [P!Next]_change_vars PROVE ChangeInv'
    OBVIOUS
  <1>0. known \subseteq Version
    BY DEF ChangeInv, ChangeTypes
  <1>1. CASE P!Step
    <2>1. ASSUME NEW t \in P!Plans, P!Resolve(t) PROVE ChangeInv'
      BY <2>1, ChangeResolve
    <2>2. ASSUME NEW e \in BOOLEAN, P!ResolveFails(e) PROVE ChangeInv'
      BY <2>2, ChangeResolveFails
    <2>. QED  BY <1>1, <2>1, <2>2, ChangeMarks, ChangeHolds, ChangeNothing, ChangeCommit,
                 ChangeCommitFails, ChangeFetchFails, ChangeRespond DEF P!Step
  <1>2. CASE P!Killed
    BY <1>2, ChangeKilled
  <1>3. CASE P!Learn \/ P!GetOld
    BY <1>0, <1>3, ChangeBeside DEF P!Learn, P!GetOld
  <1>4. ASSUME NEW p \in Package, P!Meddle(p) PROVE ChangeInv'
    BY <1>0, <1>4, ChangeBeside DEF P!Meddle
  <1>5. CASE UNCHANGED change_vars
    BY <1>0, <1>5, ChangeBeside DEF change_vars
  <1>. QED  BY <1>1, <1>2, <1>3, <1>4, <1>5 DEF P!Next

LEMMA ChangeAlways == PartsSpec => []ChangeInv
  <1>1. PartsInit => ChangeInv
    <2>. SUFFICES ASSUME P!Init PROVE ChangeInv
      BY DEF PartsInit
    <2>0. changer = P!Waiting /\ changer \in Changers /\ changer.at = "waiting"
      BY Waits DEF P!Init
    <2>1. OfItself(installed) /\ cache.installed = installed /\ known \subseteq Version
      BY PackagesAssumption DEF P!Init, OfItself
    <2>2. changed.gone = {} /\ changed.new = {} /\ changed.held = {}
      BY DEF P!Init
    <2>3. ChangeTypes /\ MarksRight /\ MustRight /\ PlanRight /\ HoldsRight /\ Untouched
      BY <2>0, <2>1, <2>2 DEF ChangeTypes, Busy, MarksRight, MustRight, PlanRight, HoldsRight,
                              Untouched, Successful
    <2>4. NothingUnasked /\ AnswerTrue
      BY <2>0, <2>2 DEF NothingUnasked, P!NothingUnasked, AnswerTrue, P!AnswerTrue, P!At
    <2>. QED  BY <2>3, <2>4 DEF ChangeInv
  <1>2. ChangeInv /\ [PartsNext]_all_vars => ChangeInv'
    BY ChangeNext DEF PartsNext, all_vars, change_vars
  <1>. QED  BY <1>1, <1>2, PTL DEF PartsSpec

(***************************************************************************)
(* Nothing is installed, removed or taken off a hold that the message and  *)
(* its policy do not allow, for any packages, versions and requests, with  *)
(* any plan of APT, wherever dpkg breaks and the changer is killed.        *)
(***************************************************************************)
THEOREM NothingUnaskedAlways == PartsSpec => []NothingUnasked
  <1>1. ChangeInv => NothingUnasked
    BY DEF ChangeInv
  <1>. QED  BY <1>1, ChangeAlways, PTL

(***************************************************************************)
(* The answer of the package changer tells what became of the packages,    *)
(* for any packages, versions and requests.                                *)
(***************************************************************************)
THEOREM AnswerTrueAlways == PartsSpec => []AnswerTrue
  <1>1. ChangeInv => AnswerTrue
    BY DEF ChangeInv
  <1>. QED  BY <1>1, ChangeAlways, PTL
=============================================================================
