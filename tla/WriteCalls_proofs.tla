-------------------------- MODULE WriteCalls_proofs --------------------------
(***************************************************************************)
(* What holds of every call that is built by the rules of WriteSteps       *)
(* (Sound), whatever its steps, and for any number of re-sends, of changes *)
(* by others and of repeated calls.                                        *)
(*                                                                         *)
(* The inductive invariant follows the two ways a request can have an      *)
(* effect, at once and late.  OneCopy: a step that is sent once has at most *)
(* one copy for each call, still to be sent, on its way, or arrived; OneCall: *)
(* and what is not called idempotent is called once.  Behind: in a first *)
(* call only steps that were sent have copies.  Nothing: after a refusal   *)
(* there are none.  Progress: the writes that were passed without a note   *)
(* have taken effect.  Undoing: while a call takes back what it has        *)
(* written, only the write it undoes can still have a copy.                *)
(*                                                                         *)
(* The last two parts show that every step of a call takes it on, and that *)
(* a call implements WritePromise.                                         *)
(***************************************************************************)
EXTENDS WriteCalls, TLAPS

CallsSound == \A c \in Calls : Sound(c)

LEMMA CallsAreSound == CallsSound
BY CallsAssumption DEF CallsSound

Shape ==
    /\ phase # "ready" => verdict = "none" /\ Step.kind = "write"
    /\ phase = "soft" => Step.soft
    /\ rescuing <=> at > call.main

\* Step k of this call has not been sent, or is on its way.
Ahead(k) == verdict = "none" /\ (k > at \/ (k = at /\ phase \in {"ready", "sent"}))

OneCopy ==
    \A k \in 1..Len1 : ~call.steps[k].resent =>
        /\ did[k] <= calls
        /\ k \in late => did[k] + 1 <= calls
        /\ Ahead(k) => did[k] + 1 <= calls
        /\ k \in late /\ Ahead(k) => did[k] + 2 <= calls

OneCall == ~call.idempotent => calls = 1

Behind ==
    \A k \in 1..Len1 : did[k] > 0 \/ k \in late =>
        /\ IsWrite(call, k)
        /\ calls = 1 => k <= at /\ (k = at /\ verdict = "none" => phase # "ready")

Nothing ==
    verdict \in {"refused", "already"} /\ calls = 1 =>
        late = {} /\ \A k \in 1..Len1 : did[k] = 0

Progress ==
    /\ phase = "yes" => did[at] > 0
    /\ ~rescuing /\ ~noted /\ verdict = "none" =>
           \A k \in Promised : k < at => did[k] > 0
    /\ verdict = "done" => \A k \in Promised : did[k] > 0

ErrorsTold ==
    verdict = "error" /\ Step.kind = "write" =>
        /\ ~Step.tells /\ ~(at = call.main /\ call.main < Len1)
        /\ "error" \in {Step.else, Step.fails, Step.vague}

Inv == TypeOK /\ Shape /\ OneCopy /\ OneCall /\ Behind /\ Nothing /\ Progress /\ ErrorsTold

USE BoundsAssumption

-----------------------------------------------------------------------------
(* The shape of a call, and the moves of the client.                       *)

LEMMA StepTyped ==
    ASSUME CallsSound, call \in Calls, NEW k \in 1..Len1
    PROVE  /\ Sound(call) /\ Len1 \in Nat /\ call.main \in 1..Len1
           /\ call.steps[k] \in StepsOf(Facts)
<1>1. Sound(call)
  BY DEF CallsSound
<1>2. call.steps \in Seq(StepsOf(Facts)) /\ call.main \in 1..Len(call.steps)
  BY <1>1 DEF Sound, WellFormed, Facts
<1>. QED  BY <1>1, <1>2 DEF Len1

\* What can come of a step that has ended with an outcome.
Moved(o) ==
    /\ UNCHANGED <<call, calls>> /\ phase' = "ready" /\ noted' \in BOOLEAN
    /\ \/ /\ verdict' = "none" /\ at' = at + 1 /\ at' \in 1..Len1 /\ resends' = 0
          /\ rescuing' \in BOOLEAN /\ (rescuing' <=> at' > call.main)
          /\ ~rescuing' /\ ~noted' => o = "go on" /\ ~rescuing /\ ~noted
       \/ /\ verdict' \in Verdicts \ {"none"}
          /\ UNCHANGED <<at, rescuing, resends>>
          /\ verdict' = "done" =>
                o = "go on" /\ at = call.main /\ ~noted /\ ~rescuing
          /\ verdict' \in {"refused", "already"} => verdict' = o
          /\ verdict' = "error" =>
                o = "error" /\ ~Step.tells /\ ~(at = call.main /\ call.main < Len1)

LEMMA Moves ==
    ASSUME CallsSound, TypeOK, Shape, verdict = "none",
           NEW o \in Outcomes, Turn(o)
    PROVE  Moved(o)
<1>1. call.main \in 1..Len1 /\ Len1 \in Nat /\ at \in 1..Len1
  BY StepTyped DEF TypeOK
<1>a. ASSUME NEW note \in BOOLEAN, Advance(note), note <=> o # "go on"
      PROVE  Moved(o)
  <2>. /\ noted' = (noted \/ note) /\ noted' \in BOOLEAN /\ phase' = "ready"
       /\ UNCHANGED <<call, rescuing, calls>>
       /\ noted \in BOOLEAN /\ rescuing \in BOOLEAN /\ (rescuing <=> at > call.main)
    BY <1>a DEF Advance, TypeOK, Shape
  <2>1. CASE ~rescuing /\ at = call.main
    <3>1. verdict' = IF noted' THEN "noted" ELSE "done"
      BY <1>a, <2>1 DEF Advance
    <3>2. UNCHANGED <<at, resends>>
      BY <1>a, <3>1 DEF Advance
    <3>. QED  BY <1>a, <2>1, <3>1, <3>2 DEF Moved, Verdicts
  <2>2. CASE rescuing /\ at = Len1
    <3>1. verdict' = "undone"
      BY <1>a, <2>2 DEF Advance
    <3>2. UNCHANGED <<at, resends>>
      BY <1>a, <3>1 DEF Advance
    <3>. QED  BY <1>a, <2>2, <3>1, <3>2 DEF Moved, Verdicts
  <2>3. CASE ~(~rescuing /\ at = call.main) /\ ~(rescuing /\ at = Len1)
    <3>1. verdict' = "none"
      BY <1>a, <2>3 DEF Advance
    <3>2. at' = at + 1 /\ resends' = 0
      BY <1>a, <3>1 DEF Advance
    <3>3. at' \in 1..Len1 /\ (rescuing' <=> at' > call.main)
      BY <1>1, <2>3, <3>2
    <3>4. ~noted' => ~noted /\ o = "go on"
      BY <1>a
    <3>. QED  BY <3>1, <3>2, <3>3, <3>4 DEF Moved
  <2>. QED  BY <2>1, <2>2, <2>3
<1>2. CASE o = "go on"
  BY <1>a, <1>2 DEF Turn
<1>3. CASE o = "noted"
  BY <1>a, <1>3 DEF Turn
<1>4. CASE o = "error"
  <2>1. Fail
    BY <1>4 DEF Turn
  <2>2. CASE ~rescuing /\ at = call.main /\ call.main < Len1
    <3>1. /\ rescuing' = TRUE /\ at' = call.main + 1 /\ phase' = "ready"
          /\ resends' = 0 /\ UNCHANGED <<call, noted, verdict, calls>>
      BY <1>1, <2>1, <2>2 DEF Fail
    <3>2. noted' \in BOOLEAN /\ verdict' = "none"
      BY <3>1 DEF TypeOK
    <3>3. at' = at + 1 /\ at' \in 1..Len1 /\ at' > call.main
      BY <1>1, <2>2, <3>1
    <3>. QED  BY <3>1, <3>2, <3>3 DEF Moved
  <2>3. CASE rescuing \/ at # call.main \/ call.main = Len1
    BY <1>1, <1>4, <2>1, <2>3 DEF Fail, Answer, Moved, TypeOK, Shape, Verdicts
  <2>. QED  BY <1>1, <2>2, <2>3
<1>5. CASE o \in {"refused", "already", "told"}
  BY <1>1, <1>5 DEF Turn, Answer, Moved, TypeOK, Shape, Verdicts
<1>. QED  BY <1>2, <1>3, <1>4, <1>5 DEF Outcomes

\* The same, with the type of every variable the client moves.
LEMMA MovesTyped ==
    ASSUME CallsSound, TypeOK, NEW o, Moved(o)
    PROVE  /\ call' \in Calls /\ Len1' = Len1 /\ at' \in 1..Len1
           /\ phase' \in Phases /\ resends' \in 0..MaxResends
           /\ calls' \in 1..MaxCalls /\ rescuing' \in BOOLEAN
           /\ noted' \in BOOLEAN /\ verdict' \in Verdicts /\ Facts' = Facts
<1>. DEFINE first == verdict' = "none"
<1>1. UNCHANGED <<call, calls>> /\ phase' = "ready" /\ noted' \in BOOLEAN
  BY DEF Moved
<1>2. Len1' = Len1 /\ Facts' = Facts
  BY <1>1 DEF Len1, Facts
<1>3. /\ at' \in 1..Len1 /\ resends' \in 0..MaxResends
      /\ rescuing' \in BOOLEAN /\ verdict' \in Verdicts
  <2>1. CASE verdict' = "none"
    <3>1. at' \in 1..Len1 /\ resends' = 0 /\ rescuing' \in BOOLEAN
      BY <2>1 DEF Moved
    <3>. QED  BY <2>1, <3>1 DEF Verdicts
  <2>2. CASE verdict' # "none"
    BY <2>2 DEF Moved, TypeOK
  <2>. QED  BY <2>1, <2>2
<1>. QED  BY <1>1, <1>2, <1>3 DEF TypeOK, Phases

-----------------------------------------------------------------------------
(* The actions, reduced to what the invariants need of them.               *)

\* A step of a call that has ended, with an outcome the rules allow it.
LEMMA Outcome ==
    ASSUME CallsSound, TypeOK, Shape, ReadAnswered \/ ReadFails \/ Judge
    PROVE  \E o \in Outcomes :
             /\ Moved(o) /\ verdict = "none"
             /\ UNCHANGED <<world, late, foreign, did, harmed>>
             /\ changed' \subseteq changed
             /\ phase = "ready" => Step.kind = "read"
             /\ phase # "ready" => Step.kind = "write" /\ phase \in Answers
             /\ o \in {"refused", "already"} =>
                  \A k \in 1..at : ~IsWrite(call, k)
             /\ o = "go on" /\ Step.kind = "write" => phase = "yes"
             /\ o = "error" => o \in {Step.else, Step.fails, Step.vague}
<1>0. at \in 1..Len1
  BY DEF TypeOK
<1>1. /\ Sound(call) /\ Len1 \in Nat /\ Step \in StepsOf(Facts)
      /\ Len1 = Len(call.steps)
  <2>1. call \in Calls
    BY DEF TypeOK
  <2>2. Sound(call) /\ Len1 \in Nat /\ call.steps[at] \in StepsOf(Facts)
    BY <1>0, <2>1, StepTyped
  <2>. QED  BY <2>2 DEF Step, Len1
<1>2. /\ Step.fails \in Outcomes /\ Step.vague \in Outcomes
      /\ Step.else \in Outcomes \union {"other call"}
      /\ Step.kind \in {"read", "write"}
  BY <1>1 DEF StepsOf, Outcomes, Readings
<1>3. ASSUME NEW o \in {Step.else, Step.fails, Step.vague},
             o \in {"refused", "already"}
      PROVE  \A k \in 1..at : ~IsWrite(call, k)
  <2>1. SUFFICES ASSUME NEW k \in 1..at, IsWrite(call, k)
                 PROVE  FALSE
    OBVIOUS
  <2>2. k \in 1..Len(call.steps) /\ at \in 1..Len(call.steps) /\ k <= at
    BY <1>0, <1>1
  <2>3. {call.steps[at].else, call.steps[at].fails, call.steps[at].vague}
            \intersect {"refused", "already"} = {}
    BY <1>1, <2>1, <2>2 DEF Sound, RefusesFirst
  <2>. QED  BY <1>3, <2>3 DEF Step
<1>4. Step.kind = "write" =>
        /\ Step.soft => Step.checked
        /\ {Step.else, Step.fails, Step.vague} \intersect {"go on", "other call"} = {}
  BY <1>0, <1>1 DEF Sound, AnswersRead, IsWrite, Step
<1>5. CASE ReadAnswered
  <2>1. CASE Meets(Step, world)
    <3>1. Turn("go on")
      BY <1>5, <2>1 DEF ReadAnswered, Turn
    <3>2. Moved("go on")
      BY <1>5, <3>1, Moves DEF ReadAnswered, Outcomes
    <3>. QED  BY <1>5, <3>2 DEF ReadAnswered, Outcomes
  <2>2. CASE ~Meets(Step, world)
    <3>1. Step.else \in Outcomes /\ Turn(Step.else)
      BY <1>2, <1>5, <2>2 DEF ReadAnswered
    <3>2. Moved(Step.else)
      BY <1>5, <3>1, Moves DEF ReadAnswered
    <3>. QED  BY <1>3, <1>5, <3>1, <3>2 DEF ReadAnswered
  <2>. QED  BY <2>1, <2>2
<1>6. CASE ReadFails
  <2>1. Moved(Step.fails)
    BY <1>2, <1>6, Moves DEF ReadFails
  <2>. QED  BY <1>2, <1>3, <1>6, <2>1 DEF ReadFails
<1>7. CASE Judge
  <2>0. /\ phase \in Answers /\ phase # "ready" /\ verdict = "none"
        /\ Step.kind = "write"
        /\ UNCHANGED <<world, late, foreign, changed, did, harmed>>
    BY <1>7 DEF Judge, Answers, Shape
  <2>1. CASE phase = "yes"
    <3>1. Turn("go on")
      BY <1>7, <2>1 DEF Judge, Turn
    <3>2. Moved("go on")
      BY <2>0, <3>1, Moves DEF Outcomes
    <3>. QED  BY <2>0, <2>1, <3>2 DEF Outcomes
  <2>2. CASE phase # "yes"
    <3>1. PICK o \in {Step.else, Step.fails, Step.vague} : Turn(o)
      <4>1. CASE phase = "no"
        BY <1>7, <4>1 DEF Judge
      <4>2. CASE phase = "soft"
        <5>1. Step.checked
          BY <1>4, <2>0, <4>2 DEF Shape
        <5>. QED  BY <1>7, <4>2, <5>1 DEF Judge
      <4>3. CASE phase = "vague"
        BY <1>7, <4>3 DEF Judge
      <4>4. CASE phase = "unclear"
        BY <1>7, <4>4 DEF Judge
      <4>. QED  BY <2>0, <2>2, <4>1, <4>2, <4>3, <4>4 DEF Answers
    <3>2. o \in Outcomes /\ o # "go on"
      BY <1>2, <1>4, <2>0
    <3>3. Moved(o)
      BY <2>0, <3>1, <3>2, Moves
    <3>. QED  BY <1>3, <2>0, <3>2, <3>3
  <2>. QED  BY <2>1, <2>2
<1>. QED  BY <1>5, <1>6, <1>7
-----------------------------------------------------------------------------
(* The effect of one copy of a request.                                    *)

LEMMA Effects ==
    ASSUME CallsSound, TypeOK, NEW k \in 1..Len1, TakesEffect(k)
    PROVE  /\ world' \subseteq Facts /\ did' \in [1..Len1 -> 0..MaxCalls + 1]
           /\ did'[k] > 0 /\ did'[k] <= did[k] + 1 /\ harmed' \subseteq Facts
           /\ harmed' = harmed \union ((call.steps[k].spares \intersect world) \ changed)
           /\ \A j \in 1..Len1 : j # k => did'[j] = did[j]
           /\ \A j \in 1..Len1 : did[j] > 0 => did'[j] > 0
<1>1. call \in Calls /\ world \subseteq Facts /\ did \in [1..Len1 -> 0..MaxCalls + 1]
  BY DEF TypeOK
<1>2. call.steps[k] \in StepsOf(Facts)
  BY <1>1, StepTyped
<1>3. world' \subseteq Facts
  BY <1>1, <1>2 DEF TakesEffect, After, StepsOf
<1>4. did' = [did EXCEPT ![k] = IF did[k] > MaxCalls THEN did[k] ELSE did[k] + 1]
  BY DEF TakesEffect, Count
<1>5. harmed' = harmed \union ((call.steps[k].spares \intersect world) \ changed)
  BY DEF TakesEffect
<1>6. harmed' \subseteq Facts
  BY <1>1, <1>5 DEF TypeOK
<1>. QED  BY <1>1, <1>3, <1>4, <1>5, <1>6

LEMMA InitInv == ASSUME CallsSound, Init PROVE Inv
<1>1. call \in Calls /\ Len1 \in Nat /\ call.main \in 1..Len1 /\ Len1 = Len(call.steps)
  BY DEF Init, CallsSound, Sound, WellFormed, Len1
<1>2. /\ at = 1 /\ phase = "ready" /\ rescuing = FALSE /\ verdict = "none" /\ noted = FALSE
      /\ calls = 1
  BY DEF Init
<1>3. did = [k \in 1..Len1 |-> 0] /\ late = {}
  BY <1>1 DEF Init
<1>4. TypeOK
  <2>1. resends = 0 /\ calls = 1 /\ world \subseteq Facts /\ foreign = 0
        /\ changed = {} /\ harmed = {}
    BY DEF Init, Facts
  <2>2. 0 \in 0..MaxResends /\ 1 \in 1..MaxCalls /\ 0 \in 0..MaxForeign /\ 1 \in 1..Len1
    BY <1>1
  <2>3. did \in [1..Len1 -> 0..MaxCalls + 1]
    BY <1>3
  <2>. QED  BY <1>1, <1>2, <1>3, <2>1, <2>2, <2>3 DEF TypeOK, Phases, Verdicts
<1>. QED  BY <1>1, <1>2, <1>3, <1>4
          DEF Inv, Shape, OneCopy, OneCall, Behind, Nothing, Progress, ErrorsTold,
              Promised, Main, Writes

LEMMA TypeStep == ASSUME CallsSound, TypeOK, Shape, [Next]_vars PROVE TypeOK' /\ Shape'
<1>0. /\ at \in 1..Len1 /\ call \in Calls /\ Len1 \in Nat /\ call.main \in 1..Len1
      /\ Step \in StepsOf(Facts)
  BY StepTyped DEF TypeOK, Step
<1>1. CASE ReadAnswered \/ ReadFails \/ Judge
  <2>1. PICK o \in Outcomes :
            Moved(o) /\ UNCHANGED <<world, late, foreign, did, harmed>>
            /\ changed' \subseteq changed
    BY <1>1, Outcome
  <2>2. UNCHANGED call /\ Len1' = Len1 /\ Facts' = Facts
    BY <2>1 DEF Moved, Len1, Facts
  <2>3. TypeOK'
    BY <2>1, <2>2, MovesTyped DEF TypeOK
  <2>4. phase' = "ready" /\ (rescuing' <=> at' > call.main)
    <3>1. CASE verdict' = "none"
      BY <2>1, <3>1 DEF Moved
    <3>2. CASE verdict' # "none"
      <4>1. UNCHANGED <<at, rescuing>> /\ phase' = "ready"
        BY <2>1, <3>2 DEF Moved
      <4>. QED  BY <4>1 DEF Shape
    <3>. QED  BY <3>1, <3>2
  <2>5. Shape'
    BY <2>2, <2>4 DEF Shape
  <2>. QED  BY <2>3, <2>5
<1>2. CASE ArgumentsRefused
  BY <1>2 DEF ArgumentsRefused, Answer, TypeOK, Shape, Verdicts, Len1, Facts, Step
<1>3. CASE Send
  BY <1>3 DEF Send, TypeOK, Shape, Phases, Len1, Facts, Step
<1>4. CASE Arrives
  <2>1. /\ UNCHANGED <<call, at, resends, rescuing, noted, verdict, calls,
                       late, foreign, changed>>
        /\ Len1' = Len1 /\ Facts' = Facts /\ Step' = Step
    BY <1>4 DEF Arrives, Len1, Facts, Step
  <2>2. phase' \in {"yes", "unclear", "vague"} /\ phase # "ready"
    BY <1>4 DEF Arrives
  <2>3. world' \subseteq Facts /\ did' \in [1..Len1 -> 0..MaxCalls + 1]
    BY <1>0, <1>4, Effects DEF Arrives
  <2>4. harmed' \subseteq Facts
    BY <1>0, <1>4, Effects DEF Arrives
  <2>. QED  BY <2>1, <2>2, <2>3, <2>4 DEF TypeOK, Shape, Phases, Answers
<1>5. CASE TurnedDown
  <2>1. phase' \in {"no", "soft", "vague"} /\ phase # "ready"
        /\ (phase' = "soft" => Step.soft)
    BY <1>5 DEF TurnedDown
  <2>. QED  BY <1>5, <2>1
            DEF TurnedDown, TypeOK, Shape, Phases, Answers, Len1, Facts, Step
<1>6. CASE NotAnswered
  <2>1. late' \subseteq 1..Len1
    BY <1>0, <1>6 DEF NotAnswered, TypeOK
  <2>. QED  BY <1>6, <2>1
            DEF NotAnswered, TypeOK, Shape, Phases, Answers, Len1, Facts, Step
<1>7. CASE Resend
  BY <1>7 DEF Resend, TypeOK, Shape, Phases, Answers, Len1, Facts, Step
<1>8. CASE LateArrives
  <2>1. PICK k \in late :
            /\ late' = late \ {k} /\ (TakesEffect(k) \/ UNCHANGED <<world, did, harmed>>)
            /\ UNCHANGED <<clientVars, foreign, changed>>
    BY <1>8 DEF LateArrives
  <2>2. k \in 1..Len1
    BY DEF TypeOK
  <2>3. world' \subseteq Facts /\ did' \in [1..Len1 -> 0..MaxCalls + 1] /\ harmed' \subseteq Facts
    BY <2>1, <2>2, Effects DEF TypeOK
  <2>4. UNCHANGED clientVars /\ Len1' = Len1 /\ Facts' = Facts /\ Step' = Step
    BY <2>1 DEF clientVars, Len1, Facts, Step
  <2>5. late' \subseteq 1..Len1
    BY <2>1 DEF TypeOK
  <2>. QED  BY <2>1, <2>3, <2>4, <2>5 DEF TypeOK, Shape, clientVars
<1>9. CASE Others
  <2>1. UNCHANGED <<clientVars, late, did, harmed>> /\ foreign' \in 0..MaxForeign
    <3>1. /\ foreign' = foreign + 1 /\ foreign < MaxForeign
          /\ UNCHANGED <<clientVars, late, did, harmed>>
      BY <1>9 DEF Others
    <3>2. foreign \in 0..MaxForeign
      BY DEF TypeOK
    <3>. QED  BY <3>1, <3>2
  <2>2. Len1' = Len1 /\ Facts' = Facts /\ Step' = Step
    BY <2>1 DEF clientVars, Len1, Facts, Step
  <2>3. world' \subseteq Facts /\ changed' \subseteq Facts
    BY <1>9 DEF Others, TypeOK
  <2>. QED  BY <2>1, <2>2, <2>3 DEF TypeOK, Shape, clientVars
<1>10. CASE CallAgain
  <2>1. /\ UNCHANGED <<call, world, late, foreign, changed, did, harmed>>
        /\ at' = 1 /\ phase' = "ready" /\ resends' = 0 /\ rescuing' = FALSE
        /\ noted' = FALSE /\ verdict' = "none"
    BY <1>10 DEF CallAgain
  <2>2. calls' \in 1..MaxCalls
    BY <1>10 DEF CallAgain, TypeOK
  <2>3. Len1' = Len1 /\ Facts' = Facts
    BY <2>1 DEF Len1, Facts
  <2>4. 1 \in 1..Len1 /\ 0 \in 0..MaxResends /\ ~(1 > call.main)
    BY <1>0
  <2>. QED  BY <2>1, <2>2, <2>3, <2>4 DEF TypeOK, Shape, Phases, Verdicts
<1>11. CASE UNCHANGED vars
  BY <1>11 DEF vars, TypeOK, Shape, Len1, Facts, Step
<1>. QED  BY <1>1, <1>2, <1>3, <1>4, <1>5, <1>6, <1>7, <1>8, <1>9, <1>10, <1>11
          DEF Next, CallSteps
-----------------------------------------------------------------------------
(* The invariants about copies.                                            *)

\* The client's moves leave late and did alone and never look back.
LEMMA ForwardOnce ==
    ASSUME CallsSound, TypeOK, OneCopy, UNCHANGED <<call, calls, late, did>>,
           \A k \in 1..Len1 : Ahead(k)' => Ahead(k)
    PROVE  OneCopy'
BY DEF OneCopy, Len1

LEMMA OnceStep ==
    ASSUME CallsSound, TypeOK, Shape, OneCopy, [Next]_vars PROVE OneCopy'
<1>0. /\ at \in 1..Len1 /\ call \in Calls /\ Len1 \in Nat /\ call.main \in 1..Len1
      /\ did \in [1..Len1 -> 0..MaxCalls + 1] /\ late \subseteq 1..Len1 /\ calls \in Nat
  BY StepTyped DEF TypeOK
<1>n. \A k \in 1..Len1 : did[k] \in Nat
  BY <1>0
<1>1. CASE ReadAnswered \/ ReadFails \/ Judge
  <2>1. PICK o \in Outcomes :
            Moved(o) /\ verdict = "none" /\ UNCHANGED <<world, late, foreign, did, harmed>>
    BY <1>1, Outcome
  <2>2. UNCHANGED <<call, calls>>
    BY <2>1 DEF Moved
  <2>3. ASSUME NEW k \in 1..Len1, Ahead(k)' PROVE Ahead(k)
    <3>1. verdict' = "none"
      BY <2>3 DEF Ahead
    <3>2. at' = at + 1
      BY <2>1, <3>1 DEF Moved
    <3>. QED  BY <1>0, <2>1, <2>3, <3>2 DEF Ahead
  <2>. QED  BY <2>1, <2>2, <2>3, ForwardOnce
<1>2. CASE ArgumentsRefused
  <2>1. verdict' = "refused" /\ UNCHANGED <<call, calls, late, did>>
    BY <1>2 DEF ArgumentsRefused, Answer
  <2>2. \A k \in 1..Len1 : ~Ahead(k)'
    BY <2>1 DEF Ahead
  <2>. QED  BY <2>1, <2>2, ForwardOnce
<1>3. CASE Send \/ TurnedDown
  <2>1. UNCHANGED <<call, calls, late, did, at, verdict>>
    BY <1>3 DEF Send, TurnedDown
  <2>2. phase' \in {"ready", "sent"} => phase \in {"ready", "sent"}
    BY <1>3 DEF Send, TurnedDown
  <2>. QED  BY <2>1, <2>2, ForwardOnce DEF Ahead
<1>4. CASE Arrives
  <2>1. /\ UNCHANGED <<call, calls, at, verdict, late>> /\ phase = "sent"
        /\ phase' \notin {"ready", "sent"} /\ TakesEffect(at)
    BY <1>4 DEF Arrives
  <2>2. Ahead(at) /\ ~Ahead(at)'
    BY <1>0, <2>1 DEF Ahead, Shape
  <2>3. \A k \in 1..Len1 : Ahead(k)' => Ahead(k)
    BY <2>1 DEF Ahead
  <2>4. ASSUME NEW k \in 1..Len1, ~call.steps[k].resent
        PROVE  /\ did'[k] <= calls
               /\ k \in late => did'[k] + 1 <= calls
               /\ Ahead(k)' => did'[k] + 1 <= calls
               /\ k \in late /\ Ahead(k)' => did'[k] + 2 <= calls
    <3>0. did'[k] \in Nat
      BY <1>0, <2>1, Effects
    <3>1. CASE k = at
      <4>1. did[k] + 1 <= calls /\ (k \in late => did[k] + 2 <= calls)
        BY <2>2, <2>4, <3>1 DEF OneCopy
      <4>2. did'[k] <= did[k] + 1
        BY <1>0, <2>1, <3>1, Effects
      <4>3. ~Ahead(k)'
        BY <2>1, <2>2, <3>1
      <4>. QED  BY <1>0, <1>n, <3>0, <4>1, <4>2, <4>3
    <3>2. CASE k # at
      <4>1. did'[k] = did[k]
        BY <1>0, <2>1, <3>2, Effects
      <4>. QED  BY <2>3, <2>4, <4>1 DEF OneCopy
    <3>. QED  BY <3>1, <3>2
  <2>. QED  BY <2>1, <2>4 DEF OneCopy, Len1
<1>5. CASE NotAnswered
  <2>1. /\ UNCHANGED <<call, calls, at, verdict, did>> /\ phase = "sent" /\ phase' = "unclear"
        /\ late' \subseteq late \union {at}
    BY <1>5 DEF NotAnswered
  <2>2. Ahead(at) /\ ~Ahead(at)' /\ \A k \in 1..Len1 : Ahead(k)' => Ahead(k)
    BY <1>0, <2>1 DEF Ahead, Shape
  <2>3. ASSUME NEW k \in 1..Len1, ~call.steps[k].resent
        PROVE  /\ did[k] <= calls
               /\ k \in late' => did[k] + 1 <= calls
               /\ Ahead(k)' => did[k] + 1 <= calls
               /\ k \in late' /\ Ahead(k)' => did[k] + 2 <= calls
    <3>1. CASE k = at
      <4>1. ~Ahead(k)'
        BY <2>1, <2>2, <3>1
      <4>. QED  BY <2>2, <2>3, <3>1, <4>1 DEF OneCopy
    <3>2. CASE k # at
      BY <2>1, <2>2, <2>3, <3>2 DEF OneCopy
    <3>. QED  BY <3>1, <3>2
  <2>. QED  BY <2>1, <2>3 DEF OneCopy, Len1
<1>6. CASE Resend
  <2>1. /\ UNCHANGED <<call, calls, at, verdict, late, did>> /\ Step.resent
        /\ phase' = "sent"
    BY <1>6 DEF Resend
  <2>2. \A k \in 1..Len1 : k # at => (Ahead(k)' => Ahead(k))
    BY <2>1 DEF Ahead
  <2>. QED  BY <2>1, <2>2 DEF OneCopy, Len1, Step
<1>7. CASE LateArrives
  <2>1. PICK k \in late :
            /\ late' = late \ {k} /\ (TakesEffect(k) \/ UNCHANGED <<world, did, harmed>>)
            /\ UNCHANGED clientVars
    BY <1>7 DEF LateArrives
  <2>2. UNCHANGED <<call, calls>> /\ \A j \in 1..Len1 : Ahead(j)' => Ahead(j)
    BY <2>1 DEF clientVars, Ahead
  <2>3. ASSUME NEW j \in 1..Len1, ~call.steps[j].resent
        PROVE  /\ did'[j] <= calls
               /\ j \in late' => did'[j] + 1 <= calls
               /\ Ahead(j)' => did'[j] + 1 <= calls
               /\ j \in late' /\ Ahead(j)' => did'[j] + 2 <= calls
    <3>1. CASE did'[j] = did[j]
      BY <2>1, <2>2, <2>3, <3>1 DEF OneCopy
    <3>2. CASE did'[j] # did[j]
      <4>1. TakesEffect(k) /\ j = k
        BY <1>0, <2>1, <3>2, Effects
      <4>2. did[j] + 1 <= calls /\ (Ahead(j) => did[j] + 2 <= calls)
        BY <2>3, <4>1 DEF OneCopy
      <4>3. did'[j] \in Nat /\ did'[j] <= did[j] + 1
        BY <1>0, <4>1, Effects
      <4>4. did'[j] <= calls /\ (Ahead(j) => did'[j] + 1 <= calls)
        BY <1>0, <1>n, <4>2, <4>3
      <4>. QED  BY <2>1, <2>2, <4>1, <4>4
    <3>. QED  BY <3>1, <3>2
  <2>. QED  BY <2>2, <2>3 DEF OneCopy, Len1
<1>8. CASE Others
  <2>1. UNCHANGED <<call, calls, at, phase, verdict, late, did>>
    BY <1>8 DEF Others, clientVars
  <2>. QED  BY <2>1, ForwardOnce DEF Ahead
<1>9. CASE CallAgain
  <2>1. UNCHANGED <<call, late, did>> /\ calls' = calls + 1 /\ verdict # "none"
    BY <1>9 DEF CallAgain
  <2>2. \A k \in 1..Len1 : ~Ahead(k)
    BY <2>1 DEF Ahead
  <2>3. ASSUME NEW k \in 1..Len1, ~call.steps[k].resent
        PROVE  did[k] + 1 <= calls + 1 /\ (k \in late => did[k] + 2 <= calls + 1)
    <3>1. did[k] <= calls /\ (k \in late => did[k] + 1 <= calls)
      BY <2>3 DEF OneCopy
    <3>. QED  BY <1>0, <1>n, <3>1
  <2>4. \A k \in 1..Len1 : did[k] + 1 <= calls + 1 => did[k] <= calls + 1
    BY <1>0, <1>n
  <2>. QED  BY <2>1, <2>3, <2>4 DEF OneCopy, Len1
<1>10. CASE UNCHANGED vars
  BY <1>10, ForwardOnce DEF vars, Ahead
<1>. QED  BY <1>1, <1>2, <1>3, <1>4, <1>5, <1>6, <1>7, <1>8, <1>9, <1>10
          DEF Next, CallSteps

LEMMA OneCallStep ==
    ASSUME CallsSound, TypeOK, Shape, OneCall, [Next]_vars PROVE OneCall'
<1>1. CASE ReadAnswered \/ ReadFails \/ Judge
  BY <1>1, Outcome DEF Moved, OneCall
<1>2. CASE ~(ReadAnswered \/ ReadFails \/ Judge)
  BY <1>2 DEF Next, CallSteps, ArgumentsRefused, Answer, Send, Arrives, TurnedDown, NotAnswered,
              Resend, LateArrives, Others, CallAgain, clientVars, vars, OneCall
<1>. QED  BY <1>1, <1>2

LEMMA BehindStep ==
    ASSUME CallsSound, TypeOK, Shape, Behind, [Next]_vars PROVE Behind'
<1>0. /\ at \in 1..Len1 /\ call \in Calls /\ Len1 \in Nat
      /\ did \in [1..Len1 -> 0..MaxCalls + 1] /\ late \subseteq 1..Len1 /\ calls \in 1..MaxCalls
  BY StepTyped DEF TypeOK
<1>1. CASE ReadAnswered \/ ReadFails \/ Judge
  <2>1. PICK o \in Outcomes :
            Moved(o) /\ verdict = "none" /\ UNCHANGED <<world, late, foreign, did, harmed>>
    BY <1>1, Outcome
  <2>2. UNCHANGED <<call, calls>> /\ phase' = "ready" /\ Len1' = Len1
    BY <2>1 DEF Moved, Len1
  <2>3. (verdict' = "none" /\ at' = at + 1) \/ (verdict' # "none" /\ at' = at)
    BY <2>1 DEF Moved
  <2>. QED  BY <1>0, <2>1, <2>2, <2>3 DEF Behind, IsWrite
<1>2. CASE ArgumentsRefused
  BY <1>2 DEF ArgumentsRefused, Answer, Behind, IsWrite, Len1
<1>3. CASE Send \/ TurnedDown \/ Resend
  <2>1. UNCHANGED <<call, late, did, at, verdict, calls>> /\ phase' # "ready"
    BY <1>3 DEF Send, TurnedDown, Resend
  <2>. QED  BY <2>1 DEF Behind, IsWrite, Len1
<1>4. CASE Arrives
  <2>1. /\ UNCHANGED <<call, at, verdict, late, calls>> /\ phase = "sent"
        /\ phase' # "ready" /\ TakesEffect(at)
    BY <1>4 DEF Arrives
  <2>2. IsWrite(call, at)
    BY <2>1 DEF Shape, IsWrite, Step
  <2>3. \A k \in 1..Len1 : k # at => did'[k] = did[k]
    BY <1>0, <2>1, Effects
  <2>. QED  BY <1>0, <2>1, <2>2, <2>3 DEF Behind, IsWrite, Len1
<1>5. CASE NotAnswered
  <2>1. /\ UNCHANGED <<call, at, verdict, did, calls>> /\ phase = "sent"
        /\ phase' # "ready" /\ late' \subseteq late \union {at}
    BY <1>5 DEF NotAnswered
  <2>2. IsWrite(call, at)
    BY <2>1 DEF Shape, IsWrite, Step
  <2>. QED  BY <1>0, <2>1, <2>2 DEF Behind, IsWrite, Len1
<1>7. CASE LateArrives
  <2>1. PICK k \in late :
            /\ late' = late \ {k} /\ (TakesEffect(k) \/ UNCHANGED <<world, did, harmed>>)
            /\ UNCHANGED clientVars
    BY <1>7 DEF LateArrives
  <2>2. UNCHANGED <<call, at, phase, verdict, calls>>
    BY <2>1 DEF clientVars
  <2>3. \A j \in 1..Len1 : j # k => did'[j] = did[j]
    BY <1>0, <2>1, Effects
  <2>. QED  BY <1>0, <2>1, <2>2, <2>3 DEF Behind, IsWrite, Len1
<1>8. CASE Others
  BY <1>8 DEF Others, clientVars, Behind, IsWrite, Len1
<1>9. CASE CallAgain
  <2>1. UNCHANGED <<call, late, did>> /\ calls' = calls + 1
    BY <1>9 DEF CallAgain
  <2>. QED  BY <1>0, <2>1 DEF Behind, IsWrite, Len1
<1>10. CASE UNCHANGED vars
  BY <1>10 DEF vars, Behind, IsWrite, Len1
<1>. QED  BY <1>1, <1>2, <1>3, <1>4, <1>5, <1>7, <1>8, <1>9, <1>10
          DEF Next, CallSteps

LEMMA NothingStep ==
    ASSUME CallsSound, TypeOK, Shape, Behind, Nothing, [Next]_vars PROVE Nothing'
<1>0. /\ at \in 1..Len1 /\ call \in Calls /\ Len1 \in Nat
      /\ did \in [1..Len1 -> 0..MaxCalls + 1] /\ late \subseteq 1..Len1 /\ calls \in 1..MaxCalls
  BY StepTyped DEF TypeOK
<1>1. CASE ReadAnswered \/ ReadFails \/ Judge
  <2>1. PICK o \in Outcomes :
            /\ Moved(o) /\ UNCHANGED <<world, late, foreign, did, harmed>>
            /\ o \in {"refused", "already"} => \A k \in 1..at : ~IsWrite(call, k)
    BY <1>1, Outcome
  <2>2. /\ UNCHANGED <<call, calls>> /\ Len1' = Len1
        /\ verdict' \in {"refused", "already"} => verdict' = o
    BY <2>1 DEF Moved, Len1
  <2>3. SUFFICES ASSUME verdict' \in {"refused", "already"}, calls = 1
                 PROVE  late = {} /\ \A k \in 1..Len1 : did[k] = 0
    BY <2>1, <2>2 DEF Nothing
  <2>4. ASSUME NEW k \in 1..Len1 PROVE ~(did[k] > 0 \/ k \in late)
    <3>1. did[k] > 0 \/ k \in late => IsWrite(call, k) /\ k <= at
      BY <2>3 DEF Behind
    <3>2. k <= at => ~IsWrite(call, k)
      BY <1>0, <2>1, <2>2, <2>3
    <3>. QED  BY <3>1, <3>2
  <2>. QED  BY <1>0, <2>4
<1>2. CASE ArgumentsRefused
  <2>1. /\ UNCHANGED <<call, calls, late, did>> /\ Len1' = Len1
        /\ verdict = "none" /\ at = 1 /\ phase = "ready"
    BY <1>2 DEF ArgumentsRefused, Answer, Len1
  <2>2. ASSUME NEW k \in 1..Len1, calls = 1 PROVE ~(did[k] > 0 \/ k \in late)
    BY <1>0, <2>1, <2>2 DEF Behind
  <2>. QED  BY <1>0, <2>1, <2>2 DEF Nothing
<1>3. CASE Send \/ TurnedDown \/ Resend
  BY <1>3 DEF Send, TurnedDown, Resend, Nothing, Len1
<1>4. CASE Arrives \/ NotAnswered
  <2>1. UNCHANGED verdict /\ phase # "ready"
    BY <1>4 DEF Arrives, NotAnswered
  <2>2. verdict = "none"
    BY <2>1 DEF Shape
  <2>. QED  BY <2>1, <2>2 DEF Nothing
<1>7. CASE LateArrives
  <2>1. late # {} /\ UNCHANGED <<verdict, calls>>
    BY <1>7 DEF LateArrives, clientVars
  <2>. QED  BY <2>1 DEF Nothing
<1>8. CASE Others
  BY <1>8 DEF Others, clientVars, Nothing, Len1
<1>9. CASE CallAgain
  BY <1>9 DEF CallAgain, Nothing
<1>10. CASE UNCHANGED vars
  BY <1>10 DEF vars, Nothing, Len1
<1>. QED  BY <1>1, <1>2, <1>3, <1>4, <1>7, <1>8, <1>9, <1>10 DEF Next, CallSteps
-----------------------------------------------------------------------------
(* The invariants about what was passed and what is said.                  *)

LEMMA ProgressStep ==
    ASSUME CallsSound, TypeOK, Shape, Progress, [Next]_vars PROVE Progress'
<1>0. /\ at \in 1..Len1 /\ call \in Calls /\ Len1 \in Nat /\ call.main \in 1..Len1
      /\ did \in [1..Len1 -> 0..MaxCalls + 1] /\ late \subseteq 1..Len1
  BY StepTyped DEF TypeOK
<1>. DEFINE P == {k \in 1..call.main : k \in 1..Len1 /\ IsWrite(call, k)}
<1>p. Promised = P /\ (UNCHANGED call => Promised' = Promised)
  BY DEF Promised, Main, Writes, IsWrite, Len1
<1>1. CASE ReadAnswered \/ ReadFails \/ Judge
  <2>1. PICK o \in Outcomes :
            /\ Moved(o) /\ verdict = "none" /\ UNCHANGED <<world, late, foreign, did, harmed>>
            /\ phase = "ready" => Step.kind = "read"
            /\ o = "go on" /\ Step.kind = "write" => phase = "yes"
    BY <1>1, Outcome
  <2>2. UNCHANGED <<call, did>> /\ phase' = "ready" /\ Promised' = Promised
    BY <1>p, <2>1 DEF Moved
  <2>3. ASSUME o = "go on", ~rescuing, ~noted, NEW k \in P, k <= at PROVE did[k] > 0
    <3>1. CASE k < at
      BY <1>p, <2>1, <2>3, <3>1 DEF Progress
    <3>2. CASE k = at
      BY <2>1, <2>3, <3>2 DEF Progress, IsWrite, Step
    <3>3. k < at \/ k = at
      <4>1. k \in 1..Len1 /\ k \in Int /\ at \in Int
        BY <1>0
      <4>2. k <= at
        BY <2>3
      <4>. QED  BY <4>1, <4>2
    <3>. QED  BY <3>1, <3>2, <3>3
  <2>4. CASE verdict' = "none"
    <3>1. at' = at + 1 /\ (~rescuing' /\ ~noted' => o = "go on" /\ ~rescuing /\ ~noted)
      BY <2>1, <2>4 DEF Moved
    <3>2. \A k \in P : k < at + 1 => k <= at
      BY <1>0
    <3>3. ~rescuing' /\ ~noted' => \A k \in P : k < at' => did[k] > 0
      BY <2>3, <3>1, <3>2
    <3>. QED  BY <1>p, <2>2, <2>4, <3>3 DEF Progress
  <2>5. CASE verdict' # "none"
    <3>1. verdict' = "done" => o = "go on" /\ at = call.main /\ ~noted /\ ~rescuing
      BY <2>1, <2>5 DEF Moved
    <3>2. \A k \in P : k <= call.main
      BY <1>0
    <3>. QED  BY <1>p, <2>2, <2>3, <2>5, <3>1, <3>2 DEF Progress
  <2>. QED  BY <2>4, <2>5
<1>2. CASE ArgumentsRefused
  <2>1. verdict' = "refused" /\ phase' = "ready"
    BY <1>2 DEF ArgumentsRefused, Answer
  <2>. QED  BY <2>1 DEF Progress
<1>3. CASE Send \/ TurnedDown \/ Resend \/ NotAnswered
  <2>1. UNCHANGED <<call, did, at, rescuing, noted, verdict>> /\ phase' # "yes"
    BY <1>3 DEF Send, TurnedDown, Resend, NotAnswered
  <2>. QED  BY <1>p, <2>1 DEF Progress
<1>4. CASE Arrives
  <2>1. UNCHANGED <<call, at, rescuing, noted, verdict>> /\ TakesEffect(at)
    BY <1>4 DEF Arrives
  <2>2. did'[at] > 0 /\ \A j \in 1..Len1 : did[j] > 0 => did'[j] > 0
    BY <1>0, <2>1, Effects
  <2>. QED  BY <1>p, <2>1, <2>2 DEF Progress
<1>7. CASE LateArrives
  <2>1. PICK k \in late : (TakesEffect(k) \/ UNCHANGED <<world, did, harmed>>)
                          /\ UNCHANGED clientVars
    BY <1>7 DEF LateArrives
  <2>2. UNCHANGED <<call, at, phase, rescuing, noted, verdict>>
    BY <2>1 DEF clientVars
  <2>3. \A j \in 1..Len1 : did[j] > 0 => did'[j] > 0
    BY <1>0, <2>1, Effects
  <2>. QED  BY <1>0, <1>p, <2>2, <2>3 DEF Progress
<1>8. CASE Others
  BY <1>8, <1>p DEF Others, clientVars, Progress
<1>9. CASE CallAgain
  <2>1. at' = 1 /\ phase' = "ready" /\ verdict' = "none" /\ UNCHANGED call
    BY <1>9 DEF CallAgain
  <2>2. \A k \in P : ~(k < 1)
    BY <1>0
  <2>. QED  BY <1>p, <2>1, <2>2 DEF Progress
<1>10. CASE UNCHANGED vars
  BY <1>10, <1>p DEF vars, Progress
<1>. QED  BY <1>1, <1>2, <1>3, <1>4, <1>7, <1>8, <1>9, <1>10 DEF Next, CallSteps

LEMMA ErrorsStep ==
    ASSUME CallsSound, TypeOK, Shape, ErrorsTold, [Next]_vars PROVE ErrorsTold'
<1>1. CASE ReadAnswered \/ ReadFails \/ Judge
  <2>1. PICK o \in Outcomes :
            /\ Moved(o)
            /\ o = "error" => o \in {Step.else, Step.fails, Step.vague}
    BY <1>1, Outcome
  <2>2. UNCHANGED call /\ Len1' = Len1
    BY <2>1 DEF Moved, Len1
  <2>3. SUFFICES ASSUME verdict' = "error" PROVE ErrorsTold'
    BY DEF ErrorsTold
  <2>4. at' = at /\ o = "error" /\ ~Step.tells /\ ~(at = call.main /\ call.main < Len1)
    BY <2>1, <2>3 DEF Moved
  <2>. QED  BY <2>1, <2>2, <2>4 DEF ErrorsTold, Step
<1>2. CASE ArgumentsRefused \/ CallAgain
  BY <1>2 DEF ArgumentsRefused, Answer, CallAgain, ErrorsTold
<1>3. CASE Send \/ Arrives \/ TurnedDown \/ Resend \/ NotAnswered
  <2>1. UNCHANGED <<call, at, verdict>>
    BY <1>3 DEF Send, Arrives, TurnedDown, Resend, NotAnswered
  <2>. QED  BY <2>1 DEF ErrorsTold, Step, Len1
<1>4. CASE LateArrives \/ Others \/ UNCHANGED vars
  <2>1. UNCHANGED <<call, at, verdict>>
    BY <1>4 DEF LateArrives, Others, vars, clientVars
  <2>. QED  BY <2>1 DEF ErrorsTold, Step, Len1
<1>. QED  BY <1>1, <1>2, <1>3, <1>4 DEF Next, CallSteps

LEMMA InvStep == ASSUME CallsSound, Inv, [Next]_vars PROVE Inv'
BY TypeStep, OnceStep, OneCallStep, BehindStep, NothingStep, ProgressStep, ErrorsStep DEF Inv

\* Every call built by the rules of WriteSteps keeps the invariant: the types,
\* and what is known of copies, of refusals, of progress and of errors.
THEOREM Invariance == Spec => []Inv
<1>1. Init => Inv
  BY CallsAreSound, InitInv
<1>2. Inv /\ [Next]_vars => Inv'
  BY CallsAreSound, InvStep
<1>. QED  BY <1>1, <1>2, PTL DEF Spec

\* The variables of the call keep their types; the call itself never changes.
THEOREM TypeCorrect == Spec => []TypeOK
<1>1. Inv => TypeOK
  BY DEF Inv
<1>. QED  BY <1>1, Invariance, PTL

\* A step that adds a job, a note or a record takes effect at most once,
\* whatever is lost, repeated or late (client.py: POST is sent once); one that queues
\* a job, at most once for each call.
THEOREM AddedAtMostOnce == Spec => []NothingTwice
<1>1. ASSUME Inv PROVE NothingTwice
  <2>1. SUFFICES ASSUME NEW k \in 1..Len1
                 PROVE  /\ call.steps[k].adds => did[k] <= 1
                        /\ call.steps[k].queues => did[k] <= calls
    BY DEF NothingTwice
  <2>2. Sound(call) /\ k \in 1..Len(call.steps)
    BY <1>1, CallsAreSound, StepTyped DEF Inv, TypeOK, Len1
  <2>3. /\ call.steps[k].adds => ~call.steps[k].resent /\ ~call.idempotent
        /\ call.steps[k].queues => ~call.steps[k].resent
    BY <2>2 DEF Sound, AddsOnce
  <2>. QED  BY <1>1, <2>3 DEF Inv, OneCopy, OneCall
<1>. QED  BY <1>1, Invariance, PTL

\* The error of a write that does not name the writes made before it is the
\* error of the first one that had an effect.
THEOREM PartsAreTold == Spec => []PartIsTold
<1>1. ASSUME Inv PROVE PartIsTold
  <2>1. SUFFICES ASSUME verdict = "error", Step.kind = "write", calls = 1,
                        NEW k \in Main, k < at
                 PROVE  did[k] = 0
    BY DEF PartIsTold
  <2>2. /\ at \in 1..Len1 /\ call \in Calls /\ did \in [1..Len1 -> 0..MaxCalls + 1]
    BY <1>1 DEF Inv, TypeOK
  <2>3. Sound(call) /\ Len1 \in Nat /\ call.main \in 1..Len1
    BY <2>2, CallsAreSound, StepTyped
  <2>4. k \in 1..Len1 /\ k <= call.main /\ at \in 1..Len(call.steps)
        /\ k \in 1..Len(call.steps)
    BY <2>2, <2>3 DEF Main, Len1
  <2>5. /\ ~Step.tells /\ ~(at = call.main /\ call.main < Len1)
        /\ "error" \in {Step.else, Step.fails, Step.vague}
    BY <1>1, <2>1 DEF Inv, ErrorsTold
  <2>6. ~IsWrite(call, k)
    <3>1. SUFFICES ASSUME IsWrite(call, k) PROVE FALSE
      OBVIOUS
    <3>2. IsWrite(call, at)
      BY <2>1 DEF IsWrite, Step
    <3>3. \/ call.steps[at].tells \/ (at = call.main /\ call.main < Len(call.steps))
          \/ "error" \notin {call.steps[at].else, call.steps[at].fails, call.steps[at].vague}
      BY <2>1, <2>3, <2>4, <3>1, <3>2 DEF Sound, PartsTold
    <3>. QED  BY <2>5, <3>3 DEF Step, Len1
  <2>7. ~(did[k] > 0)
    BY <1>1, <2>4, <2>6 DEF Inv, Behind
  <2>. QED  BY <2>2, <2>4, <2>7
<1>. QED  BY <1>1, Invariance, PTL

-----------------------------------------------------------------------------
(* What a write has to spare.  Between the read that stops the call where   *)
(* it finds such a fact and the arrival of the write, the fact is not there *)
(* or others have brought it (Guarded), and so it is as long as a copy of   *)
(* the write is on its way (LateSpared); the one write that makes such a    *)
(* fact itself has one copy.                                                *)

\* Write k is to arrive yet, and the read of step j has been made.
Between(j, k) ==
    /\ verdict = "none" /\ j < at /\ at <= k
    /\ at = k => phase \in {"ready", "sent"} \/ call.steps[k].resent

Guarded ==
    \A k \in 1..Len1 : \A f \in call.steps[k].spares : \A j \in 1..k - 1 :
        StopsAt(call, j, f) /\ Between(j, k) => f \notin world \/ f \in changed

LateSpared ==
    \A k \in late : \A f \in call.steps[k].spares : f \notin world \/ f \in changed

Spared == Guarded /\ LateSpared /\ NoHarm

\* An outcome other than going on ends the call, or starts the way back.
LEMMA Stopped ==
    ASSUME CallsSound, TypeOK, verdict = "none",
           NEW o \in Outcomes \ {"go on", "noted"}, Turn(o), verdict' = "none"
    PROVE  at = call.main
<1>1. CASE o = "error"
  <2>1. Fail
    BY <1>1 DEF Turn
  <2>. QED  BY <2>1 DEF Fail, Answer
<1>2. CASE o # "error"
  BY <1>2 DEF Turn, Answer, Outcomes
<1>. QED  BY <1>1, <1>2

\* A read passes on from a fact it stops at only where it has not found it.
LEMMA ReadPast ==
    ASSUME CallsSound, TypeOK, ReadAnswered \/ ReadFails, verdict' = "none",
           NEW f, StopsAt(call, at, f)
    PROVE  ReadAnswered /\ f \notin world
<1>1. /\ Step.kind = "read" /\ at < call.main /\ f \in Step.off
      /\ Step.else \notin {"go on", "noted"} /\ Step.fails \notin {"go on", "noted"}
  BY DEF StopsAt, Step
<1>2. at \in 1..Len1 /\ call \in Calls
  BY DEF TypeOK
<1>3. call.steps[at] \in StepsOf(Facts) /\ Len1 \in Nat /\ call.main \in 1..Len1
  BY <1>2, StepTyped
<1>4. Step.fails \in Outcomes /\ Step.else \in Outcomes \union {"other call"}
  BY <1>3 DEF StepsOf, Step
<1>5. at # call.main
  <2>1. at \in Int /\ call.main \in Int
    BY <1>2, <1>3
  <2>2. at < call.main
    BY <1>1
  <2>. QED  BY <2>1, <2>2
<1>6. ~ReadFails
  <2>1. SUFFICES ASSUME ReadFails PROVE FALSE
    OBVIOUS
  <2>2. Turn(Step.fails) /\ verdict = "none"
    BY <2>1 DEF ReadFails
  <2>. QED  BY <1>1, <1>4, <1>5, <2>2, Stopped
<1>7. Meets(Step, world)
  <2>1. SUFFICES ASSUME ~Meets(Step, world) PROVE FALSE
    OBVIOUS
  <2>2. Turn(Step.else) /\ verdict = "none" /\ Step.else \in Outcomes
    BY <1>4, <1>6, <2>1 DEF ReadAnswered
  <2>. QED  BY <1>1, <1>5, <2>2, Stopped
<1>. QED  BY <1>1, <1>6, <1>7 DEF Meets

LEMMA SparedInit == ASSUME CallsSound, Init PROVE Spared
<1>1. calls = 1 /\ at = 1 /\ phase = "ready" /\ harmed = {}
  BY DEF Init
<1>2. call \in Calls /\ call.steps # <<>> /\ Len1 \in Nat
  BY StepTyped DEF Init, CallsSound, Sound, WellFormed, Len1
<1>3. \A k \in 1..Len1 : \A j \in 1..k - 1 : ~(j < 1)
  BY <1>2
<1>4. late = {}
  BY DEF Init
<1>. QED  BY <1>1, <1>3, <1>4 DEF Spared, Guarded, LateSpared, Between, NoHarm

\* What the guards of a call come to, at its steps.
LEMMA GuardRules ==
    ASSUME CallsSound, TypeOK, NEW k \in 1..Len1, NEW f \in call.steps[k].spares
    PROVE  /\ \E j \in 1..k - 1 : StopsAt(call, j, f)
           /\ \A i \in 1..Len1 : f \in call.steps[i].gives =>
                 i = k /\ ~call.steps[k].resent /\ ~call.idempotent
<1>1. Sound(call) /\ k \in 1..Len(call.steps)
  BY StepTyped DEF TypeOK, Len1
<1>. QED  BY <1>1 DEF Sound, SparesGuarded, Len1

\* The copy of a write that makes what must not be there is the only one.
LEMMA OneMaker ==
    ASSUME CallsSound, Inv, NEW k \in 1..Len1, NEW f \in call.steps[k].spares,
           NEW i \in 1..Len1, f \in call.steps[i].gives
    PROVE  i = k /\ ~(k \in late /\ Ahead(k))
<1>1. i = k /\ ~call.steps[k].resent /\ ~call.idempotent
  BY GuardRules DEF Inv
<1>2. calls = 1 /\ did[k] \in Nat
  BY <1>1 DEF Inv, OneCall, TypeOK
<1>3. k \in late /\ Ahead(k) => did[k] + 2 <= calls
  BY <1>1 DEF Inv, OneCopy
<1>. QED  BY <1>1, <1>2, <1>3

LEMMA GuardedStep ==
    ASSUME CallsSound, Inv, Guarded, [Next]_vars PROVE Guarded'
<1>0. /\ at \in 1..Len1 /\ call \in Calls /\ Len1 \in Nat /\ late \subseteq 1..Len1
      /\ TypeOK /\ Shape
  BY StepTyped DEF Inv, TypeOK
<1>a. call' = call
  <2>1. CASE ReadAnswered \/ ReadFails \/ Judge
    BY <1>0, <2>1, Outcome DEF Moved
  <2>2. CASE ~(ReadAnswered \/ ReadFails \/ Judge)
    BY <2>2 DEF Next, CallSteps, ArgumentsRefused, Answer, Send, Arrives,
                TurnedDown, NotAnswered, Resend, LateArrives, Others, CallAgain,
                vars, clientVars
  <2>. QED  BY <2>1, <2>2
<1>b. SUFFICES ASSUME NEW k \in 1..Len1, NEW f \in call.steps[k].spares,
                      NEW j \in 1..k - 1, StopsAt(call, j, f),
                      verdict' = "none", j < at', at' <= k,
                      at' = k => phase' \in {"ready", "sent"} \/ call.steps[k].resent
               PROVE  f \notin world' \/ f \in changed'
  BY <1>a DEF Guarded, Between, Len1
<1>c. j \in Int /\ k \in Int /\ at \in Int /\ 1 <= j /\ j < k
  BY <1>0
<1>d. call.steps[j].kind = "read"
  BY <1>b DEF StopsAt
<1>1. CASE ReadAnswered \/ ReadFails
  <2>1. at' = at + 1 /\ verdict = "none" /\ phase = "ready" /\ world' = world
    BY <1>0, <1>1, <1>b, Outcome DEF Moved, ReadAnswered, ReadFails
  <2>2. j <= at /\ at < k /\ at \in 1..k - 1
    BY <1>0, <1>b, <1>c, <2>1
  <2>3. CASE StopsAt(call, at, f)
    BY <1>0, <1>1, <1>b, <2>1, <2>3, ReadPast
  <2>4. CASE ~StopsAt(call, at, f)
    <3>1. j < at
      BY <1>b, <1>c, <2>2, <2>4
    <3>2. f \notin world \/ f \in changed
      BY <1>b, <1>c, <2>1, <2>2, <3>1 DEF Guarded, Between
    <3>3. f \in world => f \in changed'
      <4>1. CASE ReadFails
        BY <3>2, <4>1 DEF ReadFails
      <4>2. CASE ReadAnswered
        BY <3>2, <4>2 DEF ReadAnswered
      <4>. QED  BY <1>1, <4>1, <4>2
    <3>. QED  BY <2>1, <3>2, <3>3
  <2>. QED  BY <2>3, <2>4
<1>2. CASE Judge
  <2>1. at' = at + 1 /\ verdict = "none" /\ phase \in Answers
        /\ UNCHANGED <<world, changed>>
    BY <1>0, <1>2, <1>b, Outcome DEF Moved, Judge
  <2>2. Step.kind = "write"
    BY <1>0, <2>1 DEF Answers, Shape
  <2>3. j < at /\ at < k
    BY <1>b, <1>c, <1>d, <2>1, <2>2 DEF Step
  <2>. QED  BY <1>b, <1>c, <2>1, <2>3 DEF Guarded, Between
<1>3. CASE ArgumentsRefused
  BY <1>3, <1>b DEF ArgumentsRefused, Answer
<1>4. CASE Send \/ TurnedDown \/ NotAnswered \/ Resend
  <2>1. UNCHANGED <<at, verdict, world, changed>>
    BY <1>4 DEF Send, TurnedDown, NotAnswered, Resend
  <2>2. phase \in {"ready", "sent"} \/ Step.resent
    BY <1>4 DEF Send, TurnedDown, NotAnswered, Resend
  <2>. QED  BY <1>b, <2>1, <2>2 DEF Guarded, Between, Step
<1>5. CASE Arrives
  <2>1. UNCHANGED <<at, verdict, changed>> /\ phase = "sent" /\ TakesEffect(at)
        /\ phase' \notin {"ready", "sent"}
    BY <1>5 DEF Arrives
  <2>2. f \notin world \/ f \in changed
    BY <1>b, <2>1 DEF Guarded, Between
  <2>3. f \notin call.steps[at].gives
    BY <1>0, <1>b, <2>1, GuardRules
  <2>. QED  BY <2>1, <2>2, <2>3 DEF TakesEffect, After
<1>6. CASE LateArrives
  <2>1. PICK i \in late : (TakesEffect(i) \/ UNCHANGED <<world, did, harmed>>)
                          /\ UNCHANGED <<clientVars, foreign, changed>>
    BY <1>6 DEF LateArrives
  <2>2. UNCHANGED <<at, verdict, phase, calls>> /\ changed' = changed
    BY <2>1 DEF clientVars
  <2>3. f \notin world \/ f \in changed
    BY <1>b, <2>2 DEF Guarded, Between
  <2>4. CASE UNCHANGED <<world, did>>
    BY <2>2, <2>3, <2>4
  <2>5. CASE TakesEffect(i)
    <3>1. f \notin call.steps[i].gives
      <4>1. SUFFICES ASSUME f \in call.steps[i].gives PROVE FALSE
        OBVIOUS
      <4>2. i \in 1..Len1
        BY <1>0
      <4>3. i = k /\ ~Ahead(k) /\ ~call.steps[k].resent
        BY <1>0, <2>1, <4>1, <4>2, OneMaker, GuardRules
      <4>. QED  BY <1>b, <1>c, <2>2, <4>3 DEF Ahead
    <3>. QED  BY <2>2, <2>3, <2>5, <3>1 DEF TakesEffect, After
  <2>. QED  BY <2>1, <2>4, <2>5
<1>7. CASE Others
  <2>1. PICK g \in Facts :
            /\ world' = IF g \in world THEN world \ {g} ELSE world \union {g}
            /\ changed' = changed \union {g}
    BY <1>7 DEF Others
  <2>2. UNCHANGED <<at, verdict, phase>>
    BY <1>7 DEF Others, clientVars
  <2>3. f \notin world \/ f \in changed
    BY <1>b, <2>2 DEF Guarded, Between
  <2>. QED  BY <2>1, <2>3
<1>8. CASE CallAgain
  <2>1. at' = 1
    BY <1>8 DEF CallAgain
  <2>. QED  BY <1>b, <1>c, <2>1
<1>9. CASE UNCHANGED vars
  BY <1>9, <1>b DEF vars, Guarded, Between
<1>. QED  BY <1>1, <1>2, <1>3, <1>4, <1>5, <1>6, <1>7, <1>8, <1>9
          DEF Next, CallSteps

\* At the arrival of a write the facts it has to spare are not there, or others have
\* brought them.
LEMMA GuardHolds ==
    ASSUME CallsSound, Inv, Guarded, phase = "sent", NEW f \in call.steps[at].spares
    PROVE  f \notin world \/ f \in changed
<1>1. at \in 1..Len1 /\ Len1 \in Nat /\ TypeOK /\ verdict = "none"
  BY StepTyped DEF Inv, TypeOK, Shape
<1>2. PICK j \in 1..at - 1 : StopsAt(call, j, f)
  BY <1>1, GuardRules
<1>3. j < at
  BY <1>1
<1>. QED  BY <1>1, <1>2, <1>3 DEF Guarded, Between

LEMMA LateStep ==
    ASSUME CallsSound, Inv, Guarded, LateSpared, [Next]_vars PROVE LateSpared'
<1>0. TypeOK /\ Shape /\ at \in 1..Len1 /\ late \subseteq 1..Len1 /\ call \in Calls
  BY DEF Inv, TypeOK
<1>1. CASE ReadAnswered \/ ReadFails \/ Judge
  <2>1. UNCHANGED <<call, late, world>>
    BY <1>0, <1>1, Outcome DEF Moved
  <2>2. changed \intersect world \subseteq changed'
    BY <1>1 DEF ReadAnswered, ReadFails, Judge
  <2>. QED  BY <2>1, <2>2 DEF LateSpared
<1>2. CASE Arrives
  <2>1. UNCHANGED <<call, late, changed>> /\ phase = "sent" /\ TakesEffect(at)
    BY <1>2 DEF Arrives
  <2>2. Ahead(at)
    BY <1>0, <2>1 DEF Ahead, Shape
  <2>3. ASSUME NEW k \in late, NEW f \in call.steps[k].spares
        PROVE  f \notin world' \/ f \in changed
    <3>1. f \notin call.steps[at].gives
      BY <1>0, <2>2, OneMaker
    <3>2. f \notin world \/ f \in changed
      BY DEF LateSpared
    <3>. QED  BY <2>1, <3>1, <3>2 DEF TakesEffect, After
  <2>. QED  BY <2>1, <2>3 DEF LateSpared
<1>3. CASE NotAnswered
  <2>1. UNCHANGED <<call, changed, world>> /\ phase = "sent" /\ late' \subseteq late \union {at}
    BY <1>3 DEF NotAnswered
  <2>. QED  BY <2>1, GuardHolds DEF LateSpared
<1>4. CASE LateArrives
  <2>1. PICK i \in late :
            /\ late' = late \ {i} /\ (TakesEffect(i) \/ UNCHANGED <<world, did, harmed>>)
            /\ UNCHANGED <<call, changed>>
    BY <1>4 DEF LateArrives, clientVars
  <2>2. ASSUME NEW k \in late, k # i, NEW f \in call.steps[k].spares
        PROVE  f \notin world' \/ f \in changed
    <3>1. f \notin call.steps[i].gives
      BY <1>0, <2>2, OneMaker
    <3>2. f \notin world \/ f \in changed
      BY DEF LateSpared
    <3>. QED  BY <2>1, <3>1, <3>2 DEF TakesEffect, After
  <2>. QED  BY <2>1, <2>2 DEF LateSpared
<1>5. CASE Others
  <2>1. PICK g \in Facts :
            /\ world' = IF g \in world THEN world \ {g} ELSE world \union {g}
            /\ changed' = changed \union {g}
    BY <1>5 DEF Others
  <2>2. UNCHANGED <<call, late>>
    BY <1>5 DEF Others, clientVars
  <2>. QED  BY <2>1, <2>2 DEF LateSpared
<1>6. CASE ArgumentsRefused \/ Send \/ TurnedDown \/ Resend \/ CallAgain \/ UNCHANGED vars
  <2>1. UNCHANGED <<call, late, changed, world>>
    BY <1>6 DEF ArgumentsRefused, Answer, Send, TurnedDown, Resend, CallAgain, vars
  <2>. QED  BY <2>1 DEF LateSpared
<1>. QED  BY <1>1, <1>2, <1>3, <1>4, <1>5, <1>6 DEF Next, CallSteps

LEMMA HarmStep ==
    ASSUME CallsSound, Inv, Guarded, LateSpared, NoHarm, [Next]_vars PROVE NoHarm'
<1>0. TypeOK /\ Shape /\ at \in 1..Len1 /\ late \subseteq 1..Len1
  BY DEF Inv, TypeOK
<1>1. ASSUME NEW k \in 1..Len1, TakesEffect(k),
             \A f \in call.steps[k].spares : f \notin world \/ f \in changed
      PROVE  NoHarm'
  <2>1. harmed' = harmed \union ((call.steps[k].spares \intersect world) \ changed)
    BY <1>1 DEF TakesEffect
  <2>. QED  BY <1>1, <2>1 DEF NoHarm
<1>2. CASE Arrives
  <2>1. TakesEffect(at) /\ phase = "sent"
    BY <1>2 DEF Arrives
  <2>2. \A f \in call.steps[at].spares : f \notin world \/ f \in changed
    BY <2>1, GuardHolds
  <2>. QED  BY <1>0, <1>1, <2>1, <2>2
<1>3. CASE LateArrives
  <2>1. PICK k \in late : TakesEffect(k) \/ UNCHANGED <<world, did, harmed>>
    BY <1>3 DEF LateArrives
  <2>2. CASE TakesEffect(k)
    BY <1>0, <1>1, <2>2 DEF LateSpared
  <2>3. CASE UNCHANGED harmed
    BY <2>3 DEF NoHarm
  <2>. QED  BY <2>1, <2>2, <2>3
<1>4. CASE ReadAnswered \/ ReadFails \/ Judge
  BY <1>0, <1>4, Outcome DEF NoHarm
<1>5. CASE ~Arrives /\ ~LateArrives /\ ~(ReadAnswered \/ ReadFails \/ Judge)
  BY <1>5 DEF Next, CallSteps, ArgumentsRefused, Send, TurnedDown, NotAnswered,
              Resend, Others, CallAgain, vars, NoHarm
<1>. QED  BY <1>2, <1>3, <1>4, <1>5

\* What a tool promises to spare it does not hit, unless others bring it after
\* the read that looked for it, whatever is lost, late or repeated: neither at once nor
\* with a copy that arrives late.
THEOREM GuardedIsSpared == Spec => []NoHarm
<1>1. Init => Spared
  BY CallsAreSound, SparedInit
<1>2. Inv /\ Spared /\ [Next]_vars => Spared'
  BY CallsAreSound, GuardedStep, LateStep, HarmStep DEF Spared
<1>3. Spared => NoHarm
  BY DEF Spared
<1>. QED  BY <1>1, <1>2, <1>3, Invariance, PTL DEF Spec

-----------------------------------------------------------------------------
(* The way back.  While it is taken no copy of an earlier write is left, and *)
(* once it has taken effect a late copy of the write that failed asks for   *)
(* what is gone.                                                            *)

Back == call.steps[Len1]
HasWayBack == call.main < Len1

Settled ==
    \A k \in late : k < call.main => k = at /\ (phase = "unclear" \/ verdict # "none")

Taken ==
    foreign = 0 /\ at = Len1 /\ (phase = "yes" \/ verdict = "undone") =>
        world \intersect Back.takes = {}

SaidBack == verdict = "undone" => HasWayBack

Undoing == HasWayBack => Settled /\ (verdict = "undone" => at = Len1) /\ Taken

\* The rule the calls with a way back are built by, for the call at hand.
LEMMA WayBackRule ==
    ASSUME CallsSound, TypeOK, HasWayBack
    PROVE  /\ call.main + 1 = Len1 /\ ~call.idempotent /\ Len1 \in Nat /\ at \in 1..Len1
           /\ call.main \in 1..Len1
           /\ IsWrite(call, Len1) /\ IsWrite(call, call.main)
           /\ Back.gives = {} /\ "noted" \notin {Back.else, Back.fails, Back.vague}
           /\ call.steps[call.main].on \intersect Back.takes # {}
           /\ \A k \in 1..call.main :
                 IsWrite(call, k) => call.steps[k].gives \subseteq Back.takes
           /\ \A k \in 1..call.main - 1 :
                 IsWrite(call, k) =>
                   ~call.steps[k].resent /\ "noted" \notin {call.steps[k].else,
                                                  call.steps[k].fails, call.steps[k].vague}
<1>1. Sound(call) /\ Len1 \in Nat /\ call.main \in 1..Len1 /\ at \in 1..Len1
  BY StepTyped DEF TypeOK
<1>. QED  BY <1>1 DEF Sound, ClearsUp, HasWayBack, Back, Len1

\* Taken back is only said when the last step has been passed.
LEMMA UndoneAtTheEnd ==
    ASSUME TypeOK, verdict = "none", NEW o \in Outcomes, Turn(o), verdict' = "undone"
    PROVE  at = Len1 /\ rescuing /\ o \in {"go on", "noted"}
<1>1. CASE o \in {"go on", "noted"}
  <2>1. \E note \in BOOLEAN : Advance(note)
    BY <1>1 DEF Turn
  <2>. QED  BY <1>1, <2>1 DEF Advance
<1>2. CASE o = "error"
  <2>1. Fail
    BY <1>2 DEF Turn
  <2>. QED  BY <2>1 DEF Fail, Answer
<1>3. CASE o \in {"refused", "already", "told"}
  BY <1>3 DEF Turn, Answer
<1>. QED  BY <1>1, <1>2, <1>3 DEF Outcomes

\* What the answer of a write that may not be passed with a note comes to.
LEMMA JudgedStrictly ==
    ASSUME CallsSound, TypeOK, Shape, Judge, phase # "yes",
           "noted" \notin {Step.else, Step.fails, Step.vague}
    PROVE  \E o \in Outcomes \ {"go on", "noted"} : Turn(o) /\ verdict = "none"
<1>1. /\ at \in 1..Len1 /\ Sound(call) /\ Len1 \in Nat /\ Step \in StepsOf(Facts)
      /\ verdict = "none" /\ Step.kind = "write"
  BY StepTyped DEF TypeOK, Judge, Shape, Step, Answers
<1>2. /\ Step.soft => Step.checked
      /\ {Step.else, Step.fails, Step.vague} \intersect {"go on", "other call"} = {}
  BY <1>1 DEF Sound, AnswersRead, IsWrite, Step, Len1
<1>3. {Step.else, Step.fails, Step.vague} \subseteq Outcomes
  BY <1>1, <1>2 DEF StepsOf, Outcomes, Readings
<1>4. \E o \in {Step.else, Step.fails, Step.vague} : Turn(o)
  <2>1. CASE phase = "no"
    BY <2>1 DEF Judge
  <2>2. CASE phase = "soft"
    BY <1>2, <2>2 DEF Judge, Shape
  <2>3. CASE phase = "vague"
    BY <2>3 DEF Judge
  <2>4. CASE phase = "unclear"
    BY <2>4 DEF Judge
  <2>. QED  BY <2>1, <2>2, <2>3, <2>4 DEF Judge, Answers
<1>. QED  BY <1>1, <1>2, <1>3, <1>4

LEMMA TurnsSomehow ==
    ASSUME CallsSound, TypeOK, Shape, ReadAnswered \/ ReadFails \/ Judge
    PROVE  verdict = "none" /\ \E o \in Outcomes : Turn(o)
<1>1. /\ Step \in StepsOf(Facts) /\ at \in 1..Len1
  BY StepTyped DEF TypeOK, Step
<1>2. /\ Step.fails \in Outcomes /\ Step.vague \in Outcomes
      /\ Step.else \in Outcomes \union {"other call"}
  BY <1>1 DEF StepsOf, Outcomes, Readings
<1>3. CASE ReadAnswered
  BY <1>2, <1>3 DEF ReadAnswered, Turn, Outcomes
<1>4. CASE ReadFails
  BY <1>2, <1>4 DEF ReadFails
<1>5. CASE Judge /\ phase = "yes"
  BY <1>5 DEF Judge, Shape, Turn, Outcomes
<1>6. CASE Judge /\ phase # "yes"
  <2>1. verdict = "none" /\ Step.kind = "write"
    BY <1>6 DEF Judge, Shape, Answers
  <2>2. Sound(call) /\ Len1 = Len(call.steps)
    BY DEF CallsSound, TypeOK, Len1
  <2>3. Step.else # "other call"
    BY <1>1, <2>1, <2>2 DEF Sound, AnswersRead, IsWrite, Step
  <2>4. Step.else \in Outcomes
    BY <1>2, <2>3
  <2>5. CASE phase \in {"no", "unclear", "vague"}
    BY <1>2, <1>6, <2>1, <2>4, <2>5 DEF Judge
  <2>6. CASE phase = "soft"
    BY <1>6, <2>1, <2>4, <2>6 DEF Judge, Turn, Outcomes
  <2>. QED  BY <1>6, <2>5, <2>6 DEF Judge, Answers
<1>. QED  BY <1>3, <1>4, <1>5, <1>6

\* Taken back is said after the yes to the way back, and after nothing else.
LEMMA UndoneOnYes ==
    ASSUME CallsSound, TypeOK, Shape, HasWayBack,
           ReadAnswered \/ ReadFails \/ Judge, verdict' = "undone"
    PROVE  at = Len1 /\ phase = "yes"
<1>1. at = Len1 /\ verdict = "none"
  BY TurnsSomehow, UndoneAtTheEnd
<1>2. IsWrite(call, Len1) /\ "noted" \notin {Step.else, Step.fails, Step.vague}
  BY <1>1, WayBackRule DEF Back, Step
<1>3. Judge
  BY <1>1, <1>2 DEF ReadAnswered, ReadFails, IsWrite, Step
<1>4. ASSUME phase # "yes" PROVE FALSE
  BY <1>2, <1>3, <1>4, JudgedStrictly, UndoneAtTheEnd
<1>. QED  BY <1>1, <1>4

LEMMA UndoingInit == ASSUME CallsSound, Init PROVE Undoing
BY DEF Init, Undoing, Settled, Taken

\* The answers the tool reads.
LEMMA UndoingTurns ==
    ASSUME CallsSound, Inv, Undoing, HasWayBack, ReadAnswered \/ ReadFails \/ Judge
    PROVE  Settled' /\ (verdict' = "undone" => at' = Len1) /\ Taken'
<1>1. PICK o \in Outcomes :
         /\ Moved(o) /\ verdict = "none" /\ UNCHANGED <<world, late, foreign>>
  BY Outcome DEF Inv
<1>2. UNCHANGED call /\ phase' = "ready" /\ Len1' = Len1 /\ Back' = Back
      /\ (verdict' # "none" => at' = at)
  BY <1>1 DEF Moved, Len1, Back
<1>3. /\ at \in 1..Len1 /\ Len1 \in Nat /\ call.main \in 1..Len1
      /\ \A k \in 1..call.main - 1 : IsWrite(call, k) =>
            ~call.steps[k].resent /\ "noted" \notin {call.steps[k].else,
                                           call.steps[k].fails, call.steps[k].vague}
  BY WayBackRule DEF Inv
<1>4. ASSUME NEW k \in late, k < call.main
      PROVE  k = at' /\ verdict' # "none"
  <2>1. k = at /\ phase = "unclear" /\ k \in 1..Len1
    BY <1>1, <1>4 DEF Undoing, Settled, Inv, TypeOK
  <2>2. Judge
    BY <2>1 DEF ReadAnswered, ReadFails
  <2>3. IsWrite(call, at)
    BY <2>1 DEF Inv, Shape, IsWrite, Step
  <2>4. at \in 1..call.main - 1 /\ at # call.main
    <3>1. at \in 1..Len1 /\ Len1 \in Nat /\ call.main \in 1..Len1
      BY <1>3
    <3>. QED  BY <3>1, <1>4, <2>1
  <2>5. "noted" \notin {Step.else, Step.fails, Step.vague}
    BY <1>3, <2>3, <2>4 DEF Step
  <2>6. PICK p \in Outcomes \ {"go on", "noted"} : Turn(p)
    BY <2>1, <2>2, <2>5, JudgedStrictly DEF Inv
  <2>7. verdict' # "none"
    BY <1>1, <2>4, <2>6, Stopped DEF Inv
  <2>. QED  BY <1>2, <2>1, <2>7
<1>5. Settled'
  BY <1>1, <1>2, <1>4 DEF Settled
<1>6. verdict' = "undone" => at = Len1 /\ phase = "yes"
  BY UndoneOnYes DEF Inv
<1>7. Taken'
  BY <1>1, <1>2, <1>6 DEF Undoing, Taken
<1>. QED  BY <1>2, <1>5, <1>6, <1>7

\* A copy that arrives, now or late.
LEMMA UndoingArrives ==
    ASSUME CallsSound, Inv, Undoing, HasWayBack,
           NEW k \in 1..Len1, TakesEffect(k), k >= call.main
    PROVE  /\ k = Len1 => world' \intersect Back.takes = {}
           /\ world \intersect Back.takes = {} => world' \intersect Back.takes = {}
<1>1. /\ call.main + 1 = Len1 /\ Len1 \in Nat /\ call.main \in 1..Len1
      /\ Back.gives = {} /\ call.steps[call.main].on \intersect Back.takes # {}
  BY WayBackRule DEF Inv
<1>2. CASE k = Len1
  BY <1>1, <1>2 DEF TakesEffect, After, Back
<1>3. CASE k = call.main
  <2>1. SUFFICES ASSUME world \intersect Back.takes = {}
                 PROVE  world' = world
    BY <1>1, <1>3
  <2>2. ~Meets(call.steps[k], world)
    BY <1>1, <1>3, <2>1 DEF Meets
  <2>. QED  BY <2>2 DEF TakesEffect, NothingToDo
<1>4. k = Len1 \/ k = call.main
  BY <1>1
<1>. QED  BY <1>2, <1>3, <1>4

LEMMA UndoingStep == ASSUME CallsSound, Inv, Undoing, [Next]_vars PROVE Undoing'
<1>1. UNCHANGED call /\ Len1' = Len1 /\ Back' = Back /\ (HasWayBack' <=> HasWayBack)
  <2>1. UNCHANGED call
    <3>1. CASE ReadAnswered \/ ReadFails \/ Judge
      BY <3>1, Outcome DEF Inv, Moved
    <3>. QED  BY <3>1 DEF Next, CallSteps, ArgumentsRefused, Answer, Send, Arrives,
                          TurnedDown, NotAnswered, Resend, LateArrives, Others,
                          CallAgain, clientVars, vars
  <2>. QED  BY <2>1 DEF Len1, Back, HasWayBack
<1>2. SUFFICES ASSUME HasWayBack
               PROVE  Settled' /\ (verdict' = "undone" => at' = Len1) /\ Taken'
  BY <1>1 DEF Undoing
<1>3. /\ Settled /\ (verdict = "undone" => at = Len1) /\ Taken
  BY <1>2 DEF Undoing
<1>4. /\ call.main + 1 = Len1 /\ ~call.idempotent /\ Len1 \in Nat /\ call.main \in 1..Len1
      /\ at \in 1..Len1 /\ late \subseteq 1..Len1
      /\ \A k \in 1..call.main - 1 : IsWrite(call, k) => ~call.steps[k].resent
  BY <1>2, WayBackRule DEF Inv, TypeOK
<1>5. CASE ReadAnswered \/ ReadFails \/ Judge
  BY <1>2, <1>5, UndoingTurns
<1>6. CASE Arrives
  <2>1. /\ UNCHANGED <<at, verdict, late, foreign>> /\ TakesEffect(at) /\ verdict = "none"
        /\ phase = "sent"
    BY <1>6 DEF Arrives, Inv, Shape
  <2>2. Settled'
    BY <1>1, <1>3, <2>1 DEF Settled
  <2>3. Taken'
    BY <1>1, <1>2, <1>4, <2>1, UndoingArrives DEF Taken
  <2>. QED  BY <1>3, <2>1, <2>2, <2>3
<1>7. CASE NotAnswered
  <2>1. /\ UNCHANGED <<at, verdict, world, foreign>> /\ phase' = "unclear"
        /\ late' \subseteq late \union {at} /\ verdict = "none"
    BY <1>7 DEF NotAnswered, Inv, Shape
  <2>2. Settled'
    BY <1>1, <1>3, <2>1 DEF Settled
  <2>3. Taken'
    BY <2>1 DEF Taken
  <2>. QED  BY <1>3, <2>1, <2>2, <2>3
<1>8. CASE LateArrives
  <2>1. PICK k \in late : late' = late \ {k} /\ (TakesEffect(k) \/ UNCHANGED world)
    BY <1>8 DEF LateArrives
  <2>2. UNCHANGED <<at, phase, verdict, foreign>>
    BY <1>8 DEF LateArrives, clientVars
  <2>3. Settled'
    BY <1>1, <1>3, <2>1, <2>2 DEF Settled
  <2>4. Taken'
    <3>1. SUFFICES ASSUME foreign = 0, at = Len1, phase = "yes" \/ verdict = "undone"
                   PROVE  world' \intersect Back.takes = {}
      BY <1>1, <2>2 DEF Taken
    <3>2. world \intersect Back.takes = {} /\ k \in 1..Len1
      BY <1>3, <1>4, <3>1 DEF Taken
    <3>3. k >= call.main
      BY <1>3, <1>4, <3>1, <3>2 DEF Settled
    <3>. QED  BY <1>2, <2>1, <3>2, <3>3, UndoingArrives
  <2>. QED  BY <1>3, <2>2, <2>3, <2>4
<1>9. CASE Send \/ TurnedDown \/ Resend
  <2>1. /\ UNCHANGED <<at, verdict, late, world, foreign>> /\ phase' # "yes"
    BY <1>9 DEF Send, TurnedDown, Resend
  <2>2. Taken'
    BY <1>1, <1>3, <2>1 DEF Taken
  <2>3. \A k \in late : k < call.main => k = at /\ verdict # "none"
    <3>1. SUFFICES ASSUME NEW k \in late, k < call.main, verdict = "none" PROVE FALSE
      BY <1>3 DEF Settled
    <3>2. k = at /\ phase = "unclear" /\ k \in 1..call.main - 1
      BY <1>3, <1>4, <3>1 DEF Settled
    <3>3. IsWrite(call, k)
      BY <3>1, <1>4 DEF Inv, Behind
    <3>4. Resend /\ ~Step.resent
      BY <1>4, <1>9, <3>2, <3>3 DEF Send, TurnedDown, Step
    <3>. QED  BY <3>4 DEF Resend
  <2>. QED  BY <1>1, <1>3, <2>1, <2>2, <2>3 DEF Settled
<1>10. CASE ArgumentsRefused
  BY <1>1, <1>3, <1>10 DEF ArgumentsRefused, Answer, Settled, Taken
<1>11. CASE Others
  <2>1. UNCHANGED <<at, phase, verdict, late>> /\ foreign' # 0
    BY <1>11 DEF Others, clientVars, Inv, TypeOK
  <2>. QED  BY <1>1, <1>3, <2>1 DEF Settled, Taken
<1>12. CASE CallAgain
  BY <1>4, <1>12 DEF CallAgain
<1>13. CASE UNCHANGED vars
  BY <1>1, <1>3, <1>13 DEF vars, Settled, Taken
<1>. QED  BY <1>5, <1>6, <1>7, <1>8, <1>9, <1>10, <1>11, <1>12, <1>13 DEF Next, CallSteps

LEMMA SaidBackStep == ASSUME CallsSound, Inv, SaidBack, [Next]_vars PROVE SaidBack'
<1>1. CASE ReadAnswered \/ ReadFails \/ Judge
  <2>1. UNCHANGED call
    BY <1>1, Outcome DEF Inv, Moved
  <2>2. /\ at \in 1..Len1 /\ Len1 \in Nat /\ call.main \in 1..Len1
    BY StepTyped DEF Inv, TypeOK
  <2>3. verdict' = "undone" => rescuing
    BY <1>1, TurnsSomehow, UndoneAtTheEnd DEF Inv
  <2>4. rescuing => HasWayBack
    BY <2>2 DEF Inv, Shape, HasWayBack
  <2>. QED  BY <2>1, <2>3, <2>4 DEF SaidBack, HasWayBack, Len1
<1>2. CASE ~(ReadAnswered \/ ReadFails \/ Judge)
  BY <1>2 DEF Next, CallSteps, ArgumentsRefused, Answer, Send, Arrives, TurnedDown, NotAnswered,
              Resend, LateArrives, Others, CallAgain, clientVars, vars, SaidBack,
              HasWayBack, Len1
<1>. QED  BY <1>1, <1>2

\* A call that says it took its change back has left nothing of it, for every tool
\* with such a way back (grouping.py: a group whose rule failed is deleted again),
\* whatever was lost or comes late.
THEOREM UndoneLeavesNothing == Spec => []UndoneIsGone
<1>1. Init => Undoing
  BY CallsAreSound, UndoingInit
<1>2. Inv /\ Undoing /\ [Next]_vars => Undoing'
  BY CallsAreSound, UndoingStep
<1>3. Init => SaidBack
  BY DEF Init, SaidBack
<1>4. Inv /\ SaidBack /\ [Next]_vars => SaidBack'
  BY CallsAreSound, SaidBackStep
<1>5. ASSUME Inv, Undoing, SaidBack PROVE UndoneIsGone
  <2>1. SUFFICES ASSUME verdict = "undone", foreign = 0, NEW k \in Writes
                 PROVE  call.steps[k].gives \intersect world = {}
    BY DEF UndoneIsGone
  <2>2. HasWayBack
    BY <1>5, <2>1 DEF SaidBack
  <2>3. world \intersect Back.takes = {}
    BY <1>5, <2>1, <2>2 DEF Undoing, Taken
  <2>4. /\ k \in 1..Len1 /\ IsWrite(call, k) /\ call.main + 1 = Len1 /\ Len1 \in Nat
        /\ call.main \in 1..Len1 /\ Back.gives = {}
        /\ \A j \in 1..call.main :
              IsWrite(call, j) => call.steps[j].gives \subseteq Back.takes
    BY <1>5, <2>2, CallsAreSound, WayBackRule DEF Inv, Writes, IsWrite
  <2>5. k \in 1..call.main \/ k = Len1
    BY <2>4
  <2>. QED  BY <2>3, <2>4, <2>5 DEF Back
<1>. QED  BY <1>1, <1>2, <1>3, <1>4, <1>5, Invariance, PTL DEF Spec

-----------------------------------------------------------------------------
(* What CallReturns says of every step: that a call which can go on does is  *)
(* the fairness TLC adds.                                                    *)

\* The order in which a request is sent and answered.
Order(p) == IF p = "ready" THEN 0 ELSE IF p = "sent" THEN 1 ELSE 2

\* To the verdict, to a later step, to one of the re-sends the client allows the
\* request of this step, or from its sending to its answer.
TakenOn ==
    \/ verdict' # "none"
    \/ at' \in at + 1 .. Len1
    \/ at' = at /\ resends' \in resends + 1 .. MaxResends
    \/ at' = at /\ resends' = resends /\ Order(phase') > Order(phase)

\* Every step of a call takes it on, and the caller repeats it only so often; nobody
\* else takes it back, not with late copies and not by changing what it asks for.
CallGoesOn ==
    [][/\ CallSteps => verdict = "none" /\ calls' = calls /\ TakenOn
       /\ CallAgain => calls' \in calls + 1 .. MaxCalls
       /\ ~CallSteps /\ ~CallAgain => UNCHANGED clientVars]_vars

LEMMA CallStepsTakeOn ==
    ASSUME CallsSound, TypeOK, Shape, CallSteps
    PROVE  verdict = "none" /\ calls' = calls /\ TakenOn
<1>1. CASE ReadAnswered \/ ReadFails \/ Judge
  <2>1. PICK o \in Outcomes : Moved(o) /\ verdict = "none"
    BY <1>1, Outcome
  <2>2. calls' = calls /\ Len1 \in Nat /\ at \in 1..Len1
    BY <2>1, StepTyped DEF Moved, TypeOK
  <2>3. verdict' # "none" \/ (at' = at + 1 /\ at' \in 1..Len1)
    BY <2>1 DEF Moved
  <2>4. verdict' # "none" \/ at' \in at + 1 .. Len1
    BY <2>2, <2>3
  <2>. QED  BY <2>1, <2>2, <2>4 DEF TakenOn
<1>2. CASE ArgumentsRefused
  BY <1>2 DEF ArgumentsRefused, Answer, TakenOn
<1>3. CASE Send
  BY <1>3 DEF Send, TakenOn, Order
<1>4. CASE Arrives \/ TurnedDown \/ NotAnswered
  <2>1. /\ phase = "sent" /\ phase' \in Answers
        /\ UNCHANGED <<at, resends, calls>> /\ verdict = "none"
    BY <1>4 DEF Arrives, TurnedDown, NotAnswered, Answers, Shape
  <2>. QED  BY <2>1 DEF TakenOn, Order, Answers
<1>5. CASE Resend
  <2>1. /\ resends' = resends + 1 /\ resends \in 0..MaxResends /\ resends < MaxResends
        /\ at' = at /\ calls' = calls /\ verdict = "none"
    BY <1>5 DEF Resend, Shape, TypeOK
  <2>2. resends' \in resends + 1 .. MaxResends
    BY <2>1
  <2>. QED  BY <2>1, <2>2 DEF TakenOn
<1>. QED  BY <1>1, <1>2, <1>3, <1>4, <1>5 DEF CallSteps

\* A call of any tool has no more than so many steps to its answer.
THEOREM CallsEnd == Spec => CallGoesOn
<1>1. ASSUME Inv, [Next]_vars
      PROVE  /\ CallSteps => verdict = "none" /\ calls' = calls /\ TakenOn
             /\ CallAgain => calls' \in calls + 1 .. MaxCalls
             /\ ~CallSteps /\ ~CallAgain => UNCHANGED clientVars
  <2>1. CallSteps => verdict = "none" /\ calls' = calls /\ TakenOn
    BY <1>1, CallsAreSound, CallStepsTakeOn DEF Inv
  <2>2. CallAgain => calls' \in calls + 1 .. MaxCalls
    BY <1>1 DEF Inv, TypeOK, CallAgain
  <2>3. ~CallSteps /\ ~CallAgain => UNCHANGED clientVars
    BY <1>1 DEF Next, LateArrives, Others, vars, clientVars
  <2>. QED  BY <2>1, <2>2, <2>3
<1>2. Inv /\ [Next]_vars
        => [/\ CallSteps => verdict = "none" /\ calls' = calls /\ TakenOn
            /\ CallAgain => calls' \in calls + 1 .. MaxCalls
            /\ ~CallSteps /\ ~CallAgain => UNCHANGED clientVars]_vars
  BY <1>1
<1>. QED  BY <1>2, Invariance, PTL DEF Spec, CallGoesOn

-----------------------------------------------------------------------------
(* Every call does what WritePromise promises.                             *)

LEMMA PromiseInit == ASSUME CallsSound, Init PROVE Promise!Init
<1>1. Promised \subseteq 1..Len1 /\ \A k \in 1..Len1 : did[k] = 0
  BY DEF Init, Promised, Writes, Len1
<1>2. Effect = "none"
  BY <1>1 DEF Effect
<1>3. Said = "none"
  BY DEF Init, Said
<1>. QED  BY <1>2, <1>3 DEF Promise!Init

\* A copy that arrives takes the effect forward and leaves what was said.
LEMMA CopyStep ==
    ASSUME CallsSound, Inv, NEW k \in 1..Len1, TakesEffect(k),
           UNCHANGED <<call, verdict, calls>>,
           verdict \in {"refused", "already"} => calls # 1
    PROVE  [Promise!Next]_<<Effect, Said>>
<1>1. Promised \subseteq 1..Len1 /\ Promised' = Promised /\ Said' = Said
  BY DEF Promised, Main, Writes, Len1, Said
<1>2. did' \in [1..Len1 -> 0..MaxCalls + 1] /\ did \in [1..Len1 -> 0..MaxCalls + 1]
  BY Effects DEF Inv, TypeOK
<1>3. \A j \in Promised : did[j] > 0 => did'[j] > 0
  BY <1>1, Effects DEF Inv
<1>4. CASE Effect' = Effect
  BY <1>1, <1>4
<1>5. CASE Effect' # Effect
  <2>1. Promised # {}
    <3>1. SUFFICES ASSUME Promised = {} PROVE FALSE
      OBVIOUS
    <3>2. Effect = "none" /\ Effect' = "none"
      BY <1>1, <3>1 DEF Effect
    <3>. QED  BY <1>5, <3>2
  <2>2. Said # "nothing"
    BY <2>1 DEF Said
  <2>3. Effect' \in (IF Effect = "none" THEN {"part", "all"} ELSE {"all"})
    <3>1. CASE Effect = "none"
      BY <1>5, <3>1 DEF Effect
    <3>2. CASE Effect = "part"
      <4>1. PICK j \in Promised : did[j] # 0
        BY <3>2 DEF Effect
      <4>2. did'[j] # 0
        BY <1>1, <1>2, <1>3, <4>1
      <4>3. Effect' # "none"
        BY <1>1, <4>2 DEF Effect
      <4>. QED  BY <1>5, <3>2, <4>3 DEF Effect
    <3>3. CASE Effect = "all"
      <4>1. \A j \in Promised : did[j] > 0
        BY <3>3 DEF Effect
      <4>2. \A j \in Promised : did'[j] > 0 /\ did'[j] # 0
        BY <1>1, <1>2, <1>3, <4>1
      <4>3. Effect' = "all"
        BY <1>1, <2>1, <4>2 DEF Effect
      <4>. QED  BY <1>5, <3>3, <4>3
    <3>. QED  BY <3>1, <3>2, <3>3 DEF Effect
  <2>. QED  BY <1>1, <1>5, <2>2, <2>3 DEF Promise!Next, Promise!TakesEffect
<1>. QED  BY <1>4, <1>5

\* The client answers, or goes on, and leaves the effect as it is.
LEMMA AnswerStep ==
    ASSUME CallsSound, Inv, Inv', verdict = "none", UNCHANGED <<call, did, calls>>
    PROVE  [Promise!Next]_<<Effect, Said>>
<1>1. Promised \subseteq 1..Len1 /\ Promised' = Promised /\ Effect' = Effect
  BY DEF Promised, Main, Writes, Len1, Effect
<1>2. Len1' = Len1 /\ did \in [1..Len1 -> 0..MaxCalls + 1]
  BY DEF Len1, Inv, TypeOK
<1>3. Said = "none"
  BY DEF Said
<1>4. Said' = "nothing" => Effect = "none"
  <2>1. SUFFICES ASSUME Said' = "nothing" PROVE Effect = "none"
    OBVIOUS
  <2>2. \/ verdict' \in {"refused", "already"} /\ calls' = 1
        \/ Promised = {}
    BY <1>1, <2>1 DEF Said
  <2>3. \A k \in Promised : did[k] = 0
    BY <1>1, <1>2, <2>2 DEF Inv, Nothing
  <2>. QED  BY <2>3 DEF Effect
<1>5. Said' = "done" => Effect = "all"
  <2>1. SUFFICES ASSUME Said' = "done" PROVE Effect = "all"
    OBVIOUS
  <2>2. verdict' = "done" /\ Promised # {}
    BY <1>1, <2>1 DEF Said
  <2>3. \A k \in Promised : did[k] > 0
    BY <1>1, <2>2 DEF Inv, Progress
  <2>4. \E k \in Promised : did[k] # 0
    <3>1. PICK k \in Promised : TRUE
      BY <2>2
    <3>2. did[k] > 0 /\ did[k] # 0
      BY <2>3, <1>1, <1>2, <3>1
    <3>. QED  BY <3>2
  <2>. QED  BY <2>3, <2>4 DEF Effect
<1>6. Said' \in {"none", "nothing", "done", "uncertain"}
  BY DEF Said
<1>. QED  BY <1>1, <1>3, <1>4, <1>5, <1>6 DEF Promise!Next, Promise!Answers

LEMMA PromiseStep ==
    ASSUME CallsSound, Inv, [Next]_vars PROVE [Promise!Next]_<<Effect, Said>>
<1>0. Inv' /\ at \in 1..Len1 /\ late \subseteq 1..Len1
  BY InvStep DEF Inv, TypeOK
<1>1. CASE ReadAnswered \/ ReadFails \/ Judge
  <2>1. PICK o \in Outcomes :
            Moved(o) /\ verdict = "none" /\ UNCHANGED <<world, late, foreign, did, harmed>>
    BY <1>1, Outcome DEF Inv
  <2>. QED  BY <1>0, <2>1, AnswerStep DEF Moved
<1>2. CASE ArgumentsRefused
  BY <1>0, <1>2, AnswerStep DEF ArgumentsRefused, Answer
<1>3. CASE Send \/ TurnedDown \/ Resend \/ NotAnswered \/ Others \/ UNCHANGED vars
  <2>1. UNCHANGED <<call, did, verdict, calls>>
    BY <1>3 DEF Send, TurnedDown, Resend, NotAnswered, Others, vars, clientVars
  <2>2. Effect' = Effect /\ Said' = Said
    BY <2>1 DEF Effect, Said, Promised, Main, Writes, Len1
  <2>. QED  BY <2>2
<1>4. CASE Arrives
  <2>1. TakesEffect(at) /\ UNCHANGED <<call, verdict, calls>> /\ phase = "sent"
    BY <1>4 DEF Arrives
  <2>2. verdict = "none"
    BY <2>1 DEF Inv, Shape
  <2>. QED  BY <1>0, <2>1, <2>2, CopyStep
<1>5. CASE LateArrives
  <2>1. PICK k \in late : (TakesEffect(k) \/ UNCHANGED <<world, did, harmed>>)
                          /\ UNCHANGED <<call, verdict, calls>>
    BY <1>5 DEF LateArrives, clientVars
  <2>2. verdict \in {"refused", "already"} => calls # 1
    BY <2>1 DEF Inv, Nothing
  <2>3. CASE TakesEffect(k)
    BY <1>0, <2>1, <2>2, <2>3, CopyStep
  <2>4. CASE UNCHANGED did
    <3>1. Effect' = Effect /\ Said' = Said
      BY <2>1, <2>4 DEF Effect, Said, Promised, Main, Writes, Len1
    <3>. QED  BY <3>1
  <2>. QED  BY <2>1, <2>3, <2>4
<1>6. CASE CallAgain
  <2>1. UNCHANGED <<call, did>> /\ verdict = "error" /\ verdict' = "none"
    BY <1>6 DEF CallAgain
  <2>2. Effect' = Effect /\ Said = "uncertain" /\ Said' = "none"
    BY <2>1 DEF Effect, Said, Promised, Main, Writes, Len1
  <2>. QED  BY <2>2 DEF Promise!Next, Promise!AsksAgain
<1>. QED  BY <1>1, <1>2, <1>3, <1>4, <1>5, <1>6 DEF Next, CallSteps

\* "Nothing was done" and "done" are true when they are said, and stay true:
\* every call that keeps the rules implements WritePromise.
THEOREM PromiseKept == Spec => KeepsPromise
<1>1. Init => Promise!Init
  BY CallsAreSound, PromiseInit
<1>2. Inv /\ [Next]_vars => [Promise!Next]_<<Effect, Said>>
  BY CallsAreSound, PromiseStep
<1>. QED  BY <1>1, <1>2, Invariance, PTL DEF Spec, KeepsPromise, Promise!Spec
=============================================================================
