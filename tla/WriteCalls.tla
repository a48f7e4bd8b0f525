----------------------------- MODULE WriteCalls -----------------------------
(***************************************************************************)
(* One call of a write tool, from its first request to the answer the      *)
(* caller gets.  The tool is any of Calls; the platform may answer a       *)
(* request, refuse it, lose it, lose its answer, or carry it out long      *)
(* after the client has given it up; other users change the same facts in  *)
(* between.  An MCP client may repeat a call the tool calls idempotent.    *)
(***************************************************************************)
EXTENDS WriteSteps, Integers

CONSTANTS Calls,        \* the calls the tools can make
          MaxResends,   \* how often the client sends one request again
          MaxForeign,   \* changes other users make
          MaxCalls      \* how often the caller makes the call

ASSUME BoundsAssumption ==
    MaxResends \in Nat /\ MaxForeign \in Nat /\ MaxCalls \in Nat \ {0}

\* Every call is built by the rules of WriteSteps.
ASSUME CallsAssumption == \A c \in Calls : Sound(c)

VARIABLES
    call,        \* the call being made
    at,          \* the step that is next, or under way
    phase,       \* of that step: "ready", "sent", or what came back
    resends,     \* times the request of this step was sent again
    rescuing,    \* the way back is being taken
    noted,       \* the answer will carry a note that something is open
    verdict,     \* the answer, "none" until it is given
    calls,       \* the calls made so far
    world,       \* the facts that hold on the platform
    late,        \* steps of which a copy may still arrive
    foreign,     \* changes made by others so far
    changed,     \* facts others changed since the call last found them untrue
    did,         \* how often each step took effect
    harmed       \* facts a write had to spare and hit

vars == <<call, at, phase, resends, rescuing, noted, verdict, calls,
          world, late, foreign, changed, did, harmed>>

clientVars == <<call, at, phase, resends, rescuing, noted, verdict, calls>>

Answers == {"yes", "no", "soft", "vague", "unclear"}
Phases == {"ready", "sent"} \union Answers
Verdicts == {"none", "refused", "already", "done", "noted", "error",
             "told", "undone"}

Len1 == Len(call.steps)
Facts == CallFacts(call)
Step == call.steps[at]
Main == 1..call.main
Writes == {k \in 1..Len1 : call.steps[k].kind = "write"}

Init ==
    /\ call \in Calls
    /\ at = 1 /\ phase = "ready" /\ resends = 0 /\ calls = 1
    /\ rescuing = FALSE /\ noted = FALSE /\ verdict = "none"
    /\ world \in SUBSET CallFacts(call)
    /\ late = {} /\ foreign = 0 /\ changed = {} /\ harmed = {}
    /\ did = [k \in 1..Len(call.steps) |-> 0]

-----------------------------------------------------------------------------
(* The ways a step ends.                                                   *)

Answer(v) ==
    /\ verdict' = v
    /\ UNCHANGED <<call, at, resends, rescuing, calls>>

\* On to the next step; after the last of the call proper the tool answers,
\* after the last of the way back it says that it took the change back.
Advance(note) ==
    /\ noted' = (noted \/ note)
    /\ phase' = "ready"
    /\ verdict' = CASE ~rescuing /\ at = call.main ->
                              IF noted' THEN "noted" ELSE "done"
                    [] rescuing /\ at = Len1 -> "undone"
                    [] OTHER -> "none"
    /\ at' = IF verdict' = "none" THEN at + 1 ELSE at
    /\ resends' = IF verdict' = "none" THEN 0 ELSE resends
    /\ UNCHANGED <<call, rescuing, calls>>

Fail_Untold ==
    \/ /\ ~rescuing /\ at = call.main /\ call.main < Len1
       /\ rescuing' = TRUE /\ at' = call.main + 1
       /\ phase' = "ready" /\ resends' = 0
       /\ UNCHANGED <<call, noted, verdict, calls>>
    \/ /\ rescuing \/ at # call.main \/ call.main = Len1
       /\ phase' = "ready" /\ noted' = noted
       /\ Answer("error")

Fail_Swallowed ==
    \/ rescuing /\ Advance(FALSE)
    \/ ~rescuing /\ Fail_Untold

\* The step has failed.  The last step of the call proper may have a way
\* back; anything else is reported as an error.
Fail ==
    \/ /\ ~rescuing /\ at = call.main /\ call.main < Len1
       /\ rescuing' = TRUE /\ at' = call.main + 1
       /\ phase' = "ready" /\ resends' = 0
       /\ UNCHANGED <<call, noted, verdict, calls>>
    \/ /\ rescuing \/ at # call.main \/ call.main = Len1
       /\ phase' = "ready" /\ noted' = noted
       /\ Answer(IF Step.tells THEN "told" ELSE "error")

Turn(outcome) ==
    CASE outcome = "go on" -> Advance(FALSE)
      [] outcome = "noted" -> Advance(TRUE)
      [] outcome = "error" -> Fail
      [] OTHER -> phase' = "ready" /\ noted' = noted /\ Answer(outcome)

-----------------------------------------------------------------------------
(* Reads.  The platform answers from its facts of that moment; what the    *)
(* tool then does rests on an answer others may overtake.                  *)

Meets(s, w) == s.on \subseteq w /\ s.off \intersect w = {}

\* The mutation: what must not be there is read and passed over.
ReadAnswered_FindingIgnored ==
    /\ verdict = "none" /\ phase = "ready" /\ Step.kind = "read"
    /\ Meets(Step, world) \/ Step.else # "other call"
    /\ changed' = changed \ (Step.off \ world)
    /\ IF Step.on \subseteq world THEN Advance(FALSE) ELSE Turn(Step.else)
    /\ UNCHANGED <<world, late, foreign, did, harmed>>

ReadAnswered ==
    /\ verdict = "none" /\ phase = "ready" /\ Step.kind = "read"
    /\ Meets(Step, world) \/ Step.else # "other call"
    /\ changed' = changed \ (Step.off \ world)
    /\ IF Meets(Step, world) THEN Advance(FALSE) ELSE Turn(Step.else)
    /\ UNCHANGED <<world, late, foreign, did, harmed>>

\* A read is sent again until the client's attempts are used up.
ReadFails ==
    /\ verdict = "none" /\ phase = "ready" /\ Step.kind = "read"
    /\ Turn(Step.fails)
    /\ UNCHANGED <<world, late, foreign, changed, did, harmed>>

\* Arguments no request could be made of are refused before the first one.
ArgumentsRefused ==
    /\ verdict = "none" /\ at = 1 /\ phase = "ready"
    /\ phase' = phase /\ noted' = noted
    /\ Answer("refused")
    /\ UNCHANGED <<world, late, foreign, changed, did, harmed>>

-----------------------------------------------------------------------------
(* Writes.                                                                 *)

Send ==
    /\ verdict = "none" /\ phase = "ready" /\ Step.kind = "write"
    /\ phase' = "sent"
    /\ UNCHANGED <<call, at, resends, rescuing, noted, verdict, calls,
                   world, late, foreign, changed, did, harmed>>

After(s, w) == (w \ s.takes) \union s.gives

\* There is nothing left to do and the platform does not mind.
NothingToDo(s) == s.mild /\ After(s, world) = world

Count(k) == did' = [did EXCEPT ![k] = IF @ > MaxCalls THEN @ ELSE @ + 1]

\* The platform carries step k out: it does not know what the step has to spare.
TakesEffect(k) ==
    LET s == call.steps[k] IN
    /\ Meets(s, world) \/ NothingToDo(s)
    /\ world' = After(s, world)
    /\ harmed' = harmed \union ((s.spares \intersect world) \ changed)
    /\ Count(k)

\* The request arrives and is carried out; its answer may come back, come
\* back without saying so, or not come back.
Arrives ==
    /\ phase = "sent"
    /\ TakesEffect(at)
    /\ phase' \in {"yes", "unclear"} \union
                      (IF Step.soft THEN {"vague"} ELSE {})
    /\ UNCHANGED <<call, at, resends, rescuing, noted, verdict, calls,
                   late, foreign, changed>>

\* The request arrives and is refused: for what it asks of the platform, or
\* for any reason of the platform's own; where the tool knows answers of
\* status 200 that say so, the refusal may be one of them.
TurnedDown ==
    /\ phase = "sent"
    /\ phase' \in {"no"} \union (IF Step.soft THEN {"soft", "vague"} ELSE {})
    /\ UNCHANGED <<call, at, resends, rescuing, noted, verdict, calls,
                   world, late, foreign, changed, did, harmed>>

\* The request does not arrive while the client waits; a copy of it may
\* still be under way.
NotAnswered ==
    /\ phase = "sent"
    /\ phase' = "unclear"
    /\ late' \in {late, late \union {at}}
    /\ UNCHANGED <<call, at, resends, rescuing, noted, verdict, calls,
                   world, foreign, changed, did, harmed>>

\* Whatever the call has read, and the tool has said, since it was sent.
LateArrives ==
    \E k \in late :
        /\ late' = late \ {k}
        /\ TakesEffect(k) \/ UNCHANGED <<world, did, harmed>>
        /\ UNCHANGED <<clientVars, foreign, changed>>

Resend_AnyMethod ==
    /\ phase = "unclear" /\ resends < MaxResends
    /\ phase' = "sent"
    /\ resends' = resends + 1
    /\ UNCHANGED <<call, at, rescuing, noted, verdict, calls,
                   world, late, foreign, changed, did, harmed>>

Resend_Uncounted ==
    /\ phase = "unclear" /\ Step.resent /\ resends < MaxResends
    /\ phase' = "sent"
    /\ UNCHANGED <<call, at, resends, rescuing, noted, verdict, calls,
                   world, late, foreign, changed, did, harmed>>

\* client.py sends PUT and DELETE, and what the tool marks so, once more.
Resend ==
    /\ phase = "unclear" /\ Step.resent /\ resends < MaxResends
    /\ phase' = "sent"
    /\ resends' = resends + 1
    /\ UNCHANGED <<call, at, rescuing, noted, verdict, calls,
                   world, late, foreign, changed, did, harmed>>

Judge_StatusAlone ==
    /\ phase \in Answers
    /\ phase = "unclear" => ~(Step.resent /\ resends < MaxResends)
    /\ CASE phase \in {"yes", "soft", "vague"} -> Advance(FALSE)
         [] phase = "no" -> Turn(Step.else)
         [] OTHER -> Turn(Step.fails)
    /\ UNCHANGED <<world, late, foreign, changed, did, harmed>>

\* The tool reads what came back.
Judge ==
    /\ phase \in Answers
    /\ phase = "unclear" => ~(Step.resent /\ resends < MaxResends)
    /\ CASE phase = "yes" -> Advance(FALSE)
         [] phase = "no" -> Turn(Step.else)
         [] phase = "soft" ->
                IF Step.checked THEN Turn(Step.else) ELSE Advance(FALSE)
         [] phase = "vague" -> Turn(Step.vague)
         [] OTHER -> Turn(Step.fails)
    /\ UNCHANGED <<world, late, foreign, changed, did, harmed>>

-----------------------------------------------------------------------------
\* Another user, or the platform itself, changes one of the facts.
Others ==
    /\ foreign < MaxForeign
    /\ foreign' = foreign + 1
    /\ \E f \in Facts :
        /\ world' = IF f \in world THEN world \ {f} ELSE world \union {f}
        /\ changed' = changed \union {f}
    /\ UNCHANGED <<clientVars, late, did, harmed>>

\* An error invites the caller to make a call that is marked idempotent once
\* more, with the same arguments.
CallAgain ==
    /\ verdict = "error" /\ call.idempotent /\ calls < MaxCalls
    /\ at' = 1 /\ phase' = "ready" /\ resends' = 0 /\ calls' = calls + 1
    /\ rescuing' = FALSE /\ noted' = FALSE /\ verdict' = "none"
    /\ UNCHANGED <<call, world, late, foreign, changed, did, harmed>>

CallSteps == ReadAnswered \/ ReadFails \/ ArgumentsRefused \/ Send
             \/ Arrives \/ TurnedDown \/ NotAnswered \/ Resend \/ Judge

Next == CallSteps \/ LateArrives \/ Others \/ CallAgain

\* The event loop resumes a call that can go on, and the client's timeouts
\* end every wait for an answer; nothing obliges anyone else to move.
Spec == Init /\ [][Next]_vars /\ WF_vars(CallSteps)

-----------------------------------------------------------------------------
(* What is expected of the calls.                                          *)

TypeOK ==
    /\ call \in Calls
    /\ at \in 1..Len1 /\ phase \in Phases
    /\ resends \in 0..MaxResends /\ calls \in 1..MaxCalls
    /\ rescuing \in BOOLEAN /\ noted \in BOOLEAN /\ verdict \in Verdicts
    /\ world \subseteq Facts /\ changed \subseteq Facts
    /\ harmed \subseteq Facts /\ late \subseteq 1..Len1
    /\ foreign \in 0..MaxForeign
    /\ did \in [1..Len1 -> 0..MaxCalls + 1]

\* A job, a note or a record is made at most once for what the caller asked,
\* whatever is lost and however often the request or the call is repeated; a job that
\* a call marked idempotent queues, at most once for each time he makes the call.
NothingTwice ==
    \A k \in 1..Len1 :
        /\ call.steps[k].adds => did[k] <= 1
        /\ call.steps[k].queues => did[k] <= calls

\* What a tool promises to spare it does not hit: a guard that was read keeps the
\* write from being sent, unless somebody changed the fact after it, and no copy of the
\* write that arrives late, or again, hits what the call itself has made since.
NoHarm == harmed = {}

\* When the answer says that the change was taken back, nothing of it is
\* left, not even what a request that was not answered may have made.
UndoneIsGone ==
    verdict = "undone" /\ foreign = 0 =>
        \A k \in Writes : call.steps[k].gives \intersect world = {}

\* An error of a write that does not say what was done before it: nothing
\* was.  The caller repeats, or drops, the whole of what he asked for.
PartIsTold ==
    verdict = "error" /\ Step.kind = "write" /\ calls = 1 =>
        \A k \in Main : k < at => did[k] = 0

\* Every call is answered.
CallReturns == (verdict = "none") ~> (verdict # "none")

-----------------------------------------------------------------------------
\* What the caller is told, against what happened: see WritePromise.
Promised == Main \intersect Writes

Effect == IF \A k \in Promised : did[k] = 0 THEN "none"
          ELSE IF \A k \in Promised : did[k] > 0 THEN "all" ELSE "part"

Said == CASE verdict = "none" -> "none"
          [] verdict \in {"refused", "already"} /\ calls = 1 -> "nothing"
          [] verdict = "done" -> IF Promised = {} THEN "nothing" ELSE "done"
          [] OTHER -> "uncertain"

Promise == INSTANCE WritePromise WITH effect <- Effect, said <- Said
KeepsPromise == Promise!Spec
=============================================================================
