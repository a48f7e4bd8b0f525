-------------------------- MODULE ConvergenceWait_proofs --------------------------
(***************************************************************************)
(* What the waits report, for every timeout, interval and delay of the     *)
(* platform.                                                               *)
(*                                                                         *)
(* Four layers carry it: the clock of the loop (TimeInv), which run the    *)
(* platform's record is about (RunInv), what its mark then is beside the   *)
(* mark that was read before (MarkInv), and what the last read has seen of *)
(* all that (ReadInv).  A report is made once, from the last read.  Every  *)
(* step takes a wait on towards it (WaitGoesOn).                           *)
(***************************************************************************)
EXTENDS ConvergenceWait, TLAPS

USE WaitAssumption DEF WaitAssumption

Before == {"read", "send", "readback", "wait"}
Polling == {"fetch", "answer", "sleep"}

TimeInv ==
    /\ now >= 1
    /\ pc # "done" => result = "none"
    /\ pc \in Before => start = 0
    /\ pc \in Polling => 1 <= start /\ start <= since /\ since <= now
    /\ pc \in {"fetch", "answer"} => now <= since + MaxFetch /\ since <= start + call.timeout
    /\ pc = "sleep" => now <= since + call.interval /\ since + call.interval <= start + call.timeout
    /\ pc = "done" /\ start > 0 => now <= start + call.timeout + MaxFetch

RunInv ==
    /\ pc \in {"read", "send"} => own = "unsent"
    /\ own \in {"unsent", "queued", "busy"} => endedAt = NoTime
    /\ own = "busy" => shown.run = "own" /\ shown.state = "busy"
    /\ own \in Terminal => shown.run = "own" /\ shown.state = own /\ endedAt <= now
    /\ shown.run = "own" => own \notin {"unsent", "queued"}
    /\ others = 0 /\ shown.run # "own" => shown.run = "old" /\ shown.state # "busy"

MarkInv ==
    /\ TimeMarked(call.kind) => before <= shown.mark /\ shown.mark <= now
    /\ others = 0 /\ shown.run = "old" => ~seen /\ (before # NoMark => shown.mark = before)
    /\ readFirst => before # NoMark
    /\ call.kind = "ems" /\ readFirst /\ others = 0 /\ before # NoMark =>
        /\ own = "busy" => shown.mark = before + (IF call.markAtStart THEN 1 ELSE 0)
        /\ own \in Terminal => shown.mark = before + 1

ReadInv ==
    pc = "answer" =>
        /\ reading.state = "busy" => seen
        /\ others = 0 /\ reading.run = "old" => ~seen /\ (before # NoMark => reading.mark = before)
        /\ others = 0 /\ reading.run # "old" => reading.run = "own"
        /\ endedAt # NoTime /\ endedAt < since => reading = shown
        /\ TimeMarked(call.kind) => before <= reading.mark
        /\ call.kind = "ems" /\ readFirst /\ others = 0 /\ before # NoMark =>
              phase \in {"unsent", "queued"} \/ seen \/ reading.mark # before

Inv ==
    /\ TypeOK
    /\ TimeInv
    /\ RunInv
    /\ MarkInv
    /\ ReadInv

--------------------------------------------------------------------------------
(* Types. *)

\* A step is one action of the call, of the loop, of the clock or of the platform.
LEMMA StepCases ==
    ASSUME [Next]_vars
    PROVE  \/ ReadBefore \/ Send \/ ReadBack \/ StartWait \/ Fetch \/ Decide \/ Wake \/ Tick
           \/ pc # "done" /\ PickUp
           \/ pc # "done" /\ OtherStarts
           \/ pc # "done" /\ JobRemoved
           \/ \E outcome \in Terminal : pc # "done" /\ Finish(outcome)
           \/ \E outcome \in Terminal : pc # "done" /\ OtherEnds(outcome)
           \/ UNCHANGED vars
BY DEF Next, Loop, Platform

LEMMA InitType == Init => TypeOK
<1>. SUFFICES ASSUME Init
              PROVE  TypeOK
  OBVIOUS
<1>1. shown \in Records
  BY DEF Init, Records, States, Terminal, Runs, NoMark
<1>2. pc \in PCs /\ own \in Phases /\ phase \in Phases /\ result \in Results
  BY DEF Init, PCs, Phases, Results
<1>3. /\ now = 1 /\ before = 0 /\ start = 0 /\ since = 0 /\ others = 0 /\ faults = 0
      /\ readFirst = FALSE /\ seen = FALSE
      /\ reading = shown
  BY DEF Init, NoMark
<1>4. call \in [kind : Kinds, timeout : Timeouts, interval : Intervals, markAtStart : BOOLEAN]
  BY DEF Init
<1>5. endedAt \in Nat \union {NoTime}
  BY DEF Init
<1>6. readFirst \in BOOLEAN /\ seen \in BOOLEAN /\ reading \in Records
  BY <1>1, <1>3
<1>7. /\ now \in Nat /\ before \in Nat /\ start \in Nat /\ since \in Nat
      /\ others \in 0 .. MaxOthers /\ faults \in 0 .. MaxFaults
  BY <1>3
<1>. QED  BY <1>1, <1>2, <1>4, <1>5, <1>6, <1>7 DEF TypeOK

LEMMA TypeStep ==
    ASSUME TypeOK, [Next]_vars
    PROVE  TypeOK'
<1>. USE DEF TypeOK, Records, States, Terminal, Runs, Phases, PCs, Results, NoMark, NoTime, platformVars, loopVars
<1>1. CASE ReadBefore
  <2>1. before' \in Nat /\ readFirst' \in BOOLEAN
    BY <1>1 DEF ReadBefore
  <2>2. pc' \in PCs /\ result' \in Results /\ faults' \in 0 .. MaxFaults
    BY <1>1 DEF ReadBefore, Report, Fault
  <2>. QED  BY <1>1, <2>1, <2>2 DEF ReadBefore
<1>2. CASE Send
  BY <1>2 DEF Send, Report, Fault, Unawaited
<1>3. CASE ReadBack
  BY <1>3 DEF ReadBack, Fault
<1>4. CASE StartWait
  BY <1>4 DEF StartWait
<1>5. CASE Fetch
  <2>1. seen' \in BOOLEAN /\ reading' \in Records /\ phase' \in Phases
    BY <1>5 DEF Fetch
  <2>2. pc' \in PCs /\ result' \in Results /\ faults' \in 0 .. MaxFaults
    BY <1>5 DEF Fetch, Report, Fault
  <2>. QED  BY <1>5, <2>1, <2>2 DEF Fetch
<1>6. CASE Decide
  BY <1>6 DEF Decide, Report, EndVerdict, EmsVerdict, Done, NsoDone, EmsDone, OutcomeThere, NotUnderWay, Reached
<1>7. CASE Wake
  BY <1>7 DEF Wake
<1>8. CASE Tick
  BY <1>8 DEF Tick
<1>9. CASE pc # "done" /\ PickUp
  BY <1>9 DEF PickUp, Becomes, MarkOf
<1>10. CASE pc # "done" /\ OtherStarts
  BY <1>10 DEF OtherStarts, Becomes, MarkOf, HasPast
<1>14. CASE pc # "done" /\ JobRemoved
  BY <1>14 DEF JobRemoved
<1>11. ASSUME NEW outcome \in Terminal, pc # "done", Finish(outcome)
      PROVE  TypeOK'
  BY <1>11 DEF Finish, Becomes, MarkOf
<1>12. ASSUME NEW outcome \in Terminal, pc # "done", OtherEnds(outcome)
      PROVE  TypeOK'
  BY <1>12 DEF OtherEnds, Becomes, MarkOf
<1>13. CASE UNCHANGED vars
  BY <1>13 DEF vars
<1>. QED  BY <1>1, <1>2, <1>3, <1>4, <1>5, <1>6, <1>7, <1>8, <1>9, <1>10, <1>11, <1>12, <1>13, <1>14, StepCases

--------------------------------------------------------------------------------
(* The four layers. *)

LEMMA BudgetType ==
    ASSUME TypeOK
    PROVE  call.timeout \in Nat /\ call.interval \in Nat /\ call.interval > 0
<1>1. call.timeout \in Timeouts /\ call.interval \in Intervals
  BY DEF TypeOK
<1>2. call.interval \in Nat \ {0}
  BY <1>1
<1>3. \A n \in Nat \ {0} : n \in Nat /\ n > 0
  OBVIOUS
<1>. QED  BY <1>1, <1>2, <1>3

LEMMA TimeStep ==
    ASSUME TypeOK, TypeOK', TimeInv, [Next]_vars
    PROVE  TimeInv'
<1>. USE DEF TimeInv, TypeOK, Before, Polling, platformVars, loopVars
<1>0. call.timeout \in Nat /\ call.interval \in Nat /\ call.interval > 0
  BY BudgetType
<1>1. CASE ReadBefore
  BY <1>1 DEF ReadBefore, Report, Fault
<1>2. CASE Send
  BY <1>2 DEF Send, Report, Fault, Unawaited
<1>3. CASE ReadBack
  BY <1>3 DEF ReadBack, Fault
<1>4. CASE StartWait
  BY <1>0, <1>4 DEF StartWait
<1>5. CASE Fetch
  BY <1>0, <1>5 DEF Fetch, Report, Fault
<1>6. CASE Decide
  <2>1. /\ pc = "answer" /\ pc' \in {"done", "sleep"}
        /\ UNCHANGED <<call, now, start>>
        /\ pc' = "sleep" => since' = now /\ result' = result /\ ~(now - start + call.interval > call.timeout)
    BY <1>6 DEF Decide, Report, TimeIsUp, Elapsed
  <2>2. now <= start + call.timeout + MaxFetch
    BY <1>0, <2>1
  <2>3. pc' = "sleep" => now + call.interval <= start + call.timeout
    BY <1>0, <2>1
  <2>4. since <= now /\ 1 <= start /\ start <= since /\ now >= 1 /\ result = "none"
    BY <2>1
  <2>5. CASE pc' = "done"
    BY <2>1, <2>2, <2>4, <2>5
  <2>6. CASE pc' = "sleep"
    BY <1>0, <2>1, <2>3, <2>4, <2>6
  <2>. QED  BY <2>1, <2>5, <2>6
<1>7. CASE Wake
  BY <1>0, <1>7 DEF Wake
<1>8. CASE Tick
  BY <1>0, <1>8 DEF Tick
<1>9. CASE pc # "done" /\ PickUp
  BY <1>9 DEF PickUp, Becomes, MarkOf
<1>10. CASE pc # "done" /\ OtherStarts
  BY <1>10 DEF OtherStarts, Becomes, MarkOf, HasPast
<1>14. CASE pc # "done" /\ JobRemoved
  BY <1>14 DEF JobRemoved
<1>11. ASSUME NEW outcome \in Terminal, pc # "done", Finish(outcome)
      PROVE  TimeInv'
  BY <1>11 DEF Finish, Becomes, MarkOf
<1>12. ASSUME NEW outcome \in Terminal, pc # "done", OtherEnds(outcome)
      PROVE  TimeInv'
  BY <1>12 DEF OtherEnds, Becomes, MarkOf
<1>13. CASE UNCHANGED vars
  BY <1>13 DEF vars
<1>. QED  BY <1>1, <1>2, <1>3, <1>4, <1>5, <1>6, <1>7, <1>8, <1>9, <1>10, <1>11, <1>12, <1>13, <1>14, StepCases

LEMMA RunStep ==
    ASSUME TypeOK, TypeOK', TimeInv, RunInv, [Next]_vars
    PROVE  RunInv'
<1>. USE DEF RunInv, TypeOK, Records, Phases, Terminal, NoTime, platformVars, loopVars
<1>1. CASE ReadBefore
  BY <1>1 DEF ReadBefore, Report, Fault
<1>2. CASE Send
  BY <1>2 DEF Send, Report, Fault, Unawaited
<1>3. CASE ReadBack
  BY <1>3 DEF ReadBack, Fault
<1>4. CASE StartWait
  BY <1>4 DEF StartWait
<1>5. CASE Fetch
  BY <1>5 DEF Fetch, Report, Fault
<1>6. CASE Decide
  BY <1>6 DEF Decide, Report
<1>7. CASE Wake
  BY <1>7 DEF Wake
<1>8. CASE Tick
  BY <1>8 DEF Tick
<1>9. CASE pc # "done" /\ PickUp
  BY <1>9 DEF PickUp, Becomes, MarkOf
<1>10. CASE pc # "done" /\ OtherStarts
  BY <1>10 DEF OtherStarts, Becomes, MarkOf, HasPast
<1>14. CASE pc # "done" /\ JobRemoved
  BY <1>14 DEF JobRemoved
<1>11. ASSUME NEW outcome \in Terminal, pc # "done", Finish(outcome)
      PROVE  RunInv'
  BY <1>11 DEF Finish, Becomes, MarkOf
<1>12. ASSUME NEW outcome \in Terminal, pc # "done", OtherEnds(outcome)
      PROVE  RunInv'
  BY <1>12 DEF OtherEnds, Becomes, MarkOf
<1>13. CASE UNCHANGED vars
  BY <1>13 DEF vars
<1>. QED  BY <1>1, <1>2, <1>3, <1>4, <1>5, <1>6, <1>7, <1>8, <1>9, <1>10, <1>11, <1>12, <1>13, <1>14, StepCases

LEMMA MarkStep ==
    ASSUME TypeOK, TypeOK', TimeInv, RunInv, MarkInv, [Next]_vars
    PROVE  MarkInv'
<1>. USE DEF MarkInv, TimeMarked, RunInv, TypeOK, Records, Phases, Terminal, NoMark, platformVars, loopVars
<1>1. CASE ReadBefore
  BY <1>1 DEF ReadBefore, Report, Fault
<1>2. CASE Send
  BY <1>2 DEF Send, Report, Fault, Unawaited
<1>3. CASE ReadBack
  BY <1>3 DEF ReadBack, Fault
<1>4. CASE StartWait
  BY <1>4 DEF StartWait
<1>5. CASE Fetch
  BY <1>5 DEF Fetch, Report, Fault
<1>6. CASE Decide
  BY <1>6 DEF Decide, Report
<1>7. CASE Wake
  BY <1>7 DEF Wake
<1>8. CASE Tick
  BY <1>8 DEF Tick
<1>9. CASE pc # "done" /\ PickUp
  BY <1>9 DEF PickUp, Becomes, MarkOf
<1>10. CASE pc # "done" /\ OtherStarts
  BY <1>10 DEF OtherStarts, Becomes, MarkOf, HasPast
<1>14. CASE pc # "done" /\ JobRemoved
  BY <1>14 DEF JobRemoved
<1>11. ASSUME NEW outcome \in Terminal, pc # "done", Finish(outcome)
      PROVE  MarkInv'
  BY <1>11 DEF Finish, Becomes, MarkOf
<1>12. ASSUME NEW outcome \in Terminal, pc # "done", OtherEnds(outcome)
      PROVE  MarkInv'
  BY <1>12 DEF OtherEnds, Becomes, MarkOf
<1>13. CASE UNCHANGED vars
  BY <1>13 DEF vars
<1>. QED  BY <1>1, <1>2, <1>3, <1>4, <1>5, <1>6, <1>7, <1>8, <1>9, <1>10, <1>11, <1>12, <1>13, <1>14, StepCases

LEMMA ReadStep ==
    ASSUME TypeOK, TypeOK', TimeInv, RunInv, MarkInv, ReadInv, [Next]_vars
    PROVE  ReadInv'
<1>. USE DEF ReadInv, TimeMarked, TypeOK, Records, Phases, Terminal, NoMark, NoTime, platformVars, loopVars
<1>1. CASE ReadBefore
  BY <1>1 DEF ReadBefore, Report, Fault
<1>2. CASE Send
  BY <1>2 DEF Send, Report, Fault, Unawaited
<1>3. CASE ReadBack
  BY <1>3 DEF ReadBack, Fault
<1>4. CASE StartWait
  BY <1>4 DEF StartWait
<1>5. CASE Fetch
  <2>1. CASE pc' = "answer"
    <3>1. /\ reading' = shown /\ phase' = own
          /\ seen' = (seen \/ shown.state = "busy")
          /\ UNCHANGED <<call, shown, own, endedAt, others, before, readFirst, since>>
      BY <1>5, <2>1 DEF Fetch, Report
    <3>2. /\ reading'.state = "busy" => seen'
          /\ others' = 0 /\ reading'.run # "old" => reading'.run = "own"
          /\ endedAt' # NoTime /\ endedAt' < since' => reading' = shown'
          /\ TimeMarked(call'.kind) => before' <= reading'.mark
      BY <3>1 DEF MarkInv, RunInv
    <3>3. others' = 0 /\ reading'.run = "old" => ~seen'
      BY <3>1 DEF MarkInv, RunInv
    <3>4. others' = 0 /\ reading'.run = "old" => (before' # NoMark => reading'.mark = before')
      BY <3>1 DEF MarkInv, RunInv
    <3>5. call'.kind = "ems" /\ readFirst' /\ others' = 0 /\ before' # NoMark =>
             phase' \in {"unsent", "queued"} \/ seen' \/ reading'.mark # before'
      <4>1. CASE own \in {"unsent", "queued"}
        BY <3>1, <4>1
      <4>2. CASE own = "busy"
        BY <3>1, <4>2 DEF RunInv
      <4>3. CASE own \in Terminal
        <5>. SUFFICES ASSUME call.kind = "ems", readFirst, others = 0, before # NoMark
                      PROVE  shown.mark # before
          BY <3>1
        <5>1. shown.mark = before + 1 /\ before \in Nat
          BY <4>3 DEF MarkInv
        <5>. QED  BY <5>1
      <4>. QED  BY <4>1, <4>2, <4>3
    <3>. QED  BY <3>2, <3>3, <3>4, <3>5
  <2>2. CASE pc' # "answer"
    BY <2>2
  <2>. QED  BY <2>1, <2>2
<1>6. CASE Decide
  BY <1>6 DEF Decide, Report
<1>7. CASE Wake
  BY <1>7 DEF Wake
<1>8. CASE Tick
  BY <1>8 DEF Tick
<1>9. CASE pc # "done" /\ PickUp
  BY <1>9 DEF PickUp, Becomes, MarkOf, RunInv
<1>10. CASE pc # "done" /\ OtherStarts
  BY <1>10 DEF OtherStarts, Becomes, MarkOf, HasPast, RunInv
<1>14. CASE pc # "done" /\ JobRemoved
  BY <1>14 DEF JobRemoved, RunInv
<1>11. ASSUME NEW outcome \in Terminal, pc # "done", Finish(outcome)
      PROVE  ReadInv'
  BY <1>11 DEF Finish, Becomes, MarkOf, RunInv, TimeInv, Polling
<1>12. ASSUME NEW outcome \in Terminal, pc # "done", OtherEnds(outcome)
      PROVE  ReadInv'
  BY <1>12 DEF OtherEnds, Becomes, MarkOf, RunInv
<1>13. CASE UNCHANGED vars
  BY <1>13 DEF vars
<1>. QED  BY <1>1, <1>2, <1>3, <1>4, <1>5, <1>6, <1>7, <1>8, <1>9, <1>10, <1>11, <1>12, <1>13, <1>14, StepCases

LEMMA InitInv == Init => Inv
<1>. SUFFICES ASSUME Init
              PROVE  Inv
  OBVIOUS
<1>1. /\ now = 1 /\ start = 0 /\ result = "none" /\ others = 0 /\ before = NoMark /\ endedAt = NoTime
      /\ readFirst = FALSE
      /\ own = "unsent" /\ seen = FALSE
      /\ shown.state # "busy" /\ shown.run = "old"
      /\ shown.mark \in {NoMark, 1}
      /\ pc \in {"read", "send"}
  BY DEF Init, Terminal
<1>2. TimeInv
  BY <1>1 DEF TimeInv, Before, Polling
<1>3. RunInv
  BY <1>1 DEF RunInv, Terminal
<1>4. MarkInv
  BY <1>1 DEF MarkInv, NoMark, TimeMarked
<1>5. ReadInv
  BY <1>1 DEF ReadInv
<1>. QED  BY InitType, <1>2, <1>3, <1>4, <1>5 DEF Inv

LEMMA NextInv == Inv /\ [Next]_vars => Inv'
<1>. SUFFICES ASSUME Inv, [Next]_vars
              PROVE  Inv'
  OBVIOUS
<1>1. TypeOK'
  BY TypeStep DEF Inv
<1>2. TimeInv' /\ RunInv' /\ MarkInv' /\ ReadInv'
  BY <1>1, TimeStep, RunStep, MarkStep, ReadStep DEF Inv
<1>. QED  BY <1>1, <1>2 DEF Inv

\* The four layers hold of every wait.
THEOREM WaitInvariant == Spec => []Inv
BY InitInv, NextInv, PTL DEF Spec

--------------------------------------------------------------------------------
(* Reports. *)

\* The wait, its clock and the platform's record stay within their types.
THEOREM TypeCorrect == Spec => []TypeOK
<1>1. Inv => TypeOK
  BY DEF Inv
<1>. QED  BY <1>1, WaitInvariant, PTL

\* No read begins after the time is up.
THEOREM BudgetTheorem == Spec => []WithinBudget
<1>1. Inv => WithinBudget
  BY DEF Inv, TimeInv, WithinBudget
<1>. QED  BY <1>1, WaitInvariant, PTL

\* A report other than a refusal or an error is made by the loop, and only once.
LEMMA ReportedOnce ==
    ASSUME Inv, [Next]_vars
    PROVE  UNCHANGED vars \/ result' \in {"none", "refused", "error", "unawaited"} \/ Decide
<1>1. TimeInv'
  BY NextInv DEF Inv
<1>2. CASE pc' # "done"
  BY <1>1, <1>2 DEF TimeInv
<1>3. CASE pc' = "done"
  <2>1. CASE ReadBefore
    BY <1>3, <2>1 DEF ReadBefore, Report
  <2>2. CASE Send
    BY <1>3, <2>2 DEF Send, Report, Unawaited
  <2>3. CASE Fetch
    BY <1>3, <2>3 DEF Fetch, Report
  <2>4. CASE ReadBack \/ StartWait \/ Wake
    BY <1>3, <2>4 DEF ReadBack, StartWait, Wake
  <2>5. CASE Tick
    BY <1>3, <2>5 DEF Tick
  <2>6. ASSUME pc # "done",
               \/ PickUp \/ OtherStarts \/ JobRemoved
               \/ \E outcome \in Terminal : Finish(outcome) \/ OtherEnds(outcome)
        PROVE  FALSE
    BY <1>3, <2>6 DEF PickUp, OtherStarts, JobRemoved, Finish, OtherEnds
  <2>. QED  BY <2>1, <2>2, <2>3, <2>4, <2>5, <2>6, StepCases
<1>. QED  BY <1>2, <1>3

\* What has been decided on is the last read, which the decision leaves as it is.
LEMMA DecideReports ==
    ASSUME Inv, Decide
    PROVE  /\ pc = "answer"
           /\ UNCHANGED <<call, now, platformVars, before, readFirst, start, reading, phase, seen>>
           /\ result' \in Terminal => Done(reading) /\ reading.state \in Terminal
           /\ result' \in {"timeout", "notstarted"} => ~Done(reading) /\ TimeIsUp
           /\ result' = "notstarted" => NotStarted(reading)
<1>. USE DEF Decide, Report
<1>1. pc = "answer" /\ result = "none"
  BY DEF Inv, TimeInv
<1>2. CASE Done(reading) /\ result' = EndVerdict(reading)
  <2>1. reading.state \in Terminal \union {"none", "busy", "absent"}
    BY DEF Inv, TypeOK, Records, States
  <2>2. /\ EndVerdict(reading) \in Terminal => reading.state \in Terminal
        /\ EndVerdict(reading) \notin {"timeout", "notstarted"}
    BY <2>1 DEF EndVerdict, EmsVerdict, Terminal
  <2>. QED  BY <1>1, <1>2, <2>2
<1>3. CASE /\ ~Done(reading) /\ TimeIsUp
           /\ result' = IF NotStarted(reading) THEN "notstarted" ELSE "timeout"
  BY <1>1, <1>3 DEF Terminal
<1>4. CASE result' = result
  BY <1>1, <1>4 DEF Terminal
<1>. QED  BY <1>2, <1>3, <1>4

LEMMA VerdictStep == Inv /\ VerdictIsOwn /\ [Next]_vars => VerdictIsOwn'
<1>. SUFFICES ASSUME Inv, VerdictIsOwn, [Next]_vars
              PROVE  VerdictIsOwn'
  OBVIOUS
<1>1. CASE UNCHANGED vars
  BY <1>1 DEF vars, platformVars, loopVars, VerdictIsOwn, Marked, TimeMarked
<1>2. CASE result' \in {"none", "refused", "error", "unawaited"}
  BY <1>2 DEF VerdictIsOwn, Terminal
<1>3. CASE Decide
  <2>. SUFFICES ASSUME result' \in Terminal, Marked(call.kind), before # NoMark, others = 0,
                       reading.run # "own"
                PROVE  FALSE
    BY <1>3, DecideReports DEF VerdictIsOwn, Marked, TimeMarked, platformVars
  <2>1. pc = "answer" /\ Done(reading) /\ reading.state # "absent"
    BY <1>3, DecideReports DEF Terminal
  <2>2. reading.run = "old"
    BY <2>1 DEF Inv, ReadInv
  <2>3. ~seen /\ reading.mark = before
    BY <2>1, <2>2 DEF Inv, ReadInv
  <2>4. CASE TimeMarked(call.kind)
    BY <2>1, <2>3, <2>4 DEF Done, NsoDone, IsStale, TimeMarked, Inv, TypeOK
  <2>5. CASE call.kind = "ems"
    BY <2>1, <2>3, <2>5 DEF Done, EmsDone, RunSeen, NotUnderWay, TimeMarked
  <2>. QED  BY <2>4, <2>5 DEF Marked
<1>. QED  BY <1>1, <1>2, <1>3, ReportedOnce

\* A verdict is not that of the run before, for a record that carries a mark.
THEOREM VerdictTheorem == Spec => []VerdictIsOwn
<1>1. Init => VerdictIsOwn
  BY DEF Init, VerdictIsOwn, Terminal
<1>. QED  BY <1>1, VerdictStep, WaitInvariant, PTL DEF Spec

LEMMA NotStartedStep == Inv /\ NotStartedIsTrue /\ [Next]_vars => NotStartedIsTrue'
<1>. SUFFICES ASSUME Inv, NotStartedIsTrue, [Next]_vars
              PROVE  NotStartedIsTrue'
  OBVIOUS
<1>1. CASE UNCHANGED vars
  BY <1>1 DEF vars, platformVars, loopVars, NotStartedIsTrue
<1>2. CASE result' \in {"none", "refused", "error", "unawaited"}
  BY <1>2 DEF NotStartedIsTrue
<1>3. CASE Decide
  <2>. SUFFICES ASSUME result' = "notstarted", readFirst, others = 0
                PROVE  \/ phase \in {"unsent", "queued"}
                       \/ call.kind = "nso" /\ reading.mark = before
    BY <1>3, DecideReports DEF NotStartedIsTrue, platformVars
  <2>1. pc = "answer" /\ NotStarted(reading)
    BY <1>3, DecideReports
  <2>2. CASE call.kind = "nso" /\ IsStale(reading)
    <3>1. reading.mark <= before /\ before <= reading.mark /\ reading.mark \in Nat /\ before \in Nat
      BY <2>1, <2>2 DEF IsStale, TimeMarked, Inv, ReadInv, TypeOK, Records
    <3>. QED  BY <2>2, <3>1
  <2>3. CASE call.kind = "ems" /\ before # NoMark /\ ~RunSeen(reading)
    BY <2>1, <2>3 DEF RunSeen, Inv, ReadInv
  <2>. QED  BY <2>1, <2>2, <2>3 DEF NotStarted
<1>. QED  BY <1>1, <1>2, <1>3, ReportedOnce

\* "Not started yet" is said only of a run the platform had not picked up at that look,
\* where the record had a mark to be read before the run was asked for.
THEOREM NotStartedTheorem == Spec => []NotStartedIsTrue
<1>1. Init => NotStartedIsTrue
  BY DEF Init, NotStartedIsTrue
<1>. QED  BY <1>1, NotStartedStep, WaitInvariant, PTL DEF Spec

LEMMA ConvergenceStep == Inv /\ ConvergenceSeen /\ [Next]_vars => ConvergenceSeen'
<1>. SUFFICES ASSUME Inv, ConvergenceSeen, [Next]_vars
              PROVE  ConvergenceSeen'
  OBVIOUS
<1>1. CASE UNCHANGED vars
  BY <1>1 DEF vars, platformVars, loopVars, ConvergenceSeen, Marked, TimeMarked
<1>2. CASE result' \in {"none", "refused", "error", "unawaited"}
  BY <1>2 DEF ConvergenceSeen
<1>3. CASE Decide
  <2>. SUFFICES ASSUME result' \in {"timeout", "notstarted"},
                       endedAt # NoTime,
                       \/ endedAt < start
                       \/ endedAt <= start + call.timeout - call.interval - MaxFetch,
                       Marked(call.kind) => shown.mark # before,
                       call.kind \in {"sr", "gone", "reach", "unroute"} => own = "ok"
                PROVE  FALSE
    BY <1>3, DecideReports DEF ConvergenceSeen, Marked, TimeMarked, platformVars
  <2>1. pc = "answer" /\ ~Done(reading) /\ now - start + call.interval > call.timeout
    BY <1>3, DecideReports DEF TimeIsUp, Elapsed
  <2>2. /\ {now, start, since, call.timeout, call.interval} \subseteq Nat
        /\ endedAt \in Nat
    BY BudgetType DEF Inv, TypeOK
  <2>3. start <= since /\ now <= since + MaxFetch
    BY <2>1 DEF Inv, TimeInv, Polling
  <2>4. endedAt < since
    BY <2>1, <2>2, <2>3
  <2>5. reading = shown
    BY <2>1, <2>4 DEF Inv, ReadInv
  <2>6. own \in Terminal /\ reading.state = own
    BY <2>5 DEF Inv, RunInv, TypeOK, Phases, Terminal
  <2>7. CASE TimeMarked(call.kind)
    <3>1. before <= reading.mark /\ reading.mark # before /\ reading.mark \in Nat /\ before \in Nat
      BY <2>1, <2>5, <2>7 DEF Inv, ReadInv, Marked, TypeOK, Records
    <3>. QED  BY <2>1, <2>6, <2>7, <3>1 DEF Done, NsoDone, IsStale, OutcomeThere
  <2>8. CASE call.kind = "ems"
    BY <2>1, <2>5, <2>6, <2>8 DEF Done, EmsDone, RunSeen, Marked, NotUnderWay, Terminal
  <2>9. CASE call.kind \in {"plan", "backup", "deploy", "route"}
    BY <2>1, <2>6, <2>9 DEF Done, OutcomeThere
  <2>10. CASE call.kind \in {"job", "trace", "perf"}
    BY <2>1, <2>6, <2>10 DEF Done, NotUnderWay, Terminal
  <2>11. CASE call.kind \in {"sr", "gone", "reach", "unroute"}
    BY <2>1, <2>6, <2>11 DEF Done, Reached
  <2>12. call.kind \in AllKinds
    BY DEF Inv, TypeOK
  <2>. QED  BY <2>7, <2>8, <2>9, <2>10, <2>11, <2>12 DEF AllKinds, TimeMarked
<1>. QED  BY <1>1, <1>2, <1>3, ReportedOnce

\* An outcome that was there in time is not reported as a timeout.
THEOREM ConvergenceTheorem == Spec => []ConvergenceSeen
<1>1. Init => ConvergenceSeen
  BY DEF Init, ConvergenceSeen
<1>. QED  BY <1>1, ConvergenceStep, WaitInvariant, PTL DEF Spec

--------------------------------------------------------------------------------
(* What WaitReturns says of every step: that a wait which can go on does, and that *)
(* time goes on, is the fairness TLC adds.                                         *)

\* The round of the loop: a read, its answer, a pause.
Order(label) ==
    CASE label = "fetch" -> 1
      [] label = "answer" -> 2
      [] label = "sleep" -> 3
      [] OTHER -> 0

\* To the report, to a later moment within the budget, or further round the loop.
TakenOn ==
    \/ pc' = "done"
    \/ since' \in since + 1 .. start + call.timeout
    \/ since' = since /\ Order(pc') > Order(pc)

\* Every step of the loop takes the wait on, whatever it reads; the clock does not run
\* past the budget and one read while the wait polls; and nothing the platform or
\* other users do puts the wait back.
WaitGoesOn ==
    [][(pc \in Polling) =>
         /\ Loop => TakenOn /\ UNCHANGED <<call, start>>
         /\ now' <= start + call.timeout + MaxFetch
         /\ ~Loop => UNCHANGED <<call, start, since, pc>>]_vars

LEMMA LoopTakesOn ==
    ASSUME Inv, Loop
    PROVE  TakenOn
<1>1. /\ {now, start, since, call.timeout, call.interval} \subseteq Nat
      /\ call.interval >= 1
  BY BudgetType DEF Inv, TypeOK
<1>2. CASE Fetch
  BY <1>2 DEF Fetch, Report, TakenOn, Order
<1>3. CASE Decide
  <2>1. SUFFICES ASSUME pc' # "done"
                 PROVE  TakenOn
    BY DEF TakenOn
  <2>2. pc = "answer" /\ ~TimeIsUp /\ pc' = "sleep" /\ since' = now
    BY <1>3, <2>1 DEF Decide, Report
  <2>3. since <= now /\ now <= start + call.timeout
    BY <1>1, <2>2 DEF Inv, TimeInv, Polling, TimeIsUp, Elapsed
  <2>4. since' = since \/ since' \in since + 1 .. start + call.timeout
    BY <1>1, <2>2, <2>3
  <2>. QED  BY <2>2, <2>4 DEF TakenOn, Order
<1>4. CASE Wake
  <2>1. since' = since + call.interval /\ since + call.interval <= start + call.timeout
    BY <1>1, <1>4 DEF Wake, Inv, TimeInv
  <2>2. since' \in since + 1 .. start + call.timeout
    BY <1>1, <2>1
  <2>. QED  BY <2>2 DEF TakenOn
<1>. QED  BY <1>2, <1>3, <1>4 DEF Loop

\* A wait has no more than so many steps to its report.
THEOREM WaitsEnd == Spec => WaitGoesOn
<1>1. ASSUME Inv, [Next]_vars, pc \in Polling
      PROVE  /\ Loop => TakenOn /\ UNCHANGED <<call, start>>
             /\ now' <= start + call.timeout + MaxFetch
             /\ ~Loop => UNCHANGED <<call, start, since, pc>>
  <2>1. Loop => TakenOn /\ UNCHANGED <<call, start>>
    BY <1>1, LoopTakesOn DEF Loop, Fetch, Decide, Wake
  <2>2. {now, start, since, call.timeout, call.interval} \subseteq Nat
    BY <1>1, BudgetType DEF Inv, TypeOK
  <2>3. now <= start + call.timeout + MaxFetch
    BY <1>1, <2>2 DEF Inv, TimeInv, Polling
  <2>4. CASE Tick
    <3>1. now' = now + 1 /\ UNCHANGED <<call, start, since, pc>>
      BY <2>4 DEF Tick, loopVars
    <3>2. now' <= start + call.timeout + MaxFetch
      BY <1>1, <2>2, <2>4, <3>1 DEF Tick, Inv, TimeInv, Polling
    <3>. QED  BY <2>1, <3>1, <3>2
  <2>5. CASE now' = now
    <3>1. ~Loop => UNCHANGED <<call, start, since, pc>>
      BY <1>1, StepCases DEF ReadBefore, Send, ReadBack, StartWait, Loop, Tick, PickUp,
             OtherStarts, JobRemoved, Finish, OtherEnds, vars, loopVars, Polling
    <3>. QED  BY <2>1, <2>3, <2>5, <3>1
  <2>6. Tick \/ now' = now
    BY <1>1, StepCases DEF ReadBefore, Send, ReadBack, StartWait, Fetch, Decide, Wake, PickUp,
           OtherStarts, JobRemoved, Finish, OtherEnds, vars
  <2>. QED  BY <2>4, <2>5, <2>6
<1>2. Inv /\ [Next]_vars
        => [(pc \in Polling) =>
              /\ Loop => TakenOn /\ UNCHANGED <<call, start>>
              /\ now' <= start + call.timeout + MaxFetch
              /\ ~Loop => UNCHANGED <<call, start, since, pc>>]_vars
  BY <1>1
<1>. QED  BY <1>2, WaitInvariant, PTL DEF Spec, WaitGoesOn
================================================================================
