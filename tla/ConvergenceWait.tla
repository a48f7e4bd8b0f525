---------------------------- MODULE ConvergenceWait ----------------------------
(***************************************************************************)
(* polling.wait_until() and the tools that wait with it for something they, *)
(* or the call before them, have set going: a service commit ("plan",      *)
(* cnc_wait_for_service_plan), an NSO device action ("nso") or check-sync  *)
(* ("check"), a run of an EMS scheduler job ("ems"), a config backup       *)
(* ("backup"), a template deployment ("deploy"), an inventory job ("job"), *)
(* a trace route ("trace"), the reachability of a device ("reach"), the    *)
(* devices of an activated policy ("perf"), an SR policy that comes up     *)
(* ("sr") or goes ("gone"), a ZTP static route that is added ("route") or  *)
(* removed ("unroute").  What goes away has the outcome "ok" when it is    *)
(* gone.                                                                   *)
(*                                                                         *)
(* The platform shows one record per service, device or job, and goes on   *)
(* showing what it was before until it has picked the new run up.  What    *)
(* tells the two apart is the record's mark: lastRunJobId of a scheduler   *)
(* job, nso_timestamp (in seconds) of a device, nothing for a plan.  The   *)
(* tools that start a run read the mark first and hand it to the wait.  A  *)
(* job that has never run has a record without a mark, and an unknown or   *)
(* removed one ("absent") has no record.                                   *)
(*                                                                         *)
(* A run of the model is one such call: request, wait, verdict.            *)
(***************************************************************************)
EXTENDS Integers

CONSTANTS
    Kinds,          \* what is waited for
    Timeouts,       \* timeout_seconds, wait_seconds
    Intervals,      \* interval_seconds
    MaxFetch,       \* bound: the longest a read may take
    MaxDelay,       \* bound: when the wait begins at the latest
    MaxNow,         \* bound: how long the clock runs
    MaxOthers,      \* bound: what others start or remove before ours is picked up
    MaxFaults       \* bound: reads and writes that fail

AllKinds == {"plan", "nso", "check", "ems", "backup", "deploy", "job", "trace",
             "reach", "perf", "sr", "gone", "route", "unroute"}

ASSUME WaitAssumption ==
    /\ Kinds \subseteq AllKinds
    /\ Timeouts \subseteq Nat
    /\ Intervals \subseteq Nat \ {0}
    /\ MaxFetch \in Nat
    /\ MaxDelay \in Nat
    /\ MaxNow \in Nat
    /\ MaxOthers \in Nat
    /\ MaxFaults \in Nat

Terminal == {"ok", "failed"}
States == Terminal \union {"none", "busy", "absent"}
Runs == {"old", "own", "other"}
NoMark == 0
Records == [state : States, mark : Nat, run : Runs]
Phases == {"unsent", "queued", "busy"} \union Terminal
PCs == {"read", "send", "readback", "wait", "fetch", "answer", "sleep", "done"}
Results == Terminal \union {"none", "refused", "error", "unawaited", "idle", "nojob",
                            "notstarted", "timeout"}

VARIABLES
    call,       \* what the call waits for, how long and how often it looks
    now,        \* time.monotonic(), and the platform's clock
    shown,      \* the record the platform shows
    own,        \* how far the run that was asked for has got
    endedAt,    \* when that was, once it has ended
    others,     \* runs started and jobs removed by others
    faults,     \* reads and writes that have failed
    pc,         \* where the call stands
    before,     \* the mark read before, previous_run_job_id or after_timestamp
    readFirst,  \* whether a mark was there to be read before the run was asked for
    start,      \* when wait_until() was entered
    since,      \* when the read or the sleep at hand began
    reading,    \* the last state read
    phase,      \* how far the run had got when it was read
    seen,       \* seen_in_progress
    result      \* what the call reported

platformVars == <<shown, own, endedAt, others>>
loopVars == <<start, since, reading, phase, seen>>
vars == <<call, now, platformVars, faults, pc, before, readFirst, loopVars, result>>

NoTime == -1

TypeOK ==
    /\ call \in [kind : Kinds, timeout : Timeouts, interval : Intervals, markAtStart : BOOLEAN]
    /\ now \in Nat
    /\ shown \in Records
    /\ own \in Phases
    /\ endedAt \in Nat \union {NoTime}
    /\ others \in 0 .. MaxOthers
    /\ faults \in 0 .. MaxFaults
    /\ pc \in PCs
    /\ before \in Nat
    /\ readFirst \in BOOLEAN
    /\ start \in Nat
    /\ since \in Nat
    /\ reading \in Records
    /\ phase \in Phases
    /\ seen \in BOOLEAN
    /\ result \in Results

\* Services, devices, scheduler jobs and policies have a past; the name of a backup,
\* the id of a job, a deployment or a trace and the key of an SR policy or a route are
\* new, and what is to be removed is there.
HasPast(kind) == kind \in {"plan", "nso", "check", "ems", "reach", "perf"}

\* The record of a device carries the time, that of a scheduler job the id of its run.
TimeMarked(kind) == kind \in {"nso", "check"}
Marked(kind) == TimeMarked(kind) \/ kind = "ems"

\* The tools that read the record before they send; a route is read for its name.
ReadsFirst(kind) == Marked(kind) \/ kind = "unroute"

Init ==
    /\ call \in [kind : Kinds, timeout : Timeouts, interval : Intervals, markAtStart : BOOLEAN]
    /\ now = 1
    /\ shown \in [state : {"none", "absent"} \union Terminal, mark : {NoMark, 1}, run : {"old"}]
    /\ ~HasPast(call.kind) => shown.state = "none"
    /\ shown.state = "absent" => call.kind = "ems" /\ shown.mark = NoMark
    /\ shown.mark = 1 => Marked(call.kind)
    /\ shown.state \in Terminal /\ Marked(call.kind) => shown.mark = 1
    /\ own = "unsent"
    /\ endedAt = NoTime
    /\ others = 0
    /\ faults = 0
    /\ pc = IF ReadsFirst(call.kind) THEN "read" ELSE "send"
    /\ before = NoMark
    /\ readFirst = FALSE
    /\ start = 0
    /\ since = 0
    /\ reading = shown
    /\ phase = "unsent"
    /\ seen = FALSE
    /\ result = "none"

--------------------------------------------------------------------------------
(* The tools that start a run. *)

Report(what) ==
    /\ pc' = "done"
    /\ result' = what

Fault == faults < MaxFaults /\ faults' = faults + 1

\* The record is read before anything is sent, for its mark.  A scheduler job that
\* is running is not run again, and there is nothing to run where there is no job; a
\* read that fails stops any tool but that one.
ReadBefore ==
    /\ pc = "read"
    /\ \/ /\ ~(call.kind = "ems" /\ shown.state \in {"busy", "absent"})
          /\ before' = shown.mark
          /\ readFirst' = (shown.mark # NoMark)
          /\ pc' = "send"
          /\ UNCHANGED <<faults, result>>
       \/ /\ call.kind = "ems" /\ shown.state \in {"busy", "absent"}
          /\ Report("refused")
          /\ UNCHANGED <<before, readFirst, faults>>
       \/ /\ Fault
          /\ \/ call.kind = "ems" /\ pc' = "send" /\ UNCHANGED result
             \/ call.kind # "ems" /\ Report("error")
          /\ UNCHANGED <<before, readFirst>>
    /\ UNCHANGED <<call, now, platformVars, loopVars>>

\* A check-sync that is given no seconds is not waited for; the other tools then look
\* once.
Unawaited == call.kind = "check" /\ call.timeout = 0

\* The run is asked for and accepted, or the call fails; the scheduler does not accept
\* a run of a job it does not know.
Send ==
    /\ pc = "send"
    /\ \/ /\ shown.state # "absent"
          /\ own' = "queued" /\ Unawaited
          /\ Report("unawaited")
          /\ UNCHANGED faults
       \/ /\ shown.state # "absent"
          /\ own' = "queued" /\ ~Unawaited
          /\ pc' = IF call.kind = "ems" THEN "readback" ELSE "wait"
          /\ UNCHANGED <<faults, result>>
       \/ /\ \/ Fault
             \/ shown.state = "absent" /\ UNCHANGED faults
          /\ Report("error")
          /\ UNCHANGED own
    /\ UNCHANGED <<call, now, shown, endedAt, others, before, readFirst, loopVars>>

\* A scheduler job is read back; when no mark is known so far, because the read before
\* failed or found none, the mark it then has is taken for that of the run before,
\* provided it is not In-Progress.
ReadBack_Overwrites ==
    /\ pc = "readback"
    /\ pc' = "wait"
    /\ \/ /\ before' = IF shown.state # "busy" THEN shown.mark ELSE before
          /\ UNCHANGED faults
       \/ Fault /\ UNCHANGED before
    /\ UNCHANGED <<call, now, platformVars, readFirst, loopVars, result>>
ReadBack ==
    /\ pc = "readback"
    /\ pc' = "wait"
    /\ \/ /\ before' = IF before = NoMark /\ shown.state # "busy" THEN shown.mark ELSE before
          /\ UNCHANGED faults
       \/ Fault /\ UNCHANGED before
    /\ UNCHANGED <<call, now, platformVars, readFirst, loopVars, result>>

--------------------------------------------------------------------------------
(* What each wait tool takes for the end. *)

IsStale_Older(r) == before # NoMark /\ r.mark # NoMark /\ r.mark < before
IsStale(r) == before # NoMark /\ r.mark # NoMark /\ r.mark <= before

\* run_seen(): In-Progress was seen, or the id has moved on.
RunSeen(r) == seen \/ (before # NoMark /\ r.mark # before)

\* A plan, a backup, a deployment and a new route have an outcome or none yet; what
\* is not there yet is waited for.
OutcomeThere(r) == r.state \in Terminal

\* An inventory job or a trace that is not there ends the wait with an error; an
\* activated policy may have no devices to deploy to.
NotUnderWay(r) == r.state # "busy"

\* Waited for in vain until the time is up, when it fails.
Reached(r) == r.state = "ok"

NsoDone(r) == ~IsStale(r) /\ OutcomeThere(r)
EmsDone(r) ==
    \/ r.state = "absent"
    \/ NotUnderWay(r) /\ (before = NoMark \/ RunSeen(r))

Done(r) ==
    \/ call.kind \in {"plan", "backup", "deploy", "route"} /\ OutcomeThere(r)
    \/ call.kind \in {"job", "trace", "perf"} /\ NotUnderWay(r)
    \/ call.kind \in {"sr", "gone", "reach", "unroute"} /\ Reached(r)
    \/ TimeMarked(call.kind) /\ NsoDone(r)
    \/ call.kind = "ems" /\ EmsDone(r)

\* The report when the wait has ended by itself, and when its time is up.
EmsVerdict(r) == IF RunSeen(r) THEN r.state ELSE "idle"
EndVerdict(r) ==
    CASE r.state = "absent" -> "nojob"
      [] call.kind = "ems" /\ r.state # "absent" -> EmsVerdict(r)
      [] call.kind \in {"job", "trace"} /\ r.state = "none" -> "nojob"
      [] call.kind = "perf" /\ r.state = "none" -> "idle"
      [] OTHER -> r.state

NotStarted(r) ==
    \/ call.kind = "nso" /\ IsStale(r)
    \/ call.kind = "ems" /\ before # NoMark /\ ~RunSeen(r)

--------------------------------------------------------------------------------
(* wait_until(). *)

\* The agent calls the wait tool, or the starting tool goes on to wait.
StartWait ==
    /\ pc = "wait"
    /\ pc' = "fetch"
    /\ start' = now
    /\ since' = now
    /\ UNCHANGED <<call, now, platformVars, faults, before, readFirst, reading, phase, seen, result>>

\* The platform answers a read with what it shows at that moment, or the read fails:
\* an error ends the wait.
Fetch ==
    /\ pc = "fetch"
    /\ \/ /\ reading' = shown
          /\ phase' = own
          /\ seen' = (seen \/ shown.state = "busy")
          /\ pc' = "answer"
          /\ UNCHANGED <<faults, result>>
       \/ /\ Fault
          /\ Report("error")
          /\ UNCHANGED <<reading, phase, seen>>
    /\ UNCHANGED <<call, now, platformVars, before, readFirst, start, since>>

Elapsed_SinceLastRead == now - since
Elapsed == now - start
TimeIsUp_Late == Elapsed > call.timeout
TimeIsUp_Early == Elapsed + 2 * call.interval > call.timeout
TimeIsUp == Elapsed + call.interval > call.timeout

Decide ==
    /\ pc = "answer"
    /\ \/ Done(reading) /\ Report(EndVerdict(reading)) /\ UNCHANGED since
       \/ /\ ~Done(reading) /\ TimeIsUp
          /\ Report(IF NotStarted(reading) THEN "notstarted" ELSE "timeout")
          /\ UNCHANGED since
       \/ /\ ~Done(reading) /\ ~TimeIsUp
          /\ pc' = "sleep"
          /\ since' = now
          /\ UNCHANGED result
    /\ UNCHANGED <<call, now, platformVars, faults, before, readFirst, start, reading, phase, seen>>

Wake ==
    /\ pc = "sleep"
    /\ now = since + call.interval
    /\ pc' = "fetch"
    /\ since' = now
    /\ UNCHANGED <<call, now, platformVars, faults, before, readFirst, start, reading, phase, seen, result>>

--------------------------------------------------------------------------------
(* Time, and the platform. *)

Tick ==
    /\ now < MaxNow
    /\ \/ pc \in {"read", "send", "readback", "wait"} /\ now < MaxDelay
       \/ pc \in {"fetch", "answer"} /\ now < since + MaxFetch
       \/ pc = "sleep" /\ now < since + call.interval
    /\ now' = now + 1
    /\ UNCHANGED <<call, platformVars, faults, pc, before, readFirst, loopVars, result>>

\* The mark of a record that changes: a device's is the time, a scheduler job's a new
\* id, which it gets when the run starts or when it ends.
MarkOf(starts) ==
    CASE TimeMarked(call.kind) -> now
      [] call.kind = "ems" -> shown.mark + (IF starts = call.markAtStart THEN 1 ELSE 0)
      [] OTHER -> NoMark

Becomes(state, run) == [state |-> state, mark |-> MarkOf(state = "busy"), run |-> run]

\* The platform gets to the run that was asked for.
PickUp ==
    /\ own = "queued"
    /\ shown.state \notin {"busy", "absent"}
    /\ own' = "busy"
    /\ shown' = Becomes("busy", "own")
    /\ UNCHANGED <<call, now, endedAt, others, faults, pc, before, readFirst, loopVars, result>>

Finish(outcome) ==
    /\ own = "busy"
    /\ own' = outcome
    /\ shown' = Becomes(outcome, "own")
    /\ endedAt' = now
    /\ UNCHANGED <<call, now, others, faults, pc, before, readFirst, loopVars, result>>

\* A run on the job's schedule, or asked for by somebody else.
OtherStarts ==
    /\ HasPast(call.kind)
    /\ own \in {"unsent", "queued"}
    /\ shown.state \notin {"busy", "absent"}
    /\ others < MaxOthers
    /\ others' = others + 1
    /\ shown' = Becomes("busy", "other")
    /\ UNCHANGED <<call, now, own, endedAt, faults, pc, before, readFirst, loopVars, result>>

OtherEnds(outcome) ==
    /\ shown.state = "busy"
    /\ shown.run = "other"
    /\ shown' = Becomes(outcome, "other")
    /\ UNCHANGED <<call, now, own, endedAt, others, faults, pc, before, readFirst, loopVars, result>>

\* Somebody removes the scheduler job.
JobRemoved ==
    /\ call.kind = "ems"
    /\ own \in {"unsent", "queued"}
    /\ shown.state \notin {"busy", "absent"}
    /\ others < MaxOthers
    /\ others' = others + 1
    /\ shown' = [state |-> "absent", mark |-> NoMark, run |-> "other"]
    /\ UNCHANGED <<call, now, own, endedAt, faults, pc, before, readFirst, loopVars, result>>

Platform ==
    /\ pc # "done"
    /\ \/ PickUp
       \/ OtherStarts
       \/ JobRemoved
       \/ \E outcome \in Terminal : Finish(outcome) \/ OtherEnds(outcome)

Loop == Fetch \/ Decide \/ Wake
Next == ReadBefore \/ Send \/ ReadBack \/ StartWait \/ Loop \/ Tick \/ Platform

Spec == Init /\ [][Next]_vars

\* The event loop resumes the wait, and time goes on.
FairSpec == Spec /\ WF_vars(Loop) /\ WF_vars(Tick)

--------------------------------------------------------------------------------
(* Properties. *)

\* A verdict is about the run that was asked for and not about the one before it,
\* where the record is marked and nobody else starts a run meanwhile.
VerdictIsOwn ==
    /\ result \in Terminal
    /\ Marked(call.kind)
    /\ before # NoMark
    /\ others = 0
    => reading.run = "own"

\* "the scheduler has not started the run yet", "the DLM has not started the action
\* yet": at the last look that was so, if the record had a mark to be read before the
\* run was asked for.  A time stamp does not tell apart what happens within a second.
NotStartedIsTrue ==
    /\ result = "notstarted"
    /\ readFirst
    /\ others = 0
    => \/ phase \in {"unsent", "queued"}
       \/ call.kind = "nso" /\ reading.mark = before

\* An outcome the platform showed before the wait began, or a read and a pause before
\* its time was up, is not reported as a timeout, provided its mark tells it from what
\* was there before.
ConvergenceSeen ==
    /\ endedAt # NoTime
    /\ \/ endedAt < start
       \/ endedAt <= start + call.timeout - call.interval - MaxFetch
    /\ Marked(call.kind) => shown.mark # before
    /\ call.kind \in {"sr", "gone", "reach", "unroute"} => own = "ok"
    => result \notin {"timeout", "notstarted"}

\* No read begins after the time is up, so the call is back a read later at most.
WithinBudget ==
    /\ pc \in {"fetch", "answer"} => since <= start + call.timeout
    /\ result # "none" /\ start > 0 => now <= start + call.timeout + MaxFetch

\* The wait ends, whether or not what it waits for ever happens.
WaitReturns == pc = "fetch" ~> pc = "done"
================================================================================
