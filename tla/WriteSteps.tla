----------------------------- MODULE WriteSteps -----------------------------
(***************************************************************************)
(* The vocabulary in which the write tools are written down.  Every tool   *)
(* of src/cnc_mcp/tools that changes something on the platform is a set of *)
(* calls, one for each way its options select; a call is the sequence of   *)
(* requests the function awaits.  What the requests carry is abstracted to *)
(* facts: a fact is a statement about the platform ("profile": the profile *)
(* exists, "used": something refers to it) that a read asks for and a      *)
(* write makes true or false.                                              *)
(*                                                                         *)
(* A read states what it needs (on) and what it must not find (off), what  *)
(* the tool does when the facts are otherwise (else) and when the read     *)
(* itself fails (fails).  A write states what the platform asks of it (on, *)
(* off), its effect (gives, takes), what it must not hit (spares), whether *)
(* the client sends it again, whether every copy that arrives has an       *)
(* effect of its own (adds; queues, where the tool is called idempotent     *)
(* all the same), how the tool reads its answer, and whether the report of *)
(* a failure names the writes made before it (tells).                      *)
(***************************************************************************)
EXTENDS Sequences, FiniteSets, Naturals

\* What a tool does with a read that finds the facts otherwise, or fails.
Outcomes == {"refused", "already", "error", "noted", "told", "go on"}

\* Where the answer of a write may be anything but a plain yes or no.
Readings == {"error", "noted", "told", "go on"}

Blank == [kind |-> "read", on |-> {}, off |-> {}, else |-> "refused",
          fails |-> "error", gives |-> {}, takes |-> {}, spares |-> {},
          resent |-> FALSE, adds |-> FALSE, queues |-> FALSE, mild |-> FALSE, soft |-> FALSE,
          checked |-> FALSE, vague |-> "error", tells |-> FALSE]

StepsOf(Facts) ==
    [kind : {"read", "write"}, on : SUBSET Facts, off : SUBSET Facts,
     else : Outcomes \union {"other call"}, fails : Outcomes,
     gives : SUBSET Facts, takes : SUBSET Facts, spares : SUBSET Facts,
     resent : BOOLEAN, adds : BOOLEAN, queues : BOOLEAN, mild : BOOLEAN,
     soft : BOOLEAN, checked : BOOLEAN, vague : Readings, tells : BOOLEAN]

-----------------------------------------------------------------------------
\* Reads before the write: "nothing was sent" when they find the wrong thing.
Needs(F)   == [Blank EXCEPT !.on = F]
Lacks(F)   == [Blank EXCEPT !.off = F]
Already(F) == [Blank EXCEPT !.off = F, !.else = "already"]

\* A read whose content only goes into the text or the next body.
Looks(F) == [Blank EXCEPT !.on = F, !.else = "go on"]

\* The same, and a failure of it is swallowed.
Peeks(F) == [Looks(F) EXCEPT !.fails = "go on"]

\* A guard the caller can waive: the read is made, its refusal is not.
Guards(force, F) == IF force THEN Looks(F) ELSE Lacks(F)

\* A read that decides between two ways on: each is a call of its own, and
\* this one is made when the facts are as it says.
Finds(F)  == [Blank EXCEPT !.on = F, !.else = "other call"]
Misses(F) == [Blank EXCEPT !.off = F, !.else = "other call"]

\* Reads after the write: not (or no longer) there is a note, or an error.
Confirms(F) == [Blank EXCEPT !.on = F, !.else = "noted"]
Gone(F)     == [Blank EXCEPT !.off = F, !.else = "noted"]
Verifies(F) == [Blank EXCEPT !.on = F, !.else = "error"]

\* The failure of a read-back is noted instead of reported as an error.
Tolerantly(s) == [s EXCEPT !.fails = "noted"]

-----------------------------------------------------------------------------
Write == [Blank EXCEPT !.kind = "write", !.else = "error"]

\* client.py: PUT and DELETE are sent again when they are not answered, POST
\* and PATCH are not, unless the tool says otherwise (retryable=).
Posts(F)   == [Write EXCEPT !.gives = F]
Patches(F) == [Write EXCEPT !.gives = F]
Puts(F)    == [Write EXCEPT !.gives = F, !.resent = TRUE]
Deletes(F) == [Write EXCEPT !.takes = F, !.on = F, !.resent = TRUE]

\* Every copy that arrives makes one thing more: a job, a note, a record.
Adding(s) == [s EXCEPT !.adds = TRUE]
Adds(F) == Adding(Posts(F))

\* Every copy that arrives queues one job more; the caller may repeat the call, for a
\* second job does what the first did.
Queues(F) == [Posts(F) EXCEPT !.queues = TRUE]

\* A POST the platform refuses when the thing is there.
Creates(F) == [Posts(F) EXCEPT !.off = F]

On(F, s)      == [s EXCEPT !.on = @ \union F]
Off(F, s)     == [s EXCEPT !.off = @ \union F]
Taking(F, s)  == [s EXCEPT !.takes = @ \union F]
Sparing(F, s) == [s EXCEPT !.spares = @ \union F]
Resent(s)     == [s EXCEPT !.resent = TRUE]
SentOnce(s)   == [s EXCEPT !.resent = FALSE]

\* The tool says what was done before this write failed.
Telling(s) == [s EXCEPT !.tells = TRUE]

\* That this write fails is part of the answer, and no error.
ToldIfNot(s) == [s EXCEPT !.else = "told", !.fails = "told", !.vague = "told"]

\* The platform answers yes when there was nothing left to do.
Mild(s) == [s EXCEPT !.mild = TRUE]

\* A refusal may come inside an answer of status 200, which the tool reads.
Checked(s) == [s EXCEPT !.soft = TRUE, !.checked = TRUE]

\* The same, and an answer that leaves the outcome open is told as a note.
CheckedOrNoted(s) == [Checked(s) EXCEPT !.vague = "noted"]

\* crosswork.check_job: pending, partial and warning envelopes are returned
\* with a note, every other state but the completed one is an error.
Job(s) == CheckedOrNoted(s)

\* Steps, or facts, that an option leaves out or brings in.
When(option, steps) == IF option THEN steps ELSE <<>>
Unless(option, F) == IF option THEN {} ELSE F

-----------------------------------------------------------------------------
(***************************************************************************)
(* A call.  steps[1 .. main] is the call proper; what follows it is the    *)
(* way back, which is taken when the last step of the call proper fails.   *)
(* idempotent is the hint the tool is registered with: an MCP client may   *)
(* make the call again.                                                    *)
(***************************************************************************)
CallOf(steps, back, idempotent) ==
    [steps |-> steps \o back, main |-> Len(steps), idempotent |-> idempotent]

Once(steps) == CallOf(steps, <<>>, FALSE)
Repeatable(steps) == CallOf(steps, <<>>, TRUE)

FactsOf(s) == s.on \union s.off \union s.gives \union s.takes \union s.spares
CallFacts(c) == UNION {FactsOf(c.steps[k]) : k \in 1..Len(c.steps)}

-----------------------------------------------------------------------------
(* The rules a tool is built by.  The properties of WriteCalls rest on     *)
(* them; that every call of every tool keeps them is checked there.        *)

WellFormed(c) ==
    /\ c.main \in 1..Len(c.steps) /\ c.idempotent \in BOOLEAN
    /\ c.steps \in Seq(StepsOf(CallFacts(c)))

IsWrite(c, k) == c.steps[k].kind = "write"

\* "Nothing was sent" is said by reads before the first write only.
RefusesFirst(c) ==
    \A j, k \in 1..Len(c.steps) :
        j <= k /\ IsWrite(c, j) =>
            {c.steps[k].else, c.steps[k].fails, c.steps[k].vague}
                \intersect {"refused", "already"} = {}

\* A request whose every copy adds something is sent once, in a call that is
\* made once; one that queues a job is sent once by each call.
AddsOnce(c) ==
    \A k \in 1..Len(c.steps) :
        /\ c.steps[k].adds => ~c.steps[k].resent /\ ~c.idempotent
        /\ c.steps[k].queues => ~c.steps[k].resent

\* Where a refusal can have status 200 the answer is read, and no write is
\* passed over as if it had been done.
AnswersRead(c) ==
    \A k \in 1..Len(c.steps) :
        IsWrite(c, k) =>
            /\ c.steps[k].soft => c.steps[k].checked
            /\ {c.steps[k].else, c.steps[k].fails, c.steps[k].vague}
                   \intersect {"go on", "other call"} = {}

\* The error of a write names the writes before it, or takes them back.
PartsTold(c) ==
    \A j, k \in 1..Len(c.steps) :
        j < k /\ j <= c.main /\ IsWrite(c, j) /\ IsWrite(c, k) =>
            c.steps[k].tells \/ (k = c.main /\ c.main < Len(c.steps))
            \/ "error" \notin {c.steps[k].else, c.steps[k].fails, c.steps[k].vague}

\* The read of step j stops the call when it finds f, or fails.
StopsAt(c, j, f) ==
    /\ c.steps[j].kind = "read" /\ j < c.main /\ f \in c.steps[j].off
    /\ {c.steps[j].else, c.steps[j].fails} \intersect {"go on", "noted"} = {}

\* What a write has to spare is looked for before it, by a read that stops the
\* call where it finds it.  The call does not make it itself, but for the write
\* that makes what must not be there, which is sent once.
SparesGuarded(c) ==
    \A k \in 1..Len(c.steps) : \A f \in c.steps[k].spares :
        /\ \E j \in 1..k - 1 : StopsAt(c, j, f)
        /\ \A i \in 1..Len(c.steps) :
              f \in c.steps[i].gives
              => i = k /\ ~c.steps[k].resent /\ ~c.idempotent

\* The way back is one request, of a call that is made once.  It takes away
\* whatever the call may have made: the writes before the one that failed are
\* sent once and have to be confirmed, a late copy of the one that failed asks
\* for something the way back took, and the way back makes nothing itself.
ClearsUp(c) ==
    LET back == c.steps[Len(c.steps)] IN
    c.main < Len(c.steps) =>
        /\ c.main + 1 = Len(c.steps) /\ ~c.idempotent
        /\ IsWrite(c, Len(c.steps)) /\ IsWrite(c, c.main)
        /\ back.gives = {} /\ "noted" \notin {back.else, back.fails, back.vague}
        /\ c.steps[c.main].on \intersect back.takes # {}
        /\ \A k \in 1..c.main : IsWrite(c, k) => c.steps[k].gives \subseteq back.takes
        /\ \A k \in 1..c.main - 1 :
              IsWrite(c, k) => ~c.steps[k].resent /\ c.steps[k].vague # "noted"
                               /\ c.steps[k].else # "noted" /\ c.steps[k].fails # "noted"

Sound(c) == WellFormed(c) /\ RefusesFirst(c) /\ AddsOnce(c) /\ AnswersRead(c)
            /\ PartsTold(c) /\ SparesGuarded(c) /\ ClearsUp(c)
=============================================================================
