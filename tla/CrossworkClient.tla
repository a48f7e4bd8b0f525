---------------------------- MODULE CrossworkClient ----------------------------
(***************************************************************************)
(* The HTTP client every tool shares (src/src/cnc_mcp/client.py) and the   *)
(* Crosswork CAS session it carries (src/src/cnc_mcp/auth.py), against the *)
(* platform's gateway and SSO service.                                     *)
(*                                                                         *)
(* A request is one coroutine of ApiClient.request(): it takes a slot of   *)
(* the semaphore, makes sure a token exists, sends, and loops over one     *)
(* transparent re-authentication and a bounded number of retries.  The     *)
(* coroutines share one CrossworkCasAuth: the cached JWT (token), the      *)
(* ticket-granting ticket that opened its SSO session (tgt) and the        *)
(* asyncio.Lock under which the two are replaced.  asyncio switches only   *)
(* where a coroutine awaits, so every action below is the code between two *)
(* awaits.                                                                 *)
(*                                                                         *)
(* An SSO session, its ticket-granting ticket and the JWT obtained with it *)
(* are one number, handed out in order by the platform; 0 is Python's None.*)
(* The two login legs are each one step: until leg 2 is answered the token *)
(* is None and the lock is held, so no coroutine can tell the call from    *)
(* its answer.  An API call and the DELETE of a session are split into the *)
(* platform's step and the coroutine's, because others run in between.     *)
(***************************************************************************)
EXTENDS Naturals, FiniteSets

CONSTANTS
    Requests,       \* the calls of ApiClient.request() that are made
    Retryable,      \* those re-sent after a 5xx or a transport failure
    Denied,         \* those the account's role does not grant
    MaxConcurrent,  \* settings.max_concurrent_requests
    MaxRetries,     \* settings.max_retries
    SessionLimit,   \* the platform's NumParallelSessionsPerUser
    MaxTickets,     \* bound: tickets the SSO service issues before it only errs
    Faults,         \* the kinds of misfortune that may happen
    MaxFaults,      \* bound: how many of them happen
    Nobody          \* the holder of a free lock

\* What may go wrong: an answer of the platform other than success, a failed
\* login leg or logout, a token or a session that ends, a cancelled tool call.
FaultKinds == {"busy", "refused", "unavailable", "failed", "lost",
               "leg1", "leg1_lost", "leg2", "leg2_lost", "logout",
               "expire", "terminate", "cancel"}

ASSUME ClientAssumption ==
    /\ Retryable \subseteq Requests
    /\ Denied \subseteq Requests
    /\ IsFiniteSet(Requests)
    /\ MaxConcurrent \in Nat \ {0}
    /\ MaxRetries \in Nat
    /\ SessionLimit \in Nat
    /\ MaxTickets \in Nat
    /\ MaxFaults \in Nat
    /\ Faults \subseteq FaultKinds
    /\ Nobody \notin Requests

None == 0
Sessions == 1 .. MaxTickets
Unrepeatable == Requests \ Retryable

VARIABLES
    pc,         \* where each request stands
    bearer,     \* the token each request last sent
    attempt,    \* its retries so far
    reauthed,   \* its reauth_attempted flag
    answer,     \* the answer it holds
    outcome,    \* how it ended
    ticket,     \* the local tgt of _login and logout
    token,      \* CrossworkCasAuth._token
    tgt,        \* CrossworkCasAuth._tgt
    lock,       \* CrossworkCasAuth._lock
    closed,     \* ApiClient.aclose() ran
    issued,     \* platform: number of sessions ever opened
    live,       \* platform: sessions that still count against the limit
    expired,    \* platform: JWTs past their eight hours
    applied,    \* platform: how often it carried out each request
    sends,      \* how often each request was sent
    faults      \* misfortunes so far

requestVars == <<pc, bearer, attempt, reauthed, answer, outcome>>
authVars == <<ticket, token, tgt, lock>>
sessionVars == <<issued, live, expired>>
vars == <<requestVars, authVars, closed, sessionVars, applied, sends, faults>>

\* Answers after which the platform has not carried the request out, and those
\* that leave it open.
NotApplied == {"busy", "refused", "auth"}
InDoubt == {"unavailable", "failed", "lost"}
Answers == NotApplied \union InDoubt \union {"ok", "none"}

\* The coroutine is in the part of _login or logout that runs under the lock.
Locked == {"leg1", "leg2", "delete", "deleted"}
InSlot == Locked \union {"lockwait", "flight", "answered", "backoff"}
PCs == InSlot \union {"queued", "done"}

TypeOK ==
    /\ pc \in [Requests -> PCs]
    /\ bearer \in [Requests -> 0 .. MaxTickets]
    /\ attempt \in [Requests -> 0 .. MaxRetries]
    /\ reauthed \in [Requests -> BOOLEAN]
    /\ answer \in [Requests -> Answers]
    /\ outcome \in [Requests -> Answers \union {"login", "raw", "cancelled"}]
    /\ ticket \in [Requests -> 0 .. MaxTickets]
    /\ token \in 0 .. MaxTickets
    /\ tgt \in 0 .. MaxTickets
    /\ lock \in Requests \union {Nobody}
    /\ closed \in BOOLEAN
    /\ issued \in 0 .. MaxTickets
    /\ live \in SUBSET Sessions
    /\ expired \in SUBSET Sessions
    /\ applied \in [Requests -> Nat]
    /\ sends \in [Requests -> Nat]
    /\ faults \in 0 .. MaxFaults

Init ==
    /\ pc = [r \in Requests |-> "queued"]
    /\ bearer = [r \in Requests |-> None]
    /\ attempt = [r \in Requests |-> 0]
    /\ reauthed = [r \in Requests |-> FALSE]
    /\ answer = [r \in Requests |-> "none"]
    /\ outcome = [r \in Requests |-> "none"]
    /\ ticket = [r \in Requests |-> None]
    /\ token = None
    /\ tgt = None
    /\ lock = Nobody
    /\ closed = FALSE
    /\ issued = 0
    /\ live = {}
    /\ expired = {}
    /\ applied = [r \in Requests |-> 0]
    /\ sends = [r \in Requests |-> 0]
    /\ faults = 0

--------------------------------------------------------------------------------
(* Pieces of the steps. *)

Misfortune(kind) ==
    /\ kind \in Faults
    /\ faults < MaxFaults
    /\ faults' = faults + 1

\* The gateway accepts a JWT whose session is open and that has not expired.
Valid(jwt) == jwt \in live \ expired

\* DELETE tickets/{TGT} ends the session only when its JWT is still accepted.
Deleted_NoBearer(ended) == live
Deleted(ended) == IF Valid(token) THEN live \ {ended} ELSE live

LockFree == lock = Nobody

ReleaseLock_Forgotten == UNCHANGED lock
ReleaseLock == lock' = Nobody

Goto(r, label) == pc' = [pc EXCEPT ![r] = label]

\* The JWT headers() puts on a request: the cached one, looked up for every send.
Headers_OfFirstSend(r) == IF bearer[r] # None THEN bearer[r] ELSE token
Headers(r) == token

\* headers() and the send that follow ensure_authenticated() without an await.
Send(r, jwt) ==
    /\ Goto(r, "flight")
    /\ bearer' = [bearer EXCEPT ![r] = jwt]
    /\ answer' = [answer EXCEPT ![r] = "none"]
    /\ sends' = [sends EXCEPT ![r] = @ + 1]

\* The top of the retry loop: send with the cached token, or queue for the lock.
LoopTop(r) ==
    \/ /\ token # None
       /\ Send(r, Headers(r))
    \/ /\ token = None
       /\ Goto(r, "lockwait")
       /\ UNCHANGED <<bearer, answer, sends>>

\* The request returns or raises; its slot is free.
Finish(r, how) ==
    /\ Goto(r, "done")
    /\ outcome' = [outcome EXCEPT ![r] = how]

\* The same from inside the lock, which the exception releases.
LoginFails(r, how) ==
    /\ Finish(r, how)
    /\ ReleaseLock
    /\ UNCHANGED <<bearer, answer, sends, token, tgt>>

\* The platform opens the next SSO session.
OpenSession ==
    /\ issued < MaxTickets
    /\ Cardinality(live) < SessionLimit
    /\ issued' = issued + 1
    /\ live' = live \union {issued + 1}

--------------------------------------------------------------------------------
(* A request and the lock. *)

Enter(r) ==
    /\ pc[r] = "queued"
    /\ ~closed
    /\ Cardinality({q \in Requests : pc[q] \in InSlot}) < MaxConcurrent
    /\ LoopTop(r)
    /\ UNCHANGED <<attempt, reauthed, outcome, authVars, closed, sessionVars,
                   applied, faults>>

\* ensure_authenticated(): under the lock the token is looked at again.
EnsureLocked(r) ==
    /\ pc[r] = "lockwait"
    /\ LockFree
    /\ \/ /\ token # None
          /\ Send(r, Headers(r))
          /\ UNCHANGED lock
       \/ /\ token = None
          /\ lock' = r
          /\ Goto(r, "leg1")
          /\ UNCHANGED <<bearer, answer, sends>>
    /\ UNCHANGED <<attempt, reauthed, outcome, ticket, token, tgt, closed,
                   sessionVars, applied, faults>>

Replaced_Never(r) == FALSE

\* A concurrent task has replaced the token this request failed with.
Replaced(r) == token # None /\ bearer[r] # None /\ token # bearer[r]

\* _relogin() of the base class, which knows of no session to release.
BeginRelogin_NoLogout(r) ==
    /\ lock' = r
    /\ token' = None
    /\ Goto(r, "leg1")
    /\ UNCHANGED <<ticket, tgt>>

\* logout() up to its await, or its early return, inside _relogin().
BeginRelogin(r) ==
    /\ lock' = r
    /\ ticket' = [ticket EXCEPT ![r] = tgt]
    /\ tgt' = None
    /\ \/ /\ tgt # None
          /\ Goto(r, "delete")
          /\ UNCHANGED token
       \/ /\ tgt = None
          /\ Goto(r, "leg1")
          /\ token' = None

MarkReauthed(r) == reauthed' = [reauthed EXCEPT ![r] = TRUE]

\* The first auth failure of a request: handle_unauthorized() takes the lock.
HandleUnauthorized(r) ==
    /\ pc[r] = "answered"
    /\ answer[r] = "auth"
    /\ ~reauthed[r]
    /\ LockFree
    /\ MarkReauthed(r)
    /\ \/ /\ Replaced(r)
          /\ Send(r, Headers(r))
          /\ UNCHANGED <<ticket, tgt, token, lock>>
       \/ /\ ~Replaced(r)
          /\ BeginRelogin(r)
          /\ UNCHANGED <<bearer, answer, sends>>
    /\ UNCHANGED <<attempt, outcome, closed, sessionVars, applied, faults>>

--------------------------------------------------------------------------------
(* Logging out of the rejected session and in again, under the lock. *)

\* The platform's side of DELETE tickets/{TGT}: it needs a JWT it accepts.
ServeDelete(r) ==
    /\ pc[r] = "delete"
    /\ Goto(r, "deleted")
    /\ \/ /\ live' = Deleted(ticket[r])
          /\ UNCHANGED faults
       \/ /\ Misfortune("logout")
          /\ live' \in {live, live \ {ticket[r]}}
    /\ UNCHANGED <<bearer, attempt, reauthed, answer, outcome, authVars, closed,
                   issued, expired, applied, sends>>

\* Whatever the DELETE answered, the rejected JWT is dropped.
DropToken(r) ==
    /\ pc[r] = "deleted"
    /\ token' = None
    /\ Goto(r, "leg1")
    /\ UNCHANGED <<bearer, attempt, reauthed, answer, outcome, ticket, tgt, lock,
                   closed, sessionVars, applied, sends, faults>>

\* Leg 1, POST tickets: a ticket, the session limit, a refusal, or no answer at
\* all (an httpx error, which nothing on this path turns into a PlatformError).
Leg1(r) ==
    /\ pc[r] = "leg1"
    /\ \/ /\ OpenSession
          /\ ticket' = [ticket EXCEPT ![r] = issued + 1]
          /\ Goto(r, "leg2")
          /\ UNCHANGED <<bearer, answer, outcome, token, tgt, lock, sends, faults>>
       \/ /\ Cardinality(live) >= SessionLimit \/ issued = MaxTickets
          /\ LoginFails(r, "login")
          /\ UNCHANGED <<ticket, issued, live, faults>>
       \/ /\ Misfortune("leg1")
          /\ LoginFails(r, "login")
          /\ UNCHANGED <<ticket, issued, live>>
       \/ /\ Misfortune("leg1_lost")
          /\ LoginFails(r, "raw")
          /\ OpenSession \/ UNCHANGED <<issued, live>>
          /\ UNCHANGED ticket
    /\ UNCHANGED <<attempt, reauthed, closed, expired, applied>>

\* Leg 2, POST tickets/{TGT}: the JWT.  Only now are _token and _tgt set, the lock
\* is released and the request is (re-)sent.
Leg2(r) ==
    /\ pc[r] = "leg2"
    /\ \/ /\ token' = ticket[r]
          /\ tgt' = ticket[r]
          /\ ReleaseLock
          /\ Send(r, ticket[r])
          /\ UNCHANGED <<outcome, faults>>
       \/ /\ Misfortune("leg2")
          /\ LoginFails(r, "login")
       \/ /\ Misfortune("leg2_lost")
          /\ LoginFails(r, "raw")
    /\ UNCHANGED <<attempt, reauthed, ticket, closed, sessionVars, applied>>

--------------------------------------------------------------------------------
(* The API call itself. *)

\* The gateway lets a request through whose token it accepts and whose role has it.
Admitted(r) == Valid(bearer[r]) /\ r \notin Denied

\* The platform's side: the service carries out what is let through, or not; the
\* answer, or the request, may be lost, and the gateway may be too busy to look
\* at its token.
Serve(r) ==
    /\ pc[r] = "flight"
    /\ Goto(r, "answered")
    /\ \/ /\ ~Admitted(r)
          /\ answer' = [answer EXCEPT ![r] = "auth"]
          /\ UNCHANGED <<applied, faults>>
       \/ /\ Admitted(r)
          /\ answer' = [answer EXCEPT ![r] = "ok"]
          /\ applied' = [applied EXCEPT ![r] = @ + 1]
          /\ UNCHANGED faults
       \/ \E kind \in {"busy", "refused"} :
             /\ Misfortune(kind)
             /\ answer' = [answer EXCEPT ![r] = kind]
             /\ UNCHANGED applied
       \/ \E kind \in InDoubt, done \in {0, 1} :
             /\ Misfortune(kind)
             /\ done = 1 => Admitted(r)
             /\ answer' = [answer EXCEPT ![r] = kind]
             /\ applied' = [applied EXCEPT ![r] = @ + done]
    /\ UNCHANGED <<bearer, attempt, reauthed, outcome, authVars, closed,
                   sessionVars, sends>>

MayRetry_AnyMethod(r) ==
    attempt[r] < MaxRetries /\ answer[r] \in {"busy", "unavailable", "lost"}

\* 429 is retried for every method, 502/503/504 and transport failures only for a
\* request that may be sent twice.
MayRetry(r) ==
    /\ attempt[r] < MaxRetries
    /\ \/ answer[r] = "busy"
       \/ r \in Retryable /\ answer[r] \in {"unavailable", "lost"}

Retry(r) ==
    /\ pc[r] = "answered"
    /\ MayRetry(r)
    /\ attempt' = [attempt EXCEPT ![r] = @ + 1]
    /\ Goto(r, "backoff")
    /\ UNCHANGED <<bearer, reauthed, answer, outcome, authVars, closed,
                   sessionVars, applied, sends, faults>>

\* The backoff sleep ends; the slot was held throughout.
WakeUp(r) ==
    /\ pc[r] = "backoff"
    /\ LoopTop(r)
    /\ UNCHANGED <<attempt, reauthed, outcome, authVars, closed, sessionVars,
                   applied, faults>>

\* The answer goes to the tool (as a response, or raised as a PlatformError).
Return(r) ==
    /\ pc[r] = "answered"
    /\ answer[r] = "auth" => reauthed[r]
    /\ ~MayRetry(r)
    /\ Finish(r, answer[r])
    /\ UNCHANGED <<bearer, attempt, reauthed, answer, authVars, closed,
                   sessionVars, applied, sends, faults>>

--------------------------------------------------------------------------------
(* The surroundings. *)

\* The MCP client cancels the tool call at an await: the lock and the slot are
\* released, and what was in flight may still reach the platform.
Cancel(r) ==
    /\ pc[r] \in InSlot
    /\ Misfortune("cancel")
    /\ Finish(r, "cancelled")
    /\ lock' = IF lock = r THEN Nobody ELSE lock
    /\ \/ UNCHANGED <<issued, live, applied>>
       \/ /\ pc[r] = "leg1"
          /\ OpenSession
          /\ UNCHANGED applied
       \/ /\ pc[r] = "delete"
          /\ Valid(token)
          /\ live' = live \ {ticket[r]}
          /\ UNCHANGED <<issued, applied>>
       \/ /\ pc[r] = "flight"
          /\ Admitted(r)
          /\ applied' = [applied EXCEPT ![r] = @ + 1]
          /\ UNCHANGED <<issued, live>>
    /\ UNCHANGED <<bearer, attempt, reauthed, answer, ticket, token, tgt, closed,
                   expired, sends>>

\* A JWT lives about eight hours, whatever becomes of its session.
Expire(s) ==
    /\ s \in live \ expired
    /\ Misfortune("expire")
    /\ expired' = expired \union {s}
    /\ UNCHANGED <<requestVars, authVars, closed, issued, live, applied, sends>>

\* An administrator, or the idle timeout, ends a session.
Terminate(s) ==
    /\ s \in live
    /\ Misfortune("terminate")
    /\ live' = live \ {s}
    /\ UNCHANGED <<requestVars, authVars, closed, issued, expired, applied, sends>>

\* aclose(), from the lifespan once the requests have returned: logout().
Close ==
    /\ ~closed
    /\ \A r \in Requests : pc[r] \in {"queued", "done"}
    /\ closed' = TRUE
    /\ tgt' = None
    /\ \/ /\ tgt = None
          /\ UNCHANGED <<token, live, faults>>
       \/ /\ tgt # None
          /\ token' = None
          /\ live' = Deleted(tgt)
          /\ UNCHANGED faults
       \/ /\ tgt # None
          /\ Misfortune("logout")
          /\ token' \in {token, None}
          /\ live' \in {live, live \ {tgt}}
    /\ UNCHANGED <<requestVars, ticket, lock, issued, expired, applied, sends>>

Step(r) ==
    \/ Enter(r) \/ EnsureLocked(r) \/ HandleUnauthorized(r)
    \/ ServeDelete(r) \/ DropToken(r) \/ Leg1(r) \/ Leg2(r)
    \/ Serve(r) \/ Retry(r) \/ WakeUp(r) \/ Return(r)

Next ==
    \/ \E r \in Requests : Step(r) \/ Cancel(r)
    \/ \E s \in Sessions : Expire(s) \/ Terminate(s)
    \/ Close

Spec == Init /\ [][Next]_vars

\* The event loop runs every coroutine that can go on, and httpx's timeouts end
\* every exchange; neither promises a cancellation, an expiry or a shutdown.
Fairness == \A r \in Requests : WF_vars(Step(r))

FairSpec == Spec /\ Fairness

--------------------------------------------------------------------------------
(* Properties. *)

\* At most one coroutine is inside _login or logout, and it holds the lock: two
\* tasks never open or close SSO sessions at the same time.
OneLoginAtATime ==
    \A r \in Requests : pc[r] \in Locked <=> lock = r

\* The TGT kept for logout belongs to the JWT in use: the DELETE, which Crosswork
\* accepts only with a bearer token, is never sent with the token of another
\* session or with none.
TicketHasItsToken == tgt # None => token = tgt

\* No API call goes out without a bearer token, which errors.py calls a server bug
\* when the platform complains of it.
BearerAlwaysSent == \A r \in Requests : pc[r] = "flight" => bearer[r] # None

\* A call that may not be re-sent is carried out at most once, whatever mixture of
\* rate limiting, lost answers, expiring tokens and re-authentication it meets.
WriteAtMostOnce == \A r \in Unrepeatable : applied[r] <= 1

\* Re-authentication and backoff share one loop: together they send a call at most
\* MaxRetries + 2 times, the extra one being the transparent re-authentication.
SendBudget ==
    \A r \in Requests : sends[r] <= 1 + attempt[r] + (IF reauthed[r] THEN 1 ELSE 0)

\* Requests that fail together on one dead token share one re-login: beyond the
\* first login, a session is opened only for a request the role denies (once each)
\* or for a misfortune.
NoReloginStorm == issued <= 1 + Cardinality(Denied) + faults

\* Every live session is the one in use, or is being opened or closed this moment:
\* re-logins leak nothing towards the per-user session limit.
SessionsAccountedFor ==
    live \subseteq {tgt} \union {ticket[r] : r \in {q \in Requests : pc[q] \in {"leg2", "delete"}}}

\* Once the server has shut down the account has no session of its making left.
NothingLeftOpen == closed => live = {}

\* The same as far as the doc comment of CrossworkCasAuth goes ("a re-login never
\* leaves a session behind, whatever the 403 meant"): a re-login that fails leaves
\* no session of its own open.
ReloginLeavesNone ==
    \A r \in Requests : reauthed[r] /\ outcome[r] = "login" => ticket[r] \notin live

\* A request the role grants does not end as an authentication failure: the token
\* trouble the client meets is not the tool's business.
GrantedNotRefused == \A r \in Requests \ Denied : outcome[r] # "auth"

\* A session is given up only by the shutdown or by a request whose own token was
\* rejected: a fresher token is retried with, not discarded.
FreshTokenKept ==
    [][tgt # None /\ tgt' = None =>
         closed' \/ \E r \in Requests : bearer[r] = tgt /\ answer[r] = "auth" /\ lock' = r]_vars

\* Every request that was let in returns: the lock inside the slot deadlocks nobody.
EveryRequestReturns == \A r \in Requests : pc[r] \in InSlot ~> pc[r] = "done"

\* The client seen by the tools: calls that may not be repeated are at-most-once.
VerdictOf(how) ==
    CASE how = "none" -> "pending"
      [] how = "ok" -> "ok"
      [] how \in NotApplied \union {"login", "raw"} -> "refused"
      [] how \in InDoubt \union {"cancelled"} -> "in_doubt"

Call == INSTANCE AtMostOnceCall WITH
    Calls <- Unrepeatable,
    effect <- [r \in Unrepeatable |-> applied[r]],
    verdict <- [r \in Unrepeatable |-> VerdictOf(outcome[r])]

AtMostOnce == Call!CallSpec
================================================================================
