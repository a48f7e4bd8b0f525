------------------------ MODULE CrossworkClient_proofs -------------------------
(***************************************************************************)
(* Proofs about CrossworkClient, for every number of requests, of slots,   *)
(* retries, sessions and misfortunes.                                      *)
(*                                                                         *)
(* The argument has layers, each an invariant of its own: the types; what  *)
(* the lock protects (LoginInv: one coroutine logs in at a time, and while *)
(* it does no ticket is kept); what a call that may not be repeated has    *)
(* done at each point of its loop (CallInv), from which at-most-once       *)
(* follows; which sessions are open (SessionInv); what every login is paid *)
(* with (StormInv); and how often a granted request can be turned down     *)
(* (GrantedInv).  Where a theorem needs some misfortunes not to happen it  *)
(* says which.  That no request waits or goes round for ever follows from  *)
(* the types and the lock.                                                 *)
(***************************************************************************)
EXTENDS CrossworkClient, FiniteSetTheorems, TLAPS

USE ClientAssumption DEF ClientAssumption, None


\* The state invariants hold initially and every action keeps them: the types.
LEMMA TypeInit == Init => TypeOK
<1> SUFFICES ASSUME Init PROVE TypeOK
  OBVIOUS
<1>1. live \in SUBSET Sessions /\ expired \in SUBSET Sessions
  BY DEF Init
<1>2. "queued" \in PCs /\ "none" \in Answers
  BY DEF PCs, Answers
<1>3. lock \in Requests \union {Nobody} /\ reauthed \in [Requests -> BOOLEAN] /\ closed \in BOOLEAN
  BY DEF Init
<1>4. /\ bearer \in [Requests -> 0 .. MaxTickets]
      /\ ticket \in [Requests -> 0 .. MaxTickets]
      /\ attempt \in [Requests -> 0 .. MaxRetries]
      /\ applied \in [Requests -> Nat]
      /\ sends \in [Requests -> Nat]
      /\ {token, tgt, issued} \subseteq 0 .. MaxTickets
      /\ faults \in 0 .. MaxFaults
  BY DEF Init
<1>5. /\ pc \in [Requests -> PCs]
      /\ answer \in [Requests -> Answers]
      /\ outcome \in [Requests -> Answers \union {"login", "raw", "cancelled"}]
  BY <1>2 DEF Init
<1> QED
  BY <1>1, <1>3, <1>4, <1>5 DEF TypeOK

\* Opening a session stays within the bound on sessions.
LEMMA OpenSessionType ==
  ASSUME TypeOK, OpenSession
  PROVE  issued + 1 \in Sessions /\ live' \in SUBSET Sessions
<1>1. issued + 1 \in Sessions
  BY DEF TypeOK, OpenSession, Sessions
<1> QED
  BY <1>1 DEF TypeOK, OpenSession

LEMMA TypeStep == TypeOK /\ [Next]_vars => TypeOK'
<1> SUFFICES ASSUME TypeOK, [Next]_vars PROVE TypeOK'
  OBVIOUS
<1> USE DEF TypeOK, Answers, NotApplied, InDoubt, PCs, InSlot, Locked, Goto, Finish,
            Send, Sessions, authVars, requestVars, sessionVars, Misfortune
<1>1. ASSUME NEW r \in Requests, Enter(r) PROVE TypeOK'
  BY <1>1 DEF Enter, LoopTop, Headers
<1>2. ASSUME NEW r \in Requests, EnsureLocked(r) PROVE TypeOK'
  BY <1>2 DEF EnsureLocked, Headers
<1>3. ASSUME NEW r \in Requests, HandleUnauthorized(r) PROVE TypeOK'
  BY <1>3 DEF HandleUnauthorized, MarkReauthed, BeginRelogin, Headers
<1>4. ASSUME NEW r \in Requests, ServeDelete(r) PROVE TypeOK'
  <2>1. live' \in SUBSET Sessions
    BY <1>4 DEF ServeDelete, Deleted
  <2> QED
    BY <1>4, <2>1 DEF ServeDelete, Deleted
<1>5. ASSUME NEW r \in Requests, DropToken(r) PROVE TypeOK'
  BY <1>5 DEF DropToken
<1>6. ASSUME NEW r \in Requests, Leg1(r) PROVE TypeOK'
  <2>1. live' \in SUBSET Sessions
    BY <1>6, OpenSessionType DEF Leg1
  <2> QED
    BY <1>6, <2>1 DEF Leg1, OpenSession, LoginFails, ReleaseLock
<1>7. ASSUME NEW r \in Requests, Leg2(r) PROVE TypeOK'
  BY <1>7 DEF Leg2, LoginFails, ReleaseLock
<1>8. ASSUME NEW r \in Requests, Serve(r) PROVE TypeOK'
  BY <1>8 DEF Serve
<1>9. ASSUME NEW r \in Requests, Retry(r) PROVE TypeOK'
  BY <1>9 DEF Retry, MayRetry
<1>10. ASSUME NEW r \in Requests, WakeUp(r) PROVE TypeOK'
  BY <1>10 DEF WakeUp, LoopTop, Headers
<1>11. ASSUME NEW r \in Requests, Return(r) PROVE TypeOK'
  BY <1>11 DEF Return
<1>12. ASSUME NEW r \in Requests, Cancel(r) PROVE TypeOK'
  <2>1. live' \in SUBSET Sessions
    BY <1>12, OpenSessionType DEF Cancel
  <2> QED
    BY <1>12, <2>1 DEF Cancel, OpenSession
<1>13. ASSUME NEW s \in Sessions, Expire(s) PROVE TypeOK'
  BY <1>13 DEF Expire
<1>14. ASSUME NEW s \in Sessions, Terminate(s) PROVE TypeOK'
  BY <1>14 DEF Terminate
<1>15. CASE Close
  <2>1. live' \in SUBSET Sessions
    BY <1>15 DEF Close, Deleted
  <2> QED
    BY <1>15, <2>1 DEF Close, Deleted
<1>16. CASE UNCHANGED vars
  BY <1>16 DEF vars
<1> QED
  BY <1>1, <1>2, <1>3, <1>4, <1>5, <1>6, <1>7, <1>8, <1>9, <1>10, <1>11, <1>12,
     <1>13, <1>14, <1>15, <1>16 DEF Next, Step

\* Every state of the client has the types that CrossworkClient declares.
THEOREM TypeCorrect == Spec => []TypeOK
  BY TypeInit, TypeStep, PTL DEF Spec

--------------------------------------------------------------------------------
(* What the lock protects. *)

\* While a coroutine is inside _login or logout no ticket is kept, and a kept ticket
\* is that of the cached token; a ticket on its way to leg 2, and the token of a
\* call under way, exist.
LoginInv ==
    /\ OneLoginAtATime
    /\ TicketHasItsToken
    /\ lock # Nobody => tgt = None
    /\ \A r \in Requests : pc[r] = "leg2" => ticket[r] # None
    /\ \A r \in Requests : pc[r] \in {"flight", "answered"} => bearer[r] # None

LEMMA LoginInvInit == Init => LoginInv
  BY DEF Init, LoginInv, OneLoginAtATime, TicketHasItsToken, Locked

LEMMA LoginInvStep == TypeOK /\ LoginInv /\ [Next]_vars => LoginInv'
<1> SUFFICES ASSUME TypeOK, LoginInv, [Next]_vars PROVE LoginInv'
  OBVIOUS
<1> USE DEF TypeOK, LoginInv, OneLoginAtATime, TicketHasItsToken, Locked, Goto, Finish,
            Send, authVars, requestVars, sessionVars
<1>1. ASSUME NEW r \in Requests, Enter(r) PROVE LoginInv'
  BY <1>1 DEF Enter, LoopTop, Headers
<1>2. ASSUME NEW r \in Requests, EnsureLocked(r) PROVE LoginInv'
  BY <1>2 DEF EnsureLocked, LockFree, Headers
<1>3. ASSUME NEW r \in Requests, HandleUnauthorized(r) PROVE LoginInv'
  BY <1>3 DEF HandleUnauthorized, LockFree, MarkReauthed, Replaced, BeginRelogin, Headers
<1>4. ASSUME NEW r \in Requests, ServeDelete(r) PROVE LoginInv'
  BY <1>4 DEF ServeDelete
<1>5. ASSUME NEW r \in Requests, DropToken(r) PROVE LoginInv'
  BY <1>5 DEF DropToken
<1>6. ASSUME NEW r \in Requests, Leg1(r) PROVE LoginInv'
  BY <1>6 DEF Leg1, LoginFails, ReleaseLock
<1>7. ASSUME NEW r \in Requests, Leg2(r) PROVE LoginInv'
  BY <1>7 DEF Leg2, LoginFails, ReleaseLock
<1>8. ASSUME NEW r \in Requests, Serve(r) PROVE LoginInv'
  BY <1>8 DEF Serve
<1>9. ASSUME NEW r \in Requests, Retry(r) PROVE LoginInv'
  BY <1>9 DEF Retry
<1>10. ASSUME NEW r \in Requests, WakeUp(r) PROVE LoginInv'
  BY <1>10 DEF WakeUp, LoopTop, Headers
<1>11. ASSUME NEW r \in Requests, Return(r) PROVE LoginInv'
  BY <1>11 DEF Return
<1>12. ASSUME NEW r \in Requests, Cancel(r) PROVE LoginInv'
  BY <1>12 DEF Cancel
<1>13. ASSUME NEW s \in Sessions, Expire(s) \/ Terminate(s) PROVE LoginInv'
  BY <1>13 DEF Expire, Terminate
<1>14. CASE Close
  BY <1>14 DEF Close
<1>15. CASE UNCHANGED vars
  BY <1>15 DEF vars
<1> QED
  BY <1>1, <1>2, <1>3, <1>4, <1>5, <1>6, <1>7, <1>8, <1>9, <1>10, <1>11, <1>12,
     <1>13, <1>14, <1>15 DEF Next, Step

LEMMA LoginCorrect == Spec => []LoginInv
  BY TypeCorrect, LoginInvInit, LoginInvStep, PTL DEF Spec

\* Two tasks never open or close SSO sessions at the same time.
THEOREM LoginsExcludeEachOther == Spec => []OneLoginAtATime
<1>1. LoginInv => OneLoginAtATime
  BY DEF LoginInv
<1> QED
  BY LoginCorrect, <1>1, PTL

\* The DELETE of a session is never sent with another session's token.
THEOREM LogoutUsesItsToken == Spec => []TicketHasItsToken
<1>1. LoginInv => TicketHasItsToken
  BY DEF LoginInv
<1> QED
  BY LoginCorrect, <1>1, PTL

\* No API call goes out without a bearer token.
THEOREM NoCallWithoutToken == Spec => []BearerAlwaysSent
<1>1. LoginInv => BearerAlwaysSent
  BY DEF LoginInv, BearerAlwaysSent
<1> QED
  BY LoginCorrect, <1>1, PTL

\* A session is given up only by the shutdown or by a request whose own token was
\* rejected.
THEOREM FreshTokenSurvives == Spec => FreshTokenKept
<1>1. ASSUME TypeOK, LoginInv, Next, tgt # None, tgt' = None, ~closed'
      PROVE  \E r \in Requests : bearer[r] = tgt /\ answer[r] = "auth" /\ lock' = r
  <2>1. PICK r \in Requests : HandleUnauthorized(r)
    BY <1>1 DEF Next, Step, Enter, EnsureLocked, ServeDelete, DropToken, Leg1, Leg2,
                LoginFails, Serve, Retry, WakeUp, Return, Cancel, Expire, Terminate,
                Close, authVars, LoginInv, TypeOK
  <2>2. ~Replaced(r) /\ lock' = r
    BY <1>1, <2>1 DEF HandleUnauthorized, BeginRelogin
  <2>3. bearer[r] # None /\ token = tgt
    BY <1>1, <2>1 DEF HandleUnauthorized, LoginInv, TicketHasItsToken
  <2>4. bearer[r] = tgt
    BY <1>1, <2>2, <2>3 DEF Replaced
  <2> QED
    BY <2>1, <2>2, <2>4 DEF HandleUnauthorized
<1>2. TypeOK /\ LoginInv /\ [Next]_vars
        => [tgt # None /\ tgt' = None =>
              closed' \/ \E r \in Requests : bearer[r] = tgt /\ answer[r] = "auth" /\ lock' = r]_vars
  BY <1>1
<1> QED
  BY TypeCorrect, LoginCorrect, <1>2, PTL DEF Spec, FreshTokenKept

--------------------------------------------------------------------------------
(* What a call has done at each point of its loop. *)

\* Until its answer is in, a call that may not be repeated has not been carried out;
\* a rejection means it was not, a success that it was, once.
CallInv ==
    /\ \A r \in Requests : outcome[r] = "none" <=> pc[r] # "done"
    /\ \A r \in Requests : pc[r] = "answered" => answer[r] # "none"
    /\ \A r \in Unrepeatable :
          /\ applied[r] <= 1
          /\ pc[r] \notin {"answered", "done"} => applied[r] = 0
          /\ pc[r] = "answered" /\ answer[r] \in NotApplied => applied[r] = 0
          /\ pc[r] = "answered" /\ answer[r] = "ok" => applied[r] = 1

LEMMA CallInvInit == Init => CallInv
  BY DEF Init, CallInv, Unrepeatable

LEMMA CallInvStep == TypeOK /\ CallInv /\ [Next]_vars => CallInv'
<1> SUFFICES ASSUME TypeOK, CallInv, [Next]_vars PROVE CallInv'
  OBVIOUS
<1> USE DEF TypeOK, CallInv, Unrepeatable, NotApplied, InDoubt, Goto, Finish, Send,
            authVars, requestVars, sessionVars
<1>1. ASSUME NEW r \in Requests, Enter(r) PROVE CallInv'
  BY <1>1 DEF Enter, LoopTop
<1>2. ASSUME NEW r \in Requests, EnsureLocked(r) PROVE CallInv'
  BY <1>2 DEF EnsureLocked
<1>3. ASSUME NEW r \in Requests, HandleUnauthorized(r) PROVE CallInv'
  BY <1>3 DEF HandleUnauthorized, BeginRelogin
<1>4. ASSUME NEW r \in Requests, ServeDelete(r) PROVE CallInv'
  BY <1>4 DEF ServeDelete
<1>5. ASSUME NEW r \in Requests, DropToken(r) PROVE CallInv'
  BY <1>5 DEF DropToken
<1>6. ASSUME NEW r \in Requests, Leg1(r) PROVE CallInv'
  BY <1>6 DEF Leg1, LoginFails
<1>7. ASSUME NEW r \in Requests, Leg2(r) PROVE CallInv'
  BY <1>7 DEF Leg2, LoginFails
<1>8. ASSUME NEW r \in Requests, Serve(r) PROVE CallInv'
  BY <1>8 DEF Serve
<1>9. ASSUME NEW r \in Requests, Retry(r) PROVE CallInv'
  BY <1>9 DEF Retry, MayRetry
<1>10. ASSUME NEW r \in Requests, WakeUp(r) PROVE CallInv'
  BY <1>10 DEF WakeUp, LoopTop
<1>11. ASSUME NEW r \in Requests, Return(r) PROVE CallInv'
  BY <1>11 DEF Return
<1>12. ASSUME NEW r \in Requests, Cancel(r) PROVE CallInv'
  BY <1>12 DEF Cancel, InSlot, Locked
<1>13. ASSUME NEW s \in Sessions, Expire(s) \/ Terminate(s) PROVE CallInv'
  BY <1>13 DEF Expire, Terminate
<1>14. CASE Close
  BY <1>14 DEF Close
<1>15. CASE UNCHANGED vars
  BY <1>15 DEF vars
<1> QED
  BY <1>1, <1>2, <1>3, <1>4, <1>5, <1>6, <1>7, <1>8, <1>9, <1>10, <1>11, <1>12,
     <1>13, <1>14, <1>15 DEF Next, Step

LEMMA CallsCorrect == Spec => []CallInv
  BY TypeCorrect, CallInvInit, CallInvStep, PTL DEF Spec

\* A call that may not be re-sent is carried out at most once.
THEOREM NoDoubleWrite == Spec => []WriteAtMostOnce
<1>1. CallInv => WriteAtMostOnce
  BY DEF CallInv, WriteAtMostOnce
<1> QED
  BY CallsCorrect, <1>1, PTL

\* What is still to be sent has been paid for by a retry or by the re-authentication.
BudgetInv ==
    \A r \in Requests :
      sends[r] <= attempt[r] + (IF reauthed[r] THEN 1 ELSE 0)
                    + (IF pc[r] \in {"flight", "answered", "done"} THEN 1 ELSE 0)

LEMMA BudgetInit == Init => BudgetInv
  BY DEF Init, BudgetInv

LEMMA BudgetStep == TypeOK /\ BudgetInv /\ [Next]_vars => BudgetInv'
<1> SUFFICES ASSUME TypeOK, BudgetInv, [Next]_vars PROVE BudgetInv'
  OBVIOUS
<1> USE DEF TypeOK, BudgetInv, Goto, Finish, Send, authVars, requestVars, sessionVars
<1>1. ASSUME NEW r \in Requests, Enter(r) PROVE BudgetInv'
  BY <1>1 DEF Enter, LoopTop
<1>2. ASSUME NEW r \in Requests, EnsureLocked(r) PROVE BudgetInv'
  BY <1>2 DEF EnsureLocked
<1>3. ASSUME NEW r \in Requests, HandleUnauthorized(r) PROVE BudgetInv'
  BY <1>3 DEF HandleUnauthorized, MarkReauthed, BeginRelogin
<1>4. ASSUME NEW r \in Requests, ServeDelete(r) PROVE BudgetInv'
  BY <1>4 DEF ServeDelete
<1>5. ASSUME NEW r \in Requests, DropToken(r) PROVE BudgetInv'
  BY <1>5 DEF DropToken
<1>6. ASSUME NEW r \in Requests, Leg1(r) PROVE BudgetInv'
  BY <1>6 DEF Leg1, LoginFails
<1>7. ASSUME NEW r \in Requests, Leg2(r) PROVE BudgetInv'
  BY <1>7 DEF Leg2, LoginFails
<1>8. ASSUME NEW r \in Requests, Serve(r) PROVE BudgetInv'
  BY <1>8 DEF Serve
<1>9. ASSUME NEW r \in Requests, Retry(r) PROVE BudgetInv'
  BY <1>9 DEF Retry
<1>10. ASSUME NEW r \in Requests, WakeUp(r) PROVE BudgetInv'
  BY <1>10 DEF WakeUp, LoopTop
<1>11. ASSUME NEW r \in Requests, Return(r) PROVE BudgetInv'
  BY <1>11 DEF Return
<1>12. ASSUME NEW r \in Requests, Cancel(r) PROVE BudgetInv'
  BY <1>12 DEF Cancel, InSlot, Locked
<1>13. ASSUME NEW s \in Sessions, Expire(s) \/ Terminate(s) PROVE BudgetInv'
  BY <1>13 DEF Expire, Terminate
<1>14. CASE Close
  BY <1>14 DEF Close
<1>15. CASE UNCHANGED vars
  BY <1>15 DEF vars
<1> QED
  BY <1>1, <1>2, <1>3, <1>4, <1>5, <1>6, <1>7, <1>8, <1>9, <1>10, <1>11, <1>12,
     <1>13, <1>14, <1>15 DEF Next, Step

\* A call is sent once for every retry, once for the re-authentication and once more.
THEOREM SendsAreBudgeted == Spec => []SendBudget
<1>1. TypeOK /\ BudgetInv => SendBudget
  BY DEF TypeOK, BudgetInv, SendBudget
<1> QED
  BY TypeCorrect, BudgetInit, BudgetStep, <1>1, PTL DEF Spec

--------------------------------------------------------------------------------
(* Why every request returns: somebody can always go on, and nobody can go on   *)
(* for ever.  That those who can go on do is the fairness TLC adds.             *)

\* A request that cannot take a step of its own: it needs the lock, and it is taken.
Waits(r) ==
    /\ ~LockFree
    /\ \/ pc[r] = "lockwait"
       \/ pc[r] = "answered" /\ answer[r] = "auth" /\ ~reauthed[r]

\* The lock is taken inside a slot of the semaphore; yet of the requests that hold a
\* slot there is always one that does not wait for the lock.
SomebodyGoesOn ==
    (\E r \in Requests : pc[r] \in InSlot) =>
        \E r \in Requests : pc[r] \in InSlot /\ ~Waits(r)

\* Who holds the lock is in a slot and waits for nobody.
THEOREM LockInSlotIsSafe == Spec => []SomebodyGoesOn
<1>1. TypeOK /\ LoginInv => SomebodyGoesOn
  <2> SUFFICES ASSUME TypeOK, LoginInv, NEW r \in Requests, pc[r] \in InSlot
               PROVE  \E q \in Requests : pc[q] \in InSlot /\ ~Waits(q)
    BY DEF SomebodyGoesOn
  <2>1. CASE LockFree
    BY <2>1 DEF Waits
  <2>2. CASE ~LockFree
    <3>1. lock \in Requests /\ pc[lock] \in Locked
      BY <2>2 DEF TypeOK, LoginInv, OneLoginAtATime, LockFree
    <3>2. pc[lock] \in InSlot /\ ~Waits(lock)
      BY <3>1 DEF InSlot, Locked, Waits
    <3> QED
      BY <3>1, <3>2
  <2> QED
    BY <2>1, <2>2
<1> QED
  BY TypeCorrect, LoginCorrect, <1>1, PTL

\* The order in which a request passes its points between two sends.
Stage(label) ==
    CASE label = "queued" -> 9
      [] label = "backoff" -> 8
      [] label = "lockwait" -> 7
      [] label = "delete" -> 6
      [] label = "deleted" -> 5
      [] label = "leg1" -> 4
      [] label = "leg2" -> 3
      [] label = "flight" -> 2
      [] label = "answered" -> 1
      [] OTHER -> 0

\* What a request still has before it: its retries, its one re-authentication, and
\* the way to its next answer.
Left(r) ==
    10 * ((MaxRetries - attempt[r]) + (IF reauthed[r] THEN 0 ELSE 1)) + Stage(pc[r])

\* Every step of a request, its cancellation too, uses some of that up, and no step
\* of anybody gives any of it back: rate limiting, dead tokens and logins by others
\* cannot keep a request going round its loop.
LoopRunsOut ==
    [][\A r \in Requests :
          /\ Left(r)' <= Left(r)
          /\ Step(r) \/ Cancel(r) => Left(r)' < Left(r)]_vars

LEMMA StagesInOrder ==
  ASSUME NEW label \in PCs
  PROVE  Stage(label) \in 0 .. 9
  BY DEF Stage

\* The step of one request is no step of another.
LEMMA OwnStepOnly ==
  ASSUME TypeOK, NEW q \in Requests, Step(q) \/ Cancel(q), NEW r \in Requests, r # q
  PROVE  UNCHANGED <<pc[r], attempt[r], reauthed[r]>>
<1> USE DEF TypeOK, Goto, Finish, Send
<1>1. CASE Enter(q) \/ EnsureLocked(q) \/ HandleUnauthorized(q)
  BY <1>1 DEF Enter, EnsureLocked, HandleUnauthorized, MarkReauthed, BeginRelogin, LoopTop
<1>2. CASE ServeDelete(q) \/ DropToken(q) \/ Leg1(q) \/ Leg2(q)
  BY <1>2 DEF ServeDelete, DropToken, Leg1, Leg2, LoginFails
<1>3. CASE Serve(q) \/ Retry(q) \/ WakeUp(q) \/ Return(q) \/ Cancel(q)
  BY <1>3 DEF Serve, Retry, WakeUp, LoopTop, Return, Cancel, requestVars
<1> QED
  BY <1>1, <1>2, <1>3 DEF Step

LEMMA OwnStepCounts ==
  ASSUME TypeOK, TypeOK', NEW r \in Requests, Step(r) \/ Cancel(r)
  PROVE  Left(r)' < Left(r)
<1> USE DEF TypeOK, Goto, Finish, Send, Left, Stage
<1>1. CASE Enter(r) \/ WakeUp(r)
  BY <1>1 DEF Enter, WakeUp, LoopTop
<1>2. CASE EnsureLocked(r)
  BY <1>2 DEF EnsureLocked
<1>3. CASE HandleUnauthorized(r)
  <2>1. ~reauthed[r] /\ reauthed'[r] /\ attempt' = attempt /\ pc[r] = "answered"
    BY <1>3 DEF HandleUnauthorized, MarkReauthed
  <2>2. pc'[r] \in {"flight", "delete", "leg1"}
    BY <1>3 DEF HandleUnauthorized, BeginRelogin
  <2> QED
    BY <2>1, <2>2
<1>4. CASE ServeDelete(r) \/ DropToken(r)
  BY <1>4 DEF ServeDelete, DropToken
<1>5. CASE Leg1(r) \/ Leg2(r)
  BY <1>5 DEF Leg1, Leg2, LoginFails
<1>6. CASE Serve(r) \/ Return(r)
  BY <1>6 DEF Serve, Return
<1>7. CASE Retry(r)
  BY <1>7 DEF Retry, MayRetry
<1>8. CASE Cancel(r)
  <2>1. pc'[r] = "done" /\ UNCHANGED <<attempt, reauthed>> /\ pc[r] \in InSlot
    BY <1>8 DEF Cancel
  <2> QED
    BY <2>1 DEF InSlot, Locked
<1> QED
  BY <1>1, <1>2, <1>3, <1>4, <1>5, <1>6, <1>7, <1>8 DEF Step

\* A request's loop runs out, whatever its fellows and the platform do meanwhile.
THEOREM LoopsRunOut == Spec => LoopRunsOut
<1>1. ASSUME TypeOK, TypeOK', [Next]_vars, NEW r \in Requests
      PROVE  /\ Left(r)' <= Left(r)
             /\ Step(r) \/ Cancel(r) => Left(r)' < Left(r)
  <2>1. Left(r) \in Int /\ Left(r)' \in Int
    BY <1>1, StagesInOrder DEF TypeOK, Left
  <2>2. CASE Step(r) \/ Cancel(r)
    <3>1. Left(r)' < Left(r)
      BY <1>1, <2>2, OwnStepCounts
    <3> QED
      BY <2>1, <3>1
  <2>3. ASSUME UNCHANGED <<pc[r], attempt[r], reauthed[r]>> PROVE Left(r)' = Left(r)
    BY <2>3 DEF Left
  <2>4. ASSUME NEW q \in Requests, Step(q) \/ Cancel(q), q # r
        PROVE  Left(r)' = Left(r)
    BY <1>1, <2>3, <2>4, OwnStepOnly
  <2>5. ASSUME (\E s \in Sessions : Expire(s) \/ Terminate(s)) \/ Close \/ UNCHANGED vars
        PROVE  Left(r)' = Left(r)
    BY <2>3, <2>5 DEF Expire, Terminate, Close, vars, requestVars
  <2>6. CASE ~(Step(r) \/ Cancel(r))
    <3>1. Left(r)' = Left(r)
      BY <1>1, <2>4, <2>5, <2>6 DEF Next
    <3> QED
      BY <2>1, <2>6, <3>1
  <2> QED
    BY <2>2, <2>6
<1>2. TypeOK /\ TypeOK' /\ [Next]_vars
        => [\A r \in Requests :
               /\ Left(r)' <= Left(r)
               /\ Step(r) \/ Cancel(r) => Left(r)' < Left(r)]_vars
  BY <1>1
<1> QED
  BY TypeCorrect, <1>2, PTL DEF Spec, LoopRunsOut

--------------------------------------------------------------------------------
(* Which sessions are open, as long as no misfortune befalls a session.        *)

\* The misfortunes after which a session is left over, and without them.
Leaky == {"leg1_lost", "leg2", "leg2_lost", "logout", "expire", "cancel"}
SessionsSpared == Faults \intersect Leaky = {}

\* A live session is kept, or about to be, or its DELETE is on the way with its own
\* token, which has not expired; after the shutdown nobody opens one.
SessionInv ==
    SessionsSpared =>
      /\ expired = {}
      /\ \A s \in live : s = tgt \/ \E q \in Requests : pc[q] \in {"leg2", "delete"} /\ ticket[q] = s
      /\ \A q \in Requests : pc[q] = "delete" => ticket[q] = token
      /\ closed => tgt = None /\ \A q \in Requests : pc[q] \in {"queued", "done"}

\* The DELETE of the only session there is, sent with its own token, leaves none.
LEMMA LastDeleted ==
    ASSUME expired = {}, live \subseteq {token}
    PROVE  Deleted(token) = {}
<1>1. CASE live = {}
  BY <1>1 DEF Deleted, Valid
<1>2. CASE live = {token}
  <2>1. Valid(token)
    BY <1>2 DEF Valid
  <2>2. live \ {token} = {}
    BY <1>2
  <2> QED
    BY <2>1, <2>2 DEF Deleted
<1> QED
  BY <1>1, <1>2

LEMMA SessionInit == Init => SessionInv
  BY DEF Init, SessionInv

LEMMA SessionStep == TypeOK /\ LoginInv /\ SessionInv /\ [Next]_vars => SessionInv'
<1> SUFFICES ASSUME TypeOK, LoginInv, SessionInv, [Next]_vars, SessionsSpared PROVE SessionInv'
  BY DEF SessionInv
<1> USE DEF TypeOK, SessionInv, SessionsSpared, Leaky, Goto, Finish, Send, authVars, requestVars,
            sessionVars, Misfortune, Sessions
<1>1. ASSUME NEW r \in Requests, Enter(r) PROVE SessionInv'
  BY <1>1 DEF Enter, LoopTop
<1>2. ASSUME NEW r \in Requests, EnsureLocked(r) PROVE SessionInv'
  BY <1>2 DEF EnsureLocked
<1>3. ASSUME NEW r \in Requests, HandleUnauthorized(r) PROVE SessionInv'
  <2>1. \A q \in Requests : pc[q] \notin {"leg2", "delete"}
    BY <1>3 DEF HandleUnauthorized, LockFree, LoginInv, OneLoginAtATime, Locked
  <2>2. tgt # None => token = tgt
    BY DEF LoginInv, TicketHasItsToken
  <2> QED
    BY <1>3, <2>1, <2>2 DEF HandleUnauthorized, BeginRelogin
<1>4. ASSUME NEW r \in Requests, ServeDelete(r) PROVE SessionInv'
  <2>1. tgt = None /\ \A q \in Requests \ {r} : pc[q] \notin {"leg2", "delete"}
    BY <1>4 DEF ServeDelete, LoginInv, OneLoginAtATime, Locked
  <2>2. live \subseteq {token} /\ ticket[r] = token
    BY <1>4, <2>1 DEF ServeDelete
  <2>3. live' = {}
    <3>1. live' = Deleted(token)
      BY <1>4, <2>2 DEF ServeDelete
    <3> QED
      BY <2>2, <3>1, LastDeleted
  <2>4. /\ ~closed /\ closed' = closed /\ expired' = expired
        /\ \A q \in Requests : pc'[q] # "delete"
    BY <1>4, <2>1 DEF ServeDelete
  <2> QED
    BY <2>3, <2>4
<1>5. ASSUME NEW r \in Requests, DropToken(r) PROVE SessionInv'
  <2>1. \A q \in Requests \ {r} : pc[q] # "delete"
    BY <1>5 DEF DropToken, LoginInv, OneLoginAtATime, Locked
  <2> QED
    BY <1>5, <2>1 DEF DropToken
<1>6. ASSUME NEW r \in Requests, Leg1(r) PROVE SessionInv'
  <2>1. tgt = None /\ \A q \in Requests \ {r} : pc[q] \notin {"leg2", "delete"}
    BY <1>6 DEF Leg1, LoginInv, OneLoginAtATime, Locked
  <2>2. live = {} /\ pc[r] = "leg1"
    BY <1>6, <2>1 DEF Leg1
  <2> QED
    BY <1>6, <2>1, <2>2 DEF Leg1, OpenSession, LoginFails
<1>7. ASSUME NEW r \in Requests, Leg2(r) PROVE SessionInv'
  <2>1. tgt = None /\ \A q \in Requests \ {r} : pc[q] \notin {"leg2", "delete"}
    BY <1>7 DEF Leg2, LoginInv, OneLoginAtATime, Locked
  <2> QED
    BY <1>7, <2>1 DEF Leg2
<1>8. ASSUME NEW r \in Requests, Serve(r) PROVE SessionInv'
  BY <1>8 DEF Serve
<1>9. ASSUME NEW r \in Requests, Retry(r) PROVE SessionInv'
  BY <1>9 DEF Retry
<1>10. ASSUME NEW r \in Requests, WakeUp(r) PROVE SessionInv'
  BY <1>10 DEF WakeUp, LoopTop
<1>11. ASSUME NEW r \in Requests, Return(r) PROVE SessionInv'
  BY <1>11 DEF Return
<1>12. ASSUME NEW r \in Requests, Cancel(r) PROVE SessionInv'
  BY <1>12 DEF Cancel
<1>13. ASSUME NEW s \in Sessions, Expire(s) \/ Terminate(s) PROVE SessionInv'
  BY <1>13 DEF Expire, Terminate
<1>14. CASE Close
  <2>1. live \subseteq {tgt} /\ (tgt # None => token = tgt)
    BY <1>14 DEF Close, LoginInv, TicketHasItsToken
  <2>2. live' = {}
    <3>1. CASE tgt = None
      <4>1. live' = live /\ 0 \notin live
        BY <1>14, <3>1 DEF Close
      <4> QED
        BY <2>1, <3>1, <4>1
    <3>2. CASE tgt # None
      <4>1. live' = Deleted(token)
        BY <1>14, <2>1, <3>2 DEF Close
      <4> QED
        BY <2>1, <3>2, <4>1, LastDeleted
    <3> QED
      BY <3>1, <3>2
  <2>3. /\ tgt' = None /\ expired' = expired
        /\ \A q \in Requests : pc'[q] \in {"queued", "done"}
    BY <1>14 DEF Close
  <2> QED
    BY <2>2, <2>3
<1>15. CASE UNCHANGED vars
  BY <1>15 DEF vars
<1> QED
  BY <1>1, <1>2, <1>3, <1>4, <1>5, <1>6, <1>7, <1>8, <1>9, <1>10, <1>11, <1>12,
     <1>13, <1>14, <1>15 DEF Next, Step

LEMMA SessionsCorrect == Spec => []SessionInv
  BY TypeCorrect, LoginCorrect, SessionInit, SessionStep, PTL DEF Spec

\* Unless a login leg, a logout, an expiry or a cancellation goes wrong, the session
\* in use and those being opened or closed this moment are all there are.
THEOREM NoSessionLeaks == Spec => [](SessionsSpared => SessionsAccountedFor)
<1>1. SessionInv => (SessionsSpared => SessionsAccountedFor)
  BY DEF SessionInv, SessionsAccountedFor
<1> QED
  BY SessionsCorrect, <1>1, PTL

\* Under the same condition the shutdown leaves the account no session.
THEOREM ShutdownLeavesNone == Spec => [](SessionsSpared => NothingLeftOpen)
<1>1. TypeOK /\ SessionInv => (SessionsSpared => NothingLeftOpen)
  BY DEF TypeOK, SessionInv, NothingLeftOpen, Sessions
<1> QED
  BY TypeCorrect, SessionsCorrect, <1>1, PTL

--------------------------------------------------------------------------------
(* How many sessions are opened.  Every login but the first is paid for: by a   *)
(* misfortune, or by the one re-authentication of a request the role denies.    *)

\* A usable token is cached, or is about to be.
InHand ==
    \/ lock = Nobody /\ Valid(token)
    \/ \E q \in Requests : pc[q] = "leg2" /\ Valid(ticket[q])

\* The login that may be opened without a further excuse.
Owed == IF closed \/ InHand THEN 0 ELSE 1
Excused == {d \in Denied : reauthed[d]}

\* The platform hands out session numbers in order, and never again.
NumbersInOrder ==
    /\ live \subseteq 1 .. issued /\ expired \subseteq 1 .. issued
    /\ token <= issued /\ tgt <= issued
    /\ \A q \in Requests : bearer[q] <= issued /\ ticket[q] <= issued

\* A granted request that was answered as unauthenticated carried a dead token.
RejectedIsDead ==
    \A q \in Requests \ Denied :
      pc[q] = "answered" /\ answer[q] = "auth" => ~Valid(bearer[q])

QuietOnceClosed == closed => \A q \in Requests : pc[q] \in {"queued", "done"}

StormInv ==
    /\ NumbersInOrder
    /\ RejectedIsDead
    /\ QuietOnceClosed
    /\ issued + Owed <= 1 + Cardinality(Excused) + faults

LEMMA Excuses ==
    ASSUME TypeOK
    PROVE  IsFiniteSet(Excused) /\ Cardinality(Excused) \in Nat
           /\ Cardinality(Excused) <= Cardinality(Denied) /\ Cardinality(Denied) \in Nat
<1>1. IsFiniteSet(Denied)
  BY FS_Subset
<1>2. Excused \subseteq Denied
  BY DEF Excused
<1> QED
  BY <1>1, <1>2, FS_Subset, FS_CardinalityType

LEMMA StormInit == Init => StormInv
<1> SUFFICES ASSUME Init PROVE StormInv
  OBVIOUS
<1>1. Excused = {} /\ ~InHand
  BY DEF Init, Excused, InHand, Valid
<1>2. Cardinality(Excused) = 0
  BY <1>1, FS_EmptySet
<1>3. NumbersInOrder /\ RejectedIsDead /\ QuietOnceClosed
  BY DEF Init, NumbersInOrder, RejectedIsDead, QuietOnceClosed
<1>4. issued + Owed <= 1 + Cardinality(Excused) + faults
  BY <1>1, <1>2 DEF Init, Owed
<1> QED
  BY <1>3, <1>4 DEF StormInv

\* Where the numbers come from, when no session is opened and when one is.
LEMMA NumbersMove ==
    ASSUME TypeOK, NumbersInOrder, issued' \in {issued, issued + 1},
           live' \subseteq live \/ (issued' = issued + 1 /\ live' = live \union {issued + 1}),
           expired' \subseteq expired \union live,
           token' \in {token, None} \union {ticket[q] : q \in Requests},
           tgt' \in {tgt, None} \union {ticket[q] : q \in Requests},
           \A q \in Requests : bearer'[q] \in {bearer[q], token, ticket[q]},
           \A q \in Requests : ticket'[q] \in {ticket[q], tgt, issued'}
    PROVE  NumbersInOrder'
<1>1. issued \in Nat /\ issued' \in Nat /\ issued <= issued'
  BY DEF TypeOK
<1>2. token' <= issued' /\ tgt' <= issued'
  BY <1>1 DEF TypeOK, NumbersInOrder
<1>3. \A q \in Requests : bearer'[q] <= issued' /\ ticket'[q] <= issued'
  BY <1>1 DEF TypeOK, NumbersInOrder
<1>4. live' \subseteq 1 .. issued'
  <2>1. live' \subseteq live \/ (issued' = issued + 1 /\ live' \subseteq live \union {issued'})
    OBVIOUS
  <2>2. 1 .. issued \subseteq 1 .. issued' /\ (issued' = issued + 1 => issued' \in 1 .. issued')
    BY <1>1
  <2> QED
    BY <2>1, <2>2 DEF NumbersInOrder
<1>5. expired' \subseteq 1 .. issued'
  <2>1. 1 .. issued \subseteq 1 .. issued'
    BY <1>1
  <2> QED
    BY <2>1 DEF NumbersInOrder
<1> QED
  BY <1>2, <1>3, <1>4, <1>5 DEF NumbersInOrder

LEMMA InOrderStep == TypeOK /\ NumbersInOrder /\ [Next]_vars => NumbersInOrder'
<1> SUFFICES ASSUME TypeOK, NumbersInOrder, [Next]_vars PROVE NumbersInOrder'
  OBVIOUS
<1> USE DEF Goto, Finish, Send, authVars, requestVars, sessionVars
<1>1. live' \subseteq live \/ (issued' = issued + 1 /\ live' = live \union {issued + 1})
  BY DEF Next, Step, Enter, EnsureLocked, HandleUnauthorized, ServeDelete, Deleted, DropToken, Leg1,
         Leg2, Serve, Retry, WakeUp, Return, Cancel, Expire, Terminate, Close, OpenSession, vars
<1>2. issued' \in {issued, issued + 1} /\ expired' \subseteq expired \union live
  BY DEF Next, Step, Enter, EnsureLocked, HandleUnauthorized, ServeDelete, DropToken, Leg1,
         Leg2, Serve, Retry, WakeUp, Return, Cancel, Expire, Terminate, Close, OpenSession, vars
<1>3. /\ token' \in {token, None} \union {ticket[q] : q \in Requests}
      /\ tgt' \in {tgt, None} \union {ticket[q] : q \in Requests}
  BY DEF Next, Step, Enter, EnsureLocked, HandleUnauthorized, BeginRelogin, ServeDelete, DropToken,
         Leg1, Leg2, LoginFails, Serve, Retry, WakeUp, Return, Cancel, Expire, Terminate, Close, vars
<1>4. \A q \in Requests : bearer'[q] \in {bearer[q], token, ticket[q]}
  <2>1. ASSUME NEW r \in Requests, Enter(r) \/ EnsureLocked(r) \/ WakeUp(r) \/ HandleUnauthorized(r)
        PROVE  bearer' = bearer \/ bearer' = [bearer EXCEPT ![r] = token]
    BY <2>1 DEF Enter, LoopTop, Headers, EnsureLocked, HandleUnauthorized, WakeUp
  <2>2. ASSUME NEW r \in Requests, Leg2(r)
        PROVE  bearer' = bearer \/ bearer' = [bearer EXCEPT ![r] = ticket[r]]
    BY <2>2 DEF Leg2, LoginFails
  <2>3. \/ bearer' = bearer
        \/ \E r \in Requests : \/ Enter(r) \/ EnsureLocked(r) \/ WakeUp(r) \/ HandleUnauthorized(r)
                               \/ Leg2(r)
    BY DEF Next, Step, ServeDelete, DropToken, Leg1, LoginFails, Serve, Retry, Return, Cancel, Expire,
           Terminate, Close, vars
  <2> QED
    BY <2>1, <2>2, <2>3 DEF TypeOK
<1>5. \A q \in Requests : ticket'[q] \in {ticket[q], tgt, issued'}
  <2>1. ASSUME NEW r \in Requests, HandleUnauthorized(r)
        PROVE  ticket' = ticket \/ ticket' = [ticket EXCEPT ![r] = tgt]
    BY <2>1 DEF HandleUnauthorized, BeginRelogin
  <2>2. ASSUME NEW r \in Requests, Leg1(r)
        PROVE  ticket' = ticket \/ ticket' = [ticket EXCEPT ![r] = issued']
    BY <2>2 DEF Leg1, OpenSession
  <2>3. ticket' = ticket \/ \E r \in Requests : HandleUnauthorized(r) \/ Leg1(r)
    BY DEF Next, Step, Enter, EnsureLocked, ServeDelete, DropToken, Leg2, Serve, Retry, WakeUp,
           Return, Cancel, Expire, Terminate, Close, vars
  <2> QED
    BY <2>1, <2>2, <2>3 DEF TypeOK
<1> QED
  BY <1>1, <1>2, <1>3, <1>4, <1>5, NumbersMove

\* A number that was handed out and is not accepted is never accepted again.
LEMMA DeadStaysDead ==
    ASSUME TypeOK, NumbersInOrder, [Next]_vars, NEW n, n <= issued, n \in Nat, ~Valid(n)
    PROVE  ~Valid(n)'
<1> USE DEF Valid, TypeOK, NumbersInOrder, authVars, requestVars, sessionVars
<1>1. live' \subseteq live \union {issued + 1} /\ expired \subseteq expired'
  BY DEF Next, Step, Enter, EnsureLocked, HandleUnauthorized, ServeDelete, Deleted, DropToken, Leg1,
         Leg2, Serve, Retry, WakeUp, Return, Cancel, Expire, Terminate, Close, OpenSession, vars
<1> QED
  BY <1>1

LEMMA RejectedStep ==
    ASSUME TypeOK, NumbersInOrder, RejectedIsDead, [Next]_vars
    PROVE  RejectedIsDead'
<1> SUFFICES ASSUME NEW q \in Requests \ Denied, pc'[q] = "answered", answer'[q] = "auth"
             PROVE  bearer'[q] \notin live' \ expired'
  BY DEF RejectedIsDead, Valid
<1> USE DEF TypeOK, Goto, Finish, Send, authVars, requestVars, sessionVars
<1>1. CASE Serve(q)
  <2>1. ~Valid(bearer[q])
    BY <1>1 DEF Serve, InDoubt, Admitted
  <2>2. bearer' = bearer /\ live' = live /\ expired' = expired
    BY <1>1 DEF Serve
  <2> QED
    BY <2>1, <2>2 DEF Valid
<1>2. CASE ~Serve(q)
  <2>1. ASSUME NEW r \in Requests, Step(r) \/ Cancel(r)
        PROVE  pc[q] = "answered" /\ answer[q] = "auth" /\ bearer'[q] = bearer[q]
    <3>1. CASE r = q
      BY <1>2, <2>1, <3>1 DEF Step, Enter, EnsureLocked, LoopTop, HandleUnauthorized, BeginRelogin,
             ServeDelete, DropToken, Leg1, Leg2, LoginFails, Retry, WakeUp, Return, Cancel
    <3>2. CASE r # q
      BY <2>1, <3>2 DEF Step, Enter, EnsureLocked, LoopTop, HandleUnauthorized, BeginRelogin,
             ServeDelete, DropToken, Leg1, Leg2, LoginFails, Serve, Retry, WakeUp, Return, Cancel
    <3> QED
      BY <3>1, <3>2
  <2>2. pc[q] = "answered" /\ answer[q] = "auth" /\ bearer'[q] = bearer[q]
    BY <2>1 DEF Next, Expire, Terminate, Close, vars
  <2>3. ~Valid(bearer[q]) /\ bearer[q] <= issued /\ bearer[q] \in Nat
    BY <2>2 DEF RejectedIsDead, NumbersInOrder
  <2>4. bearer'[q] \notin live' \ expired'
    <3>1. PICK n \in Nat : n = bearer[q]
      BY <2>3
    <3> QED
      BY <2>2, <2>3, <3>1, DeadStaysDead DEF Valid
  <2> QED
    BY <2>4
<1> QED
  BY <1>1, <1>2

LEMMA QuietStep ==
    ASSUME TypeOK, QuietOnceClosed, [Next]_vars
    PROVE  QuietOnceClosed'
<1> USE DEF QuietOnceClosed, authVars, requestVars, sessionVars
<1>1. ASSUME NEW r \in Requests, Step(r) \/ Cancel(r) PROVE ~closed /\ closed' = closed
  BY <1>1 DEF Step, Enter, EnsureLocked, HandleUnauthorized, ServeDelete, DropToken, Leg1, Leg2,
         Serve, Retry, WakeUp, Return, Cancel, InSlot, Locked
<1> QED
  BY <1>1 DEF Next, Expire, Terminate, Close, vars

\* A login that is under way has not brought anything yet.
LEMMA NothingInHand ==
    ASSUME LoginInv, QuietOnceClosed, NEW r \in Requests, pc[r] \in {"delete", "deleted", "leg1"}
    PROVE  Owed = 1
BY DEF LoginInv, OneLoginAtATime, Locked, InHand, Owed, QuietOnceClosed

\* Steps that open no session: the debt does not grow, or a misfortune pays for it.
LEMMA ExcusesGrow ==
    ASSUME TypeOK, TypeOK', \A q \in Requests : reauthed[q] => reauthed'[q]
    PROVE  Cardinality(Excused) <= Cardinality(Excused')
<1>1. IsFiniteSet(Excused')
  <2>1. IsFiniteSet(Denied) /\ Excused' \subseteq Denied
    BY FS_Subset DEF Excused
  <2> QED
    BY <2>1, FS_Subset
<1>2. Excused \subseteq Excused'
  BY DEF Excused
<1> QED
  BY <1>1, <1>2, FS_Subset

LEMMA Unchanged ==
    ASSUME TypeOK, TypeOK', issued + Owed <= 1 + Cardinality(Excused) + faults,
           issued' = issued, \A q \in Requests : reauthed[q] => reauthed'[q],
           \/ faults' = faults + 1
           \/ faults' = faults /\ (Owed' = 1 => Owed = 1)
    PROVE  issued' + Owed' <= 1 + Cardinality(Excused') + faults'
<1>1. Cardinality(Excused) <= Cardinality(Excused')
  BY ExcusesGrow
<1>2. Cardinality(Excused) \in Nat /\ Cardinality(Excused') \in Nat
  <2>1. IsFiniteSet(Denied) /\ Excused \subseteq Denied /\ Excused' \subseteq Denied
    BY FS_Subset DEF Excused
  <2> QED
    BY <2>1, FS_Subset, FS_CardinalityType
<1>3. Owed \in {0, 1} /\ Owed' \in {0, 1}
  BY DEF Owed
<1>4. issued \in Nat /\ faults \in Nat
  BY DEF TypeOK
<1> QED
  BY <1>1, <1>2, <1>3, <1>4

\* A session is opened: by the login that was owed.
LEMMA Opened ==
    ASSUME TypeOK, TypeOK', StormInv, LoginInv, NEW r \in Requests, pc[r] = "leg1", OpenSession,
           reauthed' = reauthed,
           \/ faults' = faults + 1
           \/ faults' = faults /\ Owed' = 0
    PROVE  issued' + Owed' <= 1 + Cardinality(Excused') + faults'
<1>1. Owed = 1
  BY NothingInHand DEF StormInv
<1>2. issued' = issued + 1 /\ issued \in Nat /\ faults \in Nat
  BY DEF OpenSession, TypeOK
<1>3. Excused' = Excused /\ Cardinality(Excused) \in Nat
  BY Excuses DEF Excused
<1>4. Owed' \in {0, 1}
  BY DEF Owed
<1> QED
  BY <1>1, <1>2, <1>3, <1>4 DEF StormInv

\* A login is begun because the token is dead, or for a request the role denies.
LEMMA Begun ==
    ASSUME TypeOK, TypeOK', StormInv, LoginInv, NEW r \in Requests, HandleUnauthorized(r), ~Replaced(r)
    PROVE  issued' + Owed' <= 1 + Cardinality(Excused') + faults'
<1>1. /\ pc[r] = "answered" /\ answer[r] = "auth" /\ ~reauthed[r] /\ lock = Nobody
      /\ reauthed' = [reauthed EXCEPT ![r] = TRUE] /\ issued' = issued /\ faults' = faults
  BY DEF HandleUnauthorized, LockFree, MarkReauthed, sessionVars
<1>2. \A q \in Requests : reauthed[q] => reauthed'[q]
  BY <1>1 DEF TypeOK
<1>3. CASE r \in Denied
  <2>1. Excused' = Excused \union {r} /\ r \notin Excused
    BY <1>1, <1>3 DEF Excused, TypeOK
  <2>2. Cardinality(Excused') = Cardinality(Excused) + 1 /\ Cardinality(Excused) \in Nat
    BY <2>1, Excuses, FS_AddElement
  <2>3. Owed \in {0, 1} /\ Owed' \in {0, 1} /\ issued \in Nat /\ faults \in Nat
    BY DEF Owed, TypeOK
  <2> QED
    BY <1>1, <2>2, <2>3 DEF StormInv
<1>4. CASE r \notin Denied
  <2>1. ~Valid(bearer[r]) /\ bearer[r] # None
    BY <1>1, <1>4 DEF StormInv, RejectedIsDead, LoginInv
  <2>2. ~Valid(token)
    <3>1. CASE token = None
      BY <3>1 DEF Valid, TypeOK, Sessions
    <3>2. CASE token = bearer[r]
      BY <2>1, <3>2
    <3> QED
      BY <2>1, <3>1, <3>2 DEF Replaced
  <2>3. \A q \in Requests : pc[q] # "leg2"
    BY <1>1 DEF LoginInv, OneLoginAtATime, Locked, TypeOK
  <2>4. Owed = 1
    BY <1>1, <2>2, <2>3 DEF Owed, InHand, StormInv, QuietOnceClosed
  <2> QED
    BY <1>1, <1>2, <2>4, Unchanged DEF StormInv
<1> QED
  BY <1>3, <1>4

LEMMA CountStep ==
    ASSUME TypeOK, TypeOK', LoginInv, StormInv, [Next]_vars
    PROVE  issued' + Owed' <= 1 + Cardinality(Excused') + faults'
<1> DEFINE Bound == issued + Owed <= 1 + Cardinality(Excused) + faults
<1>1. Bound
  BY DEF StormInv
<1>2. ASSUME UNCHANGED <<issued, faults, reauthed>>, Owed' = 1 => Owed = 1 PROVE Bound'
  BY <1>1, <1>2, Unchanged
<1>3. ASSUME UNCHANGED <<issued, reauthed>>, faults' = faults + 1 PROVE Bound'
  BY <1>1, <1>3, Unchanged
<1>4. ASSUME UNCHANGED <<lock, token, ticket, closed, live, expired>>,
             NEW r \in Requests, pc[r] # "leg2", \A q \in Requests \ {r} : pc'[q] = pc[q]
      PROVE  Owed' = 1 => Owed = 1
  BY <1>4 DEF Owed, InHand, Valid
<1>5. ASSUME NEW r \in Requests, Enter(r) \/ WakeUp(r) \/ Retry(r) \/ Return(r) PROVE Bound'
  <2>1. UNCHANGED <<lock, token, ticket, closed, live, expired, issued, faults, reauthed>>
    BY <1>5 DEF Enter, WakeUp, Retry, Return, authVars, sessionVars
  <2>2. pc[r] # "leg2" /\ \A q \in Requests \ {r} : pc'[q] = pc[q]
    BY <1>5 DEF Enter, WakeUp, Retry, Return, LoopTop, Send, Finish, Goto, TypeOK
  <2> QED
    BY <1>2, <1>4, <2>1, <2>2
<1>6. ASSUME NEW r \in Requests, Serve(r) PROVE Bound'
  <2>1. UNCHANGED <<lock, token, ticket, closed, live, expired, issued, reauthed>>
    BY <1>6 DEF Serve, authVars, sessionVars
  <2>2. pc[r] # "leg2" /\ \A q \in Requests \ {r} : pc'[q] = pc[q]
    BY <1>6 DEF Serve, Goto, TypeOK
  <2>3. faults' = faults \/ faults' = faults + 1
    BY <1>6 DEF Serve, Misfortune
  <2> QED
    BY <1>2, <1>3, <1>4, <2>1, <2>2, <2>3
<1>7. ASSUME NEW r \in Requests, EnsureLocked(r) PROVE Bound'
  <2>1. UNCHANGED <<token, ticket, closed, live, expired, issued, faults, reauthed>>
    BY <1>7 DEF EnsureLocked, sessionVars
  <2>2. pc[r] = "lockwait" /\ lock = Nobody /\ \A q \in Requests \ {r} : pc'[q] = pc[q]
    BY <1>7 DEF EnsureLocked, LockFree, Send, Goto, TypeOK
  <2>3. CASE UNCHANGED lock
    BY <1>2, <1>4, <2>1, <2>2, <2>3
  <2>4. CASE token = None
    <3>1. ~Valid(token)
      BY <2>4 DEF Valid, TypeOK, Sessions
    <3>2. \A q \in Requests : pc[q] # "leg2"
      BY <2>2 DEF LoginInv, OneLoginAtATime, Locked, TypeOK
    <3>3. Owed = 1
      BY <2>2, <3>1, <3>2 DEF Owed, InHand, StormInv, QuietOnceClosed
    <3> QED
      BY <1>2, <2>1, <3>3
  <2> QED
    BY <1>7, <2>3, <2>4 DEF EnsureLocked
<1>8. ASSUME NEW r \in Requests, HandleUnauthorized(r) PROVE Bound'
  <2>1. CASE Replaced(r)
    <3>1. UNCHANGED <<lock, token, ticket, closed, live, expired, issued, faults>>
      BY <1>8, <2>1 DEF HandleUnauthorized, sessionVars
    <3>2. pc[r] # "leg2" /\ (\A q \in Requests \ {r} : pc'[q] = pc[q])
          /\ \A q \in Requests : reauthed[q] => reauthed'[q]
      BY <1>8, <2>1 DEF HandleUnauthorized, MarkReauthed, Send, Goto, TypeOK
    <3> QED
      BY <1>1, <1>4, <3>1, <3>2, Unchanged
  <2> QED
    BY <1>8, <2>1, Begun
<1>9. ASSUME NEW r \in Requests, ServeDelete(r) \/ DropToken(r) PROVE Bound'
  <2>1. Owed = 1
    BY <1>9, NothingInHand DEF ServeDelete, DropToken, StormInv
  <2>2. UNCHANGED <<issued, reauthed>> /\ (faults' = faults \/ faults' = faults + 1)
    BY <1>9 DEF ServeDelete, DropToken, Misfortune, sessionVars
  <2> QED
    BY <1>2, <1>3, <2>1, <2>2
<1>10. ASSUME NEW r \in Requests, Leg1(r) PROVE Bound'
  <2>1. Owed = 1 /\ pc[r] = "leg1" /\ UNCHANGED reauthed
    BY <1>10, NothingInHand DEF Leg1, StormInv
  <2>2. CASE UNCHANGED issued
    <3>1. faults' = faults \/ faults' = faults + 1
      BY <1>10 DEF Leg1, Misfortune
    <3> QED
      BY <1>2, <1>3, <2>1, <2>2, <3>1
  <2>3. CASE OpenSession /\ faults' = faults + 1
    BY <2>1, <2>3, Opened
  <2>4. CASE OpenSession /\ ticket' = [ticket EXCEPT ![r] = issued + 1] /\ Goto(r, "leg2")
             /\ UNCHANGED <<faults, expired>>
    <3>1. pc'[r] = "leg2" /\ ticket'[r] = issued + 1 /\ issued + 1 \in live'
      BY <2>4 DEF Goto, OpenSession, TypeOK
    <3>2. issued + 1 \notin expired'
      BY <2>4 DEF StormInv, NumbersInOrder, TypeOK
    <3>3. Owed' = 0
      BY <3>1, <3>2 DEF Owed, InHand, Valid
    <3> QED
      BY <2>1, <2>4, <3>3, Opened
  <2> QED
    BY <1>10, <2>2, <2>3, <2>4 DEF Leg1, Misfortune
<1>11. ASSUME NEW r \in Requests, Leg2(r) PROVE Bound'
  <2>1. UNCHANGED <<issued, reauthed, live, expired, closed>> /\ pc[r] = "leg2" /\ lock = r
    BY <1>11 DEF Leg2, sessionVars, LoginInv, OneLoginAtATime, Locked
  <2>2. CASE faults' = faults + 1
    BY <1>3, <2>1, <2>2
  <2>3. CASE token' = ticket[r] /\ lock' = Nobody /\ UNCHANGED faults
    <3>1. \A q \in Requests : pc[q] = "leg2" => q = r
      BY <2>1 DEF LoginInv, OneLoginAtATime, Locked
    <3>2. InHand => InHand'
      BY <2>1, <2>3, <3>1 DEF InHand, Valid
    <3> QED
      BY <1>2, <2>1, <2>3, <3>2 DEF Owed
  <2> QED
    BY <1>11, <2>2, <2>3 DEF Leg2, Misfortune, ReleaseLock
<1>12. ASSUME NEW r \in Requests, Cancel(r) PROVE Bound'
  <2>1. UNCHANGED reauthed /\ faults' = faults + 1
    BY <1>12 DEF Cancel, Misfortune
  <2>2. issued' = issued \/ (pc[r] = "leg1" /\ OpenSession)
    BY <1>12 DEF Cancel
  <2> QED
    BY <1>3, <2>1, <2>2, Opened
<1>13. ASSUME NEW s \in Sessions, Expire(s) \/ Terminate(s) PROVE Bound'
  BY <1>3, <1>13 DEF Expire, Terminate, Misfortune, requestVars
<1>14. CASE Close
  <2>1. Owed' = 0 /\ UNCHANGED <<issued, reauthed>> /\ (faults' = faults \/ faults' = faults + 1)
    BY <1>14 DEF Close, Owed, Misfortune, requestVars
  <2> QED
    BY <1>2, <1>3, <2>1
<1>15. CASE UNCHANGED vars
  <2>1. UNCHANGED <<issued, faults, reauthed, lock, token, ticket, closed, live, expired, pc>>
    BY <1>15 DEF vars, requestVars, authVars, sessionVars
  <2>2. Owed' = Owed
    BY <2>1 DEF Owed, InHand, Valid
  <2> QED
    BY <1>2, <2>1, <2>2
<1> QED
  BY <1>5, <1>6, <1>7, <1>8, <1>9, <1>10, <1>11, <1>12, <1>13, <1>14, <1>15 DEF Next, Step

LEMMA StormCorrect == Spec => []StormInv
<1>1. TypeOK /\ TypeOK' /\ LoginInv /\ StormInv /\ [Next]_vars => StormInv'
  BY InOrderStep, RejectedStep, QuietStep, CountStep DEF StormInv
<1> QED
  BY <1>1, TypeCorrect, LoginCorrect, StormInit, PTL DEF Spec

\* Requests that fail together share one re-login: beyond the first, a session is
\* opened for a misfortune, or once for each request the role denies.
THEOREM NoStorm == Spec => []NoReloginStorm
<1>1. TypeOK /\ StormInv => NoReloginStorm
  <2> SUFFICES ASSUME TypeOK, StormInv PROVE NoReloginStorm
    OBVIOUS
  <2>1. Owed \in {0, 1} /\ issued \in Nat /\ faults \in Nat
    BY DEF Owed, TypeOK
  <2> QED
    BY <2>1, Excuses DEF StormInv, NoReloginStorm
<1> QED
  BY <1>1, TypeCorrect, StormCorrect, PTL

--------------------------------------------------------------------------------
(* One denied request ends one session, by its re-login.  A granted request may *)
(* be turned down for that once, and its own re-authentication finds the next   *)
(* token, which nobody ends any more.                                           *)

Granted == Requests \ Denied
Calm == SessionsSpared /\ "terminate" \notin Faults /\ \A d, e \in Denied : d = e

\* The denied request has ended the session it found; and has left the lock's scope.
Killed == \E d \in Denied : reauthed[d] /\ pc[d] # "delete"
Over == \E d \in Denied : reauthed[d] /\ pc[d] \notin {"delete", "deleted"}

\* A granted request that was, or will be, turned down.
Rejected(r) ==
    \/ pc[r] = "flight" /\ ~Valid(bearer[r])
    \/ pc[r] = "answered" /\ answer[r] = "auth"

TokenLives ==
    /\ token # None => Valid(token) \/ \E q \in Denied : pc[q] = "deleted"
    /\ \A q \in Requests : pc[q] = "leg2" => Valid(ticket[q])
OnlyDeniedDelete == \A q \in Requests : pc[q] \in {"delete", "deleted"} => q \in Denied /\ reauthed[q]
RejectedOnce ==
    \A r \in Granted :
      /\ Rejected(r) => Killed /\ ~reauthed[r]
      /\ reauthed[r] => Over
      /\ outcome[r] # "auth"

GrantedInv == Calm => TokenLives /\ OnlyDeniedDelete /\ RejectedOnce

\* The steps of one request leave the others where they were.
LEMMA OthersStay ==
    ASSUME TypeOK, NEW r \in Requests, Step(r) \/ Cancel(r)
    PROVE  \A q \in Requests \ {r} : /\ pc'[q] = pc[q] /\ bearer'[q] = bearer[q]
                                     /\ answer'[q] = answer[q] /\ outcome'[q] = outcome[q]
                                     /\ reauthed'[q] = reauthed[q] /\ ticket'[q] = ticket[q]
BY DEF TypeOK, Step, Enter, EnsureLocked, LoopTop, Send, Goto, Finish, HandleUnauthorized, MarkReauthed,
       BeginRelogin, ServeDelete, DropToken, Leg1, Leg2, LoginFails, Serve, Retry, WakeUp, Return, Cancel,
       authVars, sessionVars

\* A request sent with the cached token is turned down only if the session was just ended.
LEMMA SentWithToken ==
    ASSUME TypeOK, GrantedInv, Calm, token # None, NEW r \in Granted
    PROVE  ~Valid(token) => Killed /\ ~reauthed[r]
<1> SUFFICES ASSUME ~Valid(token) PROVE Killed /\ ~reauthed[r]
  OBVIOUS
<1>1. PICK d \in Denied : pc[d] = "deleted" /\ reauthed[d]
  BY DEF GrantedInv, TokenLives, OnlyDeniedDelete
<1>2. ~Over
  BY <1>1 DEF Over, Calm
<1> QED
  BY <1>1, <1>2 DEF Killed, GrantedInv, RejectedOnce

LEMMA KilledStays ==
    ASSUME TypeOK, [Next]_vars
    PROVE  (Killed => Killed') /\ (Over => Over')
<1>1. ASSUME NEW d \in Denied, reauthed[d], pc[d] # "delete"
      PROVE  reauthed'[d] /\ pc'[d] # "delete" /\ (pc[d] # "deleted" => pc'[d] # "deleted")
  <2>1. ASSUME Step(d) \/ Cancel(d)
        PROVE  reauthed'[d] /\ pc'[d] # "delete" /\ (pc[d] # "deleted" => pc'[d] # "deleted")
    BY <1>1, <2>1 DEF TypeOK, Step, Enter, EnsureLocked, LoopTop, Send, Goto, Finish, HandleUnauthorized,
           ServeDelete, DropToken, Leg1, Leg2, LoginFails, Serve, Retry, WakeUp, Return, Cancel
  <2>2. ASSUME NEW r \in Requests, Step(r) \/ Cancel(r), r # d
        PROVE  reauthed'[d] /\ pc'[d] # "delete" /\ (pc[d] # "deleted" => pc'[d] # "deleted")
    BY <1>1, <2>2, OthersStay
  <2> QED
    BY <1>1, <2>1, <2>2 DEF Next, Expire, Terminate, Close, vars, requestVars
<1> QED
  BY <1>1 DEF Killed, Over

\* Only the DELETE and the shutdown end a session, and only the logins change the token.
LEMMA CalmSessions ==
    ASSUME Calm, Next
    PROVE  /\ live \subseteq live' \/ (\E r \in Requests : ServeDelete(r)) \/ Close
           /\ expired' = expired
<1> USE DEF Calm, SessionsSpared, Leaky, Misfortune, sessionVars
<1>1. ASSUME NEW r \in Requests, Step(r), ~ServeDelete(r)
      PROVE  live \subseteq live' /\ expired' = expired
  BY <1>1 DEF Step, Enter, EnsureLocked, HandleUnauthorized, DropToken, Leg1, OpenSession, Leg2,
         Serve, Retry, WakeUp, Return
<1>2. ASSUME NEW r \in Requests, ServeDelete(r) PROVE expired' = expired
  BY <1>2 DEF ServeDelete
<1>3. ASSUME NEW r \in Requests, Cancel(r) PROVE FALSE
  BY <1>3 DEF Cancel
<1>4. ASSUME NEW s \in Sessions, Expire(s) \/ Terminate(s) PROVE FALSE
  BY <1>4 DEF Expire, Terminate
<1>5. ASSUME Close PROVE expired' = expired
  BY <1>5 DEF Close
<1> QED
  BY <1>1, <1>2, <1>3, <1>4, <1>5 DEF Next

LEMMA TokenLivesStep ==
    ASSUME TypeOK, LoginInv, StormInv, SessionInv, GrantedInv, Calm, Next
    PROVE  TokenLives'
<1> USE DEF Goto, Finish, Send, authVars, requestVars, sessionVars
<1>1. OneLoginAtATime /\ TokenLives /\ OnlyDeniedDelete
  BY DEF LoginInv, GrantedInv
\* Steps that keep the token, the sessions and the place of the request that logs in.
<1>2. ASSUME live \subseteq live', expired' = expired, UNCHANGED <<token, ticket>>,
             \A q \in Requests : /\ pc'[q] = "leg2" => pc[q] = "leg2"
                                 /\ pc[q] = "deleted" => pc'[q] = "deleted"
      PROVE  TokenLives'
  <2>1. token' # None => token' \in live' \ expired' \/ \E q \in Denied : pc'[q] = "deleted"
    BY <1>1, <1>2 DEF TokenLives, Valid
  <2>2. ASSUME NEW q \in Requests, pc'[q] = "leg2" PROVE ticket'[q] \in live' \ expired'
    BY <1>1, <1>2, <2>2 DEF TokenLives, Valid
  <2> QED
    BY <2>1, <2>2 DEF TokenLives, Valid
<1>3. ASSUME NEW r \in Requests, Enter(r) \/ EnsureLocked(r) \/ Serve(r) \/ Retry(r) \/ WakeUp(r) \/ Return(r)
      PROVE  TokenLives'
  <2>1. UNCHANGED <<token, ticket, live, expired>>
    BY <1>3 DEF Enter, EnsureLocked, Serve, Retry, WakeUp, Return
  <2>2. \A q \in Requests : /\ pc'[q] = "leg2" => pc[q] = "leg2"
                            /\ pc[q] = "deleted" => pc'[q] = "deleted"
    BY <1>3 DEF TypeOK, Enter, EnsureLocked, LoopTop, Serve, Retry, WakeUp, Return
  <2> QED
    BY <1>2, <2>1, <2>2
<1>4. ASSUME NEW r \in Requests, HandleUnauthorized(r) PROVE TokenLives'
  <2>1. \A q \in Requests : pc[q] \notin Locked
    BY <1>1, <1>4 DEF HandleUnauthorized, LockFree, OneLoginAtATime, TypeOK
  <2>2. \A q \in Requests : pc'[q] \notin {"leg2", "deleted"}
    BY <1>4, <2>1 DEF HandleUnauthorized, BeginRelogin, TypeOK, Locked
  <2>3. token' \in {token, None} /\ live' = live /\ expired' = expired
    BY <1>4 DEF HandleUnauthorized, BeginRelogin
  <2> QED
    BY <1>1, <2>1, <2>2, <2>3 DEF TokenLives, Valid, Locked
<1>5. ASSUME NEW r \in Requests, ServeDelete(r) PROVE TokenLives'
  <2>1. r \in Denied /\ pc'[r] = "deleted"
    BY <1>1, <1>5 DEF ServeDelete, OnlyDeniedDelete, TypeOK
  <2>2. \A q \in Requests : pc'[q] # "leg2"
    BY <1>1, <1>5 DEF ServeDelete, OneLoginAtATime, TypeOK, Locked
  <2> QED
    BY <2>1, <2>2 DEF TokenLives
<1>6. ASSUME NEW r \in Requests, DropToken(r) PROVE TokenLives'
  <2>1. \A q \in Requests : pc'[q] # "leg2"
    BY <1>1, <1>6 DEF DropToken, OneLoginAtATime, TypeOK, Locked
  <2> QED
    BY <1>6, <2>1 DEF TokenLives, DropToken
<1>7. ASSUME NEW r \in Requests, Leg1(r) PROVE TokenLives'
  <2>1. pc[r] = "leg1" /\ \A q \in Requests \ {r} : pc[q] \notin Locked
    BY <1>1, <1>7 DEF Leg1, OneLoginAtATime, Locked
  <2>2. token' = token /\ live \subseteq live' /\ expired' = expired
    BY <1>7 DEF Leg1, LoginFails, OpenSession
  <2>3. pc'[r] = "leg2" => ticket'[r] \in live' \ expired'
    <3>1. issued + 1 \notin expired
      BY DEF StormInv, NumbersInOrder, TypeOK
    <3> QED
      BY <1>7, <3>1 DEF Leg1, LoginFails, OpenSession, TypeOK
  <2>4. \A q \in Requests \ {r} : pc'[q] = pc[q]
    BY <1>7, OthersStay DEF Step
  <2>5. token # None => token \in live' \ expired'
    BY <1>1, <2>1, <2>2 DEF TokenLives, Valid, Locked
  <2> QED
    BY <2>1, <2>2, <2>3, <2>4, <2>5 DEF TokenLives, Valid, Locked
<1>8. ASSUME NEW r \in Requests, Leg2(r) PROVE TokenLives'
  <2>1. Valid(ticket[r]) /\ \A q \in Requests \ {r} : pc[q] \notin Locked
    BY <1>1, <1>8 DEF Leg2, OneLoginAtATime, Locked, TokenLives
  <2>2. live' = live /\ expired' = expired /\ token' = ticket[r] /\ pc'[r] # "leg2"
    BY <1>8 DEF Leg2, TypeOK, Calm, SessionsSpared, Leaky, Misfortune
  <2>3. \A q \in Requests \ {r} : pc'[q] = pc[q]
    BY <1>8, OthersStay DEF Step
  <2> QED
    BY <2>1, <2>2, <2>3 DEF TokenLives, Valid, Locked
<1>9. CASE Close
  <2>1. \A q \in Requests : pc'[q] # "leg2" /\ pc[q] # "deleted"
    BY <1>9 DEF Close
  <2>2. token' # None => token' = token /\ live' = live /\ expired' = expired
    BY <1>9 DEF Close, Calm, SessionsSpared, Leaky, Misfortune
  <2> QED
    BY <1>1, <2>1, <2>2 DEF TokenLives, Valid
<1>10. ~\E r \in Requests : Cancel(r)
  BY DEF Cancel, Misfortune, Calm, SessionsSpared, Leaky
<1>11. ~\E s \in Sessions : Expire(s) \/ Terminate(s)
  BY DEF Expire, Terminate, Misfortune, Calm, SessionsSpared, Leaky
<1> QED
  BY <1>3, <1>4, <1>5, <1>6, <1>7, <1>8, <1>9, <1>10, <1>11 DEF Next, Step

LEMMA RejectedAtHandle ==
    ASSUME TypeOK, LoginInv, GrantedInv, Calm, NEW r \in Granted, HandleUnauthorized(r)
    PROVE  Over /\ (token # None => Valid(token))
<1>1. \A q \in Requests : pc[q] \notin Locked
  BY DEF HandleUnauthorized, LockFree, LoginInv, OneLoginAtATime, TypeOK
<1>2. Rejected(r)
  BY DEF HandleUnauthorized, Rejected
<1>3. Killed
  BY <1>2 DEF GrantedInv, RejectedOnce
<1> QED
  BY <1>1, <1>3 DEF Killed, Over, Locked, GrantedInv, TokenLives

LEMMA OnlyDeniedStep ==
    ASSUME TypeOK, LoginInv, StormInv, GrantedInv, Calm, Next
    PROVE  OnlyDeniedDelete'
<1> SUFFICES ASSUME NEW q \in Requests, pc'[q] \in {"delete", "deleted"}
             PROVE  q \in Denied /\ reauthed'[q]
  BY DEF OnlyDeniedDelete
<1>1. OnlyDeniedDelete
  BY DEF GrantedInv
<1>2. CASE HandleUnauthorized(q)
  <2>1. reauthed'[q]
    BY <1>2 DEF HandleUnauthorized, MarkReauthed, TypeOK
  <2>2. ASSUME q \notin Denied PROVE FALSE
    <3>1. tgt # None /\ ~Replaced(q)
      BY <1>2 DEF HandleUnauthorized, BeginRelogin, Send, Goto, TypeOK
    <3>2. token = tgt /\ bearer[q] # None
      BY <1>2, <3>1 DEF HandleUnauthorized, LoginInv, TicketHasItsToken
    <3>3. bearer[q] = token
      BY <3>1, <3>2 DEF Replaced
    <3>4. ~Valid(bearer[q])
      BY <1>2, <2>2 DEF HandleUnauthorized, StormInv, RejectedIsDead
    <3> QED
      BY <1>2, <2>2, <3>1, <3>2, <3>3, <3>4, RejectedAtHandle DEF Granted
  <2> QED
    BY <2>1, <2>2
<1>3. CASE ~HandleUnauthorized(q)
  <2>1. ASSUME Step(q) \/ Cancel(q)
        PROVE  pc[q] \in {"delete", "deleted"} /\ reauthed'[q] = reauthed[q]
    BY <1>3, <2>1 DEF TypeOK, Step, Enter, EnsureLocked, LoopTop, Send, Goto, Finish, ServeDelete,
           DropToken, Leg1, Leg2, LoginFails, Serve, Retry, WakeUp, Return, Cancel
  <2>2. ASSUME NEW r \in Requests, Step(r) \/ Cancel(r), r # q
        PROVE  pc[q] \in {"delete", "deleted"} /\ reauthed'[q] = reauthed[q]
    BY <2>2, OthersStay
  <2>3. pc[q] \in {"delete", "deleted"} /\ reauthed'[q] = reauthed[q]
    BY <2>1, <2>2 DEF Next, Expire, Terminate, Close, requestVars
  <2> QED
    BY <1>1, <2>3 DEF OnlyDeniedDelete
<1> QED
  BY <1>2, <1>3

LEMMA RejectedOnceStep ==
    ASSUME TypeOK, LoginInv, StormInv, GrantedInv, Calm, Next
    PROVE  RejectedOnce'
<1> DEFINE Turned(r) ==
              \/ pc'[r] = "flight" /\ bearer'[r] \notin live' \ expired'
              \/ pc'[r] = "answered" /\ answer'[r] = "auth"
           Goal(r) == /\ Turned(r) => Killed' /\ ~reauthed'[r]
                      /\ reauthed'[r] => Over'
                      /\ outcome'[r] # "auth"
<1> SUFFICES ASSUME NEW r \in Granted PROVE Goal(r)
  BY DEF RejectedOnce, Rejected, Valid
<1>1. /\ Rejected(r) => Killed /\ ~reauthed[r]
      /\ reauthed[r] => Over
      /\ outcome[r] # "auth"
  BY DEF GrantedInv, RejectedOnce
<1>2. (Killed => Killed') /\ (Over => Over')
  BY KilledStays
<1>3. r \in Requests
  BY DEF Granted
\* The request is where it was.
<1>4. ASSUME pc'[r] = pc[r], bearer'[r] = bearer[r], answer'[r] = answer[r],
             outcome'[r] = outcome[r], reauthed'[r] = reauthed[r],
             Valid(bearer[r]) /\ pc[r] = "flight" => bearer[r] \in live' \ expired'
      PROVE  Goal(r)
  BY <1>1, <1>2, <1>4 DEF Rejected
\* It is neither sent nor answered.
<1>5. ASSUME pc'[r] \notin {"flight", "answered"}, outcome'[r] # "auth", reauthed'[r] = reauthed[r]
      PROVE  Goal(r)
  BY <1>1, <1>2, <1>5
<1>6. CASE Enter(r) \/ EnsureLocked(r) \/ WakeUp(r)
  <2>1. /\ UNCHANGED <<outcome, reauthed, live, expired>>
        /\ pc'[r] = "flight" => token # None /\ bearer'[r] = token
        /\ pc'[r] # "answered"
    BY <1>3, <1>6 DEF Enter, EnsureLocked, WakeUp, LoopTop, Send, Goto, Headers, TypeOK, sessionVars
  <2> QED
    BY <1>1, <1>2, <2>1, SentWithToken DEF Valid
<1>7. CASE HandleUnauthorized(r)
  <2>1. /\ UNCHANGED <<outcome, live, expired>>
        /\ pc'[r] = "flight" => token # None /\ bearer'[r] = token
        /\ pc'[r] # "answered"
    BY <1>3, <1>7 DEF HandleUnauthorized, BeginRelogin, Replaced, Send, Goto, Headers, TypeOK, sessionVars
  <2> QED
    BY <1>1, <1>2, <1>7, <2>1, RejectedAtHandle DEF Valid
<1>8. CASE Leg2(r)
  <2>1. /\ UNCHANGED <<reauthed, live, expired>> /\ outcome'[r] # "auth"
        /\ pc'[r] = "flight" => bearer'[r] = ticket[r]
        /\ pc[r] = "leg2" /\ pc'[r] # "answered"
    BY <1>1, <1>3, <1>8 DEF Leg2, LoginFails, Send, Goto, Finish, TypeOK, sessionVars
  <2>2. Valid(ticket[r])
    BY <1>3, <2>1 DEF GrantedInv, TokenLives
  <2> QED
    BY <1>1, <1>2, <2>1, <2>2 DEF Valid
<1>9. CASE Serve(r)
  <2>1. /\ UNCHANGED <<reauthed, live, expired, outcome>>
        /\ pc[r] = "flight" /\ pc'[r] = "answered"
        /\ answer'[r] = "auth" => ~Valid(bearer[r])
    BY <1>3, <1>9 DEF Serve, Admitted, Goto, TypeOK, InDoubt, Granted, sessionVars
  <2> QED
    BY <1>1, <1>2, <2>1 DEF Rejected
<1>10. CASE Return(r)
  <2>1. answer[r] # "auth"
    BY <1>1, <1>10 DEF Return, Rejected
  <2>2. pc'[r] = "done" /\ outcome'[r] # "auth" /\ UNCHANGED reauthed
    BY <1>3, <1>10, <2>1 DEF Return, Finish, Goto, TypeOK
  <2> QED
    BY <1>5, <2>2
<1>11. CASE Retry(r) \/ ServeDelete(r) \/ DropToken(r) \/ Leg1(r)
  <2>1. pc'[r] \notin {"flight", "answered"} /\ outcome'[r] # "auth" /\ UNCHANGED reauthed
    BY <1>1, <1>3, <1>11 DEF Retry, ServeDelete, DropToken, Leg1, LoginFails, Finish, Goto, TypeOK
  <2> QED
    BY <1>5, <2>1
<1>12. ASSUME NEW q \in Requests, q # r, ServeDelete(q) PROVE Goal(r)
  <2>1. q \in Denied /\ reauthed[q] /\ pc[q] = "delete"
    BY <1>12 DEF ServeDelete, GrantedInv, OnlyDeniedDelete
  <2>2. ~reauthed[r]
    BY <1>1, <2>1 DEF Over, Calm
  <2>3. Killed'
    BY <1>12, <2>1 DEF Killed, ServeDelete, Goto, TypeOK
  <2>4. pc'[r] = pc[r] /\ outcome'[r] = outcome[r] /\ reauthed'[r] = reauthed[r]
    BY <1>3, <1>12, OthersStay DEF Step
  <2> QED
    BY <1>1, <2>2, <2>3, <2>4
<1>13. ASSUME NEW q \in Requests, q # r, Step(q), ~ServeDelete(q) PROVE Goal(r)
  <2>1. live \subseteq live' /\ expired' = expired
    BY <1>13 DEF Step, Enter, EnsureLocked, HandleUnauthorized, DropToken, Leg1, OpenSession, Leg2,
           Serve, Retry, WakeUp, Return, sessionVars
  <2>2. /\ pc'[r] = pc[r] /\ bearer'[r] = bearer[r] /\ answer'[r] = answer[r]
        /\ outcome'[r] = outcome[r] /\ reauthed'[r] = reauthed[r]
    BY <1>3, <1>13, OthersStay
  <2> QED
    BY <1>4, <2>1, <2>2 DEF Valid
<1>14. CASE Close
  <2>1. pc'[r] = pc[r] /\ pc[r] \notin {"flight", "answered"} /\ UNCHANGED <<outcome, reauthed>>
    BY <1>3, <1>14 DEF Close, requestVars
  <2> QED
    BY <1>1, <1>5, <2>1
<1>15. ~\E q \in Requests : Cancel(q)
  BY DEF Cancel, Misfortune, Calm, SessionsSpared, Leaky
<1>16. ~\E n \in Sessions : Expire(n) \/ Terminate(n)
  BY DEF Expire, Terminate, Misfortune, Calm, SessionsSpared, Leaky
<1>17. ASSUME NEW q \in Requests, Step(q) PROVE Goal(r)
  <2>1. CASE q = r
    BY <1>6, <1>7, <1>8, <1>9, <1>10, <1>11, <1>17, <2>1 DEF Step
  <2>2. CASE q # r
    BY <1>12, <1>13, <1>17, <2>2
  <2> QED
    BY <2>1, <2>2
<1> QED
  BY <1>14, <1>15, <1>16, <1>17 DEF Next

LEMMA GrantedCorrect == Spec => []GrantedInv
<1>1. Init => GrantedInv
  BY DEF Init, GrantedInv, TokenLives, OnlyDeniedDelete, RejectedOnce, Rejected, Granted
<1>2. TypeOK /\ LoginInv /\ SessionInv /\ StormInv /\ GrantedInv /\ [Next]_vars => GrantedInv'
  <2> SUFFICES ASSUME TypeOK, LoginInv, SessionInv, StormInv, GrantedInv, [Next]_vars, Calm
               PROVE  TokenLives' /\ OnlyDeniedDelete' /\ RejectedOnce'
    BY DEF GrantedInv
  <2>1. CASE Next
    BY <2>1, TokenLivesStep, OnlyDeniedStep, RejectedOnceStep
  <2>2. CASE UNCHANGED vars
    BY <2>2 DEF vars, requestVars, authVars, sessionVars, GrantedInv, TokenLives, OnlyDeniedDelete,
           RejectedOnce, Rejected, Killed, Over, Valid
  <2> QED
    BY <2>1, <2>2
<1> QED
  BY <1>1, <1>2, TypeCorrect, LoginCorrect, SessionsCorrect, StormCorrect, PTL DEF Spec

\* With one request the role denies, and no misfortune that ends or loses a session,
\* no granted request ends as an authentication failure.
THEOREM GrantedGetThrough == Spec => [](Calm => GrantedNotRefused)
<1>1. GrantedInv => (Calm => GrantedNotRefused)
  BY DEF GrantedInv, RejectedOnce, Granted, GrantedNotRefused
<1> QED
  BY <1>1, GrantedCorrect, PTL

--------------------------------------------------------------------------------
(* The client implements the at-most-once call. *)

\* A step that tells a call nothing new and does nothing for it is a stutter.
LEMMA CallStutter ==
  ASSUME \A c \in Unrepeatable : applied'[c] = applied[c],
         \A c \in Unrepeatable : outcome'[c] = outcome[c]
  PROVE  UNCHANGED Call!callVars
  BY DEF Call!callVars

\* The verdicts, one by one.
LEMMA Verdicts ==
  /\ VerdictOf("none") = "pending"
  /\ VerdictOf("ok") = "ok"
  /\ \A how \in {"busy", "refused", "auth", "login", "raw"} : VerdictOf(how) = "refused"
  /\ \A how \in {"unavailable", "failed", "lost", "cancelled"} : VerdictOf(how) = "in_doubt"
  BY DEF VerdictOf, NotApplied, InDoubt

LEMMA CallStep ==
  TypeOK /\ CallInv /\ [Next]_vars => [Call!CallNext]_(Call!callVars)
<1> SUFFICES ASSUME TypeOK, CallInv, [Next]_vars
             PROVE  Call!CallNext \/ UNCHANGED Call!callVars
  OBVIOUS
<1> DEFINE Effect == [c \in Unrepeatable |-> applied[c]]
           Verdict == [c \in Unrepeatable |-> VerdictOf(outcome[c])]
<1>1. ASSUME NEW r \in Requests \ Unrepeatable, Step(r) \/ Cancel(r)
      PROVE  UNCHANGED Call!callVars
  <2>1. /\ \A c \in Requests \ {r} : applied'[c] = applied[c]
        /\ \A c \in Requests \ {r} : outcome'[c] = outcome[c]
    BY <1>1 DEF Step, Enter, EnsureLocked, HandleUnauthorized, ServeDelete, DropToken,
                Leg1, Leg2, LoginFails, Serve, Retry, WakeUp, Return, Cancel, Finish, TypeOK,
                requestVars
  <2> QED
    BY <2>1, CallStutter DEF Unrepeatable
<1>2. ASSUME NEW r \in Unrepeatable, pc[r] # "done", applied[r] = 0,
             applied' = [applied EXCEPT ![r] = 1], UNCHANGED outcome
      PROVE  Call!CarryOut(r)
  <2>1. Verdict[r] = "pending" /\ Effect[r] = 0
    BY <1>2, Verdicts DEF CallInv, Unrepeatable
  <2>2. Effect' = [Effect EXCEPT ![r] = 1] /\ UNCHANGED Verdict
    BY <1>2 DEF TypeOK, Unrepeatable
  <2> QED
    BY <2>1, <2>2 DEF Call!CarryOut
<1>3. ASSUME NEW r \in Unrepeatable, pc[r] # "done", NEW how, UNCHANGED applied,
             outcome' = [outcome EXCEPT ![r] = how],
             \/ VerdictOf(how) = "ok" /\ applied[r] = 1
             \/ VerdictOf(how) = "refused" /\ applied[r] = 0
             \/ VerdictOf(how) = "in_doubt"
      PROVE  Call!Report(r)
  <2>1. Verdict[r] = "pending" /\ Effect[r] = applied[r]
    BY <1>3, Verdicts DEF CallInv, Unrepeatable
  <2>2. Verdict' = [Verdict EXCEPT ![r] = VerdictOf(how)] /\ UNCHANGED Effect
    BY <1>3 DEF TypeOK, Unrepeatable
  <2> QED
    BY <1>3, <2>1, <2>2 DEF Call!Report
<1>4. ASSUME NEW r \in Unrepeatable, Cancel(r)
      PROVE  Call!Abandon(r)
  <2>1. Verdict[r] = "pending" /\ Effect[r] = applied[r]
    <3>1. outcome[r] = "none"
      BY <1>4 DEF Cancel, CallInv, Unrepeatable, InSlot, Locked
    <3> QED
      BY <3>1, Verdicts
  <2>2. VerdictOf("cancelled") = "in_doubt"
    BY Verdicts
  <2>3. Verdict' = [Verdict EXCEPT ![r] = "in_doubt"]
    BY <1>4, <2>2 DEF Cancel, Finish, TypeOK, Unrepeatable
  <2>4. PICK n \in {applied[r], 1} : Effect' = [Effect EXCEPT ![r] = n]
    <3>1. CASE UNCHANGED applied
      <4>1. Effect' = Effect /\ Effect = [Effect EXCEPT ![r] = applied[r]]
        BY <3>1 DEF TypeOK, Unrepeatable
      <4> QED
        BY <4>1
    <3>2. CASE pc[r] = "flight" /\ applied' = [applied EXCEPT ![r] = @ + 1]
      <4>1. applied[r] = 0
        BY <3>2 DEF CallInv
      <4>2. applied' = [applied EXCEPT ![r] = 1]
        BY <3>2, <4>1
      <4>3. Effect' = [Effect EXCEPT ![r] = 1]
        BY <4>2 DEF TypeOK, Unrepeatable
      <4> QED
        BY <4>3
    <3> QED
      BY <1>4, <3>1, <3>2 DEF Cancel
  <2> QED
    BY <2>1, <2>3, <2>4 DEF Call!Abandon
<1>5. ASSUME NEW r \in Unrepeatable, Leg1(r) \/ Leg2(r), ~UNCHANGED outcome
      PROVE  Call!Report(r)
  <2>1. PICK how \in {"login", "raw"} : outcome' = [outcome EXCEPT ![r] = how]
    BY <1>5 DEF Leg1, Leg2, LoginFails, Finish, Send
  <2>2. pc[r] \in {"leg1", "leg2"} /\ applied[r] = 0 /\ UNCHANGED applied
    BY <1>5 DEF Leg1, Leg2, CallInv
  <2> QED
    BY <1>3, <2>1, <2>2, Verdicts
<1>6. ASSUME NEW r \in Unrepeatable, Serve(r), ~UNCHANGED applied
      PROVE  Call!CarryOut(r)
  <2>1. pc[r] = "flight" /\ applied[r] = 0 /\ UNCHANGED outcome
    BY <1>6 DEF Serve, CallInv
  <2>2. applied' = [applied EXCEPT ![r] = @ + 1]
    BY <1>6 DEF Serve, TypeOK, Unrepeatable
  <2>3. applied' = [applied EXCEPT ![r] = 1]
    BY <2>1, <2>2
  <2> QED
    BY <1>2, <2>1, <2>3
<1>7. ASSUME NEW r \in Unrepeatable, Return(r)
      PROVE  Call!Report(r)
  <2>1. /\ pc[r] = "answered"
        /\ outcome' = [outcome EXCEPT ![r] = answer[r]]
        /\ UNCHANGED applied
    BY <1>7 DEF Return, Finish
  <2>2. \/ VerdictOf(answer[r]) = "ok" /\ applied[r] = 1
        \/ VerdictOf(answer[r]) = "refused" /\ applied[r] = 0
        \/ VerdictOf(answer[r]) = "in_doubt"
    BY <2>1, Verdicts DEF CallInv, TypeOK, Unrepeatable, Answers, NotApplied, InDoubt
  <2> QED
    BY <1>3, <2>1, <2>2
<1>8. ASSUME UNCHANGED <<applied, outcome>>
      PROVE  UNCHANGED Call!callVars
  BY <1>8, CallStutter
<1>9. ASSUME NEW r \in Unrepeatable, Step(r)
      PROVE  Call!CallNext \/ UNCHANGED Call!callVars
  <2>1. CASE UNCHANGED <<applied, outcome>>
    BY <2>1, <1>8
  <2>2. CASE ~UNCHANGED <<applied, outcome>>
    <3>1. \/ Leg1(r) /\ ~UNCHANGED outcome
          \/ Leg2(r) /\ ~UNCHANGED outcome
          \/ Serve(r) /\ ~UNCHANGED applied
          \/ Return(r)
      BY <1>9, <2>2 DEF Step, Enter, EnsureLocked, HandleUnauthorized, ServeDelete,
                        DropToken, Leg1, Leg2, Serve, Retry, WakeUp
    <3> QED
      BY <3>1, <1>5, <1>6, <1>7 DEF Call!CallNext
  <2> QED
    BY <2>1, <2>2
<1>10. ASSUME NEW r \in Requests, Step(r) \/ Cancel(r)
       PROVE  Call!CallNext \/ UNCHANGED Call!callVars
  BY <1>1, <1>4, <1>9, <1>10 DEF Call!CallNext
<1>11. ASSUME (\E s \in Sessions : Expire(s) \/ Terminate(s)) \/ Close \/ UNCHANGED vars
       PROVE  UNCHANGED Call!callVars
  BY <1>8, <1>11 DEF Expire, Terminate, Close, vars, requestVars
<1> QED
  BY <1>10, <1>11 DEF Next

LEMMA CallStart == Init => Call!CallInit
  BY Verdicts DEF Init, Call!CallInit, Unrepeatable

\* Every behaviour of the client, with its tokens, retries and slots hidden, is one
\* of the at-most-once call: a success was carried out exactly once, a refusal never.
THEOREM ImplementsAtMostOnce == Spec => AtMostOnce
  BY TypeCorrect, CallsCorrect, CallStart, CallStep, PTL DEF Spec, AtMostOnce, Call!CallSpec
================================================================================
