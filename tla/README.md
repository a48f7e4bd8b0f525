# TLA+ models of cnc-mcp

Specifications of the MCP server for Cisco Crosswork Network Controller in
`src/src/cnc_mcp`: what its shared HTTP client, its waits, its gating, its multi-step
tools and every single read and write tool promise, model-checked with TLC on small
instances and proved with TLAPS for every value of their constants.

Contents: [The system](#the-system) · [Modules](#modules) ·
[Runs](#runs) · [Fairness](#fairness) · [Proofs](#proofs) ·
[Abstractions](#abstractions) · [Findings](#findings) ·
[Known limits](#known-limits) · [Not modelled](#not-modelled) · [Plan](#plan)

## The system

One process, one asyncio event loop, one `ApiClient` for all tools. An agent calls
tools over MCP; a tool sends a handful of REST requests to the Crosswork gateway
and answers with text, `Error: ...` when anything failed. The SDK runs every tool
call in a task of its own, so calls overlap wherever one awaits, and the client may
cancel a call at any await. Nothing is persisted by the server: all durable state
is the platform's, and other agents and operators change it as well.

| Part | State it keeps | Operations | Talks to |
|---|---|---|---|
| HTTP client `client.py` | semaphore, `httpx` client | `request`, `request_json`, `aclose`: retries with backoff, one re-authentication | every tool, `auth.py`, the gateway |
| CAS session `auth.py` | `_token`, `_tgt`, `_lock` | two-leg login, re-login, logout | SSO service |
| Gating `safety.py`, `tools/__init__.py`, `config.py`, `server.py` | settings; `ctx.tools`, what was registered and why not | `register_tool`, `validate_gating`, dry-run wrappers | every tool module |
| Waits `polling.py` and the tools around it | clocks, marks read before the start | `wait_until` and its fourteen uses: service plan, NSO device state, NSO check-sync, scheduler job, config backup, template deployment, inventory job, trace route, device reachability, devices of a performance policy, SR policy up and gone, ZTP static route added and removed | services, NSO, jobs, topology |
| Playbooks `tools/composite.py` | the course of one call | preview, commit, wait, trace, verdict | sibling tools, through the server |
| gNMI workflow `tools/devices.py` | the course of one call | admin-down, add transport and capability, admin-up, verify | inventory jobs |
| Record updates in `performance.py`, `swim_ztp.py`, `fault.py` | the record as read | read, merge, `PUT` all of it, read back | services without versions |
| Device groups `tools/grouping.py` | members listed, leaves walked | members, move, copy, delete, create, update | grouping service |
| Write tools of all areas | one call's reads and requests | guard, change, read-back, at times a way back | every service of the platform |
| Read tools of all areas | one call's pages | single reads, page walks, searches, reports of several sections | the same |
| Dialects, formatting, prompts | none | paths, envelopes, rendering | |

What is hard here, and the properties it calls for:

* **Sharing one session.** Any 401/403 makes the request that got it log in again,
  which revokes the token of everybody in flight; the platform allows only so many
  sessions. Correct when logins exclude each other, no session is leaked, no request
  is refused for another's sake, and a write is never applied twice.
* **Marks and lag.** The platform shows the previous outcome until it has picked the
  new run up. Correct when a verdict is about the run that was asked for, an outcome
  that was visible in time is never a timeout, and the budget is kept.
* **Gating by registration.** What an agent may change is decided by what is
  registered, in an order. Correct when what is offered is what the configuration
  says, and a dry run changes nothing, through playbooks as well.
* **Sagas.** gNMI onboarding and the playbooks are several requests that can each
  fail. Correct when a verdict claims only what was done and the device comes back.
* **Read, merge, write.** `PUT` replaces all of a record. Correct when nothing is lost
  that the call was not asked to change.
* **Sets by single moves.** Group members are set by removals and moves out of the
  leaf that a walk has found. Correct when success is exact and nothing else moves.
* **Answers of writes.** A request can be lost, its answer can be lost, a copy can
  arrive late, a refusal can have status 200. Correct when "done" and "nothing was
  sent" are true for good, nothing is added twice, a part that was done is told, and a
  guard that was read keeps the write back.
* **Answers of reads.** A list comes in pages, in several dialects, from a platform that
  may ignore what it was asked for, and changes meanwhile. Correct when a list given as
  whole is whole, "no such" is true, and what could not be read is said.

## Modules

| Module | Models | EXTENDS / implements |
|---|---|---|
| `CrossworkClient` | `ApiClient.request`, `CrossworkCasAuth`, gateway and SSO | implements `AtMostOnceCall` |
| `AtMostOnceCall` | what one call of a write promises its caller | abstract |
| `ConvergenceWait` | `wait_until` and the fourteen kinds of wait, a lagging platform | |
| `ToolGating` | `register_tool`, `validate_gating`, the dry-run wrappers | abstract for `Playbooks` |
| `Playbooks` | `cnc_provision_l3vpn_e2e`, `cnc_create_sr_policy_e2e` | extends `ToolGating`, implements its specification |
| `DeviceOnboarding` | `cnc_enable_device_gnmi` beside create, update, delete | |
| `RecordUpdate` | five read-merge-PUT tools | |
| `GroupMembers` | members, move, copy and deletion of a device group | |
| `WriteCalls` | one call of any write tool, request by request | extends `WriteSteps`, implements `WritePromise` |
| `WriteSteps` | the vocabulary of write tools and the rules they are built by (`Sound`) | |
| `WritePromise` | what the answer of a write tool is worth | abstract |
| `InventoryWrites` | devices, credentials, providers, tags, locations, locks, gateways, NSO, scheduler jobs | extends `WriteSteps` |
| `ZtpWrites`, `ConfigWrites`, `ServiceWrites`, `AssuranceWrites` | ZTP and images; templates, backups, notifications, administration, life cycle; services, SR policies, OAM; alarms, performance, groups | extend `WriteSteps` |
| `QueryCalls` | one query of any read tool, page by page | extends `QuerySteps` |
| `QuerySteps` | the vocabulary of read tools and the rules they are built by (`WellBuilt`) | |
| `InventoryQueries`, `NetworkQueries`, `ServiceQueries`, `PlatformQueries`, `ReportQueries` | the read tools of the areas; the reports of `composite.py` | extend `QuerySteps` |
| `MC*` | the instances for TLC: model values, fault sets, symmetry | |
| `*_proofs` | theorems and their proofs, of eight modules | |

How state and actions correspond to the code:

* **CrossworkClient.** `pc[r]` is where a request's coroutine awaits; `token`, `tgt`,
  `lock` are `_token`, `_tgt`, `_lock`; `attempt` and `reauthed` the loop variables of
  `_request_with_retries`. An action is the code between two awaits. A session, its
  ticket and its JWT are one number; `live` are the sessions open at the platform,
  `applied` how often each call has taken effect there. API calls and session DELETEs
  are split into the platform's step and the coroutine's, for others run in between.
  `Serve` is the platform's: it carries out what is `Admitted` and answers, or is busy, or
  the answer is lost, and it may be busy or not answer too before it has looked at a token
  it will not have or a request the role denies.
* **AtMostOnceCall.** A call is carried out at most once unless it may be repeated, and
  reports success only if it was. `CrossworkClient` maps its `applied` and `outcome`
  onto it; retries, tokens, slots and the semaphore are hidden.
* **ConvergenceWait.** `shown` is the record the platform shows, with its mark
  (`lastRunJobId`, `nso_timestamp`, a job's own id, none for a plan), `own` how far the
  run really is. The call reads the mark where its kind has one, sends, reads back (a
  scheduler job without a mark takes it from there), and
  polls; `Fetch`, `Decide` and `Wake` are the loop of `wait_until`, and `Tick` is time.
  The kinds differ in what they read first, in what tells a new record from an old one
  and in what a failing read does. Budgets are the code's own comparison
  `elapsed + interval > timeout`.
* **ToolGating.** `tools[t]` is the `ToolRecord` in `ctx.tools`, with the reason a tool
  is missing and the form its dry run takes; `effects` are the writes that changed
  something. The order of registration is left open, since `validate_gating` exists to
  refuse the wrong ones.
* **Playbooks.** One call of a playbook, a step per sibling call, beside direct calls of
  the siblings; the answers of the read siblings are open.
* **DeviceOnboarding.** `steps[c]` is the dict of the same name, `snap` the record read
  at the start, `late` the bodies given up as lost that the platform still applies.
* **RecordUpdate.** `snap` is the record as read, `Body` what is PUT, `Targets` and
  `Land` what the service does with it; `kind` picks the tool, and with it the checks
  it makes before and after. For a ZTP device `Body` is the form `device_body` builds:
  `extra` (further serials, Option 82) is not in it, and one that names a profile
  (`bound`) is sent without its `Metadata`, which the platform copies from the profile.
  `wrong` says whether the last request of a call met a misfortune, so that an error is
  excused by the request it is about and not by an earlier copy.
* **GroupMembers.** `place`, `access`, `groups` are the service; `seen`, `left`, `found`
  are `current`, the groups still to be listed and `located` / `by_source`. `Listed` is
  `all_group_devices`, which stops without a word at `MAX_DEVICE_END`.
* **WriteCalls.** A tool is a set of calls, one for each way its options select; a call
  is the sequence of requests the function awaits, written in the vocabulary of
  `WriteSteps` (`Needs`, `Lacks`, `Already`, `Posts`, `Puts`, `Deletes`, `Job`,
  `Confirms`, ...), with the way back after it where there is one. `call`, `at` and
  `phase` are where the coroutine is; `resends` the client's retries; `rescuing` that
  the way back is being taken; `noted` that the answer carries a note; `verdict` the
  answer. `world` are the facts of the platform the requests ask for or change, `late`
  the copies that may still arrive, `did` how often each step took effect, `changed`
  what others changed since the call looked, `harmed` what a write had to spare and hit,
  with its first copy, a re-sent one or one that arrives late.
  `ReadAnswered`, `ReadFails` and `ArgumentsRefused` are the reads; `Send`, `Arrives`,
  `TurnedDown`, `NotAnswered`, `LateArrives` and `Resend` the course of a request;
  `Judge` what the tool makes of the answer (`crosswork.check_job` included);
  `Others` the rest of the world; `CallAgain` the client that repeats a call registered
  as idempotent. A step that adds is sent once; one that queues a job in a call marked
  idempotent (`Queues`, the NSO actions) once for each time the call is made.
* **WritePromise.** `effect` is how much of the change has taken effect, `said` what the
  answer claims. "Nothing" stays nothing, "done" is all of it.
* **QueryCalls.** A query is the sequence of reads of a tool, each one request or a walk
  over pages. `pages`, `shown` and `came` are the walk's loop variables (the page, the
  rows collected, their number), `ended` how it ended, `remark` that the answer says
  something is missing. `manner` and `counts` are the platform's dialect: pages as asked
  for, smaller, or always the first; with a total or not. `IsLast` has every rule the
  code ends a walk by, an operator each (`EndsEmpty`, `EndsShort`, `TotalReached`, ...),
  `StopsShort` every way it gives up, `GoesOn` the searches. Each read has a `weight`:
  the answer *needs* it, can *spare* it, or it is one *candidate* of a search; `owed` is
  what the answer lacks, kept apart from what the code says of it: the weights of the
  reads that failed, whatever the tool does about it, and of the walks that ended with
  rows left. `keys` are the keys the wanted row is under: a search by two keys
  (`get_policy_keyed`) asks for one after the other, and others may move the row between.

`PROJECT.json` maps every definition to the lines it stands for.

## Runs

Every bound is a constant. All runs say `CHECK_DEADLOCK FALSE`: a finite number of
calls is made, after which the system rests. That no call rests before it has
returned is checked as liveness where it could happen (`EveryRequestReturns`,
`WaitReturns`, `UpFollowsDown`, `CallReturns`, `QueryReturns`).

| Run | Instance | Why it is enough | Shows |
|---|---|---|---|
| `client_calls` | 3 requests (a POST, a GET, one the role denies), 2 slots, 1 retry, limit of 2 sessions, 2 misfortunes | a re-login under two others, one of them waiting for its slot; a retry beside a re-authentication | sessions neither leak nor outlive the server; a granted call is not refused; every call returns |
| `client_faults` | the same, every misfortune incl. cancellation, expiry, failing logins, 5 tickets | two misfortunes of any two kinds | the DELETE's token, no re-login storm, `FreshTokenKept`, refinement of `AtMostOnceCall` |
| `onboarding` | 2 overlapping workflows, 1 other call, 2 misfortunes (rejected, lost, late, failing read, cancelled) | one window inside or across the other, a late copy of admin-down | admin state restored, transports kept, success means gNMI, up follows down, the ordering rule |
| `waits` | 14 kinds, timeouts 0 and 3, intervals 1 and 2, reads of up to 1 s, a start delayed by up to 3 s, one foreign run, one failing read or write | budget below, equal to and above the interval; no record, one without a mark, an old, own and foreign one under a mark | verdicts are the run's own, "not started" is true, what showed in time is seen, budget kept, the wait ends |
| `playbooks` | 192 configurations, every order of registration | each tool, area and sibling gated or misspelt, dry run on and off | what is offered, dry runs, preview before commit, verdicts backed |
| `record_updates` | 5 kinds, 2 records, 2 fields (one of them the profile's), 2 values, 1 call, 1 foreign write, 2 misfortunes | a write inside the window, a re-sent PUT, a device bound, kept and released; to a call a second one is a foreign write | nothing else lost, updates written, an error has its cause in its own request |
| `group_members` | 3 devices, 2 leaves and Unassigned, 1 access group, 1 foreign write, listings whole or cut off | two source leaves, a removal before a move, an unknown device, a member behind the limit of a listing | exactness, nothing else touched, unknown is unknown, errors have causes |
| `write_calls` | every call of 83 write tools, 1 re-send, 1 foreign change, 2 calls | a lost answer before a re-send; a copy that arrives after the answer or in the repeated call; a fact changed between guard and write | nothing twice, guarded things spared, what was undone is gone, parts are told, refinement of `WritePromise`, every call returns |
| `query_calls` | every query of every read tool; pages of 2 (or 1) rows, walks of 2 pages, lists of 0, 2, 3 and 5 rows, 1 foreign change | no page, one full page, a page and a row, and more rows than a walk has pages for; the row searched for first, behind a page border, or not there | whole lists are whole and exact, "no such" is true under both keys, what an answer needs and lacks is told, every query returns |
| `leg2_leak`, `commit_lost`, `twin_unread` | as above, with the misfortune or the query in question | | a counterexample each, see [Findings](#findings) |

`WriteCalls` and `QueryCalls` check that the tools keep the rules of their vocabulary as
well: `CallsAssumption` and `QueriesAssumption` are evaluated over every call and query of
every tool. `query_calls` leaves none of them out; it takes about 970,000 states, the
reports having the longest queries. `GroupMembers` has only one call: what another call
does to it are its single requests, and these are the writes of others, which `MaxMoves`
bounds. Symmetry is used only where all properties are invariants or action properties
and no model value is named in the specification. Type invariants are proved, and not
run again.

Each property of a passing run has a mutant in `PROJECT.json`: a plausible slip
(`..._Always`, `..._Never` and the like, defined beside the operator it replaces)
under which TLC finds the property violated.

## Fairness

Liveness is checked of `CrossworkClient`, `ConvergenceWait`, `DeviceOnboarding`,
`WriteCalls` and `QueryCalls` under weak fairness of the coroutine's own steps: the event
loop resumes whatever can go on, and `httpx` bounds every exchange by a timeout, so an
answer, or the lack of one, always arrives. `ConvergenceWait` also needs time to pass. No
fairness is assumed of expiry, cancellation, shutdown, late copies, of other calls or of
the platform's progress: a wait has to end although what it waits for may never happen,
and a walk has to end on a platform that always answers its first page.
`asyncio.Semaphore` and `asyncio.Lock` are fair queues; the models assume less (any
waiter may be next), which is enough because a finite number of calls is made.

## Proofs

Checked by `tlapm`; no theorem assumes more than the named `ASSUME` of its module
(sizes are naturals, sets of names are disjoint, settings are well typed, calls and
queries are built by their rules). Every run's module extends the module with the
assumption, so TLC has evaluated it for the tools as they are.

* **CrossworkClient_proofs.** Besides the types: `LoginInv`, that a coroutine inside login
  or logout holds the lock, while it is held no ticket is kept, and a ticket that is kept
  belongs to the cached token; mutual exclusion, the token of the DELETE, the bearer and
  `FreshTokenKept` follow. `CallInv`: what a call that may not be repeated has done at
  each point of its loop, since at-most-once alone says nothing of a request about to
  re-send; from it the client implements `AtMostOnceCall`. `BudgetInv`: sends against
  `attempt` and `reauthed`. `SessionInv`: every open session is the kept one, the one a
  login is opening or the one a logout is closing, which bounds their number and leaves
  none after the shutdown. `StormInv`: besides the first login there is one for each denied
  call that has re-authenticated and one for each misfortune; a token that is valid buys
  no further login. `GrantedInv`: the only token a granted call
  can find dead is the one a denied call threw away, which happens once. The second pair
  needs conditions, stated in the theorems: `SessionsSpared` (no misfortune that loses a
  session: failing login legs or logouts, cancellation) for the sessions, and `Calm`
  (in addition no session ended by the platform, and at most one denied call) for
  `GrantedNotRefused`; the run that checks these properties satisfies both.
* **ConvergenceWait_proofs.** `WaitInvariant` has four layers: the clock of the loop
  (`TimeInv`), which run the platform's record is about (`RunInv`), its mark beside the
  one read before (`MarkInv`) and what the read in hand can have seen (`ReadInv`).
  Budget, verdict, "not started" and convergence follow, for any timeouts, intervals
  and lag. "Not started" is proved of records that had a mark when they were first read;
  without one it is not true (see [Known limits](#known-limits)).
* **Playbooks_proofs** (with the gating). Each record says why its tool is there or
  not; a server that serves offers exactly the configured tools; dry runs change
  nothing. `PlaybooksGated` shows the playbooks implement `GatingSpec`, so these carry
  over. `VerdictBackedTheorem` needs that a registered playbook reaching its commit is
  not in dry-run mode, which is itself a consequence of the wrapper's form.
* **DeviceOnboarding_proofs.** That a record read while the device was there still has its
  other transports gives `TransportsKept`, that a transport added stays gives
  `SuccessMeansGnmi`. *Progress* says which of `steps` are set at each point of a call.
  *Ruled*: a call that is alone and undisturbed sends the capability only while the device
  is there and not up, whence `OrderingRuleKept`. *Raised*: while every admin PATCH of
  every call was applied, the device is up, or some call is in its window and owes the
  admin-up, or none has touched it; whence `AdminStateRestored`, for any number of
  overlapping calls.
* **RecordUpdate_proofs.** `Undisturbed`: until somebody writes in its window, the record is
  the one a call read, or the one it sends, so a second copy finds its target again and a
  retention table reads back as sent: an error has its cause in the request it is about.
  `NamesDiffer` and `NameFree`: names are unique and the name to be sent is nobody's. Of a
  ZTP device the theorems say what the form keeps: a field it has a place for, unless it is
  the profile's. From these the three properties the run checks, and `NamesStayUnique`, for
  all kinds and any number of calls.
* **GroupMembers_proofs.** Four parts. *Shape*: what a call can be at each step.
  *Walked*: while nobody else writes, a device not found yet is in a leaf not listed yet
  (where listings are whole). *Tracked*: the members of the target are at each step
  those listed, less what was removed, with what was added. *Clean*: while nothing went
  wrong, each device to be added is still where it was found and the group is there;
  this is what keeps the removal from getting in the way of the moves, and holds because
  what is removed was listed and what is added was not.
* **WriteCalls_proofs.** About every call built by the rules, whatever its steps; that the
  83 tools are is the assumption TLC evaluates. `OneCopy`: of a step that adds something
  one copy is to be sent, on its way or arrived for each call made, and `OneCall`: a call
  that is not marked idempotent is made once. `Behind`: only steps that were sent have
  copies. `Nothing`: after a refusal there are none, now or later. `Progress`: what was
  passed without a note took effect. They give `NothingTwice`, `PartIsTold` and the
  refinement of `WritePromise`. `NoHarm` follows from a separate invariant: `Guarded`, what
  a write to come must spare was looked for and is not there, unless others changed it
  since; and `LateSpared`, the same of every copy that may still arrive, which holds
  because a write that makes what it must not hit itself has one copy only. `Undoing`
  gives `UndoneIsGone`, by the rule `ClearsUp` on calls with a way back: the removal comes
  right after the write it undoes, takes what that write and the ones before it give, and
  those before it are neither re-sent nor passed over. So while the way back is open only
  the write being undone can have a copy under way, and once the removal has taken effect
  such a copy asks for what is gone.
* **QueryCalls_proofs.** *Reached*, *Kept*, *Covered* and *Exact* say how far a walk has
  come and which rows it then has: every row that was there at the start and is before
  the place reached, wherever others insert. The heart is the lemma `LastPageIsTheLast`:
  when a rule of `ends` takes a page for the last one on a platform it is made for
  (`Trusted`), the place reached is the end of the list. Whole, exact and "no such"
  follow, for any lists, page sizes and bounds; for a search by two keys with
  `SecondKeyIsLeft`: while the second try is to be made, a row that was there all the
  time is under the second key, for the first try would have found it under the first.
  The gaps: `owed` is set by what failed and by the rows left, `remark` by the manner
  the tool has of taking it, and `SilentAboutNothing` says that an answer without a
  remark lacks nothing but what the query passes over. `GapsAreNamed` needs no condition
  on the queries: its statement is that a gap is told or the query has a read it passes
  over though it needs it, and TLC finds none.

**That everything ends.** A liveness property says that whoever can go on does (fairness),
that somebody can (`ENABLED`), and that nobody goes on for ever. The first two stay with
TLC; the third is proved, as an action property each step of every behaviour has, for any
constants:

| liveness, by TLC | its part that is proved |
|---|---|
| `EveryRequestReturns` | `LoopRunsOut`: each step of a request, and its cancellation, lowers `Left`, a natural number counted from the retries left, the re-authentication left and the place in the loop; no other coroutine raises it. `SomebodyGoesOn`: of the requests that hold a slot one does not wait for the lock, since who has the lock is in a slot and waits for nobody |
| `WaitReturns` | `WaitGoesOn`: a step of the loop reports, goes round the loop or uses up budget; the clock passes the end of the budget by at most one read |
| `UpFollowsDown` | `WorkflowGoesOn`: each step leads to a later one or to a bounded re-send, and nobody else sets a workflow back; `WindowsAreClosed`: who is through, was told its admin-down was applied and was not cancelled has tried the admin-up |
| `CallReturns` | `CallGoesOn`: verdict, later step, bounded re-send, or the answer to what was sent |
| `QueryReturns` | `QueryGoesOn`: answer, later read, or the next of a bounded number of pages, on a platform that answers its first page for ever too |

The same is proved of the group tools, for which no run checks liveness
(`MembersCallGoesOn`: a later step, one group less to list, fewer devices to move, or a
bounded re-send; others give nothing back).

Only model-checked: those five properties themselves. What a recursive definition computes
for all inputs cannot be proved either (no induction over data); none is used.

## Abstractions

General: text, formatting and logging are left out. The platform is modelled from
how the code uses it and from what its comments say was verified; those definitions
are marked external. Misfortunes are counted or enumerated by constants.

* **CrossworkClient.** A login leg is one step (the lock is held and there is no token,
  so nobody can tell). `aclose` runs after the requests have been drained. A DELETE of a
  session needs a JWT the gateway accepts. `ok_statuses` never include 429 or 50x. The
  path of `ensure_authenticated` on its own is omitted. Backoff is an interleaving
  point.
* **ConvergenceWait.** Whole seconds. An unknown or removed job has no record
  ("absent"), one that never ran a record without a mark. The platform lags by any time.
  Others start a run only before ours is picked up. PARTIAL is one of the failures. A
  wait is for one device, policy or route. The reachability read inside the gNMI
  workflow is a step of `DeviceOnboarding`.
* **ToolGating.** Names are compared as they are. `requires` is a set. The `ValueError` of
  a name registered twice is omitted.
* **Playbooks.** One playbook call at a time. Both reads of a device are one step. The
  re-sends of the commit are in `CrossworkClient`; here its answer is lost or not. Calls
  are not cancelled.
* **DeviceOnboarding.** A PATCH with its re-sends is one step per send. The settling
  sleeps are interleaving points. Answers of `check_job` without an envelope count as
  rejected. What others do is one create, update or delete of the same device.
* **RecordUpdate.** A record is a name, another field and a state. The list of names,
  the template and the selection are one read before the PUT. A suppression PUT
  addresses its record by name. The ZTP service refuses to update a device that has
  begun to boot. Others do not give two policies one name.
* **GroupMembers.** The service refuses a removal or move as a whole when one device is
  not in the group named; `Partial` carries out any part. A listing is one read of the
  members, or of some when it is cut off: its pages are a walk in `QueryCalls`. Names
  and uuids are matched. Roots without a count hold no device. The rule read of a
  deletion is one of the reads that may fail.
* **WriteCalls.** What a request carries is a set of facts; the bodies themselves, and the
  fields a refusal of arguments looks at, are left out. A walk that resolves a selector is
  one read. Each step counts up to two effects. A wait inside a call is a read-back whose
  outcome is open (the wait itself is `ConvergenceWait`). Calls are not cancelled.
* **QueryCalls.** Reads that are gathered in parallel are put in the order of the code.
  A list is one sequence; filters keep rows or leave them out before the walk. The two
  resources a search by two keys asks for are one list whose wanted row is kept under
  one key, the other or both. A token is an offset. A document is a list whose rows are
  what it is searched for. Lists the caller pages through are walks whose caller follows
  `has_more`.

Exceptions written into properties (`overlapped`, `disturbed`, `mishaps`, late PATCHes,
cancelled calls, `changed`, `gone`, `Trusted`) mark where the code cannot promise more:
the services know no preconditions, and a cancelled call is not cleaned up after.

## Findings

Each is a run of its own; `PROJECT.json` quotes the lines.

1. `leg2_leak`: a re-login whose second leg fails leaves the session its first leg opened,
   with nothing to close it, though the docstring says a re-login never leaves one.
2. `commit_lost`: the L3VPN playbook says nothing was deployed when the commit was applied
   and its answer lost.
3. `twin_unread`: the report on an SR policy counts a service it failed to read as one that
   does not match, and says the policy was configured outside NSO, although its
   documentation makes that claim depend on every service having been read.

## Known limits

What the models show that the code cannot, or does not, guarantee. (Those that contradict a
docstring or a comment, the read-back of a scheduler job, the ZTP device with a profile, the
verdict `deployed` and the gateway's "idempotent" PUT, have no run of their own: the property
named, or its exception, says what is left.)

* A granted call may be refused when two denied calls log in again under it: its one
  re-authentication is spent (`Calm` has at most one denied call).
* The wait after a re-commit reads the plan of the commit before (`services.py:1907`): a
  plan has no mark. The same holds of the other kinds without one where there can be a
  past (device reachability, performance policy).
* The L3VPN playbook says `deployed` although the requested trace did not finish
  (`composite.py:3317`, where 4858-4860 ask for "trace ok"); its steps and notes say so.
* The PUT that maps devices to a data gateway is sent again when its answer is lost, and the
  copy is then refused because the device is mapped already (`data_gateway.py:1153`), so an
  error may be about a mapping that was made.
* Some walks stop at their last page without a word (`providers.py:217`,
  `performance.py:4291`): absence is not certain behind the bound.
* A row removed during a walk shifts the pages behind it (`performance.py:4293`).
* A cancelled call leaves what it has opened: a session (`auth.py:459`), a device that is
  admin-down (`devices.py:1178`).
* A removal from a device group, or its deletion, that is sent again is refused when the
  first copy was carried out (`grouping.py:2736`, 2533): the call ends in an error, a
  replacement before its moves. `FailsForACause` of `GroupMembers` excuses it.
* A group of more than `MAX_DEVICE_END` devices is listed in part and nothing says so
  (`grouping.py:1036-1050`): success is not exact and a member can be called unknown.
* A scheduler job that had no `lastRunJobId` before it was run, or whose read before failed,
  takes the id of the read-back for that of the run before (`ems_jobs.py:563-570`). When its
  own run is over by then, the wait polls until its time is up and answers that "the
  scheduler has not started the run yet" (806), against the comment at 568-569.
  `NotStartedIsTrue` is stated of the records that had a mark (`readFirst`); TLC finds the
  counterexample without that condition.
* The update of a ZTP device that names a profile leaves out the config file, version and
  family it was given (`swim_ztp.py:1298`) and says that they were updated, against its
  docstring (4376-4383). It is the exception of `UpdatedIsWritten`, and without it TLC
  finds the counterexample. Any update resets Option 82 and drops further serials
  (`swim_ztp.py:1288-1305`, 1348-1366).
* Two policies can get the same name when one comes into being between the list of names
  and the PUT (`performance.py:4868`). `NamesStayUnique` is proved of the calls nobody wrote
  in the window of.
* A move or removal answered `Partial` counts as done (`grouping.py:2738`).
* `PUT` writes back fields as they were read (`performance.py:4909`): what others write
  in the window is lost.

## Not modelled

`PROJECT.json` lists every component with what is left out of it. The other
authentication strategies keep no session; the cache of the routing probe is used by no
tool; prompts are static text; scripts are run by hand. Partly: of the gating the case of
names and the redaction of arguments; of `config.py` the parsing of the environment; of
`crosswork.py`, `restconf.py` and `emf.py` the paths, keys and envelopes of one request;
of `errors.py` and `formatting.py` the text.

## Plan

What is left, in the order of weight:

1. More implementations of `WritePromise`: the detailed models of the group tools and of
   the record updates, where the answer is "done" or a refusal.
2. Waits for several devices at once (`performance.py` activates for a list), with their
   joint verdict.
3. `RecordUpdate`: credential and provider updates as kinds, with what their bodies keep
   and reset.
4. Cancellation inside a write call, where the requests made so far are reported nowhere.
5. Overlapping write calls on one set of facts, where the guard of one is changed by the
   other (now: one change by somebody else).
6. `ProbeCache`: single flight and forget, once a tool uses it.
