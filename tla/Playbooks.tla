-------------------------------- MODULE Playbooks --------------------------------
(***************************************************************************)
(* The two write playbooks of tools/composite.py, cnc_provision_l3vpn_e2e  *)
(* and cnc_create_sr_policy_e2e: sibling tools called one after another    *)
(* through the server, under its gating, with a verdict at the end.        *)
(*                                                                         *)
(* One call of a playbook is followed from its arguments to its verdict,   *)
(* while other calls of the write tools go on beside it.  An answer is     *)
(* "ok" unless it starts with "Error:"; that a sibling is not registered   *)
(* is an error, that it was only recorded (NOT EXECUTED) is none.          *)
(***************************************************************************)
EXTENDS ToolGating

Provision == "cnc_provision_l3vpn_e2e"
CreatePolicy == "cnc_create_sr_policy_e2e"
Playbook == {Provision, CreatePolicy}

CreateL3vpn == "cnc_create_l3vpn_service"
WaitPlan == "cnc_wait_for_service_plan"
StartTrace == "cnc_start_oam_trace_route"
CreateSr == "cnc_create_sr_policy"

\* The tool that commits, and the one that previews what it will do.
CommitTool(p) == IF p = Provision THEN CreateL3vpn ELSE CreateSr

ASSUME PlaybookAssumption ==
    /\ {CreateL3vpn, StartTrace, CreateSr} \union Playbook \subseteq Writes
    /\ WaitPlan \in Tools
    /\ Playbook \union {CreateL3vpn} \subseteq Previews
    /\ {StartTrace, CreateSr} \intersect Previews = {}
    /\ \A p \in Playbook : CommitTool(p) \in Requires[p]

VARIABLES
    step,       \* where the call of the playbook stands
    call,       \* the playbook, and its arguments as the function sees them
    asked,      \* dry_run as the agent gave it
    previewed,  \* the dry run was ok
    applied,    \* this call's commit has changed something
    wait,       \* the service plan, or the policy's oper-state, after the wait
    health,     \* the CAT inventory was read
    trace,      \* trace_ok, and why it is None
    verdict

pbVars == <<step, call, asked, previewed, applied, wait, health, trace, verdict>>
vars == <<gatingVars, pbVars>>

Steps == {"idle", "preview", "commit", "wait", "read", "trace", "device", "start", "result", "conclude", "done"}
Waits == {"none", "reached", "pending", "error"}
Traces == {"none", "ok", "bad", "pending", "skipped"}
Verdicts == {"none", "failed", "dry-run", "deployed", "deployed-unverified", "created-up", "created-not-up"}
Arguments == [tool : Playbook, dry_run : BOOLEAN, trace : BOOLEAN, srv6 : BOOLEAN, twoNodes : BOOLEAN]
NoCall == [tool |-> Provision, dry_run |-> FALSE, trace |-> FALSE, srv6 |-> FALSE, twoNodes |-> FALSE]

TypeOK ==
    /\ GatingTypeOK
    /\ step \in Steps
    /\ call \in Arguments
    /\ asked \in BOOLEAN
    /\ previewed \in BOOLEAN
    /\ applied \in BOOLEAN
    /\ wait \in Waits
    /\ health \in BOOLEAN
    /\ trace \in Traces
    /\ verdict \in Verdicts

Init ==
    /\ GatingInit
    /\ step = "idle"
    /\ call = NoCall
    /\ asked = FALSE
    /\ previewed = FALSE
    /\ applied = FALSE
    /\ wait = "none"
    /\ health = FALSE
    /\ trace = "none"
    /\ verdict = "none"

--------------------------------------------------------------------------------
(* Composer.call(). *)

\* Whether an answer can be an error, or anything else: a sibling that is not
\* registered is a ToolError, and one that is only recorded cannot fail.
CanFail(t) == ~(Registered(t) /\ tools[t].form = "recorded")
CanBeOk(t) == Registered(t)

Stop(what) ==
    /\ step' = "done"
    /\ verdict' = what

\* The call: in dry-run mode the playbook itself is a preview, dry_run forced true.
ForcedDryRun_AsAsked(p, dry_run) == dry_run
ForcedDryRun(p, dry_run) == dry_run \/ tools[p].form = "preview"

Begin(arguments) ==
    /\ up = "serving"
    /\ step = "idle"
    /\ Registered(arguments.tool)
    /\ arguments.tool = CreatePolicy => ~(arguments.trace \/ arguments.srv6 \/ arguments.twoNodes)
    /\ step' = "preview"
    /\ asked' = arguments.dry_run
    /\ call' = [arguments EXCEPT !.dry_run = ForcedDryRun(arguments.tool, @)]
    /\ UNCHANGED <<gatingVars, previewed, applied, wait, health, trace, verdict>>

\* cnc_create_l3vpn_service(dry_run=true), or the read-only cnc_dryrun_sr_policy.
AfterPreview_Always(ok) ==
    \/ call.dry_run /\ Stop("dry-run")
    \/ ~call.dry_run /\ step' = "commit" /\ UNCHANGED verdict
AfterPreview(ok) ==
    \/ ~ok /\ Stop("failed")
    \/ ok /\ call.dry_run /\ Stop("dry-run")
    \/ ok /\ ~call.dry_run /\ step' = "commit" /\ UNCHANGED verdict

Preview ==
    /\ step = "preview"
    /\ \E ok \in BOOLEAN :
          /\ ok => call.tool = CreatePolicy \/ CanBeOk(CreateL3vpn)
          /\ previewed' = ok
          /\ AfterPreview(ok)
    /\ UNCHANGED <<gatingVars, call, asked, applied, wait, health, trace>>

\* The commit is answered, rejected, or not answered although it was applied.
CommitStep ==
    /\ step = "commit"
    /\ LET t == CommitTool(call.tool) IN
       \/ /\ CanBeOk(t)
          /\ step' = "wait"
          /\ \/ Commit(t) /\ applied' = TRUE
             \/ ~Commits(t, FALSE) /\ UNCHANGED <<gatingVars, applied>>
          /\ UNCHANGED verdict
       \/ /\ CanFail(t)
          /\ Stop("failed")
          /\ UNCHANGED <<gatingVars, applied>>
       \/ /\ Commits(t, FALSE)
          /\ Stop("failed")
          /\ applied' = TRUE
          /\ Commit(t)
    /\ UNCHANGED <<call, asked, previewed, wait, health, trace>>

\* cnc_wait_for_service_plan, or cnc_wait_for_sr_policy_oper_state.
Wait ==
    /\ step = "wait"
    /\ wait' \in {"reached", "pending", "error"}
    /\ call.tool = Provision /\ wait' # "error" => CanBeOk(WaitPlan)
    /\ step' = "read"
    /\ UNCHANGED <<gatingVars, call, asked, previewed, applied, health, trace, verdict>>

\* cnc_get_vpn_service_health, or cnc_get_sr_policy_routes: its failure stops nothing.
Read ==
    /\ step = "read"
    /\ health' \in BOOLEAN
    /\ step' = IF call.tool = Provision THEN "trace" ELSE "conclude"
    /\ UNCHANGED <<gatingVars, call, asked, previewed, applied, wait, trace, verdict>>

--------------------------------------------------------------------------------
(* The OAM trace of an L3VPN. *)

TraceSkipped ==
    \/ call.srv6
    \/ ~Registered(StartTrace)
    \/ wait = "error"
    \/ ~call.twoNodes

DecideTrace ==
    /\ step = "trace"
    /\ \/ ~call.trace /\ trace' = "none" /\ step' = "conclude"
       \/ call.trace /\ TraceSkipped /\ trace' = "skipped" /\ step' = "conclude"
       \/ call.trace /\ ~TraceSkipped /\ step' = "device" /\ UNCHANGED trace
    /\ UNCHANGED <<gatingVars, call, asked, previewed, applied, wait, health, verdict>>

\* cnc_get_device of both nodes.
ResolveNodes ==
    /\ step = "device"
    /\ \/ step' = "start" /\ UNCHANGED trace
       \/ step' = "conclude" /\ trace' = "bad"
    /\ UNCHANGED <<gatingVars, call, asked, previewed, applied, wait, health, verdict>>

BeginTrace ==
    /\ step = "start"
    /\ \/ Commit(StartTrace) /\ step' = "result" /\ UNCHANGED trace
       \/ /\ Commit(StartTrace) \/ UNCHANGED gatingVars
          /\ step' = "conclude"
          /\ trace' = "bad"
    /\ UNCHANGED <<call, asked, previewed, applied, wait, health, verdict>>

\* cnc_wait_for_oam_trace_route: a trace that is not finished is neither ok nor not.
TraceResult ==
    /\ step = "result"
    /\ trace' \in {"ok", "bad", "pending"}
    /\ step' = "conclude"
    /\ UNCHANGED <<gatingVars, call, asked, previewed, applied, wait, health, verdict>>

--------------------------------------------------------------------------------

ProvisionVerdict ==
    CASE wait = "reached" /\ health /\ trace # "bad" -> "deployed"
      [] wait = "error" -> "failed"
      [] OTHER -> "deployed-unverified"

PolicyVerdict == IF wait = "reached" THEN "created-up" ELSE "created-not-up"

Conclude ==
    /\ step = "conclude"
    /\ Stop(IF call.tool = Provision THEN ProvisionVerdict ELSE PolicyVerdict)
    /\ UNCHANGED <<gatingVars, call, asked, previewed, applied, wait, health, trace>>

\* The agent calls the siblings itself.
OtherCall ==
    /\ \E t \in Writes \ Playbook : Commit(t)
    /\ UNCHANGED pbVars

PlaybookStep ==
    \/ \E arguments \in Arguments : Begin(arguments)
    \/ Preview \/ CommitStep \/ Wait \/ Read
    \/ DecideTrace \/ ResolveNodes \/ BeginTrace \/ TraceResult
    \/ Conclude

Next == (Startup /\ UNCHANGED pbVars) \/ OtherCall \/ PlaybookStep

Spec == Init /\ [][Next]_vars

--------------------------------------------------------------------------------
(* Properties. *)

\* A playbook commits only what it has previewed with success in the same call, and
\* nothing when the agent asked for a dry run.
CommitPreviewed == applied => previewed /\ ~asked

\* A verdict that speaks of something deployed or created is about something this call
\* has committed; an answer that only recorded the call does not pass for it.
VerdictBacked ==
    verdict \in {"deployed", "deployed-unverified", "created-up", "created-not-up"} => applied

\* "a failed commit stops and reports (NSO rejected the service - nothing was
\* deployed)" (composite.py, cnc_provision_l3vpn_e2e).
FailedCommitDeploysNothing ==
    call.tool = Provision /\ verdict = "failed" /\ wait = "none" => ~applied
================================================================================
