----------------------------- MODULE Playbooks_proofs -----------------------------
(***************************************************************************)
(* What the registry promises, for any tools, requirements, settings and   *)
(* order of registration, and what is left of it with the playbooks running. *)
(*                                                                         *)
(* A record says why it is as it is: a registered tool was permitted and   *)
(* all its siblings were there, which stays so, since a record is never    *)
(* changed.  What that leaves open, a tool skipped for a sibling that came *)
(* later, is what validate_gating() looks for.                             *)
(*                                                                         *)
(* Each step of a playbook is one the gating allows, or changes nothing of *)
(* it, so that what holds of the server holds with the playbooks running;  *)
(* and what a verdict says was committed was previewed and committed.      *)
(***************************************************************************)
EXTENDS Playbooks, TLAPS

RecordInv(t) ==
    /\ tools[t].state = "registered" =>
        /\ Permitted(t)
        /\ \A r \in Requires[t] : Registered(r)
        /\ tools[t].form \in DryRunForms(t)
    /\ tools[t].state = "gated" => ~Permitted(t)
    /\ tools[t].state = "needs" => tools[t].needs \in Requires[t]

GatingInv ==
    /\ GatingTypeOK
    /\ \A t \in Tools : RecordInv(t)
    /\ up = "serving" => (\A t \in Tools : Defined(t)) /\ ~RequirementProblems
    /\ \A t \in effects : Registered(t) /\ tools[t].form = "none"

LEMMA FormsAreForms ==
    ASSUME NEW t
    PROVE  DryRunForms(t) \subseteq Forms
BY DEF DryRunForms, Forms

\* Every record a tool can be given is a ToolRecord.
LEMMA RecordsAreRecords ==
    ASSUME NEW t \in Tools, NEW form \in Forms, NEW r \in Requires[t], NEW known \in BOOLEAN
    PROVE  /\ Undefined \in ToolRecords
           /\ [Undefined EXCEPT !.state = "gated"] \in ToolRecords
           /\ [Undefined EXCEPT !.state = "removed"] \in ToolRecords
           /\ [Undefined EXCEPT !.state = "registered", !.form = form] \in ToolRecords
           /\ [state |-> "needs", needs |-> r, known |-> known, form |-> "none"] \in ToolRecords
<1>1. r \in Names
  BY GatingAssumption
<1>. QED  BY <1>1 DEF Undefined, ToolRecords, Forms

\* What is decided about one tool leaves the records of the others alone.
LEMMA OthersKept ==
    ASSUME GatingInv, NEW t \in Tools, NEW record \in ToolRecords, Records(t, record),
           NEW s \in Tools, s # t
    PROVE  RecordInv(s)'
<1>1. /\ tools' = [tools EXCEPT ![t] = record]
      /\ settings' = settings
      /\ tools \in [Tools -> ToolRecords]
      /\ ~Registered(t)
  BY DEF Records, GatingInv, GatingTypeOK, Defined, Registered
<1>2. tools'[s] = tools[s]
  BY <1>1
<1>3. \A r : Registered(r) => Registered(r)'
  BY <1>1 DEF Registered
<1>4. Permitted(s)' = Permitted(s) /\ DryRunForms(s)' = DryRunForms(s)
  BY <1>1 DEF Permitted, DryRunForms
<1>5. RecordInv(s)
  BY DEF GatingInv
<1>. QED  BY <1>2, <1>3, <1>4, <1>5 DEF RecordInv

\* A step that decides about one tool keeps everything else of the invariant.
LEMMA RecordsKeeps ==
    ASSUME GatingInv, NEW t \in Tools, NEW record \in ToolRecords, Records(t, record),
           RecordInv(t)'
    PROVE  GatingInv'
<1>1. /\ up = "starting"
      /\ ~Defined(t)
      /\ tools' = [tools EXCEPT ![t] = record]
      /\ UNCHANGED <<settings, up, effects>>
  BY DEF Records
<1>2. GatingTypeOK'
  BY <1>1 DEF GatingInv, GatingTypeOK
<1>3. \A s \in Tools : RecordInv(s)'
  BY OthersKept
<1>4. \A s \in effects' : Registered(s)' /\ tools'[s].form = "none"
  <2>. SUFFICES ASSUME NEW s \in effects
                PROVE  Registered(s)' /\ tools'[s].form = "none"
    BY <1>1
  <2>1. Registered(s) /\ tools[s].form = "none" /\ s # t
    BY <1>1 DEF GatingInv, Registered, Defined
  <2>. QED  BY <1>1, <2>1 DEF Registered, GatingInv, GatingTypeOK
<1>. QED  BY <1>1, <1>2, <1>3, <1>4 DEF GatingInv

LEMMA GateKeeps ==
    ASSUME GatingInv, NEW t \in Tools, Gate(t)
    PROVE  GatingInv'
<1>. DEFINE record == [Undefined EXCEPT !.state = "gated"]
<1>1. record \in ToolRecords
  BY DEF Undefined, ToolRecords, Forms
<1>2. Records(t, record) /\ ~Permitted(t)
  BY DEF Gate
<1>3. tools'[t] = record /\ settings' = settings
  BY <1>2 DEF Records, GatingInv, GatingTypeOK
<1>4. record.state = "gated"
  BY DEF Undefined
<1>5. RecordInv(t)'
  BY <1>2, <1>3, <1>4 DEF RecordInv, Permitted
<1>. QED  BY <1>1, <1>2, <1>5, RecordsKeeps

LEMMA GateForSiblingKeeps ==
    ASSUME GatingInv, NEW t \in Tools, GateForSibling(t)
    PROVE  GatingInv'
<1>1. PICK r \in Requires[t] :
         Records(t, [state |-> "needs", needs |-> r, known |-> Defined(r), form |-> "none"])
  BY DEF GateForSibling, Missing
<1>. DEFINE record == [state |-> "needs", needs |-> r, known |-> Defined(r), form |-> "none"]
<1>2. record \in ToolRecords
  <2>1. r \in Names
    BY GatingAssumption
  <2>2. Defined(r) \in BOOLEAN
    BY DEF Defined
  <2>. QED  BY <2>1, <2>2 DEF ToolRecords, Forms
<1>3. tools'[t] = record
  BY <1>1 DEF Records, GatingInv, GatingTypeOK
<1>4. RecordInv(t)'
  BY <1>3 DEF RecordInv
<1>. QED  BY <1>1, <1>2, <1>4, RecordsKeeps

LEMMA RegisterKeeps ==
    ASSUME GatingInv, NEW t \in Tools, Register(t)
    PROVE  GatingInv'
<1>1. CASE \E form \in DryRunForms(t) :
              Records(t, [Undefined EXCEPT !.state = "registered", !.form = form])
  <2>1. PICK form \in DryRunForms(t) :
           Records(t, [Undefined EXCEPT !.state = "registered", !.form = form])
    BY <1>1
  <2>. DEFINE record == [Undefined EXCEPT !.state = "registered", !.form = form]
  <2>2. record \in ToolRecords
    BY FormsAreForms DEF Undefined, ToolRecords, Forms
  <2>3. tools' = [tools EXCEPT ![t] = record] /\ settings' = settings /\ ~Registered(t)
    BY <2>1 DEF Records, Defined, Registered
  <2>4. tools'[t] = record /\ record.state = "registered" /\ record.form = form
    BY <2>3 DEF GatingInv, GatingTypeOK, Undefined
  <2>5. Permitted(t)' /\ form \in DryRunForms(t)'
    BY <2>3 DEF Register, Permitted, DryRunForms
  <2>6. \A r \in Requires[t] : Registered(r)'
    BY <2>3 DEF Register, Missing, Registered, GatingInv, GatingTypeOK
  <2>7. RecordInv(t)'
    BY <2>4, <2>5, <2>6 DEF RecordInv
  <2>. QED  BY <2>1, <2>2, <2>7, RecordsKeeps
<1>2. CASE Records(t, [Undefined EXCEPT !.state = "removed"])
  <2>. DEFINE record == [Undefined EXCEPT !.state = "removed"]
  <2>1. record \in ToolRecords /\ record.state = "removed"
    BY DEF Undefined, ToolRecords, Forms
  <2>2. tools'[t] = record
    BY <1>2 DEF Records, GatingInv, GatingTypeOK
  <2>3. RecordInv(t)'
    BY <2>1, <2>2 DEF RecordInv
  <2>. QED  BY <1>2, <2>1, <2>3, RecordsKeeps
<1>. QED  BY <1>1, <1>2 DEF Register

\* The operators that read the registry and the settings only.
LEMMA RegistryKept ==
    ASSUME UNCHANGED <<settings, tools>>
    PROVE  /\ RequirementProblems' = RequirementProblems
           /\ \A t : Defined(t)' = Defined(t) /\ Registered(t)' = Registered(t)
           /\ \A t : RecordInv(t)' = RecordInv(t)
BY DEF RequirementProblems, Stranded, Defined, Registered, RecordInv, Permitted, DryRunForms

LEMMA StartKeeps ==
    ASSUME GatingInv, Start
    PROVE  GatingInv'
<1>1. UNCHANGED <<settings, tools, effects>>
  BY DEF Start
<1>2. up' = "serving" => (\A t \in Tools : Defined(t)) /\ ~RequirementProblems
  BY DEF Start
<1>3. GatingTypeOK'
  BY <1>1 DEF Start, GatingInv, GatingTypeOK
<1>. QED  BY <1>1, <1>2, <1>3, RegistryKept DEF GatingInv

LEMMA CommitKeeps ==
    ASSUME GatingInv, NEW t \in Tools, Commit(t)
    PROVE  GatingInv'
<1>1. /\ UNCHANGED <<settings, tools, up>>
      /\ effects' = effects \union {t}
      /\ t \in Writes
      /\ Registered(t)
      /\ tools[t].form = "none"
  BY DEF Commit, Commits
<1>2. GatingTypeOK'
  BY <1>1 DEF GatingInv, GatingTypeOK
<1>. QED  BY <1>1, <1>2, RegistryKept DEF GatingInv

LEMMA InitGatingInv == GatingInit => GatingInv
<1>. SUFFICES ASSUME GatingInit
              PROVE  GatingInv
  OBVIOUS
<1>1. Undefined \in ToolRecords /\ Undefined.state = "undefined"
  BY DEF Undefined, ToolRecords, Forms
<1>2. GatingTypeOK
  BY <1>1 DEF GatingInit, GatingTypeOK
<1>3. \A t \in Tools : RecordInv(t)
  BY <1>1 DEF GatingInit, RecordInv
<1>. QED  BY <1>2, <1>3 DEF GatingInit, GatingInv

LEMMA NextGatingInv == GatingInv /\ [GatingNext]_gatingVars => GatingInv'
<1>. SUFFICES ASSUME GatingInv, [GatingNext]_gatingVars
              PROVE  GatingInv'
  OBVIOUS
<1>1. CASE Startup
  BY <1>1, StartKeeps, GateKeeps, GateForSiblingKeeps, RegisterKeeps DEF Startup
<1>2. CASE \E t \in Tools : Commit(t)
  BY <1>2, CommitKeeps
<1>3. CASE UNCHANGED gatingVars
  <2>1. GatingTypeOK'
    BY <1>3 DEF GatingInv, GatingTypeOK, gatingVars
  <2>. QED  BY <1>3, <2>1, RegistryKept DEF GatingInv, gatingVars
<1>. QED  BY <1>1, <1>2, <1>3 DEF GatingNext

\* GatingInv holds of every run of the server.
THEOREM GatingInvariant == GatingSpec => []GatingInv
BY InitGatingInv, NextGatingInv, PTL DEF GatingSpec

--------------------------------------------------------------------------------

LEMMA InvImpliesConfigured == GatingInv => RegisteredAsConfigured
<1>. SUFFICES ASSUME GatingInv, up = "serving", NEW t \in Tools
              PROVE  Registered(t) <=> /\ Permitted(t)
                                       /\ \A r \in Requires[t] : Registered(r)
                                       /\ tools[t].state # "removed"
  BY DEF RegisteredAsConfigured
<1>1. RecordInv(t) /\ Defined(t) /\ ~RequirementProblems
  BY DEF GatingInv
<1>2. ASSUME Registered(t)
      PROVE  /\ Permitted(t)
             /\ \A r \in Requires[t] : Registered(r)
             /\ tools[t].state # "removed"
  BY <1>1, <1>2 DEF RecordInv, Registered
<1>3. ASSUME Permitted(t), \A r \in Requires[t] : Registered(r), tools[t].state # "removed"
      PROVE  Registered(t)
  <2>1. tools[t].state \in {"registered", "gated", "needs"}
    <3>1. tools[t] \in ToolRecords
      BY DEF GatingInv, GatingTypeOK
    <3>2. tools[t].state \in {"undefined", "registered", "gated", "needs", "removed"}
      BY <3>1 DEF ToolRecords
    <3>. QED  BY <1>1, <1>3, <3>2 DEF Defined
  <2>2. tools[t].state # "gated"
    BY <1>1, <1>3 DEF RecordInv
  <2>3. ASSUME tools[t].state = "needs"
        PROVE  FALSE
    <3>1. tools[t].needs \in Requires[t] /\ Registered(tools[t].needs)
      BY <1>1, <1>3, <2>3 DEF RecordInv
    <3>2. Stranded(t, tools[t].needs)
      BY <2>3, <3>1 DEF Stranded
    <3>. QED  BY <1>1, <3>1, <3>2 DEF RequirementProblems
  <2>. QED  BY <2>1, <2>2, <2>3 DEF Registered
<1>. QED  BY <1>2, <1>3

\* For every order of registration, set of tools and configuration: a server that has
\* started offers exactly what the configuration permits (validate_gating()).
THEOREM ConfiguredTheorem == GatingSpec => []RegisteredAsConfigured
BY GatingInvariant, InvImpliesConfigured, PTL

LEMMA InvImpliesDryRun == GatingInv => DryRunCommitsNothing
<1>. SUFFICES ASSUME GatingInv, settings.dry_run, NEW t \in effects
              PROVE  FALSE
  BY DEF DryRunCommitsNothing
<1>1. t \in Writes /\ t \in Tools /\ tools[t].state = "registered" /\ tools[t].form = "none"
  BY DEF GatingInv, GatingTypeOK, Registered
<1>2. tools[t].form \in DryRunForms(t)
  BY <1>1 DEF GatingInv, RecordInv
<1>. QED  BY <1>1, <1>2 DEF DryRunForms

\* In dry-run mode no write changes anything, whichever wrappers could be installed.
THEOREM DryRunTheorem == GatingSpec => []DryRunCommitsNothing
BY GatingInvariant, InvImpliesDryRun, PTL

LEMMA InvImpliesGranted == GatingInv => EffectsGranted
<1>. SUFFICES ASSUME GatingInv, NEW t \in effects
              PROVE  /\ t \in Writes \ settings.disabled_tools
                     /\ settings.enable_writes
                     /\ settings.write_areas = {} \/ Area[t] \in settings.write_areas
  BY DEF EffectsGranted
<1>1. t \in Writes /\ t \in Tools /\ tools[t].state = "registered"
  BY DEF GatingInv, GatingTypeOK, Registered
<1>2. Permitted(t)
  BY <1>1 DEF GatingInv, RecordInv
<1>. QED  BY <1>1, <1>2 DEF Permitted

\* Only writes that were granted, area by area and name by name, change anything.
THEOREM GrantedTheorem == GatingSpec => []EffectsGranted
BY GatingInvariant, InvImpliesGranted, PTL

--------------------------------------------------------------------------------
(* The playbooks under the gating. *)

LEMMA StepGated == [Next]_vars => [GatingNext]_gatingVars
<1>. SUFFICES ASSUME [Next]_vars
              PROVE  [GatingNext]_gatingVars
  OBVIOUS
<1>0. Writes \subseteq Tools /\ CreateL3vpn \in Tools /\ CreateSr \in Tools /\ StartTrace \in Tools
  BY GatingAssumption, PlaybookAssumption
<1>1. CASE Startup
  BY <1>1 DEF GatingNext
<1>2. CASE OtherCall
  BY <1>0, <1>2 DEF OtherCall, GatingNext
<1>3. CASE CommitStep
  BY <1>0, <1>3 DEF CommitStep, CommitTool, GatingNext, Stop
<1>4. CASE BeginTrace
  BY <1>0, <1>4 DEF BeginTrace, GatingNext
<1>5. CASE \/ \E arguments \in Arguments : Begin(arguments)
           \/ Preview \/ Wait \/ Read
           \/ DecideTrace \/ ResolveNodes \/ TraceResult
           \/ Conclude
  BY <1>5 DEF Begin, Preview, Wait, Read, DecideTrace, ResolveNodes, TraceResult, Conclude
<1>6. CASE UNCHANGED vars
  BY <1>6 DEF vars
<1>. QED  BY <1>1, <1>2, <1>3, <1>4, <1>5, <1>6 DEF Next, PlaybookStep

\* The playbooks implement the gating: whatever a playbook changes, the siblings it
\* calls were free to change.
THEOREM PlaybooksGated == Spec => GatingSpec
<1>1. Init => GatingInit
  BY DEF Init
<1>. QED  BY <1>1, StepGated, PTL DEF Spec, GatingSpec

THEOREM SpecGatingInv == Spec => []GatingInv
BY PlaybooksGated, GatingInvariant, PTL

\* A server that has started offers what its configuration permits, the playbooks
\* among the rest.
THEOREM PlaybooksConfigured == Spec => []RegisteredAsConfigured
BY PlaybooksGated, ConfiguredTheorem, PTL

\* Nor does a playbook change anything in dry-run mode.
THEOREM PlaybooksDryRun == Spec => []DryRunCommitsNothing
BY PlaybooksGated, DryRunTheorem, PTL

\* Nor through a sibling that was not granted.
THEOREM PlaybooksGranted == Spec => []EffectsGranted
BY PlaybooksGated, GrantedTheorem, PTL

--------------------------------------------------------------------------------

LEMMA StepTyped == TypeOK /\ GatingInv /\ [Next]_vars => TypeOK'
<1>. SUFFICES ASSUME TypeOK, GatingInv, [Next]_vars
              PROVE  TypeOK'
  OBVIOUS
<1>1. GatingTypeOK'
  BY StepGated, NextGatingInv DEF GatingInv
<1>2. /\ step' \in Steps /\ call' \in Arguments /\ asked' \in BOOLEAN
      /\ previewed' \in BOOLEAN /\ applied' \in BOOLEAN
  <2>1. ASSUME NEW arguments \in Arguments, Begin(arguments)
        PROVE  <1>2!:
    BY <2>1 DEF Begin, ForcedDryRun, Arguments, TypeOK, Steps
  <2>2. CASE Preview
    BY <2>2 DEF Preview, AfterPreview, Stop, TypeOK, Steps
  <2>3. CASE CommitStep
    BY <2>3 DEF CommitStep, Stop, TypeOK, Steps
  <2>4. CASE Wait \/ Read \/ DecideTrace \/ ResolveNodes \/ BeginTrace \/ TraceResult
    BY <2>4 DEF Wait, Read, DecideTrace, ResolveNodes, BeginTrace, TraceResult, TypeOK, Steps
  <2>5. CASE Conclude
    BY <2>5 DEF Conclude, Stop, TypeOK, Steps
  <2>6. CASE UNCHANGED pbVars
    BY <2>6 DEF pbVars, TypeOK
  <2>. QED  BY <2>1, <2>2, <2>3, <2>4, <2>5, <2>6 DEF Next, PlaybookStep, OtherCall, vars
<1>3. wait' \in Waits /\ health' \in BOOLEAN /\ trace' \in Traces
  <2>1. ASSUME NEW arguments \in Arguments, Begin(arguments)
        PROVE  <1>3!:
    BY <2>1 DEF Begin, TypeOK
  <2>2. CASE Preview \/ CommitStep \/ Conclude
    BY <2>2 DEF Preview, CommitStep, Conclude, TypeOK
  <2>3. CASE Wait \/ Read
    BY <2>3 DEF Wait, Read, TypeOK, Waits
  <2>4. CASE DecideTrace \/ ResolveNodes \/ BeginTrace \/ TraceResult
    BY <2>4 DEF DecideTrace, ResolveNodes, BeginTrace, TraceResult, TypeOK, Traces
  <2>6. CASE UNCHANGED pbVars
    BY <2>6 DEF pbVars, TypeOK
  <2>. QED  BY <2>1, <2>2, <2>3, <2>4, <2>6 DEF Next, PlaybookStep, OtherCall, vars
<1>4. verdict' \in Verdicts
  <2>1. ASSUME NEW arguments \in Arguments, Begin(arguments)
        PROVE  <1>4!:
    BY <2>1 DEF Begin, TypeOK
  <2>2. CASE Preview \/ CommitStep
    BY <2>2 DEF Preview, AfterPreview, CommitStep, Stop, TypeOK, Verdicts
  <2>3. CASE Wait \/ Read \/ DecideTrace \/ ResolveNodes \/ BeginTrace \/ TraceResult
    BY <2>3 DEF Wait, Read, DecideTrace, ResolveNodes, BeginTrace, TraceResult, TypeOK
  <2>4. CASE Conclude
    BY <2>4 DEF Conclude, Stop, ProvisionVerdict, PolicyVerdict, Verdicts
  <2>6. CASE UNCHANGED pbVars
    BY <2>6 DEF pbVars, TypeOK
  <2>. QED  BY <2>1, <2>2, <2>3, <2>4, <2>6 DEF Next, PlaybookStep, OtherCall, vars
<1>. QED  BY <1>1, <1>2, <1>3, <1>4 DEF TypeOK

\* A playbook and the registry under it stay within their types.
THEOREM PlaybooksTypeCorrect == Spec => []TypeOK
<1>1. Init => TypeOK
  <2>1. Init => GatingTypeOK
    BY InitGatingInv DEF Init, GatingInv
  <2>2. NoCall \in Arguments
    BY DEF NoCall, Arguments, Playbook
  <2>3. /\ "idle" \in Steps /\ "none" \in Waits /\ "none" \in Traces /\ "none" \in Verdicts
    BY DEF Steps, Waits, Traces, Verdicts
  <2>. QED  BY <2>1, <2>2, <2>3 DEF Init, TypeOK
<1>. QED  BY <1>1, StepTyped, SpecGatingInv, PTL DEF Spec

--------------------------------------------------------------------------------

\* The steps after the commit, which are reached only with something committed.
AfterCommit == {"wait", "read", "trace", "device", "start", "result", "conclude"}

PlaybookInv ==
    /\ call.tool \in Playbook
    /\ step # "idle" =>
        /\ up = "serving"
        /\ Registered(call.tool)
        /\ asked \/ tools[call.tool].form = "preview" => call.dry_run
    /\ step \in {"idle", "preview", "commit"} => ~applied
    /\ step = "commit" => ~call.dry_run /\ previewed
    /\ step \in AfterCommit => applied
    /\ applied => previewed /\ ~call.dry_run /\ step # "idle"
    /\ VerdictBacked

\* Outside dry-run mode, which would have made the playbook a preview, the commit of a
\* registered playbook is carried out.
LEMMA CommitCarriedOut ==
    ASSUME GatingInv, PlaybookInv, step = "commit"
    PROVE  Commits(CommitTool(call.tool), FALSE)
<1>. DEFINE p == call.tool
            t == CommitTool(call.tool)
<1>1. /\ up = "serving"
      /\ p \in Playbook
      /\ Registered(p)
      /\ tools[p].form # "preview"
  BY DEF PlaybookInv
<1>2. p \in Previews /\ p \in Writes /\ p \in Tools /\ t \in Requires[p] /\ t \in Writes
  BY <1>1, PlaybookAssumption, GatingAssumption DEF Playbook, CommitTool
<1>3. RecordInv(p) /\ tools[p].state = "registered"
  BY <1>1, <1>2 DEF GatingInv, Registered
<1>4. tools[p].form \in DryRunForms(p) /\ Registered(t)
  BY <1>2, <1>3 DEF RecordInv
<1>5. settings.dry_run = FALSE
  <2>1. ~settings.dry_run
    BY <1>1, <1>2, <1>4 DEF DryRunForms
  <2>2. settings.dry_run \in BOOLEAN
    BY GatingAssumption DEF GatingInv, GatingTypeOK
  <2>. QED  BY <2>1, <2>2
<1>6. RecordInv(t) /\ tools[t].state = "registered"
  BY <1>4 DEF GatingInv, Registered
<1>7. tools[t].form \in DryRunForms(t)
  BY <1>6 DEF RecordInv
<1>8. tools[t].form = "none"
  BY <1>5, <1>7 DEF DryRunForms
<1>. QED  BY <1>1, <1>2, <1>4, <1>8 DEF Commits

\* The registry stands still once the server has started.
LEMMA ServingStays ==
    ASSUME GatingInv, up = "serving", [GatingNext]_gatingVars
    PROVE  up' = "serving" /\ tools' = tools
<1>1. CASE Startup
  BY <1>1 DEF Startup, Start, Gate, GateForSibling, Register, Records
<1>2. CASE \E t \in Tools : Commit(t)
  BY <1>2 DEF Commit
<1>. QED  BY <1>1, <1>2 DEF GatingNext, gatingVars

LEMMA InitPlaybookInv == Init => PlaybookInv
BY DEF Init, PlaybookInv, NoCall, Playbook, AfterCommit, VerdictBacked

LEMMA NextPlaybookInv == GatingInv /\ PlaybookInv /\ [Next]_vars => PlaybookInv'
<1>. SUFFICES ASSUME GatingInv, PlaybookInv, [Next]_vars
              PROVE  PlaybookInv'
  OBVIOUS
<1>0. up = "serving" => up' = "serving" /\ tools' = tools
  BY StepGated, ServingStays
<1>1. ASSUME UNCHANGED pbVars
      PROVE  PlaybookInv'
  BY <1>0, <1>1 DEF pbVars, PlaybookInv, Registered, VerdictBacked
<1>2. ASSUME NEW arguments \in Arguments, Begin(arguments)
      PROVE  PlaybookInv'
  <2>1. /\ up = "serving" /\ step = "idle" /\ step' = "preview"
        /\ Registered(arguments.tool)
        /\ asked' = arguments.dry_run
        /\ UNCHANGED <<gatingVars, previewed, applied, verdict>>
    BY <1>2 DEF Begin
  <2>2. /\ call'.tool = arguments.tool
        /\ call'.dry_run = (arguments.dry_run \/ tools[arguments.tool].form = "preview")
    BY <1>2 DEF Begin, ForcedDryRun, Arguments
  <2>3. arguments.tool \in Playbook
    BY DEF Arguments
  <2>. QED  BY <2>1, <2>2, <2>3 DEF PlaybookInv, gatingVars, Registered, VerdictBacked, AfterCommit
<1>3. CASE Preview
  <2>1. PICK ok \in BOOLEAN : previewed' = ok /\ AfterPreview(ok)
    BY <1>3 DEF Preview
  <2>2. /\ step = "preview"
        /\ UNCHANGED <<gatingVars, call, asked, applied>>
    BY <1>3 DEF Preview
  <2>3. CASE ~ok
    BY <2>1, <2>2, <2>3 DEF AfterPreview, Stop, PlaybookInv, gatingVars, Registered, VerdictBacked, AfterCommit
  <2>4. CASE ok /\ call.dry_run
    BY <2>1, <2>2, <2>4 DEF AfterPreview, Stop, PlaybookInv, gatingVars, Registered, VerdictBacked, AfterCommit
  <2>5. CASE ok /\ ~call.dry_run
    BY <2>1, <2>2, <2>5 DEF AfterPreview, Stop, PlaybookInv, gatingVars, Registered, VerdictBacked, AfterCommit
  <2>. QED  BY <2>3, <2>4, <2>5
<1>4. CASE CommitStep
  <2>1. step = "commit" /\ Commits(CommitTool(call.tool), FALSE)
    BY <1>4, CommitCarriedOut DEF CommitStep
  <2>2. /\ UNCHANGED <<call, asked, previewed>>
        /\ \/ step' = "wait" /\ applied' = TRUE /\ UNCHANGED verdict
           \/ step' = "done" /\ verdict' = "failed" /\ UNCHANGED applied
           \/ step' = "done" /\ verdict' = "failed" /\ applied' = TRUE
    BY <1>4, <2>1 DEF CommitStep, Stop
  <2>. QED  BY <1>0, <2>1, <2>2 DEF PlaybookInv, Registered, VerdictBacked, AfterCommit
<1>5. CASE Wait \/ Read \/ DecideTrace \/ ResolveNodes \/ BeginTrace \/ TraceResult
  <2>1. /\ step \in AfterCommit /\ step' \in AfterCommit
        /\ UNCHANGED <<call, asked, previewed, applied, verdict>>
    BY <1>5 DEF Wait, Read, DecideTrace, ResolveNodes, BeginTrace, TraceResult, AfterCommit
  <2>. QED  BY <1>0, <2>1 DEF PlaybookInv, Registered, VerdictBacked, AfterCommit
<1>6. CASE Conclude
  <2>1. step = "conclude" /\ step' = "done" /\ UNCHANGED <<call, asked, previewed, applied>>
    BY <1>6 DEF Conclude, Stop
  <2>. QED  BY <1>0, <2>1 DEF PlaybookInv, Registered, VerdictBacked, AfterCommit
<1>7. CASE UNCHANGED vars
  BY <1>1, <1>7 DEF vars, pbVars
<1>. QED  BY <1>1, <1>2, <1>3, <1>4, <1>5, <1>6, <1>7 DEF Next, PlaybookStep, OtherCall

THEOREM PlaybookInvariant == Spec => []PlaybookInv
BY InitPlaybookInv, NextPlaybookInv, SpecGatingInv, PTL DEF Spec

\* A playbook commits what it has previewed, and nothing when asked for a dry run.
THEOREM CommitPreviewedTheorem == Spec => []CommitPreviewed
<1>1. PlaybookInv => CommitPreviewed
  BY DEF PlaybookInv, CommitPreviewed
<1>. QED  BY <1>1, PlaybookInvariant, PTL

\* A verdict that something was deployed or created is never about a call that the
\* dry-run mode recorded.
THEOREM VerdictBackedTheorem == Spec => []VerdictBacked
<1>1. PlaybookInv => VerdictBacked
  BY DEF PlaybookInv
<1>. QED  BY <1>1, PlaybookInvariant, PTL
================================================================================
