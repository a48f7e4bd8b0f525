------------------------------- MODULE ToolGating -------------------------------
(***************************************************************************)
(* Which tools the server offers, and what a call of one may change: the   *)
(* decisions of register_tool() (safety.py), the checks of                 *)
(* validate_gating() (tools/__init__.py) and the two forms a write takes   *)
(* in dry-run mode.                                                        *)
(*                                                                         *)
(* The tools register one after another, in the order of ALL_MODULES.  The *)
(* order is left open here, since validate_gating() is there to refuse the *)
(* wrong ones.                                                             *)
(***************************************************************************)

CONSTANTS
    Tools,      \* the tools the modules define
    Writes,     \* the ones with read_only=False
    Previews,   \* the writes with a dry_run argument
    Area,       \* the tools/ module of each
    Areas,      \* all_areas()
    Names,      \* what the settings and `requires` may name: tools and slips of the pen
    Requires,   \* the write siblings a tool cannot do without
    Settings    \* the configurations looked at

ASSUME GatingAssumption ==
    /\ Tools \subseteq Names
    /\ Writes \subseteq Tools
    /\ Previews \subseteq Writes
    /\ Area \in [Tools -> Areas]
    /\ Requires \in [Tools -> SUBSET Names]
    /\ \A c \in Settings :
          /\ c.enable_writes \in BOOLEAN
          /\ c.disabled_tools \subseteq Names
          /\ c.dry_run \in BOOLEAN

VARIABLES
    settings,
    tools,      \* ctx.tools, the ToolRecord of each tool
    up,         \* whether the server has started
    effects     \* the writes that have changed something

gatingVars == <<settings, tools, up, effects>>

Forms == {"none", "preview", "recorded"}
NoName == "no tool"
ToolRecords ==
    [state : {"undefined", "registered", "gated", "needs", "removed"},
     needs : Names \union {NoName},     \* the sibling of a "needs" record,
     known : BOOLEAN,                   \* and whether that had a record by then
     form : Forms]                      \* dry_run_form

Undefined == [state |-> "undefined", needs |-> NoName, known |-> TRUE, form |-> "none"]

GatingTypeOK ==
    /\ settings \in Settings
    /\ tools \in [Tools -> ToolRecords]
    /\ up \in {"starting", "serving", "failed"}
    /\ effects \subseteq Writes

GatingInit ==
    /\ settings \in Settings
    /\ tools = [t \in Tools |-> Undefined]
    /\ up = "starting"
    /\ effects = {}

--------------------------------------------------------------------------------
(* Registration. *)

Defined(t) == t \in Tools /\ tools[t].state # "undefined"
Registered(t) == t \in Tools /\ tools[t].state = "registered"

\* skip_reason() is None.
Permitted(t) ==
    /\ t \notin settings.disabled_tools
    /\ t \in Writes =>
        /\ settings.enable_writes
        /\ settings.write_areas = {} \/ Area[t] \in settings.write_areas

Records(t, record) ==
    /\ up = "starting"
    /\ ~Defined(t)
    /\ tools' = [tools EXCEPT ![t] = record]
    /\ UNCHANGED <<settings, up, effects>>

Gate(t) ==
    /\ ~Permitted(t)
    /\ Records(t, [Undefined EXCEPT !.state = "gated"])

\* A required sibling that is not registered, be it not yet or not at all.
Missing_IfDefined(t) == {r \in Requires[t] : Defined(r) /\ ~Registered(r)}
Missing(t) == {r \in Requires[t] : ~Registered(r)}

GateForSibling(t) ==
    /\ Permitted(t)
    /\ \E r \in Missing(t) :
          Records(t, [state |-> "needs", needs |-> r, known |-> Defined(r), form |-> "none"])

\* _install_dry_run(): a write that cannot be wrapped is removed.
DryRunForms_LeftLive(t) ==
    IF t \in Writes /\ settings.dry_run
    THEN {"none", IF t \in Previews THEN "preview" ELSE "recorded"}
    ELSE {"none"}
DryRunForms(t) ==
    IF t \in Writes /\ settings.dry_run
    THEN {IF t \in Previews THEN "preview" ELSE "recorded"}
    ELSE {"none"}

Register(t) ==
    /\ Permitted(t)
    /\ Missing(t) = {}
    /\ \/ \E form \in DryRunForms(t) :
             Records(t, [Undefined EXCEPT !.state = "registered", !.form = form])
       \/ /\ t \in Writes /\ settings.dry_run
          /\ Records(t, [Undefined EXCEPT !.state = "removed"])

--------------------------------------------------------------------------------
(* validate_gating(). *)

UnknownNames ==
    \/ ~(settings.write_areas \subseteq Areas)
    \/ ~(settings.disabled_tools \subseteq Tools)

\* requirement_problems(): nothing defines the sibling, or it came too late.
Stranded_OnlyIfRegistered(t, r) ==
    /\ r \in Tools
    /\ tools[t].state = "needs"
    /\ tools[t].needs = r
    /\ Registered(r) /\ tools[t].known
Stranded(t, r) ==
    \/ r \notin Tools
    \/ /\ tools[t].state = "needs"
       /\ tools[t].needs = r
       /\ Registered(r) \/ ~tools[t].known

RequirementProblems == \E t \in Tools : \E r \in Requires[t] : Stranded(t, r)

Start ==
    /\ up = "starting"
    /\ \A t \in Tools : Defined(t)
    /\ up' = IF UnknownNames \/ RequirementProblems THEN "failed" ELSE "serving"
    /\ UNCHANGED <<settings, tools, effects>>

--------------------------------------------------------------------------------
(* Calls. *)

\* The call is carried out, rather than previewed, recorded or unknown.
Commits(t, dry_run) ==
    /\ up = "serving"
    /\ t \in Writes
    /\ Registered(t)
    /\ tools[t].form = "none"
    /\ ~(t \in Previews /\ dry_run)

\* A call that is carried out may change something, whatever it then answers.
Commit(t) ==
    /\ Commits(t, FALSE)
    /\ effects' = effects \union {t}
    /\ UNCHANGED <<settings, tools, up>>

Startup == Start \/ \E t \in Tools : Gate(t) \/ GateForSibling(t) \/ Register(t)

GatingNext == Startup \/ \E t \in Tools : Commit(t)

GatingSpec == GatingInit /\ [][GatingNext]_gatingVars

--------------------------------------------------------------------------------
(* Properties. *)

\* Once the server has started, a tool is there exactly if the configuration permits
\* it and all it requires is there, whatever the order they were registered in; only
\* a write whose dry-run form could not be installed is missing beside.
RegisteredAsConfigured ==
    up = "serving" =>
        \A t \in Tools :
            Registered(t) <=> /\ Permitted(t)
                              /\ \A r \in Requires[t] : Registered(r)
                              /\ tools[t].state # "removed"

\* In dry-run mode no tool changes anything, playbooks and their siblings included.
DryRunCommitsNothing == settings.dry_run => effects = {}

\* What has changed anything is a write of an area where writes are allowed, and was
\* not disabled.
EffectsGranted ==
    \A t \in effects :
        /\ t \in Writes \ settings.disabled_tools
        /\ settings.enable_writes
        /\ settings.write_areas = {} \/ Area[t] \in settings.write_areas
================================================================================
