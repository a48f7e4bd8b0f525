---------------------------- MODULE DeviceOnboarding ---------------------------
(***************************************************************************)
(* The write tools of src/src/cnc_mcp/tools/devices.py on one device:      *)
(* add, update, delete, and cnc_enable_device_gnmi, the workflow that reads *)
(* the device, sets it admin-down, adds the gNMI transport and capability, *)
(* sets it admin-up again and waits for the transport to come up.          *)
(*                                                                         *)
(* The workflow is a saga: every step is a PATCH of its own, awaited, with *)
(* a settling sleep in between, and other calls and people work on the     *)
(* same device meanwhile.  A PATCH is one step here: what the platform does *)
(* with it and what the tool makes of the answer cannot be told apart,     *)
(* since only this call waits for it.  An answer may be lost after the     *)
(* change was applied, before it, or with the change still under way       *)
(* (late); patch_node() has the client send the same body again then.      *)
(*                                                                         *)
(* A device record keeps of connectivity_info which entries there are, and *)
(* of product_info.capability whether GNMI is in it.  The entry a call adds *)
(* is named by the call: port and encoding are what tells two of them apart. *)
(***************************************************************************)
EXTENDS Naturals, FiniteSets, TLC

CONSTANTS
    Calls,          \* the calls of cnc_enable_device_gnmi
    OldEntries,     \* the other transports the device may have, "ssh" among them
    MaxRetries,     \* settings.max_retries
    MaxPolls,       \* bound: reads wait_until() makes within wait_seconds
    MaxMoves,       \* bound: calls of the other device tools meanwhile
    Moves,          \* which of the other tools are called
    Faults,         \* the kinds of misfortune that may happen
    MaxFaults       \* bound: how many of them happen

FaultKinds == {"reject", "lost", "late", "read", "cancel"}
OtherTools == {"create", "update", "delete"}

ASSUME OnboardingAssumption ==
    /\ MaxRetries \in Nat
    /\ MaxPolls \in Nat
    /\ MaxMoves \in Nat
    /\ MaxFaults \in Nat
    /\ Moves \subseteq OtherTools
    /\ Faults \subseteq FaultKinds
    /\ "ssh" \in OldEntries
    /\ Calls \intersect OldEntries = {}

AdminStates == {"up", "down", "unmanaged"}
Entries == OldEntries \union Calls
Nodes == [life : {"absent", "present", "deleted"}, admin : AdminStates,
          transports : SUBSET Entries, cap : BOOLEAN]

VARIABLES
    node,       \* the device record the platform keeps
    pc,         \* where each call stands
    snap,       \* the record each call read
    steps,      \* what came of each call's PATCHes
    tries,      \* re-sends of the PATCH at hand
    polls,      \* reads of the final wait
    result,     \* what the call reported
    late,       \* PATCH bodies given up as lost that the platform still has to apply
    moves,      \* calls of the other tools so far
    faults,     \* misfortunes so far
    mishaps     \* and of which kinds they were

luck == <<faults, mishaps>>
callVars == <<pc, snap, steps, tries, polls, result>>
vars == <<node, callVars, late, moves, luck>>

Outcomes == {"none", "ok", "rejected", "unanswered"}
StepNames == {"down", "add", "up"}
PCs == StepNames \union {"read", "verify", "done"}
Results == {"none", "already", "refused", "down_rejected", "down_unanswered", "steps_failed",
            "enabled", "reachable", "unverified", "cancelled"}

TypeOK ==
    /\ node \in Nodes
    /\ pc \in [Calls -> PCs]
    /\ snap \in [Calls -> Nodes]
    /\ steps \in [Calls -> [StepNames -> Outcomes]]
    /\ tries \in [Calls -> 0 .. MaxRetries]
    /\ polls \in [Calls -> 0 .. MaxPolls]
    /\ result \in [Calls -> Results]
    /\ moves \in 0 .. MaxMoves
    /\ faults \in 0 .. MaxFaults
    /\ mishaps \subseteq Faults

\* A device in the inventory, with the transports and the capability set
\* independently of each other, or none yet.
Init ==
    /\ node \in {n \in Nodes : /\ n.life \in {"absent", "present"}
                               /\ Cardinality(n.transports \intersect Calls) <= 1
                               /\ n.life = "absent" => n.transports = {} /\ ~n.cap /\ n.admin = "up"}
    /\ pc = [c \in Calls |-> "read"]
    /\ snap = [c \in Calls |-> node]
    /\ steps = [c \in Calls |-> [s \in StepNames |-> "none"]]
    /\ tries = [c \in Calls |-> 0]
    /\ polls = [c \in Calls |-> 0]
    /\ result = [c \in Calls |-> "none"]
    /\ late = {}
    /\ moves = 0
    /\ faults = 0
    /\ mishaps = {}

--------------------------------------------------------------------------------
(* Pieces of the steps. *)

Misfortune(kind) ==
    /\ kind \in Faults
    /\ faults < MaxFaults
    /\ faults' = faults + 1
    /\ mishaps' = mishaps \union {kind}

Report(c, what) ==
    /\ pc' = [pc EXCEPT ![c] = "done"]
    /\ result' = [result EXCEPT ![c] = what]

\* _gnmi_transport(): the entries of a gNMI type.
GnmiOf(n) == n.transports \intersect Calls

\* The admin-state bounce is for a device that was read admin-up.
Bounce_Never(c) == FALSE
Bounce(c) == snap[c].admin = "up"

\* The platform merges a partial body into the record, and refuses a change of the
\* capabilities of an admin-up node.
Accepts(change) ==
    /\ node.life = "present"
    /\ "cap" \in DOMAIN change /\ change.cap # node.cap => node.admin # "up"

Patched(change) ==
    IF "admin" \in DOMAIN change THEN [node EXCEPT !.admin = change.admin]
    ELSE [node EXCEPT !.transports = change.transports, !.cap = change.cap]

\* The bodies the workflow sends: an admin state, or the complete transport list
\* and capability list worked out from the record that was read.
DownBody(c) == [admin |-> "down"]
UpBody_AsItIsNow(c) == [admin |-> node.admin]
UpBody(c) == [admin |-> "up"]
AddBody_IfNotCapable(c) ==
    [transports |-> snap[c].transports \union (IF snap[c].cap THEN {} ELSE {c}), cap |-> TRUE]
AddBody_ReplacesList(c) == [transports |-> {c}, cap |-> TRUE]
AddBody(c) ==
    [transports |-> snap[c].transports \union (IF GnmiOf(snap[c]) = {} THEN {c} ELSE {}),
     cap |-> TRUE]

\* Whether the client may send the body of an unanswered PATCH once more.
Resend(c) == tries[c] < MaxRetries

\* One sending of a PATCH, with what the tool learns of it.
Patch(c, body, outcome) ==
    \/ /\ outcome = "ok"
       /\ Accepts(body)
       /\ node' = Patched(body)
       /\ UNCHANGED <<late, luck>>
    \/ /\ outcome = "rejected"
       /\ \/ ~Accepts(body) /\ UNCHANGED luck
          \/ Misfortune("reject")
       /\ UNCHANGED <<node, late>>
    \/ /\ outcome = "unanswered"
       /\ \/ /\ Misfortune("lost")
             /\ \/ UNCHANGED node
                \/ Accepts(body) /\ node' = Patched(body)
             /\ UNCHANGED late
          \/ /\ Misfortune("late")
             /\ late' = late \union {body}
             /\ UNCHANGED node

\* The step ends with the outcome, and the call goes on to the next or reports.
StepDone(c, step, outcome, next) ==
    /\ steps' = [steps EXCEPT ![c][step] = outcome]
    /\ tries' = [tries EXCEPT ![c] = 0]
    /\ \/ next \in PCs \ {"done"} /\ pc' = [pc EXCEPT ![c] = next] /\ UNCHANGED result
       \/ next \in Results /\ Report(c, next)

\* A PATCH step: sent, answered or sent again, until it has an outcome.  Where no
\* job envelope comes back the outcome is "unanswered" when the attempts are used
\* up, and at once when the answer is an error (a 4xx, a 500, no JSON) that the
\* client does not retry.
PatchStep(c, step, body, Next_(_)) ==
    /\ pc[c] = step
    /\ \E outcome \in Outcomes \ {"none"} :
          /\ Patch(c, body, outcome)
          /\ \/ /\ outcome = "unanswered"
                /\ Resend(c)
                /\ tries' = [tries EXCEPT ![c] = @ + 1]
                /\ UNCHANGED <<pc, steps, result>>
             \/ StepDone(c, step, outcome, Next_(outcome))
    /\ UNCHANGED <<snap, polls, moves>>

--------------------------------------------------------------------------------
(* cnc_enable_device_gnmi. *)

\* The device is read and everything that can be refused is refused before the
\* first write: a device already done, unmanaged, or with no address to copy.
Read(c) ==
    /\ pc[c] = "read"
    /\ snap' = [snap EXCEPT ![c] = node]
    /\ \/ /\ node.life # "present" /\ UNCHANGED luck
          /\ Report(c, "refused")
       \/ /\ Misfortune("read")
          /\ Report(c, "refused")
       \/ /\ node.life = "present" /\ GnmiOf(node) # {} /\ node.cap /\ UNCHANGED luck
          /\ Report(c, "already")
       \/ /\ node.life = "present" /\ ~(GnmiOf(node) # {} /\ node.cap) /\ UNCHANGED luck
          /\ \/ /\ node.admin = "unmanaged" \/ node.transports = {}
                /\ Report(c, "refused")
             \/ /\ node.admin # "unmanaged" /\ node.transports # {}
                /\ pc' = [pc EXCEPT ![c] = IF Bounce(c)' THEN "down" ELSE "add"]
                /\ UNCHANGED result
    /\ UNCHANGED <<node, steps, tries, polls, late, moves>>

AfterDown(outcome) ==
    CASE outcome = "ok" -> "add"
      [] outcome = "rejected" -> "down_rejected"
      [] outcome = "unanswered" -> "down_unanswered"

SetAdminDown(c) == PatchStep(c, "down", DownBody(c), AfterDown)

\* Whatever became of the transport, a device that was bounced is set admin-up.
AfterAdd_RaisesAtOnce(c, outcome) ==
    CASE outcome # "ok" -> "steps_failed"
      [] OTHER -> IF Bounce(c) THEN "up" ELSE "verify"
AfterAdd(c, outcome) ==
    CASE Bounce(c) -> "up"
      [] ~Bounce(c) /\ outcome = "ok" -> "verify"
      [] OTHER -> "steps_failed"

AddGnmi(c) == LET After(outcome) == AfterAdd(c, outcome)
              IN  PatchStep(c, "add", AddBody(c), After)

AfterUp(c, outcome) ==
    IF outcome = "ok" /\ steps[c].add = "ok" THEN "verify" ELSE "steps_failed"

SetAdminUp(c) == LET After(outcome) == AfterUp(c, outcome)
                 IN  PatchStep(c, "up", UpBody(c), After)

\* One read of the final wait: the transport is up, there is time for another
\* read, time is up (not an error), or the read fails.
Verify(c) ==
    /\ pc[c] = "verify"
    /\ \/ /\ node.life = "present" /\ node.admin = "up" /\ GnmiOf(node) # {}
          /\ Report(c, "reachable")
          /\ UNCHANGED <<polls, luck>>
       \/ /\ node.life = "present"
          /\ Bounce(c) /\ polls[c] < MaxPolls
          /\ polls' = [polls EXCEPT ![c] = @ + 1]
          /\ UNCHANGED <<pc, result, luck>>
       \/ /\ node.life = "present"
          /\ ~Bounce(c) \/ polls[c] = MaxPolls
          /\ Report(c, "enabled")
          /\ UNCHANGED <<polls, luck>>
       \/ /\ Misfortune("read") \/ (node.life # "present" /\ UNCHANGED luck)
          /\ Report(c, "unverified")
          /\ UNCHANGED polls
    /\ UNCHANGED <<node, snap, steps, tries, late, moves>>

\* The call is cancelled at an await: no except clause of the tool catches that.
\* The PATCH under way may still be carried out.
Cancel(c) ==
    /\ pc[c] # "done"
    /\ Misfortune("cancel")
    /\ Report(c, "cancelled")
    /\ \/ UNCHANGED node
       \/ \E body \in {DownBody(c), AddBody(c), UpBody(c)} :
             /\ body = CASE pc[c] = "down" -> DownBody(c) [] pc[c] = "add" -> AddBody(c)
                         [] pc[c] = "up" -> UpBody(c) [] OTHER -> <<>>
             /\ Accepts(body)
             /\ node' = Patched(body)
    /\ UNCHANGED <<snap, steps, tries, polls, late, moves>>

--------------------------------------------------------------------------------
(* The other tools, and the platform. *)

Move(tool) ==
    /\ tool \in Moves
    /\ moves < MaxMoves
    /\ moves' = moves + 1
    /\ UNCHANGED <<callVars, late, luck>>

\* cnc_create_device: the POST is not re-sent.
CreateDevice(admin, cap) ==
    /\ Move("create")
    /\ node.life = "absent"
    /\ node' = [life |-> "present", admin |-> admin, transports |-> {"ssh"}, cap |-> cap]

\* cnc_update_device with an admin state.
UpdateDevice(admin) ==
    /\ Move("update")
    /\ node.life = "present"
    /\ node' = [node EXCEPT !.admin = admin]

\* cnc_delete_device: the uuid is gone for good.
DeleteDevice ==
    /\ Move("delete")
    /\ node.life = "present"
    /\ node' = [node EXCEPT !.life = "deleted"]

\* A PATCH the tool has given up waiting for is applied after all.
LateApplied(body) ==
    /\ body \in late
    /\ late' = late \ {body}
    /\ node' = IF Accepts(body) THEN Patched(body) ELSE node
    /\ UNCHANGED <<callVars, moves, luck>>

Step(c) == Read(c) \/ SetAdminDown(c) \/ AddGnmi(c) \/ SetAdminUp(c) \/ Verify(c)

Next ==
    \/ \E c \in Calls : Step(c) \/ Cancel(c)
    \/ \E admin \in AdminStates, cap \in BOOLEAN : CreateDevice(admin, cap)
    \/ \E admin \in AdminStates : UpdateDevice(admin)
    \/ DeleteDevice
    \/ \E body \in late : LateApplied(body)

Spec == Init /\ [][Next]_vars

\* The event loop resumes the workflow after every answer, timeout and sleep.
FairSpec == Spec /\ \A c \in Calls : WF_vars(Step(c))

--------------------------------------------------------------------------------
(* Properties. *)

AllDone == \A c \in Calls : pc[c] = "done"
Bounced(c) == steps[c].down = "ok"

\* However the windows of several calls overlap, once all have returned the device
\* is in the admin state it was read in, provided each call that was told its
\* admin-down PATCH was applied was told so of its admin-up PATCH, and none was told
\* nothing certain of the first; and nobody else set it, no call was cancelled and no
\* PATCH was applied late.
AdminStateRestored ==
    /\ AllDone
    /\ moves = 0
    /\ mishaps \subseteq {"reject", "lost", "read"}
    /\ \E c \in Calls : Bounced(c)
    /\ \A c \in Calls : Bounced(c) => steps[c].up = "ok"
    /\ \A c \in Calls : steps[c].down \in {"none", "ok"}
    => node.admin = "up"

\* A transport the device had is still there: "the existing entries verbatim".
TransportsKept ==
    [][node.life = "present" =>
         node.transports \intersect OldEntries \subseteq node'.transports]_vars

\* A call that reports success left gNMI on the device, whoever else was at work.
SuccessMeansGnmi ==
    \A c \in Calls :
      result[c] \in {"enabled", "reachable", "unverified", "already"} => node.cap /\ GnmiOf(node) # {}

\* The tool never runs into the ordering rule it is there to keep: unless other calls
\* are at work on the device, its transport step is not refused for the device being
\* admin-up.
OrderingRuleKept ==
    \A c \in Calls :
      /\ \A other \in Calls \ {c} : pc[other] = "read"
      /\ moves = 0
      /\ faults = 0
      => steps[c].add # "rejected"

\* The admin-up step follows the admin-down step, even when the step between fails,
\* unless the call is cancelled.
UpFollowsDown ==
    \A c \in Calls : Bounced(c) ~> steps[c].up # "none" \/ result[c] = "cancelled"
================================================================================
