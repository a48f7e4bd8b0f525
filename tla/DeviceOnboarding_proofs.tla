------------------------- MODULE DeviceOnboarding_proofs -------------------------
(***************************************************************************)
(* What the gNMI workflow leaves behind, for any calls, transports, numbers *)
(* of re-sends, misfortunes and calls of the other tools: the transports    *)
(* (Inv), the admin state (Progress, Ruled, Raised), and that every call    *)
(* gets through its steps and raises what it has taken down.                *)
(***************************************************************************)
EXTENDS DeviceOnboarding, TLAPS

USE OnboardingAssumption DEF OnboardingAssumption

Has(n) == n.cap /\ GnmiOf(n) # {}
Old(n) == n.transports \intersect OldEntries

\* What a call can send: a transport list always names a gNMI entry.
AdminBodies == {[admin |-> "down"], [admin |-> "up"]}
GnmiLists == {T \in SUBSET Entries : T \intersect Calls # {}}
AddBodies == {[transports |-> list, cap |-> TRUE] : list \in GnmiLists}

\* A body worked out from a record that had the other transports of this one.
Proper(b) ==
    \/ b \in AdminBodies
    \/ b \in AddBodies /\ b.transports \intersect OldEntries = Old(node)

Successes == {"enabled", "reachable", "unverified", "already"}
Working == {"down", "add", "up", "verify"}
Failures == {"refused", "down_rejected", "down_unanswered", "steps_failed", "cancelled"}
Onwards == {"down", "add", "up"} \union Failures

--------------------------------------------------------------------------------
(* The inductive invariant: a record that was read once the device was there has *)
(* the transports it still has, and what was found or done about gNMI stays.     *)

EmptyBefore == node.life = "absent" => node.transports = {}
SnapsCurrent ==
    \A c \in Calls : pc[c] \in Working => node.life # "absent" /\ Old(snap[c]) = Old(node)
LateProper == \A b \in late : node.life # "absent" /\ Proper(b)
VerifiedAdded == \A c \in Calls : pc[c] = "verify" => steps[c].add = "ok"
AddedStays ==
    \A c \in Calls : steps[c].add = "ok" \/ result[c] \in Successes => Has(node)

Inv ==
    /\ TypeOK
    /\ EmptyBefore
    /\ SnapsCurrent
    /\ LateProper
    /\ VerifiedAdded
    /\ AddedStays

\* What every step but the creation of the device does to it.
Steady ==
    /\ node' \in Nodes
    /\ node'.life = "absent" <=> node.life = "absent"
    /\ Old(node') = Old(node)
    /\ Has(node) => Has(node')
    /\ EmptyBefore'

--------------------------------------------------------------------------------
(* Bodies and what they make of the record. *)

LEMMA AddIsProper ==
    ASSUME Inv, NEW c \in Calls, pc[c] \in Working
    PROVE  Proper(AddBody(c)) /\ AddBody(c) \in AddBodies
<1>1. snap[c].transports \in SUBSET Entries
  BY DEF Inv, TypeOK, Nodes
<1>2. PICK L : L = snap[c].transports \union (IF GnmiOf(snap[c]) = {} THEN {c} ELSE {})
  OBVIOUS
<1>3. L \in GnmiLists
  BY <1>1, <1>2 DEF Entries, GnmiOf, GnmiLists
<1>4. AddBody(c) = [transports |-> L, cap |-> TRUE]
  BY <1>2 DEF AddBody
<1>5. AddBody(c) \in AddBodies
  BY <1>3, <1>4 DEF AddBodies
<1>6. AddBody(c).transports \intersect OldEntries = Old(snap[c])
  BY <1>2, <1>4 DEF Old
<1>7. Old(snap[c]) = Old(node)
  BY DEF Inv, SnapsCurrent
<1>. QED  BY <1>5, <1>6, <1>7 DEF Proper

LEMMA Applied ==
    ASSUME node \in Nodes, node.life = "present", NEW b, Proper(b)
    PROVE  /\ Patched(b) \in Nodes
           /\ Patched(b).life = node.life
           /\ Old(Patched(b)) = Old(node)
           /\ Has(node) => Has(Patched(b))
           /\ b \in AddBodies => Has(Patched(b))
<1>1. CASE b \in AdminBodies
  <2>1. PICK a \in AdminStates : b = [admin |-> a]
    BY <1>1 DEF AdminBodies, AdminStates
  <2>2. Patched(b) = [node EXCEPT !.admin = a]
    BY <2>1 DEF Patched
  <2>3. b \notin AddBodies
    <3>1. "cap" \notin DOMAIN b
      BY <2>1
    <3>2. \A x \in AddBodies : "cap" \in DOMAIN x
      BY DEF AddBodies
    <3>. QED  BY <3>1, <3>2
  <2>4. Patched(b) \in Nodes
    BY <2>2 DEF Nodes
  <2>5. /\ Patched(b).life = node.life
        /\ Patched(b).transports = node.transports
        /\ Patched(b).cap = node.cap
    BY <2>2 DEF Nodes
  <2>. QED  BY <2>3, <2>4, <2>5 DEF Old, Has, GnmiOf
<1>2. CASE b \in AddBodies /\ b.transports \intersect OldEntries = Old(node)
  <2>1. PICK T \in SUBSET Entries : T \intersect Calls # {} /\ b = [transports |-> T, cap |-> TRUE]
    BY <1>2 DEF AddBodies, GnmiLists
  <2>2. Patched(b) = [node EXCEPT !.transports = T, !.cap = TRUE]
    BY <2>1 DEF Patched
  <2>3. Patched(b) \in Nodes
    BY <2>1, <2>2 DEF Nodes
  <2>4. /\ Patched(b).life = node.life
        /\ Patched(b).transports = T
        /\ Patched(b).cap = TRUE
    BY <2>2 DEF Nodes
  <2>. QED  BY <1>2, <2>1, <2>3, <2>4 DEF Old, Has, GnmiOf
<1>. QED  BY <1>1, <1>2 DEF Proper

LEMMA SteadyWhenSame ==
    ASSUME Inv, node' = node
    PROVE  Steady
BY DEF Inv, TypeOK, Steady, Has, Old, GnmiOf, EmptyBefore

LEMMA SteadyWhenPatched ==
    ASSUME Inv, NEW b, Proper(b), Accepts(b), node' = Patched(b)
    PROVE  Steady /\ (b \in AddBodies => Has(node'))
<1>1. node \in Nodes /\ node.life = "present"
  BY DEF Inv, TypeOK, Accepts
<1>2. /\ node' \in Nodes
      /\ node'.life = "present"
      /\ Old(node') = Old(node)
      /\ Has(node) => Has(node')
      /\ b \in AddBodies => Has(node')
  BY <1>1, Applied
<1>. QED  BY <1>1, <1>2 DEF Steady, EmptyBefore

\* The parts of the invariant about a body and a record read earlier survive a
\* steady step that adds nothing to them.
LEMMA ProperStays ==
    ASSUME Inv, Steady, NEW b, Proper(b)
    PROVE  Proper(b)'
BY DEF Steady, Proper, Old

LEMMA DownIsProper ==
    ASSUME NEW c \in Calls
    PROVE  Proper(DownBody(c))
BY DEF Proper, AdminBodies, DownBody

LEMMA UpIsProper ==
    ASSUME NEW c \in Calls
    PROVE  Proper(UpBody(c))
BY DEF Proper, AdminBodies, UpBody

\* One sending of a body, whatever is learnt of it.
LEMMA Sending ==
    ASSUME Inv, node.life # "absent", NEW c \in Calls, NEW b, Proper(b),
           NEW outcome, Patch(c, b, outcome)
    PROVE  /\ Steady
           /\ LateProper'
           /\ outcome = "ok" /\ b \in AddBodies => Has(node')
           /\ faults' \in 0 .. MaxFaults /\ mishaps' \subseteq Faults
<1>1. faults' \in 0 .. MaxFaults /\ mishaps' \subseteq Faults
  BY DEF Inv, TypeOK, Patch, Misfortune, luck
<1>2. Steady /\ (outcome = "ok" /\ b \in AddBodies => Has(node'))
  BY SteadyWhenSame, SteadyWhenPatched DEF Patch, Misfortune
<1>3. late' \subseteq late \union {b}
  BY DEF Patch
<1>4. \A x \in late' : Proper(x)
  BY <1>3 DEF Inv, LateProper
<1>5. LateProper'
  BY <1>2, <1>4, ProperStays DEF LateProper, Steady
<1>. QED  BY <1>1, <1>2, <1>5

--------------------------------------------------------------------------------
(* The invariant, action by action. *)

\* What a steady step leaves to show of the invariant.
LEMMA CallsStay ==
    ASSUME Inv, Steady, UNCHANGED <<pc, snap, steps, result>>
    PROVE  SnapsCurrent' /\ VerifiedAdded' /\ AddedStays'
BY DEF Inv, Steady, SnapsCurrent, VerifiedAdded, AddedStays

LEMMA LateStays ==
    ASSUME Inv, Steady, late' \subseteq late
    PROVE  LateProper'
BY ProperStays DEF Inv, Steady, LateProper

\* The end of a PATCH step: the call goes on to a step of the workflow that is
\* open to it, or reports.
LEMMA StepEnds ==
    ASSUME Inv, Steady, LateProper', NEW c \in Calls, pc[c] \in Working,
           NEW step \in StepNames, NEW outcome \in Outcomes, NEW next,
           StepDone(c, step, outcome, next),
           step = "add" /\ outcome = "ok" => Has(node'),
           next \in Onwards \/ (next = "verify" /\ (steps'[c]).add = "ok"),
           UNCHANGED <<snap, polls, moves>>,
           faults' \in 0 .. MaxFaults, mishaps' \subseteq Faults
    PROVE  Inv'
<1>1. /\ node' \in Nodes
      /\ snap' \in [Calls -> Nodes]
      /\ steps' \in [Calls -> [StepNames -> Outcomes]]
      /\ tries' \in [Calls -> 0 .. MaxRetries]
      /\ polls' \in [Calls -> 0 .. MaxPolls]
      /\ moves' \in 0 .. MaxMoves
  BY DEF Inv, TypeOK, StepDone, Steady
<1>2. pc' \in [Calls -> PCs] /\ result' \in [Calls -> Results]
  BY DEF Inv, TypeOK, StepDone, Report, PCs, StepNames, Onwards, Failures, Results
<1>3. TypeOK'
  BY <1>1, <1>2 DEF TypeOK
<1>4. SnapsCurrent'
  <2>1. \A d \in Calls : pc'[d] \in Working => pc[d] \in Working
    BY DEF Inv, TypeOK, StepDone, Report
  <2>. QED  BY <2>1 DEF Inv, SnapsCurrent, Steady
<1>5. VerifiedAdded'
  BY DEF Inv, TypeOK, VerifiedAdded, StepDone, Report, Successes, Working, Results, Onwards, Failures, StepNames
<1>6. AddedStays'
  <2>1. \A d \in Calls : (steps'[d]).add = "ok" => steps[d].add = "ok" \/ (step = "add" /\ outcome = "ok")
    BY DEF Inv, TypeOK, StepDone, StepNames
  <2>2. \A d \in Calls : result'[d] \in Successes => result[d] \in Successes
    BY DEF Inv, TypeOK, StepDone, Report, Successes, Working, Results, Onwards, Failures
  <2>. QED  BY <2>1, <2>2 DEF Inv, AddedStays, Steady
<1>. QED  BY <1>3, <1>4, <1>5, <1>6 DEF Inv, Steady

\* The body of an unanswered PATCH is sent once more.
LEMMA SentAgain ==
    ASSUME Inv, Steady, LateProper', NEW c \in Calls, Resend(c),
           tries' = [tries EXCEPT ![c] = @ + 1],
           UNCHANGED <<pc, snap, steps, result, polls, moves>>,
           faults' \in 0 .. MaxFaults, mishaps' \subseteq Faults
    PROVE  Inv'
<1>1. tries' \in [Calls -> 0 .. MaxRetries]
  BY DEF Inv, TypeOK, Resend
<1>2. TypeOK'
  BY <1>1 DEF Inv, TypeOK, Steady
<1>. QED  BY <1>2, CallsStay DEF Inv, Steady

LEMMA ReadKeeps ==
    ASSUME Inv, NEW c \in Calls, Read(c)
    PROVE  Inv'
<1>1. Steady
  BY SteadyWhenSame DEF Read
<1>2. snap' = [snap EXCEPT ![c] = node] /\ pc[c] = "read"
  BY DEF Read
<1>3. /\ \A d \in Calls : d # c => pc'[d] = pc[d] /\ result'[d] = result[d]
      /\ pc' \in [Calls -> PCs] /\ result' \in [Calls -> Results]
      /\ pc'[c] \in Working => node.life = "present"
      /\ pc'[c] # "verify"
      /\ result'[c] \in Successes => result[c] \in Successes \/ Has(node)
  BY DEF Read, Inv, TypeOK, Report, Has, Successes, Working, PCs, StepNames, Results
<1>4. TypeOK'
  <2>1. faults' \in 0 .. MaxFaults /\ mishaps' \subseteq Faults
    BY DEF Inv, TypeOK, Read, Misfortune, luck
  <2>2. snap' \in [Calls -> Nodes]
    BY <1>2 DEF Inv, TypeOK
  <2>3. UNCHANGED <<steps, tries, polls, moves>>
    BY DEF Read
  <2>. QED  BY <1>1, <1>3, <2>1, <2>2, <2>3 DEF Inv, TypeOK, Steady
<1>5. SnapsCurrent'
  BY <1>1, <1>2, <1>3 DEF Inv, TypeOK, SnapsCurrent, Steady
<1>6. VerifiedAdded' /\ AddedStays'
  BY <1>1, <1>2, <1>3 DEF Inv, VerifiedAdded, AddedStays, Steady, Read
<1>7. LateProper'
  BY <1>1, LateStays DEF Read
<1>. QED  BY <1>1, <1>4, <1>5, <1>6, <1>7 DEF Inv, Steady

LEMMA DownKeeps ==
    ASSUME Inv, NEW c \in Calls, SetAdminDown(c)
    PROVE  Inv'
<1>1. PICK outcome \in Outcomes \ {"none"} :
         /\ Patch(c, DownBody(c), outcome)
         /\ \/ /\ Resend(c)
               /\ tries' = [tries EXCEPT ![c] = @ + 1]
               /\ UNCHANGED <<pc, steps, result>>
            \/ StepDone(c, "down", outcome, AfterDown(outcome))
  BY DEF SetAdminDown, PatchStep
<1>2. pc[c] \in Working /\ UNCHANGED <<snap, polls, moves>>
  BY DEF SetAdminDown, PatchStep, Working
<1>3. node.life # "absent"
  BY <1>2 DEF Inv, SnapsCurrent
<1>4. Steady /\ LateProper' /\ faults' \in 0 .. MaxFaults /\ mishaps' \subseteq Faults
  BY <1>1, <1>3, Sending, DownIsProper
<1>5. AfterDown(outcome) \in Onwards
  BY <1>1 DEF AfterDown, Onwards, Failures, Outcomes
<1>6. CASE StepDone(c, "down", outcome, AfterDown(outcome))
  <2>1. outcome \in Outcomes /\ "down" \in StepNames /\ "down" # "add"
    BY <1>1 DEF StepNames
  <2>. QED  BY <1>2, <1>4, <1>5, <1>6, <2>1, StepEnds
<1>. QED  BY <1>1, <1>2, <1>4, <1>6, SentAgain

LEMMA AddKeeps ==
    ASSUME Inv, NEW c \in Calls, AddGnmi(c)
    PROVE  Inv'
<1>1. PICK outcome \in Outcomes \ {"none"} :
         /\ Patch(c, AddBody(c), outcome)
         /\ \/ /\ Resend(c)
               /\ tries' = [tries EXCEPT ![c] = @ + 1]
               /\ UNCHANGED <<pc, steps, result>>
            \/ StepDone(c, "add", outcome, AfterAdd(c, outcome))
  BY DEF AddGnmi, PatchStep
<1>2. pc[c] \in Working /\ UNCHANGED <<snap, polls, moves>>
  BY DEF AddGnmi, PatchStep, Working
<1>3. node.life # "absent"
  BY <1>2 DEF Inv, SnapsCurrent
<1>4. /\ Steady /\ LateProper' /\ faults' \in 0 .. MaxFaults /\ mishaps' \subseteq Faults
      /\ outcome = "ok" => Has(node')
  BY <1>1, <1>2, <1>3, Sending, AddIsProper
<1>5. CASE StepDone(c, "add", outcome, AfterAdd(c, outcome))
  <2>1. (steps'[c]).add = outcome
    BY <1>5 DEF Inv, TypeOK, StepDone, StepNames
  <2>2. \/ AfterAdd(c, outcome) \in Onwards
        \/ AfterAdd(c, outcome) = "verify" /\ outcome = "ok"
    BY DEF AfterAdd, Onwards, Failures, Bounce
  <2>3. outcome \in Outcomes /\ "add" \in StepNames /\ "up" \in StepNames /\ "up" # "add"
    BY <1>1 DEF StepNames
  <2>. QED  BY <1>2, <1>4, <1>5, <2>1, <2>2, <2>3, StepEnds
<1>. QED  BY <1>1, <1>2, <1>4, <1>5, SentAgain

LEMMA UpKeeps ==
    ASSUME Inv, NEW c \in Calls, SetAdminUp(c)
    PROVE  Inv'
<1>1. PICK outcome \in Outcomes \ {"none"} :
         /\ Patch(c, UpBody(c), outcome)
         /\ \/ /\ Resend(c)
               /\ tries' = [tries EXCEPT ![c] = @ + 1]
               /\ UNCHANGED <<pc, steps, result>>
            \/ StepDone(c, "up", outcome, AfterUp(c, outcome))
  BY DEF SetAdminUp, PatchStep
<1>2. pc[c] \in Working /\ UNCHANGED <<snap, polls, moves>>
  BY DEF SetAdminUp, PatchStep, Working
<1>3. node.life # "absent"
  BY <1>2 DEF Inv, SnapsCurrent
<1>4. Steady /\ LateProper' /\ faults' \in 0 .. MaxFaults /\ mishaps' \subseteq Faults
  BY <1>1, <1>3, Sending, UpIsProper
<1>5. CASE StepDone(c, "up", outcome, AfterUp(c, outcome))
  <2>1. (steps'[c]).add = steps[c].add
    BY <1>5 DEF Inv, TypeOK, StepDone, StepNames
  <2>2. \/ AfterUp(c, outcome) \in Onwards
        \/ AfterUp(c, outcome) = "verify" /\ steps[c].add = "ok"
    BY DEF AfterUp, Onwards, Failures
  <2>3. outcome \in Outcomes /\ "add" \in StepNames /\ "up" \in StepNames /\ "up" # "add"
    BY <1>1 DEF StepNames
  <2>. QED  BY <1>2, <1>4, <1>5, <2>1, <2>2, <2>3, StepEnds
<1>. QED  BY <1>1, <1>2, <1>4, <1>5, SentAgain

LEMMA VerifyKeeps ==
    ASSUME Inv, NEW c \in Calls, Verify(c)
    PROVE  Inv'
<1>1. Steady /\ pc[c] = "verify" /\ UNCHANGED <<node, snap, steps, tries, late, moves>>
  BY SteadyWhenSame DEF Verify
<1>2. Has(node)
  BY <1>1 DEF Inv, VerifiedAdded, AddedStays
<1>3. TypeOK'
  <2>1. pc' \in [Calls -> PCs] /\ result' \in [Calls -> Results]
    BY DEF Inv, TypeOK, Verify, Report, PCs, Results
  <2>2. polls' \in [Calls -> 0 .. MaxPolls]
    BY DEF Inv, TypeOK, Verify
  <2>3. faults' \in 0 .. MaxFaults /\ mishaps' \subseteq Faults
    BY DEF Inv, TypeOK, Verify, Misfortune, luck
  <2>. QED  BY <1>1, <2>1, <2>2, <2>3 DEF Inv, TypeOK
<1>4. \A d \in Calls : pc'[d] \in Working => pc'[d] = pc[d]
  BY DEF Inv, TypeOK, Verify, Report, Working
<1>5. SnapsCurrent' /\ VerifiedAdded'
  BY <1>1, <1>4 DEF Inv, SnapsCurrent, VerifiedAdded, Working
<1>6. AddedStays'
  BY <1>1, <1>2 DEF AddedStays, Has, GnmiOf
<1>7. LateProper'
  BY <1>1, LateStays
<1>. QED  BY <1>1, <1>3, <1>5, <1>6, <1>7 DEF Inv, Steady

\* A cancelled call leaves its PATCH applied or not.
LEMMA CancelSteady ==
    ASSUME Inv, NEW c \in Calls, Cancel(c)
    PROVE  Steady
<1>1. CASE UNCHANGED node
  BY <1>1, SteadyWhenSame
<1>2. CASE ~UNCHANGED node
  <2>1. PICK body :
           /\ body = CASE pc[c] = "down" -> DownBody(c) [] pc[c] = "add" -> AddBody(c)
                       [] pc[c] = "up" -> UpBody(c) [] OTHER -> <<>>
           /\ body \in {DownBody(c), AddBody(c), UpBody(c)}
           /\ Accepts(body)
           /\ node' = Patched(body)
    BY <1>2 DEF Cancel
  <2>2. CASE pc[c] \in {"down", "add", "up"}
    BY <2>1, <2>2, DownIsProper, UpIsProper, AddIsProper, SteadyWhenPatched DEF Working
  <2>3. CASE pc[c] \notin {"down", "add", "up"}
    <3>1. body = <<>> /\ 1 \notin DOMAIN body /\ body \in {DownBody(c), AddBody(c), UpBody(c)}
      BY <2>1, <2>3
    <3>2. "admin" \in DOMAIN body \/ "cap" \in DOMAIN body
      BY <3>1 DEF DownBody, AddBody, UpBody
    <3>. QED  BY <3>1, <3>2
  <2>. QED  BY <2>2, <2>3
<1>. QED  BY <1>1, <1>2

LEMMA CancelKeeps ==
    ASSUME Inv, NEW c \in Calls, Cancel(c)
    PROVE  Inv'
<1>1. /\ Misfortune("cancel") /\ Report(c, "cancelled")
      /\ UNCHANGED <<snap, steps, tries, polls, late, moves>>
  BY DEF Cancel
<1>2. Steady
  BY CancelSteady
<1>3. TypeOK'
  BY <1>1, <1>2 DEF Inv, TypeOK, Steady, Misfortune, Report, PCs, Results
<1>4. \A d \in Calls : pc'[d] \in Working => pc'[d] = pc[d]
  BY <1>1 DEF Inv, TypeOK, Report, Working
<1>5. \A d \in Calls : result'[d] \in Successes => result'[d] = result[d]
  BY <1>1 DEF Inv, TypeOK, Report, Successes
<1>6. SnapsCurrent' /\ VerifiedAdded' /\ AddedStays'
  BY <1>1, <1>2, <1>4, <1>5 DEF Inv, SnapsCurrent, VerifiedAdded, AddedStays, Steady, Working
<1>7. LateProper'
  BY <1>1, <1>2, LateStays
<1>. QED  BY <1>2, <1>3, <1>6, <1>7 DEF Inv, Steady

LEMMA OthersSteady ==
    ASSUME Inv,
           \/ \E admin \in AdminStates : UpdateDevice(admin)
           \/ DeleteDevice
           \/ \E body \in late : LateApplied(body)
    PROVE  Steady
<1>1. ASSUME NEW admin \in AdminStates, UpdateDevice(admin)
      PROVE  Steady
  BY <1>1 DEF UpdateDevice, Inv, TypeOK, Nodes, Steady, Has, Old, GnmiOf, EmptyBefore
<1>2. ASSUME DeleteDevice
      PROVE  Steady
  BY <1>2 DEF DeleteDevice, Inv, TypeOK, Nodes, Steady, Has, Old, GnmiOf, EmptyBefore
<1>3. ASSUME NEW body \in late, LateApplied(body)
      PROVE  Steady
  BY <1>3, SteadyWhenSame, SteadyWhenPatched DEF LateApplied, Inv, LateProper
<1>. QED  BY <1>1, <1>2, <1>3

LEMMA OthersKeep ==
    ASSUME Inv,
           \/ \E admin \in AdminStates : UpdateDevice(admin)
           \/ DeleteDevice
           \/ \E body \in late : LateApplied(body)
    PROVE  Inv'
<1>1. UNCHANGED callVars /\ UNCHANGED luck /\ late' \subseteq late /\ moves' \in 0 .. MaxMoves
  BY DEF Inv, TypeOK, UpdateDevice, DeleteDevice, LateApplied, Move
<1>2. Steady
  BY OthersSteady
<1>3. TypeOK'
  BY <1>1, <1>2 DEF Inv, TypeOK, Steady, callVars, luck
<1>. QED  BY <1>1, <1>2, <1>3, CallsStay, LateStays DEF Inv, Steady, callVars

LEMMA CreateKeeps ==
    ASSUME Inv, NEW admin \in AdminStates, NEW cap \in BOOLEAN, CreateDevice(admin, cap)
    PROVE  Inv'
<1>1. /\ node.life = "absent" /\ UNCHANGED callVars /\ UNCHANGED <<late, luck>>
      /\ moves' \in 0 .. MaxMoves
      /\ node' = [life |-> "present", admin |-> admin, transports |-> {"ssh"}, cap |-> cap]
  BY DEF Inv, TypeOK, CreateDevice, Move
<1>2. node' \in Nodes
  BY <1>1 DEF Nodes, Entries
<1>3. ~Has(node)
  BY <1>1 DEF Inv, EmptyBefore, Has, GnmiOf
<1>4. /\ late = {}
      /\ \A c \in Calls : /\ pc[c] \notin Working
                          /\ steps[c].add # "ok" /\ result[c] \notin Successes
  BY <1>1, <1>3 DEF Inv, LateProper, SnapsCurrent, AddedStays
<1>5. TypeOK'
  BY <1>1, <1>2 DEF Inv, TypeOK, callVars, luck
<1>. QED  BY <1>1, <1>4, <1>5
       DEF Inv, EmptyBefore, SnapsCurrent, LateProper, VerifiedAdded, AddedStays, callVars

--------------------------------------------------------------------------------
(* The theorems. *)

LEMMA Initially == Init => Inv
<1>. SUFFICES ASSUME Init PROVE Inv
  OBVIOUS
<1>1. node \in Nodes /\ EmptyBefore
  BY DEF Init, EmptyBefore
<1>2. TypeOK
  BY <1>1 DEF Init, TypeOK, PCs, StepNames, Outcomes, Results
<1>3. /\ late = {}
      /\ \A c \in Calls : pc[c] = "read" /\ steps[c].add = "none" /\ result[c] = "none"
  BY DEF Init, StepNames
<1>. QED  BY <1>1, <1>2, <1>3
       DEF Inv, SnapsCurrent, LateProper, VerifiedAdded, AddedStays, Working, Successes

LEMMA Inductive == Inv /\ [Next]_vars => Inv'
<1>. SUFFICES ASSUME Inv, [Next]_vars PROVE Inv'
  OBVIOUS
<1>1. ASSUME NEW c \in Calls, Step(c) \/ Cancel(c)
      PROVE  Inv'
  BY <1>1, ReadKeeps, DownKeeps, AddKeeps, UpKeeps, VerifyKeeps, CancelKeeps DEF Step
<1>2. CASE UNCHANGED vars
  BY <1>2 DEF vars, callVars, luck, Inv, TypeOK, EmptyBefore, SnapsCurrent, LateProper,
         VerifiedAdded, AddedStays, Proper, Old, Has, GnmiOf
<1>. QED  BY <1>1, <1>2, CreateKeeps, OthersKeep DEF Next

\* Once there is a device, every step does no more to it than Steady says.
LEMMA AlwaysSteady ==
    ASSUME Inv, Next, node.life # "absent"
    PROVE  Steady
<1>1. ASSUME NEW c \in Calls, SetAdminDown(c) PROVE Steady
  BY <1>1, Sending, DownIsProper DEF SetAdminDown, PatchStep
<1>2. ASSUME NEW c \in Calls, AddGnmi(c) PROVE Steady
  BY <1>2, Sending, AddIsProper DEF AddGnmi, PatchStep, Working
<1>3. ASSUME NEW c \in Calls, SetAdminUp(c) PROVE Steady
  BY <1>3, Sending, UpIsProper DEF SetAdminUp, PatchStep
<1>4. ASSUME NEW c \in Calls, Read(c) \/ Verify(c) PROVE Steady
  BY <1>4, SteadyWhenSame DEF Read, Verify
<1>5. ~\E admin \in AdminStates, cap \in BOOLEAN : CreateDevice(admin, cap)
  BY DEF CreateDevice
<1>. QED  BY <1>1, <1>2, <1>3, <1>4, <1>5, CancelSteady, OthersSteady DEF Next, Step

LEMMA Invariance == Spec => []Inv
BY Initially, Inductive, PTL DEF Spec

\* Every record, body and counter of the workflow stays within what the model
\* allows: no PATCH of any call is sent more than 1 + max_retries times.
THEOREM TypeCorrect == Spec => []TypeOK
<1>1. Inv => TypeOK
  BY DEF Inv
<1>. QED  BY <1>1, Invariance, PTL

\* cnc_enable_device_gnmi reports success only of a device that has the transport
\* and the capability, and has them still, whatever the other calls did since.
THEOREM SuccessIsGnmi == Spec => []SuccessMeansGnmi
<1>1. Inv => SuccessMeansGnmi
  BY DEF Inv, AddedStays, SuccessMeansGnmi, Successes, Has
<1>. QED  BY <1>1, Invariance, PTL

\* No step of the workflow, of another call or of a PATCH applied late takes away
\* a transport the device had.
THEOREM OldTransportsKept == Spec => TransportsKept
<1>. DEFINE Kept == node.life = "present" =>
                      node.transports \intersect OldEntries \subseteq node'.transports
<1>1. Inv /\ [Next]_vars => [Kept]_vars
  <2>. SUFFICES ASSUME Inv, Next, node.life = "present"
                PROVE  Old(node) \subseteq node'.transports
    BY DEF Old
  <2>1. Old(node') = Old(node)
    BY AlwaysSteady DEF Steady
  <2>. QED  BY <2>1 DEF Old
<1>. QED  BY <1>1, Invariance, PTL DEF Spec, TransportsKept
--------------------------------------------------------------------------------
(* The admin state: what is known of a call from where it stands (Progress), and  *)
(* the two facts about the windows that rest on it.                               *)

Progress ==
    \A c \in Calls :
      /\ pc[c] \in {"read", "down"} => steps[c].down = "none"
      /\ pc[c] \in {"read", "down", "add"} => steps[c].add = "none"
      /\ pc[c] \in {"read", "down", "add", "up"} => steps[c].up = "none"
      /\ pc[c] = "add" /\ Bounce(c) => Bounced(c)
      /\ pc[c] = "up" => Bounced(c)
      /\ pc[c] = "down" \/ Bounced(c) => pc[c] # "read" /\ Bounce(c)

NothingLate == late # {} => "late" \in mishaps /\ faults > 0

\* Nobody else is at work, and nothing has gone wrong.
Alone(c) ==
    /\ \A other \in Calls \ {c} : pc[other] = "read"
    /\ moves = 0
    /\ faults = 0

Ruled ==
    \A c \in Calls : Alone(c) =>
      /\ steps[c].add # "rejected"
      /\ pc[c] \in {"down", "add"} => node.life = "present"
      /\ pc[c] = "add" => node.admin # "up"

\* Everything a call was told of its admin states is "applied".
Quiet ==
    /\ moves = 0
    /\ mishaps \subseteq {"reject", "lost", "read"}
    /\ \A c \in Calls : /\ steps[c].down \in {"none", "ok"}
                        /\ Bounced(c) => steps[c].up \in {"none", "ok"}

\* A call in its admin-down window: an admin-up PATCH of its own is to follow.
Window(c) == pc[c] = "down" \/ (pc[c] \in {"add", "up"} /\ Bounced(c))
Untouched(c) == pc[c] # "down" /\ ~Bounced(c)

Raised ==
    Quiet => \/ node.admin = "up"
             \/ \E c \in Calls : Window(c)
             \/ \A c \in Calls : Untouched(c)

Admin == Inv /\ Progress /\ NothingLate /\ Ruled /\ Raised

\* What a step of one call leaves of the others.
LEMMA OthersStand ==
    ASSUME TypeOK, NEW c \in Calls, Step(c) \/ Cancel(c)
    PROVE  /\ pc[c] # "done"
           /\ \A d \in Calls \ {c} : /\ pc'[d] = pc[d] /\ steps'[d] = steps[d]
                                     /\ snap'[d] = snap[d]
           /\ moves' = moves /\ mishaps \subseteq mishaps' /\ faults' >= faults
<1>1. moves' = moves /\ mishaps \subseteq mishaps' /\ faults' >= faults
  BY DEF TypeOK, Step, Cancel, Read, SetAdminDown, AddGnmi, SetAdminUp, Verify, PatchStep, Patch,
         Misfortune, luck
<1>2. ASSUME Read(c) \/ Verify(c) \/ Cancel(c)
      PROVE  \A d \in Calls \ {c} : /\ pc'[d] = pc[d] /\ steps'[d] = steps[d]
                                    /\ snap'[d] = snap[d]
  BY <1>2 DEF TypeOK, Read, Verify, Cancel, Report
<1>3. ASSUME SetAdminDown(c) \/ AddGnmi(c) \/ SetAdminUp(c)
      PROVE  \A d \in Calls \ {c} : /\ pc'[d] = pc[d] /\ steps'[d] = steps[d]
                                    /\ snap'[d] = snap[d]
  BY <1>3 DEF TypeOK, SetAdminDown, AddGnmi, SetAdminUp, PatchStep, StepDone, Report
<1>4. pc[c] # "done"
  BY DEF Step, Cancel, Read, SetAdminDown, AddGnmi, SetAdminUp, Verify, PatchStep
<1>. QED  BY <1>1, <1>2, <1>3, <1>4 DEF Step

\* The end of a PATCH step, as far as the call itself goes.
LEMMA Ended ==
    ASSUME TypeOK, NEW c \in Calls, NEW step \in StepNames, NEW outcome, NEW next,
           StepDone(c, step, outcome, next)
    PROVE  /\ (steps'[c])[step] = outcome
           /\ \A s \in StepNames \ {step} : (steps'[c])[s] = (steps[c])[s]
           /\ pc'[c] = IF next \in PCs \ {"done"} THEN next ELSE "done"
BY DEF TypeOK, StepDone, Report, PCs, StepNames, Results

LEMMA ReadSees ==
    ASSUME TypeOK, NEW c \in Calls, Read(c)
    PROVE  /\ pc[c] = "read" /\ pc'[c] \in {"done", "down", "add"}
           /\ pc'[c] # "done" => node.life = "present"
           /\ pc'[c] = "down" <=> pc'[c] # "done" /\ Bounce(c)'
           /\ (Bounce(c)' <=> node.admin = "up") /\ node' = node /\ steps' = steps
BY DEF TypeOK, Read, Report, Bounce

LEMMA ProgressStep ==
    ASSUME Inv, Progress, Next
    PROVE  Progress'
<1>. DEFINE P(c) ==
          /\ pc[c] \in {"read", "down"} => steps[c].down = "none"
          /\ pc[c] \in {"read", "down", "add"} => steps[c].add = "none"
          /\ pc[c] \in {"read", "down", "add", "up"} => steps[c].up = "none"
          /\ pc[c] = "add" /\ Bounce(c) => Bounced(c)
          /\ pc[c] = "up" => Bounced(c)
          /\ pc[c] = "down" \/ Bounced(c) => pc[c] # "read" /\ Bounce(c)
<1>1. TypeOK
  BY DEF Inv
<1>2. ASSUME NEW c \in Calls, Read(c) PROVE P(c)'
  BY <1>1, <1>2, ReadSees DEF Progress, Bounced
<1>3. ASSUME NEW c \in Calls, SetAdminDown(c) PROVE P(c)'
  <2>1. PICK outcome \in Outcomes \ {"none"} :
           \/ UNCHANGED <<pc, steps, result>>
           \/ StepDone(c, "down", outcome, AfterDown(outcome))
    BY <1>3 DEF SetAdminDown, PatchStep
  <2>2. pc[c] = "down" /\ snap' = snap
    BY <1>3 DEF SetAdminDown, PatchStep
  <2>3. CASE StepDone(c, "down", outcome, AfterDown(outcome))
    <3>1. steps'[c].down = outcome /\ steps'[c].add = "none" /\ steps'[c].up = "none"
      BY <1>1, <2>2, <2>3, Ended DEF StepNames, Progress
    <3>2. pc'[c] = IF outcome = "ok" THEN "add" ELSE "done"
      BY <1>1, <2>1, <2>3, Ended DEF StepNames, AfterDown, PCs, Outcomes
    <3>. QED  BY <2>2, <3>1, <3>2 DEF Progress, Bounced, Bounce
  <2>. QED  BY <2>1, <2>2, <2>3 DEF Progress, Bounced, Bounce
<1>4. ASSUME NEW c \in Calls, AddGnmi(c) PROVE P(c)'
  <2>1. PICK outcome \in Outcomes \ {"none"} :
           \/ UNCHANGED <<pc, steps, result>>
           \/ StepDone(c, "add", outcome, AfterAdd(c, outcome))
    BY <1>4 DEF AddGnmi, PatchStep
  <2>2. pc[c] = "add" /\ snap' = snap
    BY <1>4 DEF AddGnmi, PatchStep
  <2>3. CASE StepDone(c, "add", outcome, AfterAdd(c, outcome))
    <3>1. steps'[c].down = steps[c].down /\ steps'[c].up = "none"
      BY <1>1, <2>2, <2>3, Ended DEF StepNames, Progress
    <3>2. pc'[c] \in {"up", "verify", "done"} /\ (pc'[c] = "up" => Bounce(c))
      BY <1>1, <2>3, Ended DEF StepNames, AfterAdd, PCs
    <3>. QED  BY <2>2, <3>1, <3>2 DEF Progress, Bounced, Bounce
  <2>. QED  BY <2>1, <2>2, <2>3 DEF Progress, Bounced, Bounce
<1>5. ASSUME NEW c \in Calls, SetAdminUp(c) PROVE P(c)'
  <2>1. PICK outcome \in Outcomes \ {"none"} :
           \/ UNCHANGED <<pc, steps, result>>
           \/ StepDone(c, "up", outcome, AfterUp(c, outcome))
    BY <1>5 DEF SetAdminUp, PatchStep
  <2>2. pc[c] = "up" /\ snap' = snap
    BY <1>5 DEF SetAdminUp, PatchStep
  <2>3. CASE StepDone(c, "up", outcome, AfterUp(c, outcome))
    <3>1. steps'[c].down = steps[c].down
      BY <1>1, <2>2, <2>3, Ended DEF StepNames, Progress
    <3>2. pc'[c] \in {"verify", "done"}
      BY <1>1, <2>3, Ended DEF StepNames, AfterUp, PCs
    <3>. QED  BY <2>2, <3>1, <3>2 DEF Progress, Bounced, Bounce
  <2>. QED  BY <2>1, <2>2, <2>3 DEF Progress, Bounced, Bounce
<1>6. ASSUME NEW c \in Calls, Verify(c) \/ Cancel(c) PROVE P(c)'
  <2>1. pc'[c] = "done" \/ (pc[c] = "verify" /\ pc' = pc)
    BY <1>1, <1>6 DEF TypeOK, Verify, Cancel, Report
  <2>2. UNCHANGED <<snap, steps>>
    BY <1>6 DEF Verify, Cancel
  <2>. QED  BY <2>1, <2>2 DEF Progress, Bounced, Bounce
<1>7. ASSUME NEW c \in Calls, Step(c) \/ Cancel(c) PROVE Progress'
  <2>1. P(c)'
    BY <1>2, <1>3, <1>4, <1>5, <1>6, <1>7 DEF Step
  <2>2. ASSUME NEW d \in Calls \ {c} PROVE P(d)'
    BY <1>1, <1>7, OthersStand DEF Progress, Bounced, Bounce
  <2>. QED  BY <2>1, <2>2 DEF Progress
<1>8. ASSUME UNCHANGED callVars PROVE Progress'
  BY <1>8 DEF callVars, Progress, Bounced, Bounce
<1>. QED  BY <1>7, <1>8 DEF Next, CreateDevice, UpdateDevice, DeleteDevice, LateApplied, Move

LEMMA LateStep ==
    ASSUME Inv, NothingLate, Next
    PROVE  NothingLate'
<1>1. TypeOK /\ faults \in Nat
  BY DEF Inv, TypeOK
<1>2. ASSUME NEW c \in Calls, NEW b, NEW outcome, Patch(c, b, outcome)
      PROVE  NothingLate'
  BY <1>1, <1>2 DEF NothingLate, Patch, Misfortune, luck
<1>3. ASSUME NEW c \in Calls, Read(c) \/ Verify(c) \/ Cancel(c)
      PROVE  NothingLate'
  BY <1>1, <1>3 DEF NothingLate, Read, Verify, Cancel, Misfortune, luck
<1>4. ASSUME NEW c \in Calls, SetAdminDown(c) \/ AddGnmi(c) \/ SetAdminUp(c)
      PROVE  NothingLate'
  BY <1>2, <1>4 DEF SetAdminDown, AddGnmi, SetAdminUp, PatchStep
<1>5. ASSUME late' \subseteq late, UNCHANGED luck PROVE NothingLate'
  BY <1>5 DEF NothingLate, luck
<1>6. ASSUME NEW admin \in AdminStates, NEW cap \in BOOLEAN, CreateDevice(admin, cap)
      PROVE  NothingLate'
  BY <1>5, <1>6 DEF CreateDevice, Move
<1>7. ASSUME NEW admin \in AdminStates, UpdateDevice(admin)
      PROVE  NothingLate'
  BY <1>5, <1>7 DEF UpdateDevice, Move
<1>8. ASSUME DeleteDevice \/ \E body \in late : LateApplied(body)
      PROVE  NothingLate'
  BY <1>5, <1>8 DEF DeleteDevice, LateApplied, Move
<1>. QED  BY <1>3, <1>4, <1>6, <1>7, <1>8 DEF Next, Step

\* A call that is alone was alone before its step, and no other call took it.
LEMMA WasAlone ==
    ASSUME Inv, Progress, NothingLate, Next, NEW c \in Calls, Alone(c)'
    PROVE  Alone(c) /\ late = {} /\ (Step(c) /\ ~Cancel(c))
<1>1. TypeOK /\ faults \in Nat /\ moves \in Nat
  BY DEF Inv, TypeOK
<1>2. ASSUME NEW t, Move(t) PROVE FALSE
  BY <1>1, <1>2 DEF Move, Alone
<1>3. ASSUME NEW d \in Calls, Cancel(d) PROVE FALSE
  BY <1>1, <1>3 DEF Cancel, Misfortune, Alone
<1>4. ASSUME NEW d \in Calls, Step(d)
      PROVE  d = c /\ Alone(c)
  <2>1. moves' = moves /\ faults' >= faults
    BY <1>1, <1>4, OthersStand
  <2>2. moves = 0 /\ faults = 0
    BY <1>1, <2>1 DEF Alone
  <2>3. ASSUME d # c PROVE FALSE
    <3>1. pc'[d] = "read"
      BY <2>3 DEF Alone
    <3>2. ~Read(d) /\ ~Verify(d)
      BY <1>1, <3>1, ReadSees DEF TypeOK, Verify, Report
    <3>3. ASSUME NEW st \in {"down", "add", "up"}, NEW o \in Outcomes \ {"none"}, NEW next,
                 pc[d] = st, UNCHANGED pc \/ StepDone(d, st, o, next), next # "read"
          PROVE  FALSE
      BY <1>1, <3>1, <3>3, Ended DEF StepNames
    <3>4. ~SetAdminDown(d)
      <4>1. SUFFICES ASSUME SetAdminDown(d) PROVE FALSE
        OBVIOUS
      <4>2. PICK o \in Outcomes \ {"none"} :
               UNCHANGED pc \/ StepDone(d, "down", o, AfterDown(o))
        BY <4>1 DEF SetAdminDown, PatchStep
      <4>3. AfterDown(o) # "read" /\ pc[d] = "down"
        BY <4>1 DEF SetAdminDown, PatchStep, AfterDown, Outcomes
      <4>. QED  BY <3>3, <4>2, <4>3
    <3>5. ~AddGnmi(d)
      <4>1. SUFFICES ASSUME AddGnmi(d) PROVE FALSE
        OBVIOUS
      <4>2. PICK o \in Outcomes \ {"none"} :
               UNCHANGED pc \/ StepDone(d, "add", o, AfterAdd(d, o))
        BY <4>1 DEF AddGnmi, PatchStep
      <4>3. AfterAdd(d, o) # "read" /\ pc[d] = "add"
        BY <4>1 DEF AddGnmi, PatchStep, AfterAdd
      <4>. QED  BY <3>3, <4>2, <4>3
    <3>6. ~SetAdminUp(d)
      <4>1. SUFFICES ASSUME SetAdminUp(d) PROVE FALSE
        OBVIOUS
      <4>2. PICK o \in Outcomes \ {"none"} :
               UNCHANGED pc \/ StepDone(d, "up", o, AfterUp(d, o))
        BY <4>1 DEF SetAdminUp, PatchStep
      <4>3. AfterUp(d, o) # "read" /\ pc[d] = "up"
        BY <4>1 DEF SetAdminUp, PatchStep, AfterUp
      <4>. QED  BY <3>3, <4>2, <4>3
    <3>. QED  BY <1>4, <3>2, <3>4, <3>5, <3>6 DEF Step
  <2>. QED  BY <1>1, <1>4, <2>2, <2>3, OthersStand DEF Alone
<1>5. ASSUME NEW b \in late, LateApplied(b) PROVE FALSE
  BY <1>5 DEF NothingLate, LateApplied, luck, Alone
<1>6. Step(c) /\ Alone(c)
  BY <1>2, <1>3, <1>4, <1>5 DEF Next, CreateDevice, UpdateDevice, DeleteDevice
<1>. QED  BY <1>3, <1>6 DEF NothingLate, Alone

\* What the three bodies make of the admin state.
LEMMA Bodies ==
    ASSUME TypeOK, NEW c \in Calls
    PROVE  /\ Patched(DownBody(c)).admin = "down" /\ Patched(UpBody(c)).admin = "up"
           /\ Patched(AddBody(c)).admin = node.admin
           /\ \A b \in {DownBody(c), AddBody(c), UpBody(c)} : Patched(b).life = node.life
           /\ node.life = "present" /\ node.admin # "up" => Accepts(AddBody(c))
<1>1. /\ Patched(DownBody(c)) = [node EXCEPT !.admin = "down"]
      /\ Patched(UpBody(c)) = [node EXCEPT !.admin = "up"]
  BY DEF Patched, DownBody, UpBody
<1>2. PICK L : AddBody(c) = [transports |-> L, cap |-> TRUE]
  BY DEF AddBody
<1>3. Patched(AddBody(c)) = [node EXCEPT !.transports = L, !.cap = TRUE]
  BY <1>2 DEF Patched
<1>4. node.life = "present" /\ node.admin # "up" => Accepts(AddBody(c))
  BY DEF Accepts
<1>. QED  BY <1>1, <1>3, <1>4 DEF TypeOK, Nodes

LEMMA RuledStep ==
    ASSUME Admin, Next
    PROVE  Ruled'
<1>. SUFFICES ASSUME NEW c \in Calls, Alone(c)'
              PROVE  /\ steps'[c].add # "rejected"
                     /\ pc'[c] \in {"down", "add"} => node'.life = "present"
                     /\ pc'[c] = "add" => node'.admin # "up"
  BY DEF Ruled
<1>1. /\ TypeOK /\ Alone(c) /\ Step(c) /\ faults' = faults
      /\ steps[c].add # "rejected"
      /\ pc[c] \in {"down", "add"} => node.life = "present"
      /\ pc[c] = "add" => node.admin # "up"
  BY WasAlone DEF Admin, Inv, Ruled, Alone
<1>2. CASE Read(c)
  BY <1>1, <1>2, ReadSees
<1>3. CASE SetAdminDown(c)
  <2>1. PICK o \in Outcomes \ {"none"} :
           /\ Patch(c, DownBody(c), o)
           /\ \/ o = "unanswered" /\ UNCHANGED <<pc, steps, result>>
              \/ StepDone(c, "down", o, AfterDown(o))
    BY <1>3 DEF SetAdminDown, PatchStep
  <2>2. o # "unanswered" /\ (o = "ok" => node' = Patched(DownBody(c)))
        /\ (o = "rejected" => node' = node)
    BY <1>1, <2>1 DEF Patch, Misfortune, TypeOK
  <2>3. /\ pc[c] = "down" /\ (steps'[c]).add = steps[c].add
        /\ pc'[c] = IF o = "ok" THEN "add" ELSE "done"
    BY <1>1, <1>3, <2>1, <2>2, Ended DEF SetAdminDown, PatchStep, StepNames, AfterDown, PCs, Outcomes
  <2>. QED  BY <1>1, <2>1, <2>2, <2>3, Bodies
<1>4. CASE AddGnmi(c)
  <2>1. PICK o \in Outcomes \ {"none"} :
           /\ Patch(c, AddBody(c), o)
           /\ \/ o = "unanswered" /\ UNCHANGED <<pc, steps, result>>
              \/ StepDone(c, "add", o, AfterAdd(c, o))
    BY <1>4 DEF AddGnmi, PatchStep
  <2>2. pc[c] = "add" /\ Accepts(AddBody(c))
    BY <1>1, <1>4, Bodies DEF AddGnmi, PatchStep
  <2>3. o # "unanswered" /\ o # "rejected"
    BY <1>1, <2>1, <2>2 DEF Patch, Misfortune, TypeOK
  <2>4. (steps'[c]).add = o /\ pc'[c] \in {"up", "verify", "done"}
    BY <1>1, <2>1, <2>3, Ended DEF StepNames, AfterAdd, PCs
  <2>. QED  BY <2>3, <2>4
<1>5. CASE SetAdminUp(c)
  <2>1. PICK o \in Outcomes \ {"none"} :
           \/ UNCHANGED <<pc, steps, result>>
           \/ StepDone(c, "up", o, AfterUp(c, o))
    BY <1>5 DEF SetAdminUp, PatchStep
  <2>2. pc[c] = "up"
    BY <1>5 DEF SetAdminUp, PatchStep
  <2>3. (steps'[c]).add = steps[c].add /\ pc'[c] \in {"up", "verify", "done"}
    BY <1>1, <2>1, <2>2, Ended DEF StepNames, AfterUp, PCs
  <2>. QED  BY <1>1, <2>3
<1>6. CASE Verify(c)
  BY <1>1, <1>6 DEF TypeOK, Verify, Report
<1>. QED  BY <1>1, <1>2, <1>3, <1>4, <1>5, <1>6 DEF Step

\* Certain answers stay certain, so the calls were quiet before the step.
LEMMA WasQuiet ==
    ASSUME Inv, Progress, Next, Quiet'
    PROVE  /\ Quiet
           /\ (\E c \in Calls : Step(c)) \/ \E b \in late : LateApplied(b)
<1>1. TypeOK /\ moves \in Nat
  BY DEF Inv, TypeOK
<1>2. ASSUME NEW t, Move(t) PROVE FALSE
  BY <1>1, <1>2 DEF Move, Quiet
<1>3. ASSUME NEW d \in Calls, Cancel(d) PROVE FALSE
  BY <1>1, <1>3 DEF Cancel, Misfortune, Quiet
<1>4. ASSUME NEW b \in late, LateApplied(b) PROVE Quiet
  BY <1>4 DEF LateApplied, Quiet, callVars, luck, Bounced
<1>5. ASSUME NEW c \in Calls, Step(c) PROVE Quiet
  <2>1. /\ moves = 0 /\ mishaps \subseteq {"reject", "lost", "read"}
        /\ \A d \in Calls \ {c} : steps'[d] = steps[d]
    BY <1>1, <1>5, OthersStand DEF Quiet
  <2>2. steps[c].down \in {"none", "ok"} /\ (Bounced(c) => steps[c].up \in {"none", "ok"})
    <3>1. CASE Read(c) \/ Verify(c)
      BY <3>1 DEF Read, Verify, Quiet, Bounced
    <3>2. CASE SetAdminDown(c) \/ SetAdminUp(c)
      BY <3>2 DEF SetAdminDown, SetAdminUp, PatchStep, Progress, Bounced
    <3>3. CASE AddGnmi(c)
      <4>1. PICK o \in Outcomes \ {"none"} :
               steps' = steps \/ StepDone(c, "add", o, AfterAdd(c, o))
        BY <3>3 DEF AddGnmi, PatchStep
      <4>2. (steps'[c]).down = steps[c].down /\ (steps'[c]).up = steps[c].up
        BY <1>1, <4>1, Ended DEF StepNames
      <4>. QED  BY <4>2 DEF Quiet, Bounced
    <3>4. CASE SetAdminUp(c)
      BY <3>4, <3>2
    <3>. QED  BY <1>5, <3>1, <3>2, <3>3, <3>4 DEF Step
  <2>. QED  BY <2>1, <2>2 DEF Quiet, Bounced
<1>. QED  BY <1>2, <1>3, <1>4, <1>5 DEF Next, CreateDevice, UpdateDevice, DeleteDevice

LEMMA RaisedStep ==
    ASSUME Admin, Next
    PROVE  Raised'
<1>. DEFINE R == \/ node.admin = "up"
                 \/ \E c \in Calls : Window(c)
                 \/ \A c \in Calls : Untouched(c)
<1>. SUFFICES ASSUME Quiet' PROVE R'
  BY DEF Raised
<1>1. TypeOK /\ Progress /\ Quiet /\ R
  BY WasQuiet DEF Admin, Inv, Raised
<1>2. PICK c \in Calls : Step(c)
  BY WasQuiet DEF Admin, NothingLate, Quiet
<1>3. \A d \in Calls \ {c} : (Window(d) => Window(d)') /\ (Untouched(d) => Untouched(d)')
  BY <1>1, <1>2, OthersStand DEF Window, Untouched, Bounced
\* A step that neither opens nor closes a window, and keeps the admin state.
<1>4. ASSUME node'.admin = node.admin, Window(c) => Window(c)',
             Untouched(c) /\ node.admin # "up" => Untouched(c)'
      PROVE  R'
  BY <1>1, <1>3, <1>4
<1>5. CASE Read(c)
  <2>1. ~Window(c)
    BY <1>1, <1>5, ReadSees DEF Window
  <2>2. Untouched(c) /\ node.admin # "up" => Untouched(c)'
    BY <1>1, <1>5, ReadSees DEF Untouched, Bounced
  <2>. QED  BY <1>1, <1>4, <1>5, <2>1, <2>2, ReadSees
<1>6. CASE SetAdminDown(c)
  <2>1. PICK o \in Outcomes \ {"none"} :
           UNCHANGED pc \/ StepDone(c, "down", o, AfterDown(o))
    BY <1>6 DEF SetAdminDown, PatchStep
  <2>2. pc[c] = "down"
    BY <1>6 DEF SetAdminDown, PatchStep
  <2>3. CASE StepDone(c, "down", o, AfterDown(o))
    <3>1. (steps'[c]).down = o
      BY <1>1, <2>1, <2>3, Ended DEF StepNames
    <3>2. o = "ok"
      BY <2>1, <3>1 DEF Quiet
    <3>3. pc'[c] = "add"
      BY <1>1, <2>1, <2>3, <3>2, Ended DEF StepNames, AfterDown, PCs
    <3>. QED  BY <3>1, <3>2, <3>3 DEF Window, Bounced
  <2>. QED  BY <2>1, <2>2, <2>3 DEF Window
<1>7. CASE AddGnmi(c)
  <2>1. PICK o \in Outcomes \ {"none"} :
           /\ Patch(c, AddBody(c), o)
           /\ UNCHANGED <<pc, steps>> \/ StepDone(c, "add", o, AfterAdd(c, o))
    BY <1>7 DEF AddGnmi, PatchStep
  <2>2. pc[c] = "add" /\ snap' = snap
    BY <1>7 DEF AddGnmi, PatchStep
  <2>3. node'.admin = node.admin
    BY <1>1, <2>1, Bodies DEF Patch, Misfortune
  <2>4. CASE StepDone(c, "add", o, AfterAdd(c, o))
    <3>1. (steps'[c]).down = steps[c].down
      BY <1>1, <2>1, <2>4, Ended DEF StepNames
    <3>2. pc'[c] \in {"up", "verify", "done"} /\ (Bounce(c) => pc'[c] = "up")
      BY <1>1, <2>1, <2>4, Ended DEF StepNames, AfterAdd, PCs
    <3>. QED  BY <1>1, <1>4, <2>2, <2>3, <3>1, <3>2 DEF Window, Untouched, Bounced, Progress
  <2>. QED  BY <1>4, <2>1, <2>3, <2>4 DEF Window, Untouched, Bounced
<1>8. CASE SetAdminUp(c)
  <2>1. PICK o \in Outcomes \ {"none"} :
           /\ Patch(c, UpBody(c), o)
           /\ UNCHANGED <<pc, steps>> \/ StepDone(c, "up", o, AfterUp(c, o))
    BY <1>8 DEF SetAdminUp, PatchStep
  <2>2. pc[c] = "up" /\ Bounced(c)
    BY <1>1, <1>8 DEF SetAdminUp, PatchStep, Progress
  <2>3. CASE StepDone(c, "up", o, AfterUp(c, o))
    <3>1. (steps'[c]).down = steps[c].down /\ (steps'[c]).up = o
      BY <1>1, <2>1, <2>3, Ended DEF StepNames
    <3>2. o = "ok"
      BY <2>1, <2>2, <3>1 DEF Quiet, Bounced
    <3>. QED  BY <1>1, <2>1, <3>2, Bodies DEF Patch
  <2>. QED  BY <2>1, <2>2, <2>3 DEF Window, Bounced
<1>9. CASE Verify(c)
  <2>1. /\ pc[c] = "verify" /\ pc'[c] \in {"verify", "done"}
        /\ UNCHANGED <<node, steps>>
    BY <1>1, <1>9 DEF TypeOK, Verify, Report
  <2>. QED  BY <1>4, <2>1 DEF Window, Untouched, Bounced
<1>. QED  BY <1>2, <1>5, <1>6, <1>7, <1>8, <1>9 DEF Step

LEMMA AdminInvariance == Spec => []Admin
<1>1. Init => Admin
  <2>. SUFFICES ASSUME Init PROVE Admin
    OBVIOUS
  <2>1. \A c \in Calls : pc[c] = "read" /\ steps[c].down = "none" /\ steps[c].add = "none"
                        /\ steps[c].up = "none"
    BY DEF Init, StepNames
  <2>2. late = {} /\ Inv
    BY Initially DEF Init
  <2>. QED  BY <2>1, <2>2 DEF Admin, Progress, NothingLate, Ruled, Raised, Untouched, Bounced
<1>2. Admin /\ [Next]_vars => Admin'
  <2>. SUFFICES ASSUME Admin, [Next]_vars PROVE Admin'
    OBVIOUS
  <2>1. CASE Next
    BY <2>1, Inductive, ProgressStep, LateStep, RuledStep, RaisedStep DEF Admin
  <2>2. CASE UNCHANGED vars
    <3>1. Inv'
      BY <2>2, Inductive DEF Admin
    <3>2. Progress' /\ NothingLate' /\ Ruled'
      BY <2>2 DEF vars, callVars, luck, Admin, Progress, NothingLate, Ruled, Alone, Bounced, Bounce
    <3>3. Raised'
      BY <2>2 DEF vars, callVars, luck, Admin, Raised, Quiet, Window, Untouched, Bounced
    <3>. QED  BY <3>1, <3>2, <3>3 DEF Admin
  <2>. QED  BY <2>1, <2>2
<1>. QED  BY <1>1, <1>2, PTL DEF Spec

\* The workflow bounces a device before it adds to it, so that the platform does
\* not refuse its transport step for the device being admin-up.
THEOREM RuleIsKept == Spec => []OrderingRuleKept
<1>1. Admin => OrderingRuleKept
  BY DEF Admin, Ruled, Alone, OrderingRuleKept
<1>. QED  BY <1>1, AdminInvariance, PTL

\* However many calls have bounced the device, and in whatever order: when each was
\* told that its admin-up PATCH was applied, the device is admin-up in the end.
THEOREM AdminUpInTheEnd == Spec => []AdminStateRestored
<1>1. Admin => AdminStateRestored
  <2>. SUFFICES ASSUME Admin, AllDone, moves = 0, mishaps \subseteq {"reject", "lost", "read"},
                       \E c \in Calls : Bounced(c),
                       \A c \in Calls : Bounced(c) => steps[c].up = "ok",
                       \A c \in Calls : steps[c].down \in {"none", "ok"}
                PROVE  node.admin = "up"
    BY DEF AdminStateRestored
  <2>1. Quiet
    BY DEF Quiet
  <2>2. \A c \in Calls : ~Window(c)
    BY DEF Window, AllDone
  <2>. QED  BY <2>1, <2>2 DEF Admin, Raised, Untouched
<1>. QED  BY <1>1, AdminInvariance, PTL

--------------------------------------------------------------------------------
(* What UpFollowsDown says of every state and of every step; that a call which can *)
(* go on does is the fairness TLC adds.                                            *)

\* A call that was told its admin-down PATCH was applied does not come back before it
\* has tried the admin-up PATCH to the end, whatever became of the step between; only
\* a cancellation leaves the window open.
WindowsAreClosed ==
    \A c \in Calls :
      pc[c] = "done" /\ Bounced(c) => steps[c].up # "none" \/ result[c] = "cancelled"

\* The same where the admin-up step lies behind the call.
Raising ==
    \A c \in Calls :
      Bounced(c) =>
        /\ pc[c] = "verify" => steps[c].up # "none"
        /\ pc[c] = "done" => steps[c].up # "none" \/ result[c] = "cancelled"

LEMMA RaisingStep ==
    ASSUME Inv, Progress, Raising, [Next]_vars
    PROVE  Raising'
<1>. DEFINE R(c) ==
          Bounced(c) =>
            /\ pc[c] = "verify" => steps[c].up # "none"
            /\ pc[c] = "done" => steps[c].up # "none" \/ result[c] = "cancelled"
<1>1. TypeOK
  BY DEF Inv
<1>2. ASSUME NEW c \in Calls, Read(c) PROVE R(c)'
  <2>1. steps[c].down = "none" /\ steps' = steps
    BY <1>1, <1>2, ReadSees DEF Progress
  <2>. QED  BY <2>1 DEF Bounced
<1>3. ASSUME NEW c \in Calls, SetAdminDown(c) PROVE R(c)'
  <2>1. PICK outcome \in Outcomes \ {"none"} :
           \/ UNCHANGED <<pc, steps, result>>
           \/ StepDone(c, "down", outcome, AfterDown(outcome))
    BY <1>3 DEF SetAdminDown, PatchStep
  <2>2. pc[c] = "down"
    BY <1>3 DEF SetAdminDown, PatchStep
  <2>3. CASE StepDone(c, "down", outcome, AfterDown(outcome))
    <3>1. steps'[c].down = outcome
      BY <1>1, <2>3, Ended DEF StepNames
    <3>2. pc'[c] = IF outcome = "ok" THEN "add" ELSE "done"
      BY <1>1, <2>1, <2>3, Ended DEF StepNames, AfterDown, PCs, Outcomes
    <3>. QED  BY <3>1, <3>2 DEF Bounced
  <2>. QED  BY <2>1, <2>2, <2>3
<1>4. ASSUME NEW c \in Calls, AddGnmi(c) PROVE R(c)'
  <2>1. PICK outcome \in Outcomes \ {"none"} :
           \/ UNCHANGED <<pc, steps, result>>
           \/ StepDone(c, "add", outcome, AfterAdd(c, outcome))
    BY <1>4 DEF AddGnmi, PatchStep
  <2>2. pc[c] = "add"
    BY <1>4 DEF AddGnmi, PatchStep
  <2>3. CASE StepDone(c, "add", outcome, AfterAdd(c, outcome))
    <3>1. steps'[c].down = steps[c].down
      BY <1>1, <2>3, Ended DEF StepNames
    <3>2. Bounced(c) => AfterAdd(c, outcome) = "up"
      BY DEF Progress, AfterAdd
    <3>3. Bounced(c) => pc'[c] = "up"
      BY <1>1, <2>3, <3>2, Ended DEF StepNames, PCs
    <3>. QED  BY <3>1, <3>3 DEF Bounced
  <2>. QED  BY <2>1, <2>2, <2>3
<1>5. ASSUME NEW c \in Calls, SetAdminUp(c) PROVE R(c)'
  <2>1. PICK outcome \in Outcomes \ {"none"} :
           \/ UNCHANGED <<pc, steps, result>>
           \/ StepDone(c, "up", outcome, AfterUp(c, outcome))
    BY <1>5 DEF SetAdminUp, PatchStep
  <2>2. pc[c] = "up"
    BY <1>5 DEF SetAdminUp, PatchStep
  <2>3. CASE StepDone(c, "up", outcome, AfterUp(c, outcome))
    BY <1>1, <2>1, <2>3, Ended DEF StepNames
  <2>. QED  BY <2>1, <2>2, <2>3
<1>6. ASSUME NEW c \in Calls, Verify(c) PROVE R(c)'
  BY <1>6 DEF Raising, Verify, Bounced
<1>7. ASSUME NEW c \in Calls, Cancel(c) PROVE R(c)'
  BY <1>1, <1>7 DEF TypeOK, Cancel, Report, Bounced
<1>8. ASSUME NEW c \in Calls, Step(c) \/ Cancel(c) PROVE Raising'
  <2>1. R(c)'
    BY <1>2, <1>3, <1>4, <1>5, <1>6, <1>7, <1>8 DEF Step
  <2>2. ASSUME NEW d \in Calls \ {c} PROVE R(d)'
    <3>1. result'[d] = result[d]
      BY <1>1, <1>8 DEF TypeOK, Step, Cancel, Read, Verify, Report, SetAdminDown, AddGnmi,
                        SetAdminUp, PatchStep, StepDone
    <3>. QED  BY <1>1, <1>8, <3>1, OthersStand DEF Raising, Bounced
  <2>. QED  BY <2>1, <2>2 DEF Raising
<1>9. ASSUME UNCHANGED callVars PROVE Raising'
  BY <1>9 DEF callVars, Raising, Bounced
<1>. QED  BY <1>8, <1>9 DEF Next, CreateDevice, UpdateDevice, DeleteDevice, LateApplied, Move, vars

\* No call leaves its admin-down window without having tried to close it.
THEOREM WindowsAreLeftClosed == Spec => []WindowsAreClosed
<1>1. Init => Raising
  BY DEF Init, Raising, Bounced, StepNames
<1>2. Admin /\ Raising /\ [Next]_vars => Raising'
  BY RaisingStep DEF Admin
<1>3. Raising => WindowsAreClosed
  BY DEF Raising, WindowsAreClosed
<1>. QED  BY <1>1, <1>2, <1>3, AdminInvariance, PTL DEF Spec

\* The order of the steps of a call.
Order(label) ==
    CASE label = "read" -> 1
      [] label = "down" -> 2
      [] label = "add" -> 3
      [] label = "up" -> 4
      [] label = "verify" -> 5
      [] label = "done" -> 6

\* Every step of a call takes it on: to a later step of the workflow, to one of the
\* re-sends the client allows a PATCH, or to one of the reads there is time for.
TakenOn(c) ==
    \/ Order(pc'[c]) > Order(pc[c])
    \/ /\ pc'[c] = pc[c]
       /\ \/ tries'[c] \in tries[c] + 1 .. MaxRetries /\ polls'[c] = polls[c]
          \/ polls'[c] \in polls[c] + 1 .. MaxPolls /\ tries'[c] = tries[c]

\* Nobody else takes it back: the device, the other calls and the other tools may do
\* what they like, a call has no more than so many steps.
WorkflowGoesOn ==
    [][\A c \in Calls :
          \/ (Step(c) \/ Cancel(c)) /\ TakenOn(c)
          \/ ~(Step(c) \/ Cancel(c)) /\ UNCHANGED <<pc[c], tries[c], polls[c]>>]_vars

LEMMA StepTakesOn ==
    ASSUME TypeOK, NEW c \in Calls, Step(c) \/ Cancel(c)
    PROVE  TakenOn(c)
<1>1. CASE Read(c)
  <2>1. pc[c] = "read" /\ pc'[c] \in {"done", "down", "add"}
    BY <1>1, ReadSees
  <2>. QED  BY <2>1 DEF TakenOn, Order
<1>2. ASSUME NEW step \in StepNames, NEW outcome \in Outcomes \ {"none"}, NEW next,
             pc[c] = step, StepDone(c, step, outcome, next),
             next \in PCs => Order(next) > Order(step)
      PROVE  TakenOn(c)
  <2>1. (pc'[c] = next /\ next \in PCs) \/ pc'[c] = "done"
    BY <1>2, Ended
  <2>2. Order("done") > Order(step)
    BY DEF Order, StepNames
  <2>3. Order(pc'[c]) > Order(step)
    BY <1>2, <2>1, <2>2
  <2>. QED  BY <1>2, <2>3 DEF TakenOn
<1>3. ASSUME UNCHANGED <<pc, polls>>, Resend(c), tries' = [tries EXCEPT ![c] = @ + 1]
      PROVE  TakenOn(c)
  BY <1>3 DEF TypeOK, TakenOn, Resend
<1>4. CASE SetAdminDown(c)
  <2>1. PICK outcome \in Outcomes \ {"none"} :
           \/ UNCHANGED <<pc, polls>> /\ Resend(c) /\ tries' = [tries EXCEPT ![c] = @ + 1]
           \/ StepDone(c, "down", outcome, AfterDown(outcome))
    BY <1>4 DEF SetAdminDown, PatchStep
  <2>2. AfterDown(outcome) \in PCs => Order(AfterDown(outcome)) > Order("down")
    BY <2>1 DEF AfterDown, PCs, StepNames, Order, Outcomes
  <2>3. pc[c] = "down" /\ "down" \in StepNames
    BY <1>4 DEF SetAdminDown, PatchStep, StepNames
  <2>. QED  BY <1>2, <1>3, <2>1, <2>2, <2>3
<1>5. CASE AddGnmi(c)
  <2>1. PICK outcome \in Outcomes \ {"none"} :
           \/ UNCHANGED <<pc, polls>> /\ Resend(c) /\ tries' = [tries EXCEPT ![c] = @ + 1]
           \/ StepDone(c, "add", outcome, AfterAdd(c, outcome))
    BY <1>5 DEF AddGnmi, PatchStep
  <2>2. AfterAdd(c, outcome) \in PCs => Order(AfterAdd(c, outcome)) > Order("add")
    BY <2>1 DEF AfterAdd, PCs, StepNames, Order
  <2>3. pc[c] = "add" /\ "add" \in StepNames
    BY <1>5 DEF AddGnmi, PatchStep, StepNames
  <2>. QED  BY <1>2, <1>3, <2>1, <2>2, <2>3
<1>6. CASE SetAdminUp(c)
  <2>1. PICK outcome \in Outcomes \ {"none"} :
           \/ UNCHANGED <<pc, polls>> /\ Resend(c) /\ tries' = [tries EXCEPT ![c] = @ + 1]
           \/ StepDone(c, "up", outcome, AfterUp(c, outcome))
    BY <1>6 DEF SetAdminUp, PatchStep
  <2>2. AfterUp(c, outcome) \in PCs => Order(AfterUp(c, outcome)) > Order("up")
    BY <2>1 DEF AfterUp, PCs, StepNames, Order
  <2>3. pc[c] = "up" /\ "up" \in StepNames
    BY <1>6 DEF SetAdminUp, PatchStep, StepNames
  <2>. QED  BY <1>2, <1>3, <2>1, <2>2, <2>3
<1>7. CASE Verify(c)
  <2>1. CASE pc'[c] = "done"
    BY <1>7, <2>1 DEF TakenOn, Order, Verify
  <2>2. CASE pc'[c] # "done"
    <3>1. polls[c] < MaxPolls /\ polls' = [polls EXCEPT ![c] = @ + 1] /\ UNCHANGED <<pc, tries>>
      BY <1>7, <2>2 DEF TypeOK, Verify, Report
    <3>. QED  BY <3>1 DEF TypeOK, TakenOn
  <2>. QED  BY <2>1, <2>2
<1>8. CASE Cancel(c)
  <2>1. pc'[c] = "done" /\ pc[c] \in PCs \ {"done"}
    BY <1>8 DEF TypeOK, Cancel, Report
  <2>. QED  BY <2>1 DEF TakenOn, Order, PCs, StepNames
<1>. QED  BY <1>1, <1>4, <1>5, <1>6, <1>7, <1>8 DEF Step

\* The workflow of one call cannot go on for ever.
THEOREM WorkflowsEnd == Spec => WorkflowGoesOn
<1>1. ASSUME TypeOK, [Next]_vars, NEW c \in Calls
      PROVE  \/ (Step(c) \/ Cancel(c)) /\ TakenOn(c)
             \/ ~(Step(c) \/ Cancel(c)) /\ UNCHANGED <<pc[c], tries[c], polls[c]>>
  <2>1. CASE Step(c) \/ Cancel(c)
    BY <1>1, <2>1, StepTakesOn
  <2>2. ASSUME NEW d \in Calls \ {c}, Step(d) \/ Cancel(d)
        PROVE  UNCHANGED <<pc[c], tries[c], polls[c]>>
    BY <1>1, <2>2 DEF TypeOK, Step, Cancel, Read, Verify, Report, SetAdminDown, AddGnmi,
                      SetAdminUp, PatchStep, StepDone
  <2>3. ASSUME UNCHANGED callVars PROVE UNCHANGED <<pc[c], tries[c], polls[c]>>
    BY <2>3 DEF callVars
  <2>. QED  BY <1>1, <2>1, <2>2, <2>3
            DEF Next, CreateDevice, UpdateDevice, DeleteDevice, LateApplied, Move, vars
<1>2. TypeOK /\ [Next]_vars
        => [\A c \in Calls :
               \/ (Step(c) \/ Cancel(c)) /\ TakenOn(c)
               \/ ~(Step(c) \/ Cancel(c)) /\ UNCHANGED <<pc[c], tries[c], polls[c]>>]_vars
  BY <1>1
<1>. QED  BY <1>2, TypeCorrect, PTL DEF Spec, WorkflowGoesOn
================================================================================
