------------------------------ MODULE GroupMembers ------------------------------
(***************************************************************************)
(* A call of cnc_set_device_group_members, cnc_move_group_members or        *)
(* cnc_delete_device_group (tools/grouping.py), step by step, and everybody *)
(* else at the grouping service.                                            *)
(*                                                                         *)
(* The service has no call that sets the members of a group: it removes     *)
(* members, moves devices out of the one location group that holds them, or *)
(* copies them from there into an access group. So the tool lists the       *)
(* members, finds the location group of every device to add by listing      *)
(* group after group, and sends one removal and one move or copy per source *)
(* group. Each of these requests is a step; another call can only be in the *)
(* way by its own single writes, which are the steps of the others here.    *)
(***************************************************************************)
EXTENDS Naturals

CONSTANTS
    Devices,        \* host names and uuids a call can be given
    Places,         \* user groups of the LocationDevices tree
    Unassigned,     \* its system group, of the devices in no other
    Accesses,       \* user groups of the DeviceAccess classifier
    Nowhere,        \* where a device is that the inventory does not have
    Tools,          \* what the call may be: a mode, a member operation, delete
    MaxRetries,     \* settings.max_retries
    MaxMoves,       \* bound: writes of others
    Faults          \* the misfortunes that are possible

AllTools == {"replace", "add", "remove", "move", "copy", "delete"}
AllFaults == {"reject", "partial", "lost", "read", "cut"}

ASSUME GroupsAssumption ==
    /\ Unassigned \notin Places \union Accesses
    /\ Places \intersect Accesses = {}
    /\ Nowhere \notin Places \union Accesses \union {Unassigned}
    /\ Tools \subseteq AllTools
    /\ Faults \subseteq AllFaults
    /\ MaxRetries \in Nat
    /\ MaxMoves \in Nat

Leaves == Places \union {Unassigned}
Groups == Leaves \union Accesses
PCs == {"read", "members", "tree", "walk", "remove", "add", "delete", "back", "done"}
Results == {"none", "refused", "unknown", "same", "ok", "error"}

VARIABLES
    place,      \* the location group of each device: one leaf holds it
    access,     \* the members of each access group
    groups,     \* the user groups there are
    tool,       \* the call: what it does,
    target,     \* to which group,
    source,     \* from which, for the raw operations,
    wanted,     \* and the devices it names
    pc,         \* where it stands
    seen,       \* the members it listed
    left,       \* the location groups it still has to list
    found,      \* the group that holds each device to be added
    tries,      \* re-sends of its PUT or DELETE
    result,     \* what it reported
    disturbed,  \* whether somebody else wrote since it began
    moves,      \* how often somebody did
    mishaps     \* the kinds of misfortune it has met

service == <<place, access, groups>>
call == <<tool, target, source, wanted>>
resolution == <<seen, left, found>>
vars == <<service, call, pc, resolution, tries, result, disturbed, moves, mishaps>>

TypeOK ==
    /\ place \in [Devices -> Leaves \union {Nowhere}]
    /\ access \in [Accesses -> SUBSET Devices]
    /\ groups \in SUBSET (Places \union Accesses)
    /\ tool \in Tools /\ target \in Groups /\ source \in Groups /\ wanted \in SUBSET Devices
    /\ pc \in PCs
    /\ seen \in SUBSET Devices
    /\ left \in SUBSET Leaves
    /\ DOMAIN found \subseteq Devices
    /\ \A d \in DOMAIN found : found[d] \in Groups
    /\ tries \in 0 .. MaxRetries
    /\ result \in Results
    /\ disturbed \in BOOLEAN
    /\ moves \in 0 .. MaxMoves
    /\ mishaps \in SUBSET Faults

Members(g) == IF g \in Accesses THEN access[g] ELSE {d \in Devices : place[d] = g}
Exists(g) == g \in groups \union {Unassigned}
Known(d) == place[d] # Nowhere

\* A device is in a group that there is; only the raw operations are given a source,
\* deletion is given no devices, and only "replace" may be given none.
Init ==
    /\ groups \in SUBSET (Places \union Accesses)
    /\ place \in [Devices -> (groups \intersect Places) \union {Unassigned, Nowhere}]
    /\ access \in [Accesses -> SUBSET {d \in Devices : Known(d)}]
    /\ \A a \in Accesses \ groups : access[a] = {}
    /\ tool \in Tools /\ target \in Groups /\ source \in Groups /\ wanted \in SUBSET Devices
    /\ tool \notin {"move", "copy"} => source = Unassigned
    /\ tool = "delete" => wanted = {}
    /\ tool \notin {"delete", "replace"} => wanted # {}
    /\ pc = "read"
    /\ seen = {} /\ left = {} /\ found = [d \in {} |-> Nowhere]
    /\ tries = 0
    /\ result = "none"
    /\ disturbed = FALSE
    /\ moves = 0
    /\ mishaps = {}

--------------------------------------------------------------------------------
(* Pieces of the steps. *)

Report(what) ==
    /\ pc' = "done"
    /\ result' = what

Goto(where) ==
    /\ pc' = where
    /\ UNCHANGED result

Meets(fault) ==
    /\ fault \in Faults
    /\ mishaps' = mishaps \union {fault}

Fine == UNCHANGED mishaps

\* What a call of cnc_set_device_group_members removes and looks for.
ToRemove_All == {d \in seen : tool = "remove" <=> d \in wanted}
ToRemove == {d \in seen : \/ tool = "replace" /\ d \notin wanted
                          \/ tool = "remove" /\ d \in wanted}
Pending == wanted \ (seen \union DOMAIN found)

\* Removals come first, then the additions; when there are none the call is over.
GoWrite(additions) ==
    \/ ToRemove # {} /\ Goto("remove")
    \/ ToRemove = {} /\ additions /\ Goto("add")
    \/ ToRemove = {} /\ ~additions /\ Report("same")

--------------------------------------------------------------------------------
(* The grouping service. *)

\* It refuses a write as a whole when one of the devices is not in the group named.
TakesRemoval(devices) == Exists(target) /\ devices \subseteq Members(target)

Copies_Never == FALSE
Copies == \/ tool = "copy"
          \/ tool # "move" /\ target \in Accesses

TakesAddition(from, devices) ==
    /\ Exists(target) /\ Exists(from)
    /\ from \in Leaves
    /\ devices \subseteq Members(from)
    /\ target \in IF Copies THEN Accesses ELSE Leaves

\* A device removed from a location group is unassigned, one removed from an access
\* group stays where it is.
Removed(devices) ==
    /\ place' = [d \in Devices |->
                   IF target \in Leaves /\ d \in devices THEN Unassigned ELSE place[d]]
    /\ access' = [a \in Accesses |-> IF a = target THEN access[a] \ devices ELSE access[a]]
    /\ UNCHANGED groups

Added(devices) ==
    /\ place' = [d \in Devices |->
                   IF target \in Leaves /\ d \in devices THEN target ELSE place[d]]
    /\ access' = [a \in Accesses |->
                    IF a = target THEN access[a] \union devices ELSE access[a]]
    /\ UNCHANGED groups

\* The members of a group that is deleted are released.
Dropped(g) ==
    /\ groups' = groups \ {g}
    /\ place' = [d \in Devices |-> IF place[d] = g THEN Unassigned ELSE place[d]]
    /\ access' = [a \in Accesses |-> IF a = g THEN {} ELSE access[a]]

--------------------------------------------------------------------------------
(* The reads of the call: nothing is sent when one of them fails. *)

Looking == UNCHANGED <<service, call, tries, disturbed, moves>>

\* read_group() and refuse_system_group(); the target of a raw operation may be a system
\* group.
ReadGroup ==
    /\ pc = "read"
    /\ \/ Meets("read") /\ Report("refused")
       \/ Fine /\ target \in groups /\ Goto("members")
       \/ Fine /\ target = Unassigned /\ tool \in {"move", "copy"} /\ Goto("members")
       \/ Fine /\ target = Unassigned /\ tool \notin {"move", "copy"} /\ Report("refused")
       \/ Fine /\ ~Exists(target) /\ Report("refused")
    /\ UNCHANGED resolution
    /\ Looking

\* all_group_devices(): the windows of a group, read one after the other, are all of its
\* members, unless it has more than MAX_DEVICE_END: then the listing is cut off there, and
\* nothing is said of it.
Listed(group, members) ==
    \/ members = Members(group) /\ Fine
    \/ members # Members(group) /\ Meets("cut")

\* The members of the target are listed, or of the source of a raw operation; what is to be
\* removed, moved or copied has to be there.
ListMembers ==
    LET group == IF tool \in {"move", "copy"} THEN source ELSE target
    IN /\ pc = "members"
       /\ \/ Meets("read") /\ Report("refused") /\ UNCHANGED resolution
          \/ Fine /\ ~Exists(group) /\ Report("refused") /\ UNCHANGED resolution
          \/ \E members \in SUBSET Members(group) :
               /\ Listed(group, members) /\ Exists(group)
               /\ seen' = members
               /\ UNCHANGED left
               /\ \/ tool = "delete" /\ Goto("delete") /\ UNCHANGED found
                  \/ tool \in {"add", "replace"} /\ Goto("tree") /\ UNCHANGED found
                  \/ tool \in {"remove", "move", "copy"} /\ ~(wanted \subseteq members)
                     /\ Report("refused") /\ UNCHANGED found
                  \/ tool = "remove" /\ wanted \subseteq members
                     /\ Goto("remove") /\ UNCHANGED found
                  \/ tool \in {"move", "copy"} /\ wanted \subseteq members
                     /\ Goto("add") /\ found' = [d \in wanted |-> source]
       /\ Looking

\* location_groups(): the tree, with the number of members each group has. It is read
\* only when a device is to be located.
Holding_Places == {g \in Places : Members(g) # {}}
Holding == {g \in Leaves : Members(g) # {}}

ReadTree ==
    /\ pc = "tree"
    /\ \/ Pending = {} /\ Fine /\ GoWrite(FALSE) /\ UNCHANGED left
       \/ Pending # {} /\ Meets("read") /\ Report("refused") /\ UNCHANGED left
       \/ Pending # {} /\ Fine /\ Goto("walk") /\ left' = Holding
    /\ UNCHANGED <<seen, found>>
    /\ Looking

\* locate_devices(): the groups are listed one by one until every device is found.
Walk ==
    /\ pc = "walk" /\ Pending # {}
    /\ \E g \in left :
         /\ left' = left \ {g}
         /\ \/ Meets("read") /\ Report("refused") /\ UNCHANGED found
            \/ Fine /\ ~Exists(g) /\ Report("refused") /\ UNCHANGED found
            \/ \E members \in SUBSET Members(g) :
                 /\ Listed(g, members) /\ Exists(g) /\ Goto("walk")
                 /\ found' = [d \in DOMAIN found \union (Pending \intersect members) |->
                                IF d \in Pending THEN g ELSE found[d]]
    /\ UNCHANGED seen
    /\ Looking

Located ==
    /\ pc = "walk"
    /\ Pending = {} \/ left = {}
    /\ IF Pending = {} THEN GoWrite(TRUE) ELSE Report("unknown")
    /\ Fine /\ UNCHANGED resolution
    /\ Looking

--------------------------------------------------------------------------------
(* The writes of the call. *)

Writing == UNCHANGED <<call, seen, left, disturbed, moves>>

\* A PUT or DELETE that is not answered is sent again.
Resend ==
    \/ tries < MaxRetries /\ tries' = tries + 1 /\ UNCHANGED <<pc, result>>
    \/ tries = MaxRetries /\ UNCHANGED tries /\ Report("error")

GoOn_Back == Goto("back")
GoOn == IF DOMAIN found = {} THEN Goto("back") ELSE Goto("add")

\* "Partial" counts as success (check_result).
Remove ==
    /\ pc = "remove"
    /\ \/ /\ TakesRemoval(ToRemove) /\ Fine
          /\ Removed(ToRemove) /\ tries' = 0 /\ GoOn
       \/ /\ TakesRemoval(ToRemove) /\ Meets("partial")
          /\ \E some \in SUBSET ToRemove : Removed(some)
          /\ tries' = 0 /\ GoOn
       \/ /\ Meets("reject") \/ (~TakesRemoval(ToRemove) /\ Fine)
          /\ Report("error") /\ UNCHANGED <<service, tries>>
       \/ /\ Meets("lost")
          /\ UNCHANGED service \/ (TakesRemoval(ToRemove) /\ Removed(ToRemove))
          /\ Resend
    /\ UNCHANGED found
    /\ Writing

\* One move or copy per source group; a POST is not sent again.
Add ==
    /\ pc = "add"
    /\ \E from \in {found[d] : d \in DOMAIN found} :
         LET batch == {d \in DOMAIN found : found[d] = from}
             rest == [d \in DOMAIN found \ batch |-> found[d]]
         IN \/ /\ TakesAddition(from, batch) /\ Fine
               /\ Added(batch) /\ found' = rest
               /\ IF batch = DOMAIN found THEN Goto("back") ELSE Goto("add")
            \/ /\ TakesAddition(from, batch) /\ Meets("partial")
               /\ \E some \in SUBSET batch : Added(some)
               /\ found' = rest
               /\ IF batch = DOMAIN found THEN Goto("back") ELSE Goto("add")
            \/ /\ Meets("reject") \/ (~TakesAddition(from, batch) /\ Fine)
               /\ Report("error") /\ UNCHANGED <<service, found>>
            \/ /\ Meets("lost")
               /\ UNCHANGED service \/ (TakesAddition(from, batch) /\ Added(batch))
               /\ Report("error") /\ UNCHANGED found
    /\ UNCHANGED tries
    /\ Writing

\* The rule of the group is read once, before the DELETE.
DeleteGroup ==
    /\ pc = "delete"
    /\ \/ tries = 0 /\ Meets("read") /\ Report("refused") /\ UNCHANGED <<service, tries>>
       \/ target \in groups /\ Fine /\ Dropped(target) /\ Report("ok") /\ UNCHANGED tries
       \/ /\ Meets("reject") \/ (target \notin groups /\ Fine)
          /\ Report("error") /\ UNCHANGED <<service, tries>>
       \/ /\ Meets("lost")
          /\ UNCHANGED service \/ (target \in groups /\ Dropped(target))
          /\ Resend
    /\ UNCHANGED found
    /\ Writing

\* The members are read back, and reported as they are.
ReadBack ==
    /\ pc = "back"
    /\ \/ Meets("read") /\ Report("error")
       \/ Fine /\ ~Exists(target) /\ Report("error")
       \/ Fine /\ Exists(target) /\ Report("ok")
    /\ UNCHANGED resolution
    /\ Looking

--------------------------------------------------------------------------------
(* Everybody else. *)

Other ==
    /\ moves < MaxMoves
    /\ moves' = moves + 1
    /\ disturbed' = (disturbed \/ pc \notin {"read", "done"})
    /\ UNCHANGED <<call, pc, resolution, tries, result, mishaps>>

OtherMoves(d, leaf) ==
    /\ Known(d) /\ Exists(leaf) /\ place[d] # leaf
    /\ place' = [place EXCEPT ![d] = leaf]
    /\ UNCHANGED <<access, groups>>
    /\ Other

OtherShares(d, a) ==
    /\ Known(d) /\ a \in groups
    /\ \E members \in {access[a] \union {d}, access[a] \ {d}} :
         access' = [access EXCEPT ![a] = members]
    /\ UNCHANGED <<place, groups>>
    /\ Other

OtherDeletes(g) ==
    /\ g \in groups
    /\ Dropped(g)
    /\ Other

Step == ReadGroup \/ ListMembers \/ ReadTree \/ Walk \/ Located \/ Remove \/ Add
        \/ DeleteGroup \/ ReadBack

Next ==
    \/ Step
    \/ \E d \in Devices : \E leaf \in Leaves : OtherMoves(d, leaf)
    \/ \E d \in Devices : \E a \in Accesses : OtherShares(d, a)
    \/ \E g \in groups : OtherDeletes(g)

Spec == Init /\ [][Next]_vars

--------------------------------------------------------------------------------
(* Properties. *)

\* What the call was to make of its target, given the members it listed.
Achieved(members) ==
    /\ tool = "replace" => members = wanted
    /\ tool = "add" => members = seen \union wanted
    /\ tool = "remove" => members = seen \ wanted
    /\ tool \in {"move", "copy"} => wanted \subseteq members
    /\ tool = "delete" => members = {}

\* A call that reports success has done exactly what it was asked to: replace leaves the
\* devices named and no others, add and remove leave the rest of the members alone, and
\* that over a removal, a walk of the tree and several moves; unless somebody else wrote
\* meanwhile, the service answered that it had done a part only, or a group has more
\* members than a listing gives.
SuccessIsExact ==
    [][result = "none" /\ result' \in {"ok", "same"}
          /\ ~disturbed /\ {"partial", "cut"} \intersect mishaps = {}
        => Achieved(Members(target)')]_vars

\* Whoever else writes, and whatever is not answered: the call takes no device anywhere
\* but those it names, and those it listed when it replaces. (Deletion releases whatever
\* there is.)
TouchesOnlyNamed ==
    [][(Remove \/ Add) =>
          \A d \in Devices \ (wanted \union IF tool = "replace" THEN seen ELSE {}) :
            /\ place'[d] = place[d]
            /\ \A a \in Accesses : d \in access'[a] <=> d \in access[a]]_vars

\* "no LocationDevices group holds: ... unknown host names / uuids?" is said only of
\* devices that there are not: the walk that lists one group after the other misses none,
\* unless somebody else moves devices during it, or a group has more members than a
\* listing gives.
UnknownIsUnknown ==
    result = "unknown" /\ ~disturbed /\ "cut" \notin mishaps => \E d \in wanted : ~Known(d)

\* A call that passed its checks fails only because of a misfortune or of somebody else:
\* in particular the removal of a call does not get in the way of its own moves.
\* (Of the raw operations the caller may ask for what the service refuses.)
FailsForACause ==
    result = "error" => disturbed \/ mishaps # {} \/ tool \in {"move", "copy"}
================================================================================
