------------------------------ MODULE RecordUpdate ------------------------------
(***************************************************************************)
(* The update tools that send a whole record back, for PUT on these         *)
(* services replaces all of it: a performance policy ("policy"), a table of *)
(* the data retention ("retention"), a ZTP profile ("profile"), a ZTP       *)
(* device ("device") and an alarm suppression policy ("suppression").       *)
(*                                                                         *)
(* Each reads the record, refuses what it can tell will go wrong, puts the  *)
(* given values over what it read, sends the complete body, which the       *)
(* client sends again when it gets no answer, and reads the record back.    *)
(* Other calls, and people, work on the same records between these steps:   *)
(* the services know neither versions nor preconditions.                    *)
(*                                                                         *)
(* A record is a few fields, the name among them, and a state of its own:   *)
(* a policy is active or not, a ZTP device has begun to boot or not.  What   *)
(* is sent for a ZTP device is the form a device is created with, filled in  *)
(* from the record: it has one serial and no Option 82, and a device that    *)
(* names a profile takes its configuration, version and family from there.   *)
(***************************************************************************)
EXTENDS Naturals, TLC

CONSTANTS
    Kinds,          \* what is updated
    Ids,            \* the records there may be
    Fields,         \* of a record, its name among them
    Metadata,       \* those a ZTP device that names a profile takes from the profile
    Values,         \* of a field
    Calls,          \* calls of the update tool
    MaxRetries,     \* settings.max_retries
    MaxMoves,       \* bound: what others do meanwhile
    MaxFaults       \* bound: requests that fail or are not answered

AllKinds == {"policy", "retention", "profile", "device", "suppression"}

ASSUME UpdateAssumption ==
    /\ Kinds \subseteq AllKinds
    /\ "name" \in Fields
    /\ Metadata \subseteq Fields \ {"name"}
    /\ MaxRetries \in Nat
    /\ MaxMoves \in Nat
    /\ MaxFaults \in Nat

States == {"off", "on"}

\* bound: a ZTP device names a profile; extra: it has further serials or Option 82.
Records == [fields : [Fields -> Values], state : States, bound : BOOLEAN, extra : BOOLEAN]

\* The values a call is given; a field that is left out is kept.
Changes == UNION {[given -> Values] : given \in SUBSET Fields}

\* The profile_name of a ZTP device: left out, a name, or ''.
Rebinds == {"keep", "bind", "unbind"}

PartialFunctions(S, T) == UNION {[D -> T] : D \in SUBSET S}
PCs == {"read", "names", "put", "back", "done"}
Results == {"none", "refused", "nothing", "updated", "error", "mismatch"}

VARIABLES
    kind,       \* which of the tools, and of the services, this run is about
    records,    \* the records the service keeps, by their id
    used,       \* the ids it has given out
    target,     \* the record each call is to change
    change,     \* and what it was given
    rebind,     \* and whether that is a profile
    pc,         \* where each call stands
    snap,       \* the record each call has read
    tries,      \* re-sends of each call's PUT
    result,     \* what each call reported
    overlapped, \* whether somebody else wrote after the call had read
    moves,      \* what others have done so far
    faults,     \* requests that have gone wrong so far
    wrong       \* whether the last request of each call was one of them

asked == <<kind, target, change, rebind>>
failures == <<faults, wrong>>
vars == <<asked, records, used, pc, snap, tries, result, overlapped, moves, failures>>

TypeOK ==
    /\ kind \in Kinds
    /\ records \in PartialFunctions(Ids, Records)
    /\ used \in SUBSET Ids
    /\ target \in [Calls -> Ids]
    /\ change \in [Calls -> Changes]
    /\ rebind \in [Calls -> Rebinds]
    /\ pc \in [Calls -> PCs]
    /\ snap \in PartialFunctions(Calls, Records)
    /\ tries \in [Calls -> 0 .. MaxRetries]
    /\ result \in [Calls -> Results]
    /\ overlapped \in [Calls -> BOOLEAN]
    /\ moves \in 0 .. MaxMoves
    /\ faults \in 0 .. MaxFaults
    /\ wrong \in [Calls -> BOOLEAN]

NameOf(i) == records[i].fields["name"]
InUse(name) == \E i \in DOMAIN records : NameOf(i) = name

\* Only policies and ZTP devices have a new name, only devices a profile, and something
\* has to be given.
Askable(c) ==
    /\ "name" \in DOMAIN change[c] => kind \in {"policy", "device"}
    /\ rebind[c] # "keep" => kind = "device"
    /\ DOMAIN change[c] # {} \/ rebind[c] # "keep"

\* The state is one of policies and of devices, the profile and the rest of devices.
Possible(rec) ==
    /\ rec.state = "on" => kind \in {"policy", "device"}
    /\ rec.bound \/ rec.extra => kind = "device"

\* The names of what there is differ; retention tables are always there.
Init ==
    /\ kind \in Kinds
    /\ records \in PartialFunctions(Ids, Records)
    /\ \A i, j \in DOMAIN records : NameOf(i) = NameOf(j) => i = j
    /\ \A i \in DOMAIN records : Possible(records[i])
    /\ kind = "retention" => DOMAIN records = Ids
    /\ used = DOMAIN records
    /\ target \in [Calls -> Ids]
    /\ change \in [Calls -> Changes]
    /\ rebind \in [Calls -> Rebinds]
    /\ \A c \in Calls : Askable(c)
    /\ pc = [c \in Calls |-> "read"]
    /\ snap = <<>>
    /\ tries = [c \in Calls |-> 0]
    /\ result = [c \in Calls |-> "none"]
    /\ overlapped = [c \in Calls |-> FALSE]
    /\ moves = 0
    /\ faults = 0
    /\ wrong = [c \in Calls |-> FALSE]

--------------------------------------------------------------------------------
(* Pieces of the steps. *)

Report(c, what) ==
    /\ pc' = [pc EXCEPT ![c] = "done"]
    /\ result' = [result EXCEPT ![c] = what]

Goto(c, where) ==
    /\ pc' = [pc EXCEPT ![c] = where]
    /\ UNCHANGED result

\* A request of the call goes wrong, or it does not.
Misfortune(c) ==
    /\ faults < MaxFaults
    /\ faults' = faults + 1
    /\ wrong' = [wrong EXCEPT ![c] = TRUE]
Fine(c) ==
    /\ wrong' = [wrong EXCEPT ![c] = FALSE]
    /\ UNCHANGED faults

\* The values of f, and where it has none those of g.
Over(f, g) == [x \in DOMAIN f \union DOMAIN g |-> IF x \in DOMAIN f THEN f[x] ELSE g[x]]

Window == {c \in Calls : pc[c] \in {"names", "put", "back"}}
Overlaps(others) == overlapped' = [c \in Calls |-> overlapped[c] \/ c \in others]

\* The complete record: the values given, over those that were read.
Merged(c) == Over(change[c], snap[c].fields)

\* A ZTP device keeps its form, or is given another.
Bound_AsNamed(c) == rebind[c] = "bind"
Bound(c) == IF rebind[c] = "keep" THEN snap[c].bound ELSE rebind[c] = "bind"
Sent(c) == IF Bound(c) THEN Fields \ Metadata ELSE Fields

\* What the record is after a PUT: what was sent, and copies of what is the profile's.
\* The body of a policy carries its activation state too; that of a ZTP device is the
\* form, which has nothing extra.
Written(c, copies) == [f \in Fields |-> IF f \in Sent(c) THEN Merged(c)[f] ELSE copies[f]]
Body(c, copies) ==
    [fields |-> Written(c, copies), state |-> snap[c].state, bound |-> Bound(c), extra |-> FALSE]

Differs(c, found) == \E f \in DOMAIN change[c] : change[c][f] # found.fields[f]
NewName(c, found) == "name" \in DOMAIN change[c] /\ change[c]["name"] # found.fields["name"]

\* The name belongs to another policy.
NameTaken(c) == \E i \in DOMAIN records \ {target[c]} : NameOf(i) = change[c]["name"]

--------------------------------------------------------------------------------
(* The service. *)

\* A ZTP profile is looked up by its name, and written under the id of the body, known
\* or not; a suppression policy has no id but its name; the ZTP device of an update must
\* not have begun to boot.
Targets(c) ==
    CASE kind = "profile" -> {i \in {target[c]} : InUse(Merged(c)["name"])}
      [] kind = "suppression" -> {i \in DOMAIN records : NameOf(i) = Merged(c)["name"]}
      [] kind = "device" -> {i \in DOMAIN records : i = target[c] /\ records[i].state = "off"}
      [] OTHER -> {target[c]} \intersect DOMAIN records

\* The body's active is the activation state of a policy.
Replaced(i, body) ==
    [body EXCEPT !.state = IF kind # "policy" /\ i \in DOMAIN records THEN records[i].state
                           ELSE @]

\* The profile that is named has whatever it has.
Copies(c) == [Fields \ Sent(c) -> Values]

Land(c) ==
    /\ \E copies \in Copies(c) :
          records' = Over([i \in Targets(c) |-> Replaced(i, Body(c, copies))], records)
    /\ Overlaps(Window \ {c})

--------------------------------------------------------------------------------
(* An update call. *)

\* The read finds no such record, or fails; nothing is sent.
ReadFails(c) ==
    /\ Report(c, "refused")
    /\ UNCHANGED snap

\* A device that has begun to boot is refused, a policy whose values are already so left
\* alone, and a new name for one looked up.
ReadFound(c) ==
    /\ target[c] \in DOMAIN records
    /\ LET found == records[target[c]] IN
         /\ snap' = Over([d \in {c} |-> found], snap)
         /\ \/ kind = "policy" /\ ~Differs(c, found) /\ Report(c, "nothing")
            \/ kind = "policy" /\ NewName(c, found) /\ Goto(c, "names")
            \/ kind = "policy" /\ Differs(c, found) /\ ~NewName(c, found) /\ Goto(c, "put")
            \/ kind = "device" /\ found.state = "on" /\ Report(c, "refused")
            \/ kind = "device" /\ found.state = "off" /\ Goto(c, "put")
            \/ kind \notin {"policy", "device"} /\ Goto(c, "put")

Read(c) ==
    /\ pc[c] = "read"
    /\ ReadFails(c) \/ ReadFound(c)
    /\ UNCHANGED <<asked, records, used, tries, overlapped, moves, failures>>

\* The platform checks names when a policy is created only, so the tool lists them; the
\* list can fail too.
CheckName(c) ==
    /\ pc[c] = "names"
    /\ Report(c, "refused") \/ (~NameTaken(c) /\ Goto(c, "put"))
    /\ UNCHANGED <<asked, records, used, snap, tries, overlapped, moves, failures>>

\* The update of a suppression policy is not read back.
Answered(c) ==
    /\ Targets(c) # {}
    /\ Land(c)
    /\ \/ kind = "suppression" /\ Report(c, "updated")
       \/ kind # "suppression" /\ Goto(c, "back")
    /\ Fine(c)
    /\ UNCHANGED tries

\* The ZTP and alarm services answer an error in the body of a 200, retention false.
Rejected_Unnoticed(c) ==
    /\ Misfortune(c) \/ (Targets(c) = {} /\ Fine(c))
    /\ Goto(c, "back")
    /\ UNCHANGED <<records, tries, overlapped>>
Rejected(c) ==
    /\ Misfortune(c) \/ (Targets(c) = {} /\ Fine(c))
    /\ Report(c, "error")
    /\ UNCHANGED <<records, tries, overlapped>>

MayResend(c) == tries[c] < MaxRetries

\* No answer: the change may have been made, and PUT is sent again.
Unanswered(c) ==
    /\ Misfortune(c)
    /\ Land(c) \/ UNCHANGED <<records, overlapped>>
    /\ IF MayResend(c) THEN tries' = [tries EXCEPT ![c] = @ + 1] /\ Goto(c, "put")
       ELSE UNCHANGED tries /\ Report(c, "error")

Put(c) ==
    /\ pc[c] = "put"
    /\ Answered(c) \/ Rejected(c) \/ Unanswered(c)
    /\ UNCHANGED <<asked, used, snap, moves>>

\* What is read back is reported; of a retention table it has to be what was sent.
AsSent_OrAsRead(c) == records[target[c]].fields = snap[c].fields
AsSent(c) == \A f \in Sent(c) : records[target[c]].fields[f] = Merged(c)[f]

ReadBack(c) ==
    /\ pc[c] = "back"
    /\ \/ Misfortune(c) /\ Report(c, "error")
       \/ /\ Fine(c)
          /\ \/ kind = "policy" /\ target[c] \notin DOMAIN records /\ Report(c, "error")
             \/ kind = "policy" /\ target[c] \in DOMAIN records /\ Report(c, "updated")
             \/ kind = "retention" /\ AsSent(c) /\ Report(c, "updated")
             \/ kind = "retention" /\ ~AsSent(c) /\ Report(c, "mismatch")
             \/ kind \in {"profile", "device"} /\ Report(c, "updated")
    /\ UNCHANGED <<asked, records, used, snap, tries, overlapped, moves>>

--------------------------------------------------------------------------------
(* Meanwhile: other tools, and people at the platform. *)

Meanwhile ==
    /\ moves < MaxMoves
    /\ moves' = moves + 1
    /\ Overlaps(Window)
    /\ UNCHANGED <<asked, pc, snap, tries, result, failures>>

\* The platform refuses to create a second record of the same name, and gives every
\* record an id of its own.
Create(i, rec) ==
    /\ kind # "retention"
    /\ i \notin used
    /\ ~InUse(rec.fields["name"])
    /\ rec.state = "off"
    /\ Possible(rec)
    /\ records' = Over([j \in {i} |-> rec], records)
    /\ used' = used \union {i}
    /\ Meanwhile

Delete(i) ==
    /\ kind # "retention"
    /\ i \in DOMAIN records
    /\ records' = [j \in DOMAIN records \ {i} |-> records[j]]
    /\ UNCHANGED used
    /\ Meanwhile

\* An edit, or a reset of the retention. The platform takes any new name for a policy,
\* but nobody else calls two of them the same.
Edit(i, rec) ==
    /\ i \in DOMAIN records
    /\ rec # records[i]
    /\ rec.state = records[i].state
    /\ Possible(rec)
    /\ \/ rec.fields["name"] = NameOf(i)
       \/ kind \in {"policy", "device"} /\ ~InUse(rec.fields["name"])
    /\ records' = [records EXCEPT ![i] = rec]
    /\ UNCHANGED used
    /\ Meanwhile

\* A policy is activated or deactivated, a device begins to boot.
Switch(i) ==
    /\ i \in DOMAIN records
    /\ kind = "policy" \/ (kind = "device" /\ records[i].state = "off")
    /\ records' = [records EXCEPT ![i].state = CHOOSE s \in States : s # @]
    /\ UNCHANGED used
    /\ Meanwhile

Step(c) == Read(c) \/ CheckName(c) \/ Put(c) \/ ReadBack(c)

Next ==
    \/ \E c \in Calls : Step(c)
    \/ \E i \in Ids :
          \/ \E rec \in Records : Create(i, rec) \/ Edit(i, rec)
          \/ Delete(i)
          \/ Switch(i)

Spec == Init /\ [][Next]_vars

--------------------------------------------------------------------------------
(* Properties. *)

\* What a PUT may make of a record: the values given are put in, and what was not given
\* is kept.  A ZTP device keeps its form, or has the one it was given; what is then the
\* profile's is not its own, and what the form does not have is given up.
Keeps(c, old, new) ==
    /\ new.state = old.state
    /\ new.bound = (IF rebind[c] = "keep" THEN old.bound ELSE rebind[c] = "bind")
    /\ \A f \in IF new.bound THEN Fields \ Metadata ELSE Fields :
          new.fields[f] = Over(change[c], old.fields)[f]
    /\ kind # "device" => new.extra = old.extra

\* "omit to keep": a PUT changes nothing but what the call was given, although it
\* writes the whole record, and writes it again when it was not answered, as long as
\* nobody wrote between the read and the PUT: the policy stays active, the device keeps
\* its form and, when it leaves its profile, what it had from there, the profile keeps
\* its fields, and no second record comes into being.
UpdateKeepsTheRest ==
    [][\A c \in Calls :
          Put(c) /\ ~overlapped[c] =>
            \/ UNCHANGED records
            \/ /\ \A i \in Ids \ {target[c]} :
                     i \in DOMAIN records' \union DOMAIN records =>
                       i \in DOMAIN records' /\ i \in DOMAIN records /\ records'[i] = records[i]
               /\ target[c] \in DOMAIN records /\ target[c] \in DOMAIN records'
               /\ Keeps(c, records[target[c]], records'[target[c]])]_vars

\* Whether the record has the values a call was given, and the form.
HasGiven(c, rec) ==
    /\ \A f \in DOMAIN change[c] : rec.fields[f] = change[c][f]
    /\ rebind[c] # "keep" => rec.bound = (rebind[c] = "bind")

\* A call that says it updated the record has: whatever was not answered or answered as
\* an error on the way, the record then has the values given, unless somebody else wrote
\* or the values are not the device's own, for it names a profile.
UpdatedIsWritten ==
    [][\A c \in Calls :
          result[c] = "none" /\ result'[c] = "updated" /\ ~overlapped[c] =>
            \/ HasGiven(c, records'[target[c]])
            \/ records'[target[c]].bound /\ DOMAIN change[c] \intersect Metadata # {}]_vars

\* Two policies have the same name only because a call was renaming one while somebody
\* else wrote: the list of names was read first.
NamesStayUnique ==
    kind = "policy" =>
      \A i, j \in DOMAIN records :
        i # j /\ NameOf(i) = NameOf(j) => \E c \in Calls : overlapped[c]

\* An update that passed its checks fails only because somebody else wrote meanwhile, or
\* because the very request that fails went wrong at the service or on the way: a PUT
\* that is sent again, because its first copy was not answered, is not refused for what
\* that copy did, and what is read back of a retention table is what was sent.
FailsForACause ==
    \A c \in Calls :
      result[c] \in {"error", "mismatch"} => overlapped[c] \/ wrong[c]
================================================================================
