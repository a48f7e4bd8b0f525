-------------------------- MODULE GroupMembers_proofs --------------------------
(***************************************************************************)
(* The safety properties of GroupMembers, for any devices, groups, call,    *)
(* number of retries, and any number of writes of others.                   *)
(*                                                                         *)
(* The inductive invariant has four parts: what the call can be at each     *)
(* step (Shape), what the walk still has to look at (Walked), what the      *)
(* target has come to while nobody else writes (Tracked), and that the      *)
(* requests still to be sent will be taken while nothing has gone wrong     *)
(* (Clean).                                                                 *)
(***************************************************************************)
EXTENDS GroupMembers, TLAPS

Shape ==
    /\ DOMAIN found \subseteq wanted
    /\ pc \in {"read", "members", "tree", "delete"} => DOMAIN found = {}
    /\ pc \in {"tree", "walk"} => tool \in {"add", "replace"}
    /\ pc = "remove" => tool \in {"replace", "remove"}
    /\ pc = "remove" /\ tool = "remove" => wanted \subseteq seen /\ DOMAIN found = {}
    /\ pc = "remove" /\ tool = "replace" => wanted \subseteq seen \union DOMAIN found
    /\ pc = "add" => tool \in {"add", "replace", "move", "copy"}
    /\ pc = "delete" => tool = "delete"
    /\ pc = "back" => tool # "delete"
    /\ pc \notin {"read", "done"} /\ tool \notin {"move", "copy"} => target # Unassigned
    /\ tool \in {"add", "replace"} => DOMAIN found \intersect seen = {}
    /\ result # "none" <=> pc = "done"

Walked ==
    /\ pc = "walk" /\ ~disturbed /\ "cut" \notin mishaps =>
         \A d \in Pending : Known(d) => place[d] \in left
    /\ result = "unknown" /\ ~disturbed /\ "cut" \notin mishaps =>
         \E d \in wanted : ~Known(d)

Calm == ~disturbed /\ {"partial", "cut"} \intersect mishaps = {}

Tracked ==
    Calm =>
      /\ pc \in {"tree", "walk"} => Members(target) = seen
      /\ pc = "remove" => Members(target) \in {seen, seen \ ToRemove}
      /\ pc = "add" /\ tool \in {"add", "replace"} =>
           Members(target) = (seen \ ToRemove) \union (wanted \ (seen \union DOMAIN found))
      /\ pc \in {"add", "back"} /\ tool \in {"move", "copy"} =>
           wanted \ DOMAIN found \subseteq Members(target)
      /\ pc = "back" => Achieved(Members(target))

Clean ==
    ~disturbed /\ mishaps = {} /\ tool \notin {"move", "copy"} =>
      /\ pc \notin {"read", "done"} => target \in groups
      /\ pc = "remove" => Members(target) = seen
      /\ pc \in {"walk", "remove", "add"} =>
           \A d \in DOMAIN found :
             place[d] = found[d] /\ found[d] \in Leaves /\ Exists(found[d])
      /\ result # "error"

USE GroupsAssumption

-----------------------------------------------------------------------------
(* What the members of a group are, and what the writes of the service make *)
(* of them.                                                                 *)

\* A removal takes exactly the devices named from the group.
LEMMA RemovalRemoves ==
    ASSUME TypeOK, UNCHANGED target, target # Unassigned,
           NEW some \in SUBSET Devices, Removed(some)
    PROVE  Members(target)' = Members(target) \ some
BY DEF TypeOK, Removed, Members, Leaves, Groups

\* A move or copy adds exactly the devices named.
LEMMA AdditionAdds ==
    ASSUME TypeOK, UNCHANGED target, NEW some \in SUBSET Devices, Added(some)
    PROVE  Members(target)' = Members(target) \union some
BY DEF TypeOK, Added, Members, Leaves, Groups

\* Deletion releases the members of a group.
LEMMA DeletionReleases ==
    ASSUME TypeOK, UNCHANGED target, target \in groups, Dropped(target)
    PROVE  Members(target)' = {}
BY DEF TypeOK, Dropped, Members, Leaves, Groups

-----------------------------------------------------------------------------
(* Type correctness, and the shape of a call. *)

THEOREM TypeAndShape == Spec => [](TypeOK /\ Shape)
<1>1. Init => TypeOK /\ Shape
  <2> SUFFICES ASSUME Init
               PROVE  TypeOK /\ Shape
    OBVIOUS
  <2>1. place \in [Devices -> Leaves \union {Nowhere}]
    BY DEF Init, Leaves
  <2>2. access \in [Accesses -> SUBSET Devices]
    BY DEF Init
  <2>3. DOMAIN found = {} /\ seen = {} /\ pc = "read" /\ result = "none"
    BY DEF Init
  <2>4. /\ groups \in SUBSET (Places \union Accesses)
        /\ tool \in Tools /\ target \in Groups /\ source \in Groups /\ wanted \in SUBSET Devices
        /\ left = {} /\ tries = 0 /\ disturbed = FALSE /\ moves = 0 /\ mishaps = {}
    BY DEF Init
  <2>5. TypeOK
    <3>1. tries \in 0 .. MaxRetries
      BY <2>4
    <3>2. moves \in 0 .. MaxMoves
      BY <2>4
    <3>3. seen \in SUBSET Devices /\ left \in SUBSET Leaves /\ mishaps \in SUBSET Faults
      BY <2>3, <2>4
    <3>4. DOMAIN found \subseteq Devices /\ \A d \in DOMAIN found : found[d] \in Groups
      BY <2>3
    <3>5. pc \in PCs /\ result \in Results
      BY <2>3 DEF PCs, Results
    <3>6. disturbed \in BOOLEAN
      BY <2>4
    <3> QED
      BY <2>1, <2>2, <2>4, <3>1, <3>2, <3>3, <3>4, <3>5, <3>6 DEF TypeOK
  <2>6. Shape
    BY <2>3 DEF Shape
  <2> QED
    BY <2>5, <2>6
<1>2. TypeOK /\ Shape /\ [Next]_vars => (TypeOK /\ Shape)'
  <2> SUFFICES ASSUME TypeOK, Shape, [Next]_vars
               PROVE  TypeOK' /\ Shape'
    OBVIOUS
  <2> USE DEF TypeOK, Shape, Leaves, Groups, PCs, Results, AllTools
  <2>1. CASE ReadGroup
    BY <2>1 DEF ReadGroup, Meets, Fine, Report, Goto, Looking, resolution, service, call, Exists
  <2>2. CASE ListMembers
    BY <2>2 DEF ListMembers, Listed, Members, Meets, Fine, Report, Goto, Looking, resolution,
         service, call
  <2>3. CASE ReadTree
    BY <2>3 DEF ReadTree, Holding, GoWrite, ToRemove, Pending, Meets, Fine, Report, Goto,
         Looking, service, call
  <2>4. CASE Walk
    <3> USE <2>4 DEF Walk, Looking, service, call
    <3>1. mishaps' \in SUBSET Faults /\ left' \subseteq left /\ seen' = seen
      BY DEF Listed, Meets, Fine
    <3>2. pc' \in {"walk", "done"} /\ (result' # "none" <=> pc' = "done")
      BY DEF Report, Goto
    <3>3. \/ found' = found
          \/ \E g \in left : \E members \in SUBSET Members(g) :
               found' = [d \in DOMAIN found \union (Pending \intersect members) |->
                          IF d \in Pending THEN g ELSE found[d]]
      OBVIOUS
    <3>4. /\ DOMAIN found' \subseteq Devices
          /\ \A d \in DOMAIN found' : found'[d] \in Groups
          /\ DOMAIN found' \subseteq wanted
          /\ DOMAIN found' \intersect seen = {}
      BY <3>3 DEF Pending
    <3>5. result' \in Results
      BY DEF Report, Goto
    <3> QED
      BY <3>1, <3>2, <3>4, <3>5
  <2>5. CASE Located
    BY <2>5 DEF Located, GoWrite, ToRemove, Pending, Fine, Report, Goto, Looking, resolution,
         service, call
  <2>6. CASE Remove
    BY <2>6 DEF Remove, Removed, ToRemove, Resend, GoOn, Meets, Fine, Report, Goto, Writing,
         service, call
  <2>7. CASE Add
    BY <2>7 DEF Add, Added, Meets, Fine, Report, Goto, Writing, service, call
  <2>8. CASE DeleteGroup
    BY <2>8 DEF DeleteGroup, Dropped, Resend, Meets, Fine, Report, Goto, Writing, service, call
  <2>9. CASE ReadBack
    BY <2>9 DEF ReadBack, Meets, Fine, Report, Goto, Looking, resolution, service, call
  <2>10. ASSUME NEW d \in Devices, NEW leaf \in Leaves, OtherMoves(d, leaf)
         PROVE  TypeOK' /\ Shape'
    BY <2>10 DEF OtherMoves, Other, resolution, call
  <2>11. ASSUME NEW d \in Devices, NEW a \in Accesses, OtherShares(d, a)
         PROVE  TypeOK' /\ Shape'
    BY <2>11 DEF OtherShares, Other, resolution, call
  <2>12. ASSUME NEW g \in groups, OtherDeletes(g)
         PROVE  TypeOK' /\ Shape'
    BY <2>12 DEF OtherDeletes, Dropped, Other, resolution, call
  <2>13. CASE UNCHANGED vars
    BY <2>13 DEF vars, service, call, resolution
  <2> QED
    BY <2>1, <2>2, <2>3, <2>4, <2>5, <2>6, <2>7, <2>8, <2>9, <2>10, <2>11, <2>12, <2>13
       DEF Next, Step
<1> QED
  BY <1>1, <1>2, PTL DEF Spec

-----------------------------------------------------------------------------
(* The walk. *)

\* A device that is in a leaf is one of its members.
LEMMA Home ==
    ASSUME TypeOK, NEW d \in Devices, Known(d)
    PROVE  place[d] \in Leaves /\ d \in Members(place[d])
BY DEF TypeOK, Known, Members, Leaves

\* The walk that lists one location group after the other reports no device as unknown
\* that there is (locate_devices).
THEOREM WalkMissesNone == Spec => []UnknownIsUnknown
<1>1. Init => Walked
  BY DEF Init, Walked
<1>2. TypeOK /\ Shape /\ Walked /\ [Next]_vars => Walked'
  <2> SUFFICES ASSUME TypeOK, Shape, Walked, [Next]_vars
               PROVE  Walked'
    OBVIOUS
  <2>1. CASE ReadTree
    <3> USE <2>1 DEF ReadTree, Meets, Fine, Looking, service, call
    <3>1. result' # "unknown"
      BY DEF GoWrite, Report, Goto, Shape
    <3>2. ASSUME pc' = "walk", NEW d \in Pending', Known(d)'
          PROVE  place'[d] \in left'
      <4>1. left' = Holding
        BY <3>2 DEF GoWrite, Report, Goto
      <4>2. d \in Devices /\ Known(d) /\ place' = place
        BY <3>2 DEF Pending, Known, TypeOK
      <4>3. place[d] \in Leaves /\ d \in Members(place[d])
        BY <4>2, Home
      <4> QED
        BY <4>1, <4>2, <4>3 DEF Holding
    <3> QED
      BY <3>1, <3>2 DEF Walked
  <2>2. CASE Walk
    <3> USE <2>2 DEF Walk, Looking, service, call
    <3>1. result' # "unknown"
      BY DEF Meets, Fine, Report, Goto, Shape
    <3>2. ASSUME pc' = "walk", ~disturbed', "cut" \notin mishaps', NEW d \in Pending',
                 Known(d)'
          PROVE  place'[d] \in left'
      <4>1. PICK g \in left :
              /\ left' = left \ {g}
              /\ DOMAIN found' = DOMAIN found \union (Pending \intersect Members(g))
        BY <3>2 DEF Listed, Meets, Fine, Report, Goto
      <4>2. /\ d \in Devices /\ Known(d) /\ place' = place /\ d \in wanted
            /\ ~disturbed /\ "cut" \notin mishaps
        BY <3>2 DEF Listed, Meets, Fine, Pending, Known, TypeOK
      <4>3. d \in Pending /\ d \notin Members(g)
        BY <3>2, <4>1 DEF Pending
      <4>4. place[d] \in left
        BY <4>2, <4>3 DEF Walked
      <4>5. d \in Members(place[d])
        BY <4>2, Home
      <4> QED
        BY <4>1, <4>2, <4>3, <4>4, <4>5
    <3> QED
      BY <3>1, <3>2 DEF Walked
  <2>3. CASE Located
    <3> USE <2>3 DEF Located, Looking, service, call, resolution
    <3>1. pc' # "walk"
      BY DEF GoWrite, Report, Goto
    <3>2. ASSUME result' = "unknown", ~disturbed', "cut" \notin mishaps'
          PROVE  \E d \in wanted' : ~Known(d)'
      <4>1. Pending # {} /\ left = {} /\ ~disturbed /\ "cut" \notin mishaps
        BY <3>2 DEF GoWrite, Fine, Report, Goto, Shape
      <4>2. PICK d \in Pending : TRUE
        BY <4>1
      <4>3. ~Known(d) /\ d \in wanted
        BY <4>1, <4>2 DEF Walked, Pending
      <4> QED
        BY <4>3 DEF Known
    <3> QED
      BY <3>1, <3>2 DEF Walked
  <2>4. CASE ReadGroup \/ ListMembers
    BY <2>4 DEF ReadGroup, ListMembers, Meets, Fine, Report, Goto, Shape, Walked
  <2>5. CASE Remove \/ Add
    BY <2>5 DEF Remove, Add, GoOn, Resend, Meets, Fine, Report, Goto, Shape, Walked
  <2>6. CASE DeleteGroup \/ ReadBack
    BY <2>6 DEF DeleteGroup, ReadBack, Resend, Meets, Fine, Report, Goto, Shape, Walked
  <2>7. ASSUME Other, \A d \in Devices : Known(d)' <=> Known(d)
        PROVE  Walked'
    <3>1. pc # "walk" \/ disturbed'
      BY <2>7 DEF Other
    <3> QED
      BY <2>7, <3>1 DEF Other, call, resolution, Walked, TypeOK, Shape
  <2>8. ASSUME NEW d \in Devices, NEW leaf \in Leaves, OtherMoves(d, leaf)
        PROVE  Walked'
    BY <2>7, <2>8 DEF OtherMoves, Known, Leaves, TypeOK
  <2>9. ASSUME NEW d \in Devices, NEW a \in Accesses, OtherShares(d, a)
        PROVE  Walked'
    BY <2>7, <2>9 DEF OtherShares, Known
  <2>10. ASSUME NEW g \in groups, OtherDeletes(g)
         PROVE  Walked'
    BY <2>7, <2>10 DEF OtherDeletes, Dropped, Known, TypeOK
  <2>11. CASE UNCHANGED vars
    BY <2>11 DEF vars, service, call, resolution, Walked, Pending, Known
  <2> QED
    BY <2>1, <2>2, <2>3, <2>4, <2>5, <2>6, <2>8, <2>9, <2>10, <2>11 DEF Next, Step
<1>3. Walked => UnknownIsUnknown
  BY DEF Walked, UnknownIsUnknown
<1> QED
  BY <1>1, <1>2, <1>3, TypeAndShape, PTL DEF Spec

-----------------------------------------------------------------------------
(* What the call makes of its target. *)

\* Removals take only what was listed, and never what is to be added.
LEMMA RemovalsApart ==
    ASSUME TypeOK, Shape, pc = "remove"
    PROVE  /\ ToRemove \in SUBSET Devices
           /\ ToRemove \subseteq seen
           /\ ToRemove \intersect DOMAIN found = {}
           /\ tool = "remove" => ToRemove \subseteq wanted
BY DEF TypeOK, Shape, ToRemove

\* Whatever others do and whatever is lost, the writes of a call touch the devices it
\* names, and when it replaces those it listed, and no other.
THEOREM OnlyTheNamed == Spec => TouchesOnlyNamed
<1> DEFINE Named == wanted \union IF tool = "replace" THEN seen ELSE {}
           Untouched == \A d \in Devices \ Named :
                          /\ place'[d] = place[d]
                          /\ \A a \in Accesses : d \in access'[a] <=> d \in access[a]
<1>1. ASSUME TypeOK, Shape, NEW some, Removed(some), some \subseteq Named
      PROVE  Untouched
  BY <1>1 DEF Removed, TypeOK
<1>2. ASSUME TypeOK, Shape, NEW some, Added(some), some \subseteq Named
      PROVE  Untouched
  BY <1>2 DEF Added, TypeOK
<1>3. ASSUME TypeOK, UNCHANGED service
      PROVE  Untouched
  BY <1>3 DEF service
<1>4. TypeOK /\ Shape /\ Remove => Untouched
  <2> SUFFICES ASSUME TypeOK, Shape, Remove
               PROVE  Untouched
    OBVIOUS
  <2>1. ToRemove \subseteq Named
    BY RemovalsApart DEF Remove, Shape
  <2>2. \/ UNCHANGED service
        \/ \E some \in SUBSET ToRemove : Removed(some)
    BY DEF Remove
  <2> QED
    BY <2>1, <2>2, <1>1, <1>3
<1>5. TypeOK /\ Shape /\ Add => Untouched
  <2> SUFFICES ASSUME TypeOK, Shape, Add
               PROVE  Untouched
    OBVIOUS
  <2>1. \/ UNCHANGED service
        \/ \E some \in SUBSET DOMAIN found : Added(some)
    BY DEF Add
  <2> QED
    BY <2>1, <1>2, <1>3 DEF Shape
<1>6. TypeOK /\ Shape =>
        [(Remove \/ Add) =>
          \A d \in Devices \ (wanted \union IF tool = "replace" THEN seen ELSE {}) :
            /\ place'[d] = place[d]
            /\ \A a \in Accesses : d \in access'[a] <=> d \in access[a]]_vars
  BY <1>4, <1>5
<1> QED
  BY <1>6, TypeAndShape, PTL DEF TouchesOnlyNamed

\* While a call is left alone its target is, at each of its steps, what it has to be.
LEMMA TrackedStep ==
    ASSUME TypeOK, Shape, Tracked, [Next]_vars
    PROVE  Tracked'
<1>1. CASE ReadGroup
  BY <1>1 DEF ReadGroup, Meets, Fine, Report, Goto, Tracked
<1>2. CASE ListMembers
  <2> USE <1>2 DEF ListMembers, Looking, service, call
  <2>1. pc' \in {"tree", "remove"} /\ Calm' => seen' = Members(target)
    BY DEF Calm, Listed, Meets, Fine, Report, Goto
  <2>2. pc' = "remove" => tool = "remove"
    BY DEF Meets, Fine, Report, Goto
  <2>3. pc' = "add" => tool \in {"move", "copy"} /\ DOMAIN found' = wanted
    BY DEF Meets, Fine, Report, Goto
  <2>4. pc' \in {"tree", "remove", "add", "delete", "done"}
    BY DEF Meets, Fine, Report, Goto
  <2>5. Members(target)' = Members(target)
    BY DEF Members
  <2> QED
    BY <2>1, <2>2, <2>3, <2>4, <2>5 DEF Tracked
<1>3. CASE ReadTree
  <2> USE <1>3 DEF ReadTree, Looking, service, call
  <2>1. Members(target)' = Members(target) /\ seen' = seen
    BY DEF Members
  <2>2. pc' \in {"walk", "remove", "done"}
    BY DEF GoWrite, Meets, Fine, Report, Goto
  <2>3. Calm' => Calm
    BY DEF Calm, Meets, Fine
  <2> QED
    BY <2>1, <2>2, <2>3 DEF Tracked
<1>4. CASE Walk
  <2> USE <1>4 DEF Walk, Looking, service, call
  <2>1. Members(target)' = Members(target) /\ seen' = seen
    BY DEF Members
  <2>2. pc' \in {"walk", "done"}
    BY DEF Meets, Fine, Report, Goto
  <2>3. Calm' => Calm
    BY DEF Calm, Listed, Meets, Fine
  <2> QED
    BY <2>1, <2>2, <2>3 DEF Tracked
<1>5. CASE Located
  <2> USE <1>5 DEF Located, Looking, service, call, resolution
  <2>1. Members(target)' = Members(target) /\ seen' = seen /\ found' = found
    BY DEF Members
  <2>2. /\ pc' \in {"remove", "add", "done"}
        /\ pc' = "add" => ToRemove = {} /\ Pending = {}
        /\ tool \in {"add", "replace"}
    BY DEF GoWrite, Fine, Report, Goto, Shape
  <2>3. Calm' => Calm
    BY DEF Calm, Fine
  <2>4. ToRemove' = ToRemove /\ Pending' = Pending
    BY <2>1 DEF ToRemove, Pending
  <2> QED
    BY <2>1, <2>2, <2>3, <2>4 DEF Tracked, Pending
<1>6. CASE Remove
  <2> USE <1>6 DEF Remove, Writing, call
  <2> SUFFICES ASSUME Calm'
               PROVE  Tracked'
    BY DEF Tracked
  <2>1. Calm
    BY DEF Calm, Meets, Fine
  <2>2. Members(target) \in {seen, seen \ ToRemove}
    BY <2>1 DEF Tracked
  <2>3. target # Unassigned /\ target' = target /\ found' = found /\ seen' = seen
    BY DEF Shape
  <2>4. \/ Members(target)' = Members(target) \ ToRemove
        \/ Members(target)' = Members(target) /\ pc' \in {"remove", "done"}
    <3>1. CASE Removed(ToRemove)
      BY <3>1, <2>3, RemovalRemoves, RemovalsApart
    <3>2. CASE UNCHANGED service /\ pc' \in {"remove", "done"}
      BY <3>2, <2>3 DEF service, Members
    <3> QED
      BY <3>1, <3>2 DEF Calm, Meets, Fine, Resend, Report
  <2>5. /\ pc' \in {"remove", "add", "back", "done"}
        /\ pc' \in {"add", "back"} => Removed(ToRemove)
        /\ pc' = "add" => DOMAIN found # {}
        /\ pc' = "back" => DOMAIN found = {}
    BY DEF Calm, Meets, Fine, Resend, GoOn, Report, Goto
  <2>6. pc' \in {"add", "back"} => Members(target)' = seen \ ToRemove
    BY <2>2, <2>3, <2>5, RemovalRemoves, RemovalsApart
  <2>7. ToRemove' = ToRemove
    BY <2>3 DEF ToRemove
  <2>8. pc' = "add" => tool = "replace" /\ wanted \subseteq seen \union DOMAIN found
    BY <2>5 DEF Shape
  <2>9. pc' = "back" => Achieved(seen \ ToRemove)
    BY <2>5 DEF Achieved, ToRemove, Shape
  <2>10. pc' = "back" => Achieved(Members(target))'
    BY <2>3, <2>6, <2>9 DEF Achieved
  <2> QED
    BY <2>2, <2>3, <2>4, <2>5, <2>6, <2>7, <2>8, <2>10 DEF Tracked, Shape
<1>7. CASE Add
  <2> USE <1>7 DEF Add, Writing, call
  <2> SUFFICES ASSUME Calm', pc' \in {"add", "back"}
               PROVE  Tracked'
    BY DEF Tracked, Meets, Fine, Report, Goto
  <2>1. Calm
    BY DEF Calm, Meets, Fine
  <2>2. PICK batch \in SUBSET DOMAIN found :
          /\ Added(batch)
          /\ DOMAIN found' = DOMAIN found \ batch
          /\ pc' = "back" => batch = DOMAIN found
    BY DEF Calm, Meets, Fine, Report, Goto
  <2>3. target' = target /\ seen' = seen /\ tool' = tool /\ wanted' = wanted
    OBVIOUS
  <2>4. Members(target)' = Members(target) \union batch
    BY <2>2, <2>3, AdditionAdds DEF TypeOK
  <2>5. batch \subseteq wanted /\ (tool \in {"add", "replace"} => batch \intersect seen = {})
    BY <2>2 DEF Shape
  <2>6. ToRemove' = ToRemove
    BY <2>3 DEF ToRemove
  <2>7. CASE tool \in {"add", "replace"}
    <3>1. Members(target) = (seen \ ToRemove) \union (wanted \ (seen \union DOMAIN found))
      BY <2>1, <2>7 DEF Tracked
    <3>2. Members(target)' =
            (seen \ ToRemove) \union (wanted \ (seen \union DOMAIN found'))
      BY <3>1, <2>2, <2>4, <2>5, <2>7
    <3>3. pc' = "back" => Members(target)' = (seen \ ToRemove) \union (wanted \ seen)
      BY <3>2, <2>2
    <3>4. Achieved((seen \ ToRemove) \union (wanted \ seen))
      BY <2>7 DEF Achieved, ToRemove
    <3>5. pc' = "back" => Achieved(Members(target))'
      BY <3>3, <3>4, <2>3 DEF Achieved
    <3> QED
      BY <3>2, <3>5, <2>3, <2>6, <2>7 DEF Tracked
  <2>8. CASE tool \in {"move", "copy"}
    <3>1. wanted \ DOMAIN found \subseteq Members(target)
      BY <2>1, <2>8 DEF Tracked
    <3>2. wanted \ DOMAIN found' \subseteq Members(target)'
      BY <3>1, <2>2, <2>4
    <3>3. pc' = "back" => wanted \subseteq Members(target)'
      BY <3>2, <2>2
    <3>4. pc' = "back" => Achieved(Members(target))'
      BY <3>3, <2>3, <2>8 DEF Achieved
    <3> QED
      BY <3>2, <3>4, <2>3, <2>8 DEF Tracked
  <2> QED
    BY <2>7, <2>8 DEF Shape
<1>8. CASE DeleteGroup \/ ReadBack
  BY <1>8 DEF DeleteGroup, ReadBack, Resend, Meets, Fine, Report, Goto, Tracked
<1>9. ASSUME Other
      PROVE  Tracked'
  BY <1>9 DEF Other, Calm, Tracked
<1>10. CASE UNCHANGED vars
  BY <1>10 DEF vars, service, call, resolution, Tracked, Calm, Members, ToRemove, Achieved
<1> QED
  BY <1>1, <1>2, <1>3, <1>4, <1>5, <1>6, <1>7, <1>8, <1>9, <1>10
     DEF Next, Step, OtherMoves, OtherShares, OtherDeletes

\* A call that reports success while nobody interfered and the service did all it
\* answered has made of the members exactly what it was asked to.
THEOREM SuccessExact == Spec => SuccessIsExact
<1>1. Init => Tracked
  BY DEF Init, Tracked
<1>2. TypeOK /\ Shape /\ Tracked /\ [Next]_vars => Tracked'
  BY TrackedStep
<1>3. TypeOK /\ Shape /\ Tracked /\ [Next]_vars =>
        [result = "none" /\ result' \in {"ok", "same"}
            /\ ~disturbed /\ {"partial", "cut"} \intersect mishaps = {}
          => Achieved(Members(target)')]_vars
  <2> SUFFICES ASSUME TypeOK, Shape, Tracked, Next,
                      result = "none", result' \in {"ok", "same"}, Calm
               PROVE  Achieved(Members(target)')
    BY DEF Calm
  <2>1. CASE ReadTree
    <3> USE <2>1 DEF ReadTree, Looking, service, call
    <3>1. Members(target)' = seen
      BY DEF Members, Tracked
    <3>2. ToRemove = {} /\ Pending = {} /\ DOMAIN found = {} /\ tool \in {"add", "replace"}
      BY DEF GoWrite, Meets, Fine, Report, Goto, Shape
    <3>3. Achieved(seen)
      BY <3>2 DEF Achieved, ToRemove, Pending
    <3> QED
      BY <3>1, <3>3
  <2>2. CASE DeleteGroup
    <3> USE <2>2 DEF DeleteGroup, Writing, call
    <3>1. target \in groups /\ Dropped(target) /\ target' = target /\ tool = "delete"
      BY DEF Resend, Report, Shape
    <3> QED
      BY <3>1, DeletionReleases DEF Achieved
  <2>3. CASE ReadBack
    <3>1. Members(target)' = Members(target) /\ Achieved(Members(target))
      BY <2>3 DEF ReadBack, Looking, service, call, Members, Tracked
    <3> QED
      BY <3>1
  <2>4. CASE ReadGroup \/ ListMembers \/ Walk \/ Located
    BY <2>4 DEF ReadGroup, ListMembers, Walk, Located, GoWrite, Report, Goto
  <2>5. CASE Remove \/ Add
    BY <2>5 DEF Remove, Add, Resend, GoOn, Report, Goto
  <2>6. CASE Other
    BY <2>6 DEF Other
  <2> QED
    BY <2>1, <2>2, <2>3, <2>4, <2>5, <2>6
       DEF Next, Step, OtherMoves, OtherShares, OtherDeletes
<1> QED
  BY <1>1, <1>2, <1>3, TypeAndShape, PTL DEF Spec, SuccessIsExact

-----------------------------------------------------------------------------
(* Failures. *)

\* While nothing has gone wrong, the requests still to be sent will be taken: the group
\* is there, the members are those listed, and every device to be added is where the
\* walk has found it, the removal notwithstanding.
LEMMA CleanStep ==
    ASSUME TypeOK, Shape, Tracked, Clean, [Next]_vars
    PROVE  Clean'
<1> DEFINE Smooth == ~disturbed /\ mishaps = {} /\ tool \notin {"move", "copy"}
<1>1. CASE ReadGroup
  <2> USE <1>1 DEF ReadGroup, Looking, service, call
  <2>1. pc' \in {"members", "done"} /\ result' # "error"
    BY DEF Meets, Fine, Report, Goto, Shape
  <2>2. pc' = "members" => target \in groups \/ tool \in {"move", "copy"}
    BY DEF Report, Goto
  <2> QED
    BY <2>1, <2>2 DEF Clean
<1>2. CASE ListMembers
  <2> USE <1>2 DEF ListMembers, Listed, Looking, service, call
  <2> SUFFICES ASSUME Smooth'
               PROVE  Clean'
    BY DEF Clean
  <2>1. Smooth
    BY DEF Meets, Fine
  <2>2. target \in groups /\ result = "none"
    BY <2>1 DEF Clean, Shape
  <2>3. pc' = "remove" => seen' = Members(target)
    BY DEF Meets, Fine, Report, Goto
  <2>4. pc' \in {"walk", "remove", "add"} => DOMAIN found' = {}
    BY <2>1 DEF Meets, Fine, Report, Goto, Shape
  <2>5. result' # "error"
    BY <2>2 DEF Meets, Fine, Report, Goto
  <2>6. Members(target)' = Members(target)
    BY DEF Members
  <2> QED
    BY <2>2, <2>3, <2>4, <2>5, <2>6 DEF Clean
<1>3. CASE ReadTree
  <2> USE <1>3 DEF ReadTree, Looking, service, call
  <2> SUFFICES ASSUME Smooth'
               PROVE  Clean'
    BY DEF Clean
  <2>1. Smooth
    BY DEF Meets, Fine
  <2>2. target \in groups /\ result = "none" /\ DOMAIN found = {}
    BY <2>1 DEF Clean, Shape
  <2>3. Members(target)' = seen
    BY <2>1 DEF Members, Tracked, Calm
  <2>4. result' # "error"
    BY <2>2 DEF GoWrite, Meets, Fine, Report, Goto
  <2> QED
    BY <2>2, <2>3, <2>4 DEF Clean
<1>4. CASE Walk
  <2> USE <1>4 DEF Walk, Listed, Looking, service, call
  <2> SUFFICES ASSUME Smooth'
               PROVE  Clean'
    BY DEF Clean
  <2>1. Smooth
    BY DEF Meets, Fine
  <2>2. target \in groups /\ result = "none"
    BY <2>1 DEF Clean, Shape
  <2>3. pc' \in {"walk", "done"} /\ result' # "error"
    BY <2>2 DEF Meets, Fine, Report, Goto
  <2>4. ASSUME pc' = "walk", NEW d \in DOMAIN found'
        PROVE  /\ place'[d] = found'[d] /\ found'[d] \in Leaves
               /\ found'[d] \in groups' \union {Unassigned}
    <3>1. PICK g \in left :
            /\ Exists(g)
            /\ found' = [e \in DOMAIN found \union (Pending \intersect Members(g)) |->
                           IF e \in Pending THEN g ELSE found[e]]
      BY <2>4 DEF Meets, Fine, Report, Goto
    <3>2. place' = place /\ groups' = groups
      OBVIOUS
    <3>3. CASE d \in Pending
      <4>1. d \notin DOMAIN found /\ found'[d] = g
        BY <3>1, <3>3, <2>4 DEF Pending
      <4>2. g \in Leaves /\ g \notin Accesses
        BY DEF TypeOK, Leaves
      <4>3. place[d] = g
        BY <4>1, <4>2, <3>1, <2>4 DEF Members
      <4> QED
        BY <4>1, <4>2, <4>3, <3>1, <3>2 DEF Exists
    <3>4. CASE d \notin Pending
      <4>1. d \in DOMAIN found /\ found'[d] = found[d]
        BY <3>1, <3>4, <2>4
      <4>2. place[d] = found[d] /\ found[d] \in Leaves /\ Exists(found[d])
        BY <4>1, <2>1 DEF Clean
      <4> QED
        BY <4>1, <4>2, <3>2 DEF Exists
    <3> QED
      BY <3>3, <3>4
  <2> QED
    BY <2>2, <2>3, <2>4 DEF Clean, Exists
<1>5. CASE Located
  <2> USE <1>5 DEF Located, Looking, service, call, resolution
  <2> SUFFICES ASSUME Smooth'
               PROVE  Clean'
    BY DEF Clean
  <2>1. Smooth
    BY DEF Fine
  <2>2. target \in groups /\ result = "none"
    BY <2>1 DEF Clean, Shape
  <2>3. Members(target)' = seen /\ seen' = seen
    BY <2>1 DEF Members, Tracked, Calm
  <2>4. result' # "error"
    BY <2>2 DEF GoWrite, Report, Goto
  <2>5. \A d \in DOMAIN found : place[d] = found[d] /\ found[d] \in Leaves /\ Exists(found[d])
    BY <2>1 DEF Clean
  <2> QED
    BY <2>2, <2>3, <2>4, <2>5 DEF Clean, Exists
<1>6. CASE Remove
  <2> USE <1>6 DEF Remove, Writing, call
  <2> SUFFICES ASSUME Smooth'
               PROVE  Clean'
    BY DEF Clean
  <2>1. Smooth
    BY DEF Meets, Fine
  <2>2. target \in groups /\ result = "none" /\ Members(target) = seen
    BY <2>1 DEF Clean, Shape
  <2>3. TakesRemoval(ToRemove)
    BY <2>2, RemovalsApart DEF TakesRemoval, Exists
  <2>4. Removed(ToRemove) /\ GoOn
    BY <2>3 DEF Meets, Fine
  <2>5. pc' \in {"add", "back"} /\ result' # "error" /\ groups' = groups
    BY <2>2, <2>4 DEF GoOn, Goto, Removed
  <2>6. \A d \in DOMAIN found : place'[d] = place[d]
    BY <2>4, RemovalsApart DEF Removed, TypeOK
  <2>7. \A d \in DOMAIN found : place[d] = found[d] /\ found[d] \in Leaves /\ Exists(found[d])
    BY <2>1 DEF Clean
  <2> QED
    BY <2>2, <2>5, <2>6, <2>7 DEF Clean, Exists
<1>7. CASE Add
  <2> USE <1>7 DEF Add, Writing, call
  <2> SUFFICES ASSUME Smooth'
               PROVE  Clean'
    BY DEF Clean
  <2>1. Smooth
    BY DEF Meets, Fine
  <2>2. target \in groups /\ result = "none"
    BY <2>1 DEF Clean, Shape
  <2>3. \A d \in DOMAIN found : place[d] = found[d] /\ found[d] \in Leaves /\ Exists(found[d])
    BY <2>1 DEF Clean
  <2>4. ASSUME NEW from \in {found[d] : d \in DOMAIN found}
        PROVE  TakesAddition(from, {d \in DOMAIN found : found[d] = from})
    <3>1. from \in Leaves /\ Exists(from) /\ from \notin Accesses
      BY <2>3, <2>4 DEF Leaves
    <3>2. {d \in DOMAIN found : found[d] = from} \subseteq Members(from)
      BY <2>3, <3>1 DEF Members, TypeOK
    <3>3. target \in IF Copies THEN Accesses ELSE Leaves
      BY <2>1 DEF Copies, TypeOK, Groups
    <3> QED
      BY <2>2, <3>1, <3>2, <3>3 DEF TakesAddition, Exists
  <2>5. PICK batch \in SUBSET DOMAIN found :
          /\ Added(batch)
          /\ found' = [d \in DOMAIN found \ batch |-> found[d]]
          /\ result' # "error"
    BY <2>2, <2>4 DEF Meets, Fine, Goto
  <2>6. \A d \in DOMAIN found' :
          /\ place'[d] = found'[d] /\ found'[d] \in Leaves
          /\ found'[d] \in groups' \union {Unassigned}
    BY <2>3, <2>5 DEF Added, TypeOK, Exists
  <2>7. pc' \in {"add", "back", "done"} /\ groups' = groups
    BY <2>5 DEF Meets, Fine, Goto, Report, Added
  <2> QED
    BY <2>2, <2>5, <2>6, <2>7 DEF Clean, Exists
<1>8. CASE DeleteGroup \/ ReadBack
  BY <1>8 DEF DeleteGroup, ReadBack, Resend, Meets, Fine, Report, Goto, Writing, Looking,
       call, Clean, Exists, Shape
<1>9. ASSUME Other
      PROVE  Clean'
  BY <1>9 DEF Other, call, Clean, Shape
<1>10. CASE UNCHANGED vars
  BY <1>10 DEF vars, service, call, resolution, Clean, Members, Exists
<1> QED
  BY <1>1, <1>2, <1>3, <1>4, <1>5, <1>6, <1>7, <1>8, <1>9, <1>10
     DEF Next, Step, OtherMoves, OtherShares, OtherDeletes

\* A call that passed its checks is not refused because of what it did itself.
THEOREM FailuresHaveCauses == Spec => []FailsForACause
<1>1. Init => Tracked /\ Clean
  BY DEF Init, Tracked, Clean
<1>2. TypeOK /\ Shape /\ Tracked /\ Clean /\ [Next]_vars => (Tracked /\ Clean)'
  BY TrackedStep, CleanStep
<1>3. Clean => FailsForACause
  BY DEF Clean, FailsForACause
<1> QED
  BY <1>1, <1>2, <1>3, TypeAndShape, PTL DEF Spec

-----------------------------------------------------------------------------
(* A call comes to its end. *)

\* The order of the steps.
Order(label) ==
    CASE label = "read" -> 1
      [] label = "members" -> 2
      [] label = "tree" -> 3
      [] label = "walk" -> 4
      [] label = "remove" -> 5
      [] label = "add" -> 6
      [] label = "delete" -> 7
      [] label = "back" -> 8
      [] label = "done" -> 9

\* To a later step, or with fewer groups left to list, fewer devices left to move, or
\* one of the re-sends the client allows.
TakenOn ==
    \/ Order(pc') > Order(pc)
    \/ pc' = pc /\ left' \subseteq left /\ left' # left
    \/ pc' = pc /\ DOMAIN found' \subseteq DOMAIN found /\ DOMAIN found' # DOMAIN found
    \/ pc' = pc /\ tries' \in tries + 1 .. MaxRetries

\* Every step of a call takes it on, whatever it finds in the groups it lists and
\* whatever is answered; and nobody gives it back a group to list, a device to move or
\* a request to send by what they do to the groups meanwhile.
MembersCallGoesOn ==
    [][/\ Step => result = "none" /\ UNCHANGED call /\ TakenOn
       /\ ~Step => UNCHANGED <<call, pc, resolution, tries, result>>]_vars

LEMMA StepTakesOn ==
    ASSUME TypeOK, Shape, Step
    PROVE  TakenOn
<1>1. CASE ReadGroup
  BY <1>1 DEF ReadGroup, Report, Goto, TakenOn, Order
<1>2. CASE ListMembers
  BY <1>2 DEF ListMembers, Report, Goto, TakenOn, Order
<1>3. CASE ReadTree
  BY <1>3 DEF ReadTree, GoWrite, Report, Goto, TakenOn, Order
<1>4. CASE Walk
  <2>1. pc = "walk" /\ pc' \in {"walk", "done"} /\ \E g \in left : left' = left \ {g}
    BY <1>4 DEF Walk, Report, Goto
  <2>. QED  BY <2>1 DEF TakenOn, Order
<1>5. CASE Located
  BY <1>5 DEF Located, GoWrite, Report, Goto, TakenOn, Order
<1>6. CASE Remove
  <2>1. pc = "remove"
    BY <1>6 DEF Remove
  <2>2. pc' \in {"add", "back", "done"} \/ (pc' = pc /\ tries' \in tries + 1 .. MaxRetries)
    BY <1>6 DEF Remove, Resend, GoOn, Report, Goto, TypeOK
  <2>. QED  BY <2>1, <2>2 DEF TakenOn, Order
<1>7. CASE Add
  <2>1. pc = "add"
    BY <1>7 DEF Add
  <2>2. PICK from \in {found[d] : d \in DOMAIN found} :
          \/ pc' \in {"back", "done"}
          \/ /\ pc' = "add"
             /\ found' = [d \in DOMAIN found \ {e \in DOMAIN found : found[e] = from}
                            |-> found[d]]
    BY <1>7 DEF Add, Report, Goto
  <2>3. \E d \in DOMAIN found : found[d] = from
    OBVIOUS
  <2>4. CASE pc' = "add"
    BY <2>1, <2>2, <2>3, <2>4 DEF TakenOn
  <2>. QED  BY <2>1, <2>2, <2>4 DEF TakenOn, Order
<1>8. CASE DeleteGroup
  <2>1. pc = "delete"
    BY <1>8 DEF DeleteGroup
  <2>2. pc' = "done" \/ (pc' = pc /\ tries' \in tries + 1 .. MaxRetries)
    BY <1>8 DEF DeleteGroup, Resend, Report, TypeOK
  <2>. QED  BY <2>1, <2>2 DEF TakenOn, Order
<1>9. CASE ReadBack
  BY <1>9 DEF ReadBack, Report, TakenOn, Order
<1>. QED
  BY <1>1, <1>2, <1>3, <1>4, <1>5, <1>6, <1>7, <1>8, <1>9 DEF Step

\* Listing the groups one by one, removing, moving batch by batch and sending again: a
\* call has only so many steps to its answer, over any groups others rearrange.
THEOREM MembersCallsEnd == Spec => MembersCallGoesOn
<1>1. TypeOK /\ Shape /\ [Next]_vars =>
        [/\ Step => result = "none" /\ UNCHANGED call /\ TakenOn
         /\ ~Step => UNCHANGED <<call, pc, resolution, tries, result>>]_vars
  <2> SUFFICES ASSUME TypeOK, Shape, Next
               PROVE  /\ Step => result = "none" /\ UNCHANGED call /\ TakenOn
                      /\ ~Step => UNCHANGED <<call, pc, resolution, tries, result>>
    OBVIOUS
  <2>1. Step => result = "none"
    BY DEF Shape, Step, ReadGroup, ListMembers, ReadTree, Walk, Located, Remove, Add,
           DeleteGroup, ReadBack
  <2>2. Step => UNCHANGED call
    BY DEF Step, ReadGroup, ListMembers, ReadTree, Walk, Located, Remove, Add,
           DeleteGroup, ReadBack, Looking, Writing
  <2>3. ~Step => UNCHANGED <<call, pc, resolution, tries, result>>
    BY DEF Next, OtherMoves, OtherShares, OtherDeletes, Other
  <2>. QED  BY <2>1, <2>2, <2>3, StepTakesOn
<1>. QED
  BY <1>1, TypeAndShape, PTL DEF Spec, MembersCallGoesOn
================================================================================
