--------------------------- MODULE RecordUpdate_proofs ---------------------------
(***************************************************************************)
(* What the update tools do to a record, for any records, fields, values,   *)
(* calls, numbers of re-sends and doings of others.                         *)
(***************************************************************************)
EXTENDS RecordUpdate, TLAPS

USE UpdateAssumption DEF UpdateAssumption

Live(c) == pc[c] \in {"names", "put", "back"}
Unique == \A i, j \in DOMAIN records : NameOf(i) = NameOf(j) => i = j

--------------------------------------------------------------------------------
(* The inductive invariant: while nobody else has written, the record is the one *)
(* the call read or the one it sends, and the name it sends is nobody else's.    *)

Asked == \A c \in Calls : /\ Askable(c)
                          /\ pc[c] = "names" => "name" \in DOMAIN change[c]
                          /\ Live(c) => c \in DOMAIN snap
                          /\ pc[c] # "done" => result[c] = "none"

Formed ==
    /\ \A i \in DOMAIN records : Possible(records[i])
    /\ \A c \in DOMAIN snap : Possible(snap[c])

Current(c) ==
    /\ target[c] \in DOMAIN records
    /\ records[target[c]].state = snap[c].state
    /\ records[target[c]].bound \in {snap[c].bound, Bound(c)}
    /\ \A f \in Sent(c) : Over(change[c], records[target[c]].fields)[f] = Merged(c)[f]
    /\ kind = "device" => snap[c].state = "off"
    /\ pc[c] = "back" =>
          /\ records[target[c]].bound = Bound(c)
          /\ \A f \in Sent(c) : records[target[c]].fields[f] = Merged(c)[f]
Undisturbed == \A c \in Calls : Live(c) /\ ~overlapped[c] => Current(c)

NobodyOverlapped == \A c \in Calls : ~overlapped[c]
NamesDiffer ==
    /\ kind = "policy" /\ NobodyOverlapped => Unique
    /\ kind = "suppression" => Unique
NameFree ==
    kind = "policy" /\ NobodyOverlapped =>
      \A c \in Calls : pc[c] = "put" =>
        \A i \in DOMAIN records \ {target[c]} : NameOf(i) # Merged(c)["name"]

Inv ==
    /\ TypeOK
    /\ Asked
    /\ Formed
    /\ Undisturbed
    /\ NamesDiffer
    /\ NameFree
    /\ FailsForACause

--------------------------------------------------------------------------------
(* Partial functions, and values put over others. *)

LEMMA Partial ==
    ASSUME NEW S, NEW T, NEW f
    PROVE  f \in PartialFunctions(S, T) <=> DOMAIN f \subseteq S /\ f \in [DOMAIN f -> T]
<1>1. ASSUME f \in PartialFunctions(S, T)
      PROVE  DOMAIN f \subseteq S /\ f \in [DOMAIN f -> T]
  <2>1. PICK D \in SUBSET S : f \in [D -> T]
    BY <1>1 DEF PartialFunctions
  <2>. QED  BY <2>1
<1>2. ASSUME DOMAIN f \subseteq S, f \in [DOMAIN f -> T]
      PROVE  f \in PartialFunctions(S, T)
  BY <1>2 DEF PartialFunctions
<1>. QED  BY <1>1, <1>2

LEMMA OverPartial ==
    ASSUME NEW S, NEW T, NEW f \in PartialFunctions(S, T), NEW g \in PartialFunctions(S, T)
    PROVE  Over(f, g) \in PartialFunctions(S, T)
<1>1. DOMAIN f \subseteq S /\ f \in [DOMAIN f -> T] /\ DOMAIN g \subseteq S /\ g \in [DOMAIN g -> T]
  BY Partial
<1>2. DOMAIN Over(f, g) = DOMAIN f \union DOMAIN g
  BY DEF Over
<1>3. Over(f, g) \in [DOMAIN f \union DOMAIN g -> T]
  BY <1>1 DEF Over
<1>. QED  BY <1>1, <1>2, <1>3, Partial

\* What a call sends has its name in it, and the values it was given.
LEMMA MergedIs ==
    ASSUME TypeOK, NEW c \in Calls, c \in DOMAIN snap
    PROVE  /\ Merged(c) \in [Fields -> Values]
           /\ snap[c] \in Records
           /\ DOMAIN change[c] \subseteq Fields
           /\ \A f \in DOMAIN change[c] : Merged(c)[f] = change[c][f]
           /\ \A f \in Fields \ DOMAIN change[c] : Merged(c)[f] = snap[c].fields[f]
           /\ Sent(c) \subseteq Fields /\ "name" \in Sent(c)
           /\ Bound(c) \in BOOLEAN
<1>1. snap[c] \in Records
  BY Partial DEF TypeOK
<1>2. PICK given \in SUBSET Fields : change[c] \in [given -> Values]
  BY DEF TypeOK, Changes
<1>3. snap[c].fields \in [Fields -> Values] /\ snap[c].bound \in BOOLEAN
  BY <1>1 DEF Records
<1>4. Sent(c) \subseteq Fields /\ "name" \in Sent(c)
  BY DEF Sent
<1>5. Bound(c) \in BOOLEAN
  BY <1>3 DEF Bound
<1>. QED  BY <1>1, <1>2, <1>3, <1>4, <1>5 DEF Merged, Over

LEMMA RecordIs ==
    ASSUME TypeOK, NEW i \in DOMAIN records
    PROVE  /\ records[i] \in Records /\ i \in Ids
           /\ records[i].fields \in [Fields -> Values]
           /\ records[i].state \in States
           /\ records[i].bound \in BOOLEAN /\ records[i].extra \in BOOLEAN
<1>1. DOMAIN records \subseteq Ids /\ records \in [DOMAIN records -> Records]
  BY Partial DEF TypeOK
<1>2. records[i] \in Records
  BY <1>1
<1>. QED  BY <1>1, <1>2 DEF Records

\* Only a ZTP device names a profile or has anything extra.
LEMMA FormIs ==
    ASSUME Inv, NEW c \in Calls, c \in DOMAIN snap, kind # "device"
    PROVE  ~Bound(c)
<1>1. rebind[c] = "keep"
  BY DEF Inv, Asked, Askable
<1>2. ~snap[c].bound
  BY DEF Inv, Formed, Possible
<1>. QED  BY <1>1, <1>2 DEF Bound

--------------------------------------------------------------------------------
(* A PUT that lands. *)

\* Nobody else has written: it is the record that was read that is replaced.
LEMMA TargetFound ==
    ASSUME Inv, NEW c \in Calls, Live(c), ~overlapped[c]
    PROVE  Targets(c) = {target[c]}
<1>1. /\ target[c] \in DOMAIN records
      /\ records[target[c]].state = snap[c].state
      /\ \A f \in Sent(c) : Over(change[c], records[target[c]].fields)[f] = Merged(c)[f]
      /\ kind = "device" => snap[c].state = "off"
      /\ kind \in AllKinds
      /\ c \in DOMAIN snap
  BY DEF Inv, Undisturbed, Current, TypeOK, Asked
<1>2. "name" \notin DOMAIN change[c] => Merged(c)["name"] = NameOf(target[c])
  <2>1. /\ "name" \in Sent(c)
        /\ Merged(c)["name"] = Over(change[c], records[target[c]].fields)["name"]
    BY <1>1, MergedIs DEF Inv
  <2>2. "name" \in DOMAIN records[target[c]].fields
    BY <1>1, RecordIs DEF Inv
  <2>. QED  BY <2>1, <2>2 DEF Over, NameOf
<1>4. CASE kind = "suppression"
  <2>1. Merged(c)["name"] = NameOf(target[c]) /\ Unique
    BY <1>2, <1>4 DEF Inv, Asked, Askable, NamesDiffer
  <2>. QED  BY <1>1, <1>4, <2>1 DEF Targets, Unique
<1>5. CASE kind = "profile"
  <2>1. InUse(Merged(c)["name"])
    BY <1>1, <1>2, <1>5 DEF Inv, Asked, Askable, InUse
  <2>. QED  BY <1>5, <2>1 DEF Targets
<1>6. CASE kind = "device"
  BY <1>1, <1>6 DEF Targets
<1>7. CASE kind \in {"policy", "retention"}
  BY <1>1, <1>7 DEF Targets
<1>. QED  BY <1>1, <1>4, <1>5, <1>6, <1>7 DEF AllKinds

LEMMA TargetsAreIds ==
    ASSUME TypeOK, NEW c \in Calls
    PROVE  Targets(c) \subseteq Ids
<1>1. DOMAIN records \subseteq Ids /\ target[c] \in Ids
  BY Partial DEF TypeOK
<1>. QED  BY <1>1 DEF Targets

LEMMA StateSet ==
    ASSUME NEW rec \in Records, NEW state \in States
    PROVE  /\ [rec EXCEPT !.state = state] \in Records
           /\ [rec EXCEPT !.state = state].state = state
           /\ [rec EXCEPT !.state = state].fields = rec.fields
           /\ [rec EXCEPT !.state = state].bound = rec.bound
           /\ [rec EXCEPT !.state = state].extra = rec.extra
BY DEF Records

\* What a PUT makes of a record is a record the service may keep.
LEMMA BodyIs ==
    ASSUME Inv, NEW c \in Calls, c \in DOMAIN snap, NEW copies \in Copies(c)
    PROVE  /\ Body(c, copies) \in Records
           /\ \A f \in Sent(c) : Body(c, copies).fields[f] = Merged(c)[f]
           /\ Body(c, copies).state = snap[c].state
           /\ Body(c, copies).bound = Bound(c)
           /\ Body(c, copies).extra = FALSE
           /\ \A i : Replaced(i, Body(c, copies)) \in Records /\ Possible(Replaced(i, Body(c, copies)))
           /\ \A i : /\ Replaced(i, Body(c, copies)).fields = Body(c, copies).fields
                     /\ Replaced(i, Body(c, copies)).bound = Bound(c)
                     /\ Replaced(i, Body(c, copies)).extra = FALSE
<1>1. /\ Written(c, copies) \in [Fields -> Values]
      /\ \A f \in Sent(c) : Written(c, copies)[f] = Merged(c)[f]
  BY MergedIs DEF Written, Copies, Inv
<1>2. snap[c].state \in States /\ Bound(c) \in BOOLEAN
  BY MergedIs DEF Records, Inv
<1>3. Body(c, copies) \in Records
  BY <1>1, <1>2 DEF Body, Records
<1>4. ASSUME NEW i
      PROVE  /\ Replaced(i, Body(c, copies)) \in Records
             /\ Possible(Replaced(i, Body(c, copies)))
             /\ Replaced(i, Body(c, copies)).fields = Body(c, copies).fields
             /\ Replaced(i, Body(c, copies)).bound = Bound(c)
             /\ Replaced(i, Body(c, copies)).extra = FALSE
  <2>1. i \in DOMAIN records => records[i].state \in States /\ Possible(records[i])
    BY RecordIs DEF Inv, Formed
  <2>2. Possible(snap[c]) /\ (kind # "device" => ~Bound(c))
    BY FormIs DEF Inv, Formed
  <2>. DEFINE state == Replaced(i, Body(c, copies)).state
  <2>3. /\ Replaced(i, Body(c, copies)) = [Body(c, copies) EXCEPT !.state = state]
        /\ state \in States
        /\ state = "on" => kind \in {"policy", "device"}
    <3>1. CASE kind # "policy" /\ i \in DOMAIN records
      <4>1. Replaced(i, Body(c, copies)) = [Body(c, copies) EXCEPT !.state = records[i].state]
        BY <3>1 DEF Replaced
      <4>2. state = records[i].state
        BY <1>3, <2>1, <3>1, <4>1, StateSet
      <4>. QED  BY <2>1, <3>1, <4>1, <4>2 DEF Possible
    <3>2. CASE ~(kind # "policy" /\ i \in DOMAIN records)
      <4>1. Replaced(i, Body(c, copies)) = [Body(c, copies) EXCEPT !.state = Body(c, copies).state]
        BY <3>2 DEF Replaced
      <4>2. Body(c, copies).state = snap[c].state
        BY DEF Body
      <4>3. state = snap[c].state
        BY <1>2, <1>3, <4>1, <4>2, StateSet
      <4>. QED  BY <1>2, <2>2, <4>1, <4>2, <4>3 DEF Possible
    <3>. QED  BY <3>1, <3>2
  <2>4. Body(c, copies).bound = Bound(c) /\ Body(c, copies).extra = FALSE
    BY DEF Body
  <2>5. /\ Replaced(i, Body(c, copies)) \in Records
        /\ Replaced(i, Body(c, copies)).fields = Body(c, copies).fields
        /\ Replaced(i, Body(c, copies)).bound = Body(c, copies).bound
        /\ Replaced(i, Body(c, copies)).extra = Body(c, copies).extra
    <3>. HIDE DEF state
    <3>. QED  BY <1>3, <2>3, StateSet
  <2>6. Possible(Replaced(i, Body(c, copies)))
    BY <2>2, <2>3, <2>4, <2>5 DEF Possible
  <2>. QED  BY <2>4, <2>5, <2>6
<1>. QED  BY <1>1, <1>3, <1>4 DEF Body

LEMMA LandTyped ==
    ASSUME Inv, NEW c \in Calls, c \in DOMAIN snap, Land(c)
    PROVE  /\ records' \in PartialFunctions(Ids, Records)
           /\ \A i \in DOMAIN records' : Possible(records'[i])
           /\ overlapped' = [d \in Calls |-> overlapped[d] \/ (Live(d) /\ d # c)]
           /\ overlapped' \in [Calls -> BOOLEAN]
<1>1. PICK copies \in Copies(c) :
         records' = Over([i \in Targets(c) |-> Replaced(i, Body(c, copies))], records)
  BY DEF Land
<1>. DEFINE new == [i \in Targets(c) |-> Replaced(i, Body(c, copies))]
<1>2. \A i \in Targets(c) : Replaced(i, Body(c, copies)) \in Records
  BY BodyIs
<1>3. new \in PartialFunctions(Ids, Records)
  BY <1>2, TargetsAreIds, Partial DEF Inv
<1>4. records' = Over(new, records)
  BY <1>1
<1>5. records' \in PartialFunctions(Ids, Records)
  <2>. HIDE DEF new
  <2>. QED  BY <1>3, <1>4, OverPartial DEF Inv, TypeOK
<1>6. overlapped' = [d \in Calls |-> overlapped[d] \/ (Live(d) /\ d # c)]
  BY DEF Land, Overlaps, Window, Live
<1>7. overlapped' \in [Calls -> BOOLEAN]
  BY <1>6
<1>8. ASSUME NEW i \in DOMAIN records'
      PROVE  Possible(records'[i])
  <2>1. CASE i \in Targets(c)
    <3>1. records'[i] = Replaced(i, Body(c, copies))
      BY <1>4, <2>1 DEF Over
    <3>. QED  BY <3>1, BodyIs
  <2>2. CASE i \notin Targets(c)
    <3>1. i \in DOMAIN records /\ records'[i] = records[i]
      BY <1>4, <2>2 DEF Over
    <3>. QED  BY <3>1 DEF Inv, Formed
  <2>. QED  BY <2>1, <2>2
<1>. QED  BY <1>5, <1>6, <1>7, <1>8

\* The record then has what the call sends, and no other record is touched.
LEMMA LandKeeps ==
    ASSUME Inv, NEW c \in Calls, Live(c), ~overlapped[c], Land(c)
    PROVE  /\ target[c] \in DOMAIN records
           /\ DOMAIN records' = DOMAIN records
           /\ \A f \in Sent(c) : (records'[target[c]]).fields[f] = Merged(c)[f]
           /\ (records'[target[c]]).fields \in [Fields -> Values]
           /\ (records'[target[c]]).state = records[target[c]].state
           /\ (records'[target[c]]).bound = Bound(c)
           /\ (records'[target[c]]).extra = FALSE
           /\ \A i \in DOMAIN records \ {target[c]} : records'[i] = records[i]
<1>. DEFINE t == target[c]
<1>1. /\ t \in DOMAIN records
      /\ records[t].state = snap[c].state
      /\ c \in DOMAIN snap
  BY DEF Inv, Undisturbed, Current, Asked
<1>2. PICK copies \in Copies(c) : records' = Over([i \in {t} |-> Replaced(i, Body(c, copies))], records)
  BY TargetFound DEF Land
<1>3. /\ records'[t] = Replaced(t, Body(c, copies))
      /\ DOMAIN records' = DOMAIN records
      /\ \A i \in DOMAIN records \ {t} : records'[i] = records[i]
  BY <1>1, <1>2 DEF Over
<1>4. Replaced(t, Body(c, copies)).state = records[t].state
  BY <1>1, BodyIs DEF Replaced, Records
<1>5. Body(c, copies).fields \in [Fields -> Values]
  BY <1>1, BodyIs DEF Records
<1>6. /\ Replaced(t, Body(c, copies)).fields = Body(c, copies).fields
      /\ Replaced(t, Body(c, copies)).bound = Bound(c)
      /\ Replaced(t, Body(c, copies)).extra = FALSE
      /\ \A f \in Sent(c) : Body(c, copies).fields[f] = Merged(c)[f]
  BY <1>1, BodyIs
<1>7. (records'[t]).fields = Body(c, copies).fields
  BY <1>3, <1>6
<1>8. (records'[t]).bound = Bound(c) /\ (records'[t]).extra = FALSE /\ (records'[t]).state = records[t].state
  BY <1>3, <1>4, <1>6
<1>9. \A f \in Sent(c) : (records'[t]).fields[f] = Merged(c)[f]
  BY <1>6, <1>7
<1>. HIDE DEF t
<1>10. (records'[t]).fields \in [Fields -> Values]
  BY <1>5, <1>7
<1>. QED  BY <1>1, <1>3, <1>8, <1>9, <1>10 DEF t

\* What a suppression policy is called does not change.
LEMMA SuppressionLands ==
    ASSUME Inv, NEW c \in Calls, c \in DOMAIN snap, Land(c), kind = "suppression"
    PROVE  Unique'
<1>1. PICK copies \in Copies(c) :
         records' = Over([i \in Targets(c) |-> Replaced(i, Body(c, copies))], records)
  BY DEF Land
<1>2. Targets(c) = {i \in DOMAIN records : NameOf(i) = Merged(c)["name"]} /\ Unique
  BY DEF Targets, Inv, NamesDiffer
<1>3. DOMAIN records' = DOMAIN records
  BY <1>1, <1>2 DEF Over
<1>4. ASSUME NEW i \in DOMAIN records
      PROVE  (records'[i]).fields["name"] = NameOf(i)
  <2>1. CASE i \in Targets(c)
    <3>1. records'[i] = Replaced(i, Body(c, copies))
      BY <1>1, <2>1 DEF Over
    <3>2. (records'[i]).fields = Body(c, copies).fields
      <4>1. Replaced(i, Body(c, copies)).fields = Body(c, copies).fields
        BY BodyIs
      <4>. QED  BY <3>1, <4>1
    <3>3. Body(c, copies).fields["name"] = Merged(c)["name"]
      BY BodyIs, MergedIs DEF Inv
    <3>. QED  BY <1>2, <2>1, <3>2, <3>3
  <2>2. CASE i \notin Targets(c)
    BY <1>1, <2>2 DEF Over, NameOf
  <2>. QED  BY <2>1, <2>2
<1>. QED  BY <1>2, <1>3, <1>4 DEF Unique, NameOf

\* The parts of the invariant that say what a call has found, after its PUT landed.
LEMMA LandInv ==
    ASSUME Inv, NEW c \in Calls, pc[c] = "put", Land(c), UNCHANGED <<asked, snap>>,
           NEW next \in {"put", "back", "done"}, pc' = [pc EXCEPT ![c] = next]
    PROVE  Formed' /\ Undisturbed' /\ NamesDiffer' /\ NameFree'
<1>1. /\ Live(c) /\ c \in DOMAIN snap /\ TypeOK
      /\ overlapped' = [d \in Calls |-> overlapped[d] \/ (Live(d) /\ d # c)]
  BY LandTyped DEF Live, Inv, Asked
<1>2. \A d \in Calls \ {c} : pc'[d] = pc[d]
  BY <1>1 DEF TypeOK
<1>3. pc'[c] = next /\ overlapped'[c] = overlapped[c]
  BY <1>1 DEF TypeOK
<1>4. Undisturbed'
  <2>1. ASSUME NEW d \in Calls \ {c}, Live(d)', ~overlapped'[d]
        PROVE  FALSE
    BY <1>1, <1>2, <2>1 DEF Live
  <2>2. ASSUME Live(c)', ~overlapped'[c]
        PROVE  Current(c)'
    <3>1. /\ target[c] \in DOMAIN records
          /\ DOMAIN records' = DOMAIN records
          /\ \A f \in Sent(c) : (records'[target[c]]).fields[f] = Merged(c)[f]
          /\ (records'[target[c]]).fields \in [Fields -> Values]
          /\ (records'[target[c]]).state = records[target[c]].state
          /\ (records'[target[c]]).bound = Bound(c)
      BY <1>1, <1>3, <2>2, LandKeeps
    <3>2. /\ records[target[c]].state = snap[c].state
          /\ kind = "device" => snap[c].state = "off"
      BY <1>1, <1>3, <2>2 DEF Inv, Undisturbed, Current
    <3>3. Merged(c)' = Merged(c) /\ Sent(c)' = Sent(c) /\ Bound(c)' = Bound(c)
      BY DEF Merged, Sent, Bound, asked
    <3>4. \A f \in Sent(c) : Over(change[c], (records'[target[c]]).fields)[f] = Merged(c)[f]
      BY <1>1, <3>1, MergedIs DEF Over
    <3>. QED  BY <3>1, <3>2, <3>3, <3>4 DEF Current, asked
  <2>. QED  BY <2>1, <2>2 DEF Undisturbed
<1>5. ASSUME kind = "policy", NobodyOverlapped'
      PROVE  /\ Unique'
             /\ \A i \in DOMAIN records' \ {target[c]} :
                   (records'[i]).fields["name"] # Merged(c)["name"]
             /\ \A d \in Calls : pc'[d] = "put" => d = c
  <2>1. NobodyOverlapped /\ \A d \in Calls \ {c} : ~Live(d)
    BY <1>1, <1>5 DEF NobodyOverlapped
  <2>2. Unique /\ \A i \in DOMAIN records \ {target[c]} : NameOf(i) # Merged(c)["name"]
    BY <1>5, <2>1 DEF Inv, NamesDiffer, NameFree
  <2>3. /\ target[c] \in DOMAIN records
        /\ DOMAIN records' = DOMAIN records
        /\ (records'[target[c]]).fields["name"] = Merged(c)["name"]
        /\ \A i \in DOMAIN records \ {target[c]} : records'[i] = records[i]
    BY <1>1, <2>1, LandKeeps, MergedIs DEF NobodyOverlapped
  <2>4. \A i \in DOMAIN records \ {target[c]} : (records'[i]).fields["name"] = NameOf(i)
    BY <2>3 DEF NameOf
  <2>5. Unique'
    BY <2>2, <2>3, <2>4 DEF Unique, NameOf
  <2>6. \A d \in Calls : pc'[d] = "put" => d = c
    BY <1>2, <2>1 DEF Live
  <2>. QED  BY <2>2, <2>3, <2>4, <2>5, <2>6
<1>6. NamesDiffer'
  BY <1>1, <1>5, SuppressionLands DEF NamesDiffer, asked
<1>7. NameFree'
  <2>1. Merged(c)' = Merged(c)
    BY DEF Merged, asked
  <2>. QED  BY <1>5, <2>1 DEF NameFree, NameOf, asked
<1>8. Formed'
  BY <1>1, LandTyped DEF Inv, Formed, Possible, asked
<1>. QED  BY <1>4, <1>6, <1>7, <1>8

--------------------------------------------------------------------------------
(* The invariant, action by action. *)

\* A step that writes nothing, after which no call is further than before.
LEMMA Unwritten ==
    ASSUME Inv, UNCHANGED <<asked, snap, records, overlapped>>,
           \A c \in Calls : pc'[c] \in {pc[c], "done"} /\ (pc'[c] # "done" => result'[c] = result[c])
    PROVE  Asked' /\ Formed' /\ Undisturbed' /\ NamesDiffer' /\ NameFree'
<1>1. \A c \in Calls : /\ Live(c)' => Live(c) /\ pc'[c] = pc[c]
                       /\ pc'[c] = "put" => pc[c] = "put"
                       /\ pc'[c] = "names" => pc[c] = "names"
  BY DEF Live
<1>2. Asked'
  BY <1>1 DEF Inv, Asked, asked, Askable
<1>3. Undisturbed' /\ Formed'
  BY <1>1 DEF Inv, Undisturbed, Current, Merged, Sent, Bound, Formed, Possible, asked
<1>4. NamesDiffer' /\ NameFree'
  BY <1>1 DEF Inv, NamesDiffer, NameFree, NobodyOverlapped, Unique, NameOf, Merged, asked
<1>. QED  BY <1>2, <1>3, <1>4

LEMMA ReadFailsKeeps ==
    ASSUME Inv, NEW c \in Calls, Read(c), ReadFails(c)
    PROVE  Inv'
<1>1. /\ UNCHANGED <<asked, records, used, snap, tries, overlapped, moves, failures>>
      /\ pc' = [pc EXCEPT ![c] = "done"]
      /\ result' = [result EXCEPT ![c] = "refused"]
  BY DEF Read, ReadFails, Report
<1>2. TypeOK'
  BY <1>1 DEF Inv, TypeOK, PCs, Results, asked, failures
<1>3. \A d \in Calls : pc'[d] \in {pc[d], "done"} /\ (pc'[d] # "done" => result'[d] = result[d])
  BY <1>1 DEF Inv, TypeOK
<1>4. FailsForACause'
  BY <1>1 DEF Inv, TypeOK, FailsForACause, failures
<1>. QED  BY <1>1, <1>2, <1>3, <1>4, Unwritten DEF Inv

LEMMA ReadFoundKeeps ==
    ASSUME Inv, NEW c \in Calls, Read(c), ReadFound(c)
    PROVE  Inv'
<1>. DEFINE found == records[target[c]]
<1>1. /\ UNCHANGED <<asked, records, used, tries, overlapped, moves, failures>>
      /\ target[c] \in DOMAIN records
      /\ snap' = Over([d \in {c} |-> found], snap)
      /\ pc[c] = "read"
  BY DEF Read, ReadFound
<1>2. /\ found \in Records /\ found.fields \in [Fields -> Values]
      /\ snap \in PartialFunctions(Calls, Records)
  BY <1>1, RecordIs DEF Inv, TypeOK
<1>3. snap' \in PartialFunctions(Calls, Records)
  <2>1. [d \in {c} |-> found] \in PartialFunctions(Calls, Records)
    BY <1>2, Partial
  <2>. QED  BY <1>1, <1>2, <2>1, OverPartial
<1>4. /\ snap'[c] = found /\ c \in DOMAIN snap'
      /\ \A d \in Calls \ {c} : d \in DOMAIN snap => d \in DOMAIN snap' /\ snap'[d] = snap[d]
  BY <1>1 DEF Over
<1>5. /\ \A d \in Calls \ {c} : pc'[d] = pc[d] /\ result'[d] = result[d]
      /\ pc' \in [Calls -> PCs] /\ result' \in [Calls -> Results]
      /\ pc'[c] \in {"names", "put", "done"}
      /\ result'[c] \in {"none", "nothing", "refused"} \/ result'[c] = result[c]
      /\ pc'[c] # "done" => result'[c] = result[c]
      /\ pc'[c] = "names" => NewName(c, found)
      /\ pc'[c] = "put" /\ kind = "policy" => ~NewName(c, found)
      /\ pc'[c] = "put" /\ kind = "device" => found.state = "off"
      /\ pc'[c] = "names" => kind = "policy"
  BY DEF Read, ReadFound, Report, Goto, Inv, TypeOK, PCs, Results
<1>6. TypeOK'
  BY <1>1, <1>3, <1>5 DEF Inv, TypeOK, asked, failures
<1>7. Asked'
  BY <1>1, <1>4, <1>5 DEF Inv, Asked, asked, Askable, Live, NewName
<1>8. Undisturbed'
  <2>1. ASSUME NEW d \in Calls \ {c}, Live(d)', ~overlapped'[d]
        PROVE  Current(d)'
    <3>1. Live(d) /\ ~overlapped[d] /\ d \in DOMAIN snap /\ pc'[d] = pc[d]
      BY <1>1, <1>5, <2>1 DEF Live, Inv, Asked
    <3>2. Current(d) /\ snap'[d] = snap[d]
      BY <1>4, <3>1 DEF Inv, Undisturbed
    <3>. QED  BY <1>1, <3>1, <3>2 DEF Current, Merged, Sent, Bound, asked
  <2>2. ASSUME Live(c)'
        PROVE  Current(c)'
    <3>1. pc'[c] \in {"names", "put"}
      BY <1>5, <2>2 DEF Live
    <3>2. Merged(c)' = Over(change[c], found.fields)
      BY <1>1, <1>4 DEF Merged, asked
    <3>. QED  BY <1>1, <1>4, <1>5, <3>1, <3>2 DEF Current, asked
  <2>. QED  BY <2>1, <2>2 DEF Undisturbed
<1>9. NamesDiffer'
  BY <1>1 DEF Inv, NamesDiffer, NobodyOverlapped, Unique, NameOf, asked
<1>10. NameFree'
  <2>. SUFFICES ASSUME kind = "policy", NobodyOverlapped, NEW d \in Calls, pc'[d] = "put",
                       NEW i \in DOMAIN records \ {target[d]}
                PROVE  NameOf(i) # Merged(d)'["name"]
    BY <1>1 DEF NameFree, NobodyOverlapped, NameOf, asked
  <2>1. CASE d # c
    <3>1. pc[d] = "put" /\ d \in DOMAIN snap
      BY <1>5, <2>1 DEF Inv, Asked, Live
    <3>2. Merged(d)' = Merged(d)
      BY <1>1, <1>4, <2>1, <3>1 DEF Merged, asked
    <3>. QED  BY <3>1, <3>2 DEF Inv, NameFree
  <2>2. CASE d = c
    <3>1. Merged(c)' = Over(change[c], found.fields)
      BY <1>1, <1>4 DEF Merged, asked
    <3>2. Merged(c)'["name"] = NameOf(target[c])
      BY <1>1, <1>2, <1>5, <2>2, <3>1 DEF Over, NewName, NameOf
    <3>3. Unique
      BY DEF Inv, NamesDiffer
    <3>. QED  BY <1>1, <2>2, <3>2, <3>3 DEF Unique
  <2>. QED  BY <2>1, <2>2
<1>11. FailsForACause'
  BY <1>1, <1>5 DEF Inv, FailsForACause, failures
<1>12. Formed'
  <2>1. ASSUME NEW d \in DOMAIN snap'
        PROVE  Possible(snap'[d])
    BY <1>1, <2>1 DEF Inv, Formed, Over
  <2>. QED  BY <1>1, <2>1 DEF Inv, Formed, Possible, asked
<1>. QED  BY <1>6, <1>7, <1>8, <1>9, <1>10, <1>11, <1>12 DEF Inv

LEMMA CheckNameKeeps ==
    ASSUME Inv, NEW c \in Calls, CheckName(c)
    PROVE  Inv'
<1>1. /\ UNCHANGED <<asked, records, used, snap, tries, overlapped, moves, failures>>
      /\ pc[c] = "names"
  BY DEF CheckName
<1>2. CASE Report(c, "refused")
  <2>1. TypeOK'
    BY <1>1, <1>2 DEF Inv, TypeOK, PCs, Results, asked, Report, failures
  <2>2. \A d \in Calls : pc'[d] \in {pc[d], "done"} /\ (pc'[d] # "done" => result'[d] = result[d])
    BY <1>2 DEF Inv, TypeOK, Report
  <2>3. FailsForACause'
    BY <1>1, <1>2 DEF Inv, TypeOK, FailsForACause, Report, failures
  <2>. QED  BY <1>1, <2>1, <2>2, <2>3, Unwritten DEF Inv
<1>3. CASE ~NameTaken(c) /\ Goto(c, "put")
  <2>1. pc' = [pc EXCEPT ![c] = "put"] /\ result' = result
    BY <1>3 DEF Goto
  <2>2. TypeOK'
    BY <1>1, <2>1 DEF Inv, TypeOK, PCs, asked, failures
  <2>3. /\ \A d \in Calls \ {c} : pc'[d] = pc[d]
        /\ pc'[c] = "put" /\ c \in DOMAIN snap /\ "name" \in DOMAIN change[c]
    BY <1>1, <2>1 DEF Inv, TypeOK, Asked, Live
  <2>4. Asked'
    BY <1>1, <2>1, <2>3 DEF Inv, Asked, asked, Askable, Live
  <2>5. Undisturbed'
    BY <1>1, <2>3 DEF Inv, Undisturbed, Current, Live, Merged, Sent, Bound, asked
  <2>6. NamesDiffer'
    BY <1>1 DEF Inv, NamesDiffer, NobodyOverlapped, Unique, NameOf, asked
  <2>7. Merged(c)["name"] = change[c]["name"]
    BY <2>3, MergedIs DEF Inv
  <2>8. \A i \in DOMAIN records \ {target[c]} : NameOf(i) # Merged(c)["name"]
    BY <1>3, <2>7 DEF NameTaken
  <2>9. NameFree'
    BY <1>1, <2>3, <2>8 DEF Inv, NameFree, NobodyOverlapped, NameOf, Merged, asked
  <2>10. FailsForACause'
    BY <1>1, <2>1 DEF Inv, FailsForACause, failures
  <2>11. Formed'
    BY <1>1 DEF Inv, Formed, Possible, asked
  <2>. QED  BY <2>2, <2>4, <2>5, <2>6, <2>9, <2>10, <2>11 DEF Inv
<1>. QED  BY <1>2, <1>3 DEF CheckName

\* A PUT that is answered, rejected or not answered at all.
LEMMA PutKeeps ==
    ASSUME Inv, NEW c \in Calls, Put(c)
    PROVE  Inv'
<1>1. /\ pc[c] = "put" /\ UNCHANGED <<asked, used, snap, moves>>
      /\ Live(c) /\ c \in DOMAIN snap
  BY DEF Put, Live, Inv, Asked
<1>2. Answered(c) \/ Rejected(c) \/ Unanswered(c)
  BY DEF Put
<1>3. /\ Land(c) \/ UNCHANGED <<records, overlapped>>
      /\ \E next \in {"put", "back", "done"} : pc' = [pc EXCEPT ![c] = next]
  <2>1. CASE Answered(c)
    BY <2>1 DEF Answered, Report, Goto
  <2>2. CASE Rejected(c)
    BY <2>2 DEF Rejected, Report
  <2>3. CASE Unanswered(c)
    BY <2>3 DEF Unanswered, Report, Goto
  <2>. QED  BY <1>2, <2>1, <2>2, <2>3
<1>4. PICK next \in {"put", "back", "done"} : pc' = [pc EXCEPT ![c] = next]
  BY <1>3
<1>5. ~Land(c) => next \in {"put", "done"}
  <2>1. CASE Answered(c)
    BY <2>1 DEF Answered
  <2>2. CASE Rejected(c)
    BY <1>4, <2>2 DEF Rejected, Report, Inv, TypeOK
  <2>3. CASE Unanswered(c)
    BY <1>1, <1>4, <2>3 DEF Unanswered, Report, Goto, Inv, TypeOK
  <2>. QED  BY <1>2, <2>1, <2>2, <2>3
<1>6. TypeOK'
  <2>1. records' \in PartialFunctions(Ids, Records) /\ overlapped' \in [Calls -> BOOLEAN]
    BY <1>1, <1>3, LandTyped DEF Inv, TypeOK
  <2>2. pc' \in [Calls -> PCs]
    BY <1>4 DEF Inv, TypeOK, PCs
  <2>3. /\ result' \in [Calls -> Results] /\ faults' \in 0 .. MaxFaults
        /\ wrong' \in [Calls -> BOOLEAN]
    <3>1. result' \in [Calls -> Results]
      BY <1>2 DEF Inv, TypeOK, Results, Answered, Rejected, Unanswered, Report, Goto
    <3>2. Misfortune(c) \/ Fine(c)
      BY <1>2 DEF Answered, Rejected, Unanswered
    <3>3. faults' \in 0 .. MaxFaults /\ wrong' \in [Calls -> BOOLEAN]
      <4>1. CASE Misfortune(c)
        BY <4>1 DEF Inv, TypeOK, Misfortune
      <4>2. CASE Fine(c)
        BY <4>2 DEF Inv, TypeOK, Fine
      <4>. QED  BY <3>2, <4>1, <4>2
    <3>. QED  BY <3>1, <3>3
  <2>4. tries' \in [Calls -> 0 .. MaxRetries]
    BY <1>2 DEF Inv, TypeOK, Answered, Rejected, Unanswered, MayResend
  <2>. QED  BY <1>1, <2>1, <2>2, <2>3, <2>4 DEF Inv, TypeOK, asked
<1>7. Asked'
  <2>1. \A d \in Calls : (Live(d)' => Live(d)) /\ (pc'[d] = "names" => pc[d] = "names")
    BY <1>1, <1>4 DEF Inv, TypeOK, Live
  <2>2. \A d \in Calls : pc'[d] # "done" => pc[d] # "done" /\ result'[d] = result[d]
    BY <1>1, <1>2 DEF Inv, TypeOK, Answered, Rejected, Unanswered, Report, Goto
  <2>. QED  BY <1>1, <2>1, <2>2 DEF Inv, Asked, asked, Askable
<1>8. Formed' /\ Undisturbed' /\ NamesDiffer' /\ NameFree'
  <2>1. CASE Land(c)
    BY <1>1, <1>4, <2>1, LandInv
  <2>2. CASE ~Land(c)
    <3>1. UNCHANGED <<records, overlapped>> /\ \A d \in Calls : pc'[d] \in {pc[d], "done"}
      BY <1>1, <1>3, <1>4, <1>5, <2>2 DEF Inv, TypeOK
    <3>2. \A d \in Calls : pc'[d] # "done" => result'[d] = result[d]
      BY <1>1, <1>2 DEF Inv, TypeOK, Answered, Rejected, Unanswered, Report, Goto
    <3>. QED  BY <1>1, <3>1, <3>2, Unwritten
  <2>. QED  BY <2>1, <2>2
<1>9. FailsForACause'
  <2>1. \A d \in Calls : overlapped[d] => overlapped'[d]
    BY <1>1, <1>3, LandTyped DEF Inv, TypeOK
  <2>2. \A d \in Calls \ {c} : result'[d] = result[d] /\ wrong'[d] = wrong[d]
    BY <1>2 DEF Inv, TypeOK, Answered, Rejected, Unanswered, Report, Goto, Misfortune, Fine
  <2>3. ASSUME result'[c] \in {"error", "mismatch"}
        PROVE  overlapped'[c] \/ wrong'[c]
    <3>1. result[c] = "none"
      BY <1>1 DEF Inv, Asked
    <3>2. Rejected(c) \/ Unanswered(c)
      BY <1>2, <2>3, <3>1 DEF Answered, Report, Goto, Inv, TypeOK
    <3>3. Misfortune(c) \/ Targets(c) = {}
      BY <3>2 DEF Rejected, Unanswered
    <3>4. Misfortune(c) => wrong'[c]
      BY DEF Misfortune, Inv, TypeOK
    <3>5. overlapped[c] \/ Misfortune(c)
      BY <1>1, <3>3, TargetFound
    <3>. QED  BY <2>1, <3>4, <3>5
  <2>4. ASSUME NEW d \in Calls \ {c}, result'[d] \in {"error", "mismatch"}
        PROVE  overlapped'[d] \/ wrong'[d]
    BY <2>1, <2>2, <2>4 DEF Inv, FailsForACause
  <2>. QED  BY <2>3, <2>4 DEF FailsForACause
<1>. QED  BY <1>6, <1>7, <1>8, <1>9 DEF Inv

LEMMA ReadBackKeeps ==
    ASSUME Inv, NEW c \in Calls, ReadBack(c)
    PROVE  Inv'
<1>1. /\ UNCHANGED <<asked, records, used, snap, tries, overlapped, moves>>
      /\ pc[c] = "back" /\ pc' = [pc EXCEPT ![c] = "done"]
  BY DEF ReadBack, Report
<1>2. PICK what \in Results : result' = [result EXCEPT ![c] = what]
  BY DEF ReadBack, Report, Results
<1>3. /\ faults' \in 0 .. MaxFaults /\ wrong' \in [Calls -> BOOLEAN]
      /\ \A d \in Calls \ {c} : wrong'[d] = wrong[d]
      /\ Misfortune(c) => wrong'[c]
  <2>1. CASE Misfortune(c)
    BY <2>1 DEF Misfortune, Inv, TypeOK
  <2>2. CASE Fine(c)
    BY <2>2 DEF Misfortune, Fine, Inv, TypeOK
  <2>. QED  BY <2>1, <2>2 DEF ReadBack
<1>4. TypeOK'
  BY <1>1, <1>2, <1>3 DEF Inv, TypeOK, PCs, asked
<1>5. \A d \in Calls : pc'[d] \in {pc[d], "done"} /\ (pc'[d] # "done" => result'[d] = result[d])
  BY <1>1, <1>2 DEF Inv, TypeOK
<1>6. what \in {"error", "mismatch"} => overlapped[c] \/ wrong'[c]
  <2>. SUFFICES ASSUME what \in {"error", "mismatch"}, ~overlapped[c], ~Misfortune(c)
                PROVE  FALSE
    BY <1>3
  <2>1. /\ target[c] \in DOMAIN records
        /\ \A f \in Sent(c) : records[target[c]].fields[f] = Merged(c)[f]
    BY <1>1 DEF Inv, Undisturbed, Current, Live
  <2>2. AsSent(c)
    BY <2>1 DEF AsSent
  <2>3. Report(c, "updated")
    BY <2>1, <2>2 DEF ReadBack
  <2>. QED  BY <1>2, <2>3 DEF Report, Inv, TypeOK
<1>7. FailsForACause'
  <2>1. \A d \in Calls \ {c} : result'[d] = result[d]
    BY <1>2 DEF Inv, TypeOK
  <2>2. result'[c] = what
    BY <1>2 DEF Inv, TypeOK
  <2>. QED  BY <1>1, <1>3, <1>6, <2>1, <2>2 DEF Inv, FailsForACause
<1>. QED  BY <1>1, <1>4, <1>5, <1>7, Unwritten DEF Inv

\* What others do leaves names different, and every call that is under way overlapped.
LEMMA OthersKeep ==
    ASSUME Inv, NEW i \in Ids,
           \/ \E rec \in Records : Create(i, rec) \/ Edit(i, rec)
           \/ Delete(i)
           \/ Switch(i)
    PROVE  Inv'
<1>1. /\ UNCHANGED <<asked, pc, snap, tries, result, failures>>
      /\ moves' \in 0 .. MaxMoves
      /\ overlapped' = [c \in Calls |-> overlapped[c] \/ Live(c)]
  BY DEF Create, Edit, Delete, Switch, Meanwhile, Overlaps, Window, Live, Inv, TypeOK
<1>2. /\ records \in [DOMAIN records -> Records] /\ DOMAIN records \subseteq Ids
      /\ records \in PartialFunctions(Ids, Records)
  BY Partial DEF Inv, TypeOK
<1>3. /\ records' \in PartialFunctions(Ids, Records)
      /\ used' \in SUBSET Ids
      /\ kind \in {"policy", "suppression"} /\ Unique => Unique'
      /\ \A j \in DOMAIN records' : Possible(records'[j])
  <2>1. ASSUME NEW rec \in Records, Create(i, rec)
        PROVE  <1>3!:
    <3>. DEFINE new == [j \in {i} |-> rec]
    <3>1. new \in PartialFunctions(Ids, Records)
      BY Partial
    <3>2. /\ records' = Over(new, records) /\ ~InUse(rec.fields["name"]) /\ used' = used \union {i}
          /\ Possible(rec)
      BY <2>1 DEF Create
    <3>3. records' \in PartialFunctions(Ids, Records)
      <4>. HIDE DEF new
      <4>. QED  BY <1>2, <3>1, <3>2, OverPartial
    <3>4. /\ DOMAIN records' = DOMAIN records \union {i}
          /\ records'[i] = rec
          /\ \A j \in DOMAIN records \ {i} : records'[j] = records[j]
      BY <3>2 DEF Over
    <3>5. Unique => Unique'
      BY <3>2, <3>4 DEF Unique, NameOf, InUse
    <3>6. \A j \in DOMAIN records' : Possible(records'[j])
      BY <3>2, <3>4 DEF Inv, Formed
    <3>. QED  BY <3>2, <3>3, <3>5, <3>6 DEF Inv, TypeOK
  <2>2. ASSUME NEW rec \in Records, Edit(i, rec)
        PROVE  <1>3!:
    <3>1. /\ i \in DOMAIN records
          /\ records' = [records EXCEPT ![i] = rec]
          /\ rec.fields["name"] = NameOf(i) \/ ~InUse(rec.fields["name"])
          /\ used' = used /\ Possible(rec)
      BY <2>2 DEF Edit
    <3>2. /\ DOMAIN records' = DOMAIN records
          /\ records'[i] = rec
          /\ \A j \in DOMAIN records \ {i} : records'[j] = records[j]
          /\ records' \in [DOMAIN records -> Records]
      BY <1>2, <3>1
    <3>3. records' \in PartialFunctions(Ids, Records)
      BY <1>2, <3>2, Partial
    <3>4. Unique => Unique'
      BY <3>1, <3>2 DEF Unique, NameOf, InUse
    <3>5. \A j \in DOMAIN records' : Possible(records'[j])
      BY <3>1, <3>2 DEF Inv, Formed
    <3>. QED  BY <3>1, <3>3, <3>4, <3>5 DEF Inv, TypeOK
  <2>3. ASSUME Delete(i)
        PROVE  <1>3!:
    <3>1. records' = [j \in DOMAIN records \ {i} |-> records[j]] /\ used' = used
      BY <2>3 DEF Delete
    <3>2. records' \in PartialFunctions(Ids, Records)
      BY <1>2, <3>1, Partial
    <3>3. Unique => Unique'
      BY <3>1 DEF Unique, NameOf
    <3>4. \A j \in DOMAIN records' : Possible(records'[j])
      BY <3>1 DEF Inv, Formed
    <3>. QED  BY <3>1, <3>2, <3>3, <3>4 DEF Inv, TypeOK
  <2>4. ASSUME Switch(i)
        PROVE  <1>3!:
    <3>1. /\ i \in DOMAIN records /\ used' = used /\ kind \in {"policy", "device"}
          /\ records' = [records EXCEPT ![i].state = CHOOSE s \in States : s # @]
      BY <2>4 DEF Switch
    <3>2. (CHOOSE s \in States : s # records[i].state) \in States
      BY DEF States
    <3>3. PICK state \in States : records' = [records EXCEPT ![i].state = state]
      BY <3>1, <3>2
    <3>4. records'[i] = [records[i] EXCEPT !.state = state] /\ records[i] \in Records
      BY <1>2, <3>1, <3>3
    <3>5. /\ records'[i] \in Records /\ (records'[i]).fields = records[i].fields
          /\ (records'[i]).bound = records[i].bound /\ (records'[i]).extra = records[i].extra
      BY <3>4 DEF Records
    <3>6. /\ DOMAIN records' = DOMAIN records
          /\ \A j \in DOMAIN records \ {i} : records'[j] = records[j]
          /\ records' \in [DOMAIN records -> Records]
      BY <1>2, <3>1, <3>3, <3>5
    <3>7. records' \in PartialFunctions(Ids, Records)
      BY <1>2, <3>6, Partial
    <3>8. Unique => Unique'
      BY <3>5, <3>6 DEF Unique, NameOf
    <3>9. \A j \in DOMAIN records' : Possible(records'[j])
      BY <3>1, <3>5, <3>6 DEF Inv, Formed, Possible
    <3>. QED  BY <3>1, <3>7, <3>8, <3>9 DEF Inv, TypeOK
  <2>. QED  BY <2>1, <2>2, <2>3, <2>4
<1>4. TypeOK'
  BY <1>1, <1>3 DEF Inv, TypeOK, asked, failures
<1>5. Asked'
  BY <1>1 DEF Inv, Asked, asked, Askable, Live
<1>6. Undisturbed'
  BY <1>1 DEF Undisturbed, Live
<1>7. NamesDiffer'
  BY <1>1, <1>3 DEF Inv, TypeOK, NamesDiffer, NobodyOverlapped, asked
<1>8. NameFree'
  BY <1>1 DEF NameFree, NobodyOverlapped, Live
<1>9. FailsForACause'
  BY <1>1 DEF Inv, TypeOK, FailsForACause, failures
<1>10. Formed'
  BY <1>1, <1>3 DEF Inv, Formed, Possible, asked
<1>. QED  BY <1>4, <1>5, <1>6, <1>7, <1>8, <1>9, <1>10 DEF Inv

--------------------------------------------------------------------------------
(* The theorems. *)

LEMMA Initially == Init => Inv
<1>. SUFFICES ASSUME Init PROVE Inv
  OBVIOUS
<1>1. snap \in PartialFunctions(Calls, Records)
  <2>1. DOMAIN snap = {} /\ snap \in [{} -> Records]
    BY DEF Init
  <2>. QED  BY <2>1, Partial
<1>2. TypeOK
  <2>1. used \in SUBSET Ids
    BY Partial DEF Init
  <2>2. /\ pc \in [Calls -> PCs] /\ result \in [Calls -> Results]
        /\ tries \in [Calls -> 0 .. MaxRetries] /\ overlapped \in [Calls -> BOOLEAN]
        /\ moves \in 0 .. MaxMoves /\ faults \in 0 .. MaxFaults /\ wrong \in [Calls -> BOOLEAN]
    BY DEF Init, PCs, Results
  <2>. QED  BY <1>1, <2>1, <2>2 DEF Init, TypeOK
<1>3. Unique /\ \A c \in Calls : pc[c] = "read" /\ result[c] = "none" /\ Askable(c)
  BY DEF Init, Unique
<1>4. Formed
  BY DEF Init, Formed
<1>. QED  BY <1>2, <1>3, <1>4
       DEF Inv, Asked, Undisturbed, NamesDiffer, NameFree, FailsForACause, Live

LEMMA Inductive == Inv /\ [Next]_vars => Inv'
<1>. SUFFICES ASSUME Inv, [Next]_vars PROVE Inv'
  OBVIOUS
<1>1. ASSUME NEW c \in Calls, Step(c)
      PROVE  Inv'
  BY <1>1, ReadFailsKeeps, ReadFoundKeeps, CheckNameKeeps, PutKeeps, ReadBackKeeps DEF Step, Read
<1>2. CASE UNCHANGED vars
  <2>1. TypeOK'
    BY <1>2 DEF vars, asked, failures, Inv, TypeOK
  <2>2. FailsForACause'
    BY <1>2 DEF vars, asked, failures, Inv, FailsForACause
  <2>. QED  BY <1>2, <2>1, <2>2, Unwritten DEF vars, Inv
<1>. QED  BY <1>1, <1>2, OthersKeep DEF Next

LEMMA Invariance == Spec => []Inv
BY Initially, Inductive, PTL DEF Spec

\* Records, bodies and counters stay what the services take: what a call sends is a
\* complete record, and its PUT is sent no more than 1 + max_retries times.
THEOREM TypeCorrect == Spec => []TypeOK
<1>1. Inv => TypeOK
  BY DEF Inv
<1>. QED  BY <1>1, Invariance, PTL

\* An update that passed its checks fails only for somebody else's write, or because
\* the request it fails at went wrong: a PUT that is sent again finds what it writes.
THEOREM UpdateFailsForACause == Spec => []FailsForACause
<1>1. Inv => FailsForACause
  BY DEF Inv
<1>. QED  BY <1>1, Invariance, PTL

\* Performance policies keep different names unless a call was overtaken.
THEOREM NamesAreUnique == Spec => []NamesStayUnique
<1>1. Inv => NamesStayUnique
  BY DEF Inv, NamesDiffer, NobodyOverlapped, Unique, NamesStayUnique
<1>. QED  BY <1>1, Invariance, PTL

\* "omit to keep": the PUT of a complete record changes only what the call was given;
\* of a ZTP device, what the form has of it.
THEOREM TheRestIsKept == Spec => UpdateKeepsTheRest
<1>. DEFINE Kept(c) ==
       \/ UNCHANGED records
       \/ /\ \A i \in Ids \ {target[c]} :
                i \in DOMAIN records' \union DOMAIN records =>
                  i \in DOMAIN records' /\ i \in DOMAIN records /\ records'[i] = records[i]
          /\ target[c] \in DOMAIN records /\ target[c] \in DOMAIN records'
          /\ Keeps(c, records[target[c]], records'[target[c]])
<1>1. ASSUME Inv, NEW c \in Calls, Put(c), ~overlapped[c]
      PROVE  Kept(c)
  <2>. DEFINE old == records[target[c]]
              new == records'[target[c]]
  <2>1. SUFFICES ASSUME ~UNCHANGED records
                 PROVE  Kept(c)
    OBVIOUS
  <2>2. Live(c) /\ Land(c) /\ c \in DOMAIN snap
    BY <1>1, <2>1 DEF Put, Live, Answered, Rejected, Unanswered, Inv, Asked
  <2>3. /\ target[c] \in DOMAIN records
        /\ DOMAIN records' = DOMAIN records
        /\ \A f \in Sent(c) : new.fields[f] = Merged(c)[f]
        /\ new.state = old.state
        /\ new.bound = Bound(c)
        /\ new.extra = FALSE
        /\ \A i \in DOMAIN records \ {target[c]} : records'[i] = records[i]
    BY <1>1, <2>2, LandKeeps
  <2>4. /\ old.bound \in {snap[c].bound, Bound(c)}
        /\ \A f \in Sent(c) : Over(change[c], old.fields)[f] = Merged(c)[f]
    BY <1>1, <2>2 DEF Inv, Undisturbed, Current
  <2>5. new.bound = (IF rebind[c] = "keep" THEN old.bound ELSE rebind[c] = "bind")
    BY <2>3, <2>4 DEF Bound
  <2>6. \A f \in IF new.bound THEN Fields \ Metadata ELSE Fields :
           new.fields[f] = Over(change[c], old.fields)[f]
    BY <2>3, <2>4 DEF Sent
  <2>7. kind # "device" => new.extra = old.extra
    BY <1>1, <2>3, RecordIs DEF Inv, Formed, Possible
  <2>8. Keeps(c, old, new)
    BY <2>3, <2>5, <2>6, <2>7 DEF Keeps
  <2>. QED  BY <2>3, <2>8
<1>2. Inv /\ [Next]_vars => [\A c \in Calls : Put(c) /\ ~overlapped[c] => Kept(c)]_vars
  BY <1>1
<1>. QED  BY <1>2, Invariance, PTL DEF Spec, UpdateKeepsTheRest

\* "updated" is said of a record that has the values the call was given, unless it is a
\* ZTP device that takes them from its profile.
THEOREM UpdatedIsInPlace == Spec => UpdatedIsWritten
<1>. DEFINE InPlace(c) ==
       result[c] = "none" /\ result'[c] = "updated" /\ ~overlapped[c] =>
         \/ HasGiven(c, records'[target[c]])
         \/ records'[target[c]].bound /\ DOMAIN change[c] \intersect Metadata # {}
<1>1. ASSUME Inv, Next, NEW c \in Calls
      PROVE  InPlace(c)
  <2>. SUFFICES ASSUME result[c] = "none", result'[c] = "updated", ~overlapped[c],
                       ~((records'[target[c]]).bound /\ DOMAIN change[c] \intersect Metadata # {})
                PROVE  HasGiven(c, records'[target[c]])
    OBVIOUS
  <2>1. PICK d \in Calls : Step(d)
    BY <1>1 DEF Next, Create, Edit, Delete, Switch, Meanwhile
  <2>2. d = c
    BY <1>1, <2>1 DEF Step, Read, ReadFails, ReadFound, CheckName, Put, Answered, Rejected, Unanswered,
         ReadBack, Report, Goto, Inv, TypeOK
  <2>3. (Put(c) /\ Answered(c)) \/ ReadBack(c)
    BY <1>1, <2>1, <2>2 DEF Step, Read, ReadFails, ReadFound, CheckName, Put, Rejected, Unanswered,
         Report, Goto, Inv, TypeOK
  <2>4. Live(c) /\ c \in DOMAIN snap
    BY <1>1, <2>3 DEF Put, ReadBack, Live, Inv, Asked
  <2>5. /\ \A f \in Sent(c) : (records'[target[c]]).fields[f] = Merged(c)[f]
        /\ (records'[target[c]]).bound = Bound(c)
    <3>1. CASE Put(c) /\ Answered(c)
      BY <1>1, <2>4, <3>1, LandKeeps DEF Answered
    <3>2. CASE ReadBack(c)
      BY <1>1, <2>4, <3>2 DEF ReadBack, Inv, Undisturbed, Current
    <3>. QED  BY <2>3, <3>1, <3>2
  <2>6. DOMAIN change[c] \subseteq Sent(c)
    BY <1>1, <2>4, <2>5, MergedIs DEF Inv, Sent
  <2>7. \A f \in DOMAIN change[c] : (records'[target[c]]).fields[f] = change[c][f]
    BY <1>1, <2>4, <2>5, <2>6, MergedIs DEF Inv
  <2>. QED  BY <2>5, <2>7 DEF HasGiven, Bound
<1>2. Inv /\ [Next]_vars => [\A c \in Calls : InPlace(c)]_vars
  BY <1>1
<1>. QED  BY <1>2, Invariance, PTL DEF Spec, UpdatedIsWritten
================================================================================
