-------------------------- MODULE RootStoreProofs --------------------------
(***************************************************************************)
(* Theorems about RootStore, for every set of roots, every MaxGen and      *)
(* every set of faults unless a theorem says otherwise.                    *)
(***************************************************************************)
EXTENDS RootStore, TLAPS

Publishing == pc \in {"seek", "write", "barrier", "reread"}
Creating   == pc \in {"createSync", "createDir"}

\* Nothing has been written to the file.
Blank == \A i \in Side : slot[i] = Torn /\ slotDisk[i] = Torn

\* The slot a publication leaves alone is one generation behind the slot it
\* writes, and at least as new as anything else in the file or on the disk.
Spared ==
    LET kept == slot[Other(target)].gen
    IN  /\ size = Whole
        /\ kept > 0
        /\ next.gen = kept + 1
        /\ \A j \in Side : slotDisk[j].gen <= kept \/ (pc = "reread" /\ slotDisk = slot)

\* What a publication has done to the slot it writes.
Aimed ==
    /\ pc = "seek" => Selects(slot, Other(target))
    /\ pc = "write" => slot[target] = Torn
    /\ pc \in {"barrier", "reread"} => slot[target] = next

\* Unsynced bytes are torn or newer than anything synced, and the root recovery
\* selects is at least as new as anything synced.
Newer ==
    /\ \A i \in Side :
          \/ slot[i] \in {slotDisk[i], Torn}
          \/ \A j \in Side : slotDisk[j].gen < slot[i].gen
    /\ \A i, j \in Side : Selects(slot, i) => slotDisk[j].gen <= slot[i].gen

SlotInv ==
    /\ TypeOK
    /\ NeverDivergent
    /\ Newer
    /\ size = Missing => Blank
    /\ pc = "create" => size = Short /\ Blank
    /\ Creating => size = Whole /\ \A i \in Side : slot[i] = next
    /\ Publishing => Spared /\ Aimed

\* Without abandoned calls: what lies between two calls is synced and, once it is
\* bound or published, named; a publication puts only its own slot at risk.
SyncedInv ==
    /\ pc \in {"unbound", "idle", "reread", "createDir"} => slot = slotDisk /\ sizeDisk = size
    /\ Publishing => /\ sizeDisk = Whole
                     /\ slot[Other(target)] = slotDisk[Other(target)] \/ pc = "reread"
                     /\ published <= slot[Other(target)].gen
    /\ pc \in {"create", "createSync"} => published = 0
    /\ (pc = "idle" /\ size = Whole) \/ Publishing \/ published > 0 => named = TRUE

RootInv ==
    /\ SlotInv
    /\ PublishedRootSelectable
    /\ "abandon" \notin Faults => SyncedInv

-----------------------------------------------------------------------------
(***************************************************************************)
(* Types                                                                   *)
(***************************************************************************)

\* The initial state is well typed.
LEMMA TypeInit == Init => TypeOK
<1> SUFFICES ASSUME Init PROVE TypeOK
  OBVIOUS
<1> USE RootAssumption DEF RootAssumption, Init, Missing, Whole, Side
<1>1. size \in 0..2 /\ sizeDisk \in 0..2 /\ target \in Side
  OBVIOUS
<1>4. named \in BOOLEAN
  BY Zenon
<1>2. slot \in [Side -> Slot \cup {Torn}] /\ slotDisk \in [Side -> Slot \cup {Torn}]
  OBVIOUS
<1>3. published \in 0..MaxGen
  OBVIOUS
<1> QED
  BY <1>1, <1>2, <1>3, <1>4 DEF TypeOK

\* Every step keeps the state well typed.
LEMMA TypeNext == TypeOK /\ [Next]_vars => TypeOK'
<1> SUFFICES ASSUME TypeOK, [Next]_vars PROVE TypeOK'
  OBVIOUS
<1> USE RootAssumption DEF RootAssumption, TypeOK, Missing, Short, Whole, Side, Goto
<1>1. CASE Bind
  BY <1>1 DEF Bind
<1>2. ASSUME NEW r \in Root, Create(r) PROVE TypeOK'
  <2>1. 1 \in 1..MaxGen
    BY DEF Slot
  <2> QED
    BY <1>2, <2>1 DEF Create, Slot
<1>3. ASSUME NEW r \in Root, Publish(r) PROVE TypeOK'
  <2>1. PICK i \in Side : /\ slot[i].gen < MaxGen /\ Selects(slot, i)
                          /\ next' = [gen |-> slot[i].gen + 1, root |-> r]
                          /\ target' = Other(i)
    BY <1>3 DEF Publish
  <2>2. slot[i].gen \in 0..MaxGen
    BY DEF Slot, Torn
  <2>3. next' \in Slot /\ target' \in Side
    BY <2>1, <2>2 DEF Slot, Other
  <2> QED
    BY <1>3, <2>3 DEF Publish
<1>4. CASE CreateWrite
  BY <1>4 DEF CreateWrite
<1>5. CASE CreateSync
  BY <1>5 DEF CreateSync, Sync
<1>6. CASE CreateDir
  BY <1>6 DEF CreateDir, Slot
<1>7. CASE PublishTear
  BY <1>7 DEF PublishTear
<1>8. CASE PublishWrite
  BY <1>8 DEF PublishWrite
<1>9. CASE PublishBarrier
  BY <1>9 DEF PublishBarrier, Sync
<1>10. CASE PublishReread
  BY <1>10 DEF PublishReread, Slot
<1>11. CASE Abandon
  BY <1>11 DEF Abandon
<1>12. CASE PowerLoss
  <2>1. PICK kept \in {named, size # Missing} :
            /\ named' = kept
            /\ IF kept
               THEN /\ size' \in (IF sizeDisk = Missing THEN Short ELSE sizeDisk)..size
                    /\ slot' \in [Side -> Slot \cup {Torn}]
               ELSE /\ size' = Missing
                    /\ slot' = [i \in Side |-> Torn]
    BY <1>12, Zenon DEF PowerLoss
  <2>2. kept \in BOOLEAN
    OBVIOUS
  <2>3. CASE kept
    BY <1>12, <2>1, <2>2, <2>3 DEF PowerLoss
  <2>4. CASE ~kept
    BY <1>12, <2>1, <2>2, <2>4 DEF PowerLoss
  <2> QED
    BY <2>3, <2>4
<1>13. CASE UNCHANGED vars
  BY <1>13 DEF vars
<1> QED
  BY <1>1, <1>2, <1>3, <1>4, <1>5, <1>6, <1>7, <1>8, <1>9, <1>10, <1>11, <1>12, <1>13 DEF Next

\* Every variable of the root store keeps its type.
THEOREM TypeCorrect == Spec => []TypeOK
  BY TypeInit, TypeNext, PTL DEF Spec

-----------------------------------------------------------------------------
(***************************************************************************)
(* The slots                                                               *)
(***************************************************************************)

\* What a generation can be.
LEMMA Generations ==
    ASSUME NEW s \in [Side -> Slot \cup {Torn}]
    PROVE  /\ \A i \in Side : s[i].gen \in 0..MaxGen
           /\ \A i \in Side : s[i].gen = 0 <=> s[i] = Torn
  BY RootAssumption DEF RootAssumption, Slot, Torn

\* The slot invariant holds initially.
LEMMA SlotInit == Init => SlotInv
<1> SUFFICES ASSUME Init PROVE SlotInv
  OBVIOUS
<1>1. TypeOK
  BY TypeInit
<1>2. Blank
  BY DEF Init, Blank
<1>3. NeverDivergent /\ Newer
  BY <1>2 DEF NeverDivergent, DivergentPair, Newer, Blank, Credible, Torn, Side, Selects
<1> QED
  BY <1>1, <1>2, <1>3 DEF SlotInv, Init, Creating, Publishing

\* A file that is no divergent pair and has a credible slot has a selected root,
\* as new as any of its slots.
LEMMA SomeSelected ==
    ASSUME NEW s \in [Side -> Slot \cup {Torn}], ~DivergentPair(s), NEW k \in Side, Credible(s[k])
    PROVE  \E i \in Side : Selects(s, i) /\ s[k].gen <= s[i].gen
  BY Generations DEF DivergentPair, Selects, Credible, Side, Other

\* What a power loss leaves of the slots is no divergent pair.
LEMMA SurvivorsAgree ==
    ASSUME SlotInv, NEW s \in [Side -> Slot \cup {Torn}],
           \A i \in Side : s[i] \in {slot[i], slotDisk[i], Torn}
    PROVE  ~DivergentPair(s)
<1> USE RootAssumption DEF RootAssumption
<1>1. \A i \in Side :
          /\ s[i].gen \in 0..MaxGen
          /\ slot[i].gen \in 0..MaxGen
          /\ slotDisk[i].gen \in 0..MaxGen
          /\ s[i] = Torn => s[i].gen = 0
  BY Generations DEF SlotInv, TypeOK
<1>2. ASSUME NEW i \in Side, NEW j \in Side, s[i] = slot[i], s[j] = slotDisk[j],
             s[i].gen = s[j].gen, s[i].gen > 0
      PROVE  s[i] = slotDisk[i]
  BY <1>1, <1>2 DEF SlotInv, Newer
<1>3. \/ s[0] = slot[0] /\ s[1] = slot[1]
      \/ s[0] = slotDisk[0] /\ s[1] = slotDisk[1]
      \/ ~(s[0].gen = s[1].gen /\ s[0].gen > 0)
  BY <1>1, <1>2 DEF Side
<1> QED
  BY <1>3 DEF SlotInv, NeverDivergent, DivergentPair, Credible

\* Every step preserves the slot invariant.
LEMMA SlotNext == SlotInv /\ [Next]_vars => SlotInv'
<1> SUFFICES ASSUME SlotInv, [Next]_vars PROVE SlotInv'
  OBVIOUS
<1> USE RootAssumption DEF RootAssumption
<1>T. TypeOK /\ TypeOK'
  BY TypeNext DEF SlotInv
<1>G. /\ \A i \in Side : slot[i].gen \in 0..MaxGen /\ slotDisk[i].gen \in 0..MaxGen
      /\ \A i \in Side : slot[i].gen = 0 <=> slot[i] = Torn
      /\ \A i \in Side : slotDisk[i].gen = 0 <=> slotDisk[i] = Torn
      /\ next.gen \in 1..MaxGen
      /\ Torn.gen = 0
  BY <1>T, Generations DEF TypeOK, Slot, Torn
<1> DEFINE Files == <<size, slot, slotDisk>>
           Calls == <<pc, next, target>>
<1>1. ASSUME UNCHANGED Files, UNCHANGED <<next, target>>,
             pc' \in {"unbound", "idle"} \/ pc' = pc
      PROVE  SlotInv'
  BY <1>T, <1>1 DEF SlotInv, NeverDivergent, Newer, Blank, Spared, Aimed, Creating, Publishing
<1>2. CASE Bind \/ CreateDir \/ PublishReread \/ Abandon \/ UNCHANGED vars
  BY <1>1, <1>2 DEF Bind, CreateDir, PublishReread, Abandon, Goto, vars
<1>3. ASSUME NEW r \in Root, Create(r) PROVE SlotInv'
  <2>1. Blank'
    BY <1>3 DEF Create, SlotInv, Blank
  <2>2. NeverDivergent' /\ Newer'
    BY <1>3 DEF Create, SlotInv, NeverDivergent, Newer
  <2> QED
    BY <1>T, <1>3, <2>1, <2>2 DEF Create, Goto, SlotInv, Creating, Publishing, Missing, Short
<1>4. CASE CreateWrite
  <2>1. pc = "create" /\ Blank /\ pc' = "createSync" /\ size' = Whole /\ next' = next
        /\ slot' = [i \in Side |-> next] /\ slotDisk' = slotDisk
    BY <1>4 DEF CreateWrite, Goto, SlotInv
  <2>2. NeverDivergent' /\ Newer'
    BY <1>G, <2>1 DEF NeverDivergent, DivergentPair, Credible, Newer, Blank, Side
  <2> QED
    BY <1>T, <2>1, <2>2 DEF SlotInv, Creating, Publishing, Missing, Whole
<1>5. CASE CreateSync
  <2>1. pc = "createSync" /\ pc' = "createDir" /\ slotDisk' = slot /\ slot' = slot /\ size' = size
        /\ next' = next
    BY <1>5 DEF CreateSync, Goto, Sync
  <2>2. size = Whole /\ \A i \in Side : slot[i] = next
    BY <2>1 DEF SlotInv, Creating
  <2>3. NeverDivergent' /\ Newer'
    BY <1>G, <2>1, <2>2 DEF SlotInv, NeverDivergent, Newer, Selects, DivergentPair, Side, Other
  <2> QED
    BY <1>T, <2>1, <2>2, <2>3 DEF SlotInv, Creating, Publishing, Missing, Whole
<1>6. ASSUME NEW r \in Root, Publish(r) PROVE SlotInv'
  <2>1. PICK i \in Side : /\ Selects(slot, i)
                          /\ next' = [gen |-> slot[i].gen + 1, root |-> r]
                          /\ target' = Other(i)
    BY <1>6 DEF Publish
  <2>2. size = Whole /\ pc' = "seek" /\ UNCHANGED Files
    BY <1>6 DEF Publish, Goto
  <2>3. Other(target') = i
    BY <2>1 DEF Other, Side
  <2>4. Spared' /\ Aimed'
    BY <1>G, <2>1, <2>2, <2>3 DEF Spared, Aimed, SlotInv, Newer, Selects, Credible
  <2>5. NeverDivergent' /\ Newer'
    BY <2>2 DEF SlotInv, NeverDivergent, Newer
  <2> QED
    BY <1>T, <2>2, <2>4, <2>5 DEF SlotInv, Creating, Publishing, Missing, Whole
<1>O. ASSUME Publishing
      PROVE  /\ Other(target) \in Side /\ target # Other(target) /\ Other(Other(target)) = target
             /\ \A i \in Side : i = target \/ i = Other(target)
             /\ Spared /\ Aimed
  BY <1>T, <1>O DEF TypeOK, SlotInv, Side, Other
<1>7. CASE PublishTear
  <2>1. /\ pc = "seek" /\ pc' = "write" /\ size' = size /\ next' = next /\ target' = target
        /\ slot' = [slot EXCEPT ![target] = Torn] /\ slotDisk' = slotDisk
    BY <1>7 DEF PublishTear, Goto
  <2>2. slot'[target] = Torn /\ slot'[Other(target)] = slot[Other(target)]
    BY <1>T, <1>O, <2>1 DEF TypeOK, Publishing
  <2>3. Spared' /\ Aimed'
    BY <1>O, <2>1, <2>2 DEF Spared, Aimed, Publishing
  <2>4. ~DivergentPair(slot')
    BY <1>G, <1>O, <2>1, <2>2 DEF DivergentPair, Credible, Publishing, Side
  <2>5. NeverDivergent'
    BY <2>1, <2>4 DEF SlotInv, NeverDivergent
  <2>6. Newer'
    <3>1. \A i \in Side : i # target => slot'[i] = slot[i]
      BY <1>O, <2>1, <2>2 DEF Publishing
    <3>2. \A i, j \in Side : Selects(slot, i)' => slotDisk[j].gen <= slot'[i].gen
      BY <1>G, <1>O, <2>1, <2>2 DEF Spared, Selects, Credible, Publishing
    <3> QED
      BY <1>G, <2>1, <2>2, <3>1, <3>2 DEF Newer, SlotInv
  <2> QED
    BY <1>O, <1>T, <2>1, <2>3, <2>5, <2>6 DEF SlotInv, Creating, Publishing, Spared, Missing, Whole
<1>8. CASE PublishWrite
  <2>1. /\ pc = "write" /\ pc' = "barrier" /\ size' = size /\ next' = next /\ target' = target
        /\ slot' = [slot EXCEPT ![target] = next] /\ slotDisk' = slotDisk
    BY <1>8 DEF PublishWrite, Goto
  <2>2. slot'[target] = next /\ slot'[Other(target)] = slot[Other(target)]
    BY <1>T, <1>O, <2>1 DEF TypeOK, Publishing
  <2>3. Spared' /\ Aimed'
    BY <1>O, <2>1, <2>2 DEF Spared, Aimed, Publishing
  <2>4. \A j \in Side : slotDisk[j].gen < next.gen /\ slot[Other(target)].gen < next.gen
    BY <1>G, <1>O, <2>1 DEF Spared, Publishing
  <2>5. NeverDivergent'
    <3>1. slot'[0].gen # slot'[1].gen
      BY <1>G, <1>O, <2>1, <2>2, <2>4 DEF Publishing, Side
    <3> QED
      BY <2>1, <3>1 DEF SlotInv, NeverDivergent, DivergentPair
  <2>6. Newer'
    <3>1. \A i \in Side : i # target => slot'[i] = slot[i]
      BY <1>O, <2>1, <2>2 DEF Publishing
    <3>2. \A i, j \in Side : Selects(slot, i)' => slotDisk[j].gen <= slot'[i].gen
      BY <1>G, <1>O, <2>1, <2>2, <2>4 DEF Selects, Publishing
    <3> QED
      BY <1>G, <2>1, <2>2, <2>4, <3>1, <3>2 DEF Newer, SlotInv
  <2> QED
    BY <1>O, <1>T, <2>1, <2>3, <2>5, <2>6 DEF SlotInv, Creating, Publishing, Spared, Missing, Whole
<1>9. CASE PublishBarrier
  <2>1. /\ pc = "barrier" /\ pc' = "reread" /\ size' = size /\ next' = next /\ target' = target
        /\ slot' = slot /\ slotDisk' = slot
    BY <1>9 DEF PublishBarrier, Goto, Sync
  <2>2. Spared' /\ Aimed'
    BY <1>O, <2>1 DEF Spared, Aimed, Publishing
  <2>3. Newer'
    BY <1>G, <2>1 DEF Newer, Selects, Side, Other
  <2> QED
    BY <1>O, <1>T, <2>1, <2>2, <2>3 DEF SlotInv, NeverDivergent, Creating, Publishing, Spared, Missing, Whole
<1>10. CASE PowerLoss
  <2>1. pc' = "unbound" /\ slotDisk' = slot'
    BY <1>10 DEF PowerLoss
  <2>2. \A i \in Side : slot'[i] \in {slot[i], slotDisk[i], Torn}
    BY <1>10 DEF PowerLoss
  <2>3. ~DivergentPair(slot')
    BY <1>T, <2>2, SurvivorsAgree DEF TypeOK
  <2>4. \A i \in Side : slot'[i].gen \in 0..MaxGen
    BY <1>T, Generations DEF TypeOK
  <2>5. Newer'
    BY <2>1, <2>4 DEF Newer, Selects, Side, Other
  <2>6. size' = Missing => Blank'
    BY <1>T, <1>10, <2>1 DEF PowerLoss, Blank, Missing, Short, Whole, TypeOK
  <2> QED
    BY <1>T, <2>1, <2>3, <2>5, <2>6 DEF SlotInv, NeverDivergent, Creating, Publishing
<1> QED
  BY <1>2, <1>3, <1>4, <1>5, <1>6, <1>7, <1>8, <1>9, <1>10 DEF Next

\* The slots of the file keep their order: the inductive invariant of the store.
THEOREM SlotsInvariant == Spec => []SlotInv
  BY SlotInit, SlotNext, PTL DEF Spec

\* Whatever calls are abandoned and whatever power losses happen, recovery never
\* meets two different slots of one generation (select_root's divergent pair).
THEOREM StoreNeverDivergent == Spec => []NeverDivergent
<1>1. SlotInv => NeverDivergent
  BY DEF SlotInv
<1> QED
  BY <1>1, SlotsInvariant, PTL

-----------------------------------------------------------------------------
(***************************************************************************)
(* The selected root                                                       *)
(***************************************************************************)

\* Without a power loss a selected root gives way only to a newer one.
LEMMA RootKept ==
    ASSUME SlotInv, [Next]_vars, ~PowerLoss, NEW g \in 1..MaxGen, HasRootFrom(g)
    PROVE  HasRootFrom(g)'
<1> USE RootAssumption DEF RootAssumption
<1>T. TypeOK /\ TypeOK'
  BY TypeNext DEF SlotInv
<1>G. /\ \A i \in Side : slot[i].gen \in 0..MaxGen
      /\ next.gen \in 1..MaxGen
      /\ Torn.gen = 0
  BY <1>T, Generations DEF TypeOK, Slot, Torn
<1>1. PICK i \in Side : size = Whole /\ Selects(slot, i) /\ slot[i].gen >= g
  BY DEF HasRootFrom
<1>2. CASE UNCHANGED <<size, slot>>
  BY <1>2 DEF HasRootFrom
<1>3. CASE CreateWrite \/ \E r \in Root : Create(r)
  BY <1>1, <1>3 DEF CreateWrite, Create, Goto, SlotInv, Missing, Short, Whole
<1>O. ASSUME Publishing
      PROVE  /\ Other(target) \in Side /\ target # Other(target) /\ Other(Other(target)) = target
             /\ i = target \/ i = Other(target)
             /\ Spared /\ Aimed
  BY <1>T, <1>O DEF TypeOK, SlotInv, Side, Other
<1>4. CASE PublishTear
  <2>1. pc = "seek" /\ size' = size /\ slot' = [slot EXCEPT ![target] = Torn]
    BY <1>4 DEF PublishTear, Goto
  <2>2. slot'[target] = Torn /\ slot'[Other(target)] = slot[Other(target)]
    BY <1>T, <1>O, <2>1 DEF TypeOK, Publishing
  <2>3. Selects(slot, Other(target)) /\ slot[Other(target)].gen > 0
    BY <1>O, <2>1 DEF Publishing, Aimed, Spared
  <2>4. i = Other(target)
    BY <1>G, <1>O, <1>1, <2>1, <2>3 DEF Publishing, Selects
  <2>5. Selects(slot, i)'
    BY <1>G, <1>O, <2>1, <2>2, <2>3, <2>4 DEF Publishing, Selects, DivergentPair, Credible, Side
  <2> QED
    BY <1>1, <2>1, <2>2, <2>4, <2>5 DEF HasRootFrom
<1>5. CASE PublishWrite
  <2>1. pc = "write" /\ size' = size /\ slot' = [slot EXCEPT ![target] = next]
    BY <1>5 DEF PublishWrite, Goto
  <2>2. slot'[target] = next /\ slot'[Other(target)] = slot[Other(target)]
    BY <1>T, <1>O, <2>1 DEF TypeOK, Publishing
  <2>3. slot[target] = Torn /\ next.gen = slot[Other(target)].gen + 1
    BY <1>O, <2>1 DEF Publishing, Aimed, Spared
  <2>4. i = Other(target)
    BY <1>G, <1>O, <1>1, <2>1, <2>3 DEF Publishing, Selects, Credible
  <2>5. ~DivergentPair(slot')
    BY SlotNext DEF SlotInv, NeverDivergent
  <2>6. Selects(slot', target)
    BY <1>G, <1>O, <2>1, <2>2, <2>3, <2>4, <2>5 DEF Publishing, Selects, Credible
  <2> QED
    BY <1>G, <1>T, <1>1, <2>1, <2>2, <2>3, <2>4, <2>6 DEF HasRootFrom, TypeOK
<1>6. \/ UNCHANGED <<size, slot>>
      \/ CreateWrite \/ \E r \in Root : Create(r)
      \/ PublishTear \/ PublishWrite
  BY DEF Next, vars, Bind, CreateSync, CreateDir, Publish, PublishBarrier, PublishReread, Abandon
<1> QED
  BY <1>2, <1>3, <1>4, <1>5, <1>6

\* A reader that selects twice (read_current_generation), with anything but a
\* power loss in between, never goes back a generation.
THEOREM SelectionNeverGoesBack == Spec => ReadersNeverGoBack
<1> DEFINE Forward == \A g \in 1..MaxGen : ~PowerLoss /\ HasRootFrom(g) => HasRootFrom(g)'
<1>1. SlotInv /\ [Next]_vars => [Forward]_vars
  BY RootKept
<1> QED
  BY <1>1, SlotsInvariant, PTL DEF Spec, ReadersNeverGoBack

\* The side recovery selects is unique.
LEMMA OneSelected ==
    ASSUME NEW s \in [Side -> Slot \cup {Torn}], NEW i \in Side, NEW j \in Side,
           Selects(s, i), Selects(s, j)
    PROVE  i = j
  BY Generations, RootAssumption DEF RootAssumption, Selects, Side, Other

\* Every step preserves what is known of the synced slots.
LEMMA SyncedNext ==
    ASSUME SlotInv, PublishedRootSelectable, SyncedInv, "abandon" \notin Faults, [Next]_vars
    PROVE  SyncedInv'
<1> USE RootAssumption DEF RootAssumption
<1>T. TypeOK /\ TypeOK'
  BY TypeNext DEF SlotInv
<1>P. published > 0 => size = Whole
  BY DEF PublishedRootSelectable, HasRootFrom
<1>1. CASE Bind
  <2>1. size # Missing => named' = TRUE
    BY <1>1, Zenon DEF Bind
  <2> QED
    BY <1>1, <1>P, <2>1 DEF Bind, Goto, SyncedInv, Publishing, Missing, Whole
<1>2. ASSUME NEW r \in Root, Create(r) PROVE SyncedInv'
  BY <1>T, <1>P, <1>2 DEF Create, Goto, SyncedInv, Publishing, Missing, Short, Whole, TypeOK
<1>3. ASSUME NEW r \in Root, Publish(r) PROVE SyncedInv'
  <2>1. PICK i \in Side : Selects(slot, i) /\ target' = Other(i)
    BY <1>3 DEF Publish
  <2>2. Other(target') = i
    BY <2>1 DEF Other, Side
  <2>3. published <= slot[i].gen
    <3>1. CASE published = 0
      BY <2>1, <3>1, <1>T, Generations DEF TypeOK
    <3>2. CASE published > 0
      BY <2>1, <3>2, <1>T, OneSelected DEF TypeOK, PublishedRootSelectable, HasRootFrom
    <3> QED
      BY <1>T, <3>1, <3>2 DEF TypeOK
  <2>4. /\ pc = "idle" /\ pc' = "seek" /\ size = Whole
        /\ UNCHANGED <<size, sizeDisk, named, slot, slotDisk, published>>
    BY <1>3 DEF Publish, Goto
  <2> QED
    BY <2>2, <2>3, <2>4 DEF SyncedInv, Publishing
<1>4. CASE CreateWrite
  BY <1>4 DEF CreateWrite, Goto, SyncedInv, Publishing
<1>5. CASE CreateSync
  BY <1>5 DEF CreateSync, Sync, Goto, SyncedInv, Publishing
<1>6. CASE CreateDir
  BY <1>6 DEF CreateDir, Goto, SyncedInv, Publishing
<1>O. ASSUME Publishing
      PROVE  Other(target) \in Side /\ target # Other(target)
  BY <1>T DEF TypeOK, Side, Other
<1>7. CASE PublishTear \/ PublishWrite
  <2>1. /\ pc \in {"seek", "write"} /\ pc' \in {"write", "barrier"}
        /\ UNCHANGED <<size, sizeDisk, named, slotDisk, target, published>>
    BY <1>7 DEF PublishTear, PublishWrite, Goto
  <2>2. slot'[Other(target)] = slot[Other(target)]
    BY <1>T, <1>O, <1>7, <2>1 DEF PublishTear, PublishWrite, TypeOK, Publishing
  <2> QED
    BY <2>1, <2>2 DEF SyncedInv, Publishing
<1>8. CASE PublishBarrier
  BY <1>8 DEF PublishBarrier, Sync, Goto, SlotInv, Spared, SyncedInv, Publishing
<1>9. CASE PublishReread
  BY <1>9 DEF PublishReread, Goto, SyncedInv, Publishing
<1>10. CASE PowerLoss
  <2>1. /\ pc' = "unbound" /\ slotDisk' = slot' /\ sizeDisk' = size' /\ published' = published
    BY <1>10 DEF PowerLoss
  <2>2. named = TRUE /\ size # Missing => named' = TRUE
    BY <1>10, Zenon DEF PowerLoss
  <2>3. published > 0 => named = TRUE /\ size # Missing
    BY <1>P DEF SyncedInv, Missing, Whole
  <2> QED
    BY <2>1, <2>2, <2>3 DEF SyncedInv, Publishing
<1>11. CASE UNCHANGED vars
  BY <1>11 DEF vars, SyncedInv, Publishing
<1> QED
  BY <1>1, <1>2, <1>3, <1>4, <1>5, <1>6, <1>7, <1>8, <1>9, <1>10, <1>11 DEF Next, Abandon

\* No step takes a published root away.
LEMMA PublishedNext ==
    ASSUME RootInv, Faults # {"abandon", "power"}, [Next]_vars
    PROVE  PublishedRootSelectable'
<1> USE RootAssumption DEF RootAssumption
<1>T. TypeOK /\ TypeOK' /\ SlotInv /\ SlotInv'
  BY TypeNext, SlotNext DEF SlotInv, RootInv
<1>1. CASE CreateDir
  <2>1. size' = Whole /\ slot'[0] = next /\ slot'[1] = next /\ published' = next.gen /\ next.gen > 0
    BY <1>T, <1>1 DEF CreateDir, Goto, SlotInv, Creating, Side, TypeOK, Slot
  <2>2. Selects(slot, 0)' /\ slot'[0].gen >= published'
    BY <1>T, <2>1 DEF Selects, Credible, DivergentPair, Other, TypeOK
  <2> QED
    BY <2>1, <2>2 DEF PublishedRootSelectable, HasRootFrom, Side
<1>2. CASE PublishReread
  <2>1. size' = Whole /\ published' = slot'[target].gen /\ Selects(slot', target)
    BY <1>T, <1>2 DEF PublishReread, Goto, SlotInv, Publishing, Spared
  <2> QED
    BY <1>T, <2>1 DEF PublishedRootSelectable, HasRootFrom, TypeOK
<1>3. CASE PowerLoss
  <2> SUFFICES ASSUME published > 0 PROVE HasRootFrom(published)'
    BY <1>3 DEF PublishedRootSelectable, PowerLoss
  <2>1. "abandon" \notin Faults
    BY <1>3 DEF PowerLoss
  <2>2. SyncedInv /\ PublishedRootSelectable
    BY <2>1 DEF RootInv
  <2>3. size = Whole /\ named = TRUE
    BY <2>2 DEF PublishedRootSelectable, HasRootFrom, SyncedInv
  <2>4. sizeDisk = Whole
    BY <1>T, <2>2, <2>3 DEF SyncedInv, Publishing, SlotInv, TypeOK, Short, Whole
  <2>5. /\ size' = Whole /\ published' = published
        /\ \A i \in Side : slot'[i] \in IF slot[i] = slotDisk[i]
                                        THEN {slot[i]} ELSE {slot[i], slotDisk[i], Torn}
    <3>1. size # Missing /\ sizeDisk # Missing
      BY <2>3, <2>4 DEF Missing, Whole
    <3>2. /\ size' \in (IF sizeDisk = Missing THEN Short ELSE sizeDisk)..size
          /\ published' = published
          /\ \A i \in Side : slot'[i] \in IF slot[i] = slotDisk[i]
                                          THEN {slot[i]} ELSE {slot[i], slotDisk[i], Torn}
      BY <1>3, <2>3, <3>1, Zenon DEF PowerLoss
    <3> QED
      BY <2>3, <2>4, <3>1, <3>2 DEF Whole
  <2>6. PICK k \in Side : Credible(slot'[k]) /\ slot'[k].gen >= published
    <3>1. CASE slot = slotDisk
      BY <2>2, <2>5, <3>1 DEF PublishedRootSelectable, HasRootFrom, Selects
    <3>2. CASE slot # slotDisk
      <4>1. Publishing /\ slot[Other(target)] = slotDisk[Other(target)]
                       /\ published <= slot[Other(target)].gen
        BY <1>T, <2>2, <2>3, <3>2 DEF SyncedInv, Publishing, TypeOK, SlotInv, Short, Whole
      <4>2. Other(target) \in Side /\ slot[Other(target)].gen > 0
        BY <1>T, <4>1 DEF TypeOK, Side, Other, SlotInv, Spared
      <4> QED
        BY <2>5, <4>1, <4>2 DEF Credible
    <3> QED
      BY <3>1, <3>2
  <2>7. PICK i \in Side : Selects(slot', i) /\ slot'[k].gen <= slot'[i].gen
    BY <1>T, <2>6, SomeSelected DEF SlotInv, NeverDivergent, TypeOK
  <2> QED
    BY <1>T, <2>5, <2>6, <2>7, Generations DEF HasRootFrom, TypeOK
<1>4. CASE ~PowerLoss /\ published' = published
  BY <1>T, <1>4, RootKept DEF RootInv, PublishedRootSelectable, TypeOK
<1> QED
  BY <1>1, <1>2, <1>3, <1>4 DEF Next, vars, Bind, Create, CreateWrite, CreateSync, Publish,
     PublishTear, PublishWrite, PublishBarrier, Abandon

\* Every step preserves the store invariant.
LEMMA RootNext ==
    ASSUME RootInv, Faults # {"abandon", "power"}, [Next]_vars
    PROVE  RootInv'
  BY SlotNext, SyncedNext, PublishedNext DEF RootInv

\* "The previous generation remains complete, authenticated, and selectable
\* throughout" (store.rs): recovery selects a root at least as new as the last one
\* published, whatever the calls that are abandoned, and whatever the power losses
\* if no call is abandoned. With both it fails: that is the run root_abandon_power.
THEOREM PublishedRootsLast ==
    Faults # {"abandon", "power"} => (Spec => []PublishedRootSelectable)
<1> SUFFICES ASSUME Faults # {"abandon", "power"} PROVE Spec => []PublishedRootSelectable
  OBVIOUS
<1>1. Init => RootInv
  <2> SUFFICES ASSUME Init PROVE RootInv
    OBVIOUS
  <2>1. PublishedRootSelectable /\ SyncedInv
    BY DEF Init, PublishedRootSelectable, SyncedInv, Publishing
  <2> QED
    BY <2>1, SlotInit DEF RootInv
<1>2. RootInv /\ [Next]_vars => RootInv'
  BY RootNext
<1>3. RootInv => PublishedRootSelectable
  BY DEF RootInv
<1> QED
  BY <1>1, <1>2, <1>3, PTL DEF Spec

=============================================================================
