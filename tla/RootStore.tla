----------------------------- MODULE RootStore -----------------------------
(***************************************************************************)
(* manifest.root, the one mutable file of a database directory             *)
(* (crates/fgdb-chronicle/src/store.rs and root.rs).                       *)
(*                                                                         *)
(* Two fixed slots are written alternately: a publish overwrites the slot  *)
(* that is not selected, syncs the file and rereads it. Selection takes    *)
(* the credible slot of the highest generation. The slots lie in different *)
(* pages, so an unsynced write of one may survive a power loss with or     *)
(* without an unsynced write of the other.                                 *)
(***************************************************************************)
EXTENDS Integers

CONSTANTS
    Root,       \* what a slot can name
    NoRoot,     \* what a slot that fails its tear check names
    MaxGen,     \* the last slot_generation (u64::MAX in the code)
    Faults      \* which of "abandon" (a call fails or is dropped half way)
                \* and "power" (a power loss) can happen

ASSUME RootAssumption ==
    /\ NoRoot \notin Root
    /\ MaxGen \in Nat
    /\ Faults \subseteq {"abandon", "power"}

Side  == {0, 1}
Slot  == [gen : 1..MaxGen, root : Root]

\* A slot whose bytes fail RootSlot::parse: torn, or never written.
Torn == [gen |-> 0, root |-> NoRoot]

\* The length of the file: absent, short of two slots, or two slots.
Missing == 0
Short   == 1
Whole   == 2

VARIABLES
    size, sizeDisk,     \* length visible to a reader, and certain to survive
    named,              \* the directory entry is durable
    slot, slotDisk,     \* [Side -> Slot or Torn] visible, and certain to survive
    pc,                 \* the creation or publication in flight
    next,               \* the slot it writes
    target,             \* where
    published           \* the generation of the last call that returned Ok

vars == <<size, sizeDisk, named, slot, slotDisk, pc, next, target, published>>

TypeOK ==
    /\ size \in Missing..Whole
    /\ sizeDisk \in Missing..Whole
    /\ named \in BOOLEAN
    /\ slot \in [Side -> Slot \cup {Torn}]
    /\ slotDisk \in [Side -> Slot \cup {Torn}]
    /\ pc \in {"unbound", "idle", "create", "createSync", "createDir",
               "seek", "write", "barrier", "reread"}
    /\ next \in Slot
    /\ target \in Side
    /\ published \in 0..MaxGen

-----------------------------------------------------------------------------
(***************************************************************************)
(* select_root                                                             *)
(***************************************************************************)

Credible(s) == s.gen > 0
Other(i)    == 1 - i

\* Equal generations are accepted only for identical slots.
DivergentPair(s) ==
    Credible(s[0]) /\ Credible(s[1]) /\ s[0].gen = s[1].gen /\ s[0] # s[1]

\* The side recovery selects (the lower one of an identical pair): the credible
\* slot of the highest generation.
Selects(s, i) ==
    /\ Credible(s[i])
    /\ ~DivergentPair(s)
    /\ s[Other(i)].gen < s[i].gen \/ (s[Other(i)] = s[i] /\ i = 0)

\* The file has a selected root of generation at least g.
HasRootFrom(g) == size = Whole /\ \E i \in Side : Selects(slot, i) /\ slot[i].gen >= g

-----------------------------------------------------------------------------

Init ==
    /\ size = Missing
    /\ sizeDisk = Missing
    /\ named = FALSE
    /\ slot = [i \in Side |-> Torn]
    /\ slotDisk = [i \in Side |-> Torn]
    /\ pc = "unbound"
    /\ next \in Slot
    /\ target = 0
    /\ published = 0

Goto(from, to) == pc = from /\ pc' = to

\* A database handle binds only a file that is missing or has a selected root;
\* any other is refused, on this attempt and on every later one.
Bindable == size = Missing \/ HasRootFrom(1)

\* Every bind, the first and the one after a failure, opens the block store,
\* which syncs the database directory.
Bind ==
    /\ Bindable
    /\ Goto("unbound", "idle")
    /\ named' = (size # Missing)
    /\ UNCHANGED <<size, sizeDisk, slot, slotDisk, next, target, published>>

(***************************************************************************)
(* create                                                                  *)
(***************************************************************************)

\* create_new: the name appears before any byte; it refuses an existing file.
Create(r) ==
    /\ size = Missing
    /\ Goto("idle", "create")
    /\ size' = Short
    /\ next' = [gen |-> 1, root |-> r]
    /\ UNCHANGED <<sizeDisk, named, slot, slotDisk, target, published>>

\* The same bytes into both slots.
CreateWrite ==
    /\ Goto("create", "createSync")
    /\ size' = Whole
    /\ slot' = [i \in Side |-> next]
    /\ UNCHANGED <<sizeDisk, named, slotDisk, next, target, published>>

Sync ==
    /\ sizeDisk' = size
    /\ slotDisk' = slot

CreateSync ==
    /\ Goto("createSync", "createDir")
    /\ Sync
    /\ UNCHANGED <<size, named, slot, next, target, published>>

CreateDir ==
    /\ Goto("createDir", "idle")
    /\ named' = TRUE
    /\ published' = next.gen
    /\ UNCHANGED <<size, sizeDisk, slot, slotDisk, next, target>>

(***************************************************************************)
(* publish_evidenced                                                       *)
(***************************************************************************)

\* Mutants of Publish: the selected slot is overwritten; the generation is counted
\* from the last successful call and not from the file; it may pass the last one.
PublishOverSelected(r) ==
    /\ size = Whole
    /\ Goto("idle", "seek")
    /\ \E i \in Side :
          /\ Selects(slot, i)
          /\ slot[i].gen < MaxGen
          /\ next' = [gen |-> slot[i].gen + 1, root |-> r]
          /\ target' = i
    /\ UNCHANGED <<size, sizeDisk, named, slot, slotDisk, published>>
PublishStaleGeneration(r) ==
    /\ size = Whole
    /\ Goto("idle", "seek")
    /\ \E i \in Side :
          /\ Selects(slot, i)
          /\ published < MaxGen
          /\ next' = [gen |-> published + 1, root |-> r]
          /\ target' = Other(i)
    /\ UNCHANGED <<size, sizeDisk, named, slot, slotDisk, published>>
PublishPastLast(r) ==
    /\ size = Whole
    /\ Goto("idle", "seek")
    /\ \E i \in Side :
          /\ Selects(slot, i)
          /\ next' = [gen |-> slot[i].gen + 1, root |-> r]
          /\ target' = Other(i)
    /\ UNCHANGED <<size, sizeDisk, named, slot, slotDisk, published>>

\* Read the file, select, refuse a generation that does not increase, and aim
\* at the slot that is not selected. Callers name their next root with
\* next_slot_generation, one above the selected generation.
Publish(r) ==
    /\ size = Whole
    /\ Goto("idle", "seek")
    /\ \E i \in Side :
          /\ Selects(slot, i)
          /\ slot[i].gen < MaxGen
          /\ next' = [gen |-> slot[i].gen + 1, root |-> r]
          /\ target' = Other(i)
    /\ UNCHANGED <<size, sizeDisk, named, slot, slotDisk, published>>

\* The slot bytes are on their way: neither the old nor the new slot parses.
PublishTear ==
    /\ Goto("seek", "write")
    /\ slot' = [slot EXCEPT ![target] = Torn]
    /\ UNCHANGED <<size, sizeDisk, named, slotDisk, next, target, published>>

PublishWrite ==
    /\ Goto("write", "barrier")
    /\ slot' = [slot EXCEPT ![target] = next]
    /\ UNCHANGED <<size, sizeDisk, named, slotDisk, next, target, published>>

PublishBarrier ==
    /\ Goto("barrier", "reread")
    /\ Sync
    /\ UNCHANGED <<size, named, slot, next, target, published>>

\* Evidence is minted only if recovery would now select exactly this slot.
PublishReread ==
    /\ Goto("reread", "idle")
    /\ Selects(slot, target) /\ slot[target] = next
    /\ published' = next.gen
    /\ UNCHANGED <<size, sizeDisk, named, slot, slotDisk, next, target>>

-----------------------------------------------------------------------------
(***************************************************************************)
(* Faults                                                                  *)
(***************************************************************************)

\* The call returns an error, its future is dropped, or its process dies. The
\* database handle is fenced or gone, so the next use of the file is a bind.
Abandon ==
    /\ "abandon" \in Faults
    /\ pc \notin {"idle", "unbound"}
    /\ pc' = "unbound"
    /\ UNCHANGED <<size, sizeDisk, named, slot, slotDisk, next, target, published>>

\* Each slot is left with its synced bytes, its newer bytes or a mixture; an
\* unsynced name or length may be lost.
PowerLoss ==
    /\ "power" \in Faults
    /\ pc' = "unbound"
    /\ \E kept \in {named, size # Missing} :
          /\ named' = kept
          /\ IF kept
             THEN /\ size' \in (IF sizeDisk = Missing THEN Short ELSE sizeDisk)..size
                  /\ \E s \in [Side -> Slot \cup {Torn}] :
                        /\ \A i \in Side :
                              s[i] \in IF slot[i] = slotDisk[i]
                                       THEN {slot[i]}
                                       ELSE {slot[i], slotDisk[i], Torn}
                        /\ slot' = s
             ELSE /\ size' = Missing
                  /\ slot' = [i \in Side |-> Torn]
    /\ sizeDisk' = size'
    /\ slotDisk' = slot'
    /\ UNCHANGED <<next, target, published>>

Next ==
    \/ Bind
    \/ \E r \in Root : Create(r) \/ Publish(r)
    \/ CreateWrite
    \/ CreateSync
    \/ CreateDir
    \/ PublishTear
    \/ PublishWrite
    \/ PublishBarrier
    \/ PublishReread
    \/ Abandon
    \/ PowerLoss

Spec == Init /\ [][Next]_vars

-----------------------------------------------------------------------------
(***************************************************************************)
(* Properties                                                              *)
(***************************************************************************)

\* "The previous generation remains complete, authenticated, and selectable
\* throughout" (store.rs): whatever happens, recovery selects a root at least as
\* new as the last one whose publication returned Ok.
PublishedRootSelectable == published > 0 => HasRootFrom(published)

\* A reader that selects twice, with any number of publications begun, torn or
\* abandoned in between but no power loss, never goes back a generation.
ReadersNeverGoBack ==
    [][\A g \in 1..MaxGen : ~PowerLoss /\ HasRootFrom(g) => HasRootFrom(g)']_vars

\* Two slots of one generation are always the same slot, so recovery never
\* refuses a file this store wrote as a divergent pair.
NeverDivergent == ~DivergentPair(slot) /\ ~DivergentPair(slotDisk)

\* The bind's reconciliation refuses what is "not this database's lawful slot"
\* (lib.rs, bind_with_coordinator), so it should bind every file that this
\* database itself left behind.
OwnFileIsBindable == pc = "unbound" => Bindable
=============================================================================
