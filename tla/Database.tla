------------------------------ MODULE Database ------------------------------
(***************************************************************************)
(* The embedded Database handle (crates/fgdb/src/lib.rs): how a commit, a  *)
(* compaction, an open and a recovery move the derived state (partition    *)
(* manifest, root slot, in-memory snapshot) behind the commit stream, and  *)
(* what a lease-free reader in another process makes of it.                *)
(*                                                                         *)
(* The stream is what module CommitStream promises and Chronicle           *)
(* implements; the root slot is the register that RootStore implements. A  *)
(* manifest is stored durably and is never removed.                        *)
(***************************************************************************)
EXTENDS Integers, Sequences, SequencesExt

CONSTANTS
    Commit,     \* what can be committed
    MaxSeq,     \* bound on the length of the stream
    MaxGen,     \* the last slot_generation (u64::MAX in the code)
    MaxFaults,  \* bound on the number of faults
    Faults      \* which of "process" (an operation fails, is cancelled or its
                \* process dies) and "power" (a power loss) can happen

ASSUME DatabaseAssumption ==
    /\ MaxSeq \in Nat
    /\ MaxGen \in Nat \ {0}
    /\ MaxFaults \in Nat
    /\ Faults \subseteq {"process", "power"}

\* What a manifest names: the partition of the commits `at`. Its chain hash
\* commits to exactly these commits. The physical layout depends on how many of
\* them the last compaction consolidated.
Root   == [at : Seq(Commit), base : Nat]
NoRoot == [at |-> <<>>, base |-> -1]

Slot   == [gen : 1..MaxGen, root : Root]
NoSlot == [gen |-> 0, root |-> NoRoot]

Healthy == "Healthy"
Unknown == "CommitOutcomeUnknown"
Fenced  == "NeedsAuthoritativeRecovery"
Opening == "Opening"
Closed  == "Closed"

VARIABLES
    \* ---- durable state
    stream,     \* the commits recovery would find now
    synced,     \* how many of them a power loss must keep
    stored,     \* the roots whose manifests are in the block store
    slot,       \* manifest.root as a reader sees it
    slotDisk,   \* manifest.root as a power loss may leave it
    \* ---- the handle that holds the writer lease
    state,      \* DatabaseState, or that there is none yet or any more
    owner,      \* who opened it: "writer", or a "reader" that has to heal
    pc,         \* how far the operation in flight has come
    work,       \* the root it is about to publish
    snap,       \* the root of the published snapshot
    slotGen,    \* slot_generation
    \* ---- a reader in another process
    rpc, rroot, \* how far it has come, and the root it holds
    rfloor,     \* what had been served when it began
    \* ---- what callers know
    promised,   \* the commits that passed D2
    shown,      \* the commits a Healthy handle has served
    faults      \* faults so far

durable == <<stream, synced, stored, slot, slotDisk>>
handle  == <<state, owner, pc, work, snap, slotGen>>
reader  == <<rpc, rroot, rfloor>>
vars    == <<durable, handle, reader, promised, shown, faults>>

Commits(s) == s \in Seq(Commit) /\ Len(s) <= MaxSeq
IsRoot(r)  == r \in Root /\ Len(r.at) <= MaxSeq /\ r.base <= MaxSeq

TypeOK ==
    /\ Commits(stream)
    /\ synced \in 0..MaxSeq
    /\ \A r \in stored : IsRoot(r)
    /\ \A s \in {slot, slotDisk} : s = NoSlot \/ (s \in Slot /\ IsRoot(s.root))
    /\ state \in {Healthy, Unknown, Fenced, Opening, Closed}
    /\ owner \in {"writer", "reader"}
    /\ pc \in {"idle", "select", "rebuild", "reconcile", "marker", "d2", "manifest",
               "compact", "slotWrite", "slotSync"}
    /\ IsRoot(work) /\ IsRoot(snap)
    /\ slotGen \in 0..MaxGen
    /\ rpc \in {"idle", "scan", "bind", "opening", "view", "refused"}
    /\ rroot = NoRoot \/ IsRoot(rroot)
    /\ Commits(rfloor) /\ Commits(promised) /\ Commits(shown)
    /\ faults \in 0..MaxFaults

Empty == [at |-> <<>>, base |-> 0]

\* The directory as create_with_vfs leaves it before its first bind.
Init ==
    /\ stream = <<>> /\ synced = 0
    /\ stored = {}
    /\ slot = NoSlot /\ slotDisk = NoSlot
    /\ state = Closed /\ owner = "writer" /\ pc = "idle"
    /\ work = Empty /\ snap = Empty /\ slotGen = 0
    /\ rpc = "idle" /\ rroot = NoRoot /\ rfloor = <<>>
    /\ promised = <<>> /\ shown = <<>>
    /\ faults = 0

-----------------------------------------------------------------------------
(***************************************************************************)
(* bind_with_coordinator: every open, and recovery                         *)
(***************************************************************************)

At(step, next) == pc = step /\ pc' = next

\* The chain binding: the root was published by this very history. A root past
\* the end of the chain, or of another history, is not bound.
Bound(root) == IsPrefix(root.at, stream)

\* The commits past the root's frontier.
Suffix(root) == SubSeq(stream, Len(root.at) + 1, Len(stream))

\* The coordinator takes the lease; the handle does not exist yet.
BeginBind(who, step) ==
    /\ state' = Opening
    /\ owner' = who
    /\ pc' = step

\* open_with_vfs: the checkpoint-selected path.
Open ==
    /\ state = Closed
    /\ BeginBind("writer", "select")
    /\ UNCHANGED <<durable, work, snap, slotGen, reader, promised, shown, faults>>

\* recover_authoritatively: the fenced handle is dropped and everything is
\* folded again from the stream, whatever the slot says.
RecoverAuthoritatively ==
    /\ state \in {Unknown, Fenced} /\ pc = "idle"
    /\ BeginBind("writer", "rebuild")
    /\ work' = [at |-> stream, base |-> 0]
    /\ UNCHANGED <<durable, snap, slotGen, reader, promised, shown, faults>>

\* An open that fails gives the lease back.
Refuse ==
    /\ state' = Closed
    /\ pc' = "idle"
    /\ UNCHANGED <<owner, work, snap, slotGen>>

\* Mutants of SelectCheckpoint: the chain binding is not checked; only a current
\* slot is accepted.
SelectCheckpointUnbound ==
    /\ At("select", "rebuild")
    /\ work' = IF slot = NoSlot THEN [at |-> stream, base |-> 0]
               ELSE [slot.root EXCEPT !.at = @ \o Suffix(slot.root)]
    /\ UNCHANGED <<durable, state, owner, snap, slotGen, reader, promised, shown, faults>>
SelectCurrentCheckpoint ==
    /\ pc = "select"
    /\ \/ /\ slot = NoSlot \/ slot.root.at = stream
          /\ work' = IF slot = NoSlot THEN [at |-> stream, base |-> 0] ELSE slot.root
          /\ pc' = "rebuild"
          /\ UNCHANGED <<state, owner, snap, slotGen>>
       \/ /\ slot # NoSlot /\ slot.root.at # stream
          /\ Refuse
    /\ UNCHANGED <<durable, reader, promised, shown, faults>>

\* select_checkpoint and reopen_from_verified_checkpoint: the slot's partition is
\* taken when it is bound and only the suffix is folded onto it; without a slot
\* the stream is folded from its beginning.
SelectCheckpoint ==
    /\ pc = "select"
    /\ \/ /\ slot = NoSlot
          /\ work' = [at |-> stream, base |-> 0]
          /\ pc' = "rebuild"
          /\ UNCHANGED <<state, owner, snap, slotGen>>
       \/ /\ slot # NoSlot
          /\ slot.root \in stored /\ Bound(slot.root)
          /\ work' = [slot.root EXCEPT !.at = @ \o Suffix(slot.root)]
          /\ pc' = IF Suffix(slot.root) = <<>> THEN "reconcile" ELSE "rebuild"
          /\ UNCHANGED <<state, owner, snap, slotGen>>
       \/ /\ slot # NoSlot
          /\ slot.root \notin stored \/ ~Bound(slot.root)
          /\ Refuse
    /\ UNCHANGED <<durable, reader, promised, shown, faults>>

\* publish_and_snapshot: the rebuilt partition's root and manifest become durable.
PublishRebuilt ==
    /\ At("rebuild", "reconcile")
    /\ stored' = stored \cup {work}
    /\ UNCHANGED <<stream, synced, slot, slotDisk, state, owner, work, snap, slotGen,
                   reader, promised, shown, faults>>

\* The snapshot swap and the return to Healthy, in one poll.
Serve(gen) ==
    /\ state' = Healthy
    /\ pc' = "idle"
    /\ snap' = work
    /\ slotGen' = gen
    /\ shown' = work.at

\* Mutant of Reconcile: a bound but stale slot is kept instead of healed.
ReconcileWithoutHealing ==
    /\ pc = "reconcile"
    /\ \/ /\ slot = NoSlot
          /\ pc' = "slotWrite"
          /\ slotGen' = 0
          /\ UNCHANGED <<state, snap, shown>>
       \/ /\ slot # NoSlot
          /\ Serve(slot.gen)
    /\ UNCHANGED <<durable, owner, work, reader, promised, faults>>

\* The reconciliation of the root slot: create it, keep it, heal it forward, or
\* refuse; a slot at the last generation cannot be healed.
Reconcile ==
    /\ pc = "reconcile"
    /\ \/ /\ slot = NoSlot
          /\ pc' = "slotWrite"
          /\ slotGen' = 0
          /\ UNCHANGED <<state, snap, shown>>
       \/ /\ slot # NoSlot /\ slot.root = work
          /\ Serve(slot.gen)
       \/ /\ slot # NoSlot /\ slot.root # work
          /\ slot.root \in stored /\ Bound(slot.root) /\ slot.gen < MaxGen
          /\ pc' = "slotWrite"
          /\ slotGen' = slot.gen
          /\ UNCHANGED <<state, snap, shown>>
       \/ /\ slot # NoSlot /\ slot.root # work
          /\ slot.root \notin stored \/ ~Bound(slot.root) \/ slot.gen = MaxGen
          /\ state' = Closed
          /\ pc' = "idle"
          /\ UNCHANGED <<snap, slotGen, shown>>
    /\ UNCHANGED <<durable, owner, work, reader, promised, faults>>

-----------------------------------------------------------------------------
(***************************************************************************)
(* commit_template_inner and compact                                       *)
(***************************************************************************)

\* Mutant of Writable: the generations may run out after D2.
WritableUnchecked == state = Healthy /\ owner = "writer" /\ pc = "idle"

\* A writer's idle Healthy handle with a successor generation left.
Writable == state = Healthy /\ owner = "writer" /\ pc = "idle" /\ slotGen < MaxGen

\* Mutants of BeginCommit: the handle is not fenced; the root is published before
\* the marker is appended.
BeginCommitUnfenced(c) ==
    /\ Writable
    /\ Len(stream) < MaxSeq
    /\ pc' = "marker"
    /\ work' = [snap EXCEPT !.at = Append(snap.at, c)]
    /\ UNCHANGED <<durable, state, owner, snap, slotGen, reader, promised, shown, faults>>
BeginCommitRootFirst(c) ==
    /\ Writable
    /\ Len(stream) < MaxSeq
    /\ state' = Unknown
    /\ pc' = "manifest"
    /\ work' = [snap EXCEPT !.at = Append(snap.at, c)]
    /\ UNCHANGED <<durable, owner, snap, slotGen, reader, promised, shown, faults>>

\* The handle is fenced before the first await of the coordinator's commit.
BeginCommit(c) ==
    /\ Writable
    /\ Len(stream) < MaxSeq
    /\ state' = Unknown
    /\ pc' = "marker"
    /\ work' = [snap EXCEPT !.at = Append(snap.at, c)]
    /\ UNCHANGED <<durable, owner, snap, slotGen, reader, promised, shown, faults>>

\* The coordinator refuses without having been poisoned (a validator's verdict,
\* a capsule it cannot write): nothing was appended.
RefuseCommit ==
    /\ At("marker", "idle")
    /\ state' = Healthy
    /\ UNCHANGED <<durable, owner, work, snap, slotGen, reader, promised, shown, faults>>

\* The marker is visible; whether it is durable is open until D2.
AppendMarker ==
    /\ At("marker", "d2")
    /\ stream' = Append(stream, Last(work.at))
    /\ UNCHANGED <<synced, stored, slot, slotDisk, state, owner, work, snap, slotGen,
                   reader, promised, shown, faults>>

\* Mutant of D2: the log is not synced.
D2Unsynced ==
    /\ At("d2", "manifest")
    /\ promised' = stream
    /\ state' = Fenced
    /\ UNCHANGED <<durable, owner, work, snap, slotGen, reader, shown, faults>>

\* D2 returned: the commit is durable and the old snapshot is stale.
D2 ==
    /\ At("d2", "manifest")
    /\ synced' = Len(stream)
    /\ promised' = stream
    /\ state' = Fenced
    /\ UNCHANGED <<stream, stored, slot, slotDisk, owner, work, snap, slotGen,
                   reader, shown, faults>>

\* Mutant of PublishManifest: the manifest is not stored before the slot is written.
PublishManifestLate ==
    /\ At("manifest", "slotWrite")
    /\ UNCHANGED <<durable, state, owner, work, snap, slotGen, reader, promised, shown,
                   faults>>

\* Blocks, patches, partition root and manifest.
PublishManifest ==
    /\ At("manifest", "slotWrite")
    /\ stored' = stored \cup {work}
    /\ UNCHANGED <<stream, synced, slot, slotDisk, state, owner, work, snap, slotGen,
                   reader, promised, shown, faults>>

\* compact consolidates the snapshot; the handle stays Healthy meanwhile.
BeginCompact ==
    /\ Writable
    /\ snap.base # Len(snap.at)
    /\ pc' = "compact"
    /\ work' = [snap EXCEPT !.base = Len(snap.at)]
    /\ UNCHANGED <<durable, state, owner, snap, slotGen, reader, promised, shown, faults>>

\* Mutant of PublishCompacted: the handle is not fenced.
PublishCompactedUnfenced ==
    /\ At("compact", "slotWrite")
    /\ stored' = stored \cup {work}
    /\ UNCHANGED <<stream, synced, slot, slotDisk, state, owner, work, snap, slotGen,
                   reader, promised, shown, faults>>

\* The replacement's manifest is durable; the handle is fenced before the slot
\* write, the first step that others can observe.
PublishCompacted ==
    /\ At("compact", "slotWrite")
    /\ stored' = stored \cup {work}
    /\ state' = Fenced
    /\ UNCHANGED <<stream, synced, slot, slotDisk, owner, work, snap, slotGen,
                   reader, promised, shown, faults>>

\* RootStore's create or publish: refused unless the generation increases.
SlotWrite ==
    /\ At("slotWrite", "slotSync")
    /\ slot.gen <= slotGen
    /\ slot' = [gen |-> slotGen + 1, root |-> work]
    /\ UNCHANGED <<stream, synced, stored, slotDisk, state, owner, work, snap, slotGen,
                   reader, promised, shown, faults>>

\* Mutant of SlotSync: the handle serves before the slot is durable.
SlotSyncSkipped ==
    /\ pc = "slotSync"
    /\ Serve(slotGen + 1)
    /\ UNCHANGED <<durable, owner, work, reader, promised, faults>>

\* Its barrier and reread returned: the handle serves the new generation.
SlotSync ==
    /\ pc = "slotSync"
    /\ slotDisk' = slot
    /\ Serve(slotGen + 1)
    /\ UNCHANGED <<stream, synced, stored, slot, owner, work, reader, promised, faults>>

-----------------------------------------------------------------------------
(***************************************************************************)
(* open_read_view_with_vfs                                                 *)
(***************************************************************************)

\* The slot is read first. Without one only a full open can help.
ReadSlot ==
    /\ rpc = "idle"
    /\ rpc' = IF slot = NoSlot THEN "bind"
              ELSE IF slot.root \in stored THEN "scan" ELSE "refused"
    /\ rroot' = slot.root
    /\ rfloor' = shown
    /\ UNCHANGED <<durable, handle, promised, shown, faults>>

\* Then the chain is scanned and the slot's root is bound to it: current,
\* lagging behind, or SlotDisagreesWithStream.
ScanChain ==
    /\ rpc = "scan"
    /\ rpc' = IF ~Bound(rroot) THEN "refused"
              ELSE IF rroot.at = stream THEN "view" ELSE "bind"
    /\ UNCHANGED <<durable, handle, rroot, rfloor, promised, shown, faults>>

\* Somebody must heal. If a writer holds the lease that is the writer's work and
\* a lagging generation is served meanwhile; a missing one is an error.
ReaderBind ==
    /\ rpc = "bind"
    /\ \/ /\ state # Closed
          /\ rpc' = IF rroot = NoRoot THEN "idle" ELSE "view"
          /\ UNCHANGED <<state, owner, pc>>
       \/ /\ state = Closed
          /\ rpc' = "opening"
          /\ BeginBind("reader", "select")
    /\ UNCHANGED <<durable, work, snap, slotGen, rroot, rfloor, promised, shown, faults>>

\* The healing open succeeded (its generation is kept, the handle is dropped) or
\* failed.
ReaderBound ==
    /\ rpc = "opening"
    /\ \/ /\ state = Healthy /\ owner = "reader"
          /\ rpc' = "view"
          /\ rroot' = snap
          /\ state' = Closed
       \/ /\ state = Closed \/ owner = "writer"
          /\ rpc' = "idle"
          /\ UNCHANGED <<state, rroot>>
    /\ UNCHANGED <<durable, owner, pc, work, snap, slotGen, rfloor, promised, shown, faults>>

ReaderLeaves ==
    /\ rpc \in {"view", "refused"}
    /\ rpc' = "idle"
    /\ UNCHANGED <<durable, handle, rroot, rfloor, promised, shown, faults>>

-----------------------------------------------------------------------------
(***************************************************************************)
(* Closing and faults                                                      *)
(***************************************************************************)

Fault(kind) ==
    /\ kind \in Faults
    /\ faults < MaxFaults
    /\ faults' = faults + 1

\* The owner drops an idle handle, in whatever state it is.
Close ==
    /\ state # Closed /\ owner = "writer" /\ pc = "idle"
    /\ state' = Closed
    /\ UNCHANGED <<durable, owner, pc, work, snap, slotGen, reader, promised, shown, faults>>

\* The operation in flight returns an error or its future is dropped: an open
\* leaves no handle, any other operation leaves it in the state it has reached.
Interrupt ==
    /\ Fault("process")
    /\ At(pc, "idle") /\ pc # "idle"
    /\ state' = IF state = Opening THEN Closed ELSE state
    /\ UNCHANGED <<durable, owner, work, snap, slotGen, reader, promised, shown>>

\* The process that holds the lease dies in the middle of an operation.
Die ==
    /\ Fault("process")
    /\ pc # "idle"
    /\ pc' = "idle"
    /\ state' = Closed
    /\ UNCHANGED <<durable, owner, work, snap, slotGen, reader, promised, shown>>

\* Every process stops; the stream keeps at least what was synced and the slot
\* is the synced one or the one being written.
PowerLoss ==
    /\ Fault("power")
    /\ \E k \in synced..Len(stream) :
          /\ stream' = SubSeq(stream, 1, k)
          /\ synced' = k
    /\ slot' \in {slot, slotDisk}
    /\ slotDisk' = slot'
    /\ state' = Closed
    /\ pc' = "idle"
    /\ rpc' = "idle"
    /\ UNCHANGED <<stored, owner, work, snap, slotGen, rroot, rfloor, promised, shown>>

Next ==
    \/ Open
    \/ RecoverAuthoritatively
    \/ SelectCheckpoint
    \/ PublishRebuilt
    \/ Reconcile
    \/ \E c \in Commit : BeginCommit(c)
    \/ RefuseCommit
    \/ AppendMarker
    \/ D2
    \/ PublishManifest
    \/ BeginCompact
    \/ PublishCompacted
    \/ SlotWrite
    \/ SlotSync
    \/ ReadSlot
    \/ ScanChain
    \/ ReaderBind
    \/ ReaderBound
    \/ ReaderLeaves
    \/ Close
    \/ Interrupt
    \/ Die
    \/ PowerLoss

Spec == Init /\ [][Next]_vars

\* A caller polls what it started to its end, and opens or recovers a database
\* that is not being served.
Progress ==
    \/ Open \/ RecoverAuthoritatively
    \/ SelectCheckpoint \/ PublishRebuilt \/ Reconcile
    \/ AppendMarker \/ D2 \/ PublishManifest \/ PublishCompacted
    \/ SlotWrite \/ SlotSync

FairSpec == Spec /\ WF_vars(Progress)

-----------------------------------------------------------------------------
(***************************************************************************)
(* Properties                                                              *)
(***************************************************************************)

\* Only "a view known to match a published Chronicle frontier is issued"
\* (pinned_read_view): a handle that serves reads has folded every commit there
\* is, and the slot names its root under the generation the handle counts from.
HealthyIsCurrent ==
    state = Healthy =>
        /\ snap.at = stream
        /\ slot = [gen |-> slotGen, root |-> snap]

\* "There is no window where it runs ahead" (commit_template_inner): the slot, now
\* and after a power loss, names a stored root of a prefix of the stream. This is
\* exactly what the next open demands of it.
SlotNeverAhead ==
    \A s \in {slot, slotDisk} : s # NoSlot => s.root \in stored /\ Bound(s.root)

\* A crash "leaves the slot exactly one publication behind": however many opens,
\* recoveries and commits were cut short, at most one commit is not yet in the
\* partition that the slot names.
SlotLagsByAtMostOne == slot # NoSlot => Len(stream) <= Len(slot.root.at) + 1

\* "A chain scanned afterwards always reaches the slot's frontier"
\* (read_current_generation): the slot that a reader read names a stored root and
\* never disagrees with the chain scanned afterwards (SlotDisagreesWithStream),
\* whatever commits, opens and heals came in between. The other refusals are not counted: a database that
\* has a writer and no slot yet (WriterAlreadyOpen), and the short file that the
\* first create of a slot shows, which is one step here and two in RootStore.
ReaderNeverRefused == rpc # "refused"

\* A reader's view holds every commit that a Healthy handle had served when the
\* reader began, and nothing that is not committed.
ViewIsFresh ==
    rpc = "view" => IsPrefix(rfloor, rroot.at) /\ IsPrefix(rroot.at, stream)

\* Seen through the database, the commits are still the stream that CommitStream
\* promises: nothing that passed D2 is lost, moved or replaced.
Stream == INSTANCE CommitStream WITH Oid <- Commit
KeepsStream == Stream!StreamSpec

\* However its operations are cut short, a database comes back into service,
\* unless its slot generations are used up.
ComesBack == state # Healthy ~> (state = Healthy \/ slot.gen = MaxGen)
=============================================================================
