# A TLA+ model of FrankenGraphDB's durability and replication core

FrankenGraphDB is a graph database in Rust. What it promises about data rests on
two cores, and this project models both from their source.

On one machine:

    caller ──> Database handle ──> CommitCoordinator ──> capsules/, commits.log
     (fgdb)         │                (fgdb-chronicle)
                    ├──> BlockStore: blocks, partition roots, manifests (fgdb-strata)
                    └──> RootStore: manifest.root (fgdb-chronicle)
    other process ──> read view: manifest.root, then commits.log

A commit seals its payload into a *capsule* file and syncs it (barrier D1), then
appends a *marker* naming the capsule to `commits.log` and syncs that (D2). The
log is the truth. Everything else is derived from it: the partition manifest, the
root slot that names the manifest, and the snapshot in memory. Readers in other
processes take no lock; they read the slot and then the log.

On several:

    client ──> AppliedReplica ──> Replica ──> driver: publication gate ──> Raft kernel
                (fgdb-repl)                    (fgdb-repl)                  (fgdb-order)
                    │                              │
                    └── application progress ──────┴── one published root per member

The kernel is a function of its state and one input; it performs no I/O. The driver
publishes the state it returns before it releases the messages that came with it. A
member serves reads and writes by watching what the driver releases.

## Modules

| module | models | source (`src/crates/`) |
|---|---|---|
| `CommitStream` | what the commit stream promises, without files | abstract |
| `Chronicle` | the two-barrier commit, open, torn-tail repair, lease, faults | `fgdb-chronicle/src/commit.rs`, `marker.rs`, `store.rs` |
| `RootStore` | the two slots of `manifest.root` | `fgdb-chronicle/src/store.rs`, `root.rs` |
| `Database` | open, recovery, commit, compaction, lease-free reader | `fgdb/src/lib.rs` |
| `RaftState` | configuration, durable state and roles of a consensus member | `fgdb-order/src/lib.rs` |
| `RaftKernel` | the handlers of the consensus kernel | `fgdb-order/src/` |
| `Raft` | members of a group under the publication gate, and the network | `fgdb-order/src/lib.rs`, `fgdb-repl/src/driver.rs` |
| `AppliedReplica` | a serving member: `Raft`, the application, reads, writes | `fgdb-repl/src/replica.rs`, `application.rs`, `application/` |
| `ChronicleProofs`, `RootStoreProofs`, `DatabaseProofs`, `RaftProofs`, `RaftLogs`, `RaftLogProofs`, `RaftPublication`, `RaftSafety` | theorems | |
| `MC*` | instances for TLC | |

`PROJECT.json` maps each definition to the lines it stands for.

### Chronicle

The state is what a reader sees of each file (page cache), what is certain to
survive a power loss (disk), which names are durable, and the coordinator's
fields: its chain, `poisoned` and the two parent-sync flags. `commit_with_crash`
is one action per await: `Begin`, `WriteCapsule`, the file, directory and parent
syncs of D1, `ReinforceCapsule`, `OpenLog`, `AppendMarker`, the syncs of D2,
`Acknowledge`. Between any two of them the commit may fail or be dropped
(`Abort`), the handle may be closed or its process die (`Leave`), or the power
may go (`PowerLoss`).

File-system assumptions, from how the code relies on it: a write may be cut
short; unsynced data and names may or may not survive; the writes to one inode
persist in order; one file sync in a pair may report success and do nothing,
which is why the code repeats each (`reinforce_barrier`); directory syncs are
honest.

### RootStore

A publish overwrites the slot that is not selected, syncs and rereads. The write
has a torn instant, and a power loss leaves each unsynced slot old, new or torn.

### Database

The stream is what `CommitStream` promises. The slot is a register with a visible
and a durable value: the two-slot detail is `RootStore`'s. A manifest is durable
once published. A root is the sequence of commits it was folded from (`at`; its
chain hash commits to exactly these) and how many of them the last compaction
consolidated (`base`). One reader, in another process, races the handle.

Abstractions to know of: `RecoverAuthoritatively` drops the handle and takes the
lease again in one step, so a reader that takes the lease in between appears only
as `Close` followed by a reader's open; the refusal of a slot generation that does
not increase has no action, since `HealthyIsCurrent` makes it unreachable;
`RefuseCommit` stands for every refusal by an unpoisoned coordinator.
A replay that reaches the root's capacity consolidates while it folds; here only
`compact` does.

### Raft

`node[i]` is the kernel's `Raft` struct, with `out` for the output that the driver
holds back; `disk[i]` is the `PersistentState` of the published root; `gate[i]` says
whether the driver takes inputs (`open`), waits for a publication (`pending`) or was
fenced (`poisoned`). Every event of `step()` is an action: it runs the whole handler,
including `drive_handoff` at the end, and ends in `Step`, which either holds the
output behind a publication or, when nothing durable changed, releases it at once.
Handlers are operators from a node to a node, named after the code's methods, in
`RaftKernel`; `RaftState` has what they all use, and `Raft` the state and the actions.

`net` is every message ever released. A message is lost by never being received,
duplicated by being received again and reordered by being received later. A
publication that fails may or may not have reached the disk; the member is then
fenced and recovers from the disk. Recovery opens a root only if it passes the code's
validation (`ValidRoot`); that it always does is `RootsAlwaysOpen`. A recovered kernel has an append
window of one until its host asks for more; the model's host always has.

Abstractions: a command is a member of a small set; a snapshot's digest is the
sequence of entries it stands for; request numbers are per peer where the code draws
them from one counter, since only equality and order at one peer are looked at; the
window of a peer is a set, since requests are numbered in the order they were sent.

`Lost` keeps instances small: besides what would cross a cut, a message of a term its
receiver has left arrives only at the members in `plan.late`. Such messages matter,
since a late append or vote request is answered with the newer term and so deposes
its sender. The theorems hold for every `late`; which instances include it is said
under Bounds.

The configuration, which inputs happen and the bounds of the counters are one record,
`plan`, chosen initially and constant, so that one run covers several scenarios.

### AppliedReplica

Extends `Raft`: each input is a step of `Raft` with what the member's owner observes
when the output is released (`Absorb`): replies that confirm reads, writes whose entry
is committed or whose leader was deposed, progress published with a snapshot. Reads
also gather acknowledgements of their own probes. `visible` and `served` are history:
the writes reported Visible, and what each read saw.

## Runs

| run | circumstances | shows |
|---|---|---|
| `chronicle` | all faults | acknowledged commits survive; markers never name a capsule that can vanish; recovery never refuses the log; the coordinator implements `CommitStream` |
| `root_power` | power loss | recovery selects a root as new as the last published |
| `root_abandon` | abandoned calls | no divergent pair; readers never go back |
| `root_abandon_power` | both | **violation**, finding 1 |
| `root_create` | abandoned calls | **violation**, finding 2 |
| `database_process` | errors, cancellation, death | a serving handle is current; the slot never leads and lags by at most one; views are fresh; the slot a reader read agrees with the chain it scans afterwards; the database comes back |
| `database_power` | power loss | the slot never leads the durable stream; what was served stays served |
| `database_faults` | both | a handle that opens has the whole stream; nothing past D2 is lost |
| `database_ahead` | both | **violation**, finding 3 |
| `raft` | eleven plans, below | one leader per term; committed histories agree, grow and lie on a quorum; a leader holds what was committed and counts only what is durable; no refusal or internal failure is ever met; every published root opens; elections need pre-votes of one and the last round; a handoff covers the log; replication does not come to rest early |
| `member_reads` | a leader deposed while its successor writes; writes that fill the window; batches, cancellations | a confirmed read covers every earlier commit, and a served read shows every write reported Visible before it |
| `member_publish` | deposed writer; hiding, compacting, crashing learner | a Visible write is permanent; the store always opens; what is shown never shrinks |

Bounds. `chronicle`: two capsules, so that one is reused and one is not, and four
sequence numbers, so that a commit can follow a torn, a lost and a repeated one
and the last number is reached. `RootStore`: five generations write each slot at
least twice after its creation; two roots suffice to tell slots apart.
`Database`: two commits to choose from, a stream of two (a prefix, its extension
and a different extension), five slot generations, so that they run out, and three
faults.

`raft` has three members, the least where a quorum and a minority differ, in eleven
plans: two rival candidates with a crash and failed publications; the same under a
joint configuration; pre-votes and probes across a partition; handoffs; a pipelined
window with a crash, by batches of two commands and one command at a time; leaders
that take turns over divergent logs, as such, with a crash, and with late messages
everywhere; compaction under a lagging follower; and replication from divergent tails
left to itself. Most start from roots the members can have published in earlier terms
(comments in `MCRaft` say how), which reaches the deep cases with few new terms. The
window is two requests, so that requests overlap, of one or two entries each.

`member_reads` and `member_publish` have the same window and two writes at a time. The
plans of the first: a reader that is being deposed; one that is cut off from the term
in which its successor writes and shows (`StalePlan`); a reader that succeeds the
writer; a leader that reads while its own writes fill the window (`BusyPlan`); and reads
in batches. A plan says in which terms a member's timer expires and two members are cut
off, which keeps `StalePlan` small.

Messages of earlier terms reach every member, except in the handoff, the pre-vote, the
first two divergent plans, and the plans of a deposed reader, of a writer and of
`Service`, `Busy` and `Stale`, where they reach some members or, in the last three,
none: with all of them these instances are too large for a short run. A plan's
`maxTerm`, `maxRequest`, `maxRound` and `maxRestarts` stop a behaviour there, so these
runs may end and do not check for deadlock; that nothing stops early is `NoLostWakeup`.
`RootStore` may stop too (generations used up, or a file that cannot be bound).
`chronicle` and the `database` runs check for deadlock.

Fairness. Only `ComesBack` needs any: weak fairness of `Progress`, the next step of
whatever the handle has in flight and the reopening of a handle that is not
served. The code has no background scheduler: its futures advance because the
caller polls them, and a fenced handle recovers because the caller asks. So the
assumption is about the caller; nothing is assumed of readers, of commits being
started or of faults, which are bounded by `MaxFaults`. That replication makes
progress is stated without fairness: `NoLostWakeup` says that no state in which all
messages have been absorbed is one with work left.

## Findings

Each is a behaviour of the model, read back against the source. None has been
reproduced by running the program.

1. *An abandoned publication can cost the last durable root.* A publish abandoned
   between write and barrier leaves a slot that is visible but not durable.
   `publish_evidenced` selects from visible bytes, so the next publish overwrites
   the other slot, the only durable one. A power loss then can leave no slot as new
   as the last published. `store.rs:8-13` says the previous generation "remains
   complete, authenticated, and selectable throughout". The scenario needs a file
   system that serves unsynced bytes, as `UnixVfs` does.
2. *A create abandoned half way is never healed.* `create` makes `manifest.root`
   visible before its bytes; a short file is refused by every later open, while
   `lib.rs:3365` lists the interrupted create among the cases an open repairs.
3. *The slot can run ahead of the log.* An open adopts a marker that is visible but
   was never synced and makes a slot that names it durable, without syncing the
   log. A power loss can drop the marker; the next open answers
   `SlotDisagreesWithStream`. `lib.rs:5069-5071` says "there is no window where it
   runs ahead". It takes both a process fault and a power loss.

## Proofs

The theorems hold for every value of the constants that satisfies the modules' named
assumptions; TLC evaluates those on every run. TLC also finds every inductive
invariant true on the instances of the runs.

`ChronicleProofs`, for every set of capsules and every last sequence:

- `TypeCorrect`: type correctness, which includes that no marker is ever written past
  the last sequence number: `next_commit_seq` refuses first.
- `Invariance`: the inductive invariant `IInv`.
- `CapsulesPrecedeMarkers`, `AcknowledgedCommitsSurvive`, `LogAlwaysOpens`,
  `UnpoisonedIsExact`: the four safety properties, from `IInv`.
- `CoordinatorImplementsStream`: every step maps to a step of `CommitStream` or a
  stutter.

None of the four is inductive alone. That an acknowledged commit survives depends
on what each earlier step of the commit had achieved (`StepInv`), on what a
cleared parent-sync flag stands for (`PendingInv`), on the handle's chain differing
from the log by at most the one frame it is poisoned over (`HandleInv`), and on the
synced file being a prefix of the visible one up to a torn tail (`DiskInv`). `IInv`
is their conjunction with the safety properties.

`RootStoreProofs`, for every set of roots and last generation:

- under every combination of faults: `TypeCorrect`; `SlotsInvariant` (a slot that is
  not being written holds an older generation than its neighbour, and the one being
  written the newest); from it `StoreNeverDivergent` and `SelectionNeverGoesBack`;
- `PublishedRootsLast`: a published root stays selectable, unless calls are abandoned
  *and* power is lost, where finding 1 is the counterexample. Without abandoned calls
  it needs `SyncedInv`: between calls what is visible is synced.

`DatabaseProofs`, for every set of commits and every bound:

- under every combination of faults: `DatabaseTypes`, `HealthyHandlesAreCurrent`,
  `DatabaseKeepsStream` (every step is one of `CommitStream` or a stutter), from
  `HandleInv`: what the operation in flight is about to publish, at each of its
  phases, is what is committed (`WorkInv`);
- under one kind of fault (`OneKind`; with both, finding 3 is the counterexample):
  `SlotsNeverRunAhead`, `SlotsLagByAtMostOne`, `ReadersNeverRefused`, `ViewsAreFresh`,
  from `DatabaseInv`, which adds what both values of the slot name and what a reader
  has read so far. `ReadersNeverRefused` is about the slot and the chain only: the first
  create of a slot is one step here, and its short file is finding 2.

`RaftSafety`, for every set of members, stable or joint configuration, window and plan
(late messages included), and whatever roots the members start from, on the lemmas of
`RaftProofs`:

- `ElectionSafety`: no two members ever speak as leader of one term;
- `VotesAreKept`: a published vote is never changed within its term.

Both come from `ElectionInv`. A *ballot* is a released message that binds its sender to
one candidate of a term: a granted vote, or anything only a leader sends. The
invariant says that a ballot is never released before its vote is on disk, that the
disk's (term, vote) only moves forward, and that a leader, or output held by one, has
the released ballots of a quorum. So the ballots of one member and term agree
(`OneChoice`), and since quorums meet (`QuorumsIntersect`), so do leaders. It holds without
any assumption on the log: the lemmas show for each handler that whatever it does to
log, window, snapshot and handoff is `Steady`, that is, leaves the election alone.

For the same plans, on the lemmas of `RaftLogs` and `RaftLogProofs` (the handlers) and
`RaftPublication` (the gate):

- `StepsComplete`: no step ends in one of the internal failures that the code reports
  (a range in flight that is no longer retained, a transfer that is no longer ahead);
- `PublishedRootsOpen`: every published root passes the validation of `recover()`.

Both come from `LogInv`. For each member alone it says that the log, the snapshot and
the commit index fit together in memory, on disk and in output held back, that the
windows of a leader lie between its snapshot and the end of its log, and that a
snapshot being received is ahead of what is committed. It looks at messages only as
far as `validate_event` does. The lemmas state, for each handler, that it
keeps such a member `Good` and moves the commit index forward or not at all.

Only model-checked: the properties that relate the logs of several members
(`CommittedHistoriesAgree`, `CommittedOnQuorum`, `LeaderHoldsCommitted`,
`MatchedIsDurable`, `NoConflictRefused`, `DurableHistoryGrows`), `TermNeedsPreVotes` and
`HandoffCoversLog`; those of `AppliedReplica`, which rest on them; `NoLostWakeup`, which
quantifies over what would be received next; `ComesBack`, which needs fairness, beyond
this prover.

## Not modelled, and the plan

The map covers some 4,800 source lines of the durability and replication paths. The
repository has some 1.66 million lines of Rust, tests included, so by size nearly
all of it is outside this model.

Not planned: the query language, analytics, codecs, crypto, authorization decisions
and search index, which are sequential computations without protocol state.

Planned, in this order:

1. Log matching and leader completeness of `Raft`, as theorems; then the safety of
   reads and writes in `AppliedReplica`.
2. First-committer-wins transactions (`fcw.rs`, `write_txn.rs`): prepared writes on
   one basis, validated against the committed suffix.
3. Scrub and restore of capsules, as further actions of `Chronicle`; erasure-coded
   snapshot transfer (`bonded`).
4. The block store's publication lock and packs; the resource ledger; standing
   queries.
