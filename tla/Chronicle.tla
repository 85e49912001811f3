----------------------------- MODULE Chronicle -----------------------------
(***************************************************************************)
(* The two-barrier commit protocol of CommitCoordinator                    *)
(* (crates/fgdb-chronicle/src/commit.rs), together with the part of the    *)
(* file system it stands on.                                               *)
(*                                                                         *)
(* A commit writes a content-addressed capsule, makes it durable (D1),     *)
(* appends a marker frame to commits.log and makes that durable (D2).      *)
(* Every file has the bytes a reader sees now (the "cache" variables) and  *)
(* the bytes that survive a power loss for certain (the "disk" variables); *)
(* a name survives for certain only after its directory was synced.        *)
(* Between the two a power loss keeps anything in between.                 *)
(***************************************************************************)
EXTENDS Integers, Sequences

CONSTANTS
    Oid,        \* capsule identities; equal plaintexts have equal identities
    MaxSeq      \* the last allocatable commit_seq (u64::MAX in the code)

ASSUME MaxSeqAssumption == MaxSeq \in Nat

\* How much of a capsule container is there: no file, a strict (perhaps empty)
\* prefix of the deterministic bytes, or all of them.
Absent   == 0
Prefix   == 1
Complete == 2
Extent   == Absent..Complete

\* A marker frame of commits.log. The chain hash of the code commits to the
\* position; a frame that was only partly written is not whole.
Frame == [seq : 1..MaxSeq, oid : Oid, whole : BOOLEAN]

VARIABLES
    \* ---- the database directory
    capCache,      \* [Oid -> Extent] capsule bytes a reader sees
    capDisk,       \* [Oid -> Extent] capsule bytes certain to survive
    capNamed,      \* [Oid -> BOOLEAN] the entry in capsules/ is durable
    dirNamed,      \* the entry of capsules/ in the database directory is durable
    logExists,     \* commits.log is visible
    logCache,      \* its frames as a reader sees them
    logDisk,       \* its frames certain to survive
    logNamed,      \* its entry in the database directory is durable
    \* ---- the coordinator handle (meaningful while isOpen)
    isOpen,        \* some process holds the writer lease and a coordinator
    chain,         \* the MarkerChain: oid of each committed marker
    poisoned,
    dirPending,    \* capsule_directory_parent_sync_pending
    logPending,    \* commit_log_parent_sync_pending
    pc,            \* how far the commit in flight has come
    cur,           \* its capsule
    created,       \* log_created of that commit
    \* ---- what callers were told
    acked          \* the chain as of the last commit that returned Ok

diskVars   == <<capCache, capDisk, capNamed, dirNamed,
                logExists, logCache, logDisk, logNamed>>
handleVars == <<isOpen, chain, poisoned, dirPending, logPending, pc, cur, created>>
vars       == <<diskVars, handleVars, acked>>

Steps == {"idle", "build", "capsule", "capsuleFile", "capsuleDir", "d1",
          "log", "marker", "logFile"}

\* The state is well formed; in particular no frame is ever written, or left by a
\* power loss, under a commit_seq past the last one (next_commit_seq).
TypeOK ==
    /\ capCache \in [Oid -> Extent]
    /\ capDisk \in [Oid -> Extent]
    /\ capNamed \in [Oid -> BOOLEAN]
    /\ dirNamed \in BOOLEAN
    /\ logExists \in BOOLEAN
    /\ logCache \in Seq(Frame)
    /\ logDisk \in Seq(Frame)
    /\ logNamed \in BOOLEAN
    /\ isOpen \in BOOLEAN
    /\ chain \in Seq(Oid)
    /\ poisoned \in BOOLEAN
    /\ dirPending \in BOOLEAN
    /\ logPending \in BOOLEAN
    /\ pc \in Steps
    /\ cur \in Oid
    /\ created \in BOOLEAN
    /\ acked \in Seq(Oid)

-----------------------------------------------------------------------------
(***************************************************************************)
(* Reading the log                                                         *)
(***************************************************************************)

\* scan_chain_into accepts frame i when it decodes, continues the chain and
\* carries the next sequence.
Readable(log, i) == log[i].whole /\ log[i].seq = i

\* The log opens: every frame is accepted, except that the file may end in the
\* middle of its last frame (a torn tail, which is truncated). Anything else is
\* CorruptLogEntry or ChainDiverged and recovery fails closed.
Opens(log) ==
    \A i \in 1..Len(log) :
        \/ Readable(log, i)
        \/ i = Len(log) /\ ~log[i].whole

\* The number of whole frames of a log that opens.
Extant(log) ==
    IF log # <<>> /\ ~log[Len(log)].whole THEN Len(log) - 1 ELSE Len(log)

\* The accepted frames, and the chain they stand for.
Recovered(log) == SubSeq(log, 1, Extant(log))
ChainOf(log)   == [i \in 1..Extant(log) |-> log[i].oid]

\* capsule_is_referenced: a committed marker of this handle names the capsule.
Referenced(o) == \E i \in 1..Len(chain) : chain[i] = o

-----------------------------------------------------------------------------
(***************************************************************************)
(* Opening and leaving a handle                                            *)
(***************************************************************************)

Init ==
    /\ capCache = [o \in Oid |-> Absent]
    /\ capDisk = [o \in Oid |-> Absent]
    /\ capNamed = [o \in Oid |-> FALSE]
    /\ dirNamed = FALSE
    /\ logExists = FALSE
    /\ logCache = <<>>
    /\ logDisk = <<>>
    /\ logNamed = FALSE
    /\ isOpen = FALSE
    /\ chain = <<>>
    /\ poisoned = FALSE
    /\ dirPending = TRUE
    /\ logPending = TRUE
    /\ pc = "idle"
    /\ cur \in Oid
    /\ created = FALSE
    /\ acked = <<>>

\* Mutants of Open: a torn tail is left in place; the name of the log is taken to
\* be durable.
OpenKeepingTornTail ==
    /\ ~isOpen
    /\ Opens(logCache)
    /\ isOpen' = TRUE
    /\ chain' = ChainOf(logCache)
    /\ poisoned' = FALSE
    /\ dirPending' = TRUE
    /\ logPending' = TRUE
    /\ UNCHANGED <<diskVars, pc, cur, created, acked>>
OpenTrustingNames ==
    /\ ~isOpen
    /\ Opens(logCache)
    /\ isOpen' = TRUE
    /\ chain' = ChainOf(logCache)
    /\ logCache' = Recovered(logCache)
    /\ poisoned' = FALSE
    /\ dirPending' = TRUE
    /\ logPending' = FALSE
    /\ UNCHANGED <<capCache, capDisk, capNamed, dirNamed, logExists, logDisk,
                   logNamed, pc, cur, created, acked>>

\* open_with_vfs: take the lease, make sure capsules/ exists, recover the chain
\* from the visible log and truncate a torn tail. The truncation is not synced.
\* A log that does not open is refused and nothing changes.
Open ==
    /\ ~isOpen
    /\ Opens(logCache)
    /\ isOpen' = TRUE
    /\ chain' = ChainOf(logCache)
    /\ logCache' = Recovered(logCache)
    /\ poisoned' = FALSE
    /\ dirPending' = TRUE
    /\ logPending' = TRUE
    /\ UNCHANGED <<capCache, capDisk, capNamed, dirNamed, logExists, logDisk,
                   logNamed, pc, cur, created, acked>>

\* What is left when the process or its handle is gone.
Closed ==
    /\ isOpen' = FALSE
    /\ pc' = "idle"
    /\ UNCHANGED <<chain, poisoned, dirPending, logPending, cur, created, acked>>

\* The handle is dropped, or its process dies, at any instant: the lease is
\* released and the files stay as every other process sees them.
Leave ==
    /\ isOpen
    /\ Closed
    /\ UNCHANGED diskVars

\* Mutant of Abort: the error path lifts the poison.
AbortUnpoisoning ==
    /\ pc # "idle"
    /\ pc' = "idle"
    /\ poisoned' = FALSE
    /\ UNCHANGED <<diskVars, isOpen, chain, dirPending, logPending, cur, created, acked>>

\* A commit fails or its future is dropped at an await: control returns to the
\* caller, who keeps the handle in whatever state it is.
Abort ==
    /\ pc # "idle"
    /\ pc' = "idle"
    /\ UNCHANGED <<diskVars, isOpen, chain, poisoned, dirPending, logPending,
                   cur, created, acked>>

-----------------------------------------------------------------------------
(***************************************************************************)
(* commit_with_crash, one action per durable effect                        *)
(***************************************************************************)

\* A step of the commit in flight.
At(step, next) == pc = step /\ pc' = next

\* Mutant of Begin: the sequence is allocated without asking whether one is left.
BeginUnchecked(o) ==
    /\ isOpen
    /\ ~poisoned
    /\ At("idle", "build")
    /\ cur' = o
    /\ UNCHANGED <<diskVars, isOpen, chain, poisoned, dirPending, logPending,
                   created, acked>>

\* The checks before anything is written: a usable handle, a sequence left,
\* a draft the validator accepts. A refusal here changes nothing.
Begin(o) ==
    /\ isOpen
    /\ ~poisoned
    /\ Len(chain) < MaxSeq
    /\ At("idle", "build")
    /\ cur' = o
    /\ UNCHANGED <<diskVars, isOpen, chain, poisoned, dirPending, logPending,
                   created, acked>>

\* Mutant of WriteCapsule: a capsule that is already there is not synced again.
WriteCapsuleTrustingExisting(extent) ==
    /\ capCache[cur] = Prefix => ~Referenced(cur)
    /\ extent >= capCache[cur]
    /\ capCache' = [capCache EXCEPT ![cur] = extent]
    /\ capDisk' = [capDisk EXCEPT ![cur] = IF @ = Absent THEN Prefix ELSE @]
    /\ At("build", IF capCache[cur] = Complete THEN "d1"
                   ELSE IF extent = Complete THEN "capsule" ELSE "idle")
    /\ UNCHANGED <<capNamed, dirNamed, logExists, logCache, logDisk, logNamed,
                   isOpen, chain, poisoned, dirPending, logPending, cur,
                   created, acked>>

\* Capsule bytes reach the file: a new one, an unreferenced strict prefix that
\* is completed, or an identical one that is reused. A referenced prefix is
\* CapsulePathConflict (Abort). A failed write leaves a prefix.
WriteCapsule(extent) ==
    /\ capCache[cur] = Prefix => ~Referenced(cur)
    /\ extent >= capCache[cur]
    /\ capCache' = [capCache EXCEPT ![cur] = extent]
    /\ capDisk' = [capDisk EXCEPT ![cur] = IF @ = Absent THEN Prefix ELSE @]
    /\ At("build", IF extent = Complete THEN "capsule" ELSE "idle")
    /\ UNCHANGED <<capNamed, dirNamed, logExists, logCache, logDisk, logNamed,
                   isOpen, chain, poisoned, dirPending, logPending, cur,
                   created, acked>>

\* D1, first half: the primary file sync. One sync call may report success and
\* persist nothing.
SyncCapsuleFile(lied) ==
    /\ At("capsule", "capsuleFile")
    /\ capDisk' = IF lied THEN capDisk ELSE [capDisk EXCEPT ![cur] = capCache[cur]]
    /\ UNCHANGED <<capCache, capNamed, dirNamed, logExists, logCache, logDisk,
                   logNamed, isOpen, chain, poisoned, dirPending, logPending,
                   cur, created, acked>>

\* D1: the capsules/ directory sync settles every entry of the directory.
SyncCapsuleDir ==
    /\ At("capsuleFile", "capsuleDir")
    /\ capNamed' = [o \in Oid |-> capCache[o] # Absent]
    /\ UNCHANGED <<capCache, capDisk, dirNamed, logExists, logCache, logDisk,
                   logNamed, isOpen, chain, poisoned, dirPending, logPending,
                   cur, created, acked>>

\* A sync of the database directory settles capsules/ and commits.log.
SyncDatabaseDir ==
    /\ dirNamed' = TRUE
    /\ logNamed' = logExists

\* D1: the database directory, once per opened handle.
SyncCapsuleParent ==
    /\ dirPending
    /\ At("capsuleDir", "capsuleDir")
    /\ SyncDatabaseDir
    /\ dirPending' = FALSE
    /\ UNCHANGED <<capCache, capDisk, capNamed, logExists, logCache, logDisk,
                   isOpen, chain, poisoned, logPending, cur, created, acked>>

\* D1, second half: the reinforcing file sync.
ReinforceCapsule ==
    /\ ~dirPending
    /\ At("capsuleDir", "d1")
    /\ capDisk' = [capDisk EXCEPT ![cur] = capCache[cur]]
    /\ UNCHANGED <<capCache, capNamed, dirNamed, logExists, logCache, logDisk,
                   logNamed, isOpen, chain, poisoned, dirPending, logPending,
                   cur, created, acked>>

\* commits.log is opened, or created when it is not there.
OpenLog ==
    /\ At("d1", "log")
    /\ created' = ~logExists
    /\ logExists' = TRUE
    /\ UNCHANGED <<capCache, capDisk, capNamed, dirNamed, logCache, logDisk,
                   logNamed, isOpen, chain, poisoned, dirPending, logPending,
                   cur, acked>>

\* The frame of the commit in flight.
Marker(whole) == [seq |-> Len(chain) + 1, oid |-> cur, whole |-> whole]

\* Mutant of AppendMarker: the coordinator is not poisoned.
AppendMarkerUnpoisoned(whole) ==
    /\ At("log", IF whole THEN "marker" ELSE "idle")
    /\ logCache' = Append(logCache, Marker(whole))
    /\ UNCHANGED <<capCache, capDisk, capNamed, dirNamed, logExists, logDisk,
                   logNamed, isOpen, chain, poisoned, dirPending, logPending, cur,
                   created, acked>>

\* The coordinator poisons itself and then writes the frame at the end of the
\* file. The write may be cut short.
AppendMarker(whole) ==
    /\ At("log", IF whole THEN "marker" ELSE "idle")
    /\ poisoned' = TRUE
    /\ logCache' = Append(logCache, Marker(whole))
    /\ UNCHANGED <<capCache, capDisk, capNamed, dirNamed, logExists, logDisk,
                   logNamed, isOpen, chain, dirPending, logPending, cur,
                   created, acked>>

\* D2, first half: the primary file sync, which may be lied to as well.
SyncLogFile(lied) ==
    /\ At("marker", "logFile")
    /\ logDisk' = IF lied THEN logDisk ELSE logCache
    /\ UNCHANGED <<capCache, capDisk, capNamed, dirNamed, logExists, logCache,
                   logNamed, isOpen, chain, poisoned, dirPending, logPending,
                   cur, created, acked>>

\* D2: the database directory, for a new log and once per opened handle.
SyncLogParent ==
    /\ created \/ logPending
    /\ At("logFile", "logFile")
    /\ SyncDatabaseDir
    /\ logPending' = FALSE
    /\ created' = FALSE
    /\ UNCHANGED <<capCache, capDisk, capNamed, logExists, logCache, logDisk,
                   isOpen, chain, poisoned, dirPending, cur, acked>>

\* Mutant of Acknowledge: no reinforcing sync.
AcknowledgeUnreinforced ==
    /\ ~created /\ ~logPending
    /\ At("logFile", "idle")
    /\ chain' = Append(chain, cur)
    /\ poisoned' = FALSE
    /\ acked' = chain'
    /\ UNCHANGED <<diskVars, isOpen, dirPending, logPending, cur, created>>

\* D2, second half, and the acknowledgement: the reinforcing file sync, then the
\* in-memory chain moves, the poison is lifted and the caller is told.
Acknowledge ==
    /\ ~created /\ ~logPending
    /\ At("logFile", "idle")
    /\ logDisk' = logCache
    /\ chain' = Append(chain, cur)
    /\ poisoned' = FALSE
    /\ acked' = chain'
    /\ UNCHANGED <<capCache, capDisk, capNamed, dirNamed, logExists, logCache,
                   logNamed, isOpen, dirPending, logPending, cur, created>>

-----------------------------------------------------------------------------
(***************************************************************************)
(* Power loss                                                              *)
(***************************************************************************)

\* Log contents a power loss may leave: the synced frames, or the visible ones
\* cut at any byte behind them. Writes to one inode persist in order.
Survivors ==
    LET cuts == Extant(logDisk)..Len(logCache)
    IN  {logDisk}
        \cup {SubSeq(logCache, 1, k) : k \in cuts}
        \cup {Append(SubSeq(logCache, 1, k),
                     [logCache[k + 1] EXCEPT !.whole = FALSE]) :
              k \in cuts \ {Len(logCache)}}

\* A name that was not synced may be lost with all that is under it. What is
\* left afterwards is on disk.
PowerLoss ==
    /\ Closed
    /\ \E dirKept \in {TRUE, dirNamed} :
          /\ dirNamed' = dirKept
          /\ \E extent \in [Oid -> Extent] :
                /\ \A o \in Oid :
                      \/ /\ extent[o] = Absent
                         /\ ~dirKept \/ ~capNamed[o]
                      \/ /\ dirKept
                         /\ extent[o] \in capDisk[o]..capCache[o]
                /\ capCache' = extent
                /\ capDisk' = extent
                /\ capNamed' = [o \in Oid |-> extent[o] # Absent]
    /\ \E kept \in {logExists, logNamed} :
          /\ logExists' = kept
          /\ logNamed' = kept
          /\ logCache' \in IF kept THEN Survivors ELSE {<<>>}
          /\ logDisk' = logCache'

Next ==
    \/ Open
    \/ Leave
    \/ Abort
    \/ \E o \in Oid : Begin(o)
    \/ \E extent \in {Prefix, Complete} : WriteCapsule(extent)
    \/ \E lied \in BOOLEAN : SyncCapsuleFile(lied)
    \/ SyncCapsuleDir
    \/ SyncCapsuleParent
    \/ ReinforceCapsule
    \/ OpenLog
    \/ \E whole \in BOOLEAN : AppendMarker(whole)
    \/ \E lied \in BOOLEAN : SyncLogFile(lied)
    \/ SyncLogParent
    \/ Acknowledge
    \/ PowerLoss

Spec == Init /\ [][Next]_vars

-----------------------------------------------------------------------------
(***************************************************************************)
(* Properties                                                              *)
(***************************************************************************)

\* A capsule that survives any power loss.
Durable(o) == dirNamed /\ capNamed[o] /\ capDisk[o] = Complete

\* "A marker pointing at non-durable bytes would be a commit pointing at bytes
\* that may not exist" (commit_with_crash): no frame a reader can find, and none
\* a power loss can bring back, names a capsule that a power loss could take.
MarkersNameDurableCapsules ==
    /\ \A i \in 1..Len(logCache) : Durable(logCache[i].oid)
    /\ \A i \in 1..Len(logDisk) : Durable(logDisk[i].oid)

\* Every commit that returned Ok is in the synced log under a synced name, at
\* the position it was acknowledged at, so every later recovery finds it.
AcknowledgedSurvives ==
    /\ Len(acked) <= Extant(logDisk)
    /\ \A i \in 1..Len(acked) : logDisk[i].oid = acked[i]
    /\ acked # <<>> => logNamed

\* No crash, error or retry ever leaves a log that the next open refuses, whether
\* a power loss comes first or not: torn bytes are only ever last, and no
\* commit_seq is issued twice.
NeverFailsClosed == Opens(logCache) /\ Opens(logDisk)

\* A handle that will accept a commit knows exactly what its log holds; this is
\* what the poison is for.
UsableHandleKnowsItsLog ==
    isOpen /\ ~poisoned => ChainOf(logCache) = chain /\ Extant(logCache) = Len(logCache)

\* The coordinator implements the commit stream: what recovery would find grows
\* by one commit at a time and loses, in a power loss, nothing acknowledged.
Stream == INSTANCE CommitStream WITH stream <- ChainOf(logCache), promised <- acked
ImplementsStream == Stream!StreamSpec

-----------------------------------------------------------------------------
(***************************************************************************)
(* The inductive invariant                                                 *)
(***************************************************************************)

\* What has been achieved at each step of the commit in flight.
StepInv ==
    /\ pc # "idle" => isOpen /\ Len(chain) < MaxSeq
    /\ pc \in Steps \ {"idle", "build"} => capCache[cur] = Complete
    /\ pc \in {"capsuleDir", "d1", "log", "marker", "logFile"} => capNamed[cur]
    /\ pc \in {"d1", "log", "marker", "logFile"} => Durable(cur)
    /\ pc \in {"log", "marker", "logFile"} => logExists
    /\ pc \in {"marker", "logFile"} => poisoned
    /\ pc \in Steps \ {"idle", "marker", "logFile"} => ~poisoned

\* What the two pending flags of an open handle stand for.
PendingInv ==
    /\ isOpen /\ ~dirPending => dirNamed
    /\ isOpen /\ ~logPending => logNamed

\* An open handle's chain against the log: they differ by at most the one frame
\* the handle was poisoned over.
HandleInv ==
    isOpen =>
        /\ Len(chain) <= Extant(logCache)
        /\ \A i \in 1..Len(chain) : logCache[i].oid = chain[i]
        /\ ~poisoned => Len(logCache) = Len(chain)
        /\ pc \in {"marker", "logFile"} =>
               /\ Len(logCache) = Len(chain) + 1
               /\ logCache[Len(logCache)] = Marker(TRUE)

\* The synced file against the visible one.
DiskInv ==
    /\ \A o \in Oid : capDisk[o] <= capCache[o]
    /\ logNamed => logExists
    /\ Extant(logDisk) <= Len(logCache)
    /\ \A i \in 1..Extant(logDisk) : logCache[i] = logDisk[i]

\* The inductive invariant of the commit protocol: the safety properties and
\* what each step of commit_with_crash has established when it is reached.
IInv ==
    /\ TypeOK
    /\ StepInv
    /\ PendingInv
    /\ HandleInv
    /\ DiskInv
    /\ NeverFailsClosed
    /\ MarkersNameDurableCapsules
    /\ AcknowledgedSurvives

=============================================================================
