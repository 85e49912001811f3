-------------------------- MODULE ChronicleProofs --------------------------
(***************************************************************************)
(* Theorems about Chronicle, for every set of capsules and every MaxSeq.   *)
(***************************************************************************)
EXTENDS Chronicle, TLAPS

\* Cutting a log keeps it a sequence of frames.
LEMMA SubSeqOfFrames ==
    ASSUME NEW log \in Seq(Frame), NEW k \in 0..Len(log)
    PROVE  /\ SubSeq(log, 1, k) \in Seq(Frame)
           /\ Len(SubSeq(log, 1, k)) = k
           /\ \A i \in 1..k : SubSeq(log, 1, k)[i] = log[i]
  OBVIOUS

\* The fields of the frames of a log.
LEMMA FrameFields ==
    ASSUME NEW log \in Seq(Frame), NEW i \in 1..Len(log)
    PROVE  /\ log[i] \in Frame
           /\ log[i].oid \in Oid
           /\ log[i].whole \in BOOLEAN
           /\ log[i].seq \in Nat
<1>1. log[i] \in Frame
  OBVIOUS
<1> QED
  BY <1>1 DEF Frame

\* The accepted part of a log is no longer than the log.
LEMMA ExtantBound ==
    ASSUME NEW log \in Seq(Frame)
    PROVE  Extant(log) \in 0..Len(log)
  BY DEF Extant, Frame

\* The chain of a log has one capsule per accepted frame.
LEMMA ChainOfType ==
    ASSUME NEW log \in Seq(Frame)
    PROVE  ChainOf(log) \in Seq(Oid) /\ Len(ChainOf(log)) = Extant(log)
<1>1. Extant(log) \in 0..Len(log)
  BY ExtantBound
<1>2. \A i \in 1..Extant(log) : log[i] \in Frame
  BY <1>1
<1>3. \A i \in 1..Extant(log) : log[i].oid \in Oid
  BY <1>2 DEF Frame
<1> QED
  BY <1>1, <1>3 DEF ChainOf

\* Whatever a power loss leaves is a sequence of frames.
LEMMA SurvivorsType ==
    ASSUME TypeOK, NEW s \in Survivors
    PROVE  s \in Seq(Frame)
<1> DEFINE torn(k) == [logCache[k + 1] EXCEPT !.whole = FALSE]
<1>1. Extant(logDisk) \in Nat
  BY ExtantBound DEF TypeOK
<1>2. CASE s = logDisk
  BY <1>2 DEF TypeOK
<1>3. ASSUME NEW k \in Extant(logDisk)..Len(logCache), s = SubSeq(logCache, 1, k)
      PROVE  s \in Seq(Frame)
  BY <1>1, <1>3, SubSeqOfFrames DEF TypeOK
<1>4. ASSUME NEW k \in (Extant(logDisk)..Len(logCache)) \ {Len(logCache)},
             s = Append(SubSeq(logCache, 1, k), torn(k))
      PROVE  s \in Seq(Frame)
  <2>1. SubSeq(logCache, 1, k) \in Seq(Frame)
    BY <1>1, SubSeqOfFrames DEF TypeOK
  <2>2. logCache[k + 1] \in Frame
    BY <1>1 DEF TypeOK
  <2>3. torn(k) \in Frame
    BY <2>2 DEF Frame
  <2> HIDE DEF torn
  <2> QED
    BY <1>4, <2>1, <2>3
<1> QED
  BY <1>2, <1>3, <1>4 DEF Survivors

-----------------------------------------------------------------------------
(***************************************************************************)
(* Type correctness                                                        *)
(***************************************************************************)

\* A new database directory (Init) is well typed.
LEMMA TypeInit == Init => TypeOK
<1> SUFFICES ASSUME Init PROVE TypeOK
  OBVIOUS
<1>1. <<>> \in Seq(Frame) /\ <<>> \in Seq(Oid)
  OBVIOUS
<1>2. Absent \in Extent
  BY DEF Extent, Absent, Complete
<1>3. capCache \in [Oid -> Extent] /\ capDisk \in [Oid -> Extent]
  BY <1>2 DEF Init
<1> QED
  BY <1>1, <1>3 DEF Init, TypeOK, Steps

\* The frame of a commit in flight is well typed: there is a sequence left for it.
LEMMA NextFrame ==
    ASSUME TypeOK, StepInv, pc # "idle", NEW whole \in BOOLEAN
    PROVE  /\ Marker(whole) \in Frame
           /\ Marker(whole).seq = Len(chain) + 1
           /\ Marker(whole).oid = cur
           /\ Marker(whole).whole = whole
<1>1. Len(chain) \in Nat /\ Len(chain) < MaxSeq /\ cur \in Oid
  BY DEF StepInv, TypeOK
<1>2. Len(chain) + 1 \in 1..MaxSeq
  BY <1>1, MaxSeqAssumption
<1> QED
  BY <1>1, <1>2 DEF Marker, Frame

\* Every step of the coordinator keeps the types: a commit in flight has a
\* sequence left (StepInv).
LEMMA TypeNext == TypeOK /\ StepInv /\ [Next]_vars => TypeOK'
<1> SUFFICES ASSUME TypeOK, StepInv, [Next]_vars PROVE TypeOK'
  OBVIOUS
<1> USE DEF Extent, Absent, Prefix, Complete, Steps, At
<1>1. CASE Open
  <2>1. chain' \in Seq(Oid)
    BY <1>1, ChainOfType DEF Open, TypeOK
  <2>2. logCache' \in Seq(Frame)
    BY <1>1, ExtantBound, SubSeqOfFrames DEF Open, TypeOK, Recovered
  <2> QED
    BY <1>1, <2>1, <2>2 DEF Open, TypeOK
<1>2. CASE Leave
  BY <1>2 DEF Leave, Closed, TypeOK, diskVars
<1>3. CASE Abort
  BY <1>3 DEF Abort, TypeOK, diskVars
<1>4. ASSUME NEW o \in Oid, Begin(o) PROVE TypeOK'
  BY <1>4 DEF Begin, TypeOK, diskVars
<1>5. ASSUME NEW extent \in {Prefix, Complete}, WriteCapsule(extent) PROVE TypeOK'
  BY <1>5 DEF WriteCapsule, TypeOK
<1>6. ASSUME NEW lied \in BOOLEAN, SyncCapsuleFile(lied) PROVE TypeOK'
  BY <1>6 DEF SyncCapsuleFile, TypeOK
<1>7. CASE SyncCapsuleDir
  BY <1>7 DEF SyncCapsuleDir, TypeOK
<1>8. CASE SyncCapsuleParent
  BY <1>8 DEF SyncCapsuleParent, SyncDatabaseDir, TypeOK
<1>9. CASE ReinforceCapsule
  BY <1>9 DEF ReinforceCapsule, TypeOK
<1>10. CASE OpenLog
  BY <1>10 DEF OpenLog, TypeOK
<1>11. ASSUME NEW whole \in BOOLEAN, AppendMarker(whole) PROVE TypeOK'
  <2>1. Marker(whole) \in Frame
    BY <1>11, NextFrame DEF AppendMarker
  <2> QED
    BY <1>11, <2>1 DEF AppendMarker, TypeOK
<1>12. ASSUME NEW lied \in BOOLEAN, SyncLogFile(lied) PROVE TypeOK'
  BY <1>12 DEF SyncLogFile, TypeOK
<1>13. CASE SyncLogParent
  BY <1>13 DEF SyncLogParent, SyncDatabaseDir, TypeOK
<1>14. CASE Acknowledge
  <2>1. Append(chain, cur) \in Seq(Oid)
    BY DEF TypeOK
  <2> QED
    BY <1>14, <2>1 DEF Acknowledge, TypeOK
<1>15. CASE PowerLoss
  <2>1. logCache' \in Seq(Frame) /\ logDisk' \in Seq(Frame)
    <3>1. <<>> \in Seq(Frame)
      OBVIOUS
    <3>2. logCache' \in Survivors \/ logCache' = <<>>
      BY <1>15 DEF PowerLoss
    <3> QED
      BY <1>15, <3>1, <3>2, SurvivorsType DEF PowerLoss
  <2> QED
    BY <1>15, <2>1 DEF PowerLoss, Closed, TypeOK
<1>16. CASE UNCHANGED vars
  BY <1>16 DEF vars, diskVars, handleVars, TypeOK
<1> QED
  BY <1>1, <1>2, <1>3, <1>4, <1>5, <1>6, <1>7, <1>8, <1>9, <1>10, <1>11, <1>12,
     <1>13, <1>14, <1>15, <1>16 DEF Next

-----------------------------------------------------------------------------
(***************************************************************************)
(* Logs that open                                                          *)
(***************************************************************************)

\* Every accepted frame is whole and carries its own position.
LEMMA ExtantReadable ==
    ASSUME NEW log \in Seq(Frame), Opens(log), NEW i \in 1..Extant(log)
    PROVE  Readable(log, i) /\ i \in 1..Len(log)
<1>1. Extant(log) \in 0..Len(log)
  BY ExtantBound
<1>2. CASE i = Len(log)
  BY <1>1, <1>2 DEF Extant, Opens
<1>3. CASE i # Len(log)
  BY <1>1, <1>3 DEF Opens
<1> QED
  BY <1>2, <1>3

\* A log whose last frame is whole and that opens is accepted in full.
LEMMA WholeExtant ==
    ASSUME NEW log \in Seq(Frame), log # <<>> => log[Len(log)].whole
    PROVE  Extant(log) = Len(log)
  BY DEF Extant

\* Appending the next frame, whole or torn, to a log without a torn tail.
LEMMA AppendOpens ==
    ASSUME NEW log \in Seq(Frame), Opens(log), Extant(log) = Len(log),
           NEW f \in Frame, f.seq = Len(log) + 1
    PROVE  /\ Opens(Append(log, f))
           /\ Extant(Append(log, f)) = IF f.whole THEN Len(log) + 1 ELSE Len(log)
<1> DEFINE new == Append(log, f)
<1>1. /\ new \in Seq(Frame)
      /\ Len(new) = Len(log) + 1
      /\ new[Len(log) + 1] = f
      /\ \A i \in 1..Len(log) : new[i] = log[i]
  OBVIOUS
<1>2. \A i \in 1..Len(log) : Readable(log, i)
  BY ExtantReadable
<1>3. \A i \in 1..Len(log) : Readable(new, i)
  BY <1>1, <1>2 DEF Readable
<1>4. f.whole => Readable(new, Len(log) + 1)
  BY <1>1 DEF Readable
<1> HIDE DEF new
<1>5. Opens(new)
  BY <1>1, <1>3, <1>4 DEF Opens
<1>6. Extant(new) = IF f.whole THEN Len(log) + 1 ELSE Len(log)
  BY <1>1 DEF Extant
<1> QED
  BY <1>5, <1>6 DEF new

\* Cutting a log within its accepted frames, and at its very end.
LEMMA CutOpens ==
    ASSUME NEW log \in Seq(Frame), Opens(log), NEW k \in 0..Extant(log)
    PROVE  /\ Opens(SubSeq(log, 1, k))
           /\ Extant(SubSeq(log, 1, k)) = k
<1> DEFINE cut == SubSeq(log, 1, k)
<1>1. Extant(log) \in 0..Len(log)
  BY ExtantBound
<1>2. /\ cut \in Seq(Frame)
      /\ Len(cut) = k
      /\ \A i \in 1..k : cut[i] = log[i]
  BY <1>1, SubSeqOfFrames
<1>3. \A i \in 1..k : Readable(log, i)
  BY <1>1, ExtantReadable
<1>4. \A i \in 1..k : Readable(cut, i)
  BY <1>2, <1>3 DEF Readable
<1> HIDE DEF cut
<1>5. Opens(cut)
  BY <1>2, <1>4 DEF Opens
<1>6. Extant(cut) = k
  BY <1>2, <1>4 DEF Extant, Readable
<1> QED
  BY <1>5, <1>6 DEF cut

\* Cutting a log at its end changes nothing.
LEMMA WholeCut ==
    ASSUME NEW log \in Seq(Frame)
    PROVE  SubSeq(log, 1, Len(log)) = log
  OBVIOUS

\* A log that opens and is cut short of its end is cut within its accepted frames.
LEMMA CutIsExtant ==
    ASSUME NEW log \in Seq(Frame), NEW k \in Nat, k < Len(log)
    PROVE  k <= Extant(log)
  BY DEF Extant

\* The synced frames are accepted frames of the visible log.
LEMMA DiskWithinCache ==
    ASSUME TypeOK, DiskInv, NeverFailsClosed
    PROVE  /\ Extant(logDisk) \in 0..Extant(logCache)
           /\ Extant(logCache) \in 0..Len(logCache)
<1>1. /\ logCache \in Seq(Frame)
      /\ logDisk \in Seq(Frame)
      /\ Extant(logDisk) \in 0..Len(logDisk)
      /\ Extant(logCache) \in 0..Len(logCache)
      /\ Extant(logDisk) <= Len(logCache)
  BY ExtantBound DEF TypeOK, DiskInv
<1>2. CASE Extant(logDisk) < Len(logCache)
  BY <1>1, <1>2, CutIsExtant
<1>3. CASE Extant(logDisk) = Len(logCache) /\ logCache # <<>>
  <2>1. Len(logCache) \in 1..Extant(logDisk)
    BY <1>1, <1>3
  <2>2. logDisk[Len(logCache)].whole
    BY <1>1, <2>1, ExtantReadable DEF NeverFailsClosed, Readable
  <2>3. logCache[Len(logCache)].whole
    BY <2>1, <2>2 DEF DiskInv
  <2> QED
    BY <1>1, <1>3, <2>3 DEF Extant
<1>4. CASE logCache = <<>>
  BY <1>1, <1>4 DEF Extant
<1> QED
  BY <1>1, <1>2, <1>3, <1>4

\* What a power loss leaves of the log opens, keeps every synced frame, and is
\* made of frames that were there.
LEMMA SurvivorFacts ==
    ASSUME TypeOK, DiskInv, NeverFailsClosed, NEW s \in Survivors
    PROVE  /\ Opens(s)
           /\ Extant(s) \in Extant(logDisk)..Extant(logCache)
           /\ \A i \in 1..Extant(s) : s[i] = logCache[i]
           /\ \A i \in 1..Len(s) :
                 \/ i \in 1..Len(logCache) /\ s[i].oid = logCache[i].oid
                 \/ i \in 1..Len(logDisk) /\ s[i].oid = logDisk[i].oid
<1> DEFINE Goal ==
        /\ Opens(s)
        /\ Extant(s) \in Extant(logDisk)..Extant(logCache)
        /\ \A i \in 1..Extant(s) : s[i] = logCache[i]
        /\ \A i \in 1..Len(s) :
              \/ i \in 1..Len(logCache) /\ s[i].oid = logCache[i].oid
              \/ i \in 1..Len(logDisk) /\ s[i].oid = logDisk[i].oid
<1> SUFFICES Goal
  OBVIOUS
<1>1. /\ logCache \in Seq(Frame)
      /\ logDisk \in Seq(Frame)
      /\ Extant(logDisk) \in 0..Extant(logCache)
      /\ Extant(logCache) \in 0..Len(logCache)
      /\ Opens(logCache)
      /\ Opens(logDisk)
      /\ Extant(logDisk) \in 0..Len(logDisk)
  BY DiskWithinCache, ExtantBound DEF TypeOK, NeverFailsClosed
<1>2. CASE s = logDisk
  BY <1>1, <1>2 DEF DiskInv
<1>3. ASSUME NEW k \in Extant(logDisk)..Len(logCache), s = SubSeq(logCache, 1, k)
      PROVE  Goal
  <2>1. CASE k = Len(logCache)
    <3>1. s = logCache
      BY <1>1, <1>3, <2>1, WholeCut
    <3> QED
      BY <1>1, <3>1
  <2>2. CASE k < Len(logCache)
    <3>1. k \in 0..Extant(logCache)
      BY <1>1, <2>2, CutIsExtant
    <3>2. Opens(s) /\ Extant(s) = k
      BY <1>1, <1>3, <3>1, CutOpens
    <3>3. Len(s) = k /\ \A i \in 1..k : s[i] = logCache[i]
      BY <1>1, <1>3, <3>1, SubSeqOfFrames
    <3> QED
      BY <1>1, <3>1, <3>2, <3>3
  <2> QED
    BY <1>1, <2>1, <2>2
<1>4. ASSUME NEW k \in (Extant(logDisk)..Len(logCache)) \ {Len(logCache)},
             s = Append(SubSeq(logCache, 1, k),
                        [logCache[k + 1] EXCEPT !.whole = FALSE])
      PROVE  Goal
  <2> DEFINE cut == SubSeq(logCache, 1, k)
             torn == [logCache[k + 1] EXCEPT !.whole = FALSE]
  <2>1. k \in 0..Extant(logCache) /\ k + 1 \in 1..Len(logCache)
    BY <1>1, CutIsExtant
  <2>2. Opens(cut) /\ Extant(cut) = k
    BY <1>1, <2>1, CutOpens
  <2>3. cut \in Seq(Frame) /\ Len(cut) = k /\ \A i \in 1..k : cut[i] = logCache[i]
    BY <1>1, <2>1, SubSeqOfFrames
  <2>4. logCache[k + 1] \in Frame
    BY <1>1, <2>1
  <2>5. torn \in Frame /\ ~torn.whole /\ torn.oid = logCache[k + 1].oid
    BY <2>4 DEF Frame
  <2> HIDE DEF cut, torn
  <2>6. s = Append(cut, torn)
    BY <1>4 DEF cut, torn
  <2>7. /\ s \in Seq(Frame)
        /\ Len(s) = k + 1
        /\ s[k + 1] = torn
        /\ \A i \in 1..k : s[i] = logCache[i]
    BY <2>3, <2>5, <2>6, <2>1
  <2>8. Extant(s) = k
    BY <2>1, <2>5, <2>7 DEF Extant
  <2>9. \A i \in 1..k : Readable(s, i)
    <3>1. \A i \in 1..k : Readable(logCache, i)
      BY <1>1, <2>1, ExtantReadable
    <3> QED
      BY <2>7, <3>1 DEF Readable
  <2>10. Opens(s)
    BY <2>1, <2>5, <2>7, <2>9 DEF Opens
  <2> QED
    BY <1>1, <2>1, <2>5, <2>7, <2>8, <2>10
<1> QED
  BY <1>2, <1>3, <1>4 DEF Survivors

-----------------------------------------------------------------------------
(***************************************************************************)
(* The inductive invariant                                                 *)
(***************************************************************************)

\* A power loss takes the whole log only if its name was never synced.
LEMMA LogAfterPowerLoss ==
    ASSUME TypeOK, DiskInv, PowerLoss
    PROVE  \/ logCache' = <<>> /\ ~logNamed
           \/ logCache' \in Survivors /\ (logNamed => logNamed')
<1>1. PICK kept \in {logExists, logNamed} :
          /\ logNamed' = kept
          /\ logCache' \in IF kept THEN Survivors ELSE {<<>>}
  BY DEF PowerLoss
<1>2. logNamed => kept
  BY <1>1 DEF DiskInv
<1>3. kept \in BOOLEAN
  BY <1>1 DEF TypeOK
<1>4. CASE kept
  BY <1>1, <1>4
<1>5. CASE ~kept
  BY <1>1, <1>2, <1>5
<1> QED
  BY <1>3, <1>4, <1>5

\* The inductive invariant holds of a new database directory.
LEMMA IInvInit == Init => IInv
<1> SUFFICES ASSUME Init PROVE IInv
  OBVIOUS
<1>1. TypeOK
  BY TypeInit
<1>2. Extant(<<>>) = 0
  BY DEF Extant
<1>3. NeverFailsClosed /\ MarkersNameDurableCapsules
  BY DEF Init, NeverFailsClosed, Opens, MarkersNameDurableCapsules
<1>4. StepInv /\ PendingInv /\ HandleInv
  BY DEF Init, StepInv, PendingInv, HandleInv, Steps
<1>5. DiskInv /\ AcknowledgedSurvives
  BY <1>2 DEF Init, DiskInv, AcknowledgedSurvives, Absent
<1> QED
  BY <1>1, <1>3, <1>4, <1>5 DEF IInv

\* Steps that leave the log files alone and take no durable capsule away keep
\* what the invariant says about the files.
LEMMA FilesKept ==
    ASSUME IInv, TypeOK', UNCHANGED <<logExists, logCache, logDisk, acked>>,
           logNamed => logNamed', logNamed' => logExists,
           \A o \in Oid : Durable(o) => Durable(o)',
           \A o \in Oid : capDisk'[o] <= capCache'[o]
    PROVE  /\ DiskInv'
           /\ NeverFailsClosed'
           /\ MarkersNameDurableCapsules'
           /\ AcknowledgedSurvives'
<1>1. DiskInv'
  BY DEF IInv, DiskInv
<1>2. NeverFailsClosed'
  BY DEF IInv, NeverFailsClosed
<1>3. \A i \in 1..Len(logCache) : logCache[i].oid \in Oid
  BY FrameFields DEF IInv, TypeOK
<1>4. \A i \in 1..Len(logDisk) : logDisk[i].oid \in Oid
  BY FrameFields DEF IInv, TypeOK
<1>5. MarkersNameDurableCapsules'
  BY <1>3, <1>4 DEF IInv, MarkersNameDurableCapsules
<1>6. AcknowledgedSurvives'
  BY DEF IInv, AcknowledgedSurvives
<1> QED
  BY <1>1, <1>2, <1>5, <1>6

\* Every step of commit_with_crash, every open, error, crash and power loss keeps
\* the inductive invariant.
LEMMA IInvNext == IInv /\ [Next]_vars => IInv'
<1> SUFFICES ASSUME IInv, [Next]_vars PROVE IInv'
  OBVIOUS
<1> USE DEF At
<1>0. TypeOK /\ TypeOK'
  BY TypeNext DEF IInv
<1>2. CASE Leave
  <2>1. DiskInv' /\ NeverFailsClosed' /\ MarkersNameDurableCapsules' /\ AcknowledgedSurvives'
    BY <1>0, <1>2, FilesKept DEF Leave, Closed, diskVars, IInv, DiskInv, Durable
  <2>2. StepInv' /\ PendingInv' /\ HandleInv'
    BY <1>0, <1>2 DEF Leave, Closed, StepInv, PendingInv, HandleInv, Steps
  <2> QED
    BY <1>0, <2>1, <2>2 DEF IInv
<1>3. CASE Abort
  <2>1. DiskInv' /\ NeverFailsClosed' /\ MarkersNameDurableCapsules' /\ AcknowledgedSurvives'
    BY <1>0, <1>3, FilesKept DEF Abort, diskVars, IInv, DiskInv, Durable
  <2>2. StepInv' /\ PendingInv'
    BY <1>0, <1>3 DEF IInv, Abort, diskVars, StepInv, PendingInv, Steps
  <2>3. HandleInv'
    BY <1>0, <1>3 DEF IInv, Abort, diskVars, HandleInv
  <2> QED
    BY <1>0, <2>1, <2>2, <2>3 DEF IInv
<1>4. ASSUME NEW o \in Oid, Begin(o) PROVE IInv'
  <2>1. DiskInv' /\ NeverFailsClosed' /\ MarkersNameDurableCapsules' /\ AcknowledgedSurvives'
    BY <1>0, <1>4, FilesKept DEF Begin, diskVars, IInv, DiskInv, StepInv, TypeOK, Durable, Extent, Absent, Prefix, Complete
  <2>2. StepInv'
    BY <1>0, <1>4 DEF IInv, Begin, diskVars, StepInv, PendingInv, DiskInv, Durable, Steps, TypeOK, Extent, Absent, Prefix, Complete
  <2>3. PendingInv'
    BY <1>0, <1>4 DEF IInv, Begin, diskVars, StepInv, PendingInv
  <2>4. HandleInv'
    BY <1>0, <1>4 DEF IInv, Begin, diskVars, StepInv, HandleInv, Marker
  <2> QED
    BY <1>0, <2>1, <2>2, <2>3, <2>4 DEF IInv
<1>5. ASSUME NEW extent \in {Prefix, Complete}, WriteCapsule(extent) PROVE IInv'
  <2>1. DiskInv' /\ NeverFailsClosed' /\ MarkersNameDurableCapsules' /\ AcknowledgedSurvives'
    <3>1. ASSUME NEW o \in Oid, Durable(o) PROVE Durable(o)'
      BY <1>0, <1>5, <3>1 DEF WriteCapsule, IInv, DiskInv, TypeOK, Durable, Extent, Absent, Prefix, Complete
    <3>2. ASSUME NEW o \in Oid PROVE capDisk'[o] <= capCache'[o]
      BY <1>0, <1>5 DEF WriteCapsule, IInv, DiskInv, TypeOK, Extent, Absent, Prefix, Complete
    <3>3. UNCHANGED <<logExists, logCache, logDisk, logNamed, acked>>
      BY <1>5 DEF WriteCapsule
    <3>4. logNamed => logExists
      BY DEF IInv, DiskInv
    <3> QED
      BY <1>0, <3>1, <3>2, <3>3, <3>4, FilesKept
  <2>2. StepInv'
    BY <1>0, <1>5 DEF IInv, WriteCapsule, StepInv, PendingInv, DiskInv, Durable, Steps, TypeOK, Extent, Absent, Prefix, Complete
  <2>3. PendingInv'
    BY <1>0, <1>5 DEF IInv, WriteCapsule, StepInv, PendingInv
  <2>4. HandleInv'
    BY <1>0, <1>5 DEF IInv, WriteCapsule, StepInv, HandleInv, Marker
  <2> QED
    BY <1>0, <2>1, <2>2, <2>3, <2>4 DEF IInv
<1>6. ASSUME NEW lied \in BOOLEAN, SyncCapsuleFile(lied) PROVE IInv'
  <2>1. DiskInv' /\ NeverFailsClosed' /\ MarkersNameDurableCapsules' /\ AcknowledgedSurvives'
    <3>1. ASSUME NEW o \in Oid, Durable(o) PROVE Durable(o)'
      BY <1>0, <1>6, <3>1 DEF SyncCapsuleFile, IInv, DiskInv, TypeOK, Durable, Extent, Absent, Prefix, Complete
    <3>2. ASSUME NEW o \in Oid PROVE capDisk'[o] <= capCache'[o]
      BY <1>0, <1>6 DEF SyncCapsuleFile, IInv, DiskInv, TypeOK, Extent, Absent, Prefix, Complete
    <3>3. UNCHANGED <<logExists, logCache, logDisk, logNamed, acked>>
      BY <1>6 DEF SyncCapsuleFile
    <3>4. logNamed => logExists
      BY DEF IInv, DiskInv
    <3> QED
      BY <1>0, <3>1, <3>2, <3>3, <3>4, FilesKept
  <2>2. StepInv'
    BY <1>0, <1>6 DEF IInv, SyncCapsuleFile, StepInv, PendingInv, DiskInv, Durable, Steps, TypeOK, Extent, Absent, Prefix, Complete
  <2>3. PendingInv'
    BY <1>0, <1>6 DEF IInv, SyncCapsuleFile, StepInv, PendingInv
  <2>4. HandleInv'
    BY <1>0, <1>6 DEF IInv, SyncCapsuleFile, StepInv, HandleInv, Marker
  <2> QED
    BY <1>0, <2>1, <2>2, <2>3, <2>4 DEF IInv
<1>7. CASE SyncCapsuleDir
  <2>1. DiskInv' /\ NeverFailsClosed' /\ MarkersNameDurableCapsules' /\ AcknowledgedSurvives'
    <3>1. ASSUME NEW o \in Oid, Durable(o) PROVE Durable(o)'
      BY <1>0, <1>7, <3>1 DEF SyncCapsuleDir, IInv, DiskInv, TypeOK, Durable, Extent, Absent, Prefix, Complete
    <3>2. ASSUME NEW o \in Oid PROVE capDisk'[o] <= capCache'[o]
      BY <1>0, <1>7 DEF SyncCapsuleDir, IInv, DiskInv, TypeOK, Extent, Absent, Prefix, Complete
    <3>3. UNCHANGED <<logExists, logCache, logDisk, logNamed, acked>>
      BY <1>7 DEF SyncCapsuleDir
    <3>4. logNamed => logExists
      BY DEF IInv, DiskInv
    <3> QED
      BY <1>0, <3>1, <3>2, <3>3, <3>4, FilesKept
  <2>2. StepInv'
    BY <1>0, <1>7 DEF IInv, SyncCapsuleDir, StepInv, PendingInv, DiskInv, Durable, Steps, TypeOK, Extent, Absent, Prefix, Complete
  <2>3. PendingInv'
    BY <1>0, <1>7 DEF IInv, SyncCapsuleDir, StepInv, PendingInv
  <2>4. HandleInv'
    BY <1>0, <1>7 DEF IInv, SyncCapsuleDir, StepInv, HandleInv, Marker
  <2> QED
    BY <1>0, <2>1, <2>2, <2>3, <2>4 DEF IInv
<1>8. CASE SyncCapsuleParent
  <2>1. DiskInv' /\ NeverFailsClosed' /\ MarkersNameDurableCapsules' /\ AcknowledgedSurvives'
    BY <1>0, <1>8, FilesKept DEF SyncCapsuleParent, SyncDatabaseDir, IInv, DiskInv, StepInv, TypeOK, Durable, Extent, Absent, Prefix, Complete
  <2>2. StepInv'
    BY <1>0, <1>8 DEF IInv, SyncCapsuleParent, SyncDatabaseDir, StepInv, PendingInv, DiskInv, Durable, Steps, TypeOK, Extent, Absent, Prefix, Complete
  <2>3. PendingInv'
    BY <1>0, <1>8 DEF IInv, SyncCapsuleParent, SyncDatabaseDir, DiskInv, PendingInv
  <2>4. HandleInv'
    BY <1>0, <1>8 DEF IInv, SyncCapsuleParent, SyncDatabaseDir, StepInv, HandleInv, Marker
  <2> QED
    BY <1>0, <2>1, <2>2, <2>3, <2>4 DEF IInv
<1>9. CASE ReinforceCapsule
  <2>1. DiskInv' /\ NeverFailsClosed' /\ MarkersNameDurableCapsules' /\ AcknowledgedSurvives'
    <3>1. ASSUME NEW o \in Oid, Durable(o) PROVE Durable(o)'
      BY <1>0, <1>9, <3>1 DEF ReinforceCapsule, IInv, DiskInv, TypeOK, Durable, Extent, Absent, Prefix, Complete
    <3>2. ASSUME NEW o \in Oid PROVE capDisk'[o] <= capCache'[o]
      BY <1>0, <1>9 DEF ReinforceCapsule, IInv, DiskInv, TypeOK, Extent, Absent, Prefix, Complete
    <3>3. UNCHANGED <<logExists, logCache, logDisk, logNamed, acked>>
      BY <1>9 DEF ReinforceCapsule
    <3>4. logNamed => logExists
      BY DEF IInv, DiskInv
    <3> QED
      BY <1>0, <3>1, <3>2, <3>3, <3>4, FilesKept
  <2>2. StepInv'
    BY <1>0, <1>9 DEF IInv, ReinforceCapsule, StepInv, PendingInv, DiskInv, Durable, Steps, TypeOK, Extent, Absent, Prefix, Complete
  <2>3. PendingInv'
    BY <1>0, <1>9 DEF IInv, ReinforceCapsule, StepInv, PendingInv
  <2>4. HandleInv'
    BY <1>0, <1>9 DEF IInv, ReinforceCapsule, StepInv, HandleInv, Marker
  <2> QED
    BY <1>0, <2>1, <2>2, <2>3, <2>4 DEF IInv
<1>10. CASE OpenLog
  <2>1. NeverFailsClosed' /\ MarkersNameDurableCapsules' /\ AcknowledgedSurvives'
    BY <1>0, <1>10 DEF IInv, OpenLog, NeverFailsClosed, MarkersNameDurableCapsules,
       AcknowledgedSurvives, Durable
  <2>2. DiskInv'
    BY <1>0, <1>10 DEF IInv, OpenLog, DiskInv
  <2>3. StepInv' /\ PendingInv'
    BY <1>0, <1>10 DEF IInv, OpenLog, StepInv, PendingInv, Durable, Steps
  <2>4. HandleInv'
    BY <1>0, <1>10 DEF IInv, OpenLog, HandleInv
  <2> QED
    BY <1>0, <2>1, <2>2, <2>3, <2>4 DEF IInv
<1>11. ASSUME NEW whole \in BOOLEAN, AppendMarker(whole) PROVE IInv'
  <2>1. /\ logCache \in Seq(Frame)
        /\ Opens(logCache)
        /\ Extant(logCache) = Len(logCache)
        /\ Len(logCache) = Len(chain)
        /\ Len(chain) \in Nat
        /\ isOpen
    <3>1. isOpen /\ ~poisoned
      BY <1>11 DEF AppendMarker, IInv, StepInv, Steps
    <3>2. Extant(logCache) \in 0..Len(logCache)
      BY <1>0, ExtantBound DEF TypeOK
    <3> QED
      <4>1. Opens(logCache)
        BY DEF IInv, NeverFailsClosed
      <4>2. Len(logCache) = Len(chain) /\ Len(chain) <= Extant(logCache)
        BY <3>1 DEF IInv, HandleInv
      <4>3. Len(chain) \in Nat /\ logCache \in Seq(Frame)
        BY <1>0 DEF TypeOK
      <4> QED
        BY <3>1, <3>2, <4>1, <4>2, <4>3
  <2>2. /\ Marker(whole) \in Frame
        /\ Marker(whole).seq = Len(logCache) + 1
        /\ Marker(whole).oid = cur
        /\ Marker(whole).whole = whole
    <3>1. pc # "idle" /\ StepInv
      BY <1>11 DEF AppendMarker, At, IInv
    <3> QED
      BY <1>0, <2>1, <3>1, NextFrame
  <2>3. /\ Len(logCache') = Len(logCache) + 1
        /\ logCache'[Len(logCache) + 1] = Marker(whole)
        /\ \A i \in 1..Len(logCache) : logCache'[i] = logCache[i]
    BY <1>11, <2>1, <2>2 DEF AppendMarker
  <2>4. /\ Opens(logCache')
        /\ Extant(logCache') = IF whole THEN Len(logCache) + 1 ELSE Len(logCache)
    BY <1>11, <2>1, <2>2, AppendOpens DEF AppendMarker
  <2>5. NeverFailsClosed'
    BY <1>11, <2>4 DEF AppendMarker, IInv, NeverFailsClosed
  <2>6. \A o : Durable(o)' <=> Durable(o)
    BY <1>11 DEF AppendMarker, Durable
  <2>7. Durable(cur)
    BY <1>11 DEF AppendMarker, IInv, StepInv
  <2>8. MarkersNameDurableCapsules'
    BY <1>11, <2>1, <2>2, <2>3, <2>6, <2>7 DEF AppendMarker, IInv, MarkersNameDurableCapsules
  <2>9. AcknowledgedSurvives'
    BY <1>11 DEF AppendMarker, IInv, AcknowledgedSurvives
  <2>10. DiskInv'
    BY <1>0, <1>11, <2>1, <2>3, DiskWithinCache DEF AppendMarker, IInv, DiskInv
  <2>11. StepInv' /\ PendingInv'
    BY <1>0, <1>11, <2>6, <2>7 DEF AppendMarker, IInv, StepInv, PendingInv, Steps
  <2>12. HandleInv'
    <3>1. poisoned'
      BY <1>11 DEF AppendMarker
    <3>2. \A i \in 1..Len(chain) : logCache'[i].oid = chain[i]
      BY <2>1, <2>3 DEF IInv, HandleInv
    <3>3. pc' \in {"marker", "logFile"} => whole
      BY <1>11 DEF AppendMarker
    <3>4. whole => logCache'[Len(logCache')] = Marker(TRUE)'
      BY <1>11, <2>1, <2>3 DEF AppendMarker, Marker
    <3>5. Len(chain) <= Extant(logCache')
      BY <2>1, <2>4
    <3>6. chain' = chain
      BY <1>11 DEF AppendMarker
    <3>7. Len(logCache') = Len(chain') + 1
      BY <2>1, <2>3, <3>6
    <3> QED
      BY <3>1, <3>2, <3>3, <3>4, <3>5, <3>6, <3>7 DEF HandleInv
  <2> QED
    BY <1>0, <2>5, <2>8, <2>9, <2>10, <2>11, <2>12 DEF IInv
<1>12. ASSUME NEW lied \in BOOLEAN, SyncLogFile(lied) PROVE IInv'
  <2>1. logDisk' = logDisk \/ logDisk' = logCache
    BY <1>12 DEF SyncLogFile
  <2>2. NeverFailsClosed'
    BY <1>12, <2>1 DEF SyncLogFile, IInv, NeverFailsClosed
  <2>3. MarkersNameDurableCapsules'
    BY <1>12, <2>1 DEF SyncLogFile, IInv, MarkersNameDurableCapsules, Durable
  <2>4. AcknowledgedSurvives' /\ DiskInv'
    <3>1. CASE logDisk' = logDisk
      BY <1>12, <3>1 DEF SyncLogFile, IInv, AcknowledgedSurvives, DiskInv
    <3>2. CASE logDisk' = logCache
      <4>1. UNCHANGED <<capCache, capDisk, logExists, logCache, logNamed, acked>>
        BY <1>12 DEF SyncLogFile
      <4>2. /\ Extant(logDisk) \in 0..Extant(logCache)
            /\ Extant(logCache) \in 0..Len(logCache)
            /\ Len(acked) \in Nat
        BY <1>0, DiskWithinCache, ExtantBound DEF IInv, TypeOK
      <4>3. \A i \in 1..Len(acked) : logCache[i].oid = acked[i]
        BY <4>2 DEF IInv, AcknowledgedSurvives, DiskInv
      <4>4. AcknowledgedSurvives'
        BY <3>2, <4>1, <4>2, <4>3 DEF IInv, AcknowledgedSurvives
      <4>5. DiskInv'
        BY <3>2, <4>1, <4>2 DEF IInv, DiskInv
      <4> QED
        BY <4>4, <4>5
    <3> QED
      BY <2>1, <3>1, <3>2
  <2>5. StepInv' /\ PendingInv'
    BY <1>0, <1>12 DEF SyncLogFile, IInv, StepInv, PendingInv, Durable, Steps
  <2>6. HandleInv'
    BY <1>0, <1>12 DEF SyncLogFile, IInv, StepInv, HandleInv, Marker
  <2> QED
    BY <1>0, <2>2, <2>3, <2>4, <2>5, <2>6 DEF IInv
<1>13. CASE SyncLogParent
  <2>1. DiskInv' /\ NeverFailsClosed' /\ MarkersNameDurableCapsules' /\ AcknowledgedSurvives'
    BY <1>0, <1>13, FilesKept DEF SyncLogParent, SyncDatabaseDir, IInv, DiskInv, StepInv,
       TypeOK, Durable
  <2>2. StepInv' /\ PendingInv'
    BY <1>0, <1>13 DEF SyncLogParent, SyncDatabaseDir, IInv, StepInv, PendingInv, Durable,
       Steps
  <2>3. HandleInv'
    BY <1>0, <1>13 DEF SyncLogParent, IInv, HandleInv, Marker
  <2> QED
    BY <1>0, <2>1, <2>2, <2>3 DEF IInv
<1>14. CASE Acknowledge
  <2>1. /\ isOpen
        /\ logNamed
        /\ Len(logCache) = Len(chain) + 1
        /\ logCache[Len(logCache)] = Marker(TRUE)
        /\ Len(chain) \in Nat
        /\ logCache \in Seq(Frame)
    <3>1. isOpen /\ pc = "logFile" /\ ~logPending
      BY <1>14 DEF Acknowledge, IInv, StepInv
    <3>2. logNamed
      BY <3>1 DEF IInv, PendingInv
    <3>3. Len(logCache) = Len(chain) + 1 /\ logCache[Len(logCache)] = Marker(TRUE)
      BY <3>1 DEF IInv, HandleInv
    <3>4. Len(chain) \in Nat /\ logCache \in Seq(Frame)
      BY <1>0 DEF TypeOK
    <3> QED
      BY <3>1, <3>2, <3>3, <3>4
  <2>2. Extant(logCache) = Len(logCache)
    BY <2>1 DEF Extant, Marker
  <2>3. /\ Len(chain') = Len(chain) + 1
        /\ chain'[Len(chain) + 1] = cur
        /\ \A i \in 1..Len(chain) : chain'[i] = chain[i]
    <3>1. chain \in Seq(Oid) /\ cur \in Oid /\ chain' = Append(chain, cur)
      BY <1>0, <1>14 DEF Acknowledge, TypeOK
    <3> QED
      BY <3>1
  <2>4. \A i \in 1..Len(chain') : logCache[i].oid = chain'[i]
    BY <2>1, <2>3 DEF IInv, HandleInv, Marker
  <2>5. AcknowledgedSurvives'
    BY <1>14, <2>1, <2>2, <2>3, <2>4 DEF Acknowledge, AcknowledgedSurvives
  <2>6. NeverFailsClosed' /\ MarkersNameDurableCapsules'
    BY <1>14 DEF Acknowledge, IInv, NeverFailsClosed, MarkersNameDurableCapsules, Durable
  <2>7. DiskInv'
    BY <1>14, <2>2 DEF Acknowledge, IInv, DiskInv
  <2>8. StepInv' /\ PendingInv'
    BY <1>0, <1>14 DEF Acknowledge, IInv, StepInv, PendingInv, Steps
  <2>9. HandleInv'
    <3>1. logCache' = logCache /\ pc' = "idle"
      BY <1>14 DEF Acknowledge
    <3>2. Len(chain') <= Extant(logCache') /\ Len(logCache') = Len(chain')
      BY <2>1, <2>2, <2>3, <3>1
    <3>3. \A i \in 1..Len(chain') : logCache'[i].oid = chain'[i]
      BY <2>4, <3>1
    <3>4. pc' \notin {"marker", "logFile"}
      BY <3>1
    <3> QED
      BY <3>2, <3>3, <3>4 DEF HandleInv
  <2> QED
    BY <1>0, <2>5, <2>6, <2>7, <2>8, <2>9 DEF IInv
<1>15. CASE PowerLoss
  <2>1. ~isOpen' /\ pc' = "idle" /\ acked' = acked
    BY <1>15 DEF PowerLoss, Closed
  <2>2. StepInv' /\ PendingInv' /\ HandleInv'
    BY <2>1 DEF StepInv, PendingInv, HandleInv, Steps
  <2>3. \A o \in Oid : Durable(o) => Durable(o)'
    <3>1. PICK dirKept \in {TRUE, dirNamed}, extent \in [Oid -> Extent] :
             /\ dirNamed' = dirKept
             /\ \A o \in Oid :
                   \/ /\ extent[o] = Absent
                      /\ ~dirKept \/ ~capNamed[o]
                   \/ /\ dirKept
                      /\ extent[o] \in capDisk[o]..capCache[o]
             /\ capDisk' = extent
             /\ capNamed' = [o \in Oid |-> extent[o] # Absent]
      BY <1>15 DEF PowerLoss
    <3>2. ASSUME NEW o \in Oid, Durable(o) PROVE Durable(o)'
      <4>1. dirKept /\ capNamed[o] /\ capDisk[o] = Complete /\ capCache[o] \in Extent
        BY <1>0, <3>1, <3>2 DEF Durable, TypeOK
      <4>2. extent[o] = Complete
        BY <3>1, <4>1 DEF Extent, Absent, Complete
      <4> QED
        <5>1. extent[o] # Absent
          BY <4>2 DEF Absent, Complete
        <5>2. capNamed'[o] /\ capDisk'[o] = Complete
          BY <3>1, <4>2, <5>1
        <5> QED
          BY <3>1, <4>1, <5>2 DEF Durable
    <3> QED
      BY <3>2
  <2>4. \A o \in Oid : capDisk'[o] <= capCache'[o]
    <3>1. capDisk' = capCache'
      BY <1>15 DEF PowerLoss
    <3>2. ASSUME NEW o \in Oid PROVE capCache'[o] \in Int
      BY <1>0 DEF TypeOK, Extent, Absent, Prefix, Complete
    <3> QED
      BY <3>1, <3>2
  <2>5. logNamed' = logExists' /\ logDisk' = logCache'
    BY <1>15 DEF PowerLoss
  <2>7. CASE logCache' = <<>> /\ ~logNamed
    <3>1. Extant(<<>>) = 0
      BY DEF Extant
    <3>2. acked = <<>>
      BY <2>7 DEF IInv, AcknowledgedSurvives
    <3>3. AcknowledgedSurvives'
      BY <2>1, <2>5, <2>7, <3>1, <3>2 DEF AcknowledgedSurvives
    <3>4. NeverFailsClosed' /\ MarkersNameDurableCapsules' /\ DiskInv'
      BY <2>4, <2>5, <2>7, <3>1 DEF NeverFailsClosed, Opens, MarkersNameDurableCapsules,
         DiskInv
    <3> QED
      BY <1>0, <2>2, <3>3, <3>4 DEF IInv
  <2>8. CASE logCache' \in Survivors /\ (logNamed => logNamed')
    <3>0. PICK s \in Survivors : s = logCache'
      BY <2>8
    <3>1. /\ Opens(s)
          /\ Extant(s) \in Extant(logDisk)..Extant(logCache)
          /\ \A i \in 1..Extant(s) : s[i] = logCache[i]
          /\ \A i \in 1..Len(s) :
                \/ i \in 1..Len(logCache) /\ s[i].oid = logCache[i].oid
                \/ i \in 1..Len(logDisk) /\ s[i].oid = logDisk[i].oid
      BY <1>0, SurvivorFacts DEF IInv
    <3>2. /\ Extant(logDisk) \in Nat
          /\ Extant(logDisk) <= Extant(s)
          /\ Extant(s) \in 0..Len(s)
          /\ Len(acked) \in Nat
      BY <1>0, <3>0, <3>1, DiskWithinCache, ExtantBound DEF IInv, TypeOK
    <3>3. \A i \in 1..Len(s) : s[i].oid \in Oid /\ Durable(s[i].oid)
      BY <1>0, <3>1, FrameFields DEF IInv, TypeOK, MarkersNameDurableCapsules
    <3>4. \A i \in 1..Len(s) : Durable(s[i].oid)'
      BY <2>3, <3>3
    <3>5. MarkersNameDurableCapsules'
      BY <2>5, <3>0, <3>4 DEF MarkersNameDurableCapsules
    <3>6. NeverFailsClosed'
      BY <2>5, <3>0, <3>1 DEF NeverFailsClosed
    <3>7. DiskInv'
      BY <2>4, <2>5, <3>0, <3>2 DEF DiskInv
    <3>8. \A i \in 1..Len(acked) : s[i].oid = acked[i]
      <4>1. /\ Len(acked) <= Extant(logDisk)
            /\ \A i \in 1..Len(acked) : logDisk[i].oid = acked[i]
        BY DEF IInv, AcknowledgedSurvives
      <4>2. \A i \in 1..Extant(logDisk) : logCache[i] = logDisk[i]
        BY DEF IInv, DiskInv
      <4>3. \A i \in 1..Extant(s) : s[i] = logCache[i]
        BY <3>1
      <4>4. \A i \in 1..Len(acked) : i \in 1..Extant(logDisk) /\ i \in 1..Extant(s)
        BY <3>2, <4>1
      <4> QED
        BY <4>1, <4>2, <4>3, <4>4
    <3>9. AcknowledgedSurvives'
      BY <2>1, <2>5, <2>8, <3>0, <3>2, <3>8 DEF IInv, AcknowledgedSurvives
    <3> QED
      BY <1>0, <2>2, <3>5, <3>6, <3>7, <3>9 DEF IInv
  <2>9. \/ logCache' = <<>> /\ ~logNamed
        \/ logCache' \in Survivors /\ (logNamed => logNamed')
    BY <1>0, <1>15, LogAfterPowerLoss DEF IInv
  <2> QED
    BY <2>7, <2>8, <2>9
<1>16. CASE UNCHANGED vars
  <2>1. DiskInv' /\ NeverFailsClosed' /\ MarkersNameDurableCapsules' /\ AcknowledgedSurvives'
    BY <1>0, <1>16, FilesKept DEF vars, diskVars, IInv, DiskInv, Durable
  <2>2. StepInv' /\ PendingInv'
    BY <1>16 DEF vars, diskVars, handleVars, IInv, StepInv, PendingInv, Durable
  <2>3. HandleInv'
    BY <1>16 DEF vars, diskVars, handleVars, IInv, HandleInv, Marker
  <2> QED
    BY <1>0, <2>1, <2>2, <2>3 DEF IInv
<1>1. CASE Open
  <2>1. /\ logCache \in Seq(Frame)
        /\ Extant(logCache) \in 0..Len(logCache)
        /\ Extant(logDisk) \in 0..Extant(logCache)
        /\ Opens(logCache)
    BY <1>0, <1>1, DiskWithinCache DEF IInv, Open, TypeOK
  <2>2. logCache' = SubSeq(logCache, 1, Extant(logCache))
    BY <1>1 DEF Open, Recovered
  <2>3. /\ Len(logCache') = Extant(logCache)
        /\ \A i \in 1..Extant(logCache) : logCache'[i] = logCache[i]
    BY <2>1, <2>2, SubSeqOfFrames
  <2>4. Opens(logCache') /\ Extant(logCache') = Extant(logCache)
    BY <2>1, <2>2, CutOpens
  <2>5. NeverFailsClosed'
    BY <1>1, <2>4 DEF Open, IInv, NeverFailsClosed
  <2>6. MarkersNameDurableCapsules'
    <3>1. UNCHANGED <<dirNamed, capNamed, capDisk, logDisk>>
      BY <1>1 DEF Open
    <3>2. /\ \A i \in 1..Len(logCache) : Durable(logCache[i].oid)
          /\ \A i \in 1..Len(logDisk) : Durable(logDisk[i].oid)
      BY DEF IInv, MarkersNameDurableCapsules
    <3>3. \A i \in 1..Len(logCache') : i \in 1..Len(logCache) /\ logCache'[i] = logCache[i]
      <4>1. Len(logCache) \in Nat /\ Extant(logCache) \in 0..Len(logCache)
        BY <2>1
      <4>2. 1..Extant(logCache) \subseteq 1..Len(logCache)
        BY <4>1
      <4> QED
        BY <2>3, <4>2
    <3>4. \A i \in 1..Len(logCache') : Durable(logCache'[i].oid)
      BY <3>2, <3>3
    <3>5. \A i \in 1..Len(logCache') : Durable(logCache[i].oid)'
      BY <3>1, <3>4 DEF Durable
    <3>6. \A i \in 1..Len(logDisk') : Durable(logDisk[i].oid)'
      BY <3>1, <3>2 DEF Durable
    <3> QED
      BY <3>5, <3>6 DEF MarkersNameDurableCapsules
  <2>7. AcknowledgedSurvives'
    BY <1>1 DEF Open, IInv, AcknowledgedSurvives
  <2>8. DiskInv'
    BY <1>1, <2>1, <2>3 DEF Open, IInv, DiskInv
  <2>9. pc' = "idle"
    BY <1>1 DEF Open, IInv, StepInv
  <2>10. StepInv' /\ PendingInv'
    BY <1>1, <2>9 DEF Open, StepInv, PendingInv, Steps
  <2>11. /\ Len(chain') = Extant(logCache)
         /\ \A i \in 1..Extant(logCache) : chain'[i] = logCache[i].oid
    BY <1>1, <2>1, ChainOfType DEF Open, ChainOf
  <2>12. HandleInv'
    <3>1. Len(chain') <= Extant(logCache') /\ Len(logCache') = Len(chain')
      BY <2>1, <2>3, <2>4, <2>11
    <3>2. \A i \in 1..Len(chain') : logCache'[i].oid = chain'[i]
      BY <2>3, <2>11
    <3>3. pc' \notin {"marker", "logFile"}
      BY <2>9
    <3> QED
      BY <3>1, <3>2, <3>3 DEF HandleInv
  <2> QED
    BY <1>0, <2>5, <2>6, <2>7, <2>8, <2>10, <2>12 DEF IInv
<1> QED
  BY <1>1, <1>2, <1>3, <1>4, <1>5, <1>6, <1>7, <1>8, <1>9, <1>10, <1>11, <1>12,
     <1>13, <1>14, <1>15, <1>16 DEF Next

\* The inductive invariant holds in every reachable state.
THEOREM Invariance == Spec => []IInv
  BY IInvInit, IInvNext, PTL DEF Spec

\* Every reachable state is well typed: however commits fail and are retried, no
\* frame carries a commit_seq past the last allocatable one.
THEOREM TypeCorrect == Spec => []TypeOK
<1>1. IInv => TypeOK
  BY DEF IInv
<1> QED
  BY <1>1, Invariance, PTL

\* D1 before the marker: whatever a crash leaves, no marker names a capsule that
\* is missing, partial or under a name that can still vanish.
THEOREM CapsulesPrecedeMarkers == Spec => []MarkersNameDurableCapsules
<1>1. IInv => MarkersNameDurableCapsules
  BY DEF IInv
<1> QED
  BY <1>1, Invariance, PTL

\* D2 before the acknowledgement: a commit that returned Ok is in every log any
\* later recovery can read, at its sequence.
THEOREM AcknowledgedCommitsSurvive == Spec => []AcknowledgedSurvives
<1>1. IInv => AcknowledgedSurvives
  BY DEF IInv
<1> QED
  BY <1>1, Invariance, PTL

\* Recovery never fails closed on a log this writer produced, under any schedule
\* of failed calls, dropped handles and power losses.
THEOREM LogAlwaysOpens == Spec => []NeverFailsClosed
<1>1. IInv => NeverFailsClosed
  BY DEF IInv
<1> QED
  BY <1>1, Invariance, PTL

\* A handle that accepts commits has the chain of its log, to the last byte.
THEOREM UnpoisonedIsExact == Spec => []UsableHandleKnowsItsLog
<1>1. IInv => UsableHandleKnowsItsLog
  <2> SUFFICES ASSUME IInv, isOpen, ~poisoned
               PROVE  ChainOf(logCache) = chain /\ Extant(logCache) = Len(logCache)
    BY DEF UsableHandleKnowsItsLog
  <2>1. logCache \in Seq(Frame) /\ chain \in Seq(Oid) /\ Len(chain) \in Nat
    BY DEF IInv, TypeOK
  <2>2. Extant(logCache) \in 0..Len(logCache)
    BY <2>1, ExtantBound
  <2>3. /\ Len(logCache) = Len(chain)
        /\ Len(chain) <= Extant(logCache)
        /\ \A i \in 1..Len(chain) : logCache[i].oid = chain[i]
    BY DEF IInv, HandleInv
  <2>4. Extant(logCache) = Len(chain)
    BY <2>1, <2>2, <2>3
  <2>5. ChainOf(logCache) = chain
    BY <2>1, <2>3, <2>4 DEF ChainOf
  <2> QED
    BY <2>3, <2>4, <2>5
<1> QED
  BY <1>1, Invariance, PTL

-----------------------------------------------------------------------------
(***************************************************************************)
(* The coordinator implements CommitStream                                 *)
(***************************************************************************)

\* Two logs with the same accepted frames stand for the same chain.
LEMMA SameChain ==
    ASSUME NEW a \in Seq(Frame), NEW b \in Seq(Frame), Extant(a) = Extant(b),
           \A i \in 1..Extant(a) : a[i] = b[i]
    PROVE  ChainOf(a) = ChainOf(b)
  BY DEF ChainOf

\* A log that keeps a prefix of the accepted frames stands for that prefix of
\* the chain.
LEMMA PrefixChain ==
    ASSUME NEW a \in Seq(Frame), NEW b \in Seq(Frame), Extant(a) <= Extant(b),
           \A i \in 1..Extant(a) : a[i] = b[i]
    PROVE  ChainOf(a) = SubSeq(ChainOf(b), 1, Extant(a))
<1>1. /\ Extant(a) \in Nat
      /\ Extant(b) \in Nat
      /\ ChainOf(b) \in Seq(Oid)
      /\ Len(ChainOf(b)) = Extant(b)
      /\ ChainOf(a) \in Seq(Oid)
      /\ Len(ChainOf(a)) = Extant(a)
  BY ExtantBound, ChainOfType
<1> DEFINE cut == SubSeq(ChainOf(b), 1, Extant(a))
<1>2. cut \in Seq(Oid) /\ Len(cut) = Extant(a) /\ \A i \in 1..Extant(a) : cut[i] = ChainOf(b)[i]
  BY <1>1
<1>3. \A i \in 1..Extant(a) : ChainOf(a)[i] = a[i].oid /\ ChainOf(b)[i] = b[i].oid
  BY <1>1 DEF ChainOf
<1>4. \A i \in 1..Extant(a) : ChainOf(a)[i] = cut[i]
  BY <1>2, <1>3
<1> HIDE DEF cut
<1>5. ChainOf(a) = cut
  BY <1>1, <1>2, <1>4
<1> QED
  BY <1>5 DEF cut

\* A new database directory stands for the empty stream.
LEMMA StreamInitially == Init => Stream!StreamInit
<1> SUFFICES ASSUME Init PROVE ChainOf(<<>>) = <<>> /\ acked = <<>>
  BY DEF Init, Stream!StreamInit
<1>1. Extant(<<>>) = 0
  BY DEF Extant
<1>2. ChainOf(<<>>) \in Seq(Oid) /\ Len(ChainOf(<<>>)) = 0
  <2>1. <<>> \in Seq(Frame)
    OBVIOUS
  <2> QED
    BY <1>1, <2>1, ChainOfType
<1> QED
  BY <1>2 DEF Init

\* Every step of the coordinator, and every crash, is a step of the stream.
LEMMA StreamStep ==
    IInv /\ [Next]_vars => [Stream!StreamNext]_(Stream!streamVars)
<1> SUFFICES ASSUME IInv, [Next]_vars
             PROVE  [Stream!StreamNext]_(Stream!streamVars)
  OBVIOUS
<1> DEFINE before == ChainOf(logCache)
           after  == ChainOf(logCache')
<1>0. TypeOK /\ TypeOK'
  BY TypeNext DEF IInv
<1>1. logCache \in Seq(Frame) /\ logCache' \in Seq(Frame)
  BY <1>0 DEF TypeOK
<1>2. CASE logCache' = logCache /\ acked' = acked
  BY <1>2 DEF Stream!streamVars
<1>3. CASE Open
  <2>1. Opens(logCache) /\ Extant(logCache) \in 0..Len(logCache)
    BY <1>1, <1>3, ExtantBound DEF Open
  <2>2. logCache' = SubSeq(logCache, 1, Extant(logCache)) /\ acked' = acked
    BY <1>3 DEF Open, Recovered
  <2>3. Extant(logCache') = Extant(logCache)
    BY <1>1, <2>1, <2>2, CutOpens
  <2>4. \A i \in 1..Extant(logCache) : logCache'[i] = logCache[i]
    BY <1>1, <2>1, <2>2, SubSeqOfFrames
  <2>5. after = before
    BY <1>1, <2>3, <2>4, SameChain
  <2> QED
    BY <2>2, <2>5 DEF Stream!streamVars
<1>4. ASSUME NEW whole \in BOOLEAN, AppendMarker(whole)
      PROVE  [Stream!StreamNext]_(Stream!streamVars)
  <2>1. /\ Opens(logCache)
        /\ Len(logCache) = Len(chain)
        /\ Extant(logCache) = Len(logCache)
        /\ Len(chain) \in Nat
    <3>1. isOpen /\ ~poisoned
      BY <1>4 DEF AppendMarker, At, IInv, StepInv, Steps
    <3>2. Extant(logCache) \in 0..Len(logCache)
      BY <1>1, ExtantBound
    <3> QED
      <4>1. Opens(logCache)
        BY DEF IInv, NeverFailsClosed
      <4>2. Len(logCache) = Len(chain) /\ Len(chain) <= Extant(logCache)
        BY <3>1 DEF IInv, HandleInv
      <4>3. Len(chain) \in Nat
        BY <1>0 DEF TypeOK
      <4> QED
        BY <3>2, <4>1, <4>2, <4>3
  <2>2. /\ Marker(whole) \in Frame
        /\ Marker(whole).seq = Len(logCache) + 1
        /\ Marker(whole).oid = cur
        /\ Marker(whole).whole = whole
    <3>1. pc # "idle" /\ StepInv
      BY <1>4 DEF AppendMarker, At, IInv
    <3> QED
      BY <1>0, <2>1, <3>1, NextFrame
  <2>3. /\ Len(logCache') = Len(logCache) + 1
        /\ logCache'[Len(logCache) + 1] = Marker(whole)
        /\ \A i \in 1..Len(logCache) : logCache'[i] = logCache[i]
        /\ acked' = acked
    BY <1>1, <1>4, <2>2 DEF AppendMarker
  <2>4. Extant(logCache') = IF whole THEN Len(logCache) + 1 ELSE Len(logCache)
    BY <1>1, <1>4, <2>1, <2>2, AppendOpens DEF AppendMarker
  <2>5. CASE ~whole
    <3>1. after = before
      BY <1>1, <2>1, <2>3, <2>4, <2>5, SameChain
    <3> QED
      BY <2>3, <3>1 DEF Stream!streamVars
  <2>6. CASE whole
    <3>1. /\ before \in Seq(Oid)
          /\ after \in Seq(Oid)
          /\ Len(before) = Len(logCache)
          /\ Len(after) = Len(logCache) + 1
      BY <1>1, <2>1, <2>4, <2>6, ChainOfType
    <3>2. \A i \in 1..Len(logCache) : after[i] = before[i]
      BY <2>1, <2>3, <2>4, <2>6 DEF ChainOf
    <3>3. after[Len(logCache) + 1] = cur
      <4>1. Len(logCache) + 1 \in 1..Extant(logCache')
        BY <2>1, <2>4, <2>6
      <4>2. after[Len(logCache) + 1] = logCache'[Len(logCache) + 1].oid
        BY <4>1 DEF ChainOf
      <4> QED
        BY <2>2, <2>3, <4>2
    <3> HIDE DEF before, after
    <3>4. after = Append(before, cur)
      BY <1>0, <3>1, <3>2, <3>3 DEF TypeOK
    <3>5. cur \in Oid
      BY <1>0 DEF TypeOK
    <3> USE DEF before, after
    <3>6. Stream!Grow
      BY <2>3, <3>4, <3>5 DEF Stream!Grow
    <3> QED
      BY <3>6 DEF Stream!StreamNext
  <2> QED
    BY <2>5, <2>6
<1>5. CASE Acknowledge
  <2>1. isOpen /\ pc = "logFile" /\ logCache' = logCache /\ acked' = Append(chain, cur)
    BY <1>5 DEF Acknowledge, At, IInv, StepInv
  <2>2. /\ Len(logCache) = Len(chain) + 1
        /\ logCache[Len(logCache)] = Marker(TRUE)
        /\ \A i \in 1..Len(chain) : logCache[i].oid = chain[i]
    BY <2>1 DEF IInv, HandleInv
  <2>3. chain \in Seq(Oid) /\ cur \in Oid /\ Len(chain) \in Nat
    BY <1>0 DEF TypeOK
  <2>4. Extant(logCache) = Len(chain) + 1
    BY <1>1, <2>2, <2>3 DEF Extant, Marker
  <2>5. before \in Seq(Oid) /\ Len(before) = Len(chain) + 1
    BY <1>1, <2>4, ChainOfType
  <2>6. \A i \in 1..(Len(chain) + 1) : before[i] = logCache[i].oid
    BY <2>4 DEF ChainOf
  <2>7. before[Len(chain) + 1] = cur
    BY <2>2, <2>3, <2>6 DEF Marker
  <2>8. \A i \in 1..Len(chain) : before[i] = chain[i]
    BY <2>2, <2>3, <2>6
  <2> HIDE DEF before
  <2>9. before = Append(chain, cur)
    BY <2>3, <2>5, <2>7, <2>8
  <2> USE DEF before
  <2>10. Stream!Promise
    BY <2>1, <2>9 DEF Stream!Promise
  <2> QED
    BY <2>10 DEF Stream!StreamNext
<1>6. CASE PowerLoss
  <2>1. acked' = acked /\ Len(acked) \in Nat
    <3>1. acked' = acked
      BY <1>6 DEF PowerLoss, Closed
    <3>2. acked \in Seq(Oid)
      BY <1>0 DEF TypeOK
    <3> QED
      BY <3>1, <3>2
  <2>2. /\ Extant(logDisk) \in 0..Extant(logCache)
        /\ Extant(logCache) \in Nat
        /\ Len(acked) <= Extant(logDisk)
    BY <1>0, DiskWithinCache DEF IInv, AcknowledgedSurvives
  <2>3. /\ Extant(logCache') \in Len(acked)..Extant(logCache)
        /\ \A i \in 1..Extant(logCache') : logCache'[i] = logCache[i]
    <3>1. CASE logCache' \in Survivors
      BY <1>0, <2>1, <2>2, <3>1, SurvivorFacts DEF IInv
    <3>2. CASE logCache' = <<>> /\ ~logNamed
      <4>1. acked = <<>>
        BY <3>2 DEF IInv, AcknowledgedSurvives
      <4>2. Extant(logCache') = 0
        BY <3>2 DEF Extant
      <4> QED
        BY <2>2, <4>1, <4>2
    <3>3. logCache' \in Survivors \/ (logCache' = <<>> /\ ~logNamed)
      BY <1>0, <1>6, LogAfterPowerLoss DEF IInv
    <3> QED
      BY <3>1, <3>2, <3>3
  <2>4. after = SubSeq(before, 1, Extant(logCache'))
    BY <1>1, <2>1, <2>2, <2>3, PrefixChain
  <2>5. Len(before) = Extant(logCache)
    BY <1>1, ChainOfType
  <2>6. Extant(logCache') \in Len(acked)..Len(before)
    BY <2>3, <2>5
  <2>7. Stream!Lose
    BY <2>1, <2>4, <2>6 DEF Stream!Lose
  <2> QED
    BY <2>7 DEF Stream!StreamNext
<1>7. \/ logCache' = logCache /\ acked' = acked
      \/ Open \/ Acknowledge \/ PowerLoss
      \/ \E whole \in BOOLEAN : AppendMarker(whole)
  BY DEF Next, vars, diskVars, handleVars, Leave, Closed, Abort, Begin, WriteCapsule,
     SyncCapsuleFile, SyncCapsuleDir, SyncCapsuleParent, ReinforceCapsule, OpenLog,
     SyncLogFile, SyncLogParent
<1> QED
  BY <1>2, <1>3, <1>4, <1>5, <1>6, <1>7

\* The commit protocol implements the abstract commit stream: it grows one commit
\* at a time, and no crash takes an acknowledged commit or one ahead of it.
THEOREM CoordinatorImplementsStream == Spec => ImplementsStream
  BY StreamInitially, StreamStep, Invariance, PTL
  DEF Spec, ImplementsStream, Stream!StreamSpec
=============================================================================
