-------------------------- MODULE DatabaseProofs ---------------------------
(***************************************************************************)
(* Theorems about Database, for every set of commits, all bounds and every *)
(* set of faults unless a theorem says otherwise.                          *)
(***************************************************************************)
EXTENDS Database, TLAPS

\* What the slot holds once the root r is published under generation g.
Named(g, r) == [gen |-> g, root |-> r]

\* Which states an operation can be in.
Phases ==
    /\ state = Healthy => pc \in {"idle", "compact"}
    /\ state = Closed => pc = "idle"
    /\ state = Opening => pc \in {"select", "rebuild", "reconcile", "slotWrite", "slotSync"}
    /\ pc \in {"select", "rebuild", "reconcile"} => state = Opening
    /\ pc \in {"marker", "d2"} => state = Unknown
    /\ pc = "manifest" => state = Fenced
    /\ pc = "compact" => state = Healthy /\ owner = "writer"
    /\ pc \in {"marker", "d2", "manifest", "compact", "slotWrite", "slotSync"} => slotGen < MaxGen

\* What the operation in flight is about to publish holds every commit there is,
\* its own included; until its marker is appended the old root is still current.
WorkInv ==
    /\ pc \in {"rebuild", "reconcile", "d2", "manifest", "compact", "slotWrite", "slotSync"}
          => work.at = stream
    /\ pc = "marker" => /\ snap.at = stream
                        /\ slot = Named(slotGen, snap)
                        /\ \E c \in Commit : work.at = Append(stream, c)
    /\ pc = "slotSync" => slot = Named(slotGen + 1, work)

\* What passed D2 is synced.
StreamInv == Len(promised) <= synced /\ synced <= Len(stream)

HandleInv == TypeOK /\ Phases /\ WorkInv /\ StreamInv /\ HealthyIsCurrent

\* Only one kind of fault: no slot is ahead of what a power loss would leave of
\* the stream, and none has fallen behind what was served.
SlotInv ==
    /\ pc \in {"reconcile", "slotWrite", "slotSync"} => work \in stored
    /\ SlotNeverAhead
    /\ SlotLagsByAtMostOne
    /\ IsPrefix(shown, slot.root.at)
    /\ "process" \notin Faults =>
          /\ pc # "d2" => synced = Len(stream)
          /\ pc # "slotSync" => slot = slotDisk
          /\ Len(slotDisk.root.at) <= synced /\ Len(slot.root.at) <= synced
          /\ slotDisk # NoSlot => Len(stream) <= Len(slotDisk.root.at) + 1
          /\ IsPrefix(shown, slotDisk.root.at)

\* What a reader holds is a prefix of the stream, and holds what had been served.
ReaderInv ==
    /\ rpc # "refused"
    /\ rpc # "idle" => IsPrefix(rfloor, stream)
    /\ rpc \in {"scan", "bind", "view"} => Bound(rroot)
    /\ rpc \in {"scan", "view"} => IsPrefix(rfloor, rroot.at)
    /\ rpc = "bind" => rroot = NoRoot \/ IsPrefix(rfloor, rroot.at)

OneKind == Faults # {"process", "power"}

DatabaseInv == HandleInv /\ SlotInv /\ ReaderInv

-----------------------------------------------------------------------------
(***************************************************************************)
(* Prefixes of the stream                                                  *)
(***************************************************************************)

\* A prefix, element by element.
LEMMA PrefixElements ==
    ASSUME NEW S, NEW p \in Seq(S), NEW s \in Seq(S)
    PROVE  IsPrefix(p, s) <=> Len(p) <= Len(s) /\ \A k \in 1..Len(p) : p[k] = s[k]
<1>1. ASSUME Len(p) <= Len(s)
      PROVE  SubSeq(p, 1, Len(p)) = SubSeq(s, 1, Len(p)) <=> \A k \in 1..Len(p) : p[k] = s[k]
  <2>1. /\ SubSeq(p, 1, Len(p)) \in Seq(S) /\ Len(SubSeq(p, 1, Len(p))) = Len(p)
        /\ SubSeq(s, 1, Len(p)) \in Seq(S) /\ Len(SubSeq(s, 1, Len(p))) = Len(p)
        /\ \A k \in 1..Len(p) : SubSeq(p, 1, Len(p))[k] = p[k] /\ SubSeq(s, 1, Len(p))[k] = s[k]
    BY <1>1
  <2> QED
    BY <2>1
<1> QED
  BY <1>1 DEF IsPrefix

\* A sequence is a prefix of itself.
LEMMA PrefixItself ==
    ASSUME NEW S, NEW s \in Seq(S)
    PROVE  IsPrefix(s, s) /\ IsPrefix(<<>>, s)
<1>1. IsPrefix(s, s)
  BY PrefixElements
<1>2. ASSUME NEW e \in Seq(S), Len(e) = 0 PROVE IsPrefix(e, s)
  <2>1. Len(e) <= Len(s) /\ \A k \in 1..Len(e) : e[k] = s[k]
    BY <1>2
  <2> QED
    BY <2>1, PrefixElements
<1>3. <<>> \in Seq(S) /\ Len(<<>>) = 0
  OBVIOUS
<1> QED
  BY <1>1, <1>2, <1>3

\* Being a prefix is transitive.
LEMMA PrefixTransitive ==
    ASSUME NEW S, NEW p \in Seq(S), NEW q \in Seq(S), NEW s \in Seq(S),
           IsPrefix(p, q), IsPrefix(q, s)
    PROVE  IsPrefix(p, s)
<1>1. Len(p) <= Len(q) /\ Len(q) <= Len(s)
  BY PrefixElements
<1>2. \A k \in 1..Len(p) : p[k] = q[k]
  BY PrefixElements
<1>3. \A k \in 1..Len(q) : q[k] = s[k]
  BY PrefixElements
<1>4. \A k \in 1..Len(p) : p[k] = s[k]
  BY <1>1, <1>2, <1>3
<1>5. Len(p) <= Len(s)
  BY <1>1
<1> QED
  BY <1>4, <1>5, PrefixElements

\* What was a prefix stays one when the stream grows.
LEMMA PrefixGrows ==
    ASSUME NEW S, NEW p \in Seq(S), NEW s \in Seq(S), NEW c \in S, IsPrefix(p, s)
    PROVE  IsPrefix(p, Append(s, c))
<1>1. Len(p) <= Len(s) /\ \A k \in 1..Len(p) : p[k] = s[k]
  BY PrefixElements
<1>2. Append(s, c) \in Seq(S) /\ Len(Append(s, c)) = Len(s) + 1
      /\ \A k \in 1..Len(s) : Append(s, c)[k] = s[k]
  OBVIOUS
<1>3. Len(p) <= Len(Append(s, c)) /\ \A k \in 1..Len(p) : p[k] = Append(s, c)[k]
  BY <1>1, <1>2
<1> QED
  BY <1>2, <1>3, PrefixElements

\* A prefix within what a power loss keeps stays one.
LEMMA PrefixKept ==
    ASSUME NEW S, NEW p \in Seq(S), NEW s \in Seq(S), NEW k \in 0..Len(s),
           IsPrefix(p, s), Len(p) <= k
    PROVE  IsPrefix(p, SubSeq(s, 1, k))
<1>1. Len(p) <= Len(s) /\ \A j \in 1..Len(p) : p[j] = s[j]
  BY PrefixElements
<1>2. SubSeq(s, 1, k) \in Seq(S) /\ Len(SubSeq(s, 1, k)) = k
      /\ \A j \in 1..k : SubSeq(s, 1, k)[j] = s[j]
  OBVIOUS
<1>3. Len(p) <= Len(SubSeq(s, 1, k)) /\ \A j \in 1..Len(p) : p[j] = SubSeq(s, 1, k)[j]
  BY <1>1, <1>2
<1> QED
  BY <1>2, <1>3, PrefixElements

\* A root's commits and the commits past them are the whole stream.
LEMMA PrefixAndSuffix ==
    ASSUME NEW S, NEW p \in Seq(S), NEW s \in Seq(S), IsPrefix(p, s)
    PROVE  /\ p \o SubSeq(s, Len(p) + 1, Len(s)) = s
           /\ SubSeq(s, Len(p) + 1, Len(s)) = <<>> => p = s
<1> DEFINE r == SubSeq(s, Len(p) + 1, Len(s))
<1>1. Len(p) <= Len(s) /\ \A k \in 1..Len(p) : p[k] = s[k]
  BY PrefixElements
<1>2. r \in Seq(S) /\ Len(r) = Len(s) - Len(p) /\ \A k \in 1..Len(r) : r[k] = s[Len(p) + k]
  BY <1>1
<1>3. p \o r \in Seq(S) /\ Len(p \o r) = Len(s)
  BY <1>1, <1>2
<1>4. ASSUME NEW k \in 1..Len(s) PROVE (p \o r)[k] = s[k]
  <2>1. CASE k <= Len(p)
    BY <1>1, <1>2, <2>1
  <2>2. CASE k > Len(p)
    <3>1. k - Len(p) \in 1..Len(r) /\ r[k - Len(p)] = s[k]
      BY <1>1, <1>2, <2>2
    <3> QED
      BY <1>1, <1>2, <2>2, <3>1
  <2> QED
    BY <2>1, <2>2
<1>5. p \o r = s
  BY <1>3, <1>4
<1>6. r = <<>> => p = s
  <2> HIDE DEF r
  <2>1. r = <<>> => Len(r) = 0
    OBVIOUS
  <2>2. Len(r) = 0 => Len(p) = Len(s)
    BY <1>2
  <2>3. Len(p) = Len(s) => p = s
    BY <1>1
  <2> QED
    BY <2>1, <2>2, <2>3
<1> QED
  BY <1>5, <1>6 DEF r

-----------------------------------------------------------------------------
(***************************************************************************)
(* The handle                                                              *)
(***************************************************************************)

\* Roots that operations build.
LEMMA RootsBuilt ==
    /\ IsRoot(Empty)
    /\ \A s \in Seq(Commit) : Len(s) <= MaxSeq => IsRoot([at |-> s, base |-> 0])
    /\ \A r, s : IsRoot(r) /\ Commits(s) => /\ IsRoot([r EXCEPT !.at = s])
                                            /\ [r EXCEPT !.at = s].at = s
    /\ \A r : IsRoot(r) => /\ IsRoot([r EXCEPT !.base = Len(r.at)])
                           /\ [r EXCEPT !.base = Len(r.at)].at = r.at
  BY DatabaseAssumption DEF DatabaseAssumption, IsRoot, Root, Commits, Empty

\* A root past which nothing is committed, extended by the suffix, is itself.
LEMMA ExtendedRoot ==
    ASSUME NEW r, IsRoot(r), Commits(stream), Bound(r)
    PROVE  /\ IsRoot([r EXCEPT !.at = @ \o Suffix(r)])
           /\ [r EXCEPT !.at = @ \o Suffix(r)].at = stream
           /\ Suffix(r) = <<>> => [r EXCEPT !.at = @ \o Suffix(r)] = r
<1>1. r.at \in Seq(Commit) /\ stream \in Seq(Commit) /\ IsPrefix(r.at, stream)
  BY DEF IsRoot, Root, Commits, Bound
<1>2. r.at \o Suffix(r) = stream /\ (Suffix(r) = <<>> => r.at = stream)
  <2>1. PICK p \in Seq(Commit) : p = r.at
    BY <1>1
  <2>2. IsPrefix(p, stream)
    BY <1>1, <2>1
  <2>3. /\ p \o SubSeq(stream, Len(p) + 1, Len(stream)) = stream
        /\ SubSeq(stream, Len(p) + 1, Len(stream)) = <<>> => p = stream
    BY <1>1, <2>2, PrefixAndSuffix
  <2> QED
    BY <2>1, <2>3 DEF Suffix
<1>3. [r EXCEPT !.at = @ \o Suffix(r)] = [r EXCEPT !.at = stream]
  <2>1. r \in [at : Seq(Commit), base : Nat]
    BY DEF IsRoot, Root
  <2> QED
    BY <1>2, <2>1
<1>4. r.at = stream => [r EXCEPT !.at = stream] = r
  BY DEF IsRoot, Root
<1> QED
  BY <1>2, <1>3, <1>4, RootsBuilt

\* The handle invariant holds initially.
LEMMA HandleInit == Init => HandleInv
<1> SUFFICES ASSUME Init PROVE HandleInv
  OBVIOUS
<1>1. <<>> \in Seq(Commit) /\ Len(<<>>) = 0
  OBVIOUS
<1>2. TypeOK
  BY <1>1, RootsBuilt, DatabaseAssumption DEF Init, DatabaseAssumption, TypeOK, Commits, Closed
<1> QED
  BY <1>1, <1>2 DEF Init, HandleInv, Phases, WorkInv, StreamInv, HealthyIsCurrent,
     Closed, Healthy, Opening, Unknown, Fenced

\* The handle, the stream and what callers know, which a reader leaves alone.
LEMMA HandleKept ==
    ASSUME HandleInv, UNCHANGED <<durable, handle, promised>>, TypeOK'
    PROVE  HandleInv'
  BY DEF HandleInv, Phases, WorkInv, StreamInv, HealthyIsCurrent, Named, durable, handle

\* Every step preserves the handle invariant.
LEMMA HandleNext == HandleInv /\ [Next]_vars => HandleInv'
<1> SUFFICES ASSUME HandleInv, [Next]_vars PROVE HandleInv'
  OBVIOUS
<1> USE DatabaseAssumption DEF DatabaseAssumption, Healthy, Unknown, Fenced, Opening, Closed
<1> USE DEF durable, handle, reader
<1>T. /\ TypeOK
      /\ stream \in Seq(Commit) /\ Len(stream) \in Nat /\ Len(stream) <= MaxSeq
      /\ slot = NoSlot \/ (slot \in Slot /\ IsRoot(slot.root))
      /\ slotDisk = NoSlot \/ (slotDisk \in Slot /\ IsRoot(slotDisk.root))
      /\ IsRoot(work) /\ IsRoot(snap)
      /\ Phases /\ WorkInv /\ StreamInv /\ HealthyIsCurrent
  BY DEF HandleInv, TypeOK, Commits
<1>R. /\ work.at \in Seq(Commit) /\ Len(work.at) <= MaxSeq
      /\ snap.at \in Seq(Commit) /\ Len(snap.at) <= MaxSeq
  BY <1>T DEF IsRoot, Root
<1>1. CASE Open
  BY <1>1, <1>T DEF Open, BeginBind, HandleInv, TypeOK, Phases, WorkInv, StreamInv, HealthyIsCurrent
<1>2. CASE RecoverAuthoritatively
  <2>1. IsRoot(work') /\ work'.at = stream
    BY <1>2, <1>T, RootsBuilt DEF RecoverAuthoritatively
  <2> QED
    BY <1>2, <1>T, <2>1 DEF RecoverAuthoritatively, BeginBind, HandleInv, TypeOK, Phases, WorkInv,
       StreamInv, HealthyIsCurrent
<1>3. CASE SelectCheckpoint
  <2>1. /\ pc = "select" /\ state = Opening
        /\ UNCHANGED <<durable, reader, promised, shown, faults, owner, snap, slotGen>>
    BY <1>3, <1>T DEF SelectCheckpoint, Refuse, Phases
  <2>2. CASE Refuse
    BY <1>T, <2>1, <2>2 DEF Refuse, HandleInv, TypeOK, Phases, WorkInv, StreamInv, HealthyIsCurrent
  <2>3. CASE state' = state /\ pc' \in {"rebuild", "reconcile"} /\ IsRoot(work') /\ work'.at = stream
    BY <1>T, <2>1, <2>3 DEF HandleInv, TypeOK, Phases, WorkInv, StreamInv, HealthyIsCurrent
  <2>4. CASE slot = NoSlot /\ work' = [at |-> stream, base |-> 0] /\ pc' = "rebuild" /\ state' = state
    BY <1>T, <2>3, <2>4, RootsBuilt
  <2>5. CASE /\ slot # NoSlot /\ Bound(slot.root) /\ state' = state
             /\ work' = [slot.root EXCEPT !.at = @ \o Suffix(slot.root)]
             /\ pc' = IF Suffix(slot.root) = <<>> THEN "reconcile" ELSE "rebuild"
    BY <1>T, <2>3, <2>5, ExtendedRoot DEF Commits
  <2> QED
    BY <1>3, <2>2, <2>4, <2>5 DEF SelectCheckpoint
<1>4. CASE PublishRebuilt
  BY <1>4, <1>T DEF PublishRebuilt, At, HandleInv, TypeOK, Phases, WorkInv, StreamInv, HealthyIsCurrent
<1>5. CASE Reconcile
  <2>1. /\ pc = "reconcile" /\ state = Opening /\ work.at = stream
        /\ UNCHANGED <<durable, owner, work, reader, promised, faults>>
    BY <1>5, <1>T DEF Reconcile, Phases, WorkInv
  <2>2. CASE pc' = "slotWrite" /\ slotGen' = slot.gen /\ slotGen' < MaxGen /\ slotGen' \in 0..MaxGen /\ UNCHANGED <<state, snap, shown>>
    BY <1>T, <2>1, <2>2 DEF HandleInv, TypeOK, Phases, WorkInv, StreamInv, HealthyIsCurrent
  <2>3. CASE state' = Closed /\ pc' = "idle" /\ UNCHANGED <<snap, slotGen, shown>>
    BY <1>T, <2>1, <2>3 DEF HandleInv, TypeOK, Phases, WorkInv, StreamInv, HealthyIsCurrent
  <2>4. CASE slot # NoSlot /\ slot.root = work /\ Serve(slot.gen)
    <3>1. slot = [gen |-> slot.gen, root |-> work] /\ slot.gen \in 0..MaxGen
      BY <1>T, <2>4 DEF Slot
    <3> QED
      BY <1>R, <1>T, <2>1, <2>4, <3>1 DEF Serve, HandleInv, TypeOK, Phases, WorkInv, StreamInv,
         HealthyIsCurrent, Commits
  <2>5. CASE slot = NoSlot /\ pc' = "slotWrite" /\ slotGen' = 0 /\ UNCHANGED <<state, snap, shown>>
    BY <2>2, <2>5 DEF NoSlot
  <2>6. CASE slot # NoSlot /\ slot.gen < MaxGen /\ pc' = "slotWrite" /\ slotGen' = slot.gen /\ UNCHANGED <<state, snap, shown>>
    BY <1>T, <2>2, <2>6 DEF Slot
  <2> QED
    BY <1>5, <2>3, <2>4, <2>5, <2>6 DEF Reconcile
<1>6. ASSUME NEW c \in Commit, BeginCommit(c) PROVE HandleInv'
  <2>1. /\ state = Healthy /\ pc = "idle" /\ slotGen < MaxGen /\ Len(stream) < MaxSeq
        /\ state' = Unknown /\ pc' = "marker"
        /\ work' = [snap EXCEPT !.at = Append(snap.at, c)]
        /\ UNCHANGED <<durable, owner, snap, slotGen, reader, promised, shown, faults>>
    BY <1>6 DEF BeginCommit, Writable
  <2>2. snap.at = stream /\ slot = Named(slotGen, snap)
    BY <1>T, <2>1 DEF HealthyIsCurrent, Named
  <2>3. Commits(Append(snap.at, c))
    BY <1>T, <2>1, <2>2 DEF Commits
  <2>4. IsRoot(work') /\ work'.at = Append(stream, c)
    BY <1>T, <2>1, <2>2, <2>3, RootsBuilt
  <2> QED
    BY <1>T, <2>1, <2>2, <2>4 DEF HandleInv, TypeOK, Phases, WorkInv, StreamInv, HealthyIsCurrent, Named
<1>7. CASE RefuseCommit
  BY <1>7, <1>T DEF RefuseCommit, At, HandleInv, TypeOK, Phases, WorkInv, StreamInv,
     HealthyIsCurrent, Named
<1>8. CASE AppendMarker
  <2>1. /\ pc = "marker" /\ pc' = "d2" /\ state = Unknown /\ slotGen < MaxGen
        /\ UNCHANGED <<synced, stored, slot, slotDisk, state, owner, work, snap, slotGen,
                       reader, promised, shown, faults>>
    BY <1>8, <1>T DEF AppendMarker, At, Phases
  <2>2. PICK c \in Commit : work.at = Append(stream, c)
    BY <1>T, <2>1 DEF WorkInv
  <2>3. Last(work.at) = c
    BY <1>T, <2>2 DEF Last
  <2>4. stream' = work.at /\ Commits(stream') /\ Len(stream') = Len(stream) + 1
    BY <1>8, <1>R, <1>T, <2>2, <2>3 DEF AppendMarker, Commits
  <2> QED
    BY <1>T, <2>1, <2>4 DEF HandleInv, TypeOK, Phases, WorkInv, StreamInv, HealthyIsCurrent
<1>9. CASE D2
  BY <1>9, <1>T DEF D2, At, HandleInv, TypeOK, Phases, WorkInv, StreamInv, HealthyIsCurrent, Commits
<1>10. CASE PublishManifest
  BY <1>10, <1>T DEF PublishManifest, At, HandleInv, TypeOK, Phases, WorkInv, StreamInv, HealthyIsCurrent
<1>11. CASE BeginCompact
  <2>1. IsRoot(work') /\ work'.at = snap.at
    BY <1>11, <1>T, RootsBuilt DEF BeginCompact
  <2> QED
    BY <1>11, <1>T, <2>1 DEF BeginCompact, Writable, HandleInv, TypeOK, Phases, WorkInv, StreamInv,
       HealthyIsCurrent
<1>12. CASE PublishCompacted
  BY <1>12, <1>T DEF PublishCompacted, At, HandleInv, TypeOK, Phases, WorkInv, StreamInv, HealthyIsCurrent
<1>13. CASE SlotWrite
  <2>1. /\ pc = "slotWrite" /\ pc' = "slotSync" /\ slotGen < MaxGen /\ state \in {Opening, Fenced, Unknown}
        /\ slot' = Named(slotGen + 1, work) /\ work.at = stream
        /\ UNCHANGED <<stream, synced, stored, slotDisk, state, owner, work, snap, slotGen,
                       reader, promised, shown, faults>>
    BY <1>13, <1>T DEF SlotWrite, At, Phases, WorkInv, Named, TypeOK
  <2>2. slot' \in Slot /\ IsRoot(slot'.root)
    BY <1>T, <2>1 DEF Named, Slot, IsRoot, TypeOK
  <2> QED
    BY <1>T, <2>1, <2>2 DEF HandleInv, TypeOK, Phases, WorkInv, StreamInv, HealthyIsCurrent
<1>14. CASE SlotSync
  <2>1. /\ pc = "slotSync" /\ slotGen < MaxGen /\ slot = Named(slotGen + 1, work) /\ work.at = stream
        /\ slotDisk' = slot /\ Serve(slotGen + 1)
        /\ UNCHANGED <<stream, synced, stored, slot, owner, work, reader, promised, faults>>
    BY <1>14, <1>T DEF SlotSync, Phases, WorkInv
  <2>2. slotGen + 1 \in 0..MaxGen
    BY <1>T, <2>1 DEF TypeOK
  <2> QED
    BY <1>R, <1>T, <2>1, <2>2 DEF Serve, Named, HandleInv, TypeOK, Phases, WorkInv, StreamInv,
       HealthyIsCurrent, Commits
<1>15. CASE ReadSlot \/ ScanChain \/ ReaderLeaves
  <2>1. UNCHANGED <<durable, handle, promised, shown, faults>> /\ rpc' \in {"idle", "scan", "bind", "view", "refused"}
    BY <1>15 DEF ReadSlot, ScanChain, ReaderLeaves
  <2>2. (rroot' = NoRoot \/ IsRoot(rroot')) /\ Commits(rfloor')
    BY <1>15, <1>T DEF ReadSlot, ScanChain, ReaderLeaves, TypeOK, NoSlot
  <2>3. TypeOK'
    BY <2>1, <2>2 DEF HandleInv, TypeOK
  <2> QED
    BY <2>1, <2>3, HandleKept
<1>16. CASE ReaderBind
  BY <1>16, <1>T DEF ReaderBind, BeginBind, HandleInv, TypeOK, Phases, WorkInv, StreamInv, HealthyIsCurrent
<1>17. CASE ReaderBound
  BY <1>17, <1>T DEF ReaderBound, HandleInv, TypeOK, Phases, WorkInv, StreamInv, HealthyIsCurrent
<1>18. CASE Close
  BY <1>18, <1>T DEF Close, HandleInv, TypeOK, Phases, WorkInv, StreamInv, HealthyIsCurrent
<1>19. CASE Interrupt
  BY <1>19, <1>T DEF Interrupt, Fault, At, HandleInv, TypeOK, Phases, WorkInv, StreamInv, HealthyIsCurrent
<1>20. CASE Die
  BY <1>20, <1>T DEF Die, Fault, HandleInv, TypeOK, Phases, WorkInv, StreamInv, HealthyIsCurrent
<1>21. CASE PowerLoss
  <2>1. PICK k \in synced..Len(stream) : stream' = SubSeq(stream, 1, k) /\ synced' = k
    BY <1>21 DEF PowerLoss
  <2>2. k \in 0..Len(stream)
    BY <1>T DEF TypeOK
  <2>3. Commits(stream') /\ Len(stream') = k
    BY <1>T, <2>1, <2>2 DEF Commits
  <2> QED
    BY <1>21, <1>T, <2>1, <2>2, <2>3 DEF PowerLoss, Fault, HandleInv, TypeOK, Phases, WorkInv,
       StreamInv, HealthyIsCurrent
<1>22. CASE UNCHANGED vars
  BY <1>22, HandleKept DEF vars, HandleInv, TypeOK
<1> QED
  BY <1>1, <1>2, <1>3, <1>4, <1>5, <1>6, <1>7, <1>8, <1>9, <1>10, <1>11, <1>12, <1>13, <1>14,
     <1>15, <1>16, <1>17, <1>18, <1>19, <1>20, <1>21, <1>22 DEF Next

\* The inductive invariant of the handle and of the stream beneath it.
THEOREM HandleInvariant == Spec => []HandleInv
  BY HandleInit, HandleNext, PTL DEF Spec

\* Every variable of the database keeps its type.
THEOREM DatabaseTypes == Spec => []TypeOK
<1>1. HandleInv => TypeOK
  BY DEF HandleInv
<1> QED
  BY <1>1, HandleInvariant, PTL

\* A handle that serves reads has folded every commit there is, and the slot names
\* its root, under any faults (pinned_read_view, commit_template_inner).
THEOREM HealthyHandlesAreCurrent == Spec => []HealthyIsCurrent
<1>1. HandleInv => HealthyIsCurrent
  BY DEF HandleInv
<1> QED
  BY <1>1, HandleInvariant, PTL

-----------------------------------------------------------------------------
(***************************************************************************)
(* The stream                                                              *)
(***************************************************************************)

\* Every step grows the stream by one commit, promises it, loses commits that
\* were not promised, or leaves it alone.
LEMMA StreamStep ==
    ASSUME HandleInv, [Next]_vars
    PROVE  [Stream!StreamNext]_(Stream!streamVars)
<1> USE DEF Stream!StreamNext, Stream!streamVars, Stream!Grow, Stream!Promise, Stream!Lose
<1>T. /\ stream \in Seq(Commit) /\ promised \in Seq(Commit) /\ synced \in Nat
      /\ WorkInv /\ StreamInv
  BY DEF HandleInv, TypeOK, Commits
<1>1. CASE AppendMarker
  <2>1. PICK c \in Commit : work.at = Append(stream, c)
    BY <1>1, <1>T DEF AppendMarker, At, WorkInv
  <2>2. Last(work.at) = c
    BY <1>T, <2>1 DEF Last
  <2> QED
    BY <1>1, <2>2 DEF AppendMarker
<1>2. CASE D2
  BY <1>2 DEF D2
<1>3. CASE PowerLoss
  <2>1. PICK k \in synced..Len(stream) : stream' = SubSeq(stream, 1, k)
    BY <1>3 DEF PowerLoss
  <2>2. k \in Len(promised)..Len(stream)
    BY <1>T DEF StreamInv
  <2> QED
    BY <1>3, <2>1, <2>2 DEF PowerLoss
<1>4. CASE UNCHANGED <<stream, promised>>
  BY <1>4
<1>5. AppendMarker \/ D2 \/ PowerLoss \/ UNCHANGED <<stream, promised>>
  BY DEF Next, vars, durable, Open, RecoverAuthoritatively, SelectCheckpoint, PublishRebuilt,
     Reconcile, BeginCommit, RefuseCommit, PublishManifest, BeginCompact, PublishCompacted,
     SlotWrite, SlotSync, ReadSlot, ScanChain, ReaderBind, ReaderBound, ReaderLeaves, Close,
     Interrupt, Die
<1> QED
  BY <1>1, <1>2, <1>3, <1>4, <1>5

\* Seen through the database, the commits are still the stream that CommitStream
\* promises, under any faults.
THEOREM DatabaseKeepsStream == Spec => KeepsStream
<1>1. Init => Stream!StreamInit
  BY DEF Init, Stream!StreamInit
<1>2. HandleInv /\ [Next]_vars => [Stream!StreamNext]_(Stream!streamVars)
  BY StreamStep
<1> QED
  BY <1>1, <1>2, HandleInvariant, PTL DEF Spec, KeepsStream, Stream!StreamSpec

-----------------------------------------------------------------------------
(***************************************************************************)
(* The slot                                                                *)
(***************************************************************************)

\* The commits of a slot, also of a missing one.
LEMMA SlotCommits ==
    ASSUME TypeOK
    PROVE  /\ slot.root.at \in Seq(Commit) /\ slotDisk.root.at \in Seq(Commit)
           /\ NoSlot.root.at = <<>>
<1>1. NoSlot.root.at = <<>> /\ <<>> \in Seq(Commit)
  BY DEF NoSlot, NoRoot
<1>2. \A s : IsRoot(s.root) => s.root.at \in Seq(Commit)
  BY DEF IsRoot, Root
<1>3. \A s \in {slot, slotDisk} : s = NoSlot \/ IsRoot(s.root)
  BY DEF TypeOK
<1> QED
  BY <1>1, <1>2, <1>3

\* The slot invariant holds initially.
LEMMA SlotInit == Init => SlotInv /\ ReaderInv
<1> SUFFICES ASSUME Init PROVE SlotInv /\ ReaderInv
  OBVIOUS
<1>1. <<>> \in Seq(Commit) /\ Len(<<>>) = 0 /\ IsPrefix(<<>>, <<>>)
  BY DEF IsPrefix
<1>2. slot.root.at = <<>> /\ slotDisk.root.at = <<>>
  BY DEF Init, NoSlot, NoRoot
<1> QED
  BY <1>1, <1>2 DEF Init, SlotInv, ReaderInv, SlotNeverAhead, SlotLagsByAtMostOne

\* Whatever keeps the durable state and what was served keeps the slot's place.
LEMMA SlotKept ==
    ASSUME SlotInv, UNCHANGED <<stream, synced, slot, slotDisk, shown>>, stored \subseteq stored',
           pc = "d2" => pc' = "d2" \/ synced = Len(stream),
           pc = "slotSync" => pc' = "slotSync" \/ slot = slotDisk,
           pc' \in {"reconcile", "slotWrite", "slotSync"} => work' \in stored'
    PROVE  SlotInv'
  BY DEF SlotInv, SlotNeverAhead, SlotLagsByAtMostOne, Bound

\* Every step preserves the slot invariant, under one kind of fault.
LEMMA SlotNext ==
    ASSUME HandleInv, SlotInv, OneKind, [Next]_vars
    PROVE  SlotInv'
<1> USE DEF durable, handle, reader
<1>H. HandleInv'
  BY HandleNext
<1>T. /\ stream \in Seq(Commit) /\ shown \in Seq(Commit) /\ synced \in Nat
      /\ slot.root.at \in Seq(Commit) /\ slotDisk.root.at \in Seq(Commit)
      /\ work.at \in Seq(Commit)
      /\ Phases /\ WorkInv /\ StreamInv
  BY SlotCommits DEF HandleInv, TypeOK, Commits, IsRoot, Root
<1>B. IsPrefix(slot.root.at, stream) /\ IsPrefix(slotDisk.root.at, stream)
  BY <1>T, SlotCommits, PrefixItself DEF SlotInv, SlotNeverAhead, Bound, HandleInv
<1>1. CASE Open \/ RecoverAuthoritatively \/ RefuseCommit \/ ReadSlot \/ ScanChain \/ ReaderBind
           \/ ReaderBound \/ ReaderLeaves \/ Close \/ BeginCompact \/ \E c \in Commit : BeginCommit(c)
  <2>1. /\ UNCHANGED <<durable, shown>> /\ (pc \in {"idle", "marker"} \/ pc' = pc)
        /\ (pc' = pc /\ work' = work) \/ pc' \in {"select", "rebuild", "idle", "compact", "marker"}
    BY <1>1, <1>T DEF Open, RecoverAuthoritatively, BeginBind, RefuseCommit, ReadSlot, ScanChain, ReaderBind,
       ReaderBound, ReaderLeaves, Close, BeginCompact, BeginCommit, Writable, At, Phases
  <2> QED
    BY <2>1, SlotKept DEF SlotInv
<1>2. CASE SelectCheckpoint
  <2>1. pc = "select" /\ UNCHANGED <<durable, shown>> /\ pc' \in {"idle", "rebuild", "reconcile"}
    BY <1>2 DEF SelectCheckpoint, Refuse
  <2>2. pc' = "reconcile" => work' \in stored
    <3> SUFFICES ASSUME pc' = "reconcile" PROVE work' \in stored
      OBVIOUS
    <3>1. /\ slot # NoSlot /\ slot.root \in stored /\ Bound(slot.root)
          /\ work' = [slot.root EXCEPT !.at = @ \o Suffix(slot.root)]
          /\ Suffix(slot.root) = <<>>
      BY <1>2 DEF SelectCheckpoint, Refuse
    <3>2. IsRoot(slot.root) /\ Commits(stream)
      BY <3>1 DEF HandleInv, TypeOK
    <3>3. work' = slot.root
      BY <3>1, <3>2, ExtendedRoot
    <3> QED
      BY <3>1, <3>3
  <2> QED
    BY <2>1, <2>2, SlotKept
<1>3. CASE PublishRebuilt \/ PublishManifest \/ PublishCompacted
  <2>1. /\ UNCHANGED <<stream, synced, slot, slotDisk, shown, work>> /\ stored' = stored \cup {work}
        /\ pc \in {"rebuild", "manifest", "compact"}
    BY <1>3 DEF PublishRebuilt, PublishManifest, PublishCompacted, At
  <2> QED
    BY <2>1, SlotKept
<1>4. CASE Interrupt \/ Die
  <2>1. UNCHANGED <<durable, shown>> /\ pc' = "idle" /\ "process" \in Faults
    BY <1>4 DEF Interrupt, Die, At, Fault
  <2> QED
    BY <2>1 DEF SlotInv, SlotNeverAhead, SlotLagsByAtMostOne, Bound
<1>5. CASE UNCHANGED vars
  BY <1>5, SlotKept DEF vars, SlotInv
<1>6. CASE Reconcile
  <2>1. pc = "reconcile" /\ UNCHANGED <<durable, work>> /\ work \in stored
    BY <1>6 DEF Reconcile, SlotInv
  <2>2. CASE shown' = shown
    BY <2>1, <2>2, SlotKept
  <2>3. CASE slot.root = work /\ Serve(slot.gen)
    <3>1. shown' = slot.root.at /\ pc' = "idle"
      BY <2>3 DEF Serve
    <3>2. IsPrefix(shown', slot.root.at) /\ ("process" \notin Faults => IsPrefix(shown', slotDisk.root.at))
      BY <1>T, <2>1, <3>1, PrefixItself DEF SlotInv
    <3> QED
      BY <2>1, <3>1, <3>2 DEF SlotInv, SlotNeverAhead, SlotLagsByAtMostOne, Bound
  <2> QED
    BY <1>6, <2>2, <2>3 DEF Reconcile
<1>7. CASE AppendMarker
  <2>1. /\ pc = "marker" /\ pc' = "d2" /\ UNCHANGED <<synced, stored, slot, slotDisk, shown>>
        /\ slot = Named(slotGen, snap) /\ snap.at = stream
    BY <1>7, <1>T DEF AppendMarker, At, WorkInv
  <2>2. PICK c \in Commit : stream' = Append(stream, c)
    BY <1>7, StreamStep DEF AppendMarker, At, Stream!StreamNext, Stream!streamVars, Stream!Grow,
       Stream!Promise, Stream!Lose
  <2>3. IsPrefix(slot.root.at, stream') /\ IsPrefix(slotDisk.root.at, stream')
    BY <1>B, <1>T, <2>2, PrefixGrows
  <2>4. Len(stream') = Len(slot.root.at) + 1
    BY <1>T, <2>1, <2>2 DEF Named
  <2> QED
    BY <2>1, <2>3, <2>4 DEF SlotInv, SlotNeverAhead, SlotLagsByAtMostOne, Bound
<1>8. CASE D2
  <2>1. /\ pc = "d2" /\ pc' = "manifest" /\ synced' = Len(stream)
        /\ UNCHANGED <<stream, stored, slot, slotDisk, shown>>
    BY <1>8 DEF D2, At
  <2>2. Len(slot.root.at) <= Len(stream) /\ Len(slotDisk.root.at) <= Len(stream)
    BY <1>B DEF IsPrefix
  <2> QED
    BY <2>1, <2>2 DEF SlotInv, SlotNeverAhead, SlotLagsByAtMostOne, Bound
<1>9. CASE SlotWrite
  <2>1. /\ pc = "slotWrite" /\ pc' = "slotSync" /\ slot' = Named(slotGen + 1, work)
        /\ work.at = stream /\ work \in stored
        /\ UNCHANGED <<stream, synced, stored, slotDisk, shown, work>>
    BY <1>9, <1>T DEF SlotWrite, At, WorkInv, Named, SlotInv
  <2>2. slot'.root = work
    BY <2>1 DEF Named
  <2>3. IsPrefix(stream, stream) /\ IsPrefix(shown, stream)
    BY <1>B, <1>T, PrefixItself, PrefixTransitive DEF SlotInv
  <2>4. Len(stream) \in Nat
    BY <1>T
  <2> QED
    BY <2>1, <2>2, <2>3, <2>4 DEF SlotInv, SlotNeverAhead, SlotLagsByAtMostOne, Bound
<1>10. CASE SlotSync
  <2>1. /\ pc = "slotSync" /\ pc' = "idle" /\ slot = Named(slotGen + 1, work)
        /\ work.at = stream /\ slotDisk' = slot /\ shown' = work.at
        /\ UNCHANGED <<stream, synced, stored, slot>>
    BY <1>10, <1>T DEF SlotSync, Serve, WorkInv
  <2>2. slot.root.at = stream
    BY <2>1 DEF Named
  <2>3. IsPrefix(stream, stream)
    BY <1>T, PrefixItself
  <2>4. Len(stream) \in Nat
    BY <1>T
  <2> QED
    BY <2>1, <2>2, <2>3, <2>4 DEF SlotInv, SlotNeverAhead, SlotLagsByAtMostOne, Bound
<1>11. CASE PowerLoss
  <2>1. "process" \notin Faults
    BY <1>11, DatabaseAssumption DEF PowerLoss, Fault, OneKind, DatabaseAssumption
  <2>2. PICK k \in synced..Len(stream) : stream' = SubSeq(stream, 1, k) /\ synced' = k
    BY <1>11 DEF PowerLoss
  <2>3. k \in 0..Len(stream) /\ Len(stream') = k /\ synced <= k
    BY <1>T, <2>2
  <2>4. ASSUME NEW s \in {slot, slotDisk}
        PROVE  /\ s # NoSlot => s.root \in stored /\ IsPrefix(s.root.at, stream')
               /\ s # NoSlot => Len(stream') <= Len(s.root.at) + 1
               /\ Len(s.root.at) <= k
               /\ IsPrefix(shown, s.root.at)
    <3>1. s.root.at \in Seq(Commit) /\ IsPrefix(s.root.at, stream) /\ Len(s.root.at) <= synced
      BY <1>B, <1>T, <2>1 DEF SlotInv
    <3>2. PICK p \in Seq(Commit) : p = s.root.at
      BY <3>1
    <3>3. IsPrefix(p, stream') /\ Len(p) <= k
      BY <1>T, <2>2, <2>3, <3>1, <3>2, PrefixKept
    <3>4. s # NoSlot => Len(stream') <= Len(s.root.at) + 1
      BY <1>T, <2>1, <2>3, <3>1 DEF SlotInv, SlotLagsByAtMostOne
    <3> QED
      BY <2>1, <3>2, <3>3, <3>4 DEF SlotInv, SlotNeverAhead
  <2>5. /\ slot' \in {slot, slotDisk} /\ slotDisk' = slot' /\ pc' = "idle"
        /\ UNCHANGED <<stored, shown>>
    BY <1>11 DEF PowerLoss
  <2> QED
    BY <2>2, <2>3, <2>4, <2>5 DEF SlotInv, SlotNeverAhead, SlotLagsByAtMostOne, Bound
<1> QED
  BY <1>1, <1>2, <1>3, <1>4, <1>5, <1>6, <1>7, <1>8, <1>9, <1>10, <1>11 DEF Next

-----------------------------------------------------------------------------
(***************************************************************************)
(* Readers                                                                 *)
(***************************************************************************)

\* Every step preserves what a reader has gathered so far.
LEMMA ReaderNext ==
    ASSUME HandleInv, SlotInv, ReaderInv, [Next]_vars
    PROVE  ReaderInv'
<1> USE DEF durable, handle, reader
<1>T. /\ stream \in Seq(Commit) /\ shown \in Seq(Commit) /\ rfloor \in Seq(Commit)
      /\ slot.root.at \in Seq(Commit)
      /\ NoRoot.at = <<>> /\ NoSlot.root = NoRoot
      /\ rpc \in {"idle", "scan", "bind", "opening", "view", "refused"}
  BY SlotCommits DEF HandleInv, TypeOK, Commits, NoRoot, NoSlot
<1>R. rroot.at \in Seq(Commit)
  <2>1. rroot = NoRoot \/ rroot \in Root
    BY DEF HandleInv, TypeOK, IsRoot
  <2>2. <<>> \in Seq(Commit) /\ \A r \in Root : r.at \in Seq(Commit)
    BY DEF Root
  <2> QED
    BY <1>T, <2>1, <2>2
<1>1. CASE ReadSlot
  <2>1. IsPrefix(slot.root.at, stream)
    BY <1>T, PrefixItself DEF SlotInv, SlotNeverAhead, Bound
  <2>2. IsPrefix(shown, stream)
    BY <1>T, <2>1, PrefixTransitive DEF SlotInv
  <2>3. /\ rpc' = IF slot = NoSlot THEN "bind" ELSE "scan"
        /\ rroot' = slot.root /\ rfloor' = shown /\ stream' = stream
    BY <1>1 DEF ReadSlot, SlotInv, SlotNeverAhead
  <2> QED
    BY <1>T, <2>1, <2>2, <2>3 DEF ReaderInv, SlotInv, Bound
<1>2. CASE ScanChain
  BY <1>2 DEF ScanChain, ReaderInv, Bound
<1>3. CASE ReaderBind
  BY <1>3 DEF ReaderBind, ReaderInv, Bound
<1>4. CASE ReaderBound
  <2>1. CASE rpc' = "idle"
    BY <2>1 DEF ReaderInv
  <2>2. CASE state = Healthy /\ rpc' = "view" /\ rroot' = snap
    <3>1. snap.at = stream /\ stream' = stream /\ rfloor' = rfloor /\ rpc # "idle"
      BY <1>4, <2>2 DEF ReaderBound, HandleInv, HealthyIsCurrent
    <3>2. IsPrefix(stream, stream)
      BY <1>T, PrefixItself
    <3> QED
      BY <2>2, <3>1, <3>2 DEF ReaderInv, Bound
  <2> QED
    BY <1>4, <2>1, <2>2 DEF ReaderBound
<1>5. CASE ReaderLeaves \/ PowerLoss
  BY <1>5 DEF ReaderLeaves, PowerLoss, ReaderInv
<1>6. CASE AppendMarker
  <2>1. PICK c \in Commit : stream' = Append(stream, c)
    BY <1>6, StreamStep DEF AppendMarker, At, Stream!StreamNext, Stream!streamVars, Stream!Grow,
       Stream!Promise, Stream!Lose
  <2>2. /\ IsPrefix(rfloor, stream) => IsPrefix(rfloor, stream')
        /\ IsPrefix(rroot.at, stream) => IsPrefix(rroot.at, stream')
    <3>1. \A p \in Seq(Commit) : IsPrefix(p, stream) => IsPrefix(p, stream')
      BY <1>T, <2>1, PrefixGrows
    <3> QED
      BY <1>R, <1>T, <3>1
  <2> QED
    BY <1>6, <2>2 DEF AppendMarker, ReaderInv, Bound
<1>7. CASE UNCHANGED <<stream, reader>>
  BY <1>7 DEF ReaderInv, Bound
<1>8. \/ ReadSlot \/ ScanChain \/ ReaderBind \/ ReaderBound \/ ReaderLeaves \/ PowerLoss
      \/ AppendMarker \/ UNCHANGED <<stream, reader>>
  BY DEF Next, vars, Open, RecoverAuthoritatively, SelectCheckpoint, PublishRebuilt,
     Reconcile, BeginCommit, RefuseCommit, D2, PublishManifest, BeginCompact, PublishCompacted,
     SlotWrite, SlotSync, Close, Interrupt, Die
<1> QED
  BY <1>1, <1>2, <1>3, <1>4, <1>5, <1>6, <1>7, <1>8

\* Under one kind of fault the slot stays in its place and readers hold what they
\* should: the inductive invariant of the database.
THEOREM DatabaseInvariant == OneKind => (Spec => []DatabaseInv)
<1> SUFFICES ASSUME OneKind PROVE Spec => []DatabaseInv
  OBVIOUS
<1>1. Init => DatabaseInv
  BY HandleInit, SlotInit DEF DatabaseInv
<1>2. DatabaseInv /\ [Next]_vars => DatabaseInv'
  BY HandleNext, SlotNext, ReaderNext DEF DatabaseInv
<1> QED
  BY <1>1, <1>2, PTL DEF Spec

\* "There is no window where it runs ahead" (commit_template_inner), as long as
\* processes fail or power is lost, but not both.
THEOREM SlotsNeverRunAhead == OneKind => (Spec => []SlotNeverAhead)
<1>1. DatabaseInv => SlotNeverAhead
  BY DEF DatabaseInv, SlotInv
<1> QED
  BY <1>1, DatabaseInvariant, PTL

\* A crash leaves the slot at most one publication behind, however often opens,
\* recoveries and commits are cut short.
THEOREM SlotsLagByAtMostOne == OneKind => (Spec => []SlotLagsByAtMostOne)
<1>1. DatabaseInv => SlotLagsByAtMostOne
  BY DEF DatabaseInv, SlotInv
<1> QED
  BY <1>1, DatabaseInvariant, PTL

\* The slot that a reader read never disagrees with the chain that it scans
\* afterwards, whatever writers and healers do meanwhile (read_current_generation).
THEOREM ReadersNeverRefused == OneKind => (Spec => []ReaderNeverRefused)
<1>1. DatabaseInv => ReaderNeverRefused
  BY DEF DatabaseInv, ReaderInv, ReaderNeverRefused
<1> QED
  BY <1>1, DatabaseInvariant, PTL

\* A reader's view holds every commit served when it began, and nothing that is
\* not committed (open_read_view_with_vfs).
THEOREM ViewsAreFresh == OneKind => (Spec => []ViewIsFresh)
<1>1. DatabaseInv => ViewIsFresh
  BY DEF DatabaseInv, ReaderInv, ViewIsFresh, Bound
<1> QED
  BY <1>1, DatabaseInvariant, PTL
=============================================================================
