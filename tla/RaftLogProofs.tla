---------------------------- MODULE RaftLogProofs ---------------------------
(***************************************************************************)
(* The rest of what Raft does to a member's own log: appends, replies,     *)
(* snapshots, handoffs and publications. LogInv is inductive, and implies  *)
(* StepNeverFails and RootsAlwaysOpen.                                     *)
(***************************************************************************)
EXTENDS RaftLogs

-----------------------------------------------------------------------------
(* Appends *)

(* What validate_event lets through of an append joins the log.            *)
LEMMA AdmittedAppend ==
    ASSUME NEW n, RootOK(n), NEW m, Typed(m), m.type = "Append", ~Malformed(m),
           m.term >= n.term, HasTerm(n, m.prevIndex, m.prevTerm),
           ~LogFull(n, m), ~CommittedConflict(n, m)
    PROVE  JoinsAt(n, m, m.prevIndex - n.snap.index)
<1> DEFINE at == m.prevIndex - n.snap.index
           base == n.snap.index
           size == Len(n.log)
           prev == m.prevIndex
           count == Len(m.entries)
           commit == n.commit
<1>1. base \in Nat /\ size \in Nat /\ prev \in Nat /\ count \in Nat /\ commit \in Nat
    BY DEF RootOK, Typed
<1>2. prev \in base..(base + size)
    BY DEF HasTerm, Retained, LastIndex
<1>3. at = prev - base
    OBVIOUS
<1>4. ~(prev + count - base > MaxLogEntries)
    BY DEF LogFull, Continues
<1>5. \A k \in 1..count :
          prev + k \in (base + 1)..commit => TermAt(n, prev + k) = m.entries[k].term
    BY DEF CommittedConflict, Continues
<1>6. TermAt(n, prev) = m.prevTerm
    BY DEF HasTerm
<1>7. \A k : TermAt(n, k) = IF k = base THEN n.snap.term ELSE n.log[k - base].term
    BY DEF TermAt
<1>8. MaxLogEntries \in Nat
    BY KernelAssumption DEF KernelAssumption
<1> HIDE DEF at, base, size, prev, count, commit
<1>9. at \in 0..size /\ prev = base + at /\ at + count <= MaxLogEntries
    BY <1>1, <1>2, <1>3, <1>4, <1>8
<1>10. m.prevTerm = IF at = 0 THEN n.snap.term ELSE n.log[at].term
    <2>1. (prev = base <=> at = 0) /\ prev - base = at
        BY <1>1, <1>9
    <2> QED
        BY <1>6, <1>7, <2>1
<1>11. ASSUME NEW k \in 1..count, base + at + k <= commit
       PROVE  n.log[at + k].term = m.entries[k].term
    <2>1. prev + k \in (base + 1)..commit /\ prev + k # base /\ (prev + k) - base = at + k
        BY <1>1, <1>9, <1>11
    <2> QED
        <3>1. TermAt(n, prev + k) = m.entries[k].term
            BY <1>5, <1>11, <2>1
        <3>2. TermAt(n, prev + k)
                = IF prev + k = base THEN n.snap.term ELSE n.log[(prev + k) - base].term
            BY <1>7
        <3> QED
            BY <2>1, <3>1, <3>2
<1>12. Nondecreasing(m.prevTerm, m.entries, m.term)
    BY DEF Malformed
<1>13. JoinsAt(n, m, at)
    BY <1>9, <1>10, <1>11, <1>12 DEF JoinsAt, base, size, prev, count, commit
<1> QED
    BY <1>13 DEF at

(* An append that is not refused leaves a log that opens: it fits, its     *)
(* terms never decrease, and nothing committed is cut off.                 *)
LEMMA AppendedLog ==
    ASSUME Grounds, NEW n, RootOK(n), NEW m, Typed(m), m.type = "Append", ~Malformed(m),
           m.term >= n.term, HasTerm(n, m.prevIndex, m.prevTerm),
           ~LogFull(n, m), ~CommittedConflict(n, m)
    PROVE  LET s == Spliced(n.log, m.prevIndex - n.snap.index, m.entries)
           IN  /\ s \in Seq(Entry) /\ Len(s) <= MaxLogEntries
               /\ Nondecreasing(n.snap.term, s, m.term)
               /\ m.prevIndex + Len(m.entries) <= n.snap.index + Len(s)
               /\ n.commit <= n.snap.index + Len(s)
<1> DEFINE at == m.prevIndex - n.snap.index
           s == Spliced(n.log, at, m.entries)
<1>1. /\ n.log \in Seq(Entry) /\ m.entries \in Seq(Entry) /\ n.term \in Nat
      /\ n.snap.index \in Nat /\ n.commit \in Nat /\ m.term \in Nat
      /\ n.snap.term \in Nat /\ Len(n.log) <= MaxLogEntries /\ MaxLogEntries \in Nat
      /\ n.commit <= n.snap.index + Len(n.log)
      /\ Nondecreasing(n.snap.term, n.log, n.term)
    BY KernelAssumption DEF RootOK, Typed, ValidRoot, LastIndex, KernelAssumption
<1>2. /\ at \in 0..Len(n.log) /\ m.prevIndex = n.snap.index + at
      /\ m.prevTerm = IF at = 0 THEN n.snap.term ELSE n.log[at].term
      /\ Nondecreasing(m.prevTerm, m.entries, m.term)
      /\ at + Len(m.entries) <= MaxLogEntries
      /\ \A k \in 1..Len(m.entries) :
             n.snap.index + at + k <= n.commit => n.log[at + k].term = m.entries[k].term
    <2>1. JoinsAt(n, m, at)
        BY AdmittedAppend, Zenon
    <2> HIDE DEF at
    <2> QED
        BY <2>1 DEF JoinsAt
<1> HIDE DEF at
<1>3. Nondecreasing(n.snap.term, n.log, m.term)
    BY <1>1, TermMayRise
<1>4. m.prevTerm \in Nat
    <2>1. at # 0 => n.log[at] \in Entry
        BY <1>1, <1>2
    <2> QED
        BY <1>1, <1>2, <2>1 DEF Entry
<1>5. Nondecreasing(n.snap.term, s, m.term)
    BY <1>1, <1>2, <1>3, <1>4, SplicedNondecreasing, Zenon
<1>6. /\ s \in Seq(Entry) /\ Len(s) <= MaxLogEntries
      /\ at + Len(m.entries) <= Len(s) /\ n.commit <= n.snap.index + Len(s)
    BY <1>1, <1>2, SplicedFits, Zenon
<1> HIDE DEF s
<1>7. m.prevIndex + Len(m.entries) <= n.snap.index + Len(s)
    <2> DEFINE base == n.snap.index
               count == Len(m.entries)
    <2>1. base \in Nat /\ Len(n.log) \in Nat /\ count \in Nat
        BY <1>1, SMTT(30)
    <2>4. at \in 0..Len(n.log) /\ s \in Seq(Entry)
        BY <1>2, <1>6, Zenon
    <2>5. at \in Nat /\ Len(s) \in Nat
        BY <2>1, <2>4
    <2>2. m.prevIndex = base + at /\ at + count <= Len(s)
        BY <1>2, <1>6
    <2> HIDE DEF base, count
    <2>3. m.prevIndex + count <= base + Len(s)
        BY <2>1, <2>2, <2>5
    <2> QED
        BY <2>3 DEF base, count
<1> QED
    BY <1>5, <1>6, <1>7, SMTT(20) DEF s, at

(* An append that is not refused is good.                                  *)
LEMMA OnAppendGood ==
    ASSUME Grounds, NEW i \in Member, NEW n, LocalOK(n, i), NEW m, Typed(m), m.to = i,
           m.type = "Append", ~Malformed(m), ~LogFull(n, m), ~CommittedConflict(n, m)
    PROVE  Good(n, OnAppend(n, i, m), i)
<1> DEFINE a == AcceptLeader(n, m.from, m.term)
           matched == m.prevIndex + Len(m.entries)
           known == IF m.commit < matched THEN m.commit ELSE matched
           commit == IF known > n.commit THEN known ELSE n.commit
           L == Spliced(a.log, m.prevIndex - n.snap.index, m.entries)
           X == IF a.incoming # Nobody /\ a.incoming.snap.index <= commit
                THEN Nobody ELSE a.incoming
           b == [a EXCEPT !.log = L, !.commit = commit, !.incoming = X]
           refusal == Appended(n, i, m, FALSE, LastIndex(n) + 1)
           conflict == Appended(a, i, m, FALSE, ConflictNext(a, m.prevIndex))
           success == Appended(a, i, m, TRUE, 0)
<1>1. /\ m.from \in Member \ {i} /\ m.term \in Nat /\ m.prevIndex \in Nat
      /\ m.commit \in Nat /\ m.entries \in Seq(Entry)
    BY DEF Typed
<1>2. /\ RootOK(n) /\ n.term \in Nat /\ n.commit \in Nat /\ n.log \in Seq(Entry)
      /\ n.snap.index \in Nat
    BY DEF LocalOK, RootOK
<1>3. /\ Good(n, a, i) /\ a.log = n.log /\ a.snap = n.snap /\ a.commit = n.commit
      /\ a.term = IF m.term > n.term THEN m.term ELSE n.term
      /\ a.role = "Follower"
    BY <1>1, AcceptLeaderGood
<1>4. /\ OnAppend(n, i, m) = IF m.term < n.term THEN Emit(n, {refusal})
                             ELSE IF ~HasTerm(a, m.prevIndex, m.prevTerm)
                             THEN Emit(a, {conflict}) ELSE Emit(b, {success})
    BY DEF OnAppend
<1> HIDE DEF a
<1>5. Typed(refusal) /\ Typed(conflict) /\ Typed(success)
    <2>1. LastIndex(n) + 1 \in Nat
        BY <1>2 DEF LastIndex
    <2>2. RootOK(a) /\ a.term \in Nat
        BY <1>3 DEF Good, LocalOK, RootOK
    <2>3. ConflictNext(a, m.prevIndex) \in Nat
        BY <1>1, <2>2, ConflictNextNumber, Zenon
    <2> QED
        BY <1>1, <1>2, <2>1, <2>2, <2>3, AppendedTyped, ZenonT(30)
<1> HIDE DEF refusal, conflict, success
<1>6. Good(n, Emit(n, {refusal}), i)
    BY <1>5, EmitGood
<1>7. Good(n, Emit(a, {conflict}), i)
    <2>1. Good(a, Emit(a, {conflict}), i)
        BY <1>3, <1>5, EmitGood DEF Good
    <2> QED
        BY <1>3, <2>1, GoodTrans
<1>8. ASSUME ~(m.term < n.term), HasTerm(a, m.prevIndex, m.prevTerm)
      PROVE  Good(n, Emit(b, {success}), i)
    <2>1. m.term >= n.term /\ a.term = m.term
        BY <1>1, <1>2, <1>3, <1>8
    <2>2. HasTerm(n, m.prevIndex, m.prevTerm)
        BY <1>3, <1>8 DEF HasTerm, Retained, TermAt, LastIndex
    <2>3. L = Spliced(n.log, m.prevIndex - n.snap.index, m.entries)
        BY <1>3
    <2> HIDE DEF L
    <2>4. /\ L \in Seq(Entry) /\ Len(L) <= MaxLogEntries
          /\ Nondecreasing(n.snap.term, L, m.term)
          /\ matched <= n.snap.index + Len(L)
          /\ n.commit <= n.snap.index + Len(L)
        BY <1>2, <2>1, <2>2, <2>3, AppendedLog
    <2>5. matched \in Nat
        BY <1>1
    <2> HIDE DEF matched
    <2>6. /\ commit \in Nat /\ commit >= n.commit /\ commit <= n.snap.index + Len(L)
        BY <1>1, <1>2, <2>4, <2>5, SMTT(30)
    <2> HIDE DEF commit
    <2>7. \/ X = Nobody
          \/ X = a.incoming /\ ~(X.snap.index <= commit)
        OBVIOUS
    <2> HIDE DEF X
    <2>8. /\ Shape(b) /\ b.log = L /\ b.commit = commit /\ b.incoming = X
          /\ b.role = a.role /\ b.voted = a.voted /\ b.term = a.term /\ b.snap = a.snap
          /\ b.prog = a.prog /\ b.handoff = a.handoff /\ b.out = a.out
        BY <1>3, ZenonT(30) DEF Good, LocalOK, Shape, Fields
    <2> HIDE DEF b
    <2>9. commit \in b.snap.index..LastIndex(b)
        <3>1. LastIndex(b) = n.snap.index + Len(L) /\ n.snap.index <= n.commit
            BY <1>2, <1>3, <2>8 DEF LastIndex, RootOK, ValidRoot
        <3>2. Len(L) \in Nat
            BY <2>4
        <3> QED
            BY <1>2, <1>3, <2>6, <2>8, <3>1, <3>2, SMTT(30)
    <2>10. RootOK(b)
        <3>1. RootOK(a)
            BY <1>3, SMTT(30) DEF Good, LocalOK
        <3> QED
            BY <1>3, <2>1, <2>4, <2>6, <2>8, <2>9, <3>1, SMTT(30) DEF RootOK, ValidRoot
    <2>11. WindowsOK(b, i) /\ Standing(b, i)
        BY <1>3, <2>8, SMTT(30) DEF Good, LocalOK, WindowsOK, Standing
    <2>12. IncomingOK(b, i)
        BY <1>3, <2>6, <2>7, <2>8, SMTT(30) DEF Good, LocalOK, IncomingOK
    <2>13. Good(n, b, i)
        BY <1>3, <2>6, <2>8, <2>10, <2>11, <2>12 DEF Good, Kept, LocalOK
    <2>14. Good(b, Emit(b, {success}), i)
        BY <1>5, <2>13, EmitGood DEF Good
    <2> QED
        BY <2>13, <2>14, GoodTrans
<1> HIDE DEF b
<1> QED
    BY <1>4, <1>6, <1>7, <1>8

-----------------------------------------------------------------------------
(* Replies to a leader *)

(* An acknowledgement leaves a window within the log.                      *)
LEMMA AckedOK ==
    ASSUME Grounds, NEW low \in Nat, NEW high \in Nat, NEW g, PeerOK(g, low, high),
           NEW last \in Nat, last <= high
    PROVE  PeerOK(Acked(g, last), low, high)
<1> DEFINE matched == IF last > g.matched THEN last ELSE g.matched
           next == IF g.next > matched THEN g.next ELSE matched + 1
           flight == {f \in g.flight : f.last > last}
           r == [g EXCEPT !.matched = matched, !.next = next, !.probing = FALSE,
                          !.flight = flight]
<1>1. Acked(g, last) = r
    BY DEF Acked
<1>2. /\ g \in Progress /\ IsFiniteSet(g.flight) /\ g.matched <= high /\ g.next <= high + 1
      /\ Within(g.flight, low, high)
    BY DEF PeerOK
<1>3. g.matched \in Nat /\ g.next \in Nat \ {0} /\ g.flight \in SUBSET Flight
    BY <1>2 DEF Progress
<1>4. matched \in Nat /\ matched <= high
    BY <1>2, <1>3
<1> HIDE DEF matched
<1>5. next \in Nat \ {0} /\ next <= high + 1
    BY <1>2, <1>3, <1>4
<1> HIDE DEF next
<1>6. flight \subseteq g.flight /\ flight \in SUBSET Flight /\ Within(flight, low, high)
    BY <1>2, <1>3 DEF Within
<1> HIDE DEF flight
<1>7. IsFiniteSet(flight)
    BY <1>2, <1>6, Zenon DEF Grounds, SetFacts
<1>8. /\ r \in Progress /\ r.matched = matched /\ r.next = next /\ r.flight = flight
    BY <1>2, <1>4, <1>5, <1>6, Zenon DEF Progress
<1> HIDE DEF r
<1> QED
    BY <1>1, <1>4, <1>5, <1>6, <1>7, <1>8 DEF PeerOK

(* So does a rejection, wherever its hint points.                          *)
LEMMA RejectedOK ==
    ASSUME Grounds, NEW low \in Nat, NEW high \in Nat, NEW g, PeerOK(g, low, high),
           NEW prev \in Nat, prev <= high, NEW conflictNext \in Nat
    PROVE  PeerOK(Rejected(g, prev, conflictNext, high + 1), low, high)
<1> DEFINE back == IF prev < 1 THEN 1 ELSE prev
           least == IF conflictNext < 1 THEN 1 ELSE conflictNext
           hint == IF conflictNext > prev + 1
                   THEN IF conflictNext < high + 1 THEN conflictNext ELSE high + 1
                   ELSE IF least < back THEN least ELSE back
           next == IF hint > g.matched THEN hint ELSE g.matched + 1
           r == [g EXCEPT !.next = next, !.flight = {}, !.probing = TRUE]
<1>1. Rejected(g, prev, conflictNext, high + 1) = r
    BY DEF Rejected
<1>2. g \in Progress /\ g.matched <= high
    BY DEF PeerOK
<1>3. g.matched \in Nat
    BY <1>2 DEF Progress
<1>4. hint \in Nat \ {0} /\ hint <= high + 1
    OBVIOUS
<1> HIDE DEF hint
<1>5. next \in Nat \ {0} /\ next <= high + 1
    BY <1>2, <1>3, <1>4
<1> HIDE DEF next
<1>6. IsFiniteSet({}) /\ Within({}, low, high)
    BY DEF Within, Grounds, SetFacts
<1>7. r \in Progress /\ r.matched = g.matched /\ r.next = next /\ r.flight = {}
    BY <1>2, <1>5, Zenon DEF Progress
<1> HIDE DEF r
<1> QED
    BY <1>1, <1>2, <1>5, <1>6, <1>7 DEF PeerOK

(* A leader that learns what a peer holds stays good, the broadcast or the *)
(* append that follows included.                                           *)
LEMMA AcknowledgeGood ==
    ASSUME Grounds, NEW i \in Member, NEW n, LocalOK(n, i), n.role = "Leader",
           NEW p \in Member \ {i}, NEW last \in Nat, last <= LastIndex(n)
    PROVE  Good(n, Acknowledge(n, i, p, last), i)
<1> DEFINE g == Acked(n.prog[p], last)
           a == SetProgress(n, p, g)
           c == AdvanceCommit(a, i)
           all == Broadcast(c, i, FALSE)
           one == SendAppend(a, i, p, FALSE)
<1>1. Acknowledge(n, i, p, last) \in {a, all, one}
    BY DEF Acknowledge
<1>2. n.snap.index \in Nat /\ LastIndex(n) \in Nat
    BY RootNumbers DEF LocalOK
<1>3. PeerOK(n.prog[p], n.snap.index, LastIndex(n))
    BY DEF LocalOK, WindowsOK
<1>4. PeerOK(g, n.snap.index, LastIndex(n))
    BY <1>2, <1>3, AckedOK
<1> HIDE DEF g
<1>5. Good(n, a, i) /\ a.role = "Leader"
    BY <1>4, SetProgressGood
<1> HIDE DEF a
<1>6. LocalOK(a, i)
    BY <1>5 DEF Good
<1>7. Good(a, c, i) /\ c.role = "Leader"
    BY <1>5, <1>6, AdvanceCommitGood
<1>8. Good(a, one, i)
    BY <1>5, <1>6, SendAppendGood, Zenon
<1> HIDE DEF c, one
<1>9. LocalOK(c, i)
    BY <1>7 DEF Good
<1>10. Good(c, all, i)
    BY <1>7, <1>9, BroadcastGood, Zenon
<1> HIDE DEF all
<1>11. Good(a, all, i)
    BY <1>6, <1>7, <1>10, GoodTrans
<1> QED
    BY <1>1, <1>5, <1>8, <1>11, GoodTrans

(* A reply to an append is good.                                           *)
LEMMA OnAppendedGood ==
    ASSUME Grounds, NEW i \in Member, NEW n, LocalOK(n, i),
           NEW m, Typed(m), m.to = i, m.type = "Appended"
    PROVE  Good(n, OnAppended(n, i, m), i)
<1> DEFINE p == m.from
           D == {h \in n.prog[p].flight : h.kind = "Append" /\ h.request = m.request}
           f == CHOOSE f \in n.prog[p].flight : f.kind = "Append" /\ f.request = m.request
           g == Rejected(n.prog[p], f.prev, m.conflictNext, LastIndex(n) + 1)
           a == SetProgress(n, p, g)
<1>1. p \in Member \ {i} /\ m.conflictNext \in Nat
    BY DEF Typed
<1>2. \/ OnAppended(n, i, m) = n
      \/ /\ n.role = "Leader"
         /\ \E h \in n.prog[p].flight : h.kind = "Append" /\ h.request = m.request
         /\ OnAppended(n, i, m) \in {Acknowledge(n, i, p, f.last), SendAppend(a, i, p, FALSE)}
    BY Zenon DEF OnAppended
<1> HIDE DEF p
<1>3. ASSUME n.role = "Leader",
             \E h \in n.prog[p].flight : h.kind = "Append" /\ h.request = m.request
      PROVE  /\ Good(n, Acknowledge(n, i, p, f.last), i)
             /\ Good(n, SendAppend(a, i, p, FALSE), i)
    <2>1. f \in n.prog[p].flight
        BY <1>3
    <2> HIDE DEF f
    <2>2. PeerOK(n.prog[p], n.snap.index, LastIndex(n))
        BY <1>1, <1>3 DEF LocalOK, WindowsOK
    <2>3. f \in Flight /\ f.prev <= f.last /\ f.last <= LastIndex(n)
        BY <2>1, <2>2 DEF PeerOK, Progress, Within
    <2>4. f.prev \in Nat /\ f.last \in Nat
        BY <2>3 DEF Flight
    <2>5. n.snap.index \in Nat /\ LastIndex(n) \in Nat
        BY RootNumbers DEF LocalOK
    <2>6. f.prev <= LastIndex(n)
        BY <2>3, <2>4, <2>5
    <2>7. PeerOK(g, n.snap.index, LastIndex(n))
        BY <1>1, <2>2, <2>4, <2>5, <2>6, RejectedOK, SMTT(30)
    <2> HIDE DEF g
    <2>8. Good(n, a, i) /\ a.role = "Leader"
        BY <1>1, <1>3, <2>7, SetProgressGood
    <2> HIDE DEF a
    <2>9. LocalOK(a, i)
        BY <2>8 DEF Good
    <2>10. Good(a, SendAppend(a, i, p, FALSE), i)
        BY <1>1, <2>8, <2>9, SendAppendGood, Zenon
    <2>11. Good(n, Acknowledge(n, i, p, f.last), i)
        BY <1>1, <1>3, <2>3, <2>4, AcknowledgeGood
    <2> QED
        BY <2>8, <2>10, <2>11, GoodTrans, Zenon
<1> HIDE DEF f, g, a
<1> QED
    BY <1>2, <1>3, GoodSelf, Zenon

(* So is the reply to a snapshot offer.                                    *)
LEMMA OnSnapshotInstalledGood ==
    ASSUME Grounds, NEW i \in Member, NEW n, LocalOK(n, i),
           NEW m, Typed(m), m.to = i, m.type = "SnapshotInstalled"
    PROVE  Good(n, OnSnapshotInstalled(n, i, m), i)
<1> DEFINE p == m.from
           g == n.prog[p]
           f == Front(g.flight)
<1>1. p \in Member \ {i}
    BY DEF Typed
<1>2. \/ OnSnapshotInstalled(n, i, m) = n
      \/ /\ n.role = "Leader" /\ g.flight # {}
         /\ OnSnapshotInstalled(n, i, m) = Acknowledge(n, i, p, f.last)
    BY DEF OnSnapshotInstalled, SnapshotFirst
<1> HIDE DEF p
<1>3. ASSUME n.role = "Leader", g.flight # {}
      PROVE  Good(n, Acknowledge(n, i, p, f.last), i)
    <2>1. PeerOK(g, n.snap.index, LastIndex(n))
        BY <1>1, <1>3 DEF LocalOK, WindowsOK
    <2> HIDE DEF g
    <2>2. g.flight \in SUBSET Flight
        BY <2>1 DEF PeerOK, Progress
    <2>3. f \in g.flight
        BY <1>3, <2>2, FrontIsInFlight
    <2> HIDE DEF f
    <2>4. f \in Flight /\ f.last <= LastIndex(n)
        BY <2>1, <2>2, <2>3 DEF PeerOK, Within
    <2>5. f.last \in Nat
        BY <2>4 DEF Flight
    <2> QED
        BY <1>1, <1>3, <2>4, <2>5, AcknowledgeGood
<1> HIDE DEF f, g
<1> QED
    BY <1>2, <1>3, GoodSelf

-----------------------------------------------------------------------------
(* Snapshots *)

(* A snapshot offer is good.                                               *)
LEMMA OnInstallSnapshotGood ==
    ASSUME NEW i \in Member, NEW n, LocalOK(n, i), NEW m, Typed(m), m.to = i,
           m.type = "InstallSnapshot", ~Malformed(m)
    PROVE  Good(n, OnInstallSnapshot(n, i, m), i)
<1> DEFINE a == AcceptLeader(n, m.from, m.term)
           refusal == Appended(n, i, m, FALSE, LastIndex(n) + 1)
           done == [type |-> "SnapshotInstalled", from |-> i, to |-> m.from,
                    term |-> m.term, request |-> m.request]
           offer == [source |-> m.from, term |-> m.term, request |-> m.request,
                     snap |-> m.snap]
           b == [a EXCEPT !.incoming = offer]
<1>1. /\ m.from \in Member \ {i} /\ m.term \in Nat
      /\ m.snap.index \in Nat /\ m.snap.term \in Nat /\ m.snap.term <= m.term
    BY DEF Typed, Malformed
<1>2. n.term \in Nat /\ n.commit \in Nat /\ LastIndex(n) + 1 \in Nat
    BY RootNumbers DEF LocalOK
<1>3. Good(n, a, i) /\ a.commit = n.commit /\ a.role = "Follower"
    BY <1>1, AcceptLeaderGood
<1>4. \/ OnInstallSnapshot(n, i, m) \in {Emit(n, {refusal}), Emit(a, {done}), a}
      \/ ~(m.snap.index <= n.commit) /\ OnInstallSnapshot(n, i, m) = b
    BY DEF OnInstallSnapshot
<1> HIDE DEF a
<1>5. Typed(refusal)
    BY <1>1, <1>2, AppendedTyped, ZenonT(30)
<1>6. Typed(done)
    BY <1>1 DEF Typed, Kinds
<1> HIDE DEF refusal, done
<1>7. Good(n, Emit(n, {refusal}), i)
    BY <1>5, EmitGood
<1>8. LocalOK(a, i)
    BY <1>3 DEF Good
<1>9. Good(a, Emit(a, {done}), i)
    BY <1>6, <1>8, EmitGood, SMTT(30)
<1>10. ASSUME ~(m.snap.index <= n.commit)
       PROVE  Good(n, b, i)
    <2>1. /\ Shape(b) /\ b.incoming = offer
          /\ b.log = a.log /\ b.commit = a.commit /\ b.role = a.role /\ b.voted = a.voted
          /\ b.term = a.term /\ b.snap = a.snap /\ b.prog = a.prog
          /\ b.handoff = a.handoff /\ b.out = a.out
        BY <1>8, Zenon DEF LocalOK, Shape, Fields
    <2>2. /\ offer.source = m.from /\ offer.term = m.term /\ offer.snap = m.snap
        BY SMTT(30)
    <2> HIDE DEF b, offer
    <2>3. RootOK(b)
        BY <1>8, <2>1 DEF LocalOK, RootOK, ValidRoot, LastIndex
    <2>4. LastIndex(b) = LastIndex(a)
        BY <2>1, SMTT(30) DEF LastIndex
    <2>5. WindowsOK(b, i) /\ Standing(b, i)
        BY <1>8, <2>1, <2>4, SMTT(20) DEF LocalOK, WindowsOK, Standing
    <2>6. IncomingOK(b, i)
        BY <1>1, <1>2, <1>3, <1>10, <2>1, <2>2 DEF IncomingOK
    <2> QED
        BY <1>3, <1>8, <2>1, <2>3, <2>5, <2>6 DEF Good, Kept, LocalOK
<1> HIDE DEF b
<1> QED
    BY <1>3, <1>4, <1>7, <1>9, <1>10, GoodTrans, SMTT(30)

(* The suffix of a log after one of its entries is a log.                  *)
LEMMA SuffixNondecreasing ==
    ASSUME NEW log \in Seq(Entry), NEW k \in 1..Len(log), NEW t, NEW top \in Nat,
           Nondecreasing(t, log, top)
    PROVE  LET s == SubSeq(log, k + 1, Len(log))
           IN  /\ s \in Seq(Entry) /\ Len(s) = Len(log) - k
               /\ Nondecreasing(log[k].term, s, top)
<1> DEFINE s == SubSeq(log, k + 1, Len(log))
<1>1. Len(log) \in Nat /\ k \in Nat /\ k + 1 \in 1..(Len(log) + 1)
    OBVIOUS
<1>2. /\ s \in Seq(Entry) /\ Len(s) = Len(log) - k
      /\ \A j \in 1..(Len(log) - k) : s[j] = log[k + j]
    OBVIOUS
<1> HIDE DEF s
<1>3. Nondecreasing(log[k].term, s, top)
    <2> SUFFICES ASSUME NEW j \in 1..Len(s)
                 PROVE  /\ s[j].term \in 1..top
                        /\ s[j].term >= IF j = 1 THEN log[k].term ELSE s[j - 1].term
        BY DEF Nondecreasing
    <2>1. j \in Nat /\ k + j \in 1..Len(log) /\ k + j # 1 /\ (k + j) - 1 = k + (j - 1)
        BY <1>1, <1>2
    <2>2. s[j] = log[k + j]
        BY <1>2
    <2>3. log[k + j].term \in 1..top /\ log[k + j].term >= log[(k + j) - 1].term
        BY <2>1 DEF Nondecreasing
    <2>4. CASE j = 1
        BY <2>1, <2>2, <2>3, <2>4, SMTT(30)
    <2>5. CASE j # 1
        <3>1. j - 1 \in 1..(Len(log) - k)
            BY <1>1, <1>2, <2>1, <2>5
        <3>2. s[j - 1] = log[k + (j - 1)]
            BY <1>2, <3>1, SMTT(30)
        <3> QED
            BY <2>1, <2>2, <2>3, <2>5, <3>2, SMTT(30)
    <2> QED
        BY <2>4, <2>5, SMTT(20)
<1> QED
    BY <1>2, <1>3 DEF s

(* A term of the retained log.                                             *)
LEMMA RetainedTerm ==
    ASSUME NEW n, RootOK(n), NEW k, k \in (n.snap.index + 1)..LastIndex(n)
    PROVE  /\ k - n.snap.index \in 1..Len(n.log)
           /\ TermAt(n, k) = n.log[k - n.snap.index].term
           /\ TermAt(n, k) \in Nat /\ TermAt(n, k) <= n.term
<1> DEFINE base == n.snap.index
           at == k - base
<1>1. base \in Nat /\ Len(n.log) \in Nat /\ LastIndex(n) = base + Len(n.log)
    BY RootNumbers
<1>2. k \in (base + 1)..LastIndex(n)
    OBVIOUS
<1>3. TermAt(n, k) = IF k = base THEN n.snap.term ELSE n.log[at].term
    BY DEF TermAt
<1>4. Nondecreasing(n.snap.term, n.log, n.term) /\ n.term \in Nat
    BY RootNumbers
<1>5. at = k - base
    OBVIOUS
<1> HIDE DEF base, at
<1>6. at \in 1..Len(n.log) /\ k # base
    BY <1>1, <1>2, <1>5
<1>7. n.log[at].term \in 1..n.term
    BY <1>4, <1>6 DEF Nondecreasing
<1>8. TermAt(n, k) \in Nat /\ TermAt(n, k) <= n.term
    BY <1>3, <1>4, <1>6, <1>7, SMTT(20)
<1> QED
    BY <1>3, <1>6, <1>8 DEF base, at

(* Installing the snapshot on offer leaves a root that opens, with a higher *)
(* commit index.                                                           *)
LEMMA InstallSnapshotMoves ==
    ASSUME NEW i \in Member, NEW n, LocalOK(n, i), TransferCurrent(n),
           n.incoming.snap.index > n.commit
    PROVE  Moves(n, InstallSnapshot(n, i), i)
<1> DEFINE s == n.incoming.snap
           at == s.index - n.snap.index
           L == IF HasTerm(n, s.index, s.term)
                THEN SubSeq(n.log, at + 1, Len(n.log)) ELSE <<>>
           b == [n EXCEPT !.log = L, !.commit = s.index, !.snap = s, !.incoming = Nobody]
           done == [type |-> "SnapshotInstalled", from |-> i, to |-> n.incoming.source,
                    term |-> n.term, request |-> n.incoming.request]
<1>1. InstallSnapshot(n, i) = Emit(b, {done})
    BY DEF InstallSnapshot
<1>2. /\ n.role \notin {"Candidate", "Leader"} /\ s.index \in Nat /\ s.term \in Nat
      /\ s.term <= n.term /\ n.incoming.source \in Member \ {i}
    BY DEF LocalOK, IncomingOK, TransferCurrent
<1>3. /\ RootOK(n) /\ n.term \in Nat /\ n.commit \in Nat /\ n.snap.index \in Nat
      /\ n.log \in Seq(Entry) /\ Len(n.log) \in Nat /\ Len(n.log) <= MaxLogEntries
      /\ LastIndex(n) = n.snap.index + Len(n.log) /\ n.snap.index <= n.commit
      /\ Nondecreasing(n.snap.term, n.log, n.term)
    BY RootNumbers, SMTT(20) DEF LocalOK
<1>4. s.index > n.commit /\ MaxLogEntries \in Nat
    BY KernelAssumption, SMTT(30) DEF KernelAssumption
<1>5. Typed(done)
    BY <1>2, <1>3, SMTT(30) DEF Typed, Kinds
<1> HIDE DEF done, s
<1>6. L \in Seq(Entry) /\ Len(L) <= MaxLogEntries /\ Nondecreasing(s.term, L, n.term)
    <2>1. CASE ~HasTerm(n, s.index, s.term)
        <3>1. L = <<>>
            BY <2>1, SMTT(20)
        <3> HIDE DEF L
        <3>2. L \in Seq(Entry) /\ Len(L) = 0
            BY <3>1
        <3> QED
            BY <1>4, <3>2 DEF Nondecreasing
    <2>2. CASE HasTerm(n, s.index, s.term)
        <3>1. s.index \in (n.snap.index + 1)..LastIndex(n) /\ TermAt(n, s.index) = s.term
            BY <1>2, <1>3, <1>4, <2>2, SMTT(30) DEF HasTerm, Retained
        <3>2. at \in 1..Len(n.log) /\ n.log[at].term = s.term
            BY <1>3, <3>1, RetainedTerm, SMTT(30)
        <3>3. L = SubSeq(n.log, at + 1, Len(n.log))
            BY <2>2, Zenon
        <3> HIDE DEF at, L
        <3>4. /\ L \in Seq(Entry) /\ Len(L) = Len(n.log) - at
              /\ Nondecreasing(n.log[at].term, L, n.term)
            BY <1>3, <3>2, <3>3, SuffixNondecreasing, SMTT(30)
        <3>5. Len(L) <= MaxLogEntries
            BY <1>3, <1>4, <3>2, <3>4
        <3> QED
            BY <3>2, <3>4, <3>5, Zenon
    <2> QED
        BY <2>1, <2>2, SMTT(30)
<1> HIDE DEF L
<1>7. /\ Shape(b) /\ b.log = L /\ b.commit = s.index /\ b.snap = s /\ b.incoming = Nobody
      /\ b.term = n.term /\ b.voted = n.voted /\ b.role = n.role /\ b.prog = n.prog
      /\ b.handoff = n.handoff /\ b.out = n.out
    BY ZenonT(30) DEF LocalOK, Shape, Fields
<1> HIDE DEF b
<1>8. b.commit \in b.snap.index..LastIndex(b)
    <2>1. LastIndex(b) = s.index + Len(L) /\ Len(L) \in Nat
        BY <1>6, <1>7, SMTT(30) DEF LastIndex
    <2> QED
        BY <1>2, <1>7, <2>1, SMTT(20)
<1>9. RootOK(b)
    BY <1>2, <1>3, <1>6, <1>7, <1>8, SMTT(30) DEF RootOK, ValidRoot
<1>10. WindowsOK(b, i) /\ Standing(b, i) /\ IncomingOK(b, i)
    BY <1>2, <1>7, SMTT(20) DEF LocalOK, WindowsOK, Standing, IncomingOK
<1>11. LocalOK(b, i)
    BY <1>7, <1>9, <1>10, ZenonT(30) DEF LocalOK
<1>12. Good(b, Emit(b, {done}), i)
    BY <1>5, <1>11, EmitGood
<1> DEFINE r == Emit(b, {done})
<1>13. LocalOK(r, i) /\ r.commit >= s.index
    BY <1>7, <1>12, ZenonT(30) DEF Good, Kept
<1> HIDE DEF r
<1>14. r.commit \in Nat
    BY <1>13 DEF LocalOK, RootOK
<1>15. r.commit >= n.commit
    BY <1>2, <1>3, <1>4, <1>13, <1>14, SMTT(30)
<1> QED
    BY <1>1, <1>13, <1>15 DEF Moves, r

(* Compaction leaves a root that opens and windows within the shorter log. *)
LEMMA CompactedMoves ==
    ASSUME Grounds, NEW i \in Member, NEW n, LocalOK(n, i), NEW k \in (n.snap.index + 1)..n.commit
    PROVE  Moves(n, Compacted(n, CutAt(n, k)), i)
<1> DEFINE at == k - n.snap.index
           cut == CutAt(n, k)
           L == SubSeq(n.log, at + 1, Len(n.log))
           G(p) == [n.prog[p] EXCEPT !.flight = {}, !.probing = TRUE,
                                     !.next = n.prog[p].matched + 1]
           P == [p \in DOMAIN n.prog |-> G(p)]
           b == [n EXCEPT !.log = L, !.snap = cut, !.prog = P]
<1>1. cut.index = k /\ cut.term = TermAt(n, k)
    BY DEF CutAt
<1> HIDE DEF cut
<1>2. Compacted(n, cut) = b
    BY <1>1, SMTT(30) DEF Compacted
<1>3. /\ RootOK(n) /\ n.term \in Nat /\ n.commit \in Nat /\ n.snap.index \in Nat
      /\ n.log \in Seq(Entry) /\ Len(n.log) \in Nat /\ Len(n.log) <= MaxLogEntries
      /\ LastIndex(n) = n.snap.index + Len(n.log) /\ n.commit <= LastIndex(n)
      /\ Nondecreasing(n.snap.term, n.log, n.term)
    BY RootNumbers DEF LocalOK
<1>4. k \in Nat /\ k <= n.commit /\ k \in (n.snap.index + 1)..LastIndex(n)
    BY <1>3, SMTT(30)
<1>5. /\ at \in 1..Len(n.log) /\ n.log[at].term = cut.term
      /\ cut.term \in Nat /\ cut.term <= n.term
    BY <1>1, <1>3, <1>4, RetainedTerm, SMTT(30)
<1>6. k = n.snap.index + at
    BY <1>3, <1>4
<1> HIDE DEF at
<1>7. /\ L \in Seq(Entry) /\ Len(L) = Len(n.log) - at
      /\ Nondecreasing(cut.term, L, n.term)
    BY <1>3, <1>5, SuffixNondecreasing, SMTT(30)
<1>8. MaxLogEntries \in Nat
    BY KernelAssumption DEF KernelAssumption
<1> HIDE DEF L, P
<1>9. /\ Shape(b) /\ b.log = L /\ b.snap = cut /\ b.prog = P /\ b.commit = n.commit
      /\ b.term = n.term /\ b.voted = n.voted /\ b.role = n.role /\ b.incoming = n.incoming
      /\ b.handoff = n.handoff /\ b.out = n.out
    BY Zenon DEF LocalOK, Shape, Fields
<1> HIDE DEF b
<1>10. LastIndex(b) = LastIndex(n)
    <2>1. LastIndex(b) = k + Len(L)
        BY <1>1, <1>9, SMTT(20) DEF LastIndex
    <2> QED
        BY <1>3, <1>5, <1>6, <1>7, <2>1, SMTT(30)
<1>11. Len(L) <= MaxLogEntries
    BY <1>3, <1>5, <1>7, <1>8, SMTT(30)
<1>12. b.commit \in b.snap.index..LastIndex(b)
    BY <1>1, <1>3, <1>4, <1>9, <1>10
<1>13. RootOK(b)
    BY <1>1, <1>3, <1>4, <1>5, <1>7, <1>9, <1>11, <1>12, ZenonT(30) DEF RootOK, ValidRoot
<1>14. WindowsOK(b, i)
    <2>1. CASE n.role = "Leader"
        <3>1. /\ DOMAIN n.prog = Member \ {i}
              /\ \A p \in Member \ {i} : PeerOK(n.prog[p], n.snap.index, LastIndex(n))
            BY <2>1 DEF LocalOK, WindowsOK
        <3>2. P = [p \in Member \ {i} |-> G(p)]
            BY <3>1 DEF P
        <3>3. ASSUME NEW p \in Member \ {i}
              PROVE  PeerOK(G(p), k, LastIndex(n))
            <4> DEFINE g == n.prog[p]
            <4>1. g \in Progress /\ g.matched <= LastIndex(n)
                BY <3>1 DEF PeerOK
            <4> HIDE DEF g
            <4> DEFINE r == [g EXCEPT !.flight = {}, !.probing = TRUE, !.next = g.matched + 1]
            <4>2. g.matched \in Nat /\ LastIndex(n) \in Nat
                BY <1>3, <4>1, SMTT(30) DEF Progress
            <4>3. g.matched + 1 \in Nat \ {0} /\ g.matched + 1 <= LastIndex(n) + 1
                BY <4>1, <4>2
            <4>4. /\ r \in Progress /\ r.matched = g.matched /\ r.next = g.matched + 1
                  /\ r.flight = {}
                BY <4>1, <4>3, Zenon DEF Progress
            <4>5. G(p) = r
                BY DEF g
            <4> HIDE DEF r, G
            <4>6. IsFiniteSet({}) /\ Within({}, k, LastIndex(n))
                BY DEF Within, Grounds, SetFacts
            <4> QED
                BY <4>1, <4>3, <4>4, <4>5, <4>6, SMTT(30) DEF PeerOK
        <3> HIDE DEF G
        <3>4. /\ DOMAIN P = Member \ {i} /\ P = [p \in Member \ {i} |-> P[p]]
              /\ \A p \in Member \ {i} : PeerOK(P[p], k, LastIndex(n))
            BY <3>2, <3>3
        <3> QED
            BY <1>1, <1>9, <1>10, <2>1, <3>4, SMTT(30) DEF WindowsOK
    <2>2. CASE n.role # "Leader"
        <3>1. n.prog = <<>>
            BY <2>2 DEF LocalOK, WindowsOK
        <3>2. P = <<>>
            BY <3>1, SMTT(30) DEF P
        <3> QED
            BY <1>9, <2>2, <3>2, SMTT(30) DEF WindowsOK
    <2> QED
        BY <2>1, <2>2
<1>15. Standing(b, i) /\ IncomingOK(b, i)
    BY <1>9, SMTT(30) DEF LocalOK, Standing, IncomingOK
<1>16. LocalOK(b, i)
    BY <1>9, <1>13, <1>14, <1>15 DEF LocalOK
<1> QED
    BY <1>2, <1>3, <1>9, <1>16, SMTT(30) DEF Moves, cut

-----------------------------------------------------------------------------
(* Handoffs *)

(* The term of the last entry is a number.                                 *)
LEMMA LastTermNumber ==
    ASSUME NEW n, RootOK(n)
    PROVE  LastTerm(n) \in Nat
<1>1. n.log \in Seq(Entry) /\ n.snap.term \in Nat /\ Len(n.log) \in Nat
    BY RootNumbers
<1>2. n.log # <<>> => n.log[Len(n.log)] \in Entry
    BY <1>1
<1> QED
    BY <1>1, <1>2 DEF LastTerm, Entry

(* Starting a handoff is good.                                             *)
LEMMA StartHandoffGood ==
    ASSUME Grounds, NEW i \in Member, NEW n, LocalOK(n, i), n.role = "Leader",
           NEW target \in Voters \ {i}
    PROVE  Good(n, StartHandoff(n, i, target), i)
<1> DEFINE h == [target |-> target, term |-> n.term, lastIndex |-> LastIndex(n),
                 lastTerm |-> LastTerm(n), phase |-> "CatchingUp"]
           x == IF n.handoff = Nobody THEN h ELSE n.handoff
           s == [n EXCEPT !.handoff = x]
<1>1. StartHandoff(n, i, target) \in {s, SendAppend(s, i, target, TRUE)}
    BY DEF StartHandoff
<1>2. target \in Member \ {i}
    BY DEF Grounds
<1>3. n.term \in Nat /\ LastIndex(n) \in Nat /\ LastTerm(n) \in Nat
    BY RootNumbers, LastTermNumber DEF LocalOK
<1>4. h \in [target : Member \ {i}, term : Nat, lastIndex : Nat,
             lastTerm : Nat, phase : {"CatchingUp", "ElectionRequested"}]
    BY <1>2, <1>3
<1>5. x \in {h, n.handoff}
    OBVIOUS
<1> HIDE DEF x, h
<1>6. /\ Shape(s) /\ s.handoff = x
      /\ s.term = n.term /\ s.voted = n.voted /\ s.commit = n.commit
      /\ s.snap = n.snap /\ s.log = n.log /\ s.role = n.role /\ s.prog = n.prog
      /\ s.incoming = n.incoming /\ s.out = n.out
    BY ZenonT(30) DEF LocalOK, Shape, Fields
<1> HIDE DEF s
<1>7. RootOK(s) /\ LastIndex(s) = LastIndex(n)
    BY <1>6, SMTT(20) DEF LocalOK, RootOK, ValidRoot, LastIndex
<1>8. Standing(s, i)
    BY <1>4, <1>5, <1>6, SMTT(30) DEF LocalOK, Standing
<1>9. IncomingOK(s, i) /\ WindowsOK(s, i)
    BY <1>6, <1>7, SMTT(30) DEF LocalOK, IncomingOK, WindowsOK
<1>10. Good(n, s, i) /\ LocalOK(s, i)
    BY <1>3, <1>6, <1>7, <1>8, <1>9, SMTT(30) DEF Good, Kept, LocalOK, RootOK
<1>11. Good(s, SendAppend(s, i, target, TRUE), i)
    BY <1>2, <1>6, <1>10, SendAppendGood, Zenon
<1> QED
    BY <1>1, <1>10, <1>11, GoodTrans, Zenon

(* The step that ends every input is good.                                 *)
LEMMA DriveHandoffGood ==
    ASSUME NEW i \in Member, NEW n, LocalOK(n, i), NEW retry
    PROVE  Good(n, DriveHandoff(n, i, retry), i)
<1> DEFINE h == [n.handoff EXCEPT !.phase = "ElectionRequested"]
           s == [n EXCEPT !.handoff = h]
           m == [type |-> "TimeoutNow", from |-> i, to |-> n.handoff.target,
                 term |-> n.term, lastIndex |-> n.handoff.lastIndex,
                 lastTerm |-> n.handoff.lastTerm]
<1>1. \/ DriveHandoff(n, i, retry) = n
      \/ n.handoff # Nobody /\ DriveHandoff(n, i, retry) = Emit(s, {m})
    BY DEF DriveHandoff
<1>2. ASSUME n.handoff # Nobody
      PROVE  Good(n, Emit(s, {m}), i)
    <2> DEFINE T == [target : Member \ {i}, term : Nat, lastIndex : Nat,
                     lastTerm : Nat, phase : {"CatchingUp", "ElectionRequested"}]
    <2>1. n.handoff \in T
        BY <1>2 DEF LocalOK, Standing
    <2>2. h \in T /\ n.handoff.target \in Member
        BY <2>1, SMTT(20)
    <2>3. n.term \in Nat
        BY RootNumbers DEF LocalOK
    <2>4. Typed(m)
        BY <2>2, <2>3 DEF Typed, Kinds, LeaderKinds
    <2> HIDE DEF h, m
    <2>5. /\ Shape(s) /\ s.handoff = h
          /\ s.term = n.term /\ s.voted = n.voted /\ s.commit = n.commit
          /\ s.snap = n.snap /\ s.log = n.log /\ s.role = n.role /\ s.prog = n.prog
          /\ s.incoming = n.incoming /\ s.out = n.out
        BY ZenonT(30) DEF LocalOK, Shape, Fields
    <2> HIDE DEF s
    <2>6. RootOK(s) /\ LastIndex(s) = LastIndex(n)
        BY <2>5, SMTT(30) DEF LocalOK, RootOK, ValidRoot, LastIndex
    <2>7. Standing(s, i)
        BY <2>2, <2>5, SMTT(20) DEF LocalOK, Standing
    <2>8. IncomingOK(s, i) /\ WindowsOK(s, i)
        BY <2>5, <2>6, ZenonT(30) DEF LocalOK, IncomingOK, WindowsOK
    <2>9. Good(n, s, i) /\ LocalOK(s, i)
        BY <2>5, <2>6, <2>7, <2>8, SMTT(30) DEF Good, Kept, LocalOK, RootOK
    <2>10. Good(s, Emit(s, {m}), i)
        BY <2>4, <2>9, EmitGood, SMTT(20)
    <2> QED
        BY <2>9, <2>10, GoodTrans, SMTT(20)
<1> HIDE DEF s, m
<1> QED
    BY <1>1, <1>2, GoodSelf

(* Good steps are moves, and moves compose.                                *)
LEMMA GoodMoves ==
    ASSUME NEW i, NEW n, NEW r, Good(n, r, i)
    PROVE  Moves(n, r, i)
BY SMTT(30) DEF Good, Kept, Moves

(* A move followed by a good step is a move.                               *)
LEMMA MovesThenGood ==
    ASSUME NEW i, NEW n, LocalOK(n, i), NEW r, Moves(n, r, i), NEW s, Good(r, s, i)
    PROVE  Moves(n, s, i)
BY SMTT(30) DEF Good, Kept, Moves, LocalOK, RootOK

(* A window within a log is one within a longer log.                       *)
LEMMA PeerMayGrow ==
    ASSUME NEW g, NEW low \in Nat, NEW top \in Nat, NEW high \in Nat, top <= high,
           PeerOK(g, low, top)
    PROVE  PeerOK(g, low, high)
<1>1. g \in Progress /\ g.matched \in Nat /\ g.next \in Nat
      /\ g.matched <= top /\ g.next <= top + 1
    BY DEF PeerOK, Progress
<1>2. g.matched <= high /\ g.next <= high + 1
    BY <1>1
<1>3. \A f \in g.flight : f.last \in Nat
    BY <1>1 DEF Progress, Flight
<1>4. Within(g.flight, low, high)
    BY <1>3 DEF PeerOK, Within
<1> QED
    BY <1>2, <1>4 DEF PeerOK

(* Whether an append is refused does not depend on the term the member     *)
(* takes from it first.                                                    *)
LEMMA FollowRefusesSame ==
    ASSUME NEW n, NEW f, NEW m, m.term \in Nat, n.term \in Nat, f.term \in Nat,
           f.term >= n.term, f.log = n.log, f.snap = n.snap, f.commit = n.commit
    PROVE  /\ LogFull(f, m) => LogFull(n, m)
           /\ CommittedConflict(f, m) => CommittedConflict(n, m)
<1>1. LastIndex(f) = LastIndex(n)
    BY DEF LastIndex
<1>2. \A k : TermAt(f, k) = TermAt(n, k)
    BY DEF TermAt
<1>3. \A k, t : HasTerm(f, k, t) <=> HasTerm(n, k, t)
    BY <1>1, <1>2, Zenon DEF HasTerm, Retained
<1>4. m.term >= f.term => m.term >= n.term
    OBVIOUS
<1>5. Continues(f, m) => Continues(n, m)
    BY <1>3, <1>4, Zenon DEF Continues
<1> QED
    BY <1>2, <1>5, Zenon DEF LogFull, CommittedConflict

(* Whatever is received and not refused, the member stays in order.        *)
LEMMA ReceivedGood ==
    ASSUME Grounds, NEW i \in Member, NEW n, LocalOK(n, i),
           NEW m, Typed(m), m.to = i, ~Refused(n, m)
    PROVE  Good(n, Received(n, i, m), i)
<1> DEFINE f == IF m.term > n.term THEN Follow(n, m.term) ELSE n
           r == Received(n, i, m)
<1>1. m.term \in Nat /\ n.term \in Nat /\ m.type \in Kinds /\ m.from \in Member
    BY DEF Typed, LocalOK, RootOK
<1>2. /\ ~Malformed(m) /\ ~LogFull(n, m) /\ ~CommittedConflict(n, m)
      /\ m.type \notin {"Appended", "SnapshotInstalled"} => m.from \in Voters
    BY SMTT(30) DEF Refused
<1>3. m.type \notin {"PreVoteRequest", "PreVoteReply"} => m.term # 0
    BY <1>2, SMTT(30) DEF Malformed
<1>4. /\ Good(n, f, i) /\ f.log = n.log /\ f.snap = n.snap /\ f.commit = n.commit
      /\ f.term \in Nat /\ f.term >= n.term
    <2>1. CASE m.term > n.term
        <3>1. f = Follow(n, m.term)
            BY <2>1
        <3>2. /\ Good(n, Follow(n, m.term), i) /\ Follow(n, m.term).term = m.term
              /\ Follow(n, m.term).log = n.log /\ Follow(n, m.term).snap = n.snap
              /\ Follow(n, m.term).commit = n.commit
            BY <1>1, <2>1, FollowGood, ZenonT(30)
        <3>3. m.term >= n.term /\ n.term \in Nat
            BY <1>1, <2>1 DEF LocalOK, RootOK
        <3> HIDE DEF f
        <3> QED
            BY <1>1, <3>1, <3>2, <3>3, Zenon
    <2>2. CASE ~(m.term > n.term)
        <3>1. f = n
            BY <2>2, SMTT(20)
        <3> HIDE DEF f
        <3> QED
            BY <1>1, <3>1, GoodSelf, SMTT(20)
    <2> QED
        BY <2>1, <2>2
<1>5. \/ r = OnPreVoteRequest(f, i, m)
      \/ r = OnPreVoteReply(f, i, m)
      \/ r = OnQuorumProbe(f, i, m)
      \/ r = OnQuorumReply(f, m)
      \/ r = OnTimeoutNow(f, i, m)
      \/ m.type = "RequestVote" /\ r = OnRequestVote(f, i, m)
      \/ r = OnVote(f, i, m)
      \/ m.type = "Append" /\ r = OnAppend(f, i, m)
      \/ m.type = "Appended" /\ r = OnAppended(f, i, m)
      \/ m.type = "InstallSnapshot" /\ r = OnInstallSnapshot(f, i, m)
      \/ m.type = "SnapshotInstalled" /\ r = OnSnapshotInstalled(f, i, m)
    BY <1>1, ZenonT(30) DEF Received, Kinds, LeaderKinds
<1> HIDE DEF f, r
<1>6. LocalOK(f, i) /\ ~LogFull(f, m) /\ ~CommittedConflict(f, m)
    BY <1>1, <1>2, <1>4, FollowRefusesSame, Zenon DEF Good
<1>7. /\ Good(f, OnPreVoteRequest(f, i, m), i) /\ Good(f, OnPreVoteReply(f, i, m), i)
      /\ Good(f, OnQuorumProbe(f, i, m), i) /\ Good(f, OnQuorumReply(f, m), i)
      /\ Good(f, OnTimeoutNow(f, i, m), i) /\ Good(f, OnVote(f, i, m), i)
    BY <1>1, <1>6, OnPreVoteRequestGood, OnPreVoteReplyGood, OnQuorumProbeGood,
       OnQuorumReplyGood, OnTimeoutNowGood, OnVoteGood, Zenon
<1>8. m.type = "RequestVote" => Good(f, OnRequestVote(f, i, m), i)
    <2>1. m.type = "RequestVote" => m.from \in Voters /\ m.term # 0
        BY <1>2, <1>3
    <2> QED
        BY <1>6, <2>1, OnRequestVoteGood, Zenon
<1>9. m.type = "Append" => Good(f, OnAppend(f, i, m), i)
    BY <1>2, <1>6, OnAppendGood, Zenon
<1>10. m.type = "Appended" => Good(f, OnAppended(f, i, m), i)
    BY <1>6, OnAppendedGood, Zenon
<1>11. m.type = "InstallSnapshot" => Good(f, OnInstallSnapshot(f, i, m), i)
    BY <1>2, <1>6, OnInstallSnapshotGood, Zenon
<1>12. m.type = "SnapshotInstalled" => Good(f, OnSnapshotInstalled(f, i, m), i)
    BY <1>6, OnSnapshotInstalledGood, Zenon
<1>13. Good(f, r, i)
    BY <1>5, <1>7, <1>8, <1>9, <1>10, <1>11, <1>12, ZenonT(30)
<1> QED
    BY <1>4, <1>13, GoodTrans, ZenonT(30) DEF r

(* What a batch of commands adds to a log.                                 *)
Extends(s, log, t) ==
    /\ s \in Seq(Entry) /\ Len(s) >= Len(log)
    /\ \A k \in 1..Len(log) : s[k] = log[k]
    /\ \A k \in (Len(log) + 1)..Len(s) : s[k].term = t

(* The entries propose_batch appends extend the log in the current term.   *)
LEMMA BatchLog ==
    ASSUME NEW log \in Seq(Entry), NEW t \in Nat, NEW commands \in Seq(Command)
    PROVE  Extends(log \o [k \in 1..Len(commands) |->
                               [term |-> t, command |-> commands[k]]], log, t)
<1> DEFINE added == [k \in 1..Len(commands) |-> [term |-> t, command |-> commands[k]]]
           s == log \o added
<1>1. \A k \in 1..Len(commands) : [term |-> t, command |-> commands[k]] \in Entry
    BY DEF Entry
<1>2. added \in Seq(Entry) /\ Len(added) = Len(commands) /\ Len(commands) \in Nat
    BY <1>1
<1>3. \A k \in 1..Len(added) : added[k].term = t
    BY <1>2
<1> HIDE DEF added
<1>4. /\ s \in Seq(Entry) /\ Len(s) = Len(log) + Len(added) /\ Len(log) \in Nat
      /\ \A k \in 1..Len(log) : s[k] = log[k]
      /\ \A k \in 1..Len(added) : s[Len(log) + k] = added[k]
    <2>1. s \in Seq(Entry) /\ Joins(s, log, added)
        BY <1>2, Joined, Zenon
    <2> HIDE DEF s
    <2> QED
        BY <2>1 DEF Joins
<1> HIDE DEF s
<1>5. ASSUME NEW k \in (Len(log) + 1)..Len(s) PROVE s[k].term = t
    <2>1. k - Len(log) \in 1..Len(added) /\ Len(log) + (k - Len(log)) = k
        BY <1>2, <1>4
    <2> QED
        BY <1>3, <1>4, <2>1, ZenonT(30)
<1>6. Len(s) >= Len(log)
    BY <1>2, <1>4
<1>7. Extends(s, log, t)
    BY <1>4, <1>5, <1>6 DEF Extends
<1> QED
    BY <1>7 DEF s, added

(* A leader's log grows by entries of its term.                            *)
LEMMA ProposedGood ==
    ASSUME Grounds, NEW i \in Member, NEW n, LocalOK(n, i), n.role = "Leader",
           NEW log, Extends(log, n.log, n.term), Len(log) <= MaxLogEntries
    PROVE  Good(n, Broadcast(AdvanceCommit([n EXCEPT !.log = log], i), i, FALSE), i)
<1> DEFINE a == [n EXCEPT !.log = log]
           c == AdvanceCommit(a, i)
<1>1. /\ n.term \in Nat \ {0} /\ n.commit \in Nat /\ n.snap.index \in Nat
      /\ n.snap.term \in Nat /\ n.snap.term <= n.term
      /\ n.log \in Seq(Entry) /\ Len(n.log) \in Nat
      /\ LastIndex(n) = n.snap.index + Len(n.log) /\ n.snap.index <= n.commit
      /\ n.commit <= LastIndex(n) /\ Nondecreasing(n.snap.term, n.log, n.term)
    BY RootNumbers, SMTT(30) DEF LocalOK, Standing
<1>9. Nondecreasing(n.snap.term, log, n.term)
    BY <1>1, LogMayGrow, Zenon DEF Extends
<1>10. /\ Shape(a) /\ a.log = log
       /\ a.term = n.term /\ a.voted = n.voted /\ a.commit = n.commit
       /\ a.snap = n.snap /\ a.role = n.role /\ a.prog = n.prog
       /\ a.incoming = n.incoming /\ a.handoff = n.handoff /\ a.out = n.out
    BY ZenonT(30) DEF LocalOK, Shape, Fields
<1> HIDE DEF a
<1>11. LastIndex(a) = n.snap.index + Len(log) /\ LastIndex(a) \in Nat
       /\ LastIndex(n) <= LastIndex(a)
    BY <1>1, <1>10, SMTT(30) DEF LastIndex, Extends
<1>12. a.commit \in a.snap.index..LastIndex(a)
    BY <1>1, <1>10, <1>11, SMTT(30)
<1>13. RootOK(a)
    BY <1>9, <1>10, <1>12, Zenon DEF LocalOK, RootOK, ValidRoot, Extends
<1>14. WindowsOK(a, i)
    <2>1. /\ DOMAIN n.prog = Member \ {i} /\ n.prog = [p \in Member \ {i} |-> n.prog[p]]
          /\ \A p \in Member \ {i} : PeerOK(n.prog[p], n.snap.index, LastIndex(n))
        BY SMTT(30) DEF LocalOK, WindowsOK
    <2>2. ASSUME NEW p \in Member \ {i}
          PROVE  PeerOK(n.prog[p], n.snap.index, LastIndex(a))
        BY <1>1, <1>11, <2>1, PeerMayGrow
    <2> QED
        BY <1>10, <2>1, <2>2, ZenonT(30) DEF WindowsOK
<1>15. Standing(a, i) /\ IncomingOK(a, i)
    BY <1>10, ZenonT(30) DEF LocalOK, Standing, IncomingOK
<1>16. LocalOK(a, i) /\ Good(n, a, i)
    BY <1>1, <1>10, <1>13, <1>14, <1>15, SMTT(30) DEF LocalOK, Good, Kept
<1>17. Good(a, c, i) /\ c.role = "Leader"
    BY <1>10, <1>16, AdvanceCommitGood, Zenon
<1> HIDE DEF c
<1>18. LocalOK(c, i)
    BY <1>17 DEF Good
<1>19. Good(c, Broadcast(c, i, FALSE), i)
    BY <1>17, <1>18, BroadcastGood, Zenon
<1>20. Good(n, Broadcast(c, i, FALSE), i)
    BY <1>16, <1>17, <1>18, <1>19, GoodTrans, ZenonT(30)
<1> QED
    BY <1>20, ZenonT(30) DEF c, a

=============================================================================
