------------------------------ MODULE RaftLogs ------------------------------
(***************************************************************************)
(* What each handler of Raft does to a member's own log, window and commit *)
(* index, and the invariant LogInv that follows: what a member publishes   *)
(* can be opened again, requests in flight name retained ranges, and the   *)
(* commit index never goes back. The argument looks at one member at a     *)
(* time: of the others it uses only that their messages are well typed,    *)
(* and what validate_event refuses.                                        *)
(***************************************************************************)
EXTENDS RaftKernel, TLAPS

Shape(n) == DOMAIN n = Fields /\ n = [x \in Fields |-> n[x]]

(* A root, or the same part of a live member.                              *)
RootOK(n) ==
    /\ n.term \in Nat /\ n.voted \in Member \cup {Nobody}
    /\ n.commit \in Nat /\ n.log \in Seq(Entry)
    /\ n.snap.index \in Nat /\ n.snap.term \in Nat
    /\ ValidRoot(n, Voters)

Flight == [kind : {"Append", "Snapshot"}, request : Nat, prev : Nat, last : Nat]

Progress == [matched : Nat, next : Nat \ {0}, flight : SUBSET Flight,
             probing : BOOLEAN, sentCommit : Nat, issued : Nat]

(* What is sent to a peer lies between the snapshot and the end of the log.*)
Within(flight, low, high) ==
    \A f \in flight : low <= f.prev /\ f.prev <= f.last /\ f.last <= high

PeerOK(g, low, high) ==
    /\ g \in Progress /\ IsFiniteSet(g.flight)
    /\ g.matched <= high /\ g.next <= high + 1
    /\ Within(g.flight, low, high)

WindowsOK(n, i) ==
    IF n.role = "Leader"
    THEN /\ DOMAIN n.prog = Member \ {i} /\ n.prog = [p \in Member \ {i} |-> n.prog[p]]
         /\ \A p \in Member \ {i} : PeerOK(n.prog[p], n.snap.index, LastIndex(n))
    ELSE n.prog = <<>>

(* Only a follower, or a member about to ask for votes, is being sent a    *)
(* snapshot, and it is ahead of what the member has committed.             *)
IncomingOK(n, i) ==
    n.incoming # Nobody =>
        /\ n.role \notin {"Candidate", "Leader"}
        /\ n.incoming.snap.index \in Nat /\ n.incoming.snap.index > n.commit
        /\ n.incoming.snap.term \in Nat /\ n.incoming.snap.term <= n.incoming.term
        /\ n.incoming.source \in Member \ {i}

Standing(n, i) ==
    /\ n.role \in {"Follower", "PreCandidate", "Candidate", "Leader"}
    /\ n.role \in {"PreCandidate", "Candidate", "Leader"} => i \in Voters
    /\ n.role \in {"Candidate", "Leader"} => n.term > 0
    /\ n.handoff # Nobody =>
           n.handoff \in [target : Member \ {i}, term : Nat, lastIndex : Nat,
                          lastTerm : Nat, phase : {"CatchingUp", "ElectionRequested"}]

(* What a handler relies on in a message.                                  *)
Typed(m) ==
    /\ m.from \in Member /\ m.to \in Member /\ m.term \in Nat /\ m.type \in Kinds
    /\ m.type \in {"Append", "Appended", "InstallSnapshot", "SnapshotInstalled"} =>
           m.from # m.to
    /\ m.type = "Append" => /\ m.prevIndex \in Nat /\ m.commit \in Nat
                            /\ m.entries \in Seq(Entry)
    /\ m.type = "Appended" => m.conflictNext \in Nat
    /\ m.type = "InstallSnapshot" => m.snap.index \in Nat /\ m.snap.term \in Nat

LocalOK(n, i) ==
    /\ Shape(n) /\ RootOK(n) /\ WindowsOK(n, i) /\ IncomingOK(n, i) /\ Standing(n, i)
    /\ \A m \in n.out : Typed(m)

(* The commit index never goes back, and the snapshot is left alone.       *)
Kept(n, r) == r.commit >= n.commit /\ r.snap = n.snap

Good(n, r, i) == LocalOK(r, i) /\ Kept(n, r)

(* As Good, where the snapshot may change too.                             *)
Moves(n, r, i) == LocalOK(r, i) /\ r.commit >= n.commit

(* A step that leaves all of this alone, and sends typed messages.         *)
Calm(n, r) ==
    /\ Shape(r)
    /\ r.term = n.term /\ r.voted = n.voted /\ r.commit = n.commit
    /\ r.snap = n.snap /\ r.log = n.log
    /\ r.role = n.role /\ r.prog = n.prog
    /\ r.incoming = n.incoming /\ r.handoff = n.handoff
    /\ \A m \in r.out : m \in n.out \/ Typed(m)

(* The facts on numbers and finite sets that the proofs below rest on.     *)
SetFacts ==
    /\ \A S \in SUBSET Nat : S # {} => \E k \in S : \A j \in S : k <= j
    /\ IsFiniteSet({})
    /\ \A S : IsFiniteSet(S) => Cardinality(S) \in Nat
    /\ \A S, T : IsFiniteSet(S) /\ T \subseteq S => IsFiniteSet(T)
    /\ \A S, T : IsFiniteSet(S) /\ IsFiniteSet(T) => IsFiniteSet(S \cup T)
    /\ \A h : \A k \in Nat : IsFiniteSet({h[x] : x \in 1..k})

Grounds == MaxAppendEntries \in Nat \ {0} /\ Voters \subseteq Member /\ SetFacts

-----------------------------------------------------------------------------
(* Arithmetic and sequences *)

(* A set of numbers that is not empty has a least element.                 *)
LEMMA LeastNumber ==
    ASSUME Grounds, NEW S, S \subseteq Nat, S # {}
    PROVE  \E k \in S : \A j \in S : k <= j
BY Zenon DEF Grounds, SetFacts

(* Joining two sequences.                                                  *)
Joins(u, s, t) ==
    /\ Len(u) = Len(s) + Len(t)
    /\ \A k \in 1..Len(s) : u[k] = s[k]
    /\ \A k \in 1..Len(t) : u[Len(s) + k] = t[k]

(* Appending one sequence of entries to another joins them.                *)
LEMMA Joined ==
    ASSUME NEW S, NEW s \in Seq(S), NEW t \in Seq(S)
    PROVE  s \o t \in Seq(S) /\ Joins(s \o t, s, t)
<1> DEFINE u == s \o t
<1>1. \A k \in 1..(Len(s) + Len(t)) : u[k] = IF k <= Len(s) THEN s[k] ELSE t[k - Len(s)]
    OBVIOUS
<1>2. u \in Seq(S) /\ Len(u) = Len(s) + Len(t) /\ Len(s) \in Nat /\ Len(t) \in Nat
    OBVIOUS
<1> HIDE DEF u
<1>3. \A k \in 1..Len(s) : u[k] = s[k]
    BY <1>1, <1>2
<1>4. ASSUME NEW k \in 1..Len(t) PROVE u[Len(s) + k] = t[k]
    <2>1. Len(s) + k \in 1..(Len(s) + Len(t)) /\ ~(Len(s) + k <= Len(s))
          /\ (Len(s) + k) - Len(s) = k
        BY <1>2
    <2> QED
        BY <1>1, <2>1
<1>5. Joins(u, s, t)
    BY <1>2, <1>3, <1>4 DEF Joins
<1> QED
    BY <1>2, <1>5 DEF u

(* The log after an append: where it comes from, position by position.     *)
LEMMA SplicedLog ==
    ASSUME Grounds, NEW log \in Seq(Entry), NEW entries \in Seq(Entry), NEW at \in 0..Len(log)
    PROVE  LET s == Spliced(log, at, entries)
           IN  /\ s \in Seq(Entry)
               /\ \E keep \in at..Len(log) :
                      /\ Len(s) = IF keep > at + Len(entries) THEN keep ELSE at + Len(entries)
                      /\ \A k \in 1..keep : s[k] = log[k]
                      /\ \A k \in (keep + 1)..Len(s) : s[k] = entries[k - at]
                      /\ \A k \in (at + 1)..keep :
                             k - at <= Len(entries) => log[k].term = entries[k - at].term
                      /\ \/ keep = Len(log)
                         \/ /\ keep + 1 - at \in 1..Len(entries)
                            /\ log[keep + 1].term # entries[keep + 1 - at].term
<1> DEFINE differs == {k \in 1..Len(entries) : /\ at + k <= Len(log)
                                               /\ log[at + k].term # entries[k].term}
           first == CHOOSE k \in differs : \A j \in differs : k <= j
           keep == IF differs = {} THEN Len(log) ELSE at - 1 + first
           a == SubSeq(log, 1, keep)
           b == SubSeq(entries, keep - at + 1, Len(entries))
<1>1. Spliced(log, at, entries) = a \o b
    BY DEF Spliced
<1>2. differs # {} => first \in differs /\ \A j \in differs : first <= j
    <2>1. differs \subseteq Nat
        OBVIOUS
    <2> HIDE DEF differs
    <2> QED
        BY <2>1, LeastNumber, Zenon
<1> HIDE DEF first
<1>3. /\ keep \in at..Len(log)
      /\ \A k \in (at + 1)..keep : k - at <= Len(entries) => log[k].term = entries[k - at].term
      /\ \/ keep = Len(log)
         \/ /\ keep + 1 - at \in 1..Len(entries)
            /\ log[keep + 1].term # entries[keep + 1 - at].term
    <2>1. CASE differs = {}
        <3>1. keep = Len(log)
            BY <2>1
        <3>2. ASSUME NEW k \in (at + 1)..keep, k - at <= Len(entries)
              PROVE  log[k].term = entries[k - at].term
            <4>1. k - at \in 1..Len(entries) /\ at + (k - at) = k /\ k <= Len(log)
                BY <3>1, <3>2
            <4>2. k - at \notin differs
                BY <2>1, SMTT(20)
            <4> QED
                BY <4>1, <4>2
        <3> HIDE DEF keep
        <3> QED
            BY <3>1, <3>2
    <2>2. CASE differs # {}
        <3>1. keep = at - 1 + first
            BY <2>2
        <3>2. first \in 1..Len(entries) /\ at + first <= Len(log)
              /\ log[at + first].term # entries[first].term
            BY <1>2, <2>2
        <3>3. keep \in at..Len(log) /\ keep + 1 - at = first /\ keep + 1 = at + first
            <4> HIDE DEF keep, differs, a, b
            <4>1. at \in Nat /\ Len(log) \in Nat /\ first \in Nat
                BY <3>2
            <4> QED
                BY <3>1, <3>2, <4>1
        <3>4. ASSUME NEW k \in (at + 1)..keep, k - at <= Len(entries)
              PROVE  log[k].term = entries[k - at].term
            <4>1. k - at \in 1..Len(entries) /\ at + (k - at) = k /\ k <= Len(log)
                  /\ ~(first <= k - at)
                BY <3>1, <3>2, <3>4, SMTT(30)
            <4>2. k - at \notin differs
                BY <1>2, <2>2, <4>1, Zenon
            <4> QED
                BY <4>1, <4>2
        <3> HIDE DEF keep
        <3> QED
            BY <3>2, <3>3, <3>4
    <2> QED
        BY <2>1, <2>2, Zenon
<1> HIDE DEF keep
<1>4. keep \in Nat /\ at \in Nat /\ Len(log) \in Nat /\ Len(entries) \in Nat
    BY <1>3
<1>5. a \in Seq(Entry) /\ Len(a) = keep /\ \A k \in 1..keep : a[k] = log[k]
    BY <1>3, <1>4
<1> DEFINE w == keep - at
<1>w. w \in Nat /\ b = SubSeq(entries, w + 1, Len(entries))
    BY <1>3, <1>4
<1> HIDE DEF w, b
<1>6. /\ b \in Seq(Entry)
      /\ Len(b) = IF w < Len(entries) THEN Len(entries) - w ELSE 0
      /\ \A k \in 1..Len(b) : b[k] = entries[w + k]
    <2>1. CASE w < Len(entries)
        <3>1. \A k \in (w + 1)..Len(entries) : entries[k] \in Entry
            BY <1>w, <1>4
        <3>2. /\ b \in Seq(Entry) /\ Len(b) = Len(entries) - (w + 1) + 1
              /\ \A k \in 1..(Len(entries) - (w + 1) + 1) : b[k] = entries[w + 1 + k - 1]
            BY <1>w, <1>4, <2>1, <3>1
        <3> QED
            BY <1>w, <1>4, <2>1, <3>2
    <2>2. CASE ~(w < Len(entries))
        <3>1. b = <<>>
            BY <1>w, <1>4, <2>2
        <3> QED
            BY <2>2, <3>1
    <2> QED
        BY <2>1, <2>2
<1> HIDE DEF a
<1> DEFINE s == a \o b
<1>7. /\ s \in Seq(Entry) /\ Len(s) = Len(a) + Len(b)
      /\ \A k \in 1..Len(a) : s[k] = a[k]
      /\ \A k \in (Len(a) + 1)..Len(s) : s[k] = b[k - Len(a)]
    <2>1. s \in Seq(Entry) /\ Joins(s, a, b)
        BY <1>5, <1>6, Joined, Zenon
    <2>2. Len(a) \in Nat /\ Len(b) \in Nat
        BY <1>5, <1>6
    <2> HIDE DEF s
    <2>3. Len(s) = Len(a) + Len(b) /\ \A k \in 1..Len(a) : s[k] = a[k]
        BY <2>1, <2>2 DEF Joins
    <2>4. ASSUME NEW k \in (Len(a) + 1)..Len(s)
          PROVE  s[k] = b[k - Len(a)]
        <3>1. k - Len(a) \in 1..Len(b) /\ Len(a) + (k - Len(a)) = k
            BY <2>2, <2>3
        <3> QED
            BY <2>1, <3>1, Zenon DEF Joins
    <2> QED
        BY <2>1, <2>3, <2>4
<1> HIDE DEF s
<1>8. \A k \in (keep + 1)..Len(s) : s[k] = entries[k - at]
    BY <1>3, <1>4, <1>5, <1>6, <1>7 DEF w
<1>9. Len(s) = IF keep > at + Len(entries) THEN keep ELSE at + Len(entries)
    BY <1>3, <1>4, <1>5, <1>6, <1>7 DEF w
<1>10. \A k \in 1..keep : s[k] = log[k]
    BY <1>4, <1>5, <1>7, Zenon
<1>11. Spliced(log, at, entries) = s
    BY <1>1 DEF s
<1> QED
    BY <1>3, <1>7, <1>8, <1>9, <1>10, <1>11, Zenon

(* A log whose terms never decrease stays one as the term rises.           *)
LEMMA TermMayRise ==
    ASSUME NEW t, NEW log \in Seq(Entry), NEW top \in Nat, NEW high \in Nat, top <= high,
           Nondecreasing(t, log, top)
    PROVE  Nondecreasing(t, log, high)
BY SMTT(30) DEF Nondecreasing, Entry

(* A log stays one when entries of the current term are added.             *)
LEMMA LogMayGrow ==
    ASSUME NEW t \in Nat, NEW top \in Nat \ {0}, t <= top,
           NEW log \in Seq(Entry), Nondecreasing(t, log, top),
           NEW s \in Seq(Entry), Len(s) >= Len(log),
           \A k \in 1..Len(log) : s[k] = log[k],
           \A k \in (Len(log) + 1)..Len(s) : s[k].term = top
    PROVE  Nondecreasing(t, s, top)
<1> SUFFICES ASSUME NEW k \in 1..Len(s)
             PROVE  /\ s[k].term \in 1..top
                    /\ s[k].term >= IF k = 1 THEN t ELSE s[k - 1].term
    BY DEF Nondecreasing
<1>1. \A j \in 1..Len(s) : s[j].term \in 1..top
    <2> TAKE j \in 1..Len(s)
    <2>1. CASE j \in 1..Len(log)
        <3>1. log[j].term \in 1..top
            BY <2>1 DEF Nondecreasing
        <3> QED
            BY <2>1, <3>1
    <2>2. CASE j \notin 1..Len(log)
        BY <2>2
    <2> QED
        BY <2>1, <2>2
<1>2. CASE k \in 1..Len(log)
    <2>1. log[k].term >= IF k = 1 THEN t ELSE log[k - 1].term
        BY <1>2 DEF Nondecreasing
    <2>2. s[k] = log[k] /\ (k # 1 => s[k - 1] = log[k - 1])
        BY <1>2
    <2> QED
        BY <1>1, <2>1, <2>2
<1>3. CASE k \notin 1..Len(log)
    <2>1. s[k].term = top
        BY <1>3
    <2>2. k # 1 => s[k - 1].term \in 1..top
        BY <1>1
    <2> QED
        BY <2>1, <2>2
<1> QED
    BY <1>2, <1>3

(* The numbers of a root.                                                  *)
LEMMA RootNumbers ==
    ASSUME NEW n, RootOK(n)
    PROVE  /\ n.term \in Nat /\ n.commit \in Nat /\ n.snap.index \in Nat /\ n.snap.term \in Nat
           /\ n.log \in Seq(Entry) /\ Len(n.log) \in Nat
           /\ LastIndex(n) \in Nat /\ LastIndex(n) = n.snap.index + Len(n.log)
           /\ n.snap.index <= n.commit /\ n.commit <= LastIndex(n)
           /\ n.snap.index <= LastIndex(n)
           /\ n.snap.term <= n.term /\ Len(n.log) <= MaxLogEntries
           /\ Nondecreasing(n.snap.term, n.log, n.term)
<1>1. /\ n.term \in Nat /\ n.commit \in Nat /\ n.snap.index \in Nat /\ n.snap.term \in Nat
      /\ n.log \in Seq(Entry) /\ Len(n.log) \in Nat
    BY DEF RootOK
<1>2. /\ n.commit \in n.snap.index..LastIndex(n)
      /\ n.snap.term <= n.term /\ Len(n.log) <= MaxLogEntries
      /\ Nondecreasing(n.snap.term, n.log, n.term)
    BY DEF RootOK, ValidRoot
<1>3. LastIndex(n) = n.snap.index + Len(n.log)
    BY DEF LastIndex
<1> QED
    BY <1>1, <1>2, <1>3

-----------------------------------------------------------------------------
(* Steps that leave the log alone *)

(* A vote in the current term leaves a root that can still be opened.      *)
LEMMA RootKept ==
    ASSUME NEW n, NEW r, RootOK(n),
           r.term = n.term, r.commit = n.commit, r.snap = n.snap, r.log = n.log,
           r.voted = n.voted \/ (r.voted \in Voters \cap Member /\ n.term > 0)
    PROVE  RootOK(r)
<1>1. LastIndex(r) = LastIndex(n)
    BY Zenon DEF LastIndex
<1> QED
    BY <1>1, Zenon DEF RootOK, ValidRoot

(* What a member keeps of its peers, of a snapshot it is being sent and of *)
(* a handoff stays in order while its role and its log stay.               *)
LEMMA SeatKept ==
    ASSUME NEW n, NEW r, NEW i, LocalOK(n, i),
           r.term = n.term, r.commit = n.commit, r.snap = n.snap, r.log = n.log,
           r.role = n.role, r.prog = n.prog, r.incoming = n.incoming,
           r.handoff = n.handoff
    PROVE  WindowsOK(r, i) /\ IncomingOK(r, i) /\ Standing(r, i)
<1>1. LastIndex(r) = LastIndex(n)
    BY Zenon DEF LastIndex
<1>2. WindowsOK(r, i)
    BY <1>1, Zenon DEF LocalOK, WindowsOK
<1>3. IncomingOK(r, i)
    BY Zenon DEF LocalOK, IncomingOK
<1>4. Standing(r, i)
    BY Zenon DEF LocalOK, Standing
<1> QED
    BY <1>2, <1>3, <1>4, Zenon

(* A calm step is good.                                                    *)
LEMMA CalmOK ==
    ASSUME NEW i, NEW n, LocalOK(n, i), NEW r, Calm(n, r)
    PROVE  Good(n, r, i)
<1>1. Shape(r) /\ \A m \in r.out : Typed(m)
    BY DEF Calm, LocalOK
<1>2. RootOK(r)
    BY DEF Calm, LocalOK, RootOK, ValidRoot, LastIndex
<1>3. WindowsOK(r, i)
    BY DEF Calm, LocalOK, WindowsOK, LastIndex
<1>4. IncomingOK(r, i) /\ Standing(r, i)
    BY DEF Calm, LocalOK, IncomingOK, Standing
<1>5. Kept(n, r)
    BY DEF Calm, LocalOK, RootOK, Kept
<1> QED
    BY <1>1, <1>2, <1>3, <1>4, <1>5 DEF Good, LocalOK

(* Good steps compose.                                                     *)
LEMMA GoodTrans ==
    ASSUME NEW i, NEW n, LocalOK(n, i), NEW r, Good(n, r, i), NEW s, Good(r, s, i)
    PROVE  Good(n, s, i)
BY DEF Good, Kept, LocalOK, RootOK

(* Doing nothing is good.                                                  *)
LEMMA GoodSelf ==
    ASSUME NEW i, NEW n, LocalOK(n, i)
    PROVE  Good(n, n, i)
BY DEF Good, Kept, LocalOK, RootOK

(* Emitting typed messages is good.                                        *)
LEMMA EmitGood ==
    ASSUME NEW i, NEW n, LocalOK(n, i), NEW S, \A m \in S : Typed(m)
    PROVE  Good(n, Emit(n, S), i)
<1> DEFINE r == Emit(n, S)
<1>1. Calm(n, r)
    BY DEF Emit, Calm, LocalOK, Shape, Fields
<1> HIDE DEF r
<1>2. Good(n, r, i)
    BY <1>1, CalmOK
<1> QED
    BY <1>2 DEF r

(* Following a term is good: a snapshot transfer may be dropped, and the   *)
(* log is kept.                                                            *)
LEMMA FollowGood ==
    ASSUME NEW i, NEW n, LocalOK(n, i), NEW t \in Nat
    PROVE  LET r == Follow(n, t)
           IN  /\ Good(n, r, i)
               /\ r.term = IF t > n.term THEN t ELSE n.term
               /\ r.voted = IF t > n.term THEN Nobody ELSE n.voted
               /\ r.log = n.log /\ r.snap = n.snap /\ r.commit = n.commit
               /\ r.role = "Follower" /\ r.out = n.out
               /\ r.incoming \in {n.incoming, Nobody}
               /\ t > n.term => r.incoming = Nobody
<1> DEFINE r == Follow(n, t)
<1>1. Shape(n)
    BY DEF LocalOK
<1>2. /\ Shape(r)
      /\ r.term = IF t > n.term THEN t ELSE n.term
      /\ r.voted = IF t > n.term THEN Nobody ELSE n.voted
      /\ r.incoming = IF t > n.term THEN Nobody ELSE n.incoming
      /\ r.log = n.log /\ r.snap = n.snap /\ r.commit = n.commit
      /\ r.role = "Follower" /\ r.out = n.out /\ r.prog = <<>> /\ r.handoff = Nobody
    <2> DEFINE a == IF t > n.term THEN t ELSE n.term
               v == IF t > n.term THEN Nobody ELSE n.voted
               s == IF t > n.term THEN Nobody ELSE n.incoming
               q == [n EXCEPT !.term = a, !.voted = v, !.incoming = s, !.role = "Follower",
                              !.leader = Nobody, !.votes = {}, !.prog = <<>>,
                              !.pre = Nobody, !.probe = Nobody, !.handoff = Nobody]
    <2>1. r = q
        BY Zenon DEF Follow
    <2> HIDE DEF a, v, s, r
    <2>2. /\ Shape(q) /\ q.term = a /\ q.voted = v /\ q.incoming = s
          /\ q.log = n.log /\ q.snap = n.snap /\ q.commit = n.commit
          /\ q.role = "Follower" /\ q.out = n.out /\ q.prog = <<>> /\ q.handoff = Nobody
        BY <1>1, ZenonT(30) DEF Shape, Fields
    <2> HIDE DEF q
    <2> QED
        BY <2>1, <2>2, Zenon DEF a, v, s
<1> HIDE DEF r
<1>3. n.term \in Nat /\ r.term \in Nat /\ n.term <= r.term
    BY <1>2 DEF LocalOK, RootOK
<1>4. Nondecreasing(r.snap.term, r.log, r.term)
    BY <1>2, <1>3, TermMayRise DEF LocalOK, RootOK, ValidRoot
<1>5. RootOK(r)
    BY <1>2, <1>3, <1>4 DEF LocalOK, RootOK, ValidRoot, LastIndex
<1>6. WindowsOK(r, i) /\ Standing(r, i) /\ IncomingOK(r, i)
    BY <1>2 DEF LocalOK, WindowsOK, Standing, IncomingOK
<1>7. Good(n, r, i)
    BY <1>2, <1>5, <1>6 DEF Good, Kept, LocalOK, RootOK
<1> QED
    BY <1>2, <1>7 DEF r

(* So is accepting a leader.                                               *)
LEMMA AcceptLeaderGood ==
    ASSUME NEW i, NEW n, LocalOK(n, i), NEW t \in Nat, NEW from
    PROVE  LET r == AcceptLeader(n, from, t)
           IN  /\ Good(n, r, i)
               /\ r.term = IF t > n.term THEN t ELSE n.term
               /\ r.voted = IF t > n.term THEN Nobody ELSE n.voted
               /\ r.log = n.log /\ r.snap = n.snap /\ r.commit = n.commit
               /\ r.role = "Follower" /\ r.out = n.out
<1> DEFINE f == Follow(n, t)
           r == AcceptLeader(n, from, t)
<1>1. PICK x : x \in {f.incoming, Nobody} /\ r = [f EXCEPT !.leader = from, !.incoming = x]
    <2> DEFINE x == IF f.incoming # Nobody /\ f.incoming.source # from
                    THEN Nobody ELSE f.incoming
    <2>1. x \in {f.incoming, Nobody} /\ r = [f EXCEPT !.leader = from, !.incoming = x]
        BY Zenon DEF AcceptLeader
    <2> HIDE DEF x, r, f
    <2> QED
        BY <2>1
<1>2. /\ Good(n, f, i)
      /\ f.term = IF t > n.term THEN t ELSE n.term
      /\ f.voted = IF t > n.term THEN Nobody ELSE n.voted
      /\ f.log = n.log /\ f.snap = n.snap /\ f.commit = n.commit
      /\ f.role = "Follower" /\ f.out = n.out
    BY FollowGood
<1> HIDE DEF f, r
<1>3. /\ Shape(r) /\ r.incoming = x
      /\ r.term = f.term /\ r.voted = f.voted /\ r.log = f.log /\ r.snap = f.snap
      /\ r.commit = f.commit /\ r.role = "Follower" /\ r.out = f.out
      /\ r.prog = f.prog /\ r.handoff = f.handoff
    BY <1>1, <1>2, Zenon DEF Good, LocalOK, Shape, Fields
<1>4. RootOK(r)
    BY <1>2, <1>3 DEF Good, LocalOK, RootOK, ValidRoot, LastIndex
<1>5. WindowsOK(r, i) /\ Standing(r, i) /\ IncomingOK(r, i)
    BY <1>1, <1>2, <1>3 DEF Good, LocalOK, WindowsOK, Standing, IncomingOK
<1>6. Good(n, r, i)
    BY <1>2, <1>3, <1>4, <1>5 DEF Good, Kept, LocalOK, RootOK
<1> QED
    BY <1>2, <1>3, <1>6, SMTT(20) DEF r

-----------------------------------------------------------------------------
(* Sending the log *)

(* The front of a window that is not empty is in it.                       *)
LEMMA FrontIsInFlight ==
    ASSUME Grounds, NEW flight \in SUBSET Flight, flight # {}
    PROVE  Front(flight) \in flight
<1> DEFINE S == {f.request : f \in flight}
<1>1. S \subseteq Nat /\ S # {}
    BY DEF Flight
<1>2. PICK k \in S : \A j \in S : k <= j
    <2> HIDE DEF S
    <2> QED
        BY <1>1, LeastNumber, Zenon
<1>3. \E f \in flight : \A h \in flight : f.request <= h.request
    BY <1>2
<1> QED
    BY <1>3 DEF Front

(* A window takes a number of requests.                                    *)
LEMMA RequestsNumber ==
    ASSUME Grounds, NEW n, NEW g, RootOK(n), PeerOK(g, n.snap.index, LastIndex(n))
    PROVE  Requests(n, g) \in Nat
<1> DEFINE room == (IF g.probing THEN 1 ELSE Window) - Cardinality(g.flight)
           left == LastIndex(n) + 1 - g.next
           M == MaxAppendEntries
           ranges == (left + M - 1) \div M
<1>1. Requests(n, g) \in {0, 1} \/ Requests(n, g) = IF ranges < room THEN ranges ELSE room
    BY DEF Requests
<1>2. room <= 0 \/ ~(left > 0) => Requests(n, g) \in {0, 1}
    BY DEF Requests
<1>3. room \in Int /\ left \in Int
    <2>1. Cardinality(g.flight) \in Nat /\ Window \in Nat
        BY KernelAssumption, SMT DEF PeerOK, Grounds, SetFacts, KernelAssumption
    <2>2. LastIndex(n) \in Nat /\ g.next \in Nat
        BY RootNumbers DEF PeerOK, Progress
    <2> QED
        BY <2>1, <2>2
<1>4. M \in Nat \ {0}
    BY DEF Grounds
<1> HIDE DEF room, left, M
<1>5. left > 0 => ranges \in Nat
    BY <1>3, <1>4
<1> HIDE DEF ranges
<1> QED
    BY <1>1, <1>2, <1>3, <1>5

(* Its ranges lie between what was sent before and the end of the log.     *)
LEMMA ReachBounds ==
    ASSUME Grounds, NEW n, NEW g, RootOK(n), PeerOK(g, n.snap.index, LastIndex(n)),
           NEW k \in Nat
    PROVE  /\ Reach(n, g, k) \in Nat
           /\ g.next - 1 <= Reach(n, g, k) /\ Reach(n, g, k) <= LastIndex(n)
           /\ Reach(n, g, k) <= Reach(n, g, k + 1)
<1> DEFINE M == MaxAppendEntries
           last == LastIndex(n)
           next == g.next
<1>1. last \in Nat /\ next \in Nat \ {0} /\ next <= last + 1
    BY RootNumbers DEF PeerOK, Progress
<1>2. M \in Nat \ {0}
    BY DEF Grounds
<1>3. \A j : Reach(n, g, j) = IF next - 1 + j * M < last THEN next - 1 + j * M ELSE last
    BY DEF Reach
<1> HIDE DEF M, last, next
<1>4. k * M \in Nat /\ (k + 1) * M = k * M + M
    BY <1>2
<1>5. (k + 1) * M \in Nat
    BY <1>2, <1>4
<1>6. /\ Reach(n, g, k) = IF next - 1 + k * M < last THEN next - 1 + k * M ELSE last
      /\ Reach(n, g, k + 1)
           = IF next - 1 + (k + 1) * M < last THEN next - 1 + (k + 1) * M ELSE last
    BY <1>3, Zenon
<1> DEFINE x == k * M
           y == (k + 1) * M
<1> HIDE DEF x, y
<1>7. /\ x \in Nat /\ y = x + M
      /\ Reach(n, g, k) = IF next - 1 + x < last THEN next - 1 + x ELSE last
      /\ Reach(n, g, k + 1) = IF next - 1 + y < last THEN next - 1 + y ELSE last
    BY <1>4, <1>6 DEF x, y
<1>8. /\ Reach(n, g, k) \in Nat /\ next - 1 <= Reach(n, g, k) /\ Reach(n, g, k) <= last
      /\ Reach(n, g, k) <= Reach(n, g, k + 1)
    BY <1>1, <1>2, <1>7
<1> QED
    BY <1>8 DEF next, last

(* Each new request names a retained range.                                *)
LEMMA RequestOK ==
    ASSUME Grounds, NEW n, NEW g, RootOK(n), PeerOK(g, n.snap.index, LastIndex(n)),
           NEW k \in Nat \ {0}
    PROVE  Request(n, g, k) \in Flight /\ Within({Request(n, g, k)}, n.snap.index, LastIndex(n))
<1>1. /\ n.snap.index \in Nat /\ LastIndex(n) \in Nat /\ n.snap.index <= LastIndex(n)
      /\ g.issued + k \in Nat /\ g.next \in Nat
    <2>1. n.snap.index \in Nat /\ Len(n.log) \in Nat
        BY DEF RootOK
    <2>2. g.issued \in Nat /\ g.next \in Nat
        BY DEF PeerOK, Progress
    <2> QED
        BY <2>1, <2>2, SMTT(30) DEF LastIndex
<1>2. k - 1 \in Nat /\ (k - 1) + 1 = k
    OBVIOUS
<1>3. /\ Reach(n, g, k - 1) \in Nat /\ g.next - 1 <= Reach(n, g, k - 1)
      /\ Reach(n, g, k - 1) <= Reach(n, g, k)
      /\ Reach(n, g, k) \in Nat /\ Reach(n, g, k) <= LastIndex(n)
    <2>1. /\ Reach(n, g, k - 1) \in Nat /\ g.next - 1 <= Reach(n, g, k - 1)
          /\ Reach(n, g, k - 1) <= Reach(n, g, (k - 1) + 1)
        BY <1>2, ReachBounds
    <2>2. Reach(n, g, k) \in Nat /\ Reach(n, g, k) <= LastIndex(n)
        BY ReachBounds
    <2> QED
        BY <1>2, <2>1, <2>2
<1>4. CASE g.next <= n.snap.index
    BY <1>1, <1>4 DEF Request, Flight, Within
<1>5. CASE ~(g.next <= n.snap.index)
    <2>1. n.snap.index <= Reach(n, g, k - 1)
        BY <1>1, <1>3, <1>5
    <2> QED
        BY <1>1, <1>3, <1>5, <2>1 DEF Request, Flight, Within
<1> QED
    BY <1>4, <1>5

(* The message of a retained range is typed.                               *)
LEMMA FlightMessageTyped ==
    ASSUME NEW i \in Member, NEW p \in Member \ {i}, NEW n, LocalOK(n, i),
           NEW f \in Flight, Within({f}, n.snap.index, LastIndex(n))
    PROVE  Typed(FlightMessage(n, i, p, f))
<1> DEFINE m == FlightMessage(n, i, p, f)
           a == f.prev - n.snap.index + 1
           b == f.last - n.snap.index
<1>1. /\ n.term \in Nat /\ n.commit \in Nat /\ n.snap.index \in Nat /\ n.snap.term \in Nat
      /\ n.log \in Seq(Entry)
    BY DEF LocalOK, RootOK
<1>2. f.prev \in Nat /\ f.last \in Nat /\ n.snap.index <= f.prev /\ f.last <= LastIndex(n)
    BY DEF Flight, Within
<1>3. CASE f.kind = "Append"
    <2>1. /\ m.type = "Append" /\ m.from = i /\ m.to = p /\ m.term = n.term
          /\ m.prevIndex = f.prev /\ m.commit = n.commit /\ m.entries = SubSeq(n.log, a, b)
        BY <1>3, ZenonT(30) DEF FlightMessage
    <2>2. a \in Int /\ b \in Int /\ 1 <= a /\ b <= Len(n.log)
        BY <1>1, <1>2, SMTT(30) DEF LastIndex
    <2> HIDE DEF a, b, m
    <2>3. \A k \in a..b : n.log[k] \in Entry
        BY <1>1, <2>2
    <2>4. SubSeq(n.log, a, b) \in Seq(Entry)
        BY <2>2, <2>3
    <2>5. Typed(m)
        BY <1>1, <1>2, <2>1, <2>4 DEF Typed, Kinds, LeaderKinds
    <2> QED
        BY <2>5, SMTT(30) DEF m
<1>4. CASE f.kind # "Append"
    <2>1. /\ m.type = "InstallSnapshot" /\ m.from = i /\ m.to = p /\ m.term = n.term
          /\ m.snap = n.snap
        BY <1>4 DEF FlightMessage
    <2> HIDE DEF m
    <2>2. Typed(m)
        BY <1>1, <2>1, SMTT(30) DEF Typed, Kinds, LeaderKinds
    <2> QED
        BY <2>2 DEF m
<1> QED
    BY <1>3, <1>4

(* Recording a peer's progress is good when the window still fits.         *)
LEMMA SetProgressGood ==
    ASSUME NEW i, NEW n, LocalOK(n, i), n.role = "Leader", NEW p \in Member \ {i},
           NEW g, PeerOK(g, n.snap.index, LastIndex(n))
    PROVE  LET r == SetProgress(n, p, g)
           IN  /\ Good(n, r, i) /\ r.role = "Leader" /\ r.out = n.out
               /\ r.prog[p] = g
               /\ r.commit = n.commit /\ r.log = n.log /\ r.snap = n.snap /\ r.term = n.term
<1> DEFINE r == SetProgress(n, p, g)
           P == [n.prog EXCEPT ![p] = g]
<1>1. r = [n EXCEPT !.prog = P]
    BY Zenon DEF SetProgress
<1>2. DOMAIN n.prog = Member \ {i} /\ n.prog = [q \in Member \ {i} |-> n.prog[q]]
    BY DEF LocalOK, WindowsOK
<1>3. P = [q \in Member \ {i} |-> IF q = p THEN g ELSE n.prog[q]]
    BY <1>2, Zenon
<1> HIDE DEF r, P
<1>4. /\ Shape(r) /\ r.prog = P
      /\ r.term = n.term /\ r.voted = n.voted /\ r.commit = n.commit
      /\ r.snap = n.snap /\ r.log = n.log /\ r.role = n.role
      /\ r.incoming = n.incoming /\ r.handoff = n.handoff /\ r.out = n.out
    BY <1>1, ZenonT(30) DEF LocalOK, Shape, Fields
<1>5. RootOK(r)
    BY <1>4 DEF LocalOK, RootOK, ValidRoot, LastIndex
<1>6. IncomingOK(r, i) /\ Standing(r, i)
    BY <1>4 DEF LocalOK, IncomingOK, Standing
<1>7. LastIndex(r) = LastIndex(n)
    BY <1>4 DEF LastIndex
<1>8. \A q \in Member \ {i} : PeerOK(P[q], n.snap.index, LastIndex(n))
    BY <1>3 DEF LocalOK, WindowsOK
<1>9. DOMAIN P = Member \ {i} /\ P = [q \in Member \ {i} |-> P[q]] /\ P[p] = g
    BY <1>3
<1>10. WindowsOK(r, i)
    BY <1>4, <1>7, <1>8, <1>9, SMTT(30) DEF WindowsOK
<1>11. Good(n, r, i)
    BY <1>4, <1>5, <1>6, <1>10, SMTT(30) DEF Good, Kept, LocalOK, RootOK
<1> QED
    BY <1>4, <1>9, <1>11 DEF r, P

(* Filling a peer's window is good.                                        *)
LEMMA SendAppendGood ==
    ASSUME Grounds, NEW i \in Member, NEW n, LocalOK(n, i), n.role = "Leader",
           NEW p \in Member \ {i}, NEW retry \in BOOLEAN
    PROVE  LET r == SendAppend(n, i, p, retry)
           IN  /\ Good(n, r, i) /\ r.role = "Leader"
               /\ PeerOK(r.prog[p], n.snap.index, LastIndex(n))
<1> DEFINE g == n.prog[p]
           count == Requests(n, g)
           new == {Request(n, g, k) : k \in 1..count}
           sent == new \cup IF retry THEN g.flight ELSE {}
           next == IF g.next <= n.snap.index THEN g.next ELSE Reach(n, g, count) + 1
           commit == IF \E f \in sent : f.kind = "Append" THEN n.commit ELSE g.sentCommit
           fed == [g EXCEPT !.flight = @ \cup new, !.issued = @ + count,
                            !.next = next, !.sentCommit = commit]
           a == SetProgress(n, p, fed)
           S == {FlightMessage(n, i, p, f) : f \in sent}
<1>1. SendAppend(n, i, p, retry) = Emit(a, S)
    BY DEF SendAppend
<1>2. RootOK(n) /\ PeerOK(g, n.snap.index, LastIndex(n))
    BY DEF LocalOK, WindowsOK
<1> HIDE DEF g
<1>3. count \in Nat
    BY <1>2, RequestsNumber
<1> HIDE DEF count
<1>4. \A k \in 1..count : Request(n, g, k) \in Flight /\ Within({Request(n, g, k)}, n.snap.index, LastIndex(n))
    <2> TAKE k \in 1..count
    <2>1. k \in Nat \ {0}
        BY <1>3
    <2> QED
        BY <1>2, <2>1, RequestOK
<1>5. new \in SUBSET Flight /\ Within(new, n.snap.index, LastIndex(n))
    BY <1>4 DEF Within
<1>6. IsFiniteSet(new)
    <2> DEFINE h == [k \in 1..count |-> Request(n, g, k)]
    <2>1. new = {h[x] : x \in 1..count}
        OBVIOUS
    <2>2. count \in Nat
        BY <1>3
    <2> HIDE DEF h, new, count
    <2>3. \A f : \A k \in Nat : IsFiniteSet({f[x] : x \in 1..k})
        BY Zenon DEF Grounds, SetFacts
    <2>4. IsFiniteSet({h[x] : x \in 1..count})
        BY <2>2, <2>3, Zenon
    <2> QED
        BY <2>1, <2>4, Zenon
<1>7. /\ Reach(n, g, count) \in Nat /\ Reach(n, g, count) <= LastIndex(n)
    BY <1>2, <1>3, ReachBounds, ZenonT(30)
<1>8. next \in Nat \ {0} /\ next <= LastIndex(n) + 1
    <2>1. g.next \in Nat \ {0} /\ g.next <= LastIndex(n) + 1
        BY <1>2 DEF PeerOK, Progress
    <2>2. n.snap.index \in Nat /\ LastIndex(n) \in Nat
        BY <1>2 DEF RootOK, LastIndex
    <2> QED
        BY <1>7, <2>1, <2>2
<1>9. commit \in Nat
    BY <1>2 DEF PeerOK, Progress, RootOK
<1>10. \A f \in sent : f \in Flight /\ Within({f}, n.snap.index, LastIndex(n))
    BY <1>2, <1>5 DEF PeerOK, Progress, Within
<1> HIDE DEF new, sent, next, commit
<1>11. PeerOK(fed, n.snap.index, LastIndex(n))
    <2>1. /\ g \in Progress /\ IsFiniteSet(g.flight) /\ g.matched <= LastIndex(n)
          /\ Within(g.flight, n.snap.index, LastIndex(n))
        BY <1>2 DEF PeerOK
    <2>3. /\ g.flight \in SUBSET Flight /\ g.issued + count \in Nat
          /\ g.matched \in Nat /\ g.probing \in BOOLEAN
        BY <1>3, <2>1 DEF Progress
    <2>4. IsFiniteSet(g.flight \cup new) /\ g.flight \cup new \in SUBSET Flight
        BY <1>5, <1>6, <2>1, <2>3, Zenon DEF Grounds, SetFacts
    <2>5. Within(g.flight \cup new, n.snap.index, LastIndex(n))
        BY <1>5, <2>1 DEF Within
    <2>6. /\ fed \in Progress /\ fed.flight = g.flight \cup new
          /\ fed.matched = g.matched /\ fed.next = next
        BY <1>8, <1>9, <2>1, <2>3, <2>4, ZenonT(30) DEF Progress
    <2> HIDE DEF fed
    <2> QED
        BY <1>8, <2>1, <2>4, <2>5, <2>6 DEF PeerOK
<1> HIDE DEF fed
<1>12. /\ Good(n, a, i) /\ a.role = "Leader" /\ a.prog[p] = fed
       /\ a.snap = n.snap
    BY <1>11, SetProgressGood
<1>13. \A m \in S : Typed(m)
    BY <1>10, FlightMessageTyped, ZenonT(30)
<1> HIDE DEF a, S
<1>14. Good(a, Emit(a, S), i)
    BY <1>12, <1>13, EmitGood DEF Good
<1>15. Good(n, Emit(a, S), i)
    BY <1>12, <1>14, GoodTrans
<1>16. Emit(a, S).role = "Leader" /\ Emit(a, S).prog[p] = fed
    BY <1>12 DEF Emit, Good, LocalOK, Shape, Fields
<1> QED
    BY <1>1, <1>11, <1>15, <1>16

(* So is filling every window.                                             *)
LEMMA BroadcastGood ==
    ASSUME Grounds, NEW i \in Member, NEW n, LocalOK(n, i), n.role = "Leader",
           NEW retry \in BOOLEAN
    PROVE  LET r == Broadcast(n, i, retry) IN Good(n, r, i) /\ r.role = "Leader"
<1> DEFINE r == Broadcast(n, i, retry)
           P == [p \in Member \ {i} |-> SendAppend(n, i, p, retry).prog[p]]
           S == UNION {SendAppend(n, i, p, retry).out : p \in Member \ {i}}
<1>1. DOMAIN n.prog = Member \ {i}
    BY DEF LocalOK, WindowsOK
<1>2. r = [n EXCEPT !.prog = P, !.out = @ \cup S]
    BY <1>1, Zenon DEF Broadcast
<1>3. \A p \in Member \ {i} :
          /\ Good(n, SendAppend(n, i, p, retry), i)
          /\ PeerOK(SendAppend(n, i, p, retry).prog[p], n.snap.index, LastIndex(n))
    BY SendAppendGood
<1>4. \A p \in Member \ {i} : PeerOK(P[p], n.snap.index, LastIndex(n))
    BY <1>3, SMTT(30)
<1>5. \A m \in S : Typed(m)
    BY <1>3 DEF Good, LocalOK
<1>6. DOMAIN P = Member \ {i} /\ P = [p \in Member \ {i} |-> P[p]]
    BY Zenon
<1> HIDE DEF r, P, S
<1>7. /\ Shape(r) /\ r.prog = P
      /\ r.term = n.term /\ r.voted = n.voted /\ r.commit = n.commit
      /\ r.snap = n.snap /\ r.log = n.log /\ r.role = n.role
      /\ r.incoming = n.incoming /\ r.handoff = n.handoff /\ r.out = n.out \cup S
    BY <1>2, Zenon DEF LocalOK, Shape, Fields
<1>8. RootOK(r) /\ LastIndex(r) = LastIndex(n)
    BY <1>7 DEF LocalOK, RootOK, ValidRoot, LastIndex
<1>9. IncomingOK(r, i) /\ Standing(r, i)
    BY <1>7 DEF LocalOK, IncomingOK, Standing
<1>10. WindowsOK(r, i)
    BY <1>4, <1>6, <1>7, <1>8, SMTT(30) DEF WindowsOK
<1>11. \A m \in r.out : Typed(m)
    BY <1>5, <1>7, SMTT(30) DEF LocalOK
<1>12. Good(n, r, i)
    BY <1>7, <1>8, <1>9, <1>10, <1>11 DEF Good, Kept, LocalOK, RootOK
<1> QED
    BY <1>7, <1>12 DEF r

(* The commit index is only raised, to a retained index.                   *)
LEMMA AdvanceCommitGood ==
    ASSUME NEW i, NEW n, LocalOK(n, i), n.role = "Leader"
    PROVE  LET r == AdvanceCommit(n, i) IN Good(n, r, i) /\ r.role = "Leader"
<1> DEFINE matched == [m \in Member |->
                          IF m = i THEN LastIndex(n)
                          ELSE IF m \in DOMAIN n.prog THEN n.prog[m].matched ELSE 0]
           k == QuorumIndex(matched)
           r == [n EXCEPT !.commit = k]
<1>1. \/ AdvanceCommit(n, i) = n
      \/ k > n.commit /\ Retained(n, k) /\ AdvanceCommit(n, i) = r
    BY DEF AdvanceCommit, HasTerm
<1> HIDE DEF k
<1>2. ASSUME k > n.commit, Retained(n, k)
      PROVE  Good(n, r, i) /\ r.role = "Leader"
    <2>1. /\ Shape(r) /\ r.prog = n.prog /\ r.commit = k
          /\ r.term = n.term /\ r.voted = n.voted
          /\ r.snap = n.snap /\ r.log = n.log /\ r.role = n.role
          /\ r.incoming = n.incoming /\ r.handoff = n.handoff /\ r.out = n.out
        BY Zenon DEF LocalOK, Shape, Fields
    <2>2. /\ n.snap.index \in Nat /\ LastIndex(n) \in Nat /\ n.commit \in Nat
          /\ k \in n.snap.index..LastIndex(n)
        BY <1>2 DEF LocalOK, RootOK, LastIndex, Retained
    <2>3. k \in Nat
        BY <2>2, SMTT(30)
    <2> HIDE DEF r
    <2>4. RootOK(r) /\ LastIndex(r) = LastIndex(n)
        BY <2>1, <2>2, <2>3, SMTT(20) DEF LocalOK, RootOK, ValidRoot, LastIndex
    <2>5. IncomingOK(r, i) /\ Standing(r, i)
        BY <2>1 DEF LocalOK, IncomingOK, Standing
    <2>6. WindowsOK(r, i)
        BY <2>1, <2>4 DEF LocalOK, WindowsOK
    <2> QED
        BY <1>2, <2>1, <2>2, <2>3, <2>4, <2>5, <2>6 DEF Good, Kept, LocalOK
<1> QED
    BY <1>1, <1>2, GoodSelf, Zenon

-----------------------------------------------------------------------------
(* Elections, pre-votes and probes *)

(* A message about an election or a probe is typed by its addresses.       *)
LEMMA PollTyped ==
    ASSUME NEW m, m.from \in Member, m.to \in Member, m.term \in Nat,
           m.type \in {"PreVoteRequest", "PreVoteReply", "QuorumProbe", "QuorumReply",
                       "RequestVote", "Vote", "TimeoutNow"}
    PROVE  Typed(m)
BY DEF Typed, Kinds, LeaderKinds

(* Repeating a probe is good.                                              *)
LEMMA RetryQuorumProbeGood ==
    ASSUME Grounds, NEW i \in Member, NEW n, LocalOK(n, i)
    PROVE  Good(n, RetryQuorumProbe(n, i), i)
<1> DEFINE S == {[type |-> "QuorumProbe", from |-> i, to |-> v,
                  term |-> n.term, round |-> n.probe.round] : v \in Voters \ n.probe.voters}
<1>1. RetryQuorumProbe(n, i) \in {n, Emit(n, S)}
    BY DEF RetryQuorumProbe
<1>2. \A m \in S : m.type = "QuorumProbe" /\ m.from = i /\ m.to \in Voters /\ m.term = n.term
    OBVIOUS
<1> HIDE DEF S
<1>3. \A m \in S : Typed(m)
    BY <1>2, PollTyped DEF Grounds, LocalOK, RootOK
<1>4. Good(n, Emit(n, S), i)
    BY <1>3, EmitGood
<1> QED
    BY <1>1, <1>4, GoodSelf

(* So is starting one.                                                     *)
LEMMA StartQuorumProbeGood ==
    ASSUME Grounds, NEW i \in Member, NEW n, LocalOK(n, i)
    PROVE  Good(n, StartQuorumProbe(n, i), i)
<1> DEFINE a == [n EXCEPT !.round = @ + 1,
                          !.probe = [round |-> n.round + 1, voters |-> {i}]]
<1>1. Calm(n, a)
    BY Zenon DEF Calm, LocalOK, Shape, Fields
<1>2. StartQuorumProbe(n, i) = RetryQuorumProbe(a, i)
    BY DEF StartQuorumProbe
<1> HIDE DEF a
<1>3. Good(n, a, i)
    BY <1>1, CalmOK
<1>4. Good(a, RetryQuorumProbe(a, i), i)
    BY <1>3, RetryQuorumProbeGood DEF Good
<1> QED
    BY <1>2, <1>3, <1>4, GoodTrans

(* A new leader adds an entry of its term when the log has room.           *)
LEMMA BecomeLeaderGood ==
    ASSUME Grounds, NEW i \in Member, NEW n, LocalOK(n, i), n.role = "Candidate"
    PROVE  Good(n, BecomeLeader(n, i), i)
<1> DEFINE progress == [matched |-> 0, next |-> LastIndex(n) + 1, flight |-> {},
                        probing |-> TRUE, sentCommit |-> 0, issued |-> 0]
           P == [p \in Member \ {i} |-> progress]
           e == [term |-> n.term, command |-> Noop]
           L == IF Len(n.log) < MaxLogEntries THEN Append(n.log, e) ELSE n.log
           lead == [n EXCEPT !.role = "Leader", !.leader = i, !.prog = P, !.log = L]
           c == AdvanceCommit(lead, i)
           sent == Broadcast(c, i, FALSE)
<1>1. BecomeLeader(n, i) \in {sent, StartQuorumProbe(sent, i)}
    BY Zenon DEF BecomeLeader
<1>a. /\ n.incoming = Nobody /\ i \in Voters /\ n.term > 0
    BY DEF LocalOK, Standing, IncomingOK
<1>b. MaxLogEntries \in Nat
    BY KernelAssumption DEF KernelAssumption
<1>c. RootOK(n)
    BY DEF LocalOK
<1>2. /\ n.log \in Seq(Entry) /\ n.term \in Nat \ {0} /\ n.snap.term \in Nat
      /\ n.snap.term <= n.term /\ Nondecreasing(n.snap.term, n.log, n.term)
      /\ n.snap.index \in Nat /\ Len(n.log) <= MaxLogEntries /\ n.commit \in Nat
      /\ n.snap.index <= n.commit /\ n.commit <= LastIndex(n)
    BY <1>a, <1>c, RootNumbers
<1>3. /\ L \in Seq(Entry) /\ Len(L) >= Len(n.log) /\ Len(L) <= MaxLogEntries
      /\ \A k \in 1..Len(n.log) : L[k] = n.log[k]
      /\ \A k \in (Len(n.log) + 1)..Len(L) : L[k].term = n.term
    <2>1. e \in Entry /\ e.term = n.term
        BY <1>2 DEF Entry
    <2> HIDE DEF e
    <2>2. CASE Len(n.log) < MaxLogEntries
        <3>1. L = Append(n.log, e)
            BY <2>2
        <3> HIDE DEF L
        <3>2. /\ L \in Seq(Entry) /\ Len(L) = Len(n.log) + 1
              /\ \A k \in 1..Len(n.log) : L[k] = n.log[k]
              /\ L[Len(n.log) + 1] = e
            BY <1>2, <2>1, <3>1
        <3>3. Len(n.log) \in Nat
            BY <1>2
        <3> QED
            BY <1>b, <2>1, <2>2, <3>2, <3>3
    <2>3. CASE ~(Len(n.log) < MaxLogEntries)
        BY <1>2, <2>3
    <2> QED
        BY <2>2, <2>3
<1> HIDE DEF L
<1>4. Nondecreasing(n.snap.term, L, n.term)
    BY <1>2, <1>3, LogMayGrow, Zenon
<1>5. progress \in Progress /\ progress.matched = 0
      /\ progress.next = LastIndex(n) + 1 /\ progress.flight = {}
    BY <1>2 DEF Progress, LastIndex
<1> HIDE DEF progress
<1>6. /\ DOMAIN P = Member \ {i} /\ P = [p \in Member \ {i} |-> P[p]]
      /\ \A p \in Member \ {i} : P[p] = progress
    OBVIOUS
<1> HIDE DEF P
<1>7. /\ Shape(lead) /\ lead.prog = P /\ lead.log = L /\ lead.role = "Leader"
      /\ lead.term = n.term /\ lead.voted = n.voted /\ lead.commit = n.commit
      /\ lead.snap = n.snap /\ lead.incoming = n.incoming /\ lead.handoff = n.handoff
      /\ lead.out = n.out
    BY ZenonT(30) DEF LocalOK, Shape, Fields
<1> HIDE DEF lead
<1>8. LastIndex(lead) \in Nat /\ LastIndex(n) \in Nat /\ LastIndex(n) <= LastIndex(lead)
    <2>1. Len(L) \in Nat /\ Len(n.log) \in Nat /\ Len(n.log) <= Len(L) /\ n.snap.index \in Nat
        BY <1>2, <1>3
    <2>2. LastIndex(lead) = n.snap.index + Len(L) /\ LastIndex(n) = n.snap.index + Len(n.log)
        BY <1>7, SMTT(30) DEF LastIndex
    <2> QED
        BY <2>1, <2>2, SMTT(30)
<1>9. RootOK(lead)
    <2>1. lead.commit \in lead.snap.index..LastIndex(lead)
        BY <1>2, <1>7, <1>8
    <2> QED
        BY <1>2, <1>3, <1>4, <1>7, <1>c, <2>1, SMTT(30) DEF RootOK, ValidRoot
<1>10. PeerOK(progress, lead.snap.index, LastIndex(lead))
    BY <1>5, <1>8 DEF PeerOK, Within, Grounds, SetFacts
<1>11. WindowsOK(lead, i)
    BY <1>6, <1>7, <1>10, SMTT(30) DEF WindowsOK
<1>12. IncomingOK(lead, i) /\ Standing(lead, i)
    BY <1>a, <1>7 DEF LocalOK, IncomingOK, Standing
<1>13. Good(n, lead, i)
    BY <1>2, <1>7, <1>9, <1>11, <1>12 DEF Good, Kept, LocalOK
<1>14. Good(lead, c, i) /\ c.role = "Leader"
    BY <1>7, <1>13, AdvanceCommitGood DEF Good
<1> HIDE DEF c
<1>15. Good(c, sent, i)
    BY <1>14, BroadcastGood, Zenon DEF Good
<1> HIDE DEF sent
<1>16. Good(sent, StartQuorumProbe(sent, i), i)
    BY <1>15, StartQuorumProbeGood DEF Good
<1>17. Good(n, sent, i)
    BY <1>13, <1>14, <1>15, GoodTrans DEF Good
<1>18. Good(n, StartQuorumProbe(sent, i), i)
    BY <1>16, <1>17, GoodTrans
<1> QED
    BY <1>1, <1>17, <1>18

(* Campaigning is good for a voter.                                        *)
LEMMA CampaignGood ==
    ASSUME Grounds, NEW i \in Voters, NEW n, LocalOK(n, i)
    PROVE  Good(n, Campaign(n, i), i)
<1> DEFINE f == Follow(n, n.term + 1)
           c == [f EXCEPT !.role = "Candidate", !.voted = i, !.votes = {i}]
           S == {[type |-> "RequestVote", from |-> i, to |-> v,
                  term |-> c.term, lastIndex |-> LastIndex(n),
                  lastTerm |-> LastTerm(n)] : v \in Voters \ {i}}
<1>1. Campaign(n, i) \in {n, BecomeLeader(c, i), Emit(c, S)}
    BY DEF Campaign
<1>2. n.term + 1 \in Nat /\ n.term + 1 > n.term /\ i \in Member
    BY DEF LocalOK, RootOK, Grounds
<1>3. /\ Good(n, f, i) /\ f.term = n.term + 1 /\ f.role = "Follower" /\ f.incoming = Nobody
    BY <1>2, FollowGood
<1> HIDE DEF f
<1>4. /\ Shape(c) /\ c.role = "Candidate" /\ c.voted = i
      /\ c.term = f.term /\ c.commit = f.commit /\ c.snap = f.snap /\ c.log = f.log
      /\ c.prog = f.prog /\ c.incoming = f.incoming /\ c.handoff = f.handoff
      /\ c.out = f.out
    BY <1>3, ZenonT(30) DEF Good, LocalOK, Shape, Fields
<1>5. \A m \in S : m.type = "RequestVote" /\ m.from = i /\ m.to \in Voters /\ m.term = c.term
    OBVIOUS
<1> HIDE DEF c, S
<1>6. RootOK(c)
    <2>1. RootOK(f) /\ f.term > 0
        BY <1>2, <1>3, SMTT(30) DEF Good, LocalOK, RootOK
    <2> QED
        BY <1>2, <1>4, <2>1, SMTT(30) DEF RootOK, ValidRoot, LastIndex
<1>7. WindowsOK(c, i) /\ IncomingOK(c, i)
    BY <1>3, <1>4, SMTT(30) DEF Good, LocalOK, WindowsOK, IncomingOK
<1>8. Standing(c, i)
    BY <1>2, <1>3, <1>4, SMTT(30) DEF Good, LocalOK, RootOK, Standing
<1>9. Good(n, c, i)
    BY <1>3, <1>4, <1>6, <1>7, <1>8, SMTT(20) DEF Good, Kept, LocalOK
<1>10. \A m \in S : Typed(m)
    BY <1>2, <1>5, <1>6, PollTyped DEF Grounds, RootOK
<1>11. Good(c, Emit(c, S), i)
    BY <1>9, <1>10, EmitGood DEF Good
<1>12. Good(c, BecomeLeader(c, i), i)
    BY <1>2, <1>4, <1>9, BecomeLeaderGood DEF Good
<1>13. Good(n, Emit(c, S), i) /\ Good(n, BecomeLeader(c, i), i)
    BY <1>9, <1>11, <1>12, GoodTrans
<1> QED
    BY <1>1, <1>13, GoodSelf

(* So is asking for pre-votes.                                             *)
LEMMA PreCampaignGood ==
    ASSUME Grounds, NEW i \in Voters, NEW n, LocalOK(n, i)
    PROVE  Good(n, PreCampaign(n, i), i)
<1> DEFINE f == Follow(n, n.term)
           c == [f EXCEPT !.incoming = Nobody, !.role = "PreCandidate"]
           r == [round |-> n.round + 1, term |-> n.term + 1, voters |-> {i}]
           a == [c EXCEPT !.round = @ + 1, !.pre = r]
           S == {[type |-> "PreVoteRequest", from |-> i, to |-> v, term |-> 0,
                  prospective |-> r.term, round |-> r.round,
                  lastIndex |-> LastIndex(n), lastTerm |-> LastTerm(n)] :
                 v \in Voters \ {i}}
<1>1. PreCampaign(n, i) \in {Campaign(c, i), Emit(a, S)}
    BY DEF PreCampaign
<1>2. n.term \in Nat /\ i \in Member
    BY DEF LocalOK, RootOK, Grounds
<1>3. Good(n, f, i) /\ f.role = "Follower"
    BY <1>2, FollowGood, SMTT(30)
<1>4. \A m \in S : m.type = "PreVoteRequest" /\ m.from = i /\ m.to \in Voters /\ m.term = 0
    OBVIOUS
<1> HIDE DEF f, r, S
<1>5. /\ Shape(c) /\ c.role = "PreCandidate" /\ c.voted = f.voted /\ c.incoming = Nobody
      /\ c.term = f.term /\ c.commit = f.commit /\ c.snap = f.snap /\ c.log = f.log
      /\ c.prog = f.prog /\ c.handoff = f.handoff /\ c.out = f.out
    BY <1>3, ZenonT(30) DEF Good, LocalOK, Shape, Fields
<1> HIDE DEF c
<1>6. RootOK(c)
    BY <1>3, <1>5, RootKept, Zenon DEF Good, LocalOK
<1>7. WindowsOK(c, i) /\ IncomingOK(c, i) /\ Standing(c, i)
    BY <1>3, <1>5, SMTT(30) DEF Good, LocalOK, WindowsOK, IncomingOK, Standing
<1>8. Good(n, c, i)
    BY <1>3, <1>5, <1>6, <1>7 DEF Good, Kept, LocalOK
<1>9. Calm(c, a)
    BY <1>5, ZenonT(30) DEF Calm, Shape, Fields
<1> HIDE DEF a
<1>10. Good(c, a, i)
    BY <1>8, <1>9, CalmOK DEF Good
<1>11. \A m \in S : Typed(m)
    BY <1>2, <1>4, PollTyped DEF Grounds
<1>12. Good(a, Emit(a, S), i)
    BY <1>10, <1>11, EmitGood DEF Good
<1>13. Good(c, Campaign(c, i), i)
    BY <1>8, CampaignGood DEF Good
<1>14. Good(n, a, i)
    BY <1>8, <1>10, GoodTrans
<1>15. Good(n, Emit(a, S), i) /\ Good(n, Campaign(c, i), i)
    BY <1>8, <1>12, <1>13, <1>14, GoodTrans
<1> QED
    BY <1>1, <1>15

(* So is the liveness timeout of a voter.                                  *)
LEMMA OnLivenessTimeoutGood ==
    ASSUME Grounds, NEW i \in Voters, NEW n, LocalOK(n, i)
    PROVE  Good(n, OnLivenessTimeout(n, i), i)
<1> DEFINE e == [n EXCEPT !.handoff = Nobody, !.enabled = TRUE]
<1>1. OnLivenessTimeout(n, i) \in
          {PreCampaign(e, i), Follow(e, n.term), StartQuorumProbe(e, i)}
    BY DEF OnLivenessTimeout
<1>2. n.term \in Nat /\ i \in Member
    BY DEF LocalOK, RootOK, Grounds
<1>3. /\ Shape(e) /\ e.role = n.role /\ e.voted = n.voted /\ e.incoming = n.incoming
      /\ e.term = n.term /\ e.commit = n.commit /\ e.snap = n.snap /\ e.log = n.log
      /\ e.prog = n.prog /\ e.handoff = Nobody /\ e.out = n.out
    BY Zenon DEF LocalOK, Shape, Fields
<1> HIDE DEF e
<1>4. RootOK(e)
    BY <1>3 DEF LocalOK, RootOK, ValidRoot, LastIndex
<1>5. WindowsOK(e, i)
    BY <1>3, SMTT(30) DEF LocalOK, WindowsOK, LastIndex
<1>6. IncomingOK(e, i) /\ Standing(e, i)
    BY <1>3, SMTT(30) DEF LocalOK, IncomingOK, Standing
<1>7. Good(n, e, i)
    BY <1>3, <1>4, <1>5, <1>6 DEF Good, Kept, LocalOK, RootOK
<1>8. Good(e, PreCampaign(e, i), i)
    BY <1>7, PreCampaignGood DEF Good
<1>9. Good(e, Follow(e, n.term), i)
    BY <1>2, <1>7, FollowGood, Zenon DEF Good
<1>10. Good(e, StartQuorumProbe(e, i), i)
    BY <1>2, <1>7, StartQuorumProbeGood DEF Good
<1> QED
    BY <1>1, <1>7, <1>8, <1>9, <1>10, GoodTrans

(* Answering a pre-vote request is good.                                   *)
LEMMA OnPreVoteRequestGood ==
    ASSUME NEW i \in Member, NEW n, LocalOK(n, i), NEW m, m.from \in Member
    PROVE  Good(n, OnPreVoteRequest(n, i, m), i)
<1>1. PICK g : OnPreVoteRequest(n, i, m)
                 = Emit(n, {[type |-> "PreVoteReply", from |-> i, to |-> m.from,
                             term |-> n.term, prospective |-> m.prospective,
                             round |-> m.round, granted |-> g]})
    BY Zenon DEF OnPreVoteRequest
<1> DEFINE q == [type |-> "PreVoteReply", from |-> i, to |-> m.from,
                 term |-> n.term, prospective |-> m.prospective,
                 round |-> m.round, granted |-> g]
<1>2. q.type = "PreVoteReply" /\ q.from = i /\ q.to = m.from /\ q.term = n.term
    OBVIOUS
<1> HIDE DEF q
<1>3. Typed(q)
    BY <1>2, PollTyped DEF LocalOK, RootOK
<1>4. Good(n, Emit(n, {q}), i)
    BY <1>3, EmitGood
<1> QED
    BY <1>1, <1>4 DEF q

(* A quorum of pre-votes starts a campaign.                                *)
LEMMA OnPreVoteReplyGood ==
    ASSUME Grounds, NEW i \in Member, NEW n, LocalOK(n, i), NEW m
    PROVE  Good(n, OnPreVoteReply(n, i, m), i)
<1> DEFINE c == [n EXCEPT !.pre.voters = @ \cup {m.from}]
<1>1. \/ OnPreVoteReply(n, i, m) = n
      \/ n.role = "PreCandidate" /\ OnPreVoteReply(n, i, m) \in {Campaign(c, i), c}
    BY DEF OnPreVoteReply
<1>2. PICK x : c = [n EXCEPT !.pre = x]
    BY Zenon
<1> HIDE DEF c
<1>3. Calm(n, c)
    BY <1>2 DEF Calm, LocalOK, Shape, Fields
<1>4. Good(n, c, i)
    BY <1>3, CalmOK
<1>5. ASSUME n.role = "PreCandidate" PROVE Good(n, Campaign(c, i), i)
    <2>1. i \in Voters
        BY <1>5 DEF LocalOK, Standing
    <2>2. Good(c, Campaign(c, i), i)
        BY <1>4, <2>1, CampaignGood DEF Good
    <2> QED
        BY <1>4, <2>2, GoodTrans
<1> QED
    BY <1>1, <1>4, <1>5, GoodSelf

(* Answering a leader's probe is good.                                     *)
LEMMA OnQuorumProbeGood ==
    ASSUME NEW i \in Member, NEW n, LocalOK(n, i), NEW m, m.from \in Member, m.term \in Nat
    PROVE  Good(n, OnQuorumProbe(n, i, m), i)
<1> DEFINE f == IF m.term = n.term THEN AcceptLeader(n, m.from, m.term) ELSE n
           q == [type |-> "QuorumReply", from |-> i, to |-> m.from,
                 term |-> n.term, round |-> m.round]
<1>1. OnQuorumProbe(n, i, m) \in {f, Emit(f, {q})}
    BY SMTT(30) DEF OnQuorumProbe
<1>2. Good(n, AcceptLeader(n, m.from, m.term), i)
    BY AcceptLeaderGood
<1>3. Good(n, f, i)
    BY <1>2, GoodSelf
<1>4. q.type = "QuorumReply" /\ q.from = i /\ q.to = m.from /\ q.term = n.term
    OBVIOUS
<1> HIDE DEF f, q
<1>5. Typed(q)
    BY <1>4, PollTyped DEF LocalOK, RootOK
<1>6. Good(f, Emit(f, {q}), i)
    BY <1>3, <1>5, EmitGood DEF Good
<1> QED
    BY <1>1, <1>3, <1>6, GoodTrans

(* So is an answer to one.                                                 *)
LEMMA OnQuorumReplyGood ==
    ASSUME NEW i, NEW n, LocalOK(n, i), NEW m
    PROVE  Good(n, OnQuorumReply(n, m), i)
<1> DEFINE c == [n EXCEPT !.probe.voters = @ \cup {m.from}]
<1>1. OnQuorumReply(n, m) \in {n, c}
    BY DEF OnQuorumReply
<1>2. PICK x : c = [n EXCEPT !.probe = x]
    BY Zenon
<1> HIDE DEF c
<1>3. Calm(n, c)
    BY <1>2 DEF Calm, LocalOK, Shape, Fields
<1> QED
    BY <1>1, <1>3, CalmOK, GoodSelf

(* A vote is granted to a voter, in a term that has begun.                 *)
LEMMA OnRequestVoteGood ==
    ASSUME NEW i \in Member, NEW n, LocalOK(n, i),
           NEW m, Typed(m), m.from \in Voters, m.term # 0
    PROVE  Good(n, OnRequestVote(n, i, m), i)
<1> DEFINE granted == /\ m.term = n.term
                      /\ i \in Voters
                      /\ n.voted \in {Nobody, m.from}
                      /\ UpToDate(n, m.lastIndex, m.lastTerm)
           f == IF granted /\ n.role = "PreCandidate" THEN Follow(n, m.term) ELSE n
           a == [f EXCEPT !.voted = IF granted THEN m.from ELSE @]
           q == [type |-> "Vote", from |-> i, to |-> m.from, term |-> n.term,
                 granted |-> granted]
<1>1. OnRequestVote(n, i, m) = Emit(a, {q})
    BY DEF OnRequestVote
<1>2. granted => m.term = n.term
    BY SMTT(30)
<1>3. q.type = "Vote" /\ q.from = i /\ q.to = m.from /\ q.term = n.term
    BY SMTT(30)
<1> HIDE DEF granted, q
<1>4. n.term \in Nat /\ m.term \in Nat /\ m.from \in Member
    BY SMTT(30) DEF LocalOK, RootOK, Typed
<1>5. /\ Good(n, Follow(n, m.term), i)
      /\ Follow(n, m.term).term = IF m.term > n.term THEN m.term ELSE n.term
    BY <1>4, FollowGood
<1>6. Good(n, f, i) /\ f.term = n.term
    <2>1. CASE granted /\ n.role = "PreCandidate"
        <3>1. f = Follow(n, m.term)
            BY <2>1
        <3> HIDE DEF f
        <3> QED
            BY <1>2, <1>4, <1>5, <2>1, <3>1
    <2>2. CASE ~(granted /\ n.role = "PreCandidate")
        BY <2>2, GoodSelf
    <2> QED
        BY <2>1, <2>2
<1> HIDE DEF f
<1>7. /\ Shape(a) /\ a.voted = IF granted THEN m.from ELSE f.voted
      /\ a.role = f.role /\ a.incoming = f.incoming
      /\ a.term = f.term /\ a.commit = f.commit /\ a.snap = f.snap /\ a.log = f.log
      /\ a.prog = f.prog /\ a.handoff = f.handoff /\ a.out = f.out
    BY <1>6, Zenon DEF Good, LocalOK, Shape, Fields
<1> HIDE DEF a
<1>8. RootOK(a)
    <2>1. RootOK(f)
        BY <1>6, Zenon DEF Good, LocalOK
    <2>2. granted => n.term > 0
        BY <1>2, <1>4
    <2> QED
        BY <1>4, <1>6, <1>7, <2>1, <2>2, RootKept, Zenon
<1>9. WindowsOK(a, i) /\ IncomingOK(a, i) /\ Standing(a, i)
    BY <1>6, <1>7, SeatKept, Zenon DEF Good
<1>10. \A p \in a.out : Typed(p)
    BY <1>6, <1>7, Zenon DEF Good, LocalOK
<1>11. Good(n, a, i)
    <2>1. LocalOK(a, i)
        BY <1>7, <1>8, <1>9, <1>10, Zenon DEF LocalOK
    <2>2. Kept(n, a)
        BY <1>6, <1>7, Zenon DEF Good, Kept
    <2> QED
        BY <2>1, <2>2, Zenon DEF Good
<1>12. Typed(q)
    BY <1>3, <1>4, PollTyped
<1>13. Good(a, Emit(a, {q}), i)
    BY <1>11, <1>12, EmitGood DEF Good
<1> QED
    BY <1>1, <1>11, <1>13, GoodTrans

(* A counted vote may make the candidate a leader.                         *)
LEMMA OnVoteGood ==
    ASSUME Grounds, NEW i \in Member, NEW n, LocalOK(n, i), NEW m
    PROVE  Good(n, OnVote(n, i, m), i)
<1> DEFINE c == [n EXCEPT !.votes = @ \cup {m.from}]
<1>1. \/ OnVote(n, i, m) = n
      \/ n.role = "Candidate" /\ OnVote(n, i, m) \in {BecomeLeader(c, i), c}
    BY DEF OnVote
<1>2. Calm(n, c)
    BY Zenon DEF Calm, LocalOK, Shape, Fields
<1> HIDE DEF c
<1>3. Good(n, c, i) /\ c.role = n.role
    BY <1>2, CalmOK DEF Calm
<1>4. n.role = "Candidate" => Good(c, BecomeLeader(c, i), i)
    BY <1>3, BecomeLeaderGood DEF Good
<1> QED
    BY <1>1, <1>3, <1>4, GoodTrans, GoodSelf

(* A handoff's target campaigns if it votes.                               *)
LEMMA OnTimeoutNowGood ==
    ASSUME Grounds, NEW i \in Member, NEW n, LocalOK(n, i), NEW m
    PROVE  Good(n, OnTimeoutNow(n, i, m), i)
<1>1. OnTimeoutNow(n, i, m) = n \/ (i \in Voters /\ OnTimeoutNow(n, i, m) = Campaign(n, i))
    BY DEF OnTimeoutNow
<1> QED
    BY <1>1, CampaignGood, GoodSelf

-----------------------------------------------------------------------------
(* Appends *)

(* A member that misses the predecessor names an index to resume at.       *)
LEMMA ConflictNextNumber ==
    ASSUME Grounds, NEW n, RootOK(n), NEW prev \in Nat
    PROVE  ConflictNext(n, prev) \in Nat
<1> DEFINE base == n.snap.index
           cap  == IF prev < 1 THEN 1 ELSE prev
           next == IF LastIndex(n) + 1 < cap THEN LastIndex(n) + 1 ELSE cap
           run(x) == \A y \in x..(next - 1) : TermAt(n, y) = TermAt(n, prev)
           found == CHOOSE x \in (base + 1)..next : run(x) /\ (x = base + 1 \/ ~run(x - 1))
<1>1. base \in Nat /\ next \in Nat
    BY SMTT(30) DEF RootOK, LastIndex
<1> HIDE DEF base, next
<1>2. \/ ConflictNext(n, prev) \in {base + 1, next}
      \/ ~(next <= base + 1) /\ ConflictNext(n, prev) = found
    BY DEF ConflictNext, base, next
<1>3. ASSUME ~(next <= base + 1)
      PROVE  found \in Nat
    <2> DEFINE S == {x \in (base + 1)..next : run(x)}
    <2>1. next \in S
        BY <1>1, <1>3
    <2>2. S \subseteq Nat
        BY <1>1
    <2>3. PICK x \in S : \A j \in S : x <= j
        <3> HIDE DEF S
        <3> QED
            BY <2>1, <2>2, LeastNumber, Zenon
    <2>4. x = base + 1 \/ ~run(x - 1)
        <3>1. CASE x # base + 1 /\ run(x - 1)
            <4>1. x - 1 \in (base + 1)..next
                BY <1>1, <3>1
            <4>2. x - 1 \in S
                BY <3>1, <4>1
            <4> HIDE DEF S
            <4> QED
                BY <2>2, <2>3, <4>2
        <3> QED
            BY <3>1
    <2>5. \E z \in (base + 1)..next : run(z) /\ (z = base + 1 \/ ~run(z - 1))
        BY <2>4
    <2>6. found \in (base + 1)..next
        BY <2>5
    <2> HIDE DEF found
    <2> QED
        BY <1>1, <2>6
<1> HIDE DEF found
<1> QED
    BY <1>1, <1>2, <1>3

(* Terms never decrease across the place where an append joins the log.    *)
LEMMA SplicedNondecreasing ==
    ASSUME Grounds, NEW log \in Seq(Entry), NEW entries \in Seq(Entry), NEW at \in 0..Len(log),
           NEW t \in Nat, NEW prevTerm \in Nat, NEW top \in Nat,
           prevTerm = IF at = 0 THEN t ELSE log[at].term,
           Nondecreasing(t, log, top), Nondecreasing(prevTerm, entries, top)
    PROVE  Nondecreasing(t, Spliced(log, at, entries), top)
<1> DEFINE s == Spliced(log, at, entries)
<1>1. /\ s \in Seq(Entry)
      /\ \E keep \in at..Len(log) :
             /\ Len(s) = IF keep > at + Len(entries) THEN keep ELSE at + Len(entries)
             /\ \A k \in 1..keep : s[k] = log[k]
             /\ \A k \in (keep + 1)..Len(s) : s[k] = entries[k - at]
             /\ \A k \in (at + 1)..keep :
                    k - at <= Len(entries) => log[k].term = entries[k - at].term
    BY SplicedLog, ZenonT(30)
<1> HIDE DEF s
<1>2. PICK keep \in at..Len(log) :
             /\ Len(s) = IF keep > at + Len(entries) THEN keep ELSE at + Len(entries)
             /\ \A k \in 1..keep : s[k] = log[k]
             /\ \A k \in (keep + 1)..Len(s) : s[k] = entries[k - at]
             /\ \A k \in (at + 1)..keep :
                    k - at <= Len(entries) => log[k].term = entries[k - at].term
    BY <1>1, Zenon
<1>3. /\ Len(log) \in Nat /\ Len(entries) \in Nat /\ Len(s) \in Nat
      /\ at \in Nat /\ keep \in Nat /\ at <= keep /\ keep <= Len(log)
    BY <1>1, <1>2
<1>4. \A k \in 1..Len(log) : /\ log[k].term \in 1..top
                             /\ log[k].term >= IF k = 1 THEN t ELSE log[k - 1].term
    BY SMTT(30) DEF Nondecreasing
<1>5. \A k \in 1..Len(entries) :
          /\ entries[k].term \in 1..top
          /\ entries[k].term >= IF k = 1 THEN prevTerm ELSE entries[k - 1].term
    BY DEF Nondecreasing
<1>6. SUFFICES ASSUME NEW k \in 1..Len(s)
               PROVE  /\ s[k].term \in 1..top
                      /\ s[k].term >= IF k = 1 THEN t ELSE s[k - 1].term
    BY <1>6 DEF Nondecreasing, s
<1>7. CASE k <= keep
    <2>1. s[k] = log[k] /\ k \in 1..Len(log)
        BY <1>2, <1>3, <1>7
    <2>2. k # 1 => s[k - 1] = log[k - 1]
        BY <1>2, <1>3, <1>7
    <2> QED
        BY <1>4, <2>1, <2>2, SMTT(30)
<1>8. CASE k > keep
    <2> DEFINE j == k - at
    <2>1. j \in 1..Len(entries) /\ s[k] = entries[j]
        BY <1>2, <1>3, <1>8
    <2>2. entries[j].term \in 1..top
        BY <1>5, <2>1
    <2>3. CASE j = 1
        <3>1. k = at + 1 /\ keep = at
            BY <1>3, <1>8, <2>3
        <3>2. k # 1 => s[k - 1] = log[at] /\ at # 0
            BY <1>2, <1>3, <3>1
        <3>3. entries[j].term >= prevTerm
            BY <1>5, <2>1, <2>3
        <3>4. k = 1 => at = 0
            BY <1>3, <3>1
        <3> HIDE DEF j
        <3> QED
            BY <2>1, <2>2, <3>2, <3>3, <3>4, SMTT(30)
    <2>4. CASE j # 1
        <3>0. k # 1
            BY <1>3, <2>1, <2>4
        <3>1. entries[j].term >= entries[j - 1].term
            <4> HIDE DEF j
            <4> QED
                BY <1>5, <2>1, <2>4, Zenon
        <3>2. s[k - 1].term = entries[j - 1].term
            <4>1. CASE k - 1 > keep
                <5>1. k - 1 \in (keep + 1)..Len(s) /\ (k - 1) - at = j - 1
                    BY <1>3, <4>1
                <5> HIDE DEF j
                <5> QED
                    BY <1>2, <5>1, Zenon
            <4>2. CASE ~(k - 1 > keep)
                <5>1. k - 1 = keep /\ keep \in (at + 1)..keep /\ keep - at = j - 1
                      /\ j - 1 <= Len(entries) /\ keep \in 1..keep
                    BY <1>3, <1>8, <2>1, <2>4, <4>2, SMTT(30)
                <5>2. s[k - 1] = log[keep] /\ log[keep].term = entries[keep - at].term
                    BY <1>2, <5>1
                <5> HIDE DEF j
                <5> QED
                    BY <5>1, <5>2
            <4> QED
                BY <4>1, <4>2
        <3> HIDE DEF j
        <3> QED
            BY <2>1, <2>2, <3>0, <3>1, <3>2
    <2> QED
        BY <2>3, <2>4
<1> QED
    BY <1>3, <1>7, <1>8

(* A reply about the log is typed.                                         *)
LEMMA AppendedTyped ==
    ASSUME NEW i \in Member, NEW n, n.term \in Nat, NEW m, m.from \in Member \ {i},
           NEW success, NEW next \in Nat
    PROVE  Typed(Appended(n, i, m, success, next))
<1> DEFINE q == Appended(n, i, m, success, next)
<1>1. /\ q.type = "Appended" /\ q.from = i /\ q.to = m.from /\ q.term = n.term
      /\ q.conflictNext = next
    BY DEF Appended
<1> HIDE DEF q
<1>2. Typed(q)
    BY <1>1 DEF Typed, Kinds, LeaderKinds
<1> QED
    BY <1>2 DEF q

(* An append that fits and contradicts nothing committed leaves a log that *)
(* fits and holds everything committed.                                    *)
LEMMA SplicedFits ==
    ASSUME Grounds, NEW log \in Seq(Entry), NEW entries \in Seq(Entry), NEW at \in 0..Len(log),
           NEW base \in Nat, NEW commit \in Nat, commit <= base + Len(log),
           NEW max \in Nat, Len(log) <= max, at + Len(entries) <= max,
           \A k \in 1..Len(entries) :
               base + at + k <= commit => log[at + k].term = entries[k].term
    PROVE  LET s == Spliced(log, at, entries)
           IN  /\ s \in Seq(Entry) /\ Len(s) <= max
               /\ at + Len(entries) <= Len(s) /\ commit <= base + Len(s)
<1> DEFINE s == Spliced(log, at, entries)
<1>1. /\ s \in Seq(Entry)
      /\ \E keep \in at..Len(log) :
             /\ Len(s) = IF keep > at + Len(entries) THEN keep ELSE at + Len(entries)
             /\ \A k \in 1..keep : s[k] = log[k]
             /\ \A k \in (keep + 1)..Len(s) : s[k] = entries[k - at]
             /\ \A k \in (at + 1)..keep :
                    k - at <= Len(entries) => log[k].term = entries[k - at].term
             /\ \/ keep = Len(log)
                \/ /\ keep + 1 - at \in 1..Len(entries)
                   /\ log[keep + 1].term # entries[keep + 1 - at].term
    BY SplicedLog, Zenon
<1> HIDE DEF s
<1>2. PICK keep \in at..Len(log) :
             /\ Len(s) = IF keep > at + Len(entries) THEN keep ELSE at + Len(entries)
             /\ \/ keep = Len(log)
                \/ /\ keep + 1 - at \in 1..Len(entries)
                   /\ log[keep + 1].term # entries[keep + 1 - at].term
    BY <1>1, ZenonT(30)
<1>3. /\ Len(log) \in Nat /\ Len(entries) \in Nat /\ Len(s) \in Nat
      /\ keep \in Nat /\ at \in Nat /\ keep <= Len(log)
    <2>1. s \in Seq(Entry)
        BY <1>1, Zenon
    <2>2. Len(log) \in Nat /\ Len(entries) \in Nat /\ Len(s) \in Nat
        BY <2>1
    <2> QED
        BY <2>2
<1>4. Len(s) <= max /\ at + Len(entries) <= Len(s)
    BY <1>2, <1>3
<1>5. commit <= base + Len(s)
    <2>1. CASE keep = Len(log)
        BY <1>2, <1>3, <2>1
    <2>2. CASE keep # Len(log)
        <3>1. keep + 1 - at \in 1..Len(entries)
              /\ log[keep + 1].term # entries[keep + 1 - at].term
            BY <1>2, <2>2
        <3>2. at + (keep + 1 - at) = keep + 1 /\ base + at + (keep + 1 - at) = base + keep + 1
            BY <1>3
        <3>3. ~(base + keep + 1 <= commit)
            BY <3>1, <3>2
        <3> QED
            BY <1>2, <1>3, <3>3
    <2> QED
        BY <2>1, <2>2
<1> QED
    BY <1>1, <1>4, <1>5 DEF s

(* An append that joins the log after `at` positions, fits, and contradicts *)
(* nothing committed.                                                      *)
JoinsAt(n, m, at) ==
    /\ at \in 0..Len(n.log) /\ m.prevIndex = n.snap.index + at
    /\ m.prevTerm = IF at = 0 THEN n.snap.term ELSE n.log[at].term
    /\ Nondecreasing(m.prevTerm, m.entries, m.term)
    /\ at + Len(m.entries) <= MaxLogEntries
    /\ \A k \in 1..Len(m.entries) :
           n.snap.index + at + k <= n.commit => n.log[at + k].term = m.entries[k].term

=============================================================================
