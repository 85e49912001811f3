----------------------------- MODULE RaftProofs -----------------------------
(***************************************************************************)
(* Election safety of Raft, for every configuration, log, window, crash and*)
(* message order: no two members speak as leader of the same term, and a   *)
(* published vote is never changed within its term.                        *)
(*                                                                         *)
(* The argument is about ballots: a released message that binds its sender *)
(* to one candidate of a term, which is a granted vote or anything only a  *)
(* leader sends. A ballot is released after the vote it shows is on disk,  *)
(* and the disk's (term, vote) only moves forward, so the ballots of one   *)
(* member and term all name one candidate; a leader has the ballots of a   *)
(* quorum, and quorums meet.                                               *)
(***************************************************************************)
EXTENDS Raft, TLAPS

(* What the argument uses of quorums.                                      *)
PlanOK ==
    /\ \A S, T : S \subseteq T /\ Quorum(S) => Quorum(T)
    /\ \A S, T : Quorum(S) /\ Quorum(T) => \E k \in Member : k \in S /\ k \in T

IsBallot(m) == (m.type = "Vote" /\ m.granted) \/ m.type \in LeaderKinds

(* The candidate a ballot names.                                           *)
Choice(m) == IF m.type = "Vote" THEN m.to ELSE m.from

(* The voters whose released ballots name i in term t.                     *)
Supporters(N, i, t) ==
    {v.from : v \in {q \in N : /\ q.type = "Vote" /\ q.granted
                               /\ q.to = i /\ q.term = t}}

Elected(N, i, t) == Quorum({i} \cup Supporters(N, i, t))

(* (term, vote) never goes back.                                           *)
Later(d, n) ==
    \/ n.term > d.term
    \/ n.term = d.term /\ (d.voted = Nobody \/ n.voted = d.voted)

IsNode(n) ==
    /\ DOMAIN n = Fields /\ n = [x \in Fields |-> n[x]]
    /\ n.term \in Nat
    /\ n.voted \in Member \cup {Nobody}

Sent(m, i) == m.from = i /\ m.term \in Nat /\ m.type \in Kinds

(* What a member's state and held output owe to the messages released.     *)
RoleOK(N, n, i) ==
    /\ n.role \in {"Candidate", "Leader"} =>
           n.voted = i /\ n.votes \subseteq {i} \cup Supporters(N, i, n.term)
    /\ n.role = "Leader" => Elected(N, i, n.term)

OutOK(N, m, n, i) ==
    /\ Sent(m, i)
    /\ IsBallot(m) => /\ m.term = n.term
                      /\ Choice(m) = n.voted /\ n.voted \in Member
    /\ m.type \in LeaderKinds => Elected(N, i, n.term)

NodeOK(N, n, i) ==
    /\ IsNode(n) /\ RoleOK(N, n, i)
    /\ \A m \in n.out : OutOK(N, m, n, i)

(* A step that leaves the election state alone and speaks as leader only   *)
(* when it is one.                                                         *)
Steady(n, r, i) ==
    /\ DOMAIN r = Fields /\ r = [x \in Fields |-> r[x]]
    /\ r.term = n.term /\ r.voted = n.voted /\ r.role = n.role /\ r.votes = n.votes
    /\ \A m \in r.out : \/ m \in n.out
                        \/ /\ Sent(m, i)
                           /\ IsBallot(m) => /\ m.type \in LeaderKinds
                                             /\ m.term = n.term /\ n.role = "Leader"

Bound(d, t, j) == d.term > t \/ (d.term = t /\ d.voted = j)

NetOK(N, d) ==
    \A m \in N :
        /\ m.from \in Member /\ Sent(m, m.from)
        /\ IsBallot(m) => Choice(m) \in Member /\ Bound(d[m.from], m.term, Choice(m))
        /\ m.type \in LeaderKinds => Elected(N, m.from, m.term)

OneChoice(N) ==
    \A m1, m2 \in N :
        IsBallot(m1) /\ IsBallot(m2) /\ m1.from = m2.from /\ m1.term = m2.term =>
            Choice(m1) = Choice(m2)

(* A member that is open has published its vote; one that is publishing    *)
(* moves it forward.                                                       *)
MemberOK(N, n, d, g, i) ==
    /\ NodeOK(N, n, i)
    /\ d.term \in Nat /\ d.voted \in Member \cup {Nobody}
    /\ g \in {"open", "pending", "poisoned"}
    /\ g = "open" => n.out = {} /\ d.term = n.term /\ d.voted = n.voted
    /\ g = "pending" => Later(d, n)

Sound(nodes, disks, gates, N) ==
    /\ DOMAIN nodes = Member /\ nodes = [i \in Member |-> nodes[i]]
    /\ DOMAIN disks = Member /\ disks = [i \in Member |-> disks[i]]
    /\ DOMAIN gates = Member /\ gates = [i \in Member |-> gates[i]]
    /\ \A i \in Member : MemberOK(N, nodes[i], disks[i], gates[i], i)
    /\ NetOK(N, disks)
    /\ OneChoice(N)

ElectionInv == PlanOK /\ Sound(node, disk, gate, net)

-----------------------------------------------------------------------------
(* Quorums *)

(* A superset of a quorum is a quorum.                                     *)
LEMMA QuorumGrows ==
    ASSUME PlanOK, NEW S, NEW T, S \subseteq T, Quorum(S)
    PROVE  Quorum(T)
BY Zenon DEF PlanOK

(* Any two quorums share a member, joint configurations included.          *)
LEMMA QuorumsMeet ==
    ASSUME PlanOK, NEW S, NEW T, Quorum(S), Quorum(T)
    PROVE  \E k \in Member : k \in S /\ k \in T
BY Zenon DEF PlanOK

(* Releasing more messages loses no support.                               *)
LEMMA SupportGrows ==
    ASSUME PlanOK, NEW N, NEW M, N \subseteq M, NEW i, NEW t
    PROVE  /\ Supporters(N, i, t) \subseteq Supporters(M, i, t)
           /\ Elected(N, i, t) => Elected(M, i, t)
<1>1. Supporters(N, i, t) \subseteq Supporters(M, i, t)
    BY DEF Supporters
<1> QED
    BY <1>1, QuorumGrows DEF Elected

-----------------------------------------------------------------------------
(* Steps that leave the election alone *)

(* (term, vote) moving forward is transitive.                              *)
LEMMA LaterTrans ==
    ASSUME NEW d, NEW n, NEW r, d.term \in Nat, n.term \in Nat, r.term \in Nat,
           Later(d, n), Later(n, r)
    PROVE  Later(d, r)
BY DEF Later

(* A steady step preserves what a member owes, and its vote.               *)
LEMMA SteadyKeeps ==
    ASSUME NEW N, NEW i \in Member, NEW n, NEW r, NodeOK(N, n, i), Steady(n, r, i)
    PROVE  NodeOK(N, r, i) /\ Later(n, r)
<1>1. IsNode(r) /\ RoleOK(N, r, i) /\ Later(n, r)
    BY DEF NodeOK, IsNode, RoleOK, Steady, Later
<1>2. ASSUME NEW m \in r.out PROVE OutOK(N, m, r, i)
    <2>1. CASE m \in n.out
        <3>1. OutOK(N, m, n, i)
            BY <2>1 DEF NodeOK
        <3> QED
            BY <3>1 DEF OutOK, Steady
    <2>2. CASE m \notin n.out
        <3>1. /\ Sent(m, i)
              /\ IsBallot(m) => /\ m.type \in LeaderKinds
                                /\ m.term = n.term /\ n.role = "Leader"
            BY <2>2 DEF Steady
        <3>2. n.role = "Leader" => n.voted = i /\ Elected(N, i, n.term)
            BY DEF NodeOK, RoleOK
        <3>3. m.type \in LeaderKinds => IsBallot(m) /\ Choice(m) = m.from
            BY DEF IsBallot, Choice, LeaderKinds
        <3>4. r.term = n.term /\ r.voted = n.voted
            BY DEF Steady
        <3> QED
            BY <3>1, <3>2, <3>3, <3>4 DEF OutOK, Sent
    <2> QED
        BY <2>1, <2>2
<1> QED
    BY <1>1, <1>2 DEF NodeOK

(* Steady steps compose.                                                   *)
LEMMA SteadyTrans ==
    ASSUME NEW i, NEW n, NEW r, NEW s, Steady(n, r, i), Steady(r, s, i)
    PROVE  Steady(n, s, i)
BY DEF Steady

(* Emitting anything but a ballot, or as leader a ballot of its own, is    *)
(* steady.                                                                 *)
LEMMA EmitSteady ==
    ASSUME NEW n, IsNode(n), NEW i, NEW S,
           \A m \in S : /\ Sent(m, i)
                        /\ IsBallot(m) => /\ m.type \in LeaderKinds
                                          /\ m.term = n.term /\ n.role = "Leader"
    PROVE  Steady(n, Emit(n, S), i)
<1> DEFINE r == Emit(n, S)
<1>1. /\ DOMAIN r = Fields /\ r = [x \in Fields |-> r[x]]
      /\ r.term = n.term /\ r.voted = n.voted /\ r.role = n.role /\ r.votes = n.votes
      /\ r.out = n.out \cup S
    BY DEF Emit, IsNode, Fields
<1> HIDE DEF r
<1>2. Steady(n, r, i)
    BY <1>1 DEF Steady
<1> QED
    BY <1>2 DEF r

(* A steady step keeps the member well formed.                             *)
LEMMA SteadyIsNode ==
    ASSUME NEW i, NEW n, IsNode(n), NEW r, Steady(n, r, i)
    PROVE  IsNode(r)
BY DEF IsNode, Steady

(* Recording a peer's progress is steady.                                  *)
LEMMA SetProgressSteady ==
    ASSUME NEW n, IsNode(n), NEW i, NEW p, NEW g
    PROVE  Steady(n, SetProgress(n, p, g), i)
<1> DEFINE r == SetProgress(n, p, g)
<1>1. PICK P : r = [n EXCEPT !.prog = P]
    BY Zenon DEF SetProgress
<1> HIDE DEF r
<1>2. /\ DOMAIN r = Fields /\ r = [x \in Fields |-> r[x]]
      /\ r.term = n.term /\ r.voted = n.voted /\ r.role = n.role /\ r.votes = n.votes
      /\ r.out = n.out
    BY <1>1 DEF IsNode, Fields
<1>3. Steady(n, r, i)
    BY <1>2 DEF Steady
<1> QED
    BY <1>3 DEF r

(* A request of the window is sent by the leader in its term.              *)
LEMMA FlightMessageFrom ==
    ASSUME NEW n, NEW i, NEW p, NEW f, NEW m, m = FlightMessage(n, i, p, f)
    PROVE  m.from = i /\ m.term = n.term /\ m.type \in LeaderKinds
BY DEF FlightMessage, LeaderKinds

(* Filling a peer's window is steady for a leader.                         *)
LEMMA SendAppendSteady ==
    ASSUME NEW n, IsNode(n), n.role = "Leader", NEW i, NEW p, NEW retry
    PROVE  Steady(n, SendAppend(n, i, p, retry), i)
<1>1. PICK g, F : SendAppend(n, i, p, retry)
                    = Emit(SetProgress(n, p, g), {FlightMessage(n, i, p, f) : f \in F})
    BY Zenon DEF SendAppend
<1> DEFINE a == SetProgress(n, p, g)
           S == {FlightMessage(n, i, p, f) : f \in F}
<1>2. Steady(n, a, i)
    BY SetProgressSteady
<1>3. IsNode(a) /\ a.term = n.term /\ a.role = "Leader"
    BY <1>2, SteadyIsNode DEF Steady
<1>4. \A m \in S : m.from = i /\ m.term = n.term /\ m.type \in LeaderKinds
    BY FlightMessageFrom
<1> HIDE DEF a, S
<1>5. Steady(a, Emit(a, S), i)
    BY <1>3, <1>4, EmitSteady DEF IsNode, IsBallot, LeaderKinds, Sent, Kinds
<1>6. Steady(n, Emit(a, S), i)
    BY <1>2, <1>5, SteadyTrans
<1> QED
    BY <1>1, <1>6 DEF a, S

(* So is filling every window.                                             *)
LEMMA BroadcastSteady ==
    ASSUME NEW n, IsNode(n), n.role = "Leader", NEW i, NEW retry
    PROVE  Steady(n, Broadcast(n, i, retry), i)
<1> DEFINE r == Broadcast(n, i, retry)
<1>1. /\ DOMAIN r = Fields /\ r = [x \in Fields |-> r[x]]
      /\ r.term = n.term /\ r.voted = n.voted /\ r.role = n.role /\ r.votes = n.votes
    BY Zenon DEF Broadcast, IsNode, Fields
<1>2. ASSUME NEW m \in r.out, m \notin n.out
      PROVE  \E p : m \in SendAppend(n, i, p, retry).out
    BY <1>2 DEF Broadcast, IsNode, Fields
<1> HIDE DEF r
<1>3. ASSUME NEW m \in r.out, m \notin n.out
      PROVE  /\ Sent(m, i)
             /\ IsBallot(m) => /\ m.type \in LeaderKinds
                               /\ m.term = n.term /\ n.role = "Leader"
    <2>1. PICK p : m \in SendAppend(n, i, p, retry).out
        BY <1>2, <1>3
    <2>2. Steady(n, SendAppend(n, i, p, retry), i)
        BY SendAppendSteady
    <2> QED
        BY <1>3, <2>1, <2>2 DEF Steady
<1>4. Steady(n, r, i)
    BY <1>1, <1>3 DEF Steady
<1> QED
    BY <1>4 DEF r

(* Advancing the commit index is steady.                                   *)
LEMMA AdvanceCommitSteady ==
    ASSUME NEW n, IsNode(n), NEW i
    PROVE  Steady(n, AdvanceCommit(n, i), i)
<1> DEFINE r == AdvanceCommit(n, i)
<1>1. r = n \/ \E k : r = [n EXCEPT !.commit = k]
    BY Zenon DEF AdvanceCommit
<1> HIDE DEF r
<1>2. /\ DOMAIN r = Fields /\ r = [x \in Fields |-> r[x]]
      /\ r.term = n.term /\ r.voted = n.voted /\ r.role = n.role /\ r.votes = n.votes
      /\ r.out = n.out
    BY <1>1 DEF IsNode, Fields
<1>3. Steady(n, r, i)
    BY <1>2 DEF Steady
<1> QED
    BY <1>3 DEF r

(* So is recording an acknowledgement, with the sends it triggers.         *)
LEMMA AcknowledgeSteady ==
    ASSUME NEW n, IsNode(n), n.role = "Leader", NEW i, NEW p, NEW last
    PROVE  Steady(n, Acknowledge(n, i, p, last), i)
<1> DEFINE g == Acked(n.prog[p], last)
           a == SetProgress(n, p, g)
           c == AdvanceCommit(a, i)
<1>1. Acknowledge(n, i, p, last) \in
          {Broadcast(c, i, FALSE), SendAppend(a, i, p, FALSE), a}
    BY DEF Acknowledge
<1> HIDE DEF g
<1>0. Steady(n, a, i)
    BY SetProgressSteady
<1> HIDE DEF a
<1>2. Steady(n, a, i) /\ IsNode(a) /\ a.role = "Leader"
    BY <1>0, SteadyIsNode DEF Steady
<1>3. Steady(a, c, i) /\ IsNode(c) /\ c.role = "Leader"
    BY <1>2, AdvanceCommitSteady, SteadyIsNode DEF Steady
<1> HIDE DEF c
<1>4. Steady(n, Broadcast(c, i, FALSE), i)
    BY <1>2, <1>3, BroadcastSteady, SteadyTrans, Zenon
<1>5. Steady(n, SendAppend(a, i, p, FALSE), i)
    BY <1>2, SendAppendSteady, SteadyTrans, Zenon
<1> QED
    BY <1>1, <1>2, <1>4, <1>5, Zenon

(* Doing nothing is steady.                                                *)
LEMMA SteadySelf ==
    ASSUME NEW n, IsNode(n), NEW i
    PROVE  Steady(n, n, i)
BY DEF IsNode, Steady

(* A reply to an append leaves the election alone.                         *)
LEMMA OnAppendedSteady ==
    ASSUME NEW n, IsNode(n), NEW i, NEW m
    PROVE  Steady(n, OnAppended(n, i, m), i)
<1>1. CASE n.role # "Leader"
    <2>1. OnAppended(n, i, m) = n
        BY <1>1 DEF OnAppended
    <2> QED
        BY <2>1, SteadySelf
<1>2. CASE n.role = "Leader"
    <2> DEFINE f == CHOOSE f \in n.prog[m.from].flight :
                        f.kind = "Append" /\ f.request = m.request
               g == Rejected(n.prog[m.from], f.prev, m.conflictNext, LastIndex(n) + 1)
               last == f.last
    <2>1. \/ OnAppended(n, i, m) = n
          \/ OnAppended(n, i, m) = Acknowledge(n, i, m.from, last)
          \/ OnAppended(n, i, m)
               = SendAppend(SetProgress(n, m.from, g), i, m.from, FALSE)
        BY Zenon DEF OnAppended
    <2> HIDE DEF g, last
    <2> DEFINE a == SetProgress(n, m.from, g)
    <2>0. Steady(n, a, i)
        BY SetProgressSteady
    <2> HIDE DEF a
    <2>2. IsNode(a) /\ a.role = "Leader"
        BY <1>2, <2>0, SteadyIsNode DEF Steady
    <2>3. Steady(n, Acknowledge(n, i, m.from, last), i) /\ Steady(n, n, i)
        BY <1>2, AcknowledgeSteady, SteadySelf
    <2>4. Steady(n, SendAppend(a, i, m.from, FALSE), i)
        BY <2>0, <2>2, SendAppendSteady, SteadyTrans, Zenon
    <2> QED
        BY <2>1, <2>3, <2>4, Zenon DEF a
<1> QED
    BY <1>1, <1>2

(* So does a reply to a snapshot offer.                                    *)
LEMMA OnSnapshotInstalledSteady ==
    ASSUME NEW n, IsNode(n), NEW i, NEW m
    PROVE  Steady(n, OnSnapshotInstalled(n, i, m), i)
<1>1. \/ OnSnapshotInstalled(n, i, m) = n
      \/ /\ n.role = "Leader"
         /\ \E last : OnSnapshotInstalled(n, i, m) = Acknowledge(n, i, m.from, last)
    BY Zenon DEF OnSnapshotInstalled
<1> QED
    BY <1>1, AcknowledgeSteady, SteadySelf

(* A leader's probes are steady.                                           *)
LEMMA RetryQuorumProbeSteady ==
    ASSUME NEW n, IsNode(n), n.role = "Leader", NEW i
    PROVE  Steady(n, RetryQuorumProbe(n, i), i)
<1>1. PICK S : /\ RetryQuorumProbe(n, i) \in {n, Emit(n, S)}
               /\ \A m \in S : m.from = i /\ m.term = n.term /\ m.type = "QuorumProbe"
    <2> DEFINE S == {[type |-> "QuorumProbe", from |-> i, to |-> v,
                      term |-> n.term, round |-> n.probe.round] : v \in Voters \ n.probe.voters}
    <2>1. RetryQuorumProbe(n, i) \in {n, Emit(n, S)}
        BY DEF RetryQuorumProbe
    <2>2. \A m \in S : m.from = i /\ m.term = n.term /\ m.type = "QuorumProbe"
        OBVIOUS
    <2> HIDE DEF S
    <2> QED
        BY <2>1, <2>2
<1>2. Steady(n, Emit(n, S), i)
    BY <1>1, EmitSteady DEF IsNode, LeaderKinds, Sent, Kinds
<1> QED
    BY <1>1, <1>2, SteadySelf

(* So is starting a round of them.                                         *)
LEMMA StartQuorumProbeSteady ==
    ASSUME NEW n, IsNode(n), n.role = "Leader", NEW i
    PROVE  Steady(n, StartQuorumProbe(n, i), i)
<1> DEFINE a == [n EXCEPT !.round = @ + 1,
                          !.probe = [round |-> n.round + 1, voters |-> {i}]]
<1>1. Steady(n, a, i) /\ a.role = "Leader"
    BY Zenon DEF Steady, IsNode, Fields
<1>2. IsNode(a)
    BY <1>1, SteadyIsNode
<1>3. StartQuorumProbe(n, i) = RetryQuorumProbe(a, i)
    BY DEF StartQuorumProbe
<1> HIDE DEF a
<1> QED
    BY <1>1, <1>2, <1>3, RetryQuorumProbeSteady, SteadyTrans

(* So is the handoff driven at the end of every step.                      *)
LEMMA DriveHandoffSteady ==
    ASSUME NEW n, IsNode(n), NEW i, NEW retry
    PROVE  Steady(n, DriveHandoff(n, i, retry), i)
<1> DEFINE a == [n EXCEPT !.handoff.phase = "ElectionRequested"]
           S == {[type |-> "TimeoutNow", from |-> i, to |-> n.handoff.target,
                  term |-> n.term, lastIndex |-> n.handoff.lastIndex,
                  lastTerm |-> n.handoff.lastTerm]}
<1>1. DriveHandoff(n, i, retry) = n \/ (n.role = "Leader" /\ DriveHandoff(n, i, retry) = Emit(a, S))
    BY DEF DriveHandoff
<1>2. PICK h : a = [n EXCEPT !.handoff = h]
    BY Zenon
<1>3. \A m \in S : m.from = i /\ m.term = n.term /\ m.type = "TimeoutNow"
    OBVIOUS
<1> HIDE DEF a, S
<1>4. Steady(n, a, i)
    BY <1>2 DEF Steady, IsNode, Fields
<1>5. IsNode(a) /\ a.term = n.term /\ a.role = n.role
    BY <1>4, SteadyIsNode DEF Steady
<1>6. n.role = "Leader" => Steady(a, Emit(a, S), i)
    BY <1>3, <1>5, EmitSteady DEF IsNode, LeaderKinds, Sent, Kinds
<1> QED
    BY <1>1, <1>4, <1>6, SteadyTrans, SteadySelf

-----------------------------------------------------------------------------
(* Steps of an election *)

(* A member that follows term t keeps its vote unless the term is new.     *)
LEMMA FollowOK ==
    ASSUME NEW N, NEW i \in Member, NEW n, NodeOK(N, n, i), n.out = {}, NEW t \in Nat
    PROVE  LET r == Follow(n, t)
           IN  /\ NodeOK(N, r, i) /\ Later(n, r) /\ r.out = {}
               /\ r.role = "Follower" /\ r.term = IF t > n.term THEN t ELSE n.term
<1> DEFINE r == Follow(n, t)
<1>1. /\ DOMAIN r = Fields /\ r = [x \in Fields |-> r[x]]
      /\ r.term = IF t > n.term THEN t ELSE n.term
      /\ r.voted = IF t > n.term THEN Nobody ELSE n.voted
      /\ r.role = "Follower" /\ r.out = {}
    BY ZenonT(30) DEF Follow, NodeOK, IsNode, Fields
<1>2. n.term \in Nat /\ n.voted \in Member \cup {Nobody}
    BY DEF NodeOK, IsNode
<1> HIDE DEF r
<1>3. IsNode(r) /\ RoleOK(N, r, i) /\ Later(n, r)
    BY <1>1, <1>2 DEF IsNode, RoleOK, Later
<1>4. NodeOK(N, r, i) /\ Later(n, r)
    BY <1>1, <1>3 DEF NodeOK
<1> QED
    BY <1>1, <1>4 DEF r

(* Accepting a leader of term t is following t.                            *)
LEMMA AcceptLeaderOK ==
    ASSUME NEW N, NEW i \in Member, NEW n, NodeOK(N, n, i), n.out = {},
           NEW t \in Nat, NEW from
    PROVE  LET r == AcceptLeader(n, from, t)
           IN  /\ NodeOK(N, r, i) /\ Later(n, r) /\ r.out = {}
               /\ r.term = IF t > n.term THEN t ELSE n.term
<1> DEFINE f == Follow(n, t)
           r == AcceptLeader(n, from, t)
<1>1. PICK x : r = [f EXCEPT !.leader = from, !.incoming = x]
    BY Zenon DEF AcceptLeader
<1>2. /\ NodeOK(N, f, i) /\ Later(n, f) /\ f.out = {}
      /\ f.term = IF t > n.term THEN t ELSE n.term
    BY FollowOK, SMTT(30)
<1> HIDE DEF f, r
<1>3. Steady(f, r, i) /\ r.out = {} /\ r.term = f.term
    BY <1>1, <1>2, Zenon DEF Steady, NodeOK, IsNode, Fields
<1>4. NodeOK(N, r, i) /\ Later(f, r)
    BY <1>2, <1>3, SteadyKeeps
<1>5. Later(n, r)
    BY <1>2, <1>4, LaterTrans DEF NodeOK, IsNode
<1> QED
    BY <1>2, <1>3, <1>4, <1>5 DEF r

(* A candidate with the ballots of a quorum leads.                         *)
LEMMA BecomeLeaderOK ==
    ASSUME NEW N, NEW i \in Member, NEW n, NodeOK(N, n, i),
           n.role = "Candidate", Elected(N, i, n.term)
    PROVE  NodeOK(N, BecomeLeader(n, i), i) /\ Later(n, BecomeLeader(n, i))
<1>1. PICK P, L : \E lead : /\ lead = [n EXCEPT !.role = "Leader", !.leader = i,
                                               !.prog = P, !.log = L]
                           /\ LET sent == Broadcast(AdvanceCommit(lead, i), i, FALSE)
                              IN  BecomeLeader(n, i)
                                    = IF n.enabled THEN StartQuorumProbe(sent, i) ELSE sent
    BY Zenon DEF BecomeLeader
<1>2. PICK lead : /\ lead = [n EXCEPT !.role = "Leader", !.leader = i,
                                     !.prog = P, !.log = L]
                  /\ LET sent == Broadcast(AdvanceCommit(lead, i), i, FALSE)
                     IN  BecomeLeader(n, i)
                           = IF n.enabled THEN StartQuorumProbe(sent, i) ELSE sent
    BY <1>1, Zenon
<1> DEFINE c == AdvanceCommit(lead, i)
           sent == Broadcast(c, i, FALSE)
<1>3. /\ DOMAIN lead = Fields /\ lead = [x \in Fields |-> lead[x]]
      /\ lead.term = n.term /\ lead.voted = n.voted /\ lead.votes = n.votes
      /\ lead.role = "Leader" /\ lead.out = n.out
    BY <1>2, ZenonT(30) DEF NodeOK, IsNode, Fields
<1>4. IsNode(lead) /\ RoleOK(N, lead, i) /\ Later(n, lead)
    BY <1>3 DEF NodeOK, IsNode, RoleOK, Later
<1>5. NodeOK(N, lead, i)
    BY <1>3, <1>4 DEF NodeOK, OutOK
<1>6. Steady(lead, c, i)
    BY <1>4, AdvanceCommitSteady
<1>7. IsNode(c) /\ c.role = "Leader"
    BY <1>3, <1>4, <1>6, SteadyIsNode DEF Steady
<1> HIDE DEF c
<1>8. Steady(c, sent, i)
    BY <1>7, BroadcastSteady, Zenon
<1> HIDE DEF sent
<1>9. IsNode(sent) /\ sent.role = "Leader"
    BY <1>7, <1>8, SteadyIsNode DEF Steady
<1>10. Steady(lead, sent, i)
    BY <1>6, <1>8, SteadyTrans
<1>11. Steady(lead, StartQuorumProbe(sent, i), i)
    BY <1>9, <1>10, StartQuorumProbeSteady, SteadyTrans
<1>12. BecomeLeader(n, i) \in {sent, StartQuorumProbe(sent, i)}
    BY <1>2 DEF sent, c
<1>13. Steady(lead, BecomeLeader(n, i), i)
    BY <1>10, <1>11, <1>12
<1>14. NodeOK(N, BecomeLeader(n, i), i) /\ Later(lead, BecomeLeader(n, i))
    BY <1>5, <1>13, SteadyKeeps
<1> QED
    BY <1>4, <1>14, LaterTrans DEF NodeOK, IsNode

(* A candidate votes for itself in a new term.                             *)
LEMMA CampaignOK ==
    ASSUME PlanOK, NEW N, NEW i \in Member, NEW n, NodeOK(N, n, i), n.out = {}
    PROVE  NodeOK(N, Campaign(n, i), i) /\ Later(n, Campaign(n, i))
<1> DEFINE f == Follow(n, n.term + 1)
           c == [f EXCEPT
                    !.role = "Candidate", !.voted = i, !.votes = {i}]
           S == {[type |-> "RequestVote", from |-> i, to |-> v,
                  term |-> c.term, lastIndex |-> LastIndex(n),
                  lastTerm |-> LastTerm(n)] : v \in Voters \ {i}}
<1>1. \/ Campaign(n, i) = n
      \/ Quorum({i}) /\ Campaign(n, i) = BecomeLeader(c, i)
      \/ Campaign(n, i) = Emit(c, S)
    BY DEF Campaign
<1>2. n.term \in Nat
    BY DEF NodeOK, IsNode
<1>a. n.term + 1 \in Nat /\ n.term + 1 > n.term
    BY <1>2
<1>b. /\ NodeOK(N, f, i) /\ f.out = {}
      /\ f.term = IF n.term + 1 > n.term THEN n.term + 1 ELSE n.term
    BY <1>a, FollowOK, Zenon
<1> HIDE DEF f
<1>0. NodeOK(N, f, i) /\ f.term = n.term + 1 /\ f.out = {}
    BY <1>a, <1>b
<1>3. /\ DOMAIN c = Fields /\ c = [x \in Fields |-> c[x]]
      /\ c.term = n.term + 1 /\ c.voted = i /\ c.votes = {i}
      /\ c.role = "Candidate" /\ c.out = {}
    BY <1>0, Zenon DEF NodeOK, IsNode, Fields
<1>4. \A m \in S : m.from = i /\ m.term = c.term /\ m.type = "RequestVote"
    OBVIOUS
<1> HIDE DEF c, S
<1>5. IsNode(c) /\ RoleOK(N, c, i) /\ Later(n, c)
    BY <1>2, <1>3 DEF IsNode, RoleOK, Later
<1>6. NodeOK(N, c, i)
    BY <1>3, <1>5 DEF NodeOK
<1>7. CASE Campaign(n, i) = n
    BY <1>7 DEF Later
<1>8. CASE Quorum({i}) /\ Campaign(n, i) = BecomeLeader(c, i)
    <2>1. Elected(N, i, c.term)
        BY <1>8, QuorumGrows DEF Elected
    <2>2. NodeOK(N, BecomeLeader(c, i), i) /\ Later(c, BecomeLeader(c, i))
        BY <1>3, <1>6, <2>1, BecomeLeaderOK
    <2> QED
        BY <1>5, <1>8, <2>2, LaterTrans DEF NodeOK, IsNode
<1>9. CASE Campaign(n, i) = Emit(c, S)
    <2>1. Steady(c, Emit(c, S), i)
        BY <1>4, <1>5, EmitSteady DEF IsNode, IsBallot, LeaderKinds, Sent, Kinds
    <2>2. NodeOK(N, Emit(c, S), i) /\ Later(c, Emit(c, S))
        BY <1>6, <2>1, SteadyKeeps
    <2> QED
        BY <1>5, <1>9, <2>2, LaterTrans DEF NodeOK, IsNode
<1> QED
    BY <1>1, <1>7, <1>8, <1>9

(* A good step followed by a steady one is good.                           *)
LEMMA ThenSteady ==
    ASSUME NEW N, NEW i \in Member, NEW n, IsNode(n),
           NEW f, NodeOK(N, f, i), Later(n, f), NEW r, Steady(f, r, i)
    PROVE  NodeOK(N, r, i) /\ Later(n, r)
<1>1. NodeOK(N, r, i) /\ Later(f, r)
    BY SteadyKeeps
<1> QED
    BY <1>1, LaterTrans DEF NodeOK, IsNode

(* A pre-vote round binds nobody, and keeps the vote.                      *)
LEMMA PreCampaignOK ==
    ASSUME PlanOK, NEW N, NEW i \in Member, NEW n, NodeOK(N, n, i), n.out = {}
    PROVE  NodeOK(N, PreCampaign(n, i), i) /\ Later(n, PreCampaign(n, i))
<1> DEFINE f == Follow(n, n.term)
           c == [f EXCEPT !.incoming = Nobody, !.role = "PreCandidate"]
           r == [round |-> n.round + 1, term |-> n.term + 1, voters |-> {i}]
           a == [c EXCEPT !.round = @ + 1, !.pre = r]
           S == {[type |-> "PreVoteRequest", from |-> i, to |-> v, term |-> 0,
                  prospective |-> r.term, round |-> r.round,
                  lastIndex |-> LastIndex(n), lastTerm |-> LastTerm(n)] :
                 v \in Voters \ {i}}
<1>1. PreCampaign(n, i) \in {Campaign(c, i), Emit(a, S)}
    BY DEF PreCampaign
<1>2. IsNode(n) /\ n.term \in Nat
    BY DEF NodeOK, IsNode
<1>3. NodeOK(N, f, i) /\ Later(n, f) /\ f.out = {}
    BY <1>2, FollowOK, Zenon
<1>4. \A m \in S : m.from = i /\ m.term = 0 /\ m.type = "PreVoteRequest"
    OBVIOUS
<1> HIDE DEF f, r, S
<1>5. /\ DOMAIN c = Fields /\ c = [x \in Fields |-> c[x]]
      /\ c.term = f.term /\ c.voted = f.voted /\ c.role = "PreCandidate" /\ c.out = {}
    BY <1>3, Zenon DEF NodeOK, IsNode, Fields
<1> HIDE DEF c
<1>6. IsNode(c) /\ RoleOK(N, c, i) /\ Later(f, c)
    BY <1>3, <1>5 DEF NodeOK, IsNode, RoleOK, Later
<1>7. NodeOK(N, c, i) /\ Later(n, c)
    BY <1>2, <1>3, <1>5, <1>6, LaterTrans DEF NodeOK, IsNode
<1>8. Steady(c, a, i)
    BY <1>5, <1>6, Zenon DEF Steady, IsNode, Fields
<1>9. IsNode(a)
    BY <1>6, <1>8, SteadyIsNode
<1> HIDE DEF a
<1>10. Steady(a, Emit(a, S), i)
    BY <1>4, <1>9, EmitSteady DEF IsBallot, LeaderKinds, Sent, Kinds
<1>11. NodeOK(N, Emit(a, S), i) /\ Later(n, Emit(a, S))
    BY <1>2, <1>7, <1>8, <1>10, SteadyTrans, ThenSteady
<1>12. NodeOK(N, Campaign(c, i), i) /\ Later(n, Campaign(c, i))
    <2>1. NodeOK(N, Campaign(c, i), i) /\ Later(c, Campaign(c, i))
        BY <1>5, <1>7, CampaignOK
    <2> QED
        BY <1>2, <1>6, <1>7, <2>1, LaterTrans DEF NodeOK, IsNode
<1> QED
    BY <1>1, <1>11, <1>12

(* Nor does the liveness timeout.                                          *)
LEMMA OnLivenessTimeoutOK ==
    ASSUME PlanOK, NEW N, NEW i \in Member, NEW n, NodeOK(N, n, i), n.out = {}
    PROVE  NodeOK(N, OnLivenessTimeout(n, i), i) /\ Later(n, OnLivenessTimeout(n, i))
<1> DEFINE e == [n EXCEPT !.handoff = Nobody, !.enabled = TRUE]
<1>1. \/ OnLivenessTimeout(n, i) \in {PreCampaign(e, i), Follow(e, n.term)}
      \/ n.role = "Leader" /\ OnLivenessTimeout(n, i) = StartQuorumProbe(e, i)
    BY DEF OnLivenessTimeout
<1>2. IsNode(n) /\ n.term \in Nat
    BY DEF NodeOK, IsNode
<1>3. Steady(n, e, i) /\ e.out = {} /\ e.role = n.role
    BY <1>2, Zenon DEF Steady, IsNode, Fields
<1> HIDE DEF e
<1>4. NodeOK(N, e, i) /\ Later(n, e) /\ IsNode(e)
    BY <1>3, SteadyKeeps DEF NodeOK
<1>5. NodeOK(N, PreCampaign(e, i), i) /\ Later(e, PreCampaign(e, i))
    BY <1>3, <1>4, PreCampaignOK
<1>6. NodeOK(N, Follow(e, n.term), i) /\ Later(e, Follow(e, n.term))
    BY <1>2, <1>3, <1>4, FollowOK, Zenon
<1>7. \A r : NodeOK(N, r, i) /\ Later(e, r) => NodeOK(N, r, i) /\ Later(n, r)
    BY <1>2, <1>4, LaterTrans DEF NodeOK, IsNode
<1>8. CASE n.role = "Leader" /\ OnLivenessTimeout(n, i) = StartQuorumProbe(e, i)
    <2>1. Steady(e, StartQuorumProbe(e, i), i)
        BY <1>3, <1>4, <1>8, StartQuorumProbeSteady
    <2> QED
        BY <1>2, <1>4, <1>8, <2>1, ThenSteady
<1> QED
    BY <1>1, <1>5, <1>6, <1>7, <1>8

(* A pre-vote is no ballot.                                                *)
LEMMA OnPreVoteRequestSteady ==
    ASSUME NEW n, IsNode(n), NEW i, NEW m
    PROVE  Steady(n, OnPreVoteRequest(n, i, m), i)
<1>1. PICK g : OnPreVoteRequest(n, i, m)
                 = Emit(n, {[type |-> "PreVoteReply", from |-> i, to |-> m.from,
                             term |-> n.term, prospective |-> m.prospective,
                             round |-> m.round, granted |-> g]})
    BY Zenon DEF OnPreVoteRequest
<1> DEFINE S == {[type |-> "PreVoteReply", from |-> i, to |-> m.from,
                  term |-> n.term, prospective |-> m.prospective,
                  round |-> m.round, granted |-> g]}
<1>2. \A q \in S : q.from = i /\ q.term = n.term /\ q.type = "PreVoteReply"
    OBVIOUS
<1> HIDE DEF S
<1>3. Steady(n, Emit(n, S), i)
    BY <1>2, EmitSteady DEF IsNode, IsBallot, LeaderKinds, Sent, Kinds
<1> QED
    BY <1>1, <1>3 DEF S

(* A quorum of pre-votes starts a campaign.                                *)
LEMMA OnPreVoteReplyOK ==
    ASSUME PlanOK, NEW N, NEW i \in Member, NEW n, NodeOK(N, n, i), n.out = {}, NEW m
    PROVE  NodeOK(N, OnPreVoteReply(n, i, m), i) /\ Later(n, OnPreVoteReply(n, i, m))
<1> DEFINE c == [n EXCEPT !.pre.voters = @ \cup {m.from}]
<1>1. OnPreVoteReply(n, i, m) \in {n, Campaign(c, i), c}
    BY DEF OnPreVoteReply
<1>2. PICK x : c = [n EXCEPT !.pre = x]
    BY Zenon
<1>3. IsNode(n)
    BY DEF NodeOK
<1> HIDE DEF c
<1>4. Steady(n, c, i) /\ c.out = {}
    BY <1>2, <1>3 DEF Steady, IsNode, Fields
<1>5. NodeOK(N, c, i) /\ Later(n, c)
    BY <1>4, SteadyKeeps
<1>6. NodeOK(N, Campaign(c, i), i) /\ Later(c, Campaign(c, i))
    BY <1>4, <1>5, CampaignOK
<1>7. Later(n, Campaign(c, i))
    BY <1>5, <1>6, LaterTrans DEF NodeOK, IsNode
<1> QED
    BY <1>1, <1>5, <1>6, <1>7 DEF Later

(* Answering a leader's probe keeps the vote.                              *)
LEMMA OnQuorumProbeOK ==
    ASSUME NEW N, NEW i \in Member, NEW n, NodeOK(N, n, i), n.out = {},
           NEW m, m.term \in Nat
    PROVE  NodeOK(N, OnQuorumProbe(n, i, m), i) /\ Later(n, OnQuorumProbe(n, i, m))
<1> DEFINE f == IF m.term = n.term THEN AcceptLeader(n, m.from, m.term) ELSE n
           S == {[type |-> "QuorumReply", from |-> i, to |-> m.from,
                  term |-> n.term, round |-> m.round]}
<1>1. OnQuorumProbe(n, i, m) \in {f, Emit(f, S)}
    BY DEF OnQuorumProbe
<1>2. IsNode(n) /\ n.term \in Nat
    BY DEF NodeOK, IsNode
<1>3. NodeOK(N, AcceptLeader(n, m.from, m.term), i) /\ Later(n, AcceptLeader(n, m.from, m.term))
    BY AcceptLeaderOK
<1>4. NodeOK(N, f, i) /\ Later(n, f)
    BY <1>3 DEF Later
<1>5. \A q \in S : q.from = i /\ q.term = n.term /\ q.type = "QuorumReply"
    OBVIOUS
<1> HIDE DEF f, S
<1>6. Steady(f, Emit(f, S), i)
    BY <1>2, <1>4, <1>5, EmitSteady DEF NodeOK, IsBallot, LeaderKinds, Sent, Kinds
<1>7. NodeOK(N, Emit(f, S), i) /\ Later(n, Emit(f, S))
    BY <1>2, <1>4, <1>6, ThenSteady
<1> QED
    BY <1>1, <1>4, <1>7

(* An answered probe leaves the election alone.                            *)
LEMMA OnQuorumReplySteady ==
    ASSUME NEW n, IsNode(n), NEW i, NEW m
    PROVE  Steady(n, OnQuorumReply(n, m), i)
<1> DEFINE c == [n EXCEPT !.probe.voters = @ \cup {m.from}]
<1>1. OnQuorumReply(n, m) \in {n, c}
    BY DEF OnQuorumReply
<1>2. PICK x : c = [n EXCEPT !.probe = x]
    BY Zenon
<1> HIDE DEF c
<1>3. Steady(n, c, i)
    BY <1>2 DEF Steady, IsNode, Fields
<1> QED
    BY <1>1, <1>3, SteadySelf

(* A granted vote is for whoever this member's vote of the term names.     *)
LEMMA OnRequestVoteOK ==
    ASSUME NEW N, NEW i \in Member, NEW n, NodeOK(N, n, i), n.out = {},
           NEW m, m.from \in Member, m.term \in Nat
    PROVE  NodeOK(N, OnRequestVote(n, i, m), i) /\ Later(n, OnRequestVote(n, i, m))
<1> DEFINE granted == /\ m.term = n.term
                      /\ i \in Voters
                      /\ n.voted \in {Nobody, m.from}
                      /\ UpToDate(n, m.lastIndex, m.lastTerm)
           f == IF granted /\ n.role = "PreCandidate" THEN Follow(n, m.term) ELSE n
           a == [f EXCEPT !.voted = IF granted THEN m.from ELSE @]
           S == {[type |-> "Vote", from |-> i, to |-> m.from, term |-> n.term,
                  granted |-> granted]}
<1>1. OnRequestVote(n, i, m) = Emit(a, S)
    BY DEF OnRequestVote
<1>2. granted => m.term = n.term /\ n.voted \in {Nobody, m.from}
    OBVIOUS
<1>3. /\ \A q \in S : /\ q.type = "Vote" /\ q.from = i /\ q.to = m.from
                      /\ q.term = n.term /\ q.granted = granted
    OBVIOUS
<1> HIDE DEF granted
<1>4. IsNode(n) /\ n.term \in Nat
    BY DEF NodeOK, IsNode
<1>5. /\ NodeOK(N, Follow(n, m.term), i) /\ Later(n, Follow(n, m.term))
      /\ Follow(n, m.term).out = {}
      /\ m.term = n.term => Follow(n, m.term).term = n.term
    <2>2. /\ NodeOK(N, Follow(n, m.term), i) /\ Later(n, Follow(n, m.term))
          /\ Follow(n, m.term).out = {}
        BY FollowOK, Zenon
    <2>3. m.term = n.term => Follow(n, m.term).term = n.term
        BY <1>4, Zenon DEF Follow, IsNode, Fields
    <2> QED
        BY <2>2, <2>3, Zenon
<1>6. /\ NodeOK(N, f, i) /\ Later(n, f) /\ f.out = {} /\ f.term = n.term
      /\ granted => f.voted \in {Nobody, m.from}
    <2>1. CASE granted /\ n.role = "PreCandidate"
        <3>1. f = Follow(n, m.term)
            BY <2>1
        <3>2. f.voted = n.voted
            BY <1>2, <1>4, <2>1 DEF Follow, IsNode, Fields
        <3> QED
            BY <1>2, <1>4, <1>5, <2>1, <3>1, <3>2
    <2>2. CASE ~(granted /\ n.role = "PreCandidate")
        BY <1>2, <2>2 DEF Later
    <2> QED
        BY <2>1, <2>2
<1> HIDE DEF f, S
<1>7. /\ DOMAIN a = Fields /\ a = [x \in Fields |-> a[x]]
      /\ a.term = f.term /\ a.votes = f.votes /\ a.role = f.role /\ a.out = {}
      /\ a.voted = IF granted THEN m.from ELSE f.voted
    BY <1>6 DEF NodeOK, IsNode, Fields
<1> HIDE DEF a
<1>8. f.role \in {"Candidate", "Leader"} => f.voted = i
    BY <1>6 DEF NodeOK, RoleOK
<1>9. f.role \in {"Candidate", "Leader"} => a.voted = f.voted
    BY <1>6, <1>7, <1>8, KernelAssumption DEF KernelAssumption
<1>10. IsNode(a) /\ RoleOK(N, a, i)
    BY <1>6, <1>7, <1>9 DEF NodeOK, IsNode, RoleOK
<1>11. Later(f, a)
    BY <1>6, <1>7 DEF Later
<1> DEFINE r == Emit(a, S)
<1>12. /\ DOMAIN r = Fields /\ r = [x \in Fields |-> r[x]]
       /\ r.term = n.term /\ r.voted = a.voted /\ r.role = a.role /\ r.votes = a.votes
       /\ r.out = S
    BY <1>6, <1>7 DEF Emit, Fields
<1> HIDE DEF r
<1>13. IsNode(r) /\ RoleOK(N, r, i) /\ Later(a, r)
    BY <1>6, <1>7, <1>10, <1>12 DEF IsNode, RoleOK, Later
<1>14. ASSUME NEW q \in r.out PROVE OutOK(N, q, r, i)
    <2>1. /\ q.type = "Vote" /\ q.from = i /\ q.to = m.from
          /\ q.term = n.term /\ q.granted = granted
        BY <1>3, <1>12
    <2>2. q.type \notin LeaderKinds /\ Choice(q) = m.from
        BY <2>1 DEF LeaderKinds, Choice
    <2>3. IsBallot(q) => granted
        BY <2>1, <2>2 DEF IsBallot
    <2>4. granted => r.voted = m.from
        BY <1>7, <1>12
    <2> QED
        BY <1>4, <1>12, <2>1, <2>2, <2>3, <2>4 DEF OutOK, Sent, Kinds
<1>15. NodeOK(N, r, i)
    BY <1>13, <1>14 DEF NodeOK
<1>16. Later(n, r)
    BY <1>4, <1>6, <1>10, <1>11, <1>13, LaterTrans DEF NodeOK, IsNode
<1> QED
    BY <1>1, <1>15, <1>16 DEF r

(* A vote counted is a vote released, for this candidate and this term.    *)
LEMMA OnVoteOK ==
    ASSUME PlanOK, NEW N, NEW i \in Member, NEW n, NodeOK(N, n, i),
           NEW m \in N, m.type = "Vote", m.to = i
    PROVE  NodeOK(N, OnVote(n, i, m), i) /\ Later(n, OnVote(n, i, m))
<1> DEFINE c == [n EXCEPT !.votes = @ \cup {m.from}]
<1>1. CASE ~(m.term = n.term /\ n.role = "Candidate" /\ m.granted)
    BY <1>1 DEF OnVote, Later
<1>2. CASE m.term = n.term /\ n.role = "Candidate" /\ m.granted
    <2>1. OnVote(n, i, m) = IF Quorum(c.votes) THEN BecomeLeader(c, i) ELSE c
        BY <1>2 DEF OnVote
    <2>2. /\ DOMAIN c = Fields /\ c = [x \in Fields |-> c[x]]
          /\ c.term = n.term /\ c.voted = n.voted /\ c.role = "Candidate"
          /\ c.votes = n.votes \cup {m.from} /\ c.out = n.out
        BY <1>2 DEF NodeOK, IsNode, Fields
    <2>3. m.from \in Supporters(N, i, n.term)
        BY <1>2 DEF Supporters
    <2> HIDE DEF c
    <2>4. n.voted = i /\ n.votes \subseteq {i} \cup Supporters(N, i, n.term)
        BY <1>2 DEF NodeOK, RoleOK
    <2>5. IsNode(c) /\ RoleOK(N, c, i) /\ Later(n, c)
        BY <2>2, <2>3, <2>4 DEF NodeOK, IsNode, RoleOK, Later
    <2>6. NodeOK(N, c, i)
        BY <2>2, <2>5 DEF NodeOK, OutOK
    <2>7. CASE Quorum(c.votes)
        <3>1. c.votes \subseteq {i} \cup Supporters(N, i, c.term)
            BY <2>2, <2>3, <2>4
        <3>2. Elected(N, i, c.term)
            BY <2>7, <3>1, QuorumGrows DEF Elected
        <3>3. NodeOK(N, BecomeLeader(c, i), i) /\ Later(c, BecomeLeader(c, i))
            BY <2>2, <2>6, <3>2, BecomeLeaderOK
        <3>4. Later(n, BecomeLeader(c, i))
            BY <2>5, <3>3, LaterTrans DEF NodeOK, IsNode
        <3> QED
            BY <2>1, <2>7, <3>3, <3>4
    <2> QED
        BY <2>1, <2>5, <2>6, <2>7
<1> QED
    BY <1>1, <1>2

-----------------------------------------------------------------------------
(* Log replication, snapshots and handoffs *)

(* A reply about the log is no ballot.                                     *)
LEMMA ReplySteady ==
    ASSUME NEW n, IsNode(n), NEW i, NEW q, q.from = i, q.term \in Nat,
           q.type \in {"Appended", "SnapshotInstalled"}
    PROVE  Steady(n, Emit(n, {q}), i)
BY EmitSteady DEF IsBallot, LeaderKinds, Sent, Kinds

(* An append is accepted without touching the vote of its term.            *)
LEMMA OnAppendOK ==
    ASSUME NEW N, NEW i \in Member, NEW n, NodeOK(N, n, i), n.out = {},
           NEW m, m.term \in Nat
    PROVE  NodeOK(N, OnAppend(n, i, m), i) /\ Later(n, OnAppend(n, i, m))
<1> DEFINE a == AcceptLeader(n, m.from, m.term)
<1> DEFINE known == IF m.commit < m.prevIndex + Len(m.entries)
                    THEN m.commit ELSE m.prevIndex + Len(m.entries)
           C == IF known > n.commit THEN known ELSE n.commit
           L == Spliced(a.log, m.prevIndex - n.snap.index, m.entries)
           X == IF a.incoming # Nobody /\ a.incoming.snap.index <= C
                THEN Nobody ELSE a.incoming
           b == [a EXCEPT !.log = L, !.commit = C, !.incoming = X]
<1>1. \E s, x : \/ OnAppend(n, i, m) = Emit(n, {Appended(n, i, m, s, x)})
                \/ OnAppend(n, i, m) = Emit(a, {Appended(a, i, m, s, x)})
                \/ OnAppend(n, i, m) = Emit(b, {Appended(a, i, m, s, x)})
    <2>1. CASE m.term < n.term
        BY <2>1, Zenon DEF OnAppend
    <2>2. CASE ~(m.term < n.term) /\ ~HasTerm(a, m.prevIndex, m.prevTerm)
        BY <2>2, Zenon DEF OnAppend
    <2>3. CASE ~(m.term < n.term) /\ HasTerm(a, m.prevIndex, m.prevTerm)
        <3>1. OnAppend(n, i, m) = Emit(b, {Appended(a, i, m, TRUE, 0)})
            BY <2>3 DEF OnAppend
        <3> QED
            BY <3>1, Zenon
    <2> QED
        BY <2>1, <2>2, <2>3, Zenon
<1> HIDE DEF known, C, L, X, b
<1>a. PICK s, x : \/ OnAppend(n, i, m) = Emit(n, {Appended(n, i, m, s, x)})
                  \/ OnAppend(n, i, m) = Emit(a, {Appended(a, i, m, s, x)})
                  \/ OnAppend(n, i, m) = Emit(b, {Appended(a, i, m, s, x)})
    BY <1>1, SMTT(30)
<1>2. IsNode(n) /\ n.term \in Nat /\ Later(n, n)
    BY DEF NodeOK, IsNode, Later
<1>3. NodeOK(N, a, i) /\ Later(n, a)
    BY AcceptLeaderOK
<1> HIDE DEF a
<1>4. IsNode(a) /\ a.term \in Nat
    BY <1>3 DEF NodeOK, IsNode
<1>5. Steady(a, b, i)
    BY <1>4, ZenonT(30) DEF Steady, IsNode, Fields, b
<1>6. IsNode(b)
    BY <1>4, <1>5, SteadyIsNode
<1> DEFINE p == Appended(n, i, m, s, x)
           q == Appended(a, i, m, s, x)
<1>7. /\ p.from = i /\ p.term \in Nat /\ p.type \in {"Appended", "SnapshotInstalled"}
      /\ q.from = i /\ q.term \in Nat /\ q.type \in {"Appended", "SnapshotInstalled"}
    BY <1>2, <1>4 DEF Appended
<1> HIDE DEF p, q
<1>b. Steady(n, Emit(n, {p}), i) /\ Steady(a, Emit(a, {q}), i) /\ Steady(b, Emit(b, {q}), i)
    BY <1>2, <1>4, <1>6, <1>7, ReplySteady, Zenon
<1>8. /\ Steady(n, Emit(n, {Appended(n, i, m, s, x)}), i)
      /\ Steady(a, Emit(a, {Appended(a, i, m, s, x)}), i)
      /\ Steady(b, Emit(b, {Appended(a, i, m, s, x)}), i)
    BY <1>b DEF p, q
<1>9. Steady(a, Emit(b, {Appended(a, i, m, s, x)}), i)
    BY <1>5, <1>8, SteadyTrans
<1>10. CASE OnAppend(n, i, m) = Emit(n, {Appended(n, i, m, s, x)})
    BY <1>2, <1>8, <1>10, ThenSteady
<1>11. CASE OnAppend(n, i, m) = Emit(a, {Appended(a, i, m, s, x)})
    BY <1>2, <1>3, <1>8, <1>11, ThenSteady, SMTT(30)
<1>12. CASE OnAppend(n, i, m) = Emit(b, {Appended(a, i, m, s, x)})
    BY <1>2, <1>3, <1>9, <1>12, ThenSteady
<1> QED
    BY <1>a, <1>10, <1>11, <1>12

(* So is a snapshot offer.                                                 *)
LEMMA OnInstallSnapshotOK ==
    ASSUME NEW N, NEW i \in Member, NEW n, NodeOK(N, n, i), n.out = {},
           NEW m, m.term \in Nat
    PROVE  NodeOK(N, OnInstallSnapshot(n, i, m), i) /\ Later(n, OnInstallSnapshot(n, i, m))
<1> DEFINE a == AcceptLeader(n, m.from, m.term)
           q == Appended(n, i, m, FALSE, LastIndex(n) + 1)
           p == [type |-> "SnapshotInstalled", from |-> i, to |-> m.from,
                 term |-> m.term, request |-> m.request]
           x == [source |-> m.from, term |-> m.term, request |-> m.request, snap |-> m.snap]
           b == [a EXCEPT !.incoming = x]
<1>1. OnInstallSnapshot(n, i, m) \in {Emit(n, {q}), Emit(a, {p}), a, b}
    BY DEF OnInstallSnapshot
<1>2. IsNode(n) /\ n.term \in Nat /\ Later(n, n)
    BY DEF NodeOK, IsNode, Later
<1>3. NodeOK(N, a, i) /\ Later(n, a)
    BY AcceptLeaderOK
<1>4. /\ q.from = i /\ q.term \in Nat /\ q.type = "Appended"
      /\ p.from = i /\ p.term \in Nat /\ p.type = "SnapshotInstalled"
    BY <1>2 DEF Appended
<1> HIDE DEF a, p, q, x
<1>5. Steady(a, b, i)
    BY <1>3 DEF NodeOK, Steady, IsNode, Fields
<1> HIDE DEF b
<1>6. Steady(n, Emit(n, {q}), i) /\ Steady(a, Emit(a, {p}), i)
    BY <1>2, <1>3, <1>4, ReplySteady DEF NodeOK
<1>7. NodeOK(N, Emit(n, {q}), i) /\ Later(n, Emit(n, {q}))
    BY <1>2, <1>6, ThenSteady
<1>8. NodeOK(N, Emit(a, {p}), i) /\ Later(n, Emit(a, {p}))
    BY <1>2, <1>3, <1>6, ThenSteady
<1>9. NodeOK(N, b, i) /\ Later(n, b)
    BY <1>2, <1>3, <1>5, ThenSteady
<1> QED
    BY <1>1, <1>3, <1>7, <1>8, <1>9

(* Installing a snapshot leaves the election alone.                        *)
LEMMA InstallSnapshotSteady ==
    ASSUME NEW n, IsNode(n), NEW i
    PROVE  Steady(n, InstallSnapshot(n, i), i)
<1> DEFINE q == [type |-> "SnapshotInstalled", from |-> i, to |-> n.incoming.source,
                 term |-> n.term, request |-> n.incoming.request]
<1>1. PICK L : InstallSnapshot(n, i)
                 = Emit([n EXCEPT !.log = L, !.commit = n.incoming.snap.index,
                                  !.snap = n.incoming.snap, !.incoming = Nobody], {q})
    BY Zenon DEF InstallSnapshot
<1>2. q.from = i /\ q.term \in Nat /\ q.type = "SnapshotInstalled"
    BY DEF IsNode
<1> HIDE DEF q
<1> DEFINE b == [n EXCEPT !.log = L, !.commit = n.incoming.snap.index,
                          !.snap = n.incoming.snap, !.incoming = Nobody]
<1>3. Steady(n, b, i)
    BY Zenon DEF Steady, IsNode, Fields
<1>4. IsNode(b)
    BY <1>3, SteadyIsNode
<1> HIDE DEF b
<1>5. Steady(b, Emit(b, {q}), i)
    BY <1>2, <1>4, ReplySteady
<1> QED
    BY <1>1, <1>3, <1>5, SteadyTrans DEF b

(* So does compaction.                                                     *)
LEMMA CompactedSteady ==
    ASSUME NEW n, IsNode(n), NEW i, NEW cut
    PROVE  Steady(n, Compacted(n, cut), i)
<1>1. PICK L, P : Compacted(n, cut) = [n EXCEPT !.log = L, !.snap = cut, !.prog = P]
    BY Zenon DEF Compacted
<1> DEFINE b == [n EXCEPT !.log = L, !.snap = cut, !.prog = P]
<1>2. Steady(n, b, i)
    BY Zenon DEF Steady, IsNode, Fields
<1> QED
    BY <1>1, <1>2

(* So does starting a handoff.                                             *)
LEMMA StartHandoffSteady ==
    ASSUME NEW n, IsNode(n), n.role = "Leader", NEW i, NEW target
    PROVE  Steady(n, StartHandoff(n, i, target), i)
<1>1. PICK h : LET s == [n EXCEPT !.handoff = h]
               IN  StartHandoff(n, i, target) \in {s, SendAppend(s, i, target, TRUE)}
    BY Zenon DEF StartHandoff
<1> DEFINE s == [n EXCEPT !.handoff = h]
<1>2. Steady(n, s, i)
    BY DEF Steady, IsNode, Fields
<1> HIDE DEF s
<1>3. IsNode(s) /\ s.role = "Leader"
    BY <1>2, SteadyIsNode DEF Steady
<1>4. Steady(n, SendAppend(s, i, target, TRUE), i)
    BY <1>2, <1>3, SendAppendSteady, SteadyTrans, Zenon
<1> QED
    BY <1>1, <1>2, <1>4, Zenon DEF s

(* A handoff's target campaigns like anyone.                               *)
LEMMA OnTimeoutNowOK ==
    ASSUME PlanOK, NEW N, NEW i \in Member, NEW n, NodeOK(N, n, i), n.out = {}, NEW m
    PROVE  NodeOK(N, OnTimeoutNow(n, i, m), i) /\ Later(n, OnTimeoutNow(n, i, m))
<1>1. OnTimeoutNow(n, i, m) \in {n, Campaign(n, i)}
    BY DEF OnTimeoutNow
<1> QED
    BY <1>1, CampaignOK DEF Later

-----------------------------------------------------------------------------
(* Received messages *)

(* Whatever message is received, the vote moves forward and ballots stay   *)
(* bound.                                                                  *)
LEMMA ReceivedOK ==
    ASSUME PlanOK, NEW N, NEW i \in Member, NEW n, NodeOK(N, n, i), n.out = {},
           NEW m \in N, m.to = i, m.from \in Member, Sent(m, m.from)
    PROVE  NodeOK(N, Received(n, i, m), i) /\ Later(n, Received(n, i, m))
<1> DEFINE f == IF m.term > n.term THEN Follow(n, m.term) ELSE n
<1>1. m.term \in Nat /\ m.type \in Kinds
    BY DEF Sent
<1>2. NodeOK(N, Follow(n, m.term), i) /\ Later(n, Follow(n, m.term))
      /\ Follow(n, m.term).out = {}
    BY <1>1, FollowOK, ZenonT(30)
<1>3. NodeOK(N, f, i) /\ Later(n, f) /\ f.out = {} /\ IsNode(f)
    BY <1>2, SMTT(30) DEF Later, NodeOK
<1>4. \/ Received(n, i, m) = OnPreVoteRequest(f, i, m)
      \/ Received(n, i, m) = OnPreVoteReply(f, i, m)
      \/ Received(n, i, m) = OnQuorumProbe(f, i, m)
      \/ Received(n, i, m) = OnQuorumReply(f, m)
      \/ Received(n, i, m) = OnTimeoutNow(f, i, m)
      \/ Received(n, i, m) = OnRequestVote(f, i, m)
      \/ m.type = "Vote" /\ Received(n, i, m) = OnVote(f, i, m)
      \/ Received(n, i, m) = OnAppend(f, i, m)
      \/ Received(n, i, m) = OnAppended(f, i, m)
      \/ Received(n, i, m) = OnInstallSnapshot(f, i, m)
      \/ Received(n, i, m) = OnSnapshotInstalled(f, i, m)
    BY <1>1 DEF Received, Kinds, LeaderKinds
<1> HIDE DEF f
<1> DEFINE Kept(r) == NodeOK(N, r, i) /\ Later(f, r)
<1>5. /\ Kept(OnPreVoteReply(f, i, m)) /\ Kept(OnQuorumProbe(f, i, m))
      /\ Kept(OnTimeoutNow(f, i, m)) /\ Kept(OnRequestVote(f, i, m))
      /\ Kept(OnAppend(f, i, m)) /\ Kept(OnInstallSnapshot(f, i, m))
    BY <1>1, <1>3, OnPreVoteReplyOK, OnQuorumProbeOK, OnTimeoutNowOK, OnRequestVoteOK,
       OnAppendOK, OnInstallSnapshotOK, ZenonT(30)
<1>6. m.type = "Vote" => Kept(OnVote(f, i, m))
    BY <1>3, OnVoteOK
<1>7. /\ Steady(f, OnPreVoteRequest(f, i, m), i) /\ Steady(f, OnQuorumReply(f, m), i)
      /\ Steady(f, OnAppended(f, i, m), i) /\ Steady(f, OnSnapshotInstalled(f, i, m), i)
    BY <1>3, OnPreVoteRequestSteady, OnQuorumReplySteady, OnAppendedSteady,
       OnSnapshotInstalledSteady, SMTT(30)
<1>8. /\ Kept(OnPreVoteRequest(f, i, m)) /\ Kept(OnQuorumReply(f, m))
      /\ Kept(OnAppended(f, i, m)) /\ Kept(OnSnapshotInstalled(f, i, m))
    BY <1>3, <1>7, SteadyKeeps
<1>9. Kept(Received(n, i, m))
    BY <1>4, <1>5, <1>6, <1>8, Zenon
<1> QED
    BY <1>3, <1>9, LaterTrans DEF NodeOK, IsNode

-----------------------------------------------------------------------------
(* Publication and release *)

(* What a member owes to the messages released it still owes to more of    *)
(* them.                                                                   *)
LEMMA MemberGrows ==
    ASSUME PlanOK, NEW N, NEW M, N \subseteq M, NEW n, NEW d, NEW g, NEW i,
           MemberOK(N, n, d, g, i)
    PROVE  MemberOK(M, n, d, g, i)
<1>1. \A t : /\ Supporters(N, i, t) \subseteq Supporters(M, i, t)
             /\ Elected(N, i, t) => Elected(M, i, t)
    BY SupportGrows
<1>2. RoleOK(M, n, i)
    BY <1>1 DEF MemberOK, NodeOK, RoleOK
<1>3. \A m \in n.out : OutOK(M, m, n, i)
    BY <1>1 DEF MemberOK, NodeOK, OutOK
<1> QED
    BY <1>2, <1>3, Zenon DEF MemberOK, NodeOK

(* Ballots stay binding as the disks move forward.                         *)
LEMMA NetFollowsDisk ==
    ASSUME NEW N, NEW d, NEW e, NetOK(N, d),
           \A j \in Member : /\ d[j].term \in Nat /\ e[j].term \in Nat
                             /\ Later(d[j], e[j])
    PROVE  NetOK(N, e)
<1> SUFFICES ASSUME NEW m \in N
             PROVE  /\ m.from \in Member /\ Sent(m, m.from)
                    /\ IsBallot(m) => Choice(m) \in Member /\ Bound(e[m.from], m.term, Choice(m))
                    /\ m.type \in LeaderKinds => Elected(N, m.from, m.term)
    BY DEF NetOK
<1>1. /\ m.from \in Member /\ Sent(m, m.from)
      /\ IsBallot(m) => Choice(m) \in Member /\ Bound(d[m.from], m.term, Choice(m))
      /\ m.type \in LeaderKinds => Elected(N, m.from, m.term)
    BY DEF NetOK
<1>2. ASSUME IsBallot(m) PROVE Bound(e[m.from], m.term, Choice(m))
    <2> PICK j \in Member : j = m.from
        BY <1>1
    <2>1. /\ d[j].term \in Nat /\ e[j].term \in Nat /\ m.term \in Nat
          /\ Later(d[j], e[j]) /\ Bound(d[j], m.term, Choice(m)) /\ Choice(m) # Nobody
        BY <1>1, <1>2, KernelAssumption DEF KernelAssumption, Sent
    <2>2. Bound(e[j], m.term, Choice(m))
        BY <2>1 DEF Later, Bound
    <2> QED
        BY <2>2
<1> QED
    BY <1>1, <1>2

(* What a member releases is bound by the vote it has published.           *)
LEMMA ReleaseOK ==
    ASSUME PlanOK, NEW N, NEW d, NetOK(N, d), OneChoice(N),
           NEW i \in Member, NEW n, NodeOK(N, n, i),
           d[i].term = n.term, d[i].voted = n.voted
    PROVE  NetOK(N \cup n.out, d) /\ OneChoice(N \cup n.out)
<1> DEFINE M == N \cup n.out
<1>1. ASSUME NEW m \in n.out
      PROVE  /\ m.from = i /\ Sent(m, i)
             /\ IsBallot(m) => /\ m.term = n.term /\ Choice(m) = n.voted
                               /\ Choice(m) \in Member /\ Bound(d[i], m.term, Choice(m))
             /\ m.type \in LeaderKinds => Elected(N, i, m.term)
    <2>1. OutOK(N, m, n, i)
        BY DEF NodeOK
    <2>2. m.type \in LeaderKinds => IsBallot(m)
        BY SMTT(30) DEF IsBallot
    <2> QED
        BY <2>1, <2>2 DEF OutOK, Sent, Bound
<1>2. ASSUME NEW m \in M
      PROVE  /\ m.from \in Member /\ Sent(m, m.from)
             /\ IsBallot(m) => Choice(m) \in Member /\ Bound(d[m.from], m.term, Choice(m))
             /\ m.type \in LeaderKinds => Elected(N, m.from, m.term)
    <2>1. CASE m \in N
        BY <2>1 DEF NetOK
    <2>2. CASE m \in n.out
        BY <1>1, <2>2
    <2> QED
        BY <2>1, <2>2, SMTT(30)
<1>3. N \subseteq M
    OBVIOUS
<1> HIDE DEF M
<1>4. \A j, t : Elected(N, j, t) => Elected(M, j, t)
    BY <1>3, SupportGrows, SMTT(30)
<1>5. NetOK(M, d)
    BY <1>2, <1>4 DEF NetOK
<1>6. ASSUME NEW m1 \in M, NEW m2 \in M, IsBallot(m1), IsBallot(m2),
             m1.from = m2.from, m1.term = m2.term
      PROVE  Choice(m1) = Choice(m2)
    <2>1. \A m \in n.out, q \in N :
              /\ IsBallot(m) /\ IsBallot(q) /\ m.from = q.from /\ m.term = q.term
              => Choice(m) = Choice(q)
        <3> SUFFICES ASSUME NEW m \in n.out, NEW q \in N, IsBallot(m), IsBallot(q),
                            m.from = q.from, m.term = q.term
                     PROVE  Choice(m) = Choice(q)
            BY SMTT(30)
        <3>1. Bound(d[i], m.term, Choice(q)) /\ m.term = n.term /\ Choice(m) = n.voted
            BY <1>1 DEF NetOK
        <3>2. n.term \in Nat
            BY DEF NodeOK, IsNode
        <3> QED
            BY <3>1, <3>2 DEF Bound
    <2>2. CASE m1 \in N /\ m2 \in N
        BY <1>6, <2>2, SMTT(30) DEF OneChoice
    <2>3. CASE m1 \in n.out /\ m2 \in n.out
        BY <1>1, <1>6, <2>3, SMTT(30)
    <2> QED
        BY <1>6, <2>1, <2>2, <2>3 DEF M
<1>7. OneChoice(M)
    BY <1>6, SMTT(30) DEF OneChoice
<1> QED
    BY <1>5, <1>7 DEF M

(* The circumstances are constant, so the invariant may be shown under     *)
(* those of now.                                                           *)
LEMMA SamePlan ==
    ASSUME PlanOK, Sound(node', disk', gate', net'), plan' = plan
    PROVE  ElectionInv'
<1>2. \A S : Quorum(S) <=> (Quorum(S))'
    BY DEF Quorum, Groups
<1>1. PlanOK'
    BY <1>2, Zenon DEF PlanOK
<1> QED
    BY <1>1, <1>2 DEF ElectionInv, Sound, MemberOK, NodeOK, RoleOK, OutOK, NetOK, Elected,
       Quorum, Groups

(* An input changes one member, and releases at most what binds it.        *)
LEMMA StepOK ==
    ASSUME ElectionInv, NEW i \in Member, gate[i] = "open", NEW after,
           NodeOK(net, after, i), Later(node[i], after), NEW retry, Step(i, after, retry)
    PROVE  ElectionInv'
<1> DEFINE n == DriveHandoff(after, i, retry)
<1>1. Steady(after, n, i)
    BY DriveHandoffSteady DEF NodeOK
<1>2. IsNode(node[i])
    BY DEF ElectionInv, Sound, MemberOK, NodeOK
<1>3. /\ plan' = plan /\ disk' = disk
      /\ \/ /\ node' = [node EXCEPT ![i] = n] /\ gate' = [gate EXCEPT ![i] = "pending"]
            /\ net' = net
         \/ /\ Persistent(n) = Persistent(node[i])
            /\ node' = [node EXCEPT ![i] = [n EXCEPT !.out = {}]]
            /\ net' = net \cup n.out /\ gate' = gate
    BY SMTT(30) DEF Step
<1> HIDE DEF n
<1>4. NodeOK(net, n, i) /\ Later(node[i], n)
    BY <1>1, <1>2, ThenSteady
<1>5. MemberOK(net, node[i], disk[i], gate[i], i) /\ PlanOK
    BY DEF ElectionInv, Sound
<1>6. CASE /\ node' = [node EXCEPT ![i] = n] /\ gate' = [gate EXCEPT ![i] = "pending"]
           /\ net' = net
    <2>1. Later(disk[i], n)
        BY <1>4, <1>5, SMTT(30) DEF MemberOK, Later
    <2>2. MemberOK(net, n, disk[i], "pending", i)
        BY <1>4, <1>5, <2>1 DEF MemberOK
    <2>3. Sound(node', disk', gate', net')
        BY <1>3, <1>6, <2>2, Zenon DEF ElectionInv, Sound
    <2> QED
        BY <1>3, <1>5, <2>3, SamePlan, SMTT(30)
<1>7. CASE /\ Persistent(n) = Persistent(node[i])
           /\ node' = [node EXCEPT ![i] = [n EXCEPT !.out = {}]]
           /\ net' = net \cup n.out /\ gate' = gate
    <2> DEFINE M == net \cup n.out
               q == [n EXCEPT !.out = {}]
    <2>1. n.term = disk[i].term /\ n.voted = disk[i].voted
        BY <1>5, <1>7 DEF Persistent, MemberOK
    <2>2. NetOK(M, disk) /\ OneChoice(M)
        BY <1>4, <1>5, <2>1, ReleaseOK DEF ElectionInv, Sound
    <2>3. /\ IsNode(q) /\ q.term = n.term /\ q.voted = n.voted /\ q.role = n.role
          /\ q.votes = n.votes /\ q.out = {}
        BY <1>4, SMTT(30) DEF NodeOK, IsNode, Fields
    <2> HIDE DEF q
    <2>4. NodeOK(net, q, i)
        BY <1>4, <2>3, SMTT(30) DEF NodeOK, RoleOK
    <2>5. MemberOK(net, q, disk[i], gate[i], i)
        BY <1>5, <2>1, <2>3, <2>4 DEF MemberOK
    <2>6. \A j \in Member : MemberOK(net, node[j], disk[j], gate[j], j)
        BY DEF ElectionInv, Sound
    <2>7. net \subseteq M
        OBVIOUS
    <2> HIDE DEF M
    <2>8. MemberOK(M, q, disk[i], gate[i], i)
          /\ \A j \in Member : MemberOK(M, node[j], disk[j], gate[j], j)
        BY <1>5, <2>5, <2>6, <2>7, MemberGrows
    <2>9. node' = [node EXCEPT ![i] = q] /\ net' = M /\ gate' = gate
        BY <1>7 DEF q, M
    <2>10. Sound(node', disk', gate', net')
        BY <1>3, <2>2, <2>8, <2>9, Zenon DEF ElectionInv, Sound
    <2> QED
        BY <1>3, <1>5, <2>10, SamePlan
<1> QED
    BY <1>3, <1>6, <1>7, SMTT(30)

(* A publication that completes makes the vote durable, then releases      *)
(* ballots.                                                                *)
LEMMA PersistedOK ==
    ASSUME ElectionInv, NEW i \in Member, Persisted(i)
    PROVE  ElectionInv'
<1> DEFINE n == node[i]
           d == [disk EXCEPT ![i] = Persistent(n)]
           M == net \cup n.out
           q == [n EXCEPT !.out = {}, !.initialized = TRUE]
<1>1. MemberOK(net, n, disk[i], "pending", i) /\ PlanOK
    BY DEF ElectionInv, Sound, Persisted
<1>2. NodeOK(net, n, i) /\ Later(disk[i], n)
    BY <1>1 DEF MemberOK
<1>3. /\ d[i].term = n.term /\ d[i].voted = n.voted
      /\ \A j \in Member : j # i => d[j] = disk[j]
    BY DEF ElectionInv, Sound, Persistent
<1>4. \A j \in Member : disk[j].term \in Nat
    BY DEF ElectionInv, Sound, MemberOK
<1>5. n.term \in Nat /\ n.voted \in Member \cup {Nobody}
    BY <1>2 DEF NodeOK, IsNode
<1> HIDE DEF d
<1>6. \A j \in Member : /\ disk[j].term \in Nat /\ d[j].term \in Nat
                        /\ Later(disk[j], d[j])
    BY <1>2, <1>3, <1>4, <1>5 DEF Later
<1>7. NetOK(net, d) /\ OneChoice(net)
    BY <1>6, NetFollowsDisk, SMTT(30) DEF ElectionInv, Sound
<1>8. NetOK(M, d) /\ OneChoice(M)
    BY <1>1, <1>2, <1>3, <1>7, ReleaseOK
<1>9. /\ IsNode(q) /\ q.term = n.term /\ q.voted = n.voted /\ q.role = n.role
      /\ q.votes = n.votes /\ q.out = {}
    BY <1>2, Zenon DEF NodeOK, IsNode, Fields
<1> HIDE DEF q
<1>10. MemberOK(net, q, d[i], "open", i)
    BY <1>2, <1>3, <1>5, <1>9, Zenon DEF MemberOK, NodeOK, RoleOK
<1>11. \A j \in Member : MemberOK(net, node[j], disk[j], gate[j], j)
    BY DEF ElectionInv, Sound
<1>12. net \subseteq M
    OBVIOUS
<1> HIDE DEF M
<1>13. MemberOK(M, q, d[i], "open", i)
       /\ \A j \in Member : MemberOK(M, node[j], disk[j], gate[j], j)
    BY <1>1, <1>10, <1>11, <1>12, MemberGrows
<1>14. /\ node' = [node EXCEPT ![i] = q] /\ net' = M /\ disk' = d
       /\ gate' = [gate EXCEPT ![i] = "open"] /\ plan' = plan
    BY Zenon DEF Persisted, q, M, d, ElectionInv, Sound
<1>15. DOMAIN d = Member /\ d = [j \in Member |-> d[j]]
    BY DEF d, ElectionInv, Sound
<1>16. Sound(node', disk', gate', net')
    BY <1>3, <1>8, <1>13, <1>14, <1>15, ZenonT(30) DEF ElectionInv, Sound
<1> QED
    BY <1>1, <1>14, <1>16, SamePlan

(* A publication that fails moves the durable vote forward or not at all.  *)
LEMMA PublicationFailedOK ==
    ASSUME ElectionInv, NEW i \in Member, PublicationFailed(i)
    PROVE  ElectionInv'
<1> DEFINE n == node[i]
<1>1. MemberOK(net, n, disk[i], "pending", i) /\ PlanOK
    BY DEF ElectionInv, Sound, PublicationFailed
<1>2. NodeOK(net, n, i) /\ Later(disk[i], n)
    BY <1>1 DEF MemberOK
<1>3. n.term \in Nat /\ n.voted \in Member \cup {Nobody}
    BY <1>2 DEF NodeOK, IsNode
<1>4. disk' \in {disk, [disk EXCEPT ![i] = Persistent(n)]}
    BY DEF PublicationFailed
<1>5. /\ DOMAIN disk' = Member /\ disk' = [j \in Member |-> disk'[j]]
      /\ \A j \in Member : j # i => disk'[j] = disk[j]
      /\ \/ disk'[i] = disk[i]
         \/ disk'[i].term = n.term /\ disk'[i].voted = n.voted
    BY <1>4 DEF ElectionInv, Sound, Persistent
<1>6. \A j \in Member : MemberOK(net, node[j], disk[j], gate[j], j)
    BY DEF ElectionInv, Sound
<1>7. \A j \in Member : disk[j].term \in Nat /\ disk[j].voted \in Member \cup {Nobody}
    BY <1>6 DEF MemberOK
<1>8. \A j \in Member : /\ disk[j].term \in Nat /\ disk'[j].term \in Nat
                        /\ Later(disk[j], disk'[j])
    BY <1>2, <1>3, <1>5, <1>7 DEF Later
<1>9. NetOK(net, disk')
    BY <1>8, NetFollowsDisk DEF ElectionInv, Sound
<1>10. disk'[i].voted \in Member \cup {Nobody}
    BY <1>3, <1>5, <1>7
<1>11. MemberOK(net, node[i], disk'[i], "poisoned", i)
    BY <1>2, <1>8, <1>10 DEF MemberOK
<1>12. /\ node' = node /\ net' = net /\ plan' = plan
       /\ gate' = [gate EXCEPT ![i] = "poisoned"]
    BY DEF PublicationFailed
<1>13. Sound(node', disk', gate', net')
    BY <1>5, <1>6, <1>9, <1>11, <1>12 DEF ElectionInv, Sound
<1> QED
    BY <1>1, <1>12, <1>13, SamePlan

(* A member that opens a published root follows.                           *)
LEMMA RecoveredOK ==
    ASSUME NEW N, NEW i, NEW d, d.term \in Nat, d.voted \in Member \cup {Nobody}
    PROVE  LET r == Recovered(d)
           IN  NodeOK(N, r, i) /\ r.term = d.term /\ r.voted = d.voted /\ r.out = {}
<1> DEFINE r == Recovered(d)
<1>1. /\ DOMAIN r = Fields /\ r = [x \in Fields |-> r[x]]
      /\ r.term = d.term /\ r.voted = d.voted /\ r.role = "Follower" /\ r.out = {}
    BY Zenon DEF Recovered, Fields
<1> HIDE DEF r
<1>2. NodeOK(N, r, i)
    BY <1>1 DEF NodeOK, IsNode, RoleOK
<1> QED
    BY <1>1, <1>2 DEF r

(* So it is whether or not it has published a root.                        *)
LEMMA RecoveredAsOK ==
    ASSUME NEW N, NEW i \in Member, NEW d, d.term \in Nat, d.voted \in Member \cup {Nobody},
           NEW b, NEW n, n = [Recovered(d) EXCEPT !.initialized = b]
    PROVE  NodeOK(N, n, i) /\ n.term = d.term /\ n.voted = d.voted /\ n.out = {}
<1> DEFINE r == Recovered(d)
<1>0. n = [r EXCEPT !.initialized = b]
    OBVIOUS
<1>1. NodeOK(N, r, i) /\ r.term = d.term /\ r.voted = d.voted /\ r.out = {}
    BY RecoveredOK
<1> HIDE DEF r
<1>2. Steady(r, n, i) /\ n.out = {} /\ n.term = r.term /\ n.voted = r.voted
    BY <1>0, <1>1 DEF NodeOK, Steady, IsNode, Fields
<1>3. NodeOK(N, n, i)
    BY <1>1, <1>2, SteadyKeeps
<1> QED
    BY <1>1, <1>2, <1>3

(* A recovered member has the vote it published and holds no output.       *)
LEMMA RecoverOK ==
    ASSUME ElectionInv, NEW i \in Member, Recover(i)
    PROVE  ElectionInv'
<1> DEFINE b == node[i].initialized \/ disk[i] # Fresh
           n == [Recovered(disk[i]) EXCEPT !.initialized = b]
<1>1. MemberOK(net, node[i], disk[i], gate[i], i) /\ PlanOK
    BY SMTT(30) DEF ElectionInv, Sound
<1> HIDE DEF b
<1>0. disk[i].term \in Nat /\ disk[i].voted \in Member \cup {Nobody}
    BY <1>1 DEF MemberOK
<1>2. NodeOK(net, n, i) /\ n.term = disk[i].term /\ n.voted = disk[i].voted /\ n.out = {}
    BY <1>0, RecoveredAsOK, Zenon
<1>3. /\ node' = [node EXCEPT ![i] = n] /\ gate' = [gate EXCEPT ![i] = "open"]
      /\ disk' = disk /\ net' = net /\ plan' = plan
    BY DEF Recover, b
<1> HIDE DEF n
<1>4. MemberOK(net, n, disk[i], "open", i)
    BY <1>1, <1>2 DEF MemberOK
<1>5. Sound(node', disk', gate', net')
    BY <1>3, <1>4, Zenon DEF ElectionInv, Sound
<1> QED
    BY <1>1, <1>3, <1>5, SamePlan

(* The invariant holds initially, whatever roots the members start from.   *)
LEMMA ElectionInit == PlanOK /\ Init => ElectionInv
<1> SUFFICES ASSUME PlanOK, Init PROVE ElectionInv
    OBVIOUS
<1>1. PICK s \in Scenarios : plan = s.plan /\ Boot(s.roots, s.initialized)
    BY DEF Init
<1>3. /\ node = [i \in Member |->
                   [Recovered(s.roots[i]) EXCEPT !.initialized = s.initialized]]
      /\ disk = s.roots /\ gate = [i \in Member |-> "open"] /\ net = {}
    BY <1>1, Zenon DEF Boot
<1>4. /\ disk = [i \in Member |-> disk[i]]
      /\ \A i \in Member : disk[i].term \in Nat /\ disk[i].voted \in Member \cup {Nobody}
    BY <1>3, RaftAssumption, Zenon DEF RaftAssumption
<1>5. ASSUME NEW i \in Member PROVE MemberOK(net, node[i], disk[i], gate[i], i)
    <2>1. node[i] = [Recovered(disk[i]) EXCEPT !.initialized = s.initialized]
          /\ gate[i] = "open"
        BY <1>3
    <2> DEFINE n == [Recovered(disk[i]) EXCEPT !.initialized = s.initialized]
    <2>3. disk[i].term \in Nat /\ disk[i].voted \in Member \cup {Nobody}
        BY <1>4
    <2>4. NodeOK(net, n, i) /\ n.term = disk[i].term /\ n.voted = disk[i].voted /\ n.out = {}
        BY <2>3, RecoveredAsOK, Zenon
    <2>2. /\ NodeOK(net, node[i], i) /\ node[i].out = {}
          /\ node[i].term = disk[i].term /\ node[i].voted = disk[i].voted
        BY <2>1, <2>4, Zenon
    <2> QED
        BY <1>4, <2>1, <2>2 DEF MemberOK
<1>6. NetOK(net, disk) /\ OneChoice(net)
    BY <1>3 DEF NetOK, OneChoice
<1>7. DOMAIN node = Member /\ node = [i \in Member |-> node[i]]
      /\ DOMAIN gate = Member /\ gate = [i \in Member |-> gate[i]]
    BY <1>3
<1>8. DOMAIN disk = Member
    BY <1>4
<1> QED
    BY <1>4, <1>5, <1>6, <1>7, <1>8 DEF ElectionInv, Sound

(* Every step preserves the invariant.                                     *)
LEMMA ElectionNext == ElectionInv /\ [Next]_vars => ElectionInv'
<1> SUFFICES ASSUME ElectionInv, [Next]_vars PROVE ElectionInv'
    OBVIOUS
<1>1. PlanOK /\ \A i \in Member : NodeOK(net, node[i], i) /\ IsNode(node[i])
    BY DEF ElectionInv, Sound, MemberOK, NodeOK
<1>2. \A i \in Member : gate[i] = "open" => node[i].out = {}
    BY DEF ElectionInv, Sound, MemberOK
<1>3. \A i \in Member : \A r, retry :
          gate[i] = "open" /\ Steady(node[i], r, i) /\ Step(i, r, retry) => ElectionInv'
    BY <1>1, SteadyKeeps, StepOK, Zenon
<1>4. ASSUME NEW i \in Member, ElectionTimeout(i) PROVE ElectionInv'
    BY <1>1, <1>2, <1>4, CampaignOK, StepOK, Zenon DEF ElectionTimeout, Accepts
<1>5. ASSUME NEW i \in Member, LivenessTimeout(i) PROVE ElectionInv'
    BY <1>1, <1>2, <1>5, OnLivenessTimeoutOK, StepOK, Zenon DEF LivenessTimeout, Accepts
<1>6. ASSUME NEW i \in Member, NEW target \in Member, TransferLeadership(i, target)
      PROVE  ElectionInv'
    BY <1>1, <1>3, <1>6, StartHandoffSteady, Zenon DEF TransferLeadership, Accepts
<1>7. ASSUME NEW i \in Member, AbortLeadershipTransfer(i) PROVE ElectionInv'
    <2> DEFINE n == node[i]
               r == [n EXCEPT !.handoff = Nobody]
    <2>1. Steady(n, r, i)
        BY <1>1, Zenon DEF Steady, IsNode, Fields
    <2> HIDE DEF r
    <2>2. gate[i] = "open" /\ Step(i, r, FALSE)
        BY <1>7, Zenon DEF AbortLeadershipTransfer, Accepts, r
    <2> QED
        BY <1>3, <2>1, <2>2, Zenon
<1>8. ASSUME NEW i \in Member, Heartbeat(i) PROVE ElectionInv'
    <2> DEFINE b == Broadcast(node[i], i, TRUE)
    <2>1. /\ gate[i] = "open" /\ node[i].role = "Leader"
          /\ Step(i, RetryQuorumProbe(b, i), TRUE)
        BY <1>8, Zenon DEF Heartbeat, OnHeartbeat, Accepts
    <2>2. Steady(node[i], b, i)
        BY <1>1, <2>1, BroadcastSteady, Zenon
    <2> HIDE DEF b
    <2>3. IsNode(b) /\ b.role = "Leader"
        BY <1>1, <2>1, <2>2, SteadyIsNode DEF Steady
    <2>4. Steady(node[i], RetryQuorumProbe(b, i), i)
        BY <2>2, <2>3, RetryQuorumProbeSteady, SteadyTrans
    <2> QED
        BY <1>3, <2>1, <2>4, Zenon
<1>9. ASSUME NEW i \in Member, SnapshotFailed(i) PROVE ElectionInv'
    <2> DEFINE n == node[i]
               r == [n EXCEPT !.incoming = Nobody]
    <2>1. Steady(n, r, i)
        BY <1>1, Zenon DEF Steady, IsNode, Fields
    <2> HIDE DEF r
    <2>2. gate[i] = "open" /\ Step(i, r, FALSE)
        BY <1>9, Zenon DEF SnapshotFailed, Accepts, r
    <2> QED
        BY <1>3, <2>1, <2>2, Zenon
<1>10. ASSUME NEW i \in Member, NEW commands, Propose(i, commands) PROVE ElectionInv'
    <2>1. PICK log : LET a == [node[i] EXCEPT !.log = log]
                     IN  Step(i, Broadcast(AdvanceCommit(a, i), i, FALSE), FALSE)
        BY <1>10, Zenon DEF Propose
    <2>2. gate[i] = "open" /\ node[i].role = "Leader"
        BY <1>10 DEF Propose, Accepts
    <2> DEFINE n == node[i]
               a == [n EXCEPT !.log = log]
               c == AdvanceCommit(a, i)
               b == Broadcast(c, i, FALSE)
    <2>3. Steady(n, a, i)
        BY <1>1, Zenon DEF Steady, IsNode, Fields
    <2> HIDE DEF a
    <2>4. IsNode(a) /\ a.role = "Leader"
        BY <1>1, <2>2, <2>3, SteadyIsNode DEF Steady
    <2>5. Steady(a, c, i)
        BY <2>4, AdvanceCommitSteady
    <2> HIDE DEF c
    <2>6. IsNode(c) /\ c.role = "Leader"
        BY <2>4, <2>5, SteadyIsNode DEF Steady
    <2>7. Steady(n, b, i)
        BY <2>3, <2>5, <2>6, BroadcastSteady, SteadyTrans, Zenon
    <2>8. Step(i, b, FALSE)
        BY <2>1, Zenon DEF a, c
    <2> QED
        BY <1>3, <2>2, <2>7, <2>8, Zenon
<1>11. ASSUME NEW i \in Member, NEW m \in net, Receive(i, m) PROVE ElectionInv'
    <2>1. m.from \in Member /\ Sent(m, m.from)
        BY DEF ElectionInv, Sound, NetOK
    <2>2. gate[i] = "open" /\ m.to = i /\ Step(i, Received(node[i], i, m), FALSE)
        BY <1>11, Zenon DEF Receive
    <2>3. NodeOK(net, Received(node[i], i, m), i) /\ Later(node[i], Received(node[i], i, m))
        BY <1>1, <1>2, <2>1, <2>2, ReceivedOK
    <2> QED
        BY <2>2, <2>3, StepOK, Zenon
<1>12. ASSUME NEW i \in Member, NEW k, Compact(i, k) PROVE ElectionInv'
    BY <1>1, <1>3, <1>12, CompactedSteady, Zenon DEF Compact, Accepts
<1>13. ASSUME NEW i \in Member, SnapshotReady(i) PROVE ElectionInv'
    <2>1. CASE gate[i] = "open" /\ Step(i, InstallSnapshot(node[i], i), FALSE)
        BY <1>1, <1>3, <2>1, InstallSnapshotSteady, Zenon
    <2>2. CASE /\ gate' = [gate EXCEPT ![i] = "poisoned"]
               /\ UNCHANGED <<node, disk, net, restarts, plan>>
        <3>1. MemberOK(net, node[i], disk[i], "poisoned", i)
            BY DEF ElectionInv, Sound, MemberOK
        <3>2. Sound(node', disk', gate', net')
            BY <2>2, <3>1 DEF ElectionInv, Sound
        <3> QED
            BY <1>1, <2>2, <3>2, SamePlan
    <2> QED
        BY <1>13, <2>1, <2>2, Zenon DEF SnapshotReady, Accepts
<1>14. CASE UNCHANGED vars
    <2>1. Sound(node', disk', gate', net') /\ plan' = plan
        BY <1>14 DEF vars, ElectionInv
    <2> QED
        BY <1>1, <2>1, SamePlan
<1> QED
    BY <1>4, <1>5, <1>6, <1>7, <1>8, <1>9, <1>10, <1>11, <1>12, <1>13, <1>14,
       PersistedOK, PublicationFailedOK, RecoverOK DEF Next, Administer

(* Members that spoke as leader of one term are one member: each had the   *)
(* ballots of a quorum, and the member the quorums share names one choice. *)
LEMMA LeadersAgree == ElectionInv => OneLeaderPerTerm
<1> SUFFICES ASSUME ElectionInv, NEW m1 \in net, NEW m2 \in net,
                    m1.type \in LeaderKinds, m2.type \in LeaderKinds,
                    m1.term = m2.term
             PROVE  m1.from = m2.from
    BY DEF OneLeaderPerTerm
<1>1. PlanOK /\ NetOK(net, disk) /\ OneChoice(net)
    BY DEF ElectionInv, Sound
<1> DEFINE t == m1.term
           A == {m1.from} \cup Supporters(net, m1.from, t)
           B == {m2.from} \cup Supporters(net, m2.from, t)
<1>2. Quorum(A) /\ Quorum(B)
    BY <1>1 DEF NetOK, Elected
<1>3. PICK k \in Member : k \in A /\ k \in B
    BY <1>1, <1>2, QuorumsMeet
<1>4. IsBallot(m1) /\ IsBallot(m2) /\ Choice(m1) = m1.from /\ Choice(m2) = m2.from
    BY DEF IsBallot, Choice, LeaderKinds
<1>5. \A i : k \in Supporters(net, i, t) =>
          \E q \in net : /\ IsBallot(q) /\ q.from = k /\ q.term = t
                         /\ Choice(q) = i
    BY DEF Supporters, IsBallot, Choice
<1>6. \A m \in {m1, m2} : k \in {m.from} \cup Supporters(net, m.from, t) =>
          \E q \in net : /\ IsBallot(q) /\ q.from = k /\ q.term = t
                         /\ Choice(q) = m.from
    BY <1>4, <1>5
<1> QED
    BY <1>1, <1>3, <1>6 DEF OneChoice

(* No step changes a published vote within its term.                       *)
LEMMA VoteStays ==
    ElectionInv /\ [Next]_vars =>
        [\A i \in Member :
            disk'[i].term = disk[i].term /\ disk[i].voted # Nobody =>
                disk'[i].voted = disk[i].voted]_vars
<1>1. ASSUME ElectionInv, [Next]_vars, NEW i \in Member,
             disk'[i].term = disk[i].term, disk[i].voted # Nobody
      PROVE  disk'[i].voted = disk[i].voted
    <2>1. \A j \in Member : MemberOK(net, node[j], disk[j], gate[j], j)
          /\ disk = [k \in Member |-> disk[k]]
        BY <1>1 DEF ElectionInv, Sound
    <2>0. \A j, after, retry : Step(j, after, retry) => disk' = disk
        BY DEF Step
    <2>2. \/ disk' = disk
          \/ \E j \in Member : /\ gate[j] = "pending"
                               /\ disk' = [disk EXCEPT ![j] = Persistent(node[j])]
        BY <1>1, <2>0, ZenonT(30) DEF Next, Administer, ElectionTimeout, LivenessTimeout, TransferLeadership,
           AbortLeadershipTransfer, Heartbeat, OnHeartbeat, SnapshotFailed, Propose, Receive,
           Compact, SnapshotReady, Persisted, PublicationFailed, Recover, vars
    <2>3. CASE \E j \in Member : /\ gate[j] = "pending"
                                 /\ disk' = [disk EXCEPT ![j] = Persistent(node[j])]
        <3>1. PICK j \in Member : /\ gate[j] = "pending"
                                  /\ disk' = [disk EXCEPT ![j] = Persistent(node[j])]
            BY <2>3, Zenon
        <3>2. Later(disk[j], node[j]) /\ node[j].term \in Nat /\ disk[j].term \in Nat
            BY <2>1, <3>1, Zenon DEF MemberOK, NodeOK, IsNode
        <3>3. CASE j = i
            <4>1. disk'[i].term = node[i].term /\ disk'[i].voted = node[i].voted
                BY <2>1, <3>1, <3>3 DEF Persistent
            <4> QED
                BY <1>1, <3>2, <3>3, <4>1 DEF Later
        <3>4. CASE j # i
            BY <2>1, <3>1, <3>4
        <3> QED
            BY <3>3, <3>4
    <2> QED
        BY <2>2, <2>3
<1> QED
    BY <1>1

=============================================================================
