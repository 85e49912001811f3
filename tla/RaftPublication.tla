--------------------------- MODULE RaftPublication --------------------------
(***************************************************************************)
(* The invariant of logs through the publication gate: LogInv is inductive,*)
(* and implies StepNeverFails and RootsAlwaysOpen.                         *)
(***************************************************************************)
EXTENDS Raft, RaftLogProofs

(* A member with the root it has published last.                           *)
MemberLog(n, d, g, i) ==
    /\ LocalOK(n, i) /\ RootOK(d) /\ d.commit <= n.commit
    /\ g = "open" => Persistent(n) = Persistent(d)

LogState(nodes, disks, gates, sent) ==
    /\ DOMAIN nodes = Member /\ DOMAIN disks = Member /\ DOMAIN gates = Member
    /\ \A i \in Member : MemberLog(nodes[i], disks[i], gates[i], i)
    /\ \A m \in sent : Typed(m)

LogInv == Grounds /\ LogState(node, disk, gate, net)

-----------------------------------------------------------------------------
(* Publication and release *)

(* The plan never changes, and nor does what the invariant says of it.     *)
LEMMA SamePlanLogs ==
    ASSUME Grounds, LogState(node', disk', gate', net'), plan' = plan
    PROVE  LogInv'
<1>1. Voters' = Voters /\ MaxAppendEntries' = MaxAppendEntries
    BY DEF Voters, Groups, MaxAppendEntries
<1>2. Grounds'
    BY <1>1 DEF Grounds
<1>3. ASSUME NEW i \in Member PROVE (MemberLog(node[i], disk[i], gate[i], i))'
    <2>1. MemberLog(node'[i], disk'[i], gate'[i], i)
        BY DEF LogState
    <2>2. (RootOK(node[i]))' /\ (RootOK(disk[i]))'
        BY <1>1, <2>1, Zenon DEF MemberLog, LocalOK, RootOK
    <2>3. (Standing(node[i], i))'
        BY <1>1, <2>1, Zenon DEF MemberLog, LocalOK, Standing
    <2>4. (LocalOK(node[i], i))'
        BY <2>1, <2>2, <2>3, Zenon DEF MemberLog, LocalOK
    <2> QED
        BY <2>1, <2>2, <2>4, Zenon DEF MemberLog
<1>4. (LogState(node, disk, gate, net))'
    BY <1>3, Zenon DEF LogState
<1> QED
    BY <1>2, <1>4 DEF LogInv

(* What is left once the output is released.                               *)
LEMMA ReleasedOK ==
    ASSUME NEW i, NEW n, LocalOK(n, i), NEW b
    PROVE  LET q == [n EXCEPT !.out = {}, !.initialized = b]
           IN  LocalOK(q, i) /\ Persistent(q) = Persistent(n)
<1> DEFINE q == [n EXCEPT !.out = {}, !.initialized = b]
<1>1. Calm(n, q)
    BY Zenon DEF Calm, LocalOK, Shape, Fields
<1> HIDE DEF q
<1>2. LocalOK(q, i)
    BY <1>1, CalmOK, SMTT(20) DEF Good
<1> QED
    BY <1>1, <1>2, SMTT(20) DEF Calm, Persistent, q

(* The root a member publishes opens again.                                *)
LEMMA PersistentRoot ==
    ASSUME NEW i, NEW n, LocalOK(n, i)
    PROVE  LET d == Persistent(n)
           IN  RootOK(d) /\ d.commit = n.commit /\ Persistent(d) = d
<1> DEFINE d == Persistent(n)
<1>1. /\ d.term = n.term /\ d.voted = n.voted /\ d.commit = n.commit
      /\ d.snap = n.snap /\ d.log = n.log
    BY SMTT(20) DEF Persistent
<1> HIDE DEF d
<1> QED
    BY <1>1, Zenon DEF LocalOK, RootOK, ValidRoot, LastIndex, Persistent, d

(* An input leaves the state in order when the handler does.               *)
LEMMA StepLog ==
    ASSUME LogInv, NEW i \in Member, gate[i] = "open", NEW after,
           Moves(node[i], after, i), NEW retry, Step(i, after, retry)
    PROVE  LogInv'
<1> DEFINE n == DriveHandoff(after, i, retry)
           q == [n EXCEPT !.out = {}]
<1>1. MemberLog(node[i], disk[i], gate[i], i)
    BY SMTT(20) DEF LogInv, LogState
<1>2. LocalOK(node[i], i) /\ LocalOK(after, i)
    BY <1>1, SMTT(20) DEF MemberLog, Moves
<1>3. Good(after, n, i)
    BY <1>2, DriveHandoffGood, SMTT(20)
<1> HIDE DEF n
<1>4. Moves(node[i], n, i)
    BY <1>2, <1>3, MovesThenGood
<1>5. LocalOK(n, i) /\ RootOK(disk[i]) /\ disk[i].commit <= n.commit
    <2>1. /\ LocalOK(n, i) /\ RootOK(disk[i])
          /\ n.commit >= node[i].commit /\ disk[i].commit <= node[i].commit
        BY <1>1, <1>4, Zenon DEF Moves, MemberLog
    <2>2. n.commit \in Nat /\ node[i].commit \in Nat /\ disk[i].commit \in Nat
        BY <1>2, <2>1, ZenonT(30) DEF LocalOK, RootOK
    <2> QED
        BY <2>1, <2>2
<1>6. \A m \in n.out : Typed(m)
    BY <1>5, Zenon DEF LocalOK
<1>7. Calm(n, q)
    BY <1>5, Zenon DEF Calm, LocalOK, Shape, Fields
<1>8. \/ /\ node' = [node EXCEPT ![i] = n] /\ gate' = [gate EXCEPT ![i] = "pending"]
         /\ net' = net
      \/ /\ node' = [node EXCEPT ![i] = q] /\ net' = net \cup n.out /\ gate' = gate
         /\ Persistent(n) = Persistent(node[i])
    BY Zenon DEF Step, n
<1>9. disk' = disk /\ plan' = plan
    BY SMTT(20) DEF Step
<1> HIDE DEF q
<1>10. LocalOK(q, i) /\ q.commit = n.commit /\ Persistent(q) = Persistent(n)
    BY <1>5, <1>7, CalmOK, Zenon DEF Good, Calm, Persistent
<1>11. MemberLog(n, disk[i], "pending", i)
    BY <1>5, ZenonT(30) DEF MemberLog
<1>12. Persistent(n) = Persistent(node[i]) => MemberLog(q, disk[i], gate[i], i)
    BY <1>1, <1>5, <1>10, Zenon DEF MemberLog
<1>13. LogState(node', disk', gate', net')
    BY <1>6, <1>8, <1>9, <1>11, <1>12, Zenon DEF LogInv, LogState
<1> QED
    BY <1>9, <1>13, SamePlanLogs, Zenon DEF LogInv

(* Publishing a root and releasing what waited for it keeps the invariant. *)
LEMMA PersistedLog ==
    ASSUME LogInv, NEW i \in Member, Persisted(i)
    PROVE  LogInv'
<1> DEFINE n == node[i]
           q == [n EXCEPT !.out = {}, !.initialized = TRUE]
           d == Persistent(n)
<1>1. LocalOK(n, i)
    BY Zenon DEF LogInv, LogState, MemberLog
<1>2. LocalOK(q, i) /\ Persistent(q) = d
    BY <1>1, ReleasedOK, Zenon
<1>3. RootOK(d) /\ d.commit = n.commit /\ Persistent(d) = d
    BY <1>1, PersistentRoot, Zenon
<1>4. q.commit = n.commit /\ n.commit \in Nat
    BY <1>1, ZenonT(30) DEF LocalOK, Shape, Fields, RootOK
<1>5. \A m \in n.out : Typed(m)
    BY <1>1, Zenon DEF LocalOK
<1>6. /\ node' = [node EXCEPT ![i] = q] /\ gate' = [gate EXCEPT ![i] = "open"]
      /\ disk' = [disk EXCEPT ![i] = d] /\ net' = net \cup n.out /\ plan' = plan
    <2>1. node' = [node EXCEPT ![i] = q]
        BY Zenon DEF Persisted, LogInv, LogState
    <2> QED
        BY <2>1, Zenon DEF Persisted
<1> HIDE DEF d, q, n
<1>7. MemberLog(q, d, "open", i)
    BY <1>2, <1>3, <1>4, SMTT(20) DEF MemberLog
<1>8. LogState(node', disk', gate', net')
    BY <1>5, <1>6, <1>7, Zenon DEF LogInv, LogState
<1> QED
    BY <1>6, <1>8, SamePlanLogs, ZenonT(30) DEF LogInv

(* A failed publication, whether or not it was written, keeps it.          *)
LEMMA PublicationFailedLog ==
    ASSUME LogInv, NEW i \in Member, PublicationFailed(i)
    PROVE  LogInv'
<1>1. MemberLog(node[i], disk[i], gate[i], i)
    BY DEF LogInv, LogState
<1>2. RootOK(Persistent(node[i])) /\ Persistent(node[i]).commit = node[i].commit
    BY <1>1, PersistentRoot, Zenon DEF MemberLog
<1>4. /\ node' = node /\ net' = net /\ plan' = plan
      /\ gate' = [gate EXCEPT ![i] = "poisoned"]
    BY SMTT(20) DEF PublicationFailed
<1>5. node[i].commit \in Nat
    BY <1>1, ZenonT(30) DEF MemberLog, LocalOK, RootOK
<1>6. /\ MemberLog(node[i], disk[i], "poisoned", i)
      /\ MemberLog(node[i], Persistent(node[i]), "poisoned", i)
    BY <1>1, <1>2, <1>5, SMTT(20) DEF MemberLog
<1>3. disk' \in {disk, [disk EXCEPT ![i] = Persistent(node[i])]}
    BY DEF PublicationFailed
<1>7. LogState(node', disk', gate', net')
    BY <1>3, <1>4, <1>6, Zenon DEF LogInv, LogState
<1> QED
    BY <1>4, <1>7, SamePlanLogs, SMTT(20) DEF LogInv

(* A root that opens makes a member in order.                              *)
LEMMA RecoveredGood ==
    ASSUME NEW i, NEW d, RootOK(d), NEW b,
           NEW r, r = [Recovered(d) EXCEPT !.initialized = b]
    PROVE  LocalOK(r, i) /\ Persistent(r) = Persistent(d) /\ r.commit = d.commit
<1>1. /\ Shape(r) /\ r.term = d.term /\ r.voted = d.voted /\ r.commit = d.commit
      /\ r.snap = d.snap /\ r.log = d.log /\ r.role = "Follower" /\ r.out = {}
      /\ r.prog = <<>> /\ r.incoming = Nobody /\ r.handoff = Nobody
    BY Zenon DEF Recovered, Shape, Fields
<1>2. RootOK(r)
    BY <1>1 DEF RootOK, ValidRoot, LastIndex
<1>3. LocalOK(r, i)
    BY <1>1, <1>2 DEF LocalOK, WindowsOK, IncomingOK, Standing
<1>4. Persistent(r) = Persistent(d)
    BY <1>1, Zenon DEF Persistent
<1> QED
    BY <1>1, <1>3, <1>4

(* A member recovered from its published root keeps it.                    *)
LEMMA RecoverLog ==
    ASSUME LogInv, NEW i \in Member, Recover(i)
    PROVE  LogInv'
<1> DEFINE b == node[i].initialized \/ disk[i] # Fresh
           r == [Recovered(disk[i]) EXCEPT !.initialized = b]
<1>1. MemberLog(node[i], disk[i], gate[i], i)
    BY DEF LogInv, LogState
<1> HIDE DEF b
<1>3. LocalOK(r, i) /\ Persistent(r) = Persistent(disk[i]) /\ r.commit = disk[i].commit
    BY <1>1, RecoveredGood, ZenonT(30) DEF MemberLog
<1>4. /\ node' = [node EXCEPT ![i] = r] /\ gate' = [gate EXCEPT ![i] = "open"]
      /\ disk' = disk /\ net' = net /\ plan' = plan
    BY SMTT(20) DEF Recover, b
<1> HIDE DEF r
<1>5. disk[i].commit \in Nat
    BY <1>1, SMTT(20) DEF MemberLog, RootOK
<1>6. MemberLog(r, disk[i], "open", i)
    BY <1>1, <1>3, <1>5 DEF MemberLog
<1>7. LogState(node', disk', gate', net')
    BY <1>4, <1>6, Zenon DEF LogInv, LogState
<1> QED
    BY <1>4, <1>7, SamePlanLogs DEF LogInv

(* The roots a scenario starts from open.                                  *)
LEMMA LogInit == SetFacts /\ Init => LogInv
<1> SUFFICES ASSUME SetFacts, Init PROVE LogInv
    OBVIOUS
<1>1. PICK s \in Scenarios : plan = s.plan /\ Boot(s.roots, s.initialized)
    BY SMTT(20) DEF Init
<1>2. /\ s.plan.maxAppend \in 1..MaxLogEntries /\ MaxLogEntries \in Nat
      /\ \A g \in s.plan.groups : g \subseteq Member
    BY RaftAssumption, KernelAssumption, Zenon DEF RaftAssumption, KernelAssumption
<1>3. Grounds
    <2>1. MaxAppendEntries \in Nat \ {0} /\ Voters \subseteq Member
        BY <1>1, <1>2 DEF MaxAppendEntries, Voters, Groups
    <2> QED
        BY <2>1, Zenon DEF Grounds
<1>4. /\ node = [i \in Member |->
                   [Recovered(s.roots[i]) EXCEPT !.initialized = s.initialized]]
      /\ disk = s.roots /\ gate = [i \in Member |-> "open"] /\ net = {}
    BY <1>1, Zenon DEF Boot
<1>5. disk = [i \in Member |-> disk[i]]
    BY <1>4, RaftAssumption, Zenon DEF RaftAssumption
<1>6. ASSUME NEW i \in Member PROVE MemberLog(node[i], disk[i], gate[i], i)
    <2> DEFINE r == [Recovered(disk[i]) EXCEPT !.initialized = s.initialized]
    <2>1. node[i] = r /\ gate[i] = "open"
        BY <1>4, SMTT(20)
    <2>2. Voters = UNION s.plan.groups
        BY <1>1 DEF Voters, Groups
    <2>3. RootOK(disk[i])
        BY <1>4, <2>2, RaftAssumption, Zenon DEF RaftAssumption, RootOK
    <2>4. LocalOK(r, i) /\ Persistent(r) = Persistent(disk[i]) /\ r.commit = disk[i].commit
        BY <2>3, RecoveredGood, ZenonT(30)
    <2> HIDE DEF r
    <2>5. disk[i].commit \in Nat
        BY <2>3 DEF RootOK
    <2> QED
        BY <2>1, <2>3, <2>4, <2>5 DEF MemberLog
<1>7. LogState(node, disk, gate, net)
    <2>1. DOMAIN node = Member /\ DOMAIN gate = Member
        BY <1>4
    <2>2. DOMAIN disk = Member
        BY <1>5
    <2> QED
        BY <1>4, <1>6, <2>1, <2>2, Zenon DEF LogState
<1> QED
    BY <1>3, <1>7 DEF LogInv

(* A member without its handoff, or its snapshot transfer, is in order.    *)
LEMMA DroppedGood ==
    ASSUME NEW i, NEW n, LocalOK(n, i)
    PROVE  Good(n, [n EXCEPT !.handoff = Nobody], i) /\ Good(n, [n EXCEPT !.incoming = Nobody], i)
<1>0. n.commit \in Nat
    BY DEF LocalOK, RootOK
<1>1. Good(n, [n EXCEPT !.handoff = Nobody], i)
    <2> DEFINE r == [n EXCEPT !.handoff = Nobody]
    <2>1. /\ Shape(r) /\ r.handoff = Nobody
          /\ r.term = n.term /\ r.voted = n.voted /\ r.commit = n.commit
          /\ r.snap = n.snap /\ r.log = n.log /\ r.role = n.role /\ r.prog = n.prog
          /\ r.incoming = n.incoming /\ r.out = n.out
        BY ZenonT(30) DEF LocalOK, Shape, Fields
    <2> HIDE DEF r
    <2>2. RootOK(r) /\ LastIndex(r) = LastIndex(n)
        BY <2>1, ZenonT(30) DEF LocalOK, RootOK, ValidRoot, LastIndex
    <2>3. WindowsOK(r, i) /\ IncomingOK(r, i) /\ Standing(r, i)
        BY <2>1, <2>2, Zenon DEF LocalOK, WindowsOK, IncomingOK, Standing
    <2>4. LocalOK(r, i)
        BY <2>1, <2>2, <2>3, Zenon DEF LocalOK
    <2>5. Kept(n, r)
        BY <1>0, <2>1 DEF Kept
    <2> QED
        BY <2>4, <2>5, Zenon DEF Good, r
<1>2. Good(n, [n EXCEPT !.incoming = Nobody], i)
    <2> DEFINE r == [n EXCEPT !.incoming = Nobody]
    <2>1. /\ Shape(r) /\ r.incoming = Nobody
          /\ r.term = n.term /\ r.voted = n.voted /\ r.commit = n.commit
          /\ r.snap = n.snap /\ r.log = n.log /\ r.role = n.role /\ r.prog = n.prog
          /\ r.handoff = n.handoff /\ r.out = n.out
        BY ZenonT(30) DEF LocalOK, Shape, Fields
    <2> HIDE DEF r
    <2>2. RootOK(r) /\ LastIndex(r) = LastIndex(n)
        BY <2>1, ZenonT(30) DEF LocalOK, RootOK, ValidRoot, LastIndex
    <2>3. WindowsOK(r, i) /\ IncomingOK(r, i) /\ Standing(r, i)
        BY <2>1, <2>2, Zenon DEF LocalOK, WindowsOK, IncomingOK, Standing
    <2>4. LocalOK(r, i)
        BY <2>1, <2>2, <2>3, ZenonT(30) DEF LocalOK
    <2>5. Kept(n, r)
        BY <1>0, <2>1, SMTT(20) DEF Kept
    <2> QED
        BY <2>4, <2>5, Zenon DEF Good, r
<1> QED
    BY <1>1, <1>2, SMTT(20)

(* Every step preserves the invariant of logs.                             *)
LEMMA LogNext == LogInv /\ [Next]_vars => LogInv'
<1> SUFFICES ASSUME LogInv, [Next]_vars PROVE LogInv'
    BY SMTT(20)
<1>1. /\ Grounds /\ LogState(node, disk, gate, net)
      /\ \A i \in Member : LocalOK(node[i], i)
      /\ \A m \in net : Typed(m)
    BY Zenon DEF LogInv, LogState, MemberLog
<1>2. \A i \in Member : \A r, retry :
          gate[i] = "open" /\ Good(node[i], r, i) /\ Step(i, r, retry) => LogInv'
    BY GoodMoves, StepLog, Zenon
<1>3. ASSUME NEW i \in Member, ElectionTimeout(i) PROVE LogInv'
    BY <1>1, <1>2, <1>3, CampaignGood, Zenon DEF ElectionTimeout, Accepts
<1>4. ASSUME NEW i \in Member, LivenessTimeout(i) PROVE LogInv'
    BY <1>1, <1>2, <1>4, OnLivenessTimeoutGood, Zenon DEF LivenessTimeout, Accepts
<1>5. ASSUME NEW i \in Member, NEW target \in Member, TransferLeadership(i, target)
      PROVE  LogInv'
    BY <1>1, <1>2, <1>5, StartHandoffGood, Zenon DEF TransferLeadership, Accepts
<1>6. ASSUME NEW i \in Member, AbortLeadershipTransfer(i) PROVE LogInv'
    BY <1>1, <1>2, <1>6, DroppedGood, Zenon DEF AbortLeadershipTransfer, Accepts
<1>7. ASSUME NEW i \in Member, Heartbeat(i) PROVE LogInv'
    <2> DEFINE b == Broadcast(node[i], i, TRUE)
    <2>1. /\ gate[i] = "open" /\ node[i].role = "Leader"
          /\ Step(i, RetryQuorumProbe(b, i), TRUE)
        BY <1>7, ZenonT(30) DEF Heartbeat, OnHeartbeat, Accepts
    <2>2. Good(node[i], b, i)
        BY <1>1, <2>1, BroadcastGood, Zenon
    <2> HIDE DEF b
    <2>3. Good(b, RetryQuorumProbe(b, i), i)
        BY <1>1, <2>2, RetryQuorumProbeGood, Zenon DEF Good
    <2>4. Good(node[i], RetryQuorumProbe(b, i), i)
        BY <1>1, <2>2, <2>3, GoodTrans, Zenon
    <2> QED
        BY <1>2, <2>1, <2>4, Zenon
<1>8. ASSUME NEW i \in Member, SnapshotFailed(i) PROVE LogInv'
    BY <1>1, <1>2, <1>8, DroppedGood, Zenon DEF SnapshotFailed, Accepts
<1>9. ASSUME NEW i \in Member, NEW commands \in Batches, Propose(i, commands) PROVE LogInv'
    <2> DEFINE n == node[i]
               log == n.log \o [k \in 1..Len(commands) |->
                                   [term |-> n.term, command |-> commands[k]]]
               b == Broadcast(AdvanceCommit([n EXCEPT !.log = log], i), i, FALSE)
    <2>1. /\ gate[i] = "open" /\ n.role = "Leader" /\ Len(log) <= MaxLogEntries
          /\ Step(i, b, FALSE)
        BY <1>9, Zenon DEF Propose, Accepts
    <2>2. commands \in Seq(Command)
        <3>1. MaxAppendEntries \in Nat
            BY <1>1 DEF Grounds
        <3>2. PICK k \in 1..MaxAppendEntries : commands \in [1..k -> Command]
            BY DEF Batches
        <3> QED
            BY <3>1, <3>2
    <2>3. n.log \in Seq(Entry) /\ n.term \in Nat
        BY <1>1, Zenon DEF LocalOK, RootOK
    <2>4. Extends(log, n.log, n.term)
        BY <2>2, <2>3, BatchLog, Zenon
    <2> HIDE DEF log
    <2>5. Good(n, b, i)
        BY <1>1, <2>1, <2>4, ProposedGood, Zenon
    <2> QED
        BY <1>2, <2>1, <2>5, Zenon
<1>10. ASSUME NEW i \in Member, NEW m \in net, Receive(i, m) PROVE LogInv'
    <2>1. /\ gate[i] = "open" /\ m.to = i /\ ~Refused(node[i], m)
          /\ Step(i, Received(node[i], i, m), FALSE)
        BY <1>10, Zenon DEF Receive
    <2>2. Good(node[i], Received(node[i], i, m), i)
        BY <1>1, <2>1, ReceivedGood, Zenon
    <2> QED
        BY <1>2, <2>1, <2>2, Zenon
<1>11. ASSUME NEW i \in Member, NEW k, Compact(i, k) PROVE LogInv'
    <2>1. /\ gate[i] = "open" /\ k \in (node[i].snap.index + 1)..node[i].commit
          /\ Step(i, Compacted(node[i], CutAt(node[i], k)), FALSE)
        BY <1>11, Zenon DEF Compact, Accepts
    <2>2. Moves(node[i], Compacted(node[i], CutAt(node[i], k)), i)
        BY <1>1, <2>1, CompactedMoves, Zenon
    <2> QED
        BY <2>1, <2>2, StepLog, Zenon
<1>12. ASSUME NEW i \in Member, SnapshotReady(i) PROVE LogInv'
    <2>1. TransferCurrent(node[i]) /\ gate[i] = "open"
        BY <1>12 DEF SnapshotReady, Accepts
    <2>2. node[i].incoming.snap.index > node[i].commit
        BY <1>1, <2>1, Zenon DEF TransferCurrent, LocalOK, IncomingOK
    <2>3. Moves(node[i], InstallSnapshot(node[i], i), i)
        BY <1>1, <2>1, <2>2, InstallSnapshotMoves, Zenon
    <2>4. Step(i, InstallSnapshot(node[i], i), FALSE)
        BY <1>12, <2>2, Zenon DEF SnapshotReady
    <2> QED
        BY <2>1, <2>3, <2>4, StepLog, Zenon
<1>13. CASE UNCHANGED vars
    <2>1. LogState(node', disk', gate', net') /\ plan' = plan
        BY <1>1, <1>13 DEF vars
    <2> QED
        BY <1>1, <2>1, SamePlanLogs, SMTT(20)
<1> QED
    BY <1>3, <1>4, <1>5, <1>6, <1>7, <1>8, <1>9, <1>10, <1>11, <1>12, <1>13,
       PersistedLog, PublicationFailedLog, RecoverLog, SMTT(30) DEF Next, Administer

(* Requests in flight name retained ranges, and a pending transfer is      *)
(* still ahead.                                                            *)
LEMMA LogsComplete == LogInv => StepNeverFails
<1> SUFFICES ASSUME LogInv, NEW i \in Member
             PROVE  /\ node[i].incoming # Nobody =>
                           node[i].incoming.snap.index > node[i].commit
                    /\ \A p \in DOMAIN node[i].prog : \A f \in node[i].prog[p].flight :
                           /\ Retained(node[i], f.prev) /\ f.prev <= f.last
                           /\ f.last <= LastIndex(node[i])
    BY DEF StepNeverFails
<1>1. LocalOK(node[i], i)
    BY SMTT(20) DEF LogInv, LogState, MemberLog
<1>2. node[i].incoming # Nobody => node[i].incoming.snap.index > node[i].commit
    BY <1>1, SMTT(20) DEF LocalOK, IncomingOK
<1>3. ASSUME NEW p \in DOMAIN node[i].prog, NEW f \in node[i].prog[p].flight
      PROVE  /\ Retained(node[i], f.prev) /\ f.prev <= f.last
             /\ f.last <= LastIndex(node[i])
    <2>0. DOMAIN <<>> = {}
        OBVIOUS
    <2>1. node[i].role = "Leader" /\ p \in Member \ {i}
        BY <1>1, <2>0, ZenonT(30) DEF LocalOK, WindowsOK
    <2>2. PeerOK(node[i].prog[p], node[i].snap.index, LastIndex(node[i]))
        BY <1>1, <2>1, SMTT(20) DEF LocalOK, WindowsOK
    <2>3. /\ f \in Flight /\ node[i].snap.index <= f.prev /\ f.prev <= f.last
          /\ f.last <= LastIndex(node[i])
        BY <2>2 DEF PeerOK, Progress, Within
    <2>4. f.prev \in Nat /\ f.last \in Nat
        BY <2>3 DEF Flight
    <2>5. node[i].snap.index \in Nat /\ LastIndex(node[i]) \in Nat
        BY <1>1, RootNumbers, Zenon DEF LocalOK
    <2> QED
        BY <2>3, <2>4, <2>5, SMTT(20) DEF Retained
<1> QED
    BY <1>2, <1>3, SMTT(20)

(* A published root opens.                                                 *)
LEMMA RootsOpen == LogInv => RootsAlwaysOpen
BY DEF LogInv, LogState, MemberLog, RootOK, RootsAlwaysOpen

=============================================================================
