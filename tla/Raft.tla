-------------------------------- MODULE Raft --------------------------------
(***************************************************************************)
(* The consensus kernel (RaftKernel) under the publication gate that       *)
(* drives it (crates/fgdb-repl/src/driver.rs), and its members connected.  *)
(*                                                                         *)
(* An input is evaluated by step(), which changes the live state and holds *)
(* back its output; the output is released by persisted() once the state   *)
(* is published, or at once when nothing durable changed. A member whose   *)
(* publication fails is poisoned, and starts again from the durable root.  *)
(*                                                                         *)
(* Messages are never removed from the network: one that is lost is never  *)
(* delivered, and any other is delivered in any order, any number of times.*)
(***************************************************************************)
EXTENDS RaftKernel

CONSTANT
    Scenarios    \* the plans, and the roots members start from under each

VARIABLES
    node,       \* [Member -> live state], `out` being the held output
    disk,       \* [Member -> the PersistentState of the published root]
    gate,       \* "open", "pending" (a publication in flight) or "poisoned"
    net,        \* every message released so far
    restarts    \* recoveries so far

vars == <<node, disk, gate, net, restarts, plan>>

(* Circumstances besides the configuration: which inputs the hosts deliver *)
(* and whose timers expire in which terms, in which terms which pairs of   *)
(* members do not hear each other, whom messages of earlier terms still    *)
(* reach, and the bounds of the counters.                                  *)
Inputs      == plan.inputs
Timed       == plan.timed
Cut         == plan.cut
Late        == plan.late
MaxTerm     == plan.maxTerm
MaxRequest  == plan.maxRequest
MaxRound    == plan.maxRound
MaxRestarts == plan.maxRestarts

-----------------------------------------------------------------------------
(* One input through the publication gate *)

WithinBounds(n) ==
    /\ n.term <= MaxTerm /\ n.round <= MaxRound
    /\ \A p \in DOMAIN n.prog : n.prog[p].issued <= MaxRequest

\* Mutant of Step: the output is released before the publication.
StepUngated(i, after, retry) ==
    LET n == DriveHandoff(after, i, retry)
    IN  /\ WithinBounds(n)
        /\ node' = [node EXCEPT ![i] = [n EXCEPT !.out = {}]]
        /\ net' = net \cup n.out
        /\ gate' = [gate EXCEPT ![i] =
                       IF Persistent(n) # Persistent(node[i]) THEN "pending" ELSE @]
        /\ UNCHANGED <<disk, restarts, plan>>

(* step(), and, when it asks for no publication, persisted() at once.      *)
Step(i, after, retry) ==
    LET n == DriveHandoff(after, i, retry)
    IN  /\ WithinBounds(n)
        /\ IF ~n.initialized \/ Persistent(n) # Persistent(node[i])
           THEN /\ node' = [node EXCEPT ![i] = n]
                /\ gate' = [gate EXCEPT ![i] = "pending"]
                /\ UNCHANGED net
           ELSE /\ node' = [node EXCEPT ![i] = [n EXCEPT !.out = {}]]
                /\ net' = net \cup n.out
                /\ UNCHANGED gate
        /\ UNCHANGED <<disk, restarts, plan>>

Accepts(i, input) == gate[i] = "open" /\ input \in Inputs

ElectionTimeout(i) ==
    /\ Accepts(i, "ElectionTimeout") /\ i \in Voters
    /\ <<i, node[i].term>> \in Timed
    /\ Step(i, Campaign(node[i], i), FALSE)

LivenessTimeout(i) ==
    /\ Accepts(i, "LivenessTimeout") /\ i \in Voters
    /\ <<i, node[i].term>> \in Timed
    /\ Step(i, OnLivenessTimeout(node[i], i), FALSE)

TransferLeadership(i, target) ==
    /\ Accepts(i, "TransferLeadership")
    /\ node[i].role = "Leader"
    /\ target \in Voters \ {i}
    /\ node[i].handoff # Nobody => node[i].handoff.target = target
    /\ Step(i, StartHandoff(node[i], i, target), TRUE)

AbortLeadershipTransfer(i) ==
    /\ Accepts(i, "AbortLeadershipTransfer")
    /\ node[i].handoff # Nobody
    /\ Step(i, [node[i] EXCEPT !.handoff = Nobody], FALSE)

OnHeartbeat(i) ==
    /\ node[i].role = "Leader"
    /\ Step(i, RetryQuorumProbe(Broadcast(node[i], i, TRUE), i), TRUE)

Heartbeat(i) == Accepts(i, "Heartbeat") /\ OnHeartbeat(i)

\* Mutant of Propose: proposals are accepted during a handoff.
ProposeInHandoff(i, commands) ==
    LET n == node[i]
        log == n.log \o [k \in 1..Len(commands) |->
                            [term |-> n.term, command |-> commands[k]]]
    IN  /\ Accepts(i, "Propose")
        /\ n.role = "Leader"
        /\ Len(log) <= MaxLogEntries
        /\ Step(i, Broadcast(AdvanceCommit([n EXCEPT !.log = log], i), i, FALSE),
                FALSE)

(* One command, or a batch of them in one step.                            *)
Propose(i, commands) ==
    LET n == node[i]
        log == n.log \o [k \in 1..Len(commands) |->
                            [term |-> n.term, command |-> commands[k]]]
    IN  /\ Accepts(i, "Propose")
        /\ n.role = "Leader" /\ n.handoff = Nobody
        /\ Len(commands) \in 1..MaxAppendEntries
        /\ Len(log) <= MaxLogEntries
        /\ Step(i, Broadcast(AdvanceCommit([n EXCEPT !.log = log], i), i, FALSE),
                FALSE)

(* What never arrives in this instance, besides what the network drops at  *)
(* will: what would cross a cut, and messages of a term their receiver has *)
(* left, unless the plan lists the receiver.                               *)
Lost(m) ==
    \/ <<{m.from, m.to}, m.term>> \in Cut
    \/ /\ m.to \notin Late
       /\ m.term < node[m.to].term
       /\ m.type \notin {"PreVoteRequest", "PreVoteReply"}

Receive(i, m) ==
    /\ gate[i] = "open"
    /\ m.to = i
    /\ ~Lost(m)
    /\ ~Refused(node[i], m)
    /\ Step(i, Received(node[i], i, m), FALSE)

Compact(i, k) ==
    /\ Accepts(i, "Compact")
    /\ k \in (node[i].snap.index + 1)..node[i].commit
    /\ Step(i, Compacted(node[i], CutAt(node[i], k)), FALSE)

(* The host has verified and holds every object of the offered cut. A cut  *)
(* that is no longer ahead fails step() half way, which poisons the member.*)
SnapshotReady(i) ==
    /\ Accepts(i, "SnapshotReady")
    /\ TransferCurrent(node[i])
    /\ IF node[i].incoming.snap.index > node[i].commit
       THEN Step(i, InstallSnapshot(node[i], i), FALSE)
       ELSE /\ gate' = [gate EXCEPT ![i] = "poisoned"]
            /\ UNCHANGED <<node, disk, net, restarts, plan>>

SnapshotFailed(i) ==
    /\ Accepts(i, "SnapshotFailed")
    /\ TransferCurrent(node[i])
    /\ Step(i, [node[i] EXCEPT !.incoming = Nobody], FALSE)

(* The published root holds exactly this state; the output is released.    *)
Persisted(i) ==
    /\ gate[i] = "pending"
    /\ disk' = [disk EXCEPT ![i] = Persistent(node[i])]
    /\ net' = net \cup node[i].out
    /\ node' = [node EXCEPT ![i].out = {}, ![i].initialized = TRUE]
    /\ gate' = [gate EXCEPT ![i] = "open"]
    /\ UNCHANGED <<restarts, plan>>

(* The publication failed or was dropped: it may have reached the disk.    *)
PublicationFailed(i) ==
    /\ gate[i] = "pending"
    /\ restarts < MaxRestarts
    /\ disk' \in {disk, [disk EXCEPT ![i] = Persistent(node[i])]}
    /\ gate' = [gate EXCEPT ![i] = "poisoned"]
    /\ UNCHANGED <<node, net, restarts, plan>>

(* The process stops, or was poisoned, and opens the published root; where *)
(* there is none yet it starts anew.  Its host asks for the same append    *)
(* window again.                                                           *)
Recover(i) ==
    /\ gate[i] # "pending"
    /\ restarts < MaxRestarts
    /\ ValidRoot(disk[i], Voters)
    /\ node' = [node EXCEPT ![i] =
           [Recovered(disk[i]) EXCEPT
               !.initialized = node[i].initialized \/ disk[i] # Fresh]]
    /\ gate' = [gate EXCEPT ![i] = "open"]
    /\ restarts' = restarts + 1
    /\ UNCHANGED <<disk, net, plan>>

ASSUME RaftAssumption ==
    \A s \in Scenarios :
        /\ s.plan.maxAppend \in 1..MaxLogEntries
        /\ s.plan.groups # {}
        /\ \A g \in s.plan.groups : g # {} /\ g \subseteq Member
        /\ s.roots = [i \in Member |-> s.roots[i]]
        /\ \A i \in Member :
               LET d == s.roots[i]
               IN  /\ d.term \in Nat /\ d.voted \in Member \cup {Nobody}
                   /\ d.commit \in Nat /\ d.log \in Seq(Entry)
                   /\ d.snap.index \in Nat /\ d.snap.term \in Nat
                   /\ ValidRoot(d, UNION s.plan.groups)

(* Every member opens the published root it has, and nothing is in transit. *)
Boot(roots, initialized) ==
    /\ node = [i \in Member |->
                 [Recovered(roots[i]) EXCEPT !.initialized = initialized]]
    /\ disk = roots
    /\ gate = [i \in Member |-> "open"]
    /\ net = {}
    /\ restarts = 0

(* A member that starts for the first time has yet to publish its state.   *)
Init == \E s \in Scenarios : plan = s.plan /\ Boot(s.roots, s.initialized)

Batches == UNION {[1..k -> Command] : k \in 1..MaxAppendEntries}

Administer(i) ==
    \/ ElectionTimeout(i)
    \/ LivenessTimeout(i)
    \/ \E target \in Member : TransferLeadership(i, target)
    \/ AbortLeadershipTransfer(i)
    \/ Heartbeat(i)
    \/ SnapshotFailed(i)

Next ==
    \E i \in Member :
        \/ Administer(i)
        \/ \E commands \in Batches : Propose(i, commands)
        \/ \E m \in net : Receive(i, m)
        \/ \E k \in 1..LastIndex(node[i]) : Compact(i, k)
        \/ SnapshotReady(i)
        \/ Persisted(i)
        \/ PublicationFailed(i)
        \/ Recover(i)

Spec == Init /\ [][Next]_vars

-----------------------------------------------------------------------------
(* Properties *)

(* In every term at most one member ever spoke as the leader, crashes and  *)
(* recoveries in between included (campaign, the vote persisted before it  *)
(* is released, and become_leader).                                        *)
OneLeaderPerTerm ==
    LET spoken == {m \in net : m.type \in LeaderKinds}
    IN  \A m1, m2 \in spoken : m1.term = m2.term => m1.from = m2.from

Committed(d) == SubSeq(History(d), 1, d.commit)

Agree(s, t) == \A k \in 1..Len(s) : k <= Len(t) => s[k] = t[k]

(* No two members ever hold different committed histories, whether an      *)
(* entry came by append or inside a snapshot (receive, install_snapshot).  *)
CommittedHistoriesAgree ==
    \A i, j \in Member : Agree(Committed(disk[i]), Committed(disk[j]))

(* Whatever any member has durably committed lies on the disks of a quorum,*)
(* whoever has crashed since (quorum_index, advance_commit).               *)
CommittedOnQuorum ==
    \A i \in Member :
        Quorum({j \in Member : /\ LastIndex(disk[j]) >= disk[i].commit
                              /\ Agree(Committed(disk[i]), History(disk[j]))})

(* A leader's log holds everything any member has durably committed in an  *)
(* earlier term.                                                           *)
LeaderHoldsCommitted ==
    \A i, j \in Member :
        node[i].role = "Leader" /\ disk[j].term <= node[i].term =>
            /\ disk[j].commit <= LastIndex(node[i])
            /\ Agree(Committed(disk[j]), History(node[i]))

(* What a leader counts towards a quorum is on the peer's disk: the peer's *)
(* published root agrees with the leader's log up to `matched`, even after *)
(* the peer crashed (acknowledge).                                         *)
MatchedIsDurable ==
    \A i \in Member : node[i].role = "Leader" =>
        \A p \in DOMAIN node[i].prog :
            LET k == node[i].prog[p].matched
            IN  /\ k <= LastIndex(disk[p]) \/ disk[p].term > node[i].term
                /\ disk[p].term = node[i].term =>
                       SubSeq(History(disk[p]), 1, k) = SubSeq(History(node[i]), 1, k)

(* The kernel's fail-closed refusals are never met by what members running *)
(* this code send one another: no committed entry is contradicted, no entry*)
(* changes its command, no snapshot its cut, and every message is well     *)
(* formed (validate_event).                                                *)
NoConflictRefused ==
    \A m \in net : /\ ~Malformed(m)
                   /\ ~CommittedConflict(node[m.to], m)
                   /\ ~EntryIdentityConflict(node[m.to], m)
                   /\ ~SnapshotConflict(node[m.to], m)

(* step() never fails half way and so never poisons a member by itself:    *)
(* every request in flight still names a retained range (emit_flight), and *)
(* a pending snapshot transfer is still ahead of the commit index          *)
(* (install_snapshot).                                                     *)
StepNeverFails ==
    \A i \in Member :
        /\ node[i].incoming # Nobody => node[i].incoming.snap.index > node[i].commit
        /\ \A p \in DOMAIN node[i].prog : \A f \in node[i].prog[p].flight :
               /\ Retained(node[i], f.prev) /\ f.prev <= f.last
               /\ f.last <= LastIndex(node[i])

(* Whatever a member publishes, its own recovery accepts: no append,       *)
(* truncation, compaction, installation or vote leaves a root that the     *)
(* member cannot be opened from again (recover).                           *)
RootsAlwaysOpen == \A i \in Member : ValidRoot(disk[i], Voters)

(* Where members' elections start with a pre-vote only, nobody raises the  *)
(* term without the leave of a quorum, its own included, given for that    *)
(* very term and in the last round it asked in: what it was granted in an  *)
(* earlier round counts no more (pre_vote_reply).  Rounds are numbered from*)
(* one again after a restart, so the members considered have not restarted.*)
TermNeedsPreVotes ==
    (Inputs \cap {"ElectionTimeout", "TransferLeadership"} = {} /\ restarts = 0) =>
    \A m \in {q \in net : q.type = "RequestVote"} :
        LET asked == {q \in net : /\ q.type = "PreVoteRequest"
                                 /\ q.from = m.from /\ q.prospective = m.term}
            leave(k) == {q \in net : /\ q.type = "PreVoteReply"
                                    /\ q.to = m.from /\ q.granted
                                    /\ q.prospective = m.term /\ q.round = k}
        IN  \E a \in asked :
                /\ \A b \in asked : b.round <= a.round
                /\ Quorum({m.from} \cup {q.from : q \in leave(a.round)})

(* A leader that hands over does not grow its log meanwhile, so that the   *)
(* endpoint it froze still covers everything it accepted when the target   *)
(* is told to campaign (validate_proposal_count, drive_handoff).           *)
HandoffCoversLog ==
    \A i \in Member : node[i].handoff # Nobody =>
        /\ node[i].role = "Leader" /\ node[i].handoff.term = node[i].term
        /\ node[i].handoff.lastIndex = LastIndex(node[i])
        /\ node[i].handoff.phase = "ElectionRequested" =>
               LET p == node[i].handoff.target
               IN  \/ disk[p].term > node[i].term
                   \/ SubSeq(History(disk[p]), 1, LastIndex(node[i])) = History(node[i])

(* A vote once published for a term is never changed within the term, by a *)
(* pre-vote round, a crash or anything else (pre_campaign, follow).        *)
VoteIsKept ==
    [][\A i \in Member :
          disk'[i].term = disk[i].term /\ disk[i].voted # Nobody =>
              disk'[i].voted = disk[i].voted]_vars

(* A published root's term never goes back and its committed history is    *)
(* only ever extended, across crashes, recoveries and snapshots.           *)
DurableHistoryGrows ==
    [][\A i \in Member :
          /\ disk'[i].term >= disk[i].term
          /\ disk'[i].commit >= disk[i].commit
          /\ Agree(Committed(disk[i]), Committed(disk'[i]))]_vars

=============================================================================
