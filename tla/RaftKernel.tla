----------------------------- MODULE RaftKernel -----------------------------
(***************************************************************************)
(* The deterministic consensus kernel (crates/fgdb-order): what each input *)
(* makes of a member's live state, and what validate_event refuses. A      *)
(* handler takes the state of the member before the step and returns the   *)
(* one after it, with the messages it sends added to `out`.                *)
(*                                                                         *)
(* Append requests are numbered per peer and leadership, and rounds per    *)
(* incarnation, where the code draws both from one counter per member:     *)
(* only equality, and order at one peer, are ever looked at.               *)
(***************************************************************************)
EXTENDS RaftState

-----------------------------------------------------------------------------
(* Sending the log: each peer has its own window of requests in flight, a  *)
(* queue in the order of their numbers.                                    *)

Front(flight) == CHOOSE f \in flight : \A h \in flight : f.request <= h.request

SnapshotFirst(g) == g.flight # {} /\ Front(g.flight).kind = "Snapshot"

(* How many requests fill the window of a peer with progress g: a snapshot *)
(* offer when the peer is behind the retained log; otherwise consecutive   *)
(* ranges of at most MaxAppendEntries, or one empty range to a peer with   *)
(* nothing in flight.                                                      *)
Requests(n, g) ==
    LET room   == (IF g.probing THEN 1 ELSE Window) - Cardinality(g.flight)
        left   == LastIndex(n) + 1 - g.next
        ranges == (left + MaxAppendEntries - 1) \div MaxAppendEntries
    IN  IF room <= 0 \/ SnapshotFirst(g) THEN 0
        ELSE IF g.next <= n.snap.index THEN 1
        ELSE IF left > 0 THEN IF ranges < room THEN ranges ELSE room
        ELSE IF g.flight = {} THEN 1 ELSE 0

(* The last index of the k-th of those ranges.                             *)
Reach(n, g, k) ==
    LET end == g.next - 1 + k * MaxAppendEntries
    IN  IF end < LastIndex(n) THEN end ELSE LastIndex(n)

Request(n, g, k) ==
    IF g.next <= n.snap.index
    THEN [kind |-> "Snapshot", request |-> g.issued + k,
          prev |-> n.snap.index, last |-> n.snap.index]
    ELSE [kind |-> "Append", request |-> g.issued + k,
          prev |-> Reach(n, g, k - 1), last |-> Reach(n, g, k)]

FlightMessage(n, i, p, f) ==
    IF f.kind = "Append"
    THEN [type |-> "Append", from |-> i, to |-> p, term |-> n.term,
          request |-> f.request, prevIndex |-> f.prev,
          prevTerm |-> TermAt(n, f.prev),
          entries |-> SubSeq(n.log, f.prev - n.snap.index + 1,
                                    f.last - n.snap.index),
          commit |-> n.commit]
    ELSE [type |-> "InstallSnapshot", from |-> i, to |-> p, term |-> n.term,
          request |-> f.request, snap |-> n.snap]

SendAppend(n, i, p, retry) ==
    LET g     == n.prog[p]
        count == Requests(n, g)
        new   == {Request(n, g, k) : k \in 1..count}
        sent  == new \cup IF retry THEN g.flight ELSE {}
        fed   == [g EXCEPT
                     !.flight = @ \cup new,
                     !.issued = @ + count,
                     !.next   = IF @ <= n.snap.index THEN @ ELSE Reach(n, g, count) + 1,
                     !.sentCommit =
                         IF \E f \in sent : f.kind = "Append" THEN n.commit ELSE @]
    IN  Emit(SetProgress(n, p, fed), {FlightMessage(n, i, p, f) : f \in sent})

Broadcast(n, i, retry) ==
    [n EXCEPT
        !.prog = [p \in DOMAIN n.prog |-> SendAppend(n, i, p, retry).prog[p]],
        !.out  = @ \cup UNION {SendAppend(n, i, p, retry).out : p \in DOMAIN n.prog}]

\* Mutant of AdvanceCommit: an entry of any term is committed by counting.
AdvanceCommitAnyTerm(n, i) ==
    LET matched == [m \in Member |->
                       IF m = i THEN LastIndex(n)
                       ELSE IF m \in DOMAIN n.prog THEN n.prog[m].matched ELSE 0]
        k == QuorumIndex(matched)
    IN  IF k > n.commit THEN [n EXCEPT !.commit = k] ELSE n

AdvanceCommit(n, i) ==
    LET matched == [m \in Member |->
                       IF m = i THEN LastIndex(n)
                       ELSE IF m \in DOMAIN n.prog THEN n.prog[m].matched ELSE 0]
        k == QuorumIndex(matched)
    IN  IF k > n.commit /\ HasTerm(n, k, n.term)
        THEN [n EXCEPT !.commit = k] ELSE n

-----------------------------------------------------------------------------
(* Elections, pre-votes and quorum probes *)

RetryQuorumProbe(n, i) ==
    IF n.probe = Nobody THEN n
    ELSE Emit(n, {[type |-> "QuorumProbe", from |-> i, to |-> v,
                   term |-> n.term, round |-> n.probe.round] :
                  v \in Voters \ n.probe.voters})

StartQuorumProbe(n, i) ==
    RetryQuorumProbe([n EXCEPT !.round = @ + 1,
                               !.probe = [round |-> n.round + 1, voters |-> {i}]], i)

(* At capacity no entry of the leader's own term is added.                 *)
BecomeLeader(n, i) ==
    LET progress == [matched |-> 0, next |-> LastIndex(n) + 1, flight |-> {},
                     probing |-> TRUE, sentCommit |-> 0, issued |-> 0]
        lead == [n EXCEPT
                    !.role = "Leader", !.leader = i,
                    !.prog = [p \in Member \ {i} |-> progress],
                    !.log  = IF Len(@) < MaxLogEntries
                             THEN Append(@, [term |-> n.term, command |-> Noop])
                             ELSE @]
        sent == Broadcast(AdvanceCommit(lead, i), i, FALSE)
    IN  IF n.enabled THEN StartQuorumProbe(sent, i) ELSE sent

Campaign(n, i) ==
    LET c == [Follow(n, n.term + 1) EXCEPT
                 !.role = "Candidate", !.voted = i, !.votes = {i}]
    IN  IF n.role = "Leader" THEN n
        ELSE IF Quorum({i}) THEN BecomeLeader(c, i)
        ELSE Emit(c, {[type |-> "RequestVote", from |-> i, to |-> v,
                       term |-> c.term, lastIndex |-> LastIndex(n),
                       lastTerm |-> LastTerm(n)] : v \in Voters \ {i}})

\* Mutant of PreCampaign: the vote of the current term is cleared.
PreCampaignClearingVote(n, i) ==
    LET c == [Follow(n, n.term) EXCEPT
                 !.incoming = Nobody, !.role = "PreCandidate", !.voted = Nobody]
        r == [round |-> n.round + 1, term |-> n.term + 1, voters |-> {i}]
    IN  Emit([c EXCEPT !.round = @ + 1, !.pre = r],
             {[type |-> "PreVoteRequest", from |-> i, to |-> v, term |-> 0,
               prospective |-> r.term, round |-> r.round,
               lastIndex |-> LastIndex(n), lastTerm |-> LastTerm(n)] :
              v \in Voters \ {i}})

PreCampaign(n, i) ==
    LET c == [Follow(n, n.term) EXCEPT
                 !.incoming = Nobody, !.role = "PreCandidate"]
        r == [round |-> n.round + 1, term |-> n.term + 1, voters |-> {i}]
    IN  IF Quorum({i}) THEN Campaign(c, i)
        ELSE Emit([c EXCEPT !.round = @ + 1, !.pre = r],
                  {[type |-> "PreVoteRequest", from |-> i, to |-> v, term |-> 0,
                    prospective |-> r.term, round |-> r.round,
                    lastIndex |-> LastIndex(n), lastTerm |-> LastTerm(n)] :
                   v \in Voters \ {i}})

(* Also clears a handoff, which bounds how long proposals are refused.     *)
OnLivenessTimeout(n, i) ==
    LET e == [n EXCEPT !.handoff = Nobody, !.enabled = TRUE]
    IN  IF n.role # "Leader" THEN PreCampaign(e, i)
        ELSE IF n.probe # Nobody /\ ~Quorum(n.probe.voters) THEN Follow(e, n.term)
        ELSE StartQuorumProbe(e, i)

OnPreVoteRequest(n, i, m) ==
    Emit(n, {[type |-> "PreVoteReply", from |-> i, to |-> m.from,
              term |-> n.term, prospective |-> m.prospective, round |-> m.round,
              granted |-> /\ i \in Voters
                          /\ n.leader = Nobody
                          /\ m.prospective > n.term
                          /\ UpToDate(n, m.lastIndex, m.lastTerm)]})

\* Mutant of OnPreVoteReply: replies to an earlier round of the same term are
\* counted.
OnPreVoteReplyAnyRound(n, i, m) ==
    LET c == [n EXCEPT !.pre.voters = @ \cup {m.from}]
    IN  IF \/ n.role # "PreCandidate" \/ ~m.granted \/ n.pre = Nobody
           \/ n.pre.term # m.prospective
        THEN n
        ELSE IF Quorum(c.pre.voters) THEN Campaign(c, i) ELSE c

OnPreVoteReply(n, i, m) ==
    LET c == [n EXCEPT !.pre.voters = @ \cup {m.from}]
    IN  IF \/ n.role # "PreCandidate" \/ ~m.granted \/ n.pre = Nobody
           \/ n.pre.round # m.round \/ n.pre.term # m.prospective
        THEN n
        ELSE IF Quorum(c.pre.voters) THEN Campaign(c, i) ELSE c

OnQuorumProbe(n, i, m) ==
    LET f == IF m.term = n.term THEN AcceptLeader(n, m.from, m.term) ELSE n
    IN  IF i \in Voters
        THEN Emit(f, {[type |-> "QuorumReply", from |-> i, to |-> m.from,
                       term |-> n.term, round |-> m.round]})
        ELSE f

OnQuorumReply(n, m) ==
    IF /\ n.role = "Leader" /\ m.term = n.term
       /\ n.probe # Nobody /\ m.round = n.probe.round
    THEN [n EXCEPT !.probe.voters = @ \cup {m.from}] ELSE n

OnRequestVote(n, i, m) ==
    LET granted == /\ m.term = n.term
                   /\ i \in Voters
                   /\ n.voted \in {Nobody, m.from}
                   /\ UpToDate(n, m.lastIndex, m.lastTerm)
        f == IF granted /\ n.role = "PreCandidate" THEN Follow(n, m.term) ELSE n
    IN  Emit([f EXCEPT !.voted = IF granted THEN m.from ELSE @],
             {[type |-> "Vote", from |-> i, to |-> m.from, term |-> n.term,
               granted |-> granted]})

OnVote(n, i, m) ==
    LET c == [n EXCEPT !.votes = @ \cup {m.from}]
    IN  IF m.term = n.term /\ n.role = "Candidate" /\ m.granted
        THEN IF Quorum(c.votes) THEN BecomeLeader(c, i) ELSE c
        ELSE n

-----------------------------------------------------------------------------
(* Replicating the log *)

Appended(n, i, m, success, conflictNext) ==
    [type |-> "Appended", from |-> i, to |-> m.from, term |-> n.term,
     request |-> m.request, success |-> success, conflictNext |-> conflictNext]

(* Where a follower that misses the predecessor asks the leader to resume. *)
ConflictNext(n, prev) ==
    LET base == n.snap.index
        cap  == IF prev < 1 THEN 1 ELSE prev
        next == IF LastIndex(n) + 1 < cap THEN LastIndex(n) + 1 ELSE cap
        run(x) == \A y \in x..(next - 1) : TermAt(n, y) = TermAt(n, prev)
    IN  IF prev < base THEN base + 1
        ELSE IF ~Retained(n, prev) \/ next <= base + 1 THEN next
        ELSE CHOOSE x \in (base + 1)..next :
                run(x) /\ (x = base + 1 \/ ~run(x - 1))

(* The log after the entries that follow `at` positions of it: the first   *)
(* entry of another term truncates it, and what is missing is added.       *)
Spliced(log, at, entries) ==
    LET differs == {k \in 1..Len(entries) : /\ at + k <= Len(log)
                                            /\ log[at + k].term # entries[k].term}
        keep == IF differs = {} THEN Len(log)
                ELSE at - 1 + CHOOSE k \in differs : \A j \in differs : k <= j
    IN  SubSeq(log, 1, keep) \o SubSeq(entries, keep - at + 1, Len(entries))

\* Mutant of OnAppend: the commit index is set rather than raised.
OnAppendCommitSet(n, i, m) ==
    LET a == AcceptLeader(n, m.from, m.term)
        matched == m.prevIndex + Len(m.entries)
    IN  IF m.term < n.term
        THEN Emit(n, {Appended(n, i, m, FALSE, LastIndex(n) + 1)})
        ELSE IF ~HasTerm(a, m.prevIndex, m.prevTerm)
        THEN Emit(a, {Appended(a, i, m, FALSE, ConflictNext(a, m.prevIndex))})
        ELSE Emit([a EXCEPT
                      !.log = Spliced(@, m.prevIndex - n.snap.index, m.entries),
                      !.commit = IF m.commit < matched THEN m.commit ELSE matched],
                  {Appended(a, i, m, TRUE, 0)})

OnAppend(n, i, m) ==
    LET a == AcceptLeader(n, m.from, m.term)
        matched == m.prevIndex + Len(m.entries)
        known == IF m.commit < matched THEN m.commit ELSE matched
        commit == IF known > n.commit THEN known ELSE n.commit
    IN  IF m.term < n.term
        THEN Emit(n, {Appended(n, i, m, FALSE, LastIndex(n) + 1)})
        ELSE IF ~HasTerm(a, m.prevIndex, m.prevTerm)
        THEN Emit(a, {Appended(a, i, m, FALSE, ConflictNext(a, m.prevIndex))})
        ELSE Emit([a EXCEPT
                      !.log = Spliced(@, m.prevIndex - n.snap.index, m.entries),
                      !.commit = commit,
                      !.incoming = IF @ # Nobody /\ @.snap.index <= commit
                                   THEN Nobody ELSE @],
                  {Appended(a, i, m, TRUE, 0)})

(* The peer holds everything up to `last`: what it was sent of that is no  *)
(* longer in flight.                                                       *)
Acked(g, last) ==
    LET matched == IF last > g.matched THEN last ELSE g.matched
    IN  [g EXCEPT !.matched = matched,
                  !.next    = IF @ > matched THEN @ ELSE matched + 1,
                  !.probing = FALSE,
                  !.flight  = {f \in @ : f.last > last}]

\* Mutant of Acknowledge: a drained peer is not told of a newer commit.
AcknowledgeSilently(n, i, p, last) ==
    LET a == SetProgress(n, p, Acked(n.prog[p], last))
        c == AdvanceCommit(a, i)
    IN  IF c.commit > a.commit THEN Broadcast(c, i, FALSE)
        ELSE IF last < LastIndex(a) THEN SendAppend(a, i, p, FALSE) ELSE a

Acknowledge(n, i, p, last) ==
    LET a == SetProgress(n, p, Acked(n.prog[p], last))
        c == AdvanceCommit(a, i)
    IN  IF c.commit > a.commit THEN Broadcast(c, i, FALSE)
        ELSE IF \/ last < LastIndex(a)
                \/ /\ a.prog[p].flight = {}
                   /\ n.prog[p].sentCommit < a.commit
        THEN SendAppend(a, i, p, FALSE) ELSE a

\* Mutant of OnAppended: a success is taken for everything sent so far.
OnAppendedOptimistic(n, i, m) ==
    LET p == m.from
    IN  IF \/ m.term # n.term \/ n.role # "Leader"
           \/ ~\E h \in n.prog[p].flight :
                   h.kind = "Append" /\ h.request = m.request
        THEN n
        ELSE IF m.success THEN Acknowledge(n, i, p, n.prog[p].next - 1)
        ELSE SendAppend([n EXCEPT !.prog[p].next = 1, !.prog[p].flight = {},
                                  !.prog[p].probing = TRUE], i, p, FALSE)

(* The peer rejected a range after `prev`: the window is emptied, and the  *)
(* next range starts where the peer's hint says, as far as it is believed. *)
Rejected(g, prev, conflictNext, ceiling) ==
    LET back == IF prev < 1 THEN 1 ELSE prev
        low  == IF conflictNext < 1 THEN 1 ELSE conflictNext
        hint == IF conflictNext > prev + 1
                THEN IF conflictNext < ceiling THEN conflictNext ELSE ceiling
                ELSE IF low < back THEN low ELSE back
    IN  [g EXCEPT !.next = IF hint > g.matched THEN hint ELSE g.matched + 1,
                  !.flight = {}, !.probing = TRUE]

(* Only the reply to a request still in flight says anything.              *)
OnAppended(n, i, m) ==
    LET p == m.from
        f == CHOOSE f \in n.prog[p].flight :
                f.kind = "Append" /\ f.request = m.request
        g == Rejected(n.prog[p], f.prev, m.conflictNext, LastIndex(n) + 1)
    IN  IF \/ m.term # n.term \/ n.role # "Leader"
           \/ ~\E h \in n.prog[p].flight :
                   h.kind = "Append" /\ h.request = m.request
        THEN n
        ELSE IF m.success THEN Acknowledge(n, i, p, f.last)
        ELSE SendAppend(SetProgress(n, p, g), i, p, FALSE)

-----------------------------------------------------------------------------
(* Snapshots *)

(* The cut a host may compact to: an applied prefix with its state.        *)
CutAt(n, k) == [index |-> k, term |-> TermAt(n, k),
                state |-> SubSeq(History(n), 1, k)]

\* Mutant of Compacted: the requests in flight are kept.
CompactedKeepingFlights(n, cut) ==
    [n EXCEPT !.log  = SubSeq(@, cut.index - n.snap.index + 1, Len(@)),
              !.snap = cut]

Compacted(n, cut) ==
    [n EXCEPT
        !.log  = SubSeq(@, cut.index - n.snap.index + 1, Len(@)),
        !.snap = cut,
        !.prog = [p \in DOMAIN n.prog |->
                     [n.prog[p] EXCEPT !.flight = {}, !.probing = TRUE,
                                       !.next = n.prog[p].matched + 1]]]

OnInstallSnapshot(n, i, m) ==
    LET a == AcceptLeader(n, m.from, m.term)
        pending == a.incoming # Nobody /\ a.incoming.term = m.term
                                       /\ a.incoming.source = m.from
    IN  IF m.term < n.term
        THEN Emit(n, {Appended(n, i, m, FALSE, LastIndex(n) + 1)})
        ELSE IF m.snap.index <= n.commit
        THEN Emit(a, {[type |-> "SnapshotInstalled", from |-> i, to |-> m.from,
                       term |-> m.term, request |-> m.request]})
        ELSE IF /\ pending
                /\ \/ m.request < a.incoming.request
                   \/ m.request = a.incoming.request /\ m.snap = a.incoming.snap
        THEN a
        ELSE [a EXCEPT !.incoming = [source |-> m.from, term |-> m.term,
                                     request |-> m.request, snap |-> m.snap]]

(* The transfer still stands: it comes from this term's leader.            *)
TransferCurrent(n) ==
    n.incoming # Nobody /\ n.incoming.term = n.term /\ n.leader = n.incoming.source

\* Mutant of InstallSnapshot: the commit index is not raised to the cut's.
InstallSnapshotKeepingCommit(n, i) ==
    LET s == n.incoming.snap
    IN  Emit([n EXCEPT !.log = <<>>, !.snap = s, !.incoming = Nobody],
             {[type |-> "SnapshotInstalled", from |-> i, to |-> n.incoming.source,
               term |-> n.term, request |-> n.incoming.request]})

(* The suffix survives only when the log holds the cut's own index and term.*)
InstallSnapshot(n, i) ==
    LET s == n.incoming.snap
    IN  Emit([n EXCEPT
                 !.log = IF HasTerm(n, s.index, s.term)
                         THEN SubSeq(@, s.index - n.snap.index + 1, Len(@))
                         ELSE <<>>,
                 !.commit = s.index, !.snap = s, !.incoming = Nobody],
             {[type |-> "SnapshotInstalled", from |-> i, to |-> n.incoming.source,
               term |-> n.term, request |-> n.incoming.request]})

OnSnapshotInstalled(n, i, m) ==
    LET g == n.prog[m.from]
    IN  IF /\ m.term = n.term /\ n.role = "Leader"
           /\ SnapshotFirst(g) /\ Front(g.flight).request = m.request
        THEN Acknowledge(n, i, m.from, Front(g.flight).last) ELSE n

-----------------------------------------------------------------------------
(* Handing leadership over *)

StartHandoff(n, i, target) ==
    LET h == [target |-> target, term |-> n.term, lastIndex |-> LastIndex(n),
              lastTerm |-> LastTerm(n), phase |-> "CatchingUp"]
        s == [n EXCEPT !.handoff = IF @ = Nobody THEN h ELSE @]
    IN  IF n.prog[target].matched < LastIndex(n)
        THEN SendAppend(s, i, target, TRUE) ELSE s

(* Runs at the end of every step.                                          *)
DriveHandoff(n, i, retry) ==
    IF \/ n.handoff = Nobody \/ n.role # "Leader" \/ n.term # n.handoff.term
       \/ n.prog[n.handoff.target].matched < n.handoff.lastIndex
       \/ ~retry /\ n.handoff.phase = "ElectionRequested"
    THEN n
    ELSE Emit([n EXCEPT !.handoff.phase = "ElectionRequested"],
              {[type |-> "TimeoutNow", from |-> i, to |-> n.handoff.target,
                term |-> n.term, lastIndex |-> n.handoff.lastIndex,
                lastTerm |-> n.handoff.lastTerm]})

OnTimeoutNow(n, i, m) ==
    IF /\ n.role = "Follower" /\ m.term = n.term /\ n.leader = m.from
       /\ i \in Voters /\ n.incoming = Nobody
       /\ LastIndex(n) = m.lastIndex /\ LastTerm(n) = m.lastTerm
    THEN Campaign(n, i) ELSE n

-----------------------------------------------------------------------------
(* What validate_event refuses of a message, leaving the member unchanged. *)

Malformed(m) ==
    \/ m.term = 0 /\ m.type \notin {"PreVoteRequest", "PreVoteReply"}
    \/ /\ m.type \in {"RequestVote", "TimeoutNow"}
       /\ ((m.lastIndex = 0) # (m.lastTerm = 0) \/ m.lastTerm > m.term)
    \/ /\ m.type = "PreVoteRequest"
       /\ \/ (m.lastIndex = 0) # (m.lastTerm = 0)
          \/ m.lastTerm >= m.prospective
    \/ m.type = "PreVoteReply" /\ m.granted /\ m.term >= m.prospective
    \/ /\ m.type = "Append"
       /\ \/ Len(m.entries) > MaxAppendEntries
          \/ (m.prevIndex = 0) # (m.prevTerm = 0) \/ m.prevTerm > m.term
          \/ ~Nondecreasing(m.prevTerm, m.entries, m.term)
    \/ m.type = "InstallSnapshot" /\ m.snap.term > m.term

(* The append continues this member's log.                                 *)
Continues(n, m) == /\ m.type = "Append" /\ m.term >= n.term
                   /\ HasTerm(n, m.prevIndex, m.prevTerm)

LogFull(n, m) ==
    Continues(n, m) /\ m.prevIndex + Len(m.entries) - n.snap.index > MaxLogEntries

CommittedConflict(n, m) ==
    Continues(n, m) /\ \E k \in 1..Len(m.entries) :
        /\ m.prevIndex + k \in (n.snap.index + 1)..n.commit
        /\ TermAt(n, m.prevIndex + k) # m.entries[k].term

EntryIdentityConflict(n, m) ==
    LET at(k) == n.log[m.prevIndex + k - n.snap.index]
        held(k) == m.prevIndex + k \in (n.snap.index + 1)..LastIndex(n)
    IN  Continues(n, m) /\ \E k \in 1..Len(m.entries) :
            /\ held(k) /\ at(k) # m.entries[k]
            /\ \A j \in 1..k : at(j).term = m.entries[j].term

SnapshotConflict(n, m) ==
    /\ m.type = "InstallSnapshot" /\ m.term >= n.term
    /\ \/ /\ m.snap.index <= n.commit /\ Retained(n, m.snap.index)
          /\ TermAt(n, m.snap.index) # m.snap.term
       \/ /\ n.incoming # Nobody /\ n.incoming.term = m.term
          /\ n.incoming.source = m.from /\ n.incoming.request = m.request
          /\ n.incoming.snap # m.snap

Refused(n, m) ==
    \/ m.type \notin {"Appended", "SnapshotInstalled"} /\ m.from \notin Voters
    \/ Malformed(m) \/ LogFull(n, m) \/ CommittedConflict(n, m)
    \/ EntryIdentityConflict(n, m) \/ SnapshotConflict(n, m)

Received(n, i, m) ==
    LET f == IF m.term > n.term THEN Follow(n, m.term) ELSE n
    IN  CASE m.type = "PreVoteRequest"    -> OnPreVoteRequest(f, i, m)
          [] m.type = "PreVoteReply"      -> OnPreVoteReply(f, i, m)
          [] m.type = "QuorumProbe"       -> OnQuorumProbe(f, i, m)
          [] m.type = "QuorumReply"       -> OnQuorumReply(f, m)
          [] m.type = "TimeoutNow"        -> OnTimeoutNow(f, i, m)
          [] m.type = "RequestVote"       -> OnRequestVote(f, i, m)
          [] m.type = "Vote"              -> OnVote(f, i, m)
          [] m.type = "Append"            -> OnAppend(f, i, m)
          [] m.type = "Appended"          -> OnAppended(f, i, m)
          [] m.type = "InstallSnapshot"   -> OnInstallSnapshot(f, i, m)
          [] m.type = "SnapshotInstalled" -> OnSnapshotInstalled(f, i, m)

=============================================================================
