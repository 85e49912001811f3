----------------------------- MODULE RaftState -----------------------------
(***************************************************************************)
(* What the consensus kernel (crates/fgdb-order) reads and keeps: the      *)
(* configuration and its quorums, a member's durable state, and the live   *)
(* state a role adds to it.                                                *)
(*                                                                         *)
(* A command is a member of a small set. A snapshot's state_root, a digest *)
(* of the state at the cut, is the sequence of entries it stands for.      *)
(***************************************************************************)
EXTENDS Integers, FiniteSets, Sequences

CONSTANTS
    Member,      \* every voter and learner of the configuration
    Command, Noop,
    Nobody,      \* the absent member, round, handoff or snapshot transfer
    MaxLogEntries,      \* of Limits
    Window       \* the append window the host configures

ASSUME KernelAssumption ==
    /\ IsFiniteSet(Member)
    /\ Nobody \notin Member
    /\ MaxLogEntries \in Nat \ {0} /\ Window \in Nat \ {0}

VARIABLE
    plan        \* the circumstances, the same throughout a behaviour

Groups      == plan.groups      \* the voter sets a quorum needs a majority of:
                                \* one when stable, old and new when joint
MaxAppendEntries == plan.maxAppend      \* of Limits

Voters == UNION Groups

-----------------------------------------------------------------------------
(* Configuration *)

\* Mutant of Quorum: a majority of either set of a joint configuration will do.
QuorumOfEither(S) ==
    \E g \in Groups : 2 * Cardinality(S \cap g) > Cardinality(g)

Quorum(S) == \A g \in Groups : 2 * Cardinality(S \cap g) > Cardinality(g)

\* Mutant of MajorityIndex: the rank of an even group is one too high.
MajorityIndexHigh(g, matched) ==
    LET rank == Cardinality(g) \div 2
    IN  CHOOSE k \in {matched[m] : m \in g} :
            /\ Cardinality({m \in g : matched[m] < k}) <= rank
            /\ Cardinality({m \in g : matched[m] <= k}) > rank

(* The element of the given rank in the ascending order of the matched     *)
(* indexes, which is what selecting the rank-th one returns.               *)
MajorityIndex(g, matched) ==
    LET rank == (Cardinality(g) - 1) \div 2
    IN  CHOOSE k \in {matched[m] : m \in g} :
            /\ Cardinality({m \in g : matched[m] < k}) <= rank
            /\ Cardinality({m \in g : matched[m] <= k}) > rank

QuorumIndex(matched) ==
    CHOOSE k \in {MajorityIndex(g, matched) : g \in Groups} :
        \A g \in Groups : k <= MajorityIndex(g, matched)

-----------------------------------------------------------------------------
(* The durable state, and reading it *)

NoSnapshot == [index |-> 0, term |-> 0, state |-> <<>>]

Persistent(n) ==
    [term |-> n.term, voted |-> n.voted, commit |-> n.commit,
     snap |-> n.snap, log |-> n.log]

LastIndex(n) == n.snap.index + Len(n.log)

LastTerm(n) == IF n.log = <<>> THEN n.snap.term ELSE n.log[Len(n.log)].term

Retained(n, k) == k \in n.snap.index..LastIndex(n)

TermAt(n, k) == IF k = n.snap.index THEN n.snap.term
                                    ELSE n.log[k - n.snap.index].term

HasTerm(n, k, t) == Retained(n, k) /\ TermAt(n, k) = t

(* The history a state stands for: its snapshot's, then its log.           *)
History(n) == n.snap.state \o n.log

\* Mutant of UpToDate: the logs are not compared.
UpToDateAnyway(n, lastIndex, lastTerm) == TRUE

UpToDate(n, lastIndex, lastTerm) ==
    \/ lastTerm > LastTerm(n)
    \/ lastTerm = LastTerm(n) /\ lastIndex >= LastIndex(n)

Entry == [term : Nat, command : Command \cup {Noop}]

Nondecreasing(t, entries, top) ==
    \A k \in 1..Len(entries) :
        /\ entries[k].term \in 1..top
        /\ entries[k].term >= IF k = 1 THEN t ELSE entries[k - 1].term

(* What recover() accepts of a root, given the voters it names.            *)
ValidRoot(d, voters) ==
    /\ Len(d.log) <= MaxLogEntries
    /\ d.commit \in d.snap.index..LastIndex(d)
    /\ d.snap.term <= d.term
    /\ d.voted # Nobody => d.term > 0 /\ d.voted \in voters
    /\ Nondecreasing(d.snap.term, d.log, d.term)

-----------------------------------------------------------------------------
(* Roles *)

\* Mutant of Recovered: the vote is forgotten.
RecoveredWithoutVote(d) ==
    [term |-> d.term, voted |-> Nobody, commit |-> d.commit,
     snap |-> d.snap, log |-> d.log,
     role |-> "Follower", leader |-> Nobody, votes |-> {}, prog |-> <<>>,
     incoming |-> Nobody, handoff |-> Nobody,
     enabled |-> FALSE, pre |-> Nobody, probe |-> Nobody, round |-> 0,
     initialized |-> TRUE, out |-> {}]

Recovered(d) ==
    [term |-> d.term, voted |-> d.voted, commit |-> d.commit,
     snap |-> d.snap, log |-> d.log,
     role |-> "Follower", leader |-> Nobody, votes |-> {}, prog |-> <<>>,
     incoming |-> Nobody, handoff |-> Nobody,
     enabled |-> FALSE, pre |-> Nobody, probe |-> Nobody, round |-> 0,
     initialized |-> TRUE, out |-> {}]

Fresh == [term |-> 0, voted |-> Nobody, commit |-> 0,
          snap |-> NoSnapshot, log |-> <<>>]

Emit(n, messages) == [n EXCEPT !.out = @ \cup messages]

SetProgress(n, p, g) == [n EXCEPT !.prog[p] = g]

Follow(n, t) ==
    [n EXCEPT !.term     = IF t > n.term THEN t ELSE @,
              !.voted    = IF t > n.term THEN Nobody ELSE @,
              !.incoming = IF t > n.term THEN Nobody ELSE @,
              !.role = "Follower", !.leader = Nobody,
              !.votes = {}, !.prog = <<>>,
              !.pre = Nobody, !.probe = Nobody, !.handoff = Nobody]

AcceptLeader(n, from, t) ==
    LET f == Follow(n, t)
    IN  [f EXCEPT !.leader = from,
                  !.incoming = IF f.incoming # Nobody /\ f.incoming.source # from
                               THEN Nobody ELSE @]

(* The fields of a live member, and the kinds of messages: what leaders     *)
(* send, and the rest.                                                     *)
Fields == {"term", "voted", "commit", "snap", "log", "role", "leader", "votes", "prog",
           "incoming", "handoff", "enabled", "pre", "probe", "round", "initialized", "out"}

LeaderKinds == {"Append", "InstallSnapshot", "QuorumProbe", "TimeoutNow"}

Kinds == LeaderKinds \cup
         {"PreVoteRequest", "PreVoteReply", "QuorumReply", "RequestVote", "Vote",
          "Appended", "SnapshotInstalled"}

=============================================================================
