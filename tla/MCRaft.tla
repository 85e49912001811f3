------------------------------- MODULE MCRaft -------------------------------
(***************************************************************************)
(* Three members in eleven plans. Each starts them from roots they can have*)
(* published and lets happen what it is about.                             *)
(***************************************************************************)
EXTENDS Raft

CONSTANTS n1, n2, n3

-----------------------------------------------------------------------------
(* Published roots *)

Blank(t) == [term |-> t, command |-> Noop]
Put(t)   == [term |-> t, command |-> CHOOSE c \in Command : TRUE]

NewRoots == [i \in Member |-> Fresh]

(* n1 led term 1 and n2 term 2, each alone with the entry it began with.   *)
DivergedRoots ==
    [i \in Member |->
        [term |-> IF i = n1 THEN 1 ELSE 2,
         voted |-> IF i = n1 THEN n1 ELSE n2,
         commit |-> 0, snap |-> NoSnapshot,
         log |-> IF i = n1 THEN <<Blank(1)>>
                 ELSE IF i = n2 THEN <<Blank(2)>> ELSE <<>>]]

(* n1 led term 1 and committed two entries with n2, which has yet to be    *)
(* told so; n3 has neither.                                                *)
LaggingRoots ==
    [i \in Member |->
        [term |-> 1, voted |-> n1,
         commit |-> IF i = n1 THEN 2 ELSE 0, snap |-> NoSnapshot,
         log |-> IF i = n3 THEN <<>> ELSE <<Blank(1), Put(1)>>]]

(* n2 led term 1 and replicated two of its three entries to the others; n1 *)
(* led term 2 with n3.                                                     *)
TailedRoots ==
    [i \in Member |->
        [term |-> IF i = n2 THEN 1 ELSE 2,
         voted |-> IF i = n2 THEN n2 ELSE n1,
         commit |-> 0, snap |-> NoSnapshot,
         log |-> <<Blank(1), Put(1), IF i = n2 THEN Put(1) ELSE Blank(2)>>]]

-----------------------------------------------------------------------------
(* Plans *)

(* Timers that expire, and pairs that are cut off, in every term.          *)
Always(S) == S \X (0..4)

BasePlan ==
    [groups |-> {Member}, maxAppend |-> 1, inputs |-> {"ElectionTimeout"},
     timed |-> Always({n1}), cut |-> {}, maxTerm |-> 3, maxRequest |-> 4,
     maxRound |-> 0, maxRestarts |-> 0, settles |-> FALSE,
     late |-> Member]

(* Two candidates of one term, and voters that may crash between them.     *)
VotesPlan == [BasePlan EXCEPT
    !.timed = Always({n1, n2}), !.maxTerm = 1, !.maxRequest = 1, !.maxRestarts = 1]

(* The same under a joint configuration.                                   *)
JointPlan == [VotesPlan EXCEPT !.groups = {{n1}, {n2, n3}}, !.maxRequest = 2]

(* Pre-votes and quorum probes: n1 and n2 hear n3 only.                    *)
PreVotePlan == [BasePlan EXCEPT
    !.inputs = {"LivenessTimeout", "Heartbeat"}, !.timed = Always({n1, n2}),
    !.cut = Always({{n1, n2}}), !.maxTerm = 4, !.maxRequest = 1, !.maxRound = 2,
    !.late = {n1, n2}]

(* Two voters that hand leadership over while commands arrive.             *)
HandoffPlan == [BasePlan EXCEPT
    !.groups = {{n1, n2}}, !.cut = Always({{n1, n3}, {n2, n3}}),
    !.inputs = {"ElectionTimeout", "TransferLeadership",
                "AbortLeadershipTransfer", "Propose"},
    !.maxAppend = 2, !.maxTerm = 2, !.maxRequest = 3, !.late = {n1}]

(* Two voters, batches of commands that fill the window, and a crash.      *)
PipelinePlan == [HandoffPlan EXCEPT
    !.inputs = {"ElectionTimeout", "Propose"}, !.maxTerm = 1,
    !.maxRequest = 4, !.maxRestarts = 1, !.late = Member]

(* The same one command at a time, each in a request of its own.           *)
SinglePlan == [PipelinePlan EXCEPT !.maxAppend = 1]

(* Leaders take turns over logs that differ.                               *)
DivergedPlan == [BasePlan EXCEPT
    !.timed = Always({n1, n2}), !.cut = Always({{n1, n2}}), !.maxTerm = 4, !.late = {n1, n2}]

(* The same with fewer requests, and messages that outlive their term.     *)
LatePlan == [DivergedPlan EXCEPT
    !.maxAppend = 2, !.maxRequest = 2, !.late = Member]

(* The first with a crash.                                                 *)
CrashPlan == [DivergedPlan EXCEPT !.maxRequest = 2, !.maxRestarts = 1]

(* A leader compacts under a follower that needs what is compacted.        *)
SnapshotPlan == [BasePlan EXCEPT
    !.inputs = {"ElectionTimeout", "Heartbeat", "Compact", "SnapshotReady",
                "SnapshotFailed"},
    !.cut = Always({{n1, n2}}), !.maxTerm = 2, !.maxRequest = 3, !.maxRestarts = 2]

(* Everyone hears everyone and no timer expires after the election.        *)
SettlePlan == [BasePlan EXCEPT
    !.maxAppend = 2, !.maxRequest = 9, !.settles = TRUE]

MCScenarios ==
    [plan : {VotesPlan, JointPlan, HandoffPlan, PipelinePlan, SinglePlan},
     roots : {NewRoots}, initialized : {FALSE}] \cup
    [plan : {PreVotePlan, DivergedPlan, LatePlan, CrashPlan},
     roots : {DivergedRoots}, initialized : {TRUE}] \cup
    [plan : {SnapshotPlan}, roots : {LaggingRoots}, initialized : {TRUE}] \cup
    [plan : {SettlePlan}, roots : {TailedRoots}, initialized : {TRUE}]

-----------------------------------------------------------------------------
(* Nothing is left to happen but timers: every message still in transit    *)
(* would change nothing, and no publication or transfer is under way.      *)
Quiet ==
    \A i \in Member :
        /\ gate[i] = "open" /\ node[i].incoming = Nobody
        /\ \A m \in net : m.to = i /\ ~Lost(m) /\ ~Refused(node[i], m) =>
               LET n == Received(node[i], i, m)
               IN  n.out \subseteq net /\ [n EXCEPT !.out = {}] = node[i]

(* Once messages arrive, the members do not come to rest before everyone   *)
(* holds the leader's whole log and knows it committed, however far behind *)
(* they were: conflict hints, windows and commit notices neither run dry   *)
(* nor go round in circles, without a heartbeat's help (send_append,       *)
(* acknowledge, the rejection path of receive).                            *)
NoLostWakeup ==
    plan.settles =>
        /\ Quiet /\ node[n1].term = MaxTerm =>
               \A i \in Member : /\ disk[i].commit = LastIndex(disk[n1])
                                 /\ History(disk[i]) = History(disk[n1])
                                 /\ disk[i].term = MaxTerm
        /\ \A p \in DOMAIN node[n1].prog : node[n1].prog[p].issued < MaxRequest
=============================================================================
