-------------------------- MODULE MCAppliedReplica --------------------------
(***************************************************************************)
(* Three members that serve: their reads, and what they publish.           *)
(***************************************************************************)
EXTENDS AppliedReplica, MCRaft

(* n3 led term 1, and its entry reached n1 and not n2.                     *)
LaggedRoots ==
    [i \in Member |->
        [term |-> 1, voted |-> n3, commit |-> 0, snap |-> NoSnapshot,
         log |-> IF i # n2 THEN <<Blank(1)>> ELSE <<>>]]

(* n3 led term 1 and everyone has what it committed.                       *)
LevelRoots ==
    [i \in Member |->
        [term |-> 1, voted |-> n3, commit |-> 1, snap |-> NoSnapshot,
         log |-> <<Blank(1)>>]]

(* n1, the only voter, led term 1; n2 follows it and lags behind.          *)
TrailingRoots ==
    [i \in Member |->
        [term |-> 1, voted |-> IF i = n1 THEN n1 ELSE Nobody,
         commit |-> IF i = n3 THEN 0 ELSE 1, snap |-> NoSnapshot,
         log |-> IF i = n1 THEN <<Blank(1), Put(1)>>
                 ELSE IF i = n2 THEN <<Blank(1)>> ELSE <<>>]]

-----------------------------------------------------------------------------
(* Plans *)

MemberPlan ==
    [groups |-> {Member}, maxAppend |-> 2, inputs |-> {}, timed |-> Always({n1, n2}),
     cut |-> Always({{n1, n3}}), maxTerm |-> 2, maxRequest |-> 3, maxRound |-> 0,
     maxRestarts |-> 0, maxBatch |-> 2, maxReads |-> 1, maxSerial |-> 1,
     audited |-> FALSE, readers |-> {}, writers |-> {},
     late |-> Member]

(* n1 leads and reads; n2 is elected meanwhile and commits with n3. A read *)
(* is confirmed by replies to appends and by its own probes.               *)
DeposedPlan == [MemberPlan EXCEPT
    !.inputs = {"ElectionTimeout", "ReadIndex", "Probe"},
    !.maxTerm = 3, !.late = {n1, n3}, !.readers = {n1}]

(* n1 leads term 2 and reads, cut off from term 3, in which n2 leads n3,   *)
(* writes and shows.                                                       *)
StalePlan == [DeposedPlan EXCEPT
    !.inputs = {"ElectionTimeout", "ReadIndex", "Propose", "Apply"},
    !.timed = {<<n1, 1>>, <<n2, 2>>}, !.cut = @ \cup {<<{n1, n2}, 3>>},
    !.maxAppend = 3, !.maxBatch = 5, !.late = {}, !.writers = {n2}]

(* n1 writes, n2 takes over and reads.                                     *)
ServicePlan == [MemberPlan EXCEPT
    !.groups = {{n1, n2}}, !.cut = Always({{n1, n3}, {n2, n3}}),
    !.inputs = {"ElectionTimeout", "ReadIndex", "Propose", "Apply"},
    !.timed = {<<n1, 0>>, <<n2, 1>>}, !.late = {}, !.readers = {n2},
    !.writers = {n1}]

(* n1 reads while its writes fill the window.                              *)
BusyPlan == [ServicePlan EXCEPT
    !.timed = {<<n1, 0>>}, !.maxRequest = 4, !.readers = {n1}]

(* Reads in batches, some of them cancelled.                               *)
QueuePlan == [ServicePlan EXCEPT
    !.inputs = {"ElectionTimeout", "ReadIndex", "Probe", "Cancel"},
    !.timed = Always({n1}), !.maxTerm = 1, !.late = Member,
    !.maxRequest = 3, !.maxReads = 2, !.maxSerial = 2, !.readers = {n1}]

(* n1 writes and is deposed by n2, which n3 follows.                       *)
WritePlan == [MemberPlan EXCEPT
    !.inputs = {"ElectionTimeout", "Propose", "Apply"},
    !.maxRequest = 2, !.maxBatch = 5, !.late = {n3}, !.writers = {n1}]

(* The same with fewer requests, and messages that outlive their term.     *)
LateWritePlan == [WritePlan EXCEPT !.maxRequest = 1, !.late = Member]

(* One voter and a learner that apply, hide, compact, catch up and crash.  *)
StorePlan == [MemberPlan EXCEPT
    !.groups = {{n1}}, !.maxAppend = 1, !.timed = Always({n1}),
    !.inputs = {"ElectionTimeout", "Heartbeat", "Compact", "SnapshotReady",
                "SnapshotFailed", "Apply"},
    !.maxRequest = 2, !.maxRestarts = 1, !.audited = TRUE, !.readers = {n1, n2}]

ReadScenarios ==
    [plan : {DeposedPlan}, roots : {LaggedRoots}, initialized : {TRUE}] \cup
    [plan : {StalePlan}, roots : {LevelRoots}, initialized : {TRUE}] \cup
    [plan : {ServicePlan, BusyPlan, QueuePlan}, roots : {NewRoots}, initialized : {FALSE}]

PublishScenarios ==
    [plan : {WritePlan, LateWritePlan}, roots : {NewRoots}, initialized : {FALSE}] \cup
    [plan : {StorePlan}, roots : {TrailingRoots}, initialized : {TRUE}]
=============================================================================
