--------------------------- MODULE AppliedReplica ---------------------------
(***************************************************************************)
(* A member that serves: consensus, the application that replays what is   *)
(* committed, and the reads and writes that wait for it                    *)
(* (crates/fgdb-repl/src/replica.rs, application.rs, application/member.rs).*)
(*                                                                         *)
(* Every input of Raft goes through one owner, which observes each output  *)
(* when it is released: a reply to an append sent after a read was admitted*)
(* confirms it, stepping down retires every read and loses every write.    *)
(* Reads may also be confirmed by probes of their own.                     *)
(*                                                                         *)
(* The application's published progress shares the member's store. How much*)
(* of what is applied may be shown (the audit gate) is the backend's       *)
(* choice, bounded as the driver checks it.                                *)
(*                                                                         *)
(* Append requests are numbered per peer (see Raft), so the watermark that *)
(* the code keeps as one number is kept per peer here.                     *)
(***************************************************************************)
EXTENDS Raft

CONSTANT WriteLimit     \* set_write_limit

(* Circumstances of a serving member.                                      *)
MaxBatch  == plan.maxBatch      \* maximum_batch_entries
MaxReads  == plan.maxReads      \* maximum_reads
MaxSerial == plan.maxSerial     \* bound: reads admitted by one incarnation
Audited   == plan.audited       \* whether the backend may hide what it applied
Readers   == plan.readers       \* bound: the members whose clients read, and
Writers   == plan.writers       \* write; the application runs on these

ASSUME ReplicaAssumption == WriteLimit \in Nat \ {0}

VARIABLES
    host,       \* [Member -> volatile: reads, nextRead, writes, app, held]
    appDisk,    \* [Member -> the ApplicationProgress last published]
    probes,     \* every read probe and acknowledgement sent so far
    visible,    \* history: the writes reported Visible
    served      \* history: the reads served, with what they saw

allVars == <<vars, host, appDisk, probes, visible, served>>

-----------------------------------------------------------------------------
(* Progress of the application *)

(* `audit` is the visible sub-prefix restored with the snapshot at `cut`.  *)
NoProgress == [applied |-> 0, visible |-> 0, cut |-> 0, audit |-> 0]

VisibleFloor(d, p) == IF p.cut > 0 /\ p.cut = d.snap.index THEN p.audit ELSE d.snap.index

ValidProgress(d, p) ==
    /\ p.visible <= p.applied /\ p.applied <= d.commit
    /\ p.applied >= d.snap.index /\ p.visible >= VisibleFloor(d, p)
    /\ p.applied = d.snap.index => p.visible = VisibleFloor(d, p)

(* What applying the next slice may publish.                               *)
Applications(d, p) ==
    LET left == d.commit - p.applied
        last == p.applied + IF left < MaxBatch THEN left ELSE MaxBatch
    IN  {[p EXCEPT !.applied = last, !.visible = v] :
             v \in IF Audited THEN p.visible..last ELSE {last}}

-----------------------------------------------------------------------------
(* Observing an output *)

Idle == [reply |-> Nobody, writes |-> {}, app |-> Nobody]

Recovering(p) ==
    [reads |-> {}, nextRead |-> 0, writes |-> {}, app |-> p, held |-> Idle]

(* The reply of an append still in flight, looked up before the input runs. *)
MatchingReply(n, m) ==
    IF /\ m.type = "Appended" /\ m.success
       /\ n.role = "Leader" /\ m.term = n.term
       /\ \E f \in n.prog[m.from].flight :
              f.kind = "Append" /\ f.request = m.request
    THEN [from |-> m.from, term |-> m.term, request |-> m.request] ELSE Nobody

\* Mutant of ObserveReads: any reply in flight confirms, however old its request.
ObserveReadsAnyRequest(reads, n, reply) ==
    LET fresh(r) == reply # Nobody /\ ~r.ready /\ reply.from \in Voters
                    /\ reply.term = n.term /\ r.term = reply.term
        voters(r) == r.confirmed \cup IF fresh(r) THEN {reply.from} ELSE {}
    IN  IF n.role # "Leader" THEN {}
        ELSE {[r EXCEPT !.confirmed = voters(r),
                        !.ready = @ \/ (r.term = n.term /\ Quorum(voters(r)))] : r \in reads}

ObserveReads(reads, n, reply) ==
    LET fresh(r) == reply # Nobody /\ ~r.ready /\ reply.from \in Voters
                    /\ reply.term = n.term /\ r.term = reply.term
                    /\ reply.request > r.after[reply.from]
        voters(r) == r.confirmed \cup IF fresh(r) THEN {reply.from} ELSE {}
    IN  IF n.role # "Leader" THEN {}
        ELSE {[r EXCEPT !.confirmed = voters(r),
                        !.ready = @ \/ (r.term = n.term /\ Quorum(voters(r)))] : r \in reads}

\* Mutant of ObserveWrites: a commit index that has reached the write's index
\* is taken for its commitment.
ObserveWritesByIndex(writes, n) ==
    {[w EXCEPT !.committed = @ \/ n.commit >= w.index] : w \in writes}

(* Losing the leadership is sticky, commitment survives compaction.        *)
ObserveWrites(writes, n) ==
    LET lost(w) == w.lost \/ n.role # "Leader" \/ w.term # n.term
    IN  {[w EXCEPT !.lost = lost(w),
                   !.committed = @ \/ /\ ~lost(w) /\ n.commit >= w.index
                                      /\ HasTerm(n, w.index, w.term)] : w \in writes}

(* The input left the member open: its output is observed at once. Else    *)
(* what came with it waits for the publication.                            *)
Absorb(i, held) ==
    LET h == host[i]
        p == IF held.app = Nobody THEN h.app ELSE held.app
    IN  IF gate'[i] = "open"
        THEN host' = [host EXCEPT ![i] =
                        [h EXCEPT !.reads  = ObserveReads(@, node'[i], held.reply),
                                  !.writes = ObserveWrites(@ \cup held.writes, node'[i]),
                                  !.app = p, !.held = Idle]]
        ELSE host' = [host EXCEPT ![i].held = held]

-----------------------------------------------------------------------------
(* Inputs of Raft *)

MemberStep(i) ==
    /\ Administer(i)
    /\ Absorb(i, Idle)
    /\ UNCHANGED <<appDisk, probes, visible, served>>

MemberReceive(i, m) ==
    /\ Receive(i, m)
    /\ Absorb(i, [Idle EXCEPT !.reply = MatchingReply(node[i], m)])
    /\ UNCHANGED <<appDisk, probes, visible, served>>

\* Mutant of MemberCompact: what is applied but hidden may be compacted.
MemberCompactHidden(i, k) ==
    /\ k <= host[i].app.applied
    /\ Compact(i, k)
    /\ Absorb(i, Idle)
    /\ UNCHANGED <<appDisk, probes, visible, served>>

MemberCompact(i, k) ==
    /\ k <= host[i].app.visible
    /\ Compact(i, k)
    /\ Absorb(i, Idle)
    /\ UNCHANGED <<appDisk, probes, visible, served>>

\* Mutant of InstallDownload: a cut that shows less than the member does is
\* installed.
InstallDownloadAnyCut(i, v) ==
    LET s == node[i].incoming.snap
    IN  /\ SnapshotReady(i)
        /\ s.index > node[i].commit
        /\ Absorb(i, [Idle EXCEPT !.app = [applied |-> s.index, visible |-> v,
                                           cut |-> s.index, audit |-> v]])
        /\ UNCHANGED <<appDisk, probes, visible, served>>

(* install_download: the snapshot's application state and Raft state are   *)
(* one publication. `v` is the visible sub-prefix the snapshot names.      *)
InstallDownload(i, v) ==
    LET s == node[i].incoming.snap
    IN  /\ SnapshotReady(i)
        /\ s.index > node[i].commit
        /\ v \in host[i].app.visible..s.index
        /\ Absorb(i, [Idle EXCEPT !.app = [applied |-> s.index, visible |-> v,
                                           cut |-> s.index, audit |-> v]])
        /\ UNCHANGED <<appDisk, probes, visible, served>>

(* A write is admitted before its entry is appended; its position is       *)
(* recorded when the append is published.                                  *)
Submit(i, commands) ==
    LET first == LastIndex(node[i])
    IN  /\ i \in Writers
        /\ Cardinality(host[i].writes) + Len(commands) <= WriteLimit
        /\ Propose(i, commands)
        /\ Absorb(i, [Idle EXCEPT !.writes =
               {[index |-> first + k, term |-> node[i].term, command |-> commands[k],
                 committed |-> FALSE, lost |-> FALSE] : k \in 1..Len(commands)}])
        /\ UNCHANGED <<appDisk, probes, visible, served>>

MemberPersisted(i) ==
    /\ Persisted(i)
    /\ Absorb(i, host[i].held)
    /\ appDisk' = [appDisk EXCEPT ![i] = IF host[i].held.app = Nobody THEN @
                                          ELSE host[i].held.app]
    /\ UNCHANGED <<probes, visible, served>>

MemberPublicationFailed(i) ==
    LET a == host[i].held.app
    IN  /\ PublicationFailed(i)
        /\ appDisk' = [appDisk EXCEPT ![i] = IF a # Nobody /\ disk' # disk THEN a ELSE @]
        /\ UNCHANGED <<host, probes, visible, served>>

(* Reads and writes that were waiting are forgotten.                       *)
MemberRecover(i) ==
    /\ ValidProgress(disk[i], appDisk[i])
    /\ Recover(i)
    /\ host' = [host EXCEPT ![i] = Recovering(appDisk[i])]
    /\ UNCHANGED <<appDisk, probes, visible, served>>

-----------------------------------------------------------------------------
(* Applying *)

ApplyNext(i) ==
    /\ Accepts(i, "Apply") /\ i \in Readers \cup Writers
    /\ ValidProgress(node[i], host[i].app)
    /\ host[i].app.applied < node[i].commit
    /\ \E p \in Applications(node[i], host[i].app) :
           /\ appDisk' = [appDisk EXCEPT ![i] = p]
           /\ host' = [host EXCEPT ![i].app = p]
    /\ UNCHANGED <<vars, probes, visible, served>>

(* Fenced before the backend is called; it may have published.             *)
ApplyFails(i) ==
    /\ Accepts(i, "Apply") /\ i \in Readers \cup Writers
    /\ restarts < MaxRestarts
    /\ host[i].app.applied < node[i].commit
    /\ \E p \in Applications(node[i], host[i].app) \cup {host[i].app} :
           appDisk' = [appDisk EXCEPT ![i] = p]
    /\ gate' = [gate EXCEPT ![i] = "poisoned"]
    /\ UNCHANGED <<node, disk, net, restarts, plan, host, probes, visible, served>>

-----------------------------------------------------------------------------
(* Reads *)

(* One read, or a batch of them sharing a heartbeat. `floor` and `before`  *)
(* are history: the highest index committed anywhere, and the writes       *)
(* already reported Visible, when the read was admitted.                   *)
ReadIndex(i, count) ==
    LET n == node[i]
        h == host[i]
        new == [serial : h.nextRead + 1..h.nextRead + count,
                term : {n.term}, index : {n.commit},
                after : {[p \in DOMAIN n.prog |-> n.prog[p].issued]},
                confirmed : {{i}}, ready : {FALSE},
                floor : {disk[j].commit : j \in Member}, before : {visible}]
    IN  /\ Accepts(i, "ReadIndex") /\ i \in Readers
        /\ n.role = "Leader" /\ n.handoff = Nobody
        /\ HasTerm(n, n.commit, n.term)
        /\ count <= MaxReads - Cardinality(h.reads)
        /\ h.nextRead + count <= MaxSerial
        /\ OnHeartbeat(i)
        /\ host' = [host EXCEPT ![i] =
               [h EXCEPT !.nextRead = @ + count,
                         !.reads = ObserveReads(
                             @ \cup {r \in new : \A j \in Member :
                                                     r.floor >= disk[j].commit},
                             node'[i], Nobody)]]
        /\ UNCHANGED <<appDisk, probes, visible, served>>

(* The checks that a read's quorum may still be gathered.                  *)
OwnerValid(i, r) ==
    /\ gate[i] = "open" /\ node[i].role = "Leader"
    /\ node[i].term = r.term /\ node[i].handoff = Nobody

ReadIndexProbes(i, r) ==
    /\ "Probe" \in Inputs
    /\ OwnerValid(i, r) /\ ~r.ready
    /\ probes' = probes \cup {[type |-> "Probe", from |-> i, to |-> v, term |-> r.term,
                               round |-> r.serial] : v \in Voters \ r.confirmed}
    /\ UNCHANGED <<vars, host, appDisk, visible, served>>

AcknowledgeReadIndex(j, p) ==
    /\ p.type = "Probe" /\ p.to = j
    /\ gate[j] = "open" /\ j \in Voters
    /\ p.term = node[j].term
    /\ node[j].role = "Follower" /\ node[j].leader = p.from
    /\ probes' = probes \cup {[type |-> "Ack", from |-> j, to |-> p.from,
                               term |-> p.term, round |-> p.round]}
    /\ UNCHANGED <<vars, host, appDisk, visible, served>>

ConfirmReadIndex(i, r, a) ==
    LET voters == r.confirmed \cup {a.from}
    IN  /\ OwnerValid(i, r) /\ ~r.ready
        /\ a.type = "Ack" /\ a.to = i /\ a.from \in Voters
        /\ a.term = r.term /\ a.round = r.serial
        /\ host' = [host EXCEPT ![i].reads =
               (@ \ {r}) \cup {[r EXCEPT !.confirmed = voters, !.ready = Quorum(voters)]}]
        /\ UNCHANGED <<vars, appDisk, probes, visible, served>>

CancelRead(i, r) ==
    /\ "Cancel" \in Inputs
    /\ host' = [host EXCEPT ![i].reads = @ \ {r}]
    /\ UNCHANGED <<vars, appDisk, probes, visible, served>>

\* Mutant of TryRead: the view is pinned before the application has caught up.
TryReadUnapplied(i, r) ==
    LET p == host[i].app
    IN  /\ gate[i] = "open" /\ r.ready
        /\ node[i].role = "Leader" /\ node[i].term = r.term
        /\ served' = served \cup {[before |-> r.before,
                                   view |-> SubSeq(History(node[i]), 1, p.visible)]}
        /\ host' = [host EXCEPT ![i].reads = @ \ {r}]
        /\ UNCHANGED <<vars, appDisk, probes, visible>>

(* The view pinned is the visible prefix, which may exceed the read's index.*)
TryRead(i, r) ==
    LET p == host[i].app
    IN  /\ gate[i] = "open" /\ r.ready
        /\ node[i].role = "Leader" /\ node[i].term = r.term
        /\ p.applied >= r.index /\ p.visible >= r.index
        /\ served' = served \cup {[before |-> r.before,
                                   view |-> SubSeq(History(node[i]), 1, p.visible)]}
        /\ host' = [host EXCEPT ![i].reads = @ \ {r}]
        /\ UNCHANGED <<vars, appDisk, probes, visible>>

-----------------------------------------------------------------------------
(* Writes *)

TryWrite(i, w) ==
    LET p == host[i].app
    IN  /\ gate[i] = "open" /\ ~w.lost /\ w.committed
        /\ p.applied >= w.index /\ p.visible >= w.index
        /\ visible' = visible \cup {[index |-> w.index, term |-> w.term,
                                     command |-> w.command]}
        /\ host' = [host EXCEPT ![i].writes = @ \ {w}]
        /\ UNCHANGED <<vars, appDisk, probes, served>>

(* Polled after the member was fenced, the leadership was lost or the      *)
(* entry is gone, or cancelled: the waiter goes, the entry may yet commit. *)
RetireWrite(i, w) ==
    /\ \/ gate[i] = "poisoned" \/ w.lost
       \/ ~w.committed /\ ~HasTerm(node[i], w.index, w.term)
       \/ "Cancel" \in Inputs
    /\ gate[i] # "pending"
    /\ host' = [host EXCEPT ![i].writes = @ \ {w}]
    /\ UNCHANGED <<vars, appDisk, probes, visible, served>>

-----------------------------------------------------------------------------
MemberInit ==
    /\ host = [i \in Member |-> Recovering(NoProgress)]
    /\ appDisk = [i \in Member |-> NoProgress]
    /\ probes = {} /\ visible = {} /\ served = {}

MemberNext ==
    \E i \in Member :
        \/ MemberStep(i)
        \/ \E m \in net : MemberReceive(i, m)
        \/ \E k \in 1..LastIndex(node[i]) : MemberCompact(i, k)
        \/ node[i].incoming # Nobody /\ \E v \in 0..node[i].incoming.snap.index :
               InstallDownload(i, v)
        \/ \E commands \in Batches : Submit(i, commands)
        \/ MemberPersisted(i)
        \/ MemberPublicationFailed(i)
        \/ MemberRecover(i)
        \/ ApplyNext(i)
        \/ ApplyFails(i)
        \/ \E count \in 1..MaxReads : ReadIndex(i, count)
        \/ \E r \in host[i].reads : \/ ReadIndexProbes(i, r)
                                    \/ \E a \in probes : ConfirmReadIndex(i, r, a)
                                    \/ CancelRead(i, r)
                                    \/ TryRead(i, r)
        \/ \E p \in probes : AcknowledgeReadIndex(i, p)
        \/ \E w \in host[i].writes : TryWrite(i, w) \/ RetireWrite(i, w)

MemberSpec == Init /\ MemberInit /\ [][MemberNext]_allVars

-----------------------------------------------------------------------------
(* Properties *)

(* A read whose quorum is complete waits for everything that was committed,*)
(* by any leader, before it was admitted: a deposed leader with replies    *)
(* still in the network never completes one (observe, confirm_read_index,  *)
(* acknowledge_read_index).                                                *)
ReadIndexCoversCommits ==
    \A i \in Member : \A r \in host[i].reads : r.ready => r.index >= r.floor

Shows(history, w) ==
    /\ w.index <= Len(history)
    /\ history[w.index] = [term |-> w.term, command |-> w.command]

(* End to end: a read shows every write reported Visible before the read   *)
(* began, by whichever member reported it (try_write, try_read).           *)
ReadsSeeVisibleWrites ==
    \A s \in served : \A w \in s.before : Shows(s.view, w)

(* A write reported Visible is in the committed history of every member    *)
(* that has come that far, and of every later leader: no index reused after*)
(* a change of leader is mistaken for it (WriteTracker::observe).          *)
VisibleWritesArePermanent ==
    \A w \in visible : \A i \in Member :
        /\ disk[i].commit >= w.index => Shows(History(disk[i]), w)
        /\ node[i].role = "Leader" /\ node[i].term >= w.term => Shows(History(node[i]), w)

(* What the application published and what Raft published always fit: no   *)
(* crash, compaction or installation leaves a store that recovery refuses  *)
(* (validate_progress at recover).                                         *)
RecoveryNeverRefused ==
    \A i \in Member : ValidProgress(disk[i], appDisk[i])

(* What a member shows never goes back, whatever it crashed in: the visible*)
(* prefix published grows (VisibilityRegression).                          *)
VisibilityGrows ==
    [][\A i \in Member : appDisk'[i].visible >= appDisk[i].visible]_allVars

=============================================================================
