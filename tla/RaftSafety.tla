----------------------------- MODULE RaftSafety -----------------------------
(***************************************************************************)
(* The theorems on Raft, for every configuration and plan, with the facts  *)
(* on finite sets and numbers they rest on: election safety (RaftProofs),  *)
(* and that what a member publishes can be opened again and no step of it  *)
(* fails half way (RaftPublication).                                       *)
(***************************************************************************)
EXTENDS RaftPublication, RaftProofs, FiniteSetTheorems

(* A set of numbers that is not empty has a least element.                 *)
LEMMA LeastElement ==
    ASSUME NEW S, S \subseteq Nat, S # {}
    PROVE  \E k \in S : \A j \in S : k <= j
<1>1. PICK k \in S : \A j \in S : ~(<<j, k>> \in OpToRel(<, Nat))
    BY WFMin, NatLessThanWellFounded, Zenon
<1>2. \A j \in S : ~(j < k)
    <2> TAKE j \in S
    <2>1. j \in Nat /\ k \in Nat
        OBVIOUS
    <2>2. j < k => <<j, k>> \in OpToRel(<, Nat)
        BY <2>1 DEF OpToRel
    <2> QED
        BY <1>1, <2>2, Zenon
<1> QED
    BY <1>2

(* The facts on numbers and finite sets hold.                              *)
LEMMA SetFactsHold == SetFacts
<1>1. \A S \in SUBSET Nat : S # {} => \E k \in S : \A j \in S : k <= j
    BY LeastElement, Zenon
<1>2. \A S : IsFiniteSet(S) => Cardinality(S) \in Nat
    BY FS_CardinalityType
<1>3. \A S, T : IsFiniteSet(S) /\ T \subseteq S => IsFiniteSet(T)
    BY FS_Subset
<1>4. \A S, T : IsFiniteSet(S) /\ IsFiniteSet(T) => IsFiniteSet(S \cup T)
    BY FS_Union, Zenon
<1>5. ASSUME NEW h, NEW k \in Nat PROVE IsFiniteSet({h[x] : x \in 1..k})
    <2> DEFINE g == [x \in 1..k |-> h[x]]
               T == {h[x] : x \in 1..k}
    <2>1. g \in Surjection(1..k, T)
        BY DEF Surjection
    <2>2. IsFiniteSet(1..k)
        BY FS_Interval
    <2> HIDE DEF g
    <2> QED
        BY <2>1, <2>2, FS_Surjection, SMTT(30)
<1> QED
    BY <1>1, <1>2, <1>3, <1>4, <1>5, FS_EmptySet, ZenonT(30) DEF SetFacts

Configured == Groups # {} /\ \A g \in Groups : g \subseteq Member

(* A superset of a quorum is a quorum.                                     *)
LEMMA QuorumMonotone ==
    ASSUME Configured, NEW S, NEW T, S \subseteq T, Quorum(S)
    PROVE  Quorum(T)
<1> SUFFICES ASSUME NEW g \in Groups
             PROVE  2 * Cardinality(T \cap g) > Cardinality(g)
    BY DEF Quorum
<1>1. IsFiniteSet(g)
    BY KernelAssumption, FS_Subset, SMTT(30) DEF KernelAssumption, Configured
<1>2. IsFiniteSet(T \cap g) /\ S \cap g \subseteq T \cap g
    BY <1>1, FS_Subset
<1>3. Cardinality(S \cap g) <= Cardinality(T \cap g)
    BY <1>2, FS_Subset
<1>4. Cardinality(S \cap g) \in Nat /\ Cardinality(T \cap g) \in Nat /\ Cardinality(g) \in Nat
    BY <1>1, <1>2, FS_Subset, FS_CardinalityType, SMTT(30)
<1>5. 2 * Cardinality(S \cap g) > Cardinality(g)
    BY DEF Quorum
<1> QED
    BY <1>3, <1>4, <1>5, SMTT(30)

(* Any two quorums share a member, joint configurations included.          *)
LEMMA QuorumsIntersect ==
    ASSUME Configured, NEW S, NEW T, Quorum(S), Quorum(T)
    PROVE  \E k \in Member : k \in S /\ k \in T
<1>1. PICK g \in Groups : TRUE
    BY DEF Configured
<1>2. IsFiniteSet(g) /\ g \subseteq Member
    BY KernelAssumption, FS_Subset, SMTT(30) DEF KernelAssumption, Configured
<1> DEFINE A == S \cap g
           B == T \cap g
<1>3. A \subseteq g /\ B \subseteq g
    OBVIOUS
<1>4. 2 * Cardinality(A) > Cardinality(g) /\ 2 * Cardinality(B) > Cardinality(g)
    BY DEF Quorum
<1>5. Cardinality(A) \in Nat /\ Cardinality(B) \in Nat /\ Cardinality(g) \in Nat
    BY <1>2, <1>3, FS_Subset, FS_CardinalityType, SMTT(30)
<1>6. Cardinality(A) + Cardinality(B) > Cardinality(g)
    BY <1>4, <1>5, SMTT(30)
<1> HIDE DEF A, B
<1>7. A \cap B # {}
    BY <1>2, <1>3, <1>6, FS_MajoritiesIntersect, SMTT(30)
<1> QED
    BY <1>2, <1>7 DEF A, B

(* The configuration of every plan has the quorums the proofs use.         *)
LEMMA PlansConfigured == Init => PlanOK
<1> SUFFICES ASSUME Init PROVE PlanOK
    OBVIOUS
<1>1. PICK s \in Scenarios : plan = s.plan
    BY Zenon DEF Init
<1>2. Configured
    BY <1>1, RaftAssumption, ZenonT(30) DEF RaftAssumption, Configured, Groups
<1> QED
    BY <1>2, QuorumMonotone, QuorumsIntersect, ZenonT(30) DEF PlanOK

(* The invariant of elections holds in every reachable state.              *)
THEOREM ElectionInvariant == Spec => []ElectionInv
BY PlansConfigured, ElectionInit, ElectionNext, PTL DEF Spec

(* Election safety, for every configuration, stable or joint, and every    *)
(* order of messages, crashes and failed publications: no two members ever *)
(* speak as leader of one term (campaign, request_vote, become_leader).    *)
THEOREM ElectionSafety == Spec => []OneLeaderPerTerm
BY LeadersAgree, ElectionInvariant, PTL

(* A published vote is never changed within its term, whatever is received,*)
(* fails or restarts in between (pre_campaign, follow, persisted, recover).*)
THEOREM VotesAreKept == Spec => VoteIsKept
BY VoteStays, ElectionInvariant, PTL DEF Spec, VoteIsKept

(* The invariant of logs holds in every reachable state.                   *)
THEOREM LogInvariant == Spec => []LogInv
BY LogInit, LogNext, SetFactsHold, PTL DEF Spec

(* step() never fails half way (emit_flight, install_snapshot): requests   *)
(* in flight name retained ranges, whatever compactions, truncations and   *)
(* late replies came in between, and a pending transfer is still ahead.    *)
THEOREM StepsComplete == Spec => []StepNeverFails
BY LogsComplete, LogInvariant, PTL

(* Whatever a member publishes, its own recovery accepts (recover).        *)
THEOREM PublishedRootsOpen == Spec => []RootsAlwaysOpen
BY RootsOpen, LogInvariant, PTL

=============================================================================
