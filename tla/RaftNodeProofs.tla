--------------------------- MODULE RaftNodeProofs ---------------------------
(***************************************************************************)
(* The theorems about RaftNode, for any number of nodes, any log length,   *)
(* any term and both apply modes: type correctness, the consistency of the *)
(* databases of a node, and the safety of the consensus.                   *)
(***************************************************************************)
EXTENDS RaftSafetySteps, FiniteSetTheorems, WellFoundedInduction

(* The provers get longer than the default for a leaf.                     *)
USE ZenonT(10), SMTT(20)

(* A nonempty set of naturals has a least element: Min is what it says.    *)
LEMMA LeastExists == WellOrdered
<1>. SUFFICES ASSUME NEW T \in SUBSET Nat, T # {}
              PROVE  Min(T) \in T /\ \A l \in T : Min(T) <= l
  BY DEF WellOrdered
<1>1. \E k \in T : \A l \in T : ~(<<l, k>> \in OpToRel(<, Nat))
  BY NatLessThanWellFounded, WFMin
<1>2. PICK k \in T : \A l \in T : ~(<<l, k>> \in OpToRel(<, Nat))
  BY <1>1
<1>3. ASSUME NEW l \in T PROVE k <= l
  <2>1. ~(<<l, k>> \in {ss \in Nat \X Nat : ss[1] < ss[2]})
    BY <1>2 DEF OpToRel
  <2>2. l \in Nat /\ k \in Nat
    OBVIOUS
  <2>. QED
    BY <2>1, <2>2
<1>. QED
  BY <1>2, <1>3 DEF Min

(* Any two quorums of nodes share a node.                                  *)
LEMMA QuorumsMeet == Majorities
<1>1. IsFiniteSet(Node) /\ Cardinality(Node) \in Nat
  BY NodeAssumption, FS_CardinalityType
<1>2. QuorumSize \in Nat
  BY <1>1 DEF QuorumSize
<1>3. ASSUME NEW i \in Node PROVE Cardinality({i}) = 1
  BY FS_Singleton
<1>4. ASSUME NEW Q \in SUBSET Node PROVE IsFiniteSet(Q) /\ Cardinality(Q) \in Nat
  <2>1. IsFiniteSet(Q)
    BY <1>1, FS_Subset
  <2>. QED
    BY <2>1, FS_CardinalityType
<1>5. ASSUME NEW P \in SUBSET Node, NEW Q \in SUBSET Node, Quorum(P), Quorum(Q)
      PROVE  \E v \in Node : v \in P /\ v \in Q
  <2>1. /\ Cardinality(P) \in Nat /\ Cardinality(Q) \in Nat
    BY <1>4
  <2>2. Cardinality(P) + Cardinality(Q) > Cardinality(Node)
    BY <1>1, <1>5, <2>1 DEF QuorumSize, Quorum
  <2>3. P \cap Q # {}
    BY <1>1, <2>2, FS_MajoritiesIntersect
  <2>. QED
    BY <2>3
<1>. QED
  BY <1>2, <1>3, <1>4, <1>5 DEF Majorities

(* A set of nodes with a quorum in it is one, and all the nodes are one.   *)
LEMMA QuorumsGrow == Supersets
<1>1. /\ IsFiniteSet(Node) /\ Cardinality(Node) \in Nat /\ Cardinality(Node) # 0
  BY NodeAssumption, FS_CardinalityType, FS_EmptySet
<1>2. Quorum(Node)
  BY SMTT(30), <1>1 DEF Quorum, QuorumSize
<1>3. ASSUME NEW P \in SUBSET Node, NEW Q \in SUBSET Node, Quorum(P), P \subseteq Q
      PROVE  Quorum(Q)
  <2>1. IsFiniteSet(Q) /\ QuorumSize \in Nat
    BY <1>1, FS_Subset, QuorumsMeet DEF Majorities
  <2>2. Cardinality(P) <= Cardinality(Q) /\ Cardinality(Q) \in Nat /\ Cardinality(P) \in Nat
    BY <1>3, <2>1, FS_Subset, QuorumsMeet DEF Majorities
  <2>. QED
    BY SMTT(30), <1>3, <2>1, <2>2 DEF Quorum
<1>. QED
  BY <1>2, <1>3 DEF Supersets

(* A crash inside a handler keeps the history, after each of its writes.   *)
LEMMA CrashInHandlerExplained ==
    ASSUME IndInv, IndInv', History, NEW m \in msgs, NEW i \in Node, CrashInHandler(i, m)
    PROVE  History'
<1>. DEFINE s == node[i]
            T == Larger(m.term, s.currentTerm)
            f == BecomeFollower(s, T)
<1>1. /\ TypeOK /\ s \in NodeState /\ s.currentTerm \in Nat /\ NodeBase(s)
      /\ m.term \in Nat /\ (m.type = "AppendEntries" => m \in AppendEntriesMsg)
  BY Received, InvNode, InvMessage
<1>2. PICK voted, bid, led, acked : /\ Explains(node, msgs, voted, bid, led, acked)
                                    /\ Fits(node, i, s, voted, bid, led, acked)
                                    /\ MessageOK(node, voted, bid, led, acked, m)
  BY Received
<1>3. PICK log :
        /\ Step(i, ApplyCommitted(Recovered(Relogged(f, log))), {m}, {})
        /\ \/ log = s.log
           \/ /\ m.type = "AppendEntries" /\ ValidAppendEntries(m)
              /\ m.term >= s.currentTerm /\ PrefixMatches(s, m)
              /\ log = Truncated(s, m) \/ log = Appended(s, m)
  BY CrashCases
<1>4. T \in Nat /\ T >= s.currentTerm /\ (m.term >= s.currentTerm => T = m.term)
  BY SMTT(30), <1>1 DEF Larger
<1>5. Fits(node, i, f, voted, bid, led, acked)
  BY <1>2, <1>4, FollowerAt
<1>6. /\ f \in NodeState /\ f.currentTerm = T /\ f.state = "FOLLOWER" /\ f.log = s.log
      /\ f.kv = s.kv /\ f.commitIndex = s.commitIndex
  <2>1. f.currentTerm = Larger(T, s.currentTerm)
    BY <1>1 DEF BecomeFollower, NodeState
  <2>2. Larger(T, s.currentTerm) = T
    BY <1>1, <1>4 DEF Larger
  <2>3. f \in NodeState
    BY <1>5, FitsNode
  <2>. QED
    BY <1>1, <2>1, <2>2, <2>3 DEF BecomeFollower, NodeState
<1>. HIDE DEF f, T
<1>7. log \in Seq(Entry) /\ (log = f.log \/ Follows(led, f.currentTerm, f.log, log))
  <2>1. CASE log = s.log
    BY <1>1, <1>6, <2>1, NodeFields
  <2>2. CASE log # s.log
    <3>1. /\ m.type = "AppendEntries" /\ ValidAppendEntries(m) /\ m.term >= s.currentTerm
          /\ PrefixMatches(s, m)
          /\ log = Truncated(s, m) \/ log = Appended(s, m)
      BY <1>3, <2>2
    <3>2. RequestOK(voted, led, acked, m)
      BY <1>2, <3>1 DEF MessageOK
    <3>3. Meets(led, s, m)
      BY <1>1, <1>2, <3>1, <3>2, MeetsAt
    <3>4. Truncated(s, m) \in Seq(Entry)
          /\ (Truncated(s, m) = s.log \/ Follows(led, m.term, s.log, Truncated(s, m)))
      <4>1. CASE Conflicts(s, m) = {}
        BY <1>1, <4>1, NodeFields DEF Truncated
      <4>2. CASE Conflicts(s, m) # {}
        BY <3>1, <3>3, <4>2, TruncatedAgrees
      <4>. QED
        BY <4>1, <4>2
    <3>5. Appended(s, m) \in Seq(Entry)
          /\ (Appended(s, m) = s.log \/ Follows(led, m.term, s.log, Appended(s, m)))
      BY <3>1, <3>3, AppendedAgrees
    <3>. QED
      BY <1>4, <1>6, <3>1, <3>4, <3>5
  <2>. QED
    BY <2>1, <2>2
<1>. DEFINE r == Relogged(f, log)
            x == Recovered(r)
            t == ApplyCommitted(x)
<1>8. Fits(node, i, r, voted, bid, led, acked)
  BY <1>5, <1>6, <1>7, RelogAt
<1>9. /\ r \in NodeState /\ r.kv = f.kv /\ r.commitIndex = f.commitIndex
      /\ r.currentTerm = f.currentTerm
  BY <1>6, <1>7, ReloggedFields DEF SameElection
<1>10. Step(i, t, {m}, {})
  BY <1>3
<1>. HIDE DEF r
<1>11. Len(r.kv) <= r.commitIndex
  BY <1>1, <1>6, <1>9 DEF NodeBase
<1>12. Fits(node, i, x, voted, bid, led, acked)
  BY <1>8, <1>11, RecoveredAt
<1>13. x.currentTerm = r.currentTerm
  BY <1>9 DEF Recovered, BecomeFollower, NodeState, Larger
<1>. HIDE DEF x
<1>14. t \in NodeState
  BY <1>1, <1>10, Ended
<1>15. Fits(node, i, t, voted, bid, led, acked)
  BY <1>12, <1>14, ApplyAt
<1>16. x \in NodeState
  BY <1>12, FitsNode
<1>17. t.currentTerm >= node[i].currentTerm
  BY <1>4, <1>6, <1>9, <1>13, <1>16, ApplyFrame
<1>. HIDE DEF t
<1>. QED
  BY SMTT(30), <1>1, <1>2, <1>10, <1>15, <1>17, ConcludedLocally

(* After every callback and every crash, some history explains the state.  *)
LEMMA NextHistory == IndInv /\ History /\ [Next]_vars => History'
<1>. SUFFICES ASSUME IndInv, History, [Next]_vars PROVE History'
  OBVIOUS
<1>1. IndInv'
  BY NextInv
<1>2. CASE UNCHANGED vars
  <2>1. node' = node /\ msgs' = msgs
    BY <1>2 DEF vars
  <2>2. PICK voted, bid, led, acked : Explains(node, msgs, voted, bid, led, acked)
    BY DEF History
  <2>3. Explains(node', msgs', voted, bid, led, acked)
    BY <2>1, <2>2
  <2>. QED
    BY <2>3 DEF History
<1>3. ASSUME NEW i \in Node,
             \/ ElectionTimeout(i) \/ LeaderTick(i) \/ ClientPropose(i)
             \/ FinishApply(i) \/ Restart(i)
      PROVE  History'
  BY <1>1, <1>3, ElectionTimeoutExplained, LeaderTickExplained, ClientProposeExplained,
     FinishApplyExplained, RestartExplained
<1>4. ASSUME NEW m \in msgs, Receive(m.to, m)
      PROVE  History'
  <2>1. m.to \in Node
    BY InvMessage
  <2>. QED
    BY <1>4, <2>1, HandleRequestVoteExplained, HandleRequestVoteResponseExplained,
       HandleAppendEntriesExplained, HandleAppendEntriesResponseExplained,
       HandleInstallSnapshotExplained, HandleInstallSnapshotResponseExplained DEF Receive
<1>5. ASSUME NEW m \in msgs, CrashInHandler(m.to, m)
      PROVE  History'
  BY <1>1, <1>5, InvMessage, CrashInHandlerExplained
<1>. QED
  BY <1>2, <1>3, <1>4, <1>5 DEF Next

(* An entry that a request conflicts with is not in the sender's log, which*)
(* holds all that the receiver knows committed.                            *)
LEMMA NoneReplaced == IndInv /\ History => NoCommittedEntryReplaced
<1>. SUFFICES ASSUME IndInv, History, NEW m \in msgs, m.type = "AppendEntries",
                     m.term >= node[m.to].currentTerm,
                     NEW k \in Conflicts(node[m.to], m)
              PROVE  k > node[m.to].commitIndex
  BY DEF NoCommittedEntryReplaced, KeepsCommitted
<1>. DEFINE i == m.to
            s == node[i]
<1>1. /\ m \in AppendEntriesMsg /\ i \in Node /\ NodeBase(s) /\ s.commitIndex \in Nat
      /\ node \in [Node -> NodeState] /\ TypeOK
  BY InvMessage, InvNode, NodeFields DEF IndInv, TypeOK
<1>2. ValidAppendEntries(m)
  BY <1>1, RequestsPass DEF RequestsAreValid
<1>3. PICK voted, bid, led, acked : Explains(node, msgs, voted, bid, led, acked)
  BY DEF History
<1>4. RequestOK(voted, led, acked, m) /\ Core(node, voted, bid, led, acked)
  BY <1>3 DEF Explains, MessageOK
<1>5. Fits(node, i, s, voted, bid, led, acked)
  BY <1>1, <1>4, FitsStart
<1>6. m.term >= s.currentTerm /\ k \in Conflicts(s, m)
  OBVIOUS
<1>. HIDE DEF i, s
<1>7. Meets(led, s, m)
  BY <1>1, <1>2, <1>4, <1>5, <1>6, MeetsAt
<1>8. SameUpTo(led[m.term], s.log, s.commitIndex)
  BY <1>7 DEF Meets
<1>9. k \in Nat /\ s.commitIndex < k
  BY <1>1, <1>6, <1>7, <1>8, ConflictDiffers
<1>10. k > s.commitIndex
  BY SMTT(30), <1>1, <1>9
<1>. QED
  BY <1>10 DEF i, s

-----------------------------------------------------------------------------

(* IndInv holds in every reachable state: the databases of a node and its  *)
(* volatile indexes agree after every callback and after a crash between   *)
(* any two durable writes.                                                 *)
THEOREM Invariance == Spec => []IndInv
  BY LeastExists, InitInv, NextInv, PTL DEF Spec

(* Every node state and every message keeps its declared shape.            *)
THEOREM TypeCorrect == Spec => []TypeOK
<1>1. IndInv => TypeOK
  BY DEF IndInv
<1>. QED
  BY <1>1, Invariance, PTL

(* Whatever happens, a node that crashes finds databases its constructor   *)
(* accepts: the state machine holds a prefix of the log that reaches at    *)
(* least up to the snapshot, and no committed entry is missing.            *)
THEOREM RecoveryIsConsistent == Spec => []StoresConsistent
  BY InvConsistent, Invariance, PTL

(* In every reachable state there is a history of votes, of leaders' logs  *)
(* and of acknowledgements that explains what the nodes hold and what is   *)
(* in transit: the argument behind the safety of the consensus.            *)
THEOREM HistoryExists == Spec => []History
  BY QuorumsMeet, InitHistory, NextHistory, Invariance, PTL DEF Spec

(* Two leaders of a term, or two senders of replication requests of a      *)
(* term, are the same node: a vote (HandleRequestVote, BecomeCandidate) is *)
(* on disk before it is sent, and survives a crash at any point.           *)
THEOREM OneLeaderPerTerm == Spec => []ElectionSafety
  BY ElectionIsSafe, HistoryExists, PTL

(* Logs that share an entry's index and term are equal up to it: what      *)
(* HandleAppendEntries accepts always continues a log of the sender.       *)
THEOREM LogsAlwaysMatch == Spec => []LogMatching
  BY LogsMatch, HistoryExists, PTL

(* A leader of a term holds everything any node of that term or an earlier *)
(* one takes for committed: AdvanceCommitIndex and the vote's comparison   *)
(* of logs (IsLogUpToDate) together never lose a committed entry.          *)
THEOREM LeadersAlwaysComplete == Spec => []LeaderCompleteness
  BY LeadersAreComplete, HistoryExists, PTL

(* No two state machines ever diverge, whether they got there by applying  *)
(* entries, by installing a snapshot or by replay after a restart.         *)
THEOREM StateMachinesNeverDiverge == Spec => []StateMachineSafety
  BY StateMachinesAreSafe, HistoryExists, RecoveryIsConsistent, PTL

(* What a node takes for committed is on the disks of a quorum from then   *)
(* on, over truncations, installed snapshots and crashes.                  *)
THEOREM CommittedEntriesStay == Spec => []CommittedOnQuorum
  BY QuorumsGrow, CommitsAreHeld, HistoryExists, PTL

(* What a leader has down as replicated on a peer (_match_index) is on the *)
(* peer's disk until the peer moves on to a later term.                    *)
THEOREM MatchIndexAlwaysSound == Spec => []MatchIndexSound
  BY MatchesAreSound, HistoryExists, PTL

(* Every request in transit passes the checks of its handler: none of them *)
(* throws on a message that this code has sent.                            *)
THEOREM RequestsAlwaysValid == Spec => []RequestsAreValid
  BY RequestsPass, HistoryExists, TypeCorrect, PTL

(* "attempt to replace committed Raft entry" is never thrown, however late *)
(* a request arrives.                                                      *)
THEOREM CommittedNeverReplaced == Spec => []NoCommittedEntryReplaced
  BY NoneReplaced, Invariance, HistoryExists, PTL
=============================================================================
