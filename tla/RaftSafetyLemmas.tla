-------------------------- MODULE RaftSafetyLemmas --------------------------
(***************************************************************************)
(* What the member functions of RaftNode do to the history of RaftHistory: *)
(* each keeps a history that fits the state of its node, or extends it.    *)
(***************************************************************************)
EXTENDS RaftNodeLemmas, RaftHistoryProofs

(* The provers get longer than the default for a leaf.                     *)
USE ZenonT(10), SMTT(20)

(* The node states n with node i in state s: the states inside a callback  *)
(* of node i.                                                              *)
With(n, i, s) == [j \in Node |-> IF j = i THEN s ELSE n[j]]

(* The history fits those states.                                          *)
Fits(n, i, s, voted, bid, led, acked) == Core(With(n, i, s), voted, bid, led, acked)

(* The history fits the start of a callback.                               *)
LEMMA FitsStart ==
    ASSUME NEW n \in [Node -> NodeState], NEW i \in Node, NEW s, s = n[i],
           NEW voted, NEW bid, NEW led, NEW acked, Core(n, voted, bid, led, acked)
    PROVE  Fits(n, i, s, voted, bid, led, acked)
<1>1. With(n, i, s) = n
  BY DEF With
<1>. QED
  BY <1>1 DEF Fits

(* What a history that fits says of node i.                                *)
LEMMA FitsNode ==
    ASSUME NEW n, NEW i \in Node, NEW s,
           NEW voted, NEW bid, NEW led, NEW acked, Fits(n, i, s, voted, bid, led, acked)
    PROVE  /\ s \in NodeState /\ NodeOK(voted, bid, led, acked, i, s)
           /\ IsVoted(voted) /\ IsBid(bid) /\ IsLed(led) /\ IsAcked(acked)
           /\ Logs(bid, led) /\ Majorities
<1>1. With(n, i, s)[i] = s
  BY DEF With
<1>. QED
  BY <1>1 DEF Fits, Core, Types

(* What it says of the others.                                             *)
LEMMA FitsOthers ==
    ASSUME NEW n, NEW i \in Node, NEW s,
           NEW voted, NEW bid, NEW led, NEW acked, Fits(n, i, s, voted, bid, led, acked),
           NEW j \in Node, j # i
    PROVE  n[j] \in NodeState /\ NodeOK(voted, bid, led, acked, j, n[j])
<1>1. With(n, i, s)[j] = n[j]
  BY DEF With
<1>. QED
  BY <1>1 DEF Fits, Core, Types

(* Node i goes from state s to state t.                                    *)
LEMMA WithOnly ==
    ASSUME NEW n, NEW i \in Node, NEW s, NEW t \in NodeState,
           NEW voted, NEW bid, NEW led, NEW acked, Fits(n, i, s, voted, bid, led, acked)
    PROVE  /\ Only(i, With(n, i, s), With(n, i, t))
           /\ With(n, i, s)[i] = s /\ With(n, i, t)[i] = t
<1>1. \A j \in Node : /\ With(n, i, s)[j] = IF j = i THEN s ELSE n[j]
                      /\ With(n, i, t)[j] = IF j = i THEN t ELSE n[j]
  BY DEF With
<1>2. \A j \in Node : With(n, i, s)[j] \in NodeState
  BY DEF Fits, Core, Types
<1>. QED
  BY <1>1, <1>2 DEF Only

(* A step from s to t that leaves the log alone, and at most moves on to a *)
(* later term.                                                             *)
Moves(s, t) ==
    /\ t.log = s.log
    /\ t.currentTerm >= s.currentTerm
    /\ t.currentTerm = s.currentTerm => t.votedFor = s.votedFor
    /\ t.currentTerm # s.currentTerm => t.votedFor = None
    /\ t.state = "CANDIDATE" => s.state = "CANDIDATE" /\ t.currentTerm = s.currentTerm

LEMMA LocalAt ==
    ASSUME NEW n, NEW i \in Node, NEW s, NEW t \in NodeState,
           NEW voted, NEW bid, NEW led, NEW acked, Fits(n, i, s, voted, bid, led, acked),
           Moves(s, t), CandidateOK(voted, bid, i, t), LeaderOK(voted, led, acked, i, t),
           CommitOK(led, acked, t.log, t.currentTerm, t.commitIndex),
           FlightOK(voted, led, acked, t)
    PROVE  Fits(n, i, t, voted, bid, led, acked)
<1>. DEFINE a == With(n, i, s)
            b == With(n, i, t)
<1>1. Only(i, a, b) /\ a[i] = s /\ b[i] = t
  BY SMTT(30), WithOnly
<1>2. Core(a, voted, bid, led, acked)
  BY DEF Fits
<1>3. /\ t.log = s.log
      /\ t.currentTerm >= s.currentTerm
      /\ t.currentTerm = s.currentTerm => t.votedFor = s.votedFor
      /\ t.currentTerm # s.currentTerm => t.votedFor = None
      /\ t.state = "CANDIDATE" => s.state = "CANDIDATE" /\ t.currentTerm = s.currentTerm
  BY DEF Moves
<1>. HIDE DEF a, b
<1>4. Core(b, voted, bid, led, acked)
  BY <1>1, <1>2, <1>3, LocalStep
<1>. QED
  BY <1>4 DEF Fits, b

(* A change of fields the history does not speak of.                       *)
LEMMA FrameAt ==
    ASSUME NEW n, NEW i \in Node, NEW s, NEW t \in NodeState,
           NEW voted, NEW bid, NEW led, NEW acked, Fits(n, i, s, voted, bid, led, acked),
           t.log = s.log, t.currentTerm = s.currentTerm, t.votedFor = s.votedFor,
           t.state = s.state, t.votes = s.votes, t.commitIndex = s.commitIndex,
           t.nextIndex = s.nextIndex, t.matchIndex = s.matchIndex, t.inflight = s.inflight
    PROVE  Fits(n, i, t, voted, bid, led, acked)
<1>1. NodeOK(voted, bid, led, acked, i, s) /\ s.currentTerm \in Nat
  BY FitsNode, NodeFields
<1>2. Moves(s, t)
  BY SMTT(30), <1>1 DEF Moves
<1>3. /\ CandidateOK(voted, bid, i, t) /\ LeaderOK(voted, led, acked, i, t)
      /\ CommitOK(led, acked, t.log, t.currentTerm, t.commitIndex)
      /\ FlightOK(voted, led, acked, t)
  BY <1>1 DEF NodeOK, CandidateOK, LeaderOK, FlightOK
<1>. QED
  BY <1>2, <1>3, LocalAt

(* BecomeFollower.                                                         *)
LEMMA FollowerAt ==
    ASSUME NEW n, NEW i \in Node, NEW s, NEW T \in Nat,
           NEW voted, NEW bid, NEW led, NEW acked, Fits(n, i, s, voted, bid, led, acked)
    PROVE  Fits(n, i, BecomeFollower(s, T), voted, bid, led, acked)
<1>. DEFINE t == BecomeFollower(s, T)
<1>1. s \in NodeState /\ NodeOK(voted, bid, led, acked, i, s) /\ IsLed(led)
  BY FitsNode
<1>2. /\ s.currentTerm \in Nat /\ s.log \in Seq(Entry) /\ s.commitIndex \in Nat
  BY <1>1, NodeFields
<1>3. t \in NodeState
  BY <1>1, BecomeFollowerFields
<1>4. /\ t.log = s.log /\ t.currentTerm = Larger(T, s.currentTerm) /\ t.state = "FOLLOWER"
      /\ t.votedFor = IF T > s.currentTerm THEN None ELSE s.votedFor
      /\ t.commitIndex = s.commitIndex /\ \A j \in Node : t.inflight[j] = None
  BY <1>1 DEF BecomeFollower, NodeState, NoRpc
<1>. HIDE DEF t
<1>5. Moves(s, t) /\ t.currentTerm >= s.currentTerm /\ t.currentTerm \in Nat
  BY SMTT(30), <1>2, <1>4 DEF Moves, Larger
<1>6. /\ CandidateOK(voted, bid, i, t) /\ LeaderOK(voted, led, acked, i, t)
      /\ FlightOK(voted, led, acked, t)
  BY <1>4 DEF CandidateOK, LeaderOK, FlightOK
<1>7. CommitOK(led, acked, s.log, s.currentTerm, s.commitIndex)
  BY <1>1 DEF NodeOK
<1>8. CommitOK(led, acked, t.log, t.currentTerm, t.commitIndex)
  BY SMTT(30), <1>1, <1>2, <1>4, <1>5, <1>7, CommitLess
<1>9. Fits(n, i, t, voted, bid, led, acked)
  BY <1>3, <1>5, <1>6, <1>8, LocalAt
<1>. QED
  BY <1>9 DEF t

(* The history grew since the node states were n.                          *)
Later(n, voted, bid, led, acked, voted2, bid2, led2, acked2) ==
    /\ VotedGrows(voted, voted2) /\ LedGrows(led, led2) /\ AckedGrows(acked, acked2)
    /\ \A j \in Node, t \in Nat : t <= n[j].currentTerm => bid2[j][t] = bid[j][t]

LEMMA LaterRefl ==
    ASSUME NEW n, NEW voted, NEW bid, NEW led, NEW acked, IsLed(led), IsAcked(acked)
    PROVE  Later(n, voted, bid, led, acked, voted, bid, led, acked)
  BY GrowsRefl DEF Later

(* The end of a callback: a history that grew, fits the new state of node  *)
(* i and explains the messages it sent, explains the state of the system.  *)
LEMMA Concluded ==
    ASSUME TypeOK, NEW i \in Node, NEW s, NEW received, NEW sent, Step(i, s, received, sent),
           NEW voted, NEW bid, NEW led, NEW acked, Explains(node, msgs, voted, bid, led, acked),
           NEW voted2, NEW bid2, NEW led2, NEW acked2,
           Later(node, voted, bid, led, acked, voted2, bid2, led2, acked2),
           Fits(node, i, s, voted2, bid2, led2, acked2),
           s.currentTerm >= node[i].currentTerm,
           \A m \in sent : MessageOK(With(node, i, s), voted2, bid2, led2, acked2, m)
    PROVE  History'
<1>. DEFINE n2 == With(node, i, s)
<1>1. node \in [Node -> NodeState] /\ msgs \subseteq Message
  BY DEF TypeOK
<1>2. node' = n2
  BY <1>1 DEF Step, With
<1>3. Core(n2, voted2, bid2, led2, acked2)
  BY DEF Fits
<1>4. /\ IsLed(led) /\ IsAcked(acked) /\ IsLed(led2) /\ IsAcked(acked2)
      /\ \A j \in Node : n2[j] \in NodeState
      /\ \A m \in msgs : MessageOK(node, voted, bid, led, acked, m)
  BY <1>3 DEF Explains, Core, Types
<1>5. ASSUME NEW j \in Node
      PROVE  /\ node[j].currentTerm \in Nat /\ n2[j].currentTerm \in Nat
             /\ node[j].currentTerm <= n2[j].currentTerm
  <2>1. node[j] \in NodeState /\ n2[j] \in NodeState
    BY <1>1, <1>4
  <2>2. node[j].currentTerm \in Nat /\ n2[j].currentTerm \in Nat
    BY <2>1, NodeFields
  <2>3. n2[j] = IF j = i THEN s ELSE node[j]
    BY DEF With
  <2>. QED
    BY SMTT(30), <2>2, <2>3
<1>. HIDE DEF n2
<1>6. /\ VotedGrows(voted, voted2) /\ LedGrows(led, led2) /\ AckedGrows(acked, acked2)
      /\ \A j \in Node, t \in Nat : t <= node[j].currentTerm => bid2[j][t] = bid[j][t]
  BY DEF Later
<1>7. ASSUME NEW m \in msgs PROVE MessageOK(n2, voted2, bid2, led2, acked2, m)
  <2>1. m \in Message /\ MessageOK(node, voted, bid, led, acked, m)
    BY <1>1, <1>4
  <2>. QED
    BY <1>4, <1>5, <1>6, <2>1, MessageGrows
<1>8. msgs' \subseteq msgs \cup sent
  BY DEF Step
<1>9. ASSUME NEW m \in msgs' PROVE MessageOK(n2, voted2, bid2, led2, acked2, m)
  <2>1. CASE m \in msgs
    BY <1>7, <2>1
  <2>2. CASE m \in sent
    BY <2>2 DEF n2
  <2>. QED
    BY <1>8, <2>1, <2>2
<1>10. Explains(n2, msgs', voted2, bid2, led2, acked2)
  BY <1>3, <1>9 DEF Explains, n2
<1>11. Explains(node', msgs', voted2, bid2, led2, acked2)
  BY <1>2, <1>10
<1>. QED
  BY <1>11 DEF History

(* The end of a callback that adds nothing to the history.                 *)
LEMMA ConcludedLocally ==
    ASSUME TypeOK, NEW i \in Node, NEW s, NEW received, NEW sent, Step(i, s, received, sent),
           NEW voted, NEW bid, NEW led, NEW acked, Explains(node, msgs, voted, bid, led, acked),
           Fits(node, i, s, voted, bid, led, acked), s.currentTerm >= node[i].currentTerm,
           \A m \in sent : MessageOK(With(node, i, s), voted, bid, led, acked, m)
    PROVE  History'
<1>1. IsLed(led) /\ IsAcked(acked)
  BY FitsNode
<1>2. Later(node, voted, bid, led, acked, voted, bid, led, acked)
  BY <1>1, LaterRefl
<1>. QED
  BY <1>2, Concluded

(* RPCs of a node are explained with its inflight field.                   *)
LEMMA RpcsExplained ==
    ASSUME NEW n, NEW i \in Node, NEW s, NEW P, P \subseteq Node,
           NEW n2, NEW voted, NEW bid, NEW led, NEW acked, Fits(n, i, s, voted, bid, led, acked)
    PROVE  \A m \in Rpcs(s, P) : MessageOK(n2, voted, bid, led, acked, m)
<1>. TAKE m \in Rpcs(s, P)
<1>1. PICK j \in P : m = s.inflight[j]
  BY DEF Rpcs
<1>2. m # None
  BY DEF Rpcs
<1>3. s \in NodeState /\ FlightOK(voted, led, acked, s)
  BY FitsNode DEF NodeOK
<1>4. m \in AppendEntriesMsg \cup InstallSnapshotMsg
  BY <1>1, <1>2, <1>3, NodeFields
<1>5. RequestOK(voted, led, acked, m)
  BY <1>1, <1>2, <1>3 DEF FlightOK
<1>6. m.type \in {"AppendEntries", "InstallSnapshot"}
  BY <1>4 DEF AppendEntriesMsg, InstallSnapshotMsg
<1>. QED
  BY <1>5, <1>6 DEF MessageOK

(* Applying entries, submitting them to the executor and compacting the    *)
(* log change nothing the history speaks of.                               *)
LEMMA ApplyFrame ==
    ASSUME NEW s \in NodeState
    PROVE  LET t == ApplyCommitted(s)
           IN /\ t.log = s.log /\ t.currentTerm = s.currentTerm /\ t.votedFor = s.votedFor
              /\ t.state = s.state /\ t.votes = s.votes /\ t.commitIndex = s.commitIndex
              /\ t.nextIndex = s.nextIndex /\ t.matchIndex = s.matchIndex
              /\ t.inflight = s.inflight
  BY DEF ApplyCommitted, MaybeSnapshot, NodeState

LEMMA ApplyAt ==
    ASSUME NEW n, NEW i \in Node, NEW s, ApplyCommitted(s) \in NodeState,
           NEW voted, NEW bid, NEW led, NEW acked, Fits(n, i, s, voted, bid, led, acked)
    PROVE  Fits(n, i, ApplyCommitted(s), voted, bid, led, acked)
<1>. DEFINE t == ApplyCommitted(s)
<1>1. s \in NodeState
  BY FitsNode
<1>2. /\ t.log = s.log /\ t.currentTerm = s.currentTerm /\ t.votedFor = s.votedFor
      /\ t.state = s.state /\ t.votes = s.votes /\ t.commitIndex = s.commitIndex
      /\ t.nextIndex = s.nextIndex /\ t.matchIndex = s.matchIndex
      /\ t.inflight = s.inflight
  BY <1>1, ApplyFrame
<1>. HIDE DEF t
<1>3. t \in NodeState
  BY DEF t
<1>4. Fits(n, i, t, voted, bid, led, acked)
  BY <1>2, <1>3, FrameAt
<1>. QED
  BY <1>4 DEF t

(* A quorum has got as far as the candidate for commitment.                *)
LEMMA QuorumMatchHeld ==
    ASSUME WellOrdered, Majorities, NEW s \in NodeState, QuorumMatch(s) > 0
    PROVE  Quorum({j \in Node : s.matchIndex[j] >= QuorumMatch(s)})
<1>. DEFINE T == {k \in 0..LastIndex(s) :
                    \/ k = LastIndex(s)
                    \/ Cardinality({j \in Node : s.matchIndex[j] > k}) < QuorumSize}
            c == QuorumMatch(s)
            P == {j \in Node : s.matchIndex[j] > c - 1}
            Q == {j \in Node : s.matchIndex[j] >= c}
<1>1. LastIndex(s) \in Nat /\ c \in 0..LastIndex(s)
  BY SeqLength, QuorumMatchType DEF LastIndex, NodeState
<1>2. T \in SUBSET Nat /\ LastIndex(s) \in T /\ c = Min(T)
  BY SMTT(30), <1>1 DEF QuorumMatch
<1>3. \A l \in T : Min(T) <= l
  BY <1>2 DEF WellOrdered
<1>4. c - 1 \in 0..LastIndex(s) /\ c - 1 # LastIndex(s) /\ ~(c <= c - 1)
  BY SMTT(30), <1>1
<1>5. c - 1 \notin T
  BY <1>2, <1>3, <1>4
<1>6. ~(Cardinality(P) < QuorumSize)
  BY <1>4, <1>5
<1>7. P = Q
  BY SMTT(30), <1>1, NodeFields
<1>8. QuorumSize \in Nat /\ Cardinality(Q) \in Nat
  BY DEF Majorities
<1>9. Cardinality(Q) >= QuorumSize
  <2>1. Cardinality(P) = Cardinality(Q)
    BY <1>7
  <2>. HIDE DEF P, Q
  <2>. QED
    BY ONLY SMTT(30), <1>6, <1>8, <2>1
<1>. QED
  BY <1>9 DEF Quorum

(* The term GetTerm reports, when it knows it, is that of the entry.       *)
LEMMA TermReported ==
    ASSUME NEW s \in NodeState, NEW k \in Nat, GetTerm(s, k) # -1
    PROVE  /\ GetTerm(s, k) = TermAt(s.log, k) /\ k <= Len(s.log)
           /\ k > 0 => s.snapshotIndex <= k
<1>1. s.snapshotIndex \in Nat /\ Len(s.log) \in Nat
  BY SeqLength DEF NodeState
<1>. QED
  BY SMTT(30), <1>1 DEF GetTerm, TermAt, LastIndex

(* It knows it from the last index of the snapshot to the end of the log.  *)
LEMMA TermInLog ==
    ASSUME NEW s \in NodeState, NEW k \in Nat, s.snapshotIndex <= k \/ k = 0, k <= Len(s.log)
    PROVE  GetTerm(s, k) = TermAt(s.log, k)
<1>1. s.snapshotIndex \in Nat /\ Len(s.log) \in Nat
  BY SeqLength DEF NodeState
<1>. QED
  BY SMTT(30), <1>1 DEF GetTerm, TermAt, LastIndex

(* AdvanceCommitIndex of a leader.                                         *)
LEMMA AdvanceAt ==
    ASSUME NEW n, NEW i \in Node, NEW s, NodeBase(s), s.state = "LEADER",
           NEW voted, NEW bid, NEW led, NEW acked, Fits(n, i, s, voted, bid, led, acked)
    PROVE  Fits(n, i, AdvanceCommitIndex(s), voted, bid, led, acked)
<1>. DEFINE c == QuorumMatch(s)
            T == s.currentTerm
            x == IF c > s.commitIndex /\ GetTerm(s, c) = T
                 THEN [s EXCEPT !.commitIndex = c] ELSE s
<1>1. /\ s \in NodeState /\ NodeOK(voted, bid, led, acked, i, s)
      /\ IsLed(led) /\ IsAcked(acked) /\ Majorities /\ WellOrdered
  BY FitsNode DEF NodeBase
<1>2. /\ T \in Nat /\ s.log \in Seq(Entry) /\ s.commitIndex \in Nat /\ Len(s.log) \in Nat
      /\ \A v \in Node : s.matchIndex[v] \in Nat
  BY <1>1, NodeFields
<1>3. c \in Nat /\ c <= Len(s.log)
  BY SMTT(30), <1>1, <1>2, QuorumMatchType DEF LastIndex
<1>4. AdvanceCommitIndex(s) = ApplyCommitted(x)
  BY DEF AdvanceCommitIndex
<1>5. ApplyCommitted(x) \in NodeState
  BY <1>4, AdvanceCommitIndexInv DEF NodeInv, NodeBase
<1>6. Fits(n, i, x, voted, bid, led, acked)
  <2>1. CASE x = s
    BY <2>1
  <2>2. CASE c > s.commitIndex /\ GetTerm(s, c) = T
    <3>1. /\ s.log = led[T]
          /\ \A v \in Node : s.matchIndex[v] <= acked[T][v]
      BY <1>1 DEF NodeOK, LeaderOK
    <3>2. x \in NodeState
      BY <1>1, <1>3, <2>2 DEF NodeState
    <3>3. /\ x.log = s.log /\ x.currentTerm = T /\ x.votedFor = s.votedFor /\ x.state = s.state
          /\ x.votes = s.votes /\ x.nextIndex = s.nextIndex /\ x.matchIndex = s.matchIndex
          /\ x.inflight = s.inflight /\ x.commitIndex = c
      BY <1>1, <2>2 DEF NodeState
    <3>. HIDE DEF x
    <3>4. Quorum({j \in Node : s.matchIndex[j] >= c})
      BY SMTT(30), <1>1, <1>2, <1>3, <2>2, QuorumMatchHeld
    <3>5. c \in 1..Len(s.log) /\ s.log[c].term = T
      <4>1. GetTerm(s, c) # -1 /\ c > 0
        BY SMTT(30), <1>2, <1>3, <2>2
      <4>2. GetTerm(s, c) = TermAt(s.log, c)
        BY <1>1, <1>3, <4>1, TermReported
      <4>. QED
        BY SMTT(30), <1>3, <2>2, <4>1, <4>2 DEF TermAt
    <3>. HIDE DEF c
    <3>6. Committed(led, acked, T, c)
      <4>1. \A v \in {j \in Node : s.matchIndex[j] >= c} : acked[T][v] >= c
        BY SMTT(30), <1>1, <1>2, <1>3, <3>1 DEF IsAcked
      <4>. QED
        BY <3>1, <3>4, <3>5, <4>1 DEF Committed, Quorum
    <3>7. SameUpTo(led[T], s.log, c)
      BY <1>2, <1>3, <3>1, SameRefl
    <3>8. CommitOK(led, acked, x.log, x.currentTerm, x.commitIndex)
      BY SMTT(30), <1>2, <1>3, <3>3, <3>6, <3>7 DEF CommitOK
    <3>9. Moves(s, x)
      BY SMTT(30), <1>2, <3>3 DEF Moves
    <3>10. /\ CandidateOK(voted, bid, i, x) /\ LeaderOK(voted, led, acked, i, x)
           /\ FlightOK(voted, led, acked, x)
      BY <1>1, <3>3 DEF NodeOK, CandidateOK, LeaderOK, FlightOK
    <3>. QED
      BY <3>2, <3>8, <3>9, <3>10, LocalAt
  <2>. QED
    BY <2>1, <2>2
<1>. HIDE DEF x
<1>. QED
  BY <1>4, <1>5, <1>6, ApplyAt

(* The RPC a leader builds for an idle peer is a piece of its log.         *)
LEMMA NewRpcExplained ==
    ASSUME NEW i \in Node, NEW s, NodeBase(s), s.state = "LEADER", NEW j \in Node, j # i,
           NEW voted, NEW bid, NEW led, NEW acked, IsLed(led),
           NodeOK(voted, bid, led, acked, i, s)
    PROVE  RequestOK(voted, led, acked, NewRpc(i, s, j))
<1>. DEFINE r == NewRpc(i, s, j)
            T == s.currentTerm
            next == s.nextIndex[j]
            snap == s.snapshotIndex
            last == Smaller(LastIndex(s), next - 1 + MaxBatchEntries)
<1>1. s \in NodeState
  BY DEF NodeBase
<1>2. /\ T \in Nat /\ s.log \in Seq(Entry) /\ s.commitIndex \in Nat /\ Len(s.log) \in Nat
      /\ next \in Nat
  BY <1>1, NodeFields
<1>3. snap \in Nat /\ snap <= s.commitIndex /\ snap <= Len(s.log)
  <2>1. snap \in Nat /\ Len(s.kv) \in Nat
    BY <1>1, SeqLength DEF NodeState
  <2>. QED
    BY SMTT(30), <1>2, <2>1 DEF NodeBase
<1>4. /\ Elected(voted, i, T) /\ s.log # <<>> /\ s.log = led[T] /\ next \in 1 .. Len(s.log) + 1
  BY DEF NodeOK, LeaderOK
<1>5. ASSUME NEW k \in Nat, k > 0, k <= s.commitIndex PROVE KnownBy(led, acked, T, k)
  <2>1. CommitOK(led, acked, s.log, T, s.commitIndex)
    BY DEF NodeOK
  <2>2. CommitOK(led, acked, s.log, T, k)
    BY SMTT(30), <1>2, <1>5, <2>1, CommitLess
  <2>. QED
    BY <1>5, <2>2 DEF CommitOK, KnownBy
<1>. HIDE DEF next, snap
<1>6. CASE snap > 0 /\ next <= snap
  <2>. DEFINE data == SubSeq(s.log, 1, snap)
  <2>1. r = [type |-> "InstallSnapshot", term |-> T, from |-> i, to |-> j,
             lastIncludedIndex |-> snap, lastIncludedTerm |-> GetTerm(s, snap), data |-> data]
    BY <1>6 DEF NewRpc, next, snap
  <2>2. /\ data \in Seq(Entry) /\ Len(data) = snap
        /\ \A k \in 1..snap : data[k] = s.log[k]
    BY SMTT(30), <1>2, <1>3, <1>6, LogPart
  <2>3. GetTerm(s, snap) = s.log[snap].term
    BY SMTT(30), <1>1, <1>2, <1>3, <1>6, TermInLog DEF snap, TermAt
  <2>4. KnownBy(led, acked, T, snap)
    BY <1>3, <1>5, <1>6
  <2>. HIDE DEF data
  <2>5. SameUpTo(s.log, data, snap)
    BY SMTT(30), <1>2, <1>3, <2>2 DEF SameUpTo
  <2>6. /\ r.type = "InstallSnapshot" /\ r.term = T /\ r.from = i /\ r.to = j
        /\ r.lastIncludedIndex = snap /\ r.lastIncludedTerm = GetTerm(s, snap) /\ r.data = data
    BY SMTT(30), <2>1
  <2>. HIDE DEF r
  <2>. QED
    BY <1>4, <1>6, <2>2, <2>3, <2>4, <2>5, <2>6 DEF RequestOK, r
<1>7. CASE ~(snap > 0 /\ next <= snap)
  <2>. DEFINE entries == SubSeq(s.log, next, last)
              previous == next - 1
  <2>1. r = [type |-> "AppendEntries", term |-> T, from |-> i, to |-> j,
             prevLogIndex |-> previous, prevLogTerm |-> GetTerm(s, previous),
             entries |-> entries, leaderCommit |-> s.commitIndex]
    BY <1>7 DEF NewRpc, next, snap
  <2>2. previous \in Nat /\ previous <= Len(s.log) /\ next \in Nat \ {0} /\ next = previous + 1
    BY SMTT(30), <1>2, <1>4
  <2>3. last \in Nat /\ last <= Len(s.log)
    BY SMTT(30), <1>2, <2>2, BoundAssumption DEF Smaller, LastIndex
  <2>. HIDE DEF last
  <2>4. /\ entries \in Seq(Entry)
        /\ Len(entries) = IF next <= last THEN last - next + 1 ELSE 0
        /\ \A k \in 1 .. last - next + 1 : entries[k] = s.log[next + k - 1]
    BY <1>2, <2>2, <2>3, LogPart
  <2>. HIDE DEF entries, previous
  <2>5. previous + Len(entries) <= Len(s.log)
    BY SMTT(30), <1>2, <2>2, <2>3, <2>4
  <2>6. \A x \in 1..Len(entries) : entries[x] = s.log[previous + x]
    <3>. TAKE x \in 1..Len(entries)
    <3>1. x \in 1 .. last - next + 1 /\ next + x - 1 = previous + x
      BY SMTT(30), <2>2, <2>3, <2>4
    <3>. QED
      BY <2>4, <3>1
  <2>7. GetTerm(s, previous) = TermAt(s.log, previous)
    <3>1. snap <= previous \/ previous = 0
      BY SMTT(30), <1>3, <1>7, <2>2
    <3>. QED
      BY <1>1, <2>2, <3>1, TermInLog DEF snap
  <2>8. s.commitIndex > 0 => KnownBy(led, acked, T, s.commitIndex)
    BY SMTT(30), <1>2, <1>5
  <2>9. /\ r.type = "AppendEntries" /\ r.term = T /\ r.from = i /\ r.to = j
        /\ r.prevLogIndex = previous /\ r.prevLogTerm = GetTerm(s, previous)
        /\ r.entries = entries /\ r.leaderCommit = s.commitIndex
    BY SMTT(30), <2>1
  <2>. HIDE DEF r
  <2>. QED
    BY <1>4, <2>5, <2>6, <2>7, <2>8, <2>9 DEF RequestOK, r
<1>. QED
  BY <1>6, <1>7

(* SendAppendEntries of a leader.                                          *)
LEMMA SendAt ==
    ASSUME NEW n, NEW i \in Node, NEW s, NodeBase(s), s.state = "LEADER", NEW P, NEW up,
           NEW voted, NEW bid, NEW led, NEW acked, Fits(n, i, s, voted, bid, led, acked)
    PROVE  Fits(n, i, SendAppendEntries(i, s, P, up), voted, bid, led, acked)
<1>. DEFINE t == SendAppendEntries(i, s, P, up)
<1>1. /\ s \in NodeState /\ NodeOK(voted, bid, led, acked, i, s) /\ IsLed(led)
      /\ s.currentTerm \in Nat
  BY FitsNode, NodeFields
<1>2. /\ NodeBase(t) /\ SameStores(s, t)
      /\ t.currentTerm = s.currentTerm /\ t.votedFor = s.votedFor
      /\ t.state = s.state /\ t.votes = s.votes
      /\ t.nextIndex = s.nextIndex /\ t.matchIndex = s.matchIndex
  BY SMTT(30), SendAppendEntriesInv
<1>3. t \in NodeState /\ t.log = s.log /\ t.commitIndex = s.commitIndex
  BY <1>2 DEF NodeBase, SameStores
<1>4. \A j \in Node : t.inflight[j] = IF j \in (P \cap up) \ {i} /\ s.inflight[j] = None
                                      THEN NewRpc(i, s, j) ELSE s.inflight[j]
  BY <1>1 DEF SendAppendEntries, NodeState
<1>. HIDE DEF t
<1>5. FlightOK(voted, led, acked, t)
  <2>. SUFFICES ASSUME NEW j \in Node, t.inflight[j] # None
                PROVE  RequestOK(voted, led, acked, t.inflight[j])
    BY DEF FlightOK
  <2>1. CASE j \in (P \cap up) \ {i} /\ s.inflight[j] = None
    <3>1. t.inflight[j] = NewRpc(i, s, j) /\ j # i
      BY <1>4, <2>1
    <3>. QED
      BY <1>1, <3>1, NewRpcExplained
  <2>2. CASE ~(j \in (P \cap up) \ {i} /\ s.inflight[j] = None)
    <3>1. t.inflight[j] = s.inflight[j]
      BY <1>4, <2>2
    <3>. QED
      BY <1>1, <3>1 DEF NodeOK, FlightOK
  <2>. QED
    BY <2>1, <2>2
<1>6. Moves(s, t)
  BY SMTT(30), <1>1, <1>2, <1>3 DEF Moves
<1>7. /\ CandidateOK(voted, bid, i, t) /\ LeaderOK(voted, led, acked, i, t)
      /\ CommitOK(led, acked, t.log, t.currentTerm, t.commitIndex)
  BY <1>1, <1>2, <1>3 DEF NodeOK, CandidateOK, LeaderOK
<1>8. Fits(n, i, t, voted, bid, led, acked)
  BY <1>3, <1>5, <1>6, <1>7, LocalAt
<1>. QED
  BY <1>8 DEF t

(* Node i, in state s0 in the history, is in state s about to append       *)
(* entries of the term it is elected in.                                   *)
Takes(n, i, s0, s, voted, led, acked) ==
    LET T == s.currentTerm
    IN /\ s.state = "LEADER" /\ T = s0.currentTerm /\ s.votedFor = s0.votedFor
       /\ s.log = s0.log /\ s.commitIndex = s0.commitIndex /\ FlightOK(voted, led, acked, s)
       /\ T > 0 /\ Elected(voted, i, T)
       /\ SameUpTo(led[T], s.log, Len(led[T]))
       /\ Complete(With(n, i, s0), led, acked, s.log, T)
       /\ \A v \in Node : /\ v # i => s.matchIndex[v] <= acked[T][v]
                          /\ s.nextIndex[v] \in 1 .. Len(s.log) + 1

(* The entries are appended.                                               *)
LEMMA ProposedAt ==
    ASSUME NEW n, NEW i \in Node, NEW s0, NEW s, NodeBase(s),
           NEW cmds \in Seq(Command \cup {NoOp}), Len(cmds) > 0,
           NEW voted, NEW bid, NEW led, NEW acked, Fits(n, i, s0, voted, bid, led, acked),
           Takes(n, i, s0, s, voted, led, acked)
    PROVE  \E led2, acked2 :
             /\ Fits(n, i, Proposed(i, s, cmds), voted, bid, led2, acked2)
             /\ LedGrows(led, led2) /\ AckedGrows(acked, acked2)
<1>. DEFINE a == Proposed(i, s, cmds)
            T == s.currentTerm
            log == s.log
            log2 == a.log
            led2 == [t \in Nat |-> IF t = T THEN log2 ELSE led[t]]
            acked2 == [t \in Nat |-> [v \in Node |-> IF t = T /\ v = i THEN Len(log2)
                                                      ELSE acked[t][v]]]
<1>1. /\ NodeBase(a) /\ SameBallot(s, a)
      /\ a.commitIndex = s.commitIndex /\ a.nextIndex = s.nextIndex /\ a.inflight = s.inflight
      /\ \A j \in Node : a.matchIndex[j] = IF j = i THEN LastIndex(s) + Len(cmds)
                                           ELSE s.matchIndex[j]
      /\ Len(a.log) = Len(s.log) + Len(cmds)
      /\ \A k \in 1..Len(s.log) : a.log[k] = s.log[k]
      /\ \A k \in 1..Len(a.log) : k > Len(s.log) => a.log[k].term = s.currentTerm
  BY SMTT(30), ProposedInv
<1>. HIDE DEF a
<1>2. /\ s \in NodeState /\ a \in NodeState /\ IsLed(led)
  BY <1>1, FitsNode DEF NodeBase
<1>3. /\ T \in Nat /\ log \in Seq(Entry) /\ log2 \in Seq(Entry)
      /\ Len(log) \in Nat /\ Len(log2) \in Nat /\ Len(cmds) \in Nat
  BY <1>2, NodeFields, SeqLength
<1>4. Extends(log, log2, T)
  BY SMTT(30), <1>1, <1>3 DEF Extends, SameUpTo
<1>5. Complete(With(n, i, s0), led, acked, log2, T)
  BY <1>2, <1>3, <1>4, CompleteExtends DEF Takes
<1>6. Only(i, With(n, i, s0), With(n, i, a)) /\ With(n, i, s0)[i] = s0 /\ With(n, i, a)[i] = a
  BY SMTT(30), <1>2, WithOnly
<1>7. Indexes(acked, i, a, log2)
  <2>. SUFFICES ASSUME NEW v \in Node
                PROVE  /\ IF v = i THEN a.matchIndex[v] = Len(log2)
                          ELSE a.matchIndex[v] <= acked[a.currentTerm][v]
                       /\ a.nextIndex[v] \in 1 .. Len(log2) + 1
    BY DEF Indexes
  <2>1. a.currentTerm = T
    BY <1>1 DEF SameBallot
  <2>2. /\ v # i => s.matchIndex[v] <= acked[T][v]
        /\ s.nextIndex[v] \in 1 .. Len(log) + 1
    BY DEF Takes
  <2>. QED
    BY SMTT(30), <1>1, <1>3, <2>1, <2>2 DEF LastIndex
<1>8. FlightOK(voted, led, acked, a)
  BY <1>1 DEF Takes, FlightOK
<1>9. Leads(With(n, i, s0), With(n, i, a), voted, led, acked, i, T, log, log2)
  BY <1>1, <1>4, <1>5, <1>6, <1>7, <1>8 DEF Leads, Takes, SameBallot
<1>10. LedBecomes(led, led2, T, log2)
  BY <1>3 DEF LedBecomes
<1>11. AckedBecomes(acked, acked2, T, i, Len(log2))
  BY <1>3 DEF AckedBecomes
<1>. HIDE DEF led2, acked2
<1>12. Core(With(n, i, s0), voted, bid, led, acked)
  BY DEF Fits
<1>13. Core(With(n, i, a), voted, bid, led2, acked2) /\ LedGrows(led, led2) /\ AckedGrows(acked, acked2)
  BY <1>3, <1>6, <1>9, <1>10, <1>11, <1>12, LeadStep
<1>14. Fits(n, i, a, voted, bid, led2, acked2)
  BY <1>13 DEF Fits
<1>. QED
  BY <1>13, <1>14 DEF a

(* ProposeBatch: they are also sent and, if that is a quorum, committed.   *)
LEMMA ProposeAt ==
    ASSUME NEW n, NEW i \in Node, NEW s0, NEW s, NodeBase(s),
           NEW cmds \in Seq(Command \cup {NoOp}), Len(cmds) > 0, NEW up,
           NEW voted, NEW bid, NEW led, NEW acked, Fits(n, i, s0, voted, bid, led, acked),
           Takes(n, i, s0, s, voted, led, acked)
    PROVE  \E led2, acked2 :
             /\ Fits(n, i, ProposeBatch(i, s, cmds, up), voted, bid, led2, acked2)
             /\ LedGrows(led, led2) /\ AckedGrows(acked, acked2)
<1>. DEFINE a == Proposed(i, s, cmds)
            b == SendAppendEntries(i, a, Node, up)
<1>1. /\ NodeBase(a) /\ SameBallot(s, a)
      /\ ProposeBatch(i, s, cmds, up) = AdvanceCommitIndex(BroadcastAppendEntries(i, a, up))
  BY SMTT(30), ProposedInv
<1>2. PICK led2, acked2 : /\ Fits(n, i, a, voted, bid, led2, acked2)
                          /\ LedGrows(led, led2) /\ AckedGrows(acked, acked2)
  BY ProposedAt
<1>. HIDE DEF a
<1>3. a.state = "LEADER"
  BY <1>1 DEF SameBallot, Takes
<1>4. Fits(n, i, b, voted, bid, led2, acked2)
  BY <1>1, <1>2, <1>3, SendAt
<1>5. NodeBase(b) /\ b.state = "LEADER"
  BY SMTT(30), <1>1, <1>3, SendAppendEntriesInv
<1>6. ProposeBatch(i, s, cmds, up) = AdvanceCommitIndex(b)
  BY <1>1 DEF BroadcastAppendEntries
<1>. HIDE DEF b
<1>7. Fits(n, i, AdvanceCommitIndex(b), voted, bid, led2, acked2)
  BY <1>4, <1>5, AdvanceAt
<1>. QED
  BY <1>2, <1>6, <1>7

(* BecomeLeader of a candidate with the votes of a quorum.                 *)
LEMMA LeaderAt ==
    ASSUME NEW n, NEW i \in Node, NEW s, NodeBase(s), s.state = "CANDIDATE", NEW up,
           Cardinality(s.votes) >= QuorumSize,
           NEW voted, NEW bid, NEW led, NEW acked, Fits(n, i, s, voted, bid, led, acked)
    PROVE  \E led2, acked2 :
             /\ Fits(n, i, BecomeLeader(i, s, up), voted, bid, led2, acked2)
             /\ LedGrows(led, led2) /\ AckedGrows(acked, acked2)
<1>. DEFINE c == Crowned(i, s)
            T == s.currentTerm
<1>1. /\ s \in NodeState /\ NodeOK(voted, bid, led, acked, i, s) /\ IsAcked(acked)
      /\ T \in Nat /\ s.votes \in SUBSET Node /\ Len(s.log) \in Nat
  BY FitsNode, NodeFields
<1>2. /\ NodeBase(c) /\ SameStores(s, c) /\ c.state = "LEADER"
      /\ c.currentTerm = T /\ c.votedFor = s.votedFor
      /\ \A j \in Node : /\ c.matchIndex[j] = IF j = i THEN LastIndex(s) ELSE 0
                         /\ c.inflight[j] = None
                         /\ c.nextIndex[j] = LastIndex(s) + 1
      /\ <<NoOp>> \in Seq(Command \cup {NoOp})
      /\ BecomeLeader(i, s, up) = ProposeBatch(i, c, <<NoOp>>, up)
  BY SMTT(30), CrownedInv
<1>. HIDE DEF c
<1>3. Quorum(s.votes) /\ \A v \in s.votes : voted[v][T] = i
  BY <1>1 DEF Quorum, NodeOK, CandidateOK
<1>. DEFINE w == With(n, i, s)
            Q == s.votes
<1>4. Core(w, voted, bid, led, acked) /\ w[i] = s
  BY DEF Fits, With
<1>5. /\ Elected(voted, i, T) /\ T > 0
      /\ SameUpTo(led[T], s.log, Len(led[T]))
      /\ Complete(With(n, i, s), led, acked, s.log, T)
  <2>1. w[i].state = "CANDIDATE" /\ w[i].currentTerm = T /\ w[i].log = s.log
    BY <1>4
  <2>2. Q \in SUBSET Node /\ Quorum(Q) /\ \A v \in Q : voted[v][T] = i
    BY <1>1, <1>3
  <2>. HIDE DEF w, Q, T
  <2>3. /\ Elected(voted, i, T) /\ T > 0
        /\ SameUpTo(led[T], w[i].log, Len(led[T]))
        /\ Complete(w, led, acked, w[i].log, T)
    BY SMTT(30), <1>1, <1>4, <2>1, <2>2, WinnerComplete
  <2>. QED
    BY <2>1, <2>3 DEF w
<1>6. FlightOK(voted, led, acked, c)
  BY <1>2 DEF FlightOK
<1>7. \A v \in Node : /\ v # i => c.matchIndex[v] <= acked[T][v]
                      /\ c.nextIndex[v] \in 1 .. Len(s.log) + 1
  BY SMTT(30), <1>1, <1>2 DEF IsAcked, LastIndex
<1>8. Takes(n, i, s, c, voted, led, acked)
  BY <1>2, <1>5, <1>6, <1>7 DEF Takes, SameStores
<1>9. <<NoOp>> \in Seq(Command \cup {NoOp}) /\ Len(<<NoOp>>) > 0
  BY SMTT(30)
<1>10. \E led2, acked2 :
         /\ Fits(n, i, ProposeBatch(i, c, <<NoOp>>, up), voted, bid, led2, acked2)
         /\ LedGrows(led, led2) /\ AckedGrows(acked, acked2)
  BY <1>2, <1>8, <1>9, ProposeAt
<1>. QED
  BY <1>2, <1>10

(* ProposeBatch of a leader.                                               *)
LEMMA BatchAt ==
    ASSUME NEW n, NEW i \in Node, NEW s, NodeBase(s), s.state = "LEADER", NEW up,
           NEW cmds \in Seq(Command \cup {NoOp}), Len(cmds) > 0,
           NEW voted, NEW bid, NEW led, NEW acked, Fits(n, i, s, voted, bid, led, acked)
    PROVE  \E led2, acked2 :
             /\ Fits(n, i, ProposeBatch(i, s, cmds, up), voted, bid, led2, acked2)
             /\ LedGrows(led, led2) /\ AckedGrows(acked, acked2)
<1>. DEFINE T == s.currentTerm
<1>1. s \in NodeState /\ NodeOK(voted, bid, led, acked, i, s) /\ T \in Nat
  BY FitsNode, NodeFields
<1>2. Core(With(n, i, s), voted, bid, led, acked) /\ With(n, i, s)[i] = s
  BY DEF Fits, With
<1>3. /\ Elected(voted, i, T) /\ T > 0
      /\ SameUpTo(led[T], s.log, Len(led[T]))
      /\ Complete(With(n, i, s), led, acked, s.log, T)
  BY SMTT(30), <1>1, <1>2, LeaderComplete
<1>4. Takes(n, i, s, s, voted, led, acked)
  BY <1>1, <1>3 DEF Takes, NodeOK, LeaderOK
<1>5. /\ NodeBase(s) /\ i \in Node /\ cmds \in Seq(Command \cup {NoOp}) /\ Len(cmds) > 0
      /\ Fits(n, i, s, voted, bid, led, acked)
  OBVIOUS
<1>. QED
  BY ONLY Zenon, <1>4, <1>5, ProposeAt

(* The term of the last entry.                                             *)
LEMMA LastTermIs ==
    ASSUME NEW s, NodeBase(s)
    PROVE  /\ LastTerm(s) = TermAt(s.log, Len(s.log))
           /\ LastTerm(s) \in 0..s.currentTerm
<1>1. s \in NodeState
  BY DEF NodeBase
<1>2. /\ s.currentTerm \in Nat /\ s.log \in Seq(Entry) /\ Len(s.log) \in Nat
      /\ s.commitIndex \in Nat /\ s.snapshotIndex \in Nat /\ Len(s.kv) \in Nat
  BY <1>1, SeqLength DEF NodeState
<1>3. s.snapshotIndex <= Len(s.log)
  BY SMTT(30), <1>2 DEF NodeBase
<1>4. LastTerm(s) = TermAt(s.log, Len(s.log))
  BY SMTT(30), <1>1, <1>2, <1>3, TermInLog DEF LastTerm, LastIndex
<1>5. Len(s.log) # 0 => s.log[Len(s.log)].term \in 0..s.currentTerm
  <2>. SUFFICES ASSUME Len(s.log) # 0 PROVE s.log[Len(s.log)].term \in 0..s.currentTerm
    OBVIOUS
  <2>1. Len(s.log) \in 1..Len(s.log)
    BY SMTT(30), <1>2
  <2>2. s.log[Len(s.log)].term \in Nat
    BY <1>2, <2>1, EntryHasTerm
  <2>3. s.log[Len(s.log)].term <= s.currentTerm
    BY <2>1 DEF NodeBase
  <2>. QED
    BY SMTT(30), <1>2, <2>2, <2>3
<1>. QED
  BY SMTT(30), <1>2, <1>4, <1>5 DEF TermAt

(* The requests of a campaign name the log it is made with.                *)
LEMMA CampaignExplained ==
    ASSUME NEW n, NEW i \in Node, NEW s, NodeBase(s), NEW up, up \subseteq Node,
           NEW voted, NEW bid, NEW led, NEW acked,
           s.state = "CANDIDATE" => s.currentTerm > 0 /\ bid[i][s.currentTerm] = s.log
    PROVE  \A m \in Campaign(i, s, up) :
               MessageOK(With(n, i, s), voted, bid, led, acked, m)
<1>. TAKE m \in Campaign(i, s, up)
<1>1. PICK j \in up \ {i} : /\ s.state \in {"PRE_CANDIDATE", "CANDIDATE"}
                            /\ m = VoteRequest(i, s, s.state = "PRE_CANDIDATE", j)
  BY DEF Campaign
<1>. DEFINE pre == s.state = "PRE_CANDIDATE"
<1>2. /\ m.type = "RequestVote" /\ m.from = i /\ m.prevote = pre
      /\ m.term = IF pre THEN s.currentTerm + 1 ELSE s.currentTerm
      /\ m.lastLogIndex = Len(s.log) /\ m.lastLogTerm = LastTerm(s)
  BY <1>1 DEF VoteRequest, LastIndex
<1>3. s \in NodeState /\ s.currentTerm \in Nat
  BY NodeFields DEF NodeBase
<1>4. LastTerm(s) = TermAt(s.log, Len(s.log)) /\ LastTerm(s) \in 0..s.currentTerm
  BY LastTermIs
<1>5. m.term > 0 /\ m.lastLogTerm \in 0..m.term
  BY SMTT(30), <1>1, <1>2, <1>3, <1>4
<1>6. With(n, i, s)[i] = s
  BY DEF With
<1>7. CASE pre
  BY <1>2, <1>5, <1>7 DEF MessageOK
<1>8. CASE ~pre
  <2>1. m.term = s.currentTerm /\ bid[i][s.currentTerm] = s.log
    BY <1>1, <1>2, <1>8
  <2>2. m.term <= With(n, i, s)[m.from].currentTerm
    BY SMTT(30), <1>2, <1>3, <1>6, <2>1
  <2>3. /\ m.lastLogIndex = Len(bid[m.from][m.term])
        /\ m.lastLogTerm = TermAt(bid[m.from][m.term], m.lastLogIndex)
    BY <1>2, <1>4, <2>1
  <2>. QED
    BY <1>2, <1>5, <2>2, <2>3 DEF MessageOK
<1>. QED
  BY <1>7, <1>8

(* A node in state s that becomes a candidate.                             *)
Stood(i, s) ==
    [s EXCEPT !.currentTerm = @ + 1, !.votedFor = i,
              !.state = "CANDIDATE", !.leaderId = None, !.votes = {i}]

LEMMA StoodFields ==
    ASSUME NEW i \in Node, NEW s, NodeBase(s)
    PROVE  LET c == Stood(i, s)
           IN /\ NodeBase(c) /\ c.currentTerm = s.currentTerm + 1 /\ c.votedFor = i
              /\ c.state = "CANDIDATE" /\ c.votes = {i} /\ c.log = s.log
              /\ c.commitIndex = s.commitIndex /\ c.inflight = s.inflight
              /\ \A up : BecomeCandidate(i, s, up)
                           = IF QuorumSize = 1 THEN BecomeLeader(i, c, up) ELSE c
<1>. DEFINE c == Stood(i, s)
<1>1. s \in NodeState /\ s.currentTerm \in Nat
  BY NodeFields DEF NodeBase
<1>2. /\ c \in NodeState /\ c.currentTerm = s.currentTerm + 1 /\ c.votedFor = i
      /\ c.state = "CANDIDATE" /\ c.votes = {i} /\ c.inflight = s.inflight
      /\ SameStores(s, c) /\ c.nextIndex = s.nextIndex
  <2>1. s.currentTerm + 1 \in Nat /\ "CANDIDATE" \in State /\ {i} \in SUBSET Node
    BY SMTT(30), <1>1 DEF State
  <2>. QED
    BY <1>1, <2>1 DEF Stood, NodeState, SameStores
<1>3. \A up : BecomeCandidate(i, s, up)
                = IF QuorumSize = 1 THEN BecomeLeader(i, c, up) ELSE c
  BY DEF BecomeCandidate, Stood
<1>. HIDE DEF c
<1>4. c.currentTerm >= s.currentTerm
  BY SMTT(30), <1>1, <1>2
<1>5. NodeBase(c)
  BY <1>2, <1>4, NodeBaseFrame DEF NodeBase
<1>. QED
  BY <1>2, <1>3, <1>5 DEF SameStores, c

(* The candidate votes for itself, with its log.                           *)
LEMMA StoodAt ==
    ASSUME NEW n, NEW i \in Node, NEW s, NodeBase(s), s.currentTerm = n[i].currentTerm,
           NEW voted, NEW bid, NEW led, NEW acked, Fits(n, i, s, voted, bid, led, acked)
    PROVE  \E voted2, bid2 :
             /\ Fits(n, i, Stood(i, s), voted2, bid2, led, acked)
             /\ VotedGrows(voted, voted2)
             /\ bid2[i][s.currentTerm + 1] = s.log
             /\ \A j \in Node, t \in Nat : t <= n[j].currentTerm => bid2[j][t] = bid[j][t]
<1>. DEFINE c == Stood(i, s)
            T == s.currentTerm + 1
            voted2 == [v \in Node |-> [t \in Nat |-> IF v = i /\ t = T THEN i ELSE voted[v][t]]]
            bid2 == [v \in Node |-> [t \in Nat |-> IF v = i /\ t = T THEN s.log ELSE bid[v][t]]]
<1>1. /\ c \in NodeState /\ c.currentTerm = T /\ c.votedFor = i
      /\ c.state = "CANDIDATE" /\ c.votes = {i} /\ c.log = s.log
      /\ c.commitIndex = s.commitIndex /\ c.inflight = s.inflight
  BY SMTT(30), SMTT(20), StoodFields DEF NodeBase
<1>. HIDE DEF c
<1>2. s \in NodeState /\ s.currentTerm \in Nat /\ T \in Nat
  BY SMTT(30), NodeFields DEF NodeBase
<1>3. Only(i, With(n, i, s), With(n, i, c)) /\ With(n, i, s)[i] = s /\ With(n, i, c)[i] = c
  BY SMTT(30), <1>1, WithOnly
<1>4. voted2[i][T] = i /\ bid2[i][T] = s.log
  BY <1>2
<1>5. \A v \in Node, t \in Nat :
        ~(v = i /\ t = T) => voted2[v][t] = voted[v][t] /\ bid2[v][t] = bid[v][t]
  OBVIOUS
<1>. HIDE DEF voted2, bid2
<1>6. Core(With(n, i, s), voted, bid, led, acked)
  BY DEF Fits
<1>7. Core(With(n, i, c), voted2, bid2, led, acked) /\ VotedGrows(voted, voted2)
  <2>. DEFINE a == With(n, i, s)
              b == With(n, i, c)
  <2>1. Stands(a, b, voted, voted2, bid, bid2, i)
    BY SMTT(30), <1>1, <1>3, <1>4, <1>5 DEF Stands
  <2>2. Only(i, a, b) /\ Core(a, voted, bid, led, acked)
    BY <1>3, <1>6
  <2>. HIDE DEF a, b
  <2>3. Core(b, voted2, bid2, led, acked) /\ VotedGrows(voted, voted2)
    BY <2>1, <2>2, CandidateStep
  <2>. QED
    BY <2>3 DEF b
<1>8. Fits(n, i, c, voted2, bid2, led, acked)
  BY <1>7 DEF Fits
<1>9. \A j \in Node, t \in Nat : t <= n[j].currentTerm => bid2[j][t] = bid[j][t]
  BY SMTT(30), <1>2, <1>5
<1>. QED
  BY SMTT(30), <1>4, <1>7, <1>8, <1>9 DEF c

(* BecomeCandidate: with one node, the candidate is leader at once.        *)
LEMMA CandidateAt ==
    ASSUME NEW n, NEW i \in Node, NEW s, NodeBase(s), s.currentTerm = n[i].currentTerm,
           NEW up, up \subseteq Node,
           NEW voted, NEW bid, NEW led, NEW acked, Fits(n, i, s, voted, bid, led, acked)
    PROVE  \E voted2, bid2, led2, acked2 :
             /\ Fits(n, i, BecomeCandidate(i, s, up), voted2, bid2, led2, acked2)
             /\ Later(n, voted, bid, led, acked, voted2, bid2, led2, acked2)
             /\ \A m \in Campaign(i, BecomeCandidate(i, s, up), up) :
                  MessageOK(With(n, i, BecomeCandidate(i, s, up)), voted2, bid2, led2, acked2, m)
<1>. DEFINE c == Stood(i, s)
            t == BecomeCandidate(i, s, up)
<1>1. /\ NodeBase(c) /\ c.currentTerm = s.currentTerm + 1
      /\ c.state = "CANDIDATE" /\ c.votes = {i} /\ c.log = s.log
      /\ t = IF QuorumSize = 1 THEN BecomeLeader(i, c, up) ELSE c
  BY SMTT(30), StoodFields
<1>2. PICK voted2, bid2 :
        /\ Fits(n, i, c, voted2, bid2, led, acked)
        /\ VotedGrows(voted, voted2)
        /\ bid2[i][s.currentTerm + 1] = s.log
        /\ \A j \in Node, x \in Nat : x <= n[j].currentTerm => bid2[j][x] = bid[j][x]
  BY SMTT(30), StoodAt
<1>. HIDE DEF c, t
<1>3. s \in NodeState /\ s.currentTerm \in Nat /\ IsLed(led) /\ IsAcked(acked)
  BY FitsNode, NodeFields
<1>4. CASE QuorumSize = 1
  <2>0. Cardinality({i}) = 1
    BY FitsNode DEF Majorities
  <2>1. Cardinality(c.votes) >= QuorumSize
    BY SMTT(30), <1>1, <1>4, <2>0
  <2>2. t = BecomeLeader(i, c, up)
    BY <1>1, <1>4
  <2>3. \E led2, acked2 :
          /\ Fits(n, i, BecomeLeader(i, c, up), voted2, bid2, led2, acked2)
          /\ LedGrows(led, led2) /\ AckedGrows(acked, acked2)
    BY <1>1, <1>2, <2>1, LeaderAt
  <2>4. PICK led2, acked2 : /\ Fits(n, i, t, voted2, bid2, led2, acked2)
                            /\ LedGrows(led, led2) /\ AckedGrows(acked, acked2)
    BY <2>2, <2>3
  <2>5. NodeBase(t) /\ t.state = "LEADER"
    BY SMTT(30), <1>1, <2>2, BecomeLeaderInv DEF NodeInv
  <2>6. \A m \in Campaign(i, t, up) : MessageOK(With(n, i, t), voted2, bid2, led2, acked2, m)
    <3>1. t.state # "CANDIDATE"
      BY <2>5
    <3>. QED
      BY <2>5, <3>1, CampaignExplained
  <2>7. Later(n, voted, bid, led, acked, voted2, bid2, led2, acked2)
    BY <1>2, <2>4 DEF Later
  <2>. QED
    BY <2>4, <2>6, <2>7 DEF t
<1>5. CASE QuorumSize # 1
  <2>1. t = c
    BY <1>1, <1>5
  <2>2. c.currentTerm > 0 /\ bid2[i][c.currentTerm] = c.log
    BY SMTT(30), <1>1, <1>2, <1>3
  <2>3. \A m \in Campaign(i, c, up) : MessageOK(With(n, i, c), voted2, bid2, led, acked, m)
    BY <1>1, <2>2, CampaignExplained
  <2>4. Later(n, voted, bid, led, acked, voted2, bid2, led, acked)
    BY <1>2, <1>3, GrowsRefl DEF Later
  <2>. QED
    BY <1>2, <2>1, <2>3, <2>4 DEF t
<1>. QED
  BY <1>4, <1>5

(* A restart: what is committed may be forgotten, never more.              *)
LEMMA RecoveredAt ==
    ASSUME NEW n, NEW i \in Node, NEW s, Len(s.kv) <= s.commitIndex,
           NEW voted, NEW bid, NEW led, NEW acked, Fits(n, i, s, voted, bid, led, acked)
    PROVE  Fits(n, i, Recovered(s), voted, bid, led, acked)
<1>. DEFINE f == BecomeFollower(s, s.currentTerm)
            t == Recovered(s)
<1>1. s \in NodeState /\ s.currentTerm \in Nat
  BY FitsNode, NodeFields
<1>2. f \in NodeState /\ SameStores(s, f) /\ f.state = "FOLLOWER"
  <2>1. f \in NodeState /\ SameStores(s, f)
    BY <1>1, BecomeFollowerFields
  <2>2. f.state = "FOLLOWER"
    BY <1>1 DEF BecomeFollower, NodeState
  <2>. QED
    BY <2>1, <2>2
<1>3. Fits(n, i, f, voted, bid, led, acked)
  BY <1>1, FollowerAt
<1>4. t = [f EXCEPT !.commitIndex = Len(s.kv), !.applyTo = 0]
  BY DEF Recovered
<1>. HIDE DEF f, t
<1>5. /\ f.kv \in Seq(Entry) /\ Len(f.kv) \in Nat /\ f.kv = s.kv
      /\ f.commitIndex = s.commitIndex /\ f.commitIndex \in Nat
      /\ f.currentTerm \in Nat /\ f.log \in Seq(Entry)
  BY <1>2, SeqLength DEF NodeState, SameStores
<1>6. t \in NodeState
  BY <1>2, <1>4, <1>5 DEF NodeState
<1>7. /\ t.log = f.log /\ t.currentTerm = f.currentTerm /\ t.votedFor = f.votedFor
      /\ t.state = f.state /\ t.inflight = f.inflight /\ t.commitIndex = Len(f.kv)
  BY <1>2, <1>4, <1>5 DEF NodeState
<1>8. NodeOK(voted, bid, led, acked, i, f) /\ IsLed(led)
  BY <1>3, FitsNode
<1>9. CommitOK(led, acked, f.log, f.currentTerm, f.commitIndex)
  BY <1>8 DEF NodeOK
<1>10. Len(f.kv) <= f.commitIndex
  BY <1>5
<1>11. CommitOK(led, acked, t.log, t.currentTerm, t.commitIndex)
  BY SMTT(30), <1>5, <1>7, <1>8, <1>9, <1>10, CommitLess
<1>12. /\ Moves(f, t) /\ CandidateOK(voted, bid, i, t) /\ LeaderOK(voted, led, acked, i, t)
       /\ FlightOK(voted, led, acked, t)
  <2>1. CandidateOK(voted, bid, i, t) /\ LeaderOK(voted, led, acked, i, t)
    BY <1>2, <1>7 DEF CandidateOK, LeaderOK
  <2>2. FlightOK(voted, led, acked, f)
    BY <1>8 DEF NodeOK
  <2>3. FlightOK(voted, led, acked, t)
    BY <1>7, <2>2 DEF FlightOK
  <2>4. Moves(f, t)
    BY SMTT(30), <1>5, <1>7 DEF Moves
  <2>. QED
    BY <2>1, <2>3, <2>4
<1>13. Fits(n, i, t, voted, bid, led, acked)
  BY <1>3, <1>6, <1>11, <1>12, LocalAt
<1>. QED
  BY <1>13 DEF t

(* c stands in the term of s with a log that is up to date.                *)
MayVoteFor(n, i, s, c, bid) ==
    /\ s.votedFor \in {None, c}
    /\ s.currentTerm <= With(n, i, s)[c].currentTerm
    /\ UpToDate(bid[c][s.currentTerm], s.log)

VotesFor(s, c) == [s EXCEPT !.votedFor = c]

(* The vote for it extends the history.                                    *)
LEMMA VoteAt ==
    ASSUME NEW n, NEW i \in Node, NEW s, NEW c \in Node,
           NEW voted, NEW bid, NEW led, NEW acked, Fits(n, i, s, voted, bid, led, acked),
           MayVoteFor(n, i, s, c, bid)
    PROVE  \E voted2 : /\ Fits(n, i, VotesFor(s, c), voted2, bid, led, acked)
                       /\ VotedGrows(voted, voted2)
<1>. DEFINE t == VotesFor(s, c)
            voted2 == [v \in Node |-> [u \in Nat |-> IF v = i /\ u = s.currentTerm THEN c
                                                     ELSE voted[v][u]]]
<1>1. s \in NodeState /\ s.currentTerm \in Nat
  BY FitsNode, NodeFields
<1>2. /\ t \in NodeState /\ t.votedFor = c
      /\ t.log = s.log /\ t.currentTerm = s.currentTerm
      /\ t.state = s.state /\ t.votes = s.votes
      /\ t.commitIndex = s.commitIndex /\ t.inflight = s.inflight
      /\ t.matchIndex = s.matchIndex /\ t.nextIndex = s.nextIndex
  BY <1>1 DEF NodeState, VotesFor
<1>3. /\ voted2[i][s.currentTerm] = c
      /\ \A v \in Node, u \in Nat :
           ~(v = i /\ u = s.currentTerm) => voted2[v][u] = voted[v][u]
  BY <1>1
<1>. HIDE DEF t, voted2
<1>4. /\ Only(i, With(n, i, s), With(n, i, t))
      /\ With(n, i, s)[i] = s /\ With(n, i, t)[i] = t
  BY <1>2, WithOnly
<1>5. Core(With(n, i, t), voted2, bid, led, acked) /\ VotedGrows(voted, voted2)
  <2>. DEFINE x == With(n, i, s)
              y == With(n, i, t)
  <2>1. /\ Core(x, voted, bid, led, acked) /\ Only(i, x, y) /\ x[i] = s /\ y[i] = t
        /\ s.currentTerm <= x[c].currentTerm
    BY <1>4 DEF Fits, MayVoteFor
  <2>. HIDE DEF x, y
  <2>2. CastsVote(x, y, voted, voted2, bid, i, c)
    BY <1>2, <1>3, <2>1 DEF MayVoteFor, CastsVote
  <2>3. Core(y, voted2, bid, led, acked) /\ VotedGrows(voted, voted2)
    BY <2>1, <2>2, VoteStep
  <2>. QED
    BY <2>3 DEF y
<1>. QED
  BY <1>3, <1>5 DEF Fits, t

(* What IsLogUpToDate compares are the ends of the two logs.               *)
LEMMA UpToDateSeen ==
    ASSUME NEW s, NodeBase(s), NEW b, IsLogUpToDate(s, Len(b), TermAt(b, Len(b)))
    PROVE  UpToDate(b, s.log)
  BY LastTermIs DEF IsLogUpToDate, UpToDate, LastIndex

(* A granted vote is a real one, unless it is a pre-vote.                  *)
LEMMA VoteResponseExplained ==
    ASSUME NEW n, NEW voted, NEW bid, NEW led, NEW acked, NEW i, NEW s, NEW m, NEW granted,
           granted /\ ~m.prevote => voted[i][s.currentTerm] = m.from
    PROVE  MessageOK(n, voted, bid, led, acked, VoteResponse(i, s, m, granted))
  BY DEF MessageOK, VoteResponse

(* A response to a replication request acknowledges no more than the       *)
(* history says.                                                           *)
LEMMA ResponseExplained ==
    ASSUME NEW n, NEW voted, NEW bid, NEW led, NEW acked, NEW m,
           m.type \in {"AppendEntriesResponse", "InstallSnapshotResponse"},
           m.success => AckedIndex(m) <= acked[m.term][m.from]
    PROVE  MessageOK(n, voted, bid, led, acked, m)
  BY DEF MessageOK

Counts(s, v) == [s EXCEPT !.votes = @ \cup {v}]

(* A candidate counts a vote it was given; a pre-candidate any.            *)
LEMMA CountAt ==
    ASSUME NEW n, NEW i \in Node, NEW s, NodeInv(s), NEW v \in Node,
           NEW voted, NEW bid, NEW led, NEW acked, Fits(n, i, s, voted, bid, led, acked),
           s.state = "CANDIDATE" => voted[v][s.currentTerm] = i
    PROVE  LET t == Counts(s, v)
           IN /\ Fits(n, i, t, voted, bid, led, acked) /\ NodeInv(t) /\ NodeBase(t)
              /\ t.currentTerm = s.currentTerm /\ t.state = s.state
<1>. DEFINE t == Counts(s, v)
<1>1. s \in NodeState /\ s.currentTerm \in Nat /\ s.votes \in SUBSET Node
  BY FitsNode, NodeFields
<1>2. t \in NodeState /\ NodeInv(t) /\ NodeBase(t)
  <2>1. s.votes \cup {v} \in SUBSET Node
    BY <1>1
  <2>2. NodeInv(t)
    BY <2>1, ElectionFieldsInv DEF Counts
  <2>. HIDE DEF t
  <2>. QED
    BY <2>2 DEF NodeInv, NodeBase
<1>3. /\ t.votes = s.votes \cup {v}
      /\ t.log = s.log /\ t.currentTerm = s.currentTerm /\ t.votedFor = s.votedFor
      /\ t.state = s.state /\ t.commitIndex = s.commitIndex /\ t.inflight = s.inflight
      /\ t.matchIndex = s.matchIndex /\ t.nextIndex = s.nextIndex
  BY <1>1 DEF NodeState, Counts
<1>. HIDE DEF t
<1>4. NodeOK(voted, bid, led, acked, i, s)
  BY FitsNode
<1>5. CandidateOK(voted, bid, i, t)
  BY <1>3, <1>4 DEF NodeOK, CandidateOK
<1>6. LeaderOK(voted, led, acked, i, t) /\ FlightOK(voted, led, acked, t) /\ Moves(s, t)
  <2>1. LeaderOK(voted, led, acked, i, s) /\ FlightOK(voted, led, acked, s)
    BY <1>4 DEF NodeOK
  <2>2. LeaderOK(voted, led, acked, i, t) /\ FlightOK(voted, led, acked, t)
    BY <1>3, <2>1 DEF LeaderOK, FlightOK
  <2>3. Moves(s, t)
    BY SMTT(30), <1>1, <1>3 DEF Moves
  <2>. QED
    BY <2>2, <2>3
<1>7. CommitOK(led, acked, t.log, t.currentTerm, t.commitIndex)
  BY <1>3, <1>4 DEF NodeOK
<1>8. Fits(n, i, t, voted, bid, led, acked)
  BY <1>2, <1>5, <1>6, <1>7, LocalAt
<1>. QED
  BY <1>2, <1>3, <1>8 DEF t

-----------------------------------------------------------------------------
(* Replication: the log of a node that follows a leader.                   *)

(* A node that agrees with its leader's log up to a commit index the       *)
(* leader announced may commit as far.                                     *)
LEMMA KnownCommits ==
    ASSUME NEW n, NEW voted, NEW bid, NEW led, NEW acked, Core(n, voted, bid, led, acked),
           NEW log \in Seq(Entry), NEW T \in Nat, led[T] # <<>>, NEW k \in Nat, NEW c \in Nat,
           c <= k, KnownBy(led, acked, T, k), SameUpTo(led[T], log, c)
    PROVE  CommitOK(led, acked, log, T, c)
<1>1. PICK u \in 0..T : \E l \in Nat : l >= k /\ Committed(led, acked, u, l)
  BY DEF KnownBy
<1>2. PICK l \in Nat : l >= k /\ Committed(led, acked, u, l)
  BY <1>1
<1>3. IsLed(led) /\ u \in Nat /\ T >= u /\ l >= c
  BY SMTT(30), <1>2 DEF Core, Types
<1>4. led[u] \in Seq(Entry) /\ led[T] \in Seq(Entry)
  BY <1>3 DEF IsLed
<1>5. SameUpTo(led[u], led[T], l)
  BY <1>2, <1>3, CommittedStays
<1>6. SameUpTo(led[u], led[T], c)
  BY <1>3, <1>4, <1>5, SameLess
<1>7. SameUpTo(led[u], log, c)
  BY <1>6, SameTrans
<1>. QED
  BY <1>2, <1>3, <1>7 DEF CommitOK

(* A request, and what it meets in a log: the log of s is made of the logs *)
(* of leaders and holds what is committed of the sender's.                 *)
Meets(led, s, m) ==
    /\ IsLed(led) /\ Faithful(led, s.log) /\ Faithful(led, led[m.term])
    /\ NodeBase(s) /\ SameUpTo(led[m.term], s.log, s.commitIndex)
    /\ m \in AppendEntriesMsg /\ ValidAppendEntries(m) /\ led[m.term] # <<>>
    /\ m.prevLogIndex + Len(m.entries) <= Len(led[m.term])
    /\ m.prevLogTerm = TermAt(led[m.term], m.prevLogIndex)
    /\ \A x \in 1..Len(m.entries) : m.entries[x] = led[m.term][m.prevLogIndex + x]

(* The types behind it.                                                    *)
LEMMA MeetsTypes ==
    ASSUME NEW led, NEW s, NEW m, Meets(led, s, m)
    PROVE  /\ s \in NodeState /\ s.log \in Seq(Entry) /\ Len(s.log) \in Nat
           /\ s.commitIndex \in Nat /\ s.snapshotIndex \in Nat
           /\ s.snapshotIndex <= s.commitIndex /\ s.commitIndex <= Len(s.log)
           /\ m.term \in Nat /\ m.prevLogIndex \in Nat /\ m.entries \in Seq(Entry)
           /\ Len(m.entries) \in Nat
           /\ led[m.term] \in Seq(Entry) /\ Len(led[m.term]) \in Nat
<1>1. NodeBase(s) /\ m \in AppendEntriesMsg /\ IsLed(led)
  BY DEF Meets
<1>2. s \in NodeState
  BY <1>1 DEF NodeBase
<1>3. /\ s.log \in Seq(Entry) /\ s.commitIndex \in Nat /\ s.snapshotIndex \in Nat
      /\ s.kv \in Seq(Entry)
  BY <1>2 DEF NodeState
<1>4. s.snapshotIndex <= s.commitIndex /\ s.commitIndex <= Len(s.log) /\ Len(s.log) \in Nat
  BY SMTT(30), <1>1, <1>3 DEF NodeBase
<1>5. m.term \in Nat /\ m.prevLogIndex \in Nat /\ m.entries \in Seq(Entry)
  BY <1>1 DEF AppendEntriesMsg
<1>6. led[m.term] \in Seq(Entry)
  BY <1>1, <1>5 DEF IsLed
<1>. QED
  BY SMTT(30), <1>2, <1>3, <1>4, <1>5, <1>6

(* A request whose prefix check passes continues a piece of the leader's   *)
(* log.                                                                    *)
LEMMA PrefixAgrees ==
    ASSUME NEW led, NEW s, NEW m, Meets(led, s, m), PrefixMatches(s, m)
    PROVE  SameUpTo(led[m.term], s.log, m.prevLogIndex)
<1>. DEFINE L == led[m.term]
            p == m.prevLogIndex
<1>1. /\ s \in NodeState /\ s.log \in Seq(Entry) /\ Len(s.log) \in Nat /\ p \in Nat
      /\ L \in Seq(Entry) /\ Len(L) \in Nat /\ Len(m.entries) \in Nat
  BY MeetsTypes
<1>2. /\ IsLed(led) /\ Faithful(led, s.log) /\ Faithful(led, L) /\ p + Len(m.entries) <= Len(L)
      /\ m.prevLogTerm = TermAt(L, p) /\ m \in AppendEntriesMsg /\ ValidAppendEntries(m)
  BY DEF Meets
<1>3. m.prevLogTerm # -1 /\ GetTerm(s, p) = m.prevLogTerm
  BY <1>2, EntriesValid DEF PrefixMatches
<1>4. GetTerm(s, p) = TermAt(s.log, p) /\ p <= Len(s.log) /\ p <= Len(L)
  BY SMTT(30), <1>1, <1>2, <1>3, TermReported
<1>5. CASE p = 0
  BY SMTT(30), <1>1, <1>5 DEF SameUpTo
<1>6. CASE p # 0
  <2>1. p \in 1..Len(s.log) /\ p \in 1..Len(L) /\ s.log[p].term = L[p].term
    BY SMTT(30), <1>1, <1>2, <1>3, <1>4, <1>6 DEF TermAt
  <2>. HIDE DEF L, p
  <2>2. SameUpTo(L, s.log, p)
    BY <1>1, <1>2, <2>1, TermDecides
  <2>. QED
    BY <2>2 DEF L, p
<1>. QED
  BY <1>5, <1>6

(* An index of the request that is no conflict agrees with the leader.     *)
LEMMA UnopposedAgrees ==
    ASSUME NEW led, NEW s, NEW m, Meets(led, s, m),
           NEW k \in Nat, k > m.prevLogIndex, k <= m.prevLogIndex + Len(m.entries),
           k <= Len(s.log), k \notin Conflicts(s, m)
    PROVE  SameUpTo(led[m.term], s.log, k)
<1>. DEFINE L == led[m.term]
            p == m.prevLogIndex
<1>1. /\ s \in NodeState /\ s.log \in Seq(Entry) /\ Len(s.log) \in Nat /\ p \in Nat
      /\ L \in Seq(Entry) /\ Len(L) \in Nat /\ Len(m.entries) \in Nat
      /\ s.commitIndex \in Nat /\ s.snapshotIndex \in Nat /\ s.snapshotIndex <= s.commitIndex
  BY MeetsTypes
<1>2. /\ IsLed(led) /\ Faithful(led, s.log) /\ Faithful(led, L) /\ p + Len(m.entries) <= Len(L)
      /\ SameUpTo(L, s.log, s.commitIndex)
      /\ \A x \in 1..Len(m.entries) : m.entries[x] = L[p + x]
  BY DEF Meets
<1>3. GetTerm(s, k) \in {-1, m.entries[k - p].term}
  BY SMTT(30), <1>1 DEF Conflicts
<1>4. m.entries[k - p] = L[k] /\ k \in 1..Len(L) /\ k \in 1..Len(s.log)
  <2>1. k - p \in 1..Len(m.entries) /\ p + (k - p) = k
    BY SMTT(30), <1>1
  <2>2. m.entries[k - p] = L[k]
    BY <1>2, <2>1
  <2>. QED
    BY SMTT(30), <1>1, <1>2, <2>1, <2>2
<1>. HIDE DEF L, p
<1>5. CASE k < s.snapshotIndex
  <2>1. k <= s.commitIndex
    BY SMTT(30), <1>1, <1>5
  <2>2. SameUpTo(L, s.log, k)
    BY <1>1, <1>2, <2>1, SameLess
  <2>. QED
    BY <2>2 DEF L
<1>6. CASE ~(k < s.snapshotIndex)
  <2>1. GetTerm(s, k) = s.log[k].term /\ s.log[k].term # -1
    BY SMTT(30), <1>1, <1>4, <1>6, EntryTerm DEF GetTerm, LastIndex
  <2>2. s.log[k].term = L[k].term
    BY <1>3, <1>4, <2>1
  <2>3. SameUpTo(L, s.log, k)
    BY <1>1, <1>2, <1>4, <2>2, TermDecides
  <2>. QED
    BY <2>3 DEF L
<1>. QED
  BY <1>5, <1>6

(* A conflict contradicts the leader's log, and nothing committed.         *)
LEMMA ConflictDiffers ==
    ASSUME NEW led, NEW s, NEW m, Meets(led, s, m), NEW c \in Conflicts(s, m)
    PROVE  /\ c \in Nat /\ c > m.prevLogIndex /\ c <= m.prevLogIndex + Len(m.entries)
           /\ c <= Len(s.log)
           /\ \A k \in Nat : SameUpTo(led[m.term], s.log, k) => k < c
<1>. DEFINE L == led[m.term]
            p == m.prevLogIndex
<1>1. /\ s \in NodeState /\ s.log \in Seq(Entry) /\ Len(s.log) \in Nat /\ p \in Nat
      /\ L \in Seq(Entry) /\ Len(L) \in Nat /\ Len(m.entries) \in Nat
  BY MeetsTypes
<1>2. \A x \in 1..Len(m.entries) : m.entries[x] = L[p + x]
  BY DEF Meets
<1>3. /\ c \in Nat /\ c > p /\ c <= p + Len(m.entries)
      /\ GetTerm(s, c) # -1 /\ GetTerm(s, c) # m.entries[c - p].term
  BY SMTT(30), <1>1 DEF Conflicts
<1>4. c <= Len(s.log) /\ GetTerm(s, c) = s.log[c].term
  BY SMTT(30), <1>1, <1>3, TermReported DEF TermAt
<1>5. m.entries[c - p] = L[c]
  <2>1. c - p \in 1..Len(m.entries) /\ p + (c - p) = c
    BY SMTT(30), <1>1, <1>3
  <2>. QED
    BY <1>2, <2>1
<1>6. s.log[c] # L[c]
  BY <1>3, <1>4, <1>5
<1>7. ASSUME NEW k \in Nat, SameUpTo(L, s.log, k) PROVE k < c
  BY SMTT(30), <1>1, <1>3, <1>6, <1>7 DEF SameUpTo
<1>. QED
  BY <1>3, <1>4, <1>7

(* TruncateSuffix at the first conflict leaves what agrees with the leader.*)
LEMMA TruncatedAgrees ==
    ASSUME NEW led, NEW s, NEW m, Meets(led, s, m), PrefixMatches(s, m), Conflicts(s, m) # {}
    PROVE  LET log == Truncated(s, m)
           IN /\ log \in Seq(Entry) /\ Follows(led, m.term, s.log, log)
              /\ m.prevLogIndex <= Len(log) /\ Len(log) <= m.prevLogIndex + Len(m.entries)
<1>. DEFINE L == led[m.term]
            p == m.prevLogIndex
            c == Min(Conflicts(s, m))
            log == Truncated(s, m)
<1>1. /\ s.log \in Seq(Entry) /\ Len(s.log) \in Nat /\ p \in Nat
      /\ L \in Seq(Entry) /\ Len(L) \in Nat /\ Len(m.entries) \in Nat /\ L # <<>>
  BY MeetsTypes DEF Meets
<1>2. Conflicts(s, m) \in SUBSET Nat
  BY SMTT(30), <1>1 DEF Conflicts
<1>3. c \in Conflicts(s, m) /\ \A k \in Conflicts(s, m) : c <= k
  BY <1>2 DEF WellOrdered, Meets, NodeBase
<1>4. /\ c \in Nat /\ c > p /\ c <= p + Len(m.entries) /\ c <= Len(s.log)
      /\ \A k \in Nat : SameUpTo(L, s.log, k) => k < c
  BY <1>3, ConflictDiffers
<1>5. log = SubSeq(s.log, 1, c - 1)
  BY DEF Truncated
<1>. HIDE DEF c, log
<1>6. SameUpTo(L, s.log, c - 1)
  <2>1. CASE c - 1 = p
    BY <2>1, PrefixAgrees
  <2>2. CASE c - 1 # p
    <3>1. /\ c - 1 \in Nat /\ c - 1 > p /\ c - 1 <= p + Len(m.entries) /\ c - 1 <= Len(s.log)
          /\ ~(c <= c - 1)
      BY SMTT(30), <1>1, <1>4, <2>2
    <3>2. c - 1 \notin Conflicts(s, m)
      BY <1>3, <3>1
    <3>. QED
      BY <3>1, <3>2, UnopposedAgrees
  <2>. QED
    BY <2>1, <2>2
<1>7. /\ log \in Seq(Entry) /\ Len(log) = c - 1 /\ \A k \in 1 .. c - 1 : log[k] = s.log[k]
  <2>1. c - 1 \in Nat /\ c - 1 <= Len(s.log) /\ 1 \in Nat \ {0}
    BY SMTT(30), <1>1, <1>4
  <2>2. /\ log \in Seq(Entry) /\ Len(log) = IF 1 <= c - 1 THEN (c - 1) - 1 + 1 ELSE 0
        /\ \A k \in 1 .. (c - 1) - 1 + 1 : log[k] = s.log[1 + k - 1]
    BY SMTT(30), <1>1, <1>5, <2>1, LogPart
  <2>. QED
    BY SMTT(30), <1>1, <1>4, <2>2
<1>8. SameUpTo(L, log, Len(log))
  <2>. HIDE DEF L
  <2>1. c - 1 <= Len(L) /\ \A k \in 1 .. c - 1 : L[k] = s.log[k]
    BY <1>6 DEF SameUpTo
  <2>2. Len(log) <= Len(L) /\ Len(log) <= Len(log) /\ \A k \in 1..Len(log) : L[k] = log[k]
    BY SMTT(30), <1>1, <1>4, <1>7, <2>1
  <2>. QED
    BY <2>2 DEF SameUpTo
<1>9. \A k \in Nat : SameUpTo(L, s.log, k) => k <= Len(log)
  BY SMTT(30), <1>4, <1>7
<1>10. Follows(led, m.term, s.log, log)
  BY <1>1, <1>8, <1>9 DEF Follows
<1>11. p <= Len(log) /\ Len(log) <= p + Len(m.entries)
  BY SMTT(30), <1>1, <1>4, <1>7
<1>. QED
  BY <1>7, <1>10, <1>11 DEF log

(* AppendBatch after a log that agrees with the leader, and ends inside    *)
(* the request, extends it by the leader's entries.                        *)
LEMMA AppendedTo ==
    ASSUME NEW led, NEW s, NEW m, Meets(led, s, m), NEW kept \in Seq(Entry),
           SameUpTo(led[m.term], kept, Len(kept)), m.prevLogIndex <= Len(kept),
           Len(kept) <= m.prevLogIndex + Len(m.entries)
    PROVE  LET log == kept \o SubSeq(m.entries, Len(kept) - m.prevLogIndex + 1, Len(m.entries))
           IN /\ log \in Seq(Entry) /\ Len(log) = m.prevLogIndex + Len(m.entries)
              /\ SameUpTo(led[m.term], log, Len(log))
<1>. DEFINE L == led[m.term]
            p == m.prevLogIndex
            E == Len(m.entries)
            from == Len(kept) - p + 1
            entries == m.entries
            more == SubSeq(entries, from, E)
            log == kept \o more
<1>1. p \in Nat /\ entries \in Seq(Entry) /\ L \in Seq(Entry) /\ Len(L) \in Nat /\ E \in Nat
  BY MeetsTypes
<1>2. p + E <= Len(L) /\ \A x \in 1..E : entries[x] = L[p + x]
  BY DEF Meets
<1>3. /\ Len(kept) \in Nat /\ from \in Nat \ {0} /\ from <= E + 1
      /\ from = Len(kept) - p + 1 /\ E <= Len(entries)
  BY SMTT(30), <1>1
<1>. HIDE DEF from, E, entries
<1>4. /\ more \in Seq(Entry) /\ Len(more) = IF from <= E THEN E - from + 1 ELSE 0
      /\ \A k \in 1 .. E - from + 1 : more[k] = entries[from + k - 1]
  BY SMTT(20), <1>1, <1>3, LogPart
<1>. HIDE DEF more, L, p
<1>5. /\ log \in Seq(Entry) /\ Len(log) = Len(kept) + Len(more)
      /\ \A k \in 1..Len(kept) : log[k] = kept[k]
      /\ \A k \in 1 .. Len(kept) + Len(more) : k > Len(kept) =>
           k - Len(kept) \in 1..Len(more) /\ log[k] = more[k - Len(kept)]
  BY <1>4, Grown
<1>. HIDE DEF log
<1>6. Len(more) = E - from + 1 /\ Len(log) = p + E
  <2>1. Len(more) = E - from + 1
    <3>1. from \in Nat /\ from <= E + 1 /\ E \in Nat
      BY <1>1, <1>3
    <3>2. Len(more) = IF from <= E THEN E - from + 1 ELSE 0
      BY <1>4
    <3>3. CASE from <= E
      BY <3>2, <3>3
    <3>4. CASE ~(from <= E)
      <4>1. from = E + 1
        BY SMTT(30), <3>1, <3>4
      <4>2. Len(more) = 0
        BY <3>2, <3>4
      <4>. QED
        BY SMTT(30), <3>1, <4>1, <4>2
    <3>. QED
      BY <3>3, <3>4
  <2>2. Len(log) = Len(kept) + Len(more)
    BY <1>5
  <2>. QED
    BY SMTT(30), <1>1, <1>3, <2>1, <2>2
<1>7. ASSUME NEW k \in 1..Len(log) PROVE L[k] = log[k]
  <2>1. CASE k <= Len(kept)
    <3>1. k \in 1..Len(kept)
      BY SMTT(30), <1>3, <1>6, <1>1, <2>1
    <3>. QED
      BY <1>5, <3>1 DEF SameUpTo, L
  <2>2. CASE k > Len(kept)
    <3>1. k - Len(kept) \in 1..Len(more) /\ log[k] = more[k - Len(kept)]
      <4>1. k \in 1 .. Len(kept) + Len(more)
        BY <1>5
      <4>. QED
        BY <1>5, <2>2, <4>1
    <3>2. from + (k - Len(kept)) - 1 = k - p /\ k - p \in 1..E /\ p + (k - p) = k
      BY SMTT(30), <1>1, <1>3, <1>6, <3>1
    <3>3. more[k - Len(kept)] = entries[k - p]
      BY <1>4, <1>6, <3>1, <3>2
    <3>4. entries[k - p] = L[k]
      BY <1>2, <3>2
    <3>. QED
      BY <3>1, <3>3, <3>4
  <2>. QED
    BY SMTT(30), <1>1, <1>3, <1>6, <2>1, <2>2
<1>8. SameUpTo(L, log, Len(log))
  <2>1. Len(log) <= Len(L) /\ Len(log) <= Len(log)
    BY SMTT(30), <1>1, <1>2, <1>6
  <2>. QED
    BY <1>7, <2>1 DEF SameUpTo
<1>9. log \in Seq(Entry) /\ Len(log) = p + E
  BY <1>5, <1>6
<1>. QED
  BY <1>8, <1>9 DEF log, more, from, entries, E, L, p

(* What HandleAppendEntries makes of a log: nothing new, or a piece of the *)
(* leader's log that keeps all that agreed with it; either way the log     *)
(* holds the request.                                                      *)
LEMMA AppendedAgrees ==
    ASSUME NEW led, NEW s, NEW m, Meets(led, s, m), PrefixMatches(s, m)
    PROVE  LET log == Appended(s, m)
           IN /\ log \in Seq(Entry)
              /\ log = s.log \/ Follows(led, m.term, s.log, log)
              /\ SameUpTo(led[m.term], log, m.prevLogIndex + Len(m.entries))
<1>. DEFINE L == led[m.term]
            p == m.prevLogIndex
            E == Len(m.entries)
            kept == Truncated(s, m)
            log == kept \o SubSeq(m.entries, Len(kept) - p + 1, E)
<1>1. /\ s.log \in Seq(Entry) /\ Len(s.log) \in Nat /\ p \in Nat /\ m.entries \in Seq(Entry)
      /\ L \in Seq(Entry) /\ Len(L) \in Nat /\ E \in Nat /\ L # <<>>
  BY MeetsTypes DEF Meets
<1>2. Appended(s, m) = log
  BY DEF Appended
<1>3. SameUpTo(L, s.log, p)
  BY PrefixAgrees
<1>4. p <= Len(s.log)
  BY <1>3 DEF SameUpTo
<1>5. CASE Conflicts(s, m) # {}
  <2>1. /\ kept \in Seq(Entry) /\ Follows(led, m.term, s.log, kept)
        /\ p <= Len(kept) /\ Len(kept) <= p + E
    BY <1>5, TruncatedAgrees
  <2>2. /\ SameUpTo(L, kept, Len(kept)) /\ Len(kept) \in Nat
        /\ \A k \in Nat : SameUpTo(L, s.log, k) => k <= Len(kept)
    BY SMTT(30), <2>1 DEF Follows
  <2>. HIDE DEF kept
  <2>3. log \in Seq(Entry) /\ Len(log) = p + E /\ SameUpTo(L, log, Len(log))
    BY <2>1, <2>2, AppendedTo
  <2>. HIDE DEF log
  <2>4. \A k \in Nat : SameUpTo(L, s.log, k) => k <= Len(log)
    BY SMTT(30), <1>1, <2>1, <2>2, <2>3
  <2>5. Follows(led, m.term, s.log, log)
    BY <1>1, <2>3, <2>4 DEF Follows
  <2>. QED
    BY <1>2, <2>3, <2>5
<1>6. CASE Conflicts(s, m) = {} /\ Len(s.log) < p + E
  <2>1. kept = s.log
    BY <1>6 DEF Truncated
  <2>2. SameUpTo(L, s.log, Len(s.log))
    <3>1. CASE Len(s.log) = p
      BY <1>3, <3>1
    <3>2. CASE Len(s.log) # p
      <4>1. Len(s.log) > p /\ Len(s.log) <= p + E /\ Len(s.log) \notin Conflicts(s, m)
        BY SMTT(30), <1>1, <1>4, <1>6, <3>2
      <4>. QED
        BY SMTT(30), <1>1, <4>1, UnopposedAgrees
    <3>. QED
      BY <3>1, <3>2
  <2>3. Len(s.log) <= p + E
    BY SMTT(30), <1>1, <1>6
  <2>. HIDE DEF kept
  <2>4. log \in Seq(Entry) /\ Len(log) = p + E /\ SameUpTo(L, log, Len(log))
    BY <1>1, <1>4, <2>1, <2>2, <2>3, AppendedTo
  <2>. HIDE DEF log
  <2>5. \A k \in Nat : SameUpTo(L, s.log, k) => k <= Len(log)
    BY SMTT(30), <1>1, <1>6, <2>4 DEF SameUpTo
  <2>6. Follows(led, m.term, s.log, log)
    BY <1>1, <2>4, <2>5 DEF Follows
  <2>. QED
    BY <1>2, <2>4, <2>6
<1>7. CASE Conflicts(s, m) = {} /\ Len(s.log) >= p + E
  <2>1. kept = s.log
    BY <1>7 DEF Truncated
  <2>2. SubSeq(m.entries, Len(kept) - p + 1, E) = <<>>
    <3>1. Len(kept) - p + 1 > E /\ Len(kept) - p + 1 \in Nat \ {0}
      BY SMTT(30), <1>1, <1>4, <1>7, <2>1
    <3>. QED
      BY SMTT(30), <1>1, <3>1, LogPart
  <2>3. log = s.log
    <3>1. log = s.log \o <<>> /\ s.log \in Seq(Entry)
      BY <1>1, <2>1, <2>2
    <3>. QED
      BY <3>1, ConcatEmpty
  <2>4. SameUpTo(L, s.log, p + E)
    <3>1. CASE E = 0
      BY SMTT(30), <1>1, <1>3, <3>1
    <3>2. CASE E # 0
      <4>1. p + E \in Nat /\ p + E > p /\ p + E <= Len(s.log) /\ p + E \notin Conflicts(s, m)
        BY SMTT(30), <1>1, <1>7, <3>2
      <4>. QED
        BY SMTT(30), <1>1, <4>1, UnopposedAgrees
    <3>. QED
      BY <3>1, <3>2
  <2>. QED
    BY <1>1, <1>2, <2>3, <2>4
<1>. QED
  BY SMTT(30), <1>1, <1>5, <1>6, <1>7

(* The log of a node that heard from its leader and has what is committed. *)
LEMMA MeetsAt ==
    ASSUME NEW n, NEW i \in Node, NEW s, NodeBase(s), NEW m \in AppendEntriesMsg,
           m.type = "AppendEntries", ValidAppendEntries(m), m.term >= s.currentTerm,
           NEW voted, NEW bid, NEW led, NEW acked, Fits(n, i, s, voted, bid, led, acked),
           RequestOK(voted, led, acked, m)
    PROVE  Meets(led, s, m)
<1>1. /\ s \in NodeState /\ NodeOK(voted, bid, led, acked, i, s) /\ IsLed(led)
      /\ Logs(bid, led)
  BY FitsNode
<1>2. /\ s.log \in Seq(Entry) /\ s.currentTerm \in Nat /\ s.commitIndex \in Nat
      /\ m.term \in Nat
  BY <1>1, NodeFields DEF AppendEntriesMsg
<1>3. /\ led[m.term] # <<>> /\ m.prevLogIndex + Len(m.entries) <= Len(led[m.term])
      /\ m.prevLogTerm = TermAt(led[m.term], m.prevLogIndex)
      /\ \A x \in 1..Len(m.entries) : m.entries[x] = led[m.term][m.prevLogIndex + x]
  BY DEF RequestOK
<1>4. Faithful(led, s.log) /\ Faithful(led, led[m.term])
  BY <1>1, <1>2 DEF NodeOK, LogOK, Logs
<1>5. CommitOK(led, acked, s.log, m.term, s.commitIndex)
  <2>1. CommitOK(led, acked, s.log, s.currentTerm, s.commitIndex)
    BY <1>1 DEF NodeOK
  <2>2. s.currentTerm <= m.term /\ s.commitIndex <= s.commitIndex
    BY SMTT(30), <1>2
  <2>. QED
    BY <1>1, <1>2, <2>1, <2>2, CommitLess
<1>6. Core(With(n, i, s), voted, bid, led, acked)
  BY DEF Fits
<1>7. SameUpTo(led[m.term], s.log, s.commitIndex)
  BY <1>2, <1>3, <1>5, <1>6, CommitInLed
<1>. QED
  BY <1>1, <1>3, <1>4, <1>7 DEF Meets

(* A follower or candidate takes over a piece of its leader's log.         *)
LEMMA RelogAt ==
    ASSUME NEW n, NEW i \in Node, NEW s, s.state # "LEADER", NEW log \in Seq(Entry),
           NEW voted, NEW bid, NEW led, NEW acked, Fits(n, i, s, voted, bid, led, acked),
           log = s.log \/ Follows(led, s.currentTerm, s.log, log)
    PROVE  Fits(n, i, Relogged(s, log), voted, bid, led, acked)
<1>. DEFINE t == Relogged(s, log)
            n1 == With(n, i, s)
            n2 == With(n, i, t)
<1>1. s \in NodeState /\ s.currentTerm \in Nat
  BY FitsNode, NodeFields
<1>2. /\ t \in NodeState /\ t.log = log /\ t.commitIndex = s.commitIndex /\ SameElection(s, t)
      /\ t.nextIndex = s.nextIndex /\ t.matchIndex = s.matchIndex
  BY <1>1, ReloggedFields
<1>. HIDE DEF t
<1>3. /\ t.currentTerm = s.currentTerm /\ t.votedFor = s.votedFor /\ t.state = s.state
      /\ t.votes = s.votes /\ t.inflight = s.inflight
  BY <1>2 DEF SameElection
<1>4. CASE log = s.log
  <2>1. Fits(n, i, t, voted, bid, led, acked)
    BY <1>2, <1>3, <1>4, FrameAt
  <2>. QED
    BY <2>1 DEF t
<1>5. CASE Follows(led, s.currentTerm, s.log, log)
  <2>1. Only(i, n1, n2) /\ n1[i] = s /\ n2[i] = t
    BY SMTT(30), <1>2, WithOnly
  <2>2. Core(n1, voted, bid, led, acked)
    BY DEF Fits
  <2>. HIDE DEF n1, n2
  <2>3. Follows(led, s.currentTerm, n1[i].log, n2[i].log)
    BY <1>2, <1>5, <2>1
  <2>4. Core(n2, voted, bid, led, acked)
    BY <1>1, <1>2, <1>3, <2>1, <2>2, <2>3, FollowStep
  <2>. QED
    BY <2>4 DEF Fits, n2, t
<1>. QED
  BY <1>4, <1>5

(* A node learns of a commit index.                                        *)
LEMMA CommitAt ==
    ASSUME NEW n, NEW i \in Node, NEW s, NEW t \in NodeState,
           NEW voted, NEW bid, NEW led, NEW acked, Fits(n, i, s, voted, bid, led, acked),
           t.log = s.log, SameElection(s, t),
           t.nextIndex = s.nextIndex, t.matchIndex = s.matchIndex,
           CommitOK(led, acked, s.log, s.currentTerm, t.commitIndex)
    PROVE  Fits(n, i, t, voted, bid, led, acked)
<1>1. NodeOK(voted, bid, led, acked, i, s) /\ s.currentTerm \in Nat
  BY FitsNode, NodeFields
<1>2. Moves(s, t)
  BY SMTT(30), <1>1 DEF Moves, SameElection
<1>3. /\ CandidateOK(voted, bid, i, t) /\ LeaderOK(voted, led, acked, i, t)
      /\ FlightOK(voted, led, acked, t)
  BY <1>1 DEF NodeOK, CandidateOK, LeaderOK, FlightOK, SameElection
<1>4. CommitOK(led, acked, t.log, t.currentTerm, t.commitIndex)
  BY DEF SameElection
<1>. QED
  BY <1>2, <1>3, <1>4, LocalAt

(* A node acknowledges e entries of its leader's log.                      *)
LEMMA AckAt ==
    ASSUME NEW n, NEW i \in Node, NEW s, NEW e \in Nat,
           NEW voted, NEW bid, NEW led, NEW acked, Fits(n, i, s, voted, bid, led, acked),
           SameUpTo(led[s.currentTerm], s.log, e)
    PROVE  \E acked2 : /\ Fits(n, i, s, voted, bid, led, acked2) /\ AckedGrows(acked, acked2)
                       /\ e <= acked2[s.currentTerm][i]
<1>. DEFINE T == s.currentTerm
            n1 == With(n, i, s)
            k == Larger(acked[T][i], e)
            acked2 == [u \in Nat |-> [w \in Node |-> IF u = T /\ w = i THEN k ELSE acked[u][w]]]
<1>1. s \in NodeState /\ T \in Nat
  BY FitsNode, NodeFields
<1>2. Core(n1, voted, bid, led, acked)
  BY DEF Fits
<1>3. n1[i] = s
  BY DEF With
<1>4. AckedBecomes(acked, acked2, T, i, k)
  BY <1>1 DEF AckedBecomes
<1>. HIDE DEF n1, acked2, T
<1>5. n1[i].currentTerm = T /\ SameUpTo(led[T], n1[i].log, e)
  BY <1>3 DEF T
<1>6. /\ Core(n1, voted, bid, led, acked2) /\ AckedGrows(acked, acked2) /\ e <= acked2[T][i]
  BY <1>1, <1>2, <1>4, <1>5, AckStep
<1>. QED
  BY <1>6 DEF Fits, n1, T

(* A node that hears from a leader follows it, in the leader's term.       *)
LEMMA HearsAt ==
    ASSUME NEW n, NEW i \in Node, NEW s, NodeInv(s), NEW m, m.term \in Nat, m.from \in Node,
           NEW h, Hears(s, m, h),
           NEW voted, NEW bid, NEW led, NEW acked, Fits(n, i, s, voted, bid, led, acked)
    PROVE  Fits(n, i, h, voted, bid, led, acked)
<1>1. PICK steps \in BOOLEAN : h = Heard(s, m, steps)
  BY DEF Hears
<1>. DEFINE f == IF steps THEN BecomeFollower(s, m.term) ELSE s
<1>2. Fits(n, i, f, voted, bid, led, acked)
  BY FollowerAt
<1>3. h = [f EXCEPT !.leaderId = m.from] /\ h \in NodeState
  BY <1>1, HearsInv DEF Heard
<1>4. f \in NodeState
  BY <1>2, FitsNode
<1>. HIDE DEF f
<1>5. /\ h.log = f.log /\ h.currentTerm = f.currentTerm /\ h.votedFor = f.votedFor
      /\ h.state = f.state /\ h.votes = f.votes /\ h.commitIndex = f.commitIndex
      /\ h.nextIndex = f.nextIndex /\ h.matchIndex = f.matchIndex /\ h.inflight = f.inflight
  BY <1>3, <1>4 DEF NodeState
<1>. QED
  BY <1>2, <1>3, <1>5, FrameAt

(* AcceptEntries.                                                          *)
LEMMA AcceptAt ==
    ASSUME NEW n, NEW i \in Node, NEW s, NodeBase(s), s.state # "LEADER",
           NEW m \in AppendEntriesMsg, m.type = "AppendEntries", ValidAppendEntries(m),
           m.term = s.currentTerm, PrefixMatches(s, m), KeepsCommitted(s, m),
           NEW voted, NEW bid, NEW led, NEW acked, Fits(n, i, s, voted, bid, led, acked),
           RequestOK(voted, led, acked, m)
    PROVE  \E acked2 : /\ Fits(n, i, AcceptEntries(s, m), voted, bid, led, acked2)
                       /\ AckedGrows(acked, acked2)
                       /\ m.prevLogIndex + Len(m.entries) <= acked2[m.term][i]
<1>. DEFINE log == Appended(s, m)
            r == Relogged(s, log)
            e == m.prevLogIndex + Len(m.entries)
            c == Larger(s.commitIndex, Smaller(m.leaderCommit, e))
            t == [r EXCEPT !.commitIndex = c]
<1>1. /\ s \in NodeState /\ s.currentTerm \in Nat /\ s.commitIndex \in Nat /\ e \in Nat
      /\ m.leaderCommit \in Nat
  BY SMTT(30), FitsNode, NodeFields DEF AppendEntriesMsg
<1>2. Meets(led, s, m)
  BY SMTT(30), <1>1, MeetsAt
<1>3. /\ log \in Seq(Entry) /\ SameUpTo(led[m.term], log, e)
      /\ log = s.log \/ Follows(led, m.term, s.log, log)
  BY <1>2, AppendedAgrees
<1>4. AcceptEntries(s, m) = ApplyCommitted(t)
  <2>1. [s EXCEPT !.log = log, !.commitIndex = Larger(@, Smaller(m.leaderCommit, e))] = t
    BY <1>1, <1>3 DEF Relogged, NodeState
  <2>. QED
    BY <2>1 DEF AcceptEntries
<1>. HIDE DEF log
<1>5. Fits(n, i, r, voted, bid, led, acked)
  BY <1>3, RelogAt
<1>6. /\ r \in NodeState /\ r.log = log /\ r.commitIndex = s.commitIndex
      /\ r.currentTerm = s.currentTerm
  BY <1>1, <1>3, ReloggedFields DEF SameElection
<1>. HIDE DEF r
<1>7. c \in Nat
  BY <1>1 DEF Larger, Smaller
<1>8. CommitOK(led, acked, r.log, r.currentTerm, c)
  <2>1. CASE c = s.commitIndex
    BY <1>5, <1>6, <2>1, FitsNode DEF NodeOK
  <2>2. CASE c # s.commitIndex
    <3>1. c <= m.leaderCommit /\ c <= e /\ m.leaderCommit > 0
      BY SMTT(30), <1>1, <2>2 DEF Larger, Smaller
    <3>2. KnownBy(led, acked, m.term, m.leaderCommit) /\ led[m.term] # <<>>
      BY <3>1 DEF RequestOK
    <3>3. led[m.term] \in Seq(Entry)
      BY <1>2, MeetsTypes
    <3>4. SameUpTo(led[m.term], log, c)
      BY <1>1, <1>3, <1>7, <3>1, <3>3, SameLess
    <3>5. Core(With(n, i, s), voted, bid, led, acked)
      BY DEF Fits
    <3>. HIDE DEF c
    <3>6. CommitOK(led, acked, log, m.term, c)
      BY <1>1, <1>3, <1>7, <3>1, <3>2, <3>4, <3>5, KnownCommits
    <3>. QED
      BY <1>6, <3>6
  <2>. QED
    BY <2>1, <2>2
<1>. HIDE DEF c, e
<1>9. /\ t \in NodeState /\ t.log = r.log /\ SameElection(r, t) /\ t.commitIndex = c
      /\ t.nextIndex = r.nextIndex /\ t.matchIndex = r.matchIndex
  BY <1>6, <1>7 DEF NodeState, SameElection
<1>. HIDE DEF t
<1>10. Fits(n, i, t, voted, bid, led, acked)
  BY <1>5, <1>8, <1>9, CommitAt
<1>11. SameUpTo(led[t.currentTerm], t.log, e) /\ t.currentTerm = m.term
  BY <1>3, <1>6, <1>9 DEF SameElection
<1>12. PICK acked2 : /\ Fits(n, i, t, voted, bid, led, acked2) /\ AckedGrows(acked, acked2)
                     /\ e <= acked2[t.currentTerm][i]
  BY <1>1, <1>10, <1>11, AckAt
<1>13. ApplyCommitted(t) \in NodeState
  <2>1. NodeInv(AcceptEntries(s, m))
    BY SMTT(30), <1>1, AcceptEntriesInv
  <2>. QED
    BY <1>4, <2>1 DEF NodeInv, NodeBase
<1>14. Fits(n, i, ApplyCommitted(t), voted, bid, led, acked2)
  BY <1>12, <1>13, ApplyAt
<1>. QED
  BY <1>4, <1>11, <1>12, <1>14 DEF e
=============================================================================
