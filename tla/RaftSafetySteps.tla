-------------------------- MODULE RaftSafetySteps ---------------------------
(***************************************************************************)
(* Every action of RaftNode keeps the history of RaftHistory: one lemma    *)
(* for each, preceded by those about snapshots and acknowledgements.  The  *)
(* crash within a handler follows in RaftNodeProofs.                       *)
(***************************************************************************)
EXTENDS RaftSafetyLemmas

(* The provers get longer than the default for a leaf.                     *)
USE ZenonT(10), SMTT(20)

(* The log InstallSnapshot leaves behind.                                  *)
Installed(s, m) ==
    IF m.lastIncludedIndex <= LastIndex(s) /\ GetTerm(s, m.lastIncludedIndex) = m.lastIncludedTerm
    THEN m.data \o SubSeq(s.log, m.lastIncludedIndex + 1, Len(s.log))
    ELSE m.data

(* A snapshot is a piece of its leader's log: it replaces a log by that    *)
(* piece, or changes nothing in a log that holds it.                       *)
LEMMA InstalledAgrees ==
    ASSUME NEW led, IsLed(led), NEW s, NodeBase(s), NEW m \in InstallSnapshotMsg,
           Faithful(led, s.log), Faithful(led, led[m.term]), led[m.term] # <<>>,
           m.lastIncludedIndex = Len(m.data), m.lastIncludedIndex > Len(s.kv),
           SameUpTo(led[m.term], m.data, m.lastIncludedIndex),
           m.lastIncludedTerm = led[m.term][m.lastIncludedIndex].term
    PROVE  LET log == Installed(s, m)
           IN /\ log \in Seq(Entry)
              /\ log = s.log \/ Follows(led, m.term, s.log, log)
              /\ SameUpTo(led[m.term], log, m.lastIncludedIndex)
<1>. DEFINE L == led[m.term]
            e == m.lastIncludedIndex
            data == m.data
            keep == e <= LastIndex(s) /\ GetTerm(s, e) = m.lastIncludedTerm
            tail == SubSeq(s.log, e + 1, Len(s.log))
            log == IF keep THEN data \o tail ELSE data
<1>1. /\ s \in NodeState /\ s.log \in Seq(Entry) /\ Len(s.log) \in Nat /\ s.snapshotIndex \in Nat
      /\ Len(s.kv) \in Nat /\ s.snapshotIndex <= Len(s.kv)
  <2>1. s \in NodeState
    BY DEF NodeBase
  <2>2. s.log \in Seq(Entry) /\ s.kv \in Seq(Entry) /\ s.snapshotIndex \in Nat
    BY <2>1 DEF NodeState
  <2>. QED
    BY SMTT(30), <2>1, <2>2 DEF NodeBase
<1>2. e \in Nat /\ data \in Seq(Entry) /\ m.term \in Nat /\ Len(data) = e
  BY DEF InstallSnapshotMsg
<1>3. L \in Seq(Entry) /\ Len(L) \in Nat
  BY SMTT(30), <1>2 DEF IsLed
<1>4. e > 0 /\ e > s.snapshotIndex /\ e \in 1..Len(L) /\ SameUpTo(L, data, e)
  BY SMTT(30), <1>1, <1>2, <1>3 DEF SameUpTo
<1>5. Installed(s, m) = log
  BY DEF Installed
<1>. HIDE DEF L, e, data
<1>6. m.lastIncludedTerm = L[e].term
  BY DEF L, e
<1>7. keep <=> e \in 1..Len(s.log) /\ s.log[e].term = L[e].term
  <2>1. e <= Len(s.log) => GetTerm(s, e) = s.log[e].term
    BY SMTT(30), <1>1, <1>2, <1>4 DEF GetTerm, LastIndex
  <2>. QED
    BY SMTT(30), <1>1, <1>2, <1>4, <1>6, <2>1 DEF LastIndex
<1>8. CASE keep
  <2>1. e \in 1..Len(s.log) /\ s.log[e].term = L[e].term
    BY <1>7, <1>8
  <2>2. SameUpTo(s.log, L, e)
    <3>1. Faithful(led, s.log) /\ Faithful(led, L)
      BY DEF L
    <3>. QED
      BY <1>1, <1>3, <1>4, <2>1, <3>1, TermDecides
  <2>3. SameUpTo(s.log, data, e)
    BY <1>4, <2>2, SameTrans
  <2>4. data \o tail = s.log
    <3>1. e + 1 \in Nat \ {0} /\ Len(s.log) <= Len(s.log) /\ e <= Len(s.log)
      BY SMTT(30), <1>1, <1>2, <2>1
    <3>2. /\ tail \in Seq(Entry)
          /\ Len(tail) = IF e + 1 <= Len(s.log) THEN Len(s.log) - (e + 1) + 1 ELSE 0
          /\ \A k \in 1 .. Len(s.log) - (e + 1) + 1 : tail[k] = s.log[(e + 1) + k - 1]
      BY SMTT(30), <1>1, <3>1, LogPart
    <3>. HIDE DEF tail, keep
    <3>3. Len(tail) = Len(s.log) - e
      BY SMTT(30), <1>1, <1>2, <3>1, <3>2
    <3>4. \A k \in 1 .. Len(s.log) - e : tail[k] = s.log[e + k]
      BY SMTT(30), <1>1, <1>2, <3>2
    <3>. DEFINE new == data \o tail
    <3>5. /\ new \in Seq(Entry) /\ Len(new) = e + Len(tail)
          /\ \A k \in 1..e : new[k] = data[k]
          /\ \A k \in 1 .. e + Len(tail) : k > e =>
               k - e \in 1..Len(tail) /\ new[k] = tail[k - e]
      BY <1>2, <3>2, Grown
    <3>. HIDE DEF new
    <3>6. Len(new) = Len(s.log)
      BY SMTT(30), <1>1, <1>2, <3>3, <3>5
    <3>7. ASSUME NEW k \in 1..Len(s.log) PROVE new[k] = s.log[k]
      <4>1. CASE k <= e
        <5>1. k \in 1..e
          BY SMTT(30), <1>1, <1>2, <4>1
        <5>. QED
          BY <2>3, <3>5, <5>1 DEF SameUpTo
      <4>2. CASE k > e
        <5>1. k \in 1 .. e + Len(tail) /\ e + (k - e) = k
          BY SMTT(30), <1>1, <1>2, <3>3
        <5>2. k - e \in 1 .. Len(s.log) - e /\ new[k] = tail[k - e]
          BY <3>3, <3>5, <4>2, <5>1
        <5>. QED
          BY <3>4, <5>1, <5>2
      <4>. QED
        BY SMTT(30), <1>1, <1>2, <4>1, <4>2
    <3>8. new = s.log
      BY <1>1, <3>5, <3>6, <3>7, SeqExtensional
    <3>. QED
      BY <3>8 DEF new
  <2>5. log = s.log /\ SameUpTo(L, s.log, e)
    BY <1>8, <2>2, <2>4, SameSym
  <2>. QED
    BY <1>1, <1>5, <2>5 DEF L, e
<1>9. CASE ~keep
  <2>1. log = data
    BY <1>9
  <2>2. ASSUME NEW k \in Nat, SameUpTo(L, s.log, k) PROVE k <= e
    <3>1. SUFFICES ASSUME k > e PROVE FALSE
      BY SMTT(30), <1>2
    <3>2. e \in 1..k
      BY SMTT(30), <1>2, <1>4, <3>1
    <3>3. L[e] = s.log[e] /\ e \in 1..Len(s.log)
      BY SMTT(30), <1>1, <1>3, <2>2, <3>2, SameAt
    <3>. QED
      BY <1>7, <1>9, <3>3
  <2>3. Follows(led, m.term, s.log, data)
    BY <1>2, <1>4, <2>2 DEF Follows, L
  <2>. QED
    BY <1>2, <1>4, <1>5, <2>1, <2>3 DEF L, e
<1>. QED
  BY <1>8, <1>9

(* InstallSnapshot.                                                        *)
LEMMA InstallAt ==
    ASSUME NEW n, NEW i \in Node, NEW s, NodeInv(s), s.state # "LEADER", s.applyTo = 0,
           NEW m \in InstallSnapshotMsg, m.type = "InstallSnapshot", GoodSnapshot(m),
           m.term = s.currentTerm, Len(s.kv) < m.lastIncludedIndex,
           NEW voted, NEW bid, NEW led, NEW acked, Fits(n, i, s, voted, bid, led, acked),
           RequestOK(voted, led, acked, m)
    PROVE  \E acked2 : /\ Fits(n, i, InstallSnapshot(s, m), voted, bid, led, acked2)
                       /\ AckedGrows(acked, acked2)
                       /\ m.lastIncludedIndex <= acked2[m.term][i]
<1>. DEFINE log == Installed(s, m)
            r == Relogged(s, log)
            e == m.lastIncludedIndex
            t == InstallSnapshot(s, m)
<1>1. /\ s \in NodeState /\ s.currentTerm \in Nat /\ s.commitIndex \in Nat /\ e \in Nat
      /\ m.term \in Nat /\ m.data \in Seq(Entry) /\ IsLed(led)
      /\ Logs(bid, led) /\ NodeOK(voted, bid, led, acked, i, s) /\ NodeBase(s)
  BY FitsNode, NodeFields DEF InstallSnapshotMsg, NodeInv
<1>2. /\ led[m.term] # <<>> /\ e = Len(m.data) /\ SameUpTo(led[m.term], m.data, e)
      /\ m.lastIncludedTerm = led[m.term][e].term /\ KnownBy(led, acked, m.term, e)
  BY DEF RequestOK
<1>3. Faithful(led, s.log) /\ Faithful(led, led[m.term]) /\ e > Len(s.kv)
  <2>1. Len(s.kv) \in Nat
    BY SMTT(30), <1>1 DEF NodeState
  <2>. QED
    BY <1>1, <2>1 DEF NodeOK, LogOK, Logs
<1>4. /\ log \in Seq(Entry) /\ SameUpTo(led[m.term], log, e)
      /\ log = s.log \/ Follows(led, m.term, s.log, log)
  BY <1>1, <1>2, <1>3, InstalledAgrees
<1>5. NodeInv(t) /\ SameElection(s, t)
  <2>1. m.term <= s.currentTerm
    BY SMTT(30), <1>1
  <2>. QED
    BY <2>1, InstallSnapshotInv
<1>6. /\ t.log = log /\ t.commitIndex = Larger(s.commitIndex, e)
      /\ t.nextIndex = s.nextIndex /\ t.matchIndex = s.matchIndex
  <2>. HIDE DEF e
  <2>. QED
    BY <1>1 DEF InstallSnapshot, Installed, NodeState, e
<1>. HIDE DEF log, t
<1>7. Fits(n, i, r, voted, bid, led, acked)
  BY <1>4, RelogAt
<1>8. /\ r \in NodeState /\ r.log = log /\ r.commitIndex = s.commitIndex /\ SameElection(s, r)
      /\ r.nextIndex = s.nextIndex /\ r.matchIndex = s.matchIndex
  BY <1>1, <1>4, ReloggedFields
<1>. HIDE DEF r
<1>9. /\ t \in NodeState /\ SameElection(r, t) /\ r.currentTerm = m.term
      /\ t.log = r.log /\ t.nextIndex = r.nextIndex /\ t.matchIndex = r.matchIndex
  BY <1>5, <1>6, <1>8 DEF NodeInv, NodeBase, SameElection
<1>10. CommitOK(led, acked, r.log, r.currentTerm, t.commitIndex)
  <2>1. CASE t.commitIndex = s.commitIndex
    BY <1>7, <1>8, <2>1, FitsNode DEF NodeOK
  <2>2. CASE t.commitIndex = e
    <3>1. Core(With(n, i, s), voted, bid, led, acked) /\ e <= e
      BY SMTT(30), <1>1 DEF Fits
    <3>. HIDE DEF e
    <3>2. CommitOK(led, acked, log, m.term, e)
      BY <1>1, <1>2, <1>4, <3>1, KnownCommits DEF e
    <3>. QED
      BY <1>8, <1>9, <2>2, <3>2
  <2>. QED
    BY <1>6, <2>1, <2>2 DEF Larger
<1>11. Fits(n, i, t, voted, bid, led, acked)
  BY <1>7, <1>9, <1>10, CommitAt
<1>12. t.currentTerm = m.term /\ SameUpTo(led[t.currentTerm], t.log, e)
  BY <1>4, <1>6, <1>5 DEF SameElection
<1>13. PICK acked2 : /\ Fits(n, i, t, voted, bid, led, acked2) /\ AckedGrows(acked, acked2)
                     /\ e <= acked2[t.currentTerm][i]
  BY <1>1, <1>11, <1>12, AckAt
<1>. QED
  BY <1>12, <1>13 DEF t

(* A snapshot a node has no need of: it holds it already.                  *)
LEMMA HeldAt ==
    ASSUME NEW n, NEW i \in Node, NEW s, NodeBase(s), NEW T \in Nat, T = s.currentTerm,
           NEW e \in Nat, e <= Len(s.kv),
           NEW voted, NEW bid, NEW led, NEW acked, Fits(n, i, s, voted, bid, led, acked),
           led[T] # <<>>
    PROVE  \E acked2 : /\ Fits(n, i, s, voted, bid, led, acked2) /\ AckedGrows(acked, acked2)
                       /\ e <= acked2[T][i]
<1>1. /\ s \in NodeState /\ s.commitIndex \in Nat /\ s.log \in Seq(Entry) /\ IsLed(led)
      /\ NodeOK(voted, bid, led, acked, i, s) /\ led[T] \in Seq(Entry)
  BY FitsNode, NodeFields DEF IsLed
<1>2. e <= s.commitIndex
  <2>1. Len(s.kv) \in Nat /\ Len(s.kv) <= s.commitIndex
    BY SMTT(30), <1>1 DEF NodeBase, NodeState
  <2>. QED
    BY SMTT(30), <1>1, <2>1
<1>3. CommitOK(led, acked, s.log, T, s.commitIndex)
  BY <1>1 DEF NodeOK
<1>4. Core(With(n, i, s), voted, bid, led, acked)
  BY DEF Fits
<1>5. SameUpTo(led[T], s.log, s.commitIndex)
  BY <1>1, <1>3, <1>4, CommitInLed
<1>6. SameUpTo(led[T], s.log, e)
  BY <1>1, <1>2, <1>5, SameLess
<1>. QED
  BY <1>6, AckAt

-----------------------------------------------------------------------------
(* The leader's side of replication.                                       *)

(* What a peer acknowledged to a leader is in the leader's log.            *)
LEMMA AckedInLog ==
    ASSUME NEW n, NEW i \in Node, NEW s, s.state = "LEADER", NEW j \in Node, NEW k \in Nat,
           NEW voted, NEW bid, NEW led, NEW acked, Fits(n, i, s, voted, bid, led, acked),
           k <= acked[s.currentTerm][j]
    PROVE  k <= Len(s.log)
<1>. DEFINE T == s.currentTerm
<1>1. /\ s \in NodeState /\ T \in Nat /\ s.log \in Seq(Entry) /\ Len(s.log) \in Nat
      /\ NodeOK(voted, bid, led, acked, i, s) /\ IsAcked(acked)
  BY FitsNode, NodeFields
<1>2. \E u : AcksOK(led, acked, j, u)
  <2>1. CASE j = i
    BY <1>1, <2>1 DEF NodeOK
  <2>2. CASE j # i
    BY SMTT(30), <2>2, FitsOthers DEF NodeOK
  <2>. QED
    BY <2>1, <2>2
<1>3. s.log = led[T]
  BY <1>1 DEF NodeOK, LeaderOK
<1>4. acked[T][j] \in Nat
  BY <1>1 DEF IsAcked
<1>5. acked[T][j] > 0 => acked[T][j] <= Len(led[T])
  BY <1>1, <1>2 DEF AcksOK
<1>. QED
  BY SMTT(30), <1>1, <1>3, <1>4, <1>5

(* The leader notes how far a peer has got.                                *)
LEMMA PeerAtFits ==
    ASSUME NEW n, NEW i \in Node, NEW s, NodeInv(s), s.state = "LEADER", NEW j \in Node,
           NEW match \in Nat, NEW next \in Nat, next >= 1, next <= Len(s.log) + 1,
           NEW voted, NEW bid, NEW led, NEW acked, Fits(n, i, s, voted, bid, led, acked),
           match <= acked[s.currentTerm][j]
    PROVE  Fits(n, i, PeerAt(s, j, match, next), voted, bid, led, acked)
<1>. DEFINE t == PeerAt(s, j, match, next)
<1>1. /\ s \in NodeState /\ s.currentTerm \in Nat /\ Len(s.log) \in Nat
      /\ NodeOK(voted, bid, led, acked, i, s)
  BY FitsNode, NodeFields
<1>2. /\ NodeInv(t) /\ SameBallot(s, t) /\ SameStores(s, t)
      /\ \A k \in Node :
           /\ t.inflight[k] = IF k = j THEN None ELSE s.inflight[k]
           /\ t.matchIndex[k] = IF k = j THEN match ELSE s.matchIndex[k]
           /\ t.nextIndex[k] = IF k = j THEN next ELSE s.nextIndex[k]
  BY SMTT(30), PeerAtInv
<1>. HIDE DEF t
<1>3. /\ t \in NodeState /\ t.log = s.log /\ t.currentTerm = s.currentTerm
      /\ t.votedFor = s.votedFor /\ t.state = s.state /\ t.commitIndex = s.commitIndex
  BY <1>2 DEF NodeInv, NodeBase, SameBallot, SameStores
<1>4. Moves(s, t) /\ CandidateOK(voted, bid, i, t)
  BY SMTT(30), <1>1, <1>3 DEF Moves, CandidateOK
<1>5. CommitOK(led, acked, t.log, t.currentTerm, t.commitIndex)
  BY <1>1, <1>3 DEF NodeOK
<1>6. FlightOK(voted, led, acked, t)
  BY <1>1, <1>2 DEF NodeOK, FlightOK
<1>7. LeaderOK(voted, led, acked, i, t)
  <2>1. LeaderOK(voted, led, acked, i, s)
    BY <1>1 DEF NodeOK
  <2>2. next \in 1 .. Len(s.log) + 1
    BY SMTT(30), <1>1
  <2>. QED
    BY <1>2, <1>3, <2>1, <2>2 DEF LeaderOK
<1>. QED
  BY <1>3, <1>4, <1>5, <1>6, <1>7, LocalAt DEF t

(* The end of a handler that goes on replicating.                          *)
LEMMA SendsExplained ==
    ASSUME TypeOK, NEW i \in Node, NEW a, NodeBase(a), a.state = "LEADER", NEW m,
           a.currentTerm = node[i].currentTerm, NEW P, NEW up, up \in SUBSET Node,
           Sends(i, a, P, up, m),
           NEW voted, NEW bid, NEW led, NEW acked, Explains(node, msgs, voted, bid, led, acked),
           Fits(node, i, a, voted, bid, led, acked)
    PROVE  History'
<1>. DEFINE t == SendAppendEntries(i, a, P, up)
            R == Rpcs(t, P \cap up)
<1>1. Step(i, t, {m}, R)
  BY DEF Sends
<1>2. Fits(node, i, t, voted, bid, led, acked)
  BY SendAt
<1>3. t.currentTerm = a.currentTerm /\ a.currentTerm \in Nat
  BY SMTT(20), SendAppendEntriesInv, FitsNode, NodeFields
<1>. HIDE DEF t
<1>4. P \cap up \subseteq Node
  OBVIOUS
<1>5. \A r \in R : MessageOK(With(node, i, t), voted, bid, led, acked, r)
  BY <1>2, <1>4, RpcsExplained
<1>6. t.currentTerm >= node[i].currentTerm
  BY SMTT(30), <1>3
<1>. HIDE DEF R
<1>. QED
  BY SMTT(20), <1>1, <1>2, <1>5, <1>6, ConcludedLocally

(* The actions, one by one.                                                *)

(* A callback starts from a history that explains the state.               *)
LEMMA Started ==
    ASSUME IndInv, History, NEW i \in Node
    PROVE  /\ TypeOK
           /\ \E voted, bid, led, acked : /\ Explains(node, msgs, voted, bid, led, acked)
                                          /\ Fits(node, i, node[i], voted, bid, led, acked)
<1>1. TypeOK /\ node \in [Node -> NodeState]
  BY DEF IndInv, TypeOK
<1>2. PICK voted, bid, led, acked : Explains(node, msgs, voted, bid, led, acked)
  BY DEF History
<1>3. Core(node, voted, bid, led, acked)
  BY <1>2 DEF Explains
<1>4. Fits(node, i, node[i], voted, bid, led, acked)
  BY <1>1, <1>3, FitsStart
<1>. QED
  BY <1>1, <1>2, <1>4

(* The new state of a node is well formed.                                 *)
LEMMA Ended ==
    ASSUME IndInv', NEW i \in Node, NEW s, NEW received, NEW sent, Step(i, s, received, sent),
           TypeOK
    PROVE  s \in NodeState
<1>1. node' = [node EXCEPT ![i] = s] /\ node \in [Node -> NodeState]
  BY DEF Step, TypeOK
<1>2. node'[i] \in NodeState
  BY DEF IndInv, TypeOK
<1>. QED
  BY <1>1, <1>2

(* ElectionTimeout keeps the history.                                      *)
LEMMA ElectionTimeoutExplained ==
    ASSUME IndInv, History, NEW i \in Node, ElectionTimeout(i)
    PROVE  History'
<1>. DEFINE s == node[i]
<1>1. NodeInv(s) /\ NodeBase(s) /\ s \in NodeState /\ s.currentTerm \in Nat
  BY InvNode
<1>2. TypeOK
  BY Started
<1>3. PICK voted, bid, led, acked : /\ Explains(node, msgs, voted, bid, led, acked)
                                    /\ Fits(node, i, s, voted, bid, led, acked)
  BY Started
<1>4. PICK up \in Links : Step(i, BecomePreCandidate(i, s, up), {},
                               Campaign(i, BecomePreCandidate(i, s, up), up))
  BY DEF ElectionTimeout
<1>5. up \subseteq Node
  BY LinkNodes
<1>. DEFINE t == BecomePreCandidate(i, s, up)
<1>6. CASE QuorumSize = 1
  <2>1. t = BecomeCandidate(i, s, up)
    BY <1>6 DEF BecomePreCandidate
  <2>2. t.currentTerm = s.currentTerm + 1
    BY SMTT(30), <1>1, <2>1, BecomeCandidateInv
  <2>. DEFINE c == BecomeCandidate(i, s, up)
  <2>3. PICK voted2, bid2, led2, acked2 :
          /\ Fits(node, i, c, voted2, bid2, led2, acked2)
          /\ Later(node, voted, bid, led, acked, voted2, bid2, led2, acked2)
          /\ \A m \in Campaign(i, c, up) :
               MessageOK(With(node, i, c), voted2, bid2, led2, acked2, m)
    BY <1>1, <1>3, <1>5, CandidateAt
  <2>4. Step(i, c, {}, Campaign(i, c, up))
    BY <1>4, <2>1
  <2>5. c.currentTerm >= node[i].currentTerm
    BY SMTT(30), <1>1, <2>1, <2>2
  <2>. HIDE DEF c
  <2>. QED
    BY <1>2, <1>3, <2>3, <2>4, <2>5, Concluded
<1>7. CASE QuorumSize # 1
  <2>1. t = [s EXCEPT !.state = "PRE_CANDIDATE", !.leaderId = None, !.votes = {i}]
    BY <1>7 DEF BecomePreCandidate
  <2>2. NodeBase(t) /\ t \in NodeState
    <3>1. NodeInv(t)
      BY <1>1, BecomePreCandidateInv
    <3>. HIDE DEF t
    <3>. QED
      BY <3>1 DEF NodeInv, NodeBase
  <2>3. /\ t.log = s.log /\ t.currentTerm = s.currentTerm /\ t.votedFor = s.votedFor
        /\ t.state = "PRE_CANDIDATE" /\ t.commitIndex = s.commitIndex /\ t.inflight = s.inflight
    BY <1>1, <2>1 DEF NodeState
  <2>4. Step(i, t, {}, Campaign(i, t, up))
    BY <1>4
  <2>. HIDE DEF t
  <2>5. NodeOK(voted, bid, led, acked, i, s)
    BY <1>3, FitsNode
  <2>6. /\ Moves(s, t) /\ CandidateOK(voted, bid, i, t) /\ LeaderOK(voted, led, acked, i, t)
        /\ CommitOK(led, acked, t.log, t.currentTerm, t.commitIndex)
        /\ FlightOK(voted, led, acked, t)
    BY SMTT(30), <1>1, <2>3, <2>5 DEF Moves, NodeOK, CandidateOK, LeaderOK, FlightOK
  <2>7. Fits(node, i, t, voted, bid, led, acked)
    BY <1>3, <2>2, <2>6, LocalAt
  <2>8. \A m \in Campaign(i, t, up) : MessageOK(With(node, i, t), voted, bid, led, acked, m)
    <3>1. t.state # "CANDIDATE"
      BY <2>3
    <3>. QED
      BY <1>5, <2>2, <3>1, CampaignExplained
  <2>9. t.currentTerm >= node[i].currentTerm
    BY SMTT(30), <1>1, <2>3
  <2>. QED
    BY <1>2, <1>3, <2>4, <2>7, <2>8, <2>9, ConcludedLocally
<1>. QED
  BY <1>6, <1>7

(* LeaderTick keeps the history.                                           *)
LEMMA LeaderTickExplained ==
    ASSUME IndInv, History, NEW i \in Node, LeaderTick(i)
    PROVE  History'
<1>. DEFINE s == node[i]
<1>1. NodeBase(s) /\ s \in NodeState /\ s.currentTerm \in Nat
  BY InvNode
<1>2. TypeOK
  BY Started
<1>3. PICK voted, bid, led, acked : /\ Explains(node, msgs, voted, bid, led, acked)
                                    /\ Fits(node, i, s, voted, bid, led, acked)
  BY Started
<1>4. s.state = "LEADER"
  BY DEF LeaderTick
<1>5. PICK up \in Links :
        LET t == SendAppendEntries(i, s, Node, up)
        IN \/ Step(i, t, {}, Rpcs(t, up))
           \/ Step(i, BecomeFollower(t, t.currentTerm), {}, Rpcs(t, up))
  BY DEF LeaderTick, BroadcastAppendEntries
<1>. DEFINE t == SendAppendEntries(i, s, Node, up)
<1>6. Fits(node, i, t, voted, bid, led, acked)
  BY <1>1, <1>3, <1>4, SendAt
<1>7. t.currentTerm = s.currentTerm
  BY SMTT(30), <1>1, SendAppendEntriesInv
<1>8. Step(i, t, {}, Rpcs(t, up)) \/ Step(i, BecomeFollower(t, t.currentTerm), {}, Rpcs(t, up))
  BY <1>5
<1>. HIDE DEF t
<1>9. \A n2 : \A m \in Rpcs(t, up) : MessageOK(n2, voted, bid, led, acked, m)
  BY <1>6, LinkNodes, RpcsExplained
<1>10. CASE Step(i, t, {}, Rpcs(t, up))
  <2>1. t.currentTerm >= node[i].currentTerm
    BY SMTT(30), <1>1, <1>7
  <2>. QED
    BY <1>2, <1>3, <1>6, <1>9, <1>10, <2>1, ConcludedLocally
<1>11. CASE Step(i, BecomeFollower(t, t.currentTerm), {}, Rpcs(t, up))
  <2>. DEFINE f == BecomeFollower(t, t.currentTerm)
  <2>1. Fits(node, i, f, voted, bid, led, acked)
    BY <1>1, <1>6, <1>7, FollowerAt
  <2>2. t \in NodeState
    BY <1>6, FitsNode
  <2>3. f.currentTerm >= t.currentTerm
    BY <1>1, <1>7, <2>2, BecomeFollowerFields
  <2>4. f.currentTerm >= node[i].currentTerm /\ Step(i, f, {}, Rpcs(t, up))
    BY <1>7, <1>11, <2>3
  <2>. HIDE DEF f
  <2>. QED
    BY <1>2, <1>3, <1>9, <2>1, <2>4, ConcludedLocally
<1>. QED
  BY <1>8, <1>10, <1>11

(* ClientPropose keeps the history.                                        *)
LEMMA ClientProposeExplained ==
    ASSUME IndInv, History, NEW i \in Node, ClientPropose(i)
    PROVE  History'
<1>. DEFINE s == node[i]
<1>1. NodeBase(s) /\ s \in NodeState /\ s.currentTerm \in Nat
  BY InvNode
<1>2. TypeOK
  BY Started
<1>3. PICK voted, bid, led, acked : /\ Explains(node, msgs, voted, bid, led, acked)
                                    /\ Fits(node, i, s, voted, bid, led, acked)
  BY Started
<1>4. s.state = "LEADER"
  BY DEF ClientPropose
<1>5. PICK n \in 1..MaxBatchEntries : \E cmds \in [1..n -> Command] : \E up \in Links :
        LET t == ProposeBatch(i, s, cmds, up)
        IN Step(i, t, {}, Rpcs(t, up))
  BY DEF ClientPropose
<1>6. PICK cmds \in [1..n -> Command], up \in Links :
        LET t == ProposeBatch(i, s, cmds, up)
        IN Step(i, t, {}, Rpcs(t, up))
  BY <1>5
<1>7. cmds \in Seq(Command \cup {NoOp}) /\ Len(cmds) > 0
  <2>1. n \in Nat /\ n > 0 /\ cmds \in [1..n -> Command \cup {NoOp}]
    BY SMTT(30), BoundAssumption
  <2>. QED
    BY <2>1, SeqFunction
<1>. DEFINE t == ProposeBatch(i, s, cmds, up)
<1>8. PICK led2, acked2 : /\ Fits(node, i, t, voted, bid, led2, acked2)
                          /\ LedGrows(led, led2) /\ AckedGrows(acked, acked2)
  <2>1. Fits(node, i, s, voted, bid, led, acked)
    BY <1>3
  <2>. QED
    BY <1>1, <1>4, <1>7, <2>1, BatchAt
<1>9. t.currentTerm = s.currentTerm
  <2>1. SameBallot(s, t)
    BY <1>1, <1>7, ProposeBatchInv
  <2>. QED
    BY <2>1 DEF SameBallot
<1>10. Step(i, t, {}, Rpcs(t, up))
  BY <1>6
<1>. HIDE DEF t
<1>11. Later(node, voted, bid, led, acked, voted, bid, led2, acked2)
  BY <1>8 DEF Later, VotedGrows
<1>12. t.currentTerm >= node[i].currentTerm
  BY SMTT(30), <1>1, <1>9
<1>13. \A m \in Rpcs(t, up) : MessageOK(With(node, i, t), voted, bid, led2, acked2, m)
  BY <1>8, LinkNodes, RpcsExplained
<1>. QED
  BY <1>2, <1>3, <1>8, <1>10, <1>11, <1>12, <1>13, Concluded

(* FinishApply keeps the history.                                          *)
LEMMA FinishApplyExplained ==
    ASSUME IndInv, IndInv', History, NEW i \in Node, FinishApply(i)
    PROVE  History'
<1>. DEFINE s == node[i]
            new == s.kv \o SubSeq(s.log, Len(s.kv) + 1, s.applyTo)
            x == [s EXCEPT !.kv = new, !.applyTo = 0]
            t == ApplyCommitted(x)
<1>1. /\ s \in NodeState /\ NodeBase(s) /\ s.log \in Seq(Entry) /\ s.kv \in Seq(Entry)
      /\ Len(s.kv) \in Nat /\ Len(s.log) \in Nat /\ s.applyTo \in Nat
      /\ s.commitIndex \in Nat /\ s.currentTerm \in Nat
  BY InvNode, SeqLength DEF NodeState
<1>2. TypeOK
  BY Started
<1>3. PICK voted, bid, led, acked : /\ Explains(node, msgs, voted, bid, led, acked)
                                    /\ Fits(node, i, s, voted, bid, led, acked)
  BY Started
<1>4. s.applyTo # 0 /\ Step(i, t, {}, {})
  BY <1>1 DEF FinishApply, NodeState
<1>5. t \in NodeState
  BY <1>2, <1>4, Ended
<1>6. new \in Seq(Entry)
  <2>1. /\ Len(s.kv) <= s.applyTo /\ s.applyTo <= Len(s.log)
        /\ \A k \in 1..Len(s.kv) : s.kv[k] = s.log[k]
    BY SMTT(30), <1>1, <1>4 DEF NodeBase
  <2>. QED
    BY <1>1, <2>1, CatchUp
<1>. HIDE DEF new, s
<1>7. /\ x \in NodeState /\ x.log = s.log /\ x.commitIndex = s.commitIndex
      /\ x.nextIndex = s.nextIndex /\ x.matchIndex = s.matchIndex /\ SameElection(s, x)
  BY <1>1, <1>6 DEF NodeState, SameElection
<1>. HIDE DEF x
<1>8. Fits(node, i, x, voted, bid, led, acked)
  BY <1>3, <1>7, FrameAt DEF SameElection
<1>9. Fits(node, i, t, voted, bid, led, acked)
  BY <1>5, <1>8, ApplyAt
<1>10. t.currentTerm >= node[i].currentTerm
  BY SMTT(30), <1>1, <1>7, ApplyFrame DEF SameElection, s
<1>. HIDE DEF t
<1>. QED
  BY SMTT(30), <1>2, <1>3, <1>4, <1>9, <1>10, ConcludedLocally

(* Restart keeps the history.                                              *)
LEMMA RestartExplained ==
    ASSUME IndInv, IndInv', History, NEW i \in Node, Restart(i)
    PROVE  History'
<1>. DEFINE s == node[i]
            x == Recovered(s)
            t == ApplyCommitted(x)
<1>1. s \in NodeState /\ s.currentTerm \in Nat /\ Len(s.kv) <= s.commitIndex
  BY InvNode DEF NodeBase
<1>2. TypeOK
  BY Started
<1>3. PICK voted, bid, led, acked : /\ Explains(node, msgs, voted, bid, led, acked)
                                    /\ Fits(node, i, s, voted, bid, led, acked)
  BY Started
<1>4. Step(i, t, {}, {})
  BY DEF Restart
<1>5. t \in NodeState
  BY <1>2, <1>4, Ended
<1>6. Fits(node, i, x, voted, bid, led, acked)
  BY <1>1, <1>3, RecoveredAt
<1>7. x.currentTerm = s.currentTerm
  BY <1>1 DEF Recovered, BecomeFollower, NodeState, Larger
<1>. HIDE DEF x
<1>8. Fits(node, i, t, voted, bid, led, acked)
  BY <1>5, <1>6, ApplyAt
<1>9. x \in NodeState
  BY <1>6, FitsNode
<1>10. t.currentTerm >= node[i].currentTerm
  BY SMTT(30), <1>1, <1>7, <1>9, ApplyFrame
<1>. HIDE DEF t
<1>. QED
  BY SMTT(30), <1>2, <1>3, <1>4, <1>8, <1>10, ConcludedLocally

(* What a handler starts from.                                             *)
LEMMA Received ==
    ASSUME IndInv, History, NEW i \in Node, NEW m \in msgs
    PROVE  /\ TypeOK /\ node[i].currentTerm \in Nat /\ node[i] \in NodeState
           /\ m.from \in Node /\ m.to \in Node /\ m.term \in Nat
           /\ \E voted, bid, led, acked : /\ Explains(node, msgs, voted, bid, led, acked)
                                          /\ Fits(node, i, node[i], voted, bid, led, acked)
                                          /\ MessageOK(node, voted, bid, led, acked, m)
<1>1. PICK voted, bid, led, acked : /\ Explains(node, msgs, voted, bid, led, acked)
                                    /\ Fits(node, i, node[i], voted, bid, led, acked)
  BY Started
<1>2. MessageOK(node, voted, bid, led, acked, m)
  BY <1>1 DEF Explains
<1>3. TypeOK
  BY Started
<1>4. node[i].currentTerm \in Nat /\ node[i] \in NodeState
  BY InvNode
<1>5. m.from \in Node /\ m.to \in Node /\ m.term \in Nat
  BY InvMessage
<1>. QED
  BY <1>1, <1>2, <1>3, <1>4, <1>5

(* HandleRequestVote keeps the history: a vote goes to one candidate of a  *)
(* term, whose log is up to date.                                          *)
LEMMA HandleRequestVoteExplained ==
    ASSUME IndInv, History, NEW m \in msgs, NEW i \in Node, m.type = "RequestVote",
           HandleRequestVote(i, m)
    PROVE  History'
<1>. DEFINE s == node[i]
            f == IF m.term > s.currentTerm THEN BecomeFollower(s, m.term) ELSE s
            upToDate == IsLogUpToDate(s, m.lastLogIndex, m.lastLogTerm)
            grant == m.term = f.currentTerm /\ f.votedFor \in {None, m.from} /\ upToDate
            t == IF grant THEN [f EXCEPT !.votedFor = m.from] ELSE f
<1>1. /\ TypeOK /\ s.currentTerm \in Nat /\ s \in NodeState
      /\ m.from \in Node /\ m.term \in Nat
  BY Received
<1>2. PICK voted, bid, led, acked : /\ Explains(node, msgs, voted, bid, led, acked)
                                    /\ Fits(node, i, s, voted, bid, led, acked)
                                    /\ MessageOK(node, voted, bid, led, acked, m)
  BY Received
<1>3. \/ \E granted : /\ granted => m.prevote
                      /\ Step(i, s, {m}, {VoteResponse(i, s, m, granted)})
      \/ ~m.prevote /\ Step(i, t, {m}, {VoteResponse(i, f, m, grant)})
  BY DEF HandleRequestVote
<1>4. CASE \E granted : /\ granted => m.prevote
                        /\ Step(i, s, {m}, {VoteResponse(i, s, m, granted)})
  <2>1. PICK granted : /\ granted => m.prevote
                       /\ Step(i, s, {m}, {VoteResponse(i, s, m, granted)})
    BY <1>4
  <2>2. \A r \in {VoteResponse(i, s, m, granted)} :
           MessageOK(With(node, i, s), voted, bid, led, acked, r)
    BY <2>1, VoteResponseExplained
  <2>3. s.currentTerm >= node[i].currentTerm
    BY SMTT(30), <1>1
  <2>. QED
    BY SMTT(30), <1>1, <1>2, <2>1, <2>2, <2>3, ConcludedLocally
<1>5. CASE ~m.prevote /\ Step(i, t, {m}, {VoteResponse(i, f, m, grant)})
  <2>1. /\ Fits(node, i, f, voted, bid, led, acked) /\ f \in NodeState
        /\ f.currentTerm >= s.currentTerm /\ f.currentTerm >= m.term /\ f.log = s.log
    <3>1. CASE m.term > s.currentTerm
      <4>1. Fits(node, i, BecomeFollower(s, m.term), voted, bid, led, acked)
        BY <1>1, <1>2, FollowerAt
      <4>. QED
        BY <1>1, <3>1, <4>1, BecomeFollowerFields DEF SameStores
    <3>2. CASE ~(m.term > s.currentTerm)
      BY SMTT(30), <1>1, <1>2, <3>2
    <3>. QED
      BY <3>1, <3>2
  <2>. HIDE DEF f
  <2>2. CASE ~grant
    <3>1. t = f /\ Step(i, f, {m}, {VoteResponse(i, f, m, grant)})
      BY <1>5, <2>2
    <3>. HIDE DEF t
    <3>2. \A r \in {VoteResponse(i, f, m, grant)} :
             MessageOK(With(node, i, f), voted, bid, led, acked, r)
      BY <2>2, VoteResponseExplained
    <3>. HIDE DEF grant
    <3>. QED
      BY SMTT(30), <1>1, <1>2, <2>1, <3>1, <3>2, ConcludedLocally
  <2>3. CASE grant
    <3>. DEFINE g == [f EXCEPT !.votedFor = m.from]
    <3>1. m.term = f.currentTerm /\ f.votedFor \in {None, m.from} /\ upToDate
      BY <2>3
    <3>2. /\ m.term <= node[m.from].currentTerm
          /\ m.lastLogIndex = Len(bid[m.from][m.term])
          /\ m.lastLogTerm = TermAt(bid[m.from][m.term], m.lastLogIndex)
      BY <1>2, <1>5 DEF MessageOK
    <3>3. UpToDate(bid[m.from][f.currentTerm], f.log)
      BY <2>1, <3>1, <3>2, InvNode, UpToDateSeen
    <3>4. f.currentTerm <= With(node, i, f)[m.from].currentTerm
      BY SMTT(30), <1>1, <3>1, <3>2 DEF With
    <3>5. MayVoteFor(node, i, f, m.from, bid)
      BY <3>1, <3>3, <3>4 DEF MayVoteFor
    <3>6. PICK voted2 : /\ Fits(node, i, VotesFor(f, m.from), voted2, bid, led, acked)
                        /\ VotedGrows(voted, voted2)
      BY <1>1, <2>1, <3>5, VoteAt
    <3>7. /\ t = g /\ g = VotesFor(f, m.from) /\ g.votedFor = m.from
          /\ g.currentTerm = f.currentTerm
      BY <2>1, <2>3 DEF VotesFor, NodeState
    <3>8. Step(i, g, {m}, {VoteResponse(i, f, m, grant)})
      BY <1>5, <3>7
    <3>. HIDE DEF g, t, grant
    <3>9. voted2[i][f.currentTerm] = m.from
      <4>1. NodeOK(voted2, bid, led, acked, i, g)
        BY <3>6, <3>7, FitsNode
      <4>. QED
        BY <3>7, <4>1 DEF NodeOK, VoterOK
    <3>10. \A r \in {VoteResponse(i, f, m, grant)} :
             MessageOK(With(node, i, g), voted2, bid, led, acked, r)
      BY <3>9, VoteResponseExplained
    <3>11. Fits(node, i, g, voted2, bid, led, acked) /\ g.currentTerm >= node[i].currentTerm
      BY <2>1, <3>6, <3>7
    <3>12. Later(node, voted, bid, led, acked, voted2, bid, led, acked)
      BY <1>2, <3>6, FitsNode, GrowsRefl DEF Later
    <3>. QED
      BY SMTT(30), SMTT(20), <1>1, <1>2, <3>8, <3>10, <3>11, <3>12, Concluded
  <2>. QED
    BY <2>2, <2>3
<1>. QED
  BY <1>3, <1>4, <1>5

(* A response of a later term, the same in every response handler, keeps   *)
(* the history.                                                            *)
LEMMA StepDownExplained ==
    ASSUME IndInv, History, NEW m \in msgs, NEW i \in Node,
           Step(i, BecomeFollower(node[i], m.term), {m}, {})
    PROVE  History'
<1>. DEFINE t == BecomeFollower(node[i], m.term)
<1>1. TypeOK /\ node[i].currentTerm \in Nat /\ node[i] \in NodeState /\ m.term \in Nat
  BY Received
<1>2. PICK voted, bid, led, acked : /\ Explains(node, msgs, voted, bid, led, acked)
                                    /\ Fits(node, i, node[i], voted, bid, led, acked)
  BY Started
<1>3. Fits(node, i, t, voted, bid, led, acked)
  BY <1>1, <1>2, FollowerAt
<1>4. t.currentTerm >= node[i].currentTerm
  BY <1>1, BecomeFollowerFields
<1>. HIDE DEF t
<1>5. Step(i, t, {m}, {})
  BY DEF t
<1>. QED
  BY SMTT(30), <1>1, <1>2, <1>3, <1>4, <1>5, ConcludedLocally

(* HandleRequestVoteResponse keeps the history: a candidate that counts a  *)
(* quorum of votes is elected.                                             *)
LEMMA HandleRequestVoteResponseExplained ==
    ASSUME IndInv, History, NEW m \in msgs, NEW i \in Node, m.type = "RequestVoteResponse",
           m.to = i, HandleRequestVoteResponse(i, m)
    PROVE  History'
<1>. DEFINE s == node[i]
            v == Counts(s, m.from)
            elected == Cardinality(v.votes) >= QuorumSize
<1>1. TypeOK /\ s.currentTerm \in Nat /\ m.from \in Node /\ NodeInv(s)
  BY Received, InvNode
<1>2. PICK voted, bid, led, acked : /\ Explains(node, msgs, voted, bid, led, acked)
                                    /\ Fits(node, i, s, voted, bid, led, acked)
                                    /\ MessageOK(node, voted, bid, led, acked, m)
  BY Received
<1>3. \/ Step(i, BecomeFollower(s, m.term), {m}, {})
      \/ s.state = "PRE_CANDIDATE"
           /\ \E up \in Links :
                LET c == IF elected THEN BecomeCandidate(i, v, up) ELSE v
                IN Step(i, c, {m}, IF elected THEN Campaign(i, c, up) ELSE {})
      \/ s.state = "CANDIDATE" /\ ~m.prevote /\ m.granted /\ m.term = s.currentTerm
           /\ \E up \in Links :
                LET c == IF elected THEN BecomeLeader(i, v, up) ELSE v
                IN Step(i, c, {m}, Rpcs(c, up))
  BY DEF HandleRequestVoteResponse, Counts
<1>4. s.state = "CANDIDATE" /\ ~m.prevote /\ m.granted /\ m.term = s.currentTerm
        => voted[m.from][s.currentTerm] = i
  BY <1>2 DEF MessageOK
<1>5. (s.state = "CANDIDATE" => ~m.prevote /\ m.granted /\ m.term = s.currentTerm)
        => /\ Fits(node, i, v, voted, bid, led, acked) /\ NodeInv(v) /\ NodeBase(v)
           /\ v.currentTerm = s.currentTerm /\ v.state = s.state
  <2>1. SUFFICES ASSUME s.state = "CANDIDATE" => ~m.prevote /\ m.granted /\ m.term = s.currentTerm
                 PROVE  /\ Fits(node, i, v, voted, bid, led, acked) /\ NodeInv(v) /\ NodeBase(v)
                        /\ v.currentTerm = s.currentTerm /\ v.state = s.state
    OBVIOUS
  <2>2. s.state = "CANDIDATE" => voted[m.from][s.currentTerm] = i
    BY <1>4, <2>1
  <2>3. Fits(node, i, s, voted, bid, led, acked)
    BY <1>2
  <2>. HIDE DEF s
  <2>. QED
    BY SMTT(30), <1>1, <2>2, <2>3, CountAt
<1>6. CASE Step(i, BecomeFollower(s, m.term), {m}, {})
  BY <1>6, StepDownExplained
<1>7. CASE s.state = "PRE_CANDIDATE"
             /\ \E up \in Links :
                  LET c == IF elected THEN BecomeCandidate(i, v, up) ELSE v
                  IN Step(i, c, {m}, IF elected THEN Campaign(i, c, up) ELSE {})
  <2>1. PICK up \in Links :
          LET c == IF elected THEN BecomeCandidate(i, v, up) ELSE v
          IN Step(i, c, {m}, IF elected THEN Campaign(i, c, up) ELSE {})
    BY <1>7
  <2>2. /\ Fits(node, i, v, voted, bid, led, acked) /\ NodeInv(v) /\ NodeBase(v)
        /\ v.currentTerm = s.currentTerm
    BY <1>5, <1>7
  <2>. HIDE DEF v
  <2>3. CASE elected
    <3>. DEFINE c == BecomeCandidate(i, v, up)
    <3>1. Step(i, c, {m}, Campaign(i, c, up))
      BY <2>1, <2>3
    <3>2. PICK voted2, bid2, led2, acked2 :
            /\ Fits(node, i, c, voted2, bid2, led2, acked2)
            /\ Later(node, voted, bid, led, acked, voted2, bid2, led2, acked2)
            /\ \A r \in Campaign(i, c, up) :
                 MessageOK(With(node, i, c), voted2, bid2, led2, acked2, r)
      BY <2>2, LinkNodes, CandidateAt
    <3>3. c.currentTerm >= node[i].currentTerm
      BY SMTT(30), <1>1, <2>2, BecomeCandidateInv
    <3>. HIDE DEF c
    <3>. QED
      BY <1>1, <1>2, <3>1, <3>2, <3>3, Concluded
  <2>4. CASE ~elected
    <3>1. Step(i, v, {m}, {}) /\ v.currentTerm >= node[i].currentTerm
      BY SMTT(30), <1>1, <2>1, <2>2, <2>4
    <3>. QED
      BY SMTT(30), <1>1, <1>2, <2>2, <3>1, ConcludedLocally
  <2>. QED
    BY <2>3, <2>4
<1>8. CASE s.state = "CANDIDATE" /\ ~m.prevote /\ m.granted /\ m.term = s.currentTerm
             /\ \E up \in Links :
                  LET c == IF elected THEN BecomeLeader(i, v, up) ELSE v
                  IN Step(i, c, {m}, Rpcs(c, up))
  <2>1. PICK up \in Links :
          LET c == IF elected THEN BecomeLeader(i, v, up) ELSE v
          IN Step(i, c, {m}, Rpcs(c, up))
    BY <1>8
  <2>2. /\ Fits(node, i, v, voted, bid, led, acked) /\ NodeInv(v) /\ NodeBase(v)
        /\ v.currentTerm = s.currentTerm /\ v.state = "CANDIDATE"
    BY <1>5, <1>8
  <2>. HIDE DEF v
  <2>3. CASE elected
    <3>. DEFINE c == BecomeLeader(i, v, up)
    <3>1. Step(i, c, {m}, Rpcs(c, up))
      BY <2>1, <2>3
    <3>2. PICK led2, acked2 : /\ Fits(node, i, c, voted, bid, led2, acked2)
                              /\ LedGrows(led, led2) /\ AckedGrows(acked, acked2)
      BY <2>2, <2>3, LeaderAt
    <3>3. c.currentTerm >= node[i].currentTerm
      BY SMTT(30), <1>1, <2>2, BecomeLeaderInv
    <3>. HIDE DEF c
    <3>4. Later(node, voted, bid, led, acked, voted, bid, led2, acked2)
      BY <3>2 DEF Later, VotedGrows
    <3>5. \A r \in Rpcs(c, up) : MessageOK(With(node, i, c), voted, bid, led2, acked2, r)
      BY <3>2, LinkNodes, RpcsExplained
    <3>. QED
      BY <1>1, <1>2, <3>1, <3>2, <3>3, <3>4, <3>5, Concluded
  <2>4. CASE ~elected
    <3>1. Step(i, v, {m}, Rpcs(v, up)) /\ v.currentTerm >= node[i].currentTerm
      BY SMTT(30), <1>1, <2>1, <2>2, <2>4
    <3>2. \A r \in Rpcs(v, up) : MessageOK(With(node, i, v), voted, bid, led, acked, r)
      BY <2>2, LinkNodes, RpcsExplained
    <3>. QED
      BY <1>1, <1>2, <2>2, <3>1, <3>2, ConcludedLocally
  <2>. QED
    BY <2>3, <2>4
<1>. QED
  BY <1>3, <1>6, <1>7, <1>8

-----------------------------------------------------------------------------
(* Replication.                                                            *)

(* Only acknowledgements were added to the history.                        *)
LEMMA LaterAcked ==
    ASSUME NEW n, NEW voted, NEW bid, NEW led, NEW acked, NEW acked2, IsLed(led), IsAcked(acked),
           AckedGrows(acked, acked2)
    PROVE  Later(n, voted, bid, led, acked, voted, bid, led, acked2)
  BY LaterRefl DEF Later

(* The last index that a successful answer to a request acknowledges.      *)
LastSent(m) ==
    IF m.type = "AppendEntries" THEN m.prevLogIndex + Len(m.entries) ELSE m.lastIncludedIndex

(* An answer says no more than the history.                                *)
LEMMA AnswerExplained ==
    ASSUME NEW n, NEW voted, NEW bid, NEW led, NEW acked, NEW i, NEW m, NEW r, NEW ok \in BOOLEAN,
           m.type \in {"AppendEntries", "InstallSnapshot"}, Answers(i, m, r, ok),
           ok => LastSent(m) <= acked[m.term][i]
    PROVE  MessageOK(n, voted, bid, led, acked, r)
<1>1. /\ m.type = "AppendEntries" => r.type = "AppendEntriesResponse"
      /\ m.type = "InstallSnapshot" => r.type = "InstallSnapshotResponse"
  BY DEF Answers, AppendEntriesResponseMsg, InstallSnapshotResponseMsg
<1>2. r.from = i /\ r.success = ok /\ r.request = m /\ (ok => r.term = m.term)
  BY DEF Answers
<1>3. AckedIndex(r) = LastSent(m)
  BY <1>1, <1>2 DEF AckedIndex, LastSent
<1>4. r.success => AckedIndex(r) <= acked[r.term][r.from]
  BY <1>2, <1>3
<1>5. r.type \in {"AppendEntriesResponse", "InstallSnapshotResponse"}
  BY <1>1
<1>. QED
  BY SMTT(30), <1>4, <1>5, ResponseExplained

(* A leader gets no replication request of its own term.                   *)
LEMMA NotLeading ==
    ASSUME NEW n, NEW i \in Node, NEW s, NEW m, m.to = i, m.term = s.currentTerm,
           NEW voted, NEW bid, NEW led, NEW acked, Fits(n, i, s, voted, bid, led, acked),
           RequestOK(voted, led, acked, m)
    PROVE  s.state # "LEADER"
<1>1. SUFFICES ASSUME s.state = "LEADER" PROVE FALSE
  OBVIOUS
<1>2. NodeOK(voted, bid, led, acked, i, s) /\ Majorities
  BY FitsNode
<1>3. Elected(voted, i, s.currentTerm)
  BY <1>1, <1>2 DEF NodeOK, LeaderOK
<1>4. Elected(voted, m.from, s.currentTerm) /\ m.from # i
  BY DEF RequestOK
<1>. QED
  BY <1>2, <1>3, <1>4, ElectedOnce

(* A request that is answered without a change of the log or the           *)
(* acknowledgements keeps the history.                                     *)
LEMMA RefusalExplained ==
    ASSUME TypeOK, NEW i \in Node, NEW s, NEW m, NEW r, Step(i, s, {m}, {r}),
           m.type \in {"AppendEntries", "InstallSnapshot"}, Answers(i, m, r, FALSE),
           NEW voted, NEW bid, NEW led, NEW acked, Explains(node, msgs, voted, bid, led, acked),
           Fits(node, i, s, voted, bid, led, acked), s.currentTerm >= node[i].currentTerm
    PROVE  History'
<1>1. MessageOK(With(node, i, s), voted, bid, led, acked, r)
  BY AnswerExplained
<1>2. \A x \in {r} : MessageOK(With(node, i, s), voted, bid, led, acked, x)
  BY <1>1
<1>. QED
  BY SMTT(30), <1>2, ConcludedLocally

(* A request that is acknowledged keeps the history.                       *)
LEMMA AcknowledgementExplained ==
    ASSUME TypeOK, NEW i \in Node, NEW s, NEW m, NEW r, Step(i, s, {m}, {r}),
           m.type \in {"AppendEntries", "InstallSnapshot"}, Answers(i, m, r, TRUE),
           NEW voted, NEW bid, NEW led, NEW acked, Explains(node, msgs, voted, bid, led, acked),
           NEW acked2, AckedGrows(acked, acked2), LastSent(m) <= acked2[m.term][i],
           Fits(node, i, s, voted, bid, led, acked2), s.currentTerm >= node[i].currentTerm
    PROVE  History'
<1>1. MessageOK(With(node, i, s), voted, bid, led, acked2, r)
  BY AnswerExplained
<1>2. \A x \in {r} : MessageOK(With(node, i, s), voted, bid, led, acked2, x)
  BY <1>1
<1>3. IsLed(led) /\ IsAcked(acked)
  BY DEF Explains, Core, Types
<1>4. Later(node, voted, bid, led, acked, voted, bid, led, acked2)
  BY <1>3, LaterAcked
<1>. QED
  BY SMTT(30), SMTT(20), <1>2, <1>4, Concluded

(* HandleAppendEntries keeps the history: what it acknowledges it holds.   *)
LEMMA HandleAppendEntriesExplained ==
    ASSUME IndInv, History, NEW m \in msgs, NEW i \in Node, m.type = "AppendEntries",
           m.to = i, HandleAppendEntries(i, m)
    PROVE  History'
<1>. DEFINE s == node[i]
<1>1. /\ TypeOK /\ s.currentTerm \in Nat /\ NodeInv(s) /\ m.from \in Node /\ m.term \in Nat
      /\ m \in AppendEntriesMsg /\ m.type \in {"AppendEntries", "InstallSnapshot"}
  BY Received, InvNode, InvMessage
<1>2. PICK voted, bid, led, acked : /\ Explains(node, msgs, voted, bid, led, acked)
                                    /\ Fits(node, i, s, voted, bid, led, acked)
                                    /\ MessageOK(node, voted, bid, led, acked, m)
  BY Received
<1>3. RequestOK(voted, led, acked, m)
  BY <1>2 DEF MessageOK
<1>4. ValidAppendEntries(m)
  BY AppendEntriesCases
<1>5. ASSUME NEW r, Answers(i, m, r, FALSE), Step(i, s, {m}, {r}) PROVE History'
  <2>1. s.currentTerm >= node[i].currentTerm
    BY SMTT(30), <1>1
  <2>. HIDE DEF s
  <2>. QED
    BY <1>1, <1>2, <1>5, <2>1, RefusalExplained
<1>6. ASSUME NEW h, NEW r, Hears(s, m, h), h.state = "FOLLOWER",
             \/ Answers(i, m, r, FALSE) /\ Step(i, h, {m}, {r})
             \/ /\ PrefixMatches(s, m) /\ KeepsCommitted(s, m)
                /\ Answers(i, m, r, TRUE) /\ Step(i, AcceptEntries(h, m), {m}, {r})
      PROVE  History'
  <2>1. NodeBase(h) /\ SameStores(s, h) /\ h.currentTerm = m.term
    BY <1>1, <1>6, HearsInv
  <2>2. Fits(node, i, h, voted, bid, led, acked)
    BY <1>1, <1>2, <1>6, HearsAt
  <2>3. h.currentTerm >= node[i].currentTerm
    BY <2>1, <1>6 DEF Hears
  <2>4. CASE Answers(i, m, r, FALSE) /\ Step(i, h, {m}, {r})
    BY <1>1, <1>2, <2>2, <2>3, <2>4, RefusalExplained
  <2>5. CASE /\ PrefixMatches(s, m) /\ KeepsCommitted(s, m)
             /\ Answers(i, m, r, TRUE) /\ Step(i, AcceptEntries(h, m), {m}, {r})
    <3>. DEFINE t == AcceptEntries(h, m)
    <3>1. PrefixMatches(h, m) /\ KeepsCommitted(h, m)
      BY <2>1, <2>5, SameReading
    <3>2. PICK acked2 : /\ Fits(node, i, t, voted, bid, led, acked2)
                        /\ AckedGrows(acked, acked2)
                        /\ m.prevLogIndex + Len(m.entries) <= acked2[m.term][i]
      <4>1. h.state # "LEADER"
        BY <1>6
      <4>. QED
        BY <1>1, <1>3, <1>4, <2>1, <2>2, <3>1, <4>1, AcceptAt
    <3>3. LastSent(m) <= acked2[m.term][i]
      BY <3>2 DEF LastSent
    <3>4. t.currentTerm = h.currentTerm
      <4>1. m.term <= h.currentTerm
        BY SMTT(30), <1>1, <2>1
      <4>. QED
        BY <1>1, <1>4, <2>1, <3>1, <4>1, AcceptEntriesInv DEF SameElection
    <3>5. t.currentTerm >= node[i].currentTerm /\ Step(i, t, {m}, {r})
      BY <2>3, <2>5, <3>4
    <3>. HIDE DEF t, s
    <3>. QED
      BY <1>1, <1>2, <2>5, <3>2, <3>3, <3>5, AcknowledgementExplained
  <2>. QED
    BY <1>6, <2>4, <2>5
<1>7. \/ \E r : Answers(i, m, r, FALSE) /\ Step(i, s, {m}, {r})
      \/ \E h, r : /\ Hears(s, m, h) /\ h.state = "FOLLOWER"
                   /\ \/ Answers(i, m, r, FALSE) /\ Step(i, h, {m}, {r})
                      \/ /\ PrefixMatches(s, m) /\ KeepsCommitted(s, m)
                         /\ Answers(i, m, r, TRUE) /\ Step(i, AcceptEntries(h, m), {m}, {r})
  BY AppendEntriesCases
<1>. QED
  BY <1>5, <1>6, <1>7

(* HandleInstallSnapshot keeps the history: whether it installs a snapshot *)
(* or has it already, it holds what it acknowledges.                       *)
LEMMA HandleInstallSnapshotExplained ==
    ASSUME IndInv, History, NEW m \in msgs, NEW i \in Node, m.type = "InstallSnapshot",
           m.to = i, HandleInstallSnapshot(i, m)
    PROVE  History'
<1>. DEFINE s == node[i]
            e == m.lastIncludedIndex
<1>1. /\ TypeOK /\ s.currentTerm \in Nat /\ NodeInv(s) /\ m.from \in Node /\ m.term \in Nat
      /\ m \in InstallSnapshotMsg /\ GoodSnapshot(m)
      /\ m.type \in {"AppendEntries", "InstallSnapshot"}
  BY Received, InvNode, InvMessage
<1>2. PICK voted, bid, led, acked : /\ Explains(node, msgs, voted, bid, led, acked)
                                    /\ Fits(node, i, s, voted, bid, led, acked)
                                    /\ MessageOK(node, voted, bid, led, acked, m)
  BY Received
<1>3. RequestOK(voted, led, acked, m) /\ led[m.term] # <<>> /\ e \in Nat
  BY <1>1, <1>2 DEF MessageOK, RequestOK, InstallSnapshotMsg
<1>4. ASSUME NEW r, Answers(i, m, r, FALSE), Step(i, s, {m}, {r}) PROVE History'
  <2>1. s.currentTerm >= node[i].currentTerm
    BY SMTT(30), <1>1
  <2>. HIDE DEF s
  <2>. QED
    BY <1>1, <1>2, <1>4, <2>1, RefusalExplained
<1>5. ASSUME NEW h, NEW r, Hears(s, m, h),
             \/ Answers(i, m, r, FALSE) /\ Step(i, h, {m}, {r})
             \/ /\ Len(s.kv) >= e
                /\ Answers(i, m, r, TRUE) /\ Step(i, h, {m}, {r})
             \/ /\ Len(s.kv) < e /\ s.applyTo = 0
                /\ Answers(i, m, r, TRUE) /\ Step(i, InstallSnapshot(h, m), {m}, {r})
      PROVE  History'
  <2>1. /\ NodeInv(h) /\ NodeBase(h) /\ h.currentTerm = m.term
        /\ h.kv = s.kv /\ h.applyTo = s.applyTo
    <3>1. NodeInv(h) /\ NodeBase(h) /\ h.currentTerm = m.term /\ SameStores(s, h)
      BY <1>1, <1>5, HearsInv
    <3>. QED
      BY <3>1 DEF SameStores
  <2>2. Fits(node, i, h, voted, bid, led, acked)
    BY <1>1, <1>2, <1>5, HearsAt
  <2>3. h.currentTerm >= node[i].currentTerm
    BY <2>1, <1>5 DEF Hears
  <2>4. CASE Answers(i, m, r, FALSE) /\ Step(i, h, {m}, {r})
    BY <1>1, <1>2, <2>2, <2>3, <2>4, RefusalExplained
  <2>5. CASE Len(s.kv) >= e /\ Answers(i, m, r, TRUE) /\ Step(i, h, {m}, {r})
    <3>1. e <= Len(h.kv)
      <4>1. Len(h.kv) \in Nat
        BY SMTT(30), <2>1 DEF NodeBase, NodeState
      <4>. QED
        BY <1>3, <2>1, <2>5, <4>1
    <3>2. PICK acked2 : /\ Fits(node, i, h, voted, bid, led, acked2) /\ AckedGrows(acked, acked2)
                        /\ e <= acked2[m.term][i]
      BY <1>1, <1>3, <2>1, <2>2, <3>1, HeldAt
    <3>3. LastSent(m) <= acked2[m.term][i]
      BY <3>2 DEF LastSent
    <3>. HIDE DEF s, e
    <3>. QED
      BY <1>1, <1>2, <2>3, <2>5, <3>2, <3>3, AcknowledgementExplained
  <2>6. CASE /\ Len(s.kv) < e /\ s.applyTo = 0
             /\ Answers(i, m, r, TRUE) /\ Step(i, InstallSnapshot(h, m), {m}, {r})
    <3>. DEFINE t == InstallSnapshot(h, m)
    <3>1. h.state # "LEADER"
      BY <1>3, <2>1, <2>2, NotLeading
    <3>2. PICK acked2 : /\ Fits(node, i, t, voted, bid, led, acked2)
                        /\ AckedGrows(acked, acked2) /\ e <= acked2[m.term][i]
      BY <1>1, <1>3, <2>1, <2>2, <2>6, <3>1, InstallAt
    <3>3. LastSent(m) <= acked2[m.term][i]
      BY <3>2 DEF LastSent
    <3>4. t.currentTerm = h.currentTerm
      <4>1. m.term <= h.currentTerm /\ Len(h.kv) < e /\ h.applyTo = 0
        BY SMTT(30), <1>1, <2>1, <2>6
      <4>. QED
        BY <1>1, <2>1, <4>1, InstallSnapshotInv DEF SameElection
    <3>5. t.currentTerm >= node[i].currentTerm /\ Step(i, t, {m}, {r})
      BY <2>3, <2>6, <3>4
    <3>. HIDE DEF t, s, e
    <3>. QED
      BY <1>1, <1>2, <2>6, <3>2, <3>3, <3>5, AcknowledgementExplained
  <2>. QED
    BY <1>5, <2>4, <2>5, <2>6
<1>6. \/ \E r : Answers(i, m, r, FALSE) /\ Step(i, s, {m}, {r})
      \/ \E h, r : /\ Hears(s, m, h)
                   /\ \/ Answers(i, m, r, FALSE) /\ Step(i, h, {m}, {r})
                      \/ /\ Len(s.kv) >= e
                         /\ Answers(i, m, r, TRUE) /\ Step(i, h, {m}, {r})
                      \/ /\ Len(s.kv) < e /\ s.applyTo = 0
                         /\ Answers(i, m, r, TRUE) /\ Step(i, InstallSnapshot(h, m), {m}, {r})
  BY InstallSnapshotCases
<1>. QED
  BY <1>4, <1>5, <1>6

(* A leader that notes a successful answer, with or without advancing its  *)
(* commit index, keeps the history.                                        *)
LEMMA ProgressExplained ==
    ASSUME IndInv, History, NEW m \in msgs, NEW i \in Node,
           m.type \in {"AppendEntriesResponse", "InstallSnapshotResponse"}, m.success,
           node[i].state = "LEADER", m.term = node[i].currentTerm,
           NEW k \in Nat, k = Larger(node[i].matchIndex[m.from], AckedIndex(m)),
           NEW a, \/ a = PeerAt(node[i], m.from, k, k + 1)
                  \/ a = AdvanceCommitIndex(PeerAt(node[i], m.from, k, k + 1)),
           NEW P, NEW up \in SUBSET Node, Sends(i, a, P, up, m)
    PROVE  History'
<1>. DEFINE s == node[i]
            from == m.from
            p == PeerAt(s, from, k, k + 1)
<1>1. TypeOK /\ s \in NodeState /\ s.currentTerm \in Nat /\ NodeInv(s) /\ from \in Node
  BY Received, InvNode
<1>2. PICK voted, bid, led, acked : /\ Explains(node, msgs, voted, bid, led, acked)
                                    /\ Fits(node, i, s, voted, bid, led, acked)
                                    /\ MessageOK(node, voted, bid, led, acked, m)
  BY Received
<1>3. k <= acked[s.currentTerm][from]
  <2>1. AckedIndex(m) <= acked[s.currentTerm][from]
    BY <1>2 DEF MessageOK
  <2>2. LeaderOK(voted, led, acked, i, s)
    BY <1>2, FitsNode DEF NodeOK
  <2>3. s.matchIndex[from] <= acked[s.currentTerm][from]
    BY <1>1, <2>2 DEF LeaderOK
  <2>. QED
    BY <2>1, <2>3 DEF Larger
<1>4. k <= Len(s.log) /\ Len(s.log) \in Nat
  BY <1>1, <1>2, <1>3, AckedInLog, NodeFields
<1>5. k + 1 \in Nat /\ k + 1 >= 1 /\ k + 1 <= Len(s.log) + 1
  BY SMTT(30), <1>4
<1>6. Fits(node, i, p, voted, bid, led, acked)
  BY <1>1, <1>2, <1>3, <1>5, PeerAtFits
<1>7. NodeBase(p) /\ p.state = "LEADER" /\ p.currentTerm = node[i].currentTerm
  <2>1. NodeBase(p) /\ SameBallot(s, p)
    BY <1>1, <1>5, PeerAtInv
  <2>. HIDE DEF p
  <2>. QED
    BY <2>1 DEF SameBallot
<1>8. CASE a = p
  BY <1>1, <1>2, <1>6, <1>7, <1>8, SendsExplained
<1>9. CASE a = AdvanceCommitIndex(p)
  <2>. HIDE DEF p
  <2>1. Fits(node, i, a, voted, bid, led, acked)
    BY <1>6, <1>7, <1>9, AdvanceAt
  <2>2. NodeBase(a) /\ a.state = "LEADER" /\ a.currentTerm = node[i].currentTerm
    BY <1>7, <1>9, AdvanceCommitIndexInv DEF NodeInv, SameElection
  <2>. QED
    BY <1>1, <1>2, <2>1, <2>2, SendsExplained
<1>. QED
  BY <1>8, <1>9

(* A leader that steps back in what it sends a peer keeps the history.     *)
LEMMA SteppedBack ==
    ASSUME NEW i \in Node, NEW s, NodeInv(s), s.state = "LEADER", NEW j \in Node,
           NEW next \in Nat, next >= 1, next <= Larger(s.matchIndex[j] + 1, s.nextIndex[j]),
           NEW voted, NEW bid, NEW led, NEW acked, Fits(node, i, s, voted, bid, led, acked)
    PROVE  LET p == PeerAt(s, j, s.matchIndex[j], next)
           IN /\ Fits(node, i, p, voted, bid, led, acked)
              /\ NodeBase(p) /\ p.state = "LEADER" /\ p.currentTerm = s.currentTerm
<1>1. /\ s \in NodeState /\ s.currentTerm \in Nat /\ Len(s.log) \in Nat
      /\ LeaderOK(voted, led, acked, i, s)
  BY FitsNode, NodeFields DEF NodeOK
<1>2. s.matchIndex[j] \in Nat /\ s.nextIndex[j] \in Nat
  BY <1>1 DEF NodeState
<1>3. s.matchIndex[j] <= acked[s.currentTerm][j] /\ s.nextIndex[j] <= Len(s.log) + 1
  BY SMTT(30), <1>1 DEF LeaderOK
<1>4. s.matchIndex[j] <= Len(s.log)
  BY <1>2, <1>3, AckedInLog
<1>5. next <= Len(s.log) + 1
  BY SMTT(30), <1>1, <1>2, <1>3, <1>4 DEF Larger
<1>6. Fits(node, i, PeerAt(s, j, s.matchIndex[j], next), voted, bid, led, acked)
  BY <1>2, <1>3, <1>5, PeerAtFits
<1>. DEFINE p == PeerAt(s, j, s.matchIndex[j], next)
<1>7. NodeBase(p) /\ SameBallot(s, p)
  BY <1>2, PeerAtInv
<1>. HIDE DEF p
<1>8. p.state = "LEADER" /\ p.currentTerm = s.currentTerm
  BY <1>7 DEF SameBallot
<1>. QED
  BY <1>6, <1>7, <1>8 DEF p

(* HandleAppendEntriesResponse keeps the history: a leader counts what its *)
(* peers have acknowledged, and commits an entry of its term once a quorum *)
(* has.                                                                    *)
LEMMA HandleAppendEntriesResponseExplained ==
    ASSUME IndInv, History, NEW m \in msgs, NEW i \in Node, m.type = "AppendEntriesResponse",
           HandleAppendEntriesResponse(i, m)
    PROVE  History'
<1>. DEFINE s == node[i]
            k == Larger(s.matchIndex[m.from], m.request.prevLogIndex + Len(m.request.entries))
<1>1. TypeOK /\ NodeInv(s) /\ m.from \in Node
  BY Received, InvNode
<1>2. CASE Step(i, BecomeFollower(s, m.term), {m}, {})
  BY <1>2, StepDownExplained
<1>3. ASSUME s.state = "LEADER", m.term = s.currentTerm, m.success, k \in Nat,
             NEW P, NEW up \in SUBSET Node,
             Sends(i, AdvanceCommitIndex(PeerAt(s, m.from, k, k + 1)), P, up, m)
      PROVE  History'
  <2>1. k = Larger(s.matchIndex[m.from], AckedIndex(m))
    BY DEF AckedIndex
  <2>2. m.type \in {"AppendEntriesResponse", "InstallSnapshotResponse"}
    OBVIOUS
  <2>. HIDE DEF k
  <2>. QED
    BY <1>3, <2>1, <2>2, ProgressExplained
<1>4. ASSUME s.state = "LEADER", NEW P, NEW up \in SUBSET Node, NEW next \in Nat, next >= 1,
             next <= Larger(s.matchIndex[m.from] + 1, s.nextIndex[m.from]),
             Sends(i, PeerAt(s, m.from, s.matchIndex[m.from], next), P, up, m)
      PROVE  History'
  <2>. DEFINE p == PeerAt(s, m.from, s.matchIndex[m.from], next)
  <2>1. PICK voted, bid, led, acked : /\ Explains(node, msgs, voted, bid, led, acked)
                                      /\ Fits(node, i, s, voted, bid, led, acked)
    BY Started
  <2>2. /\ Fits(node, i, p, voted, bid, led, acked)
        /\ NodeBase(p) /\ p.state = "LEADER" /\ p.currentTerm = s.currentTerm
    <3>. HIDE DEF s
    <3>. QED
      BY SMTT(30), SMTT(20), <1>1, <1>4, <2>1, SteppedBack
  <2>. HIDE DEF p
  <2>3. Sends(i, p, P, up, m)
    BY <1>4 DEF p
  <2>. QED
    BY <1>1, <2>1, <2>2, <2>3, SendsExplained
<1>5. \/ Step(i, BecomeFollower(s, m.term), {m}, {})
      \/ /\ s.state = "LEADER" /\ m.term = s.currentTerm /\ m.success /\ k \in Nat
         /\ \E P, up \in SUBSET Node :
              Sends(i, AdvanceCommitIndex(PeerAt(s, m.from, k, k + 1)), P, up, m)
      \/ /\ s.state = "LEADER"
         /\ \E P, up \in SUBSET Node, next \in Nat :
              /\ next >= 1 /\ next <= Larger(s.matchIndex[m.from] + 1, s.nextIndex[m.from])
              /\ Sends(i, PeerAt(s, m.from, s.matchIndex[m.from], next), P, up, m)
  BY AppendEntriesResponseCases
<1>. HIDE DEF k
<1>. QED
  BY <1>2, <1>3, <1>4, <1>5

(* HandleInstallSnapshotResponse keeps the history.                        *)
LEMMA HandleInstallSnapshotResponseExplained ==
    ASSUME IndInv, History, NEW m \in msgs, NEW i \in Node, m.type = "InstallSnapshotResponse",
           HandleInstallSnapshotResponse(i, m)
    PROVE  History'
<1>. DEFINE s == node[i]
            j == m.from
            k == Larger(s.matchIndex[j], m.request.lastIncludedIndex)
            p == PeerAt(s, j, s.matchIndex[j], s.nextIndex[j])
<1>1. TypeOK /\ NodeInv(s) /\ j \in Node /\ s \in NodeState /\ s.currentTerm \in Nat
  BY Received, InvNode
<1>2. CASE Step(i, BecomeFollower(s, m.term), {m}, {})
  BY <1>2, StepDownExplained
<1>3. ASSUME s.state = "LEADER", m.term = s.currentTerm, m.success, k \in Nat,
             NEW P, NEW up \in SUBSET Node, Sends(i, PeerAt(s, j, k, k + 1), P, up, m)
      PROVE  History'
  <2>1. k = Larger(s.matchIndex[j], AckedIndex(m))
    BY DEF AckedIndex
  <2>2. m.type \in {"AppendEntriesResponse", "InstallSnapshotResponse"}
    OBVIOUS
  <2>. HIDE DEF k
  <2>. QED
    BY <1>3, <2>1, <2>2, ProgressExplained
<1>4. ASSUME s.state = "LEADER", NEW P \in SUBSET Node,
             Step(i, s, {m}, Rpcs(s, P)) \/ Step(i, p, {m}, Rpcs(s, P))
      PROVE  History'
  <2>. DEFINE R == Rpcs(s, P)
  <2>1. PICK voted, bid, led, acked : /\ Explains(node, msgs, voted, bid, led, acked)
                                      /\ Fits(node, i, s, voted, bid, led, acked)
    BY Started
  <2>2. P \subseteq Node /\ \A n2 : \A r \in R : MessageOK(n2, voted, bid, led, acked, r)
    BY <2>1, RpcsExplained
  <2>3. Fits(node, i, p, voted, bid, led, acked) /\ p.currentTerm = s.currentTerm
    <3>1. s.matchIndex[j] \in Nat /\ s.nextIndex[j] \in Nat /\ s.nextIndex[j] >= 1
      BY <1>1 DEF NodeInv, NodeBase, NodeState
    <3>2. s.nextIndex[j] <= Larger(s.matchIndex[j] + 1, s.nextIndex[j])
      BY SMTT(30), <3>1 DEF Larger
    <3>. HIDE DEF s, j
    <3>. QED
      BY SMTT(30), <1>1, <1>4, <2>1, <3>1, <3>2, SteppedBack
  <2>. HIDE DEF R, p
  <2>4. s.currentTerm >= node[i].currentTerm /\ p.currentTerm >= node[i].currentTerm
    BY SMTT(30), <1>1, <2>3
  <2>5. CASE Step(i, s, {m}, R)
    BY <1>1, <2>1, <2>2, <2>4, <2>5, ConcludedLocally
  <2>6. CASE Step(i, p, {m}, R)
    BY <1>1, <2>1, <2>2, <2>3, <2>4, <2>6, ConcludedLocally
  <2>. QED
    BY <1>4, <2>5, <2>6 DEF R
<1>5. \/ Step(i, BecomeFollower(s, m.term), {m}, {})
      \/ /\ s.state = "LEADER" /\ m.term = s.currentTerm /\ m.success /\ k \in Nat
         /\ \E P, up \in SUBSET Node : Sends(i, PeerAt(s, j, k, k + 1), P, up, m)
      \/ /\ s.state = "LEADER"
         /\ \E P \in SUBSET Node : \/ Step(i, s, {m}, Rpcs(s, P))
                                   \/ Step(i, p, {m}, Rpcs(s, P))
  BY InstallSnapshotResponseCases
<1>. HIDE DEF k, p
<1>. QED
  BY <1>2, <1>3, <1>4, <1>5
=============================================================================
