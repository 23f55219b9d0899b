--------------------------- MODULE RaftNodeLemmas ---------------------------
(***************************************************************************)
(* What the member functions of RaftNode do to a node state: each keeps    *)
(* NodeBase or NodeInv, the invariant of one node, and leaves the fields   *)
(* it has nothing to do with alone.  So every callback keeps IndInv, the   *)
(* invariant of all nodes and messages.                                    *)
(***************************************************************************)
EXTENDS RaftNode, TLAPS

(* The provers get longer than the default for a leaf.                     *)
USE ZenonT(10), SMTT(20)

(* What the functions of the code that look for a smallest index rely on:  *)
(* Min is what it says.  It is proved in RaftNodeProofs (LeastExists), by  *)
(* well-founded induction, and reaches the lemmas here with NodeBase; the  *)
(* library's theorems in every context would slow all their proofs down.   *)
WellOrdered ==
    \A T \in SUBSET Nat : T # {} => Min(T) \in T /\ \A l \in T : Min(T) <= l

(* A sequence is a function on 1 .. its length.                            *)
LEMMA SeqLength ==
    ASSUME NEW S, NEW seq \in Seq(S)
    PROVE  /\ Len(seq) \in Nat
           /\ seq \in [1..Len(seq) -> S]
           /\ DOMAIN seq = 1..Len(seq)
BY SMTT(30)

(* An element of a sequence is of the type of its elements.                *)
LEMMA SeqElement ==
    ASSUME NEW S, NEW seq \in Seq(S), NEW n \in 1..Len(seq)
    PROVE  seq[n] \in S
BY SMTT(30)

(* A function on 1..n is a sequence of n elements.                         *)
LEMMA SeqFunction ==
    ASSUME NEW S, NEW n \in Nat, NEW f \in [1..n -> S]
    PROVE  f \in Seq(S) /\ Len(f) = n
BY SMTT(30)

(* Two sequences of the same elements are the same.                        *)
LEMMA SeqExtensional ==
    ASSUME NEW S, NEW a \in Seq(S), NEW b \in Seq(S), Len(a) = Len(b),
           \A i \in 1..Len(a) : a[i] = b[i]
    PROVE  a = b
BY SMTT(30)

(* One sequence appended to another.                                       *)
LEMMA SeqConcat ==
    ASSUME NEW S, NEW a \in Seq(S), NEW b \in Seq(S)
    PROVE  /\ a \o b \in Seq(S)
           /\ Len(a \o b) = Len(a) + Len(b)
           /\ \A i \in 1 .. Len(a) + Len(b) :
                (a \o b)[i] = IF i <= Len(a) THEN a[i] ELSE b[i - Len(a)]
BY SMTT(30)

(* Appending nothing.                                                      *)
LEMMA ConcatEmpty ==
    ASSUME NEW S, NEW a \in Seq(S)
    PROVE  a \o <<>> = a
BY SMTT(30)

(* The elements of a sequence from position m to position n.               *)
LEMMA SeqPart ==
    ASSUME NEW S, NEW seq, NEW m \in Int, NEW n \in Int, \A i \in m..n : seq[i] \in S
    PROVE  /\ SubSeq(seq, m, n) \in Seq(S)
           /\ Len(SubSeq(seq, m, n)) = IF m <= n THEN n - m + 1 ELSE 0
           /\ \A i \in 1 .. n - m + 1 : SubSeq(seq, m, n)[i] = seq[m + i - 1]
BY SMTT(30)

(* A snapshot whose data is the state of its last index, without an entry  *)
(* of a term above the sender's.                                           *)
GoodSnapshot(m) ==
    /\ Len(m.data) = m.lastIncludedIndex
    /\ \A k \in 1..Len(m.data) : m.data[k].term <= m.term

(* What holds of a node at every point inside a callback: the indexes are  *)
(* ordered, the state machine holds a prefix of the log, no entry is of a  *)
(* later term than the node, and what is in flight is good.                *)
NodeBase(s) ==
    /\ WellOrdered
    /\ s \in NodeState
    /\ s.snapshotIndex <= Len(s.kv)
    /\ Len(s.kv) <= s.commitIndex
    /\ s.commitIndex <= Len(s.log)
    /\ s.applyTo # 0 => Len(s.kv) < s.applyTo /\ s.applyTo <= s.commitIndex
    /\ \A j \in Node : s.nextIndex[j] >= 1
    /\ \A k \in 1..Len(s.kv) : s.kv[k] = s.log[k]
    /\ \A k \in 1..Len(s.log) : s.log[k].term <= s.currentTerm
    /\ \A j \in Node :
         s.inflight[j] # None /\ s.inflight[j].type = "InstallSnapshot"
             => GoodSnapshot(s.inflight[j])

(* What holds at the end of a callback: an idle node has applied everything*)
(* it knows to be committed.                                               *)
NodeInv(s) ==
    /\ NodeBase(s)
    /\ s.applyTo = 0 => Len(s.kv) = s.commitIndex

(* The fields that elections and the outgoing requests depend on.          *)
SameElection(s, t) ==
    /\ t.currentTerm = s.currentTerm /\ t.votedFor = s.votedFor
    /\ t.state = s.state /\ t.votes = s.votes /\ t.inflight = s.inflight

(* The fields that the databases and their use depend on.                  *)
SameStores(s, t) ==
    /\ t.log = s.log /\ t.kv = s.kv /\ t.snapshotIndex = s.snapshotIndex
    /\ t.commitIndex = s.commitIndex /\ t.applyTo = s.applyTo

(* Terms of the entries held are natural numbers.                          *)
LEMMA EntryTerm ==
    ASSUME NEW log \in Seq(Entry), NEW k \in 1..Len(log)
    PROVE  log[k] \in Entry /\ log[k].term \in Nat
<1>1. log[k] \in Entry
  BY SeqElement
<1>. QED
  BY <1>1 DEF Entry

(* A callback that leaves the stores alone, does not lower the term and has*)
(* only good snapshots in flight keeps the invariant of a node.            *)
LEMMA NodeBaseFrame ==
    ASSUME NEW s, NodeBase(s), NEW t \in NodeState, SameStores(s, t),
           t.currentTerm >= s.currentTerm,
           \A j \in Node : t.nextIndex[j] >= 1,
           \A j \in Node : t.inflight[j] # None /\ t.inflight[j].type = "InstallSnapshot"
                               => GoodSnapshot(t.inflight[j])
    PROVE  NodeBase(t) /\ (NodeInv(s) => NodeInv(t))
<1>1. s \in NodeState /\ s.currentTerm \in Nat /\ t.currentTerm \in Nat /\ s.log \in Seq(Entry)
  BY DEF NodeBase, NodeState
<1>2. ASSUME NEW k \in 1..Len(t.log) PROVE t.log[k].term <= t.currentTerm
  <2>1. s.log[k].term \in Nat
    BY <1>1, EntryTerm DEF SameStores
  <2>2. s.log[k].term <= s.currentTerm
    BY DEF NodeBase, SameStores
  <2>. QED
    BY SMTT(30), <1>1, <2>1, <2>2 DEF SameStores
<1>. QED
  BY <1>2 DEF NodeInv, NodeBase, SameStores

(* What BecomeFollower does to the fields: the vote is forgotten exactly   *)
(* when the term grows, the stores are untouched.                          *)
LEMMA BecomeFollowerFields ==
    ASSUME NEW s \in NodeState, NEW term \in Nat
    PROVE  LET t == BecomeFollower(s, term)
           IN /\ t \in NodeState
              /\ SameStores(s, t)
              /\ t.currentTerm >= s.currentTerm /\ t.currentTerm >= term
              /\ term > s.currentTerm => t.currentTerm = term /\ t.votedFor = None
              /\ term <= s.currentTerm => t.currentTerm = s.currentTerm /\ t.votedFor = s.votedFor
              /\ t.state = "FOLLOWER" /\ t.votes = {}
              /\ \A j \in Node : t.nextIndex[j] = 1 /\ t.inflight[j] = None
<1>. DEFINE t == BecomeFollower(s, term)
            larger == Larger(term, s.currentTerm)
            vote == IF term > s.currentTerm THEN None ELSE s.votedFor
<1>1. s.currentTerm \in Nat /\ s.votedFor \in Node \cup {None}
  BY DEF NodeState
<1>2. /\ larger \in Nat /\ larger >= s.currentTerm /\ larger >= term
      /\ term > s.currentTerm => larger = term /\ vote = None
      /\ term <= s.currentTerm => larger = s.currentTerm /\ vote = s.votedFor
      /\ vote \in Node \cup {None}
  BY SMTT(30), <1>1 DEF Larger
<1>3. t = [s EXCEPT !.currentTerm = larger, !.votedFor = vote,
                    !.state = "FOLLOWER", !.leaderId = None, !.votes = {},
                    !.nextIndex = [j \in Node |-> 1], !.matchIndex = [j \in Node |-> 0],
                    !.inflight = NoRpc]
  BY DEF BecomeFollower, NodeState
<1>. HIDE DEF larger, vote, t
<1>4. /\ t \in NodeState /\ SameStores(s, t) /\ t.currentTerm = larger /\ t.votedFor = vote
      /\ t.state = "FOLLOWER" /\ t.votes = {}
      /\ t.nextIndex = [j \in Node |-> 1] /\ t.inflight = NoRpc
  BY <1>2, <1>3 DEF NodeState, State, SameStores, NoRpc
<1>5. \A j \in Node : t.nextIndex[j] = 1 /\ t.inflight[j] = None
  BY <1>4 DEF NoRpc
<1>6. /\ t \in NodeState
      /\ SameStores(s, t)
      /\ t.currentTerm >= s.currentTerm /\ t.currentTerm >= term
      /\ term > s.currentTerm => t.currentTerm = term /\ t.votedFor = None
      /\ term <= s.currentTerm => t.currentTerm = s.currentTerm /\ t.votedFor = s.votedFor
      /\ t.state = "FOLLOWER" /\ t.votes = {}
      /\ \A j \in Node : t.nextIndex[j] = 1 /\ t.inflight[j] = None
  BY <1>2, <1>4, <1>5
<1>. QED
  BY <1>6 DEF t

(* Stepping down within the term keeps term and vote.                      *)
LEMMA StepDown ==
    ASSUME NEW s \in NodeState
    PROVE  LET t == BecomeFollower(s, s.currentTerm)
           IN /\ t \in NodeState /\ SameStores(s, t)
              /\ t.currentTerm = s.currentTerm /\ t.votedFor = s.votedFor
              /\ t.state = "FOLLOWER" /\ t.votes = {}
              /\ \A j \in Node : t.nextIndex[j] = 1 /\ t.inflight[j] = None
<1>1. s.currentTerm \in Nat /\ s.currentTerm <= s.currentTerm
  BY SMTT(30) DEF NodeState
<1>. DEFINE t == BecomeFollower(s, s.currentTerm)
<1>2. t \in NodeState /\ SameStores(s, t)
  BY <1>1, BecomeFollowerFields
<1>3. t.currentTerm = s.currentTerm /\ t.votedFor = s.votedFor
  BY <1>1, BecomeFollowerFields
<1>4. /\ t.state = "FOLLOWER" /\ t.votes = {}
      /\ \A j \in Node : t.nextIndex[j] = 1 /\ t.inflight[j] = None
  BY SMTT(30), <1>1, BecomeFollowerFields
<1>. QED
  BY <1>2, <1>3, <1>4

(* BecomeFollower keeps the invariant of a node.                           *)
LEMMA BecomeFollowerInv ==
    ASSUME NEW s, NodeBase(s), NEW term \in Nat
    PROVE  /\ NodeBase(BecomeFollower(s, term))
           /\ NodeInv(s) => NodeInv(BecomeFollower(s, term))
<1>1. s \in NodeState
  BY DEF NodeBase
<1>. DEFINE t == BecomeFollower(s, term)
<1>2. /\ t \in NodeState
      /\ SameStores(s, t)
      /\ t.currentTerm >= s.currentTerm
      /\ \A j \in Node : t.nextIndex[j] = 1 /\ t.inflight[j] = None
  BY SMTT(30), <1>1, BecomeFollowerFields
<1>. SUFFICES NodeBase(t) /\ (NodeInv(s) => NodeInv(t))
  OBVIOUS
<1>. HIDE DEF t
<1>3. \A j \in Node : t.nextIndex[j] >= 1
  BY SMTT(30), <1>2
<1>. QED
  BY <1>2, <1>3, NodeBaseFrame

(* Compaction keeps the invariant: it reaches what has been applied.       *)
LEMMA MaybeSnapshotInv ==
    ASSUME NEW s, NodeInv(s)
    PROVE  LET t == MaybeSnapshot(s)
           IN /\ NodeInv(t)
              /\ SameElection(s, t)
              /\ t.log = s.log /\ t.kv = s.kv /\ t.commitIndex = s.commitIndex
              /\ t.nextIndex = s.nextIndex /\ t.matchIndex = s.matchIndex
  BY DEF NodeInv, NodeBase, MaybeSnapshot, NodeState, SameElection

(* Appending the part of the log after kv, up to index n, to kv.           *)
LEMMA CatchUp ==
    ASSUME NEW log \in Seq(Entry), NEW kv \in Seq(Entry), NEW n \in Nat,
           Len(kv) <= n, n <= Len(log),
           \A k \in 1..Len(kv) : kv[k] = log[k]
    PROVE  LET new == kv \o SubSeq(log, Len(kv) + 1, n)
           IN /\ new \in Seq(Entry)
              /\ Len(new) = n
              /\ \A k \in 1..n : new[k] = log[k]
<1>. DEFINE tail == SubSeq(log, Len(kv) + 1, n)
<1>1. Len(kv) \in Nat /\ Len(log) \in Nat
  BY SeqLength
<1>2. \A k \in Len(kv) + 1 .. n : log[k] \in Entry
  BY SMTT(30), <1>1, EntryTerm
<1>3. /\ tail \in Seq(Entry)
      /\ Len(tail) = n - Len(kv)
      /\ \A k \in 1 .. n - Len(kv) : tail[k] = log[Len(kv) + k]
  BY SMTT(30), <1>1, <1>2, SeqPart
<1>. HIDE DEF tail
<1>4. /\ kv \o tail \in Seq(Entry)
      /\ Len(kv \o tail) = n
      /\ \A k \in 1..n : (kv \o tail)[k] = IF k <= Len(kv) THEN kv[k] ELSE tail[k - Len(kv)]
  BY SMTT(30), <1>1, <1>3, SeqConcat
<1>5. ASSUME NEW k \in 1..n PROVE (kv \o tail)[k] = log[k]
  BY SMTT(30), <1>1, <1>3, <1>4
<1>. QED
  BY <1>4, <1>5 DEF tail

(* ApplyCommitted catches the state machine up with the commit index, or   *)
(* leaves a batch with the executor, and restores the strict invariant.    *)
LEMMA ApplyCommittedInv ==
    ASSUME NEW s, NodeBase(s)
    PROVE  LET t == ApplyCommitted(s)
           IN /\ NodeInv(t)
              /\ SameElection(s, t)
              /\ t.log = s.log /\ t.commitIndex = s.commitIndex
              /\ t.nextIndex = s.nextIndex /\ t.matchIndex = s.matchIndex
<1>1. s \in NodeState
  BY DEF NodeBase
<1>2. /\ s.log \in Seq(Entry) /\ s.kv \in Seq(Entry)
      /\ s.commitIndex \in Nat /\ s.applyTo \in Nat /\ s.snapshotIndex \in Nat
      /\ Len(s.kv) \in Nat /\ Len(s.log) \in Nat
  BY <1>1, SeqLength DEF NodeState
<1>3. CASE s.applyTo # 0
  BY <1>3 DEF ApplyCommitted, NodeInv, SameElection
<1>4. CASE s.applyTo = 0 /\ Len(s.kv) < s.commitIndex /\ AsyncApply
  <2>. DEFINE to == Smaller(s.commitIndex, Len(s.kv) + MaxBatchEntries)
              t == [s EXCEPT !.applyTo = to]
  <2>1. to \in Nat /\ to # 0 /\ Len(s.kv) < to /\ to <= s.commitIndex
    BY SMTT(30), <1>2, <1>4, BoundAssumption DEF Smaller
  <2>2. ApplyCommitted(s) = t
    BY <1>4 DEF ApplyCommitted
  <2>. HIDE DEF to
  <2>3. NodeInv(t)
    BY <1>1, <2>1 DEF NodeInv, NodeBase, NodeState
  <2>4. /\ SameElection(s, t) /\ t.log = s.log /\ t.commitIndex = s.commitIndex
        /\ t.nextIndex = s.nextIndex /\ t.matchIndex = s.matchIndex
    BY <1>1 DEF NodeState, SameElection
  <2>. QED
    BY <2>2, <2>3, <2>4
<1>5. CASE s.applyTo = 0 /\ ~(Len(s.kv) < s.commitIndex /\ AsyncApply)
  <2>. DEFINE new == s.kv \o SubSeq(s.log, Len(s.kv) + 1, s.commitIndex)
              u == [s EXCEPT !.kv = new]
  <2>1. /\ new \in Seq(Entry)
        /\ Len(new) = s.commitIndex
        /\ \A k \in 1..s.commitIndex : new[k] = s.log[k]
    BY <1>2, CatchUp DEF NodeBase
  <2>2. ApplyCommitted(s) = MaybeSnapshot(u)
    BY <1>5 DEF ApplyCommitted
  <2>. HIDE DEF new
  <2>3. /\ u \in NodeState /\ u.kv = new
        /\ u.log = s.log /\ u.commitIndex = s.commitIndex /\ u.applyTo = s.applyTo
        /\ u.snapshotIndex = s.snapshotIndex /\ u.inflight = s.inflight
        /\ u.currentTerm = s.currentTerm /\ u.votedFor = s.votedFor
        /\ u.state = s.state /\ u.votes = s.votes
        /\ u.nextIndex = s.nextIndex /\ u.matchIndex = s.matchIndex
    BY <1>1, <2>1 DEF NodeState
  <2>. HIDE DEF u
  <2>4. NodeInv(u)
    BY SMTT(30), <1>2, <1>5, <2>1, <2>3 DEF NodeInv, NodeBase
  <2>5. QED
    BY SMTT(30), <2>2, <2>3, <2>4, MaybeSnapshotInv DEF SameElection
<1>. QED
  BY <1>3, <1>4, <1>5

(* The candidate for commitment is an index of the log.                    *)
LEMMA QuorumMatchType ==
    ASSUME WellOrdered, NEW s \in NodeState
    PROVE  QuorumMatch(s) \in 0..LastIndex(s)
<1>. DEFINE T == {k \in 0..LastIndex(s) :
                    \/ k = LastIndex(s)
                    \/ Cardinality({j \in Node : s.matchIndex[j] > k}) < QuorumSize}
<1>1. LastIndex(s) \in Nat
  BY SeqLength DEF LastIndex, NodeState
<1>2. T \in SUBSET Nat /\ LastIndex(s) \in T
  BY SMTT(30), <1>1
<1>3. Min(T) \in T
  BY <1>2 DEF WellOrdered
<1>. QED
  BY <1>3 DEF QuorumMatch

(* AdvanceCommitIndex commits an index of the log, and nothing else of the *)
(* leader changes but what applying changes.                               *)
LEMMA AdvanceCommitIndexInv ==
    ASSUME NEW s, NodeBase(s)
    PROVE  LET t == AdvanceCommitIndex(s)
           IN /\ NodeInv(t)
              /\ SameElection(s, t)
              /\ t.log = s.log
              /\ t.nextIndex = s.nextIndex /\ t.matchIndex = s.matchIndex
<1>. DEFINE candidate == QuorumMatch(s)
            u == IF candidate > s.commitIndex /\ GetTerm(s, candidate) = s.currentTerm
                 THEN [s EXCEPT !.commitIndex = candidate]
                 ELSE s
<1>1. s \in NodeState /\ Len(s.log) \in Nat /\ s.commitIndex \in Nat
  BY SeqLength DEF NodeBase, NodeState
<1>2. candidate \in 0..Len(s.log)
  BY <1>1, QuorumMatchType DEF LastIndex, NodeBase
<1>3. AdvanceCommitIndex(s) = ApplyCommitted(u)
  BY DEF AdvanceCommitIndex
<1>. HIDE DEF candidate
<1>4. /\ u \in NodeState
      /\ u.log = s.log /\ u.kv = s.kv /\ u.applyTo = s.applyTo
      /\ u.snapshotIndex = s.snapshotIndex /\ u.inflight = s.inflight
      /\ u.currentTerm = s.currentTerm /\ u.votedFor = s.votedFor
      /\ u.state = s.state /\ u.votes = s.votes
      /\ u.nextIndex = s.nextIndex /\ u.matchIndex = s.matchIndex
      /\ s.commitIndex <= u.commitIndex /\ u.commitIndex <= Len(s.log)
  <2>1. CASE candidate > s.commitIndex /\ GetTerm(s, candidate) = s.currentTerm
    <3>1. u = [s EXCEPT !.commitIndex = candidate]
      BY <2>1
    <3>2. candidate \in Nat /\ candidate <= Len(s.log) /\ s.commitIndex <= candidate
      BY SMTT(30), <1>1, <1>2, <2>1
    <3>. HIDE DEF u
    <3>. QED
      BY <1>1, <3>1, <3>2 DEF NodeState
  <2>2. CASE ~(candidate > s.commitIndex /\ GetTerm(s, candidate) = s.currentTerm)
    BY SMTT(30), <1>1, <2>2 DEF NodeBase
  <2>. QED
    BY <2>1, <2>2
<1>. HIDE DEF u
<1>5. NodeBase(u)
  <2>1. s.kv \in Seq(Entry) /\ Len(s.kv) \in Nat /\ u.commitIndex \in Nat /\ s.applyTo \in Nat
    BY <1>1, <1>4, SeqLength DEF NodeState
  <2>. QED
    BY SMTT(30), <1>1, <1>4, <2>1 DEF NodeBase
<1>. QED
  BY SMTT(30), <1>3, <1>4, <1>5, ApplyCommittedInv DEF SameElection

-----------------------------------------------------------------------------
(* Outgoing requests.                                                      *)

(* r is an RPC that node i, in state s, may have built.                    *)
OwnRpc(i, s, r) ==
    /\ r \in AppendEntriesMsg \cup InstallSnapshotMsg
    /\ r.type = "InstallSnapshot" => GoodSnapshot(r)
    /\ r.from = i
    /\ r.term = s.currentTerm

(* The term at an index is an integer, -1 when unknown.                    *)
LEMMA GetTermType ==
    ASSUME NEW s \in NodeState, NEW index \in Nat
    PROVE  GetTerm(s, index) \in Int
<1>1. s.log \in Seq(Entry) /\ Len(s.log) \in Nat /\ s.snapshotIndex \in Nat
  BY SeqLength DEF NodeState
<1>2. CASE index = 0 \/ index < s.snapshotIndex \/ index > Len(s.log)
  BY SMTT(30), <1>2 DEF GetTerm, LastIndex
<1>3. CASE index # 0 /\ ~(index < s.snapshotIndex) /\ ~(index > Len(s.log))
  <2>1. index \in 1..Len(s.log)
    BY SMTT(30), <1>1, <1>3
  <2>2. s.log[index].term \in Nat
    BY <1>1, <2>1, EntryTerm
  <2>3. GetTerm(s, index) = s.log[index].term
    BY <1>3 DEF GetTerm, LastIndex
  <2>. QED
    BY SMTT(30), <2>2, <2>3
<1>. QED
  BY <1>2, <1>3

(* What SubSeq takes out of a log.                                         *)
LEMMA LogPart ==
    ASSUME NEW log \in Seq(Entry), NEW m \in Nat \ {0}, NEW n \in Nat, n <= Len(log)
    PROVE  /\ SubSeq(log, m, n) \in Seq(Entry)
           /\ Len(SubSeq(log, m, n)) = IF m <= n THEN n - m + 1 ELSE 0
           /\ \A k \in 1 .. n - m + 1 : SubSeq(log, m, n)[k] = log[m + k - 1]
<1>1. Len(log) \in Nat
  BY SeqLength
<1>2. \A k \in m..n : log[k] \in Entry
  BY SMTT(30), <1>1, EntryTerm
<1>. QED
  BY SMTT(30), <1>2, SeqPart

(* The RPC SendAppendEntries builds is well formed, and carries the        *)
(* sender's name and term; a snapshot holds the state its last index stands*)
(* for.                                                                    *)
LEMMA NewRpcInv ==
    ASSUME NEW i \in Node, NEW s, NodeBase(s), NEW j \in Node
    PROVE  OwnRpc(i, s, NewRpc(i, s, j))
<1>1. s \in NodeState
  BY DEF NodeBase
<1>2. /\ s.log \in Seq(Entry) /\ Len(s.log) \in Nat /\ s.snapshotIndex \in Nat
      /\ s.currentTerm \in Nat /\ s.commitIndex \in Nat
      /\ s.nextIndex[j] \in Nat /\ s.nextIndex[j] >= 1
      /\ s.snapshotIndex <= Len(s.log)
  <2>1. /\ s.log \in Seq(Entry) /\ Len(s.log) \in Nat /\ s.snapshotIndex \in Nat
        /\ s.currentTerm \in Nat /\ s.commitIndex \in Nat
        /\ s.nextIndex \in [Node -> Nat] /\ s.kv \in Seq(Entry) /\ Len(s.kv) \in Nat
    BY <1>1, SeqLength DEF NodeState
  <2>. QED
    BY SMTT(30), <2>1 DEF NodeBase
<1>3. CASE s.snapshotIndex > 0 /\ s.nextIndex[j] <= s.snapshotIndex
  <2>. DEFINE data == SubSeq(s.log, 1, s.snapshotIndex)
  <2>1. /\ data \in Seq(Entry) /\ Len(data) = s.snapshotIndex
        /\ \A k \in 1..s.snapshotIndex : data[k] = s.log[k]
    BY SMTT(30), <1>2, <1>3, LogPart
  <2>2. \A k \in 1..Len(data) : data[k].term <= s.currentTerm
    BY SMTT(30), <1>2, <2>1 DEF NodeBase
  <2>3. GetTerm(s, s.snapshotIndex) \in Int
    BY <1>1, <1>2, GetTermType
  <2>4. NewRpc(i, s, j) =
            [type |-> "InstallSnapshot", term |-> s.currentTerm, from |-> i, to |-> j,
             lastIncludedIndex |-> s.snapshotIndex,
             lastIncludedTerm |-> GetTerm(s, s.snapshotIndex), data |-> data]
    BY <1>3 DEF NewRpc
  <2>. HIDE DEF data
  <2>. DEFINE r == NewRpc(i, s, j)
  <2>5. r \in InstallSnapshotMsg
    BY SMTT(30), <1>2, <2>1, <2>3, <2>4 DEF InstallSnapshotMsg
  <2>6. r.from = i /\ r.term = s.currentTerm /\ GoodSnapshot(r)
    BY SMTT(30), <1>2, <2>1, <2>2, <2>4 DEF GoodSnapshot
  <2>. QED
    BY <2>5, <2>6 DEF OwnRpc
<1>4. CASE ~(s.snapshotIndex > 0 /\ s.nextIndex[j] <= s.snapshotIndex)
  <2>. DEFINE previous == s.nextIndex[j] - 1
              last == Smaller(LastIndex(s), previous + MaxBatchEntries)
              entries == SubSeq(s.log, s.nextIndex[j], last)
  <2>a. previous \in Nat /\ s.nextIndex[j] \in Nat \ {0}
    BY SMTT(30), <1>2
  <2>. HIDE DEF previous
  <2>b. last \in Nat /\ last <= Len(s.log)
    BY SMTT(30), <1>2, <2>a, BoundAssumption DEF Smaller, LastIndex
  <2>1. /\ previous \in Nat /\ last \in Nat /\ last <= Len(s.log)
        /\ s.nextIndex[j] \in Nat \ {0}
    BY <2>a, <2>b
  <2>. HIDE DEF last
  <2>2. entries \in Seq(Entry)
    BY <1>2, <2>1, LogPart
  <2>. USE DEF last
  <2>3. GetTerm(s, previous) \in Int
    BY <1>1, <2>1, GetTermType
  <2>. USE DEF previous
  <2>4. NewRpc(i, s, j) =
            [type |-> "AppendEntries", term |-> s.currentTerm, from |-> i, to |-> j,
             prevLogIndex |-> previous, prevLogTerm |-> GetTerm(s, previous),
             entries |-> entries, leaderCommit |-> s.commitIndex]
    BY <1>4 DEF NewRpc
  <2>. HIDE DEF previous, last, entries
  <2>. DEFINE r == NewRpc(i, s, j)
  <2>5. r \in AppendEntriesMsg
    BY SMTT(30), <1>2, <2>1, <2>2, <2>3, <2>4 DEF AppendEntriesMsg
  <2>6. r.from = i /\ r.term = s.currentTerm /\ r.type = "AppendEntries"
    BY SMTT(30), <2>4
  <2>. QED
    BY <2>5, <2>6 DEF OwnRpc
<1>. QED
  BY <1>3, <1>4

(* SendAppendEntries only fills empty inflight slots, with RPCs of its own.*)
LEMMA SendAppendEntriesInv ==
    ASSUME NEW i \in Node, NEW s, NodeBase(s), NEW P, NEW up
    PROVE  LET t == SendAppendEntries(i, s, P, up)
           IN /\ NodeBase(t) /\ (NodeInv(s) => NodeInv(t))
              /\ SameStores(s, t)
              /\ t.currentTerm = s.currentTerm /\ t.votedFor = s.votedFor
              /\ t.state = s.state /\ t.votes = s.votes
              /\ t.nextIndex = s.nextIndex /\ t.matchIndex = s.matchIndex
              /\ \A j \in Node : t.inflight[j] = s.inflight[j] \/ OwnRpc(i, s, t.inflight[j])
<1>. DEFINE f == [j \in Node |-> IF j \in (P \cap up) \ {i} /\ s.inflight[j] = None
                                 THEN NewRpc(i, s, j) ELSE s.inflight[j]]
            t == [s EXCEPT !.inflight = f]
<1>1. s \in NodeState
  BY DEF NodeBase
<1>2. SendAppendEntries(i, s, P, up) = t
  BY <1>1 DEF SendAppendEntries, NodeState
<1>3. \A j \in Node : OwnRpc(i, s, NewRpc(i, s, j))
  BY NewRpcInv
<1>4. s.inflight \in [Node -> AppendEntriesMsg \cup InstallSnapshotMsg \cup {None}]
  BY <1>1 DEF NodeState
<1>5. \A j \in Node : f[j] = s.inflight[j] \/ OwnRpc(i, s, f[j])
  BY <1>3
<1>6. f \in [Node -> AppendEntriesMsg \cup InstallSnapshotMsg \cup {None}]
  <2>1. \A j \in Node : f[j] \in AppendEntriesMsg \cup InstallSnapshotMsg \cup {None}
    BY <1>4, <1>5 DEF OwnRpc
  <2>. QED
    BY <2>1
<1>. HIDE DEF f
<1>7. /\ t \in NodeState /\ SameStores(s, t) /\ t.inflight = f
      /\ t.currentTerm = s.currentTerm /\ t.votedFor = s.votedFor
      /\ t.state = s.state /\ t.votes = s.votes
      /\ t.nextIndex = s.nextIndex /\ t.matchIndex = s.matchIndex
  BY <1>1, <1>6 DEF NodeState, SameStores
<1>. HIDE DEF t
<1>8. \A j \in Node : t.inflight[j] # None /\ t.inflight[j].type = "InstallSnapshot"
                         => GoodSnapshot(t.inflight[j])
  BY <1>5, <1>7 DEF NodeBase, OwnRpc
<1>9. t.currentTerm >= s.currentTerm /\ \A j \in Node : t.nextIndex[j] >= 1
  BY SMTT(30), <1>1, <1>7 DEF NodeBase, NodeState
<1>10. NodeBase(t) /\ (NodeInv(s) => NodeInv(t))
  BY <1>7, <1>8, <1>9, NodeBaseFrame
<1>. QED
  BY <1>2, <1>5, <1>7, <1>10

(* Appending entries to a log keeps what is there.                         *)
LEMMA Grown ==
    ASSUME NEW log \in Seq(Entry), NEW more \in Seq(Entry)
    PROVE  /\ log \o more \in Seq(Entry)
           /\ Len(log \o more) = Len(log) + Len(more)
           /\ \A k \in 1..Len(log) : (log \o more)[k] = log[k]
           /\ \A k \in 1 .. Len(log) + Len(more) : k > Len(log) =>
                  /\ k - Len(log) \in 1..Len(more)
                  /\ (log \o more)[k] = more[k - Len(log)]
<1>1. Len(log) \in Nat /\ Len(more) \in Nat
  BY SeqLength
<1>. QED
  BY SMTT(30), <1>1, SeqConcat

(* A callback that only proposes leaves the election alone.                *)
SameBallot(s, t) ==
    /\ t.currentTerm = s.currentTerm /\ t.votedFor = s.votedFor
    /\ t.state = s.state /\ t.votes = s.votes

(* A leader with new entries of its term, before it replicates them.       *)
Proposed(i, s, cmds) ==
    [s EXCEPT !.log = s.log \o [k \in 1..Len(cmds) |-> [term |-> s.currentTerm, cmd |-> cmds[k]]],
              !.matchIndex = [s.matchIndex EXCEPT ![i] = LastIndex(s) + Len(cmds)]]

(* ProposeBatch first appends entries of its own term.                     *)
LEMMA ProposedInv ==
    ASSUME NEW i \in Node, NEW s, NodeBase(s), NEW cmds \in Seq(Command \cup {NoOp})
    PROVE  LET a == Proposed(i, s, cmds)
           IN /\ NodeBase(a) /\ SameBallot(s, a)
              /\ a.commitIndex = s.commitIndex /\ a.nextIndex = s.nextIndex
              /\ a.inflight = s.inflight
              /\ \A j \in Node : a.matchIndex[j] = IF j = i THEN LastIndex(s) + Len(cmds)
                                                   ELSE s.matchIndex[j]
              /\ Len(a.log) = Len(s.log) + Len(cmds)
              /\ \A k \in 1..Len(s.log) : a.log[k] = s.log[k]
              /\ \A k \in 1..Len(a.log) : k > Len(s.log) => a.log[k].term = s.currentTerm
              /\ \A up : ProposeBatch(i, s, cmds, up)
                           = AdvanceCommitIndex(BroadcastAppendEntries(i, a, up))
<1>. DEFINE entries == [k \in 1..Len(cmds) |-> [term |-> s.currentTerm, cmd |-> cmds[k]]]
            new == s.log \o entries
            match == [s.matchIndex EXCEPT ![i] = LastIndex(s) + Len(cmds)]
            a == [s EXCEPT !.log = new, !.matchIndex = match]
<1>0. Proposed(i, s, cmds) = a
  BY DEF Proposed
<1>1. /\ s \in NodeState /\ s.log \in Seq(Entry) /\ Len(s.log) \in Nat
      /\ s.currentTerm \in Nat /\ s.commitIndex \in Nat
      /\ s.kv \in Seq(Entry) /\ Len(s.kv) \in Nat /\ s.applyTo \in Nat
      /\ s.matchIndex \in [Node -> Nat]
  BY SeqLength DEF NodeBase, NodeState
<1>2. Len(cmds) \in Nat /\ \A k \in 1..Len(cmds) : cmds[k] \in Command \cup {NoOp}
  BY SeqLength, SeqElement
<1>3. \A k \in 1..Len(cmds) : entries[k] \in Entry /\ entries[k].term = s.currentTerm
  BY <1>1, <1>2 DEF Entry
<1>4. entries \in Seq(Entry) /\ Len(entries) = Len(cmds)
  BY SMTT(30), <1>2, <1>3, SeqFunction, SeqLength
<1>. HIDE DEF entries
<1>5. /\ new \in Seq(Entry) /\ Len(new) = Len(s.log) + Len(cmds)
      /\ \A k \in 1..Len(s.log) : new[k] = s.log[k]
      /\ \A k \in 1..Len(new) : k > Len(s.log) => new[k] = entries[k - Len(s.log)]
                                                  /\ k - Len(s.log) \in 1..Len(cmds)
  <2>1. /\ new \in Seq(Entry)
        /\ Len(new) = Len(s.log) + Len(entries)
        /\ \A k \in 1..Len(s.log) : new[k] = s.log[k]
        /\ \A k \in 1 .. Len(s.log) + Len(entries) : k > Len(s.log) =>
               /\ k - Len(s.log) \in 1..Len(entries)
               /\ new[k] = entries[k - Len(s.log)]
    BY <1>1, <1>4, Grown
  <2>. HIDE DEF new
  <2>. QED
    BY <1>4, <2>1
<1>6. match \in [Node -> Nat]
  BY SMTT(30), <1>1, <1>2 DEF LastIndex
<1>7. \A up : ProposeBatch(i, s, cmds, up)
                = AdvanceCommitIndex(BroadcastAppendEntries(i, a, up))
  BY <1>1 DEF ProposeBatch, NodeState, entries
<1>. HIDE DEF new, match
<1>8. /\ a \in NodeState /\ a.log = new /\ a.kv = s.kv /\ a.applyTo = s.applyTo
      /\ a.commitIndex = s.commitIndex /\ a.snapshotIndex = s.snapshotIndex
      /\ a.nextIndex = s.nextIndex /\ a.inflight = s.inflight
      /\ a.matchIndex = match /\ SameBallot(s, a)
  BY <1>1, <1>5, <1>6 DEF NodeState, SameBallot
<1>. HIDE DEF a
<1>9. \A k \in 1..Len(new) : k > Len(s.log) => new[k].term = s.currentTerm
  BY <1>3, <1>5
<1>10. \A k \in 1..Len(new) : new[k].term <= s.currentTerm
  <2>. SUFFICES ASSUME NEW k \in 1..Len(new) PROVE new[k].term <= s.currentTerm
    OBVIOUS
  <2>1. CASE k <= Len(s.log)
    <3>1. k \in 1..Len(s.log) /\ new[k] = s.log[k]
      BY SMTT(30), <1>1, <1>2, <1>5, <2>1
    <3>. QED
      BY <3>1 DEF NodeBase
  <2>2. CASE k > Len(s.log)
    BY SMTT(30), <1>1, <1>9, <2>2
  <2>. QED
    BY SMTT(30), <1>1, <1>2, <1>5, <2>1, <2>2
<1>11. \A k \in 1..Len(s.kv) : s.kv[k] = new[k]
  BY SMTT(30), <1>1, <1>5 DEF NodeBase
<1>12. s.commitIndex <= Len(new)
  BY SMTT(30), <1>1, <1>2, <1>5 DEF NodeBase
<1>13. NodeBase(a)
  BY SMTT(30), <1>1, <1>8, <1>10, <1>11, <1>12 DEF NodeBase, SameBallot
<1>14. \A j \in Node : a.matchIndex[j] = IF j = i THEN LastIndex(s) + Len(cmds)
                                         ELSE s.matchIndex[j]
  BY <1>1, <1>8 DEF match
<1>. QED
  BY <1>0, <1>5, <1>7, <1>8, <1>9, <1>13, <1>14

(* Then it replicates and commits.                                         *)
LEMMA ProposeBatchInv ==
    ASSUME NEW i \in Node, NEW s, NodeBase(s), NEW cmds \in Seq(Command \cup {NoOp}), NEW up
    PROVE  LET t == ProposeBatch(i, s, cmds, up)
           IN /\ NodeInv(t)
              /\ SameBallot(s, t)
              /\ \A j \in Node : t.inflight[j] = s.inflight[j] \/ OwnRpc(i, s, t.inflight[j])
<1>. DEFINE a == Proposed(i, s, cmds)
            b == BroadcastAppendEntries(i, a, up)
<1>1. /\ NodeBase(a) /\ SameBallot(s, a) /\ a.inflight = s.inflight
      /\ ProposeBatch(i, s, cmds, up) = AdvanceCommitIndex(b)
  BY SMTT(30), ProposedInv
<1>. HIDE DEF a
<1>2. /\ NodeBase(b) /\ SameBallot(s, b)
      /\ \A j \in Node : b.inflight[j] = s.inflight[j] \/ OwnRpc(i, a, b.inflight[j])
  BY SMTT(30), <1>1, SendAppendEntriesInv DEF BroadcastAppendEntries, SameBallot
<1>. HIDE DEF b
<1>3. \A r : OwnRpc(i, a, r) <=> OwnRpc(i, s, r)
  BY <1>1 DEF OwnRpc, SameBallot
<1>. QED
  BY SMTT(30), <1>1, <1>2, <1>3, AdvanceCommitIndexInv DEF SameBallot, SameElection

(* A node that has just won an election.                                   *)
Crowned(i, s) ==
    [s EXCEPT !.state = "LEADER", !.leaderId = i,
              !.nextIndex = [j \in Node |-> LastIndex(s) + 1],
              !.matchIndex = [j \in Node |-> IF j = i THEN LastIndex(s) ELSE 0],
              !.inflight = NoRpc]

(* BecomeLeader first takes office, and then proposes the empty command.   *)
LEMMA CrownedInv ==
    ASSUME NEW i \in Node, NEW s, NodeBase(s), NEW up
    PROVE  LET led == Crowned(i, s)
           IN /\ NodeBase(led) /\ SameStores(s, led) /\ led.state = "LEADER"
              /\ led.currentTerm = s.currentTerm /\ led.votedFor = s.votedFor
              /\ led.votes = s.votes
              /\ \A j \in Node : /\ led.matchIndex[j] = IF j = i THEN LastIndex(s) ELSE 0
                                 /\ led.inflight[j] = None
                                 /\ led.nextIndex[j] = LastIndex(s) + 1
              /\ <<NoOp>> \in Seq(Command \cup {NoOp})
              /\ BecomeLeader(i, s, up) = ProposeBatch(i, led, <<NoOp>>, up)
<1>. DEFINE next == [j \in Node |-> LastIndex(s) + 1]
            match == [j \in Node |-> IF j = i THEN LastIndex(s) ELSE 0]
            led == [s EXCEPT !.state = "LEADER", !.leaderId = i, !.nextIndex = next,
                             !.matchIndex = match, !.inflight = NoRpc]
<1>0. Crowned(i, s) = led
  BY DEF Crowned
<1>1. s \in NodeState /\ LastIndex(s) \in Nat /\ s.currentTerm \in Nat
  BY SeqLength DEF NodeBase, NodeState, LastIndex
<1>2. BecomeLeader(i, s, up) = ProposeBatch(i, led, <<NoOp>>, up)
  BY DEF BecomeLeader
<1>. HIDE DEF next, match
<1>3. /\ led \in NodeState /\ SameStores(s, led) /\ led.state = "LEADER"
      /\ led.currentTerm = s.currentTerm /\ led.votedFor = s.votedFor /\ led.votes = s.votes
      /\ led.nextIndex = next /\ led.inflight = NoRpc /\ led.matchIndex = match
  <2>1. next \in [Node -> Nat] /\ match \in [Node -> Nat]
    BY SMTT(30), <1>1 DEF next, match
  <2>2. NoRpc \in [Node -> AppendEntriesMsg \cup InstallSnapshotMsg \cup {None}]
    BY DEF NoRpc
  <2>3. "LEADER" \in State
    BY DEF State
  <2>. QED
    BY <1>1, <2>1, <2>2, <2>3 DEF NodeState, SameStores
<1>. HIDE DEF led
<1>4. led.currentTerm >= s.currentTerm /\ \A j \in Node : led.nextIndex[j] >= 1 /\ led.inflight[j] = None
  BY SMTT(30), <1>1, <1>3 DEF NoRpc, next
<1>5. NodeBase(led)
  BY <1>3, <1>4, NodeBaseFrame
<1>6. <<NoOp>> \in Seq(Command \cup {NoOp})
  BY SMTT(30)
<1>7. \A j \in Node : /\ led.matchIndex[j] = IF j = i THEN LastIndex(s) ELSE 0
                      /\ led.inflight[j] = None
                      /\ led.nextIndex[j] = LastIndex(s) + 1
  BY <1>3, <1>4 DEF next, match
<1>. QED
  BY <1>0, <1>2, <1>3, <1>5, <1>6, <1>7

(* BecomeLeader keeps the term and the votes; its first RPCs are its own.  *)
LEMMA BecomeLeaderInv ==
    ASSUME NEW i \in Node, NEW s, NodeBase(s), NEW up
    PROVE  LET t == BecomeLeader(i, s, up)
           IN /\ NodeInv(t)
              /\ t.currentTerm = s.currentTerm /\ t.votedFor = s.votedFor
              /\ t.state = "LEADER" /\ t.votes = s.votes
              /\ \A j \in Node : t.inflight[j] = None \/ OwnRpc(i, s, t.inflight[j])
<1>. DEFINE led == Crowned(i, s)
            t == ProposeBatch(i, led, <<NoOp>>, up)
<1>1. /\ NodeBase(led) /\ led.state = "LEADER"
      /\ led.currentTerm = s.currentTerm /\ led.votedFor = s.votedFor
      /\ led.votes = s.votes /\ \A j \in Node : led.inflight[j] = None
      /\ <<NoOp>> \in Seq(Command \cup {NoOp}) /\ BecomeLeader(i, s, up) = t
  BY SMTT(30), CrownedInv
<1>. HIDE DEF led
<1>2. \A r : OwnRpc(i, led, r) <=> OwnRpc(i, s, r)
  BY <1>1 DEF OwnRpc
<1>3. /\ NodeInv(t) /\ SameBallot(led, t)
      /\ \A j \in Node : t.inflight[j] = led.inflight[j] \/ OwnRpc(i, led, t.inflight[j])
  BY <1>1, ProposeBatchInv
<1>. HIDE DEF t
<1>. QED
  BY <1>1, <1>2, <1>3 DEF SameBallot

(* BecomeCandidate votes for itself in a new term.                         *)
LEMMA BecomeCandidateInv ==
    ASSUME NEW i \in Node, NEW s, NodeInv(s), NEW up
    PROVE  LET t == BecomeCandidate(i, s, up)
           IN /\ NodeInv(t)
              /\ t.currentTerm = s.currentTerm + 1 /\ t.votedFor = i /\ t.votes = {i}
              /\ t.state = IF QuorumSize = 1 THEN "LEADER" ELSE "CANDIDATE"
              /\ \A j \in Node :
                   \/ t.inflight[j] \in {None, s.inflight[j]}
                   \/ t.state = "LEADER" /\ OwnRpc(i, t, t.inflight[j])
<1>. DEFINE c == [s EXCEPT !.currentTerm = @ + 1, !.votedFor = i,
                           !.state = "CANDIDATE", !.leaderId = None, !.votes = {i}]
<1>1. s \in NodeState /\ s.currentTerm \in Nat
  BY DEF NodeInv, NodeBase, NodeState
<1>2. /\ c \in NodeState /\ SameStores(s, c) /\ c.state = "CANDIDATE"
      /\ c.currentTerm = s.currentTerm + 1 /\ c.votedFor = i /\ c.votes = {i}
      /\ c.nextIndex = s.nextIndex /\ c.inflight = s.inflight
  <2>1. "CANDIDATE" \in State /\ {i} \in SUBSET Node /\ s.currentTerm + 1 \in Nat
    BY SMTT(30), <1>1 DEF State
  <2>. QED
    BY <1>1, <2>1 DEF NodeState, SameStores
<1>3. BecomeCandidate(i, s, up) = IF QuorumSize = 1 THEN BecomeLeader(i, c, up) ELSE c
  BY DEF BecomeCandidate
<1>. HIDE DEF c
<1>4. NodeInv(c) /\ NodeBase(c)
  <2>1. c.currentTerm >= s.currentTerm
    BY SMTT(30), <1>1, <1>2
  <2>2. /\ NodeBase(s)
        /\ \A j \in Node : c.nextIndex[j] >= 1
        /\ \A j \in Node : c.inflight[j] # None /\ c.inflight[j].type = "InstallSnapshot"
                              => GoodSnapshot(c.inflight[j])
    BY <1>2 DEF NodeInv, NodeBase
  <2>3. NodeBase(c) /\ (NodeInv(s) => NodeInv(c))
    BY <1>2, <2>1, <2>2, NodeBaseFrame
  <2>. QED
    BY <2>3
<1>5. CASE QuorumSize = 1
  <2>. DEFINE t == BecomeLeader(i, c, up)
  <2>1. /\ NodeInv(t)
        /\ t.currentTerm = c.currentTerm /\ t.votedFor = c.votedFor
        /\ t.state = "LEADER" /\ t.votes = c.votes
        /\ \A j \in Node : t.inflight[j] = None \/ OwnRpc(i, c, t.inflight[j])
    BY <1>4, BecomeLeaderInv
  <2>. HIDE DEF t
  <2>2. \A r : OwnRpc(i, c, r) <=> OwnRpc(i, t, r)
    BY <2>1 DEF OwnRpc
  <2>3. BecomeCandidate(i, s, up) = t
    BY <1>3, <1>5 DEF t
  <2>. QED
    BY <1>2, <1>5, <2>1, <2>2, <2>3
<1>6. CASE QuorumSize # 1
  BY <1>2, <1>3, <1>4, <1>6
<1>. QED
  BY <1>5, <1>6

(* BecomePreCandidate keeps the invariant of a node.                       *)
LEMMA BecomePreCandidateInv ==
    ASSUME NEW i \in Node, NEW s, NodeInv(s), NEW up
    PROVE  LET t == BecomePreCandidate(i, s, up)
           IN /\ NodeInv(t)
              /\ QuorumSize # 1 => /\ t.currentTerm = s.currentTerm
                                   /\ t.votedFor = s.votedFor
                                   /\ t.state = "PRE_CANDIDATE"
                                   /\ t.inflight = s.inflight
              /\ QuorumSize = 1 => t = BecomeCandidate(i, s, up)
<1>. DEFINE p == [s EXCEPT !.state = "PRE_CANDIDATE", !.leaderId = None, !.votes = {i}]
<1>1. s \in NodeState /\ s.currentTerm \in Nat
  BY DEF NodeInv, NodeBase, NodeState
<1>2. /\ p \in NodeState /\ SameStores(s, p) /\ p.currentTerm = s.currentTerm
      /\ p.nextIndex = s.nextIndex /\ p.inflight = s.inflight
      /\ p.votedFor = s.votedFor /\ p.state = "PRE_CANDIDATE"
  BY <1>1 DEF NodeState, SameStores, State
<1>3. BecomePreCandidate(i, s, up) = IF QuorumSize = 1 THEN BecomeCandidate(i, s, up) ELSE p
  BY DEF BecomePreCandidate
<1>. HIDE DEF p
<1>4. NodeInv(p)
  <2>1. p.currentTerm >= s.currentTerm
    BY SMTT(30), <1>1, <1>2
  <2>2. /\ NodeBase(s)
        /\ \A j \in Node : p.nextIndex[j] >= 1
        /\ \A j \in Node : p.inflight[j] # None /\ p.inflight[j].type = "InstallSnapshot"
                              => GoodSnapshot(p.inflight[j])
    BY <1>2 DEF NodeInv, NodeBase
  <2>3. NodeBase(p) /\ (NodeInv(s) => NodeInv(p))
    BY <1>2, <2>1, <2>2, NodeBaseFrame
  <2>. QED
    BY <2>3
<1>. QED
  BY SMTT(30), <1>2, <1>3, <1>4, BecomeCandidateInv

(* Recovery needs of a state only that its databases are consistent.       *)
LEMMA RecoveredInv ==
    ASSUME NEW s \in NodeState, WellOrdered,
           s.snapshotIndex <= Len(s.kv), Len(s.kv) <= Len(s.log),
           \A k \in 1..Len(s.kv) : s.kv[k] = s.log[k],
           \A k \in 1..Len(s.log) : s.log[k].term <= s.currentTerm
    PROVE  /\ NodeInv(Recovered(s))
           /\ Recovered(s).currentTerm = s.currentTerm
           /\ Recovered(s).votedFor = s.votedFor
           /\ Recovered(s).state = "FOLLOWER" /\ Recovered(s).votes = {}
           /\ \A j \in Node : Recovered(s).inflight[j] = None
<1>. DEFINE f == BecomeFollower(s, s.currentTerm)
            t == [f EXCEPT !.commitIndex = Len(s.kv), !.applyTo = 0]
<1>1. s.currentTerm \in Nat /\ Len(s.kv) \in Nat /\ Len(s.log) \in Nat
  BY SeqLength DEF NodeState
<1>2. /\ f \in NodeState /\ SameStores(s, f)
      /\ f.currentTerm = s.currentTerm /\ f.votedFor = s.votedFor
      /\ f.state = "FOLLOWER" /\ f.votes = {}
      /\ \A j \in Node : f.nextIndex[j] = 1 /\ f.inflight[j] = None
  BY StepDown
<1>3. Recovered(s) = t
  BY DEF Recovered
<1>. HIDE DEF f
<1>4. /\ t \in NodeState
      /\ t.log = s.log /\ t.kv = s.kv /\ t.snapshotIndex = s.snapshotIndex
      /\ t.commitIndex = Len(s.kv) /\ t.applyTo = 0
      /\ t.currentTerm = s.currentTerm /\ t.votedFor = s.votedFor
      /\ t.state = "FOLLOWER" /\ t.votes = {}
      /\ t.nextIndex = f.nextIndex /\ t.inflight = f.inflight
  BY <1>1, <1>2 DEF NodeState, SameStores
<1>. HIDE DEF t
<1>5. \A j \in Node : t.nextIndex[j] = 1 /\ t.inflight[j] = None
  BY <1>2, <1>4
<1>6. NodeBase(t)
  BY SMTT(30), <1>1, <1>4, <1>5 DEF NodeBase
<1>7. NodeInv(t)
  BY <1>4, <1>6 DEF NodeInv
<1>. QED
  BY <1>3, <1>4, <1>5, <1>7

-----------------------------------------------------------------------------
(* What HandleAppendEntries makes of the log.                              *)

(* A known term is that of an entry of the log, or of the empty log.       *)
LEMMA TermKnown ==
    ASSUME NEW s \in NodeState, NEW index \in Nat, GetTerm(s, index) # -1
    PROVE  index <= Len(s.log)
  BY SMTT(30) DEF GetTerm, LastIndex, NodeState

(* What the checks of HandleAppendEntries establish about a request.       *)
LEMMA EntriesValid ==
    ASSUME NEW m \in AppendEntriesMsg, ValidAppendEntries(m)
    PROVE  /\ m.prevLogTerm # -1 /\ m.prevLogIndex \in Nat /\ m.term \in Nat
           /\ m.entries \in Seq(Entry) /\ m.leaderCommit \in Nat
           /\ \A k \in 1..Len(m.entries) : m.entries[k].term <= m.term
<1>1. /\ m.prevLogIndex \in Nat /\ m.term \in Nat /\ m.leaderCommit \in Nat
      /\ m.entries \in Seq(Entry)
  BY DEF AppendEntriesMsg
<1>2. m.prevLogTerm \in 0..m.term
  BY DEF ValidAppendEntries
<1>3. m.prevLogTerm # -1
  BY SMTT(30), <1>1, <1>2
<1>4. ASSUME NEW k \in 1..Len(m.entries) PROVE m.entries[k].term <= m.term
  <2>1. k # 0
    BY SMTT(30)
  <2>2. m.entries[k].term \in 1..m.term
    BY <2>1 DEF ValidAppendEntries
  <2>. QED
    BY SMTT(30), <1>1, <2>2
<1>. QED
  BY <1>1, <1>3, <1>4

(* The first conflict lies in the log, past what the request presupposes   *)
(* and past everything committed.                                          *)
LEMMA TruncatedInv ==
    ASSUME WellOrdered, NEW s \in NodeState, NEW m \in AppendEntriesMsg,
           m.prevLogIndex <= Len(s.log), s.commitIndex <= Len(s.log), KeepsCommitted(s, m)
    PROVE  /\ Truncated(s, m) \in Seq(Entry)
           /\ m.prevLogIndex <= Len(Truncated(s, m))
           /\ s.commitIndex <= Len(Truncated(s, m))
           /\ Len(Truncated(s, m)) <= Len(s.log)
           /\ \A k \in 1..Len(Truncated(s, m)) : Truncated(s, m)[k] = s.log[k]
<1>1. /\ s.log \in Seq(Entry) /\ Len(s.log) \in Nat /\ s.commitIndex \in Nat
      /\ m.prevLogIndex \in Nat /\ m.entries \in Seq(Entry) /\ Len(m.entries) \in Nat
  BY SeqLength DEF NodeState, AppendEntriesMsg
<1>2. CASE Conflicts(s, m) = {}
  BY SMTT(30), <1>1, <1>2 DEF Truncated
<1>3. CASE Conflicts(s, m) # {}
  <2>. DEFINE c == Min(Conflicts(s, m))
  <2>1. Conflicts(s, m) \in SUBSET Nat
    BY SMTT(30), <1>1 DEF Conflicts
  <2>2. c \in Conflicts(s, m)
    BY <1>3, <2>1 DEF WellOrdered
  <2>. HIDE DEF c
  <2>3. c \in Nat /\ c > m.prevLogIndex /\ GetTerm(s, c) # -1
    BY SMTT(30), <1>1, <2>2 DEF Conflicts
  <2>4. c <= Len(s.log)
    BY <2>3, TermKnown
  <2>5. c > s.commitIndex
    BY <2>2 DEF KeepsCommitted
  <2>6. c - 1 \in Nat /\ c - 1 <= Len(s.log)
    BY SMTT(30), <1>1, <2>3, <2>4
  <2>. DEFINE kept == SubSeq(s.log, 1, c - 1)
  <2>7. /\ kept \in Seq(Entry)
        /\ Len(kept) = IF 1 <= c - 1 THEN c - 1 - 1 + 1 ELSE 0
        /\ \A k \in 1 .. c - 1 - 1 + 1 : kept[k] = s.log[1 + k - 1]
    BY SMTT(30), <1>1, <2>6, LogPart
  <2>8. Truncated(s, m) = kept
    BY <1>3 DEF Truncated, c
  <2>. HIDE DEF kept
  <2>9. Len(kept) = c - 1
    BY SMTT(30), <2>6, <2>7
  <2>10. \A k \in 1..c - 1 : kept[k] = s.log[k]
    BY SMTT(30), <2>6, <2>7
  <2>. QED
    BY SMTT(30), <1>1, <2>3, <2>4, <2>5, <2>7, <2>8, <2>9, <2>10
<1>. QED
  BY <1>2, <1>3

(* Where an append of the entries past the end leads.                      *)
LEMMA Reach ==
    ASSUME NEW previous \in Nat, NEW count \in Nat, NEW kept \in Nat, NEW more \in Nat,
           NEW first, NEW total, previous <= kept,
           first = kept - previous + 1, total = kept + more,
           first <= count => more = count - first + 1,
           first > count => more = 0
    PROVE  previous + count <= total
  BY SMTT(30)

(* The log after an accepted request covers the request, keeps what was    *)
(* committed, and has no entry of a term above T if neither side had.      *)
LEMMA AppendedInv ==
    ASSUME WellOrdered, NEW s \in NodeState, NEW m \in AppendEntriesMsg, NEW T \in Nat,
           m.prevLogIndex <= Len(s.log), s.commitIndex <= Len(s.log), KeepsCommitted(s, m),
           \A k \in 1..Len(s.log) : s.log[k].term <= T,
           \A k \in 1..Len(m.entries) : m.entries[k].term <= T
    PROVE  /\ Appended(s, m) \in Seq(Entry)
           /\ m.prevLogIndex + Len(m.entries) <= Len(Appended(s, m))
           /\ s.commitIndex <= Len(Appended(s, m))
           /\ \A k \in 1..s.commitIndex : Appended(s, m)[k] = s.log[k]
           /\ \A k \in 1..Len(Appended(s, m)) : Appended(s, m)[k].term <= T
<1>. DEFINE kept == Truncated(s, m)
            first == Len(kept) - m.prevLogIndex + 1
            more == SubSeq(m.entries, first, Len(m.entries))
            new == kept \o more
<1>1. /\ s.log \in Seq(Entry) /\ Len(s.log) \in Nat /\ s.commitIndex \in Nat
      /\ m.prevLogIndex \in Nat /\ m.entries \in Seq(Entry) /\ Len(m.entries) \in Nat
  BY SeqLength DEF NodeState, AppendEntriesMsg
<1>2. /\ kept \in Seq(Entry) /\ Len(kept) \in Nat
      /\ m.prevLogIndex <= Len(kept) /\ s.commitIndex <= Len(kept)
      /\ Len(kept) <= Len(s.log)
      /\ \A k \in 1..Len(kept) : kept[k] = s.log[k]
  BY TruncatedInv, SeqLength
<1>3. Appended(s, m) = new
  BY DEF Appended
<1>. HIDE DEF kept
<1>4. first \in Nat \ {0}
  BY SMTT(30), <1>1, <1>2
<1>. HIDE DEF first
<1>5. /\ more \in Seq(Entry) /\ Len(more) \in Nat
      /\ Len(more) = IF first <= Len(m.entries) THEN Len(m.entries) - first + 1 ELSE 0
      /\ \A k \in 1 .. Len(m.entries) - first + 1 : more[k] = m.entries[first + k - 1]
  <2>1. Len(m.entries) <= Len(m.entries)
    BY SMTT(30), <1>1
  <2>. QED
    BY SMTT(30), <1>1, <1>4, <2>1, LogPart, SeqLength
<1>. HIDE DEF more
<1>6. /\ new \in Seq(Entry)
      /\ Len(new) = Len(kept) + Len(more)
      /\ \A k \in 1..Len(kept) : new[k] = kept[k]
      /\ \A k \in 1 .. Len(kept) + Len(more) : k > Len(kept) =>
             /\ k - Len(kept) \in 1..Len(more)
             /\ new[k] = more[k - Len(kept)]
  BY <1>2, <1>5, Grown
<1>. HIDE DEF new
<1>7. m.prevLogIndex + Len(m.entries) <= Len(new)
  <2>1. first = Len(kept) - m.prevLogIndex + 1 /\ Len(new) = Len(kept) + Len(more)
    BY <1>6 DEF first
  <2>2. /\ m.prevLogIndex \in Nat /\ Len(m.entries) \in Nat /\ Len(kept) \in Nat
        /\ m.prevLogIndex <= Len(kept)
    BY <1>1, <1>2
  <2>3. /\ first <= Len(m.entries) => Len(more) = Len(m.entries) - first + 1
        /\ first > Len(m.entries) => Len(more) = 0
    BY SMTT(30), <1>1, <1>4, <1>5
  <2>. QED
    BY SMTT(30), <1>5, <2>1, <2>2, <2>3, Reach
<1>8. ASSUME NEW k \in 1..Len(new) PROVE new[k].term <= T
  <2>1. CASE k <= Len(kept)
    <3>1. k \in 1..Len(kept) /\ k \in 1..Len(s.log)
      BY SMTT(30), <1>1, <1>2, <2>1
    <3>2. new[k] = s.log[k]
      BY <1>2, <1>6, <3>1
    <3>. QED
      BY <3>1, <3>2
  <2>2. CASE k > Len(kept)
    <3>. DEFINE l == k - Len(kept)
    <3>1. l \in 1..Len(more) /\ new[k] = more[l]
      BY <1>6, <2>2
    <3>. HIDE DEF l
    <3>2. /\ first \in Nat \ {0} /\ Len(m.entries) \in Nat
          /\ Len(more) = IF first <= Len(m.entries) THEN Len(m.entries) - first + 1 ELSE 0
      BY <1>1, <1>4, <1>5
    <3>3. l \in 1 .. Len(m.entries) - first + 1 /\ first + l - 1 \in 1..Len(m.entries)
      BY SMTT(30), <3>1, <3>2
    <3>4. more[l] = m.entries[first + l - 1]
      BY <1>5, <3>3
    <3>. QED
      BY <3>1, <3>3, <3>4
  <2>. QED
    BY SMTT(30), <1>2, <1>5, <1>6, <2>1, <2>2
<1>9. s.commitIndex <= Len(new) /\ \A k \in 1..s.commitIndex : new[k] = s.log[k]
  <2>1. s.commitIndex <= Len(new)
    BY SMTT(30), <1>1, <1>2, <1>5, <1>6
  <2>2. ASSUME NEW k \in 1..s.commitIndex PROVE new[k] = s.log[k]
    <3>1. k \in 1..Len(kept)
      BY SMTT(30), <1>1, <1>2
    <3>. QED
      BY <1>2, <1>6, <3>1
  <2>. QED
    BY <2>1, <2>2
<1>. QED
  BY <1>3, <1>6, <1>7, <1>8, <1>9

(* Accepting a request keeps the invariant of a node.                      *)
LEMMA AcceptEntriesInv ==
    ASSUME NEW s, NodeBase(s), NEW m \in AppendEntriesMsg, ValidAppendEntries(m),
           m.term <= s.currentTerm, PrefixMatches(s, m), KeepsCommitted(s, m)
    PROVE  NodeInv(AcceptEntries(s, m)) /\ SameElection(s, AcceptEntries(s, m))
<1>. DEFINE matched == m.prevLogIndex + Len(m.entries)
            commit == Larger(s.commitIndex, Smaller(m.leaderCommit, matched))
            new == Appended(s, m)
            a == [s EXCEPT !.log = new, !.commitIndex = commit]
<1>1. /\ s \in NodeState /\ s.log \in Seq(Entry) /\ Len(s.log) \in Nat
      /\ s.currentTerm \in Nat /\ s.commitIndex \in Nat /\ s.applyTo \in Nat
      /\ s.kv \in Seq(Entry) /\ Len(s.kv) \in Nat
      /\ s.commitIndex <= Len(s.log)
  BY SeqLength DEF NodeBase, NodeState
<1>2. /\ m.prevLogTerm # -1 /\ m.prevLogIndex \in Nat /\ m.term \in Nat
      /\ m.entries \in Seq(Entry) /\ Len(m.entries) \in Nat /\ m.leaderCommit \in Nat
      /\ \A k \in 1..Len(m.entries) : m.entries[k].term <= m.term
  BY EntriesValid, SeqLength
<1>3. m.prevLogIndex <= Len(s.log)
  BY <1>1, <1>2, TermKnown DEF PrefixMatches
<1>4. ASSUME NEW k \in 1..Len(m.entries) PROVE m.entries[k].term <= s.currentTerm
  <2>1. m.entries[k].term <= m.term /\ m.entries[k].term \in Nat
    BY <1>2, EntryTerm
  <2>. QED
    BY SMTT(30), <1>1, <1>2, <2>1
<1>5. \A k \in 1..Len(s.log) : s.log[k].term <= s.currentTerm
  BY DEF NodeBase
<1>6. /\ new \in Seq(Entry) /\ Len(new) \in Nat
      /\ matched <= Len(new) /\ s.commitIndex <= Len(new)
      /\ \A k \in 1..s.commitIndex : new[k] = s.log[k]
      /\ \A k \in 1..Len(new) : new[k].term <= s.currentTerm
  <2>1. WellOrdered
    BY DEF NodeBase
  <2>. QED
    BY <1>1, <1>3, <1>4, <1>5, <2>1, AppendedInv, SeqLength
<1>. HIDE DEF new
<1>7. commit \in Nat /\ s.commitIndex <= commit /\ commit <= Len(new)
  BY SMTT(30), <1>1, <1>2, <1>6 DEF Larger, Smaller
<1>8. AcceptEntries(s, m) = ApplyCommitted(a)
  BY <1>1 DEF AcceptEntries, NodeState, new
<1>. HIDE DEF commit
<1>9. /\ a \in NodeState /\ a.log = new /\ a.commitIndex = commit
      /\ a.kv = s.kv /\ a.applyTo = s.applyTo /\ a.snapshotIndex = s.snapshotIndex
      /\ a.nextIndex = s.nextIndex /\ SameElection(s, a)
  BY <1>1, <1>6, <1>7 DEF NodeState, SameElection
<1>. HIDE DEF a
<1>10. ASSUME NEW k \in 1..Len(s.kv) PROVE s.kv[k] = new[k]
  <2>1. k \in 1..s.commitIndex /\ s.kv[k] = s.log[k]
    BY SMTT(30), <1>1 DEF NodeBase
  <2>. QED
    BY <1>6, <2>1
<1>11. NodeBase(a)
  <2>1. /\ a.snapshotIndex <= Len(a.kv) /\ Len(a.kv) <= a.commitIndex
        /\ a.commitIndex <= Len(a.log)
        /\ a.applyTo # 0 => Len(a.kv) < a.applyTo /\ a.applyTo <= a.commitIndex
    BY SMTT(30), <1>1, <1>7, <1>9 DEF NodeBase
  <2>. QED
    BY <1>6, <1>9, <1>10, <2>1 DEF NodeBase, SameElection
<1>12. NodeInv(ApplyCommitted(a)) /\ SameElection(a, ApplyCommitted(a))
  BY <1>11, ApplyCommittedInv
<1>13. SameElection(s, ApplyCommitted(a))
  BY <1>9, <1>12 DEF SameElection
<1>. QED
  BY <1>8, <1>12, <1>13

(* A rejection names an index of the log or 0.                             *)
LEMMA RejectHintType ==
    ASSUME WellOrdered, NEW s \in NodeState, NEW m \in AppendEntriesMsg
    PROVE  RejectHint(s, m) \in Nat
<1>. DEFINE p == m.prevLogIndex
            T == {k \in Larger(1, s.snapshotIndex) .. p :
                    \A l \in k..p : GetTerm(s, l) = GetTerm(s, p)}
            conflict == IF GetTerm(s, p) > 0 THEN ConflictIndex(s, p) ELSE s.snapshotIndex
<1>1. /\ s.snapshotIndex \in Nat /\ Len(s.log) \in Nat /\ p \in Nat
      /\ Larger(1, s.snapshotIndex) \in Nat
  BY SeqLength DEF NodeState, AppendEntriesMsg, Larger
<1>2. conflict \in Nat
  <2>1. CASE GetTerm(s, p) > 0
    <3>1. p # 0 /\ s.snapshotIndex <= p
      <4>1. GetTerm(s, p) # 0 /\ GetTerm(s, p) # -1
        BY SMTT(30), <2>1
      <4>. QED
        BY SMTT(30), <1>1, <4>1 DEF GetTerm
    <3>2. p \in Larger(1, s.snapshotIndex) .. p
      BY SMTT(30), <1>1, <3>1 DEF Larger
    <3>3. \A l \in p..p : GetTerm(s, l) = GetTerm(s, p)
      BY SMTT(30), <1>1
    <3>4. p \in T /\ T \in SUBSET Nat
      BY SMTT(30), <1>1, <3>2, <3>3
    <3>5. Min(T) \in Nat
      BY <3>4 DEF WellOrdered
    <3>6. ConflictIndex(s, p) = Min(T)
      BY DEF ConflictIndex
    <3>. QED
      BY <2>1, <3>5, <3>6
  <2>2. CASE ~(GetTerm(s, p) > 0)
    BY <1>1, <2>2
  <2>. QED
    BY <2>1, <2>2
<1>3. RejectHint(s, m) = IF p > LastIndex(s) THEN LastIndex(s)
                         ELSE IF conflict > 0 THEN conflict - 1 ELSE 0
  BY DEF RejectHint
<1>. HIDE DEF conflict
<1>. QED
  BY SMTT(30), <1>1, <1>2, <1>3 DEF LastIndex

(* A snapshot's state followed by the part of the log beyond it.           *)
LEMMA SuffixKept ==
    ASSUME NEW s \in NodeState, NEW m \in InstallSnapshotMsg,
           Len(m.data) = m.lastIncludedIndex, m.lastIncludedIndex <= Len(s.log),
           \A k \in 1..Len(s.log) : s.log[k].term <= s.currentTerm,
           \A k \in 1..m.lastIncludedIndex : m.data[k].term <= s.currentTerm
    PROVE  LET new == m.data \o SubSeq(s.log, m.lastIncludedIndex + 1, Len(s.log))
           IN /\ new \in Seq(Entry) /\ Len(new) \in Nat /\ m.lastIncludedIndex <= Len(new)
              /\ \A k \in 1..m.lastIncludedIndex : new[k] = m.data[k]
              /\ \A k \in 1..Len(new) : new[k].term <= s.currentTerm
<1>. DEFINE log == s.log
            data == m.data
            n == m.lastIncludedIndex
            T == s.currentTerm
            rest == SubSeq(log, n + 1, Len(log))
            new == data \o rest
<1>1. /\ log \in Seq(Entry) /\ data \in Seq(Entry) /\ n \in Nat /\ Len(log) \in Nat
      /\ Len(data) = n /\ n <= Len(log)
      /\ \A k \in 1..Len(log) : log[k].term <= T
      /\ \A k \in 1..n : data[k].term <= T
  BY SeqLength DEF NodeState, InstallSnapshotMsg
<1>. HIDE DEF log, data, n, T
<1>2. \A k \in n + 1 .. Len(log) : log[k] \in Entry
  BY SMTT(30), <1>1, EntryTerm
<1>3. /\ rest \in Seq(Entry)
      /\ Len(rest) = Len(log) - n
      /\ \A k \in 1 .. Len(log) - n : rest[k] = log[n + k]
  BY SMTT(30), <1>1, <1>2, SeqPart
<1>. HIDE DEF rest
<1>4. /\ new \in Seq(Entry)
      /\ Len(new) = Len(data) + Len(rest)
      /\ \A k \in 1..Len(data) : new[k] = data[k]
      /\ \A k \in 1 .. Len(data) + Len(rest) : k > Len(data) =>
             /\ k - Len(data) \in 1..Len(rest)
             /\ new[k] = rest[k - Len(data)]
  BY <1>1, <1>3, Grown
<1>. HIDE DEF new
<1>5. Len(new) = Len(log)
  BY SMTT(30), <1>1, <1>3, <1>4
<1>6. ASSUME NEW k \in 1..Len(new) PROVE new[k].term <= T
  <2>1. CASE k <= n
    <3>1. k \in 1..n
      BY SMTT(30), <1>1, <1>5, <2>1
    <3>. QED
      BY <1>1, <1>4, <3>1
  <2>2. CASE k > n
    <3>1. k - n \in 1..Len(rest) /\ new[k] = rest[k - n]
      BY <1>1, <1>3, <1>4, <1>5, <2>2
    <3>2. rest[k - n] = log[k]
      BY SMTT(20), <1>1, <1>3, <3>1
    <3>. QED
      BY <1>1, <1>5, <3>1, <3>2
  <2>. QED
    BY SMTT(30), <1>1, <1>5, <2>1, <2>2
<1>7. n <= Len(new) /\ \A k \in 1..n : new[k] = data[k]
  BY <1>1, <1>4, <1>5
<1>8. new \in Seq(Entry) /\ Len(new) \in Nat
  BY <1>1, <1>4, <1>5
<1>. QED
  BY <1>6, <1>7, <1>8 DEF new, rest, log, data, n, T

(* Installing a snapshot ahead of the state machine keeps the invariant,   *)
(* with the suffix of the log kept or dropped.                             *)
LEMMA InstallSnapshotInv ==
    ASSUME NEW s, NodeInv(s), NEW m \in InstallSnapshotMsg, GoodSnapshot(m),
           m.term <= s.currentTerm, Len(s.kv) < m.lastIncludedIndex, s.applyTo = 0
    PROVE  NodeInv(InstallSnapshot(s, m)) /\ SameElection(s, InstallSnapshot(s, m))
<1>. DEFINE n == m.lastIncludedIndex
            keepSuffix == n <= LastIndex(s) /\ GetTerm(s, n) = m.lastIncludedTerm
            rest == SubSeq(s.log, n + 1, Len(s.log))
            new == IF keepSuffix THEN m.data \o rest ELSE m.data
            commit == Larger(s.commitIndex, n)
            t == [s EXCEPT !.kv = m.data, !.log = new, !.snapshotIndex = n,
                           !.commitIndex = commit]
<1>1. /\ s \in NodeState /\ NodeBase(s) /\ s.log \in Seq(Entry) /\ Len(s.log) \in Nat
      /\ s.currentTerm \in Nat /\ s.commitIndex \in Nat /\ Len(s.kv) \in Nat
      /\ s.commitIndex = Len(s.kv)
  BY SeqLength DEF NodeInv, NodeBase, NodeState
<1>2. /\ m.data \in Seq(Entry) /\ Len(m.data) = n /\ n \in Nat /\ m.term \in Nat
      /\ m.lastIncludedTerm \in Int
  BY DEF InstallSnapshotMsg, GoodSnapshot
<1>3. ASSUME NEW k \in 1..n PROVE m.data[k].term <= s.currentTerm
  <2>1. m.data[k].term <= m.term /\ m.data[k].term \in Nat
    BY <1>2, EntryTerm DEF GoodSnapshot
  <2>. QED
    BY SMTT(30), <1>1, <1>2, <2>1
<1>4. /\ new \in Seq(Entry) /\ Len(new) \in Nat /\ n <= Len(new)
      /\ \A k \in 1..n : new[k] = m.data[k]
      /\ \A k \in 1..Len(new) : new[k].term <= s.currentTerm
  <2>1. CASE ~keepSuffix
    BY SMTT(30), <1>2, <1>3, <2>1
  <2>2. CASE keepSuffix
    <3>1. new = m.data \o rest
      BY <2>2
    <3>2. n <= Len(s.log)
      BY <2>2 DEF LastIndex
    <3>3. \A k \in 1..Len(s.log) : s.log[k].term <= s.currentTerm
      BY <1>1 DEF NodeBase
    <3>4. \A k \in 1..n : m.data[k].term <= s.currentTerm
      BY <1>3
    <3>5. /\ m.data \o rest \in Seq(Entry) /\ Len(m.data \o rest) \in Nat
          /\ n <= Len(m.data \o rest)
          /\ \A k \in 1..n : (m.data \o rest)[k] = m.data[k]
          /\ \A k \in 1..Len(m.data \o rest) : (m.data \o rest)[k].term <= s.currentTerm
      BY <1>1, <1>2, <3>2, <3>3, <3>4, SuffixKept
    <3>. HIDE DEF new, rest
    <3>. QED
      BY <3>1, <3>5
  <2>. QED
    BY <2>1, <2>2
<1>5. InstallSnapshot(s, m) = t
  BY <1>1 DEF InstallSnapshot, NodeState
<1>. HIDE DEF new
<1>6. commit = n
  BY SMTT(30), <1>1, <1>2 DEF Larger
<1>. HIDE DEF commit, n
<1>7. /\ t \in NodeState /\ t.kv = m.data /\ t.log = new /\ t.snapshotIndex = n
      /\ t.commitIndex = n /\ t.applyTo = 0 /\ t.nextIndex = s.nextIndex
      /\ SameElection(s, t)
  BY <1>1, <1>2, <1>4, <1>6 DEF NodeState, SameElection
<1>. HIDE DEF t
<1>. QED
  <2>1. NodeBase(t)
    <3>1. /\ t.snapshotIndex <= Len(t.kv) /\ Len(t.kv) <= t.commitIndex
          /\ t.commitIndex <= Len(t.log) /\ t.applyTo = 0
      BY SMTT(30), <1>2, <1>4, <1>7
    <3>2. \A j \in Node : t.nextIndex[j] >= 1
      BY <1>1, <1>7 DEF NodeBase
    <3>3. \A k \in 1..Len(t.kv) : t.kv[k] = t.log[k]
      BY <1>2, <1>4, <1>7
    <3>4. \A k \in 1..Len(t.log) : t.log[k].term <= t.currentTerm
      BY <1>4, <1>7 DEF SameElection
    <3>5. \A j \in Node :
            t.inflight[j] # None /\ t.inflight[j].type = "InstallSnapshot"
                => GoodSnapshot(t.inflight[j])
      BY <1>1, <1>7 DEF NodeBase, SameElection
    <3>6. WellOrdered
      BY <1>1 DEF NodeBase
    <3>. QED
      BY <1>7, <3>1, <3>2, <3>3, <3>4, <3>5, <3>6 DEF NodeBase
  <2>2. NodeInv(t)
    BY <1>2, <1>7, <2>1 DEF NodeInv
  <2>. QED
    BY <1>5, <1>7, <2>2

(* Messages of a declared shape, with good snapshots.                      *)
SentOK(sent) ==
    \A m \in sent : m \in Message /\ (m.type = "InstallSnapshot" => GoodSnapshot(m))

(* TypeOK and StoresConsistent are not inductive: a snapshot is installed  *)
(* from a message, a batch is applied up to applyTo, and an entry is       *)
(* appended with the term its sender had.                                  *)
IndInv ==
    /\ TypeOK
    /\ \A i \in Node : NodeInv(node[i])
    /\ SentOK(msgs)

(* The invariant, for one node.                                            *)
LEMMA InvNode ==
    ASSUME IndInv, NEW i \in Node
    PROVE  /\ NodeInv(node[i]) /\ NodeBase(node[i]) /\ node[i] \in NodeState
           /\ node[i].currentTerm \in Nat /\ LastIndex(node[i]) \in Nat
  BY SeqLength DEF IndInv, NodeInv, NodeBase, NodeState, LastIndex

(* The invariant, for one message: its shape is that of its type.          *)
LEMMA InvMessage ==
    ASSUME IndInv, NEW m \in msgs
    PROVE  /\ m \in Message /\ m.from \in Node /\ m.to \in Node /\ m.term \in Nat
           /\ m.type = "RequestVote" => m \in RequestVoteMsg
           /\ m.type = "RequestVoteResponse" => m \in RequestVoteResponseMsg
           /\ m.type = "AppendEntries" => m \in AppendEntriesMsg
           /\ m.type = "AppendEntriesResponse" => m \in AppendEntriesResponseMsg
           /\ m.type = "InstallSnapshot" => m \in InstallSnapshotMsg /\ GoodSnapshot(m)
           /\ m.type = "InstallSnapshotResponse" => m \in InstallSnapshotResponseMsg
<1>1. m \in Message /\ (m.type = "InstallSnapshot" => GoodSnapshot(m))
  BY DEF IndInv, SentOK
<1>. QED
  BY <1>1 DEF Message, RequestVoteMsg, RequestVoteResponseMsg, AppendEntriesMsg,
              AppendEntriesResponseMsg, InstallSnapshotMsg, InstallSnapshotResponseMsg

(* Connected peers are nodes.                                              *)
LEMMA LinkNodes ==
    ASSUME NEW up \in Links
    PROVE  up \in SUBSET Node
  BY BoundAssumption

(* Changing the vote, the votes or the known leader disturbs nothing else. *)
LEMMA ElectionFieldsInv ==
    ASSUME NEW s, NodeInv(s), NEW v \in Node \cup {None}, NEW V \in SUBSET Node
    PROVE  /\ NodeInv([s EXCEPT !.votedFor = v])
           /\ NodeInv([s EXCEPT !.votes = V])
           /\ NodeInv([s EXCEPT !.leaderId = v])
           /\ SameStores(s, [s EXCEPT !.leaderId = v])
           /\ SameElection(s, [s EXCEPT !.leaderId = v])
<1>1. s \in NodeState
  BY DEF NodeInv, NodeBase
<1>2. NodeInv([s EXCEPT !.votedFor = v])
  BY <1>1 DEF NodeInv, NodeBase, NodeState
<1>3. NodeInv([s EXCEPT !.votes = V])
  BY <1>1 DEF NodeInv, NodeBase, NodeState
<1>4. NodeInv([s EXCEPT !.leaderId = v])
  BY <1>1 DEF NodeInv, NodeBase, NodeState
<1>5. SameStores(s, [s EXCEPT !.leaderId = v]) /\ SameElection(s, [s EXCEPT !.leaderId = v])
  BY <1>1 DEF NodeState, SameStores, SameElection
<1>. QED
  BY <1>2, <1>3, <1>4, <1>5

(* The reading of a request depends on the log and the snapshot only.      *)
LEMMA SameReading ==
    ASSUME NEW s, NEW t, SameStores(s, t), NEW m
    PROVE  /\ PrefixMatches(s, m) => PrefixMatches(t, m)
           /\ KeepsCommitted(s, m) => KeepsCommitted(t, m)
<1>1. \A k : GetTerm(s, k) = GetTerm(t, k)
  BY DEF SameStores, GetTerm, LastIndex
<1>2. Conflicts(s, m) = Conflicts(t, m)
  BY <1>1 DEF Conflicts
<1>. QED
  BY <1>1, <1>2 DEF SameStores, PrefixMatches, KeepsCommitted

(* The leader's record of one peer.                                        *)
LEMMA PeerFieldsInv ==
    ASSUME NEW s, NodeInv(s), NEW f, NEW g \in [Node -> Nat], NEW h \in [Node -> Nat],
           f \in [Node -> AppendEntriesMsg \cup InstallSnapshotMsg \cup {None}],
           \A j \in Node : h[j] >= 1,
           \A j \in Node : f[j] \in {None, s.inflight[j]}
    PROVE  LET t == [s EXCEPT !.inflight = f, !.matchIndex = g, !.nextIndex = h]
           IN NodeInv(t) /\ NodeBase(t)
<1>. DEFINE t == [s EXCEPT !.inflight = f, !.matchIndex = g, !.nextIndex = h]
<1>1. s \in NodeState /\ NodeBase(s) /\ s.currentTerm \in Nat
  BY DEF NodeInv, NodeBase, NodeState
<1>2. /\ t \in NodeState /\ SameStores(s, t) /\ SameBallot(s, t)
      /\ t.inflight = f /\ t.nextIndex = h
  BY <1>1 DEF NodeState, SameStores, SameBallot
<1>. HIDE DEF t
<1>3. \A j \in Node : t.inflight[j] # None /\ t.inflight[j].type = "InstallSnapshot"
                          => GoodSnapshot(t.inflight[j])
  BY <1>1, <1>2 DEF NodeBase
<1>4. t.currentTerm >= s.currentTerm /\ \A j \in Node : t.nextIndex[j] >= 1
  BY SMTT(30), <1>1, <1>2 DEF SameBallot
<1>5. NodeInv(t) /\ NodeBase(t)
  BY <1>1, <1>2, <1>3, <1>4, NodeBaseFrame
<1>. QED
  BY <1>5 DEF t

(* The new nextIndex after a rejection.                                    *)
LEMMA BackedOff ==
    ASSUME NEW match \in Nat, NEW next \in Nat, NEW hint \in Nat, next >= 1
    PROVE  /\ Larger(match + 1, Smaller(next - 1, hint + 1)) \in Nat
           /\ Larger(match + 1, Smaller(next - 1, hint + 1)) >= 1
           /\ Larger(match + 1, Smaller(next - 1, hint + 1)) <= Larger(match + 1, next)
  BY SMTT(30) DEF Larger, Smaller
-----------------------------------------------------------------------------
(* What the handlers of requests and responses come to, case by case.      *)

(* Peer j of a leader answered: nothing is in flight to it, and its two    *)
(* indexes are as given.                                                   *)
PeerAt(s, j, match, next) ==
    [s EXCEPT !.inflight = [s.inflight EXCEPT ![j] = None],
              !.matchIndex = [s.matchIndex EXCEPT ![j] = match],
              !.nextIndex = [s.nextIndex EXCEPT ![j] = next]]

(* Only what the leader knows of the peer changes.                         *)
LEMMA PeerAtInv ==
    ASSUME NEW s, NodeInv(s), NEW j \in Node, NEW match \in Nat, NEW next \in Nat, next >= 1
    PROVE  LET t == PeerAt(s, j, match, next)
           IN /\ NodeInv(t) /\ NodeBase(t) /\ SameBallot(s, t) /\ SameStores(s, t)
              /\ \A k \in Node :
                   /\ t.inflight[k] = IF k = j THEN None ELSE s.inflight[k]
                   /\ t.matchIndex[k] = IF k = j THEN match ELSE s.matchIndex[k]
                   /\ t.nextIndex[k] = IF k = j THEN next ELSE s.nextIndex[k]
<1>. DEFINE f == [s.inflight EXCEPT ![j] = None]
            g == [s.matchIndex EXCEPT ![j] = match]
            h == [s.nextIndex EXCEPT ![j] = next]
            t == [s EXCEPT !.inflight = f, !.matchIndex = g, !.nextIndex = h]
<1>1. /\ s \in NodeState
      /\ s.matchIndex \in [Node -> Nat] /\ s.nextIndex \in [Node -> Nat]
      /\ s.inflight \in [Node -> AppendEntriesMsg \cup InstallSnapshotMsg \cup {None}]
      /\ \A k \in Node : s.nextIndex[k] >= 1
  BY DEF NodeInv, NodeState, NodeBase
<1>2. /\ f \in [Node -> AppendEntriesMsg \cup InstallSnapshotMsg \cup {None}]
      /\ g \in [Node -> Nat] /\ h \in [Node -> Nat]
  BY <1>1
<1>3. \A k \in Node : /\ f[k] = IF k = j THEN None ELSE s.inflight[k]
                      /\ g[k] = IF k = j THEN match ELSE s.matchIndex[k]
                      /\ h[k] = IF k = j THEN next ELSE s.nextIndex[k]
  BY <1>1
<1>. HIDE DEF f, g, h
<1>4. \A k \in Node : h[k] >= 1 /\ f[k] \in {None, s.inflight[k]}
  BY <1>1, <1>3
<1>5. NodeInv(t) /\ NodeBase(t)
  BY <1>2, <1>4, PeerFieldsInv
<1>6. /\ SameBallot(s, t) /\ SameStores(s, t)
      /\ t.inflight = f /\ t.matchIndex = g /\ t.nextIndex = h
  BY <1>1 DEF NodeState, SameBallot, SameStores
<1>7. t = PeerAt(s, j, match, next)
  BY DEF PeerAt, f, g, h
<1>. HIDE DEF t
<1>. QED
  BY <1>3, <1>5, <1>6, <1>7

(* Node i ends the callback that received m by replicating to P from a.    *)
Sends(i, a, P, up, m) ==
    LET t == SendAppendEntries(i, a, P, up) IN Step(i, t, {m}, Rpcs(t, P \cap up))

(* HandleAppendEntriesResponse steps down, counts what was acknowledged,   *)
(* or backs off.                                                           *)
LEMMA AppendEntriesResponseCases ==
    ASSUME IndInv, NEW m \in msgs, NEW i \in Node, m.type = "AppendEntriesResponse",
           HandleAppendEntriesResponse(i, m)
    PROVE  LET s == node[i]
               acked == Larger(s.matchIndex[m.from], m.request.prevLogIndex + Len(m.request.entries))
           IN \/ Step(i, BecomeFollower(s, m.term), {m}, {})
              \/ /\ s.state = "LEADER" /\ m.term = s.currentTerm /\ m.success /\ acked \in Nat
                 /\ \E P, up \in SUBSET Node :
                      Sends(i, AdvanceCommitIndex(PeerAt(s, m.from, acked, acked + 1)), P, up, m)
              \/ /\ s.state = "LEADER"
                 /\ \E P, up \in SUBSET Node, next \in Nat :
                      /\ next >= 1 /\ next <= Larger(s.matchIndex[m.from] + 1, s.nextIndex[m.from])
                      /\ Sends(i, PeerAt(s, m.from, s.matchIndex[m.from], next), P, up, m)
<1>. DEFINE s == node[i]
            from == m.from
            match == Larger(s.matchIndex[from], m.request.prevLogIndex + Len(m.request.entries))
            back == Larger(s.matchIndex[from] + 1, Smaller(s.nextIndex[from] - 1, m.lastLogIndex + 1))
            counted == PeerAt(s, from, match, match + 1)
            rejected == PeerAt(s, from, s.matchIndex[from], back)
            Behind(a) == IF a.commitIndex > s.commitIndex THEN Node
                         ELSE IF match < LastIndex(s) THEN {from} ELSE {}
<1>1. /\ NodeBase(s) /\ s \in NodeState /\ from \in Node /\ m \in AppendEntriesResponseMsg
      /\ s.matchIndex \in [Node -> Nat] /\ s.nextIndex \in [Node -> Nat]
      /\ s.inflight \in [Node -> AppendEntriesMsg \cup InstallSnapshotMsg \cup {None}]
  BY InvNode, InvMessage DEF NodeState
<1>2. /\ m.lastLogIndex \in Nat /\ m.request.prevLogIndex \in Nat
      /\ Len(m.request.entries) \in Nat
  BY <1>1, SeqLength DEF AppendEntriesResponseMsg, AppendEntriesMsg
<1>3. /\ s.matchIndex[from] \in Nat /\ s.nextIndex[from] \in Nat /\ s.nextIndex[from] >= 1
  BY <1>1 DEF NodeBase
<1>4. /\ match \in Nat /\ back \in Nat /\ back >= 1
      /\ back <= Larger(s.matchIndex[from] + 1, s.nextIndex[from])
  <2>1. m.request.prevLogIndex + Len(m.request.entries) \in Nat
    BY SMTT(30), <1>2
  <2>2. \A a, b \in Nat : Larger(a, b) \in Nat
    BY DEF Larger
  <2>. QED
    BY <1>2, <1>3, <2>1, <2>2, BackedOff
<1>. DEFINE done == [s EXCEPT !.inflight[from] = None]
            c == [done EXCEPT !.matchIndex[from] = match, !.nextIndex[from] = match + 1]
            r == [done EXCEPT !.nextIndex[from] =
                     Larger(s.matchIndex[from] + 1, Smaller(@ - 1, m.lastLogIndex + 1))]
<1>5. c = counted
  BY <1>1 DEF NodeState, PeerAt
<1>6. r = rejected
  <2>1. [s.matchIndex EXCEPT ![from] = s.matchIndex[from]] = s.matchIndex
    BY <1>1
  <2>. QED
    BY <1>1, <2>1 DEF NodeState, PeerAt
<1>7. \/ Step(i, BecomeFollower(s, m.term), {m}, {})
      \/ /\ s.state = "LEADER" /\ m.term = s.currentTerm /\ m.success
         /\ \E up \in Links : Sends(i, AdvanceCommitIndex(c), Behind(AdvanceCommitIndex(c)), up, m)
      \/ s.state = "LEADER" /\ \E up \in Links : Sends(i, r, {from}, up, m)
  BY DEF HandleAppendEntriesResponse, Acknowledged, Sends
<1>. HIDE DEF c, r, counted, rejected, match, back
<1>8. Behind(AdvanceCommitIndex(c)) \in SUBSET Node /\ {from} \in SUBSET Node
  BY <1>1
<1>. HIDE DEF Behind, s, from
<1>9. \/ Step(i, BecomeFollower(s, m.term), {m}, {})
      \/ /\ s.state = "LEADER" /\ m.term = s.currentTerm /\ m.success
         /\ \E P, up \in SUBSET Node : Sends(i, AdvanceCommitIndex(counted), P, up, m)
      \/ s.state = "LEADER" /\ \E P, up \in SUBSET Node : Sends(i, rejected, P, up, m)
  BY <1>5, <1>6, <1>7, <1>8, LinkNodes
<1>10. (\E P, up \in SUBSET Node : Sends(i, rejected, P, up, m))
         => \E P, up \in SUBSET Node, next \in Nat :
              /\ next >= 1 /\ next <= Larger(s.matchIndex[from] + 1, s.nextIndex[from])
              /\ Sends(i, PeerAt(s, from, s.matchIndex[from], next), P, up, m)
  BY <1>4 DEF rejected
<1>. QED
  BY <1>4, <1>9, <1>10 DEF counted, match, s, from

(* HandleInstallSnapshotResponse steps down, counts the snapshot, or sends *)
(* it again.                                                               *)
LEMMA InstallSnapshotResponseCases ==
    ASSUME IndInv, NEW m \in msgs, NEW i \in Node, m.type = "InstallSnapshotResponse",
           HandleInstallSnapshotResponse(i, m)
    PROVE  LET s == node[i]
               acked == Larger(s.matchIndex[m.from], m.request.lastIncludedIndex)
           IN \/ Step(i, BecomeFollower(s, m.term), {m}, {})
              \/ /\ s.state = "LEADER" /\ m.term = s.currentTerm /\ m.success /\ acked \in Nat
                 /\ \E P, up \in SUBSET Node :
                      Sends(i, PeerAt(s, m.from, acked, acked + 1), P, up, m)
              \/ /\ s.state = "LEADER"
                 /\ \E P \in SUBSET Node :
                      \/ Step(i, s, {m}, Rpcs(s, P))
                      \/ Step(i, PeerAt(s, m.from, s.matchIndex[m.from], s.nextIndex[m.from]),
                              {m}, Rpcs(s, P))
<1>. DEFINE s == node[i]
            from == m.from
            match == Larger(s.matchIndex[from], m.request.lastIncludedIndex)
            d == [s EXCEPT !.inflight[from] = None]
            c == [d EXCEPT !.matchIndex[from] = match, !.nextIndex[from] = match + 1]
            done == PeerAt(s, from, s.matchIndex[from], s.nextIndex[from])
            installed == PeerAt(s, from, match, match + 1)
            behind == IF match < LastIndex(s) THEN {from} ELSE {}
<1>1. /\ s \in NodeState /\ from \in Node /\ m \in InstallSnapshotResponseMsg
      /\ s.matchIndex \in [Node -> Nat] /\ s.nextIndex \in [Node -> Nat]
      /\ s.inflight \in [Node -> AppendEntriesMsg \cup InstallSnapshotMsg \cup {None}]
  BY InvNode, InvMessage DEF NodeState
<1>2. match \in Nat
  <2>1. s.matchIndex[from] \in Nat /\ m.request.lastIncludedIndex \in Nat
    BY <1>1 DEF InstallSnapshotResponseMsg, InstallSnapshotMsg
  <2>. QED
    BY <2>1 DEF Larger
<1>3. c = installed
  BY <1>1 DEF NodeState, PeerAt
<1>4. d = done
  <2>1. /\ [s.matchIndex EXCEPT ![from] = s.matchIndex[from]] = s.matchIndex
        /\ [s.nextIndex EXCEPT ![from] = s.nextIndex[from]] = s.nextIndex
    BY <1>1
  <2>. QED
    BY <1>1, <2>1 DEF NodeState, PeerAt
<1>5. \/ Step(i, BecomeFollower(s, m.term), {m}, {})
      \/ /\ s.state = "LEADER" /\ m.term = s.currentTerm /\ m.success
         /\ \E up \in Links : Sends(i, c, behind, up, m)
      \/ /\ s.state = "LEADER"
         /\ \E up \in Links : Step(i, IF from \in up THEN s ELSE d, {m}, Rpcs(s, {from} \cap up))
  BY DEF HandleInstallSnapshotResponse, Sends
<1>. HIDE DEF c, d, installed, done, match
<1>6. behind \in SUBSET Node /\ \A up : {from} \cap up \in SUBSET Node
  BY <1>1
<1>. HIDE DEF behind, s, from
<1>7. (\E up \in Links : Sends(i, c, behind, up, m))
        => \E P, up \in SUBSET Node : Sends(i, installed, P, up, m)
  BY <1>3, <1>6, LinkNodes
<1>8. (\E up \in Links : Step(i, IF from \in up THEN s ELSE d, {m}, Rpcs(s, {from} \cap up)))
        => \E P \in SUBSET Node : Step(i, s, {m}, Rpcs(s, P)) \/ Step(i, done, {m}, Rpcs(s, P))
  BY <1>4, <1>6
<1>. QED
  BY <1>2, <1>5, <1>7, <1>8 DEF installed, done, match, s, from

(* What node state s becomes when it hears from the leader that sent m; it *)
(* steps down if it must.                                                  *)
Heard(s, m, steps) ==
    [IF steps THEN BecomeFollower(s, m.term) ELSE s EXCEPT !.leaderId = m.from]

(* It is then in the leader's term, with its databases as they were.       *)
LEMMA HeardInv ==
    ASSUME NEW s, NodeInv(s), NEW m, m.term \in Nat, m.from \in Node, NEW steps \in BOOLEAN,
           m.term >= s.currentTerm, m.term > s.currentTerm => steps
    PROVE  LET h == Heard(s, m, steps)
           IN /\ NodeInv(h) /\ NodeBase(h) /\ h \in NodeState /\ SameStores(s, h)
              /\ h.currentTerm = m.term
              /\ steps => h.state = "FOLLOWER"
              /\ ~steps => SameElection(s, h)
<1>. DEFINE f == IF steps THEN BecomeFollower(s, m.term) ELSE s
            h == [f EXCEPT !.leaderId = m.from]
<1>1. NodeBase(s) /\ s \in NodeState /\ s.currentTerm \in Nat
  BY DEF NodeInv, NodeBase, NodeState
<1>2. /\ NodeInv(f) /\ SameStores(s, f) /\ f.currentTerm = m.term
      /\ steps => f.state = "FOLLOWER"
      /\ ~steps => SameElection(s, f)
  <2>1. CASE steps
    <3>1. f = BecomeFollower(s, m.term)
      BY <2>1
    <3>2. NodeInv(BecomeFollower(s, m.term))
      BY <1>1, BecomeFollowerInv
    <3>3. /\ SameStores(s, BecomeFollower(s, m.term))
          /\ BecomeFollower(s, m.term).state = "FOLLOWER"
          /\ m.term > s.currentTerm => BecomeFollower(s, m.term).currentTerm = m.term
          /\ m.term <= s.currentTerm => BecomeFollower(s, m.term).currentTerm = s.currentTerm
      BY SMTT(30), <1>1, BecomeFollowerFields
    <3>. HIDE DEF f
    <3>4. f.currentTerm = m.term
      BY SMTT(30), <1>1, <3>1, <3>3
    <3>. QED
      BY <2>1, <3>1, <3>2, <3>3, <3>4
  <2>2. CASE ~steps
    <3>1. f = s
      BY <2>2
    <3>. HIDE DEF f
    <3>. QED
      BY SMTT(30), <1>1, <2>2, <3>1 DEF SameStores, SameElection
  <2>. QED
    BY <2>1, <2>2
<1>. HIDE DEF f
<1>3. NodeInv(h) /\ SameStores(f, h) /\ SameElection(f, h)
  BY <1>2, ElectionFieldsInv
<1>4. h = Heard(s, m, steps)
  BY DEF f, Heard
<1>. HIDE DEF h
<1>5. NodeBase(h) /\ h \in NodeState
  BY <1>3 DEF NodeInv, NodeBase
<1>6. SameStores(s, h)
  BY <1>2, <1>3 DEF SameStores
<1>. QED
  BY <1>2, <1>3, <1>4, <1>5, <1>6 DEF SameElection

(* r answers request m.                                                    *)
Answers(i, m, r, ok) ==
    /\ r.from = i /\ r.success = ok /\ r.request = m
    /\ ok => r.term = m.term
    /\ m.type = "AppendEntries" => r \in AppendEntriesResponseMsg
    /\ m.type = "InstallSnapshot" => r \in InstallSnapshotResponseMsg

(* h is what s becomes when it hears from the leader that sent m.          *)
Hears(s, m, h) ==
    /\ m.term >= s.currentTerm
    /\ \E steps \in BOOLEAN : (m.term > s.currentTerm => steps) /\ h = Heard(s, m, steps)

(* What that changes.                                                      *)
LEMMA HearsInv ==
    ASSUME NEW s, NodeInv(s), NEW m, m.term \in Nat, m.from \in Node, NEW h, Hears(s, m, h)
    PROVE  /\ NodeInv(h) /\ NodeBase(h) /\ h \in NodeState /\ SameStores(s, h)
           /\ h.currentTerm = m.term
<1>1. PICK steps \in BOOLEAN : (m.term > s.currentTerm => steps) /\ h = Heard(s, m, steps)
  BY DEF Hears
<1>2. m.term >= s.currentTerm
  BY DEF Hears
<1>. QED
  BY <1>1, <1>2, HeardInv

(* HandleAppendEntries refuses a request of an earlier term; otherwise it  *)
(* hears from the leader, and refuses the request or accepts it.           *)
LEMMA AppendEntriesCases ==
    ASSUME IndInv, NEW m \in msgs, NEW i \in Node, m.type = "AppendEntries",
           HandleAppendEntries(i, m)
    PROVE  /\ ValidAppendEntries(m)
           /\ \/ \E r : Answers(i, m, r, FALSE) /\ Step(i, node[i], {m}, {r})
              \/ \E h, r :
                   /\ Hears(node[i], m, h) /\ h.state = "FOLLOWER"
                   /\ \/ Answers(i, m, r, FALSE) /\ Step(i, h, {m}, {r})
                      \/ /\ PrefixMatches(node[i], m) /\ KeepsCommitted(node[i], m)
                         /\ Answers(i, m, r, TRUE) /\ Step(i, AcceptEntries(h, m), {m}, {r})
<1>. DEFINE s == node[i]
            reverts == \/ m.term > s.currentTerm
                       \/ m.term = s.currentTerm /\ s.state # "FOLLOWER"
            follower == IF reverts THEN BecomeFollower(s, m.term) ELSE s
            h == [follower EXCEPT !.leaderId = m.from]
            response(success, last) ==
                [type |-> "AppendEntriesResponse", term |-> follower.currentTerm,
                 from |-> i, to |-> m.from,
                 success |-> success, lastLogIndex |-> last, request |-> m]
<1>1. /\ NodeInv(s) /\ s \in NodeState /\ LastIndex(s) \in Nat /\ s.currentTerm \in Nat
      /\ m \in AppendEntriesMsg /\ m.term \in Nat /\ m.from \in Node
  BY InvNode, InvMessage
<1>10. WellOrdered
  BY <1>1 DEF NodeInv, NodeBase
<1>2. ValidAppendEntries(m)
  BY DEF HandleAppendEntries
<1>3. \/ m.term < s.currentTerm /\ Step(i, s, {m}, {response(FALSE, LastIndex(s))})
      \/ /\ m.term >= s.currentTerm /\ PrefixMatches(s, m) /\ KeepsCommitted(s, m)
         /\ Step(i, AcceptEntries(h, m), {m}, {response(TRUE, m.prevLogIndex + Len(m.entries))})
      \/ m.term >= s.currentTerm /\ Step(i, h, {m}, {response(FALSE, RejectHint(s, m))})
  BY DEF HandleAppendEntries
<1>4. /\ LastIndex(s) \in Nat /\ RejectHint(s, m) \in Nat
      /\ m.prevLogIndex + Len(m.entries) \in Nat
  <2>1. m.prevLogIndex \in Nat /\ Len(m.entries) \in Nat
    BY <1>1, SeqLength DEF AppendEntriesMsg
  <2>. QED
    BY SMTT(30), <1>1, <1>10, <2>1, RejectHintType
<1>. HIDE DEF s
<1>5. /\ m.term < s.currentTerm => follower = s
      /\ m.term >= s.currentTerm => Hears(s, m, h) /\ h.state = "FOLLOWER"
                                    /\ follower.currentTerm = m.term
  <2>1. CASE m.term < s.currentTerm
    BY SMTT(30), <1>1, <2>1
  <2>2. CASE m.term >= s.currentTerm
    <3>1. h = Heard(s, m, reverts) /\ reverts \in BOOLEAN /\ (m.term > s.currentTerm => reverts)
      BY DEF Heard
    <3>2. Hears(s, m, h)
      BY <2>2, <3>1 DEF Hears
    <3>3. ~reverts => s.state = "FOLLOWER"
      BY SMTT(30), <1>1, <2>2
    <3>4. /\ h.currentTerm = m.term
          /\ reverts => h.state = "FOLLOWER"
          /\ ~reverts => SameElection(s, h)
      <4>. HIDE DEF h, reverts
      <4>. QED
        BY <1>1, <2>2, <3>1, HeardInv
    <3>5. follower \in NodeState
      BY <1>1, BecomeFollowerFields
    <3>6. h.currentTerm = follower.currentTerm
      <4>. HIDE DEF follower
      <4>. QED
        BY <3>5 DEF NodeState
    <3>. HIDE DEF h, follower, reverts
    <3>. QED
      BY SMTT(30), <1>1, <2>2, <3>2, <3>3, <3>4, <3>6 DEF SameElection
  <2>. QED
    BY <1>1, <2>1, <2>2
<1>6. ASSUME NEW ok \in BOOLEAN, NEW last \in Nat, ok => m.term >= s.currentTerm
      PROVE  Answers(i, m, response(ok, last), ok)
  <2>1. follower.currentTerm \in Nat /\ (ok => follower.currentTerm = m.term)
    BY SMTT(30), <1>1, <1>5, <1>6
  <2>. HIDE DEF follower
  <2>2. response(ok, last) \in AppendEntriesResponseMsg
    BY <1>1, <2>1 DEF AppendEntriesResponseMsg
  <2>. QED
    BY <2>1, <2>2 DEF Answers
<1>7. /\ Answers(i, m, response(FALSE, LastIndex(s)), FALSE)
      /\ Answers(i, m, response(FALSE, RejectHint(s, m)), FALSE)
      /\ m.term >= s.currentTerm
           => Answers(i, m, response(TRUE, m.prevLogIndex + Len(m.entries)), TRUE)
  <2>. HIDE DEF response
  <2>. QED
    BY <1>4, <1>6
<1>. HIDE DEF response, h, follower
<1>. QED
  BY <1>2, <1>3, <1>5, <1>7 DEF s

(* HandleInstallSnapshot refuses a request of an earlier term; otherwise   *)
(* it hears from the leader, and refuses the snapshot, has it already or   *)
(* installs it.                                                            *)
LEMMA InstallSnapshotCases ==
    ASSUME IndInv, NEW m \in msgs, NEW i \in Node, m.type = "InstallSnapshot",
           HandleInstallSnapshot(i, m)
    PROVE  \/ \E r : Answers(i, m, r, FALSE) /\ Step(i, node[i], {m}, {r})
           \/ \E h, r :
                /\ Hears(node[i], m, h)
                /\ \/ Answers(i, m, r, FALSE) /\ Step(i, h, {m}, {r})
                   \/ /\ Len(node[i].kv) >= m.lastIncludedIndex
                      /\ Answers(i, m, r, TRUE) /\ Step(i, h, {m}, {r})
                   \/ /\ Len(node[i].kv) < m.lastIncludedIndex /\ node[i].applyTo = 0
                      /\ Answers(i, m, r, TRUE) /\ Step(i, InstallSnapshot(h, m), {m}, {r})
<1>. DEFINE s == node[i]
            later == m.term > s.currentTerm
            follower == IF later THEN BecomeFollower(s, m.term) ELSE s
            h == [follower EXCEPT !.leaderId = m.from]
            response(ok) ==
                [type |-> "InstallSnapshotResponse", term |-> follower.currentTerm,
                 from |-> i, to |-> m.from,
                 success |-> ok, complete |-> ok, request |-> m]
<1>1. /\ NodeInv(s) /\ s \in NodeState /\ s.currentTerm \in Nat
      /\ m \in InstallSnapshotMsg /\ m.term \in Nat /\ m.from \in Node
  BY InvNode, InvMessage
<1>2. \/ m.term < s.currentTerm /\ Step(i, s, {m}, {response(FALSE)})
      \/ /\ m.term >= s.currentTerm
         /\ \/ Step(i, h, {m}, {response(FALSE)})
            \/ Len(s.kv) >= m.lastIncludedIndex /\ Step(i, h, {m}, {response(TRUE)})
            \/ /\ Len(s.kv) < m.lastIncludedIndex /\ s.applyTo = 0
               /\ Step(i, InstallSnapshot(h, m), {m}, {response(TRUE)})
  BY DEF HandleInstallSnapshot
<1>. HIDE DEF s
<1>3. follower.currentTerm \in Nat /\ (m.term >= s.currentTerm => follower.currentTerm = m.term)
  <2>1. CASE later
    <3>1. follower = BecomeFollower(s, m.term)
      BY <2>1
    <3>2. BecomeFollower(s, m.term).currentTerm = m.term
      BY <1>1, <2>1, BecomeFollowerFields
    <3>. HIDE DEF follower
    <3>. QED
      BY <1>1, <3>1, <3>2
  <2>2. CASE ~later
    BY SMTT(30), <1>1, <2>2
  <2>. QED
    BY <2>1, <2>2
<1>4. m.term >= s.currentTerm => Hears(s, m, h)
  <2>1. h = Heard(s, m, later) /\ (m.term > s.currentTerm => later)
    BY DEF Heard
  <2>2. later \in BOOLEAN
    BY SMTT(30), <1>1
  <2>. HIDE DEF h, later
  <2>. QED
    BY <2>1, <2>2 DEF Hears
<1>. HIDE DEF follower
<1>5. ASSUME NEW ok \in BOOLEAN, ok => m.term >= s.currentTerm
      PROVE  Answers(i, m, response(ok), ok)
  <2>1. response(ok) \in InstallSnapshotResponseMsg
    BY <1>1, <1>3 DEF InstallSnapshotResponseMsg
  <2>. QED
    BY <1>3, <1>5, <2>1 DEF Answers
<1>6. /\ Answers(i, m, response(FALSE), FALSE)
      /\ m.term >= s.currentTerm => Answers(i, m, response(TRUE), TRUE)
  <2>. HIDE DEF response
  <2>. QED
    BY <1>5
<1>. HIDE DEF response, h
<1>. QED
  BY <1>2, <1>4, <1>6 DEF s

(* The durable log of s replaced by another.                               *)
Relogged(s, log) == [s EXCEPT !.log = log]

(* Nothing else changes.                                                   *)
LEMMA ReloggedFields ==
    ASSUME NEW s \in NodeState, NEW log \in Seq(Entry)
    PROVE  LET t == Relogged(s, log)
           IN /\ t \in NodeState /\ t.log = log /\ t.kv = s.kv
              /\ t.snapshotIndex = s.snapshotIndex /\ t.commitIndex = s.commitIndex
              /\ t.applyTo = s.applyTo /\ SameElection(s, t)
              /\ t.nextIndex = s.nextIndex /\ t.matchIndex = s.matchIndex
  BY DEF Relogged, NodeState, SameElection

(* A process that crashed in a handler starts from disks in the term of    *)
(* the request, with the log as it was, truncated, or extended as well.    *)
LEMMA CrashCases ==
    ASSUME IndInv, NEW m \in msgs, NEW i \in Node, CrashInHandler(i, m)
    PROVE  \E log :
             /\ Step(i, ApplyCommitted(Recovered(Relogged(
                     BecomeFollower(node[i], Larger(m.term, node[i].currentTerm)), log))), {m}, {})
             /\ \/ log = node[i].log
                \/ /\ m.type = "AppendEntries" /\ ValidAppendEntries(m)
                   /\ m.term >= node[i].currentTerm
                   /\ PrefixMatches(node[i], m) /\ KeepsCommitted(node[i], m)
                   /\ log = Truncated(node[i], m) \/ log = Appended(node[i], m)
<1>. DEFINE s == node[i]
            term == Larger(m.term, s.currentTerm)
            f == BecomeFollower(s, term)
<1>1. s \in NodeState /\ s.currentTerm \in Nat /\ m.term \in Nat
  BY InvNode, InvMessage
<1>2. f \in NodeState /\ f.log = s.log
  <2>1. term \in Nat
    BY <1>1 DEF Larger
  <2>. QED
    BY <1>1, <2>1, BecomeFollowerFields DEF SameStores
<1>3. \/ Step(i, ApplyCommitted(Recovered(f)), {m}, {})
      \/ /\ m.type = "AppendEntries" /\ ValidAppendEntries(m)
         /\ m.term >= s.currentTerm /\ PrefixMatches(s, m) /\ KeepsCommitted(s, m)
         /\ \/ Step(i, ApplyCommitted(Recovered(Relogged(f, Truncated(s, m)))), {m}, {})
            \/ Step(i, ApplyCommitted(Recovered(Relogged(f, Appended(s, m)))), {m}, {})
  BY DEF CrashInHandler, Relogged
<1>. HIDE DEF f
<1>4. f = Relogged(f, s.log)
  BY <1>2 DEF Relogged, NodeState
<1>. QED
  BY <1>3, <1>4 DEF f

-----------------------------------------------------------------------------
(* The callbacks.                                                          *)

(* A callback that ends in a good node state and sends good messages keeps *)
(* the invariant.                                                          *)
LEMMA StepInv ==
    ASSUME IndInv, NEW i \in Node, NEW s, NodeInv(s), NEW received, NEW sent, SentOK(sent),
           Step(i, s, received, sent)
    PROVE  IndInv'
<1>1. s \in NodeState
  BY DEF NodeInv, NodeBase
<1>2. node' = [node EXCEPT ![i] = s] /\ node \in [Node -> NodeState]
  BY DEF Step, IndInv, TypeOK
<1>3. node' \in [Node -> NodeState]
  BY <1>1, <1>2
<1>4. \A j \in Node : NodeInv(node'[j])
  BY <1>2 DEF IndInv
<1>5. msgs' \subseteq msgs \cup sent
  BY DEF Step
<1>6. SentOK(msgs')
  BY <1>5 DEF SentOK, IndInv
<1>7. msgs' \in SUBSET Message
  BY <1>6 DEF SentOK
<1>. QED
  BY <1>3, <1>4, <1>6, <1>7 DEF IndInv, TypeOK, SentOK, NodeInv, NodeBase

(* The RPCs in flight are good messages.                                   *)
LEMMA RpcsOK ==
    ASSUME NEW s, NodeInv(s), NEW P \in SUBSET Node
    PROVE  SentOK(Rpcs(s, P))
<1>1. s.inflight \in [Node -> AppendEntriesMsg \cup InstallSnapshotMsg \cup {None}]
  BY DEF NodeInv, NodeBase, NodeState
<1>2. ASSUME NEW m \in Rpcs(s, P)
      PROVE  m \in Message /\ (m.type = "InstallSnapshot" => GoodSnapshot(m))
  <2>1. PICK j \in P : m = s.inflight[j] /\ m # None
    BY DEF Rpcs
  <2>2. m \in AppendEntriesMsg \cup InstallSnapshotMsg
    BY <1>1, <2>1
  <2>3. m.type = "InstallSnapshot" => GoodSnapshot(m)
    BY <2>1 DEF NodeInv, NodeBase
  <2>. QED
    BY <2>2, <2>3 DEF Message
<1>. QED
  BY <1>2 DEF SentOK

(* Vote requests are good messages.                                        *)
LEMMA CampaignOK ==
    ASSUME NEW i \in Node, NEW s, NodeInv(s), NEW up \in SUBSET Node
    PROVE  SentOK(Campaign(i, s, up))
<1>1. s \in NodeState /\ s.currentTerm \in Nat /\ LastIndex(s) \in Nat
  BY SeqLength DEF NodeInv, NodeBase, NodeState, LastIndex
<1>2. LastTerm(s) \in Int
  BY <1>1, GetTermType DEF LastTerm
<1>3. ASSUME NEW j \in Node, NEW pre \in BOOLEAN
      PROVE  VoteRequest(i, s, pre, j) \in RequestVoteMsg
  BY SMTT(30), <1>1, <1>2 DEF VoteRequest, RequestVoteMsg
<1>4. ASSUME NEW m \in Campaign(i, s, up) PROVE m \in RequestVoteMsg
  <2>1. PICK j \in Node : m = VoteRequest(i, s, s.state = "PRE_CANDIDATE", j)
    BY DEF Campaign
  <2>. QED
    BY <1>3, <2>1
<1>5. \A m \in RequestVoteMsg : m \in Message /\ m.type # "InstallSnapshot"
  BY DEF RequestVoteMsg, Message
<1>. QED
  BY <1>4, <1>5 DEF SentOK

(* Answers are well formed.                                                *)
LEMMA ResponseOK ==
    ASSUME NEW m, m \in RequestVoteResponseMsg \/ m \in AppendEntriesResponseMsg
                      \/ m \in InstallSnapshotResponseMsg
    PROVE  SentOK({m})
  BY DEF SentOK, Message, RequestVoteResponseMsg, AppendEntriesResponseMsg,
         InstallSnapshotResponseMsg

(* Nothing to check when nothing is sent.                                  *)
LEMMA NothingSent == SentOK({})
  BY DEF SentOK

-----------------------------------------------------------------------------
(* One lemma per action.                                                   *)

(* ElectionTimeout keeps the invariant.                                    *)
LEMMA ElectionTimeoutInv ==
    ASSUME IndInv, NEW i \in Node, ElectionTimeout(i)
    PROVE  IndInv'
<1>1. PICK up \in Links : LET s == BecomePreCandidate(i, node[i], up)
                          IN Step(i, s, {}, Campaign(i, s, up))
  BY DEF ElectionTimeout
<1>2. NodeInv(BecomePreCandidate(i, node[i], up))
  BY InvNode, BecomePreCandidateInv
<1>. QED
  BY <1>1, <1>2, LinkNodes, CampaignOK, StepInv

(* LeaderTick keeps the invariant.                                         *)
LEMMA LeaderTickInv ==
    ASSUME IndInv, NEW i \in Node, LeaderTick(i)
    PROVE  IndInv'
<1>1. PICK up \in Links :
        LET s == BroadcastAppendEntries(i, node[i], up)
        IN \/ Step(i, s, {}, Rpcs(s, up))
           \/ Step(i, BecomeFollower(s, s.currentTerm), {}, Rpcs(s, up))
  BY DEF LeaderTick
<1>. DEFINE s == BroadcastAppendEntries(i, node[i], up)
<1>2. NodeInv(s)
  BY InvNode, SendAppendEntriesInv DEF BroadcastAppendEntries
<1>3. \/ Step(i, s, {}, Rpcs(s, up))
      \/ Step(i, BecomeFollower(s, s.currentTerm), {}, Rpcs(s, up))
  BY <1>1
<1>. HIDE DEF s
<1>4. NodeBase(s) /\ s.currentTerm \in Nat
  BY <1>2 DEF NodeInv, NodeBase, NodeState
<1>5. NodeInv(BecomeFollower(s, s.currentTerm))
  BY <1>2, <1>4, BecomeFollowerInv
<1>6. SentOK(Rpcs(s, up))
  BY <1>2, LinkNodes, RpcsOK
<1>. QED
  BY <1>2, <1>3, <1>5, <1>6, StepInv

(* ClientPropose keeps the invariant.                                      *)
LEMMA ClientProposeInv ==
    ASSUME IndInv, NEW i \in Node, ClientPropose(i)
    PROVE  IndInv'
<1>1. PICK n \in 1..MaxBatchEntries : \E cmds \in [1..n -> Command] : \E up \in Links :
        LET s == ProposeBatch(i, node[i], cmds, up)
        IN Step(i, s, {}, Rpcs(s, up))
  BY DEF ClientPropose
<1>2. PICK cmds \in [1..n -> Command], up \in Links :
        LET s == ProposeBatch(i, node[i], cmds, up)
        IN Step(i, s, {}, Rpcs(s, up))
  BY <1>1
<1>3. cmds \in Seq(Command \cup {NoOp})
  <2>1. n \in Nat /\ cmds \in [1..n -> Command \cup {NoOp}]
    BY SMTT(30), BoundAssumption
  <2>. QED
    BY <2>1, SeqFunction
<1>. DEFINE s == ProposeBatch(i, node[i], cmds, up)
<1>4. NodeInv(s)
  BY <1>3, InvNode, ProposeBatchInv
<1>5. Step(i, s, {}, Rpcs(s, up))
  BY <1>2
<1>. HIDE DEF s
<1>. QED
  BY <1>4, <1>5, LinkNodes, RpcsOK, StepInv

(* FinishApply keeps the invariant.                                        *)
LEMMA FinishApplyInv ==
    ASSUME IndInv, NEW i \in Node, FinishApply(i)
    PROVE  IndInv'
<1>. DEFINE s == node[i]
            new == s.kv \o SubSeq(s.log, Len(s.kv) + 1, s.applyTo)
            t == [s EXCEPT !.kv = new, !.applyTo = 0]
<1>1. /\ s \in NodeState /\ NodeBase(s) /\ s.log \in Seq(Entry) /\ s.kv \in Seq(Entry)
      /\ Len(s.kv) \in Nat /\ Len(s.log) \in Nat /\ s.applyTo \in Nat
      /\ s.commitIndex \in Nat /\ s.snapshotIndex \in Nat
  BY InvNode, SeqLength DEF NodeState
<1>2. s.applyTo # 0 /\ Step(i, ApplyCommitted(t), {}, {})
  BY <1>1 DEF FinishApply, NodeState
<1>. HIDE DEF s
<1>3. /\ Len(s.kv) < s.applyTo /\ s.applyTo <= s.commitIndex /\ s.commitIndex <= Len(s.log)
      /\ \A k \in 1..Len(s.kv) : s.kv[k] = s.log[k]
  BY <1>1, <1>2 DEF NodeBase
<1>4. /\ new \in Seq(Entry) /\ Len(new) = s.applyTo
      /\ \A k \in 1..s.applyTo : new[k] = s.log[k]
  <2>1. Len(s.kv) <= s.applyTo /\ s.applyTo <= Len(s.log)
    BY SMTT(30), <1>1, <1>3
  <2>. QED
    BY <1>1, <1>3, <2>1, CatchUp
<1>. HIDE DEF new
<1>5. /\ t \in NodeState /\ t.kv = new /\ t.applyTo = 0 /\ t.log = s.log
      /\ t.commitIndex = s.commitIndex /\ t.snapshotIndex = s.snapshotIndex
      /\ t.currentTerm = s.currentTerm /\ t.nextIndex = s.nextIndex
      /\ t.inflight = s.inflight
  BY <1>1, <1>4 DEF NodeState
<1>. HIDE DEF t
<1>6. NodeBase(t)
  BY SMTT(30), <1>1, <1>3, <1>4, <1>5 DEF NodeBase
<1>7. NodeInv(ApplyCommitted(t))
  BY <1>6, ApplyCommittedInv
<1>. QED
  BY <1>2, <1>7, NothingSent, StepInv

(* Restart keeps the invariant.                                            *)
LEMMA RestartInv ==
    ASSUME IndInv, NEW i \in Node, Restart(i)
    PROVE  IndInv'
<1>1. /\ node[i] \in NodeState /\ WellOrdered
      /\ node[i].snapshotIndex <= Len(node[i].kv) /\ Len(node[i].kv) <= Len(node[i].log)
      /\ \A k \in 1..Len(node[i].kv) : node[i].kv[k] = node[i].log[k]
      /\ \A k \in 1..Len(node[i].log) : node[i].log[k].term <= node[i].currentTerm
  <2>1. NodeBase(node[i]) /\ node[i].commitIndex \in Nat
    BY InvNode DEF NodeState
  <2>2. node[i] \in NodeState /\ Len(node[i].kv) \in Nat /\ Len(node[i].log) \in Nat
    BY InvNode, SeqLength DEF NodeState
  <2>. QED
    BY SMTT(30), <2>1, <2>2 DEF NodeBase
<1>2. NodeBase(Recovered(node[i]))
  BY <1>1, RecoveredInv DEF NodeInv
<1>3. NodeInv(ApplyCommitted(Recovered(node[i])))
  BY <1>2, ApplyCommittedInv
<1>. QED
  BY <1>3, NothingSent, StepInv DEF Restart

(* Answers to vote requests are good messages.                             *)
LEMMA VoteResponseOK ==
    ASSUME NEW i \in Node, NEW s \in NodeState, NEW m \in RequestVoteMsg, NEW granted \in BOOLEAN
    PROVE  SentOK({VoteResponse(i, s, m, granted)})
<1>1. s.currentTerm \in Nat /\ m.from \in Node /\ m.prevote \in BOOLEAN
  BY DEF NodeState, RequestVoteMsg
<1>2. VoteResponse(i, s, m, granted) \in RequestVoteResponseMsg
  BY <1>1 DEF VoteResponse, RequestVoteResponseMsg
<1>. QED
  BY <1>2, ResponseOK

(* HandleRequestVote keeps the invariant.                                  *)
LEMMA HandleRequestVoteInv ==
    ASSUME IndInv, NEW m \in msgs, NEW i \in Node, m.type = "RequestVote",
           HandleRequestVote(i, m)
    PROVE  IndInv'
<1>. DEFINE s == node[i]
            follower == IF m.term > s.currentTerm THEN BecomeFollower(s, m.term) ELSE s
            upToDate == IsLogUpToDate(s, m.lastLogIndex, m.lastLogTerm)
            preGrant == m.term > s.currentTerm /\ upToDate
            grant == /\ m.term = follower.currentTerm
                     /\ follower.votedFor \in {None, m.from}
                     /\ upToDate
            voter == IF grant THEN [follower EXCEPT !.votedFor = m.from] ELSE follower
<1>1. NodeInv(s) /\ s \in NodeState /\ m \in RequestVoteMsg /\ m.term \in Nat /\ m.from \in Node
  BY InvNode, InvMessage
<1>2. \/ Step(i, s, {m}, {VoteResponse(i, s, m, FALSE)})
      \/ Step(i, s, {m}, {VoteResponse(i, s, m, preGrant)})
      \/ Step(i, voter, {m}, {VoteResponse(i, follower, m, grant)})
  BY DEF HandleRequestVote
<1>3. preGrant \in BOOLEAN /\ grant \in BOOLEAN
  OBVIOUS
<1>. HIDE DEF s, grant, preGrant
<1>4. NodeInv(follower) /\ follower \in NodeState
  <2>1. NodeInv(BecomeFollower(s, m.term))
    BY <1>1, BecomeFollowerInv DEF NodeInv
  <2>2. NodeInv(follower)
    BY <1>1, <2>1
  <2>. HIDE DEF follower
  <2>. QED
    BY <2>2 DEF NodeInv, NodeBase
<1>. HIDE DEF follower
<1>5. NodeInv(voter)
  BY <1>1, <1>4, ElectionFieldsInv
<1>. HIDE DEF voter
<1>6. /\ SentOK({VoteResponse(i, s, m, FALSE)})
      /\ SentOK({VoteResponse(i, s, m, preGrant)})
      /\ SentOK({VoteResponse(i, follower, m, grant)})
  BY <1>1, <1>3, <1>4, VoteResponseOK
<1>. QED
  BY <1>1, <1>2, <1>5, <1>6, StepInv

(* HandleRequestVoteResponse keeps the invariant.                          *)
LEMMA HandleRequestVoteResponseInv ==
    ASSUME IndInv, NEW m \in msgs, NEW i \in Node, m.type = "RequestVoteResponse",
           HandleRequestVoteResponse(i, m)
    PROVE  IndInv'
<1>. DEFINE s == node[i]
            voted == [s EXCEPT !.votes = @ \cup {m.from}]
            elected == Cardinality(voted.votes) >= QuorumSize
<1>1. /\ NodeInv(s) /\ s \in NodeState /\ m.term \in Nat /\ m.from \in Node
      /\ s.votes \in SUBSET Node
  BY InvNode, InvMessage DEF NodeState
<1>2. NodeInv(voted)
  <2>1. voted = [s EXCEPT !.votes = s.votes \cup {m.from}]
    BY <1>1 DEF NodeState
  <2>. QED
    BY <1>1, <2>1, ElectionFieldsInv
<1>3. CASE Step(i, BecomeFollower(s, m.term), {m}, {})
  BY <1>1, <1>3, BecomeFollowerInv, NothingSent, StepInv DEF NodeInv
<1>4. ASSUME NEW up \in Links,
             LET c == IF elected THEN BecomeCandidate(i, voted, up) ELSE voted
             IN Step(i, c, {m}, IF elected THEN Campaign(i, c, up) ELSE {})
      PROVE  IndInv'
  <2>. DEFINE c == BecomeCandidate(i, voted, up)
  <2>1. \/ Step(i, c, {m}, Campaign(i, c, up))
        \/ Step(i, voted, {m}, {})
    BY <1>4
  <2>2. NodeInv(c)
    BY <1>2, BecomeCandidateInv
  <2>. HIDE DEF c, voted
  <2>. QED
    BY <1>2, <2>1, <2>2, LinkNodes, CampaignOK, NothingSent, StepInv
<1>5. ASSUME NEW up \in Links,
             LET c == IF elected THEN BecomeLeader(i, voted, up) ELSE voted
             IN Step(i, c, {m}, Rpcs(c, up))
      PROVE  IndInv'
  <2>. DEFINE c == IF elected THEN BecomeLeader(i, voted, up) ELSE voted
  <2>1. Step(i, c, {m}, Rpcs(c, up))
    BY <1>5
  <2>2. NodeInv(BecomeLeader(i, voted, up))
    BY SMTT(30), <1>2, BecomeLeaderInv DEF NodeInv
  <2>3. NodeInv(c)
    BY <1>2, <2>2
  <2>. HIDE DEF c, voted
  <2>. QED
    BY <2>1, <2>3, LinkNodes, RpcsOK, StepInv
<1>. QED
  BY <1>3, <1>4, <1>5 DEF HandleRequestVoteResponse

(* HandleAppendEntries keeps the invariant.                                *)
LEMMA HandleAppendEntriesInv ==
    ASSUME IndInv, NEW m \in msgs, NEW i \in Node, m.type = "AppendEntries",
           HandleAppendEntries(i, m)
    PROVE  IndInv'
<1>1. NodeInv(node[i]) /\ m \in AppendEntriesMsg /\ m.term \in Nat /\ m.from \in Node
  BY InvNode, InvMessage
<1>2. ASSUME NEW r, NEW ok, Answers(i, m, r, ok) PROVE SentOK({r})
  BY <1>2, ResponseOK DEF Answers
<1>3. ASSUME NEW h, NodeInv(h), NodeBase(h), SameStores(node[i], h), h.currentTerm = m.term,
             ValidAppendEntries(m), PrefixMatches(node[i], m), KeepsCommitted(node[i], m)
      PROVE  NodeInv(AcceptEntries(h, m))
  <2>1. PrefixMatches(h, m) /\ KeepsCommitted(h, m)
    BY <1>3, SameReading
  <2>2. m.term <= h.currentTerm
    BY SMTT(30), <1>1, <1>3
  <2>. QED
    BY <1>1, <1>3, <2>1, <2>2, AcceptEntriesInv
<1>4. ASSUME NEW h, Hears(node[i], m, h)
      PROVE  NodeInv(h) /\ NodeBase(h) /\ SameStores(node[i], h) /\ h.currentTerm = m.term
  BY <1>1, <1>4, HearsInv
<1>5. ASSUME NEW s, NEW r, NEW ok, NodeInv(s), Answers(i, m, r, ok), Step(i, s, {m}, {r})
      PROVE  IndInv'
  BY <1>2, <1>5, StepInv
<1>. QED
  BY <1>1, <1>3, <1>4, <1>5, AppendEntriesCases

(* A leader that replicates from a good state keeps the invariant.         *)
LEMMA SendsInv ==
    ASSUME IndInv, NEW i \in Node, NEW a, NodeInv(a), NEW P \in SUBSET Node, NEW up, NEW m,
           Sends(i, a, P, up, m)
    PROVE  IndInv'
<1>. DEFINE t == SendAppendEntries(i, a, P, up)
<1>1. NodeInv(t)
  BY SMTT(30), SendAppendEntriesInv DEF NodeInv
<1>2. Step(i, t, {m}, Rpcs(t, P \cap up))
  BY DEF Sends
<1>. HIDE DEF t
<1>3. P \cap up \in SUBSET Node
  OBVIOUS
<1>4. SentOK(Rpcs(t, P \cap up))
  BY <1>1, <1>3, RpcsOK
<1>. QED
  BY <1>1, <1>2, <1>4, StepInv

(* A response of a later term makes a node step down.                      *)
LEMMA SteppedDownInv ==
    ASSUME IndInv, NEW m \in msgs, NEW i \in Node,
           Step(i, BecomeFollower(node[i], m.term), {m}, {})
    PROVE  IndInv'
<1>1. NodeInv(node[i]) /\ NodeBase(node[i]) /\ m.term \in Nat
  BY InvNode, InvMessage
<1>2. NodeInv(BecomeFollower(node[i], m.term))
  BY <1>1, BecomeFollowerInv
<1>. QED
  BY <1>2, NothingSent, StepInv

(* HandleAppendEntriesResponse keeps the invariant.                        *)
LEMMA HandleAppendEntriesResponseInv ==
    ASSUME IndInv, NEW m \in msgs, NEW i \in Node, m.type = "AppendEntriesResponse",
           HandleAppendEntriesResponse(i, m)
    PROVE  IndInv'
<1>. DEFINE s == node[i]
<1>1. /\ NodeInv(s) /\ m.from \in Node
      /\ s.matchIndex[m.from] \in Nat
  BY InvNode, InvMessage DEF NodeState
<1>. HIDE DEF s
<1>2. ASSUME NEW match \in Nat
      PROVE  NodeInv(AdvanceCommitIndex(PeerAt(s, m.from, match, match + 1)))
  <2>1. match + 1 \in Nat /\ match + 1 >= 1
    BY SMTT(30)
  <2>2. NodeBase(PeerAt(s, m.from, match, match + 1))
    BY <1>1, <2>1, PeerAtInv
  <2>. QED
    BY <2>2, AdvanceCommitIndexInv
<1>3. ASSUME NEW next \in Nat, next >= 1
      PROVE  NodeInv(PeerAt(s, m.from, s.matchIndex[m.from], next))
  BY SMTT(30), <1>1, <1>3, PeerAtInv
<1>4. ASSUME NEW a, NodeInv(a), \E P, up \in SUBSET Node : Sends(i, a, P, up, m)
      PROVE  IndInv'
  BY <1>4, SendsInv
<1>5. CASE Step(i, BecomeFollower(s, m.term), {m}, {})
  BY <1>5, SteppedDownInv DEF s
<1>. QED
  BY <1>2, <1>3, <1>4, <1>5, AppendEntriesResponseCases DEF s

(* HandleInstallSnapshot keeps the invariant.                              *)
LEMMA HandleInstallSnapshotInv ==
    ASSUME IndInv, NEW m \in msgs, NEW i \in Node, m.type = "InstallSnapshot",
           HandleInstallSnapshot(i, m)
    PROVE  IndInv'
<1>1. /\ NodeInv(node[i]) /\ m \in InstallSnapshotMsg /\ GoodSnapshot(m)
      /\ m.term \in Nat /\ m.from \in Node
  BY InvNode, InvMessage
<1>2. ASSUME NEW r, NEW ok, Answers(i, m, r, ok) PROVE SentOK({r})
  BY <1>2, ResponseOK DEF Answers
<1>3. ASSUME NEW h, NodeInv(h), SameStores(node[i], h), h.currentTerm = m.term,
             Len(node[i].kv) < m.lastIncludedIndex, node[i].applyTo = 0
      PROVE  NodeInv(InstallSnapshot(h, m))
  <2>1. m.term <= h.currentTerm /\ Len(h.kv) < m.lastIncludedIndex /\ h.applyTo = 0
    BY SMTT(30), <1>1, <1>3 DEF SameStores
  <2>. QED
    BY <1>1, <1>3, <2>1, InstallSnapshotInv
<1>4. ASSUME NEW h, Hears(node[i], m, h)
      PROVE  NodeInv(h) /\ SameStores(node[i], h) /\ h.currentTerm = m.term
  BY <1>1, <1>4, HearsInv
<1>5. ASSUME NEW s, NEW r, NEW ok, NodeInv(s), Answers(i, m, r, ok), Step(i, s, {m}, {r})
      PROVE  IndInv'
  BY <1>2, <1>5, StepInv
<1>. QED
  BY <1>1, <1>3, <1>4, <1>5, InstallSnapshotCases

(* HandleInstallSnapshotResponse keeps the invariant.                      *)
LEMMA HandleInstallSnapshotResponseInv ==
    ASSUME IndInv, NEW m \in msgs, NEW i \in Node, m.type = "InstallSnapshotResponse",
           HandleInstallSnapshotResponse(i, m)
    PROVE  IndInv'
<1>. DEFINE s == node[i]
<1>1. /\ NodeInv(s) /\ NodeBase(s) /\ m.from \in Node
      /\ s.matchIndex[m.from] \in Nat /\ s.nextIndex[m.from] \in Nat
  BY InvNode, InvMessage DEF NodeState
<1>2. s.nextIndex[m.from] >= 1
  BY <1>1 DEF NodeBase
<1>. HIDE DEF s
<1>3. ASSUME NEW match \in Nat PROVE NodeInv(PeerAt(s, m.from, match, match + 1))
  <2>1. match + 1 \in Nat /\ match + 1 >= 1
    BY SMTT(30)
  <2>. QED
    BY <1>1, <2>1, PeerAtInv
<1>4. NodeInv(PeerAt(s, m.from, s.matchIndex[m.from], s.nextIndex[m.from]))
  BY SMTT(30), <1>1, <1>2, PeerAtInv
<1>5. ASSUME NEW a, NodeInv(a), \E P, up \in SUBSET Node : Sends(i, a, P, up, m)
      PROVE  IndInv'
  BY <1>5, SendsInv
<1>6. ASSUME NEW t, NodeInv(t), NEW P \in SUBSET Node, Step(i, t, {m}, Rpcs(s, P))
      PROVE  IndInv'
  BY <1>1, <1>6, RpcsOK, StepInv
<1>7. CASE Step(i, BecomeFollower(s, m.term), {m}, {})
  BY <1>7, SteppedDownInv DEF s
<1>. QED
  BY <1>1, <1>3, <1>4, <1>5, <1>6, <1>7, InstallSnapshotResponseCases DEF s

(* CrashInHandler keeps the invariant: whichever of its durable writes the *)
(* process survived, the disks agree.                                      *)
LEMMA CrashInHandlerInv ==
    ASSUME IndInv, NEW m \in msgs, NEW i \in Node, CrashInHandler(i, m)
    PROVE  IndInv'
<1>. DEFINE s == node[i]
            term == Larger(m.term, s.currentTerm)
            f == BecomeFollower(s, term)
<1>1. /\ NodeBase(s) /\ s \in NodeState /\ s.currentTerm \in Nat
      /\ m.term \in Nat
      /\ m.type = "AppendEntries" => m \in AppendEntriesMsg
  BY InvNode, InvMessage
<1>2. term \in Nat /\ term >= m.term /\ term >= s.currentTerm
  BY SMTT(30), <1>1 DEF Larger
<1>3. PICK log :
        /\ Step(i, ApplyCommitted(Recovered(Relogged(f, log))), {m}, {})
        /\ \/ log = s.log
           \/ /\ m.type = "AppendEntries" /\ ValidAppendEntries(m)
              /\ PrefixMatches(s, m) /\ KeepsCommitted(s, m)
              /\ log = Truncated(s, m) \/ log = Appended(s, m)
  BY CrashCases
<1>. HIDE DEF s, term
<1>4. /\ SameStores(s, f) /\ f \in NodeState
      /\ f.currentTerm >= term /\ f.currentTerm >= s.currentTerm
  BY <1>1, <1>2, BecomeFollowerFields
<1>. HIDE DEF f
<1>5. f.currentTerm \in Nat
  BY <1>4 DEF NodeState
<1>6. /\ Len(s.kv) \in Nat /\ Len(s.log) \in Nat /\ s.commitIndex \in Nat
      /\ s.log \in Seq(Entry)
      /\ WellOrdered
      /\ Len(s.kv) <= s.commitIndex /\ s.commitIndex <= Len(s.log)
      /\ s.snapshotIndex <= Len(s.kv)
      /\ \A k \in 1..Len(s.kv) : s.kv[k] = s.log[k]
  BY <1>1, SeqLength DEF NodeBase, NodeState
<1>7. \A k \in 1..Len(s.log) : s.log[k].term <= f.currentTerm
  <2>. SUFFICES ASSUME NEW k \in 1..Len(s.log) PROVE s.log[k].term <= f.currentTerm
    OBVIOUS
  <2>1. s.log[k].term \in Nat /\ s.log[k].term <= s.currentTerm
    BY <1>1, <1>6, EntryTerm DEF NodeBase
  <2>. QED
    BY SMTT(30), <1>1, <1>4, <1>5, <2>1
(* The log on disk keeps the committed entries.                            *)
<1>8. /\ log \in Seq(Entry) /\ s.commitIndex <= Len(log)
      /\ \A k \in 1..s.commitIndex : log[k] = s.log[k]
      /\ \A k \in 1..Len(log) : log[k].term <= f.currentTerm
  <2>1. CASE log = s.log
    BY <1>6, <1>7, <2>1
  <2>2. ASSUME m.type = "AppendEntries", ValidAppendEntries(m),
               PrefixMatches(s, m), KeepsCommitted(s, m),
               log = Truncated(s, m) \/ log = Appended(s, m)
        PROVE  /\ log \in Seq(Entry) /\ s.commitIndex <= Len(log)
               /\ \A k \in 1..s.commitIndex : log[k] = s.log[k]
               /\ \A k \in 1..Len(log) : log[k].term <= f.currentTerm
    <3>1. m \in AppendEntriesMsg
      BY <1>1, <2>2
    <3>2. m.prevLogIndex \in Nat /\ m.prevLogTerm # -1 /\ m.entries \in Seq(Entry)
      BY <2>2, <3>1, EntriesValid
    <3>3. m.prevLogIndex <= Len(s.log)
      BY <1>1, <2>2, <3>2, TermKnown DEF PrefixMatches
    <3>4. ASSUME NEW k \in 1..Len(m.entries) PROVE m.entries[k].term <= f.currentTerm
      <4>1. m.entries[k].term \in Nat /\ m.entries[k].term <= m.term
        BY <2>2, <3>1, <3>2, EntriesValid, EntryTerm
      <4>. QED
        BY SMTT(30), <1>1, <1>2, <1>4, <1>5, <4>1
    <3>5. CASE log = Truncated(s, m)
      <4>1. /\ log \in Seq(Entry) /\ s.commitIndex <= Len(log) /\ Len(log) <= Len(s.log)
            /\ \A k \in 1..Len(log) : log[k] = s.log[k]
        BY <1>1, <1>6, <2>2, <3>1, <3>3, <3>5, TruncatedInv
      <4>2. Len(log) \in Nat
        BY <4>1, SeqLength
      <4>. QED
        BY SMTT(30), <1>6, <1>7, <4>1, <4>2
    <3>6. CASE log = Appended(s, m)
      BY <1>1, <1>5, <1>6, <1>7, <2>2, <3>1, <3>3, <3>4, <3>6, AppendedInv
    <3>. QED
      BY <2>2, <3>5, <3>6
  <2>. QED
    BY <1>3, <2>1, <2>2
<1>. DEFINE d == Relogged(f, log)
<1>9. /\ d \in NodeState /\ d.log = log /\ d.kv = s.kv
      /\ d.snapshotIndex = s.snapshotIndex /\ d.currentTerm = f.currentTerm
  BY <1>4, <1>8, ReloggedFields DEF SameStores, SameElection
<1>10. Step(i, ApplyCommitted(Recovered(d)), {m}, {})
  BY <1>3
<1>. HIDE DEF d
<1>11. \A k \in 1..Len(s.kv) : s.kv[k] = log[k]
  BY SMTT(30), <1>6, <1>8
<1>12. Len(s.kv) <= Len(log)
  BY SMTT(30), <1>6, <1>8, SeqLength
<1>13. NodeBase(Recovered(d))
  BY <1>6, <1>8, <1>9, <1>11, <1>12, RecoveredInv DEF NodeInv
<1>. QED
  BY <1>10, <1>13, ApplyCommittedInv, NothingSent, StepInv

(* Every callback and every crash keeps the invariant.                     *)
LEMMA NextInv == IndInv /\ [Next]_vars => IndInv'
<1>. SUFFICES ASSUME IndInv, [Next]_vars PROVE IndInv'
  OBVIOUS
<1>1. CASE UNCHANGED vars
  BY <1>1 DEF vars, IndInv, TypeOK, SentOK, NodeInv, NodeBase
<1>2. ASSUME NEW i \in Node,
             \/ ElectionTimeout(i) \/ LeaderTick(i) \/ ClientPropose(i)
             \/ FinishApply(i) \/ Restart(i)
      PROVE  IndInv'
  BY <1>2, ElectionTimeoutInv, LeaderTickInv, ClientProposeInv, FinishApplyInv, RestartInv
<1>3. ASSUME NEW m \in msgs, Receive(m.to, m)
      PROVE  IndInv'
  <2>1. m.to \in Node
    BY InvMessage
  <2>. QED
    BY <1>3, <2>1, HandleRequestVoteInv, HandleRequestVoteResponseInv,
       HandleAppendEntriesInv, HandleAppendEntriesResponseInv,
       HandleInstallSnapshotInv, HandleInstallSnapshotResponseInv DEF Receive
<1>4. ASSUME NEW m \in msgs, CrashInHandler(m.to, m)
      PROVE  IndInv'
  BY <1>4, InvMessage, CrashInHandlerInv
<1>. QED
  BY <1>1, <1>2, <1>3, <1>4 DEF Next

(* The processes start with empty databases.                               *)
LEMMA InitInv == WellOrdered /\ Init => IndInv
<1>. SUFFICES ASSUME WellOrdered, Init PROVE IndInv
  OBVIOUS
<1>1. <<>> \in Seq(Entry) /\ Len(<<>>) = 0
  OBVIOUS
<1>2. ASSUME NEW i \in Node PROVE NodeInv(node[i]) /\ node[i] \in NodeState
  <2>. DEFINE s == node[i]
  <2>1. s = [currentTerm |-> 0, votedFor |-> None, log |-> <<>>,
             snapshotIndex |-> 0, kv |-> <<>>, state |-> "FOLLOWER",
             leaderId |-> None, votes |-> {}, commitIndex |-> 0,
             applyTo |-> 0, nextIndex |-> [j \in Node |-> 1],
             matchIndex |-> [j \in Node |-> 0], inflight |-> NoRpc]
    BY DEF Init
  <2>. HIDE DEF s
  <2>2. s \in NodeState
    BY <1>1, <2>1 DEF NodeState, State, NoRpc
  <2>3. /\ s.snapshotIndex = 0 /\ s.kv = <<>> /\ s.log = <<>> /\ s.commitIndex = 0
        /\ s.applyTo = 0 /\ \A j \in Node : s.nextIndex[j] = 1 /\ s.inflight[j] = None
    BY <2>1 DEF NoRpc
  <2>4. /\ s.snapshotIndex <= Len(s.kv) /\ Len(s.kv) <= s.commitIndex
        /\ s.commitIndex <= Len(s.log) /\ Len(s.kv) = s.commitIndex
        /\ \A j \in Node : s.nextIndex[j] >= 1
    BY <1>1, <2>3
  <2>5. (1..Len(s.kv)) = {} /\ (1..Len(s.log)) = {}
    BY <1>1, <2>3
  <2>6. NodeBase(s)
    BY <2>2, <2>3, <2>4, <2>5 DEF NodeBase
  <2>7. NodeInv(s)
    BY <2>4, <2>6 DEF NodeInv
  <2>. QED
    BY <2>2, <2>7 DEF s
<1>3. node \in [Node -> NodeState]
  <2>1. node = [i \in Node |-> node[i]]
    BY DEF Init
  <2>. QED
    BY <1>2, <2>1
<1>. QED
  BY <1>2, <1>3 DEF IndInv, TypeOK, SentOK, Init

(* The databases the constructor finds are those the invariant describes.  *)
LEMMA InvConsistent == IndInv => StoresConsistent
<1>. SUFFICES ASSUME IndInv, NEW i \in Node
              PROVE  LET s == node[i]
                     IN /\ s.snapshotIndex <= Len(s.kv)
                        /\ Len(s.kv) <= s.commitIndex
                        /\ s.commitIndex <= LastIndex(s)
                        /\ s.kv = SubSeq(s.log, 1, Len(s.kv))
                        /\ LastTerm(s) <= s.currentTerm
  BY DEF StoresConsistent
<1>. DEFINE s == node[i]
<1>1. /\ NodeBase(s) /\ s \in NodeState /\ s.log \in Seq(Entry) /\ s.kv \in Seq(Entry)
      /\ Len(s.kv) \in Nat /\ Len(s.log) \in Nat /\ s.commitIndex \in Nat
      /\ s.currentTerm \in Nat /\ s.snapshotIndex \in Nat
  BY InvNode, SeqLength DEF NodeState
<1>. HIDE DEF s
<1>2. /\ s.snapshotIndex <= Len(s.kv) /\ Len(s.kv) <= s.commitIndex
      /\ s.commitIndex <= Len(s.log)
  BY <1>1 DEF NodeBase
<1>3. s.kv = SubSeq(s.log, 1, Len(s.kv))
  <2>. DEFINE part == SubSeq(s.log, 1, Len(s.kv))
  <2>1. /\ part \in Seq(Entry)
        /\ Len(part) = IF 1 <= Len(s.kv) THEN Len(s.kv) - 1 + 1 ELSE 0
        /\ \A k \in 1 .. Len(s.kv) - 1 + 1 : part[k] = s.log[1 + k - 1]
    <3>1. Len(s.kv) <= Len(s.log) /\ 1 \in Nat \ {0}
      BY <1>1, <1>2
    <3>. QED
      BY SMTT(30), <1>1, <3>1, LogPart
  <2>. HIDE DEF part
  <2>2. Len(part) = Len(s.kv)
    BY <1>1, <2>1
  <2>3. ASSUME NEW k \in 1..Len(s.kv) PROVE part[k] = s.kv[k]
    <3>1. k \in 1 .. Len(s.kv) - 1 + 1 /\ 1 + k - 1 = k
      BY <1>1
    <3>2. part[k] = s.log[k]
      BY <2>1, <3>1
    <3>3. s.kv[k] = s.log[k]
      BY <1>1 DEF NodeBase
    <3>. QED
      BY <3>2, <3>3
  <2>4. s.kv = part
    BY <1>1, <2>1, <2>2, <2>3, SeqExtensional
  <2>. QED
    BY <2>4 DEF part
<1>4. LastTerm(s) <= s.currentTerm
  <2>1. CASE Len(s.log) = 0
    BY <1>1, <2>1 DEF LastTerm, LastIndex, GetTerm
  <2>2. CASE Len(s.log) # 0
    <3>1. Len(s.log) \in 1..Len(s.log) /\ ~(Len(s.log) < s.snapshotIndex)
      BY <1>1, <1>2, <2>2
    <3>2. LastTerm(s) = s.log[Len(s.log)].term
      BY <1>1, <2>2, <3>1 DEF LastTerm, LastIndex, GetTerm
    <3>. QED
      BY <1>1, <3>1, <3>2 DEF NodeBase
  <2>. QED
    BY <2>1, <2>2
<1>. QED
  BY <1>2, <1>3, <1>4 DEF s, LastIndex
=============================================================================
