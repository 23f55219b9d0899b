------------------------- MODULE RaftHistoryProofs -------------------------
(***************************************************************************)
(* Every kind of step a callback is made of keeps the history of           *)
(* RaftHistory in line with the state.                                     *)
(***************************************************************************)
EXTENDS RaftHistory, TLAPS

(* The provers get longer than the default for a leaf.                     *)
USE ZenonT(10), SMTT(20)

(* At most one node is elected in a term.                                  *)
LEMMA ElectedOnce ==
    ASSUME Majorities,
           NEW voted, NEW t, NEW i, NEW j, Elected(voted, i, t), Elected(voted, j, t)
    PROVE  i = j
<1>1. PICK P \in SUBSET Node : Quorum(P) /\ \A v \in P : voted[v][t] = i
  BY DEF Elected
<1>2. PICK Q \in SUBSET Node : Quorum(Q) /\ \A v \in Q : voted[v][t] = j
  BY DEF Elected
<1>. QED
  BY <1>1, <1>2 DEF Majorities

-----------------------------------------------------------------------------
(* Logs that agree.                                                        *)

LEMMA SameSym ==
    ASSUME NEW a, NEW b, NEW k, SameUpTo(a, b, k) PROVE SameUpTo(b, a, k)
  BY DEF SameUpTo

LEMMA SameTrans ==
    ASSUME NEW a, NEW b, NEW c, NEW k, SameUpTo(a, b, k), SameUpTo(b, c, k)
    PROVE  SameUpTo(a, c, k)
  BY DEF SameUpTo

LEMMA SameLess ==
    ASSUME NEW a \in Seq(Entry), NEW b \in Seq(Entry), NEW k \in Nat, NEW l \in Nat,
           l <= k, SameUpTo(a, b, k)
    PROVE  SameUpTo(a, b, l)
  BY SMTT(30) DEF SameUpTo

(* b only grows at its end.                                                *)
LEMMA SameGrows ==
    ASSUME NEW a \in Seq(Entry), NEW b \in Seq(Entry), NEW c \in Seq(Entry), NEW k \in Nat,
           SameUpTo(a, b, k), SameUpTo(b, c, Len(b))
    PROVE  SameUpTo(a, c, k)
  BY SMTT(30) DEF SameUpTo

LEMMA SameAt ==
    ASSUME NEW a \in Seq(Entry), NEW b \in Seq(Entry), NEW k \in Nat, SameUpTo(a, b, k),
           NEW x \in 1..k
    PROVE  a[x] = b[x] /\ x \in 1..Len(a) /\ x \in 1..Len(b)
  BY SMTT(30) DEF SameUpTo

LEMMA EntryHasTerm ==
    ASSUME NEW log \in Seq(Entry), NEW k \in 1..Len(log)
    PROVE  log[k] \in Entry /\ log[k].term \in Nat
<1>1. log[k] \in Entry
  BY SMTT(30)
<1>. QED
  BY <1>1 DEF Entry

(* Two faithful logs with the same term at an index agree up to it.        *)
LEMMA TermDecides ==
    ASSUME NEW led, IsLed(led), NEW a \in Seq(Entry), NEW b \in Seq(Entry),
           Faithful(led, a), Faithful(led, b),
           NEW k \in 1..Len(a), k \in 1..Len(b), a[k].term = b[k].term
    PROVE  SameUpTo(a, b, k)
<1>1. SameUpTo(a, led[a[k].term], k) /\ SameUpTo(b, led[b[k].term], k)
  BY DEF Faithful
<1>. QED
  BY SMTT(30), <1>1, SameSym, SameTrans

(* A prefix of a faithful log is faithful.                                 *)
LEMMA FaithfulPrefix ==
    ASSUME NEW led, IsLed(led), NEW a \in Seq(Entry), NEW b \in Seq(Entry),
           Faithful(led, a), SameUpTo(a, b, Len(b))
    PROVE  Faithful(led, b)
<1>1. SUFFICES ASSUME NEW k \in 1..Len(b) PROVE SameUpTo(b, led[b[k].term], k)
  BY DEF Faithful
<1>2. k \in 1..Len(a) /\ a[k] = b[k] /\ k \in Nat
  BY SMTT(30) DEF SameUpTo
<1>3. SameUpTo(b, a, k)
  BY SMTT(30), <1>2, SameLess, SameSym
<1>4. SameUpTo(a, led[a[k].term], k)
  BY <1>2 DEF Faithful
<1>. QED
  BY <1>2, <1>3, <1>4, SameTrans

(* What the leaders wrote only grows.                                      *)
LedGrows(led, led2) == \A t \in Nat : SameUpTo(led[t], led2[t], Len(led[t]))

LEMMA FaithfulGrows ==
    ASSUME NEW led, NEW led2, IsLed(led), IsLed(led2),
           LedGrows(led, led2), NEW a \in Seq(Entry), Faithful(led, a)
    PROVE  Faithful(led2, a)
<1>1. SUFFICES ASSUME NEW k \in 1..Len(a) PROVE SameUpTo(a, led2[a[k].term], k)
  BY DEF Faithful
<1>2. a[k].term \in Nat
  BY EntryHasTerm
<1>3. SameUpTo(a, led[a[k].term], k)
  BY DEF Faithful
<1>5. k \in Nat
  BY SMTT(30)
<1>4. /\ led[a[k].term] \in Seq(Entry) /\ led2[a[k].term] \in Seq(Entry)
      /\ SameUpTo(led[a[k].term], led2[a[k].term], Len(led[a[k].term]))
  BY <1>2 DEF LedGrows, IsLed
<1>. QED
  BY <1>2, <1>3, <1>4, <1>5, SameGrows

-----------------------------------------------------------------------------
(* What was once so remains so: votes, acknowledgements and the leaders'   *)
(* logs only grow.                                                         *)

VotedGrows(voted, voted2) ==
    \A v \in Node, t \in Nat : voted[v][t] # None => voted2[v][t] = voted[v][t]

AckedGrows(acked, acked2) == \A t \in Nat, v \in Node : acked[t][v] <= acked2[t][v]

LEMMA ElectedGrows ==
    ASSUME NEW voted, NEW voted2, VotedGrows(voted, voted2),
           NEW i \in Node, NEW t \in Nat, Elected(voted, i, t)
    PROVE  Elected(voted2, i, t)
<1>1. PICK Q \in SUBSET Node : Quorum(Q) /\ \A v \in Q : voted[v][t] = i
  BY DEF Elected
<1>2. \A v \in Q : voted2[v][t] = i
  BY <1>1, NodeAssumption DEF VotedGrows
<1>. QED
  BY <1>1, <1>2 DEF Elected

LEMMA CommittedGrows ==
    ASSUME NEW led, NEW led2, IsLed(led), IsLed(led2),
           NEW acked, NEW acked2, IsAcked(acked), IsAcked(acked2),
           LedGrows(led, led2), AckedGrows(acked, acked2),
           NEW t \in Nat, NEW k \in Nat, Committed(led, acked, t, k)
    PROVE  Committed(led2, acked2, t, k) /\ SameUpTo(led[t], led2[t], k)
<1>1. PICK Q \in SUBSET Node : Quorum(Q) /\ \A v \in Q : acked[t][v] >= k
  BY DEF Committed
<1>2. \A v \in Q : acked2[t][v] >= k
  <2>1. SUFFICES ASSUME NEW v \in Q PROVE acked2[t][v] >= k
    OBVIOUS
  <2>2. acked[t][v] \in Nat /\ acked2[t][v] \in Nat /\ acked[t][v] <= acked2[t][v]
    BY <1>1 DEF AckedGrows, IsAcked
  <2>. QED
    BY SMTT(30), <1>1, <2>2
<1>3. /\ led[t] \in Seq(Entry) /\ led2[t] \in Seq(Entry)
      /\ SameUpTo(led[t], led2[t], Len(led[t]))
      /\ k \in 1..Len(led[t]) /\ led[t][k].term = t
  BY DEF LedGrows, Committed, IsLed
<1>4. SameUpTo(led[t], led2[t], k)
  BY SMTT(30), <1>3, SameLess
<1>5. k \in 1..Len(led2[t]) /\ led2[t][k].term = t
  BY SMTT(30), <1>3, <1>4, SameAt
<1>. QED
  BY <1>1, <1>2, <1>4, <1>5 DEF Committed

LEMMA KnownGrows ==
    ASSUME NEW led, NEW led2, IsLed(led), IsLed(led2),
           NEW acked, NEW acked2, IsAcked(acked), IsAcked(acked2),
           LedGrows(led, led2), AckedGrows(acked, acked2),
           NEW t \in Nat, NEW k \in Nat, KnownBy(led, acked, t, k)
    PROVE  KnownBy(led2, acked2, t, k)
<1>1. PICK u \in 0..t, l \in Nat : l >= k /\ Committed(led, acked, u, l)
  BY DEF KnownBy
<1>2. Committed(led2, acked2, u, l)
  BY SMTT(30), <1>1, CommittedGrows
<1>. QED
  BY <1>1, <1>2 DEF KnownBy

LEMMA CommitGrows ==
    ASSUME NEW led, NEW led2, IsLed(led), IsLed(led2),
           NEW acked, NEW acked2, IsAcked(acked), IsAcked(acked2),
           LedGrows(led, led2), AckedGrows(acked, acked2), NEW log \in Seq(Entry),
           NEW t \in Nat, NEW k \in Nat, CommitOK(led, acked, log, t, k)
    PROVE  CommitOK(led2, acked2, log, t, k)
<1>1. SUFFICES ASSUME k > 0
               PROVE  \E u \in 0..t : \E l \in Nat :
                        /\ l >= k
                        /\ Committed(led2, acked2, u, l)
                        /\ SameUpTo(led2[u], log, k)
  BY DEF CommitOK
<1>2. PICK u \in 0..t, l \in Nat :
         l >= k /\ Committed(led, acked, u, l) /\ SameUpTo(led[u], log, k)
  BY <1>1 DEF CommitOK
<1>3. Committed(led2, acked2, u, l) /\ SameUpTo(led[u], led2[u], l)
  BY SMTT(30), <1>2, CommittedGrows
<1>4. led[u] \in Seq(Entry) /\ led2[u] \in Seq(Entry)
  BY SMTT(30) DEF IsLed
<1>5. SameUpTo(led2[u], log, k)
  BY <1>2, <1>3, <1>4, SameLess, SameSym, SameTrans
<1>. QED
  BY <1>2, <1>3, <1>5

LEMMA RequestGrows ==
    ASSUME NEW led, NEW led2, IsLed(led), IsLed(led2),
           NEW acked, NEW acked2, IsAcked(acked), IsAcked(acked2),
           NEW voted, NEW voted2, VotedGrows(voted, voted2),
           LedGrows(led, led2), AckedGrows(acked, acked2),
           NEW m \in AppendEntriesMsg \cup InstallSnapshotMsg, RequestOK(voted, led, acked, m)
    PROVE  RequestOK(voted2, led2, acked2, m)
<1>1. m.from \in Node /\ m.term \in Nat
  BY DEF AppendEntriesMsg, InstallSnapshotMsg
<1>. DEFINE log == led[m.term]
            log2 == led2[m.term]
<1>2. log \in Seq(Entry) /\ log2 \in Seq(Entry) /\ SameUpTo(log, log2, Len(log)) /\ log # <<>>
  BY <1>1 DEF LedGrows, RequestOK, IsLed
<1>3. Elected(voted2, m.from, m.term)
  BY <1>1, ElectedGrows DEF RequestOK
<1>4. log2 # <<>>
  BY SMTT(30), <1>2 DEF SameUpTo
<1>5. CASE m \in AppendEntriesMsg
  <2>1. /\ m.type = "AppendEntries" /\ m.prevLogIndex \in Nat /\ m.leaderCommit \in Nat
        /\ m.entries \in Seq(Entry)
    BY <1>5 DEF AppendEntriesMsg
  <2>2. /\ m.prevLogIndex + Len(m.entries) <= Len(log)
        /\ m.prevLogTerm = TermAt(log, m.prevLogIndex)
        /\ \A x \in 1..Len(m.entries) : m.entries[x] = log[m.prevLogIndex + x]
        /\ m.leaderCommit > 0 => KnownBy(led, acked, m.term, m.leaderCommit)
    BY <2>1 DEF RequestOK
  <2>3. m.leaderCommit > 0 => KnownBy(led2, acked2, m.term, m.leaderCommit)
    BY <1>1, <2>1, <2>2, KnownGrows
  <2>. HIDE DEF log, log2
  <2>4. /\ m.prevLogIndex + Len(m.entries) <= Len(log2)
        /\ m.prevLogTerm = TermAt(log2, m.prevLogIndex)
        /\ \A x \in 1..Len(m.entries) : m.entries[x] = log2[m.prevLogIndex + x]
    <3>. DEFINE prev == m.prevLogIndex
                entries == m.entries
    <3>1. Len(log) \in Nat /\ Len(log2) \in Nat /\ Len(entries) \in Nat /\ Len(log) <= Len(log2)
      BY SMTT(30), <1>2, <2>1 DEF SameUpTo
    <3>2. \A x \in 1..Len(log) : log[x] = log2[x]
      BY <1>2 DEF SameUpTo
    <3>3. TermAt(log2, prev) = TermAt(log, prev)
      <4>1. prev # 0 => prev \in 1..Len(log)
        BY SMTT(30), <2>1, <2>2, <3>1
      <4>. QED
        BY <3>2, <4>1 DEF TermAt
    <3>4. ASSUME NEW x \in 1..Len(entries) PROVE entries[x] = log2[prev + x]
      <4>1. prev + x \in 1..Len(log)
        BY SMTT(30), <2>1, <2>2, <3>1
      <4>2. entries[x] = log[prev + x]
        BY <2>2
      <4>. QED
        BY <3>2, <4>1, <4>2
    <3>. QED
      BY SMTT(30), <2>1, <2>2, <3>1, <3>3, <3>4
  <2>. QED
    BY <1>3, <1>4, <2>1, <2>3, <2>4 DEF RequestOK, log2
<1>6. CASE m \in InstallSnapshotMsg
  <2>1. m.type = "InstallSnapshot" /\ m.lastIncludedIndex \in Nat /\ m.data \in Seq(Entry)
    BY <1>6 DEF InstallSnapshotMsg
  <2>2. /\ m.lastIncludedIndex = Len(m.data) /\ m.lastIncludedIndex > 0
        /\ SameUpTo(log, m.data, m.lastIncludedIndex)
        /\ m.lastIncludedTerm = log[m.lastIncludedIndex].term
        /\ KnownBy(led, acked, m.term, m.lastIncludedIndex)
    BY <2>1 DEF RequestOK
  <2>3. KnownBy(led2, acked2, m.term, m.lastIncludedIndex)
    BY <1>1, <2>1, <2>2, KnownGrows
  <2>. HIDE DEF log, log2
  <2>4. /\ SameUpTo(log2, m.data, m.lastIncludedIndex)
        /\ m.lastIncludedTerm = log2[m.lastIncludedIndex].term
    BY SMTT(30), <1>2, <2>1, <2>2 DEF SameUpTo
  <2>. QED
    BY <1>3, <1>4, <2>1, <2>2, <2>3, <2>4 DEF RequestOK, log2
<1>. QED
  BY <1>5, <1>6

(* A message that fitted the history still fits it.                        *)
LEMMA MessageGrows ==
    ASSUME NEW led, NEW led2, IsLed(led), IsLed(led2),
           NEW acked, NEW acked2, IsAcked(acked), IsAcked(acked2),
           NEW voted, NEW voted2, VotedGrows(voted, voted2),
           LedGrows(led, led2), AckedGrows(acked, acked2),
           NEW n, NEW n2, NEW bid, NEW bid2,
           \A i \in Node : /\ n[i].currentTerm \in Nat /\ n2[i].currentTerm \in Nat
                           /\ n[i].currentTerm <= n2[i].currentTerm,
           \A i \in Node, t \in Nat : t <= n[i].currentTerm => bid2[i][t] = bid[i][t],
           NEW m \in Message, MessageOK(n, voted, bid, led, acked, m)
    PROVE  MessageOK(n2, voted2, bid2, led2, acked2, m)
<1>1. m.from \in Node /\ m.to \in Node /\ m.term \in Nat
  BY DEF Message, RequestVoteMsg, RequestVoteResponseMsg, AppendEntriesMsg,
         AppendEntriesResponseMsg, InstallSnapshotMsg, InstallSnapshotResponseMsg
<1>2. CASE m \in RequestVoteMsg
  <2>1. m.type = "RequestVote"
    BY <1>2 DEF RequestVoteMsg
  <2>2. /\ m.term > 0 /\ m.lastLogTerm \in 0..m.term
        /\ ~m.prevote
             => /\ m.term <= n[m.from].currentTerm
                /\ m.lastLogIndex = Len(bid[m.from][m.term])
                /\ m.lastLogTerm = TermAt(bid[m.from][m.term], m.lastLogIndex)
    BY <2>1 DEF MessageOK
  <2>3. ~m.prevote => m.term <= n2[m.from].currentTerm
    BY SMTT(30), <1>1, <2>2
  <2>4. ~m.prevote => bid2[m.from][m.term] = bid[m.from][m.term]
    BY <1>1, <2>2
  <2>. QED
    BY <2>1, <2>2, <2>3, <2>4 DEF MessageOK
<1>3. CASE m \in RequestVoteResponseMsg
  <2>1. m.type = "RequestVoteResponse"
    BY <1>3 DEF RequestVoteResponseMsg
  <2>2. m.granted /\ ~m.prevote => voted[m.from][m.term] = m.to
    BY <2>1 DEF MessageOK
  <2>3. m.granted /\ ~m.prevote => voted2[m.from][m.term] = m.to
    BY SMTT(30), <1>1, <2>2, NodeAssumption DEF VotedGrows
  <2>. QED
    BY <2>1, <2>3 DEF MessageOK
<1>4. CASE m \in AppendEntriesMsg \cup InstallSnapshotMsg
  <2>1. m.type \in {"AppendEntries", "InstallSnapshot"}
    BY <1>4 DEF AppendEntriesMsg, InstallSnapshotMsg
  <2>2. RequestOK(voted2, led2, acked2, m)
    BY <1>4, <2>1, RequestGrows DEF MessageOK
  <2>. QED
    BY <2>1, <2>2 DEF MessageOK
<1>5. CASE m \in AppendEntriesResponseMsg \cup InstallSnapshotResponseMsg
  <2>1. m.type \in {"AppendEntriesResponse", "InstallSnapshotResponse"}
    BY <1>5 DEF AppendEntriesResponseMsg, InstallSnapshotResponseMsg
  <2>2. m.success => AckedIndex(m) <= acked[m.term][m.from]
    BY <2>1 DEF MessageOK
  <2>3. AckedIndex(m) \in Nat
    <3>1. CASE m \in AppendEntriesResponseMsg
      <4>1. m.type = "AppendEntriesResponse" /\ m.request \in AppendEntriesMsg
        BY <3>1 DEF AppendEntriesResponseMsg
      <4>2. m.request.prevLogIndex \in Nat /\ m.request.entries \in Seq(Entry)
        BY <4>1 DEF AppendEntriesMsg
      <4>. QED
        BY SMTT(30), <4>1, <4>2 DEF AckedIndex
    <3>2. CASE m \in InstallSnapshotResponseMsg
      <4>1. m.type = "InstallSnapshotResponse" /\ m.request \in InstallSnapshotMsg
        BY <3>2 DEF InstallSnapshotResponseMsg
      <4>2. m.request.lastIncludedIndex \in Nat
        BY <4>1 DEF InstallSnapshotMsg
      <4>. QED
        BY <4>1, <4>2 DEF AckedIndex
    <3>. QED
      BY <1>5, <3>1, <3>2
  <2>4. /\ acked[m.term][m.from] \in Nat /\ acked2[m.term][m.from] \in Nat
        /\ acked[m.term][m.from] <= acked2[m.term][m.from]
    BY <1>1 DEF AckedGrows, IsAcked
  <2>5. m.success => AckedIndex(m) <= acked2[m.term][m.from]
    BY SMTT(30), <2>2, <2>3, <2>4
  <2>. QED
    BY <2>1, <2>5 DEF MessageOK
<1>. QED
  BY <1>2, <1>3, <1>4, <1>5 DEF Message

-----------------------------------------------------------------------------
(* The steps.  n and n2 are the node states before and after; only that of *)
(* node i changes.                                                         *)

Only(i, n, n2) ==
    /\ \A j \in Node : n2[j] \in NodeState
    /\ \A j \in Node \ {i} : n2[j] = n[j]

LEMMA NodeFields ==
    ASSUME NEW s \in NodeState
    PROVE  /\ s.currentTerm \in Nat /\ s.log \in Seq(Entry) /\ s.commitIndex \in Nat
           /\ s.votedFor \in Node \cup {None} /\ s.votes \in SUBSET Node
           /\ Len(s.log) \in Nat
           /\ \A j \in Node : /\ s.inflight[j] \in AppendEntriesMsg \cup InstallSnapshotMsg \cup {None}
                              /\ s.matchIndex[j] \in Nat /\ s.nextIndex[j] \in Nat
  BY SMTT(30) DEF NodeState

LEMMA DeniedGrows ==
    ASSUME NEW n, NEW n2, NEW acked, NEW t \in Nat, NEW k,
           \A v \in Node : n[v].currentTerm \in Nat /\ n2[v].currentTerm \in Nat,
           \A v \in Node : n[v].currentTerm <= n2[v].currentTerm,
           Denied(n, acked, t, k)
    PROVE  Denied(n2, acked, t, k)
<1>1. PICK Q \in SUBSET Node :
         Quorum(Q) /\ \A v \in Q : n[v].currentTerm > t /\ acked[t][v] < k
  BY DEF Denied
<1>2. \A v \in Q : n2[v].currentTerm > t
  BY SMTT(30), <1>1
<1>. QED
  BY <1>1, <1>2 DEF Denied

(* A step that leaves logs and history alone: a node may move on to a      *)
(* later term, leave an office, count a vote, move its indexes, or build a *)
(* request.                                                                *)
LEMMA LocalStep ==
    ASSUME NEW n, NEW n2, NEW voted, NEW bid, NEW led, NEW acked,
           Core(n, voted, bid, led, acked), NEW i \in Node, Only(i, n, n2),
           n2[i].log = n[i].log,
           n2[i].currentTerm >= n[i].currentTerm,
           n2[i].currentTerm = n[i].currentTerm => n2[i].votedFor = n[i].votedFor,
           n2[i].currentTerm # n[i].currentTerm => n2[i].votedFor = None,
           n2[i].state = "CANDIDATE"
             => n[i].state = "CANDIDATE" /\ n2[i].currentTerm = n[i].currentTerm,
           CandidateOK(voted, bid, i, n2[i]),
           LeaderOK(voted, led, acked, i, n2[i]),
           CommitOK(led, acked, n2[i].log, n2[i].currentTerm, n2[i].commitIndex),
           FlightOK(voted, led, acked, n2[i])
    PROVE  Core(n2, voted, bid, led, acked)
<1>1. /\ \A j \in Node : n[j] \in NodeState /\ n2[j] \in NodeState
      /\ \A j \in Node \ {i} : n2[j] = n[j]
      /\ \A j \in Node : NodeOK(voted, bid, led, acked, j, n[j])
  BY DEF Core, Types, Only
<1>2. \A j \in Node : /\ n[j].currentTerm \in Nat /\ n2[j].currentTerm \in Nat
                      /\ n[j].log \in Seq(Entry) /\ Len(n[j].log) \in Nat
  BY <1>1, NodeFields
<1>3. \A j \in Node : n2[j].log = n[j].log /\ n[j].currentTerm <= n2[j].currentTerm
  BY SMTT(30), <1>1, <1>2
<1>4. VoterOK(voted, i, n2[i])
  <2>1. VoterOK(voted, i, n[i])
    BY <1>1 DEF NodeOK
  <2>. QED
    BY SMTT(30), <1>2, <2>1 DEF VoterOK
<1>5. LogOK(led, n2[i])
  <2>1. LogOK(led, n[i])
    BY <1>1 DEF NodeOK
  <2>2. \A k \in 1..Len(n[i].log) : n[i].log[k].term \in Nat
    BY <1>2, EntryHasTerm
  <2>. QED
    BY SMTT(30), <1>2, <2>1, <2>2 DEF LogOK
<1>6. AcksOK(led, acked, i, n2[i])
  <2>1. AcksOK(led, acked, i, n[i])
    BY <1>1 DEF NodeOK
  <2>. QED
    BY SMTT(30), <1>2, <2>1 DEF AcksOK
<1>7. \A j \in Node : NodeOK(voted, bid, led, acked, j, n2[j])
  BY <1>1, <1>4, <1>5, <1>6 DEF NodeOK
<1>8. Standing(n2, voted)
  <2>1. Standing(n, voted)
    BY DEF Core
  <2>. QED
    BY SMTT(30), <1>2, <1>3, <2>1 DEF Standing
<1>9. Owned(n2, voted, led)
  <2>1. Owned(n, voted, led)
    BY DEF Core
  <2>2. SUFFICES ASSUME NEW t \in Nat, led[t] # <<>>
                 PROVE  \E j \in Node : /\ Elected(voted, j, t)
                                        /\ t <= n2[j].currentTerm
                                        /\ t = n2[j].currentTerm => n2[j].state # "CANDIDATE"
    BY DEF Owned
  <2>3. PICK j \in Node : /\ Elected(voted, j, t)
                          /\ t <= n[j].currentTerm
                          /\ t = n[j].currentTerm => n[j].state # "CANDIDATE"
    BY <2>1, <2>2 DEF Owned
  <2>4. t <= n2[j].currentTerm
    BY SMTT(30), <1>2, <1>3, <2>3
  <2>5. t = n2[j].currentTerm => n2[j].state # "CANDIDATE"
    BY <1>1, <1>2, <2>3
  <2>. QED
    BY <2>3, <2>4, <2>5
<1>10. Entries(n2, voted, bid, led, acked)
  <2>1. SUFFICES ASSUME NEW t \in Nat, NEW k \in 1..Len(led[t]), led[t][k].term = t
                 PROVE  \/ Denied(n2, acked, t, k)
                        \/ Carried(n2, voted, bid, led, acked, t, k)
    BY DEF Entries
  <2>2. CASE Denied(n, acked, t, k)
    BY <1>2, <1>3, <2>2, DeniedGrows
  <2>3. CASE Carried(n, voted, bid, led, acked, t, k)
    BY <1>3, <2>3 DEF Carried
  <2>. QED
    BY <2>1, <2>2, <2>3 DEF Core, Entries
<1>. QED
  BY <1>1, <1>7, <1>8, <1>9, <1>10 DEF Core, Types

LEMMA GrowsRefl ==
    ASSUME NEW voted, NEW led, NEW acked, IsLed(led), IsAcked(acked)
    PROVE  VotedGrows(voted, voted) /\ LedGrows(led, led) /\ AckedGrows(acked, acked)
<1>1. \A t \in Nat : Len(led[t]) \in Nat
  BY SMTT(30) DEF IsLed
<1>2. LedGrows(led, led)
  BY SMTT(30), <1>1 DEF LedGrows, SameUpTo
<1>. QED
  BY SMTT(30), <1>2 DEF VotedGrows, AckedGrows, IsAcked

(* A node that does not move keeps fitting a history that grows.           *)
LEMMA NodeGrows ==
    ASSUME NEW voted, NEW voted2, NEW bid, NEW bid2, NEW led, NEW led2, NEW acked, NEW acked2,
           IsLed(led), IsLed(led2), IsAcked(acked), IsAcked(acked2),
           VotedGrows(voted, voted2), LedGrows(led, led2), AckedGrows(acked, acked2),
           NEW j \in Node, NEW s \in NodeState, NodeOK(voted, bid, led, acked, j, s),
           VoterOK(voted2, j, s),
           AcksOK(led2, acked2, j, s),
           bid2[j][s.currentTerm] = bid[j][s.currentTerm],
           s.state = "LEADER" => led2[s.currentTerm] = led[s.currentTerm]
    PROVE  NodeOK(voted2, bid2, led2, acked2, j, s)
<1>1. /\ s.currentTerm \in Nat /\ s.log \in Seq(Entry) /\ s.commitIndex \in Nat
      /\ s.votes \in SUBSET Node
  BY NodeFields
<1>2. \A p \in Node : Elected(voted, p, s.currentTerm) => Elected(voted2, p, s.currentTerm)
  BY <1>1, ElectedGrows
<1>3. CandidateOK(voted2, bid2, j, s)
  <2>1. CandidateOK(voted, bid, j, s)
    BY DEF NodeOK
  <2>2. \A v \in s.votes : voted[v][s.currentTerm] = j => voted2[v][s.currentTerm] = j
    BY <1>1, NodeAssumption DEF VotedGrows
  <2>. QED
    BY <1>2, <2>1, <2>2 DEF CandidateOK
<1>4. LeaderOK(voted2, led2, acked2, j, s)
  <2>1. LeaderOK(voted, led, acked, j, s)
    BY DEF NodeOK
  <2>2. SUFFICES ASSUME s.state = "LEADER"
                 PROVE  \A v \in Node : s.matchIndex[v] <= acked2[s.currentTerm][v]
    BY <1>2, <2>1 DEF LeaderOK
  <2>3. SUFFICES ASSUME NEW v \in Node PROVE s.matchIndex[v] <= acked2[s.currentTerm][v]
    OBVIOUS
  <2>4. s.matchIndex[v] <= acked[s.currentTerm][v]
    BY <2>1, <2>2 DEF LeaderOK
  <2>5. /\ acked[s.currentTerm][v] \in Nat /\ acked2[s.currentTerm][v] \in Nat
        /\ acked[s.currentTerm][v] <= acked2[s.currentTerm][v]
    BY <1>1 DEF IsAcked, AckedGrows
  <2>6. s.matchIndex[v] \in Nat
    BY NodeFields
  <2>. QED
    BY SMTT(30), <2>4, <2>5, <2>6
<1>5. LogOK(led2, s)
  BY <1>1, FaithfulGrows DEF NodeOK, LogOK
<1>6. CommitOK(led2, acked2, s.log, s.currentTerm, s.commitIndex)
  BY <1>1, CommitGrows DEF NodeOK
<1>7. FlightOK(voted2, led2, acked2, s)
  <2>1. SUFFICES ASSUME NEW p \in Node, s.inflight[p] # None
                 PROVE  RequestOK(voted2, led2, acked2, s.inflight[p])
    BY DEF FlightOK
  <2>2. RequestOK(voted, led, acked, s.inflight[p])
    BY <2>1 DEF NodeOK, FlightOK
  <2>3. s.inflight[p] \in AppendEntriesMsg \cup InstallSnapshotMsg
    BY <2>1, NodeFields
  <2>. QED
    BY SMTT(30), <2>2, <2>3, RequestGrows
<1>. QED
  BY <1>3, <1>4, <1>5, <1>6, <1>7 DEF NodeOK

(* The log of length Len(b) that ends with the later term is the better.   *)
UpToDate(b, l) ==
    LET x == TermAt(b, Len(b))
        y == TermAt(l, Len(l))
    IN (x > y) \/ (x = y /\ Len(b) >= Len(l))

(* A log that is up to date with one that carries an entry carries it too. *)
LEMMA UpToDateCarries ==
    ASSUME NEW led, IsLed(led), NEW b \in Seq(Entry), NEW l \in Seq(Entry),
           Faithful(led, b), Faithful(led, l), \A u \in Nat : Ordered(u, led[u]),
           NEW t \in Nat, NEW k \in 1..Len(led[t]), led[t][k].term = t,
           SameUpTo(led[t], l, k),
           \A u \in Nat : u > t /\ led[u] # <<>> => SameUpTo(led[t], led[u], k),
           UpToDate(b, l)
    PROVE  SameUpTo(led[t], b, k)
<1>1. \A u \in Nat : led[u] \in Seq(Entry) /\ Len(led[u]) \in Nat
  BY SMTT(30) DEF IsLed
<1>2. Len(b) \in Nat /\ Len(l) \in Nat /\ k \in Nat /\ k >= 1
  BY SMTT(30), <1>1
<1>. DEFINE w == TermAt(b, Len(b))
            y == TermAt(l, Len(l))
<1>3. t >= 1
  BY SMTT(30), <1>1 DEF Ordered
<1>4. k <= Len(l) /\ l[k] = led[t][k]
  BY SMTT(30), <1>2 DEF SameUpTo
<1>5. y \in Nat /\ y >= t
  <2>1. y = l[Len(l)].term /\ Len(l) \in 1..Len(l) /\ y \in Nat
    BY SMTT(30), <1>2, <1>4, EntryHasTerm DEF TermAt
  <2>2. SameUpTo(l, led[y], Len(l))
    BY <2>1 DEF Faithful
  <2>3. led[y][k] = l[k] /\ led[y][Len(l)] = l[Len(l)] /\ Len(l) <= Len(led[y])
    BY SMTT(30), <1>2, <1>4, <2>1, <2>2 DEF SameUpTo
  <2>4. k \in 1..Len(led[y]) /\ Len(l) \in 1..Len(led[y])
    BY SMTT(30), <1>1, <1>2, <1>4, <2>1, <2>3
  <2>. HIDE DEF y
  <2>. QED
    BY SMTT(30), <1>2, <1>4, <2>1, <2>3, <2>4 DEF Ordered
<1>6. w > y \/ (w = y /\ Len(b) >= Len(l))
  BY DEF UpToDate
<1>7. Len(b) # 0
  BY SMTT(30), <1>2, <1>3, <1>4, <1>5, <1>6 DEF TermAt
<1>8. w = b[Len(b)].term /\ w \in Nat /\ SameUpTo(b, led[w], Len(b))
  BY SMTT(30), <1>2, <1>7, EntryHasTerm DEF TermAt, Faithful
<1>. HIDE DEF w, y
<1>9. CASE w = t
  <2>1. Len(b) >= k
    BY SMTT(30), <1>2, <1>4, <1>5, <1>6, <1>9
  <2>. QED
    BY <1>1, <1>2, <1>8, <1>9, <2>1, SameLess, SameSym
<1>10. CASE w > t
  <2>1. Len(b) <= Len(led[w]) /\ led[w] # <<>>
    BY SMTT(30), <1>1, <1>2, <1>7, <1>8 DEF SameUpTo
  <2>2. SameUpTo(led[t], led[w], k)
    BY <1>8, <1>10, <2>1
  <2>3. Len(b) >= k
    <3>1. SUFFICES ASSUME Len(b) < k PROVE FALSE
      BY SMTT(30), <1>2
    <3>2. Len(b) \in 1..k /\ Len(b) \in 1..Len(led[t]) /\ Len(b) \in 1..Len(b)
      BY SMTT(30), <1>1, <1>2, <1>7, <3>1
    <3>3. led[t][Len(b)] = led[w][Len(b)] /\ led[w][Len(b)] = b[Len(b)]
      BY <1>8, <2>2, <3>2 DEF SameUpTo
    <3>4. led[t][Len(b)].term \in 1..t
      BY <3>2 DEF Ordered
    <3>. QED
      BY SMTT(30), <1>8, <1>10, <3>3, <3>4
  <2>4. SameUpTo(led[w], b, k)
    BY <1>1, <1>2, <1>8, <2>3, SameLess, SameSym
  <2>. QED
    BY <2>2, <2>4, SameTrans
<1>. QED
  BY SMTT(30), <1>5, <1>6, <1>8, <1>9, <1>10

(* Node i votes for c in its term, and nothing else changes.               *)
CastsVote(n, n2, voted, voted2, bid, i, c) ==
    /\ n[i].votedFor \in {None, c} /\ n2[i].votedFor = c /\ n2[i].log = n[i].log
    /\ n2[i].currentTerm = n[i].currentTerm /\ n2[i].state = n[i].state
    /\ n2[i].votes = n[i].votes /\ n2[i].commitIndex = n[i].commitIndex
    /\ n2[i].inflight = n[i].inflight /\ n2[i].matchIndex = n[i].matchIndex
    /\ n2[i].nextIndex = n[i].nextIndex /\ n[i].currentTerm <= n[c].currentTerm
    /\ UpToDate(bid[c][n[i].currentTerm], n[i].log)
    /\ voted2[i][n[i].currentTerm] = c
    /\ \A v \in Node, t \in Nat :
         ~(v = i /\ t = n[i].currentTerm) => voted2[v][t] = voted[v][t]

(* A node votes, in the term it is in, for a candidate whose log is up to  *)
(* date with its own.                                                      *)
LEMMA VoteStep ==
    ASSUME NEW n, NEW n2, NEW voted, NEW voted2, NEW bid, NEW led, NEW acked,
           Core(n, voted, bid, led, acked), NEW i \in Node, NEW c \in Node, Only(i, n, n2),
           CastsVote(n, n2, voted, voted2, bid, i, c)
    PROVE  Core(n2, voted2, bid, led, acked) /\ VotedGrows(voted, voted2)
<1>. USE DEF CastsVote
<1>. DEFINE T == n[i].currentTerm
<1>1. /\ \A j \in Node : n[j] \in NodeState /\ n2[j] \in NodeState
      /\ \A j \in Node \ {i} : n2[j] = n[j]
      /\ \A j \in Node : NodeOK(voted, bid, led, acked, j, n[j])
      /\ IsVoted(voted) /\ IsBid(bid) /\ IsLed(led) /\ IsAcked(acked)
  BY DEF Core, Types, Only
<1>2. /\ T \in Nat
      /\ \A j \in Node : /\ n2[j].currentTerm = n[j].currentTerm /\ n[j].currentTerm \in Nat
                         /\ n2[j].log = n[j].log /\ n2[j].state = n[j].state
                         /\ n[j].log \in Seq(Entry)
  BY <1>1, NodeFields
<1>3. VotedGrows(voted, voted2)
  <2>1. voted[i][T] = n[i].votedFor
    BY <1>1 DEF NodeOK, VoterOK
  <2>2. voted[i][T] # None => voted2[i][T] = voted[i][T]
    BY <2>1
  <2>. HIDE DEF T
  <2>. QED
    BY <2>2 DEF VotedGrows, T
<1>4. IsVoted(voted2)
  <2>1. SUFFICES ASSUME NEW v \in Node, NEW t \in Nat PROVE voted2[v][t] \in Node \cup {None}
    BY DEF IsVoted
  <2>. QED
    BY <1>1, <1>2 DEF IsVoted
<1>5. LedGrows(led, led) /\ AckedGrows(acked, acked)
  BY <1>1, GrowsRefl
<1>6. VoterOK(voted2, i, n2[i])
  <2>1. VoterOK(voted, i, n[i])
    BY <1>1 DEF NodeOK
  <2>. QED
    BY SMTT(30), <1>2, <2>1 DEF VoterOK
<1>7. ASSUME NEW j \in Node PROVE NodeOK(voted2, bid, led, acked, j, n2[j])
  <2>1. NodeOK(voted, bid, led, acked, j, n[j])
    BY <1>1
  <2>2. CASE j = i
    <3>1. VoterOK(voted2, i, n[i]) \/ n[i].votedFor # n2[i].votedFor
      BY <1>2, <1>6 DEF VoterOK
    <3>. DEFINE s == n[i]
                t == n2[i]
    <3>2. NodeOK(voted, bid, led, acked, i, s)
      BY <1>1
    <3>3. CandidateOK(voted, bid, i, t) /\ LeaderOK(voted, led, acked, i, t)
      BY SMTT(30), <3>2 DEF NodeOK, CandidateOK, LeaderOK
    <3>4. LogOK(led, t) /\ AcksOK(led, acked, i, t) /\ FlightOK(voted, led, acked, t)
      BY <3>2 DEF NodeOK, LogOK, AcksOK, FlightOK
    <3>5. CommitOK(led, acked, t.log, t.currentTerm, t.commitIndex)
      BY <3>2 DEF NodeOK
    <3>6. t \in NodeState
      BY <1>1
    <3>7. IsVoted(voted2) /\ VotedGrows(voted, voted2)
      BY <1>3, <1>4
    <3>. HIDE DEF s, t
    <3>8. CandidateOK(voted2, bid, i, t)
      <4>1. t.currentTerm \in Nat /\ t.votes \in SUBSET Node
        BY <3>6, NodeFields
      <4>2. \A v \in t.votes : voted[v][t.currentTerm] = i => voted2[v][t.currentTerm] = i
        BY SMTT(30), <3>7, <4>1, NodeAssumption DEF VotedGrows
      <4>3. \A p \in Node : Elected(voted, p, t.currentTerm) => Elected(voted2, p, t.currentTerm)
        BY <3>7, <4>1, ElectedGrows
      <4>. QED
        BY <3>3, <4>2, <4>3 DEF CandidateOK
    <3>9. LeaderOK(voted2, led, acked, i, t)
      <4>1. t.currentTerm \in Nat
        BY <3>6, NodeFields
      <4>. QED
        BY <3>3, <3>7, <4>1, ElectedGrows DEF LeaderOK
    <3>10. FlightOK(voted2, led, acked, t)
      <4>1. SUFFICES ASSUME NEW p \in Node, t.inflight[p] # None
                     PROVE  RequestOK(voted2, led, acked, t.inflight[p])
        BY DEF FlightOK
      <4>2. t.inflight[p] \in AppendEntriesMsg \cup InstallSnapshotMsg
        BY <3>6, <4>1, NodeFields
      <4>3. RequestOK(voted, led, acked, t.inflight[p])
        BY <3>4, <4>1 DEF FlightOK
      <4>. QED
        BY SMTT(30), <1>1, <1>5, <3>7, <4>2, <4>3, RequestGrows
    <3>. QED
      BY <1>6, <2>2, <3>4, <3>5, <3>8, <3>9, <3>10 DEF NodeOK, t
  <2>3. CASE j # i
    <3>1. VoterOK(voted2, j, n[j]) /\ AcksOK(led, acked, j, n[j])
      BY <1>2, <2>1, <2>3 DEF NodeOK, VoterOK
    <3>2. n2[j] = n[j] /\ n[j] \in NodeState
      BY <1>1, <2>3
    <3>. QED
      BY <1>1, <1>3, <1>5, <2>1, <3>1, <3>2, NodeGrows
  <2>. QED
    BY <2>2, <2>3
<1>8. Standing(n2, voted2)
  <2>1. Standing(n, voted)
    BY DEF Core
  <2>. QED
    BY SMTT(20), <1>2, <2>1 DEF Standing
<1>9. Owned(n2, voted2, led)
  <2>1. \A j \in Node, t \in Nat : Elected(voted, j, t) => Elected(voted2, j, t)
    BY <1>3, ElectedGrows
  <2>2. Owned(n, voted, led)
    BY DEF Core
  <2>. QED
    BY SMTT(30), <1>2, <2>1, <2>2 DEF Owned
<1>10. Entries(n2, voted2, bid, led, acked)
  <2>1. SUFFICES ASSUME NEW t \in Nat, NEW k \in 1..Len(led[t]), led[t][k].term = t
                 PROVE  \/ Denied(n2, acked, t, k)
                        \/ Carried(n2, voted2, bid, led, acked, t, k)
    BY DEF Entries
  <2>2. CASE Denied(n, acked, t, k)
    BY <1>2, <2>2 DEF Denied
  <2>3. CASE Carried(n, voted, bid, led, acked, t, k)
    <3>1. \A u \in Nat : u > t /\ led[u] # <<>> => SameUpTo(led[t], led[u], k)
      BY <2>3 DEF Carried
    <3>2. SUFFICES ASSUME NEW v \in Node, acked[t][v] >= k
                   PROVE  /\ SameUpTo(led[t], n2[v].log, k)
                          /\ \A j \in Node, u \in Nat :
                               u > t /\ voted2[v][u] = j => SameUpTo(led[t], bid[j][u], k)
      BY <3>1 DEF Carried
    <3>3. SameUpTo(led[t], n2[v].log, k) /\ SameUpTo(led[t], n[v].log, k)
      BY <1>2, <2>3, <3>2 DEF Carried
    <3>4. ASSUME NEW j \in Node, NEW u \in Nat, u > t, voted2[v][u] = j
          PROVE  SameUpTo(led[t], bid[j][u], k)
      <4>1. CASE v = i /\ u = T
        <5>1. j = c
          BY <3>4, <4>1
        <5>2. bid[c][T] \in Seq(Entry) /\ Faithful(led, bid[c][T])
          BY SMTT(30), <1>1, <1>2 DEF Core, Logs, IsBid
        <5>3. Faithful(led, n[i].log) /\ n[i].log \in Seq(Entry)
          BY <1>1, <1>2 DEF NodeOK, LogOK
        <5>4. \A x \in Nat : Ordered(x, led[x])
          BY DEF Core, Logs
        <5>. HIDE DEF T
        <5>. QED
          BY SMTT(30), <1>1, <2>1, <3>1, <3>3, <4>1, <5>1, <5>2, <5>3, <5>4, UpToDateCarries DEF T
      <4>2. CASE ~(v = i /\ u = T)
        BY SMTT(30), <2>3, <3>2, <3>4, <4>2 DEF Carried
      <4>. QED
        BY <4>1, <4>2
    <3>. QED
      BY <3>3, <3>4
  <2>. QED
    BY <2>1, <2>2, <2>3 DEF Core, Entries
<1>. QED
  BY <1>1, <1>3, <1>4, <1>7, <1>8, <1>9, <1>10 DEF Core, Types

(* Node i goes to the next term as a candidate and votes for itself, with  *)
(* the log it has.                                                         *)
Stands(n, n2, voted, voted2, bid, bid2, i) ==
    /\ n2[i].currentTerm = n[i].currentTerm + 1 /\ n2[i].votedFor = i
    /\ n2[i].state = "CANDIDATE" /\ n2[i].votes = {i}
    /\ n2[i].log = n[i].log /\ n2[i].commitIndex = n[i].commitIndex
    /\ n2[i].inflight = n[i].inflight
    /\ voted2[i][n2[i].currentTerm] = i
    /\ bid2[i][n2[i].currentTerm] = n[i].log
    /\ \A v \in Node, t \in Nat :
         ~(v = i /\ t = n2[i].currentTerm)
           => voted2[v][t] = voted[v][t] /\ bid2[v][t] = bid[v][t]

(* A node stands for election in the next term and votes for itself.       *)
LEMMA CandidateStep ==
    ASSUME NEW n, NEW n2, NEW voted, NEW voted2, NEW bid, NEW bid2, NEW led, NEW acked,
           Core(n, voted, bid, led, acked), NEW i \in Node, Only(i, n, n2),
           Stands(n, n2, voted, voted2, bid, bid2, i)
    PROVE  Core(n2, voted2, bid2, led, acked) /\ VotedGrows(voted, voted2)
<1>. USE DEF Stands
<1>. DEFINE T == n2[i].currentTerm
<1>1. /\ \A j \in Node : n[j] \in NodeState /\ n2[j] \in NodeState
      /\ \A j \in Node \ {i} : n2[j] = n[j]
      /\ \A j \in Node : NodeOK(voted, bid, led, acked, j, n[j])
      /\ IsVoted(voted) /\ IsBid(bid) /\ IsLed(led) /\ IsAcked(acked)
  BY DEF Core, Types, Only
<1>2. \A j \in Node : /\ n[j].currentTerm \in Nat /\ n2[j].currentTerm \in Nat
                      /\ n[j].log \in Seq(Entry) /\ Len(n[j].log) \in Nat
                      /\ n[j].commitIndex \in Nat
  BY <1>1, NodeFields
<1>3. /\ T \in Nat /\ T = n[i].currentTerm + 1
      /\ \A j \in Node : n2[j].log = n[j].log /\ n[j].currentTerm <= n2[j].currentTerm
  BY SMTT(30), <1>1, <1>2
<1>4. VotedGrows(voted, voted2)
  <2>1. voted[i][T] = None
    BY SMTT(30), <1>1, <1>2, <1>3 DEF NodeOK, VoterOK
  <2>. QED
    BY <2>1 DEF VotedGrows
<1>5. IsVoted(voted2) /\ IsBid(bid2)
  <2>1. ASSUME NEW v \in Node, NEW t \in Nat
        PROVE  voted2[v][t] \in Node \cup {None} /\ bid2[v][t] \in Seq(Entry)
    BY SMTT(30), <1>1, <1>2 DEF IsVoted, IsBid
  <2>. QED
    BY <2>1 DEF IsVoted, IsBid
<1>6. LedGrows(led, led) /\ AckedGrows(acked, acked)
  BY <1>1, GrowsRefl
<1>7. ASSUME NEW j \in Node PROVE NodeOK(voted2, bid2, led, acked, j, n2[j])
  <2>1. NodeOK(voted, bid, led, acked, j, n[j])
    BY <1>1
  <2>2. CASE j = i
    <3>1. VoterOK(voted2, i, n2[i])
      <4>1. VoterOK(voted, i, n[i])
        BY <1>1 DEF NodeOK
      <4>. QED
        BY SMTT(30), <1>2, <1>3, <4>1 DEF VoterOK
    <3>2. CandidateOK(voted2, bid2, i, n2[i]) /\ LeaderOK(voted2, led, acked, i, n2[i])
      BY SMTT(30), <1>2, <1>3 DEF CandidateOK, LeaderOK
    <3>3. LogOK(led, n2[i])
      <4>1. LogOK(led, n[i])
        BY <1>1 DEF NodeOK
      <4>2. \A k \in 1..Len(n[i].log) : n[i].log[k].term \in Nat
        BY <1>2, EntryHasTerm
      <4>. QED
        BY SMTT(30), <1>2, <4>1, <4>2 DEF LogOK
    <3>4. AcksOK(led, acked, i, n2[i])
      <4>1. AcksOK(led, acked, i, n[i])
        BY <1>1 DEF NodeOK
      <4>. QED
        BY SMTT(30), <1>2, <4>1 DEF AcksOK
    <3>5. CommitOK(led, acked, n2[i].log, n2[i].currentTerm, n2[i].commitIndex)
      <4>1. CommitOK(led, acked, n[i].log, n[i].currentTerm, n[i].commitIndex)
        BY <1>1 DEF NodeOK
      <4>2. 0..n[i].currentTerm \subseteq 0..n2[i].currentTerm
        BY SMTT(30), <1>2
      <4>. QED
        BY <4>1, <4>2 DEF CommitOK
    <3>6. FlightOK(voted2, led, acked, n2[i])
      <4>1. SUFFICES ASSUME NEW p \in Node, n2[i].inflight[p] # None
                     PROVE  RequestOK(voted2, led, acked, n2[i].inflight[p])
        BY DEF FlightOK
      <4>2. n2[i].inflight[p] \in AppendEntriesMsg \cup InstallSnapshotMsg
        BY SMTT(30), <1>1, <4>1, NodeFields
      <4>3. RequestOK(voted, led, acked, n2[i].inflight[p])
        BY <1>1, <4>1 DEF NodeOK, FlightOK
      <4>. QED
        BY SMTT(30), <1>1, <1>4, <1>6, <4>2, <4>3, RequestGrows
    <3>. QED
      BY <2>2, <3>1, <3>2, <3>3, <3>4, <3>5, <3>6 DEF NodeOK
  <2>3. CASE j # i
    <3>1. VoterOK(voted2, j, n[j]) /\ AcksOK(led, acked, j, n[j])
      BY <1>2, <2>1, <2>3 DEF NodeOK, VoterOK
    <3>2. n2[j] = n[j] /\ n[j] \in NodeState /\ bid2[j][n[j].currentTerm] = bid[j][n[j].currentTerm]
      BY <1>1, <1>2, <2>3
    <3>. QED
      BY SMTT(30), <1>1, <1>4, <1>6, <2>1, <3>1, <3>2, NodeGrows
  <2>. QED
    BY <2>2, <2>3
<1>8. Standing(n, voted) /\ Owned(n, voted, led)
  BY DEF Core
<1>9. Standing(n2, voted2)
  BY SMTT(30), <1>2, <1>3, <1>8 DEF Standing
<1>10. Owned(n2, voted2, led)
  <2>1. \A j \in Node, t \in Nat : Elected(voted, j, t) => Elected(voted2, j, t)
    BY <1>4, ElectedGrows
  <2>2. \A j \in Node, t \in Nat :
           t <= n[j].currentTerm /\ (t = n[j].currentTerm => n[j].state # "CANDIDATE")
             => t <= n2[j].currentTerm /\ (t = n2[j].currentTerm => n2[j].state # "CANDIDATE")
    BY SMTT(30), <1>1, <1>2, <1>3
  <2>. QED
    BY <1>8, <2>1, <2>2 DEF Owned
<1>11. Logs(bid2, led)
  <2>1. Logs(bid, led) /\ Faithful(led, n[i].log)
    BY <1>1 DEF Core, NodeOK, LogOK
  <2>. QED
    BY <2>1 DEF Logs
<1>12. Entries(n2, voted2, bid2, led, acked)
  <2>1. SUFFICES ASSUME NEW t \in Nat, NEW k \in 1..Len(led[t]), led[t][k].term = t
                 PROVE  \/ Denied(n2, acked, t, k)
                        \/ Carried(n2, voted2, bid2, led, acked, t, k)
    BY DEF Entries
  <2>2. CASE Denied(n, acked, t, k)
    BY <1>2, <1>3, <2>2, DeniedGrows
  <2>3. CASE Carried(n, voted, bid, led, acked, t, k)
    <3>1. \A v, j \in Node, u \in Nat :
             voted2[v][u] = j
               => \/ v = i /\ bid2[j][u] = n[i].log
                  \/ voted[v][u] = j /\ bid2[j][u] = bid[j][u]
      BY SMTT(30), <1>2, <1>3, <1>8 DEF Standing
    <3>. QED
      BY SMTT(30), <1>3, <2>3, <3>1 DEF Carried
  <2>. QED
    BY <2>1, <2>2, <2>3 DEF Core, Entries
<1>. QED
  BY <1>1, <1>4, <1>5, <1>7, <1>9, <1>10, <1>11, <1>12 DEF Core, Types

(* The terms of a log never fall from an entry to the next.                *)
LEMMA FaithfulOrdered ==
    ASSUME NEW led, IsLed(led), \A t \in Nat : Ordered(t, led[t]),
           NEW log \in Seq(Entry), Faithful(led, log)
    PROVE  \A k, l \in 1..Len(log) : /\ log[k].term \in Nat /\ log[k].term >= 1
                                     /\ k <= l => log[k].term <= log[l].term
<1>1. SUFFICES ASSUME NEW k \in 1..Len(log), NEW l \in 1..Len(log)
               PROVE  /\ log[k].term \in Nat /\ log[k].term >= 1
                      /\ k <= l => log[k].term <= log[l].term
  OBVIOUS
<1>2. log[k].term \in Nat /\ log[l].term \in Nat
  BY EntryHasTerm
<1>3. ASSUME NEW x \in 1..Len(log), x <= l
      PROVE  /\ x \in 1..Len(led[log[l].term]) /\ l \in 1..Len(led[log[l].term])
             /\ log[x] = led[log[l].term][x] /\ log[l] = led[log[l].term][l]
  <2>1. SameUpTo(log, led[log[l].term], l)
    BY DEF Faithful
  <2>2. led[log[l].term] \in Seq(Entry)
    BY <1>2 DEF IsLed
  <2>3. x \in 1..l /\ l \in 1..l /\ l \in Nat
    BY SMTT(30), <1>3
  <2>. QED
    BY SMTT(30), <2>1, <2>2, <2>3, SameAt
<1>4. k <= l => log[k].term <= log[l].term
  BY <1>2, <1>3 DEF Ordered
<1>5. log[l].term >= 1
  BY SMTT(30), <1>2, <1>3 DEF Ordered
<1>6. log[k].term >= 1
  <2>1. SameUpTo(log, led[log[k].term], k)
    BY DEF Faithful
  <2>2. led[log[k].term] \in Seq(Entry) /\ k \in 1..k /\ k \in Nat
    BY SMTT(30), <1>2 DEF IsLed
  <2>3. log[k] = led[log[k].term][k] /\ k \in 1..Len(led[log[k].term])
    BY SMTT(30), <2>1, <2>2, SameAt
  <2>. QED
    BY SMTT(30), <1>2, <2>3 DEF Ordered
<1>. QED
  BY <1>2, <1>4, <1>6

LEMMA SameRefl ==
    ASSUME NEW a \in Seq(Entry), NEW k \in Nat, k <= Len(a) PROVE SameUpTo(a, a, k)
  BY DEF SameUpTo

(* log2 is log with more entries, all of term t.                           *)
Extends(log, log2, t) ==
    /\ SameUpTo(log, log2, Len(log)) /\ Len(log) < Len(log2)
    /\ \A k \in 1..Len(log2) : k > Len(log) => log2[k].term = t

(* The leader of term t has the log log2.                                  *)
LedBecomes(led, led2, t, log2) ==
    led2[t] = log2 /\ \A u \in Nat \ {t} : led2[u] = led[u]

(* v has acknowledged k entries of the leader of term t.                   *)
AckedBecomes(acked, acked2, t, v, k) ==
    /\ acked2[t][v] = k
    /\ \A u \in Nat, w \in Node : ~(u = t /\ w = v) => acked2[u][w] = acked[u][w]

(* The indexes a leader i with log log2 keeps for its peers.               *)
Indexes(acked, i, s, log2) ==
    \A v \in Node : /\ IF v = i THEN s.matchIndex[v] = Len(log2)
                       ELSE s.matchIndex[v] <= acked[s.currentTerm][v]
                    /\ s.nextIndex[v] \in 1 .. Len(log2) + 1

(* log has every entry of earlier terms that might still be committed.     *)
Complete(n, led, acked, log, t) ==
    \A u \in Nat : u < t => \A k \in 1..Len(led[u]) :
        led[u][k].term = u => Denied(n, acked, u, k) \/ SameUpTo(led[u], log, k)

(* The log of the leader of a term stays faithful and ordered as it grows. *)
LEMMA LedStep ==
    ASSUME NEW led, NEW led2, IsLed(led), \A t \in Nat : Ordered(t, led[t]),
           NEW T \in Nat, T > 0, NEW log \in Seq(Entry), NEW log2 \in Seq(Entry),
           Faithful(led, log), \A k \in 1..Len(log) : log[k].term <= T,
           SameUpTo(led[T], log, Len(led[T])), Extends(log, log2, T),
           LedBecomes(led, led2, T, log2)
    PROVE  /\ IsLed(led2) /\ LedGrows(led, led2)
           /\ Faithful(led2, log2) /\ Ordered(T, log2)
<1>1. \A t \in Nat : led[t] \in Seq(Entry) /\ Len(led[t]) \in Nat
  BY SMTT(30) DEF IsLed
<1>2. SameUpTo(log, log2, Len(log)) /\ Len(log) < Len(log2) /\ Len(log) \in Nat /\ Len(log2) \in Nat
  BY SMTT(30) DEF Extends
<1>3. \A k \in 1..Len(log2) : k > Len(log) => log2[k].term = T
  BY DEF Extends
<1>4. led2[T] = log2 /\ \A t \in Nat : t # T => led2[t] = led[t]
  BY DEF LedBecomes
<1>5. IsLed(led2)
  BY <1>1, <1>4 DEF IsLed
<1>6. LedGrows(led, led2)
  <2>1. SUFFICES ASSUME NEW t \in Nat PROVE SameUpTo(led[t], led2[t], Len(led[t]))
    BY DEF LedGrows
  <2>2. CASE t # T
    BY SMTT(30), <1>1, <1>4, <2>2, SameRefl
  <2>3. CASE t = T
    BY <1>1, <1>2, <1>4, <2>3, SameGrows
  <2>. QED
    BY <2>2, <2>3
<1>7. \A k \in 1..Len(log2) : \/ k \in 1..Len(log) /\ log2[k] = log[k] /\ SameUpTo(log2, log, k)
                              \/ k > Len(log) /\ log2[k].term = T
  <2>1. SUFFICES ASSUME NEW k \in 1..Len(log2), k <= Len(log)
                 PROVE  k \in 1..Len(log) /\ log2[k] = log[k] /\ SameUpTo(log2, log, k)
    BY SMTT(30), <1>2, <1>3
  <2>2. k \in 1..Len(log) /\ k \in Nat
    BY SMTT(30), <1>2, <2>1
  <2>. QED
    BY SMTT(30), <1>2, <2>1, <2>2, SameAt, SameLess, SameSym
<1>8. Faithful(led2, log2)
  <2>1. Faithful(led2, log)
    BY <1>5, <1>6, FaithfulGrows
  <2>2. SUFFICES ASSUME NEW k \in 1..Len(log2) PROVE SameUpTo(log2, led2[log2[k].term], k)
    BY DEF Faithful
  <2>3. CASE k > Len(log)
    <3>1. log2[k].term = T /\ k \in Nat /\ k <= Len(log2)
      BY SMTT(30), <1>2, <1>3, <2>3
    <3>. QED
      BY <1>4, <3>1, SameRefl
  <2>4. CASE k \in 1..Len(log) /\ log2[k] = log[k] /\ SameUpTo(log2, log, k)
    <3>1. SameUpTo(log, led2[log[k].term], k)
      BY <2>1, <2>4 DEF Faithful
    <3>. QED
      BY <2>4, <3>1, SameTrans
  <2>. QED
    BY <1>7, <2>3, <2>4
<1>9. \A k, l \in 1..Len(log) : /\ log[k].term \in Nat /\ log[k].term >= 1
                                /\ k <= l => log[k].term <= log[l].term
  BY FaithfulOrdered
<1>10. Ordered(T, log2)
  <2>1. ASSUME NEW k \in 1..Len(log2) PROVE log2[k].term \in 1..T
    <3>1. CASE k \in 1..Len(log) /\ log2[k] = log[k]
      BY SMTT(30), <1>9, <3>1
    <3>. QED
      BY SMTT(30), <1>7, <3>1
  <2>2. ASSUME NEW k \in 1..Len(log2), NEW l \in 1..Len(log2), k <= l
        PROVE  log2[k].term <= log2[l].term
    <3>1. CASE l > Len(log)
      <4>1. log2[l].term = T /\ log2[k].term \in 1..T
        BY <1>3, <2>1, <3>1
      <4>. QED
        BY SMTT(30), <4>1
    <3>2. CASE l \in 1..Len(log) /\ log2[l] = log[l]
      <4>1. k \in 1..Len(log) /\ log2[k] = log[k]
        BY SMTT(30), <1>2, <1>7, <2>2, <3>2
      <4>. QED
        BY <1>9, <2>2, <3>2, <4>1
    <3>. QED
      BY <1>7, <3>1, <3>2
  <2>3. Len(log2) \in 1..Len(log2) /\ Len(log2) > Len(log)
    BY SMTT(30), <1>2
  <2>4. log2[Len(log2)].term = T
    BY <1>3, <2>3
  <2>. QED
    BY <2>1, <2>2, <2>4 DEF Ordered
<1>. QED
  BY <1>5, <1>6, <1>8, <1>10

(* Node i, elected in term T, goes from log to log2.                       *)
Leads(n, n2, voted, led, acked, i, T, log, log2) ==
    /\ T > 0 /\ n[i].currentTerm = T /\ n2[i].currentTerm = T
    /\ n2[i].votedFor = n[i].votedFor /\ n2[i].state = "LEADER" /\ Elected(voted, i, T)
    /\ n2[i].commitIndex = n[i].commitIndex /\ FlightOK(voted, led, acked, n2[i])
    /\ n[i].log = log /\ n2[i].log = log2
    /\ SameUpTo(led[T], log, Len(led[T]))
    /\ Extends(log, log2, T)
    /\ Complete(n, led, acked, log2, T)
    /\ Indexes(acked, i, n2[i], log2)

(* What remains of the entries of a leader's log as it grows.              *)
LEMMA LeadEntries ==
    ASSUME NEW n, NEW n2, NEW voted, NEW bid, NEW led, NEW led2, NEW acked, NEW acked2,
           Core(n, voted, bid, led, acked), NEW i \in Node, Only(i, n, n2),
           NEW T \in Nat, NEW log \in Seq(Entry), NEW log2 \in Seq(Entry),
           Leads(n, n2, voted, led, acked, i, T, log, log2),
           LedBecomes(led, led2, T, log2), AckedBecomes(acked, acked2, T, i, Len(log2)),
           IsLed(led2), LedGrows(led, led2)
    PROVE  Entries(n2, voted, bid, led2, acked2)
<1>1. /\ \A j \in Node : n[j] \in NodeState /\ NodeOK(voted, bid, led, acked, j, n[j])
      /\ \A j \in Node : j # i => n2[j] = n[j]
      /\ IsLed(led) /\ IsAcked(acked)
  BY DEF Core, Types, Only
<1>2. /\ n[i].currentTerm = T /\ n2[i].currentTerm = T /\ n[i].log = log /\ n2[i].log = log2
      /\ Complete(n, led, acked, log2, T) /\ SameUpTo(log, log2, Len(log))
  BY DEF Leads, Extends
<1>3. \A j \in Node : n[j].currentTerm \in Nat /\ n2[j].currentTerm = n[j].currentTerm
  BY <1>1, <1>2, NodeFields
<1>4. led2[T] = log2 /\ \A t \in Nat : t # T => led2[t] = led[t]
  BY DEF LedBecomes
<1>5. \A t \in Nat, v \in Node : t # T \/ v # i => acked2[t][v] = acked[t][v]
  BY DEF AckedBecomes
<1>6. \A v \in Node : acked[T][v] \in Nat /\ acked[T][v] <= Len(led[T])
  <2>1. SUFFICES ASSUME NEW v \in Node PROVE acked[T][v] \in Nat /\ acked[T][v] <= Len(led[T])
    OBVIOUS
  <2>2. AcksOK(led, acked, v, n[v]) /\ acked[T][v] \in Nat
    BY <1>1 DEF NodeOK, IsAcked
  <2>3. Len(led[T]) \in Nat
    BY SMTT(30), <1>1 DEF IsLed
  <2>. QED
    BY SMTT(30), <2>2, <2>3 DEF AcksOK
<1>7. \A j \in Node, u \in Nat : u > T => voted[i][u] # j
  <2>1. VoterOK(voted, i, n[i])
    BY <1>1 DEF NodeOK
  <2>. QED
    BY <1>2, <2>1, NodeAssumption DEF VoterOK
<1>8. Entries(n, voted, bid, led, acked)
  BY DEF Core
<1>9. SUFFICES ASSUME NEW t \in Nat, NEW k \in 1..Len(led2[t]), led2[t][k].term = t
               PROVE  \/ Denied(n2, acked2, t, k)
                      \/ Carried(n2, voted, bid, led2, acked2, t, k)
  BY DEF Entries
<1>10. led[t] \in Seq(Entry) /\ led2[t] \in Seq(Entry) /\ Len(led[t]) \in Nat /\ Len(led2[t]) \in Nat
  BY SMTT(30), <1>1 DEF IsLed
<1>11. k \in Nat /\ k <= Len(led2[t])
  BY SMTT(30), <1>10
<1>12. CASE t # T
  <2>1. led2[t] = led[t] /\ \A v \in Node : acked2[t][v] = acked[t][v]
    BY <1>4, <1>5, <1>12
  <2>2. CASE Denied(n, acked, t, k)
    <3>1. Denied(n2, acked2, t, k)
      BY <1>3, <2>1, <2>2 DEF Denied
    <3>. QED
      BY <3>1
  <2>3. CASE Carried(n, voted, bid, led, acked, t, k) /\ ~Denied(n, acked, t, k)
    <3>1. \A u \in Nat : u > t /\ led2[u] # <<>> => SameUpTo(led[t], led2[u], k)
      <4>1. T > t => SameUpTo(led[t], log2, k)
        BY <1>2, <1>9, <2>1, <2>3 DEF Complete
      <4>. QED
        BY <1>4, <2>3, <4>1 DEF Carried
    <3>2. ASSUME NEW v \in Node, acked[t][v] >= k PROVE SameUpTo(led[t], n2[v].log, k)
      <4>1. SameUpTo(led[t], n[v].log, k)
        BY <2>3, <3>2 DEF Carried
      <4>2. CASE v = i
        BY <1>2, <1>10, <1>11, <4>1, <4>2, SameGrows
      <4>. QED
        BY <1>1, <4>1, <4>2
    <3>3. Carried(n2, voted, bid, led2, acked2, t, k)
      BY <2>1, <2>3, <3>1, <3>2 DEF Carried
    <3>. QED
      BY <3>3
  <2>. QED
    BY <1>8, <1>9, <2>1, <2>2, <2>3 DEF Entries
<1>13. CASE t = T /\ k <= Len(led[T])
  <2>1. k \in 1..Len(led[T]) /\ SameUpTo(led[T], log2, Len(led[T]))
    BY SMTT(30), <1>4, <1>10, <1>11, <1>13 DEF LedGrows
  <2>2. led[T][k] = log2[k]
    BY SMTT(30), <1>10, <1>13, <2>1, SameAt
  <2>3. SameUpTo(log2, led[T], k)
    BY <1>10, <1>11, <1>13, <2>1, SameLess, SameSym
  <2>4. CASE Denied(n, acked, T, k)
    <3>1. PICK Q \in SUBSET Node :
             Quorum(Q) /\ \A v \in Q : n[v].currentTerm > T /\ acked[T][v] < k
      BY <2>4 DEF Denied
    <3>2. \A v \in Q : n2[v].currentTerm > T /\ v # i /\ v \in Node
      BY SMTT(30), <1>2, <1>3, <3>1
    <3>3. \A v \in Q : acked2[T][v] < k
      BY <1>5, <3>1, <3>2
    <3>. QED
      BY <1>13, <3>1, <3>2, <3>3 DEF Denied
  <2>5. CASE Carried(n, voted, bid, led, acked, T, k)
    <3>1. ASSUME NEW u \in Nat, u > T, led2[u] # <<>> PROVE SameUpTo(log2, led2[u], k)
      <4>1. led2[u] = led[u]
        BY SMTT(30), <1>4, <3>1
      <4>2. SameUpTo(led[T], led[u], k)
        BY <2>5, <3>1, <4>1 DEF Carried
      <4>. QED
        BY <2>3, <4>1, <4>2, SameTrans
    <3>2. ASSUME NEW v \in Node, acked2[T][v] >= k
          PROVE  /\ SameUpTo(log2, n2[v].log, k)
                 /\ \A j \in Node, u \in Nat :
                      u > T /\ voted[v][u] = j => SameUpTo(log2, bid[j][u], k)
      <4>1. CASE v = i
        <5>1. SameUpTo(log2, n2[v].log, k)
          BY <1>2, <1>4, <1>11, <1>13, <4>1, SameRefl
        <5>. QED
          BY <1>7, <4>1, <5>1
      <4>2. CASE v # i
        <5>1. acked[T][v] >= k
          BY <1>5, <3>2, <4>2
        <5>2. SameUpTo(led[T], n2[v].log, k)
          BY <1>1, <2>5, <4>2, <5>1 DEF Carried
        <5>3. \A j \in Node, u \in Nat :
                 u > T /\ voted[v][u] = j => SameUpTo(led[T], bid[j][u], k)
          BY <2>5, <5>1 DEF Carried
        <5>. QED
          BY <2>3, <5>2, <5>3, SameTrans
      <4>. QED
        BY <4>1, <4>2
    <3>. QED
      BY <1>4, <1>13, <3>1, <3>2 DEF Carried
  <2>. QED
    BY <1>4, <1>8, <1>9, <1>13, <2>1, <2>2, <2>4, <2>5 DEF Entries
<1>14. CASE t = T /\ k > Len(led[T])
  <2>1. \A v \in Node : acked[T][v] < k
    BY SMTT(30), <1>6, <1>10, <1>11, <1>14
  <2>2. CASE \E u \in Nat : u > T /\ led[u] # <<>>
    <3>1. PICK u \in Nat : u > T /\ led[u] # <<>>
      BY <2>2
    <3>2. PICK j \in Node : Elected(voted, j, u)
      BY <3>1 DEF Core, Owned
    <3>3. PICK Q \in SUBSET Node : Quorum(Q) /\ \A v \in Q : voted[v][u] = j
      BY <3>2 DEF Elected
    <3>4. ASSUME NEW v \in Q PROVE n2[v].currentTerm > T /\ acked2[T][v] < k
      <4>1. v \in Node /\ voted[v][u] # None
        BY <3>3, NodeAssumption
      <4>2. VoterOK(voted, v, n[v]) /\ n[v].currentTerm \in Nat
        BY <1>1, <1>3, <4>1 DEF NodeOK
      <4>3. n[v].currentTerm >= u
        BY SMTT(30), <4>1, <4>2 DEF VoterOK
      <4>4. n[v].currentTerm > T /\ n[v].currentTerm # T
        BY SMTT(30), <3>1, <4>2, <4>3
      <4>5. v # i
        BY <1>2, <4>4
      <4>. QED
        BY <1>3, <1>5, <2>1, <4>1, <4>4, <4>5
    <3>. QED
      BY <1>14, <3>3, <3>4 DEF Denied
  <2>3. CASE \A u \in Nat : u > T => led[u] = <<>>
    <3>1. \A u \in Nat : u > T => led2[u] = <<>>
      BY SMTT(30), <1>4, <2>3
    <3>2. \A v \in Node : acked2[T][v] >= k => v = i
      <4>1. SUFFICES ASSUME NEW v \in Node, v # i, acked[T][v] >= k PROVE FALSE
        BY <1>5
      <4>2. acked[T][v] < k /\ acked[T][v] \in Nat
        BY <1>6, <2>1
      <4>. QED
        BY SMTT(30), <1>11, <4>1, <4>2
    <3>3. SameUpTo(log2, n2[i].log, k)
      BY <1>2, <1>4, <1>11, <1>14, SameRefl
    <3>. QED
      BY <1>4, <1>7, <1>14, <3>1, <3>2, <3>3 DEF Carried
  <2>. QED
    BY <2>2, <2>3
<1>. QED
  BY SMTT(30), <1>10, <1>11, <1>12, <1>13, <1>14

(* An elected node appends entries of its term to its log: the first of    *)
(* them as it becomes leader, the others as client batches.                *)
LEMMA LeadStep ==
    ASSUME NEW n, NEW n2, NEW voted, NEW bid, NEW led, NEW led2, NEW acked, NEW acked2,
           Core(n, voted, bid, led, acked), NEW i \in Node, Only(i, n, n2),
           NEW T \in Nat, NEW log \in Seq(Entry), NEW log2 \in Seq(Entry),
           Leads(n, n2, voted, led, acked, i, T, log, log2),
           LedBecomes(led, led2, T, log2), AckedBecomes(acked, acked2, T, i, Len(log2))
    PROVE  /\ Core(n2, voted, bid, led2, acked2)
           /\ LedGrows(led, led2) /\ AckedGrows(acked, acked2)
<1>1. /\ \A j \in Node : n[j] \in NodeState /\ n2[j] \in NodeState
      /\ \A j \in Node : j # i => n2[j] = n[j]
      /\ \A j \in Node : NodeOK(voted, bid, led, acked, j, n[j])
      /\ IsVoted(voted) /\ IsBid(bid) /\ IsLed(led) /\ IsAcked(acked) /\ Majorities
  BY DEF Core, Types, Only
<1>2. /\ T > 0 /\ n[i].currentTerm = T /\ n2[i].currentTerm = T
      /\ n[i].log = log /\ n2[i].log = log2 /\ n2[i].votedFor = n[i].votedFor
      /\ n2[i].state = "LEADER" /\ Elected(voted, i, T)
      /\ n2[i].commitIndex = n[i].commitIndex /\ FlightOK(voted, led, acked, n2[i])
      /\ Indexes(acked, i, n2[i], log2) /\ SameUpTo(led[T], log, Len(led[T]))
      /\ Extends(log, log2, T)
  BY DEF Leads
<1>3. /\ SameUpTo(log, log2, Len(log)) /\ Len(log) < Len(log2)
      /\ Len(log) \in Nat /\ Len(log2) \in Nat
  BY SMTT(30), <1>2 DEF Extends
<1>4. \A j \in Node : n[j].currentTerm \in Nat /\ n2[j].currentTerm = n[j].currentTerm
  BY <1>1, <1>2, NodeFields
<1>5. led2[T] = log2 /\ \A t \in Nat : t # T => led2[t] = led[t]
  BY DEF LedBecomes
<1>6. /\ acked2[T][i] = Len(log2)
      /\ \A t \in Nat, v \in Node : t # T \/ v # i => acked2[t][v] = acked[t][v]
  BY DEF AckedBecomes
<1>7. Logs(bid, led) /\ Owned(n, voted, led) /\ Standing(n, voted)
  BY DEF Core
<1>8. Faithful(led, log) /\ \A k \in 1..Len(log) : log[k].term <= T
  BY <1>1, <1>2 DEF NodeOK, LogOK
<1>9. IsLed(led2) /\ LedGrows(led, led2) /\ Faithful(led2, log2) /\ Ordered(T, log2)
  <2>1. \A t \in Nat : Ordered(t, led[t])
    BY <1>7 DEF Logs
  <2>. QED
    <3>1. /\ T > 0 /\ SameUpTo(led[T], log, Len(led[T])) /\ Extends(log, log2, T)
          /\ IsLed(led) /\ LedBecomes(led, led2, T, log2)
          /\ T \in Nat /\ log \in Seq(Entry) /\ log2 \in Seq(Entry)
      BY <1>1, <1>2
    <3>. QED
      BY ONLY Zenon, <1>8, <2>1, <3>1, LedStep
<1>10. IsAcked(acked2) /\ AckedGrows(acked, acked2)
  <2>1. ASSUME NEW t \in Nat, NEW v \in Node
        PROVE  acked2[t][v] \in Nat /\ acked[t][v] <= acked2[t][v]
    <3>1. acked[t][v] \in Nat
      BY <1>1 DEF IsAcked
    <3>2. CASE t = T /\ v = i
      <4>1. AcksOK(led, acked, i, n[i]) /\ acked[T][i] \in Nat
        BY <1>1, <3>1, <3>2 DEF NodeOK
      <4>2. Len(led[T]) \in Nat /\ Len(led[T]) <= Len(log)
        BY SMTT(30), <1>1, <1>2 DEF IsLed, SameUpTo
      <4>3. acked[T][i] <= Len(led[T])
        BY SMTT(30), <4>1, <4>2 DEF AcksOK
      <4>. QED
        BY SMTT(30), <1>3, <1>6, <3>2, <4>1, <4>2, <4>3
    <3>. QED
      BY SMTT(30), <1>6, <3>1, <3>2
  <2>. QED
    BY <2>1 DEF IsAcked, AckedGrows
<1>11. VotedGrows(voted, voted)
  BY DEF VotedGrows
<1>12. NodeOK(voted, bid, led2, acked2, i, n2[i])
  <2>1. NodeOK(voted, bid, led, acked, i, n[i])
    BY <1>1
  <2>2. VoterOK(voted, i, n2[i])
    BY <1>2, <2>1 DEF NodeOK, VoterOK
  <2>3. CandidateOK(voted, bid, i, n2[i])
    BY <1>2 DEF CandidateOK
  <2>4. LeaderOK(voted, led2, acked2, i, n2[i])
    <3>1. log2 # <<>>
      BY SMTT(30), <1>3
    <3>2. SUFFICES ASSUME NEW v \in Node
                   PROVE  /\ n2[i].matchIndex[v] <= acked2[T][v]
                          /\ n2[i].nextIndex[v] \in 1 .. Len(log2) + 1
      BY <1>2, <1>5, <3>1 DEF LeaderOK
    <3>. QED
      BY SMTT(30), <1>2, <1>3, <1>6 DEF Indexes
  <2>5. LogOK(led2, n2[i])
    <3>1. \A k \in 1..Len(log2) : log2[k].term <= T
      BY SMTT(30), <1>9 DEF Ordered
    <3>. QED
      BY <1>2, <1>9, <3>1 DEF LogOK
  <2>6. AcksOK(led2, acked2, i, n2[i])
    <3>1. AcksOK(led, acked, i, n[i])
      BY <2>1 DEF NodeOK
    <3>2. SameUpTo(log2, log2, Len(log2))
      BY SMTT(30), <1>3, SameRefl
    <3>3. SUFFICES ASSUME NEW t \in Nat, acked2[t][i] > 0
                   PROVE  /\ t <= T /\ acked2[t][i] <= Len(led2[t])
                          /\ t = T => SameUpTo(led2[t], log2, acked2[t][i])
      BY <1>2 DEF AcksOK
    <3>4. CASE t = T
      BY SMTT(30), <1>3, <1>5, <1>6, <3>2, <3>4
    <3>5. CASE t # T
      BY <1>2, <1>5, <1>6, <3>1, <3>3, <3>5 DEF AcksOK
    <3>. QED
      BY <3>4, <3>5
  <2>7. CommitOK(led2, acked2, log2, T, n2[i].commitIndex)
    <3>. DEFINE c == n[i].commitIndex
    <3>1. CommitOK(led, acked, log, T, c) /\ c \in Nat
      BY <1>1, <1>2, <2>1, NodeFields DEF NodeOK
    <3>. HIDE DEF c
    <3>2. CommitOK(led2, acked2, log, T, c)
      BY <1>1, <1>9, <1>10, <3>1, CommitGrows
    <3>3. ASSUME NEW u \in 0..T, SameUpTo(led2[u], log, c) PROVE SameUpTo(led2[u], log2, c)
      <4>1. led2[u] \in Seq(Entry)
        BY SMTT(30), <1>9 DEF IsLed
      <4>. QED
        BY <1>3, <3>1, <3>3, <4>1, SameGrows
    <3>4. CommitOK(led2, acked2, log2, T, c)
      BY <3>2, <3>3 DEF CommitOK
    <3>. QED
      BY <1>2, <3>4 DEF c
  <2>8. FlightOK(voted, led2, acked2, n2[i])
    <3>1. SUFFICES ASSUME NEW p \in Node, n2[i].inflight[p] # None
                   PROVE  RequestOK(voted, led2, acked2, n2[i].inflight[p])
      BY DEF FlightOK
    <3>2. n2[i].inflight[p] \in AppendEntriesMsg \cup InstallSnapshotMsg
      BY <1>1, <3>1, NodeFields
    <3>3. RequestOK(voted, led, acked, n2[i].inflight[p])
      BY <1>2, <3>1 DEF FlightOK
    <3>4. /\ IsLed(led) /\ IsLed(led2) /\ IsAcked(acked) /\ IsAcked(acked2)
          /\ VotedGrows(voted, voted) /\ LedGrows(led, led2) /\ AckedGrows(acked, acked2)
      BY <1>1, <1>9, <1>10, <1>11
    <3>. QED
      BY SMTT(30), <3>2, <3>3, <3>4, RequestGrows
  <2>. QED
    BY <1>2, <2>2, <2>3, <2>4, <2>5, <2>6, <2>7, <2>8 DEF NodeOK
<1>13. ASSUME NEW j \in Node, j # i PROVE NodeOK(voted, bid, led2, acked2, j, n2[j])
  <2>1. NodeOK(voted, bid, led, acked, j, n[j]) /\ n2[j] = n[j] /\ n[j] \in NodeState
    BY <1>1, <1>13
  <2>2. AcksOK(led2, acked2, j, n[j])
    <3>1. AcksOK(led, acked, j, n[j])
      BY <2>1 DEF NodeOK
    <3>2. SUFFICES ASSUME NEW t \in Nat, acked[t][j] > 0
                   PROVE  /\ t <= n[j].currentTerm /\ acked[t][j] <= Len(led2[t])
                          /\ t = n[j].currentTerm => SameUpTo(led2[t], n[j].log, acked[t][j])
      BY <1>6, <1>13 DEF AcksOK
    <3>3. /\ t <= n[j].currentTerm /\ acked[t][j] <= Len(led[t])
          /\ t = n[j].currentTerm => SameUpTo(led[t], n[j].log, acked[t][j])
      BY <3>1, <3>2 DEF AcksOK
    <3>4. led[t] \in Seq(Entry) /\ led2[t] \in Seq(Entry) /\ Len(led[t]) \in Nat /\ acked[t][j] \in Nat
      BY SMTT(30), <1>1, <1>9 DEF IsLed, IsAcked
    <3>5. SameUpTo(led2[t], led[t], acked[t][j])
      BY <1>9, <3>3, <3>4, SameLess, SameSym DEF LedGrows
    <3>6. acked[t][j] <= Len(led2[t])
      BY <3>5 DEF SameUpTo
    <3>. QED
      BY <3>3, <3>5, <3>6, SameTrans
  <2>3. n[j].state = "LEADER" => led2[n[j].currentTerm] = led[n[j].currentTerm]
    <3>1. n[j].state = "LEADER" => Elected(voted, j, n[j].currentTerm)
      BY <2>1 DEF NodeOK, LeaderOK
    <3>2. n[j].state = "LEADER" => n[j].currentTerm # T
      BY <1>1, <1>2, <1>13, <3>1, ElectedOnce
    <3>. QED
      BY <1>4, <1>5, <3>2
  <2>4. VoterOK(voted, j, n[j])
    BY <2>1 DEF NodeOK
  <2>. QED
    BY <1>1, <1>9, <1>10, <1>11, <2>1, <2>2, <2>3, <2>4, NodeGrows
<1>14. Standing(n2, voted)
  BY <1>4, <1>7 DEF Standing
<1>15. Owned(n2, voted, led2)
  <2>1. SUFFICES ASSUME NEW t \in Nat, led2[t] # <<>>
                 PROVE  \E j \in Node : /\ Elected(voted, j, t)
                                        /\ t <= n2[j].currentTerm
                                        /\ t = n2[j].currentTerm => n2[j].state # "CANDIDATE"
    BY DEF Owned
  <2>2. CASE t = T
    BY SMTT(30), <1>2, <2>2
  <2>3. CASE t # T
    <3>1. PICK j \in Node : /\ Elected(voted, j, t)
                            /\ t <= n[j].currentTerm
                            /\ t = n[j].currentTerm => n[j].state # "CANDIDATE"
      BY <1>5, <1>7, <2>1, <2>3 DEF Owned
    <3>2. t = n2[j].currentTerm => n2[j].state # "CANDIDATE"
      BY <1>1, <1>2, <3>1
    <3>. QED
      BY <1>4, <3>1, <3>2
  <2>. QED
    BY <2>2, <2>3
<1>16. Logs(bid, led2)
  <2>1. ASSUME NEW t \in Nat PROVE Faithful(led2, led2[t]) /\ Ordered(t, led2[t])
    <3>1. CASE t # T
      <4>1. /\ led2[t] = led[t] /\ led[t] \in Seq(Entry)
            /\ Faithful(led, led[t]) /\ Ordered(t, led[t])
        BY <1>1, <1>5, <1>7, <3>1 DEF Logs, IsLed
      <4>. QED
        BY <1>1, <1>9, <4>1, FaithfulGrows
    <3>. QED
      BY <1>5, <1>9, <3>1
  <2>2. ASSUME NEW j \in Node, NEW t \in Nat PROVE Faithful(led2, bid[j][t])
    <3>1. bid[j][t] \in Seq(Entry) /\ Faithful(led, bid[j][t])
      BY <1>1, <1>7 DEF Logs, IsBid
    <3>. QED
      BY <1>1, <1>9, <3>1, FaithfulGrows
  <2>. QED
    BY <2>1, <2>2 DEF Logs
<1>17. Entries(n2, voted, bid, led2, acked2)
  BY <1>9, LeadEntries
<1>. QED
  BY <1>1, <1>9, <1>10, <1>12, <1>13, <1>14, <1>15, <1>16, <1>17 DEF Core, Types

(* A candidate with the votes of a quorum may lead: nobody has led its     *)
(* term, and its log is complete.                                          *)
LEMMA WinnerComplete ==
    ASSUME NEW n, NEW voted, NEW bid, NEW led, NEW acked, Core(n, voted, bid, led, acked),
           NEW i \in Node, n[i].state = "CANDIDATE", NEW T \in Nat, n[i].currentTerm = T,
           NEW Q \in SUBSET Node, Quorum(Q), \A v \in Q : voted[v][T] = i
    PROVE  /\ Elected(voted, i, T) /\ T > 0
           /\ SameUpTo(led[T], n[i].log, Len(led[T]))
           /\ Complete(n, led, acked, n[i].log, T)
<1>1. /\ \A j \in Node : n[j] \in NodeState /\ NodeOK(voted, bid, led, acked, j, n[j])
      /\ IsLed(led) /\ IsAcked(acked) /\ Majorities
  BY DEF Core, Types
<1>2. Elected(voted, i, T)
  BY DEF Elected
<1>3. led[T] = <<>>
  <2>1. SUFFICES ASSUME led[T] # <<>> PROVE FALSE
    OBVIOUS
  <2>2. PICK j \in Node : Elected(voted, j, T) /\ (T = n[j].currentTerm => n[j].state # "CANDIDATE")
    BY <2>1 DEF Core, Owned
  <2>3. j = i
    BY <1>1, <1>2, <2>2, ElectedOnce
  <2>. QED
    BY <2>2, <2>3
<1>4. T > 0 /\ n[i].log = bid[i][T]
  <2>1. CandidateOK(voted, bid, i, n[i])
    BY <1>1 DEF NodeOK
  <2>2. \A j \in Node \ {i} : ~Elected(voted, j, T)
    BY <1>1, <1>2, ElectedOnce
  <2>. QED
    BY <2>1, <2>2 DEF CandidateOK
<1>5. SameUpTo(led[T], n[i].log, Len(led[T]))
  <2>1. Len(n[i].log) \in Nat
    BY <1>1, NodeFields
  <2>. QED
    BY SMTT(30), <1>3, <2>1 DEF SameUpTo
<1>6. Complete(n, led, acked, n[i].log, T)
  <2>1. SUFFICES ASSUME NEW u \in Nat, u < T, NEW k \in 1..Len(led[u]), led[u][k].term = u,
                        ~Denied(n, acked, u, k)
                 PROVE  SameUpTo(led[u], n[i].log, k)
    BY DEF Complete
  <2>2. Carried(n, voted, bid, led, acked, u, k)
    BY <2>1 DEF Core, Entries
  <2>3. \A v \in Q : n[v].currentTerm > u
    <3>1. SUFFICES ASSUME NEW v \in Q PROVE n[v].currentTerm > u
      OBVIOUS
    <3>2. VoterOK(voted, v, n[v]) /\ n[v].currentTerm \in Nat /\ voted[v][T] # None
      BY <1>1, NodeFields, NodeAssumption DEF NodeOK
    <3>3. n[v].currentTerm >= T
      BY SMTT(30), <3>2 DEF VoterOK
    <3>. QED
      BY SMTT(30), <2>1, <3>2, <3>3
  <2>4. PICK v \in Q : ~(acked[u][v] < k)
    BY <2>1, <2>3 DEF Denied
  <2>5. acked[u][v] >= k
    <3>1. acked[u][v] \in Nat /\ k \in Nat
      BY SMTT(30), <1>1 DEF IsAcked, IsLed
    <3>. QED
      BY SMTT(30), <2>4, <3>1
  <2>. QED
    BY <1>4, <2>1, <2>2, <2>5 DEF Carried
<1>. QED
  BY <1>2, <1>4, <1>5, <1>6

(* The log of a leader is complete.                                        *)
LEMMA LeaderComplete ==
    ASSUME NEW n, NEW voted, NEW bid, NEW led, NEW acked, Core(n, voted, bid, led, acked),
           NEW i \in Node, n[i].state = "LEADER", NEW T \in Nat, n[i].currentTerm = T
    PROVE  /\ Elected(voted, i, T) /\ T > 0 /\ n[i].log = led[T] /\ led[T] # <<>>
           /\ SameUpTo(led[T], n[i].log, Len(led[T]))
           /\ Complete(n, led, acked, n[i].log, T)
<1>1. LeaderOK(voted, led, acked, i, n[i]) /\ IsLed(led)
  BY DEF Core, Types, NodeOK
<1>2. Elected(voted, i, T) /\ n[i].log = led[T] /\ led[T] # <<>>
  BY <1>1 DEF LeaderOK
<1>3. led[T] \in Seq(Entry) /\ Len(led[T]) \in Nat
  BY SMTT(30), <1>1 DEF IsLed
<1>4. T > 0
  <2>1. Ordered(T, led[T]) /\ 1 \in 1..Len(led[T])
    BY SMTT(30), <1>2, <1>3 DEF Core, Logs
  <2>. QED
    BY SMTT(30), <2>1 DEF Ordered
<1>5. SameUpTo(led[T], n[i].log, Len(led[T]))
  BY SMTT(30), <1>2, <1>3, SameRefl
<1>6. Complete(n, led, acked, n[i].log, T)
  <2>1. SUFFICES ASSUME NEW u \in Nat, u < T, NEW k \in 1..Len(led[u]), led[u][k].term = u,
                        ~Denied(n, acked, u, k)
                 PROVE  SameUpTo(led[u], n[i].log, k)
    BY DEF Complete
  <2>2. Carried(n, voted, bid, led, acked, u, k)
    BY <2>1 DEF Core, Entries
  <2>. QED
    BY <1>2, <2>1, <2>2 DEF Carried
<1>. QED
  BY <1>2, <1>4, <1>5, <1>6

(* A complete log stays complete as entries are added to it.               *)
LEMMA CompleteExtends ==
    ASSUME NEW n, NEW led, IsLed(led), NEW acked, NEW T \in Nat, NEW log \in Seq(Entry),
           NEW log2 \in Seq(Entry), Complete(n, led, acked, log, T), Extends(log, log2, T)
    PROVE  Complete(n, led, acked, log2, T)
<1>1. SUFFICES ASSUME NEW u \in Nat, u < T, NEW k \in 1..Len(led[u]), led[u][k].term = u,
                      ~Denied(n, acked, u, k)
               PROVE  SameUpTo(led[u], log2, k)
  BY DEF Complete
<1>2. SameUpTo(led[u], log, k) /\ SameUpTo(log, log2, Len(log))
  BY <1>1 DEF Complete, Extends
<1>3. led[u] \in Seq(Entry) /\ k \in Nat
  BY SMTT(30) DEF IsLed
<1>. QED
  BY <1>2, <1>3, SameGrows

(* What was committed in a term is in the log of every later leader, and   *)
(* still in the logs of all who acknowledged it.                           *)
LEMMA CommittedStays ==
    ASSUME NEW n, NEW voted, NEW bid, NEW led, NEW acked, Core(n, voted, bid, led, acked),
           NEW u \in Nat, NEW l \in Nat, Committed(led, acked, u, l)
    PROVE  /\ \A t \in Nat : t >= u /\ led[t] # <<>> => SameUpTo(led[u], led[t], l)
           /\ \A v \in Node : acked[u][v] >= l => SameUpTo(led[u], n[v].log, l)
<1>1. PICK Q \in SUBSET Node : Quorum(Q) /\ \A v \in Q : acked[u][v] >= l
  BY DEF Committed
<1>2. ~Denied(n, acked, u, l)
  <2>1. SUFFICES ASSUME Denied(n, acked, u, l) PROVE FALSE
    OBVIOUS
  <2>2. PICK P \in SUBSET Node : Quorum(P) /\ \A v \in P : acked[u][v] < l
    BY <2>1 DEF Denied
  <2>3. PICK v \in Node : v \in P /\ v \in Q
    BY <1>1, <2>2 DEF Core, Types, Majorities
  <2>4. acked[u][v] \in Nat /\ acked[u][v] < l /\ acked[u][v] >= l
    BY <1>1, <2>2, <2>3 DEF Core, Types, IsAcked
  <2>. QED
    BY SMTT(30), <2>4
<1>3. Carried(n, voted, bid, led, acked, u, l)
  BY <1>2 DEF Core, Entries, Committed
<1>4. SameUpTo(led[u], led[u], l)
  <2>1. led[u] \in Seq(Entry) /\ l <= Len(led[u])
    BY SMTT(30) DEF Core, Types, IsLed, Committed
  <2>. QED
    BY <2>1, SameRefl
<1>5. ASSUME NEW t \in Nat, t >= u, led[t] # <<>> PROVE SameUpTo(led[u], led[t], l)
  <2>1. CASE t = u
    BY <1>4, <2>1
  <2>2. CASE t > u
    BY <1>3, <1>5, <2>2 DEF Carried
  <2>. QED
    BY SMTT(30), <1>5, <2>1, <2>2
<1>6. ASSUME NEW v \in Node, acked[u][v] >= l PROVE SameUpTo(led[u], n[v].log, l)
  BY <1>3, <1>6 DEF Carried
<1>. QED
  BY <1>5, <1>6

(* log2 is a piece of the log of the leader of term t with all that log    *)
(* had of it.                                                              *)
Follows(led, t, log, log2) ==
    /\ led[t] # <<>> /\ SameUpTo(led[t], log2, Len(log2))
    /\ \A k \in Nat : SameUpTo(led[t], log, k) => k <= Len(log2)

LEMMA FollowKeeps ==
    ASSUME NEW led, IsLed(led), NEW t \in Nat, NEW log \in Seq(Entry), NEW log2 \in Seq(Entry),
           Follows(led, t, log, log2), NEW k \in Nat, SameUpTo(led[t], log, k)
    PROVE  SameUpTo(led[t], log2, k)
<1>1. k <= Len(log2) /\ SameUpTo(led[t], log2, Len(log2)) /\ Len(log2) \in Nat
  BY SMTT(30) DEF Follows
<1>2. led[t] \in Seq(Entry)
  BY DEF IsLed
<1>. QED
  BY <1>1, <1>2, SameLess

(* What a node has committed is in the log of the leader of its term.      *)
LEMMA CommitInLed ==
    ASSUME NEW n, NEW voted, NEW bid, NEW led, NEW acked, Core(n, voted, bid, led, acked),
           NEW log \in Seq(Entry), NEW T \in Nat, NEW c \in Nat, led[T] # <<>>,
           CommitOK(led, acked, log, T, c)
    PROVE  SameUpTo(led[T], log, c)
<1>1. IsLed(led)
  BY DEF Core, Types
<1>2. led[T] \in Seq(Entry) /\ Len(log) \in Nat /\ Len(led[T]) \in Nat
  BY SMTT(30), <1>1 DEF IsLed
<1>3. CASE c = 0
  BY SMTT(30), <1>2, <1>3 DEF SameUpTo
<1>4. CASE c > 0
  <2>1. PICK u \in 0..T, l \in Nat :
           l >= c /\ Committed(led, acked, u, l) /\ SameUpTo(led[u], log, c)
    BY <1>4 DEF CommitOK
  <2>2. u \in Nat /\ T >= u /\ led[u] \in Seq(Entry)
    BY SMTT(30), <1>1 DEF IsLed
  <2>3. SameUpTo(led[u], led[T], l)
    BY <2>1, <2>2, CommittedStays
  <2>. QED
    BY <1>2, <2>1, <2>2, <2>3, SameLess, SameSym, SameTrans
<1>. QED
  BY SMTT(30), <1>3, <1>4

(* A node takes over a piece of its leader's log.                          *)
LEMMA FollowStep ==
    ASSUME NEW n, NEW n2, NEW voted, NEW bid, NEW led, NEW acked,
           Core(n, voted, bid, led, acked), NEW i \in Node, Only(i, n, n2),
           NEW T \in Nat, n[i].currentTerm = T, n2[i].currentTerm = T,
           n[i].state # "LEADER", n2[i].state = n[i].state,
           n2[i].votedFor = n[i].votedFor, n2[i].votes = n[i].votes,
           n2[i].commitIndex = n[i].commitIndex, n2[i].inflight = n[i].inflight,
           Follows(led, T, n[i].log, n2[i].log)
    PROVE  Core(n2, voted, bid, led, acked)
<1>1. /\ \A j \in Node : n[j] \in NodeState /\ n2[j] \in NodeState
      /\ \A j \in Node : j # i => n2[j] = n[j]
      /\ \A j \in Node : NodeOK(voted, bid, led, acked, j, n[j])
      /\ IsLed(led) /\ IsAcked(acked)
  BY DEF Core, Types, Only
<1>. DEFINE log == n[i].log
            log2 == n2[i].log
<1>2. /\ log \in Seq(Entry) /\ log2 \in Seq(Entry) /\ n[i].commitIndex \in Nat
      /\ Len(log2) \in Nat
  BY <1>1, NodeFields
<1>3. \A j \in Node : n2[j].currentTerm = n[j].currentTerm /\ n2[j].state = n[j].state
  BY <1>1
<1>4. led[T] \in Seq(Entry) /\ led[T] # <<>> /\ SameUpTo(led[T], log2, Len(log2))
  BY <1>1 DEF Follows, IsLed
<1>5. Logs(bid, led) /\ Owned(n, voted, led) /\ Standing(n, voted)
  BY DEF Core
<1>6. NodeOK(voted, bid, led, acked, i, n[i])
  BY <1>1
<1>7. ASSUME NEW k \in Nat, SameUpTo(led[T], log, k) PROVE SameUpTo(led[T], log2, k)
  BY <1>1, <1>2, <1>7, FollowKeeps
<1>8. VoterOK(voted, i, n2[i]) /\ LeaderOK(voted, led, acked, i, n2[i]) /\ FlightOK(voted, led, acked, n2[i])
  BY <1>6 DEF NodeOK, VoterOK, LeaderOK, FlightOK
<1>9. CandidateOK(voted, bid, i, n2[i])
  <2>1. SUFFICES ASSUME n[i].state = "CANDIDATE"
                 PROVE  CandidateOK(voted, bid, i, n2[i])
    BY DEF CandidateOK
  <2>2. PICK j \in Node : Elected(voted, j, T) /\ (T = n[j].currentTerm => n[j].state # "CANDIDATE")
    BY <1>4, <1>5 DEF Owned
  <2>3. j \in Node \ {i}
    BY <2>1, <2>2
  <2>. QED
    BY <1>6, <2>1, <2>2, <2>3 DEF NodeOK, CandidateOK
<1>10. LogOK(led, n2[i])
  <2>1. Faithful(led, log2)
    BY <1>1, <1>2, <1>4, <1>5, FaithfulPrefix DEF Logs
  <2>2. ASSUME NEW k \in 1..Len(log2) PROVE log2[k].term <= T
    <3>1. log2[k] = led[T][k] /\ k \in 1..Len(led[T])
      BY SMTT(30), <1>2, <1>4, SameAt
    <3>. QED
      BY SMTT(30), <1>5, <3>1 DEF Logs, Ordered
  <2>. QED
    BY <2>1, <2>2 DEF LogOK
<1>11. AcksOK(led, acked, i, n2[i])
  <2>1. AcksOK(led, acked, i, n[i])
    BY <1>6 DEF NodeOK
  <2>2. SUFFICES ASSUME NEW t \in Nat, acked[t][i] > 0
                 PROVE  /\ t <= T /\ acked[t][i] <= Len(led[t])
                        /\ t = T => SameUpTo(led[t], log2, acked[t][i])
    BY DEF AcksOK
  <2>3. /\ t <= T /\ acked[t][i] <= Len(led[t])
        /\ t = T => SameUpTo(led[t], log, acked[t][i])
    BY <2>1, <2>2 DEF AcksOK
  <2>4. acked[t][i] \in Nat
    BY <1>1 DEF IsAcked
  <2>. QED
    BY <1>7, <2>3, <2>4
<1>12. CommitOK(led, acked, log2, T, n[i].commitIndex)
  <2>1. CommitOK(led, acked, log, T, n[i].commitIndex)
    BY <1>6 DEF NodeOK
  <2>2. SUFFICES ASSUME n[i].commitIndex > 0 PROVE CommitOK(led, acked, log2, T, n[i].commitIndex)
    BY DEF CommitOK
  <2>3. SameUpTo(led[T], log, n[i].commitIndex)
    BY <1>2, <1>4, <2>1, CommitInLed
  <2>4. SameUpTo(led[T], log2, n[i].commitIndex)
    BY <1>2, <1>7, <2>3
  <2>5. PICK u \in 0..T, l \in Nat :
           /\ l >= n[i].commitIndex /\ Committed(led, acked, u, l)
           /\ SameUpTo(led[u], log, n[i].commitIndex)
    BY <2>1, <2>2 DEF CommitOK
  <2>6. SameUpTo(led[u], log2, n[i].commitIndex)
    BY SMTT(30), <2>3, <2>4, <2>5, SameSym, SameTrans
  <2>. QED
    BY <2>5, <2>6 DEF CommitOK
<1>13. \A j \in Node : NodeOK(voted, bid, led, acked, j, n2[j])
  BY <1>1, <1>8, <1>9, <1>10, <1>11, <1>12 DEF NodeOK
<1>14. Standing(n2, voted) /\ Owned(n2, voted, led)
  BY SMTT(30), <1>3, <1>5 DEF Standing, Owned
<1>15. Entries(n2, voted, bid, led, acked)
  <2>1. SUFFICES ASSUME NEW t \in Nat, NEW k \in 1..Len(led[t]), led[t][k].term = t
                 PROVE  \/ Denied(n2, acked, t, k)
                        \/ Carried(n2, voted, bid, led, acked, t, k)
    BY DEF Entries
  <2>2. CASE Denied(n, acked, t, k)
    BY <1>3, <2>2 DEF Denied
  <2>3. CASE Carried(n, voted, bid, led, acked, t, k)
    <3>1. ASSUME acked[t][i] >= k PROVE SameUpTo(led[t], log2, k)
      <4>1. SameUpTo(led[t], log, k)
        BY <2>3, <3>1 DEF Carried
      <4>2. k \in Nat /\ k >= 1 /\ acked[t][i] \in Nat
        BY SMTT(30), <1>1 DEF IsLed, IsAcked
      <4>3. t <= T
        BY SMTT(30), <1>6, <3>1, <4>2 DEF NodeOK, AcksOK
      <4>4. CASE t = T
        BY <1>7, <4>1, <4>2, <4>4
      <4>5. CASE t < T
        <5>1. SameUpTo(led[t], led[T], k)
          BY <1>4, <2>3, <4>5 DEF Carried
        <5>2. SameUpTo(led[T], log2, k)
          BY <1>7, <4>1, <4>2, <5>1, SameSym, SameTrans
        <5>. QED
          BY <5>1, <5>2, SameTrans
      <4>. QED
        BY SMTT(30), <4>3, <4>4, <4>5
    <3>2. \A v \in Node : acked[t][v] >= k => SameUpTo(led[t], n2[v].log, k)
      BY <1>1, <2>3, <3>1 DEF Carried
    <3>. QED
      BY <2>3, <3>2 DEF Carried
  <2>. QED
    BY <2>1, <2>2, <2>3 DEF Core, Entries
<1>. QED
  BY <1>1, <1>5, <1>13, <1>14, <1>15 DEF Core, Types

(* A node acknowledges the first e entries of its leader's log, which it   *)
(* holds.                                                                  *)
LEMMA AckStep ==
    ASSUME NEW n, NEW voted, NEW bid, NEW led, NEW acked, NEW acked2,
           Core(n, voted, bid, led, acked), NEW i \in Node, NEW T \in Nat, n[i].currentTerm = T,
           NEW e \in Nat, SameUpTo(led[T], n[i].log, e),
           AckedBecomes(acked, acked2, T, i, Larger(acked[T][i], e))
    PROVE  Core(n, voted, bid, led, acked2) /\ AckedGrows(acked, acked2) /\ e <= acked2[T][i]
<1>1. /\ \A j \in Node : n[j] \in NodeState
      /\ \A j \in Node : NodeOK(voted, bid, led, acked, j, n[j])
      /\ IsVoted(voted) /\ IsBid(bid) /\ IsLed(led) /\ IsAcked(acked)
  BY DEF Core, Types
<1>2. acked2[T][i] = Larger(acked[T][i], e)
  BY DEF AckedBecomes
<1>3. \A t \in Nat, v \in Node : t # T \/ v # i => acked2[t][v] = acked[t][v]
  BY DEF AckedBecomes
<1>4. /\ acked2[T][i] \in Nat /\ acked[T][i] \in Nat /\ acked[T][i] <= acked2[T][i]
      /\ e <= acked2[T][i] /\ acked2[T][i] \in {acked[T][i], e}
  BY SMTT(30), <1>1, <1>2 DEF IsAcked, Larger
<1>5. IsAcked(acked2) /\ AckedGrows(acked, acked2)
  <2>1. ASSUME NEW t \in Nat, NEW v \in Node
        PROVE  acked2[t][v] \in Nat /\ acked[t][v] <= acked2[t][v]
    <3>1. acked[t][v] \in Nat
      BY <1>1 DEF IsAcked
    <3>. QED
      BY SMTT(30), <1>3, <1>4, <3>1
  <2>. QED
    BY <2>1 DEF IsAcked, AckedGrows
<1>6. VotedGrows(voted, voted) /\ LedGrows(led, led)
  BY <1>1, GrowsRefl
<1>7. NodeOK(voted, bid, led, acked, i, n[i]) /\ n[i].log \in Seq(Entry)
  BY <1>1, NodeFields
<1>8. ASSUME NEW j \in Node PROVE NodeOK(voted, bid, led, acked2, j, n[j])
  <2>1. NodeOK(voted, bid, led, acked, j, n[j]) /\ n[j] \in NodeState
    BY <1>1
  <2>2. AcksOK(led, acked, j, n[j]) /\ VoterOK(voted, j, n[j])
    BY <2>1 DEF NodeOK
  <2>3. AcksOK(led, acked2, j, n[j])
    <3>1. SUFFICES ASSUME NEW t \in Nat, acked2[t][j] > 0
                   PROVE  /\ t <= n[j].currentTerm /\ acked2[t][j] <= Len(led[t])
                          /\ t = n[j].currentTerm => SameUpTo(led[t], n[j].log, acked2[t][j])
      BY DEF AcksOK
    <3>2. CASE acked2[t][j] = acked[t][j]
      BY <2>2, <3>1, <3>2 DEF AcksOK
    <3>3. CASE t = T /\ j = i /\ acked2[t][j] = e
      BY SMTT(30), <3>3 DEF SameUpTo
    <3>. QED
      BY <1>3, <1>4, <3>2, <3>3
  <2>. QED
    BY <1>1, <1>5, <1>6, <2>1, <2>2, <2>3, NodeGrows
<1>9. Entries(n, voted, bid, led, acked2)
  <2>1. SUFFICES ASSUME NEW t \in Nat, NEW k \in 1..Len(led[t]), led[t][k].term = t
                 PROVE  \/ Denied(n, acked2, t, k)
                        \/ Carried(n, voted, bid, led, acked2, t, k)
    BY DEF Entries
  <2>2. k \in Nat /\ led[t] \in Seq(Entry)
    BY SMTT(30), <1>1 DEF IsLed
  <2>3. CASE Denied(n, acked, t, k)
    <3>1. PICK Q \in SUBSET Node :
             Quorum(Q) /\ \A v \in Q : n[v].currentTerm > t /\ acked[t][v] < k
      BY <2>3 DEF Denied
    <3>2. ASSUME NEW v \in Q PROVE acked2[t][v] < k
      <4>1. v \in Node /\ (t # T \/ v # i)
        BY SMTT(30), <3>1
      <4>. QED
        BY <1>3, <3>1, <4>1
    <3>. QED
      BY <3>1, <3>2 DEF Denied
  <2>4. CASE Carried(n, voted, bid, led, acked, t, k)
    <3>1. SUFFICES ASSUME NEW v \in Node, acked2[t][v] >= k
                   PROVE  /\ SameUpTo(led[t], n[v].log, k)
                          /\ \A j \in Node, u \in Nat :
                               u > t /\ voted[v][u] = j => SameUpTo(led[t], bid[j][u], k)
      BY <2>4 DEF Carried
    <3>2. CASE acked2[t][v] = acked[t][v]
      BY <2>4, <3>1, <3>2 DEF Carried
    <3>3. CASE t = T /\ v = i /\ acked2[t][v] = e
      <4>1. SameUpTo(led[t], n[v].log, k)
        BY <1>7, <2>2, <3>1, <3>3, SameLess
      <4>2. \A u \in Nat : u > T => voted[i][u] = None
        BY <1>7 DEF NodeOK, VoterOK
      <4>. QED
        BY <3>3, <4>1, <4>2, NodeAssumption
    <3>. QED
      BY <1>3, <1>4, <3>2, <3>3
  <2>. QED
    BY <2>1, <2>3, <2>4 DEF Core, Entries
<1>. QED
  BY <1>1, <1>4, <1>5, <1>8, <1>9 DEF Core, Types

(* Less is committed in no fewer terms.                                    *)
LEMMA CommitLess ==
    ASSUME NEW led, IsLed(led), NEW acked, NEW log \in Seq(Entry), NEW t \in Nat, NEW u \in Nat,
           t <= u, NEW k \in Nat, NEW l \in Nat, l <= k, CommitOK(led, acked, log, t, k)
    PROVE  CommitOK(led, acked, log, u, l)
<1>. SUFFICES ASSUME l > 0
              PROVE  \E x \in 0..u : \E y \in Nat : /\ y >= l /\ Committed(led, acked, x, y)
                                                    /\ SameUpTo(led[x], log, l)
  BY DEF CommitOK
<1>1. PICK x \in 0..t : \E y \in Nat : /\ y >= k /\ Committed(led, acked, x, y)
                                       /\ SameUpTo(led[x], log, k)
  BY SMTT(30) DEF CommitOK
<1>2. led[x] \in Seq(Entry) /\ x \in 0..u
  BY SMTT(30) DEF IsLed
<1>3. SameUpTo(led[x], log, l)
  BY <1>1, <1>2, SameLess
<1>. QED
  BY SMTT(30), <1>1, <1>2, <1>3

-----------------------------------------------------------------------------

(* What the history says about the state: the safety of the consensus.     *)

(* The first k entries of a log.                                           *)
LEMMA FirstEntries ==
    ASSUME NEW log \in Seq(Entry), NEW k \in Nat, k <= Len(log)
    PROVE  LET part == SubSeq(log, 1, k)
           IN part \in Seq(Entry) /\ Len(part) = k /\ \A x \in 1..k : part[x] = log[x]
  BY SMTT(30)

(* Logs that agree up to k have the same first k entries.                  *)
LEMMA SamePart ==
    ASSUME NEW a \in Seq(Entry), NEW b \in Seq(Entry), NEW k \in Nat, SameUpTo(a, b, k)
    PROVE  SubSeq(a, 1, k) = SubSeq(b, 1, k)
<1>. DEFINE p == SubSeq(a, 1, k)
            q == SubSeq(b, 1, k)
<1>1. k <= Len(a) /\ k <= Len(b) /\ \A x \in 1..k : a[x] = b[x]
  BY DEF SameUpTo
<1>2. /\ p \in Seq(Entry) /\ Len(p) = k /\ \A x \in 1..k : p[x] = a[x]
      /\ q \in Seq(Entry) /\ Len(q) = k /\ \A x \in 1..k : q[x] = b[x]
  BY <1>1, FirstEntries
<1>. HIDE DEF p, q
<1>3. \A x \in 1..k : p[x] = q[x]
  BY <1>1, <1>2
<1>4. p = q
  BY SMTT(30), <1>2, <1>3
<1>. QED
  BY <1>4 DEF p, q

(* The parts of a history that explains the state.                         *)
LEMMA HistoryParts ==
    ASSUME NEW voted, NEW bid, NEW led, NEW acked,
           Explains(node, msgs, voted, bid, led, acked)
    PROVE  /\ Core(node, voted, bid, led, acked) /\ Majorities
           /\ IsLed(led) /\ IsAcked(acked) /\ Logs(bid, led)
           /\ \A i \in Node : /\ node[i] \in NodeState
                              /\ NodeOK(voted, bid, led, acked, i, node[i])
           /\ \A m \in msgs : MessageOK(node, voted, bid, led, acked, m)
  BY DEF Explains, Core, Types

(* A term has one leader, to which its replication requests belong.        *)
LEMMA ElectionIsSafe == History => ElectionSafety
<1>. SUFFICES ASSUME History PROVE ElectionSafety
  OBVIOUS
<1>1. PICK voted, bid, led, acked : Explains(node, msgs, voted, bid, led, acked)
  BY DEF History
<1>2. /\ Majorities
      /\ \A i \in Node : NodeOK(voted, bid, led, acked, i, node[i])
      /\ \A m \in msgs : MessageOK(node, voted, bid, led, acked, m)
  BY <1>1, HistoryParts
<1>3. ASSUME NEW i \in Node, node[i].state = "LEADER"
      PROVE  Elected(voted, i, node[i].currentTerm)
  BY <1>2, <1>3 DEF NodeOK, LeaderOK
<1>4. ASSUME NEW m \in LeaderMsgs PROVE Elected(voted, m.from, m.term)
  <2>1. m \in msgs /\ m.type \in {"AppendEntries", "InstallSnapshot"}
    BY DEF LeaderMsgs
  <2>. QED
    BY <1>2, <2>1 DEF MessageOK, RequestOK
<1>5. ASSUME NEW i \in Node, NEW j \in Node, node[i].state = "LEADER",
             node[j].state = "LEADER", node[i].currentTerm = node[j].currentTerm
      PROVE  i = j
  BY <1>2, <1>3, <1>5, ElectedOnce
<1>6. ASSUME NEW m1 \in LeaderMsgs, NEW m2 \in LeaderMsgs, m1.term = m2.term
      PROVE  m1.from = m2.from
  BY <1>2, <1>4, <1>6, ElectedOnce
<1>7. ASSUME NEW i \in Node, NEW m \in LeaderMsgs, node[i].state = "LEADER",
             node[i].currentTerm = m.term
      PROVE  m.from = i
  BY <1>2, <1>3, <1>4, <1>7, ElectedOnce
<1>. QED
  BY <1>5, <1>6, <1>7 DEF ElectionSafety

(* Two logs with an entry of the same term at an index both have it, and   *)
(* all before it, from the leader of that term.                            *)
LEMMA LogsMatch == History => LogMatching
<1>. SUFFICES ASSUME History, NEW i \in Node, NEW j \in Node,
                     NEW k \in 1 .. Smaller(Len(node[i].log), Len(node[j].log)),
                     node[i].log[k].term = node[j].log[k].term
              PROVE  SubSeq(node[i].log, 1, k) = SubSeq(node[j].log, 1, k)
  BY DEF LogMatching
<1>1. PICK voted, bid, led, acked : Explains(node, msgs, voted, bid, led, acked)
  BY DEF History
<1>. DEFINE a == node[i].log
            b == node[j].log
<1>2. /\ IsLed(led) /\ a \in Seq(Entry) /\ b \in Seq(Entry)
      /\ Len(a) \in Nat /\ Len(b) \in Nat /\ Faithful(led, a) /\ Faithful(led, b)
  BY <1>1, HistoryParts, NodeFields DEF NodeOK, LogOK
<1>. HIDE DEF a, b
<1>3. k \in Nat /\ k \in 1..Len(a) /\ k \in 1..Len(b)
  BY SMTT(30), <1>2 DEF Smaller, a, b
<1>4. a[k].term = b[k].term
  BY DEF a, b
<1>5. SameUpTo(a, b, k)
  BY <1>2, <1>3, <1>4, TermDecides
<1>. QED
  BY <1>2, <1>3, <1>5, SamePart DEF a, b

(* What two logs hold as committed is the same.                            *)
LEMMA CommitsAgree ==
    ASSUME NEW n, NEW voted, NEW bid, NEW led, NEW acked, Core(n, voted, bid, led, acked),
           NEW a \in Seq(Entry), NEW b \in Seq(Entry), NEW t \in Nat, NEW u \in Nat,
           NEW k \in Nat, CommitOK(led, acked, a, t, k), CommitOK(led, acked, b, u, k)
    PROVE  SameUpTo(a, b, k)
<1>1. IsLed(led)
  BY DEF Core, Types
<1>2. ASSUME NEW c \in Seq(Entry), NEW d \in Seq(Entry), NEW x \in Nat, NEW y \in Nat,
             NEW l \in Nat, NEW m \in Nat, x <= y, k <= l, k > 0, k <= m,
             Committed(led, acked, x, l), Committed(led, acked, y, m),
             SameUpTo(led[x], c, k), SameUpTo(led[y], d, k)
      PROVE  SameUpTo(c, d, k)
  <2>1. led[x] \in Seq(Entry) /\ led[y] \in Seq(Entry) /\ y >= x
    BY SMTT(30), <1>1, <1>2 DEF IsLed
  <2>2. led[y] # <<>>
    BY SMTT(30), <1>2, <2>1 DEF Committed
  <2>3. SameUpTo(led[x], led[y], l)
    BY <1>2, <2>1, <2>2, CommittedStays
  <2>4. SameUpTo(led[x], led[y], k)
    BY <1>2, <2>1, <2>3, SameLess
  <2>. QED
    BY <1>2, <2>4, SameSym, SameTrans
<1>3. CASE k = 0
  BY SMTT(30), <1>3 DEF SameUpTo
<1>4. CASE k > 0
  <2>1. PICK x \in 0..t, l \in Nat : /\ l >= k /\ Committed(led, acked, x, l)
                                     /\ SameUpTo(led[x], a, k)
    BY <1>4 DEF CommitOK
  <2>2. PICK y \in 0..u, m \in Nat : /\ m >= k /\ Committed(led, acked, y, m)
                                     /\ SameUpTo(led[y], b, k)
    BY <1>4 DEF CommitOK
  <2>3. x \in Nat /\ y \in Nat /\ k <= l /\ k <= m /\ (x <= y \/ y <= x)
    BY SMTT(30), <2>1, <2>2
  <2>4. CASE x <= y
    BY <1>2, <1>4, <2>1, <2>2, <2>3, <2>4
  <2>5. CASE y <= x
    <3>1. SameUpTo(b, a, k)
      BY <1>2, <1>4, <2>1, <2>2, <2>3, <2>5
    <3>. QED
      BY <3>1, SameSym
  <2>. QED
    BY <2>3, <2>4, <2>5
<1>. QED
  BY SMTT(30), <1>3, <1>4

(* A leader's log is the log of its term, which holds what was committed   *)
(* in the terms up to it.                                                  *)
LEMMA LeadersAreComplete == History => LeaderCompleteness
<1>. SUFFICES ASSUME History, NEW i \in Node, NEW j \in Node,
                     node[j].state = "LEADER", node[j].currentTerm >= node[i].currentTerm
              PROVE  /\ node[i].commitIndex <= Len(node[j].log)
                     /\ SubSeq(node[i].log, 1, node[i].commitIndex)
                          = SubSeq(node[j].log, 1, node[i].commitIndex)
  BY DEF LeaderCompleteness
<1>1. PICK voted, bid, led, acked : Explains(node, msgs, voted, bid, led, acked)
  BY DEF History
<1>. DEFINE a == node[i].log
            t == node[i].currentTerm
            c == node[i].commitIndex
            T == node[j].currentTerm
<1>2. /\ Core(node, voted, bid, led, acked) /\ IsLed(led) /\ a \in Seq(Entry) /\ c \in Nat
      /\ t \in Nat /\ T \in Nat /\ CommitOK(led, acked, a, t, c) /\ node[j].log \in Seq(Entry)
  BY <1>1, HistoryParts, NodeFields DEF NodeOK
<1>3. node[j].log = led[T] /\ led[T] # <<>>
  BY SMTT(30), <1>2, LeaderComplete
<1>. HIDE DEF a, c, t, T
<1>4. t <= T /\ c <= c
  BY SMTT(30), <1>2 DEF t, T
<1>5. CommitOK(led, acked, a, T, c)
  BY <1>2, <1>4, CommitLess
<1>6. SameUpTo(led[T], a, c)
  BY <1>2, <1>3, <1>5, CommitInLed
<1>7. SameUpTo(a, node[j].log, c)
  BY <1>3, <1>6, SameSym
<1>8. c <= Len(node[j].log) /\ SubSeq(a, 1, c) = SubSeq(node[j].log, 1, c)
  BY <1>2, <1>7, SamePart DEF SameUpTo
<1>. QED
  BY <1>8 DEF a, c

(* What a node has applied is a prefix of its log that it knows committed. *)
LEMMA StateMachinesAreSafe == History /\ StoresConsistent => StateMachineSafety
<1>. SUFFICES ASSUME History, StoresConsistent, NEW i \in Node, NEW j \in Node
              PROVE  LET n == Smaller(Len(node[i].kv), Len(node[j].kv))
                     IN SubSeq(node[i].kv, 1, n) = SubSeq(node[j].kv, 1, n)
  BY DEF StateMachineSafety
<1>1. PICK voted, bid, led, acked : Explains(node, msgs, voted, bid, led, acked)
  BY DEF History
<1>. DEFINE n == Smaller(Len(node[i].kv), Len(node[j].kv))
<1>2. Core(node, voted, bid, led, acked) /\ IsLed(led)
  BY <1>1, HistoryParts
<1>3. ASSUME NEW v \in Node
      PROVE  LET s == node[v]
             IN /\ s.kv \in Seq(Entry) /\ Len(s.kv) \in Nat /\ s.log \in Seq(Entry)
                /\ s.currentTerm \in Nat /\ s.commitIndex \in Nat /\ Len(s.kv) <= s.commitIndex
                /\ SameUpTo(s.kv, s.log, Len(s.kv))
                /\ CommitOK(led, acked, s.log, s.currentTerm, s.commitIndex)
  <2>. DEFINE s == node[v]
  <2>1. /\ s \in NodeState /\ s.log \in Seq(Entry) /\ Len(s.log) \in Nat
        /\ s.currentTerm \in Nat /\ s.commitIndex \in Nat
        /\ CommitOK(led, acked, s.log, s.currentTerm, s.commitIndex)
    BY <1>1, HistoryParts, NodeFields DEF NodeOK
  <2>2. /\ Len(s.kv) <= s.commitIndex /\ s.commitIndex <= Len(s.log)
        /\ s.kv = SubSeq(s.log, 1, Len(s.kv))
    BY DEF StoresConsistent, LastIndex
  <2>3. s.kv \in Seq(Entry)
    BY <2>1 DEF NodeState
  <2>. HIDE DEF s
  <2>4. Len(s.kv) \in Nat /\ Len(s.kv) <= Len(s.log) /\ Len(s.kv) <= Len(s.kv)
    BY SMTT(30), <2>1, <2>2, <2>3
  <2>5. \A x \in 1..Len(s.kv) : s.kv[x] = s.log[x]
    BY SMTT(30), <2>1, <2>2, <2>4, FirstEntries
  <2>. QED
    BY <2>1, <2>2, <2>3, <2>4, <2>5 DEF s, SameUpTo
<1>4. n \in Nat /\ n <= Len(node[i].kv) /\ n <= Len(node[j].kv)
  <2>1. Len(node[i].kv) \in Nat /\ Len(node[j].kv) \in Nat
    BY <1>3
  <2>. QED
    BY SMTT(30), <2>1 DEF Smaller
<1>. HIDE DEF n
<1>5. ASSUME NEW v \in Node, n <= Len(node[v].kv)
      PROVE  /\ SameUpTo(node[v].kv, node[v].log, n)
             /\ CommitOK(led, acked, node[v].log, node[v].currentTerm, n)
  <2>. DEFINE s == node[v]
  <2>1. /\ s.kv \in Seq(Entry) /\ Len(s.kv) \in Nat /\ s.log \in Seq(Entry)
        /\ s.currentTerm \in Nat /\ s.commitIndex \in Nat /\ Len(s.kv) <= s.commitIndex
        /\ SameUpTo(s.kv, s.log, Len(s.kv))
        /\ CommitOK(led, acked, s.log, s.currentTerm, s.commitIndex)
    BY <1>3
  <2>. HIDE DEF s
  <2>2. n <= s.commitIndex /\ s.currentTerm <= s.currentTerm /\ n <= Len(s.kv)
    BY SMTT(30), <1>4, <1>5, <2>1 DEF s
  <2>. QED
    BY <1>2, <1>4, <2>1, <2>2, SameLess, CommitLess DEF s
<1>6. SameUpTo(node[i].log, node[j].log, n)
  BY <1>2, <1>3, <1>4, <1>5, CommitsAgree
<1>7. SameUpTo(node[i].kv, node[j].kv, n)
  <2>1. SameUpTo(node[i].kv, node[i].log, n) /\ SameUpTo(node[j].kv, node[j].log, n)
    BY <1>4, <1>5
  <2>2. SameUpTo(node[i].kv, node[j].log, n)
    BY <1>6, <2>1, SameTrans
  <2>. QED
    BY <2>1, <2>2, SameSym, SameTrans
<1>8. SubSeq(node[i].kv, 1, n) = SubSeq(node[j].kv, 1, n)
  BY <1>3, <1>4, <1>7, SamePart
<1>. QED
  BY <1>8 DEF n

(* What CommittedOnQuorum takes from the size of sets of nodes.            *)
Supersets ==
    /\ Quorum(Node)
    /\ \A P \in SUBSET Node, Q \in SUBSET Node : Quorum(P) /\ P \subseteq Q => Quorum(Q)

(* The quorum that acknowledged a committed entry still holds it.          *)
LEMMA CommitsAreHeld == History /\ Supersets => CommittedOnQuorum
<1>. SUFFICES ASSUME History, Supersets, NEW i \in Node
              PROVE  LET committed == SubSeq(node[i].log, 1, node[i].commitIndex)
                         holders == {j \in Node :
                                       /\ Len(committed) <= Len(node[j].log)
                                       /\ SubSeq(node[j].log, 1, Len(committed)) = committed}
                     IN Cardinality(holders) >= QuorumSize
  BY DEF CommittedOnQuorum
<1>1. PICK voted, bid, led, acked : Explains(node, msgs, voted, bid, led, acked)
  BY DEF History
<1>. DEFINE a == node[i].log
            c == node[i].commitIndex
            committed == SubSeq(a, 1, c)
            holders == {j \in Node : /\ Len(committed) <= Len(node[j].log)
                                     /\ SubSeq(node[j].log, 1, Len(committed)) = committed}
<1>2. /\ Core(node, voted, bid, led, acked) /\ IsLed(led)
      /\ a \in Seq(Entry) /\ Len(a) \in Nat /\ c \in Nat
      /\ CommitOK(led, acked, a, node[i].currentTerm, c)
      /\ \A j \in Node : node[j].log \in Seq(Entry) /\ Len(node[j].log) \in Nat
  BY <1>1, HistoryParts, NodeFields DEF NodeOK
<1>. HIDE DEF a, c
<1>3. c <= Len(a)
  <2>1. CASE c = 0
    BY SMTT(30), <1>2, <2>1
  <2>2. CASE c > 0
    BY <1>2, <2>2 DEF CommitOK, SameUpTo
  <2>. QED
    BY SMTT(30), <1>2, <2>1, <2>2
<1>4. committed \in Seq(Entry) /\ Len(committed) = c
  BY <1>2, <1>3, FirstEntries
<1>5. ASSUME NEW j \in Node, SameUpTo(node[j].log, a, c) PROVE j \in holders
  <2>1. c <= Len(node[j].log)
    BY <1>5 DEF SameUpTo
  <2>2. SubSeq(node[j].log, 1, c) = committed
    BY <1>2, <1>5, SamePart
  <2>. HIDE DEF committed
  <2>. QED
    BY <1>4, <2>1, <2>2
<1>6. \E Q \in SUBSET Node : Quorum(Q) /\ \A j \in Q : SameUpTo(node[j].log, a, c)
  <2>1. CASE c = 0
    <3>1. \A j \in Node : SameUpTo(node[j].log, a, c)
      BY SMTT(30), <1>2, <2>1 DEF SameUpTo
    <3>. QED
      BY <3>1 DEF Supersets
  <2>2. CASE c > 0
    <3>1. PICK u \in 0..node[i].currentTerm, l \in Nat :
            /\ l >= c /\ Committed(led, acked, u, l) /\ SameUpTo(led[u], a, c)
      BY <1>2, <2>2 DEF CommitOK
    <3>2. u \in Nat /\ c <= l
      BY SMTT(30), <1>1, <1>2, <3>1
    <3>3. PICK Q \in SUBSET Node : Quorum(Q) /\ \A v \in Q : acked[u][v] >= l
      BY <3>1 DEF Committed
    <3>4. ASSUME NEW j \in Q PROVE SameUpTo(node[j].log, a, c)
      <4>1. SameUpTo(led[u], node[j].log, l)
        BY <1>2, <3>1, <3>2, <3>3, CommittedStays
      <4>2. SameUpTo(led[u], node[j].log, c)
        BY <1>2, <3>2, <4>1, SameLess DEF IsLed
      <4>. QED
        BY <3>1, <4>2, SameSym, SameTrans
    <3>. QED
      BY <3>3, <3>4
  <2>. QED
    BY SMTT(30), <1>2, <2>1, <2>2
<1>7. PICK Q \in SUBSET Node : Quorum(Q) /\ \A j \in Q : SameUpTo(node[j].log, a, c)
  BY <1>6
<1>8. Q \subseteq holders /\ holders \in SUBSET Node
  BY <1>5, <1>7
<1>. HIDE DEF holders
<1>9. Cardinality(holders) >= QuorumSize
  BY <1>7, <1>8 DEF Supersets, Quorum
<1>. QED
  BY <1>9 DEF holders, committed, a, c

(* What a peer acknowledged it holds until it moves on.                    *)
LEMMA MatchesAreSound == History => MatchIndexSound
<1>. SUFFICES ASSUME History, NEW i \in Node, NEW j \in Node,
                     node[i].state = "LEADER", node[j].currentTerm <= node[i].currentTerm
              PROVE  /\ node[i].matchIndex[j] <= Len(node[j].log)
                     /\ SubSeq(node[j].log, 1, node[i].matchIndex[j])
                          = SubSeq(node[i].log, 1, node[i].matchIndex[j])
  BY DEF MatchIndexSound
<1>1. PICK voted, bid, led, acked : Explains(node, msgs, voted, bid, led, acked)
  BY DEF History
<1>. DEFINE T == node[i].currentTerm
            k == node[i].matchIndex[j]
            a == node[j].log
            b == node[i].log
<1>2. /\ IsLed(led) /\ T \in Nat /\ node[j].currentTerm \in Nat /\ k \in Nat
      /\ a \in Seq(Entry) /\ b \in Seq(Entry) /\ Len(a) \in Nat /\ Len(b) \in Nat
      /\ acked[T][j] \in Nat /\ k <= acked[T][j] /\ b = led[T]
      /\ AcksOK(led, acked, j, node[j])
  <2>1. /\ IsLed(led) /\ IsAcked(acked) /\ node[i] \in NodeState /\ node[j] \in NodeState
        /\ NodeOK(voted, bid, led, acked, i, node[i])
        /\ NodeOK(voted, bid, led, acked, j, node[j])
    BY <1>1, HistoryParts
  <2>2. /\ T \in Nat /\ node[j].currentTerm \in Nat /\ k \in Nat
        /\ a \in Seq(Entry) /\ b \in Seq(Entry) /\ Len(a) \in Nat /\ Len(b) \in Nat
    BY Zenon, <2>1, NodeFields
  <2>3. LeaderOK(voted, led, acked, i, node[i]) /\ AcksOK(led, acked, j, node[j])
    BY Zenon, <2>1 DEF NodeOK
  <2>4. k <= acked[T][j] /\ b = led[T]
    BY Zenon, <2>3 DEF LeaderOK
  <2>5. acked[T][j] \in Nat
    BY Zenon, <2>1, <2>2 DEF IsAcked
  <2>. QED
    BY Zenon, <2>1, <2>2, <2>3, <2>4, <2>5
<1>. HIDE DEF T, k, a, b
<1>3. SameUpTo(a, b, k)
  <2>1. CASE k = 0
    BY SMTT(30), <1>2, <2>1 DEF SameUpTo
  <2>2. CASE k # 0
    <3>1. acked[T][j] > 0
      BY SMTT(30), <1>2, <2>2
    <3>2. T <= node[j].currentTerm
      BY <1>2, <3>1 DEF AcksOK
    <3>3. T = node[j].currentTerm
      BY SMTT(30), <1>2, <3>2 DEF T
    <3>4. SameUpTo(led[T], node[j].log, acked[T][j])
      BY <1>2, <3>1, <3>3 DEF AcksOK
    <3>5. SameUpTo(b, a, acked[T][j])
      BY <1>2, <3>4 DEF a
    <3>. QED
      BY <1>2, <3>5, SameLess, SameSym
  <2>. QED
    BY <2>1, <2>2
<1>4. k <= Len(a) /\ SubSeq(a, 1, k) = SubSeq(b, 1, k)
  BY <1>2, <1>3, SamePart DEF SameUpTo
<1>. QED
  BY <1>4 DEF k, a, b

(* A request is a piece of the log of a leader, whose terms are ordered.   *)
LEMMA RequestIsValid ==
    ASSUME NEW log \in Seq(Entry), NEW m \in AppendEntriesMsg, Ordered(m.term, log),
           log # <<>>, m.prevLogIndex + Len(m.entries) <= Len(log),
           m.prevLogTerm = TermAt(log, m.prevLogIndex),
           \A x \in 1..Len(m.entries) : m.entries[x] = log[m.prevLogIndex + x]
    PROVE  ValidAppendEntries(m)
<1>. DEFINE T == m.term
            p == m.prevLogIndex
            E == Len(m.entries)
            term(k) == IF k = 0 THEN m.prevLogTerm ELSE m.entries[k].term
<1>1. /\ T \in Nat /\ p \in Nat /\ m.entries \in Seq(Entry)
  BY DEF AppendEntriesMsg
<1>2. E \in Nat /\ Len(log) \in Nat /\ Len(log) > 0 /\ p <= Len(log)
  BY SMTT(30), <1>1
<1>3. /\ \A k \in 1..Len(log) : log[k].term \in 1..T
      /\ \A k, l \in 1..Len(log) : k <= l => log[k].term <= log[l].term
  BY DEF Ordered
<1>4. T > 0
  <2>1. 1 \in 1..Len(log)
    BY SMTT(30), <1>2
  <2>2. log[1].term \in 1..T
    BY <1>3, <2>1
  <2>. QED
    BY SMTT(30), <1>1, <2>2
<1>5. ASSUME NEW k \in 0..E
      PROVE  /\ k + p = 0 => term(k) = 0
             /\ k + p # 0 => k + p \in 1..Len(log) /\ term(k) = log[k + p].term
  <2>1. k = 0 => term(k) = TermAt(log, p)
    OBVIOUS
  <2>2. k # 0 => k \in 1..E /\ term(k) = m.entries[k].term
    BY SMTT(30), <1>2
  <2>3. k # 0 => term(k) = log[p + k].term
    BY <2>2
  <2>4. /\ p + k = k + p /\ k + p \in Nat /\ k + p <= Len(log)
        /\ k = 0 => k + p = p
    BY SMTT(30), <1>1, <1>2
  <2>. HIDE DEF term, p
  <2>5. CASE k = 0
    BY SMTT(30), <1>1, <1>2, <2>1, <2>4, <2>5 DEF TermAt
  <2>6. CASE k # 0
    BY SMTT(30), <1>1, <1>2, <2>3, <2>4, <2>6
  <2>. QED
    BY <2>5, <2>6
<1>. HIDE DEF term, p, E
<1>6. ASSUME NEW k \in 0..E, k + p # 0 PROVE term(k) \in 1..T
  BY <1>3, <1>5, <1>6
<1>7. ASSUME NEW k \in 1..E PROVE term(k) \in 1..T /\ term(k - 1) <= term(k)
  <2>1. k \in 0..E /\ k - 1 \in 0..E /\ k + p # 0 /\ (k - 1) + p <= k + p
    BY SMTT(30), <1>1, <1>2 DEF E, p
  <2>2. term(k) \in 1..T /\ k + p \in 1..Len(log) /\ term(k) = log[k + p].term
    BY <1>5, <1>6, <2>1
  <2>3. CASE (k - 1) + p = 0
    <3>1. term(k - 1) = 0
      BY <1>5, <2>1, <2>3
    <3>. QED
      BY SMTT(30), <1>1, <2>2, <3>1
  <2>4. CASE (k - 1) + p # 0
    <3>1. (k - 1) + p \in 1..Len(log) /\ term(k - 1) = log[(k - 1) + p].term
      BY <1>5, <2>1, <2>4
    <3>. QED
      BY <1>3, <2>1, <2>2, <3>1
  <2>. QED
    BY <2>3, <2>4
<1>8. 0 \in 0..E /\ 0 + p = p /\ term(0) = m.prevLogTerm
  BY SMTT(30), <1>1, <1>2 DEF E, p, term
<1>9. /\ p = 0 => m.prevLogTerm = 0
      /\ p # 0 => m.prevLogTerm \in 1..T
  BY <1>5, <1>6, <1>8
<1>10. m.prevLogTerm \in 0..T /\ ((p = 0) <=> (m.prevLogTerm = 0))
  BY SMTT(30), <1>1, <1>9
<1>. QED
  BY <1>4, <1>7, <1>10 DEF ValidAppendEntries, term, p, E

(* Every request in transit is accepted by the checks of its receiver.     *)
LEMMA RequestsPass == History /\ TypeOK => RequestsAreValid
<1>. SUFFICES ASSUME History, TypeOK, NEW m \in msgs
              PROVE  /\ m.type = "RequestVote" => ValidRequestVote(m)
                     /\ m.type = "AppendEntries" => ValidAppendEntries(m)
                     /\ m.type = "InstallSnapshot" => ValidInstallSnapshot(m)
  BY DEF RequestsAreValid
<1>1. PICK voted, bid, led, acked : Explains(node, msgs, voted, bid, led, acked)
  BY DEF History
<1>2. /\ IsLed(led) /\ Logs(bid, led) /\ MessageOK(node, voted, bid, led, acked, m)
      /\ m \in Message
  BY <1>1, HistoryParts DEF TypeOK
<1>3. ASSUME m.type = "RequestVote" PROVE ValidRequestVote(m)
  BY <1>2, <1>3 DEF MessageOK, ValidRequestVote
<1>4. ASSUME m.type = "AppendEntries" PROVE ValidAppendEntries(m)
  <2>1. m \in AppendEntriesMsg
    BY <1>2, <1>4 DEF Message, RequestVoteMsg, RequestVoteResponseMsg, AppendEntriesMsg,
           AppendEntriesResponseMsg, InstallSnapshotMsg, InstallSnapshotResponseMsg
  <2>2. m.term \in Nat
    BY <2>1 DEF AppendEntriesMsg
  <2>3. RequestOK(voted, led, acked, m) /\ led[m.term] \in Seq(Entry) /\ Ordered(m.term, led[m.term])
    BY <1>2, <1>4, <2>2 DEF MessageOK, IsLed, Logs
  <2>. DEFINE log == led[m.term]
  <2>4. /\ log # <<>> /\ m.prevLogIndex + Len(m.entries) <= Len(log)
        /\ m.prevLogTerm = TermAt(log, m.prevLogIndex)
        /\ \A x \in 1..Len(m.entries) : m.entries[x] = log[m.prevLogIndex + x]
    BY <1>4, <2>3 DEF RequestOK
  <2>. HIDE DEF log
  <2>5. log \in Seq(Entry) /\ Ordered(m.term, log)
    BY <2>3 DEF log
  <2>. QED
    BY <2>1, <2>4, <2>5, RequestIsValid
<1>5. ASSUME m.type = "InstallSnapshot" PROVE ValidInstallSnapshot(m)
  <2>1. m \in InstallSnapshotMsg
    BY <1>2, <1>5 DEF Message, RequestVoteMsg, RequestVoteResponseMsg, AppendEntriesMsg,
           AppendEntriesResponseMsg, InstallSnapshotMsg, InstallSnapshotResponseMsg
  <2>2. m.term \in Nat /\ m.lastIncludedIndex \in Nat
    BY <2>1 DEF InstallSnapshotMsg
  <2>. DEFINE log == led[m.term]
              k == m.lastIncludedIndex
  <2>3. RequestOK(voted, led, acked, m) /\ log \in Seq(Entry) /\ Ordered(m.term, log)
    BY <1>2, <1>5, <2>2 DEF MessageOK, IsLed, Logs
  <2>4. k > 0 /\ k <= Len(log) /\ m.lastIncludedTerm = log[k].term
    BY <1>5, <2>3 DEF RequestOK, SameUpTo
  <2>. HIDE DEF log, k
  <2>5. k \in 1..Len(log)
    BY SMTT(30), <2>2, <2>3, <2>4 DEF k
  <2>6. log[k].term \in 1..m.term
    BY <2>3, <2>5 DEF Ordered
  <2>7. m.term > 0
    BY SMTT(30), <2>2, <2>6
  <2>. QED
    BY <2>4, <2>6, <2>7 DEF ValidInstallSnapshot, k
<1>. QED
  BY <1>3, <1>4, <1>5

(* The empty history explains the processes as they start.                 *)
LEMMA InitHistory == Majorities /\ Init => History
<1>. SUFFICES ASSUME Majorities, Init PROVE History
  OBVIOUS
<1>. DEFINE voted == [v \in Node |-> [t \in Nat |-> None]]
            bid == [v \in Node |-> [t \in Nat |-> <<>>]]
            led == [t \in Nat |-> <<>>]
            acked == [t \in Nat |-> [v \in Node |-> 0]]
<1>1. /\ <<>> \in Seq(Entry) /\ Len(<<>>) = 0 /\ (1..Len(<<>>)) = {}
      /\ ~(0 > 0) /\ 0 \in Nat
  BY SMTT(30)
<1>2. /\ \A v \in Node, t \in Nat : voted[v][t] = None /\ bid[v][t] = <<>> /\ acked[t][v] = 0
      /\ \A t \in Nat : led[t] = <<>>
  OBVIOUS
<1>. HIDE DEF voted, bid, led, acked
<1>3. \A i \in Node : /\ node[i] \in NodeState /\ node[i].currentTerm = 0
                      /\ node[i].votedFor = None /\ node[i].log = <<>>
                      /\ node[i].state = "FOLLOWER" /\ node[i].commitIndex = 0
                      /\ \A j \in Node : node[i].inflight[j] = None
  <2>. SUFFICES ASSUME NEW i \in Node
                PROVE  /\ node[i] \in NodeState /\ node[i].currentTerm = 0
                       /\ node[i].votedFor = None /\ node[i].log = <<>>
                       /\ node[i].state = "FOLLOWER" /\ node[i].commitIndex = 0
                       /\ \A j \in Node : node[i].inflight[j] = None
    OBVIOUS
  <2>1. node[i] = [currentTerm |-> 0, votedFor |-> None, log |-> <<>>,
                   snapshotIndex |-> 0, kv |-> <<>>, state |-> "FOLLOWER",
                   leaderId |-> None, votes |-> {}, commitIndex |-> 0,
                   applyTo |-> 0, nextIndex |-> [j \in Node |-> 1],
                   matchIndex |-> [j \in Node |-> 0], inflight |-> NoRpc]
    BY DEF Init
  <2>. QED
    BY SMTT(30), <1>1, <2>1 DEF NodeState, State, NoRpc
<1>4. IsVoted(voted) /\ IsBid(bid) /\ IsLed(led) /\ IsAcked(acked)
  BY <1>1, <1>2 DEF IsVoted, IsBid, IsLed, IsAcked
<1>5. Faithful(led, <<>>) /\ \A t \in Nat : Ordered(t, <<>>)
  BY <1>1 DEF Faithful, Ordered
<1>6. ASSUME NEW i \in Node PROVE NodeOK(voted, bid, led, acked, i, node[i])
  <2>1. 0 \in Nat /\ "FOLLOWER" # "CANDIDATE" /\ "FOLLOWER" # "LEADER"
    BY SMTT(30)
  <2>2. VoterOK(voted, i, node[i])
    BY <1>2, <1>3, <2>1 DEF VoterOK
  <2>3. CandidateOK(voted, bid, i, node[i]) /\ LeaderOK(voted, led, acked, i, node[i])
    BY <1>3, <2>1 DEF CandidateOK, LeaderOK
  <2>4. LogOK(led, node[i])
    BY <1>1, <1>3, <1>5 DEF LogOK
  <2>5. AcksOK(led, acked, i, node[i])
    BY <1>1, <1>2 DEF AcksOK
  <2>6. CommitOK(led, acked, node[i].log, node[i].currentTerm, node[i].commitIndex)
    BY <1>1, <1>3 DEF CommitOK
  <2>7. FlightOK(voted, led, acked, node[i])
    BY <1>3 DEF FlightOK
  <2>. QED
    BY <2>2, <2>3, <2>4, <2>5, <2>6, <2>7 DEF NodeOK
<1>7. Standing(node, voted)
  BY <1>2, NodeAssumption DEF Standing
<1>8. Owned(node, voted, led) /\ Logs(bid, led)
  BY <1>2, <1>5 DEF Owned, Logs
<1>9. Entries(node, voted, bid, led, acked)
  BY <1>1, <1>2 DEF Entries
<1>10. Core(node, voted, bid, led, acked)
  BY <1>3, <1>4, <1>6, <1>7, <1>8, <1>9 DEF Core, Types
<1>11. Explains(node, msgs, voted, bid, led, acked)
  BY <1>10 DEF Explains, Init
<1>. QED
  BY <1>11 DEF History
=============================================================================
