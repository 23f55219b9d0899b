---------------------------- MODULE RaftHistory ----------------------------
(***************************************************************************)
(* The history behind a state of RaftNode, and what it explains about the  *)
(* state.  The code keeps no history: the invariant History says that some *)
(* history fits the present state and messages.                            *)
(*                                                                         *)
(*   voted[v][t]  whom v voted for in term t                               *)
(*   bid[i][t]    the log i stood for election with in term t              *)
(*   led[t]       the log of the leader of term t, as long as it ever was; *)
(*                empty if nobody has led t                                *)
(*   acked[t][v]  how far v has acknowledged that log                      *)
(*                                                                         *)
(* The operators take the node states n and the parts of the history they  *)
(* depend on, so that they can also speak of the states inside a callback. *)
(***************************************************************************)
EXTENDS RaftNodeState

Quorum(Q) == Q \in SUBSET Node /\ Cardinality(Q) >= QuorumSize

(* What the argument takes from the cardinality of sets of nodes: any two  *)
(* quorums share a node.  It is proved in RaftNodeProofs (QuorumsMeet), and*)
(* is part of the history so that every step of the argument has it.       *)
Majorities ==
    /\ QuorumSize \in Nat
    /\ \A i \in Node : Cardinality({i}) = 1
    /\ \A Q \in SUBSET Node : Cardinality(Q) \in Nat
    /\ \A P \in SUBSET Node, Q \in SUBSET Node :
         Quorum(P) /\ Quorum(Q) => \E v \in Node : v \in P /\ v \in Q

Elected(voted, i, t) == \E Q \in SUBSET Node : Quorum(Q) /\ \A v \in Q : voted[v][t] = i

(* a and b have k entries and agree on them.                               *)
SameUpTo(a, b, k) == k <= Len(a) /\ k <= Len(b) /\ \A x \in 1..k : a[x] = b[x]

TermAt(log, k) == IF k = 0 THEN 0 ELSE log[k].term

(* An entry of a log came from the leader of its term, with all before it. *)
Faithful(led, log) == \A k \in 1..Len(log) : SameUpTo(log, led[log[k].term], k)

IsVoted(voted) == \A v \in Node, t \in Nat : voted[v][t] \in Node \cup {None}
IsBid(bid) == \A i \in Node, t \in Nat : bid[i][t] \in Seq(Entry)
IsLed(led) == \A t \in Nat : led[t] \in Seq(Entry)
IsAcked(acked) == \A t \in Nat, v \in Node : acked[t][v] \in Nat

Types(n, voted, bid, led, acked) ==
    /\ Majorities
    /\ \A i \in Node : n[i] \in NodeState
    /\ IsVoted(voted) /\ IsBid(bid) /\ IsLed(led) /\ IsAcked(acked)

(* v votes once in a term, and never in a term it has not reached.         *)
VoterOK(voted, v, s) ==
    /\ voted[v][s.currentTerm] = s.votedFor
    /\ \A t \in Nat : t > s.currentTerm => voted[v][t] = None

(* A candidate counts real votes.  Its log is the one it asked for them    *)
(* with, unless the term has another leader (a snapshot of which a         *)
(* candidate may install).                                                 *)
CandidateOK(voted, bid, i, s) ==
    s.state = "CANDIDATE"
        => /\ s.currentTerm > 0
           /\ \A v \in s.votes : voted[v][s.currentTerm] = i
           /\ \/ s.log = bid[i][s.currentTerm]
              \/ \E j \in Node \ {i} : Elected(voted, j, s.currentTerm)

LeaderOK(voted, led, acked, i, s) ==
    s.state = "LEADER"
        => /\ Elected(voted, i, s.currentTerm)
           /\ s.log # <<>> /\ s.log = led[s.currentTerm]
           /\ \A v \in Node : /\ s.matchIndex[v] <= acked[s.currentTerm][v]
                              /\ s.nextIndex[v] \in 1 .. Len(s.log) + 1

LogOK(led, s) ==
    /\ Faithful(led, s.log)
    /\ \A k \in 1..Len(s.log) : s.log[k].term <= s.currentTerm

(* What a node acknowledged to a leader it still holds, until it moves on  *)
(* to a later term.                                                        *)
AcksOK(led, acked, v, s) ==
    \A t \in Nat : acked[t][v] > 0
        => /\ t <= s.currentTerm
           /\ acked[t][v] <= Len(led[t])
           /\ t = s.currentTerm => SameUpTo(led[t], s.log, acked[t][v])

(* A quorum acknowledged entry k of term t's leader, an entry of term t.   *)
Committed(led, acked, t, k) ==
    /\ k \in 1..Len(led[t])
    /\ led[t][k].term = t
    /\ \E Q \in SUBSET Node : Quorum(Q) /\ \A v \in Q : acked[t][v] >= k

(* By term t, at least k entries were committed.                           *)
KnownBy(led, acked, t, k) ==
    \E u \in 0..t : \E l \in Nat : l >= k /\ Committed(led, acked, u, l)

(* The first k entries of a log are committed by term t.                   *)
CommitOK(led, acked, log, t, k) ==
    k > 0 => \E u \in 0..t : \E l \in Nat :
               /\ l >= k
               /\ Committed(led, acked, u, l)
               /\ SameUpTo(led[u], log, k)

(* A replication request is a piece of its leader's log.                   *)
RequestOK(voted, led, acked, m) ==
    LET log == led[m.term]
    IN /\ Elected(voted, m.from, m.term) /\ m.from # m.to
       /\ log # <<>>
       /\ m.type = "AppendEntries"
            => /\ m.prevLogIndex + Len(m.entries) <= Len(log)
               /\ m.prevLogTerm = TermAt(log, m.prevLogIndex)
               /\ \A x \in 1..Len(m.entries) : m.entries[x] = log[m.prevLogIndex + x]
               /\ m.leaderCommit > 0 => KnownBy(led, acked, m.term, m.leaderCommit)
       /\ m.type = "InstallSnapshot"
            => /\ m.lastIncludedIndex = Len(m.data) /\ m.lastIncludedIndex > 0
               /\ SameUpTo(log, m.data, m.lastIncludedIndex)
               /\ m.lastIncludedTerm = log[m.lastIncludedIndex].term
               /\ KnownBy(led, acked, m.term, m.lastIncludedIndex)

FlightOK(voted, led, acked, s) ==
    \A j \in Node : s.inflight[j] # None => RequestOK(voted, led, acked, s.inflight[j])

NodeOK(voted, bid, led, acked, i, s) ==
    /\ VoterOK(voted, i, s)
    /\ CandidateOK(voted, bid, i, s)
    /\ LeaderOK(voted, led, acked, i, s)
    /\ LogOK(led, s)
    /\ AcksOK(led, acked, i, s)
    /\ CommitOK(led, acked, s.log, s.currentTerm, s.commitIndex)
    /\ FlightOK(voted, led, acked, s)

(* Nobody has a vote in a term it has not reached.                         *)
Standing(n, voted) ==
    \A v, i \in Node, t \in Nat : voted[v][t] = i => t <= n[i].currentTerm

(* A term that has a log had a leader, which will not stand in it again.   *)
Owned(n, voted, led) ==
    \A t \in Nat : led[t] # <<>>
        => \E j \in Node : /\ Elected(voted, j, t)
                           /\ t <= n[j].currentTerm
                           /\ t = n[j].currentTerm => n[j].state # "CANDIDATE"

Ordered(t, log) ==
    /\ \A k \in 1..Len(log) : log[k].term \in 1..t
    /\ \A k, l \in 1..Len(log) : k <= l => log[k].term <= log[l].term
    /\ log # <<>> => log[Len(log)].term = t

Logs(bid, led) ==
    /\ \A t \in Nat : Faithful(led, led[t]) /\ Ordered(t, led[t])
    /\ \A i \in Node, t \in Nat : Faithful(led, bid[i][t])

(* A quorum has moved on without acknowledging entry k of term t's leader. *)
Denied(n, acked, t, k) ==
    \E Q \in SUBSET Node :
        Quorum(Q) /\ \A v \in Q : n[v].currentTerm > t /\ acked[t][v] < k

(* The first k entries of term t's leader are held by whoever acknowledged *)
(* them, by all they have voted for since and by all later leaders.        *)
Carried(n, voted, bid, led, acked, t, k) ==
    /\ \A u \in Nat : u > t /\ led[u] # <<>> => SameUpTo(led[t], led[u], k)
    /\ \A v \in Node : acked[t][v] >= k
         => /\ SameUpTo(led[t], n[v].log, k)
            /\ \A i \in Node, u \in Nat :
                 u > t /\ voted[v][u] = i => SameUpTo(led[t], bid[i][u], k)

Entries(n, voted, bid, led, acked) ==
    \A t \in Nat : \A k \in 1..Len(led[t]) :
        led[t][k].term = t => \/ Denied(n, acked, t, k)
                              \/ Carried(n, voted, bid, led, acked, t, k)

AckedIndex(m) ==
    IF m.type = "AppendEntriesResponse" THEN m.request.prevLogIndex + Len(m.request.entries)
    ELSE m.request.lastIncludedIndex

MessageOK(n, voted, bid, led, acked, m) ==
    /\ m.type = "RequestVote"
         => /\ m.term > 0 /\ m.lastLogTerm \in 0..m.term
            /\ ~m.prevote
                 => /\ m.term <= n[m.from].currentTerm
                    /\ m.lastLogIndex = Len(bid[m.from][m.term])
                    /\ m.lastLogTerm = TermAt(bid[m.from][m.term], m.lastLogIndex)
    /\ m.type = "RequestVoteResponse"
         => (m.granted /\ ~m.prevote => voted[m.from][m.term] = m.to)
    /\ m.type \in {"AppendEntries", "InstallSnapshot"} => RequestOK(voted, led, acked, m)
    /\ m.type \in {"AppendEntriesResponse", "InstallSnapshotResponse"}
         => (m.success => AckedIndex(m) <= acked[m.term][m.from])

Core(n, voted, bid, led, acked) ==
    /\ Types(n, voted, bid, led, acked)
    /\ \A i \in Node : NodeOK(voted, bid, led, acked, i, n[i])
    /\ Standing(n, voted)
    /\ Owned(n, voted, led)
    /\ Logs(bid, led)
    /\ Entries(n, voted, bid, led, acked)

Explains(n, ms, voted, bid, led, acked) ==
    /\ Core(n, voted, bid, led, acked)
    /\ \A m \in ms : MessageOK(n, voted, bid, led, acked, m)

(* Some history explains the state.                                        *)
History ==
    \E voted, bid, led, acked : Explains(node, msgs, voted, bid, led, acked)
=============================================================================
