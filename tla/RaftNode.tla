------------------------------ MODULE RaftNode ------------------------------
(***************************************************************************)
(* The consensus core of src/raft/raft_node.cc: elections with pre-vote,   *)
(* log replication with one RPC in flight per peer, commitment, in-order   *)
(* application, log compaction with snapshot installation, and recovery.   *)
(*                                                                         *)
(* RaftNodeState has the state.  Every action is one event-loop callback   *)
(* of one process, run to its end; the operators from IsLogUpToDate to     *)
(* InstallSnapshot are the member functions it calls, written as functions *)
(* from a node state to the next one.                                      *)
(*                                                                         *)
(* A message in transit may be lost, which is decided when it is sent, or  *)
(* be delayed past later ones (a connection breaks and is replaced); an    *)
(* RPC in flight may be sent again (the retry of SendAppendEntries).       *)
(*                                                                         *)
(* Time is abstract: an election deadline may or may not have passed, and  *)
(* a leader may or may not have heard from a quorum lately.                *)
(***************************************************************************)
EXTENDS RaftNodeState, FiniteSetsExt

-----------------------------------------------------------------------------
(* Member functions, as functions of a node state s.                       *)

(* Mutant: the terms are compared the wrong way round.                     *)
UpToDateReversed(s, index, term) ==
    IF term # LastTerm(s) THEN term < LastTerm(s) ELSE index >= LastIndex(s)

IsLogUpToDate(s, index, term) ==
    IF term # LastTerm(s) THEN term > LastTerm(s) ELSE index >= LastIndex(s)

(* Mutant: stepping down within a term forgets the vote.                   *)
VoteAlwaysCleared(s, term) ==
    [s EXCEPT !.currentTerm = Larger(term, @), !.votedFor = None,
              !.state = "FOLLOWER", !.leaderId = None, !.votes = {},
              !.nextIndex = [j \in Node |-> 1],
              !.matchIndex = [j \in Node |-> 0],
              !.inflight = NoRpc]

(* Durable before anything else when the term grows.  nextIndex and        *)
(* matchIndex are dead until BecomeLeader overwrites them; clearing them   *)
(* here merges states that differ in dead values only.                     *)
BecomeFollower(s, term) ==
    [s EXCEPT !.currentTerm = Larger(term, @),
              !.votedFor = IF term > s.currentTerm THEN None ELSE @,
              !.state = "FOLLOWER", !.leaderId = None, !.votes = {},
              !.nextIndex = [j \in Node |-> 1],
              !.matchIndex = [j \in Node |-> 0],
              !.inflight = NoRpc]

(* Mutant: the vote is not saved with the term.                            *)
VoteNotSaved(s) ==
    [BecomeFollower(s, s.currentTerm) EXCEPT !.commitIndex = Len(s.kv),
                                             !.applyTo = 0, !.votedFor = None]

(* The durable part of s survives a crash; the constructor sets commitIndex*)
(* to what the state machine holds and Start enters the follower state.    *)
Recovered(s) ==
    [BecomeFollower(s, s.currentTerm) EXCEPT !.commitIndex = Len(s.kv),
                                             !.applyTo = 0]

(* Compaction after a threshold of applied entries.  A snapshot past the   *)
(* size limit, which the code skips, is not modelled.                      *)
MaybeSnapshot(s) ==
    IF /\ SnapshotThreshold > 0
       /\ s.applyTo = 0
       /\ Len(s.kv) - s.snapshotIndex >= SnapshotThreshold
    THEN [s EXCEPT !.snapshotIndex = Len(s.kv)]
    ELSE s

(* With an executor, one batch is submitted and the call returns; without  *)
(* one, every committed entry is applied at once.                          *)
ApplyCommitted(s) ==
    IF s.applyTo # 0 THEN s
    ELSE IF Len(s.kv) < s.commitIndex /\ AsyncApply
    THEN [s EXCEPT !.applyTo = Smaller(s.commitIndex,
                                       Len(s.kv) + MaxBatchEntries)]
    ELSE MaybeSnapshot(
           [s EXCEPT !.kv = @ \o SubSeq(s.log, Len(@) + 1, s.commitIndex)])

(* Mutant: the best replica counts instead of the last one of a quorum.    *)
BestMatch(s) ==
    Min({k \in 0..LastIndex(s) : \A j \in Node : s.matchIndex[j] <= k})

(* matched[QuorumSize - 1] of the match indexes sorted downwards: the      *)
(* lowest index that fewer than a quorum have got past.  None has got past *)
(* the end of the log.                                                     *)
QuorumMatch(s) ==
    Min({k \in 0..LastIndex(s) :
            \/ k = LastIndex(s)
            \/ Cardinality({j \in Node : s.matchIndex[j] > k}) < QuorumSize})

(* Mutant: entries of earlier terms are committed by counting replicas.    *)
CommitsEarlierTerms(s) ==
    ApplyCommitted([s EXCEPT !.commitIndex = Larger(@, QuorumMatch(s))])

AdvanceCommitIndex(s) ==
    LET candidate == QuorumMatch(s)
    IN ApplyCommitted(
         IF candidate > s.commitIndex /\ GetTerm(s, candidate) = s.currentTerm
         THEN [s EXCEPT !.commitIndex = candidate]
         ELSE s)

(* Mutant: the entry before the previous one is named.                     *)
PreviousOffByOne(i, s, j) ==
    LET previous == s.nextIndex[j] - 1
    IN [type |-> "AppendEntries", term |-> s.currentTerm, from |-> i, to |-> j,
        prevLogIndex |-> previous - 1, prevLogTerm |-> GetTerm(s, previous - 1),
        entries |-> SubSeq(s.log, previous + 1, LastIndex(s)),
        leaderCommit |-> s.commitIndex]

(* Mutant: the last compacted entry is taken to be in the log still.       *)
SnapshotOffByOne(i, s, j) ==
    LET previous == s.nextIndex[j] - 1
        last == Smaller(LastIndex(s), previous + MaxBatchEntries)
    IN IF s.snapshotIndex > 0 /\ s.nextIndex[j] < s.snapshotIndex
       THEN [type |-> "InstallSnapshot", term |-> s.currentTerm,
             from |-> i, to |-> j,
             lastIncludedIndex |-> s.snapshotIndex,
             lastIncludedTerm |-> GetTerm(s, s.snapshotIndex),
             data |-> SubSeq(s.log, 1, s.snapshotIndex)]
       ELSE [type |-> "AppendEntries", term |-> s.currentTerm,
             from |-> i, to |-> j,
             prevLogIndex |-> previous,
             prevLogTerm |-> GetTerm(s, previous),
             entries |-> SubSeq(s.log, s.nextIndex[j], last),
             leaderCommit |-> s.commitIndex]

(* The RPC SendAppendEntries builds for an idle peer j: the snapshot when  *)
(* the next entry has been compacted, otherwise a batch of entries.        *)
NewRpc(i, s, j) ==
    LET previous == s.nextIndex[j] - 1
        last == Smaller(LastIndex(s), previous + MaxBatchEntries)
    IN IF s.snapshotIndex > 0 /\ s.nextIndex[j] <= s.snapshotIndex
       THEN [type |-> "InstallSnapshot", term |-> s.currentTerm,
             from |-> i, to |-> j,
             lastIncludedIndex |-> s.snapshotIndex,
             lastIncludedTerm |-> GetTerm(s, s.snapshotIndex),
             data |-> SubSeq(s.log, 1, s.snapshotIndex)]
       ELSE [type |-> "AppendEntries", term |-> s.currentTerm,
             from |-> i, to |-> j,
             prevLogIndex |-> previous,
             prevLogTerm |-> GetTerm(s, previous),
             entries |-> SubSeq(s.log, s.nextIndex[j], last),
             leaderCommit |-> s.commitIndex]

(* SendAppendEntries for every peer in P.  A peer with an RPC in flight    *)
(* gets at most a retransmission; a peer that is not in `up' has no        *)
(* connection, so Send fails and nothing is in flight.                     *)
SendAppendEntries(i, s, P, up) ==
    [s EXCEPT !.inflight =
        [j \in Node |-> IF j \in (P \cap up) \ {i} /\ @[j] = None
                        THEN NewRpc(i, s, j) ELSE @[j]]]

BroadcastAppendEntries(i, s, up) == SendAppendEntries(i, s, Node, up)

(* Admission limits are not modelled here.                                 *)
ProposeBatch(i, s, cmds, up) ==
    LET entries == [k \in 1..Len(cmds) |-> [term |-> s.currentTerm, cmd |-> cmds[k]]]
        appended == [s EXCEPT !.log = @ \o entries,
                              !.matchIndex[i] = LastIndex(s) + Len(cmds)]
    IN AdvanceCommitIndex(BroadcastAppendEntries(i, appended, up))

BecomeLeader(i, s, up) ==
    LET led == [s EXCEPT !.state = "LEADER", !.leaderId = i,
                         !.nextIndex = [j \in Node |-> LastIndex(s) + 1],
                         !.matchIndex = [j \in Node |->
                                           IF j = i THEN LastIndex(s) ELSE 0],
                         !.inflight = NoRpc]
    IN ProposeBatch(i, led, <<NoOp>>, up)

BecomeCandidate(i, s, up) ==
    LET c == [s EXCEPT !.currentTerm = @ + 1, !.votedFor = i,
                       !.state = "CANDIDATE", !.leaderId = None, !.votes = {i}]
    IN IF QuorumSize = 1 THEN BecomeLeader(i, c, up) ELSE c

BecomePreCandidate(i, s, up) ==
    IF QuorumSize = 1 THEN BecomeCandidate(i, s, up)
    ELSE [s EXCEPT !.state = "PRE_CANDIDATE", !.leaderId = None, !.votes = {i}]

(* Mutant: the term of the previous entry is not compared.                 *)
PrefixLongEnough(s, m) == m.prevLogIndex <= LastIndex(s)

(* The consistency check of an append request.                             *)
PrefixMatches(s, m) == GetTerm(s, m.prevLogIndex) = m.prevLogTerm

(* The indexes of the request whose entry contradicts the one held here.   *)
Conflicts(s, m) ==
    {k \in m.prevLogIndex + 1 .. m.prevLogIndex + Len(m.entries) :
        GetTerm(s, k) \notin {-1, m.entries[k - m.prevLogIndex].term}}

(* Otherwise the handler throws "attempt to replace committed Raft entry"  *)
(* and the process stops.                                                  *)
KeepsCommitted(s, m) == \A k \in Conflicts(s, m) : k > s.commitIndex

(* TruncateSuffix at the first conflict.                                   *)
Truncated(s, m) ==
    IF Conflicts(s, m) = {} THEN s.log
    ELSE SubSeq(s.log, 1, Min(Conflicts(s, m)) - 1)

(* Then AppendBatch of the entries past the end.                           *)
Appended(s, m) ==
    LET kept == Truncated(s, m)
    IN kept \o SubSeq(m.entries, Len(kept) - m.prevLogIndex + 1, Len(m.entries))

AcceptEntries(s, m) ==
    LET matched == m.prevLogIndex + Len(m.entries)
    IN ApplyCommitted(
         [s EXCEPT !.log = Appended(s, m),
                   !.commitIndex = Larger(@, Smaller(m.leaderCommit, matched))])

(* The lowest index of the run of entries of the term at index, or the     *)
(* snapshot index if the run goes on into the snapshot.                    *)
ConflictIndex(s, index) ==
    Min({k \in Larger(1, s.snapshotIndex) .. index :
            \A l \in k..index : GetTerm(s, l) = GetTerm(s, index)})

(* last_log_index of a response that rejects the request's prefix.         *)
RejectHint(s, m) ==
    LET conflict == IF GetTerm(s, m.prevLogIndex) > 0
                    THEN ConflictIndex(s, m.prevLogIndex)
                    ELSE s.snapshotIndex
    IN IF m.prevLogIndex > LastIndex(s) THEN LastIndex(s)
       ELSE IF conflict > 0 THEN conflict - 1 ELSE 0

(* Mutant: the installed state is added to the old one.                    *)
InstallMerges(s, m) ==
    [s EXCEPT !.kv = @ \o m.data, !.log = m.data,
              !.snapshotIndex = m.lastIncludedIndex,
              !.commitIndex = Larger(@, m.lastIncludedIndex)]

(* Mutant: the commit index stays behind the installed state.              *)
InstallNotCommitted(s, m) ==
    [s EXCEPT !.kv = m.data, !.log = m.data, !.snapshotIndex = m.lastIncludedIndex]

(* The install is redone after a crash from a durable intent, so that it   *)
(* is atomic here.                                                         *)
InstallSnapshot(s, m) ==
    LET keepSuffix == /\ m.lastIncludedIndex <= LastIndex(s)
                      /\ GetTerm(s, m.lastIncludedIndex) = m.lastIncludedTerm
    IN [s EXCEPT !.kv = m.data,
                 !.log = IF keepSuffix
                         THEN m.data \o SubSeq(@, m.lastIncludedIndex + 1, Len(@))
                         ELSE m.data,
                 !.snapshotIndex = m.lastIncludedIndex,
                 !.commitIndex = Larger(@, m.lastIncludedIndex)]

-----------------------------------------------------------------------------
(* Actions.  Step ends a callback of process i: its new state, the message *)
(* it handled, and those it sent, any of which may get lost.               *)

Step(i, s, received, sent) ==
    /\ node' = [node EXCEPT ![i] = s]
    /\ \E arriving \in SUBSET sent : msgs' = (msgs \ received) \cup arriving

(* What SendAppendEntries puts on the wire to the peers in P: a new RPC,   *)
(* or the one in flight once more.                                         *)
Rpcs(s, P) == {s.inflight[j] : j \in P} \ {None}

VoteRequest(i, s, prevote, j) ==
    [type |-> "RequestVote", from |-> i, to |-> j, prevote |-> prevote,
     term |-> IF prevote THEN s.currentTerm + 1 ELSE s.currentTerm,
     lastLogIndex |-> LastIndex(s), lastLogTerm |-> LastTerm(s)]

VoteResponse(i, s, m, granted) ==
    [type |-> "RequestVoteResponse", term |-> s.currentTerm, from |-> i,
     to |-> m.from, prevote |-> m.prevote, granted |-> granted]

(* The broadcast of a node that just became pre-candidate or candidate.    *)
Campaign(i, s, up) ==
    {VoteRequest(i, s, s.state = "PRE_CANDIDATE", j) :
        j \in {k \in up \ {i} : s.state \in {"PRE_CANDIDATE", "CANDIDATE"}}}

(* Tick of a node that is not leader and whose election deadline passed.   *)
ElectionTimeout(i) ==
    /\ node[i].state # "LEADER"
    /\ node[i].currentTerm < MaxTerm
    /\ \E up \in Links :
         LET s == BecomePreCandidate(i, node[i], up)
         IN Step(i, s, {}, Campaign(i, s, up))

(* Tick of a leader: RPCs to idle peers, retries, then CheckQuorum.        *)
LeaderTick(i) ==
    /\ node[i].state = "LEADER"
    /\ \E up \in Links :
         LET s == BroadcastAppendEntries(i, node[i], up)
         IN \/ Step(i, s, {}, Rpcs(s, up))
            \/ /\ QuorumSize > 1
               /\ Step(i, BecomeFollower(s, s.currentTerm), {}, Rpcs(s, up))

ClientPropose(i) ==
    /\ node[i].state = "LEADER"
    /\ \E n \in 1..MaxBatchEntries : \E cmds \in [1..n -> Command] :
         /\ LastIndex(node[i]) + n <= MaxLogLength
         /\ \E up \in Links :
              LET s == ProposeBatch(i, node[i], cmds, up)
              IN Step(i, s, {}, Rpcs(s, up))

(* FinishApply on the owner thread after the executor's durable write.     *)
FinishApply(i) ==
    LET s == node[i]
    IN /\ s.applyTo # 0
       /\ Step(i, ApplyCommitted(
                    [s EXCEPT !.kv = @ \o SubSeq(s.log, Len(@) + 1, s.applyTo),
                              !.applyTo = 0]), {}, {})

(* A crash between callbacks, and the recovery from disk.                  *)
Restart(i) == Step(i, ApplyCommitted(Recovered(node[i])), {}, {})

-----------------------------------------------------------------------------
(* Message handlers.                                                       *)

(* A leader never grants a pre-vote.  A follower whose leader's deadline   *)
(* has not passed refuses everybody else and keeps its term.  A pre-vote   *)
(* grant changes nothing; a real vote is durable before the reply.         *)
HandleRequestVote(i, m) ==
    LET s == node[i]
        leaderRefuses == m.prevote /\ s.state = "LEADER"
        follower == IF m.term > s.currentTerm THEN BecomeFollower(s, m.term) ELSE s
        upToDate == IsLogUpToDate(s, m.lastLogIndex, m.lastLogTerm)
        grant == /\ m.term = follower.currentTerm
                 /\ follower.votedFor \in {None, m.from}
                 /\ upToDate
    IN /\ ValidRequestVote(m)
       /\ \/ /\ \/ leaderRefuses
                \/ s.state = "FOLLOWER" /\ s.leaderId \notin {None, m.from}
             /\ Step(i, s, {m}, {VoteResponse(i, s, m, FALSE)})
          \/ /\ m.prevote /\ ~leaderRefuses
             /\ Step(i, s, {m}, {VoteResponse(i, s, m, m.term > s.currentTerm /\ upToDate)})
          \/ /\ ~m.prevote
             /\ Step(i, IF grant THEN [follower EXCEPT !.votedFor = m.from] ELSE follower,
                     {m}, {VoteResponse(i, follower, m, grant)})

(* Pre-vote grants are not tied to a pre-vote round: one that was delayed  *)
(* since an earlier round counts in this one.                              *)
HandleRequestVoteResponse(i, m) ==
    LET s == node[i]
        voted == [s EXCEPT !.votes = @ \cup {m.from}]
        elected == Cardinality(voted.votes) >= QuorumSize
    IN \/ /\ m.term > s.currentTerm
          /\ Step(i, BecomeFollower(s, m.term), {m}, {})
       \/ /\ s.state = "PRE_CANDIDATE"
          /\ m.prevote /\ m.granted /\ m.term <= s.currentTerm
          /\ elected => s.currentTerm < MaxTerm
          /\ \E up \in Links :
               LET c == IF elected THEN BecomeCandidate(i, voted, up) ELSE voted
               IN Step(i, c, {m}, IF elected THEN Campaign(i, c, up) ELSE {})
       \/ /\ s.state = "CANDIDATE"
          /\ ~m.prevote /\ m.granted /\ m.term = s.currentTerm
          /\ \E up \in Links :
               LET c == IF elected THEN BecomeLeader(i, voted, up) ELSE voted
               IN Step(i, c, {m}, Rpcs(c, up))

HandleAppendEntries(i, m) ==
    LET s == node[i]
        reverts == \/ m.term > s.currentTerm
                   \/ m.term = s.currentTerm /\ s.state # "FOLLOWER"
        follower == IF reverts THEN BecomeFollower(s, m.term) ELSE s
        led == [follower EXCEPT !.leaderId = m.from]
        response(success, last) ==
            [type |-> "AppendEntriesResponse", term |-> follower.currentTerm,
             from |-> i, to |-> m.from,
             success |-> success, lastLogIndex |-> last, request |-> m]
    IN /\ ValidAppendEntries(m)
       /\ \/ /\ m.term < s.currentTerm
             /\ Step(i, s, {m}, {response(FALSE, LastIndex(s))})
          \/ /\ m.term >= s.currentTerm
             /\ PrefixMatches(s, m)
             /\ KeepsCommitted(s, m)
             /\ Step(i, AcceptEntries(led, m), {m},
                     {response(TRUE, m.prevLogIndex + Len(m.entries))})
          \/ /\ m.term >= s.currentTerm
             /\ ~PrefixMatches(s, m)
             /\ Step(i, led, {m}, {response(FALSE, RejectHint(s, m))})

(* Mutant: entries appended since the request was sent are counted too.    *)
EverythingAcked(s, m) == LastIndex(s)

(* What a successful append response acknowledges: flight.last_index.      *)
Acknowledged(s, m) == m.request.prevLogIndex + Len(m.request.entries)

(* Only the response to the RPC in flight moves nextIndex and matchIndex.  *)
HandleAppendEntriesResponse(i, m) ==
    LET s == node[i]
        from == m.from
        done == [s EXCEPT !.inflight[from] = None]
        match == Larger(s.matchIndex[from], Acknowledged(s, m))
        acked == AdvanceCommitIndex([done EXCEPT !.matchIndex[from] = match,
                                                 !.nextIndex[from] = match + 1])
        rejected == [done EXCEPT !.nextIndex[from] =
                        Larger(s.matchIndex[from] + 1, Smaller(@ - 1, m.lastLogIndex + 1))]
        peers == IF acked.commitIndex > s.commitIndex THEN Node
                 ELSE IF match < LastIndex(s) THEN {from} ELSE {}
    IN \/ /\ m.term > s.currentTerm
          /\ Step(i, BecomeFollower(s, m.term), {m}, {})
       \/ /\ s.state = "LEADER" /\ m.term = s.currentTerm
          /\ s.inflight[from] = m.request
          /\ \E up \in Links :
               \/ /\ m.success
                  /\ LET t == SendAppendEntries(i, acked, peers, up)
                     IN Step(i, t, {m}, Rpcs(t, peers \cap up))
               \/ /\ ~m.success
                  /\ LET t == SendAppendEntries(i, rejected, {from}, up)
                     IN Step(i, t, {m}, Rpcs(t, {from} \cap up))

(* Unlike HandleAppendEntries, a candidate of the same term that hears     *)
(* from the leader here stays a candidate.                                 *)
HandleInstallSnapshot(i, m) ==
    LET s == node[i]
        follower == IF m.term > s.currentTerm THEN BecomeFollower(s, m.term) ELSE s
        led == [follower EXCEPT !.leaderId = m.from]
        response(ok) ==
            [type |-> "InstallSnapshotResponse", term |-> follower.currentTerm,
             from |-> i, to |-> m.from,
             success |-> ok, complete |-> ok, request |-> m]
    IN /\ ValidInstallSnapshot(m)
       /\ \/ /\ m.term < s.currentTerm
             /\ Step(i, s, {m}, {response(FALSE)})
          \/ /\ m.term >= s.currentTerm
             /\ Len(s.kv) >= m.lastIncludedIndex
             /\ Step(i, led, {m}, {response(TRUE)})
          \/ /\ m.term >= s.currentTerm
             /\ Len(s.kv) < m.lastIncludedIndex /\ s.applyTo # 0
             /\ Step(i, led, {m}, {response(FALSE)})
          \/ /\ m.term >= s.currentTerm
             /\ Len(s.kv) < m.lastIncludedIndex /\ s.applyTo = 0
             /\ Step(i, InstallSnapshot(led, m), {m}, {response(TRUE)})

(* A refused snapshot is sent again as it was; the commit index waits for  *)
(* the next AppendEntries acknowledgement.                                 *)
HandleInstallSnapshotResponse(i, m) ==
    LET s == node[i]
        from == m.from
        done == [s EXCEPT !.inflight[from] = None]
        match == Larger(s.matchIndex[from], m.request.lastIncludedIndex)
        installed == [done EXCEPT !.matchIndex[from] = match,
                                  !.nextIndex[from] = match + 1]
        peers == IF match < LastIndex(s) THEN {from} ELSE {}
    IN \/ /\ m.term > s.currentTerm
          /\ Step(i, BecomeFollower(s, m.term), {m}, {})
       \/ /\ s.state = "LEADER" /\ m.term = s.currentTerm
          /\ s.inflight[from] = m.request
          /\ \E up \in Links :
               \/ /\ m.success
                  /\ LET t == SendAppendEntries(i, installed, peers, up)
                     IN Step(i, t, {m}, Rpcs(t, peers \cap up))
               \/ /\ ~m.success
                  /\ Step(i, IF from \in up THEN s ELSE done, {m}, Rpcs(s, {from} \cap up))

(* A crash inside a handler that writes to disk more than once: after the  *)
(* new term of a vote or an append request, after the truncation, after    *)
(* the append but before the committed entries are applied.                *)
CrashInHandler(i, m) ==
    LET s == node[i]
        follower == BecomeFollower(s, Larger(m.term, s.currentTerm))
        appends == /\ m.type = "AppendEntries"
                   /\ ValidAppendEntries(m)
                   /\ m.term >= s.currentTerm
                   /\ PrefixMatches(s, m)
                   /\ KeepsCommitted(s, m)
        crashed(d) == Step(i, ApplyCommitted(Recovered(d)), {m}, {})
    IN /\ \/ m.type = "RequestVote" /\ ~m.prevote
          \/ m.type \in {"AppendEntries", "InstallSnapshot"}
       /\ \/ m.term > s.currentTerm /\ crashed(follower)
          \/ appends /\ crashed([follower EXCEPT !.log = Truncated(s, m)])
          \/ appends /\ crashed([follower EXCEPT !.log = Appended(s, m)])

Receive(i, m) ==
    \/ m.type = "RequestVote" /\ HandleRequestVote(i, m)
    \/ m.type = "RequestVoteResponse" /\ HandleRequestVoteResponse(i, m)
    \/ m.type = "AppendEntries" /\ HandleAppendEntries(i, m)
    \/ m.type = "AppendEntriesResponse" /\ HandleAppendEntriesResponse(i, m)
    \/ m.type = "InstallSnapshot" /\ HandleInstallSnapshot(i, m)
    \/ m.type = "InstallSnapshotResponse" /\ HandleInstallSnapshotResponse(i, m)

Next ==
    \/ \E i \in Node : \/ ElectionTimeout(i)
                       \/ LeaderTick(i)
                       \/ ClientPropose(i)
                       \/ FinishApply(i)
                       \/ Restart(i)
    \/ \E m \in msgs : \/ Receive(m.to, m)
                       \/ CrashInHandler(m.to, m)

Spec == Init /\ [][Next]_vars

-----------------------------------------------------------------------------
(* Properties.  The others are in RaftNodeState.                           *)

(* No request in transit makes HandleAppendEntries throw "attempt to       *)
(* replace committed Raft entry", however late it arrives.                 *)
NoCommittedEntryReplaced ==
    \A m \in msgs :
        /\ m.type = "AppendEntries"
        /\ m.term >= node[m.to].currentTerm
        /\ PrefixMatches(node[m.to], m)
        => KeepsCommitted(node[m.to], m)

(* What is on disk only moves forward, over crashes and restarts: a term   *)
(* never goes back, a vote is never changed within its term, the state     *)
(* machine is never rolled back and a snapshot never replaced by an older. *)
DurableStateAdvances ==
    [][\A i \in Node :
         LET s == node[i]
             t == node'[i]
         IN /\ s.currentTerm <= t.currentTerm
            /\ s.currentTerm = t.currentTerm /\ s.votedFor # None
                 => t.votedFor = s.votedFor
            /\ Len(s.kv) <= Len(t.kv) /\ SubSeq(t.kv, 1, Len(s.kv)) = s.kv
            /\ s.snapshotIndex <= t.snapshotIndex]_vars

(* README.md: "sends `nextIndex` to the start of that conflicting term in  *)
(* one step. If that index is inside the snapshot, the next round installs *)
(* the snapshot".  Whenever the response in hand rejects the request in    *)
(* flight, the next request starts lower or installs a snapshot.           *)
RejectionMakesProgress ==
    [][\A m \in msgs \ msgs' :
         /\ m.type = "AppendEntriesResponse" /\ ~m.success
         /\ node[m.to].state = "LEADER" /\ node'[m.to].state = "LEADER"
         /\ node[m.to].currentTerm = m.term
         /\ node[m.to].inflight[m.from] = m.request
         => \/ node'[m.to].nextIndex[m.from] < node[m.to].nextIndex[m.from]
            \/ node'[m.to].nextIndex[m.from] <= node'[m.to].snapshotIndex]_vars
=============================================================================
