--------------------------- MODULE RaftNodeState ---------------------------
(***************************************************************************)
(* The state of the consensus core of src/raft/raft_node.cc, the messages  *)
(* between the nodes, and what must hold of them in every state.  RaftNode *)
(* has the steps.                                                          *)
(*                                                                         *)
(* node[i] is the state of the RaftNode of process i, together with the    *)
(* two databases it owns (RaftLog and KVStore).  msgs is the set of        *)
(* messages in transit.                                                    *)
(***************************************************************************)
EXTENDS Integers, Sequences, FiniteSets

CONSTANTS
    Node,               \* the static membership (_all_peers)
    Command,            \* client commands
    NoOp,               \* the empty command a new leader appends
    None,               \* -1 for a node id, an empty Inflight
    AsyncApply,         \* --async_apply: is there an ApplyExecutor?
    SnapshotThreshold,  \* _snapshot_threshold; 0 disables snapshots
    MaxBatchEntries,    \* kMaxBatchEntries
    Links,              \* the sets of peers a callback may find connected
    MaxTerm,            \* bound: the term at which "Raft term exhausted"
    MaxLogLength        \* bound: no client batch may grow a log past it

ASSUME NodeAssumption == IsFiniteSet(Node) /\ Node # {} /\ None \notin Node
ASSUME CommandAssumption == NoOp \notin Command
ASSUME FlagAssumption == AsyncApply \in BOOLEAN
ASSUME BoundAssumption ==
    /\ SnapshotThreshold \in Nat
    /\ MaxBatchEntries \in Nat \ {0}
    /\ MaxTerm \in Nat
    /\ MaxLogLength \in Nat
    /\ Links \subseteq SUBSET Node

VARIABLES
    node,   \* node[i]: the state of process i
    msgs    \* the messages in transit

vars == <<node, msgs>>

-----------------------------------------------------------------------------
(* Types.                                                                  *)

Entry == [term : Nat, cmd : Command \cup {NoOp}]

(* A pre-vote asks for term currentTerm + 1 without adopting it.           *)
RequestVoteMsg ==
    [type : {"RequestVote"}, term : Nat, from : Node, to : Node,
     prevote : BOOLEAN, lastLogIndex : Nat, lastLogTerm : Int]

RequestVoteResponseMsg ==
    [type : {"RequestVoteResponse"}, term : Nat, from : Node, to : Node,
     prevote : BOOLEAN, granted : BOOLEAN]

AppendEntriesMsg ==
    [type : {"AppendEntries"}, term : Nat, from : Node, to : Node,
     prevLogIndex : Nat, prevLogTerm : Int, entries : Seq(Entry),
     leaderCommit : Nat]

(* The snapshot data is the state the entries 1..lastIncludedIndex build,  *)
(* represented by those entries; it travels in one chunk.                  *)
InstallSnapshotMsg ==
    [type : {"InstallSnapshot"}, term : Nat, from : Node, to : Node,
     lastIncludedIndex : Nat, lastIncludedTerm : Int, data : Seq(Entry)]

(* A response names the request it answers: rpc_id, which the leader       *)
(* compares with the id in flight, is represented by the request itself.   *)
(* Two RPCs of a term with the same contents are thus not told apart.      *)
AppendEntriesResponseMsg ==
    [type : {"AppendEntriesResponse"}, term : Nat, from : Node, to : Node,
     success : BOOLEAN,
     lastLogIndex : Nat, request : AppendEntriesMsg]

InstallSnapshotResponseMsg ==
    [type : {"InstallSnapshotResponse"}, term : Nat, from : Node, to : Node,
     success : BOOLEAN,
     complete : BOOLEAN, request : InstallSnapshotMsg]

Message ==
    RequestVoteMsg \cup RequestVoteResponseMsg \cup AppendEntriesMsg
        \cup AppendEntriesResponseMsg \cup InstallSnapshotMsg
        \cup InstallSnapshotResponseMsg

State == {"FOLLOWER", "PRE_CANDIDATE", "CANDIDATE", "LEADER"}

(* currentTerm, votedFor, log and snapshotIndex live in RaftLog's database,*)
(* kv in the state machine's; the rest is memory.  log keeps the entries   *)
(* up to snapshotIndex that compaction deletes from disk, so that          *)
(* properties can speak of them; GetTerm hides them from the protocol.     *)
(* kv is the sequence of entries the state machine has applied.  applyTo   *)
(* is the last index of the batch the executor is applying, 0 if idle.     *)
NodeState ==
    [currentTerm : Nat, votedFor : Node \cup {None},
     log : Seq(Entry), snapshotIndex : Nat, kv : Seq(Entry),
     state : State, leaderId : Node \cup {None}, votes : SUBSET Node,
     commitIndex : Nat, applyTo : Nat,
     nextIndex : [Node -> Nat], matchIndex : [Node -> Nat],
     inflight : [Node -> AppendEntriesMsg \cup InstallSnapshotMsg \cup {None}]]

(* Every message and every node state is of its declared shape.            *)
TypeOK ==
    /\ node \in [Node -> NodeState]
    /\ msgs \in SUBSET Message

Larger(a, b) == IF a >= b THEN a ELSE b
Smaller(a, b) == IF a <= b THEN a ELSE b

QuorumSize == Cardinality(Node) \div 2 + 1

LastIndex(s) == Len(s.log)

GetTerm(s, index) ==
    IF index = 0 THEN 0
    ELSE IF index < s.snapshotIndex \/ index > LastIndex(s) THEN -1
    ELSE s.log[index].term

LastTerm(s) == GetTerm(s, LastIndex(s))

NoRpc == [j \in Node |-> None]

-----------------------------------------------------------------------------
(* What a handler checks first of a request.  One that fails is dropped    *)
(* without an answer.                                                      *)

ValidRequestVote(m) == m.term > 0 /\ m.lastLogTerm \in 0..m.term

ValidAppendEntries(m) ==
    LET termAt(k) == IF k = 0 THEN m.prevLogTerm ELSE m.entries[k].term
    IN /\ m.term > 0
       /\ m.prevLogTerm \in 0..m.term
       /\ (m.prevLogIndex = 0) <=> (m.prevLogTerm = 0)
       /\ \A k \in 1..Len(m.entries) : termAt(k) \in 1..m.term /\ termAt(k - 1) <= termAt(k)

ValidInstallSnapshot(m) ==
    m.term > 0 /\ m.lastIncludedIndex > 0 /\ m.lastIncludedTerm \in 1..m.term

Init ==
    /\ node = [i \in Node |->
                 [currentTerm |-> 0, votedFor |-> None, log |-> <<>>,
                  snapshotIndex |-> 0, kv |-> <<>>, state |-> "FOLLOWER",
                  leaderId |-> None, votes |-> {}, commitIndex |-> 0,
                  applyTo |-> 0, nextIndex |-> [j \in Node |-> 1],
                  matchIndex |-> [j \in Node |-> 0], inflight |-> NoRpc]]
    /\ msgs = {}

-----------------------------------------------------------------------------
(* Properties.                                                             *)

LeaderMsgs == {m \in msgs : m.type \in {"AppendEntries", "InstallSnapshot"}}

(* At most one node ever acts as leader of a term: two leaders, or two     *)
(* senders of replication requests, of the same term are the same node,    *)
(* over crashes between any two durable writes of the vote (SaveHardState).*)
ElectionSafety ==
    /\ \A i, j \in Node :
         /\ node[i].state = "LEADER" /\ node[j].state = "LEADER"
         /\ node[i].currentTerm = node[j].currentTerm
         => i = j
    /\ \A m1, m2 \in LeaderMsgs : m1.term = m2.term => m1.from = m2.from
    /\ \A i \in Node, m \in LeaderMsgs :
         node[i].state = "LEADER" /\ node[i].currentTerm = m.term => m.from = i

(* Two logs that hold an entry of the same term at an index are equal up   *)
(* to it: the prefix check of HandleAppendEntries, across batches that     *)
(* overlap, arrive late or follow a snapshot.                              *)
LogMatching ==
    \A i, j \in Node :
        \A k \in 1 .. Smaller(Len(node[i].log), Len(node[j].log)) :
            node[i].log[k].term = node[j].log[k].term
                => SubSeq(node[i].log, 1, k) = SubSeq(node[j].log, 1, k)

(* What any node has committed is in the log of every leader of that term  *)
(* or a later one: AdvanceCommitIndex counts replicas for entries of the   *)
(* current term only, and votes go to logs that are up to date.            *)
LeaderCompleteness ==
    \A i, j \in Node :
        node[j].state = "LEADER" /\ node[j].currentTerm >= node[i].currentTerm
            => /\ node[i].commitIndex <= Len(node[j].log)
               /\ SubSeq(node[i].log, 1, node[i].commitIndex)
                    = SubSeq(node[j].log, 1, node[i].commitIndex)

(* State machines never diverge: of any two, one has applied a prefix of   *)
(* what the other has, whether by ApplyBatch, by an installed snapshot or  *)
(* by replay after a restart.                                              *)
StateMachineSafety ==
    \A i, j \in Node :
        LET n == Smaller(Len(node[i].kv), Len(node[j].kv))
        IN SubSeq(node[i].kv, 1, n) = SubSeq(node[j].kv, 1, n)

(* Whatever a node believes committed is on the disks of a quorum, at      *)
(* every later time: crashes, truncations and installed snapshots never    *)
(* bring the replicas of a committed entry below a quorum.                 *)
CommittedOnQuorum ==
    \A i \in Node :
        LET committed == SubSeq(node[i].log, 1, node[i].commitIndex)
            holders == {j \in Node : /\ Len(committed) <= Len(node[j].log)
                                     /\ SubSeq(node[j].log, 1, Len(committed)) = committed}
        IN Cardinality(holders) >= QuorumSize

(* A crash in this state leaves databases the constructor accepts          *)
(* ("inconsistent KV/log recovery state" is not thrown), holding the state *)
(* machine of a prefix of the log; and the node never looks for a committed*)
(* entry it has not got ("missing committed entry").                       *)
StoresConsistent ==
    \A i \in Node :
        LET s == node[i]
        IN /\ s.snapshotIndex <= Len(s.kv)
           /\ Len(s.kv) <= s.commitIndex
           /\ s.commitIndex <= LastIndex(s)
           /\ s.kv = SubSeq(s.log, 1, Len(s.kv))
           /\ LastTerm(s) <= s.currentTerm

(* What a leader counts as replicated on a peer is on that peer's disk     *)
(* until the peer moves on to a later term: acknowledgements of retried    *)
(* requests, of batches and of snapshots never overstate, even if the peer *)
(* crashes.                                                                *)
MatchIndexSound ==
    \A i, j \in Node :
        node[i].state = "LEADER" /\ node[j].currentTerm <= node[i].currentTerm
            => /\ node[i].matchIndex[j] <= Len(node[j].log)
               /\ SubSeq(node[j].log, 1, node[i].matchIndex[j])
                    = SubSeq(node[i].log, 1, node[i].matchIndex[j])

(* Every request a node sends passes the checks its receiver makes first,  *)
(* which drop it without an answer: nextIndex never points outside the     *)
(* log, nor into its compacted part.                                       *)
RequestsAreValid ==
    \A m \in msgs :
        /\ m.type = "RequestVote" => ValidRequestVote(m)
        /\ m.type = "AppendEntries" => ValidAppendEntries(m)
        /\ m.type = "InstallSnapshot" => ValidInstallSnapshot(m)
=============================================================================
