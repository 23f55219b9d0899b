----------------------------- MODULE MCRaftNode -----------------------------
(***************************************************************************)
(* Instances of RaftNode for TLC.  Election timeouts and crashes are       *)
(* limited in number, and the network holds at most MaxInTransit messages. *)
(* A response that its addressee would ignore from now on is not explored: *)
(* whatever follows also follows if it was lost.                           *)
(***************************************************************************)
EXTENDS RaftNode, TLC

CONSTANTS MaxInTransit, MaxTimeouts, MaxCrashes

VARIABLE used   \* how many timeouts and crashes there have been

MCInit == Init /\ used = [timeouts |-> 0, crashes |-> 0]

Heeded(m) ==
    LET s == node[m.to]
    IN \/ m.type \notin {"RequestVoteResponse", "AppendEntriesResponse",
                         "InstallSnapshotResponse"}
       \/ m.term > s.currentTerm
       \/ m.type = "RequestVoteResponse" /\ m.granted
            /\ \/ ~m.prevote /\ m.term = s.currentTerm /\ s.state = "CANDIDATE"
               \/ m.prevote /\ (s.state = "PRE_CANDIDATE" \/ used.timeouts < MaxTimeouts)
       \/ m.type # "RequestVoteResponse" /\ m.term = s.currentTerm
            /\ s.state = "LEADER" /\ s.inflight[m.from] = m.request

Bounded ==
    /\ Cardinality(msgs') <= MaxInTransit
    /\ \A m \in msgs' : Heeded(m)'

MCTimeout(i) ==
    /\ used.timeouts < MaxTimeouts
    /\ ElectionTimeout(i)
    /\ used' = [used EXCEPT !.timeouts = @ + 1]
    /\ Bounded

MCCrash ==
    /\ used.crashes < MaxCrashes
    /\ \/ \E i \in Node : Restart(i)
       \/ \E m \in msgs : CrashInHandler(m.to, m)
    /\ used' = [used EXCEPT !.crashes = @ + 1]
    /\ Bounded

MCLocal(i) ==
    /\ LeaderTick(i) \/ ClientPropose(i) \/ FinishApply(i)
    /\ UNCHANGED used
    /\ Bounded

MCReceive ==
    /\ \E m \in msgs : Receive(m.to, m)
    /\ UNCHANGED used
    /\ Bounded

MCNext ==
    \/ \E i \in Node : MCTimeout(i) \/ MCLocal(i)
    \/ MCCrash
    \/ MCReceive

(* A state after two terms whose leaders reached no other node, everybody  *)
(* restarted: a led term 1 and then heard of term 2; b led it by c's vote. *)
DivergentInit ==
    LET survivor(vote, log) ==
            [currentTerm |-> 2, votedFor |-> vote, log |-> log,
             snapshotIndex |-> 0, kv |-> <<>>, state |-> "FOLLOWER",
             leaderId |-> None, votes |-> {}, commitIndex |-> 0, applyTo |-> 0,
             nextIndex |-> [j \in Node |-> 1], matchIndex |-> [j \in Node |-> 0],
             inflight |-> NoRpc]
    IN /\ \E a, b, c \in Node :
            /\ Node = {a, b, c} /\ a # b /\ a # c /\ b # c
            /\ node = (a :> survivor(None, <<[term |-> 1, cmd |-> NoOp]>>)
                       @@ b :> survivor(b, <<[term |-> 2, cmd |-> NoOp]>>)
                       @@ c :> survivor(b, <<>>))
       /\ msgs = {}
       /\ used = [timeouts |-> 0, crashes |-> 0]

MCSpec == MCInit /\ [][MCNext]_<<vars, used>>

DivergentSpec == DivergentInit /\ [][MCNext]_<<vars, used>>

(* The loop of ConflictIndex, on a log whose terms do not decrease.        *)
RECURSIVE Search(_, _, _, _)
Search(s, term, low, high) ==
    IF high - low <= 1 THEN high
    ELSE LET mid == low + (high - low) \div 2
         IN IF GetTerm(s, mid) = term THEN Search(s, term, low, mid)
            ELSE Search(s, term, mid, high)

ConflictSearch(s, index) ==
    LET term == GetTerm(s, index)
        high == Search(s, term, s.snapshotIndex, index)
    IN IF /\ high = s.snapshotIndex + 1
          /\ s.snapshotIndex > 0
          /\ GetTerm(s, s.snapshotIndex) = term
       THEN s.snapshotIndex ELSE high

(* The binary search finds what RaftNode's ConflictIndex defines, for all  *)
(* logs of six entries in three terms, compacted anywhere.                 *)
ASSUME SearchIsExact ==
    \A terms \in [1..6 -> 1..3], snapshot \in 0..6 :
        (\A i \in 1..5 : terms[i] <= terms[i + 1])
          => LET s == [log |-> [i \in 1..6 |-> [term |-> terms[i], cmd |-> NoOp]],
                       snapshotIndex |-> snapshot]
             IN \A index \in 1..6 :
                  GetTerm(s, index) > 0 => ConflictSearch(s, index) = ConflictIndex(s, index)

Symmetry == Permutations(Node)

(* Every callback finds its peers connected; a message may still be lost.  *)
AllConnected == {Node}
=============================================================================
