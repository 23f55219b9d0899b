-------------------------- MODULE SnapshotTransfer --------------------------
(***************************************************************************)
(* The transfer of a snapshot in chunks (src/raft/raft_node.cc): what the  *)
(* leaders of successive terms send to one follower that lags behind their *)
(* snapshots, and what it assembles.                                       *)
(*                                                                         *)
(* Messages may be lost, reordered and, since an unanswered request is     *)
(* sent again, duplicated.  Leaders change, compact their log during a     *)
(* transfer and restart; the follower restarts, and applies entries by     *)
(* other means.  The term of an included index is not kept: it is a        *)
(* function of the index for every leader (RaftNode!StateMachineSafety).   *)
(***************************************************************************)
EXTENDS Integers, Sequences, FiniteSets

CONSTANTS
    Sender,         \* the processes that may lead
    MaxIndex,       \* bound on the indexes of snapshots
    Byte,
    Contents,       \* Contents[i] is the encoded state after index i
    ChunkBytes,     \* _snapshot_chunk_bytes
    MaxTerm,        \* bound on the number of elections
    MaxFaults       \* bound on losses, restarts, premature retries, refusals

Index == 1..MaxIndex

ASSUME TransferAssumption ==
    /\ MaxIndex \in Nat \ {0} /\ MaxTerm \in Nat /\ MaxFaults \in Nat
    /\ ChunkBytes \in Nat \ {0}
    /\ Contents \in [Index -> Seq(Byte)]

VARIABLES
    sender,         \* sender[s]: what s keeps as a leader about the follower
    follower,
    net,            \* messages in transit
    faults          \* faults so far

vars == <<sender, follower, net, faults>>

-----------------------------------------------------------------------------
(* Inflight: id 0 says that no request is outstanding.                     *)
Flight == [id : Nat, snapshot : BOOLEAN, index : 0..MaxIndex, offset : Nat,
           chunk : Nat]
NoFlight == [id |-> 0, snapshot |-> FALSE, index |-> 0, offset |-> 0, chunk |-> 0]

SenderState ==
    [term : 0..MaxTerm, leading : BOOLEAN, snap : 0..MaxIndex, next : Nat,
     match : 0..MaxIndex, rpc : Nat, flight : Flight]

(* SnapshotReceive: index 0 stands for the initial -1.                     *)
Receiving == [index : 0..MaxIndex, data : Seq(Byte)]
NoReceive == [index |-> 0, data |-> <<>>]

(* installed is the last snapshot that replaced the state machine.         *)
FollowerState ==
    [term : 0..MaxTerm, applied : 0..MaxIndex, commit : 0..MaxIndex,
     inflight : BOOLEAN, receive : Receiving, installed : Receiving]

Request ==
    [type : {"InstallSnapshot"}, term : 1..MaxTerm, leader : Sender, id : Nat,
     index : Index, offset : Nat, data : Seq(Byte), done : BOOLEAN]
Response ==
    [type : {"InstallSnapshotResponse"}, term : 0..MaxTerm, leader : Sender,
     id : Nat, success : BOOLEAN, complete : BOOLEAN]

(* Every variable is of its declared shape.                                *)
TypeOK ==
    /\ sender \in [Sender -> SenderState]
    /\ follower \in FollowerState
    /\ net \in SUBSET (Request \cup Response)
    /\ faults \in 0..MaxFaults

Smaller(a, b) == IF a <= b THEN a ELSE b
Larger(a, b) == IF a >= b THEN a ELSE b

Fault == faults < MaxFaults /\ faults' = faults + 1

-----------------------------------------------------------------------------
(* The leader.                                                             *)

(* The request that flight f of leader s, in state r, has sent.            *)
Payload(s, r) ==
    LET f == r.flight
    IN [type |-> "InstallSnapshot", term |-> r.term, leader |-> s, id |-> f.id,
        index |-> f.index, offset |-> f.offset,
        data |-> SubSeq(Contents[f.index], f.offset + 1, f.offset + f.chunk),
        done |-> f.offset + f.chunk = Len(Contents[f.index])]

(* The flight takes the next rpc_id and the size of its chunk.             *)
NextChunk(r) ==
    [r EXCEPT !.rpc = r.rpc + 1,
              !.flight = [r.flight EXCEPT !.id = r.rpc + 1,
                            !.chunk = Smaller(ChunkBytes,
                                Len(Contents[r.flight.index]) - r.flight.offset)]]

(* SendSnapshotChunk of s, whose state is r, while the messages n are in   *)
(* transit: the connection takes the chunk, or refuses it.                 *)
SendSnapshotChunk(s, r, n) ==
    \/ /\ sender' = [sender EXCEPT ![s] = NextChunk(r)]
       /\ net' = n \cup {Payload(s, NextChunk(r))}
       /\ UNCHANGED faults
    \/ /\ sender' = [sender EXCEPT ![s] = [NextChunk(r) EXCEPT !.flight.id = 0]]
       /\ net' = n
       /\ Fault

(* The entry the follower needs is compacted: a flight for the snapshot.   *)
Compacted(r) == r.snap > 0 /\ r.next <= r.snap
Started(r) ==
    [r EXCEPT !.flight = [NoFlight EXCEPT !.snapshot = TRUE, !.index = r.snap]]

(* SendAppendEntries to a peer with no request outstanding.                *)
StartTransfer(s) ==
    LET r == sender[s]
    IN /\ r.leading /\ r.flight.id = 0
       /\ Compacted(r)
       /\ SendSnapshotChunk(s, Started(r), net)
       /\ UNCHANGED follower

InTransit(s, id) == {m \in net : m.leader = s /\ m.id = id}

(* Mutant: a chunk that was lost is not sent again.                        *)
RetryAppendsOnly(s) ==
    LET r == sender[s]
    IN /\ r.leading /\ r.flight.id # 0 /\ ~r.flight.snapshot
       /\ net' = net \cup {Payload(s, r)}
       /\ IF InTransit(s, r.flight.id) = {} THEN UNCHANGED faults ELSE Fault
       /\ UNCHANGED <<sender, follower>>

(* SendAppendEntries after kRpcRetryMs without an answer.  A retry while   *)
(* the request or its answer is still on the way counts as a fault.        *)
Retry(s) ==
    LET r == sender[s]
    IN /\ r.leading /\ r.flight.id # 0
       /\ net' = net \cup {Payload(s, r)}
       /\ IF InTransit(s, r.flight.id) = {} THEN UNCHANGED faults ELSE Fault
       /\ UNCHANGED <<sender, follower>>

(* BecomeFollower, on a response of a higher term.                         *)
StepDown(r, term) ==
    [r EXCEPT !.term = term, !.leading = FALSE, !.flight = NoFlight]

(* Mutant: the answer to any request of the leader counts.                 *)
AnyRequest(r, m) == r.flight.snapshot /\ r.flight.id # 0

Correlated(r, m) == r.flight.snapshot /\ r.flight.id # 0 /\ m.id = r.flight.id

Restarted(r) == [r EXCEPT !.flight.offset = 0]

(* The chunk was taken: go on behind it.                                   *)
Advanced(r) ==
    LET next == r.flight.offset + r.flight.chunk
    IN [r EXCEPT !.flight.offset =
            IF next >= Len(Contents[r.flight.index]) THEN 0 ELSE next]

(* The snapshot is installed; SendAppendEntries follows, which starts over *)
(* when the leader has compacted further.                                  *)
Completed(r) ==
    LET match == Larger(r.match, r.flight.index)
    IN [r EXCEPT !.flight = NoFlight, !.match = match, !.next = match + 1]

HandleInstallSnapshotResponse(m) ==
    LET s == m.leader
        r == sender[s]
        rest == net \ {m}
    IN /\ m.type = "InstallSnapshotResponse"
       /\ \/ /\ m.term > r.term
             /\ sender' = [sender EXCEPT ![s] = StepDown(r, m.term)]
             /\ net' = rest /\ UNCHANGED faults
          \/ /\ m.term <= r.term
             /\ ~r.leading \/ m.term # r.term \/ ~Correlated(r, m)
             /\ net' = rest /\ UNCHANGED <<sender, faults>>
          \/ /\ m.term = r.term /\ r.leading /\ Correlated(r, m)
             /\ IF ~m.success THEN SendSnapshotChunk(s, Restarted(r), rest)
                ELSE IF ~m.complete THEN SendSnapshotChunk(s, Advanced(r), rest)
                ELSE IF Compacted(Completed(r))
                     THEN SendSnapshotChunk(s, Started(Completed(r)), rest)
                ELSE /\ sender' = [sender EXCEPT ![s] = Completed(r)]
                     /\ net' = rest /\ UNCHANGED faults
       /\ UNCHANGED follower

(* MaybeSnapshot: the leader's log is compacted further.                   *)
MaybeSnapshot(s, i) ==
    /\ sender[s].leading /\ i > sender[s].snap
    /\ sender' = [sender EXCEPT ![s].snap = i]
    /\ UNCHANGED <<follower, net, faults>>

(* BecomeLeader in a new term.  Rejected appends have already moved        *)
(* nextIndex back to the first entry.                                      *)
BecomeLeader(s, term) ==
    /\ ~sender[s].leading
    /\ \A x \in Sender : sender[x].term < term
    /\ term = 1 \/ \E x \in Sender : sender[x].term = term - 1
    /\ sender' = [sender EXCEPT ![s].term = term, ![s].leading = TRUE,
                     ![s].next = 1, ![s].match = 0, ![s].flight = NoFlight]
    /\ UNCHANGED <<follower, net, faults>>

(* The process restarts: the sequence of rpc ids starts again.             *)
RestartSender(s) ==
    /\ sender' = [sender EXCEPT ![s].leading = FALSE, ![s].flight = NoFlight,
                                ![s].rpc = 0]
    /\ Fault
    /\ UNCHANGED <<follower, net>>

-----------------------------------------------------------------------------
(* The follower.                                                           *)

(* BecomeFollower for a higher term.                                       *)
Observe(f, term) ==
    IF term > f.term THEN [f EXCEPT !.term = term, !.receive = NoReceive] ELSE f

(* Mutant: a chunk is appended wherever it belongs.                        *)
SameSnapshot(f, m) == f.receive.index = m.index

Continues(f, m) == f.receive.index = m.index /\ m.offset = Len(f.receive.data)

(* Chunk m of the current leader, not covered by what f has applied: the   *)
(* new state of f, and what it answers.                                    *)
AssembleChunk(f, m) ==
    LET g == IF m.offset = 0 THEN [f EXCEPT !.receive = [index |-> m.index, data |-> <<>>]]
             ELSE f
        data == g.receive.data \o m.data
    IN IF ~Continues(g, m)
       THEN [f |-> [f EXCEPT !.receive = NoReceive], success |-> FALSE, complete |-> FALSE]
       ELSE IF ~m.done
       THEN [f |-> [g EXCEPT !.receive.data = data], success |-> TRUE, complete |-> FALSE]
       ELSE [f |-> [g EXCEPT !.installed = [index |-> m.index, data |-> data],
                             !.applied = m.index, !.commit = Larger(@, m.index),
                             !.receive = NoReceive],
             success |-> TRUE, complete |-> TRUE]

(* HandleInstallSnapshot after the term of m has been observed.            *)
Accept(f, m) ==
    IF m.term < f.term
    THEN [f |-> f, success |-> FALSE, complete |-> FALSE]
    ELSE IF f.applied >= m.index
    THEN [f |-> [f EXCEPT !.receive = NoReceive], success |-> TRUE, complete |-> TRUE]
    ELSE IF f.inflight
    THEN [f |-> f, success |-> FALSE, complete |-> FALSE]
    ELSE AssembleChunk(f, m)

HandleInstallSnapshot(m) ==
    LET a == Accept(Observe(follower, m.term), m)
        busy == follower.inflight /\ m.index > follower.applied /\ m.term >= follower.term
    IN /\ m.type = "InstallSnapshot"
       /\ follower' = a.f
       /\ net' = (net \ {m}) \cup
            {[type |-> "InstallSnapshotResponse", term |-> a.f.term, leader |-> m.leader,
              id |-> m.id, success |-> a.success, complete |-> a.complete]}
       /\ IF busy THEN Fault ELSE UNCHANGED faults
       /\ UNCHANGED sender

(* A vote request or an append request of the term's leader.               *)
ObserveTerm(s) ==
    /\ sender[s].leading /\ sender[s].term > follower.term
    /\ follower' = Observe(follower, sender[s].term)
    /\ UNCHANGED <<sender, net, faults>>

(* A batch of entries the follower has committed goes to the executor.     *)
ApplyCommitted ==
    /\ ~follower.inflight /\ follower.applied < follower.commit
    /\ follower' = [follower EXCEPT !.inflight = TRUE]
    /\ UNCHANGED <<sender, net, faults>>

FinishApply ==
    /\ follower.inflight
    /\ \E i \in follower.applied + 1 .. follower.commit :
          follower' = [follower EXCEPT !.inflight = FALSE, !.applied = i]
    /\ UNCHANGED <<sender, net, faults>>

(* What is durable survives: the term and what is applied.                 *)
RestartFollower ==
    /\ follower' = [follower EXCEPT !.inflight = FALSE, !.receive = NoReceive,
                                    !.commit = follower.applied]
    /\ Fault
    /\ UNCHANGED <<sender, net>>

Lose(m) ==
    /\ net' = net \ {m}
    /\ Fault
    /\ UNCHANGED <<sender, follower>>

-----------------------------------------------------------------------------
(* The processes that may lead have compacted their log; the follower has  *)
(* committed an entry that it has yet to apply.                            *)
Init ==
    /\ sender = [s \in Sender |->
                   [term |-> 0, leading |-> FALSE, snap |-> 1, next |-> 1,
                    match |-> 0, rpc |-> 0, flight |-> NoFlight]]
    /\ follower = [term |-> 0, applied |-> 0, commit |-> 1, inflight |-> FALSE,
                   receive |-> NoReceive, installed |-> NoReceive]
    /\ net = {}
    /\ faults = 0

Deliver(s) ==
    \E m \in net : m.leader = s /\ (HandleInstallSnapshot(m) \/ HandleInstallSnapshotResponse(m))

(* Tick: BroadcastAppendEntries of a leader.                               *)
Tick(s) == StartTransfer(s) \/ Retry(s)

Next ==
    \/ \E s \in Sender :
         \/ Tick(s)
         \/ Deliver(s)
         \/ \E i \in Index : MaybeSnapshot(s, i)
         \/ \E term \in 1..MaxTerm : BecomeLeader(s, term)
         \/ RestartSender(s)
         \/ ObserveTerm(s)
    \/ ApplyCommitted
    \/ FinishApply
    \/ RestartFollower
    \/ \E m \in net : Lose(m)

Spec == Init /\ [][Next]_vars

(* Timers fire, a message that is not lost arrives, and the worker thread  *)
(* finishes the batch it has.                                              *)
Fairness ==
    /\ \A s \in Sender : WF_vars(Tick(s)) /\ WF_vars(Deliver(s))
    /\ WF_vars(FinishApply)

FairSpec == Spec /\ Fairness

-----------------------------------------------------------------------------
(* Properties.                                                             *)

(* What the follower has assembled is a beginning of one snapshot, and     *)
(* what replaces its state machine is that snapshot, whole and once, in    *)
(* whatever order chunks of several leaders, retries and restarts come     *)
(* (HandleInstallSnapshot).                                                *)
InstalledWhole ==
    /\ LET r == follower.receive
       IN r.index > 0 => r.data = SubSeq(Contents[r.index], 1, Len(r.data))
    /\ LET d == follower.installed
       IN d.index > 0 => d.data = Contents[d.index] /\ d.index <= follower.applied

(* A leader takes the follower to hold no more than it durably applied:    *)
(* a "complete" answer is to the transfer in progress, not to an earlier   *)
(* one (HandleInstallSnapshotResponse).                                    *)
AcknowledgedIsApplied ==
    \A s \in Sender : sender[s].leading => sender[s].match <= follower.applied

(* A transfer that is started ends, unless the leader is deposed: a lost   *)
(* chunk is sent again as it was, and a refused one, as a repeated or      *)
(* misplaced one is, starts it again from the first (SendAppendEntries,    *)
(* HandleInstallSnapshotResponse).                                         *)
TransferCompletes ==
    \A s \in Sender :
        sender[s].leading /\ sender[s].next <= sender[s].snap
            ~> ~sender[s].leading \/ sender[s].next > sender[s].snap
=============================================================================
