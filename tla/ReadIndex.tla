----------------------------- MODULE ReadIndex -----------------------------
(***************************************************************************)
(* Linearizable reads of one leadership (src/raft/raft_node.cc,            *)
(* RequestReadIndex and below): the queues of reads, the rounds of probes, *)
(* the one request in flight per peer, callbacks that issue the next read  *)
(* of a pipeline, and their composition with replication, the asynchronous *)
(* state machine, and a rival leader.                                      *)
(*                                                                         *)
(* The log of the leader is entry 1, which a former leader acknowledged to *)
(* its client, the no-op 2, and its own writes.  Time is not modelled:     *)
(* what has timed out is a choice, and so is whether the lease is valid in *)
(* a handler, as long as no rival leads (what its timing is there for).    *)
(* Losses, refusals, disconnections, premature retries and timeouts share  *)
(* a budget.  The leadership ends with Stop, CheckQuorum or a higher term. *)
(***************************************************************************)
EXTENDS Integers, Sequences, FiniteSets, SequencesExt

CONSTANTS
    Peer,           \* the other members
    Flaky,          \* the peers whose requests and links may fail
    Client,
    Lease,          \* --lease_reads
    Pipeline,       \* Pipeline[c]: how many reads c sends at once
    MaxIndex,       \* bound on the leader's log
    MaxPendingReads,\* kMaxPendingReadIndex
    MaxFaults

ASSUME ReadAssumption ==
    Flaky \subseteq Peer /\ Lease \in BOOLEAN /\ MaxIndex \in Nat /\ MaxIndex >= 2

Quorum == (Cardinality(Peer) + 1) \div 2 + 1
NoOp == 2
Rival == MaxIndex + 1       \* stands for the entries only a rival has

VARIABLES
    leader,     \* the leader: role, log, flights and queues
    client,     \* client[c]: what it sends, and whether an answer was stale
    net,        \* messages in transit
    world,      \* the peers, the links to them, and the last acknowledged write
    faults

vars == <<leader, client, net, world, faults>>

-----------------------------------------------------------------------------
NoFlight == [id |-> 0, last |-> 0]

(* What a handler of the leader works on; l.completing stands for          *)
(* _completing_reads, and lease for what ReadLeaseValid returns.           *)
During(lease) == [l |-> leader, c |-> client, n |-> net, lease |-> lease]
Now == During(FALSE)
Becomes(w) == leader' = w.l /\ client' = w.c /\ net' = w.n

Count(w) ==
    Len(w.l.unsent) + Len(w.l.pending)
      + (IF w.l.rounds = <<>> THEN 0 ELSE Len(w.l.rounds[1].requests))

(* A lease excludes a rival: a quorum answered requests that are younger   *)
(* than the time for which a follower refuses to vote.                     *)
ReadLeaseValid ==
    IF Lease /\ leader.leading /\ Cardinality(world.moved) < Quorum THEN BOOLEAN ELSE {FALSE}

Fault == faults < MaxFaults /\ faults' = faults + 1

-----------------------------------------------------------------------------
(* Replication.                                                            *)

Ids(w, p) ==
    {m.id : m \in {x \in w.n : x.peer = p}} \cup {w.l.flight[p].id, 0}
      \cup {w.l.rounds[i].probe[p] : i \in DOMAIN w.l.rounds}

(* An rpc_id that nothing still refers to.                                 *)
NewId(w, p) == CHOOSE i \in 1 .. Cardinality(Ids(w, p)) : i \notin Ids(w, p)

(* A request sent after a round was formed is the round's probe of p.      *)
BindReadIndexProbe(w, p, id) ==
    IF w.l.rounds # <<>> /\ ~w.l.rounds[1].confirmed /\ w.l.rounds[1].probe[p] = 0
    THEN [w EXCEPT !.l.rounds[1].probe[p] = id] ELSE w

(* SendAppendEntries without the retry of a request in flight.             *)
SendAppendEntries(w, p) ==
    LET id == NewId(w, p)
        m == [type |-> "request", peer |-> p, id |-> id]
    IN IF w.l.flight[p].id # 0 \/ p \notin world.linked THEN w
       ELSE BindReadIndexProbe(
              [w EXCEPT !.l.flight[p] = [id |-> id, last |-> w.l.last],
                        !.n = @ \cup {m}], p, id)

SendTo(w, peers) == FoldSet(LAMBDA p, v : SendAppendEntries(v, p), w, peers)

BroadcastAppendEntries(w) == SendTo(w, Peer)

AdvanceCommitIndex(w) ==
    LET held(i) == 1 + Cardinality({p \in Peer : w.l.match[p] >= i}) >= Quorum
        best == CHOOSE i \in 0..w.l.last :
                    (i = 0 \/ held(i)) /\ \A j \in i + 1 .. w.l.last : ~held(j)
        commit == IF best > w.l.commit /\ best >= NoOp THEN best ELSE w.l.commit
    IN [w EXCEPT !.l.commit = commit,
                 !.l.applying = IF @ = 0 /\ commit > w.l.applied THEN commit ELSE @]

-----------------------------------------------------------------------------
(* The queues of reads.                                                    *)

RECURSIVE RequestReadIndex(_, _)

(* The callback of read r: its client is answered, and runs the next read  *)
(* of its pipeline.                                                        *)
Callback(w, r, success) ==
    LET c == r.client
        v == [w EXCEPT !.c[c].busy = FALSE,
                       !.c[c].stale = @ \/ (success /\ w.l.applied < r.need)]
    IN IF v.c[c].todo = 0 THEN v
       ELSE RequestReadIndex([v EXCEPT !.c[c].todo = @ - 1], c)

CallAll(w, rs, success) ==
    FoldLeft(LAMBDA v, r : Callback(v, r, success), w, rs)

(* Mutant: _unsent_reads is not cleared.                                   *)
StartRoundKeepsQueue(w) ==
    IF w.l.unsent = <<>> \/ w.l.rounds # <<>> THEN w
    ELSE [w EXCEPT !.l.rounds = <<[acks |-> {}, requests |-> w.l.unsent,
                                   probe |-> [p \in Peer |-> 0], confirmed |-> FALSE,
                                   late |-> FALSE]>>]

(* TryStartReadRound, for more than one member.                            *)
TryStartReadRound(w) ==
    IF w.l.unsent = <<>> \/ w.l.rounds # <<>> THEN w
    ELSE [w EXCEPT !.l.rounds = <<[acks |-> {}, requests |-> w.l.unsent,
                                   probe |-> [p \in Peer |-> 0], confirmed |-> FALSE,
                                   late |-> FALSE]>>,
                   !.l.unsent = <<>>]

MaybeSendReadProbes(w) ==
    IF w.l.rounds = <<>> \/ w.l.rounds[1].confirmed THEN w
    ELSE SendTo(w, {p \in Peer : w.l.rounds[1].probe[p] = 0})

FinishReadIndexRounds(w) ==
    MaybeSendReadProbes(TryStartReadRound(
        [w EXCEPT !.l.rounds = SelectSeq(@, LAMBDA round : ~round.confirmed)]))

RECURSIVE ServePending(_)
ServePending(w) ==
    IF w.l.pending = <<>> \/ w.l.applied < Head(w.l.pending).index THEN w
    ELSE ServePending(Callback([w EXCEPT !.l.pending = Tail(@)], Head(w.l.pending), TRUE))

(* Mutant: no round is started for the reads that the callbacks queued.    *)
ServePendingOnly(w) ==
    [ServePending([w EXCEPT !.l.completing = TRUE]) EXCEPT !.l.completing = w.l.completing]

ProcessPendingReads(w) ==
    LET v == [ServePending([w EXCEPT !.l.completing = TRUE])
                EXCEPT !.l.completing = w.l.completing]
    IN IF w.l.completing THEN v ELSE FinishReadIndexRounds(v)

RequestReadIndex(w, c) ==
    LET r == [client |-> c, index |-> w.l.commit, need |-> world.acked, lease |-> w.lease]
        v == [w EXCEPT !.c[c].busy = TRUE]
    IN IF ~w.l.leading \/ ~w.l.canServe \/ Count(w) >= MaxPendingReads
       THEN Callback(v, r, FALSE)
       ELSE IF w.lease
       THEN IF w.l.applied < r.index \/ w.l.completing
            THEN [v EXCEPT !.l.pending = Append(@, r)]
            ELSE ProcessPendingReads(
                   [Callback([v EXCEPT !.l.completing = TRUE], r, TRUE)
                      EXCEPT !.l.completing = FALSE])
       ELSE LET u == [v EXCEPT !.l.unsent = Append(@, r)]
            IN IF w.l.completing THEN u ELSE FinishReadIndexRounds(u)

(* A read of a round that a quorum has confirmed waits for the state       *)
(* machine at most.                                                        *)
ProcessConfirmedRound(w) ==
    LET serve(v, r) == IF v.l.applied >= r.index THEN Callback(v, r, TRUE)
                       ELSE [v EXCEPT !.l.pending = Append(@, r)]
    IN [FoldLeft(serve, [w EXCEPT !.l.rounds[1].requests = <<>>, !.l.completing = TRUE],
                 w.l.rounds[1].requests)
          EXCEPT !.l.completing = w.l.completing]

(* Mutant: a request that was in flight before the round counts as probe.  *)
AckAnyFlight(w, p, id, late) ==
    IF w.l.rounds = <<>> \/ w.l.rounds[1].confirmed THEN w
    ELSE LET v == [w EXCEPT !.l.rounds[1].acks = @ \cup {p}]
         IN IF 1 + Cardinality(v.l.rounds[1].acks) < Quorum THEN v
            ELSE ProcessConfirmedRound([v EXCEPT !.l.rounds[1].confirmed = TRUE])

(* The answer to request id of p, which is in flight.  Only the probe of   *)
(* the round counts, and not when it is late: the round became too old     *)
(* since CheckReadIndexTimeout looked.                                     *)
AckReadIndexProbe(w, p, id, late) ==
    IF w.l.rounds = <<>> \/ w.l.rounds[1].confirmed \/ w.l.rounds[1].probe[p] # id THEN w
    ELSE IF late THEN [w EXCEPT !.l.rounds[1].late = TRUE]
    ELSE LET v == [w EXCEPT !.l.rounds[1].acks = @ \cup {p}]
         IN IF 1 + Cardinality(v.l.rounds[1].acks) < Quorum THEN v
            ELSE ProcessConfirmedRound([v EXCEPT !.l.rounds[1].confirmed = TRUE])

RECURSIVE Expire(_, _, _)
Expire(w, queue, k) ==
    IF k = 0 THEN w
    ELSE Expire([Callback(w, Head(w.l[queue]), FALSE) EXCEPT !.l[queue] = Tail(@)],
                queue, k - 1)

(* CheckReadIndexTimeout when the round, if old.round, and the first       *)
(* old.unsent and old.pending reads of the queues are too old.             *)
CheckReadIndexTimeout(w, old) ==
    LET v == [w EXCEPT !.l.completing = TRUE]
        u == IF old.round /\ w.l.rounds # <<>>
             THEN [CallAll(v, w.l.rounds[1].requests, FALSE) EXCEPT !.l.rounds = <<>>]
             ELSE v
    IN [Expire(Expire(u, "unsent", old.unsent), "pending", old.pending)
          EXCEPT !.l.completing = w.l.completing]

(* BecomeFollower: every read fails, in the order of ClearReadIndexQueues. *)
(* What is still on the way belongs to a leadership that is over.          *)
BecomeFollower(w) ==
    LET l == [w.l EXCEPT !.leading = FALSE, !.canServe = FALSE,
                         !.flight = [p \in Peer |-> NoFlight],
                         !.unsent = <<>>, !.rounds = <<>>, !.pending = <<>>]
        reads == (IF w.l.rounds = <<>> THEN <<>> ELSE w.l.rounds[1].requests)
                   \o w.l.unsent \o w.l.pending
    IN CallAll([w EXCEPT !.l = l, !.n = {}], reads, FALSE)

-----------------------------------------------------------------------------
(* Actions of the leader.                                                  *)

(* A round that was found too old stays so.                                *)
Late == leader.rounds # <<>> /\ leader.rounds[1].late

Timeouts ==
    {[round |-> r, unsent |-> u, pending |-> p] :
        r \in IF Late THEN {TRUE} ELSE BOOLEAN, u \in 0..Len(leader.unsent), p \in 0..Len(leader.pending)}
None == [round |-> FALSE, unsent |-> 0, pending |-> 0]

(* The GETs of a client arrive: the first is executed, the others wait in  *)
(* its session.                                                            *)
Get(c) ==
    /\ client[c].left > 0
    /\ \E lease \in ReadLeaseValid :
         Becomes(RequestReadIndex([During(lease) EXCEPT !.c[c].todo = client[c].left - 1,
                                                        !.c[c].left = 0], c))
    /\ UNCHANGED <<world, faults>>

(* ProposeBatch of a write.                                                *)
Propose ==
    /\ leader.leading /\ leader.last < MaxIndex
    /\ Becomes(BroadcastAppendEntries([Now EXCEPT !.l.last = @ + 1]))
    /\ UNCHANGED <<world, faults>>

InTransit(p) == {m \in net : m.peer = p /\ m.id = leader.flight[p].id}

(* What has timed out, which is a fault unless nothing has.                *)
Expired(old) ==
    IF [old EXCEPT !.round = @ /\ ~Late] = None THEN UNCHANGED faults ELSE Fault

(* Tick of a leader: idle peers are sent to, what was lost is sent again,  *)
(* old reads fail, and CheckQuorum finds a quorum or steps down.           *)
Heartbeat(w0, old, alone) ==
    LET lost == {p \in world.linked : leader.flight[p].id # 0 /\ InTransit(p) = {}}
        again == {[type |-> "request", peer |-> p, id |-> leader.flight[p].id] : p \in lost}
        w == CheckReadIndexTimeout(
                 BroadcastAppendEntries([w0 EXCEPT !.n = @ \cup again]), old)
    IN IF alone THEN BecomeFollower(w) ELSE FinishReadIndexRounds(w)

Tick ==
    /\ leader.leading
    /\ \E old \in Timeouts, alone \in BOOLEAN, lease \in ReadLeaseValid :
         /\ Expired(old)
         /\ old = None => ~lease        \* no callback asks for it
         /\ Becomes(Heartbeat(During(lease), old, alone))
    /\ UNCHANGED world

(* A request is sent again while its answer is still on the way.           *)
RetryEarly(p) ==
    /\ leader.leading /\ leader.flight[p].id # 0 /\ p \in world.linked
    /\ \E m \in InTransit(p) : m.type = "response"
    /\ net' = net \cup {[type |-> "request", peer |-> p, id |-> leader.flight[p].id]}
    /\ Fault
    /\ UNCHANGED <<leader, client, world>>

(* HandleAppendEntriesResponse for the flight of p.                        *)
Acknowledged(w, p, success) ==
    LET last == w.l.flight[p].last
        v == [w EXCEPT !.l.flight[p] = NoFlight]
        u == AdvanceCommitIndex([v EXCEPT !.l.match[p] = IF @ >= last THEN @ ELSE last])
        x == FinishReadIndexRounds(u)
        y == IF u.l.commit > w.l.commit THEN BroadcastAppendEntries(x) ELSE x
    IN IF ~success THEN SendAppendEntries(FinishReadIndexRounds(v), p)
       ELSE IF u.l.match[p] < u.l.last THEN SendAppendEntries(y, p) ELSE y

HandleAppendEntriesResponse(m) ==
    LET p == m.peer
        matches == leader.flight[p].id # 0 /\ m.id = leader.flight[p].id
        w(lease) == [During(lease) EXCEPT !.n = @ \ {m}]
        handled(v, late) ==
            IF matches THEN Acknowledged(AckReadIndexProbe(v, p, m.id, late), p, m.success)
            ELSE FinishReadIndexRounds(v)
        answers == leader.rounds # <<>> /\ m.id = leader.rounds[1].probe[p]
    IN /\ m.type = "response"
       /\ \/ /\ m.higher
             /\ Becomes(BecomeFollower(w(FALSE)))
             /\ UNCHANGED faults
          \/ /\ ~m.higher
             /\ \/ \E old \in Timeouts, lease \in ReadLeaseValid :
                     /\ Expired(old)
                     /\ Becomes(handled(CheckReadIndexTimeout(w(lease), old), FALSE))
                \/ /\ matches /\ answers /\ ~Late
                   /\ Fault
                   /\ Becomes(handled(w(FALSE), TRUE))
       /\ UNCHANGED world

(* The worker's completion: FinishApply, then ApplyCommitted.              *)
FinishApply ==
    /\ leader.applying # 0
    /\ LET done == leader.applying
           l == [leader EXCEPT !.applied = done,
                   !.applying = IF leader.commit > done THEN leader.commit ELSE 0,
                   !.canServe = @ \/ (leader.leading /\ leader.commit >= NoOp)]
       IN /\ \E lease \in ReadLeaseValid :
               Becomes(ProcessPendingReads([During(lease) EXCEPT !.l = l]))
          /\ world' = IF leader.leading /\ done > world.acked
                      THEN [world EXCEPT !.acked = done] ELSE world
    /\ UNCHANGED faults

(* Stop, or a request of a higher term.                                    *)
StepDown ==
    /\ leader.leading
    /\ Becomes(BecomeFollower(Now))
    /\ UNCHANGED <<world, faults>>

-----------------------------------------------------------------------------
(* The rest of the cluster.                                                *)

(* HandleAppendEntries of a peer: it has moved on to a higher term, or     *)
(* agrees; a peer whose log lags refuses.                                  *)
HandleAppendEntries(m) ==
    /\ m.type = "request"
    /\ \E higher, success \in BOOLEAN :
         /\ higher = (m.peer \in world.moved)
         /\ net' = (net \ {m}) \cup {[type |-> "response", peer |-> m.peer, id |-> m.id,
                                     success |-> success, higher |-> higher]}
         /\ IF higher THEN ~success /\ UNCHANGED faults
            ELSE IF success THEN UNCHANGED faults ELSE m.peer \in Flaky /\ Fault
    /\ UNCHANGED <<leader, client, world>>

(* A peer votes for a rival, which with a quorum has acknowledged a write  *)
(* of its own: it could only do so later.                                  *)
VoteForRival(p) ==
    LET moved == world.moved \cup {p}
    IN /\ leader.leading /\ p \notin world.moved
       /\ world' = [world EXCEPT !.moved = moved,
                                 !.acked = IF Cardinality(moved) >= Quorum THEN Rival ELSE @]
       /\ UNCHANGED <<leader, client, net, faults>>

Lose(m) ==
    /\ m.peer \in Flaky
    /\ net' = net \ {m}
    /\ Fault
    /\ UNCHANGED <<leader, client, world>>

Disconnect(p) ==
    /\ leader.leading /\ p \in world.linked
    /\ world' = [world EXCEPT !.linked = @ \ {p}]
    /\ Fault
    /\ UNCHANGED <<leader, client, net>>

Reconnect(p) ==
    /\ p \notin world.linked
    /\ world' = [world EXCEPT !.linked = @ \cup {p}]
    /\ UNCHANGED <<leader, client, net, faults>>

-----------------------------------------------------------------------------
(* BecomeLeader has just proposed the no-op and sent it.                   *)
Init ==
    /\ world = [moved |-> {}, linked |-> Peer, acked |-> 1]
    /\ client = [c \in Client |->
                   [left |-> Pipeline[c], todo |-> 0, busy |-> FALSE, stale |-> FALSE]]
    /\ leader = [leading |-> TRUE, canServe |-> FALSE, commit |-> 0,
                 applied |-> 0, applying |-> 0, last |-> NoOp,
                 match |-> [p \in Peer |-> 0],
                 flight |-> [p \in Peer |-> [id |-> 1, last |-> NoOp]],
                 unsent |-> <<>>, rounds |-> <<>>, pending |-> <<>>, completing |-> FALSE]
    /\ net = [type : {"request"}, peer : Peer, id : {1}]
    /\ faults = 0

Deliver == \E m \in net : HandleAppendEntries(m) \/ HandleAppendEntriesResponse(m)

Next ==
    \/ \E c \in Client : Get(c)
    \/ Propose
    \/ Tick
    \/ Deliver
    \/ FinishApply
    \/ StepDown
    \/ \E p \in Peer : VoteForRival(p)
    \/ \E p \in Flaky : RetryEarly(p) \/ Disconnect(p) \/ Reconnect(p)
    \/ \E m \in net : Lose(m)

Spec == Init /\ [][Next]_vars

-----------------------------------------------------------------------------
(* A read that is served sees every write that was acknowledged before it  *)
(* was issued, whichever leader acknowledged it: the answer to a request   *)
(* sent after the read, in the leader's term, by a quorum, and the no-op,  *)
(* are what RequestReadIndex rests on.                                     *)
ReadsAreFresh == \A c \in Client : ~client[c].stale

(* All requests that wait for an answer.                                   *)
Queued ==
    leader.unsent \o leader.pending
      \o (IF leader.rounds = <<>> THEN <<>> ELSE leader.rounds[1].requests)

(* A read that has no answer is in exactly one queue, once, and a queue    *)
(* holds no other: callbacks that queue the next read, timeouts and loss   *)
(* of leadership neither lose a callback nor call it twice                 *)
(* (RequestReadIndex, ProcessConfirmedRound, ClearReadIndexQueues).        *)
ReadsQueuedOnce ==
    /\ ~leader.completing
    /\ \A c \in Client :
         Len(SelectSeq(Queued, LAMBDA r : r.client = c)) = (IF client[c].busy THEN 1 ELSE 0)

(* A waiting read has something outstanding that will serve it: an unsent  *)
(* read the round before it; a round, per peer, an answer, a probe that is *)
(* the request in flight, or no probe yet, unless it is too old and fails  *)
(* at the next check; a pending read the worker, which is applying.  There *)
(* is one exception, which PendingWaitsForApply is about: a read queued    *)
(* under the lease by the callback of another read, whose entry is         *)
(* applied already, may be left with nothing but its timeout.              *)
ReadsOnTheirWay ==
    /\ leader.unsent # <<>> => leader.rounds # <<>>
    /\ \A i \in DOMAIN leader.rounds :
         LET round == leader.rounds[i]
         IN /\ ~round.confirmed /\ round.requests # <<>>
            /\ \A p \in Peer : round.probe[p] # 0 /\ p \notin round.acks /\ ~round.late
                                => round.probe[p] = leader.flight[p].id
    /\ \A i \in DOMAIN leader.pending :
         LET r == leader.pending[i]
         IN leader.applying # 0 \/ (r.lease /\ r.index <= leader.applied)

(* What raft_node.h says of _pending_reads, "Waiting for lastApplied >=    *)
(* readIndex": a read that waits there waits for the state machine, and is *)
(* not left when its entry has been applied.                               *)
PendingWaitsForApply ==
    \A i \in DOMAIN leader.pending : leader.applied < leader.pending[i].index
=============================================================================
