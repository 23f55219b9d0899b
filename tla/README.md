# Raft-KV in TLA+

A verification project for Raft-KV, a key-value store that three processes
replicate with Raft. The TLA+ modules model the program under `src/`, TLC checks
them on small instances, and TLAPS proves many of their safety properties for
every value of the constants. `PROJECT.json` maps every definition to the lines
it models.

## The system

Each process runs one event loop. All of `RaftNode` runs on that thread, one
callback at a time. One worker thread applies committed batches to the state
machine when `--async_apply` is on. Two RocksDB databases hold the durable
state: the Raft log and the key-value data. Every write to them is a synced,
atomic batch. A storage exception stops the process.

| Part | State | Operations | What makes it hard |
|---|---|---|---|
| Consensus core, `raft/raft_node.cc` | term, vote, role, votes, commit and apply index, next/match index and one RPC in flight per peer | six message handlers, `Tick`, `ProposeBatch`, `FinishApply`, construction, `Start`, `Stop` | lost, delayed and repeated messages; crashes between durable writes; elections that overlap |
| ReadIndex and lease, `raft_node.cc` | three request queues, one probe round, lease evidence | `RequestReadIndex`, probe binding and acknowledgement, timeouts | late acknowledgements, re-entrant callbacks, clocks |
| Raft log store, `raftcore/raft_log.cc` | entries, tail record, hard state, snapshot, install intent | append, truncate, compact, stage, install, open | crashes between the writes of two databases |
| Snapshot transfer, `raft_node.cc` | send offset, receive buffer | chunk send, chunk receive, restart of a transfer | lost and repeated chunks, a snapshot that moves on |
| State machine and store, `raft/kv_state_machine.cc`, `storage/` | keys, client sessions, `lastApplied` | `ApplyBatch`, export, replace | a batch must equal its commands one by one |
| Apply executor, `raft/serial_apply_executor.cc` | one job, busy and stopping flags | `Submit`, `Run`, `Stop` | two threads, shutdown |
| Peer connections, `raft/peer_manager.cc`, `common/peer_retry_policy.h` | connection per peer, retry token | connect, disconnect, register, delayed reconnect | callbacks of replaced connections, timers that fire late |
| Client sessions, `server/main.cpp`, `common/session_queue.h` | command queue, executing and waiting flags | drain, execute, complete, close | pipelining, backpressure, disconnects |
| Write batching, `server/main.cpp`, `common/batch_flush_policy.h` | queued writes, flush token | submit, schedule, flush | timers that fire after cancellation |
| Namespaces, `namespace/namespace_manager.cc` | a name per connection | `SELECT`, lookup, removal | a write's key is made when it is submitted, so no later `SELECT` may overtake it |

The parts meet as follows. Client sessions turn commands into queued writes. A
flush proposes them as one batch to the consensus core. The core appends them to
the log store, replicates them over the peer connections and, once they are
committed, hands batches to the executor. The executor applies them to the state
machine, and the completion answers the clients. A read goes from the session to
the core's ReadIndex queues, and comes back when a round of probes or the lease
shows that the leader is current and the state machine has caught up.

| Module | Models | Instance | Proofs |
|---|---|---|---|
| `RaftNodeState`, `RaftNode` | the consensus core of all nodes and the network | `MCRaftNode`, four runs | `RaftHistory`, `RaftNodeLemmas`, `RaftHistoryProofs`, `RaftSafetyLemmas`, `RaftSafetySteps`, `RaftNodeProofs` |
| `ReadIndex` | reads of one leader, with its peers, clients and a rival | `MCReadIndex`, two runs | |
| `RaftLog`, `DurableLog` | the two databases of a process, and what they promise | `RaftLog.cfg` | |
| `KVStateMachine` | what commands do | `KVStateMachine.cfg` | |
| `ApplyPipeline` | the event loop and the worker thread of a process | `ApplyPipeline.cfg` | `ApplyPipelineProofs` |
| `SnapshotTransfer` | chunks between leaders and one follower | `MCSnapshotTransfer` | `SnapshotTransferProofs` |
| `PeerManager` | the connections of a pair of nodes | `PeerManager.cfg` | `PeerManagerProofs` |
| `ClientSession` | the clients of one server, and its write batch | `MCClientSession` | |

## Modules

### `RaftNodeState` and `RaftNode`: the consensus core

`RaftNodeState` has the constants, the state, the messages and the properties of
states; `RaftNode` has the steps. `RaftHistory` and the lemmas about histories
need only the first.

`node[i]` is the state of process *i*: its `RaftNode` fields and the contents of
its two databases. `msgs` is the set of messages in transit. Every action is one
callback, run to its end with everything it calls. The member functions are
operators from a node state to the next one and keep the names of the source:
`BecomeFollower`, `AdvanceCommitIndex`, `ApplyCommitted`, `MaybeSnapshot`,
`SendAppendEntries` and so on. An operation of the code that calls another one
last is an operator that ends in the other: `ProposeBatch` is
`AdvanceCommitIndex` of `BroadcastAppendEntries`.

| Action | Code |
|---|---|
| `ElectionTimeout` | `Tick` of a node that is not leader, past its deadline |
| `LeaderTick` | `Tick` of a leader: heartbeats, retries, `CheckQuorum` |
| `ClientPropose` | `ProposeBatch` |
| `FinishApply` | the executor's write and its completion callback |
| `Restart` | a crash between callbacks, the constructor, `Start` |
| `CrashInHandler` | a crash between two durable writes of one handler, then recovery |
| `Handle...` | the six message handlers |

Abstractions, and why they are sound for the properties checked:

- **Time.** A deadline may pass at any moment and `CheckQuorum` may fail at any
  moment. A follower that knows a leader may refuse a vote or not. The real
  program's behaviours are among these.
- **Messages.** A message may get lost, which is decided when it is sent, and may
  overtake others. TCP keeps the order on one connection, but a connection is
  replaced while old data is still being handled. `Links` is the set of peer sets
  that a callback may find connected.
- **`rpc_id`.** A response names the request it answers by its contents. Two
  requests of one term with equal contents are not told apart. The code tells
  them apart, so the model allows more.
- **Snapshots.** The data of a snapshot is the sequence of entries it stands for.
  It travels in one chunk. Installation is atomic, because a durable intent
  redoes it after a crash (checked in `RaftLog`). Snapshots past the size limit
  are left out.
- **Compaction.** `log` keeps the compacted prefix so that properties can compare
  logs. `GetTerm` hides it from the protocol, as on disk.
- **The executor.** Its durable write and the completion are one step. A crash
  between them leaves the same disks as a crash right after the completion.
- **The state machine.** `kv` is the sequence of applied entries. Two state
  machines that applied the same commands in the same order are equal
  (checked in `KVStateMachine`).

Proposal callbacks and their expiry, admission limits, and `Stop` followed by
`Start` are in `ApplyPipeline`, reads in `ReadIndex`.

### `MCRaftNode`: instances for TLC

It limits the number of election timeouts, crashes and messages in transit, and
does not follow responses that their addressee would ignore from then on.
Ignoring a response leaves the same state as losing it, and loss is explored.
`DivergentInit` is a state the program reaches: node *a* led term 1 alone, *b*
led term 2 with *c*'s vote, neither replicated anything, and all restarted.

The module also holds the loop of `ConflictIndex`. `RaftNode` defines the index
as the first of its term; the assumption `SearchIsExact`, which TLC evaluates in
each run, says that the binary search finds it in every log of six entries in
three terms, with the snapshot boundary anywhere.

### `RaftLog` and `DurableLog`: the databases of a process

`db` holds the records of the Raft log database under their keys: entries, tail,
hard state, snapshot and install intent. `kv` is the key-value database, and
`mem` the fields that mirror both. Every action makes at most one synced write,
so `Crash` falls between any two writes, also between those of recovery. `pc`
names the next write where an operation has several:

| Operation | Writes, in order |
|---|---|
| snapshot installation | `StageSnapshotInstall`, `ReplaceStateMachine`, `FinishInstall` |
| opening | `OpenLog` (tail of a scanned log), `ReplayStateMachine`, `ReplayLog`, `FinishOpen` (no write) |

An exception of a constructor or of the install path leads to `pc = "failed"`.
The worker thread's write is `ApplyBatch`; log writes interleave with it. What
the consensus core may ask for is taken from its guards. Entries are appended
with terms that do not decrease. Committed entries are not truncated. A leader's
snapshot (`Offered`) agrees with what is committed here, which rests on the
properties checked of `RaftNode`. `Init` is an empty pair of databases or one
whose log has no tail record yet.

`DurableLog` is what this promises: a saved term, a snapshot, the entries after
it, and a state machine that applied a prefix, each changed in one step, with no
crashes at all. `RaftLog` implements it. The refinement mapping reads only the
disks. It counts a snapshot as installed from the moment its intent is durable.

### `KVStateMachine`: commands, replies and client sessions

`log` is the committed log. Each replica applies it in batches of its own choice
(`ApplyBatch`) or takes over another one's state (`InstallSnapshot`). `Outcome`
is `ApplyBatch` in its two passes. `Interpret` goes over the commands before
anything is written, and `Mutate` is the store's pass. The reference is
declarative: the value of a key is that of the last entry that wrote it and took
effect, where an `IDEMP` request takes effect unless its client already used an
id as large. It mentions neither batches nor sessions.

### `ApplyPipeline`: event loop, worker thread and clients' callbacks

`raft` holds the fields of `RaftNode` that take part in applying, and the
executor's fields under its mutex. `worker` is where the worker thread is and the
job it holds, `sm` what the state machine has durably applied, `posted` the
completions queued for the event loop, and `owner` whether the owning thread is
in its loop or tearing down. A callback of the loop is one action. The worker
takes one step per critical section: it takes a job (`Take`), applies it (`Work`), marks
itself idle (`ClearBusy`), and posts the completion (`Post`). Marking and posting
are separate critical sections in the code, so callbacks run between them.

The rest of the cluster is reduced to what it can make this process do: elect it,
depose it, acknowledge its entries, replace the uncommitted ones, commit them, or
send a snapshot. `Stop` and `Start` model a node stopped and started in one
process with a batch still at the executor. `StorageFails` is a storage exception
of the worker, which ends the process. Teardown follows the order in which `main`
destroys its objects: Raft node, executor, state machine.

### `SnapshotTransfer`: chunks

`sender[s]` is what process *s* keeps as leader about one lagging follower: its
snapshot, offset and request in flight. `follower` is the applied index and the
receive buffer, `net` the messages in transit. A leader reads a chunk, waits for
its answer, retries after a timeout, and starts over after a refusal. It may
compact during a transfer, which restarts it, or when the last chunk is
acknowledged, where the trailing `SendAppendEntries` starts the next transfer.
The follower refuses while its executor is busy, and answers at once for a
snapshot it has passed.

Left out: the limit on a snapshot's size; the term of the included index, a
function of the index by `StateMachineSafety` of `RaftNode`; and the append
requests that follow a completed transfer. The comment at `raft_node.cc:565` says
that the leader retries a chunk refused by a busy follower. The code restarts the
transfer at offset 0, which is what the model does.

### `PeerManager`: one pair of nodes

Pairs share no state, so one pair shows what can happen: a dialer (the smaller
id) and an acceptor. `manager` is each side's route and the connections bound to
the peer, `dial` the TCP client, the retry policy and the timers, and `link` the
connections ever made. Each end learns of a break in its own time. Frames are
sequences of bytes with a length in front. A read takes any number of bytes, so a
frame may be cut anywhere. `Send` writes a whole frame or nothing. A frame that
arrives makes its connection the route (`Registered`). The acceptor cannot send
before the dialer has spoken, because it does not know whose connection it is.

Left out: the delays of the retry policy, validation of the peer list, and
malformed frames.

### `ClientSession`: connections, commands and the write batch

`session[c]` is a connection with its input buffer, command queue and flags.
`flush` is the shared batch, the flush policy, its timers and its functors.
`raft` is whether the node leads and what Raft still has to answer. What Raft
answers, and when, is open. A command is known by its position in what its client
sends, so a reply names the command it answers. The member functions are
operators from a world to the next one. Completions that run inside another
callback are calls of those operators, as in the code.

A session whose input ends in an incomplete frame re-schedules its drain on every
turn of the loop. The model does this too; a drain that changes nothing does not
count as a step of a busy server in the fairness condition.

Left out: the limit on the number of queued writes beside that on their bytes,
the limits on input and output of all clients together, the number of clients,
and the reply to an oversized command. They act like the limits that are
modelled.

### `ReadIndex`: reads of one leadership

`leader` is the leader's role, log, requests in flight and three queues, `client`
what each client has sent and whether an answer was stale, `world` the peers, the
links and the last write acknowledged anywhere. The log starts with an entry that
the predecessor acknowledged to its client and the no-op of the new term. The
leader does not know at first that this entry is committed. A rival gathers votes
among the peers and, with a quorum, acknowledges writes the leader never sees.

A round registers the number of its probe with the request in flight. A request
sent before the round does not count for it. Callbacks issue the client's next
read while the round is being walked, which the code guards with
`_completing_reads`. Replication and the asynchronous state machine are composed
in: a read waits until its index is applied.

Whether the lease is valid is a choice as long as no rival leads, so the module
*assumes* that the lease excludes a rival. That depends on clocks, and on a
follower not forgetting its leader in a restart. Request numbers are renamed to
the smallest ones unused, which changes nothing since they are only compared.

## Runs

The four runs of `MCRaftNode` use three nodes, one client command and symmetry
over the nodes. Three
nodes are the smallest cluster with a quorum that is not everybody, and what the
program is deployed with. One command is enough: entries differ by term, and a
no-op from a command. Deadlock is not checked, since an instance really stops
once its timeouts and messages are used up. `KVStateMachine` stops at the end of
its log, and `SnapshotTransfer` and `ReadIndex` stop with their work done or their
bounds reached. In the other runs deadlock is checked.

| Run | Instance | Shows |
|---|---|---|
| `Elections` | 2 timeouts, 1 crash, terms up to 2, 2 messages in transit, a snapshot after every entry | one leader per term, later leaders hold what is committed, durable state only advances |
| `DivergentLogs` | logs of two isolated leaders, then 2 timeouts, 1 crash, terms up to 4 | log matching over truncation, no committed entry loses its quorum or can be replaced |
| `Replication` | one leader, asynchronous application, snapshots every 2 entries, batches of 2, 1 crash | state machines agree, databases consistent with each other, match indexes never overstated, every request valid for its receiver |
| `RaftLog` | 3 indexes, 2 terms, 2 commands, any number of crashes | opening never fails, memory describes the disk, `DurableLog` is implemented, crashes and recovery change nothing that can be seen |
| `KVStateMachine` | 2 replicas, logs of 4 commands on one key, one client with 2 request ids | state and replies do not depend on batches or snapshots; a retry takes effect once |
| `ApplyPipeline` | log of 4, batches of 2, 2 proposals, at most 3 pending | every callback gets one true answer, the executor never refuses a batch, only one thread writes the state machine; proposals are answered, the backlog is applied, teardown ends |
| `SnapshotTransfer` | 2 leaders, snapshots of 1 and 3 chunks, 2 terms, 1 fault | only whole snapshots are installed, acknowledged means applied; a leader that stays completes the transfer |
| `PeerManager` | 2 frame lengths, output limit of 3 bytes, 2 breaks or restarts | the dialer does one thing at a time, frames arrive whole and in order; the dialer comes to hold one open connection, and while it keeps sending both sides route to it |
| `ClientSession` | 2 clients, 4 workloads, every queue limited to 2 to 4 | replies in order, no queued write forgotten, one command outstanding per connection, each write in its namespace; no session stalls |
| `ReadIndex` | 2 peers of which one fails, 2 clients with 3 reads, log of 3, 1 fault | no read misses an acknowledged write, none is queued twice or lost, each is on its way to an answer, but for the lease reads of `LeasePipeline` |
| `LeasePipeline` | as `ReadIndex`, without faults | **violated**: reads in `_pending_reads` wait for `lastApplied` |
| `UnequalSnapshots` | one leader, snapshots every 2 entries, batches of 1 | **violated**: a rejected append request need not make progress |

The bounds are chosen by what must be able to happen. Two timeouts let two
candidates compete or one succeed the other. A crash can fall between any two
durable writes. `Elections` and `DivergentLogs` leave the log to the no-ops of
new leaders, which is where commitment across terms is decided. In `Elections`
each node compacts whatever it applies, so that the first leader's snapshot can
reach a follower that has applied the second one's entry. `Replication` lets compaction, a snapshot transfer and an append request for the same peer
overlap. In `RaftLog`, three indexes are enough for a snapshot behind which an
entry is compacted, one is replaced by a second snapshot and one stays. In
`KVStateMachine`, four commands hold a request, a conflicting write, a later
request and a retry. In `ApplyPipeline`, a log of four holds a batch at the
executor and a backlog of another one behind it, with a proposal in each. In
`SnapshotTransfer`, three chunks have a first, a middle and a last one, and two
leaders can have chunks of different snapshots in transit to one buffer. In
`PeerManager`, two faults let a connection be replaced and its replacement break,
and the output limit is below two frames. The limits of `ClientSession` make each
queue overflow in some workload; one workload has a `SELECT` before, between and
behind writes. The failing peer of `ReadIndex` may be fixed
because the two are alike; the other one alone makes a quorum with the leader,
and so does the rival with the failing one. Each property has a mutation of the code, listed in `PROJECT.json`, that
TLC shows to break it in the same instance.

### Fairness

Safety needs none, and the runs of `RaftNode`, `RaftLog` and `KVStateMachine`
check safety only. Elsewhere, weak fairness is assumed of exactly these steps.

- `ApplyPipeline`: the operating system runs the worker; the loop runs its queue
  and `Tick`, hence expiry; destructors run once begun. Nothing is assumed of the
  cluster, so proposals are answered even if nothing is ever committed.
- `SnapshotTransfer`: a leader's `Tick`, delivery of what is in transit and not
  lost, and the end of the batch at the executor. Faults are finite.
- `PeerManager`: the connector succeeds in the end, timers fire, each end learns
  of a break, and the acceptor reads what has come. Nothing is assumed of what
  either side sends: two followers of a third node have nothing to say to each
  other. So `LinkHeals` promises the connection without condition, and the
  acceptor's route to it only if the dialer sends again and again, as a leader
  does. Until then an acceptor may have a connection and no route, and its own
  messages to the dialer are dropped.
- `ClientSession`: the server does not stop while it has something to do (`Busy`).
  One condition over all of its steps is weaker than one for each.
- `ReadIndex`: none. That reads are on their way is an invariant: an unsent read
  has a round before it, a round its probes, and a pending read a batch that is
  being applied. The exception is a lease read that was queued by a callback when
  its entry had been applied: nothing need serve it (see `LeasePipeline` below).

### Findings

`UnequalSnapshots` checks what the root `README.md` says of rejected requests:
the leader goes back to the start of the conflicting term, or installs a
snapshot. The counterexample takes these steps.

1. The leader has compacted up to index 2 and sends entry 3 after index 2, with
   commit index 3.
2. The follower appends and applies entry 3 and compacts up to index 3. Its
   answer is lost.
3. The leader sends the same request again. The follower no longer knows the term
   of index 2, so it rejects, with the hint that it holds nothing before index 3.
4. The leader keeps `nextIndex` at 3, its known match plus one. Its own snapshot
   ends below that, so it sends the same request again.

Steps 3 and 4 repeat until the leader itself compacts past index 3, which needs
more entries to be committed. With the other replica up, the cluster still
commits, and the follower is brought back by a snapshot later.

`LeasePipeline` checks what `raft_node.h:245` says of `_pending_reads`: its reads
wait for `lastApplied >= readIndex`. The counterexample takes these steps.

1. With lease reads on and no valid lease yet, a client pipelines two `GET`s. The
   first one waits for a round.
2. The lease becomes valid while the first read waits: the 300 ms since the
   election pass (`raft_node.cc:310`), or the other peer acknowledges an ordinary
   request. The acknowledgement that confirms the round does not do it, since
   `AckReadIndexProbe` (507-508) comes before `_lease_confirmed` is set (522-523).
3. A quorum confirms the round. The first read's callback runs the second `GET`
   from within `ProcessConfirmedRound`.
4. The lease is valid and the index is applied, but a completion is in progress,
   so the second read goes to `_pending_reads` (`raft_node.cc:950`). Nothing
   drains that queue when the outer completion ends.

The read waits until the next entry is applied or a later lease read drains the
queue. On an idle server it fails with the apply timeout.

## Proofs

`RaftNodeProofs` states the theorems about `RaftNode`. They hold for every
non-empty finite set of nodes, any set of commands, either mode of application,
and any snapshot threshold, batch size, connectivity and bound:

| Theorem | `Spec => []...` |
|---|---|
| `TypeCorrect` | `TypeOK` |
| `RecoveryIsConsistent` | `StoresConsistent`: the checks of the constructor never fail after a crash, and no committed entry is missing |
| `OneLeaderPerTerm` | `ElectionSafety` |
| `LogsAlwaysMatch` | `LogMatching` |
| `LeadersAlwaysComplete` | `LeaderCompleteness` |
| `StateMachinesNeverDiverge` | `StateMachineSafety` |
| `CommittedEntriesStay` | `CommittedOnQuorum` |
| `MatchIndexAlwaysSound` | `MatchIndexSound` |
| `RequestsAlwaysValid` | `RequestsAreValid` |
| `CommittedNeverReplaced` | `NoCommittedEntryReplaced` |

The assumptions are those of `RaftNode`: the node set is finite and non-empty,
`None` is not a node, `NoOp` is not a client command, and the bounds are natural
numbers. Two facts come from the library: a non-empty set of naturals has a least
element (`LeastExists`), and two quorums intersect (`QuorumsMeet`). The invariants
carry them as conjuncts, so that the steps need no library.

The argument has two invariants.

**One node** (`RaftNodeLemmas`, theorem `Invariance`). `IndInv` gives the first two
theorems, neither of which is inductive. It says of each node that terms in the
log are positive, never decrease and never exceed the current term, that a batch
at the executor ends within the committed log, and that next and match indexes
are in range. It says of every message in transit and of every request in flight
what its sender guaranteed: entries carry terms no later than the request's, and
a snapshot's data is as long as its index says. The messages are needed because a
follower builds its log and its state machine from them.

**All nodes** (`RaftHistory`, theorem `HistoryExists`). The code remembers neither
old votes nor old leaders' logs, and the safety of Raft is about them. The model
gets no history variables. Instead the invariant `History` says that *some*
history explains the present state: who voted for whom in each term (`voted`),
the log each candidate stood with (`bid`), the log of each term's leader at its
longest (`led`), and how far each node has acknowledged it (`acked`). Its parts:

- a node's present vote, role, log and indexes agree with the history (`NodeOK`);
- an entry of any log came from the leader of its term with all entries before it
  (`Faithful`), and a leader was voted for by a quorum (`Owned`);
- every message in transit is backed by it: a granted vote was cast, a
  replication request is a piece of its leader's log, a success was acknowledged
  (`MessageOK`);
- for every entry of a leader's own term (`Entries`), either a quorum has moved on
  to later terms without having acknowledged it (`Denied`), or everybody who has
  still holds it, has voted since only for candidates that hold it, and all later
  leaders hold it (`Carried`).

The last part is the heart of it, and is why commitment needs no case
distinction on who is going to be elected. An entry acknowledged by a quorum
cannot be denied, since two quorums share a node, so it is carried. When a
candidate asks for a vote, the voter's comparison of logs shows that the
candidate's last entry came from a later leader, which holds the carried entry,
or from the same one at no lower an index. By `Faithful` the candidate holds it
too, and so does the log it will lead with.

`RaftHistoryProofs` shows what happens to the history in each kind of step (a
vote, a candidacy, a victory, an appended or replaced log, an acknowledgement),
that a history exists initially, and that `History` implies the properties.
`RaftSafetyLemmas` does the same for each member function, on the state inside a
callback, and `RaftSafetySteps` for each action. The crash between two durable
writes of a handler is in `RaftNodeProofs`.

`ApplyPipelineProofs` proves, for every batch size, queue limit, log length and
number of proposals:

- `AnswersAlwaysTrue`: `Spec => []AnswersAreTrue`. No callback is called twice,
  and a success is reported only for the command that was durably applied.
- `ExecutorAlwaysAvailable`: `Spec => []ExecutorAvailable`.
- `SingleWriterAlways`: `Spec => []SingleWriter`.
- `TypeCorrect`.

Its invariant has three parts. *Base*: the state machine holds a prefix of the
committed log. *Stage*: the one batch that is out is in exactly one place (handed
over, being applied, applied and not yet posted, or posted) and continues that
prefix; nothing is out otherwise. *Clients*: a callback that waits at an index
waits for its own entry there. *Stage* is needed because the worker marks itself
idle before its completion has run. Only the owner's own flag, cleared by the
completion, keeps a second batch away.

`SnapshotTransferProofs` proves, for every set of leaders, contents, chunk size
and bound:

- `AlwaysInstalledWhole`: `Spec => []InstalledWhole`.
- `AlwaysAcknowledgedIsApplied`: `Spec => []AcknowledgedIsApplied`.
- `TypeCorrect`.

Its invariant says that every chunk in transit is the part, at its offset, of the
snapshot it names; that the receive buffer is a beginning of the snapshot it
names; and that a message of a leader's current term with the number of its
request in flight belongs to that request. The last part is why a late answer
cannot be taken for the answer to a later chunk.

`PeerManagerProofs` proves, for every set of frames, output limit and number of
faults:

- `DialerActsOnce`: `Spec => []OneAttempt`.

Its invariant names the three things a dialer may be doing. While it connects or
holds its one connection, no timer's token is valid. After a disconnection, the
newest token is valid and its timer is set.

Left to TLC: of `RaftNode`, that durable state only advances; of `PeerManager`, the order of frames; and everything
about `RaftLog`, `KVStateMachine`, `ClientSession` and `ReadIndex`. All liveness is left to TLC: fairness, and facts about
what recursive definitions compute, are outside what the prover supports.

## Not modelled

- **The timing of the lease.** `ReadIndex` assumes what it is there for. A timed
  model would have clocks that drift and followers that restart.
- **Application on the event loop** in `ApplyPipeline`, which always has an
  executor. `RaftNode` has both modes.
- **Catch-up of a follower as a liveness property of `RaftNode`.** Its instances
  are too large to check liveness on, and `UnequalSnapshots` shows that it
  needs more than fairness.
- **An abstract replicated state machine that `RaftNode` implements.**
  `StateMachineSafety` and `NoCommittedEntryReplaced` say what it would promise.
- **Bytes.** The RESP parser, the encodings of commands and snapshots and
  damaged records are pure functions of bytes that unit tests reach.
  `ClientSession` knows the parser's three results.
- **Metrics, health output and logging** take no part in decisions.
- **Flag parsing and start-up wiring** run once.
