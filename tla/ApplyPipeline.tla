--------------------------- MODULE ApplyPipeline ---------------------------
(***************************************************************************)
(* How one process applies committed entries and answers its clients: the  *)
(* event loop that owns RaftNode (src/raft/raft_node.cc), the worker       *)
(* thread of SerialApplyExecutor, and the completions the worker posts     *)
(* back to the loop.                                                       *)
(*                                                                         *)
(* The actions of the owner are event-loop callbacks, each run to its end. *)
(* The worker takes its steps, one per critical section, between them.     *)
(* The rest of the cluster is reduced to what it can make this process do: *)
(* elect it, depose it, acknowledge its entries, replace its uncommitted   *)
(* ones, commit them, or send it a snapshot.                               *)
(*                                                                         *)
(* A client's proposal is a number from 1 on; an entry of the log is that  *)
(* number, or Foreign for a no-op or an entry of another leader.           *)
(***************************************************************************)
EXTENDS Integers, Sequences, FiniteSets

CONSTANTS
    MaxBatchEntries,    \* kMaxBatchEntries
    MaxPending,         \* kMaxPending
    MaxIndex,           \* bound on the length of the log
    MaxProposals        \* bound on the number of proposals

ASSUME PipelineAssumption ==
    /\ MaxBatchEntries \in Nat \ {0}
    /\ MaxPending \in Nat
    /\ MaxIndex \in Nat
    /\ MaxProposals \in Nat

VARIABLES
    raft,       \* RaftNode's fields, and the executor's under its mutex
    worker,     \* the worker thread: where it is and the job it holds
    sm,         \* the entries the state machine has durably applied
    posted,     \* completions in the event loop's queue
    owner       \* the owning thread: in the loop, or tearing down

vars == <<raft, worker, sm, posted, owner>>

-----------------------------------------------------------------------------
Foreign == 0
Proposal == 1..MaxProposals
Unknown == -1           \* the reply "...; outcome unknown"
Entry == Proposal \cup {Foreign}
Reply == Entry \cup {Unknown}

Job == [first : Nat, cmds : Seq(Entry)]
NoJob == [first |-> 0, cmds |-> <<>>]
(* A Pending of the map _pending, under its key.  The no-op of a new leader *)
(* has no callback: its id is Foreign.                                     *)
Waiting == [index : Nat, id : Entry]

(* noop is the index of the entry the leader appended on election.         *)
(* answers[p] lists the replies the callback of p was called with.  asleep *)
(* says that the worker waits on the condition variable; refused, that     *)
(* ApplyCommitted threw "state machine executor unavailable".              *)
RaftState ==
    [running : BOOLEAN, state : {"FOLLOWER", "LEADER"}, noop : Nat,
     log : Seq(Entry), commitIndex : Nat, lastApplied : Nat,
     applyInflight : BOOLEAN, pending : SUBSET Waiting,
     proposed : 0..MaxProposals, answers : [Proposal -> Seq(Reply)],
     job : Job, busy : BOOLEAN, stopping : BOOLEAN, asleep : BOOLEAN,
     refused : BOOLEAN]

Smaller(a, b) == IF a <= b THEN a ELSE b
Larger(a, b) == IF a >= b THEN a ELSE b

(* At a loop turn the worker holds a job from "work" on; error says that   *)
(* the job's work threw.                                                   *)
WorkerState ==
    [pc : {"check", "work", "clear", "post", "exited"}, job : Job, error : BOOLEAN]

Completion == [first : Nat, results : Seq(Entry), error : BOOLEAN]

(* Every variable is of its declared shape.                                *)
TypeOK ==
    /\ raft \in RaftState
    /\ worker \in WorkerState
    /\ sm \in Seq(Entry)
    /\ posted \in Seq(Completion)
    /\ owner \in {"loop", "destroyed", "joining", "done"}

-----------------------------------------------------------------------------
(* Member functions, as functions of the record s.                         *)

(* The callback of every proposal w in the domain of reply is called with  *)
(* reply[w].                                                               *)
Call(s, reply) ==
    [p \in Proposal |->
        IF \E w \in DOMAIN reply : w.id = p
        THEN Append(s.answers[p], reply[CHOOSE w \in DOMAIN reply : w.id = p])
        ELSE s.answers[p]]

(* Mutant: the callbacks are destroyed without being called.               *)
DropPending(s) == [s EXCEPT !.pending = {}]

FailPending(s) ==
    [s EXCEPT !.pending = {}, !.answers = Call(s, [w \in s.pending |-> Unknown])]

(* Mutant: callbacks survive the loss of leadership.                       *)
KeepPending(s) == [s EXCEPT !.state = "FOLLOWER", !.noop = 0]

BecomeFollower(s) == FailPending([s EXCEPT !.state = "FOLLOWER", !.noop = 0])

Submit(s, job) ==
    IF s.busy \/ s.stopping THEN [s EXCEPT !.refused = TRUE]
    ELSE [s EXCEPT !.job = job, !.busy = TRUE, !.asleep = FALSE]

(* One batch of committed entries goes to the executor, unless one is      *)
(* there already.  MaybeSnapshot, which runs when there is nothing to      *)
(* apply, changes the log's storage only and is in RaftNode.               *)
ApplyCommitted(s) ==
    IF s.applyInflight \/ ~s.running \/ s.lastApplied >= s.commitIndex THEN s
    ELSE Submit([s EXCEPT !.applyInflight = TRUE],
                [first |-> s.lastApplied + 1,
                 cmds |-> SubSeq(s.log, s.lastApplied + 1,
                                 Smaller(s.commitIndex,
                                         s.lastApplied + MaxBatchEntries))])

(* The indexes of the batch a completion reports.                          *)
BatchOf(c) == c.first .. c.first + Len(c.results) - 1

(* The whole batch is published, then its callbacks are called.            *)
FinishApply(s, c) ==
    LET done == {w \in s.pending : w.index \in BatchOf(c)}
    IN [s EXCEPT !.lastApplied = @ + Len(c.results), !.pending = @ \ done,
                 !.answers = Call(s, [w \in done |->
                     c.results[w.index - c.first + 1]])]

-----------------------------------------------------------------------------
(* Callbacks of the owner.                                                 *)

Init ==
    /\ raft = [running |-> TRUE, state |-> "FOLLOWER", noop |-> 0, log |-> <<>>,
               commitIndex |-> 0, lastApplied |-> 0, applyInflight |-> FALSE,
               pending |-> {}, proposed |-> 0,
               answers |-> [p \in Proposal |-> <<>>],
               job |-> NoJob, busy |-> FALSE, stopping |-> FALSE,
               asleep |-> FALSE, refused |-> FALSE]
    /\ worker = [pc |-> "check", job |-> NoJob, error |-> FALSE]
    /\ sm = <<>>
    /\ posted = <<>>
    /\ owner = "loop"

(* A callback that leaves raft in state s; a throw ends the loop.          *)
Callback(s) ==
    /\ owner = "loop"
    /\ raft' = s
    /\ owner' = IF s.refused THEN "destroyed" ELSE "loop"

IsLeader == raft.running /\ raft.state = "LEADER"

(* ProposeBatch of n commands.                                             *)
ProposeBatch(n) ==
    LET first == Len(raft.log) + 1
        id(k) == raft.proposed + k
    IN /\ IsLeader
       /\ Cardinality(raft.pending) + n <= MaxPending
       /\ raft.proposed + n <= MaxProposals
       /\ Len(raft.log) + n <= MaxIndex
       /\ Callback(ApplyCommitted(
            [raft EXCEPT !.log = @ \o [k \in 1..n |-> id(k)],
                         !.proposed = @ + n,
                         !.pending = @ \cup {[index |-> first + k - 1, id |-> id(k)] :
                                                k \in 1..n}]))
       /\ UNCHANGED <<worker, sm, posted>>

(* Elected: the no-op is appended and waits without a callback.            *)
BecomeLeader ==
    LET index == Len(raft.log) + 1
    IN /\ raft.running /\ raft.state = "FOLLOWER"
       /\ index <= MaxIndex
       /\ Callback(ApplyCommitted(
            [raft EXCEPT !.state = "LEADER", !.noop = index,
                         !.log = Append(@, Foreign),
                         !.pending = @ \cup {[index |-> index, id |-> Foreign]}]))
       /\ UNCHANGED <<worker, sm, posted>>

(* AdvanceCommitIndex: entries of the leader's term have reached a quorum. *)
AdvanceCommitIndex(k) ==
    /\ IsLeader
    /\ k > raft.commitIndex /\ k >= raft.noop /\ k <= Len(raft.log)
    /\ Callback(ApplyCommitted([raft EXCEPT !.commitIndex = k]))
    /\ UNCHANGED <<worker, sm, posted>>

(* A higher term, or CheckQuorum.                                          *)
StepDown ==
    /\ IsLeader
    /\ Callback(BecomeFollower(raft))
    /\ UNCHANGED <<worker, sm, posted>>

(* HandleAppendEntries of another leader: the log is kept up to an index   *)
(* not below commitIndex, n entries follow, and `commit' is committed.     *)
HandleAppendEntries(keep, n, commit) ==
    /\ raft.running
    /\ keep >= raft.commitIndex
    /\ keep = Len(raft.log) \/ n > 0
    /\ keep + n <= MaxIndex
    /\ commit >= raft.commitIndex /\ commit <= keep + n
    /\ Callback(ApplyCommitted(
         [BecomeFollower(raft) EXCEPT
            !.log = SubSeq(@, 1, keep) \o [k \in 1..n |-> Foreign],
            !.commitIndex = commit]))
    /\ UNCHANGED <<worker, sm, posted>>

(* Mutant: a snapshot is installed while the worker applies a batch.       *)
InstallBesideWorker(index, keep) ==
    LET data == SubSeq(raft.log, 1, keep) \o [k \in 1 .. index - keep |-> Foreign]
    IN /\ raft.running
       /\ index > raft.lastApplied
       /\ keep >= Smaller(index, raft.commitIndex)
       /\ keep <= Smaller(index, Len(raft.log))
       /\ Callback([BecomeFollower(raft) EXCEPT
                      !.log = IF keep = index THEN @ ELSE data,
                      !.lastApplied = index,
                      !.commitIndex = Larger(@, index)])
       /\ sm' = data
       /\ UNCHANGED <<worker, posted>>

(* The last chunk of a snapshot up to index, which agrees with the log as  *)
(* far as keep: at least up to what is committed.  When the log agrees     *)
(* with all of it, its suffix is kept.                                     *)
HandleInstallSnapshot(index, keep) ==
    LET data == SubSeq(raft.log, 1, keep) \o [k \in 1 .. index - keep |-> Foreign]
    IN /\ raft.running
       /\ index > raft.lastApplied /\ ~raft.applyInflight
       /\ keep >= Smaller(index, raft.commitIndex)
       /\ keep <= Smaller(index, Len(raft.log))
       /\ Callback([BecomeFollower(raft) EXCEPT
                      !.log = IF keep = index THEN @ ELSE data,
                      !.lastApplied = index,
                      !.commitIndex = Larger(@, index)])
       /\ sm' = data
       /\ UNCHANGED <<worker, posted>>

(* ExpireUncommittedProposals, from Tick: the uncommitted proposals up to  *)
(* index k, the oldest ones, have waited for kProposalTimeoutMs.           *)
ExpireUncommittedProposals(k) ==
    LET expired == {w \in raft.pending : w.index > raft.commitIndex /\ w.index <= k}
    IN /\ IsLeader
       /\ expired # {}
       /\ Callback([raft EXCEPT !.pending = @ \ expired,
                                !.answers = Call(raft, [w \in expired |-> Unknown])])
       /\ UNCHANGED <<worker, sm, posted>>

Stop ==
    /\ raft.running
    /\ Callback([BecomeFollower(raft) EXCEPT !.running = FALSE])
    /\ UNCHANGED <<worker, sm, posted>>

(* Mutant: the committed backlog is not resumed.                           *)
StartOnly ==
    /\ ~raft.running
    /\ Callback(BecomeFollower([raft EXCEPT !.running = TRUE]))
    /\ UNCHANGED <<worker, sm, posted>>

Start ==
    /\ ~raft.running
    /\ Callback(ApplyCommitted(BecomeFollower([raft EXCEPT !.running = TRUE])))
    /\ UNCHANGED <<worker, sm, posted>>

(* The loop runs a completion of the node it belongs to.                   *)
InOrder(c) == c.first = raft.lastApplied + 1

RunCompletion ==
    /\ posted # <<>>
    /\ LET c == Head(posted)
       IN IF c.error \/ ~InOrder(c)
          THEN /\ owner = "loop" /\ owner' = "destroyed"
               /\ UNCHANGED raft
          ELSE Callback(ApplyCommitted(
                 [FinishApply(raft, c) EXCEPT !.applyInflight = FALSE]))
    /\ posted' = Tail(posted)
    /\ UNCHANGED <<worker, sm>>

(* An owner callback throws: a write of the log failed.  ProposeBatch      *)
(* answers the clients first, the others leave them unanswered.            *)
StorageFails ==
    /\ owner = "loop" /\ owner' = "destroyed"
    /\ raft' \in {raft, FailPending(raft)}
    /\ UNCHANGED <<worker, sm, posted>>

-----------------------------------------------------------------------------
(* Teardown: RunServer's locals are destroyed in the order raft, executor, *)
(* state machine.                                                          *)

(* Mutant: the worker is not notified.                                     *)
StopSilently ==
    /\ owner = "destroyed" /\ owner' = "joining"
    /\ raft' = [raft EXCEPT !.stopping = TRUE]
    /\ UNCHANGED <<worker, sm, posted>>

(* SerialApplyExecutor::Stop up to the join.                               *)
StopExecutor ==
    /\ owner = "destroyed" /\ owner' = "joining"
    /\ raft' = [raft EXCEPT !.stopping = TRUE, !.asleep = FALSE]
    /\ UNCHANGED <<worker, sm, posted>>

Join ==
    /\ owner = "joining" /\ worker.pc = "exited"
    /\ owner' = "done"
    /\ UNCHANGED <<raft, worker, sm, posted>>

(* A loop that outlives the node runs a completion left in its queue: the  *)
(* expired lifetime turns it into nothing.                                 *)
DropCompletion ==
    /\ owner = "done" /\ posted # <<>>
    /\ posted' = Tail(posted)
    /\ UNCHANGED <<raft, worker, sm, owner>>

-----------------------------------------------------------------------------
(* The worker thread: SerialApplyExecutor::Run.                            *)

(* The wait's predicate is false: sleep on the condition variable.         *)
Sleep ==
    /\ worker.pc = "check" /\ ~raft.asleep
    /\ ~raft.stopping /\ raft.job = NoJob
    /\ raft' = [raft EXCEPT !.asleep = TRUE]
    /\ UNCHANGED <<worker, sm, posted, owner>>

(* A condition variable may wake its waiter for no reason.                 *)
SpuriousWake ==
    /\ raft.asleep
    /\ raft' = [raft EXCEPT !.asleep = FALSE]
    /\ UNCHANGED <<worker, sm, posted, owner>>

Take ==
    /\ worker.pc = "check" /\ ~raft.asleep
    /\ raft.job # NoJob
    /\ worker' = [pc |-> "work", job |-> raft.job, error |-> FALSE]
    /\ raft' = [raft EXCEPT !.job = NoJob]
    /\ UNCHANGED <<sm, posted, owner>>

Exit ==
    /\ worker.pc = "check" /\ ~raft.asleep
    /\ raft.stopping /\ raft.job = NoJob
    /\ worker' = [worker EXCEPT !.pc = "exited"]
    /\ UNCHANGED <<raft, sm, posted, owner>>

(* ApplyBatch refuses a batch that does not continue the applied prefix.   *)
Work ==
    /\ worker.pc = "work"
    /\ worker.job.first = Len(sm) + 1
    /\ sm' = sm \o worker.job.cmds
    /\ worker' = [worker EXCEPT !.pc = "clear"]
    /\ UNCHANGED <<raft, posted, owner>>

(* The work throws: a batch out of order, or a write whose outcome is      *)
(* uncertain.                                                              *)
WorkFails ==
    /\ worker.pc = "work"
    /\ sm' \in {sm} \cup (IF worker.job.first = Len(sm) + 1
                            THEN {sm \o worker.job.cmds} ELSE {})
    /\ worker' = [worker EXCEPT !.pc = "clear", !.error = TRUE]
    /\ UNCHANGED <<raft, posted, owner>>

(* Mutant: the executor stays busy when its job is done.                   *)
StayBusy ==
    /\ worker.pc = "clear"
    /\ worker' = [worker EXCEPT !.pc = "post"]
    /\ UNCHANGED <<raft, sm, posted, owner>>

ClearBusy ==
    /\ worker.pc = "clear"
    /\ raft' = [raft EXCEPT !.busy = FALSE]
    /\ worker' = [worker EXCEPT !.pc = "post"]
    /\ UNCHANGED <<sm, posted, owner>>

Post ==
    /\ worker.pc = "post"
    /\ posted' = Append(posted, [first |-> worker.job.first,
                                 results |-> worker.job.cmds,
                                 error |-> worker.error])
    /\ worker' = [pc |-> "check", job |-> NoJob, error |-> FALSE]
    /\ UNCHANGED <<raft, sm, owner>>

-----------------------------------------------------------------------------
(* Nothing is left to do once the teardown is over.                        *)
Finished ==
    /\ owner = "done" /\ posted = <<>>
    /\ UNCHANGED vars

Replicate ==
    \E keep \in raft.commitIndex .. Len(raft.log), n \in 0..MaxIndex,
       commit \in raft.commitIndex .. MaxIndex : HandleAppendEntries(keep, n, commit)

Install ==
    \E index \in 1..MaxIndex, keep \in 0 .. Len(raft.log) :
        HandleInstallSnapshot(index, keep)

Expire == \E k \in 1..MaxIndex : ExpireUncommittedProposals(k)

OwnerStep ==
    \/ \E n \in 1..MaxBatchEntries : ProposeBatch(n)
    \/ BecomeLeader
    \/ \E k \in 1..MaxIndex : AdvanceCommitIndex(k)
    \/ StepDown
    \/ Replicate
    \/ Install
    \/ Expire
    \/ Stop
    \/ Start
    \/ RunCompletion
    \/ StorageFails
    \/ StopExecutor
    \/ Join
    \/ DropCompletion

WorkerStep == Sleep \/ Take \/ Exit \/ Work \/ WorkFails \/ ClearBusy \/ Post

Next == OwnerStep \/ WorkerStep \/ SpuriousWake \/ Finished

Spec == Init /\ [][Next]_vars

(* The operating system runs the worker; the loop runs what is queued and  *)
(* its periodic Tick; destructors run to their end.  Nothing is assumed of *)
(* the rest of the cluster.                                                *)
Fairness ==
    /\ WF_vars(WorkerStep)
    /\ WF_vars(RunCompletion) /\ WF_vars(Expire)
    /\ WF_vars(StopExecutor) /\ WF_vars(Join)

FairSpec == Spec /\ Fairness

-----------------------------------------------------------------------------
(* Properties.                                                             *)

(* A proposal's callback is called at most once, and with success only     *)
(* when the entry is durably applied and the reply is the one of that very *)
(* entry, not of another that took its index (FailPending, FinishApply).   *)
AnswersAreTrue ==
    \A p \in Proposal :
        \/ raft.answers[p] \in {<<>>, <<Unknown>>}
        \/ raft.answers[p] = <<p>> /\ \E k \in 1..raft.lastApplied : sm[k] = p

(* An owner with no batch outstanding finds the executor free: the worker  *)
(* clears _busy before it posts the completion, so ApplyCommitted never    *)
(* throws "state machine executor unavailable".                            *)
ExecutorAvailable ==
    /\ ~raft.refused
    /\ owner = "loop" /\ ~raft.applyInflight => ~raft.busy /\ ~raft.stopping

(* The state machine holds a prefix of the committed log, each entry once, *)
(* and is ahead of lastApplied by the outstanding batch at most, although  *)
(* two threads write it: the worker, and the loop that installs snapshots. *)
(* The worker is gone before the state machine is destroyed.               *)
SingleWriter ==
    /\ Len(sm) <= raft.commitIndex /\ sm = SubSeq(raft.log, 1, Len(sm))
    /\ raft.lastApplied <= Len(sm)
    /\ Len(sm) > raft.lastApplied => raft.applyInflight
    /\ worker.pc = "work" => worker.job.first = Len(sm) + 1
    /\ owner = "done" => worker.pc = "exited"

(* Every admitted proposal is answered, or the process goes down: commit   *)
(* and apply, expiry, loss of leadership and Stop leave no gap.            *)
ProposalsAnswered ==
    \A p \in Proposal :
        raft.proposed >= p ~> raft.answers[p] # <<>> \/ owner # "loop"

(* What is committed is applied, unless the node is stopped or goes down:  *)
(* each completion, and Start after Stop, resumes the backlog.             *)
BacklogDrains ==
    \A k \in 1..MaxIndex :
        raft.commitIndex >= k
            ~> raft.lastApplied >= k \/ ~raft.running \/ owner # "loop"

(* Teardown ends: Stop wakes the worker, which finishes what it accepted,  *)
(* exits and is joined.                                                    *)
TeardownEnds == owner = "destroyed" ~> owner = "done"
=============================================================================
