------------------------ MODULE ApplyPipelineProofs ------------------------
(***************************************************************************)
(* Proofs about ApplyPipeline, for every batch limit, queue limit, log     *)
(* length and number of proposals: a callback is answered truthfully and   *)
(* at most once, the executor is free whenever the owner submits, and the  *)
(* two threads that write the state machine never disturb one another.     *)
(*                                                                         *)
(* The inductive invariant has three parts.  Base: the state machine holds *)
(* a prefix of the committed log.  Stage: the one outstanding batch is in  *)
(* one place (queued, with the worker, or posted) and continues that       *)
(* prefix.  Clients: a waiting callback waits for its own entry.           *)
(***************************************************************************)
EXTENDS ApplyPipeline, SequenceTheorems, TLAPS

(* The provers get longer than the default for a leaf.                     *)
USE SMTT(20), ZenonT(20)

Base(r, d) ==
    /\ r \in RaftState /\ d \in Seq(Entry)
    /\ r.lastApplied <= Len(d) /\ Len(d) <= r.commitIndex
    /\ r.commitIndex <= Len(r.log)
    /\ \A k \in 1..Len(d) : d[k] = r.log[k]

(* cmds are the committed entries from lastApplied + 1 on.                 *)
Batch(r, first, cmds) ==
    /\ first = r.lastApplied + 1
    /\ Len(cmds) >= 1
    /\ r.lastApplied + Len(cmds) <= r.commitIndex
    /\ \A k \in 1..Len(cmds) : cmds[k] = r.log[r.lastApplied + k]

Stage(r, w, d, q, o) ==
    /\ w \in WorkerState /\ q \in Seq(Completion)
    /\ o \in {"loop", "destroyed", "joining", "done"}
    /\ ~r.refused
    /\ r.stopping <=> o \in {"joining", "done"}
    /\ Len(d) > r.lastApplied => r.applyInflight
    /\ o = "loop" /\ ~r.applyInflight
         => r.job = NoJob /\ ~r.busy /\ w.pc = "check" /\ q = <<>>
    /\ r.job # NoJob
         => /\ r.applyInflight /\ w.pc = "check" /\ q = <<>>
            /\ Len(d) = r.lastApplied /\ Batch(r, r.job.first, r.job.cmds)
    /\ w.pc \in {"work", "clear", "post"}
         => /\ r.applyInflight /\ r.job = NoJob /\ q = <<>>
            /\ Batch(r, w.job.first, w.job.cmds)
    /\ w.pc = "work" => Len(d) = r.lastApplied /\ ~w.error
    /\ w.pc \in {"clear", "post"} /\ ~w.error
         => Len(d) = r.lastApplied + Len(w.job.cmds)
    /\ q # <<>>
         => /\ r.applyInflight /\ r.job = NoJob /\ w.pc \in {"check", "exited"}
            /\ Len(q) = 1 /\ Batch(r, q[1].first, q[1].results)
            /\ ~q[1].error => Len(d) = r.lastApplied + Len(q[1].results)
    /\ r.busy => r.job # NoJob \/ w.pc \in {"work", "clear"}
    /\ w.pc = "exited" => r.stopping
    /\ o = "done" => w.pc = "exited"

Honest(r, d, p) ==
    \/ r.answers[p] \in {<<>>, <<Unknown>>}
    \/ r.answers[p] = <<p>> /\ \E k \in 1..r.lastApplied : d[k] = p

Clients(r, d) ==
    /\ \A w \in r.pending :
         /\ r.state = "LEADER" /\ r.running
         /\ w.index > r.lastApplied /\ w.index <= Len(r.log)
         /\ r.log[w.index] = w.id
         /\ w.id # Foreign => r.answers[w.id] = <<>> /\ w.id <= r.proposed
    /\ \A v, w \in r.pending : v.id = w.id /\ v.id # Foreign => v = w
    /\ \A p \in Proposal : p > r.proposed => r.answers[p] = <<>>
    /\ \A p \in Proposal : Honest(r, d, p)

IndInv ==
    /\ Base(raft, sm)
    /\ Stage(raft, worker, sm, posted, owner)
    /\ Clients(raft, sm)

-----------------------------------------------------------------------------
(* The shape of a node state, once for all.                                *)
LEMMA RaftFields ==
    ASSUME NEW r \in RaftState
    PROVE  /\ r.running \in BOOLEAN /\ r.state \in {"FOLLOWER", "LEADER"}
           /\ r.noop \in Nat /\ r.log \in Seq(Entry) /\ Len(r.log) \in Nat
           /\ r.commitIndex \in Nat /\ r.lastApplied \in Nat
           /\ r.applyInflight \in BOOLEAN /\ r.pending \in SUBSET Waiting
           /\ r.proposed \in 0..MaxProposals
           /\ r.answers \in [Proposal -> Seq(Reply)]
           /\ r.job \in Job /\ r.busy \in BOOLEAN /\ r.stopping \in BOOLEAN
           /\ r.asleep \in BOOLEAN /\ r.refused \in BOOLEAN
  BY Zenon, LenProperties DEF RaftState

(* p is in no callback of W, or its callback is the first to be called.    *)
CalledOnce(r, W, reply, p) ==
    \/ Call(r, reply)[p] = r.answers[p] /\ \A w \in W : w.id # p
    \/ \E w \in W : /\ w.id = p /\ r.answers[p] = <<>>
                    /\ Call(r, reply)[p] = <<reply[w]>>

(* A callback is called on an empty list of answers, with its own reply.   *)
LEMMA CallEffect ==
    ASSUME NEW r \in RaftState, NEW d, Clients(r, d),
           NEW W \in SUBSET r.pending, NEW reply \in [W -> Reply],
           NEW p \in Proposal
    PROVE  CalledOnce(r, W, reply, p)
<1>1. CASE \A w \in W : w.id # p
  BY Zenon, <1>1 DEF Call, CalledOnce
<1>2. CASE \E w \in W : w.id = p
  <2>. DEFINE c == CHOOSE w \in W : w.id = p
  <2>1. c \in W /\ c.id = p
    BY Zenon, <1>2
  <2>2. Call(r, reply)[p] = Append(r.answers[p], reply[c])
    BY Zenon, <1>2 DEF Call
  <2>. HIDE DEF c
  <2>3. p # Foreign
    BY DEF Proposal, Foreign
  <2>4. r.answers[p] = <<>>
    BY Zenon, <2>1, <2>3 DEF Clients
  <2>5. Append(<<>>, reply[c]) = <<reply[c]>>
    OBVIOUS
  <2>. QED
    BY Zenon, <2>1, <2>2, <2>4, <2>5 DEF CalledOnce
<1>. QED
  BY Zenon, <1>1, <1>2

(* Calls keep the type of the answers.                                     *)
LEMMA CallType ==
    ASSUME NEW r \in RaftState, NEW W \in SUBSET r.pending,
           NEW reply \in [W -> Reply]
    PROVE  Call(r, reply) \in [Proposal -> Seq(Reply)]
<1>1. r.answers \in [Proposal -> Seq(Reply)]
  BY Zenon, RaftFields
<1>2. ASSUME NEW p \in Proposal
      PROVE  Call(r, reply)[p] \in Seq(Reply)
  <2>1. CASE \A w \in W : w.id # p
    BY Zenon, <1>1, <2>1 DEF Call
  <2>2. CASE \E w \in W : w.id = p
    <3>. DEFINE c == CHOOSE w \in W : w.id = p
    <3>1. c \in W
      BY Zenon, <2>2
    <3>2. Call(r, reply)[p] = Append(r.answers[p], reply[c])
      BY Zenon, <2>2 DEF Call
    <3>. HIDE DEF c
    <3>3. r.answers[p] \in Seq(Reply) /\ reply[c] \in Reply
      BY Zenon, <1>1, <3>1
    <3>. QED
      BY <3>2, <3>3, AppendProperties
  <2>. QED
    BY Zenon, <2>1, <2>2
<1>. QED
  BY Zenon, <1>2 DEF Call

-----------------------------------------------------------------------------
(* Member functions.                                                       *)

(* The fields of the executor and the outstanding batch.                   *)
SameExec(r, t) ==
    /\ t.job = r.job /\ t.busy = r.busy /\ t.stopping = r.stopping
    /\ t.applyInflight = r.applyInflight /\ t.refused = r.refused

(* The fields that say how far the log is committed and applied.           *)
SameLog(r, t) ==
    /\ t.log = r.log /\ t.commitIndex = r.commitIndex
    /\ t.lastApplied = r.lastApplied

(* Answering "outcome unknown" to proposals of W is honest.                *)
LEMMA UnknownHonest ==
    ASSUME NEW r \in RaftState, NEW d, Clients(r, d), NEW W \in SUBSET r.pending,
           NEW t, t.answers = Call(r, [w \in W |-> Unknown]),
           t.lastApplied = r.lastApplied, NEW p \in Proposal
    PROVE  /\ Honest(t, d, p)
           /\ (\A w \in W : w.id # p) => t.answers[p] = r.answers[p]
<1>. DEFINE reply == [w \in W |-> Unknown]
<1>1. reply \in [W -> Reply] /\ \A w \in W : reply[w] = Unknown
  BY Zenon DEF Reply
<1>2. t.answers = Call(r, reply)
  BY Zenon
<1>. HIDE DEF reply
<1>3. \/ t.answers[p] = r.answers[p]
      \/ /\ \E w \in W : w.id = p
         /\ t.answers[p] = <<Unknown>>
  <2>1. CalledOnce(r, W, reply, p)
    BY Zenon, <1>1, CallEffect
  <2>. QED
    BY Zenon, <1>1, <1>2, <2>1 DEF CalledOnce
<1>4. (\A w \in W : w.id # p) => t.answers[p] = r.answers[p]
  BY Zenon, <1>3
<1>5. Honest(r, d, p)
  BY Zenon DEF Clients
<1>. QED
  BY Zenon, <1>3, <1>4, <1>5 DEF Honest

(* A node that has become follower is well typed.                          *)
LEMMA FollowerType ==
    ASSUME NEW r \in RaftState, NEW new \in [Proposal -> Seq(Reply)]
    PROVE  [r EXCEPT !.state = "FOLLOWER", !.noop = 0, !.pending = {},
                     !.answers = new] \in RaftState
  BY Zenon DEF RaftState

(* BecomeFollower fails all waiting callbacks and leaves log and executor  *)
(* alone.                                                                  *)
LEMMA BecomeFollowerInv ==
    ASSUME NEW r, NEW d, Base(r, d), Clients(r, d),
           NEW t, t = BecomeFollower(r)
    PROVE  /\ Base(t, d) /\ Clients(t, d) /\ SameExec(r, t) /\ SameLog(r, t)
           /\ t.pending = {} /\ t.running = r.running /\ t.state = "FOLLOWER"
<1>. DEFINE new == Call(r, [w \in r.pending |-> Unknown])
<1>1. r \in RaftState
  BY Zenon DEF Base
<1>2. new \in [Proposal -> Seq(Reply)]
  <2>1. [w \in r.pending |-> Unknown] \in [r.pending -> Reply]
    BY Zenon DEF Reply
  <2>. QED
    BY Zenon, <1>1, <2>1, CallType
<1>3. t = [r EXCEPT !.state = "FOLLOWER", !.noop = 0, !.pending = {},
                    !.answers = new]
  <2>. DEFINE u == [r EXCEPT !.state = "FOLLOWER", !.noop = 0]
  <2>1. u.pending = r.pending /\ u.answers = r.answers
    BY Zenon, <1>1 DEF RaftState
  <2>2. Call(u, [w \in u.pending |-> Unknown]) = new
    BY <2>1 DEF Call
  <2>3. t = [u EXCEPT !.pending = {},
                      !.answers = Call(u, [w \in u.pending |-> Unknown])]
    BY Zenon DEF BecomeFollower, FailPending
  <2>. HIDE DEF new
  <2>. QED
    BY Zenon, <1>1, <2>2, <2>3 DEF RaftState
<1>. HIDE DEF new
<1>4. /\ t \in RaftState /\ t.answers = new /\ SameExec(r, t) /\ SameLog(r, t)
      /\ t.pending = {} /\ t.running = r.running /\ t.state = "FOLLOWER"
      /\ t.proposed = r.proposed
  <2>1. t \in RaftState
    BY Zenon, <1>1, <1>2, <1>3, FollowerType
  <2>. QED
    BY Zenon, <1>1, <1>3, <2>1 DEF RaftState, SameExec, SameLog
<1>5. \A p \in Proposal : Honest(t, d, p)
  BY <1>1, <1>4, UnknownHonest DEF SameLog, new
<1>6. ASSUME NEW p \in Proposal, p > t.proposed
      PROVE  t.answers[p] = <<>>
  <2>1. r.answers[p] = <<>>
    BY Zenon, <1>4, <1>6 DEF Clients
  <2>2. r.proposed \in Nat /\ p \in Nat /\ p # Foreign
    BY <1>1, PipelineAssumption DEF RaftState, Proposal, Foreign
  <2>3. \A w \in r.pending : w.id # p
    <3>. SUFFICES ASSUME NEW w \in r.pending, w.id = p
                  PROVE  FALSE
      BY Zenon
    <3>1. p <= r.proposed
      BY Zenon, <2>2 DEF Clients
    <3>. QED
      BY <1>4, <1>6, <2>2, <3>1
  <2>. QED
    BY <1>1, <1>4, <2>1, <2>3, UnknownHonest DEF SameLog, new
<1>7. Clients(t, d)
  BY Zenon, <1>4, <1>5, <1>6 DEF Clients
<1>8. Base(t, d)
  BY Zenon, <1>4 DEF Base, SameLog
<1>. QED
  BY Zenon, <1>4, <1>7, <1>8

(* A committed batch stays one as long as the committed entries stay.      *)
LEMMA BatchKept ==
    ASSUME NEW r \in RaftState, NEW t \in RaftState, t.lastApplied = r.lastApplied,
           r.commitIndex <= t.commitIndex,
           \A k \in 1..r.commitIndex : t.log[k] = r.log[k],
           NEW first, NEW cmds, Len(cmds) \in Nat, Batch(r, first, cmds)
    PROVE  Batch(t, first, cmds)
<1>1. r.lastApplied \in Nat /\ r.commitIndex \in Nat /\ t.commitIndex \in Nat
  BY Zenon, RaftFields
<1>2. ASSUME NEW k \in 1..Len(cmds) PROVE cmds[k] = t.log[t.lastApplied + k]
  <2>1. r.lastApplied + k \in 1..r.commitIndex
    BY <1>1 DEF Batch
  <2>. QED
    BY Zenon, <2>1 DEF Batch
<1>. QED
  BY <1>1, <1>2 DEF Batch

(* The job at the executor stays the next batch when log and commitIndex   *)
(* only grow beyond what is committed.                                     *)
LEMMA StageKept ==
    ASSUME NEW r \in RaftState, NEW t \in RaftState, NEW w, NEW d, NEW q, NEW o,
           Stage(r, w, d, q, o), SameExec(r, t), t.lastApplied = r.lastApplied,
           r.commitIndex <= t.commitIndex,
           \A k \in 1..r.commitIndex : t.log[k] = r.log[k]
    PROVE  Stage(t, w, d, q, o)
<1>1. \A first, cmds : Len(cmds) \in Nat /\ Batch(r, first, cmds)
                         => Batch(t, first, cmds)
  BY Zenon, BatchKept
<1>2. Len(r.job.cmds) \in Nat
  BY Zenon, LenProperties, RaftFields DEF Job
<1>3. Len(w.job.cmds) \in Nat
  BY Zenon, LenProperties DEF Stage, WorkerState, Job
<1>4. q # <<>> => Len(q[1].results) \in Nat
  <2>. SUFFICES ASSUME q # <<>> PROVE Len(q[1].results) \in Nat
    BY Zenon
  <2>1. q \in Seq(Completion) /\ Len(q) = 1
    BY Zenon DEF Stage
  <2>2. q[1] \in Completion
    BY <2>1, ElementOfSeq
  <2>. QED
    BY Zenon, <2>2, LenProperties DEF Completion
<1>5. r.job # NoJob => Batch(t, t.job.first, t.job.cmds)
  BY Zenon, <1>1, <1>2 DEF Stage, SameExec
<1>6. w.pc \in {"work", "clear", "post"} => Batch(t, w.job.first, w.job.cmds)
  BY Zenon, <1>1, <1>3 DEF Stage
<1>7. q # <<>> => Batch(t, q[1].first, q[1].results)
  BY Zenon, <1>1, <1>4 DEF Stage
<1>. QED
  BY Zenon, <1>5, <1>6, <1>7 DEF Stage, SameExec

(* The fields the clients depend on.                                       *)
SameClients(r, t) ==
    /\ t.pending = r.pending /\ t.answers = r.answers /\ t.proposed = r.proposed
    /\ t.state = r.state /\ t.running = r.running

(* The promise to the clients depends on log, pending map and answers      *)
(* only.                                                                   *)
LEMMA ClientsKept ==
    ASSUME NEW r, NEW t, NEW d, Clients(r, d), SameClients(r, t), SameLog(r, t)
    PROVE  Clients(t, d)
  BY DEF Clients, Honest, SameClients, SameLog

(* A node that has submitted a job is well typed.                          *)
LEMMA SubmitType ==
    ASSUME NEW s \in RaftState, NEW job \in Job
    PROVE  [s EXCEPT !.applyInflight = TRUE, !.job = job, !.busy = TRUE,
                     !.asleep = FALSE] \in RaftState
  BY Zenon DEF RaftState

(* A part of the committed log after lastApplied is a batch.               *)
LEMMA NextBatch ==
    ASSUME NEW s \in RaftState, s.commitIndex <= Len(s.log),
           NEW last \in Nat, s.lastApplied + 1 <= last, last <= s.commitIndex
    PROVE  /\ SubSeq(s.log, s.lastApplied + 1, last) \in Seq(Entry)
           /\ Batch(s, s.lastApplied + 1, SubSeq(s.log, s.lastApplied + 1, last))
<1>. DEFINE first == s.lastApplied + 1
            cmds == SubSeq(s.log, first, last)
<1>1. /\ s.log \in Seq(Entry) /\ Len(s.log) \in Nat
      /\ s.lastApplied \in Nat /\ s.commitIndex \in Nat
  BY Zenon, RaftFields
<1>2. first \in Int /\ last \in Int /\ first <= last
  BY <1>1
<1>3. ASSUME NEW k \in first..last PROVE s.log[k] \in Entry
  <2>1. k \in 1..Len(s.log)
    BY <1>1
  <2>. QED
    BY Zenon, <1>1, <2>1, ElementOfSeq
<1>. HIDE DEF first
<1>4. /\ cmds \in Seq(Entry) /\ Len(cmds) = IF first <= last THEN last - first + 1 ELSE 0
      /\ \A k \in 1 .. last - first + 1 : cmds[k] = s.log[first + k - 1]
  BY <1>2, <1>3, SubSeqProperties
<1>. HIDE DEF cmds
<1>5. Len(cmds) = last - first + 1
  BY Zenon, <1>2, <1>4
<1>6. Len(cmds) >= 1 /\ s.lastApplied + Len(cmds) <= s.commitIndex
  BY <1>1, <1>2, <1>5 DEF first
<1>7. ASSUME NEW k \in 1..Len(cmds) PROVE cmds[k] = s.log[s.lastApplied + k]
  <2>1. cmds[k] = s.log[first + k - 1]
    BY Zenon, <1>4, <1>5
  <2>2. first + k - 1 = s.lastApplied + k
    BY <1>1, <1>2, <1>5 DEF first
  <2>. QED
    BY Zenon, <2>1, <2>2
<1>8. Batch(s, first, cmds)
  BY Zenon, <1>6, <1>7 DEF Batch, first
<1>. QED
  BY Zenon, <1>4, <1>8 DEF cmds, first

(* ApplyCommitted finds the executor free, and submits the next batch of   *)
(* committed entries.                                                      *)
LEMMA ApplyCommittedInv ==
    ASSUME NEW s, NEW w, NEW d, NEW q, Base(s, d), Stage(s, w, d, q, "loop"),
           Clients(s, d), NEW t, t = ApplyCommitted(s)
    PROVE  Base(t, d) /\ Stage(t, w, d, q, "loop") /\ Clients(t, d)
<1>. DEFINE idle == s.applyInflight \/ ~s.running \/ s.lastApplied >= s.commitIndex
<1>1. CASE idle
  BY Zenon, <1>1 DEF ApplyCommitted
<1>2. CASE ~idle
  <2>. DEFINE cmds == SubSeq(s.log, s.lastApplied + 1,
                             Smaller(s.commitIndex, s.lastApplied + MaxBatchEntries))
              job == [first |-> s.lastApplied + 1, cmds |-> cmds]
  <2>1. /\ s \in RaftState /\ d \in Seq(Entry) /\ Len(d) \in Nat
        /\ s.lastApplied \in Nat /\ s.commitIndex \in Nat
        /\ s.lastApplied <= Len(d) /\ s.commitIndex <= Len(s.log)
    BY Zenon, RaftFields, LenProperties DEF Base
  <2>2. /\ ~s.applyInflight /\ s.job = NoJob /\ ~s.busy /\ ~s.stopping
        /\ w.pc = "check" /\ q = <<>> /\ ~s.refused
    BY Zenon, <1>2 DEF Stage
  <2>3. Len(d) = s.lastApplied /\ s.lastApplied < s.commitIndex
    BY <1>2, <2>1, <2>2 DEF Stage
  <2>4. cmds \in Seq(Entry) /\ Batch(s, s.lastApplied + 1, cmds)
    <3>. DEFINE last == Smaller(s.commitIndex, s.lastApplied + MaxBatchEntries)
    <3>1. last \in Nat /\ s.lastApplied + 1 <= last /\ last <= s.commitIndex
      BY <2>1, <2>3, PipelineAssumption DEF Smaller
    <3>. HIDE DEF last
    <3>2. /\ SubSeq(s.log, s.lastApplied + 1, last) \in Seq(Entry)
          /\ Batch(s, s.lastApplied + 1, SubSeq(s.log, s.lastApplied + 1, last))
      BY Zenon, <2>1, <3>1, NextBatch
    <3>. QED
      BY Zenon, <3>2 DEF last
  <2>. HIDE DEF cmds
  <2>5. job \in Job
    BY <2>1, <2>4 DEF Job
  <2>6. t = [s EXCEPT !.applyInflight = TRUE, !.job = job, !.busy = TRUE,
                      !.asleep = FALSE]
    BY Zenon, <1>2, <2>1, <2>2 DEF ApplyCommitted, Submit, RaftState, cmds
  <2>7. job.first = s.lastApplied + 1 /\ job.cmds = cmds
    BY Zenon
  <2>. HIDE DEF job
  <2>8. t \in RaftState
    BY Zenon, <2>1, <2>5, <2>6, SubmitType
  <2>9. /\ t.applyInflight /\ t.job = job /\ t.busy /\ ~t.stopping /\ ~t.refused
        /\ SameLog(s, t) /\ SameClients(s, t)
    BY Zenon, <2>1, <2>2, <2>6 DEF RaftState, SameLog, SameClients
  <2>10. Batch(t, t.job.first, t.job.cmds)
    BY <2>4, <2>7, <2>9 DEF Batch, SameLog
  <2>11. Stage(t, w, d, q, "loop")
    <3>1. w \in WorkerState /\ q \in Seq(Completion)
      BY Zenon DEF Stage
    <3>2. t.busy => t.job # NoJob
      <4>1. Len(t.job.cmds) >= 1
        BY Zenon, <2>10 DEF Batch
      <4>2. t.job # NoJob
        BY <4>1 DEF NoJob
      <4>. QED
        BY Zenon, <4>2
    <3>. QED
      BY Zenon, <2>2, <2>3, <2>9, <2>10, <3>1, <3>2 DEF Stage, SameLog
  <2>12. Base(t, d)
    BY Zenon, <2>8, <2>9 DEF Base, SameLog
  <2>13. Clients(t, d)
    BY Zenon, <2>9, ClientsKept
  <2>. QED
    BY Zenon, <2>11, <2>12, <2>13
<1>. QED
  BY Zenon, <1>1, <1>2

-----------------------------------------------------------------------------
(* Callbacks of the owner.                                                 *)

(* A callback that ends in a good state does not end the loop.             *)
LEMMA CallbackDone ==
    ASSUME NEW s, Callback(s), Base(s, sm'), Stage(s, worker', sm', posted', "loop"),
           Clients(s, sm')
    PROVE  IndInv'
<1>1. raft' = s /\ owner' = "loop"
  BY Zenon DEF Callback, Stage
<1>. QED
  BY Zenon, <1>1 DEF IndInv

(* A callback that ends with ApplyCommitted preserves the invariant if it  *)
(* did before that call.                                                   *)
LEMMA ApplyDone ==
    ASSUME NEW s, Callback(ApplyCommitted(s)), UNCHANGED <<worker, sm, posted>>,
           Base(s, sm), Stage(s, worker, sm, posted, "loop"), Clients(s, sm)
    PROVE  IndInv'
<1>. DEFINE t == ApplyCommitted(s)
<1>1. Base(t, sm) /\ Stage(t, worker, sm, posted, "loop") /\ Clients(t, sm)
  BY Zenon, ApplyCommittedInv
<1>2. Callback(t)
  BY Zenon
<1>. HIDE DEF t
<1>3. worker' = worker /\ sm' = sm /\ posted' = posted
  BY Zenon
<1>. QED
  BY Zenon, <1>1, <1>2, <1>3, CallbackDone

(* In the loop, the invariant speaks of an owner in the loop.              *)
LEMMA InLoop ==
    ASSUME IndInv, owner = "loop"
    PROVE  /\ Base(raft, sm) /\ Stage(raft, worker, sm, posted, "loop")
           /\ Clients(raft, sm) /\ raft \in RaftState
           /\ sm \in Seq(Entry) /\ Len(sm) \in Nat
           /\ raft.lastApplied <= Len(sm) /\ Len(sm) <= raft.commitIndex
           /\ raft.commitIndex <= Len(raft.log)
  BY Zenon, LenProperties DEF IndInv, Base

(* Entries appended to the log leave what it held.                         *)
LEMMA LogExtended ==
    ASSUME NEW r \in RaftState, NEW more \in Seq(Entry)
    PROVE  /\ r.log \o more \in Seq(Entry)
           /\ Len(r.log \o more) = Len(r.log) + Len(more)
           /\ Len(r.log) \in Nat /\ Len(more) \in Nat
           /\ \A k \in 1..Len(r.log) : (r.log \o more)[k] = r.log[k]
           /\ \A k \in 1..Len(more) : (r.log \o more)[Len(r.log) + k] = more[k]
<1>1. r.log \in Seq(Entry) /\ Len(r.log) \in Nat /\ Len(more) \in Nat
  BY Zenon, RaftFields, LenProperties
<1>2. ASSUME NEW k \in 1..Len(more)
      PROVE  (r.log \o more)[Len(r.log) + k] = more[k]
  BY <1>1, ConcatProperties
<1>. QED
  BY <1>1, <1>2, ConcatProperties

(* A node that has appended proposals is well typed.                       *)
LEMMA ProposeType ==
    ASSUME NEW r \in RaftState, NEW log \in Seq(Entry), NEW p \in 0..MaxProposals,
           NEW W \in SUBSET Waiting
    PROVE  [r EXCEPT !.log = log, !.proposed = p, !.pending = W] \in RaftState
  BY Zenon DEF RaftState

(* ProposeBatch preserves the invariant.                                   *)
LEMMA ProposeBatchInv ==
    ASSUME IndInv, NEW n \in 1..MaxBatchEntries, ProposeBatch(n)
    PROVE  IndInv'
<1>. DEFINE r == raft
            more == [k \in 1..n |-> r.proposed + k]
            log == r.log \o more
            added == {[index |-> Len(r.log) + 1 + k - 1, id |-> r.proposed + k] :
                        k \in 1..n}
            s == [r EXCEPT !.log = log, !.proposed = @ + n, !.pending = @ \cup added]
<1>1. /\ Callback(ApplyCommitted(s)) /\ UNCHANGED <<worker, sm, posted>>
      /\ owner = "loop" /\ r.running /\ r.state = "LEADER"
      /\ r.proposed + n <= MaxProposals
  BY Zenon DEF ProposeBatch, Callback, IsLeader
<1>2. /\ Base(r, sm) /\ Stage(r, worker, sm, posted, "loop")
      /\ Clients(r, sm) /\ r \in RaftState
      /\ sm \in Seq(Entry) /\ Len(sm) \in Nat
      /\ r.lastApplied <= Len(sm) /\ Len(sm) <= r.commitIndex
      /\ r.commitIndex <= Len(r.log)
  BY Zenon, <1>1, InLoop
<1>3. /\ n \in Nat /\ r.proposed \in Nat /\ Len(r.log) \in Nat /\ MaxProposals \in Nat
      /\ r.lastApplied \in Nat /\ r.commitIndex \in Nat /\ r.proposed <= MaxProposals
      /\ r.pending \in SUBSET Waiting
  BY <1>2, RaftFields, PipelineAssumption
<1>4. more \in Seq(Entry) /\ Len(more) = n /\ \A k \in 1..n : more[k] = r.proposed + k
  <2>1. \A k \in 1..n : r.proposed + k \in Entry
    BY <1>1, <1>3 DEF Entry, Proposal
  <2>. QED
    BY <1>3, <2>1, IsASeq
<1>. HIDE DEF more
<1>5. /\ log \in Seq(Entry) /\ Len(log) = Len(r.log) + n
      /\ \A k \in 1..Len(r.log) : log[k] = r.log[k]
      /\ \A k \in 1..n : log[Len(r.log) + k] = r.proposed + k
  BY Zenon, <1>2, <1>4, LogExtended
<1>. HIDE DEF log
<1>6. ASSUME NEW w \in added
      PROVE  /\ w \in Waiting /\ w.index > Len(r.log) /\ w.index <= Len(log)
             /\ log[w.index] = w.id /\ w.id > r.proposed /\ w.id <= r.proposed + n
             /\ w.id \in Proposal /\ w.id - r.proposed = w.index - Len(r.log)
             /\ w = [index |-> w.index, id |-> w.id]
             /\ w.index \in Nat /\ w.id \in Nat
  <2>. PICK k \in 1..n : w = [index |-> Len(r.log) + 1 + k - 1, id |-> r.proposed + k]
    BY Zenon
  <2>1. w.index = Len(r.log) + k /\ w.id = r.proposed + k
    BY <1>3
  <2>2. w.id \in Proposal /\ w.index \in Nat /\ w.id \in Nat
    BY <1>1, <1>3, <2>1 DEF Proposal
  <2>3. w \in Waiting
    BY Zenon, <2>2 DEF Waiting, Entry
  <2>4. log[w.index] = w.id
    BY Zenon, <1>5, <2>1
  <2>5. w = [index |-> w.index, id |-> w.id]
    BY Zenon
  <2>6. /\ w.index > Len(r.log) /\ w.index <= Len(log)
        /\ w.id > r.proposed /\ w.id <= r.proposed + n
        /\ w.id - r.proposed = w.index - Len(r.log)
    <3>1. k \in Nat /\ 1 <= k /\ k <= n
      BY <1>3
    <3>2. w.index > Len(r.log) /\ w.index <= Len(log)
      BY <1>3, <1>5, <2>1, <3>1
    <3>3. w.id > r.proposed /\ w.id <= r.proposed + n
      BY <1>3, <2>1, <3>1
    <3>4. w.id - r.proposed = w.index - Len(r.log)
      BY <1>3, <2>1, <3>1
    <3>. QED
      BY Zenon, <3>2, <3>3, <3>4
  <2>. QED
    BY Zenon, <2>2, <2>3, <2>4, <2>5, <2>6
<1>. HIDE DEF added
<1>7. s = [r EXCEPT !.log = log, !.proposed = r.proposed + n,
                    !.pending = r.pending \cup added]
  BY Zenon, <1>2 DEF RaftState
<1>8. s \in RaftState
  <2>1. r.proposed + n \in 0..MaxProposals /\ r.pending \cup added \in SUBSET Waiting
    BY <1>1, <1>3, <1>6
  <2>. QED
    BY Zenon, <1>2, <1>5, <1>7, <2>1, ProposeType
<1>9. /\ s.log = log /\ s.proposed = r.proposed + n /\ s.pending = r.pending \cup added
      /\ s.commitIndex = r.commitIndex /\ s.lastApplied = r.lastApplied
      /\ s.answers = r.answers /\ s.state = "LEADER" /\ s.running /\ SameExec(r, s)
  BY Zenon, <1>1, <1>2, <1>7 DEF RaftState, SameExec
<1>. HIDE DEF s
<1>10. Base(s, sm)
  <2>1. s.commitIndex <= Len(s.log)
    BY <1>2, <1>3, <1>5, <1>9
  <2>2. ASSUME NEW k \in 1..Len(sm) PROVE sm[k] = s.log[k]
    <3>1. k \in 1..Len(r.log)
      BY <1>2, <1>3
    <3>2. sm[k] = r.log[k]
      BY Zenon, <1>2 DEF Base
    <3>. QED
      BY Zenon, <1>5, <1>9, <3>1, <3>2
  <2>. QED
    BY Zenon, <1>2, <1>8, <1>9, <2>1, <2>2 DEF Base
<1>11. Stage(s, worker, sm, posted, "loop")
  <2>1. r.commitIndex <= s.commitIndex
    BY <1>3, <1>9
  <2>2. ASSUME NEW k \in 1..r.commitIndex PROVE s.log[k] = r.log[k]
    <3>1. k \in 1..Len(r.log)
      BY <1>2, <1>3
    <3>. QED
      BY Zenon, <1>5, <1>9, <3>1
  <2>. QED
    BY Zenon, <1>2, <1>8, <1>9, <2>1, <2>2, StageKept
<1>12. Clients(s, sm)
  <2>1. ASSUME NEW w \in r.pending
        PROVE  /\ w.index > r.lastApplied /\ w.index <= Len(r.log)
               /\ r.log[w.index] = w.id /\ w.index \in Nat /\ w.id \in Nat
               /\ w.id # Foreign => r.answers[w.id] = <<>> /\ w.id <= r.proposed
    <3>1. w.index \in Nat /\ w.id \in Nat
      BY <1>3 DEF Waiting, Entry, Proposal, Foreign
    <3>. QED
      BY Zenon, <1>2, <3>1 DEF Clients
  <2>2. ASSUME NEW w \in s.pending
        PROVE  /\ w.index > s.lastApplied /\ w.index <= Len(s.log)
               /\ s.log[w.index] = w.id
               /\ w.id # Foreign => s.answers[w.id] = <<>> /\ w.id <= s.proposed
    <3>1. CASE w \in r.pending
      <4>1. w.index \in 1..Len(r.log)
        BY <1>3, <2>1, <3>1
      <4>2. s.log[w.index] = w.id
        BY Zenon, <1>5, <1>9, <2>1, <3>1, <4>1
      <4>3. w.id # Foreign => s.answers[w.id] = <<>> /\ w.id <= s.proposed
        BY <1>3, <1>9, <2>1, <3>1
      <4>. QED
        BY <1>3, <1>5, <1>9, <2>1, <3>1, <4>2, <4>3
    <3>2. CASE w \in added
      <4>1. s.answers[w.id] = <<>>
        BY Zenon, <1>2, <1>6, <1>9, <3>2 DEF Clients
      <4>2. w.index > s.lastApplied
        BY <1>2, <1>3, <1>6, <1>9, <3>2
      <4>. QED
        BY Zenon, <1>6, <1>9, <3>2, <4>1, <4>2
    <3>. QED
      BY Zenon, <1>9, <3>1, <3>2
  <2>3. ASSUME NEW v \in s.pending, NEW w \in s.pending, v.id = w.id, v.id # Foreign
        PROVE  v = w
    <3>1. CASE v \in r.pending /\ w \in r.pending
      BY Zenon, <1>2, <2>3, <3>1 DEF Clients
    <3>2. CASE v \in added /\ w \in added
      <4>1. v.index = w.index
        BY <1>3, <1>6, <2>3, <3>2
      <4>. QED
        BY Zenon, <1>6, <2>3, <3>2, <4>1
    <3>3. CASE v \in r.pending /\ w \in added
      BY <1>3, <1>6, <2>1, <2>3, <3>3
    <3>4. CASE v \in added /\ w \in r.pending
      BY <1>3, <1>6, <2>1, <2>3, <3>4
    <3>. QED
      BY Zenon, <1>9, <3>1, <3>2, <3>3, <3>4
  <2>4. ASSUME NEW p \in Proposal, p > s.proposed PROVE s.answers[p] = <<>>
    <3>1. p > r.proposed
      BY <1>3, <1>9, <2>4 DEF Proposal
    <3>. QED
      BY Zenon, <1>2, <1>9, <3>1 DEF Clients
  <2>5. ASSUME NEW p \in Proposal PROVE Honest(s, sm, p)
    <3>1. Honest(r, sm, p)
      BY Zenon, <1>2 DEF Clients
    <3>. QED
      BY Zenon, <1>9, <3>1 DEF Honest
  <2>. QED
    BY Zenon, <1>9, <2>2, <2>3, <2>4, <2>5 DEF Clients
<1>. QED
  BY Zenon, <1>1, <1>10, <1>11, <1>12, ApplyDone

(* A node that has been elected is well typed.                             *)
LEMMA LeaderType ==
    ASSUME NEW r \in RaftState, NEW noop \in Nat, NEW log \in Seq(Entry),
           NEW W \in SUBSET Waiting
    PROVE  [r EXCEPT !.state = "LEADER", !.noop = noop, !.log = log,
                     !.pending = W] \in RaftState
  BY Zenon DEF RaftState

(* BecomeLeader preserves the invariant.                                   *)
LEMMA BecomeLeaderInv ==
    ASSUME IndInv, BecomeLeader
    PROVE  IndInv'
<1>. DEFINE r == raft
            index == Len(r.log) + 1
            noop == [index |-> index, id |-> Foreign]
            log == Append(r.log, Foreign)
            s == [r EXCEPT !.state = "LEADER", !.noop = index, !.log = log,
                           !.pending = @ \cup {noop}]
<1>1. /\ Callback(ApplyCommitted(s)) /\ UNCHANGED <<worker, sm, posted>>
      /\ owner = "loop" /\ r.running /\ r.state = "FOLLOWER"
  BY Zenon DEF BecomeLeader, Callback
<1>2. /\ Base(r, sm) /\ Stage(r, worker, sm, posted, "loop")
      /\ Clients(r, sm) /\ r \in RaftState
      /\ sm \in Seq(Entry) /\ Len(sm) \in Nat
      /\ r.lastApplied <= Len(sm) /\ Len(sm) <= r.commitIndex
      /\ r.commitIndex <= Len(r.log)
  BY Zenon, <1>1, InLoop
<1>3. /\ Len(r.log) \in Nat /\ r.log \in Seq(Entry) /\ Foreign \in Entry
      /\ r.lastApplied \in Nat /\ r.commitIndex \in Nat
      /\ r.pending \in SUBSET Waiting
  BY Zenon, <1>2, RaftFields DEF Entry
<1>4. r.pending = {}
  BY Zenon, <1>1, <1>2 DEF Clients
<1>5. /\ log \in Seq(Entry) /\ Len(log) = Len(r.log) + 1
      /\ \A k \in 1..Len(r.log) : log[k] = r.log[k]
      /\ log[index] = Foreign /\ index \in Nat
  BY <1>3, AppendProperties
<1>6. noop.index = index /\ noop.id = Foreign /\ noop \in Waiting
  BY Zenon, <1>3, <1>5 DEF Waiting
<1>. HIDE DEF log, index, noop
<1>7. s = [r EXCEPT !.state = "LEADER", !.noop = index, !.log = log, !.pending = {noop}]
  BY Zenon, <1>2, <1>4 DEF RaftState
<1>8. s \in RaftState
  <2>1. {noop} \in SUBSET Waiting
    BY Zenon, <1>6
  <2>. QED
    BY Zenon, <1>2, <1>5, <1>7, <2>1, LeaderType
<1>9. /\ s.log = log /\ s.proposed = r.proposed /\ s.pending = {noop}
      /\ s.commitIndex = r.commitIndex /\ s.lastApplied = r.lastApplied
      /\ s.answers = r.answers /\ s.state = "LEADER" /\ s.running /\ SameExec(r, s)
  BY Zenon, <1>1, <1>2, <1>7 DEF RaftState, SameExec
<1>. HIDE DEF s
<1>10. Base(s, sm)
  <2>1. s.commitIndex <= Len(s.log)
    BY <1>2, <1>3, <1>5, <1>9
  <2>2. ASSUME NEW k \in 1..Len(sm) PROVE sm[k] = s.log[k]
    <3>1. k \in 1..Len(r.log)
      BY <1>2, <1>3
    <3>2. sm[k] = r.log[k]
      BY Zenon, <1>2 DEF Base
    <3>. QED
      BY Zenon, <1>5, <1>9, <3>1, <3>2
  <2>. QED
    BY Zenon, <1>2, <1>8, <1>9, <2>1, <2>2 DEF Base
<1>11. Stage(s, worker, sm, posted, "loop")
  <2>1. r.commitIndex <= s.commitIndex
    BY <1>3, <1>9
  <2>2. ASSUME NEW k \in 1..r.commitIndex PROVE s.log[k] = r.log[k]
    <3>1. k \in 1..Len(r.log)
      BY <1>2, <1>3
    <3>. QED
      BY Zenon, <1>5, <1>9, <3>1
  <2>. QED
    BY Zenon, <1>2, <1>8, <1>9, <2>1, <2>2, StageKept
<1>12. Clients(s, sm)
  <2>1. /\ noop.index > s.lastApplied /\ noop.index <= Len(s.log)
        /\ s.log[noop.index] = noop.id
    BY <1>2, <1>3, <1>5, <1>6, <1>9 DEF index
  <2>2. \A p \in Proposal : Honest(s, sm, p)
    BY <1>2, <1>9 DEF Clients, Honest
  <2>3. \A p \in Proposal : p > s.proposed => s.answers[p] = <<>>
    BY Zenon, <1>2, <1>9 DEF Clients
  <2>. QED
    BY Zenon, <1>6, <1>9, <2>1, <2>2, <2>3 DEF Clients
<1>. QED
  BY Zenon, <1>1, <1>10, <1>11, <1>12, ApplyDone

(* A node that has advanced commitIndex is well typed.                     *)
LEMMA CommitType ==
    ASSUME NEW r \in RaftState, NEW k \in Nat
    PROVE  [r EXCEPT !.commitIndex = k] \in RaftState
  BY Zenon DEF RaftState

(* AdvanceCommitIndex preserves the invariant.                             *)
LEMMA AdvanceCommitIndexInv ==
    ASSUME IndInv, NEW k \in 1..MaxIndex, AdvanceCommitIndex(k)
    PROVE  IndInv'
<1>. DEFINE r == raft
            s == [r EXCEPT !.commitIndex = k]
<1>1. /\ Callback(ApplyCommitted(s)) /\ UNCHANGED <<worker, sm, posted>>
      /\ owner = "loop" /\ k > r.commitIndex /\ k <= Len(r.log)
  BY Zenon DEF AdvanceCommitIndex, Callback
<1>2. /\ Base(r, sm) /\ Stage(r, worker, sm, posted, "loop")
      /\ Clients(r, sm) /\ r \in RaftState
  BY Zenon, <1>1, InLoop
<1>3. r.commitIndex \in Nat /\ Len(r.log) \in Nat /\ k \in Nat
      /\ sm \in Seq(Entry) /\ Len(sm) \in Nat
  BY <1>2, RaftFields, LenProperties DEF Base
<1>4. s \in RaftState
  BY Zenon, <1>2, <1>3, CommitType
<1>5. /\ s.log = r.log /\ s.lastApplied = r.lastApplied /\ s.commitIndex = k
      /\ SameExec(r, s) /\ SameClients(r, s)
  BY Zenon, <1>2 DEF RaftState, SameExec, SameClients
<1>. HIDE DEF s
<1>6. Base(s, sm)
  BY <1>1, <1>2, <1>3, <1>4, <1>5 DEF Base
<1>7. Stage(s, worker, sm, posted, "loop")
  <2>1. r.commitIndex <= s.commitIndex
    BY <1>1, <1>3, <1>5
  <2>. QED
    BY Zenon, <1>2, <1>4, <1>5, <2>1, StageKept
<1>8. Clients(s, sm)
  BY <1>2, <1>5 DEF Clients, Honest, SameClients
<1>. QED
  BY Zenon, <1>1, <1>6, <1>7, <1>8, ApplyDone

(* BecomeFollower leaves a good state whatever follows.                    *)
LEMMA FollowerStage ==
    ASSUME IndInv, owner = "loop", NEW f, f = BecomeFollower(raft)
    PROVE  /\ Base(f, sm) /\ Stage(f, worker, sm, posted, "loop") /\ Clients(f, sm)
           /\ f \in RaftState /\ f.pending = {} /\ f.running = raft.running
           /\ SameExec(raft, f) /\ SameLog(raft, f)
<1>1. /\ Base(raft, sm) /\ Stage(raft, worker, sm, posted, "loop")
      /\ Clients(raft, sm) /\ raft \in RaftState
  BY Zenon, InLoop
<1>2. /\ Base(f, sm) /\ Clients(f, sm) /\ SameExec(raft, f) /\ SameLog(raft, f)
      /\ f.pending = {} /\ f.running = raft.running
  BY Zenon, <1>1, BecomeFollowerInv
<1>3. f \in RaftState
  BY Zenon, <1>2 DEF Base
<1>4. f.lastApplied = raft.lastApplied /\ f.commitIndex = raft.commitIndex
      /\ f.log = raft.log /\ raft.commitIndex \in Nat
  BY Zenon, <1>1, <1>2, RaftFields DEF SameLog
<1>5. Stage(f, worker, sm, posted, "loop")
  <2>1. raft.commitIndex <= f.commitIndex
    BY <1>4
  <2>. QED
    BY Zenon, <1>1, <1>2, <1>3, <1>4, <2>1, StageKept
<1>. QED
  BY Zenon, <1>2, <1>3, <1>5

(* StepDown preserves the invariant.                                       *)
LEMMA StepDownInv ==
    ASSUME IndInv, StepDown
    PROVE  IndInv'
<1>. DEFINE f == BecomeFollower(raft)
<1>1. owner = "loop" /\ Callback(f) /\ worker' = worker /\ sm' = sm /\ posted' = posted
  BY Zenon DEF StepDown, Callback
<1>2. Base(f, sm) /\ Stage(f, worker, sm, posted, "loop") /\ Clients(f, sm)
  BY Zenon, <1>1, FollowerStage
<1>. HIDE DEF f
<1>. QED
  BY Zenon, <1>1, <1>2, CallbackDone

(* A log that keeps its first `keep' entries and goes on with n others.    *)
LEMMA LogReplaced ==
    ASSUME NEW log \in Seq(Entry), NEW keep \in Nat, keep <= Len(log), NEW n \in Nat
    PROVE  LET new == SubSeq(log, 1, keep) \o [k \in 1..n |-> Foreign]
           IN /\ new \in Seq(Entry) /\ Len(new) = keep + n
              /\ \A k \in 1..keep : new[k] = log[k]
<1>. DEFINE part == SubSeq(log, 1, keep)
            more == [k \in 1..n |-> Foreign]
<1>1. Len(log) \in Nat
  BY Zenon, LenProperties
<1>2. ASSUME NEW k \in 1..keep PROVE log[k] \in Entry
  <2>1. k \in 1..Len(log)
    BY <1>1
  <2>. QED
    BY Zenon, <2>1, ElementOfSeq
<1>3. /\ part \in Seq(Entry) /\ Len(part) = IF 1 <= keep THEN keep - 1 + 1 ELSE 0
      /\ \A k \in 1 .. keep - 1 + 1 : part[k] = log[1 + k - 1]
  BY <1>2, SubSeqProperties
<1>. HIDE DEF part
<1>4. Len(part) = keep /\ \A k \in 1..keep : part[k] = log[k]
  <2>1. Len(part) = keep
    BY <1>3
  <2>2. ASSUME NEW k \in 1..keep PROVE part[k] = log[k]
    <3>1. k \in 1 .. keep - 1 + 1 /\ 1 + k - 1 = k
      OBVIOUS
    <3>. QED
      BY Zenon, <1>3, <3>1
  <2>. QED
    BY Zenon, <2>1, <2>2
<1>5. more \in Seq(Entry) /\ Len(more) = n
  <2>1. \A k \in 1..n : Foreign \in Entry
    BY Zenon DEF Entry
  <2>. QED
    BY <2>1, IsASeq
<1>. HIDE DEF more
<1>6. /\ part \o more \in Seq(Entry) /\ Len(part \o more) = Len(part) + Len(more)
      /\ \A k \in 1 .. Len(part) + Len(more) :
            (part \o more)[k] = IF k <= Len(part) THEN part[k] ELSE more[k - Len(part)]
  BY Zenon, <1>3, <1>5, ConcatProperties
<1>7. ASSUME NEW k \in 1..keep PROVE (part \o more)[k] = log[k]
  <2>1. k \in 1 .. Len(part) + Len(more) /\ k <= Len(part)
    BY <1>4, <1>5
  <2>2. (part \o more)[k] = part[k]
    BY Zenon, <1>6, <2>1
  <2>. QED
    BY Zenon, <1>4, <2>2
<1>8. part \o more \in Seq(Entry) /\ Len(part \o more) = keep + n
  BY Zenon, <1>4, <1>5, <1>6
<1>. QED
  BY Zenon, <1>7, <1>8 DEF part, more

(* A node that has taken entries of a leader is well typed.                *)
LEMMA ReplicateType ==
    ASSUME NEW f \in RaftState, NEW log \in Seq(Entry), NEW c \in Nat
    PROVE  [f EXCEPT !.log = log, !.commitIndex = c] \in RaftState
  BY Zenon DEF RaftState

(* HandleAppendEntries preserves the invariant.                            *)
LEMMA HandleAppendEntriesInv ==
    ASSUME IndInv, NEW keep \in raft.commitIndex .. Len(raft.log), NEW n \in 0..MaxIndex,
           NEW commit \in raft.commitIndex .. MaxIndex,
           HandleAppendEntries(keep, n, commit)
    PROVE  IndInv'
<1>. DEFINE f == BecomeFollower(raft)
            log == SubSeq(f.log, 1, keep) \o [k \in 1..n |-> Foreign]
            s == [f EXCEPT !.log = log, !.commitIndex = commit]
<1>1. owner = "loop" /\ UNCHANGED <<worker, sm, posted>> /\ commit <= keep + n
      /\ Callback(ApplyCommitted([f EXCEPT !.log = SubSeq(@, 1, keep)
                                                     \o [k \in 1..n |-> Foreign],
                                            !.commitIndex = commit]))
  BY Zenon DEF HandleAppendEntries, Callback
<1>2. /\ Base(f, sm) /\ Stage(f, worker, sm, posted, "loop") /\ Clients(f, sm)
      /\ f \in RaftState /\ f.pending = {} /\ SameLog(raft, f)
  BY Zenon, <1>1, FollowerStage
<1>. HIDE DEF f
<1>3. /\ f.log \in Seq(Entry) /\ Len(f.log) \in Nat /\ f.commitIndex \in Nat
      /\ sm \in Seq(Entry) /\ Len(sm) \in Nat /\ Len(sm) <= f.commitIndex
      /\ f.lastApplied <= Len(sm) /\ f.commitIndex <= Len(f.log)
      /\ MaxIndex \in Nat
  BY Zenon, <1>2, RaftFields, LenProperties, PipelineAssumption DEF Base
<1>4. /\ keep \in Nat /\ f.commitIndex <= keep /\ keep <= Len(f.log) /\ n \in Nat
      /\ commit \in Nat /\ f.commitIndex <= commit
  BY <1>2, <1>3 DEF SameLog
<1>5. /\ log \in Seq(Entry) /\ Len(log) = keep + n
      /\ \A k \in 1..keep : log[k] = f.log[k]
  BY Zenon, <1>3, <1>4, LogReplaced
<1>6. Callback(ApplyCommitted(s))
  BY Zenon, <1>1, <1>2 DEF RaftState
<1>. HIDE DEF log
<1>7. s \in RaftState
  BY Zenon, <1>2, <1>4, <1>5, ReplicateType
<1>8. /\ s.log = log /\ s.commitIndex = commit /\ s.lastApplied = f.lastApplied
      /\ SameExec(f, s) /\ SameClients(f, s)
  BY Zenon, <1>2 DEF RaftState, SameExec, SameClients
<1>. HIDE DEF s
<1>9. ASSUME NEW k \in 1..f.commitIndex PROVE s.log[k] = f.log[k]
  <2>1. k \in 1..keep
    BY <1>3, <1>4
  <2>. QED
    BY Zenon, <1>5, <1>8, <2>1
<1>10. Base(s, sm)
  <2>1. s.commitIndex <= Len(s.log) /\ Len(sm) <= s.commitIndex
    BY <1>1, <1>3, <1>4, <1>5, <1>8
  <2>2. ASSUME NEW k \in 1..Len(sm) PROVE sm[k] = s.log[k]
    <3>1. k \in 1..f.commitIndex
      BY <1>3
    <3>2. sm[k] = f.log[k]
      BY Zenon, <1>2 DEF Base
    <3>. QED
      BY Zenon, <1>9, <3>1, <3>2
  <2>. QED
    BY Zenon, <1>2, <1>3, <1>7, <1>8, <2>1, <2>2 DEF Base
<1>11. Stage(s, worker, sm, posted, "loop")
  BY Zenon, <1>2, <1>4, <1>7, <1>8, <1>9, StageKept
<1>12. Clients(s, sm)
  <2>1. \A p \in Proposal : Honest(s, sm, p)
    BY <1>2, <1>8 DEF Clients, Honest, SameClients
  <2>. QED
    BY Zenon, <1>2, <1>8, <2>1 DEF Clients, SameClients
<1>. QED
  BY Zenon, <1>1, <1>6, <1>10, <1>11, <1>12, ApplyDone

(* A node that has installed a snapshot is well typed.                     *)
LEMMA InstallType ==
    ASSUME NEW f \in RaftState, NEW log \in Seq(Entry), NEW a \in Nat, NEW c \in Nat
    PROVE  [f EXCEPT !.log = log, !.lastApplied = a, !.commitIndex = c] \in RaftState
  BY Zenon DEF RaftState

(* No batch is outstanding, so the snapshot replaces what nobody reads.    *)
LEMMA HandleInstallSnapshotInv ==
    ASSUME IndInv, NEW index \in 1..MaxIndex, NEW keep \in 0 .. Len(raft.log),
           HandleInstallSnapshot(index, keep)
    PROVE  IndInv'
<1>. DEFINE f == BecomeFollower(raft)
            data == SubSeq(raft.log, 1, keep) \o [k \in 1 .. index - keep |-> Foreign]
            log == IF keep = index THEN f.log ELSE data
            c == Larger(f.commitIndex, index)
            s == [f EXCEPT !.log = log, !.lastApplied = index, !.commitIndex = c]
<1>1. /\ owner = "loop" /\ worker' = worker /\ posted' = posted /\ sm' = data
      /\ index > raft.lastApplied /\ ~raft.applyInflight
      /\ keep >= Smaller(index, raft.commitIndex)
      /\ keep <= Smaller(index, Len(raft.log))
  BY Zenon DEF HandleInstallSnapshot, Callback
<1>2. Callback([f EXCEPT !.log = IF keep = index THEN @ ELSE data,
                         !.lastApplied = index,
                         !.commitIndex = Larger(@, index)])
  BY Zenon DEF HandleInstallSnapshot
<1>3. /\ Base(f, sm) /\ Stage(f, worker, sm, posted, "loop") /\ Clients(f, sm)
      /\ f \in RaftState /\ f.pending = {} /\ SameExec(raft, f) /\ SameLog(raft, f)
  BY Zenon, <1>1, FollowerStage
<1>. HIDE DEF f
<1>4. Callback(s)
  BY Zenon, <1>2, <1>3 DEF RaftState
<1>5. /\ f.log \in Seq(Entry) /\ Len(f.log) \in Nat /\ f.commitIndex \in Nat
      /\ Len(sm) \in Nat /\ Len(sm) <= f.commitIndex /\ f.lastApplied \in Nat
      /\ f.lastApplied <= Len(sm) /\ f.commitIndex <= Len(f.log)
      /\ f.log = raft.log /\ f.commitIndex = raft.commitIndex
      /\ f.lastApplied = raft.lastApplied
  BY Zenon, <1>3, RaftFields, LenProperties DEF Base, SameLog
<1>6. /\ keep \in Nat /\ index \in Nat /\ keep <= index /\ keep <= Len(f.log)
      /\ f.lastApplied <= keep /\ index - keep \in Nat
      /\ keep # index => f.commitIndex <= keep
  BY <1>1, <1>5 DEF Smaller
<1>7. /\ data \in Seq(Entry) /\ Len(data) = index
      /\ \A k \in 1..keep : data[k] = f.log[k]
  <2>1. /\ data \in Seq(Entry) /\ Len(data) = keep + (index - keep)
        /\ \A k \in 1..keep : data[k] = raft.log[k]
    BY Zenon, <1>5, <1>6, LogReplaced
  <2>. HIDE DEF data
  <2>. QED
    BY <1>5, <1>6, <2>1
<1>. HIDE DEF data
<1>8. /\ log \in Seq(Entry) /\ c \in Nat /\ index <= c /\ c <= Len(log)
      /\ \A k \in 1..index : data[k] = log[k]
  <2>1. CASE keep = index
    BY Zenon, <1>5, <1>6, <1>7, <2>1 DEF Larger
  <2>2. CASE keep # index
    BY <1>5, <1>6, <1>7, <2>2 DEF Larger
  <2>. QED
    BY Zenon, <2>1, <2>2
<1>. HIDE DEF log, c
<1>9. s \in RaftState
  BY Zenon, <1>3, <1>6, <1>8, InstallType
<1>10. /\ s.log = log /\ s.commitIndex = c /\ s.lastApplied = index
       /\ SameExec(f, s) /\ SameClients(f, s)
  BY Zenon, <1>3 DEF RaftState, SameExec, SameClients
<1>. HIDE DEF s
<1>11. Base(s, data)
  BY <1>6, <1>7, <1>8, <1>9, <1>10 DEF Base
<1>12. Stage(s, worker, data, posted, "loop")
  <2>1. /\ ~s.applyInflight /\ s.job = NoJob /\ ~s.busy /\ worker.pc = "check"
        /\ posted = <<>> /\ ~s.refused /\ ~s.stopping
        /\ worker \in WorkerState /\ posted \in Seq(Completion)
    BY Zenon, <1>1, <1>3, <1>10 DEF Stage, SameExec
  <2>2. ~(Len(data) > s.lastApplied)
    BY <1>6, <1>7, <1>10
  <2>. QED
    BY Zenon, <2>1, <2>2 DEF Stage
<1>13. Clients(s, data)
  <2>1. ASSUME NEW p \in Proposal PROVE Honest(s, data, p)
    <3>1. Honest(f, sm, p) /\ s.answers = f.answers
      BY Zenon, <1>3, <1>10 DEF Clients, SameClients
    <3>2. ASSUME NEW k \in 1..f.lastApplied PROVE k \in 1..s.lastApplied /\ data[k] = sm[k]
      <4>1. k \in 1..keep /\ k \in 1..Len(sm) /\ k \in 1..index
        BY <1>5, <1>6
      <4>2. sm[k] = f.log[k]
        BY Zenon, <1>3, <4>1 DEF Base
      <4>. QED
        BY Zenon, <1>7, <1>10, <4>1, <4>2
    <3>. QED
      BY Zenon, <3>1, <3>2 DEF Honest
  <2>. QED
    BY Zenon, <1>3, <1>10, <2>1 DEF Clients, SameClients
<1>. QED
  BY Zenon, <1>1, <1>4, <1>11, <1>12, <1>13, CallbackDone

(* A node that has expired proposals is well typed.                        *)
LEMMA ExpireType ==
    ASSUME NEW r \in RaftState, NEW W \in SUBSET Waiting,
           NEW new \in [Proposal -> Seq(Reply)]
    PROVE  [r EXCEPT !.pending = W, !.answers = new] \in RaftState
  BY Zenon DEF RaftState

(* ExpireUncommittedProposals preserves the invariant.                     *)
LEMMA ExpireInv ==
    ASSUME IndInv, NEW k \in 1..MaxIndex, ExpireUncommittedProposals(k)
    PROVE  IndInv'
<1>. DEFINE r == raft
            expired == {w \in r.pending : w.index > r.commitIndex /\ w.index <= k}
            new == Call(r, [w \in expired |-> Unknown])
            s == [r EXCEPT !.pending = @ \ expired, !.answers = new]
<1>1. owner = "loop" /\ Callback(s) /\ worker' = worker /\ sm' = sm /\ posted' = posted
  BY Zenon DEF ExpireUncommittedProposals, Callback
<1>2. /\ Base(r, sm) /\ Stage(r, worker, sm, posted, "loop")
      /\ Clients(r, sm) /\ r \in RaftState
  BY Zenon, <1>1, InLoop
<1>3. expired \in SUBSET r.pending /\ r.pending \in SUBSET Waiting
  BY Zenon, <1>2, RaftFields
<1>. HIDE DEF expired
<1>4. new \in [Proposal -> Seq(Reply)]
  <2>1. [w \in expired |-> Unknown] \in [expired -> Reply]
    BY Zenon DEF Reply
  <2>. QED
    BY Zenon, <1>2, <1>3, <2>1, CallType
<1>. HIDE DEF new
<1>5. s = [r EXCEPT !.pending = r.pending \ expired, !.answers = new]
  BY Zenon, <1>2 DEF RaftState
<1>6. s \in RaftState
  <2>1. r.pending \ expired \in SUBSET Waiting
    BY Zenon, <1>3
  <2>. QED
    BY Zenon, <1>2, <1>4, <1>5, <2>1, ExpireType
<1>7. /\ s.pending = r.pending \ expired /\ s.answers = new /\ SameExec(r, s)
      /\ SameLog(r, s) /\ s.proposed = r.proposed /\ s.state = r.state
      /\ s.running = r.running
  BY Zenon, <1>2, <1>5 DEF RaftState, SameExec, SameLog
<1>. HIDE DEF s
<1>8. ASSUME NEW p \in Proposal
      PROVE  /\ Honest(s, sm, p)
             /\ (\A w \in expired : w.id # p) => s.answers[p] = r.answers[p]
  <2>1. s.answers = Call(r, [w \in expired |-> Unknown])
    BY Zenon, <1>7 DEF new
  <2>2. s.lastApplied = r.lastApplied
    BY Zenon, <1>7 DEF SameLog
  <2>. QED
    BY Zenon, <1>2, <1>3, <2>1, <2>2, UnknownHonest
<1>9. Base(s, sm)
  BY Zenon, <1>2, <1>6, <1>7 DEF Base, SameLog
<1>10. Stage(s, worker, sm, posted, "loop")
  <2>1. /\ s.lastApplied = r.lastApplied /\ r.commitIndex <= s.commitIndex
        /\ s.log = r.log
    BY <1>2, <1>7, RaftFields DEF SameLog
  <2>. QED
    BY Zenon, <1>2, <1>6, <1>7, <2>1, StageKept
<1>11. Clients(s, sm)
  <2>1. ASSUME NEW w \in s.pending, w.id # Foreign
        PROVE  s.answers[w.id] = <<>>
    <3>1. w \in r.pending /\ w \notin expired /\ w.id \in Proposal
      BY Zenon, <1>3, <1>7, <2>1 DEF Waiting, Entry
    <3>2. \A v \in expired : v.id # w.id
      BY Zenon, <1>2, <1>3, <2>1, <3>1 DEF Clients
    <3>3. r.answers[w.id] = <<>>
      BY Zenon, <1>2, <2>1, <3>1 DEF Clients
    <3>. QED
      BY Zenon, <1>8, <3>1, <3>2, <3>3
  <2>2. ASSUME NEW p \in Proposal, p > s.proposed PROVE s.answers[p] = <<>>
    <3>1. r.answers[p] = <<>> /\ r.proposed \in Nat /\ p \in Nat /\ p # Foreign
      BY <1>2, <1>7, <2>2, RaftFields, PipelineAssumption
         DEF Clients, Proposal, Foreign
    <3>2. \A w \in expired : w.id # p
      <4>. SUFFICES ASSUME NEW w \in expired, w.id = p PROVE FALSE
        BY Zenon
      <4>1. p <= r.proposed
        BY Zenon, <1>2, <1>3, <3>1 DEF Clients
      <4>. QED
        BY <1>7, <2>2, <3>1, <4>1
    <3>. QED
      BY Zenon, <1>8, <3>1, <3>2
  <2>3. ASSUME NEW w \in s.pending
        PROVE  /\ s.state = "LEADER" /\ s.running
               /\ w.index > s.lastApplied /\ w.index <= Len(s.log)
               /\ s.log[w.index] = w.id
               /\ w.id # Foreign => w.id <= s.proposed
    BY Zenon, <1>2, <1>7 DEF Clients, SameLog
  <2>4. \A v, w \in s.pending : v.id = w.id /\ v.id # Foreign => v = w
    BY Zenon, <1>2, <1>7 DEF Clients
  <2>. QED
    BY Zenon, <1>8, <2>1, <2>2, <2>3, <2>4 DEF Clients
<1>. QED
  BY Zenon, <1>1, <1>9, <1>10, <1>11, CallbackDone

(* A node that has been started or stopped is well typed.                  *)
LEMMA RunningType ==
    ASSUME NEW r \in RaftState, NEW b \in BOOLEAN
    PROVE  [r EXCEPT !.running = b] \in RaftState
  BY Zenon DEF RaftState

(* The running flag matters to waiting callbacks only.                     *)
LEMMA RunningSet ==
    ASSUME NEW r \in RaftState, r.pending = {}, NEW w, NEW d, NEW q, NEW o, NEW b \in BOOLEAN,
           Base(r, d), Stage(r, w, d, q, o), Clients(r, d),
           NEW t, t = [r EXCEPT !.running = b]
    PROVE  t \in RaftState /\ Base(t, d) /\ Stage(t, w, d, q, o) /\ Clients(t, d)
<1>1. t \in RaftState
  BY Zenon, RunningType
<1>2. /\ SameExec(r, t) /\ SameLog(r, t) /\ t.pending = {}
      /\ t.answers = r.answers /\ t.proposed = r.proposed
  BY Zenon DEF RaftState, SameExec, SameLog
<1>3. Base(t, d)
  BY Zenon, <1>1, <1>2 DEF Base, SameLog
<1>4. Stage(t, w, d, q, o)
  <2>1. /\ t.lastApplied = r.lastApplied /\ r.commitIndex <= t.commitIndex
        /\ t.log = r.log
    BY <1>2, RaftFields DEF SameLog
  <2>. QED
    BY Zenon, <1>1, <1>2, <2>1, StageKept
<1>5. Clients(t, d)
  BY <1>2 DEF Clients, Honest, SameLog
<1>. QED
  BY Zenon, <1>1, <1>3, <1>4, <1>5

(* Stop preserves the invariant.                                           *)
LEMMA StopInv ==
    ASSUME IndInv, Stop
    PROVE  IndInv'
<1>. DEFINE f == BecomeFollower(raft)
            s == [f EXCEPT !.running = FALSE]
<1>1. owner = "loop" /\ Callback(s) /\ worker' = worker /\ sm' = sm /\ posted' = posted
  BY Zenon DEF Stop, Callback
<1>2. /\ Base(f, sm) /\ Stage(f, worker, sm, posted, "loop") /\ Clients(f, sm)
      /\ f \in RaftState /\ f.pending = {}
  BY Zenon, <1>1, FollowerStage
<1>. HIDE DEF f
<1>3. Base(s, sm) /\ Stage(s, worker, sm, posted, "loop") /\ Clients(s, sm)
  BY Zenon, <1>2, RunningSet
<1>. HIDE DEF s
<1>. QED
  BY Zenon, <1>1, <1>3, CallbackDone

(* Start preserves the invariant.                                          *)
LEMMA StartInv ==
    ASSUME IndInv, Start
    PROVE  IndInv'
<1>. DEFINE u == [raft EXCEPT !.running = TRUE]
            f == BecomeFollower(u)
<1>1. /\ owner = "loop" /\ Callback(ApplyCommitted(f)) /\ UNCHANGED <<worker, sm, posted>>
      /\ ~raft.running
  BY Zenon DEF Start, Callback
<1>2. /\ Base(raft, sm) /\ Stage(raft, worker, sm, posted, "loop")
      /\ Clients(raft, sm) /\ raft \in RaftState
  BY Zenon, <1>1, InLoop
<1>3. raft.pending = {}
  BY Zenon, <1>1, <1>2 DEF Clients
<1>4. /\ u \in RaftState /\ Base(u, sm) /\ Stage(u, worker, sm, posted, "loop")
      /\ Clients(u, sm)
  BY Zenon, <1>2, <1>3, RunningSet
<1>. HIDE DEF u
<1>5. Base(f, sm) /\ Clients(f, sm) /\ SameExec(u, f) /\ SameLog(u, f)
  BY Zenon, <1>4, BecomeFollowerInv
<1>. HIDE DEF f
<1>6. Stage(f, worker, sm, posted, "loop")
  <2>1. f \in RaftState
    BY Zenon, <1>5 DEF Base
  <2>2. /\ f.lastApplied = u.lastApplied /\ u.commitIndex <= f.commitIndex
        /\ f.log = u.log
    BY <1>4, <1>5, RaftFields DEF SameLog
  <2>. QED
    BY Zenon, <1>4, <1>5, <2>1, <2>2, StageKept
<1>. QED
  BY Zenon, <1>1, <1>5, <1>6, ApplyDone

(* A node that has published a batch is well typed.                        *)
LEMMA FinishType ==
    ASSUME NEW r \in RaftState, NEW a \in Nat, NEW W \in SUBSET Waiting,
           NEW new \in [Proposal -> Seq(Reply)]
    PROVE  [r EXCEPT !.lastApplied = a, !.pending = W, !.answers = new,
                     !.applyInflight = FALSE] \in RaftState
  BY Zenon DEF RaftState

(* The k-th entry of a batch of n after a is at index a + k.               *)
LEMMA BatchPosition ==
    ASSUME NEW a \in Nat, NEW n \in Nat, NEW i \in Nat, i \in a + 1 .. a + 1 + n - 1
    PROVE  i - (a + 1) + 1 \in 1..n /\ i = a + (i - (a + 1) + 1) /\ i \in 1 .. a + n
  OBVIOUS

(* The state in which a completion calls ApplyCommitted.                   *)
Published(r, c) == [FinishApply(r, c) EXCEPT !.applyInflight = FALSE]

(* A batch that is durable is published: each of its callbacks gets the    *)
(* reply of its own entry.                                                 *)
LEMMA FinishApplyInv ==
    ASSUME NEW r, NEW d, Base(r, d), Clients(r, d),
           NEW c \in Completion, Batch(r, c.first, c.results),
           Len(d) = r.lastApplied + Len(c.results),
           NEW s, s = Published(r, c)
    PROVE  /\ s \in RaftState /\ Base(s, d) /\ Clients(s, d)
           /\ s.lastApplied = Len(d) /\ ~s.applyInflight
           /\ s.job = r.job /\ s.busy = r.busy /\ s.stopping = r.stopping
           /\ s.refused = r.refused
<1>. DEFINE done == {w \in r.pending : w.index \in BatchOf(c)}
            reply == [w \in done |-> c.results[w.index - c.first + 1]]
            new == Call(r, reply)
<1>1. /\ r \in RaftState /\ r.lastApplied \in Nat /\ r.pending \in SUBSET Waiting
      /\ d \in Seq(Entry) /\ Len(d) \in Nat /\ Len(d) <= r.commitIndex
      /\ r.proposed \in Nat /\ MaxProposals \in Nat
  BY RaftFields, LenProperties, PipelineAssumption DEF Base
<1>2. /\ c.results \in Seq(Entry) /\ Len(c.results) \in Nat
      /\ c.first = r.lastApplied + 1
  BY Zenon, LenProperties DEF Completion, Batch
<1>3. done \in SUBSET r.pending
  BY Zenon
<1>4. ASSUME NEW w \in done
      PROVE  /\ w.index \in 1..Len(d) /\ d[w.index] = w.id /\ w.id \in Entry
             /\ c.results[w.index - c.first + 1] = w.id
  <2>1. w.index \in Nat /\ w.id \in Entry /\ r.log[w.index] = w.id
    BY Zenon, <1>1 DEF Waiting, Clients
  <2>2. /\ w.index - c.first + 1 \in 1..Len(c.results)
        /\ w.index = r.lastApplied + (w.index - c.first + 1)
        /\ w.index \in 1..Len(d)
    <3>1. w.index \in r.lastApplied + 1 .. r.lastApplied + 1 + Len(c.results) - 1
      BY Zenon, <1>2 DEF BatchOf
    <3>. DEFINE a == r.lastApplied
                n == Len(c.results)
                i == w.index
    <3>2. a \in Nat /\ n \in Nat /\ i \in Nat /\ i \in a + 1 .. a + 1 + n - 1
      BY Zenon, <1>1, <1>2, <2>1, <3>1
    <3>3. c.first = a + 1 /\ Len(d) = a + n
      BY Zenon, <1>2
    <3>. HIDE DEF a, n, i
    <3>4. i - (a + 1) + 1 \in 1..n /\ i = a + (i - (a + 1) + 1) /\ i \in 1 .. a + n
      BY ONLY <3>2, BatchPosition
    <3>5. i - c.first + 1 \in 1..n /\ i = a + (i - c.first + 1) /\ i \in 1..Len(d)
      BY ONLY <3>3, <3>4
    <3>. QED
      BY Zenon, <3>5 DEF a, n, i
  <2>3. c.results[w.index - c.first + 1] = r.log[w.index]
    BY Zenon, <2>2 DEF Batch
  <2>4. d[w.index] = r.log[w.index]
    BY Zenon, <2>2 DEF Base
  <2>. QED
    BY Zenon, <2>1, <2>2, <2>3, <2>4
<1>5. ASSUME NEW w \in r.pending, w \notin done PROVE w.index > Len(d)
  <2>1. w.index \in Nat /\ w.index > r.lastApplied
    BY Zenon, <1>1 DEF Waiting, Clients
  <2>2. ~(w.index \in BatchOf(c))
    BY Zenon, <1>5
  <2>. QED
    BY <1>1, <1>2, <2>1, <2>2 DEF BatchOf
<1>. HIDE DEF done
<1>6. reply \in [done -> Reply] /\ \A w \in done : reply[w] = w.id
  BY Zenon, <1>4 DEF Reply
<1>7. s = [r EXCEPT !.lastApplied = r.lastApplied + Len(c.results),
                    !.pending = r.pending \ done, !.answers = new,
                    !.applyInflight = FALSE]
  BY Zenon, <1>1 DEF Published, FinishApply, RaftState, done
<1>. HIDE DEF reply
<1>8. new \in [Proposal -> Seq(Reply)]
  BY Zenon, <1>1, <1>3, <1>6, CallType
<1>9. ASSUME NEW p \in Proposal
      PROVE  \/ new[p] = r.answers[p] /\ \A w \in done : w.id # p
             \/ \E w \in done : w.id = p /\ new[p] = <<p>>
  <2>1. CalledOnce(r, done, reply, p)
    BY Zenon, <1>1, <1>3, <1>6, CallEffect
  <2>. QED
    BY Zenon, <1>6, <2>1 DEF CalledOnce
<1>. HIDE DEF new
<1>10. s \in RaftState
  <2>. DEFINE a == r.lastApplied + Len(c.results)
              W == r.pending \ done
  <2>1. a \in Nat /\ W \in SUBSET Waiting
    BY Zenon, <1>1, <1>2
  <2>2. s = [r EXCEPT !.lastApplied = a, !.pending = W, !.answers = new,
                      !.applyInflight = FALSE]
    BY Zenon, <1>7
  <2>. HIDE DEF a, W
  <2>3. [r EXCEPT !.lastApplied = a, !.pending = W, !.answers = new,
                  !.applyInflight = FALSE] \in RaftState
    BY ONLY Zenon, <1>1, <1>8, <2>1, FinishType
  <2>. QED
    BY Zenon, <2>2, <2>3
<1>11. /\ s.lastApplied = Len(d) /\ s.pending = r.pending \ done /\ s.answers = new
       /\ ~s.applyInflight /\ s.log = r.log /\ s.commitIndex = r.commitIndex
       /\ s.job = r.job /\ s.busy = r.busy /\ s.stopping = r.stopping
       /\ s.refused = r.refused /\ s.proposed = r.proposed /\ s.state = r.state
       /\ s.running = r.running
  BY <1>1, <1>7 DEF RaftState
<1>12. Base(s, d)
  BY <1>1, <1>10, <1>11 DEF Base
<1>13. Clients(s, d)
  <2>1. ASSUME NEW w \in s.pending
        PROVE  /\ s.state = "LEADER" /\ s.running
               /\ w.index > s.lastApplied /\ w.index <= Len(s.log)
               /\ s.log[w.index] = w.id
               /\ w.id # Foreign => w.id <= s.proposed
    <3>1. w \in r.pending /\ w \notin done
      BY Zenon, <1>11
    <3>. QED
      BY <1>5, <1>11, <3>1 DEF Clients
  <2>2. ASSUME NEW w \in s.pending, w.id # Foreign PROVE s.answers[w.id] = <<>>
    <3>1. w \in r.pending /\ w \notin done
      BY Zenon, <1>11
    <3>2. w.id \in Proposal /\ r.answers[w.id] = <<>>
      BY Zenon, <1>1, <2>2, <3>1 DEF Waiting, Entry, Clients
    <3>3. \A v \in done : v.id # w.id
      BY Zenon, <1>3, <2>2, <3>1 DEF Clients
    <3>. QED
      BY Zenon, <1>9, <1>11, <3>2, <3>3
  <2>3. \A v, w \in s.pending : v.id = w.id /\ v.id # Foreign => v = w
    BY Zenon, <1>11 DEF Clients
  <2>4. ASSUME NEW p \in Proposal, p > s.proposed PROVE s.answers[p] = <<>>
    <3>1. r.answers[p] = <<>> /\ p \in Nat /\ p # Foreign
      BY <1>1, <1>11, <2>4 DEF Clients, Proposal, Foreign
    <3>2. \A w \in done : w.id # p
      <4>. SUFFICES ASSUME NEW w \in done, w.id = p PROVE FALSE
        BY Zenon
      <4>1. p <= r.proposed
        BY Zenon, <1>3, <3>1 DEF Clients
      <4>. QED
        BY <1>1, <1>11, <2>4, <3>1, <4>1
    <3>. QED
      BY Zenon, <1>9, <1>11, <3>1, <3>2
  <2>5. ASSUME NEW p \in Proposal PROVE Honest(s, d, p)
    <3>1. CASE new[p] = r.answers[p]
      <4>1. Honest(r, d, p)
        BY Zenon DEF Clients
      <4>2. \A k \in 1..r.lastApplied : k \in 1..s.lastApplied
        BY <1>1, <1>2, <1>11
      <4>. QED
        BY Zenon, <1>11, <3>1, <4>1, <4>2 DEF Honest
    <3>2. CASE \E w \in done : w.id = p /\ new[p] = <<p>>
      <4>1. PICK w \in done : w.id = p /\ new[p] = <<p>>
        BY Zenon, <3>2
      <4>2. w.index \in 1..s.lastApplied /\ d[w.index] = p
        BY Zenon, <1>4, <1>11, <4>1
      <4>. QED
        BY Zenon, <1>11, <4>1, <4>2 DEF Honest
    <3>. QED
      BY Zenon, <1>9, <3>1, <3>2
  <2>. QED
    BY Zenon, <2>1, <2>2, <2>3, <2>4, <2>5 DEF Clients
<1>. QED
  BY Zenon, <1>10, <1>11, <1>12, <1>13

(* RunCompletion preserves the invariant.                                  *)
LEMMA RunCompletionInv ==
    ASSUME IndInv, owner = "loop", RunCompletion
    PROVE  IndInv'
<1>. DEFINE c == Head(posted)
<1>1. /\ Base(raft, sm) /\ Stage(raft, worker, sm, posted, "loop")
      /\ Clients(raft, sm) /\ raft \in RaftState
  BY Zenon, InLoop
<1>2. posted # <<>> /\ posted' = Tail(posted) /\ worker' = worker /\ sm' = sm
  BY Zenon DEF RunCompletion
<1>3. /\ posted \in Seq(Completion) /\ Len(posted) = 1 /\ raft.job = NoJob
      /\ worker.pc \in {"check", "exited"} /\ worker \in WorkerState
      /\ Batch(raft, posted[1].first, posted[1].results) /\ raft.applyInflight
      /\ ~posted[1].error => Len(sm) = raft.lastApplied + Len(posted[1].results)
      /\ ~raft.stopping /\ ~raft.refused /\ ~raft.busy /\ worker.pc = "check"
  BY Zenon, <1>1, <1>2 DEF Stage
<1>4. c = posted[1] /\ c \in Completion /\ Tail(posted) = <<>>
  <2>1. Tail(posted) \in Seq(Completion) /\ Len(Tail(posted)) = 0
    BY <1>2, <1>3, HeadTailProperties
  <2>2. c = posted[1] /\ c \in Completion
    BY <1>2, <1>3, HeadTailProperties
  <2>. QED
    BY Zenon, <2>1, <2>2, EmptySeq
<1>5. \/ owner' = "destroyed" /\ raft' = raft
      \/ ~c.error /\ Callback(ApplyCommitted(Published(raft, c)))
  BY Zenon DEF RunCompletion, Published
<1>. HIDE DEF c
<1>6. <<>> \in Seq(Completion)
  OBVIOUS
<1>7. CASE owner' = "destroyed" /\ raft' = raft
  <2>1. Stage(raft, worker, sm, <<>>, "destroyed")
    BY Zenon, <1>1, <1>3, <1>6 DEF Stage
  <2>. QED
    BY Zenon, <1>1, <1>2, <1>4, <1>7, <2>1 DEF IndInv
<1>8. CASE ~c.error /\ Callback(ApplyCommitted(Published(raft, c)))
  <2>. DEFINE s == Published(raft, c)
              t == ApplyCommitted(s)
  <2>1. Batch(raft, c.first, c.results) /\ Len(sm) = raft.lastApplied + Len(c.results)
    BY Zenon, <1>3, <1>4, <1>8
  <2>2. /\ s \in RaftState /\ Base(s, sm) /\ Clients(s, sm)
        /\ s.lastApplied = Len(sm) /\ ~s.applyInflight
        /\ s.job = raft.job /\ s.busy = raft.busy /\ s.stopping = raft.stopping
        /\ s.refused = raft.refused
    BY <1>1, <1>4, <2>1, FinishApplyInv
  <2>3. Callback(t)
    BY Zenon, <1>8
  <2>. HIDE DEF s
  <2>4. Stage(s, worker, sm, <<>>, "loop")
    <3>1. ~(Len(sm) > s.lastApplied)
      BY <1>1, <2>2, LenProperties DEF Base
    <3>. QED
      BY Zenon, <1>3, <1>6, <2>2, <3>1 DEF Stage
  <2>5. Base(t, sm) /\ Stage(t, worker, sm, <<>>, "loop") /\ Clients(t, sm)
    BY Zenon, <2>2, <2>4, ApplyCommittedInv
  <2>. HIDE DEF t
  <2>. QED
    BY Zenon, <1>2, <1>4, <2>3, <2>5, CallbackDone
<1>. QED
  BY Zenon, <1>5, <1>7, <1>8

(* The owner leaves the loop: only its place changes.                      *)
LEMMA LoopLeft ==
    ASSUME NEW r, NEW w, NEW d, NEW q, Stage(r, w, d, q, "loop")
    PROVE  Stage(r, w, d, q, "destroyed")
  BY Zenon DEF Stage

(* FailPending answers every waiting callback once, with outcome unknown.  *)
LEMMA FailPendingInv ==
    ASSUME NEW r, NEW d, Base(r, d), Clients(r, d),
           NEW t, t = FailPending(r)
    PROVE  Base(t, d) /\ Clients(t, d) /\ SameExec(r, t) /\ SameLog(r, t)
<1>. DEFINE new == Call(r, [w \in r.pending |-> Unknown])
<1>1. r \in RaftState /\ r.pending \in SUBSET Waiting
  BY Zenon, RaftFields DEF Base
<1>2. new \in [Proposal -> Seq(Reply)]
  <2>1. [w \in r.pending |-> Unknown] \in [r.pending -> Reply]
    BY Zenon DEF Reply
  <2>. QED
    BY Zenon, <1>1, <2>1, CallType
<1>3. t = [r EXCEPT !.pending = {}, !.answers = new]
  BY Zenon DEF FailPending
<1>. HIDE DEF new
<1>4. t \in RaftState
  <2>1. {} \in SUBSET Waiting
    BY Zenon
  <2>2. [r EXCEPT !.pending = {}, !.answers = new] \in RaftState
    BY ONLY Zenon, <1>1, <1>2, <2>1, ExpireType
  <2>. QED
    BY Zenon, <1>3, <2>2
<1>5. /\ t.answers = new /\ SameExec(r, t) /\ SameLog(r, t) /\ t.pending = {}
      /\ t.proposed = r.proposed
  BY Zenon, <1>1, <1>3 DEF RaftState, SameExec, SameLog
<1>6. \A p \in Proposal : Honest(t, d, p)
  BY <1>1, <1>5, UnknownHonest DEF SameLog, new
<1>7. ASSUME NEW p \in Proposal, p > t.proposed
      PROVE  t.answers[p] = <<>>
  <2>1. r.answers[p] = <<>>
    BY Zenon, <1>5, <1>7 DEF Clients
  <2>2. r.proposed \in Nat /\ p \in Nat /\ p # Foreign
    BY <1>1, RaftFields, PipelineAssumption DEF Proposal, Foreign
  <2>3. \A w \in r.pending : w.id # p
    <3>. SUFFICES ASSUME NEW w \in r.pending, w.id = p
                  PROVE  FALSE
      BY Zenon
    <3>1. p <= r.proposed
      BY Zenon, <2>2 DEF Clients
    <3>. QED
      BY <1>5, <1>7, <2>2, <3>1
  <2>. QED
    BY <1>1, <1>5, <2>1, <2>3, UnknownHonest DEF SameLog, new
<1>8. Clients(t, d)
  BY Zenon, <1>5, <1>6, <1>7 DEF Clients
<1>9. Base(t, d)
  BY Zenon, <1>4, <1>5 DEF Base, SameLog
<1>. QED
  BY Zenon, <1>5, <1>8, <1>9

(* StorageFails preserves the invariant.                                   *)
LEMMA StorageFailsInv ==
    ASSUME IndInv, StorageFails
    PROVE  IndInv'
<1>. DEFINE f == FailPending(raft)
<1>1. /\ owner = "loop" /\ owner' = "destroyed" /\ worker' = worker /\ sm' = sm
      /\ posted' = posted /\ raft' \in {raft, f}
  BY Zenon DEF StorageFails
<1>2. /\ Base(raft, sm) /\ Stage(raft, worker, sm, posted, "loop")
      /\ Clients(raft, sm) /\ raft \in RaftState
  BY Zenon, <1>1, InLoop
<1>3. Base(f, sm) /\ Clients(f, sm) /\ SameExec(raft, f) /\ SameLog(raft, f)
  BY Zenon, <1>2, FailPendingInv
<1>. HIDE DEF f
<1>4. Stage(f, worker, sm, posted, "loop")
  <2>1. f \in RaftState
    BY Zenon, <1>3 DEF Base
  <2>2. /\ f.lastApplied = raft.lastApplied /\ raft.commitIndex <= f.commitIndex
        /\ f.log = raft.log
    BY <1>2, <1>3, RaftFields DEF SameLog
  <2>. QED
    BY Zenon, <1>2, <1>3, <2>1, <2>2, StageKept
<1>5. Stage(f, worker, sm, posted, "destroyed") /\ Stage(raft, worker, sm, posted, "destroyed")
  BY Zenon, <1>2, <1>4, LoopLeft
<1>. QED
  BY Zenon, <1>1, <1>2, <1>3, <1>5 DEF IndInv

-----------------------------------------------------------------------------
(* Teardown and the worker thread.  They change fields of the executor,    *)
(* the worker, its queue and the state machine.                            *)

(* t differs from r in the fields of the executor only.                    *)
ExecutorOnly(r, t) ==
    /\ t \in RaftState /\ SameClients(r, t) /\ SameLog(r, t)
    /\ t.applyInflight = r.applyInflight /\ t.refused = r.refused

(* A step that changes the executor's fields only keeps what holds of log  *)
(* and clients.                                                            *)
LEMMA ExecutorKept ==
    ASSUME NEW r, NEW t, NEW d, Base(r, d), Clients(r, d), ExecutorOnly(r, t)
    PROVE  /\ Base(t, d) /\ Clients(t, d)
           /\ \A first, cmds : Batch(t, first, cmds) <=> Batch(r, first, cmds)
<1>1. Clients(t, d)
  BY Zenon, ClientsKept DEF ExecutorOnly
<1>2. Base(t, d)
  BY Zenon DEF Base, ExecutorOnly, SameLog
<1>3. \A first, cmds : Batch(t, first, cmds) <=> Batch(r, first, cmds)
  BY Zenon DEF Batch, ExecutorOnly, SameLog
<1>. QED
  BY Zenon, <1>1, <1>2, <1>3

(* StopExecutor preserves the invariant.                                   *)
LEMMA StopExecutorInv ==
    ASSUME IndInv, StopExecutor
    PROVE  IndInv'
<1>. DEFINE t == [raft EXCEPT !.job = raft.job, !.busy = raft.busy, !.stopping = TRUE,
                              !.asleep = FALSE]
<1>1. Base(raft, sm) /\ Clients(raft, sm) /\ raft \in RaftState
  BY Zenon DEF IndInv, Base
<1>2. /\ Stage(raft, worker, sm, posted, "destroyed")
      /\ owner' = "joining" /\ raft' = t /\ UNCHANGED <<worker, sm, posted>>
  <2>1. raft' = t
    BY Zenon, <1>1 DEF StopExecutor, RaftState
  <2>. QED
    BY Zenon, <2>1 DEF IndInv, StopExecutor
<1>3. ExecutorOnly(raft, t) /\ t.job = raft.job /\ t.busy = raft.busy /\ t.stopping
  <2>1. raft.job \in Job /\ raft.busy \in BOOLEAN
    BY Zenon, <1>1, RaftFields
  <2>. QED
    BY Zenon, <1>1, <2>1 DEF ExecutorOnly, RaftState, SameClients, SameLog
<1>. HIDE DEF t
<1>4. /\ Base(t, sm) /\ Clients(t, sm)
      /\ \A first, cmds : Batch(t, first, cmds) <=> Batch(raft, first, cmds)
  BY Zenon, <1>1, <1>3, ExecutorKept
<1>5. Stage(t, worker, sm, posted, "joining")
  BY Zenon, <1>2, <1>3, <1>4 DEF Stage, ExecutorOnly, SameLog
<1>. QED
  BY Zenon, <1>2, <1>4, <1>5 DEF IndInv

(* Join preserves the invariant.                                           *)
LEMMA JoinInv ==
    ASSUME IndInv, Join
    PROVE  IndInv'
<1>1. Stage(raft, worker, sm, posted, "done")
  BY Zenon DEF IndInv, Join, Stage
<1>. QED
  BY Zenon, <1>1 DEF IndInv, Join

(* DropCompletion preserves the invariant.                                 *)
LEMMA DropCompletionInv ==
    ASSUME IndInv, DropCompletion
    PROVE  IndInv'
<1>1. Stage(raft, worker, sm, posted, "done") /\ posted # <<>>
  BY Zenon DEF IndInv, DropCompletion
<1>2. posted \in Seq(Completion) /\ Len(posted) = 1
  BY Zenon, <1>1 DEF Stage
<1>3. Tail(posted) = <<>>
  <2>1. Tail(posted) \in Seq(Completion) /\ Len(Tail(posted)) = 0
    BY <1>1, <1>2, HeadTailProperties
  <2>. QED
    BY Zenon, <2>1, EmptySeq
<1>4. <<>> \in Seq(Completion)
  OBVIOUS
<1>5. Stage(raft, worker, sm, <<>>, "done")
  BY Zenon, <1>1, <1>4 DEF Stage
<1>. QED
  BY Zenon, <1>3, <1>5 DEF IndInv, DropCompletion

(* The waiting flag is in no part of the invariant.                        *)
LEMMA WaitInv ==
    ASSUME IndInv, NEW y \in BOOLEAN, raft' = [raft EXCEPT !.asleep = y],
           UNCHANGED <<worker, sm, posted, owner>>
    PROVE  IndInv'
<1>. DEFINE t == [raft EXCEPT !.job = raft.job, !.busy = raft.busy,
                              !.stopping = raft.stopping, !.asleep = y]
<1>1. Base(raft, sm) /\ Clients(raft, sm) /\ raft \in RaftState
  BY Zenon DEF IndInv, Base
<1>2. raft' = t
  BY Zenon, <1>1 DEF RaftState
<1>3. /\ ExecutorOnly(raft, t) /\ t.job = raft.job /\ t.busy = raft.busy
      /\ t.stopping = raft.stopping
  <2>1. raft.job \in Job /\ raft.busy \in BOOLEAN /\ raft.stopping \in BOOLEAN
    BY Zenon, <1>1, RaftFields
  <2>. QED
    BY Zenon, <1>1, <2>1 DEF ExecutorOnly, RaftState, SameClients, SameLog
<1>. HIDE DEF t
<1>4. /\ Base(t, sm) /\ Clients(t, sm)
      /\ \A first, cmds : Batch(t, first, cmds) <=> Batch(raft, first, cmds)
  BY Zenon, <1>1, <1>3, ExecutorKept
<1>5. Stage(raft, worker, sm, posted, owner)
  BY Zenon DEF IndInv
<1>6. Stage(t, worker, sm, posted, owner)
  BY Zenon, <1>3, <1>4, <1>5 DEF Stage, ExecutorOnly, SameLog
<1>. QED
  BY Zenon, <1>2, <1>4, <1>6 DEF IndInv

(* Take preserves the invariant.                                           *)
LEMMA TakeInv ==
    ASSUME IndInv, Take
    PROVE  IndInv'
<1>. DEFINE t == [raft EXCEPT !.job = NoJob, !.busy = raft.busy,
                              !.stopping = raft.stopping, !.asleep = raft.asleep]
            w == [pc |-> "work", job |-> raft.job, error |-> FALSE]
<1>1. Base(raft, sm) /\ Clients(raft, sm) /\ raft \in RaftState
  BY Zenon DEF IndInv, Base
<1>2. raft' = t /\ worker' = w /\ UNCHANGED <<sm, posted, owner>>
  BY Zenon, <1>1 DEF Take, RaftState
<1>3. raft.job # NoJob /\ worker.pc = "check" /\ Stage(raft, worker, sm, posted, owner)
  BY Zenon DEF Take, IndInv
<1>4. w \in WorkerState /\ w.pc = "work" /\ w.job = raft.job /\ ~w.error
  BY Zenon, <1>1, RaftFields DEF WorkerState
<1>5. /\ ExecutorOnly(raft, t) /\ t.job = NoJob /\ t.busy = raft.busy
      /\ t.stopping = raft.stopping
  <2>1. NoJob \in Job /\ raft.busy \in BOOLEAN /\ raft.stopping \in BOOLEAN
        /\ raft.asleep \in BOOLEAN
    BY <1>1, RaftFields DEF NoJob, Job
  <2>. QED
    BY Zenon, <1>1, <2>1 DEF ExecutorOnly, RaftState, SameClients, SameLog
<1>. HIDE DEF t, w
<1>6. /\ Base(t, sm) /\ Clients(t, sm)
      /\ \A first, cmds : Batch(t, first, cmds) <=> Batch(raft, first, cmds)
  BY Zenon, <1>1, <1>5, ExecutorKept
<1>7. Stage(t, w, sm, posted, owner)
  BY Zenon, <1>3, <1>4, <1>5, <1>6 DEF Stage, ExecutorOnly, SameLog
<1>. QED
  BY Zenon, <1>2, <1>6, <1>7 DEF IndInv

(* Exit preserves the invariant.                                           *)
LEMMA ExitInv ==
    ASSUME IndInv, Exit
    PROVE  IndInv'
<1>. DEFINE w == [worker EXCEPT !.pc = "exited"]
<1>1. Stage(raft, worker, sm, posted, owner) /\ worker.pc = "check" /\ raft.stopping
      /\ raft.job = NoJob
  BY Zenon DEF IndInv, Exit
<1>2. w \in WorkerState /\ w.pc = "exited"
  BY Zenon, <1>1 DEF Stage, WorkerState
<1>. HIDE DEF w
<1>3. Stage(raft, w, sm, posted, owner)
  BY Zenon, <1>1, <1>2 DEF Stage
<1>. QED
  BY Zenon, <1>3 DEF IndInv, Exit, w

(* The worker's batch, appended to what is applied, is a longer prefix of  *)
(* the committed log.                                                      *)
LEMMA Applied ==
    ASSUME NEW r, NEW d, Base(r, d), Clients(r, d), NEW cmds \in Seq(Entry),
           NEW first, Batch(r, first, cmds), Len(d) = r.lastApplied
    PROVE  /\ Base(r, d \o cmds) /\ Clients(r, d \o cmds)
           /\ Len(d \o cmds) = r.lastApplied + Len(cmds)
<1>1. /\ r \in RaftState /\ r.lastApplied \in Nat /\ d \in Seq(Entry) /\ Len(d) \in Nat
      /\ Len(cmds) \in Nat /\ r.commitIndex \in Nat
  BY Zenon, RaftFields, LenProperties DEF Base
<1>. DEFINE e == d \o cmds
<1>2. /\ e \in Seq(Entry) /\ Len(e) = Len(d) + Len(cmds)
      /\ \A k \in 1..Len(d) : e[k] = d[k]
      /\ \A k \in 1..Len(cmds) : e[Len(d) + k] = cmds[k]
  <2>1. /\ e \in Seq(Entry) /\ Len(e) = Len(d) + Len(cmds)
        /\ \A k \in 1 .. Len(d) + Len(cmds) :
              e[k] = IF k <= Len(d) THEN d[k] ELSE cmds[k - Len(d)]
    BY Zenon, <1>1, ConcatProperties
  <2>2. ASSUME NEW k \in 1..Len(d) PROVE e[k] = d[k]
    BY <1>1, <2>1
  <2>3. ASSUME NEW k \in 1..Len(cmds) PROVE e[Len(d) + k] = cmds[k]
    BY <1>1, <2>1
  <2>. QED
    BY Zenon, <2>1, <2>2, <2>3
<1>. HIDE DEF e
<1>3. Len(e) = r.lastApplied + Len(cmds)
  BY Zenon, <1>2
<1>4. ASSUME NEW k \in 1..Len(e) PROVE e[k] = r.log[k]
  <2>1. CASE k <= Len(d)
    BY <1>1, <1>2, <2>1 DEF Base
  <2>2. CASE k > Len(d)
    <3>. DEFINE j == k - Len(d)
    <3>1. j \in 1..Len(cmds) /\ k = Len(d) + j /\ k = r.lastApplied + j
      BY <1>1, <1>2, <2>2
    <3>. HIDE DEF j
    <3>. QED
      BY <1>2, <3>1 DEF Batch
  <2>. QED
    BY <1>1, <1>2, <2>1, <2>2
<1>5. r.lastApplied <= Len(e) /\ Len(e) <= r.commitIndex
  BY <1>1, <1>3 DEF Batch
<1>6. Base(r, e)
  BY Zenon, <1>1, <1>2, <1>4, <1>5 DEF Base
<1>7. \A k \in 1..r.lastApplied : e[k] = d[k]
  BY Zenon, <1>2
<1>8. Clients(r, e)
  BY <1>7 DEF Clients, Honest
<1>. QED
  BY Zenon, <1>3, <1>6, <1>8 DEF e

(* Work and WorkFails: the batch is applied, or not and with an error.     *)
LEMMA WorkInv ==
    ASSUME IndInv, Work \/ WorkFails
    PROVE  IndInv'
<1>. DEFINE cmds == worker.job.cmds
<1>1. /\ Base(raft, sm) /\ Clients(raft, sm) /\ raft \in RaftState
      /\ Stage(raft, worker, sm, posted, owner)
  BY Zenon DEF IndInv, Base
<1>2. worker.pc = "work" /\ UNCHANGED <<raft, posted, owner>>
  BY Zenon DEF Work, WorkFails
<1>3. /\ worker \in WorkerState /\ cmds \in Seq(Entry)
      /\ Batch(raft, worker.job.first, cmds)
      /\ Len(sm) = raft.lastApplied /\ ~worker.error
  BY Zenon, <1>1, <1>2 DEF Stage, WorkerState, Job
<1>4. /\ worker' \in WorkerState /\ worker'.pc = "clear" /\ worker'.job = worker.job
      /\ sm' = sm \o cmds \/ (sm' = sm /\ worker'.error)
  BY Zenon, <1>3 DEF Work, WorkFails, WorkerState
<1>5. /\ Base(raft, sm \o cmds) /\ Clients(raft, sm \o cmds)
      /\ Len(sm \o cmds) = raft.lastApplied + Len(cmds)
  BY Zenon, <1>1, <1>3, Applied
<1>6. /\ Base(raft, sm') /\ Clients(raft, sm')
      /\ ~worker'.error => Len(sm') = raft.lastApplied + Len(cmds)
  BY Zenon, <1>1, <1>4, <1>5
<1>7. raft.applyInflight /\ raft.job = NoJob /\ posted = <<>>
  BY Zenon, <1>1, <1>2 DEF Stage
<1>8. Stage(raft, worker', sm', posted, owner)
  BY Zenon, <1>1, <1>2, <1>3, <1>4, <1>6, <1>7 DEF Stage
<1>. QED
  BY Zenon, <1>2, <1>6, <1>8 DEF IndInv

(* ClearBusy preserves the invariant.                                      *)
LEMMA ClearBusyInv ==
    ASSUME IndInv, ClearBusy
    PROVE  IndInv'
<1>. DEFINE t == [raft EXCEPT !.job = raft.job, !.busy = FALSE,
                              !.stopping = raft.stopping, !.asleep = raft.asleep]
            w == [worker EXCEPT !.pc = "post"]
<1>1. /\ Base(raft, sm) /\ Clients(raft, sm) /\ raft \in RaftState
      /\ Stage(raft, worker, sm, posted, owner) /\ worker.pc = "clear"
  BY Zenon DEF IndInv, Base, ClearBusy
<1>2. raft' = t /\ worker' = w /\ UNCHANGED <<sm, posted, owner>>
  BY Zenon, <1>1 DEF ClearBusy, RaftState
<1>3. w \in WorkerState /\ w.pc = "post" /\ w.job = worker.job /\ w.error = worker.error
  BY Zenon, <1>1 DEF Stage, WorkerState
<1>4. /\ ExecutorOnly(raft, t) /\ t.job = raft.job /\ ~t.busy
      /\ t.stopping = raft.stopping
  <2>1. raft.job \in Job /\ raft.stopping \in BOOLEAN /\ raft.asleep \in BOOLEAN
    BY Zenon, <1>1, RaftFields
  <2>. QED
    BY Zenon, <1>1, <2>1 DEF ExecutorOnly, RaftState, SameClients, SameLog
<1>. HIDE DEF t, w
<1>5. /\ Base(t, sm) /\ Clients(t, sm)
      /\ \A first, cmds : Batch(t, first, cmds) <=> Batch(raft, first, cmds)
  BY Zenon, <1>1, <1>4, ExecutorKept
<1>6. Stage(t, w, sm, posted, owner)
  BY Zenon, <1>1, <1>3, <1>4, <1>5 DEF Stage, ExecutorOnly, SameLog
<1>. QED
  BY Zenon, <1>2, <1>5, <1>6 DEF IndInv

(* Post preserves the invariant.                                           *)
LEMMA PostInv ==
    ASSUME IndInv, Post
    PROVE  IndInv'
<1>. DEFINE c == [first |-> worker.job.first, results |-> worker.job.cmds,
                  error |-> worker.error]
            w == [pc |-> "check", job |-> NoJob, error |-> FALSE]
            q == <<c>>
<1>1. /\ Stage(raft, worker, sm, posted, owner) /\ worker.pc = "post"
      /\ UNCHANGED <<raft, sm, owner>> /\ worker' = w /\ posted' = Append(posted, c)
  BY Zenon DEF IndInv, Post
<1>2. c \in Completion /\ w \in WorkerState /\ w.pc = "check"
  BY <1>1 DEF Stage, WorkerState, Completion, Job, NoJob
<1>3. posted = <<>> /\ raft.applyInflight /\ raft.job = NoJob /\ ~raft.busy
  BY Zenon, <1>1 DEF Stage
<1>4. /\ Batch(raft, c.first, c.results)
      /\ ~c.error => Len(sm) = raft.lastApplied + Len(c.results)
  BY Zenon, <1>1 DEF Stage
<1>. HIDE DEF c, w
<1>5. posted' = q /\ q \in Seq(Completion) /\ q # <<>> /\ Len(q) = 1 /\ q[1] = c
  BY <1>1, <1>2, <1>3
<1>. HIDE DEF q
<1>6. Stage(raft, w, sm, q, owner)
  BY Zenon, <1>1, <1>2, <1>3, <1>4, <1>5 DEF Stage
<1>. QED
  BY Zenon, <1>1, <1>5, <1>6 DEF IndInv

-----------------------------------------------------------------------------
(* Theorems.                                                               *)

(* The invariant holds initially.                                          *)
LEMMA InitInv == Init => IndInv
<1>. SUFFICES ASSUME Init PROVE IndInv
  BY Zenon
<1>1. MaxProposals \in Nat
  BY Zenon, PipelineAssumption
<1>2. /\ raft.running = TRUE /\ raft.log = <<>> /\ raft.commitIndex = 0
      /\ raft.lastApplied = 0 /\ ~raft.applyInflight /\ raft.pending = {}
      /\ raft.proposed = 0 /\ raft.answers = [p \in Proposal |-> <<>>]
      /\ raft.job = NoJob /\ ~raft.busy /\ ~raft.stopping /\ ~raft.refused
  BY Zenon DEF Init
<1>3. raft \in RaftState
  BY <1>1 DEF Init, RaftState, NoJob, Job
<1>4. Base(raft, sm)
  BY <1>2, <1>3 DEF Base, Init
<1>5. Clients(raft, sm)
  BY Zenon, <1>2 DEF Clients, Honest
<1>6. worker \in WorkerState /\ posted \in Seq(Completion)
  BY DEF Init, WorkerState, Job, NoJob
<1>7. Stage(raft, worker, sm, posted, owner)
  BY <1>2, <1>6 DEF Stage, Init
<1>. QED
  BY Zenon, <1>4, <1>5, <1>7 DEF IndInv

(* Every callback of the owning thread preserves the invariant.            *)
LEMMA OwnerStepInv ==
    ASSUME IndInv, OwnerStep
    PROVE  IndInv'
<1>1. ASSUME NEW n \in 1..MaxBatchEntries, ProposeBatch(n) PROVE IndInv'
  BY Zenon, <1>1, ProposeBatchInv
<1>2. CASE BecomeLeader
  BY Zenon, <1>2, BecomeLeaderInv
<1>3. ASSUME NEW k \in 1..MaxIndex, AdvanceCommitIndex(k) PROVE IndInv'
  BY Zenon, <1>3, AdvanceCommitIndexInv
<1>4. CASE StepDown
  BY Zenon, <1>4, StepDownInv
<1>5. CASE Replicate
  BY Zenon, <1>5, HandleAppendEntriesInv DEF Replicate
<1>6. CASE Install
  BY Zenon, <1>6, HandleInstallSnapshotInv DEF Install
<1>7. CASE Expire
  BY Zenon, <1>7, ExpireInv DEF Expire
<1>8. CASE Stop
  BY Zenon, <1>8, StopInv
<1>9. CASE Start
  BY Zenon, <1>9, StartInv
<1>10. CASE RunCompletion
  <2>1. owner = "loop"
    BY Zenon, <1>10 DEF RunCompletion, Callback
  <2>. QED
    BY Zenon, <1>10, <2>1, RunCompletionInv
<1>11. CASE StorageFails
  BY Zenon, <1>11, StorageFailsInv
<1>12. CASE StopExecutor
  BY Zenon, <1>12, StopExecutorInv
<1>13. CASE Join
  BY Zenon, <1>13, JoinInv
<1>14. CASE DropCompletion
  BY Zenon, <1>14, DropCompletionInv
<1>. QED
  BY Zenon, <1>1, <1>2, <1>3, <1>4, <1>5, <1>6, <1>7, <1>8, <1>9, <1>10, <1>11, <1>12,
     <1>13, <1>14 DEF OwnerStep

(* Every step preserves the invariant.                                     *)
LEMMA NextInv == IndInv /\ [Next]_vars => IndInv'
<1>. SUFFICES ASSUME IndInv, [Next]_vars PROVE IndInv'
  BY Zenon
<1>1. CASE OwnerStep
  BY Zenon, <1>1, OwnerStepInv
<1>2. CASE Sleep
  BY Zenon, <1>2, WaitInv DEF Sleep
<1>3. CASE SpuriousWake
  BY Zenon, <1>3, WaitInv DEF SpuriousWake
<1>4. CASE Take
  BY Zenon, <1>4, TakeInv
<1>5. CASE Exit
  BY Zenon, <1>5, ExitInv
<1>6. CASE Work \/ WorkFails
  BY Zenon, <1>6, WorkInv
<1>7. CASE ClearBusy
  BY Zenon, <1>7, ClearBusyInv
<1>8. CASE Post
  BY Zenon, <1>8, PostInv
<1>9. CASE UNCHANGED vars
  BY Zenon, <1>9 DEF IndInv, vars
<1>. QED
  BY Zenon, <1>1, <1>2, <1>3, <1>4, <1>5, <1>6, <1>7, <1>8, <1>9
  DEF Next, WorkerStep, Finished

(* The invariant holds in every reachable state.                           *)
LEMMA Invariance == Spec => []IndInv
  BY InitInv, NextInv, PTL DEF Spec

(* Every field of the node, the executor, the worker and the queue of      *)
(* completions keeps its type.                                             *)
THEOREM TypeCorrect == Spec => []TypeOK
<1>1. IndInv => TypeOK
  BY Zenon DEF IndInv, Base, Stage, TypeOK
<1>. QED
  BY <1>1, Invariance, PTL

(* A proposal's callback is called at most once, and with success only for *)
(* an entry of its own that is durably applied, whatever the interleaving  *)
(* of FailPending, ExpireUncommittedProposals and FinishApply.             *)
THEOREM AnswersAlwaysTrue == Spec => []AnswersAreTrue
<1>1. IndInv => AnswersAreTrue
  BY Zenon DEF IndInv, Clients, Honest, AnswersAreTrue
<1>. QED
  BY <1>1, Invariance, PTL

(* ApplyCommitted never finds the executor busy or stopping: _busy is      *)
(* cleared before the completion is posted.                                *)
THEOREM ExecutorAlwaysAvailable == Spec => []ExecutorAvailable
<1>1. IndInv => ExecutorAvailable
  BY Zenon DEF IndInv, Stage, ExecutorAvailable
<1>. QED
  BY <1>1, Invariance, PTL

(* Two threads write the state machine, and it always holds a prefix of    *)
(* the committed log; the worker is gone before it is destroyed.           *)
THEOREM SingleWriterAlways == Spec => []SingleWriter
<1>1. IndInv => SingleWriter
  <2>. SUFFICES ASSUME IndInv PROVE SingleWriter
    BY Zenon
  <2>1. Base(raft, sm) /\ Stage(raft, worker, sm, posted, owner)
    BY Zenon DEF IndInv
  <2>2. /\ raft \in RaftState /\ sm \in Seq(Entry) /\ Len(sm) \in Nat
        /\ raft.log \in Seq(Entry) /\ Len(raft.log) \in Nat
        /\ raft.commitIndex \in Nat /\ raft.lastApplied \in Nat
    BY Zenon, <2>1, RaftFields, LenProperties DEF Base
  <2>3. Len(sm) <= raft.commitIndex /\ Len(sm) <= Len(raft.log)
        /\ raft.lastApplied <= Len(sm)
    BY <2>1, <2>2 DEF Base
  <2>4. sm = SubSeq(raft.log, 1, Len(sm))
    <3>. DEFINE p == SubSeq(raft.log, 1, Len(sm))
    <3>0. \A k \in 1..Len(sm) : raft.log[k] \in Entry
      BY <2>2, <2>3
    <3>1. /\ p \in Seq(Entry) /\ Len(p) = Len(sm)
          /\ \A k \in 1..Len(sm) : p[k] = raft.log[k]
      BY <2>2, <2>3, <3>0
    <3>. HIDE DEF p
    <3>2. \A k \in 1..Len(sm) : p[k] = sm[k]
      BY Zenon, <2>1, <3>1 DEF Base
    <3>3. p = sm
      BY Zenon, <2>2, <3>1, <3>2, SeqEqual
    <3>. QED
      BY Zenon, <3>3 DEF p
  <2>5. worker.pc = "work" => worker.job.first = Len(sm) + 1
    BY Zenon, <2>1 DEF Stage, Batch
  <2>. QED
    BY Zenon, <2>1, <2>3, <2>4, <2>5 DEF Stage, SingleWriter
<1>. QED
  BY <1>1, Invariance, PTL
=============================================================================
