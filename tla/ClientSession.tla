--------------------------- MODULE ClientSession ---------------------------
(***************************************************************************)
(* Client connections of one server (src/server/main.cpp): parsing and     *)
(* queueing of pipelined commands (src/common/session_queue.h), one        *)
(* command at a time per connection, backpressure, namespaces, and the     *)
(* write batch shared by all connections                                   *)
(* (src/common/batch_flush_policy.h).                                      *)
(*                                                                         *)
(* All of it runs in one event loop.  An action is one callback of the     *)
(* loop with everything it calls, re-entrant completions included.  What   *)
(* Raft does with proposals and read requests is open: it answers each     *)
(* once, at any time (ApplyPipeline, ReadIndex).                           *)
(*                                                                         *)
(* A command is known by its position in what its client sends; its bytes  *)
(* are two units of input.                                                 *)
(***************************************************************************)
EXTENDS Integers, Sequences, FiniteSets

CONSTANTS
    Client,         \* connections; each is made once
    Scripts,        \* what the clients may send: functions from Client
    MaxInput,       \* CommandBuffer::kMaxBufferedBytes, in units
    MaxOutput,      \* kMaxClientOutput, in replies not yet read
    MaxCommands,    \* SessionQueueLimits::kMaxCommands
    MaxPerTurn,     \* SessionQueueLimits::kMaxCommandsPerTurn
    MaxEntries,     \* BatchFlushPolicy::kMaxEntries
    MaxBytes,       \* BatchFlushPolicy::kMaxBytes
    MaxWriteBytes   \* kMaxQueuedWriteBytes

(* "ping" stands for every command that is answered at once: PING, INFO,   *)
(* and a GET that is served from local state or under the lease.           *)
Kind == {"bad", "error", "ping", "select", "get", "set", "bigset"}

ASSUME ScriptAssumption == \A f \in Scripts : f \in [Client -> Seq(Kind)]

VARIABLES
    script,     \* script[c]: the commands c sends
    session,    \* session[c]: the ClientSession, and its connection
    flush,      \* g_writes, the flush policy, and its timers and functors
    raft        \* leadership, and what Raft has to answer

vars == <<script, session, flush, raft>>

-----------------------------------------------------------------------------
(* State.  A session's input is what has arrived behind the commands       *)
(* parsed, its queue the commands parsed and not yet popped.               *)

NewSession ==
    [alive |-> TRUE, connected |-> TRUE, reading |-> TRUE, arrived |-> 0,
     parsed |-> 0, popped |-> 0, executing |-> FALSE, waiting |-> FALSE,
     closing |-> FALSE, drain |-> FALSE, ns |-> 0, replies |-> <<>>, unread |-> 0]

(* What is left of a session that g_sessions no longer holds.              *)
Erased == [NewSession EXCEPT !.alive = FALSE, !.connected = FALSE, !.reading = FALSE]

Whole(s) == s.arrived \div 2 - s.parsed
Unread(s) == s.arrived - 2 * s.parsed
QueueEmpty(s) == s.popped = s.parsed
IsFull(s) == s.parsed - s.popped >= MaxCommands
Enqueue(s) == [s EXCEPT !.parsed = @ + 1]
PopFront(s) == [s EXCEPT !.popped = @ + 1]

(* A namespace is known by the SELECT that chose it; 0 is the default.     *)
SetNs(s, n) == [s EXCEPT !.ns = n]
GetNs(s) == s.ns

Size(kind) == IF kind = "bigset" THEN 2 ELSE 1

(* A write of client c: its position, its size, the namespace of its key,  *)
(* and whether the oldest write's window has ended.                        *)
Write(c, n, s) ==
    [client |-> c, command |-> n, bytes |-> Size(script[c][n]), ns |-> GetNs(s), due |-> FALSE]

RECURSIVE Bytes(_)
Bytes(ws) == IF ws = <<>> THEN 0 ELSE Head(ws).bytes + Bytes(Tail(ws))

(* The three parts that a callback works on.                               *)
World == [s |-> session, f |-> flush, r |-> raft]
Becomes(w) == session' = w.s /\ flush' = w.f /\ raft' = w.r /\ UNCHANGED script

-----------------------------------------------------------------------------
(* The write batch.                                                        *)

(* BatchFlushPolicy::Request.                                              *)
Request(f) ==
    LET immediate == \/ Len(f.writes) >= MaxEntries
                     \/ Bytes(f.writes) >= MaxBytes
                     \/ f.writes[1].due
    IN IF f.pending = "immediate" \/ (f.pending = "delayed" /\ ~immediate) THEN "none"
       ELSE IF immediate THEN "immediate" ELSE "delayed"

(* The plan's closure goes to the loop, or to a timer in place of the      *)
(* one that is cancelled.                                                  *)
ScheduleFlush(f) ==
    IF f.writes = <<>> \/ Request(f) = "none" THEN f
    ELSE LET action == Request(f)
             token == f.generation + 1
             kept == f.timers \ {f.timer}
         IN [f EXCEPT !.pending = action, !.generation = token,
                      !.functors = @ \cup IF action = "immediate" THEN {token} ELSE {},
                      !.timers = kept \cup IF action = "delayed" THEN {token} ELSE {},
                      !.timer = IF action = "delayed" THEN token ELSE 0]

(* What one flush takes from the queue, i writes inspected and p proposed  *)
(* so far: writes of lost clients are dropped.                             *)
RECURSIVE Collect(_, _, _, _)
Collect(s, ws, i, p) ==
    IF ws = <<>> \/ i = MaxEntries \/ (p # <<>> /\ Head(ws).bytes > MaxBytes - Bytes(p))
    THEN [writes |-> ws, proposals |-> p]
    ELSE LET x == s[Head(ws).client]
         IN Collect(s, Tail(ws), i + 1,
                    IF x.connected /\ ~x.closing THEN Append(p, Head(ws)) ELSE p)

-----------------------------------------------------------------------------
(* One connection.                                                         *)

CloseClient(s) == [s EXCEPT !.closing = TRUE, !.connected = FALSE]

(* SendReply to command n.                                                 *)
SendReply(s, n) ==
    IF s.closing \/ ~s.connected THEN s
    ELSE IF s.unread + 1 > MaxOutput THEN CloseClient(s)
    ELSE [s EXCEPT !.replies = Append(@, n), !.unread = @ + 1]

ScheduleDrain(s) ==
    IF s.drain \/ s.closing \/ s.waiting \/ Unread(s) = 0 THEN s
    ELSE [s EXCEPT !.drain = TRUE]

RECURSIVE ExecuteNextCommand(_, _)

(* Mutant: a socket that is no longer read stays so.                       *)
CompleteUnread(w, c) == ExecuteNextCommand([w EXCEPT !.s[c].executing = FALSE], c)

OnCommandComplete(w, c) ==
    LET s == [w.s[c] EXCEPT !.executing = FALSE,
                !.reading = @ \/ (~IsFull(w.s[c]) /\ w.s[c].connected /\ ~w.s[c].closing)]
    IN ExecuteNextCommand([w EXCEPT !.s[c] = s], c)

Answer(w, c, n) == OnCommandComplete([w EXCEPT !.s[c] = SendReply(@, n)], c)

(* A write that a follower gets, or that exceeds the queue's limit, is     *)
(* answered at once.                                                       *)
SubmitWrite(w, c, n) ==
    LET x == Write(c, n, w.s[c])
        writes == Append(w.f.writes, x)
    IN IF ~w.r.leader \/ x.bytes > MaxWriteBytes - Bytes(w.f.writes)
       THEN Answer(w, c, n)
       ELSE [w EXCEPT !.s[c].waiting = TRUE,
                      !.f = ScheduleFlush([w.f EXCEPT !.writes = writes])]

ExecuteNextCommand(w, c) ==
    LET s == w.s[c]
        n == s.popped + 1
        kind == script[c][n]
        v == [w EXCEPT !.s[c] = [PopFront(s) EXCEPT !.executing = TRUE]]
    IN IF s.executing \/ s.closing \/ ~s.connected THEN w
       ELSE IF QueueEmpty(s) THEN [w EXCEPT !.s[c] = ScheduleDrain(s)]
       ELSE CASE kind \in {"error", "ping"} -> Answer(v, c, n)
              [] kind = "select" -> Answer([v EXCEPT !.s[c] = SetNs(@, n)], c, n)
              [] kind = "get" -> IF w.r.leader
                                 THEN [v EXCEPT !.r.reads = @ \cup {[client |-> c, command |-> n]}]
                                 ELSE Answer(v, c, n)
              [] kind \in {"set", "bigset"} -> SubmitWrite(v, c, n)

(* DrainCommands for client c in state s, handled commands into its turn.  *)
RECURSIVE DrainCommands(_, _, _)
DrainCommands(c, s, handled) ==
    IF handled = MaxPerTurn THEN [s |-> s, stop |-> FALSE, invalid |-> FALSE]
    ELSE IF IsFull(s) THEN [s |-> s, stop |-> TRUE, invalid |-> FALSE]
    ELSE IF Whole(s) = 0 THEN [s |-> s, stop |-> FALSE, invalid |-> FALSE]
    ELSE IF script[c][s.parsed + 1] = "bad" THEN [s |-> s, stop |-> TRUE, invalid |-> TRUE]
    ELSE DrainCommands(c, Enqueue(s), handled + 1)

(* Mutant: a broken frame is always answered.                              *)
AlwaysReply(s) == TRUE

ShouldReplyInvalidFrame(s) == ~s.executing /\ ~s.waiting /\ QueueEmpty(s)

DrainClient(w, c) ==
    LET s == w.s[c]
        d == IF s.connected /\ ~s.closing /\ ~s.drain THEN DrainCommands(c, s, 0)
             ELSE [s |-> s, stop |-> FALSE, invalid |-> FALSE]
        t == [d.s EXCEPT !.reading = @ /\ ~d.stop]
        v == [w EXCEPT !.s[c] = t]
    IN IF d.invalid
       THEN [w EXCEPT !.s[c] = CloseClient(IF ShouldReplyInvalidFrame(t)
                                           THEN SendReply(t, t.parsed + 1) ELSE t)]
       ELSE IF ~t.executing /\ ~QueueEmpty(t) THEN ExecuteNextCommand(v, c)
       ELSE IF t.connected /\ ~t.executing THEN [w EXCEPT !.s[c] = ScheduleDrain(t)]
       ELSE v

-----------------------------------------------------------------------------
(* Callbacks of the event loop.                                            *)

(* The next n units of a client's commands arrive.                         *)
OnClientMessage(c, n) ==
    LET s == session[c]
    IN /\ s.alive /\ s.connected /\ s.reading
       /\ s.arrived + n <= 2 * Len(script[c])
       /\ Becomes(IF n > MaxInput - Unread(s)
                  THEN [World EXCEPT !.s[c] = CloseClient(s)]
                  ELSE DrainClient([World EXCEPT !.s[c].arrived = @ + n], c))

(* The functor of ScheduleDrain.                                           *)
RunDrain(c) ==
    /\ session[c].alive /\ session[c].drain
    /\ Becomes(DrainClient([World EXCEPT !.s[c].drain = FALSE], c))

(* OnClientConnection, down: the peer closes, or forceClose takes effect.  *)
OnClientDisconnect(c) ==
    /\ session[c].alive
    /\ Becomes([World EXCEPT !.s[c] = Erased])

(* The client reads its replies.                                           *)
WriteComplete(c) ==
    /\ session[c].alive /\ session[c].unread > 0
    /\ Becomes([World EXCEPT !.s[c].unread = 0])

Deliverable(s) == s.alive /\ s.connected /\ ~s.closing

(* Completion of a command whose outcome Raft has told: the reply, if it   *)
(* can still be delivered.                                                 *)
Complete(w, c, n) ==
    IF Deliverable(w.s[c])
    THEN Answer([w EXCEPT !.s[c].waiting = FALSE], c, n)
    ELSE [w EXCEPT !.s[c].executing = FALSE, !.s[c].waiting = FALSE]

RECURSIVE RejectAll(_, _)
RejectAll(w, owners) ==
    IF owners = <<>> THEN w
    ELSE RejectAll(Complete(w, Head(owners).client, Head(owners).command), Tail(owners))

(* Mutant: a refused batch is answered, and queued again.                  *)
FlushAndKeep(w, accepted) ==
    LET b == Collect(w.s, w.f.writes, 0, <<>>)
        v == [w EXCEPT !.f.writes = IF accepted THEN b.writes ELSE b.proposals \o b.writes]
        u == IF accepted
             THEN [v EXCEPT !.r.proposed = @ \cup {b.proposals[i] : i \in DOMAIN b.proposals}]
             ELSE RejectAll(v, b.proposals)
    IN [u EXCEPT !.f = ScheduleFlush(@)]

(* Mutant: the flush leaves what it did not take.                          *)
FlushOnce(w, accepted) ==
    LET b == Collect(w.s, w.f.writes, 0, <<>>)
        v == [w EXCEPT !.f.writes = b.writes]
    IN IF accepted THEN [v EXCEPT !.r.proposed = @ \cup {b.proposals[i] : i \in DOMAIN b.proposals}]
       ELSE RejectAll(v, b.proposals)

FlushQueuedWrites(w, accepted) ==
    LET b == Collect(w.s, w.f.writes, 0, <<>>)
        v == [w EXCEPT !.f.writes = b.writes]
        u == IF accepted
             THEN [v EXCEPT !.r.proposed = @ \cup {b.proposals[i] : i \in DOMAIN b.proposals}]
             ELSE RejectAll(v, b.proposals)
    IN [u EXCEPT !.f = ScheduleFlush(@)]

(* The closure of a plan: Consume, then the flush; ProposeBatch accepts    *)
(* the batch or refuses it.                                                *)
RunFlush ==
    \E token \in flush.functors :
        LET w == [World EXCEPT !.f.functors = @ \ {token}]
            f == w.f
        IN IF f.pending = "none" \/ token # f.generation
           THEN Becomes(w)
           ELSE \E accepted \in {raft.leader, FALSE} :
                  Becomes(FlushQueuedWrites(
                      [w EXCEPT !.f.pending = "none", !.f.timer = 0], accepted))

(* The window of the oldest write ends.                                    *)
WindowEnds ==
    /\ \E i \in DOMAIN flush.writes : ~flush.writes[i].due
    /\ Becomes([World EXCEPT !.f.writes = [i \in DOMAIN @ |-> [@[i] EXCEPT !.due = TRUE]]])

(* A timer expires: from here on it cannot be cancelled.                   *)
TimerExpires ==
    \E token \in flush.timers :
        Becomes([World EXCEPT !.f.timers = @ \ {token}, !.f.expired = @ \cup {token}])

TimerRuns ==
    \E token \in flush.expired :
        Becomes([World EXCEPT !.f.expired = @ \ {token}, !.f.functors = @ \cup {token}])

-----------------------------------------------------------------------------
(* Raft.                                                                   *)

(* The callback of a proposal.                                             *)
AnswerProposal ==
    \E p \in raft.proposed :
        Becomes(Complete([World EXCEPT !.r.proposed = @ \ {p}], p.client, p.command))

(* The callback of a read request: a value, MOVED or an error.             *)
AnswerRead ==
    \E p \in raft.reads :
        Becomes(Complete([World EXCEPT !.r.reads = @ \ {p}], p.client, p.command))

LeadershipChanges == Becomes([World EXCEPT !.r.leader = ~@])

-----------------------------------------------------------------------------
Init ==
    /\ script \in Scripts
    /\ session = [c \in Client |-> NewSession]
    /\ flush = [writes |-> <<>>, pending |-> "none", generation |-> 0, timer |-> 0,
                timers |-> {}, expired |-> {}, functors |-> {}]
    /\ raft \in [leader : BOOLEAN, proposed : {{}}, reads : {{}}]

Next ==
    \/ \E c \in Client :
         \/ \E n \in 1 .. 2 * Len(script[c]) : OnClientMessage(c, n)
         \/ RunDrain(c)
         \/ OnClientDisconnect(c)
         \/ WriteComplete(c)
    \/ RunFlush
    \/ WindowEnds
    \/ TimerExpires
    \/ TimerRuns
    \/ AnswerProposal
    \/ AnswerRead
    \/ LeadershipChanges

Spec == Init /\ [][Next]_vars

(* The server does not stop while there is something for it to do: the     *)
(* loop runs what is queued in it, timers expire, forceClose takes effect, *)
(* and Raft answers.                                                       *)
Busy ==
    \/ \E c \in Client : RunDrain(c) \/ (session[c].closing /\ OnClientDisconnect(c))
    \/ RunFlush \/ TimerExpires \/ TimerRuns
    \/ AnswerProposal \/ AnswerRead

DrainWorks(c) ==
    /\ session[c].alive /\ session[c].drain
    /\ DrainClient([World EXCEPT !.s[c].drain = FALSE], c) # World

(* ENABLED <<Busy>>_vars, in a form that TLC evaluates quickly.            *)
CanWork ==
    \/ \E c \in Client : DrainWorks(c) \/ (session[c].alive /\ session[c].closing)
    \/ flush.functors # {} \/ flush.timers # {} \/ flush.expired # {}
    \/ raft.proposed # {} \/ raft.reads # {}

(* Weak fairness of Busy.                                                  *)
Fairness == []<>(~CanWork) \/ []<><<Busy>>_vars

FairSpec == Spec /\ Fairness

-----------------------------------------------------------------------------
(* Properties.                                                             *)

(* A client's replies are those to its first commands, one each and in     *)
(* order, whatever mix of immediate, batched and asynchronous commands,    *)
(* broken frames and refusals it pipelines (ExecuteNextCommand,            *)
(* OnCommandComplete, ShouldReplyInvalidFrame).                            *)
RepliesInOrder ==
    \A c \in Client : session[c].replies = [i \in 1..Len(session[c].replies) |-> i]

(* While writes are queued, one flush is planned and its closure is on its *)
(* way: no batch is left behind when timers are cancelled or promoted, or  *)
(* completions re-enter SubmitWrite during a flush (ScheduleFlush,         *)
(* FlushQueuedWrites, BatchFlushPolicy).                                   *)
FlushOnItsWay ==
    flush.writes # <<>>
      => /\ flush.pending # "none"
         /\ flush.generation \in flush.timers \cup flush.expired \cup flush.functors

(* The namespace of x is that of the last SELECT before it.                *)
InNamespace(x) ==
    LET selects == {i \in 1 .. x.command - 1 : script[x.client][i] = "select"}
    IN IF selects = {} THEN x.ns = 0
       ELSE x.ns \in selects /\ \A i \in selects : i <= x.ns

(* A connection has one command outstanding while it executes, and none    *)
(* otherwise: the last one popped, in exactly one of the write queue,      *)
(* Raft's proposals and its reads, and waiting tells a write from a read.  *)
(* A completion that runs in the middle of a refused flush, and submits    *)
(* the connection's next write there, leaves no second copy (executing and *)
(* waiting in SubmitWrite, FlushQueuedWrites, OnCommandComplete).  So a    *)
(* SELECT never overtakes a write, and every write keeps the namespace of  *)
(* the last SELECT before it, also when its connection is lost.            *)
OneCommandAtATime ==
    LET Of(c, xs) == {x \in xs : x.client = c}
        queued == {flush.writes[i] : i \in DOMAIN flush.writes}
    IN /\ \A c \in {d \in Client : Deliverable(session[d])} :
            LET s == session[c]
                writes == {i \in DOMAIN flush.writes : flush.writes[i].client = c}
                proposed == Of(c, raft.proposed)
                reads == Of(c, raft.reads)
            IN /\ Cardinality(writes) + Cardinality(proposed) + Cardinality(reads)
                     = IF s.executing THEN 1 ELSE 0
               /\ s.waiting <=> writes # {} \/ proposed # {}
               /\ \A x \in Of(c, queued) \cup proposed \cup reads : x.command = s.popped
       /\ \A x \in queued \cup raft.proposed : InNamespace(x)

(* All that has arrived is answered, and the socket is read.               *)
Served(s) == s.reading /\ Len(s.replies) = s.arrived \div 2

(* No session stalls: all commands that have arrived are answered and the  *)
(* socket is read again, or the connection is closed (backpressure,        *)
(* drains that are skipped while one is scheduled, waiting).               *)
SessionsProgress ==
    \A c \in Client : session[c].alive ~> ~session[c].alive \/ Served(session[c])
=============================================================================
