---------------------------- MODULE PeerManager ----------------------------
(***************************************************************************)
(* The TCP links between two nodes (src/raft/peer_manager.cc), of which    *)
(* the one with the smaller id dials: reconnection                         *)
(* (src/common/peer_retry_policy.h), the routing table each node keeps,    *)
(* and frames over a byte stream (src/raft/raft_codec.h).                  *)
(*                                                                         *)
(* Each end of a link learns of its opening and closing at a time of its   *)
(* own, so that a node may hold several links to the same peer, all but    *)
(* one of them dead.  Links break, and either process restarts, MaxFaults  *)
(* times.  Delays are not modelled: a timer may fire at any time.          *)
(***************************************************************************)
EXTENDS Integers, Sequences, FiniteSets

CONSTANTS
    MaxQueued,      \* max_queued, in bytes of the output buffer
    Kinds,          \* number of different frames
    MaxFaults       \* bound on breaks and restarts

ASSUME LinkAssumption == MaxQueued \in Nat /\ Kinds \in Nat \ {0} /\ MaxFaults \in Nat

Dialer == 1
Acceptor == 2
Node == {Dialer, Acceptor}
Peer(n) == IF n = Dialer THEN Acceptor ELSE Dialer

(* Every link but the last is dead through a fault of its own.             *)
MaxLinks == MaxFaults + 1

VARIABLES
    manager,    \* manager[n]: _connections (of the peer) and _connection_peers
    dial,       \* the dialer's TcpClient, PeerRetryPolicy and timers
    link,       \* the TCP connections made so far
    faults

vars == <<manager, dial, link, faults>>

-----------------------------------------------------------------------------
(* Frames.  Frame k is k bytes long, and each of them is k: the first is   *)
(* its length, by which the others are found.                              *)

Frame == 1..Kinds
Encode(k) == [i \in 1..k |-> k]

After(k) == (k % Kinds) + 1

(* The n frames behind frame k.                                            *)
Following(k, n) == [i \in 1..n |-> ((k + i - 1) % Kinds) + 1]

(* TryDecode: the frame at the head of data is complete.                   *)
Complete(data) == Len(data) >= 1 /\ Len(data) >= data[1]

(* The loop of ParseAndDispatch: the frames dispatched, and what is left   *)
(* of the input buffer.                                                    *)
Parse[data \in Seq(Nat)] ==
    IF Complete(data)
    THEN LET rest == Parse[SubSeq(data, data[1] + 1, Len(data))]
         IN [frames |-> <<data[data[1]]>> \o rest.frames, left |-> rest.left]
    ELSE [frames |-> <<>>, left |-> data]

-----------------------------------------------------------------------------
(* PeerRetryPolicy.                                                        *)

NoRetry == [connected |-> FALSE, pending |-> FALSE, generation |-> 0]

Connected(r) ==
    [connected |-> TRUE, pending |-> FALSE, generation |-> r.generation + 1]

(* The plan: token 0 plans nothing.                                        *)
Disconnected(r) ==
    IF ~r.connected THEN [retry |-> r, token |-> 0]
    ELSE [retry |-> [connected |-> FALSE, pending |-> TRUE,
                     generation |-> r.generation + 1],
          token |-> r.generation + 1]

Valid(r, token) == r.pending /\ token = r.generation

-----------------------------------------------------------------------------
(* Links.  out[n] is what n has written and its peer has not yet read,     *)
(* in[n] the bytes n has read and not yet parsed; sent[n] and got[n] are   *)
(* the last frame n has sent and handled, got[n] = 0 once n has handled    *)
(* any but the next one its peer sent.                                     *)

LinkState ==
    [end : [Node -> {"new", "up", "down"}], broken : BOOLEAN,
     out : [Node -> Seq(Nat)], in : [Node -> Seq(Nat)],
     sent : [Node -> Frame], got : [Node -> 0..Kinds]]

NewLink ==
    [end |-> [n \in Node |-> IF n = Dialer THEN "up" ELSE "new"], broken |-> FALSE,
     out |-> [n \in Node |-> <<>>], in |-> [n \in Node |-> <<>>],
     sent |-> [n \in Node |-> Kinds], got |-> [n \in Node |-> Kinds]]

(* End n of l is closed: nothing is read there any more, and what was to   *)
(* be read there is forgotten.                                             *)
Closed(l, n) ==
    [l EXCEPT !.end[n] = "down", !.broken = FALSE, !.in[n] = <<>>, !.got[n] = Kinds,
              !.out[Peer(n)] = <<>>, !.sent[Peer(n)] = Kinds]

Link == 1..Len(link)
Fault == faults < MaxFaults /\ faults' = faults + 1

Idle == [route |-> 0, bound |-> {}]

(* Every variable is of its declared shape.                                *)
TypeOK ==
    /\ manager \in [Node -> [route : 0..Len(link), bound : SUBSET Link]]
    /\ dial \in [client : {"connecting", "connected", "closed"},
                 retry : [connected : BOOLEAN, pending : BOOLEAN, generation : Nat],
                 timers : SUBSET Nat]
    /\ link \in Seq(LinkState) /\ Len(link) <= MaxLinks
    /\ faults \in 0..MaxFaults

-----------------------------------------------------------------------------
(* The dialer.                                                             *)

(* ConnectToPeer makes a new TcpClient, whose Connector retries until it   *)
(* succeeds.                                                               *)
ConnectToPeer(d) == [d EXCEPT !.client = "connecting"]

(* OnClientConnection, up: the link waits to be accepted.                  *)
ClientUp ==
    /\ dial.client = "connecting" /\ Len(link) < MaxLinks
    /\ link' = Append(link, NewLink)
    /\ LET c == Len(link) + 1
       IN manager' = [manager EXCEPT ![Dialer].route = c, ![Dialer].bound = @ \cup {c}]
    /\ dial' = [dial EXCEPT !.client = "connected", !.retry = Connected(@)]
    /\ UNCHANGED faults

Ends(n, c) ==
    /\ link[c].end[n] = "up"
    /\ link[c].broken \/ link[c].end[Peer(n)] = "down"

(* Mutant: the client's own immediate reconnection is left enabled.        *)
ClientDownReconnects(c) ==
    LET m == manager[Dialer]
        plan == Disconnected(dial.retry)
    IN /\ Ends(Dialer, c)
       /\ link' = [link EXCEPT ![c] = Closed(@, Dialer)]
       /\ manager' = [manager EXCEPT ![Dialer] =
              [route |-> IF m.route = c THEN 0 ELSE m.route, bound |-> m.bound \ {c}]]
       /\ dial' = IF m.route = c
                  THEN [client |-> "connecting", retry |-> plan.retry,
                        timers |-> dial.timers \cup ({plan.token} \ {0})]
                  ELSE [dial EXCEPT !.client = "closed"]
       /\ UNCHANGED faults

(* OnClientConnection, down.                                               *)
ClientDown(c) ==
    LET m == manager[Dialer]
        plan == Disconnected(dial.retry)
    IN /\ Ends(Dialer, c)
       /\ link' = [link EXCEPT ![c] = Closed(@, Dialer)]
       /\ manager' = [manager EXCEPT ![Dialer] =
              [route |-> IF m.route = c THEN 0 ELSE m.route, bound |-> m.bound \ {c}]]
       /\ dial' = IF m.route = c
                  THEN [client |-> "closed", retry |-> plan.retry,
                        timers |-> dial.timers \cup ({plan.token} \ {0})]
                  ELSE [dial EXCEPT !.client = "closed"]
       /\ UNCHANGED faults

(* The timer of a plan: Consume.                                           *)
RetryTimer ==
    /\ \E t \in dial.timers :
          dial' = LET d == [dial EXCEPT !.timers = @ \ {t}]
                  IN IF Valid(d.retry, t) THEN ConnectToPeer([d EXCEPT !.retry.pending = FALSE])
                     ELSE d
    /\ UNCHANGED <<manager, link, faults>>

-----------------------------------------------------------------------------
(* The acceptor.                                                           *)

(* OnServerConnection, up: the peer is not known before its first frame.   *)
ServerUp(c) ==
    /\ link[c].end[Acceptor] = "new"
    /\ link' = [link EXCEPT ![c].end[Acceptor] = "up"]
    /\ UNCHANGED <<manager, dial, faults>>

(* OnServerConnection, down.                                               *)
ServerDown(c) ==
    LET m == manager[Acceptor]
    IN /\ Ends(Acceptor, c)
       /\ link' = [link EXCEPT ![c] = Closed(@, Acceptor)]
       /\ manager' = [manager EXCEPT ![Acceptor] =
              [route |-> IF m.route = c THEN 0 ELSE m.route, bound |-> m.bound \ {c}]]
       /\ UNCHANGED <<dial, faults>>

-----------------------------------------------------------------------------
(* Both.                                                                   *)

(* Mutant: what fits is queued.                                            *)
SendWhatFits(n) ==
    LET c == manager[n].route
        k == After(link[c].sent[n])
        room == MaxQueued - Len(link[c].out[n])
        bytes == SubSeq(Encode(k), 1, IF room < Len(Encode(k)) THEN room ELSE Len(Encode(k)))
    IN /\ c # 0 /\ link[c].end[n] = "up" /\ room > 0
       /\ link' = IF link[c].end[Peer(n)] = "down" THEN link
                  ELSE [link EXCEPT ![c].sent[n] = k, ![c].out[n] = @ \o bytes]
       /\ UNCHANGED <<manager, dial, faults>>

(* Send of a frame, on the link the node routes to; it changes nothing     *)
(* when there is none, or when the frame would not fit.                    *)
Send(n) ==
    LET c == manager[n].route
        k == After(link[c].sent[n])
    IN /\ c # 0 /\ link[c].end[n] = "up"
       /\ Len(link[c].out[n]) + Len(Encode(k)) <= MaxQueued
       /\ link' = IF link[c].end[Peer(n)] = "down" THEN link
                  ELSE [link EXCEPT ![c].sent[n] = k, ![c].out[n] = @ \o Encode(k)]
       /\ UNCHANGED <<manager, dial, faults>>

(* RegisterPeerConnection accepts a frame of the peer: only the smaller id *)
(* may use a link that is not bound yet.                                   *)
Accepts(n, c) == c \in manager[n].bound \/ Peer(n) < n

(* Mutant: a link is routed to when it is bound, on its first frame.       *)
RegisteredOnce(m, c) ==
    IF c \in m.bound THEN m ELSE [route |-> c, bound |-> m.bound \cup {c}]

(* RegisterPeerConnection: a frame makes its link the route.               *)
Registered(m, c) == [route |-> c, bound |-> m.bound \cup {c}]

(* OnServerMessage and OnClientMessage: bytes arrive, and every complete   *)
(* frame is dispatched.                                                    *)
OnMessage(n, c) ==
    LET m == Peer(n)
        l == link[c]
    IN /\ l.end[n] = "up"
       /\ \E j \in 1..Len(l.out[m]) :
            LET data == l.in[n] \o SubSeq(l.out[m], 1, j)
                p == Parse[data]
                read == [l EXCEPT !.out[m] = SubSeq(@, j + 1, Len(@))]
            IN IF p.frames = <<>> \/ ~Accepts(n, c)
               THEN /\ link' = [link EXCEPT ![c] = [read EXCEPT !.in[n] = data,
                                   !.broken = @ \/ p.frames # <<>>]]
                    /\ UNCHANGED manager
               ELSE /\ link' = [link EXCEPT ![c] = [read EXCEPT !.in[n] = p.left,
                                   !.got[n] = IF p.frames = Following(@, Len(p.frames))
                                              THEN p.frames[Len(p.frames)] ELSE 0]]
                    /\ manager' = [manager EXCEPT ![n] = Registered(@, c)]
       /\ UNCHANGED <<dial, faults>>

-----------------------------------------------------------------------------
(* Faults.                                                                 *)

Break(c) ==
    /\ ~link[c].broken /\ \A n \in Node : link[c].end[n] # "down"
    /\ link' = [link EXCEPT ![c].broken = TRUE]
    /\ Fault
    /\ UNCHANGED <<manager, dial>>

(* The process restarts: its links die with it, and Start dials.           *)
Restart(n) ==
    /\ manager' = [manager EXCEPT ![n] = Idle]
    /\ link' = [c \in Link |-> Closed(link[c], n)]
    /\ dial' = IF n = Dialer
               THEN ConnectToPeer([dial EXCEPT !.retry = NoRetry, !.timers = {}])
               ELSE dial
    /\ Fault

-----------------------------------------------------------------------------
Init ==
    /\ manager = [n \in Node |-> Idle]
    /\ dial = [client |-> "connecting", retry |-> NoRetry, timers |-> {}]
    /\ link = <<>>
    /\ faults = 0

Next ==
    \/ ClientUp
    \/ RetryTimer
    \/ \E c \in Link :
         \/ ClientDown(c)
         \/ ServerUp(c)
         \/ ServerDown(c)
         \/ \E n \in Node : OnMessage(n, c)
         \/ Break(c)
    \/ \E n \in Node : Send(n) \/ Restart(n)

Spec == Init /\ [][Next]_vars

(* The network lets a connection through in the end, each process learns   *)
(* what happened to its links, the acceptor reads what has come, and       *)
(* timers fire.  Nothing makes a node send: a follower of a third node's   *)
(* leader has nothing to say to the other follower.                        *)
Fairness ==
    /\ WF_vars(ClientUp) /\ WF_vars(RetryTimer)
    /\ WF_vars(\E c \in Link : ClientDown(c) \/ ServerUp(c) \/ ServerDown(c))
    /\ WF_vars(\E c \in Link : OnMessage(Acceptor, c))

FairSpec == Spec /\ Fairness

-----------------------------------------------------------------------------
(* Properties.                                                             *)

Open == {c \in Link : link[c].end[Dialer] = "up"}
Planned == {t \in dial.timers : Valid(dial.retry, t)}

(* The dialer is always doing exactly one thing about its peer: connecting *)
(* to it, holding one connection, which it routes to, or waiting for one   *)
(* timer that will connect; so it never gives up, and never runs two       *)
(* attempts (OnClientConnection, PeerRetryPolicy).                         *)
OneAttempt ==
    /\ (IF dial.client = "connecting" THEN 1 ELSE 0) + Cardinality(Open)
         + Cardinality(Planned) = 1
    /\ manager[Dialer].route # 0 <=> Open # {}
    /\ manager[Dialer].route # 0 => manager[Dialer].route \in Open

(* Every frame handled is the next one its peer sent on the same link, and *)
(* what is still under way parses as the frames behind it, however reads   *)
(* cut the stream and however full the output buffer was (Send,            *)
(* ParseAndDispatch, RaftCodec).                                           *)
FramesInOrder ==
    \A c \in Link : \A n \in Node :
        LET m == Peer(n)
            l == link[c]
            p == Parse[l.in[n] \o l.out[m]]
        IN l.end[n] # "down"
             => /\ p.left = <<>>
                /\ p.frames = Following(l.got[n], Len(p.frames))
                /\ l.sent[m] = IF p.frames = <<>> THEN l.got[n] ELSE p.frames[Len(p.frames)]

(* Once faults stop, the dialer comes to route to a link that is open at   *)
(* both ends, and keeps it.  If it also keeps sending, as a leader does    *)
(* and a node whose elections fail, the acceptor comes to route to that    *)
(* link as well and keeps doing so, although frames of dead links that are *)
(* read late, and their closing, divert it meanwhile.  One frame is not    *)
(* enough: such a frame takes the route over and the end of its link       *)
(* erases it, until the next frame of the open link                        *)
(* (RegisterPeerConnection, OnServerConnection).                           *)
LinkHeals ==
    LET Held(c) == manager[Dialer].route = c /\ \A n \in Node : link[c].end[n] = "up"
    IN /\ <>[](\E c \in Link : Held(c))
       /\ []<><<Send(Dialer)>>_vars
            => <>[](\E c \in Link : Held(c) /\ manager[Acceptor].route = c)
=============================================================================
