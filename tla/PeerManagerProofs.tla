------------------------- MODULE PeerManagerProofs -------------------------
(***************************************************************************)
(* Proof about PeerManager, for every number of breaks and restarts, every *)
(* set of frames and every limit of the output buffer: the dialer is       *)
(* always doing exactly one thing about its peer.                          *)
(*                                                                         *)
(* The inductive invariant names the three things.  While connecting or    *)
(* connected, no timer's token is valid; after a disconnection, the newest *)
(* token is valid and its timer is set.                                    *)
(***************************************************************************)
EXTENDS PeerManager, FiniteSetTheorems, SequenceTheorems, TLAPS

(* The provers get longer than the default for a leaf.                     *)
USE SMTT(20), ZenonT(20)

(* l has two ends; what is said on it does not matter here.                *)
IsLink(l) == "end" \in DOMAIN l /\ l.end \in [Node -> {"new", "up", "down"}]

Links(q) ==
    /\ \E S : q \in Seq(S)
    /\ \A c \in 1..Len(q) : IsLink(q[c])

Manager == [route : Nat, bound : SUBSET Nat]
Dial ==
    [client : {"connecting", "connected", "closed"},
     retry : [connected : BOOLEAN, pending : BOOLEAN, generation : Nat],
     timers : SUBSET Nat]

(* The links of q that the dialer holds.                                   *)
Held(q) == {c \in 1..Len(q) : q[c].end[Dialer] = "up"}

Mode(d, route, held) ==
    \/ d.client = "connecting" /\ ~d.retry.pending /\ route = 0 /\ held = {}
    \/ /\ d.client = "connected" /\ d.retry.connected /\ ~d.retry.pending
       /\ route # 0 /\ held = {route}
    \/ /\ d.client = "closed" /\ d.retry.pending /\ d.retry.generation \in d.timers
       /\ route = 0 /\ held = {}

IndInv ==
    /\ manager \in [Node -> Manager]
    /\ dial \in Dial
    /\ Links(link)
    /\ Mode(dial, manager[Dialer].route, Held(link))

-----------------------------------------------------------------------------
(* Links.                                                                  *)

(* The two nodes differ.                                                   *)
LEMMA TwoNodes ==
    /\ Dialer \in Node /\ Acceptor \in Node /\ Dialer # Acceptor
    /\ \A n \in Node : n = Dialer \/ n = Acceptor
    /\ \A n \in Node : Peer(n) \in Node
  BY DEF Node, Dialer, Acceptor, Peer

(* A closed end is down, and the other end is as before.                   *)
LEMMA ClosedEnd ==
    ASSUME NEW l, IsLink(l), NEW n \in Node
    PROVE  /\ IsLink(Closed(l, n))
           /\ Closed(l, n).end[Dialer] = IF n = Dialer THEN "down" ELSE l.end[Dialer]
  BY Zenon, TwoNodes DEF IsLink, Closed

Replaced(q, c, k) == [q EXCEPT ![c] = k]

(* One link of a sequence is replaced.                                     *)
LEMMA LinkReplaced ==
    ASSUME NEW q, Links(q), NEW c \in 1..Len(q), NEW k, IsLink(k)
    PROVE  /\ Links(Replaced(q, c, k)) /\ Len(Replaced(q, c, k)) = Len(q)
           /\ \A x \in 1..Len(q) : Replaced(q, c, k)[x] = IF x = c THEN k ELSE q[x]
<1>. DEFINE r == Replaced(q, c, k)
<1>1. PICK S : q \in Seq(S)
  BY Zenon DEF Links
<1>2. q \in Seq(S \cup {k}) /\ k \in S \cup {k}
  BY <1>1, SeqDef
<1>3. /\ r \in Seq(S \cup {k}) /\ Len(r) = Len(q)
      /\ \A x \in 1..Len(q) : r[x] = IF x = c THEN k ELSE q[x]
  BY <1>2, ExceptSeq DEF Replaced
<1>. QED
  BY Zenon, <1>3 DEF Links

(* Replacing what is no link of the sequence changes nothing.              *)
LEMMA NoneReplaced ==
    ASSUME NEW q, Links(q), NEW c, c \notin 1..Len(q), NEW k
    PROVE  Replaced(q, c, k) = q
<1>1. PICK S : q \in Seq(S)
  BY Zenon DEF Links
<1>2. q \in [1..Len(q) -> S]
  BY Zenon, <1>1, LenProperties
<1>. QED
  BY Zenon, <1>2 DEF Replaced

(* A link whose end at the dialer is as before leaves what is held alone.  *)
LEMMA EndKept ==
    ASSUME NEW q, Links(q), NEW c \in 1..Len(q), NEW k, IsLink(k),
           k.end[Dialer] = q[c].end[Dialer]
    PROVE  Links(Replaced(q, c, k)) /\ Held(Replaced(q, c, k)) = Held(q)
<1>. DEFINE r == Replaced(q, c, k)
<1>. HIDE DEF r
<1>1. /\ Links(r) /\ Len(r) = Len(q)
      /\ \A x \in 1..Len(q) : r[x] = IF x = c THEN k ELSE q[x]
  BY LinkReplaced DEF r
<1>2. \A x \in 1..Len(q) : r[x].end[Dialer] = q[x].end[Dialer]
  BY Zenon, <1>1
<1>. QED
  BY Zenon, <1>1, <1>2 DEF Held, r

(* A link of which the dialer closes its end is no longer held.            *)
LEMMA EndClosed ==
    ASSUME NEW q, Links(q), NEW c \in 1..Len(q), NEW k, IsLink(k), k.end[Dialer] = "down"
    PROVE  Links(Replaced(q, c, k)) /\ Held(Replaced(q, c, k)) = Held(q) \ {c}
<1>. DEFINE r == Replaced(q, c, k)
<1>. HIDE DEF r
<1>1. /\ Links(r) /\ Len(r) = Len(q)
      /\ \A x \in 1..Len(q) : r[x] = IF x = c THEN k ELSE q[x]
  BY LinkReplaced DEF r
<1>2. \A x \in 1..Len(q) : r[x].end[Dialer] = "up" <=> x # c /\ q[x].end[Dialer] = "up"
  BY Zenon, <1>1
<1>. QED
  BY Zenon, <1>1, <1>2 DEF Held, r

(* A link becomes the route of a manager.                                  *)
LEMMA RouteSet ==
    ASSUME NEW m \in Manager, NEW c \in Nat
    PROVE  /\ [m EXCEPT !.route = c, !.bound = @ \cup {c}] \in Manager
           /\ [m EXCEPT !.route = c, !.bound = @ \cup {c}].route = c
           /\ [route |-> c, bound |-> m.bound \cup {c}] \in Manager
<1>1. m.bound \cup {c} \in SUBSET Nat
  BY Zenon DEF Manager
<1>. QED
  BY Zenon, <1>1 DEF Manager

-----------------------------------------------------------------------------
(* Steps.                                                                  *)

(* A step that changes neither what the dialer holds nor its route, its    *)
(* client and its timers preserves the invariant.                          *)
LEMMA DialerIdle ==
    ASSUME IndInv, Links(link'), Held(link') = Held(link), dial' = dial,
           manager' \in [Node -> Manager], manager'[Dialer].route = manager[Dialer].route
    PROVE  IndInv'
  BY Zenon DEF IndInv, Mode

(* What the invariant says of one link and of both managers.               *)
LEMMA Has ==
    ASSUME IndInv
    PROVE  /\ Links(link) /\ Len(link) \in Nat
           /\ \A c \in Link : IsLink(link[c]) /\ c \in 1..Len(link)
           /\ \A n \in Node : manager[n] \in Manager
           /\ \A n \in Node : manager[n].route \in Nat /\ manager[n].bound \in SUBSET Nat
<1>1. Links(link) /\ manager \in [Node -> Manager]
  BY Zenon DEF IndInv
<1>2. Len(link) \in Nat
  BY Zenon, <1>1, LenProperties DEF Links
<1>3. \A n \in Node : manager[n] \in Manager
  BY Zenon, <1>1
<1>. QED
  BY Zenon, <1>1, <1>2, <1>3 DEF Links, Link, Manager

(* The manager of n takes a new route and new bindings.                    *)
LEMMA ManagerReplaced ==
    ASSUME IndInv, NEW n \in Node, NEW m \in Manager,
           manager' = [manager EXCEPT ![n] = m]
    PROVE  /\ manager' \in [Node -> Manager] /\ manager'[n] = m
           /\ n # Dialer => manager'[Dialer] = manager[Dialer]
  BY Zenon, TwoNodes DEF IndInv

(* ClientUp preserves the invariant: the new link is the one held.         *)
LEMMA ClientUpInv ==
    ASSUME IndInv, ClientUp
    PROVE  IndInv'
<1>. DEFINE c == Len(link) + 1
            m == [manager[Dialer] EXCEPT !.route = c, !.bound = @ \cup {c}]
<1>1. /\ Links(link) /\ Len(link) \in Nat /\ manager[Dialer] \in Manager /\ c \in Nat
      /\ c # 0
  BY Has, TwoNodes
<1>2. m \in Manager /\ m.route = c
  BY Zenon, <1>1, RouteSet
<1>3. manager' = [manager EXCEPT ![Dialer] = m]
  <2>1. manager' = [manager EXCEPT ![Dialer].route = c, ![Dialer].bound = @ \cup {c}]
    BY Zenon DEF ClientUp
  <2>2. manager \in [Node -> Manager] /\ Dialer \in Node
    BY Zenon, TwoNodes DEF IndInv
  <2>. QED
    BY Zenon, <1>1, <2>1, <2>2 DEF Manager
<1>4. manager' \in [Node -> Manager] /\ manager'[Dialer].route = c
  BY Zenon, <1>2, <1>3, ManagerReplaced, TwoNodes
<1>5. IsLink(NewLink) /\ NewLink.end[Dialer] = "up"
  BY Zenon, TwoNodes DEF NewLink, IsLink
<1>6. link' = Append(link, NewLink)
  BY Zenon DEF ClientUp
<1>7. PICK S : link \in Seq(S)
  BY Zenon, <1>1 DEF Links
<1>8. link \in Seq(S \cup {NewLink}) /\ NewLink \in S \cup {NewLink}
  BY <1>7, SeqDef
<1>9. /\ link' \in Seq(S \cup {NewLink}) /\ Len(link') = c
      /\ \A x \in 1..Len(link) : link'[x] = link[x]
      /\ link'[c] = NewLink
  BY <1>6, <1>8, AppendProperties
<1>10. \A x \in 1..c : x \in 1..Len(link) \/ x = c
  BY <1>1
<1>11. Links(link')
  <2>1. \A x \in 1..c : IsLink(link'[x])
    BY Zenon, <1>1, <1>5, <1>9, <1>10 DEF Links
  <2>. QED
    BY Zenon, <1>9, <2>1 DEF Links
<1>12. Held(link) = {} /\ dial.client = "connecting" /\ dial \in Dial
  BY Zenon DEF IndInv, Mode, ClientUp, Dial
<1>13. Held(link') = {c}
  <2>1. \A x \in 1..Len(link) : link'[x].end[Dialer] # "up"
    BY Zenon, <1>9, <1>12 DEF Held
  <2>2. link'[c].end[Dialer] = "up" /\ c \in 1..c
    BY <1>1, <1>5, <1>9
  <2>. QED
    BY Zenon, <1>9, <1>10, <2>1, <2>2 DEF Held
<1>14. /\ dial' \in Dial /\ dial'.client = "connected" /\ dial'.retry.connected
       /\ ~dial'.retry.pending
  <2>1. dial' = [dial EXCEPT !.client = "connected", !.retry = Connected(@)]
    BY Zenon DEF ClientUp
  <2>2. /\ Connected(dial.retry) \in [connected : BOOLEAN, pending : BOOLEAN, generation : Nat]
        /\ Connected(dial.retry).connected /\ ~Connected(dial.retry).pending
    BY <1>12 DEF Connected, Dial
  <2>. QED
    BY Zenon, <1>12, <2>1, <2>2 DEF Dial
<1>. QED
  BY Zenon, <1>1, <1>4, <1>11, <1>13, <1>14 DEF IndInv, Mode

(* ClientDown preserves the invariant: the link was the one held, and its  *)
(* loss plans a timer.                                                     *)
LEMMA ClientDownInv ==
    ASSUME IndInv, NEW c \in Link, ClientDown(c)
    PROVE  IndInv'
<1>. DEFINE plan == Disconnected(dial.retry)
            m == [route |-> 0, bound |-> manager[Dialer].bound \ {c}]
<1>1. Links(link) /\ c \in 1..Len(link) /\ c \in Held(link)
  BY Zenon, Has DEF ClientDown, Ends, Held
<1>2. /\ manager[Dialer].route = c /\ Held(link) = {c} /\ dial.retry.connected
      /\ dial \in Dial
  BY Zenon, <1>1 DEF IndInv, Mode
<1>3. m \in Manager /\ manager' = [manager EXCEPT ![Dialer] = m]
  BY Zenon, <1>2, Has, TwoNodes DEF ClientDown, Manager
<1>4. manager' \in [Node -> Manager] /\ manager'[Dialer].route = 0
  BY Zenon, <1>3, ManagerReplaced, TwoNodes
<1>5. link' = Replaced(link, c, Closed(link[c], Dialer))
  BY Zenon DEF ClientDown, Replaced
<1>6. Links(link') /\ Held(link') = {}
  <2>1. /\ IsLink(Closed(link[c], Dialer))
        /\ Closed(link[c], Dialer).end[Dialer] = "down"
    BY Zenon, Has, ClosedEnd, TwoNodes
  <2>2. Links(link') /\ Held(link') = Held(link) \ {c}
    BY Zenon, <1>1, <1>5, <2>1, EndClosed
  <2>. QED
    BY Zenon, <1>2, <2>2
<1>7. /\ plan.retry = [connected |-> FALSE, pending |-> TRUE,
                       generation |-> dial.retry.generation + 1]
      /\ plan.token = dial.retry.generation + 1
      /\ dial.retry.generation \in Nat /\ dial.timers \in SUBSET Nat
  BY Zenon, <1>2 DEF Disconnected, Dial
<1>8. dial' = [client |-> "closed", retry |-> plan.retry,
               timers |-> dial.timers \cup ({plan.token} \ {0})]
  BY Zenon, <1>2 DEF ClientDown
<1>. HIDE DEF plan
<1>9. /\ dial' \in Dial /\ dial'.client = "closed" /\ dial'.retry.pending
      /\ dial'.retry.generation \in dial'.timers
  BY <1>7, <1>8 DEF Dial
<1>. QED
  BY Zenon, <1>4, <1>6, <1>9 DEF IndInv, Mode

(* RetryTimer preserves the invariant: only the newest token connects.     *)
LEMMA RetryTimerInv ==
    ASSUME IndInv, RetryTimer
    PROVE  IndInv'
<1>1. PICK t \in dial.timers :
          dial' = LET d == [dial EXCEPT !.timers = @ \ {t}]
                  IN IF Valid(d.retry, t) THEN ConnectToPeer([d EXCEPT !.retry.pending = FALSE])
                     ELSE d
  BY Zenon DEF RetryTimer
<1>2. dial \in Dial /\ manager' = manager /\ link' = link
  BY Zenon DEF RetryTimer, IndInv
<1>3. CASE Valid(dial.retry, t)
  <2>1. /\ dial' \in Dial /\ dial'.client = "connecting" /\ ~dial'.retry.pending
    BY Zenon, <1>1, <1>2, <1>3 DEF Valid, ConnectToPeer, Dial
  <2>2. manager[Dialer].route = 0 /\ Held(link) = {}
    BY Zenon, <1>3 DEF IndInv, Mode, Valid
  <2>. QED
    BY Zenon, <1>2, <2>1, <2>2 DEF IndInv, Mode
<1>4. CASE ~Valid(dial.retry, t)
  <2>1. /\ dial' \in Dial /\ dial'.client = dial.client /\ dial'.retry = dial.retry
        /\ dial'.timers = dial.timers \ {t}
    BY Zenon, <1>1, <1>2, <1>4 DEF Valid, Dial
  <2>2. dial.retry.pending => t # dial.retry.generation
    BY Zenon, <1>4 DEF Valid
  <2>. QED
    BY Zenon, <1>2, <2>1, <2>2 DEF IndInv, Mode
<1>. QED
  BY Zenon, <1>3, <1>4

(* ServerUp preserves the invariant: the acceptor's end comes up.          *)
LEMMA ServerUpInv ==
    ASSUME IndInv, NEW c \in Link, ServerUp(c)
    PROVE  IndInv'
<1>. DEFINE k == [link[c] EXCEPT !.end[Acceptor] = "up"]
<1>1. Links(link) /\ c \in 1..Len(link) /\ IsLink(link[c])
  BY Zenon, Has
<1>2. IsLink(k) /\ k.end[Dialer] = link[c].end[Dialer]
  BY Zenon, <1>1, TwoNodes DEF IsLink
<1>3. link' = Replaced(link, c, k)
  BY Zenon DEF ServerUp, Replaced
<1>. HIDE DEF k
<1>4. Links(link') /\ Held(link') = Held(link)
  BY Zenon, <1>1, <1>2, <1>3, EndKept
<1>. QED
  BY Zenon, <1>4, DialerIdle DEF ServerUp, IndInv

(* ServerDown preserves the invariant: only the acceptor's end closes.     *)
LEMMA ServerDownInv ==
    ASSUME IndInv, NEW c \in Link, ServerDown(c)
    PROVE  IndInv'
<1>. DEFINE k == Closed(link[c], Acceptor)
            a == manager[Acceptor]
            m == [route |-> IF a.route = c THEN 0 ELSE a.route, bound |-> a.bound \ {c}]
<1>1. Links(link) /\ c \in 1..Len(link) /\ IsLink(link[c])
  BY Zenon, Has
<1>2. IsLink(k) /\ k.end[Dialer] = link[c].end[Dialer]
  BY Zenon, <1>1, ClosedEnd, TwoNodes
<1>3. link' = Replaced(link, c, k)
  BY Zenon DEF ServerDown, Replaced
<1>. HIDE DEF k
<1>4. Links(link') /\ Held(link') = Held(link)
  BY Zenon, <1>1, <1>2, <1>3, EndKept
<1>5. m \in Manager /\ manager' = [manager EXCEPT ![Acceptor] = m]
  BY Zenon, Has, TwoNodes DEF ServerDown, Manager
<1>6. manager' \in [Node -> Manager] /\ manager'[Dialer] = manager[Dialer]
  BY Zenon, <1>5, ManagerReplaced, TwoNodes
<1>. QED
  BY Zenon, <1>4, <1>6, DialerIdle DEF ServerDown

(* Send preserves the invariant: it writes to a link.                      *)
LEMMA SendInv ==
    ASSUME IndInv, NEW n \in Node, Send(n)
    PROVE  IndInv'
<1>. DEFINE c == manager[n].route
            f == After(link[c].sent[n])
            k == [link[c] EXCEPT !.sent[n] = f, !.out[n] = @ \o Encode(f)]
<1>1. dial' = dial /\ manager' = manager
  BY Zenon DEF Send
<1>2. CASE link' = link
  BY Zenon, <1>1, <1>2, DialerIdle DEF IndInv
<1>3. CASE link' # link
  <2>1. link' = Replaced(link, c, k)
    BY Zenon, <1>3 DEF Send, Replaced
  <2>2. Links(link) /\ c \in 1..Len(link)
    BY Zenon, <1>3, <2>1, Has, NoneReplaced
  <2>3. IsLink(link[c])
    BY Zenon, <2>2 DEF Links
  <2>4. IsLink(k) /\ k.end = link[c].end
    BY Zenon, <2>3 DEF IsLink
  <2>. HIDE DEF k, c
  <2>5. Links(link') /\ Held(link') = Held(link)
    BY Zenon, <2>1, <2>2, <2>4, EndKept
  <2>. QED
    BY Zenon, <1>1, <2>5, DialerIdle DEF IndInv
<1>. QED
  BY Zenon, <1>2, <1>3

(* Break preserves the invariant: neither end knows of it yet.             *)
LEMMA BreakInv ==
    ASSUME IndInv, NEW c \in Link, Break(c)
    PROVE  IndInv'
<1>. DEFINE k == [link[c] EXCEPT !.broken = TRUE]
<1>1. Links(link) /\ c \in 1..Len(link) /\ IsLink(link[c])
  BY Zenon, Has
<1>2. IsLink(k) /\ k.end = link[c].end
  BY Zenon, <1>1 DEF IsLink
<1>3. link' = Replaced(link, c, k)
  BY Zenon DEF Break, Replaced
<1>. HIDE DEF k
<1>4. Links(link') /\ Held(link') = Held(link)
  BY Zenon, <1>1, <1>2, <1>3, EndKept
<1>. QED
  BY Zenon, <1>4, DialerIdle DEF Break, IndInv

(* OnMessage preserves the invariant: a frame the dialer handles is of the *)
(* one link it holds, which it routes to already.                          *)
LEMMA OnMessageInv ==
    ASSUME IndInv, NEW n \in Node, NEW c \in Link, OnMessage(n, c)
    PROVE  IndInv'
<1>1. Links(link) /\ c \in 1..Len(link) /\ c \in Nat /\ IsLink(link[c])
  BY Has
<1>2. link[c].end[n] = "up" /\ dial' = dial
  BY Zenon DEF OnMessage
<1>3. PICK k : /\ link' = Replaced(link, c, k) /\ IsLink(k) /\ k.end = link[c].end
               /\ \/ manager' = manager
                  \/ manager' = [manager EXCEPT ![n] = Registered(manager[n], c)]
  <2>. DEFINE l == link[c]
              m == Peer(n)
              Rest(j) == SubSeq(l.out[m], j + 1, Len(l.out[m]))
              Data(j) == l.in[n] \o SubSeq(l.out[m], 1, j)
              Read(j) == [l EXCEPT !.out[m] = Rest(j)]
              X(j) == [Read(j) EXCEPT !.in[n] = Data(j),
                                      !.broken = @ \/ Parse[Data(j)].frames # <<>>]
              Y(j) == [Read(j) EXCEPT !.in[n] = Parse[Data(j)].left,
                                      !.got[n] = IF Parse[Data(j)].frames =
                                                      Following(@, Len(Parse[Data(j)].frames))
                                                 THEN Parse[Data(j)].frames[Len(Parse[Data(j)].frames)]
                                                 ELSE 0]
  <2>1. PICK j \in 1..Len(l.out[m]) :
            \/ link' = [link EXCEPT ![c] = X(j)] /\ manager' = manager
            \/ /\ link' = [link EXCEPT ![c] = Y(j)]
               /\ manager' = [manager EXCEPT ![n] = Registered(@, c)]
    BY Zenon DEF OnMessage
  <2>2. IsLink(Read(j)) /\ Read(j).end = link[c].end
    BY Zenon, <1>1 DEF IsLink
  <2>3. IsLink(X(j)) /\ X(j).end = link[c].end
    <3>. HIDE DEF Read, Data
    <3>. QED
      BY Zenon, <2>2 DEF IsLink
  <2>4. IsLink(Y(j)) /\ Y(j).end = link[c].end
    <3>. HIDE DEF Read, Data
    <3>. QED
      BY Zenon, <2>2 DEF IsLink
  <2>. HIDE DEF X, Y
  <2>. QED
    BY Zenon, <2>1, <2>3, <2>4 DEF Replaced
<1>4. Links(link') /\ Held(link') = Held(link)
  BY Zenon, <1>1, <1>3, EndKept
<1>5. CASE manager' = manager
  BY Zenon, <1>2, <1>4, <1>5, DialerIdle DEF IndInv
<1>6. CASE manager' = [manager EXCEPT ![n] = Registered(manager[n], c)]
  <2>1. Registered(manager[n], c) \in Manager /\ Registered(manager[n], c).route = c
    BY Zenon, <1>1, Has, RouteSet DEF Registered
  <2>2. /\ manager' \in [Node -> Manager] /\ manager'[n].route = c
        /\ n # Dialer => manager'[Dialer] = manager[Dialer]
    BY Zenon, <1>6, <2>1, ManagerReplaced
  <2>3. n = Dialer => manager[Dialer].route = c
    BY Zenon, <1>1, <1>2 DEF IndInv, Mode, Held
  <2>4. manager'[Dialer].route = manager[Dialer].route
    BY <2>2, <2>3
  <2>. QED
    BY Zenon, <1>2, <1>4, <2>2, <2>4, DialerIdle
<1>. QED
  BY Zenon, <1>3, <1>5, <1>6

(* Restart preserves the invariant: a dialer that starts again connects,   *)
(* and holds no link.                                                      *)
LEMMA RestartInv ==
    ASSUME IndInv, NEW n \in Node, Restart(n)
    PROVE  IndInv'
<1>. DEFINE k(c) == Closed(link[c], n)
<1>1. /\ Links(link) /\ Len(link) \in Nat /\ link' = [c \in 1..Len(link) |-> k(c)]
      /\ \A c \in 1..Len(link) : IsLink(link[c])
  BY Zenon, Has DEF Restart, Link, Links
<1>2. \A c \in 1..Len(link) :
          /\ IsLink(k(c))
          /\ k(c).end[Dialer] = IF n = Dialer THEN "down" ELSE link[c].end[Dialer]
  BY Zenon, <1>1, ClosedEnd
<1>. DEFINE S == {k(c) : c \in 1..Len(link)}
<1>. HIDE DEF k
<1>3. link' \in Seq(S) /\ Len(link') = Len(link)
  <2>1. link' \in [1..Len(link) -> S]
    BY Zenon, <1>1
  <2>. HIDE DEF S
  <2>2. link' \in Seq(S)
    BY <1>1, <2>1, SeqDef
  <2>. QED
    BY <1>1, <2>1, <2>2, LenProperties
<1>4. \A c \in 1..Len(link) : link'[c] = k(c)
  BY Zenon, <1>1
<1>5. Links(link')
  BY Zenon, <1>2, <1>3, <1>4 DEF Links
<1>6. Idle \in Manager /\ Idle.route = 0
  BY Zenon DEF Idle, Manager
<1>7. /\ manager' \in [Node -> Manager] /\ manager'[n] = Idle
      /\ n # Dialer => manager'[Dialer] = manager[Dialer]
  BY Zenon, <1>6, ManagerReplaced DEF Restart
<1>8. CASE n = Dialer
  <2>1. Held(link') = {}
    BY Zenon, <1>2, <1>3, <1>4, <1>8 DEF Held
  <2>2. /\ dial' \in Dial /\ dial'.client = "connecting" /\ ~dial'.retry.pending
    BY Zenon, <1>8 DEF Restart, IndInv, Dial, ConnectToPeer, NoRetry
  <2>. QED
    BY Zenon, <1>5, <1>6, <1>7, <1>8, <2>1, <2>2 DEF IndInv, Mode
<1>9. CASE n # Dialer
  <2>1. Held(link') = Held(link)
    BY Zenon, <1>2, <1>3, <1>4, <1>9 DEF Held
  <2>2. dial' = dial
    BY Zenon, <1>9 DEF Restart
  <2>. QED
    BY Zenon, <1>5, <1>7, <1>9, <2>1, <2>2, DialerIdle
<1>. QED
  BY Zenon, <1>8, <1>9

-----------------------------------------------------------------------------
(* The invariant.                                                          *)

(* A process that starts is connecting and holds no link.                  *)
LEMMA InitInv == Init => IndInv
<1>. SUFFICES ASSUME Init PROVE IndInv
  BY Zenon
<1>1. manager \in [Node -> Manager] /\ manager[Dialer].route = 0
  BY Zenon, TwoNodes DEF Init, Idle, Manager
<1>2. dial \in Dial /\ dial.client = "connecting" /\ ~dial.retry.pending
  BY Zenon DEF Init, Dial, NoRetry
<1>3. link = << >> /\ << >> \in Seq(Nat) /\ Len(link) = 0 /\ 1..Len(link) = {}
  BY EmptySeq DEF Init
<1>4. Links(link) /\ Held(link) = {}
  BY Zenon, <1>3 DEF Links, Held
<1>. QED
  BY Zenon, <1>1, <1>2, <1>4 DEF IndInv, Mode

(* Every step of either process or of the network preserves it.            *)
LEMMA NextInv == IndInv /\ [Next]_vars => IndInv'
<1>. SUFFICES ASSUME IndInv, [Next]_vars PROVE IndInv'
  BY Zenon
<1>1. CASE ClientUp
  BY Zenon, <1>1, ClientUpInv
<1>2. CASE RetryTimer
  BY Zenon, <1>2, RetryTimerInv
<1>3. CASE \E c \in Link : ClientDown(c)
  BY Zenon, <1>3, ClientDownInv
<1>4. CASE \E c \in Link : ServerUp(c)
  BY Zenon, <1>4, ServerUpInv
<1>5. CASE \E c \in Link : ServerDown(c)
  BY Zenon, <1>5, ServerDownInv
<1>6. CASE \E c \in Link : \E n \in Node : OnMessage(n, c)
  BY Zenon, <1>6, OnMessageInv
<1>7. CASE \E c \in Link : Break(c)
  BY Zenon, <1>7, BreakInv
<1>8. CASE \E n \in Node : Send(n)
  BY Zenon, <1>8, SendInv
<1>9. CASE \E n \in Node : Restart(n)
  BY Zenon, <1>9, RestartInv
<1>10. CASE UNCHANGED vars
  BY Zenon, <1>10 DEF vars, IndInv, Mode, Held, Links
<1>. QED
  BY Zenon, <1>1, <1>2, <1>3, <1>4, <1>5, <1>6, <1>7, <1>8, <1>9, <1>10 DEF Next

(* The invariant counts one thing under way.                               *)
LEMMA InvCountsOne == IndInv => OneAttempt
<1>. SUFFICES ASSUME IndInv PROVE OneAttempt
  BY Zenon
<1>. DEFINE g == dial.retry.generation
            r == manager[Dialer].route
<1>1. Open = Held(link) /\ r \in Nat
  BY Zenon, Has, TwoNodes DEF Open, Held, Link
<1>2. Cardinality({}) = 0 /\ Cardinality({g}) = 1 /\ Cardinality({r}) = 1
  BY Zenon, FS_EmptySet, FS_Singleton
<1>3. CASE dial.client = "connecting"
  <2>1. Planned = {} /\ Open = {} /\ r = 0
    BY Zenon, <1>1, <1>3 DEF IndInv, Mode, Planned, Valid
  <2>. QED
    BY <1>2, <1>3, <2>1 DEF OneAttempt
<1>4. CASE dial.client = "connected"
  <2>1. Planned = {} /\ Open = {r} /\ r # 0
    BY Zenon, <1>1, <1>4 DEF IndInv, Mode, Planned, Valid
  <2>. QED
    BY <1>2, <1>4, <2>1 DEF OneAttempt
<1>5. CASE dial.client = "closed"
  <2>1. Planned = {g} /\ Open = {} /\ r = 0
    BY Zenon, <1>1, <1>5 DEF IndInv, Mode, Planned, Valid
  <2>. QED
    BY <1>2, <1>5, <2>1 DEF OneAttempt
<1>. QED
  BY Zenon, <1>3, <1>4, <1>5 DEF IndInv, Dial

(* The dialer always connects, holds one connection that it routes to, or  *)
(* waits for the one timer that will connect (OnClientConnection,          *)
(* PeerRetryPolicy): it never gives its peer up, whatever breaks.          *)
THEOREM DialerActsOnce == Spec => []OneAttempt
  BY InitInv, NextInv, InvCountsOne, PTL DEF Spec
=============================================================================
