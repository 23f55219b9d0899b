----------------------- MODULE SnapshotTransferProofs -----------------------
(***************************************************************************)
(* Proofs about SnapshotTransfer, for every number of leaders, terms,      *)
(* snapshots and faults, every content and every chunk size: a follower    *)
(* installs whole snapshots only, and a leader takes as installed only     *)
(* what is.                                                                *)
(*                                                                         *)
(* The inductive invariant says of every chunk, in transit or assembled,   *)
(* that it is a part of the snapshot it names, and of every message of the *)
(* leader's own term that its rpc id identifies the flight it belongs to.  *)
(***************************************************************************)
EXTENDS SnapshotTransfer, SequenceTheorems, TLAPS

(* The provers get longer than the default for a leaf.                     *)
USE SMTT(20), ZenonT(20)

(* data is what snapshot i holds behind offset.                            *)
Part(i, offset, data) ==
    /\ i \in Index /\ offset \in Nat /\ data \in Seq(Byte)
    /\ offset + Len(data) <= Len(Contents[i])
    /\ \A k \in 1..Len(data) : data[k] = Contents[i][offset + k]

FollowerOK(f) ==
    /\ f \in FollowerState
    /\ f.receive.index > 0 => Part(f.receive.index, 0, f.receive.data)
    /\ f.installed.index > 0
         => f.installed.data = Contents[f.installed.index] /\ f.installed.index <= f.applied

(* The chunk in flight lies within its snapshot.                           *)
FlightOK(f) ==
    /\ f \in Flight
    /\ f.id # 0 => f.index \in Index /\ f.offset + f.chunk <= Len(Contents[f.index])

SenderOK(r, applied) ==
    /\ r \in SenderState
    /\ FlightOK(r.flight)
    /\ r.leading => r.term >= 1 /\ r.match <= applied
    /\ r.flight.id # 0 => r.leading
    /\ r.flight.id <= r.rpc

(* What a message in transit says to its leader, whose state is r.         *)
Claims(m, r, applied) ==
    LET current == m.term = r.term /\ r.leading
    IN /\ m.type = "InstallSnapshot"
            => /\ m.term <= r.term /\ m.id >= 1
               /\ current => m.id <= r.rpc
               /\ current /\ m.id = r.flight.id => m.index = r.flight.index
       /\ m.type = "InstallSnapshotResponse" /\ m.complete
            => /\ m.term <= r.term /\ m.id >= 1
               /\ current => m.id <= r.rpc
               /\ current /\ m.id = r.flight.id => r.flight.index <= applied

MessageOK(m) ==
    /\ m \in Request \cup Response
    /\ m.type = "InstallSnapshot"
         => /\ Part(m.index, m.offset, m.data)
            /\ m.done => m.offset + Len(m.data) = Len(Contents[m.index])

IndInv ==
    /\ sender \in [Sender -> SenderState] /\ faults \in 0..MaxFaults
    /\ FollowerOK(follower)
    /\ \A s \in Sender : SenderOK(sender[s], follower.applied)
    /\ \A m \in net : MessageOK(m) /\ Claims(m, sender[m.leader], follower.applied)

-----------------------------------------------------------------------------
(* The parts of a snapshot.                                                *)

(* The contents of every snapshot the leaders hold are finite.             *)
LEMMA ContentsType ==
    ASSUME NEW i \in Index
    PROVE  Contents[i] \in Seq(Byte) /\ Len(Contents[i]) \in Nat
<1>1. Contents[i] \in Seq(Byte)
  BY Zenon, TransferAssumption
<1>. QED
  BY Zenon, <1>1, LenProperties

(* The constants' ranges, as the arithmetic below uses them.               *)
LEMMA Constants ==
    MaxIndex \in Nat /\ MaxIndex # 0 /\ MaxTerm \in Nat /\ MaxFaults \in Nat
    /\ ChunkBytes \in Nat /\ ChunkBytes # 0
  BY Zenon, TransferAssumption

(* A substring is a part.                                                  *)
LEMMA SubSeqPart ==
    ASSUME NEW i \in Index, NEW offset \in Nat, NEW n \in Nat,
           offset + n <= Len(Contents[i])
    PROVE  LET data == SubSeq(Contents[i], offset + 1, offset + n)
           IN Part(i, offset, data) /\ Len(data) = n
<1>. DEFINE data == SubSeq(Contents[i], offset + 1, offset + n)
<1>1. Contents[i] \in Seq(Byte) /\ Len(Contents[i]) \in Nat
  BY Zenon, ContentsType
<1>2. /\ data \in Seq(Byte) /\ Len(data) = n
      /\ \A k \in 1..n : data[k] = Contents[i][offset + k]
  <2>1. \A k \in offset + 1 .. offset + n : Contents[i][k] \in Byte
    <3>. SUFFICES ASSUME NEW k \in offset + 1 .. offset + n PROVE Contents[i][k] \in Byte
      BY Zenon
    <3>1. k \in 1..Len(Contents[i])
      BY <1>1
    <3>. QED
      BY <1>1, <3>1
  <2>2. data \in Seq(Byte) /\ Len(data) = n
    <3>1. offset + 1 \in Int /\ offset + n \in Int
      OBVIOUS
    <3>2. /\ data \in Seq(Byte)
          /\ Len(data) = IF offset + 1 <= offset + n THEN (offset + n) - (offset + 1) + 1 ELSE 0
      BY <1>1, <2>1, <3>1, SubSeqProperties
    <3>. QED
      BY <3>2
  <2>3. ASSUME NEW k \in 1..n PROVE data[k] = Contents[i][offset + k]
    BY <1>1
  <2>. QED
    BY Zenon, <2>2, <2>3
<1>. QED
  BY Zenon, <1>1, <1>2 DEF Part

(* A part and the part behind it make one part.                            *)
LEMMA PartsJoin ==
    ASSUME NEW i, NEW d, NEW e, Part(i, 0, d), Part(i, Len(d), e)
    PROVE  Part(i, 0, d \o e) /\ Len(d \o e) = Len(d) + Len(e)
<1>1. /\ i \in Index /\ d \in Seq(Byte) /\ e \in Seq(Byte)
      /\ Len(d) \in Nat /\ Len(e) \in Nat /\ Len(Contents[i]) \in Nat
      /\ Len(d) + Len(e) <= Len(Contents[i])
  BY Zenon, ContentsType, LenProperties DEF Part
<1>2. /\ d \o e \in Seq(Byte) /\ Len(d \o e) = Len(d) + Len(e)
      /\ \A k \in 1 .. Len(d) + Len(e) :
           (d \o e)[k] = IF k <= Len(d) THEN d[k] ELSE e[k - Len(d)]
  BY Zenon, <1>1, ConcatProperties
<1>3. ASSUME NEW k \in 1 .. Len(d) + Len(e) PROVE (d \o e)[k] = Contents[i][k]
  <2>1. CASE k <= Len(d)
    <3>1. k \in 1..Len(d)
      BY <1>1, <2>1
    <3>. QED
      BY <1>2, <2>1, <3>1 DEF Part
  <2>2. CASE k > Len(d)
    <3>. DEFINE j == k - Len(d)
    <3>1. j \in 1..Len(e) /\ k = Len(d) + j /\ ~(k <= Len(d))
      BY <1>1, <2>2
    <3>2. (d \o e)[k] = e[j]
      BY Zenon, <1>2, <3>1
    <3>. HIDE DEF j
    <3>. QED
      BY Zenon, <3>1, <3>2 DEF Part
  <2>. QED
    BY <1>1, <2>1, <2>2
<1>4. 0 + Len(d \o e) <= Len(Contents[i])
  BY <1>1, <1>2
<1>. HIDE DEF Part
<1>5. \A k \in 1 .. Len(d \o e) : (d \o e)[k] = Contents[i][0 + k]
  BY <1>1, <1>2, <1>3
<1>. QED
  BY Zenon, <1>1, <1>2, <1>4, <1>5 DEF Part

(* A part as long as the snapshot is the snapshot.                         *)
LEMMA WholePart ==
    ASSUME NEW i, NEW d, Part(i, 0, d), Len(d) = Len(Contents[i])
    PROVE  d = Contents[i]
<1>1. d \in Seq(Byte) /\ Contents[i] \in Seq(Byte) /\ Len(d) \in Nat
  BY Zenon, ContentsType, LenProperties DEF Part
<1>2. \A k \in 1..Len(d) : d[k] = Contents[i][k]
  BY <1>1 DEF Part
<1>. QED
  BY Zenon, <1>1, <1>2, SeqEqual

(* An empty receive buffer holds the beginning of any snapshot.            *)
LEMMA EmptyPart ==
    ASSUME NEW i \in Index
    PROVE  Part(i, 0, <<>>)
<1>1. Len(Contents[i]) \in Nat
  BY Zenon, ContentsType
<1>. QED
  BY <1>1 DEF Part

-----------------------------------------------------------------------------
(* The follower's handler.                                                 *)

(* The range of each field of the follower.                                *)
LEMMA FollowerFields ==
    ASSUME NEW f \in FollowerState
    PROVE  /\ f.term \in 0..MaxTerm /\ f.applied \in 0..MaxIndex /\ f.commit \in 0..MaxIndex
           /\ f.inflight \in BOOLEAN /\ f.receive \in Receiving /\ f.installed \in Receiving
           /\ f.receive.index \in 0..MaxIndex /\ f.receive.data \in Seq(Byte)
  BY Zenon DEF FollowerState, Receiving

(* A reset receive buffer is well typed.                                   *)
LEMMA NoReceiveType == NoReceive \in Receiving /\ NoReceive.index = 0
  BY Constants DEF NoReceive, Receiving

(* Forgetting what was assembled.                                          *)
LEMMA Forgets ==
    ASSUME NEW f, FollowerOK(f)
    PROVE  FollowerOK([f EXCEPT !.receive = NoReceive])
<1>. DEFINE g == [f EXCEPT !.receive = NoReceive]
<1>1. f \in FollowerState
  BY Zenon DEF FollowerOK
<1>2. /\ g \in FollowerState /\ g.receive = NoReceive /\ g.installed = f.installed
      /\ g.applied = f.applied
  BY Zenon, <1>1, NoReceiveType DEF FollowerState
<1>. QED
  BY <1>2, NoReceiveType DEF FollowerOK

(* BecomeFollower for a higher term keeps the follower's invariant and     *)
(* what it has applied.                                                    *)
LEMMA ObserveOK ==
    ASSUME NEW f, FollowerOK(f), NEW term \in 0..MaxTerm, NEW g, g = Observe(f, term)
    PROVE  FollowerOK(g) /\ g.applied = f.applied /\ g.term >= term /\ g.inflight = f.inflight
<1>1. f \in FollowerState /\ f.term \in 0..MaxTerm /\ MaxTerm \in Nat
  BY Zenon, FollowerFields, Constants DEF FollowerOK
<1>2. CASE term > f.term
  <2>1. g = [f EXCEPT !.term = term, !.receive = NoReceive]
    BY Zenon, <1>2 DEF Observe
  <2>2. /\ g \in FollowerState /\ g.receive = NoReceive /\ g.installed = f.installed
        /\ g.applied = f.applied /\ g.term = term /\ g.inflight = f.inflight
    BY Zenon, <1>1, <2>1, NoReceiveType DEF FollowerState
  <2>. QED
    BY <1>1, <2>2, NoReceiveType DEF FollowerOK
<1>3. CASE ~(term > f.term)
  <2>1. g = f
    BY Zenon, <1>3 DEF Observe
  <2>. QED
    BY <1>1, <1>3, <2>1
<1>. QED
  BY Zenon, <1>2, <1>3

(* The range of each field of a chunk in transit.                          *)
LEMMA RequestFields ==
    ASSUME NEW m, MessageOK(m), m.type = "InstallSnapshot"
    PROVE  /\ m \in Request /\ m.term \in 1..MaxTerm /\ m.leader \in Sender /\ m.id \in Nat
           /\ m.index \in Index /\ m.offset \in Nat /\ m.data \in Seq(Byte)
           /\ m.done \in BOOLEAN
<1>1. m \in Request
  BY Zenon DEF MessageOK, Response
<1>. QED
  BY Zenon, <1>1 DEF Request

(* The range of each field of an answer in transit.                        *)
LEMMA ResponseFields ==
    ASSUME NEW m, MessageOK(m), m.type = "InstallSnapshotResponse"
    PROVE  /\ m \in Response /\ m.term \in 0..MaxTerm /\ m.leader \in Sender /\ m.id \in Nat
           /\ m.success \in BOOLEAN /\ m.complete \in BOOLEAN
<1>1. m \in Response
  BY Zenon DEF MessageOK, Request
<1>. QED
  BY Zenon, <1>1 DEF Response

(* What HandleInstallSnapshot may do: nothing of the state machine is      *)
(* lost, and "complete" is said of applied snapshots only.                 *)
Handled(f, m, a) ==
    /\ FollowerOK(a.f) /\ a.f.applied >= f.applied
    /\ a.success \in BOOLEAN /\ a.complete \in BOOLEAN
    /\ a.complete => a.f.term = m.term /\ a.f.applied >= m.index

(* A chunk that is not yet covered is refused, kept as the continuation of *)
(* what was received, or completes the snapshot: the answer is true in     *)
(* each case.                                                              *)
LEMMA AssembleChunkOK ==
    ASSUME NEW f, FollowerOK(f), NEW m, MessageOK(m), m.type = "InstallSnapshot",
           m.term = f.term, m.index > f.applied
    PROVE  Handled(f, m, AssembleChunk(f, m))
<1>. DEFINE g == IF m.offset = 0
                 THEN [f EXCEPT !.receive = [index |-> m.index, data |-> <<>>]] ELSE f
            data == g.receive.data \o m.data
            a == AssembleChunk(f, m)
<1>1. /\ f \in FollowerState /\ f.applied \in 0..MaxIndex /\ MaxIndex \in Nat
      /\ m.index \in Index /\ m.index \in 0..MaxIndex /\ m.offset \in Nat
      /\ m.data \in Seq(Byte) /\ f.commit \in 0..MaxIndex
  BY FollowerFields, RequestFields, Constants DEF FollowerOK, Index
<1>2. /\ g \in FollowerState /\ g.installed = f.installed /\ g.applied = f.applied
      /\ g.term = f.term /\ g.inflight = f.inflight /\ g.commit = f.commit
      /\ g.receive.index > 0 => Part(g.receive.index, 0, g.receive.data)
  <2>1. CASE m.offset = 0
    <3>. DEFINE b == [f EXCEPT !.receive = [index |-> m.index, data |-> <<>>]]
    <3>1. <<>> \in Seq(Byte)
      OBVIOUS
    <3>2. /\ b \in FollowerState /\ b.receive.index = m.index /\ b.receive.data = <<>>
          /\ b.installed = f.installed /\ b.applied = f.applied /\ b.term = f.term
          /\ b.inflight = f.inflight /\ b.commit = f.commit
      BY Zenon, <1>1, <3>1 DEF FollowerState, Receiving
    <3>3. g = b
      BY Zenon, <2>1
    <3>4. Part(m.index, 0, <<>>)
      BY Zenon, <1>1, EmptyPart
    <3>. HIDE DEF b, g
    <3>. QED
      BY Zenon, <3>2, <3>3, <3>4
  <2>2. CASE m.offset # 0
    BY Zenon, <1>1, <2>2 DEF FollowerOK
  <2>. QED
    BY Zenon, <2>1, <2>2
<1>3. FollowerOK(g)
  BY Zenon, <1>2 DEF FollowerOK
<1>4. a = IF ~Continues(g, m)
          THEN [f |-> [f EXCEPT !.receive = NoReceive], success |-> FALSE, complete |-> FALSE]
          ELSE IF ~m.done
          THEN [f |-> [g EXCEPT !.receive.data = data], success |-> TRUE, complete |-> FALSE]
          ELSE [f |-> [g EXCEPT !.installed = [index |-> m.index, data |-> data],
                                !.applied = m.index, !.commit = Larger(@, m.index),
                                !.receive = NoReceive],
                success |-> TRUE, complete |-> TRUE]
  BY Zenon DEF AssembleChunk
<1>. HIDE DEF g, a
<1>5. CASE ~Continues(g, m)
  <2>. DEFINE h == [f EXCEPT !.receive = NoReceive]
  <2>1. a = [f |-> h, success |-> FALSE, complete |-> FALSE]
    BY Zenon, <1>4, <1>5
  <2>2. h.applied = f.applied
    BY Zenon, <1>1 DEF FollowerState
  <2>3. FollowerOK(h)
    BY Zenon, Forgets
  <2>. HIDE DEF h
  <2>4. Handled(f, m, a)
    BY <1>1, <2>1, <2>2, <2>3 DEF Handled
  <2>. QED
    BY Zenon, <2>4 DEF a
<1>6. CASE Continues(g, m)
  <2>1. g.receive.index = m.index /\ m.offset = Len(g.receive.data)
    BY Zenon, <1>6 DEF Continues
  <2>2. Part(m.index, 0, g.receive.data) /\ Part(m.index, Len(g.receive.data), m.data)
    <3>1. g.receive.index > 0
      BY <1>1, <2>1
    <3>2. Part(m.index, m.offset, m.data)
      BY Zenon DEF MessageOK
    <3>. QED
      BY Zenon, <1>2, <2>1, <3>1, <3>2
  <2>3. Part(m.index, 0, data) /\ Len(data) = Len(g.receive.data) + Len(m.data)
    BY <2>2, PartsJoin
  <2>4. data \in Seq(Byte)
    BY Zenon, <2>3 DEF Part
  <2>. HIDE DEF data
  <2>5. CASE ~m.done
    <3>. DEFINE h == [g EXCEPT !.receive.data = data]
    <3>1. a = [f |-> h, success |-> TRUE, complete |-> FALSE]
      BY Zenon, <1>4, <1>6, <2>5
    <3>2. /\ h \in FollowerState /\ h.receive.index = m.index /\ h.receive.data = data
          /\ h.installed = g.installed /\ h.applied = g.applied
      BY Zenon, <1>2, <2>1, <2>4 DEF FollowerState, Receiving
    <3>. HIDE DEF h
    <3>3. FollowerOK(h)
      BY Zenon, <1>3, <2>3, <3>2 DEF FollowerOK
    <3>4. Handled(f, m, a)
      BY <1>1, <1>2, <3>1, <3>2, <3>3 DEF Handled
    <3>. QED
      BY Zenon, <3>4 DEF a
  <2>6. CASE m.done
    <3>. DEFINE commit == Larger(g.commit, m.index)
                h == [g EXCEPT !.installed = [index |-> m.index, data |-> data],
                               !.applied = m.index, !.commit = commit,
                               !.receive = NoReceive]
    <3>1. a = [f |-> h, success |-> TRUE, complete |-> TRUE]
      BY Zenon, <1>4, <1>6, <2>6
    <3>2. data = Contents[m.index]
      <4>1. Len(data) = Len(Contents[m.index])
        BY Zenon, <2>1, <2>3, <2>6 DEF MessageOK
      <4>. QED
        BY Zenon, <2>3, <4>1, WholePart
    <3>3. commit \in 0..MaxIndex
      BY Zenon, <1>1, <1>2 DEF Larger
    <3>. HIDE DEF commit
    <3>4. /\ h \in FollowerState /\ h.receive = NoReceive /\ h.applied = m.index
          /\ h.installed.index = m.index /\ h.installed.data = data /\ h.term = g.term
      BY Zenon, <1>1, <1>2, <2>4, <3>3, NoReceiveType DEF FollowerState, Receiving
    <3>. HIDE DEF h
    <3>5. FollowerOK(h)
      BY <1>1, <3>2, <3>4, NoReceiveType DEF FollowerOK
    <3>6. Handled(f, m, a)
      BY <1>1, <1>2, <3>1, <3>4, <3>5 DEF Handled
    <3>. QED
      BY Zenon, <3>6 DEF a
  <2>. QED
    BY Zenon, <2>5, <2>6
<1>. QED
  BY Zenon, <1>5, <1>6

(* HandleInstallSnapshot answers truthfully on each of its early returns   *)
(* too.                                                                    *)
LEMMA AcceptOK ==
    ASSUME NEW f, FollowerOK(f), NEW m, MessageOK(m), m.type = "InstallSnapshot",
           m.term <= f.term
    PROVE  Handled(f, m, Accept(f, m))
<1>. DEFINE a == Accept(f, m)
            g == [f EXCEPT !.receive = NoReceive]
<1>1. /\ f \in FollowerState /\ f.applied \in 0..MaxIndex /\ f.term \in 0..MaxTerm
      /\ m.index \in Index /\ m.term \in 1..MaxTerm /\ MaxIndex \in Nat /\ MaxTerm \in Nat
      /\ m.index \in 0..MaxIndex
  BY FollowerFields, RequestFields, Constants DEF FollowerOK, Index
<1>2. FollowerOK(g) /\ g.applied = f.applied /\ g.term = f.term
  BY Zenon, <1>1, Forgets DEF FollowerState
<1>. HIDE DEF g
<1>3. CASE m.term < f.term
  <2>1. a = [f |-> f, success |-> FALSE, complete |-> FALSE]
    BY Zenon, <1>3 DEF Accept
  <2>. QED
    BY <1>1, <2>1 DEF Handled
<1>4. CASE ~(m.term < f.term) /\ f.applied >= m.index
  <2>1. a = [f |-> g, success |-> TRUE, complete |-> TRUE]
    BY Zenon, <1>4 DEF Accept, g
  <2>2. m.term = f.term
    BY <1>1, <1>4
  <2>. QED
    BY <1>1, <1>2, <1>4, <2>1, <2>2 DEF Handled
<1>5. CASE ~(m.term < f.term) /\ ~(f.applied >= m.index) /\ f.inflight
  <2>1. a = [f |-> f, success |-> FALSE, complete |-> FALSE]
    BY Zenon, <1>5 DEF Accept
  <2>. QED
    BY <1>1, <2>1 DEF Handled
<1>6. CASE ~(m.term < f.term) /\ ~(f.applied >= m.index) /\ ~f.inflight
  <2>1. a = AssembleChunk(f, m)
    BY Zenon, <1>6 DEF Accept
  <2>2. m.term = f.term /\ m.index > f.applied
    BY <1>1, <1>6
  <2>. QED
    BY Zenon, <2>1, <2>2, AssembleChunkOK
<1>. QED
  BY Zenon, <1>3, <1>4, <1>5, <1>6

-----------------------------------------------------------------------------
(* The leader's side.                                                      *)

(* The range of each field of a leader.                                    *)
LEMMA SenderFields ==
    ASSUME NEW r \in SenderState
    PROVE  /\ r.term \in 0..MaxTerm /\ r.leading \in BOOLEAN /\ r.snap \in 0..MaxIndex
           /\ r.next \in Nat /\ r.match \in 0..MaxIndex /\ r.rpc \in Nat
           /\ r.flight \in Flight /\ r.flight.id \in Nat /\ r.flight.index \in 0..MaxIndex
           /\ r.flight.offset \in Nat /\ r.flight.chunk \in Nat
           /\ r.flight.snapshot \in BOOLEAN
  BY Zenon DEF SenderState, Flight

(* r may become t while its messages are in transit.                       *)
Later(r, t) ==
    \/ t.term >= r.term /\ ~t.leading
    \/ t.term > r.term
    \/ /\ t.term = r.term /\ r.leading /\ t.rpc >= r.rpc
       /\ \/ t.flight.id = 0 \/ t.flight.id > r.rpc
          \/ t.flight.id = r.flight.id /\ t.flight.index = r.flight.index

(* What a message says stays true while its sender moves on and the        *)
(* follower applies more.                                                  *)
LEMMA ClaimsLater ==
    ASSUME NEW r \in SenderState, NEW t \in SenderState, Later(r, t),
           NEW m, MessageOK(m), NEW a \in Nat, NEW b \in Nat, b >= a, Claims(m, r, a)
    PROVE  Claims(m, t, b)
<1>1. /\ r.term \in Nat /\ t.term \in Nat /\ r.rpc \in Nat /\ t.rpc \in Nat
      /\ r.flight.id \in Nat /\ t.flight.id \in Nat
      /\ r.flight.index \in Nat /\ t.flight.index \in Nat
  BY SenderFields, Constants
<1>2. m.term \in Nat /\ m.id \in Nat
  BY Constants DEF MessageOK, Request, Response
<1>. QED
  BY <1>1, <1>2 DEF Claims, Later

(* A step of one leader.                                                   *)
LEMMA SenderStep ==
    ASSUME IndInv, NEW s \in Sender, NEW t, SenderOK(t, follower.applied),
           Later(sender[s], t), sender' = [sender EXCEPT ![s] = t],
           follower' = follower, faults' \in 0..MaxFaults,
           \A m \in net' : m \in net \/ (/\ MessageOK(m) /\ m.leader = s
                                         /\ Claims(m, t, follower.applied))
    PROVE  IndInv'
<1>1. t \in SenderState /\ sender[s] \in SenderState /\ follower.applied \in Nat
  BY FollowerFields, Constants DEF IndInv, SenderOK, FollowerOK
<1>2. sender' \in [Sender -> SenderState]
  BY Zenon, <1>1 DEF IndInv
<1>3. \A x \in Sender : sender'[x] = IF x = s THEN t ELSE sender[x]
  BY Zenon DEF IndInv
<1>4. ASSUME NEW x \in Sender PROVE SenderOK(sender'[x], follower.applied)
  BY Zenon, <1>3 DEF IndInv
<1>5. ASSUME NEW m \in net'
      PROVE  MessageOK(m) /\ Claims(m, sender'[m.leader], follower.applied)
  <2>1. CASE m \in net
    <3>1. MessageOK(m) /\ Claims(m, sender[m.leader], follower.applied)
      BY Zenon, <2>1 DEF IndInv
    <3>2. m.leader \in Sender
      BY Zenon, <3>1 DEF MessageOK, Request, Response
    <3>3. CASE m.leader = s
      BY <1>1, <1>3, <3>1, <3>2, <3>3, ClaimsLater
    <3>4. CASE m.leader # s
      BY <1>3, <3>1, <3>2, <3>4
    <3>. QED
      BY Zenon, <3>3, <3>4
  <2>2. CASE m \notin net
    BY Zenon, <1>3, <2>2
  <2>. QED
    BY Zenon, <2>1, <2>2
<1>. QED
  BY Zenon, <1>2, <1>4, <1>5 DEF IndInv

(* The flight of r is on its way within a snapshot.                        *)
Aimed(r, applied) ==
    /\ r \in SenderState /\ r.leading /\ r.term >= 1 /\ r.match <= applied
    /\ r.flight.index \in Index /\ r.flight.offset <= Len(Contents[r.flight.index])

(* t has allocated an rpc id to the chunk m.                               *)
Loaded(s, r, applied, t, m) ==
    /\ SenderOK(t, applied) /\ t.rpc = r.rpc + 1 /\ t.flight.id = r.rpc + 1
    /\ t.term = r.term /\ t.leading /\ t.match = r.match
    /\ MessageOK(m) /\ m.leader = s /\ Claims(m, t, applied)

(* A flight aimed inside its snapshot makes a chunk that is a part of it.  *)
LEMMA NextChunkOK ==
    ASSUME NEW s \in Sender, NEW applied \in Nat, NEW r, Aimed(r, applied)
    PROVE  Loaded(s, r, applied, NextChunk(r), Payload(s, NextChunk(r)))
<1>. DEFINE size == Len(Contents[r.flight.index])
            c == Smaller(ChunkBytes, size - r.flight.offset)
            t == NextChunk(r)
            m == Payload(s, t)
<1>1. /\ r \in SenderState /\ r.rpc \in Nat /\ r.flight.offset \in Nat /\ size \in Nat
      /\ r.term \in 0..MaxTerm /\ MaxTerm \in Nat /\ ChunkBytes \in Nat
      /\ r.flight.index \in Index /\ r.flight.offset <= size
  BY Zenon, SenderFields, ContentsType, Constants DEF Aimed
<1>2. c \in Nat /\ r.flight.offset + c <= size
  BY <1>1 DEF Smaller
<1>. DEFINE f == [r.flight EXCEPT !.id = r.rpc + 1, !.chunk = c]
<1>3. t = [r EXCEPT !.rpc = r.rpc + 1, !.flight = f]
  BY Zenon DEF NextChunk
<1>. HIDE DEF c, t
<1>4. r.flight \in Flight /\ r.rpc + 1 \in Nat /\ r \in SenderState
  BY <1>1, SenderFields
<1>5. /\ f \in Flight /\ f.id = r.rpc + 1 /\ f.chunk = c /\ f.index = r.flight.index
       /\ f.offset = r.flight.offset
  BY ONLY Zenon, <1>2, <1>4 DEF Flight, f
<1>. HIDE DEF f
<1>6. /\ t \in SenderState /\ t.rpc = r.rpc + 1 /\ t.flight = f /\ t.term = r.term
       /\ t.leading = r.leading /\ t.match = r.match
  BY ONLY Zenon, <1>3, <1>4, <1>5 DEF SenderState
<1>7. /\ t \in SenderState /\ t.rpc = r.rpc + 1 /\ t.flight.id = r.rpc + 1
      /\ t.flight.chunk = c /\ t.flight.index = r.flight.index
      /\ t.flight.offset = r.flight.offset /\ t.term = r.term
      /\ t.leading = r.leading /\ t.match = r.match /\ t.flight \in Flight
  BY Zenon, <1>5, <1>6
<1>8. SenderOK(t, applied)
  BY <1>1, <1>2, <1>7 DEF SenderOK, FlightOK, Aimed
<1>. DEFINE data == SubSeq(Contents[r.flight.index], r.flight.offset + 1, r.flight.offset + c)
<1>9. Part(r.flight.index, r.flight.offset, data) /\ Len(data) = c
  BY Zenon, <1>1, <1>2, SubSeqPart
<1>10. m = [type |-> "InstallSnapshot", term |-> r.term, leader |-> s, id |-> r.rpc + 1,
           index |-> r.flight.index, offset |-> r.flight.offset, data |-> data,
           done |-> (r.flight.offset + c = size)]
  BY Zenon, <1>7 DEF Payload
<1>. HIDE DEF data, size, m
<1>11. /\ m \in Request /\ m.type = "InstallSnapshot" /\ m.term = r.term /\ m.leader = s
      /\ m.id = r.rpc + 1 /\ m.index = r.flight.index /\ m.offset = r.flight.offset
      /\ m.data = data /\ m.done = (r.flight.offset + c = size)
  <2>1. data \in Seq(Byte) /\ r.term \in 1..MaxTerm
    BY <1>1, <1>9 DEF Part, Aimed
  <2>. QED
    BY <1>1, <1>10, <2>1 DEF Request
<1>12. MessageOK(m)
  BY Zenon, <1>9, <1>11 DEF MessageOK, size
<1>13. Claims(m, t, applied)
  BY <1>1, <1>7, <1>11 DEF Claims
<1>14. Loaded(s, r, applied, t, m)
  BY Zenon, <1>7, <1>8, <1>11, <1>12, <1>13 DEF Aimed, Loaded
<1>15. t = NextChunk(r) /\ m = Payload(s, t)
  BY Zenon DEF t, m
<1>. QED
  BY Zenon, <1>14, <1>15

(* SendSnapshotChunk keeps the invariant, whether the chunk leaves or not. *)
LEMMA SendSnapshotChunkInv ==
    ASSUME IndInv, NEW s \in Sender, NEW r, Aimed(r, follower.applied),
           r.term = sender[s].term, r.rpc = sender[s].rpc, sender[s].leading,
           NEW n \in SUBSET net, SendSnapshotChunk(s, r, n), follower' = follower
    PROVE  IndInv'
<1>. DEFINE t == NextChunk(r)
            m == Payload(s, t)
            z == [t EXCEPT !.flight.id = 0]
<1>1. /\ follower.applied \in Nat /\ r \in SenderState /\ r.rpc \in Nat
      /\ r.term \in Nat /\ faults \in 0..MaxFaults /\ MaxFaults \in Nat
  BY FollowerFields, SenderFields, Constants DEF IndInv, FollowerOK, Aimed
<1>2. Loaded(s, r, follower.applied, t, m)
  BY Zenon, <1>1, NextChunkOK
<1>3. \/ sender' = [sender EXCEPT ![s] = t] /\ net' = n \cup {m} /\ faults' = faults
      \/ sender' = [sender EXCEPT ![s] = z] /\ net' = n /\ faults' \in 0..MaxFaults
  BY <1>1 DEF SendSnapshotChunk, Fault
<1>. HIDE DEF t, m
<1>4. Later(sender[s], t)
  BY <1>1, <1>2 DEF Loaded, Later
<1>5. /\ SenderOK(z, follower.applied) /\ z.flight.id = 0 /\ z.term = t.term
      /\ z.leading = t.leading /\ z.rpc = t.rpc
  <2>1. t \in SenderState
    BY Zenon, <1>2 DEF Loaded, SenderOK
  <2>2. /\ z \in SenderState /\ z.flight \in Flight /\ z.flight.id = 0 /\ z.term = t.term
        /\ z.leading = t.leading /\ z.match = t.match /\ z.rpc = t.rpc /\ z.rpc \in Nat
    BY Zenon, <2>1 DEF SenderState, Flight
  <2>. HIDE DEF z
  <2>. QED
    BY <1>2, <2>2 DEF Loaded, SenderOK, FlightOK
<1>. HIDE DEF z
<1>6. Later(sender[s], z)
  BY <1>1, <1>2, <1>5 DEF Loaded, Later
<1>7. CASE sender' = [sender EXCEPT ![s] = t] /\ net' = n \cup {m} /\ faults' = faults
  <2>1. \A x \in net' : x \in net \/ (/\ MessageOK(x) /\ x.leader = s
                                      /\ Claims(x, t, follower.applied))
    BY Zenon, <1>2, <1>7 DEF Loaded
  <2>2. SenderOK(t, follower.applied) /\ faults' \in 0..MaxFaults
    BY Zenon, <1>1, <1>2, <1>7 DEF Loaded
  <2>. QED
    BY Zenon, <1>4, <1>7, <2>1, <2>2, SenderStep
<1>8. CASE sender' = [sender EXCEPT ![s] = z] /\ net' = n /\ faults' \in 0..MaxFaults
  BY Zenon, <1>5, <1>6, <1>8, SenderStep
<1>. QED
  BY Zenon, <1>3, <1>7, <1>8

(* What the invariant says of one leader.                                  *)
LEMMA SenderHas ==
    ASSUME IndInv, NEW s \in Sender
    PROVE  /\ sender[s] \in SenderState /\ SenderOK(sender[s], follower.applied)
           /\ follower.applied \in 0..MaxIndex /\ follower.applied \in Nat
           /\ faults \in 0..MaxFaults /\ MaxFaults \in Nat /\ MaxIndex \in Nat
  BY FollowerFields, Constants DEF IndInv, FollowerOK

(* A leader whose log is compacted aims at its snapshot.                   *)
LEMMA StartedOK ==
    ASSUME NEW applied \in Nat, NEW r \in SenderState, r.leading, r.term >= 1,
           r.match <= applied, Compacted(r), NEW t, t = Started(r)
    PROVE  Aimed(t, applied) /\ t.term = r.term /\ t.rpc = r.rpc
<1>. DEFINE f == [NoFlight EXCEPT !.snapshot = TRUE, !.index = r.snap]
<1>1. r.snap \in 0..MaxIndex /\ MaxIndex \in Nat /\ r.snap > 0
  BY Zenon, SenderFields, Constants DEF Compacted
<1>2. f \in Flight /\ f.index = r.snap /\ f.offset = 0
  BY Zenon, <1>1 DEF NoFlight, Flight
<1>3. t = [r EXCEPT !.flight = f]
  BY Zenon DEF Started
<1>. HIDE DEF f
<1>4. /\ t \in SenderState /\ t.leading = r.leading /\ t.term = r.term /\ t.rpc = r.rpc
      /\ t.match = r.match /\ t.flight = f
  BY ONLY <1>2, <1>3, r \in SenderState DEF SenderState
<1>5. r.snap \in Index
  BY <1>1 DEF Index
<1>6. Len(Contents[r.snap]) \in Nat
  BY Zenon, <1>5, ContentsType
<1>. QED
  BY <1>1, <1>2, <1>4, <1>5, <1>6 DEF Aimed

(* StartTransfer preserves the invariant.                                  *)
LEMMA StartTransferInv ==
    ASSUME IndInv, NEW s \in Sender, StartTransfer(s)
    PROVE  IndInv'
<1>. DEFINE r == sender[s]
            t == Started(r)
<1>1. r \in SenderState /\ SenderOK(r, follower.applied) /\ follower.applied \in Nat
  BY Zenon, SenderHas
<1>2. /\ r.leading /\ Compacted(r) /\ SendSnapshotChunk(s, t, net)
      /\ follower' = follower
  BY Zenon DEF StartTransfer
<1>3. Aimed(t, follower.applied) /\ t.term = r.term /\ t.rpc = r.rpc
  <2>1. r.term >= 1 /\ r.match <= follower.applied
    BY Zenon, <1>1, <1>2 DEF SenderOK
  <2>. QED
    BY <1>1, <1>2, <2>1, StartedOK
<1>. HIDE DEF t
<1>. QED
  BY Zenon, <1>2, <1>3, SendSnapshotChunkInv

(* Retry preserves the invariant.                                          *)
LEMMA RetryInv ==
    ASSUME IndInv, NEW s \in Sender, Retry(s)
    PROVE  IndInv'
<1>. DEFINE r == sender[s]
            f == r.flight
            m == Payload(s, r)
            data == SubSeq(Contents[f.index], f.offset + 1, f.offset + f.chunk)
<1>1. /\ r \in SenderState /\ SenderOK(r, follower.applied) /\ faults \in 0..MaxFaults
      /\ MaxFaults \in Nat
  BY Zenon, SenderHas
<1>2. /\ r.leading /\ f.id # 0 /\ net' = net \cup {m} /\ sender' = sender
      /\ follower' = follower /\ faults' \in 0..MaxFaults
  BY <1>1 DEF Retry, Fault
<1>3. /\ f.index \in Index /\ f.offset \in Nat /\ f.chunk \in Nat /\ f.id \in Nat
      /\ f.offset + f.chunk <= Len(Contents[f.index]) /\ r.term \in 1..MaxTerm
      /\ r.rpc \in Nat /\ f.id <= r.rpc
  BY <1>1, <1>2, SenderFields, Constants DEF SenderOK, FlightOK
<1>4. Part(f.index, f.offset, data) /\ Len(data) = f.chunk
  BY Zenon, <1>3, SubSeqPart
<1>5. m = [type |-> "InstallSnapshot", term |-> r.term, leader |-> s, id |-> f.id,
           index |-> f.index, offset |-> f.offset, data |-> data,
           done |-> (f.offset + f.chunk = Len(Contents[f.index]))]
  BY Zenon DEF Payload
<1>. HIDE DEF data, m
<1>6. /\ m \in Request /\ m.type = "InstallSnapshot" /\ m.term = r.term /\ m.leader = s
      /\ m.id = f.id /\ m.index = f.index /\ m.offset = f.offset /\ m.data = data
      /\ m.done = (f.offset + f.chunk = Len(Contents[f.index]))
  <2>1. data \in Seq(Byte)
    BY Zenon, <1>4 DEF Part
  <2>. QED
    BY Zenon, <1>3, <1>5, <2>1 DEF Request
<1>7. MessageOK(m)
  BY Zenon, <1>4, <1>6 DEF MessageOK
<1>8. Claims(m, r, follower.applied)
  BY <1>2, <1>3, <1>6 DEF Claims
<1>. QED
  BY Zenon, <1>2, <1>6, <1>7, <1>8 DEF IndInv

(* A leader that gives up, for whatever term it learns of.                 *)
LEMMA LeadershipEnds ==
    ASSUME IndInv, NEW s \in Sender, NEW t, t \in SenderState, ~t.leading,
           t.flight = NoFlight, t.term >= sender[s].term,
           sender' = [sender EXCEPT ![s] = t], follower' = follower,
           net' \in SUBSET net, faults' \in 0..MaxFaults
    PROVE  IndInv'
<1>1. NoFlight \in Flight /\ NoFlight.id = 0
  BY Constants DEF NoFlight, Flight
<1>2. SenderOK(t, follower.applied)
  BY <1>1, SenderFields DEF SenderOK, FlightOK
<1>3. Later(sender[s], t)
  BY Zenon DEF Later
<1>. QED
  BY Zenon, <1>2, <1>3, SenderStep

(* HandleInstallSnapshotResponse preserves the invariant.                  *)
LEMMA HandleInstallSnapshotResponseInv ==
    ASSUME IndInv, NEW m \in net, HandleInstallSnapshotResponse(m)
    PROVE  IndInv'
<1>. DEFINE s == m.leader
            r == sender[s]
            rest == net \ {m}
<1>1. MessageOK(m) /\ Claims(m, r, follower.applied) /\ m.type = "InstallSnapshotResponse"
  BY Zenon DEF IndInv, HandleInstallSnapshotResponse
<1>2. s \in Sender /\ m.term \in 0..MaxTerm /\ m.id \in Nat /\ m.complete \in BOOLEAN
  BY Zenon, <1>1, ResponseFields
<1>3. /\ r \in SenderState /\ SenderOK(r, follower.applied) /\ faults \in 0..MaxFaults
      /\ follower.applied \in 0..MaxIndex /\ MaxIndex \in Nat /\ MaxTerm \in Nat
  BY Zenon, <1>2, SenderHas, Constants
<1>4. /\ r.term \in 0..MaxTerm /\ r.rpc \in Nat /\ r.match \in 0..MaxIndex
      /\ r.flight \in Flight /\ r.flight.id \in Nat /\ r.flight.index \in 0..MaxIndex
      /\ r.flight.offset \in Nat /\ r.flight.chunk \in Nat
  BY Zenon, <1>3, SenderFields
<1>5. follower' = follower /\ rest \in SUBSET net
  BY Zenon DEF HandleInstallSnapshotResponse
<1>6. CASE /\ m.term > r.term /\ net' = rest /\ faults' = faults
           /\ sender' = [sender EXCEPT ![s] = StepDown(r, m.term)]
  <2>. DEFINE t == StepDown(r, m.term)
  <2>1. NoFlight \in Flight
    BY Constants DEF NoFlight, Flight
  <2>2. t \in SenderState /\ ~t.leading /\ t.flight = NoFlight /\ t.term = m.term
    BY Zenon, <1>2, <1>3, <2>1 DEF StepDown, SenderState
  <2>. HIDE DEF t
  <2>3. t.term >= sender[s].term
    BY <1>2, <1>3, <1>4, <1>6, <2>2
  <2>4. sender' = [sender EXCEPT ![s] = t] /\ net' \in SUBSET net /\ faults' \in 0..MaxFaults
    BY Zenon, <1>3, <1>6 DEF t
  <2>. QED
    BY Zenon, <1>2, <1>5, <2>2, <2>3, <2>4, LeadershipEnds
<1>7. CASE net' = rest /\ sender' = sender /\ faults' = faults
  BY Zenon, <1>5, <1>7 DEF IndInv
<1>8. CASE /\ m.term = r.term /\ r.leading /\ Correlated(r, m) /\ ~m.success
           /\ SendSnapshotChunk(s, Restarted(r), rest)
  <2>. DEFINE t == Restarted(r)
  <2>1. /\ t \in SenderState /\ t.leading = r.leading /\ t.term = r.term /\ t.match = r.match
        /\ t.rpc = r.rpc /\ t.flight.index = r.flight.index /\ t.flight.offset = 0
    BY Zenon, <1>3 DEF Restarted, SenderState, Flight
  <2>. HIDE DEF t
  <2>2. r.flight.index \in Index
    BY Zenon, <1>3, <1>8 DEF Correlated, SenderOK, FlightOK
  <2>3. Aimed(t, follower.applied)
    BY <1>3, <1>8, <2>1, <2>2, ContentsType DEF Aimed, SenderOK
  <2>4. SendSnapshotChunk(s, t, rest)
    BY Zenon, <1>8 DEF t
  <2>. QED
    BY Zenon, <1>2, <1>5, <1>8, <2>1, <2>3, <2>4, SendSnapshotChunkInv
<1>9. CASE /\ m.term = r.term /\ r.leading /\ Correlated(r, m) /\ ~m.complete
           /\ SendSnapshotChunk(s, Advanced(r), rest)
  <2>. DEFINE size == Len(Contents[r.flight.index])
              next == r.flight.offset + r.flight.chunk
              o == IF next >= size THEN 0 ELSE next
              t == Advanced(r)
  <2>1. r.flight.index \in Index /\ size \in Nat
    BY Zenon, <1>3, <1>9, ContentsType DEF Correlated, SenderOK, FlightOK
  <2>2. o \in Nat /\ o <= size
    <3>1. next \in Nat
      BY <1>4
    <3>. HIDE DEF next, size
    <3>. QED
      BY ONLY <2>1, <3>1 DEF o
  <2>3. t = [r EXCEPT !.flight.offset = o]
    BY Zenon DEF Advanced
  <2>. HIDE DEF o, t
  <2>4. /\ t \in SenderState /\ t.leading = r.leading /\ t.term = r.term /\ t.match = r.match
        /\ t.rpc = r.rpc /\ t.flight.index = r.flight.index /\ t.flight.offset = o
    BY ONLY Zenon, <1>3, <2>2, <2>3 DEF SenderState, Flight
  <2>5. Aimed(t, follower.applied)
    BY Zenon, <1>3, <1>9, <2>1, <2>2, <2>4 DEF Aimed, SenderOK
  <2>6. SendSnapshotChunk(s, t, rest)
    BY Zenon, <1>9 DEF t
  <2>. QED
    BY Zenon, <1>2, <1>5, <1>9, <2>4, <2>5, <2>6, SendSnapshotChunkInv
<1>. DEFINE z == Completed(r)
<1>10. ASSUME m.term = r.term, r.leading, Correlated(r, m), m.complete
       PROVE  /\ z \in SenderState /\ z.term = r.term /\ z.leading /\ z.rpc = r.rpc
              /\ z.flight.id = 0 /\ SenderOK(z, follower.applied)
  <2>. DEFINE k == Larger(r.match, r.flight.index)
  <2>1. r.flight.index <= follower.applied /\ r.match <= follower.applied
    BY Zenon, <1>1, <1>3, <1>10 DEF Claims, Correlated, SenderOK
  <2>2. k \in 0..MaxIndex /\ k <= follower.applied /\ k + 1 \in Nat
    BY <1>3, <1>4, <2>1 DEF Larger
  <2>3. NoFlight \in Flight /\ NoFlight.id = 0
    BY Constants DEF NoFlight, Flight
  <2>4. z = [r EXCEPT !.flight = NoFlight, !.match = k, !.next = k + 1]
    BY Zenon DEF Completed
  <2>. HIDE DEF k, z
  <2>5. /\ z \in SenderState /\ z.flight = NoFlight /\ z.match = k /\ z.term = r.term
        /\ z.leading = r.leading /\ z.rpc = r.rpc
    BY ONLY Zenon, <1>3, <2>2, <2>3, <2>4 DEF SenderState
  <2>6. SenderOK(z, follower.applied)
    BY <1>3, <1>4, <1>10, <2>2, <2>3, <2>5 DEF SenderOK, FlightOK
  <2>. QED
    BY Zenon, <1>10, <2>3, <2>5, <2>6
<1>. HIDE DEF z
<1>11. CASE /\ m.term = r.term /\ r.leading /\ Correlated(r, m) /\ m.complete
            /\ Compacted(z) /\ SendSnapshotChunk(s, Started(z), rest)
  <2>. DEFINE t == Started(z)
  <2>1. /\ z \in SenderState /\ z.leading /\ z.term >= 1 /\ z.match <= follower.applied
        /\ z.term = r.term /\ z.rpc = r.rpc /\ follower.applied \in Nat
    BY <1>3, <1>10, <1>11 DEF SenderOK
  <2>2. Aimed(t, follower.applied) /\ t.term = r.term /\ t.rpc = r.rpc
    BY Zenon, <1>11, <2>1, StartedOK
  <2>3. SendSnapshotChunk(s, t, rest)
    BY Zenon, <1>11
  <2>. HIDE DEF t
  <2>. QED
    BY Zenon, <1>2, <1>5, <1>11, <2>2, <2>3, SendSnapshotChunkInv
<1>12. CASE /\ m.term = r.term /\ r.leading /\ Correlated(r, m) /\ m.complete
            /\ sender' = [sender EXCEPT ![s] = z]
            /\ net' = rest /\ faults' = faults
  <2>1. Later(r, z)
    BY <1>4, <1>10, <1>12 DEF Later
  <2>2. faults' \in 0..MaxFaults /\ \A x \in net' : x \in net
    BY Zenon, <1>3, <1>5, <1>12
  <2>. QED
    BY Zenon, <1>2, <1>5, <1>10, <1>12, <2>1, <2>2, SenderStep
<1>. QED
  BY Zenon, <1>6, <1>7, <1>8, <1>9, <1>11, <1>12 DEF HandleInstallSnapshotResponse, z

(* MaybeSnapshot preserves the invariant.                                  *)
LEMMA MaybeSnapshotInv ==
    ASSUME IndInv, NEW s \in Sender, NEW i \in Index, MaybeSnapshot(s, i)
    PROVE  IndInv'
<1>. DEFINE r == sender[s]
            t == [r EXCEPT !.snap = i]
<1>1. r \in SenderState /\ SenderOK(r, follower.applied) /\ i \in 0..MaxIndex
  BY SenderHas, Constants DEF Index
<1>2. /\ t \in SenderState /\ t.flight = r.flight /\ t.term = r.term /\ t.rpc = r.rpc
      /\ t.leading = r.leading /\ t.match = r.match
  BY Zenon, <1>1 DEF SenderState
<1>3. /\ sender' = [sender EXCEPT ![s] = t] /\ follower' = follower /\ net' = net
      /\ faults' = faults /\ r.leading
  BY Zenon DEF MaybeSnapshot, IndInv
<1>. HIDE DEF t
<1>4. SenderOK(t, follower.applied)
  BY Zenon, <1>1, <1>2 DEF SenderOK
<1>5. Later(r, t)
  BY <1>1, <1>2, <1>3, SenderFields DEF Later
<1>. QED
  BY Zenon, <1>3, <1>4, <1>5, SenderStep DEF IndInv

(* BecomeLeader preserves the invariant.                                   *)
LEMMA BecomeLeaderInv ==
    ASSUME IndInv, NEW s \in Sender, NEW term \in 1..MaxTerm, BecomeLeader(s, term)
    PROVE  IndInv'
<1>. DEFINE r == sender[s]
            t == [r EXCEPT !.term = term, !.leading = TRUE, !.next = 1, !.match = 0,
                           !.flight = NoFlight]
<1>1. r \in SenderState /\ follower.applied \in Nat /\ MaxTerm \in Nat /\ MaxIndex \in Nat
  BY Zenon, SenderHas, Constants
<1>2. NoFlight \in Flight /\ NoFlight.id = 0
  BY Constants DEF NoFlight, Flight
<1>3. /\ t \in SenderState /\ t.flight = NoFlight /\ t.term = term /\ t.rpc = r.rpc
      /\ t.leading /\ t.match = 0 /\ r.rpc \in Nat /\ r.term \in Nat
  <2>1. term \in 0..MaxTerm /\ 0 \in 0..MaxIndex /\ 1 \in Nat
    BY <1>1
  <2>2. r.rpc \in Nat /\ r.term \in Nat
    BY <1>1, SenderFields
  <2>. QED
    BY ONLY Zenon, <1>1, <1>2, <2>1, <2>2 DEF SenderState
<1>4. /\ sender' = [sender EXCEPT ![s] = t] /\ follower' = follower /\ net' = net
      /\ faults' = faults /\ r.term < term
  BY Zenon DEF BecomeLeader, IndInv
<1>. HIDE DEF t
<1>5. SenderOK(t, follower.applied)
  BY <1>1, <1>2, <1>3 DEF SenderOK, FlightOK
<1>6. Later(r, t)
  BY Zenon, <1>1, <1>3, <1>4 DEF Later
<1>. QED
  BY Zenon, <1>4, <1>5, <1>6, SenderStep DEF IndInv

(* RestartSender preserves the invariant.                                  *)
LEMMA RestartSenderInv ==
    ASSUME IndInv, NEW s \in Sender, RestartSender(s)
    PROVE  IndInv'
<1>. DEFINE r == sender[s]
            t == [r EXCEPT !.leading = FALSE, !.flight = NoFlight, !.rpc = 0]
<1>1. /\ r \in SenderState /\ r.term \in Nat /\ faults \in 0..MaxFaults /\ MaxFaults \in Nat
  BY SenderHas, SenderFields, Constants
<1>2. NoFlight \in Flight
  BY Constants DEF NoFlight, Flight
<1>3. t \in SenderState /\ ~t.leading /\ t.flight = NoFlight /\ t.term = r.term
  BY Zenon, <1>1, <1>2 DEF SenderState
<1>4. follower' = follower /\ net' \in SUBSET net /\ faults' \in 0..MaxFaults
  BY <1>1 DEF RestartSender, Fault
<1>5. sender' = [sender EXCEPT ![s] = t]
  BY Zenon DEF RestartSender, IndInv
<1>. HIDE DEF t
<1>6. t.term >= sender[s].term
  BY <1>1, <1>3
<1>. QED
  BY Zenon, <1>3, <1>4, <1>5, <1>6, LeadershipEnds

-----------------------------------------------------------------------------
(* Steps of the follower.                                                  *)

(* A step of the follower preserves the invariant if it keeps the          *)
(* follower's own part, applies no less, and sends only what is true.      *)
LEMMA FollowerStep ==
    ASSUME IndInv, NEW g, FollowerOK(g), g.applied >= follower.applied,
           follower' = g, sender' = sender, faults' \in 0..MaxFaults,
           \A m \in net' : m \in net \/ (/\ MessageOK(m)
                                         /\ Claims(m, sender[m.leader], g.applied))
    PROVE  IndInv'
<1>1. g.applied \in Nat /\ follower.applied \in Nat
  BY FollowerFields, Constants DEF IndInv, FollowerOK
<1>2. ASSUME NEW s \in Sender PROVE SenderOK(sender[s], g.applied)
  <2>1. sender[s] \in SenderState /\ SenderOK(sender[s], follower.applied)
    BY Zenon DEF IndInv
  <2>2. sender[s].match \in Nat
    BY <2>1, SenderFields, Constants
  <2>. QED
    BY <1>1, <2>1, <2>2 DEF SenderOK
<1>3. ASSUME NEW m \in net'
      PROVE  MessageOK(m) /\ Claims(m, sender[m.leader], g.applied)
  <2>1. CASE m \in net
    <3>1. MessageOK(m) /\ Claims(m, sender[m.leader], follower.applied)
      BY Zenon, <2>1 DEF IndInv
    <3>2. sender[m.leader] \in SenderState
      BY Zenon, <3>1 DEF IndInv, MessageOK, Request, Response
    <3>3. sender[m.leader].flight.index \in Nat
      BY <3>2, SenderFields, Constants
    <3>. QED
      BY <1>1, <3>1, <3>3 DEF Claims
  <2>2. CASE m \notin net
    BY Zenon, <2>2
  <2>. QED
    BY Zenon, <2>1, <2>2
<1>. QED
  BY Zenon, <1>2, <1>3 DEF IndInv

(* HandleInstallSnapshot preserves the invariant.                          *)
LEMMA HandleInstallSnapshotInv ==
    ASSUME IndInv, NEW m \in net, HandleInstallSnapshot(m)
    PROVE  IndInv'
<1>. DEFINE o == Observe(follower, m.term)
            a == Accept(o, m)
            p == [type |-> "InstallSnapshotResponse", term |-> a.f.term, leader |-> m.leader,
                  id |-> m.id, success |-> a.success, complete |-> a.complete]
            r == sender[m.leader]
<1>1. MessageOK(m) /\ Claims(m, r, follower.applied) /\ m.type = "InstallSnapshot"
  BY Zenon DEF IndInv, HandleInstallSnapshot
<1>2. /\ m.term \in 1..MaxTerm /\ m.leader \in Sender /\ m.id \in Nat /\ m.index \in Index
      /\ MaxTerm \in Nat /\ MaxIndex \in Nat /\ FollowerOK(follower)
      /\ faults \in 0..MaxFaults /\ MaxFaults \in Nat
  BY Zenon, <1>1, RequestFields, Constants DEF IndInv
<1>3. FollowerOK(o) /\ o.applied = follower.applied /\ o.term >= m.term
  <2>1. m.term \in 0..MaxTerm
    BY <1>2
  <2>. QED
    BY Zenon, <1>2, <2>1, ObserveOK
<1>4. /\ follower' = a.f /\ net' = (net \ {m}) \cup {p} /\ sender' = sender
      /\ faults' \in 0..MaxFaults
  BY <1>2 DEF HandleInstallSnapshot, Fault
<1>. HIDE DEF o
<1>5. Handled(o, m, a)
  BY Zenon, <1>1, <1>3, AcceptOK
<1>. HIDE DEF a
<1>6. /\ FollowerOK(a.f) /\ a.f.applied >= follower.applied /\ a.success \in BOOLEAN
      /\ a.complete \in BOOLEAN
      /\ a.complete => a.f.term = m.term /\ a.f.applied >= m.index
  BY Zenon, <1>3, <1>5 DEF Handled
<1>7. a.f.term \in 0..MaxTerm /\ a.f.applied \in Nat
  BY <1>6, FollowerFields, Constants DEF FollowerOK
<1>8. /\ p \in Response /\ p.type = "InstallSnapshotResponse" /\ p.term = a.f.term
      /\ p.leader = m.leader /\ p.id = m.id /\ p.complete = a.complete
  BY Zenon, <1>2, <1>6, <1>7 DEF Response
<1>. HIDE DEF p
<1>9. MessageOK(p)
  BY Zenon, <1>8 DEF MessageOK
<1>10. Claims(p, sender[p.leader], a.f.applied)
  <2>1. r \in SenderState /\ r.flight.index \in Nat
    BY <1>2, SenderHas, SenderFields
  <2>. QED
    BY Zenon, <1>1, <1>2, <1>6, <1>7, <1>8, <2>1 DEF Claims, Index
<1>. QED
  BY Zenon, <1>4, <1>6, <1>9, <1>10, FollowerStep

(* The other steps of the follower keep or drop what it has assembled.     *)
LEMMA FollowerLocal ==
    ASSUME IndInv, NEW g, FollowerOK(g), g.applied >= follower.applied,
           follower' = g, sender' = sender, net' \in SUBSET net, faults' \in 0..MaxFaults
    PROVE  IndInv'
  BY Zenon, FollowerStep

(* ObserveTerm preserves the invariant.                                    *)
LEMMA ObserveTermInv ==
    ASSUME IndInv, NEW s \in Sender, ObserveTerm(s)
    PROVE  IndInv'
<1>. DEFINE term == sender[s].term
            g == Observe(follower, term)
<1>1. term \in 0..MaxTerm /\ FollowerOK(follower) /\ follower.applied \in Nat
  BY Zenon, SenderHas, SenderFields DEF IndInv
<1>2. FollowerOK(g) /\ g.applied = follower.applied
  BY Zenon, <1>1, ObserveOK
<1>3. follower' = g /\ sender' = sender /\ net' = net /\ faults' = faults
  BY Zenon DEF ObserveTerm
<1>. HIDE DEF g
<1>. QED
  BY Zenon, <1>1, <1>2, <1>3, FollowerLocal DEF IndInv

(* ApplyCommitted preserves the invariant.                                 *)
LEMMA ApplyCommittedInv ==
    ASSUME IndInv, ApplyCommitted
    PROVE  IndInv'
<1>. DEFINE g == [follower EXCEPT !.inflight = TRUE]
<1>1. FollowerOK(follower) /\ follower \in FollowerState /\ follower.applied \in Nat
  BY FollowerFields, Constants DEF IndInv, FollowerOK
<1>2. /\ g \in FollowerState /\ g.applied = follower.applied /\ g.receive = follower.receive
      /\ g.installed = follower.installed
  BY Zenon, <1>1 DEF FollowerState
<1>3. follower' = g /\ sender' = sender /\ net' = net /\ faults' = faults
  BY Zenon DEF ApplyCommitted
<1>. HIDE DEF g
<1>4. FollowerOK(g) /\ g.applied >= follower.applied
  BY <1>1, <1>2 DEF FollowerOK
<1>. QED
  BY Zenon, <1>3, <1>4, FollowerLocal DEF IndInv

(* FinishApply preserves the invariant.                                    *)
LEMMA FinishApplyInv ==
    ASSUME IndInv, FinishApply
    PROVE  IndInv'
<1>1. /\ FollowerOK(follower) /\ follower \in FollowerState
      /\ follower.applied \in 0..MaxIndex /\ follower.commit \in 0..MaxIndex
      /\ MaxIndex \in Nat /\ follower.installed \in Receiving
  BY Zenon, FollowerFields, Constants DEF IndInv, FollowerOK
<1>2. PICK i \in follower.applied + 1 .. follower.commit :
          follower' = [follower EXCEPT !.inflight = FALSE, !.applied = i]
  BY Zenon DEF FinishApply
<1>3. i \in 0..MaxIndex /\ i >= follower.applied
  BY <1>1
<1>. DEFINE g == [follower EXCEPT !.inflight = FALSE, !.applied = i]
<1>4. /\ g \in FollowerState /\ g.applied = i /\ g.receive = follower.receive
      /\ g.installed = follower.installed
  BY Zenon, <1>1, <1>3 DEF FollowerState
<1>5. follower' = g /\ sender' = sender /\ net' = net /\ faults' = faults
  BY Zenon, <1>2 DEF FinishApply
<1>. HIDE DEF g
<1>6. FollowerOK(g)
  <2>1. follower.installed.index \in Nat
    BY <1>1, Constants DEF Receiving
  <2>. QED
    BY <1>1, <1>3, <1>4, <2>1 DEF FollowerOK
<1>. QED
  BY Zenon, <1>3, <1>4, <1>5, <1>6, FollowerLocal DEF IndInv

(* RestartFollower preserves the invariant.                                *)
LEMMA RestartFollowerInv ==
    ASSUME IndInv, RestartFollower
    PROVE  IndInv'
<1>. DEFINE g == [follower EXCEPT !.inflight = FALSE, !.receive = NoReceive,
                                  !.commit = follower.applied]
<1>1. /\ FollowerOK(follower) /\ follower \in FollowerState
      /\ follower.applied \in 0..MaxIndex /\ MaxIndex \in Nat
      /\ faults \in 0..MaxFaults /\ MaxFaults \in Nat
  BY Zenon, FollowerFields, Constants DEF IndInv, FollowerOK
<1>2. /\ g \in FollowerState /\ g.applied = follower.applied /\ g.receive = NoReceive
      /\ g.installed = follower.installed
  BY Zenon, <1>1, NoReceiveType DEF FollowerState
<1>3. follower' = g /\ sender' = sender /\ net' = net /\ faults' \in 0..MaxFaults
  BY <1>1 DEF RestartFollower, Fault
<1>. HIDE DEF g
<1>4. FollowerOK(g) /\ g.applied >= follower.applied
  BY <1>1, <1>2, NoReceiveType DEF FollowerOK
<1>. QED
  BY Zenon, <1>3, <1>4, FollowerLocal

(* Lose preserves the invariant.                                           *)
LEMMA LoseInv ==
    ASSUME IndInv, NEW m \in net, Lose(m)
    PROVE  IndInv'
<1>1. follower' = follower /\ sender' = sender /\ net' \in SUBSET net
  BY Zenon DEF Lose
<1>2. faults' \in 0..MaxFaults
  BY Constants DEF Lose, Fault, IndInv
<1>. QED
  BY Zenon, <1>1, <1>2 DEF IndInv

-----------------------------------------------------------------------------
(* Theorems.                                                               *)

(* The invariant holds initially.                                          *)
LEMMA InitInv == Init => IndInv
<1>. SUFFICES ASSUME Init PROVE IndInv
  BY Zenon
<1>. DEFINE r == [term |-> 0, leading |-> FALSE, snap |-> 1, next |-> 1, match |-> 0,
                  rpc |-> 0, flight |-> NoFlight]
<1>1. NoFlight \in Flight /\ NoFlight.id = 0
  BY Constants DEF NoFlight, Flight
<1>2. /\ r \in SenderState /\ r.flight = NoFlight /\ ~r.leading /\ r.rpc = 0
  BY <1>1, Constants DEF SenderState
<1>3. sender = [s \in Sender |-> r]
  BY Zenon DEF Init
<1>. HIDE DEF r
<1>4. \A s \in Sender : sender[s] = r
  BY Zenon, <1>3
<1>5. SenderOK(r, follower.applied)
  BY <1>1, <1>2 DEF SenderOK, FlightOK
<1>6. follower \in FollowerState
  BY NoReceiveType, Constants DEF Init, FollowerState
<1>7. follower.receive = NoReceive /\ follower.installed = NoReceive
  BY Zenon DEF Init
<1>8. FollowerOK(follower)
  <2>1. ~(follower.receive.index > 0) /\ ~(follower.installed.index > 0)
    BY <1>7, NoReceiveType
  <2>. QED
    BY Zenon, <1>6, <2>1 DEF FollowerOK
<1>9. sender \in [Sender -> SenderState] /\ faults \in 0..MaxFaults /\ net = {}
  <2>1. sender \in [Sender -> SenderState]
    BY Zenon, <1>2, <1>3
  <2>2. faults \in 0..MaxFaults
    BY Constants DEF Init
  <2>. QED
    BY Zenon, <2>1, <2>2 DEF Init
<1>10. \A s \in Sender : SenderOK(sender[s], follower.applied)
  BY Zenon, <1>4, <1>5
<1>11. \A m \in net : MessageOK(m) /\ Claims(m, sender[m.leader], follower.applied)
  BY Zenon, <1>9
<1>. QED
  BY ONLY <1>8, <1>9, <1>10, <1>11 DEF IndInv

(* Every step preserves the invariant.                                     *)
LEMMA NextInv == IndInv /\ [Next]_vars => IndInv'
<1>. SUFFICES ASSUME IndInv, [Next]_vars PROVE IndInv'
  BY Zenon
<1>1. ASSUME NEW s \in Sender, Tick(s) PROVE IndInv'
  BY Zenon, <1>1, StartTransferInv, RetryInv DEF Tick
<1>2. ASSUME NEW s \in Sender, Deliver(s) PROVE IndInv'
  BY Zenon, <1>2, HandleInstallSnapshotInv, HandleInstallSnapshotResponseInv DEF Deliver
<1>3. ASSUME NEW s \in Sender, NEW i \in Index, MaybeSnapshot(s, i) PROVE IndInv'
  BY Zenon, <1>3, MaybeSnapshotInv
<1>4. ASSUME NEW s \in Sender, NEW term \in 1..MaxTerm, BecomeLeader(s, term) PROVE IndInv'
  BY Zenon, <1>4, BecomeLeaderInv
<1>5. ASSUME NEW s \in Sender, RestartSender(s) PROVE IndInv'
  BY Zenon, <1>5, RestartSenderInv
<1>6. ASSUME NEW s \in Sender, ObserveTerm(s) PROVE IndInv'
  BY Zenon, <1>6, ObserveTermInv
<1>7. CASE ApplyCommitted
  BY Zenon, <1>7, ApplyCommittedInv
<1>8. CASE FinishApply
  BY Zenon, <1>8, FinishApplyInv
<1>9. CASE RestartFollower
  BY Zenon, <1>9, RestartFollowerInv
<1>10. ASSUME NEW m \in net, Lose(m) PROVE IndInv'
  BY Zenon, <1>10, LoseInv
<1>11. CASE UNCHANGED vars
  BY Zenon, <1>11 DEF IndInv, vars
<1>. QED
  BY Zenon, <1>1, <1>2, <1>3, <1>4, <1>5, <1>6, <1>7, <1>8, <1>9, <1>10, <1>11 DEF Next

(* The invariant holds in every reachable state.                           *)
LEMMA Invariance == Spec => []IndInv
  BY InitInv, NextInv, PTL DEF Spec

(* What is assembled is a beginning of one snapshot, and what replaces the *)
(* state machine is that snapshot, whole, for every interleaving of        *)
(* chunks, retries, leaders and restarts (HandleInstallSnapshot).          *)
THEOREM AlwaysInstalledWhole == Spec => []InstalledWhole
<1>1. IndInv => InstalledWhole
  <2>. SUFFICES ASSUME IndInv PROVE InstalledWhole
    BY Zenon
  <2>. DEFINE i == follower.receive.index
              d == follower.receive.data
  <2>1. FollowerOK(follower)
    BY Zenon DEF IndInv
  <2>2. ASSUME i > 0 PROVE d = SubSeq(Contents[i], 1, Len(d))
    <3>. DEFINE p == SubSeq(Contents[i], 1, Len(d))
    <3>1. Part(i, 0, d)
      BY Zenon, <2>1, <2>2 DEF FollowerOK
    <3>2. /\ i \in Index /\ d \in Seq(Byte) /\ Len(d) \in Nat /\ 0 + Len(d) <= Len(Contents[i])
          /\ \A k \in 1..Len(d) : d[k] = Contents[i][0 + k]
      BY Zenon, <3>1, LenProperties DEF Part
    <3>3. Part(i, 0, SubSeq(Contents[i], 0 + 1, 0 + Len(d)))
          /\ Len(SubSeq(Contents[i], 0 + 1, 0 + Len(d))) = Len(d)
      BY Zenon, <3>2, SubSeqPart
    <3>4. 0 + 1 = 1 /\ 0 + Len(d) = Len(d)
      BY <3>2
    <3>5. Part(i, 0, p) /\ Len(p) = Len(d)
      BY Zenon, <3>3, <3>4
    <3>. HIDE DEF p, i, d
    <3>6. p \in Seq(Byte) /\ \A k \in 1..Len(d) : p[k] = d[k]
      BY Zenon, <3>2, <3>5 DEF Part
    <3>7. p = d
      BY Zenon, <3>2, <3>5, <3>6, SeqEqual
    <3>. QED
      BY Zenon, <3>7 DEF p
  <2>. QED
    BY Zenon, <2>1, <2>2 DEF FollowerOK, InstalledWhole
<1>. QED
  BY <1>1, Invariance, PTL

(* A leader never takes the follower to hold more than it has durably      *)
(* applied: rpc ids tie a "complete" answer to the transfer in progress    *)
(* (HandleInstallSnapshotResponse).                                        *)
THEOREM AlwaysAcknowledgedIsApplied == Spec => []AcknowledgedIsApplied
<1>1. IndInv => AcknowledgedIsApplied
  BY Zenon DEF IndInv, SenderOK, AcknowledgedIsApplied
<1>. QED
  BY <1>1, Invariance, PTL

(* Every variable keeps its type.                                          *)
THEOREM TypeCorrect == Spec => []TypeOK
<1>1. IndInv => TypeOK
  BY Zenon DEF IndInv, FollowerOK, MessageOK, TypeOK
<1>. QED
  BY <1>1, Invariance, PTL
=============================================================================
