------------------------------ MODULE RaftLog ------------------------------
(***************************************************************************)
(* The durable state of one process: the Raft log database                 *)
(* (src/raftcore/raft_log.cc) and the key-value database                   *)
(* (src/storage/rocksdb_store.cpp), with a crash between any two writes.   *)
(*                                                                         *)
(* Every action makes at most one write.  A write is a synced RocksDB      *)
(* batch, so it happens entirely or not at all; a failed write stops the   *)
(* process and is a crash.  pc says which write of an operation with       *)
(* several is next: installing a snapshot, and opening after a crash.      *)
(*                                                                         *)
(* The callers in raft_node.cc are represented by what they may ask for.   *)
(* The worker thread applies a batch while the event loop goes on writing  *)
(* to the log.                                                             *)
(***************************************************************************)
EXTENDS Integers, Sequences, FiniteSets

CONSTANTS
    Command,    \* client commands
    None,       \* a key that is not in the database
    MaxIndex,   \* bound: the largest index of an entry
    MaxTerm     \* bound: the largest term

ASSUME StoreBounds == MaxIndex \in Nat /\ MaxTerm \in Nat

VARIABLES
    db,     \* the Raft log database
    kv,     \* the key-value database
    mem,    \* the fields of RaftLog and RaftNode that mirror them
    batch,  \* the commands the worker thread is applying, <<>> if idle
    pc      \* the next write, "up" between operations, "down" after a crash

vars == <<db, kv, mem, batch, pc>>

-----------------------------------------------------------------------------
Index == 1 .. MaxIndex
Term == 1 .. MaxTerm
Entry == [term : Term, cmd : Command]
Data == UNION {[1 .. n -> Command] : n \in 0 .. MaxIndex}
Snapshot == [index : Index, term : Term, data : Data]
Position == [index : 0 .. MaxIndex, term : 0 .. MaxTerm]

(* entry, tail, hardTerm, snapshot and intent are the records under        *)
(* IndexToKey(i), TailKey, IndexToKey(0), the two snapshot keys, which are *)
(* always written together, and SnapshotIntentKey.                         *)
Database ==
    [entry : [Index -> Entry \cup {None}], tail : Position \cup {None},
     hardTerm : Term \cup {None}, snapshot : Snapshot \cup {None},
     intent : Snapshot \cup {None}]

Memory ==
    [last : Position, snap : Position, currentTerm : 0 .. MaxTerm,
     lastApplied : 0 .. MaxIndex, commitIndex : 0 .. MaxIndex]

Steps == {"down", "opened", "replayed", "finalized", "up", "staged",
          "replaced", "failed"}

(* Databases, memory and the worker's batch are of their declared shape.   *)
TypeOK ==
    /\ db \in Database
    /\ kv \in [lastApplied : 0 .. MaxIndex, data : Data]
    /\ mem \in Memory
    /\ batch \in Data
    /\ pc \in Steps

-----------------------------------------------------------------------------
(* Reading the databases.                                                  *)

Zero == [index |-> 0, term |-> 0]
At(s) == [index |-> s.index, term |-> s.term]

LoadSnapshot(d) == IF d.snapshot = None THEN Zero ELSE At(d.snapshot)

Present(d) == {i \in Index : d.entry[i] # None}

(* Entries first..last exist and their terms never decrease from previous. *)
Contiguous(d, previous, first, last) ==
    \A i \in first .. last :
        /\ d.entry[i] # None
        /\ d.entry[i].term >= (IF i = first THEN previous ELSE d.entry[i - 1].term)

LoadTailValid(d) ==
    LET snap == LoadSnapshot(d)
    IN /\ d.tail.index >= snap.index
       /\ d.tail.index = snap.index => d.tail = snap
       /\ d.tail.index > snap.index =>
             d.entry[d.tail.index] # None /\ d.entry[d.tail.index].term = d.tail.term
       /\ Contiguous(d, snap.term, snap.index + 1, d.tail.index)

(* A log without a tail record is scanned and must have no gap.            *)
ScanValid(d) ==
    LET snap == LoadSnapshot(d)
        last == snap.index + Cardinality(Present(d))
    IN /\ Present(d) = snap.index + 1 .. last
       /\ Contiguous(d, snap.term, snap.index + 1, last)

Scan(d) ==
    LET last == LoadSnapshot(d).index + Cardinality(Present(d))
    IN IF Present(d) = {} THEN LoadSnapshot(d)
       ELSE [index |-> last, term |-> d.entry[last].term]

LogValid(d) == IF d.tail # None THEN LoadTailValid(d) ELSE ScanValid(d)
TailOf(d) == IF d.tail # None THEN d.tail ELSE Scan(d)

(* No hard state is accepted only with an empty log.                       *)
LoadHardState(d) == IF d.hardTerm = None THEN 0 ELSE d.hardTerm
HardStateValid(d) ==
    /\ d.hardTerm = None => TailOf(d).index = 0
    /\ LoadHardState(d) >= TailOf(d).term

LoadPendingSnapshotValid(d) ==
    d.intent # None =>
        /\ d.intent.index > LoadSnapshot(d).index
        /\ d.intent.term <= LoadHardState(d)

(* Mutant: the term of the last compacted entry is not looked up.          *)
SnapshotTermForgotten(index) ==
    IF index = 0 THEN 0
    ELSE IF index <= mem.snap.index \/ index > mem.last.index THEN -1
    ELSE db.entry[index].term

GetTerm(index) ==
    IF index = 0 THEN 0
    ELSE IF index = mem.snap.index THEN mem.snap.term
    ELSE IF index < mem.snap.index \/ index > mem.last.index THEN -1
    ELSE db.entry[index].term

-----------------------------------------------------------------------------
(* Writing to the log.                                                     *)

(* The vote is in the same record and plays no part in recovery.           *)
SaveHardState ==
    /\ pc = "up"
    /\ \E term \in mem.currentTerm + 1 .. MaxTerm :
         /\ db' = [db EXCEPT !.hardTerm = term]
         /\ mem' = [mem EXCEPT !.currentTerm = term]
    /\ UNCHANGED <<kv, batch, pc>>

(* The entries a caller may append: a leader's are of its own term, and a  *)
(* follower has checked that those of a request never decrease in term.    *)
Batches ==
    {es \in UNION {[1 .. n -> Entry] : n \in 1 .. MaxIndex - mem.last.index} :
        \A k \in DOMAIN es :
            /\ es[k].term <= mem.currentTerm
            /\ es[k].term >= (IF k = 1 THEN mem.last.term ELSE es[k - 1].term)}

AppendBatch(es) ==
    LET last == [index |-> mem.last.index + Len(es), term |-> es[Len(es)].term]
    IN /\ db' = [db EXCEPT
              !.entry = [i \in Index |->
                  IF i - mem.last.index \in DOMAIN es THEN es[i - mem.last.index]
                  ELSE db.entry[i]],
              !.tail = last]
       /\ mem' = [mem EXCEPT !.last = last]

AppendEntries ==
    /\ pc = "up"
    /\ \E es \in Batches : AppendBatch(es)
    /\ UNCHANGED <<kv, batch, pc>>

(* Mutant: the tail moves back and the entries stay.                       *)
EntriesNotDeleted(start) ==
    LET last == [index |-> start - 1, term |-> GetTerm(start - 1)]
    IN /\ db' = [db EXCEPT !.tail = last]
       /\ mem' = [mem EXCEPT !.last = last]

TruncateSuffix(start) ==
    LET last == [index |-> start - 1, term |-> GetTerm(start - 1)]
    IN /\ db' = [db EXCEPT
              !.entry = [i \in Index |->
                  IF i \in start .. mem.last.index THEN None ELSE db.entry[i]],
              !.tail = last]
       /\ mem' = [mem EXCEPT !.last = last]

(* Mutant: a conflict truncates whatever it meets.                         *)
TruncatesCommitted ==
    /\ pc = "up"
    /\ \E start \in mem.snap.index + 1 .. mem.last.index : TruncateSuffix(start)
    /\ UNCHANGED <<kv, batch, pc>>

(* HandleAppendEntries truncates at a conflict, never a committed entry.   *)
Truncate ==
    /\ pc = "up"
    /\ \E start \in mem.commitIndex + 1 .. mem.last.index : TruncateSuffix(start)
    /\ UNCHANGED <<kv, batch, pc>>

-----------------------------------------------------------------------------
(* Applying.                                                               *)

AdvanceCommit ==
    /\ pc = "up"
    /\ \E index \in mem.commitIndex + 1 .. mem.last.index :
         mem' = [mem EXCEPT !.commitIndex = index]
    /\ UNCHANGED <<db, kv, batch, pc>>

(* The loop reads a batch of committed entries and submits their commands. *)
SubmitApply ==
    /\ pc = "up" /\ batch = <<>>
    /\ \E n \in 1 .. mem.commitIndex - mem.lastApplied :
         batch' = [k \in 1 .. n |-> db.entry[mem.lastApplied + k].cmd]
    /\ UNCHANGED <<db, kv, mem, pc>>

(* The worker thread writes the batch and lastApplied together.            *)
ApplyBatch ==
    /\ batch # <<>> /\ kv.lastApplied = mem.lastApplied
    /\ kv' = [lastApplied |-> kv.lastApplied + Len(batch), data |-> kv.data \o batch]
    /\ UNCHANGED <<db, mem, batch, pc>>

FinishApply ==
    /\ batch # <<>> /\ kv.lastApplied = mem.lastApplied + Len(batch)
    /\ mem' = [mem EXCEPT !.lastApplied = kv.lastApplied]
    /\ batch' = <<>>
    /\ UNCHANGED <<db, kv, pc>>

-----------------------------------------------------------------------------
(* Snapshots.                                                              *)

TailAfter(s, keepSuffix) == IF keepSuffix THEN mem.last ELSE At(s)

(* The log database without the entries that snapshot s covers.            *)
EntriesAfter(s, keepSuffix) ==
    LET through == IF keepSuffix THEN s.index ELSE mem.last.index
    IN [i \in Index |->
            IF i \in mem.snap.index + 1 .. through THEN None ELSE db.entry[i]]

(* Mutant: the intent survives the snapshot it announced.                  *)
IntentKept(s, keepSuffix) ==
    [db EXCEPT !.snapshot = s, !.tail = TailAfter(s, keepSuffix),
               !.entry = EntriesAfter(s, keepSuffix)]

PersistSnapshot(s, keepSuffix) ==
    [db EXCEPT !.snapshot = s, !.tail = TailAfter(s, keepSuffix),
               !.entry = EntriesAfter(s, keepSuffix), !.intent = None]

(* MaybeSnapshot: whether the threshold is reached is left open.           *)
CompactApplied ==
    LET s == [index |-> mem.lastApplied, term |-> GetTerm(mem.lastApplied),
              data |-> kv.data]
    IN /\ pc = "up" /\ batch = <<>>
       /\ mem.lastApplied > mem.snap.index
       /\ db' = PersistSnapshot(s, TRUE)
       /\ mem' = [mem EXCEPT !.snap = At(s)]
       /\ UNCHANGED <<kv, batch, pc>>

(* Mutant: any entry at its index counts as the snapshot's last one.       *)
AnyEntryMatches(s) == s.index <= mem.last.index

KeepSuffix(s) == s.index <= mem.last.index /\ GetTerm(s.index) = s.term

(* Both callers have checked that the index is past the current snapshot.  *)
InstallSnapshot(s, lastApplied, commitIndex) ==
    /\ db' = PersistSnapshot(s, KeepSuffix(s))
    /\ mem' = [mem EXCEPT !.snap = At(s), !.last = TailAfter(s, KeepSuffix(s)),
                          !.lastApplied = lastApplied, !.commitIndex = commitIndex]

(* The commands that the local snapshot and entries 1..index stand for.    *)
LocalData(index) ==
    [i \in 1 .. index |->
        IF i <= mem.snap.index THEN db.snapshot.data[i] ELSE db.entry[i].cmd]

(* The snapshots a leader may send: they agree with what is committed      *)
(* here, and an entry of the same index and term means the same log.       *)
Offered ==
    {s \in [index : mem.lastApplied + 1 .. MaxIndex, term : 1 .. mem.currentTerm,
            data : Data] :
        /\ Len(s.data) = s.index
        /\ IF s.index <= mem.commitIndex THEN GetTerm(s.index) = s.term
           ELSE /\ SubSeq(s.data, 1, mem.commitIndex) = LocalData(mem.commitIndex)
                /\ s.term >= GetTerm(mem.commitIndex)
        /\ GetTerm(s.index) = s.term => s.data = LocalData(s.index)}

(* HandleInstallSnapshot at the last chunk, first write: the redo intent.  *)
StageSnapshotInstall ==
    /\ pc = "up" /\ batch = <<>>
    /\ \E s \in Offered :
         IF db.intent = None
         THEN db' = [db EXCEPT !.intent = s, !.tail = mem.last] /\ pc' = "staged"
         ELSE pc' = "failed" /\ UNCHANGED db
    /\ UNCHANGED <<kv, mem, batch>>

ReplaceAll(next) ==
    /\ IF db.intent.index >= kv.lastApplied
       THEN /\ kv' = [lastApplied |-> db.intent.index, data |-> db.intent.data]
            /\ pc' = next
       ELSE pc' = "failed" /\ UNCHANGED kv
    /\ UNCHANGED <<db, mem, batch>>

(* Second write: the whole content of the state machine.                   *)
ReplaceStateMachine == pc = "staged" /\ ReplaceAll("replaced")

(* Third write: the log, which completes the intent.                       *)
FinishInstall ==
    /\ pc = "replaced"
    /\ InstallSnapshot(db.intent, db.intent.index,
           IF mem.commitIndex >= db.intent.index THEN mem.commitIndex
           ELSE db.intent.index)
    /\ pc' = "up"
    /\ UNCHANGED <<kv, batch>>

-----------------------------------------------------------------------------
(* Crashing and opening.                                                   *)

Blank == [last |-> Zero, snap |-> Zero, currentTerm |-> 0, lastApplied |-> 0,
          commitIndex |-> 0]

Crash ==
    /\ pc \notin {"down", "failed"}
    /\ pc' = "down"
    /\ mem' = Blank
    /\ batch' = <<>>
    /\ UNCHANGED <<db, kv>>

(* The constructors up to the recovery of a pending snapshot.  A scanned   *)
(* log that is not empty gets its tail record now.                         *)
OpenLog ==
    /\ pc = "down"
    /\ IF LogValid(db) /\ HardStateValid(db) /\ LoadPendingSnapshotValid(db)
       THEN /\ db' = [db EXCEPT !.tail =
                        IF db.tail = None /\ TailOf(db).index = 0 THEN None
                        ELSE TailOf(db)]
            /\ mem' = [Blank EXCEPT !.last = TailOf(db), !.snap = LoadSnapshot(db),
                                    !.currentTerm = LoadHardState(db)]
            /\ pc' = "opened"
       ELSE pc' = "failed" /\ UNCHANGED <<db, mem>>
    /\ UNCHANGED <<kv, batch>>

ReplayStateMachine ==
    pc = "opened" /\ db.intent # None /\ ReplaceAll("replayed")

ReplayLog ==
    /\ pc = "replayed"
    /\ InstallSnapshot(db.intent, 0, 0)
    /\ pc' = "finalized"
    /\ UNCHANGED <<kv, batch>>

(* The last checks of RaftNode's constructor.                              *)
FinishOpen ==
    /\ \/ pc = "finalized"
       \/ pc = "opened" /\ db.intent = None
    /\ pc' = IF /\ kv.lastApplied \in mem.snap.index .. mem.last.index
                /\ mem.currentTerm >= mem.last.term
             THEN "up" ELSE "failed"
    /\ mem' = [mem EXCEPT !.lastApplied = kv.lastApplied,
                          !.commitIndex = kv.lastApplied]
    /\ UNCHANGED <<db, kv, batch>>

-----------------------------------------------------------------------------
(* A fresh pair of databases, or one from before there was a tail record.  *)
Init ==
    /\ \E es \in UNION {[1 .. n -> Entry] : n \in 0 .. MaxIndex},
          hard \in Term \cup {None} :
         /\ \A k \in DOMAIN es :
              /\ hard # None /\ es[k].term <= hard
              /\ k > 1 => es[k].term >= es[k - 1].term
         /\ db = [entry |-> [i \in Index |->
                               IF i \in DOMAIN es THEN es[i] ELSE None],
                  tail |-> None, hardTerm |-> hard,
                  snapshot |-> None, intent |-> None]
         /\ \E n \in 0 .. Len(es) :
              kv = [lastApplied |-> n, data |-> [k \in 1 .. n |-> es[k].cmd]]
    /\ mem = Blank
    /\ batch = <<>>
    /\ pc = "down"

Next ==
    \/ SaveHardState \/ AppendEntries \/ Truncate
    \/ AdvanceCommit \/ SubmitApply \/ ApplyBatch \/ FinishApply
    \/ CompactApplied
    \/ StageSnapshotInstall \/ ReplaceStateMachine \/ FinishInstall
    \/ Crash \/ OpenLog \/ ReplayStateMachine \/ ReplayLog \/ FinishOpen

Spec == Init /\ [][Next]_vars

-----------------------------------------------------------------------------
(* Properties.                                                             *)

(* No check of the constructors or of the install path ever throws: after  *)
(* any crash, also one during recovery, the databases open and agree.      *)
RecoverySucceeds == pc # "failed"

(* Between operations the indexes in memory describe exactly the entries   *)
(* on disk: nothing is missing, and no deleted entry can come back.        *)
MemoryMirrorsDisk ==
    pc = "up" =>
        /\ Present(db) = mem.snap.index + 1 .. mem.last.index
        /\ mem.last = TailOf(db)
        /\ mem.snap = LoadSnapshot(db)
        /\ mem.currentTerm = LoadHardState(db)

(* The durable state as the consensus core sees it.  A snapshot counts as  *)
(* installed, in both databases, from the moment its intent is durable.    *)
DiskSuffix ==
    LET first == LoadSnapshot(db).index
    IN [k \in 1 .. TailOf(db).index - first |-> db.entry[first + k]]

VisibleSnapshot ==
    IF db.intent # None THEN db.intent
    ELSE IF db.snapshot # None THEN db.snapshot
    ELSE [index |-> 0, term |-> 0, data |-> <<>>]

VisibleSuffix ==
    IF db.intent = None THEN DiskSuffix
    ELSE LET k == db.intent.index - LoadSnapshot(db).index
         IN IF k <= Len(DiskSuffix) /\ DiskSuffix[k].term = db.intent.term
            THEN SubSeq(DiskSuffix, k + 1, Len(DiskSuffix)) ELSE <<>>

Durable == INSTANCE DurableLog WITH
    term <- LoadHardState(db),
    snapshot <- VisibleSnapshot,
    suffix <- VisibleSuffix,
    applied <- IF db.intent # None THEN db.intent.data ELSE kv.data

(* Every write is one operation of DurableLog or changes nothing that can  *)
(* be seen: the log and the state machine, kept in two databases, change   *)
(* as one, also when a snapshot takes three writes to install.             *)
ImplementsDurableLog == Durable!Spec

(* Crashes, the constructors' recovery and the writes of an installation   *)
(* after its intent change nothing that can be seen: a crash loses no      *)
(* completed write, and redoing an installation gives what it would have.  *)
RecoveryIsInvisible ==
    [][pc # "up" \/ pc' = "down" => UNCHANGED Durable!vars]_vars
=============================================================================
