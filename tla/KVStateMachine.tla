--------------------------- MODULE KVStateMachine ---------------------------
(***************************************************************************)
(* The replicated state machine: KVStateMachine over RocksDBStore          *)
(* (src/raft/kv_state_machine.cc, src/storage/rocksdb_store.cpp).          *)
(*                                                                         *)
(* Replicas apply the same log in batches of their own choosing, or skip   *)
(* ahead with the snapshot of another one.  ApplyBatch has two passes, as  *)
(* in the code: it first turns commands into mutations and replies, while  *)
(* nothing is written, and then the store makes one write and says which   *)
(* deleted keys existed.                                                   *)
(*                                                                         *)
(* A command is parsed already.  The code looks keys and sessions up in    *)
(* the store when it first needs them and keeps what it found or decided;  *)
(* the store does not change meanwhile, so a copy taken at the start of    *)
(* the batch represents both.                                              *)
(***************************************************************************)
EXTENDS Integers, Sequences, SequencesExt

CONSTANTS
    Replica,
    Key, Value,
    Absent,         \* the value of a key that is not in the store
    ClientId,
    NoClient,       \* marks a plain SET or DEL, which has no client id
    MaxRequestId,   \* bound: request ids are 1..MaxRequestId
    MaxLog,         \* bound: length of the log
    MaxBatchEntries

ASSUME RangeAssumption ==
    /\ Absent \notin Value /\ NoClient \notin ClientId
    /\ MaxRequestId \in Nat /\ MaxLog \in Nat /\ MaxBatchEntries \in Nat

VARIABLES
    log,        \* the committed commands
    store,      \* store[r]: data, client sessions and lastApplied
    replies     \* replies[r][i]: what r answered when it applied entry i

vars == <<log, store, replies>>

-----------------------------------------------------------------------------
(* IDEMP <client> <id> SET|DEL ... is a SET or DEL with a client; the      *)
(* empty command of a new leader is a NOOP.                                *)
Command ==
    [op : {"NOOP"}, client : {NoClient}]
        \cup [op : {"SET"}, key : Key, value : Value, client : {NoClient}]
        \cup [op : {"DEL"}, key : Key, client : {NoClient}]
        \cup [op : {"SET"}, key : Key, value : Value, client : ClientId,
              id : 1 .. MaxRequestId]
        \cup [op : {"DEL"}, key : Key, client : ClientId, id : 1 .. MaxRequestId]

Reply == {"OK", ":1", ":0", "stale"}
Blank == ""     \* a reply the store will decide; also that of no session

Count(existed) == IF existed THEN ":1" ELSE ":0"

Session == [id : 0 .. MaxRequestId, reply : Reply \cup {Blank}]

Store == [data : [Key -> Value \cup {Absent}], session : [ClientId -> Session],
          lastApplied : 0 .. MaxLog]

EmptyStore == [data |-> [k \in Key |-> Absent],
               session |-> [c \in ClientId |-> [id |-> 0, reply |-> Blank]],
               lastApplied |-> 0]

(* Commands, stores and recorded replies are of their declared shape.      *)
TypeOK ==
    /\ log \in Seq(Command) /\ Len(log) <= MaxLog
    /\ store \in [Replica -> Store]
    /\ \A r \in Replica : DOMAIN replies[r] \subseteq 1 .. store[r].lastApplied
                          /\ \A i \in DOMAIN replies[r] : replies[r][i] \in Reply

-----------------------------------------------------------------------------
(* First pass: commands to mutations.                                      *)

IsNew(batch, cmd) ==
    cmd.client = NoClient \/ cmd.id > batch.session[cmd.client].id

(* The reply decided before the store is asked.                            *)
EarlyReply(batch, cmd) ==
    IF ~IsNew(batch, cmd)
    THEN IF cmd.id < batch.session[cmd.client].id THEN "stale"
         ELSE batch.session[cmd.client].reply
    ELSE IF cmd.op # "DEL" THEN "OK"
    ELSE IF cmd.client = NoClient THEN Blank
    ELSE Count(batch.present[cmd.key])

(* Mutant: later commands of the batch see the keys as they were.          *)
PresentUnchanged(batch, cmd) == batch.present

PresentAfter(batch, cmd) ==
    IF IsNew(batch, cmd) /\ cmd.op # "NOOP"
    THEN [batch.present EXCEPT ![cmd.key] = cmd.op = "SET"]
    ELSE batch.present

SessionAfter(batch, cmd) ==
    IF IsNew(batch, cmd) /\ cmd.client # NoClient
    THEN [batch.session EXCEPT ![cmd.client] =
             [id |-> cmd.id, reply |-> EarlyReply(batch, cmd)]]
    ELSE batch.session

(* A mutation is the command if it is to take effect and a NOOP if not.    *)
Interpret(batch, cmd) ==
    [present |-> PresentAfter(batch, cmd),
     session |-> SessionAfter(batch, cmd),
     mutations |-> Append(batch.mutations,
                          IF IsNew(batch, cmd) THEN cmd
                          ELSE [op |-> "NOOP", client |-> NoClient]),
     replies |-> Append(batch.replies, EarlyReply(batch, cmd))]

Interpreted(s, cmds) ==
    FoldLeft(Interpret,
             [present |-> [k \in Key |-> s.data[k] # Absent],
              session |-> s.session, mutations |-> <<>>, replies |-> <<>>],
             cmds)

-----------------------------------------------------------------------------
(* Second pass: RocksDBStore::ApplyBatch.                                  *)

Mutate(write, m) ==
    CASE m.op = "SET" -> [data |-> [write.data EXCEPT ![m.key] = m.value],
                          existed |-> Append(write.existed, FALSE)]
      [] m.op = "DEL" -> [data |-> [write.data EXCEPT ![m.key] = Absent],
                          existed |-> Append(write.existed,
                                             write.data[m.key] # Absent)]
      [] OTHER -> [write EXCEPT !.existed = Append(@, FALSE)]

(* Mutant: the reply of a plain DEL stays as it was.                       *)
NotFilledIn(early, existed) == early

FinalReply(early, existed) == IF early # Blank THEN early ELSE Count(existed)

(* The store and the replies after one batch.                              *)
Outcome(s, cmds) ==
    LET batch == Interpreted(s, cmds)
        write == FoldLeft(Mutate, [data |-> s.data, existed |-> <<>>],
                          batch.mutations)
    IN [store |-> [data |-> write.data, session |-> batch.session,
                   lastApplied |-> s.lastApplied + Len(cmds)],
        replies |-> [i \in DOMAIN cmds |->
                        FinalReply(batch.replies[i], write.existed[i])]]

-----------------------------------------------------------------------------
Init ==
    /\ log = <<>>
    /\ store = [r \in Replica |-> EmptyStore]
    /\ replies = [r \in Replica |-> <<>>]

Commit ==
    /\ Len(log) < MaxLog
    /\ \E cmd \in Command : log' = Append(log, cmd)
    /\ UNCHANGED <<store, replies>>

ApplyBatch(r) ==
    \E n \in 1 .. MaxBatchEntries :
        LET first == store[r].lastApplied + 1
            outcome == Outcome(store[r], SubSeq(log, first, first + n - 1))
        IN /\ first + n - 1 <= Len(log)
           /\ store' = [store EXCEPT ![r] = outcome.store]
           /\ replies' = [replies EXCEPT ![r] =
                  [i \in DOMAIN replies[r] \cup first .. first + n - 1 |->
                      IF i < first THEN replies[r][i]
                      ELSE outcome.replies[i - first + 1]]]
           /\ UNCHANGED log

(* Mutant: only the keys of clients are exported.                          *)
UserKeysOnly(s) == [data |-> s.data, session |-> EmptyStore.session]

(* Every record but lastApplied, so client sessions too.                   *)
ExportSnapshot(s) == [data |-> s.data, session |-> s.session]

InstallSnapshot(r, q) ==
    LET snapshot == ExportSnapshot(store[q])
    IN /\ store[q].lastApplied > store[r].lastApplied
       /\ store' = [store EXCEPT ![r] =
              [data |-> snapshot.data, session |-> snapshot.session,
               lastApplied |-> store[q].lastApplied]]
       /\ UNCHANGED <<log, replies>>

Next ==
    \/ Commit
    \/ \E r \in Replica : ApplyBatch(r) \/ \E q \in Replica : InstallSnapshot(r, q)

Spec == Init /\ [][Next]_vars

-----------------------------------------------------------------------------
(* What a log means, without batches and without stored sessions.          *)

SameClient(i, j) == log[i].client # NoClient /\ log[i].client = log[j].client

(* Entry i takes effect unless its client already had an id as large.      *)
TakesEffect(i) ==
    \A j \in 1 .. i - 1 : SameClient(i, j) => log[j].id < log[i].id

(* The last entry up to n that wrote a key decides its value.              *)
ValueAfter(n, k) ==
    LET writes == {i \in 1 .. n : /\ log[i].op # "NOOP" /\ TakesEffect(i)
                                  /\ log[i].key = k}
        last == CHOOSE i \in writes : \A j \in writes : j <= i
    IN IF writes = {} THEN Absent
       ELSE IF log[last].op = "SET" THEN log[last].value ELSE Absent

FirstReply(i) ==
    IF log[i].op = "DEL" THEN Count(ValueAfter(i - 1, log[i].key) # Absent)
    ELSE "OK"

(* A retry gets the first reply again, unless the client has gone on.      *)
ReplyTo(i) ==
    IF TakesEffect(i) THEN FirstReply(i)
    ELSE IF \E j \in 1 .. i - 1 : SameClient(i, j) /\ log[j].id > log[i].id
    THEN "stale"
    ELSE FirstReply(CHOOSE j \in 1 .. i - 1 :
                       SameClient(i, j) /\ log[j].id = log[i].id /\ TakesEffect(j))

(* However a replica cut the log into batches, and whatever it skipped by  *)
(* a snapshot, its keys are those of the commands one by one, with every   *)
(* IDEMP request of ApplyBatch taking effect once.                         *)
StateIsLastWriter ==
    \A r \in Replica, k \in Key :
        store[r].data[k] = ValueAfter(store[r].lastApplied, k)

(* Every reply that ApplyBatch returned is that of the command run alone   *)
(* at its place in the log; all replicas give the same, and a retried      *)
(* IDEMP request gets the reply of the first, also after a snapshot.       *)
RepliesAreExact ==
    \A r \in Replica : \A i \in DOMAIN replies[r] : replies[r][i] = ReplyTo(i)
=============================================================================
