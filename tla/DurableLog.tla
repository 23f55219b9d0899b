----------------------------- MODULE DurableLog -----------------------------
(***************************************************************************)
(* What the two databases of a process promise to the consensus core: a    *)
(* log whose prefix may be replaced by a snapshot, and a state machine     *)
(* that has applied a prefix of it.  Every operation takes effect at once  *)
(* and a crash is not visible.  RaftLog implements this specification.     *)
(***************************************************************************)
EXTENDS Integers, Sequences, SequencesExt

VARIABLES
    term,       \* the saved term
    snapshot,   \* [index, term, data]: the state after entries 1..index
    suffix,     \* the entries after it
    applied     \* the commands the state machine has applied

vars == <<term, snapshot, suffix, applied>>

LastIndex == snapshot.index + Len(suffix)

TermAt(index) ==
    IF index = snapshot.index THEN snapshot.term
    ELSE IF index \in snapshot.index + 1 .. LastIndex
    THEN suffix[index - snapshot.index].term
    ELSE -1

(* The state that the snapshot and the entries up to index build.          *)
Replay(index) ==
    snapshot.data \o [k \in 1 .. index - snapshot.index |-> suffix[k].cmd]

After(index) == SubSeq(suffix, index - snapshot.index + 1, Len(suffix))

Init ==
    /\ Len(applied) \in snapshot.index .. LastIndex
    /\ applied = Replay(Len(applied))

SaveTerm ==
    /\ term' > term
    /\ UNCHANGED <<snapshot, suffix, applied>>

(* Terms never decrease along the log nor exceed the saved term.           *)
AppendEntries ==
    /\ IsStrictPrefix(suffix, suffix')
    /\ \A index \in LastIndex + 1 .. LastIndex' :
         TermAt(index)' >= TermAt(index - 1)' /\ TermAt(index)' <= term
    /\ UNCHANGED <<term, snapshot, applied>>

(* Only entries that are not applied may go.                               *)
Truncate ==
    /\ IsStrictPrefix(suffix', suffix)
    /\ Len(applied) <= LastIndex'
    /\ UNCHANGED <<term, snapshot, applied>>

Apply ==
    /\ \E index \in Len(applied) + 1 .. LastIndex : applied' = Replay(index)
    /\ UNCHANGED <<term, snapshot, suffix>>

Compact ==
    /\ Len(applied) > snapshot.index
    /\ snapshot' = [index |-> Len(applied), term |-> TermAt(Len(applied)),
                    data |-> applied]
    /\ suffix' = After(Len(applied))
    /\ UNCHANGED <<term, applied>>

(* A leader's snapshot replaces log and state machine together.  Entries   *)
(* after it survive if the log holds the entry the snapshot ends with.     *)
Install ==
    /\ snapshot'.index > Len(applied)
    /\ applied' = snapshot'.data
    /\ suffix' = IF TermAt(snapshot'.index) = snapshot'.term
                 THEN After(snapshot'.index) ELSE <<>>
    /\ UNCHANGED term

Next == SaveTerm \/ AppendEntries \/ Truncate \/ Apply \/ Compact \/ Install

Spec == Init /\ [][Next]_vars
=============================================================================
