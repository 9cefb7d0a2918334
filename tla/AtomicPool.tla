----------------------------- MODULE AtomicPool -----------------------------
(***************************************************************************)
(* What the commit protocol promises its readers: a pool whose objects     *)
(* change one at a time, each change atomically together with its revision *)
(* and the derived days it invalidates, and readers that see the pool as   *)
(* it is between two changes.  No file, directory, crash or recovery is    *)
(* visible at this level.                                                  *)
(***************************************************************************)
EXTENDS Naturals

CONSTANTS Files, Tables, Ops, Readers, MaxDay, NoOp, NoView

VARIABLES
    content,    \* the operation whose result a file holds
    version,    \* the logical revision of each object
    committed,  \* the operations that took effect, each with its first day
    stale,      \* the derived days that must be recomputed
    view        \* what each reader last read

poolVars == <<content, version, committed, stale, view>>

Init ==
    /\ content = [f \in Files |-> NoOp]
    /\ version = [o \in Files \cup Tables |-> 0]
    /\ committed = {}
    /\ stale = {}
    /\ view = [r \in Readers |-> NoView]

(* An operation changes object o and invalidates the days from start on. *)
Commit(op, o, start) ==
    /\ \A c \in committed : c.op # op
    /\ committed' = committed \cup {[op |-> op, start |-> start]}
    /\ version' = [version EXCEPT ![o] = @ + 1]
    /\ content' = IF o \in Files THEN [content EXCEPT ![o] = op] ELSE content
    /\ stale' = stale \cup {d \in 1..MaxDay : d >= start}
    /\ UNCHANGED view

Read(r) ==
    /\ view' = [view EXCEPT ![r] = [content |-> content, revision |-> version]]
    /\ UNCHANGED <<content, version, committed, stale>>

Leave(r) ==
    /\ view' = [view EXCEPT ![r] = NoView]
    /\ UNCHANGED <<content, version, committed, stale>>

Next ==
    \/ \E op \in Ops, o \in Files \cup Tables, start \in 1..(MaxDay + 1) :
          Commit(op, o, start)
    \/ \E r \in Readers : Read(r) \/ Leave(r)

Spec == Init /\ [][Next]_poolVars
=============================================================================
