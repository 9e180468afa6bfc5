---------------------------- MODULE BoundedFifo ----------------------------
(***************************************************************************)
(* What a protocol layer may rely on when it hands messages to the next    *)
(* layer through a queue: a first-in first-out buffer of at most Bound     *)
(* entries, written in two steps (an entry is staged in place, then put).  *)
(* What is put is exactly what was staged last; nothing that was put is    *)
(* altered, reordered or duplicated afterwards.                            *)
(***************************************************************************)
EXTENDS Naturals, Sequences

CONSTANTS
    Entry,   \* the values a queue entry can hold
    Bound    \* the number of entries the buffer holds when it is full

VARIABLES
    q,       \* the entries put and not yet dropped, oldest first
    staged   \* the contents of the entry that a Put would append

fifoVars == <<q, staged>>

FifoInit ==
    /\ q = <<>>
    /\ staged \in Entry

\* The producer forms a new entry; the buffer itself does not change.
Stage ==
    /\ staged' \in Entry
    /\ q' = q

\* The staged entry joins the buffer and another entry can be staged.
Put ==
    /\ Len(q) < Bound
    /\ q' = Append(q, staged)
    /\ staged' \in Entry

\* The consumer releases the oldest entry.
Drop ==
    /\ q # <<>>
    /\ q' = Tail(q)
    /\ staged' = staged

\* Everything is discarded.
Discard ==
    /\ q' = <<>>
    /\ staged' \in Entry

FifoNext == Stage \/ Put \/ Drop \/ Discard

FifoSpec == FifoInit /\ [][FifoNext]_fifoVars
=============================================================================
