---------------------------- MODULE BoundedFifo ----------------------------
(***************************************************************************)
(* What the shared-memory ring promises its two clients: a first-in        *)
(* first-out queue of at most Limit items.  An attempt to enqueue or to    *)
(* dequeue that fails leaves the queue alone, so a failure is a stuttering *)
(* step here.                                                              *)
(***************************************************************************)
EXTENDS Naturals, Sequences

CONSTANTS Values,   \* the items
          Limit,    \* how many items the queue may hold
          NoItem    \* nothing has been dequeued yet

VARIABLES q,        \* the items, oldest first
          out       \* the item the last successful dequeue returned

fifoVars == <<q, out>>

FifoInit == q = << >> /\ out = NoItem

Enqueue(v) == Len(q) < Limit /\ q' = Append(q, v) /\ out' = out

Dequeue == q # << >> /\ out' = Head(q) /\ q' = Tail(q)

FifoNext == Dequeue \/ \E v \in Values : Enqueue(v)

FifoSpec == FifoInit /\ [][FifoNext]_fifoVars
============================================================================
