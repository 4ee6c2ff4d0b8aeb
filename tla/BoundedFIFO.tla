----------------------------- MODULE BoundedFIFO -----------------------------
(***************************************************************************)
(* What FS and TTY0 need of the queue between them: a bounded first-in,    *)
(* first-out buffer.                                                       *)
(***************************************************************************)
EXTENDS Naturals, Sequences

CONSTANTS Elem, Capacity

VARIABLE fifo

FInit == fifo = <<>>

Put == \E e \in Elem : Len(fifo) < Capacity /\ fifo' = Append(fifo, e)

Take == fifo # <<>> /\ fifo' = Tail(fifo)

FNext == Put \/ Take

FSpec == FInit /\ [][FNext]_fifo
=============================================================================
