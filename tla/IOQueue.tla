------------------------------- MODULE IOQueue -------------------------------
(***************************************************************************)
(* The ring buffer between FS and a TTY daemon (fs/ioqueue.c).  One entry  *)
(* is never used, so that head = tail means empty; the size field of the C *)
(* struct is set once and never read.                                      *)
(***************************************************************************)
EXTENDS Integers, Sequences

CONSTANTS
  FS_IOQUEUE_LEN,
  IOQuest,
  ZERO            \* what memset leaves in an entry

ASSUME QueueAssumption == FS_IOQUEUE_LEN \in Nat \ {0}

VARIABLE q        \* head, tail and list of struct ioqueue

Index == 0 .. FS_IOQUEUE_LEN - 1

ioqueue_isfull == (q.tail + 1 - q.head) % FS_IOQUEUE_LEN = 0

ioqueue_isempty == q.tail = q.head

ioqueue_init == q = [head |-> 0, tail |-> 0, list |-> [i \in Index |-> ZERO]]

\* Mutant: the tail moves before the entry is written.
ioenqueue_TailFirst(elem) ==
  /\ ~ioqueue_isfull
  /\ LET t == (q.tail + 1) % FS_IOQUEUE_LEN
     IN  q' = [q EXCEPT !.tail = t, !.list[t] = elem]

ioenqueue(elem) ==
  /\ ~ioqueue_isfull
  /\ q' = [q EXCEPT !.list[q.tail] = elem, !.tail = (q.tail + 1) % FS_IOQUEUE_LEN]

\* Mutant: the index runs past the end of the list.
iodequeue_NoWrap(elem) ==
  /\ ~ioqueue_isempty
  /\ elem = q.list[q.head]
  /\ q' = [q EXCEPT !.list[q.head] = ZERO, !.head = q.head + 1]

\* elem is what the caller gets.
iodequeue(elem) ==
  /\ ~ioqueue_isempty
  /\ elem = q.list[q.head]
  /\ q' = [q EXCEPT !.list[q.head] = ZERO, !.head = (q.head + 1) % FS_IOQUEUE_LEN]

QNext == \/ \E e \in IOQuest : ioenqueue(e)
         \/ \E e \in IOQuest : iodequeue(e)

QSpec == ioqueue_init /\ [][QNext]_q

-----------------------------------------------------------------------------
QTypeOK == q \in [head : Index, tail : Index, list : [Index -> IOQuest \cup {ZERO}]]

Size == IF q.head <= q.tail THEN q.tail - q.head
                            ELSE q.tail - q.head + FS_IOQUEUE_LEN

\* The i-th entry in the order of arrival.
Pos(i) == LET k == q.head + i - 1 IN IF k < FS_IOQUEUE_LEN THEN k ELSE k - FS_IOQUEUE_LEN

Contents == [i \in 1 .. Size |-> q.list[Pos(i)]]

\* The part of the list between head and tail holds requests and the rest is
\* zero: no request is overwritten before it is taken, none is left behind.
HoldsRequests ==
  /\ \A i \in 1 .. Size : q.list[Pos(i)] \in IOQuest
  /\ \A k \in Index : (\A i \in 1 .. Size : k # Pos(i)) => q.list[k] = ZERO

F == INSTANCE BoundedFIFO WITH
       Elem <- IOQuest, Capacity <- FS_IOQUEUE_LEN - 1, fifo <- Contents

\* The ring buffer is a FIFO that holds FS_IOQUEUE_LEN - 1 requests: what is
\* taken was put, in that order and once, across every wrap of the indices.
ImplementsFIFO == F!FSpec
=============================================================================
