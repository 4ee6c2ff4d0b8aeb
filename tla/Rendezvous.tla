----------------------------- MODULE Rendezvous -----------------------------
(***************************************************************************)
(* What the IPC of pseudOS promises a process, with no queues of pointers, *)
(* no scheduler and no process table: a call of a process that has no call *)
(* outstanding either completes at once or leaves the process waiting, and *)
(* waiting senders are served in the order in which they blocked.          *)
(***************************************************************************)
EXTENDS Integers, Sequences

CONSTANTS Procs, Body, ANY, SendsTo, NotifiesTo, ReceivesFrom

VARIABLES
  wait,     \* wait[p]: the call p is blocked in
  senders,  \* senders[d]: who is blocked sending to d, oldest first
  box       \* box[p]: the message buffer of p

rvars == <<wait, senders, box>>

Free == [op |-> "none", peer |-> ANY]

RInit ==
  /\ wait = [p \in Procs |-> Free]
  /\ senders = [p \in Procs |-> <<>>]
  /\ box \in {[p \in Procs |-> [source |-> -1, body |-> b]] : b \in Body}

Waiting(d, p) == wait[d].op = "recv" /\ wait[d].peer \in {p, ANY}

Deliver(p, d, b) ==
  /\ wait[p] = Free
  /\ Waiting(d, p)
  /\ wait' = [wait EXCEPT ![d] = Free]
  /\ box' = [box EXCEPT ![p] = [source |-> p, body |-> b],
                        ![d] = [source |-> p, body |-> b]]
  /\ UNCHANGED senders

BlockSend(p, d, b) ==
  /\ wait[p] = Free
  /\ ~Waiting(d, p)
  /\ wait' = [wait EXCEPT ![p] = [op |-> "send", peer |-> d]]
  /\ senders' = [senders EXCEPT ![d] = Append(@, p)]
  /\ box' = [box EXCEPT ![p] = [source |-> p, body |-> b]]

\* A notification to someone who is not waiting is dropped.
Drop(p, d, b) ==
  /\ wait[p] = Free
  /\ ~Waiting(d, p)
  /\ box' = [box EXCEPT ![p] = [source |-> p, body |-> b]]
  /\ UNCHANGED <<wait, senders>>

\* The positions, among the senders waiting for r, of those that r accepts.
Accepts(r, s) == {i \in 1 .. Len(senders[r]) : s \in {senders[r][i], ANY}}

Without(seq, i) == [j \in 1 .. Len(seq) - 1 |-> IF j < i THEN seq[j] ELSE seq[j + 1]]

\* The oldest of them is served.
TakeSent(r, s) ==
  /\ wait[r] = Free
  /\ \E i \in Accepts(r, s) :
       LET q == senders[r][i] IN
       /\ \A j \in Accepts(r, s) : i <= j
       /\ box' = [box EXCEPT ![r] = box[q]]
       /\ wait' = [wait EXCEPT ![q] = Free]
       /\ senders' = [senders EXCEPT ![r] = Without(@, i)]

BlockReceive(r, s) ==
  /\ wait[r] = Free
  /\ Accepts(r, s) = {}
  /\ wait' = [wait EXCEPT ![r] = [op |-> "recv", peer |-> s]]
  /\ box' = [box EXCEPT ![r].source = r]
  /\ UNCHANGED senders

\* A refused call has no effect but the stamp on the caller's own buffer.
Refuse(p) ==
  /\ wait[p] = Free
  /\ box' = [box EXCEPT ![p].source = p]
  /\ UNCHANGED <<wait, senders>>

RNext ==
  \/ \E e \in SendsTo, b \in Body : Deliver(e[1], e[2], b) \/ BlockSend(e[1], e[2], b)
  \/ \E e \in NotifiesTo, b \in Body : Deliver(e[1], e[2], b) \/ Drop(e[1], e[2], b)
  \/ \E e \in ReceivesFrom : TakeSent(e[1], e[2]) \/ BlockReceive(e[1], e[2])
  \/ \E p \in Procs : Refuse(p)

RSpec == RInit /\ [][RNext]_rvars
=============================================================================
