----------------------------- MODULE FsTtyProofs -----------------------------
(***************************************************************************)
(* A system call on a terminal is in exactly one place between the SEND    *)
(* and the answer, the answer is its own, and no test of the queue is out  *)
(* of date when FS relies on it: for every number of user processes, every *)
(* set of calls and every length of the queue.                             *)
(*                                                                         *)
(* The invariant has four parts.  WaitInv is about the rendezvous alone.   *)
(* ControlInv ties the statement a process is at to the call it is blocked *)
(* in.  ContentInv says what every message on the way looks like.          *)
(* PlaceInv says that the places where a call can be exclude each other.   *)
(***************************************************************************)
EXTENDS FsTty, IOQueueProofs, FiniteSetTheorems

Free         == IPC!Free
Sending(d)   == [op |-> "send", peer |-> d]
Receiving(s) == [op |-> "recv", peer |-> s]

\* Who is queued for d is blocked sending to d, and is queued once.
WaitInv ==
  /\ DOMAIN wait = Procs /\ DOMAIN senders = Procs /\ DOMAIN box = Procs
  /\ \A d \in Procs : senders[d] \in Seq(Procs)
  /\ \A d \in Procs : \A i \in 1 .. Len(senders[d]) : wait[senders[d][i]] = Sending(d)
  /\ \A d \in Procs : \A i, j \in 1 .. Len(senders[d]) :
       senders[d][i] = senders[d][j] => i = j

UserControl(u) ==
  /\ pc[u] \in {"user", "sent", "returned"}
  /\ pc[u] = "user" => wait[u] = Free
  /\ pc[u] = "sent" => wait[u] \in {Free, Sending(FS)}
  /\ pc[u] = "returned" => wait[u] \in {Free, Receiving(FS)}

ControlInv ==
  /\ TypeOK
  /\ DOMAIN pc = Procs
  /\ panicked = FALSE
  /\ \A u \in Users : UserControl(u)
  /\ \/ wait[FS] = Free
     \/ wait[FS] = Receiving(ANY) /\ pc[FS] = "dispatch"
     \/ pc[FS] = "receive" /\ \E u \in Users : wait[FS] = Sending(u)
  /\ wait[TTY] \in {Free, Receiving(ANY), Sending(FS)}
  /\ wait[TTY] # Free => pc[TTY] = "isempty"
  /\ wait[FSS] = Free
  /\ pc[TTY] = "start" => ioqueue_init /\ ~ttyproc_queue
  /\ ~ttyproc_queue => pc[FS] = "start"
  /\ pc[FS] = "enqueue" => ~ioqueue_isfull

-----------------------------------------------------------------------------
CallOf(u)   == [source |-> u, body |-> call[u]]
Result(u)   == [source |-> TTY, body |-> Msg("fs_resume", call[u].p1, u)]
AnswerTo(u) == [source |-> FS, body |-> Msg("justamsg", call[u].p1, 0)]
TtyUsers    == {u \in Users : call[u].function \in OnTty}
CallMsgs    == {Msg(c[1], c[2], t) : c \in Calls, t \in {0, 1}}

\* What FS has received and not looked at yet.
Received ==
  \/ box[FS].source \in Users /\ box[FS] = CallOf(box[FS].source)
  \/ box[FS].body.p1 \in TtyUsers /\ box[FS] = Result(box[FS].body.p1)

\* The calls that user processes make, and have made.
CallContent ==
  /\ DOMAIN call = Users
  /\ \A u \in Users : call[u].p1 \in {0, 1}
  /\ \A u \in Users : pc[u] # "user" => call[u] \in CallMsgs
  /\ \A u \in Users : wait[u].op = "send" => box[u] = CallOf(u)

\* What FS works on.
FsContent ==
  /\ pc[FS] = "dispatch" /\ wait[FS] = Free => Received
  /\ pc[FS] \in {"isfull", "enqueue"} => msg.source \in TtyUsers /\ msg = CallOf(msg.source)
  /\ pc[FS] = "resume" => msg.body.p1 \in TtyUsers /\ msg = Result(msg.body.p1)
  /\ wait[FS].op = "send" => wait[FS].peer \in TtyUsers /\ box[FS] = AnswerTo(wait[FS].peer)

QueueContent ==
  \A i \in Index : q.list[i] # ZERO =>
    q.list[i].source \in TtyUsers /\ q.list[i] = CallOf(q.list[i].source)

\* What TTY0 works on.
TtyContent ==
  /\ pc[TTY] = "serve" => elem.source \in TtyUsers /\ elem = CallOf(elem.source)
  /\ wait[TTY].op = "send" => box[TTY].body.p1 \in TtyUsers /\ box[TTY] = Result(box[TTY].body.p1)

ContentInv == CallContent /\ FsContent /\ QueueContent /\ TtyContent /\ RightAnswer

-----------------------------------------------------------------------------
QueuedAt(i, u) == q.list[i] # ZERO /\ q.list[i].source = u
InQueue(u) == \E i \in Index : QueuedAt(i, u)

\* u has handed its call over and has no answer yet.
Pending(u) == \/ pc[u] = "sent" /\ wait[u] = Free
              \/ pc[u] = "returned" /\ wait[u] = Receiving(FS)

Somewhere(u) == HeldByFS(u) \/ InQueue(u) \/ AnswerAtTTY(u) \/ AnswerAtFS(u)

Exclusive(u) ==
  /\ HeldByFS(u) => ~InQueue(u) /\ ~AnswerAtTTY(u) /\ ~AnswerAtFS(u)
  /\ InQueue(u) => ~AnswerAtTTY(u) /\ ~AnswerAtFS(u)
  /\ AnswerAtTTY(u) => ~AnswerAtFS(u)

PlaceInv ==
  /\ \A u \in Users : Somewhere(u) => Pending(u)
  /\ \A u \in TtyUsers : Pending(u) => Somewhere(u)
  /\ \A u \in Users : Exclusive(u)
  /\ \A u \in Users : \A i, j \in Index : (QueuedAt(i, u) /\ QueuedAt(j, u)) => i = j

FInv == QInv /\ WaitInv /\ ControlInv /\ ContentInv /\ PlaceInv

-----------------------------------------------------------------------------
(* What the calls of the kernel do.                                        *)

LEMMA DeliverEffect ==
  ASSUME WaitInv, NEW p \in Procs, NEW d \in Procs, NEW m, IPC!Deliver(p, d, m)
  PROVE  /\ WaitInv'
         /\ wait[p] = Free /\ wait[d].op = "recv" /\ wait[d].peer \in {p, ANY} /\ p # d
         /\ \A x \in Procs : wait'[x] = IF x = d THEN Free ELSE wait[x]
         /\ \A x \in Procs : box'[x] = IF x \in {p, d} THEN [source |-> p, body |-> m] ELSE box[x]
<1>1. wait[p] = Free /\ wait[d].op = "recv" /\ wait[d].peer \in {p, ANY}
  BY DEF IPC!Deliver, IPC!Waiting, Free
<1>2. /\ wait' = [wait EXCEPT ![d] = Free] /\ senders' = senders
      /\ box' = [box EXCEPT ![p] = [source |-> p, body |-> m], ![d] = [source |-> p, body |-> m]]
  BY DEF IPC!Deliver, Free
<1>3. p # d
  BY <1>1 DEF Free, IPC!Free
<1>4. /\ \A x \in Procs : wait'[x] = IF x = d THEN Free ELSE wait[x]
      /\ \A x \in Procs : box'[x] = IF x \in {p, d} THEN [source |-> p, body |-> m] ELSE box[x]
      /\ DOMAIN wait' = Procs /\ DOMAIN box' = Procs
  BY <1>2 DEF WaitInv
<1>5. ASSUME NEW e \in Procs, NEW i \in 1 .. Len(senders[e])
      PROVE  wait'[senders[e][i]] = Sending(e)
  <2>1. senders[e][i] \in Procs /\ wait[senders[e][i]] = Sending(e)
    BY DEF WaitInv
  <2>2. senders[e][i] # d
    BY <1>1, <2>1 DEF Sending
  <2> QED
    BY <1>4, <2>1, <2>2
<1>6. WaitInv'
  BY <1>2, <1>4, <1>5 DEF WaitInv
<1> QED
  BY <1>1, <1>3, <1>4, <1>6

LEMMA DropEffect ==
  ASSUME WaitInv, NEW p \in Procs, NEW d \in Procs, NEW m, IPC!Drop(p, d, m)
  PROVE  /\ WaitInv'
         /\ wait' = wait
         /\ \A x \in Procs : x # p => box'[x] = box[x]
<1>1. wait' = wait /\ senders' = senders /\ box' = [box EXCEPT ![p] = [source |-> p, body |-> m]]
  BY DEF IPC!Drop
<1>2. DOMAIN box' = Procs /\ \A x \in Procs : x # p => box'[x] = box[x]
  BY <1>1 DEF WaitInv
<1> QED
  BY <1>1, <1>2 DEF WaitInv

LEMMA BlockSendEffect ==
  ASSUME WaitInv, NEW p \in Procs, NEW d \in Procs, NEW m, IPC!BlockSend(p, d, m)
  PROVE  /\ WaitInv'
         /\ wait[p] = Free
         /\ \A x \in Procs : wait'[x] = IF x = p THEN Sending(d) ELSE wait[x]
         /\ \A x \in Procs : box'[x] = IF x = p THEN [source |-> p, body |-> m] ELSE box[x]
<1>1. /\ wait[p] = Free
      /\ wait' = [wait EXCEPT ![p] = Sending(d)]
      /\ senders' = [senders EXCEPT ![d] = Append(@, p)]
      /\ box' = [box EXCEPT ![p] = [source |-> p, body |-> m]]
  BY DEF IPC!BlockSend, Free, Sending
<1>2. /\ \A x \in Procs : wait'[x] = IF x = p THEN Sending(d) ELSE wait[x]
      /\ \A x \in Procs : box'[x] = IF x = p THEN [source |-> p, body |-> m] ELSE box[x]
      /\ DOMAIN wait' = Procs /\ DOMAIN box' = Procs /\ DOMAIN senders' = Procs
      /\ senders'[d] = Append(senders[d], p)
      /\ \A e \in Procs : e # d => senders'[e] = senders[e]
  BY <1>1 DEF WaitInv
<1>3. ASSUME NEW e \in Procs, NEW i \in 1 .. Len(senders[e])
      PROVE  /\ senders[e][i] \in Procs /\ senders[e][i] # p
             /\ wait'[senders[e][i]] = Sending(e)
  <2>1. senders[e][i] \in Procs /\ wait[senders[e][i]] = Sending(e)
    BY DEF WaitInv
  <2>2. senders[e][i] # p
    BY <1>1, <2>1 DEF Sending, Free, IPC!Free
  <2> QED
    BY <1>2, <2>1, <2>2
<1>4. senders[d] \in Seq(Procs) /\ Len(senders[d]) \in Nat
  BY DEF WaitInv
<1>5. /\ senders'[d] \in Seq(Procs) /\ Len(senders'[d]) = Len(senders[d]) + 1
      /\ \A i \in 1 .. Len(senders[d]) : senders'[d][i] = senders[d][i]
      /\ senders'[d][Len(senders[d]) + 1] = p
  BY <1>2, <1>4
<1>6. \A i \in 1 .. Len(senders'[d]) : i \in 1 .. Len(senders[d]) \/ i = Len(senders[d]) + 1
  BY <1>4, <1>5
<1>7. \A i \in 1 .. Len(senders'[d]) : wait'[senders'[d][i]] = Sending(d)
  BY <1>2, <1>3, <1>5, <1>6
<1>8. \A i, j \in 1 .. Len(senders'[d]) : senders'[d][i] = senders'[d][j] => i = j
  <2>1. \A i, j \in 1 .. Len(senders[d]) : senders[d][i] = senders[d][j] => i = j
    BY DEF WaitInv
  <2> SUFFICES ASSUME NEW i \in 1 .. Len(senders'[d]), NEW j \in 1 .. Len(senders'[d]),
                      senders'[d][i] = senders'[d][j]
               PROVE  i = j
    OBVIOUS
  <2>2. i \in 1 .. Len(senders[d]) <=> senders'[d][i] # p
    BY <1>3, <1>4, <1>5, <1>6
  <2>3. j \in 1 .. Len(senders[d]) <=> senders'[d][j] # p
    BY <1>3, <1>4, <1>5, <1>6
  <2>4. CASE senders'[d][i] = p
    BY <1>6, <2>2, <2>3, <2>4
  <2>5. CASE senders'[d][i] # p
    BY <1>5, <2>1, <2>2, <2>3, <2>5
  <2> QED
    BY <2>4, <2>5
<1>9. WaitInv'
  <2>1. ASSUME NEW e \in Procs
        PROVE  /\ senders'[e] \in Seq(Procs)
               /\ \A i \in 1 .. Len(senders'[e]) : wait'[senders'[e][i]] = Sending(e)
               /\ \A i, j \in 1 .. Len(senders'[e]) : senders'[e][i] = senders'[e][j] => i = j
    <3>1. CASE e = d
      BY <1>5, <1>7, <1>8, <3>1
    <3>2. CASE e # d
      BY <1>2, <1>3, <3>2 DEF WaitInv
    <3> QED
      BY <3>1, <3>2
  <2> QED
    BY <1>2, <2>1 DEF WaitInv
<1> QED
  BY <1>1, <1>2, <1>9

LEMMA TakeSentEffect ==
  ASSUME WaitInv, NEW r \in Procs, NEW s, IPC!TakeSent(r, s)
  PROVE  \E y \in Procs :
           /\ WaitInv'
           /\ wait[r] = Free /\ wait[y] = Sending(r) /\ s \in {y, ANY}
           /\ \A x \in Procs : wait'[x] = IF x = y THEN Free ELSE wait[x]
           /\ \A x \in Procs : box'[x] = IF x = r THEN box[y] ELSE box[x]
<1>1. PICK i \in IPC!Accepts(r, s) :
        /\ box' = [box EXCEPT ![r] = box[senders[r][i]]]
        /\ wait' = [wait EXCEPT ![senders[r][i]] = Free]
        /\ senders' = [senders EXCEPT ![r] = IPC!Without(@, i)]
  BY DEF IPC!TakeSent, Free
<1> DEFINE y == senders[r][i]
           n == Len(senders[r])
<1>2. i \in 1 .. n /\ s \in {y, ANY}
  BY <1>1 DEF IPC!Accepts
<1>3. senders[r] \in Seq(Procs) /\ n \in Nat /\ y \in Procs /\ wait[y] = Sending(r)
      /\ wait[r] = Free
  BY <1>2 DEF WaitInv, IPC!TakeSent, Free
<1>4. /\ \A x \in Procs : wait'[x] = IF x = y THEN Free ELSE wait[x]
      /\ \A x \in Procs : box'[x] = IF x = r THEN box[y] ELSE box[x]
      /\ DOMAIN wait' = Procs /\ DOMAIN box' = Procs /\ DOMAIN senders' = Procs
      /\ senders'[r] = IPC!Without(senders[r], i)
      /\ \A e \in Procs : e # r => senders'[e] = senders[e]
  BY <1>1, <1>3 DEF WaitInv
<1>5. senders'[r] = [j \in 1 .. n - 1 |-> IF j < i THEN senders[r][j] ELSE senders[r][j + 1]]
  BY <1>4 DEF IPC!Without
<1>6. /\ \A e \in Procs : \A j \in 1 .. Len(senders[e]) : senders[e][j] \in Procs
      /\ \A e \in Procs : \A j \in 1 .. Len(senders[e]) : wait[senders[e][j]] = Sending(e)
      /\ \A j, k \in 1 .. n : senders[r][j] = senders[r][k] => j = k
  BY DEF WaitInv
<1>7. n - 1 \in Nat /\ \A j \in 1 .. n - 1 : j \in 1 .. n /\ j + 1 \in 1 .. n
  BY <1>2, <1>3
<1>8. \A j \in 1 .. n - 1 :
        /\ j < i => senders'[r][j] = senders[r][j] /\ senders[r][j] # y
        /\ ~(j < i) => senders'[r][j] = senders[r][j + 1] /\ senders[r][j + 1] # y
  BY <1>2, <1>3, <1>5, <1>6, <1>7
<1> HIDE DEF y
<1>9. \A j \in 1 .. n - 1 : senders'[r][j] \in Procs /\ senders'[r][j] # y
                            /\ wait[senders'[r][j]] = Sending(r)
  BY <1>6, <1>7, <1>8
<1>10. senders'[r] \in Seq(Procs) /\ Len(senders'[r]) = n - 1
  <2> HIDE DEF n
  <2>1. senders'[r] \in [1 .. n - 1 -> Procs]
    BY <1>5, <1>9
  <2> QED
    BY <1>7, <2>1
<1>11. \A j, k \in 1 .. n - 1 : senders'[r][j] = senders'[r][k] => j = k
  <2> SUFFICES ASSUME NEW j \in 1 .. n - 1, NEW k \in 1 .. n - 1, senders'[r][j] = senders'[r][k]
               PROVE  j = k
    OBVIOUS
  <2> DEFINE old(l) == IF l < i THEN l ELSE l + 1
  <2>1. senders'[r][j] = senders[r][old(j)] /\ senders'[r][k] = senders[r][old(k)]
    BY <1>8
  <2>2. old(j) \in 1 .. n /\ old(k) \in 1 .. n
    BY <1>7
  <2>3. old(j) = old(k)
    <3> HIDE DEF old
    <3> QED
      BY <1>6, <2>1, <2>2
  <2> QED
    BY <1>2, <1>3, <2>3
<1>12. \A j \in 1 .. n - 1 : wait'[senders'[r][j]] = Sending(r)
  BY <1>4, <1>9
<1>13. ASSUME NEW e \in Procs, e # r, NEW j \in 1 .. Len(senders[e])
       PROVE  wait'[senders[e][j]] = Sending(e)
  <2>1. wait[senders[e][j]] = Sending(e) /\ senders[e][j] \in Procs
    BY <1>6
  <2>2. Sending(e) # Sending(r)
    BY <1>13 DEF Sending
  <2>3. senders[e][j] # y
    BY <1>3, <2>1, <2>2
  <2> QED
    BY <1>4, <2>1, <2>3
<1>14. WaitInv'
  <2> HIDE DEF n
  <2>1. ASSUME NEW e \in Procs
        PROVE  /\ senders'[e] \in Seq(Procs)
               /\ \A j \in 1 .. Len(senders'[e]) : wait'[senders'[e][j]] = Sending(e)
               /\ \A j, k \in 1 .. Len(senders'[e]) : senders'[e][j] = senders'[e][k] => j = k
    <3>1. CASE e = r
      BY <1>10, <1>11, <1>12, <3>1
    <3>2. CASE e # r
      BY <1>4, <1>13, <3>2 DEF WaitInv
    <3> QED
      BY <3>1, <3>2
  <2> QED
    BY <1>4, <2>1 DEF WaitInv
<1>15. s \in {y, ANY}
  BY <1>2 DEF y
<1> QED
  BY <1>3, <1>4, <1>14, <1>15

LEMMA BlockReceiveEffect ==
  ASSUME WaitInv, NEW r \in Procs, NEW s, IPC!BlockReceive(r, s)
  PROVE  /\ WaitInv'
         /\ wait[r] = Free
         /\ \A x \in Procs : wait'[x] = IF x = r THEN Receiving(s) ELSE wait[x]
         /\ \A x \in Procs : x # r => box'[x] = box[x]
<1>1. /\ wait[r] = Free /\ senders' = senders
      /\ wait' = [wait EXCEPT ![r] = Receiving(s)]
      /\ box' = [box EXCEPT ![r].source = r]
  BY DEF IPC!BlockReceive, Free, Receiving
<1>2. /\ \A x \in Procs : wait'[x] = IF x = r THEN Receiving(s) ELSE wait[x]
      /\ \A x \in Procs : x # r => box'[x] = box[x]
      /\ DOMAIN wait' = Procs /\ DOMAIN box' = Procs
  BY <1>1 DEF WaitInv
<1>3. ASSUME NEW e \in Procs, NEW i \in 1 .. Len(senders[e])
      PROVE  wait'[senders[e][i]] = Sending(e)
  <2>1. senders[e][i] \in Procs /\ wait[senders[e][i]] = Sending(e)
    BY DEF WaitInv
  <2>2. senders[e][i] # r
    BY <1>1, <2>1 DEF Sending, Free, IPC!Free
  <2> QED
    BY <1>2, <2>1, <2>2
<1>4. WaitInv'
  BY <1>1, <1>2, <1>3 DEF WaitInv
<1> QED
  BY <1>1, <1>2, <1>4

-----------------------------------------------------------------------------
(* The queue.                                                              *)

LEMMA QueueFacts ==
  ASSUME QInv
  PROVE  /\ q.head \in Index /\ q.tail \in Index /\ DOMAIN q.list = Index
         /\ q.list[q.tail] = ZERO
         /\ ~ioqueue_isempty => q.list[q.head] \in IOQuest
<1>1. q.head \in Index /\ q.tail \in Index /\ DOMAIN q.list = Index
  BY DEF QInv, QTypeOK
<1>2. q.list[q.tail] = ZERO
  BY <1>1, Positions DEF QInv, HoldsRequests
<1>3. ~ioqueue_isempty => q.list[q.head] \in IOQuest
  <2>1. ~ioqueue_isempty => 1 \in 1 .. Size /\ Pos(1) = q.head
    BY Positions DEF QInv
  <2> QED
    BY <2>1 DEF QInv, HoldsRequests
<1> QED
  BY <1>1, <1>2, <1>3

\* Taking a request out makes room.
LEMMA DequeueMakesRoom ==
  ASSUME QInv, NEW e, iodequeue(e)
  PROVE  ~ioqueue_isfull'
<1>1. FS_IOQUEUE_LEN \in Nat \ {0} /\ q.head \in Index /\ q.tail \in Index /\ q.tail # q.head
  BY QueueAssumption DEF QInv, QTypeOK, iodequeue, ioqueue_isempty
<1>2. q'.tail = q.tail /\ q'.head = (q.head + 1) % FS_IOQUEUE_LEN
  BY DEF iodequeue, QInv, QTypeOK
<1>3. q'.head = IF q.head + 1 = FS_IOQUEUE_LEN THEN 0 ELSE q.head + 1
  BY <1>1, <1>2, Successor DEF Index
<1>4. q'.head \in Index
  BY <1>1, <1>3 DEF Index
<1>5. ioqueue_isfull' <=> q.tail + 1 = q'.head \/ q.tail + 1 - q'.head = FS_IOQUEUE_LEN
  BY <1>1, <1>2, <1>4, FullTest DEF ioqueue_isfull, Index
<1> QED
  BY <1>1, <1>3, <1>5 DEF Index

LEMMA QueueSame ==
  ASSUME QInv, q' = q
  PROVE  /\ QInv'
         /\ ioqueue_isfull' = ioqueue_isfull /\ ioqueue_isempty' = ioqueue_isempty
         /\ ioqueue_init' = ioqueue_init
         /\ \A i, u : QueuedAt(i, u)' = QueuedAt(i, u)
         /\ \A u : InQueue(u)' = InQueue(u)
  BY DEF QInv, QTypeOK, HoldsRequests, Size, Pos, ioqueue_isfull, ioqueue_isempty,
         ioqueue_init, QueuedAt, InQueue

-----------------------------------------------------------------------------
(* The steps of a user process.                                            *)

LEMMA Pids ==
  /\ FS \in Procs /\ TTY \in Procs /\ FSS \in Procs
  /\ \A u \in Users : u \in Procs /\ u # FS /\ u # TTY /\ u # FSS /\ u # ANY
  /\ FS # TTY /\ FS # FSS /\ TTY # FSS /\ FS # ANY /\ TTY # ANY
  BY ProcsAssumption DEF Procs

LEMMA Ops ==
  /\ Free.op = "none"
  /\ \A d : Sending(d).op = "send" /\ Sending(d).peer = d
  /\ \A d : Receiving(d).op = "recv" /\ Receiving(d).peer = d
  BY DEF Free, IPC!Free, Sending, Receiving

\* The answers and the calls on the way belong to processes that wait for them.
LEMMA Owners ==
  ASSUME FInv
  PROVE  /\ pc[FS] = "dispatch" /\ wait[FS] = Free /\ box[FS].source \in Users =>
              Pending(box[FS].source)
         /\ pc[FS] = "dispatch" /\ wait[FS] = Free /\ box[FS].source = TTY /\ box[FS].body.p1 \in Users =>
              Pending(box[FS].body.p1)
         /\ pc[FS] \in {"isfull", "enqueue"} => Pending(msg.source)
         /\ pc[FS] = "resume" => Pending(msg.body.p1)
         /\ wait[FS].op = "send" => Pending(wait[FS].peer) /\ wait[FS] = Sending(wait[FS].peer)
         /\ \A i \in Index : q.list[i] # ZERO => Pending(q.list[i].source)
         /\ pc[TTY] = "serve" => Pending(elem.source)
         /\ wait[TTY].op = "send" => Pending(box[TTY].body.p1)
<1>1. ContentInv /\ ControlInv /\ \A u \in Users : Somewhere(u) => Pending(u)
  BY DEF FInv, PlaceInv
<1>2. TtyUsers \subseteq Users
  BY DEF TtyUsers
<1>3. /\ pc[FS] = "dispatch" /\ wait[FS] = Free /\ box[FS].source \in Users =>
           Pending(box[FS].source)
      /\ pc[FS] = "dispatch" /\ wait[FS] = Free /\ box[FS].source = TTY /\ box[FS].body.p1 \in Users =>
           Pending(box[FS].body.p1)
  BY <1>1 DEF Somewhere, HeldByFS, AnswerAtFS, Free
<1>4. pc[FS] \in {"isfull", "enqueue"} => Pending(msg.source)
  BY <1>1, <1>2 DEF Somewhere, HeldByFS, ContentInv, FsContent
<1>5. pc[FS] = "resume" => Pending(msg.body.p1)
  BY <1>1, <1>2 DEF Somewhere, AnswerAtFS, ContentInv, FsContent
<1>6. wait[FS].op = "send" => Pending(wait[FS].peer) /\ wait[FS] = Sending(wait[FS].peer)
  <2> SUFFICES ASSUME wait[FS].op = "send"
               PROVE  Pending(wait[FS].peer) /\ wait[FS] = Sending(wait[FS].peer)
    OBVIOUS
  <2>1. PICK u \in Users : wait[FS] = Sending(u)
    BY <1>1, Ops DEF ControlInv
  <2>2. AnswerAtFS(u)
    BY <2>1 DEF AnswerAtFS, Sending
  <2> QED
    BY <1>1, <2>1, <2>2, Ops DEF Somewhere
<1>7. \A i \in Index : q.list[i] # ZERO => Pending(q.list[i].source)
  BY <1>1, <1>2 DEF Somewhere, InQueue, QueuedAt, ContentInv, QueueContent
<1>8. pc[TTY] = "serve" => Pending(elem.source)
  BY <1>1, <1>2 DEF Somewhere, AnswerAtTTY, ContentInv, TtyContent
<1>9. wait[TTY].op = "send" => Pending(box[TTY].body.p1)
  BY <1>1, <1>2 DEF Somewhere, AnswerAtTTY, ContentInv, TtyContent
<1> QED
  BY <1>3, <1>4, <1>5, <1>6, <1>7, <1>8, <1>9

LEMMA UserSendStep ==
  ASSUME FInv, NEW u \in Users, UserSend(u)
  PROVE  FInv'
<1>1. /\ pc[u] = "user" /\ wait[u] = Free
      /\ pc' = [pc EXCEPT ![u] = "sent"] /\ q' = q /\ msg' = msg /\ elem' = elem
      /\ ttyproc_queue' = ttyproc_queue /\ panicked' = panicked
  BY DEF UserSend, Here, Goto, Free
<1>2. PICK c \in Calls :
        /\ call' = [call EXCEPT ![u] = Msg(c[1], c[2], 1 - call[u].p1)]
        /\ SEND(u, FS, Msg(c[1], c[2], 1 - call[u].p1))
  BY DEF UserSend
<1>3. PICK m : m = Msg(c[1], c[2], 1 - call[u].p1)
  OBVIOUS
<1>4. m \in CallMsgs /\ m.p1 \in {0, 1}
  <2>1. PICK t \in {0, 1} : t = 1 - call[u].p1
    BY DEF FInv, ContentInv, CallContent
  <2>2. m = Msg(c[1], c[2], t) /\ m.p1 = t
    BY <1>3, <2>1 DEF Msg
  <2> QED
    BY <2>1, <2>2 DEF CallMsgs
<1>5. /\ DOMAIN call' = Users /\ call'[u] = m
      /\ \A x \in Users : x # u => call'[x] = call[x]
      /\ DOMAIN pc' = Procs /\ \A x \in Procs : pc'[x] = IF x = u THEN "sent" ELSE pc[x]
  BY <1>1, <1>2, <1>3 DEF FInv, ContentInv, CallContent, ControlInv
<1>6. IPC!Deliver(u, FS, m) \/ IPC!BlockSend(u, FS, m)
  BY <1>2, <1>3 DEF SEND, IPC!Deliver, IPC!BlockSend
<1>7. QInv' /\ ioqueue_isfull' = ioqueue_isfull /\ ioqueue_init' = ioqueue_init
      /\ \A i, x : QueuedAt(i, x)' = QueuedAt(i, x)
      /\ \A w : InQueue(w)' = InQueue(w)
  BY <1>1, QueueSame DEF FInv
<1>8. ~Pending(u)
  BY <1>1 DEF Pending
<1>9. ~HeldByFS(u) /\ ~InQueue(u) /\ ~AnswerAtTTY(u) /\ ~AnswerAtFS(u)
  BY <1>8 DEF FInv, PlaceInv, Somewhere
<1>10. u \in Procs /\ u # FS /\ u # TTY /\ u # FSS
  BY Pids
<1>11. CASE IPC!Deliver(u, FS, m)
  <2>1. /\ WaitInv' /\ wait[FS].op = "recv"
        /\ \A x \in Procs : wait'[x] = IF x = FS THEN Free ELSE wait[x]
        /\ \A x \in Procs : box'[x] = IF x \in {u, FS} THEN [source |-> u, body |-> m] ELSE box[x]
    BY <1>11, Pids, DeliverEffect DEF FInv
  <2>2. pc[FS] = "dispatch" /\ wait[FS] = Receiving(ANY)
    BY <2>1, Ops DEF FInv, ControlInv
  <2>3. ControlInv'
    <3>1. \A x \in Users : UserControl(x)'
      BY <1>1, <1>5, <2>1, Pids DEF FInv, ControlInv, UserControl
    <3>2. TypeOK'
      BY <1>1, <1>5, <1>7, Pids DEF FInv, ControlInv, TypeOK, QInv
    <3> QED
      BY <1>1, <1>5, <1>7, <2>1, <2>2, <3>1, <3>2, Pids DEF FInv, ControlInv
  <2>4. ContentInv'
    <3>1. CallContent'
      <4>1. \A x \in Users : call'[x].p1 \in {0, 1} /\ (pc'[x] # "user" => call'[x] \in CallMsgs)
        BY <1>4, <1>5, <1>10, Pids DEF FInv, ContentInv, CallContent
      <4>2. \A x \in Users : wait'[x].op = "send" => box'[x] = CallOf(x)'
        BY <1>1, <1>5, <2>1, Pids, Ops DEF FInv, ContentInv, CallContent, CallOf
      <4> QED
        BY <1>5, <4>1, <4>2 DEF CallContent
    <3>2. pc'[FS] = "dispatch" /\ wait'[FS].op = "none" /\ wait'[TTY] = wait[TTY]
          /\ box'[TTY] = box[TTY] /\ pc'[TTY] = pc[TTY]
      BY <1>5, <1>10, <2>1, <2>2, Pids, Ops
    <3>3. FsContent'
      <4>1. Received'
        BY <1>5, <2>1, Pids DEF Received, CallOf
      <4> QED
        BY <3>2, <4>1 DEF FsContent
    <3>4. QueueContent'
      <4>1. \A i \in Index : q.list[i] # ZERO => q.list[i].source # u
        BY <1>8, Owners
      <4> QED
        BY <1>1, <1>5, <4>1 DEF FInv, ContentInv, QueueContent, TtyUsers, CallOf
    <3>5. TtyContent'
      <4>1. pc[TTY] = "serve" => elem.source # u
        BY <1>8, Owners
      <4>2. wait[TTY].op = "send" => box[TTY].body.p1 # u
        BY <1>8, Owners
      <4> QED
        BY <1>1, <1>5, <3>2, <4>1, <4>2 DEF FInv, ContentInv, TtyContent, TtyUsers, CallOf, Result
    <3>6. RightAnswer'
      BY <1>5, <2>1, Pids DEF FInv, ContentInv, RightAnswer, Answered
    <3> QED
      BY <3>1, <3>3, <3>4, <3>5, <3>6 DEF ContentInv
  <2>5. /\ \A x \in Users : HeldByFS(x)' <=> x = u
        /\ \A x \in Users : ~HeldByFS(x) /\ ~AnswerAtFS(x) /\ ~AnswerAtFS(x)'
        /\ \A x \in Users : AnswerAtTTY(x)' <=> AnswerAtTTY(x)
        /\ \A x \in Users : Pending(x)' <=> (x = u \/ Pending(x))
    <3>1. \A x \in Users : ~HeldByFS(x) /\ ~AnswerAtFS(x)
      BY <2>2 DEF HeldByFS, AnswerAtFS, Receiving, IPC!Free
    <3>2. \A x \in Users : (HeldByFS(x)' <=> x = u) /\ ~AnswerAtFS(x)'
      BY <1>5, <2>1, <2>2, Pids DEF HeldByFS, AnswerAtFS, Free, IPC!Free
    <3>3. \A x \in Users : AnswerAtTTY(x)' <=> AnswerAtTTY(x)
      BY <1>1, <1>5, <2>1, Pids DEF AnswerAtTTY
    <3>4. \A x \in Users : Pending(x)' <=> (x = u \/ Pending(x))
      BY <1>1, <1>5, <2>1, Pids DEF Pending
    <3> QED
      BY <3>1, <3>2, <3>3, <3>4
  <2>6. PlaceInv'
    BY <1>5, <1>7, <1>8, <1>9, <2>5 DEF FInv, PlaceInv, Somewhere, Exclusive, TtyUsers
  <2> QED
    BY <1>7, <2>1, <2>3, <2>4, <2>6 DEF FInv
<1>12. CASE IPC!BlockSend(u, FS, m)
  <2>1. /\ WaitInv'
        /\ \A x \in Procs : wait'[x] = IF x = u THEN Sending(FS) ELSE wait[x]
        /\ \A x \in Procs : box'[x] = IF x = u THEN [source |-> u, body |-> m] ELSE box[x]
    BY <1>12, Pids, BlockSendEffect DEF FInv
  <2>2. /\ wait'[FS] = wait[FS] /\ box'[FS] = box[FS] /\ pc'[FS] = pc[FS]
        /\ wait'[TTY] = wait[TTY] /\ box'[TTY] = box[TTY] /\ pc'[TTY] = pc[TTY]
        /\ wait'[FSS] = wait[FSS]
    BY <1>5, <1>10, <2>1, Pids
  <2>3. ControlInv'
    <3>1. \A x \in Users : UserControl(x)'
      BY <1>1, <1>5, <2>1, Pids DEF FInv, ControlInv, UserControl
    <3>2. TypeOK'
      BY <1>1, <1>5, <1>7, Pids DEF FInv, ControlInv, TypeOK, QInv
    <3> QED
      BY <1>1, <1>5, <1>7, <2>2, <3>1, <3>2 DEF FInv, ControlInv
  <2>4. ContentInv'
    <3>1. CallContent'
      <4>1. \A x \in Users : call'[x].p1 \in {0, 1} /\ (pc'[x] # "user" => call'[x] \in CallMsgs)
        BY <1>4, <1>5, <1>10, Pids DEF FInv, ContentInv, CallContent
      <4>2. \A x \in Users : wait'[x].op = "send" => box'[x] = CallOf(x)'
        BY <1>1, <1>5, <2>1, Pids, Ops DEF FInv, ContentInv, CallContent, CallOf
      <4> QED
        BY <1>5, <4>1, <4>2 DEF CallContent
    <3>2. FsContent'
      <4>1. pc[FS] = "dispatch" /\ wait[FS] = Free => Received'
        <5>1. pc[FS] = "dispatch" /\ wait[FS] = Free => Received /\ box[FS].source # u
              /\ (box[FS].source = TTY => box[FS].body.p1 # u)
          BY <1>8, Owners DEF FInv, ContentInv, FsContent
        <5>2. Received /\ box[FS].source # u /\ (box[FS].source = TTY => box[FS].body.p1 # u)
                => Received'
          BY <1>5, <2>2 DEF Received, TtyUsers, CallOf, Result
        <5> QED
          BY <5>1, <5>2
      <4>2. pc[FS] \in {"isfull", "enqueue"} => msg.source # u
        BY <1>8, Owners
      <4>3. pc[FS] = "resume" => msg.body.p1 # u
        BY <1>8, Owners
      <4>4. wait[FS].op = "send" => wait[FS].peer # u
        BY <1>8, Owners
      <4> QED
        BY <1>1, <1>5, <2>2, <4>1, <4>2, <4>3, <4>4
           DEF FInv, ContentInv, FsContent, TtyUsers, CallOf, Result, AnswerTo
    <3>3. QueueContent'
      <4>1. \A i \in Index : q.list[i] # ZERO => q.list[i].source # u
        BY <1>8, Owners
      <4> QED
        BY <1>1, <1>5, <4>1 DEF FInv, ContentInv, QueueContent, TtyUsers, CallOf
    <3>4. TtyContent'
      <4>1. pc[TTY] = "serve" => elem.source # u
        BY <1>8, Owners
      <4>2. wait[TTY].op = "send" => box[TTY].body.p1 # u
        BY <1>8, Owners
      <4> QED
        BY <1>1, <1>5, <2>2, <4>1, <4>2 DEF FInv, ContentInv, TtyContent, TtyUsers, CallOf, Result
    <3>5. RightAnswer'
      BY <1>5, <2>1, Pids DEF FInv, ContentInv, RightAnswer, Answered
    <3> QED
      BY <3>1, <3>2, <3>3, <3>4, <3>5 DEF ContentInv
  <2>5. /\ \A x \in Users : HeldByFS(x)' <=> HeldByFS(x)
        /\ \A x \in Users : AnswerAtFS(x)' <=> AnswerAtFS(x)
        /\ \A x \in Users : AnswerAtTTY(x)' <=> AnswerAtTTY(x)
        /\ \A x \in Users : Pending(x)' <=> Pending(x)
    <3>1. \A x \in Users : /\ HeldByFS(x)' <=> HeldByFS(x)
                           /\ AnswerAtFS(x)' <=> AnswerAtFS(x)
                           /\ AnswerAtTTY(x)' <=> AnswerAtTTY(x)
      BY <1>1, <2>2 DEF HeldByFS, AnswerAtFS, AnswerAtTTY
    <3>2. \A x \in Users : Pending(x)' <=> Pending(x)
      BY <1>1, <1>5, <2>1, Pids DEF Pending, Sending, Free, IPC!Free
    <3> QED
      BY <3>1, <3>2
  <2>6. PlaceInv'
    BY <1>5, <1>7, <1>8, <2>5 DEF FInv, PlaceInv, Somewhere, Exclusive, TtyUsers
  <2> QED
    BY <1>7, <2>1, <2>3, <2>4, <2>6 DEF FInv
<1> QED
  BY <1>6, <1>11, <1>12

LEMMA UserReceiveStep ==
  ASSUME FInv, NEW u \in Users, UserReceive(u)
  PROVE  FInv'
<1>1. /\ pc[u] = "sent" /\ wait[u] = Free
      /\ pc' = [pc EXCEPT ![u] = "returned"] /\ q' = q /\ msg' = msg /\ elem' = elem
      /\ call' = call /\ ttyproc_queue' = ttyproc_queue /\ panicked' = panicked
      /\ IPC!TakeSent(u, FS) \/ IPC!BlockReceive(u, FS)
  BY DEF UserReceive, Here, Goto, Free, RECEIVE, local
<1>2. DOMAIN pc' = Procs /\ \A x \in Procs : pc'[x] = IF x = u THEN "returned" ELSE pc[x]
  BY <1>1 DEF FInv, ControlInv
<1>3. QInv' /\ ioqueue_isfull' = ioqueue_isfull /\ ioqueue_init' = ioqueue_init
      /\ \A i, x : QueuedAt(i, x)' = QueuedAt(i, x)
      /\ \A w : InQueue(w)' = InQueue(w)
  BY <1>1, QueueSame DEF FInv
<1>4. u \in Procs /\ u # FS /\ u # TTY /\ u # FSS
  BY Pids
<1>5. TypeOK'
  BY <1>1, <1>2, <1>3, Pids DEF FInv, ControlInv, TypeOK, QInv
<1>6. QueueContent'
  BY <1>1 DEF FInv, ContentInv, QueueContent, TtyUsers, CallOf
<1>7. CASE IPC!TakeSent(u, FS)
  <2>1. PICK y \in Procs :
          /\ WaitInv'
          /\ wait[y] = Sending(u) /\ FS \in {y, ANY}
          /\ \A x \in Procs : wait'[x] = IF x = y THEN Free ELSE wait[x]
          /\ \A x \in Procs : box'[x] = IF x = u THEN box[y] ELSE box[x]
    BY <1>7, Pids, TakeSentEffect DEF FInv
  <2>2. y = FS /\ wait[FS] = Sending(u) /\ pc[FS] = "receive"
    <3>1. y = FS /\ wait[FS] = Sending(u)
      BY <2>1, Pids
    <3> QED
      BY <3>1, Ops DEF FInv, ControlInv
  <2>3. u \in TtyUsers /\ box[FS] = AnswerTo(u)
    BY <2>2, Ops DEF FInv, ContentInv, FsContent
  <2>4. /\ wait'[FS] = Free /\ box'[FS] = box[FS] /\ pc'[FS] = "receive"
        /\ wait'[TTY] = wait[TTY] /\ box'[TTY] = box[TTY] /\ pc'[TTY] = pc[TTY]
        /\ wait'[FSS] = wait[FSS] /\ box'[u] = AnswerTo(u)
        /\ \A x \in Users : wait'[x] = wait[x]
        /\ \A x \in Users : x # u => box'[x] = box[x]
    BY <1>2, <1>4, <2>1, <2>2, <2>3, Pids
  <2>5. ControlInv'
    <3>1. \A x \in Users : UserControl(x)'
      BY <1>1, <1>2, <2>4, Pids DEF FInv, ControlInv, UserControl
    <3> QED
      BY <1>1, <1>2, <1>3, <1>5, <2>2, <2>4, <3>1 DEF FInv, ControlInv
  <2>6. ContentInv'
    <3>1. CallContent'
      BY <1>1, <1>2, <2>4, Pids, Ops DEF FInv, ContentInv, CallContent, CallOf
    <3>2. FsContent'
      BY <2>4, Ops DEF FsContent
    <3>3. TtyContent'
      BY <1>1, <2>4 DEF FInv, ContentInv, TtyContent, TtyUsers, CallOf, Result
    <3>4. RightAnswer'
      BY <1>1, <1>2, <2>4, Pids DEF FInv, ContentInv, RightAnswer, Answered, AnswerTo
    <3> QED
      BY <1>6, <3>1, <3>2, <3>3, <3>4 DEF ContentInv
  <2>7. /\ \A x \in Users : ~HeldByFS(x)' /\ ~HeldByFS(x) /\ ~AnswerAtFS(x)'
        /\ \A x \in Users : AnswerAtFS(x) <=> x = u
        /\ \A x \in Users : AnswerAtTTY(x)' <=> AnswerAtTTY(x)
        /\ \A x \in Users : Pending(x)' <=> Pending(x) /\ x # u
    <3>1. \A x \in Users : ~HeldByFS(x)' /\ ~HeldByFS(x) /\ ~AnswerAtFS(x)'
      BY <2>2, <2>4 DEF HeldByFS, AnswerAtFS, Free, IPC!Free
    <3>2. \A x \in Users : AnswerAtFS(x) <=> x = u
      BY <2>2 DEF AnswerAtFS, Sending
    <3>3. \A x \in Users : AnswerAtTTY(x)' <=> AnswerAtTTY(x)
      BY <1>1, <2>4 DEF AnswerAtTTY
    <3>4. \A x \in Users : Pending(x)' <=> Pending(x) /\ x # u
      BY <1>1, <1>2, <2>4, Pids DEF Pending, Receiving, Free, IPC!Free
    <3> QED
      BY <3>1, <3>2, <3>3, <3>4
  <2>8. PlaceInv'
    BY <1>1, <1>3, <2>7 DEF FInv, PlaceInv, Somewhere, Exclusive, TtyUsers
  <2> QED
    BY <1>3, <2>1, <2>5, <2>6, <2>8 DEF FInv
<1>8. CASE IPC!BlockReceive(u, FS)
  <2>1. /\ WaitInv'
        /\ \A x \in Procs : wait'[x] = IF x = u THEN Receiving(FS) ELSE wait[x]
        /\ \A x \in Procs : x # u => box'[x] = box[x]
    BY <1>8, Pids, BlockReceiveEffect DEF FInv
  <2>2. /\ wait'[FS] = wait[FS] /\ box'[FS] = box[FS] /\ pc'[FS] = pc[FS]
        /\ wait'[TTY] = wait[TTY] /\ box'[TTY] = box[TTY] /\ pc'[TTY] = pc[TTY]
        /\ wait'[FSS] = wait[FSS]
    BY <1>2, <1>4, <2>1, Pids
  <2>3. ControlInv'
    <3>1. \A x \in Users : UserControl(x)'
      BY <1>1, <1>2, <2>1, Pids DEF FInv, ControlInv, UserControl
    <3> QED
      BY <1>1, <1>2, <1>3, <1>5, <2>2, <3>1 DEF FInv, ControlInv
  <2>4. ContentInv'
    <3>1. CallContent'
      BY <1>1, <1>2, <2>1, Pids, Ops DEF FInv, ContentInv, CallContent, CallOf
    <3>2. FsContent'
      BY <1>1, <2>2
         DEF FInv, ContentInv, FsContent, Received, TtyUsers, CallOf, Result, AnswerTo
    <3>3. TtyContent'
      BY <1>1, <2>2 DEF FInv, ContentInv, TtyContent, TtyUsers, CallOf, Result
    <3>4. RightAnswer'
      BY <1>1, <1>2, <2>1, Pids DEF FInv, ContentInv, RightAnswer, Answered, Receiving, IPC!Free
    <3> QED
      BY <1>6, <3>1, <3>2, <3>3, <3>4 DEF ContentInv
  <2>5. /\ \A x \in Users : HeldByFS(x)' <=> HeldByFS(x)
        /\ \A x \in Users : AnswerAtFS(x)' <=> AnswerAtFS(x)
        /\ \A x \in Users : AnswerAtTTY(x)' <=> AnswerAtTTY(x)
        /\ \A x \in Users : Pending(x)' <=> Pending(x)
    <3>1. \A x \in Users : /\ HeldByFS(x)' <=> HeldByFS(x)
                           /\ AnswerAtFS(x)' <=> AnswerAtFS(x)
                           /\ AnswerAtTTY(x)' <=> AnswerAtTTY(x)
      BY <1>1, <2>2 DEF HeldByFS, AnswerAtFS, AnswerAtTTY
    <3>2. \A x \in Users : Pending(x)' <=> Pending(x)
      BY <1>1, <1>2, <2>1, Pids DEF Pending, Receiving, Free, IPC!Free
    <3> QED
      BY <3>1, <3>2
  <2>6. PlaceInv'
    BY <1>1, <1>3, <2>5 DEF FInv, PlaceInv, Somewhere, Exclusive, TtyUsers
  <2> QED
    BY <1>3, <2>1, <2>3, <2>4, <2>6 DEF FInv
<1> QED
  BY <1>1, <1>7, <1>8

LEMMA WaitSame ==
  ASSUME WaitInv, UNCHANGED ipc
  PROVE  WaitInv'
  BY DEF WaitInv, ipc

LEMMA UserReturnStep ==
  ASSUME FInv, NEW u \in Users, UserReturn(u)
  PROVE  FInv'
<1>1. /\ pc[u] = "returned" /\ wait[u] = Free
      /\ pc' = [pc EXCEPT ![u] = "user"] /\ q' = q /\ msg' = msg /\ elem' = elem
      /\ call' = call /\ ttyproc_queue' = ttyproc_queue /\ panicked' = panicked
      /\ UNCHANGED ipc /\ wait' = wait /\ box' = box
  BY DEF UserReturn, Here, Goto, Free, local, ipc
<1>2. /\ DOMAIN pc' = Procs /\ \A x \in Procs : pc'[x] = IF x = u THEN "user" ELSE pc[x]
      /\ pc'[FS] = pc[FS] /\ pc'[TTY] = pc[TTY]
  BY <1>1, Pids DEF FInv, ControlInv
<1>3. QInv' /\ ioqueue_isfull' = ioqueue_isfull /\ ioqueue_init' = ioqueue_init
      /\ \A i, x : QueuedAt(i, x)' = QueuedAt(i, x)
      /\ \A w : InQueue(w)' = InQueue(w)
  BY <1>1, QueueSame DEF FInv
<1>4. WaitInv'
  BY <1>1, WaitSame DEF FInv
<1>5. ControlInv'
  <2>1. TypeOK'
    BY <1>1, <1>2, <1>3, Pids DEF FInv, ControlInv, TypeOK, QInv
  <2>2. \A x \in Users : UserControl(x)'
    BY <1>1, <1>2, Pids DEF FInv, ControlInv, UserControl
  <2> QED
    BY <1>1, <1>2, <1>3, <2>1, <2>2 DEF FInv, ControlInv
<1>6. ContentInv'
  <2>1. CallContent'
    BY <1>1, <1>2, Pids DEF FInv, ContentInv, CallContent, CallOf
  <2>2. FsContent'
    BY <1>1, <1>2
       DEF FInv, ContentInv, FsContent, Received, TtyUsers, CallOf, Result, AnswerTo
  <2>3. QueueContent' /\ TtyContent'
    BY <1>1, <1>2 DEF FInv, ContentInv, QueueContent, TtyContent, TtyUsers, CallOf, Result
  <2>4. RightAnswer'
    BY <1>1, <1>2, Pids DEF FInv, ContentInv, RightAnswer, Answered
  <2> QED
    BY <2>1, <2>2, <2>3, <2>4 DEF ContentInv
<1>7. \A x \in Users : /\ HeldByFS(x)' <=> HeldByFS(x)
                       /\ AnswerAtFS(x)' <=> AnswerAtFS(x)
                       /\ AnswerAtTTY(x)' <=> AnswerAtTTY(x)
  BY <1>1, <1>2 DEF HeldByFS, AnswerAtFS, AnswerAtTTY
<1>8. \A x \in Users : Pending(x)' <=> Pending(x)
  BY <1>1, <1>2, Pids DEF Pending, Receiving, Free, IPC!Free
<1>9. PlaceInv'
  BY <1>1, <1>3, <1>7, <1>8 DEF FInv, PlaceInv, Somewhere, Exclusive, TtyUsers
<1> QED
  BY <1>3, <1>4, <1>5, <1>6, <1>9 DEF FInv

-----------------------------------------------------------------------------
(* The steps of FS.                                                        *)

\* A step of FS or of TTY0 that makes no call of the kernel leaves the user
\* processes as they are.
LEMMA UsersSame ==
  ASSUME FInv, NEW p \in {FS, TTY}, NEW l, pc' = [pc EXCEPT ![p] = l],
         call' = call, wait' = wait, box' = box
  PROVE  /\ DOMAIN pc' = Procs /\ \A x \in Procs : pc'[x] = IF x = p THEN l ELSE pc[x]
         /\ \A x \in Users : pc'[x] = pc[x] /\ UserControl(x)'
         /\ CallContent' /\ RightAnswer' /\ TtyUsers' = TtyUsers /\ TtyUsers \subseteq Users
         /\ \A x \in Users : Pending(x)' <=> Pending(x)
<1>1. DOMAIN pc' = Procs /\ \A x \in Procs : pc'[x] = IF x = p THEN l ELSE pc[x]
  BY DEF FInv, ControlInv
<1>2. \A x \in Users : pc'[x] = pc[x]
  BY <1>1, Pids
<1>3. \A x \in Users : UserControl(x)'
  BY <1>2 DEF FInv, ControlInv, UserControl
<1>4. CallContent' /\ TtyUsers' = TtyUsers /\ TtyUsers \subseteq Users
  BY <1>2 DEF FInv, ContentInv, CallContent, CallOf, TtyUsers
<1>5. RightAnswer'
  BY <1>2 DEF FInv, ContentInv, RightAnswer, Answered
<1>6. \A x \in Users : Pending(x)' <=> Pending(x)
  BY <1>2 DEF Pending
<1> QED
  BY <1>1, <1>2, <1>3, <1>4, <1>5, <1>6

LEMMA FsStartStep ==
  ASSUME FInv, FsStart
  PROVE  FInv'
<1>1. /\ pc[FS] = "start" /\ wait[FS] = Free /\ ttyproc_queue
      /\ pc' = [pc EXCEPT ![FS] = "receive"] /\ q' = q /\ msg' = msg /\ elem' = elem
      /\ call' = call /\ ttyproc_queue' = ttyproc_queue /\ panicked' = panicked
      /\ UNCHANGED ipc /\ wait' = wait /\ box' = box
  BY DEF FsStart, Here, Goto, Free, local, ipc
<1>2. /\ DOMAIN pc' = Procs /\ \A x \in Procs : pc'[x] = IF x = FS THEN "receive" ELSE pc[x]
      /\ \A x \in Users : pc'[x] = pc[x] /\ UserControl(x)'
      /\ CallContent' /\ RightAnswer' /\ TtyUsers' = TtyUsers /\ TtyUsers \subseteq Users
      /\ \A x \in Users : Pending(x)' <=> Pending(x)
  BY <1>1, UsersSame
<1>3. pc'[FS] = "receive" /\ pc'[TTY] = pc[TTY]
  BY <1>2, Pids
<1>4. QInv' /\ ioqueue_isfull' = ioqueue_isfull /\ ioqueue_init' = ioqueue_init
      /\ \A i, x : QueuedAt(i, x)' = QueuedAt(i, x)
      /\ \A w : InQueue(w)' = InQueue(w)
  BY <1>1, QueueSame DEF FInv
<1>5. WaitInv'
  BY <1>1, WaitSame DEF FInv
<1>6. ControlInv'
  <2>1. TypeOK'
    BY <1>1, <1>2, <1>3, <1>4 DEF FInv, ControlInv, TypeOK, QInv
  <2> QED
    BY <1>1, <1>2, <1>3, <1>4, <2>1 DEF FInv, ControlInv
<1>7. ContentInv'
  <2>1. FsContent'
    BY <1>1, <1>3, Ops DEF FsContent
  <2>2. QueueContent' /\ TtyContent'
    BY <1>1, <1>3 DEF FInv, ContentInv, QueueContent, TtyContent, TtyUsers, CallOf, Result
  <2> QED
    BY <1>2, <2>1, <2>2 DEF ContentInv
<1>8. \A x \in Users : /\ HeldByFS(x)' <=> HeldByFS(x)
                       /\ AnswerAtFS(x)' <=> AnswerAtFS(x)
                       /\ AnswerAtTTY(x)' <=> AnswerAtTTY(x)
  BY <1>1, <1>3 DEF HeldByFS, AnswerAtFS, AnswerAtTTY
<1>9. PlaceInv'
  BY <1>2, <1>4, <1>8 DEF FInv, PlaceInv, Somewhere, Exclusive
<1> QED
  BY <1>4, <1>5, <1>6, <1>7, <1>9 DEF FInv

\* FS looks at what it has received: a call on a terminal goes on to the queue,
\* an answer to the user process, and any other call is dropped.
LEMMA FsDispatchStep ==
  ASSUME FInv, FsDispatch
  PROVE  FInv'
<1> DEFINE function == box[FS].body.function
<1>1. /\ pc[FS] = "dispatch" /\ wait[FS] = Free
      /\ q' = q /\ msg' = box[FS] /\ elem' = elem
      /\ call' = call /\ ttyproc_queue' = ttyproc_queue
      /\ UNCHANGED ipc /\ wait' = wait /\ box' = box
  BY DEF FsDispatch, Here, Free, ipc
<1>2. PICK l \in {"isfull", "notify_fss", "resume", "receive"} :
        /\ pc' = [pc EXCEPT ![FS] = l]
        /\ l = "isfull" <=> function \in OnTty
        /\ l = "resume" <=> function = "fs_resume"
  BY DEF FsDispatch, Goto, OnTty
<1>3. /\ DOMAIN pc' = Procs /\ \A x \in Procs : pc'[x] = IF x = FS THEN l ELSE pc[x]
      /\ \A x \in Users : pc'[x] = pc[x] /\ UserControl(x)'
      /\ CallContent' /\ RightAnswer' /\ TtyUsers' = TtyUsers /\ TtyUsers \subseteq Users
      /\ \A x \in Users : Pending(x)' <=> Pending(x)
  BY <1>1, <1>2, UsersSame
<1>4. pc'[FS] = l /\ pc'[TTY] = pc[TTY]
  BY <1>3, Pids
<1>5. QInv' /\ ioqueue_isfull' = ioqueue_isfull /\ ioqueue_init' = ioqueue_init
      /\ \A i, x : QueuedAt(i, x)' = QueuedAt(i, x)
      /\ \A w : InQueue(w)' = InQueue(w)
  BY <1>1, QueueSame DEF FInv
<1>6. WaitInv'
  BY <1>1, WaitSame DEF FInv
<1>7. Received
  BY <1>1 DEF FInv, ContentInv, FsContent
<1>8. ASSUME NEW u \in Users, box[FS] = CallOf(u)
      PROVE  /\ box[FS].source = u /\ function = call[u].function
             /\ l # "resume"
             /\ function \in OnTty => box[FS].body.p0 \in 0 .. 2
  <2>1. box[FS].source = u /\ box[FS].body = call[u]
    BY <1>8 DEF CallOf
  <2>2. Pending(u)
    BY <1>1, <2>1, Owners
  <2>3. call[u] \in CallMsgs
    BY <2>2 DEF Pending, FInv, ContentInv, CallContent
  <2>4. PICK c \in Calls : \E t \in {0, 1} : call[u] = Msg(c[1], c[2], t)
    BY <2>3 DEF CallMsgs
  <2>5. call[u].function = c[1] /\ call[u].p0 = c[2]
    BY <2>4 DEF Msg
  <2> QED
    BY <1>2, <2>1, <2>5, CallsAssumption
<1>9. ASSUME NEW u \in Users, box[FS] = Result(u)
      PROVE  box[FS].source = TTY /\ box[FS].body.p1 = u /\ l = "resume" /\ function \notin OnTty
  BY <1>2, <1>9 DEF Result, Msg, OnTty
<1>10. panicked' = FALSE
  <2>1. panicked' = (function \in OnTty /\ box[FS].body.p0 > 2)
    BY DEF FsDispatch
  <2>2. function \in OnTty => box[FS].body.p0 \in 0 .. 2
    BY <1>7, <1>8, <1>9 DEF Received, TtyUsers
  <2>3. ~(function \in OnTty /\ box[FS].body.p0 > 2)
    BY <2>2
  <2> QED
    BY <2>1, <2>3, Zenon
<1> HIDE DEF function
<1>11. ControlInv'
  <2>1. TypeOK'
    BY <1>1, <1>3, <1>4, <1>5, <1>10 DEF FInv, ControlInv, TypeOK, QInv
  <2>2. l # "start" /\ l # "enqueue" /\ pc[FS] # "start"
    BY <1>1
  <2> QED
    BY <1>1, <1>3, <1>4, <1>5, <1>10, <2>1, <2>2 DEF FInv, ControlInv
<1>12. ContentInv'
  <2>1. l = "isfull" => box[FS].source \in TtyUsers /\ box[FS] = CallOf(box[FS].source)
    BY <1>2, <1>7, <1>8, <1>9 DEF Received, TtyUsers
  <2>2. l = "resume" => box[FS].body.p1 \in TtyUsers /\ box[FS] = Result(box[FS].body.p1)
    BY <1>7, <1>8 DEF Received
  <2>3. FsContent'
    BY <1>1, <1>3, <1>4, <2>1, <2>2, Ops DEF FsContent, CallOf, Result
  <2>4. QueueContent' /\ TtyContent'
    BY <1>1, <1>4 DEF FInv, ContentInv, QueueContent, TtyContent, TtyUsers, CallOf, Result
  <2> QED
    BY <1>3, <2>3, <2>4 DEF ContentInv
<1>13. \A x \in Users : AnswerAtTTY(x)' <=> AnswerAtTTY(x)
  BY <1>1, <1>4 DEF AnswerAtTTY
<1>14. ASSUME NEW x \in Users
       PROVE  /\ HeldByFS(x)' <=> HeldByFS(x) /\ x \in TtyUsers
              /\ AnswerAtFS(x)' <=> AnswerAtFS(x)
  <2>1. /\ HeldByFS(x) <=> box[FS].source = x
        /\ AnswerAtFS(x) <=> box[FS].source = TTY /\ box[FS].body.p1 = x
    BY <1>1 DEF HeldByFS, AnswerAtFS, Free, IPC!Free
  <2>2. /\ HeldByFS(x)' <=> l = "isfull" /\ box[FS].source = x
        /\ AnswerAtFS(x)' <=> l = "resume" /\ box[FS].body.p1 = x
    BY <1>1, <1>4 DEF HeldByFS, AnswerAtFS, Free, IPC!Free
  <2>3. CASE box[FS].source \in Users /\ box[FS] = CallOf(box[FS].source)
    <3>1. PICK u \in Users : box[FS].source = u /\ box[FS] = CallOf(u)
      BY <2>3
    <3> QED
      BY <1>2, <1>8, <2>1, <2>2, <3>1, Pids DEF TtyUsers
  <2>4. CASE box[FS].body.p1 \in TtyUsers /\ box[FS] = Result(box[FS].body.p1)
    <3>1. PICK u \in Users : box[FS].body.p1 = u /\ box[FS] = Result(u)
      BY <2>4 DEF TtyUsers
    <3> QED
      BY <1>2, <1>9, <2>1, <2>2, <3>1, Pids
  <2> QED
    BY <1>7, <2>3, <2>4 DEF Received
<1>15. PlaceInv'
  BY <1>3, <1>5, <1>13, <1>14 DEF FInv, PlaceInv, Somewhere, Exclusive
<1> QED
  BY <1>5, <1>6, <1>11, <1>12, <1>15 DEF FInv

LEMMA FsIsFullStep ==
  ASSUME FInv, FsIsFull
  PROVE  FInv'
<1>1. /\ pc[FS] = "isfull" /\ wait[FS] = Free /\ ~ioqueue_isfull
      /\ pc' = [pc EXCEPT ![FS] = "enqueue"] /\ q' = q /\ msg' = msg /\ elem' = elem
      /\ call' = call /\ ttyproc_queue' = ttyproc_queue /\ panicked' = panicked
      /\ UNCHANGED ipc /\ wait' = wait /\ box' = box
  BY DEF FsIsFull, Here, Goto, Free, local, ipc
<1>2. /\ DOMAIN pc' = Procs /\ \A x \in Procs : pc'[x] = IF x = FS THEN "enqueue" ELSE pc[x]
      /\ \A x \in Users : pc'[x] = pc[x] /\ UserControl(x)'
      /\ CallContent' /\ RightAnswer' /\ TtyUsers' = TtyUsers /\ TtyUsers \subseteq Users
      /\ \A x \in Users : Pending(x)' <=> Pending(x)
  BY <1>1, UsersSame
<1>3. pc'[FS] = "enqueue" /\ pc'[TTY] = pc[TTY]
  BY <1>2, Pids
<1>4. QInv' /\ ioqueue_isfull' = ioqueue_isfull /\ ioqueue_init' = ioqueue_init
      /\ \A i, x : QueuedAt(i, x)' = QueuedAt(i, x)
      /\ \A w : InQueue(w)' = InQueue(w)
  BY <1>1, QueueSame DEF FInv
<1>5. WaitInv'
  BY <1>1, WaitSame DEF FInv
<1>6. ControlInv'
  <2>1. TypeOK'
    BY <1>1, <1>2, <1>3, <1>4 DEF FInv, ControlInv, TypeOK, QInv
  <2> QED
    BY <1>1, <1>2, <1>3, <1>4, <2>1 DEF FInv, ControlInv
<1>7. ContentInv'
  <2>1. FsContent'
    BY <1>1, <1>2, <1>3, Ops DEF FInv, ContentInv, FsContent, CallOf
  <2>2. QueueContent' /\ TtyContent'
    BY <1>1, <1>3 DEF FInv, ContentInv, QueueContent, TtyContent, TtyUsers, CallOf, Result
  <2> QED
    BY <1>2, <2>1, <2>2 DEF ContentInv
<1>8. \A x \in Users : /\ HeldByFS(x)' <=> HeldByFS(x)
                       /\ AnswerAtFS(x)' <=> AnswerAtFS(x)
                       /\ AnswerAtTTY(x)' <=> AnswerAtTTY(x)
  BY <1>1, <1>3 DEF HeldByFS, AnswerAtFS, AnswerAtTTY
<1>9. PlaceInv'
  BY <1>2, <1>4, <1>8 DEF FInv, PlaceInv, Somewhere, Exclusive
<1> QED
  BY <1>4, <1>5, <1>6, <1>7, <1>9 DEF FInv

\* The request that a step of FS or TTY0 works on is one that fits the queue.
LEMMA CallsFit ==
  ASSUME FInv, NEW u \in TtyUsers, Pending(u)
  PROVE  CallOf(u) \in IOQuest /\ CallOf(u) # ZERO
<1>1. u \in Users /\ call[u].function \in OnTty /\ call[u] \in CallMsgs
  BY DEF TtyUsers, Pending, FInv, ContentInv, CallContent
<1>2. PICK c \in Calls, t \in {0, 1} : call[u] = Msg(c[1], c[2], t)
  BY <1>1 DEF CallMsgs
<1>3. call[u].function = c[1]
  BY <1>2 DEF Msg
<1>4. CallOf(u) \in IOQuest
  BY <1>1, <1>2, <1>3, CallsAssumption DEF CallOf
<1> QED
  BY <1>4, CallsAssumption

\* The queue has room when FS enqueues, although TTY0 may have run since FS
\* looked: only FS adds to it.
LEMMA FsEnqueueStep ==
  ASSUME FInv, FsEnqueue
  PROVE  FInv' /\ ioenqueue(msg) /\ msg \in IOQuest
<1>1. /\ pc[FS] = "enqueue" /\ wait[FS] = Free /\ ~ioqueue_isfull
      /\ pc' = [pc EXCEPT ![FS] = "notify_tty"] /\ msg' = msg /\ elem' = elem
      /\ call' = call /\ ttyproc_queue' = ttyproc_queue /\ panicked' = panicked
      /\ UNCHANGED ipc /\ wait' = wait /\ box' = box
      /\ ioenqueue(msg)
  BY DEF FsEnqueue, Here, Goto, Free, local, ipc, FInv, ControlInv
<1>2. /\ DOMAIN pc' = Procs /\ \A x \in Procs : pc'[x] = IF x = FS THEN "notify_tty" ELSE pc[x]
      /\ \A x \in Users : pc'[x] = pc[x] /\ UserControl(x)'
      /\ CallContent' /\ RightAnswer' /\ TtyUsers' = TtyUsers /\ TtyUsers \subseteq Users
      /\ \A x \in Users : Pending(x)' <=> Pending(x)
  BY <1>1, UsersSame
<1>3. pc'[FS] = "notify_tty" /\ pc'[TTY] = pc[TTY]
  BY <1>2, Pids
<1>4. PICK u \in TtyUsers : msg = CallOf(u) /\ msg.source = u
  BY <1>1 DEF FInv, ContentInv, FsContent
<1>5. Pending(u) /\ u \in Users
  BY <1>1, <1>2, <1>4, Owners
<1>6. msg \in IOQuest /\ msg # ZERO
  BY <1>4, <1>5, CallsFit
<1>7. PICK e \in IOQuest : e = msg
  BY <1>6
<1>8. QInv'
  <2>1. ioenqueue(e)
    BY <1>1, <1>7 DEF ioenqueue
  <2> QED
    BY <2>1, EnqueueStep DEF FInv
<1>9. /\ q.tail \in Index /\ DOMAIN q.list = Index /\ q.list[q.tail] = ZERO
      /\ q'.list = [q.list EXCEPT ![q.tail] = msg]
  <2>1. q' = [q EXCEPT !.list[q.tail] = msg, !.tail = (q.tail + 1) % FS_IOQUEUE_LEN]
    BY <1>1 DEF ioenqueue
  <2> QED
    BY <2>1, QueueFacts DEF FInv, QInv, QTypeOK
<1>10. \A i \in Index : q'.list[i] = IF i = q.tail THEN msg ELSE q.list[i]
  BY <1>9
<1>11. /\ \A i \in Index, x \in Users : QueuedAt(i, x)' <=> (QueuedAt(i, x) \/ (i = q.tail /\ x = u))
       /\ \A x \in Users : ~QueuedAt(q.tail, x)
  BY <1>4, <1>6, <1>9, <1>10 DEF QueuedAt
<1>12. \A x \in Users : InQueue(x)' <=> (InQueue(x) \/ x = u)
  BY <1>9, <1>11 DEF InQueue
<1>13. WaitInv'
  BY <1>1, WaitSame DEF FInv
<1>14. pc[TTY] # "start"
  BY <1>1 DEF FInv, ControlInv
<1>15. ControlInv'
  <2>1. TypeOK'
    BY <1>1, <1>2, <1>3, <1>8 DEF FInv, ControlInv, TypeOK, QInv
  <2> QED
    BY <1>1, <1>2, <1>3, <1>14, <2>1 DEF FInv, ControlInv
<1>16. ContentInv'
  <2>1. FsContent'
    BY <1>1, <1>3, Ops DEF FsContent
  <2>2. QueueContent'
    BY <1>1, <1>2, <1>4, <1>10 DEF FInv, ContentInv, QueueContent, CallOf
  <2>3. TtyContent'
    BY <1>1, <1>2, <1>3 DEF FInv, ContentInv, TtyContent, CallOf, Result
  <2> QED
    BY <1>2, <2>1, <2>2, <2>3 DEF ContentInv
<1>17. \A x \in Users : /\ ~HeldByFS(x)'
                        /\ HeldByFS(x) <=> x = u
                        /\ AnswerAtFS(x)' <=> AnswerAtFS(x)
                        /\ AnswerAtTTY(x)' <=> AnswerAtTTY(x)
  BY <1>1, <1>3, <1>4 DEF HeldByFS, AnswerAtFS, AnswerAtTTY
<1>18. \A x \in Users : \A i, j \in Index : (QueuedAt(i, x)' /\ QueuedAt(j, x)') => i = j
  <2>1. ~InQueue(u)
    BY <1>5, <1>17 DEF FInv, PlaceInv, Exclusive
  <2> QED
    BY <1>11, <2>1 DEF FInv, PlaceInv, InQueue
<1>19. PlaceInv'
  <2>1. \A x \in Users : (Somewhere(x)' => Pending(x)') /\ Exclusive(x)'
    BY <1>2, <1>12, <1>17 DEF FInv, PlaceInv, Somewhere, Exclusive
  <2>2. \A x \in TtyUsers : Pending(x)' => Somewhere(x)'
    BY <1>2, <1>12, <1>17 DEF FInv, PlaceInv, Somewhere
  <2> QED
    BY <1>2, <1>18, <2>1, <2>2 DEF PlaceInv
<1> QED
  BY <1>1, <1>6, <1>8, <1>13, <1>15, <1>16, <1>19 DEF FInv

\* What a call of the kernel by FS or TTY0 leaves alone, if it does not answer
\* the user process x.
LEMMA UserKept ==
  ASSUME FInv, NEW x \in Users, pc'[x] = pc[x], wait'[x] = wait[x],
         wait[x].op = "send" \/ wait[x] = Free => box'[x] = box[x], call' = call
  PROVE  /\ UserControl(x)' /\ (Pending(x)' <=> Pending(x))
         /\ wait'[x].op = "send" => box'[x] = CallOf(x)'
         /\ Answered(x)' => box'[x].source = FS /\ box'[x].body = Msg("justamsg", call'[x].p1, 0)
<1>1. UserControl(x)' /\ (Pending(x)' <=> Pending(x))
  BY DEF FInv, ControlInv, UserControl, Pending
<1>2. wait'[x].op = "send" => box'[x] = CallOf(x)'
  BY DEF FInv, ContentInv, CallContent, CallOf
<1>3. Answered(x)' => box'[x].source = FS /\ box'[x].body = Msg("justamsg", call'[x].p1, 0)
  BY DEF FInv, ContentInv, RightAnswer, Answered, Free
<1> QED
  BY <1>1, <1>2, <1>3

LEMMA FsReceiveStep ==
  ASSUME FInv, FsReceive
  PROVE  FInv'
<1>1. /\ pc[FS] = "receive" /\ wait[FS] = Free
      /\ pc' = [pc EXCEPT ![FS] = "dispatch"] /\ q' = q /\ msg' = msg /\ elem' = elem
      /\ call' = call /\ ttyproc_queue' = ttyproc_queue /\ panicked' = panicked
      /\ IPC!TakeSent(FS, ANY) \/ IPC!BlockReceive(FS, ANY)
  BY DEF FsReceive, Here, Goto, Free, RECEIVE, local
<1>2. /\ DOMAIN pc' = Procs /\ \A x \in Procs : x # FS => pc'[x] = pc[x]
      /\ pc'[FS] = "dispatch" /\ pc'[TTY] = pc[TTY]
      /\ \A x \in Users : pc'[x] = pc[x]
  BY <1>1, Pids DEF FInv, ControlInv
<1>3. QInv' /\ ioqueue_isfull' = ioqueue_isfull /\ ioqueue_init' = ioqueue_init
      /\ \A i, x : QueuedAt(i, x)' = QueuedAt(i, x)
      /\ \A w : InQueue(w)' = InQueue(w)
  BY <1>1, QueueSame DEF FInv
<1>4. TypeOK' /\ ttyproc_queue /\ pc[TTY] # "start"
  BY <1>1, <1>2, <1>3 DEF FInv, ControlInv, TypeOK, QInv
<1>5. QueueContent' /\ TtyUsers' = TtyUsers /\ TtyUsers \subseteq Users
  BY <1>1 DEF FInv, ContentInv, QueueContent, TtyUsers, CallOf
<1>6. \A x \in Users : ~HeldByFS(x) /\ ~AnswerAtFS(x)
  BY <1>1 DEF HeldByFS, AnswerAtFS, Free, IPC!Free
<1>7. CASE IPC!TakeSent(FS, ANY)
  <2>1. PICK y \in Procs :
          /\ WaitInv'
          /\ wait[y] = Sending(FS)
          /\ \A x \in Procs : wait'[x] = IF x = y THEN Free ELSE wait[x]
          /\ \A x \in Procs : box'[x] = IF x = FS THEN box[y] ELSE box[x]
    BY <1>7, Pids, TakeSentEffect DEF FInv
  <2>2. y # FS /\ y # FSS /\ (y \in Users \/ y = TTY) /\ wait[y].op = "send"
    BY <1>1, <2>1, Ops DEF FInv, ControlInv, Procs
  <2>3. /\ wait'[FS] = Free /\ box'[FS] = box[y] /\ wait'[FSS] = wait[FSS]
        /\ \A x \in Users : box'[x] = box[x] /\ (x # y => wait'[x] = wait[x])
        /\ box'[TTY] = box[TTY]
    BY <1>1, <2>1, <2>2, Pids
  <2>4. CASE y \in Users
    <3>1. pc[y] = "sent" /\ box[y] = CallOf(y) /\ wait'[y] = Free /\ ~Pending(y) /\ Pending(y)'
          /\ wait'[TTY] = wait[TTY]
      BY <1>2, <2>1, <2>2, <2>4, Pids, Ops
         DEF FInv, ControlInv, UserControl, ContentInv, CallContent, Pending
    <3>2. \A x \in Users : x # y =>
            /\ UserControl(x)' /\ (Pending(x)' <=> Pending(x))
            /\ wait'[x].op = "send" => box'[x] = CallOf(x)'
            /\ Answered(x)' => box'[x].source = FS /\ box'[x].body = Msg("justamsg", call'[x].p1, 0)
      BY <1>1, <1>2, <2>3, UserKept
    <3>3. UserControl(y)' /\ ~Answered(y)'
      BY <1>2, <3>1, <2>4 DEF UserControl, Answered
    <3>4. ControlInv'
      <4>1. \A x \in Users : UserControl(x)'
        BY <3>2, <3>3
      <4> QED
        BY <1>1, <1>2, <1>3, <1>4, <2>3, <3>1, <4>1 DEF FInv, ControlInv
    <3>5. ContentInv'
      <4>1. CallContent'
        <5>1. \A x \in Users : wait'[x].op = "send" => box'[x] = CallOf(x)'
          BY <3>1, <3>2, Ops
        <5> QED
          BY <1>1, <1>2, <5>1 DEF FInv, ContentInv, CallContent
      <4>2. FsContent'
        <5>1. Received'
          BY <1>1, <2>3, <2>4, <3>1 DEF Received, CallOf
        <5> QED
          BY <1>2, <2>3, <5>1, Ops DEF FsContent
      <4>3. TtyContent'
        BY <1>1, <1>2, <1>5, <2>3, <3>1 DEF FInv, ContentInv, TtyContent, CallOf, Result
      <4>4. RightAnswer'
        BY <3>2, <3>3 DEF RightAnswer
      <4> QED
        BY <1>5, <4>1, <4>2, <4>3, <4>4 DEF ContentInv
    <3>6. \A x \in Users : /\ HeldByFS(x)' <=> x = y
                           /\ ~AnswerAtFS(x)'
                           /\ AnswerAtTTY(x)' <=> AnswerAtTTY(x)
      <4>1. box'[FS].source = y
        BY <2>3, <3>1 DEF CallOf
      <4>2. \A x \in Users : (HeldByFS(x)' <=> x = y) /\ ~AnswerAtFS(x)'
        BY <1>2, <2>3, <2>4, <4>1, Pids DEF HeldByFS, AnswerAtFS, Free, IPC!Free
      <4>3. \A x \in Users : AnswerAtTTY(x)' <=> AnswerAtTTY(x)
        BY <1>1, <1>2, <2>3, <3>1 DEF AnswerAtTTY
      <4> QED
        BY <4>2, <4>3
    <3>7. PlaceInv'
      BY <1>3, <1>5, <1>6, <2>4, <3>1, <3>2, <3>6 DEF FInv, PlaceInv, Somewhere, Exclusive
    <3> QED
      BY <1>3, <2>1, <3>4, <3>5, <3>7 DEF FInv
  <2>5. CASE y = TTY
    <3>1. PICK v \in TtyUsers : box[TTY] = Result(v) /\ box[TTY].body.p1 = v
      BY <2>2, <2>5 DEF FInv, ContentInv, TtyContent
    <3>2. pc[TTY] = "isempty" /\ wait'[TTY] = Free /\ v \in Users
      BY <1>5, <2>1, <2>2, <2>5, Ops DEF FInv, ControlInv
    <3>3. \A x \in Users :
            /\ UserControl(x)' /\ (Pending(x)' <=> Pending(x))
            /\ wait'[x].op = "send" => box'[x] = CallOf(x)'
            /\ Answered(x)' => box'[x].source = FS /\ box'[x].body = Msg("justamsg", call'[x].p1, 0)
      BY <1>1, <1>2, <2>3, <2>5, Pids, UserKept
    <3>4. ControlInv'
      BY <1>1, <1>2, <1>3, <1>4, <2>3, <3>2, <3>3 DEF FInv, ControlInv
    <3>5. ContentInv'
      <4>1. CallContent'
        BY <1>1, <1>2, <3>3 DEF FInv, ContentInv, CallContent
      <4>2. FsContent'
        <5>1. Received'
          BY <1>1, <1>5, <2>3, <2>5, <3>1 DEF Received, Result
        <5> QED
          BY <1>2, <2>3, <5>1, Ops DEF FsContent
      <4>3. TtyContent'
        BY <1>2, <3>2, Ops DEF TtyContent
      <4>4. RightAnswer'
        BY <3>3 DEF RightAnswer
      <4> QED
        BY <1>5, <4>1, <4>2, <4>3, <4>4 DEF ContentInv
    <3>6. \A x \in Users : /\ ~HeldByFS(x)'
                           /\ AnswerAtFS(x)' <=> x = v
                           /\ ~AnswerAtTTY(x)'
                           /\ AnswerAtTTY(x) <=> x = v
      <4>1. box'[FS].source = TTY /\ box'[FS].body.p1 = v
        BY <2>3, <2>5, <3>1 DEF Result
      <4>2. \A x \in Users : ~HeldByFS(x)' /\ (AnswerAtFS(x)' <=> x = v)
        BY <1>2, <2>3, <4>1, Pids DEF HeldByFS, AnswerAtFS, Free, IPC!Free
      <4>3. \A x \in Users : ~AnswerAtTTY(x)' /\ (AnswerAtTTY(x) <=> x = v)
        BY <1>2, <2>2, <2>5, <3>1, <3>2, Ops DEF AnswerAtTTY
      <4> QED
        BY <4>2, <4>3
    <3>7. PlaceInv'
      BY <1>3, <1>5, <1>6, <3>2, <3>3, <3>6 DEF FInv, PlaceInv, Somewhere, Exclusive
    <3> QED
      BY <1>3, <2>1, <3>4, <3>5, <3>7 DEF FInv
  <2> QED
    BY <2>2, <2>4, <2>5
<1>8. CASE IPC!BlockReceive(FS, ANY)
  <2>1. /\ WaitInv'
        /\ \A x \in Procs : wait'[x] = IF x = FS THEN Receiving(ANY) ELSE wait[x]
        /\ \A x \in Procs : x # FS => box'[x] = box[x]
    BY <1>8, Pids, BlockReceiveEffect DEF FInv
  <2>2. /\ wait'[FS] = Receiving(ANY) /\ wait'[TTY] = wait[TTY] /\ box'[TTY] = box[TTY]
        /\ wait'[FSS] = wait[FSS]
        /\ \A x \in Users : wait'[x] = wait[x] /\ box'[x] = box[x]
    BY <2>1, Pids
  <2>3. \A x \in Users :
          /\ UserControl(x)' /\ (Pending(x)' <=> Pending(x))
          /\ wait'[x].op = "send" => box'[x] = CallOf(x)'
          /\ Answered(x)' => box'[x].source = FS /\ box'[x].body = Msg("justamsg", call'[x].p1, 0)
    BY <1>1, <1>2, <2>2, UserKept
  <2>4. ControlInv'
    BY <1>1, <1>2, <1>3, <1>4, <2>2, <2>3 DEF FInv, ControlInv
  <2>5. ContentInv'
    <3>1. CallContent'
      BY <1>1, <1>2, <2>3 DEF FInv, ContentInv, CallContent
    <3>2. FsContent'
      BY <1>2, <2>2, Ops DEF FsContent
    <3>3. TtyContent'
      BY <1>1, <1>2, <1>5, <2>2 DEF FInv, ContentInv, TtyContent, CallOf, Result
    <3>4. RightAnswer'
      BY <2>3 DEF RightAnswer
    <3> QED
      BY <1>5, <3>1, <3>2, <3>3, <3>4 DEF ContentInv
  <2>6. \A x \in Users : /\ ~HeldByFS(x)' /\ ~AnswerAtFS(x)'
                         /\ AnswerAtTTY(x)' <=> AnswerAtTTY(x)
    <3>1. \A x \in Users : ~HeldByFS(x)' /\ ~AnswerAtFS(x)'
      BY <1>2, <2>2 DEF HeldByFS, AnswerAtFS, Receiving, IPC!Free
    <3>2. \A x \in Users : AnswerAtTTY(x)' <=> AnswerAtTTY(x)
      BY <1>1, <1>2, <2>2 DEF AnswerAtTTY
    <3> QED
      BY <3>1, <3>2
  <2>7. PlaceInv'
    BY <1>3, <1>5, <1>6, <2>3, <2>6 DEF FInv, PlaceInv, Somewhere, Exclusive
  <2> QED
    BY <1>3, <2>1, <2>4, <2>5, <2>7 DEF FInv
<1> QED
  BY <1>1, <1>7, <1>8

LEMMA FsNotifyStep ==
  ASSUME FInv, NEW target \in {TTY, FSS}, NEW l \in {"notify_tty", "notify_fss"},
         FsNotify(target, l)
  PROVE  FInv'
<1>1. /\ pc[FS] = l /\ wait[FS] = Free
      /\ pc' = [pc EXCEPT ![FS] = "receive"] /\ q' = q /\ msg' = msg /\ elem' = elem
      /\ call' = call /\ ttyproc_queue' = ttyproc_queue /\ panicked' = panicked
  BY DEF FsNotify, Here, Goto, Free, local
<1>2. PICK m : IPC!Deliver(FS, target, m) \/ IPC!Drop(FS, target, m)
  BY DEF FsNotify, SEND_nonblk
<1>3. /\ DOMAIN pc' = Procs /\ \A x \in Procs : x # FS => pc'[x] = pc[x]
      /\ pc'[FS] = "receive" /\ pc'[TTY] = pc[TTY]
      /\ \A x \in Users : pc'[x] = pc[x]
  BY <1>1, Pids DEF FInv, ControlInv
<1>4. QInv' /\ ioqueue_isfull' = ioqueue_isfull /\ ioqueue_init' = ioqueue_init
      /\ \A i, x : QueuedAt(i, x)' = QueuedAt(i, x)
      /\ \A w : InQueue(w)' = InQueue(w)
  BY <1>1, QueueSame DEF FInv
<1>5. TypeOK' /\ ttyproc_queue /\ pc[TTY] # "start"
  BY <1>1, <1>3, <1>4 DEF FInv, ControlInv, TypeOK, QInv
<1>6. QueueContent' /\ TtyUsers' = TtyUsers /\ TtyUsers \subseteq Users
  BY <1>1 DEF FInv, ContentInv, QueueContent, TtyUsers, CallOf
<1>7. /\ WaitInv' /\ wait'[FS] = Free /\ wait'[FSS] = Free
      /\ \A x \in Users : wait'[x] = wait[x] /\ box'[x] = box[x]
      /\ \/ wait'[TTY] = wait[TTY] /\ box'[TTY] = box[TTY]
         \/ wait'[TTY] = Free /\ wait[TTY].op = "recv" /\ pc[TTY] = "isempty"
  <2>1. target \in Procs /\ target # FS /\ target \notin Users
    BY Pids
  <2>2. CASE IPC!Deliver(FS, target, m)
    <3>1. /\ WaitInv' /\ wait[target].op = "recv"
          /\ \A x \in Procs : wait'[x] = IF x = target THEN Free ELSE wait[x]
          /\ \A x \in Procs : box'[x] = IF x \in {FS, target} THEN [source |-> FS, body |-> m]
                                                           ELSE box[x]
      BY <2>1, <2>2, Pids, DeliverEffect DEF FInv
    <3>2. target = TTY /\ pc[TTY] = "isempty"
      BY <3>1, Ops DEF FInv, ControlInv
    <3> QED
      BY <1>1, <2>1, <3>1, <3>2, Pids DEF FInv, ControlInv
  <2>3. CASE IPC!Drop(FS, target, m)
    <3>1. WaitInv' /\ wait' = wait /\ \A x \in Procs : x # FS => box'[x] = box[x]
      BY <2>1, <2>3, Pids, DropEffect DEF FInv
    <3> QED
      BY <1>1, <3>1, Pids DEF FInv, ControlInv
  <2> QED
    BY <1>2, <2>2, <2>3
<1>8. \A x \in Users :
        /\ UserControl(x)' /\ (Pending(x)' <=> Pending(x))
        /\ wait'[x].op = "send" => box'[x] = CallOf(x)'
        /\ Answered(x)' => box'[x].source = FS /\ box'[x].body = Msg("justamsg", call'[x].p1, 0)
  BY <1>1, <1>3, <1>7, UserKept
<1>9. ControlInv'
  BY <1>1, <1>3, <1>4, <1>5, <1>7, <1>8 DEF FInv, ControlInv
<1>10. ContentInv'
  <2>1. CallContent'
    BY <1>1, <1>3, <1>8 DEF FInv, ContentInv, CallContent
  <2>2. FsContent'
    BY <1>3, <1>7, Ops DEF FsContent
  <2>3. TtyContent'
    BY <1>1, <1>3, <1>6, <1>7, Ops DEF FInv, ContentInv, TtyContent, CallOf, Result
  <2>4. RightAnswer'
    BY <1>8 DEF RightAnswer
  <2> QED
    BY <1>6, <2>1, <2>2, <2>3, <2>4 DEF ContentInv
<1>11. \A x \in Users : /\ ~HeldByFS(x)' /\ ~AnswerAtFS(x)'
                        /\ ~HeldByFS(x) /\ ~AnswerAtFS(x)
                        /\ AnswerAtTTY(x)' <=> AnswerAtTTY(x)
  <2>1. \A x \in Users : ~HeldByFS(x)' /\ ~AnswerAtFS(x)' /\ ~HeldByFS(x) /\ ~AnswerAtFS(x)
    BY <1>1, <1>3, <1>7 DEF HeldByFS, AnswerAtFS, Free, IPC!Free
  <2>2. \A x \in Users : AnswerAtTTY(x)' <=> AnswerAtTTY(x)
    BY <1>1, <1>3, <1>7, Ops DEF AnswerAtTTY
  <2> QED
    BY <2>1, <2>2
<1>12. PlaceInv'
  BY <1>4, <1>6, <1>8, <1>11 DEF FInv, PlaceInv, Somewhere, Exclusive
<1> QED
  BY <1>4, <1>7, <1>9, <1>10, <1>12 DEF FInv

\* FS answers the process that TTY0 named, with the result of its call.
LEMMA FsResumeStep ==
  ASSUME FInv, FsResume
  PROVE  FInv'
<1>1. /\ pc[FS] = "resume" /\ wait[FS] = Free
      /\ pc' = [pc EXCEPT ![FS] = "receive"] /\ q' = q /\ msg' = msg /\ elem' = elem
      /\ call' = call /\ ttyproc_queue' = ttyproc_queue /\ panicked' = panicked
  BY DEF FsResume, Here, Goto, Free, local
<1>2. PICK v \in TtyUsers : msg.body.p1 = v /\ msg = Result(v)
  BY <1>1 DEF FInv, ContentInv, FsContent
<1>3. PICK m : m = Msg("justamsg", call[v].p1, 0)
  OBVIOUS
<1>4. msg.body.p0 = call[v].p1 /\ Pending(v) /\ v \in Users
  BY <1>1, <1>2, Owners DEF Result, Msg, TtyUsers
<1>5. IPC!Deliver(FS, v, m) \/ IPC!BlockSend(FS, v, m)
  BY <1>2, <1>3, <1>4 DEF FsResume, SEND, IPC!Deliver, IPC!Waiting, IPC!BlockSend
<1>6. /\ DOMAIN pc' = Procs /\ \A x \in Procs : x # FS => pc'[x] = pc[x]
      /\ pc'[FS] = "receive" /\ pc'[TTY] = pc[TTY]
      /\ \A x \in Users : pc'[x] = pc[x]
  BY <1>1, Pids DEF FInv, ControlInv
<1>7. QInv' /\ ioqueue_isfull' = ioqueue_isfull /\ ioqueue_init' = ioqueue_init
      /\ \A i, x : QueuedAt(i, x)' = QueuedAt(i, x)
      /\ \A w : InQueue(w)' = InQueue(w)
  BY <1>1, QueueSame DEF FInv
<1>8. TypeOK' /\ ttyproc_queue /\ pc[TTY] # "start"
  BY <1>1, <1>6, <1>7 DEF FInv, ControlInv, TypeOK, QInv
<1>9. QueueContent' /\ TtyUsers' = TtyUsers /\ TtyUsers \subseteq Users
  BY <1>1 DEF FInv, ContentInv, QueueContent, TtyUsers, CallOf
<1>10. \A x \in Users : ~HeldByFS(x) /\ (AnswerAtFS(x) <=> x = v)
  BY <1>1, <1>2 DEF HeldByFS, AnswerAtFS, Free, IPC!Free
<1>11. v \in Procs /\ v # FS /\ v # TTY /\ v # FSS
  BY <1>4, Pids
<1>12. CASE IPC!Deliver(FS, v, m)
  <2>1. /\ WaitInv' /\ wait[v].op = "recv"
        /\ \A x \in Procs : wait'[x] = IF x = v THEN Free ELSE wait[x]
        /\ \A x \in Procs : box'[x] = IF x \in {FS, v} THEN [source |-> FS, body |-> m] ELSE box[x]
    BY <1>11, <1>12, Pids, DeliverEffect DEF FInv
  <2>2. /\ wait'[FS] = Free /\ wait'[TTY] = wait[TTY] /\ box'[TTY] = box[TTY]
        /\ wait'[FSS] = wait[FSS] /\ wait'[v] = Free
        /\ box'[v] = [source |-> FS, body |-> m]
        /\ \A x \in Users : x # v => wait'[x] = wait[x] /\ box'[x] = box[x]
    BY <1>1, <1>11, <2>1, Pids
  <2>3. \A x \in Users : x # v =>
          /\ UserControl(x)' /\ (Pending(x)' <=> Pending(x))
          /\ wait'[x].op = "send" => box'[x] = CallOf(x)'
          /\ Answered(x)' => box'[x].source = FS /\ box'[x].body = Msg("justamsg", call'[x].p1, 0)
    BY <1>1, <1>6, <2>2, UserKept
  <2>4. pc[v] = "returned" /\ UserControl(v)' /\ ~Pending(v)'
    <3>1. pc[v] = "returned"
      BY <1>4, <2>1, Ops DEF Pending
    <3> QED
      BY <1>4, <1>6, <2>2, <3>1, Ops DEF UserControl, Pending
  <2>5. ControlInv'
    <3>1. \A x \in Users : UserControl(x)'
      BY <2>3, <2>4
    <3> QED
      BY <1>1, <1>6, <1>7, <1>8, <2>2, <3>1 DEF FInv, ControlInv
  <2>6. ContentInv'
    <3>1. CallContent'
      <4>1. \A x \in Users : wait'[x].op = "send" => box'[x] = CallOf(x)'
        BY <2>2, <2>3, Ops
      <4> QED
        BY <1>1, <1>6, <4>1 DEF FInv, ContentInv, CallContent
    <3>2. FsContent'
      BY <1>6, <2>2, Ops DEF FsContent
    <3>3. TtyContent'
      BY <1>1, <1>6, <1>9, <2>2 DEF FInv, ContentInv, TtyContent, CallOf, Result
    <3>4. RightAnswer'
      <4>1. box'[v].source = FS /\ box'[v].body = Msg("justamsg", call'[v].p1, 0)
        BY <1>1, <1>3, <2>2
      <4> QED
        BY <2>3, <4>1 DEF RightAnswer
    <3> QED
      BY <1>9, <3>1, <3>2, <3>3, <3>4 DEF ContentInv
  <2>7. \A x \in Users : /\ ~HeldByFS(x)' /\ ~AnswerAtFS(x)'
                         /\ AnswerAtTTY(x)' <=> AnswerAtTTY(x)
    <3>1. \A x \in Users : ~HeldByFS(x)' /\ ~AnswerAtFS(x)'
      BY <1>6, <2>2 DEF HeldByFS, AnswerAtFS, Free, IPC!Free
    <3>2. \A x \in Users : AnswerAtTTY(x)' <=> AnswerAtTTY(x)
      BY <1>1, <1>6, <2>2 DEF AnswerAtTTY
    <3> QED
      BY <3>1, <3>2
  <2>8. PlaceInv'
    BY <1>4, <1>7, <1>9, <1>10, <2>3, <2>4, <2>7 DEF FInv, PlaceInv, Somewhere, Exclusive
  <2> QED
    BY <1>7, <2>1, <2>5, <2>6, <2>8 DEF FInv
<1>13. CASE IPC!BlockSend(FS, v, m)
  <2>1. /\ WaitInv'
        /\ \A x \in Procs : wait'[x] = IF x = FS THEN Sending(v) ELSE wait[x]
        /\ \A x \in Procs : box'[x] = IF x = FS THEN [source |-> FS, body |-> m] ELSE box[x]
    BY <1>11, <1>13, Pids, BlockSendEffect DEF FInv
  <2>2. /\ wait'[FS] = Sending(v) /\ wait'[TTY] = wait[TTY] /\ box'[TTY] = box[TTY]
        /\ wait'[FSS] = wait[FSS] /\ box'[FS] = [source |-> FS, body |-> m]
        /\ \A x \in Users : wait'[x] = wait[x] /\ box'[x] = box[x]
    BY <2>1, Pids
  <2>3. \A x \in Users :
          /\ UserControl(x)' /\ (Pending(x)' <=> Pending(x))
          /\ wait'[x].op = "send" => box'[x] = CallOf(x)'
          /\ Answered(x)' => box'[x].source = FS /\ box'[x].body = Msg("justamsg", call'[x].p1, 0)
    BY <1>1, <1>6, <2>2, UserKept
  <2>4. ControlInv'
    BY <1>1, <1>4, <1>6, <1>7, <1>8, <2>2, <2>3 DEF FInv, ControlInv
  <2>5. ContentInv'
    <3>1. CallContent'
      BY <1>1, <1>6, <2>3 DEF FInv, ContentInv, CallContent
    <3>2. FsContent'
      BY <1>1, <1>2, <1>3, <1>6, <1>9, <2>2, Ops DEF FsContent, AnswerTo, Sending, Free, IPC!Free
    <3>3. TtyContent'
      BY <1>1, <1>6, <1>9, <2>2 DEF FInv, ContentInv, TtyContent, CallOf, Result
    <3>4. RightAnswer'
      BY <2>3 DEF RightAnswer
    <3> QED
      BY <1>9, <3>1, <3>2, <3>3, <3>4 DEF ContentInv
  <2>6. \A x \in Users : /\ ~HeldByFS(x)'
                         /\ AnswerAtFS(x)' <=> x = v
                         /\ AnswerAtTTY(x)' <=> AnswerAtTTY(x)
    <3>1. \A x \in Users : ~HeldByFS(x)' /\ (AnswerAtFS(x)' <=> x = v)
      BY <1>6, <2>2 DEF HeldByFS, AnswerAtFS, Sending
    <3>2. \A x \in Users : AnswerAtTTY(x)' <=> AnswerAtTTY(x)
      BY <1>1, <1>6, <2>2 DEF AnswerAtTTY
    <3> QED
      BY <3>1, <3>2
  <2>7. PlaceInv'
    BY <1>4, <1>7, <1>9, <1>10, <2>3, <2>6 DEF FInv, PlaceInv, Somewhere, Exclusive
  <2> QED
    BY <1>7, <2>1, <2>4, <2>5, <2>7 DEF FInv
<1> QED
  BY <1>5, <1>12, <1>13
-----------------------------------------------------------------------------
(* The steps of TTY0.                                                      *)

\* TTY0 sets up the queue before FS may look at it.
LEMMA TtyStartStep ==
  ASSUME FInv, TtyStart
  PROVE  FInv' /\ q' = q
<1>1. /\ pc[TTY] = "start" /\ wait[TTY] = Free /\ ioqueue_init
      /\ pc' = [pc EXCEPT ![TTY] = "isempty"] /\ msg' = msg /\ elem' = elem
      /\ call' = call /\ ttyproc_queue' = TRUE /\ panicked' = panicked
      /\ UNCHANGED ipc /\ wait' = wait /\ box' = box
  BY DEF TtyStart, Here, Goto, Free, local, ipc, FInv, ControlInv
<1>2. q' = q
  BY <1>1 DEF TtyStart, ioqueue_init
<1>3. /\ DOMAIN pc' = Procs /\ \A x \in Procs : pc'[x] = IF x = TTY THEN "isempty" ELSE pc[x]
      /\ \A x \in Users : pc'[x] = pc[x] /\ UserControl(x)'
      /\ CallContent' /\ RightAnswer' /\ TtyUsers' = TtyUsers /\ TtyUsers \subseteq Users
      /\ \A x \in Users : Pending(x)' <=> Pending(x)
  BY <1>1, UsersSame
<1>4. pc'[TTY] = "isempty" /\ pc'[FS] = pc[FS]
  BY <1>3, Pids
<1>5. QInv' /\ ioqueue_isfull' = ioqueue_isfull /\ ioqueue_init' = ioqueue_init
      /\ \A i, x : QueuedAt(i, x)' = QueuedAt(i, x)
      /\ \A w : InQueue(w)' = InQueue(w)
  BY <1>2, QueueSame DEF FInv
<1>6. WaitInv'
  BY <1>1, WaitSame DEF FInv
<1>7. ControlInv'
  <2>1. TypeOK'
    BY <1>1, <1>3, <1>4, <1>5 DEF FInv, ControlInv, TypeOK, QInv
  <2> QED
    BY <1>1, <1>3, <1>4, <1>5, <2>1 DEF FInv, ControlInv
<1>8. ContentInv'
  <2>1. FsContent'
    BY <1>1, <1>3, <1>4
       DEF FInv, ContentInv, FsContent, Received, CallOf, Result, AnswerTo
  <2>2. QueueContent' /\ TtyContent'
    BY <1>1, <1>2, <1>4, Ops DEF FInv, ContentInv, QueueContent, TtyContent, TtyUsers, CallOf
  <2> QED
    BY <1>3, <2>1, <2>2 DEF ContentInv
<1>9. \A x \in Users : /\ HeldByFS(x)' <=> HeldByFS(x)
                       /\ AnswerAtFS(x)' <=> AnswerAtFS(x)
                       /\ AnswerAtTTY(x)' <=> AnswerAtTTY(x)
  BY <1>1, <1>4 DEF HeldByFS, AnswerAtFS, AnswerAtTTY
<1>10. PlaceInv'
  BY <1>3, <1>5, <1>9 DEF FInv, PlaceInv, Somewhere, Exclusive
<1> QED
  BY <1>2, <1>5, <1>6, <1>7, <1>8, <1>10 DEF FInv

LEMMA TtyIsEmptyStep ==
  ASSUME FInv, TtyIsEmpty
  PROVE  FInv'
<1>1. /\ pc[TTY] = "isempty" /\ wait[TTY] = Free
      /\ q' = q /\ msg' = msg /\ elem' = elem
      /\ call' = call /\ ttyproc_queue' = ttyproc_queue /\ panicked' = panicked
      /\ UNCHANGED ipc /\ wait' = wait /\ box' = box
  BY DEF TtyIsEmpty, Here, Free, local, ipc
<1>2. PICK l \in {"receive", "dequeue"} : pc' = [pc EXCEPT ![TTY] = l]
  BY DEF TtyIsEmpty, Goto
<1>3. /\ DOMAIN pc' = Procs /\ \A x \in Procs : pc'[x] = IF x = TTY THEN l ELSE pc[x]
      /\ \A x \in Users : pc'[x] = pc[x] /\ UserControl(x)'
      /\ CallContent' /\ RightAnswer' /\ TtyUsers' = TtyUsers /\ TtyUsers \subseteq Users
      /\ \A x \in Users : Pending(x)' <=> Pending(x)
  BY <1>1, <1>2, UsersSame
<1>4. pc'[TTY] = l /\ pc'[FS] = pc[FS]
  BY <1>3, Pids
<1>5. QInv' /\ ioqueue_isfull' = ioqueue_isfull /\ ioqueue_init' = ioqueue_init
      /\ \A i, x : QueuedAt(i, x)' = QueuedAt(i, x)
      /\ \A w : InQueue(w)' = InQueue(w)
  BY <1>1, QueueSame DEF FInv
<1>6. WaitInv'
  BY <1>1, WaitSame DEF FInv
<1>7. ControlInv'
  <2>1. TypeOK'
    BY <1>1, <1>3, <1>4, <1>5 DEF FInv, ControlInv, TypeOK, QInv
  <2> QED
    BY <1>1, <1>3, <1>4, <1>5, <2>1 DEF FInv, ControlInv
<1>8. ContentInv'
  <2>1. FsContent'
    BY <1>1, <1>3, <1>4
       DEF FInv, ContentInv, FsContent, Received, CallOf, Result, AnswerTo
  <2>2. QueueContent' /\ TtyContent'
    BY <1>1, <1>4, Ops DEF FInv, ContentInv, QueueContent, TtyContent, TtyUsers, CallOf
  <2> QED
    BY <1>3, <2>1, <2>2 DEF ContentInv
<1>9. \A x \in Users : /\ HeldByFS(x)' <=> HeldByFS(x)
                       /\ AnswerAtFS(x)' <=> AnswerAtFS(x)
                       /\ AnswerAtTTY(x)' <=> AnswerAtTTY(x)
  BY <1>1, <1>4 DEF HeldByFS, AnswerAtFS, AnswerAtTTY
<1>10. PlaceInv'
  BY <1>3, <1>5, <1>9 DEF FInv, PlaceInv, Somewhere, Exclusive
<1> QED
  BY <1>5, <1>6, <1>7, <1>8, <1>10 DEF FInv

\* Nobody sends to TTY0 and waits, so it can only go to sleep.
LEMMA TtyReceiveStep ==
  ASSUME FInv, TtyReceive
  PROVE  FInv'
<1>1. /\ pc[TTY] = "receive" /\ wait[TTY] = Free /\ RECEIVE(TTY, ANY)
      /\ pc' = [pc EXCEPT ![TTY] = "isempty"] /\ q' = q /\ msg' = msg /\ elem' = elem
      /\ call' = call /\ ttyproc_queue' = ttyproc_queue /\ panicked' = panicked
  BY DEF TtyReceive, Here, Goto, Free, local
<1>2. ~IPC!TakeSent(TTY, ANY)
  <2>1. SUFFICES ASSUME IPC!TakeSent(TTY, ANY) PROVE FALSE
    OBVIOUS
  <2>2. PICK y \in Procs : wait[y] = Sending(TTY)
    BY <2>1, Pids, TakeSentEffect DEF FInv
  <2>3. wait[y].op = "send" /\ wait[y].peer = TTY
    BY <2>2, Ops
  <2>4. \A u \in Users : wait[u] # Sending(TTY)
    BY Pids, Ops DEF FInv, ControlInv, UserControl
  <2>5. wait[FS] # Sending(TTY) /\ wait[TTY] # Sending(TTY) /\ wait[FSS] # Sending(TTY)
    BY <1>1, Pids, Ops DEF FInv, ControlInv
  <2> QED
    BY <2>2, <2>4, <2>5 DEF Procs
<1>3. /\ WaitInv'
      /\ \A x \in Procs : wait'[x] = IF x = TTY THEN Receiving(ANY) ELSE wait[x]
      /\ \A x \in Procs : x # TTY => box'[x] = box[x]
  BY <1>1, <1>2, Pids, BlockReceiveEffect DEF FInv, RECEIVE
<1>4. /\ wait'[TTY] = Receiving(ANY) /\ wait'[FS] = wait[FS] /\ box'[FS] = box[FS]
      /\ wait'[FSS] = wait[FSS]
      /\ \A x \in Users : wait'[x] = wait[x] /\ box'[x] = box[x]
  BY <1>3, Pids
<1>5. /\ DOMAIN pc' = Procs /\ pc'[TTY] = "isempty" /\ pc'[FS] = pc[FS]
      /\ \A x \in Users : pc'[x] = pc[x]
  BY <1>1, Pids DEF FInv, ControlInv
<1>6. QInv' /\ ioqueue_isfull' = ioqueue_isfull /\ ioqueue_init' = ioqueue_init
      /\ \A i, x : QueuedAt(i, x)' = QueuedAt(i, x)
      /\ \A w : InQueue(w)' = InQueue(w)
  BY <1>1, QueueSame DEF FInv
<1>7. \A x \in Users :
        /\ UserControl(x)' /\ (Pending(x)' <=> Pending(x))
        /\ wait'[x].op = "send" => box'[x] = CallOf(x)'
        /\ Answered(x)' => box'[x].source = FS /\ box'[x].body = Msg("justamsg", call'[x].p1, 0)
  BY <1>1, <1>4, <1>5, UserKept
<1>8. QueueContent' /\ TtyUsers' = TtyUsers /\ TtyUsers \subseteq Users
  BY <1>1 DEF FInv, ContentInv, QueueContent, TtyUsers, CallOf
<1>9. ControlInv'
  <2>1. TypeOK'
    BY <1>1, <1>5, <1>6 DEF FInv, ControlInv, TypeOK, QInv
  <2> QED
    BY <1>1, <1>4, <1>5, <1>6, <1>7, <2>1 DEF FInv, ControlInv
<1>10. ContentInv'
  <2>1. CallContent'
    BY <1>1, <1>5, <1>7 DEF FInv, ContentInv, CallContent
  <2>2. FsContent'
    BY <1>1, <1>4, <1>5, <1>8
       DEF FInv, ContentInv, FsContent, Received, CallOf, Result, AnswerTo
  <2>3. TtyContent'
    BY <1>4, <1>5, Ops DEF TtyContent
  <2>4. RightAnswer'
    BY <1>7 DEF RightAnswer
  <2> QED
    BY <1>8, <2>1, <2>2, <2>3, <2>4 DEF ContentInv
<1>11. \A x \in Users : /\ HeldByFS(x)' <=> HeldByFS(x)
                        /\ AnswerAtFS(x)' <=> AnswerAtFS(x)
                        /\ ~AnswerAtTTY(x)' /\ ~AnswerAtTTY(x)
  BY <1>1, <1>4, <1>5, Ops DEF HeldByFS, AnswerAtFS, AnswerAtTTY
<1>12. PlaceInv'
  BY <1>6, <1>7, <1>8, <1>11 DEF FInv, PlaceInv, Somewhere, Exclusive
<1> QED
  BY <1>3, <1>6, <1>9, <1>10, <1>12 DEF FInv
\* TTY0 takes the oldest request.  That makes room, so the test that FS may
\* have made before stays right.
LEMMA TtyDequeueStep ==
  ASSUME FInv, TtyDequeue
  PROVE  FInv' /\ (q' = q \/ \E e \in IOQuest : iodequeue(e))
<1>1. /\ pc[TTY] = "dequeue" /\ wait[TTY] = Free /\ msg' = msg
      /\ call' = call /\ ttyproc_queue' = ttyproc_queue /\ panicked' = panicked
      /\ UNCHANGED ipc /\ wait' = wait /\ box' = box
  BY DEF TtyDequeue, Here, Free, ipc
<1>2. WaitInv'
  BY <1>1, WaitSame DEF FInv
<1>3. PICK l \in {"isempty", "serve"} :
        /\ pc' = [pc EXCEPT ![TTY] = l]
        /\ l = "isempty" => q' = q /\ elem' = elem
        /\ l = "serve" => iodequeue(elem')
  BY DEF TtyDequeue, Goto
<1>4. /\ DOMAIN pc' = Procs /\ \A x \in Procs : pc'[x] = IF x = TTY THEN l ELSE pc[x]
      /\ \A x \in Users : pc'[x] = pc[x] /\ UserControl(x)'
      /\ CallContent' /\ RightAnswer' /\ TtyUsers' = TtyUsers /\ TtyUsers \subseteq Users
      /\ \A x \in Users : Pending(x)' <=> Pending(x)
  BY <1>1, <1>3, UsersSame
<1>5. pc'[TTY] = l /\ pc'[FS] = pc[FS]
  BY <1>4, Pids
<1>6. FsContent'
  BY <1>1, <1>4, <1>5
     DEF FInv, ContentInv, FsContent, Received, CallOf, Result, AnswerTo
<1>7. \A x \in Users : /\ HeldByFS(x)' <=> HeldByFS(x)
                       /\ AnswerAtFS(x)' <=> AnswerAtFS(x)
                       /\ ~AnswerAtTTY(x)
                       /\ AnswerAtTTY(x)' <=> l = "serve" /\ elem'.source = x
  BY <1>1, <1>5, Ops DEF HeldByFS, AnswerAtFS, AnswerAtTTY
<1>8. CASE l = "isempty"
  <2>1. QInv' /\ ioqueue_isfull' = ioqueue_isfull /\ ioqueue_init' = ioqueue_init
        /\ \A i, x : QueuedAt(i, x)' = QueuedAt(i, x)
        /\ \A w : InQueue(w)' = InQueue(w)
    BY <1>3, <1>8, QueueSame DEF FInv
  <2>2. ControlInv'
    <3>1. TypeOK'
      BY <1>1, <1>4, <1>5, <1>8, <2>1 DEF FInv, ControlInv, TypeOK, QInv
    <3> QED
      BY <1>1, <1>4, <1>5, <1>8, <2>1, <3>1 DEF FInv, ControlInv
  <2>3. ContentInv'
    <3>1. QueueContent' /\ TtyContent'
      BY <1>1, <1>3, <1>5, <1>8, Ops DEF FInv, ContentInv, QueueContent, TtyContent, TtyUsers, CallOf
    <3> QED
      BY <1>4, <1>6, <3>1 DEF ContentInv
  <2>4. PlaceInv'
    BY <1>4, <1>7, <1>8, <2>1 DEF FInv, PlaceInv, Somewhere, Exclusive
  <2> QED
    BY <1>2, <1>3, <1>8, <2>1, <2>2, <2>3, <2>4 DEF FInv
<1>9. CASE l = "serve"
  <2>1. PICK e : e = elem'
    OBVIOUS
  <2>2. iodequeue(e)
    BY <1>3, <1>9, <2>1 DEF iodequeue
  <2>3. QInv' /\ ~ioqueue_isfull'
    BY <2>2, DequeueStep, DequeueMakesRoom DEF FInv
  <2>4. /\ q.head \in Index /\ DOMAIN q.list = Index /\ e = q.list[q.head] /\ e \in IOQuest
        /\ q'.list = [q.list EXCEPT ![q.head] = ZERO]
    <3>1. q' = [q EXCEPT !.list[q.head] = ZERO, !.head = (q.head + 1) % FS_IOQUEUE_LEN]
          /\ e = q.list[q.head] /\ ~ioqueue_isempty
      BY <2>2 DEF iodequeue
    <3> QED
      BY <3>1, QueueFacts DEF FInv, QInv, QTypeOK
  <2>5. \A i \in Index : q'.list[i] = IF i = q.head THEN ZERO ELSE q.list[i]
    BY <2>4
  <2>6. e # ZERO
    BY <2>4, CallsAssumption
  <2>7. PICK v \in TtyUsers : e.source = v /\ e = CallOf(v)
    BY <2>4, <2>6 DEF FInv, ContentInv, QueueContent
  <2>8. \A i \in Index, x \in Users : QueuedAt(i, x)' <=> QueuedAt(i, x) /\ i # q.head
    BY <2>5 DEF QueuedAt
  <2>9. QueuedAt(q.head, v) /\ v \in Users /\ \A x \in Users : QueuedAt(q.head, x) => x = v
    BY <1>4, <2>4, <2>6, <2>7 DEF QueuedAt
  <2>10. \A x \in Users : InQueue(x)' <=> InQueue(x) /\ x # v
    <3>1. \A i \in Index : QueuedAt(i, v) => i = q.head
      BY <2>4, <2>9 DEF FInv, PlaceInv
    <3> QED
      BY <2>8, <2>9, <3>1 DEF InQueue
  <2>11. InQueue(v) /\ \A x \in Users : AnswerAtTTY(x)' <=> x = v
    BY <1>7, <1>9, <2>1, <2>4, <2>7, <2>9 DEF InQueue
  <2>12. ControlInv'
    <3>1. TypeOK'
      BY <1>1, <1>4, <1>5, <1>9, <2>1, <2>3, <2>4 DEF FInv, ControlInv, TypeOK, QInv
    <3> QED
      BY <1>1, <1>4, <1>5, <1>9, <2>3, <3>1 DEF FInv, ControlInv
  <2>13. ContentInv'
    <3>1. QueueContent'
      BY <1>1, <1>4, <2>5 DEF FInv, ContentInv, QueueContent, CallOf
    <3>2. TtyContent'
      BY <1>1, <1>4, <1>5, <1>9, <2>1, <2>7, Ops DEF TtyContent, CallOf
    <3> QED
      BY <1>4, <1>6, <3>1, <3>2 DEF ContentInv
  <2>14. PlaceInv'
    <3>1. \A x \in Users : \A i, j \in Index : (QueuedAt(i, x)' /\ QueuedAt(j, x)') => i = j
      BY <2>8 DEF FInv, PlaceInv
    <3>2. \A x \in Users : (Somewhere(x)' <=> Somewhere(x)) /\ Exclusive(x)'
      BY <1>7, <2>9, <2>10, <2>11 DEF FInv, PlaceInv, Somewhere, Exclusive
    <3> QED
      BY <1>4, <3>1, <3>2 DEF FInv, PlaceInv
  <2> QED
    BY <1>2, <2>2, <2>3, <2>4, <2>12, <2>13, <2>14 DEF FInv
<1> QED
  BY <1>8, <1>9

\* TTY0 sends FS the result of the call it has served, and names its owner.
LEMMA TtyServeStep ==
  ASSUME FInv, TtyServe
  PROVE  FInv'
<1>1. /\ pc[TTY] = "serve" /\ wait[TTY] = Free
      /\ pc' = [pc EXCEPT ![TTY] = "isempty"] /\ q' = q /\ msg' = msg /\ elem' = elem
      /\ call' = call /\ ttyproc_queue' = ttyproc_queue /\ panicked' = panicked
  BY DEF TtyServe, Here, Goto, Free, local
<1>2. PICK v \in TtyUsers : elem.source = v /\ elem = CallOf(v)
  BY <1>1 DEF FInv, ContentInv, TtyContent
<1>3. PICK m : m = Msg("fs_resume", call[v].p1, v)
  OBVIOUS
<1>4. v \in Users /\ elem.body = call[v] /\ elem.body.function \in OnTty
  BY <1>2 DEF TtyUsers, CallOf
<1>5. IPC!Deliver(TTY, FS, m) \/ IPC!BlockSend(TTY, FS, m)
  BY <1>2, <1>3, <1>4 DEF TtyServe, SEND, IPC!Deliver, IPC!Waiting, IPC!BlockSend
<1>6. [source |-> TTY, body |-> m] = Result(v) /\ m.p1 = v
  BY <1>3 DEF Result, Msg
<1>7. /\ DOMAIN pc' = Procs /\ pc'[TTY] = "isempty" /\ pc'[FS] = pc[FS]
      /\ \A x \in Users : pc'[x] = pc[x]
  BY <1>1, Pids DEF FInv, ControlInv
<1>8. QInv' /\ ioqueue_isfull' = ioqueue_isfull /\ ioqueue_init' = ioqueue_init
      /\ \A i, x : QueuedAt(i, x)' = QueuedAt(i, x)
      /\ \A w : InQueue(w)' = InQueue(w)
  BY <1>1, QueueSame DEF FInv
<1>9. TypeOK'
  BY <1>1, <1>7, <1>8 DEF FInv, ControlInv, TypeOK, QInv
<1>10. QueueContent' /\ TtyUsers' = TtyUsers /\ TtyUsers \subseteq Users
  BY <1>1 DEF FInv, ContentInv, QueueContent, TtyUsers, CallOf
<1>11. \A x \in Users : AnswerAtTTY(x) <=> x = v
  BY <1>1, <1>2, Ops DEF AnswerAtTTY
<1>12. CASE IPC!Deliver(TTY, FS, m)
  <2>1. /\ WaitInv' /\ wait[FS].op = "recv"
        /\ \A x \in Procs : wait'[x] = IF x = FS THEN Free ELSE wait[x]
        /\ \A x \in Procs : box'[x] = IF x \in {TTY, FS} THEN [source |-> TTY, body |-> m] ELSE box[x]
    BY <1>12, Pids, DeliverEffect DEF FInv
  <2>2. /\ wait'[FS] = Free /\ wait'[TTY] = Free /\ box'[FS] = Result(v)
        /\ wait'[FSS] = wait[FSS]
        /\ \A x \in Users : wait'[x] = wait[x] /\ box'[x] = box[x]
    BY <1>1, <1>6, <2>1, Pids
  <2>3. pc[FS] = "dispatch" /\ wait[FS] = Receiving(ANY)
    BY <2>1, Ops DEF FInv, ControlInv
  <2>4. \A x \in Users :
          /\ UserControl(x)' /\ (Pending(x)' <=> Pending(x))
          /\ wait'[x].op = "send" => box'[x] = CallOf(x)'
          /\ Answered(x)' => box'[x].source = FS /\ box'[x].body = Msg("justamsg", call'[x].p1, 0)
    BY <1>1, <1>7, <2>2, UserKept
  <2>5. ControlInv'
    BY <1>1, <1>7, <1>8, <1>9, <2>2, <2>3, <2>4 DEF FInv, ControlInv
  <2>6. ContentInv'
    <3>1. CallContent'
      BY <1>1, <1>7, <2>4 DEF FInv, ContentInv, CallContent
    <3>2. FsContent'
      <4>1. Received'
        BY <1>1, <1>10, <2>2 DEF Received, Result, Msg
      <4> QED
        BY <1>7, <2>2, <2>3, <4>1, Ops DEF FsContent
    <3>3. TtyContent'
      BY <1>7, <2>2, Ops DEF TtyContent
    <3>4. RightAnswer'
      BY <2>4 DEF RightAnswer
    <3> QED
      BY <1>10, <3>1, <3>2, <3>3, <3>4 DEF ContentInv
  <2>7. \A x \in Users : /\ ~HeldByFS(x)' /\ ~HeldByFS(x) /\ ~AnswerAtFS(x)
                         /\ AnswerAtFS(x)' <=> x = v
                         /\ ~AnswerAtTTY(x)'
    <3>1. \A x \in Users : ~HeldByFS(x) /\ ~AnswerAtFS(x)
      BY <2>3 DEF HeldByFS, AnswerAtFS, Receiving, IPC!Free
    <3>2. box'[FS].source = TTY /\ box'[FS].body.p1 = v
      BY <2>2 DEF Result, Msg
    <3>3. \A x \in Users : ~HeldByFS(x)' /\ (AnswerAtFS(x)' <=> x = v)
      BY <1>7, <2>2, <2>3, <3>2, Pids DEF HeldByFS, AnswerAtFS, Free, IPC!Free
    <3>4. \A x \in Users : ~AnswerAtTTY(x)'
      BY <1>7, <2>2, Ops DEF AnswerAtTTY
    <3> QED
      BY <3>1, <3>3, <3>4
  <2>8. PlaceInv'
    BY <1>4, <1>8, <1>10, <1>11, <2>4, <2>7 DEF FInv, PlaceInv, Somewhere, Exclusive
  <2> QED
    BY <1>8, <2>1, <2>5, <2>6, <2>8 DEF FInv
<1>13. CASE IPC!BlockSend(TTY, FS, m)
  <2>1. /\ WaitInv'
        /\ \A x \in Procs : wait'[x] = IF x = TTY THEN Sending(FS) ELSE wait[x]
        /\ \A x \in Procs : box'[x] = IF x = TTY THEN [source |-> TTY, body |-> m] ELSE box[x]
    BY <1>13, Pids, BlockSendEffect DEF FInv
  <2>2. /\ wait'[TTY] = Sending(FS) /\ wait'[FS] = wait[FS] /\ box'[FS] = box[FS]
        /\ wait'[FSS] = wait[FSS] /\ box'[TTY] = Result(v)
        /\ \A x \in Users : wait'[x] = wait[x] /\ box'[x] = box[x]
    BY <1>6, <2>1, Pids
  <2>3. \A x \in Users :
          /\ UserControl(x)' /\ (Pending(x)' <=> Pending(x))
          /\ wait'[x].op = "send" => box'[x] = CallOf(x)'
          /\ Answered(x)' => box'[x].source = FS /\ box'[x].body = Msg("justamsg", call'[x].p1, 0)
    BY <1>1, <1>7, <2>2, UserKept
  <2>4. ControlInv'
    BY <1>1, <1>7, <1>8, <1>9, <2>2, <2>3 DEF FInv, ControlInv
  <2>5. ContentInv'
    <3>1. CallContent'
      BY <1>1, <1>7, <2>3 DEF FInv, ContentInv, CallContent
    <3>2. FsContent'
      BY <1>1, <1>7, <1>10, <2>2
         DEF FInv, ContentInv, FsContent, Received, CallOf, Result, AnswerTo
    <3>3. TtyContent'
      BY <1>1, <1>7, <1>10, <2>2 DEF TtyContent, Result, Msg
    <3>4. RightAnswer'
      BY <2>3 DEF RightAnswer
    <3> QED
      BY <1>10, <3>1, <3>2, <3>3, <3>4 DEF ContentInv
  <2>6. \A x \in Users : /\ HeldByFS(x)' <=> HeldByFS(x)
                         /\ AnswerAtFS(x)' <=> AnswerAtFS(x)
                         /\ AnswerAtTTY(x)' <=> x = v
    <3>1. \A x \in Users : (HeldByFS(x)' <=> HeldByFS(x)) /\ (AnswerAtFS(x)' <=> AnswerAtFS(x))
      BY <1>1, <1>7, <2>2 DEF HeldByFS, AnswerAtFS
    <3>2. box'[TTY].body.p1 = v
      BY <2>2 DEF Result, Msg
    <3>3. \A x \in Users : AnswerAtTTY(x)' <=> x = v
      BY <1>7, <2>2, <3>2, Ops DEF AnswerAtTTY
    <3> QED
      BY <3>1, <3>3
  <2>7. PlaceInv'
    BY <1>4, <1>8, <1>10, <1>11, <2>3, <2>6 DEF FInv, PlaceInv, Somewhere, Exclusive
  <2> QED
    BY <1>8, <2>1, <2>4, <2>5, <2>7 DEF FInv
<1> QED
  BY <1>5, <1>12, <1>13
-----------------------------------------------------------------------------
(* The invariant holds.                                                    *)

LEMMA FInitInv == Init => FInv
<1> SUFFICES ASSUME Init PROVE FInv
  OBVIOUS
<1>1. /\ ioqueue_init /\ ttyproc_queue = FALSE /\ panicked = FALSE
      /\ wait = [p \in Procs |-> Free] /\ senders = [p \in Procs |-> <<>>]
      /\ box = [p \in Procs |-> [source |-> -1, body |-> GARBAGE]]
      /\ call = [u \in Users |-> Msg("none", 0, 0)]
  BY DEF Init, IPC!RInit, Free
<1>2. /\ \A u \in Users : pc[u] = "user"
      /\ pc[FS] = "start" /\ pc[TTY] = "start" /\ DOMAIN pc = Procs
  BY Pids DEF Init
<1>3. QInv
  BY <1>1, QInit
<1>4. WaitInv
  BY <1>1 DEF WaitInv
<1>5. /\ \A u \in Users : wait[u] = Free
      /\ wait[FS] = Free /\ wait[TTY] = Free /\ wait[FSS] = Free
  BY <1>1, Pids
<1>6. ControlInv
  <2>1. TypeOK
    BY <1>1, <1>2, <1>3 DEF TypeOK, QInv
  <2>2. \A u \in Users : UserControl(u)
    BY <1>2, <1>5 DEF UserControl
  <2> QED
    BY <1>1, <1>2, <1>5, <2>1, <2>2 DEF ControlInv
<1>7. \A i \in Index : q.list[i] = ZERO
  BY <1>1 DEF ioqueue_init
<1>8. ContentInv
  <2>1. CallContent
    <3>1. DOMAIN call = Users /\ \A u \in Users : call[u].p1 \in {0, 1}
      BY <1>1 DEF Msg
    <3> QED
      BY <1>2, <1>5, <3>1, Ops DEF CallContent
  <2>2. FsContent /\ TtyContent
    BY <1>2, <1>5, Ops DEF FsContent, TtyContent
  <2>3. QueueContent
    BY <1>7 DEF QueueContent
  <2>4. RightAnswer
    BY <1>2 DEF RightAnswer, Answered
  <2> QED
    BY <2>1, <2>2, <2>3, <2>4 DEF ContentInv
<1>9. \A u \in Users : /\ ~Pending(u) /\ ~HeldByFS(u) /\ ~InQueue(u)
                       /\ ~AnswerAtTTY(u) /\ ~AnswerAtFS(u)
                       /\ \A i \in Index : ~QueuedAt(i, u)
  <2>1. \A u \in Users : ~Pending(u) /\ ~HeldByFS(u) /\ ~AnswerAtTTY(u)
    BY <1>2, <1>5, Ops DEF Pending, HeldByFS, AnswerAtTTY
  <2>2. \A u \in Users : ~AnswerAtFS(u)
    BY <1>2, <1>5 DEF AnswerAtFS, Free, IPC!Free
  <2> QED
    BY <1>7, <2>1, <2>2 DEF InQueue, QueuedAt
<1>10. PlaceInv
  BY <1>9 DEF PlaceInv, Somewhere, Exclusive, TtyUsers
<1> QED
  BY <1>3, <1>4, <1>6, <1>8, <1>10 DEF FInv

\* Every step keeps the invariant and does to the queue what the queue allows.
LEMMA FNextInv == FInv /\ [Next]_vars => FInv' /\ [QNext]_q
<1> SUFFICES ASSUME FInv, [Next]_vars PROVE FInv' /\ [QNext]_q
  OBVIOUS
<1>1. ASSUME NEW u \in Users, UserSend(u) PROVE FInv' /\ q' = q
  BY <1>1, UserSendStep DEF UserSend
<1>2. ASSUME NEW u \in Users, UserReceive(u) PROVE FInv' /\ q' = q
  BY <1>2, UserReceiveStep DEF UserReceive
<1>3. ASSUME NEW u \in Users, UserReturn(u) PROVE FInv' /\ q' = q
  BY <1>3, UserReturnStep DEF UserReturn
<1>4. CASE FsStart
  BY <1>4, FsStartStep DEF FsStart
<1>5. CASE FsReceive
  BY <1>5, FsReceiveStep DEF FsReceive
<1>6. CASE FsDispatch
  BY <1>6, FsDispatchStep DEF FsDispatch
<1>7. CASE FsIsFull
  BY <1>7, FsIsFullStep DEF FsIsFull
<1>8. CASE FsEnqueue
  <2>1. FInv' /\ ioenqueue(msg) /\ msg \in IOQuest
    BY <1>8, FsEnqueueStep
  <2> QED
    BY <2>1 DEF QNext, ioenqueue
<1>9. CASE FsResume
  BY <1>9, FsResumeStep DEF FsResume
<1>10. CASE FsNotify(TTY, "notify_tty") \/ FsNotify(FSS, "notify_fss")
  BY <1>10, FsNotifyStep DEF FsNotify
<1>11. CASE TtyStart
  BY <1>11, TtyStartStep
<1>12. CASE TtyIsEmpty
  BY <1>12, TtyIsEmptyStep DEF TtyIsEmpty
<1>13. CASE TtyReceive
  BY <1>13, TtyReceiveStep DEF TtyReceive
<1>14. CASE TtyDequeue
  BY <1>14, TtyDequeueStep DEF QNext
<1>15. CASE TtyServe
  BY <1>15, TtyServeStep DEF TtyServe
<1>16. CASE UNCHANGED vars
  <2>1. /\ q' = q /\ wait' = wait /\ senders' = senders /\ box' = box
        /\ ttyproc_queue' = ttyproc_queue /\ msg' = msg /\ elem' = elem /\ call' = call
        /\ pc' = pc /\ panicked' = panicked
    BY <1>16 DEF vars, ipc, local
  <2>2. QInv' /\ ioqueue_isfull' = ioqueue_isfull /\ ioqueue_init' = ioqueue_init
        /\ \A i, x : QueuedAt(i, x)' = QueuedAt(i, x)
        /\ \A w : InQueue(w)' = InQueue(w)
    BY <2>1, QueueSame DEF FInv
  <2>3. WaitInv'
    BY <2>1, WaitSame DEF FInv, ipc
  <2>4. ControlInv'
    <3>1. TypeOK'
      BY <2>1, <2>2 DEF FInv, ControlInv, TypeOK, QInv
    <3> QED
      BY <2>1, <2>2, <3>1 DEF FInv, ControlInv, UserControl
  <2>5. ContentInv'
    BY <2>1 DEF FInv, ContentInv, CallContent, FsContent, QueueContent, TtyContent, RightAnswer,
                Received, TtyUsers, CallOf, Result, AnswerTo, Answered
  <2>6. \A u \in Users : /\ HeldByFS(u)' <=> HeldByFS(u)
                         /\ AnswerAtFS(u)' <=> AnswerAtFS(u)
                         /\ AnswerAtTTY(u)' <=> AnswerAtTTY(u)
                         /\ Pending(u)' <=> Pending(u)
    BY <2>1 DEF HeldByFS, AnswerAtFS, AnswerAtTTY, Pending
  <2>7. PlaceInv'
    BY <2>1, <2>2, <2>6 DEF FInv, PlaceInv, Somewhere, Exclusive, TtyUsers
  <2> QED
    BY <2>1, <2>2, <2>3, <2>4, <2>5, <2>7 DEF FInv
<1> QED
  BY <1>1, <1>2, <1>3, <1>4, <1>5, <1>6, <1>7, <1>8, <1>9, <1>10, <1>11, <1>12, <1>13,
     <1>14, <1>15, <1>16
     DEF Next, FsStep, TtyStep

\* A process never has more than one request in the queue.
LEMMA QueuedCount ==
  ASSUME FInv, NEW u \in Users
  PROVE  Queued(u) = IF InQueue(u) THEN 1 ELSE 0
<1> DEFINE S == {i \in Index : q.list[i] # ZERO /\ q.list[i].source = u}
<1>1. \A i : i \in S <=> i \in Index /\ QueuedAt(i, u)
  BY DEF QueuedAt
<1>2. CASE InQueue(u)
  <2>1. PICK i \in Index : QueuedAt(i, u)
    BY <1>2 DEF InQueue
  <2>2. \A j \in Index : QueuedAt(j, u) => j = i
    BY <2>1 DEF FInv, PlaceInv
  <2>3. S = {i}
    BY <1>1, <2>1, <2>2
  <2> QED
    BY <1>2, <2>3, FS_Singleton DEF Queued
<1>3. CASE ~InQueue(u)
  <2>1. S = {}
    BY <1>1, <1>3 DEF InQueue
  <2> QED
    BY <1>3, <2>1, FS_EmptySet DEF Queued
<1> QED
  BY <1>2, <1>3

LEMMA PlacesCount == FInv => InOnePlace
<1> SUFFICES ASSUME FInv, NEW u \in Users
             PROVE  /\ InTtyCall(u) => Places(u) = 1
                    /\ pc[u] = "user" => Places(u) = 0
  BY DEF InOnePlace
<1>1. UserControl(u)
  BY DEF FInv, ControlInv
<1>2. /\ Somewhere(u) => Pending(u)
      /\ InTtyCall(u) /\ Pending(u) => Somewhere(u)
      /\ Exclusive(u)
  BY DEF FInv, PlaceInv, TtyUsers, InTtyCall
<1>3. Queued(u) = IF InQueue(u) THEN 1 ELSE 0
  BY QueuedCount
<1>4. CASE Pending(u)
  <2>1. wait[u].op # "send" /\ ~Answered(u) /\ pc[u] # "user"
    BY <1>4, Ops DEF Pending, Answered, Receiving, Free, IPC!Free
  <2> QED
    BY <1>2, <1>3, <1>4, <2>1 DEF Places, Somewhere, Exclusive
<1>5. CASE ~Pending(u)
  <2>1. ~HeldByFS(u) /\ ~InQueue(u) /\ ~AnswerAtTTY(u) /\ ~AnswerAtFS(u)
    BY <1>2, <1>5 DEF Somewhere
  <2>2. /\ InTtyCall(u) => (wait[u].op = "send" <=> ~Answered(u))
        /\ pc[u] = "user" => wait[u].op # "send" /\ ~Answered(u)
    BY <1>1, <1>5, Ops DEF UserControl, Pending, InTtyCall, Answered, Free
  <2> QED
    BY <1>3, <2>1, <2>2 DEF Places
<1> QED
  BY <1>4, <1>5

\* Every message on the way, every entry of the queue and every blocked call belongs to
\* the call of one user process, and to one place only.
THEOREM FsTtyInvariance == Spec => []FInv
  BY FInitInv, FNextInv, PTL DEF Spec

-----------------------------------------------------------------------------
\* Every process is at one of its statements, the queue is well formed, and what
\* TTY0 serves was asked by a user process (proc_tty).
THEOREM FsTtyTypes == Spec => []TypeOK
<1>1. FInv => TypeOK
  BY DEF FInv, ControlInv
<1> QED
  BY <1>1, FsTtyInvariance, PTL

\* Neither panic of fs_request_by_fd is reached: the queue that FS found not
\* full still has room when FS enqueues, and no file descriptor is unknown.
THEOREM NeverPanics == Spec => []NoPanic
<1>1. FInv => NoPanic
  BY DEF FInv, ControlInv, NoPanic
<1> QED
  BY <1>1, FsTtyInvariance, PTL

\* A system call on a terminal is in exactly one place between the ecall that
\* makes it and the one that returns (fs_request_by_fd, proc_tty,
\* fs_resume_userproc): it is not lost, served twice or answered twice.
THEOREM CallInOnePlace == Spec => []InOnePlace
  BY PlacesCount, FsTtyInvariance, PTL

\* What a system call returns is the result of that call: FS and TTY0 keep
\* apart the calls of any number of processes (fs_resume_userproc).
THEOREM RightAnswers == Spec => []RightAnswer
<1>1. FInv => RightAnswer
  BY DEF FInv, ContentInv
<1> QED
  BY <1>1, FsTtyInvariance, PTL

\* FS and TTY0, which share the queue with no lock around the test and the
\* operation, use it as a FIFO.
THEOREM SharedQueueIsFIFO == Spec => ImplementsFIFO
<1>1. Init => F!FInit
  BY QInit DEF Init, F!FInit
<1>2. FInv /\ [QNext]_q => [F!FNext]_Contents
  BY QStep DEF FInv
<1> QED
  BY <1>1, <1>2, FNextInv, FsTtyInvariance, PTL DEF Spec, ImplementsFIFO, F!FSpec
=============================================================================
