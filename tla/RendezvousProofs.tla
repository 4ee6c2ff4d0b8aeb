-------------------------- MODULE RendezvousProofs --------------------------
(***************************************************************************)
(* The process manager implements Rendezvous, for every table size, every  *)
(* set of processes and every call pattern that meets TopologyAssumption   *)
(* and ServerAssumption.  The refinement mapping reads two things off the  *)
(* table: which call a process is blocked in (Waits) and who waits in the  *)
(* queue of whom (SenderSeq).  Each is first shown to change only where a  *)
(* handler means it to; then every handler is one abstract step.           *)
(***************************************************************************)
EXTENDS ProcessProofs, ProcessRefinement, SequenceTheorems

-----------------------------------------------------------------------------
(* Sequences of the two lengths that occur.                                *)

LEMMA AppendShort ==
  ASSUME NEW x, NEW y
  PROVE  Append(<<>>, x) = <<x>> /\ Append(<<x>>, y) = <<x, y>>
<1>1. Append(<<x>>, y) = <<x, y>>
  <2>1. <<x>> \in Seq({x, y}) /\ Len(<<x>>) = 1 /\ <<x>>[1] = x
    OBVIOUS
  <2>2. /\ Append(<<x>>, y) \in Seq({x, y}) /\ Len(Append(<<x>>, y)) = 2
        /\ Append(<<x>>, y)[1] = x /\ Append(<<x>>, y)[2] = y
    BY <2>1
  <2>3. <<x, y>> \in Seq({x, y}) /\ Len(<<x, y>>) = 2 /\ <<x, y>>[1] = x /\ <<x, y>>[2] = y
    OBVIOUS
  <2>4. \A i \in 1 .. 2 : Append(<<x>>, y)[i] = <<x, y>>[i]
    BY <2>2, <2>3
  <2> QED
    BY <2>2, <2>3, <2>4, SeqEqual
<1>2. Append(<<>>, x) = <<x>>
  OBVIOUS
<1> QED
  BY <1>1, <1>2

LEMMA WithoutFirst ==
  ASSUME NEW x, NEW y
  PROVE  R!Without(<<x>>, 1) = <<>> /\ R!Without(<<x, y>>, 1) = <<y>>
<1>1. R!Without(<<x>>, 1) = <<>>
  <2>1. Len(<<x>>) - 1 = 0
    OBVIOUS
  <2> QED
    BY <2>1 DEF R!Without
<1>2. R!Without(<<x, y>>, 1) = <<y>>
  <2>1. Len(<<x, y>>) - 1 = 1
    OBVIOUS
  <2>2. R!Without(<<x, y>>, 1) = [j \in 1 .. 1 |-> IF j < 1 THEN <<x, y>>[j] ELSE <<x, y>>[j + 1]]
    BY <2>1 DEF R!Without
  <2>3. \A j \in 1 .. 1 : (IF j < 1 THEN <<x, y>>[j] ELSE <<x, y>>[j + 1]) = y
    OBVIOUS
  <2> QED
    BY <2>2, <2>3
<1> QED
  BY <1>1, <1>2

-----------------------------------------------------------------------------
(* The two halves of the mapping.                                          *)

\* What a process is blocked in, after a handler that hands st to
\* proc_schedule.
LEMMA WaitsAfter ==
  ASSUME IInv, kstatus = "up", ~do_start, NEW st, Handed(st), proc_schedule(st),
         pid' = pid, kstatus' = kstatus
  PROVE  \A q \in Slots :
           /\ st[q] = "SENDING" => Waits(q)' = [op |-> "send", peer |-> p_sendto'[q]]
           /\ st[q] = "RECEIVING" => Waits(q)' = [op |-> "recv", peer |-> p_recvfrom'[q]]
           /\ st[q] \notin {"SENDING", "RECEIVING"} => Waits(q)' = R!Free
<1>1. SameClass(st) /\ state' \in [Slots -> States]
  BY ScheduleStep DEF IInv
<1>2. \A q \in Slots : /\ state'[q] = "SENDING" <=> st[q] = "SENDING"
                       /\ state'[q] = "RECEIVING" <=> st[q] = "RECEIVING"
  BY <1>1 DEF SameClass, Runnable, Handed, States
<1> QED
  BY <1>2 DEF Waits, R!Free

LEMMA WaitsNow ==
  ASSUME IInv
  PROVE  \A q \in Slots :
           /\ state[q] = "SENDING" => Waits(q) = [op |-> "send", peer |-> p_sendto[q]]
           /\ state[q] = "RECEIVING" => Waits(q) = [op |-> "recv", peer |-> p_recvfrom[q]]
           /\ state[q] \notin {"SENDING", "RECEIVING"} => Waits(q) = R!Free
  BY DEF Waits, R!Free

\* No queue changes while its links do not.
LEMMA SenderSeqSame ==
  ASSUME UNCHANGED <<queue_sending, queue_sending_next>>
  PROVE  \A d : SenderSeq(d)' = SenderSeq(d)
  BY DEF SenderSeq

\* A direct delivery frees the receiver and copies the message to it.
LEMMA DirectIsDeliver ==
  ASSUME IInv, NEW p \in Slots, NEW dest \in Slots, p # dest, NEW b \in Payload,
         msg_send_direct(p, dest, b)
  PROVE  R!Deliver(p, dest, b)
<1> DEFINE st == [state EXCEPT ![dest] = "READY"]
<1>1. p = proc_running /\ ~do_start /\ kstatus = "up" /\ state[p] = "RUNNING" /\ pid[p] = p
  BY Caller DEF msg_send_direct
<1>2. state[dest] = "RECEIVING" /\ p_recvfrom[dest] \in {p, IPC_TARGET_ANY}
      /\ p_msg[dest] = dest
  BY <1>1 DEF msg_send_direct, CanDeliver, IInv, BlockedWaits
<1>3. Handed(st)
  BY <1>1, <1>2, ChangeHanded
<1>4. proc_schedule(st) /\ UNCHANGED <<pid, kstatus, p_sendto, queue_sending, queue_sending_next>>
      /\ p_recvfrom' = [p_recvfrom EXCEPT ![dest] = IPC_TARGET_NONE]
  BY DEF msg_send_direct
<1>5. \A q \in Slots : st[q] = IF q = dest THEN "READY" ELSE state[q]
  BY DEF IInv, TypeOK
<1>6. \A q \in Slots :
        /\ st[q] = "SENDING" => Waits(q)' = [op |-> "send", peer |-> p_sendto'[q]]
        /\ st[q] = "RECEIVING" => Waits(q)' = [op |-> "recv", peer |-> p_recvfrom'[q]]
        /\ st[q] \notin {"SENDING", "RECEIVING"} => Waits(q)' = R!Free
  BY <1>1, <1>3, <1>4, WaitsAfter
<1> HIDE DEF st
<1>7. \A q \in Slots : Waits(q)' = IF q = dest THEN R!Free ELSE Waits(q)
  BY <1>4, <1>5, <1>6, WaitsNow DEF IInv, TypeOK
<1>8. \A d : SenderSeq(d)' = SenderSeq(d)
  BY <1>4, SenderSeqSame
<1>9. buf' = [buf EXCEPT ![p] = [source |-> p, body |-> b], ![dest] = [source |-> p, body |-> b]]
  BY <1>1, <1>2 DEF msg_send_direct, Stamped, IInv, TypeOK
<1>10. Waits(p) = R!Free /\ Waits(dest) = [op |-> "recv", peer |-> p_recvfrom[dest]]
  BY <1>1, <1>2, WaitsNow
<1>11. [q \in Slots |-> Waits(q)]' = [[q \in Slots |-> Waits(q)] EXCEPT ![dest] = R!Free]
  BY <1>7
<1>12. [d \in Slots |-> SenderSeq(d)]' = [d \in Slots |-> SenderSeq(d)]
  BY <1>8
<1> QED
  BY <1>2, <1>9, <1>10, <1>11, <1>12 DEF R!Deliver, R!Waiting

\* A sender that blocks goes to the end of the queue.
LEMMA BlockIsBlockSend ==
  ASSUME IInv, NEW p \in Slots \ IdleProcs, NEW dest \in Slots, p # dest,
         <<p, dest>> \in SendsTo, NEW b \in Payload, msg_send_block(p, dest, b)
  PROVE  R!BlockSend(p, dest, b)
<1> DEFINE st == [state EXCEPT ![p] = "SENDING"]
           h  == queue_sending[dest]
<1>1. /\ p = proc_running /\ ~do_start /\ kstatus = "up" /\ state[p] = "RUNNING" /\ pid[p] = p
      /\ p_recvfrom[p] = IPC_TARGET_NONE /\ queue_sending_next[p] = NULL
  BY Caller DEF msg_send_block
<1>2. h # NULL => /\ h \in Slots /\ h # p /\ SendingTo(dest) = {h}
                  /\ queue_sending_next[h] = NULL /\ queue_sending_next[dest] = NULL
  BY <1>1, RoomInQueue
<1>3. /\ buf' = Stamped(p, b)
      /\ p_sendto' = [p_sendto EXCEPT ![p] = dest]
      /\ IF h # NULL
         THEN /\ queue_sending_next' = [queue_sending_next EXCEPT ![h] = p]
              /\ queue_sending' = queue_sending
         ELSE /\ queue_sending' = [queue_sending EXCEPT ![dest] = p]
              /\ queue_sending_next' = queue_sending_next
      /\ proc_schedule(st)
      /\ UNCHANGED <<pid, p_recvfrom, ticks, elfs, kstatus>>
      /\ ~CanDeliver(dest)
  BY <1>1, <1>2 DEF msg_send_block
<1>4. Handed(st)
  BY <1>1, ChangeHanded
<1>5. \A q \in Slots : st[q] = IF q = p THEN "SENDING" ELSE state[q]
  BY DEF IInv, TypeOK
<1>6. \A q \in Slots :
        /\ st[q] = "SENDING" => Waits(q)' = [op |-> "send", peer |-> p_sendto'[q]]
        /\ st[q] = "RECEIVING" => Waits(q)' = [op |-> "recv", peer |-> p_recvfrom'[q]]
        /\ st[q] \notin {"SENDING", "RECEIVING"} => Waits(q)' = R!Free
  BY <1>1, <1>3, <1>4, WaitsAfter
<1> HIDE DEF st
<1>7. \A q \in Slots : Waits(q)' = IF q = p THEN [op |-> "send", peer |-> dest] ELSE Waits(q)
  BY <1>3, <1>5, <1>6, WaitsNow DEF IInv, TypeOK
<1>8. SenderSeq(dest)' = Append(SenderSeq(dest), p)
  <2>1. CASE h = NULL
    <3>1. SenderSeq(dest) = <<>> /\ queue_sending'[dest] = p /\ queue_sending_next'[p] = NULL
      BY <1>1, <1>3, <2>1 DEF SenderSeq, IInv, TypeOK
    <3>2. SenderSeq(dest)' = <<p>>
      BY <3>1, NullIsNoSlot DEF SenderSeq
    <3> QED
      BY <3>1, <3>2, AppendShort
  <2>2. CASE h # NULL
    <3>1. SenderSeq(dest) = <<h>>
      BY <1>2, <2>2 DEF SenderSeq
    <3>2. queue_sending'[dest] = h /\ queue_sending_next'[h] = p
      BY <1>2, <1>3, <2>2 DEF IInv, TypeOK
    <3>3. SenderSeq(dest)' = <<h, p>>
      BY <2>2, <3>2, NullIsNoSlot DEF SenderSeq
    <3> QED
      BY <3>1, <3>3, AppendShort
  <2> QED
    BY <2>1, <2>2
<1>9. ASSUME NEW d \in Slots, d # dest
      PROVE  SenderSeq(d)' = SenderSeq(d)
  <2>1. CASE h = NULL
    BY <1>3, <1>9, <2>1 DEF SenderSeq, IInv, TypeOK
  <2>2. CASE h # NULL
    <3>1. queue_sending'[d] = queue_sending[d]
      BY <1>3, <2>2
    <3>2. h \notin SendingTo(d)
      BY <1>2, <1>9, <2>2 DEF SendingTo
    <3>3. queue_sending[d] # h
      BY <2>2, <3>2 DEF IInv, QueueExact
    <3>4. queue_sending[d] # NULL => queue_sending[d] \in Slots
      BY DEF IInv, TypeOK, ProcPtr
    <3>5. queue_sending[d] # NULL =>
            queue_sending_next'[queue_sending[d]] = queue_sending_next[queue_sending[d]]
      BY <1>2, <1>3, <2>2, <3>3, <3>4 DEF IInv, TypeOK
    <3> QED
      BY <3>1, <3>5 DEF SenderSeq
  <2> QED
    BY <2>1, <2>2
<1>10. buf' = [buf EXCEPT ![p] = [source |-> p, body |-> b]]
  BY <1>1, <1>3 DEF Stamped
<1>11. Waits(p) = R!Free
  BY <1>1, WaitsNow
<1>12. ~R!Waiting(dest, p)
  <2>1. ~(state[dest] = "RECEIVING" /\ p_recvfrom[dest] \in {p, IPC_TARGET_ANY})
    BY <1>1, <1>3 DEF CanDeliver
  <2>2. state[dest] # "RECEIVING" => Waits(dest).op # "recv"
    BY DEF Waits
  <2> QED
    BY <2>1, <2>2, WaitsNow DEF R!Waiting
<1>13. [q \in Slots |-> Waits(q)]' =
         [[q \in Slots |-> Waits(q)] EXCEPT ![p] = [op |-> "send", peer |-> dest]]
  BY <1>7
<1>14. [d \in Slots |-> SenderSeq(d)]' =
         [[d \in Slots |-> SenderSeq(d)] EXCEPT ![dest] = Append(@, p)]
  BY <1>8, <1>9
<1> QED
  BY <1>10, <1>11, <1>12, <1>13, <1>14 DEF R!BlockSend

\* A receiver that finds a sender takes the message of the oldest.
LEMMA HeadIsTakeSent ==
  ASSUME IInv, NEW p \in Slots, Executing(p), NEW h \in Slots, NEW s,
         s \in {h, IPC_TARGET_ANY},
         queue_sending[p] = h, DequeueHead(h), FinishReceive(p, h)
  PROVE  R!TakeSent(p, s)
<1> DEFINE st == [state EXCEPT ![h] = "READY"]
           t  == queue_sending_next[h]
<1>1. /\ p = proc_running /\ ~do_start /\ kstatus = "up" /\ state[p] = "RUNNING" /\ pid[p] = p
  BY Caller
<1>2. h # NULL /\ h \in SendingTo(p) /\ state[h] = "SENDING" /\ h # p
  BY <1>1, NullIsNoSlot DEF IInv, QueueExact, SendingTo
<1>3. p_msg[h] = h /\ t \in ProcPtr
  BY <1>2 DEF IInv, BlockedWaits, TypeOK
<1>4. /\ buf' = [buf EXCEPT ![p] = buf[h]]
      /\ p_sendto' = [p_sendto EXCEPT ![h] = IPC_TARGET_NONE]
      /\ queue_sending' = [queue_sending EXCEPT ![p] = t]
      /\ queue_sending_next' = [queue_sending_next EXCEPT ![h] = NULL]
      /\ proc_schedule(st)
      /\ UNCHANGED <<pid, p_recvfrom, ticks, elfs, kstatus>>
  BY <1>1, <1>3 DEF FinishReceive, DequeueHead
<1>5. Handed(st)
  BY <1>1, <1>2, ChangeHanded
<1>6. \A q \in Slots : st[q] = IF q = h THEN "READY" ELSE state[q]
  BY DEF IInv, TypeOK
<1>7. \A q \in Slots :
        /\ st[q] = "SENDING" => Waits(q)' = [op |-> "send", peer |-> p_sendto'[q]]
        /\ st[q] = "RECEIVING" => Waits(q)' = [op |-> "recv", peer |-> p_recvfrom'[q]]
        /\ st[q] \notin {"SENDING", "RECEIVING"} => Waits(q)' = R!Free
  BY <1>1, <1>4, <1>5, WaitsAfter
<1> HIDE DEF st
<1>8. \A q \in Slots : Waits(q)' = IF q = h THEN R!Free ELSE Waits(q)
  BY <1>4, <1>6, <1>7, WaitsNow DEF IInv, TypeOK
<1>9. /\ SenderSeq(p)[1] = h /\ Len(SenderSeq(p)) \in {1, 2}
      /\ SenderSeq(p)' = R!Without(SenderSeq(p), 1)
  <2>1. queue_sending'[p] = t /\ (t # NULL => t # h /\ t \in Slots /\ queue_sending_next[t] = NULL)
    BY <1>2, <1>3, <1>4 DEF IInv, TypeOK, ProcPtr, QueueExact
  <2>2. CASE t = NULL
    <3>1. SenderSeq(p) = <<h>>
      BY <1>2, <2>2 DEF SenderSeq
    <3>2. SenderSeq(p)' = <<>>
      BY <2>1, <2>2 DEF SenderSeq
    <3>3. <<h>>[1] = h /\ Len(<<h>>) = 1
      OBVIOUS
    <3>4. R!Without(<<h>>, 1) = <<>>
      BY WithoutFirst
    <3> QED
      BY <3>1, <3>2, <3>3, <3>4
  <2>3. CASE t # NULL
    <3>1. SenderSeq(p) = <<h, t>>
      BY <1>2, <2>3 DEF SenderSeq
    <3>2. queue_sending_next'[t] = NULL
      BY <1>4, <2>1, <2>3 DEF IInv, TypeOK
    <3>3. SenderSeq(p)' = <<t>>
      BY <2>1, <2>3, <3>2 DEF SenderSeq
    <3>4. <<h, t>>[1] = h /\ Len(<<h, t>>) = 2
      OBVIOUS
    <3>5. R!Without(<<h, t>>, 1) = <<t>>
      BY WithoutFirst
    <3> QED
      BY <3>1, <3>3, <3>4, <3>5
  <2> QED
    BY <2>2, <2>3
<1>10. ASSUME NEW d \in Slots, d # p
       PROVE  SenderSeq(d)' = SenderSeq(d)
  <2>1. queue_sending'[d] = queue_sending[d]
    BY <1>4, <1>10 DEF IInv, TypeOK
  <2>2. h \notin SendingTo(d)
    BY <1>2, <1>10 DEF SendingTo
  <2>3. queue_sending[d] # h
    BY <1>2, <2>2 DEF IInv, QueueExact
  <2>4. queue_sending[d] # NULL => queue_sending[d] \in Slots
    BY DEF IInv, TypeOK, ProcPtr
  <2>5. queue_sending[d] # NULL =>
          queue_sending_next'[queue_sending[d]] = queue_sending_next[queue_sending[d]]
    BY <1>4, <2>3, <2>4 DEF IInv, TypeOK
  <2> QED
    BY <2>1, <2>5 DEF SenderSeq
<1>11. Waits(p) = R!Free
  BY <1>1, WaitsNow
<1>12. 1 \in R!Accepts(p, s) /\ \A j \in R!Accepts(p, s) : 1 <= j
  BY <1>9 DEF R!Accepts
<1>13. [q \in Slots |-> Waits(q)]' = [[q \in Slots |-> Waits(q)] EXCEPT ![h] = R!Free]
  BY <1>8
<1>14. [d \in Slots |-> SenderSeq(d)]' =
         [[d \in Slots |-> SenderSeq(d)] EXCEPT ![p] = R!Without(@, 1)]
  BY <1>9, <1>10
<1> QED
  BY <1>4, <1>9, <1>11, <1>12, <1>13, <1>14 DEF R!TakeSent

LEMMA AnyIsTakeSent ==
  ASSUME IInv, NEW p \in Slots, msg_receive_any(p)
  PROVE  R!TakeSent(p, IPC_TARGET_ANY)
<1> DEFINE h == queue_sending[proc_running]
<1>1. /\ Executing(p) /\ p = proc_running /\ pid[p] = p /\ CallerClean
  BY Caller DEF msg_receive_any, CallerClean
<1>2. h \in Slots
  BY <1>1 DEF msg_receive_any, IInv, TypeOK, ProcPtr
<1>3. h \in SendingTo(p)
  BY <1>1, <1>2, NullIsNoSlot DEF IInv, QueueExact
<1>4. p_msg[h] # NULL /\ p_recvfrom[h] = IPC_TARGET_NONE /\ p_sendto[h] = p
  BY <1>2, <1>3, NullIsNoSlot DEF SendingTo, IInv, BlockedWaits
<1>5. DequeueHead(h) /\ FinishReceive(p, h)
  BY <1>1, <1>4 DEF msg_receive_any
<1> QED
  BY <1>1, <1>2, <1>5, HeadIsTakeSent

\* The sender that a RECEIVE names is the only one that can be in the queue.
LEMMA OnlySender ==
  ASSUME IInv, NEW p \in Slots, NEW src \in Slots, <<p, src>> \in ReceivesFrom
  PROVE  SendingTo(p) \subseteq {src}
<1>1. src # IPC_TARGET_ANY
  BY DEF Slots, IPC_TARGET_ANY
<1>2. Senders(p) \subseteq {src}
  BY <1>1, TopologyAssumption
<1> QED
  BY <1>2 DEF SendingTo, Senders, IInv, BlockedWaits

LEMMA FromIsTakeSent ==
  ASSUME IInv, NEW p \in Slots, NEW src \in Slots, <<p, src>> \in ReceivesFrom,
         msg_receive_from(p, src)
  PROVE  R!TakeSent(p, src)
<1>1. /\ Executing(p) /\ p = proc_running /\ pid[p] = p /\ CallerClean /\ state[p] = "RUNNING"
  BY Caller DEF msg_receive_from, CallerClean
<1>2. state[src] = "SENDING" /\ p_sendto[src] = p
  <2>1. p # IPC_TARGET_NONE
    BY DEF Slots, IPC_TARGET_NONE
  <2> QED
    BY <1>1, <2>1 DEF msg_receive_from, IsSendingTo, IInv, ResumedIpcDone
<1>3. src \in SendingTo(p)
  BY <1>2 DEF SendingTo
<1>4. queue_sending[p] = src
  BY <1>3, OnlySender DEF IInv, QueueExact
<1>5. p_msg[src] # NULL /\ p_recvfrom[src] = IPC_TARGET_NONE /\ src # NULL
  BY <1>2, NullIsNoSlot DEF IInv, BlockedWaits
<1>6. DequeueHead(src) /\ FinishReceive(p, src)
  BY <1>1, <1>4, <1>5 DEF msg_receive_from
<1> QED
  BY <1>1, <1>4, <1>6, HeadIsTakeSent

\* A receiver that blocks had no sender in its queue that it accepts, and
\* waits for the process it named.
LEMMA BlockIsBlockReceive ==
  ASSUME IInv, NEW p \in Slots \ IdleProcs, NEW src \in Slots \cup {IPC_TARGET_ANY},
         <<p, src>> \in ReceivesFrom, msg_receive_block(p, src)
  PROVE  R!BlockReceive(p, src)
<1> DEFINE st   == [state EXCEPT ![p] = "RECEIVING"]
           from == IF src = IPC_TARGET_ANY THEN IPC_TARGET_ANY ELSE pid[src]
<1>1. /\ p = proc_running /\ ~do_start /\ kstatus = "up" /\ state[p] = "RUNNING" /\ pid[p] = p
      /\ p_sendto[p] = IPC_TARGET_NONE
  BY Caller DEF msg_receive_block
<1>2. /\ buf' = [buf EXCEPT ![p].source = p]
      /\ p_recvfrom' = [p_recvfrom EXCEPT ![p] = from]
      /\ proc_schedule(st)
      /\ UNCHANGED <<pid, p_sendto, queue_sending, queue_sending_next, ticks, elfs, kstatus>>
      /\ IF src = IPC_TARGET_ANY THEN queue_sending[p] = NULL ELSE ~IsSendingTo(src, p)
  BY <1>1 DEF msg_receive_block
<1>3. from = src
  <2>1. src # IPC_TARGET_ANY => src \in Daemons
    BY ServerAssumption
  <2>2. src # IPC_TARGET_ANY => src \in Slots /\ pid[src] # NOPID
    BY <2>1 DEF IInv, TableInv, Live
  <2> QED
    BY <2>2 DEF IInv, TableInv
<1>4. queue_sending[p] = NULL
  <2>1. CASE src = IPC_TARGET_ANY
    BY <1>2, <2>1
  <2>2. CASE src # IPC_TARGET_ANY
    <3>1. src \in Slots /\ SendingTo(p) \subseteq {src}
      BY <2>2, OnlySender
    <3>2. src \notin SendingTo(p)
      BY <1>1, <1>2, <2>2 DEF IsSendingTo, SendingTo
    <3>3. SendingTo(p) = {}
      BY <3>1, <3>2
    <3> QED
      BY <3>3 DEF IInv, QueueExact
  <2> QED
    BY <2>1, <2>2
<1>5. R!Accepts(p, src) = {}
  <2>1. SenderSeq(p) = <<>>
    BY <1>4 DEF SenderSeq
  <2> QED
    BY <2>1 DEF R!Accepts
<1>6. Handed(st)
  BY <1>1, ChangeHanded
<1>7. \A q \in Slots : st[q] = IF q = p THEN "RECEIVING" ELSE state[q]
  BY DEF IInv, TypeOK
<1>8. \A q \in Slots :
        /\ st[q] = "SENDING" => Waits(q)' = [op |-> "send", peer |-> p_sendto'[q]]
        /\ st[q] = "RECEIVING" => Waits(q)' = [op |-> "recv", peer |-> p_recvfrom'[q]]
        /\ st[q] \notin {"SENDING", "RECEIVING"} => Waits(q)' = R!Free
  BY <1>1, <1>2, <1>6, WaitsAfter
<1> HIDE DEF st, from
<1>9. \A q \in Slots : Waits(q)' = IF q = p THEN [op |-> "recv", peer |-> src] ELSE Waits(q)
  BY <1>2, <1>3, <1>7, <1>8, WaitsNow DEF IInv, TypeOK
<1>10. \A d : SenderSeq(d)' = SenderSeq(d)
  BY <1>2, SenderSeqSame
<1>11. Waits(p) = R!Free
  BY <1>1, WaitsNow
<1>12. [q \in Slots |-> Waits(q)]' =
         [[q \in Slots |-> Waits(q)] EXCEPT ![p] = [op |-> "recv", peer |-> src]]
  BY <1>9
<1>13. [d \in Slots |-> SenderSeq(d)]' = [d \in Slots |-> SenderSeq(d)]
  BY <1>10
<1> QED
  BY <1>2, <1>5, <1>11, <1>12, <1>13 DEF R!BlockReceive

-----------------------------------------------------------------------------
(* The handlers that touch no queue.                                       *)

\* A context switch alone moves nobody in or out of a call.
LEMMA YieldInvisible ==
  ASSUME IInv, kstatus = "up", ~do_start, proc_schedule(state),
         UNCHANGED <<pid, ipc_vars, kstatus>>
  PROVE  /\ [q \in Slots |-> Waits(q)]' = [q \in Slots |-> Waits(q)]
         /\ [d \in Slots |-> SenderSeq(d)]' = [d \in Slots |-> SenderSeq(d)]
<1>1. Handed(state)
  BY TableHanded DEF Handed, Runnable
<1>2. \A q \in Slots :
        /\ state[q] = "SENDING" => Waits(q)' = [op |-> "send", peer |-> p_sendto'[q]]
        /\ state[q] = "RECEIVING" => Waits(q)' = [op |-> "recv", peer |-> p_recvfrom'[q]]
        /\ state[q] \notin {"SENDING", "RECEIVING"} => Waits(q)' = R!Free
  BY <1>1, WaitsAfter
<1>3. \A q \in Slots : Waits(q)' = Waits(q)
  BY <1>2, WaitsNow DEF ipc_vars
<1>4. \A d : SenderSeq(d)' = SenderSeq(d)
  BY SenderSeqSame DEF ipc_vars
<1> QED
  BY <1>3, <1>4

LEMMA RejectedIsRefuse ==
  ASSUME IInv, NEW p \in Slots, syscall_rejected(p)
  PROVE  R!Refuse(p) \/ UNCHANGED R!rvars
<1>1. p = proc_running /\ ~do_start /\ kstatus = "up" /\ state[p] = "RUNNING"
  BY Caller DEF syscall_rejected
<1>2. /\ [q \in Slots |-> Waits(q)]' = [q \in Slots |-> Waits(q)]
      /\ [d \in Slots |-> SenderSeq(d)]' = [d \in Slots |-> SenderSeq(d)]
  BY <1>1, YieldInvisible DEF syscall_rejected
<1>3. Waits(p) = R!Free
  BY <1>1, WaitsNow
<1>4. buf' = buf \/ buf' = [buf EXCEPT ![p].source = p]
  BY <1>1 DEF syscall_rejected
<1> QED
  BY <1>2, <1>3, <1>4 DEF R!Refuse, R!rvars

LEMMA FailIsDrop ==
  ASSUME IInv, NEW p \in Slots, NEW dest \in Slots, NEW b \in Payload,
         msg_send_nonblock_fail(p, dest, b)
  PROVE  R!Drop(p, dest, b)
<1>1. p = proc_running /\ ~do_start /\ kstatus = "up" /\ state[p] = "RUNNING" /\ pid[p] = p
  BY Caller DEF msg_send_nonblock_fail
<1>2. /\ [q \in Slots |-> Waits(q)]' = [q \in Slots |-> Waits(q)]
      /\ [d \in Slots |-> SenderSeq(d)]' = [d \in Slots |-> SenderSeq(d)]
  BY <1>1, YieldInvisible DEF msg_send_nonblock_fail
<1>3. Waits(p) = R!Free
  BY <1>1, WaitsNow
<1>4. ~R!Waiting(dest, p)
  <2>1. ~(state[dest] = "RECEIVING" /\ p_recvfrom[dest] \in {p, IPC_TARGET_ANY})
    BY <1>1 DEF msg_send_nonblock_fail, CanDeliver
  <2>2. state[dest] # "RECEIVING" => Waits(dest).op # "recv"
    BY DEF Waits
  <2> QED
    BY <2>1, <2>2, WaitsNow DEF R!Waiting
<1>5. buf' = [buf EXCEPT ![p] = [source |-> p, body |-> b]]
  BY <1>1 DEF msg_send_nonblock_fail, Stamped
<1> QED
  BY <1>2, <1>3, <1>4, <1>5 DEF R!Drop

LEMMA TimerInvisible ==
  ASSUME IInv, isr_timer_i_handler
  PROVE  UNCHANGED R!rvars
<1>1. UNCHANGED <<pid, ipc_vars, buf, elfs, kstatus>> /\ kstatus = "up"
  BY DEF isr_timer_i_handler
<1>2. \A d : SenderSeq(d)' = SenderSeq(d)
  BY <1>1, SenderSeqSame DEF ipc_vars
<1>3. CASE ticks' # 0
  <2>1. state' = state
    BY <1>3 DEF isr_timer_i_handler, sched_vars
  <2>2. \A q : Waits(q)' = Waits(q)
    BY <1>1, <2>1 DEF Waits, ipc_vars
  <2> QED
    BY <1>1, <1>2, <2>2 DEF R!rvars
<1>4. CASE ticks' = 0 /\ ~do_start
  <2>1. proc_schedule(state)
    BY <1>4 DEF isr_timer_i_handler
  <2> QED
    BY <1>1, <1>4, <2>1, YieldInvisible DEF R!rvars
<1>5. CASE ticks' = 0 /\ do_start
  <2>1. state' = [state EXCEPT ![1] = "RUNNING"]
    BY <1>5 DEF isr_timer_i_handler, proc_schedule
  <2>2. 1 \in Slots /\ state[1] = "RUNNING"
    BY <1>5, TableAssumption DEF IInv, TableInv, OneRunning, Slots
  <2>3. state' = state
    BY <2>1, <2>2 DEF IInv, TypeOK
  <2>4. \A q : Waits(q)' = Waits(q)
    BY <1>1, <2>3 DEF Waits, ipc_vars
  <2> QED
    BY <1>1, <1>2, <2>4 DEF R!rvars
<1> QED
  BY <1>3, <1>4, <1>5 DEF IInv, TypeOK

LEMMA NewProcessInvisible ==
  ASSUME IInv, NewProcess
  PROVE  UNCHANGED R!rvars
<1> DEFINE new == getavailpid
<1>1. new \in Slots
  BY LowestIn DEF NewProcess, getavailpid
<1> HIDE DEF new
<1>2. /\ state' = [state EXCEPT ![new] = "READY"]
      /\ queue_sending'      = [queue_sending EXCEPT ![new] = NULL]
      /\ queue_sending_next' = [queue_sending_next EXCEPT ![new] = NULL]
      /\ buf' = buf /\ do_start
  BY DEF NewProcess, new, IInv, TableInv
<1>3. \A q \in Slots : /\ state[q] \notin {"SENDING", "RECEIVING"}
                       /\ state'[q] \notin {"SENDING", "RECEIVING"}
  BY <1>1, <1>2 DEF IInv, TypeOK, TableInv
<1>4. \A q \in Slots : Waits(q)' = Waits(q)
  BY <1>3 DEF Waits
<1>5. \A d \in Slots : queue_sending[d] = NULL
  BY <1>3 DEF IInv, QueueExact, SendingTo
<1>6. \A d \in Slots : queue_sending'[d] = NULL
  BY <1>1, <1>2, <1>5 DEF IInv, TypeOK
<1>7. \A d \in Slots : SenderSeq(d)' = SenderSeq(d)
  BY <1>5, <1>6 DEF SenderSeq
<1> QED
  BY <1>2, <1>4, <1>7 DEF R!rvars

LEMMA SetupIRQInvisible ==
  ASSUME setupIRQ
  PROVE  UNCHANGED R!rvars
<1>1. \A d : SenderSeq(d)' = SenderSeq(d)
  BY SenderSeqSame DEF setupIRQ, ipc_vars
<1>2. \A q : Waits(q)' = Waits(q)
  BY DEF Waits, setupIRQ, ipc_vars, sched_vars
<1> QED
  BY <1>1, <1>2 DEF R!rvars, setupIRQ

-----------------------------------------------------------------------------
LEMMA InitMaps == Init => R!RInit
<1> SUFFICES ASSUME Init PROVE R!RInit
  OBVIOUS
<1>1. \A q \in Slots : Waits(q) = R!Free
  BY DEF Init, Waits, R!Free
<1>2. \A d \in Slots : SenderSeq(d) = <<>>
  BY DEF Init, SenderSeq
<1>3. buf \in {[p \in Slots |-> [source |-> -1, body |-> b]] : b \in Payload}
  BY DEF Init, NOPID
<1> QED
  BY <1>1, <1>2, <1>3 DEF R!RInit

LEMMA NextMaps ==
  ASSUME IInv, [Next]_vars
  PROVE  [R!RNext]_(R!rvars)
<1>1. CASE UNCHANGED vars
  <2>1. \A d : SenderSeq(d)' = SenderSeq(d)
    BY <1>1, SenderSeqSame DEF vars, ipc_vars
  <2>2. \A q : Waits(q)' = Waits(q)
    BY <1>1 DEF Waits, vars, ipc_vars, sched_vars
  <2> QED
    BY <1>1, <2>1, <2>2 DEF R!rvars, vars
<1>2. CASE NewProcess
  BY <1>2, NewProcessInvisible
<1>3. CASE setupIRQ
  BY <1>3, SetupIRQInvisible
<1>4. CASE isr_timer_i_handler
  BY <1>4, TimerInvisible
<1>5. ASSUME NEW e \in SendsTo, NEW b \in Payload, Send(e[1], e[2], b)
      PROVE  R!RNext
  <2>1. e = <<e[1], e[2]>> /\ e[1] \in Slots \ IdleProcs /\ e[2] \in Slots /\ e[1] # e[2]
    BY CallAssumption
  <2>2. R!Deliver(e[1], e[2], b) \/ R!BlockSend(e[1], e[2], b)
    BY <1>5, <2>1, DirectIsDeliver, BlockIsBlockSend DEF Send
  <2> QED
    BY <2>2 DEF R!RNext
<1>6. ASSUME NEW e \in NotifiesTo, NEW b \in Payload, Notify(e[1], e[2], b)
      PROVE  R!RNext
  <2>1. e[1] \in Slots /\ e[2] \in Slots /\ e[1] # e[2]
    BY CallAssumption
  <2>2. R!Deliver(e[1], e[2], b) \/ R!Drop(e[1], e[2], b)
    BY <1>6, <2>1, DirectIsDeliver, FailIsDrop DEF Notify
  <2> QED
    BY <2>2 DEF R!RNext
<1>7. ASSUME NEW e \in ReceivesFrom, Receive(e[1], e[2])
      PROVE  R!RNext
  <2>1. /\ e = <<e[1], e[2]>> /\ e[1] \in Slots \ IdleProcs
        /\ e[2] \in Slots \cup {IPC_TARGET_ANY}
    BY CallAssumption
  <2>2. R!TakeSent(e[1], e[2]) \/ R!BlockReceive(e[1], e[2])
    BY <1>7, <2>1, AnyIsTakeSent, FromIsTakeSent, BlockIsBlockReceive DEF Receive
  <2> QED
    BY <2>2 DEF R!RNext
<1>8. ASSUME NEW p \in Slots \ IdleProcs, syscall_rejected(p)
      PROVE  [R!RNext]_(R!rvars)
  <2>1. R!Refuse(p) \/ UNCHANGED R!rvars
    BY <1>8, RejectedIsRefuse
  <2> QED
    BY <2>1 DEF R!RNext
<1> QED
  BY <1>1, <1>2, <1>3, <1>4, <1>5, <1>6, <1>7, <1>8 DEF Next, syscall_handler

\* Whatever the processes and whatever they call, every trap handler of the
\* kernel is one step of the abstract rendezvous or invisible to it.
THEOREM RendezvousImplemented == Spec => ImplementsRendezvous
<1>1. Init => R!RInit
  BY InitMaps
<1>2. IInv /\ [Next]_vars => [R!RNext]_(R!rvars)
  BY NextMaps
<1>3. Spec => []IInv
  BY Invariance
<1> QED
  BY <1>1, <1>2, <1>3, PTL DEF Spec, ImplementsRendezvous, R!RSpec
=============================================================================
