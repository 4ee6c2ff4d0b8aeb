---------------------------- MODULE ProcessProofs ----------------------------
(***************************************************************************)
(* IInv is an inductive invariant of the process manager, for every table  *)
(* size, every set of processes and every call pattern that satisfies      *)
(* TopologyAssumption.  Every handler ends in proc_schedule, so the proof  *)
(* first says once what a call of it does to any table a handler can leave *)
(* (ScheduleStep), and then what each handler does to the queues.          *)
(***************************************************************************)
EXTENDS ProcessInv, WellFoundedInduction, TLAPS

\* The loops that count up through the table stop at an entry of the set they
\* look for (proc_getnext, getavailpid).

LEMMA LowestIn ==
  ASSUME NEW S, S \subseteq Slots, S # {}
  PROVE  Lowest(S) \in S
<1> DEFINE R == {ss \in Nat \X Nat : ss[1] < ss[2]}
<1>1. IsWellFoundedOn(R, Nat)
  BY NatLessThanWellFounded DEF OpToRel
<1>2. S \subseteq Nat
  BY TableAssumption DEF Slots
<1>3. PICK x \in S : \A y \in S : ~(<<y, x>> \in R)
  BY <1>1, <1>2, WFMin
<1>4. ASSUME NEW y \in S PROVE x <= y
  <2>1. x \in Nat /\ y \in Nat
    BY <1>2
  <2>2. ~(<<y, x>> \in Nat \X Nat /\ y < x)
    BY <1>3
  <2> QED
    BY <2>1, <2>2
<1> QED
  BY <1>4 DEF Lowest

Runnable == {"READY", "RUNNING"}

\* What a handler may hand to proc_schedule.
Handed(st) ==
  /\ st \in [Slots -> States]
  /\ \A p \in Slots : st[p] = "RUNNING" => p = proc_running
  /\ st[proc_running] \in {"RUNNING", "SENDING", "RECEIVING"}
  /\ \A p \in IdleProcs : st[p] \in Runnable
  /\ \A p \in Slots : st[p] = "UNDEF" <=> pid[p] = NOPID

\* Scheduling moves processes between READY and RUNNING and does nothing else.
SameClass(st) ==
  \A p \in Slots : IF st[p] \in Runnable THEN state'[p] \in Runnable
                                         ELSE state'[p] = st[p]

\* proc_getnext picks a READY process, or the running one if it may go on.
LEMMA GetNextRunnable ==
  ASSUME TypeOK, TableInv, NEW st, Handed(st)
  PROVE  /\ proc_getnext(st) \in Slots
         /\ st[proc_getnext(st)] \in Runnable
<1> DEFINE after  == {i \in Ready(st) : i > proc_running}
           before == {i \in Ready(st) : i < proc_running}
<1>1. Ready(st) \subseteq Slots /\ proc_running \in Slots
  BY DEF Ready, TypeOK
<1>2. CASE after # {}
  <2>1. Lowest(after) \in after
    BY <1>1, <1>2, LowestIn
  <2> QED
    BY <1>1, <1>2, <2>1 DEF proc_getnext, Ready, Runnable
<1>3. CASE after = {} /\ before # {}
  <2>1. Lowest(before) \in before
    BY <1>1, <1>3, LowestIn
  <2> QED
    BY <1>1, <1>3, <2>1 DEF proc_getnext, Ready, Runnable
<1>4. CASE after = {} /\ before = {}
  <2>1. proc_getnext(st) = proc_running
    BY <1>4 DEF proc_getnext
  <2>2. 1 \in Slots /\ 1 \in IdleProcs /\ pid[1] # NOPID
    BY TableAssumption DEF Slots, TableInv, Live
  <2>3. st[1] \in Runnable
    BY <2>2 DEF Handed
  <2>4. Slots \subseteq Int
    BY DEF Slots
  <2>5. 1 = proc_running \/ st[1] = "RUNNING"
    BY <1>1, <1>4, <2>2, <2>3, <2>4 DEF Ready, Runnable
  <2>6. proc_running = 1
    BY <2>2, <2>5 DEF Handed
  <2> QED
    BY <1>1, <2>1, <2>3, <2>6
<1> QED
  BY <1>2, <1>3, <1>4

\* A context switch leaves exactly one process RUNNING, on its own registers.
LEMMA ScheduleStep ==
  ASSUME TypeOK, TableInv, OneRunning, kstatus = "up", ~do_start,
         NEW st, Handed(st), proc_schedule(st),
         pid' = pid, kstatus' = kstatus
  PROVE  /\ state' \in [Slots -> States] /\ regs' \in [Slots -> Slots \cup {KMAIN}]
         /\ cpu' \in Slots /\ proc_running' \in Slots /\ do_start' = FALSE
         /\ SameClass(st)
         /\ OneRunning'
<1> DEFINE to    == proc_getnext(st)
           left  == [st EXCEPT ![proc_running] = IF @ = "RUNNING" THEN "READY" ELSE @]
           saved == [regs EXCEPT ![proc_running] = cpu]
<1>1. to \in Slots /\ st[to] \in Runnable
  BY GetNextRunnable
<1>2. /\ state' = [left EXCEPT ![to] = "RUNNING"]
      /\ regs' = saved /\ cpu' = saved[to] /\ proc_running' = to /\ do_start' = FALSE
  BY DEF proc_schedule, TypeOK
<1>3. proc_running \in Slots /\ regs \in [Slots -> Slots \cup {KMAIN}]
      /\ cpu = proc_running /\ \A p \in Slots : p # proc_running => regs[p] = p
  BY DEF TypeOK, OneRunning
<1>4. saved = [p \in Slots |-> p]
  BY <1>3
<1> HIDE DEF to
<1>5. left \in [Slots -> {"READY", "SENDING", "RECEIVING", "UNDEF"}]
      /\ \A p \in Slots : IF st[p] \in Runnable THEN left[p] = "READY" ELSE left[p] = st[p]
  BY <1>3 DEF Handed, Runnable, States
<1>6. state' \in [Slots -> States]
      /\ \A p \in Slots : state'[p] = IF p = to THEN "RUNNING" ELSE left[p]
  BY <1>1, <1>2, <1>5 DEF States
<1>7. \A p \in Slots : state'[p] = "RUNNING" <=> p = to
  BY <1>5, <1>6
<1>8. SameClass(st)
  BY <1>1, <1>5, <1>6 DEF SameClass, Runnable
<1>9. OneRunning'
  BY <1>1, <1>2, <1>4, <1>7 DEF OneRunning
<1> QED
  BY <1>1, <1>2, <1>4, <1>6, <1>8, <1>9

-----------------------------------------------------------------------------
IpcInv == ResumedIpcDone /\ QueueExact /\ BlockedWaits /\ NoMissedMessage

IpcType ==
  /\ p_sendto   \in [Slots -> Slots \cup {IPC_TARGET_NONE}]
  /\ p_recvfrom \in [Slots -> Slots \cup {IPC_TARGET_NONE, IPC_TARGET_ANY, NOPID}]
  /\ p_msg      \in [Slots -> ProcPtr]
  /\ queue_sending      \in [Slots -> ProcPtr]
  /\ queue_sending_next \in [Slots -> ProcPtr]
  /\ buf \in [Slots -> Message]

\* The process that traps is the one the kernel believes to be running, and
\* it has nothing pending.
LEMMA Caller ==
  ASSUME IInv, NEW p \in Slots, Executing(p)
  PROVE  /\ p = proc_running /\ ~do_start /\ kstatus = "up"
         /\ state[p] = "RUNNING" /\ pid[p] = p
         /\ p_sendto[p] = IPC_TARGET_NONE /\ p_recvfrom[p] = IPC_TARGET_NONE
         /\ p_msg[p] = NULL /\ queue_sending_next[p] = NULL
<1>1. kstatus = "up" /\ cpu = p /\ p # KMAIN
  BY DEF Executing, Slots, KMAIN
<1>2. ~do_start /\ p = proc_running
  BY <1>1 DEF IInv, TableInv, OneRunning
<1>3. state[p] = "RUNNING"
  BY <1>2 DEF IInv, OneRunning
<1> QED
  BY <1>1, <1>2, <1>3 DEF IInv, TableInv, Live, ResumedIpcDone, QueueExact

\* What every handler that ends in proc_schedule leaves untouched or typed.
LEMMA HandlerFrame ==
  ASSUME IInv, kstatus = "up", ~do_start, NEW st, Handed(st), proc_schedule(st),
         UNCHANGED <<pid, elfs, kstatus>>, ticks' \in 0 .. SLICE - 1, IpcType'
  PROVE  TypeOK' /\ NoHalt' /\ TableInv' /\ OneRunning' /\ SameClass(st)
<1>1. /\ state' \in [Slots -> States] /\ regs' \in [Slots -> Slots \cup {KMAIN}]
      /\ cpu' \in Slots /\ proc_running' \in Slots /\ do_start' = FALSE
      /\ SameClass(st)
      /\ OneRunning'
  BY ScheduleStep DEF IInv
<1>2. TypeOK'
  BY <1>1 DEF IInv, TypeOK, IpcType
<1>3. TableInv'
  <2>1. \A q \in Slots : state'[q] = "UNDEF" <=> st[q] = "UNDEF"
    BY <1>1 DEF SameClass, Runnable
  <2>2. cpu' # KMAIN
    BY <1>1 DEF Slots, KMAIN
  <2> QED
    BY <1>1, <2>1, <2>2 DEF IInv, TableInv, Handed, Live
<1> QED
  BY <1>1, <1>2, <1>3 DEF IInv, NoHalt

\* The running process is none of those that a handler unblocks, and the idle
\* processes are never blocked.
LEMMA TableHanded ==
  ASSUME IInv
  PROVE  /\ proc_running \in Slots /\ state \in [Slots -> States]
         /\ \A q \in Slots : state[q] = "RUNNING" <=> q = proc_running
         /\ \A q \in IdleProcs : q \in Slots /\ state[q] \in Runnable
         /\ \A q \in Slots : state[q] = "UNDEF" <=> pid[q] = NOPID
<1>1. proc_running \in Slots /\ state \in [Slots -> States]
  BY DEF IInv, TypeOK
<1>2. \A q \in Slots : state[q] = "RUNNING" <=> q = proc_running
  BY DEF IInv, OneRunning
<1>3. \A q \in Slots : state[q] = "UNDEF" <=> pid[q] = NOPID
  BY DEF IInv, TableInv, Live
<1>4. ASSUME NEW q \in IdleProcs PROVE q \in Slots /\ state[q] \in Runnable
  <2>1. q \in Slots
    BY TableAssumption
  <2>2. state[q] \notin {"SENDING", "RECEIVING"}
    BY <2>1 DEF IInv, BlockedWaits
  <2>3. state[q] # "UNDEF"
    BY <2>1 DEF IInv, TableInv
  <2> QED
    BY <1>1, <2>1, <2>2, <2>3 DEF States, Runnable
<1> QED
  BY <1>1, <1>2, <1>3, <1>4

\* Blocking the caller, or unblocking another process, leaves a table that
\* proc_schedule accepts.
LEMMA ChangeHanded ==
  ASSUME IInv, NEW x \in Slots, NEW s \in {"READY", "SENDING", "RECEIVING"},
         state[x] # "UNDEF",
         x = proc_running => s # "READY",
         x \in IdleProcs => s = "READY"
  PROVE  Handed([state EXCEPT ![x] = s])
<1> DEFINE st == [state EXCEPT ![x] = s]
<1>1. st \in [Slots -> States] /\ \A q \in Slots : st[q] = IF q = x THEN s ELSE state[q]
  BY TableHanded DEF States
<1>2. s # "RUNNING" /\ s # "UNDEF"
  OBVIOUS
<1> HIDE DEF st
<1>3. \A q \in Slots : st[q] = "RUNNING" => q = proc_running
  BY <1>1, <1>2, TableHanded
<1>4. st[proc_running] \in {"RUNNING", "SENDING", "RECEIVING"}
  BY <1>1, <1>2, TableHanded
<1>5. \A q \in IdleProcs : st[q] \in Runnable
  BY <1>1, TableHanded DEF Runnable
<1>6. \A q \in Slots : st[q] = "UNDEF" <=> pid[q] = NOPID
  BY <1>1, <1>2, TableHanded
<1>7. Handed(st)
  BY <1>1, <1>3, <1>4, <1>5, <1>6 DEF Handed
<1> QED
  BY <1>7 DEF st

LEMMA NullIsNoSlot == NULL \notin Slots
  BY DEF NULL, Slots

\* A call that only ends the caller's turn.
LEMMA YieldStep ==
  ASSUME IInv, kstatus = "up", ~do_start, proc_schedule(state),
         UNCHANGED <<pid, ipc_vars, elfs, kstatus>>, ticks' \in 0 .. SLICE - 1,
         buf' \in [Slots -> Message],
         \A q \in Slots : state[q] = "SENDING" => buf'[q] = buf[q]
  PROVE  IInv'
<1>1. Handed(state)
  BY TableHanded DEF Handed, Runnable
<1>2. IpcType'
  BY DEF IInv, TypeOK, IpcType, ipc_vars
<1>3. TypeOK' /\ NoHalt' /\ TableInv' /\ OneRunning' /\ SameClass(state)
  BY <1>1, <1>2, HandlerFrame
<1>4. \A q \in Slots : /\ state'[q] = "SENDING" <=> state[q] = "SENDING"
                       /\ state'[q] = "RECEIVING" <=> state[q] = "RECEIVING"
                       /\ state'[q] \in {"RUNNING", "READY", "UNDEF"} <=>
                          state[q] \in {"RUNNING", "READY", "UNDEF"}
  BY <1>3 DEF SameClass, Runnable, IInv, TypeOK, States
<1>5. \A d \in Slots : SendingTo(d)' = SendingTo(d)
  BY <1>4 DEF SendingTo, ipc_vars
<1>6. ResumedIpcDone'
  BY <1>4 DEF IInv, ResumedIpcDone, ipc_vars
<1>7. QueueExact'
  BY <1>4, <1>5 DEF IInv, QueueExact, ipc_vars
<1>8. BlockedWaits'
  BY <1>4 DEF IInv, BlockedWaits, ipc_vars
<1>9. NoMissedMessage'
  BY <1>4, <1>5 DEF IInv, NoMissedMessage, ipc_vars
<1> QED
  BY <1>3, <1>6, <1>7, <1>8, <1>9 DEF IInv

\* Direct delivery unblocks the receiver and touches no queue.
LEMMA SendDirectStep ==
  ASSUME IInv, NEW p \in Slots, NEW dest \in Slots, p # dest, NEW b \in Payload,
         msg_send_direct(p, dest, b)
  PROVE  IInv'
<1> DEFINE st == [state EXCEPT ![dest] = "READY"]
<1>1. /\ p = proc_running /\ ~do_start /\ kstatus = "up" /\ state[p] = "RUNNING" /\ pid[p] = p
  BY Caller DEF msg_send_direct
<1>2. state[dest] = "RECEIVING" /\ p_msg[dest] = dest /\ p_sendto[dest] = IPC_TARGET_NONE
      /\ queue_sending_next[dest] = NULL /\ pid[dest] # NOPID
  BY DEF msg_send_direct, CanDeliver, IInv, BlockedWaits, QueueExact, TableInv, Live
<1>3. /\ buf' \in [Slots -> Message]
      /\ \A q \in Slots \ {p, dest} : buf'[q] = buf[q]
  BY <1>1, <1>2 DEF msg_send_direct, Stamped, IInv, TypeOK, Message
<1>4. Handed(st)
  BY <1>1, <1>2, ChangeHanded DEF IInv, OneRunning
<1>5. IpcType'
  BY <1>3 DEF msg_send_direct, IInv, TypeOK, IpcType, ProcPtr
<1>6. TypeOK' /\ NoHalt' /\ TableInv' /\ OneRunning' /\ SameClass(st)
  BY <1>1, <1>4, <1>5, HandlerFrame DEF msg_send_direct, IInv, TypeOK
<1>7. \A q \in Slots : /\ state'[q] = "SENDING" <=> state[q] = "SENDING"
                       /\ state'[q] = "RECEIVING" <=> (state[q] = "RECEIVING" /\ q # dest)
                       /\ state'[q] \in {"RUNNING", "READY", "UNDEF"} <=>
                          (q = dest \/ state[q] \in {"RUNNING", "READY", "UNDEF"})
  BY <1>2, <1>6 DEF SameClass, Runnable, IInv, TypeOK, States
<1>8. \A d \in Slots : SendingTo(d)' = SendingTo(d)
  BY <1>7 DEF SendingTo, msg_send_direct
<1>9. ResumedIpcDone'
  BY <1>2, <1>7 DEF IInv, ResumedIpcDone, msg_send_direct, TypeOK
<1>10. QueueExact'
  BY <1>7, <1>8 DEF IInv, QueueExact, msg_send_direct
<1>11. BlockedWaits'
  BY <1>1, <1>2, <1>3, <1>7 DEF IInv, BlockedWaits, msg_send_direct, TypeOK
<1>12. NoMissedMessage'
  BY <1>7, <1>8 DEF IInv, NoMissedMessage, msg_send_direct, TypeOK
<1> QED
  BY <1>6, <1>9, <1>10, <1>11, <1>12 DEF IInv

\* The queue of dest, when p is about to be appended to it, is short enough
\* for the loop of _msg_send: empty, or one process long, and dest itself is
\* not followed by anybody in a queue.
LEMMA RoomInQueue ==
  ASSUME IInv, NEW p \in Slots, NEW dest \in Slots, <<p, dest>> \in SendsTo,
         state[p] = "RUNNING", queue_sending[dest] # NULL
  PROVE  LET h == queue_sending[dest] IN
         /\ h \in Slots /\ h # p /\ SendingTo(dest) = {h}
         /\ queue_sending_next[h] = NULL
         /\ queue_sending_next[dest] = NULL
<1> DEFINE h == queue_sending[dest]
           t == queue_sending_next[h]
<1>1. h \in Slots /\ t \in ProcPtr /\ h \in SendingTo(dest)
  BY DEF IInv, TypeOK, ProcPtr, QueueExact
<1>2. \A d \in Slots : \A q \in SendingTo(d) : q \in Senders(d)
  BY DEF SendingTo, Senders, IInv, BlockedWaits
<1>3. p \in Senders(dest) /\ p \notin SendingTo(dest)
  BY DEF Senders, SendingTo
<1>4. t = NULL
  <2> SUFFICES ASSUME t # NULL PROVE FALSE
    OBVIOUS
  <2>1. SendingTo(dest) = {h, t} /\ h # t
    BY DEF IInv, QueueExact
  <2> QED
    BY <1>2, <1>3, <2>1, TopologyAssumption
<1>5. SendingTo(dest) = {h}
  BY <1>4 DEF IInv, QueueExact
<1>6. queue_sending_next[dest] = NULL
  <2> SUFFICES ASSUME queue_sending_next[dest] # NULL PROVE FALSE
    OBVIOUS
  <2>1. state[dest] = "SENDING"
    BY DEF IInv, QueueExact
  <2>2. PICK e \in Slots : p_sendto[dest] = e /\ <<dest, e>> \in SendsTo
    BY <2>1, CallAssumption DEF IInv, BlockedWaits
  <2>3. dest \in SendingTo(e)
    BY <2>1, <2>2 DEF SendingTo
  <2>4. PICK f \in Slots : f # dest /\ f \in SendingTo(e)
    BY <2>3 DEF IInv, QueueExact, TypeOK, ProcPtr, SendingTo
  <2>5. {dest, f} \subseteq Senders(e)
    BY <1>2, <2>3, <2>4
  <2>6. h # p /\ {h, p} \subseteq Senders(dest)
    BY <1>1, <1>2, <1>3
  <2> QED
    BY <1>1, <2>2, <2>4, <2>5, <2>6, TopologyAssumption
<1> QED
  BY <1>1, <1>3, <1>4, <1>5, <1>6

\* A blocked sender is appended to the queue of its destination.
LEMMA SendBlockStep ==
  ASSUME IInv, NEW p \in Slots \ IdleProcs, NEW dest \in Slots, p # dest,
         <<p, dest>> \in SendsTo, NEW b \in Payload, msg_send_block(p, dest, b)
  PROVE  IInv'
<1> DEFINE st == [state EXCEPT ![p] = "SENDING"]
           h  == queue_sending[dest]
<1>1. /\ p = proc_running /\ ~do_start /\ kstatus = "up" /\ state[p] = "RUNNING" /\ pid[p] = p
      /\ p_sendto[p] = IPC_TARGET_NONE /\ p_recvfrom[p] = IPC_TARGET_NONE
      /\ p_msg[p] = NULL /\ queue_sending_next[p] = NULL
  BY Caller DEF msg_send_block
<1>2. h # NULL => /\ h \in Slots /\ h # p /\ SendingTo(dest) = {h}
                  /\ queue_sending_next[h] = NULL /\ queue_sending_next[dest] = NULL
  BY <1>1, RoomInQueue
<1>3. /\ buf' = Stamped(p, b)
      /\ p_sendto' = [p_sendto EXCEPT ![p] = dest]
      /\ p_msg' = [p_msg EXCEPT ![p] = p]
      /\ IF h # NULL
         THEN /\ queue_sending_next' = [queue_sending_next EXCEPT ![h] = p]
              /\ queue_sending' = queue_sending
         ELSE /\ queue_sending' = [queue_sending EXCEPT ![dest] = p]
              /\ queue_sending_next' = queue_sending_next
      /\ proc_schedule(st)
      /\ UNCHANGED <<pid, p_recvfrom, ticks, elfs, kstatus>>
  BY <1>1, <1>2 DEF msg_send_block
<1>4. IpcType'
  BY <1>1, <1>2, <1>3 DEF Stamped, IInv, TypeOK, IpcType, ProcPtr, Message
<1>5. Handed(st)
  BY <1>1, ChangeHanded
<1>6. TypeOK' /\ NoHalt' /\ TableInv' /\ OneRunning' /\ SameClass(st)
  BY <1>1, <1>3, <1>4, <1>5, HandlerFrame DEF IInv, TypeOK
<1>7. \A q \in Slots : /\ state'[q] = "SENDING" <=> (q = p \/ state[q] = "SENDING")
                       /\ state'[q] = "RECEIVING" <=> state[q] = "RECEIVING"
                       /\ state'[q] \in {"RUNNING", "READY", "UNDEF"} <=>
                          (q # p /\ state[q] \in {"RUNNING", "READY", "UNDEF"})
  BY <1>1, <1>6 DEF SameClass, Runnable, IInv, TypeOK, States
<1>8. \A q \in Slots : p_sendto'[q] = IF q = p THEN dest ELSE p_sendto[q]
  BY <1>3 DEF IInv, TypeOK
<1>9. \A d \in Slots : SendingTo(d)' = IF d = dest THEN SendingTo(d) \cup {p} ELSE SendingTo(d)
  BY <1>1, <1>7, <1>8 DEF SendingTo
<1>10. ResumedIpcDone'
  BY <1>3, <1>7 DEF IInv, ResumedIpcDone, TypeOK
<1>11. QueueExact'
  <2>1. CASE h = NULL
    <3>1. SendingTo(dest)' = {p}
      BY <1>9, <2>1 DEF IInv, QueueExact
    <3>2. queue_sending_next' = queue_sending_next /\ queue_sending'[dest] = p
          /\ \A d \in Slots \ {dest} : queue_sending'[d] = queue_sending[d]
      BY <1>3, <2>1 DEF IInv, TypeOK
    <3> QED
      BY <1>1, <1>7, <1>9, <3>1, <3>2 DEF IInv, QueueExact, NULL, Slots
  <2>2. CASE h # NULL
    <3>1. queue_sending' = queue_sending /\ queue_sending_next'[h] = p
          /\ \A q \in Slots \ {h} : queue_sending_next'[q] = queue_sending_next[q]
      BY <1>2, <1>3, <2>2 DEF IInv, TypeOK
    <3>2. SendingTo(dest)' = {h, p} /\ h # p /\ p # NULL
      BY <1>2, <1>9, <2>2 DEF NULL, Slots
    <3>3. \A d \in Slots \ {dest} : h \notin SendingTo(d)
      BY <1>2, <2>2 DEF SendingTo
    <3>4. \A q \in Slots : state'[q] # "SENDING" => queue_sending_next'[q] = NULL
      <4>1. state[h] = "SENDING"
        BY <1>2, <2>2 DEF SendingTo
      <4> QED
        BY <1>7, <3>1, <4>1 DEF IInv, QueueExact
    <3>5. ASSUME NEW d \in Slots, d # dest
          PROVE  LET g == queue_sending'[d] IN
                 IF g = NULL THEN SendingTo(d)' = {}
                 ELSE LET t == queue_sending_next'[g] IN
                      IF t = NULL THEN SendingTo(d)' = {g}
                      ELSE SendingTo(d)' = {g, t} /\ g # t /\ queue_sending_next'[t] = NULL
      BY <1>9, <3>1, <3>3, <3>5 DEF IInv, QueueExact, TypeOK, ProcPtr
    <3>6. queue_sending'[dest] = h /\ queue_sending_next'[p] = NULL
      BY <1>1, <1>2, <2>2, <3>1
    <3> QED
      BY <2>2, <3>1, <3>2, <3>4, <3>5, <3>6 DEF QueueExact
  <2> QED
    BY <2>1, <2>2
<1>12. BlockedWaits'
  <2>1. \A q \in Slots : buf'[q] = IF q = p THEN [source |-> p, body |-> b] ELSE buf[q]
    BY <1>1, <1>3 DEF Stamped, IInv, TypeOK
  <2>2. \A q \in Slots : p_msg'[q] = IF q = p THEN p ELSE p_msg[q]
    BY <1>3 DEF IInv, TypeOK
  <2> QED
    BY <1>1, <1>3, <1>7, <1>8, <2>1, <2>2 DEF IInv, BlockedWaits
<1>13. NoMissedMessage'
  <2>1. state[dest] = "RECEIVING" => p_recvfrom[dest] \notin {p, IPC_TARGET_ANY}
    BY <1>1 DEF msg_send_block, CanDeliver
  <2> QED
    BY <1>3, <1>7, <1>9, <2>1 DEF IInv, NoMissedMessage
<1> QED
  BY <1>6, <1>10, <1>11, <1>12, <1>13 DEF IInv

\* Taking the head h of the caller's queue: h is unblocked, the rest moves up.
LEMMA ReceiveHeadStep ==
  ASSUME IInv, NEW p \in Slots, Executing(p), NEW h \in Slots,
         queue_sending[p] = h, DequeueHead(h), FinishReceive(p, h)
  PROVE  IInv'
<1> DEFINE st == [state EXCEPT ![h] = "READY"]
           t  == queue_sending_next[h]
<1>1. /\ p = proc_running /\ ~do_start /\ kstatus = "up" /\ state[p] = "RUNNING" /\ pid[p] = p
      /\ p_sendto[p] = IPC_TARGET_NONE /\ p_recvfrom[p] = IPC_TARGET_NONE
      /\ p_msg[p] = NULL /\ queue_sending_next[p] = NULL
  BY Caller
<1>2. h # NULL /\ h \in SendingTo(p) /\ state[h] = "SENDING" /\ p_sendto[h] = p /\ h # p
  BY <1>1 DEF NULL, Slots, IInv, QueueExact, SendingTo
<1>3. p_msg[h] = h /\ p_recvfrom[h] = IPC_TARGET_NONE /\ pid[h] # NOPID /\ t \in ProcPtr
  BY <1>2 DEF IInv, BlockedWaits, TableInv, Live, TypeOK
<1>4. /\ buf' = [buf EXCEPT ![p] = buf[h]]
      /\ p_msg' = [p_msg EXCEPT ![h] = NULL]
      /\ p_sendto' = [p_sendto EXCEPT ![h] = IPC_TARGET_NONE]
      /\ queue_sending' = [queue_sending EXCEPT ![p] = t]
      /\ queue_sending_next' = [queue_sending_next EXCEPT ![h] = NULL]
      /\ proc_schedule(st)
      /\ UNCHANGED <<pid, p_recvfrom, ticks, elfs, kstatus>>
  BY <1>1, <1>3 DEF FinishReceive, DequeueHead
<1>5. IpcType'
  BY <1>3, <1>4 DEF IInv, TypeOK, IpcType, ProcPtr
<1>6. Handed(st)
  BY <1>1, <1>2, ChangeHanded
<1>7. TypeOK' /\ NoHalt' /\ TableInv' /\ OneRunning' /\ SameClass(st)
  BY <1>1, <1>4, <1>5, <1>6, HandlerFrame DEF IInv, TypeOK
<1>8. \A q \in Slots : /\ state'[q] = "SENDING" <=> (q # h /\ state[q] = "SENDING")
                       /\ state'[q] = "RECEIVING" <=> state[q] = "RECEIVING"
                       /\ state'[q] \in {"RUNNING", "READY", "UNDEF"} <=>
                          (q = h \/ state[q] \in {"RUNNING", "READY", "UNDEF"})
  BY <1>2, <1>7 DEF SameClass, Runnable, IInv, TypeOK, States
<1>9. \A q \in Slots : p_sendto'[q] = IF q = h THEN IPC_TARGET_NONE ELSE p_sendto[q]
  BY <1>4 DEF IInv, TypeOK
<1>10. \A d \in Slots : SendingTo(d)' = IF d = p THEN SendingTo(d) \ {h} ELSE SendingTo(d)
  BY <1>2, <1>8, <1>9 DEF SendingTo
<1>11. ResumedIpcDone'
  BY <1>3, <1>4, <1>8 DEF IInv, ResumedIpcDone, TypeOK
<1>12. QueueExact'
  <2>1. /\ queue_sending'[p] = t /\ queue_sending_next'[h] = NULL
        /\ \A d \in Slots \ {p} : queue_sending'[d] = queue_sending[d]
        /\ \A q \in Slots \ {h} : queue_sending_next'[q] = queue_sending_next[q]
    BY <1>4 DEF IInv, TypeOK
  <2>2. \A q \in Slots : state'[q] # "SENDING" => queue_sending_next'[q] = NULL
    BY <1>8, <2>1 DEF IInv, QueueExact
  <2>3. \A d \in Slots \ {p} : h \notin SendingTo(d)
    BY <1>2 DEF SendingTo
  <2>4. ASSUME NEW d \in Slots, d # p
        PROVE  LET g == queue_sending'[d] IN
               IF g = NULL THEN SendingTo(d)' = {}
               ELSE LET u == queue_sending_next'[g] IN
                    IF u = NULL THEN SendingTo(d)' = {g}
                    ELSE SendingTo(d)' = {g, u} /\ g # u /\ queue_sending_next'[u] = NULL
    BY <1>10, <2>1, <2>3, <2>4 DEF IInv, QueueExact, TypeOK, ProcPtr
  <2>5. CASE t = NULL
    <3>1. SendingTo(p)' = {}
      BY <1>2, <1>10, <2>5 DEF IInv, QueueExact
    <3> QED
      BY <2>1, <2>2, <2>4, <2>5, <3>1 DEF QueueExact
  <2>6. CASE t # NULL
    <3>1. SendingTo(p) = {h, t} /\ h # t /\ queue_sending_next[t] = NULL /\ t \in Slots
      BY <1>2, <1>3, <2>6 DEF IInv, QueueExact, ProcPtr
    <3>2. SendingTo(p)' = {t} /\ queue_sending_next'[t] = NULL
      BY <1>10, <2>1, <3>1
    <3> QED
      BY <2>1, <2>2, <2>4, <2>6, <3>2 DEF QueueExact
  <2> QED
    BY <2>5, <2>6
<1>13. BlockedWaits'
  <2>1. \A q \in Slots : buf'[q] = IF q = p THEN buf[h] ELSE buf[q]
    BY <1>4 DEF IInv, TypeOK
  <2>2. \A q \in Slots : p_msg'[q] = IF q = h THEN NULL ELSE p_msg[q]
    BY <1>4 DEF IInv, TypeOK
  <2> QED
    BY <1>1, <1>2, <1>4, <1>8, <1>9, <2>1, <2>2 DEF IInv, BlockedWaits
<1>14. NoMissedMessage'
  BY <1>4, <1>8, <1>10 DEF IInv, NoMissedMessage
<1> QED
  BY <1>7, <1>11, <1>12, <1>13, <1>14 DEF IInv

\* RECEIVE from ANY never trips an assertion: the head is blocked on the caller.
LEMMA ReceiveAnyStep ==
  ASSUME IInv, NEW p \in Slots, msg_receive_any(p)
  PROVE  IInv'
<1> DEFINE h == queue_sending[proc_running]
<1>1. /\ Executing(p) /\ p = proc_running /\ pid[p] = p /\ CallerClean
  BY Caller DEF msg_receive_any, CallerClean
<1>2. h \in Slots
  BY <1>1 DEF msg_receive_any, IInv, TypeOK, ProcPtr
<1>3. h \in SendingTo(p)
  BY <1>1, <1>2 DEF IInv, QueueExact, NULL, Slots
<1>4. p_msg[h] # NULL /\ p_recvfrom[h] = IPC_TARGET_NONE /\ p_sendto[h] = p
  BY <1>2, <1>3, NullIsNoSlot DEF SendingTo, IInv, BlockedWaits
<1>5. DequeueHead(h) /\ FinishReceive(p, h)
  BY <1>1, <1>4 DEF msg_receive_any
<1> QED
  BY <1>1, <1>2, <1>5, ReceiveHeadStep

\* RECEIVE from a specific sender finds it at the head of the queue.
LEMMA ReceiveFromStep ==
  ASSUME IInv, NEW p \in Slots, NEW src \in Slots, <<p, src>> \in ReceivesFrom,
         msg_receive_from(p, src)
  PROVE  IInv'
<1>1. /\ Executing(p) /\ p = proc_running /\ pid[p] = p /\ CallerClean /\ state[p] = "RUNNING"
  BY Caller DEF msg_receive_from, CallerClean
<1>2. state[src] = "SENDING" /\ p_sendto[src] = p
  <2>1. p # IPC_TARGET_NONE
    BY DEF Slots, IPC_TARGET_NONE
  <2> QED
    BY <1>1, <2>1 DEF msg_receive_from, IsSendingTo, IInv, ResumedIpcDone
<1>3. src \in SendingTo(p)
  BY <1>2 DEF SendingTo
<1>4. src # IPC_TARGET_ANY
  BY DEF Slots, IPC_TARGET_ANY
<1>5. Senders(p) \subseteq {src}
  BY <1>4, TopologyAssumption
<1>6. SendingTo(p) \subseteq {src}
  BY <1>5 DEF SendingTo, Senders, IInv, BlockedWaits
<1>7. queue_sending[p] = src
  BY <1>3, <1>6 DEF IInv, QueueExact
<1>8. p_msg[src] # NULL /\ p_recvfrom[src] = IPC_TARGET_NONE /\ src # NULL
  BY <1>2, NullIsNoSlot DEF IInv, BlockedWaits
<1>9. DequeueHead(src) /\ FinishReceive(p, src)
  BY <1>1, <1>7, <1>8 DEF msg_receive_from
<1> QED
  BY <1>1, <1>7, <1>9, ReceiveHeadStep

\* A receiver only blocks when nothing it would accept is queued for it.
LEMMA ReceiveBlockStep ==
  ASSUME IInv, NEW p \in Slots \ IdleProcs, NEW src \in Slots \cup {IPC_TARGET_ANY},
         p # src, msg_receive_block(p, src)
  PROVE  IInv'
<1> DEFINE st   == [state EXCEPT ![p] = "RECEIVING"]
           from == IF src = IPC_TARGET_ANY THEN IPC_TARGET_ANY ELSE pid[src]
<1>1. /\ p = proc_running /\ ~do_start /\ kstatus = "up" /\ state[p] = "RUNNING" /\ pid[p] = p
      /\ p_sendto[p] = IPC_TARGET_NONE /\ p_recvfrom[p] = IPC_TARGET_NONE
      /\ p_msg[p] = NULL /\ queue_sending_next[p] = NULL
  BY Caller DEF msg_receive_block
<1>2. /\ buf' = [buf EXCEPT ![p].source = p]
      /\ p_msg' = [p_msg EXCEPT ![p] = p]
      /\ p_recvfrom' = [p_recvfrom EXCEPT ![p] = from]
      /\ proc_schedule(st)
      /\ UNCHANGED <<pid, p_sendto, queue_sending, queue_sending_next, ticks, elfs, kstatus>>
  BY <1>1 DEF msg_receive_block
<1>3. from \in Slots \cup {IPC_TARGET_ANY, NOPID} /\ from # IPC_TARGET_NONE
  BY DEF IInv, TypeOK, Slots, IPC_TARGET_ANY, IPC_TARGET_NONE, NOPID
<1>4. IpcType'
  BY <1>2, <1>3 DEF IInv, TypeOK, IpcType, ProcPtr, Message
<1>5. Handed(st)
  BY <1>1, ChangeHanded
<1>6. TypeOK' /\ NoHalt' /\ TableInv' /\ OneRunning' /\ SameClass(st)
  BY <1>1, <1>2, <1>4, <1>5, HandlerFrame DEF IInv, TypeOK
<1>7. \A q \in Slots : /\ state'[q] = "SENDING" <=> state[q] = "SENDING"
                       /\ state'[q] = "RECEIVING" <=> (q = p \/ state[q] = "RECEIVING")
                       /\ state'[q] \in {"RUNNING", "READY", "UNDEF"} <=>
                          (q # p /\ state[q] \in {"RUNNING", "READY", "UNDEF"})
  BY <1>1, <1>6 DEF SameClass, Runnable, IInv, TypeOK, States
<1>8. \A d \in Slots : SendingTo(d)' = SendingTo(d)
  BY <1>2, <1>7 DEF SendingTo
<1>9. \A q \in Slots : /\ p_msg'[q] = IF q = p THEN p ELSE p_msg[q]
                       /\ p_recvfrom'[q] = IF q = p THEN from ELSE p_recvfrom[q]
                       /\ q # p => buf'[q] = buf[q]
  BY <1>2 DEF IInv, TypeOK
<1>10. ResumedIpcDone'
  BY <1>2, <1>7, <1>9 DEF IInv, ResumedIpcDone
<1>11. QueueExact'
  BY <1>2, <1>7, <1>8 DEF IInv, QueueExact
<1>12. BlockedWaits'
  BY <1>1, <1>2, <1>3, <1>7, <1>9 DEF IInv, BlockedWaits
<1>13. NoMissedMessage'
  <2>1. ASSUME NEW q \in SendingTo(p) PROVE from \notin {q, IPC_TARGET_ANY}
    <3>1. src # IPC_TARGET_ANY
      BY <1>1 DEF msg_receive_block, IInv, QueueExact
    <3>2. ~IsSendingTo(src, p) /\ src \in Slots
      BY <1>1, <3>1 DEF msg_receive_block
    <3>3. src # q
      BY <1>1, <3>2 DEF IsSendingTo, SendingTo
    <3>4. pid[src] \in {src, NOPID} /\ q \in Slots
      BY <3>2 DEF IInv, TableInv, SendingTo
    <3> QED
      BY <3>1, <3>2, <3>3, <3>4 DEF Slots, NOPID, IPC_TARGET_ANY
  <2> QED
    BY <1>7, <1>8, <1>9, <2>1 DEF IInv, NoMissedMessage
<1> QED
  BY <1>6, <1>10, <1>11, <1>12, <1>13 DEF IInv

-----------------------------------------------------------------------------
\* A timer tick: nothing, the first load of process 1, or a context switch.
LEMMA TimerStep ==
  ASSUME IInv, isr_timer_i_handler
  PROVE  IInv'
<1>1. ticks' \in 0 .. SLICE - 1
  BY TableAssumption DEF isr_timer_i_handler, IInv, TypeOK
<1>2. CASE ticks' # 0
  <2>1. UNCHANGED <<pid, sched_vars, ipc_vars, buf, elfs, kstatus>>
    BY <1>2 DEF isr_timer_i_handler
  <2>2. \A d \in Slots : SendingTo(d)' = SendingTo(d)
    BY <2>1 DEF SendingTo, sched_vars, ipc_vars
  <2>3. TypeOK' /\ NoHalt' /\ TableInv' /\ OneRunning'
    BY <1>1, <2>1 DEF IInv, TypeOK, NoHalt, TableInv, Live, OneRunning, sched_vars, ipc_vars
  <2>4. ResumedIpcDone' /\ BlockedWaits'
    BY <2>1 DEF IInv, ResumedIpcDone, BlockedWaits, sched_vars, ipc_vars
  <2>5. QueueExact' /\ NoMissedMessage'
    BY <2>1, <2>2 DEF IInv, QueueExact, NoMissedMessage, sched_vars, ipc_vars
  <2> QED
    BY <2>3, <2>4, <2>5 DEF IInv
<1>3. CASE ticks' = 0 /\ ~do_start
  BY <1>1, <1>3, YieldStep DEF isr_timer_i_handler, IInv, TypeOK
<1>4. CASE ticks' = 0 /\ do_start
  <2>1. /\ do_start' = FALSE /\ state' = [state EXCEPT ![1] = "RUNNING"]
        /\ cpu' = regs[1] /\ proc_running' = 1 /\ regs' = regs
        /\ UNCHANGED <<pid, ipc_vars, buf, elfs, kstatus>> /\ kstatus = "up"
    BY <1>4 DEF isr_timer_i_handler, proc_schedule
  <2>2. 1 \in Slots /\ proc_running = 1 /\ state[1] = "RUNNING" /\ regs[1] = 1
    BY <1>4, TableAssumption DEF IInv, TableInv, OneRunning, Slots
  <2>3. state' = state /\ proc_running' = proc_running /\ cpu' = 1
    BY <2>1, <2>2 DEF IInv, TypeOK
  <2>4. \A d \in Slots : SendingTo(d)' = SendingTo(d)
    BY <2>1, <2>3 DEF SendingTo, ipc_vars
  <2>5. TypeOK' /\ NoHalt'
    BY <1>1, <2>1, <2>2, <2>3 DEF IInv, TypeOK, NoHalt, ipc_vars
  <2>8. TableInv'
    BY <2>1, <2>3 DEF IInv, TableInv, Live, KMAIN
  <2>9. OneRunning'
    BY <1>4, <2>1, <2>2, <2>3 DEF IInv, OneRunning
  <2>6. ResumedIpcDone' /\ BlockedWaits'
    BY <2>1, <2>3 DEF IInv, ResumedIpcDone, BlockedWaits, ipc_vars
  <2>7. QueueExact' /\ NoMissedMessage'
    BY <2>1, <2>3, <2>4 DEF IInv, QueueExact, NoMissedMessage, ipc_vars
  <2> QED
    BY <2>5, <2>6, <2>7, <2>8, <2>9 DEF IInv
<1> QED
  BY <1>2, <1>3, <1>4

\* Creating a process at boot, when nothing is blocked yet.
LEMMA NewProcessStep ==
  ASSUME IInv, NewProcess
  PROVE  IInv'
<1> DEFINE new == getavailpid
<1>1. new \in Slots /\ pid[new] = NOPID
  BY LowestIn DEF NewProcess, getavailpid
<1> HIDE DEF new
<1>2. /\ pid'   = [pid EXCEPT ![new] = new]
      /\ state' = [state EXCEPT ![new] = "READY"]
      /\ regs'  = [regs EXCEPT ![new] = new]
      /\ p_sendto'   = [p_sendto EXCEPT ![new] = IPC_TARGET_NONE]
      /\ p_recvfrom' = [p_recvfrom EXCEPT ![new] = IPC_TARGET_NONE]
      /\ p_msg'      = [p_msg EXCEPT ![new] = NULL]
      /\ queue_sending'      = [queue_sending EXCEPT ![new] = NULL]
      /\ queue_sending_next' = [queue_sending_next EXCEPT ![new] = NULL]
      /\ elfs' = elfs + 1 /\ elfs < NumElf
      /\ UNCHANGED <<buf, proc_running, do_start, ticks, cpu, kstatus>>
      /\ kstatus = "boot" /\ do_start
  BY DEF NewProcess, new, IInv, TableInv
<1>3. TypeOK' /\ NoHalt'
  BY <1>1, <1>2, TableAssumption DEF IInv, TypeOK, NoHalt, States, ProcPtr
<1>4. state[new] = "UNDEF" /\ new # proc_running
  BY <1>1 DEF IInv, TableInv, Live, OneRunning
<1>5. \A q \in Slots : state'[q] \notin {"SENDING", "RECEIVING"}
                      /\ state[q] \notin {"SENDING", "RECEIVING"}
  BY <1>1, <1>2 DEF IInv, TypeOK, TableInv
<1>6. TableInv' /\ OneRunning'
  <2>1. new # NOPID
    BY <1>1 DEF Slots, NOPID
  <2> QED
    BY <1>1, <1>2, <1>4, <1>5, <2>1 DEF IInv, TypeOK, TableInv, Live, OneRunning
<1>7. ResumedIpcDone' /\ BlockedWaits'
  BY <1>1, <1>2, <1>5 DEF IInv, TypeOK, ResumedIpcDone, BlockedWaits, States
<1>8. \A d \in Slots : SendingTo(d) = {} /\ SendingTo(d)' = {}
  BY <1>5 DEF SendingTo
<1>9. QueueExact'
  <2>1. \A d \in Slots : queue_sending[d] = NULL
    BY <1>8 DEF IInv, QueueExact
  <2> QED
    BY <1>2, <1>5, <1>8, <2>1 DEF IInv, TypeOK, QueueExact
<1>10. NoMissedMessage'
  BY <1>5 DEF NoMissedMessage
<1> QED
  BY <1>3, <1>6, <1>7, <1>9, <1>10 DEF IInv

LEMMA SetupIRQStep ==
  ASSUME IInv, setupIRQ
  PROVE  IInv'
<1>1. UNCHANGED <<pid, sched_vars, ipc_vars, buf, ticks, elfs>> /\ kstatus = "boot" /\ kstatus' = "up"
  BY DEF setupIRQ
<1>2. \A d \in Slots : SendingTo(d)' = SendingTo(d)
  BY <1>1 DEF SendingTo, sched_vars, ipc_vars
<1>3. TypeOK' /\ NoHalt' /\ TableInv' /\ OneRunning'
  BY <1>1 DEF IInv, TypeOK, NoHalt, TableInv, Live, OneRunning, sched_vars, ipc_vars
<1>4. ResumedIpcDone' /\ BlockedWaits'
  BY <1>1 DEF IInv, ResumedIpcDone, BlockedWaits, sched_vars, ipc_vars
<1>5. QueueExact' /\ NoMissedMessage'
  BY <1>1, <1>2 DEF IInv, QueueExact, NoMissedMessage, sched_vars, ipc_vars
<1> QED
  BY <1>3, <1>4, <1>5 DEF IInv

LEMMA RejectedStep ==
  ASSUME IInv, NEW p \in Slots, syscall_rejected(p)
  PROVE  IInv'
<1>1. p = proc_running /\ ~do_start /\ kstatus = "up" /\ state[p] = "RUNNING"
  BY Caller DEF syscall_rejected
<1>2. buf' \in [Slots -> Message] /\ \A q \in Slots \ {p} : buf'[q] = buf[q]
  BY <1>1 DEF syscall_rejected, IInv, TypeOK, Message
<1> QED
  BY <1>1, <1>2, YieldStep DEF syscall_rejected, IInv, TypeOK

LEMMA NonblockFailStep ==
  ASSUME IInv, NEW p \in Slots, NEW dest \in Slots, NEW b \in Payload,
         msg_send_nonblock_fail(p, dest, b)
  PROVE  IInv'
<1>1. p = proc_running /\ ~do_start /\ kstatus = "up" /\ state[p] = "RUNNING"
  BY Caller DEF msg_send_nonblock_fail
<1>2. buf' \in [Slots -> Message] /\ \A q \in Slots \ {p} : buf'[q] = buf[q]
  BY <1>1 DEF msg_send_nonblock_fail, Stamped, IInv, TypeOK, Message
<1> QED
  BY <1>1, <1>2, YieldStep DEF msg_send_nonblock_fail, IInv, TypeOK

LEMMA InitInv == Init => IInv
<1> SUFFICES ASSUME Init PROVE IInv
  OBVIOUS
<1>0. PICK b0 \in Payload : buf = [i \in Slots |-> [source |-> NOPID, body |-> b0]]
  BY DEF Init
<1>1. buf \in [Slots -> Message]
  BY <1>0 DEF Message
<1>2. TypeOK /\ NoHalt
  BY <1>1, TableAssumption DEF Init, TypeOK, NoHalt, States, ProcPtr, Slots
<1>3. \A d \in Slots : SendingTo(d) = {}
  BY DEF Init, SendingTo
<1>4. TableInv /\ OneRunning
  BY TableAssumption DEF Init, TableInv, Live, OneRunning, Slots, NOPID
<1>5. ResumedIpcDone /\ QueueExact /\ BlockedWaits /\ NoMissedMessage
  BY <1>3 DEF Init, ResumedIpcDone, QueueExact, BlockedWaits, NoMissedMessage
<1> QED
  BY <1>2, <1>4, <1>5 DEF IInv

LEMMA NextInv == IInv /\ [Next]_vars => IInv'
<1> SUFFICES ASSUME IInv, [Next]_vars PROVE IInv'
  OBVIOUS
<1>1. CASE NewProcess
  BY <1>1, NewProcessStep
<1>2. CASE setupIRQ
  BY <1>2, SetupIRQStep
<1>3. CASE isr_timer_i_handler
  BY <1>3, TimerStep
<1>4. CASE \E e \in SendsTo, b \in Payload : Send(e[1], e[2], b)
  <2>1. PICK e \in SendsTo, b \in Payload : Send(e[1], e[2], b)
    BY <1>4
  <2>2. e[1] \in Slots \ IdleProcs /\ e[2] \in Slots /\ e[1] # e[2] /\ <<e[1], e[2]>> \in SendsTo
    BY CallAssumption
  <2> QED
    BY <2>1, <2>2, SendDirectStep, SendBlockStep DEF Send
<1>5. CASE \E e \in NotifiesTo, b \in Payload : Notify(e[1], e[2], b)
  <2>1. PICK e \in NotifiesTo, b \in Payload : Notify(e[1], e[2], b)
    BY <1>5
  <2>2. e[1] \in Slots /\ e[2] \in Slots /\ e[1] # e[2]
    BY CallAssumption
  <2> QED
    BY <2>1, <2>2, SendDirectStep, NonblockFailStep DEF Notify
<1>6. CASE \E e \in ReceivesFrom : Receive(e[1], e[2])
  <2>1. PICK e \in ReceivesFrom : Receive(e[1], e[2])
    BY <1>6
  <2>2. /\ e[1] \in Slots \ IdleProcs /\ e[2] \in Slots \cup {IPC_TARGET_ANY} /\ e[1] # e[2]
        /\ <<e[1], e[2]>> \in ReceivesFrom
    BY CallAssumption
  <2> QED
    BY <2>1, <2>2, ReceiveAnyStep, ReceiveFromStep, ReceiveBlockStep DEF Receive
<1>7. CASE \E p \in Slots \ IdleProcs : syscall_rejected(p)
  BY <1>7, RejectedStep
<1>8. CASE UNCHANGED vars
  <2>1. UNCHANGED <<pid, sched_vars, ipc_vars, buf, ticks, elfs, kstatus>>
    BY <1>8 DEF vars
  <2>2. \A d \in Slots : SendingTo(d)' = SendingTo(d)
    BY <2>1 DEF SendingTo, sched_vars, ipc_vars
  <2>3. TypeOK' /\ NoHalt' /\ TableInv' /\ OneRunning'
    BY <2>1 DEF IInv, TypeOK, NoHalt, TableInv, Live, OneRunning, sched_vars, ipc_vars
  <2>4. ResumedIpcDone' /\ BlockedWaits'
    BY <2>1 DEF IInv, ResumedIpcDone, BlockedWaits, sched_vars, ipc_vars
  <2>5. QueueExact' /\ NoMissedMessage'
    BY <2>1, <2>2 DEF IInv, QueueExact, NoMissedMessage, sched_vars, ipc_vars
  <2> QED
    BY <2>3, <2>4, <2>5 DEF IInv
<1> QED
  BY <1>1, <1>2, <1>3, <1>4, <1>5, <1>6, <1>7, <1>8 DEF Next, syscall_handler

\* The inductive invariant holds in every reachable state of the process
\* manager (process.c, syscall.c, isr.c).
THEOREM Invariance == Spec => []IInv
  BY InitInv, NextInv, PTL DEF Spec

\* The process table stays well typed.
THEOREM TypeCorrect == Spec => []TypeOK
<1>1. IInv => TypeOK
  BY DEF IInv
<1> QED
  BY <1>1, Invariance, PTL

\* No sequence of calls that the topology allows fails an assert() of
\* process.c or makes its queue loops run on.
THEOREM NeverHalts == Spec => []NoHalt
<1>1. IInv => NoHalt
  BY DEF IInv
<1> QED
  BY <1>1, Invariance, PTL

\* Exactly one process is RUNNING, and it runs on its own registers, whichever handler ran
\* last.
THEOREM OneProcessRuns == Spec => []OneRunning
<1>1. IInv => OneRunning
  BY DEF IInv
<1> QED
  BY <1>1, Invariance, PTL

\* A process never returns from an ecall before its IPC is done (process.h),
\* although proc_schedule would run a blocked process if no other were ready.
THEOREM ResumedOnlyWhenDone == Spec => []ResumedIpcDone
<1>1. IInv => ResumedIpcDone
  BY DEF IInv
<1> QED
  BY <1>1, Invariance, PTL

\* The sending queues hold exactly the blocked senders.
THEOREM QueuesExact == Spec => []QueueExact
<1>1. IInv => QueueExact
  BY DEF IInv
<1> QED
  BY <1>1, Invariance, PTL

\* A blocked process waits for a partner that it may have, with its own buffer, and with its
\* own pid as the source if it sends.
THEOREM BlockedProcessWaits == Spec => []BlockedWaits
<1>1. IInv => BlockedWaits
  BY DEF IInv
<1> QED
  BY <1>1, Invariance, PTL

\* Nobody waits for a message that is already queued for it.
THEOREM NoMessageMissed == Spec => []NoMissedMessage
<1>1. IInv => NoMissedMessage
  BY DEF IInv
<1> QED
  BY <1>1, Invariance, PTL
=============================================================================
