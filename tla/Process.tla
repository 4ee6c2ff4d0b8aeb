------------------------------- MODULE Process -------------------------------
(***************************************************************************)
(* The process manager and the IPC of the pseudOS kernel                   *)
(* (kernel/process.c), with the two trap handlers that enter it: the ecall *)
(* handler (kernel/syscall.c) and the timer handler (kernel/isr.c).        *)
(*                                                                         *)
(* There is one CPU and handlers run with interrupts off, so every trap is *)
(* one atomic step that ends, where the code does, in a call of schedule.  *)
(* Each field of the C struct Process is a function over the process       *)
(* table; a Process* is the index of its entry, or NULL.  What a process   *)
(* computes between two traps is left out: it may at any moment make any   *)
(* of the calls that SendsTo, NotifiesTo and ReceivesFrom grant it.        *)
(***************************************************************************)
EXTENDS Integers, FiniteSets

CONSTANTS
  PROC_NUM_MAX,   \* entries of the process table
  IdleProcs,      \* proc1, proc2, proc3: they never make an ecall
  Daemons,        \* registered by prepare_processes (FS, TTY0)
  NumElf,         \* processes that loadelf creates
  SendsTo,        \* <<p, d>>: p makes blocking SENDs to d
  NotifiesTo,     \* <<p, d>>: p makes OS_send_nonblk SENDs to d
  ReceivesFrom,   \* <<p, s>>: p makes RECEIVEs from s, a pid or ANY
  Payload,        \* message contents other than the source
  SLICE           \* timer ticks per time slice

IPC_TARGET_ANY  == -363
IPC_TARGET_NONE == -364
NULL  == -2       \* the null Process* and the null Message*
NOPID == -1       \* pid of a free table entry
KMAIN == -3       \* the context of sd_c_start, which never runs again

Slots == 0 .. PROC_NUM_MAX - 1

ASSUME TableAssumption ==
  /\ PROC_NUM_MAX \in Nat /\ PROC_NUM_MAX > 1
  /\ IdleProcs \subseteq Slots \ {0} /\ 1 \in IdleProcs
  /\ Daemons \subseteq Slots \ {0}
  /\ IdleProcs \cap Daemons = {}
  /\ NumElf \in Nat
  /\ SLICE \in Nat \ {0}
  /\ Payload # {}

\* getavailpid finds a free entry for every process that loadelf creates.
ASSUME RoomAssumption ==
  NumElf <= Cardinality(Slots \ ({0} \cup IdleProcs \cup Daemons))

\* proc1..proc3 (process.c:73-110) loop and print; nobody calls itself.
ASSUME CallAssumption ==
  /\ SendsTo \cup NotifiesTo \subseteq (Slots \ IdleProcs) \X Slots
  /\ ReceivesFrom \subseteq (Slots \ IdleProcs) \X (Slots \cup {IPC_TARGET_ANY})
  /\ \A e \in SendsTo \cup NotifiesTo \cup ReceivesFrom : e[1] # e[2]

VARIABLES
  pid, state, regs,                   \* struct Process
  p_sendto, p_recvfrom, p_msg,
  queue_sending, queue_sending_next,
  buf,            \* the Message that each process passes to its ecalls
  proc_running, do_start,             \* struct ProcManager
  ticks,          \* timer ticks, modulo SLICE
  cpu,            \* whose register context the CPU is executing
  elfs,           \* processes created so far by loadelf
  kstatus         \* "boot", "up", "panic" (halted) or "hang" (endless loop)

sched_vars == <<state, regs, cpu, proc_running, do_start>>
ipc_vars   == <<p_sendto, p_recvfrom, p_msg, queue_sending, queue_sending_next>>
vars == <<pid, sched_vars, ipc_vars, buf, ticks, elfs, kstatus>>

States  == {"RUNNING", "READY", "SENDING", "RECEIVING", "UNDEF"}
Message == [source : Slots \cup {NOPID}, body : Payload]
ProcPtr == Slots \cup {NULL}

-----------------------------------------------------------------------------
(* Boot: ProcManagerInit, prepare_processes, loadelf, setupIRQ             *)

Init ==
  /\ pid   = [i \in Slots |-> IF i \in IdleProcs \cup Daemons THEN i ELSE NOPID]
  /\ state = [i \in Slots |-> IF i = 1 THEN "RUNNING"
                              ELSE IF i \in IdleProcs \cup Daemons THEN "READY"
                              ELSE "UNDEF"]
  /\ regs  = [i \in Slots |-> i]
  /\ p_sendto   = [i \in Slots |-> IPC_TARGET_NONE]
  /\ p_recvfrom = [i \in Slots |-> IPC_TARGET_NONE]
  /\ p_msg      = [i \in Slots |-> NULL]
  /\ queue_sending      = [i \in Slots |-> NULL]
  /\ queue_sending_next = [i \in Slots |-> NULL]
  /\ buf \in {[i \in Slots |-> [source |-> NOPID, body |-> b]] : b \in Payload}
  /\ proc_running = 1
  /\ do_start = TRUE
  /\ ticks = 0
  /\ cpu = KMAIN
  /\ elfs = 0
  /\ kstatus = "boot"

\* The least element of a set of table indices: what a loop that counts up finds.
Lowest(S) == CHOOSE i \in S : \A j \in S : i <= j

getavailpid == Lowest({i \in Slots \ {0} : pid[i] = NOPID})

\* new_process_from_elf_in_memory, only called by loadelf before interrupts
\* are on.  With the table full getavailpid returns -1, which the code would
\* use as an index; RoomAssumption says that loadelf stops short of that.
NewProcess ==
  /\ kstatus = "boot"
  /\ elfs < NumElf
  /\ \E i \in Slots \ {0} : pid[i] = NOPID
  /\ elfs' = elfs + 1
  /\ LET new == getavailpid IN
       /\ pid'   = [pid EXCEPT ![new] = new]
       /\ state' = [state EXCEPT ![new] = "READY"]
       /\ regs'  = [regs EXCEPT ![new] = new]
       /\ p_sendto'   = [p_sendto EXCEPT ![new] = IPC_TARGET_NONE]
       /\ p_recvfrom' = [p_recvfrom EXCEPT ![new] = IPC_TARGET_NONE]
       /\ p_msg'      = [p_msg EXCEPT ![new] = NULL]
       /\ queue_sending'      = [queue_sending EXCEPT ![new] = NULL]
       /\ queue_sending_next' = [queue_sending_next EXCEPT ![new] = NULL]
  /\ UNCHANGED <<buf, proc_running, do_start, ticks, cpu, kstatus>>

setupIRQ ==
  /\ kstatus = "boot"
  /\ elfs = NumElf
  /\ kstatus' = "up"
  /\ UNCHANGED <<pid, sched_vars, ipc_vars, buf, ticks, elfs>>

-----------------------------------------------------------------------------
(* The scheduler.  st is the state field as the handler left it.           *)

Ready(st) == {i \in Slots : pid[i] # NOPID /\ st[i] = "READY"}

\* Mutant: any live process is good enough, blocked or not.
proc_getnext_NoStateTest(st) ==
  LET others == {i \in Slots \ {proc_running} : pid[i] # NOPID}
      after  == {i \in others : i > proc_running}
  IN  IF after # {} THEN Lowest(after) ELSE Lowest(others)

\* Mutant: the search starts at the beginning of the table each time.
proc_getnext_NoRoundRobin(st) ==
  IF Ready(st) # {} THEN Lowest(Ready(st)) ELSE proc_running

proc_getnext(st) ==
  LET after  == {i \in Ready(st) : i > proc_running}
      before == {i \in Ready(st) : i < proc_running}
  IN  IF after # {} THEN Lowest(after)
      ELSE IF before # {} THEN Lowest(before)
      ELSE proc_running

\* Mutant: the process that leaves the CPU is not demoted.
proc_schedule_NoDemote(st) ==
  LET to == proc_getnext(st) IN
  /\ do_start' = FALSE
  /\ state' = [st EXCEPT ![to] = "RUNNING"]
  /\ regs' = IF do_start THEN regs ELSE [regs EXCEPT ![proc_running] = cpu]
  /\ cpu' = regs'[to]
  /\ proc_running' = to

\* The first call only loads process 1; every other one saves the context of
\* p_from, demotes it if it was running, and loads and promotes p_to.
proc_schedule(st) ==
  IF do_start
  THEN /\ do_start' = FALSE
       /\ state' = [st EXCEPT ![1] = "RUNNING"]
       /\ cpu' = regs[1]
       /\ proc_running' = 1
       /\ regs' = regs
  ELSE LET to    == proc_getnext(st)
           left  == [st EXCEPT ![proc_running] = IF @ = "RUNNING" THEN "READY" ELSE @]
           saved == [regs EXCEPT ![proc_running] = cpu]
       IN  /\ state' = [left EXCEPT ![to] = "RUNNING"]
           /\ regs' = saved
           /\ cpu' = saved[to]
           /\ proc_running' = to
           /\ UNCHANGED do_start

\* Mutant: the slice counter is not taken modulo the slice.
isr_timer_i_handler_NoModulo ==
  /\ kstatus = "up"
  /\ ticks' = ticks + 1
  /\ IF ticks' = SLICE THEN proc_schedule(state) ELSE UNCHANGED sched_vars
  /\ UNCHANGED <<pid, ipc_vars, buf, elfs, kstatus>>

isr_timer_i_handler ==
  /\ kstatus = "up"
  /\ ticks' = (ticks + 1) % SLICE
  /\ IF ticks' = 0 THEN proc_schedule(state) ELSE UNCHANGED sched_vars
  /\ UNCHANGED <<pid, ipc_vars, buf, elfs, kstatus>>

-----------------------------------------------------------------------------
(* Ecalls.  The caller is whoever executes; the kernel takes it to be      *)
(* proc_running.                                                           *)

Executing(p) == kstatus = "up" /\ cpu = p

\* A failed assert() halts the machine where it stands.
Panic == /\ kstatus' = "panic"
         /\ UNCHANGED <<pid, sched_vars, ipc_vars, buf, ticks, elfs>>

Hang == /\ kstatus' = "hang"
        /\ UNCHANGED <<pid, sched_vars, ipc_vars, buf, ticks, elfs>>

\* Mutant: a receiver that waits for one process in particular is not seen.
CanDeliver_AnyOnly(dest) ==
  state[dest] = "RECEIVING" /\ p_recvfrom[dest] = IPC_TARGET_ANY

CanDeliver(dest) ==
  /\ state[dest] = "RECEIVING"
  /\ p_recvfrom[dest] \in {pid[proc_running], IPC_TARGET_ANY}

\* Mutant: the source field keeps what an earlier call left in it.
Stamped_Stale(p, body) == [buf EXCEPT ![p].body = body]

\* sendrec stamps the caller on the message, for sends and receives alike.
Stamped(p, body) == [buf EXCEPT ![p] = [source |-> proc_running, body |-> body]]

\* Mutant: the receiver's p_msg is not cleared.
msg_send_direct_KeepMsg(p, dest, body) ==
  /\ Executing(p)
  /\ CanDeliver(dest)
  /\ buf' = [Stamped(p, body) EXCEPT ![p_msg[dest]] = Stamped(p, body)[p]]
  /\ p_recvfrom' = [p_recvfrom EXCEPT ![dest] = IPC_TARGET_NONE]
  /\ proc_schedule([state EXCEPT ![dest] = "READY"])
  /\ UNCHANGED <<pid, p_msg, p_sendto, queue_sending, queue_sending_next, ticks, elfs, kstatus>>

\* _msg_send, the receiver is waiting: copy, unblock it, blocking or not.
msg_send_direct(p, dest, body) ==
  /\ Executing(p)
  /\ CanDeliver(dest)
  /\ buf' = [Stamped(p, body) EXCEPT ![p_msg[dest]] = Stamped(p, body)[p]]
  /\ p_msg' = [p_msg EXCEPT ![dest] = NULL]
  /\ p_recvfrom' = [p_recvfrom EXCEPT ![dest] = IPC_TARGET_NONE]
  /\ proc_schedule([state EXCEPT ![dest] = "READY"])
  /\ UNCHANGED <<pid, p_sendto, queue_sending, queue_sending_next, ticks, elfs, kstatus>>

\* _msg_send, OS_send_nonblk and nobody waiting: -1, the message is gone.
msg_send_nonblock_fail(p, dest, body) ==
  /\ Executing(p)
  /\ ~CanDeliver(dest)
  /\ buf' = Stamped(p, body)
  /\ proc_schedule(state)
  /\ UNCHANGED <<pid, ipc_vars, ticks, elfs, kstatus>>

\* _msg_send, block the sender and enqueue it.  The loop that looks for the
\* end of the queue tests dest's own link instead of the one it walks: either
\* it does not run at all, and the entry goes right behind the head, or it
\* runs off the end of the list.
msg_send_block(p, dest, body) ==
  LET me    == proc_running
      head  == queue_sending[dest]
  IN
  /\ Executing(p)
  /\ ~CanDeliver(dest)
  /\ IF state[me] # "RUNNING" THEN Panic
     ELSE IF head # NULL /\ queue_sending_next[dest] # NULL THEN Hang
     ELSE IF p_recvfrom[me] # IPC_TARGET_NONE THEN Panic
     ELSE /\ buf' = Stamped(p, body)
          /\ p_sendto' = [p_sendto EXCEPT ![me] = dest]
          /\ p_msg' = [p_msg EXCEPT ![me] = p]
          /\ IF head # NULL
             THEN /\ queue_sending_next' = [queue_sending_next EXCEPT ![head] = me]
                  /\ UNCHANGED queue_sending
             ELSE /\ queue_sending' = [queue_sending EXCEPT ![dest] = me]
                  /\ UNCHANGED queue_sending_next
          /\ proc_schedule([state EXCEPT ![me] = "SENDING"])
          /\ UNCHANGED <<pid, p_recvfrom, ticks, elfs, kstatus>>

\* What both receive paths assert of the caller.
CallerClean == LET me == proc_running IN
  /\ p_msg[me] = NULL
  /\ p_recvfrom[me] = IPC_TARGET_NONE
  /\ p_sendto[me] = IPC_TARGET_NONE

\* Mutant: the sender is unblocked without its message being copied.
FinishReceive_NoCopy(p, p_from) ==
  /\ p_msg' = [p_msg EXCEPT ![p_from] = NULL]
  /\ p_sendto' = [p_sendto EXCEPT ![p_from] = IPC_TARGET_NONE]
  /\ proc_schedule([state EXCEPT ![p_from] = "READY"])
  /\ UNCHANGED <<pid, buf, p_recvfrom, ticks, elfs, kstatus>>

\* The end of _msg_receive: copy the message of p_from and unblock it.
FinishReceive(p, p_from) ==
  /\ buf' = [buf EXCEPT ![p] = buf[p_msg[p_from]]]
  /\ p_msg' = [p_msg EXCEPT ![p_from] = NULL]
  /\ p_sendto' = [p_sendto EXCEPT ![p_from] = IPC_TARGET_NONE]
  /\ proc_schedule([state EXCEPT ![p_from] = "READY"])
  /\ UNCHANGED <<pid, p_recvfrom, ticks, elfs, kstatus>>

\* Mutant: the entry taken out keeps its link.
DequeueHead_KeepLink(p_from) ==
  /\ queue_sending' = [queue_sending EXCEPT ![proc_running] = queue_sending_next[p_from]]
  /\ UNCHANGED queue_sending_next

DequeueHead(p_from) ==
  /\ queue_sending' = [queue_sending EXCEPT ![proc_running] = queue_sending_next[p_from]]
  /\ queue_sending_next' = [queue_sending_next EXCEPT ![p_from] = NULL]

\* RECEIVE from ANY with a sender in the queue: take the head.
msg_receive_any(p) ==
  LET me     == proc_running
      p_from == queue_sending[me]
  IN
  /\ Executing(p)
  /\ p_from # NULL
  /\ IF CallerClean /\ p_msg[p_from] # NULL
        /\ p_recvfrom[p_from] = IPC_TARGET_NONE /\ p_sendto[p_from] = pid[me]
     THEN DequeueHead(p_from) /\ FinishReceive(p, p_from)
     ELSE Panic

\* src blocks in a SEND to the caller.  The mask the code tests, IPC_SEND,
\* shares a bit with SENDING and with UNDEF and with no other state.
IsSendingTo(src, me) ==
  /\ state[src] \in {"SENDING", "UNDEF"}
  /\ p_sendto[src] = pid[me]

\* The n-th entry of the queue of r, NULL past its end.
QueueNode(r) ==
  LET node[n \in 0 .. PROC_NUM_MAX] ==
        IF n = 0 THEN queue_sending[r]
        ELSE IF node[n-1] = NULL THEN NULL
        ELSE queue_sending_next[node[n-1]]
  IN  node

\* Where the search of _msg_receive leaves prev when src is not the head: on
\* the entry before the first occurrence of src, or on the last entry.
SearchPrev(me, src) ==
  LET node == QueueNode(me)
      stop == {n \in 1 .. PROC_NUM_MAX : node[n] \in {src, NULL}}
  IN  IF stop = {} THEN NULL ELSE node[Lowest(stop) - 1]

\* RECEIVE from a specific process that is blocked sending to the caller.
\* Taking an entry other than the head out moves queue_sending heads about
\* and leaves the queue_sending_next links as they are.
msg_receive_from(p, src) ==
  LET me   == proc_running
      head == queue_sending[me]
  IN
  /\ Executing(p)
  /\ IsSendingTo(src, me)
  /\ IF head = NULL THEN Panic
     ELSE IF head # src /\ SearchPrev(me, src) = NULL THEN Hang
     ELSE IF ~CallerClean \/ state[me] # "RUNNING"
             \/ p_recvfrom[src] # IPC_TARGET_NONE \/ p_msg[src] = NULL THEN Panic
     ELSE /\ IF head = src THEN DequeueHead(src)
             ELSE /\ queue_sending' = [queue_sending EXCEPT
                         ![SearchPrev(me, src)] = queue_sending[src], ![src] = NULL]
                  /\ UNCHANGED queue_sending_next
          /\ FinishReceive(p, src)

\* _msg_receive, block the receiver.
msg_receive_block(p, src) ==
  LET me == proc_running IN
  /\ Executing(p)
  /\ IF src = IPC_TARGET_ANY THEN queue_sending[me] = NULL ELSE ~IsSendingTo(src, me)
  /\ IF state[me] # "RUNNING" \/ p_sendto[me] # IPC_TARGET_NONE THEN Panic
     ELSE /\ buf' = [buf EXCEPT ![p].source = me]
          /\ p_msg' = [p_msg EXCEPT ![me] = p]
          /\ p_recvfrom' = [p_recvfrom EXCEPT
                 ![me] = IF src = IPC_TARGET_ANY THEN IPC_TARGET_ANY ELSE pid[src]]
          /\ proc_schedule([state EXCEPT ![me] = "RECEIVING"])
          /\ UNCHANGED <<pid, p_sendto, queue_sending, queue_sending_next, ticks, elfs, kstatus>>

\* syscall_handler when it passes nothing on: an unsupported function with
\* src_dest -1, or (sendrec, sendrec_nonblock: after the stamp) neither SEND
\* nor RECEIVE.  The call fails and the caller's turn ends.
syscall_rejected(p) ==
  /\ Executing(p)
  /\ buf' \in {buf, [buf EXCEPT ![p].source = proc_running]}
  /\ proc_schedule(state)
  /\ UNCHANGED <<pid, ipc_vars, ticks, elfs, kstatus>>

Send(p, dest, body) ==
  msg_send_direct(p, dest, body) \/ msg_send_block(p, dest, body)

Notify(p, dest, body) ==
  msg_send_direct(p, dest, body) \/ msg_send_nonblock_fail(p, dest, body)

Receive(p, src) ==
  \/ src = IPC_TARGET_ANY /\ msg_receive_any(p)
  \/ src # IPC_TARGET_ANY /\ msg_receive_from(p, src)
  \/ msg_receive_block(p, src)

syscall_handler ==
  \/ \E e \in SendsTo, b \in Payload : Send(e[1], e[2], b)
  \/ \E e \in NotifiesTo, b \in Payload : Notify(e[1], e[2], b)
  \/ \E e \in ReceivesFrom : Receive(e[1], e[2])
  \/ \E p \in Slots \ IdleProcs : syscall_rejected(p)

Next == NewProcess \/ setupIRQ \/ isr_timer_i_handler \/ syscall_handler

Spec == Init /\ [][Next]_vars

\* Booting is straight-line code and ends; then the timer keeps ticking.
\* Nothing is assumed of the processes.
FairSpec ==
  Spec /\ WF_vars(NewProcess) /\ WF_vars(setupIRQ) /\ WF_vars(isr_timer_i_handler)

-----------------------------------------------------------------------------
(* Properties                                                              *)

TypeOK ==
  /\ pid   \in [Slots -> Slots \cup {NOPID}]
  /\ state \in [Slots -> States]
  /\ regs  \in [Slots -> Slots \cup {KMAIN}]
  /\ p_sendto   \in [Slots -> Slots \cup {IPC_TARGET_NONE}]
  /\ p_recvfrom \in [Slots -> Slots \cup {IPC_TARGET_NONE, IPC_TARGET_ANY, NOPID}]
  /\ p_msg      \in [Slots -> ProcPtr]
  /\ queue_sending      \in [Slots -> ProcPtr]
  /\ queue_sending_next \in [Slots -> ProcPtr]
  /\ buf \in [Slots -> Message]
  /\ proc_running \in Slots
  /\ do_start \in BOOLEAN
  /\ ticks \in 0 .. SLICE - 1
  /\ cpu \in Slots \cup {KMAIN}
  /\ elfs \in 0 .. NumElf
  /\ kstatus \in {"boot", "up", "panic", "hang"}

\* No sequence of legal calls trips an assert() of process.c or loops in it.
NoHalt == kstatus \in {"boot", "up"}

\* "sender must have been added to p_recv's receive queue" (_msg_receive):
\* a process blocked in a SEND to d is in the sending queue of d.
BlockedSendersQueued ==
  \A p \in Slots : state[p] = "SENDING" =>
    \E n \in 0 .. PROC_NUM_MAX : QueueNode(p_sendto[p])[n] = p

\* Round robin: every process that is ready to run gets the CPU, whatever
\* calls the others make.
NoStarvation == \A p \in Slots : state[p] = "READY" ~> state[p] = "RUNNING"
=============================================================================
