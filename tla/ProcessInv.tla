----------------------------- MODULE ProcessInv -----------------------------
(***************************************************************************)
(* What the process manager guarantees in the call patterns pseudOS uses.  *)
(* The queue code of process.c is right only for short queues, and the     *)
(* assumption below says how short.  The shipped system meets it: FS       *)
(* receives from ANY and is sent to by one user process and by TTY0, the   *)
(* user process receives from FS only, and nobody makes a blocking send to *)
(* TTY0.                                                                   *)
(***************************************************************************)
EXTENDS Process

Senders(d) == {p \in Slots : <<p, d>> \in SendsTo}

ASSUME TopologyAssumption ==
  \* at most two processes make blocking sends to the same destination
  /\ \A d \in Slots : \A x, y, z \in Senders(d) : x = y \/ y = z \/ x = z
  \* who receives from a specific process is sent to by that process only
  /\ \A e \in ReceivesFrom : e[2] # IPC_TARGET_ANY => Senders(e[1]) \subseteq {e[2]}
  \* a process with two senders is the only sender of those it sends to
  /\ \A d, x, y \in Slots : (x # y /\ {x, y} \subseteq Senders(d)) =>
       \A e \in Slots : d \in Senders(e) => Senders(e) = {d}

Live(p) == pid[p] # NOPID

\* There is one CPU: in every state between two traps exactly one process is
\* RUNNING, it is the one proc_running names, and the registers on the CPU are
\* its own (schedule saved and restored the right contexts).
OneRunning ==
  /\ \A p \in Slots : state[p] = "RUNNING" <=> p = proc_running
  /\ kstatus = "up" /\ ~do_start => cpu = proc_running
  /\ \A p \in Slots : p # proc_running \/ do_start => regs[p] = p

\* "after this returns, the IPC has done" (process.h, syscall_asm): a process
\* the scheduler resumes has no send or receive left pending, although
\* proc_getnext falls back on the running process when none is READY and
\* proc_schedule makes RUNNING whatever it is given.
ResumedIpcDone ==
  \A p \in Slots : state[p] \in {"RUNNING", "READY", "UNDEF"} =>
    /\ p_sendto[p] = IPC_TARGET_NONE
    /\ p_recvfrom[p] = IPC_TARGET_NONE
    /\ p_msg[p] = NULL

\* The sending queue of d holds exactly the processes blocked in a SEND to d,
\* each once, and a process outside any queue has no link left in it.
SendingTo(d) == {p \in Slots : state[p] = "SENDING" /\ p_sendto[p] = d}

QueueExact ==
  /\ \A d \in Slots :
       LET h == queue_sending[d] IN
         IF h = NULL THEN SendingTo(d) = {}
         ELSE LET t == queue_sending_next[h] IN
              IF t = NULL THEN SendingTo(d) = {h}
              ELSE /\ SendingTo(d) = {h, t}
                   /\ h # t
                   /\ queue_sending_next[t] = NULL
  /\ \A p \in Slots : state[p] # "SENDING" => queue_sending_next[p] = NULL

\* A blocked process waits for what it asked for, with its own buffer: a
\* sender for a destination it may send to, a receiver for a message.
BlockedWaits ==
  \A p \in Slots :
    /\ state[p] = "SENDING" =>
         /\ <<p, p_sendto[p]>> \in SendsTo
         /\ p_recvfrom[p] = IPC_TARGET_NONE
         /\ p_msg[p] = p
         /\ buf[p].source = p
    /\ state[p] = "RECEIVING" =>
         /\ p_recvfrom[p] # IPC_TARGET_NONE
         /\ p_sendto[p] = IPC_TARGET_NONE
         /\ p_msg[p] = p
    /\ state[p] \in {"SENDING", "RECEIVING"} => p \notin IdleProcs

\* No receiver is left waiting for a message that is already queued for it.
NoMissedMessage ==
  \A r \in Slots : state[r] = "RECEIVING" =>
    \A q \in SendingTo(r) : p_recvfrom[r] \notin {q, IPC_TARGET_ANY}

TableInv ==
  /\ \A p \in Slots : pid[p] \in {p, NOPID}
  /\ \A p \in Slots : state[p] = "UNDEF" <=> ~Live(p)
  /\ \A p \in IdleProcs \cup Daemons : Live(p)
  /\ do_start => \A p \in Slots : state[p] \notin {"SENDING", "RECEIVING"}
  /\ do_start <=> cpu = KMAIN
  /\ kstatus = "boot" => do_start
  /\ proc_running = 1 \/ ~do_start

IInv == /\ TypeOK /\ NoHalt /\ TableInv /\ OneRunning /\ ResumedIpcDone
        /\ QueueExact /\ BlockedWaits /\ NoMissedMessage
=============================================================================
