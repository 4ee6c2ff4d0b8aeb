------------------------------- MODULE FsTty -------------------------------
(***************************************************************************)
(* The path of a system call on a terminal: a user process asks FS         *)
(* (fs/fs.c), FS puts the request on the queue of TTY0 and wakes it, TTY0  *)
(* (fs/tty.c) serves it and tells FS, FS answers the user process.         *)
(*                                                                         *)
(* The processes talk through the rendezvous that the kernel implements    *)
(* (ProcessRefinement), and share the ring buffer.  A timer interrupt may  *)
(* come between any two C statements outside cli()/sti(), so each step     *)
(* below is one such statement or one such section.                        *)
(***************************************************************************)
EXTENDS IOQueue, FiniteSets

CONSTANTS
  Users,        \* the user processes
  FS, TTY, FSS, \* KPROC_PID_FS, KPROC_PID_TTY0, KPROC_PID_FSS0
  ANY,          \* IPC_TARGET_ANY
  Calls         \* <<function, fd>> of the system calls the users make

\* The pids of kernel/global.h and of the user processes are distinct, and
\* IPC_TARGET_ANY is none of them.
ASSUME ProcsAssumption ==
  /\ FS \notin Users \cup {TTY, FSS, ANY}
  /\ TTY \notin Users \cup {FSS, ANY}
  /\ FSS \notin Users \cup {ANY}
  /\ ANY \notin Users

Procs == Users \cup {FS, TTY, FSS}

\* Message.function and param[0], param[1].  Of a call, param[0] is the file
\* descriptor and param[1] stands for the transfer asked for (the iovec); of
\* an answer, param[0] is the result.
Msg(function, p0, p1) == [function |-> function, p0 |-> p0, p1 |-> p1]
GARBAGE == Msg("garbage", 0, 0)

\* The calls on a terminal, which FS passes on by file descriptor.
OnTty == {"ioctl", "readv", "writev"}

\* Only TTY0 sends fs_resume; the file descriptors that processes have are those
\* of the terminal, since openat is never answered; and the queue has room for
\* whatever a user process may ask of the terminal, which is never all zero.
ASSUME CallsAssumption ==
  /\ \A c \in Calls : /\ c[1] # "fs_resume"
                      /\ c[1] \in OnTty => c[2] \in 0 .. 2
  /\ \A c \in Calls, u \in Users, t \in {0, 1} :
       c[1] \in OnTty => [source |-> u, body |-> Msg(c[1], c[2], t)] \in IOQuest
  /\ ZERO \notin IOQuest

VARIABLES
  wait, senders, box,  \* the state of the IPC
  ttyproc_queue,       \* has TTY0 published its queue?
  msg,                 \* what FS received last, with its source
  elem,                \* what TTY0 dequeued last
  call,                \* the system call each user process is in, or was last
  pc,                  \* the statement each process is at
  panicked

IPC == INSTANCE Rendezvous WITH
         Body <- {GARBAGE}, SendsTo <- {}, NotifiesTo <- {}, ReceivesFrom <- {}

ipc   == <<wait, senders, box>>
local == <<msg, elem, call>>
vars  == <<q, ipc, ttyproc_queue, local, pc, panicked>>

SEND(p, d, m) == IPC!Deliver(p, d, m) \/ IPC!BlockSend(p, d, m)
SEND_nonblk(p, d, m) == IPC!Deliver(p, d, m) \/ IPC!Drop(p, d, m)
RECEIVE(p, s) == IPC!TakeSent(p, s) \/ IPC!BlockReceive(p, s)

\* p is at statement l and has no call to the kernel outstanding.
Here(p, l) == pc[p] = l /\ wait[p] = IPC!Free /\ ~panicked
Goto(p, l) == pc' = [pc EXCEPT ![p] = l]

Init ==
  /\ ioqueue_init
  /\ IPC!RInit
  /\ ttyproc_queue = FALSE
  /\ msg = [source |-> -1, body |-> GARBAGE]
  /\ elem = [source |-> -1, body |-> GARBAGE]
  /\ call = [u \in Users |-> Msg("none", 0, 0)]
  /\ pc = [p \in Procs |-> CASE p \in Users -> "user" [] OTHER -> "start"]
  /\ panicked = FALSE

-----------------------------------------------------------------------------
(* A user process: the C library makes two ecalls of each system call, and  *)
(* the kernel sends both to FS.  Successive transfers are told apart.       *)

UserSend(u) ==
  /\ Here(u, "user")
  /\ \E c \in Calls :
       LET m == Msg(c[1], c[2], 1 - call[u].p1) IN
       /\ call' = [call EXCEPT ![u] = m]
       /\ SEND(u, FS, m)
  /\ Goto(u, "sent")
  /\ UNCHANGED <<q, ttyproc_queue, msg, elem, panicked>>

UserReceive(u) ==
  /\ Here(u, "sent")
  /\ RECEIVE(u, FS)
  /\ Goto(u, "returned")
  /\ UNCHANGED <<q, ttyproc_queue, local, panicked>>

UserReturn(u) ==
  /\ Here(u, "returned")
  /\ Goto(u, "user")
  /\ UNCHANGED <<q, ipc, ttyproc_queue, local, panicked>>

-----------------------------------------------------------------------------
(* FS: fs_proc_main, fs_request_by_fd, fs_request_by_path, fs_notify_target *)
(* and fs_resume_userproc                                                   *)

\* FS begins with an empty delay loop, which is taken to outlast the start of
\* TTY0: nothing else makes FS wait until TTY0 has published its queue.
FsStart ==
  /\ Here(FS, "start")
  /\ ttyproc_queue
  /\ Goto(FS, "receive")
  /\ UNCHANGED <<q, ipc, ttyproc_queue, local, panicked>>

FsReceive ==
  /\ Here(FS, "receive")
  /\ RECEIVE(FS, ANY)
  /\ Goto(FS, "dispatch")
  /\ UNCHANGED <<q, ttyproc_queue, local, panicked>>

\* Mutant: the answers of TTY0 are handled like unknown functions.
FsDispatch_NoResume ==
  /\ Here(FS, "dispatch")
  /\ msg' = box[FS]
  /\ Goto(FS, IF box[FS].body.function \in OnTty
              THEN "isfull" ELSE "receive")
  /\ UNCHANGED <<q, ipc, ttyproc_queue, elem, call, panicked>>

FsDispatch ==
  /\ Here(FS, "dispatch")
  /\ msg' = box[FS]
  /\ LET function == box[FS].body.function
         by_fd    == function \in OnTty
         by_path  == function \in {"openat", "close"}
     IN  /\ panicked' = (by_fd /\ box[FS].body.p0 > 2)
         /\ Goto(FS, CASE by_fd   -> "isfull"
                       [] by_path -> "notify_fss"
                       [] function = "fs_resume" -> "resume"
                       [] OTHER   -> "receive")
  /\ UNCHANGED <<q, ipc, ttyproc_queue, elem, call>>

\* Mutant: FS does not wait for room.
FsIsFull_NoTest ==
  /\ Here(FS, "isfull")
  /\ Goto(FS, "enqueue")
  /\ UNCHANGED <<q, ipc, ttyproc_queue, local, panicked>>

\* while (ioqueue_isfull(q)); until the queue has room.
FsIsFull ==
  /\ Here(FS, "isfull")
  /\ ~ioqueue_isfull
  /\ Goto(FS, "enqueue")
  /\ UNCHANGED <<q, ipc, ttyproc_queue, local, panicked>>

FsEnqueue ==
  /\ Here(FS, "enqueue")
  /\ IF ioqueue_isfull THEN panicked' = TRUE /\ UNCHANGED q
                       ELSE ioenqueue(msg) /\ UNCHANGED panicked
  /\ Goto(FS, "notify_tty")
  /\ UNCHANGED <<ipc, ttyproc_queue, local>>

FsNotify(target, l) ==
  /\ Here(FS, l)
  /\ SEND_nonblk(FS, target, Msg("send_nonblk", 0, 0))
  /\ Goto(FS, "receive")
  /\ UNCHANGED <<q, ttyproc_queue, local, panicked>>

\* Mutant: the result is not copied into the answer.
FsResume_NoResult ==
  /\ Here(FS, "resume")
  /\ SEND(FS, msg.body.p1, Msg("justamsg", 0, 0))
  /\ Goto(FS, "receive")
  /\ UNCHANGED <<q, ttyproc_queue, local, panicked>>

FsResume ==
  /\ Here(FS, "resume")
  /\ SEND(FS, msg.body.p1, Msg("justamsg", msg.body.p0, 0))
  /\ Goto(FS, "receive")
  /\ UNCHANGED <<q, ttyproc_queue, local, panicked>>

FsStep == \/ FsStart \/ FsReceive \/ FsDispatch \/ FsIsFull \/ FsEnqueue \/ FsResume
          \/ FsNotify(TTY, "notify_tty")
          \/ FsNotify(FSS, "notify_fss")

-----------------------------------------------------------------------------
(* TTY0: proc_tty                                                          *)

TtyStart ==
  /\ Here(TTY, "start")
  /\ ttyproc_queue' = TRUE
  /\ q' = [head |-> 0, tail |-> 0, list |-> [i \in Index |-> ZERO]]
  /\ Goto(TTY, "isempty")
  /\ UNCHANGED <<ipc, local, panicked>>

TtyIsEmpty ==
  /\ Here(TTY, "isempty")
  /\ Goto(TTY, IF ioqueue_isempty THEN "receive" ELSE "dequeue")
  /\ UNCHANGED <<q, ipc, ttyproc_queue, local, panicked>>

\* The message only wakes TTY0 up.
TtyReceive ==
  /\ Here(TTY, "receive")
  /\ RECEIVE(TTY, ANY)
  /\ Goto(TTY, "isempty")
  /\ UNCHANGED <<q, ttyproc_queue, local, panicked>>

\* Mutant: the entry is read and stays in the queue.
TtyDequeue_Peek ==
  /\ Here(TTY, "dequeue")
  /\ elem' = q.list[q.head]
  /\ Goto(TTY, "serve")
  /\ UNCHANGED <<q, ipc, ttyproc_queue, msg, call, panicked>>

TtyDequeue ==
  /\ Here(TTY, "dequeue")
  /\ IF ioqueue_isempty THEN Goto(TTY, "isempty") /\ UNCHANGED <<q, elem>>
                        ELSE iodequeue(elem') /\ Goto(TTY, "serve")
  /\ UNCHANGED <<ipc, ttyproc_queue, msg, call, panicked>>

\* The device does what elem asks for, and the result goes to FS.  A read
\* waits until the characters have been typed.
TtyServe ==
  /\ Here(TTY, "serve")
  /\ IF elem.body.function \in OnTty
     THEN SEND(TTY, FS, Msg("fs_resume", elem.body.p1, elem.source))
     ELSE UNCHANGED ipc
  /\ Goto(TTY, "isempty")
  /\ UNCHANGED <<q, ttyproc_queue, local, panicked>>

TtyStep == TtyStart \/ TtyIsEmpty \/ TtyReceive \/ TtyDequeue \/ TtyServe

Next == \/ \E u \in Users : UserSend(u) \/ UserReceive(u) \/ UserReturn(u)
        \/ FsStep
        \/ TtyStep

Spec == Init /\ [][Next]_vars

\* The scheduler starves nobody who is ready to run (NoStarvation of Process),
\* the terminal is typed at, and a user process finishes the system call that
\* it has begun.
FairSpec ==
  /\ Spec
  /\ WF_vars(FsStep)
  /\ WF_vars(TtyStep)
  /\ \A u \in Users : WF_vars(UserReceive(u)) /\ WF_vars(UserReturn(u))

-----------------------------------------------------------------------------
(* Properties                                                              *)

TypeOK ==
  /\ QTypeOK
  /\ ttyproc_queue \in BOOLEAN
  /\ panicked \in BOOLEAN
  /\ \A u \in Users : pc[u] \in {"user", "sent", "returned"}
  /\ pc[FS] \in {"start", "receive", "dispatch", "isfull", "enqueue",
                 "notify_tty", "notify_fss", "resume"}
  /\ pc[TTY] \in {"start", "isempty", "receive", "dequeue", "serve"}
  /\ pc[TTY] = "serve" => elem \in IOQuest

\* No queue operation fails although it was tested before: neither panic() of
\* fs_request_by_fd and proc_tty is reached.
NoPanic == ~panicked

\* The places where a call of u can be between the SEND and the answer.
HeldByFS(u) ==
  \/ pc[FS] = "dispatch" /\ wait[FS] = IPC!Free /\ box[FS].source = u
  \/ pc[FS] \in {"isfull", "enqueue"} /\ msg.source = u
AnswerAtFS(u) ==
  \/ pc[FS] = "dispatch" /\ wait[FS] = IPC!Free
     /\ box[FS].source = TTY /\ box[FS].body.p1 = u
  \/ pc[FS] = "resume" /\ msg.body.p1 = u
  \/ wait[FS] = [op |-> "send", peer |-> u]
AnswerAtTTY(u) ==
  \/ pc[TTY] = "serve" /\ elem.source = u
  \/ wait[TTY].op = "send" /\ box[TTY].body.p1 = u
Queued(u) == Cardinality({i \in Index : q.list[i] # ZERO /\ q.list[i].source = u})
Answered(u) == pc[u] = "returned" /\ wait[u] = IPC!Free

Places(u) ==
  LET one(P) == IF P THEN 1 ELSE 0
  IN  one(wait[u].op = "send") + one(HeldByFS(u)) + Queued(u)
      + one(AnswerAtTTY(u)) + one(AnswerAtFS(u)) + one(Answered(u))

InTtyCall(u) == pc[u] # "user" /\ call[u].function \in OnTty

\* While a user process is in a system call on its terminal, the call is in
\* exactly one place on its way through FS, the ring buffer and TTY0; outside
\* a call it is nowhere.  Nothing is lost, served twice or answered twice.
InOnePlace ==
  \A u \in Users : /\ InTtyCall(u) => Places(u) = 1
                   /\ pc[u] = "user" => Places(u) = 0

\* What a system call returns is the result of that call: not of another
\* process's, not of an earlier one.
RightAnswer ==
  \A u \in Users : Answered(u) =>
    /\ box[u].source = FS
    /\ box[u].body = Msg("justamsg", call[u].p1, 0)

\* TTY0 sleeps although there is a request for it.
Asleep == wait[TTY].op = "recv" /\ ~ioqueue_isempty

\* Every system call on the terminal returns, unless TTY0 has gone to sleep
\* on a request; that is the only thing that can stop it.
AnsweredUnlessAsleep ==
  \A u \in Users : InTtyCall(u) ~> Answered(u) \/ Asleep

\* "reply to user proc only after confirmation response from TTY/SD is
\* received before which user proc blocks" (fs.c): every call is answered.
EveryCallAnswered == \A u \in Users : pc[u] = "sent" ~> Answered(u)
=============================================================================
