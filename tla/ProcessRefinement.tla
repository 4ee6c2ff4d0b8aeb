-------------------------- MODULE ProcessRefinement --------------------------
(***************************************************************************)
(* The process manager implements the rendezvous that processes rely on.   *)
(***************************************************************************)
EXTENDS ProcessInv, Sequences

\* A process that is received from by name exists: user processes receive from
\* FS, which prepare_processes registers before anybody runs.
ASSUME ServerAssumption ==
  \A e \in ReceivesFrom : e[2] = IPC_TARGET_ANY \/ e[2] \in Daemons

\* The sending queue of d as a sequence, oldest sender first.  QueueExact says
\* that no queue has a third entry.
SenderSeq(d) ==
  LET h == queue_sending[d]
      t == queue_sending_next[h]
  IN  IF h = NULL THEN <<>> ELSE IF t = NULL THEN <<h>> ELSE <<h, t>>

Waits(p) ==
  CASE state[p] = "SENDING"   -> [op |-> "send", peer |-> p_sendto[p]]
    [] state[p] = "RECEIVING" -> [op |-> "recv", peer |-> p_recvfrom[p]]
    [] OTHER                  -> [op |-> "none", peer |-> IPC_TARGET_ANY]

R == INSTANCE Rendezvous WITH
       Procs   <- Slots,
       Body    <- Payload,
       ANY     <- IPC_TARGET_ANY,
       wait    <- [p \in Slots |-> Waits(p)],
       senders <- [d \in Slots |-> SenderSeq(d)],
       box     <- buf

\* Every trap handler, with its queue surgery and its context switch, is one
\* step of the abstract rendezvous or invisible to it: messages go to who was
\* named, unchanged and once, and blocked senders are served first come, first
\* served.
ImplementsRendezvous == R!RSpec
=============================================================================
