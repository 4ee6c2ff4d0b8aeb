----------------------------- MODULE MCIpcQueue -----------------------------
(***************************************************************************)
(* A call pattern beyond the two senders that the queue code copes with.   *)
(***************************************************************************)
EXTENDS Process

\* Two user processes (the second is commented out in loadelf) and TTY0 send
\* to FS: users 2 and 3, FS 4, TTY0 5.
TwoUserSends    == {<<2, 4>>, <<3, 4>>, <<5, 4>>, <<4, 2>>, <<4, 3>>}
TwoUserNotifies == {<<4, 5>>}
TwoUserReceives == {<<2, 4>>, <<3, 4>>, <<4, IPC_TARGET_ANY>>, <<5, IPC_TARGET_ANY>>}
=============================================================================
