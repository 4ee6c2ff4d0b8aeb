------------------------------ MODULE MCProcess ------------------------------
(***************************************************************************)
(* The shipped configuration of pseudOS, scaled down: one idle process, the *)
(* user process that loadelf creates (it gets the lowest free pid, 2), FS   *)
(* (3), TTY0 (4), and entry 5 for FSS0, which FS notifies but nobody        *)
(* registers.                                                              *)
(***************************************************************************)
EXTENDS ProcessRefinement

MCSendsTo      == {<<2, 3>>, <<4, 3>>, <<3, 2>>}
MCNotifiesTo   == {<<3, 4>>, <<3, 5>>}
MCReceivesFrom == {<<2, 3>>, <<3, IPC_TARGET_ANY>>, <<4, IPC_TARGET_ANY>>}
=============================================================================
