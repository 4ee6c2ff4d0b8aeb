------------------------------- MODULE MCFsTty -------------------------------
(***************************************************************************)
(* Terminal calls with the pids of kernel/global.h and a short queue.      *)
(***************************************************************************)
EXTENDS FsTty

AllCalls   == {<<"writev", 1>>, <<"openat", 0>>}
WriteCalls == {<<"writev", 1>>}

Quests  == [source : Users, body : {Msg(c[1], c[2], t) : c \in Calls, t \in {0, 1}}]
ZeroMsg == [source |-> 0, body |-> Msg("zero", 0, 0)]
AnyPid  == -363
=============================================================================
