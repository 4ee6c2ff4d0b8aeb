------------------------------- MODULE MCSoc -------------------------------
(* Programs for module Soc.  setupIRQ occupies the addresses 1 to 7, the     *)
(* interrupted code starts at 8, and the handler follows it.                 *)
EXTENDS Soc

\* Instructions of every kind that leave mstatus alone; the handler has more.
PlainUser ==
  <<[op |-> "SB"], [op |-> "MUL"], [op |-> "BR", on |-> "data", to |-> 8],
    [op |-> "FENCE"], [op |-> "JAL", to |-> 8]>>
PlainCode == Image(PlainUser)

\* A program that turns interrupts off in every way there is: cli, around a critical
\* section of one short instruction, and ecall (whose handler skips an instruction).
MixedUser ==
  cli(8) \o <<[op |-> "FENCE"]>> \o sti(12)
    \o <<[op |-> "ECALL"], [op |-> "R"], [op |-> "JAL", to |-> 8]>>
MixedCode == Image(MixedUser)

\* A process that makes system calls.
EcallUser ==
  <<[op |-> "R"], [op |-> "ECALL"], [op |-> "JAL", to |-> 8],
    [op |-> "JAL", to |-> 8]>>
EcallCode == Image(EcallUser)
=============================================================================
