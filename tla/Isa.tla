-------------------------------- MODULE Isa --------------------------------
(***************************************************************************)
(* What the processor promises to software, one instruction per step: an   *)
(* instruction executes completely or not at all, a trap is taken between  *)
(* two instructions, an interrupt only while mstatus.MIE is set, and mret  *)
(* goes back to the instruction that the interrupt displaced.  An          *)
(* instruction is a record whose op says how it uses the machine; the      *)
(* other fields exist where they are needed:                               *)
(*   to    target of a jump or a taken branch                              *)
(*   on    what a branch tests: mcause is "ecall" or "timer", or data that *)
(*         is not modelled ("data")                                        *)
(*   csr,d the register a CSR instruction writes, and the value            *)
(***************************************************************************)
EXTENDS Naturals

CONSTANTS
  Code,        \* the program: a function from addresses to instructions
  START_ADDR,  \* where the processor starts
  mtvec        \* where the trap handler starts

VARIABLES pc, MIE, MPIE, mie, mepc, mcause

isaVars == <<pc, MIE, MPIE, mie, mepc, mcause>>

Ecall == [int |-> FALSE, code |-> 11]
Timer == [int |-> TRUE, code |-> 7]
External == [int |-> TRUE, code |-> 11]
Breakpoint == [int |-> FALSE, code |-> 3]

Init ==
  /\ pc = START_ADDR
  /\ MIE = FALSE /\ MPIE = TRUE
  /\ mie = {}
  /\ mepc = 0
  /\ mcause = [int |-> FALSE, code |-> 0]

\* Where the instruction at pc may continue when it does not trap.
Successors ==
  LET i == Code[pc] IN
  CASE i.op \in {"JAL", "JALR"} -> {i.to}
    [] i.op = "BR" /\ i.on = "data" -> {i.to, pc + 1}
    [] i.op = "BR" /\ i.on = "ecall" -> {IF mcause = Ecall THEN i.to ELSE pc + 1}
    [] i.op = "BR" /\ i.on = "timer" -> {IF mcause = Timer THEN i.to ELSE pc + 1}
    [] OTHER -> {pc + 1}

Execute ==
  /\ Code[pc].op \notin {"ECALL", "EBREAK", "MRET"}
  /\ pc' \in Successors
  /\ IF Code[pc].op = "CSR"
       THEN LET i == Code[pc] IN
            /\ MIE' = IF i.csr = "mstatus" THEN i.d.MIE ELSE MIE
            /\ MPIE' = IF i.csr = "mstatus" THEN i.d.MPIE ELSE MPIE
            /\ mie' = IF i.csr = "mie" THEN i.d ELSE mie
            /\ mepc' = IF i.csr = "mepc" THEN mepc + 1 ELSE mepc
       ELSE UNCHANGED <<MIE, MPIE, mie, mepc>>
  /\ UNCHANGED mcause

Trap(cause, return) ==
  /\ pc' = mtvec
  /\ mepc' = return
  /\ mcause' = cause
  /\ MPIE' = MIE
  /\ MIE' = FALSE
  /\ UNCHANGED mie

\* ecall and ebreak save the address of the instruction after them.
Exception ==
  \/ Code[pc].op = "ECALL" /\ Trap(Ecall, pc + 1)
  \/ Code[pc].op = "EBREAK" /\ Trap(Breakpoint, pc + 1)

\* An interrupt displaces the instruction at pc.
Interrupt ==
  \/ "mtie" \in mie /\ Trap(Timer, pc)
  \/ "meie" \in mie /\ Trap(External, pc)

Mret ==
  /\ Code[pc].op = "MRET"
  /\ pc' = mepc
  /\ MIE' = MPIE
  /\ MPIE' = TRUE
  /\ UNCHANGED <<mie, mepc, mcause>>

Next == Execute \/ Exception \/ Mret \/ (MIE /\ Interrupt)

Spec == Init /\ [][Next]_isaVars

\* A weaker promise: traps are precise, but interrupts may come at any time.
PreciseSpec == Init /\ [][Execute \/ Exception \/ Mret \/ Interrupt]_isaVars

=============================================================================
