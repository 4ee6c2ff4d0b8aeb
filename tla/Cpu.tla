-------------------------------- MODULE Cpu --------------------------------
(***************************************************************************)
(* The multi-cycle processor (pCPU/src/rtl/riscv-multicyc.v), one clock    *)
(* edge per step: its phases, the program counter and the instruction      *)
(* register, and the traps.  The datapath (registers, ALU) is left out: a  *)
(* branch on data may go either way.  Instructions are the records that    *)
(* module Isa describes, with one more field: a store to the mask register *)
(* of the interrupt unit has the field mask.  MemReady and RV32MReady are  *)
(* inputs, free in every clock.                                            *)
(***************************************************************************)
EXTENDS Privilege

CONSTANTS
  Code,        \* the program: a function from addresses to instructions
  START_ADDR,  \* where the processor starts
  mtvec        \* the trap vector that setupIRQ installs

VARIABLES
  phase,
  phase_return,    \* the phase after MEM_WAIT
  pc, oldpc,
  instruction,
  mcause_code_out  \* cause of the latest ecall or ebreak that was decoded

cpuVars == <<phase, phase_return, pc, oldpc, instruction, mcause_code_out>>

Phase == {"IF", "ID_RF", "EX", "MEM", "EXU", "MEMU", "WB", "MEM_WAIT",
          "RV32M_WAIT", "INTERRUPT", "EXCEPTION", "MRET"}

Instructions == {Code[a] : a \in DOMAIN Code}

CpuTypeOK ==
  /\ phase \in Phase
  /\ phase_return \in {"IF", "ID_RF", "EXU", "WB"}
  /\ pc \in Nat /\ oldpc \in Nat
  /\ instruction \in Instructions
  /\ mcause_code_out \in {3, 11}

CpuInit ==
  /\ phase = "IF"
  /\ phase_return = "IF"
  /\ pc = START_ADDR /\ oldpc = START_ADDR
  /\ instruction = Code[START_ADDR]
  /\ mcause_code_out = 11

-----------------------------------------------------------------------------
\* Control signals to privilege.v and to the bus.
int_reply == phase = "INTERRUPT"

\* A store to the mask register of the interrupt unit is on the bus.
StoresMask == phase = "MEM" /\ "mask" \in DOMAIN instruction

op == instruction.op

\* Fetch.  The bus word that IF latches while memory is not ready is replaced
\* before it is decoded; the old instruction stands for it.
InstrFetch ==
  /\ phase = "IF"
  /\ \/ /\ phase' = "ID_RF"
        /\ instruction' = Code[pc]
        /\ UNCHANGED phase_return
     \/ /\ phase' = "MEM_WAIT"
        /\ phase_return' = "ID_RF"
        /\ UNCHANGED instruction
  /\ UNCHANGED <<pc, oldpc>>
  /\ NoTrap

\* Decode.  A pending interrupt is looked at here and nowhere else.
DecodePhase ==
  CASE interrupt -> "INTERRUPT"
    [] ~interrupt /\ op = "FENCE" -> "IF"
    [] ~interrupt /\ op = "MRET" -> "MRET"
    [] ~interrupt /\ op \in {"EBREAK", "ECALL"} -> "EXCEPTION"
    [] ~interrupt /\ op \in {"LUI", "JAL"} -> "WB"
    [] OTHER -> "EX"

Decode ==
  /\ phase = "ID_RF"
  /\ phase' = DecodePhase
  /\ pc' = pc + 1
  /\ oldpc' = pc
  /\ UNCHANGED <<phase_return, instruction>>
  /\ NoTrap

Ex ==
  /\ phase = "EX"
  /\ phase' = CASE op \in {"LOAD", "SW", "SB"} -> "MEM"
                [] op = "MUL" -> "RV32M_WAIT"
                [] OTHER -> "WB"
  /\ UNCHANGED <<phase_return, pc, oldpc, instruction>>
  /\ NoTrap

RV32MWait ==
  /\ phase = "RV32M_WAIT"
  /\ phase' \in {"WB", "RV32M_WAIT"}
  /\ UNCHANGED <<phase_return, pc, oldpc, instruction>>
  /\ NoTrap

\* SB and SH read the word first, change it in EXU and write it in MEMU.
Mem ==
  /\ phase = "MEM"
  /\ phase' = "MEM_WAIT"
  /\ phase_return' = CASE op = "LOAD" -> "WB" [] op = "SB" -> "EXU" [] OTHER -> "IF"
  /\ UNCHANGED <<pc, oldpc, instruction>>
  /\ NoTrap

Exu ==
  /\ phase = "EXU"
  /\ phase' = "MEMU"
  /\ UNCHANGED <<phase_return, pc, oldpc, instruction>>
  /\ NoTrap

\* Mutant: the second access of SB returns to the wait.
Memu_ReturnWait ==
  /\ phase = "MEMU"
  /\ phase' = "MEM_WAIT"
  /\ phase_return' = "MEM_WAIT"
  /\ UNCHANGED <<pc, oldpc, instruction>>
  /\ NoTrap

Memu ==
  /\ phase = "MEMU"
  /\ phase' = "MEM_WAIT"
  /\ phase_return' = "IF"
  /\ UNCHANGED <<pc, oldpc, instruction>>
  /\ NoTrap

MemWait ==
  /\ phase = "MEM_WAIT"
  /\ \/ /\ phase' = phase_return
        /\ instruction' = IF phase_return = "ID_RF" THEN Code[pc] ELSE instruction
     \/ UNCHANGED <<phase, instruction>>
  /\ UNCHANGED <<phase_return, pc, oldpc>>
  /\ NoTrap

\* Whether the instruction in WB replaces pc, which already points at the next
\* one: jumps do, branches according to what they test.
Jumps ==
  CASE op \in {"JAL", "JALR"} -> {TRUE}
    [] op = "BR" /\ instruction.on = "data" -> BOOLEAN
    [] op = "BR" /\ instruction.on = "ecall" -> {mcause = [int |-> FALSE, code |-> 11]}
    [] op = "BR" /\ instruction.on = "timer" -> {mcause = [int |-> TRUE, code |-> M_TIMER]}
    [] OTHER -> {FALSE}

\* The handler's csrr mepc, addi, csrw mepc is one CSR instruction here.
WriteBack ==
  /\ phase = "WB"
  /\ phase' = "IF"
  /\ \E jumps \in Jumps :
       /\ pc' = IF jumps THEN instruction.to ELSE pc
       /\ oldpc' = IF jumps THEN pc ELSE oldpc
  /\ UNCHANGED <<phase_return, instruction>>
  /\ IF op = "CSR"
       THEN CsrWrite(instruction.csr,
                     IF instruction.csr = "mepc" THEN mepc + 1 ELSE instruction.d)
       ELSE NoTrap

\* Mutant: PCOutSrc of an exception.
InterruptPhase_NextOp ==
  /\ phase = "INTERRUPT"
  /\ phase' = "IF"
  /\ pc' = mtvec
  /\ oldpc' = pc
  /\ OnExcEnter(TRUE, pc, mcause_code_out)
  /\ UNCHANGED <<phase_return, instruction>>

\* Redo the current instruction after the handler.
InterruptPhase ==
  /\ phase = "INTERRUPT"
  /\ phase' = "IF"
  /\ pc' = mtvec
  /\ oldpc' = pc
  /\ OnExcEnter(TRUE, oldpc, mcause_code_out)
  /\ UNCHANGED <<phase_return, instruction>>

\* Mutant: PCOutSrc of an interrupt.
ExceptionPhase_RedoOp ==
  /\ phase = "EXCEPTION"
  /\ phase' = "IF"
  /\ pc' = mtvec
  /\ oldpc' = pc
  /\ OnExcEnter(FALSE, oldpc, mcause_code_out)
  /\ UNCHANGED <<phase_return, instruction>>

\* Go on to the next instruction after the handler.
ExceptionPhase ==
  /\ phase = "EXCEPTION"
  /\ phase' = "IF"
  /\ pc' = mtvec
  /\ oldpc' = pc
  /\ OnExcEnter(FALSE, pc, mcause_code_out)
  /\ UNCHANGED <<phase_return, instruction>>

MretPhase ==
  /\ phase = "MRET"
  /\ phase' = "IF"
  /\ pc' = mepc_reg
  /\ oldpc' = pc
  /\ OnExcLeave
  /\ UNCHANGED <<phase_return, instruction>>

\* A clock edge of the CPU with privilege.v inside it.
CpuClock(e, istimer) ==
  /\ mcause_code_out' = CASE op = "EBREAK" -> 3 [] op = "ECALL" -> 11
                          [] OTHER -> mcause_code_out
  /\ PVClock(e, istimer, int_reply)
  /\ \/ InstrFetch \/ Decode \/ Ex \/ RV32MWait \/ Mem \/ Exu \/ Memu \/ MemWait
     \/ WriteBack \/ InterruptPhase \/ ExceptionPhase \/ MretPhase

=============================================================================
