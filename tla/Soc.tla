-------------------------------- MODULE Soc --------------------------------
(***************************************************************************)
(* The processor and the interrupt unit, clocked together, with devices    *)
(* that pulse their request lines whenever they like: the wiring of        *)
(* pcpu_main.v.  The program is the trap handler of pseudOS (isr_asm and   *)
(* interrupt_service_routine, reduced to what they do with the trap) and a *)
(* piece of code that it interrupts.                                       *)
(***************************************************************************)
EXTENDS Cpu, InterruptUnit

CONSTANT Lines   \* the devices whose request lines are connected

ASSUME LinesAssumption == Lines \subseteq Device

\* What the programs have in common.  mie is written by setupIRQ only, with both
\* bits; mstatus is written with MIE set only together with MPIE.
ASSUME ProgramAssumption ==
  /\ DOMAIN Code \subseteq Nat /\ START_ADDR \in DOMAIN Code /\ mtvec \in DOMAIN Code
  /\ \A a \in DOMAIN Code :
       LET i == Code[a] IN
       /\ i.op \in {"BR", "JAL", "JALR"} => i.to \in Nat
       /\ i.op = "CSR" => i.csr \in {"mstatus", "mie", "mepc"}
       /\ i.op = "CSR" /\ i.csr = "mstatus" =>
            i.d \in [MIE : BOOLEAN, MPIE : BOOLEAN] /\ (i.d.MIE => i.d.MPIE)
       /\ i.op = "CSR" /\ i.csr = "mie" => i.d = {"meie", "mtie"}
       /\ "mask" \in DOMAIN i => i.mask \subseteq Device

VARIABLE since   \* history: instructions completed since MIE was last cleared

vars == <<iuVars, pvVars, cpuVars, since>>

\* No more than that is told apart.
SINCE_MAX == 2

TypeOK == IUTypeOK /\ PVTypeOK /\ CpuTypeOK /\ since \in 0 .. SINCE_MAX

Init == IUInit /\ PVInit /\ CpuInit /\ since = 0

\* Whatever the instruction, the clock that completes it is the one that leads to a
\* fetch; cli, ecall and ebreak and a trap clear MIE in that clock.
CountSince ==
  since' = IF MIE /\ ~MIE' THEN 0
           ELSE IF phase' = "IF" /\ since < SINCE_MAX THEN since + 1 ELSE since

\* A request is a pulse of a single clock (designs.md:5), so no line is high
\* twice in a row.
Clock ==
  \E irq \in SUBSET (Lines \ i_reg) :
    /\ IUClock(irq, eip_reply, IF StoresMask THEN instruction.mask ELSE i_mask)
    /\ CpuClock(eip, eip_istimer)
    /\ CountSince

Next == Clock

Spec == Init /\ [][Next]_vars

\* The clock runs, memory answers, and so does the multiplier.
MemAnswers == Clock /\ phase = "MEM_WAIT" /\ phase' # "MEM_WAIT"
RV32MAnswers == Clock /\ phase = "RV32M_WAIT" /\ phase' # "RV32M_WAIT"

FairSpec ==
  Spec /\ WF_vars(Clock) /\ WF_vars(MemAnswers) /\ WF_vars(RV32MAnswers)

-----------------------------------------------------------------------------
\* The handler, at mtvec: save the registers, tell the cause, load the number
\* of the device (interrupt_ctrl[1]) for an external interrupt, add 4 to mepc
\* for an ecall, return.
isr_asm ==
  <<[op |-> "SW"],
    [op |-> "BR", on |-> "ecall", to |-> mtvec + 5],
    [op |-> "BR", on |-> "timer", to |-> mtvec + 6],
    [op |-> "LOAD", reads |-> "current_irq_dev"],
    [op |-> "JAL", to |-> mtvec + 6],
    [op |-> "CSR", csr |-> "mepc"],
    [op |-> "MRET"]>>

\* A call of csrw_mstatus or csrw_mie: jump there, write the register, return.  The
\* two instructions of the function are laid out behind the call, once for every call:
\* what it is given in a0, and where it returns to, are then fixed.
Call(at, csr, value) ==
  <<[op |-> "JAL", to |-> at + 1],
    [op |-> "CSR", csr |-> csr, d |-> value],
    [op |-> "JALR", to |-> at + 3]>>

\* cli and sti, called at an address.
cli(at) == Call(at, "mstatus", [MIE |-> FALSE, MPIE |-> FALSE])
sti(at) == Call(at, "mstatus", [MIE |-> TRUE, MPIE |-> TRUE])

\* setupIRQ: unmask every device, then mstatus, then mie.
setupIRQ ==
  <<[op |-> "SW", mask |-> {}]>> \o Call(2, "mstatus", [MIE |-> TRUE, MPIE |-> TRUE])
                                \o Call(5, "mie", {"meie", "mtie"})

\* The memory image: setupIRQ at 1, then the interrupted code, then isr_asm.
Image(user) == setupIRQ \o user \o isr_asm

IsrAddress == mtvec .. mtvec + Len(isr_asm) - 1

-----------------------------------------------------------------------------
\* The address of the instruction that is being executed: pc until decode has
\* moved it on.
ArchPc ==
  IF phase \in {"IF", "ID_RF"} \/ (phase = "MEM_WAIT" /\ phase_return = "ID_RF")
    THEN pc
    ELSE oldpc

ISA == INSTANCE Isa WITH pc <- ArchPc

\* The clocked processor implements the instruction set: no instruction is
\* skipped, repeated or cut by a trap, an interrupt is taken only while
\* mstatus.MIE is set, saves the instruction it displaced ("interrupt -- redo
\* current op", riscv-multicyc.v:617) and mret resumes there.
ImplementsISA == ISA!Spec

\* While privilege.v issues a request, the interrupt unit still holds it up, and
\* holds up the same one ("assert high until int_reply is high", designs.md:7).
RequestHeld ==
  pv_state = "ISSUE" => eip /\ (int_source = "timer" <=> eip_istimer)

\* A timer tick that was saved reaches the handler as a timer interrupt, whatever
\* the other devices do: none is stuck between the two state machines.
TickServed ==
  ("timer" \in i_save) ~>
    (phase = "INTERRUPT" /\ mcause_i_code = M_TIMER)

\* In a program that also turns interrupts off, by ecall or by cli, traps are
\* still precise: what a late interrupt displaces is executed later, once.
TrapsPrecise == ISA!PreciseSpec

\* Interrupts that come late, after ecall or cli has cleared MIE, displace one of
\* the two instructions that are executed next, never a later one, wherever those
\* are: the delay of privilege.v is that short.  cli returns from its function with
\* the first of them, so the code behind the call may still be displaced, but once
\* an instruction of it has been executed it is not.
LateByTwoInstructions == phase = "INTERRUPT" /\ ~MIE => since < SINCE_MAX

-----------------------------------------------------------------------------
\* A statement of a comment that the code does not keep.

\* "so no re-entrant" (sdboot.S:160): the handler, whose save area is one fixed
\* address, is not interrupted.
NotReentered == phase = "INTERRUPT" => oldpc \notin IsrAddress
=============================================================================
