----------------------------- MODULE SocProofs -----------------------------
(***************************************************************************)
(* Processor, privilege.v and interrupt unit.                              *)
(*                                                                         *)
(* For every program and every set of devices: the request that            *)
(* privilege.v hands to the CPU is the one the interrupt unit holds up.    *)
(* The two machines and the CPU answer each other through registered       *)
(* signals; the proof is the order in which those registers can be set.    *)
(*                                                                         *)
(* For every program of ProgramAssumption: the clocked processor           *)
(* implements the instruction set with precise traps, and an interrupt     *)
(* displaces at the latest the second instruction that is executed after   *)
(* mstatus.MIE was cleared, jumps or not.  The invariant says which        *)
(* instruction each phase works for, and what of an interrupt is still     *)
(* under way when MIE is 0.                                                *)
(***************************************************************************)
EXTENDS Soc, TLAPS

\* The signals of one interrupt: eip_reply in the first clock of REPLY, while
\* the CPU has not answered; iu_int_reply_reg one clock later; the CPU's answer
\* not before that, seen by privilege.v when the CPU fetches from the handler.
ReplyOrder ==
  /\ pv_state \in {"IDLE", "ISSUE", "REPLY", "END"}
  /\ interrupt => pv_state = "REPLY"
  /\ eip_reply => pv_state = "REPLY" /\ ~pv_int_reply_reg /\ phase # "INTERRUPT"
  /\ iu_int_reply_reg => pv_state = "REPLY" /\ ~pv_int_reply_reg /\ ~eip_reply
  /\ phase = "INTERRUPT" =>
       pv_state = "REPLY" /\ ~eip_reply /\ ~pv_int_reply_reg
  /\ pv_int_reply_reg => phase = "IF" /\ pv_state = "REPLY"

\* The phase after a wait is not a trap.
NoTrapAfterWait == phase_return \in {"IF", "ID_RF", "EXU", "WB"}

\* What was seen one clock ago is still up when it is acted upon.
PendingHeld ==
  (pv_state = "IDLE" /\ int_pending) =>
    eip /\ seen = IF eip_istimer THEN {"timer"} ELSE {"external"}

\* The timer flag rises and falls with the request (designs.md:9), so an
\* external interrupt is never delivered as a timer tick.
TimerFlagWithRequest == eip_istimer => eip

IInv ==
  /\ ReplyOrder
  /\ NoTrapAfterWait
  /\ PendingHeld
  /\ RequestHeld
  /\ TimerFlagWithRequest
  /\ iu_state \in {"IDLE", "ISSUE"}
  /\ int_istimer_reg \in BOOLEAN

-----------------------------------------------------------------------------
\* A phase leads to INTERRUPT from decode only, with the interrupt up, and from
\* INTERRUPT the CPU fetches.
LEMMA PhaseSteps ==
  ASSUME NoTrapAfterWait, CpuClock(eip, eip_istimer)
  PROVE  /\ phase' = "INTERRUPT" => phase = "ID_RF" /\ interrupt
         /\ phase = "INTERRUPT" => phase' = "IF"
         /\ NoTrapAfterWait'
<1> USE DEF NoTrapAfterWait
<1>1. CASE InstrFetch BY <1>1 DEF InstrFetch
<1>2. CASE Decode BY <1>2 DEF Decode, DecodePhase
<1>3. CASE Ex BY <1>3 DEF Ex
<1>4. CASE RV32MWait BY <1>4 DEF RV32MWait
<1>5. CASE Mem BY <1>5 DEF Mem
<1>6. CASE Exu BY <1>6 DEF Exu
<1>7. CASE Memu BY <1>7 DEF Memu
<1>8. CASE MemWait BY <1>8 DEF MemWait
<1>9. CASE WriteBack BY <1>9 DEF WriteBack
<1>10. CASE InterruptPhase BY <1>10 DEF InterruptPhase
<1>11. CASE ExceptionPhase BY <1>11 DEF ExceptionPhase
<1>12. CASE MretPhase BY <1>12 DEF MretPhase
<1> QED
  BY <1>1, <1>2, <1>3, <1>4, <1>5, <1>6, <1>7, <1>8, <1>9, <1>10, <1>11, <1>12
  DEF CpuClock

\* The interrupt unit gives a request up only after an answer.
LEMMA UnitSteps ==
  ASSUME IInv, NEW irq, NEW mask, IUClock(irq, eip_reply, mask)
  PROVE  /\ iu_int_reply_reg' = eip_reply
         /\ TimerFlagWithRequest'
         /\ iu_state' \in {"IDLE", "ISSUE"}
         /\ int_istimer_reg' \in BOOLEAN
         /\ eip /\ ~iu_int_reply_reg => eip' /\ eip_istimer' = eip_istimer
<1> USE DEF IInv, TimerFlagWithRequest, eip, eip_istimer
<1>1. CASE Issue BY <1>1 DEF IUClock, Issue
<1>2. CASE Replied BY <1>2 DEF IUClock, Replied
<1>3. CASE Gather BY <1>3 DEF IUClock, Gather
<1> QED BY <1>1, <1>2, <1>3 DEF IUClock

\* After reset no signal of an interrupt is up.
THEOREM Initially == Init => IInv
  BY DEF Init, IInv, IUInit, PVInit, CpuInit, ReplyOrder, NoTrapAfterWait,
         PendingHeld, RequestHeld, TimerFlagWithRequest, eip, eip_istimer

\* A clock edge of the three units together keeps their signals in order, whatever
\* the devices request and whatever instruction the CPU is executing.
THEOREM Inductive == IInv /\ [Next]_vars => IInv'
<1> SUFFICES ASSUME IInv, [Next]_vars PROVE IInv'
  OBVIOUS
<1>1. CASE Clock
  <2>1. PICK irq \in SUBSET (Lines \ i_reg) :
          /\ IUClock(irq, eip_reply, IF StoresMask THEN instruction.mask ELSE i_mask)
          /\ CpuClock(eip, eip_istimer)
          /\ CountSince
    BY <1>1 DEF Clock
  <2>2. /\ phase' = "INTERRUPT" => phase = "ID_RF" /\ interrupt
        /\ phase = "INTERRUPT" => phase' = "IF"
        /\ NoTrapAfterWait'
    BY <2>1, PhaseSteps DEF IInv
  <2>3. /\ iu_int_reply_reg' = eip_reply
        /\ TimerFlagWithRequest'
        /\ iu_state' \in {"IDLE", "ISSUE"}
        /\ int_istimer_reg' \in BOOLEAN
        /\ eip /\ ~iu_int_reply_reg => eip' /\ eip_istimer' = eip_istimer
    BY <2>1, UnitSteps
  <2>4. /\ pv_int_reply_reg' = (phase = "INTERRUPT")
        /\ seen' = Enabled(eip, eip_istimer)
        /\ int_pending' = (MIE /\ Enabled(eip, eip_istimer) # {})
        /\ IntIdle \/ IntIssue \/ IntReply \/ IntEnd
    BY <2>1 DEF CpuClock, PVClock, int_reply
  <2>5. ReplyOrder'
    <3>1. CASE IntIdle BY <2>2, <2>3, <2>4, <3>1 DEF IInv, ReplyOrder, IntIdle
    <3>2. CASE IntIssue BY <2>2, <2>3, <2>4, <3>2 DEF IInv, ReplyOrder, IntIssue
    <3>3. CASE IntReply BY <2>2, <2>3, <2>4, <3>3 DEF IInv, ReplyOrder, IntReply
    <3>4. CASE IntEnd BY <2>2, <2>3, <2>4, <3>4 DEF IInv, ReplyOrder, IntEnd
    <3> QED BY <2>4, <3>1, <3>2, <3>3, <3>4
  <2>6. int_pending' => eip /\ seen' = IF eip_istimer THEN {"timer"} ELSE {"external"}
    BY <2>4 DEF Enabled
  <2>7. PendingHeld'
    <3>1. CASE IntIdle
      BY <2>3, <2>6, <3>1 DEF IInv, ReplyOrder, PendingHeld, IntIdle
    <3>2. CASE IntIssue BY <3>2 DEF IntIssue, PendingHeld
    <3>3. CASE IntReply BY <3>3 DEF IntReply, PendingHeld
    <3>4. CASE IntEnd
      BY <2>3, <2>6, <3>4 DEF IInv, ReplyOrder, PendingHeld, IntEnd
    <3> QED BY <2>4, <3>1, <3>2, <3>3, <3>4
  <2>8. RequestHeld'
    <3>1. CASE IntIdle
      BY <2>3, <3>1 DEF IInv, ReplyOrder, PendingHeld, RequestHeld, IntIdle
    <3>2. CASE IntIssue BY <3>2 DEF IntIssue, RequestHeld
    <3>3. CASE IntReply BY <3>3 DEF IntReply, RequestHeld
    <3>4. CASE IntEnd BY <3>4 DEF IntEnd, RequestHeld
    <3> QED BY <2>4, <3>1, <3>2, <3>3, <3>4
  <2> QED BY <2>2, <2>3, <2>5, <2>7, <2>8 DEF IInv
<1>2. CASE UNCHANGED vars
  BY <1>2 DEF vars, iuVars, pvVars, cpuVars, IInv, ReplyOrder, NoTrapAfterWait,
     PendingHeld, RequestHeld, TimerFlagWithRequest, eip, eip_istimer
<1> QED BY <1>1, <1>2 DEF Next

\* The signals of privilege.v, the interrupt unit and the CPU stay in order.
THEOREM Invariance == Spec => []IInv
  BY Initially, Inductive, PTL DEF Spec

\* The request that privilege.v issues is held up by the interrupt unit, with the
\* right source, for every program and every behaviour of the devices.
THEOREM RequestIsHeld == Spec => []RequestHeld
<1>1. IInv => RequestHeld BY DEF IInv
<1> QED BY <1>1, Invariance, PTL

-----------------------------------------------------------------------------
(* The instruction set.                                                    *)

\* The program does not run out of its image: what mret returns to is software's
\* business.
InProgram == ArchPc \in DOMAIN Code

\* The instruction at pc has not been decoded yet.
Fetching ==
  phase \in {"IF", "ID_RF"} \/ (phase = "MEM_WAIT" /\ phase_return = "ID_RF")

\* The memory phases of a decoded instruction.
InMemory ==
  phase \in {"MEM", "EXU", "MEMU"} \/ (phase = "MEM_WAIT" /\ phase_return # "ID_RF")

ExecInv ==
  /\ phase = "ID_RF" => instruction = Code[pc]
  /\ ~Fetching => instruction = Code[oldpc] /\ pc = oldpc + 1
  /\ phase \in {"EX", "WB", "RV32M_WAIT"} =>
       op \notin {"ECALL", "EBREAK", "MRET"}
  /\ InMemory => op \in {"LOAD", "SW", "SB"}
  /\ phase = "EXCEPTION" =>
       /\ op \in {"ECALL", "EBREAK"}
       /\ mcause_code_out = IF op = "EBREAK" THEN 3 ELSE 11
  /\ phase = "MRET" => op = "MRET" /\ mepc_reg = mepc

\* The sources that an interrupt may still come from are enabled.
SourceInv ==
  /\ mie \subseteq {"meie", "mtie"}
  /\ "timer" \in seen => "mtie" \in mie
  /\ "external" \in seen => "meie" \in mie
  /\ pv_state = "ISSUE" => IF int_source = "external" THEN "meie" \in mie ELSE "mtie" \in mie
  /\ pv_state = "REPLY" => \/ mcause_i_code = M_EXTERNAL /\ "meie" \in mie
                           \/ mcause_i_code = M_TIMER /\ "mtie" \in mie

\* An interrupt that has been let through and not been answered.
UnderWay ==
  \/ pv_state = "IDLE" /\ int_pending
  \/ pv_state = "ISSUE"
  \/ pv_state = "REPLY" /\ ~pv_int_reply_reg

\* Where the processor is when MIE is 0 and an interrupt is under way: at the first
\* instruction after MIE was cleared, or before the decoding of the second.
LateInv ==
  /\ since \in 0 .. SINCE_MAX
  /\ MIE => MPIE
  /\ pv_state = "REPLY" => interrupt
  /\ ~MIE /\ UnderWay =>
       /\ pv_state = "IDLE" => phase = "IF" /\ since = 0
       /\ pv_state = "ISSUE" => Fetching /\ since = 0
       /\ pv_state = "REPLY" =>
            \/ since = 0
            \/ since = 1 /\ (Fetching \/ phase = "INTERRUPT")
-----------------------------------------------------------------------------
\* Each phase hands the instruction on to the next one.
LEMMA ExecStep ==
  ASSUME NoTrapAfterWait, ExecInv, CpuClock(eip, eip_istimer)
  PROVE  ExecInv'
<1> DEFINE Code3or11 == mcause_code_out' = CASE op = "EBREAK" -> 3 [] op = "ECALL" -> 11
                                             [] OTHER -> mcause_code_out
<1>1. Code3or11 /\ mepc_reg' = mepc
  BY DEF CpuClock, PVClock
<1> USE DEF ExecInv, Fetching, InMemory, op, NoTrapAfterWait
<1>2. CASE InstrFetch BY <1>2 DEF InstrFetch
<1>3. CASE Decode
  <2>1. /\ phase' \in {"INTERRUPT", "IF", "MRET", "EXCEPTION", "WB", "EX"}
        /\ phase' = "MRET" => op = "MRET"
        /\ phase' = "EXCEPTION" => op \in {"ECALL", "EBREAK"}
        /\ phase' \in {"WB", "EX"} => op \notin {"ECALL", "EBREAK", "MRET"}
    BY <1>3 DEF Decode, DecodePhase
  <2>2. /\ instruction' = instruction /\ oldpc' = pc /\ pc' = oldpc' + 1 /\ mepc' = mepc
        /\ instruction = Code[pc]
    BY <1>3 DEF Decode, NoTrap
  <2> QED BY <1>1, <2>1, <2>2
<1>4. CASE Ex BY <1>4 DEF Ex
<1>5. CASE RV32MWait BY <1>5 DEF RV32MWait
<1>6. CASE Mem BY <1>6 DEF Mem
<1>7. CASE Exu BY <1>7 DEF Exu
<1>8. CASE Memu BY <1>8 DEF Memu
<1>9. CASE MemWait
  <2>1. CASE phase' = phase /\ instruction' = instruction
    BY <1>9, <2>1 DEF MemWait
  <2>2. CASE /\ phase' = phase_return
             /\ instruction' = IF phase_return = "ID_RF" THEN Code[pc] ELSE instruction
    <3>1. CASE phase_return = "ID_RF" BY <1>9, <2>2, <3>1 DEF MemWait
    <3>2. CASE phase_return # "ID_RF" BY <1>9, <2>2, <3>2 DEF MemWait
    <3> QED BY <3>1, <3>2
  <2> QED BY <1>9, <2>1, <2>2 DEF MemWait
<1>10. CASE WriteBack BY <1>10 DEF WriteBack
<1>11. CASE InterruptPhase BY <1>11 DEF InterruptPhase
<1>12. CASE ExceptionPhase BY <1>12 DEF ExceptionPhase
<1>13. CASE MretPhase BY <1>13 DEF MretPhase
<1> QED
  BY <1>2, <1>3, <1>4, <1>5, <1>6, <1>7, <1>8, <1>9, <1>10, <1>11, <1>12, <1>13
  DEF CpuClock

\* What the phases do to the registers of privilege.v.
LEMMA RegisterStep ==
  ASSUME ExecInv, InProgram, CpuClock(eip, eip_istimer)
  PROVE  \/ NoTrap
         \/ /\ phase = "WB" /\ op = "CSR" /\ oldpc \in DOMAIN Code
            /\ instruction = Code[oldpc] /\ phase' = "IF" /\ pc' = pc
            /\ CsrWrite(instruction.csr,
                        IF instruction.csr = "mepc" THEN mepc + 1 ELSE instruction.d)
         \/ phase = "INTERRUPT" /\ InterruptPhase
         \/ phase = "EXCEPTION" /\ ExceptionPhase
         \/ phase = "MRET" /\ MretPhase
<1>1. CASE WriteBack
  <2>1. CASE op = "CSR"
    <3>1. phase = "WB" /\ instruction = Code[oldpc] /\ ArchPc = oldpc
      BY <1>1 DEF WriteBack, ExecInv, Fetching, ArchPc
    <3>2. pc' = pc /\ phase' = "IF"
      BY <1>1, <2>1 DEF WriteBack, Jumps
    <3> QED BY <1>1, <2>1, <3>1, <3>2 DEF InProgram, WriteBack
  <2>2. CASE op # "CSR" BY <1>1, <2>2 DEF WriteBack
  <2> QED BY <2>1, <2>2
<1> QED
  BY <1>1 DEF CpuClock, InstrFetch, Decode, Ex, RV32MWait, Mem, Exu, Memu, MemWait,
              InterruptPhase, ExceptionPhase, MretPhase

\* Software never takes an enable bit back.
LEMMA MieGrows ==
  ASSUME ExecInv, InProgram, SourceInv, CpuClock(eip, eip_istimer)
  PROVE  mie \subseteq mie' /\ mie' \subseteq {"meie", "mtie"}
<1>1. CASE NoTrap BY <1>1 DEF NoTrap, SourceInv
<1>2. CASE /\ op = "CSR" /\ oldpc \in DOMAIN Code /\ instruction = Code[oldpc]
           /\ CsrWrite(instruction.csr,
                       IF instruction.csr = "mepc" THEN mepc + 1 ELSE instruction.d)
  <2>1. CASE instruction.csr = "mie"
    <3>1. mie' = instruction.d BY <1>2, <2>1 DEF CsrWrite
    <3>2. instruction.d = {"meie", "mtie"} BY <1>2, <2>1, ProgramAssumption DEF op
    <3> QED BY <3>1, <3>2 DEF SourceInv
  <2>2. CASE instruction.csr # "mie" BY <1>2, <2>2 DEF CsrWrite, SourceInv
  <2> QED BY <2>1, <2>2
<1>3. CASE mie' = mie BY <1>3 DEF SourceInv
<1> QED
  BY <1>1, <1>2, <1>3, RegisterStep
  DEF InterruptPhase, ExceptionPhase, MretPhase, OnExcEnter, OnExcLeave

\* Whatever comes was enabled when it was seen, and still is.
LEMMA SourceStep ==
  ASSUME IInv, ExecInv, InProgram, SourceInv, CpuClock(eip, eip_istimer)
  PROVE  SourceInv'
<1>1. mie \subseteq mie' /\ mie' \subseteq {"meie", "mtie"} BY MieGrows
<1>2. /\ seen' = Enabled(eip, eip_istimer)
      /\ IntIdle \/ IntIssue \/ IntReply \/ IntEnd
  BY DEF CpuClock, PVClock
<1>3. ("timer" \in seen' => "mtie" \in mie') /\ ("external" \in seen' => "meie" \in mie')
  BY <1>1, <1>2 DEF Enabled
<1>4. CASE IntIdle
  <2>1. pv_state' \in {"IDLE", "ISSUE"} BY <1>4 DEF IntIdle
  <2>2. pv_state' = "ISSUE" =>
          /\ seen # {} /\ seen \subseteq {"timer", "external"}
          /\ int_source' = IF "external" \in seen THEN "external" ELSE "timer"
    BY <1>4 DEF IntIdle, IInv, PendingHeld
  <2>3. pv_state' = "ISSUE" =>
          IF int_source' = "external" THEN "meie" \in mie' ELSE "mtie" \in mie'
    BY <1>1, <2>2 DEF SourceInv
  <2> QED BY <1>1, <1>3, <2>1, <2>3 DEF SourceInv
<1>5. CASE IntIssue
  BY <1>1, <1>3, <1>5 DEF IntIssue, SourceInv
<1>6. CASE IntReply
  BY <1>1, <1>3, <1>6 DEF IntReply, SourceInv
<1>7. CASE IntEnd
  BY <1>1, <1>3, <1>7 DEF IntEnd, SourceInv
<1> QED BY <1>2, <1>4, <1>5, <1>6, <1>7

-----------------------------------------------------------------------------
(* Types.                                                                   *)

\* The device that state IDLE of the interrupt unit picks.
LEMMA FirstSavedIsDevice ==
  ASSUME i_save \in SUBSET Device, i_save # {}
  PROVE  FirstSaved \in Device
<1> DEFINE First4(k) == /\ Priority[k] \in i_save
                        /\ \A j \in 1 .. k - 1 : Priority[j] \notin i_save
<1>1. /\ Priority[1] = "timer" /\ Priority[2] = "uart" /\ Priority[3] = "gpio"
      /\ Priority[4] = "ps2" /\ Len(Priority) = 4
  BY DEF Priority
<1>2. "timer" \in i_save \/ "uart" \in i_save \/ "gpio" \in i_save \/ "ps2" \in i_save
  BY DEF Device
<1>3. \E k \in 1 .. Len(Priority) : First4(k)
  <2>1. CASE "timer" \in i_save
    <3>1. First4(1) BY <1>1, <2>1
    <3> QED BY <1>1, <3>1
  <2>2. CASE "timer" \notin i_save /\ "uart" \in i_save
    <3>1. \A j \in 1 .. 2 - 1 : j = 1 OBVIOUS
    <3>2. First4(2) BY <1>1, <2>2, <3>1
    <3> QED BY <1>1, <3>2
  <2>3. CASE "timer" \notin i_save /\ "uart" \notin i_save /\ "gpio" \in i_save
    <3>1. \A j \in 1 .. 3 - 1 : j = 1 \/ j = 2 OBVIOUS
    <3>2. First4(3) BY <1>1, <2>3, <3>1
    <3> QED BY <1>1, <3>2
  <2>4. CASE /\ "timer" \notin i_save /\ "uart" \notin i_save /\ "gpio" \notin i_save
             /\ "ps2" \in i_save
    <3>1. \A j \in 1 .. 4 - 1 : j = 1 \/ j = 2 \/ j = 3 OBVIOUS
    <3>2. First4(4) BY <1>1, <2>4, <3>1
    <3> QED BY <1>1, <3>2
  <2> QED BY <1>2, <2>1, <2>2, <2>3, <2>4
<1>4. PICK k \in 1 .. Len(Priority) : k = CHOOSE n \in 1 .. Len(Priority) : First4(n)
  BY <1>3
<1>5. FirstSaved = Priority[k]
  BY <1>4 DEF FirstSaved
<1>6. k \in {1, 2, 3, 4} BY <1>1
<1> QED BY <1>1, <1>5, <1>6 DEF Device

LEMMA UnitTypes ==
  ASSUME IUTypeOK, ExecInv, InProgram, NEW irq \in SUBSET (Lines \ i_reg),
         IUClock(irq, eip_reply, IF StoresMask THEN instruction.mask ELSE i_mask),
         eip_reply \in BOOLEAN
  PROVE  IUTypeOK'
<1>1. i_reg' \in SUBSET Device /\ iu_int_reply_reg' \in BOOLEAN
  BY LinesAssumption DEF IUClock
<1>2. i_mask' \in SUBSET Device
  <2>1. CASE StoresMask
    <3>1. oldpc \in DOMAIN Code /\ instruction = Code[oldpc] /\ "mask" \in DOMAIN instruction
      BY <2>1 DEF StoresMask, ExecInv, Fetching, InProgram, ArchPc
    <3>2. instruction.mask \subseteq Device BY <3>1, ProgramAssumption
    <3>3. i_mask' = instruction.mask BY <2>1 DEF IUClock
    <3> QED BY <3>2, <3>3
  <2>2. CASE ~StoresMask BY <2>2 DEF IUClock, IUTypeOK
  <2> QED BY <2>1, <2>2
<1>3. /\ i_save' \in SUBSET Device /\ iu_state' \in {"IDLE", "ISSUE"}
      /\ int_istimer_reg' \in BOOLEAN /\ current_irq_dev' \in 0 .. 4
  <2>1. CASE Issue
    <3>1. FirstSaved \in Device BY <2>1, FirstSavedIsDevice DEF Issue, IUTypeOK
    <3>2. IRQ_DEV[FirstSaved] \in 0 .. 4 BY <3>1 DEF IRQ_DEV, Device
    <3>3. i_save' \in SUBSET Device BY <2>1 DEF Issue, IUTypeOK
    <3> QED BY <2>1, <3>2, <3>3 DEF Issue, IUTypeOK
  <2>2. CASE Replied BY <2>2 DEF Replied, IUTypeOK
  <2>3. CASE Gather BY <2>3 DEF Gather, IUTypeOK
  <2> QED BY <2>1, <2>2, <2>3 DEF IUClock
<1> QED BY <1>1, <1>2, <1>3 DEF IUTypeOK

LEMMA CpuTypes ==
  ASSUME CpuTypeOK, PVTypeOK, ExecInv, InProgram, CpuClock(eip, eip_istimer)
  PROVE  CpuTypeOK'
<1>1. mcause_code_out' \in {3, 11} BY DEF CpuClock, CpuTypeOK
<1>2. Fetching => pc \in DOMAIN Code /\ Code[pc] \in Instructions
  BY DEF InProgram, ArchPc, Fetching, Instructions
<1>3. mtvec \in Nat BY ProgramAssumption
<1> USE DEF CpuTypeOK
<1>4. CASE InstrFetch BY <1>1, <1>2, <1>4 DEF InstrFetch, Phase, Fetching
<1>5. CASE Decode BY <1>1, <1>5 DEF Decode, DecodePhase, Phase
<1>6. CASE Ex BY <1>1, <1>6 DEF Ex, Phase
<1>7. CASE RV32MWait BY <1>1, <1>7 DEF RV32MWait, Phase
<1>8. CASE Mem BY <1>1, <1>8 DEF Mem, Phase
<1>9. CASE Exu BY <1>1, <1>9 DEF Exu, Phase
<1>10. CASE Memu BY <1>1, <1>10 DEF Memu, Phase
<1>11. CASE MemWait BY <1>1, <1>2, <1>11 DEF MemWait, Phase, Fetching
<1>12. CASE WriteBack
  <2>1. PICK jumps \in Jumps : pc' = (IF jumps THEN instruction.to ELSE pc)
                              /\ oldpc' = IF jumps THEN pc ELSE oldpc
    BY <1>12 DEF WriteBack
  <2>2. CASE jumps
    <3>1. op \in {"JAL", "JALR", "BR"} BY <2>1, <2>2 DEF Jumps
    <3>2. oldpc \in DOMAIN Code /\ instruction = Code[oldpc]
      BY <1>12 DEF WriteBack, ExecInv, Fetching, InProgram, ArchPc
    <3>3. instruction.to \in Nat BY <3>1, <3>2, ProgramAssumption DEF op
    <3> QED BY <1>1, <1>12, <2>1, <2>2, <3>3 DEF WriteBack, Phase
  <2>3. CASE ~jumps BY <1>1, <1>12, <2>1, <2>3 DEF WriteBack, Phase
  <2> QED BY <2>2, <2>3
<1>13. CASE InterruptPhase BY <1>1, <1>3, <1>13 DEF InterruptPhase, Phase
<1>14. CASE ExceptionPhase BY <1>1, <1>3, <1>14 DEF ExceptionPhase, Phase
<1>15. CASE MretPhase BY <1>1, <1>15 DEF MretPhase, Phase, PVTypeOK
<1> QED
  BY <1>4, <1>5, <1>6, <1>7, <1>8, <1>9, <1>10, <1>11, <1>12, <1>13, <1>14, <1>15
  DEF CpuClock

LEMMA PrivilegeTypes ==
  ASSUME CpuTypeOK, PVTypeOK, ExecInv, InProgram, SourceInv, CpuClock(eip, eip_istimer)
  PROVE  PVTypeOK'
<1>1. /\ pv_int_reply_reg' \in BOOLEAN /\ seen' \in SUBSET {"timer", "external"}
      /\ int_pending' \in BOOLEAN /\ mepc_reg' \in Nat
      /\ IntIdle \/ IntIssue \/ IntReply \/ IntEnd
  <2>1. pv_int_reply_reg' \in BOOLEAN BY DEF CpuClock, PVClock, int_reply
  <2>2. int_pending' \in BOOLEAN BY DEF CpuClock, PVClock
  <2>3. seen' \in SUBSET {"timer", "external"} BY DEF CpuClock, PVClock, Enabled
  <2> QED BY <2>1, <2>2, <2>3 DEF CpuClock, PVClock, PVTypeOK
<1>2. /\ pv_state' \in {"IDLE", "ISSUE", "REPLY", "END"}
      /\ int_source' \in {"timer", "external"}
      /\ interrupt' \in BOOLEAN /\ eip_reply' \in BOOLEAN
      /\ mcause_i_code' \in {M_TIMER, M_EXTERNAL}
  BY <1>1 DEF IntIdle, IntIssue, IntReply, IntEnd, PVTypeOK
<1>3. mie' \in SUBSET {"meie", "mtie"} BY MieGrows
<1>4. MIE' \in BOOLEAN /\ MPIE' \in BOOLEAN /\ mepc' \in Nat /\ mcause' \in Cause
  <2>1. CASE NoTrap BY <2>1 DEF NoTrap, PVTypeOK
  <2>2. CASE /\ op = "CSR" /\ oldpc \in DOMAIN Code /\ instruction = Code[oldpc]
             /\ CsrWrite(instruction.csr,
                         IF instruction.csr = "mepc" THEN mepc + 1 ELSE instruction.d)
    <3>1. instruction.csr = "mstatus" => instruction.d \in [MIE : BOOLEAN, MPIE : BOOLEAN]
      BY <2>2, ProgramAssumption DEF op
    <3>2. CASE instruction.csr = "mstatus" BY <2>2, <3>1, <3>2 DEF CsrWrite, PVTypeOK
    <3>3. CASE instruction.csr # "mstatus"
      <4>1. MIE' = MIE /\ MPIE' = MPIE /\ mcause' = mcause BY <2>2, <3>3 DEF CsrWrite
      <4>2. mepc' \in {mepc, mepc + 1} BY <2>2 DEF CsrWrite
      <4> QED BY <4>1, <4>2 DEF PVTypeOK
    <3> QED BY <3>2, <3>3
  <2>3. CASE InterruptPhase
    BY <2>3 DEF InterruptPhase, OnExcEnter, PVTypeOK, CpuTypeOK, Cause, M_TIMER, M_EXTERNAL
  <2>4. CASE ExceptionPhase
    BY <2>4 DEF ExceptionPhase, OnExcEnter, PVTypeOK, CpuTypeOK, Cause, M_TIMER, M_EXTERNAL
  <2>5. CASE MretPhase BY <2>5 DEF MretPhase, OnExcLeave, PVTypeOK
  <2> QED BY <2>1, <2>2, <2>3, <2>4, <2>5, RegisterStep
<1> QED BY <1>1, <1>2, <1>3, <1>4 DEF PVTypeOK

-----------------------------------------------------------------------------
(* How late an interrupt comes.                                             *)

\* An instruction before decode stays there until it is decoded.
LEMMA FetchingStep ==
  ASSUME ExecInv, NoTrapAfterWait, Fetching, CpuClock(eip, eip_istimer)
  PROVE  \/ Fetching' /\ phase' # "IF"
         \/ Decode
<1> USE DEF Fetching, NoTrapAfterWait
<1>1. CASE InstrFetch BY <1>1 DEF InstrFetch
<1>2. CASE MemWait BY <1>2 DEF MemWait
<1> QED
  BY <1>1, <1>2 DEF CpuClock, Ex, RV32MWait, Mem, Exu, Memu, WriteBack, InterruptPhase,
                    ExceptionPhase, MretPhase

\* One that has been decoded goes on, or is completed: the next one is fetched.
LEMMA DecodedStep ==
  ASSUME NoTrapAfterWait, ~Fetching, CpuClock(eip, eip_istimer)
  PROVE  ~Fetching' \/ phase' = "IF"
<1> USE DEF Fetching, NoTrapAfterWait
<1>1. CASE Ex BY <1>1 DEF Ex
<1>2. CASE RV32MWait BY <1>2 DEF RV32MWait
<1>3. CASE Mem BY <1>3 DEF Mem
<1>4. CASE Exu BY <1>4 DEF Exu
<1>5. CASE Memu BY <1>5 DEF Memu
<1>6. CASE MemWait BY <1>6 DEF MemWait
<1>7. CASE WriteBack BY <1>7 DEF WriteBack
<1>8. CASE InterruptPhase BY <1>8 DEF InterruptPhase
<1>9. CASE ExceptionPhase BY <1>9 DEF ExceptionPhase
<1>10. CASE MretPhase BY <1>10 DEF MretPhase
<1> QED
  BY <1>1, <1>2, <1>3, <1>4, <1>5, <1>6, <1>7, <1>8, <1>9, <1>10
  DEF CpuClock, InstrFetch, Decode

\* Trap entry and cli clear MIE, and leave the processor fetching the first
\* instruction after it, or with the interrupt answered.
LEMMA ClearingStep ==
  ASSUME IInv, ExecInv, InProgram, LateInv, CpuClock(eip, eip_istimer), MIE, ~MIE'
  PROVE  \/ phase' = "IF"
         \/ pv_state' = "REPLY" /\ pv_int_reply_reg'
<1>1. ~NoTrap BY DEF NoTrap
<1>2. CASE InterruptPhase BY <1>2 DEF InterruptPhase
<1>3. CASE ExceptionPhase BY <1>3 DEF ExceptionPhase
<1>4. CASE MretPhase BY <1>4 DEF MretPhase
<1> QED BY <1>1, <1>2, <1>3, <1>4, RegisterStep

LEMMA LateStep ==
  ASSUME IInv, TypeOK, ExecInv, InProgram, LateInv, CpuClock(eip, eip_istimer), CountSince
  PROVE  LateInv'
<1>1. MIE' => MPIE'
  <2>1. CASE NoTrap BY <2>1 DEF NoTrap, LateInv
  <2>2. CASE /\ op = "CSR" /\ oldpc \in DOMAIN Code /\ instruction = Code[oldpc]
             /\ CsrWrite(instruction.csr,
                         IF instruction.csr = "mepc" THEN mepc + 1 ELSE instruction.d)
    <3>1. CASE instruction.csr = "mstatus"
      <4>1. instruction.d.MIE => instruction.d.MPIE
        BY <2>2, <3>1, ProgramAssumption DEF op
      <4> QED BY <2>2, <3>1, <4>1 DEF CsrWrite
    <3>2. CASE instruction.csr # "mstatus" BY <2>2, <3>2 DEF CsrWrite, LateInv
    <3> QED BY <3>1, <3>2
  <2>3. CASE InterruptPhase \/ ExceptionPhase
    BY <2>3 DEF InterruptPhase, ExceptionPhase, OnExcEnter
  <2>4. CASE MretPhase BY <2>4 DEF MretPhase, OnExcLeave
  <2> QED BY <2>1, <2>2, <2>3, <2>4, RegisterStep
<1>2. /\ int_pending' = (MIE /\ Enabled(eip, eip_istimer) # {})
      /\ pv_int_reply_reg' = (phase = "INTERRUPT")
      /\ IntIdle \/ IntIssue \/ IntReply \/ IntEnd
  BY DEF CpuClock, PVClock, int_reply
<1>3. pv_state' = "REPLY" => interrupt'
  BY <1>2 DEF IntIdle, IntIssue, IntReply, IntEnd, LateInv
<1>4. NoTrapAfterWait BY DEF IInv
<1>5. /\ since' \in 0 .. SINCE_MAX
      /\ MIE /\ ~MIE' => since' = 0
      /\ ~MIE /\ phase' # "IF" => since' = since
      /\ ~MIE /\ phase' = "IF" /\ since = 0 => since' = 1
  BY DEF CountSince, LateInv, SINCE_MAX
<1>6. ASSUME ~MIE', UnderWay'
      PROVE  /\ pv_state' = "IDLE" => phase' = "IF" /\ since' = 0
             /\ pv_state' = "ISSUE" => Fetching' /\ since' = 0
             /\ pv_state' = "REPLY" =>
                  \/ since' = 0
                  \/ since' = 1 /\ (Fetching' \/ phase' = "INTERRUPT")
  <2>1. CASE MIE
    <3>1. phase' = "IF" BY <1>6, <2>1, ClearingStep DEF UnderWay
    <3> QED BY <1>5, <1>6, <2>1, <3>1 DEF Fetching
  <2>2. CASE ~MIE
    <3>1. pv_state' \in {"ISSUE", "REPLY"}
      BY <1>2, <1>6, <2>2 DEF UnderWay
    <3>2. CASE IntIdle
      <4>1. int_pending /\ pv_state = "IDLE" /\ pv_state' = "ISSUE"
        BY <3>1, <3>2 DEF IntIdle
      <4>2. phase = "IF" /\ since = 0 BY <2>2, <4>1 DEF LateInv, UnderWay
      <4>3. Fetching' /\ phase' # "IF"
        BY <1>4, <4>2, FetchingStep DEF Fetching, Decode
      <4> QED BY <1>5, <2>2, <4>1, <4>2, <4>3
    <3>3. CASE IntIssue
      <4>1. pv_state = "ISSUE" /\ pv_state' = "REPLY"
        BY <3>3 DEF IntIssue
      <4>2. Fetching /\ since = 0 BY <2>2, <4>1 DEF LateInv, UnderWay
      <4>3. CASE phase' = "IF"
        BY <1>5, <2>2, <4>1, <4>2, <4>3 DEF Fetching
      <4>4. CASE phase' # "IF"
        BY <1>5, <2>2, <4>1, <4>2, <4>4
      <4> QED BY <4>3, <4>4
    <3>4. CASE IntReply
      <4>1. /\ pv_state = "REPLY" /\ pv_state' = "REPLY"
            /\ ~pv_int_reply_reg /\ phase # "INTERRUPT" /\ interrupt
        <5>1. pv_state = "REPLY" /\ pv_state' = "REPLY" /\ ~pv_int_reply_reg
          BY <3>1, <3>4 DEF IntReply
        <5>2. ~pv_int_reply_reg' BY <1>6, <5>1 DEF UnderWay
        <5> QED BY <1>2, <5>1, <5>2 DEF LateInv
      <4>2. since = 0 \/ (since = 1 /\ Fetching)
        BY <2>2, <4>1 DEF LateInv, UnderWay
      <4>3. CASE Fetching
        <5>1. CASE Fetching' /\ phase' # "IF"
          BY <1>5, <2>2, <4>1, <4>2, <5>1
        <5>2. CASE Decode
          <6>1. phase' = "INTERRUPT"
            BY <4>1, <5>2 DEF Decode, DecodePhase
          <6> QED BY <1>5, <2>2, <4>1, <4>2, <6>1
        <5> QED BY <1>4, <4>3, <5>1, <5>2, FetchingStep
      <4>4. CASE ~Fetching
        <5>1. since = 0 BY <4>2, <4>4
        <5>2. CASE phase' = "IF"
          BY <1>5, <2>2, <4>1, <5>1, <5>2 DEF Fetching
        <5>3. CASE phase' # "IF"
          BY <1>5, <2>2, <4>1, <5>1, <5>3
        <5> QED BY <5>2, <5>3
      <4> QED BY <4>3, <4>4
    <3>5. CASE IntEnd BY <3>1, <3>5 DEF IntEnd
    <3> QED BY <1>2, <3>2, <3>3, <3>4, <3>5
  <2> QED BY <2>1, <2>2
<1> QED BY <1>1, <1>3, <1>5, <1>6 DEF LateInv

-----------------------------------------------------------------------------
(* The invariant as a whole.                                                *)

SocInv == IInv /\ TypeOK /\ ExecInv /\ SourceInv /\ LateInv

LEMMA SocInvInit == Init => SocInv
<1> SUFFICES ASSUME Init PROVE SocInv
  OBVIOUS
<1>1. IInv BY Initially
<1>2. TypeOK
  <2>1. IUTypeOK
    <3>1. current_irq_dev \in 0 .. 4 BY DEF Init, IUInit, IRQ_DEV_NONE
    <3> QED BY <3>1 DEF Init, IUInit, IUTypeOK
  <2>2. PVTypeOK BY DEF Init, PVInit, PVTypeOK, Cause, M_TIMER, M_EXTERNAL
  <2>3. CpuTypeOK
    BY ProgramAssumption DEF Init, CpuInit, CpuTypeOK, Phase, Instructions
  <2> QED BY <2>1, <2>2, <2>3 DEF Init, TypeOK, SINCE_MAX
<1>3. phase = "IF" /\ pv_state = "IDLE" /\ ~int_pending /\ seen = {} /\ mie = {} /\ ~MIE
  BY DEF Init, CpuInit, PVInit
<1>4. ExecInv BY <1>3 DEF ExecInv, Fetching, InMemory
<1>5. SourceInv BY <1>3 DEF SourceInv
<1>6. LateInv BY <1>3 DEF Init, LateInv, UnderWay, SINCE_MAX
<1> QED BY <1>1, <1>2, <1>4, <1>5, <1>6 DEF SocInv

LEMMA SocInvStep == SocInv /\ InProgram /\ [Next]_vars => SocInv'
<1> SUFFICES ASSUME SocInv, InProgram, [Next]_vars PROVE SocInv'
  OBVIOUS
<1>1. IInv' BY Inductive DEF SocInv
<1>2. CASE Clock
  <2>1. PICK irq \in SUBSET (Lines \ i_reg) :
          /\ IUClock(irq, eip_reply, IF StoresMask THEN instruction.mask ELSE i_mask)
          /\ CpuClock(eip, eip_istimer)
          /\ CountSince
    BY <1>2 DEF Clock
  <2>2. /\ IInv /\ NoTrapAfterWait /\ TypeOK /\ ExecInv /\ SourceInv /\ LateInv
        /\ IUTypeOK /\ PVTypeOK /\ CpuTypeOK /\ eip_reply \in BOOLEAN
    BY DEF SocInv, IInv, TypeOK, PVTypeOK
  <2>3. ExecInv' BY <2>1, <2>2, ExecStep
  <2>4. SourceInv' BY <2>1, <2>2, SourceStep
  <2>5. LateInv' BY <2>1, <2>2, LateStep
  <2>6. IUTypeOK' BY <2>1, <2>2, UnitTypes
  <2>7. PVTypeOK' /\ CpuTypeOK' BY <2>1, <2>2, PrivilegeTypes, CpuTypes
  <2> QED BY <1>1, <2>3, <2>4, <2>5, <2>6, <2>7 DEF SocInv, TypeOK, LateInv
<1>3. CASE UNCHANGED vars
  <2>1. TypeOK'
    BY <1>3 DEF SocInv, vars, iuVars, pvVars, cpuVars, TypeOK, IUTypeOK, PVTypeOK, CpuTypeOK
  <2>2. ExecInv' /\ SourceInv'
    BY <1>3 DEF SocInv, vars, pvVars, cpuVars, ExecInv, SourceInv, Fetching, InMemory, op
  <2>3. LateInv'
    BY <1>3 DEF SocInv, vars, pvVars, cpuVars, LateInv, UnderWay, Fetching
  <2> QED BY <1>1, <2>1, <2>2, <2>3 DEF SocInv
<1> QED BY <1>2, <1>3 DEF Next

\* The inductive invariant of the processor.
THEOREM SocInvariance == Spec /\ []InProgram => []SocInv
<1> QED BY SocInvInit, SocInvStep, PTL DEF Spec

\* Every register of processor, privilege.v and interrupt unit keeps its type.
THEOREM TypeCorrect == Spec /\ []InProgram => []TypeOK
<1>1. SocInv => TypeOK BY DEF SocInv
<1> QED BY <1>1, SocInvariance, PTL

\* An interrupt that was let through before MIE was cleared displaces one of the two
\* instructions that are executed after the clearing, never a later one, whatever they
\* are and wherever they jump (privilege.v:198-245).
THEOREM AtMostTwoLate == Spec /\ []InProgram => []LateByTwoInstructions
<1>1. SocInv => LateByTwoInstructions
  <2> SUFFICES ASSUME SocInv, phase = "INTERRUPT", ~MIE PROVE since < SINCE_MAX
    BY DEF LateByTwoInstructions
  <2>1. pv_state = "REPLY" /\ ~pv_int_reply_reg
    BY DEF SocInv, IInv, ReplyOrder
  <2> QED BY <2>1 DEF SocInv, LateInv, UnderWay, SINCE_MAX
<1> QED BY <1>1, SocInvariance, PTL

-----------------------------------------------------------------------------
(* The refinement of Isa: the clock in which an instruction is completed is *)
(* the step of the instruction set, every other clock is a stutter.         *)

LEMMA IsaInit == Init => ISA!Init
  BY DEF Init, CpuInit, PVInit, ISA!Init, ArchPc

LEMMA IsaStep ==
  ASSUME SocInv, SocInv', InProgram, CpuClock(eip, eip_istimer)
  PROVE  \/ UNCHANGED ISA!isaVars
         \/ ISA!Execute \/ ISA!Exception \/ ISA!Mret
         \/ ISA!Interrupt /\ phase = "INTERRUPT"
<1>1. ExecInv /\ NoTrapAfterWait BY DEF SocInv, IInv
<1> DEFINE Same == UNCHANGED ISA!isaVars
<1>2. ASSUME NoTrap, ArchPc' = ArchPc PROVE Same
  BY <1>2 DEF NoTrap, ISA!isaVars
<1>3. ASSUME NoTrap, ArchPc' = ArchPc + 1, instruction = Code[ArchPc],
             op \notin {"ECALL", "EBREAK", "MRET", "CSR", "JAL", "JALR", "BR"}
      PROVE  ISA!Execute
  BY <1>3 DEF NoTrap, ISA!Execute, ISA!Successors, op
<1> HIDE DEF Same
<1>4. CASE InstrFetch
  BY <1>2, <1>4 DEF InstrFetch, ArchPc, Same
<1>5. CASE Decode
  <2>1. ArchPc = pc /\ instruction = Code[pc] /\ NoTrap /\ pc' = pc + 1 /\ oldpc' = pc
    BY <1>1, <1>5 DEF Decode, ArchPc, ExecInv
  <2>2. CASE phase' = "IF"
    <3>1. op = "FENCE" BY <1>5, <2>2 DEF Decode, DecodePhase
    <3> QED BY <1>3, <2>1, <2>2, <3>1 DEF ArchPc
  <2>3. CASE phase' # "IF"
    <3>1. phase' \in {"INTERRUPT", "MRET", "EXCEPTION", "WB", "EX"}
      BY <1>5, <2>3 DEF Decode, DecodePhase
    <3> QED BY <1>2, <2>1, <3>1 DEF ArchPc, Same
  <2> QED BY <2>2, <2>3
<1>6. CASE Ex BY <1>2, <1>6 DEF Ex, ArchPc, Same
<1>7. CASE RV32MWait BY <1>2, <1>7 DEF RV32MWait, ArchPc, Same
<1>8. CASE Mem
  <2>1. ArchPc = oldpc /\ ArchPc' = oldpc /\ NoTrap BY <1>8 DEF Mem, ArchPc
  <2> QED BY <1>2, <2>1 DEF Same
<1>9. CASE Exu BY <1>2, <1>9 DEF Exu, ArchPc, Same
<1>10. CASE Memu
  <2>1. ArchPc = oldpc /\ ArchPc' = oldpc /\ NoTrap BY <1>10 DEF Memu, ArchPc
  <2> QED BY <1>2, <2>1 DEF Same
<1>11. CASE MemWait
  <2>1. NoTrap /\ pc' = pc /\ oldpc' = oldpc /\ phase_return' = phase_return
        /\ phase = "MEM_WAIT" /\ phase' \in {"MEM_WAIT", phase_return}
    BY <1>11 DEF MemWait
  <2>2. CASE phase' = "IF"
    <3>1. phase_return = "IF" BY <2>1, <2>2
    <3>2. /\ ArchPc = oldpc /\ ArchPc' = pc /\ instruction = Code[oldpc] /\ pc = oldpc + 1
          /\ op \in {"LOAD", "SW", "SB"}
      BY <1>1, <2>1, <2>2, <3>1 DEF ArchPc, ExecInv, Fetching, InMemory
    <3> QED BY <1>3, <2>1, <3>2
  <2>3. CASE phase' # "IF"
    <3>1. ArchPc' = ArchPc BY <1>1, <2>1, <2>3 DEF ArchPc, NoTrapAfterWait
    <3> QED BY <1>2, <2>1, <3>1 DEF Same
  <2> QED BY <2>2, <2>3
<1>12. CASE WriteBack
  <2>1. /\ ArchPc = oldpc /\ ArchPc' = pc' /\ instruction = Code[oldpc] /\ pc = oldpc + 1
        /\ op \notin {"ECALL", "EBREAK", "MRET"}
    BY <1>1, <1>12 DEF WriteBack, ArchPc, ExecInv, Fetching
  <2>2. PICK jumps \in Jumps : pc' = IF jumps THEN instruction.to ELSE pc
    BY <1>12 DEF WriteBack
  <2>3. ArchPc' \in ISA!Successors
    BY <2>1, <2>2 DEF ISA!Successors, Jumps, op, ISA!Ecall, ISA!Timer, M_TIMER
  <2>4. CASE op = "CSR"
    BY <1>12, <2>1, <2>3, <2>4 DEF WriteBack, CsrWrite, ISA!Execute, op
  <2>5. CASE op # "CSR"
    BY <1>12, <2>1, <2>3, <2>5 DEF WriteBack, NoTrap, ISA!Execute, op
  <2> QED BY <2>4, <2>5
<1>13. CASE InterruptPhase
  <2>1. pv_state = "REPLY" /\ ArchPc = oldpc /\ ArchPc' = mtvec
    BY <1>13 DEF InterruptPhase, SocInv, IInv, ReplyOrder, ArchPc
  <2>2. \/ mcause_i_code = 11 /\ "meie" \in mie
        \/ mcause_i_code = 7 /\ "mtie" \in mie
    BY <2>1 DEF SocInv, SourceInv, M_TIMER, M_EXTERNAL
  <2>3. ISA!Interrupt
    BY <1>13, <2>1, <2>2
    DEF InterruptPhase, OnExcEnter, ISA!Interrupt, ISA!Trap, ISA!Timer, ISA!External
  <2> QED BY <1>13, <2>3 DEF InterruptPhase
<1>14. CASE ExceptionPhase
  <2>1. /\ ArchPc = oldpc /\ ArchPc' = mtvec /\ instruction = Code[oldpc] /\ pc = oldpc + 1
        /\ op \in {"ECALL", "EBREAK"}
        /\ mcause_code_out = IF op = "EBREAK" THEN 3 ELSE 11
    BY <1>1, <1>14 DEF ExceptionPhase, ArchPc, ExecInv, Fetching
  <2> QED
    BY <1>14, <2>1 DEF ExceptionPhase, OnExcEnter, ISA!Exception, ISA!Trap, ISA!Ecall,
                       ISA!Breakpoint, op
<1>15. CASE MretPhase
  <2>1. /\ ArchPc = oldpc /\ ArchPc' = mepc /\ instruction = Code[oldpc] /\ op = "MRET"
    BY <1>1, <1>15 DEF MretPhase, ArchPc, ExecInv, Fetching
  <2> QED BY <1>15, <2>1 DEF MretPhase, OnExcLeave, ISA!Mret, op
<1> QED
  BY <1>4, <1>5, <1>6, <1>7, <1>8, <1>9, <1>10, <1>11, <1>12, <1>13, <1>14, <1>15
  DEF CpuClock, Same

LEMMA IsaUnchanged == UNCHANGED vars => UNCHANGED ISA!isaVars
  BY DEF vars, pvVars, cpuVars, ISA!isaVars, ArchPc

\* Traps are precise in every program of ProgramAssumption: no instruction is skipped,
\* repeated or cut, what an interrupt displaces is what mret resumes, and only an
\* enabled source interrupts (riscv-multicyc.v:615-619, privilege.v:198-250).
THEOREM PreciseTraps == Spec /\ []InProgram => TrapsPrecise
<1>1. SocInv /\ SocInv' /\ InProgram /\ [Next]_vars =>
        [ISA!Execute \/ ISA!Exception \/ ISA!Mret \/ ISA!Interrupt]_(ISA!isaVars)
  BY IsaStep, IsaUnchanged DEF Next, Clock
<1> QED BY <1>1, IsaInit, SocInvariance, PTL DEF Spec, TrapsPrecise, ISA!PreciseSpec

\* A program without ecall, ebreak and instructions that clear MIE.
ClearsMIE(i) == i.op = "CSR" /\ i.csr = "mstatus" /\ ~i.d.MIE
KeepsMIE ==
  \A a \in DOMAIN Code : Code[a].op \notin {"ECALL", "EBREAK"} /\ ~ClearsMIE(Code[a])

\* In such a program MIE is set as long as an interrupt is under way.
KeepInv == UnderWay => MIE

LEMMA KeepStep ==
  ASSUME KeepsMIE, SocInv, InProgram, KeepInv, CpuClock(eip, eip_istimer)
  PROVE  KeepInv'
<1> SUFFICES ASSUME UnderWay' PROVE MIE'
  BY DEF KeepInv
<1>1. ExecInv /\ ReplyOrder BY DEF SocInv, IInv
<1>2. MIE /\ phase # "INTERRUPT"
  <2>1. /\ int_pending' = (MIE /\ Enabled(eip, eip_istimer) # {})
        /\ pv_int_reply_reg' = (phase = "INTERRUPT")
        /\ IntIdle \/ IntIssue \/ IntReply \/ IntEnd
    BY DEF CpuClock, PVClock, int_reply
  <2>2. CASE IntIdle BY <1>1, <2>1, <2>2 DEF IntIdle, UnderWay, KeepInv, ReplyOrder
  <2>3. CASE IntIssue BY <1>1, <2>1, <2>3 DEF IntIssue, UnderWay, KeepInv, ReplyOrder
  <2>4. CASE IntReply BY <1>1, <2>1, <2>4 DEF IntReply, UnderWay, KeepInv, ReplyOrder
  <2>5. CASE IntEnd BY <1>1, <2>1, <2>5 DEF IntEnd, UnderWay, KeepInv, ReplyOrder
  <2> QED BY <2>1, <2>2, <2>3, <2>4, <2>5
<1>3. CASE NoTrap BY <1>2, <1>3 DEF NoTrap
<1>4. CASE /\ op = "CSR" /\ oldpc \in DOMAIN Code /\ instruction = Code[oldpc]
           /\ CsrWrite(instruction.csr,
                       IF instruction.csr = "mepc" THEN mepc + 1 ELSE instruction.d)
  <2>1. instruction.csr = "mstatus" => instruction.d.MIE
    BY <1>4 DEF KeepsMIE, ClearsMIE, op
  <2>2. CASE instruction.csr = "mstatus" BY <1>4, <2>1, <2>2 DEF CsrWrite
  <2>3. CASE instruction.csr # "mstatus" BY <1>2, <1>4, <2>3 DEF CsrWrite
  <2> QED BY <2>2, <2>3
<1>5. CASE phase = "EXCEPTION"
  <2>1. oldpc \in DOMAIN Code /\ Code[oldpc].op \in {"ECALL", "EBREAK"}
    BY <1>1, <1>5 DEF ExecInv, Fetching, op, InProgram, ArchPc
  <2> QED BY <2>1 DEF KeepsMIE
<1>6. CASE MretPhase BY <1>2, <1>6 DEF MretPhase, OnExcLeave, SocInv, LateInv
<1> QED BY <1>1, <1>2, <1>3, <1>4, <1>5, <1>6, RegisterStep

\* A program that leaves MIE alone sees the instruction set as it is documented: an
\* interrupt is taken only while mstatus.MIE is set, and between two instructions.
THEOREM PlainProgramsSeeISA == KeepsMIE => (Spec /\ []InProgram => ImplementsISA)
<1> SUFFICES ASSUME KeepsMIE PROVE Spec /\ []InProgram => ImplementsISA
  OBVIOUS
<1>1. Init => KeepInv BY DEF Init, PVInit, KeepInv, UnderWay
<1>2. SocInv /\ InProgram /\ KeepInv /\ [Next]_vars => KeepInv'
  <2>1. UNCHANGED vars /\ KeepInv => KeepInv'
    BY DEF vars, pvVars, KeepInv, UnderWay
  <2> QED BY <2>1, KeepStep DEF Next, Clock
<1>3. SocInv /\ SocInv' /\ InProgram /\ KeepInv /\ [Next]_vars => [ISA!Next]_(ISA!isaVars)
  <2>1. SocInv /\ KeepInv /\ phase = "INTERRUPT" => MIE
    BY DEF SocInv, IInv, ReplyOrder, KeepInv, UnderWay
  <2> QED BY <2>1, IsaStep, IsaUnchanged DEF Next, Clock, ISA!Next
<1> QED BY <1>1, <1>2, <1>3, IsaInit, SocInvariance, PTL DEF Spec, ImplementsISA, ISA!Spec

=============================================================================
