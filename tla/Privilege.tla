----------------------------- MODULE Privilege -----------------------------
(***************************************************************************)
(* The machine-mode registers and the interrupt state machine inside the   *)
(* CPU (pCPU/src/rtl/privilege.v), one clock edge per step.  mstatus is    *)
(* kept as its only two implemented bits, MIE and MPIE; mie as the set of  *)
(* its enabled bits; mcause as the code and whether bit 31 is set.  The    *)
(* software bit of mip cannot be written (the write mask admits bit 3 only *)
(* and the test reads bit 4), so no software interrupt exists and int_     *)
(* source is never 0.  An address counts instructions, not bytes.          *)
(***************************************************************************)
EXTENDS Naturals

VARIABLES
  MIE, MPIE,          \* mstatus bits 3 and 7
  mie,                \* enabled bits of mie, a subset of {"meie", "mtie"}
  mepc, mcause,
  mepc_reg,           \* mepc, one clock late: what mret uses
  pv_state,           \* "IDLE", "ISSUE", "REPLY" or "END"
  int_pending,        \* a request was seen while interrupts were enabled
  seen,               \* eip_reg, eip_istimer_reg, meie_reg, mtie_reg
  int_source,         \* "timer" or "external"
  interrupt,          \* to the CPU
  eip_reply,          \* to the interrupt unit
  mcause_i_code,
  pv_int_reply_reg

pvVars == <<MIE, MPIE, mie, mepc, mcause, mepc_reg, pv_state, int_pending,
            seen, int_source, interrupt, eip_reply, mcause_i_code,
            pv_int_reply_reg>>

\* Values of mcause: the timer, an external interrupt, ecall and ebreak.
M_TIMER == 7
M_EXTERNAL == 11
Cause == [int : BOOLEAN, code : {0, 3, M_TIMER, M_EXTERNAL}]

PVTypeOK ==
  /\ MIE \in BOOLEAN /\ MPIE \in BOOLEAN
  /\ mie \in SUBSET {"meie", "mtie"}
  /\ mepc \in Nat /\ mepc_reg \in Nat
  /\ mcause \in Cause
  /\ pv_state \in {"IDLE", "ISSUE", "REPLY", "END"}
  /\ int_pending \in BOOLEAN
  /\ seen \in SUBSET {"timer", "external"}
  /\ int_source \in {"timer", "external"}
  /\ interrupt \in BOOLEAN /\ eip_reply \in BOOLEAN
  /\ mcause_i_code \in {M_TIMER, M_EXTERNAL}
  /\ pv_int_reply_reg \in BOOLEAN

\* Reset leaves MIE 0 and MPIE 1.
PVInit ==
  /\ MIE = FALSE /\ MPIE = TRUE
  /\ mie = {}
  /\ mepc = 0 /\ mepc_reg = 0
  /\ mcause = [int |-> FALSE, code |-> 0]
  /\ pv_state = "IDLE"
  /\ int_pending = FALSE
  /\ seen = {}
  /\ int_source = "timer"
  /\ interrupt = FALSE /\ eip_reply = FALSE
  /\ mcause_i_code = M_TIMER
  /\ pv_int_reply_reg = FALSE

-----------------------------------------------------------------------------
\* The registers.  A CSR write has priority over a trap, and a trap over mret;
\* the CPU is in one phase at a time, so the three never meet.
CsrWrite(csr, d) ==
  /\ MIE' = IF csr = "mstatus" THEN d.MIE ELSE MIE
  /\ MPIE' = IF csr = "mstatus" THEN d.MPIE ELSE MPIE
  /\ mie' = IF csr = "mie" THEN d ELSE mie
  /\ mepc' = IF csr = "mepc" THEN d ELSE mepc
  /\ UNCHANGED mcause

OnExcEnter(isint, pc_in, mcause_code_in) ==
  /\ MPIE' = MIE
  /\ MIE' = FALSE
  /\ mepc' = pc_in
  /\ mcause' = [int |-> isint,
                code |-> IF isint THEN mcause_i_code ELSE mcause_code_in]
  /\ UNCHANGED mie

OnExcLeave ==
  /\ MIE' = MPIE
  /\ MPIE' = TRUE
  /\ UNCHANGED <<mepc, mcause, mie>>

NoTrap == UNCHANGED <<MIE, MPIE, mepc, mcause, mie>>

-----------------------------------------------------------------------------
\* The enabled sources of this clock: the two products of line 194.
Enabled(e, istimer) ==
  (IF e /\ istimer /\ "mtie" \in mie THEN {"timer"} ELSE {}) \union
  (IF e /\ ~istimer /\ "meie" \in mie THEN {"external"} ELSE {})

\* Mutant: requests are taken without looking at mstatus.MIE.
IntIdle_NoMIE ==
  /\ pv_state = "IDLE"
  /\ IF seen # {}
       THEN /\ int_source' = IF "external" \in seen THEN "external" ELSE "timer"
            /\ pv_state' = "ISSUE"
       ELSE UNCHANGED <<int_source, pv_state>>
  /\ UNCHANGED <<interrupt, eip_reply, mcause_i_code>>

\* The interrupt state machine.  It looks at int_pending in IDLE only: what
\* software writes to mstatus from then on does not call the interrupt back.
IntIdle ==
  /\ pv_state = "IDLE"
  /\ IF int_pending
       THEN /\ int_source' = IF "external" \in seen THEN "external" ELSE "timer"
            /\ pv_state' = "ISSUE"
       ELSE UNCHANGED <<int_source, pv_state>>
  /\ UNCHANGED <<interrupt, eip_reply, mcause_i_code>>

IntIssue ==
  /\ pv_state = "ISSUE"
  /\ pv_state' = "REPLY"
  /\ interrupt' = TRUE
  /\ eip_reply' = TRUE
  /\ mcause_i_code' = IF int_source = "external" THEN M_EXTERNAL ELSE M_TIMER
  /\ UNCHANGED int_source

IntReply ==
  /\ pv_state = "REPLY"
  /\ eip_reply' = FALSE
  /\ IF pv_int_reply_reg
       THEN interrupt' = FALSE /\ pv_state' = "END"
       ELSE UNCHANGED <<interrupt, pv_state>>
  /\ UNCHANGED <<int_source, mcause_i_code>>

IntEnd ==
  /\ pv_state = "END"
  /\ pv_state' = "IDLE"
  /\ UNCHANGED <<interrupt, eip_reply, int_source, mcause_i_code>>

\* A clock edge, apart from the registers above: e and istimer come from the
\* interrupt unit, int_reply from the CPU.
PVClock(e, istimer, int_reply) ==
  /\ pv_int_reply_reg' = int_reply
  /\ seen' = Enabled(e, istimer)
  /\ int_pending' = (MIE /\ Enabled(e, istimer) # {})
  /\ mepc_reg' = mepc
  /\ IntIdle \/ IntIssue \/ IntReply \/ IntEnd

=============================================================================
