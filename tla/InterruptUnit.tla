--------------------------- MODULE InterruptUnit ---------------------------
(***************************************************************************)
(* The interrupt controller of the SoC (pCPU/src/rtl/interrupt_unit.v),    *)
(* one clock edge per step.  Sets of devices stand for the one-bit         *)
(* registers the unit keeps per device: a device is in the set when its    *)
(* bit is 1.                                                               *)
(***************************************************************************)
EXTENDS Naturals, Sequences

VARIABLES
  i_mask,           \* devices whose requests are ignored (registers i_*_mask)
  i_reg,            \* request lines, one clock late (i_*_reg)
  i_save,           \* requests not passed on yet (i_*_save)
  iu_state,         \* "IDLE" or "ISSUE"
  int_istimer_reg,  \* the request being issued is the timer's
  current_irq_dev,  \* the number software reads at a[2:0] = 1
  iu_int_reply_reg  \* int_reply, one clock late

iuVars == <<i_mask, i_reg, i_save, iu_state, int_istimer_reg,
            current_irq_dev, iu_int_reply_reg>>

Device == {"timer", "uart", "gpio", "ps2"}

\* The order of the if/else chain of state IDLE.
Priority == <<"timer", "uart", "gpio", "ps2">>

IRQ_DEV_NONE == 0
IRQ_DEV == [timer |-> 1, uart |-> 2, gpio |-> 3, ps2 |-> 4]

IUTypeOK ==
  /\ i_mask \in SUBSET Device
  /\ i_reg \in SUBSET Device
  /\ i_save \in SUBSET Device
  /\ iu_state \in {"IDLE", "ISSUE"}
  /\ int_istimer_reg \in BOOLEAN
  /\ current_irq_dev \in 0 .. 4
  /\ iu_int_reply_reg \in BOOLEAN

\* The state that reset leaves: everything masked, nothing requested.
IUInit ==
  /\ i_mask = Device
  /\ i_reg = {}
  /\ i_save = {}
  /\ iu_state = "IDLE"
  /\ int_istimer_reg = FALSE
  /\ current_irq_dev = IRQ_DEV_NONE
  /\ iu_int_reply_reg = FALSE

-----------------------------------------------------------------------------
\* The outputs of the unit.
eip == iu_state = "ISSUE"
eip_istimer == int_istimer_reg

\* Mutant: the last device of the order first.
FirstSaved_LastFirst ==
  Priority[CHOOSE k \in 1 .. Len(Priority) :
             /\ Priority[k] \in i_save
             /\ \A j \in k + 1 .. Len(Priority) : Priority[j] \notin i_save]

\* The saved request that state IDLE passes on.
FirstSaved ==
  Priority[CHOOSE k \in 1 .. Len(Priority) :
             /\ Priority[k] \in i_save
             /\ \A j \in 1 .. k - 1 : Priority[j] \notin i_save]

\* What the devices ask for in this clock is added to i_save, but the request
\* that is passed on is cleared by the later assignment, even when the same
\* device asks again in this clock.
Issue ==
  /\ iu_state = "IDLE"
  /\ i_save # {}
  /\ iu_state' = "ISSUE"
  /\ i_save' = (i_save \union (i_reg \ i_mask)) \ {FirstSaved}
  /\ IF FirstSaved = "timer"
       THEN /\ int_istimer_reg' = TRUE
            /\ UNCHANGED current_irq_dev
       ELSE /\ current_irq_dev' = IRQ_DEV[FirstSaved]
            /\ UNCHANGED int_istimer_reg

\* Mutant: the request is taken back without an answer.
Replied_NoReply ==
  /\ iu_state = "ISSUE"
  /\ iu_state' = "IDLE"
  /\ int_istimer_reg' = FALSE
  /\ i_save' = i_save \union (i_reg \ i_mask)
  /\ UNCHANGED current_irq_dev

Replied ==
  /\ iu_state = "ISSUE"
  /\ iu_int_reply_reg
  /\ iu_state' = "IDLE"
  /\ int_istimer_reg' = FALSE
  /\ i_save' = i_save \union (i_reg \ i_mask)
  /\ UNCHANGED current_irq_dev

Gather ==
  /\ IF iu_state = "IDLE" THEN i_save = {} ELSE ~iu_int_reply_reg
  /\ i_save' = i_save \union (i_reg \ i_mask)
  /\ UNCHANGED <<iu_state, int_istimer_reg, current_irq_dev>>

\* A clock edge: irq is the set of devices that pulse in this clock, int_reply
\* the answer of the CPU, mask what software stores in the mask register (the
\* value it holds when nothing is stored).
IUClock(irq, int_reply, mask) ==
  /\ i_reg' = irq
  /\ iu_int_reply_reg' = int_reply
  /\ i_mask' = mask
  /\ Issue \/ Replied \/ Gather

=============================================================================
