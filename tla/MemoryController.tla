-------------------------- MODULE MemoryController --------------------------
(***************************************************************************)
(* The burst memory controller (pCPU/src/rtl/memory_controller.v, module   *)
(* memory_controller_burst), in the CPU's clock: clk_mem runs twice as     *)
(* fast, so that a ready pulse, which the code stretches to two periods of *)
(* clk_mem, is seen once.  The PSRAM chip and its serial protocol          *)
(* (psram_controller_simple.v) are the array psram and the free choice of  *)
(* when a byte has been transferred; a byte takes at least two clocks      *)
(* (two nibbles of two clk_mem periods each).                              *)
(***************************************************************************)
EXTENDS Naturals

CONSTANTS
  MBlock, MOffset,  \* blocks of the memory, words of a block
  MWord,            \* contents of a word
  BURST_LENGTH      \* burst_length, as the cache sets it

VARIABLES
  mc_state,         \* "IDLE", "WE_BEGIN", "WE", "RD_BEGIN" or "RD"
  ready_r,
  rega,             \* the block that is transferred
  regburst_length,  \* words that remain
  count,            \* bytes of the word that remain
  regbuf,           \* the word that is sent
  regspo,           \* the word that was received
  mid_byte,         \* the first half of a byte has been transferred
  psram

mcVars == <<mc_state, ready_r, rega, regburst_length, count, regbuf, regspo,
            mid_byte, psram>>

MCTypeOK ==
  /\ mc_state \in {"IDLE", "WE_BEGIN", "WE", "RD_BEGIN", "RD"}
  /\ ready_r \in BOOLEAN
  /\ rega \in MBlock
  /\ regburst_length \in 0 .. BURST_LENGTH
  /\ count \in 0 .. 4
  /\ regbuf \in MWord /\ regspo \in MWord
  /\ mid_byte \in BOOLEAN
  /\ psram \in [MBlock -> [MOffset -> MWord]]

MCInit(b0, w0) ==
  /\ mc_state = "IDLE"
  /\ ready_r = FALSE
  /\ rega = b0
  /\ regburst_length = 0
  /\ count = 4
  /\ regbuf = w0 /\ regspo = w0
  /\ mid_byte = FALSE
  /\ psram = [b \in MBlock |-> [o \in MOffset |-> w0]]

-----------------------------------------------------------------------------
mc_ready(we, rd) == ready_r /\ ~(rd \/ we)

\* The word that is transferred now.
Current == BURST_LENGTH - regburst_length

\* Mutant: ready_r is not raised again.
McIdle_NoReady(we, rd, a, d) ==
  /\ mc_state = "IDLE"
  /\ rega' = a
  /\ regbuf' = d
  /\ regburst_length' = BURST_LENGTH
  /\ CASE we -> mc_state' = "WE_BEGIN" /\ ready_r' = FALSE /\ count' = 4
       [] ~we /\ rd -> mc_state' = "RD_BEGIN" /\ ready_r' = FALSE /\ count' = 4
       [] OTHER -> UNCHANGED <<mc_state, count, ready_r>>
  /\ mid_byte' = FALSE
  /\ UNCHANGED <<regspo, psram>>

\* IDLE accepts a command even before the PSRAM is ready; ready_r follows the
\* PSRAM, which becomes ready some time after a command and then stays so.
McIdle(we, rd, a, d) ==
  /\ mc_state = "IDLE"
  /\ rega' = a
  /\ regbuf' = d
  /\ regburst_length' = BURST_LENGTH
  /\ CASE we -> mc_state' = "WE_BEGIN" /\ ready_r' = FALSE /\ count' = 4
       [] ~we /\ rd -> mc_state' = "RD_BEGIN" /\ ready_r' = FALSE /\ count' = 4
       [] OTHER -> /\ ready_r' \in {ready_r, TRUE}
                   /\ UNCHANGED <<mc_state, count>>
  /\ mid_byte' = FALSE
  /\ UNCHANGED <<regspo, psram>>

\* Wait until the PSRAM is ready.
McBegin ==
  /\ mc_state \in {"WE_BEGIN", "RD_BEGIN"}
  /\ mc_state' \in {mc_state, IF mc_state = "WE_BEGIN" THEN "WE" ELSE "RD"}
  /\ UNCHANGED <<ready_r, rega, regburst_length, count, regbuf, regspo, mid_byte, psram>>

\* Half a byte goes over the wire, or nothing happens.
McHalf ==
  /\ mc_state \in {"WE", "RD"}
  /\ count # 0
  /\ mid_byte' \in {mid_byte, TRUE}
  /\ ready_r' = FALSE
  /\ UNCHANGED <<mc_state, rega, regburst_length, count, regbuf, regspo, psram>>

\* The PSRAM takes a byte.  After the first one the controller asks for the
\* next word, if there is one.
WeByte ==
  /\ mc_state = "WE"
  /\ count # 0 /\ mid_byte
  /\ count' = count - 1
  /\ mid_byte' = FALSE
  /\ ready_r' = (count = 3 /\ regburst_length # 1)
  /\ regburst_length' = IF count = 3 THEN regburst_length - 1 ELSE regburst_length
  /\ UNCHANGED <<mc_state, rega, regbuf, regspo, psram>>

\* All bytes of a word are sent: the next word is on d.
WeWord(d) ==
  /\ mc_state = "WE"
  /\ count = 0
  /\ psram' = [psram EXCEPT ![rega][Current - 1] = regbuf]
  /\ IF regburst_length = 0
       THEN mc_state' = "IDLE" /\ UNCHANGED <<count, regbuf>>
       ELSE count' = 4 /\ regbuf' = d /\ UNCHANGED mc_state
  /\ ready_r' = FALSE
  /\ UNCHANGED <<rega, regburst_length, regspo, mid_byte>>

RdByte ==
  /\ mc_state = "RD"
  /\ count # 0 /\ mid_byte
  /\ count' = count - 1
  /\ mid_byte' = FALSE
  /\ ready_r' = FALSE
  /\ UNCHANGED <<mc_state, rega, regburst_length, regbuf, regspo, psram>>

\* All bytes of a word have come.  There is no pulse for the last one: ready_r
\* rises when the PSRAM is ready again.
RdWord ==
  /\ mc_state = "RD"
  /\ count = 0
  /\ regspo' = psram[rega][Current]
  /\ regburst_length' = regburst_length - 1
  /\ IF regburst_length = 1
       THEN mc_state' = "IDLE" /\ UNCHANGED <<count, ready_r>>
       ELSE count' = 4 /\ ready_r' = TRUE /\ UNCHANGED mc_state
  /\ UNCHANGED <<rega, regbuf, mid_byte, psram>>

MCClock(we, rd, a, d) ==
  \/ McIdle(we, rd, a, d) \/ McBegin \/ McHalf
  \/ WeByte \/ WeWord(d) \/ RdByte \/ RdWord

=============================================================================
