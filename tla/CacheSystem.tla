---------------------------- MODULE CacheSystem ----------------------------
(***************************************************************************)
(* The cache, the burst memory controller under it and the CPU's side of   *)
(* the bus above it, clocked together, and the proof obligation of the     *)
(* three: they are a memory (module Memory).                               *)
(***************************************************************************)
EXTENDS Cache

CONSTANTS NoRequest

ASSUME NoRequestAssumption == NoRequest \notin [we : BOOLEAN, a : Address, d : Word]

VARIABLES
  mc_state, ready_r, rega, regburst_length, count, regbuf, regspo, mid_byte,
  psram,       \* the memory controller
  cpu_we, cpu_rd,  \* the request, up for one clock
  cpu_a, cpu_d,    \* address (mar) and data, held until the answer
  cpu_waits,       \* phase MEM_WAIT
  cpu_read,        \* the request was a read
  mdr              \* the last word that was read

MC == INSTANCE MemoryController WITH
        MBlock <- Block, MOffset <- Offset, MWord <- Word, BURST_LENGTH <- W

cpuBusVars == <<cpu_we, cpu_rd, cpu_a, cpu_d, cpu_waits, cpu_read, mdr>>
mcVars == <<mc_state, ready_r, rega, regburst_length, count, regbuf, regspo,
            mid_byte, psram>>
vars == <<cVars, mcVars, cpuBusVars>>

TypeOK ==
  /\ CacheTypeOK
  /\ MC!MCTypeOK
  /\ cpu_we \in BOOLEAN /\ cpu_rd \in BOOLEAN /\ ~(cpu_we /\ cpu_rd)
  /\ cpu_a \in Address /\ cpu_d \in Word
  /\ cpu_waits \in BOOLEAN /\ cpu_read \in BOOLEAN
  /\ mdr \in Word

Init ==
  LET a0 == [b |-> 0, o |-> 0]
      w0 == CHOOSE w \in Word : TRUE
  IN
  /\ CacheInit(a0, w0)
  /\ MC!MCInit(0, w0)
  /\ cpu_we = FALSE /\ cpu_rd = FALSE
  /\ cpu_a = a0 /\ cpu_d = w0
  /\ cpu_waits = FALSE /\ cpu_read = FALSE
  /\ mdr = w0

-----------------------------------------------------------------------------
MemReady == ready(cpu_we, cpu_rd)

\* Phases IF and MEM put a request on the bus for one clock.  The first one comes
\* from code in the boot ROM, long after the tags are cleared.
CpuRequest ==
  /\ ~cpu_we /\ ~cpu_rd /\ ~cpu_waits
  /\ c_state # "INIT"
  /\ cpu_we' \in BOOLEAN
  /\ cpu_rd' = ~cpu_we'
  /\ cpu_read' = cpu_rd'
  /\ cpu_a' \in Address
  /\ cpu_d' \in IF cpu_we' THEN Word ELSE {cpu_d}
  /\ UNCHANGED <<cpu_waits, mdr>>

CpuPause ==
  /\ ~cpu_we /\ ~cpu_rd /\ ~cpu_waits
  /\ UNCHANGED cpuBusVars

CpuEndRequest ==
  /\ cpu_we \/ cpu_rd
  /\ cpu_we' = FALSE /\ cpu_rd' = FALSE
  /\ cpu_waits' = TRUE
  /\ UNCHANGED <<cpu_a, cpu_d, cpu_read, mdr>>

\* Phase MEM_WAIT.
CpuMemWait ==
  /\ cpu_waits
  /\ IF MemReady
       THEN cpu_waits' = FALSE /\ mdr' = IF cpu_read THEN way_spo ELSE mdr
       ELSE UNCHANGED <<cpu_waits, mdr>>
  /\ UNCHANGED <<cpu_we, cpu_rd, cpu_a, cpu_d, cpu_read>>

Clock ==
  /\ CpuRequest \/ CpuPause \/ CpuEndRequest \/ CpuMemWait
  /\ CacheClock(cpu_we, cpu_rd, cpu_a, cpu_d, MC!mc_ready(lowmem_we, lowmem_rd), regspo)
  /\ MC!MCClock(lowmem_we, lowmem_rd, lowmem_a, lowmem_d)

Next == Clock

Spec == Init /\ [][Next]_vars

\* The clock runs, and the PSRAM becomes ready and moves bytes.
PsramMoves == Clock /\ mcVars' # mcVars

FairSpec == Spec /\ WF_vars(Clock) /\ WF_vars(PsramMoves)

-----------------------------------------------------------------------------
\* Where the newest contents of a word are: in the cache when its line holds the
\* block, but the block being loaded is in memory until it is complete, and the
\* block being written back is in the cache although its tag is gone.
Newest(a) ==
  LET line == tags[Index(a.b)]
      cached == bram[Index(a.b)][a.o]
      hostline == Index(host_a.b) = Index(a.b)
  IN
  CASE c_state = "WRITEBACK" /\ hostline ->
         IF a.b = burst_wb_base_a THEN cached ELSE psram[a.b][a.o]
    [] c_state = "LOAD" /\ hostline -> psram[a.b][a.o]
    [] c_state = "INIT" -> psram[a.b][a.o]
    [] OTHER -> IF line.valid /\ line.b = a.b THEN cached ELSE psram[a.b][a.o]

Contents == [a \in Address |-> Newest(a)]

Pending ==
  IF cpu_we \/ cpu_rd \/ (cpu_waits /\ ~MemReady)
    THEN [we |-> ~cpu_read, a |-> cpu_a, d |-> cpu_d]
    ELSE NoRequest

MEM == INSTANCE Memory WITH
         MemAddress <- Address, MemWord <- Word,
         contents <- Contents, request <- Pending,
         answer <- IF cpu_waits /\ MemReady /\ cpu_read THEN way_spo ELSE mdr

\* Cache, controller and PSRAM together are a memory: every read returns what was
\* written last to that address, whatever was evicted, written back and loaded
\* in between, and every write takes effect once.
ImplementsMemory == MEM!Spec

\* A line that is clean holds what memory holds, whenever the cache is at rest: a
\* line may then be dropped without a write-back (cache_cpu.v:183-187).
CleanIsInMemory ==
  c_state = "IDLE" =>
    \A l \in Line :
      tags[l].valid /\ ~tags[l].dirty => bram[l] = psram[tags[l].b]

\* The cache gives a burst command only when the controller is idle and has seen
\* the end of the previous one: a command in another state would be ignored.
CommandsHeard == (lowmem_we \/ lowmem_rd) => mc_state = "IDLE"

\* Every request of the CPU is answered.
EveryRequestAnswered == (cpu_we \/ cpu_rd) ~> (cpu_waits /\ MemReady)

=============================================================================
