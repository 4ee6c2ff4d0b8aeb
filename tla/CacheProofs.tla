----------------------------- MODULE CacheProofs -----------------------------
(***************************************************************************)
(* Cache, burst memory controller and PSRAM are a memory, for every number *)
(* of lines, blocks and words per block and every behaviour of the PSRAM.  *)
(* The invariant says in which step of a burst the two state machines are  *)
(* together: how the word counter of the cache, the word counter of the    *)
(* controller, the pulses of ready and the words already moved belong      *)
(* together.                                                               *)
(***************************************************************************)
EXTENDS CacheSystem, TLAPS

HostLine == Index(host_a.b)
HostBlock == host_a.b

\* The words of a block that have arrived where the burst takes them.
Moved(block, n) == \A o \in Offset : o < n => bram[HostLine][o] = psram[block][o]

\* The request of the CPU that the cache works on is the one the CPU waits for.
BusInv ==
  /\ cpu_we \/ cpu_rd => c_state = "IDLE" /\ ~cpu_waits /\ cpu_read = cpu_rd
  /\ c_state = "INIT" => ~cpu_we /\ ~cpu_rd /\ ~cpu_waits
  /\ c_state \in {"HIT", "LOAD", "WRITEBACK"} =>
       /\ cpu_waits
       /\ host_a = cpu_a /\ host_d = cpu_d /\ host_weorrd = ~cpu_read

\* Tags: those that the way has cleared are invalid; later, a valid one belongs to
\* its line.
TagInv ==
  \A l \in Line : tags[l].valid =>
    IF c_state = "INIT" THEN l >= init_count ELSE Index(tags[l].b) = l

\* A clean line holds what memory holds, except the one that is being exchanged.
CleanInv ==
  \A l \in Line :
    /\ c_state # "INIT" /\ tags[l].valid /\ ~tags[l].dirty
    /\ ~(c_state \in {"LOAD", "WRITEBACK"} /\ l = HostLine)
    => bram[l] = psram[tags[l].b]

\* Outside a burst the controller is idle.
QuietInv ==
  /\ c_state \in {"INIT", "IDLE", "HIT"} => mc_state = "IDLE"
  /\ c_state # "LOAD" => ~burst_we
  /\ c_state = "HIT" =>
       tags[HostLine] = [b |-> HostBlock, valid |-> TRUE, dirty |-> FALSE]

\* The word of a write burst that the controller is sending: regburst_length is
\* counted down when the second byte has gone.
Sending == IF count >= 3 THEN W - regburst_length ELSE W - regburst_length - 1

WbOffered ==   \* the first word is being read, then the command is up
  /\ mc_state = "IDLE"
  /\ xfer_cnt = 0
  /\ burst_issue \/ (burst_issue_delayed /\ way_spo = bram[HostLine][0])

WbAccepted ==
  /\ mc_state = "WE_BEGIN"
  /\ ~burst_issue /\ ~burst_issue_delayed
  /\ xfer_cnt = 0
  /\ regburst_length = W /\ count = 4
  /\ ~ready_r /\ ~mid_byte
  /\ rega = burst_wb_base_a
  /\ regbuf = bram[HostLine][0]

WbSending ==
  /\ mc_state = "WE"
  /\ ~burst_issue /\ ~burst_issue_delayed
  /\ Sending \in Offset
  /\ rega = burst_wb_base_a
  /\ regbuf = bram[HostLine][Sending]
  /\ Moved(burst_wb_base_a, Sending)
  /\ ready_r => count = 2 /\ ~mid_byte /\ Sending < W - 1
  /\ xfer_cnt = IF count >= 3 \/ ready_r \/ Sending = W - 1 THEN Sending
                                                            ELSE Sending + 1
  /\ count <= 1 /\ Sending < W - 1 => way_spo = bram[HostLine][Sending + 1]

WbDone ==
  /\ mc_state = "IDLE"
  /\ ~burst_issue /\ ~burst_issue_delayed
  /\ Moved(burst_wb_base_a, W)
  /\ xfer_cnt \in {W - 1, W}

WritebackInv ==
  c_state = "WRITEBACK" =>
    /\ Index(burst_wb_base_a) = HostLine
    /\ WbOffered \/ WbAccepted \/ WbSending \/ WbDone

\* The words of a read burst that the controller has received.
Received == W - regburst_length

\* What xfer_cnt is when n words have been taken.
Taken(n) == IF n = 0 THEN XFER_WRAP - 1 ELSE n - 1

LdOffered ==
  /\ mc_state = "IDLE"
  /\ burst_issue
  /\ ~burst_we

LdAccepted ==
  /\ mc_state = "RD_BEGIN"
  /\ ~burst_issue /\ ~burst_we
  /\ xfer_cnt = Taken(0)
  /\ regburst_length = W /\ count = 4
  /\ ~ready_r /\ ~mid_byte
  /\ rega = HostBlock

LdReceiving ==
  /\ mc_state = "RD"
  /\ ~burst_issue
  /\ rega = HostBlock
  /\ Received \in Offset
  /\ Received > 0 => regspo = psram[HostBlock][Received - 1]
  /\ count = 0 => ~mid_byte
  /\ IF ready_r
     THEN /\ Received > 0 /\ count = 4 /\ ~mid_byte /\ ~burst_we
          /\ xfer_cnt = Taken(Received - 1)
          /\ Moved(HostBlock, Received - 1)
     ELSE /\ xfer_cnt = Taken(Received)
          /\ burst_we => Received > 0 /\ count = 4
          /\ Moved(HostBlock, IF burst_we THEN Received - 1 ELSE Received)

LdDone ==
  /\ mc_state = "IDLE"
  /\ ~burst_issue
  /\ regspo = psram[HostBlock][W - 1]
  /\ Moved(HostBlock, W - 1)
  /\ xfer_cnt = IF burst_we THEN W - 1 ELSE W - 2
  /\ burst_we => ready_r

LoadInv ==
  c_state = "LOAD" =>
    /\ LdOffered \/ LdAccepted \/ LdReceiving \/ LdDone
    /\ ~burst_issue => tags[HostLine] = [b |-> HostBlock, valid |-> TRUE, dirty |-> FALSE]

IInv ==
  /\ TypeOK /\ BusInv /\ TagInv /\ CleanInv /\ QuietInv
  /\ WritebackInv /\ LoadInv

-----------------------------------------------------------------------------
(* Facts about the constants and the operators.                             *)

LEMMA Sizes ==
  /\ W \in Nat /\ W >= 2 /\ W <= 128
  /\ WAY_LINES \in Nat \ {0}
  /\ Blocks \in Nat \ {0}
  /\ XFER_WRAP \in Nat /\ XFER_WRAP > 256
  BY CacheAssumption DEF W, XFER_WRAP

LEMMA Remainder ==
  ASSUME NEW x \in Nat, NEW n \in Nat \ {0}
  PROVE  x % n \in 0 .. n - 1
  OBVIOUS

LEMMA SmallRemainder ==
  ASSUME NEW x \in Nat, NEW n \in Nat \ {0}, x < n
  PROVE  x % n = x
  OBVIOUS

\* A block has a line, and the low bits of a counter are an offset.
LEMMA IndexIsLine ==
  ASSUME NEW b \in Block
  PROVE  Index(b) \in Line
<1>1. b \in Nat BY Sizes DEF Block
<1>2. b % WAY_LINES \in 0 .. WAY_LINES - 1 BY <1>1, Sizes, Remainder
<1> QED BY <1>2 DEF Line, Index

LEMMA LowBits ==
  ASSUME NEW x \in Nat
  PROVE  x % W \in Offset /\ (x < W => x % W = x)
<1>1. W \in Nat \ {0} BY Sizes
<1>2. x % W \in 0 .. W - 1 BY <1>1, Remainder
<1>3. x < W => x % W = x BY <1>1, SmallRemainder
<1> QED BY <1>2, <1>3 DEF Offset

\* The counter of 16 bits.
LEMMA Count16 ==
  ASSUME NEW x \in 0 .. XFER_WRAP - 1
  PROVE  /\ (x + 1) % XFER_WRAP \in 0 .. XFER_WRAP - 1
         /\ (x + 1) % XFER_WRAP = IF x = XFER_WRAP - 1 THEN 0 ELSE x + 1
<1>1. XFER_WRAP \in Nat \ {0} BY DEF XFER_WRAP
<1>2. x + 1 \in Nat BY <1>1
<1>3. (x + 1) % XFER_WRAP \in 0 .. XFER_WRAP - 1 BY <1>1, <1>2, Remainder
<1>4. CASE x = XFER_WRAP - 1 BY <1>1, <1>4
<1>5. CASE x + 1 < XFER_WRAP BY <1>1, <1>2, <1>5, SmallRemainder
<1> QED BY <1>1, <1>3, <1>4, <1>5

LEMMA AddressParts ==
  ASSUME NEW a \in Address
  PROVE  a.b \in Block /\ a.o \in Offset /\ Index(a.b) \in Line
  BY IndexIsLine DEF Address

\* What a clock edge of the way does, entry by entry.
LEMMA WayStep ==
  ASSUME CacheTypeOK, NEW a \in Address, NEW d \in Word, NEW we, NEW tag_we,
         NEW tag_in \in Tag, Way(a, d, we, tag_we, tag_in)
  PROVE  /\ way_spo' = bram[Index(a.b)][a.o]
         /\ way_spo' \in Word
         /\ bram' \in [Line -> [Offset -> Word]]
         /\ tags' \in [Line -> Tag]
         /\ \A l \in Line : tags'[l] = IF tag_we /\ l = Index(a.b) THEN tag_in ELSE tags[l]
         /\ \A l \in Line : ~we \/ l # Index(a.b) => bram'[l] = bram[l]
         /\ \A l \in Line, o \in Offset :
              bram'[l][o] = IF we /\ l = Index(a.b) /\ o = a.o THEN d ELSE bram[l][o]
<1>1. a.b \in Block /\ a.o \in Offset /\ Index(a.b) \in Line
  BY AddressParts
<1>2. bram \in [Line -> [Offset -> Word]] /\ tags \in [Line -> Tag]
  BY DEF CacheTypeOK
<1>3. /\ way_spo' = bram[Index(a.b)][a.o]
      /\ bram' = IF we THEN [bram EXCEPT ![Index(a.b)][a.o] = d] ELSE bram
      /\ tags' = IF tag_we THEN [tags EXCEPT ![Index(a.b)] = tag_in] ELSE tags
  BY DEF Way
<1>4. /\ tags' \in [Line -> Tag]
      /\ \A l \in Line : tags'[l] = IF tag_we /\ l = Index(a.b) THEN tag_in ELSE tags[l]
  BY <1>1, <1>2, <1>3
<1>5. /\ bram' \in [Line -> [Offset -> Word]]
      /\ \A l \in Line : ~we \/ l # Index(a.b) => bram'[l] = bram[l]
      /\ \A l \in Line, o \in Offset :
              bram'[l][o] = IF we /\ l = Index(a.b) /\ o = a.o THEN d ELSE bram[l][o]
  BY <1>1, <1>2, <1>3
<1> QED BY <1>1, <1>2, <1>3, <1>4, <1>5

-----------------------------------------------------------------------------
(* What one clock does on the CPU's side of the bus and in an idle          *)
(* controller.                                                              *)

CpuStep == CpuRequest \/ CpuPause \/ CpuEndRequest \/ CpuMemWait

CpuTypeOK ==
  /\ cpu_we \in BOOLEAN /\ cpu_rd \in BOOLEAN /\ ~(cpu_we /\ cpu_rd)
  /\ cpu_a \in Address /\ cpu_d \in Word
  /\ cpu_waits \in BOOLEAN /\ cpu_read \in BOOLEAN
  /\ mdr \in Word

LEMMA CpuTypes ==
  ASSUME TypeOK, CpuStep
  PROVE  CpuTypeOK'
<1> USE DEF TypeOK, CpuTypeOK, CacheTypeOK
<1>1. CASE CpuRequest BY <1>1 DEF CpuRequest
<1>2. CASE CpuPause BY <1>2 DEF CpuPause, cpuBusVars
<1>3. CASE CpuEndRequest BY <1>3 DEF CpuEndRequest
<1>4. CASE CpuMemWait BY <1>4 DEF CpuMemWait
<1> QED BY <1>1, <1>2, <1>3, <1>4 DEF CpuStep

\* A request is up for one clock, with its address and data.
LEMMA CpuAsks ==
  ASSUME TypeOK, BusInv, CpuStep, cpu_we \/ cpu_rd
  PROVE  /\ ~cpu_we' /\ ~cpu_rd' /\ cpu_waits'
         /\ UNCHANGED <<cpu_a, cpu_d, cpu_read, mdr>>
  BY DEF CpuStep, CpuRequest, CpuPause, CpuEndRequest, CpuMemWait, BusInv

\* While the cache works the CPU waits.
LEMMA CpuHeld ==
  ASSUME TypeOK, BusInv, CpuStep, c_state \in {"HIT", "LOAD", "WRITEBACK"}
  PROVE  ~cpu_we /\ ~cpu_rd /\ cpu_waits /\ UNCHANGED cpuBusVars
  BY DEF CpuStep, CpuRequest, CpuPause, CpuEndRequest, CpuMemWait, BusInv,
         MemReady, ready, cpuBusVars

\* Then it takes the answer.
LEMMA CpuTakes ==
  ASSUME TypeOK, BusInv, CpuStep, c_state = "IDLE", cpu_waits
  PROVE  /\ ~cpu_we /\ ~cpu_rd /\ MemReady
         /\ ~cpu_we' /\ ~cpu_rd' /\ ~cpu_waits'
         /\ mdr' = IF cpu_read THEN way_spo ELSE mdr
         /\ UNCHANGED <<cpu_a, cpu_d, cpu_read>>
<1>1. ~cpu_we /\ ~cpu_rd BY DEF BusInv
<1>2. MemReady BY <1>1 DEF MemReady, ready
<1>3. CpuMemWait BY <1>1 DEF CpuStep, CpuRequest, CpuPause, CpuEndRequest
<1> QED BY <1>1, <1>2, <1>3 DEF CpuMemWait

\* Otherwise it does nothing or puts up a request, not before the tags are cleared.
LEMMA CpuRests ==
  ASSUME TypeOK, BusInv, CpuStep, ~cpu_we, ~cpu_rd, ~cpu_waits
  PROVE  /\ ~cpu_waits' /\ mdr' = mdr
         /\ c_state = "INIT" => ~cpu_we' /\ ~cpu_rd'
         /\ cpu_we' \/ cpu_rd' => cpu_read' = cpu_rd'
  BY DEF CpuStep, CpuRequest, CpuPause, CpuEndRequest, CpuMemWait, cpuBusVars

\* The controller without a command.
LEMMA McQuiet ==
  ASSUME TypeOK, mc_state = "IDLE", ~lowmem_we, ~lowmem_rd,
         MC!MCClock(lowmem_we, lowmem_rd, lowmem_a, lowmem_d)
  PROVE  /\ MC!MCTypeOK'
         /\ mc_state' = "IDLE"
         /\ UNCHANGED <<regspo, psram>>
         /\ ready_r => ready_r'
<1>1. MC!McIdle(lowmem_we, lowmem_rd, lowmem_a, lowmem_d)
  BY DEF MC!MCClock, MC!McBegin, MC!McHalf, MC!WeByte, MC!WeWord, MC!RdByte, MC!RdWord
<1>2. lowmem_a \in Block /\ lowmem_d \in Word
  BY AddressParts DEF lowmem_a, lowmem_d, TypeOK, CacheTypeOK
<1>3. W \in 0 .. W BY Sizes
<1> QED BY <1>1, <1>2, <1>3 DEF MC!McIdle, MC!MCTypeOK, TypeOK

-----------------------------------------------------------------------------
(* The steps of the cache, by its state.                                    *)

CacheStep ==
  CacheClock(cpu_we, cpu_rd, cpu_a, cpu_d, MC!mc_ready(lowmem_we, lowmem_rd), regspo)
McStep == MC!MCClock(lowmem_we, lowmem_rd, lowmem_a, lowmem_d)

LEMMA InitStep ==
  ASSUME IInv, CpuStep, CacheStep, McStep, c_state = "INIT"
  PROVE  IInv'
<1>1. ClearTags /\ burst_issue_delayed' = burst_issue
  BY DEF CacheStep, CacheClock, Idle, Hit, Writeback, Load
<1>2. MC!MCTypeOK' /\ mc_state' = "IDLE"
  BY McQuiet DEF McStep, IInv, QuietInv, lowmem_we, lowmem_rd
<1>3. CpuTypeOK'
  BY CpuTypes DEF IInv
<1>4. ~cpu_we' /\ ~cpu_rd' /\ ~cpu_waits'
  BY CpuRests DEF IInv, BusInv
<1>5. ~burst_we' /\ burst_we' = burst_we
  BY <1>1 DEF ClearTags, IInv, QuietInv
<1>6. CASE init_count < WAY_LINES
  <2>1. init_count \in Line /\ init_count + 1 \in 0 .. WAY_LINES
    BY <1>6, Sizes DEF Line, IInv, TypeOK, CacheTypeOK
  <2>2. /\ tags' = [tags EXCEPT ![init_count] = [b |-> 0, valid |-> FALSE, dirty |-> FALSE]]
        /\ init_count' = init_count + 1
        /\ c_state' = "INIT"
        /\ UNCHANGED <<bram, way_spo, burst_issue, burst_wb_base_a, host_a,
                       host_d, host_weorrd, xfer_cnt>>
    BY <1>1, <1>6 DEF ClearTags
  <2>3. [b |-> 0, valid |-> FALSE, dirty |-> FALSE] \in Tag
    BY Sizes DEF Tag, Block
  <2>4. CacheTypeOK'
    BY <1>1, <1>5, <2>1, <2>2, <2>3 DEF IInv, TypeOK, CacheTypeOK
  <2>5. TagInv'
    <3>1. ASSUME NEW l \in Line, l # init_count
          PROVE  tags'[l] = tags[l] /\ (l >= init_count => l >= init_count + 1)
      BY <2>1, <2>2, <3>1, Sizes DEF IInv, TypeOK, CacheTypeOK, Line
    <3>2. ~tags'[init_count].valid
      BY <2>1, <2>2 DEF IInv, TypeOK, CacheTypeOK
    <3> QED BY <2>2, <3>1, <3>2 DEF IInv, TagInv
  <2> QED
    BY <1>2, <1>3, <1>4, <1>5, <2>2, <2>4, <2>5
    DEF IInv, TypeOK, CpuTypeOK, BusInv, CleanInv, QuietInv, WritebackInv, LoadInv
<1>7. CASE init_count = WAY_LINES
  <2>1. /\ c_state' = "IDLE"
        /\ UNCHANGED <<tags, init_count, bram, way_spo, burst_issue, burst_wb_base_a,
                       host_a, host_d, host_weorrd, xfer_cnt>>
    BY <1>1, <1>7, Sizes DEF ClearTags
  <2>2. CacheTypeOK'
    BY <1>1, <1>5, <2>1 DEF IInv, TypeOK, CacheTypeOK
  <2>3. \A l \in Line : ~tags[l].valid
    BY <1>7, Sizes DEF IInv, TagInv, Line
  <2> QED
    BY <1>2, <1>3, <1>4, <1>5, <2>1, <2>2, <2>3
    DEF IInv, TypeOK, CpuTypeOK, BusInv, TagInv, CleanInv, QuietInv, WritebackInv, LoadInv
<1> QED BY <1>6, <1>7, Sizes DEF IInv, TypeOK, CacheTypeOK

\* The block has been loaded, and the request of the CPU is carried out on it.
LEMMA HitStep ==
  ASSUME IInv, CpuStep, CacheStep, McStep, c_state = "HIT"
  PROVE  IInv'
<1> DEFINE newtag == [b |-> cpu_a.b, valid |-> TRUE,
                      dirty |-> host_weorrd \/ tags[Index(host_a.b)].dirty]
<1>1. /\ Way(host_a, host_d, host_weorrd, TRUE, newtag)
      /\ c_state' = "IDLE"
      /\ burst_issue_delayed' = burst_issue
      /\ UNCHANGED <<init_count, burst_issue, burst_we, burst_wb_base_a, host_a,
                     host_d, host_weorrd, xfer_cnt>>
  BY DEF CacheStep, CacheClock, ClearTags, Idle, Hit, Writeback, Load
<1>2. MC!MCTypeOK' /\ mc_state' = "IDLE" /\ psram' = psram
  BY McQuiet DEF McStep, IInv, QuietInv, lowmem_we, lowmem_rd
<1>3. CpuTypeOK'
  BY CpuTypes DEF IInv
<1>4. ~cpu_we /\ ~cpu_rd /\ cpu_waits /\ UNCHANGED cpuBusVars
  BY CpuHeld DEF IInv
<1>5. host_a = cpu_a /\ host_a \in Address /\ HostLine \in Line
  BY AddressParts DEF IInv, BusInv, TypeOK, CacheTypeOK, HostLine
<1>6. tags[HostLine] = [b |-> host_a.b, valid |-> TRUE, dirty |-> FALSE]
  BY DEF IInv, QuietInv, HostBlock
<1>7. newtag \in Tag /\ newtag.b = host_a.b /\ newtag.valid /\ newtag.dirty = host_weorrd
  BY <1>5, <1>6, AddressParts DEF IInv, TypeOK, CacheTypeOK, Tag, HostLine
<1>8. /\ way_spo' \in Word
      /\ bram' \in [Line -> [Offset -> Word]]
      /\ tags' \in [Line -> Tag]
      /\ \A l \in Line : tags'[l] = IF l = HostLine THEN newtag ELSE tags[l]
      /\ \A l \in Line : ~host_weorrd \/ l # HostLine => bram'[l] = bram[l]
  <2> HIDE DEF newtag
  <2>1. CacheTypeOK /\ host_d \in Word /\ host_weorrd \in BOOLEAN
    BY DEF IInv, TypeOK, CacheTypeOK
  <2>2. /\ way_spo' \in Word
        /\ bram' \in [Line -> [Offset -> Word]]
        /\ tags' \in [Line -> Tag]
        /\ \A l \in Line : tags'[l] = IF TRUE /\ l = Index(host_a.b) THEN newtag ELSE tags[l]
        /\ \A l \in Line : ~host_weorrd \/ l # Index(host_a.b) => bram'[l] = bram[l]
    BY <1>1, <1>5, <1>7, <2>1, WayStep DEF Way
  <2> QED BY <2>2 DEF HostLine
<1> HIDE DEF newtag
<1>9. CacheTypeOK'
  BY <1>1, <1>8 DEF IInv, TypeOK, CacheTypeOK
<1>10. TagInv'
  BY <1>1, <1>5, <1>7, <1>8 DEF IInv, TagInv, HostLine
<1>11. CleanInv'
  BY <1>1, <1>2, <1>5, <1>6, <1>7, <1>8 DEF IInv, CleanInv
<1> QED
  BY <1>1, <1>2, <1>3, <1>4, <1>9, <1>10, <1>11
  DEF IInv, TypeOK, CpuTypeOK, BusInv, QuietInv, WritebackInv, LoadInv, cpuBusVars

\* At rest: nothing to do, a hit, or the start of an exchange.
LEMMA IdleStep ==
  ASSUME IInv, CpuStep, CacheStep, McStep, c_state = "IDLE"
  PROVE  IInv'
<1> DEFINE ask == cpu_we \/ cpu_rd
           line == Index(cpu_a.b)
           tag == tags[line]
           hit == ask /\ way_hit(cpu_a)
           miss == ask /\ ~way_hit(cpu_a)
           writeback == miss /\ tag.valid /\ tag.dirty
           newtag == [b |-> cpu_a.b, valid |-> TRUE, dirty |-> cpu_we \/ tag.dirty]
<1>1. /\ Way(cpu_a, cpu_d, hit /\ cpu_we, hit, newtag)
      /\ xfer_cnt' = 0
      /\ burst_issue' = TRUE
      /\ IF ask THEN host_a' = cpu_a /\ host_d' = cpu_d /\ host_weorrd' = cpu_we
                ELSE UNCHANGED <<host_a, host_d, host_weorrd>>
      /\ c_state' = IF writeback THEN "WRITEBACK" ELSE IF miss THEN "LOAD" ELSE "IDLE"
      /\ burst_wb_base_a' = IF writeback THEN tag.b ELSE burst_wb_base_a
      /\ UNCHANGED <<init_count, burst_we>>
      /\ burst_issue_delayed' = burst_issue
  BY DEF CacheStep, CacheClock, ClearTags, Idle, Hit, Writeback, Load
<1>2. MC!MCTypeOK' /\ mc_state' = "IDLE" /\ psram' = psram
  BY McQuiet DEF McStep, IInv, QuietInv, lowmem_we, lowmem_rd
<1>3. CpuTypeOK'
  BY CpuTypes DEF IInv
<1>4. cpu_a \in Address /\ cpu_a.b \in Block /\ line \in Line
  BY AddressParts DEF IInv, TypeOK
<1>5. tag \in Tag /\ newtag \in Tag
  BY <1>4 DEF IInv, TypeOK, CacheTypeOK, Tag
<1>6. newtag.b = cpu_a.b /\ newtag.valid /\ (~newtag.dirty => ~cpu_we /\ ~tag.dirty)
  OBVIOUS
<1> HIDE DEF newtag, hit
<1>7. /\ way_spo' \in Word
      /\ bram' \in [Line -> [Offset -> Word]]
      /\ tags' \in [Line -> Tag]
      /\ \A l \in Line : tags'[l] = IF hit /\ l = line THEN newtag ELSE tags[l]
      /\ \A l \in Line : ~(hit /\ cpu_we) \/ l # line => bram'[l] = bram[l]
  <2>1. CacheTypeOK /\ cpu_d \in Word
    BY DEF IInv, TypeOK
  <2> QED BY <1>1, <1>4, <1>5, <2>1, WayStep DEF Way
<1>8. hit => tag.valid /\ tag.b = cpu_a.b /\ ~miss
  BY DEF way_hit, hit
<1>9. CacheTypeOK'
  <2>1. 0 \in 0 .. XFER_WRAP - 1 BY Sizes
  <2>2. tag.b \in Block BY <1>5 DEF Tag
  <2> QED BY <1>1, <1>4, <1>7, <2>1, <2>2 DEF IInv, TypeOK, CacheTypeOK
<1>10. BusInv'
  <2>1. CASE ask
    BY <1>1, <2>1, CpuAsks DEF IInv, BusInv, TypeOK
  <2>2. CASE ~ask /\ cpu_waits
    BY <1>1, <2>2, CpuTakes DEF IInv, BusInv
  <2>3. CASE ~ask /\ ~cpu_waits
    BY <1>1, <2>3, CpuRests DEF IInv, BusInv
  <2> QED BY <2>1, <2>2, <2>3
<1>11. TagInv'
  BY <1>1, <1>4, <1>6, <1>7, <1>8 DEF IInv, TagInv
<1>12. CleanInv'
  <2> SUFFICES ASSUME NEW l \in Line, (tags[l].valid /\ ~tags[l].dirty)',
                      ~(c_state \in {"LOAD", "WRITEBACK"} /\ l = HostLine)'
               PROVE  (bram[l] = psram[tags[l].b])'
    BY DEF CleanInv
  <2>1. CASE hit /\ l = line
    BY <1>2, <1>4, <1>6, <1>7, <1>8, <2>1 DEF IInv, CleanInv
  <2>2. CASE ~(hit /\ l = line)
    BY <1>2, <1>7, <2>2 DEF IInv, CleanInv
  <2> QED BY <2>1, <2>2
<1>13. QuietInv'
  BY <1>1, <1>2 DEF IInv, QuietInv
<1>14. WritebackInv'
  <2>1. writeback => Index(tag.b) = line
    BY <1>4 DEF IInv, TagInv
  <2> QED BY <1>1, <1>2, <2>1 DEF WritebackInv, WbOffered, HostLine
<1>15. LoadInv'
  BY <1>1, <1>2 DEF LoadInv, LdOffered, IInv, QuietInv
<1> QED
  BY <1>2, <1>3, <1>9, <1>10, <1>11, <1>12, <1>13, <1>14, <1>15
  DEF IInv, TypeOK, CpuTypeOK

-----------------------------------------------------------------------------
(* Writing back.                                                            *)

\* What a step of a write-back does apart from the burst itself.
LEMMA WritebackFrame ==
  ASSUME IInv, CpuStep, CacheStep, c_state = "WRITEBACK"
  PROVE  /\ CpuTypeOK' /\ UNCHANGED cpuBusVars
         /\ UNCHANGED <<host_a, host_d, host_weorrd, burst_we, burst_wb_base_a, init_count>>
         /\ HostLine \in Line /\ HostBlock \in Block
         /\ bram' = bram
         /\ tags' \in [Line -> Tag]
         /\ \A l \in Line : l # HostLine => tags'[l] = tags[l]
         /\ tags'[HostLine].b = HostBlock \/ tags'[HostLine] = tags[HostLine]
         /\ way_spo' = bram[HostLine][xfer_cnt % W]
         /\ way_spo' \in Word
         /\ burst_issue_delayed' = burst_issue
         /\ IF burst_issue
              THEN burst_issue' = FALSE /\ xfer_cnt' = 0 /\ UNCHANGED c_state
              ELSE /\ xfer_cnt' = IF ready_r /\ ~lowmem_we
                                  THEN (xfer_cnt + 1) % XFER_WRAP ELSE xfer_cnt
                   /\ IF xfer_cnt = W
                        THEN c_state' = "LOAD" /\ burst_issue' = TRUE
                        ELSE UNCHANGED <<c_state, burst_issue>>
<1> DEFINE newtag == [b |-> cpu_a.b, valid |-> TRUE, dirty |-> FALSE]
           at == [b |-> burst_wb_base_a, o |-> xfer_cnt % W]
<1>1. Writeback(cpu_a, MC!mc_ready(lowmem_we, lowmem_rd)) /\ burst_issue_delayed' = burst_issue
  BY DEF CacheStep, CacheClock, ClearTags, Idle, Hit, Load
<1>2. ~lowmem_rd BY DEF lowmem_rd
<1>3. MC!mc_ready(lowmem_we, lowmem_rd) <=> ready_r /\ ~lowmem_we
  BY <1>2 DEF MC!mc_ready
<1>4. CpuTypeOK' BY CpuTypes DEF IInv
<1>5. UNCHANGED cpuBusVars BY CpuHeld DEF IInv
<1>6. host_a = cpu_a /\ HostLine \in Line /\ HostBlock \in Block
      /\ Index(burst_wb_base_a) = HostLine
  BY AddressParts DEF IInv, BusInv, WritebackInv, TypeOK, CacheTypeOK, HostLine, HostBlock
<1>7. xfer_cnt % W \in Offset
  BY LowBits, Sizes DEF IInv, TypeOK, CacheTypeOK
<1>8. at \in Address /\ at.b = burst_wb_base_a /\ at.o = xfer_cnt % W
  BY <1>7 DEF Address, IInv, TypeOK, CacheTypeOK
<1>9. newtag \in Tag /\ newtag.b = HostBlock
  BY <1>6 DEF Tag, HostBlock
<1>10. Way(at, host_d, FALSE, burst_issue, newtag)
  BY <1>1 DEF Writeback
<1> HIDE DEF newtag, at
<1>11. /\ way_spo' = bram[HostLine][xfer_cnt % W]
       /\ way_spo' \in Word
       /\ tags' \in [Line -> Tag]
       /\ \A l \in Line : tags'[l] = IF burst_issue /\ l = HostLine THEN newtag ELSE tags[l]
  <2>1. CacheTypeOK /\ host_d \in Word
    BY DEF IInv, TypeOK, CacheTypeOK
  <2> QED BY <1>6, <1>8, <1>9, <1>10, <2>1, WayStep DEF Way
<1>12. bram' = bram
  BY <1>10 DEF Way
<1>13. tags'[HostLine].b = HostBlock \/ tags'[HostLine] = tags[HostLine]
  BY <1>6, <1>9, <1>11
<1> QED BY <1>1, <1>3, <1>4, <1>5, <1>6, <1>11, <1>12, <1>13 DEF Writeback

\* The invariants of the other lines survive: only the block that is written back
\* changes in memory, and it belongs to the line of the host.
LEMMA WritebackRest ==
  ASSUME IInv, CpuStep, CacheStep, c_state = "WRITEBACK",
         MC!MCTypeOK', xfer_cnt' \in 0 .. XFER_WRAP - 1,
         \A b \in Block : b # burst_wb_base_a => psram'[b] = psram[b]
  PROVE  /\ TypeOK' /\ BusInv' /\ TagInv' /\ CleanInv' /\ QuietInv'
         /\ HostLine' = HostLine /\ HostBlock' = HostBlock
<1>1. HostLine' = HostLine /\ HostBlock' = HostBlock
  BY WritebackFrame DEF HostLine, HostBlock
<1>2. c_state' \in {"WRITEBACK", "LOAD"} /\ burst_issue' \in BOOLEAN
  BY WritebackFrame DEF IInv, TypeOK, CacheTypeOK
<1>3. TypeOK'
  BY <1>2, WritebackFrame DEF IInv, TypeOK, CacheTypeOK, CpuTypeOK
<1>4. BusInv'
  <2>1. UNCHANGED <<cpu_we, cpu_rd, cpu_waits, cpu_read, cpu_a, cpu_d, host_a, host_d, host_weorrd>>
    BY WritebackFrame DEF cpuBusVars
  <2>2. /\ ~cpu_we /\ ~cpu_rd /\ cpu_waits
        /\ host_a = cpu_a /\ host_d = cpu_d /\ host_weorrd = ~cpu_read
    BY DEF IInv, BusInv
  <2> QED BY <1>2, <2>1, <2>2 DEF BusInv
<1>5. TagInv'
  <2>1. ASSUME NEW l \in Line, tags'[l].valid PROVE Index(tags'[l].b) = l
    <3>1. CASE tags'[l] = tags[l]
      BY <2>1, <3>1 DEF IInv, TagInv
    <3>2. CASE l = HostLine /\ tags'[l].b = HostBlock
      BY <3>2 DEF HostLine, HostBlock
    <3> QED BY <3>1, <3>2, WritebackFrame
  <2> QED BY <1>2, <2>1 DEF TagInv
<1>6. CleanInv'
  <2> SUFFICES ASSUME NEW l \in Line, l # HostLine, (tags[l].valid /\ ~tags[l].dirty)'
               PROVE  (bram[l] = psram[tags[l].b])'
    BY <1>1, <1>2 DEF CleanInv
  <2>1. tags'[l] = tags[l] /\ bram' = bram
    BY WritebackFrame
  <2>2. Index(tags[l].b) = l /\ bram[l] = psram[tags[l].b]
    BY <2>1 DEF IInv, TagInv, CleanInv
  <2>3. tags[l].b \in Block /\ tags[l].b # burst_wb_base_a
    BY <2>2 DEF IInv, TypeOK, CacheTypeOK, Tag, WritebackInv
  <2> QED BY <2>1, <2>2, <2>3
<1>7. QuietInv'
  BY <1>2, WritebackFrame DEF IInv, QuietInv
<1> QED BY <1>1, <1>3, <1>4, <1>5, <1>6, <1>7

\* The command is put up, and then heard by the idle controller.
LEMMA WbOfferedStep ==
  ASSUME IInv, CpuStep, CacheStep, McStep, c_state = "WRITEBACK", WbOffered
  PROVE  IInv'
<1>1. xfer_cnt % W = 0 /\ 0 \in 0 .. XFER_WRAP - 1 /\ xfer_cnt # W
  BY LowBits, Sizes DEF WbOffered
<1>2. CASE burst_issue
  <2>1. ~lowmem_we /\ ~lowmem_rd
    BY <1>2 DEF lowmem_we, lowmem_rd
  <2>2. MC!MCTypeOK' /\ mc_state' = "IDLE" /\ psram' = psram
    BY <2>1, McQuiet DEF McStep, IInv, WbOffered
  <2>3. /\ c_state' = "WRITEBACK" /\ xfer_cnt' = 0 /\ burst_issue' = FALSE
        /\ burst_issue_delayed' /\ way_spo' = bram[HostLine][0] /\ bram' = bram
        /\ burst_wb_base_a' = burst_wb_base_a
    BY <1>1, <1>2, WritebackFrame
  <2>4. /\ TypeOK' /\ BusInv' /\ TagInv' /\ CleanInv' /\ QuietInv'
        /\ HostLine' = HostLine
    BY <1>1, <2>2, <2>3, WritebackRest
  <2>5. WritebackInv'
    BY <2>2, <2>3, <2>4 DEF IInv, WritebackInv, WbOffered
  <2> QED BY <2>3, <2>4, <2>5 DEF IInv, LoadInv
<1>3. CASE ~burst_issue
  <2>1. lowmem_we /\ ~lowmem_rd /\ lowmem_a = burst_wb_base_a
        /\ lowmem_d = bram[HostLine][0]
    BY <1>3 DEF lowmem_we, lowmem_rd, lowmem_a, lowmem_d, WbOffered
  <2>2. MC!McIdle(lowmem_we, lowmem_rd, lowmem_a, lowmem_d)
    BY DEF McStep, WbOffered, MC!MCClock, MC!McBegin, MC!McHalf, MC!WeByte, MC!WeWord,
           MC!RdByte, MC!RdWord
  <2>3. /\ mc_state' = "WE_BEGIN" /\ ready_r' = FALSE /\ count' = 4 /\ mid_byte' = FALSE
        /\ rega' = burst_wb_base_a /\ regbuf' = bram[HostLine][0]
        /\ regburst_length' = W
        /\ UNCHANGED <<regspo, psram>>
    BY <2>1, <2>2 DEF MC!McIdle
  <2>4. burst_wb_base_a \in Block /\ lowmem_d \in Word /\ W \in 0 .. W
    BY Sizes DEF IInv, TypeOK, CacheTypeOK, lowmem_d
  <2>5. MC!MCTypeOK'
    <3>1. regspo \in Word /\ psram \in [Block -> [Offset -> Word]]
      BY DEF IInv, TypeOK, MC!MCTypeOK
    <3>2. regburst_length' \in 0 .. W /\ regbuf' \in Word
      BY <2>1, <2>3, <2>4
    <3>3. mc_state' \in {"IDLE", "WE_BEGIN", "WE", "RD_BEGIN", "RD"} BY <2>3
    <3>4. ready_r' \in BOOLEAN /\ mid_byte' \in BOOLEAN BY <2>3
    <3>5. count' \in 0 .. 4 BY <2>3
    <3>6. rega' \in Block BY <2>3, <2>4
    <3>7. regspo' \in Word /\ psram' \in [Block -> [Offset -> Word]] BY <2>3, <3>1
    <3> QED BY <3>2, <3>3, <3>4, <3>5, <3>6, <3>7 DEF MC!MCTypeOK
  <2>6. /\ c_state' = "WRITEBACK" /\ xfer_cnt' = 0 /\ burst_issue' = FALSE
        /\ burst_issue_delayed' = FALSE /\ bram' = bram
        /\ burst_wb_base_a' = burst_wb_base_a
    BY <1>1, <1>3, <2>1, WritebackFrame DEF WbOffered, IInv, TypeOK, CacheTypeOK
  <2>7. /\ TypeOK' /\ BusInv' /\ TagInv' /\ CleanInv' /\ QuietInv'
        /\ HostLine' = HostLine
    BY <1>1, <2>3, <2>5, <2>6, WritebackRest
  <2>8. WritebackInv'
    BY <2>3, <2>6, <2>7 DEF IInv, WritebackInv, WbAccepted
  <2> QED BY <2>6, <2>7, <2>8 DEF IInv, LoadInv
<1> QED BY <1>2, <1>3

\* The PSRAM gets ready.
LEMMA WbAcceptedStep ==
  ASSUME IInv, CpuStep, CacheStep, McStep, c_state = "WRITEBACK", WbAccepted
  PROVE  IInv'
<1>1. 0 \in 0 .. XFER_WRAP - 1 /\ xfer_cnt # W
  BY Sizes DEF WbAccepted
<1>2. ~lowmem_we BY DEF lowmem_we, WbAccepted
<1>3. /\ mc_state' \in {"WE_BEGIN", "WE"}
      /\ UNCHANGED <<ready_r, rega, regburst_length, count, regbuf, regspo, mid_byte, psram>>
  BY DEF McStep, WbAccepted, MC!MCClock, MC!McIdle, MC!McBegin, MC!McHalf, MC!WeByte,
         MC!WeWord, MC!RdByte, MC!RdWord
<1>4. MC!MCTypeOK'
  BY <1>3 DEF IInv, TypeOK, MC!MCTypeOK
<1>5. /\ c_state' = "WRITEBACK" /\ xfer_cnt' = 0 /\ burst_issue' = FALSE
      /\ burst_issue_delayed' = FALSE /\ bram' = bram
      /\ burst_wb_base_a' = burst_wb_base_a
  BY <1>1, <1>2, WritebackFrame DEF WbAccepted, IInv, TypeOK, CacheTypeOK
<1>6. /\ TypeOK' /\ BusInv' /\ TagInv' /\ CleanInv' /\ QuietInv'
      /\ HostLine' = HostLine
  BY <1>1, <1>3, <1>4, <1>5, WritebackRest
<1>7. CASE mc_state' = "WE_BEGIN"
  <2>1. WbAccepted'
    BY <1>3, <1>5, <1>6, <1>7 DEF WbAccepted
  <2> QED BY <1>5, <1>6, <2>1 DEF IInv, WritebackInv, LoadInv
<1>8. CASE mc_state' = "WE"
  <2>1. count' = 4 /\ regburst_length' = W /\ ready_r' = FALSE
    BY <1>3 DEF WbAccepted, IInv, TypeOK, MC!MCTypeOK
  <2>2. Sending' = 0 /\ 0 \in Offset
    BY <2>1, Sizes DEF Sending, Offset
  <2>3. Moved(burst_wb_base_a, Sending)'
    BY <2>2 DEF Moved, Offset
  <2>4. WbSending'
    BY <1>3, <1>5, <1>6, <1>8, <2>1, <2>2, <2>3 DEF WbAccepted, WbSending
  <2> QED BY <1>5, <1>6, <2>4 DEF IInv, WritebackInv, LoadInv
<1> QED BY <1>3, <1>7, <1>8

\* After the last word the counter goes one further, and then the load begins.
LEMMA WbDoneStep ==
  ASSUME IInv, CpuStep, CacheStep, McStep, c_state = "WRITEBACK", WbDone
  PROVE  IInv'
<1>1. ~lowmem_we /\ ~lowmem_rd
  BY DEF lowmem_we, lowmem_rd, WbDone
<1>2. MC!MCTypeOK' /\ mc_state' = "IDLE" /\ psram' = psram
  BY <1>1, McQuiet DEF McStep, IInv, WbDone
<1>3. xfer_cnt' \in {W - 1, W, W + 1} /\ (xfer_cnt # W => xfer_cnt' \in {W - 1, W})
  BY <1>1, Count16, Sizes, WritebackFrame DEF WbDone
<1>4. xfer_cnt' \in 0 .. XFER_WRAP - 1
  BY <1>3, Sizes
<1>5. /\ TypeOK' /\ BusInv' /\ TagInv' /\ CleanInv' /\ QuietInv'
      /\ HostLine' = HostLine
  BY <1>2, <1>4, WritebackRest
<1>6. CASE xfer_cnt = W
  <2>1. c_state' = "LOAD" /\ burst_issue' /\ ~burst_we'
    BY <1>6, WritebackFrame DEF WbDone, IInv, QuietInv
  <2> QED BY <1>2, <1>5, <2>1 DEF IInv, WritebackInv, LoadInv, LdOffered
<1>7. CASE xfer_cnt # W
  <2>1. /\ c_state' = "WRITEBACK" /\ ~burst_issue' /\ ~burst_issue_delayed'
        /\ bram' = bram /\ burst_wb_base_a' = burst_wb_base_a
    BY <1>7, WritebackFrame DEF WbDone
  <2>2. WbDone'
    BY <1>2, <1>3, <1>5, <1>7, <2>1 DEF WbDone, Moved
  <2> QED BY <1>5, <2>1, <2>2 DEF IInv, WritebackInv, LoadInv
<1> QED BY <1>6, <1>7

\* Bytes and words go out; the pulse after the second byte of a word has the cache
\* read the next one in time.
LEMMA WbSendingStep ==
  ASSUME IInv, CpuStep, CacheStep, McStep, c_state = "WRITEBACK", WbSending
  PROVE  IInv'
<1>1. ~lowmem_we BY DEF lowmem_we, WbSending
<1>2. /\ Sending \in Nat /\ Sending <= W - 1 /\ W \in Nat /\ W >= 2 /\ W <= 128
      /\ count \in 0 .. 4 /\ regburst_length \in 0 .. W
      /\ Sending = IF count >= 3 THEN W - regburst_length ELSE W - regburst_length - 1
  BY Sizes DEF WbSending, Sending, Offset, IInv, TypeOK, MC!MCTypeOK
<1>3. /\ xfer_cnt \in Nat /\ xfer_cnt <= W - 1 /\ xfer_cnt \in 0 .. XFER_WRAP - 1
      /\ xfer_cnt % W = xfer_cnt
  BY <1>2, LowBits, Sizes DEF WbSending, IInv, TypeOK, CacheTypeOK
<1>4. /\ c_state' = "WRITEBACK" /\ burst_issue' = FALSE /\ burst_issue_delayed' = FALSE
      /\ burst_wb_base_a' = burst_wb_base_a
      /\ bram' = bram /\ way_spo' = bram[HostLine][xfer_cnt]
      /\ xfer_cnt' = IF ready_r THEN xfer_cnt + 1 ELSE xfer_cnt
  <2>1. xfer_cnt # W BY <1>2, <1>3
  <2>2. (xfer_cnt + 1) % XFER_WRAP = xfer_cnt + 1
    BY <1>2, <1>3, Count16, Sizes
  <2> QED BY <1>1, <1>3, <2>1, <2>2, WritebackFrame
      DEF WbSending, IInv, TypeOK, CacheTypeOK
<1>5. xfer_cnt' \in 0 .. XFER_WRAP - 1
  BY <1>2, <1>3, <1>4, Sizes
<1>6. HostLine \in Line /\ bram \in [Line -> [Offset -> Word]]
      /\ burst_wb_base_a \in Block /\ psram \in [Block -> [Offset -> Word]]
  BY WritebackFrame DEF IInv, TypeOK, CacheTypeOK, MC!MCTypeOK
<1>7. ASSUME MC!MCTypeOK', \A b \in Block : b # burst_wb_base_a => psram'[b] = psram[b],
             HostLine' = HostLine => WbSending' \/ WbDone'
      PROVE  IInv'
  <2>1. /\ TypeOK' /\ BusInv' /\ TagInv' /\ CleanInv' /\ QuietInv'
        /\ HostLine' = HostLine
    BY <1>5, <1>7, WritebackRest
  <2> QED BY <1>4, <1>7, <2>1 DEF IInv, WritebackInv, LoadInv
<1>8. CASE MC!McHalf
  <2>1. /\ mc_state' = "WE" /\ count # 0 /\ ready_r' = FALSE
        /\ mid_byte' \in {mid_byte, TRUE}
        /\ UNCHANGED <<rega, regburst_length, count, regbuf, regspo, psram>>
    BY <1>8 DEF MC!McHalf, WbSending
  <2>2. MC!MCTypeOK'
    BY <2>1 DEF IInv, TypeOK, MC!MCTypeOK
  <2>3. Sending' = Sending BY <2>1 DEF Sending
  <2>4. HostLine' = HostLine => Moved(burst_wb_base_a, Sending)'
    BY <1>4, <2>1, <2>3 DEF WbSending, Moved
  <2>5. xfer_cnt' = IF count >= 3 \/ Sending = W - 1 THEN Sending ELSE Sending + 1
    BY <1>2, <1>4 DEF WbSending
  <2>6. count <= 1 /\ Sending < W - 1 => way_spo' = bram[HostLine][Sending + 1]
    BY <1>2, <1>4 DEF WbSending
  <2> QED BY <1>4, <1>7, <2>1, <2>2, <2>3, <2>4, <2>5, <2>6 DEF WbSending
<1>9. CASE MC!WeByte
  <2>1. /\ mc_state' = "WE" /\ count # 0 /\ mid_byte /\ count' = count - 1
        /\ mid_byte' = FALSE
        /\ ready_r' = (count = 3 /\ regburst_length # 1)
        /\ regburst_length' = IF count = 3 THEN regburst_length - 1 ELSE regburst_length
        /\ UNCHANGED <<rega, regbuf, regspo, psram>>
    BY <1>9 DEF MC!WeByte
  <2>2. ~ready_r /\ xfer_cnt' = xfer_cnt
    BY <1>4, <2>1 DEF WbSending
  <2>3. count' \in 0 .. 4 /\ regburst_length' \in 0 .. W
    BY <1>2, <2>1
  <2>4. MC!MCTypeOK'
    <3>1. ready_r' \in BOOLEAN BY <2>1
    <3> QED BY <2>1, <2>3, <3>1 DEF IInv, TypeOK, MC!MCTypeOK
  <2>5. Sending' = Sending BY <1>2, <2>1 DEF Sending
  <2>6. HostLine' = HostLine => Moved(burst_wb_base_a, Sending)'
    BY <1>4, <2>1, <2>5 DEF WbSending, Moved
  <2>7. ready_r' <=> count = 3 /\ Sending # W - 1
    <3>1. count = 3 => (regburst_length = 1 <=> Sending = W - 1) BY <1>2
    <3>2. ready_r' <=> count = 3 /\ regburst_length # 1 BY <2>1
    <3> QED BY <3>1, <3>2
  <2>8. xfer_cnt' = IF count' >= 3 \/ ready_r' \/ Sending = W - 1 THEN Sending
                                                                  ELSE Sending + 1
    BY <1>2, <2>1, <2>2, <2>7 DEF WbSending
  <2>9. count' <= 1 /\ Sending < W - 1 => way_spo' = bram[HostLine][Sending + 1]
    BY <1>2, <1>4, <2>1, <2>2 DEF WbSending
  <2>10. ready_r' => count' = 2 /\ ~mid_byte' /\ Sending < W - 1
    BY <1>2, <2>1, <2>7
  <2> QED BY <1>4, <1>7, <2>1, <2>4, <2>5, <2>6, <2>8, <2>9, <2>10 DEF WbSending
<1>10. CASE MC!WeWord(lowmem_d)
  <2>1. /\ count = 0
        /\ psram' = [psram EXCEPT ![burst_wb_base_a][W - regburst_length - 1] = regbuf]
        /\ IF regburst_length = 0
             THEN mc_state' = "IDLE" /\ UNCHANGED <<count, regbuf>>
             ELSE count' = 4 /\ regbuf' = way_spo /\ mc_state' = "WE"
        /\ ready_r' = FALSE
        /\ UNCHANGED <<rega, regburst_length, regspo, mid_byte>>
    BY <1>10 DEF MC!WeWord, MC!Current, WbSending, lowmem_d
  <2>2. Sending = W - regburst_length - 1 /\ ~ready_r /\ xfer_cnt' = xfer_cnt
        /\ Sending \in Offset
    BY <1>2, <1>4, <2>1 DEF WbSending
  <2>3. regbuf = bram[HostLine][Sending] /\ regbuf \in Word
    BY DEF WbSending, IInv, TypeOK, MC!MCTypeOK
  <2>4. /\ psram' \in [Block -> [Offset -> Word]]
        /\ \A b \in Block : b # burst_wb_base_a => psram'[b] = psram[b]
        /\ \A o \in Offset : psram'[burst_wb_base_a][o] =
                              IF o = Sending THEN bram[HostLine][o]
                                             ELSE psram[burst_wb_base_a][o]
    BY <1>6, <2>1, <2>2, <2>3
  <2>5. \A o \in Offset : o <= Sending => bram[HostLine][o] = psram'[burst_wb_base_a][o]
    BY <1>2, <2>4 DEF WbSending, Moved, Offset
  <2>6. CASE regburst_length = 0
    <3>1. Sending = W - 1 /\ xfer_cnt' = W - 1
      BY <1>2, <2>1, <2>2, <2>6 DEF WbSending
    <3>2. MC!MCTypeOK'
      BY <2>1, <2>4, <2>6 DEF IInv, TypeOK, MC!MCTypeOK
    <3>3. HostLine' = HostLine => Moved(burst_wb_base_a, W)'
      BY <1>2, <1>4, <2>5, <3>1 DEF Moved, Offset
    <3> QED BY <1>4, <1>7, <2>1, <2>4, <2>6, <3>1, <3>2, <3>3 DEF WbDone
  <2>7. CASE regburst_length # 0
    <3>1. /\ mc_state' = "WE" /\ count' = 4 /\ regbuf' = way_spo
          /\ regburst_length' = regburst_length
      BY <2>1, <2>7
    <3>2. Sending < W - 1 /\ way_spo = bram[HostLine][Sending + 1] /\ way_spo \in Word
      BY <1>2, <2>1, <2>2, <2>7 DEF WbSending, IInv, TypeOK, CacheTypeOK
    <3>3. Sending' = Sending + 1 /\ Sending' \in Offset
      BY <1>2, <2>2, <3>1, <3>2 DEF Sending, Offset
    <3>4. xfer_cnt' = Sending + 1
      BY <1>2, <2>1, <2>2, <3>2 DEF WbSending
    <3>5. MC!MCTypeOK'
      <4>1. count' \in 0 .. 4 BY <3>1
      <4> QED BY <2>1, <2>4, <3>1, <3>2, <4>1 DEF IInv, TypeOK, MC!MCTypeOK
    <3>6. HostLine' = HostLine => Moved(burst_wb_base_a, Sending)'
      BY <1>2, <1>4, <2>5, <3>3 DEF Moved, Offset
    <3> QED BY <1>4, <1>7, <2>1, <2>4, <3>1, <3>2, <3>3, <3>4, <3>5, <3>6 DEF WbSending
  <2> QED BY <2>6, <2>7
<1>11. MC!McHalf \/ MC!WeByte \/ MC!WeWord(lowmem_d)
  BY DEF McStep, WbSending, MC!MCClock, MC!McIdle, MC!McBegin, MC!RdByte, MC!RdWord
<1> QED BY <1>8, <1>9, <1>10, <1>11

-----------------------------------------------------------------------------
(* Loading.                                                                 *)

LoadedTag == [b |-> HostBlock, valid |-> TRUE, dirty |-> FALSE]

\* What a step of a load does apart from the burst itself.
LEMMA LoadFrame ==
  ASSUME IInv, CpuStep, CacheStep, c_state = "LOAD"
  PROVE  /\ CpuTypeOK' /\ UNCHANGED cpuBusVars
         /\ UNCHANGED <<host_a, host_d, host_weorrd, burst_wb_base_a, init_count>>
         /\ HostLine \in Line /\ HostBlock \in Block
         /\ bram' \in [Line -> [Offset -> Word]]
         /\ \A l \in Line : ~burst_we \/ l # HostLine => bram'[l] = bram[l]
         /\ \A o \in Offset : bram'[HostLine][o] =
                IF burst_we /\ o = xfer_cnt % W THEN regspo ELSE bram[HostLine][o]
         /\ tags' \in [Line -> Tag]
         /\ \A l \in Line : l # HostLine => tags'[l] = tags[l]
         /\ tags'[HostLine] = LoadedTag
         /\ way_spo' \in Word
         /\ burst_issue_delayed' = burst_issue
         /\ IF burst_issue
              THEN /\ burst_issue' = FALSE
                   /\ xfer_cnt' = XFER_WRAP - 1
                   /\ UNCHANGED <<c_state, burst_we>>
              ELSE /\ xfer_cnt' = IF ready_r THEN (xfer_cnt + 1) % XFER_WRAP ELSE xfer_cnt
                   /\ burst_we' = (ready_r /\ xfer_cnt # W - 1)
                   /\ c_state' = IF ready_r /\ xfer_cnt = W - 1 THEN "HIT" ELSE "LOAD"
                   /\ UNCHANGED burst_issue
<1> DEFINE newtag == [b |-> cpu_a.b, valid |-> TRUE, dirty |-> FALSE]
           at == [b |-> host_a.b, o |-> xfer_cnt % W]
           rdy == MC!mc_ready(lowmem_we, lowmem_rd)
<1>1. Load(cpu_a, rdy, regspo) /\ burst_issue_delayed' = burst_issue
  BY DEF CacheStep, CacheClock, ClearTags, Idle, Hit, Writeback
<1>2. ~burst_issue => (rdy <=> ready_r)
  BY DEF MC!mc_ready, lowmem_we, lowmem_rd
<1>3. CpuTypeOK' BY CpuTypes DEF IInv
<1>4. UNCHANGED cpuBusVars BY CpuHeld DEF IInv
<1>5. host_a = cpu_a /\ HostLine \in Line /\ HostBlock \in Block
  BY AddressParts DEF IInv, BusInv, TypeOK, CacheTypeOK, HostLine, HostBlock
<1>6. xfer_cnt % W \in Offset
  BY LowBits, Sizes DEF IInv, TypeOK, CacheTypeOK
<1>7. at \in Address /\ at.b = HostBlock /\ at.o = xfer_cnt % W /\ Index(at.b) = HostLine
  BY <1>5, <1>6 DEF Address, HostBlock, HostLine
<1>8. newtag \in Tag /\ newtag = LoadedTag
  BY <1>5 DEF Tag, HostBlock, LoadedTag
<1>9. Way(at, regspo, burst_we, burst_issue, newtag)
  BY <1>1 DEF Load
<1> HIDE DEF newtag, at
<1>10. /\ way_spo' \in Word
       /\ bram' \in [Line -> [Offset -> Word]]
       /\ tags' \in [Line -> Tag]
       /\ \A l \in Line : tags'[l] = IF burst_issue /\ l = HostLine THEN newtag ELSE tags[l]
       /\ \A l \in Line : ~burst_we \/ l # HostLine => bram'[l] = bram[l]
       /\ \A l \in Line, o \in Offset :
            bram'[l][o] = IF burst_we /\ l = HostLine /\ o = xfer_cnt % W
                          THEN regspo ELSE bram[l][o]
  <2>1. CacheTypeOK /\ regspo \in Word
    BY DEF IInv, TypeOK, MC!MCTypeOK
  <2> QED BY <1>7, <1>8, <1>9, <2>1, WayStep DEF Way
<1>11. tags'[HostLine] = LoadedTag
  BY <1>5, <1>8, <1>10 DEF IInv, LoadInv, LoadedTag
<1>12. IF burst_issue
         THEN /\ burst_issue' = FALSE
              /\ xfer_cnt' = XFER_WRAP - 1
              /\ UNCHANGED <<c_state, burst_we>>
         ELSE /\ xfer_cnt' = IF rdy THEN (xfer_cnt + 1) % XFER_WRAP ELSE xfer_cnt
              /\ burst_we' = (rdy /\ xfer_cnt # W - 1)
              /\ c_state' = IF rdy /\ xfer_cnt = W - 1 THEN "HIT" ELSE "LOAD"
              /\ UNCHANGED burst_issue
  BY <1>1 DEF Load
<1>13. UNCHANGED <<host_a, host_d, host_weorrd, burst_wb_base_a, init_count>>
  BY <1>1 DEF Load
<1> HIDE DEF rdy
<1> QED BY <1>1, <1>2, <1>3, <1>4, <1>5, <1>10, <1>11, <1>12, <1>13

\* The other lines are left alone, and when the cache goes on to HIT the line of the
\* host holds the block.
LEMMA LoadRest ==
  ASSUME IInv, CpuStep, CacheStep, c_state = "LOAD",
         MC!MCTypeOK', psram' = psram, xfer_cnt' \in 0 .. XFER_WRAP - 1,
         c_state' = "HIT" =>
           /\ mc_state' = "IDLE"
           /\ \A o \in Offset : bram'[HostLine][o] = psram[HostBlock][o]
  PROVE  /\ TypeOK' /\ BusInv' /\ TagInv' /\ CleanInv' /\ QuietInv'
         /\ HostLine' = HostLine /\ HostBlock' = HostBlock
         /\ tags'[HostLine'] = [b |-> HostBlock', valid |-> TRUE, dirty |-> FALSE]
<1>1. HostLine' = HostLine /\ HostBlock' = HostBlock
  BY LoadFrame DEF HostLine, HostBlock
<1>2. c_state' \in {"HIT", "LOAD"} /\ burst_issue' \in BOOLEAN /\ burst_we' \in BOOLEAN
  BY LoadFrame DEF IInv, TypeOK, CacheTypeOK
<1>3. TypeOK'
  BY <1>2, LoadFrame DEF IInv, TypeOK, CacheTypeOK, CpuTypeOK
<1>4. BusInv'
  <2>1. UNCHANGED <<cpu_we, cpu_rd, cpu_waits, cpu_read, cpu_a, cpu_d, host_a, host_d, host_weorrd>>
    BY LoadFrame DEF cpuBusVars
  <2>2. /\ ~cpu_we /\ ~cpu_rd /\ cpu_waits
        /\ host_a = cpu_a /\ host_d = cpu_d /\ host_weorrd = ~cpu_read
    BY DEF IInv, BusInv
  <2> QED BY <1>2, <2>1, <2>2 DEF BusInv
<1>5. TagInv'
  <2>1. ASSUME NEW l \in Line, tags'[l].valid PROVE Index(tags'[l].b) = l
    <3>1. CASE tags'[l] = tags[l]
      BY <2>1, <3>1 DEF IInv, TagInv
    <3>2. CASE l = HostLine
      BY <3>2, LoadFrame DEF HostLine, HostBlock, LoadedTag
    <3> QED BY <3>1, <3>2, LoadFrame
  <2> QED BY <1>2, <2>1 DEF TagInv
<1>6. CleanInv'
  <2>1. ASSUME NEW l \in Line, l # HostLine, (tags[l].valid /\ ~tags[l].dirty)'
        PROVE  bram'[l] = psram'[tags'[l].b]
    <3>1. tags'[l] = tags[l] /\ bram'[l] = bram[l]
      BY <2>1, LoadFrame
    <3> QED BY <2>1, <3>1 DEF IInv, CleanInv
  <2>2. CASE c_state' = "HIT"
    <3>1. bram'[HostLine] = psram[HostBlock]
      <4>1. bram'[HostLine] \in [Offset -> Word] /\ psram[HostBlock] \in [Offset -> Word]
        BY LoadFrame DEF IInv, TypeOK, MC!MCTypeOK
      <4> QED BY <2>2, <4>1
    <3>2. tags'[HostLine].b = HostBlock
      BY LoadFrame DEF LoadedTag
    <3> QED BY <2>1, <3>1, <3>2 DEF CleanInv
  <2>3. CASE c_state' = "LOAD"
    BY <1>1, <2>1, <2>3 DEF CleanInv
  <2> QED BY <1>2, <2>2, <2>3
<1>7. QuietInv'
  BY <1>1, <1>2, LoadFrame DEF IInv, QuietInv, LoadInv, LoadedTag, LdOffered
<1> QED BY <1>1, <1>3, <1>4, <1>5, <1>6, <1>7, LoadFrame DEF LoadedTag

LEMMA LdOfferedStep ==
  ASSUME IInv, CpuStep, CacheStep, McStep, c_state = "LOAD", LdOffered
  PROVE  IInv'
<1>1. ~lowmem_we /\ lowmem_rd /\ lowmem_a = HostBlock
  BY DEF lowmem_we, lowmem_rd, lowmem_a, LdOffered, HostBlock
<1>2. MC!McIdle(lowmem_we, lowmem_rd, lowmem_a, lowmem_d)
  BY DEF McStep, LdOffered, MC!MCClock, MC!McBegin, MC!McHalf, MC!WeByte, MC!WeWord,
         MC!RdByte, MC!RdWord
<1>3. /\ mc_state' = "RD_BEGIN" /\ ready_r' = FALSE /\ count' = 4 /\ mid_byte' = FALSE
      /\ rega' = HostBlock /\ regbuf' = way_spo
      /\ regburst_length' = W
      /\ UNCHANGED <<regspo, psram>>
  BY <1>1, <1>2 DEF MC!McIdle, lowmem_d
<1>4. MC!MCTypeOK'
  <2>1. regspo \in Word /\ psram \in [Block -> [Offset -> Word]]
    BY DEF IInv, TypeOK, MC!MCTypeOK
  <2>2. regburst_length' \in 0 .. W BY <1>3, Sizes
  <2>3. mc_state' \in {"IDLE", "WE_BEGIN", "WE", "RD_BEGIN", "RD"} BY <1>3
  <2>4. ready_r' \in BOOLEAN /\ mid_byte' \in BOOLEAN BY <1>3
  <2>5. count' \in 0 .. 4 BY <1>3
  <2>6. rega' \in Block BY <1>3, LoadFrame
  <2>7. regbuf' \in Word BY <1>3 DEF IInv, TypeOK, CacheTypeOK
  <2>8. regspo' \in Word /\ psram' \in [Block -> [Offset -> Word]] BY <1>3, <2>1
  <2> QED BY <2>2, <2>3, <2>4, <2>5, <2>6, <2>7, <2>8 DEF MC!MCTypeOK
<1>5. /\ c_state' = "LOAD" /\ xfer_cnt' = XFER_WRAP - 1 /\ burst_issue' = FALSE
      /\ burst_we' = burst_we
  BY LoadFrame DEF LdOffered
<1>6. xfer_cnt' \in 0 .. XFER_WRAP - 1 BY <1>5, Sizes
<1>7. /\ TypeOK' /\ BusInv' /\ TagInv' /\ CleanInv' /\ QuietInv'
      /\ HostBlock' = HostBlock
      /\ tags'[HostLine'] = [b |-> HostBlock', valid |-> TRUE, dirty |-> FALSE]
  BY <1>3, <1>4, <1>5, <1>6, LoadRest
<1>8. LdAccepted'
  BY <1>3, <1>5, <1>7 DEF LdAccepted, LdOffered, Taken
<1> QED BY <1>5, <1>7, <1>8 DEF IInv, LoadInv, WritebackInv

LEMMA LdAcceptedStep ==
  ASSUME IInv, CpuStep, CacheStep, McStep, c_state = "LOAD", LdAccepted
  PROVE  IInv'
<1>1. /\ mc_state' \in {"RD_BEGIN", "RD"}
      /\ UNCHANGED <<ready_r, rega, regburst_length, count, regbuf, regspo, mid_byte, psram>>
  BY DEF McStep, LdAccepted, MC!MCClock, MC!McIdle, MC!McBegin, MC!McHalf, MC!WeByte,
         MC!WeWord, MC!RdByte, MC!RdWord
<1>2. MC!MCTypeOK'
  BY <1>1 DEF IInv, TypeOK, MC!MCTypeOK
<1>3. /\ c_state' = "LOAD" /\ xfer_cnt' = xfer_cnt /\ ~burst_issue' /\ ~burst_we'
  BY LoadFrame DEF LdAccepted
<1>4. xfer_cnt' \in 0 .. XFER_WRAP - 1 BY <1>3 DEF IInv, TypeOK, CacheTypeOK
<1>5. /\ TypeOK' /\ BusInv' /\ TagInv' /\ CleanInv' /\ QuietInv'
      /\ HostBlock' = HostBlock
      /\ tags'[HostLine'] = [b |-> HostBlock', valid |-> TRUE, dirty |-> FALSE]
  BY <1>1, <1>2, <1>3, <1>4, LoadRest
<1>6. CASE mc_state' = "RD_BEGIN"
  <2>1. LdAccepted'
    BY <1>1, <1>3, <1>5, <1>6 DEF LdAccepted, Taken
  <2> QED BY <1>3, <1>5, <2>1 DEF IInv, LoadInv, WritebackInv
<1>7. CASE mc_state' = "RD"
  <2>1. Received' = 0 /\ 0 \in Offset
    BY <1>1, Sizes DEF LdAccepted, Received, Offset
  <2>2. Moved(HostBlock, IF burst_we THEN Received - 1 ELSE Received)'
    BY <1>3, <2>1 DEF Moved, Offset
  <2>3. LdReceiving'
    BY <1>1, <1>3, <1>5, <1>7, <2>1, <2>2 DEF LdAccepted, LdReceiving, Taken
  <2> QED BY <1>3, <1>5, <2>3 DEF IInv, LoadInv, WritebackInv
<1> QED BY <1>1, <1>6, <1>7

\* The last word has come: the counter takes two more clocks.
LEMMA LdDoneStep ==
  ASSUME IInv, CpuStep, CacheStep, McStep, c_state = "LOAD", LdDone
  PROVE  IInv'
<1>1. ~lowmem_we /\ ~lowmem_rd
  BY DEF lowmem_we, lowmem_rd, LdDone
<1>2. /\ MC!MCTypeOK' /\ mc_state' = "IDLE" /\ UNCHANGED <<regspo, psram>>
      /\ (ready_r => ready_r')
  BY <1>1, McQuiet DEF McStep, IInv, LdDone
<1>3. /\ xfer_cnt \in Nat /\ xfer_cnt <= W - 1 /\ xfer_cnt \in 0 .. XFER_WRAP - 1
      /\ xfer_cnt % W = xfer_cnt /\ (xfer_cnt + 1) % XFER_WRAP = xfer_cnt + 1
  BY LowBits, Count16, Sizes DEF LdDone
<1>4. xfer_cnt' = IF ready_r THEN xfer_cnt + 1 ELSE xfer_cnt
  BY <1>3, LoadFrame DEF LdDone
<1>5. xfer_cnt' \in 0 .. XFER_WRAP - 1
  BY <1>3, <1>4, Sizes
<1>6. ~burst_issue'
  BY LoadFrame DEF LdDone
<1>7. CASE burst_we
  <2>1. c_state' = "HIT"
    BY <1>7, LoadFrame DEF LdDone
  <2>2. ASSUME NEW o \in Offset PROVE bram'[HostLine][o] = psram[HostBlock][o]
    <3>1. o < W - 1 \/ o = W - 1
      BY Sizes DEF Offset
    <3>2. xfer_cnt % W = W - 1
      BY <1>3, <1>7 DEF LdDone
    <3>3. CASE o = W - 1
      BY <1>7, <3>2, <3>3, LoadFrame DEF LdDone
    <3>4. CASE o < W - 1
      BY <3>2, <3>4, Sizes, LoadFrame DEF LdDone, Moved, Offset
    <3> QED BY <3>1, <3>3, <3>4
  <2>3. TypeOK' /\ BusInv' /\ TagInv' /\ CleanInv' /\ QuietInv'
    BY <1>2, <1>5, <2>2, LoadRest
  <2> QED BY <2>1, <2>3 DEF IInv, LoadInv, WritebackInv
<1>8. CASE ~burst_we
  <2>1. xfer_cnt = W - 2 /\ c_state' = "LOAD"
    BY <1>8, Sizes, LoadFrame DEF LdDone
  <2>2. bram'[HostLine] = bram[HostLine]
    BY <1>8, LoadFrame
  <2>3. /\ TypeOK' /\ BusInv' /\ TagInv' /\ CleanInv' /\ QuietInv'
        /\ HostLine' = HostLine /\ HostBlock' = HostBlock
        /\ tags'[HostLine'] = [b |-> HostBlock', valid |-> TRUE, dirty |-> FALSE]
    BY <1>2, <1>5, <2>1, LoadRest
  <2>4. burst_we' <=> ready_r
    BY <2>1, Sizes, LoadFrame DEF LdDone
  <2>5. xfer_cnt' = IF burst_we' THEN W - 1 ELSE W - 2
    BY <1>4, <2>1, <2>4, Sizes
  <2>6. Moved(HostBlock, W - 1)'
    BY <1>2, <2>2, <2>3 DEF LdDone, Moved
  <2>7. LdDone'
    BY <1>2, <1>6, <2>3, <2>4, <2>5, <2>6 DEF LdDone
  <2> QED BY <2>1, <2>3, <2>7 DEF IInv, LoadInv, WritebackInv
<1> QED BY <1>7, <1>8

\* Words come in; each is written behind its pulse, before the next one replaces it.
LEMMA LdReceivingStep ==
  ASSUME IInv, CpuStep, CacheStep, McStep, c_state = "LOAD", LdReceiving
  PROVE  IInv'
<1>1. /\ Received \in Nat /\ Received <= W - 1 /\ Received \in Offset
      /\ W \in Nat /\ W >= 2 /\ W <= 128
      /\ count \in 0 .. 4 /\ regburst_length \in 0 .. W
      /\ Received = W - regburst_length
      /\ XFER_WRAP \in Nat /\ XFER_WRAP > 256
  BY Sizes DEF LdReceiving, Received, Offset, IInv, TypeOK, MC!MCTypeOK
<1>2. xfer_cnt \in 0 .. XFER_WRAP - 1 /\ xfer_cnt # W - 1
  BY <1>1 DEF LdReceiving, Taken, IInv, TypeOK, CacheTypeOK
<1>3. (xfer_cnt + 1) % XFER_WRAP = IF xfer_cnt = XFER_WRAP - 1 THEN 0 ELSE xfer_cnt + 1
  BY <1>2, Count16
<1>4. c_state' = "LOAD" /\ ~burst_issue' /\ (burst_we' <=> ready_r)
  BY <1>2, LoadFrame DEF LdReceiving
<1>5. xfer_cnt' = Taken(Received)
  BY <1>1, <1>3, LoadFrame DEF LdReceiving, Taken
<1>6. xfer_cnt' \in 0 .. XFER_WRAP - 1
  BY <1>1, <1>5 DEF Taken
<1>7. HostLine \in Line /\ HostBlock \in Block /\ psram \in [Block -> [Offset -> Word]]
  BY LoadFrame DEF IInv, TypeOK, MC!MCTypeOK
\* the words that are in the line after this clock
<1>8. \A o \in Offset : o < (IF ready_r THEN Received - 1 ELSE Received)
                         => bram'[HostLine][o] = psram[HostBlock][o]
  <2>1. CASE ~burst_we
    BY <2>1, <1>7, LoadFrame DEF LdReceiving, Moved
  <2>2. CASE burst_we
    <3>1. ~ready_r /\ Received > 0 /\ xfer_cnt = Received - 1
          /\ regspo = psram[HostBlock][Received - 1]
          /\ Moved(HostBlock, Received - 1)
      BY <1>1, <2>2 DEF LdReceiving, Taken
    <3>2. xfer_cnt % W = Received - 1
      BY <1>1, <3>1, LowBits
    <3>3. ASSUME NEW o \in Offset, o < Received
          PROVE  bram'[HostLine][o] = psram[HostBlock][o]
      <4>1. CASE o = Received - 1
        BY <2>2, <3>1, <3>2, <4>1, LoadFrame
      <4>2. CASE o < Received - 1
        BY <1>1, <3>1, <3>2, <4>2, LoadFrame DEF Moved, Offset
      <4> QED BY <1>1, <3>3, <4>1, <4>2 DEF Offset
    <3> QED BY <3>1, <3>3
  <2> QED BY <2>1, <2>2
<1>9. ASSUME MC!MCTypeOK', psram' = psram,
             HostLine' = HostLine /\ HostBlock' = HostBlock => LdReceiving' \/ LdDone'
      PROVE  IInv'
  <2>1. /\ TypeOK' /\ BusInv' /\ TagInv' /\ CleanInv' /\ QuietInv'
        /\ HostLine' = HostLine /\ HostBlock' = HostBlock
        /\ tags'[HostLine'] = [b |-> HostBlock', valid |-> TRUE, dirty |-> FALSE]
    BY <1>4, <1>6, <1>9, LoadRest
  <2> QED BY <1>4, <1>9, <2>1 DEF IInv, WritebackInv, LoadInv
<1>10. CASE MC!McHalf
  <2>1. /\ mc_state' = "RD" /\ count # 0 /\ ready_r' = FALSE
        /\ mid_byte' \in {mid_byte, TRUE}
        /\ UNCHANGED <<rega, regburst_length, count, regbuf, regspo, psram>>
    BY <1>10 DEF MC!McHalf, LdReceiving
  <2>2. MC!MCTypeOK'
    BY <2>1 DEF IInv, TypeOK, MC!MCTypeOK
  <2>3. Received' = Received BY <2>1 DEF Received
  <2>4. HostLine' = HostLine /\ HostBlock' = HostBlock =>
          Moved(HostBlock, IF burst_we THEN Received - 1 ELSE Received)'
    BY <1>4, <1>8, <2>1, <2>3 DEF Moved
  <2>5. burst_we' => Received > 0 /\ count = 4
    BY <1>4 DEF LdReceiving
  <2> QED BY <1>4, <1>5, <1>9, <2>1, <2>2, <2>3, <2>4, <2>5 DEF LdReceiving, Taken
<1>11. CASE MC!RdByte
  <2>1. /\ mc_state' = "RD" /\ mid_byte /\ count # 0 /\ count' = count - 1
        /\ mid_byte' = FALSE /\ ready_r' = FALSE
        /\ UNCHANGED <<rega, regburst_length, regbuf, regspo, psram>>
    BY <1>11 DEF MC!RdByte, LdReceiving
  <2>2. ~ready_r /\ ~burst_we'
    BY <1>4, <2>1 DEF LdReceiving
  <2>3. MC!MCTypeOK'
    <3>1. count' \in 0 .. 4 BY <1>1, <2>1
    <3> QED BY <2>1, <3>1 DEF IInv, TypeOK, MC!MCTypeOK
  <2>4. Received' = Received BY <2>1 DEF Received
  <2>5. HostLine' = HostLine /\ HostBlock' = HostBlock =>
          Moved(HostBlock, IF burst_we THEN Received - 1 ELSE Received)'
    BY <1>8, <2>1, <2>2, <2>4 DEF Moved
  <2> QED BY <1>4, <1>5, <1>9, <2>1, <2>2, <2>3, <2>4, <2>5 DEF LdReceiving, Taken
<1>12. CASE MC!RdWord
  <2>1. /\ count = 0 /\ regspo' = psram[HostBlock][Received]
        /\ regburst_length' = regburst_length - 1
        /\ IF regburst_length = 1
             THEN mc_state' = "IDLE" /\ UNCHANGED <<count, ready_r>>
             ELSE count' = 4 /\ ready_r' = TRUE /\ mc_state' = "RD"
        /\ UNCHANGED <<rega, regbuf, mid_byte, psram>>
    BY <1>12 DEF MC!RdWord, MC!Current, LdReceiving, Received
  <2>2. ~ready_r /\ ~burst_we' /\ ~mid_byte
    BY <1>4, <2>1 DEF LdReceiving
  <2>3. regspo' \in Word BY <1>1, <1>7, <2>1
  <2>4. regburst_length' \in 0 .. W /\ Received' = Received + 1
    BY <1>1, <2>1 DEF Received
  <2>5. CASE regburst_length = 1
    <3>1. MC!MCTypeOK'
      BY <2>1, <2>3, <2>4, <2>5 DEF IInv, TypeOK, MC!MCTypeOK
    <3>2. Received = W - 1 /\ xfer_cnt' = W - 2
      BY <1>1, <1>5, <2>5 DEF Taken
    <3>3. HostLine' = HostLine /\ HostBlock' = HostBlock => Moved(HostBlock, W - 1)'
      BY <1>8, <2>1, <2>2, <3>2 DEF Moved
    <3> QED BY <1>4, <1>9, <2>1, <2>2, <2>5, <3>1, <3>2, <3>3 DEF LdDone
  <2>6. CASE regburst_length # 1
    <3>1. count' = 4 /\ ready_r' = TRUE /\ mc_state' = "RD" BY <2>1, <2>6
    <3>2. MC!MCTypeOK'
      <4>1. count' \in 0 .. 4 /\ ready_r' \in BOOLEAN BY <3>1
      <4> QED BY <2>1, <2>3, <2>4, <3>1, <4>1 DEF IInv, TypeOK, MC!MCTypeOK
    <3>3. /\ Received' \in Offset /\ Received' > 0 /\ Received' - 1 = Received
      BY <1>1, <2>4, <2>6 DEF Offset
    <3>4. HostLine' = HostLine /\ HostBlock' = HostBlock => Moved(HostBlock, Received - 1)'
      BY <1>8, <2>1, <2>2, <3>3 DEF Moved
    <3>5. xfer_cnt' = Taken(Received - 1)'
      BY <1>5, <3>3 DEF Taken
    <3> QED BY <1>4, <1>9, <2>1, <2>2, <3>1, <3>2, <3>3, <3>4, <3>5 DEF LdReceiving
  <2> QED BY <2>5, <2>6
<1>13. MC!McHalf \/ MC!RdByte \/ MC!RdWord
  BY DEF McStep, LdReceiving, MC!MCClock, MC!McIdle, MC!McBegin, MC!WeByte, MC!WeWord
<1> QED BY <1>10, <1>11, <1>12, <1>13

-----------------------------------------------------------------------------
LEMMA InitInv == Init => IInv
<1> SUFFICES ASSUME Init PROVE IInv
  OBVIOUS
<1>1. (CHOOSE w \in Word : TRUE) \in Word
  BY CacheAssumption
<1>2. [b |-> 0, o |-> 0] \in Address /\ 0 \in Block
  BY Sizes DEF Address, Block, Offset
<1>3. 0 \in 0 .. WAY_LINES /\ 0 \in 0 .. XFER_WRAP - 1 /\ 0 \in 0 .. W /\ 4 \in 0 .. 4
  BY Sizes
<1>4. CacheTypeOK
  BY <1>1, <1>2, <1>3 DEF Init, CacheInit, CacheTypeOK
<1>5. MC!MCTypeOK
  BY <1>1, <1>2, <1>3 DEF Init, MC!MCInit, MC!MCTypeOK
<1>6. TypeOK
  BY <1>1, <1>2, <1>4, <1>5 DEF Init, TypeOK
<1>7. /\ c_state = "INIT" /\ init_count = 0 /\ ~burst_we /\ mc_state = "IDLE"
      /\ ~cpu_we /\ ~cpu_rd /\ ~cpu_waits
  BY DEF Init, CacheInit, MC!MCInit
<1>8. TagInv
  BY <1>7 DEF TagInv, Line
<1> QED BY <1>6, <1>7, <1>8 DEF IInv, BusInv, CleanInv, QuietInv, WritebackInv, LoadInv

LEMMA ClockInv == IInv /\ Clock => IInv'
<1> SUFFICES ASSUME IInv, Clock PROVE IInv'
  OBVIOUS
<1>1. CpuStep /\ CacheStep /\ McStep
  BY DEF Clock, CpuStep, CacheStep, McStep
<1>2. c_state \in {"INIT", "IDLE", "HIT", "LOAD", "WRITEBACK"}
  BY DEF IInv, TypeOK, CacheTypeOK
<1>3. CASE c_state = "INIT" BY <1>1, <1>3, InitStep
<1>4. CASE c_state = "IDLE" BY <1>1, <1>4, IdleStep
<1>5. CASE c_state = "HIT" BY <1>1, <1>5, HitStep
<1>6. CASE c_state = "LOAD"
  BY <1>1, <1>6, LdOfferedStep, LdAcceptedStep, LdReceivingStep, LdDoneStep DEF IInv, LoadInv
<1>7. CASE c_state = "WRITEBACK"
  <2>1. WbOffered \/ WbAccepted \/ WbSending \/ WbDone
    BY <1>7 DEF IInv, WritebackInv
  <2> QED BY <1>1, <1>7, <2>1, WbOfferedStep, WbAcceptedStep, WbSendingStep, WbDoneStep
<1> QED BY <1>2, <1>3, <1>4, <1>5, <1>6, <1>7

LEMMA NextInv == IInv /\ [Next]_vars => IInv'
<1>1. IInv /\ UNCHANGED vars => IInv'
  BY DEF vars, cVars, mcVars, cpuBusVars, IInv, TypeOK, CacheTypeOK, MC!MCTypeOK, BusInv,
     TagInv, CleanInv, QuietInv, WritebackInv, WbOffered, WbAccepted, WbSending, WbDone,
     LoadInv, LdOffered, LdAccepted, LdReceiving, LdDone, Moved, Sending, Received, HostLine,
     HostBlock
<1> QED BY <1>1, ClockInv DEF Next


\* The inductive invariant holds in every reachable state.
THEOREM Invariance == Spec => []IInv
<1> QED BY InitInv, NextInv, PTL DEF Spec

\* Every register of the cache, of the controller and of the bus keeps its type: the
\* block number, word offset and word counters stay in their ranges.
THEOREM TypeCorrect == Spec => []TypeOK
<1>1. IInv => TypeOK BY DEF IInv
<1> QED BY <1>1, Invariance, PTL

\* A clean line at rest holds what memory holds: it may be dropped without a
\* write-back (cache_cpu.v:183-187).
THEOREM CleanLinesMatch == Spec => []CleanIsInMemory
<1>1. IInv => CleanIsInMemory BY DEF IInv, CleanInv, CleanIsInMemory
<1> QED BY <1>1, Invariance, PTL

\* The controller is idle whenever the cache gives it a burst command, so that none is
\* lost (cache_cpu.v:200-228, memory_controller.v).
THEOREM NoCommandLost == Spec => []CommandsHeard
<1>1. IInv => CommandsHeard
  BY DEF IInv, CommandsHeard, lowmem_we, lowmem_rd, WritebackInv, LoadInv, WbOffered,
         WbAccepted, WbSending, WbDone, LdOffered, LdAccepted, LdReceiving, LdDone
<1> QED BY <1>1, Invariance, PTL

-----------------------------------------------------------------------------
(* The refinement of Memory: each clock asks, reads, writes or changes      *)
(* nothing of what the CPU sees.                                            *)

Answer == IF cpu_waits /\ MemReady /\ cpu_read THEN way_spo ELSE mdr

\* What the CPU sees.
View == <<Contents, Pending, Answer>>

\* Two memories with the same newest words are the same.
LEMMA SameContents ==
  ASSUME \A a \in Address : Newest(a)' = Newest(a)
  PROVE  Contents' = Contents
  BY DEF Contents

\* The request that is on the bus or that the CPU waits for.
LEMMA PendingRequest ==
  ASSUME TypeOK
  PROVE  LET r == [we |-> ~cpu_read, a |-> cpu_a, d |-> cpu_d]
         IN  /\ r \in [we : BOOLEAN, a : Address, d : Word]
             /\ r # NoRequest
             /\ (r.we <=> ~cpu_read) /\ r.a = cpu_a /\ r.d = cpu_d
<1>1. (~cpu_read) \in BOOLEAN /\ cpu_a \in Address /\ cpu_d \in Word
  BY DEF TypeOK
<1>2. [we |-> ~cpu_read, a |-> cpu_a, d |-> cpu_d] \in [we : BOOLEAN, a : Address, d : Word]
  BY <1>1
<1> QED BY <1>2, NoRequestAssumption

LEMMA InitView == Init => MEM!Init
<1> SUFFICES ASSUME Init PROVE MEM!Init
  OBVIOUS
<1> DEFINE w0 == CHOOSE w \in Word : TRUE
<1>1. w0 \in Word BY CacheAssumption
<1> HIDE DEF w0
<1>2. /\ c_state = "INIT" /\ ~cpu_we /\ ~cpu_rd /\ ~cpu_waits /\ mdr = w0
      /\ psram = [b \in Block |-> [o \in Offset |-> w0]]
  BY DEF Init, CacheInit, MC!MCInit, w0
<1>3. ASSUME NEW a \in Address PROVE Newest(a) = w0
  <2>1. Newest(a) = psram[a.b][a.o] BY <1>2 DEF Newest
  <2> QED BY <1>2, <2>1, AddressParts
<1>4. Contents = [a \in Address |-> w0] BY <1>3 DEF Contents
<1>5. Pending = NoRequest BY <1>2 DEF Pending
<1> QED BY <1>1, <1>2, <1>4, <1>5 DEF MEM!Init

\* Clearing the tags shows the CPU nothing.
LEMMA InitViewStep ==
  ASSUME IInv, CpuStep, CacheStep, McStep, c_state = "INIT"
  PROVE  UNCHANGED View
<1>1. ClearTags
  BY DEF CacheStep, CacheClock, Idle, Hit, Writeback, Load
<1>2. psram' = psram
  BY McQuiet DEF McStep, IInv, QuietInv, lowmem_we, lowmem_rd
<1>3. /\ ~cpu_we /\ ~cpu_rd /\ ~cpu_waits
      /\ ~cpu_we' /\ ~cpu_rd' /\ ~cpu_waits' /\ mdr' = mdr
  BY CpuRests DEF IInv, BusInv
<1>4. ASSUME NEW a \in Address PROVE Newest(a)' = Newest(a)
  <2>1. Newest(a) = psram[a.b][a.o] BY DEF Newest
  <2>2. CASE c_state' = "INIT" BY <1>2, <2>1, <2>2 DEF Newest
  <2>3. CASE c_state' # "INIT"
    <3>1. c_state' = "IDLE" /\ tags' = tags /\ init_count >= WAY_LINES
      BY <1>1, <2>3, Sizes DEF ClearTags, IInv, TypeOK, CacheTypeOK
    <3>2. ~tags[Index(a.b)].valid
      BY <3>1, AddressParts, Sizes DEF IInv, TagInv, Line, TypeOK, CacheTypeOK
    <3> QED BY <1>2, <2>1, <3>1, <3>2 DEF Newest
  <2> QED BY <2>2, <2>3
<1>5. Contents' = Contents BY <1>4, SameContents
<1> QED BY <1>3, <1>5 DEF View, Pending, Answer


\* What the CPU sees of a request that is carried out: the word that is read, or the
\* one word that is written.
Served ==
  /\ Pending = [we |-> ~cpu_read, a |-> cpu_a, d |-> cpu_d]
  /\ Pending' = NoRequest
  /\ cpu_read => Answer' = Newest(cpu_a) /\ \A a \in Address : Newest(a)' = Newest(a)
  /\ ~cpu_read => /\ Answer' = Answer
                  /\ \A a \in Address :
                       Newest(a)' = IF a = cpu_a THEN cpu_d ELSE Newest(a)

LEMMA ServedStep ==
  ASSUME TypeOK, Served
  PROVE  MEM!Read \/ MEM!Write
<1> DEFINE r == [we |-> ~cpu_read, a |-> cpu_a, d |-> cpu_d]
<1>1. /\ Pending = r /\ r # NoRequest /\ (r.we <=> ~cpu_read) /\ r.a = cpu_a /\ r.d = cpu_d
      /\ Pending' = NoRequest
  BY PendingRequest DEF Served
<1>2. cpu_a \in Address BY DEF TypeOK
<1> HIDE DEF r
<1>3. CASE cpu_read
  <2>1. Contents' = Contents BY <1>3, SameContents DEF Served
  <2>2. Answer' = Contents[cpu_a] BY <1>2, <1>3 DEF Served, Contents
  <2> QED BY <1>1, <1>3, <2>1, <2>2 DEF MEM!Read, Answer
<1>4. CASE ~cpu_read
  <2>1. Contents' = [Contents EXCEPT ![cpu_a] = cpu_d]
    BY <1>2, <1>4 DEF Served, Contents
  <2>2. Answer' = Answer BY <1>4 DEF Served
  <2> QED BY <1>1, <1>4, <2>1, <2>2 DEF MEM!Write, Answer
<1> QED BY <1>3, <1>4

\* Addresses with the same block and offset are the same.
LEMMA SameAddress ==
  ASSUME NEW a \in Address, NEW c \in Address, a.b = c.b, a.o = c.o
  PROVE  a = c
  BY DEF Address

\* The clock after a load.
LEMMA HitViewStep ==
  ASSUME IInv, CpuStep, CacheStep, McStep, c_state = "HIT"
  PROVE  Served
<1> DEFINE newtag == [b |-> cpu_a.b, valid |-> TRUE,
                      dirty |-> host_weorrd \/ tags[Index(host_a.b)].dirty]
<1>1. /\ Way(host_a, host_d, host_weorrd, TRUE, newtag)
      /\ c_state' = "IDLE" /\ host_a' = host_a
  BY DEF CacheStep, CacheClock, ClearTags, Idle, Hit, Writeback, Load
<1>2. psram' = psram
  BY McQuiet DEF McStep, IInv, QuietInv, lowmem_we, lowmem_rd
<1>3. ~cpu_we /\ ~cpu_rd /\ cpu_waits /\ UNCHANGED cpuBusVars
  BY CpuHeld DEF IInv
<1>4. /\ host_a = cpu_a /\ host_d = cpu_d /\ (host_weorrd <=> ~cpu_read)
      /\ host_a \in Address /\ HostLine \in Line /\ host_a.o \in Offset
  BY AddressParts DEF IInv, BusInv, TypeOK, CacheTypeOK, HostLine
<1>5. tags[HostLine] = [b |-> host_a.b, valid |-> TRUE, dirty |-> FALSE]
  BY DEF IInv, QuietInv, HostBlock
<1>6. newtag \in Tag /\ newtag.b = host_a.b /\ newtag.valid
  BY <1>4, <1>5, AddressParts DEF IInv, TypeOK, CacheTypeOK, Tag, HostLine
<1> HIDE DEF newtag
<1>7. /\ way_spo' = bram[HostLine][host_a.o]
      /\ \A l \in Line : tags'[l] = IF l = HostLine THEN newtag ELSE tags[l]
      /\ \A l \in Line, o \in Offset :
           bram'[l][o] = IF host_weorrd /\ l = HostLine /\ o = host_a.o
                         THEN host_d ELSE bram[l][o]
  <2>1. CacheTypeOK /\ host_d \in Word /\ host_weorrd \in BOOLEAN /\ host_a \in Address
    BY DEF IInv, TypeOK, CacheTypeOK
  <2>2. /\ way_spo' = bram[Index(host_a.b)][host_a.o]
        /\ \A l \in Line : tags'[l] = IF TRUE /\ l = Index(host_a.b) THEN newtag ELSE tags[l]
        /\ \A l \in Line, o \in Offset :
             bram'[l][o] = IF host_weorrd /\ l = Index(host_a.b) /\ o = host_a.o
                           THEN host_d ELSE bram[l][o]
    BY <1>1, <1>6, <2>1, WayStep DEF Way
  <2> QED BY <2>2 DEF HostLine
<1>8. ASSUME NEW a \in Address
      PROVE  Newest(a)' = IF ~cpu_read /\ a = cpu_a THEN cpu_d ELSE Newest(a)
  <2>1. a.b \in Block /\ a.o \in Offset /\ Index(a.b) \in Line
    BY AddressParts
  <2>2. Newest(a) = IF tags[Index(a.b)].valid /\ tags[Index(a.b)].b = a.b
                    THEN bram[Index(a.b)][a.o] ELSE psram[a.b][a.o]
    BY DEF Newest
  <2>3. Newest(a)' = IF tags'[Index(a.b)].valid /\ tags'[Index(a.b)].b = a.b
                     THEN bram'[Index(a.b)][a.o] ELSE psram[a.b][a.o]
    BY <1>1, <1>2 DEF Newest
  <2>4. CASE Index(a.b) # HostLine
    BY <1>4, <1>7, <2>1, <2>2, <2>3, <2>4 DEF HostLine
  <2>5. CASE Index(a.b) = HostLine /\ a.b # host_a.b
    BY <1>4, <1>5, <1>6, <1>7, <2>1, <2>2, <2>3, <2>5
  <2>6. CASE a.b = host_a.b
    <3>1. a = cpu_a <=> a.o = host_a.o
      BY <1>4, <2>6, SameAddress
    <3> QED BY <1>4, <1>5, <1>6, <1>7, <2>1, <2>2, <2>3, <2>6, <3>1 DEF HostLine
  <2> QED BY <2>4, <2>5, <2>6
<1>9. Newest(cpu_a) = bram[HostLine][host_a.o]
  BY <1>4, <1>5 DEF Newest, HostLine
<1>10. Answer = mdr /\ Pending = [we |-> ~cpu_read, a |-> cpu_a, d |-> cpu_d]
  BY <1>3 DEF Answer, Pending, MemReady, ready
<1>11. MemReady' /\ ~cpu_we' /\ ~cpu_rd' /\ cpu_waits' /\ mdr' = mdr /\ cpu_read' = cpu_read
  BY <1>1, <1>3 DEF MemReady, ready, cpuBusVars
<1>12. Answer' = (IF cpu_read THEN way_spo' ELSE mdr) /\ Pending' = NoRequest
  BY <1>11 DEF Answer, Pending
<1> QED BY <1>7, <1>8, <1>9, <1>10, <1>12 DEF Served

\* At rest: nothing to do, a hit, or the start of an exchange.
LEMMA IdleViewStep ==
  ASSUME IInv, IInv', CpuStep, CacheStep, McStep, c_state = "IDLE"
  PROVE  UNCHANGED View \/ MEM!Ask \/ Served
<1> DEFINE ask == cpu_we \/ cpu_rd
           line == Index(cpu_a.b)
           tag == tags[line]
           hit == ask /\ way_hit(cpu_a)
           miss == ask /\ ~way_hit(cpu_a)
           writeback == miss /\ tag.valid /\ tag.dirty
           newtag == [b |-> cpu_a.b, valid |-> TRUE, dirty |-> cpu_we \/ tag.dirty]
<1>1. /\ Way(cpu_a, cpu_d, hit /\ cpu_we, hit, newtag)
      /\ ask => host_a' = cpu_a
      /\ c_state' = IF writeback THEN "WRITEBACK" ELSE IF miss THEN "LOAD" ELSE "IDLE"
      /\ writeback => burst_wb_base_a' = tag.b
  BY DEF CacheStep, CacheClock, ClearTags, Idle, Hit, Writeback, Load
<1>2. psram' = psram
  BY McQuiet DEF McStep, IInv, QuietInv, lowmem_we, lowmem_rd
<1>3. cpu_a \in Address /\ cpu_a.b \in Block /\ line \in Line /\ cpu_a.o \in Offset
  BY AddressParts DEF IInv, TypeOK
<1>4. tag \in Tag /\ newtag \in Tag /\ newtag.b = cpu_a.b /\ newtag.valid
  BY <1>3 DEF IInv, TypeOK, CacheTypeOK, Tag
<1>5. hit => tag.valid /\ tag.b = cpu_a.b
  BY DEF way_hit
<1> HIDE DEF newtag, hit
<1>6. /\ way_spo' = bram[line][cpu_a.o]
      /\ \A l \in Line : tags'[l] = IF hit /\ l = line THEN newtag ELSE tags[l]
      /\ \A l \in Line, o \in Offset :
           bram'[l][o] = IF hit /\ cpu_we /\ l = line /\ o = cpu_a.o
                         THEN cpu_d ELSE bram[l][o]
  <2>1. CacheTypeOK /\ cpu_d \in Word
    BY DEF IInv, TypeOK
  <2>2. \A l \in Line, o \in Offset :
           bram'[l][o] = IF (hit /\ cpu_we) /\ l = line /\ o = cpu_a.o
                         THEN cpu_d ELSE bram[l][o]
    BY <1>1, <1>3, <1>4, <2>1, WayStep DEF Way
  <2> QED BY <1>1, <1>3, <1>4, <2>1, <2>2, WayStep DEF Way
<1>7. ASSUME NEW a \in Address
      PROVE  /\ a.b \in Block /\ a.o \in Offset /\ Index(a.b) \in Line
             /\ Newest(a) = IF tags[Index(a.b)].valid /\ tags[Index(a.b)].b = a.b
                            THEN bram[Index(a.b)][a.o] ELSE psram[a.b][a.o]
  BY AddressParts DEF Newest
<1>8. CASE ~ask
  <2>1. c_state' = "IDLE" /\ ~hit BY <1>1, <1>8 DEF hit
  <2>2. ASSUME NEW a \in Address PROVE Newest(a)' = Newest(a)
    BY <1>2, <1>6, <1>7, <2>1 DEF Newest
  <2>3. Contents' = Contents BY <2>2, SameContents
  <2>4. CASE cpu_waits
    <3>1. /\ MemReady /\ ~cpu_we' /\ ~cpu_rd' /\ ~cpu_waits'
          /\ mdr' = IF cpu_read THEN way_spo ELSE mdr
      BY <2>4, CpuTakes DEF IInv
    <3>2. Pending = NoRequest /\ Pending' = NoRequest BY <1>8, <3>1 DEF Pending
    <3>3. Answer' = Answer BY <2>4, <3>1 DEF Answer
    <3> QED BY <2>3, <3>2, <3>3 DEF View
  <2>5. CASE ~cpu_waits
    <3>1. ~cpu_waits' /\ mdr' = mdr BY <1>8, <2>5, CpuRests DEF IInv
    <3>2. Answer' = Answer /\ Pending = NoRequest BY <1>8, <2>5, <3>1 DEF Answer, Pending
    <3>3. CASE ~cpu_we' /\ ~cpu_rd'
      BY <2>3, <3>1, <3>2, <3>3 DEF View, Pending
    <3>4. CASE cpu_we' \/ cpu_rd'
      <4>1. Pending' = [we |-> ~cpu_read, a |-> cpu_a, d |-> cpu_d]'
        BY <3>4 DEF Pending
      <4>2. Pending' \in [we : BOOLEAN, a : Address, d : Word]
        <5>1. (~cpu_read') \in BOOLEAN /\ cpu_a' \in Address /\ cpu_d' \in Word
          BY DEF IInv, TypeOK
        <5> QED BY <4>1, <5>1
      <4> QED BY <2>3, <3>2, <4>2 DEF MEM!Ask, MEM!MemRequest, Answer
    <3> QED BY <3>3, <3>4
  <2> QED BY <2>4, <2>5
<1>9. ASSUME ask
      PROVE  /\ Pending = [we |-> ~cpu_read, a |-> cpu_a, d |-> cpu_d] /\ Answer = mdr
             /\ ~cpu_we' /\ ~cpu_rd' /\ cpu_waits'
             /\ UNCHANGED <<cpu_a, cpu_d, cpu_read, mdr>>
             /\ cpu_we <=> ~cpu_read
  <2>1. cpu_read = cpu_rd BY <1>9 DEF IInv, BusInv
  <2>2. cpu_we <=> ~cpu_read BY <1>9, <2>1 DEF IInv, TypeOK
  <2>3. Pending = [we |-> ~cpu_read, a |-> cpu_a, d |-> cpu_d] /\ Answer = mdr
    BY <1>9 DEF Pending, Answer, MemReady, ready
  <2> QED BY <1>9, <2>2, <2>3, CpuAsks DEF IInv
<1>10. CASE hit
  <2>1. ask /\ c_state' = "IDLE" BY <1>1, <1>10 DEF hit
  <2>2. MemReady' BY <1>9, <2>1 DEF MemReady, ready
  <2>3. Pending' = NoRequest /\ Answer' = IF cpu_read THEN way_spo' ELSE mdr
    BY <1>9, <2>1, <2>2 DEF Pending, Answer
  <2>4. ASSUME NEW a \in Address
        PROVE  Newest(a)' = IF ~cpu_read /\ a = cpu_a THEN cpu_d ELSE Newest(a)
    <3>1. Newest(a)' = IF tags'[Index(a.b)].valid /\ tags'[Index(a.b)].b = a.b
                       THEN bram'[Index(a.b)][a.o] ELSE psram[a.b][a.o]
      BY <1>2, <2>1 DEF Newest
    <3>2. CASE Index(a.b) # line
      BY <1>6, <1>7, <3>1, <3>2
    <3>3. CASE Index(a.b) = line /\ a.b # cpu_a.b
      BY <1>3, <1>4, <1>5, <1>6, <1>7, <1>10, <3>1, <3>3
    <3>4. CASE a.b = cpu_a.b
      <4>1. a = cpu_a <=> a.o = cpu_a.o
        BY <1>3, <3>4, SameAddress
      <4> QED BY <1>3, <1>4, <1>5, <1>6, <1>7, <1>9, <1>10, <2>1, <3>1, <3>4, <4>1
    <3> QED BY <3>2, <3>3, <3>4
  <2>5. Newest(cpu_a) = bram[line][cpu_a.o]
    BY <1>3, <1>5, <1>7, <1>10
  <2> QED BY <1>6, <1>9, <2>1, <2>3, <2>4, <2>5 DEF Served
<1>11. CASE miss
  <2>1. /\ ask /\ ~hit /\ host_a' = cpu_a /\ c_state' \in {"LOAD", "WRITEBACK"}
        /\ ~(tag.valid /\ tag.b = cpu_a.b)
    BY <1>1, <1>11 DEF hit, way_hit
  <2>2. ASSUME NEW a \in Address
        PROVE  tags'[Index(a.b)] = tags[Index(a.b)] /\ bram'[Index(a.b)][a.o] = bram[Index(a.b)][a.o]
    BY <1>6, <1>7, <2>1
  <2>3. ASSUME NEW a \in Address PROVE Newest(a)' = Newest(a)
    <3>1. CASE Index(a.b) # line
      BY <1>2, <1>7, <2>1, <2>2, <3>1 DEF Newest
    <3>2. CASE Index(a.b) = line /\ writeback
      <4>1. Newest(a)' = IF a.b = tag.b THEN bram[line][a.o] ELSE psram[a.b][a.o]
        BY <1>1, <1>2, <2>1, <2>2, <3>2 DEF Newest
      <4> QED BY <1>7, <3>2, <4>1
    <3>3. CASE Index(a.b) = line /\ ~writeback
      <4>1. Newest(a)' = psram[a.b][a.o]
        BY <1>1, <1>2, <1>11, <2>1, <3>3 DEF Newest
      <4>2. tag.valid => bram[line] = psram[tag.b]
        BY <1>3, <1>11, <3>3 DEF IInv, CleanInv
      <4> QED BY <1>7, <3>3, <4>1, <4>2
    <3> QED BY <3>1, <3>2, <3>3
  <2>4. Contents' = Contents BY <2>3, SameContents
  <2>5. ~MemReady' BY <2>1 DEF MemReady, ready
  <2>6. Pending' = Pending /\ Answer' = Answer
    BY <1>9, <2>1, <2>5 DEF Pending, Answer
  <2> QED BY <2>4, <2>6 DEF View
<1> QED BY <1>8, <1>10, <1>11 DEF hit


\* While the cache exchanges a block the request stays up and unanswered.
LEMMA HeldView ==
  ASSUME IInv, CpuStep, c_state \in {"LOAD", "WRITEBACK"},
         c_state' \in {"HIT", "LOAD", "WRITEBACK"}
  PROVE  Pending' = Pending /\ Answer' = Answer
<1>1. ~cpu_we /\ ~cpu_rd /\ cpu_waits /\ UNCHANGED cpuBusVars
  BY CpuHeld DEF IInv
<1>2. ~MemReady /\ ~MemReady'
  BY DEF MemReady, ready
<1>3. Pending = [we |-> ~cpu_read, a |-> cpu_a, d |-> cpu_d]
      /\ Pending' = [we |-> ~cpu_read, a |-> cpu_a, d |-> cpu_d]'
  BY <1>1, <1>2 DEF Pending, cpuBusVars
<1> QED BY <1>1, <1>2, <1>3 DEF Answer, cpuBusVars

\* Writing back moves words to where the CPU does not look for them, and the block
\* is given up when all of it is in memory.
LEMMA WritebackViewStep ==
  ASSUME IInv, CpuStep, CacheStep, McStep, c_state = "WRITEBACK"
  PROVE  UNCHANGED View
<1>1. /\ UNCHANGED <<host_a, burst_wb_base_a, bram>>
      /\ HostLine \in Line
      /\ \A l \in Line : l # HostLine => tags'[l] = tags[l]
      /\ c_state' = IF ~burst_issue /\ xfer_cnt = W THEN "LOAD" ELSE "WRITEBACK"
  BY WritebackFrame
<1>2. ASSUME NEW b \in Block, b # burst_wb_base_a
      PROVE  psram'[b] = psram[b]
  <2>1. MC!WeWord(lowmem_d) => rega = burst_wb_base_a
    BY DEF MC!WeWord, IInv, WritebackInv, WbOffered, WbAccepted, WbSending, WbDone
  <2>2. CASE MC!WeWord(lowmem_d)
    <3>1. psram' = [psram EXCEPT ![rega][MC!Current - 1] = regbuf]
      BY <2>2 DEF MC!WeWord
    <3> QED BY <1>2, <2>1, <2>2, <3>1 DEF IInv, TypeOK, MC!MCTypeOK
  <2>3. CASE ~MC!WeWord(lowmem_d)
    BY <2>3 DEF McStep, MC!MCClock, MC!McIdle, MC!McBegin, MC!McHalf, MC!WeByte,
               MC!RdByte, MC!RdWord
  <2> QED BY <2>2, <2>3
<1>3. CASE c_state' = "WRITEBACK"
  <2>1. ASSUME NEW a \in Address PROVE Newest(a)' = Newest(a)
    <3>1. a.b \in Block /\ Index(a.b) \in Line BY AddressParts
    <3>2. CASE Index(a.b) = HostLine
      <4>1. Newest(a) = IF a.b = burst_wb_base_a THEN bram[HostLine][a.o] ELSE psram[a.b][a.o]
        BY <3>2 DEF Newest, HostLine
      <4>2. Newest(a)' = IF a.b = burst_wb_base_a THEN bram[HostLine][a.o] ELSE psram'[a.b][a.o]
        BY <1>1, <1>3, <3>2 DEF Newest, HostLine
      <4> QED BY <1>2, <3>1, <4>1, <4>2
    <3>3. CASE Index(a.b) # HostLine
      <4>1. a.b # burst_wb_base_a BY <3>3 DEF IInv, WritebackInv
      <4>2. psram'[a.b] = psram[a.b] /\ tags'[Index(a.b)] = tags[Index(a.b)]
        BY <1>1, <1>2, <3>1, <3>3, <4>1
      <4> QED BY <1>1, <1>3, <3>3, <4>2 DEF Newest, HostLine
    <3> QED BY <3>2, <3>3
  <2>2. Contents' = Contents BY <2>1, SameContents
  <2> QED BY <1>3, <2>2, HeldView DEF View
<1>4. CASE c_state' = "LOAD"
  <2>1. ~burst_issue /\ xfer_cnt = W BY <1>1, <1>4
  <2>2. WbDone
    <3>1. W # 0 /\ ~WbOffered /\ ~WbAccepted
      BY <2>1, Sizes DEF WbOffered, WbAccepted
    <3>2. WbSending => xfer_cnt # W
      BY Sizes DEF WbSending, Offset
    <3> QED BY <2>1, <3>1, <3>2 DEF IInv, WritebackInv
  <2>3. psram' = psram
    BY <2>2 DEF WbDone, McStep, MC!MCClock, MC!McIdle, MC!McBegin, MC!McHalf, MC!WeByte,
                MC!WeWord, MC!RdByte, MC!RdWord
  <2>4. \A o \in Offset : bram[HostLine][o] = psram[burst_wb_base_a][o]
    BY <2>2, Sizes DEF WbDone, Moved, Offset
  <2>5. ASSUME NEW a \in Address PROVE Newest(a)' = Newest(a)
    <3>1. a.o \in Offset /\ Index(a.b) \in Line BY AddressParts
    <3>2. CASE Index(a.b) = HostLine
      <4>1. Newest(a) = IF a.b = burst_wb_base_a THEN bram[HostLine][a.o] ELSE psram[a.b][a.o]
        BY <3>2 DEF Newest, HostLine
      <4>2. Newest(a)' = psram[a.b][a.o]
        BY <1>1, <1>4, <2>3, <3>2 DEF Newest, HostLine
      <4> QED BY <2>4, <3>1, <4>1, <4>2
    <3>3. CASE Index(a.b) # HostLine
      <4>1. tags'[Index(a.b)] = tags[Index(a.b)] BY <1>1, <3>1, <3>3
      <4> QED BY <1>1, <1>4, <2>3, <3>3, <4>1 DEF Newest, HostLine
    <3> QED BY <3>2, <3>3
  <2>6. Contents' = Contents BY <2>5, SameContents
  <2> QED BY <1>4, <2>6, HeldView DEF View
<1> QED BY <1>1, <1>3, <1>4

\* Loading fills a line that the CPU does not see until it is complete.
LEMMA LoadViewStep ==
  ASSUME IInv, IInv', CpuStep, CacheStep, McStep, c_state = "LOAD"
  PROVE  UNCHANGED View
<1>1. /\ host_a' = host_a /\ HostLine \in Line
      /\ \A l \in Line : l # HostLine => tags'[l] = tags[l] /\ bram'[l] = bram[l]
      /\ c_state' \in {"HIT", "LOAD"}
  BY LoadFrame
<1>2. psram' = psram
  BY DEF McStep, MC!MCClock, MC!McIdle, MC!McBegin, MC!McHalf, MC!WeByte, MC!WeWord,
         MC!RdByte, MC!RdWord, IInv, LoadInv, LdOffered, LdAccepted, LdReceiving, LdDone
<1>3. c_state' = "HIT" => /\ tags'[HostLine].b = HostBlock
                          /\ bram'[HostLine] = psram[HostBlock]
  <2> SUFFICES ASSUME c_state' = "HIT"
               PROVE  /\ tags'[HostLine].b = HostBlock
                      /\ bram'[HostLine] = psram[HostBlock]
    OBVIOUS
  <2>1. tags'[HostLine] = LoadedTag BY LoadFrame
  <2>2. tags'[HostLine].valid /\ ~tags'[HostLine].dirty /\ tags'[HostLine].b = HostBlock
    BY <2>1 DEF LoadedTag
  <2>3. bram'[HostLine] = psram'[tags'[HostLine].b]
    BY <1>1, <2>2 DEF IInv, CleanInv
  <2> QED BY <1>2, <2>2, <2>3
<1>4. ASSUME NEW a \in Address PROVE Newest(a)' = Newest(a)
  <2>1. a.o \in Offset /\ Index(a.b) \in Line BY AddressParts
  <2>2. CASE Index(a.b) # HostLine
    BY <1>1, <1>2, <2>1, <2>2 DEF Newest, HostLine
  <2>3. CASE Index(a.b) = HostLine
    <3>1. Newest(a) = psram[a.b][a.o] BY <2>3 DEF Newest, HostLine
    <3>2. CASE c_state' = "LOAD" BY <1>1, <1>2, <2>3, <3>1, <3>2 DEF Newest, HostLine
    <3>3. CASE c_state' = "HIT"
      <4>1. Newest(a)' = IF tags'[HostLine].valid /\ tags'[HostLine].b = a.b
                         THEN bram'[HostLine][a.o] ELSE psram[a.b][a.o]
        BY <1>2, <2>3, <3>3 DEF Newest
      <4> QED BY <1>3, <3>1, <3>3, <4>1
    <3> QED BY <1>1, <3>2, <3>3
  <2> QED BY <2>2, <2>3
<1>5. Contents' = Contents BY <1>4, SameContents
<1> QED BY <1>1, <1>5, HeldView DEF View

LEMMA ClockView ==
  ASSUME IInv, Clock
  PROVE  UNCHANGED View \/ MEM!Ask \/ MEM!Read \/ MEM!Write
<1>1. CpuStep /\ CacheStep /\ McStep
  BY DEF Clock, CpuStep, CacheStep, McStep
<1>2. IInv' /\ TypeOK BY ClockInv DEF IInv
<1>3. c_state \in {"INIT", "IDLE", "HIT", "LOAD", "WRITEBACK"}
  BY DEF IInv, TypeOK, CacheTypeOK
<1>4. CASE c_state = "INIT" BY <1>1, <1>4, InitViewStep
<1>5. CASE c_state = "IDLE" BY <1>1, <1>2, <1>5, IdleViewStep, ServedStep
<1>6. CASE c_state = "HIT" BY <1>1, <1>2, <1>6, HitViewStep, ServedStep
<1>7. CASE c_state = "LOAD" BY <1>1, <1>2, <1>7, LoadViewStep
<1>8. CASE c_state = "WRITEBACK" BY <1>1, <1>8, WritebackViewStep
<1> QED BY <1>3, <1>4, <1>5, <1>6, <1>7, <1>8

\* Cache, controller and PSRAM are a memory: whatever is evicted, written back and
\* loaded, a read returns the word written last and a write takes effect once
\* (cache_cpu.v:139-237 over memory_controller.v).
THEOREM CacheIsMemory == Spec => ImplementsMemory
<1>1. Init => MEM!Init BY InitView
<1>2. IInv /\ [Next]_vars => [MEM!Ask \/ MEM!Read \/ MEM!Write]_(MEM!memVars)
  <2> SUFFICES ASSUME IInv, [Next]_vars
               PROVE  [MEM!Ask \/ MEM!Read \/ MEM!Write]_(MEM!memVars)
    OBVIOUS
  <2>1. CASE Clock
    BY <2>1, ClockView DEF View, Answer, MEM!memVars
  <2>2. CASE UNCHANGED vars
    BY <2>2 DEF vars, cVars, mcVars, cpuBusVars, MEM!memVars, Contents, Newest, Pending,
                MemReady, ready
  <2> QED BY <2>1, <2>2 DEF Next
<1> QED BY <1>1, <1>2, Invariance, PTL DEF Spec, ImplementsMemory, MEM!Spec

=============================================================================
