----------------------------- MODULE BootProofs -----------------------------
(***************************************************************************)
(* The boot ROM and sdcard_to_memory copy exactly what is on the card, for *)
(* every size of a sector, of the card and of the files, whenever the      *)
(* controller delivers a word.  The invariant says which sector is in the  *)
(* buffer, or how much of it, at each statement that copies from it.       *)
(*                                                                         *)
(* The ELF loader makes of the copies what the files describe.  Its loops  *)
(* are functions of the number of iterations, and what they do to memory   *)
(* is proved by induction over that number.                                *)
(***************************************************************************)
EXTENDS Boot, TLAPS, NaturalsInduction, WellFoundedInduction

Statements ==
  {"reset", "rom_issue", "rom_copy", "rom_uart", "kernel", "sdcard_init", "keys",
   "sd2mem", "sd2mem_wait", "sd2mem_copy", "run", "lost"}

VarsInv ==
  /\ pc \in Statements /\ i \in Nat /\ job \in {"lib", "elf"}
  /\ curr_sec \in Nat /\ curr_offset \in WordIndex /\ mem_i \in Nat
  /\ early \in BOOLEAN

\* What the controller has read so far is in the buffer.
PartRead(d) ==
  d.op = "rd" =>
    /\ d.counter > 0 => d.sd_address \in 0 .. Sectors - 1
    /\ \A w \in WordIndex : w < d.counter => d.block[w] = d.card[d.sd_address][w]

\* The buffer is never written by the processor, so the card is not either.
DeviceInv == sd \in Device(Int) /\ ~sd.dirty /\ sd.op # "wr" /\ PartRead(sd)

\* Sector s is in the buffer, or will be when the controller is ready.
Holds(d, s) ==
  /\ d.sd_address = s
  /\ \/ d.op = "rd"
     \/ /\ d.op = "IDLE" /\ s \in 0 .. Sectors - 1
        /\ \A w \in WordIndex : d.block[w] = d.card[s][w]

\* The sectors before sector n of the kernel are in memory.
KernelUpTo(n) ==
  \A a \in Addr : a \div SECTOR_WORDS < n => mem[a] = CardWord(sd.card, a)

HoldsRom == Holds(sd, i)

RomInv ==
  /\ pc = "reset" => i = 0
  /\ pc \in {"rom_issue", "rom_copy"} => i < BOOT_SECTORS /\ KernelUpTo(i)
  /\ pc = "rom_copy" => HoldsRom
  /\ pc = "rom_uart" => sd.ncd
  /\ pc = "kernel" /\ ~sd.ncd => KernelUpTo(BOOT_SECTORS)

\* The first n words of the file are in memory.
FileUpTo(n) ==
  \A k \in 0 .. n - 1 :
    mem[Jobs[job].mem_start + k] = CardWord(sd.card, Jobs[job].sd_start \div 4 + k)

\* The word that is copied next is the one at curr_offset of sector curr_sec.
AtWord == SECTOR_WORDS * curr_sec + curr_offset = Jobs[job].sd_start \div 4 + mem_i

HoldsFile == Holds(sd, curr_sec)

CopyInv ==
  pc \in {"sd2mem_wait", "sd2mem_copy"} =>
    /\ mem_i <= Jobs[job].size
    /\ pc = "sd2mem_copy" => sd.op = "IDLE"
    /\ ~early => HoldsFile /\ AtWord /\ FileUpTo(mem_i)

BInv == DeviceInv /\ VarsInv /\ RomInv /\ CopyInv

-----------------------------------------------------------------------------
(* Arithmetic of sectors.                                                  *)

LEMMA DivMod ==
  ASSUME NEW n \in Nat \ {0}, NEW s \in Nat, NEW o \in 0 .. n - 1
  PROVE  (n * s + o) \div n = s /\ (n * s + o) % n = o
  OBVIOUS

LEMMA DivLess ==
  ASSUME NEW n \in Nat \ {0}, NEW s \in Nat, NEW a \in Nat, a < s * n
  PROVE  a \div n < s
  OBVIOUS

LEMMA ModIn ==
  ASSUME NEW n \in Nat \ {0}, NEW a \in Nat
  PROVE  a % n \in 0 .. n - 1 /\ (a % n) % n = a % n /\ a \div n \in Nat
  OBVIOUS

LEMMA NextSector ==
  ASSUME NEW n \in Nat, NEW s \in Nat, NEW o \in Nat, o + 1 = n
  PROVE  n * (s + 1) + 0 = (n * s + o) + 1
<1>1. n * (s + 1) = n * s + n /\ n * s \in Nat
  OBVIOUS
<1> QED
  BY <1>1

\* The start of a sector, counted in words.
LEMMA WholeSectors ==
  ASSUME NEW n \in Nat \ {0}, NEW b \in Nat, b % (4 * n) = 0
  PROVE  b \div (4 * n) \in Nat /\ n * (b \div (4 * n)) = b \div 4
  OBVIOUS
LEMMA Zero == 0 \in 0 .. SECTOR_WORDS /\ 0 \in WordIndex
  BY CardAssumption DEF WordIndex

LEMMA Sizes ==
  /\ SECTOR_WORDS \in Nat \ {0} /\ Sectors \in Nat \ {0} /\ BOOT_SECTORS \in 1 .. Sectors
  /\ \A j \in {"lib", "elf"} :
       /\ Jobs[j].size \in Nat /\ Jobs[j].mem_start \in Nat /\ Jobs[j].sd_start \in Nat
       /\ Jobs[j].mem_start + Jobs[j].size <= MEM
       /\ Jobs[j].sd_start % (4 * SECTOR_WORDS) = 0
       /\ Jobs[j].sd_start \div 4 \in Nat
  /\ MEM \in Nat /\ BOOT_SECTORS * SECTOR_WORDS <= MEM
<1>1. SECTOR_WORDS \in Nat \ {0} /\ Sectors \in Nat \ {0} /\ BOOT_SECTORS \in 1 .. Sectors
  BY CardAssumption, LayoutAssumption
<1>2. /\ MEM \in Nat /\ LIB_SD \in Nat /\ LIB_SIZE \in Nat /\ LIBCSO_LOAD_ADDR \in Nat
      /\ ELF_SD \in Nat /\ ELF_SIZE \in Nat /\ ELF_LOAD_ADDR \in Nat
      /\ LIB_SD % (4 * SECTOR_WORDS) = 0 /\ ELF_SD % (4 * SECTOR_WORDS) = 0
  BY LayoutAssumption DEF SECTOR_BYTES
<1>3. /\ ELF_LOAD_ADDR + ELF_SIZE <= LIBCSO_LOAD_ADDR /\ LIBCSO_LOAD_ADDR + LIB_SIZE <= MEM
      /\ BOOT_SECTORS * SECTOR_WORDS <= ELF_LOAD_ADDR
  BY LayoutAssumption
<1>4. \A j \in {"lib", "elf"} :
        /\ Jobs[j].size \in Nat /\ Jobs[j].mem_start \in Nat /\ Jobs[j].sd_start \in Nat
        /\ Jobs[j].mem_start + Jobs[j].size <= MEM
        /\ Jobs[j].sd_start % (4 * SECTOR_WORDS) = 0
  BY <1>2, <1>3 DEF Jobs
<1>5. MEM \in Nat /\ BOOT_SECTORS * SECTOR_WORDS <= MEM
  BY <1>1, <1>2, <1>3
<1> QED
  BY <1>1, <1>4, <1>5

LEMMA AddrParts ==
  ASSUME NEW a \in Addr
  PROVE  a \in Nat /\ a \div SECTOR_WORDS \in Nat /\ a % SECTOR_WORDS \in WordIndex
         /\ (a % SECTOR_WORDS) % SECTOR_WORDS = a % SECTOR_WORDS
<1>1. a \in Nat
  BY Sizes DEF Addr
<1> QED
  BY <1>1, Sizes, ModIn DEF WordIndex

-----------------------------------------------------------------------------
(* The device.                                                             *)

\* A load that the controller accepts, and one that it ignores.
LEMMA LoadEffect ==
  ASSUME NEW d \in Device(Int), NEW s \in Int, PartRead(d), ~d.dirty, d.op # "wr",
         NEW e, e = sd_blk_load(sd_blk_ioctl(d, s))
  PROVE  /\ e \in Device(Int) /\ PartRead(e) /\ ~e.dirty /\ e.op # "wr"
         /\ e.card = d.card /\ e.ncd = d.ncd
         /\ d.op = "IDLE" => Holds(e, s)
         /\ d.op # "IDLE" => e = d
<1>1. CASE d.op = "IDLE"
  <2>1. e = [d EXCEPT !.sd_address = s, !.op = "rd", !.counter = 0]
    BY <1>1 DEF sd_blk_load, sd_blk_ioctl, sd_blk_isready, Device
  <2>2. e \in Device(Int)
    BY <2>1, Zero DEF Device
  <2>3. /\ e.card = d.card /\ e.ncd = d.ncd /\ e.dirty = d.dirty
        /\ e.op = "rd" /\ e.sd_address = s /\ e.counter = 0
    BY <2>1 DEF Device
  <2>4. PartRead(e)
    BY <2>3, CardAssumption DEF PartRead, WordIndex
  <2> QED
    BY <1>1, <2>2, <2>3, <2>4 DEF Holds
<1>2. CASE d.op # "IDLE"
  BY <1>2 DEF sd_blk_load, sd_blk_ioctl, sd_blk_isready
<1> QED
  BY <1>1, <1>2

\* A step of the controller brings the sector nearer and disturbs nothing.
LEMMA ControllerEffect ==
  ASSUME NEW d \in Device(Int), PartRead(d), ~d.dirty, d.op # "wr", NEW e,
         \/ Initialised(d) /\ e = Idle(d)
         \/ Transfers(d) /\ e = Transfer(d)
         \/ Finished(d) /\ e = Idle(d)
  PROVE  /\ e \in Device(Int) /\ PartRead(e) /\ ~e.dirty /\ e.op # "wr"
         /\ e.card = d.card /\ e.ncd = d.ncd /\ d.op # "IDLE"
         /\ \A s : Holds(d, s) => Holds(e, s)
<1>1. CASE Initialised(d) /\ e = Idle(d)
  <2>1. e = [d EXCEPT !.op = "IDLE", !.counter = 0] /\ d.op = "RST"
    BY <1>1 DEF Initialised, Idle
  <2>2. e \in Device(Int)
    BY <2>1, Zero DEF Device
  <2>3. e.card = d.card /\ e.ncd = d.ncd /\ e.dirty = d.dirty /\ e.op = "IDLE"
    BY <2>1 DEF Device
  <2> QED
    BY <2>1, <2>2, <2>3 DEF PartRead, Holds
<1>2. CASE Transfers(d) /\ e = Transfer(d)
  <2>1. /\ d.op = "rd" /\ d.counter \in WordIndex /\ d.sd_address \in 0 .. Sectors - 1
        /\ e = [d EXCEPT !.block[d.counter] = d.card[d.sd_address][d.counter],
                         !.counter = @ + 1]
    BY <1>2, CardAssumption DEF Transfers, Transfer, Device, Card, WordIndex
  <2>2. /\ d.block \in [WordIndex -> Int] /\ d.counter \in Nat
        /\ d.card[d.sd_address] \in [WordIndex -> Int]
    <3>1. d.block \in [WordIndex -> Int] /\ d.card \in [0 .. Sectors - 1 -> [WordIndex -> Int]]
      BY DEF Device, Card
    <3>2. d.counter \in Nat
      BY <2>1, CardAssumption DEF WordIndex
    <3> QED
      BY <2>1, <3>1, <3>2
  <2>3. /\ e.card = d.card /\ e.ncd = d.ncd /\ e.dirty = d.dirty /\ e.op = "rd"
        /\ e.sd_address = d.sd_address /\ e.counter = d.counter + 1
        /\ e.block = [d.block EXCEPT ![d.counter] = d.card[d.sd_address][d.counter]]
    BY <2>1 DEF Device
  <2>4. e \in Device(Int)
    <3>1. e.block \in [WordIndex -> Int] /\ e.counter \in 0 .. SECTOR_WORDS
      <4>1. d.card[d.sd_address][d.counter] \in Int
        BY <2>1, <2>2
      <4>2. e.block \in [WordIndex -> Int]
        BY <2>2, <2>3, <4>1
      <4>3. e.counter \in 0 .. SECTOR_WORDS
        BY <2>1, <2>3, CardAssumption DEF WordIndex
      <4> QED
        BY <4>2, <4>3
    <3> QED
      BY <2>1, <3>1 DEF Device
  <2>5. PartRead(e)
    <3>1. ASSUME NEW w \in WordIndex, w < d.counter + 1
          PROVE  e.block[w] = d.card[d.sd_address][w]
      <4>1. CASE w = d.counter
        BY <2>1, <2>2, <2>3, <4>1
      <4>2. CASE w < d.counter
        BY <2>1, <2>2, <2>3, <4>2 DEF PartRead
      <4> QED
        BY <2>2, <3>1, <4>1, <4>2 DEF WordIndex
    <3> QED
      BY <2>1, <2>3, <3>1 DEF PartRead
  <2> QED
    BY <2>1, <2>3, <2>4, <2>5 DEF Holds
<1>3. CASE Finished(d) /\ e = Idle(d)
  <2>1. /\ d.op = "rd" /\ d.counter = SECTOR_WORDS
        /\ e = [d EXCEPT !.op = "IDLE", !.counter = 0]
    BY <1>3 DEF Finished, Idle
  <2>2. /\ e.card = d.card /\ e.ncd = d.ncd /\ e.dirty = d.dirty /\ e.op = "IDLE"
        /\ e.sd_address = d.sd_address /\ e.block = d.block
    BY <2>1 DEF Device
  <2>3. e \in Device(Int)
    BY <2>1, Zero DEF Device
  <2>4. /\ d.sd_address \in 0 .. Sectors - 1
        /\ \A w \in WordIndex : d.block[w] = d.card[d.sd_address][w]
    BY <2>1, CardAssumption DEF PartRead, WordIndex
  <2> QED
    BY <2>1, <2>2, <2>3, <2>4 DEF PartRead, Holds
<1> QED
  BY <1>1, <1>2, <1>3

\* What the processor reads of a sector that the buffer holds.
LEMMA WordOfSector ==
  ASSUME NEW d \in Device(Int), NEW s \in Nat, Holds(d, s), d.op = "IDLE", NEW o \in WordIndex
  PROVE  cache(d, o) = CardWord(d.card, SECTOR_WORDS * s + o)
<1>1. o % SECTOR_WORDS = o
  BY CardAssumption DEF WordIndex
<1>2. cache(d, o) = d.card[s][o]
  BY <1>1 DEF cache, Holds
<1> QED
  BY <1>2, DivMod, CardAssumption DEF CardWord, WordIndex
-----------------------------------------------------------------------------
(* The boot ROM.                                                           *)

\* A step that copies no file keeps what is known of the copy.
LEMMA NotCopying ==
  ASSUME pc' \notin {"sd2mem_wait", "sd2mem_copy"}
  PROVE  CopyInv'
  BY DEF CopyInv

LEMMA NotInRom ==
  ASSUME pc' \notin {"reset", "rom_issue", "rom_copy", "rom_uart", "kernel"}
  PROVE  RomInv'
  BY DEF RomInv

LEMMA RomStartStep == ASSUME BInv, RomStart PROVE BInv'
<1>1. /\ pc' \in {"rom_uart", "rom_issue"} /\ (pc' = "rom_uart" => sd.ncd)
      /\ sd' = sd /\ i' = i /\ pc = "reset"
      /\ job' = job /\ curr_sec' = curr_sec /\ curr_offset' = curr_offset
      /\ mem_i' = mem_i /\ early' = early
  BY DEF RomStart, copying
<1>2. DeviceInv' /\ VarsInv'
  BY <1>1 DEF BInv, DeviceInv, VarsInv, Statements
<1>3. KernelUpTo(0)'
  <2>1. \A a \in Addr : a \div SECTOR_WORDS \in Nat
    BY AddrParts
  <2>2. \A n \in Nat : ~(n < 0)
    OBVIOUS
  <2> QED
    BY <2>1, <2>2 DEF KernelUpTo
<1>4. RomInv'
  BY <1>1, <1>3, Sizes DEF BInv, RomInv, KernelUpTo
<1> QED
  BY <1>1, <1>2, <1>4, NotCopying DEF BInv

LEMMA RomIssueStep == ASSUME BInv, RomIssue PROVE BInv'
<1>1. /\ pc = "rom_issue" /\ pc' = "rom_copy" /\ sd.op = "IDLE"
      /\ sd' = sd_blk_load(sd_blk_ioctl(sd, i)) /\ i' = i /\ mem' = mem
      /\ job' = job /\ curr_sec' = curr_sec /\ curr_offset' = curr_offset
      /\ mem_i' = mem_i /\ early' = early
  BY DEF RomIssue, copying, sd_blk_isready
<1>2. DeviceInv' /\ sd'.card = sd.card /\ HoldsRom'
  <2>1. i \in Int /\ sd \in Device(Int) /\ PartRead(sd) /\ ~sd.dirty /\ sd.op # "wr"
    BY DEF BInv, DeviceInv, VarsInv
  <2>2. /\ sd' \in Device(Int) /\ PartRead(sd') /\ ~sd'.dirty /\ sd'.op # "wr"
        /\ sd'.card = sd.card /\ Holds(sd', i)
    BY <1>1, <2>1, LoadEffect
  <2> QED
    BY <1>1, <2>2 DEF DeviceInv, HoldsRom
<1>3. VarsInv'
  BY <1>1 DEF BInv, VarsInv, Statements
<1>4. RomInv'
  BY <1>1, <1>2 DEF BInv, RomInv, KernelUpTo
<1> QED
  BY <1>1, <1>2, <1>3, <1>4, NotCopying DEF BInv

\* One sector of the kernel.
LEMMA RomCopyStep == ASSUME BInv, RomCopy PROVE BInv'
<1>1. /\ pc = "rom_copy" /\ sd.op = "IDLE" /\ sd' = sd
      /\ mem' = [a \in Addr |->
                   IF a \div SECTOR_WORDS = i THEN cache(sd, a % SECTOR_WORDS) ELSE mem[a]]
      /\ IF i + 1 < BOOT_SECTORS THEN pc' = "rom_issue" /\ i' = i + 1
                                 ELSE pc' = "kernel" /\ i' = 0
      /\ job' = job /\ curr_sec' = curr_sec /\ curr_offset' = curr_offset
      /\ mem_i' = mem_i /\ early' = early
  BY DEF RomCopy, copying, sd_blk_isready
<1>2. i \in Nat /\ i < BOOT_SECTORS /\ BOOT_SECTORS \in Nat
  BY <1>1, Sizes DEF BInv, VarsInv, RomInv
<1>3. DeviceInv' /\ VarsInv'
  BY <1>1, <1>2 DEF BInv, DeviceInv, VarsInv, Statements
<1>4. ASSUME NEW a \in Addr, a \div SECTOR_WORDS < i + 1
      PROVE  mem'[a] = CardWord(sd.card, a)
  <2>1. a \in Nat /\ a \div SECTOR_WORDS \in Nat /\ a % SECTOR_WORDS \in WordIndex
        /\ (a % SECTOR_WORDS) % SECTOR_WORDS = a % SECTOR_WORDS
    BY AddrParts
  <2>2. CASE a \div SECTOR_WORDS = i
    <3>1. mem'[a] = sd.block[a % SECTOR_WORDS]
      BY <1>1, <2>1, <2>2 DEF cache
    <3>2. \A w \in WordIndex : sd.block[w] = sd.card[i][w]
      BY <1>1 DEF BInv, RomInv, HoldsRom, Holds
    <3> QED
      BY <2>1, <2>2, <3>1, <3>2 DEF CardWord
  <2>3. CASE a \div SECTOR_WORDS < i
    <3>1. mem'[a] = mem[a]
      BY <1>1, <1>2, <2>1, <2>3
    <3> QED
      BY <1>1, <2>3, <3>1 DEF BInv, RomInv, KernelUpTo
  <2> QED
    BY <1>2, <1>4, <2>1, <2>2, <2>3
<1>5. RomInv'
  <2>1. CASE i + 1 < BOOT_SECTORS
    BY <1>1, <1>4, <2>1 DEF RomInv, KernelUpTo
  <2>2. CASE ~(i + 1 < BOOT_SECTORS)
    <3>1. i + 1 = BOOT_SECTORS
      BY <1>2, <2>2
    <3> QED
      BY <1>1, <1>4, <2>2, <3>1 DEF RomInv, KernelUpTo
  <2> QED
    BY <2>1, <2>2
<1> QED
  BY <1>1, <1>3, <1>5, NotCopying DEF BInv

LEMMA RomUartStep == ASSUME BInv, RomUart PROVE BInv'
<1>1. /\ pc = "rom_uart" /\ pc' = "kernel" /\ sd' = sd /\ i' = i
      /\ job' = job /\ curr_sec' = curr_sec /\ curr_offset' = curr_offset
      /\ mem_i' = mem_i /\ early' = early
  BY DEF RomUart, copying
<1>2. DeviceInv' /\ VarsInv' /\ RomInv'
  BY <1>1 DEF BInv, DeviceInv, VarsInv, RomInv, Statements
<1> QED
  BY <1>1, <1>2, NotCopying DEF BInv

-----------------------------------------------------------------------------
(* sd_c_start.                                                             *)

LEMMA MemoryTestStep == ASSUME BInv, memory_test PROVE BInv'
<1>1. /\ pc' = "sdcard_init" /\ sd' = sd /\ i' = i
      /\ job' = job /\ curr_sec' = curr_sec /\ curr_offset' = curr_offset
      /\ mem_i' = mem_i /\ early' = early
  BY DEF memory_test, copying
<1>2. DeviceInv' /\ VarsInv'
  BY <1>1 DEF BInv, DeviceInv, VarsInv, Statements
<1> QED
  BY <1>1, <1>2, NotCopying, NotInRom DEF BInv

LEMMA SdcardInitStep == ASSUME BInv, sdcard_init PROVE BInv'
<1>1. /\ pc' \in {"sdcard_init", "keys"} /\ (i' = 0 \/ i' = i + 1)
      /\ (sd' = sd \/ sd' = sd_blk_load(sd_blk_ioctl(sd, 0)))
      /\ job' = job /\ curr_sec' = curr_sec /\ curr_offset' = curr_offset
      /\ mem_i' = mem_i /\ early' = early
  BY DEF sdcard_init, copying
<1>2. DeviceInv'
  <2>1. sd \in Device(Int) /\ PartRead(sd) /\ ~sd.dirty /\ sd.op # "wr"
    BY DEF BInv, DeviceInv
  <2>2. sd' \in Device(Int) /\ PartRead(sd') /\ ~sd'.dirty /\ sd'.op # "wr"
    BY <1>1, <2>1, LoadEffect
  <2> QED
    BY <2>2 DEF DeviceInv
<1>3. VarsInv'
  BY <1>1 DEF BInv, VarsInv, Statements
<1> QED
  BY <1>1, <1>2, <1>3, NotCopying, NotInRom DEF BInv

LEMMA KeyStep == ASSUME BInv, uart_getchar PROVE BInv'
<1>1. /\ pc' \in {"keys", "sd2mem"} /\ sd' = sd /\ i' = i + 1
      /\ job' = job /\ curr_sec' = curr_sec /\ curr_offset' = curr_offset
      /\ mem_i' = mem_i /\ early' = early
  BY DEF uart_getchar, copying
<1>2. DeviceInv' /\ VarsInv'
  BY <1>1 DEF BInv, DeviceInv, VarsInv, Statements
<1> QED
  BY <1>1, <1>2, NotCopying, NotInRom DEF BInv
\* The file begins with a sector, and the load of it is accepted unless the
\* controller is busy.
LEMMA SdcardToMemoryStep == ASSUME BInv, sdcard_to_memory PROVE BInv'
<1> DEFINE sec == Jobs[job].sd_start \div SECTOR_BYTES
<1>1. /\ pc' = "sd2mem_wait" /\ i' = i /\ job' = job /\ mem_i' = 0 /\ mem' = mem
      /\ curr_sec' = sec /\ curr_offset' = Jobs[job].sd_start % SECTOR_BYTES
  BY DEF sdcard_to_memory
<1>2. sd' = sd_blk_load(sd_blk_ioctl(sd, sec)) /\ early' = (early \/ sd.op # "IDLE")
  BY DEF sdcard_to_memory, sd_blk_isdirty, sd_blk_isready, BInv, DeviceInv
<1>3. /\ job \in {"lib", "elf"} /\ sec \in Nat
      /\ SECTOR_WORDS * sec = Jobs[job].sd_start \div 4
      /\ Jobs[job].sd_start % SECTOR_BYTES = 0
  <2>1. job \in {"lib", "elf"} /\ SECTOR_BYTES = 4 * SECTOR_WORDS
    BY DEF BInv, VarsInv, SECTOR_BYTES
  <2>2. Jobs[job].sd_start \in Nat /\ Jobs[job].sd_start % (4 * SECTOR_WORDS) = 0
    BY <2>1, Sizes
  <2>3. PICK b \in Nat : b = Jobs[job].sd_start
    BY <2>2
  <2>4. b \div (4 * SECTOR_WORDS) \in Nat
        /\ SECTOR_WORDS * (b \div (4 * SECTOR_WORDS)) = b \div 4
    BY <2>2, <2>3, Sizes, WholeSectors
  <2> QED
    BY <2>1, <2>2, <2>3, <2>4
<1> HIDE DEF sec
<1>4. DeviceInv' /\ sd'.card = sd.card /\ (sd.op = "IDLE" => Holds(sd', sec))
  <2>1. sec \in Int /\ sd \in Device(Int) /\ PartRead(sd) /\ ~sd.dirty /\ sd.op # "wr"
    BY <1>3 DEF BInv, DeviceInv
  <2>2. /\ sd' \in Device(Int) /\ PartRead(sd') /\ ~sd'.dirty /\ sd'.op # "wr"
        /\ sd'.card = sd.card /\ (sd.op = "IDLE" => Holds(sd', sec))
    BY <1>2, <2>1, LoadEffect
  <2> QED
    BY <2>2 DEF DeviceInv
<1>5. early' \in BOOLEAN /\ (~early' => sd.op = "IDLE")
  BY <1>2, Zenon
<1>6. VarsInv'
  BY <1>1, <1>3, <1>5, Zero DEF BInv, VarsInv, Statements
<1>7. ~early' => HoldsFile'
  BY <1>1, <1>4, <1>5 DEF HoldsFile
<1>8. AtWord'
  BY <1>1, <1>3, Sizes DEF AtWord
<1>9. FileUpTo(0)'
  BY DEF FileUpTo
<1>10. CopyInv'
  <2>1. 0 <= Jobs[job].size
    BY <1>3, Sizes
  <2>2. FileUpTo(mem_i)'
    BY <1>1, <1>9 DEF FileUpTo
  <2> QED
    BY <1>1, <1>7, <1>8, <2>1, <2>2 DEF CopyInv
<1> QED
  BY <1>1, <1>4, <1>6, <1>10, NotInRom DEF BInv

LEMMA WaitStep == ASSUME BInv, sd2mem_wait PROVE BInv'
<1>1. /\ pc = "sd2mem_wait" /\ pc' = "sd2mem_copy" /\ sd.op = "IDLE"
      /\ sd' = sd /\ mem' = mem /\ i' = i
      /\ job' = job /\ curr_sec' = curr_sec /\ curr_offset' = curr_offset
      /\ mem_i' = mem_i /\ early' = early
  BY DEF sd2mem_wait, copying, sd_blk_isready
<1>2. DeviceInv' /\ VarsInv'
  BY <1>1 DEF BInv, DeviceInv, VarsInv, Statements
<1>3. CopyInv'
  BY <1>1 DEF BInv, CopyInv, HoldsFile, AtWord, FileUpTo
<1> QED
  BY <1>1, <1>2, <1>3, NotInRom DEF BInv

\* One word of a file, and behind the last one of a sector the next sector.
LEMMA CopyStep == ASSUME BInv, sd2mem_copy PROVE BInv'
<1>1. /\ pc = "sd2mem_copy" /\ mem_i < Jobs[job].size
      /\ mem' = [a \in Addr |-> IF a = Jobs[job].mem_start + mem_i THEN cache(sd, curr_offset)
                                                                  ELSE mem[a]]
      /\ mem_i' = mem_i + 1 /\ i' = i /\ job' = job /\ early' = early
  BY DEF sd2mem_copy, CopyWord
<1>2. /\ curr_offset + 1 = SECTOR_WORDS =>
           /\ curr_offset' = 0 /\ curr_sec' = curr_sec + 1 /\ pc' = "sd2mem_wait"
           /\ sd' = sd_blk_load(sd_blk_ioctl(sd, curr_sec + 1))
      /\ curr_offset + 1 # SECTOR_WORDS =>
           /\ curr_offset' = curr_offset + 1 /\ curr_sec' = curr_sec /\ pc' = "sd2mem_copy"
           /\ sd' = sd
  BY <1>1 DEF sd2mem_copy, CopyWord
<1>3. /\ sd \in Device(Int) /\ PartRead(sd) /\ ~sd.dirty /\ sd.op = "IDLE"
      /\ curr_sec \in Nat /\ curr_offset \in WordIndex /\ mem_i \in Nat /\ job \in {"lib", "elf"}
  BY <1>1 DEF BInv, DeviceInv, VarsInv, CopyInv
<1>4. /\ Jobs[job].size \in Nat /\ Jobs[job].mem_start \in Nat /\ Jobs[job].sd_start \div 4 \in Nat
      /\ Jobs[job].mem_start + Jobs[job].size <= MEM /\ MEM \in Nat
      /\ SECTOR_WORDS \in Nat \ {0}
  BY <1>3, Sizes
<1>5. /\ DeviceInv' /\ sd'.card = sd.card
      /\ pc' = "sd2mem_copy" => sd' = sd
      /\ curr_offset + 1 = SECTOR_WORDS => Holds(sd', curr_sec + 1)
  <2>1. CASE curr_offset + 1 = SECTOR_WORDS
    <3>1. curr_sec + 1 \in Int
      BY <1>3
    <3>2. /\ sd' \in Device(Int) /\ PartRead(sd') /\ ~sd'.dirty /\ sd'.op # "wr"
          /\ sd'.card = sd.card /\ Holds(sd', curr_sec + 1)
      BY <1>2, <1>3, <2>1, <3>1, LoadEffect
    <3> QED
      BY <1>2, <2>1, <3>2 DEF DeviceInv
  <2>2. CASE curr_offset + 1 # SECTOR_WORDS
    BY <1>2, <1>3, <2>2 DEF DeviceInv
  <2> QED
    BY <2>1, <2>2
<1>6. VarsInv'
  <2>1. curr_offset' \in WordIndex /\ curr_sec' \in Nat /\ pc' \in Statements
    BY <1>2, <1>3, <1>4 DEF WordIndex, Statements
  <2> QED
    BY <1>1, <1>3, <2>1 DEF BInv, VarsInv
<1>7. ASSUME ~early
      PROVE  HoldsFile' /\ AtWord' /\ FileUpTo(mem_i)'
  <2>1. HoldsFile /\ AtWord /\ FileUpTo(mem_i)
    BY <1>1, <1>7 DEF BInv, CopyInv
  <2>2. HoldsFile'
    BY <1>2, <1>5, <2>1 DEF HoldsFile
  <2>3. AtWord'
    <3>1. SECTOR_WORDS * curr_sec + curr_offset = Jobs[job].sd_start \div 4 + mem_i
      BY <2>1 DEF AtWord
    <3>2. PICK b \in Nat : b = Jobs[job].sd_start \div 4
      BY <1>4
    <3>3. curr_offset \in Nat /\ SECTOR_WORDS * curr_sec \in Nat
      BY <1>3, <1>4 DEF WordIndex
    <3>4. SECTOR_WORDS * curr_sec' + curr_offset' = (SECTOR_WORDS * curr_sec + curr_offset) + 1
      <4>1. CASE curr_offset + 1 = SECTOR_WORDS
        <5>1. curr_sec' = curr_sec + 1 /\ curr_offset' = 0
          BY <1>2, <4>1
        <5> QED
          BY <1>3, <1>4, <3>3, <4>1, <5>1, NextSector
      <4>2. CASE curr_offset + 1 # SECTOR_WORDS
        <5>1. curr_sec' = curr_sec /\ curr_offset' = curr_offset + 1
          BY <1>2, <4>2
        <5>2. PICK t \in Nat : t = SECTOR_WORDS * curr_sec
          BY <3>3
        <5> QED
          BY <3>3, <5>1, <5>2
      <4> QED
        BY <4>1, <4>2
    <3>5. (b + mem_i) + 1 = b + (mem_i + 1)
      BY <1>3
    <3> QED
      BY <1>1, <3>1, <3>2, <3>4, <3>5 DEF AtWord
  <2>4. cache(sd, curr_offset) = CardWord(sd.card, Jobs[job].sd_start \div 4 + mem_i)
    BY <1>3, <2>1, WordOfSector DEF HoldsFile, AtWord
  <2>5. ASSUME NEW k \in 0 .. mem_i
        PROVE  mem'[Jobs[job].mem_start + k] = CardWord(sd.card, Jobs[job].sd_start \div 4 + k)
    <3>1. Jobs[job].mem_start + k \in Addr
      BY <1>1, <1>3, <1>4 DEF Addr
    <3>2. CASE k = mem_i
      BY <1>1, <2>4, <3>1, <3>2
    <3>3. CASE k # mem_i
      <4>1. k \in 0 .. mem_i - 1 /\ Jobs[job].mem_start + k # Jobs[job].mem_start + mem_i
        BY <1>3, <1>4, <3>3
      <4>2. mem'[Jobs[job].mem_start + k] = mem[Jobs[job].mem_start + k]
        BY <1>1, <3>1, <4>1
      <4> QED
        BY <2>1, <4>1, <4>2 DEF FileUpTo
    <3> QED
      BY <3>2, <3>3
  <2>6. FileUpTo(mem_i)'
    <3>1. 0 .. (mem_i + 1) - 1 = 0 .. mem_i
      BY <1>3
    <3> QED
      BY <1>1, <1>5, <2>5, <3>1 DEF FileUpTo
  <2> QED
    BY <2>2, <2>3, <2>6
<1>8. CopyInv'
  <2>1. mem_i' <= Jobs[job].size
    BY <1>1, <1>3, <1>4
  <2> QED
    BY <1>1, <1>3, <1>5, <1>7, <2>1 DEF CopyInv
<1>9. pc' \in {"sd2mem_wait", "sd2mem_copy"}
  BY <1>2
<1> QED
  BY <1>5, <1>6, <1>8, <1>9, NotInRom DEF BInv

LEMMA LoadedStep == ASSUME BInv, load_libcso \/ loadelf PROVE BInv'
<1>1. /\ pc' \in {"sd2mem", "run", "lost"} /\ sd' = sd /\ i' = i /\ job' \in {job, "elf"}
      /\ curr_sec' = curr_sec /\ curr_offset' = curr_offset
      /\ mem_i' = mem_i /\ early' = early
  BY DEF load_libcso, loadelf, copying
<1>2. DeviceInv' /\ VarsInv'
  BY <1>1 DEF BInv, DeviceInv, VarsInv, Statements
<1> QED
  BY <1>1, <1>2, NotCopying, NotInRom DEF BInv

-----------------------------------------------------------------------------
(* The controller, and everybody together.                                 *)

LEMMA ControllerStep == ASSUME BInv, Controller PROVE BInv'
<1>1. /\ pc' = pc /\ mem' = mem /\ i' = i
      /\ job' = job /\ curr_sec' = curr_sec /\ curr_offset' = curr_offset
      /\ mem_i' = mem_i /\ early' = early
  BY DEF Controller, copying
<1>2. sd \in Device(Int) /\ PartRead(sd) /\ ~sd.dirty /\ sd.op # "wr"
  BY DEF BInv, DeviceInv
<1>3. /\ sd' \in Device(Int) /\ PartRead(sd') /\ ~sd'.dirty /\ sd'.op # "wr"
      /\ sd'.card = sd.card /\ sd'.ncd = sd.ncd /\ sd.op # "IDLE"
      /\ \A s : Holds(sd, s) => Holds(sd', s)
  BY <1>2, ControllerEffect DEF Controller
<1>4. DeviceInv' /\ VarsInv'
  BY <1>1, <1>3 DEF BInv, DeviceInv, VarsInv
<1>5. (HoldsRom => HoldsRom') /\ (HoldsFile => HoldsFile')
  BY <1>1, <1>3 DEF HoldsRom, HoldsFile
<1>6. RomInv'
  BY <1>1, <1>3, <1>5 DEF BInv, RomInv, KernelUpTo
<1>7. CopyInv'
  BY <1>1, <1>3, <1>5 DEF BInv, CopyInv, AtWord, FileUpTo
<1> QED
  BY <1>4, <1>6, <1>7 DEF BInv

LEMMA BInitInv == Init => BInv
<1> SUFFICES ASSUME Init PROVE BInv
  OBVIOUS
<1>1. PICK card \in Cards, ncd \in BOOLEAN : sd = PowerOn(ncd, card, [w \in WordIndex |-> 0])
  BY DEF Init
<1>2. sd = [ncd |-> ncd, card |-> card, block |-> [w \in WordIndex |-> 0], dirty |-> FALSE,
            sd_address |-> -1, op |-> "RST", counter |-> 0]
  BY <1>1 DEF PowerOn, NOADDR
<1>3. DeviceInv
  <2>1. card \in Card(Int) /\ [w \in WordIndex |-> 0] \in [WordIndex -> Int] /\ -1 \in Int
    BY CardsAssumption
  <2>2. sd \in Device(Int)
    BY <1>2, <2>1, Zero DEF Device
  <2> QED
    BY <1>2, <2>2 DEF DeviceInv, PartRead
<1>4. VarsInv
  BY Zero DEF Init, VarsInv, Statements
<1> QED
  BY <1>3, <1>4 DEF Init, BInv, RomInv, CopyInv

LEMMA BNextInv == BInv /\ [Next]_vars => BInv'
<1> SUFFICES ASSUME BInv, [Next]_vars PROVE BInv'
  OBVIOUS
<1>1. CASE UNCHANGED vars
  BY <1>1 DEF vars, copying, BInv, DeviceInv, VarsInv, RomInv, CopyInv, HoldsRom, HoldsFile,
              AtWord, KernelUpTo, FileUpTo
<1>2. CASE Processor
  BY <1>2, RomStartStep, RomIssueStep, RomCopyStep, RomUartStep, MemoryTestStep,
     SdcardInitStep, SdcardToMemoryStep, WaitStep, CopyStep, LoadedStep DEF Processor
<1> QED
  BY <1>1, <1>2, KeyStep, ControllerStep DEF Next, Spin

LEMMA BInvExact == BInv => CopiedExact
<1> SUFFICES ASSUME BInv PROVE CopiedExact
  OBVIOUS
<1>1. KernelCopied
  <2> SUFFICES ASSUME pc = "kernel", ~sd.ncd, NEW a \in 0 .. BOOT_SECTORS * SECTOR_WORDS - 1
               PROVE  mem[a] = CardWord(sd.card, a)
    BY DEF KernelCopied
  <2>1. a \in Nat /\ BOOT_SECTORS \in Nat /\ a < BOOT_SECTORS * SECTOR_WORDS /\ a \in Addr
    BY Sizes DEF Addr
  <2>2. a \div SECTOR_WORDS < BOOT_SECTORS
    BY <2>1, DivLess, Sizes
  <2> QED
    BY <2>1, <2>2 DEF BInv, RomInv, KernelUpTo
<1>2. FilesCopied
  BY DEF BInv, CopyInv, Copied, FilesCopied, FileUpTo
<1>3. pc \in {"sd2mem_wait", "sd2mem_copy"} => mem_i \in 0 .. Jobs[job].size
  BY Sizes DEF BInv, CopyInv, VarsInv
<1> QED
  BY <1>1, <1>2, <1>3 DEF BInv, DeviceInv, VarsInv, CopiedExact

\* At each statement of c_start and sdcard_to_memory, what has been copied is exact and
\* the sector that is copied next is in the buffer or on its way there.
THEOREM BootInvariance == Spec => []BInv
  BY BInitInv, BNextInv, PTL DEF Spec

\* The kernel that c_start jumps to, and each file when sdcard_to_memory returns,
\* are word for word what is on the card, although the controller fills the
\* buffer meanwhile; the loops of c_start and sdcard_to_memory stay inside the
\* buffer and inside the file.
THEOREM ImagesExact == Spec => []CopiedExact
  BY BInvExact, BootInvariance, PTL
-----------------------------------------------------------------------------
(* The loops of the ELF loader, which Elf defines as functions of the       *)
(* number of iterations.                                                    *)

LEMMA SetInduction ==
  ASSUME NEW S, 0 \in S, \A n \in Nat : n \in S => n + 1 \in S
  PROVE  Nat \subseteq S
<1> DEFINE R == {ss \in Nat \X Nat : ss[1] < ss[2]}
           T == {n \in Nat : n \notin S}
<1>1. IsWellFoundedOn(R, Nat)
  BY NatLessThanWellFounded DEF OpToRel
<1>2. SUFFICES ASSUME T # {} PROVE FALSE
  OBVIOUS
<1>3. T \subseteq Nat
  OBVIOUS
<1>4. PICK x \in T : \A y \in T : ~(<<y, x>> \in R)
  BY <1>1, <1>2, <1>3, WFMin
<1>5. x \in Nat \ {0} /\ x - 1 \in Nat
  OBVIOUS
<1>6. ~(x - 1 \in T /\ <<x - 1, x>> \in R)
  BY <1>4
<1>7. <<x - 1, x>> \in R
  BY <1>5
<1>8. x - 1 \in S
  BY <1>5, <1>6, <1>7
<1>9. (x - 1) + 1 = x
  BY <1>5
<1> QED
  BY <1>5, <1>8, <1>9

\* A sequence of stores, one by one.
LEMMA StoredDefined ==
  ASSUME NEW m, NEW s, Len(s) \in Nat
  PROVE  /\ Stored(m, s)[0] = m
         /\ \A n \in 1 .. Len(s) : Stored(m, s)[n] = [Stored(m, s)[n - 1] EXCEPT ![s[n].at] = s[n].word]
<1> DEFINE First == m
           Step(acc, n) == [acc EXCEPT ![s[n].at] = s[n].word]
           Upto(f, m1) == f = [n \in 0 .. m1 |-> IF n = 0 THEN First ELSE Step(f[n - 1], n)]
           S == {m1 \in Nat : \E f : Upto(f, m1)}
<1>1. PICK N \in Nat : N = Len(s)
  OBVIOUS
<1>2. Stored(m, s) = CHOOSE f : Upto(f, N)
  BY <1>1 DEF Stored
<1> HIDE DEF First, Step
<1>3. 0 \in S
  <2>1. Upto([n \in 0 .. 0 |-> First], 0)
    OBVIOUS
  <2> QED BY <2>1
<1>4. ASSUME NEW m1 \in Nat, m1 \in S PROVE m1 + 1 \in S
  <2>1. PICK f : Upto(f, m1)
    BY <1>4
  <2> DEFINE g == [n \in 0 .. m1 + 1 |-> IF n = m1 + 1 THEN Step(f[m1], m1 + 1) ELSE f[n]]
  <2>2. \A n \in 0 .. m1 + 1 : g[n] = IF n = 0 THEN First ELSE Step(g[n - 1], n)
    <3> TAKE n \in 0 .. m1 + 1
    <3>1. CASE n = m1 + 1
      <4>1. g[m1 + 1] = Step(f[m1], m1 + 1) /\ g[m1] = f[m1] /\ (m1 + 1) - 1 = m1 /\ m1 + 1 # 0
        OBVIOUS
      <4> HIDE DEF g
      <4> QED BY <3>1, <4>1
    <3>2. CASE n \in 0 .. m1
      <4>1. g[n] = f[n] /\ (n # 0 => g[n - 1] = f[n - 1])
        BY <3>2
      <4>2. f[n] = IF n = 0 THEN First ELSE Step(f[n - 1], n)
        BY <2>1, <3>2
      <4> HIDE DEF g
      <4> QED BY <4>1, <4>2
    <3> QED BY <3>1, <3>2
  <2>3. Upto(g, m1 + 1)
    <3>1. g = [n \in 0 .. m1 + 1 |-> g[n]]
      OBVIOUS
    <3> HIDE DEF g
    <3> QED BY <2>2, <3>1
  <2> HIDE DEF g, Upto
  <2> QED BY <2>3
<1>5. N \in S
  <2> HIDE DEF S
  <2>1. Nat \subseteq S
    BY <1>3, <1>4, SetInduction
  <2> QED BY <2>1
<1>6. Upto(Stored(m, s), N)
  <2>1. \E f : Upto(f, N)
    BY <1>5
  <2> HIDE DEF Upto
  <2> QED BY <1>2, <2>1
<1>7. \A n \in 0 .. N : Stored(m, s)[n] = IF n = 0 THEN First ELSE Step(Stored(m, s)[n - 1], n)
  <2>1. PICK q : q = Stored(m, s)
    OBVIOUS
  <2>2. q = [n \in 0 .. N |-> IF n = 0 THEN First ELSE Step(q[n - 1], n)]
    BY <1>6, <2>1
  <2>3. \A n \in 0 .. N : q[n] = IF n = 0 THEN First ELSE Step(q[n - 1], n)
    BY <2>2
  <2> QED BY <2>1, <2>3
<1>8. 0 \in 0 .. N /\ \A n \in 1 .. N : n \in 0 .. N /\ n # 0
  OBVIOUS
<1>9. \A n \in 1 .. N : Stored(m, s)[n] = Step(Stored(m, s)[n - 1], n)
  BY <1>7, <1>8
<1> QED
  BY <1>1, <1>7, <1>8, <1>9 DEF First, Step

\* The copy of the second segment, one word after the other.
LEMMA MovedDefined ==
  ASSUME NEW m, NEW base, NEW p, CopiedWords(p) \in Nat
  PROVE  /\ Moved(m, base, p)[0] = ClearTail(m, base, p)
         /\ \A n \in 1 .. CopiedWords(p) : Moved(m, base, p)[n] = [Moved(m, base, p)[n - 1] EXCEPT ![base + p.p_vaddr + CopyOrder(p)[n]] =
               Moved(m, base, p)[n - 1][base + p.p_offset + CopyOrder(p)[n]]]
<1> DEFINE First == ClearTail(m, base, p)
           Step(acc, n) == [acc EXCEPT ![base + p.p_vaddr + CopyOrder(p)[n]] =
               acc[base + p.p_offset + CopyOrder(p)[n]]]
           Upto(f, m1) == f = [n \in 0 .. m1 |-> IF n = 0 THEN First ELSE Step(f[n - 1], n)]
           S == {m1 \in Nat : \E f : Upto(f, m1)}
<1>1. PICK N \in Nat : N = CopiedWords(p)
  OBVIOUS
<1>2. Moved(m, base, p) = CHOOSE f : Upto(f, N)
  BY <1>1 DEF Moved
<1> HIDE DEF First, Step
<1>3. 0 \in S
  <2>1. Upto([n \in 0 .. 0 |-> First], 0)
    OBVIOUS
  <2> QED BY <2>1
<1>4. ASSUME NEW m1 \in Nat, m1 \in S PROVE m1 + 1 \in S
  <2>1. PICK f : Upto(f, m1)
    BY <1>4
  <2> DEFINE g == [n \in 0 .. m1 + 1 |-> IF n = m1 + 1 THEN Step(f[m1], m1 + 1) ELSE f[n]]
  <2>2. \A n \in 0 .. m1 + 1 : g[n] = IF n = 0 THEN First ELSE Step(g[n - 1], n)
    <3> TAKE n \in 0 .. m1 + 1
    <3>1. CASE n = m1 + 1
      <4>1. g[m1 + 1] = Step(f[m1], m1 + 1) /\ g[m1] = f[m1] /\ (m1 + 1) - 1 = m1 /\ m1 + 1 # 0
        OBVIOUS
      <4> HIDE DEF g
      <4> QED BY <3>1, <4>1
    <3>2. CASE n \in 0 .. m1
      <4>1. g[n] = f[n] /\ (n # 0 => g[n - 1] = f[n - 1])
        BY <3>2
      <4>2. f[n] = IF n = 0 THEN First ELSE Step(f[n - 1], n)
        BY <2>1, <3>2
      <4> HIDE DEF g
      <4> QED BY <4>1, <4>2
    <3> QED BY <3>1, <3>2
  <2>3. Upto(g, m1 + 1)
    <3>1. g = [n \in 0 .. m1 + 1 |-> g[n]]
      OBVIOUS
    <3> HIDE DEF g
    <3> QED BY <2>2, <3>1
  <2> HIDE DEF g, Upto
  <2> QED BY <2>3
<1>5. N \in S
  <2> HIDE DEF S
  <2>1. Nat \subseteq S
    BY <1>3, <1>4, SetInduction
  <2> QED BY <2>1
<1>6. Upto(Moved(m, base, p), N)
  <2>1. \E f : Upto(f, N)
    BY <1>5
  <2> HIDE DEF Upto
  <2> QED BY <1>2, <2>1
<1>7. \A n \in 0 .. N : Moved(m, base, p)[n] = IF n = 0 THEN First ELSE Step(Moved(m, base, p)[n - 1], n)
  <2>1. PICK q : q = Moved(m, base, p)
    OBVIOUS
  <2>2. q = [n \in 0 .. N |-> IF n = 0 THEN First ELSE Step(q[n - 1], n)]
    BY <1>6, <2>1
  <2>3. \A n \in 0 .. N : q[n] = IF n = 0 THEN First ELSE Step(q[n - 1], n)
    BY <2>2
  <2> QED BY <2>1, <2>3
<1>8. 0 \in 0 .. N /\ \A n \in 1 .. N : n \in 0 .. N /\ n # 0
  OBVIOUS
<1>9. \A n \in 1 .. N : Moved(m, base, p)[n] = Step(Moved(m, base, p)[n - 1], n)
  BY <1>7, <1>8
<1> QED
  BY <1>1, <1>7, <1>8, <1>9 DEF First, Step

RelocateStep(mm, base, h, n) ==
  IF Entries(mm, base, h) \in 0 .. n - 1 THEN mm
  ELSE [mm EXCEPT ![base + h.reladyn[n].r_offset] =
                    base + symval(h, h.reladyn[n]) + h.reladyn[n].r_addend]

\* The relocation of the program, one entry after the other.
LEMMA RelocatedDefined ==
  ASSUME NEW m, NEW base, NEW h, Len(h.reladyn) \in Nat
  PROVE  /\ Relocated(m, base, h)[0] = m
         /\ \A n \in 1 .. Len(h.reladyn) : Relocated(m, base, h)[n] = RelocateStep(Relocated(m, base, h)[n - 1], base, h, n)
<1> DEFINE First == m
           Step(acc, n) == RelocateStep(acc, base, h, n)
           Upto(f, m1) == f = [n \in 0 .. m1 |-> IF n = 0 THEN First ELSE Step(f[n - 1], n)]
           S == {m1 \in Nat : \E f : Upto(f, m1)}
<1>1. PICK N \in Nat : N = Len(h.reladyn)
  OBVIOUS
<1>2. Relocated(m, base, h) = CHOOSE f : Upto(f, N)
  BY <1>1 DEF Relocated, RelocateStep
<1> HIDE DEF First, Step
<1>3. 0 \in S
  <2>1. Upto([n \in 0 .. 0 |-> First], 0)
    OBVIOUS
  <2> QED BY <2>1
<1>4. ASSUME NEW m1 \in Nat, m1 \in S PROVE m1 + 1 \in S
  <2>1. PICK f : Upto(f, m1)
    BY <1>4
  <2> DEFINE g == [n \in 0 .. m1 + 1 |-> IF n = m1 + 1 THEN Step(f[m1], m1 + 1) ELSE f[n]]
  <2>2. \A n \in 0 .. m1 + 1 : g[n] = IF n = 0 THEN First ELSE Step(g[n - 1], n)
    <3> TAKE n \in 0 .. m1 + 1
    <3>1. CASE n = m1 + 1
      <4>1. g[m1 + 1] = Step(f[m1], m1 + 1) /\ g[m1] = f[m1] /\ (m1 + 1) - 1 = m1 /\ m1 + 1 # 0
        OBVIOUS
      <4> HIDE DEF g
      <4> QED BY <3>1, <4>1
    <3>2. CASE n \in 0 .. m1
      <4>1. g[n] = f[n] /\ (n # 0 => g[n - 1] = f[n - 1])
        BY <3>2
      <4>2. f[n] = IF n = 0 THEN First ELSE Step(f[n - 1], n)
        BY <2>1, <3>2
      <4> HIDE DEF g
      <4> QED BY <4>1, <4>2
    <3> QED BY <3>1, <3>2
  <2>3. Upto(g, m1 + 1)
    <3>1. g = [n \in 0 .. m1 + 1 |-> g[n]]
      OBVIOUS
    <3> HIDE DEF g
    <3> QED BY <2>2, <3>1
  <2> HIDE DEF g, Upto
  <2> QED BY <2>3
<1>5. N \in S
  <2> HIDE DEF S
  <2>1. Nat \subseteq S
    BY <1>3, <1>4, SetInduction
  <2> QED BY <2>1
<1>6. Upto(Relocated(m, base, h), N)
  <2>1. \E f : Upto(f, N)
    BY <1>5
  <2> HIDE DEF Upto
  <2> QED BY <1>2, <2>1
<1>7. \A n \in 0 .. N : Relocated(m, base, h)[n] = IF n = 0 THEN First ELSE Step(Relocated(m, base, h)[n - 1], n)
  <2>1. PICK q : q = Relocated(m, base, h)
    OBVIOUS
  <2>2. q = [n \in 0 .. N |-> IF n = 0 THEN First ELSE Step(q[n - 1], n)]
    BY <1>6, <2>1
  <2>3. \A n \in 0 .. N : q[n] = IF n = 0 THEN First ELSE Step(q[n - 1], n)
    BY <2>2
  <2> QED BY <2>1, <2>3
<1>8. 0 \in 0 .. N /\ \A n \in 1 .. N : n \in 0 .. N /\ n # 0
  OBVIOUS
<1>9. \A n \in 1 .. N : Relocated(m, base, h)[n] = Step(Relocated(m, base, h)[n - 1], n)
  BY <1>7, <1>8
<1> QED
  BY <1>1, <1>7, <1>8, <1>9 DEF First, Step

-----------------------------------------------------------------------------
(* What the loops of the loader do to a memory with the addresses A.        *)

IsMemory(m, A) == m = [a \in A |-> m[a]]

Stores(f, m, x, w) == f = [m EXCEPT ![x] = w]

LEMMA StoreEffect ==
  ASSUME NEW A, NEW m, IsMemory(m, A), NEW x, NEW w, NEW f, Stores(f, m, x, w)
  PROVE  /\ IsMemory(f, A) /\ (x \in A => f[x] = w)
         /\ \A a \in A : a # x => f[a] = m[a]
<1>1. DOMAIN m = A
  BY DEF IsMemory
<1>2. f = [a \in A |-> IF a = x THEN w ELSE m[a]]
  BY <1>1 DEF Stores
<1> QED
  BY <1>2 DEF IsMemory

\* Stores to different words all take effect, and only they do.
PatchedUpTo(A, m, s, f, n) ==
  /\ IsMemory(f, A)
  /\ \A k \in 1 .. n : s[k].at \in A => f[s[k].at] = s[k].word
  /\ \A a \in A : (\A k \in 1 .. n : s[k].at # a) => f[a] = m[a]

LEMMA PatchEffect ==
  ASSUME NEW A, NEW m, IsMemory(m, A), NEW s, Len(s) \in Nat,
         \A k, l \in 1 .. Len(s) : s[k].at = s[l].at => k = l
  PROVE  PatchedUpTo(A, m, s, Patch(m, s), Len(s))
<1> DEFINE F(n) == Stored(m, s)[n]
           S == {n \in Nat : n <= Len(s) => PatchedUpTo(A, m, s, F(n), n)}
<1>1. F(0) = m /\ \A n \in 1 .. Len(s) : F(n) = [F(n - 1) EXCEPT ![s[n].at] = s[n].word]
  BY StoredDefined
<1> HIDE DEF F
<1>2. 0 \in S
  BY <1>1 DEF PatchedUpTo
<1>3. ASSUME NEW n \in Nat, n \in S PROVE n + 1 \in S
  <2> SUFFICES ASSUME n + 1 <= Len(s) PROVE PatchedUpTo(A, m, s, F(n + 1), n + 1)
    OBVIOUS
  <2>1. PatchedUpTo(A, m, s, F(n), n)
    BY <1>3
  <2>2. n + 1 \in 1 .. Len(s) /\ (n + 1) - 1 = n
    OBVIOUS
  <2>3. F(n + 1) = [F(n) EXCEPT ![s[n + 1].at] = s[n + 1].word]
    BY <1>1, <2>2
  <2>4. /\ IsMemory(F(n + 1), A) /\ (s[n + 1].at \in A => F(n + 1)[s[n + 1].at] = s[n + 1].word)
        /\ \A a \in A : a # s[n + 1].at => F(n + 1)[a] = F(n)[a]
    <3>1. IsMemory(F(n), A)
      BY <2>1 DEF PatchedUpTo
    <3>2. PICK f, g, x, w : f = F(n + 1) /\ g = F(n) /\ x = s[n + 1].at /\ w = s[n + 1].word
      OBVIOUS
    <3>3. Stores(f, g, x, w) /\ IsMemory(g, A)
      BY <2>3, <3>1, <3>2, Zenon DEF Stores
    <3>4. /\ IsMemory(f, A) /\ (x \in A => f[x] = w)
          /\ \A a \in A : a # x => f[a] = g[a]
      BY <3>3, StoreEffect
    <3> QED BY <3>2, <3>4
  <2>5. \A k \in 1 .. n + 1 : k \in 1 .. n \/ k = n + 1
    OBVIOUS
  <2>6. ASSUME NEW k \in 1 .. n + 1, s[k].at \in A PROVE F(n + 1)[s[k].at] = s[k].word
    <3>1. CASE k = n + 1 BY <2>4, <2>6, <3>1
    <3>2. CASE k \in 1 .. n
      <4>1. k # n + 1 /\ k \in 1 .. Len(s)
        BY <3>2
      <4>2. s[k].at # s[n + 1].at
        BY <2>2, <4>1
      <4>3. F(n)[s[k].at] = s[k].word
        BY <2>1, <2>6, <3>2 DEF PatchedUpTo
      <4> QED BY <2>4, <2>6, <4>2, <4>3
    <3> QED BY <2>5, <3>1, <3>2
  <2>7. ASSUME NEW a \in A, \A k \in 1 .. n + 1 : s[k].at # a PROVE F(n + 1)[a] = m[a]
    <3>1. a # s[n + 1].at /\ \A k \in 1 .. n : s[k].at # a
      BY <2>7
    <3> QED BY <2>1, <2>4, <3>1 DEF PatchedUpTo
  <2> QED BY <2>4, <2>6, <2>7 DEF PatchedUpTo
<1>4. Len(s) \in S
  <2> HIDE DEF S
  <2> QED BY <1>2, <1>3, SetInduction
<1> QED BY <1>4 DEF F, Patch

\* After n words, from the last one down, they are at their place, and those before
\* them still in the file.
MovedUpTo(A, m, base, p, f, n) ==
  /\ IsMemory(f, A)
  /\ \A a \in A : a - base \notin Second(p) \cup Cleared(p) => f[a] = m[a]
  /\ SourceSpared(p) =>
       /\ \A j \in 0 .. CopiedWords(p) - 1 : CopiedWords(p) - n <= j =>
            f[base + p.p_vaddr + j] = m[base + p.p_offset + j]
       /\ \A j \in 0 .. CopiedWords(p) - 1 : j < CopiedWords(p) - n =>
            f[base + p.p_offset + j] = m[base + p.p_offset + j]

\* The numbers of a segment.
LEMMA Segment ==
  ASSUME NEW p, p \in Elf32_Phdr
  PROVE  /\ p.p_offset \in Nat /\ p.p_vaddr \in Nat /\ p.p_filesz \in Nat /\ p.p_memsz \in Nat
         /\ CopiedWords(p) \in Nat /\ Second(p) \subseteq Nat /\ Cleared(p) \subseteq Int
<1>1. PICK v \in Nat, z \in Nat, y \in Nat : p.p_vaddr = v /\ p.p_filesz = z /\ p.p_memsz = y
  BY DEF Elf32_Phdr
<1>2. z \div 4 \in Nat /\ (y - z) \div 2 \in Int /\ (y - z) \div 4 \in Int
  OBVIOUS
<1>3. CopiedWords(p) \in Nat
  BY <1>1, <1>2 DEF CopiedWords
<1>4. Second(p) \subseteq Nat
  BY <1>1, <1>3 DEF Second
<1>5. Cleared(p) \subseteq Int
  BY <1>1, <1>2 DEF Cleared
<1> QED
  BY <1>3, <1>4, <1>5 DEF Elf32_Phdr

LEMMA MoveEffect ==
  ASSUME NEW A, A \subseteq Int, NEW m, IsMemory(m, A), NEW base \in Nat,
         NEW p, p \in Elf32_Phdr, p.p_offset <= p.p_vaddr,
         \A j \in 0 .. CopiedWords(p) - 1 :
           base + p.p_vaddr + j \in A /\ base + p.p_offset + j \in A
  PROVE  MovedUpTo(A, m, base, p, MoveSecondLoad(m, base, p), CopiedWords(p))
<1>1. PICK o \in Nat, v \in Nat, z \in Nat :
        p.p_offset = o /\ p.p_vaddr = v /\ CopiedWords(p) = z
  BY Segment
<1>2. o <= v /\ \A j \in 0 .. z - 1 : base + v + j \in A /\ base + o + j \in A
  BY <1>1
<1> DEFINE F(n) == Moved(m, base, p)[n]
           S == {n \in Nat : n <= z => MovedUpTo(A, m, base, p, F(n), n)}
<1>3. /\ F(0) = ClearTail(m, base, p)
      /\ \A n \in 1 .. z : F(n) = [F(n - 1) EXCEPT ![base + v + CopyOrder(p)[n]] =
                                     F(n - 1)[base + o + CopyOrder(p)[n]]]
  BY <1>1, MovedDefined
<1>4. \A n \in 1 .. z : CopyOrder(p)[n] = z - n
  BY <1>1 DEF CopyOrder
<1>5. Second(p) = v .. v + z - 1 /\ Cleared(p) \subseteq Int
  BY <1>1, Segment DEF Second
<1>6. SourceSpared(p) <=> \A c \in Cleared(p) : o + z <= c
  BY <1>1 DEF SourceSpared
<1> HIDE DEF F
<1>7. 0 \in S
  <2> SUFFICES MovedUpTo(A, m, base, p, F(0), 0)
    OBVIOUS
  <2>1. DOMAIN m = A
    BY DEF IsMemory
  <2>2. F(0) = [a \in A |-> IF a - base \in Cleared(p) THEN 0 ELSE m[a]]
    BY <1>3, <2>1 DEF ClearTail
  <2>3. IsMemory(F(0), A)
    BY <2>2 DEF IsMemory
  <2>4. \A a \in A : a - base \notin Second(p) \cup Cleared(p) => F(0)[a] = m[a]
    BY <1>5, <2>2
  <2>5. ASSUME SourceSpared(p), NEW j \in 0 .. z - 1 PROVE F(0)[base + o + j] = m[base + o + j]
    <3>1. PICK a \in A : a = base + o + j
      BY <1>2
    <3>2. a - base = o + j
      BY <3>1
    <3>3. a - base \notin Cleared(p)
      <4>1. ~(o + z <= a - base)
        BY <3>2
      <4> QED BY <1>6, <2>5, <4>1
    <3> QED BY <2>2, <3>1, <3>3
  <2> QED BY <1>1, <2>3, <2>4, <2>5 DEF MovedUpTo
<1>8. ASSUME NEW n \in Nat, n \in S PROVE n + 1 \in S
  <2> SUFFICES ASSUME n + 1 <= z PROVE MovedUpTo(A, m, base, p, F(n + 1), n + 1)
    OBVIOUS
  <2>1. MovedUpTo(A, m, base, p, F(n), n)
    BY <1>8
  <2>2. PICK c \in 0 .. z - 1 : c = z - (n + 1)
    OBVIOUS
  <2>3. F(n + 1) = [F(n) EXCEPT ![base + v + c] = F(n)[base + o + c]]
    <3>1. n + 1 \in 1 .. z /\ (n + 1) - 1 = n
      OBVIOUS
    <3>2. CopyOrder(p)[n + 1] = c
      BY <1>4, <2>2, <3>1
    <3> QED BY <1>3, <3>1, <3>2
  <2>4. PICK x \in A : x = base + v + c
    BY <1>2
  <2>5. /\ IsMemory(F(n + 1), A) /\ F(n + 1)[x] = F(n)[base + o + c]
        /\ \A a \in A : a # x => F(n + 1)[a] = F(n)[a]
    <3>1. IsMemory(F(n), A)
      BY <2>1 DEF MovedUpTo
    <3>2. PICK f, g, w : f = F(n + 1) /\ g = F(n) /\ w = F(n)[base + o + c]
      OBVIOUS
    <3>3. Stores(f, g, x, w) /\ IsMemory(g, A)
      BY <2>3, <2>4, <3>1, <3>2, Zenon DEF Stores
    <3>4. /\ IsMemory(f, A) /\ (x \in A => f[x] = w)
          /\ \A a \in A : a # x => f[a] = g[a]
      BY <3>3, StoreEffect
    <3> QED BY <2>4, <3>2, <3>4
  <2>6. ASSUME NEW a \in A, a - base \notin Second(p) \cup Cleared(p) PROVE F(n + 1)[a] = m[a]
    <3>1. a # x
      BY <1>5, <2>4, <2>6
    <3> QED BY <2>1, <2>5, <2>6, <3>1 DEF MovedUpTo
  <2>7. ASSUME SourceSpared(p), NEW j \in 0 .. z - 1, z - (n + 1) <= j
        PROVE  F(n + 1)[base + v + j] = m[base + o + j]
    <3>1. CASE j = c
      <4>1. c < z - n
        BY <2>2
      <4>2. F(n)[base + o + c] = m[base + o + c]
        BY <1>1, <2>1, <2>7, <4>1 DEF MovedUpTo
      <4> QED BY <2>4, <2>5, <3>1, <4>2
    <3>2. CASE j # c
      <4>1. z - n <= j
        BY <2>2, <2>7, <3>2
      <4>2. F(n)[base + v + j] = m[base + o + j]
        BY <1>1, <2>1, <2>7, <4>1 DEF MovedUpTo
      <4>3. base + v + j # x
        BY <2>4, <3>2
      <4>4. base + v + j \in A
        BY <1>2
      <4> QED BY <2>5, <4>2, <4>3, <4>4
    <3> QED BY <3>1, <3>2
  <2>8. ASSUME SourceSpared(p), NEW j \in 0 .. z - 1, j < z - (n + 1)
        PROVE  F(n + 1)[base + o + j] = m[base + o + j]
    <3>1. base + o + j # x /\ base + o + j \in A
      BY <1>2, <2>2, <2>4, <2>8
    <3>2. F(n)[base + o + j] = m[base + o + j]
      BY <1>1, <2>1, <2>8 DEF MovedUpTo
    <3> QED BY <2>5, <3>1, <3>2
  <2> QED BY <1>1, <2>5, <2>6, <2>7, <2>8 DEF MovedUpTo
<1>9. z \in S
  <2> HIDE DEF S
  <2> QED BY <1>7, <1>8, SetInduction
<1> QED BY <1>1, <1>9 DEF F, MoveSecondLoad

\* Relocation in place: the number of entries is read again each time, and stays.
Addend(h, base, r) == base + symval(h, r) + r.r_addend

RelocatedUpTo(A, m, base, h, f, n) ==
  /\ IsMemory(f, A) /\ Entries(f, base, h) = Len(h.reladyn)
  /\ \A k \in 1 .. n : f[base + h.reladyn[k].r_offset] = Addend(h, base, h.reladyn[k])
  /\ \A a \in A : (\A k \in 1 .. n : base + h.reladyn[k].r_offset # a) => f[a] = m[a]

LEMMA RelocateEffect ==
  ASSUME NEW A, NEW m, IsMemory(m, A), NEW base \in Nat, NEW h, h \in Elf32_Ehdr,
         Entries(m, base, h) = Len(h.reladyn), base + h.sh_reladyn \in A,
         \A k \in 1 .. Len(h.reladyn) :
           base + h.reladyn[k].r_offset \in A /\ h.reladyn[k].r_offset # h.sh_reladyn,
         \A k, l \in 1 .. Len(h.reladyn) :
           h.reladyn[k].r_offset = h.reladyn[l].r_offset => k = l
  PROVE  /\ RelocatedUpTo(A, m, base, h, PatchInPlace(m, base, h).mem, Len(h.reladyn))
         /\ ~PatchInPlace(m, base, h).wild
<1>1. PICK N \in Nat : N = Len(h.reladyn)
  BY DEF Elf32_Ehdr
<1>2. h.sh_reladyn \in Nat /\ \A k \in 1 .. N : h.reladyn[k].r_offset \in Nat
  <2>1. PICK q : q = h.reladyn
    OBVIOUS
  <2>2. q \in Seq(Elf32_Rela) /\ Len(q) = N /\ h.sh_reladyn \in Nat
    BY <1>1, <2>1 DEF Elf32_Ehdr
  <2>3. \A k \in 1 .. N : q[k] \in Elf32_Rela
    BY <2>2
  <2>4. \A r \in Elf32_Rela : r.r_offset \in Nat
    BY DEF Elf32_Rela
  <2> QED BY <2>1, <2>2, <2>3, <2>4
<1> DEFINE F(n) == Relocated(m, base, h)[n]
           S == {n \in Nat : n <= N => RelocatedUpTo(A, m, base, h, F(n), n)}
<1>3. F(0) = m /\ \A n \in 1 .. N : F(n) = RelocateStep(F(n - 1), base, h, n)
  <2>1. Len(h.reladyn) \in Nat
    BY <1>1
  <2> QED BY <1>1, <2>1, RelocatedDefined
<1> HIDE DEF F
<1>4. 0 \in S
  BY <1>1, <1>3 DEF RelocatedUpTo
<1>5. ASSUME NEW n \in Nat, n \in S PROVE n + 1 \in S
  <2> SUFFICES ASSUME n + 1 <= N PROVE RelocatedUpTo(A, m, base, h, F(n + 1), n + 1)
    OBVIOUS
  <2>1. RelocatedUpTo(A, m, base, h, F(n), n)
    BY <1>5
  <2>2. n + 1 \in 1 .. N /\ (n + 1) - 1 = n
    OBVIOUS
  <2>3. F(n + 1) = [F(n) EXCEPT ![base + h.reladyn[n + 1].r_offset] =
                                  Addend(h, base, h.reladyn[n + 1])]
    <3>1. Entries(F(n), base, h) \notin 0 .. (n + 1) - 1
      BY <1>1, <2>1 DEF RelocatedUpTo
    <3> QED BY <1>3, <2>2, <3>1 DEF RelocateStep, Addend
  <2>4. PICK f, g, x, w : /\ f = F(n + 1) /\ g = F(n) /\ x = base + h.reladyn[n + 1].r_offset
                          /\ w = Addend(h, base, h.reladyn[n + 1])
    OBVIOUS
  <2>5. Stores(f, g, x, w) /\ IsMemory(g, A)
    <3>1. IsMemory(F(n), A)
      BY <2>1 DEF RelocatedUpTo
    <3> QED BY <2>3, <2>4, <3>1, Zenon DEF Stores
  <2>6. x \in A /\ x # base + h.sh_reladyn
    BY <1>1, <1>2, <2>2, <2>4
  <2>7. IsMemory(f, A) /\ f[x] = w /\ \A a \in A : a # x => f[a] = g[a]
    BY <2>5, <2>6, StoreEffect
  <2>8. Entries(f, base, h) = Len(h.reladyn)
    <3>1. g[base + h.sh_reladyn] = Len(h.reladyn)
      BY <2>1, <2>4 DEF RelocatedUpTo, Entries
    <3> QED BY <2>6, <2>7, <3>1 DEF Entries
  <2>9. ASSUME NEW k \in 1 .. n + 1
        PROVE  f[base + h.reladyn[k].r_offset] = Addend(h, base, h.reladyn[k])
    <3>1. CASE k = n + 1 BY <2>4, <2>7, <3>1
    <3>2. CASE k \in 1 .. n
      <4>1. k # n + 1 /\ k \in 1 .. N
        BY <3>2
      <4>2. base + h.reladyn[k].r_offset # x /\ base + h.reladyn[k].r_offset \in A
        BY <1>1, <1>2, <2>2, <2>4, <4>1
      <4>3. g[base + h.reladyn[k].r_offset] = Addend(h, base, h.reladyn[k])
        BY <2>1, <2>4, <3>2 DEF RelocatedUpTo
      <4> QED BY <2>7, <4>2, <4>3
    <3> QED BY <3>1, <3>2
  <2>10. ASSUME NEW a \in A, \A k \in 1 .. n + 1 : base + h.reladyn[k].r_offset # a
         PROVE  f[a] = m[a]
    <3>1. a # x /\ \A k \in 1 .. n : base + h.reladyn[k].r_offset # a
      BY <2>4, <2>10
    <3>2. g[a] = m[a]
      BY <2>1, <2>4, <3>1 DEF RelocatedUpTo
    <3> QED BY <2>7, <3>1, <3>2
  <2>11. RelocatedUpTo(A, m, base, h, f, n + 1)
    BY <2>7, <2>8, <2>9, <2>10 DEF RelocatedUpTo
  <2> QED BY <2>4, <2>11
<1>6. N \in S
  <2> HIDE DEF S
  <2> QED BY <1>4, <1>5, SetInduction
<1>7. RelocatedUpTo(A, m, base, h, F(N), N)
  BY <1>6
<1>8. PatchInPlace(m, base, h) = [mem |-> F(N), wild |-> Entries(F(N), base, h) \notin 0 .. N]
  BY <1>1 DEF PatchInPlace, F
<1>9. Entries(F(N), base, h) = N
  BY <1>1, <1>7 DEF RelocatedUpTo
<1>10. PatchInPlace(m, base, h).mem = F(N) /\ PatchInPlace(m, base, h).wild = (N \notin 0 .. N)
  BY <1>8, <1>9
<1>11. N \in 0 .. N
  OBVIOUS
<1> QED BY <1>1, <1>7, <1>10, <1>11, Zenon

-----------------------------------------------------------------------------
(* The loaders, for a file that stands in memory with room for its segments. *)

Fits(A, base, h, p1, p2) ==
  /\ h \in Elf32_Ehdr /\ p1 \in Elf32_Phdr /\ p2 \in Elf32_Phdr
  /\ p2.p_offset <= p2.p_vaddr /\ Linked(h, p1, p2)
  /\ \A k \in 0 .. p2.p_offset + CopiedWords(p2) - 1 : base + k \in A
  /\ \A v \in Second(p2) : base + v \in A

\* In memory f are the segments that memory m has as a file, relocated, with the value
\* val[k] in jump slot k.
Loaded(m, base, h, p1, p2, val, f) ==
  /\ \A v \in Text(p1) : f[base + v] = m[base + v]
  /\ \A k \in DOMAIN h.reladyn :
       f[base + h.reladyn[k].r_offset] = Addend(h, base, h.reladyn[k])
  /\ \A k \in DOMAIN h.relaplt : f[base + h.relaplt[k].r_offset] = val[k]
  /\ \A v \in Second(p2) :
       /\ \A k \in DOMAIN h.reladyn : h.reladyn[k].r_offset # v
       /\ \A k \in DOMAIN h.relaplt : h.relaplt[k].r_offset # v
       => f[base + v] = m[base + p2.p_offset + (v - p2.p_vaddr)]

LEMMA Relocations ==
  ASSUME NEW h, h \in Elf32_Ehdr
  PROVE  /\ Len(h.reladyn) \in Nat /\ DOMAIN h.reladyn = 1 .. Len(h.reladyn)
         /\ Len(h.relaplt) \in Nat /\ DOMAIN h.relaplt = 1 .. Len(h.relaplt)
         /\ \A k \in DOMAIN h.reladyn : h.reladyn[k].r_offset \in Nat
         /\ \A k \in DOMAIN h.relaplt : h.relaplt[k].r_offset \in Nat
<1>1. PICK q, s : q = h.reladyn /\ s = h.relaplt
  OBVIOUS
<1>2. q \in Seq(Elf32_Rela) /\ s \in Seq(Elf32_Rela)
  BY <1>1 DEF Elf32_Ehdr
<1>3. \A r \in Elf32_Rela : r.r_offset \in Nat
  BY DEF Elf32_Rela
<1>4. /\ Len(q) \in Nat /\ DOMAIN q = 1 .. Len(q) /\ \A k \in DOMAIN q : q[k] \in Elf32_Rela
      /\ Len(s) \in Nat /\ DOMAIN s = 1 .. Len(s) /\ \A k \in DOMAIN s : s[k] \in Elf32_Rela
  BY <1>2
<1> QED
  BY <1>1, <1>3, <1>4

\* The relocation r of the library while its segment is still where the file has it.
FilePlace(base, p, r) == base + r.r_offset - (p.p_vaddr - p.p_offset)

LEMMA PatchInFileEffect ==
  ASSUME NEW A, NEW m, IsMemory(m, A), NEW base \in Nat, NEW h, NEW p1, NEW p2,
         Fits(A, base, h, p1, p2), NEW g, g = PatchInFile(m, base, h, p2)
  PROVE  /\ IsMemory(g, A)
         /\ \A k \in DOMAIN h.reladyn :
              g[FilePlace(base, p2, h.reladyn[k])] = Addend(h, base, h.reladyn[k])
         /\ \A k \in DOMAIN h.relaplt :
              g[FilePlace(base, p2, h.relaplt[k])] = base + symval(h, h.relaplt[k])
         /\ \A a \in A :
              /\ \A k \in DOMAIN h.reladyn : FilePlace(base, p2, h.reladyn[k]) # a
              /\ \A k \in DOMAIN h.relaplt : FilePlace(base, p2, h.relaplt[k]) # a
              => g[a] = m[a]
<1>1. h \in Elf32_Ehdr /\ p2 \in Elf32_Phdr /\ p2.p_offset <= p2.p_vaddr /\ Linked(h, p1, p2)
  BY DEF Fits
<1>2. PICK o \in Nat, v \in Nat, z \in Nat :
        p2.p_offset = o /\ p2.p_vaddr = v /\ CopiedWords(p2) = z /\ Second(p2) = v .. v + z - 1
  BY <1>1, Segment DEF Second
<1>3. PICK q, s : q = h.reladyn /\ s = h.relaplt
  OBVIOUS
<1>4. /\ Len(q) \in Nat /\ DOMAIN q = 1 .. Len(q) /\ Len(s) \in Nat /\ DOMAIN s = 1 .. Len(s)
  BY <1>1, <1>3, Relocations
<1>5. /\ \A k \in DOMAIN q : q[k].r_offset \in v .. v + z - 1
      /\ \A k \in DOMAIN s : s[k].r_offset \in v .. v + z - 1
      /\ \A k, l \in DOMAIN q : q[k].r_offset = q[l].r_offset => k = l
      /\ \A k, l \in DOMAIN s : s[k].r_offset = s[l].r_offset => k = l
      /\ \A k \in DOMAIN q, l \in DOMAIN s : q[k].r_offset # s[l].r_offset
  BY <1>1, <1>2, <1>3 DEF Linked
<1>6. o <= v /\ \A k \in 0 .. o + z - 1 : base + k \in A
  BY <1>1, <1>2 DEF Fits
<1> DEFINE place(r) == base + r.r_offset - (v - o)
           dyn == [k \in DOMAIN q |-> [at |-> place(q[k]), word |-> Addend(h, base, q[k])]]
           plt == [k \in DOMAIN s |-> [at |-> place(s[k]), word |-> base + symval(h, s[k])]]
           f == Patch(m, dyn)
<1>7. g = Patch(f, plt)
  BY <1>2, <1>3 DEF PatchInFile, Addend
<1>8. \A r : FilePlace(base, p2, r) = place(r)
  BY <1>2 DEF FilePlace
<1>9. /\ \A k \in DOMAIN q : place(q[k]) \in A
      /\ \A k \in DOMAIN s : place(s[k]) \in A
      /\ \A k, l \in DOMAIN q : place(q[k]) = place(q[l]) => k = l
      /\ \A k, l \in DOMAIN s : place(s[k]) = place(s[l]) => k = l
      /\ \A k \in DOMAIN q, l \in DOMAIN s : place(q[k]) # place(s[l])
  <2>1. \A x \in v .. v + z - 1 : base + x - (v - o) \in A
    <3> TAKE x \in v .. v + z - 1
    <3>1. x - v + o \in 0 .. o + z - 1 /\ base + x - (v - o) = base + (x - v + o)
      OBVIOUS
    <3> QED BY <1>6, <3>1
  <2>2. \A x, y \in v .. v + z - 1 : base + x - (v - o) = base + y - (v - o) => x = y
    OBVIOUS
  <2> QED BY <1>5, <2>1, <2>2
<1> HIDE DEF place
<1>10. /\ Len(dyn) = Len(q) /\ Len(plt) = Len(s)
       /\ \A k \in 1 .. Len(q) : dyn[k].at = place(q[k]) /\ dyn[k].word = Addend(h, base, q[k])
       /\ \A k \in 1 .. Len(s) : plt[k].at = place(s[k]) /\ plt[k].word = base + symval(h, s[k])
  BY <1>4
<1> HIDE DEF dyn, plt
<1>11. PatchedUpTo(A, m, dyn, f, Len(dyn))
  <2>1. Len(dyn) \in Nat /\ \A k, l \in 1 .. Len(dyn) : dyn[k].at = dyn[l].at => k = l
    BY <1>4, <1>9, <1>10
  <2> QED BY <2>1, PatchEffect
<1> HIDE DEF f
<1>12. PatchedUpTo(A, f, plt, g, Len(plt))
  <2>1. Len(plt) \in Nat /\ \A k, l \in 1 .. Len(plt) : plt[k].at = plt[l].at => k = l
    BY <1>4, <1>9, <1>10
  <2>2. IsMemory(f, A)
    BY <1>11 DEF PatchedUpTo
  <2> QED BY <1>7, <2>1, <2>2, PatchEffect
<1>13. /\ \A k \in DOMAIN q : f[place(q[k])] = Addend(h, base, q[k])
       /\ \A a \in A : (\A k \in DOMAIN q : place(q[k]) # a) => f[a] = m[a]
  BY <1>4, <1>9, <1>10, <1>11 DEF PatchedUpTo
<1>14. /\ IsMemory(g, A) /\ \A k \in DOMAIN s : g[place(s[k])] = base + symval(h, s[k])
       /\ \A a \in A : (\A k \in DOMAIN s : place(s[k]) # a) => g[a] = f[a]
  BY <1>4, <1>9, <1>10, <1>12 DEF PatchedUpTo
<1>15. \A k \in DOMAIN q : g[place(q[k])] = Addend(h, base, q[k])
  BY <1>9, <1>13, <1>14
<1>16. \A a \in A : (\A k \in DOMAIN q : place(q[k]) # a) /\ (\A k \in DOMAIN s : place(s[k]) # a)
                    => g[a] = m[a]
  BY <1>13, <1>14
<1> QED
  BY <1>3, <1>8, <1>14, <1>15, <1>16

\* The numbers of the segments of such a file.
Numbers(p1, p2, o, v, z, e) ==
  /\ p2.p_offset = o /\ p2.p_vaddr = v /\ CopiedWords(p2) = z /\ e <= o
  /\ Text(p1) = 0 .. e - 1 /\ Second(p2) = v .. v + z - 1
  /\ \A c \in Cleared(p2) : c \in Int /\ v <= c

LEMMA LinkedNumbers ==
  ASSUME NEW h, NEW p1, NEW p2, p1 \in Elf32_Phdr, p2 \in Elf32_Phdr, Linked(h, p1, p2)
  PROVE  \E o, v, z, e \in Nat : Numbers(p1, p2, o, v, z, e)
<1>1. PICK o \in Nat, v \in Nat, z \in Nat, x \in Nat, y \in Nat, t \in Nat :
        /\ p2.p_offset = o /\ p2.p_vaddr = v /\ CopiedWords(p2) = z
        /\ p2.p_filesz = x /\ p2.p_memsz = y /\ p1.p_filesz = t
  BY Segment
<1>2. t <= 4 * o /\ x <= y
  BY <1>1 DEF Linked
<1>3. PICK e \in Nat : e = (t + 3) \div 4
  OBVIOUS
<1>4. e <= o
  BY <1>2, <1>3
<1>5. Text(p1) = 0 .. e - 1 /\ Second(p2) = v .. v + z - 1
  BY <1>1, <1>3 DEF Text, Second
<1>6. \A c \in Cleared(p2) : c \in Int /\ v <= c
  <2>1. PICK d \in Nat : d = y - x
    BY <1>2
  <2>2. d \div 4 \in Nat /\ d \div 2 \in Nat /\ d \div 4 <= d \div 2
    OBVIOUS
  <2>3. Cleared(p2) = (v + d \div 2) - d \div 4 .. (v + d \div 2) - 1
    BY <1>1, <2>1 DEF Cleared
  <2> QED BY <2>2, <2>3
<1> QED
  BY <1>1, <1>4, <1>5, <1>6 DEF Numbers

LEMMA FitsNumbers ==
  ASSUME NEW A, NEW base, NEW h, NEW p1, NEW p2, Fits(A, base, h, p1, p2)
  PROVE  \E o, v, z, e \in Nat : Numbers(p1, p2, o, v, z, e)
  BY LinkedNumbers DEF Fits

\* load_shared_library, which relocates in the file and then moves the segment.
LEMMA LibraryEffect ==
  ASSUME NEW A, A \subseteq Int, NEW m, IsMemory(m, A), NEW base \in Nat,
         NEW h, NEW p1, NEW p2, Fits(A, base, h, p1, p2), SourceSpared(p2),
         NEW f, f = MoveSecondLoad(PatchInFile(m, base, h, p2), base, p2)
  PROVE  Loaded(m, base, h, p1, p2,
                [k \in DOMAIN h.relaplt |-> base + symval(h, h.relaplt[k])], f)
<1>1. /\ h \in Elf32_Ehdr /\ p1 \in Elf32_Phdr /\ p2 \in Elf32_Phdr
      /\ p2.p_offset <= p2.p_vaddr /\ Linked(h, p1, p2)
  BY DEF Fits
<1>2. PICK o \in Nat, v \in Nat, z \in Nat, e \in Nat : Numbers(p1, p2, o, v, z, e)
  BY FitsNumbers
<1> USE DEF Numbers
<1>3. o <= v /\ e <= o
  BY <1>1, <1>2 DEF Linked
<1>4. /\ \A k \in 0 .. o + z - 1 : base + k \in A
      /\ \A x \in v .. v + z - 1 : base + x \in A
  BY <1>2 DEF Fits
<1>5. PICK g : g = PatchInFile(m, base, h, p2)
  OBVIOUS
<1>6. PICK q, s : q = h.reladyn /\ s = h.relaplt
  OBVIOUS
<1>7. /\ \A k \in DOMAIN q : q[k].r_offset \in v .. v + z - 1
      /\ \A k \in DOMAIN s : s[k].r_offset \in v .. v + z - 1
  BY <1>1, <1>2, <1>6 DEF Linked
<1> DEFINE place(x) == base + x - (v - o)
<1>8. /\ IsMemory(g, A)
      /\ \A k \in DOMAIN q : g[place(q[k].r_offset)] = Addend(h, base, q[k])
      /\ \A k \in DOMAIN s : g[place(s[k].r_offset)] = base + symval(h, s[k])
      /\ \A a \in A : (\A k \in DOMAIN q : place(q[k].r_offset) # a)
                      /\ (\A k \in DOMAIN s : place(s[k].r_offset) # a) => g[a] = m[a]
  <2>1. \A r : FilePlace(base, p2, r) = place(r.r_offset)
    BY <1>2 DEF FilePlace
  <2> HIDE DEF place
  <2> QED BY <1>5, <1>6, <2>1, PatchInFileEffect
<1>9. MovedUpTo(A, g, base, p2, f, z)
  <2>1. f = MoveSecondLoad(g, base, p2)
    BY <1>5
  <2>2. \A j \in 0 .. CopiedWords(p2) - 1 :
          base + p2.p_vaddr + j \in A /\ base + p2.p_offset + j \in A
    <3> SUFFICES ASSUME NEW j \in 0 .. z - 1
                 PROVE  base + v + j \in A /\ base + o + j \in A
      BY <1>2
    <3>1. v + j \in v .. v + z - 1 /\ o + j \in 0 .. o + z - 1
          /\ base + v + j = base + (v + j) /\ base + o + j = base + (o + j)
      OBVIOUS
    <3> QED BY <1>4, <3>1
  <2> QED BY <1>1, <1>2, <1>8, <2>1, <2>2, MoveEffect
<1>10. \A x \in v .. v + z - 1 : f[base + x] = g[place(x)]
  <2> TAKE x \in v .. v + z - 1
  <2>1. PICK j \in 0 .. z - 1 : j = x - v
    OBVIOUS
  <2>2. base + v + j = base + x /\ base + o + j = place(x)
    BY <2>1
  <2>3. z - z <= j
    OBVIOUS
  <2>4. f[base + v + j] = g[base + o + j]
    BY <1>2, <1>9, <2>3 DEF MovedUpTo
  <2> QED BY <2>2, <2>4
<1>11. ASSUME NEW x \in 0 .. e - 1 PROVE f[base + x] = m[base + x]
  <2>1. x \in 0 .. o + z - 1 /\ base + x \in A /\ (base + x) - base = x
    BY <1>3, <1>4
  <2>2. x \notin Second(p2) \cup Cleared(p2)
    <3>1. ~(v <= x)
      BY <1>3
    <3> QED BY <1>2, <3>1
  <2>3. f[base + x] = g[base + x]
    BY <1>2, <1>9, <2>1, <2>2 DEF MovedUpTo
  <2>4. \A y \in v .. v + z - 1 : place(y) # base + x
    BY <1>3
  <2> QED BY <1>7, <1>8, <2>1, <2>3, <2>4
<1>12. ASSUME NEW x \in v .. v + z - 1,
              \A k \in DOMAIN q : q[k].r_offset # x, \A k \in DOMAIN s : s[k].r_offset # x
       PROVE  f[base + x] = m[base + o + (x - v)]
  <2>1. o + (x - v) \in 0 .. o + z - 1 /\ base + (o + (x - v)) = place(x)
        /\ base + o + (x - v) = place(x)
    OBVIOUS
  <2>2. place(x) \in A
    BY <1>4, <2>1
  <2>3. \A y \in v .. v + z - 1 : y # x => place(y) # place(x)
    OBVIOUS
  <2>4. g[place(x)] = m[place(x)]
    BY <1>7, <1>8, <1>12, <2>2, <2>3
  <2> QED BY <1>10, <2>1, <2>4
<1>13. /\ \A k \in DOMAIN q : f[base + q[k].r_offset] = Addend(h, base, q[k])
       /\ \A k \in DOMAIN s : f[base + s[k].r_offset] = base + symval(h, s[k])
  BY <1>7, <1>8, <1>10
<1> QED
  BY <1>2, <1>6, <1>11, <1>12, <1>13 DEF Loaded

\* Whatever number of entries it reads, relocation in place writes no other words.
OutsideUpTo(A, m, base, h, f, n) ==
  /\ IsMemory(f, A)
  /\ \A a \in A : (\A k \in 1 .. n : base + h.reladyn[k].r_offset # a) => f[a] = m[a]

LEMMA RelocateFrame ==
  ASSUME NEW A, NEW m, IsMemory(m, A), NEW base \in Nat, NEW h, Len(h.reladyn) \in Nat
  PROVE  OutsideUpTo(A, m, base, h, PatchInPlace(m, base, h).mem, Len(h.reladyn))
<1>1. PICK N \in Nat : N = Len(h.reladyn)
  OBVIOUS
<1> DEFINE F(n) == Relocated(m, base, h)[n]
           S == {n \in Nat : n <= N => OutsideUpTo(A, m, base, h, F(n), n)}
<1>2. F(0) = m /\ \A n \in 1 .. N : F(n) = RelocateStep(F(n - 1), base, h, n)
  BY <1>1, RelocatedDefined
<1>3. PatchInPlace(m, base, h).mem = F(N)
  BY <1>1 DEF PatchInPlace
<1> HIDE DEF F
<1>4. 0 \in S
  BY <1>2 DEF OutsideUpTo
<1>5. ASSUME NEW n \in Nat, n \in S PROVE n + 1 \in S
  <2> SUFFICES ASSUME n + 1 <= N PROVE OutsideUpTo(A, m, base, h, F(n + 1), n + 1)
    OBVIOUS
  <2>1. OutsideUpTo(A, m, base, h, F(n), n)
    BY <1>5
  <2>2. n + 1 \in 1 .. N /\ (n + 1) - 1 = n /\ \A k \in 1 .. n : k \in 1 .. n + 1
    OBVIOUS
  <2>3. PICK f, g, x, w : /\ f = F(n + 1) /\ g = F(n) /\ x = base + h.reladyn[n + 1].r_offset
                          /\ w = Addend(h, base, h.reladyn[n + 1])
    OBVIOUS
  <2>4. f = RelocateStep(g, base, h, n + 1)
    BY <1>2, <2>2, <2>3
  <2>5. f = g \/ Stores(f, g, x, w)
    BY <2>3, <2>4, Zenon DEF RelocateStep, Stores, Addend
  <2>6. IsMemory(g, A)
    BY <2>1, <2>3 DEF OutsideUpTo
  <2>7. IsMemory(f, A) /\ \A a \in A : a # x => f[a] = g[a]
    <3>1. CASE f = g BY <2>6, <3>1
    <3>2. CASE Stores(f, g, x, w) BY <2>6, <3>2, StoreEffect
    <3> QED BY <2>5, <3>1, <3>2
  <2>8. ASSUME NEW a \in A, \A k \in 1 .. n + 1 : base + h.reladyn[k].r_offset # a
        PROVE  f[a] = m[a]
    <3>1. a # x /\ \A k \in 1 .. n : base + h.reladyn[k].r_offset # a
      BY <2>2, <2>3, <2>8
    <3>2. g[a] = m[a]
      BY <2>1, <2>3, <3>1 DEF OutsideUpTo
    <3> QED BY <2>7, <3>1, <3>2
  <2> QED BY <2>3, <2>7, <2>8 DEF OutsideUpTo
<1>6. N \in S
  <2> HIDE DEF S
  <2> QED BY <1>4, <1>5, SetInduction
<1> QED BY <1>1, <1>3, <1>6

\* The values that load_dynamic_exec puts in the jump slots.
Imports(h, tbl) ==
  [k \in DOMAIN h.relaplt |->
     find_function_from_so(tbl, h.dynsym[h.relaplt[k].r_sym].st_name)]

\* The move and the linking, which come before the relocation.
MovedAndLinked(A, m, base, h, p2, tbl, f) ==
  /\ IsMemory(f, A)
  /\ \A a \in A : a - base \notin Second(p2) \cup Cleared(p2) => f[a] = m[a]
  /\ \A k \in DOMAIN h.relaplt : f[base + h.relaplt[k].r_offset] = Imports(h, tbl)[k]
  /\ SourceSpared(p2) =>
       \A x \in Second(p2) : (\A k \in DOMAIN h.relaplt : h.relaplt[k].r_offset # x) =>
         f[base + x] = m[base + p2.p_offset + (x - p2.p_vaddr)]

LEMMA LinkEffect ==
  ASSUME NEW A, A \subseteq Int, NEW m, IsMemory(m, A), NEW base \in Nat,
         NEW h, NEW p1, NEW p2, Fits(A, base, h, p1, p2), NEW tbl,
         NEW f, f = Link(MoveSecondLoad(m, base, p2), tbl, TempTable(h, base))
  PROVE  MovedAndLinked(A, m, base, h, p2, tbl, f)
<1>1. /\ h \in Elf32_Ehdr /\ p1 \in Elf32_Phdr /\ p2 \in Elf32_Phdr
      /\ p2.p_offset <= p2.p_vaddr /\ Linked(h, p1, p2)
  BY DEF Fits
<1>2. PICK o \in Nat, v \in Nat, z \in Nat, e \in Nat : Numbers(p1, p2, o, v, z, e)
  BY FitsNumbers
<1> USE DEF Numbers
<1>3. o <= v
  BY <1>1, <1>2
<1>4. /\ \A k \in 0 .. o + z - 1 : base + k \in A
      /\ \A x \in v .. v + z - 1 : base + x \in A
  BY <1>2 DEF Fits
<1>5. PICK s : s = h.relaplt
  OBVIOUS
<1>6. /\ Len(s) \in Nat /\ DOMAIN s = 1 .. Len(s)
      /\ \A k \in DOMAIN s : s[k].r_offset \in v .. v + z - 1
      /\ \A k, l \in DOMAIN s : s[k].r_offset = s[l].r_offset => k = l
  BY <1>1, <1>2, <1>5, Relocations DEF Linked
<1>7. PICK g : g = MoveSecondLoad(m, base, p2)
  OBVIOUS
<1>8. MovedUpTo(A, m, base, p2, g, z)
  <2>1. \A j \in 0 .. CopiedWords(p2) - 1 :
          base + p2.p_vaddr + j \in A /\ base + p2.p_offset + j \in A
    <3> SUFFICES ASSUME NEW j \in 0 .. z - 1
                 PROVE  base + v + j \in A /\ base + o + j \in A
      BY <1>2
    <3>1. v + j \in v .. v + z - 1 /\ o + j \in 0 .. o + z - 1
          /\ base + v + j = base + (v + j) /\ base + o + j = base + (o + j)
      OBVIOUS
    <3> QED BY <1>4, <3>1
  <2> QED BY <1>1, <1>2, <1>7, <2>1, MoveEffect
<1> DEFINE imports == TempTable(h, base)
           st == [k \in DOMAIN imports |->
                    [at |-> imports[k].addr,
                     word |-> find_function_from_so(tbl, imports[k].name)]]
           val(k) == find_function_from_so(tbl, h.dynsym[s[k].r_sym].st_name)
<1>9. f = Patch(g, st)
  BY <1>7 DEF Link
<1>10. /\ Len(st) = Len(s)
       /\ \A k \in 1 .. Len(s) : st[k].at = base + s[k].r_offset /\ st[k].word = val(k)
  <2>1. imports = [k \in DOMAIN s |-> [addr |-> base + s[k].r_offset,
                                       name |-> h.dynsym[s[k].r_sym].st_name]]
    BY <1>5 DEF TempTable
  <2> HIDE DEF imports
  <2>2. /\ DOMAIN imports = 1 .. Len(s)
        /\ \A k \in 1 .. Len(s) : /\ imports[k].addr = base + s[k].r_offset
                                  /\ imports[k].name = h.dynsym[s[k].r_sym].st_name
    BY <1>6, <2>1
  <2>3. st = [k \in 1 .. Len(s) |->
                [at |-> imports[k].addr,
                 word |-> find_function_from_so(tbl, imports[k].name)]]
    BY <2>2
  <2>4. Len(st) = Len(s)
    BY <1>6, <2>3
  <2>5. \A k \in 1 .. Len(s) :
          /\ st[k].at = imports[k].addr
          /\ st[k].word = find_function_from_so(tbl, imports[k].name)
    BY <2>3
  <2> QED BY <2>2, <2>4, <2>5
<1> HIDE DEF st, val
<1>11. PatchedUpTo(A, g, st, f, Len(st))
  <2>1. Len(st) \in Nat /\ \A k, l \in 1 .. Len(st) : st[k].at = st[l].at => k = l
    <3>1. \A x, y \in v .. v + z - 1 : base + x = base + y => x = y
      OBVIOUS
    <3> QED BY <1>6, <1>10, <3>1
  <2>2. IsMemory(g, A)
    BY <1>8 DEF MovedUpTo
  <2> QED BY <1>9, <2>1, <2>2, PatchEffect
<1>12. /\ IsMemory(f, A)
       /\ \A k \in DOMAIN s : f[base + s[k].r_offset] = val(k)
       /\ \A a \in A : (\A k \in DOMAIN s : base + s[k].r_offset # a) => f[a] = g[a]
  <2>1. \A k \in DOMAIN s : base + s[k].r_offset \in A
    BY <1>4, <1>6
  <2>2. /\ IsMemory(f, A)
        /\ \A k \in 1 .. Len(s) : st[k].at \in A => f[st[k].at] = st[k].word
        /\ \A a \in A : (\A k \in 1 .. Len(s) : st[k].at # a) => f[a] = g[a]
    BY <1>10, <1>11 DEF PatchedUpTo
  <2>3. ASSUME NEW k \in DOMAIN s PROVE f[base + s[k].r_offset] = val(k)
    <3>1. st[k].at = base + s[k].r_offset /\ st[k].word = val(k) /\ k \in 1 .. Len(s)
      BY <1>6, <1>10
    <3>2. st[k].at \in A
      BY <2>1, <3>1
    <3>3. f[st[k].at] = st[k].word
      BY <2>2, <3>1, <3>2
    <3> QED BY <3>1, <3>3
  <2>4. ASSUME NEW a \in A, \A k \in DOMAIN s : base + s[k].r_offset # a PROVE f[a] = g[a]
    <3>1. \A k \in 1 .. Len(s) : st[k].at # a
      BY <1>6, <1>10, <2>4
    <3> QED BY <2>2, <3>1
  <2> QED BY <2>2, <2>3, <2>4
<1>13. ASSUME NEW a \in A, a - base \notin Second(p2) \cup Cleared(p2) PROVE f[a] = m[a]
  <2>1. \A x \in v .. v + z - 1 : base + x # a
    BY <1>2, <1>13
  <2>2. g[a] = m[a]
    BY <1>8, <1>13 DEF MovedUpTo
  <2> QED BY <1>6, <1>12, <2>1, <2>2
<1>14. ASSUME SourceSpared(p2), NEW x \in v .. v + z - 1, \A k \in DOMAIN s : s[k].r_offset # x
       PROVE  f[base + x] = m[base + o + (x - v)]
  <2>1. PICK j \in 0 .. z - 1 : j = x - v
    OBVIOUS
  <2>2. base + v + j = base + x /\ base + x \in A
    BY <1>4, <2>1
  <2>3. z - z <= j
    OBVIOUS
  <2>4. g[base + v + j] = m[base + o + j]
    BY <1>2, <1>8, <1>14, <2>3 DEF MovedUpTo
  <2>5. \A y \in v .. v + z - 1 : y # x => base + y # base + x
    OBVIOUS
  <2>6. f[base + x] = g[base + x]
    BY <1>6, <1>12, <1>14, <2>2, <2>5
  <2> QED BY <2>1, <2>2, <2>4, <2>6
<1>15. \A k \in DOMAIN h.relaplt : f[base + h.relaplt[k].r_offset] = Imports(h, tbl)[k]
  BY <1>5, <1>12 DEF Imports, val
<1> QED
  BY <1>2, <1>5, <1>12, <1>13, <1>14, <1>15 DEF MovedAndLinked

\* load_dynamic_exec changes no word outside the program's second segment and the
\* cleared words, and loads the program when it overwrites nothing that it still needs.
ProgramDone(A, m, base, h, p1, p2, tbl, f) ==
  /\ \A a \in A : a - base \notin Second(p2) \cup Cleared(p2) => f.mem[a] = m[a]
  /\ /\ base + h.sh_reladyn \in A /\ m[base + h.sh_reladyn] = Len(h.reladyn)
     /\ HeaderSpared(h, p2)
     => /\ ~f.wild
        /\ SourceSpared(p2) => Loaded(m, base, h, p1, p2, Imports(h, tbl), f.mem)

LEMMA ProgramEffect ==
  ASSUME NEW A, A \subseteq Int, NEW m, IsMemory(m, A), NEW base \in Nat,
         NEW h, NEW p1, NEW p2, Fits(A, base, h, p1, p2), NEW tbl,
         NEW f, f = PatchInPlace(Link(MoveSecondLoad(m, base, p2), tbl, TempTable(h, base)),
                                 base, h)
  PROVE  ProgramDone(A, m, base, h, p1, p2, tbl, f)
<1>1. /\ h \in Elf32_Ehdr /\ p1 \in Elf32_Phdr /\ p2 \in Elf32_Phdr
      /\ p2.p_offset <= p2.p_vaddr /\ Linked(h, p1, p2)
  BY DEF Fits
<1>2. PICK o \in Nat, v \in Nat, z \in Nat, e \in Nat : Numbers(p1, p2, o, v, z, e)
  BY FitsNumbers
<1> USE DEF Numbers
<1>3. o <= v /\ e <= o
  BY <1>1, <1>2 DEF Linked
<1>4. /\ \A k \in 0 .. o + z - 1 : base + k \in A
      /\ \A x \in v .. v + z - 1 : base + x \in A
  BY <1>2 DEF Fits
<1>5. PICK q, s : q = h.reladyn /\ s = h.relaplt
  OBVIOUS
<1>6. /\ Len(q) \in Nat /\ DOMAIN q = 1 .. Len(q) /\ Len(s) \in Nat /\ DOMAIN s = 1 .. Len(s)
  BY <1>1, <1>5, Relocations
<1>7. /\ \A k \in DOMAIN q : q[k].r_offset \in v .. v + z - 1
      /\ \A k \in DOMAIN s : s[k].r_offset \in v .. v + z - 1
      /\ \A k, l \in DOMAIN q : q[k].r_offset = q[l].r_offset => k = l
      /\ \A k \in DOMAIN q, l \in DOMAIN s : q[k].r_offset # s[l].r_offset
  BY <1>1, <1>2, <1>5 DEF Linked
<1>8. PICK g : g = Link(MoveSecondLoad(m, base, p2), tbl, TempTable(h, base))
  OBVIOUS
<1>9. /\ IsMemory(g, A)
      /\ \A a \in A : a - base \notin Second(p2) \cup Cleared(p2) => g[a] = m[a]
      /\ \A k \in DOMAIN s : g[base + s[k].r_offset] = Imports(h, tbl)[k]
      /\ SourceSpared(p2) =>
           \A x \in v .. v + z - 1 : (\A k \in DOMAIN s : s[k].r_offset # x) =>
             g[base + x] = m[base + o + (x - v)]
  <2>1. MovedAndLinked(A, m, base, h, p2, tbl, g)
    BY <1>8, LinkEffect
  <2> QED BY <1>2, <1>5, <2>1 DEF MovedAndLinked
<1>10. f = PatchInPlace(g, base, h)
  BY <1>8
<1>11. OutsideUpTo(A, g, base, h, f.mem, Len(q))
  BY <1>5, <1>6, <1>9, <1>10, RelocateFrame
<1>12. \A x, y \in v .. v + z - 1 : base + x = base + y => x = y
  OBVIOUS
<1>13. ASSUME NEW a \in A, a - base \notin Second(p2) \cup Cleared(p2) PROVE f.mem[a] = m[a]
  <2>1. \A x \in v .. v + z - 1 : base + x # a
    BY <1>2, <1>13
  <2>2. f.mem[a] = g[a]
    BY <1>5, <1>6, <1>7, <1>11, <2>1 DEF OutsideUpTo
  <2> QED BY <1>9, <1>13, <2>2
<1>14. ASSUME base + h.sh_reladyn \in A, m[base + h.sh_reladyn] = Len(h.reladyn),
              HeaderSpared(h, p2)
       PROVE  /\ ~f.wild
              /\ SourceSpared(p2) => Loaded(m, base, h, p1, p2, Imports(h, tbl), f.mem)
  <2>0. h.sh_reladyn \notin Second(p2) \cup Cleared(p2)
    BY <1>14 DEF HeaderSpared
  <2>1. h.sh_reladyn \in Nat
    BY <1>1 DEF Elf32_Ehdr
  <2>2. Entries(g, base, h) = Len(h.reladyn)
    <3>1. (base + h.sh_reladyn) - base = h.sh_reladyn
      BY <2>1
    <3> QED BY <1>9, <1>14, <2>0, <3>1 DEF Entries
  <2>3. \A k \in 1 .. Len(h.reladyn) :
          base + h.reladyn[k].r_offset \in A /\ h.reladyn[k].r_offset # h.sh_reladyn
    BY <1>2, <1>4, <1>5, <1>6, <1>7, <2>0
  <2>4. RelocatedUpTo(A, g, base, h, f.mem, Len(h.reladyn)) /\ ~f.wild
    <3>1. \A k, l \in 1 .. Len(h.reladyn) :
            h.reladyn[k].r_offset = h.reladyn[l].r_offset => k = l
      BY <1>5, <1>6, <1>7
    <3>2. IsMemory(g, A)
      BY <1>9
    <3> QED BY <1>1, <1>10, <1>14, <2>2, <2>3, <3>1, <3>2, RelocateEffect
  <2>5. /\ \A k \in DOMAIN q : f.mem[base + q[k].r_offset] = Addend(h, base, q[k])
        /\ \A a \in A : (\A k \in DOMAIN q : base + q[k].r_offset # a) => f.mem[a] = g[a]
    BY <1>5, <1>6, <2>4 DEF RelocatedUpTo
  <2>6. ASSUME NEW k \in DOMAIN s PROVE f.mem[base + s[k].r_offset] = Imports(h, tbl)[k]
    <3>1. base + s[k].r_offset \in A /\ \A l \in DOMAIN q : base + q[l].r_offset # base + s[k].r_offset
      BY <1>4, <1>7, <1>12
    <3> QED BY <1>9, <2>5, <3>1
  <2>7. ASSUME NEW x \in 0 .. e - 1 PROVE f.mem[base + x] = m[base + x]
    <3>1. x \in 0 .. o + z - 1 /\ base + x \in A /\ (base + x) - base = x
      BY <1>3, <1>4
    <3>2. x \notin Second(p2) \cup Cleared(p2)
      <4>1. ~(v <= x)
        BY <1>3
      <4> QED BY <1>2, <4>1
    <3> QED BY <1>2, <1>13, <3>1, <3>2
  <2>8. ASSUME SourceSpared(p2), NEW x \in v .. v + z - 1,
               \A k \in DOMAIN q : q[k].r_offset # x, \A k \in DOMAIN s : s[k].r_offset # x
        PROVE  f.mem[base + x] = m[base + o + (x - v)]
    <3>1. base + x \in A /\ \A l \in DOMAIN q : base + q[l].r_offset # base + x
      BY <1>4, <1>7, <1>12, <2>8
    <3>2. f.mem[base + x] = g[base + x]
      BY <2>5, <3>1
    <3> QED BY <1>9, <2>8, <3>2
  <2>9. SourceSpared(p2) => Loaded(m, base, h, p1, p2, Imports(h, tbl), f.mem)
    BY <1>2, <1>5, <2>5, <2>6, <2>7, <2>8 DEF Loaded
  <2> QED BY <2>4, <2>9
<1> QED
  BY <1>13, <1>14 DEF ProgramDone

-----------------------------------------------------------------------------
(* The files of a card, and the two image properties as statements about a  *)
(* card, a table of names and a memory.                                     *)

Word(card, j, k) == CardWord(card, Jobs[j].sd_start \div 4 + k)
Header(card, j) == Headers[Word(card, j, 0)]

\* What is to be in the jump slot r of the library,
LibrarySlot(card, r) == LIBCSO_LOAD_ADDR + symval(Header(card, "lib"), r)
\* and in that of the program.
ProgramSlot(card, tbl, r) ==
  LET lib == Header(card, "lib")
      name == Header(card, "elf").dynsym[r.r_sym].st_name
      exported == {k \in DOMAIN lib.dynsym : lib.dynsym[k].st_name = name}
  IN  IF Word(card, "lib", 0) \notin DOMAIN Headers \/ tbl = <<>> \/ exported = {} THEN -1
      ELSE LIBCSO_LOAD_ADDR +
             lib.dynsym[CHOOSE k \in exported : \A l \in exported : k <= l].st_value

SlotValue(card, j, tbl, r) ==
  IF j = "lib" THEN LibrarySlot(card, r) ELSE ProgramSlot(card, tbl, r)

Wanted(card, j, tbl, p, v) ==
  LET h == Header(card, j)
      dyn == {k \in DOMAIN h.reladyn : h.reladyn[k].r_offset = v}
      plt == {k \in DOMAIN h.relaplt : h.relaplt[k].r_offset = v}
  IN  CASE dyn # {} -> Addend(h, Jobs[j].mem_start, h.reladyn[CHOOSE k \in dyn : TRUE])
        [] dyn = {} /\ plt # {} -> SlotValue(card, j, tbl, h.relaplt[CHOOSE k \in plt : TRUE])
        [] OTHER -> Word(card, j, p.p_offset + v - p.p_vaddr)

InPlace(card, j, tbl, p1, p2, f) ==
  /\ \A v \in Text(p1) : f[Jobs[j].mem_start + v] = Word(card, j, v)
  /\ \A v \in Second(p2) : f[Jobs[j].mem_start + v] = Wanted(card, j, tbl, p2, v)

LibraryIn(card, f) ==
  LET h == Header(card, "lib")
  IN  SourceSpared(h.phdr[2]) => InPlace(card, "lib", <<>>, h.phdr[1], h.phdr[2], f)

\* The files that load_dynamic_exec accepts.
Accepted(card) ==
  LET h == Header(card, "elf")
  IN  /\ HeaderOK(Word(card, "elf", 0)) /\ SegmentsOK(h, 3, 4) /\ JumpSlots(h) = h.relaplt

ProgramIn(card, tbl, f, proc) ==
  LET h == Header(card, "elf")
  IN  Accepted(card) /\ SourceSpared(h.phdr[4]) /\ HeaderSpared(h, h.phdr[4]) =>
        /\ InPlace(card, "elf", tbl, h.phdr[3], h.phdr[4], f)
        /\ proc.pc = ELF_LOAD_ADDR + h.e_entry

LEMMA LibraryImageIs ==
  LibraryImage <=>
    (job = "elf" /\ pc # "lost" /\ lib_ret = 0 /\ ~early => LibraryIn(sd.card, mem))
  BY DEF LibraryImage, LibraryIn, SegmentsLoaded, ImageWord, HeaderOf, FileWord,
         InPlace, Wanted, SlotValue, LibrarySlot, Word, Header, Addend

LEMMA ProgramImageIs ==
  ProgramImage <=>
    (newproc.state = "READY" /\ ~early => ProgramIn(sd.card, dynlinktbl, mem, newproc))
  BY DEF ProgramImage, ProgramIn, SegmentsLoaded, ImageWord, HeaderOf, FileWord, IsFile, ExecOK,
         Accepted, InPlace, Wanted, SlotValue, ProgramSlot, Word, Header, Addend

-----------------------------------------------------------------------------
(* The loading of the two files.                                           *)

\* The table holds nothing, or the names of the library that is on the card.
TableOf(card, tbl) ==
  \/ tbl = <<>>
  \/ /\ Word(card, "lib", 0) \in DOMAIN Headers
     /\ tbl = FillTable(Header(card, "lib"), LIBCSO_LOAD_ADDR)

StageInv ==
  /\ sd.card \in Cards
  /\ job = "lib" => dynlinktbl = <<>>
  /\ job = "elf" => pc \in {"sd2mem", "sd2mem_wait", "sd2mem_copy", "run", "lost"}
  /\ newproc.state = "READY" => pc = "run"
  /\ pc = "run" => job = "elf"

\* A memory that a file is being copied to is one with all addresses.
WholeInv == pc \in {"sd2mem_wait", "sd2mem_copy"} /\ mem_i > 0 => IsMemory(mem, Addr)

LibraryInv ==
  job = "elf" /\ ~early =>
    /\ TableOf(sd.card, dynlinktbl)
    /\ lib_ret = 0 => Word(sd.card, "lib", 0) \in DOMAIN Headers /\ LibraryIn(sd.card, mem)

ProgramInv ==
  newproc.state = "READY" /\ ~early => ProgramIn(sd.card, dynlinktbl, mem, newproc)

LoadInv == StageInv /\ WholeInv /\ LibraryInv /\ ProgramInv /\ StaysInside

-----------------------------------------------------------------------------
(* A file on the card as FilesAssumption describes it.                     *)

\* The size of the file and the end of its room, counted from its first word.
Roomy(card, j, h, p1, p2) ==
  /\ h \in Elf32_Ehdr /\ p1 \in Elf32_Phdr /\ p2 \in Elf32_Phdr /\ Linked(h, p1, p2)
  /\ p2.p_offset + CopiedWords(p2) <= Jobs[j].size
  /\ \A v \in Second(p2) \cup Cleared(p2) : Jobs[j].mem_start + v < RoomEnd[j]
  /\ h.sh_reladyn \in 0 .. Jobs[j].size - 1 /\ Word(card, j, h.sh_reladyn) = Len(h.reladyn)

LEMMA Rooms ==
  /\ MEM \in Nat /\ LIBCSO_LOAD_ADDR \in Nat /\ ELF_LOAD_ADDR \in Nat
  /\ ELF_LOAD_ADDR + ELF_SIZE <= LIBCSO_LOAD_ADDR /\ LIBCSO_LOAD_ADDR + LIB_SIZE <= MEM
  /\ LIB_SIZE \in Nat \ {0} /\ ELF_SIZE \in Nat \ {0}
  /\ Jobs["lib"].mem_start = LIBCSO_LOAD_ADDR /\ Jobs["lib"].size = LIB_SIZE
  /\ Jobs["elf"].mem_start = ELF_LOAD_ADDR /\ Jobs["elf"].size = ELF_SIZE
  /\ RoomEnd["lib"] = MEM /\ RoomEnd["elf"] = LIBCSO_LOAD_ADDR
  /\ SecondLoad["lib"] = 2 /\ SecondLoad["elf"] = 4
<1>1. /\ MEM \in Nat /\ LIBCSO_LOAD_ADDR \in Nat /\ ELF_LOAD_ADDR \in Nat
      /\ LIB_SIZE \in Nat /\ ELF_SIZE \in Nat /\ LIB_SIZE > 0 /\ ELF_SIZE > 0
      /\ ELF_LOAD_ADDR + ELF_SIZE <= LIBCSO_LOAD_ADDR /\ LIBCSO_LOAD_ADDR + LIB_SIZE <= MEM
  BY LayoutAssumption
<1>2. /\ Jobs["lib"].mem_start = LIBCSO_LOAD_ADDR /\ Jobs["lib"].size = LIB_SIZE
      /\ Jobs["elf"].mem_start = ELF_LOAD_ADDR /\ Jobs["elf"].size = ELF_SIZE
      /\ RoomEnd["lib"] = MEM /\ RoomEnd["elf"] = LIBCSO_LOAD_ADDR
      /\ SecondLoad["lib"] = 2 /\ SecondLoad["elf"] = 4
  BY DEF Jobs, RoomEnd, SecondLoad
<1> QED
  BY <1>1, <1>2

LEMMA FileRoom ==
  ASSUME NEW card \in Cards, NEW j \in {"lib", "elf"}, Word(card, j, 0) \in DOMAIN Headers,
         NEW h, h = Header(card, j), NEW n, n = SecondLoad[j]
  PROVE  Roomy(card, j, h, h.phdr[n - 1], h.phdr[n])
<1>1. h \in Elf32_Ehdr
  BY HeadersAssumption DEF Header
<1>2. PICK q : q = h.phdr
  OBVIOUS
<1>3. q \in Seq(Elf32_Phdr) /\ h.sh_reladyn \in Nat
  BY <1>1, <1>2 DEF Elf32_Ehdr
<1>4. PICK p1, p2 : p1 = q[n - 1] /\ p2 = q[n]
  OBVIOUS
<1>5. Stands(card, j)
  BY FilesAssumption
<1>6. /\ Len(q) >= n /\ Linked(h, p1, p2)
      /\ 4 * p2.p_offset + p2.p_filesz <= 4 * Jobs[j].size
      /\ p2.p_memsz <= 4 * (RoomEnd[j] - (Jobs[j].mem_start + p2.p_vaddr))
      /\ 2 * (p2.p_memsz - p2.p_filesz) <= 4 * (RoomEnd[j] - (Jobs[j].mem_start + p2.p_vaddr))
      /\ h.sh_reladyn < Jobs[j].size /\ Word(card, j, h.sh_reladyn) = Len(h.reladyn)
  BY <1>2, <1>4, <1>5 DEF Stands, Word, Header
<1>7. n \in 2 .. Len(q) /\ n - 1 \in 1 .. Len(q) /\ n \in 1 .. Len(q)
  <2>1. n \in {2, 4} /\ Len(q) \in Nat
    BY <1>3, Rooms
  <2> QED
    BY <1>6, <2>1
<1>8. p1 \in Elf32_Phdr /\ p2 \in Elf32_Phdr
  BY <1>3, <1>4, <1>7
<1>9. PICK b \in Nat, r \in Nat, o \in Nat, v \in Nat, z \in Nat, y \in Nat, k \in Nat :
        /\ b = Jobs[j].mem_start /\ r = RoomEnd[j] /\ k = Jobs[j].size
        /\ p2.p_offset = o /\ p2.p_vaddr = v /\ p2.p_filesz = z /\ p2.p_memsz = y
  BY <1>8, Segment, Rooms
<1>10. /\ o + CopiedWords(p2) <= k
       /\ \A x \in Second(p2) \cup Cleared(p2) : b + x < r
       /\ h.sh_reladyn \in 0 .. k - 1
  <2>1. /\ 4 * o + z <= 4 * k /\ y <= 4 * (r - (b + v)) /\ 2 * (y - z) <= 4 * (r - (b + v))
        /\ z <= y
    BY <1>6, <1>9 DEF Linked
  <2>2. PICK c \in Nat : c = z \div 4 /\ 4 * c <= z
    OBVIOUS
  <2>3. PICK d \in Nat, e \in Nat, g \in Nat :
          d = y - z /\ e = d \div 2 /\ 2 * e <= d /\ g = d \div 4
    BY <2>1
  <2>4. o + c <= k /\ b + v + c <= r /\ b + v + e <= r
    BY <2>1, <2>2, <2>3
  <2>5. CopiedWords(p2) = c /\ Second(p2) = v .. v + c - 1
    BY <1>9, <2>2 DEF CopiedWords, Second
  <2>6. Cleared(p2) = (v + e) - g .. (v + e) - 1
    BY <1>9, <2>3 DEF Cleared
  <2>7. PICK x \in Nat : x = h.sh_reladyn
    BY <1>3
  <2>8. x < k
    BY <1>6, <1>9, <2>7
  <2>9. x \in 0 .. k - 1
    BY <2>8
  <2> QED BY <2>4, <2>5, <2>6, <2>7, <2>9
<1>11. Roomy(card, j, h, p1, p2)
  BY <1>1, <1>6, <1>8, <1>9, <1>10 DEF Roomy
<1> QED
  BY <1>2, <1>4, <1>11

LEMMA RoomyFits ==
  ASSUME NEW card, NEW j \in {"lib", "elf"}, NEW h, NEW p1, NEW p2, Roomy(card, j, h, p1, p2)
  PROVE  /\ \A k \in 0 .. Jobs[j].size - 1 : Jobs[j].mem_start + k \in Addr
         /\ \A v \in Second(p2) : Jobs[j].mem_start + v \in Addr
         /\ \A v \in Second(p2) \cup Cleared(p2) : Jobs[j].mem_start + v < RoomEnd[j]
         /\ p2.p_offset <= p2.p_vaddr => Fits(Addr, Jobs[j].mem_start, h, p1, p2)
<1>1. PICK b \in Nat, r \in Nat, k \in Nat :
        /\ b = Jobs[j].mem_start /\ r = RoomEnd[j] /\ k = Jobs[j].size
        /\ b + k <= MEM /\ r <= MEM /\ MEM \in Nat
  <2>1. CASE j = "lib" BY <2>1, Rooms
  <2>2. CASE j = "elf"
    <3>1. LIBCSO_LOAD_ADDR <= MEM /\ ELF_LOAD_ADDR + ELF_SIZE <= MEM
      BY Rooms
    <3> QED BY <2>2, <3>1, Rooms
  <2> QED BY <2>1, <2>2
<1>2. h \in Elf32_Ehdr /\ p1 \in Elf32_Phdr /\ p2 \in Elf32_Phdr /\ Linked(h, p1, p2)
  BY DEF Roomy
<1>3. PICK o \in Nat, v \in Nat, z \in Nat :
        p2.p_offset = o /\ p2.p_vaddr = v /\ CopiedWords(p2) = z
  BY <1>2, Segment
<1>4. o + z <= k /\ \A x \in Second(p2) \cup Cleared(p2) : b + x < r
  BY <1>1, <1>3 DEF Roomy
<1>5. \A x \in 0 .. k - 1 : b + x \in Addr
  BY <1>1 DEF Addr
<1>6. \A x \in Second(p2) : b + x \in Addr
  <2>1. \A x \in Second(p2) : x \in Nat /\ b + x < r
    BY <1>2, <1>4, Segment
  <2> QED BY <1>1, <2>1 DEF Addr
<1>7. p2.p_offset <= p2.p_vaddr => Fits(Addr, b, h, p1, p2)
  <2>1. \A x \in 0 .. o + z - 1 : b + x \in Addr
    BY <1>4, <1>5
  <2> QED BY <1>2, <1>3, <1>6, <2>1 DEF Fits
<1> QED
  BY <1>1, <1>4, <1>5, <1>6, <1>7

\* From the words that a loader leaves to those that the file asks for.
LEMMA LoadedInPlace ==
  ASSUME NEW card, NEW j \in {"lib", "elf"}, NEW tbl, NEW m, NEW f, NEW val, NEW p1, NEW p2,
         NEW h, h = Header(card, j), Roomy(card, j, h, p1, p2),
         \A k \in 0 .. Jobs[j].size - 1 : m[Jobs[j].mem_start + k] = Word(card, j, k),
         \A k \in DOMAIN h.relaplt : val[k] = SlotValue(card, j, tbl, h.relaplt[k]),
         Loaded(m, Jobs[j].mem_start, h, p1, p2, val, f)
  PROVE  InPlace(card, j, tbl, p1, p2, f)
<1>1. h \in Elf32_Ehdr /\ p1 \in Elf32_Phdr /\ p2 \in Elf32_Phdr /\ Linked(h, p1, p2)
  BY DEF Roomy
<1>2. PICK o \in Nat, v \in Nat, z \in Nat, e \in Nat, b \in Nat, y \in Nat :
        Numbers(p1, p2, o, v, z, e) /\ b = Jobs[j].mem_start /\ y = Jobs[j].size
  BY <1>1, LinkedNumbers, Rooms
<1> USE DEF Numbers
<1>3. o + z <= y /\ e <= o /\ Second(p2) = v .. v + z - 1
  BY <1>2 DEF Roomy
<1>4. ASSUME NEW x \in 0 .. e - 1 PROVE f[b + x] = Word(card, j, x)
  <2>1. x \in 0 .. y - 1
    BY <1>3
  <2> QED BY <1>2, <1>4, <2>1 DEF Loaded
<1>5. ASSUME NEW x \in v .. v + z - 1 PROVE f[b + x] = Wanted(card, j, tbl, p2, x)
  <2> DEFINE dyn == {k \in DOMAIN h.reladyn : h.reladyn[k].r_offset = x}
             plt == {k \in DOMAIN h.relaplt : h.relaplt[k].r_offset = x}
  <2>1. CASE dyn # {}
    <3>1. PICK k \in dyn : k = CHOOSE l \in dyn : TRUE
      BY <2>1
    <3>2. Wanted(card, j, tbl, p2, x) = Addend(h, b, h.reladyn[k])
      BY <1>2, <2>1, <3>1 DEF Wanted
    <3>3. k \in DOMAIN h.reladyn /\ h.reladyn[k].r_offset = x
      OBVIOUS
    <3> QED BY <1>2, <3>2, <3>3 DEF Loaded
  <2>2. CASE dyn = {} /\ plt # {}
    <3>1. PICK k \in plt : k = CHOOSE l \in plt : TRUE
      BY <2>2
    <3>2. Wanted(card, j, tbl, p2, x) = SlotValue(card, j, tbl, h.relaplt[k])
      BY <1>2, <2>2, <3>1 DEF Wanted
    <3>3. k \in DOMAIN h.relaplt /\ h.relaplt[k].r_offset = x
      OBVIOUS
    <3> QED BY <1>2, <3>2, <3>3 DEF Loaded
  <2>3. CASE dyn = {} /\ plt = {}
    <3>1. Wanted(card, j, tbl, p2, x) = Word(card, j, o + x - v)
      BY <1>2, <2>3 DEF Wanted
    <3>2. /\ \A k \in DOMAIN h.reladyn : h.reladyn[k].r_offset # x
          /\ \A k \in DOMAIN h.relaplt : h.relaplt[k].r_offset # x
      BY <2>3
    <3>3. f[b + x] = m[b + o + (x - v)]
      BY <1>2, <1>3, <3>2 DEF Loaded
    <3>4. PICK c \in 0 .. y - 1 : c = o + x - v /\ b + o + (x - v) = b + c
      BY <1>3
    <3>5. m[b + c] = Word(card, j, c)
      BY <1>2
    <3> QED BY <3>1, <3>3, <3>4, <3>5
  <2> QED BY <2>1, <2>2, <2>3
<1> QED
  BY <1>2, <1>3, <1>4, <1>5 DEF InPlace

\* A library stays while only the memory before it changes.
LEMMA LibraryKept ==
  ASSUME NEW card \in Cards, Word(card, "lib", 0) \in DOMAIN Headers, NEW f, NEW g,
         LibraryIn(card, f), \A a \in Addr : a >= LIBCSO_LOAD_ADDR => g[a] = f[a]
  PROVE  LibraryIn(card, g)
<1>1. PICK h, p1, p2 : h = Header(card, "lib") /\ p1 = h.phdr[1] /\ p2 = h.phdr[2]
  OBVIOUS
<1>2. Roomy(card, "lib", h, p1, p2)
  <2>1. Roomy(card, "lib", h, h.phdr[2 - 1], h.phdr[2])
    BY <1>1, FileRoom, Rooms
  <2>2. 2 - 1 = 1
    OBVIOUS
  <2> QED BY <1>1, <2>1, <2>2
<1>3. SUFFICES ASSUME InPlace(card, "lib", <<>>, p1, p2, f)
               PROVE  InPlace(card, "lib", <<>>, p1, p2, g)
  BY <1>1 DEF LibraryIn
<1>4. Jobs["lib"].mem_start = LIBCSO_LOAD_ADDR /\ LIBCSO_LOAD_ADDR \in Nat
  BY Rooms
<1>5. \A v \in Text(p1) : LIBCSO_LOAD_ADDR + v \in Addr /\ v \in Nat
  <2>1. p2 \in Elf32_Phdr /\ p1 \in Elf32_Phdr /\ Linked(h, p1, p2)
    BY <1>2 DEF Roomy
  <2>2. PICK o \in Nat, v \in Nat, z \in Nat, e \in Nat : Numbers(p1, p2, o, v, z, e)
    BY <2>1, LinkedNumbers
  <2>3. o + z <= LIB_SIZE /\ LIB_SIZE \in Nat
    BY <1>2, <2>2, Rooms DEF Roomy, Numbers
  <2>4. \A x \in Text(p1) : x \in 0 .. LIB_SIZE - 1
    BY <2>2, <2>3 DEF Numbers
  <2>5. \A k \in 0 .. LIB_SIZE - 1 : LIBCSO_LOAD_ADDR + k \in Addr
    BY Rooms DEF Addr
  <2> QED BY <2>4, <2>5
<1>6. \A v \in Second(p2) : LIBCSO_LOAD_ADDR + v \in Addr
  BY <1>2, <1>4, RoomyFits
<1>7. /\ \A v \in Text(p1) : LIBCSO_LOAD_ADDR + v >= LIBCSO_LOAD_ADDR
      /\ \A v \in Second(p2) : LIBCSO_LOAD_ADDR + v >= LIBCSO_LOAD_ADDR
  <2>1. Second(p2) \subseteq Nat
    BY <1>2, Segment DEF Roomy
  <2> QED BY <1>4, <1>5, <2>1
<1> QED
  BY <1>3, <1>4, <1>5, <1>6, <1>7 DEF InPlace

-----------------------------------------------------------------------------
(* The two loaders on a file that has been copied from the card.           *)

LEMMA Least ==
  ASSUME NEW T, T \subseteq Nat, T # {}
  PROVE  \E x \in T : \A y \in T : x <= y
<1> DEFINE R == {ss \in Nat \X Nat : ss[1] < ss[2]}
<1>1. IsWellFoundedOn(R, Nat)
  BY NatLessThanWellFounded DEF OpToRel
<1>2. PICK x \in T : \A y \in T : ~(<<y, x>> \in R)
  BY <1>1, WFMin
<1>3. ASSUME NEW y \in T PROVE x <= y
  <2>1. x \in Nat /\ y \in Nat /\ ~(<<y, x>> \in R)
    BY <1>2
  <2>2. ~(y < x)
    BY <2>1
  <2> QED BY <2>1, <2>2
<1> QED
  BY <1>3

\* find_function_from_so finds in the table what the library exports.
LEMMA ImportsRight ==
  ASSUME NEW card, NEW tbl, TableOf(card, tbl), NEW h, h = Header(card, "elf")
  PROVE  \A k \in DOMAIN h.relaplt :
           Imports(h, tbl)[k] = SlotValue(card, "elf", tbl, h.relaplt[k])
<1> TAKE k \in DOMAIN h.relaplt
<1>1. PICK name : name = h.dynsym[h.relaplt[k].r_sym].st_name
  OBVIOUS
<1>2. PICK lib : lib = Header(card, "lib")
  OBVIOUS
<1> DEFINE found == {x \in DOMAIN tbl : tbl[x].name = name}
           exported == {x \in DOMAIN lib.dynsym : lib.dynsym[x].st_name = name}
<1>3. Imports(h, tbl)[k] = find_function_from_so(tbl, name)
  BY <1>1 DEF Imports
<1>4. SlotValue(card, "elf", tbl, h.relaplt[k]) =
        IF Word(card, "lib", 0) \notin DOMAIN Headers \/ tbl = <<>> \/ exported = {} THEN -1
        ELSE LIBCSO_LOAD_ADDR +
               lib.dynsym[CHOOSE x \in exported : \A l \in exported : x <= l].st_value
  BY <1>1, <1>2 DEF SlotValue, ProgramSlot
<1>5. CASE tbl = <<>>
  <2>1. found = {}
    BY <1>5
  <2>2. find_function_from_so(tbl, name) = -1
    BY <2>1 DEF find_function_from_so
  <2> QED BY <1>3, <1>4, <1>5, <2>2
<1>6. CASE /\ Word(card, "lib", 0) \in DOMAIN Headers
           /\ tbl = FillTable(lib, LIBCSO_LOAD_ADDR) /\ tbl # <<>>
  <2>1. PICK q : q = lib.dynsym
    OBVIOUS
  <2>2. q \in Seq(Elf32_Sym) /\ DOMAIN q = 1 .. Len(q) /\ Len(q) \in Nat
    <3>1. lib \in Elf32_Ehdr
      BY <1>2, <1>6, HeadersAssumption DEF Header
    <3>2. q \in Seq(Elf32_Sym)
      BY <2>1, <3>1 DEF Elf32_Ehdr
    <3> QED BY <3>2
  <2>3. tbl = [x \in DOMAIN q |-> [addr |-> LIBCSO_LOAD_ADDR + q[x].st_value,
                                   name |-> q[x].st_name]]
    BY <1>6, <2>1 DEF FillTable
  <2>4. /\ DOMAIN tbl = DOMAIN q
        /\ \A x \in DOMAIN q : /\ tbl[x].addr = LIBCSO_LOAD_ADDR + q[x].st_value
                               /\ tbl[x].name = q[x].st_name
    BY <2>3
  <2>5. found = exported
    BY <2>1, <2>4
  <2>6. CASE exported = {}
    <3>1. find_function_from_so(tbl, name) = -1
      BY <2>5, <2>6 DEF find_function_from_so
    <3> QED BY <1>3, <1>4, <2>6, <3>1
  <2>7. CASE exported # {}
    <3>1. PICK T : T = exported
      OBVIOUS
    <3>2. T \subseteq Nat /\ T # {} /\ T \subseteq DOMAIN q
      BY <2>1, <2>2, <2>7, <3>1
    <3>3. \E x \in T : \A l \in T : x <= l
      BY <3>2, Least
    <3>4. PICK c : c = CHOOSE x \in T : \A l \in T : x <= l
      OBVIOUS
    <3>5. c \in DOMAIN q
      BY <3>2, <3>3, <3>4
    <3>6. find_function_from_so(tbl, name) = tbl[c].addr
      <4>1. find_function_from_so(tbl, name) =
              IF found = {} THEN -1 ELSE tbl[CHOOSE x \in found : \A l \in found : x <= l].addr
        BY DEF find_function_from_so
      <4> QED BY <2>5, <3>1, <3>2, <3>4, <4>1, Zenon
    <3>7. SlotValue(card, "elf", tbl, h.relaplt[k]) = LIBCSO_LOAD_ADDR + q[c].st_value
      <4>1. ~(Word(card, "lib", 0) \notin DOMAIN Headers \/ tbl = <<>> \/ exported = {})
        BY <1>6, <2>7
      <4> HIDE DEF exported
      <4> QED BY <1>4, <2>1, <3>1, <3>4, <4>1
    <3> QED BY <1>3, <2>4, <3>5, <3>6, <3>7
  <2> QED BY <2>6, <2>7
<1> QED
  BY <1>2, <1>5, <1>6 DEF TableOf

\* load_shared_library.
LEMMA LibraryLoader ==
  ASSUME NEW card \in Cards, NEW m, IsMemory(m, Addr),
         \A k \in 0 .. LIB_SIZE - 1 : m[LIBCSO_LOAD_ADDR + k] = Word(card, "lib", k),
         NEW l, l = load_shared_library(m, LIBCSO_LOAD_ADDR, <<>>)
  PROVE  /\ TableOf(card, l.tbl)
         /\ l.ret = 0 => Word(card, "lib", 0) \in DOMAIN Headers /\ LibraryIn(card, l.mem)
         /\ l.wild => ~TableFits(Header(card, "lib"))
<1>1. PICK base \in Nat : base = LIBCSO_LOAD_ADDR /\ base = Jobs["lib"].mem_start
  BY Rooms
<1>2. m[base] = Word(card, "lib", 0)
  <2>1. 0 \in 0 .. LIB_SIZE - 1 /\ base + 0 = base
    BY Rooms
  <2> QED BY <1>1, <2>1
<1>3. PICK h, p1, p2 : h = Header(card, "lib") /\ p1 = h.phdr[1] /\ p2 = h.phdr[2]
  OBVIOUS
<1>4. h = Headers[m[base]]
  BY <1>2, <1>3 DEF Header
<1> DEFINE slots == JumpSlots(h)
           patched == PatchInFile(m, base, [h EXCEPT !.relaplt = slots], p2)
           good == HeaderOK(m[base]) /\ SegmentsOK(h, 1, 2) /\ SectionsFound(h)
<1>5. l = IF ~good THEN [ret |-> -1, mem |-> m, tbl |-> <<>>, wild |-> FALSE]
          ELSE IF ~TableFits(h) THEN [ret |-> -1, mem |-> m, tbl |-> <<>>, wild |-> TRUE]
          ELSE IF slots # h.relaplt
          THEN [ret |-> -1, mem |-> patched, tbl |-> FillTable(h, base), wild |-> FALSE]
          ELSE [ret |-> 0, mem |-> MoveSecondLoad(patched, base, p2), tbl |-> FillTable(h, base),
                wild |-> FALSE]
  BY <1>1, <1>3, <1>4 DEF load_shared_library
<1> HIDE DEF slots, patched, good
<1>6. good => Word(card, "lib", 0) \in DOMAIN Headers /\ p2.p_offset <= p2.p_vaddr
  BY <1>2, <1>3 DEF good, HeaderOK, SegmentsOK
<1>7. CASE ~good \/ ~TableFits(h)
  BY <1>3, <1>5, <1>7 DEF TableOf
<1>8. CASE good /\ TableFits(h) /\ slots # h.relaplt
  BY <1>1, <1>3, <1>5, <1>6, <1>8 DEF TableOf
<1>9. CASE good /\ TableFits(h) /\ slots = h.relaplt
  <2>1. /\ l.tbl = FillTable(h, base) /\ l.mem = MoveSecondLoad(patched, base, p2)
        /\ l.wild = FALSE
    BY <1>5, <1>9
  <2>2. TableOf(card, l.tbl)
    BY <1>1, <1>3, <1>6, <1>9, <2>1 DEF TableOf
  <2>3. Roomy(card, "lib", h, p1, p2)
    <3>1. Roomy(card, "lib", h, h.phdr[2 - 1], h.phdr[2])
      BY <1>3, <1>6, <1>9, FileRoom, Rooms
    <3>2. 2 - 1 = 1
      OBVIOUS
    <3> QED BY <1>3, <3>1, <3>2
  <2>4. Fits(Addr, base, h, p1, p2)
    BY <1>1, <1>6, <1>9, <2>3, RoomyFits
  <2>5. patched = PatchInFile(m, base, h, p2)
    <3>1. h \in Elf32_Ehdr
      BY <2>3 DEF Roomy
    <3>2. [h EXCEPT !.relaplt = h.relaplt] = h
      BY <3>1 DEF Elf32_Ehdr
    <3> QED BY <1>9, <3>2 DEF patched
  <2>6. ASSUME SourceSpared(p2) PROVE InPlace(card, "lib", <<>>, p1, p2, l.mem)
    <3>1. Addr \subseteq Int
      BY DEF Addr
    <3>2. PICK val : val = [k \in DOMAIN h.relaplt |-> base + symval(h, h.relaplt[k])]
      OBVIOUS
    <3>3. Loaded(m, base, h, p1, p2, val, l.mem)
      BY <2>1, <2>4, <2>5, <2>6, <3>1, <3>2, LibraryEffect
    <3>4. \A k \in DOMAIN h.relaplt : val[k] = SlotValue(card, "lib", <<>>, h.relaplt[k])
      BY <1>1, <1>3, <3>2 DEF SlotValue, LibrarySlot
    <3>5. \A k \in 0 .. Jobs["lib"].size - 1 : m[base + k] = Word(card, "lib", k)
      BY <1>1, Rooms
    <3> QED BY <1>1, <1>3, <2>3, <3>3, <3>4, <3>5, LoadedInPlace
  <2>7. LibraryIn(card, l.mem)
    BY <1>3, <2>6 DEF LibraryIn
  <2> QED BY <1>6, <1>9, <2>1, <2>2, <2>7
<1> QED
  BY <1>7, <1>8, <1>9

\* What the program lacks when its loader gets lost.
Misfit(card) ==
  LET h == Header(card, "elf")
  IN  ~(ImportsFit(h) /\ RelocationsFound(h) /\ HeaderSpared(h, h.phdr[4]))

\* load_dynamic_exec, which leaves the library alone in any case.
LEMMA ProgramLoader ==
  ASSUME NEW card \in Cards, NEW m, IsMemory(m, Addr),
         \A k \in 0 .. ELF_SIZE - 1 : m[ELF_LOAD_ADDR + k] = Word(card, "elf", k),
         NEW tbl, TableOf(card, tbl), NEW l, l = load_dynamic_exec(m, ELF_LOAD_ADDR, tbl),
         NEW proc, proc.pc = l.entry
  PROVE  /\ \A a \in Addr : a >= LIBCSO_LOAD_ADDR => l.mem[a] = m[a]
         /\ ~l.wild => ProgramIn(card, tbl, l.mem, proc)
         /\ l.wild => Misfit(card)
<1>1. PICK base \in Nat : base = ELF_LOAD_ADDR /\ base = Jobs["elf"].mem_start
  BY Rooms
<1>2. m[base] = Word(card, "elf", 0)
  <2>1. 0 \in 0 .. ELF_SIZE - 1 /\ base + 0 = base
    BY Rooms
  <2> QED BY <1>1, <2>1
<1>3. PICK h, p1, p2 : h = Header(card, "elf") /\ p1 = h.phdr[3] /\ p2 = h.phdr[4]
  OBVIOUS
<1>4. h = Headers[m[base]]
  BY <1>2, <1>3 DEF Header
<1>5. PICK done : done = PatchInPlace(Link(MoveSecondLoad(m, base, p2), tbl, TempTable(h, base)),
                                      base, h)
  OBVIOUS
<1>6. Accepted(card) <=> HeaderOK(m[base]) /\ SegmentsOK(h, 3, 4) /\ JumpSlots(h) = h.relaplt
  BY <1>2, <1>3 DEF Accepted
<1>7. CASE ~Accepted(card) \/ ~ImportsFit(h) \/ ~RelocationsFound(h)
  <2>1. /\ l.mem = m /\ (l.wild => ~ImportsFit(h) \/ ~RelocationsFound(h))
        /\ Accepted(card) => l.wild
    BY <1>1, <1>4, <1>6, <1>7 DEF load_dynamic_exec
  <2> QED BY <1>3, <2>1 DEF ProgramIn, Misfit
<1>8. CASE Accepted(card) /\ ImportsFit(h) /\ RelocationsFound(h)
  <2>1. l.mem = done.mem /\ l.entry = base + h.e_entry /\ l.wild = done.wild
    BY <1>1, <1>3, <1>4, <1>5, <1>6, <1>8 DEF load_dynamic_exec
  <2>2. Word(card, "elf", 0) \in DOMAIN Headers /\ p2.p_offset <= p2.p_vaddr
    BY <1>2, <1>3, <1>6, <1>8 DEF HeaderOK, SegmentsOK
  <2>3. Roomy(card, "elf", h, p1, p2)
    <3>1. Roomy(card, "elf", h, h.phdr[4 - 1], h.phdr[4])
      BY <1>3, <2>2, FileRoom, Rooms
    <3>2. 4 - 1 = 3
      OBVIOUS
    <3> QED BY <1>3, <3>1, <3>2
  <2>4. Fits(Addr, base, h, p1, p2)
    BY <1>1, <2>2, <2>3, RoomyFits
  <2>5. Addr \subseteq Int
    BY DEF Addr
  <2>6. /\ \A a \in Addr : a - base \notin Second(p2) \cup Cleared(p2) => done.mem[a] = m[a]
        /\ /\ base + h.sh_reladyn \in Addr /\ m[base + h.sh_reladyn] = Len(h.reladyn)
           /\ HeaderSpared(h, p2)
           => /\ ~done.wild
              /\ SourceSpared(p2) => Loaded(m, base, h, p1, p2, Imports(h, tbl), done.mem)
    <3>1. ProgramDone(Addr, m, base, h, p1, p2, tbl, done)
      BY <1>5, <2>4, <2>5, ProgramEffect
    <3> QED BY <3>1 DEF ProgramDone
  <2>7. ASSUME NEW a \in Addr, a >= LIBCSO_LOAD_ADDR PROVE l.mem[a] = m[a]
    <3>1. a \in Int /\ base + (a - base) = a
      BY DEF Addr
    <3>2. \A v \in Second(p2) \cup Cleared(p2) : base + v < LIBCSO_LOAD_ADDR
      BY <1>1, <2>3, RoomyFits, Rooms
    <3>3. ~(base + (a - base) < LIBCSO_LOAD_ADDR)
      BY <2>7, <3>1, Rooms
    <3>4. a - base \notin Second(p2) \cup Cleared(p2)
      BY <3>2, <3>3
    <3> QED BY <2>1, <2>6, <3>4
  <2>8. ASSUME HeaderSpared(h, p2)
        PROVE  /\ ~l.wild
               /\ SourceSpared(p2) => InPlace(card, "elf", tbl, p1, p2, l.mem)
    <3>1. \A k \in 0 .. Jobs["elf"].size - 1 : m[base + k] = Word(card, "elf", k)
      BY <1>1, Rooms
    <3>2. h.sh_reladyn \in 0 .. Jobs["elf"].size - 1
          /\ Word(card, "elf", h.sh_reladyn) = Len(h.reladyn)
      BY <2>3 DEF Roomy
    <3>3. base + h.sh_reladyn \in Addr /\ m[base + h.sh_reladyn] = Len(h.reladyn)
      BY <1>1, <2>3, <3>1, <3>2, RoomyFits
    <3>4. ~l.wild /\ (SourceSpared(p2) => Loaded(m, base, h, p1, p2, Imports(h, tbl), l.mem))
      BY <2>1, <2>6, <2>8, <3>3
    <3>5. \A k \in DOMAIN h.relaplt :
            Imports(h, tbl)[k] = SlotValue(card, "elf", tbl, h.relaplt[k])
      BY <1>3, ImportsRight
    <3>6. SourceSpared(p2) => InPlace(card, "elf", tbl, p1, p2, l.mem)
      BY <1>1, <1>3, <2>3, <3>1, <3>4, <3>5, LoadedInPlace
    <3> QED BY <3>4, <3>6
  <2>9. ProgramIn(card, tbl, l.mem, proc) /\ (l.wild => Misfit(card))
    BY <1>1, <1>3, <2>1, <2>8 DEF ProgramIn, Misfit
  <2> QED BY <2>7, <2>9
<1> QED
  BY <1>7, <1>8

-----------------------------------------------------------------------------
(* The steps of the boot and what is loaded.                               *)

\* Nothing writes the card.
LEMMA CardKept == ASSUME BInv, [Next]_vars PROVE sd'.card = sd.card
<1>1. sd \in Device(Int) /\ PartRead(sd) /\ ~sd.dirty /\ sd.op # "wr"
  BY DEF BInv, DeviceInv
<1>2. ASSUME NEW s \in Int, sd' = sd_blk_load(sd_blk_ioctl(sd, s)) PROVE sd'.card = sd.card
  BY <1>1, <1>2, LoadEffect
<1>3. CASE UNCHANGED vars
  BY <1>3 DEF vars
<1>4. CASE RomIssue
  <2>1. i \in Int /\ sd' = sd_blk_load(sd_blk_ioctl(sd, i))
    BY <1>4 DEF BInv, VarsInv, RomIssue
  <2> QED BY <1>2, <2>1
<1>5. CASE sdcard_init
  <2>1. sd' = sd \/ sd' = sd_blk_load(sd_blk_ioctl(sd, 0))
    BY <1>5 DEF sdcard_init
  <2> QED BY <1>2, <2>1
<1>6. CASE sdcard_to_memory
  <2>1. sd' = sd_blk_load(sd_blk_ioctl(sd, Jobs[job].sd_start \div SECTOR_BYTES))
    BY <1>6 DEF sdcard_to_memory, sd_blk_isdirty, BInv, DeviceInv
  <2>2. Jobs[job].sd_start \div SECTOR_BYTES \in Int
    <3>1. Jobs[job].sd_start \in Nat /\ SECTOR_BYTES \in Nat \ {0}
      BY Sizes DEF BInv, VarsInv, SECTOR_BYTES
    <3>2. PICK b \in Nat, n \in Nat \ {0} : b = Jobs[job].sd_start /\ n = SECTOR_BYTES
      BY <3>1
    <3>3. b \div n \in Int
      OBVIOUS
    <3> QED BY <3>2, <3>3
  <2> QED BY <1>2, <2>1, <2>2
<1>7. CASE sd2mem_copy
  <2>1. sd' = sd \/ sd' = sd_blk_load(sd_blk_ioctl(sd, curr_sec + 1))
    BY <1>7 DEF sd2mem_copy, CopyWord
  <2>2. curr_sec + 1 \in Int
    BY DEF BInv, VarsInv
  <2> QED BY <1>2, <2>1, <2>2
<1>8. CASE Controller
  <2>1. \/ Initialised(sd) /\ sd' = Idle(sd)
        \/ Transfers(sd) /\ sd' = Transfer(sd)
        \/ Finished(sd) /\ sd' = Idle(sd)
    BY <1>8 DEF Controller
  <2> QED BY <1>1, <2>1, ControllerEffect
<1>9. CASE \/ RomStart \/ RomCopy \/ RomUart \/ memory_test \/ uart_getchar \/ sd2mem_wait
           \/ load_libcso \/ loadelf
  BY <1>9 DEF RomStart, RomCopy, RomUart, memory_test, uart_getchar, sd2mem_wait, load_libcso,
              loadelf
<1> QED
  BY <1>3, <1>4, <1>5, <1>6, <1>7, <1>8, <1>9 DEF Next, Processor, Spin

\* The boot ROM and sd_c_start before the first copy: nothing has been loaded.
LEMMA NothingLoaded ==
  ASSUME LoadInv, sd'.card = sd.card, UNCHANGED <<copying, loading>>,
         pc \notin {"sd2mem", "sd2mem_wait", "sd2mem_copy", "run", "lost"},
         pc' \notin {"sd2mem_wait", "sd2mem_copy", "run", "lost"}
  PROVE  LoadInv'
<1>1. /\ job' = job /\ early' = early /\ dynlinktbl' = dynlinktbl /\ newproc' = newproc
  BY DEF copying, loading
<1>2. job # "elf" /\ newproc.state # "READY"
  BY DEF LoadInv, StageInv
<1>3. StageInv'
  BY <1>1, <1>2 DEF LoadInv, StageInv
<1> QED
  BY <1>1, <1>2, <1>3 DEF LoadInv, WholeInv, LibraryInv, ProgramInv, StaysInside

LEMMA EarlyStep ==
  ASSUME LoadInv, sd'.card = sd.card,
         \/ RomStart \/ RomIssue \/ RomCopy \/ RomUart \/ memory_test \/ sdcard_init
         \/ uart_getchar
  PROVE  LoadInv'
<1>1. /\ UNCHANGED <<copying, loading>>
      /\ pc \in {"reset", "rom_issue", "rom_copy", "rom_uart", "kernel", "sdcard_init", "keys"}
      /\ pc' \in {"rom_issue", "rom_copy", "rom_uart", "kernel", "sdcard_init", "keys", "sd2mem"}
  BY DEF RomStart, RomIssue, RomCopy, RomUart, memory_test, sdcard_init, uart_getchar
<1> QED
  BY <1>1, NothingLoaded

\* The copying of a file up to the word that is copied: memory does not change.
LEMMA QuietStep ==
  ASSUME LoadInv, sd'.card = sd.card, UNCHANGED <<mem, job, loading>>, early \in BOOLEAN,
         early' \in BOOLEAN, ~early' => ~early,
         \/ pc' = pc /\ mem_i' = mem_i
         \/ pc = "sd2mem" /\ pc' = "sd2mem_wait" /\ mem_i' = 0
         \/ pc = "sd2mem_wait" /\ pc' = "sd2mem_copy" /\ mem_i' = mem_i
  PROVE  LoadInv'
<1>1. /\ mem' = mem /\ job' = job /\ dynlinktbl' = dynlinktbl /\ newproc' = newproc
      /\ lib_ret' = lib_ret
  BY DEF loading
<1>2. StageInv'
  BY <1>1 DEF LoadInv, StageInv
<1>3. WholeInv'
  BY <1>1 DEF LoadInv, WholeInv, IsMemory
<1>4. LibraryInv'
  BY <1>1 DEF LoadInv, LibraryInv
<1>5. ProgramInv'
  BY <1>1 DEF LoadInv, ProgramInv
<1>6. StaysInside'
  BY <1>1 DEF LoadInv, StaysInside, HeaderOf, FileWord
<1> QED
  BY <1>2, <1>3, <1>4, <1>5, <1>6 DEF LoadInv

\* A word of the program goes to memory before the library.
LEMMA WordStep ==
  ASSUME BInv, LoadInv, sd'.card = sd.card, sd2mem_copy
  PROVE  LoadInv'
<1>1. /\ pc = "sd2mem_copy" /\ mem_i < Jobs[job].size
      /\ mem' = [a \in Addr |-> IF a = Jobs[job].mem_start + mem_i THEN cache(sd, curr_offset)
                                                                  ELSE mem[a]]
      /\ pc' \in {"sd2mem_wait", "sd2mem_copy"}
      /\ job' = job /\ early' = early /\ dynlinktbl' = dynlinktbl /\ newproc' = newproc
      /\ lib_ret' = lib_ret
  BY DEF sd2mem_copy, CopyWord, loading
<1>2. newproc.state # "READY" /\ sd.card \in Cards
  BY <1>1 DEF LoadInv, StageInv
<1>3. StageInv'
  BY <1>1, <1>2 DEF LoadInv, StageInv
<1>4. IsMemory(mem, Addr)'
  BY <1>1 DEF IsMemory
<1>5. LibraryInv'
  <2> SUFFICES ASSUME job = "elf", ~early PROVE LibraryInv'
    BY <1>1 DEF LibraryInv
  <2>1. /\ TableOf(sd.card, dynlinktbl)
        /\ lib_ret = 0 => Word(sd.card, "lib", 0) \in DOMAIN Headers /\ LibraryIn(sd.card, mem)
    BY DEF LoadInv, LibraryInv
  <2>2. \A a \in Addr : a >= LIBCSO_LOAD_ADDR => mem'[a] = mem[a]
    <3>1. PICK b \in Nat, n \in Nat, c \in Nat :
            b = Jobs[job].mem_start /\ n = ELF_SIZE /\ c = mem_i /\ Jobs[job].size = n
            /\ b = ELF_LOAD_ADDR
      BY Rooms DEF BInv, VarsInv
    <3>2. b + n <= LIBCSO_LOAD_ADDR /\ LIBCSO_LOAD_ADDR \in Nat /\ c < n
      BY <1>1, <3>1, Rooms
    <3>3. \A a \in Addr : a >= LIBCSO_LOAD_ADDR => a # b + c
      BY <3>2 DEF Addr
    <3> QED BY <1>1, <3>1, <3>3
  <2>3. lib_ret = 0 => Word(sd.card, "lib", 0) \in DOMAIN Headers /\ LibraryIn(sd.card, mem')
    BY <1>2, <2>1, <2>2, LibraryKept
  <2> QED BY <1>1, <2>1, <2>3 DEF LibraryInv
<1>6. ProgramInv'
  BY <1>1, <1>2 DEF ProgramInv
<1> QED
  BY <1>1, <1>3, <1>4, <1>5, <1>6 DEF LoadInv, WholeInv, StaysInside

LEMMA LibcsoStep ==
  ASSUME BInv, LoadInv, load_libcso
  PROVE  LoadInv'
<1>1. PICK l : l = load_shared_library(mem, LIBCSO_LOAD_ADDR, dynlinktbl)
  OBVIOUS
<1>2. /\ pc = "sd2mem_copy" /\ job = "lib" /\ mem_i = Jobs[job].size
      /\ mem' = l.mem /\ dynlinktbl' = l.tbl /\ lib_ret' = l.ret
      /\ sd' = sd /\ early' = early /\ newproc' = newproc
      /\ l.wild => pc' = "lost" /\ job' = job
      /\ ~l.wild => pc' = "sd2mem" /\ job' = "elf"
  BY <1>1 DEF load_libcso, Copied
<1>3. newproc.state # "READY" /\ sd.card \in Cards /\ dynlinktbl = <<>>
  BY <1>2 DEF LoadInv, StageInv
<1>4. l.wild => l.tbl = <<>>
  BY <1>1, <1>3 DEF load_shared_library
<1>5. StageInv' /\ WholeInv' /\ ProgramInv'
  BY <1>2, <1>3, <1>4 DEF StageInv, WholeInv, ProgramInv
<1>6. ASSUME ~early
      PROVE  /\ TableOf(sd.card, l.tbl)
             /\ l.ret = 0 => Word(sd.card, "lib", 0) \in DOMAIN Headers /\ LibraryIn(sd.card, l.mem)
             /\ l.wild => ~TableFits(Header(sd.card, "lib"))
  <2>1. mem_i = LIB_SIZE /\ mem_i > 0
    BY <1>2, Rooms
  <2>2. IsMemory(mem, Addr)
    BY <1>2, <2>1 DEF LoadInv, WholeInv
  <2>3. FileUpTo(mem_i)
    BY <1>2, <1>6 DEF BInv, CopyInv
  <2>4. \A k \in 0 .. LIB_SIZE - 1 : mem[LIBCSO_LOAD_ADDR + k] = Word(sd.card, "lib", k)
    BY <1>2, <2>1, <2>3, Rooms DEF FileUpTo, Word
  <2> QED BY <1>1, <1>3, <2>2, <2>4, LibraryLoader
<1>7. LibraryInv'
  BY <1>2, <1>6 DEF LibraryInv
<1>8. StaysInside'
  BY <1>2, <1>6 DEF StaysInside, HeaderOf, FileWord, Header, Word
<1> QED
  BY <1>5, <1>7, <1>8 DEF LoadInv

LEMMA LoadelfStep ==
  ASSUME BInv, LoadInv, loadelf
  PROVE  LoadInv'
<1>1. PICK l : l = load_dynamic_exec(mem, ELF_LOAD_ADDR, dynlinktbl)
  OBVIOUS
<1>2. /\ pc = "sd2mem_copy" /\ job = "elf" /\ mem_i = Jobs[job].size
      /\ mem' = l.mem /\ dynlinktbl' = dynlinktbl /\ lib_ret' = lib_ret
      /\ sd' = sd /\ job' = job /\ early' = early
      /\ l.wild => pc' = "lost" /\ newproc' = newproc
      /\ ~l.wild => /\ pc' = "run"
                   /\ newproc' = [state |-> "READY", pc |-> l.entry, sp |-> l.stack]
  BY <1>1 DEF loadelf, Copied, copying
<1>3. sd.card \in Cards /\ newproc.state # "READY" /\ (~l.wild => newproc'.pc = l.entry)
  BY <1>2 DEF LoadInv, StageInv
<1>4. StageInv' /\ WholeInv'
  BY <1>2, <1>3 DEF StageInv, WholeInv
<1>5. ASSUME ~early
      PROVE  /\ LibraryInv' /\ (l.wild => Misfit(sd.card))
             /\ ~l.wild => ProgramIn(sd.card, dynlinktbl, l.mem, newproc')
  <2>1. /\ TableOf(sd.card, dynlinktbl)
        /\ lib_ret = 0 => Word(sd.card, "lib", 0) \in DOMAIN Headers /\ LibraryIn(sd.card, mem)
    BY <1>2, <1>5 DEF LoadInv, LibraryInv
  <2>2. mem_i = ELF_SIZE /\ mem_i > 0
    BY <1>2, Rooms
  <2>3. IsMemory(mem, Addr)
    BY <1>2, <2>2 DEF LoadInv, WholeInv
  <2>4. FileUpTo(mem_i)
    BY <1>2, <1>5 DEF BInv, CopyInv
  <2>5. \A k \in 0 .. ELF_SIZE - 1 : mem[ELF_LOAD_ADDR + k] = Word(sd.card, "elf", k)
    BY <1>2, <2>2, <2>4, Rooms DEF FileUpTo, Word
  <2>6. PICK proc : proc.pc = l.entry
    <3>1. [pc |-> l.entry].pc = l.entry
      OBVIOUS
    <3> QED BY <3>1
  <2>7. /\ \A a \in Addr : a >= LIBCSO_LOAD_ADDR => l.mem[a] = mem[a]
        /\ ~l.wild => ProgramIn(sd.card, dynlinktbl, l.mem, proc)
        /\ l.wild => Misfit(sd.card)
    BY <1>1, <1>3, <2>1, <2>3, <2>5, <2>6, ProgramLoader
  <2>8. ~l.wild => ProgramIn(sd.card, dynlinktbl, l.mem, newproc')
    BY <1>3, <2>6, <2>7 DEF ProgramIn
  <2>9. lib_ret = 0 => LibraryIn(sd.card, l.mem)
    BY <1>3, <2>1, <2>7, LibraryKept
  <2> QED BY <1>2, <2>1, <2>7, <2>8, <2>9 DEF LibraryInv
<1>6. LibraryInv' /\ ProgramInv'
  BY <1>2, <1>3, <1>5 DEF LibraryInv, ProgramInv
<1>7. StaysInside'
  BY <1>2, <1>5 DEF StaysInside, HeaderOf, FileWord, Header, Word, Misfit
<1> QED
  BY <1>4, <1>6, <1>7 DEF LoadInv

LEMMA LInitInv == Init => LoadInv
<1> SUFFICES ASSUME Init PROVE LoadInv
  OBVIOUS
<1>1. PICK card \in Cards, ncd \in BOOLEAN : sd = PowerOn(ncd, card, [w \in WordIndex |-> 0])
  BY DEF Init
<1>2. sd.card = card
  BY <1>1 DEF PowerOn
<1>3. newproc.state = "UNDEF"
  BY DEF Init, NoProcess
<1> QED
  BY <1>2, <1>3 DEF Init, LoadInv, StageInv, WholeInv, LibraryInv, ProgramInv, StaysInside

LEMMA LNextInv == BInv /\ LoadInv /\ [Next]_vars => LoadInv'
<1> SUFFICES ASSUME BInv, LoadInv, [Next]_vars PROVE LoadInv'
  OBVIOUS
<1>1. sd'.card = sd.card /\ early \in BOOLEAN
  BY CardKept DEF BInv, VarsInv
<1>2. CASE UNCHANGED vars
  BY <1>1, <1>2, QuietStep DEF vars, copying
<1>3. CASE sdcard_to_memory
  <2>1. /\ UNCHANGED <<mem, job, loading>> /\ pc = "sd2mem" /\ pc' = "sd2mem_wait" /\ mem_i' = 0
        /\ early' = (early \/ sd.op # "IDLE")
    BY <1>3 DEF sdcard_to_memory, sd_blk_isdirty, sd_blk_isready, BInv, DeviceInv
  <2>2. early' \in BOOLEAN /\ (~early' => ~early)
    BY <1>1, <2>1, Zenon
  <2> QED BY <1>1, <2>1, <2>2, QuietStep
<1>4. CASE sd2mem_wait
  BY <1>1, <1>4, QuietStep DEF sd2mem_wait, copying
<1>5. CASE Controller
  BY <1>1, <1>5, QuietStep DEF Controller, copying
<1>6. CASE \/ RomStart \/ RomIssue \/ RomCopy \/ RomUart \/ memory_test \/ sdcard_init
           \/ uart_getchar
  BY <1>1, <1>6, EarlyStep
<1> QED
  BY <1>1, <1>2, <1>3, <1>4, <1>5, <1>6, WordStep, LibcsoStep, LoadelfStep
     DEF Next, Processor, Spin

\* From reset to the first process: the memory of the library and of the program, the
\* table of names and the process are what the files on the card ask for, at each
\* statement of sd_c_start.
THEOREM LoadInvariance == Spec => []LoadInv
  BY LInitInv, LNextInv, BootInvariance, PTL DEF Spec

\* A library that load_shared_library accepts is in memory as its file describes it,
\* with every relocation of rela.dyn and rela.plt done although it is done before the
\* second segment is moved over it, and the loading of the program, accepted or not,
\* leaves it there.
THEOREM LibraryLoaded == Spec => []LibraryImage
<1>1. LoadInv => LibraryImage
  BY LibraryImageIs DEF LoadInv, LibraryInv
<1> QED
  BY <1>1, LoadInvariance, PTL

\* The process that loadelf makes of a file that load_dynamic_exec accepts starts at its
\* entry point in a memory that holds both segments (the second one up to its last whole
\* word), relocated, and in each jump slot the address that the library gives the name,
\* if the clearing loop and the move overwrite nothing that is still needed.  That there
\* is a process at all is for the next theorem: the loader must have come back.
THEOREM ProgramLoaded == Spec => []ProgramImage
<1>1. LoadInv => ProgramImage
  BY ProgramImageIs DEF LoadInv, ProgramInv
<1> QED
  BY <1>1, LoadInvariance, PTL

\* load_shared_library and load_dynamic_exec follow no null pointer and write no entry
\* behind the end of a DynLinkTable while the symbols of the library and the imports of the
\* program fit the table and the sections that they are read from exist; nor does the last
\* loop of load_dynamic_exec read behind .rela.dyn while its section header is spared.
THEOREM NeverLost == Spec => []StaysInside
<1>1. LoadInv => StaysInside
  BY DEF LoadInv
<1> QED
  BY <1>1, LoadInvariance, PTL
=============================================================================
