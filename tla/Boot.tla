-------------------------------- MODULE Boot --------------------------------
(***************************************************************************)
(* From reset to the first process: the boot ROM (boot/bootrom/bootrom.c)  *)
(* copies the kernel from the SD card or lets the UART bring it, and       *)
(* sd_c_start (sdboot.c) sets the card up, waits for two keys, copies the  *)
(* C library and a program from the card to memory and has them loaded.    *)
(*                                                                         *)
(* One processor runs this code with interrupts off; what interleaves with *)
(* it is the card controller (SdCard) and the user at the keyboard.        *)
(***************************************************************************)
EXTENDS SdCard, Elf, FiniteSets

CONSTANTS
  MEM,                          \* words of PSRAM
  BOOT_SECTORS,                 \* 500 sectors that the boot ROM copies
  POLLS,                        \* 30000 times that sdcard_init asks for ready
  WarmUp, CLEARED,              \* the words c_start writes, and those it clears
  TestArea,                     \* the words that memory_test overwrites
  LIB_SD, LIB_SIZE, LIBCSO_LOAD_ADDR,  \* arguments of load_libcso
  ELF_SD, ELF_SIZE, ELF_LOAD_ADDR,     \* arguments of loadelf
  Cards                         \* the contents that the card may have

SECTOR_BYTES == 4 * SECTOR_WORDS
Addr == 0 .. MEM - 1
HOST == -2   \* a word of a kernel that came over the UART
NoProcess == [state |-> "UNDEF", pc |-> 0, sp |-> 0]

\* The files lie in memory behind each other, and on the card at whole sectors:
\* sdcard_to_memory takes bytes for words behind the start of one.
ASSUME LayoutAssumption ==
  /\ {MEM, LIB_SD, LIB_SIZE, LIBCSO_LOAD_ADDR, ELF_SD, ELF_SIZE, ELF_LOAD_ADDR} \subseteq Nat
  /\ BOOT_SECTORS \in 1 .. Sectors /\ POLLS \in Nat \ {0}
  /\ LIB_SIZE > 0 /\ ELF_SIZE > 0
  /\ LIB_SD % SECTOR_BYTES = 0 /\ ELF_SD % SECTOR_BYTES = 0
  /\ WarmUp \subseteq Addr /\ TestArea \subseteq Addr /\ CLEARED \in Nat
  /\ BOOT_SECTORS * SECTOR_WORDS <= ELF_LOAD_ADDR
  /\ ELF_LOAD_ADDR + ELF_SIZE <= LIBCSO_LOAD_ADDR /\ LIBCSO_LOAD_ADDR + LIB_SIZE <= MEM

ASSUME CardsAssumption == Cards \subseteq Card(Int)

Jobs ==
  [lib |-> [sd_start |-> LIB_SD, size |-> LIB_SIZE, mem_start |-> LIBCSO_LOAD_ADDR],
   elf |-> [sd_start |-> ELF_SD, size |-> ELF_SIZE, mem_start |-> ELF_LOAD_ADDR]]

\* Word w of the card, over all sectors.
CardWord(card, w) == card[w \div SECTOR_WORDS][w % SECTOR_WORDS]

\* The program header that each loader takes for the second LOAD segment, and the end
\* of the memory that it may use.
SecondLoad == [lib |-> 2, elf |-> 4]
RoomEnd == [lib |-> MEM, elf |-> LIBCSO_LOAD_ADDR]

\* What a linker makes: segments that do not overlap, and relocations of whole words of
\* the second one, no two of the same word.
Linked(h, p1, p2) ==
  /\ p1.p_filesz <= 4 * p2.p_offset /\ p2.p_filesz <= p2.p_memsz
  /\ \A k \in DOMAIN h.reladyn : h.reladyn[k].r_offset \in Second(p2)
  /\ \A k \in DOMAIN h.relaplt : h.relaplt[k].r_offset \in Second(p2)
  /\ \A k, l \in DOMAIN h.reladyn : h.reladyn[k].r_offset = h.reladyn[l].r_offset => k = l
  /\ \A k, l \in DOMAIN h.relaplt : h.relaplt[k].r_offset = h.relaplt[l].r_offset => k = l
  /\ \A k \in DOMAIN h.reladyn, l \in DOMAIN h.relaplt :
       h.reladyn[k].r_offset # h.relaplt[l].r_offset

\* The file lies on the card as far as the segments and the section header go, and
\* there is room for the segment and for the words that ClearTail clears.
Stands(card, j) ==
  LET word(k) == CardWord(card, Jobs[j].sd_start \div 4 + k)
      h  == Headers[word(0)]
      p1 == h.phdr[SecondLoad[j] - 1]
      p2 == h.phdr[SecondLoad[j]]
      room == 4 * (RoomEnd[j] - (Jobs[j].mem_start + p2.p_vaddr))
  IN  word(0) \in DOMAIN Headers =>
        /\ Len(h.phdr) >= SecondLoad[j] /\ Linked(h, p1, p2)
        /\ 4 * p2.p_offset + p2.p_filesz <= 4 * Jobs[j].size
        /\ p2.p_memsz <= room /\ 2 * (p2.p_memsz - p2.p_filesz) <= room
        /\ h.sh_reladyn < Jobs[j].size /\ word(h.sh_reladyn) = Len(h.reladyn)

ASSUME FilesAssumption == \A card \in Cards, j \in {"lib", "elf"} : Stands(card, j)

VARIABLES
  sd, mem,
  pc,                            \* the statement the processor is at, or "lost"
  i,                             \* sector of c_start, polls of sdcard_init, keys
  job,                           \* the copy that sdcard_to_memory does
  curr_sec, curr_offset, mem_i,  \* its variables
  dynlinktbl, lib_ret,           \* of load_shared_library
  newproc,                       \* the process that loadelf makes
  early                          \* history: the copy began while the card was busy

copying == <<job, curr_sec, curr_offset, mem_i, early>>
loading == <<dynlinktbl, lib_ret, newproc>>
vars == <<sd, mem, pc, i, copying, loading>>

Init ==
  /\ \E card \in Cards, ncd \in BOOLEAN :
       sd = PowerOn(ncd, card, [w \in WordIndex |-> 0])
  /\ mem = [a \in Addr |-> 0]
  /\ pc = "reset" /\ i = 0
  /\ job = "lib" /\ curr_sec = 0 /\ curr_offset = 0 /\ mem_i = 0
  /\ dynlinktbl = <<>> /\ lib_ret = 0 /\ newproc = NoProcess
  /\ early = FALSE

-----------------------------------------------------------------------------
(* The boot ROM.                                                            *)

\* c_start warms the PSRAM up with a pattern and asks whether there is a card.
RomStart ==
  /\ pc = "reset"
  /\ mem' = [a \in Addr |-> IF a \in WarmUp THEN a ELSE mem[a]]
  /\ pc' = IF sd.ncd THEN "rom_uart" ELSE "rom_issue"
  /\ UNCHANGED <<sd, i, copying, loading>>

RomIssue ==
  /\ pc = "rom_issue" /\ sd_blk_isready(sd)
  /\ sd' = sd_blk_load(sd_blk_ioctl(sd, i))
  /\ pc' = "rom_copy"
  /\ UNCHANGED <<mem, i, copying, loading>>

RomCopy ==
  /\ pc = "rom_copy" /\ sd_blk_isready(sd)
  /\ mem' = [a \in Addr |->
               IF a \div SECTOR_WORDS = i THEN cache(sd, a % SECTOR_WORDS) ELSE mem[a]]
  /\ IF i + 1 < BOOT_SECTORS THEN pc' = "rom_issue" /\ i' = i + 1
                             ELSE pc' = "kernel" /\ i' = 0
  /\ UNCHANGED <<sd, copying, loading>>

\* Without a card: clear, and stop until the serial boot DMA has brought a kernel.
RomUart ==
  /\ pc = "rom_uart"
  /\ mem' = [a \in Addr |-> IF a < CLEARED THEN 0
                            ELSE IF a < BOOT_SECTORS * SECTOR_WORDS THEN HOST ELSE mem[a]]
  /\ pc' = "kernel"
  /\ UNCHANGED <<sd, i, copying, loading>>

-----------------------------------------------------------------------------
(* sd_c_start.                                                              *)

memory_test ==
  /\ pc = "kernel"
  /\ mem' = [a \in Addr |-> IF a \in TestArea THEN a ELSE mem[a]]
  /\ pc' = "sdcard_init"
  /\ UNCHANGED <<sd, i, copying, loading>>

\* sdcard_init gives up after POLLS polls, and boot goes on either way.  The load of
\* sector 0 is started, not awaited.
sdcard_init ==
  /\ pc = "sdcard_init"
  /\ IF sd_blk_isready(sd)
     THEN sd' = sd_blk_load(sd_blk_ioctl(sd, 0)) /\ pc' = "keys" /\ i' = 0
     ELSE /\ IF i + 1 = POLLS THEN pc' = "keys" /\ i' = 0 ELSE pc' = pc /\ i' = i + 1
          /\ UNCHANGED sd
  /\ UNCHANGED <<mem, copying, loading>>

\* Two characters are read.  Nothing orders them after the load of sector 0.
uart_getchar ==
  /\ pc = "keys"
  /\ i' = i + 1
  /\ pc' = IF i = 1 THEN "sd2mem" ELSE pc
  /\ UNCHANGED <<sd, mem, copying, loading>>

\* sdcard_to_memory up to its first wait.  Any write back is not awaited.
sdcard_to_memory ==
  /\ pc = "sd2mem"
  /\ LET sd1 == IF sd_blk_isdirty(sd) THEN sd_blk_writeback(sd) ELSE sd
         sec == Jobs[job].sd_start \div SECTOR_BYTES
     IN  /\ curr_sec' = sec
         /\ curr_offset' = Jobs[job].sd_start % SECTOR_BYTES  \* bytes, used for words
         /\ sd' = sd_blk_load(sd_blk_ioctl(sd1, sec))
         /\ early' = (early \/ ~sd_blk_isready(sd1))
  /\ mem_i' = 0
  /\ pc' = "sd2mem_wait"
  /\ UNCHANGED <<mem, i, job, loading>>

\* Mutant: the wait is missing.
sd2mem_wait_Not ==
  /\ pc = "sd2mem_wait" /\ pc' = "sd2mem_copy"
  /\ UNCHANGED <<sd, mem, i, copying, loading>>

sd2mem_wait ==
  /\ pc = "sd2mem_wait" /\ sd_blk_isready(sd)
  /\ pc' = "sd2mem_copy"
  /\ UNCHANGED <<sd, mem, i, copying, loading>>

\* The loop of sdcard_to_memory, given its condition and the address of a sector: one
\* word; behind the last one of a sector the next sector is loaded, wanted or not.
CopyWord(more, address(_)) ==
  /\ pc = "sd2mem_copy" /\ more
  /\ mem' = [a \in Addr |-> IF a = Jobs[job].mem_start + mem_i THEN cache(sd, curr_offset)
                                                              ELSE mem[a]]
  /\ mem_i' = mem_i + 1
  /\ IF curr_offset + 1 = SECTOR_WORDS
     THEN /\ curr_offset' = 0 /\ curr_sec' = curr_sec + 1
          /\ sd' = sd_blk_load(sd_blk_ioctl(sd, address(curr_sec + 1)))
          /\ pc' = "sd2mem_wait"
     ELSE /\ curr_offset' = curr_offset + 1 /\ UNCHANGED <<curr_sec, sd, pc>>
  /\ UNCHANGED <<i, job, early, loading>>

\* Mutant: the card addressed by byte.
sd2mem_copy_Bytes == CopyWord(mem_i < Jobs[job].size, LAMBDA s : s * SECTOR_BYTES)

sd2mem_copy == CopyWord(mem_i < Jobs[job].size, LAMBDA s : s)

Copied == pc = "sd2mem_copy" /\ mem_i = Jobs[job].size

\* load_libcso does not look at the result of the loader.
load_libcso ==
  /\ Copied /\ job = "lib"
  /\ \E l \in {load_shared_library(mem, LIBCSO_LOAD_ADDR, dynlinktbl)} :
       /\ mem' = l.mem /\ dynlinktbl' = l.tbl /\ lib_ret' = l.ret
       /\ IF l.wild THEN pc' = "lost" /\ job' = job ELSE pc' = "sd2mem" /\ job' = "elf"
  /\ UNCHANGED <<sd, i, curr_sec, curr_offset, mem_i, early, newproc>>

\* Neither does new_process_from_elf_in_memory: the process is made whenever the loader
\* comes back.
loadelf ==
  /\ Copied /\ job = "elf"
  /\ \E l \in {load_dynamic_exec(mem, ELF_LOAD_ADDR, dynlinktbl)} :
       /\ mem' = l.mem
       /\ IF l.wild THEN pc' = "lost" /\ newproc' = newproc
          ELSE pc' = "run" /\ newproc' = [state |-> "READY", pc |-> l.entry, sp |-> l.stack]
  /\ UNCHANGED <<sd, i, copying, dynlinktbl, lib_ret>>

\* The loops that wait: for the card, and for the first timer interrupt; and a processor
\* of which nothing more is known.
Spin ==
  /\ \/ pc \in {"rom_issue", "rom_copy", "sd2mem_wait"} /\ ~sd_blk_isready(sd)
     \/ pc \in {"run", "lost"}
  /\ UNCHANGED vars

Controller ==
  /\ \/ Initialised(sd) /\ sd' = Idle(sd)
     \/ Transfers(sd) /\ sd' = Transfer(sd)
     \/ Finished(sd) /\ sd' = Idle(sd)
  /\ UNCHANGED <<mem, pc, i, copying, loading>>

Processor ==
  \/ RomStart \/ RomIssue \/ RomCopy \/ RomUart
  \/ memory_test \/ sdcard_init
  \/ sdcard_to_memory \/ sd2mem_wait \/ sd2mem_copy \/ load_libcso \/ loadelf

Next == Processor \/ uart_getchar \/ Controller \/ Spin
Spec == Init /\ [][Next]_vars

\* The processor and the controller have clocks of their own; the user has to type.
FairSpec == Spec /\ WF_vars(Processor) /\ WF_vars(Controller) /\ WF_vars(uart_getchar)

-----------------------------------------------------------------------------

\* c_start jumps to a kernel that is, word for word, the first sectors of the card:
\* it never copies a buffer that the controller is still filling.
KernelCopied ==
  pc = "kernel" /\ ~sd.ncd =>
    \A a \in 0 .. BOOT_SECTORS * SECTOR_WORDS - 1 : mem[a] = CardWord(sd.card, a)

\* When sdcard_to_memory returns, memory holds the words of the card from sd_start on,
\* unless both keys were typed before the card had delivered sector 0: the first address
\* is then ignored.
FilesCopied ==
  Copied /\ ~early => \A k \in 0 .. Jobs[job].size - 1 :
              mem[Jobs[job].mem_start + k] = CardWord(sd.card, Jobs[job].sd_start \div 4 + k)

\* Kernel and files come from the card exactly, and the copying loop never indexes the
\* buffer behind its end or goes beyond its size; nor does the controller's counter.
CopiedExact ==
  /\ KernelCopied /\ FilesCopied
  /\ sd \in Device(Int)
  /\ curr_offset \in WordIndex
  /\ pc \in {"sd2mem_wait", "sd2mem_copy"} => mem_i \in 0 .. Jobs[job].size

-----------------------------------------------------------------------------
(* What an ELF file asks for: the word of its image at address v, where     *)
(* place(r) is the value that the jump slot r must get.                      *)

FileWord(j, k) == CardWord(sd.card, Jobs[j].sd_start \div 4 + k)
HeaderOf(j) == Headers[FileWord(j, 0)]
IsFile(j) == FileWord(j, 0) \in DOMAIN Headers

ImageWord(j, p, v, place(_)) ==
  LET h == HeaderOf(j)
      base == Jobs[j].mem_start
      dyn == {k \in DOMAIN h.reladyn : h.reladyn[k].r_offset = v}
      plt == {k \in DOMAIN h.relaplt : h.relaplt[k].r_offset = v}
  IN  CASE dyn # {} -> LET r == h.reladyn[CHOOSE k \in dyn : TRUE]
                       IN  base + symval(h, r) + r.r_addend
        [] dyn = {} /\ plt # {} -> place(h.relaplt[CHOOSE k \in plt : TRUE])
        [] OTHER -> FileWord(j, p.p_offset + v - p.p_vaddr)

\* The clearing loop runs before the copy: this is when it spares what is to be copied,
SourceSpared(p) == \A c \in Cleared(p) : p.p_offset + CopiedWords(p) <= c
\* and this when the section header is not overwritten.
HeaderSpared(h, p) == h.sh_reladyn \notin Second(p) \cup Cleared(p)

\* The files that load_dynamic_exec accepts: it returns 0, if it returns.
ExecOK ==
  LET h == HeaderOf("elf")
  IN  HeaderOK(FileWord("elf", 0)) /\ SegmentsOK(h, 3, 4) /\ JumpSlots(h) = h.relaplt

\* The first segment, and the whole words of the second one.
Text(p) == 0 .. (p.p_filesz + 3) \div 4 - 1
SegmentsLoaded(j, p1, p2, place(_)) ==
  LET base == Jobs[j].mem_start
      Place(r) == place(r)
  IN  /\ \A v \in Text(p1) : mem[base + v] = FileWord(j, v)
      /\ \A v \in Second(p2) : mem[base + v] = ImageWord(j, p2, v, Place)

\* A library that load_shared_library accepts is in memory as its file describes it,
\* relocated, and stays so while the program is loaded.
LibraryImage ==
  job = "elf" /\ pc # "lost" /\ lib_ret = 0 /\ ~early =>
    LET h == HeaderOf("lib")
        Slot(r) == LIBCSO_LOAD_ADDR + symval(h, r)
    IN  SourceSpared(h.phdr[2]) => SegmentsLoaded("lib", h.phdr[1], h.phdr[2], Slot)

\* The process that loadelf makes finds its segments in memory as its file describes
\* them, every import bound to the library's function of that name (or -1 if there is
\* none), and starts at its entry point: whenever the file is one that the loader accepts,
\* laid out so that it does not overwrite what it has yet to read.
ProgramImage ==
  newproc.state = "READY" /\ ~early =>
    LET h == HeaderOf("elf")
        p == h.phdr[4]
        lib == HeaderOf("lib")
        exported(name) == {k \in DOMAIN lib.dynsym : lib.dynsym[k].st_name = name}
        first(S) == CHOOSE k \in S : \A l \in S : k <= l
        Import(r) ==
          LET name == h.dynsym[r.r_sym].st_name
          IN  IF ~IsFile("lib") \/ dynlinktbl = <<>> \/ exported(name) = {} THEN -1
              ELSE LIBCSO_LOAD_ADDR + lib.dynsym[first(exported(name))].st_value
    IN  ExecOK /\ SourceSpared(p) /\ HeaderSpared(h, p) =>
          /\ SegmentsLoaded("elf", h.phdr[3], p, Import)
          /\ newproc.pc = ELF_LOAD_ADDR + h.e_entry

\* The loader neither follows a pointer that nobody set nor leaves its tables, those of
\* the file and those it fills, if the library's symbols fit the table of names and have
\* names, and if the program has its sections, its imports fit the table on the stack and
\* the move spares the section header that the last loop reads again and again.
StaysInside ==
  pc = "lost" /\ ~early =>
    LET h == HeaderOf(job)
    IN  CASE job = "lib" -> ~TableFits(h)
          [] job = "elf" -> ~(ImportsFit(h) /\ RelocationsFound(h) /\ HeaderSpared(h, h.phdr[4]))

\* With a card in the slot, boot reaches the processes, unless the loader loses it: no
\* wait for the card, the one for the sector behind the last one wanted included, lasts
\* forever.
BootFinishes == ~sd.ncd ~> pc \in {"run", "lost"}
=============================================================================
