# TLA+ specifications of pComputer

pComputer is a computer built from scratch: **pCPU**, a RISC-V system on a chip in
Verilog (`src/pCPU/src/rtl`), and **pseudOS**, a microkernel in C with its daemons
(`src/pseudOS`). This directory specifies the parts of both whose correctness
depends on interleaving, ordering and the sequence of calls, the way from reset to
the first process, the file system driver and the benchmark program. TLC checks
them on small instances; TLAPS proves the main invariants for every instance.

`PROJECT.json` is the machine-readable index: components, runs, the mutants that
show that each property can fail, the map from definitions to source lines, the
findings, the hazards and the theorems.

## 1. The system and its parts

| Part | State | Operations | Talks to |
|---|---|---|---|
| Process manager and IPC (`kernel/process.c`, `syscall.c`, `isr.c`) | process table (pid, state, saved registers, IPC fields, sending queues), running process, ticks | boot, timer interrupt, ecalls SEND / RECEIVE / non-blocking SEND, scheduler | every process, by ecall; the CPU, by traps |
| I/O queue (`fs/ioqueue.c`) | ring buffer, head, tail | enqueue, dequeue, full, empty | shared memory between FS and TTY0 |
| FS and TTY daemons (`fs/fs.c`, `fs/tty.c`) | current message, current request, pointer to the queue | request by descriptor, by path, notify, resume; serve | messages through the kernel, the shared queue |
| Interrupt unit (`interrupt_unit.v`) | masks, input registers, saved requests, device number, state | gather, issue, reply, mask write | request lines of the devices, `privilege.v` |
| Machine mode registers (`privilege.v`) | mstatus, mie, mepc, mcause, interrupt state machine | CSR write, trap entry, mret, interrupt delivery | CPU phases, interrupt unit |
| Multi-cycle CPU (`riscv-multicyc.v`) | phase, pc, oldpc, instruction | one phase per clock | bus, `privilege.v`, multiplier |
| Cache (`cache_cpu.v`, `cacheway.v`) | tags, block RAM, state machine, counters | hit, write-back, load | CPU bus, memory controller |
| Burst memory controller (`memory_controller.v`) | state, byte and word counters | burst read, burst write | cache, PSRAM |
| SD card (`sdcard.v`, `sd_controller.v`, `sdcard_blk.c`) | sector buffer, dirty bit, address, transfer counter | set address, load, write back, transfer a word | boot ROM and kernel, by registers and polling |
| Boot ROM and kernel start (`bootrom.c`, `sdboot.c`) | memory, loop counters, the copy in progress | copy the kernel, initialise the card, read keys, copy and load files | SD card, UART, ELF loader |
| ELF loader (`kernel/elf.c`) | the image in memory, the table of exported names | check, relocate, clear and move the second segment, link | called by kernel start |
| Block layer (`kernel/blk.c`, `host/fd_blk.c`) | one cached sector | read a byte range | FAT32 driver, disk image |
| FAT32 driver (`fs/fat32.c`) | where FAT and clusters begin | init, read | block layer |
| CoreMark (`pCPU/coremark`) | list, matrices, text block, checksums | initialise, iterate, report | runs alone on the CPU |
| Serial boot, UART, timer, USB, other devices | see `PROJECT.json` | | inputs of other modules or left out, see 9 |

What is hard about them: the kernel is entered by traps at any instruction, and
its queues and asserts must survive every order of calls; a system call on a
terminal passes through three processes, one shared buffer and a notification that
may be dropped; an interrupt passes through the registers of three state machines
that answer each other one clock late while the CPU goes on executing; a cache miss
overlaps a write-back, a load and the pending request in one counter; the card fills
its buffer while the processor goes on, and ignores what it is told meanwhile; the
loader works in place on the file that it is still reading; CoreMark relinks, overwrites
and corrupts its data and counts on having restored it. Hardly anything in the
repository tests any of these orders. The `hazards` list names the line where
each of them bites.

What makes the parts correct: queues hold exactly the blocked senders, no message
is missed, a resumed process has finished its IPC, nobody starves, IPC is a
rendezvous; the ring buffer is a FIFO; a system call is in one place, gets its own
answer and returns; the clocked CPU executes instructions one at a time with precise
traps; the interrupt that is delivered is the one that was requested; cache and
memory controller are a memory; what boot copies is what the card holds, and what it
loads is what the files describe; a file read is the file's contents, and returns;
CoreMark's checksums are the known ones and its data is restored after every round.

## 2. Modules

| Module | Models |
|---|---|
| `Process` | the kernel: one action per path of a trap handler, each ending in `proc_schedule` as in the code |
| `ProcessInv` | what the kernel guarantees, and `TopologyAssumption`, the call patterns for which it does |
| `Rendezvous`, `ProcessRefinement` | the abstract IPC, and the kernel's refinement mapping to it |
| `IOQueue`, `BoundedFIFO` | the ring buffer and the FIFO it implements |
| `FsTty` | user processes, FS and TTY0 over `Rendezvous` and `IOQueue` |
| `InterruptUnit`, `Privilege`, `Cpu` | the three RTL modules, one clock edge per step |
| `Isa` | the instruction set, one instruction per step: what software relies on |
| `Soc` | the three clocked together, with arbitrary device requests and the trap handler of pseudOS as program |
| `Cache`, `MemoryController`, `CacheSystem` | the memory path, with the CPU's side of the bus |
| `Memory` | the memory it implements |
| `SdCard` | the card, its controller and the driver: a record, and operators from device to device |
| `Elf` | the loader's two functions on an image in memory |
| `Boot` | boot ROM and `sd_c_start` over `SdCard` and `Elf`, with the card controller and the user at the keyboard as other actors |
| `Blk`, `Fat32` | the block layer on a disk image, and the driver on top of it, one step per disk access |
| `Crc`, `CoreState`, `CoreMatrix` | CoreMark's checksum, scanner and matrix benchmark as operators |
| `CoreMark` | its list on a heap of nodes, the benchmarks that comparing two items starts, `iterate` and `main` |
| `ProcessProofs`, `RendezvousProofs`, `IOQueueProofs`, `FsTtyProofs`, `SocProofs`, `CacheProofs`, `BootProofs`, `Fat32Proofs` | the theorems about the module of that name, see 5 |
| `MC*` | instances for TLC |

Composition: `FsTty` uses the abstract `Rendezvous` instead of `Process`; that
`Process` implements it is what `ProcessRefinement` states and `RendezvousProofs` proves, so the daemons are
verified against what the kernel was shown to provide. `Soc` EXTENDS `Cpu` (which
EXTENDS `Privilege`) and `InterruptUnit`. `CacheSystem` instances `MemoryController`
and, for the refinement, `Memory`. `Boot` EXTENDS `SdCard` and `Elf`, `Fat32` EXTENDS
`Blk`, and `CoreMark` EXTENDS `CoreState` and `CoreMatrix`, which EXTEND `Crc`.

### How state and actions correspond to the code

*Process.* A field of `struct Process` is a function over table indices; pointers are
indices or `NULL`. Handlers run with interrupts off, so a trap is one step.
`msg_send_direct`, `msg_send_nonblock_fail`, `msg_send_block`, `msg_receive_any`,
`msg_receive_from` and `msg_receive_block` are the branches of `_msg_send` and
`_msg_receive`; a failed `assert` sets `kstatus` to "panic", a loop that does not end
to "hang". Process bodies are replaced by "any call that the topology allows, at any
time". Message contents are model values plus the source, which the kernel stamps.

*FsTty.* One step per C statement outside `cli()/sti()`, or per such section. The
characters and the device are left out: a transfer is a value that the answer must
bring back. `FsStart` takes the delay loop with which FS begins to outlast the start of
TTY0; nothing else in the code orders the two (see 7).

*Soc.* A step is one rising clock edge; a Verilog register is a variable, a wire is an
operator. Instructions are records that say how they use the machine; data is left
out, so a branch on data goes either way. Addresses count instructions (pc + 1 for
pc + 4). `mtvec` is a constant because it is written once before interrupts are on.
A device line is high for one clock at a time, as the drivers make it. `cli` and `sti` are
calls of `csrw_mstatus` (`Call`): a jump, the CSR instruction and the return. The history
variable `since` counts the instructions completed since MIE was last cleared. The read
multiplexer of `privilege.v` combines constants that the code declares as don't-care;
they are taken as 1, the value for which reading a register returns it. The software
interrupt cannot occur: no code sets its pending bit. `ebreak` makes the kernel panic and is
not in the programs.

*CacheSystem.* A step is one edge of the CPU's clock. `clk_mem` is twice as fast, and
the controller stretches its ready pulse so that it is seen once; `MemoryController`
is written in the CPU's clock accordingly. The PSRAM chip is an array, and how long
a nibble takes is open. The hit and miss counters are left out. A request during the
clearing of the tags is excluded, because the boot ROM, which bypasses the cache,
runs first.

*SdCard, Elf, Boot.* The device is a record, so that a driver statement such as
`sd->ioctl(...)` is an operator on it; a write to its registers while a transfer runs is
ignored, as in `sdcard.v`. The SPI exchange with the card is abstracted to its outcome:
the card is initialised, a word is transferred, or (no card, no such sector) nothing ever
happens. `Boot` has one step per poll and per word copied. The loader runs with nobody
else writing memory, so `load_shared_library` and `load_dynamic_exec` are operators from
memory to memory; addresses are counted in words, the sizes of segments in bytes, and headers
and tables, which lie in the segment that is never written, are a record per file. The loops
that clear and copy go by words and leave out a rest of less than one, as in the code. Where
the code follows the pointer of a section that was not found, writes behind the end of a
`DynLinkTable` or reads behind the end of `.rela.dyn`, boot is "lost": what happens then is
not modelled. The one field that is read again
after memory has been moved over it (elf.c:484) is a word of memory. What the
serial boot DMA brings is one step.

*Blk, Fat32.* The driver as the host build runs it, on a disk image; a cell is a byte of
data, a FAT entry or a directory record, and every access goes through
`blk_seek_and_read` and its one-sector cache. The byte `rec_ext[3]`, read before it is
set, may be a blank or not. End marks are scaled from 28 bits to four. `DiskAssumption`
says what a FAT32 disk is (whole sectors; a partition table that leads to the boot
sector; FAT entries for all clusters that are named; chains and contents in their place;
no two files of one name), and `CallsAssumption` that seek + size does not overflow.

*CoreMark.* Values are those of the program, bit for bit: `data16` is kept as an unsigned
16-bit number, pointers are node numbers, and the known checksums in `core_main.c`
come out of the model. A step is one statement group of a list function (one insertion, one
item of a merge, one search), one token of the scanner, or one matrix benchmark.
`core_list_find` and `core_list_reverse` are operators over the path of nodes. The
history variable `seen` keeps what the properties compare with. What `main` prints and
measures is left out.

## 3. Runs that pass

| Run | Instance | Shows |
|---|---|---|
| `ipc_shipped` | one idle process, the user process, FS, TTY0, an unregistered FSS0; two payloads; two ticks per slice | every interleaving of ticks and ecalls keeps table and queues consistent (`QueueExact`, `BlockedWaits`, `OneRunning`), trips no assert (`NoHalt`), resumes only processes whose IPC is done (`ResumedIpcDone`), misses no message, starves nobody and implements the rendezvous |
| `fs_tty` | two user processes, terminal and file calls, capacity one | the ring buffer is a FIFO across every wrap (`ImplementsFIFO`); each terminal call is in exactly one place (`InOnePlace`), gets its own answer (`RightAnswer`), and returns unless TTY0 sleeps on a request (`AnsweredUnlessAsleep`); no tested queue operation fails (`NoPanic`) |
| `soc_plain` | timer and UART against loads, stores, multiplication, branches, jumps and the handler | the clocked CPU implements `Isa!Spec`; requests are held (`RequestHeld`); a tick is served (`TickServed`) |
| `soc_mixed` | timer against code with `cli`, `sti` and `ecall` | traps stay precise (`Isa!PreciseSpec`), and a late interrupt displaces one of the two instructions executed after MIE was cleared, of which the return from `cli` is one (`LateByTwoInstructions`) |
| `cache` | three blocks of two words, two lines, two word contents, arbitrary tags at power on | `ImplementsMemory`: whatever is evicted, written back and loaded, a read returns what was written last; a clean line equals memory (`CleanIsInMemory`) |
| `cache_live` | four blocks of four words, two lines, contents left out | no burst command is given while the controller cannot hear it (`CommandsHeard`), every request is answered |
| `boot` | 44 words of memory, sectors of two words, 2 sectors of kernel; with and without a card; 42 pairs of library and program that differ in gap, size and tail of the second segment, in the place of the section header, and in what makes the loader refuse them or get lost (sections that are missing, names that are too many or too long, with a table of two entries); keys at any time | kernel and files in memory are the card's (`CopiedExact`); an accepted library is relocated and stays intact (`LibraryImage`); the first process has its image, its imports and its entry point (`ProgramImage`); the loader is lost only with files that do not fit its tables or lack sections, or whose section header it overwrites (`StaysInside`); with a card, boot ends (`BootFinishes`) |
| `fat32` | seven disks with deleted and long-name records, subdirectories, directories of two clusters, fragmented and empty files, another end mark, two sectors per cluster; 64 calls each | a byte range read is the disk's (`BlockReadExact`); what is delivered is the file's contents (`ReadRight`); files are found (`FileFound`); every call returns (`EveryReadReturns`) |
| `coremark` | the seeds of the performance, validation and profile runs and two small sets; two iterations | the checksums are the known ones (`KnownResults`); list and blocks are restored (`Restored`); no node is lost at any point and a remove is undone (`NothingLost`); the sort keeps its loop invariant and is stable (`SortRight`); tokens are classified as their grammar says, and the scanner stays in its block (`ScanRight`) |

### Why the bounds are enough

*Process*: queues longer than two are excluded by the topology of the shipped system
(and are what the violation runs are about); two senders, a specific and an ANY
receiver, a notifier and a missing target are all the patterns it has. *FsTty*:
capacity one makes the queue full and wrapped at once (the theorems cover every
length), two users make answers confusable, transfers alternate between two values
so that a stale answer differs. *Soc*: each kind of control path of the CPU is in code of at most
ten instructions that loops, and requests may come in every clock. Two devices suffice for
priority; the others are treated alike. *Cache*: blocks 0 and 2 share a line, block 1
has its own; two words per block are the shortest burst that has a next word, four
show the middle of a burst. The 16-bit counter keeps its width. *Boot*: files of several sectors
that end with a sector and inside one; the gap between file and memory place of the
second segment is zero, smaller and as large as the segment, so that the move overlaps or
not; sizes are whole words and not; a table of two entries is exactly filled and too small;
two polls are enough for the card to be early or late. *Fat32*: sectors and clusters are as
small as leaves reads inside, across and up to the end of both. *CoreMark*: the run is
deterministic for given seeds; the three shipped sets are complete, not scaled, and
the small ones have an odd number of searches and a zero byte that is corrupted.

### Fairness

*Process*: boot is straight-line code, then the timer ticks; nothing is assumed of the
processes. *FsTty*: FS, TTY0 and a user process inside a call make progress, which
is `NoStarvation` of the kernel; the terminal is typed at; users need not make
calls. *Boot*: processor and controller run on clocks of their own, and the user types; a
card that is present answers. *Fat32*: the call runs. *CoreMark* needs none. *Soc*: the clock runs, memory and the multiplier answer (for memory,
`EveryRequestAnswered` of the cache). *CacheSystem*: the clock runs and the PSRAM
transfers bytes. Weak fairness everywhere. Deadlock is checked except in `FsTty`,
where users may stop making calls and lost wakeups stop everything.

## 4. Runs that fail, and what they say

Each checks one statement of a comment or document against the code.

| Run | Statement | What happens |
|---|---|---|
| `ipc_two_users` | a blocked sender is in the queue | the search for the end of the queue tests the wrong link, so a third sender overwrites the link to the second. The shipped system has two senders; a second user process makes three |
| `fs_tty_wakeup` | every call is answered | the notification between TTY0's test of its queue and its RECEIVE is dropped |
| `soc_ecall` | the handler is not re-entered | a request sampled two clocks before an ecall is taken in the handler, overwriting mepc and mcause |

`fs_tty` with its two users goes beyond the shipped single user process; it is run over
the rendezvous as specified, that is, as if the queue defect of `ipc_two_users` were
repaired.

Further disagreements that the models show and that have no run of their own:

- *FS waits for room.* fs.c:139-142 says that FS answers 0 at once if there is no room; at fs.c:70 it spins while
  the queue is full. With three user processes it spins while TTY0, which would make room,
  blocks sending to it, and neither goes on.
- *The device number is late.* interrupt_unit.v:120 sets it when the next request is issued; a
  second device can replace it before the handler of the first has read it.
- *An ecall skips an instruction.* `syscall_handler` adds 4 to mepc (syscall.c:37) and the
  processor has stored the address of the next instruction already
  (riscv-multicyc.v:618). `Isa` says what the hardware does;
  the instruction that is skipped in the kernel's wrapper is `li a0, 0` (sdboot.S:211).
- *Keys typed ahead.* blk.h:15-16 says that the OS will wait if need be; `sdcard_to_memory`
  (sdboot.c:81) does not wait before its first load, so that with both keys typed before the
  card has delivered sector 0, sector 0 is loaded in place of the first sector of the
  library. Self-tests and printing come between, so it takes a slow card. The properties of
  `boot` say `~early` for this case.
- *The cleared tail.* elf.c:315 starts clearing at memsize - filesize instead of at filesize.
  `SourceSpared` and `HeaderSpared` say which layouts the loader handles all the same.
- *Unchecked tables.* `load_dynamic_exec` does not test that it found its sections, as
  `load_shared_library` does at elf.c:254, and neither tests that the names fit the table
  (elf.h:128-138); elf.c:466 leaves out the bytes behind the last whole word.
- *A number without a point.* core_state.c:104, 145 counts "-87e+832" among the scientific
  numbers; the scanner (core_state.c:225) wants a point before the exponent and calls it invalid.
  The grammar of `ScanRight` is the scanner's.
- *End marks.* fat32.c:89 knows one of the eight values that end a chain; a disk with another one is
  in the run `fat32`, where the read returns, but need not find the file.

Two more patterns break the queue code and are the reason why `TopologyAssumption`
excludes them: a receiver that waits for a particular one of several senders
(process.c:435 takes an entry out of the middle by changing queue heads instead of
links), and a second sender to a process that has a successor in a queue itself (the
search at process.c:334 then runs off the list; `Process` models this as "hang").

## 5. What is proved

**Process manager** (`ProcessProofs`). From `TableAssumption` (a table of any size
with process 1 idle), `RoomAssumption` (loadelf finds free entries), `CallAssumption`
(idle processes make no calls, nobody calls itself) and `TopologyAssumption` (at most
two senders to one destination, a specific receiver has one sender, a process with
two senders is the only sender of those it sends to): `Invariance`, and from it
`TypeCorrect`, `NeverHalts`, `OneProcessRuns`, `ResumedOnlyWhenDone`, `QueuesExact`,
`BlockedProcessWaits`, `NoMessageMissed`.
The inductive invariant `IInv` joins all of them: that no assert fails needs
`ResumedIpcDone` for the caller's fields and `QueueExact` for the sender's; exact queues
need `BlockedWaits` to bound their length through the topology; `ResumedIpcDone` needs
`OneRunning` and a live idle process, because `proc_getnext` falls back on the process
that has just blocked when it finds nobody. `ScheduleStep` says once what
`proc_schedule` does to any table that a handler leaves; each handler then has a lemma.

**Ring buffer** (`IOQueueProofs`). For every length: `QueueHoldsRequests` and
`QueueIsFIFO`, the refinement to `BoundedFIFO`. The invariant says that the slots from
head to tail hold requests and all others ZERO; lemmas on remainders do without
induction.

**IPC** (`RendezvousProofs`). `RendezvousImplemented`: every trap handler is one step of the
abstract rendezvous or invisible to it. Besides the assumptions above it needs
`ServerAssumption` (a process that is received from by name is one that
`prepare_processes` registers, as FS is). The mapping reads off the table in which call a
process is blocked and who waits in whose queue; lemmas show that each changes only where
a handler means it to. `IInv` supplies the exact queues, of at most two senders.

**Daemons** (`FsTtyProofs`). For every number of user processes, every set of calls and every
length of the queue (`ProcsAssumption`: the processes are distinct; `CallsAssumption`:
terminal calls use descriptors 0 to 2): `FsTtyTypes`, `NeverPanics`, `CallInOnePlace`,
`RightAnswers`, `SharedQueueIsFIFO`. None of these is inductive: that the answer is right
needs to know what every message on its way looks like (`ContentInv`), which needs that
no two of them belong to the same call (`PlaceInv`), which needs which process is blocked
in which call at which statement (`ControlInv`), and that a blocked sender is queued once
(`WaitInv`). The test of the queue that FS makes before it enqueues stays valid because only
FS enqueues.

**Interrupt delivery** (`SocProofs`). For every program and every behaviour of the devices,
`RequestIsHeld`. The invariant is the order in which the
answer registers of `privilege.v`, the interrupt unit and the CPU can be up
(`ReplyOrder`), that no wait returns into a trap, and that a request seen one clock
ago is still up when it is acted on (`PendingHeld`): without the first, an answer
left over from one interrupt could take the next one down.

**Processor** (`SocProofs`). For every program of `ProgramAssumption` (mie is written with
both bits, as `setupIRQ` does, and mstatus with MIE only together with MPIE; nothing is asked
of the order of instructions) that stays in its image (`[]InProgram`):
`TypeCorrect`, `AtMostTwoLate`, `PreciseTraps` (the refinement to `Isa!PreciseSpec`) and,
if it leaves MIE alone (`KeepsMIE`), `PlainProgramsSeeISA` (to `Isa!Spec`). The invariant
`SocInv` adds to the one above which instruction each phase works for, and, while MIE is 0,
what of an interrupt may still be under way and how many instructions have been completed
since (`LateInv`). The bound is one on instructions executed, not on addresses: `cli` ends with
a return, so that the displaced instruction may be the first one of the critical section, but
none after that.

**Cache** (`CacheProofs`). For every number of lines, blocks and words per block
(`CacheAssumption`) and every timing of the PSRAM: `TypeCorrect`, `CleanLinesMatch`,
`NoCommandLost` and `CacheIsMemory`, the refinement to `Memory`. The invariant says for every
step of a burst where cache and controller are together: word counters, the pulses of
ready, and the words moved so far. It is needed because the write-back and the load that
follows share one counter and one line of block RAM, of which a part is old and a part new.

**Boot** (`BootProofs`). `ImagesExact`, for every size of sector, card and file and every pace
of the controller, from `LayoutAssumption` (kernel, program and library lie in memory in this
order without overlap, files start with a sector and are not empty) and `CardsAssumption`. The
invariant `BInv` says which sector is in the buffer, or how much of it is, at each statement that
copies from it. A copy that begins while the card is busy is the exception that 4 describes
(`early`); where in the file the loop is (`mem_i`) is bounded while the copy runs.

**ELF loader** (`BootProofs`). `LibraryLoaded`, `ProgramLoaded` and `NeverLost`, for all tables
of relocations, imports and exported names, every size of the `DynLinkTable`, every size and
distance of the segments and every pair of files that a card may hold. The first two promise
images in whole words; a process exists when the loader came back, and `NeverLost` says that it
does unless the symbols or imports do not fit the table, a section is missing or the header of
`.rela.dyn` is overwritten. They rest on `HeadersAssumption` (the headers have the fields of
`elf.h`) and `FilesAssumption`: a file that is an ELF file at all is one that a linker makes
(`Linked`: segments apart, starting at whole words, relocations of different words of the
second one), lies on the card
as far as the loader reads it, and finds room in memory, for the words that the clearing
loop zeroes too, which may reach further than the segment. Files that the loader refuses are
included, and those that lead it astray; the theorems promise an image for those that it accepts. Each loop of the
loader (stores of a patch, words of a move, entries of `.rela.dyn`) is a function of the
number of iterations, and what it leaves is proved by induction over that number
(`PatchEffect`, `MoveEffect`, `RelocateEffect`): the move, for instance, has after n words
the last n in place and all others still in the file, which holds only because it goes down.
`LoadInv` adds to `BInv` that the library stays as loaded while the program is copied and
loaded before it, and that the table of names is that library's or, where boot is lost, what
about the file made it so.

**Block layer and FAT32** (`Fat32Proofs`). For every sector size, every disk of
`DiskAssumption` and every call of `CallsAssumption`: `BlockReadsExact`, `ReadsRight`,
`FilesFound`. What `blk_seek_and_read` returns is proved by induction over the passes of
its loop (`SetInduction` states induction for sets, which the provers can instantiate). The
invariant says that the driver never looks up a cluster that the FAT does not have, so
that every read lies on the disk; that the walk meets the records of the directory one
by one up to the end mark (`WalkInv`); and that the chain followed is the file's, whose
cells are then one run on the disk (`ChainInv`).

Every inductive invariant was first checked by TLC as an invariant of the runs' instances.

## 6. What is only model-checked

- All liveness (`NoStarvation`, `AnsweredUnlessAsleep`, `TickServed`,
  `EveryRequestAnswered`, `BootFinishes`, `EveryReadReturns`), which is outside the prover's
  reach.
- CoreMark: `Crc`, `CoreState`, `CoreMatrix` and `CoreMark` use recursive operators and
  `Bitwise`, which the prover does not take. `KnownResults`, `Restored` and `ScanRight` are
  about what recursions compute, for the seeds of the run; `NothingLost` and `SortRight`
  hold for lists in general, and a proof would need the checksums written without
  recursive operators and the mixed indices assumed positive.

## 7. Hazards

`PROJECT.json` lists them by line. Those without a property carry a note: they belong to
parts that section 9 leaves out, or they are cases in which the code does go wrong and which
the properties therefore except, so that no property is claimed to catch them:

- openat and close are passed to FSS0, which does not exist, and are never answered;
  the promises of `FsTty` are about terminal calls;
- the delay loop of FS (fs.c:158) is taken to be long enough, although at -O2 the
  compiler may delete it;
- an interrupt may come at the first instruction behind a call of `cli`, as
  `LateByTwoInstructions` allows; the daemons' critical sections are taken to be closed;
- RTL and `isr.h` number GPIO and PS/2 differently (3, 4 and 5, 6), so that their first
  interrupt ends in a panic;
- a card that ends with the last file makes boot hang (`BootFinishes` is about one that has
  a sector behind it), and the result of the loader is not looked at: the process of a
  refused program runs on what is in memory (`ProgramImage` is about accepted files);
- clearing before the copy destroys part of some layouts, and the real tail is not cleared
  (elf.c:315); bytes behind the last whole word are not copied (466);
- a receive from one of several senders breaks the queues (process.c:435, excluded by
  `TopologyAssumption`);
- a seek behind the end of a file gives a huge size (`ReadRight` promises the contents for a
  seek inside it and an end of the range below 2^32), and a directory must be in one piece and
  have room for its end mark;
- for some seeds CoreMark's mixed indices repeat, and the list is then not restored; for
  those of the run they do not, or sort back all the same. A byte that corruption turns into
  a comma is not restored (core_state.c:89); none of the run's blocks has one.

Smaller ones, which no property is about, are not in the list: a pulse in the clock in which
the same device's earlier one is passed on is cleared with it (interrupt_unit.v:112), so that
two requests make one interrupt and a handler that reads one item is one behind; `blk_seek_and_read`
over the SD card would neither wait for a load nor for a write-back (blk.c:22, 33; it
is used over the disk image only); the 64-bit time is read in two halves (timer.c:21),
and CoreMark's 32-bit ticks wrap after 68 s; the stack of a program starts at the top of
its own image (elf.c:472); serialboot.v:121 writes a word whether memory is ready or
not; `core_list_remove` needs three nodes (`ParamsAssumption`); blanks behind a short
file extension are cut off or not by chance (fat32.c:107; both are in the run).

## 8. Plan

Done: 1. `Process` with its abstract specification, invariants and proofs; 2. the
queue and the daemons on top of it; 3. interrupt delivery and the CPU; 4. the
memory path; 5. the card, the boot path and the ELF loader; 6. the block layer and FAT32;
7. CoreMark; 8. proofs for all of them except CoreMark.

Next, in this order:

9. Serial boot together with `Cache`: what stays in the cache behind the DMA's back.
10. `Psram`: the serial protocol under `MemoryController`, in clk_mem.

## 9. Not modelled

- Arithmetic and register files: values, not control.
- UART: bit sampling and the one-byte receive register depend on real time; the characters
  are inputs of `Boot` and `FsTty`.
- Serial boot DMA: only its effect is in `Boot`; whether a word is written while memory
  is busy is a race between a baud rate and a latency.
- Timer: a counter; its interrupt is an arbitrary pulse in `Soc`, the slice in `Process`.
- USB (`CH375.c`): the other side of the protocol is a chip that the repository does not
  describe, and the calls are commented out. Read from the source: a read of several blocks
  stores each at the start of the buffer (272).
- Pin-level drivers of GPIO, PS/2 and Ethernet; the address decoder (combinational).
- The PSRAM's serial protocol, beyond its effect in `MemoryController`.
- Timing, printing and the variants with threads of CoreMark; the hardware tests and
  demonstrations in `sdboot.c`; FSS, whose body is commented out.
- Video and HDMI (vendored, output only), the RISC-V test suite (vendored), `abandoned/`,
  the C library stubs.
