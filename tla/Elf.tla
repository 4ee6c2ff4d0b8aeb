-------------------------------- MODULE Elf --------------------------------
(***************************************************************************)
(* The ELF loader (kernel/elf.c), which works in place on a file that has  *)
(* been copied to memory: it relocates, moves the second LOAD segment from *)
(* its file offset up to its address, and links.                           *)
(*                                                                         *)
(* Addresses are counted in words, where segments and relocated words      *)
(* begin; the sizes of a segment are bytes, as in its header.  The program *)
(* headers and the tables of symbols and relocations lie in the first LOAD *)
(* segment, which is never written: they are the record that Headers holds *)
(* for the file's first word.  The section headers lie behind the segments *)
(* in the file, where moving the second segment can overwrite them: the    *)
(* one field that is read after that, sh_size of .rela.dyn, is a word of   *)
(* memory.                                                                 *)
(*                                                                         *)
(* Where the code follows a pointer that nobody set, or writes behind the  *)
(* end of a table, the result is wild: what memory holds and where the     *)
(* processor goes from there is not modelled.                              *)
(***************************************************************************)
EXTENDS Integers, Sequences, SequencesExt

CONSTANTS
  Headers,     \* a function from the first word of a file to its headers
  TBL_SIZE,    \* 2048 entries of a DynLinkTable
  LongNames    \* names that its entries have no room for, 128 characters or more

\* PT_LOAD, e_type of a shared object, and the type of a jump slot
PT_LOAD == 1
ET_DYN == 3
R_RISCV_JUMP_SLOT == 5
UNDEFINED == -99   \* a variable that nobody has set

Elf32_Phdr == [p_type : Nat, p_offset : Nat, p_vaddr : Nat, p_paddr : Nat,
               p_filesz : Nat, p_memsz : Nat]
Elf32_Rela == [r_offset : Nat, r_type : Nat, r_sym : Nat, r_addend : Int]
Elf32_Sym  == [st_name : STRING, st_value : Nat]
Elf32_Ehdr ==
  [e_type : Nat, e_machine : STRING, e_entry : Nat, phdr : Seq(Elf32_Phdr),
   sections : SUBSET {".dynsym", ".dynstr", ".rela.dyn", ".rela.plt"},
   dynsym : Seq(Elf32_Sym), reladyn : Seq(Elf32_Rela), relaplt : Seq(Elf32_Rela),
   sh_reladyn : Nat,  \* the word of the file with the entries of .rela.dyn
   length : Nat]      \* words of the file

ASSUME HeadersAssumption == \A w \in DOMAIN Headers : Headers[w] \in Elf32_Ehdr
ASSUME TableAssumption == TBL_SIZE \in Nat

-----------------------------------------------------------------------------

\* The checks of the file header, which only need it to be a file at all.
HeaderOK(w) ==
  /\ w \in DOMAIN Headers
  /\ Headers[w].e_type = ET_DYN
  /\ Headers[w].e_machine = "RISCV"

\* The checks of the program headers, which must be the given two.
SegmentsOK(h, first, second) ==
  LET p1 == h.phdr[first]
      p2 == h.phdr[second]
  IN  /\ p1.p_type = PT_LOAD /\ p1.p_offset = 0 /\ p1.p_vaddr = 0 /\ p1.p_paddr = 0
      /\ p2.p_type = PT_LOAD /\ p2.p_vaddr = p2.p_paddr /\ p2.p_offset <= p2.p_vaddr

\* The sections are found by name; the library loader wants three of them.  The
\* test is a bitwise and of their addresses, which share the bits of base.
SectionsFound(h) == {".dynsym", ".rela.dyn", ".rela.plt"} \subseteq h.sections

symval(h, r) == h.dynsym[r.r_sym].st_value

\* find_function_from_so: the first entry of that name, or -1.
find_function_from_so(tbl, name) ==
  LET found == {i \in DOMAIN tbl : tbl[i].name = name}
  IN  IF found = {} THEN -1
      ELSE tbl[CHOOSE i \in found : \A k \in found : i <= k].addr

\* The j-th entry of a DynLinkTable is written unchecked: it must exist, the name of the
\* symbol must fit, and the sections that symbol and name come from must have been found.
EntryOK(h, j, sym) ==
  /\ {".dynsym", ".dynstr"} \subseteq h.sections
  /\ j <= TBL_SIZE /\ h.dynsym[sym].st_name \notin LongNames

\* The names that dynamic linking looks up, and when the table has room for them.
TableFits(h) == \A j \in DOMAIN h.dynsym : EntryOK(h, j, j)
FillTable(h, base) ==
  [j \in DOMAIN h.dynsym |->
     [addr |-> base + h.dynsym[j].st_value, name |-> h.dynsym[j].st_name]]

\* The memory after the first n of some stores, and after all of them.
Stored(m, stores) ==
  LET after[n \in 0 .. Len(stores)] ==
        IF n = 0 THEN m ELSE [after[n - 1] EXCEPT ![stores[n].at] = stores[n].word]
  IN  after
Patch(m, stores) == Stored(m, stores)[Len(stores)]

\* rela.dyn and rela.plt patching of the library: before the move, so the patched
\* word is still at its place in the file.
PatchInFile(m, base, h, p) ==
  LET place(r) == base + r.r_offset - (p.p_vaddr - p.p_offset)
      dyn == [k \in DOMAIN h.reladyn |->
                LET r == h.reladyn[k]
                IN  [at |-> place(r), word |-> base + symval(h, r) + r.r_addend]]
      plt == [k \in DOMAIN h.relaplt |->
                LET r == h.relaplt[k] IN [at |-> place(r), word |-> base + symval(h, r)]]
  IN  Patch(Patch(m, dyn), plt)

\* Second LOAD processing: the words that the clearing loop and the copy write.  Both
\* count down in steps of four bytes while i >= 0, so a rest of less than a word is left
\* out: the last bytes of a segment that does not end with a word are not moved.
Cleared(p) ==
  LET d == p.p_memsz - p.p_filesz
      end == p.p_vaddr + d \div 2
  IN  end - d \div 4 .. end - 1
CopiedWords(p) == p.p_filesz \div 4
Second(p) == p.p_vaddr .. p.p_vaddr + CopiedWords(p) - 1

ClearTail(m, base, p) == [a \in DOMAIN m |-> IF a - base \in Cleared(p) THEN 0 ELSE m[a]]

\* Mutant: the copy goes up.
CopyOrder_Up(p) == [k \in 1 .. CopiedWords(p) |-> k - 1]

CopyOrder(p) == [k \in 1 .. CopiedWords(p) |-> CopiedWords(p) - k]

\* The memory after n words of the copy.
Moved(m, base, p) ==
  LET after[n \in 0 .. CopiedWords(p)] ==
        IF n = 0 THEN ClearTail(m, base, p)
        ELSE LET mm == after[n - 1]
                 i  == CopyOrder(p)[n]
             IN  [mm EXCEPT ![base + p.p_vaddr + i] = mm[base + p.p_offset + i]]
  IN  after
MoveSecondLoad(m, base, p) == Moved(m, base, p)[CopiedWords(p)]

\* rela.plt up to its first entry that is not a jump slot.
JumpSlots(h) ==
  LET bad == SelectInSeq(h.relaplt, LAMBDA r : r.r_type # R_RISCV_JUMP_SLOT)
  IN  IF bad = 0 THEN h.relaplt ELSE SubSeq(h.relaplt, 1, bad - 1)

\* load_shared_library: what it returns, the memory and the DynLinkTable.  The table is
\* filled before any other use of the sections.
load_shared_library(m, base, tbl) ==
  LET h == Headers[m[base]]
      p == h.phdr[2]
      slots == JumpSlots(h)
      patched == PatchInFile(m, base, [h EXCEPT !.relaplt = slots], p)
      result(ret, mm, t) == [ret |-> ret, mem |-> mm, tbl |-> t, wild |-> FALSE]
  IN  IF ~(HeaderOK(m[base]) /\ SegmentsOK(h, 1, 2) /\ SectionsFound(h))
      THEN result(-1, m, tbl)
      ELSE IF ~TableFits(h) THEN [ret |-> -1, mem |-> m, tbl |-> tbl, wild |-> TRUE]
      ELSE IF slots # h.relaplt THEN result(-1, patched, FillTable(h, base))
      ELSE result(0, MoveSecondLoad(patched, base, p), FillTable(h, base))

-----------------------------------------------------------------------------

\* Mutant: the place in the file, as for the library, not the one after the move.
TempTable_InFile(h, base) ==
  [j \in DOMAIN h.relaplt |->
     [addr |-> base + h.relaplt[j].r_offset - (h.phdr[4].p_vaddr - h.phdr[4].p_offset),
      name |-> h.dynsym[h.relaplt[j].r_sym].st_name]]

\* The temporary table, of the size of the library's, is on the stack; nothing tests
\* whether the sections have been found.
ImportsFit(h) ==
  /\ ".rela.plt" \in h.sections
  /\ \A j \in DOMAIN JumpSlots(h) : EntryOK(h, j, h.relaplt[j].r_sym)

\* Where load_dynamic_exec will put what it imports: noted before the move.
TempTable(h, base) ==
  [j \in DOMAIN h.relaplt |->
     [addr |-> base + h.relaplt[j].r_offset,
      name |-> h.dynsym[h.relaplt[j].r_sym].st_name]]

Link(m, tbl, imports) ==
  Patch(m, [k \in DOMAIN imports |->
              [at |-> imports[k].addr, word |-> find_function_from_so(tbl, imports[k].name)]])

\* Nor does the last loop test them.
RelocationsFound(h) ==
  /\ ".rela.dyn" \in h.sections
  /\ h.reladyn # <<>> => ".dynsym" \in h.sections

\* rela.dyn patching of the executable, after the move: the memory after n iterations.
\* Each one reads the number of entries from the section header, whatever is there now;
\* behind the table it would take other words for entries.  The number is unsigned: a
\* negative word stands for one that no counter of entries reaches.
Entries(m, base, h) == m[base + h.sh_reladyn]
Relocated(m, base, h) ==
  LET after[n \in 0 .. Len(h.reladyn)] ==
        IF n = 0 THEN m
        ELSE LET mm == after[n - 1]
                 r  == h.reladyn[n]
             IN  IF Entries(mm, base, h) \in 0 .. n - 1 THEN mm
                 ELSE [mm EXCEPT ![base + r.r_offset] = base + symval(h, r) + r.r_addend]
  IN  after
\* Mutant: the loop goes on for one entry too many (j <= ...).
PatchInPlace_OneMore(m, base, h) ==
  LET n == Len(h.reladyn)
      done == Relocated(m, base, h)[n]
  IN  [mem |-> done, wild |-> Entries(done, base, h) \notin 0 .. n - 1]

PatchInPlace(m, base, h) ==
  LET n == Len(h.reladyn)
      done == Relocated(m, base, h)[n]
  IN  [mem |-> done, wild |-> Entries(done, base, h) \notin 0 .. n]

\* load_dynamic_exec: what it returns, and what it leaves in *entry_addr and
\* *stack_addr (the latter is a number of bytes).
load_dynamic_exec(m, base, tbl) ==
  LET h == Headers[m[base]]
      p == h.phdr[4]
      moved == MoveSecondLoad(m, base, p)
      done == PatchInPlace(Link(moved, tbl, TempTable(h, base)), base, h)
      fail(entry, wild) ==
        [ret |-> -1, mem |-> m, entry |-> entry, stack |-> UNDEFINED, wild |-> wild]
  IN  IF ~HeaderOK(m[base]) THEN fail(0, FALSE)
      ELSE IF ~SegmentsOK(h, 3, 4) THEN fail(base + h.e_entry, FALSE)
      ELSE IF ~ImportsFit(h) THEN fail(base + h.e_entry, TRUE)
      ELSE IF JumpSlots(h) # h.relaplt THEN fail(base + h.e_entry, FALSE)
      ELSE IF ~RelocationsFound(h) THEN fail(base + h.e_entry, TRUE)
      ELSE [ret |-> 0, mem |-> done.mem, entry |-> base + h.e_entry,
            stack |-> 4 * (base + p.p_vaddr) + p.p_memsz, wild |-> done.wild]
=============================================================================
