------------------------------- MODULE MCBoot -------------------------------
(* Files for module Boot.  The number of a file says how it is laid out: the  *)
(* gap between the offset and the address of its second segment, the size of  *)
(* the segment in the file, and the words it has more in memory.  The segment *)
(* of the 4000s ends in the middle of a word, in the file and in memory.      *)
EXTENDS Boot, TLC

Phdr(t, o, v, f, m) == [p_type |-> t, p_offset |-> o, p_vaddr |-> v, p_paddr |-> v,
                        p_filesz |-> f, p_memsz |-> m]
Rela(o, t, s, a) == [r_offset |-> o, r_type |-> t, r_sym |-> s, r_addend |-> a]
Sym(n, v) == [st_name |-> n, st_value |-> v]
AllSections == {".dynsym", ".dynstr", ".rela.dyn", ".rela.plt"}

TextWords == 3
Layouts == {<<gap, fs, d>> \in {0, 1, 3} \X {2, 3} \X {0, 1, 3} : TRUE}
Id(kind, l) == kind + 100 * l[1] + 10 * l[2] + l[3]
LibLayouts == {<<0, 2, 0>>, <<1, 3, 3>>, <<3, 2, 1>>}

\* rest is the number of bytes behind the last word.
Loads(l, rest) ==
  <<Phdr(PT_LOAD, 0, 0, 4 * TextWords - 1, 4 * TextWords - 1),
    Phdr(PT_LOAD, TextWords, TextWords + l[1], 4 * l[2] + rest, 4 * (l[2] + l[3]) + 3 * rest)>>

LibHeader(l) ==
  [e_type |-> ET_DYN, e_machine |-> "RISCV", e_entry |-> 0, phdr |-> Loads(l, 0),
   sections |-> AllSections,
   dynsym |-> <<Sym("puts", 1), Sym("exit", 2)>>,
   reladyn |-> <<Rela(TextWords + l[1], 1, 2, 1)>>,
   relaplt |-> <<Rela(TextWords + l[1] + 1, R_RISCV_JUMP_SLOT, 1, 0)>>,
   sh_reladyn |-> 7, length |-> 8]

ExecHeader(l, sh, rest) ==
  [e_type |-> ET_DYN, e_machine |-> "RISCV", e_entry |-> 1,
   phdr |-> <<Phdr(6, 1, 1, 1, 1), Phdr(3, 2, 2, 1, 1)>> \o Loads(l, rest),
   sections |-> AllSections,
   dynsym |-> <<Sym("main", 1), Sym("exit", 0), Sym("brk", 0)>>,
   reladyn |-> <<Rela(TextWords + l[1], 1, 1, 0)>>,
   relaplt |-> <<Rela(TextWords + l[1] + 1, R_RISCV_JUMP_SLOT, 2, 0)>>
               \o (IF l[2] > 2 THEN <<Rela(TextWords + l[1] + 2, R_RISCV_JUMP_SLOT, 3, 0)>>
                               ELSE <<>>),
   sh_reladyn |-> sh, length |-> 10]

\* Libraries that are not loaded: for another machine, without .rela.plt, with a
\* relocation of a kind the loader does not know, and no file at all; and those that it
\* gets lost in: without .dynstr, with a symbol too many, with a name too long.
BadLibs == {11, 12, 13, 14, 15, 16, 17}
BadLib(k) ==
  LET h == LibHeader(<<1, 3, 1>>)
  IN  CASE k = 11 -> [h EXCEPT !.e_machine = "x86"]
        [] k = 12 -> [h EXCEPT !.sections = AllSections \ {".rela.plt"}]
        [] k = 15 -> [h EXCEPT !.sections = AllSections \ {".dynstr"}]
        [] k = 16 -> [h EXCEPT !.dynsym = @ \o <<Sym("brk", 0)>>]
        [] k = 17 -> [h EXCEPT !.dynsym[1].st_name = "long"]
        [] OTHER  -> [h EXCEPT !.relaplt = @ \o <<Rela(6, 1, 1, 0)>>]

\* Programs that are not loaded: for another machine, with an import that is no jump
\* slot, and no file at all; those that the loader gets lost in: without .rela.plt,
\* .rela.dyn or .dynsym, with an import too many, with a name too long; and one without
\* imports and relocations that lacks .dynsym and is none the worse.
BadExecs == {21, 22, 23, 24, 25, 26, 27, 28, 29}
BadExec(k) ==
  LET h == ExecHeader(<<1, 3, 1>>, 9, 0)
  IN  CASE k = 21 -> [h EXCEPT !.e_machine = "x86"]
        [] k = 22 -> [h EXCEPT !.relaplt[2].r_type = 1]
        [] k = 24 -> [h EXCEPT !.sections = AllSections \ {".rela.plt"}]
        [] k = 25 -> [h EXCEPT !.sections = AllSections \ {".rela.dyn"}]
        [] k = 26 -> [h EXCEPT !.sections = AllSections \ {".dynsym"}]
        [] k = 27 -> [h EXCEPT !.reladyn = <<>>,
                               !.relaplt = @ \o <<Rela(4, R_RISCV_JUMP_SLOT, 2, 0)>>]
        [] k = 28 -> [h EXCEPT !.dynsym[3].st_name = "long"]
        [] OTHER  -> [h EXCEPT !.reladyn = <<>>, !.relaplt = <<>>,
                               !.sections = AllSections \ {".dynsym"}]

MCLongNames == {"long"}
UnevenLayouts == {<<0, 2, 3>>, <<1, 2, 1>>, <<3, 2, 0>>}
MCHeaders ==
  [k \in (BadLibs \ {14}) \cup (BadExecs \ {23}) \cup {Id(1000, l) : l \in LibLayouts}
         \cup {Id(2000, l) : l \in Layouts} \cup {Id(3000, l) : l \in Layouts}
         \cup {Id(4000, l) : l \in UnevenLayouts} |->
     LET l == <<(k % 1000) \div 100, (k % 100) \div 10, k % 10>>
     IN  CASE k < 20 -> BadLib(k)
           [] k \in 20 .. 29 -> BadExec(k)
           [] k \in 1000 .. 1999 -> LibHeader(l)
           [] k \in 2000 .. 2999 -> ExecHeader(l, 6, 0)
           [] k \in 3000 .. 3999 -> ExecHeader(l, 9, 0)
           [] OTHER -> ExecHeader(l, 9, 2)]

\* The words of a file: its number, the word with the size of .rela.dyn, and others
\* that are all different.
FileWords(k) ==
  [w \in 0 .. 9 |->
     CASE w = 0 -> k
       [] k \in DOMAIN MCHeaders /\ w = MCHeaders[k].sh_reladyn -> Len(MCHeaders[k].reladyn)
       [] OTHER -> 10 * k + w]

\* Two sectors of kernel, four of library, five of program, and one behind them.
CardOf(lib, exec) ==
  [s \in 0 .. Sectors - 1 |-> [w \in WordIndex |->
     LET n == s * SECTOR_WORDS + w
     IN  CASE n < 4 -> 500 + n
           [] n \in 4 .. 11 -> FileWords(lib)[n - 4]
           [] n \in 12 .. 21 -> FileWords(exec)[n - 12]
           [] OTHER -> 0]] @@ <<>>  \* @@ has TLC compute the function once

Execs == {Id(2000, l) : l \in {<<0, 2, 0>>, <<0, 3, 3>>, <<1, 2, 1>>}}
         \cup {Id(3000, l) : l \in Layouts} \cup {Id(4000, l) : l \in UnevenLayouts}
MCCards ==
  {CardOf(Id(1000, <<1, 3, 3>>), e) : e \in Execs \cup BadExecs}
    \cup {CardOf(k, Id(3000, <<3, 3, 1>>)) : k \in BadLibs \cup {Id(1000, l) : l \in LibLayouts}}
MCWarmUp == {0, 3}
MCTestArea == {4, 5}
=============================================================================
