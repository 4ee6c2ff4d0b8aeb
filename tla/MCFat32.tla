------------------------------ MODULE MCFat32 ------------------------------
(* Disk images and calls for module Fat32.  A disk is built from the clusters *)
(* of its root directory, the records in it and the chains of the files.      *)
EXTENDS Fat32, FiniteSets, TLC

E(name, ext, extlen, attr, chain, size) ==
  [kind |-> "rec", first |-> "used", attr |-> attr, name |-> name, ext |-> ext,
   extlen |-> extlen, chain |-> chain, size |-> size,
   cluster |-> IF chain = <<>> THEN 0 ELSE chain[1]]
Deleted(e) == [e EXCEPT !.first = "deleted"]
EndOfDir == [E("", "", 0, "file", <<>>, 0) EXCEPT !.first = "end"]

START == 1
RESERVED == 1
FATS == 2
SECTORS_PER_FAT == 2
Clusters == 2 .. 7

\* A cell of the FAT: the successor in the directory's or in a file's chain.
FatEntry(root, dir, file_eoc, c) ==
  LET next(chain, eoc) ==
        IF \E k \in DOMAIN chain : chain[k] = c
        THEN LET k == CHOOSE k \in DOMAIN chain : chain[k] = c
             IN  {IF k = Len(chain) THEN eoc ELSE chain[k + 1]}
        ELSE {}
      all == next(root, EOC) \cup UNION {next(dir[k].chain, file_eoc) : k \in DOMAIN dir}
  IN  IF c = 0 THEN EOC_MIN ELSE IF c = 1 THEN EOC
      ELSE IF all = {} THEN 0 ELSE CHOOSE n \in all : TRUE

\* A cell of the data area: offset o of cluster c.
DataCell(root, dir, size, c, o) ==
  LET pos(chain) == (CHOOSE k \in DOMAIN chain : chain[k] = c) * size - size + o
      owners == {k \in DOMAIN dir : c \in Range(dir[k].chain) /\ dir[k].first = "used"}
  IN  IF c \in Range(root)
      THEN IF pos(root) + 1 \in DOMAIN dir THEN dir[pos(root) + 1] ELSE EndOfDir
      ELSE IF owners = {} THEN EndOfDir
      ELSE LET e == dir[CHOOSE k \in owners : TRUE]
           IN  [kind |-> "data", of |-> e.name, at |-> pos(e.chain)]

Disk(spc, root, dir, file_eoc) ==
  LET fat == START + RESERVED
      data == fat + FATS * SECTORS_PER_FAT
      cell(a) ==
        LET s == a \div SECTOR
        IN  CASE s < START -> [kind |-> "pt", start_sector |-> IF a = PT_CELL + PART - 1 THEN START ELSE 0]
              [] s \in START .. fat - 1 ->
                   [kind |-> "bs", sectors_per_cluster |-> spc, reserved |-> RESERVED,
                    fats |-> FATS, sectors_per_fat |-> SECTORS_PER_FAT, root |-> root[1]]
              [] s \in fat .. data - 1 ->
                   [kind |-> "fat",
                    entry |-> FatEntry(root, dir, file_eoc, (a - fat * SECTOR) % (SECTORS_PER_FAT * SECTOR))]
              [] OTHER ->
                   LET n == spc * SECTOR
                   IN  DataCell(root, dir, n, 2 + (a - data * SECTOR) \div n,
                                (a - data * SECTOR) % n)
      cells == 0 .. (data + spc * Cardinality(Clusters)) * SECTOR - 1
  IN  [root |-> root, dir |-> dir, file_eoc |-> file_eoc, 
      cells |-> [a \in cells |-> cell(a)] @@ <<>>]  \* @@ has TLC compute it once

A == E("A", "TXT", 3, "file", <<4, 5>>, 8)
B == E("B", "TXT", 3, "file", <<6>>, 6)
C == E("C", "C", 1, "file", <<7>>, 3)
SUB == E("A", "TXT", 3, "dir", <<7>>, 0)
LFN == E("A", "TXT", 3, "lfn", <<>>, 0)
EMPTY == E("C", "TXT", 3, "file", <<>>, 0)
Split == E("B", "TXT", 3, "file", <<4, 6>>, 9)

MCDisks == {
  Disk(1, <<2>>, <<Deleted(A), SUB, B, A>>, EOC),
  Disk(1, <<2>>, <<C, B>>, EOC),
  Disk(1, <<3>>, <<LFN, EMPTY, A, C>>, EOC_MIN),
  Disk(1, <<2, 3>>, <<Deleted(A), LFN, SUB, Deleted(B), LFN, LFN, Deleted(C), A, B>>, EOC),
  Disk(1, <<2, 3>>, <<EMPTY, Split>>, EOC),
  Disk(2, <<3>>, <<EMPTY, Split, C>>, EOC),
  Disk(2, <<2>>, <<B, A>>, EOC) }

F(slash, name, namelen, ext, extlen) ==
  [slash |-> slash, name |-> name, namelen |-> namelen, ext |-> ext, extlen |-> extlen]
Good == {F(TRUE, n, 1, "TXT", 3) : n \in {"A", "B", "C", "Z"}} \cup {F(TRUE, "C", 1, "C", 1)}
Bad == {F(FALSE, "A", 1, "TXT", 3), F(TRUE, "A", 9, "", 0), F(TRUE, "A", 1, "TXT", 4),
        F(TRUE, "A", 13, "", 0)}
MCCalls ==
  [file : Good, seek : {0, 2, 6, 8}, size : {0, 4, 7}]
    \cup [file : Bad, seek : {0}, size : {4}]
=============================================================================
