------------------------------- MODULE Fat32 -------------------------------
(***************************************************************************)
(* The FAT32 driver (fs/fat32.c) as the host build runs it: FSDrv_FAT32,   *)
(* FAT32_Init and one FAT32_Read on a disk image, every access through     *)
(* blk_seek_and_read (Blk).                                                *)
(*                                                                         *)
(* A disk maps cells to records with a kind.  Names are abstracted to what *)
(* the comparison tells apart: the name, the extension and their lengths.  *)
(* Values that mark the end of a chain are scaled from 28 bits to four,    *)
(* sizes from 32 bits to log2 of U32.                                      *)
(***************************************************************************)
EXTENDS Blk, Functions

CONSTANTS
  Disks,     \* the disk images
  Calls,     \* arguments of FAT32_Read: [file, seek, size]
  PART,      \* the partition, from 1
  PT_CELL,   \* 0x1BE: where the partition table starts
  U32        \* 2^32

\* What the cells of a disk hold, by the fields that the driver reads.  A directory record
\* also carries the chain of its file, for the properties.
PartitionTable == [kind : {"pt"}, start_sector : Nat]
Fat32BootSector ==
  [kind : {"bs"}, sectors_per_cluster : Nat \ {0}, reserved : Nat, fats : Nat,
   sectors_per_fat : Nat, root : Nat]
DirectoryRecord ==
  [kind : {"rec"}, first : {"used", "deleted", "end"}, attr : {"file", "dir", "lfn"},
   name : STRING, ext : STRING, extlen : 0 .. 3, chain : Seq(Nat), size : 0 .. U32 - 1,
   cluster : Nat]
Cell ==
  PartitionTable \cup Fat32BootSector \cup DirectoryRecord
    \cup [kind : {"fat"}, entry : Nat] \cup [kind : {"data"}, of : STRING, at : Nat]

EOC == 15      \* 0x0fffffff, the only end of a chain that the driver knows
EOC_MIN == 8   \* 0x0ffffff8, the first value that marks an end

\* 0x200 * (cluster_begin_lba + (cluster - 2) * sectors_per_cluster)
ClusterAt(g, c) == SECTOR * (g.cluster_begin_lba + (c - 2) * g.sectors_per_cluster)
FatAt(g, c) == SECTOR * g.fat_begin_lba + c

(* What is taken for granted of a disk.  Its description are the clusters of   *)
(* the root directory (root), the records in it (dir) and the mark that ends   *)
(* the chain of a file (file_eoc).                                             *)

BootCell(d) == SECTOR * d.cells[PT_CELL + PART - 1].start_sector

Geometry(d) ==
  LET start == d.cells[PT_CELL + PART - 1].start_sector
      bs == d.cells[BootCell(d)]
  IN  [fat_begin_lba |-> start + bs.reserved,
       cluster_begin_lba |-> start + bs.reserved + bs.fats * bs.sectors_per_fat,
       sectors_per_cluster |-> bs.sectors_per_cluster,
       root_dir_first_cluster |-> bs.root]

\* Whole sectors, and a partition table that leads to a boot sector.
Readable(d) ==
  /\ DOMAIN d.cells \subseteq Nat /\ \A a \in DOMAIN d.cells : d.cells[a] \in Cell
  /\ \A a \in DOMAIN d.cells, o \in Offsets : a - (a % SECTOR) + o \in DOMAIN d.cells
  /\ PT_CELL .. PT_CELL + 3 \subseteq DOMAIN d.cells
  /\ d.cells[PT_CELL + PART - 1] \in PartitionTable
  /\ BootCell(d) \in DOMAIN d.cells /\ d.cells[BootCell(d)] \in Fat32BootSector

\* The FAT has an entry for every cluster number on the disk.
InFat(d, c) ==
  c < EOC => /\ FatAt(Geometry(d), c) \in DOMAIN d.cells
             /\ d.cells[FatAt(Geometry(d), c)].kind = "fat"
Linked(d) ==
  /\ InFat(d, Geometry(d).root_dir_first_cluster)
  /\ \A a \in DOMAIN d.cells :
       /\ d.cells[a].kind = "rec" => InFat(d, d.cells[a].cluster)
       /\ d.cells[a].kind = "fat" => InFat(d, d.cells[a].entry)

\* The FAT holds this chain.
Chained(d, chain, eoc) ==
  \A k \in 1 .. Len(chain) :
    /\ chain[k] < EOC_MIN /\ FatAt(Geometry(d), chain[k]) \in DOMAIN d.cells
    /\ d.cells[FatAt(Geometry(d), chain[k])] =
         [kind |-> "fat", entry |-> IF k = Len(chain) THEN eoc ELSE chain[k + 1]]

\* The cells of a cluster, and where cell p of a chain is.
ClusterCells(d) == SECTOR * Geometry(d).sectors_per_cluster
Place(d, chain, p) ==
  ClusterAt(Geometry(d), chain[(p \div ClusterCells(d)) + 1]) + (p % ClusterCells(d))

\* The records of the root directory, with room for an end mark behind them.
DirectoryStored(d) ==
  /\ d.root \in Seq(Nat) /\ d.root # <<>> /\ Geometry(d).root_dir_first_cluster = d.root[1]
  /\ Chained(d, d.root, EOC)
  /\ d.dir \in Seq(DirectoryRecord) /\ Len(d.dir) < Len(d.root) * ClusterCells(d)
  /\ \A k \in 1 .. Len(d.dir) : d.dir[k].first # "end"
  /\ \A p \in 0 .. Len(d.root) * ClusterCells(d) - 1 :
       /\ Place(d, d.root, p) \in DOMAIN d.cells
       /\ IF p < Len(d.dir) THEN d.cells[Place(d, d.root, p)] = d.dir[p + 1]
          ELSE /\ d.cells[Place(d, d.root, p)].kind = "rec"
               /\ d.cells[Place(d, d.root, p)].first = "end"

FilesOn(d) == {e \in Range(d.dir) : e.first = "used" /\ e.attr = "file"}

\* The chain and the contents of a file.
FileStored(d, e) ==
  /\ e.cluster = IF e.chain = <<>> THEN 0 ELSE e.chain[1]
  /\ Chained(d, e.chain, d.file_eoc)
  /\ e.size <= Len(e.chain) * ClusterCells(d)
  /\ \A p \in 0 .. e.size - 1 :
       /\ Place(d, e.chain, p) \in DOMAIN d.cells
       /\ d.cells[Place(d, e.chain, p)] = [kind |-> "data", of |-> e.name, at |-> p]

ASSUME PartAssumption == PART \in 1 .. 4 /\ PT_CELL \in Nat
ASSUME DiskAssumption ==
  \A d \in Disks :
    /\ Readable(d) /\ Linked(d) /\ DirectoryStored(d)
    /\ d.file_eoc \in EOC_MIN .. EOC
    /\ \A e \in FilesOn(d) : FileStored(d, e)
    /\ \A e, f \in FilesOn(d) : e.name = f.name /\ e.ext = f.ext => e = f

\* A range whose end is not beyond the largest unsigned number.
ASSUME CallsAssumption ==
  /\ U32 \in Nat \ {0}
  /\ \A c \in Calls : c.seek \in Nat /\ c.size \in Nat /\ c.seek + c.size < U32

VARIABLES
  disk, call,
  blk, fat32,               \* the device and the data of the file system
  pc, fat_entry, record_cnt,
  rec_ext3,                 \* rec_ext[3] is a blank; not initialised at first
  found,                    \* the record that matched
  last,                     \* the last blk_seek_and_read: its arguments and result
  ret, buf

local == <<fat_entry, record_cnt, rec_ext3, found>>
result == <<ret, buf>>
vars == <<disk, call, blk, fat32, pc, local, last, result>>

None == [kind |-> "none"]
NoRead == [seek |-> 0, bytes |-> 0, buf |-> <<>>]

Init ==
  /\ disk \in Disks /\ call \in Calls
  /\ blk = fd_obtain(get_fd_blk(None))
  /\ fat32 = None
  /\ pc = "init"
  /\ fat_entry = 0 /\ record_cnt = 0 /\ found = None
  /\ rec_ext3 \in BOOLEAN
  /\ last = NoRead
  /\ ret = 0 /\ buf = <<>>

\* Read n cells at a; the device and the observation of the read.
Read(b, a, n) == blk_seek_and_read(b, disk.cells, a, n)
Reads(a, n) ==
  LET r == Read(blk, a, n)
  IN  blk' = r.blk /\ last' = [seek |-> a, bytes |-> n, buf |-> r.buf]

\* FAT32_Init: the partition table, the boot sector, and where things begin.
FAT32_Init ==
  /\ pc = "init"
  /\ LET r1 == Read(blk, PT_CELL, 4)
         start == r1.buf[PART].start_sector
         r2 == Read(r1.blk, SECTOR * start, 1)
         bs == r2.buf[1]
     IN  /\ blk' = r2.blk
         /\ last' = [seek |-> SECTOR * start, bytes |-> 1, buf |-> r2.buf]
         /\ fat32' = [fat_begin_lba |-> start + bs.reserved,
                      cluster_begin_lba |-> start + bs.reserved + bs.fats * bs.sectors_per_fat,
                      sectors_per_cluster |-> bs.sectors_per_cluster,
                      root_dir_first_cluster |-> bs.root]
  /\ pc' = "call"
  /\ UNCHANGED <<disk, call, local, result>>

Return(r, b) == ret' = r /\ buf' = b /\ pc' = "done"

ClusterCell(c) == ClusterAt(fat32, c)
FatCell(c) == FatAt(fat32, c)

\* The name must start with / and be an 8.3 name.
NameOK(f) ==
  /\ f.slash
  /\ f.namelen + f.extlen + (IF f.extlen > 0 THEN 1 ELSE 0) <= 12
  /\ f.namelen <= 8 /\ f.extlen <= 3

CheckName ==
  /\ pc = "call"
  /\ IF NameOK(call.file)
     THEN /\ pc' = "dir" /\ fat_entry' = fat32.root_dir_first_cluster
          /\ record_cnt' = 0 /\ UNCHANGED result
     ELSE Return(-1, <<>>) /\ UNCHANGED <<fat_entry, record_cnt>>
  /\ UNCHANGED <<disk, call, blk, fat32, rec_ext3, found, last>>

\* Mutant: a directory is not skipped.
IsValidFile_Dir(rec) == rec.first = "used" /\ rec.attr # "lfn"

IsValidFile(rec) == rec.first = "used" /\ rec.attr = "file"

\* strcmp of the names.  The blanks that pad a short extension are only cut off when
\* rec_ext[3], which strncpy does not set, happens to be a blank too.
Matches(rec, f, blank) ==
  /\ IsValidFile(rec) /\ rec.name = f.name /\ rec.ext = f.ext
  /\ rec.extlen = 3 \/ blank

\* Mutant: a deleted record ends the directory.
EndsDir_Deleted(rec) == rec.first # "used"

EndsDir(rec) == rec.first = "end"

\* A cell that is not a directory record, read as one.
AsRecord(cell) ==
  IF cell.kind = "rec" THEN cell
  ELSE [first |-> "used", attr |-> "lfn", name |-> "", ext |-> "", extlen |-> 0]

\* The next record of the directory, until a first byte of 0.  The end of the cluster
\* does not stop the loop.
ReadRecord ==
  /\ pc = "dir" /\ fat_entry < EOC
  /\ LET a == ClusterCell(fat_entry) + record_cnt
         rec == AsRecord(Read(blk, a, 1).buf[1])
     IN  /\ Reads(a, 1)
         /\ rec_ext3' = FALSE   \* rec_ext[3] = '\0'
         /\ record_cnt' = record_cnt + 1
         /\ IF Matches(rec, call.file, rec_ext3)
            THEN pc' = "chain" /\ found' = rec /\ fat_entry' = rec.cluster
            ELSE /\ pc' = IF EndsDir(rec) THEN "nextdir" ELSE "dir"
                 /\ UNCHANGED <<found, fat_entry>>
  /\ UNCHANGED <<disk, call, fat32, result>>

\* Mutant: what was read is not taken over.
NextDirCluster_Same ==
  /\ pc = "nextdir"
  /\ Reads(FatCell(fat_entry), 1)
  /\ record_cnt' = 0
  /\ pc' = "dir"
  /\ UNCHANGED <<disk, call, fat32, fat_entry, rec_ext3, found, result>>

\* The next cluster of the directory, from the FAT.
NextDirCluster ==
  /\ pc = "nextdir"
  /\ Reads(FatCell(fat_entry), 1)
  /\ fat_entry' = Read(blk, FatCell(fat_entry), 1).buf[1].entry
  /\ record_cnt' = 0
  /\ pc' = "dir"
  /\ UNCHANGED <<disk, call, fat32, rec_ext3, found, result>>

NotFound ==
  /\ pc = "dir" /\ fat_entry >= EOC
  /\ Return(-1, <<>>)
  /\ UNCHANGED <<disk, call, blk, fat32, local, last>>

\* The clusters of the file must follow each other.
FollowChain ==
  /\ pc = "chain" /\ fat_entry < EOC
  /\ Reads(FatCell(fat_entry), 1)
  /\ LET fat_entry_next == Read(blk, FatCell(fat_entry), 1).buf[1].entry
     IN  IF fat_entry_next < EOC /\ fat_entry_next # fat_entry + 1
         THEN Return(-1, <<>>) /\ UNCHANGED fat_entry
         ELSE fat_entry' = fat_entry_next /\ UNCHANGED <<pc, result>>
  /\ UNCHANGED <<disk, call, fat32, record_cnt, rec_ext3, found>>

\* What is left of the file, in unsigned arithmetic.
Clamp(file_size, seek, size) ==
  IF file_size < (seek + size) % U32 THEN (file_size - seek) % U32 ELSE size

ReadData ==
  /\ pc = "chain" /\ fat_entry >= EOC
  /\ LET size == Clamp(found.size, call.seek, call.size)
         a == ClusterCell(found.cluster) + call.seek
     IN  /\ Reads(a, size)
         /\ Return(size, Read(blk, a, size).buf)
  /\ UNCHANGED <<disk, call, fat32, local>>

FAT32_Read ==
  CheckName \/ ReadRecord \/ NextDirCluster \/ NotFound \/ FollowChain \/ ReadData
Done == pc = "done" /\ UNCHANGED vars

Next == FAT32_Init \/ FAT32_Read \/ Done
Spec == Init /\ [][Next]_vars
FairSpec == Spec /\ WF_vars(FAT32_Init \/ FAT32_Read)

-----------------------------------------------------------------------------

\* blk_seek_and_read returns the cells asked for, for every range that the driver
\* reads: inside a sector, across sectors and up to the end of one, whatever an
\* earlier call has left in the cache.
BlockReadExact ==
  (\A k \in 0 .. last.bytes - 1 : last.seek + k \in DOMAIN disk.cells) =>
    last.buf = [k \in 1 .. last.bytes |-> disk.cells[last.seek + k - 1]]

(* The reference: the files of the root directory, from the description that *)
(* the disk is made of.                                                       *)
Files == FilesOn(disk)
Asked(e) == e.name = call.file.name /\ e.ext = call.file.ext
Contiguous(chain) == \A k \in 1 .. Len(chain) - 1 : chain[k + 1] = chain[k] + 1

\* The driver takes the directory for one run of cells.
DirInOnePiece == Contiguous(disk.root)

MinOf(a, b) == IF a < b THEN a ELSE b

\* What FAT32_Read delivers are the bytes of the file of that name from seek on, as
\* many as were asked for or as there are: never those of a deleted file, of a
\* directory or of a neighbour, and never a file with a hole in its chain.
ReadRight ==
  pc = "done" /\ ret >= 0 /\ DirInOnePiece =>
    \E e \in Files :
      /\ Asked(e) /\ Contiguous(e.chain)
      /\ call.seek <= e.size =>
           /\ ret = MinOf(call.size, e.size - call.seek)
           /\ buf = [k \in 1 .. ret |-> [kind |-> "data", of |-> e.name,
                                         at |-> call.seek + k - 1]]

\* Every file in one piece with an extension of three letters is found, in a directory
\* of one cluster or of several, if its chain ends in the value that the driver knows.
FileFound ==
  pc = "done" /\ DirInOnePiece /\ NameOK(call.file) =>
    \A e \in Files : Asked(e) /\ e.extlen = 3 /\ e.chain # <<>> /\ Contiguous(e.chain)
                         /\ disk.file_eoc = EOC => ret >= 0

\* FAT32_Read returns.
EveryReadReturns == pc = "call" ~> pc = "done"
=============================================================================
