-------------------------------- MODULE Blk --------------------------------
(***************************************************************************)
(* The block layer (kernel/blk.c) over the device that the host build      *)
(* gives it: a disk image opened for reading (host/fd_blk.c).  A device    *)
(* has one sector of cache; every call is one operator from device to      *)
(* device, and blk_seek_and_read goes through the sectors of a range.      *)
(*                                                                         *)
(* The unit of addresses is a cell of the disk: a byte of data, an entry   *)
(* of a table or a directory record.                                       *)
(***************************************************************************)
EXTENDS Integers, Sequences

CONSTANT SECTOR  \* 0x200

ASSUME SectorAssumption == SECTOR \in Nat \ {0}

NOSECTOR == -1
Offsets == 0 .. SECTOR - 1

\* get_fd_blk; the cache is not initialised.
get_fd_blk(garbage) ==
  [sector |-> NOSECTOR, obtained |-> FALSE, cache |-> [o \in Offsets |-> garbage]]

fd_obtain(blk) == [blk EXCEPT !.obtained = TRUE]
fd_ioctl(blk, sector) == [blk EXCEPT !.sector = sector]
fd_isdirty(blk) == TRUE

\* The image is open for reading only: fwrite fails.
fd_writeback(blk) == blk

\* fread behind the end of the image leaves the cache as it is.
fd_load(blk, disk) ==
  IF blk.sector * SECTOR \in DOMAIN disk
  THEN [blk EXCEPT !.cache = [o \in Offsets |-> disk[blk.sector * SECTOR + o]]]
  ELSE blk

\* What one sector contributes to a range: the part from..to-1 of the cache.
Part(blk, from, to) == [k \in 1 .. to - from |-> blk.cache[from + k - 1]]

\* Mutant: the sector of the last byte, without adjusting bytes_end.
SectorEnd_Last(seek, bytes) == (seek + bytes - 1) \div SECTOR

\* The sector of the byte behind the range: one too many if the range ends with a sector.
SectorEnd(seek, bytes) == (seek + bytes) \div SECTOR

\* One pass of the loop: sector sec is loaded, and its part of the range is added to
\* the buffer.
ReadSector(acc, disk, seek, bytes, sec) ==
  LET b    == fd_load(fd_ioctl(acc.blk, sec), disk)
      from == IF sec = seek \div SECTOR THEN seek % SECTOR ELSE 0
      to   == IF sec = SectorEnd(seek, bytes) THEN (seek + bytes) % SECTOR ELSE SECTOR
  IN  [blk |-> b, buf |-> acc.buf \o Part(b, from, to)]

\* The number of sectors that the loop goes through.
Count(seek, bytes) == SectorEnd(seek, bytes) - (seek \div SECTOR) + 1

\* The device and the buffer after n passes.
Passes(blk, disk, seek, bytes) ==
  LET after[n \in 0 .. Count(seek, bytes)] ==
        IF n = 0
        THEN [blk |-> IF fd_isdirty(blk) THEN fd_writeback(blk) ELSE blk, buf |-> <<>>]
        ELSE ReadSector(after[n - 1], disk, seek, bytes, (seek \div SECTOR) + n - 1)
  IN  after

blk_seek_and_read(blk, disk, seek, bytes) ==
  LET all == Passes(blk, disk, seek, bytes)[Count(seek, bytes)]
  IN  IF ~blk.obtained THEN [ret |-> -1, blk |-> blk, buf |-> <<>>]
      ELSE [ret |-> Len(all.buf), blk |-> all.blk, buf |-> all.buf]
=============================================================================
