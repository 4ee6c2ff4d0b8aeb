------------------------------- MODULE SdCard -------------------------------
(***************************************************************************)
(* The SD card with its controller (rtl/sdcard.v, rtl/sd_controller.v) and *)
(* the block device that the kernel makes of it                            *)
(* (mmio_drivers/sdcard_blk.c, kernel/blk.h).                              *)
(*                                                                         *)
(* The state of the device is one record, so that a driver statement is an *)
(* operator from device to device.  The controller transfers a sector word *)
(* by word while the processor goes on.                                    *)
(***************************************************************************)
EXTENDS Integers

CONSTANTS
  SECTOR_WORDS,  \* 0x200 / 4
  Sectors        \* sectors of the card

ASSUME CardAssumption ==
  SECTOR_WORDS \in Nat \ {0} /\ Sectors \in Nat \ {0}

NOADDR == -1     \* 32'hffffffff, and sector = -1 of get_sd_blk
WordIndex == 0 .. SECTOR_WORDS - 1
Card(W) == [0 .. Sectors - 1 -> [WordIndex -> W]]

Device(W) ==
  [ncd : BOOLEAN, card : Card(W), block : [WordIndex -> W], dirty : BOOLEAN,
   sd_address : Int, op : {"RST", "IDLE", "rd", "wr"}, counter : 0 .. SECTOR_WORDS]

\* After reset the controller initialises the card before it is IDLE.
PowerOn(ncd, card, block) ==
  [ncd |-> ncd, card |-> card, block |-> block, dirty |-> FALSE,
   sd_address |-> NOADDR, op |-> "RST", counter |-> 0]

-----------------------------------------------------------------------------
(* The registers.  A write to a control register while the controller is   *)
(* not ready is ignored.                                                    *)

sd_blk_isready(sd) == sd.op = "IDLE"
sd_blk_isdirty(sd) == sd.dirty

\* The buffer is decoded with the low bits of the address only.
cache(sd, i) == sd.block[i % SECTOR_WORDS]

sd_blk_ioctl(sd, sector) ==
  IF sd_blk_isready(sd) THEN [sd EXCEPT !.sd_address = sector] ELSE sd

sd_blk_load(sd) ==
  IF sd_blk_isready(sd) THEN [sd EXCEPT !.op = "rd", !.counter = 0] ELSE sd

sd_blk_writeback(sd) ==
  IF sd_blk_isready(sd)
  THEN [sd EXCEPT !.op = "wr", !.counter = 0, !.dirty = FALSE] ELSE sd

-----------------------------------------------------------------------------
(* Steps of the controller.  A card that is absent, or an address that the  *)
(* card does not have, is never answered.                                   *)

Initialised(sd) == sd.op = "RST" /\ ~sd.ncd

Transfers(sd) ==
  sd.op \in {"rd", "wr"} /\ sd.counter < SECTOR_WORDS /\ sd.sd_address \in DOMAIN sd.card

Transfer(sd) ==
  IF sd.op = "rd"
  THEN [sd EXCEPT !.block[sd.counter] = sd.card[sd.sd_address][sd.counter],
                  !.counter = @ + 1]
  ELSE [sd EXCEPT !.card[sd.sd_address][sd.counter] = sd.block[sd.counter],
                  !.counter = @ + 1]

Finished(sd) == sd.op \in {"rd", "wr"} /\ sd.counter = SECTOR_WORDS

Idle(sd) == [sd EXCEPT !.op = "IDLE", !.counter = 0]
=============================================================================
