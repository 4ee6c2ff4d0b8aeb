------------------------------- MODULE Cache -------------------------------
(***************************************************************************)
(* The write-back cache between the CPU and main memory                    *)
(* (pCPU/src/rtl/cache_cpu.v with its one way, cacheway.v), one clock edge *)
(* per step.  An address is the pair of a block number and a word offset;  *)
(* the block number is what the code keeps as the tag.                     *)
(***************************************************************************)
EXTENDS Naturals

CONSTANTS
  Blocks,               \* number of blocks of main memory
  WAY_LINES,            \* lines of the cache
  WAY_WORDS_PER_BLOCK,
  Word                  \* contents of a word

ASSUME CacheAssumption ==
  /\ Blocks \in Nat \ {0}
  /\ WAY_LINES \in Nat \ {0}
  /\ WAY_WORDS_PER_BLOCK \in 2 .. 128
  /\ Word # {}

VARIABLES
  c_state,          \* "INIT", "IDLE", "HIT", "LOAD" or "WRITEBACK"
  init_count,       \* the line whose tag cacheway.v clears next; WAY_LINES: done
  tags,             \* per line: block, valid, dirty
  bram,             \* per line and offset: the word
  way_spo,          \* output register of the block RAM
  burst_issue, burst_issue_delayed, burst_we,
  burst_wb_base_a,  \* the block that is written back
  host_a, host_d, host_weorrd,
  xfer_cnt          \* 16 bits

cVars == <<c_state, init_count, tags, bram, way_spo, burst_issue,
           burst_issue_delayed, burst_we, burst_wb_base_a, host_a, host_d,
           host_weorrd, xfer_cnt>>

W == WAY_WORDS_PER_BLOCK
XFER_WRAP == 65536  \* 2^16
Block == 0 .. Blocks - 1
Offset == 0 .. W - 1
Line == 0 .. WAY_LINES - 1
Address == [b : Block, o : Offset]
Tag == [b : Block, valid : BOOLEAN, dirty : BOOLEAN]
Index(b) == b % WAY_LINES

CacheTypeOK ==
  /\ c_state \in {"INIT", "IDLE", "HIT", "LOAD", "WRITEBACK"}
  /\ init_count \in 0 .. WAY_LINES
  /\ tags \in [Line -> Tag]
  /\ bram \in [Line -> [Offset -> Word]]
  /\ way_spo \in Word
  /\ burst_issue \in BOOLEAN /\ burst_issue_delayed \in BOOLEAN
  /\ burst_we \in BOOLEAN
  /\ burst_wb_base_a \in Block
  /\ host_a \in Address /\ host_d \in Word /\ host_weorrd \in BOOLEAN
  /\ xfer_cnt \in 0 .. XFER_WRAP - 1

\* After power on the tags hold anything.
CacheInit(a0, w0) ==
  /\ c_state = "INIT"
  /\ init_count = 0
  /\ tags \in [Line -> Tag]
  /\ bram = [l \in Line |-> [o \in Offset |-> w0]]
  /\ way_spo = w0
  /\ burst_issue = FALSE /\ burst_issue_delayed = FALSE /\ burst_we = FALSE
  /\ burst_wb_base_a = a0.b
  /\ host_a = a0 /\ host_d = w0 /\ host_weorrd = FALSE
  /\ xfer_cnt = 0

-----------------------------------------------------------------------------
\* Outputs.
ready(we, rd) == ~(we \/ rd) /\ c_state = "IDLE"
lowmem_rd == c_state = "LOAD" /\ burst_issue
lowmem_we == c_state = "WRITEBACK" /\ burst_issue_delayed /\ ~burst_issue
lowmem_a == IF c_state = "WRITEBACK" THEN burst_wb_base_a ELSE host_a.b
lowmem_d == way_spo

\* A clock edge of the way: the word at a is written when we, and read (its old
\* contents); the tag of a's line is replaced when tag_we.
Way(a, d, we, tag_we, tag_in) ==
  /\ way_spo' = bram[Index(a.b)][a.o]
  /\ bram' = IF we THEN [bram EXCEPT ![Index(a.b)][a.o] = d] ELSE bram
  /\ tags' = IF tag_we THEN [tags EXCEPT ![Index(a.b)] = tag_in] ELSE tags

way_hit(a) == tags[Index(a.b)].valid /\ tags[Index(a.b)].b = a.b

\* The way clears its tags, one in a clock; the cache waits until it is done.
ClearTags ==
  /\ c_state = "INIT"
  /\ IF init_count < WAY_LINES
       THEN /\ tags' = [tags EXCEPT ![init_count] =
                          [b |-> 0, valid |-> FALSE, dirty |-> FALSE]]
            /\ init_count' = init_count + 1
            /\ UNCHANGED c_state
       ELSE /\ c_state' = "IDLE"
            /\ UNCHANGED <<tags, init_count>>
  /\ UNCHANGED <<bram, way_spo, burst_issue, burst_we, burst_wb_base_a, host_a,
                 host_d, host_weorrd, xfer_cnt>>

\* Mutant: a write that hits leaves the line clean.
Idle_StaysClean(we, rd, a, d) ==
  LET tag == tags[Index(a.b)]
      hit == (we \/ rd) /\ way_hit(a)
      miss == (we \/ rd) /\ ~way_hit(a)
      writeback == miss /\ tag.valid /\ tag.dirty
  IN
  /\ c_state = "IDLE"
  /\ Way(a, d, hit /\ we, hit,
         [b |-> a.b, valid |-> TRUE, dirty |-> tag.dirty])
  /\ xfer_cnt' = 0
  /\ burst_issue' = TRUE
  /\ IF we \/ rd THEN host_a' = a /\ host_d' = d /\ host_weorrd' = we
                 ELSE UNCHANGED <<host_a, host_d, host_weorrd>>
  /\ c_state' = IF writeback THEN "WRITEBACK" ELSE IF miss THEN "LOAD" ELSE "IDLE"
  /\ burst_wb_base_a' = IF writeback THEN tag.b ELSE burst_wb_base_a
  /\ UNCHANGED <<init_count, burst_we>>

\* Mutant: the block is written back to the address of the new one.
Idle_WrongBase(we, rd, a, d) ==
  LET tag == tags[Index(a.b)]
      hit == (we \/ rd) /\ way_hit(a)
      miss == (we \/ rd) /\ ~way_hit(a)
      writeback == miss /\ tag.valid /\ tag.dirty
  IN
  /\ c_state = "IDLE"
  /\ Way(a, d, hit /\ we, hit,
         [b |-> a.b, valid |-> TRUE, dirty |-> we \/ tag.dirty])
  /\ xfer_cnt' = 0
  /\ burst_issue' = TRUE
  /\ IF we \/ rd THEN host_a' = a /\ host_d' = d /\ host_weorrd' = we
                 ELSE UNCHANGED <<host_a, host_d, host_weorrd>>
  /\ c_state' = IF writeback THEN "WRITEBACK" ELSE IF miss THEN "LOAD" ELSE "IDLE"
  /\ burst_wb_base_a' = IF writeback THEN a.b ELSE burst_wb_base_a
  /\ UNCHANGED <<init_count, burst_we>>

\* A request that hits is done in this clock; one that misses is remembered.
Idle(we, rd, a, d) ==
  LET tag == tags[Index(a.b)]
      hit == (we \/ rd) /\ way_hit(a)
      miss == (we \/ rd) /\ ~way_hit(a)
      writeback == miss /\ tag.valid /\ tag.dirty
  IN
  /\ c_state = "IDLE"
  /\ Way(a, d, hit /\ we, hit,
         [b |-> a.b, valid |-> TRUE, dirty |-> we \/ tag.dirty])
  /\ xfer_cnt' = 0
  /\ burst_issue' = TRUE
  /\ IF we \/ rd THEN host_a' = a /\ host_d' = d /\ host_weorrd' = we
                 ELSE UNCHANGED <<host_a, host_d, host_weorrd>>
  /\ c_state' = IF writeback THEN "WRITEBACK" ELSE IF miss THEN "LOAD" ELSE "IDLE"
  /\ burst_wb_base_a' = IF writeback THEN tag.b ELSE burst_wb_base_a
  /\ UNCHANGED <<init_count, burst_we>>

\* The block has been loaded: do what the host asked for.
Hit(a) ==
  /\ c_state = "HIT"
  /\ Way(host_a, host_d, host_weorrd, TRUE,
         [b |-> a.b, valid |-> TRUE,
          dirty |-> host_weorrd \/ tags[Index(host_a.b)].dirty])
  /\ c_state' = "IDLE"
  /\ UNCHANGED <<init_count, burst_issue, burst_we, burst_wb_base_a, host_a,
                 host_d, host_weorrd, xfer_cnt>>

\* Mutant: the last word sent is taken for the last word written.
Writeback_LastSent(a, lowmem_ready) ==
  /\ c_state = "WRITEBACK"
  /\ Way([b |-> burst_wb_base_a, o |-> xfer_cnt % W], host_d, FALSE, burst_issue,
         [b |-> a.b, valid |-> TRUE, dirty |-> FALSE])
  /\ IF burst_issue
       THEN /\ burst_issue' = FALSE
            /\ xfer_cnt' = 0
            /\ UNCHANGED c_state
       ELSE /\ xfer_cnt' = IF lowmem_ready THEN (xfer_cnt + 1) % XFER_WRAP ELSE xfer_cnt
            /\ IF xfer_cnt = W - 1
                 THEN c_state' = "LOAD" /\ burst_issue' = TRUE
                 ELSE UNCHANGED <<c_state, burst_issue>>
  /\ UNCHANGED <<init_count, burst_we, burst_wb_base_a, host_a, host_d, host_weorrd>>

\* The tag already gets the new block in the first clock of the write-back.
Writeback(a, lowmem_ready) ==
  /\ c_state = "WRITEBACK"
  /\ Way([b |-> burst_wb_base_a, o |-> xfer_cnt % W], host_d, FALSE, burst_issue,
         [b |-> a.b, valid |-> TRUE, dirty |-> FALSE])
  /\ IF burst_issue
       THEN /\ burst_issue' = FALSE
            /\ xfer_cnt' = 0
            /\ UNCHANGED c_state
       ELSE /\ xfer_cnt' = IF lowmem_ready THEN (xfer_cnt + 1) % XFER_WRAP ELSE xfer_cnt
            /\ IF xfer_cnt = W
                 THEN c_state' = "LOAD" /\ burst_issue' = TRUE
                 ELSE UNCHANGED <<c_state, burst_issue>>
  /\ UNCHANGED <<init_count, burst_we, burst_wb_base_a, host_a, host_d, host_weorrd>>

\* Mutant: the counter is wider than the code's.
Load_Wide(a, lowmem_ready, lowmem_spo) ==
  /\ c_state = "LOAD"
  /\ Way([b |-> host_a.b, o |-> xfer_cnt % W], lowmem_spo, burst_we, burst_issue,
         [b |-> a.b, valid |-> TRUE, dirty |-> FALSE])
  /\ IF burst_issue
       THEN /\ burst_issue' = FALSE
            /\ xfer_cnt' = XFER_WRAP - 1
            /\ UNCHANGED <<c_state, burst_we>>
       ELSE /\ xfer_cnt' = IF lowmem_ready THEN xfer_cnt + 1 ELSE xfer_cnt
            /\ burst_we' = (lowmem_ready /\ xfer_cnt # W - 1)
            /\ c_state' = IF lowmem_ready /\ xfer_cnt = W - 1 THEN "HIT" ELSE "LOAD"
            /\ UNCHANGED burst_issue
  /\ UNCHANGED <<init_count, burst_wb_base_a, host_a, host_d, host_weorrd>>

\* A word arrives with each ready and is written in the clock after it.
Load(a, lowmem_ready, lowmem_spo) ==
  /\ c_state = "LOAD"
  /\ Way([b |-> host_a.b, o |-> xfer_cnt % W], lowmem_spo, burst_we, burst_issue,
         [b |-> a.b, valid |-> TRUE, dirty |-> FALSE])
  /\ IF burst_issue
       THEN /\ burst_issue' = FALSE
            /\ xfer_cnt' = XFER_WRAP - 1
            /\ UNCHANGED <<c_state, burst_we>>
       ELSE /\ xfer_cnt' = IF lowmem_ready THEN (xfer_cnt + 1) % XFER_WRAP ELSE xfer_cnt
            /\ burst_we' = (lowmem_ready /\ xfer_cnt # W - 1)
            /\ c_state' = IF lowmem_ready /\ xfer_cnt = W - 1 THEN "HIT" ELSE "LOAD"
            /\ UNCHANGED burst_issue
  /\ UNCHANGED <<init_count, burst_wb_base_a, host_a, host_d, host_weorrd>>

CacheClock(we, rd, a, d, lowmem_ready, lowmem_spo) ==
  /\ burst_issue_delayed' = burst_issue
  /\ \/ ClearTags \/ Idle(we, rd, a, d) \/ Hit(a)
     \/ Writeback(a, lowmem_ready) \/ Load(a, lowmem_ready, lowmem_spo)

=============================================================================
