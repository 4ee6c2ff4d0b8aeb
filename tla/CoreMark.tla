------------------------------ MODULE CoreMark ------------------------------
(***************************************************************************)
(* CoreMark (pCPU/coremark), the program that the processor is measured    *)
(* with: main and iterate (core_main.c), the linked list (core_list_join.c)*)
(* on a heap of nodes, and the benchmarks that comparing two list items    *)
(* runs.  Bytes and checksums are those of the program, so that the known  *)
(* results in core_main.c are results of the model, too.                   *)
(*                                                                         *)
(* A list item has a node, with next and info, and a data item that info   *)
(* points to.  data16 is kept as an ee_u16.                                *)
(***************************************************************************)
EXTENDS CoreState, CoreMatrix, SequencesExt

CONSTANTS
  Params,       \* [seed1, seed2, seed3, TOTAL_DATA_SIZE] of a run
  ITERATIONS

\* The list has an item besides its head and its tail.
ASSUME ParamsAssumption ==
  /\ ITERATIONS \in Nat \ {0}
  /\ \A p \in Params : (p.TOTAL_DATA_SIZE \div 3) \div 20 >= 6

NULL == -1
NUM_ALGORITHMS == 3

VARIABLES
  pc, res,
  next, info, data,   \* the list's nodes and data items
  memblock,           \* the next free node; data items are taken in step with nodes
  list,               \* the head as the running function knows it
  ms,                 \* the variables of core_list_mergesort
  fsm,                \* the variables of core_bench_state
  bench,              \* the variables of core_bench_list
  i,                  \* the loop counter of core_list_init and of iterate
  seen                \* history: lists and blocks as they were

heap == <<next, info, data, memblock>>
vars == <<pc, res, heap, list, ms, fsm, bench, i, seen>>

NoSort == [cmp |-> "idx"]
NoScan == [mem |-> <<>>]
NoBench == [finder_idx |-> 0]

\* size of core_list_init, per_item = 16 + sizeof(struct list_data_s)
ListSize == (res.size \div 20) - 2

\* The nodes from n to last, or to the end of the list.
PathTo(nx, n, last) ==
  LET max == Cardinality(DOMAIN nx) + 1
      walk[m \in DOMAIN nx \cup {NULL}, fuel \in 0 .. max] ==
        IF m = NULL \/ fuel = 0 THEN <<>>
        ELSE IF m = last THEN <<m>> ELSE <<m>> \o walk[nx[m], fuel - 1]
  IN  walk[n, max]
Path(nx, n) == PathTo(nx, n, NULL)

Data(n) == data[info[n]]
Contents(nodes) == [k \in DOMAIN nodes |-> Data(nodes[k])]

-----------------------------------------------------------------------------
(* main: the memory is divided between the algorithms and initialised.       *)

Init ==
  /\ \E p \in Params :
       LET size == p.TOTAL_DATA_SIZE \div NUM_ALGORITHMS
       IN  /\ res = [seed1 |-> p.seed1, seed2 |-> p.seed2, seed3 |-> p.seed3, size |-> size,
                     mat |-> core_init_matrix(size, p.seed1 + p.seed2 * 65536),
                     memblock3 |-> core_init_state(size, p.seed1),
                     list |-> 0, crc |-> 0, crclist |-> 0, crcmatrix |-> 0, crcstate |-> 0]
           /\ LET n == (size \div 20) - 2
              IN  next = [k \in 0 .. n - 1 |-> IF k = 0 THEN 1 ELSE NULL]
                  /\ info = [k \in 0 .. n - 1 |-> k]
                  /\ data = [k \in 0 .. n - 1 |->
                       IF k = 0 THEN [idx |-> 0, data16 |-> 32896]         \* the head, 0x8080
                       ELSE [idx |-> 32767, data16 |-> 65535]]             \* the tail
  /\ memblock = 2 /\ list = 0
  /\ pc = "insert" /\ i = 0
  /\ ms = NoSort /\ fsm = NoScan /\ bench = NoBench
  /\ seen = [list |-> <<>>, before |-> <<>>]

\* core_list_insert_new finds no room.
Full(m) == m + 1 >= ListSize

\* An item of core_list_init, inserted behind the head.
core_list_insert_new ==
  /\ pc = "insert" /\ i < ListSize
  /\ LET datpat == (res.seed1 ^^ i) % 16
         dat == datpat * 8 + (i % 8)
     IN  IF Full(memblock) THEN UNCHANGED heap
         ELSE /\ next' = [next EXCEPT ![memblock] = next[list], ![list] = memblock]
              /\ data' = [data EXCEPT ![memblock] = [idx |-> 32767, data16 |-> dat * 256 + dat]]
              /\ memblock' = memblock + 1
              /\ UNCHANGED info
  /\ i' = i + 1
  /\ UNCHANGED <<pc, res, list, ms, fsm, bench, seen>>

\* core_list_mergesort is called, with the place where it returns to.
Sort(cmp, ret) ==
  /\ pc' = "sort"
  /\ ms' = [cmp |-> cmp, ret |-> ret, insize |-> 1, nmerges |-> 0, p |-> NULL, q |-> NULL,
            psize |-> 0, qsize |-> 0, tail |-> NULL]
  /\ seen' = [seen EXCEPT !.before = Path(next, list)]

\* The items but the tail are numbered: the first fifth in order, the others mixed.
Idx(k) ==
  IF k < ListSize \div 5 THEN k
  ELSE ((((k + 1) % 8) * 256) | U16(k ^^ res.seed1)) % 16384

core_list_init ==
  /\ pc = "insert" /\ i = ListSize
  /\ LET nodes == Path(next, list)
     IN  data' = [d \in DOMAIN data |->
           IF \E k \in 2 .. Len(nodes) - 1 : info[nodes[k]] = d
           THEN [data[d] EXCEPT !.idx = Idx((CHOOSE k \in DOMAIN nodes : info[nodes[k]] = d) - 1)]
           ELSE data[d]]
  /\ Sort("idx", "main")
  /\ i' = 0
  /\ UNCHANGED <<res, next, info, memblock, list, fsm, bench>>

-----------------------------------------------------------------------------
(* core_list_mergesort.                                                      *)

SortPass ==
  /\ pc = "sort"
  /\ ms' = [ms EXCEPT !.p = list, !.tail = NULL, !.nmerges = 0]
  /\ list' = NULL
  /\ pc' = "runs"
  /\ UNCHANGED <<res, heap, fsm, bench, i, seen>>

\* Two runs of insize items, one from p and one from q.
SortRuns ==
  /\ pc = "runs" /\ ms.p # NULL
  /\ LET rest == Path(next, ms.p)
         n == IF Len(rest) < ms.insize THEN Len(rest) ELSE ms.insize
     IN  ms' = [ms EXCEPT !.nmerges = @ + 1, !.psize = n, !.qsize = ms.insize,
                          !.q = IF n < Len(rest) THEN rest[n + 1] ELSE NULL]
  /\ pc' = "merge"
  /\ UNCHANGED <<res, heap, list, fsm, bench, i, seen>>

Merging == ms.psize > 0 \/ (ms.qsize > 0 /\ ms.q # NULL)
Comparing == ms.psize > 0 /\ ms.qsize > 0 /\ ms.q # NULL

Cached(d) == (d.data16 \div 128) % 2 = 1
Low7(d) == d.data16 % 128

\* The result of a benchmark, or the data itself, cached in the low byte.
Cache(d, retval) == [d EXCEPT !.data16 = (@ \div 256) * 256 + 128 + (retval % 128)]

\* The next call of calc_func that cmp_complex makes and that has to calculate.
Uncached == IF ~ Cached(Data(ms.p)) THEN ms.p ELSE ms.q
Calculating ==
  /\ pc = "merge" /\ Comparing /\ ms.cmp = "complex"
  /\ ~ (Cached(Data(ms.p)) /\ Cached(Data(ms.q)))
Flag == Data(Uncached).data16 % 8

\* bits 3-6, replicated
Dtype == LET d == (Data(Uncached).data16 \div 8) % 16 IN d * 17

FirstOf(old, new) == IF old = 0 THEN new ELSE old

calc_func_state ==
  /\ Calculating /\ Flag = 0
  /\ fsm' = [mem |-> res.memblock3, p |-> 0, pass |-> 1, final |-> NoCounts, track |-> NoCounts,
             step |-> IF Dtype < 34 THEN 34 ELSE Dtype,
             token |-> [from |-> 0, to |-> 0, state |-> CORE_START]]
  /\ pc' = "scan"
  /\ UNCHANGED <<res, heap, list, ms, bench, i, seen>>

calc_func_matrix ==
  /\ Calculating /\ Flag = 1
  /\ LET b == core_bench_matrix(res.mat, Dtype, res.crc)
     IN  /\ res' = [res EXCEPT !.mat = b.mat, !.crcmatrix = FirstOf(@, b.crc),
                               !.crc = crcu16(b.crc, @)]
         /\ data' = [data EXCEPT ![info[Uncached]] = Cache(@, b.crc)]
  /\ UNCHANGED <<pc, next, info, memblock, list, ms, fsm, bench, i, seen>>

calc_func_data ==
  /\ Calculating /\ Flag > 1
  /\ data' = [data EXCEPT ![info[Uncached]] = Cache(@, @.data16)]
  /\ res' = [res EXCEPT !.crc = crcu16(Data(Uncached).data16, @)]
  /\ UNCHANGED <<pc, next, info, memblock, list, ms, fsm, bench, i, seen>>

\* cmp_idx brings the data of both items back from the high byte.
Regen(d) == [d EXCEPT !.data16 = (@ \div 256) * 257]

\* Mutant: the data is not regenerated.
cmp_idx_Compare(dat, a, b) == dat

cmp_idx(dat, a, b) == [dat EXCEPT ![a] = Regen(@), ![b] = Regen(@)]

\* Mutant: equal items are taken from q.
TakeP_Less(vp, vq) == vp < vq

TakeP(vp, vq) == vp - vq <= 0

\* The next item of the merged list.
SortMerge ==
  /\ pc = "merge" /\ Merging /\ ~ Calculating
  /\ LET compare == IF ms.cmp = "idx" THEN TakeP(Data(ms.p).idx, Data(ms.q).idx)
                    ELSE TakeP(Low7(Data(ms.p)), Low7(Data(ms.q)))
         fromP == ms.psize > 0 /\ (Comparing => compare)
         e == IF fromP THEN ms.p ELSE ms.q
     IN  /\ data' = IF Comparing /\ ms.cmp = "idx" THEN cmp_idx(data, info[ms.p], info[ms.q])
                    ELSE data
         /\ ms' = IF fromP
                  THEN [ms EXCEPT !.p = next[e], !.psize = @ - 1, !.tail = e]
                  ELSE [ms EXCEPT !.q = next[e], !.qsize = @ - 1, !.tail = e]
         /\ IF ms.tail # NULL THEN next' = [next EXCEPT ![ms.tail] = e] /\ UNCHANGED list
            ELSE list' = e /\ UNCHANGED next
  /\ UNCHANGED <<pc, res, info, memblock, fsm, bench, i, seen>>

SortNextRuns ==
  /\ pc = "merge" /\ ~ Merging
  /\ ms' = [ms EXCEPT !.p = ms.q]
  /\ pc' = "runs"
  /\ UNCHANGED <<res, heap, list, fsm, bench, i, seen>>

Grown(insize) == insize * 2

SortPassDone ==
  /\ pc = "runs" /\ ms.p = NULL
  /\ next' = [next EXCEPT ![ms.tail] = NULL]
  /\ IF ms.nmerges <= 1 THEN pc' = "sorted" /\ UNCHANGED ms
     ELSE pc' = "sort" /\ ms' = [ms EXCEPT !.insize = Grown(@)]
  /\ UNCHANGED <<res, info, data, memblock, list, fsm, bench, i, seen>>

core_list_mergesort == SortPass \/ SortRuns \/ SortMerge \/ SortNextRuns \/ SortPassDone

-----------------------------------------------------------------------------
(* core_bench_state, called by calc_func.                                    *)

ScanToken ==
  /\ pc = "scan" /\ Byte(fsm.mem, fsm.p) # 0
  /\ LET t == core_state_transition(fsm.mem, fsm.p, CORE_START, fsm.track)
     IN  fsm' = [fsm EXCEPT !.p = t.p, !.track = t.track, !.final[t.state] = @ + 1,
                            !.token = [from |-> fsm.p, to |-> t.p, state |-> t.state]]
  /\ UNCHANGED <<pc, res, heap, list, ms, bench, i, seen>>

ScanCorrupt ==
  /\ pc = "scan" /\ Byte(fsm.mem, fsm.p) = 0 /\ fsm.pass = 1
  /\ fsm' = [fsm EXCEPT !.mem = Corrupt(@, res.seed1, fsm.step), !.p = 0, !.pass = 2]
  /\ UNCHANGED <<pc, res, heap, list, ms, bench, i, seen>>

ScanReturn ==
  /\ pc = "scan" /\ Byte(fsm.mem, fsm.p) = 0 /\ fsm.pass = 2
  /\ LET crc == CrcCounts(CORE_START, fsm.final, fsm.track, res.crc)
     IN  /\ res' = [res EXCEPT !.memblock3 = Corrupt(fsm.mem, res.seed2, fsm.step),
                               !.crcstate = FirstOf(@, crc), !.crc = crcu16(crc, @)]
         /\ data' = [data EXCEPT ![info[Uncached]] = Cache(@, crc)]
  /\ fsm' = NoScan
  /\ pc' = "merge"
  /\ UNCHANGED <<next, info, memblock, list, ms, bench, i, seen>>

core_bench_state == ScanToken \/ ScanCorrupt \/ ScanReturn

-----------------------------------------------------------------------------
(* core_bench_list, called by iterate.                                       *)

NewBench(finder_idx) ==
  [finder_idx |-> finder_idx, idx |-> finder_idx, data16 |-> 0, round |-> 0,
   found |-> 0, missed |-> 0, retval |-> 0, remover |-> NULL]

\* The first item from n on that b.idx, or if that is negative b.data16, asks for.
core_list_find(n, b) ==
  LET nodes == Path(next, n)
      wanted(k) == IF b.idx >= 0 THEN Data(nodes[k]).idx = b.idx
                   ELSE Data(nodes[k]).data16 % 256 = b.data16
  IN  IF \E k \in DOMAIN nodes : wanted(k)
      THEN nodes[CHOOSE k \in DOMAIN nodes : wanted(k) /\ \A l \in 1 .. k - 1 : ~ wanted(l)]
      ELSE NULL

\* next after the list of these nodes has been reversed.
core_list_reverse(nodes) ==
  [n \in DOMAIN next |->
     IF \E k \in DOMAIN nodes : nodes[k] = n
     THEN LET k == CHOOSE k \in DOMAIN nodes : nodes[k] = n IN IF k = 1 THEN NULL ELSE nodes[k - 1]
     ELSE next[n]]

\* Mutant: the item behind the found one is not taken out first.
ToFront_Twice(nx, head, f) ==
  LET finder == nx[f]
      n2 == [nx EXCEPT ![finder] = nx[head]]
  IN  [n2 EXCEPT ![head] = finder]

\* The item behind f goes to the place behind the head.
ToFront(nx, head, f) ==
  LET finder == nx[f]
      n1 == [nx EXCEPT ![f] = nx[finder]]
      n2 == [n1 EXCEPT ![finder] = n1[head]]
  IN  [n2 EXCEPT ![head] = finder]

Bit(x, n) == (x \div 2 ^ n) % 2

FindRound ==
  /\ pc = "find" /\ bench.round < res.seed3
  /\ LET b == [bench EXCEPT !.data16 = bench.round % 256]
         this_find == core_list_find(list, b)
         head == Last(Path(next, list))
         nx == core_list_reverse(Path(next, list))
         found == this_find # NULL
         gain == IF ~ found THEN Bit(Data(nx[head]).data16, 8)
                 ELSE Bit(Data(this_find).data16, 0) * Bit(Data(this_find).data16, 9)
     IN  /\ next' = IF found /\ nx[this_find] # NULL THEN ToFront(nx, head, this_find) ELSE nx
         /\ list' = head
         /\ bench' = [b EXCEPT !.round = @ + 1, !.idx = IF @ >= 0 THEN @ + 1 ELSE @,
                               !.found = IF found THEN @ + 1 ELSE @,
                               !.missed = IF found THEN @ ELSE @ + 1,
                               !.retval = U16(@ + gain)]
  /\ UNCHANGED <<pc, res, info, data, memblock, ms, fsm, i, seen>>

FindDone ==
  /\ pc = "find" /\ bench.round >= res.seed3
  /\ bench' = [bench EXCEPT !.retval = U16(@ + bench.found * 4 - bench.missed)]
  /\ IF bench.finder_idx > 0 THEN Sort("complex", "remove")
     ELSE pc' = "remove" /\ UNCHANGED <<ms, seen>>
  /\ UNCHANGED <<res, heap, list, fsm, i>>

SwapInfo(a, b) == [info EXCEPT ![a] = info[b], ![b] = info[a]]
Pairs == [k \in DOMAIN Path(next, list) |-> <<Path(next, list)[k], info[Path(next, list)[k]]>>]

core_list_remove ==
  /\ pc = "remove" \/ (pc = "sorted" /\ ms.ret = "remove")
  /\ LET item == next[list]
         ret == next[item]
     IN  /\ info' = SwapInfo(item, ret)
         /\ next' = [next EXCEPT ![item] = next[ret], ![ret] = NULL]
         /\ bench' = [bench EXCEPT !.remover = ret]
  /\ pc' = "crc"
  /\ seen' = [seen EXCEPT !.before = Pairs]
  /\ UNCHANGED <<res, data, memblock, list, ms, fsm, i>>

\* The checksum takes the head's data, once for every item from n on.
RECURSIVE CrcTimes(_, _, _)
CrcTimes(n, d, crc) == IF n = 0 THEN crc ELSE CrcTimes(n - 1, d, crc16(d, crc))
CrcFrom(n, crc) == CrcTimes(Len(Path(next, n)), Data(list).data16, crc)

CrcRemoved ==
  /\ pc = "crc"
  /\ LET finder == core_list_find(list, bench)
     IN  bench' = [bench EXCEPT !.retval = CrcFrom(IF finder = NULL THEN next[list] ELSE finder, @)]
  /\ pc' = "undo"
  /\ UNCHANGED <<res, heap, list, ms, fsm, i, seen>>

core_list_undo_remove ==
  /\ pc = "undo"
  /\ LET modified == next[list]
     IN  /\ info' = SwapInfo(bench.remover, modified)
         /\ next' = [next EXCEPT ![bench.remover] = next[modified], ![modified] = bench.remover]
  /\ pc' = "undone"
  /\ UNCHANGED <<res, data, memblock, list, ms, fsm, bench, i, seen>>

SortBack ==
  /\ pc = "undone"
  /\ Sort("idx", "return")
  /\ UNCHANGED <<res, heap, list, fsm, bench, i>>

-----------------------------------------------------------------------------
(* iterate and the report of main.                                           *)

\* core_list_init returns, and the first iteration begins.
iterate ==
  /\ pc = "sorted" /\ ms.ret = "main"
  /\ res' = [res EXCEPT !.list = list]
  /\ seen' = [list |-> Contents(Path(next, list)), before |-> <<>>, A |-> res.mat.A,
              mem |-> res.memblock3]
  /\ bench' = NewBench(1)
  /\ pc' = "find"
  /\ UNCHANGED <<heap, list, ms, fsm, i>>

\* core_bench_list returns: the second one of the iteration, the next iteration, or the end.
core_bench_list ==
  /\ pc = "sorted" /\ ms.ret = "return"
  /\ LET crc == crcu16(CrcFrom(next[list], bench.retval), res.crc)
         second == bench.finder_idx < 0
     IN  /\ res' = [res EXCEPT !.crc = crc,
                               !.crclist = IF second /\ i = 0 THEN crc ELSE @]
         /\ i' = IF second THEN i + 1 ELSE i
         /\ bench' = NewBench(IF second THEN 1 ELSE -1)
         /\ pc' = IF second /\ i + 1 = ITERATIONS THEN "report" ELSE "find"
  /\ list' = res.list
  /\ UNCHANGED <<heap, ms, fsm, seen>>

seedcrc == crc16(res.size, crc16(res.seed3, crc16(res.seed2, crc16(res.seed1, 0))))

\* Per seedcrc: list_known_crc, matrix_known_crc, state_known_crc.
Known(crc) ==
  CASE crc = 35330 -> <<54448, 48722, 24135>>   \* 0x8a02: 6k performance
    [] crc = 31493 -> <<13120, 4505, 14783>>    \* 0x7b05: 6k validation
    [] crc = 20143 -> <<27257, 22024, 58788>>   \* 0x4eaf: profile generation
    [] crc = 59893 -> <<59156, 8151, 36410>>    \* 0xe9f5: 2k performance
    [] crc = 6386 -> <<58305, 1863, 36228>>     \* 0x18f2: 2k validation
    [] OTHER -> <<>>

\* The comparison with the known checksums.  The run is taken to have lasted the ten
\* seconds that main asks for, with the data types that check_data_types expects.
main ==
  /\ pc = "report"
  /\ LET known == Known(seedcrc)
         got == <<res.crclist, res.crcmatrix, res.crcstate>>
         err == Cardinality({k \in DOMAIN known : got[k] # known[k]})
     IN  bench' = [total_errors |-> IF known = <<>> THEN -1 ELSE err]
  /\ pc' = "done"
  /\ UNCHANGED <<res, heap, list, ms, fsm, i, seen>>

Done == pc = "done" /\ UNCHANGED vars

Step ==
  \/ core_list_insert_new \/ core_list_init \/ core_list_mergesort
  \/ calc_func_state \/ calc_func_matrix \/ calc_func_data \/ core_bench_state
  \/ FindRound \/ FindDone \/ core_list_remove \/ CrcRemoved \/ core_list_undo_remove
  \/ SortBack \/ iterate \/ core_bench_list \/ main
Next == Step \/ Done
Spec == Init /\ [][Next]_vars

-----------------------------------------------------------------------------

(* Seeds and size per algorithm of the runs that core_portme.c offers.       *)
KnownRuns == {<<0, 0, 102, 666>>, <<13333, 13333, 102, 666>>, <<8, 8, 8, 400>>}

\* For the seeds whose results core_main.c knows, main recognises the run and the checksums
\* of the list, of the matrix and of the state machine are the known ones: "Correct
\* operation validated".
KnownResults ==
  pc = "done" /\ <<res.seed1, res.seed2, res.seed3, res.size>> \in KnownRuns =>
    bench.total_errors = 0

\* "At the end of this function, the list is back to original state" (core_bench_list):
\* order, index and data, seen from the head that res->list has kept, though finding has
\* reversed and rearranged it and sorting has overwritten the data with results.
ListRestored ==
  pc = "sorted" /\ ms.ret = "return" => Contents(Path(next, res.list)) = seen.list

\* Every benchmark leaves its block as it found it ("After the last step, matrix A is back
\* to original contents", "undo corruption"), or the next iteration would compute another
\* result.
BlocksRestored ==
  "mem" \in DOMAIN seen /\ res.seed1 = res.seed2 =>
    res.memblock3 = seen.mem /\ res.mat.A = seen.A

\* After every round the list, the matrices and the text are what they were before it.
Restored == ListRestored /\ BlocksRestored

\* The nodes that the running function still holds, in whatever piece of the list.
Held ==
  CASE pc \in {"merge", "scan"} ->
         PathTo(next, list, ms.tail) \o SubSeq(Path(next, ms.p), 1, ms.psize) \o Path(next, ms.q)
    [] pc = "runs" -> PathTo(next, list, ms.tail) \o Path(next, ms.p)
    [] pc \in {"crc", "undo"} -> Append(Path(next, list), bench.remover)
    [] OTHER -> Path(next, list)

\* No operation on the list loses a node, links one twice or closes a cycle, at any point
\* of a merge or between a remove and its undoing; and core_list_undo_remove brings the same
\* nodes back in the same order, with the same data items.
NothingLost ==
  /\ Len(Held) = memblock /\ Range(Held) = 0 .. memblock - 1
  /\ pc = "undone" => Pairs = seen.before

Key(n) == IF ms.cmp = "idx" THEN Data(n).idx ELSE Low7(Data(n))
Position(nodes, n) == CHOOSE k \in DOMAIN nodes : nodes[k] = n

\* Before each pass of core_list_mergesort the list consists of sorted runs of insize items.
RunsSorted ==
  pc = "sort" =>
    LET nodes == Path(next, list)
    IN  \A k \in 1 .. Len(nodes) - 1 : k % ms.insize # 0 => Key(nodes[k]) <= Key(nodes[k + 1])

\* core_list_mergesort returns the items in order, equal ones in the order they had.
SortStable ==
  pc = "sorted" =>
    LET nodes == Path(next, list)
    IN  \A k, l \in DOMAIN nodes : k < l =>
          \/ Key(nodes[k]) < Key(nodes[l])
          \/ /\ Key(nodes[k]) = Key(nodes[l])
             /\ Position(seen.before, nodes[k]) < Position(seen.before, nodes[l])

\* core_list_mergesort sorts, and every pass doubles the length of what is sorted.
SortRight == RunsSorted /\ SortStable

(* The reference for a token: sign? digit+, sign? digit* . digit*, and the latter with *)
(* an exponent e sign digit+.                                                            *)
Digits == 48 .. 57
AllDigits(t) == \A k \in DOMAIN t : t[k] \in Digits
Unsigned(t) == IF t # <<>> /\ t[1] \in {43, 45} THEN Tail(t) ELSE t
Upto(t, k) == SubSeq(t, 1, k - 1)
Behind(t, k) == SubSeq(t, k + 1, Len(t))
IsInt(t) == t # <<>> /\ AllDigits(t)
IsFloat(t) == \E k \in DOMAIN t : t[k] = 46 /\ AllDigits(Upto(t, k)) /\ AllDigits(Behind(t, k))
IsScientific(t) ==
  \E k \in DOMAIN t : /\ t[k] \in {69, 101} /\ IsFloat(Upto(t, k))
                      /\ Len(t) > k + 1 /\ t[k + 1] \in {43, 45}
                      /\ AllDigits(Behind(t, k + 1))

\* core_state_transition says of a token that it is an integer, a float or a number with an
\* exponent exactly if it is one, in the block as made and in the corrupted one.
TokenRight ==
  pc = "scan" /\ fsm.token.to > fsm.token.from =>
    LET from == fsm.token.from
        last == Byte(fsm.mem, fsm.token.to - 1)
        text == SubSeq(fsm.mem, from + 1, IF last = 44 THEN fsm.token.to - 1 ELSE fsm.token.to)
        t == Unsigned(text)
    IN  fsm.p > 0 => /\ fsm.token.state = CORE_INT <=> IsInt(t)
                     /\ fsm.token.state = CORE_FLOAT <=> IsFloat(t)
                     /\ fsm.token.state = CORE_SCIENTIFIC <=> IsScientific(t)

\* The scanner, which stops only at a zero byte, stays in the block, though every step-th
\* byte, a zero byte among them, is corrupted between its two passes.
ScanInBlock == pc = "scan" => fsm.p < Len(fsm.mem)

\* The scanner of core_state.c classifies every token of the block and nothing behind it.
ScanRight == TokenRight /\ ScanInBlock
=============================================================================
