----------------------------- MODULE CoreState -----------------------------
(***************************************************************************)
(* The state machine of CoreMark (core_state.c): a block of text with      *)
(* numbers in it, the scanner that classifies them, and the benchmark that *)
(* scans, corrupts, scans and repairs the block.  A block is a sequence of *)
(* character codes; offset p of the code is element p + 1.                 *)
(***************************************************************************)
EXTENDS Crc

COMMA == 44
DOT == 46
Signs == {43, 45}
Exps == {69, 101}
ee_isdigit(c) == c \in 48 .. 57

\* enum CORE_STATE
CORE_START == 0
CORE_INVALID == 1
CORE_S1 == 2
CORE_S2 == 3
CORE_INT == 4
CORE_FLOAT == 5
CORE_EXPONENT == 6
CORE_SCIENTIFIC == 7
NoCounts == [s \in CORE_START .. CORE_SCIENTIFIC |-> 0]

intpat == << <<53, 48, 49, 50>>, <<49, 50, 51, 52>>, <<45, 56, 55, 52>>, <<43, 49, 50, 50>> >>
floatpat == << <<51, 53, 46, 53, 52, 52, 48, 48>>, <<46, 49, 50, 51, 52, 53, 48, 48>>,
               <<45, 49, 49, 48, 46, 55, 48, 48>>, <<43, 48, 46, 54, 52, 52, 48, 48>> >>
scipat == << <<53, 46, 53, 48, 48, 101, 43, 51>>, <<45, 46, 49, 50, 51, 101, 45, 50>>,
             <<45, 56, 55, 101, 43, 56, 51, 50>>, <<43, 48, 46, 54, 101, 45, 49, 50>> >>
errpat == << <<84, 48, 46, 51, 101, 45, 49, 70>>, <<45, 84, 46, 84, 43, 43, 84, 113>>,
             <<49, 84, 51, 46, 52, 101, 52, 122>>, <<51, 52, 46, 48, 101, 45, 84, 94>> >>

Pattern(seed) ==
  LET k == ((seed \div 8) % 4) + 1
  IN  CASE seed % 8 \in 0 .. 2 -> intpat[k]
        [] seed % 8 \in 3 .. 4 -> floatpat[k]
        [] seed % 8 \in 5 .. 6 -> scipat[k]
        [] seed % 8 = 7 -> errpat[k]

\* p is what has been written so far, buf the pattern that comes next.
RECURSIVE InitState(_, _, _, _)
InitState(size, seed, p, buf) ==
  IF Len(p) + Len(buf) + 1 < size - 1
  THEN InitState(size, seed + 1, IF buf = <<>> THEN p ELSE p \o buf \o <<COMMA>>,
                 Pattern(seed + 1))
  ELSE p \o [k \in 1 .. size - Len(p) |-> 0]

\* Mutant: no room is kept for the second zero.
core_init_state_Tight(size, seed) == SubSeq(InitState(size + 1, seed, <<>>, <<>>), 1, size)

core_init_state(size, seed) == InitState(size, seed, <<>>, <<>>)

NextState(state, c) ==
  CASE state = CORE_START -> IF ee_isdigit(c) THEN CORE_INT ELSE IF c \in Signs THEN CORE_S1
                             ELSE IF c = DOT THEN CORE_FLOAT ELSE CORE_INVALID
    [] state = CORE_S1 -> IF ee_isdigit(c) THEN CORE_INT
                          ELSE IF c = DOT THEN CORE_FLOAT ELSE CORE_INVALID
    [] state = CORE_INT -> IF c = DOT THEN CORE_FLOAT
                           ELSE IF ee_isdigit(c) THEN CORE_INT ELSE CORE_INVALID
    [] state = CORE_FLOAT -> IF c \in Exps THEN CORE_S2
                             ELSE IF ee_isdigit(c) THEN CORE_FLOAT ELSE CORE_INVALID
    [] state = CORE_S2 -> IF c \in Signs THEN CORE_EXPONENT ELSE CORE_INVALID
    [] OTHER -> IF ee_isdigit(c) THEN CORE_SCIENTIFIC ELSE CORE_INVALID

\* The members of transition_count that a transition increments.
Counted(state, next) ==
  CASE state = CORE_START -> {CORE_START} \cup (IF next = CORE_INVALID THEN {next} ELSE {})
    [] state # CORE_START /\ next = state -> {}
    [] state = CORE_SCIENTIFIC /\ next # state -> {CORE_INVALID}
    [] OTHER -> {state}

\* Behind the block the scanner reads what follows; here it stops there.
Byte(mem, p) == IF p + 1 \in DOMAIN mem THEN mem[p + 1] ELSE 0

\* From offset p on: the final state of the token, where the next one begins, and the
\* transition counts.  A comma ends a token; a byte that does not fit ends it as
\* invalid, and the rest of it is a token of its own.
RECURSIVE core_state_transition(_, _, _, _)
core_state_transition(mem, p, state, track) ==
  LET c == Byte(mem, p)
      next == NextState(state, c)
  IN  IF c = 0 \/ state = CORE_INVALID THEN [state |-> state, p |-> p, track |-> track]
      ELSE IF c = COMMA THEN [state |-> state, p |-> p + 1, track |-> track]
      ELSE core_state_transition(mem, p + 1, next,
             [s \in DOMAIN track |-> IF s \in Counted(state, next) THEN track[s] + 1 ELSE track[s]])

\* Every step-th byte but a comma, xor seed.
Corrupt(mem, seed, step) ==
  [k \in DOMAIN mem |->
     IF (k - 1) % step = 0 /\ mem[k] # COMMA THEN mem[k] ^^ (seed % 256) ELSE mem[k]]

RECURSIVE CrcCounts(_, _, _, _)
CrcCounts(s, final, track, crc) ==
  IF s > CORE_SCIENTIFIC THEN crc
  ELSE CrcCounts(s + 1, final, track, crcu32(track[s], crcu32(final[s], crc)))

=============================================================================
