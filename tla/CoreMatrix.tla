----------------------------- MODULE CoreMatrix -----------------------------
(***************************************************************************)
(* The matrix benchmark of CoreMark (core_matrix.c): 16-bit matrices A and *)
(* B, 32-bit results.  A matrix is a function on 0 .. N * N - 1, as in the *)
(* code.                                                                   *)
(***************************************************************************)
EXTENDS Crc, FiniteSets, TLC

\* N for blksize: the largest with N * N * 2 * 4 below it.
Dimension(blksize) == CHOOSE n \in 0 .. blksize : n * n * 8 < blksize /\ (n + 1) * (n + 1) * 8 >= blksize

\* seed before the element of this order is made.
RECURSIVE SeedAt(_, _)
SeedAt(seed, order) ==
  IF order = 0 THEN IF seed = 0 THEN 1 ELSE seed ELSE (order * SeedAt(seed, order - 1)) % 65536

core_init_matrix(blksize, seed) ==
  LET N == Dimension(blksize)
      B == [k \in 0 .. N * N - 1 |-> S16(SeedAt(seed, k + 1) + k + 1)] @@ <<>>
  IN  [N |-> N, B |-> B, A |-> [k \in DOMAIN B |-> S16(B[k] + k + 1) % 256]]

\* The sum of f[0] .. f[n - 1].
RECURSIVE SumTo(_, _)
SumTo(n, f) == IF n = 0 THEN 0 ELSE f[n - 1] + SumTo(n - 1, f)

matrix_add_const(A, val) == [k \in DOMAIN A |-> S16(A[k] + val)]
matrix_mul_const(A, val) == [k \in DOMAIN A |-> A[k] * val]

\* Only the first N elements of C are written.
matrix_mul_vect(N, C, A, B) ==
  [i \in DOMAIN C |-> IF i < N THEN SumTo(N, [j \in 0 .. N - 1 |-> A[i * N + j] * B[j]]) ELSE C[i]]

\* Row k \div N of A times column k % N of B, each product through f.
Product(N, A, B, f(_)) ==
  [k \in DOMAIN A |-> SumTo(N, [j \in 0 .. N - 1 |-> f(A[(k \div N) * N + j] * B[j * N + (k % N)])])]

bit_extract(x, from, to) == (x \div 2 ^ from) % 2 ^ to
matrix_mul_matrix(N, A, B) == Product(N, A, B, LAMBDA x : x)
matrix_mul_matrix_bitextract(N, A, B) ==
  Product(N, A, B, LAMBDA x : bit_extract(x, 2, 4) * bit_extract(x, 5, 7))

RECURSIVE SumFrom(_, _, _, _, _, _)
SumFrom(C, clipval, k, tmp, prev, ret) ==
  IF k \notin DOMAIN C THEN S16(ret)
  ELSE IF tmp + C[k] > clipval THEN SumFrom(C, clipval, k + 1, 0, C[k], ret + 10)
  ELSE SumFrom(C, clipval, k + 1, tmp + C[k], C[k], ret + (IF C[k] > prev THEN 1 ELSE 0))

matrix_sum(C, clipval) == SumFrom(C, clipval, 0, 0, 0, 0)
matrix_big(x) == S16(61440 | x)

\* The matrices after the test, and its checksum.
matrix_test(m, val) ==
  LET A == matrix_add_const(m.A, val) @@ <<>>
      clipval == matrix_big(val)
      C1 == matrix_mul_const(A, val) @@ <<>>
      C2 == matrix_mul_vect(m.N, C1, A, m.B) @@ <<>>
      C3 == matrix_mul_matrix(m.N, A, m.B) @@ <<>>
      C4 == matrix_mul_matrix_bitextract(m.N, A, m.B) @@ <<>>
      sum(C, crc) == crc16(matrix_sum(C, clipval), crc)
  IN  [mat |-> [m EXCEPT !.A = matrix_add_const(A, -val)],
       crc |-> sum(C4, sum(C3, sum(C2, sum(C1, 0))))]

core_bench_matrix(m, seed, crc) ==
  LET t == matrix_test(m, S16(seed)) IN [mat |-> t.mat, crc |-> crc16(t.crc, crc)]
=============================================================================
