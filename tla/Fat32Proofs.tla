---------------------------- MODULE Fat32Proofs ----------------------------
(***************************************************************************)
(* The block layer and the FAT32 driver, for every sector size, every disk *)
(* of DiskAssumption and every call of CallsAssumption.                    *)
(*                                                                         *)
(* First what blk_seek_and_read returns, by induction over the passes of   *)
(* its loop.  Then the driver: it never looks up a cluster that the FAT    *)
(* does not have, so every read is exact; the walk through the directory   *)
(* meets its records one by one up to the end mark; the chain followed is  *)
(* the file's, so that its cells are one run on the disk.                  *)
(***************************************************************************)
EXTENDS Fat32, TLAPS, NaturalsInduction, WellFoundedInduction, SequenceTheorems

-----------------------------------------------------------------------------
(* Induction over the passes of a loop.                                    *)

LEMMA SetInduction ==
  ASSUME NEW S, 0 \in S, \A n \in Nat : n \in S => n + 1 \in S
  PROVE  Nat \subseteq S
<1> DEFINE R == {ss \in Nat \X Nat : ss[1] < ss[2]}
           T == {n \in Nat : n \notin S}
<1>1. IsWellFoundedOn(R, Nat)
  BY NatLessThanWellFounded DEF OpToRel
<1>2. SUFFICES ASSUME T # {} PROVE FALSE
  OBVIOUS
<1>3. T \subseteq Nat
  OBVIOUS
<1>4. PICK x \in T : \A y \in T : ~(<<y, x>> \in R)
  BY <1>1, <1>2, <1>3, WFMin
<1>5. x \in Nat \ {0} /\ x - 1 \in Nat
  OBVIOUS
<1>6. ~(x - 1 \in T /\ <<x - 1, x>> \in R)
  BY <1>4
<1>7. <<x - 1, x>> \in R
  BY <1>5
<1>8. x - 1 \in S
  BY <1>5, <1>6, <1>7
<1>9. (x - 1) + 1 = x
  BY <1>5
<1> QED
  BY <1>5, <1>8, <1>9

-----------------------------------------------------------------------------
(* Sectors.                                                                *)

LEMMA DivModBy ==
  ASSUME NEW a \in Int, NEW d \in Int, d > 0,
         NEW x \in Int, x = a \div d, NEW y \in Int, y = a % d
  PROVE  a = x * d + y
  OBVIOUS

LEMMA DivMod ==
  ASSUME NEW a \in Int
  PROVE  \E x \in Int, y \in 0 .. SECTOR - 1 :
           x = a \div SECTOR /\ y = a % SECTOR /\ a = x * SECTOR + y
<1>1. SECTOR \in Int /\ SECTOR > 0
  BY SectorAssumption
<1>2. PICK x \in Int : x = a \div SECTOR
  BY <1>1
<1>3. PICK y \in 0 .. SECTOR - 1 : y = a % SECTOR
  BY <1>1
<1>4. y \in Int
  BY <1>1, <1>3
<1>5. a = x * SECTOR + y
  BY <1>1, <1>2, <1>3, <1>4, DivModBy
<1> QED
  BY <1>2, <1>3, <1>5

LEMMA Monotone ==
  ASSUME NEW d \in Nat \ {0}, NEW e \in Int, NEW a \in Int, NEW q \in 0 .. d - 1,
         NEW r \in 0 .. d - 1, a * d + r <= e * d + q
  PROVE  a <= e
<1>1. SUFFICES ASSUME a >= e + 1 PROVE FALSE
  OBVIOUS
<1>2. a * d >= (e + 1) * d
  BY <1>1
<1>3. (e + 1) * d = e * d + d
  OBVIOUS
<1> QED
  BY <1>2, <1>3

\* The bounds of a range: cell r of sector a to cell q of sector e.
Bounds(seek, bytes, a, r, e, q) ==
  /\ a \in Int /\ r \in 0 .. SECTOR - 1 /\ e \in Int /\ q \in 0 .. SECTOR - 1
  /\ a = seek \div SECTOR /\ r = seek % SECTOR
  /\ e = SectorEnd(seek, bytes) /\ q = (seek + bytes) % SECTOR
  /\ Count(seek, bytes) = e - a + 1 /\ a <= e
  /\ seek = a * SECTOR + r /\ seek + bytes = e * SECTOR + q

LEMMA RangeBounds ==
  ASSUME NEW seek \in Int, NEW bytes \in Nat
  PROVE  \E a, r, e, q : Bounds(seek, bytes, a, r, e, q)
<1>1. PICK a \in Int, r \in 0 .. SECTOR - 1 :
        a = seek \div SECTOR /\ r = seek % SECTOR /\ seek = a * SECTOR + r
  BY DivMod
<1>2. PICK z \in Int : z = seek + bytes
  OBVIOUS
<1>3. PICK e \in Int, q \in 0 .. SECTOR - 1 :
        e = z \div SECTOR /\ q = z % SECTOR /\ z = e * SECTOR + q
  BY DivMod
<1>4. SECTOR \in Nat \ {0}
  BY SectorAssumption
<1>5. a * SECTOR + r <= e * SECTOR + q
  BY <1>1, <1>2, <1>3
<1>6. a <= e
  BY <1>4, <1>5, Monotone
<1>7. SectorEnd(seek, bytes) = e /\ Count(seek, bytes) = e - a + 1
  BY <1>1, <1>2, <1>3 DEF SectorEnd, Count
<1>8. q = (seek + bytes) % SECTOR /\ seek + bytes = e * SECTOR + q
  BY <1>2, <1>3
<1>9. Bounds(seek, bytes, a, r, e, q)
  BY <1>1, <1>6, <1>7, <1>8 DEF Bounds
<1> QED
  BY <1>9

LEMMA CountNat ==
  ASSUME NEW seek \in Int, NEW bytes \in Nat
  PROVE  Count(seek, bytes) \in Nat /\ Count(seek, bytes) >= 1
<1>1. PICK a, r, e, q : Bounds(seek, bytes, a, r, e, q)
  BY RangeBounds
<1>2. a \in Int /\ e \in Int /\ Count(seek, bytes) = e - a + 1 /\ a <= e
  BY <1>1 DEF Bounds
<1> QED
  BY <1>2

\* The recursive function of the loop is what its equation says.
LEMMA PassesDefined ==
  ASSUME NEW b, NEW d, NEW seek \in Int, NEW bytes \in Nat
  PROVE  /\ Passes(b, d, seek, bytes)[0] = [blk |-> b, buf |-> <<>>]
         /\ \A n \in 1 .. Count(seek, bytes) :
              Passes(b, d, seek, bytes)[n] =
                ReadSector(Passes(b, d, seek, bytes)[n - 1], d, seek, bytes,
                           (seek \div SECTOR) + n - 1)
<1> DEFINE N == Count(seek, bytes)
           First == [blk |-> IF fd_isdirty(b) THEN fd_writeback(b) ELSE b, buf |-> <<>>]
           Step(acc, n) == ReadSector(acc, d, seek, bytes, (seek \div SECTOR) + n - 1)
           Upto(f, m) == f = [n \in 0 .. m |-> IF n = 0 THEN First ELSE Step(f[n - 1], n)]
           S == {m \in Nat : \E f : Upto(f, m)}
<1>1. N \in Nat
  BY CountNat
<1>2. Passes(b, d, seek, bytes) = CHOOSE f : Upto(f, N)
  BY DEF Passes
<1> HIDE DEF First, Step, N
<1>3. 0 \in S
  <2>1. Upto([n \in 0 .. 0 |-> First], 0)
    OBVIOUS
  <2> QED BY <2>1
<1>4. ASSUME NEW m \in Nat, m \in S PROVE m + 1 \in S
  <2>1. PICK f : Upto(f, m)
    BY <1>4
  <2> DEFINE g == [n \in 0 .. m + 1 |-> IF n = m + 1 THEN Step(f[m], m + 1) ELSE f[n]]
  <2>2. \A n \in 0 .. m + 1 : g[n] = IF n = 0 THEN First ELSE Step(g[n - 1], n)
    <3> TAKE n \in 0 .. m + 1
    <3>1. CASE n = m + 1
      <4>1. g[m + 1] = Step(f[m], m + 1) /\ g[m] = f[m] /\ (m + 1) - 1 = m /\ m + 1 # 0
        OBVIOUS
      <4> HIDE DEF g
      <4> QED BY <3>1, <4>1
    <3>2. CASE n \in 0 .. m
      <4>1. g[n] = f[n] /\ (n # 0 => g[n - 1] = f[n - 1])
        BY <3>2
      <4>2. f[n] = IF n = 0 THEN First ELSE Step(f[n - 1], n)
        BY <2>1, <3>2
      <4> HIDE DEF g
      <4> QED BY <4>1, <4>2
    <3> QED BY <3>1, <3>2
  <2>3. Upto(g, m + 1)
    <3>1. g = [n \in 0 .. m + 1 |-> g[n]]
      OBVIOUS
    <3> HIDE DEF g
    <3> QED BY <2>2, <3>1
  <2> HIDE DEF g, Upto
  <2> QED BY <2>3
<1>5. N \in S
  <2> HIDE DEF S
  <2>1. Nat \subseteq S
    BY <1>3, <1>4, SetInduction
  <2> QED BY <1>1, <2>1
<1>6. Upto(Passes(b, d, seek, bytes), N)
  <2>1. \E f : Upto(f, N)
    BY <1>5
  <2> HIDE DEF Upto
  <2> QED BY <1>2, <2>1
<1>7. \A n \in 0 .. N : Passes(b, d, seek, bytes)[n] =
        IF n = 0 THEN First ELSE Step(Passes(b, d, seek, bytes)[n - 1], n)
  <2>1. PICK p : p = Passes(b, d, seek, bytes)
    OBVIOUS
  <2>2. p = [n \in 0 .. N |-> IF n = 0 THEN First ELSE Step(p[n - 1], n)]
    BY <1>6, <2>1
  <2>3. \A n \in 0 .. N : p[n] = IF n = 0 THEN First ELSE Step(p[n - 1], n)
    BY <2>2
  <2> QED BY <2>1, <2>3
<1>8. First = [blk |-> b, buf |-> <<>>]
  BY DEF First, fd_isdirty, fd_writeback
<1>9. 0 \in 0 .. N /\ \A n \in 1 .. N : n \in 0 .. N /\ n # 0
  BY <1>1
<1>10. \A n \in 1 .. N : Passes(b, d, seek, bytes)[n] =
         Step(Passes(b, d, seek, bytes)[n - 1], n)
  BY <1>7, <1>9
<1> QED
  BY <1>7, <1>8, <1>9, <1>10 DEF Step, N

-----------------------------------------------------------------------------
(* One pass.                                                               *)

Device(V) == [sector : Int, obtained : BOOLEAN, cache : [Offsets -> V]]

\* The disk consists of whole sectors.
WholeDisk(d, V) ==
  /\ \A x \in DOMAIN d : d[x] \in V
  /\ \A s \in Int, o \in Offsets : s * SECTOR \in DOMAIN d <=> s * SECTOR + o \in DOMAIN d

\* The buffer holds the first g cells of the range, where they are on the disk.
Holds(acc, d, V, seek, g) ==
  /\ acc.blk \in Device(V) /\ acc.blk.obtained
  /\ acc.buf \in Seq(V) /\ Len(acc.buf) = g
  /\ \A k \in 1 .. g : seek + k - 1 \in DOMAIN d => acc.buf[k] = d[seek + k - 1]

LEMMA Loaded ==
  ASSUME NEW d, NEW V, WholeDisk(d, V), NEW b \in Device(V), NEW sec \in Int
  PROVE  /\ fd_load(fd_ioctl(b, sec), d) \in Device(V)
         /\ fd_load(fd_ioctl(b, sec), d).obtained = b.obtained
         /\ \A o \in Offsets : sec * SECTOR + o \in DOMAIN d =>
              fd_load(fd_ioctl(b, sec), d).cache[o] = d[sec * SECTOR + o]
<1>1. PICK c : c = fd_ioctl(b, sec)
  OBVIOUS
<1>2. c \in Device(V) /\ c.sector = sec /\ c.obtained = b.obtained
  BY <1>1 DEF Device, fd_ioctl
<1>3. CASE sec * SECTOR \in DOMAIN d
  <2> DEFINE new == [o \in Offsets |-> d[sec * SECTOR + o]]
  <2>1. fd_load(c, d) = [c EXCEPT !.cache = new]
    BY <1>2, <1>3 DEF fd_load
  <2>2. \A o \in Offsets : sec * SECTOR + o \in DOMAIN d
    BY <1>3 DEF WholeDisk
  <2>3. \A o \in Offsets : d[sec * SECTOR + o] \in V
    BY <2>2 DEF WholeDisk
  <2>4. new \in [Offsets -> V] /\ \A o \in Offsets : new[o] = d[sec * SECTOR + o]
    BY <2>3
  <2> HIDE DEF new
  <2>5. fd_load(c, d) \in Device(V) /\ fd_load(c, d).cache = new /\ fd_load(c, d).obtained = c.obtained
    BY <1>2, <2>1, <2>4 DEF Device
  <2> QED
    BY <1>1, <1>2, <2>4, <2>5
<1>4. CASE sec * SECTOR \notin DOMAIN d
  <2>1. fd_load(c, d) = c
    BY <1>2, <1>4 DEF fd_load
  <2>2. \A o \in Offsets : sec * SECTOR + o \notin DOMAIN d
    BY <1>4 DEF WholeDisk
  <2> QED
    BY <1>1, <1>2, <2>1, <2>2
<1> QED
  BY <1>3, <1>4

LEMMA SectorStep ==
  ASSUME NEW d, NEW V, WholeDisk(d, V), NEW seek \in Int, NEW acc, NEW g \in Nat,
         Holds(acc, d, V, seek, g), NEW sec \in Int, NEW from \in Nat, NEW to \in Nat,
         from <= to, to <= SECTOR, sec * SECTOR + from = seek + g,
         NEW b, b = fd_load(fd_ioctl(acc.blk, sec), d)
  PROVE  Holds([blk |-> b, buf |-> acc.buf \o Part(b, from, to)], d, V, seek, g + (to - from))
<1>1. /\ b \in Device(V) /\ b.obtained
      /\ \A o \in Offsets : sec * SECTOR + o \in DOMAIN d => b.cache[o] = d[sec * SECTOR + o]
  BY Loaded DEF Holds
<1>2. PICK p : p = Part(b, from, to)
  OBVIOUS
<1>3. PICK m \in Nat : m = to - from
  OBVIOUS
<1>4. \A k \in 1 .. m : from + k - 1 \in Offsets
  BY <1>3, SectorAssumption DEF Offsets
<1>5. p = [k \in 1 .. m |-> b.cache[from + k - 1]]
  BY <1>2, <1>3 DEF Part
<1>6. \A k \in 1 .. m : b.cache[from + k - 1] \in V
  BY <1>1, <1>4 DEF Device
<1>7. p \in Seq(V) /\ Len(p) = m /\ \A k \in 1 .. m : p[k] = b.cache[from + k - 1]
  BY <1>5, <1>6
<1>8. PICK t : t = acc.buf \o p
  OBVIOUS
<1>9. /\ t \in Seq(V) /\ Len(t) = g + m
      /\ \A k \in 1 .. g : t[k] = acc.buf[k]
      /\ \A k \in g + 1 .. g + m : t[k] = p[k - g]
  <2>1. PICK u : u = acc.buf
    OBVIOUS
  <2>2. u \in Seq(V) /\ Len(u) = g
    BY <2>1 DEF Holds
  <2>3. p \in Seq(V) /\ Len(p) = m
    BY <1>7
  <2>4. /\ u \o p \in Seq(V) /\ Len(u \o p) = Len(u) + Len(p)
        /\ \A k \in 1 .. Len(u) : (u \o p)[k] = u[k]
        /\ \A k \in Len(u) + 1 .. Len(u) + Len(p) : (u \o p)[k] = p[k - Len(u)]
    <3>1. u \o p \in Seq(V) /\ Len(u \o p) = Len(u) + Len(p)
      BY <2>2, <2>3
    <3>2. \A k \in 1 .. Len(u) : (u \o p)[k] = u[k]
      BY <2>2, <2>3
    <3>3. \A k \in Len(u) + 1 .. Len(u) + Len(p) : (u \o p)[k] = p[k - Len(u)]
      BY <2>2, <2>3
    <3> QED BY <3>1, <3>2, <3>3
  <2>5. t = u \o p
    BY <1>8, <2>1
  <2> QED
    BY <2>1, <2>2, <2>3, <2>4, <2>5, Zenon
<1>10. ASSUME NEW k \in 1 .. g + m, seek + k - 1 \in DOMAIN d
       PROVE  t[k] = d[seek + k - 1]
  <2>1. CASE k \in 1 .. g
    BY <1>9, <1>10, <2>1 DEF Holds
  <2>2. CASE k \in g + 1 .. g + m
    <3>1. PICK j \in 1 .. m : j = k - g
      BY <2>2
    <3>2. t[k] = b.cache[from + j - 1]
      BY <1>7, <1>9, <2>2, <3>1
    <3>3. PICK o \in Offsets : o = from + j - 1
      BY <1>4, <3>1
    <3>4. PICK y \in Int : y = sec * SECTOR
      BY SectorAssumption
    <3>5. y + o = seek + k - 1
      BY <3>1, <3>3, <3>4
    <3>6. b.cache[o] = d[y + o]
      BY <1>1, <1>10, <3>4, <3>5
    <3> QED
      BY <3>2, <3>3, <3>5, <3>6
  <2> QED
    BY <2>1, <2>2
<1>11. g + (to - from) = g + m
  BY <1>3
<1>12. PICK new : new = [blk |-> b, buf |-> t]
  OBVIOUS
<1>13. Holds(new, d, V, seek, g + m)
  BY <1>1, <1>9, <1>10, <1>12 DEF Holds
<1> QED
  BY <1>2, <1>8, <1>11, <1>12, <1>13

\* What the buffer holds after n passes: all of the range after the last one.
Got(seek, bytes, n) ==
  IF n = 0 THEN 0 ELSE IF n = Count(seek, bytes) THEN bytes ELSE n * SECTOR - (seek % SECTOR)

LEMMA PassBounds ==
  ASSUME NEW seek \in Int, NEW bytes \in Nat, NEW n \in Nat, n < Count(seek, bytes),
         NEW sec, sec = (seek \div SECTOR) + n,
         NEW from, from = IF sec = seek \div SECTOR THEN seek % SECTOR ELSE 0,
         NEW to, to = IF sec = SectorEnd(seek, bytes) THEN (seek + bytes) % SECTOR ELSE SECTOR
  PROVE  /\ sec \in Int /\ from \in Nat /\ to \in Nat /\ from <= to /\ to <= SECTOR
         /\ Got(seek, bytes, n) \in Nat
         /\ sec * SECTOR + from = seek + Got(seek, bytes, n)
         /\ Got(seek, bytes, n + 1) = Got(seek, bytes, n) + (to - from)
<1>1. PICK a, r, e, q : Bounds(seek, bytes, a, r, e, q)
  BY RangeBounds
<1>2. /\ a \in Int /\ r \in 0 .. SECTOR - 1 /\ e \in Int /\ q \in 0 .. SECTOR - 1
      /\ a <= e /\ seek = a * SECTOR + r /\ seek + bytes = e * SECTOR + q
      /\ SECTOR \in Nat \ {0}
  BY <1>1, SectorAssumption DEF Bounds
<1>0. /\ seek \div SECTOR = a /\ seek % SECTOR = r /\ SectorEnd(seek, bytes) = e
      /\ (seek + bytes) % SECTOR = q /\ Count(seek, bytes) = e - a + 1
  BY <1>1 DEF Bounds
<1>3. /\ sec = a + n /\ n <= e - a
      /\ from = IF n = 0 THEN r ELSE 0
      /\ to = IF n = e - a THEN q ELSE SECTOR
  <2>1. sec = a + n /\ n <= e - a
    BY <1>0, <1>2
  <2>2. sec = a <=> n = 0
    BY <1>2, <2>1
  <2>3. sec = e <=> n = e - a
    BY <1>2, <2>1
  <2> QED
    BY <1>0, <2>1, <2>2, <2>3, Zenon
<1>4. PICK g : g = Got(seek, bytes, n)
  OBVIOUS
<1>5. PICK h : h = Got(seek, bytes, n + 1)
  OBVIOUS
<1>6. g = IF n = 0 THEN 0 ELSE n * SECTOR - r
  <2>1. n # Count(seek, bytes)
    OBVIOUS
  <2>2. g = IF n = 0 THEN 0 ELSE n * SECTOR - (seek % SECTOR)
    BY <1>4, <2>1 DEF Got
  <2>3. n * SECTOR - (seek % SECTOR) = n * SECTOR - r
    BY <1>0, <1>2
  <2> QED BY <2>2, <2>3
<1>7. h = IF n = e - a THEN bytes ELSE (n + 1) * SECTOR - r
  <2>1. n + 1 # 0
    OBVIOUS
  <2>2. n + 1 = Count(seek, bytes) <=> n = e - a
    BY <1>0, <1>2
  <2>3. h = IF n + 1 = Count(seek, bytes) THEN bytes ELSE (n + 1) * SECTOR - (seek % SECTOR)
    BY <1>5, <2>1 DEF Got
  <2>4. (n + 1) * SECTOR - (seek % SECTOR) = (n + 1) * SECTOR - r
    BY <1>0, <1>2
  <2> QED BY <2>2, <2>3, <2>4
<1>8. sec \in Int /\ from \in Nat /\ to \in Nat /\ to <= SECTOR
  BY <1>2, <1>3
<1>9. PICK A \in Int : A = a * SECTOR
  BY <1>2
<1>10. PICK M \in Int : M = n * SECTOR
  BY <1>2
<1>11. (a + n) * SECTOR = A + M /\ (n + 1) * SECTOR = M + SECTOR /\ (n = 0 => M = 0)
  BY <1>2, <1>9, <1>10
<1>12. n # 0 => M >= SECTOR
  BY <1>2, <1>10
<1>13. n = e - a => seek + bytes = A + M + q
  <2>1. SUFFICES ASSUME n = e - a PROVE seek + bytes = A + M + q
    OBVIOUS
  <2>2. e = a + n
    BY <1>2, <2>1
  <2>3. e * SECTOR = A + M
    BY <1>11, <2>2
  <2> QED BY <1>2, <2>3
<1>14. seek = A + r
  BY <1>2, <1>9
<1> HIDE <1>2
<1>15. r \in 0 .. SECTOR - 1 /\ q \in 0 .. SECTOR - 1 /\ SECTOR \in Nat \ {0}
  BY <1>2
<1>16. g \in Nat
  BY <1>6, <1>10, <1>12, <1>15
<1>17. sec * SECTOR + from = seek + g
  BY <1>3, <1>6, <1>10, <1>11, <1>14, <1>15
<1>18. h = g + (to - from)
  <2>1. CASE n = e - a
    <3>1. h = bytes /\ to = q
      BY <1>3, <1>7, <2>1
    <3>2. A + r + bytes = A + M + q
      BY <1>13, <1>14, <2>1
    <3>3. h = M + q - r
      BY <1>9, <1>10, <1>15, <3>1, <3>2
    <3>4. CASE n = 0
      <4>1. g = 0 /\ from = r /\ M = 0
        BY <1>3, <1>6, <1>11, <3>4
      <4> QED BY <1>15, <3>1, <3>3, <4>1
    <3>5. CASE n # 0
      <4>1. g = M - r /\ from = 0
        BY <1>3, <1>6, <1>10, <3>5
      <4> QED BY <1>10, <1>15, <3>1, <3>3, <4>1
    <3> QED BY <3>4, <3>5
  <2>2. CASE n # e - a
    <3>1. h = M + SECTOR - r /\ to = SECTOR
      BY <1>3, <1>7, <1>11, <2>2
    <3> QED BY <1>3, <1>6, <1>10, <1>11, <1>15, <3>1
  <2> QED BY <2>1, <2>2
<1>19. from <= to
  <2>1. CASE n = e - a /\ n = 0
    <3>1. h = bytes /\ g = 0
      BY <1>6, <1>7, <2>1
    <3> QED BY <1>8, <1>18, <3>1
  <2>2. CASE ~(n = e - a /\ n = 0)
    BY <1>3, <1>15, <2>2
  <2> QED BY <2>1, <2>2
<1> QED
  BY <1>4, <1>5, <1>8, <1>16, <1>17, <1>18, <1>19

\* A read delivers as many cells as asked for, those of the disk where it has them;
\* a cell behind the end of the disk is whatever the cache held.
LEMMA ReadExact ==
  ASSUME NEW d, NEW V, WholeDisk(d, V), NEW b \in Device(V), b.obtained,
         NEW seek \in Int, NEW bytes \in Nat
  PROVE  Holds(blk_seek_and_read(b, d, seek, bytes), d, V, seek, bytes)
<1> DEFINE N == Count(seek, bytes)
           P == Passes(b, d, seek, bytes)
           G(n) == Got(seek, bytes, n)
           S == {n \in Nat : n <= N => Holds(P[n], d, V, seek, G(n))}
<1>1. N \in Nat /\ N >= 1
  BY CountNat
<1>2. /\ P[0] = [blk |-> b, buf |-> <<>>]
      /\ \A n \in 1 .. N : P[n] = ReadSector(P[n - 1], d, seek, bytes, (seek \div SECTOR) + n - 1)
  BY PassesDefined
<1>3. G(0) = 0 /\ G(N) = bytes
  BY <1>1 DEF Got
<1> HIDE DEF N, P, G
<1>4. 0 \in S
  <2>1. PICK x : x = [blk |-> b, buf |-> <<>>]
    OBVIOUS
  <2>2. Holds(x, d, V, seek, 0)
    BY <2>1 DEF Holds
  <2> QED BY <1>2, <1>3, <2>1, <2>2
<1>5. ASSUME NEW n \in Nat, n \in S PROVE n + 1 \in S
  <2>1. SUFFICES ASSUME n + 1 <= N PROVE Holds(P[n + 1], d, V, seek, G(n + 1))
    OBVIOUS
  <2>2. n < N /\ n + 1 \in 1 .. N /\ (n + 1) - 1 = n
    BY <1>1, <2>1
  <2>3. PICK acc : acc = P[n]
    OBVIOUS
  <2>4. Holds(acc, d, V, seek, G(n))
    <3>1. n <= N => Holds(P[n], d, V, seek, G(n))
      BY <1>5, Zenon
    <3>2. n <= N
      BY <1>1, <2>2
    <3> QED BY <2>3, <3>1, <3>2
  <2>5. PICK sec : sec = (seek \div SECTOR) + n
    OBVIOUS
  <2>6. (seek \div SECTOR) + (n + 1) - 1 = sec
    <3>1. seek \div SECTOR \in Int
      BY SectorAssumption
    <3> QED BY <2>5, <3>1
  <2>7. P[n + 1] = ReadSector(acc, d, seek, bytes, sec)
    BY <1>2, <2>2, <2>3, <2>6
  <2>8. PICK from : from = IF sec = seek \div SECTOR THEN seek % SECTOR ELSE 0
    OBVIOUS
  <2>9. PICK to : to = IF sec = SectorEnd(seek, bytes) THEN (seek + bytes) % SECTOR ELSE SECTOR
    OBVIOUS
  <2>10. PICK c : c = fd_load(fd_ioctl(acc.blk, sec), d)
    OBVIOUS
  <2>11. P[n + 1] = [blk |-> c, buf |-> acc.buf \o Part(c, from, to)]
    BY <2>7, <2>8, <2>9, <2>10 DEF ReadSector
  <2>12. /\ sec \in Int /\ from \in Nat /\ to \in Nat /\ from <= to /\ to <= SECTOR
         /\ G(n) \in Nat /\ sec * SECTOR + from = seek + G(n) /\ G(n + 1) = G(n) + (to - from)
    <3>1. n < Count(seek, bytes)
      BY <2>2 DEF N
    <3> QED BY <2>5, <2>8, <2>9, <3>1, PassBounds DEF G
  <2>13. Holds([blk |-> c, buf |-> acc.buf \o Part(c, from, to)], d, V, seek, G(n) + (to - from))
    BY <2>4, <2>10, <2>12, SectorStep
  <2> QED
    BY <2>11, <2>12, <2>13
<1>6. N \in S
  <2> HIDE DEF S
  <2>1. Nat \subseteq S
    BY <1>4, <1>5, SetInduction
  <2> QED BY <1>1, <2>1
<1>7. Holds(P[N], d, V, seek, bytes)
  BY <1>1, <1>3, <1>6
<1>8. PICK all : all = P[N]
  OBVIOUS
<1>9. blk_seek_and_read(b, d, seek, bytes) = [ret |-> Len(all.buf), blk |-> all.blk, buf |-> all.buf]
  BY <1>8 DEF blk_seek_and_read, N, P
<1> QED
  BY <1>7, <1>8, <1>9 DEF Holds

-----------------------------------------------------------------------------
(* The invariant of the driver.                                            *)

\* What a cell of the cache may hold.
Held(d) == {d.cells[a] : a \in DOMAIN d.cells} \cup {None}

TypeInv ==
  /\ disk \in Disks /\ call \in Calls
  /\ pc \in {"init", "call", "dir", "nextdir", "chain", "done"}
  /\ blk \in Device(Held(disk)) /\ blk.obtained
  /\ fat_entry \in Nat /\ record_cnt \in Nat /\ rec_ext3 \in BOOLEAN

GeometryInv == pc # "init" => fat32 = Geometry(disk)

EntryInv ==
  /\ pc \in {"dir", "nextdir", "chain"} => InFat(disk, fat_entry)
  /\ pc = "nextdir" => fat_entry < EOC
  /\ pc = "chain" => found \in DirectoryRecord

Wanted(e) == IsValidFile(e) /\ Asked(e)

\* None of the first n records is a file of that name that the driver would find.
Missed(n) == \A k \in 1 .. n : Wanted(disk.dir[k]) => disk.dir[k].extlen # 3

\* Which record of the directory comes next.
WalkAt(k) ==
  /\ fat_entry = disk.root[k]
  /\ pc = "dir" =>
       /\ record_cnt = 0 \/ (k - 1) * ClusterCells(disk) + record_cnt <= Len(disk.dir)
       /\ (k = 1 /\ Missed(record_cnt)) \/ Missed(Len(disk.dir))
  /\ pc = "nextdir" => Missed(Len(disk.dir))
WalkInv ==
  DirInOnePiece /\ pc \in {"dir", "nextdir"} =>
    \/ pc = "dir" /\ fat_entry = EOC /\ Missed(Len(disk.dir))
    \/ \E k \in 1 .. Len(disk.root) : WalkAt(k)

\* The first j clusters of a chain follow each other.
Straight(chain, j) == \A i \in 1 .. j : chain[i] = chain[1] + i - 1

\* How far the chain of the file has been followed.
ChainInv ==
  DirInOnePiece /\ pc = "chain" =>
    /\ found \in Files /\ Asked(found)
    /\ \/ found.chain = <<>>
       \/ \E j \in 1 .. Len(found.chain) :
            fat_entry = found.chain[j] /\ Straight(found.chain, j)
       \/ /\ Straight(found.chain, Len(found.chain))
          /\ disk.file_eoc = EOC => fat_entry = EOC

FInv ==
  /\ TypeInv /\ GeometryInv /\ EntryInv /\ BlockReadExact
  /\ WalkInv /\ ChainInv /\ ReadRight /\ FileFound

-----------------------------------------------------------------------------
(* What the assumptions on a disk give.                                    *)

LEMMA SectorStart ==
  ASSUME NEW s \in Int, NEW n \in Int, n > 0, NEW o \in 0 .. n - 1
  PROVE  (s * n) % n = 0 /\ (s * n + o) % n = o
<1>1. PICK x \in Int : x = s * n
  OBVIOUS
<1>2. x % n = 0
  BY <1>1
<1>3. (x + o) % n = o
  BY <1>1
<1> QED
  BY <1>1, <1>2, <1>3

LEMMA DiskIsWhole ==
  ASSUME NEW d \in Disks
  PROVE  WholeDisk(d.cells, Held(d))
<1>1. Readable(d)
  BY DiskAssumption
<1>2. SECTOR \in Int /\ SECTOR > 0 /\ 0 \in Offsets
  BY SectorAssumption DEF Offsets
<1>3. ASSUME NEW s \in Int, NEW o \in Offsets
      PROVE  s * SECTOR \in DOMAIN d.cells <=> s * SECTOR + o \in DOMAIN d.cells
  <2>1. o \in 0 .. SECTOR - 1
    BY DEF Offsets
  <2>2. PICK x \in Int : x = s * SECTOR
    BY <1>2
  <2>3. x % SECTOR = 0 /\ (x + o) % SECTOR = o
    BY <1>2, <2>1, <2>2, SectorStart
  <2>4. x \in DOMAIN d.cells => x - 0 + o \in DOMAIN d.cells
    BY <1>1, <2>3 DEF Readable
  <2>5. x + o \in DOMAIN d.cells => (x + o) - o + 0 \in DOMAIN d.cells
    BY <1>1, <1>2, <2>3 DEF Readable
  <2>6. x - 0 + o = x + o /\ (x + o) - o + 0 = x
    BY <1>2, <2>1
  <2> QED
    BY <2>2, <2>4, <2>5, <2>6
<1> QED
  BY <1>3 DEF WholeDisk, Held

LEMMA ReadOn ==
  ASSUME NEW d \in Disks, NEW b \in Device(Held(d)), b.obtained, NEW a \in Int, NEW n \in Nat
  PROVE  Holds(blk_seek_and_read(b, d.cells, a, n), d.cells, Held(d), a, n)
<1>1. WholeDisk(d.cells, Held(d))
  BY DiskIsWhole
<1> QED
  BY <1>1, ReadExact

LEMMA CellKinds ==
  ASSUME NEW x \in Cell
  PROVE  /\ x.kind = "fat" => x \in [kind : {"fat"}, entry : Nat]
         /\ x.kind = "rec" => x \in DirectoryRecord
<1>1. /\ x \in PartitionTable => x.kind = "pt"
      /\ x \in Fat32BootSector => x.kind = "bs"
      /\ x \in DirectoryRecord => x.kind = "rec"
      /\ x \in [kind : {"fat"}, entry : Nat] => x.kind = "fat"
      /\ x \in [kind : {"data"}, of : STRING, at : Nat] => x.kind = "data"
  BY DEF PartitionTable, Fat32BootSector, DirectoryRecord
<1> QED
  BY <1>1 DEF Cell

LEMMA GeometryTypes ==
  ASSUME NEW d \in Disks
  PROVE  /\ Geometry(d).fat_begin_lba \in Nat /\ Geometry(d).cluster_begin_lba \in Nat
         /\ Geometry(d).sectors_per_cluster \in Nat \ {0}
         /\ Geometry(d).root_dir_first_cluster \in Nat
         /\ d.cells[PT_CELL + PART - 1].start_sector \in Nat /\ BootCell(d) \in Int
<1>1. Readable(d)
  BY DiskAssumption
<1>2. PICK start : start = d.cells[PT_CELL + PART - 1].start_sector
  OBVIOUS
<1>3. start \in Nat
  BY <1>1, <1>2 DEF Readable, PartitionTable
<1>4. PICK bs : bs = d.cells[BootCell(d)]
  OBVIOUS
<1>5. bs \in Fat32BootSector
  BY <1>1, <1>4 DEF Readable
<1>6. /\ bs.reserved \in Nat /\ bs.fats \in Nat /\ bs.sectors_per_fat \in Nat
      /\ bs.sectors_per_cluster \in Nat \ {0} /\ bs.root \in Nat
  BY <1>5 DEF Fat32BootSector
<1>7. bs.fats * bs.sectors_per_fat \in Nat
  BY <1>6
<1>8. Geometry(d) = [fat_begin_lba |-> start + bs.reserved,
                     cluster_begin_lba |-> start + bs.reserved + bs.fats * bs.sectors_per_fat,
                     sectors_per_cluster |-> bs.sectors_per_cluster,
                     root_dir_first_cluster |-> bs.root]
  BY <1>2, <1>4 DEF Geometry
<1>9. BootCell(d) \in Int
  BY <1>2, <1>3, SectorAssumption DEF BootCell
<1> QED
  BY <1>2, <1>3, <1>6, <1>7, <1>8, <1>9

LEMMA Addresses ==
  ASSUME NEW d \in Disks, NEW c \in Nat
  PROVE  ClusterAt(Geometry(d), c) \in Int /\ FatAt(Geometry(d), c) \in Int
<1>1. PICK f \in Nat, l \in Nat, s \in Nat :
        f = Geometry(d).fat_begin_lba /\ l = Geometry(d).cluster_begin_lba
          /\ s = Geometry(d).sectors_per_cluster
  BY GeometryTypes
<1>2. (c - 2) * s \in Int
  OBVIOUS
<1>3. l + (c - 2) * s \in Int
  BY <1>2
<1> QED
  BY <1>1, <1>3, SectorAssumption DEF ClusterAt, FatAt

\* A read of the FAT at a cluster number of the disk returns another one.
LEMMA FatRead ==
  ASSUME TypeInv, GeometryInv, pc # "init", NEW c \in Nat, c < EOC, InFat(disk, c),
         NEW r, r = Read(blk, FatCell(c), 1)
  PROVE  /\ FatCell(c) \in Int
         /\ Holds(r, disk.cells, Held(disk), FatCell(c), 1)
         /\ r.buf[1] = disk.cells[FatAt(Geometry(disk), c)]
         /\ r.buf[1].entry \in Nat /\ InFat(disk, r.buf[1].entry)
<1>1. PICK a : a = FatAt(Geometry(disk), c)
  OBVIOUS
<1>2. FatCell(c) = a /\ a \in Int /\ disk \in Disks
  BY <1>1, Addresses DEF TypeInv, GeometryInv, FatCell
<1>3. r = blk_seek_and_read(blk, disk.cells, a, 1)
  BY <1>2 DEF Read
<1>4. Holds(r, disk.cells, Held(disk), a, 1)
  BY <1>2, <1>3, ReadOn DEF TypeInv
<1>5. a \in DOMAIN disk.cells /\ disk.cells[a].kind = "fat"
  BY <1>1 DEF InFat
<1>6. r.buf[1] = disk.cells[a]
  BY <1>2, <1>4, <1>5 DEF Holds
<1>7. disk.cells[a] \in Cell /\ Linked(disk)
  BY <1>2, <1>5, DiskAssumption DEF Readable
<1>8. disk.cells[a].entry \in Nat
  BY <1>5, <1>7, CellKinds
<1> QED
  BY <1>1, <1>2, <1>4, <1>5, <1>6, <1>7, <1>8 DEF Linked

\* What blk_seek_and_read delivers is what the property asks for.
LEMMA ExactAfter ==
  ASSUME TypeInv, disk' = disk, NEW a \in Int, NEW n \in Nat, NEW r,
         Holds(r, disk.cells, Held(disk), a, n),
         last' = [seek |-> a, bytes |-> n, buf |-> r.buf]
  PROVE  BlockReadExact'
<1>1. PICK x : x = r.buf
  OBVIOUS
<1>2. /\ x \in Seq(Held(disk)) /\ Len(x) = n
      /\ \A k \in 1 .. n : a + k - 1 \in DOMAIN disk.cells => x[k] = disk.cells[a + k - 1]
  BY <1>1 DEF Holds
<1>3. SUFFICES ASSUME \A k \in 0 .. n - 1 : a + k \in DOMAIN disk.cells
               PROVE  x = [k \in 1 .. n |-> disk.cells[a + k - 1]]
  BY <1>1 DEF BlockReadExact
<1>4. ASSUME NEW k \in 1 .. n PROVE x[k] = disk.cells[a + k - 1]
  <2>1. k - 1 \in 0 .. n - 1 /\ a + (k - 1) = a + k - 1
    OBVIOUS
  <2> QED
    BY <1>2, <1>3, <2>1
<1>5. x = [k \in 1 .. n |-> x[k]]
  BY <1>2
<1> QED
  BY <1>4, <1>5

-----------------------------------------------------------------------------
(* Every read of the driver is exact.                                      *)

Basic == TypeInv /\ GeometryInv /\ EntryInv /\ BlockReadExact

LEMMA Initially == Init => FInv
<1> SUFFICES ASSUME Init PROVE FInv
  OBVIOUS
<1>1. blk \in Device(Held(disk)) /\ blk.obtained
  <2>1. None \in Held(disk)
    BY DEF Held
  <2>2. blk = [sector |-> NOSECTOR, obtained |-> TRUE, cache |-> [o \in Offsets |-> None]]
    BY DEF Init, fd_obtain, get_fd_blk
  <2> QED
    BY <2>1, <2>2 DEF Device, NOSECTOR
<1>2. TypeInv
  BY <1>1 DEF Init, TypeInv
<1>3. BlockReadExact
  BY DEF Init, NoRead, BlockReadExact
<1> QED
  BY <1>2, <1>3 DEF Init, FInv, GeometryInv, EntryInv, WalkInv, ChainInv, ReadRight, FileFound

LEMMA InitBasic ==
  ASSUME Basic, FAT32_Init
  PROVE  Basic'
<1>1. /\ pc = "init" /\ pc' = "call" /\ disk' = disk /\ call' = call /\ fat_entry' = fat_entry
      /\ record_cnt' = record_cnt /\ rec_ext3' = rec_ext3
  BY DEF FAT32_Init, local, result
<1>2. disk \in Disks /\ Readable(disk)
  BY DiskAssumption DEF Basic, TypeInv
<1>3. PICK r1 : r1 = Read(blk, PT_CELL, 4)
  OBVIOUS
<1>4. Holds(r1, disk.cells, Held(disk), PT_CELL, 4)
  BY <1>2, <1>3, PartAssumption, ReadOn DEF Basic, TypeInv, Read
<1>5. PICK start : start = r1.buf[PART].start_sector
  OBVIOUS
<1>6. r1.buf[PART] = disk.cells[PT_CELL + PART - 1]
  <2>1. PART \in 1 .. 4 /\ PT_CELL + PART - 1 \in PT_CELL .. PT_CELL + 3
    BY PartAssumption
  <2>2. PT_CELL + PART - 1 \in DOMAIN disk.cells
    BY <1>2, <2>1 DEF Readable
  <2> QED
    BY <1>4, <2>1, <2>2 DEF Holds
<1>7. SECTOR * start = BootCell(disk) /\ BootCell(disk) \in Int
  BY <1>2, <1>5, <1>6, GeometryTypes DEF BootCell
<1>8. PICK r2 : r2 = Read(r1.blk, BootCell(disk), 1)
  OBVIOUS
<1>9. Holds(r2, disk.cells, Held(disk), BootCell(disk), 1)
  <2>1. r1.blk \in Device(Held(disk)) /\ r1.blk.obtained
    BY <1>4 DEF Holds
  <2> QED
    BY <1>2, <1>7, <1>8, <2>1, ReadOn DEF Read
<1>10. r2.buf[1] = disk.cells[BootCell(disk)]
  BY <1>2, <1>7, <1>9 DEF Holds, Readable
<1>11. /\ blk' = r2.blk
       /\ last' = [seek |-> BootCell(disk), bytes |-> 1, buf |-> r2.buf]
       /\ fat32' = Geometry(disk)
  <2>1. /\ blk' = r2.blk
        /\ last' = [seek |-> BootCell(disk), bytes |-> 1, buf |-> r2.buf]
    BY <1>3, <1>5, <1>7, <1>8 DEF FAT32_Init
  <2>2. fat32' = [fat_begin_lba |-> start + r2.buf[1].reserved,
                  cluster_begin_lba |-> start + r2.buf[1].reserved
                                          + r2.buf[1].fats * r2.buf[1].sectors_per_fat,
                  sectors_per_cluster |-> r2.buf[1].sectors_per_cluster,
                  root_dir_first_cluster |-> r2.buf[1].root]
    BY <1>3, <1>5, <1>7, <1>8 DEF FAT32_Init
  <2> QED
    BY <1>5, <1>6, <1>10, <2>1, <2>2 DEF Geometry
<1>12. TypeInv'
  BY <1>1, <1>9, <1>11 DEF Basic, TypeInv, Holds
<1>13. BlockReadExact'
  BY <1>1, <1>7, <1>9, <1>11, ExactAfter DEF Basic
<1> QED
  BY <1>1, <1>11, <1>12, <1>13 DEF Basic, GeometryInv, EntryInv

LEMMA CheckNameBasic ==
  ASSUME Basic, CheckName
  PROVE  Basic'
<1>1. /\ pc = "call" /\ pc' \in {"dir", "done"} /\ disk' = disk /\ call' = call /\ blk' = blk
      /\ fat32' = fat32 /\ record_cnt' \in {0, record_cnt} /\ rec_ext3' = rec_ext3 /\ last' = last
      /\ pc' = "dir" => fat_entry' = fat32.root_dir_first_cluster
      /\ pc' = "done" => fat_entry' = fat_entry
  BY DEF CheckName, Return, result
<1>2. disk \in Disks /\ Linked(disk) /\ fat32 = Geometry(disk)
  BY <1>1, DiskAssumption DEF Basic, TypeInv, GeometryInv
<1>3. fat_entry' \in Nat
  BY <1>1, <1>2, GeometryTypes DEF Basic, TypeInv
<1>4. TypeInv'
  BY <1>1, <1>3 DEF Basic, TypeInv
<1>5. BlockReadExact'
  BY <1>1 DEF Basic, BlockReadExact
<1>6. EntryInv'
  <2>1. pc' = "dir" => InFat(disk, fat_entry')
    BY <1>1, <1>2 DEF Linked
  <2>2. PICK c : c = fat_entry'
    OBVIOUS
  <2> QED
    BY <1>1, <2>1, <2>2 DEF EntryInv, InFat
<1> QED
  BY <1>1, <1>2, <1>4, <1>5, <1>6 DEF Basic, GeometryInv

\* The record that ReadRecord sees.
LEMMA RecordRead ==
  ASSUME Basic, pc = "dir", NEW a, a = ClusterCell(fat_entry) + record_cnt,
         NEW r, r = Read(blk, a, 1), NEW rec, rec = AsRecord(r.buf[1])
  PROVE  /\ a \in Int /\ Holds(r, disk.cells, Held(disk), a, 1)
         /\ IsValidFile(rec) =>
              /\ rec \in DirectoryRecord /\ InFat(disk, rec.cluster)
              /\ rec = r.buf[1]
<1>1. disk \in Disks /\ fat32 = Geometry(disk) /\ fat_entry \in Nat /\ record_cnt \in Nat
  BY DEF Basic, TypeInv, GeometryInv
<1>2. PICK b : b = ClusterAt(Geometry(disk), fat_entry)
  OBVIOUS
<1>3. a = b + record_cnt /\ b \in Int
  BY <1>1, <1>2, Addresses DEF ClusterCell
<1>4. a \in Int
  BY <1>1, <1>3
<1>5. Holds(r, disk.cells, Held(disk), a, 1)
  BY <1>1, <1>4, ReadOn DEF Basic, TypeInv, Read
<1>6. PICK x \in Held(disk) : x = r.buf[1]
  BY <1>5 DEF Holds
<1>7. ASSUME IsValidFile(rec)
      PROVE  rec = x /\ rec \in DirectoryRecord /\ InFat(disk, rec.cluster)
  <2>1. rec.attr = "file"
    BY <1>7 DEF IsValidFile
  <2>2. x.kind = "rec" /\ rec = x
    BY <1>6, <2>1 DEF AsRecord
  <2>3. PICK y \in DOMAIN disk.cells : x = disk.cells[y]
    BY <2>2 DEF Held, None
  <2>4. x \in Cell /\ Linked(disk)
    BY <1>1, <2>3, DiskAssumption DEF Readable
  <2>5. x \in DirectoryRecord
    BY <2>2, <2>4, CellKinds
  <2>6. InFat(disk, x.cluster)
    BY <2>2, <2>3, <2>4 DEF Linked
  <2> QED
    BY <2>2, <2>5, <2>6
<1> QED
  BY <1>4, <1>5, <1>6, <1>7

LEMMA ReadRecordBasic ==
  ASSUME Basic, ReadRecord
  PROVE  Basic'
<1>1. PICK a : a = ClusterCell(fat_entry) + record_cnt
  OBVIOUS
<1>2. PICK r : r = Read(blk, a, 1)
  OBVIOUS
<1>3. PICK rec : rec = AsRecord(r.buf[1])
  OBVIOUS
<1>4. /\ pc = "dir" /\ fat_entry < EOC /\ disk' = disk /\ call' = call /\ fat32' = fat32
      /\ record_cnt' = record_cnt + 1 /\ rec_ext3' = FALSE
      /\ blk' = r.blk /\ last' = [seek |-> a, bytes |-> 1, buf |-> r.buf]
  BY <1>1, <1>2 DEF ReadRecord, Reads
<1>5. \/ /\ Matches(rec, call.file, rec_ext3)
         /\ pc' = "chain" /\ found' = rec /\ fat_entry' = rec.cluster
      \/ pc' \in {"dir", "nextdir"} /\ found' = found /\ fat_entry' = fat_entry
  BY <1>1, <1>2, <1>3 DEF ReadRecord
<1>6. /\ a \in Int /\ Holds(r, disk.cells, Held(disk), a, 1)
      /\ IsValidFile(rec) =>
           rec \in DirectoryRecord /\ InFat(disk, rec.cluster)
  BY <1>1, <1>2, <1>3, <1>4, RecordRead
<1>7. BlockReadExact'
  BY <1>4, <1>6, ExactAfter DEF Basic
<1>10. /\ disk' \in Disks /\ call' \in Calls /\ blk' \in Device(Held(disk)) /\ blk'.obtained
       /\ record_cnt' \in Nat /\ rec_ext3' \in BOOLEAN /\ Held(disk') = Held(disk)
  <2>1. r.blk \in Device(Held(disk)) /\ r.blk.obtained
    BY <1>6 DEF Holds
  <2>2. record_cnt' \in Nat
    BY <1>4 DEF Basic, TypeInv
  <2> QED
    BY <1>4, <2>1, <2>2 DEF Basic, TypeInv
<1>8. CASE pc' = "chain" /\ found' = rec /\ fat_entry' = rec.cluster
                /\ Matches(rec, call.file, rec_ext3)
  <2>1. rec \in DirectoryRecord /\ InFat(disk, rec.cluster)
    BY <1>6, <1>8 DEF Matches
  <2>2. rec.cluster \in Nat
    BY <2>1 DEF DirectoryRecord
  <2>3. TypeInv'
    BY <1>8, <1>10, <2>2 DEF TypeInv
  <2>4. EntryInv'
    BY <1>4, <1>8, <2>1 DEF EntryInv, InFat
  <2> QED
    BY <1>4, <1>7, <2>3, <2>4 DEF Basic, GeometryInv
<1>9. CASE pc' \in {"dir", "nextdir"} /\ found' = found /\ fat_entry' = fat_entry
  <2>1. TypeInv'
    BY <1>9, <1>10 DEF Basic, TypeInv
  <2>2. EntryInv'
    BY <1>4, <1>9 DEF Basic, EntryInv, InFat
  <2> QED
    BY <1>4, <1>7, <2>1, <2>2 DEF Basic, GeometryInv
<1> QED
  BY <1>5, <1>8, <1>9

\* The next cluster of the directory or of the file.
LEMMA FatStep ==
  ASSUME Basic, pc \in {"nextdir", "chain"}, fat_entry < EOC, NEW r,
         r = Read(blk, FatCell(fat_entry), 1), blk' = r.blk,
         last' = [seek |-> FatCell(fat_entry), bytes |-> 1, buf |-> r.buf],
         disk' = disk
  PROVE  /\ blk' \in Device(Held(disk)) /\ blk'.obtained /\ BlockReadExact'
         /\ r.buf[1] = disk.cells[FatAt(Geometry(disk), fat_entry)]
         /\ r.buf[1].entry \in Nat /\ InFat(disk, r.buf[1].entry)
<1>1. PICK c \in Nat : c = fat_entry
  BY DEF Basic, TypeInv
<1>2. InFat(disk, c) /\ c < EOC /\ pc # "init" /\ r = Read(blk, FatCell(c), 1)
  BY <1>1 DEF Basic, EntryInv
<1>3. /\ FatCell(c) \in Int
      /\ Holds(r, disk.cells, Held(disk), FatCell(c), 1)
      /\ r.buf[1] = disk.cells[FatAt(Geometry(disk), c)]
      /\ r.buf[1].entry \in Nat /\ InFat(disk, r.buf[1].entry)
  BY <1>2, FatRead DEF Basic
<1>4. BlockReadExact'
  BY <1>1, <1>3, ExactAfter DEF Basic
<1> QED
  BY <1>1, <1>3, <1>4 DEF Holds

LEMMA NextDirBasic ==
  ASSUME Basic, NextDirCluster
  PROVE  Basic'
<1>1. PICK r : r = Read(blk, FatCell(fat_entry), 1)
  OBVIOUS
<1>2. /\ pc = "nextdir" /\ pc' = "dir" /\ disk' = disk /\ call' = call /\ fat32' = fat32
      /\ record_cnt' = 0 /\ rec_ext3' = rec_ext3 /\ fat_entry' = r.buf[1].entry
      /\ blk' = r.blk /\ last' = [seek |-> FatCell(fat_entry), bytes |-> 1, buf |-> r.buf]
  BY <1>1 DEF NextDirCluster, Reads
<1>3. fat_entry < EOC
  BY <1>2 DEF Basic, EntryInv
<1>4. /\ blk' \in Device(Held(disk)) /\ blk'.obtained /\ BlockReadExact'
      /\ r.buf[1].entry \in Nat /\ InFat(disk, r.buf[1].entry)
  BY <1>1, <1>2, <1>3, FatStep
<1>5. TypeInv'
  BY <1>2, <1>4 DEF Basic, TypeInv
<1>6. EntryInv'
  BY <1>2, <1>4 DEF EntryInv, InFat
<1> QED
  BY <1>2, <1>4, <1>5, <1>6 DEF Basic, GeometryInv

LEMMA NotFoundBasic ==
  ASSUME Basic, NotFound
  PROVE  Basic'
<1>1. /\ pc = "dir" /\ pc' = "done"
      /\ UNCHANGED <<disk, call, blk, fat32, fat_entry, record_cnt, rec_ext3, found, last>>
  BY DEF NotFound, Return, local
<1>2. TypeInv'
  BY <1>1 DEF Basic, TypeInv
<1> QED
  BY <1>1, <1>2 DEF Basic, GeometryInv, EntryInv, BlockReadExact

\* FollowChain either gives up or goes on with the entry read.
LEMMA FollowStep ==
  ASSUME Basic, FollowChain, NEW n, n = disk.cells[FatAt(Geometry(disk), fat_entry)].entry
  PROVE  /\ pc = "chain" /\ fat_entry < EOC /\ n \in Nat
         /\ UNCHANGED <<disk, call, fat32, record_cnt, rec_ext3, found>>
         /\ \/ /\ n < EOC /\ n # fat_entry + 1
               /\ pc' = "done" /\ ret' = -1 /\ fat_entry' = fat_entry
            \/ /\ ~(n < EOC /\ n # fat_entry + 1)
               /\ pc' = "chain" /\ fat_entry' = n
         /\ blk' \in Device(Held(disk)) /\ blk'.obtained /\ BlockReadExact' /\ InFat(disk, n)
<1>1. PICK r : r = Read(blk, FatCell(fat_entry), 1)
  OBVIOUS
<1>2. /\ pc = "chain" /\ fat_entry < EOC
      /\ UNCHANGED <<disk, call, fat32, record_cnt, rec_ext3, found>>
      /\ blk' = r.blk /\ last' = [seek |-> FatCell(fat_entry), bytes |-> 1, buf |-> r.buf]
  BY <1>1 DEF FollowChain, Reads
<1>3. /\ blk' \in Device(Held(disk)) /\ blk'.obtained /\ BlockReadExact'
      /\ r.buf[1].entry = n /\ n \in Nat /\ InFat(disk, n)
  BY <1>1, <1>2, FatStep
<1>4. IF n < EOC /\ n # fat_entry + 1
      THEN Return(-1, <<>>) /\ UNCHANGED fat_entry
      ELSE fat_entry' = n /\ UNCHANGED <<pc, result>>
  BY <1>1, <1>3 DEF FollowChain
<1>5. \/ /\ n < EOC /\ n # fat_entry + 1
         /\ pc' = "done" /\ ret' = -1 /\ fat_entry' = fat_entry
      \/ /\ ~(n < EOC /\ n # fat_entry + 1)
         /\ pc' = "chain" /\ fat_entry' = n
  BY <1>2, <1>4 DEF Return
<1> QED
  BY <1>2, <1>3, <1>5

LEMMA FollowBasic ==
  ASSUME Basic, FollowChain
  PROVE  Basic'
<1>1. PICK n : n = disk.cells[FatAt(Geometry(disk), fat_entry)].entry
  OBVIOUS
<1>2. /\ pc = "chain" /\ n \in Nat
      /\ UNCHANGED <<disk, call, fat32, record_cnt, rec_ext3, found>>
      /\ (pc' = "done" /\ fat_entry' = fat_entry) \/ (pc' = "chain" /\ fat_entry' = n)
      /\ blk' \in Device(Held(disk)) /\ blk'.obtained /\ BlockReadExact' /\ InFat(disk, n)
  BY <1>1, FollowStep
<1>3. TypeInv'
  BY <1>2 DEF Basic, TypeInv
<1>4. EntryInv'
  BY <1>2 DEF Basic, EntryInv, InFat
<1> QED
  BY <1>2, <1>3, <1>4 DEF Basic, GeometryInv

LEMMA ClampNat ==
  ASSUME NEW f \in 0 .. U32 - 1, NEW s \in Nat, NEW n \in Nat, s + n < U32
  PROVE  /\ Clamp(f, s, n) \in Nat
         /\ s <= f => Clamp(f, s, n) = MinOf(n, f - s)
<1>1. U32 \in Nat /\ U32 > 0
  BY CallsAssumption
<1>2. (s + n) % U32 = s + n
  BY <1>1
<1>3. (f - s) % U32 \in Nat
  BY <1>1
<1>4. s <= f => (f - s) % U32 = f - s
  BY <1>1
<1> QED
  BY <1>2, <1>3, <1>4 DEF Clamp, MinOf

LEMMA DataRead ==
  ASSUME Basic, ReadData, NEW n, n = Clamp(found.size, call.seek, call.size),
         NEW a, a = ClusterAt(Geometry(disk), found.cluster) + call.seek
  PROVE  /\ pc = "chain" /\ fat_entry >= EOC /\ pc' = "done" /\ ret' = n
         /\ UNCHANGED <<disk, call, fat32, fat_entry, record_cnt, rec_ext3, found>>
         /\ n \in Nat /\ a \in Int
         /\ \E r : /\ Holds(r, disk.cells, Held(disk), a, n)
                  /\ blk' = r.blk /\ last' = [seek |-> a, bytes |-> n, buf |-> r.buf]
                  /\ buf' = r.buf
<1>1. pc = "chain" /\ fat_entry >= EOC
  BY DEF ReadData
<1>2. disk \in Disks /\ call \in Calls /\ found \in DirectoryRecord /\ fat32 = Geometry(disk)
  BY <1>1 DEF Basic, TypeInv, EntryInv, GeometryInv
<1>3. found.size \in 0 .. U32 - 1 /\ found.cluster \in Nat
  BY <1>2 DEF DirectoryRecord
<1>4. call.seek \in Nat /\ call.size \in Nat /\ call.seek + call.size < U32
  BY <1>2, CallsAssumption
<1>5. n \in Nat
  BY <1>3, <1>4, ClampNat
<1>6. PICK b \in Int : b = ClusterAt(Geometry(disk), found.cluster)
  BY <1>2, <1>3, Addresses
<1>7. a = b + call.seek /\ a \in Int
  BY <1>4, <1>6
<1>8. PICK r : r = Read(blk, a, n)
  OBVIOUS
<1>9. Holds(r, disk.cells, Held(disk), a, n)
  BY <1>2, <1>5, <1>7, <1>8, ReadOn DEF Basic, TypeInv, Read
<1>10. /\ pc' = "done" /\ ret' = n /\ buf' = r.buf
       /\ UNCHANGED <<disk, call, fat32, fat_entry, record_cnt, rec_ext3, found>>
       /\ blk' = r.blk /\ last' = [seek |-> a, bytes |-> n, buf |-> r.buf]
  BY <1>2, <1>8 DEF ReadData, Reads, Return, ClusterCell, local
<1> QED
  BY <1>1, <1>5, <1>7, <1>9, <1>10

LEMMA ReadDataBasic ==
  ASSUME Basic, ReadData
  PROVE  Basic'
<1>1. PICK n : n = Clamp(found.size, call.seek, call.size)
  OBVIOUS
<1>2. PICK a : a = ClusterAt(Geometry(disk), found.cluster) + call.seek
  OBVIOUS
<1>3. /\ pc = "chain" /\ pc' = "done" /\ n \in Nat /\ a \in Int
      /\ UNCHANGED <<disk, call, fat32, fat_entry, record_cnt, rec_ext3, found>>
      /\ \E r : /\ Holds(r, disk.cells, Held(disk), a, n)
               /\ blk' = r.blk /\ last' = [seek |-> a, bytes |-> n, buf |-> r.buf]
               /\ buf' = r.buf
  BY <1>1, <1>2, DataRead
<1>4. PICK r : /\ Holds(r, disk.cells, Held(disk), a, n)
               /\ blk' = r.blk /\ last' = [seek |-> a, bytes |-> n, buf |-> r.buf]
  BY <1>3
<1>5. BlockReadExact'
  BY <1>3, <1>4, ExactAfter DEF Basic
<1>6. TypeInv'
  BY <1>3, <1>4 DEF Basic, TypeInv, Holds
<1> QED
  BY <1>3, <1>5, <1>6 DEF Basic, GeometryInv, EntryInv

LEMMA BasicInductive ==
  ASSUME Basic, [Next]_vars
  PROVE  Basic'
<1>1. CASE UNCHANGED vars
  BY <1>1 DEF vars, local, result, Basic, TypeInv, GeometryInv, EntryInv, BlockReadExact
<1>2. CASE Done
  BY <1>1, <1>2 DEF Done
<1> QED
  BY <1>1, <1>2, InitBasic, CheckNameBasic, ReadRecordBasic, NextDirBasic, NotFoundBasic,
     FollowBasic, ReadDataBasic DEF Next, FAT32_Read

-----------------------------------------------------------------------------
(* Chains in one piece.                                                    *)

LEMMA StraightIsContiguous ==
  ASSUME NEW chain \in Seq(Nat)
  PROVE  Straight(chain, Len(chain)) <=> Contiguous(chain)
<1>1. ASSUME Straight(chain, Len(chain)) PROVE Contiguous(chain)
  <2>1. SUFFICES ASSUME NEW k \in 1 .. Len(chain) - 1 PROVE chain[k + 1] = chain[k] + 1
    BY DEF Contiguous
  <2>2. k \in 1 .. Len(chain) /\ k + 1 \in 1 .. Len(chain) /\ 1 \in 1 .. Len(chain)
    OBVIOUS
  <2>3. chain[k] = chain[1] + k - 1 /\ chain[k + 1] = chain[1] + (k + 1) - 1
    BY <1>1, <2>2 DEF Straight
  <2>4. chain[1] \in Nat
    BY <2>2
  <2> QED BY <2>3, <2>4
<1>2. ASSUME Contiguous(chain) PROVE Straight(chain, Len(chain))
  <2> DEFINE S == {j \in Nat : j + 1 \in 1 .. Len(chain) => chain[j + 1] = chain[1] + j}
  <2>1. 0 \in S
    OBVIOUS
  <2>2. ASSUME NEW j \in Nat, j \in S PROVE j + 1 \in S
    <3>1. SUFFICES ASSUME (j + 1) + 1 \in 1 .. Len(chain)
                   PROVE  chain[(j + 1) + 1] = chain[1] + (j + 1)
      OBVIOUS
    <3>2. j + 1 \in 1 .. Len(chain) - 1 /\ j + 1 \in 1 .. Len(chain) /\ 1 \in 1 .. Len(chain)
      BY <3>1
    <3>3. chain[j + 1] = chain[1] + j
      BY <2>2, <3>2
    <3>4. chain[(j + 1) + 1] = chain[j + 1] + 1
      BY <1>2, <3>2 DEF Contiguous
    <3>5. chain[1] \in Nat
      BY <3>2
    <3> QED BY <3>3, <3>4, <3>5
  <2>3. Nat \subseteq S
    <3> HIDE DEF S
    <3> QED BY <2>1, <2>2, SetInduction
  <2>4. ASSUME NEW i \in 1 .. Len(chain) PROVE chain[i] = chain[1] + i - 1
    <3>1. i - 1 \in Nat /\ (i - 1) + 1 = i /\ 1 \in 1 .. Len(chain)
      OBVIOUS
    <3>2. chain[i] = chain[1] + (i - 1)
      BY <2>3, <3>1
    <3>3. chain[1] \in Nat
      BY <3>1
    <3> QED BY <3>2, <3>3
  <2> QED BY <2>4 DEF Straight
<1> QED
  BY <1>1, <1>2

LEMMA Distribute ==
  ASSUME NEW t \in Int, NEW l \in Int, NEW c \in Int, NEW j \in Int, NEW s \in Int
  PROVE  t * (l + ((c + j) - 2) * s) = t * (l + (c - 2) * s) + j * (t * s)
<1>1. ((c + j) - 2) * s = (c - 2) * s + j * s
  OBVIOUS
<1>2. PICK x \in Int : x = l + (c - 2) * s
  OBVIOUS
<1>3. PICK y \in Int : y = j * s
  OBVIOUS
<1>4. l + ((c + j) - 2) * s = x + y
  BY <1>1, <1>2, <1>3
<1>5. t * (x + y) = t * x + t * y
  OBVIOUS
<1>6. t * y = j * (t * s)
  BY <1>3
<1> QED
  BY <1>2, <1>4, <1>5, <1>6

LEMMA ClusterCellsNat ==
  ASSUME NEW d \in Disks
  PROVE  ClusterCells(d) \in Nat /\ ClusterCells(d) > 0
<1>1. PICK s \in Nat \ {0} : s = Geometry(d).sectors_per_cluster
  BY GeometryTypes
<1>2. PICK t \in Nat \ {0} : t = SECTOR
  BY SectorAssumption
<1>3. t * s \in Nat /\ t * s > 0
  OBVIOUS
<1> QED
  BY <1>1, <1>2, <1>3 DEF ClusterCells

\* Clusters that follow each other lie behind each other.
LEMMA NextClusters ==
  ASSUME NEW d \in Disks, NEW c \in Nat, NEW j \in Nat
  PROVE  ClusterAt(Geometry(d), c + j) = ClusterAt(Geometry(d), c) + j * ClusterCells(d)
<1>1. PICK l \in Int, s \in Int :
        l = Geometry(d).cluster_begin_lba /\ s = Geometry(d).sectors_per_cluster
  BY GeometryTypes
<1>2. SECTOR \in Int
  BY SectorAssumption
<1>3. SECTOR * (l + ((c + j) - 2) * s) = SECTOR * (l + (c - 2) * s) + j * (SECTOR * s)
  BY <1>2, Distribute
<1> QED
  BY <1>1, <1>3 DEF ClusterAt, ClusterCells

\* Cell q is cell o of group j, of m groups of n cells.
InGroup(q, n, m, j, o) ==
  /\ j \in Nat /\ o \in Int /\ j < m
  /\ j = q \div n /\ o = q % n /\ q = j * n + o

LEMMA DivBelow ==
  ASSUME NEW q \in Nat, NEW n \in Nat, n > 0, NEW m \in Nat, q < m * n
  PROVE  \E j, o : InGroup(q, n, m, j, o)
<1>1. PICK j \in Nat : j = q \div n
  OBVIOUS
<1>2. PICK o \in Int : o = q % n
  OBVIOUS
<1>3. q = j * n + o
  <2>1. q \in Int /\ n \in Int
    OBVIOUS
  <2> QED BY <1>1, <1>2, <2>1, DivModBy
<1>4. j < m
  BY <1>1
<1>5. InGroup(q, n, m, j, o)
  BY <1>1, <1>2, <1>3, <1>4 DEF InGroup
<1> QED
  BY <1>5

LEMMA PlaceInPiece ==
  ASSUME NEW d \in Disks, NEW chain \in Seq(Nat), Straight(chain, Len(chain)),
         NEW k \in 1 .. Len(chain), NEW p \in Nat, NEW q,
         q = (k - 1) * ClusterCells(d) + p, q < Len(chain) * ClusterCells(d)
  PROVE  q \in Nat /\ Place(d, chain, q) = ClusterAt(Geometry(d), chain[k]) + p
<1>1. PICK n \in Nat : n = ClusterCells(d) /\ n > 0
  BY ClusterCellsNat
<1>2. PICK kn \in Nat : kn = (k - 1) * n
  OBVIOUS
<1>3. q = kn + p /\ q \in Nat /\ q < Len(chain) * n /\ Len(chain) \in Nat
  <2>1. q = kn + p
    BY <1>1, <1>2
  <2>2. q < Len(chain) * n
    BY <1>1
  <2>3. q \in Nat
    BY <1>2, <2>1
  <2>4. Len(chain) \in Nat
    OBVIOUS
  <2> QED BY <2>1, <2>2, <2>3, <2>4, Zenon
<1>4. PICK j, o : InGroup(q, n, Len(chain), j, o)
  <2>1. \E j, o : InGroup(q, n, Len(chain), j, o)
    BY <1>1, <1>3, DivBelow
  <2> QED BY <2>1
<1>5. j \in Nat /\ o \in Int /\ j < Len(chain) /\ j = q \div n /\ o = q % n
  BY <1>4 DEF InGroup
<1>6. q = j * n + o
  BY <1>4 DEF InGroup
<1>7. PICK c \in Nat : c = chain[1]
  OBVIOUS
<1>8. chain[j + 1] = c + j /\ chain[k] = c + (k - 1) /\ k - 1 \in Nat
  <2>1. j + 1 \in 1 .. Len(chain)
    BY <1>5
  <2>2. chain[j + 1] = chain[1] + (j + 1) - 1 /\ chain[k] = chain[1] + k - 1
    BY <2>1 DEF Straight
  <2> QED BY <1>5, <1>7, <2>2
<1>9. PICK b \in Int : b = ClusterAt(Geometry(d), c)
  BY Addresses
<1>10. PICK jn \in Int : jn = j * n
  BY <1>5
<1>11. ClusterAt(Geometry(d), chain[j + 1]) = b + jn
  <2>1. ClusterAt(Geometry(d), c + j) = ClusterAt(Geometry(d), c) + j * ClusterCells(d)
    BY <1>5, NextClusters
  <2>2. ClusterAt(Geometry(d), c + j) = b + jn
    BY <1>1, <1>9, <1>10, <2>1
  <2> QED BY <1>8, <2>2
<1>12. ClusterAt(Geometry(d), chain[k]) = b + kn
  <2>1. PICK i \in Nat : i = k - 1
    OBVIOUS
  <2>2. ClusterAt(Geometry(d), c + i) = ClusterAt(Geometry(d), c) + i * ClusterCells(d)
    BY NextClusters
  <2>3. ClusterAt(Geometry(d), c + i) = b + kn
    BY <1>1, <1>2, <1>9, <2>1, <2>2
  <2> QED BY <1>8, <2>1, <2>3
<1>13. Place(d, chain, q) = (b + jn) + o
  <2>1. Place(d, chain, q) = ClusterAt(Geometry(d), chain[(q \div n) + 1]) + (q % n)
    BY <1>1, Zenon DEF Place
  <2>2. chain[(q \div n) + 1] = chain[j + 1] /\ q % n = o
    BY <1>5, Zenon
  <2> QED BY <1>11, <2>1, <2>2, Zenon
<1>14. kn + p = jn + o
  <2>1. jn + o = q
    BY <1>6, <1>10, Zenon
  <2> QED BY <1>3, <2>1, Zenon
<1>15. (b + jn) + o = (b + kn) + p
  <2>1. PICK x \in Int : x = o
    BY <1>5
  <2>2. kn + p = jn + x
    BY <1>14, <2>1
  <2>3. (b + jn) + x = (b + kn) + p
    BY <2>2
  <2> QED BY <2>1, <2>3
<1> QED
  BY <1>3, <1>12, <1>13, <1>15

-----------------------------------------------------------------------------
(* The walk through the directory.                                         *)

Right == WalkInv /\ ChainInv /\ ReadRight /\ FileFound

LEMMA RootFacts ==
  ASSUME NEW d \in Disks
  PROVE  /\ d.root \in Seq(Nat) /\ Len(d.root) \in Nat /\ Len(d.root) >= 1 /\ 1 \in 1 .. Len(d.root)
         /\ d.dir \in Seq(DirectoryRecord) /\ Len(d.dir) \in Nat
         /\ Len(d.dir) < Len(d.root) * ClusterCells(d)
         /\ \A k \in 1 .. Len(d.root) : d.root[k] \in Nat /\ d.root[k] < EOC_MIN
<1>1. DirectoryStored(d)
  BY DiskAssumption
<1>2. d.root \in Seq(Nat) /\ d.root # <<>> /\ d.dir \in Seq(DirectoryRecord)
      /\ Len(d.dir) < Len(d.root) * ClusterCells(d) /\ Chained(d, d.root, EOC)
  BY <1>1 DEF DirectoryStored
<1>3. Len(d.root) \in Nat /\ Len(d.root) # 0 /\ Len(d.dir) \in Nat
  BY <1>2
<1>4. 1 \in 1 .. Len(d.root) /\ Len(d.root) >= 1
  BY <1>3
<1>5. \A k \in 1 .. Len(d.root) : d.root[k] \in Nat /\ d.root[k] < EOC_MIN
  <2> TAKE k \in 1 .. Len(d.root)
  <2>1. d.root[k] \in Nat
    BY <1>2
  <2>2. d.root[k] < EOC_MIN
    BY <1>2 DEF Chained
  <2> QED BY <2>1, <2>2
<1> QED
  BY <1>2, <1>3, <1>4, <1>5

\* The record that is read next is the one of that number, or the end mark.
LEMMA AtRecord ==
  ASSUME Basic, DirInOnePiece, pc = "dir", NEW k \in 1 .. Len(disk.root), WalkAt(k),
         NEW a, a = ClusterCell(fat_entry) + record_cnt,
         NEW r, r = Read(blk, a, 1), NEW rec, rec = AsRecord(r.buf[1]),
         NEW q, q = (k - 1) * ClusterCells(disk) + record_cnt
  PROVE  /\ q \in Nat
         /\ q < Len(disk.dir) => rec = disk.dir[q + 1]
         /\ q >= Len(disk.dir) => rec.first = "end"
<1>1. disk \in Disks /\ record_cnt \in Nat /\ fat32 = Geometry(disk)
  BY DEF Basic, TypeInv, GeometryInv
<1>2. PICK n \in Nat : n = ClusterCells(disk) /\ n > 0
  BY <1>1, ClusterCellsNat
<1>3. PICK L \in Nat : L = Len(disk.root) /\ L >= 1
  BY <1>1, RootFacts
<1>4. PICK D \in Nat : D = Len(disk.dir) /\ D < L * n
  BY <1>1, <1>2, <1>3, RootFacts
<1>5. q < L * n
  <2>1. PICK kn \in Nat : kn = (k - 1) * n
    OBVIOUS
  <2>2. q = kn + record_cnt
    BY <1>2, <2>1
  <2>3. kn + n <= L * n
    <3>1. k \in Nat /\ k <= L
      BY <1>3
    <3>2. (k - 1) * n + n = k * n
      BY <3>1
    <3>3. k * n <= L * n
      BY <3>1
    <3> QED BY <2>1, <3>2, <3>3
  <2>4. CASE record_cnt = 0
    <3>1. q = kn
      BY <2>1, <2>2, <2>4
    <3>2. PICK M \in Nat : M = L * n
      OBVIOUS
    <3> QED BY <1>2, <2>1, <2>3, <3>1, <3>2
  <2>5. CASE kn + record_cnt <= D
    <3>1. PICK M \in Nat : M = L * n
      OBVIOUS
    <3> QED BY <1>1, <1>4, <2>1, <2>2, <2>5, <3>1
  <2> QED
    BY <1>2, <1>4, <2>1, <2>4, <2>5 DEF WalkAt
<1>6. Straight(disk.root, Len(disk.root)) /\ disk.root \in Seq(Nat)
  BY <1>1, RootFacts, StraightIsContiguous DEF DirInOnePiece
<1>7. q < Len(disk.root) * ClusterCells(disk)
  BY <1>2, <1>3, <1>5
<1>8. q \in Nat /\ Place(disk, disk.root, q) = ClusterAt(Geometry(disk), disk.root[k]) + record_cnt
  BY <1>1, <1>6, <1>7, PlaceInPiece
<1>9. a = Place(disk, disk.root, q)
  BY <1>1, <1>8 DEF ClusterCell, WalkAt
<1>10. q \in 0 .. Len(disk.root) * ClusterCells(disk) - 1
  <2>1. PICK M \in Nat : M = L * n
    OBVIOUS
  <2>2. q \in 0 .. M - 1
    BY <1>5, <1>8, <2>1
  <2> QED BY <1>2, <1>3, <2>1, <2>2
<1>11. /\ a \in DOMAIN disk.cells
       /\ IF q < Len(disk.dir) THEN disk.cells[a] = disk.dir[q + 1]
          ELSE disk.cells[a].kind = "rec" /\ disk.cells[a].first = "end"
  <2>1. DirectoryStored(disk)
    BY <1>1, DiskAssumption
  <2> QED BY <1>9, <1>10, <2>1 DEF DirectoryStored
<1>12. a \in Int /\ Holds(r, disk.cells, Held(disk), a, 1)
  BY RecordRead
<1>13. r.buf[1] = disk.cells[a]
  BY <1>11, <1>12 DEF Holds
<1>14. CASE q < Len(disk.dir)
  <2>1. q + 1 \in 1 .. Len(disk.dir)
    BY <1>4, <1>8, <1>14
  <2>2. disk.dir[q + 1] \in DirectoryRecord
    BY <1>1, <2>1, RootFacts
  <2>3. disk.dir[q + 1].kind = "rec"
    BY <2>2 DEF DirectoryRecord
  <2>4. rec = disk.dir[q + 1]
    BY <1>11, <1>13, <1>14, <2>3 DEF AsRecord
  <2> QED BY <1>4, <1>8, <1>14, <2>4
<1>15. CASE ~(q < Len(disk.dir))
  BY <1>8, <1>11, <1>13, <1>15 DEF AsRecord
<1> QED
  BY <1>14, <1>15

LEMMA CheckNameRight ==
  ASSUME Basic, CheckName
  PROVE  Right'
<1>1. /\ pc = "call" /\ disk' = disk /\ call' = call
      /\ \/ pc' = "dir" /\ fat_entry' = fat32.root_dir_first_cluster /\ record_cnt' = 0
         \/ ~NameOK(call.file) /\ pc' = "done" /\ ret' = -1
  BY DEF CheckName, Return
<1>2. CASE pc' = "dir" /\ fat_entry' = fat32.root_dir_first_cluster /\ record_cnt' = 0
  <2>1. disk \in Disks /\ fat32 = Geometry(disk)
    BY <1>1 DEF Basic, TypeInv, GeometryInv
  <2>2. DirectoryStored(disk) /\ 1 \in 1 .. Len(disk.root)
    BY <2>1, DiskAssumption, RootFacts
  <2>3. fat_entry' = disk.root[1]
    BY <1>2, <2>1, <2>2 DEF DirectoryStored
  <2>4. WalkAt(1)'
    BY <1>1, <1>2, <2>3 DEF WalkAt, Missed
  <2>5. WalkInv'
    BY <1>1, <2>2, <2>4 DEF WalkInv
  <2> QED
    BY <1>2, <2>5 DEF Right, ChainInv, ReadRight, FileFound
<1>3. CASE ~NameOK(call.file) /\ pc' = "done" /\ ret' = -1
  BY <1>1, <1>3 DEF Right, WalkInv, ChainInv, ReadRight, FileFound
<1> QED
  BY <1>1, <1>2, <1>3

LEMMA ReadRecordRight ==
  ASSUME Basic, Right, ReadRecord
  PROVE  Right'
<1>1. PICK a : a = ClusterCell(fat_entry) + record_cnt
  OBVIOUS
<1>2. PICK r : r = Read(blk, a, 1)
  OBVIOUS
<1>3. PICK rec : rec = AsRecord(r.buf[1])
  OBVIOUS
<1>4. /\ pc = "dir" /\ fat_entry < EOC /\ disk' = disk /\ call' = call
      /\ record_cnt' = record_cnt + 1
  BY DEF ReadRecord
<1>5. \/ /\ Matches(rec, call.file, rec_ext3)
         /\ pc' = "chain" /\ found' = rec /\ fat_entry' = rec.cluster
      \/ /\ ~Matches(rec, call.file, rec_ext3) /\ fat_entry' = fat_entry
         /\ pc' = IF EndsDir(rec) THEN "nextdir" ELSE "dir"
  BY <1>1, <1>2, <1>3 DEF ReadRecord
<1>6. pc' \in {"chain", "dir", "nextdir"}
  BY <1>5
<1>7. ReadRight' /\ FileFound'
  BY <1>6 DEF ReadRight, FileFound
<1>8. CASE ~DirInOnePiece
  BY <1>4, <1>7, <1>8 DEF Right, DirInOnePiece, WalkInv, ChainInv
<1>9. CASE DirInOnePiece
  <2>1. disk \in Disks /\ record_cnt \in Nat /\ fat_entry \in Nat
    BY DEF Basic, TypeInv
  <2>2. PICK k \in 1 .. Len(disk.root) : WalkAt(k)
    BY <1>4, <1>9, <2>1 DEF Right, WalkInv
  <2>3. PICK q : q = (k - 1) * ClusterCells(disk) + record_cnt
    OBVIOUS
  <2>4. /\ q \in Nat
        /\ q < Len(disk.dir) => rec = disk.dir[q + 1]
        /\ q >= Len(disk.dir) => rec.first = "end"
    BY <1>1, <1>2, <1>3, <1>4, <1>9, <2>2, <2>3, AtRecord
  <2>5. PICK D \in Nat : D = Len(disk.dir)
    BY <2>1, RootFacts
  <2>6. disk.dir \in Seq(DirectoryRecord)
    BY <2>1, RootFacts
  <2>7. CASE Matches(rec, call.file, rec_ext3)
               /\ pc' = "chain" /\ found' = rec /\ fat_entry' = rec.cluster
    <3>1. rec.first = "used" /\ rec.attr = "file" /\ Asked(rec)
      BY <2>7 DEF Matches, IsValidFile, Asked
    <3>2. q < Len(disk.dir) /\ rec = disk.dir[q + 1]
      BY <2>4, <2>5, <3>1
    <3>3. q + 1 \in 1 .. Len(disk.dir)
      BY <2>4, <2>5, <3>2
    <3>4. rec \in Range(disk.dir) /\ rec \in DirectoryRecord
      BY <2>6, <3>2, <3>3 DEF Range
    <3>5. rec \in FilesOn(disk)
      BY <3>1, <3>4 DEF FilesOn
    <3>6. FileStored(disk, rec)
      BY <2>1, <3>5, DiskAssumption
    <3>7. rec.chain \in Seq(Nat)
      BY <3>4 DEF DirectoryRecord
    <3>8. \/ rec.chain = <<>>
          \/ 1 \in 1 .. Len(rec.chain) /\ rec.cluster = rec.chain[1] /\ Straight(rec.chain, 1)
      <4>1. SUFFICES ASSUME rec.chain # <<>>
                     PROVE  1 \in 1 .. Len(rec.chain) /\ rec.cluster = rec.chain[1]
                              /\ Straight(rec.chain, 1)
        OBVIOUS
      <4>2. 1 \in 1 .. Len(rec.chain)
        BY <3>7, <4>1
      <4>3. rec.chain[1] \in Nat
        BY <3>7, <4>2
      <4>4. rec.cluster = rec.chain[1]
        BY <3>6, <4>1 DEF FileStored
      <4> QED BY <4>2, <4>3, <4>4 DEF Straight
    <3>9. ChainInv'
      BY <1>4, <2>7, <3>1, <3>5, <3>8 DEF ChainInv, Files, Asked
    <3> QED
      BY <1>7, <2>7, <3>9 DEF Right, WalkInv
  <2>8. CASE /\ ~Matches(rec, call.file, rec_ext3) /\ fat_entry' = fat_entry
             /\ pc' = IF EndsDir(rec) THEN "nextdir" ELSE "dir"
    <3>1. k = 1 => q = record_cnt
      <4>1. SUFFICES ASSUME k = 1 PROVE q = record_cnt
        OBVIOUS
      <4>2. PICK n \in Nat : n = ClusterCells(disk)
        BY <2>1, ClusterCellsNat
      <4>3. (k - 1) * n = 0
        BY <4>1
      <4> QED BY <2>1, <2>3, <4>2, <4>3
    <3>2. CASE q < D
      <4>1. rec = disk.dir[q + 1] /\ q + 1 \in 1 .. D
        BY <2>4, <2>5, <3>2
      <4>2. rec.first # "end"
        BY <2>1, <2>5, <4>1, DiskAssumption DEF DirectoryStored
      <4>3. pc' = "dir"
        BY <2>8, <4>2 DEF EndsDir
      <4>4. Wanted(rec) => rec.extlen # 3
        BY <2>8 DEF Matches, Wanted, Asked
      <4>5. (k - 1) * ClusterCells(disk) + record_cnt' <= Len(disk.dir)
        <5>1. PICK x \in Int : x = (k - 1) * ClusterCells(disk)
          BY <2>1, ClusterCellsNat
        <5>2. x + record_cnt < D
          BY <2>3, <3>2, <5>1
        <5>3. x + (record_cnt + 1) <= D
          BY <2>1, <5>2
        <5> QED BY <1>4, <2>5, <5>1, <5>3
      <4>6. (k = 1 /\ Missed(record_cnt + 1)) \/ Missed(Len(disk.dir))
        <5>1. SUFFICES ASSUME k = 1, Missed(record_cnt) PROVE Missed(record_cnt + 1)
          BY <1>4, <2>2 DEF WalkAt
        <5>2. q = record_cnt
          BY <3>1, <5>1
        <5>3. \A i \in 1 .. record_cnt + 1 : i \in 1 .. record_cnt \/ i = q + 1
          BY <2>1, <5>2
        <5> QED BY <4>1, <4>4, <5>1, <5>3 DEF Missed
      <4>7. WalkAt(k)'
        BY <1>4, <2>2, <2>8, <4>3, <4>5, <4>6 DEF WalkAt, Missed, Wanted, Asked
      <4>8. WalkInv'
        BY <1>4, <4>3, <4>7 DEF WalkInv
      <4> QED
        BY <1>7, <4>3, <4>8 DEF Right, ChainInv
    <3>3. CASE q >= D
      <4>1. rec.first = "end"
        BY <2>4, <2>5, <3>3
      <4>2. pc' = "nextdir"
        BY <2>8, <4>1 DEF EndsDir
      <4>3. Missed(Len(disk.dir))
        <5>1. SUFFICES ASSUME k = 1, Missed(record_cnt) PROVE Missed(Len(disk.dir))
          BY <1>4, <2>2 DEF WalkAt
        <5>2. q = record_cnt /\ (record_cnt = 0 \/ q <= D)
          BY <1>4, <2>2, <2>3, <2>5, <3>1, <5>1 DEF WalkAt
        <5>3. record_cnt = D
          BY <2>1, <2>4, <3>3, <5>2
        <5> QED BY <2>5, <5>1, <5>3
      <4>4. WalkAt(k)'
        BY <1>4, <2>2, <2>8, <4>2, <4>3 DEF WalkAt, Missed, Wanted, Asked
      <4>5. WalkInv'
        BY <1>4, <4>2, <4>4 DEF WalkInv
      <4> QED
        BY <1>7, <4>2, <4>5 DEF Right, ChainInv
    <3> QED
      BY <2>4, <3>2, <3>3
  <2> QED
    BY <1>5, <2>7, <2>8
<1> QED
  BY <1>8, <1>9

LEMMA NextDirRight ==
  ASSUME Basic, Right, NextDirCluster
  PROVE  Right'
<1>1. PICK r : r = Read(blk, FatCell(fat_entry), 1)
  OBVIOUS
<1>2. /\ pc = "nextdir" /\ pc' = "dir" /\ disk' = disk /\ call' = call
      /\ record_cnt' = 0 /\ fat_entry' = r.buf[1].entry
      /\ blk' = r.blk /\ last' = [seek |-> FatCell(fat_entry), bytes |-> 1, buf |-> r.buf]
  BY <1>1 DEF NextDirCluster, Reads
<1>3. fat_entry < EOC /\ disk \in Disks
  BY <1>2 DEF Basic, TypeInv, EntryInv
<1>4. fat_entry' = disk.cells[FatAt(Geometry(disk), fat_entry)].entry
  BY <1>1, <1>2, <1>3, FatStep
<1>5. ReadRight' /\ FileFound' /\ ChainInv'
  BY <1>2 DEF ReadRight, FileFound, ChainInv
<1>6. ASSUME DirInOnePiece
      PROVE  (fat_entry' = EOC /\ Missed(Len(disk.dir)))
               \/ \E k \in 1 .. Len(disk.root) : fat_entry' = disk.root[k] /\ Missed(Len(disk.dir))
  <2>1. PICK k \in 1 .. Len(disk.root) : WalkAt(k)
    BY <1>2, <1>6 DEF Right, WalkInv
  <2>2. fat_entry = disk.root[k] /\ Missed(Len(disk.dir))
    BY <1>2, <2>1 DEF WalkAt
  <2>3. Chained(disk, disk.root, EOC)
    BY <1>3, DiskAssumption DEF DirectoryStored
  <2>4. fat_entry' = IF k = Len(disk.root) THEN EOC ELSE disk.root[k + 1]
    <3>1. PICK x : x = FatAt(Geometry(disk), disk.root[k])
      OBVIOUS
    <3>2. disk.cells[x] = [kind |-> "fat",
                           entry |-> IF k = Len(disk.root) THEN EOC ELSE disk.root[k + 1]]
      BY <2>3, <3>1 DEF Chained
    <3>3. fat_entry' = disk.cells[x].entry
      BY <1>4, <2>2, <3>1
    <3> QED BY <3>2, <3>3
  <2>5. k # Len(disk.root) => k + 1 \in 1 .. Len(disk.root)
    BY <1>3, RootFacts
  <2> QED
    BY <2>2, <2>4, <2>5
<1>7. WalkInv'
  <2>1. SUFFICES ASSUME DirInOnePiece' PROVE WalkInv'
    BY DEF WalkInv
  <2>2. DirInOnePiece
    BY <1>2, <2>1 DEF DirInOnePiece
  <2>3. CASE fat_entry' = EOC /\ Missed(Len(disk.dir))
    BY <1>2, <2>3 DEF WalkInv, Missed, Wanted, Asked
  <2>4. CASE \E k \in 1 .. Len(disk.root) : fat_entry' = disk.root[k] /\ Missed(Len(disk.dir))
    <3>1. PICK k \in 1 .. Len(disk.root) : fat_entry' = disk.root[k] /\ Missed(Len(disk.dir))
      BY <2>4
    <3>2. WalkAt(k)'
      BY <1>2, <3>1 DEF WalkAt, Missed, Wanted, Asked
    <3> QED
      BY <1>2, <3>2 DEF WalkInv
  <2> QED
    BY <1>6, <2>2, <2>3, <2>4
<1> QED
  BY <1>5, <1>7 DEF Right

LEMMA NotFoundRight ==
  ASSUME Basic, Right, NotFound
  PROVE  Right'
<1>1. /\ pc = "dir" /\ fat_entry >= EOC /\ pc' = "done" /\ ret' = -1
      /\ disk' = disk /\ call' = call
  BY DEF NotFound, Return
<1>2. disk \in Disks /\ fat_entry \in Nat
  BY DEF Basic, TypeInv
<1>3. ASSUME DirInOnePiece PROVE Missed(Len(disk.dir))
  <2>1. \A k \in 1 .. Len(disk.root) : disk.root[k] # fat_entry
    <3> TAKE k \in 1 .. Len(disk.root)
    <3>1. disk.root[k] \in Nat /\ disk.root[k] < EOC_MIN
      BY <1>2, RootFacts
    <3> QED BY <1>1, <1>2, <3>1 DEF EOC, EOC_MIN
  <2> QED
    BY <1>1, <1>3, <2>1 DEF Right, WalkInv, WalkAt
<1>4. FileFound'
  <2>1. SUFFICES ASSUME DirInOnePiece, NEW e \in Files, Asked(e), e.extlen = 3
                 PROVE  FALSE
    BY <1>1 DEF FileFound, DirInOnePiece, Files, Asked
  <2>2. PICK k \in DOMAIN disk.dir : e = disk.dir[k]
    BY DEF Files, FilesOn, Range
  <2>3. k \in 1 .. Len(disk.dir)
    <3>1. disk.dir \in Seq(DirectoryRecord)
      BY <1>2, RootFacts
    <3> QED BY <2>2, <3>1
  <2>4. Wanted(e)
    BY <2>1 DEF Wanted, IsValidFile, Files, FilesOn
  <2> QED
    BY <1>3, <2>1, <2>2, <2>3, <2>4 DEF Missed
<1> QED
  BY <1>1, <1>4 DEF Right, WalkInv, ChainInv, ReadRight

\* A file of that name is the one that was found.
LEMMA Unique ==
  ASSUME disk \in Disks, NEW e \in Files, NEW f \in Files, Asked(e), Asked(f)
  PROVE  e = f
<1>1. e \in FilesOn(disk) /\ f \in FilesOn(disk) /\ e.name = f.name /\ e.ext = f.ext
  BY DEF Files, Asked
<1> QED
  BY <1>1, DiskAssumption

LEMMA ChainFacts ==
  ASSUME disk \in Disks, NEW e \in Files
  PROVE  /\ e.chain \in Seq(Nat) /\ Len(e.chain) \in Nat /\ e.size \in 0 .. U32 - 1
         /\ FileStored(disk, e) /\ Chained(disk, e.chain, disk.file_eoc)
         /\ \A j \in 1 .. Len(e.chain) : e.chain[j] \in Nat /\ e.chain[j] < EOC_MIN
<1>1. PICK k \in DOMAIN disk.dir : e = disk.dir[k]
  BY DEF Files, FilesOn, Range
<1>2. disk.dir \in Seq(DirectoryRecord)
  BY RootFacts
<1>3. e \in DirectoryRecord
  BY <1>1, <1>2
<1>4. e.chain \in Seq(Nat) /\ e.size \in 0 .. U32 - 1
  BY <1>3 DEF DirectoryRecord
<1>5. FileStored(disk, e)
  BY DiskAssumption DEF Files
<1>6. Chained(disk, e.chain, disk.file_eoc)
  BY <1>5 DEF FileStored
<1>7. ASSUME NEW j \in 1 .. Len(e.chain) PROVE e.chain[j] \in Nat /\ e.chain[j] < EOC_MIN
  <2>1. e.chain[j] \in Nat
    BY <1>4
  <2>2. e.chain[j] < EOC_MIN
    BY <1>6 DEF Chained
  <2> QED BY <2>1, <2>2
<1>8. Len(e.chain) \in Nat
  BY <1>4
<1> QED
  BY <1>4, <1>5, <1>6, <1>7, <1>8

LEMMA FollowRight ==
  ASSUME Basic, Right, FollowChain
  PROVE  Right'
<1>1. PICK n : n = disk.cells[FatAt(Geometry(disk), fat_entry)].entry
  OBVIOUS
<1>2. /\ pc = "chain" /\ fat_entry < EOC /\ n \in Nat
      /\ disk' = disk /\ call' = call /\ found' = found
      /\ \/ /\ n < EOC /\ n # fat_entry + 1 /\ pc' = "done" /\ ret' = -1
         \/ /\ ~(n < EOC /\ n # fat_entry + 1) /\ pc' = "chain" /\ fat_entry' = n
  BY <1>1, FollowStep
<1>3. WalkInv' /\ ReadRight'
  BY <1>2 DEF WalkInv, ReadRight
<1>4. CASE ~DirInOnePiece
  BY <1>2, <1>3, <1>4 DEF Right, DirInOnePiece, ChainInv, FileFound
<1>5. CASE DirInOnePiece
  <2>1. disk \in Disks /\ fat_entry \in Nat /\ found \in Files /\ Asked(found)
    BY <1>2, <1>5 DEF Basic, TypeInv, Right, ChainInv
  <2>2. PICK chain : chain = found.chain
    OBVIOUS
  <2>3. /\ chain \in Seq(Nat) /\ Len(chain) \in Nat /\ Chained(disk, chain, disk.file_eoc)
        /\ \A j \in 1 .. Len(chain) : chain[j] \in Nat /\ chain[j] < EOC_MIN
    BY <2>1, <2>2, ChainFacts
  \* The entry read at a cluster of the chain.
  <2>4. ASSUME NEW j \in 1 .. Len(chain), fat_entry = chain[j]
        PROVE  n = IF j = Len(chain) THEN disk.file_eoc ELSE chain[j + 1]
    <3>1. PICK x : x = FatAt(Geometry(disk), chain[j])
      OBVIOUS
    <3>2. disk.cells[x] = [kind |-> "fat",
                           entry |-> IF j = Len(chain) THEN disk.file_eoc ELSE chain[j + 1]]
      BY <2>3, <3>1 DEF Chained
    <3> QED BY <1>1, <2>4, <3>1, <3>2
  <2>5. \/ chain = <<>>
        \/ \E j \in 1 .. Len(chain) : fat_entry = chain[j] /\ Straight(chain, j)
        \/ Straight(chain, Len(chain)) /\ disk.file_eoc # EOC
    <3>1. fat_entry # EOC
      BY <1>2, <2>1 DEF EOC
    <3> QED BY <1>2, <1>5, <2>2, <3>1 DEF Right, ChainInv
  <2>6. CASE n < EOC /\ n # fat_entry + 1 /\ pc' = "done" /\ ret' = -1
    <3>1. SUFFICES ASSUME NEW e \in Files, Asked(e), e.chain # <<>>, Contiguous(e.chain),
                          disk.file_eoc = EOC
                   PROVE  FALSE
      BY <1>2, <1>3, <2>6 DEF Right, FileFound, ChainInv, DirInOnePiece, Files, Asked
    <3>2. e = found
      BY <2>1, <3>1, Unique
    <3>3. PICK j \in 1 .. Len(chain) : fat_entry = chain[j]
      BY <2>2, <2>5, <3>1, <3>2
    <3>4. CASE j = Len(chain)
      BY <2>4, <2>6, <3>1, <3>3, <3>4 DEF EOC
    <3>5. CASE j # Len(chain)
      <4>1. j \in 1 .. Len(chain) - 1
        BY <2>3, <3>5
      <4>2. chain[j + 1] = chain[j] + 1
        BY <2>2, <3>1, <3>2, <4>1 DEF Contiguous
      <4> QED BY <2>4, <2>6, <3>3, <3>5, <4>2
    <3> QED BY <3>4, <3>5
  <2>7. CASE ~(n < EOC /\ n # fat_entry + 1) /\ pc' = "chain" /\ fat_entry' = n
    <3>1. \/ chain = <<>>
          \/ \E j \in 1 .. Len(chain) : n = chain[j] /\ Straight(chain, j)
          \/ /\ Straight(chain, Len(chain))
             /\ disk.file_eoc = EOC => n = EOC
      <4>1. CASE \E j \in 1 .. Len(chain) : fat_entry = chain[j] /\ Straight(chain, j)
        <5>1. PICK j \in 1 .. Len(chain) : fat_entry = chain[j] /\ Straight(chain, j)
          BY <4>1
        <5>2. CASE j = Len(chain)
          BY <2>4, <5>1, <5>2
        <5>3. CASE j # Len(chain)
          <6>1. j + 1 \in 1 .. Len(chain) /\ n = chain[j + 1]
            BY <2>3, <2>4, <5>1, <5>3
          <6>2. n < EOC
            BY <2>3, <6>1 DEF EOC, EOC_MIN
          <6>3. n = chain[j] + 1
            BY <2>7, <5>1, <6>2
          <6>4. Straight(chain, j + 1)
            <7>1. SUFFICES ASSUME NEW i \in 1 .. j + 1 PROVE chain[i] = chain[1] + i - 1
              BY DEF Straight
            <7>2. CASE i \in 1 .. j
              BY <5>1, <7>2 DEF Straight
            <7>3. CASE i = j + 1
              <8>1. chain[j] = chain[1] + j - 1 /\ chain[1] \in Nat
                BY <2>3, <5>1 DEF Straight
              <8>2. j \in Nat /\ chain[j + 1] = chain[j] + 1
                BY <2>3, <6>1, <6>3
              <8>3. chain[j + 1] = chain[1] + (j + 1) - 1
                BY <8>1, <8>2
              <8> QED BY <7>3, <8>3
            <7> QED BY <7>2, <7>3
          <6> QED BY <6>1, <6>4
        <5> QED BY <5>2, <5>3
      <4> QED
        BY <2>5, <4>1
    <3>2. ChainInv'
      BY <1>2, <2>1, <2>2, <2>7, <3>1 DEF ChainInv, Files, Asked
    <3> QED
      BY <1>3, <2>7, <3>2 DEF Right, FileFound
  <2> QED
    BY <1>2, <2>6, <2>7
<1> QED
  BY <1>4, <1>5

LEMMA ReadDataRight ==
  ASSUME Basic, Right, ReadData
  PROVE  Right'
<1>1. PICK n : n = Clamp(found.size, call.seek, call.size)
  OBVIOUS
<1>2. PICK a : a = ClusterAt(Geometry(disk), found.cluster) + call.seek
  OBVIOUS
<1>3. /\ pc = "chain" /\ fat_entry >= EOC /\ pc' = "done" /\ ret' = n
      /\ disk' = disk /\ call' = call /\ found' = found /\ n \in Nat /\ a \in Int
      /\ \E r : Holds(r, disk.cells, Held(disk), a, n) /\ buf' = r.buf
  BY <1>1, <1>2, DataRead
<1>4. WalkInv' /\ ChainInv' /\ FileFound'
  BY <1>3 DEF WalkInv, ChainInv, FileFound
<1>5. ReadRight'
  <2>1. SUFFICES ASSUME DirInOnePiece
                 PROVE  /\ found \in Files /\ Asked(found) /\ Contiguous(found.chain)
                        /\ call.seek <= found.size =>
                             /\ n = MinOf(call.size, found.size - call.seek)
                             /\ buf' = [k \in 1 .. n |-> [kind |-> "data", of |-> found.name,
                                                          at |-> call.seek + k - 1]]
    BY <1>3 DEF ReadRight, DirInOnePiece, Files, Asked
  <2>2. /\ disk \in Disks /\ call \in Calls /\ fat_entry \in Nat
        /\ found \in Files /\ Asked(found)
    BY <1>3, <2>1 DEF Basic, TypeInv, Right, ChainInv
  <2>3. PICK chain : chain = found.chain
    OBVIOUS
  <2>4. /\ chain \in Seq(Nat) /\ Len(chain) \in Nat /\ found.size \in 0 .. U32 - 1
        /\ FileStored(disk, found)
        /\ \A j \in 1 .. Len(chain) : chain[j] \in Nat /\ chain[j] < EOC_MIN
    BY <2>2, <2>3, ChainFacts
  <2>5. Straight(chain, Len(chain))
    <3>1. \A j \in 1 .. Len(chain) : chain[j] # fat_entry
      BY <1>3, <2>2, <2>4 DEF EOC, EOC_MIN
    <3>2. chain = <<>> => Straight(chain, Len(chain))
      BY DEF Straight
    <3> QED BY <1>3, <2>1, <2>3, <3>1, <3>2 DEF Right, ChainInv
  <2>6. Contiguous(chain)
    BY <2>4, <2>5, StraightIsContiguous
  <2>7. call.seek \in Nat /\ call.size \in Nat /\ call.seek + call.size < U32
    BY <2>2, CallsAssumption
  <2>8. ASSUME call.seek <= found.size
        PROVE  /\ n = MinOf(call.size, found.size - call.seek)
               /\ buf' = [k \in 1 .. n |-> [kind |-> "data", of |-> found.name,
                                            at |-> call.seek + k - 1]]
    <3>1. n = MinOf(call.size, found.size - call.seek)
      BY <1>1, <2>4, <2>7, <2>8, ClampNat
    <3>2. PICK z \in Nat : z = found.size
      BY <2>4
    <3>3. PICK sk \in Nat : sk = call.seek
      BY <2>7
    <3>4. sk + n <= z
      BY <1>3, <2>7, <2>8, <3>1, <3>2, <3>3 DEF MinOf
    <3>5. PICK r : Holds(r, disk.cells, Held(disk), a, n) /\ buf' = r.buf
      BY <1>3
    <3>6. PICK x : x = r.buf
      OBVIOUS
    <3>7. /\ x \in Seq(Held(disk)) /\ Len(x) = n
          /\ \A k \in 1 .. n : a + k - 1 \in DOMAIN disk.cells => x[k] = disk.cells[a + k - 1]
      BY <3>5, <3>6 DEF Holds
    <3>8. ASSUME NEW k \in 1 .. n
          PROVE  x[k] = [kind |-> "data", of |-> found.name, at |-> call.seek + k - 1]
      <4>1. PICK p \in Nat : p = sk + k - 1 /\ p < z
        BY <1>3, <3>4
      <4>2. PICK N \in Nat : N = ClusterCells(disk) /\ N > 0
        BY <2>2, ClusterCellsNat
      <4>3. z <= Len(chain) * N
        BY <2>3, <2>4, <3>2, <4>2 DEF FileStored
      <4>4. Len(chain) # 0
        <5>1. SUFFICES ASSUME Len(chain) = 0 PROVE FALSE
          OBVIOUS
        <5>2. Len(chain) * N = 0
          BY <5>1
        <5> QED BY <4>1, <4>3, <5>2
      <4>5. 1 \in 1 .. Len(chain)
        BY <2>4, <4>4
      <4>6. p < Len(chain) * N
        <5>1. PICK M \in Nat : M = Len(chain) * N
          BY <2>4
        <5> QED BY <4>1, <4>3, <5>1
      <4>7. p = (1 - 1) * ClusterCells(disk) + p /\ p < Len(chain) * ClusterCells(disk)
        BY <4>2, <4>6
      <4>8. Place(disk, chain, p) = ClusterAt(Geometry(disk), chain[1]) + p
        BY <2>2, <2>4, <2>5, <4>5, <4>7, PlaceInPiece
      <4>9. found.cluster = chain[1]
        <5>1. chain # <<>>
          BY <4>4
        <5> QED BY <2>3, <2>4, <5>1 DEF FileStored
      <4>10. PICK b \in Int : b = ClusterAt(Geometry(disk), chain[1])
        <5>1. chain[1] \in Nat
          BY <2>4, <4>5
        <5> QED BY <2>2, <5>1, Addresses
      <4>11. a = b + sk
        BY <1>2, <3>3, <4>9, <4>10
      <4>12. a + k - 1 = b + p
        BY <3>3, <4>1, <4>11
      <4>13. p \in 0 .. found.size - 1
        BY <3>2, <4>1
      <4>14. /\ Place(disk, chain, p) \in DOMAIN disk.cells
             /\ disk.cells[Place(disk, chain, p)] = [kind |-> "data", of |-> found.name, at |-> p]
        BY <2>3, <2>4, <4>13 DEF FileStored
      <4>15. a + k - 1 = Place(disk, chain, p)
        BY <4>8, <4>10, <4>12
      <4>16. x[k] = [kind |-> "data", of |-> found.name, at |-> p]
        BY <3>7, <4>14, <4>15
      <4> QED BY <3>3, <4>1, <4>16
    <3>9. x = [k \in 1 .. n |-> x[k]]
      BY <3>7
    <3>10. x = [k \in 1 .. n |-> [kind |-> "data", of |-> found.name, at |-> call.seek + k - 1]]
      BY <3>8, <3>9
    <3> QED
      BY <3>1, <3>5, <3>6, <3>10
  <2> QED
    BY <2>2, <2>3, <2>6, <2>8
<1> QED
  BY <1>4, <1>5 DEF Right

LEMMA RightInductive ==
  ASSUME Basic, Right, [Next]_vars
  PROVE  Right'
<1>1. CASE FAT32_Init
  <2>1. pc' = "call"
    BY <1>1 DEF FAT32_Init
  <2> QED
    BY <2>1 DEF Right, WalkInv, ChainInv, ReadRight, FileFound
<1>2. CASE UNCHANGED vars
  <2>1. UNCHANGED <<disk, call, pc, fat_entry, record_cnt, found, ret, buf>>
    BY <1>2 DEF vars, local, result
  <2>2. WalkInv'
    BY <2>1 DEF Right, WalkInv, WalkAt, Missed, Wanted, Asked, DirInOnePiece
  <2>3. ChainInv'
    BY <2>1 DEF Right, ChainInv, Files, Asked, DirInOnePiece
  <2>4. ReadRight' /\ FileFound'
    BY <2>1 DEF Right, ReadRight, FileFound, Files, Asked, DirInOnePiece
  <2> QED
    BY <2>2, <2>3, <2>4 DEF Right
<1>3. CASE Done
  BY <1>2, <1>3 DEF Done
<1> QED
  BY <1>1, <1>2, <1>3, CheckNameRight, ReadRecordRight, NextDirRight, NotFoundRight,
     FollowRight, ReadDataRight DEF Next, FAT32_Read

-----------------------------------------------------------------------------

\* Where the driver is on the disk, at each of its statements.
THEOREM Fat32Invariance == Spec => []FInv
<1>1. FInv /\ [Next]_vars => FInv'
  <2> SUFFICES ASSUME FInv, [Next]_vars PROVE FInv'
    OBVIOUS
  <2>1. Basic /\ Right
    BY DEF FInv, Basic, Right
  <2>2. Basic'
    BY <2>1, BasicInductive
  <2>3. Right'
    BY <2>1, RightInductive
  <2> QED
    BY <2>2, <2>3 DEF FInv, Basic, Right
<1> QED
  BY <1>1, Initially, PTL DEF Spec

\* Every read through the one sector of cache returns the cells of the disk that were
\* asked for, for every sector size and every range (blk_seek_and_read).
THEOREM BlockReadsExact == Spec => []BlockReadExact
<1>1. FInv => BlockReadExact
  BY DEF FInv
<1> QED
  BY <1>1, Fat32Invariance, PTL

\* FAT32_Read delivers the bytes of the file asked for and no others, on every disk of
\* DiskAssumption.
THEOREM ReadsRight == Spec => []ReadRight
<1>1. FInv => ReadRight
  BY DEF FInv
<1> QED
  BY <1>1, Fat32Invariance, PTL

\* FAT32_Read does not miss a file in one piece, wherever in the directory its record is.
THEOREM FilesFound == Spec => []FileFound
<1>1. FInv => FileFound
  BY DEF FInv
<1> QED
  BY <1>1, Fat32Invariance, PTL
=============================================================================
