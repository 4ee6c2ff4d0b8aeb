---------------------------- MODULE IOQueueProofs ----------------------------
(***************************************************************************)
(* The ring buffer of fs/ioqueue.c implements a bounded FIFO, for every    *)
(* length and every set of requests.                                       *)
(***************************************************************************)
EXTENDS IOQueue, TLAPS

\* Counting up modulo the length, without the modulo.
LEMMA Successor ==
  ASSUME NEW n \in Nat \ {0}, NEW i \in 0 .. n - 1
  PROVE  (i + 1) % n = IF i + 1 = n THEN 0 ELSE i + 1
<1>1. CASE i + 1 = n
  BY <1>1
<1>2. CASE i + 1 < n
  BY <1>2
<1> QED
  BY <1>1, <1>2

\* The full test of the C code, which takes the remainder of a number that
\* may be negative, sees the two values that mean full.
LEMMA FullTest ==
  ASSUME NEW n \in Nat \ {0}, NEW h \in 0 .. n - 1, NEW t \in 0 .. n - 1
  PROVE  (t + 1 - h) % n = 0 <=> t + 1 = h \/ t + 1 - h = n
<1>1. CASE t + 1 = h
  BY <1>1
<1>2. CASE t + 1 - h = n
  BY <1>2
<1>3. CASE t + 1 - h > 0 /\ t + 1 - h < n
  BY <1>3
<1>4. CASE t + 1 - h < 0
  BY <1>4
<1> QED
  BY <1>1, <1>2, <1>3, <1>4

QInv == QTypeOK /\ HoldsRequests

\* The positions of the queued requests.
LEMMA Positions ==
  ASSUME QTypeOK
  PROVE  /\ q.head \in Index /\ q.tail \in Index
         /\ Size \in 0 .. FS_IOQUEUE_LEN - 1
         /\ \A i \in 1 .. Size : Pos(i) \in Index /\ Pos(i) # q.tail
         /\ \A i, j \in 1 .. Size : Pos(i) = Pos(j) => i = j
         /\ Pos(Size + 1) = q.tail
         /\ Size > 0 => Pos(1) = q.head
         /\ Size = 0 <=> ioqueue_isempty
         /\ Size = FS_IOQUEUE_LEN - 1 <=> ioqueue_isfull
<1>1. FS_IOQUEUE_LEN \in Nat \ {0} /\ q.head \in Index /\ q.tail \in Index
  BY QueueAssumption DEF QTypeOK
<1>2. Size \in 0 .. FS_IOQUEUE_LEN - 1
  BY <1>1 DEF Size, Index
<1>3. \A i \in 1 .. Size : Pos(i) \in Index /\ Pos(i) # q.tail
  BY <1>1 DEF Size, Index, Pos
<1>4. \A i, j \in 1 .. Size : Pos(i) = Pos(j) => i = j
  BY <1>1 DEF Size, Index, Pos
<1>5. Pos(Size + 1) = q.tail
  BY <1>1 DEF Size, Index, Pos
<1>6. Size > 0 => Pos(1) = q.head
  BY <1>1 DEF Size, Index, Pos
<1>7. Size = 0 <=> ioqueue_isempty
  BY <1>1 DEF Size, Index, ioqueue_isempty
<1>8. Size = FS_IOQUEUE_LEN - 1 <=> ioqueue_isfull
  <2>1. ioqueue_isfull <=> q.tail + 1 = q.head \/ q.tail + 1 - q.head = FS_IOQUEUE_LEN
    BY <1>1, FullTest DEF ioqueue_isfull, Index
  <2> QED
    BY <1>1, <2>1 DEF Size, Index
<1> QED
  BY <1>1, <1>2, <1>3, <1>4, <1>5, <1>6, <1>7, <1>8

\* Enqueueing appends, and disturbs no request that is waiting.
LEMMA EnqueueStep ==
  ASSUME QInv, NEW e \in IOQuest, ioenqueue(e)
  PROVE  /\ QInv'
         /\ Size < FS_IOQUEUE_LEN - 1
         /\ Contents' = Append(Contents, e)
<1> DEFINE n == Size
<1>1. FS_IOQUEUE_LEN \in Nat \ {0} /\ q.head \in Index /\ q.tail \in Index
      /\ q.list \in [Index -> IOQuest \cup {ZERO}]
  BY QueueAssumption DEF QInv, QTypeOK
<1>2. n \in Nat /\ n < FS_IOQUEUE_LEN - 1
  BY <1>1, Positions DEF QInv, ioenqueue
<1>3. /\ q'.head = q.head
      /\ q'.tail = IF q.tail + 1 = FS_IOQUEUE_LEN THEN 0 ELSE q.tail + 1
      /\ q'.list = [q.list EXCEPT ![q.tail] = e]
  <2>1. (q.tail + 1) % FS_IOQUEUE_LEN = IF q.tail + 1 = FS_IOQUEUE_LEN THEN 0 ELSE q.tail + 1
    BY <1>1, Successor DEF Index
  <2> QED
    BY <2>1 DEF ioenqueue, QInv, QTypeOK
<1>4. QTypeOK'
  <2>1. q' = [q EXCEPT !.list[q.tail] = e, !.tail = (q.tail + 1) % FS_IOQUEUE_LEN]
    BY DEF ioenqueue
  <2>2. (q.tail + 1) % FS_IOQUEUE_LEN \in Index
    BY <1>1 DEF Index
  <2> QED
    BY <1>1, <2>1, <2>2 DEF QInv, QTypeOK
<1>5. Size' = n + 1
  BY <1>1, <1>2, <1>3 DEF Size, Index
<1>6. \A i : Pos(i)' = Pos(i)
  BY <1>3 DEF Pos
<1>7. Pos(n + 1) = q.tail
  BY Positions DEF QInv
<1>8. /\ q'.list[Pos(n + 1)] = e
      /\ \A i \in 1 .. n : q'.list[Pos(i)] = q.list[Pos(i)]
  BY <1>1, <1>3, <1>7, Positions DEF QInv
<1> HIDE DEF n
<1>9. HoldsRequests'
  <2>1. \A i \in 1 .. n : q.list[Pos(i)] \in IOQuest
    BY DEF QInv, HoldsRequests, n
  <2>2. \A i \in 1 .. n + 1 : q'.list[Pos(i)] \in IOQuest
    BY <1>2, <1>8, <2>1
  <2>3. ASSUME NEW k \in Index, \A i \in 1 .. n + 1 : k # Pos(i)
        PROVE  q'.list[k] = ZERO
    <3>1. k # q.tail
      BY <1>2, <1>7, <2>3
    <3>2. \A i \in 1 .. n : k # Pos(i)
      BY <1>2, <2>3
    <3> QED
      BY <1>1, <1>3, <3>1, <3>2 DEF QInv, HoldsRequests, n
  <2> QED
    BY <1>5, <1>6, <2>2, <2>3 DEF HoldsRequests
<1>10. Contents' = Append(Contents, e)
  <2>1. Contents' = [i \in 1 .. n + 1 |-> q'.list[Pos(i)]]
    BY <1>5, <1>6 DEF Contents
  <2>2. Contents = [i \in 1 .. n |-> q.list[Pos(i)]] /\ Contents \in Seq(IOQuest)
    BY <1>2 DEF Contents, QInv, HoldsRequests, n
  <2>3. Append(Contents, e) = [i \in 1 .. n + 1 |-> IF i = n + 1 THEN e ELSE Contents[i]]
    BY <1>2, <2>2
  <2>4. \A i \in 1 .. n + 1 : q'.list[Pos(i)] = IF i = n + 1 THEN e ELSE Contents[i]
    BY <1>2, <1>8, <2>2
  <2> QED
    BY <2>1, <2>3, <2>4
<1> QED
  BY <1>2, <1>4, <1>9, <1>10 DEF QInv, n

\* Dequeueing takes the oldest request.
LEMMA DequeueStep ==
  ASSUME QInv, NEW e, iodequeue(e)
  PROVE  /\ QInv'
         /\ Contents # <<>>
         /\ e = Head(Contents)
         /\ Contents' = Tail(Contents)
<1> DEFINE n == Size
<1>1. FS_IOQUEUE_LEN \in Nat \ {0} /\ q.head \in Index /\ q.tail \in Index
      /\ q.list \in [Index -> IOQuest \cup {ZERO}]
  BY QueueAssumption DEF QInv, QTypeOK
<1>2. n \in Nat /\ n > 0 /\ Pos(1) = q.head
  BY Positions DEF QInv, iodequeue
<1>3. /\ q'.tail = q.tail
      /\ q'.head = IF q.head + 1 = FS_IOQUEUE_LEN THEN 0 ELSE q.head + 1
      /\ q'.list = [q.list EXCEPT ![q.head] = ZERO]
  <2>1. (q.head + 1) % FS_IOQUEUE_LEN = IF q.head + 1 = FS_IOQUEUE_LEN THEN 0 ELSE q.head + 1
    BY <1>1, Successor DEF Index
  <2> QED
    BY <2>1 DEF iodequeue, QInv, QTypeOK
<1>4. QTypeOK'
  <2>1. q' = [q EXCEPT !.list[q.head] = ZERO, !.head = (q.head + 1) % FS_IOQUEUE_LEN]
    BY DEF iodequeue
  <2>2. (q.head + 1) % FS_IOQUEUE_LEN \in Index
    BY <1>1 DEF Index
  <2> QED
    BY <1>1, <2>1, <2>2 DEF QInv, QTypeOK
<1>5. Size' = n - 1
  BY <1>1, <1>2, <1>3 DEF Size, Index
<1>6. ASSUME NEW i \in 1 .. n - 1 PROVE Pos(i)' = Pos(i + 1)
  <2>1. n \in 1 .. FS_IOQUEUE_LEN - 1
    BY <1>1, <1>2, Positions DEF QInv
  <2>2. q.head \in Nat /\ q.head < FS_IOQUEUE_LEN
    BY <1>1 DEF Index
  <2> HIDE DEF n
  <2>3. i \in Nat /\ i < FS_IOQUEUE_LEN
    BY <1>1, <2>1
  <2>4. q'.head + i - 1 = IF q.head + 1 = FS_IOQUEUE_LEN THEN i - 1 ELSE q.head + i
    BY <1>1, <1>3, <2>2, <2>3
  <2> QED
    BY <1>1, <2>2, <2>3, <2>4 DEF Pos
<1>7. \A i \in 2 .. n : Pos(i) # q.head /\ q'.list[Pos(i)] = q.list[Pos(i)]
  <2>1. \A i \in 2 .. n : Pos(i) # Pos(1) /\ Pos(i) \in Index
    BY <1>2, Positions DEF QInv
  <2> QED
    BY <1>1, <1>2, <1>3, <2>1
<1> HIDE DEF n
<1>8. HoldsRequests'
  <2>1. \A i \in 1 .. n - 1 : q'.list[Pos(i)'] \in IOQuest
    BY <1>2, <1>6, <1>7 DEF QInv, HoldsRequests, n
  <2>2. ASSUME NEW k \in Index, \A i \in 1 .. n - 1 : k # Pos(i)'
        PROVE  q'.list[k] = ZERO
    <3>1. CASE k = q.head
      BY <1>1, <1>3, <3>1
    <3>2. CASE k # q.head
      <4>1. ASSUME NEW i \in 1 .. n PROVE k # Pos(i)
        <5>1. CASE i = 1
          BY <1>2, <3>2, <5>1
        <5>2. CASE i - 1 \in 1 .. n - 1
          <6>1. Pos(i - 1)' = Pos(i - 1 + 1)
            BY <1>6, <5>2
          <6>2. i - 1 + 1 = i
            BY <1>2
          <6> QED
            BY <2>2, <5>2, <6>1, <6>2
        <5> QED
          BY <1>2, <5>1, <5>2
      <4> QED
        BY <1>1, <1>3, <3>2, <4>1 DEF QInv, HoldsRequests, n
    <3> QED
      BY <3>1, <3>2
  <2> QED
    BY <1>5, <2>1, <2>2 DEF HoldsRequests
<1>9. Contents = [i \in 1 .. n |-> q.list[Pos(i)]] /\ Contents \in Seq(IOQuest)
      /\ Len(Contents) = n
  BY <1>2 DEF Contents, QInv, HoldsRequests, n
<1>10. Contents' = Tail(Contents)
  <2>1. Contents' = [i \in 1 .. n - 1 |-> q'.list[Pos(i)']]
    BY <1>5 DEF Contents
  <2>2. Tail(Contents) = [i \in 1 .. n - 1 |-> Contents[i + 1]]
    BY <1>2, <1>9
  <2>3. \A i \in 1 .. n - 1 : q'.list[Pos(i)'] = Contents[i + 1]
    BY <1>2, <1>6, <1>7, <1>9
  <2> QED
    BY <2>1, <2>2, <2>3
<1>11. Contents # <<>> /\ e = Head(Contents)
  BY <1>2, <1>9 DEF iodequeue
<1> QED
  BY <1>4, <1>8, <1>10, <1>11 DEF QInv

LEMMA QInit == ioqueue_init => QInv /\ Contents = <<>>
<1> SUFFICES ASSUME ioqueue_init PROVE QInv /\ Contents = <<>>
  OBVIOUS
<1>1. QTypeOK
  BY QueueAssumption DEF ioqueue_init, QTypeOK, Index
<1>2. Size = 0
  BY DEF ioqueue_init, Size
<1> QED
  BY <1>1, <1>2 DEF QInv, HoldsRequests, Contents, ioqueue_init

LEMMA QStep == QInv /\ [QNext]_q => QInv' /\ [F!FNext]_Contents
<1> SUFFICES ASSUME QInv, [QNext]_q PROVE QInv' /\ [F!FNext]_Contents
  OBVIOUS
<1>1. ASSUME NEW e \in IOQuest, ioenqueue(e) PROVE QInv' /\ F!FNext
  <2>1. QInv' /\ Size < FS_IOQUEUE_LEN - 1 /\ Contents' = Append(Contents, e)
    BY <1>1, EnqueueStep
  <2>2. Len(Contents) = Size
    BY Positions DEF Contents, QInv
  <2> QED
    BY <2>1, <2>2 DEF F!FNext, F!Put
<1>2. ASSUME NEW e \in IOQuest, iodequeue(e) PROVE QInv' /\ F!FNext
  BY <1>2, DequeueStep DEF F!FNext, F!Take
<1>3. CASE UNCHANGED q
  BY <1>3 DEF QInv, QTypeOK, HoldsRequests, Size, Pos, Contents
<1> QED
  BY <1>1, <1>2, <1>3 DEF QNext

\* The list never loses, duplicates or overwrites a request (ioenqueue,
\* iodequeue), whatever its length and however often the indices wrap.
THEOREM QueueHoldsRequests == QSpec => [](QTypeOK /\ HoldsRequests)
<1>1. QInv => QTypeOK /\ HoldsRequests
  BY DEF QInv
<1> QED
  BY <1>1, QInit, QStep, PTL DEF QSpec

\* The ring buffer of ioqueue.c implements a FIFO of capacity
\* FS_IOQUEUE_LEN - 1.
THEOREM QueueIsFIFO == QSpec => ImplementsFIFO
<1>1. ioqueue_init => F!FInit
  BY QInit DEF F!FInit
<1> QED
  BY <1>1, QInit, QStep, PTL DEF QSpec, ImplementsFIFO, F!FSpec
=============================================================================
