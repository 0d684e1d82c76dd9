------------------------ MODULE SpscRingQueueProofs ------------------------
EXTENDS SpscRingQueue, SequenceTheorems, TLAPS

LEMMA ModFacts ==
  ASSUME NEW a \in Nat, NEW c \in Nat, c > 0
  PROVE  /\ a % c \in 0 .. c - 1
         /\ a = c * (a \div c) + (a % c)
         /\ a \div c \in Nat
  OBVIOUS

LEMMA MulFacts ==
  ASSUME NEW q \in Int, NEW c \in Nat, c > 0
  PROVE  /\ q >= 1 => c * q >= c
         /\ q <= 0 => c * q <= 0
         /\ c * q \in Int
  OBVIOUS

LEMMA ModUnique ==
  ASSUME NEW q \in Int, NEW r \in Nat, NEW c \in Nat, c > r
  PROVE  (c * q + r) % c = r
  OBVIOUS

LEMMA ModDistinct ==
  ASSUME NEW a \in Nat, NEW b \in Nat, NEW c \in Nat, a < b, b < a + c
  PROVE  a % c # b % c
<1>1. c > 0
  OBVIOUS
<1> DEFINE q == (b \div c) - (a \div c)
<1>2. SUFFICES ASSUME a % c = b % c PROVE FALSE
  OBVIOUS
<1>3. q \in Int /\ b - a = c * q
  BY <1>1, <1>2, ModFacts
<1> HIDE DEF q
<1>4. (q >= 1 => b - a >= c) /\ (q <= 0 => b - a <= 0)
  BY <1>1, <1>3, MulFacts
<1>5. QED
  BY <1>3, <1>4

LEMMA ModNext ==
  ASSUME NEW a \in Nat, NEW c \in Nat, c > 0
  PROVE  ((a % c) + 1) % c = (a + 1) % c
<1> DEFINE q == a \div c
           r == a % c
<1>1. q \in Nat /\ r \in 0 .. c - 1 /\ a = c * q + r
  BY ModFacts
<1> HIDE DEF q, r
<1>2. CASE r + 1 < c
  <2>1. (a + 1) % c = r + 1
    BY <1>1, <1>2, ModUnique
  <2>2. (r + 1) % c = r + 1
    BY <1>1, <1>2
  <2>3. QED
    BY <2>1, <2>2 DEF r
<1>3. CASE r + 1 = c
  <2>1. a + 1 = c * (q + 1) + 0
    BY <1>1, <1>3
  <2>2. (a + 1) % c = 0
    BY <2>1, <1>1, ModUnique
  <2>3. (r + 1) % c = 0
    BY <1>1, <1>3
  <2>4. QED
    BY <2>2, <2>3 DEF r
<1>4. QED
  BY <1>1, <1>2, <1>3

LEMMA ModShift ==
  ASSUME NEW a \in Nat, NEW c \in Nat, c > 0
  PROVE  (a + c) % c = a % c
<1> DEFINE q == a \div c
           r == a % c
<1>1. q \in Nat /\ r \in 0 .. c - 1 /\ a = c * q + r
  BY ModFacts
<1> HIDE DEF q, r
<1>2. a + c = c * (q + 1) + r
  BY <1>1
<1>3. (a + c) % c = r
  BY <1>1, <1>2, ModUnique
<1>4. QED
  BY <1>3 DEF r

----------------------------------------------------------------------------
(* Type correctness does not hold on its own: that a popped slot holds an   *)
(* element, not Empty, is part of the ring invariant.                       *)

LEMMA ModSlots == \A n \in Nat : Mod(n) \in Slots
  BY CapacityAssumption, ModFacts DEF Mod, Slots

LEMMA ModStep == \A n \in Nat : Mod(Mod(n) + 1) = Mod(n + 1)
<1>1. Capacity \in Nat /\ Capacity > 0
  BY CapacityAssumption
<1>2. QED
  BY <1>1, ModNext, Zenon DEF Mod

LEMMA ModWindow ==
  \A m, n \in Nat : (m < n /\ n < m + Capacity) => Mod(m) # Mod(n)
  BY CapacityAssumption, ModDistinct DEF Mod

LEMMA ModLap == \A n \in Nat : Mod(n + Capacity) = Mod(n)
<1>1. Capacity \in Nat /\ Capacity > 0
  BY CapacityAssumption
<1>2. QED
  BY <1>1, ModShift, Zenon DEF Mod

LEMMA InitRing == Init => TypeOK /\ RingInv
<1> SUFFICES ASSUME Init PROVE TypeOK /\ RingInv
  OBVIOUS
<1>1. 0 \in Slots /\ Mod(0) = 0
  BY CapacityAssumption DEF Slots, Mod
<1>2. Len(sent) = 0 /\ Len(got) = 0
  BY DEF Init
<1>3. TypeOK
  BY <1>1 DEF Init, TypeOK
<1>4. RingInv
  BY <1>1, <1>2, CapacityAssumption DEF Init, RingInv
<1>5. QED
  BY <1>3, <1>4

LEMMA NextRing ==
  ASSUME \A p, q \in Producers : p = q, TypeOK, RingInv, [Next]_vars
  PROVE  TypeOK' /\ RingInv'
<1> DEFINE S == Len(sent)
           G == Len(got)
<1> USE CapacityAssumption
<1>0. S \in Nat /\ G \in Nat
  BY DEF TypeOK
<1>1. CASE UNCHANGED vars
  BY <1>1 DEF vars, TypeOK, RingInv
<1>2. ASSUME NEW p \in Producers, NEW v \in Values, NEW how \in {"push", "try"},
             BeginPush(p, v, how)
      PROVE  TypeOK' /\ RingInv'
  BY <1>2 DEF BeginPush, cons, TypeOK, RingInv
<1>3. ASSUME NEW p \in Producers, TryPushFails(p)
      PROVE  TypeOK' /\ RingInv'
  BY <1>3 DEF TryPushFails, cons, TypeOK, RingInv
<1>4. ASSUME NEW p \in Producers, PushSpins(p)
      PROVE  TypeOK' /\ RingInv'
  BY <1>4 DEF PushSpins, cons, TypeOK, RingInv
<1>5. ASSUME NEW p \in Producers, FindsRoom(p)
      PROVE  TypeOK' /\ RingInv'
  <2>1. phead[p] = Mod(S) /\ tail = Mod(G) /\ S < G + Capacity
    BY <1>5 DEF FindsRoom, RingInv, TypeOK
  <2>2. Mod(S + 1) # tail
    BY <1>5, <1>0, <2>1, ModStep DEF FindsRoom, Full
  <2>3. S + 1 # G + Capacity
    BY <1>0, <2>1, <2>2, ModLap
  <2>4. S + 1 < G + Capacity
    BY <1>0, <2>1, <2>3
  <2>5. QED
    BY <1>5, <2>4 DEF FindsRoom, cons, TypeOK, RingInv
<1>6. ASSUME NEW p \in Producers, WriteSlot(p)
      PROVE  TypeOK' /\ RingInv'
  <2>1. phead[p] = Mod(S) /\ S + 1 < G + Capacity
    BY <1>6 DEF WriteSlot, RingInv, TypeOK
  <2>2. \A i \in G .. S - 1 : Mod(i) # phead[p] /\ Mod(i) \in Slots
    BY <1>0, <2>1, ModWindow, ModSlots
  <2>3. TypeOK'
    BY <1>6 DEF WriteSlot, cons, TypeOK, RingInv
  <2>4. \A i \in G .. S - 1 : buffer'[Mod(i)] = sent[i + 1]
    BY <1>6, <2>2 DEF WriteSlot, TypeOK, RingInv
  <2>5. QED
    BY <1>6, <2>3, <2>4 DEF WriteSlot, cons, TypeOK, RingInv
<1>7. ASSUME NEW p \in Producers, StoreHead(p)
      PROVE  TypeOK' /\ RingInv'
  <2>1. /\ phead[p] = Mod(S) /\ S + 1 < G + Capacity /\ pval[p] \in Values
        /\ buffer[Mod(S)] = pval[p]
    BY <1>7 DEF StoreHead, RingInv, TypeOK
  <2>2. head' = Mod(S + 1) /\ head' \in Slots
    BY <1>0, <1>7, <2>1, ModStep, ModSlots DEF StoreHead
  <2>3. /\ sent' \in Seq(Values) /\ Len(sent') = S + 1 /\ sent'[S + 1] = pval[p]
        /\ \A i \in 1 .. S : sent'[i] = sent[i]
    BY <1>7, <2>1 DEF StoreHead, TypeOK
  <2>4. TypeOK'
    BY <1>7, <2>2, <2>3 DEF StoreHead, cons, TypeOK
  <2>5. \A i \in G .. S : buffer[Mod(i)] = sent'[i + 1]
    <3>1. ASSUME NEW i \in G .. S - 1 PROVE buffer[Mod(i)] = sent'[i + 1]
      BY <1>0, <2>3 DEF RingInv
    <3>2. QED
      BY <1>0, <2>1, <2>3, <3>1
  <2>6. QED
    BY <1>0, <1>7, <2>1, <2>2, <2>3, <2>4, <2>5 DEF StoreHead, cons, TypeOK, RingInv
<1>8. ASSUME FindsElement PROVE TypeOK' /\ RingInv'
  BY <1>8 DEF FindsElement, Drained, prod, TypeOK, RingInv
<1>9. ASSUME ReadSlot PROVE TypeOK' /\ RingInv'
  <2>1. tail = Mod(G) /\ G < S
    BY <1>9 DEF ReadSlot, RingInv
  <2>2. buffer[tail] = sent[G + 1] /\ sent[G + 1] \in Values
    BY <1>0, <2>1 DEF RingInv, TypeOK
  <2>3. QED
    BY <1>9, <2>1, <2>2 DEF ReadSlot, prod, TypeOK, RingInv
<1>10. ASSUME StoreTail PROVE TypeOK' /\ RingInv'
  <2>1. tail = Mod(G) /\ G < S /\ cval = sent[G + 1] /\ cval \in Values
    BY <1>0, <1>10 DEF StoreTail, RingInv, TypeOK
  <2>2. tail' = Mod(G + 1) /\ tail' \in Slots
    BY <1>0, <1>10, <2>1, ModStep, ModSlots DEF StoreTail
  <2>3. /\ got' \in Seq(Values) /\ Len(got') = G + 1 /\ got'[G + 1] = cval
        /\ \A i \in 1 .. G : got'[i] = got[i]
    BY <1>10, <2>1 DEF StoreTail, TypeOK
  <2>4. TypeOK'
    BY <1>10, <2>2, <2>3 DEF StoreTail, prod, TypeOK
  <2>5. Len(got') <= S /\ S < Len(got') + Capacity
    BY <1>0, <2>1, <2>3 DEF RingInv
  <2>6. \A i \in 1 .. Len(got') : got'[i] = sent[i]
    <3>1. \A i \in 1 .. G : got'[i] = sent[i]
      BY <2>3 DEF RingInv
    <3>2. QED
      BY <1>0, <2>1, <2>3, <3>1
  <2>7. \A i \in Len(got') .. S - 1 : buffer[Mod(i)] = sent[i + 1]
    BY <1>0, <2>3 DEF RingInv
  <2>8. \A p \in Producers : ppc[p] \in {"write", "publish"} => S + 1 < Len(got') + Capacity
    BY <1>0, <2>3 DEF RingInv
  <2>9. UNCHANGED <<head, buffer, ppc, phead, pval, cval, stop, sent>> /\ cpc' = "loop"
    BY <1>10 DEF StoreTail, prod
  <2>10. QED
    BY <2>2, <2>3, <2>4, <2>5, <2>6, <2>7, <2>8, <2>9 DEF RingInv
<1>11. ASSUME Stop \/ ConsumerExits \/ CallsTryPop \/ FindsNothing PROVE TypeOK' /\ RingInv'
  BY <1>11 DEF Stop, ConsumerExits, CallsTryPop, FindsNothing, prod, cons, TypeOK, RingInv
<1>12. QED
  BY <1>1, <1>2, <1>3, <1>4, <1>5, <1>6, <1>7, <1>8, <1>9, <1>10, <1>11
     DEF Next, Producer, Consumer

(* A queue with one producer is in a consistent state after every step of   *)
(* Push, TryPush, TryPop and ConsumerLoop, for every capacity and number of *)
(* pushes.                                                                  *)
THEOREM RingSafe ==
  ASSUME \A p, q \in Producers : p = q
  PROVE  Spec => [](TypeOK /\ RingInv)
<1>1. TypeOK /\ RingInv /\ [Next]_vars => TypeOK' /\ RingInv'
  BY NextRing
<1>2. QED
  BY <1>1, InitRing, PTL DEF Spec

(* With one producer the handler receives the pushed elements in order.     *)
THEOREM FifoOrderHolds ==
  ASSUME \A p, q \in Producers : p = q
  PROVE  Spec => []FifoOrder
<1>1. TypeOK /\ RingInv => FifoOrder
  BY DEF RingInv, FifoOrder
<1>2. QED
  BY <1>1, RingSafe, PTL

(* With one producer no slot is written while it is read.                   *)
THEOREM NoSlotRaceHolds ==
  ASSUME \A p, q \in Producers : p = q
  PROVE  Spec => []NoSlotRace
<1>1. TypeOK /\ RingInv => NoSlotRace
  <2> SUFFICES ASSUME TypeOK, RingInv, NEW p \in Producers,
                      ppc[p] = "write", cpc = "read"
               PROVE  phead[p] # tail
    BY DEF NoSlotRace
  <2>1. phead[p] = Mod(Len(sent)) /\ tail = Mod(Len(got))
    BY DEF RingInv
  <2>2. Len(got) < Len(sent) /\ Len(sent) < Len(got) + Capacity
    BY DEF RingInv
  <2>3. QED
    BY <2>1, <2>2, ModWindow, CapacityAssumption DEF TypeOK
<1>2. QED
  BY <1>1, RingSafe, PTL

(* What the history variables say about the abstract queue.                 *)
LEMMA QueuedFacts ==
  ASSUME TypeOK, RingInv
  PROVE  /\ Queued \in Seq(Values)
         /\ Len(Queued) = Len(sent) - Len(got)
         /\ \A i \in 1 .. Len(sent) - Len(got) : Queued[i] = sent[Len(got) + i]
<1>1. Len(sent) \in Nat /\ Len(got) \in Nat /\ Len(got) <= Len(sent)
  BY DEF TypeOK, RingInv
<1>2. \A i \in 1 .. Len(sent) - Len(got) : sent[Len(got) + i] \in Values
  BY <1>1 DEF TypeOK
<1>3. Len(sent) - Len(got) \in Nat
  BY <1>1
<1>4. QED
  BY <1>2, <1>3 DEF Queued

(* One producer: the ring buffer implements the bounded FIFO.               *)
THEOREM RingRefinesFifo ==
  ASSUME \A p, q \in Producers : p = q
  PROVE  Spec => RefinesFifo
<1>1. Init => Fifo!Init
  <2> SUFFICES ASSUME Init PROVE Fifo!Init
    OBVIOUS
  <2>1. Len(sent) - Len(got) = 0
    BY DEF Init
  <2>2. Queued = <<>>
    BY <2>1 DEF Queued
  <2>3. QED
    BY <2>2 DEF Init, Fifo!Init
<1>2. TypeOK /\ RingInv /\ TypeOK' /\ RingInv' /\ [Next]_vars => [Fifo!Next]_(Fifo!vars)
  <2> SUFFICES ASSUME TypeOK, RingInv, TypeOK', RingInv', [Next]_vars
               PROVE  [Fifo!Next]_(Fifo!vars)
    OBVIOUS
  <2> USE CapacityAssumption
  <2> DEFINE S == Len(sent)
             G == Len(got)
  <2>0. S \in Nat /\ G \in Nat /\ G <= S
    BY DEF TypeOK, RingInv
  <2>1. CASE UNCHANGED <<sent, got>>
    BY <2>1 DEF Queued, Fifo!vars
  <2>2. ASSUME NEW p \in Producers, StoreHead(p)
        PROVE  Fifo!Accept(pval[p]) /\ pval[p] \in Values
    <3>1. pval[p] \in Values /\ S + 1 < G + Capacity /\ got' = got
      BY <2>2 DEF StoreHead, RingInv
    <3>2. /\ Len(sent') = S + 1 /\ sent'[S + 1] = pval[p]
          /\ \A i \in 1 .. S : sent'[i] = sent[i]
      BY <2>2, <3>1 DEF StoreHead, TypeOK
    <3>3. /\ Queued' \in Seq(Values) /\ Len(Queued') = S - G + 1
          /\ \A i \in 1 .. S - G + 1 : Queued'[i] = sent'[G + i]
      BY <2>0, <3>1, <3>2 DEF TypeOK, Queued
    <3>4. /\ Append(Queued, pval[p]) \in Seq(Values)
          /\ Len(Append(Queued, pval[p])) = S - G + 1
          /\ Append(Queued, pval[p])[S - G + 1] = pval[p]
          /\ \A i \in 1 .. S - G : Append(Queued, pval[p])[i] = sent[G + i]
      <4>1. /\ Queued \in Seq(Values) /\ Len(Queued) = S - G
            /\ \A i \in 1 .. S - G : Queued[i] = sent[G + i]
        BY QueuedFacts
      <4>2. /\ Append(Queued, pval[p]) \in Seq(Values)
            /\ Len(Append(Queued, pval[p])) = Len(Queued) + 1
            /\ \A i \in 1 .. Len(Queued) : Append(Queued, pval[p])[i] = Queued[i]
            /\ Append(Queued, pval[p])[Len(Queued) + 1] = pval[p]
        BY <3>1, <4>1, AppendProperties
      <4>3. QED
        BY <2>0, <4>1, <4>2
    <3>5. \A i \in 1 .. S - G + 1 : Queued'[i] = Append(Queued, pval[p])[i]
      BY <2>0, <3>2, <3>3, <3>4
    <3>6. Queued' = Append(Queued, pval[p])
      BY <2>0, <3>3, <3>4, <3>5, SeqEqual
    <3>7. Len(Queued) < Capacity - 1
      BY <2>0, <3>1, QueuedFacts
    <3>8. QED
      BY <3>1, <3>6, <3>7 DEF Fifo!Accept
  <2>3. ASSUME StoreTail PROVE Fifo!HandOut
    <3>1. G < S /\ cval = sent[G + 1] /\ sent' = sent /\ got' = Append(got, cval)
      BY <2>3 DEF StoreTail, RingInv
    <3>2. Len(got') = G + 1
      BY <3>1 DEF TypeOK
    <3>3. Queued # <<>> /\ Head(Queued) = cval
      BY <2>0, <3>1, QueuedFacts
    <3>4. /\ Queued' \in Seq(Values) /\ Len(Queued') = S - G - 1
          /\ \A i \in 1 .. S - G - 1 : Queued'[i] = sent[G + 1 + i]
      BY <2>0, <3>1, <3>2 DEF TypeOK, Queued
    <3>5. /\ Tail(Queued) \in Seq(Values) /\ Len(Tail(Queued)) = S - G - 1
          /\ \A i \in 1 .. S - G - 1 : Tail(Queued)[i] = sent[G + 1 + i]
      BY <2>0, <3>1, <3>3, QueuedFacts
    <3>6. Queued' = Tail(Queued)
      BY <2>0, <3>4, <3>5, SeqEqual
    <3>7. QED
      BY <3>1, <3>3, <3>6 DEF Fifo!HandOut
  <2>4. QED
    BY <2>1, <2>2, <2>3
       DEF Next, Producer, Consumer, vars, BeginPush, TryPushFails, PushSpins, FindsRoom,
           WriteSlot, CallsTryPop, FindsNothing, FindsElement, ReadSlot, Stop, ConsumerExits, Fifo!Next
<1>3. QED
  BY <1>1, <1>2, RingSafe, PTL DEF Spec, RefinesFifo, Fifo!Spec
=============================================================================
