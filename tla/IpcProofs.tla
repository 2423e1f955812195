------------------------------ MODULE IpcProofs ------------------------------
(***************************************************************************)
(* Proofs about the two protocols in the cores' shared memory.             *)
(*                                                                         *)
(* IpcRing, for every number of slots, every modulus of the indices that   *)
(* the number of slots divides, and every set of messages, when one        *)
(* producer pushes: its invariant, and that it implements the bounded      *)
(* queue.                                                                  *)
(*                                                                         *)
(* FlashPark, for one writer or two: its invariant, that nobody fetches    *)
(* from flash that is being written, and that answers answer requests.     *)
(***************************************************************************)
EXTENDS IpcRing, FlashPark, SequenceTheorems, TLAPS

(* "Each ring has exactly one producer" (ipc_ringbuf.h). *)
OneProducer == \A p, q \in Producers : p = q

-----------------------------------------------------------------------------
(* Remainders.  All that is said of them is linear once a number is        *)
(* written as a multiple of the modulus and a remainder.                   *)

(* Division with remainder. *)
LEMMA DivMod ==
  ASSUME NEW a \in Nat, NEW s \in Nat \ {0}
  PROVE  /\ a \div s \in Nat
         /\ a % s \in 0 .. s - 1
         /\ a = s * (a \div s) + (a % s)
  BY SMT

(* The remainder of a multiple of s plus r is r. *)
LEMMA ModUnique ==
  ASSUME NEW q \in Int, NEW s \in Nat \ {0}, NEW r \in 0 .. s - 1
  PROVE  (s * q + r) % s = r
  BY SMT

(* One round less or more leaves a remainder as it is. *)
LEMMA ModRounds ==
  ASSUME NEW s \in Nat \ {0}, NEW a \in Nat, NEW k \in Nat
  PROVE  (a + s * k) % s = a % s
  <1> DEFINE q == a \div s
             r == a % s
  <1>1. /\ q \in Nat
        /\ r \in 0 .. s - 1
        /\ a = s * q + r
    BY DivMod
  <1> HIDE DEF q, r
  <1>2. a + s * k = s * (q + k) + r
    BY <1>1, SMT
  <1>3. (s * (q + k) + r) % s = r
    BY <1>1, ModUnique
  <1> QED BY <1>2, <1>3 DEF r

(* Less than one round away is another remainder. *)
LEMMA ModApart ==
  ASSUME NEW s \in Nat \ {0}, NEW a \in Nat, NEW d \in 1 .. s - 1
  PROVE  (a + d) % s # a % s
  <1> DEFINE q == a \div s
             r == a % s
  <1>1. /\ q \in Nat
        /\ r \in 0 .. s - 1
        /\ a = s * q + r
    BY DivMod
  <1> HIDE DEF q, r
  <1>2. CASE r + d < s
    <2>1. a + d = s * q + (r + d)
      BY <1>1, SMT
    <2>2. /\ r + d \in 0 .. s - 1
          /\ r + d # r
      BY <1>1, <1>2
    <2>3. (s * q + (r + d)) % s = r + d
      BY <1>1, <2>2, ModUnique
    <2> QED BY <2>1, <2>2, <2>3 DEF r
  <1>3. CASE r + d >= s
    <2>1. a + d = s * (q + 1) + (r + d - s)
      BY <1>1, SMT
    <2>2. /\ q + 1 \in Int
          /\ r + d - s \in 0 .. s - 1
          /\ r + d - s # r
      BY <1>1, <1>3
    <2>3. (s * (q + 1) + (r + d - s)) % s = r + d - s
      BY <2>2, ModUnique
    <2> QED BY <2>1, <2>2, <2>3 DEF r
  <1> QED BY <1>1, <1>2, <1>3, SMT

(* Adding within two rounds, and subtracting within one: the remainder is  *)
(* the sum or the difference, or one round off it.                         *)
LEMMA ModSum ==
  ASSUME NEW m \in Nat \ {0}, NEW a \in 0 .. m - 1, NEW n \in 0 .. m
  PROVE  (a + n) % m = IF a + n < m THEN a + n ELSE a + n - m
  <1>1. CASE a + n < m
    <2>1. /\ a + n = m * 0 + (a + n)
          /\ a + n \in 0 .. m - 1
      BY <1>1
    <2>2. (m * 0 + (a + n)) % m = a + n
      BY <2>1, ModUnique
    <2> QED BY <1>1, <2>1, <2>2
  <1>2. CASE a + n >= m
    <2>1. /\ a + n = m * 1 + (a + n - m)
          /\ a + n - m \in 0 .. m - 1
      BY <1>2
    <2>2. (m * 1 + (a + n - m)) % m = a + n - m
      BY <2>1, ModUnique
    <2> QED BY <1>2, <2>1, <2>2
  <1> QED BY <1>1, <1>2

(* The difference of two places in the ring.                               *)
LEMMA ModDifference ==
  ASSUME NEW m \in Nat \ {0}, NEW a \in 0 .. m - 1, NEW b \in 0 .. m - 1
  PROVE  (b - a) % m = IF a <= b THEN b - a ELSE b - a + m
  <1>1. CASE a <= b
    <2>1. /\ b - a = m * 0 + (b - a)
          /\ b - a \in 0 .. m - 1
      BY <1>1
    <2>2. (m * 0 + (b - a)) % m = b - a
      BY <2>1, ModUnique
    <2> QED BY <1>1, <2>1, <2>2
  <1>2. CASE ~(a <= b)
    <2>1. /\ b - a = m * (-1) + (b - a + m)
          /\ b - a + m \in 0 .. m - 1
      BY <1>2
    <2>2. (m * (-1) + (b - a + m)) % m = b - a + m
      BY <2>1, ModUnique
    <2> QED BY <1>2, <2>1, <2>2
  <1> QED BY <1>1, <1>2

-----------------------------------------------------------------------------
(* The indices *)

(* The index n further than tail, the distance back, and the slot: without *)
(* remainders, which the later proofs then need not look into.             *)
LEMMA AdvanceIs ==
  ASSUME NEW x \in Indices
  PROVE  /\ Advance(x) \in Indices
         /\ Advance(x) = IF x + 1 < IndexModulus THEN x + 1 ELSE 0
  <1>1. IndexModulus \in Nat \ {0} /\ x \in 0 .. IndexModulus - 1 /\ 1 \in 0 .. IndexModulus
    BY RingSizeAssumption, SMT DEF Indices
  <1>2. (x + 1) % IndexModulus =
          IF x + 1 < IndexModulus THEN x + 1 ELSE x + 1 - IndexModulus
    BY <1>1, ModSum
  <1> QED BY <1>1, <1>2, SMT DEF Advance, Indices

(* head - tail: how far y is ahead of x. *)
LEMMA DistanceIs ==
  ASSUME NEW x \in Indices, NEW y \in Indices
  PROVE  /\ Distance(x, y) \in Indices
         /\ Distance(x, y) = IF x <= y THEN y - x ELSE y - x + IndexModulus
  <1>1. IndexModulus \in Nat \ {0}
    BY RingSizeAssumption, SMT
  <1>2. (y - x) % IndexModulus = IF x <= y THEN y - x ELSE y - x + IndexModulus
    BY <1>1, ModDifference DEF Indices
  <1> QED BY <1>1, <1>2, SMT DEF Distance, Indices

(* tail + n, the index of the n-th queued message. *)
LEMMA OffsetIs ==
  ASSUME NEW x \in Indices, NEW n \in 0 .. IndexModulus
  PROVE  /\ (x + n) % IndexModulus \in Indices
         /\ (x + n) % IndexModulus =
              IF x + n < IndexModulus THEN x + n ELSE x + n - IndexModulus
  <1>1. IndexModulus \in Nat \ {0}
    BY RingSizeAssumption, SMT
  <1>2. (x + n) % IndexModulus =
          IF x + n < IndexModulus THEN x + n ELSE x + n - IndexModulus
    BY <1>1, ModSum DEF Indices
  <1> QED BY <1>1, <1>2, SMT DEF Indices

(* head % slot_count stays inside the slot array. *)
LEMMA SlotOfType ==
  ASSUME NEW x \in Indices
  PROVE  SlotOf(x) \in 0 .. SlotCount - 1
  <1>1. x \in Nat /\ SlotCount \in Nat \ {0}
    BY RingSizeAssumption, SMT DEF Indices
  <1> QED BY <1>1, DivMod DEF SlotOf

(* Two indices less than SlotCount apart denote different slots, also      *)
(* across the wrap: there the slot count must divide the modulus.          *)
LEMMA SlotsApart ==
  ASSUME NEW x \in Indices, NEW y \in Indices, Distance(x, y) \in 1 .. SlotCount - 1
  PROVE  SlotOf(x) # SlotOf(y)
  <1>1. /\ SlotCount \in Nat \ {0} /\ IndexModulus \in Nat /\ IndexModulus % SlotCount = 0
        /\ x \in Nat /\ y \in Nat
    BY RingSizeAssumption, SMT DEF Indices
  <1> DEFINE d == Distance(x, y)
  <1>2. CASE x <= y
    <2>1. d = y - x /\ y = x + d
      BY <1>1, <1>2, DistanceIs, SMT
    <2> QED BY <1>1, <2>1, ModApart DEF SlotOf
  <1>3. CASE ~(x <= y)
    <2>1. d = y - x + IndexModulus /\ y + IndexModulus = x + d
      BY <1>1, <1>3, DistanceIs, SMT
    <2>2. (x + d) % SlotCount # x % SlotCount
      BY <1>1, ModApart
    <2>3. PICK k \in Nat : IndexModulus = SlotCount * k
      <3>1. /\ IndexModulus \div SlotCount \in Nat
            /\ IndexModulus = SlotCount * (IndexModulus \div SlotCount) + 0
        BY <1>1, DivMod
      <3>2. SlotCount * (IndexModulus \div SlotCount) + 0
              = SlotCount * (IndexModulus \div SlotCount)
        BY <1>1, <3>1, SMT
      <3> QED BY <3>1, <3>2
    <2>4. (y + IndexModulus) % SlotCount = y % SlotCount
      BY <1>1, <2>3, ModRounds
    <2> QED BY <2>1, <2>2, <2>4 DEF SlotOf
  <1> QED BY <1>2, <1>3

(* The slots of the queued messages, and how they move when tail does. *)
LEMMA QueuedIndexFacts ==
  ASSUME TypeOK, NEW n \in 1 .. Pending
  PROVE  /\ QueuedIndex(n) \in Indices
         /\ QueuedIndex(1) = tail
         /\ Distance(QueuedIndex(n), head) = Pending - n + 1
         /\ SlotOf(QueuedIndex(n)) \in 0 .. SlotCount - 1
  <1>1. /\ IndexModulus \in Nat /\ head \in Indices /\ tail \in Indices
        /\ Pending \in Indices
    BY RingSizeAssumption, DistanceIs DEF TypeOK, Pending
  <1>2. n - 1 \in 0 .. IndexModulus /\ tail + n - 1 = tail + (n - 1)
        /\ 0 \in 0 .. IndexModulus /\ tail + 1 - 1 = tail + 0
    BY <1>1, SMT DEF Indices
  <1>3. /\ QueuedIndex(n) \in Indices
        /\ QueuedIndex(n) = IF tail + (n - 1) < IndexModulus
                              THEN tail + (n - 1) ELSE tail + (n - 1) - IndexModulus
    BY <1>1, <1>2, OffsetIs DEF QueuedIndex
  <1>4. QueuedIndex(1) = IF tail + 0 < IndexModulus
                            THEN tail + 0 ELSE tail + 0 - IndexModulus
    BY <1>1, <1>2, OffsetIs DEF QueuedIndex
  <1>5. QueuedIndex(1) = tail
    BY <1>1, <1>4, SMT DEF Indices
  <1>6. Distance(QueuedIndex(n), head) = IF QueuedIndex(n) <= head
          THEN head - QueuedIndex(n) ELSE head - QueuedIndex(n) + IndexModulus
    BY <1>1, <1>3, DistanceIs
  <1>7. Pending = IF tail <= head THEN head - tail ELSE head - tail + IndexModulus
    BY <1>1, DistanceIs DEF Pending
  <1>8. Distance(QueuedIndex(n), head) = Pending - n + 1
    BY <1>1, <1>3, <1>6, <1>7, SMT DEF Indices
  <1> QED BY <1>3, <1>5, <1>8, SlotOfType

(* While there is room, the slot at head is none of the queued ones. *)
LEMMA HeadSlotFree ==
  ASSUME TypeOK, Pending < SlotCount, NEW n \in 1 .. Pending
  PROVE  SlotOf(QueuedIndex(n)) # SlotOf(head)
  <1>1. /\ QueuedIndex(n) \in Indices /\ head \in Indices
        /\ Distance(QueuedIndex(n), head) = Pending - n + 1
    BY QueuedIndexFacts DEF TypeOK
  <1>2. Pending \in Indices
    BY DistanceIs DEF TypeOK, Pending
  <1>3. Pending - n + 1 \in 1 .. SlotCount - 1
    BY <1>2, RingSizeAssumption, SMT DEF Indices
  <1> QED BY <1>1, <1>3, SlotsApart

(* ipc_ring_pending: the distance of the indices, 0 just when they agree. *)
LEMMA PendingIs ==
  ASSUME TypeOK
  PROVE  /\ Pending \in Nat
         /\ Pending = IF tail <= head THEN head - tail ELSE head - tail + IndexModulus
         /\ Pending = 0 <=> head = tail
  <1>1. head \in Indices /\ tail \in Indices /\ IndexModulus \in Nat
    BY RingSizeAssumption DEF TypeOK
  <1>2. /\ Pending \in Indices
        /\ Pending = IF tail <= head THEN head - tail ELSE head - tail + IndexModulus
    BY <1>1, DistanceIs DEF Pending
  <1> QED BY <1>1, <1>2, SMT DEF Indices

(* The store of head queues the slot it denotes behind the others. *)
LEMMA PublishQueues ==
  ASSUME TypeOK, Pending < SlotCount, head' = Advance(head), tail' = tail
  PROVE  /\ Pending' = Pending + 1
         /\ QueuedIndex(Pending + 1) = head
  <1>1. /\ head \in Indices /\ tail \in Indices /\ IndexModulus \in Nat
        /\ SlotCount < IndexModulus /\ SlotCount \in Nat
    BY RingSizeAssumption DEF TypeOK
  <1>2. /\ head' \in Indices
        /\ head' = IF head + 1 < IndexModulus THEN head + 1 ELSE 0
    BY <1>1, AdvanceIs
  <1>3. Pending' = IF tail <= head' THEN head' - tail ELSE head' - tail + IndexModulus
    BY <1>1, <1>2, DistanceIs DEF Pending
  <1>4. Pending' = Pending + 1
    BY <1>1, <1>2, <1>3, PendingIs, SMT DEF Indices
  <1>5. Pending \in 0 .. IndexModulus /\ tail + (Pending + 1) - 1 = tail + Pending
    BY <1>1, PendingIs, SMT DEF Indices
  <1>6. QueuedIndex(Pending + 1) = IF tail + Pending < IndexModulus
          THEN tail + Pending ELSE tail + Pending - IndexModulus
    BY <1>1, <1>5, OffsetIs DEF QueuedIndex
  <1>7. QueuedIndex(Pending + 1) = head
    BY <1>1, <1>6, PendingIs, SMT DEF Indices
  <1> QED BY <1>4, <1>7

(* The store of tail drops the oldest and renumbers the others. *)
LEMMA ReleaseUnqueues ==
  ASSUME TypeOK, Pending >= 1, tail' = Advance(tail), head' = head
  PROVE  /\ Pending' = Pending - 1
         /\ \A n \in 1 .. Pending' : QueuedIndex(n)' = QueuedIndex(n + 1)
  <1>1. /\ head \in Indices /\ tail \in Indices /\ IndexModulus \in Nat
    BY RingSizeAssumption DEF TypeOK
  <1>2. /\ tail' \in Indices
        /\ tail' = IF tail + 1 < IndexModulus THEN tail + 1 ELSE 0
    BY <1>1, AdvanceIs
  <1>3. Pending' = IF tail' <= head THEN head - tail' ELSE head - tail' + IndexModulus
    BY <1>1, <1>2, DistanceIs DEF Pending
  <1>4. Pending' = Pending - 1
    BY <1>1, <1>2, <1>3, PendingIs, SMT DEF Indices
  <1>5. ASSUME NEW n \in 1 .. Pending'
        PROVE  QueuedIndex(n)' = QueuedIndex(n + 1)
    <2>1. /\ n \in Nat /\ n >= 1 /\ n - 1 \in 0 .. IndexModulus /\ n \in 0 .. IndexModulus
          /\ tail' + n - 1 = tail' + (n - 1)
          /\ tail + (n + 1) - 1 = tail + n
      BY <1>1, <1>2, <1>4, PendingIs, SMT DEF Indices
    <2>2. QueuedIndex(n)' = IF tail' + (n - 1) < IndexModulus
            THEN tail' + (n - 1) ELSE tail' + (n - 1) - IndexModulus
      BY <1>2, <2>1, OffsetIs DEF QueuedIndex
    <2>3. QueuedIndex(n + 1) = IF tail + n < IndexModulus
            THEN tail + n ELSE tail + n - IndexModulus
      BY <1>1, <2>1, OffsetIs DEF QueuedIndex
    <2>4. n < IndexModulus
      BY <1>1, <1>4, PendingIs, SMT DEF Indices
    <2> QED BY <1>1, <1>2, <2>1, <2>2, <2>3, <2>4, SMT DEF Indices
  <1> QED BY <1>4, <1>5

-----------------------------------------------------------------------------
(* Types *)

(* Every word keeps its range: the indices and the overflow counter wrap   *)
(* as uint32_t does and every slot access stays inside the slot array,     *)
(* whatever the number of producers.                                       *)
THEOREM RingTypes == Spec => []TypeOK
  <1>1. Init => TypeOK
    BY RingSizeAssumption, SMT DEF Init, TypeOK, Indices, Slot, EmptySlot
  <1>2. TypeOK /\ [Next]_vars => TypeOK'
    <2> SUFFICES ASSUME TypeOK, [Next]_vars PROVE TypeOK'
      OBVIOUS
    <2> USE DEF TypeOK, ctrl, pushVars, popVars
    <2>1. ASSUME NEW p \in Producers, NEW m \in Msgs, PushFails(p, m) PROVE TypeOK'
      <3>1. overflow' = Advance(overflow)
        BY <2>1 DEF PushFails, Advance
      <3> QED BY <2>1, <3>1, AdvanceIs DEF PushFails
    <2>2. ASSUME NEW p \in Producers, NEW m \in Msgs, PushBegins(p, m) PROVE TypeOK'
      BY <2>2 DEF PushBegins
    <2>3. ASSUME NEW p \in Producers, WriteHeader(p) PROVE TypeOK'
      BY <2>3, SlotOfType DEF WriteHeader, Slot
    <2>4. ASSUME NEW p \in Producers, WritePayload(p) PROVE TypeOK'
      BY <2>4, SlotOfType DEF WritePayload, Slot
    <2>5. ASSUME NEW p \in Producers, Publish(p) PROVE TypeOK'
      BY <2>5, AdvanceIs DEF Publish
    <2>6. ASSUME PopBegins PROVE TypeOK'
      BY <2>6 DEF PopBegins
    <2>7. ASSUME CopyHeader PROVE TypeOK'
      BY <2>7, SlotOfType DEF CopyHeader, Slot
    <2>8. ASSUME CopyPayload PROVE TypeOK'
      BY <2>8, SlotOfType DEF CopyPayload, Slot
    <2>9. ASSUME Release PROVE TypeOK'
      BY <2>9, AdvanceIs DEF Release
    <2>10. CASE UNCHANGED vars
      BY <2>10 DEF vars
    <2> QED
      BY <2>1, <2>2, <2>3, <2>4, <2>5, <2>6, <2>7, <2>8, <2>9, <2>10
         DEF Next, Push, Pop
  <1> QED BY <1>1, <1>2, PTL DEF Spec

-----------------------------------------------------------------------------
(* The invariant *)

(* A write into the slot at head, or no write at all, leaves the queued    *)
(* slots, and with them what the consumer has copied, as they are.         *)
LEMMA WriteMisses ==
  ASSUME RingInv, TypeOK', head' = head, tail' = tail,
         UNCHANGED <<popPc, popSlot, delivered>>,
         \/ slots' = slots
         \/ /\ Pending < SlotCount
            /\ \A i \in 0 .. SlotCount - 1 : i # SlotOf(head) => slots'[i] = slots[i]
  PROVE  /\ Pending' = Pending
         /\ \A n \in 1 .. Pending : QueuedSlot(n)' = QueuedSlot(n)
         /\ QueuedWhole' /\ DeliveredWhole' /\ PopInv'
  <1> USE DEF RingInv
  <1>1. Pending' = Pending
    BY DEF Pending
  <1>2. ASSUME NEW n \in 1 .. Pending
        PROVE  QueuedSlot(n)' = QueuedSlot(n)
    <2>1. QueuedIndex(n)' = QueuedIndex(n)
      BY DEF QueuedIndex
    <2>2. CASE slots' = slots
      BY <2>1, <2>2 DEF QueuedSlot
    <2>3. CASE slots' # slots
      <3>1. SlotOf(QueuedIndex(n)) # SlotOf(head)
        BY <2>3, HeadSlotFree
      <3>2. SlotOf(QueuedIndex(n)) \in 0 .. SlotCount - 1
        BY QueuedIndexFacts
      <3> QED BY <2>1, <2>3, <3>1, <3>2 DEF QueuedSlot
    <2> QED BY <2>2, <2>3
  <1>3. QueuedWhole'
    BY <1>1, <1>2 DEF QueuedWhole
  <1>4. DeliveredWhole'
    BY DEF DeliveredWhole
  <1>5. PopInv'
    <2>1. CASE popPc = "idle"
      BY <2>1 DEF PopInv
    <2>2. CASE popPc # "idle"
      <3>1. 1 \in 1 .. Pending
        BY <2>2, PendingIs DEF PopInv
      <3>2. slots[SlotOf(tail)] = QueuedSlot(1)
        BY <3>1, QueuedIndexFacts DEF QueuedSlot
      <3>3. slots'[SlotOf(tail)] = QueuedSlot(1)'
        BY <3>1, QueuedIndexFacts DEF QueuedSlot, QueuedIndex
      <3> QED BY <1>1, <1>2, <3>1, <3>2, <3>3 DEF PopInv
    <2> QED BY <2>1, <2>2
  <1> QED BY <1>1, <1>2, <1>3, <1>4, <1>5

(* With one producer, ipc_ring_push never writes a slot that is queued or  *)
(* being copied out, at any length of the run and across every wrap of the *)
(* indices: the messages between tail and head are whole.                  *)
THEOREM RingSafety ==
  ASSUME OneProducer
  PROVE  Spec => []RingInv
  <1>1. Init => RingInv
    <2> SUFFICES ASSUME Init PROVE RingInv
      OBVIOUS
    <2>1. TypeOK
      BY RingSizeAssumption, SMT DEF Init, TypeOK, Indices, Slot, EmptySlot
    <2>2. Pending = 0
      BY <2>1, PendingIs DEF Init
    <2>3. QueuedWhole
      BY <2>2, RingSizeAssumption DEF QueuedWhole
    <2> QED BY <2>1, <2>3 DEF Init, RingInv, DeliveredWhole, PushInv, PopInv, Pushing
  <1>2. RingInv /\ TypeOK' /\ [Next]_vars => RingInv'
    <2> SUFFICES ASSUME RingInv, TypeOK', [Next]_vars PROVE RingInv'
      OBVIOUS
    <2> USE DEF ctrl, pushVars, popVars
    <2>0. TypeOK /\ QueuedWhole /\ DeliveredWhole /\ PushInv /\ PopInv
      BY DEF RingInv
    <2>a. SlotOf(head) \in 0 .. SlotCount - 1 /\ SlotOf(tail) \in 0 .. SlotCount - 1
      BY <2>0, SlotOfType DEF TypeOK
    <2>1. ASSUME NEW p \in Producers, NEW m \in Msgs, PushFails(p, m) PROVE RingInv'
      <3>1. Pending' = Pending /\ QueuedWhole' /\ DeliveredWhole' /\ PopInv'
        BY <2>0, <2>1, WriteMisses DEF PushFails
      <3>2. PushInv'
        BY <2>0, <2>1, <3>1 DEF PushFails, PushInv, Pushing
      <3> QED BY <3>1, <3>2 DEF RingInv
    <2>2. ASSUME NEW p \in Producers, NEW m \in Msgs, PushBegins(p, m) PROVE RingInv'
      <3>1. Pending' = Pending /\ QueuedWhole' /\ DeliveredWhole' /\ PopInv'
        BY <2>0, <2>2, WriteMisses DEF PushBegins
      <3>2. Pending < SlotCount
        BY <2>0, <2>2, PendingIs, RingSizeAssumption, SMT DEF PushBegins, IsFull, Pending
      <3>3. PushInv'
        BY <2>0, <2>2, <3>1, <3>2, OneProducer DEF PushBegins, PushInv, Pushing, TypeOK, OneProducer
      <3> QED BY <3>1, <3>3 DEF RingInv
    <2>3. ASSUME NEW p \in Producers, WriteHeader(p) PROVE RingInv'
      <3>1. /\ Pushing(p) /\ pushHead[p] = head /\ Pending < SlotCount
            /\ pushMsg[p] \in Msgs \ Oversize
            /\ \A q \in Producers : q = p
        BY <2>0, <2>3, OneProducer DEF WriteHeader, PushInv, Pushing, OneProducer
      <3>2. Pending' = Pending /\ QueuedWhole' /\ DeliveredWhole' /\ PopInv'
        <4>1. \A i \in 0 .. SlotCount - 1 : i # SlotOf(head) => slots'[i] = slots[i]
          BY <2>0, <2>3, <3>1 DEF WriteHeader, TypeOK
        <4> QED BY <2>0, <2>3, <3>1, <4>1, WriteMisses DEF WriteHeader
      <3>3. slots'[SlotOf(head)].header = pushMsg[p]
        BY <2>0, <2>a, <2>3, <3>1 DEF WriteHeader, TypeOK, Slot
      <3>4. slots'[SlotOf(head)] = [header |-> pushMsg[p], payload |-> slots[SlotOf(head)].payload]
        BY <2>0, <2>a, <2>3, <3>1 DEF WriteHeader, TypeOK, Slot
      <3>5. PushInv'
        BY <2>0, <2>3, <3>1, <3>2, <3>3, <3>4
           DEF WriteHeader, PushInv, Pushing, TypeOK, Contents, Whole
      <3> QED BY <3>2, <3>5 DEF RingInv
    <2>4. ASSUME NEW p \in Producers, WritePayload(p) PROVE RingInv'
      <3>1. /\ Pushing(p) /\ pushHead[p] = head /\ Pending < SlotCount
            /\ pushMsg[p] \in Msgs \ Oversize /\ pushMsg[p] \notin Bare
            /\ slots[SlotOf(head)].header = pushMsg[p]
            /\ \A q \in Producers : q = p
        BY <2>0, <2>4, OneProducer DEF WritePayload, PushInv, Pushing, OneProducer
      <3>2. Pending' = Pending /\ QueuedWhole' /\ DeliveredWhole' /\ PopInv'
        <4>1. \A i \in 0 .. SlotCount - 1 : i # SlotOf(head) => slots'[i] = slots[i]
          BY <2>0, <2>4, <3>1 DEF WritePayload, TypeOK
        <4> QED BY <2>0, <2>4, <3>1, <4>1, WriteMisses DEF WritePayload
      <3>3. slots'[SlotOf(head)] = [header |-> pushMsg[p], payload |-> pushMsg[p]]
        BY <2>0, <2>a, <2>4, <3>1 DEF WritePayload, TypeOK, Slot
      <3>4. Contents(slots'[SlotOf(head)]) = Whole(pushMsg[p])
        BY <3>1, <3>3 DEF Contents, Whole
      <3>5. PushInv'
        BY <2>0, <2>4, <3>1, <3>2, <3>4
           DEF WritePayload, PushInv, Pushing, TypeOK, Contents
      <3> QED BY <3>2, <3>5 DEF RingInv
    <2>5. ASSUME NEW p \in Producers, Publish(p) PROVE RingInv'
      <3>1. /\ pushHead[p] = head /\ Pending < SlotCount
            /\ pushMsg[p] \in Msgs \ Oversize
            /\ Contents(slots[SlotOf(head)]) = Whole(pushMsg[p])
            /\ \A q \in Producers : q = p
        BY <2>0, <2>5, OneProducer DEF Publish, PushInv, Pushing, OneProducer
      <3>2. Pending' = Pending + 1 /\ QueuedIndex(Pending + 1) = head /\ Pending \in Nat
        BY <2>0, <2>5, <3>1, PublishQueues, PendingIs DEF Publish
      <3>3. QueuedWhole'
        <4>1. Pending' <= SlotCount
          BY <3>1, <3>2, RingSizeAssumption, SMT
        <4>2. ASSUME NEW n \in 1 .. Pending'
              PROVE  \E m \in Msgs \ Oversize : Contents(QueuedSlot(n))' = Whole(m)
          <5>1. QueuedSlot(n)' = QueuedSlot(n)
            BY <2>5 DEF Publish, QueuedSlot, QueuedIndex
          <5>2. CASE n = Pending + 1
            BY <3>1, <3>2, <5>1, <5>2 DEF QueuedSlot, Contents
          <5>3. CASE n \in 1 .. Pending
            BY <2>0, <5>1, <5>3 DEF QueuedWhole, Contents
          <5> QED BY <3>2, <5>2, <5>3, SMT
        <4> QED BY <4>1, <4>2 DEF QueuedWhole
      <3>4. PushInv'
        BY <2>0, <2>5, <3>1 DEF Publish, PushInv, Pushing, TypeOK
      <3>5. PopInv'
        BY <2>0, <2>5, <3>2, SMT DEF Publish, PopInv, Contents
      <3>6. DeliveredWhole'
        BY <2>0, <2>5 DEF Publish, DeliveredWhole
      <3> QED BY <3>3, <3>4, <3>5, <3>6 DEF RingInv
    <2>6. ASSUME PopBegins PROVE RingInv'
      <3>1. Pending' = Pending /\ Pending >= 1
        BY <2>0, <2>6, PendingIs, SMT DEF PopBegins, Pending
      <3>2. QueuedWhole' /\ DeliveredWhole'
        BY <2>0, <2>6, <3>1
           DEF PopBegins, QueuedWhole, DeliveredWhole, QueuedSlot, QueuedIndex, Contents
      <3>3. PushInv'
        BY <2>0, <2>6, <3>1 DEF PopBegins, PushInv, Pushing, Contents
      <3>4. PopInv'
        BY <2>6, <3>1 DEF PopBegins, PopInv
      <3> QED BY <3>2, <3>3, <3>4 DEF RingInv
    <2>7. ASSUME CopyHeader PROVE RingInv'
      <3>1. Pending' = Pending /\ Pending >= 1
        BY <2>0, <2>7 DEF CopyHeader, PopInv, Pending
      <3>2. QueuedWhole' /\ DeliveredWhole'
        BY <2>0, <2>7, <3>1
           DEF CopyHeader, QueuedWhole, DeliveredWhole, QueuedSlot, QueuedIndex, Contents
      <3>3. PushInv'
        BY <2>0, <2>7, <3>1 DEF CopyHeader, PushInv, Pushing, Contents
      <3>4. PopInv'
        BY <2>0, <2>a, <2>7, <3>1 DEF CopyHeader, PopInv, Contents, TypeOK, Slot
      <3> QED BY <3>2, <3>3, <3>4 DEF RingInv
    <2>8. ASSUME CopyPayload PROVE RingInv'
      <3>1. Pending' = Pending /\ Pending >= 1
        BY <2>0, <2>8 DEF CopyPayload, PopInv, Pending
      <3>2. QueuedWhole' /\ DeliveredWhole'
        BY <2>0, <2>8, <3>1
           DEF CopyPayload, QueuedWhole, DeliveredWhole, QueuedSlot, QueuedIndex, Contents
      <3>3. PushInv'
        BY <2>0, <2>8, <3>1 DEF CopyPayload, PushInv, Pushing, Contents
      <3>4. popSlot' = Contents(slots[SlotOf(tail)])
        BY <2>0, <2>a, <2>8 DEF CopyPayload, PopInv, Contents, TypeOK, Slot
      <3>5. PopInv'
        BY <2>8, <3>1, <3>4 DEF CopyPayload, PopInv, Contents
      <3> QED BY <3>2, <3>3, <3>5 DEF RingInv
    <2>9. ASSUME Release PROVE RingInv'
      <3>1. /\ Pending >= 1 /\ Pending \in Nat
            /\ popSlot = Contents(slots[SlotOf(tail)])
        BY <2>0, <2>9, PendingIs DEF Release, PopInv
      <3>2. /\ Pending' = Pending - 1
            /\ \A n \in 1 .. Pending' : QueuedIndex(n)' = QueuedIndex(n + 1)
        BY <2>0, <2>9, <3>1, ReleaseUnqueues DEF Release
      <3>3. QueuedWhole'
        <4>1. Pending' <= SlotCount
          BY <2>0, <3>1, <3>2, RingSizeAssumption, SMT DEF QueuedWhole
        <4>2. ASSUME NEW n \in 1 .. Pending'
              PROVE  \E m \in Msgs \ Oversize : Contents(QueuedSlot(n))' = Whole(m)
          <5>1. n + 1 \in 1 .. Pending
            BY <3>1, <3>2, SMT
          <5>2. Contents(QueuedSlot(n))' = Contents(QueuedSlot(n + 1))
            BY <2>9, <3>2 DEF Release, QueuedSlot, Contents
          <5> QED BY <2>0, <5>1, <5>2 DEF QueuedWhole
        <4> QED BY <4>1, <4>2 DEF QueuedWhole
      <3>4. PushInv'
        <4>1. Pending < SlotCount => Pending' < SlotCount
          BY <3>1, <3>2, RingSizeAssumption, SMT
        <4> QED BY <2>0, <2>9, <4>1 DEF Release, PushInv, Pushing, Contents
      <3>5. PopInv'
        BY <2>9 DEF Release, PopInv
      <3>6. DeliveredWhole'
        <4>1. 1 \in 1 .. Pending
          BY <3>1, SMT
        <4>2. QueuedSlot(1) = slots[SlotOf(tail)]
          BY <2>0, <4>1, QueuedIndexFacts DEF QueuedSlot
        <4>3. \E m \in Msgs \ Oversize : delivered' = Whole(m)
          BY <2>0, <2>9, <3>1, <4>1, <4>2 DEF Release, QueuedWhole
        <4> QED BY <4>3 DEF DeliveredWhole
      <3> QED BY <3>3, <3>4, <3>5, <3>6 DEF RingInv
    <2>10. CASE UNCHANGED vars
      <3>1. Pending' = Pending /\ QueuedWhole' /\ DeliveredWhole' /\ PopInv'
        BY <2>0, <2>10, WriteMisses DEF vars
      <3> QED BY <2>0, <2>10, <3>1 DEF vars, RingInv, PushInv, Pushing, Contents
    <2> QED
      BY <2>1, <2>2, <2>3, <2>4, <2>5, <2>6, <2>7, <2>8, <2>9, <2>10
         DEF Next, Push, Pop
  <1>3. Spec => []TypeOK
    BY RingTypes
  <1> QED BY <1>1, <1>2, <1>3, PTL DEF Spec

-----------------------------------------------------------------------------
(* The bounded queue *)

(* The messages the queue takes.                                           *)
Items == {Whole(m) : m \in Msgs \ Oversize}

(* Intervals of equal extent have equal ends. *)
LEMMA IntervalLength ==
  ASSUME NEW m \in Nat, NEW n \in Nat, 1 .. m = 1 .. n
  PROVE  m = n
  <1>1. m > 0 => m \in 1 .. n
    BY SMT
  <1>2. n > 0 => n \in 1 .. m
    BY SMT
  <1> QED BY <1>1, <1>2, SMT

(* The queued messages form a sequence of whole messages. *)
QueueIsSeq ==
  /\ Queued \in Seq(Items)
  /\ Len(Queued) = Pending
  /\ Pending \in Nat
  /\ \A n \in 1 .. Pending : Queued[n] = Contents(QueuedSlot(n))

(* What lies between tail and head is a sequence of Pending messages. *)
LEMMA QueuedIsSeq == RingInv => QueueIsSeq
  <1> SUFFICES ASSUME RingInv PROVE QueueIsSeq
    OBVIOUS
  <1>1. Pending \in Nat
    BY PendingIs DEF RingInv
  <1>2. Queued \in [1 .. Pending -> Items]
    BY DEF RingInv, QueuedWhole, Queued, Items
  <1>3. Queued \in Seq(Items)
    BY SMTT(30), <1>1, <1>2, SeqDef
  <1>4. Len(Queued) = Pending
    <2>1. Len(Queued) \in Nat /\ DOMAIN Queued = 1 .. Len(Queued)
      BY <1>3, LenProperties
    <2>2. DOMAIN Queued = 1 .. Pending
      BY DEF Queued
    <2> QED BY <1>1, <2>1, <2>2, IntervalLength
  <1> QED BY <1>1, <1>3, <1>4 DEF Queued, QueueIsSeq

(* A queue that keeps its slots is the same queue. *)
LEMMA SameQueue ==
  ASSUME Pending' = Pending, \A n \in 1 .. Pending : QueuedSlot(n)' = QueuedSlot(n)
  PROVE  Queued' = Queued
  BY DEF Queued, Contents

(* A message is never taken for an empty slot. *)
LEMMA WholeIsSomething ==
  ASSUME NEW m \in Msgs
  PROVE  Whole(m) # EmptySlot
  BY MsgAssumption DEF Whole, EmptySlot

(* Each step of the ring's code is a step of the bounded queue or none:    *)
(* the test for room accepts the item, the store of head queues it behind  *)
(* the others and the store of tail delivers the oldest.                   *)
THEOREM RingImplementsFifo ==
  ASSUME OneProducer
  PROVE  Spec => ImplementsFifo
  <1> USE DEF ctrl, pushVars, popVars
  <1>1. Init => Fifo!FifoInit
    <2> SUFFICES ASSUME Init PROVE Fifo!FifoInit
      OBVIOUS
    <2>1. InPush = [p \in Producers |-> EmptySlot]
      BY DEF Init, InPush, Pushing
    <2>2. TypeOK
      BY RingSizeAssumption, SMT DEF Init, TypeOK, Indices, Slot, EmptySlot
    <2>3. Pending = 0
      BY <2>2, PendingIs DEF Init
    <2>4. Queued = <<>>
      <3>1. Queued \in [1 .. 0 -> Items]
        BY <2>3, SMT DEF Queued
      <3>2. Queued \in Seq(Items)
        BY <3>1, SeqDef, SMT
      <3>3. Len(Queued) = 0
        <4>1. DOMAIN Queued = 1 .. 0
          BY <3>1
        <4>2. Len(Queued) \in Nat /\ DOMAIN Queued = 1 .. Len(Queued)
          BY <3>2, LenProperties
        <4> QED BY <4>1, <4>2, SMT
      <3> QED BY <3>2, <3>3, EmptySeq, SMT
    <2> QED BY <2>1, <2>4 DEF Init, Fifo!FifoInit
  <1>2. RingInv /\ RingInv' /\ QueueIsSeq' /\ [Next]_vars => [Fifo!FifoNext]_(Fifo!fifoVars)
    <2> SUFFICES ASSUME RingInv, RingInv', QueueIsSeq', [Next]_vars
                 PROVE  Fifo!FifoNext \/ UNCHANGED <<InPush, Queued, delivered>>
      BY DEF Fifo!fifoVars
    <2>0. TypeOK /\ TypeOK' /\ QueuedWhole /\ PushInv /\ PopInv
         /\ QueueIsSeq
      BY QueuedIsSeq DEF RingInv
    <2>1. ASSUME NEW p \in Producers, NEW m \in Msgs, PushFails(p, m)
          PROVE  UNCHANGED <<InPush, Queued, delivered>>
      BY <2>0, <2>1, WriteMisses, SameQueue DEF PushFails, InPush, Pushing
    <2>2. ASSUME NEW p \in Producers, NEW m \in Msgs, PushBegins(p, m)
          PROVE  Fifo!Accept(p, Whole(m)) /\ m \in Msgs \ Oversize
      <3>1. Queued' = Queued /\ delivered' = delivered
        BY <2>0, <2>2, WriteMisses, SameQueue DEF PushBegins
      <3>2. InPush[p] = EmptySlot
        BY <2>2 DEF PushBegins, InPush, Pushing
      <3>3. InPush' = [InPush EXCEPT ![p] = Whole(m)]
        BY <2>0, <2>2 DEF PushBegins, InPush, Pushing, TypeOK
      <3>4. Len(Queued) < SlotCount
        BY <2>0, <2>2, RingSizeAssumption, SMT DEF PushBegins, IsFull, Pending, QueueIsSeq
      <3>5. m \in Msgs \ Oversize
        BY <2>2 DEF PushBegins
      <3> QED BY <3>1, <3>2, <3>3, <3>4, <3>5 DEF Fifo!Accept
    <2>3. ASSUME NEW p \in Producers, WriteHeader(p) \/ WritePayload(p)
          PROVE  UNCHANGED <<InPush, Queued, delivered>>
      <3>1. Pushing(p) /\ pushHead[p] = head /\ Pending < SlotCount
        BY <2>0, <2>3 DEF WriteHeader, WritePayload, PushInv, Pushing
      <3>2. \A i \in 0 .. SlotCount - 1 : i # SlotOf(head) => slots'[i] = slots[i]
        BY <2>0, <2>3, <3>1 DEF WriteHeader, WritePayload, TypeOK
      <3>3. Queued' = Queued /\ delivered' = delivered
        BY <2>0, <2>3, <3>1, <3>2, WriteMisses, SameQueue DEF WriteHeader, WritePayload
      <3>4. InPush' = InPush
        BY <2>0, <2>3 DEF WriteHeader, WritePayload, InPush, Pushing, TypeOK
      <3> QED BY <3>3, <3>4
    <2>4. ASSUME NEW p \in Producers, Publish(p)
          PROVE  Fifo!Commit(p)
      <3>1. /\ Pushing(p) /\ pushHead[p] = head /\ Pending < SlotCount
            /\ pushMsg[p] \in Msgs \ Oversize
            /\ Contents(slots[SlotOf(head)]) = Whole(pushMsg[p])
        BY <2>0, <2>4 DEF Publish, PushInv, Pushing
      <3>2. Pending' = Pending + 1 /\ QueuedIndex(Pending + 1) = head
        BY <2>0, <2>4, <3>1, PublishQueues DEF Publish
      <3>3. InPush[p] = Whole(pushMsg[p]) /\ Whole(pushMsg[p]) \in Items
        BY <3>1 DEF InPush, Items
      <3>4. InPush' = [InPush EXCEPT ![p] = EmptySlot]
        BY <2>0, <2>4 DEF Publish, InPush, Pushing, TypeOK
      <3>5. Queued' = Append(Queued, Whole(pushMsg[p]))
        <4> DEFINE w == Whole(pushMsg[p])
        <4>1. /\ Queued \in Seq(Items) /\ Len(Queued) = Pending /\ Pending \in Nat
              /\ Queued' \in Seq(Items) /\ Len(Queued') = Pending'
          BY <2>0 DEF QueueIsSeq
        <4>2. /\ Append(Queued, w) \in Seq(Items)
              /\ Len(Append(Queued, w)) = Pending + 1
              /\ \A n \in 1 .. Pending : Append(Queued, w)[n] = Queued[n]
              /\ Append(Queued, w)[Pending + 1] = w
          BY <3>3, <4>1, AppendProperties
        <4>3. ASSUME NEW n \in 1 .. Pending + 1
              PROVE  Queued'[n] = Append(Queued, w)[n]
          <5>1. Queued'[n] = Contents(QueuedSlot(n))
            BY <2>4, <3>2 DEF Publish, Queued, QueuedSlot, QueuedIndex, Contents
          <5>2. CASE n = Pending + 1
            BY <3>1, <3>2, <4>2, <5>1, <5>2 DEF QueuedSlot
          <5>3. CASE n \in 1 .. Pending
            BY <4>2, <5>1, <5>3 DEF Queued
          <5> QED BY <4>1, <5>2, <5>3, SMT
        <4> QED BY <3>2, <4>1, <4>2, <4>3, SeqEqual
      <3>6. delivered' = delivered
        BY <2>4 DEF Publish
      <3> QED BY <3>3, <3>4, <3>5, <3>6 DEF Fifo!Commit, Items
    <2>5. ASSUME PopBegins \/ CopyHeader \/ CopyPayload
          PROVE  UNCHANGED <<InPush, Queued, delivered>>
      BY <2>5 DEF PopBegins, CopyHeader, CopyPayload, InPush, Pushing, Queued,
                  Pending, QueuedSlot, QueuedIndex, Contents
    <2>6. ASSUME Release
          PROVE  Fifo!Deliver
      <3>1. Pending >= 1 /\ popSlot = Contents(slots[SlotOf(tail)])
        BY <2>0, <2>6 DEF Release, PopInv
      <3>2. /\ Queued \in Seq(Items) /\ Len(Queued) = Pending /\ Pending \in Nat
            /\ Queued' \in Seq(Items) /\ Len(Queued') = Pending'
            /\ \A n \in 1 .. Pending : Queued[n] = Contents(QueuedSlot(n))
            /\ \A n \in 1 .. Pending' : Queued'[n] = Contents(QueuedSlot(n))'
        BY <2>0 DEF QueueIsSeq
      <3>3. /\ Pending' = Pending - 1
            /\ \A n \in 1 .. Pending' : QueuedIndex(n)' = QueuedIndex(n + 1)
        BY <2>0, <2>6, <3>1, ReleaseUnqueues DEF Release
      <3>4. Queued # <<>>
        BY <3>1, <3>2, EmptySeq, SMT
      <3>5. delivered' = Head(Queued)
        <4>1. 1 \in 1 .. Pending
          BY <3>1, <3>2, SMT
        <4>2. QueuedSlot(1) = slots[SlotOf(tail)]
          BY <2>0, <4>1, QueuedIndexFacts DEF QueuedSlot
        <4>3. Head(Queued) = Queued[1]
          OBVIOUS
        <4> QED BY <2>6, <3>1, <3>2, <4>1, <4>2, <4>3 DEF Release
      <3>6. Queued' = Tail(Queued)
        <4>1. /\ Tail(Queued) \in Seq(Items) /\ Len(Tail(Queued)) = Pending - 1
              /\ \A n \in 1 .. Pending - 1 : Tail(Queued)[n] = Queued[n + 1]
          BY <3>2, <3>4, HeadTailProperties
        <4>2. ASSUME NEW n \in 1 .. Pending'
              PROVE  Queued'[n] = Tail(Queued)[n]
          <5>1. n + 1 \in 1 .. Pending
            BY <3>2, <3>3, SMT
          <5>2. Contents(QueuedSlot(n))' = Contents(QueuedSlot(n + 1))
            BY <2>6, <3>3 DEF Release, QueuedSlot, Contents
          <5> QED BY <3>2, <3>3, <4>1, <5>1, <5>2
        <4> QED BY <3>2, <3>3, <4>1, <4>2, SeqEqual
      <3>7. InPush' = InPush
        BY <2>6 DEF Release, InPush, Pushing
      <3> QED BY <3>4, <3>5, <3>6, <3>7 DEF Fifo!Deliver
    <2>7. CASE UNCHANGED vars
      BY <2>7 DEF vars, InPush, Pushing, Queued, Pending, QueuedSlot, QueuedIndex, Contents
    <2> QED
      BY <2>1, <2>2, <2>3, <2>4, <2>5, <2>6, <2>7
         DEF Next, Push, Pop, Fifo!FifoNext
  <1>3. Spec => []RingInv
    BY RingSafety
  <1> QED BY <1>1, <1>2, <1>3, QueuedIsSeq, PTL DEF Spec, ImplementsFifo, Fifo!FifoSpec

-----------------------------------------------------------------------------
(* The flash-write handshake (FlashPark), once both cores are up, for one  *)
(* writer or two, and from boot on when Core 1 alone writes, provided that *)
(* the bounded wait runs out only while the other core has nothing to run  *)
(* that would answer.                                                      *)

(* The other core of the other core is the core itself; there is no third. *)
LEMMA TwoCores ==
  /\ C0 \in Cores /\ C1 \in Cores
  /\ \A c \in Cores : /\ Other(c) \in Cores
                      /\ Other(c) # c
                      /\ Other(Other(c)) = c
                      /\ \A d \in Cores : d = c \/ d = Other(c)
  BY CoreAssumption DEF Cores, Other

(* The invariant holds of running cores and, without Core 0's writes, at   *)
(* boot: every lock word is IDLE.                                          *)
LEMMA ParkStarts ==
  /\ RunningInit => ParkInv
  /\ C0 \notin Writers /\ BootInit => ParkInv
  <1> USE TwoCores DEF Quiet, AllCores, ParkInv, ParkTypes, Listeners, HoldsLock, Committed,
                       Parked
  <1>1. RunningInit => ParkInv
    BY DEF RunningInit
  <1>2. C0 \notin Writers /\ BootInit => ParkInv
    BY DEF BootInit
  <1> QED BY <1>1, <1>2

(* Every step of a writer and of a park ISR preserves the invariant, as    *)
(* long as the bounded wait does not run out while the other core answers. *)
LEMMA ParkStep ==
  ASSUME Timeouts # "any", ParkInv, [ParkNext]_parkVars
  PROVE  ParkInv'
  <1> USE TwoCores DEF ParkInv, ParkTypes, Listeners, HoldsLock, Committed, Parked,
                       lockVars, bootVars, threadVars, ThreadAt, GoTo, IsrGoesTo
  <1>1. ASSUME Core1Ready \/ Core1Listens \/ Core0Ready PROVE ParkInv'
    <2>1. CASE Core1Ready
      BY <2>1, CoreAssumption DEF Core1Ready
    <2>2. CASE Core1Listens
      BY <2>2, CoreAssumption DEF Core1Listens
    <2>3. CASE Core0Ready
      BY <2>3, CoreAssumption DEF Core0Ready
    <2> QED BY <1>1, <2>1, <2>2, <2>3
  <1>2. ASSUME NEW w \in Writers, Begin(w) PROVE ParkInv'
    BY <1>2, CoreAssumption DEF Begin
  <1>3. ASSUME NEW w \in Cores, Request(w) PROVE ParkInv'
    BY <1>3 DEF Request
  <1>4. ASSUME NEW w \in Cores, Ring(w) PROVE ParkInv'
    BY <1>4 DEF Ring
  <1>5. ASSUME NEW w \in Cores, WaitSeesParked(w) PROVE ParkInv'
    BY <1>5 DEF WaitSeesParked
  <1>6. ASSUME NEW w \in Cores, WaitExpires(w) PROVE ParkInv'
    <2>1. Parked(Other(w))
      BY <1>6 DEF WaitExpires, CanAnswer
    <2> QED BY <1>6, <2>1 DEF WaitExpires
  <1>7. ASSUME NEW w \in Cores, DisableInterrupts(w) PROVE ParkInv'
    BY <1>7 DEF DisableInterrupts
  <1>8. ASSUME NEW w \in Cores, FlashDone(w) PROVE ParkInv'
    BY <1>8 DEF FlashDone
  <1>9. ASSUME NEW w \in Cores, RestoreInterrupts(w) PROVE ParkInv'
    BY <1>9 DEF RestoreInterrupts
  <1>10. ASSUME NEW w \in Cores, ReleaseLock(w) PROVE ParkInv'
    BY <1>10 DEF ReleaseLock
  <1>11. ASSUME NEW w \in Cores, Signal(w) PROVE ParkInv'
    BY <1>11 DEF Signal, AllCores
  <1>12. ASSUME NEW c \in Cores, IsrEnters(c) PROVE ParkInv'
    BY <1>12 DEF IsrEnters
  <1>13. ASSUME NEW c \in Cores, IsrChecks(c) PROVE ParkInv'
    BY <1>13 DEF IsrChecks
  <1>14. ASSUME NEW c \in Cores, IsrAnswers(c) PROVE ParkInv'
    BY <1>14 DEF IsrAnswers
  <1>15. ASSUME NEW c \in Cores, IsrWakesWriter(c) PROVE ParkInv'
    BY <1>15 DEF IsrWakesWriter, AllCores
  <1>16. ASSUME NEW c \in Cores, IsrPolls(c) PROVE ParkInv'
    BY <1>16 DEF IsrPolls
  <1>17. ASSUME NEW c \in Cores, IsrWaitsForEvent(c) PROVE ParkInv'
    BY <1>17 DEF IsrWaitsForEvent
  <1>18. CASE UNCHANGED parkVars
    BY <1>18 DEF parkVars
  <1> QED
    BY <1>1, <1>2, <1>3, <1>4, <1>5, <1>6, <1>7, <1>8, <1>9, <1>10, <1>11, <1>12,
       <1>13, <1>14, <1>15, <1>16, <1>17, <1>18, CoreAssumption
       DEF ParkNext, Write, Park

(* The lock word, the writer's place in the wrapped flash operation and    *)
(* the other core's ISR always fit together.                               *)
THEOREM ParkInvariance ==
  ASSUME Timeouts # "any"
  PROVE  RunningSpec \/ (C0 \notin Writers /\ BootSpec) => []ParkInv
  <1>1. ParkInv /\ [ParkNext]_parkVars => ParkInv'
    BY ParkStep
  <1> QED BY <1>1, ParkStarts, PTL DEF RunningSpec, BootSpec

(* No core that was asked to park fetches from the flash while it is being *)
(* written.                                                                *)
THEOREM ParkedWhileFlashIsOff ==
  ASSUME Timeouts # "any"
  PROVE  RunningSpec \/ (C0 \notin Writers /\ BootSpec) => []XipSafe
  <1>1. ParkInv => XipSafe
    BY DEF ParkInv, XipSafe, Committed
  <1> QED BY <1>1, ParkInvariance, PTL

(* The ISR's answer never hits a lock word already back at IDLE. *)
THEOREM AnswersAreAnswers ==
  ASSUME Timeouts # "any"
  PROVE  RunningSpec \/ (C0 \notin Writers /\ BootSpec) => AnswersRequest
  <1>1. ParkInv /\ [ParkNext]_parkVars =>
          [\A w \in Cores :
             lock'[w] = "PARKED" /\ lock[w] # "PARKED" => lock[w] = "REQUEST"]_parkVars
    <2> SUFFICES ASSUME ParkInv, [ParkNext]_parkVars, NEW v \in Cores,
                        lock'[v] = "PARKED", lock[v] # "PARKED"
                 PROVE  lock[v] = "REQUEST"
      OBVIOUS
    <2> USE TwoCores, CoreAssumption
        DEF ParkInv, ParkTypes, Listeners, HoldsLock, Committed,
            lockVars, bootVars, threadVars
    <2>1. ASSUME NEW w \in Cores, Begin(w) \/ Write(w) PROVE lock[v] = "REQUEST"
      <3>1. lock' = lock \/ lock' = [lock EXCEPT ![w] = "REQUEST"]
                         \/ lock' = [lock EXCEPT ![w] = "IDLE"]
        BY <2>1 DEF Begin, Write, Request, Ring, WaitSeesParked, WaitExpires,
                    DisableInterrupts, FlashDone, RestoreInterrupts, ReleaseLock, Signal
      <3> QED BY <3>1
    <2>2. ASSUME NEW c \in Cores, IsrAnswers(c) PROVE lock[v] = "REQUEST"
      <3>1. v = Other(c)
        BY <2>2 DEF IsrAnswers
      <3> QED BY <2>2, <3>1 DEF IsrAnswers
    <2>3. ASSUME NEW c \in Cores, Park(c), ~IsrAnswers(c) PROVE lock[v] = "REQUEST"
      BY <2>3 DEF Park, IsrEnters, IsrChecks, IsrWakesWriter, IsrPolls, IsrWaitsForEvent
    <2>4. CASE Core1Ready \/ Core1Listens \/ Core0Ready
      BY <2>4 DEF Core1Ready, Core1Listens, Core0Ready
    <2>5. CASE UNCHANGED parkVars
      BY <2>5 DEF parkVars
    <2> QED BY <2>1, <2>2, <2>3, <2>4, <2>5 DEF ParkNext
  <1> QED BY <1>1, ParkInvariance, PTL DEF RunningSpec, BootSpec, AnswersRequest
==============================================================================
