------------------------- MODULE SharedPagesProofs -------------------------
(***************************************************************************)
(* Proofs about the pages PA and PB share without a lock.                  *)
(* The ring (ShmemRing), for every ring size and index width:              *)
(*   - TypeOK, with no condition on the geometry;                          *)
(*   - IInv, hence NoOverwrite and DeliveredIntact, when the slot count    *)
(*     divides the index range or the indices stay below their wrap;       *)
(*   - under the same condition, the ring implements BoundedFifo.          *)
(* The embedding region (EmbedRegion), the snapshot (ContextSnapshot) and  *)
(* the preamble (ContextPreamble) of the shared context pool, for every    *)
(* width of their numbers, every queue and all contents.                   *)
(* And MCSharedPages, which puts them beside the queue pair of the drive   *)
(* (NvmeQueueProofs).                                                      *)
(***************************************************************************)
EXTENDS MCSharedPages, NvmeQueueProofs

------------------------------------------------------------------------------
(* Arithmetic of words. *)

\* Division leaves a remainder below the divisor.
LEMMA DivMod ==
    ASSUME NEW n \in Nat \ {0}, NEW x \in Int
    PROVE  /\ x = n * (x \div n) + (x % n)
           /\ x \div n \in Int
           /\ x % n \in 0 .. (n - 1)
OBVIOUS

\* The remainder is the only number below the divisor that is left.
LEMMA ModUnique ==
    ASSUME NEW n \in Nat \ {0}, NEW q \in Int, NEW r \in 0 .. (n - 1)
    PROVE  (n * q + r) % n = r
OBVIOUS

\* Words one range below, in, and one range above 0 .. n-1.
LEMMA ModNear ==
    ASSUME NEW n \in Nat \ {0}, NEW x \in Int
    PROVE  /\ x \in 0 .. (n - 1) => x % n = x
           /\ x \in n .. (2 * n - 1) => x % n = x - n
           /\ x \in (-n) .. (-1) => x % n = x + n
OBVIOUS

\* No multiple of n lies strictly between 0 and n.
LEMMA NoMultiple ==
    ASSUME NEW n \in Nat \ {0}, NEW k \in Int
    PROVE  ~(0 < n * k /\ n * k < n)
<1>1. CASE k <= 0
  BY <1>1
<1>2. CASE k >= 1
  BY <1>2
<1> QED BY <1>1, <1>2

\* Numbers closer than n have different remainders.
LEMMA ModDistinct ==
    ASSUME NEW n \in Nat \ {0}, NEW x \in Int, NEW y \in Int, x < y, y - x < n
    PROVE  x % n # y % n
<1>1. SUFFICES ASSUME x % n = y % n PROVE FALSE
  OBVIOUS
<1> DEFINE qx == x \div n
           qy == y \div n
<1>2. x = n * qx + (x % n) /\ y = n * qy + (x % n) /\ qx \in Int /\ qy \in Int
           /\ x % n \in Int
  BY DivMod, <1>1
<1>3. y - x = n * (qy - qx)
  <2> HIDE DEF qx, qy
  <2> QED BY <1>2
<1>4. qy - qx \in Int
  BY <1>2
<1>5. ~(0 < n * (qy - qx) /\ n * (qy - qx) < n)
  BY <1>4, NoMultiple
<1> QED BY <1>3, <1>5

\* Reducing by a multiple of n first changes nothing.
LEMMA ModMod ==
    ASSUME NEW n \in Nat \ {0}, NEW m \in Nat \ {0}, m % n = 0, NEW x \in Int
    PROVE  (x % m) % n = x % n
<1> DEFINE p == m \div n
           q == x \div m
           r == x % m
           s == r \div n
           t == r % n
<1>1. m = n * p /\ p \in Int
  BY DivMod
<1>2. x = m * q + r /\ q \in Int /\ r \in Int
  BY DivMod
<1>3. r = n * s + t /\ s \in Int /\ t \in 0 .. (n - 1)
  BY <1>2, DivMod
<1>4. x = n * (p * q + s) + t /\ p * q + s \in Int
  <2> HIDE DEF p, q, r, s, t
  <2>1. x = (n * p) * q + (n * s + t)
    BY <1>1, <1>2, <1>3
  <2>2. (n * p) * q = n * (p * q) /\ p * q \in Int
    BY <1>1, <1>2
  <2>3. n * (p * q + s) = n * (p * q) + n * s
    BY <2>2, <1>3
  <2> QED BY <2>1, <2>2, <2>3, <1>3
<1>5. x % n = t
  <2> HIDE DEF p, q, s, t
  <2> QED BY <1>4, <1>3, ModUnique
<1> QED BY <1>5

\* shmem_ipc_pending is the distance the consumer has to go, wrap included.
LEMMA DistProps ==
    ASSUME NEW wr \in Word, NEW rd \in Word
    PROVE  /\ Dist(wr, rd) \in Word
           /\ Dist(wr, rd) = IF rd <= wr THEN wr - rd ELSE wr - rd + Modulus
           /\ (rd + Dist(wr, rd)) % Modulus = wr
           /\ Dist(wr, rd) = 0 <=> wr = rd
           /\ Inc(wr) \in Word
           /\ Inc(wr) = IF wr + 1 < Modulus THEN wr + 1 ELSE 0
<1>1. Modulus \in Nat \ {0}
  BY RingAssumption
<1>2. Dist(wr, rd) = IF rd <= wr THEN wr - rd ELSE wr - rd + Modulus
  BY <1>1, ModNear DEF Dist, Word
<1>3. Inc(wr) = IF wr + 1 < Modulus THEN wr + 1 ELSE 0
  BY <1>1, ModNear DEF Inc, Word
<1>4. (rd + Dist(wr, rd)) % Modulus = wr
  <2> DEFINE sum == rd + Dist(wr, rd)
  <2>1. sum = wr \/ sum = wr + Modulus
    BY <1>1, <1>2 DEF Word
  <2>2. sum \in Int /\ (sum \in 0 .. (Modulus - 1) \/ sum \in Modulus .. (2 * Modulus - 1))
    BY <1>1, <2>1 DEF Word
  <2>3. sum % Modulus = wr
    <3> HIDE DEF sum
    <3> QED BY <1>1, <2>1, <2>2, ModNear DEF Word
  <2> QED BY <2>3
<1> QED BY <1>1, <1>2, <1>3, <1>4 DEF Word

\* A publish adds one to what is pending, a release takes one away.
LEMMA DistStep ==
    ASSUME NEW wr \in Word, NEW rd \in Word
    PROVE  /\ Dist(wr, rd) < Modulus - 1 => Dist(Inc(wr), rd) = Dist(wr, rd) + 1
           /\ Dist(wr, rd) > 0 => Dist(wr, Inc(rd)) = Dist(wr, rd) - 1
<1>1. Inc(wr) \in Word /\ Inc(rd) \in Word
  BY DistProps
<1>2. Dist(Inc(wr), rd) = IF rd <= Inc(wr) THEN Inc(wr) - rd ELSE Inc(wr) - rd + Modulus
  BY <1>1, DistProps
<1>3. Dist(wr, Inc(rd)) = IF Inc(rd) <= wr THEN wr - Inc(rd) ELSE wr - Inc(rd) + Modulus
  BY <1>1, DistProps
<1>4. Dist(wr, rd) = IF rd <= wr THEN wr - rd ELSE wr - rd + Modulus
  BY DistProps
<1>5. /\ Inc(wr) = IF wr + 1 < Modulus THEN wr + 1 ELSE 0
      /\ Inc(rd) = IF rd + 1 < Modulus THEN rd + 1 ELSE 0
  BY DistProps
<1> QED BY <1>2, <1>3, <1>4, <1>5, RingAssumption DEF Word

------------------------------------------------------------------------------
(* Slots. *)

\* The slots occupied when the indices are wr and rd.
Occ(wr, rd) == {SlotAt(rd, k) : k \in 0 .. (Dist(wr, rd) - 1)}

\* A slot number is in range, and the slot at distance Dist(wr, rd) from rd is
\* the one the producer computes from wr; at distance 0 it is the consumer's.
LEMMA SlotAtProps ==
    ASSUME NEW wr \in Word, NEW rd \in Word
    PROVE  /\ \A k \in Nat : SlotAt(rd, k) \in SlotIdx
           /\ wr % Slots \in SlotIdx
           /\ SlotAt(rd, Dist(wr, rd)) = wr % Slots
           /\ SlotAt(rd, 0) = rd % Slots
<1>1. \A x \in Int : x % Slots \in SlotIdx
  BY DivMod, RingAssumption DEF SlotIdx
<1>2. \A k \in Nat : (rd + k) % Modulus \in Int
  BY DivMod, RingAssumption DEF Word
<1>3. (rd + Dist(wr, rd)) % Modulus = wr
  BY DistProps
<1>4. (rd + 0) % Modulus = rd
  BY ModNear, RingAssumption DEF Word
<1>5. \A k \in Nat : SlotAt(rd, k) \in SlotIdx
  BY <1>1, <1>2 DEF SlotAt
<1>6. wr % Slots \in SlotIdx
  BY <1>1 DEF Word
<1>7. SlotAt(rd, Dist(wr, rd)) = wr % Slots
  BY <1>3 DEF SlotAt
<1>8. SlotAt(rd, 0) = rd % Slots
  BY <1>4 DEF SlotAt
<1> QED BY <1>5, <1>6, <1>7, <1>8

\* Two messages less than a ring apart sit in different slots, across the wrap
\* of the index only if the slot count divides the index range.
LEMMA SlotsApart ==
    ASSUME NEW rd \in Word, NEW j \in Nat, NEW k \in Nat, j < k, k - j < Slots,
           Modulus % Slots = 0 \/ rd + k < Modulus
    PROVE  SlotAt(rd, j) # SlotAt(rd, k)
<1> DEFINE x == rd + j
           y == rd + k
<1>0. /\ x \in Int /\ y \in Int /\ x < y /\ y - x < Slots /\ 0 <= x
      /\ Slots \in Nat \ {0} /\ Modulus \in Nat \ {0}
  BY RingAssumption DEF Word
<1>s. SlotAt(rd, j) = (x % Modulus) % Slots /\ SlotAt(rd, k) = (y % Modulus) % Slots
  BY DEF SlotAt
<1>1. x % Slots # y % Slots
  <2> HIDE DEF x, y
  <2> QED BY <1>0, ModDistinct
<1>2. CASE Modulus % Slots = 0
  <2> HIDE DEF x, y
  <2>1. (x % Modulus) % Slots = x % Slots /\ (y % Modulus) % Slots = y % Slots
    BY <1>0, <1>2, ModMod
  <2> QED BY <1>1, <1>s, <2>1
<1>3. CASE rd + k < Modulus
  <2>1. x \in 0 .. (Modulus - 1) /\ y \in 0 .. (Modulus - 1)
    BY <1>0, <1>3
  <2> HIDE DEF x, y
  <2>2. x % Modulus = x /\ y % Modulus = y
    BY <1>0, <2>1, ModNear
  <2> QED BY <1>1, <1>s, <2>2
<1> QED BY <1>2, <1>3

\* Releasing the head renumbers the messages behind it and moves none.
LEMMA SlotShift ==
    ASSUME NEW rd \in Word, NEW k \in Nat, k + 1 < Modulus
    PROVE  SlotAt(Inc(rd), k) = SlotAt(rd, k + 1)
<1>1. Inc(rd) \in Word /\ Inc(rd) = IF rd + 1 < Modulus THEN rd + 1 ELSE 0
  BY DistProps
<1>2. (Inc(rd) + k) % Modulus = (rd + (k + 1)) % Modulus
  <2>1. CASE rd + 1 < Modulus
    <3>1. Inc(rd) + k = rd + (k + 1)
      BY <1>1, <2>1 DEF Word
    <3> QED BY <3>1
  <2>2. CASE ~(rd + 1 < Modulus)
    <3>1. Inc(rd) + k = k /\ rd + (k + 1) = Modulus + k /\ Modulus \in Nat \ {0}
      BY <1>1, <2>2, RingAssumption DEF Word
    <3>2. k \in 0 .. (Modulus - 1) /\ k \in Int
      BY <3>1
    <3>3. k % Modulus = k
      BY <3>1, <3>2, ModNear
    <3> DEFINE x == Modulus + k
    <3>4. x \in Modulus .. (2 * Modulus - 1) /\ x \in Int /\ x - Modulus = k
      BY <3>1, <3>2
    <3>5. x % Modulus = k
      <4> HIDE DEF x
      <4> QED BY <3>1, <3>4, ModNear
    <3> QED BY <3>1, <3>3, <3>5
  <2> QED BY <2>1, <2>2
<1> QED BY <1>2 DEF SlotAt

\* Publishing occupies the producer's slot and no other.
LEMMA OccPublish ==
    ASSUME NEW wr \in Word, NEW rd \in Word, Dist(wr, rd) < Slots
    PROVE  Occ(Inc(wr), rd) = Occ(wr, rd) \union {wr % Slots}
<1>1. Dist(wr, rd) \in Nat /\ Dist(Inc(wr), rd) = Dist(wr, rd) + 1
  BY DistProps, DistStep, RingAssumption DEF Word
<1>2. SlotAt(rd, Dist(wr, rd)) = wr % Slots
  BY SlotAtProps
<1>3. 0 .. (Dist(Inc(wr), rd) - 1) = (0 .. (Dist(wr, rd) - 1)) \union {Dist(wr, rd)}
  BY <1>1
<1> QED BY <1>2, <1>3 DEF Occ

\* The head slot is occupied, and releasing it occupies nothing new.
LEMMA OccRelease ==
    ASSUME NEW wr \in Word, NEW rd \in Word, Dist(wr, rd) > 0, Dist(wr, rd) <= Slots
    PROVE  /\ rd % Slots \in Occ(wr, rd)
           /\ Occ(wr, Inc(rd)) \subseteq Occ(wr, rd)
<1>1. Dist(wr, rd) \in Nat /\ Dist(wr, Inc(rd)) = Dist(wr, rd) - 1
  BY DistProps, DistStep DEF Word
<1>2. rd % Slots \in Occ(wr, rd)
  <2>1. SlotAt(rd, 0) = rd % Slots
    BY SlotAtProps
  <2>2. 0 \in 0 .. (Dist(wr, rd) - 1)
    BY <1>1
  <2> QED BY <2>1, <2>2 DEF Occ
<1>3. ASSUME NEW k \in 0 .. (Dist(wr, Inc(rd)) - 1)
      PROVE  SlotAt(Inc(rd), k) \in Occ(wr, rd)
  <2>1. SlotAt(Inc(rd), k) = SlotAt(rd, k + 1)
    BY <1>1, SlotShift, RingAssumption
  <2>2. k + 1 \in 0 .. (Dist(wr, rd) - 1)
    BY <1>1
  <2> QED BY <2>1, <2>2 DEF Occ
<1> QED BY <1>2, <1>3 DEF Occ

\* The slot the producer is about to fill is free.
LEMMA OccFree ==
    ASSUME NEW wr \in Word, NEW rd \in Word, Dist(wr, rd) < Slots,
           Modulus % Slots = 0 \/ rd <= wr
    PROVE  wr % Slots \notin Occ(wr, rd)
<1>1. Dist(wr, rd) \in Nat
  BY DistProps DEF Word
<1>2. rd <= wr => rd + Dist(wr, rd) < Modulus
  <2>1. Dist(wr, rd) = IF rd <= wr THEN wr - rd ELSE wr - rd + Modulus
    BY DistProps
  <2> QED BY <2>1, RingAssumption DEF Word
<1>3. ASSUME NEW k \in 0 .. (Dist(wr, rd) - 1)
      PROVE  SlotAt(rd, k) # wr % Slots
  <2>1. SlotAt(rd, k) # SlotAt(rd, Dist(wr, rd))
    BY <1>1, <1>2, SlotsApart, RingAssumption
  <2> QED BY <2>1, SlotAtProps
<1> QED BY <1>3 DEF Occ

------------------------------------------------------------------------------
(* Type correctness, for every geometry. *)

\* The initial ring is well typed.
LEMMA InitTypeOK == Init => TypeOK
<1> SUFFICES ASSUME Init PROVE TypeOK
  OBVIOUS
<1> USE RingAssumption DEF Init, Contents, IdleProd, IdleCons, ZeroSlot
<1>1. write_idx \in Word /\ read_idx \in Word /\ flips \in 0 .. MaxFlips
  BY DEF Word
<1> QED BY <1>1 DEF TypeOK

\* Every step of the producer, the consumer and the environment keeps the types.
LEMMA NextTypeOK == TypeOK /\ [Next]_vars => TypeOK'
<1> SUFFICES ASSUME TypeOK, [Next]_vars PROVE TypeOK'
  OBVIOUS
<1>0. ProdSlot \in SlotIdx
  BY SlotAtProps DEF TypeOK, ProdSlot
<1>1. ASSUME NEW m \in Messages, SendBegin(m) PROVE TypeOK'
  BY <1>1 DEF SendBegin, TypeOK, Contents
<1>2. CASE SendHeader
  BY <1>0, <1>2 DEF SendHeader, TypeOK
<1>3. CASE SendPayload
  BY <1>0, <1>3 DEF SendPayload, TypeOK
<1>4. CASE SendCrc
  BY <1>0, <1>4 DEF SendCrc, Sealed, TypeOK
<1>5. CASE SendPublish
  <2>1. Inc(prod.wr) \in Word
    BY DistProps DEF TypeOK
  <2> QED BY <1>5, <2>1, RingAssumption DEF SendPublish, TypeOK, IdleProd, Contents, Word
<1>6. CASE RecvBegin
  BY <1>6 DEF RecvBegin, TypeOK, IdleCons, Contents
<1>c. ConsSlot \in SlotIdx
  BY SlotAtProps DEF TypeOK, ConsSlot
<1>7. CASE RecvHeader
  BY <1>7, <1>c DEF RecvHeader, TypeOK
<1>8. CASE RecvCheck
  BY <1>8, RingAssumption DEF RecvCheck, TypeOK, IdleCons, Contents, Word
<1>9. CASE RecvCopy
  BY <1>9, <1>c DEF RecvCopy, TypeOK
<1>10. CASE RecvRelease
  <2>1. Inc(cons.rd) \in Word
    BY DistProps DEF TypeOK
  <2> QED BY <1>10, <2>1, RingAssumption DEF RecvRelease, TypeOK, IdleCons, Contents, Word
<1>11. ASSUME NEW i \in SlotIdx, Corrupt(i) PROVE TypeOK'
  <2>1. flips + 1 \in 0 .. MaxFlips
    BY <1>11, RingAssumption DEF Corrupt, TypeOK
  <2> QED BY <1>11, <2>1 DEF Corrupt, TypeOK
<1>12. CASE Reinit
  BY <1>12, RingAssumption DEF Reinit, TypeOK, IdleProd, IdleCons, ZeroSlot, Contents, Word
<1>13. CASE UNCHANGED vars
  BY <1>13 DEF vars, TypeOK
<1> QED
  BY <1>1, <1>2, <1>3, <1>4, <1>5, <1>6, <1>7, <1>8, <1>9, <1>10, <1>11, <1>12, <1>13
  DEF Next, Producer, Consumer

\* The index words, the slots and both sides' locals keep their types whatever
\* the interleaving of shmem_ipc_send, shmem_ipc_recv and a re-initialisation.
THEOREM TypeCorrect == Spec => []TypeOK
<1>1. Init => TypeOK
  BY InitTypeOK
<1>2. TypeOK /\ [Next]_vars => TypeOK'
  BY NextTypeOK
<1> QED BY <1>1, <1>2, PTL DEF Spec

------------------------------------------------------------------------------
(* The inductive invariant, for the geometries of SafeGeometry. *)

\* Slot ownership: the slot the producer fills is free, the slot the consumer
\* reads is occupied.
LEMMA Ownership ==
    ASSUME SafeGeometry, TypeOK, IndexInv, BoundInv
    PROVE  /\ Occupied = Occ(write_idx, read_idx)
           /\ prod.pc # "idle" => ProdSlot \notin Occupied
           /\ cons.pc # "idle" => ConsSlot \in Occupied
<1>0. write_idx \in Word /\ read_idx \in Word
  BY DEF TypeOK
<1>1. Occupied = Occ(write_idx, read_idx)
  BY DEF Occupied, Occ, Pending
<1>2. Modulus % Slots = 0 \/ read_idx <= write_idx
  BY RingAssumption DEF SafeGeometry, BoundInv
<1>3. ASSUME prod.pc # "idle" PROVE ProdSlot \notin Occupied
  <2>1. prod.wr = write_idx /\ Dist(write_idx, read_idx) < Slots
    BY <1>3 DEF IndexInv, Pending
  <2> QED BY <1>0, <1>1, <1>2, <2>1, OccFree DEF ProdSlot
<1>4. ASSUME cons.pc # "idle" PROVE ConsSlot \in Occupied
  <2>1. cons.rd = read_idx /\ Dist(write_idx, read_idx) > 0 /\ Dist(write_idx, read_idx) <= Slots
    BY <1>4 DEF IndexInv, Pending
  <2> QED BY <1>0, <1>1, <2>1, OccRelease DEF ConsSlot
<1> QED BY <1>1, <1>3, <1>4

\* The full check is what NoOverwrite rests on.
LEMMA InvImpliesNoOverwrite == SafeGeometry /\ IInv => NoOverwrite
BY Ownership DEF IInv, NoOverwrite

\* An empty ring satisfies the invariant.
LEMMA EmptyRing ==
    ASSUME write_idx = 0, read_idx = 0, prod = IdleProd, cons = IdleCons
    PROVE  IndexInv /\ BoundInv /\ SlotInv /\ ProdInv /\ ConsInv /\ Pending = 0
<1>0. 0 \in Word
  BY RingAssumption DEF Word
<1>1. Pending = 0
  BY <1>0, DistProps DEF Pending
<1>2. Occupied = {}
  BY <1>1 DEF Occupied
<1>3. prod.pc = "idle" /\ cons.pc = "idle"
  BY DEF IdleProd, IdleCons
<1>4. IndexInv
  BY <1>1, <1>3, RingAssumption DEF IndexInv
<1>5. BoundInv
  BY <1>3, RingAssumption DEF BoundInv
<1> QED BY <1>1, <1>2, <1>3, <1>4, <1>5 DEF SlotInv, ProdInv, ConsInv

\* The initial state satisfies the invariant.
LEMMA InitInv == Init => IInv
<1> SUFFICES ASSUME Init PROVE IInv
  OBVIOUS
<1>1. TypeOK
  BY InitTypeOK
<1>2. IndexInv /\ BoundInv /\ SlotInv /\ ProdInv /\ ConsInv
  BY EmptyRing DEF Init
<1>3. DeliveredIntact
  BY DEF Init, DeliveredIntact
<1> QED BY <1>1, <1>2, <1>3 DEF IInv

\* Storing into the producer's own slot disturbs nothing published, and nothing
\* the consumer has read.
LEMMA PrivateStore ==
    ASSUME SafeGeometry, IInv, prod.pc # "idle",
           NEW s, slots' = [slots EXCEPT ![ProdSlot] = s],
           prod'.pc # "idle", prod'.wr = prod.wr,
           UNCHANGED <<write_idx, read_idx, cons, received>>
    PROVE  /\ IndexInv' /\ BoundInv' /\ SlotInv' /\ ConsInv' /\ DeliveredIntact'
           /\ ProdSlot' = ProdSlot /\ ProdSlot \in SlotIdx /\ slots'[ProdSlot] = s
<1>0. /\ TypeOK /\ IndexInv /\ BoundInv /\ SlotInv /\ ConsInv /\ DeliveredIntact
  BY DEF IInv
<1>1. /\ ProdSlot \notin Occupied
      /\ cons.pc # "idle" => ConsSlot \in Occupied
  BY <1>0, Ownership
<1>2. ProdSlot \in SlotIdx
  BY <1>0, SlotAtProps DEF TypeOK, ProdSlot
<1>3. DOMAIN slots = SlotIdx
  BY <1>0 DEF TypeOK
<1>4. slots'[ProdSlot] = s /\ \A i \in SlotIdx : i # ProdSlot => slots'[i] = slots[i]
  BY <1>2, <1>3
<1>5. Occupied' = Occupied /\ Pending' = Pending
  BY DEF Occupied, Pending
<1>6. IndexInv' /\ BoundInv'
  BY <1>0, <1>5 DEF IndexInv, BoundInv
<1>7. Occupied \subseteq SlotIdx
  <2>1. \A k \in 0 .. (Pending - 1) : k \in Nat
    BY <1>0, DistProps DEF Pending, TypeOK
  <2> QED BY <1>0, <2>1, SlotAtProps DEF Occupied, TypeOK
<1>8. SlotInv'
  BY <1>0, <1>1, <1>4, <1>5, <1>7 DEF SlotInv
<1>9. ConsInv'
  <2>1. cons.pc # "idle" => slots'[ConsSlot] = slots[ConsSlot]
    BY <1>1, <1>4, <1>7
  <2> QED BY <1>0, <2>1 DEF ConsInv, ConsSlot
<1>10. ProdSlot' = ProdSlot
  BY DEF ProdSlot
<1> QED BY <1>0, <1>2, <1>4, <1>6, <1>8, <1>9, <1>10 DEF DeliveredIntact

\* Every step preserves the invariant.
LEMMA NextInv == SafeGeometry /\ IInv /\ [Next]_vars => IInv'
<1> SUFFICES ASSUME SafeGeometry, IInv, [Next]_vars PROVE IInv'
  OBVIOUS
<1>0. /\ TypeOK /\ IndexInv /\ BoundInv /\ SlotInv /\ ProdInv /\ ConsInv /\ DeliveredIntact
      /\ write_idx \in Word /\ read_idx \in Word
  BY DEF IInv, TypeOK
<1>t. TypeOK'
  BY <1>0, NextTypeOK
<1>o. /\ Occupied = Occ(write_idx, read_idx)
      /\ prod.pc # "idle" => ProdSlot \notin Occupied
      /\ cons.pc # "idle" => ConsSlot \in Occupied
  BY <1>0, Ownership
<1>1. ASSUME NEW m \in Messages, SendBegin(m) PROVE IInv'
  <2>1. /\ prod'.pc = "header" /\ prod'.wr = write_idx /\ prod'.msg = m
        /\ write_idx < IndexLimit /\ Pending < Slots
        /\ UNCHANGED <<write_idx, read_idx, slots, cons, received>>
    <3>1. Pending \in Int
      BY <1>0, DistProps DEF Pending, Word
    <3> QED BY <1>1, <3>1, RingAssumption DEF SendBegin, RingFull
  <2>2. Pending' = Pending /\ Occupied' = Occupied
    BY <2>1 DEF Pending, Occupied
  <2>3. IndexInv'
    BY <1>0, <2>1, <2>2 DEF IndexInv
  <2>4. BoundInv'
    BY <1>0, <2>1 DEF BoundInv
  <2>5. SlotInv' /\ ConsInv' /\ DeliveredIntact'
    BY <1>0, <2>1, <2>2 DEF SlotInv, ConsInv, ConsSlot, DeliveredIntact
  <2>6. ProdInv'
    BY <2>1 DEF ProdInv
  <2> QED BY <1>t, <2>3, <2>4, <2>5, <2>6 DEF IInv
<1>2. CASE SendHeader
  <2> DEFINE s == [slots[ProdSlot] EXCEPT !.hdr = prod.msg]
  <2>1. /\ slots' = [slots EXCEPT ![ProdSlot] = s] /\ prod.pc # "idle"
        /\ prod'.pc = "payload" /\ prod'.wr = prod.wr /\ prod'.msg = prod.msg
        /\ UNCHANGED <<write_idx, read_idx, cons, received>>
    BY <1>0, <1>2 DEF SendHeader, TypeOK
  <2>2. /\ IndexInv' /\ BoundInv' /\ SlotInv' /\ ConsInv' /\ DeliveredIntact'
        /\ ProdSlot' = ProdSlot /\ ProdSlot \in SlotIdx /\ slots'[ProdSlot] = s
    <3> HIDE DEF s
    <3> QED BY <2>1, PrivateStore
  <2>3. ProdInv'
    <3>1. s.hdr = prod.msg
      BY <1>0, <2>2 DEF TypeOK
    <3> QED BY <1>0, <2>1, <2>2, <3>1 DEF ProdInv
  <2> QED BY <1>t, <2>2, <2>3 DEF IInv
<1>3. CASE SendPayload
  <2> DEFINE s == [slots[ProdSlot] EXCEPT !.body = prod.msg]
  <2>1. /\ slots' = [slots EXCEPT ![ProdSlot] = s] /\ prod.pc = "payload"
        /\ prod'.pc = "crc" /\ prod'.wr = prod.wr /\ prod'.msg = prod.msg
        /\ UNCHANGED <<write_idx, read_idx, cons, received>>
    BY <1>0, <1>3 DEF SendPayload, TypeOK
  <2>2. /\ IndexInv' /\ BoundInv' /\ SlotInv' /\ ConsInv' /\ DeliveredIntact'
        /\ ProdSlot' = ProdSlot /\ ProdSlot \in SlotIdx /\ slots'[ProdSlot] = s
    <3> HIDE DEF s
    <3> QED BY <2>1, PrivateStore
  <2>3. ProdInv'
    <3>1. s.hdr = prod.msg /\ s.body = prod.msg
      BY <1>0, <2>1, <2>2 DEF TypeOK, ProdInv
    <3> QED BY <1>0, <2>1, <2>2, <3>1 DEF ProdInv
  <2> QED BY <1>t, <2>2, <2>3 DEF IInv
<1>4. CASE SendCrc
  <2> DEFINE s == Sealed(slots[ProdSlot])
  <2>1. /\ slots' = [slots EXCEPT ![ProdSlot] = s] /\ prod.pc = "crc"
        /\ prod'.pc = "publish" /\ prod'.wr = prod.wr /\ prod'.msg = prod.msg
        /\ UNCHANGED <<write_idx, read_idx, cons, received>>
    BY <1>0, <1>4 DEF SendCrc, TypeOK
  <2>2. /\ IndexInv' /\ BoundInv' /\ SlotInv' /\ ConsInv' /\ DeliveredIntact'
        /\ ProdSlot' = ProdSlot /\ ProdSlot \in SlotIdx /\ slots'[ProdSlot] = s
    <3> HIDE DEF s
    <3> QED BY <2>1, PrivateStore
  <2>3. ProdInv'
    <3>1. s.hdr = prod.msg /\ s.body = prod.msg
      BY <1>0, <2>1 DEF ProdInv, Sealed
    <3> QED BY <1>0, <2>1, <2>2, <3>1 DEF ProdInv
  <2> QED BY <1>t, <2>2, <2>3 DEF IInv
<1>5. CASE SendPublish
  <2>1. /\ prod.pc = "publish" /\ prod'.pc = "idle" /\ prod.wr = write_idx
        /\ write_idx' = Inc(write_idx) /\ Dist(write_idx, read_idx) < Slots
        /\ UNCHANGED <<read_idx, slots, cons, received>>
    BY <1>0, <1>5 DEF SendPublish, IndexInv, Pending, IdleProd
  <2>2. Pending' = Pending + 1 /\ Pending \in Nat /\ Pending < Slots
    BY <1>0, <2>1, DistStep, DistProps, RingAssumption DEF Pending, Word
  <2>3. Occupied' = Occupied \union {ProdSlot}
    <3>1. Occupied' = Occ(write_idx', read_idx)
      BY <2>1 DEF Occupied, Occ, Pending
    <3> QED BY <1>0, <1>o, <2>1, <3>1, OccPublish DEF ProdSlot
  <2>4. IndexInv'
    BY <1>0, <2>1, <2>2, RingAssumption DEF IndexInv
  <2>5. BoundInv'
    <3>1. Inc(write_idx) = IF write_idx + 1 < Modulus THEN write_idx + 1 ELSE 0
      BY <1>0, DistProps
    <3> QED BY <1>0, <2>1, <3>1, RingAssumption DEF BoundInv, Word
  <2>6. SlotInv'
    BY <1>0, <2>1, <2>3 DEF SlotInv, ProdInv
  <2>7. ProdInv' /\ ConsInv' /\ DeliveredIntact'
    BY <1>0, <2>1 DEF ProdInv, ConsInv, ConsSlot, DeliveredIntact
  <2> QED BY <1>t, <2>4, <2>5, <2>6, <2>7 DEF IInv
<1>6. CASE RecvBegin
  <2>1. /\ cons'.pc = "header" /\ cons'.rd = read_idx /\ read_idx # write_idx
        /\ UNCHANGED <<write_idx, read_idx, slots, prod, received>>
    BY <1>6 DEF RecvBegin, IdleCons
  <2>2. Pending' = Pending /\ Occupied' = Occupied /\ Pending > 0
    <3>1. Pending \in Word /\ Pending # 0
      BY <1>0, <2>1, DistProps DEF Pending
    <3> QED BY <2>1, <3>1 DEF Pending, Occupied, Word
  <2>3. IndexInv' /\ BoundInv' /\ SlotInv' /\ ProdInv' /\ ConsInv' /\ DeliveredIntact'
    BY <1>0, <2>1, <2>2
    DEF IndexInv, BoundInv, SlotInv, ProdInv, ProdSlot, ConsInv, ConsSlot, DeliveredIntact
  <2> QED BY <1>t, <2>3 DEF IInv
<1>7. ASSUME RecvHeader \/ RecvCheck \/ RecvCopy PROVE IInv'
  <2>1. /\ UNCHANGED <<write_idx, read_idx, slots, prod, received>>
        /\ cons.pc # "idle"
        /\ cons'.pc # "idle" => cons'.rd = cons.rd
    <3>1. CASE RecvHeader
      BY <1>0, <3>1 DEF RecvHeader, TypeOK
    <3>2. CASE RecvCheck
      BY <1>0, <3>2 DEF RecvCheck, IdleCons, TypeOK
    <3>3. CASE RecvCopy
      BY <1>0, <3>3 DEF RecvCopy, TypeOK
    <3> QED BY <1>7, <3>1, <3>2, <3>3
  <2>2. Pending' = Pending /\ Occupied' = Occupied
    BY <2>1 DEF Pending, Occupied
  <2>3. IndexInv' /\ BoundInv' /\ SlotInv' /\ ProdInv' /\ DeliveredIntact'
    BY <1>0, <2>1, <2>2 DEF IndexInv, BoundInv, SlotInv, ProdInv, ProdSlot, DeliveredIntact
  <2>4. ConsInv'
    <3>1. CASE RecvHeader
      BY <1>0, <2>1, <3>1 DEF RecvHeader, TypeOK, ConsInv, ConsSlot
    <3>2. CASE RecvCheck
      BY <1>0, <2>1, <3>2 DEF RecvCheck, CrcOk, IdleCons, TypeOK, ConsInv, ConsSlot
    <3>3. CASE RecvCopy
      BY <1>0, <2>1, <3>3 DEF RecvCopy, TypeOK, ConsInv, ConsSlot
    <3> QED BY <1>7, <3>1, <3>2, <3>3
  <2> QED BY <1>t, <2>3, <2>4 DEF IInv
<1>8. CASE RecvRelease
  <2>1. /\ cons.pc = "release" /\ cons'.pc = "idle" /\ cons.rd = read_idx
        /\ read_idx' = Inc(read_idx)
        /\ Dist(write_idx, read_idx) > 0 /\ Dist(write_idx, read_idx) <= Slots
        /\ received' = [hdr |-> cons.hdr, body |-> cons.body, bad |-> cons.bad]
        /\ UNCHANGED <<write_idx, slots, prod>>
    BY <1>0, <1>8 DEF RecvRelease, IndexInv, Pending, IdleCons
  <2>2. Pending' = Pending - 1 /\ Pending \in Nat /\ Pending > 0
    BY <1>0, <2>1, DistStep, DistProps DEF Pending, Word
  <2>3. Occupied' \subseteq Occupied
    <3>1. Occupied' = Occ(write_idx, read_idx')
      BY <2>1 DEF Occupied, Occ, Pending
    <3> QED BY <1>0, <1>o, <2>1, <3>1, OccRelease
  <2>4. IndexInv'
    BY <1>0, <2>1, <2>2, RingAssumption DEF IndexInv
  <2>5. BoundInv'
    <3>1. Inc(read_idx) = IF read_idx + 1 < Modulus THEN read_idx + 1 ELSE 0
      BY <1>0, DistProps
    <3>2. read_idx # write_idx
      BY <1>0, <2>1, DistProps
    <3> QED BY <1>0, <2>1, <3>1, <3>2, RingAssumption DEF BoundInv, Word
  <2>6. SlotInv' /\ ProdInv' /\ ConsInv'
    BY <1>0, <2>1, <2>3 DEF SlotInv, ProdInv, ProdSlot, ConsInv
  <2>7. DeliveredIntact'
    BY <1>0, <1>o, <2>1 DEF DeliveredIntact, ConsInv, SlotInv
  <2> QED BY <1>t, <2>4, <2>5, <2>6, <2>7 DEF IInv
<1>9. ASSUME NEW i \in SlotIdx, Corrupt(i) PROVE IInv'
  <2>1. /\ i \in Occupied /\ ~(cons.pc \in {"copy", "release"} /\ i = ConsSlot)
        /\ slots' = [slots EXCEPT ![i].flipped = TRUE]
        /\ UNCHANGED <<write_idx, read_idx, prod, cons, received>>
    BY <1>9 DEF Corrupt
  <2>2. Pending' = Pending /\ Occupied' = Occupied /\ ProdSlot' = ProdSlot /\ ConsSlot' = ConsSlot
    BY <2>1 DEF Pending, Occupied, ProdSlot, ConsSlot
  <2>3. \A j \in SlotIdx : /\ slots'[j].hdr = slots[j].hdr /\ slots'[j].body = slots[j].body
                           /\ j # i => slots'[j].flipped = slots[j].flipped
    BY <1>0, <2>1 DEF TypeOK
  <2>4. ProdSlot \in SlotIdx /\ ConsSlot \in SlotIdx
    BY <1>0, SlotAtProps DEF TypeOK, ProdSlot, ConsSlot
  <2>5. Occupied \subseteq SlotIdx
    <3>1. \A k \in 0 .. (Pending - 1) : k \in Nat
      BY <1>0, DistProps DEF Pending, Word
    <3> QED BY <1>0, <3>1, SlotAtProps DEF Occupied
  <2>6. IndexInv' /\ BoundInv' /\ DeliveredIntact'
    BY <1>0, <2>1, <2>2 DEF IndexInv, BoundInv, DeliveredIntact
  <2>7. SlotInv'
    BY <1>0, <2>2, <2>3, <2>5 DEF SlotInv
  <2>8. ProdInv'
    BY <1>0, <2>1, <2>2, <2>3, <2>4 DEF ProdInv
  <2>9. ConsInv'
    BY <1>0, <2>1, <2>2, <2>3, <2>4 DEF ConsInv
  <2> QED BY <1>t, <2>6, <2>7, <2>8, <2>9 DEF IInv
<1>10. CASE Reinit
  <2>1. IndexInv' /\ BoundInv' /\ SlotInv' /\ ProdInv' /\ ConsInv'
    <3>1. write_idx' = 0 /\ read_idx' = 0 /\ prod' = IdleProd /\ cons' = IdleCons
      BY <1>10 DEF Reinit
    <3>2. Pending' = 0
      <4>1. 0 \in Word
        BY RingAssumption DEF Word
      <4> QED BY <3>1, <4>1, DistProps DEF Pending
    <3>3. Occupied' = {}
      BY <3>2 DEF Occupied
    <3> QED BY <3>1, <3>2, <3>3, RingAssumption
        DEF IndexInv, BoundInv, SlotInv, ProdInv, ConsInv, IdleProd, IdleCons
  <2>2. DeliveredIntact'
    BY <1>0, <1>10 DEF Reinit, DeliveredIntact
  <2> QED BY <1>t, <2>1, <2>2 DEF IInv
<1>11. CASE UNCHANGED vars
  BY <1>0, <1>t, <1>11
  DEF vars, IInv, IndexInv, BoundInv, SlotInv, ProdInv, ConsInv, DeliveredIntact,
      Pending, Occupied, ProdSlot, ConsSlot
<1> QED
  BY <1>1, <1>2, <1>3, <1>4, <1>5, <1>6, <1>7, <1>8, <1>9, <1>10, <1>11
  DEF Next, Producer, Consumer

\* The ring's invariant holds in every reachable state, for every slot count and
\* index width of a safe geometry.
THEOREM Invariance == SafeGeometry => (Spec => []IInv)
<1> SUFFICES ASSUME SafeGeometry PROVE Spec => []IInv
  OBVIOUS
<1>1. Init => IInv
  BY InitInv
<1>2. IInv /\ [Next]_vars => IInv'
  BY NextInv
<1> QED BY <1>1, <1>2, PTL DEF Spec

\* The producer never writes a slot the consumer has not released, and nothing
\* torn or corrupted is delivered: shmem_ipc.c's full check and CRC check.
THEOREM RingSafety == SafeGeometry => (Spec => []RingSafe)
<1> SUFFICES ASSUME SafeGeometry PROVE Spec => []RingSafe
  OBVIOUS
<1>1. Spec => []IInv
  BY Invariance
<1>2. IInv => RingSafe
  BY InvImpliesNoOverwrite DEF IInv, RingSafe
<1> QED BY <1>1, <1>2, PTL

------------------------------------------------------------------------------
(* The ring implements the bounded FIFO. *)

\* Queued is a sequence with one element per pending message, each the header of
\* an occupied slot.
QueuedIsSeq ==
    /\ Pending \in Nat
    /\ Queued \in Seq(Contents) /\ Len(Queued) = Pending
    /\ \A k \in 1 .. Pending : /\ Queued[k] = slots[SlotAt(read_idx, k - 1)].hdr
                               /\ SlotAt(read_idx, k - 1) \in SlotIdx \intersect Occupied

\* The published messages form a sequence.
LEMMA QueuedProps == TypeOK => QueuedIsSeq
<1> SUFFICES ASSUME TypeOK PROVE QueuedIsSeq
  OBVIOUS
<1>0. write_idx \in Word /\ read_idx \in Word
  BY DEF TypeOK
<1>1. Pending \in Nat
  BY <1>0, DistProps DEF Pending, Word
<1>2. ASSUME NEW k \in 1 .. Pending
      PROVE  SlotAt(read_idx, k - 1) \in SlotIdx \intersect Occupied
  <2>1. k - 1 \in Nat /\ k - 1 \in 0 .. (Pending - 1)
    BY <1>1
  <2> QED BY <1>0, <2>1, SlotAtProps DEF Occupied
<1>3. Queued \in [1 .. Pending -> Contents]
  BY <1>1, <1>2 DEF Queued, TypeOK
<1>4. Queued \in Seq(Contents)
  BY <1>1, <1>3, SeqDef
<1>5. Len(Queued) = Pending
  BY <1>1, <1>3, <1>4, LenProperties
<1> QED BY <1>1, <1>2, <1>4, <1>5 DEF Queued, QueuedIsSeq

\* As long as the indices and the headers of the published messages stand, so
\* does the queue.
LEMMA QueuedUnchanged ==
    ASSUME TypeOK, UNCHANGED <<write_idx, read_idx>>,
           \A i \in SlotIdx \intersect Occupied : slots'[i].hdr = slots[i].hdr
    PROVE  Queued' = Queued
<1>1. Pending' = Pending
  BY DEF Pending
<1>2. \A k \in 1 .. Pending : slots'[SlotAt(read_idx, k - 1)].hdr = slots[SlotAt(read_idx, k - 1)].hdr
  BY QueuedProps DEF QueuedIsSeq
<1> QED BY <1>1, <1>2 DEF Queued

\* SendPublish appends, RecvRelease takes the head, Reinit empties the queue, and
\* every other step leaves it alone.
LEMMA NextRefines == SafeGeometry /\ IInv /\ IInv' /\ [Next]_vars => [Fifo!Next]_(Fifo!vars)
<1> SUFFICES ASSUME SafeGeometry, IInv, IInv', [Next]_vars
             PROVE  Fifo!Next \/ UNCHANGED <<Queued, received.hdr>>
  BY DEF Fifo!vars
<1>0. /\ TypeOK /\ IndexInv /\ BoundInv /\ SlotInv /\ ProdInv /\ ConsInv /\ TypeOK'
      /\ write_idx \in Word /\ read_idx \in Word
  BY DEF IInv, TypeOK
<1>o. /\ prod.pc # "idle" => ProdSlot \notin Occupied
      /\ cons.pc # "idle" => ConsSlot \in Occupied
  BY <1>0, Ownership
<1>q. QueuedIsSeq /\ QueuedIsSeq'
  <2>1. TypeOK => QueuedIsSeq
    BY QueuedProps
  <2>2. (TypeOK => QueuedIsSeq)'
    BY QueuedProps, PTL
  <2> QED BY <1>0, <2>1, <2>2
<1>1. ASSUME UNCHANGED <<write_idx, read_idx, received>>,
             \A i \in SlotIdx \intersect Occupied : slots'[i].hdr = slots[i].hdr
      PROVE  UNCHANGED <<Queued, received.hdr>>
  BY <1>0, <1>1, QueuedUnchanged
<1>2. ASSUME SendHeader \/ SendPayload \/ SendCrc PROVE UNCHANGED <<Queued, received.hdr>>
  <2>1. /\ prod.pc # "idle" /\ UNCHANGED <<write_idx, read_idx, received>>
        /\ \A i \in SlotIdx : i # ProdSlot => slots'[i] = slots[i]
    BY <1>0, <1>2 DEF SendHeader, SendPayload, SendCrc, TypeOK
  <2> QED BY <1>1, <1>o, <2>1
<1>3. CASE SendPublish
  <2>1. /\ prod.pc = "publish" /\ prod.wr = write_idx /\ write_idx' = Inc(write_idx)
        /\ Pending < Slots /\ UNCHANGED <<read_idx, slots, received>>
        /\ prod.msg \in Messages /\ slots[ProdSlot].hdr = prod.msg
    BY <1>0, <1>3 DEF SendPublish, IndexInv, ProdInv
  <2>2. Pending' = Pending + 1
    BY <1>0, <2>1, DistStep, DistProps, RingAssumption DEF Pending, Word
  <2>3. SlotAt(read_idx, Pending) = ProdSlot
    BY <1>0, <2>1, SlotAtProps DEF Pending, ProdSlot
  <2>4. /\ Append(Queued, prod.msg) \in Seq(Contents)
        /\ Len(Append(Queued, prod.msg)) = Pending + 1
        /\ \A k \in 1 .. Pending : Append(Queued, prod.msg)[k] = Queued[k]
        /\ Append(Queued, prod.msg)[Pending + 1] = prod.msg
    BY <1>q, <2>1, AppendProperties DEF QueuedIsSeq, Contents
  <2>5. \A k \in 1 .. (Pending + 1) : Queued'[k] = Append(Queued, prod.msg)[k]
    <3>1. ASSUME NEW k \in 1 .. Pending
          PROVE  Queued'[k] = Append(Queued, prod.msg)[k]
      <4>1. k \in 1 .. Pending' /\ Append(Queued, prod.msg)[k] = Queued[k]
        BY <1>q, <2>2, <2>4 DEF QueuedIsSeq
      <4>2. Queued[k] = slots[SlotAt(read_idx, k - 1)].hdr
        BY <1>q DEF QueuedIsSeq
      <4>3. Queued'[k] = slots'[SlotAt(read_idx', k - 1)].hdr
        BY <1>q, <4>1 DEF QueuedIsSeq
      <4> QED BY <2>1, <4>1, <4>2, <4>3
    <3>2. Queued'[Pending + 1] = Append(Queued, prod.msg)[Pending + 1]
      BY <1>q, <2>1, <2>2, <2>3, <2>4 DEF QueuedIsSeq
    <3> QED BY <1>q, <3>1, <3>2 DEF QueuedIsSeq
  <2>6. Queued' = Append(Queued, prod.msg)
    <3>1. Queued' \in Seq(Contents) /\ Len(Queued') = Pending + 1
      BY <1>q, <2>2 DEF QueuedIsSeq
    <3> QED BY <2>4, <2>5, <3>1, SeqEqual
  <2>7. Len(Queued) < Slots
    BY <1>q, <2>1 DEF QueuedIsSeq
  <2>8. Fifo!Put(prod.msg)
    BY <2>1, <2>6, <2>7 DEF Fifo!Put
  <2> QED BY <2>1, <2>8 DEF Fifo!Next
<1>4. CASE RecvRelease
  <2>1. /\ cons.pc = "release" /\ cons.rd = read_idx /\ read_idx' = Inc(read_idx)
        /\ Pending > 0 /\ Pending <= Slots /\ UNCHANGED <<write_idx, slots>>
        /\ received'.hdr = slots[ConsSlot].hdr
    BY <1>0, <1>4 DEF RecvRelease, IndexInv, ConsInv
  <2>2. Pending' = Pending - 1
    BY <1>0, <2>1, DistStep DEF Pending
  <2>3. SlotAt(read_idx, 0) = ConsSlot
    BY <1>0, <2>1, SlotAtProps DEF ConsSlot
  <2>4. Queued # <<>> /\ Head(Queued) = slots[ConsSlot].hdr
    <3>1. Queued # <<>> /\ 1 \in 1 .. Pending
      BY <1>q, <2>1, EmptySeq DEF QueuedIsSeq
    <3>2. Head(Queued) = Queued[1]
      BY <1>q, <3>1, HeadTailProperties DEF QueuedIsSeq
    <3> QED BY <1>q, <2>3, <3>1, <3>2 DEF QueuedIsSeq
  <2>5. /\ Tail(Queued) \in Seq(Contents) /\ Len(Tail(Queued)) = Pending - 1
        /\ \A k \in 1 .. (Pending - 1) : Tail(Queued)[k] = Queued[k + 1]
    BY <1>q, <2>4, HeadTailProperties DEF QueuedIsSeq
  <2>6. \A k \in 1 .. (Pending - 1) : Queued'[k] = Tail(Queued)[k]
    <3> SUFFICES ASSUME NEW k \in 1 .. (Pending - 1) PROVE Queued'[k] = Tail(Queued)[k]
      OBVIOUS
    <3>1. /\ k - 1 \in Nat /\ (k - 1) + 1 < Modulus /\ (k - 1) + 1 = (k + 1) - 1
          /\ k \in 1 .. Pending' /\ k + 1 \in 1 .. Pending
      BY <1>q, <2>1, <2>2, RingAssumption DEF QueuedIsSeq
    <3>2. SlotAt(Inc(read_idx), k - 1) = SlotAt(read_idx, (k + 1) - 1)
      BY <1>0, <3>1, SlotShift
    <3>3. Queued'[k] = slots[SlotAt(Inc(read_idx), k - 1)].hdr
      BY <1>q, <2>1, <3>1 DEF QueuedIsSeq
    <3>4. Queued[k + 1] = slots[SlotAt(read_idx, (k + 1) - 1)].hdr
      BY <1>q, <3>1 DEF QueuedIsSeq
    <3> QED BY <2>5, <3>2, <3>3, <3>4
  <2>7. Queued' = Tail(Queued)
    <3>1. Queued' \in Seq(Contents) /\ Len(Queued') = Pending - 1
      BY <1>q, <2>2 DEF QueuedIsSeq
    <3> QED BY <2>5, <2>6, <3>1, SeqEqual
  <2> QED BY <2>1, <2>4, <2>7 DEF Fifo!Get, Fifo!Next
<1>5. ASSUME NEW i \in SlotIdx, Corrupt(i) PROVE UNCHANGED <<Queued, received.hdr>>
  <2>1. /\ UNCHANGED <<write_idx, read_idx, received>>
        /\ \A j \in SlotIdx : slots'[j].hdr = slots[j].hdr
    BY <1>0, <1>5 DEF Corrupt, TypeOK
  <2> QED BY <1>1, <2>1
<1>6. CASE Reinit
  <2>1. Pending' = 0
    <3>1. 0 \in Word
      BY RingAssumption DEF Word
    <3> QED BY <1>6, <3>1, DistProps DEF Reinit, Pending
  <2>2. Queued' = <<>>
    BY <1>q, <2>1, EmptySeq DEF QueuedIsSeq
  <2> QED BY <1>6, <2>2 DEF Reinit, Fifo!Reset, Fifo!Next
<1>7. ASSUME \/ \E m \in Messages : SendBegin(m)
             \/ RecvBegin \/ RecvHeader \/ RecvCheck \/ RecvCopy \/ UNCHANGED vars
      PROVE  UNCHANGED <<Queued, received.hdr>>
  <2>1. UNCHANGED <<write_idx, read_idx, slots, received>>
    BY <1>7 DEF SendBegin, RecvBegin, RecvHeader, RecvCheck, RecvCopy, vars
  <2> QED BY <1>1, <2>1
<1> QED
  BY <1>2, <1>3, <1>4, <1>5, <1>6, <1>7 DEF Next, Producer, Consumer

\* Every behaviour of the ring is, seen through its published messages, one of
\* the bounded FIFO: nothing is lost, duplicated or reordered short of a respawn.
THEOREM Refinement == SafeGeometry => (Spec => ImplementsFifo)
<1> SUFFICES ASSUME SafeGeometry PROVE Spec => Fifo!Spec
  BY DEF ImplementsFifo
<1>1. Init => Fifo!Init
  <2> SUFFICES ASSUME Init PROVE Fifo!Init
    OBVIOUS
  <2>1. TypeOK /\ Pending = 0
    BY InitTypeOK, EmptyRing DEF Init
  <2>2. Queued = <<>>
    BY <2>1, QueuedProps, EmptySeq DEF QueuedIsSeq
  <2> QED BY <2>2 DEF Init, Fifo!Init
<1>2. IInv /\ IInv' /\ [Next]_vars => [Fifo!Next]_(Fifo!vars)
  BY NextRefines
<1>3. Spec => []IInv
  BY Invariance
<1> QED BY <1>1, <1>2, <1>3, PTL DEF Spec, Fifo!Spec

------------------------------------------------------------------------------
(* A page of two halves. *)
LEMMA Halves ==
    ASSUME NEW S, NEW f \in [1 .. 2 -> S], NEW a \in S
    PROVE  /\ <<a, a>> \in [1 .. 2 -> S]
           /\ f = <<a, a>> <=> f[1] = a /\ f[2] = a
           /\ f[1] \in S /\ f[2] \in S
           /\ [f EXCEPT ![1] = a] \in [1 .. 2 -> S]
           /\ [f EXCEPT ![2] = a] \in [1 .. 2 -> S]
           /\ [f EXCEPT ![1] = a][1] = a /\ [f EXCEPT ![1] = a][2] = f[2]
           /\ [f EXCEPT ![2] = a][2] = a /\ [f EXCEPT ![2] = a][1] = f[1]
OBVIOUS

(* The number after n, of mod. *)
LEMMA After ==
    ASSUME NEW mod \in Nat, mod > 1, NEW n \in 0 .. (mod - 1)
    PROVE  /\ (n + 1) % mod = IF n + 1 = mod THEN 0 ELSE n + 1
           /\ (n + 1) % mod \in 0 .. (mod - 1)
<1>1. CASE n + 1 = mod
  <2>1. mod % mod = 0  BY SMTT(20)
  <2> QED  BY <1>1, <2>1
<1>2. CASE n + 1 # mod
  <2>1. n + 1 \in 0 .. (mod - 1)  BY <1>2
  <2>2. (n + 1) % mod = n + 1  BY <2>1, SMTT(20)
  <2> QED  BY <2>1, <2>2, <1>2
<1> QED  BY <1>1, <1>2

------------------------------------------------------------------------------
(* The snapshot: the word and the fields, and how far the word has moved since v1. *)

Reading == sr \in {"r1", "r2", "check"}

(* Publications completed since PB took v1. *)
Completed == IF sw = "idle" THEN missed ELSE missed - 1

NextVersion == (Version(sseq) + 1) % Versions

(* Which publication each field is from. *)
FieldsInv ==
    /\ sw = "idle" => sfield = <<Version(sseq), Version(sseq)>>
    /\ sw = "f2"   => sfield[1] = NextVersion
    /\ sw = "even" => sfield = <<NextVersion, NextVersion>>

(* The word says how many publications PB has missed, up to 2^31 of them. *)
WordInv ==
    Reading =>
      /\ sv1 % 2 = 0
      /\ sw # "idle" => missed > 0
      /\ Version(sseq) \in {Version(sv1) + Completed, Version(sv1) + Completed - Versions}
      /\ missed = 0 => sseq = sv1

(* While none was missed, what PB has read is of the publication it began with. *)
CopyInv ==
    /\ sr = "r2" /\ missed = 0 => sout[1] = Version(sv1)
    /\ sr = "check" /\ missed = 0 => sout = <<Version(sv1), Version(sv1)>>
    /\ NoTornSnapshot

SnapInv == SnapTypeOK /\ FieldsInv /\ WordInv /\ CopyInv

(* What the word says: its parity and its version, and those of the next one. *)
LEMMA WordFact ==
    ASSUME NEW s \in 0 .. (SctxSeqMod - 1)
    PROVE  /\ Version(s) \in 0 .. (Versions - 1) /\ s % 2 \in {0, 1}
           /\ s = 2 * Version(s) + (s % 2)
<1>1. Versions \in Nat /\ Versions > 1 /\ s \in Nat /\ s < 2 * Versions
  BY SnapshotAssumption DEF SctxSeqMod
<1>2. s % 2 \in {0, 1} /\ s = 2 * (s \div 2) + (s % 2) /\ s \div 2 \in Nat
  BY <1>1, SMTT(20)
<1>3. s \div 2 < Versions  BY <1>1, <1>2
<1> QED  BY <1>1, <1>2, <1>3 DEF Version

LEMMA NextWord ==
    ASSUME NEW s \in 0 .. (SctxSeqMod - 1), NEW t, t = (s + 1) % SctxSeqMod
    PROVE  /\ t \in 0 .. (SctxSeqMod - 1)
           /\ s % 2 = 0 => t % 2 = 1 /\ Version(t) = Version(s)
           /\ s % 2 # 0 => t % 2 = 0 /\ Version(t) = (Version(s) + 1) % Versions
           /\ (Version(s) + 1) % Versions = IF Version(s) + 1 = Versions THEN 0 ELSE Version(s) + 1
           /\ (Version(s) + 1) % Versions \in 0 .. (Versions - 1)
<1>1. /\ Versions \in Nat /\ Versions > 1 /\ SctxSeqMod \in Nat /\ SctxSeqMod > 1
      /\ SctxSeqMod = 2 * Versions
  BY SnapshotAssumption DEF SctxSeqMod
<1>2. t = (IF s + 1 = SctxSeqMod THEN 0 ELSE s + 1) /\ t \in 0 .. (SctxSeqMod - 1)
  BY <1>1, After
<1>3. /\ Version(s) \in 0 .. (Versions - 1) /\ s % 2 \in {0, 1} /\ s = 2 * Version(s) + (s % 2)
      /\ Version(t) \in 0 .. (Versions - 1) /\ t % 2 \in {0, 1} /\ t = 2 * Version(t) + (t % 2)
  BY <1>2, WordFact
<1>4. /\ (Version(s) + 1) % Versions = IF Version(s) + 1 = Versions THEN 0 ELSE Version(s) + 1
      /\ (Version(s) + 1) % Versions \in 0 .. (Versions - 1)
  BY <1>1, <1>3, After
<1> DEFINE vs == Version(s)  vt == Version(t)  ps == s % 2  pt == t % 2
<1>5. /\ vs \in 0 .. (Versions - 1) /\ ps \in {0, 1} /\ s = 2 * vs + ps
      /\ vt \in 0 .. (Versions - 1) /\ pt \in {0, 1} /\ t = 2 * vt + pt
  BY <1>3
<1> HIDE DEF vs, vt, ps, pt
<1>6. ps = 0 => pt = 1 /\ vt = vs  BY <1>1, <1>2, <1>5
<1>7. ps # 0 => pt = 0 /\ vt = (IF vs + 1 = Versions THEN 0 ELSE vs + 1)
  BY <1>1, <1>2, <1>5
<1> QED  BY <1>2, <1>4, <1>6, <1>7 DEF vs, vt, ps, pt

LEMMA SnapInitially == SnapInit => SnapInv
<1> SUFFICES ASSUME SnapInit PROVE SnapInv
  OBVIOUS
<1>1. Versions \in Nat /\ Versions > 1  BY SnapshotAssumption
<1>2. sseq = 2 /\ sseq \in 0 .. (SctxSeqMod - 1) /\ sv1 \in 0 .. (SctxSeqMod - 1)
  BY <1>1 DEF SnapInit, SctxSeqMod
<1>3. Version(sseq) = 1 /\ sseq % 2 = 0
  BY <1>2, WordFact
<1>4. sfield = <<1, 1>> /\ sout = <<0, 0>> /\ sw = "idle" /\ sr = "idle" /\ missed = 0
  BY DEF SnapInit
<1>5. {sfield, sout} \subseteq [1 .. 2 -> 0 .. (Versions - 1)]
  BY <1>1, <1>4
<1> QED  BY <1>1, <1>2, <1>3, <1>4, <1>5
         DEF SnapInv, SnapTypeOK, FieldsInv, WordInv, Reading, CopyInv, NoTornSnapshot

LEMMA SnapStep == SnapInv /\ [SnapNext]_snapVars => SnapInv'
<1> SUFFICES ASSUME SnapInv, [SnapNext]_snapVars PROVE SnapInv'
  OBVIOUS
<1> DEFINE V == 0 .. (Versions - 1)
<1>1. /\ Versions \in Nat /\ Versions > 1 /\ missed \in V
      /\ sseq \in 0 .. (SctxSeqMod - 1) /\ sv1 \in 0 .. (SctxSeqMod - 1)
      /\ sfield \in [1 .. 2 -> V] /\ sout \in [1 .. 2 -> V]
      /\ (sw = "idle") = (sseq % 2 = 0)
      /\ sw \in {"idle", "f1", "f2", "even"} /\ sr \in {"idle", "r1", "r2", "check", "have"}
  BY SnapshotAssumption DEF SnapInv, SnapTypeOK
<1>2. /\ Version(sseq) \in V /\ sseq % 2 \in {0, 1} /\ sseq = 2 * Version(sseq) + (sseq % 2)
      /\ Version(sv1) \in V /\ sv1 % 2 \in {0, 1} /\ sv1 = 2 * Version(sv1) + (sv1 % 2)
  BY <1>1, WordFact
<1>3. NextVersion \in V /\ NextVersion = IF Version(sseq) + 1 = Versions THEN 0 ELSE Version(sseq) + 1
  BY <1>1, NextWord DEF NextVersion
<1>4. ASSUME PublishOdd PROVE SnapInv'
  <2>1. /\ sw = "idle" /\ sw' = "f1" /\ sseq' = (sseq + 1) % SctxSeqMod
        /\ missed' = (IF sr = "idle" THEN 0 ELSE missed + 1)
        /\ sr = "idle" \/ missed < Versions - 1
        /\ UNCHANGED <<sfield, sr, sv1, sout>>
    BY <1>4 DEF PublishOdd, Bump
  <2>2. sseq' \in 0 .. (SctxSeqMod - 1) /\ sseq' % 2 = 1 /\ Version(sseq') = Version(sseq)
    BY <1>1, <2>1, NextWord
  <2>3. SnapTypeOK'  BY <1>1, <2>1, <2>2 DEF SnapTypeOK
  <2>4. FieldsInv'  BY <2>1 DEF FieldsInv
  <2>5. WordInv'
    BY <1>1, <1>2, <2>1, <2>2 DEF SnapInv, WordInv, Reading, Completed, Version
  <2>6. CopyInv'
    BY <1>1, <2>1 DEF SnapInv, CopyInv, NoTornSnapshot, Version
  <2> QED  BY <2>3, <2>4, <2>5, <2>6 DEF SnapInv
<1>5. ASSUME PublishFirst \/ PublishLast PROVE SnapInv'
  <2>1. /\ sw \in {"f1", "f2"} /\ sw' = (IF sw = "f1" THEN "f2" ELSE "even")
        /\ sfield' = [sfield EXCEPT ![IF sw = "f1" THEN 1 ELSE 2] = NextVersion]
        /\ UNCHANGED <<sseq, sr, sv1, sout, missed>>
    BY <1>5 DEF PublishFirst, PublishLast, PublishField, NextVersion
  <2>2. sfield' \in [1 .. 2 -> V]
    BY <1>1, <1>3, <2>1, Halves
  <2>3. SnapTypeOK'  BY <1>1, <2>1, <2>2 DEF SnapTypeOK
  <2>4. FieldsInv'
    <3>1. CASE sw = "f1"
      <4>1. sfield'[1] = NextVersion  BY <1>1, <2>1, <3>1
      <4> QED  BY <2>1, <3>1, <4>1 DEF FieldsInv, NextVersion
    <3>2. CASE sw = "f2"
      <4>1. sfield[1] = NextVersion  BY <3>2 DEF SnapInv, FieldsInv
      <4>2. sfield'[1] = NextVersion /\ sfield'[2] = NextVersion
        BY <1>1, <2>1, <3>2, <4>1
      <4>3. sfield' = <<NextVersion, NextVersion>>
        BY <1>3, <2>2, <4>2, Halves
      <4> QED  BY <2>1, <3>2, <4>3 DEF FieldsInv, NextVersion
    <3> QED  BY <2>1, <3>1, <3>2
  <2>5. WordInv'
    BY <2>1 DEF SnapInv, WordInv, Reading, Completed, Version
  <2>6. CopyInv'  BY <2>1 DEF SnapInv, CopyInv, NoTornSnapshot
  <2> QED  BY <2>3, <2>4, <2>5, <2>6 DEF SnapInv
<1>6. ASSUME PublishEven PROVE SnapInv'
  <2>1. /\ sw = "even" /\ sw' = "idle" /\ sseq' = (sseq + 1) % SctxSeqMod
        /\ UNCHANGED <<sfield, sr, sv1, sout, missed>>
    BY <1>6 DEF PublishEven, Bump
  <2>2. /\ sseq' \in 0 .. (SctxSeqMod - 1) /\ sseq' % 2 = 0 /\ Version(sseq') = NextVersion
    BY <1>1, <2>1, NextWord DEF NextVersion
  <2>3. SnapTypeOK'  BY <1>1, <2>1, <2>2 DEF SnapTypeOK
  <2>4. FieldsInv'  BY <2>1, <2>2 DEF SnapInv, FieldsInv, Version, NextVersion
  <2>5. WordInv'
    BY <1>1, <1>2, <1>3, <2>1, <2>2 DEF SnapInv, WordInv, Reading, Completed, Version
  <2>6. CopyInv'  BY <2>1 DEF SnapInv, CopyInv, NoTornSnapshot
  <2> QED  BY <2>3, <2>4, <2>5, <2>6 DEF SnapInv
<1>7. ASSUME ReadBegin PROVE SnapInv'
  <2>1. /\ sr = "idle" /\ sseq % 2 = 0 /\ sv1' = sseq /\ sr' = "r1" /\ sw = "idle" /\ missed' = 0
        /\ UNCHANGED <<sseq, sfield, sw, sout>>
    BY <1>1, <1>7 DEF ReadBegin
  <2>2. SnapTypeOK'  BY <1>1, <2>1 DEF SnapTypeOK
  <2>3. FieldsInv'  BY <2>1 DEF SnapInv, FieldsInv, Version, NextVersion
  <2>4. WordInv'
    BY <1>1, <1>2, <2>1 DEF WordInv, Reading, Completed, Version
  <2>5. CopyInv'  BY <2>1 DEF CopyInv, NoTornSnapshot
  <2> QED  BY <2>2, <2>3, <2>4, <2>5 DEF SnapInv
<1>8. ASSUME ReadFirst \/ ReadLast PROVE SnapInv'
  <2>1. /\ sr \in {"r1", "r2"} /\ sr' = (IF sr = "r1" THEN "r2" ELSE "check")
        /\ sout' = [sout EXCEPT ![IF sr = "r1" THEN 1 ELSE 2] = sfield[IF sr = "r1" THEN 1 ELSE 2]]
        /\ UNCHANGED <<sseq, sfield, sw, sv1, missed>>
    BY <1>8 DEF ReadFirst, ReadLast, ReadField
  <2>2. sout' \in [1 .. 2 -> V]  BY <1>1, <2>1, Halves
  <2>3. SnapTypeOK'  BY <1>1, <2>1, <2>2 DEF SnapTypeOK
  <2>4. FieldsInv'  BY <2>1 DEF SnapInv, FieldsInv, Version, NextVersion
  <2>5. WordInv'
    BY <2>1 DEF SnapInv, WordInv, Reading, Completed, Version
  <2>6. CopyInv'
    <3>1. CASE missed # 0  BY <2>1, <3>1 DEF CopyInv, NoTornSnapshot
    <3>2. CASE missed = 0
      <4>1. sseq = sv1 /\ sw = "idle" /\ sfield = <<Version(sv1), Version(sv1)>>
        BY <2>1, <3>2 DEF SnapInv, WordInv, Reading, FieldsInv
      <4>2. sfield[1] = Version(sv1) /\ sfield[2] = Version(sv1)  BY <4>1
      <4>3. CASE sr = "r1"
        <5>1. sout'[1] = Version(sv1)  BY <1>1, <2>1, <4>2, <4>3
        <5> QED  BY <2>1, <4>3, <5>1 DEF CopyInv, NoTornSnapshot, Version
      <4>4. CASE sr = "r2"
        <5>1. sout[1] = Version(sv1)  BY <3>2, <4>4 DEF SnapInv, CopyInv
        <5>2. sout'[1] = Version(sv1) /\ sout'[2] = Version(sv1)
          BY <1>1, <2>1, <4>2, <4>4, <5>1
        <5>3. sout' = <<Version(sv1), Version(sv1)>>  BY <1>2, <2>2, <5>2, Halves
        <5> QED  BY <2>1, <4>4, <5>3 DEF CopyInv, NoTornSnapshot, Version
      <4> QED  BY <2>1, <4>3, <4>4
    <3> QED  BY <3>1, <3>2
  <2> QED  BY <2>3, <2>4, <2>5, <2>6 DEF SnapInv
<1>9. ASSUME ReadCheck PROVE SnapInv'
  <2>1. /\ sr = "check" /\ sr' = (IF sseq = sv1 THEN "have" ELSE "idle")
        /\ UNCHANGED <<sseq, sfield, sw, sv1, sout, missed>>
    BY <1>9 DEF ReadCheck, Stable
  <2>2. SnapTypeOK'  BY <1>1, <2>1 DEF SnapTypeOK
  <2>3. FieldsInv'  BY <2>1 DEF SnapInv, FieldsInv, Version, NextVersion
  <2>4. WordInv'  BY <2>1 DEF WordInv, Reading
  <2>5. ASSUME sseq = sv1 PROVE missed = 0
    <3>1. sv1 % 2 = 0 /\ Version(sseq) \in {Version(sv1) + Completed, Version(sv1) + Completed - Versions}
      BY <2>1 DEF SnapInv, WordInv, Reading
    <3>2. sw = "idle" /\ Completed = missed  BY <1>1, <2>5, <3>1 DEF Completed
    <3> QED  BY <1>1, <1>2, <2>5, <3>1, <3>2
  <2>6. CopyInv'
    BY <2>1, <2>5 DEF SnapInv, CopyInv, NoTornSnapshot, Version
  <2> QED  BY <2>2, <2>3, <2>4, <2>6 DEF SnapInv
<1>10. ASSUME ReadDone PROVE SnapInv'
  <2>1. sr = "have" /\ sr' = "idle" /\ missed' = 0 /\ UNCHANGED <<sseq, sfield, sw, sv1, sout>>
    BY <1>10 DEF ReadDone
  <2>2. SnapTypeOK'  BY <1>1, <2>1 DEF SnapTypeOK
  <2>3. FieldsInv' /\ WordInv' /\ CopyInv'
    BY <2>1 DEF SnapInv, FieldsInv, Version, NextVersion, WordInv, Reading, CopyInv, NoTornSnapshot
  <2> QED  BY <2>2, <2>3 DEF SnapInv
<1>11. CASE UNCHANGED snapVars
  BY <1>11 DEF snapVars, SnapInv, SnapTypeOK, FieldsInv, WordInv, Reading, Completed, CopyInv,
               NoTornSnapshot, Version, NextVersion
<1> QED  BY <1>4, <1>5, <1>6, <1>7, <1>8, <1>9, <1>10, <1>11 DEF SnapNext

(* Word, fields and locals of the snapshot keep their types, for every width of the word. *)
THEOREM SnapshotTypeCorrect == SnapSpec => []SnapTypeOK
<1>1. SnapInv => SnapTypeOK  BY DEF SnapInv
<1> QED  BY SnapInitially, SnapStep, <1>1, PTL DEF SnapSpec

(* A reader that is not kept waiting for a whole turn of the sequence word never returns a
   snapshot that mixes two publications: however many publications overtake it, the word it
   reads again differs from the one it took first. *)
THEOREM SnapshotsWhole == SnapSpec => []NoTornSnapshot
<1>1. SnapInv => NoTornSnapshot  BY DEF SnapInv, CopyInv
<1> QED  BY SnapInitially, SnapStep, <1>1, PTL DEF SnapSpec

------------------------------------------------------------------------------
(* The embedding region: whose request is where, and whose vector the page holds. *)

Preparing == er \in {"clear", "drain", "send"}
Asked     == er \in {"wait", "ready", "status", "seq", "len", "copy1", "copy2", "have"}

(* PA's number is new when it asks; its request is the last of the ring, and the last that
   PB takes, as long as PA waits. *)
RequestInv ==
    /\ Preparing => eseq \notin Outstanding /\ etext \in Texts
    /\ Asked => \A i \in DOMAIN ereq :
                   ereq[i].seq = eseq => ereq[i].text = etext /\ i = Len(ereq)
    /\ Asked /\ es # "idle" /\ ejob.seq = eseq => ejob.text = etext /\ ereq = <<>>

(* PB's order: the vector, if it could make one, then the header. *)
ServeInv ==
    /\ es = "vec2" => vec[1] = ejob.text
    /\ ejob.status = "OK" /\ es \in {"seq", "status", "len", "ready", "done"} =>
         vec = <<ejob.text, ejob.text>>
    /\ es \in {"status", "len", "ready", "done"} => hdr.seq = ejob.seq
    /\ es \in {"len", "ready", "done"} => hdr.status = ejob.status
    /\ es # "idle" => ejob.text \in Texts

(* A good status that PA reads, or has read, is of an answer since PA cleared the page: that
   vector is whole until PB makes the next. *)
WholeVector == \E t \in Texts : vec = <<t, t>>

WholeInv ==
    /\ es # "vec2" /\ er \notin {"idle", "clear"} /\ hdr.ready /\ hdr.status = "OK" => WholeVector
    /\ es # "vec2" /\ er \in {"seq", "len", "copy1", "copy2", "have"} => WholeVector

(* A page that is ready under PA's number holds PA's vector, if PB could make one, and PB has
   nothing left to do that could overwrite it. *)
AnswerInv ==
    /\ er \in {"drain", "send"} => ~(hdr.ready /\ hdr.seq = eseq)
    /\ Asked /\ hdr.ready /\ hdr.seq = eseq =>
         /\ FailedOwn \/ vec = <<etext, etext>>
         /\ ereq = <<>>
         /\ es # "idle" => ejob.seq = eseq /\ es \in {"status", "len", "ready", "done"}

(* What PA has checked stays so until it has copied. *)
CheckedInv ==
    /\ er \in {"status", "seq", "len", "copy1", "copy2", "have"} => hdr.ready
    /\ er \in {"len", "copy1", "copy2", "have"} => hdr.seq = eseq
    /\ er = "copy2" => ecopy[1] = vec[1]
    /\ er = "have" => ecopy = vec

EmbedInv == ErTypeOK /\ RequestInv /\ ServeInv /\ WholeInv /\ AnswerInv /\ CheckedInv

(* What a queue gives and takes. *)
LEMMA Queue ==
    ASSUME NEW S, NEW q \in Seq(S)
    PROVE  /\ \A r \in S :
                /\ Append(q, r) \in Seq(S) /\ Len(Append(q, r)) = Len(q) + 1
                /\ \A i \in DOMAIN Append(q, r) :
                     \/ i = Len(q) + 1 /\ Append(q, r)[i] = r
                     \/ i \in DOMAIN q /\ Append(q, r)[i] = q[i]
           /\ q # <<>> =>
                /\ Head(q) \in S /\ Head(q) = q[1] /\ 1 \in DOMAIN q
                /\ Tail(q) \in Seq(S) /\ Len(Tail(q)) = Len(q) - 1
                /\ Len(q) = 1 => Tail(q) = <<>>
                /\ \A i \in DOMAIN Tail(q) : i + 1 \in DOMAIN q /\ Tail(q)[i] = q[i + 1] /\ i \in Nat
<1>1. ASSUME NEW r \in S
      PROVE  /\ Append(q, r) \in Seq(S) /\ Len(Append(q, r)) = Len(q) + 1
             /\ \A i \in DOMAIN Append(q, r) :
                  \/ i = Len(q) + 1 /\ Append(q, r)[i] = r
                  \/ i \in DOMAIN q /\ Append(q, r)[i] = q[i]
  OBVIOUS
<1>2. ASSUME q # <<>>
      PROVE  /\ Head(q) \in S /\ Head(q) = q[1] /\ 1 \in DOMAIN q
             /\ Tail(q) \in Seq(S) /\ Len(Tail(q)) = Len(q) - 1
             /\ Len(q) = 1 => Tail(q) = <<>>
             /\ \A i \in DOMAIN Tail(q) : i + 1 \in DOMAIN q /\ Tail(q)[i] = q[i + 1] /\ i \in Nat
  <2>1. Len(q) \in Nat /\ Len(q) > 0 /\ DOMAIN q = 1 .. Len(q)  BY <1>2
  <2>2. Head(q) \in S /\ Head(q) = q[1] /\ 1 \in DOMAIN q  BY <1>2, <2>1
  <2>3. Tail(q) \in Seq(S) /\ Len(Tail(q)) = Len(q) - 1  BY <1>2
  <2>4. Len(q) = 1 => Tail(q) = <<>>
    <3>1. \A t \in Seq(S) : t # <<>> => Len(t) \in Nat \ {0}  BY EmptySeq, Zenon
    <3>2. Tail(q) # <<>> => Len(Tail(q)) \in Nat \ {0}  BY <2>3, <3>1, Zenon
    <3>3. Len(q) = 1 => Len(Tail(q)) = 0  BY <2>1, <2>3
    <3>4. 0 \notin Nat \ {0}  OBVIOUS
    <3> QED  BY <3>2, <3>3, <3>4, Zenon
  <2>5. \A i \in DOMAIN Tail(q) : i + 1 \in DOMAIN q /\ Tail(q)[i] = q[i + 1] /\ i \in Nat
    BY <1>2, <2>1, <2>3
  <2> QED  BY <2>2, <2>3, <2>4, <2>5
<1> QED  BY <1>1, <1>2

LEMMA EmbedInitially == ErInit => EmbedInv
<1> SUFFICES ASSUME ErInit PROVE EmbedInv
  OBVIOUS
<1>1. EmbedSeqMod \in Nat /\ EmbedSeqMod > 0 /\ EmbedQueue \in Nat
  BY EmbedAssumption
<1>2. /\ er = "idle" /\ es = "idle" /\ ereq = <<>> /\ edone = 0 /\ eseq = 0 /\ etext = NoText
      /\ hdr = [seq |-> 0, status |-> "ERR", len |-> 0, ready |-> FALSE]
      /\ vec = <<NoText, NoText>> /\ ecopy = <<NoText, NoText>>
      /\ ejob = [seq |-> 0, text |-> NoText, status |-> "OK"]
  BY DEF ErInit
<1>3. {vec, ecopy} \subseteq [1 .. 2 -> Texts \cup {NoText}]  BY <1>2
<1>4. ereq \in Seq(Requests) /\ Len(ereq) = 0  BY <1>2
<1>5. hdr \in [seq : 0 .. (EmbedSeqMod - 1), status : {"OK", "ERR"}, len : {0, 1}, ready : BOOLEAN]
  <2>1. 0 \in 0 .. (EmbedSeqMod - 1)  BY <1>1
  <2> QED  BY <1>2, <2>1
<1>6. ErTypeOK  BY <1>1, <1>2, <1>3, <1>4, <1>5 DEF ErTypeOK
<1>7. RequestInv /\ ServeInv /\ WholeInv /\ AnswerInv /\ CheckedInv
  BY <1>2 DEF RequestInv, Preparing, Asked, ServeInv, WholeInv, WholeVector, AnswerInv,
         FailedOwn, CheckedInv
<1> QED  BY <1>6, <1>7 DEF EmbedInv

(* The steps of PA. *)
LEMMA EmbedPaStep ==
    ASSUME EmbedInv,
           PaAsk \/ PaClear \/ PaDrain \/ PaSend \/ PaDone \/ PaEmbedTimeout \/ PaReady
             \/ PaStatus \/ PaSeq \/ PaLen \/ PaCopy1 \/ PaCopy2 \/ PaUse
    PROVE  EmbedInv'
<1> USE DEF EmbedInv
<1>1. /\ EmbedSeqMod \in Nat /\ EmbedSeqMod > 1 /\ EmbedQueue \in Nat \ {0}
      /\ {vec, ecopy} \subseteq [1 .. 2 -> Texts \cup {NoText}]
      /\ ereq \in Seq(Requests) /\ Len(ereq) <= EmbedQueue /\ edone \in 0 .. EmbedQueue
      /\ eseq \in 0 .. (EmbedSeqMod - 1) /\ etext \in Texts \cup {NoText}
  BY EmbedAssumption DEF ErTypeOK
<1>2. ASSUME PaAsk PROVE EmbedInv'
  <2>1. /\ er = "idle" /\ NewSeq \notin Outstanding /\ eseq' = NewSeq /\ etext' \in Texts
        /\ er' = "clear" /\ ecopy' = <<NoText, NoText>>
        /\ UNCHANGED <<hdr, vec, ereq, edone, es, ejob>>
    BY <1>2 DEF PaAsk, erPB
  <2>2. eseq' \in 0 .. (EmbedSeqMod - 1)  BY <1>1, <2>1, After DEF NewSeq
  <2>3. ecopy' \in [1 .. 2 -> Texts \cup {NoText}]  BY <2>1
  <2>4. ErTypeOK'  BY <1>1, <2>1, <2>2, <2>3 DEF ErTypeOK
  <2>5. RequestInv'
    BY <2>1 DEF RequestInv, Preparing, Asked, Outstanding
  <2>6. ServeInv' /\ WholeInv' /\ AnswerInv' /\ CheckedInv'
    BY <2>1 DEF ServeInv, WholeInv, WholeVector, AnswerInv, FailedOwn, Asked, CheckedInv
  <2> QED  BY <2>4, <2>5, <2>6
<1>3. ASSUME PaClear PROVE EmbedInv'
  <2>1. /\ er = "clear" /\ er' = "drain" /\ hdr' = [hdr EXCEPT !.ready = FALSE]
        /\ UNCHANGED <<vec, ereq, edone, eseq, etext, ecopy, es, ejob>>
    BY <1>3 DEF PaClear, erPB
  <2>2. ErTypeOK'  BY <2>1 DEF ErTypeOK
  <2>3. ~hdr'.ready /\ hdr'.seq = hdr.seq  BY <2>1 DEF ErTypeOK
  <2>4. RequestInv'  BY <2>1 DEF RequestInv, Preparing, Asked, Outstanding
  <2>5. ServeInv'  BY <2>1, <2>3 DEF ServeInv
  <2>6. WholeInv' /\ AnswerInv' /\ CheckedInv'
    BY <2>1, <2>3 DEF WholeInv, WholeVector, AnswerInv, FailedOwn, Asked, CheckedInv
  <2> QED  BY <2>2, <2>4, <2>5, <2>6
<1>4. ASSUME PaDrain PROVE EmbedInv'
  <2>1. /\ er = "drain" /\ er' = "send" /\ edone' = 0
        /\ UNCHANGED <<hdr, vec, ereq, eseq, etext, ecopy, es, ejob>>
    BY <1>4 DEF PaDrain, erPB
  <2>2. ErTypeOK'  BY <1>1, <2>1 DEF ErTypeOK
  <2>3. RequestInv' /\ ServeInv'
    BY <2>1 DEF RequestInv, Preparing, Asked, Outstanding, ServeInv
  <2>4. WholeInv' /\ AnswerInv' /\ CheckedInv'
    BY <2>1 DEF WholeInv, WholeVector, AnswerInv, FailedOwn, Asked, CheckedInv
  <2> QED  BY <2>2, <2>3, <2>4
<1>5. ASSUME PaSend PROVE EmbedInv'
  <2>1. /\ er = "send" /\ UNCHANGED <<hdr, vec, edone, eseq, etext, ecopy, es, ejob>>
        /\ \/ Len(ereq) < EmbedQueue /\ er' = "wait"
              /\ ereq' = Append(ereq, [seq |-> eseq, text |-> etext])
           \/ UNCHANGED ereq /\ er' = "idle"
    BY <1>5 DEF PaSend, erPB
  <2>2. CASE UNCHANGED ereq /\ er' = "idle"
    <3>1. ErTypeOK'  BY <2>1, <2>2 DEF ErTypeOK
    <3>2. RequestInv' /\ ServeInv' /\ WholeInv' /\ AnswerInv' /\ CheckedInv'
      BY <2>1, <2>2 DEF RequestInv, Preparing, Asked, ServeInv, WholeInv, WholeVector, AnswerInv,
         FailedOwn, CheckedInv
    <3> QED  BY <3>1, <3>2
  <2>3. CASE Len(ereq) < EmbedQueue /\ er' = "wait"
             /\ ereq' = Append(ereq, [seq |-> eseq, text |-> etext])
    <3>0. etext \in Texts  BY <2>1 DEF RequestInv, Preparing
    <3>1. [seq |-> eseq, text |-> etext] \in Requests  BY <1>1, <3>0 DEF Requests
    <3>2. /\ ereq' \in Seq(Requests) /\ Len(ereq') = Len(ereq) + 1
          /\ \A i \in DOMAIN ereq' :
               \/ i = Len(ereq') /\ ereq'[i] = [seq |-> eseq, text |-> etext]
               \/ i \in DOMAIN ereq /\ ereq'[i] = ereq[i]
      BY <1>1, <2>3, <3>1, Queue
    <3>3. ErTypeOK'  BY <1>1, <2>1, <2>3, <3>2 DEF ErTypeOK
    <3>4. eseq \notin Outstanding  BY <2>1 DEF RequestInv, Preparing
    <3>5. /\ \A i \in DOMAIN ereq : ereq[i].seq # eseq
          /\ es # "idle" => ejob.seq # eseq
      BY <3>4 DEF Outstanding
    <3>6. RequestInv'
      BY <2>1, <2>3, <3>2, <3>5 DEF RequestInv, Preparing, Asked
    <3>7. ServeInv' /\ WholeInv' /\ AnswerInv' /\ CheckedInv'
      BY <2>1, <2>3 DEF ServeInv, WholeInv, WholeVector, AnswerInv, FailedOwn, Asked, CheckedInv
    <3> QED  BY <3>3, <3>6, <3>7
  <2> QED  BY <2>1, <2>2, <2>3
<1>6. ASSUME PaDone PROVE EmbedInv'
  <2>1. /\ er = "wait" /\ er' = "ready" /\ edone > 0 /\ edone' = edone - 1
        /\ UNCHANGED <<hdr, vec, ereq, eseq, etext, ecopy, es, ejob>>
    BY <1>6 DEF PaDone, erPB
  <2>2. ErTypeOK'  BY <1>1, <2>1 DEF ErTypeOK
  <2>3. RequestInv' /\ ServeInv' /\ WholeInv' /\ AnswerInv' /\ CheckedInv'
    BY <2>1 DEF RequestInv, Preparing, Asked, ServeInv, WholeInv, WholeVector, AnswerInv,
         FailedOwn, CheckedInv
  <2> QED  BY <2>2, <2>3
<1>7. ASSUME PaEmbedTimeout \/ PaUse PROVE EmbedInv'
  <2>1. /\ er' = "idle" /\ UNCHANGED <<hdr, vec, ereq, edone, eseq, etext, ecopy, es, ejob>>
    BY <1>7 DEF PaEmbedTimeout, PaUse, erPB
  <2>2. ErTypeOK'  BY <2>1 DEF ErTypeOK
  <2>3. RequestInv' /\ ServeInv' /\ WholeInv' /\ AnswerInv' /\ CheckedInv'
    BY <2>1 DEF RequestInv, Preparing, Asked, ServeInv, WholeInv, WholeVector, AnswerInv,
         FailedOwn, CheckedInv
  <2> QED  BY <2>2, <2>3
<1>8. ASSUME PaReady \/ PaStatus \/ PaSeq \/ PaLen PROVE EmbedInv'
  <2>1. /\ \/ er' = "idle"
           \/ er = "ready" /\ er' = "status" /\ hdr.ready
           \/ er = "status" /\ er' = "seq" /\ hdr.ready /\ hdr.status = "OK"
           \/ er = "seq" /\ er' = "len" /\ hdr.seq = eseq
           \/ er = "len" /\ er' = "copy1"
        /\ UNCHANGED <<hdr, vec, ereq, edone, eseq, etext, ecopy, es, ejob>>
    BY <1>8 DEF PaReady, PaStatus, PaSeq, PaLen, PaCheck, SeqMatches, erPB
  <2>2. ErTypeOK'  BY <2>1 DEF ErTypeOK
  <2>3. RequestInv' /\ ServeInv' /\ AnswerInv'
    BY <2>1 DEF RequestInv, Preparing, Asked, ServeInv, AnswerInv, FailedOwn
  <2>4. WholeInv'  BY <2>1 DEF WholeInv, WholeVector
  <2>5. CheckedInv'  BY <2>1 DEF CheckedInv
  <2> QED  BY <2>2, <2>3, <2>4, <2>5
<1>9. ASSUME PaCopy1 \/ PaCopy2 PROVE EmbedInv'
  <2>1. /\ \/ er = "copy1" /\ er' = "copy2" /\ ecopy' = [ecopy EXCEPT ![1] = vec[1]]
           \/ er = "copy2" /\ er' = "have" /\ ecopy' = [ecopy EXCEPT ![2] = vec[2]]
        /\ UNCHANGED <<hdr, vec, ereq, edone, eseq, etext, es, ejob>>
    BY <1>9 DEF PaCopy1, PaCopy2, PaCopy, erPB
  <2>2. vec[1] \in Texts \cup {NoText} /\ vec[2] \in Texts \cup {NoText}
    BY <1>1
  <2>3. ecopy' \in [1 .. 2 -> Texts \cup {NoText}]
    BY <1>1, <2>1, <2>2, Halves
  <2>4. ErTypeOK'  BY <2>1, <2>3 DEF ErTypeOK
  <2>5. RequestInv' /\ ServeInv' /\ AnswerInv'
    BY <2>1 DEF RequestInv, Preparing, Asked, ServeInv, AnswerInv, FailedOwn
  <2>6. WholeInv'  BY <2>1 DEF WholeInv, WholeVector
  <2>7. CheckedInv'
    <3>1. CASE er = "copy1"
      <4>1. er' = "copy2" /\ ecopy'[1] = vec'[1]  BY <1>1, <2>1, <3>1
      <4> QED  BY <2>1, <4>1 DEF CheckedInv
    <3>2. CASE er = "copy2"
      <4>1. ecopy[1] = vec[1]  BY <3>2 DEF CheckedInv
      <4>2. er' = "have" /\ ecopy'[1] = vec[1] /\ ecopy'[2] = vec[2]
        BY <1>1, <2>1, <3>2, <4>1
      <4>3. ecopy' = vec  BY <1>1, <2>3, <4>2, Halves
      <4> QED  BY <2>1, <4>2, <4>3 DEF CheckedInv
    <3> QED  BY <2>1, <3>1, <3>2
  <2> QED  BY <2>4, <2>5, <2>6, <2>7
<1> QED  BY <1>2, <1>3, <1>4, <1>5, <1>6, <1>7, <1>8, <1>9

(* The steps of PB. *)
LEMMA EmbedPbStep ==
    ASSUME EmbedInv,
           PbTake \/ PbVec1 \/ PbVec2 \/ PbSeq \/ PbStatus \/ PbLen \/ PbReady \/ PbDone
             \/ PbRestart
    PROVE  EmbedInv'
<1> USE DEF EmbedInv
<1>1. /\ EmbedQueue \in Nat \ {0}
      /\ {vec, ecopy} \subseteq [1 .. 2 -> Texts \cup {NoText}]
      /\ ereq \in Seq(Requests) /\ Len(ereq) <= EmbedQueue /\ edone \in 0 .. EmbedQueue
      /\ ejob.text \in Texts \cup {NoText} /\ ejob.seq \in 0 .. (EmbedSeqMod - 1)
      /\ ejob.status \in {"OK", "ERR"}
      /\ hdr \in [seq : 0 .. (EmbedSeqMod - 1), status : {"OK", "ERR"}, len : {0, 1},
                  ready : BOOLEAN]
  BY EmbedAssumption DEF ErTypeOK
<1>2. ASSUME PbTake PROVE EmbedInv'
  <2>1. /\ es = "idle" /\ ereq # <<>> /\ ereq' = Tail(ereq)
        /\ UNCHANGED <<hdr, vec, edone, er, eseq, etext, ecopy>>
    BY <1>2 DEF PbTake, erPA
  <2>2. PICK o \in {"OK", "ERR"} :
          /\ ejob' = [seq |-> Head(ereq).seq, text |-> Head(ereq).text, status |-> o]
          /\ es' = IF o = "OK" THEN "vec1" ELSE "seq"
    BY <1>2 DEF PbTake
  <2>3. /\ Head(ereq) \in Requests /\ Head(ereq) = ereq[1] /\ 1 \in DOMAIN ereq
        /\ ereq' \in Seq(Requests) /\ Len(ereq') = Len(ereq) - 1
        /\ \A i \in DOMAIN ereq' : i + 1 \in DOMAIN ereq /\ ereq'[i] = ereq[i + 1] /\ i \in Nat
        /\ Len(ereq) = 1 => ereq' = <<>>
    BY <1>1, <2>1, Queue
  <2>4. /\ ejob'.seq = ereq[1].seq /\ ejob'.text = ereq[1].text /\ ejob'.status = o
        /\ ejob'.seq \in 0 .. (EmbedSeqMod - 1) /\ ejob'.text \in Texts
        /\ ejob' \in [seq : 0 .. (EmbedSeqMod - 1), text : Texts \cup {NoText},
                      status : {"OK", "ERR"}]
    BY <2>2, <2>3 DEF Requests
  <2>5. es' \in {"vec1", "seq"} /\ (ejob'.status = "OK" => es' = "vec1")
    BY <2>2, <2>4
  <2>6. Len(ereq) \in Nat /\ Len(ereq') <= EmbedQueue  BY <1>1, <2>3
  <2>7. ErTypeOK'  BY <2>1, <2>3, <2>4, <2>5, <2>6 DEF ErTypeOK
  <2>8. RequestInv'
    <3>1. Preparing => \A i \in DOMAIN ereq : ereq[i].seq # eseq
      BY DEF RequestInv, Outstanding
    <3>2. Preparing => eseq \notin Outstanding'
      BY <2>1, <2>3, <2>4, <3>1 DEF Outstanding
    <3>3. Preparing => etext \in Texts  BY DEF RequestInv
    <3>4. ASSUME Asked, NEW i \in DOMAIN ereq', ereq'[i].seq = eseq
          PROVE  ereq'[i].text = etext /\ i = Len(ereq')
      <4>1. i + 1 = Len(ereq) /\ ereq[i + 1].text = etext
        BY <2>3, <3>4 DEF RequestInv
      <4> QED  BY <2>3, <2>6, <4>1
    <3>5. ASSUME Asked, ejob'.seq = eseq PROVE ejob'.text = etext /\ ereq' = <<>>
      BY <2>3, <2>4, <3>5 DEF RequestInv
    <3> QED  BY <2>1, <3>2, <3>3, <3>4, <3>5 DEF RequestInv, Preparing, Asked
  <2>9. ServeInv'  BY <2>1, <2>4, <2>5 DEF ServeInv
  <2>10. WholeInv'  BY <2>1, <2>5 DEF WholeInv, WholeVector
  <2>11. AnswerInv' /\ CheckedInv'
    BY <2>1 DEF AnswerInv, FailedOwn, Asked, CheckedInv
  <2> QED  BY <2>7, <2>8, <2>9, <2>10, <2>11
<1>3. ASSUME PbVec1 \/ PbVec2 PROVE EmbedInv'
  <2>1. /\ \/ es = "vec1" /\ es' = "vec2" /\ vec' = [vec EXCEPT ![1] = ejob.text]
           \/ es = "vec2" /\ es' = "seq" /\ vec' = [vec EXCEPT ![2] = ejob.text]
        /\ UNCHANGED <<hdr, ereq, edone, ejob, er, eseq, etext, ecopy>>
    BY <1>3 DEF PbVec1, PbVec2, PbVec, erPA
  <2>2. vec' \in [1 .. 2 -> Texts \cup {NoText}]  BY <1>1, <2>1, Halves
  <2>3. ErTypeOK'  BY <2>1, <2>2 DEF ErTypeOK
  <2>4. RequestInv'  BY <2>1 DEF RequestInv, Preparing, Asked, Outstanding
  <2>5. ServeInv'
    <3>1. CASE es = "vec1"
      <4>1. vec'[1] = ejob.text  BY <1>1, <2>1, <3>1
      <4> QED  BY <2>1, <3>1, <4>1 DEF ServeInv
    <3>2. CASE es = "vec2"
      <4>1. vec[1] = ejob.text  BY <3>2 DEF ServeInv
      <4>2. vec'[1] = ejob.text /\ vec'[2] = ejob.text  BY <1>1, <2>1, <3>2, <4>1
      <4>3. vec' = <<ejob.text, ejob.text>>  BY <1>1, <2>2, <4>2, Halves
      <4> QED  BY <2>1, <3>2, <4>3 DEF ServeInv
    <3> QED  BY <2>1, <3>1, <3>2
  <2>6. WholeInv'
    <3>1. CASE es = "vec1"  BY <2>1, <3>1 DEF WholeInv
    <3>2. CASE es = "vec2"
      <4>1. ejob.text \in Texts /\ vec' = <<ejob.text, ejob.text>>
        <5>1. vec[1] = ejob.text /\ ejob.text \in Texts  BY <3>2 DEF ServeInv
        <5>2. vec'[1] = ejob.text /\ vec'[2] = ejob.text  BY <1>1, <2>1, <3>2, <5>1
        <5> QED  BY <1>1, <2>2, <5>1, <5>2, Halves
      <4>2. WholeVector'  BY <4>1 DEF WholeVector
      <4> QED  BY <4>2 DEF WholeInv
    <3> QED  BY <2>1, <3>1, <3>2
  <2>7. ~(Asked /\ hdr.ready /\ hdr.seq = eseq)  BY <2>1 DEF AnswerInv
  <2>8. AnswerInv' /\ CheckedInv'
    <3>1. er \notin {"copy2", "have"}  BY <2>7 DEF CheckedInv, Asked
    <3> QED  BY <2>1, <2>7, <3>1 DEF AnswerInv, Asked, CheckedInv
  <2> QED  BY <2>3, <2>4, <2>5, <2>6, <2>8
<1>4. ASSUME PbSeq PROVE EmbedInv'
  <2>1. /\ es = "seq" /\ es' = "status" /\ hdr' = [hdr EXCEPT !.seq = ejob.seq]
        /\ UNCHANGED <<vec, ereq, edone, ejob, er, eseq, etext, ecopy>>
    BY <1>4 DEF PbSeq, PbSet, EchoedSeq, erPA
  <2>2. hdr'.seq = ejob.seq /\ hdr'.ready = hdr.ready /\ ErTypeOK'
    BY <1>1, <2>1 DEF ErTypeOK
  <2>3. RequestInv' /\ ServeInv'
    BY <2>1, <2>2 DEF RequestInv, Preparing, Asked, Outstanding, ServeInv
  <2>4. AnswerInv'
    <3>1. Preparing => ejob.seq # eseq  BY <2>1 DEF RequestInv, Outstanding
    <3>2. ASSUME Asked, ejob.seq = eseq PROVE ejob.text = etext /\ ereq = <<>>
      BY <2>1, <3>2 DEF RequestInv
    <3>3. ejob.status = "OK" => vec = <<ejob.text, ejob.text>>  BY <2>1 DEF ServeInv
    <3>4. ejob.status \in {"OK", "ERR"}  BY <1>1
    <3> QED  BY <2>1, <2>2, <3>1, <3>2, <3>3, <3>4 DEF AnswerInv, FailedOwn, Asked, Preparing
  <2>5. CheckedInv'
    <3>1. ~(Asked /\ hdr.ready /\ hdr.seq = eseq)  BY <2>1 DEF AnswerInv
    <3>2. er \notin {"len", "copy1", "copy2", "have"}
      BY <3>1 DEF CheckedInv, Asked
    <3> QED  BY <2>1, <2>2, <3>2 DEF CheckedInv
  <2>6. WholeInv'
    <3>1. hdr'.status = hdr.status  BY <1>1, <2>1
    <3> QED  BY <2>1, <2>2, <3>1 DEF WholeInv, WholeVector
  <2> QED  BY <2>2, <2>3, <2>4, <2>5, <2>6
<1>5. ASSUME PbStatus \/ PbLen PROVE EmbedInv'
  <2>1. /\ \/ /\ es = "status" /\ es' = "len"
              /\ hdr' = [hdr EXCEPT !.status = ejob.status]
           \/ /\ es = "len" /\ es' = "ready"
              /\ hdr' = [hdr EXCEPT !.len = IF ejob.status = "OK" THEN 1 ELSE 0]
        /\ UNCHANGED <<vec, ereq, edone, ejob, er, eseq, etext, ecopy>>
    BY <1>5 DEF PbStatus, PbLen, PbSet, erPA
  <2>2. hdr'.seq = hdr.seq /\ hdr'.ready = hdr.ready /\ ErTypeOK'
    BY <1>1, <2>1 DEF ErTypeOK
  <2>3. hdr'.status = ejob.status
    BY <1>1, <2>1 DEF ServeInv
  <2>4. RequestInv'  BY <2>1 DEF RequestInv, Preparing, Asked, Outstanding
  <2>5. ServeInv'  BY <2>1, <2>2, <2>3 DEF ServeInv
  <2>6. WholeInv'
    <3>1. ejob.status = "OK" => WholeVector'  BY <2>1 DEF ServeInv, WholeVector
    <3> QED  BY <2>1, <2>2, <2>3, <3>1 DEF WholeInv, WholeVector
  <2>7. AnswerInv' /\ CheckedInv'
    BY <2>1, <2>2 DEF AnswerInv, FailedOwn, Asked, CheckedInv
  <2> QED  BY <2>2, <2>4, <2>5, <2>6, <2>7
<1>6. ASSUME PbReady PROVE EmbedInv'
  <2>1. /\ es = "ready" /\ es' = "done" /\ hdr' = [hdr EXCEPT !.ready = TRUE]
        /\ UNCHANGED <<vec, ereq, edone, ejob, er, eseq, etext, ecopy>>
    BY <1>6 DEF PbReady, PbSet, erPA
  <2>2. hdr'.seq = hdr.seq /\ hdr'.ready /\ hdr'.status = hdr.status /\ ErTypeOK'
    BY <1>1, <2>1 DEF ErTypeOK
  <2>3. RequestInv' /\ ServeInv'
    BY <2>1, <2>2 DEF RequestInv, Preparing, Asked, Outstanding, ServeInv
  <2>4. /\ hdr.seq = ejob.seq /\ hdr.status = ejob.status /\ ejob.status \in {"OK", "ERR"}
        /\ ejob.status = "OK" => vec = <<ejob.text, ejob.text>>
        /\ ejob.text \in Texts
    BY <1>1, <2>1 DEF ServeInv
  <2>5. WholeInv'
    <3>1. ejob.status = "OK" => WholeVector'  BY <2>1, <2>4 DEF WholeVector
    <3> QED  BY <2>1, <2>2, <2>4, <3>1 DEF WholeInv, WholeVector
  <2>6. AnswerInv'
    <3>1. Preparing => ejob.seq # eseq  BY <2>1 DEF RequestInv, Outstanding
    <3>2. ASSUME Asked, ejob.seq = eseq PROVE ejob.text = etext /\ ereq = <<>>
      BY <2>1, <3>2 DEF RequestInv
    <3> QED  BY <2>1, <2>2, <2>4, <3>1, <3>2 DEF AnswerInv, FailedOwn, Asked, Preparing
  <2>7. CheckedInv'  BY <2>1, <2>2 DEF CheckedInv
  <2> QED  BY <2>2, <2>3, <2>5, <2>6, <2>7
<1>7. ASSUME PbDone PROVE EmbedInv'
  <2>1. /\ es = "done" /\ es' = "idle"
        /\ edone' = IF edone < EmbedQueue THEN edone + 1 ELSE edone
        /\ UNCHANGED <<hdr, vec, ereq, ejob, er, eseq, etext, ecopy>>
    BY <1>7 DEF PbDone, erPA
  <2>2. ErTypeOK'  BY <1>1, <2>1 DEF ErTypeOK
  <2>3. RequestInv' /\ ServeInv'
    BY <2>1 DEF RequestInv, Preparing, Asked, Outstanding, ServeInv
  <2>4. WholeInv' /\ AnswerInv' /\ CheckedInv'
    BY <2>1 DEF WholeInv, WholeVector, AnswerInv, FailedOwn, Asked, CheckedInv
  <2> QED  BY <2>2, <2>3, <2>4
<1>8. ASSUME PbRestart PROVE EmbedInv'
  <2>1. /\ er = "idle" /\ ereq' = <<>> /\ edone' = 0 /\ es' = "idle"
        /\ UNCHANGED <<hdr, vec, ejob, er, eseq, etext, ecopy>>
    BY <1>8 DEF PbRestart, erPA
  <2>2. ereq' \in Seq(Requests) /\ Len(ereq') = 0  BY <2>1
  <2>3. ErTypeOK'  BY <1>1, <2>1, <2>2 DEF ErTypeOK
  <2>4. RequestInv' /\ ServeInv' /\ WholeInv' /\ AnswerInv' /\ CheckedInv'
    BY <2>1 DEF RequestInv, Preparing, Asked, ServeInv, WholeInv, WholeVector, AnswerInv,
         FailedOwn, CheckedInv
  <2> QED  BY <2>3, <2>4
<1> QED  BY <1>2, <1>3, <1>4, <1>5, <1>6, <1>7, <1>8

LEMMA EmbedStep == EmbedInv /\ [ErNext]_erVars => EmbedInv'
<1> SUFFICES ASSUME EmbedInv, [ErNext]_erVars PROVE EmbedInv'
  OBVIOUS
<1>1. CASE ErNext  BY <1>1, EmbedPaStep, EmbedPbStep DEF ErNext
<1>2. CASE UNCHANGED erVars
  <2>1. UNCHANGED <<hdr, vec, ereq, edone, er, eseq, etext, ecopy, es, ejob>>
    BY <1>2 DEF erVars, erPA, erPB
  <2> QED
    BY <2>1 DEF EmbedInv, ErTypeOK, RequestInv, Preparing, Asked, Outstanding, ServeInv,
                WholeInv, WholeVector, AnswerInv, FailedOwn, CheckedInv
<1> QED  BY <1>1, <1>2

(* Region, rings and locals of the embedding transport keep their types, whether or not PB can
   embed every text. *)
THEOREM EmbedTypeCorrect == ErSpec => []ErTypeOK
<1>1. EmbedInv => ErTypeOK  BY DEF EmbedInv
<1> QED  BY EmbedInitially, EmbedStep, <1>1, PTL DEF ErSpec

(* A caller is never given half a vector, nor one that was made for another request unless PB
   fails the very request it makes, whatever timed out before and however the ring orders the
   requests PA gave up: for every width of the number and every ring. *)
THEOREM VectorIsOwn == ErSpec => []OwnVector
<1>1. EmbedInv => OwnVector
  <2> SUFFICES ASSUME EmbedInv, er = "have"
               PROVE  \E t \in Texts : ecopy = <<t, t>> /\ (t = etext \/ FailedOwn)
    BY DEF OwnVector
  <2>1. hdr.ready /\ hdr.seq = eseq /\ ecopy = vec  BY DEF EmbedInv, CheckedInv
  <2>2. es # "vec2" /\ (FailedOwn \/ vec = <<etext, etext>>)
    BY <2>1 DEF EmbedInv, AnswerInv, Asked
  <2>3. PICK t \in Texts : vec = <<t, t>>  BY <2>2 DEF EmbedInv, WholeInv, WholeVector
  <2>4. vec = <<etext, etext>> => t = etext
    <3> HAVE vec = <<etext, etext>>
    <3> QED  BY <2>3
  <2> QED  BY <2>1, <2>2, <2>3, <2>4
<1> QED  BY EmbedInitially, EmbedStep, <1>1, PTL DEF ErSpec

------------------------------------------------------------------------------
(* The preamble: what the pool holds and what PB has read of it. *)

Packing == qa \in {"bytes1", "bytes2", "len", "send"}
Sent    == qa \in {"wait", "answered"}

PackInv ==
    /\ Packing => qno \notin Unanswered
    /\ qa = "bytes2" => pbytes[1] = qpre
    /\ qa \in {"len", "send", "wait", "answered"} /\ qpre # Empty => pbytes = <<qpre, qpre>>
    /\ qa \in {"send", "wait", "answered"} => plen = IF qpre = Empty THEN 0 ELSE 1

ReadInv ==
    Sent /\ qb # "idle" /\ qjob = qno =>
      /\ qb = "len" => qgot = <<Empty, Empty>>
      /\ qb \in {"bytes1", "bytes2"} => qpre # Empty
      /\ qb = "bytes2" => qgot[1] = qpre
      /\ qb = "answer" => qgot = <<qpre, qpre>>

ReplyInv ==
    /\ Sent => \A i \in DOMAIN srep : srep[i].no = qno => srep[i].prompt = <<qpre, qpre>>
    /\ qa = "answered" => srep # <<>> /\ Head(srep).no = qno

PreInv == PreTypeOK /\ PackInv /\ ReadInv /\ ReplyInv

PreReplies == [no : 0 .. (QueryMod - 1), prompt : [1 .. 2 -> Preambles \cup {Empty}]]

LEMMA PreInitially == PreInit => PreInv
<1> SUFFICES ASSUME PreInit PROVE PreInv
  OBVIOUS
<1>1. QueryMod \in Nat /\ QueryMod > 1 /\ SctxQueue \in Nat \ {0}  BY PreambleAssumption
<1>2. /\ pbytes = <<Empty, Empty>> /\ plen = 0 /\ qa = "idle" /\ qno = 0 /\ qpre = Empty
      /\ squeue = <<>> /\ qb = "idle" /\ qjob = 0 /\ qgot = <<Empty, Empty>> /\ srep = <<>>
  BY DEF PreInit
<1>3. {pbytes, qgot} \subseteq [1 .. 2 -> Preambles \cup {Empty}]  BY <1>2
<1>4. /\ squeue \in Seq(0 .. (QueryMod - 1)) /\ Len(squeue) <= SctxQueue
      /\ srep \in Seq(PreReplies)
  BY <1>1, <1>2
<1>5. PreTypeOK  BY <1>1, <1>2, <1>3, <1>4 DEF PreTypeOK, PreReplies
<1>6. PackInv /\ ReadInv /\ ReplyInv
  BY <1>2 DEF PackInv, Packing, ReadInv, Sent, ReplyInv
<1> QED  BY <1>5, <1>6 DEF PreInv

LEMMA PreStep == PreInv /\ [PreNext]_preVars => PreInv'
<1> SUFFICES ASSUME PreInv, [PreNext]_preVars PROVE PreInv'
  OBVIOUS
<1> USE DEF PreInv
<1> DEFINE P == Preambles \cup {Empty}
<1>1. /\ QueryMod \in Nat /\ QueryMod > 1 /\ SctxQueue \in Nat \ {0}
      /\ pbytes \in [1 .. 2 -> P] /\ qgot \in [1 .. 2 -> P] /\ plen \in {0, 1}
      /\ qno \in 0 .. (QueryMod - 1) /\ qjob \in 0 .. (QueryMod - 1) /\ qpre \in P
      /\ squeue \in Seq(0 .. (QueryMod - 1)) /\ Len(squeue) <= SctxQueue
      /\ srep \in Seq(PreReplies) /\ Empty \in P
  BY PreambleAssumption DEF PreTypeOK, PreReplies
<1>2. ASSUME PackBegin PROVE PreInv'
  <2>1. /\ qa = "idle" /\ NextNo \notin Unanswered /\ qno' = NextNo /\ qpre' \in P
        /\ qa' = IF qpre' = Empty THEN "len" ELSE "bytes1"
        /\ UNCHANGED <<pbytes, plen, squeue, qb, qjob, qgot, srep>>
    BY <1>2 DEF PackBegin
  <2>2. qno' \in 0 .. (QueryMod - 1)  BY <1>1, <2>1, After DEF NextNo
  <2>3. PreTypeOK'  BY <2>1, <2>2 DEF PreTypeOK
  <2>4. PackInv'  BY <2>1 DEF PackInv, Packing, Unanswered
  <2>5. ReadInv' /\ ReplyInv'  BY <2>1 DEF ReadInv, Sent, ReplyInv
  <2> QED  BY <2>3, <2>4, <2>5
<1>3. ASSUME PackFirst \/ PackLast PROVE PreInv'
  <2>1. /\ \/ qa = "bytes1" /\ qa' = "bytes2" /\ pbytes' = [pbytes EXCEPT ![1] = qpre]
           \/ qa = "bytes2" /\ qa' = "len" /\ pbytes' = [pbytes EXCEPT ![2] = qpre]
        /\ UNCHANGED <<plen, qno, qpre, squeue, qb, qjob, qgot, srep>>
    BY <1>3 DEF PackFirst, PackLast, PackBytes
  <2>2. pbytes' \in [1 .. 2 -> P]  BY <1>1, <2>1, Halves
  <2>3. PreTypeOK'  BY <2>1, <2>2 DEF PreTypeOK
  <2>4. PackInv'
    <3>1. qno \notin Unanswered  BY <2>1 DEF PackInv, Packing
    <3>2. CASE qa = "bytes1"
      <4>1. pbytes'[1] = qpre  BY <1>1, <2>1, <3>2
      <4> QED  BY <2>1, <3>1, <3>2, <4>1 DEF PackInv, Packing, Unanswered
    <3>3. CASE qa = "bytes2"
      <4>1. pbytes[1] = qpre  BY <3>3 DEF PackInv
      <4>2. pbytes'[1] = qpre /\ pbytes'[2] = qpre  BY <1>1, <2>1, <3>3, <4>1
      <4>3. pbytes' = <<qpre, qpre>>  BY <1>1, <2>2, <4>2, Halves
      <4> QED  BY <2>1, <3>1, <3>3, <4>3 DEF PackInv, Packing, Unanswered
    <3> QED  BY <2>1, <3>2, <3>3
  <2>5. ReadInv' /\ ReplyInv'  BY <2>1 DEF ReadInv, Sent, ReplyInv
  <2> QED  BY <2>3, <2>4, <2>5
<1>4. ASSUME PackLen PROVE PreInv'
  <2>1. /\ qa = "len" /\ qa' = "send" /\ plen' = IF qpre = Empty THEN 0 ELSE 1
        /\ UNCHANGED <<pbytes, qno, qpre, squeue, qb, qjob, qgot, srep>>
    BY <1>4 DEF PackLen, Cleared
  <2>2. PreTypeOK'  BY <2>1 DEF PreTypeOK
  <2>3. PackInv'  BY <2>1 DEF PackInv, Packing, Unanswered
  <2>4. ReadInv' /\ ReplyInv'  BY <2>1 DEF ReadInv, Sent, ReplyInv
  <2> QED  BY <2>2, <2>3, <2>4
<1>5. ASSUME SendQuery PROVE PreInv'
  <2>1. /\ qa = "send" /\ qa' = "wait" /\ srep' = <<>>
        /\ squeue' = IF Len(squeue) < SctxQueue THEN Append(squeue, qno) ELSE squeue
        /\ UNCHANGED <<pbytes, plen, qno, qpre, qb, qjob, qgot>>
    BY <1>5 DEF SendQuery
  <2>2. squeue' \in Seq(0 .. (QueryMod - 1)) /\ Len(squeue') <= SctxQueue
    <3>1. CASE Len(squeue) < SctxQueue
      <4>1. Append(squeue, qno) \in Seq(0 .. (QueryMod - 1))
            /\ Len(Append(squeue, qno)) = Len(squeue) + 1
        BY <1>1, Queue
      <4> QED  BY <1>1, <2>1, <3>1, <4>1
    <3>2. CASE ~(Len(squeue) < SctxQueue)  BY <1>1, <2>1, <3>2
    <3> QED  BY <3>1, <3>2
  <2>3. srep' \in Seq(PreReplies)  BY <2>1
  <2>4. PreTypeOK'  BY <2>1, <2>2, <2>3 DEF PreTypeOK, PreReplies
  <2>5. PackInv'  BY <2>1 DEF PackInv, Packing
  <2>6. ReadInv'
    <3>1. qb # "idle" => qjob # qno  BY <2>1 DEF PackInv, Packing, Unanswered
    <3> QED  BY <2>1, <3>1 DEF ReadInv
  <2>7. ReplyInv'  BY <2>1 DEF ReplyInv
  <2> QED  BY <2>4, <2>5, <2>6, <2>7
<1>6. ASSUME TakeReply PROVE PreInv'
  <2>1. /\ qa = "wait" /\ srep # <<>>
        /\ \/ Head(srep).no = qno /\ qa' = "answered" /\ UNCHANGED srep
           \/ qa' = "wait" /\ srep' = Tail(srep)
        /\ UNCHANGED <<pbytes, plen, qno, qpre, squeue, qb, qjob, qgot>>
    BY <1>6 DEF TakeReply, Mine
  <2>2. /\ Tail(srep) \in Seq(PreReplies)
        /\ \A i \in DOMAIN Tail(srep) : i + 1 \in DOMAIN srep /\ Tail(srep)[i] = srep[i + 1]
    BY <1>1, <2>1, Queue
  <2>3. srep' \in Seq(PreReplies)  BY <1>1, <2>1, <2>2
  <2>4. PreTypeOK'  BY <2>1, <2>3 DEF PreTypeOK, PreReplies
  <2>5. PackInv' /\ ReadInv'  BY <2>1 DEF PackInv, Packing, ReadInv, Sent
  <2>6. ReplyInv'  BY <2>1, <2>2 DEF ReplyInv, Sent
  <2> QED  BY <2>4, <2>5, <2>6
<1>7. ASSUME NextQuery \/ GiveUp PROVE PreInv'
  <2>1. /\ qa' = "idle"
        /\ UNCHANGED srep \/ (srep # <<>> /\ srep' = Tail(srep))
        /\ UNCHANGED <<pbytes, plen, qno, qpre, squeue, qb, qjob, qgot>>
    BY <1>7 DEF NextQuery, GiveUp, ReplyInv
  <2>2. srep' \in Seq(PreReplies)
    <3>1. srep # <<>> => Tail(srep) \in Seq(PreReplies)  BY <1>1, Queue
    <3> QED  BY <1>1, <2>1, <3>1
  <2>3. PreTypeOK'  BY <2>1, <2>2 DEF PreTypeOK, PreReplies
  <2>4. PackInv' /\ ReadInv' /\ ReplyInv'
    BY <2>1 DEF PackInv, Packing, ReadInv, Sent, ReplyInv
  <2> QED  BY <2>3, <2>4
<1>8. ASSUME TakeQuery PROVE PreInv'
  <2>1. /\ qb = "idle" /\ squeue # <<>> /\ qjob' = Head(squeue) /\ squeue' = Tail(squeue)
        /\ qb' = "len" /\ qgot' = <<Empty, Empty>>
        /\ UNCHANGED <<pbytes, plen, qa, qno, qpre, srep>>
    BY <1>8 DEF TakeQuery
  <2>2. /\ qjob' \in 0 .. (QueryMod - 1) /\ qjob' = squeue[1] /\ 1 \in DOMAIN squeue
        /\ squeue' \in Seq(0 .. (QueryMod - 1)) /\ Len(squeue') = Len(squeue) - 1
        /\ \A i \in DOMAIN squeue' : i + 1 \in DOMAIN squeue /\ squeue'[i] = squeue[i + 1]
    BY <1>1, <2>1, Queue
  <2>3. qgot' \in [1 .. 2 -> P] /\ Len(squeue') <= SctxQueue
    BY <1>1, <2>1, <2>2
  <2>4. PreTypeOK'  BY <2>1, <2>2, <2>3 DEF PreTypeOK, PreReplies
  <2>5. PackInv'
    <3>1. Packing => \A i \in DOMAIN squeue : squeue[i] # qno
      BY DEF PackInv, Unanswered
    <3>2. Packing => qno \notin Unanswered'
      BY <2>1, <2>2, <3>1 DEF Unanswered
    <3> QED  BY <2>1, <3>2 DEF PackInv, Packing
  <2>6. ReadInv' /\ ReplyInv'  BY <2>1 DEF ReadInv, ReplyInv, Sent
  <2> QED  BY <2>4, <2>5, <2>6
<1>9. ASSUME GetLen PROVE PreInv'
  <2>1. /\ qb = "len" /\ qb' = IF plen = 0 THEN "answer" ELSE "bytes1"
        /\ UNCHANGED <<pbytes, plen, qa, qno, qpre, squeue, qjob, qgot, srep>>
    BY <1>9 DEF GetLen
  <2>2. PreTypeOK'  BY <2>1 DEF PreTypeOK
  <2>3. PackInv' /\ ReplyInv'
    BY <2>1 DEF PackInv, Packing, Unanswered, ReplyInv, Sent
  <2>4. Sent => plen = IF qpre = Empty THEN 0 ELSE 1  BY DEF PackInv, Sent
  <2>5. ReadInv'  BY <2>1, <2>4 DEF ReadInv, Sent
  <2> QED  BY <2>2, <2>3, <2>5
<1>10. ASSUME GetFirst \/ GetLast PROVE PreInv'
  <2>1. /\ \/ qb = "bytes1" /\ qb' = "bytes2" /\ qgot' = [qgot EXCEPT ![1] = pbytes[1]]
           \/ qb = "bytes2" /\ qb' = "answer" /\ qgot' = [qgot EXCEPT ![2] = pbytes[2]]
        /\ UNCHANGED <<pbytes, plen, qa, qno, qpre, squeue, qjob, srep>>
    BY <1>10 DEF GetFirst, GetLast, GetBytes
  <2>2. qgot' \in [1 .. 2 -> P]
    <3>1. pbytes[1] \in P /\ pbytes[2] \in P  BY <1>1
    <3> QED  BY <1>1, <2>1, <3>1, Halves
  <2>3. PreTypeOK'  BY <2>1, <2>2 DEF PreTypeOK
  <2>4. PackInv' /\ ReplyInv'
    BY <2>1 DEF PackInv, Packing, Unanswered, ReplyInv, Sent
  <2>5. ReadInv'
    <3> SUFFICES ASSUME Sent, qjob = qno PROVE ReadInv'
      BY <2>1 DEF ReadInv, Sent
    <3>1. qpre # Empty /\ pbytes = <<qpre, qpre>>
      BY <2>1 DEF ReadInv, PackInv, Sent
    <3>2. CASE qb = "bytes1"
      <4>1. qgot'[1] = qpre  BY <1>1, <2>1, <3>1, <3>2
      <4> QED  BY <2>1, <3>1, <3>2, <4>1 DEF ReadInv
    <3>3. CASE qb = "bytes2"
      <4>1. qgot[1] = qpre  BY <3>3 DEF ReadInv
      <4>2. qgot'[1] = qpre /\ qgot'[2] = qpre  BY <1>1, <2>1, <3>1, <3>3, <4>1
      <4>3. qgot' = <<qpre, qpre>>  BY <1>1, <2>2, <4>2, Halves
      <4> QED  BY <2>1, <3>1, <3>3, <4>3 DEF ReadInv
    <3> QED  BY <2>1, <3>2, <3>3
  <2> QED  BY <2>3, <2>4, <2>5
<1>11. ASSUME Answer PROVE PreInv'
  <2> DEFINE r == [no |-> qjob, prompt |-> qgot]
  <2>1. /\ qb = "answer" /\ qb' = "idle" /\ srep' = Append(srep, r)
        /\ UNCHANGED <<pbytes, plen, qa, qno, qpre, squeue, qjob, qgot>>
    BY <1>11 DEF Answer
  <2>2. r \in PreReplies /\ r.no = qjob /\ r.prompt = qgot
    BY <1>1 DEF PreReplies
  <2> HIDE DEF r
  <2>3. /\ srep' \in Seq(PreReplies)
        /\ \A i \in DOMAIN srep' : srep'[i] = r \/ (i \in DOMAIN srep /\ srep'[i] = srep[i])
    BY <1>1, <2>1, <2>2, Queue
  <2>4. PreTypeOK'  BY <2>1, <2>3 DEF PreTypeOK, PreReplies
  <2>5. PackInv' /\ ReadInv'
    BY <2>1 DEF PackInv, Packing, Unanswered, ReadInv, Sent
  <2>6. Sent /\ r.no = qno => r.prompt = <<qpre, qpre>>
    BY <2>1, <2>2 DEF ReadInv
  <2>7. srep # <<>> => srep' # <<>> /\ Head(srep') = Head(srep)
    <3>1. ASSUME srep # <<>> PROVE srep'[1] = srep[1] /\ Len(srep') > 0
      BY <1>1, <2>1, <2>2, <3>1
    <3>2. ASSUME srep # <<>> PROVE srep' # <<>>  BY <3>1, <3>2
    <3>3. ASSUME srep # <<>> PROVE Head(srep) = srep[1] /\ Head(srep') = srep'[1]
      BY <1>1, <2>3, <3>2, <3>3, Queue
    <3> QED  BY <3>1, <3>2, <3>3
  <2>8. ReplyInv'  BY <2>1, <2>3, <2>6, <2>7 DEF ReplyInv, Sent
  <2> QED  BY <2>4, <2>5, <2>8
<1>12. CASE UNCHANGED preVars
  <2>1. UNCHANGED <<pbytes, plen, qa, qno, qpre, squeue, qb, qjob, qgot, srep>>
    BY <1>12 DEF preVars
  <2> QED
    BY <2>1 DEF PreTypeOK, PackInv, Packing, Unanswered, ReadInv, Sent, ReplyInv
<1> QED  BY <1>2, <1>3, <1>4, <1>5, <1>6, <1>7, <1>8, <1>9, <1>10, <1>11, <1>12 DEF PreNext

(* Pool, rings and locals of the preamble keep their types. *)
THEOREM PreambleTypeCorrect == PreSpec => []PreTypeOK
<1>1. PreInv => PreTypeOK  BY DEF PreInv
<1> QED  BY PreInitially, PreStep, <1>1, PTL DEF PreSpec

(* The preamble an answer was made of is the one packed for its query. *)
LEMMA PreImplies == ASSUME PreInv PROVE OwnPreamble
<1> SUFFICES ASSUME qa = "answered" PROVE Head(srep).prompt = <<qpre, qpre>>
  BY DEF OwnPreamble
<1>1. srep \in Seq(PreReplies) /\ srep # <<>> /\ Head(srep).no = qno
  BY DEF PreInv, PreTypeOK, PreReplies, ReplyInv
<1>2. 1 \in DOMAIN srep /\ Head(srep) = srep[1]  BY <1>1, Queue
<1> QED  BY <1>1, <1>2 DEF PreInv, ReplyInv, Sent

(* An answer that is used was made from the preamble packed for its query, whole, and from
   none when there was none, although PB reads the bytes in place while PA may be rewriting
   them: a query PB takes up after PA gave it up may read a mixture, and its reply bears a
   number PA does not wait for. *)
THEOREM PreambleIsOwn == PreSpec => []OwnPreamble
BY PreInitially, PreStep, PreImplies, PTL DEF PreSpec

------------------------------------------------------------------------------
(* The pages together: every step is a step of one part and a stutter of the others. *)

LEMMA PagesStep ==
    ASSUME [PagesNext]_pageVars
    PROVE  /\ [Next]_vars /\ [ErNext]_erVars /\ [SnapNext]_snapVars /\ [PreNext]_preVars
           /\ [NvNext]_nvVars
<1>1. CASE RingPart(Next)  BY <1>1 DEF RingPart
<1>2. CASE EmbedPart(ErNext)  BY <1>2 DEF EmbedPart
<1>3. CASE SnapshotPart(SnapNext)  BY <1>3 DEF SnapshotPart
<1>4. CASE PreamblePart(PreNext)  BY <1>4 DEF PreamblePart
<1>5. CASE DrivePart(NvNext)  BY <1>5 DEF DrivePart
<1>6. CASE UNCHANGED pageVars  BY <1>6 DEF pageVars
<1> QED  BY <1>1, <1>2, <1>3, <1>4, <1>5, <1>6 DEF PagesNext

PagesInv == TypeOK /\ EmbedInv /\ SnapInv /\ PreInv /\ NvTypeOK

LEMMA PagesInvariance == PagesSpec => []PagesInv
<1>1. PagesInit => PagesInv
  BY InitTypeOK, EmbedInitially, SnapInitially, PreInitially, InitType DEF PagesInit, PagesInv
<1>2. PagesInv /\ [PagesNext]_pageVars => PagesInv'
  BY PagesStep, NextTypeOK, EmbedStep, SnapStep, PreStep, NextType DEF PagesInv
<1> QED  BY <1>1, <1>2, PTL DEF PagesSpec

(* Every variable in the memory PA shares keeps its type: the rings, the embedding page and the  *)
(* two pages of context it shares with PB, and the queue pair it shares with the NVMe drive.    *)
THEOREM PageTypesCorrect == PagesSpec => []PageTypes
<1>1. PagesInv => PageTypes
  BY DEF PagesInv, EmbedInv, SnapInv, PreInv, PageTypes
<1> QED  BY PagesInvariance, <1>1, PTL

(* For every width of the numbers, every queue of requests and all contents, the prompt of an     *)
(* answer that is used was made of one publication of the state, whole, and of the preamble packed *)
(* for that very query (handle_query, inference_server.c; shared_context.c; main_x86.c).         *)
THEOREM ContextStaysIntact == PagesSpec => []ContextIntact
<1>1. PagesInv => ContextIntact
  BY PreImplies DEF PagesInv, SnapInv, CopyInv, ContextIntact
<1> QED  BY PagesInvariance, <1>1, PTL
=============================================================================
