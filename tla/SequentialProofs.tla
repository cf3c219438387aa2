-------------------------- MODULE SequentialProofs --------------------------
(***************************************************************************)
(* Proofs about two sequential programs: CacheSim, for caches of every     *)
(* size and every trace, and UInt256, for words and values of any width.   *)
(* The two share no definition; the proofs about UInt256 are the second    *)
(* half.                                                                   *)
(*                                                                         *)
(* CacheSim.  A block is never held twice because the valid slots of a set *)
(* are always its first ones: the loop of handle_address, which stops at   *)
(* the first invalid slot, has then seen every block of the set.  The      *)
(* timestamps implement ReplacementOrder, for both policies.  The abstract *)
(* order of a set counts stamps (Rank).  Here it is a sequence of slots    *)
(* with ascending stamps, of which there is one in every state (Listed): a *)
(* slot that is used or filled gets the latest stamp and goes from its     *)
(* place to the end.  No induction over sets is needed, as each step makes *)
(* the next sequence from the last one.                                    *)
(*                                                                         *)
(* UInt256.  The functions are followed from word to word, or from digit   *)
(* to digit, by Climb: a set of numbers that holds 0 and with each number  *)
(* the next one holds them all, as it would lack a least one otherwise.    *)
(* What the words below k of a sum lack is the carries that were lost      *)
(* there (Lack), and these are exactly those of LostCarry.  A rotation is  *)
(* a Turn of the number, by whole words and then by bits, and two turns    *)
(* are one.  Strings of digits are numerals: to put two of them together   *)
(* is to multiply and to add (NumeralConcat).                              *)
(***************************************************************************)
EXTENDS CacheSim, UInt256, FiniteSetTheorems, SequenceTheorems, WellFoundedInduction, TLAPS

\* No slot of a set is filled before the ones in front of it.
Prefix ==
  \A i \in Sets : \A j \in Valid(i), k \in Slots : k < j => k \in Valid(i)

IInv == TypeOK /\ Prefix /\ OneCopy

-----------------------------------------------------------------------------
(* The loop over the slots *)

\* calc_index_bits names a set.
LEMMA IndexInSets ==
  ASSUME NEW a \in Addresses
  PROVE  calc_index_bits(a) \in Sets
<1>1. a \in Nat /\ slot_size \in Nat \ {0} /\ num_sets \in Nat \ {0}
  BY CacheAssumption
<1>2. a \div slot_size \in Int
  BY <1>1
<1>3. (a \div slot_size) % num_sets \in 0 .. num_sets - 1
  BY <1>1, <1>2
<1> QED BY <1>3 DEF calc_index_bits, Sets

\* A nonempty set of slots has a first one.
LEMMA FirstOfSlots ==
  ASSUME NEW S \in SUBSET Slots, S # {}
  PROVE  \E j \in S : \A k \in S : j <= k
<1>1. S \subseteq Nat
  BY CacheAssumption DEF Slots
<1>2. PICK j \in S : \A k \in S : ~(<<k, j>> \in OpToRel(<, Nat))
  BY <1>1, NatLessThanWellFounded, WFMin, Zenon
<1>3. \A k \in S : ~(k < j)
  BY <1>1, <1>2, Zenon DEF OpToRel
<1> QED BY <1>1, <1>3

\* The loop stops at the first hit or open space.
LEMMA FirstStopIs ==
  ASSUME NEW set, NEW tag, Stops(set, tag) # {}
  PROVE  /\ FirstStop(set, tag) \in Stops(set, tag)
         /\ \A k \in Stops(set, tag) : FirstStop(set, tag) <= k
<1>1. Stops(set, tag) \in SUBSET Slots
  BY DEF Stops
<1>2. \E j \in Stops(set, tag) : \A k \in Stops(set, tag) : j <= k
  BY <1>1, FirstOfSlots
<1> QED BY <1>2 DEF FirstStop

\* choose_eviction leaves a slot, and none has a lesser stamp.
LEMMA EvictionSlotIs ==
  ASSUME NEW set \in [Slots -> Slot], options \in Options
  PROVE  /\ EvictionSlot(set) \in Slots
         /\ \A k \in Slots : Stamp(set[EvictionSlot(set)]) <= Stamp(set[k])
<1> DEFINE st(k) == Stamp(set[k])
           V     == {st(k) : k \in Slots}
<1>1. \A k \in Slots : st(k) \in Nat
  BY DEF Slot, Stamp, Options
<1>2. V \subseteq Nat /\ V # {} /\ Slots # {}
  <2>1. 1 \in Slots
    BY CacheAssumption DEF Slots
  <2> QED BY <1>1, <2>1
<1> HIDE DEF st
<1>3. PICK v \in V : \A w \in V : ~(<<w, v>> \in OpToRel(<, Nat))
  BY <1>2, NatLessThanWellFounded, WFMin, Zenon
<1>4. v \in Nat /\ \A w \in V : w \in Nat /\ ~(w < v)
  BY <1>2, <1>3, Zenon DEF OpToRel
<1>5. \A k \in Slots : st(k) \in Nat /\ v <= st(k)
  BY <1>1, <1>4
<1> DEFINE S == {k \in Slots : st(k) = v}
<1>6. S \in SUBSET Slots /\ S # {}
  BY <1>3
<1>7. PICK j \in S : \A k \in S : j <= k
  BY <1>6, FirstOfSlots
<1>8. \A k \in Slots : st(j) < st(k) \/ (st(j) = st(k) /\ j <= k)
  BY <1>4, <1>5, <1>7
<1>9. \E l \in Slots : \A k \in Slots : st(l) < st(k) \/ (st(l) = st(k) /\ l <= k)
  BY <1>7, <1>8
<1>10. /\ EvictionSlot(set) \in Slots
       /\ \A k \in Slots : \/ st(EvictionSlot(set)) < st(k)
                           \/ st(EvictionSlot(set)) = st(k)
  BY <1>9, Zenon DEF EvictionSlot, st
<1>11. \A k \in Slots : st(EvictionSlot(set)) <= st(k)
  BY <1>5, <1>10
<1> QED BY <1>10, <1>11, Zenon DEF st

\* Where a block that missed goes: behind valid slots only, none of which holds it.
LEMMA FillSlotIs ==
  ASSUME IInv, NEW i \in Sets, NEW t, ~IsHit(sets[i], t)
  PROVE  /\ FillSlot(sets[i], t) \in Slots
         /\ \A k \in Slots : k < FillSlot(sets[i], t) => k \in Valid(i)
         /\ \A k \in Valid(i) : sets[i][k].tag # t
<1> DEFINE set == sets[i]
           j   == FillSlot(set, t)
<1>1. set \in [Slots -> Slot] /\ options \in Options
  BY DEF IInv, TypeOK
<1>2. CASE Stops(set, t) = {}
  <2>1. \A k \in Slots : k \in Valid(i) /\ sets[i][k].tag # t
    BY <1>2 DEF Stops, Valid
  <2>2. j \in Slots
    BY <1>1, <1>2, EvictionSlotIs DEF FillSlot
  <2> QED BY <2>1, <2>2 DEF Valid
<1>3. CASE Stops(set, t) # {}
  <2>1. /\ j = FirstStop(set, t)
        /\ j \in Stops(set, t)
        /\ \A k \in Stops(set, t) : j <= k
    BY <1>3, FirstStopIs DEF FillSlot
  <2>2. j \in Slots /\ j \notin Valid(i)
    BY <1>3, <2>1 DEF IsHit, Stops, Valid
  <2>3. \A k \in Slots : k < j => k \in Valid(i) /\ sets[i][k].tag # t
    BY <2>1, <2>2 DEF Stops, Valid, Slots
  <2>4. \A k \in Valid(i) : ~(j < k)
    BY <2>2 DEF IInv, Prefix
  <2>5. \A k \in Valid(i) : k < j
    BY <2>2, <2>4 DEF Valid, Slots
  <2> QED BY <2>2, <2>3, <2>5 DEF Valid
<1> QED BY <1>2, <1>3
-----------------------------------------------------------------------------
(* A block is held once *)

\* Slot j gets a block that no other slot has, behind valid slots only.
LEMMA KeepsOnce ==
  ASSUME IInv, NEW i \in Sets, NEW j \in Slots, NEW s \in Slot, s.valid,
         sets' = [sets EXCEPT ![i][j] = s],
         \A k \in Slots : k < j => k \in Valid(i),
         \A k \in Valid(i) : k # j => sets[i][k].tag # s.tag
  PROVE  /\ sets' \in [Sets -> [Slots -> Slot]]
         /\ Prefix'
         /\ OneCopy'
<1>1. sets \in [Sets -> [Slots -> Slot]]
  BY DEF IInv, TypeOK
<1>2. /\ sets' \in [Sets -> [Slots -> Slot]]
      /\ sets'[i][j] = s
      /\ \A l \in Sets, k \in Slots :
           l # i \/ k # j => sets'[l][k] = sets[l][k]
  BY <1>1
<1>3. /\ \A l \in Sets : l # i => Valid(l)' = Valid(l)
      /\ Valid(i)' = Valid(i) \cup {j}
  BY <1>2 DEF Valid
<1>4. Prefix'
  <2>1. SUFFICES ASSUME NEW l \in Sets, NEW m \in Valid(l)', NEW k \in Slots, k < m
                 PROVE  k \in Valid(l)'
    BY DEF Prefix
  <2>2. CASE l # i
    BY <1>3, <2>1, <2>2 DEF IInv, Prefix
  <2>3. CASE l = i
    BY <1>3, <2>1, <2>3 DEF IInv, Prefix
  <2> QED BY <2>2, <2>3
<1>5. OneCopy'
  <2>1. SUFFICES ASSUME NEW l \in Sets, NEW m \in Valid(l)', NEW k \in Valid(l)',
                        sets'[l][m].tag = sets'[l][k].tag
                 PROVE  m = k
    BY DEF OneCopy
  <2>2. m \in Slots /\ k \in Slots
    BY DEF Valid
  <2>3. CASE l # i
    BY <1>2, <1>3, <2>1, <2>2, <2>3 DEF IInv, OneCopy
  <2>4. CASE l = i
    BY <1>2, <1>3, <2>1, <2>2, <2>4 DEF IInv, OneCopy
  <2> QED BY <2>3, <2>4
<1> QED BY <1>2, <1>4, <1>5

\* An access is counted once, as a hit or not.
LEMMA CountsTyped ==
  ASSUME TypeOK, NEW is_load \in BOOLEAN, NEW hit \in BOOLEAN, CountAccess(is_load, hit)
  PROVE  /\ load_count' \in Nat /\ load_hit_count' \in 0 .. load_count'
         /\ store_count' \in Nat /\ store_hit_count' \in 0 .. store_count'
         /\ load_count' + store_count' <= MaxAccesses
<1>1. MaxAccesses \in Nat
  BY CacheAssumption
<1>2. load_count + store_count < MaxAccesses
  BY DEF CountAccess
<1>3. PICK n \in {0, 1} :
        \/ /\ load_count' = load_count + 1 /\ load_hit_count' = load_hit_count + n
           /\ store_count' = store_count /\ store_hit_count' = store_hit_count
        \/ /\ store_count' = store_count + 1 /\ store_hit_count' = store_hit_count + n
           /\ load_count' = load_count /\ load_hit_count' = load_hit_count
  BY DEF CountAccess
<1> QED BY <1>1, <1>2, <1>3 DEF TypeOK

LEMMA CyclesTyped ==
  ASSUME NEW is_load, NEW write_back
  PROVE  HitCycles(is_load) \in Nat /\ FillCycles(is_load, write_back) \in Nat
<1>1. slot_size \div 4 \in Nat
  BY CacheAssumption
<1> QED BY <1>1 DEF HitCycles, FillCycles, penalty, MEMORY_PENALTY
-----------------------------------------------------------------------------
(* The inductive invariant *)

LEMMA InitIInv == Init => IInv
<1> SUFFICES ASSUME Init PROVE IInv
  OBVIOUS
<1>1. [tag |-> 0, valid |-> FALSE, load_ts |-> 0, access_ts |-> 0, is_dirty |-> FALSE]
        \in Slot
  BY DEF Slot
<1>2. TypeOK
  BY <1>1, CacheAssumption DEF Init, TypeOK
<1>3. \A i \in Sets : Valid(i) = {}
  BY DEF Init, Valid
<1> QED BY <1>2, <1>3 DEF IInv, Prefix, OneCopy

LEMMA HitIInv ==
  ASSUME IInv, NEW is_load \in BOOLEAN, NEW a \in Addresses, Hit(is_load, a)
  PROVE  IInv'
<1> DEFINE i       == calc_index_bits(a)
           t       == calc_tag_bits(a)
           j       == FirstStop(sets[i], t)
           dirties == ~is_load /\ ~options.is_write_through
           s       == Touched(sets[i][j], dirties)
<1>1. i \in Sets /\ TypeOK
  BY IndexInSets DEF IInv
<1>2. j \in Valid(i) /\ j \in Slots /\ sets[i][j].tag = t
  BY FirstStopIs DEF Hit, IsHit, Stops, Valid
<1>3. s \in Slot /\ s.valid /\ s.tag = t
  <2>1. sets[i][j] \in Slot /\ TIME \in Nat /\ dirties \in BOOLEAN
    BY <1>1, <1>2 DEF TypeOK, Options
  <2>2. (sets[i][j].is_dirty \/ dirties) \in BOOLEAN
    OBVIOUS
  <2> QED BY <1>2, <2>1, <2>2 DEF Touched, Slot
<1>4. sets' = [sets EXCEPT ![i][j] = s]
  BY <1>1, <1>2 DEF TypeOK, Hit
<1>5. \A k \in Slots : k < j => k \in Valid(i)
  BY <1>1, <1>2 DEF IInv, Prefix
<1>6. \A k \in Valid(i) : k # j => sets[i][k].tag # s.tag
  BY <1>1, <1>2, <1>3 DEF IInv, OneCopy
<1> HIDE DEF i, j, s, t
<1>7. sets' \in [Sets -> [Slots -> Slot]] /\ Prefix' /\ OneCopy'
  BY <1>1, <1>2, <1>3, <1>4, <1>5, <1>6, KeepsOnce
<1>8. CountAccess(is_load, TRUE) /\ options' = options /\ TIME' = TIME + 1
  BY DEF Hit
<1>9. total_cycles' = total_cycles + HitCycles(is_load)
  BY DEF Hit
<1>10. dirtied' = dirtied \/ dirtied' = dirtied + 1
  BY <1>1 DEF Hit, TypeOK
<1>11. TypeOK'
  <2>1. /\ load_count' \in Nat /\ load_hit_count' \in 0 .. load_count'
        /\ store_count' \in Nat /\ store_hit_count' \in 0 .. store_count'
        /\ load_count' + store_count' <= MaxAccesses
    BY <1>1, <1>8, CountsTyped
  <2>2. total_cycles' \in Nat
    BY <1>1, <1>9, CyclesTyped DEF TypeOK
  <2> QED BY <1>1, <1>7, <1>8, <1>10, <2>1, <2>2 DEF TypeOK
<1> QED BY <1>7, <1>11 DEF IInv

LEMMA FillIInv ==
  ASSUME IInv, NEW is_load \in BOOLEAN, NEW a \in Addresses, Fill(is_load, a)
  PROVE  IInv'
<1> DEFINE i == calc_index_bits(a)
           t == calc_tag_bits(a)
           j == FillSlot(sets[i], t)
           s == SlotIn(sets[i][j], t)
<1>1. i \in Sets /\ TypeOK
  BY IndexInSets DEF IInv
<1>2. /\ j \in Slots
      /\ \A k \in Slots : k < j => k \in Valid(i)
      /\ \A k \in Valid(i) : sets[i][k].tag # t
  BY <1>1, FillSlotIs DEF Fill
<1>3. s \in Slot /\ s.valid /\ s.tag = t
  BY <1>1 DEF TypeOK, SlotIn, Slot
<1>4. sets' = [sets EXCEPT ![i][j] = s]
  BY <1>1, <1>2 DEF TypeOK, Fill
<1>5. PICK c \in Nat : total_cycles' = total_cycles + c
  BY CyclesTyped DEF Fill
<1> HIDE DEF i, j, s, t
<1>6. sets' \in [Sets -> [Slots -> Slot]] /\ Prefix' /\ OneCopy'
  BY <1>1, <1>2, <1>3, <1>4, KeepsOnce
<1>7. /\ CountAccess(is_load, FALSE)
      /\ options' = options /\ TIME' = TIME + 1 /\ dirtied' = dirtied
  BY DEF Fill
<1>8. TypeOK'
  <2>1. /\ load_count' \in Nat /\ load_hit_count' \in 0 .. load_count'
        /\ store_count' \in Nat /\ store_hit_count' \in 0 .. store_count'
        /\ load_count' + store_count' <= MaxAccesses
    BY <1>1, <1>7, CountsTyped
  <2> QED BY <1>1, <1>5, <1>6, <1>7, <2>1 DEF TypeOK
<1> QED BY <1>6, <1>8 DEF IInv

LEMMA BypassIInv ==
  ASSUME IInv, NEW a \in Addresses, Bypass(a)
  PROVE  IInv'
<1>1. /\ TypeOK /\ CountAccess(FALSE, FALSE)
      /\ options' = options /\ sets' = sets /\ TIME' = TIME /\ dirtied' = dirtied
      /\ total_cycles' = total_cycles + MEMORY_PENALTY
  BY DEF Bypass, IInv
<1>2. /\ load_count' \in Nat /\ load_hit_count' \in 0 .. load_count'
      /\ store_count' \in Nat /\ store_hit_count' \in 0 .. store_count'
      /\ load_count' + store_count' <= MaxAccesses
  BY <1>1, CountsTyped
<1>3. TypeOK'
  BY <1>1, <1>2 DEF TypeOK, MEMORY_PENALTY
<1> QED BY <1>1, <1>3 DEF IInv, Prefix, OneCopy, Valid

LEMMA StutterIInv ==
  ASSUME IInv, UNCHANGED vars
  PROVE  IInv'
BY DEF IInv, TypeOK, Prefix, OneCopy, Valid, vars, counts

LEMMA Inductive == Spec => []IInv
<1>1. Init => IInv
  BY InitIInv
<1>2. IInv /\ [Next]_vars => IInv'
  BY HitIInv, FillIInv, BypassIInv, StutterIInv DEF Next, handle_address
<1> QED BY <1>1, <1>2, PTL DEF Spec

\* Every slot, stamp and counter of the simulation has its type: hits never
\* exceed accesses, and main.cpp and handle_address count each access once.
THEOREM TypeCorrect == Spec => []TypeOK
<1>1. IInv => TypeOK
  BY DEF IInv
<1> QED BY <1>1, Inductive, PTL

\* A set never holds a block twice, though the loop of handle_address does not
\* look behind the first invalid slot.
THEOREM NeverTwice == Spec => []OneCopy
<1>1. IInv => OneCopy
  BY DEF IInv
<1> QED BY <1>1, Inductive, PTL

-----------------------------------------------------------------------------
(* An eviction takes the oldest block *)

\* The stamps of the blocks of a set are in the past, and no two are the same.
Stamps ==
  \A i \in Sets : \A j \in Valid(i) :
    /\ sets[i][j].load_ts < TIME /\ sets[i][j].access_ts < TIME
    /\ \A k \in Valid(i) : k # j => /\ sets[i][j].load_ts # sets[i][k].load_ts
                                  /\ sets[i][j].access_ts # sets[i][k].access_ts

\* A slot is used now, and came in now or before.
LEMMA KeepsStamps ==
  ASSUME IInv, Stamps, NEW i \in Sets, NEW j \in Slots, NEW s \in Slot,
         sets' = [sets EXCEPT ![i][j] = s], TIME' = TIME + 1,
         s.access_ts = TIME,
         s.load_ts = TIME \/ (j \in Valid(i) /\ s.load_ts = sets[i][j].load_ts)
  PROVE  Stamps'
<1>1. /\ sets \in [Sets -> [Slots -> Slot]] /\ TIME \in Nat
      /\ \A l \in Sets, k \in Slots :
           /\ sets[l][k].load_ts \in Nat
           /\ sets[l][k].access_ts \in Nat
  BY DEF IInv, TypeOK, Slot
<1>2. /\ sets'[i][j] = s
      /\ \A l \in Sets, k \in Slots :
           l # i \/ k # j => sets'[l][k] = sets[l][k]
  BY <1>1
<1>3. /\ \A l \in Sets : l # i => Valid(l)' = Valid(l)
      /\ Valid(i)' \subseteq Valid(i) \cup {j}
      /\ \A l \in Sets : Valid(l) \subseteq Slots
  BY <1>2 DEF Valid
<1>4. SUFFICES ASSUME NEW l \in Sets, NEW m \in Valid(l)'
               PROVE  /\ sets'[l][m].load_ts < TIME' /\ sets'[l][m].access_ts < TIME'
                      /\ \A k \in Valid(l)' : k # m =>
                           /\ sets'[l][m].load_ts # sets'[l][k].load_ts
                           /\ sets'[l][m].access_ts # sets'[l][k].access_ts
  BY DEF Stamps
<1>5. CASE l # i
  BY <1>1, <1>2, <1>3, <1>5 DEF Stamps
<1>6. CASE l = i
  <2>1. \A k \in Valid(i)' : k # j =>
          /\ k \in Valid(i) /\ sets'[i][k] = sets[i][k]
          /\ sets[i][k].load_ts < TIME /\ sets[i][k].access_ts < TIME
          /\ s.access_ts # sets[i][k].access_ts /\ s.load_ts # sets[i][k].load_ts
    BY <1>1, <1>2, <1>3 DEF Stamps
  <2>2. s.access_ts < TIME' /\ s.load_ts < TIME'
    BY <1>1 DEF Stamps
  <2>3. CASE m = j
    BY <1>2, <1>6, <2>1, <2>2, <2>3
  <2>4. CASE m # j
    <3>1. m \in Valid(i) /\ sets'[i][m] = sets[i][m]
      BY <1>6, <2>1, <2>4
    <3>2. sets[i][m].load_ts < TIME' /\ sets[i][m].access_ts < TIME'
      BY <1>1, <1>3, <2>1, <1>6, <2>4
    <3>3. ASSUME NEW k \in Valid(i)', k # m
          PROVE  /\ sets[i][m].load_ts # sets'[i][k].load_ts
                 /\ sets[i][m].access_ts # sets'[i][k].access_ts
      <4>1. CASE k = j
        BY <1>2, <1>6, <2>1, <2>4, <4>1
      <4>2. CASE k # j
        BY <2>1, <3>1, <3>3, <4>2 DEF Stamps
      <4> QED BY <4>1, <4>2
    <3> QED BY <1>6, <3>1, <3>2, <3>3
  <2> QED BY <2>3, <2>4
<1> QED BY <1>5, <1>6

LEMMA NextStamps ==
  ASSUME IInv, Stamps, [Next]_vars
  PROVE  Stamps'
<1>1. TypeOK
  BY DEF IInv
<1>2. ASSUME NEW is_load \in BOOLEAN, NEW a \in Addresses, Hit(is_load, a)
      PROVE  Stamps'
  <2> DEFINE i == calc_index_bits(a)
             t == calc_tag_bits(a)
             j == FirstStop(sets[i], t)
             d == ~is_load /\ ~options.is_write_through
             s == Touched(sets[i][j], d)
  <2>1. i \in Sets
    BY IndexInSets
  <2>2. j \in Valid(i) /\ j \in Slots
    BY <1>2, FirstStopIs DEF Hit, IsHit, Stops, Valid
  <2>3. s \in Slot
    <3>1. sets[i][j] \in Slot /\ TIME \in Nat
      BY <1>1, <2>1, <2>2 DEF TypeOK
    <3>2. (sets[i][j].is_dirty \/ d) \in BOOLEAN
      OBVIOUS
    <3> QED BY <3>1, <3>2 DEF Touched, Slot
  <2>4. s.access_ts = TIME /\ s.load_ts = sets[i][j].load_ts
    BY DEF Touched
  <2>5. sets' = [sets EXCEPT ![i][j] = s] /\ TIME' = TIME + 1
    BY <1>1, <1>2, <2>1, <2>2 DEF TypeOK, Hit
  <2> HIDE DEF i, j, s
  <2> QED BY <2>1, <2>2, <2>3, <2>4, <2>5, KeepsStamps
<1>3. ASSUME NEW is_load \in BOOLEAN, NEW a \in Addresses, Fill(is_load, a)
      PROVE  Stamps'
  <2> DEFINE i == calc_index_bits(a)
             t == calc_tag_bits(a)
             j == FillSlot(sets[i], t)
             s == SlotIn(sets[i][j], t)
  <2>1. i \in Sets
    BY IndexInSets
  <2>2. j \in Slots
    BY <1>3, <2>1, FillSlotIs DEF Fill
  <2>3. s \in Slot /\ s.access_ts = TIME /\ s.load_ts = TIME
    BY <1>1 DEF TypeOK, SlotIn, Slot
  <2>4. sets' = [sets EXCEPT ![i][j] = s] /\ TIME' = TIME + 1
    BY <1>1, <1>3, <2>1, <2>2 DEF TypeOK, Fill
  <2> HIDE DEF i, j, s
  <2> QED BY <2>1, <2>2, <2>3, <2>4, KeepsStamps
<1>4. ASSUME NEW a \in Addresses, Bypass(a)
      PROVE  Stamps'
  BY <1>4 DEF Bypass, Stamps, Valid
<1>5. CASE UNCHANGED vars
  BY <1>5 DEF Stamps, Valid, vars
<1> QED BY <1>2, <1>3, <1>4, <1>5 DEF Next, handle_address

\* What choose_eviction promises: a block leaves a set only when the set is
\* full, and then it is the one that was used least recently, or that came in
\* first, of all its blocks.
EvictsOldest ==
  [][\A i \in Sets : \A j \in Valid(i) :
       sets'[i][j].tag # sets[i][j].tag =>
         /\ Valid(i) = Slots
         /\ \A k \in Slots \ {j} : Stamp(sets[i][j]) < Stamp(sets[i][k])]_vars

LEMMA FillEvictsOldest ==
  ASSUME IInv, Stamps, NEW is_load, NEW a \in Addresses, Fill(is_load, a),
         NEW i \in Sets, NEW j \in Valid(i), sets'[i][j].tag # sets[i][j].tag
  PROVE  /\ Valid(i) = Slots
         /\ \A k \in Slots \ {j} : Stamp(sets[i][j]) < Stamp(sets[i][k])
<1> DEFINE t == calc_tag_bits(a)
<1>1. /\ sets \in [Sets -> [Slots -> Slot]] /\ options \in Options
      /\ j \in Slots
  BY DEF IInv, TypeOK, Valid
<1>2. i = calc_index_bits(a) /\ j = FillSlot(sets[i], t)
  BY <1>1, IndexInSets DEF Fill
<1>3. Stops(sets[i], t) = {}
  BY <1>1, <1>2, FirstStopIs DEF Fill, FillSlot, IsHit, Valid
<1>4. Valid(i) = Slots /\ j = EvictionSlot(sets[i])
  BY <1>2, <1>3 DEF FillSlot, Stops, Valid
<1>5. \A k \in Slots : Stamp(sets[i][j]) <= Stamp(sets[i][k])
  BY <1>1, <1>4, EvictionSlotIs
<1>6. \A k \in Slots \ {j} : Stamp(sets[i][j]) # Stamp(sets[i][k])
  BY <1>4 DEF Stamps, Stamp
<1>7. \A k \in Slots : Stamp(sets[i][k]) \in Nat
  BY <1>1 DEF Slot, Stamp
<1> QED BY <1>1, <1>4, <1>5, <1>6, <1>7

\* Under both policies handle_address evicts the oldest block of a full set,
\* and it is never a matter of the order of the slots: stamps do not tie.
THEOREM EvictionIsOldest == Spec => EvictsOldest
<1> DEFINE A == \A i \in Sets : \A j \in Valid(i) :
                  sets'[i][j].tag # sets[i][j].tag =>
                    /\ Valid(i) = Slots
                    /\ \A k \in Slots \ {j} : Stamp(sets[i][j]) < Stamp(sets[i][k])
<1>1. Init => Stamps
  BY DEF Init, Stamps, Valid
<1>2. IInv /\ Stamps /\ [Next]_vars => Stamps'
  BY NextStamps
<1>3. IInv /\ Stamps /\ [Next]_vars => [A]_vars
  <2> SUFFICES ASSUME IInv, Stamps, Next
               PROVE  A
    OBVIOUS
  <2>1. ASSUME NEW is_load \in BOOLEAN, NEW a \in Addresses, Hit(is_load, a)
        PROVE  A
    <3>1. sets \in [Sets -> [Slots -> Slot]]
      BY DEF IInv, TypeOK
    <3>2. \A i \in Sets : \A j \in Slots : sets'[i][j].tag = sets[i][j].tag
      BY <2>1, <3>1 DEF Hit, Touched
    <3> QED BY <3>2 DEF Valid
  <2>2. ASSUME NEW is_load \in BOOLEAN, NEW a \in Addresses, Fill(is_load, a)
        PROVE  A
    BY <2>2, FillEvictsOldest
  <2>3. ASSUME NEW a \in Addresses, Bypass(a)
        PROVE  A
    BY <2>3 DEF Bypass
  <2> QED BY <2>1, <2>2, <2>3 DEF Next, handle_address
<1> QED BY <1>1, <1>2, <1>3, Inductive, PTL DEF Spec, EvictsOldest

-----------------------------------------------------------------------------
(* The cycles are those of the counts *)

\* Only a block is dirty, and none with write-through.
Clean ==
  \A i \in Sets, j \in Slots :
    sets[i][j].is_dirty => sets[i][j].valid /\ ~options.is_write_through

LEMMA DirtyFinite == IsFiniteSet(Dirty)
<1>1. IsFiniteSet(Sets) /\ IsFiniteSet(Slots)
  <2>1. num_sets - 1 \in Int /\ num_slots \in Int /\ 0 \in Int /\ 1 \in Int
    BY CacheAssumption
  <2>2. IsFiniteSet(0 .. num_sets - 1) /\ IsFiniteSet(1 .. num_slots)
    BY <2>1, FS_Interval
  <2> QED
    BY <2>2 DEF Sets, Slots
<1>2. IsFiniteSet(Sets \X Slots)
  BY <1>1, FS_Product
<1>3. Dirty \in SUBSET (Sets \X Slots)
  BY DEF Dirty
<1> QED
  BY <1>2, <1>3, FS_Subset

\* The dirty blocks after one slot has changed.
LEMMA DirtyIs ==
  ASSUME IInv, NEW i \in Sets, NEW j \in Slots, NEW s \in Slot,
         sets' = [sets EXCEPT ![i][j] = s]
  PROVE  /\ Cardinality(Dirty) \in Nat /\ Cardinality(Dirty') \in Nat
         /\ s.is_dirty /\ sets[i][j].is_dirty => Cardinality(Dirty') = Cardinality(Dirty)
         /\ s.is_dirty /\ ~sets[i][j].is_dirty => Cardinality(Dirty') = Cardinality(Dirty) + 1
         /\ ~s.is_dirty /\ sets[i][j].is_dirty => Cardinality(Dirty') = Cardinality(Dirty) - 1
         /\ ~s.is_dirty /\ ~sets[i][j].is_dirty => Cardinality(Dirty') = Cardinality(Dirty)
<1>1. sets \in [Sets -> [Slots -> Slot]]
  BY DEF IInv, TypeOK
<1>2. /\ sets'[i][j] = s
      /\ \A l \in Sets, k \in Slots : l # i \/ k # j => sets'[l][k] = sets[l][k]
  BY <1>1
<1>3. IsFiniteSet(Dirty)
  BY DirtyFinite
<1>4. /\ <<i, j>> \in Dirty <=> sets[i][j].is_dirty
      /\ \A p : p \in Dirty <=> \E l \in Sets, k \in Slots : p = <<l, k>> /\ sets[l][k].is_dirty
      /\ \A p : p \in Dirty' <=> \E l \in Sets, k \in Slots : p = <<l, k>> /\ sets'[l][k].is_dirty
  BY DEF Dirty
<1>5. CASE s.is_dirty
  <2>1. Dirty' = Dirty \cup {<<i, j>>}
    BY <1>2, <1>4, <1>5
  <2>2. Cardinality(Dirty') = IF <<i, j>> \in Dirty THEN Cardinality(Dirty) ELSE Cardinality(Dirty) + 1
    BY <1>3, <2>1, FS_AddElement
  <2> QED
    BY <1>3, <1>4, <1>5, <2>2, FS_CardinalityType
<1>6. CASE ~s.is_dirty
  <2>1. Dirty' = Dirty \ {<<i, j>>}
    BY <1>2, <1>4, <1>6
  <2>2. Cardinality(Dirty') = IF <<i, j>> \in Dirty THEN Cardinality(Dirty) - 1 ELSE Cardinality(Dirty)
    BY <1>3, <2>1, FS_RemoveElement
  <2>3. Cardinality(Dirty') \in Nat /\ Cardinality(Dirty) \in Nat
    BY <1>3, <2>1, FS_RemoveElement, FS_CardinalityType
  <2> QED
    BY <1>4, <1>6, <2>2, <2>3
<1> QED
  BY <1>5, <1>6

LEMMA OneMore ==
  ASSUME NEW n \in Int, NEW p \in Int
  PROVE  (n + 1) * p = n * p + p
OBVIOUS

\* What the cycles have to be, from the numbers that they depend on.
Sum(base, fills, written) ==
  base + fills * penalty * MEMORY_PENALTY + written * (3 + penalty * MEMORY_PENALTY)

LEMMA SumGrows ==
  ASSUME NEW b \in Int, NEW f \in Int, NEW w \in Int, NEW c \in Int
  PROVE  /\ penalty \in Nat
         /\ Sum(b + c, f, w) = Sum(b, f, w) + c
         /\ Sum(b + c, f + 1, w) = Sum(b, f, w) + c + penalty * MEMORY_PENALTY
         /\ Sum(b + c, f + 1, w + 1) = Sum(b, f, w) + c + 3 + 2 * penalty * MEMORY_PENALTY
<1>1. penalty \in Nat
  BY CacheAssumption DEF penalty
<1>2. /\ (f + 1) * penalty = f * penalty + penalty
      /\ (w + 1) * (3 + penalty * 100) = w * (3 + penalty * 100) + (3 + penalty * 100)
  BY <1>1, OneMore
<1>3. f * penalty \in Int /\ w * (3 + penalty * 100) \in Int
  BY <1>1
<1> HIDE DEF penalty
<1> QED
  BY <1>1, <1>2, <1>3 DEF Sum, MEMORY_PENALTY

LEMMA CyclesAre ==
  /\ CyclesAccounted <=> total_cycles = Sum(BaseCycles, Fills, dirtied - Cardinality(Dirty))
  /\ CyclesAccounted' <=> total_cycles' = Sum(BaseCycles', Fills', dirtied' - Cardinality(Dirty'))
<1>1. penalty' = penalty
  BY DEF penalty
<1> QED
  BY <1>1 DEF CyclesAccounted, Sum, MEMORY_PENALTY

LEMMA CyclesInt ==
  ASSUME IInv
  PROVE  /\ BaseCycles \in Int /\ Fills \in Int /\ dirtied \in Int /\ total_cycles \in Int
         /\ options \in Options
<1>1. TypeOK
  BY DEF IInv
<1>2. /\ load_count \in Int /\ load_hit_count \in Int
      /\ store_count \in Int /\ store_hit_count \in Int
      /\ options \in Options /\ dirtied \in Int /\ total_cycles \in Int
  BY <1>1 DEF TypeOK
<1>3. BaseCycles \in Int
  BY <1>2 DEF BaseCycles, MEMORY_PENALTY
<1>4. Fills \in Int
  BY <1>2 DEF Fills
<1> QED
  BY <1>2, <1>3, <1>4

\* What an access adds to the base and to the fills.
LEMMA CountsGrow ==
  ASSUME IInv, NEW is_load \in BOOLEAN, NEW hit \in BOOLEAN, CountAccess(is_load, hit), options' = options
  PROVE  /\ BaseCycles' = BaseCycles + HitCycles(is_load)
         /\ ~hit /\ (is_load \/ options.write_allocate) => Fills' = Fills + 1
         /\ hit \/ ~(is_load \/ options.write_allocate) => Fills' = Fills
<1>1. TypeOK /\ options \in Options
  BY DEF IInv, TypeOK
<1>2. options.write_allocate \in BOOLEAN /\ options.is_write_through \in BOOLEAN
  BY <1>1 DEF Options
<1>3. /\ load_count \in Int /\ load_hit_count \in Int
      /\ store_count \in Int /\ store_hit_count \in Int
  BY <1>1 DEF TypeOK
<1>4. CASE is_load
  BY <1>2, <1>3, <1>4 DEF CountAccess, BaseCycles, Fills, HitCycles, MEMORY_PENALTY
<1>5. CASE ~is_load
  <2>1. /\ load_count' = load_count /\ load_hit_count' = load_hit_count
        /\ store_count' = store_count + 1
        /\ hit => store_hit_count' = store_hit_count + 1
        /\ ~hit => store_hit_count' = store_hit_count
    BY <1>3, <1>5 DEF CountAccess
  <2>2. BaseCycles' = BaseCycles + HitCycles(is_load)
    <3>1. CASE ~options.write_allocate
      BY <1>3, <1>5, <2>1, <3>1 DEF BaseCycles, HitCycles, MEMORY_PENALTY
    <3>2. CASE options.write_allocate /\ options.is_write_through
      BY <1>3, <1>5, <2>1, <3>2 DEF BaseCycles, HitCycles, MEMORY_PENALTY
    <3>3. CASE options.write_allocate /\ ~options.is_write_through
      BY <1>3, <1>5, <2>1, <3>3 DEF BaseCycles, HitCycles, MEMORY_PENALTY
    <3> QED
      BY <1>2, <3>1, <3>2, <3>3
  <2>3. CASE hit
    BY <1>2, <1>3, <1>5, <2>1, <2>2, <2>3 DEF Fills
  <2>4. CASE ~hit
    BY <1>2, <1>3, <1>5, <2>1, <2>2, <2>4 DEF Fills
  <2> QED
    BY <2>3, <2>4
<1> QED
  BY <1>4, <1>5

LEMMA HitCounted ==
  ASSUME IInv, Clean, CyclesAccounted,
         NEW is_load \in BOOLEAN, NEW a \in Addresses, Hit(is_load, a)
  PROVE  Clean' /\ CyclesAccounted'
<1> DEFINE i       == calc_index_bits(a)
           t       == calc_tag_bits(a)
           j       == FirstStop(sets[i], t)
           dirties == ~is_load /\ ~options.is_write_through
           s       == Touched(sets[i][j], dirties)
<1>1. i \in Sets /\ TypeOK /\ IInv'
  BY IndexInSets, HitIInv DEF IInv
<1>2. j \in Slots
  BY FirstStopIs DEF Hit, IsHit, Stops
<1>3. s \in Slot /\ s.valid /\ (s.is_dirty <=> sets[i][j].is_dirty \/ dirties)
      /\ sets[i][j].is_dirty \in BOOLEAN /\ dirties \in BOOLEAN
  <2>1. sets[i][j] \in Slot /\ TIME \in Nat /\ dirties \in BOOLEAN
    BY <1>1, <1>2 DEF TypeOK, Options
  <2>2. (sets[i][j].is_dirty \/ dirties) \in BOOLEAN
    OBVIOUS
  <2> QED BY <2>1, <2>2 DEF Touched, Slot
<1>4. sets' = [sets EXCEPT ![i][j] = s] /\ options' = options
  BY <1>1, <1>2 DEF TypeOK, Hit
<1>5. /\ CountAccess(is_load, TRUE)
      /\ total_cycles' = total_cycles + HitCycles(is_load)
      /\ dirties /\ ~sets[i][j].is_dirty => dirtied' = dirtied + 1
      /\ ~(dirties /\ ~sets[i][j].is_dirty) => dirtied' = dirtied + 0
  BY DEF Hit
<1>6. dirties => ~options.is_write_through
  OBVIOUS
<1> HIDE DEF i, j, s, t, dirties
<1>7. Clean'
  BY <1>1, <1>2, <1>3, <1>4, <1>6 DEF Clean, TypeOK
<1>8. dirtied' - Cardinality(Dirty') = dirtied - Cardinality(Dirty) /\ dirtied \in Nat /\ Cardinality(Dirty) \in Nat
  <2>1. dirtied \in Nat
    BY <1>1 DEF TypeOK
  <2>2. /\ Cardinality(Dirty) \in Nat /\ Cardinality(Dirty') \in Nat
        /\ dirties /\ ~sets[i][j].is_dirty => Cardinality(Dirty') = Cardinality(Dirty) + 1
        /\ ~(dirties /\ ~sets[i][j].is_dirty) => Cardinality(Dirty') = Cardinality(Dirty)
    BY <1>1, <1>2, <1>3, <1>4, DirtyIs
  <2>3. CASE dirties /\ ~sets[i][j].is_dirty
    BY <1>5, <2>1, <2>2, <2>3
  <2>4. CASE ~(dirties /\ ~sets[i][j].is_dirty)
    BY <1>5, <2>1, <2>2, <2>4
  <2> QED
    BY <2>3, <2>4
<1>9. BaseCycles' = BaseCycles + HitCycles(is_load) /\ Fills' = Fills /\ HitCycles(is_load) \in Nat
  BY <1>4, <1>5, CountsGrow, CyclesTyped
<1>10. Sum(BaseCycles', Fills', dirtied' - Cardinality(Dirty'))
         = Sum(BaseCycles, Fills, dirtied - Cardinality(Dirty)) + HitCycles(is_load)
  <2> DEFINE w == dirtied - Cardinality(Dirty)
             b == BaseCycles
             f == Fills
             h == HitCycles(is_load)
  <2>1. w \in Int /\ b \in Int /\ f \in Int /\ h \in Int
    BY <1>8, <1>9, CyclesInt
  <2>2. Sum(b + h, f, w) = Sum(b, f, w) + h
    <3> HIDE DEF w, b, f, h
    <3> QED
      BY <2>1, SumGrows
  <2> QED
    BY <1>8, <1>9, <2>2
<1>11. CyclesAccounted'
  BY <1>5, <1>10, CyclesAre
<1> QED
  BY <1>7, <1>11

LEMMA FillCounted ==
  ASSUME IInv, Clean, CyclesAccounted,
         NEW is_load \in BOOLEAN, NEW a \in Addresses, Fill(is_load, a)
  PROVE  Clean' /\ CyclesAccounted'
<1> DEFINE i == calc_index_bits(a)
           t == calc_tag_bits(a)
           j == FillSlot(sets[i], t)
           s == SlotIn(sets[i][j], t)
           write_back == Stops(sets[i], t) = {} /\ ~options.is_write_through
                           /\ sets[i][j].is_dirty
<1>1. i \in Sets /\ TypeOK /\ IInv' /\ ~IsHit(sets[i], t)
  BY IndexInSets, FillIInv DEF IInv, Fill
<1>2. j \in Slots
  BY <1>1, FillSlotIs
<1>3. s \in Slot /\ s.valid /\ ~s.is_dirty /\ sets[i][j].is_dirty \in BOOLEAN
  BY <1>1, <1>2 DEF TypeOK, SlotIn, Slot
<1>4. sets' = [sets EXCEPT ![i][j] = s] /\ options' = options /\ dirtied' = dirtied
  BY <1>1, <1>2 DEF TypeOK, Fill
<1>5. /\ CountAccess(is_load, FALSE)
      /\ total_cycles' = total_cycles + FillCycles(is_load, write_back)
      /\ is_load \/ options.write_allocate
  BY DEF Fill
<1>6. write_back <=> sets[i][j].is_dirty
  <2>1. ASSUME sets[i][j].is_dirty, Stops(sets[i], t) # {}
        PROVE  FALSE
    BY <1>1, <1>2, <2>1 DEF Clean, FillSlot, IsHit
  <2> QED
    BY <1>1, <1>2, <2>1 DEF Clean
<1>7. write_back => ~options.is_write_through
  OBVIOUS
<1> HIDE DEF i, j, s, t, write_back
<1>8. Clean'
  BY <1>1, <1>2, <1>3, <1>4 DEF Clean, TypeOK
<1>9. /\ write_back => dirtied' - Cardinality(Dirty') = dirtied - Cardinality(Dirty) + 1
      /\ ~write_back => dirtied' - Cardinality(Dirty') = dirtied - Cardinality(Dirty)
      /\ dirtied \in Nat /\ Cardinality(Dirty) \in Nat
  <2>1. dirtied \in Nat
    BY <1>1 DEF TypeOK
  <2>2. /\ Cardinality(Dirty) \in Nat /\ Cardinality(Dirty') \in Nat
        /\ write_back => Cardinality(Dirty') = Cardinality(Dirty) - 1
        /\ ~write_back => Cardinality(Dirty') = Cardinality(Dirty)
    BY <1>1, <1>2, <1>3, <1>4, <1>6, DirtyIs
  <2> QED
    BY <1>4, <2>1, <2>2
<1>10. BaseCycles' = BaseCycles + HitCycles(is_load) /\ Fills' = Fills + 1 /\ HitCycles(is_load) \in Nat
  BY <1>4, <1>5, CountsGrow, CyclesTyped
<1>11. /\ write_back => FillCycles(is_load, write_back)
                           = HitCycles(is_load) + 3 + 2 * penalty * MEMORY_PENALTY
       /\ ~write_back => FillCycles(is_load, write_back)
                           = HitCycles(is_load) + penalty * MEMORY_PENALTY
  <2>1. options.write_allocate \in BOOLEAN /\ options.is_write_through \in BOOLEAN
        /\ (options.is_write_through \/ options.write_allocate)
    BY CyclesInt DEF Options
  <2>2. penalty \in Nat
    BY CacheAssumption DEF penalty
  <2>3. CASE write_back
    BY <1>5, <1>7, <2>1, <2>2, <2>3 DEF FillCycles, HitCycles, MEMORY_PENALTY
  <2>4. CASE ~write_back
    BY <1>5, <2>1, <2>2, <2>4 DEF FillCycles, HitCycles, MEMORY_PENALTY
  <2> QED
    BY <2>3, <2>4
<1>12. Sum(BaseCycles', Fills', dirtied' - Cardinality(Dirty'))
         = Sum(BaseCycles, Fills, dirtied - Cardinality(Dirty)) + FillCycles(is_load, write_back)
  <2> DEFINE w == dirtied - Cardinality(Dirty)
             b == BaseCycles
             f == Fills
             h == HitCycles(is_load)
  <2>1. w \in Int /\ b \in Int /\ f \in Int /\ h \in Int
    BY <1>9, <1>10, CyclesInt
  <2>2. /\ penalty \in Nat
        /\ Sum(b + h, f + 1, w) = Sum(b, f, w) + h + penalty * MEMORY_PENALTY
        /\ Sum(b + h, f + 1, w + 1) = Sum(b, f, w) + h + 3 + 2 * penalty * MEMORY_PENALTY
    <3> HIDE DEF w, b, f, h
    <3> QED BY <2>1, SumGrows
  <2>3. Sum(b, f, w) \in Int
    BY CyclesAre, CyclesInt
  <2>4. BaseCycles' = b + h /\ Fills' = f + 1
    BY <1>10
  <2>5. CASE write_back
    <3>1. dirtied' - Cardinality(Dirty') = w + 1
          /\ FillCycles(is_load, write_back) = h + 3 + 2 * penalty * MEMORY_PENALTY
      BY <1>9, <1>11, <2>5
    <3>2. Sum(b + h, f + 1, w + 1) = Sum(b, f, w) + (h + 3 + 2 * penalty * MEMORY_PENALTY)
      <4> HIDE DEF w, b, f, h
      <4> QED
        BY <2>1, <2>2, <2>3 DEF MEMORY_PENALTY
    <3> QED
      BY <2>4, <3>1, <3>2
  <2>6. CASE ~write_back
    <3>1. dirtied' - Cardinality(Dirty') = w
          /\ FillCycles(is_load, write_back) = h + penalty * MEMORY_PENALTY
      BY <1>9, <1>11, <2>6
    <3>2. Sum(b + h, f + 1, w) = Sum(b, f, w) + (h + penalty * MEMORY_PENALTY)
      <4> HIDE DEF w, b, f, h
      <4> QED
        BY <2>1, <2>2, <2>3 DEF MEMORY_PENALTY
    <3> QED
      BY <2>4, <3>1, <3>2
  <2> QED
    BY <2>5, <2>6
<1>13. CyclesAccounted'
  BY <1>5, <1>12, CyclesAre
<1> QED
  BY <1>8, <1>13

LEMMA BypassCounted ==
  ASSUME IInv, Clean, CyclesAccounted, NEW a \in Addresses, Bypass(a)
  PROVE  Clean' /\ CyclesAccounted'
<1>1. /\ CountAccess(FALSE, FALSE) /\ ~options.write_allocate /\ IInv'
      /\ options' = options /\ sets' = sets /\ dirtied' = dirtied
      /\ total_cycles' = total_cycles + MEMORY_PENALTY
  BY BypassIInv DEF Bypass
<1>2. BaseCycles' = BaseCycles + MEMORY_PENALTY /\ Fills' = Fills
  BY <1>1, CountsGrow DEF HitCycles
<1>3. Clean' /\ Dirty' = Dirty /\ dirtied - Cardinality(Dirty) \in Int
  <2>1. Clean' /\ Dirty' = Dirty
    BY <1>1 DEF Clean, Dirty
  <2>2. /\ IsFiniteSet(Dirty)
        /\ dirtied \in Nat
    BY DirtyFinite DEF IInv, TypeOK
  <2>3. Cardinality(Dirty) \in Nat
    BY <2>2, FS_CardinalityType
  <2> QED
    BY <2>1, <2>2, <2>3
<1>4. Sum(BaseCycles', Fills', dirtied' - Cardinality(Dirty'))
        = Sum(BaseCycles, Fills, dirtied - Cardinality(Dirty)) + MEMORY_PENALTY
  <2> DEFINE w == dirtied - Cardinality(Dirty)
             b == BaseCycles
             f == Fills
  <2>1. w \in Int /\ b \in Int /\ f \in Int /\ MEMORY_PENALTY \in Int
    BY <1>3, CyclesInt DEF MEMORY_PENALTY
  <2>2. Sum(b + MEMORY_PENALTY, f, w) = Sum(b, f, w) + MEMORY_PENALTY
    <3> HIDE DEF w, b, f
    <3> QED
      BY <2>1, SumGrows
  <2> QED
    BY <1>1, <1>2, <1>3, <2>2
<1> QED
  BY <1>1, <1>3, <1>4, CyclesAre

\* The cycles that main prints are those of the counts that it prints, and of
\* the blocks written back: each block that became dirty is written back once,
\* or still there (cache_funcs.cpp, handle_address and choose_eviction).
THEOREM CyclesAreThoseOfTheCounts == Spec => []CyclesAccounted
<1>1. Init => IInv /\ Clean /\ CyclesAccounted
  <2> SUFFICES ASSUME Init PROVE IInv /\ Clean /\ CyclesAccounted
    OBVIOUS
  <2>1. IInv /\ penalty \in Nat
    BY InitIInv, SumGrows
  <2>2. Clean /\ Dirty = {}
    BY DEF Init, Clean, Dirty
  <2>3. Cardinality(Dirty) = 0
    BY <2>2, FS_EmptySet
  <2>4. BaseCycles = 0 /\ Fills = 0 /\ total_cycles = 0 /\ dirtied = 0
    BY DEF Init, BaseCycles, Fills, MEMORY_PENALTY, Options
  <2> QED
    BY <2>1, <2>2, <2>3, <2>4 DEF CyclesAccounted, MEMORY_PENALTY
<1>2. IInv /\ Clean /\ CyclesAccounted /\ [Next]_vars
        => (IInv /\ Clean /\ CyclesAccounted)'
  <2> SUFFICES ASSUME IInv, Clean, CyclesAccounted, [Next]_vars
               PROVE  (IInv /\ Clean /\ CyclesAccounted)'
    OBVIOUS
  <2>1. CASE UNCHANGED vars
    BY <2>1, StutterIInv DEF Clean, CyclesAccounted, BaseCycles, Fills, Dirty, vars, counts
  <2>2. CASE Next
    BY <2>2, HitIInv, FillIInv, BypassIInv, HitCounted, FillCounted, BypassCounted DEF Next, handle_address
  <2> QED
    BY <2>1, <2>2
<1> QED
  BY <1>1, <1>2, PTL DEF Spec

-----------------------------------------------------------------------------
(* The order of a set *)

\* The tags of set i.
Names(i) == [j \in Slots |-> sets[i][j].tag]

\* Sequence q lists the slots V, the oldest of them by stamps f first.
Ascending(q, V, f) ==
  /\ q \in Seq(Slots)
  /\ \A r \in DOMAIN q : q[r] \in V
  /\ \A j \in V : \E r \in DOMAIN q : q[r] = j
  /\ \A r, m \in DOMAIN q : r < m => f[q[r]] < f[q[m]]

\* What the slots q have, by function g.
Along(q, g) == [r \in 1 .. Len(q) |-> g[q[r]]]

Later(T, V, f) == \A j \in V : f[j] < T

Listed(i, q) == Ascending(q, Valid(i), Ages(i))

AllListed == \A i \in Sets : \E q \in Seq(Slots) : Listed(i, q)

-----------------------------------------------------------------------------
(* Sequences *)

LEMMA WithoutIs ==
  ASSUME NEW S, NEW s \in Seq(S), NEW k \in 1 .. Len(s)
  PROVE  /\ Policy!Without(s, k) \in Seq(S)
         /\ Len(Policy!Without(s, k)) = Len(s) - 1
         /\ \A n \in 1 .. Len(s) - 1 :
              Policy!Without(s, k)[n] = IF n < k THEN s[n] ELSE s[n + 1]
<1> DEFINE a == SubSeq(s, 1, k - 1)
           b == SubSeq(s, k + 1, Len(s))
<1>1. Len(s) \in Nat /\ k \in Int /\ \A n \in 1 .. Len(s) : s[n] \in S
  BY ElementOfSeq, LenProperties
<1>2. /\ a \in Seq(S) /\ Len(a) = k - 1
      /\ \A n \in 1 .. k - 1 : a[n] = s[n]
  <2>1. \A n \in 1 .. k - 1 : s[n] \in S
    BY <1>1
  <2>2. /\ a \in Seq(S) /\ Len(a) = IF 1 <= k - 1 THEN k - 1 - 1 + 1 ELSE 0
        /\ \A n \in 1 .. k - 1 - 1 + 1 : a[n] = s[1 + n - 1]
    BY <1>1, <2>1, SubSeqProperties
  <2> HIDE DEF a
  <2> QED
    BY <1>1, <2>2
<1>3. /\ b \in Seq(S) /\ Len(b) = Len(s) - k
      /\ \A n \in 1 .. Len(s) - k : b[n] = s[k + n]
  <2>1. \A n \in k + 1 .. Len(s) : s[n] \in S
    BY <1>1
  <2>2. /\ b \in Seq(S) /\ Len(b) = IF k + 1 <= Len(s) THEN Len(s) - (k + 1) + 1 ELSE 0
        /\ \A n \in 1 .. Len(s) - (k + 1) + 1 : b[n] = s[k + 1 + n - 1]
    BY <1>1, <2>1, SubSeqProperties
  <2> HIDE DEF b
  <2> QED
    BY <1>1, <2>2
<1>4. Policy!Without(s, k) = a \o b
  BY DEF Policy!Without
<1> HIDE DEF a, b
<1>5. /\ a \o b \in Seq(S) /\ Len(a \o b) = Len(a) + Len(b)
      /\ \A n \in 1 .. Len(a) + Len(b) :
           (a \o b)[n] = IF n <= Len(a) THEN a[n] ELSE b[n - Len(a)]
  BY <1>2, <1>3, ConcatProperties
<1>6. ASSUME NEW n \in 1 .. Len(s) - 1
      PROVE  (a \o b)[n] = IF n < k THEN s[n] ELSE s[n + 1]
  <2>1. CASE n < k
    BY <1>1, <1>2, <1>3, <1>5, <2>1
  <2>2. CASE ~(n < k)
    <3>1. /\ n - (k - 1) \in 1 .. Len(s) - k /\ k + (n - (k - 1)) = n + 1
          /\ ~(n <= k - 1) /\ n \in 1 .. (k - 1) + (Len(s) - k)
      BY <1>1, <2>2
    <3>2. b[n - (k - 1)] = s[n + 1]
      BY <1>3, <3>1
    <3>3. (a \o b)[n] = b[n - (k - 1)]
      BY <1>2, <1>3, <1>5, <3>1
    <3> QED
      BY <2>2, <3>2, <3>3
  <2> QED
    BY <2>1, <2>2
<1>7. a \o b \in Seq(S) /\ Len(a \o b) = Len(s) - 1
  BY <1>1, <1>2, <1>3, <1>5
<1> QED
  BY <1>4, <1>6, <1>7

LEMMA TailIsWithout ==
  ASSUME NEW S, NEW s \in Seq(S), s # <<>>
  PROVE  1 \in 1 .. Len(s) /\ Policy!Without(s, 1) = Tail(s)
<1>1. Len(s) \in Nat \ {0}
  BY EmptySeq
<1>2. /\ Tail(s) \in Seq(S) /\ Len(Tail(s)) = Len(s) - 1
      /\ \A n \in 1 .. Len(Tail(s)) : Tail(s)[n] = s[n + 1]
  BY HeadTailProperties
<1>3. /\ Policy!Without(s, 1) \in Seq(S)
      /\ Len(Policy!Without(s, 1)) = Len(s) - 1
      /\ \A n \in 1 .. Len(s) - 1 :
           Policy!Without(s, 1)[n] = IF n < 1 THEN s[n] ELSE s[n + 1]
  BY <1>1, WithoutIs
<1>4. \A n \in 1 .. Len(s) - 1 : Policy!Without(s, 1)[n] = Tail(s)[n]
  BY <1>2, <1>3
<1> QED
  BY <1>1, <1>2, <1>3, <1>4, SeqEqual

-----------------------------------------------------------------------------
(* The order that Rank makes is the one of the sequence. *)

LEMMA AscendingIs ==
  ASSUME NEW V \in SUBSET Slots, NEW f \in [Slots -> Nat], NEW q, Ascending(q, V, f)
  PROVE  /\ q \in Seq(Slots) /\ Len(q) \in Nat /\ DOMAIN q = 1 .. Len(q)
         /\ \A r \in 1 .. Len(q) : q[r] \in V /\ f[q[r]] \in Nat
         /\ \A r, m \in 1 .. Len(q) : r < m => f[q[r]] < f[q[m]]
<1>1. q \in Seq(Slots)
  BY DEF Ascending
<1>2. Len(q) \in Nat /\ DOMAIN q = 1 .. Len(q)
  BY <1>1, LenProperties
<1>3. \A r \in 1 .. Len(q) : q[r] \in V
  BY <1>2 DEF Ascending
<1>4. \A r, m \in 1 .. Len(q) : r < m => f[q[r]] < f[q[m]]
  BY <1>2 DEF Ascending
<1> QED
  BY <1>1, <1>2, <1>3, <1>4

LEMMA RankIs ==
  ASSUME NEW V \in SUBSET Slots, NEW f \in [Slots -> Nat], NEW q, Ascending(q, V, f)
  PROVE  /\ Cardinality(V) = Len(q) /\ Len(q) \in Nat
         /\ \A r \in 1 .. Len(q) : Cardinality({k \in V : f[k] <= f[q[r]]}) = r
<1>1. /\ q \in Seq(Slots) /\ Len(q) \in Nat /\ DOMAIN q = 1 .. Len(q)
      /\ \A r \in 1 .. Len(q) : q[r] \in V /\ q[r] \in Slots /\ f[q[r]] \in Nat
  BY DEF Ascending
<1>2. ASSUME NEW r \in 1 .. Len(q), NEW m \in 1 .. Len(q), f[q[m]] <= f[q[r]]
      PROVE  m <= r
  <2>1. r < m => f[q[r]] < f[q[m]]
    BY <1>1 DEF Ascending
  <2>2. f[q[r]] \in Nat /\ f[q[m]] \in Nat /\ r \in Nat /\ m \in Nat
    BY <1>1
  <2> QED
    BY <1>2, <2>1, <2>2
<1>3. ASSUME NEW r \in 1 .. Len(q), NEW m \in 1 .. Len(q), m <= r
      PROVE  f[q[m]] <= f[q[r]]
  <2>1. m < r => f[q[m]] < f[q[r]]
    BY <1>1 DEF Ascending
  <2> QED
    BY <1>1, <1>3, <2>1
<1>4. ASSUME NEW r \in 0 .. Len(q)
      PROVE  Cardinality({q[m] : m \in 1 .. r}) = r
  <2> DEFINE b == [m \in 1 .. r |-> q[m]]
             S == {q[m] : m \in 1 .. r}
  <2>1. \A m, l \in 1 .. r : q[m] = q[l] => m = l
    <3>1. \A m, l \in 1 .. Len(q) : q[m] = q[l] => m <= l /\ l <= m
      BY <1>1, <1>2
    <3>2. \A m \in 1 .. r : m \in 1 .. Len(q)
      BY <1>1
    <3>3. \A m, l \in 1 .. r : m <= l /\ l <= m => m = l
      OBVIOUS
    <3> QED
      BY <3>1, <3>2, <3>3
  <2>2. b \in [1 .. r -> S] /\ (\A m, l \in 1 .. r : b[m] = b[l] => m = l)
        /\ (\A s \in S : \E m \in 1 .. r : b[m] = s)
    BY <2>1
  <2> HIDE DEF b, S
  <2>3. b \in Bijection(1 .. r, S)
    BY <2>2 DEF Bijection, Injection, Surjection, IsInjective
  <2>4. ExistsBijection(1 .. r, S)
    BY <2>3 DEF ExistsBijection
  <2>5. r \in Nat
    BY <1>1
  <2>6. Cardinality(S) = r
    BY <2>4, <2>5, FS_CountingElements
  <2> QED
    BY <2>6 DEF S
<1>5. V = {q[m] : m \in 1 .. Len(q)}
  BY <1>1 DEF Ascending
<1>6. ASSUME NEW r \in 1 .. Len(q)
      PROVE  {k \in V : f[k] <= f[q[r]]} = {q[m] : m \in 1 .. r}
  <2>1. ASSUME NEW k \in V, f[k] <= f[q[r]] PROVE k \in {q[m] : m \in 1 .. r}
    <3>1. PICK m \in 1 .. Len(q) : q[m] = k
      BY <1>5
    <3>2. m <= r
      BY <1>2, <2>1, <3>1
    <3> QED
      BY <3>1, <3>2
  <2>2. ASSUME NEW m \in 1 .. r PROVE q[m] \in V /\ f[q[m]] <= f[q[r]]
    <3>1. m \in 1 .. Len(q) /\ m <= r
      BY <1>1
    <3> QED
      BY <1>1, <1>3, <3>1
  <2> QED
    BY <2>1, <2>2
<1>7. Cardinality(V) = Len(q)
  <2>1. Len(q) \in 0 .. Len(q)
    BY <1>1
  <2> QED
    BY <1>4, <1>5, <2>1
<1>8. ASSUME NEW r \in 1 .. Len(q) PROVE Cardinality({k \in V : f[k] <= f[q[r]]}) = r
  <2>1. r \in 0 .. Len(q)
    BY <1>1
  <2> QED
    BY <1>4, <1>6, <2>1
<1> QED
  BY <1>1, <1>7, <1>8

\* Hence the slots in the order of their stamps, in a state and in the next one.
LEMMA ByAgeIs ==
  ASSUME NEW V \in SUBSET Slots, NEW f \in [Slots -> Nat], NEW q, Ascending(q, V, f)
  PROVE  ByAge(V, f) = q
<1> DEFINE rank(j) == Cardinality({k \in V : f[k] <= f[j]})
           c(r)    == CHOOSE j \in V : rank(j) = r
<1>1. /\ Cardinality(V) = Len(q) /\ Len(q) \in Nat
      /\ \A r \in 1 .. Len(q) : rank(q[r]) = r
  BY RankIs
<1>2. /\ \A j \in V : \E r \in 1 .. Len(q) : q[r] = j
      /\ \A r \in 1 .. Len(q) : q[r] \in V
      /\ q = [r \in 1 .. Len(q) |-> q[r]]
  <2>1. q \in Seq(Slots) /\ DOMAIN q = 1 .. Len(q)
    BY AscendingIs
  <2>2. q = [r \in 1 .. Len(q) |-> q[r]]
    BY <2>1, LenProperties
  <2> QED
    BY <2>1, <2>2 DEF Ascending
<1>3. ByAge(V, f) = [r \in 1 .. Cardinality(V) |-> c(r)]
  BY DEF ByAge
<1> HIDE DEF rank
<1>4. ASSUME NEW r \in 1 .. Len(q)
      PROVE  c(r) = q[r]
  <2>1. \A j \in V : rank(j) = r => j = q[r]
    BY <1>1, <1>2
  <2>2. q[r] \in V /\ rank(q[r]) = r
    BY <1>1, <1>2
  <2> QED
    BY <2>1, <2>2
<1> HIDE DEF c
<1> QED
  BY <1>1, <1>2, <1>3, <1>4


-----------------------------------------------------------------------------
(* A slot leaves its place in the sequence, and comes to the end. *)

LEMMA AlongIs ==
  ASSUME NEW G, NEW q \in Seq(Slots), NEW g, \A j \in Slots : g[j] \in G
  PROVE  /\ Along(q, g) \in Seq(G)
         /\ Len(Along(q, g)) = Len(q)
<1>1. Len(q) \in Nat /\ \A r \in 1 .. Len(q) : q[r] \in Slots
  BY LenProperties, ElementOfSeq
<1>2. Along(q, g) \in [1 .. Len(q) -> G]
  BY <1>1 DEF Along
<1>3. Along(q, g) \in Seq(G)
  BY <1>1, <1>2, SeqDef
<1>4. DOMAIN Along(q, g) = 1 .. Len(Along(q, g)) /\ Len(Along(q, g)) \in Nat
  BY <1>3, LenProperties
<1>5. DOMAIN Along(q, g) = 1 .. Len(q)
  BY DEF Along
<1>6. Len(Along(q, g)) = Len(q)
  BY <1>1, <1>4, <1>5
<1> QED
  BY <1>3, <1>6

\* Without the slot at k, the others keep their order.
LEMMA Leaves ==
  ASSUME NEW V \in SUBSET Slots, NEW f \in [Slots -> Nat], NEW q,
         Ascending(q, V, f), NEW k \in 1 .. Len(q)
  PROVE  Ascending(Policy!Without(q, k), V \ {q[k]}, f)
<1> DEFINE w == Policy!Without(q, k)
<1>1. q \in Seq(Slots)
  BY AscendingIs
<1>2. /\ q \in Seq(Slots) /\ Len(q) \in Nat /\ DOMAIN q = 1 .. Len(q)
      /\ \A r \in 1 .. Len(q) : q[r] \in V /\ f[q[r]] \in Nat
      /\ \A r, m \in 1 .. Len(q) : r < m => f[q[r]] < f[q[m]]
  BY AscendingIs
<1>3. k \in Nat
  BY <1>2
<1>4. /\ w \in Seq(Slots) /\ Len(w) = Len(q) - 1
      /\ \A n \in 1 .. Len(q) - 1 : w[n] = IF n < k THEN q[n] ELSE q[n + 1]
  BY <1>1, WithoutIs
<1>5. DOMAIN w = 1 .. Len(q) - 1
  BY <1>4, LenProperties
<1> HIDE DEF w
<1>6. \A r, m \in 1 .. Len(q) : r # m => q[r] # q[m]
  <2> SUFFICES ASSUME NEW r \in 1 .. Len(q), NEW m \in 1 .. Len(q), r # m
               PROVE  f[q[r]] # f[q[m]]
    OBVIOUS
  <2>1. r < m \/ m < r
    OBVIOUS
  <2> QED
    BY <1>2, <2>1
<1>7. ASSUME NEW n \in 1 .. Len(q) - 1
      PROVE  \E r \in 1 .. Len(q) : /\ w[n] = q[r] /\ r # k
                                    /\ n < k => r = n
                                    /\ ~(n < k) => r = n + 1
  <2>1. CASE n < k
    BY <1>2, <1>3, <1>4, <2>1
  <2>2. CASE ~(n < k)
    <3>1. n + 1 \in 1 .. Len(q) /\ n + 1 # k
      BY <1>2, <1>3, <2>2
    <3> QED
      BY <1>4, <2>2, <3>1
  <2> QED
    BY <2>1, <2>2
<1>8. \A n \in 1 .. Len(q) - 1 : w[n] \in V \ {q[k]}
  BY <1>2, <1>6, <1>7
<1>9. ASSUME NEW j \in V \ {q[k]} PROVE \E n \in 1 .. Len(q) - 1 : w[n] = j
  <2>1. PICK r \in 1 .. Len(q) : q[r] = j
    BY <1>2 DEF Ascending
  <2>2. CASE r < k
    <3>1. r \in 1 .. Len(q) - 1
      BY <1>2, <1>3, <2>2
    <3> QED
      BY <1>4, <2>1, <2>2, <3>1
  <2>3. CASE ~(r < k)
    <3>1. r # k
      BY <2>1
    <3>2. r - 1 \in 1 .. Len(q) - 1 /\ ~(r - 1 < k) /\ r - 1 + 1 = r
      BY <1>2, <1>3, <2>3, <3>1
    <3>3. w[r - 1] = q[r]
      BY <1>4, <3>2
    <3> QED
      BY <2>1, <3>2, <3>3
  <2> QED
    BY <2>2, <2>3
<1>10. ASSUME NEW n \in 1 .. Len(q) - 1, NEW m \in 1 .. Len(q) - 1, n < m
      PROVE  f[w[n]] < f[w[m]]
  <2>1. PICK r \in 1 .. Len(q) : w[n] = q[r] /\ (n < k => r = n) /\ (~(n < k) => r = n + 1)
    BY <1>7
  <2>2. PICK l \in 1 .. Len(q) : w[m] = q[l] /\ (m < k => l = m) /\ (~(m < k) => l = m + 1)
    BY <1>7
  <2>3. r < l
    <3>1. n \in Int /\ m \in Int /\ k \in Int /\ r \in Int /\ l \in Int
      BY <1>3
    <3>2. CASE n < k /\ m < k
      BY <1>10, <2>1, <2>2, <3>1, <3>2
    <3>3. CASE n < k /\ ~(m < k)
      BY <2>1, <2>2, <3>1, <3>3
    <3>4. CASE ~(n < k)
      BY <1>10, <2>1, <2>2, <3>1, <3>4
    <3> QED
      BY <3>2, <3>3, <3>4
  <2> QED
    BY <1>2, <2>1, <2>2, <2>3
<1>11. Ascending(w, V \ {q[k]}, f)
  BY <1>4, <1>5, <1>8, <1>9, <1>10 DEF Ascending
<1> QED
  BY <1>11 DEF w

\* A slot that gets the latest stamp goes to the end.
LEMMA Comes ==
  ASSUME NEW V \in SUBSET Slots, NEW f \in [Slots -> Nat], NEW q,
         Ascending(q, V, f), NEW j \in Slots \ V, NEW T \in Nat, Later(T, V, f),
         NEW e, e = [f EXCEPT ![j] = T]
  PROVE  Ascending(Append(q, j), V \cup {j}, e)
<1> DEFINE p == Append(q, j)
           n == Len(q)
<1>1. /\ q \in Seq(Slots) /\ n \in Nat /\ DOMAIN q = 1 .. n
      /\ \A r \in 1 .. n : q[r] \in V /\ f[q[r]] \in Nat
      /\ \A r, m \in 1 .. n : r < m => f[q[r]] < f[q[m]]
  BY AscendingIs
<1>2. /\ p \in Seq(Slots) /\ Len(p) = n + 1
      /\ \A r \in 1 .. n : p[r] = q[r]
      /\ p[n + 1] = j
  BY <1>1, AppendProperties
<1>3. DOMAIN p = 1 .. n + 1
  BY <1>2, LenProperties
<1>4. /\ e[j] = T /\ \A k \in V : e[k] = f[k] /\ f[k] < T
  BY DEF Later
<1> HIDE DEF p, n
<1>5. \A r \in 1 .. n + 1 : r \in 1 .. n \/ r = n + 1
  BY <1>1
<1>6. \A r \in 1 .. n + 1 : p[r] \in V \cup {j}
  BY <1>1, <1>2, <1>5
<1>7. ASSUME NEW k \in V \cup {j} PROVE \E r \in 1 .. n + 1 : p[r] = k
  <2>1. CASE k = j
    BY <1>1, <1>2, <2>1
  <2>2. CASE k \in V
    <3>1. PICK r \in 1 .. n : q[r] = k
      BY <1>1, <2>2 DEF Ascending
    <3>2. r \in 1 .. n + 1
      BY <1>1
    <3> QED
      BY <1>2, <3>1, <3>2
  <2> QED
    BY <2>1, <2>2
<1>8. ASSUME NEW r \in 1 .. n + 1, NEW m \in 1 .. n + 1, r < m
      PROVE  e[p[r]] < e[p[m]]
  <2>1. r \in 1 .. n /\ p[r] = q[r] /\ q[r] \in V
    BY <1>1, <1>2, <1>8
  <2>2. CASE m = n + 1
    BY <1>2, <1>4, <2>1, <2>2
  <2>3. CASE m \in 1 .. n
    <3>1. p[m] = q[m] /\ q[m] \in V /\ f[q[r]] < f[q[m]]
      BY <1>1, <1>2, <1>8, <2>1, <2>3
    <3> QED
      BY <1>4, <2>1, <3>1
  <2> QED
    BY <1>5, <2>2, <2>3
<1>9. Ascending(p, V \cup {j}, e)
  BY <1>2, <1>3, <1>6, <1>7, <1>8 DEF Ascending
<1> QED
  BY <1>9 DEF p

\* What the slots have goes with them.
LEMMA AlongWithout ==
  ASSUME NEW q \in Seq(Slots), NEW k \in 1 .. Len(q), NEW g
  PROVE  Along(Policy!Without(q, k), g) = Policy!Without(Along(q, g), k)
<1> DEFINE G == {g[j] : j \in Slots}
           w == Policy!Without(q, k)
           h == Along(q, g)
           u == Policy!Without(h, k)
<1>1. \A j \in Slots : g[j] \in G
  OBVIOUS
<1> HIDE DEF G
<1>2. Len(q) \in Nat
  BY LenProperties
<1>3. /\ w \in Seq(Slots) /\ Len(w) = Len(q) - 1
      /\ \A n \in 1 .. Len(q) - 1 : w[n] = IF n < k THEN q[n] ELSE q[n + 1]
  BY WithoutIs
<1> HIDE DEF w
<1>4. h \in Seq(G) /\ Len(h) = Len(q)
  BY <1>1, AlongIs
<1>5. Along(w, g) \in Seq(G) /\ Len(Along(w, g)) = Len(w)
  BY <1>1, <1>3, AlongIs
<1>6. /\ \A n \in 1 .. Len(w) : Along(w, g)[n] = g[w[n]]
      /\ \A n \in 1 .. Len(q) : h[n] = g[q[n]]
  BY DEF Along
<1> HIDE DEF h
<1>7. /\ u \in Seq(G) /\ Len(u) = Len(q) - 1
      /\ \A n \in 1 .. Len(q) - 1 : u[n] = IF n < k THEN h[n] ELSE h[n + 1]
  <2>1. h \in Seq(G) /\ k \in 1 .. Len(h)
    BY <1>4
  <2>2. /\ u \in Seq(G) /\ Len(u) = Len(h) - 1
        /\ \A n \in 1 .. Len(h) - 1 : u[n] = IF n < k THEN h[n] ELSE h[n + 1]
    BY <2>1, WithoutIs, SMTT(30)
  <2> QED
    BY <1>4, <2>2
<1> HIDE DEF u
<1>8. ASSUME NEW n \in 1 .. Len(q) - 1 PROVE Along(w, g)[n] = u[n]
  <2>1. n \in 1 .. Len(q) /\ n + 1 \in 1 .. Len(q)
    BY <1>2
  <2>2. Along(w, g)[n] = g[w[n]] /\ h[n] = g[q[n]] /\ h[n + 1] = g[q[n + 1]]
    BY <1>3, <1>6, <2>1
  <2> QED
    BY <1>3, <1>7, <2>2
<1>9. Along(w, g) = u
  BY <1>3, <1>5, <1>7, <1>8, SeqEqual
<1> QED
  BY <1>9 DEF u, h, w

\* Slot j is not in q; it has t in h, and the others have what they have in g.
Adds(q, j, g, t, h) ==
  /\ q \in Seq(Slots) /\ j \in Slots
  /\ \A r \in 1 .. Len(q) : q[r] # j
  /\ DOMAIN g = Slots /\ h = [g EXCEPT ![j] = t]

LEMMA AlongAppend ==
  ASSUME NEW q, NEW j, NEW g, NEW t, NEW h, Adds(q, j, g, t, h)
  PROVE  Along(Append(q, j), h) = Append(Along(q, g), t)
<1>1. /\ q \in Seq(Slots) /\ j \in Slots
      /\ \A r \in 1 .. Len(q) : q[r] # j
      /\ DOMAIN g = Slots /\ h = [g EXCEPT ![j] = t]
  BY DEF Adds
<1> DEFINE G == {g[k] : k \in Slots} \cup {h[k] : k \in Slots} \cup {t}
           n == Len(q)
           p == Append(q, j)
           a == Along(q, g)
           b == Along(p, h)
<1>2. (\A k \in Slots : g[k] \in G /\ h[k] \in G) /\ t \in G
  OBVIOUS
<1> HIDE DEF G
<1>3. n \in Nat /\ \A r \in 1 .. n : q[r] \in Slots
  BY <1>1, LenProperties, ElementOfSeq
<1>4. /\ p \in Seq(Slots) /\ Len(p) = n + 1
      /\ \A r \in 1 .. n : p[r] = q[r]
      /\ p[n + 1] = j
  BY <1>1, AppendProperties
<1> HIDE DEF p
<1>5. a \in Seq(G) /\ Len(a) = n
  BY <1>1, <1>2, AlongIs
<1>6. b \in Seq(G) /\ Len(b) = Len(p)
  BY <1>2, <1>4, AlongIs
<1>7. /\ \A r \in 1 .. n : a[r] = g[q[r]]
      /\ \A r \in 1 .. Len(p) : b[r] = h[p[r]]
  BY DEF Along
<1>8. h[j] = t /\ \A k \in Slots : k # j => h[k] = g[k]
  BY <1>1
<1> HIDE DEF n, a, b
<1>9. /\ Append(a, t) \in Seq(G) /\ Len(Append(a, t)) = n + 1
      /\ \A r \in 1 .. n : Append(a, t)[r] = a[r]
      /\ Append(a, t)[n + 1] = t
  BY <1>2, <1>5, AppendProperties
<1>10. ASSUME NEW r \in 1 .. n + 1 PROVE b[r] = Append(a, t)[r]
  <2>1. CASE r = n + 1
    BY <1>4, <1>7, <1>8, <1>9, <2>1
  <2>2. CASE r \in 1 .. n
    <3>1. p[r] = q[r] /\ h[q[r]] = g[q[r]]
      BY <1>1, <1>3, <1>4, <1>8, <2>2 DEF n
    <3>2. b[r] = h[p[r]]
      BY <1>4, <1>7
    <3> QED
      BY <1>7, <1>9, <2>2, <3>1, <3>2
  <2>3. n \in Nat
    BY <1>3
  <2>4. r = n + 1 \/ r \in 1 .. n
    BY <2>3
  <2> QED
    BY <2>1, <2>2, <2>4
<1>11. b = Append(a, t)
  BY <1>3, <1>4, <1>6, <1>9, <1>10, SeqEqual
<1> QED
  BY <1>11 DEF a, b, p

\* A slot leaves its place k and comes to the end, with stamp T and tag t.
Moves(V, f, q, k, T, e, g, t, h) ==
  /\ V \in SUBSET Slots /\ f \in [Slots -> Nat] /\ Ascending(q, V, f) /\ k \in 1 .. Len(q)
  /\ T \in Nat /\ Later(T, V, f) /\ e = [f EXCEPT ![q[k]] = T]
  /\ DOMAIN g = Slots /\ h = [g EXCEPT ![q[k]] = t]

Moved(q, k, g, t, h) ==
  Along(Append(Policy!Without(q, k), q[k]), h) = Append(Policy!Without(Along(q, g), k), t)

LEMMA GoesLast ==
  ASSUME NEW V, NEW f, NEW q, NEW k, NEW T, NEW e, NEW g, NEW t, NEW h,
         Moves(V, f, q, k, T, e, g, t, h)
  PROVE  /\ Ascending(Append(Policy!Without(q, k), q[k]), V \cup {q[k]}, e)
         /\ Moved(q, k, g, t, h)
<1> DEFINE w == Policy!Without(q, k)
<1>1. /\ V \in SUBSET Slots /\ f \in [Slots -> Nat] /\ Ascending(q, V, f) /\ k \in 1 .. Len(q)
      /\ T \in Nat /\ Later(T, V, f) /\ e = [f EXCEPT ![q[k]] = T]
      /\ DOMAIN g = Slots /\ h = [g EXCEPT ![q[k]] = t]
  BY DEF Moves
<1>2. PICK W : W = V \ {q[k]}
  OBVIOUS
<1>3. q \in Seq(Slots) /\ q[k] \in V
  BY <1>1, AscendingIs
<1>4. /\ W \in SUBSET Slots /\ q[k] \in Slots \ W /\ Later(T, W, f)
      /\ W \cup {q[k]} = V \cup {q[k]}
  BY <1>1, <1>2, <1>3 DEF Later
<1>5. Ascending(w, W, f)
  BY <1>1, <1>2, Leaves
<1>6. Along(w, g) = Policy!Without(Along(q, g), k)
  BY <1>1, <1>3, AlongWithout
<1> HIDE DEF w
<1>7. Ascending(Append(w, q[k]), W \cup {q[k]}, e)
  BY <1>1, <1>4, <1>5, Comes
<1>8. w \in Seq(Slots) /\ \A r \in 1 .. Len(w) : w[r] \in W
  BY <1>1, <1>4, <1>5, AscendingIs
<1>9. Adds(w, q[k], g, t, h)
  BY <1>1, <1>4, <1>8 DEF Adds
<1>10. Along(Append(w, q[k]), h) = Append(Along(w, g), t)
  BY <1>9, AlongAppend
<1> QED
  BY <1>4, <1>6, <1>7, <1>10 DEF w, Moved

-----------------------------------------------------------------------------
(* The abstract order of a set is the one of its sequence. *)

LEMMA SetTyped ==
  ASSUME NEW i \in Sets
  PROVE  /\ TypeOK => Ages(i) \in [Slots -> Nat]
         /\ TypeOK' => Ages(i)' \in [Slots -> Nat]
<1>1. ASSUME TypeOK PROVE Ages(i) \in [Slots -> Nat]
  <2>1. \A j \in Slots : sets[i][j] \in Slot
    BY <1>1 DEF TypeOK
  <2>2. \A j \in Slots : Stamp(sets[i][j]) \in Nat
    BY <2>1 DEF Stamp, Slot
  <2> QED
    BY <2>2 DEF Ages
<1>2. ASSUME TypeOK' PROVE Ages(i)' \in [Slots -> Nat]
  <2>1. \A j \in Slots : sets'[i][j] \in Slot
    BY <1>2 DEF TypeOK
  <2>2. \A j \in Slots : Stamp(sets[i][j])' \in Nat
    BY <2>1 DEF Stamp, Slot
  <2> QED
    BY <2>2 DEF Ages
<1> QED
  BY <1>1, <1>2

LEMMA OrderIs ==
  ASSUME NEW i \in Sets, NEW q
  PROVE  /\ TypeOK /\ Listed(i, q) => OrderOf(i) = Along(q, Names(i))
         /\ TypeOK' /\ Listed(i, q)' => OrderOf(i)' = Along(q, Names(i)')
<1>1. ASSUME TypeOK, Listed(i, q)
      PROVE  OrderOf(i) = Along(q, Names(i))
  <2>1. Valid(i) \in SUBSET Slots /\ Ages(i) \in [Slots -> Nat]
    BY <1>1, SetTyped DEF Valid
  <2>2. ByAge(Valid(i), Ages(i)) = q
    BY <1>1, <2>1, ByAgeIs DEF Listed
  <2>3. q \in Seq(Slots) /\ DOMAIN q = 1 .. Len(q)
    BY <1>1, <2>1, AscendingIs DEF Listed
  <2>4. \A r \in 1 .. Len(q) : Names(i)[q[r]] = sets[i][q[r]].tag
    BY <2>3, ElementOfSeq DEF Names
  <2>5. OrderOf(i) = [r \in DOMAIN q |-> sets[i][q[r]].tag]
    BY <2>2 DEF OrderOf
  <2> QED
    BY <2>3, <2>4, <2>5 DEF Along
<1>2. ASSUME TypeOK', Listed(i, q)'
      PROVE  OrderOf(i)' = Along(q, Names(i)')
  <2>1. Valid(i)' \in SUBSET Slots /\ Ages(i)' \in [Slots -> Nat]
    BY <1>2, SetTyped DEF Valid
  <2>2. ByAge(Valid(i)', Ages(i)') = q
    BY <1>2, <2>1, ByAgeIs DEF Listed
  <2>3. q \in Seq(Slots) /\ DOMAIN q = 1 .. Len(q)
    BY <1>2, <2>1, AscendingIs DEF Listed
  <2>4. \A r \in 1 .. Len(q) : Names(i)'[q[r]] = sets'[i][q[r]].tag
    BY <2>3, ElementOfSeq DEF Names
  <2>5. OrderOf(i)' = [r \in DOMAIN q |-> sets'[i][q[r]].tag]
    BY <2>2 DEF OrderOf
  <2> QED
    BY <2>3, <2>4, <2>5 DEF Along
<1> QED
  BY <1>1, <1>2

\* Slot j of set i gets a new value, and what this changes.
Puts(i, j, s) ==
  s.valid /\ sets' = [sets EXCEPT ![i][j] = s] /\ options' = options

LEMMA SlotChanges ==
  ASSUME TypeOK, NEW i \in Sets, NEW j \in Slots, NEW s, Puts(i, j, s)
  PROVE  /\ \A l \in Sets : l # i => /\ Valid(l)' = Valid(l) /\ Ages(l)' = Ages(l)
                                     /\ Names(l)' = Names(l)
         /\ Valid(i)' = Valid(i) \cup {j}
         /\ Ages(i)' = [Ages(i) EXCEPT ![j] = Stamp(s)]
         /\ Names(i)' = [Names(i) EXCEPT ![j] = s.tag]
<1>1. /\ sets'[i][j] = s
      /\ \A k \in Slots : k # j => sets'[i][k] = sets[i][k]
      /\ \A l \in Sets : l # i => sets'[l] = sets[l]
  BY DEF TypeOK, Puts
<1>2. s.valid /\ options' = options
  BY DEF Puts
<1>3. ASSUME NEW l \in Sets, l # i
      PROVE  Valid(l)' = Valid(l) /\ Ages(l)' = Ages(l) /\ Names(l)' = Names(l)
  BY <1>2, <1>1, <1>3 DEF Valid, Ages, Names, Stamp
<1>4. Valid(i)' = Valid(i) \cup {j}
  BY <1>2, <1>1 DEF Valid
<1>5. Ages(i)' = [Ages(i) EXCEPT ![j] = Stamp(s)]
  <2>1. Ages(i)' = [k \in Slots |-> Stamp(sets'[i][k])]
    BY <1>2 DEF Ages, Stamp
  <2>2. \A k \in Slots : Stamp(sets'[i][k]) = IF k = j THEN Stamp(s) ELSE Stamp(sets[i][k])
    BY <1>1
  <2> QED
    BY <2>1, <2>2 DEF Ages
<1>6. Names(i)' = [Names(i) EXCEPT ![j] = s.tag]
  <2>1. Names(i)' = [k \in Slots |-> sets'[i][k].tag]
    BY DEF Names
  <2>2. \A k \in Slots : sets'[i][k].tag = IF k = j THEN s.tag ELSE sets[i][k].tag
    BY <1>1
  <2> QED
    BY <2>1, <2>2 DEF Names
<1> QED
  BY <1>3, <1>4, <1>5, <1>6

\* A step that lists one set anew changes the order of this set only.
LEMMA Relisted ==
  ASSUME TypeOK, TypeOK', AllListed, NEW i \in Sets, NEW q, Listed(i, q)',
         \A l \in Sets : l # i => /\ Valid(l)' = Valid(l) /\ Ages(l)' = Ages(l)
                                  /\ Names(l)' = Names(l)
  PROVE  /\ AllListed'
         /\ [l \in Sets |-> OrderOf(l)']
              = [[l \in Sets |-> OrderOf(l)] EXCEPT ![i] = Along(q, Names(i)')]
<1>1. ASSUME NEW l \in Sets, l # i
      PROVE  /\ \E p \in Seq(Slots) : Listed(l, p)'
             /\ OrderOf(l)' = OrderOf(l)
  <2>1. PICK p \in Seq(Slots) : Listed(l, p)
    BY DEF AllListed
  <2>2. Listed(l, p)'
    BY <1>1, <2>1 DEF Listed
  <2>3. OrderOf(l) = Along(p, Names(l)) /\ OrderOf(l)' = Along(p, Names(l)')
    BY <2>1, <2>2, OrderIs
  <2> QED
    BY <1>1, <2>2, <2>3
<1>2. OrderOf(i)' = Along(q, Names(i)') /\ q \in Seq(Slots)
  BY OrderIs DEF Listed, Ascending
<1>3. AllListed'
  BY <1>1, <1>2 DEF AllListed
<1>4. \A l \in Sets : OrderOf(l)' = IF l = i THEN Along(q, Names(i)') ELSE OrderOf(l)
  BY <1>1, <1>2
<1> QED
  BY <1>3, <1>4

\* All stamps are in the past.
LEMMA StampsPast ==
  ASSUME Stamps, NEW i \in Sets
  PROVE  Later(TIME, Valid(i), Ages(i))
BY DEF Stamps, Later, Ages, Valid, Stamp

\* The slots of a set, and how many of them are valid.
LEMMA HowMany ==
  ASSUME TypeOK, NEW i \in Sets, NEW q, Listed(i, q)
  PROVE  /\ Len(q) \in Nat
         /\ Len(q) = num_slots <=> Valid(i) = Slots
<1>1. Valid(i) \in SUBSET Slots /\ Ages(i) \in [Slots -> Nat]
  BY SetTyped DEF Valid
<1>2. Cardinality(Valid(i)) = Len(q) /\ Len(q) \in Nat
  BY <1>1, RankIs DEF Listed
<1>3. num_slots \in Nat \ {0}
  BY CacheAssumption
<1>4. IsFiniteSet(Slots) /\ Cardinality(Slots) = num_slots
  <2>1. IsFiniteSet(1 .. num_slots) /\ Cardinality(1 .. num_slots) = num_slots
    BY <1>3, FS_Interval
  <2> QED
    BY <2>1 DEF Slots
<1>5. Cardinality(Valid(i)) = Cardinality(Slots) <=> Valid(i) = Slots
  BY <1>1, <1>4, FS_Subset
<1> QED
  BY <1>2, <1>4, <1>5


-----------------------------------------------------------------------------
(* Each access is a step of the policy. *)

LEMMA HitUses ==
  ASSUME IInv, Stamps, AllListed, NEW is_load \in BOOLEAN, NEW a \in Addresses, Hit(is_load, a)
  PROVE  AllListed' /\ Policy!Use(calc_index_bits(a), calc_tag_bits(a))
<1> DEFINE i       == calc_index_bits(a)
           t       == calc_tag_bits(a)
           j       == FirstStop(sets[i], t)
           dirties == ~is_load /\ ~options.is_write_through
           s       == Touched(sets[i][j], dirties)
           order   == [l \in Sets |-> OrderOf(l)]
<1>1. i \in Sets /\ TypeOK /\ TypeOK' /\ TIME \in Nat /\ options.is_lru \in BOOLEAN
  BY IndexInSets, HitIInv DEF IInv, TypeOK, Options
<1>2. j \in Valid(i) /\ j \in Slots /\ sets[i][j].tag = t
  BY FirstStopIs DEF Hit, IsHit, Stops, Valid
<1>3. /\ s.tag = t /\ s.access_ts = TIME /\ s.load_ts = sets[i][j].load_ts
      /\ Puts(i, j, s) /\ options' = options
      /\ last' = <<i, t, "hit">>
  BY <1>1, <1>2 DEF TypeOK, Hit, Touched, Puts
<1> HIDE DEF i, t, j, s
<1>4. /\ \A l \in Sets : l # i => /\ Valid(l)' = Valid(l) /\ Ages(l)' = Ages(l)
                                  /\ Names(l)' = Names(l)
      /\ Valid(i)' = Valid(i) \cup {j}
      /\ Ages(i)' = [Ages(i) EXCEPT ![j] = Stamp(s)]
      /\ Names(i)' = [Names(i) EXCEPT ![j] = t]
  BY <1>1, <1>2, <1>3, SlotChanges
<1>5. PICK q \in Seq(Slots) : Listed(i, q)
  BY <1>1 DEF AllListed
<1>6. /\ Valid(i) \in SUBSET Slots /\ Ages(i) \in [Slots -> Nat] /\ DOMAIN Names(i) = Slots
      /\ Ascending(q, Valid(i), Ages(i)) /\ Later(TIME, Valid(i), Ages(i))
      /\ OrderOf(i) = Along(q, Names(i))
  BY <1>1, <1>5, SetTyped, StampsPast, OrderIs DEF Valid, Names, Listed
<1>7. /\ DOMAIN q = 1 .. Len(q) /\ Len(q) \in Nat
      /\ \A r \in 1 .. Len(q) : q[r] \in Slots
  BY <1>6, AscendingIs
<1>8. PICK k \in 1 .. Len(q) : q[k] = j
  BY <1>2, <1>6, <1>7 DEF Ascending
<1>9. /\ DOMAIN OrderOf(i) = 1 .. Len(q) /\ OrderOf(i)[k] = t
  BY <1>2, <1>6, <1>8 DEF Along, Names
<1>10. CASE options.is_lru
  <2>1. Ages(i)' = [Ages(i) EXCEPT ![q[k]] = TIME] /\ Names(i)' = [Names(i) EXCEPT ![q[k]] = t]
    BY <1>3, <1>4, <1>8, <1>10 DEF Stamp
  <2>2. PICK p : p = Append(Policy!Without(q, k), q[k])
    OBVIOUS
  <2>3. Moves(Valid(i), Ages(i), q, k, TIME, Ages(i)', Names(i), t, Names(i)')
    BY <1>1, <1>6, <2>1 DEF Moves
  <2>4. /\ Ascending(p, Valid(i) \cup {q[k]}, Ages(i)')
        /\ Along(p, Names(i)') = Append(Policy!Without(Along(q, Names(i)), k), t)
    <3>1. /\ Ascending(Append(Policy!Without(q, k), q[k]), Valid(i) \cup {q[k]}, Ages(i)')
          /\ Moved(q, k, Names(i), t, Names(i)')
      BY <2>3, GoesLast
    <3> QED
      BY <2>2, <3>1 DEF Moved
  <2>5. Listed(i, p)'
    BY <1>4, <1>8, <2>4 DEF Listed
  <2>6. /\ AllListed'
        /\ order' = [order EXCEPT ![i] = Along(p, Names(i)')]
    BY <1>1, <1>4, <2>5, Relisted
  <2>7. Along(p, Names(i)') = Append(Policy!Without(OrderOf(i), k), t)
    BY <1>6, <2>4
  <2>8. order' = [order EXCEPT ![i] = IF options.is_lru THEN Append(Policy!Without(@, k), t) ELSE @]
    BY <1>1, <1>10, <2>6, <2>7
  <2>9. /\ k \in DOMAIN order[i] /\ order[i][k] = t
    BY <1>1, <1>9
  <2> QED
    BY <1>3, <2>6, <2>8, <2>9 DEF Policy!Use, i, t
<1>11. CASE ~options.is_lru
  <2>1. Stamp(s) = Ages(i)[j]
    BY <1>2, <1>3, <1>11 DEF Stamp, Ages
  <2>2. Valid(i)' = Valid(i) /\ Ages(i)' = Ages(i) /\ Names(i)' = Names(i)
    <3>1. Names(i)[j] = t
      BY <1>2 DEF Names
    <3> QED
      BY <1>2, <1>4, <1>6, <2>1, <3>1 DEF Names
  <2>3. Listed(i, q)'
    BY <1>5, <2>2 DEF Listed
  <2>4. /\ AllListed'
        /\ order' = [order EXCEPT ![i] = Along(q, Names(i)')]
    BY <1>1, <1>4, <2>3, Relisted
  <2>5. Along(q, Names(i)') = order[i]
    BY <1>1, <1>6, <2>2
  <2>6. order' = [order EXCEPT ![i] = IF options.is_lru THEN Append(Policy!Without(@, k), t) ELSE @]
    BY <1>1, <1>11, <2>4, <2>5
  <2>7. /\ k \in DOMAIN order[i] /\ order[i][k] = t
    BY <1>1, <1>9
  <2> QED
    BY <1>3, <2>4, <2>6, <2>7 DEF Policy!Use, i, t
<1> QED
  BY <1>1, <1>10, <1>11

LEMMA FillBrings ==
  ASSUME IInv, Stamps, AllListed, NEW is_load \in BOOLEAN, NEW a \in Addresses, Fill(is_load, a)
  PROVE  AllListed' /\ Policy!Bring(calc_index_bits(a), calc_tag_bits(a))
<1> DEFINE i     == calc_index_bits(a)
           t     == calc_tag_bits(a)
           j     == FillSlot(sets[i], t)
           s     == SlotIn(sets[i][j], t)
           order == [l \in Sets |-> OrderOf(l)]
<1>1. /\ i \in Sets /\ TypeOK /\ TypeOK' /\ TIME \in Nat /\ ~IsHit(sets[i], t)
      /\ sets[i] \in [Slots -> Slot] /\ options \in Options
  BY IndexInSets, FillIInv DEF IInv, TypeOK, Fill
<1>2. /\ j \in Slots
      /\ \A k \in Valid(i) : sets[i][k].tag # t
      /\ Stops(sets[i], t) # {} => j \notin Valid(i)
      /\ Stops(sets[i], t) = {} => j = EvictionSlot(sets[i]) /\ Valid(i) = Slots
  <2>1. j \in Slots /\ \A k \in Valid(i) : sets[i][k].tag # t
    BY <1>1, FillSlotIs
  <2>2. ASSUME Stops(sets[i], t) # {} PROVE j \notin Valid(i)
    BY <1>1, <2>2 DEF FillSlot, IsHit, Valid
  <2>3. ASSUME Stops(sets[i], t) = {} PROVE j = EvictionSlot(sets[i]) /\ Valid(i) = Slots
    BY <2>3 DEF FillSlot, Stops, Valid
  <2> QED
    BY <2>1, <2>2, <2>3
<1>3. /\ s.tag = t /\ Stamp(s) = TIME
      /\ Puts(i, j, s) /\ options' = options
      /\ last' = <<i, t, "fill">>
  BY <1>1, <1>2 DEF TypeOK, Fill, SlotIn, Stamp, Puts
<1>4. Stops(sets[i], t) = {} => \A k \in Slots : Ages(i)[j] <= Ages(i)[k]
  BY <1>1, <1>2, EvictionSlotIs DEF Ages
<1> HIDE DEF i, t, j, s
<1>5. /\ \A l \in Sets : l # i => /\ Valid(l)' = Valid(l) /\ Ages(l)' = Ages(l)
                                  /\ Names(l)' = Names(l)
      /\ Valid(i)' = Valid(i) \cup {j}
      /\ Ages(i)' = [Ages(i) EXCEPT ![j] = TIME]
      /\ Names(i)' = [Names(i) EXCEPT ![j] = t]
  BY <1>1, <1>2, <1>3, SlotChanges
<1>6. PICK q \in Seq(Slots) : Listed(i, q)
  BY <1>1 DEF AllListed
<1>7. /\ Valid(i) \in SUBSET Slots /\ Ages(i) \in [Slots -> Nat] /\ DOMAIN Names(i) = Slots
      /\ Ascending(q, Valid(i), Ages(i)) /\ Later(TIME, Valid(i), Ages(i))
      /\ OrderOf(i) = Along(q, Names(i))
  BY <1>1, <1>6, SetTyped, StampsPast, OrderIs DEF Valid, Names, Listed
<1>8. /\ DOMAIN q = 1 .. Len(q) /\ Len(q) \in Nat
      /\ \A r \in 1 .. Len(q) : q[r] \in Valid(i) /\ Ages(i)[q[r]] \in Nat
      /\ \A r, m \in 1 .. Len(q) : r < m => Ages(i)[q[r]] < Ages(i)[q[m]]
  BY <1>7, AscendingIs
<1>9. Len(q) = num_slots <=> Valid(i) = Slots
  BY <1>1, <1>6, HowMany
<1>10. ~Policy!Holds(i, t)
  <2>1. order[i] = Along(q, Names(i))
    BY <1>1, <1>7
  <2>2. \A r \in 1 .. Len(q) : Along(q, Names(i))[r] # t
    BY <1>2, <1>7, <1>8 DEF Along, Names
  <2>3. DOMAIN Along(q, Names(i)) = 1 .. Len(q)
    BY DEF Along
  <2> QED
    BY <2>1, <2>2, <2>3 DEF Policy!Holds
<1>11. PICK p : /\ Ascending(p, Valid(i) \cup {j}, Ages(i)')
                /\ Along(p, Names(i)')
                     = Append(IF Len(OrderOf(i)) = num_slots THEN Tail(OrderOf(i)) ELSE OrderOf(i), t)
  <2> DEFINE G == {Names(i)[k] : k \in Slots}
  <2>1. \A k \in Slots : Names(i)[k] \in G
    OBVIOUS
  <2> HIDE DEF G
  <2>2. q \in Seq(Slots) /\ OrderOf(i) \in Seq(G) /\ Len(OrderOf(i)) = Len(q)
    <3>1. Along(q, Names(i)) \in Seq(G) /\ Len(Along(q, Names(i))) = Len(q)
      BY <2>1, AlongIs
    <3> QED
      BY <1>7, <3>1
  <2>3. CASE Stops(sets[i], t) = {}
    <3>1. PICK k \in 1 .. Len(q) : q[k] = j
      BY <1>2, <1>7, <1>8, <2>3 DEF Ascending
    <3>2. k = 1
      <4>1. 1 \in 1 .. Len(q) /\ (k # 1 => 1 < k)
        BY <1>8
      <4>2. q[1] \in Slots
        BY <1>7, <1>8, <4>1
      <4>3. Ages(i)[j] <= Ages(i)[q[1]]
        BY <1>4, <2>3, <4>2
      <4> QED
        BY <1>8, <3>1, <4>1, <4>3
    <3>3. Len(q) = num_slots /\ OrderOf(i) # <<>>
      BY <1>2, <1>8, <1>9, <2>2, <2>3, EmptySeq
    <3>4. Policy!Without(OrderOf(i), 1) = Tail(OrderOf(i))
      BY <2>2, <3>3, TailIsWithout
    <3>5. Ages(i)' = [Ages(i) EXCEPT ![q[k]] = TIME] /\ Names(i)' = [Names(i) EXCEPT ![q[k]] = t]
      BY <1>5, <3>1
    <3>6. Moves(Valid(i), Ages(i), q, k, TIME, Ages(i)', Names(i), t, Names(i)')
      BY <1>1, <1>7, <3>5 DEF Moves
    <3>7. /\ Ascending(Append(Policy!Without(q, k), q[k]), Valid(i) \cup {q[k]}, Ages(i)')
          /\ Moved(q, k, Names(i), t, Names(i)')
      BY <3>6, GoesLast
    <3>8. Policy!Without(Along(q, Names(i)), k) = Tail(OrderOf(i)) /\ Len(OrderOf(i)) = num_slots
      BY <1>7, <2>2, <3>2, <3>3, <3>4
    <3> QED
      BY <3>1, <3>7, <3>8 DEF Moved
  <2>4. CASE Stops(sets[i], t) # {}
    <3>1. j \in Slots \ Valid(i) /\ Len(q) # num_slots
      BY <1>2, <1>9, <2>4
    <3>2. Ascending(Append(q, j), Valid(i) \cup {j}, Ages(i)')
      BY <1>1, <1>5, <1>7, <3>1, Comes
    <3>3. \A r \in 1 .. Len(q) : q[r] # j
      BY <1>8, <3>1
    <3>4. Adds(q, j, Names(i), t, Names(i)')
      BY <1>2, <1>5, <1>7, <2>2, <3>3 DEF Adds
    <3>5. Along(Append(q, j), Names(i)') = Append(Along(q, Names(i)), t)
      BY <3>4, AlongAppend
    <3> QED
      BY <1>7, <2>2, <3>1, <3>2, <3>5
  <2> QED
    BY <2>3, <2>4
<1>12. Listed(i, p)'
  BY <1>5, <1>11 DEF Listed
<1>13. /\ AllListed'
       /\ order' = [order EXCEPT ![i] = Along(p, Names(i)')]
  BY <1>1, <1>5, <1>12, Relisted
<1>14. order' = [order EXCEPT ![i] = Append(IF Len(@) = num_slots THEN Tail(@) ELSE @, t)]
  BY <1>1, <1>5, <1>11, <1>13
<1> QED
  BY <1>3, <1>10, <1>13, <1>14 DEF Policy!Bring, i, t


LEMMA BypassPasses ==
  ASSUME IInv, AllListed, NEW a \in Addresses, Bypass(a)
  PROVE  Policy!Pass(calc_index_bits(a), calc_tag_bits(a))
<1> DEFINE i == calc_index_bits(a)
           t == calc_tag_bits(a)
<1>1. i \in Sets /\ TypeOK /\ ~IsHit(sets[i], t)
  BY IndexInSets DEF IInv, Bypass
<1>2. \A k \in Valid(i) : sets[i][k].tag # t
  BY <1>1, FillSlotIs
<1>3. PICK q \in Seq(Slots) : Listed(i, q)
  BY <1>1 DEF AllListed
<1>4. OrderOf(i) = Along(q, Names(i)) /\ Ascending(q, Valid(i), Ages(i))
  BY <1>1, <1>3, OrderIs DEF Listed
<1>5. \A r \in 1 .. Len(q) : q[r] \in Valid(i)
  <2>1. DOMAIN q = 1 .. Len(q)
    BY LenProperties
  <2> QED
    BY <1>4, <2>1 DEF Ascending
<1>6. ~Policy!Holds(i, t)
  <2>1. [l \in Sets |-> OrderOf(l)][i] = Along(q, Names(i))
    BY <1>1, <1>4
  <2>2. \A r \in 1 .. Len(q) : Along(q, Names(i))[r] # t
    BY <1>2, <1>5 DEF Along, Names, Valid
  <2>3. DOMAIN Along(q, Names(i)) = 1 .. Len(q)
    BY DEF Along
  <2> QED
    BY <2>1, <2>2, <2>3 DEF Policy!Holds
<1>7. options' = options /\ sets' = sets /\ last' = <<i, t, "bypass">>
  BY DEF Bypass
<1>8. [l \in Sets |-> OrderOf(l)]' = [l \in Sets |-> OrderOf(l)]
  BY <1>7 DEF OrderOf, Ages, Valid, Stamp
<1> QED
  BY <1>6, <1>7, <1>8 DEF Policy!Pass

LEMMA KeepsListed ==
  ASSUME AllListed, options' = options, sets' = sets
  PROVE  AllListed'
BY DEF AllListed, Listed, Ages, Valid, Stamp

\* handle_address, choose_eviction and slot_in implement the policy: with the
\* stamps they keep, a hit, a block that comes in and the one that it replaces
\* are what least recently used, or first in first out, says they are.
THEOREM TimestampsImplementPolicy == Spec => ImplementsPolicy
<1>1. Init => AllListed /\ Stamps /\ Policy!Init
  <2> SUFFICES ASSUME Init PROVE AllListed /\ Stamps /\ Policy!Init
    OBVIOUS
  <2>1. \A i \in Sets : Valid(i) = {}
    BY DEF Init, Valid
  <2>2. \A i \in Sets : Listed(i, <<>>) /\ TypeOK /\ <<>> \in Seq(Slots)
    BY <2>1, InitIInv DEF Listed, Ascending, IInv
  <2>3. AllListed
    BY <2>2 DEF AllListed
  <2>4. \A i \in Sets : OrderOf(i) = <<>>
    BY <2>2, OrderIs DEF Along
  <2>5. Stamps
    BY <2>1 DEF Stamps
  <2>6. options.is_lru \in BOOLEAN /\ last = <<>>
    BY DEF Init, Options
  <2> QED
    BY <2>3, <2>4, <2>5, <2>6 DEF Policy!Init
<1>2. IInv /\ Stamps /\ AllListed /\ [Next]_vars
        => AllListed' /\ Stamps' /\ [Policy!Next]_(Policy!orderVars)
  <2> SUFFICES ASSUME IInv, Stamps, AllListed, [Next]_vars
               PROVE  AllListed' /\ [Policy!Next]_(Policy!orderVars)
    BY NextStamps
  <2>1. ASSUME NEW is_load \in BOOLEAN, NEW a \in Addresses, handle_address(is_load, a)
        PROVE  AllListed' /\ Policy!Next
    <3> DEFINE i == calc_index_bits(a)
               t == calc_tag_bits(a)
    <3>1. i \in Sets /\ t \in {calc_tag_bits(b) : b \in Addresses}
      BY IndexInSets
    <3>2. ASSUME AllListed', Policy!Use(i, t) \/ Policy!Bring(i, t) \/ Policy!Pass(i, t)
          PROVE  AllListed' /\ Policy!Next
      BY <3>1, <3>2 DEF Policy!Next
    <3>3. CASE Hit(is_load, a)
      BY <3>2, <3>3, HitUses
    <3>4. CASE Fill(is_load, a)
      BY <3>2, <3>4, FillBrings
    <3>5. CASE Bypass(a)
      <4>1. options' = options /\ sets' = sets
        BY <3>5 DEF Bypass
      <4> QED
        BY <3>2, <3>5, <4>1, BypassPasses, KeepsListed
    <3> QED
      BY <2>1, <3>3, <3>4, <3>5 DEF handle_address
  <2>2. CASE UNCHANGED vars
    <3>1. options' = options /\ sets' = sets /\ last' = last
      BY <2>2 DEF vars
    <3>2. [l \in Sets |-> OrderOf(l)]' = [l \in Sets |-> OrderOf(l)]
      BY <3>1 DEF OrderOf, Ages, Valid, Stamp
    <3> QED
      BY <3>1, <3>2, KeepsListed DEF Policy!orderVars
  <2> QED
    BY <2>1, <2>2 DEF Next
<1> QED
  BY <1>1, <1>2, Inductive, PTL DEF Spec, ImplementsPolicy, Policy!Spec

-----------------------------------------------------------------------------
(* UInt256.                                                                *)
(*                                                                         *)
(* Recursion.                                                              *)

\* A set of numbers that is not empty has a least one.
LEMMA LeastIs ==
  ASSUME NEW S, S \subseteq Nat, S # {}
  PROVE  \E m \in S : \A k \in S : m <= k
<1>1. PICK m \in S : \A k \in S : ~(<<k, m>> \in OpToRel(<, Nat))
  BY NatLessThanWellFounded, WFMin, Zenon
<1>2. \A k \in S : ~(k < m)
  <2> SUFFICES ASSUME NEW k \in S, k < m PROVE FALSE
    OBVIOUS
  <2>1. k \in Nat /\ m \in Nat
    BY <1>1, Zenon
  <2>2. <<k, m>> \in OpToRel(<, Nat)
    BY <2>1, Zenon DEF OpToRel
  <2> QED
    BY <1>1, <2>2
<1>3. \A k \in S : k \in Nat /\ m \in Nat
  BY <1>1, Zenon
<1>4. ASSUME NEW k \in S PROVE m <= k
  BY <1>2, <1>3
<1> QED
  BY <1>1, <1>4

\* Induction over the first numbers.
LEMMA Climb ==
  ASSUME NEW n \in Nat, NEW S, 0 \in S, \A k \in 0 .. n - 1 : k \in S => k + 1 \in S
  PROVE  \A k \in 0 .. n : k \in S
<1> DEFINE T == {k \in 0 .. n : k \notin S}
<1> SUFFICES ASSUME T # {} PROVE FALSE
  OBVIOUS
<1>1. T \subseteq Nat
  OBVIOUS
<1>2. PICK m \in T : \A k \in T : m <= k
  BY <1>1, LeastIs
<1>3. m \in 0 .. n /\ m # 0 /\ m \notin S
  BY <1>2
<1>4. m - 1 \in 0 .. n - 1 /\ m - 1 \notin T
  BY <1>2, <1>3
<1>5. m - 1 \in S
  BY <1>4
<1>6. (m - 1) + 1 \in S
  BY <1>4, <1>5
<1> QED
  BY <1>3, <1>6

\* f begins with a and goes on with what g gives.
Follows(f, a, g, n) == f[0] = a /\ \A i \in 1 .. n : f[i] = g[i][f[i - 1]]

\* There is such a function.
LEMMA Recursion ==
  ASSUME NEW n \in Nat, NEW S, NEW a \in S, NEW g \in [1 .. n -> [S -> S]]
  PROVE  \E f \in [0 .. n -> S] : Follows(f, a, g, n)
<1> DEFINE T == {m \in Nat : \E f \in [0 .. m -> S] : Follows(f, a, g, m)}
<1>1. 0 \in T
  <2> DEFINE f == [i \in 0 .. 0 |-> a]
  <2>1. f \in [0 .. 0 -> S] /\ Follows(f, a, g, 0)
    BY DEF Follows
  <2> QED
    BY <2>1
<1>2. ASSUME NEW m \in 0 .. n - 1, m \in T PROVE m + 1 \in T
  <2>1. PICK f \in [0 .. m -> S] : Follows(f, a, g, m)
    BY <1>2
  <2>2. m \in Nat /\ m + 1 \in 1 .. n /\ m \in 0 .. m /\ (m + 1) - 1 = m
    OBVIOUS
  <2> DEFINE x == g[m + 1][f[m]]
             h == [i \in 0 .. m + 1 |-> IF i = m + 1 THEN x ELSE f[i]]
  <2>3. x \in S
    BY <2>1, <2>2
  <2>4. h \in [0 .. m + 1 -> S]
    <3> HIDE DEF x
    <3> QED
      BY <2>1, <2>2, <2>3
  <2>5. h[m + 1] = x /\ \A i \in 0 .. m : h[i] = f[i]
    <3> HIDE DEF x
    <3> QED
      BY <2>2
  <2> HIDE DEF h
  <2>6. ASSUME NEW i \in 1 .. m + 1 PROVE h[i] = g[i][h[i - 1]]
    <3>1. CASE i = m + 1
      BY <2>2, <2>5, <3>1
    <3>2. CASE i # m + 1
      <4>1. i \in 1 .. m /\ i \in 0 .. m /\ i - 1 \in 0 .. m
        BY <2>2, <3>2
      <4> QED
        BY <2>1, <2>5, <4>1 DEF Follows
    <3> QED
      BY <3>1, <3>2
  <2>7. h[0] = a
    BY <2>1, <2>2, <2>5 DEF Follows
  <2>8. Follows(h, a, g, m + 1)
    BY <2>6, <2>7 DEF Follows
  <2> QED
    BY <2>2, <2>4, <2>8
<1>3. \A m \in 0 .. n : m \in T
  <2> HIDE DEF T
  <2> QED
    BY <1>1, <1>2, Climb
<1>4. n \in T
  BY <1>3
<1> QED
  BY <1>4

\* Two functions that agree somewhere agree at the next place.
SameSteps(f, h, n) == \A i \in 1 .. n : f[i - 1] = h[i - 1] => f[i] = h[i]

\* There is only one.
LEMMA SameRecursion ==
  ASSUME NEW n \in Nat, NEW f, NEW h, f[0] = h[0], SameSteps(f, h, n)
  PROVE  \A i \in 0 .. n : f[i] = h[i]
<1> DEFINE T == {i \in Nat : f[i] = h[i]}
<1>1. 0 \in T
  OBVIOUS
<1>2. ASSUME NEW m \in 0 .. n - 1, m \in T PROVE m + 1 \in T
  <2>1. m + 1 \in 1 .. n /\ m + 1 \in Nat /\ (m + 1) - 1 = m
    OBVIOUS
  <2> QED
    BY <1>2, <2>1 DEF SameSteps
<1>3. \A m \in 0 .. n : m \in T
  <2> HIDE DEF T
  <2> QED
    BY <1>1, <1>2, Climb
<1> QED
  BY <1>3

-----------------------------------------------------------------------------
(* Powers.                                                                 *)

\* p has the powers of b up to n.
PowersOf(p, b, n) == p[0] = 1 /\ \A k \in 1 .. n : p[k] = b * p[k - 1]

\* Power is what any such function has.
LEMMA PowerOf ==
  ASSUME NEW b, NEW n \in Nat, NEW p, p \in [0 .. n -> Nat], PowersOf(p, b, n)
  PROVE  Power(b, n) = p[n]
<1> DEFINE Is(q) == q = [k \in 0 .. n |-> IF k = 0 THEN 1 ELSE b * q[k - 1]]
           h == CHOOSE q : Is(q)
<1>1. Is(p)
  BY DEF PowersOf
<1>2. Is(h)
  <2> HIDE DEF Is
  <2> QED
    BY <1>1
<1>3. Power(b, n) = h[n]
  BY DEF Power
<1> HIDE DEF h
<1>4. h[0] = p[0]
  BY <1>2 DEF PowersOf
<1>5. ASSUME NEW i \in 1 .. n, h[i - 1] = p[i - 1] PROVE h[i] = p[i]
  <2>1. i \in 0 .. n /\ i # 0
    OBVIOUS
  <2>2. h[i] = b * h[i - 1]
    BY <1>2, <2>1
  <2> QED
    BY <1>5, <2>2 DEF PowersOf
<1>6. \A i \in 0 .. n : h[i] = p[i]
  <2> HIDE DEF Is
  <2>1. SameSteps(h, p, n)
    BY <1>5 DEF SameSteps
  <2> QED
    BY <1>4, <2>1, SameRecursion
<1> QED
  BY <1>3, <1>6

\* The powers of a number.
LEMMA PowerIs ==
  ASSUME NEW b \in Nat \ {0}
  PROVE  /\ Power(b, 0) = 1
         /\ \A n \in Nat : Power(b, n) \in Nat \ {0} /\ Power(b, n + 1) = b * Power(b, n)
<1>1. ASSUME NEW n \in Nat
      PROVE  \E p \in [0 .. n -> Nat \ {0}] : PowersOf(p, b, n)
  <2> DEFINE S == Nat \ {0}
             g == [i \in 1 .. n |-> [x \in S |-> b * x]]
  <2>1. 1 \in S /\ \A x \in S : b * x \in S
    OBVIOUS
  <2>2. PICK p \in [0 .. n -> S] : Follows(p, 1, g, n)
    <3> HIDE DEF S
    <3>1. g \in [1 .. n -> [S -> S]]
      BY <2>1
    <3> HIDE DEF g
    <3> QED
      BY <2>1, <3>1, Recursion
  <2>3. ASSUME NEW k \in 1 .. n PROVE p[k] = b * p[k - 1]
    <3>1. p[k - 1] \in S
      OBVIOUS
    <3>2. p[k] = g[k][p[k - 1]]
      <4> HIDE DEF g
      <4> QED
        BY <2>2 DEF Follows
    <3> HIDE DEF S
    <3> QED
      BY <3>1, <3>2
  <2> QED
    BY <2>2, <2>3 DEF PowersOf, Follows
<1>2. Power(b, 0) = 1
  <2>1. PICK p \in [0 .. 0 -> Nat \ {0}] : PowersOf(p, b, 0)
    BY <1>1
  <2>2. Power(b, 0) = p[0]
    BY <2>1, PowerOf
  <2> QED
    BY <2>1, <2>2 DEF PowersOf
<1>3. ASSUME NEW n \in Nat
      PROVE  Power(b, n) \in Nat \ {0} /\ Power(b, n + 1) = b * Power(b, n)
  <2>1. n + 1 \in Nat
    OBVIOUS
  <2>2. PICK p \in [0 .. n + 1 -> Nat \ {0}] : PowersOf(p, b, n + 1)
    BY <1>1, <2>1
  <2>3. Power(b, n + 1) = p[n + 1]
    BY <2>1, <2>2, PowerOf
  <2> DEFINE q == [k \in 0 .. n |-> p[k]]
  <2>4. q \in [0 .. n -> Nat] /\ q[n] = p[n] /\ p[n] \in Nat \ {0}
    OBVIOUS
  <2>5. PowersOf(q, b, n)
    BY <2>2 DEF PowersOf
  <2>6. Power(b, n) = p[n]
    <3> HIDE DEF q
    <3> QED
      BY <2>4, <2>5, PowerOf
  <2>7. n + 1 \in 1 .. n + 1 /\ (n + 1) - 1 = n
    OBVIOUS
  <2>8. p[n + 1] = b * p[n]
    BY <2>2, <2>7 DEF PowersOf
  <2> QED
    BY <2>3, <2>4, <2>6, <2>8
<1> QED
  BY <1>2, <1>3

\* Exponents add up.
LEMMA PowerAdd ==
  ASSUME NEW b \in Nat \ {0}, NEW m \in Nat, NEW n \in Nat
  PROVE  Power(b, m + n) = Power(b, m) * Power(b, n)
<1> DEFINE T == {k \in Nat : Power(b, m + k) = Power(b, m) * Power(b, k)}
<1>1. 0 \in T
  <2>1. Power(b, m) \in Nat /\ m + 0 = m /\ Power(b, 0) = 1
    BY PowerIs
  <2> QED
    BY <2>1
<1>2. ASSUME NEW k \in 0 .. n - 1, k \in T PROVE k + 1 \in T
  <2> DEFINE x == Power(b, m)
             y == Power(b, k)
  <2>1. k \in Nat /\ m + k \in Nat /\ k + 1 \in Nat /\ m + (k + 1) = (m + k) + 1
    OBVIOUS
  <2>2. Power(b, k + 1) = b * y /\ Power(b, (m + k) + 1) = b * Power(b, m + k)
        /\ x \in Nat /\ y \in Nat
    BY <2>1, PowerIs
  <2>3. Power(b, m + k) = x * y
    BY <1>2
  <2> HIDE DEF x, y
  <2>4. b * (x * y) = x * (b * y)
    BY <2>2
  <2> QED
    BY <2>1, <2>2, <2>3, <2>4 DEF x
<1>3. \A k \in 0 .. n : k \in T
  <2> HIDE DEF T
  <2> QED
    BY <1>1, <1>2, Climb
<1>4. n \in T
  BY <1>3
<1> QED
  BY <1>4

\* And multiply.
LEMMA PowerMul ==
  ASSUME NEW b \in Nat \ {0}, NEW m \in Nat, NEW n \in Nat
  PROVE  Power(b, m) \in Nat \ {0} /\ Power(b, m * n) = Power(Power(b, m), n)
<1> DEFINE c == Power(b, m)
           T == {k \in Nat : Power(b, m * k) = Power(c, k)}
<1>1. c \in Nat \ {0}
  BY PowerIs
<1>2. 0 \in T
  <2>1. m * 0 = 0
    OBVIOUS
  <2>2. Power(b, 0) = 1 /\ Power(c, 0) = 1
    <3> HIDE DEF c
    <3> QED
      BY <1>1, PowerIs
  <2> QED
    BY <2>1, <2>2
<1>3. ASSUME NEW k \in 0 .. n - 1, k \in T PROVE k + 1 \in T
  <2>1. k \in Nat /\ k + 1 \in Nat /\ m * k \in Nat /\ m * (k + 1) = m * k + m
    OBVIOUS
  <2>2. Power(b, m * k + m) = Power(b, m * k) * c
    BY <2>1, PowerAdd
  <2>3. Power(b, m * k) = Power(c, k)
    BY <1>3
  <2> HIDE DEF c
  <2>4. Power(c, k + 1) = c * Power(c, k) /\ Power(c, k) \in Nat
    BY <1>1, <2>1, PowerIs
  <2>5. Power(c, k) * c = c * Power(c, k)
    BY <1>1, <2>4
  <2> QED
    BY <2>1, <2>2, <2>3, <2>4, <2>5
<1>4. \A k \in 0 .. n : k \in T
  <2> HIDE DEF T
  <2> QED
    BY <1>2, <1>3, Climb
<1>5. n \in T
  BY <1>4
<1> QED
  BY <1>1, <1>5

-----------------------------------------------------------------------------
(* Division.                                                               *)

\* What the remainder and the quotient are.
LEMMA DivModIs ==
  ASSUME NEW x \in Nat, NEW m \in Nat \ {0}
  PROVE  x \div m \in Nat /\ x % m \in 0 .. m - 1 /\ x = m * (x \div m) + (x % m)
<1> DEFINE q == x \div m
           r == x % m
<1>1. q \in Int /\ r \in 0 .. m - 1 /\ x = m * q + r
  OBVIOUS
<1> HIDE DEF q, r
<1>2. q >= 0
  <2> SUFFICES ASSUME q <= 0 - 1 PROVE FALSE
    BY <1>1
  <2>1. m * q <= 0 - m
    BY <1>1
  <2> QED
    BY <1>1, <2>1
<1>3. q \in Nat
  BY <1>1, <1>2
<1>4. q \in Nat /\ r \in 0 .. m - 1 /\ x = m * q + r
  BY <1>1, <1>3
<1> QED
  BY <1>4 DEF q, r

\* There is only one such pair.
LEMMA DivModUnique ==
  ASSUME NEW m \in Nat \ {0}, NEW q \in Int, NEW r \in 0 .. m - 1
  PROVE  (m * q + r) \div m = q /\ (m * q + r) % m = r
<1> DEFINE x == m * q + r
           p == x \div m
           s == x % m
           d == q - p
<1>1. x \in Int
  OBVIOUS
<1>2. p \in Int /\ s \in 0 .. m - 1 /\ x = m * p + s
  <2> HIDE DEF x
  <2> QED
    BY <1>1
<1>3. m * d = s - r
  <2> HIDE DEF p, s
  <2> QED
    BY <1>2
<1>4. d \in Int /\ s - r \in Int /\ s - r < m /\ s - r > 0 - m
  <2> HIDE DEF p, s
  <2> QED
    BY <1>2
<1> HIDE DEF d
<1>5. ~(d >= 1)
  <2> SUFFICES ASSUME d >= 1 PROVE FALSE
    OBVIOUS
  <2>1. m * d >= m
    BY <1>4
  <2> QED
    BY <1>3, <1>4, <2>1
<1>6. ~(d <= 0 - 1)
  <2> SUFFICES ASSUME d <= 0 - 1 PROVE FALSE
    OBVIOUS
  <2>1. m * d <= 0 - m
    BY <1>4
  <2> QED
    BY <1>3, <1>4, <2>1
<1>7. d = 0
  BY <1>4, <1>5, <1>6
<1>8. q = p
  <2> HIDE DEF p
  <2> QED
    BY <1>2, <1>7 DEF d
<1>9. s = r
  <2> HIDE DEF p, s
  <2> QED
    BY <1>2, <1>8
<1> QED
  BY <1>8, <1>9

-----------------------------------------------------------------------------
(* Words and numbers.                                                      *)

\* The number of values of a word, and of the bits below.
LEMMA WordIs ==
  /\ N \in Nat \ {0} /\ DIGITS \in Nat \ {0} /\ HEXBITS \in Nat \ {0} /\ BITS \in Nat \ {0}
  /\ BASE \in Nat /\ BASE >= 2 /\ WORD \in Nat /\ WORD >= 2
  /\ WORD = Power(BASE, DIGITS)
<1>1. N \in Nat \ {0} /\ DIGITS \in Nat \ {0} /\ HEXBITS \in Nat \ {0}
  BY WidthAssumption
<1>2. BITS \in Nat \ {0}
  BY <1>1 DEF BITS
<1>3. ASSUME NEW n \in Nat \ {0} PROVE Power(2, n) \in Nat /\ Power(2, n) >= 2
  <2>1. n - 1 \in Nat /\ (n - 1) + 1 = n
    OBVIOUS
  <2>2. Power(2, n - 1) \in Nat \ {0} /\ Power(2, (n - 1) + 1) = 2 * Power(2, n - 1)
    BY <2>1, PowerIs
  <2> QED
    BY <2>1, <2>2
<1>4. WORD = Power(BASE, DIGITS)
  <2>1. Power(2, HEXBITS * DIGITS) = Power(Power(2, HEXBITS), DIGITS)
    BY <1>1, PowerMul
  <2>2. HEXBITS * DIGITS = DIGITS * HEXBITS
    BY <1>1
  <2> QED
    BY <2>1, <2>2 DEF WORD, BASE, BITS
<1> QED
  BY <1>1, <1>2, <1>3, <1>4 DEF BASE, WORD

\* The powers of it are positive, and each is WORD times the one before.
LEMMA WordPowers ==
  /\ Power(WORD, 0) = 1
  /\ \A k \in Nat : Power(WORD, k) \in Nat \ {0} /\ Power(WORD, k + 1) = WORD * Power(WORD, k)
<1>1. WORD \in Nat \ {0}
  BY WordIs
<1> QED
  BY <1>1, PowerIs

\* The words of a value.
LEMMA UIntIs ==
  ASSUME NEW v \in UInt
  PROVE  /\ DOMAIN v = 0 .. N - 1
         /\ \A k \in 0 .. N - 1 : v[k] \in Nat /\ v[k] <= WORD - 1 /\ v[k] \in 0 .. WORD - 1
BY WordIs DEF UInt, Index

\* Low adds a word at a time.
LEMMA LowIs ==
  ASSUME NEW v \in UInt
  PROVE  /\ Low(v, 0) = 0
         /\ \A k \in 0 .. N : Low(v, k) \in Nat
         /\ \A k \in 0 .. N - 1 : Low(v, k + 1) = Low(v, k) + v[k] * Power(WORD, k)
<1> DEFINE Is(q) == q = [i \in 0 .. N |-> IF i = 0 THEN 0 ELSE q[i - 1] + v[i - 1] * Power(WORD, i - 1)]
           h == CHOOSE q : Is(q)
           g == [i \in 1 .. N |-> [x \in Nat |-> x + v[i - 1] * Power(WORD, i - 1)]]
<1>1. N \in Nat /\ \A i \in 1 .. N : v[i - 1] \in Nat /\ Power(WORD, i - 1) \in Nat
  <2>1. ASSUME NEW i \in 1 .. N PROVE v[i - 1] \in Nat /\ Power(WORD, i - 1) \in Nat
    <3>1. i - 1 \in 0 .. N - 1 /\ i - 1 \in Nat
      BY WordIs
    <3> QED
      BY <3>1, UIntIs, WordPowers
  <2> QED
    BY <2>1, WordIs
<1>2. \A i \in 1 .. N : \A x \in Nat : x + v[i - 1] * Power(WORD, i - 1) \in Nat
  BY <1>1
<1>3. g \in [1 .. N -> [Nat -> Nat]]
  BY <1>2
<1>4. PICK p \in [0 .. N -> Nat] : Follows(p, 0, g, N)
  <2> HIDE DEF g
  <2>1. 0 \in Nat
    OBVIOUS
  <2> QED
    BY <1>1, <1>3, <2>1, Recursion
<1>5. ASSUME NEW i \in 1 .. N PROVE p[i] = p[i - 1] + v[i - 1] * Power(WORD, i - 1)
  <2>1. i - 1 \in 0 .. N
    BY <1>1
  <2>2. p[i - 1] \in Nat
    BY <2>1
  <2>3. p[i] = g[i][p[i - 1]]
    <3> HIDE DEF g
    <3> QED
      BY <1>4 DEF Follows
  <2> QED
    BY <2>2, <2>3
<1>6. Is(p)
  <2>1. p[0] = 0
    BY <1>4 DEF Follows
  <2>2. \A i \in 0 .. N : i # 0 => i \in 1 .. N
    BY <1>1
  <2> QED
    BY <1>5, <2>1, <2>2
<1>7. Is(h)
  <2> HIDE DEF Is
  <2> QED
    BY <1>6
<1>8. \A k : Low(v, k) = h[k]
  BY DEF Low
<1> HIDE DEF h
<1>9. h[0] = 0
  BY <1>1, <1>7
<1>10. ASSUME NEW k \in 0 .. N - 1 PROVE h[k + 1] = h[k] + v[k] * Power(WORD, k)
  <2>1. k + 1 \in 0 .. N /\ k + 1 # 0 /\ (k + 1) - 1 = k
    BY <1>1
  <2> QED
    BY <1>7, <2>1
<1>11. \A k \in 0 .. N : h[k] \in Nat
  <2> DEFINE T == {k \in Nat : h[k] \in Nat}
  <2>1. 0 \in T
    BY <1>9
  <2>2. ASSUME NEW k \in 0 .. N - 1, k \in T PROVE k + 1 \in T
    <3>1. k + 1 \in 1 .. N /\ (k + 1) - 1 = k /\ k + 1 \in Nat
      BY <1>1
    <3>2. h[k] + v[k] * Power(WORD, k) \in Nat
      BY <1>2, <2>2, <3>1
    <3> QED
      BY <1>10, <3>1, <3>2
  <2>3. \A k \in 0 .. N : k \in T
    <3> HIDE DEF T
    <3> QED
      BY <1>1, <2>1, <2>2, Climb
  <2> QED
    BY <2>3
<1> QED
  BY <1>8, <1>9, <1>10, <1>11

\* The low k words stand for less than the k-th power.
LEMMA LowBound ==
  ASSUME NEW v \in UInt
  PROVE  \A k \in 0 .. N : Low(v, k) < Power(WORD, k)
<1> DEFINE T == {k \in Nat : Low(v, k) < Power(WORD, k)}
<1>1. 0 \in T
  BY LowIs, WordPowers
<1>2. ASSUME NEW k \in 0 .. N - 1, k \in T PROVE k + 1 \in T
  <2> DEFINE x == Low(v, k)
             p == Power(WORD, k)
             w == v[k]
  <2>1. N \in Nat /\ k \in Nat /\ k \in 0 .. N /\ k + 1 \in Nat
    BY WordIs
  <2>2. Low(v, k + 1) = x + w * p /\ Power(WORD, k + 1) = WORD * p
    BY <2>1, LowIs, WordPowers
  <2>3. x \in Nat /\ p \in Nat /\ w \in Nat /\ WORD \in Nat /\ x < p /\ w <= WORD - 1
    BY <1>2, <2>1, LowIs, WordPowers, UIntIs, WordIs
  <2> HIDE DEF x, p, w
  <2>4. w * p <= (WORD - 1) * p
    BY <2>3
  <2>5. (WORD - 1) * p = WORD * p - p
    BY <2>3
  <2>6. x + w * p < WORD * p
    BY <2>3, <2>4, <2>5
  <2> QED
    BY <2>1, <2>2, <2>6
<1>3. N \in Nat
  BY WordIs
<1>4. \A k \in 0 .. N : k \in T
  <2> HIDE DEF T
  <2> QED
    BY <1>1, <1>2, <1>3, Climb
<1> QED
  BY <1>4

-----------------------------------------------------------------------------
(* Sums.                                                                   *)

\* f is the flag of add.
Flags(f, l, r) ==
  /\ f \in [0 .. N -> {0, 1}]
  /\ f[0] = 0
  /\ \A i \in 0 .. N - 1 :
       f[i + 1] = IF \/ (l[i] + r[i] + f[i]) % WORD < l[i]
                     \/ (l[i] + r[i] + f[i]) % WORD < r[i] THEN 1 ELSE 0

\* s is the sum of each word with the flag into it.
Sums(s, f, l, r) == \A i \in 0 .. N - 1 : s[i] = (l[i] + r[i] + f[i]) % WORD

\* add has such a flag, and its words are the sums.
LEMMA AddIs ==
  ASSUME NEW l \in UInt, NEW r \in UInt
  PROVE  /\ add(l, r) \in UInt
         /\ \E f : Flags(f, l, r) /\ Sums(add(l, r), f, l, r)
<1> DEFINE carry(i, x) == LET s == (l[i - 1] + r[i - 1] + x) % WORD
                          IN IF s < l[i - 1] \/ s < r[i - 1] THEN 1 ELSE 0
           Is(q) == q = [i \in 0 .. N |->
                           IF i = 0 THEN 0
                           ELSE LET s == (l[i - 1] + r[i - 1] + q[i - 1]) % WORD
                                IN IF s < l[i - 1] \/ s < r[i - 1] THEN 1 ELSE 0]
           h == CHOOSE q : Is(q)
           g == [i \in 1 .. N |-> [x \in {0, 1} |-> carry(i, x)]]
<1>1. N \in Nat
  BY WordIs
<1>2. g \in [1 .. N -> [{0, 1} -> {0, 1}]]
  OBVIOUS
<1>3. PICK p \in [0 .. N -> {0, 1}] : Follows(p, 0, g, N)
  <2> HIDE DEF g
  <2>1. 0 \in {0, 1}
    OBVIOUS
  <2> QED
    BY <1>1, <1>2, <2>1, Recursion
<1>4. ASSUME NEW i \in 1 .. N PROVE p[i] = carry(i, p[i - 1])
  <2>1. i - 1 \in 0 .. N
    BY <1>1
  <2>2. p[i - 1] \in {0, 1}
    BY <2>1
  <2>3. p[i] = g[i][p[i - 1]]
    <3> HIDE DEF g
    <3> QED
      BY <1>3 DEF Follows
  <2>4. g[i][p[i - 1]] = carry(i, p[i - 1])
    <3> HIDE DEF carry
    <3> QED
      BY <2>2
  <2> HIDE DEF g, carry
  <2> QED
    BY <2>3, <2>4
<1>5. Is(p)
  <2>1. p[0] = 0
    BY <1>3 DEF Follows
  <2>2. \A i \in 0 .. N : i # 0 => i \in 1 .. N
    BY <1>1
  <2>3. p = [i \in 0 .. N |-> IF i = 0 THEN 0 ELSE carry(i, p[i - 1])]
    <3> HIDE DEF carry
    <3> QED
      BY <1>4, <2>1, <2>2
  <2> QED
    BY <2>3
<1>6. Is(h)
  <2> HIDE DEF Is
  <2> QED
    BY <1>5
<1>7. add(l, r) = [i \in Index |-> (l[i] + r[i] + h[i]) % WORD]
  BY DEF add
<1> HIDE DEF h
<1>8. h[0] = 0
  BY <1>1, <1>6
<1>9. ASSUME NEW i \in 0 .. N - 1
      PROVE  /\ h[i + 1] = IF \/ (l[i] + r[i] + h[i]) % WORD < l[i]
                              \/ (l[i] + r[i] + h[i]) % WORD < r[i] THEN 1 ELSE 0
  <2>1. i + 1 \in 0 .. N /\ i + 1 # 0 /\ (i + 1) - 1 = i
    BY <1>1
  <2> QED
    BY <1>6, <2>1
<1>10. \A i \in 0 .. N : h[i] \in {0, 1}
  BY <1>6
<1>11. DOMAIN h = 0 .. N /\ h = [i \in 0 .. N |-> h[i]]
  BY <1>6
<1>12. h \in [0 .. N -> {0, 1}]
  <2> HIDE DEF Is
  <2> QED
    BY <1>10, <1>11
<1>13. Flags(h, l, r)
  <2> HIDE DEF Is
  <2> QED
    BY <1>8, <1>9, <1>12 DEF Flags
<1>14. Sums(add(l, r), h, l, r)
  BY <1>7 DEF Sums, Index
<1>15. add(l, r) \in UInt
  <2>1. ASSUME NEW i \in 0 .. N - 1 PROVE (l[i] + r[i] + h[i]) % WORD \in 0 .. WORD - 1
    <3>1. l[i] \in Nat /\ r[i] \in Nat /\ h[i] \in Nat /\ WORD \in Nat \ {0}
      <4> HIDE DEF Is
      <4>1. i \in 0 .. N
        BY <1>1
      <4>2. h[i] \in {0, 1}
        BY <1>10, <4>1
      <4> QED
        BY <4>2, UIntIs, WordIs
    <3>2. l[i] + r[i] + h[i] \in Nat
      BY <3>1
    <3> QED
      BY <3>1, <3>2, DivModIs
  <2> QED
    BY <1>7, <2>1 DEF UInt, Index
<1> QED
  BY <1>13, <1>14, <1>15

\* One word: s is the sum, and g the flag that comes out.
Summed(W, a, b, f, s, g) == s = (a + b + f) % W /\ g = IF s < a \/ s < b THEN 1 ELSE 0

\* The flag is the carry, but for two words that are all ones and a flag that
\* comes in.
Carried(W, a, b, f, s, g) ==
  IF f = 1 /\ a = W - 1 /\ b = W - 1 THEN g = 0 /\ a + b + f = s + W
  ELSE a + b + f = s + g * W

\* One word is added right, but for the carry that is lost.
LEMMA WordSum ==
  ASSUME NEW W \in Nat, W >= 2, NEW a \in 0 .. W - 1, NEW b \in 0 .. W - 1, NEW f \in {0, 1},
         NEW s, NEW g, Summed(W, a, b, f, s, g)
  PROVE  Carried(W, a, b, f, s, g)
<1> DEFINE x == a + b + f
           c == IF x >= W THEN 1 ELSE 0
<1>1. x \in Nat /\ x <= 2 * W - 1 /\ c \in {0, 1}
  OBVIOUS
<1>2. s = x % W /\ g = IF s < a \/ s < b THEN 1 ELSE 0
  BY DEF Summed
<1>3. s = x - c * W
  <2>1. x - c * W \in 0 .. W - 1 /\ x = W * c + (x - c * W)
    BY <1>1
  <2>2. (W * c + (x - c * W)) % W = x - c * W
    <3> DEFINE y == x - c * W
    <3>1. y \in 0 .. W - 1 /\ c \in Int /\ W \in Nat \ {0}
      BY <1>1, <2>1
    <3> HIDE DEF y, c
    <3>2. (W * c + y) % W = y
      BY <3>1, DivModUnique
    <3> QED
      BY <3>2 DEF y
  <2> QED
    BY <1>2, <2>1, <2>2
<1>4. CASE x < W
  BY <1>2, <1>1, <1>3, <1>4 DEF Carried
<1>5. CASE x >= W
  BY <1>2, <1>1, <1>3, <1>5 DEF Carried
<1> QED
  BY <1>1, <1>4, <1>5

\* What the words below k of a sum lack of the sum of the words below k: the
\* carries lost on the way.
Lack(s, f, l, r, k) == Low(l, k) + Low(r, k) - Low(s, k) - f[k] * Power(WORD, k)

\* The flag comes into two words that are all ones.
Loses(f, l, r, k) == f[k] = 1 /\ l[k] = WORD - 1 /\ r[k] = WORD - 1

\* A word that loses its carry adds it to what is lacking; any other word
\* leaves that as it is.
LEMMA LackStep ==
  ASSUME NEW l \in UInt, NEW r \in UInt, NEW s \in UInt, NEW f,
         Flags(f, l, r), Sums(s, f, l, r), NEW k \in 0 .. N - 1
  PROVE  Lack(s, f, l, r, k + 1) =
           Lack(s, f, l, r, k) + IF Loses(f, l, r, k) THEN Power(WORD, k + 1) ELSE 0
<1> DEFINE P == Power(WORD, k)
           a == l[k]
           b == r[k]
           c == s[k]
           e == f[k]
           g == f[k + 1]
           la == Low(l, k)
           lb == Low(r, k)
           ls == Low(s, k)
           lost == IF e = 1 /\ a = WORD - 1 /\ b = WORD - 1 THEN 1 ELSE 0
<1>1. N \in Nat /\ WORD \in Nat /\ WORD >= 2 /\ k \in Nat /\ k \in 0 .. N /\ k + 1 \in 0 .. N
  BY WordIs
<1>2. a \in 0 .. WORD - 1 /\ b \in 0 .. WORD - 1 /\ c \in 0 .. WORD - 1
  BY UIntIs
<1>3. e \in {0, 1} /\ g \in {0, 1}
  BY <1>1 DEF Flags
<1>4. c = (a + b + e) % WORD
  BY DEF Sums
<1>5. g = IF c < a \/ c < b THEN 1 ELSE 0
  BY <1>4 DEF Flags
<1>6. a + b + e = c + g * WORD + lost * WORD
  <2> HIDE DEF a, b, c, e, g
  <2>1. Carried(WORD, a, b, e, c, g)
    <3>1. WORD \in Nat
      BY <1>1
    <3>2. WORD >= 2
      BY <1>1
    <3>3. a \in 0 .. WORD - 1
      BY <1>2
    <3>4. b \in 0 .. WORD - 1
      BY <1>2
    <3>5. e \in {0, 1}
      BY <1>3
    <3>6. Summed(WORD, a, b, e, c, g)
      BY <1>4, <1>5 DEF Summed
    <3> QED
      BY <3>6, <3>1, <3>2, <3>3, <3>4, <3>5, WordSum, Zenon
  <2> QED
    BY <1>1, <1>2, <1>3, <2>1 DEF Carried, lost
<1>7. P \in Nat /\ Power(WORD, k + 1) = WORD * P /\ la \in Nat /\ lb \in Nat /\ ls \in Nat
  BY <1>1, WordPowers, LowIs
<1>8. Low(l, k + 1) = la + a * P /\ Low(r, k + 1) = lb + b * P /\ Low(s, k + 1) = ls + c * P
  BY LowIs
<1>9. lost \in {0, 1}
  OBVIOUS
<1>10. Lack(s, f, l, r, k) = la + lb - ls - e * P
  BY DEF Lack
<1>11. Lack(s, f, l, r, k + 1) = (la + a * P) + (lb + b * P) - (ls + c * P) - g * (WORD * P)
  BY <1>7, <1>8 DEF Lack
<1>12. (IF Loses(f, l, r, k) THEN Power(WORD, k + 1) ELSE 0) = lost * (WORD * P)
  <2>1. CASE Loses(f, l, r, k)
    <3>1. lost = 1
      BY <2>1 DEF Loses
    <3> QED
      BY <1>1, <1>7, <2>1, <3>1
  <2>2. CASE ~Loses(f, l, r, k)
    <3>1. lost = 0
      BY <2>2 DEF Loses
    <3> QED
      BY <1>1, <1>7, <2>2, <3>1
  <2> QED
    BY <2>1, <2>2
<1> HIDE DEF P, a, b, c, e, g, la, lb, ls, lost
<1>13. a * P + b * P + e * P = c * P + g * (WORD * P) + lost * (WORD * P)
  <2>1. (a + b + e) * P = (c + g * WORD + lost * WORD) * P
    BY <1>6
  <2>2. (a + b + e) * P = a * P + b * P + e * P
    BY <1>2, <1>3, <1>7
  <2>3. (c + g * WORD + lost * WORD) * P = c * P + (g * WORD) * P + (lost * WORD) * P
    BY <1>1, <1>2, <1>3, <1>7, <1>9
  <2>4. (g * WORD) * P = g * (WORD * P) /\ (lost * WORD) * P = lost * (WORD * P)
    BY <1>1, <1>3, <1>7, <1>9
  <2> QED
    BY <2>1, <2>2, <2>3, <2>4
<1>14. (la + a * P) + (lb + b * P) - (ls + c * P) - g * (WORD * P)
         = (la + lb - ls - e * P) + lost * (WORD * P)
  <2>1. a * P \in Int /\ b * P \in Int /\ c * P \in Int /\ e * P \in Int
    BY <1>2, <1>3, <1>7
  <2>2. g * (WORD * P) \in Int /\ lost * (WORD * P) \in Int
    BY <1>1, <1>3, <1>7, <1>9
  <2> DEFINE u == a * P
             v == b * P
             w == c * P
             x == e * P
             y == g * (WORD * P)
             z == lost * (WORD * P)
  <2>3. /\ {u, v, w, x, y, z} \subseteq Int
        /\ u + v + x = w + y + z
    BY <1>13, <2>1, <2>2
  <2> HIDE DEF u, v, w, x, y, z
  <2>4. la \in Int /\ lb \in Int /\ ls \in Int
    BY <1>7
  <2>5. u \in Int /\ v \in Int /\ w \in Int /\ x \in Int /\ y \in Int /\ z \in Int
    BY <2>3
  <2>6. u + v + x = w + y + z
    BY <2>3
  <2>7. (la + u) + (lb + v) - (ls + w) - y = (la + lb - ls - x) + z
    BY <2>4, <2>5, <2>6
  <2> QED
    BY <2>7 DEF u, v, w, x, y, z
<1> QED
  BY <1>10, <1>11, <1>12, <1>14

\* What is lacking is not negative and less than twice the power.
LEMMA LackBound ==
  ASSUME NEW l \in UInt, NEW r \in UInt, NEW s \in UInt, NEW f,
         Flags(f, l, r), Sums(s, f, l, r)
  PROVE  \A k \in 0 .. N : /\ Lack(s, f, l, r, k) \in Nat
                           /\ Lack(s, f, l, r, k) < 2 * Power(WORD, k)
<1> DEFINE D(k) == Lack(s, f, l, r, k)
           T == {k \in Nat : D(k) \in Nat}
<1>1. N \in Nat
  BY WordIs
<1>2. 0 \in T
  <2>1. Low(l, 0) = 0 /\ Low(r, 0) = 0 /\ Low(s, 0) = 0 /\ Power(WORD, 0) = 1
    BY LowIs, WordPowers
  <2>2. f[0] = 0
    BY DEF Flags
  <2>3. D(0) = 0
    BY <2>1, <2>2 DEF Lack
  <2> QED
    BY <2>3
<1>3. ASSUME NEW k \in 0 .. N - 1, k \in T PROVE k + 1 \in T
  <2>1. D(k + 1) = D(k) + IF Loses(f, l, r, k) THEN Power(WORD, k + 1) ELSE 0
    BY LackStep
  <2>2. k + 1 \in Nat /\ Power(WORD, k + 1) \in Nat
    BY <1>1, WordPowers
  <2>3. D(k) \in Nat
    BY <1>3
  <2> HIDE DEF D
  <2>4. D(k + 1) \in Nat
    BY <2>1, <2>2, <2>3
  <2> QED
    BY <2>2, <2>4
<1>4. \A k \in 0 .. N : k \in T
  <2> HIDE DEF T
  <2> QED
    BY <1>1, <1>2, <1>3, Climb
<1>5. ASSUME NEW k \in 0 .. N PROVE D(k) < 2 * Power(WORD, k)
  <2>1. Low(l, k) < Power(WORD, k) /\ Low(r, k) < Power(WORD, k)
    BY LowBound
  <2>2. Low(l, k) \in Nat /\ Low(r, k) \in Nat /\ Low(s, k) \in Nat
    BY LowIs
  <2>3. f[k] \in {0, 1}
    BY DEF Flags
  <2>4. k \in Nat /\ Power(WORD, k) \in Nat
    BY <1>1, WordPowers
  <2> QED
    BY <2>1, <2>2, <2>3, <2>4 DEF Lack
<1> QED
  BY <1>4, <1>5

\* What is lacking stays.
LEMMA LackStays ==
  ASSUME NEW l \in UInt, NEW r \in UInt, NEW s \in UInt, NEW f,
         Flags(f, l, r), Sums(s, f, l, r), NEW i \in 0 .. N, NEW j \in i .. N,
         Lack(s, f, l, r, i) > 0
  PROVE  Lack(s, f, l, r, j) > 0
<1> DEFINE D(k) == Lack(s, f, l, r, k)
           T == {m \in Nat : D(i + m) > 0}
<1>1. N \in Nat /\ i \in Nat /\ j - i \in Nat
  BY WordIs
<1>2. 0 \in T
  <2>1. i + 0 = i
    BY <1>1
  <2> QED
    BY <2>1
<1>3. ASSUME NEW m \in 0 .. (j - i) - 1, m \in T PROVE m + 1 \in T
  <2>1. i + m \in 0 .. N - 1 /\ i + m \in 0 .. N /\ i + (m + 1) = (i + m) + 1 /\ m + 1 \in Nat
        /\ (i + m) + 1 \in Nat
    BY <1>1
  <2> DEFINE n == i + m
  <2>2. n \in 0 .. N - 1 /\ n \in 0 .. N /\ n + 1 \in Nat
    BY <2>1
  <2>3. D(n) > 0
    BY <1>3
  <2> HIDE DEF n
  <2>4. D(n + 1) = D(n) + IF Loses(f, l, r, n) THEN Power(WORD, n + 1) ELSE 0
    BY <2>2, LackStep
  <2>5. D(n) \in Nat /\ Power(WORD, n + 1) \in Nat
    BY <2>2, LackBound, WordPowers
  <2>6. D(n + 1) > 0
    <3> HIDE DEF D
    <3> QED
      BY <2>3, <2>4, <2>5
  <2>7. D(i + (m + 1)) > 0
    BY <2>1, <2>6 DEF n
  <2> QED
    BY <2>1, <2>7
<1>4. \A m \in 0 .. j - i : m \in T
  <2> HIDE DEF T
  <2> QED
    BY <1>1, <1>2, <1>3, Climb
<1>5. j - i \in T /\ i + (j - i) = j
  BY <1>1, <1>4
<1> QED
  BY <1>5

\* Something is lacking below the last word exactly when a carry was lost.
LEMMA LackIsLost ==
  ASSUME NEW l \in UInt, NEW r \in UInt, NEW s \in UInt, NEW f,
         Flags(f, l, r), Sums(s, f, l, r)
  PROVE  Lack(s, f, l, r, N - 1) > 0 <=> LostCarry(l, r)
<1> DEFINE D(k) == Lack(s, f, l, r, k)
<1>1. N \in Nat \ {0} /\ N - 1 \in 0 .. N /\ WORD \in Nat
  BY WordIs
<1>2. \A k \in 0 .. N : D(k) \in Nat
  BY LackBound
<1>3. ASSUME NEW k \in 0 .. N - 1, D(k) = 0
      PROVE  f[k] = 1 <=> Low(l, k) + Low(r, k) >= Power(WORD, k)
  <2>1. k \in Nat /\ k \in 0 .. N
    BY <1>1
  <2>2. Low(l, k) \in Nat /\ Low(r, k) \in Nat /\ Low(s, k) \in Nat /\ Low(s, k) < Power(WORD, k)
    BY <2>1, LowIs, LowBound
  <2>3. Power(WORD, k) \in Nat /\ f[k] \in {0, 1}
    BY <2>1, WordPowers DEF Flags
  <2>4. Low(l, k) + Low(r, k) - Low(s, k) - f[k] * Power(WORD, k) = 0
    BY <1>3 DEF Lack
  <2> QED
    BY <2>2, <2>3, <2>4
<1>4. ASSUME NEW k \in 0 .. N - 1, D(k) = 0
      PROVE  D(k + 1) > 0 <=> Loses(f, l, r, k)
  <2>1. k + 1 \in Nat /\ Power(WORD, k + 1) \in Nat \ {0}
    BY <1>1, WordPowers
  <2>2. D(k + 1) = D(k) + IF Loses(f, l, r, k) THEN Power(WORD, k + 1) ELSE 0
    BY LackStep
  <2> HIDE DEF D
  <2> QED
    BY <1>4, <2>1, <2>2
<1>5. f[0] = 0 /\ D(0) = 0
  <2>1. Low(l, 0) = 0 /\ Low(r, 0) = 0 /\ Low(s, 0) = 0 /\ Power(WORD, 0) = 1
    BY LowIs, WordPowers
  <2>2. f[0] = 0
    BY DEF Flags
  <2> QED
    BY <2>1, <2>2 DEF Lack
<1>6. ASSUME D(N - 1) > 0 PROVE LostCarry(l, r)
  <2> DEFINE S == {k \in 0 .. N - 1 : D(k) > 0}
  <2>1. N - 1 \in S /\ S \subseteq Nat
    BY <1>1, <1>6
  <2>2. PICK m \in S : \A k \in S : m <= k
    <3> HIDE DEF S
    <3> QED
      BY <2>1, LeastIs
  <2>3. m \in 0 .. N - 1 /\ D(m) > 0
    BY <2>2
  <2>4. m # 0
    <3> HIDE DEF D
    <3> QED
      BY <1>5, <2>3
  <2> DEFINE i == m - 1
  <2>5. i \in 0 .. N - 2 /\ i \in 0 .. N - 1 /\ i \in 0 .. N /\ i + 1 = m /\ i < m
    BY <1>1, <2>3, <2>4
  <2>6. i \notin S
    <3> HIDE DEF S, i
    <3> QED
      BY <2>1, <2>2, <2>3, <2>5
  <2> HIDE DEF i
  <2>7. D(i) = 0
    <3>1. ~(D(i) > 0) /\ D(i) \in Nat
      BY <1>2, <2>5, <2>6
    <3> HIDE DEF D
    <3> QED
      BY <3>1
  <2>8. Loses(f, l, r, i)
    BY <1>4, <2>3, <2>5, <2>7
  <2>9. f[i] = 1 /\ l[i] = WORD - 1 /\ r[i] = WORD - 1
    BY <2>8 DEF Loses
  <2>10. i # 0
    BY <1>5, <2>9
  <2>11. i \in 1 .. N - 2
    BY <1>1, <2>5, <2>10
  <2>12. Low(l, i) + Low(r, i) >= Power(WORD, i)
    BY <1>3, <2>5, <2>7, <2>9
  <2> QED
    BY <2>9, <2>11, <2>12 DEF LostCarry
<1>7. ASSUME LostCarry(l, r) PROVE D(N - 1) > 0
  <2>1. PICK i \in 1 .. N - 2 : /\ l[i] = WORD - 1 /\ r[i] = WORD - 1
                                /\ Low(l, i) + Low(r, i) >= Power(WORD, i)
    BY <1>7 DEF LostCarry
  <2>2. i \in 0 .. N - 1 /\ i \in 0 .. N /\ i + 1 \in 0 .. N /\ N - 1 \in i .. N /\ N - 1 \in i + 1 .. N
    BY <1>1
  <2>3. CASE D(i) > 0
    BY <2>2, <2>3, LackStays
  <2>4. CASE D(i) = 0
    <3>1. f[i] = 1
      BY <1>3, <2>1, <2>2, <2>4
    <3>2. Loses(f, l, r, i)
      BY <2>1, <3>1 DEF Loses
    <3>3. D(i + 1) > 0
      BY <1>4, <2>2, <2>4, <3>2
    <3> QED
      BY <2>2, <3>3, LackStays
  <2>5. D(i) \in Nat
    BY <1>2, <2>2
  <2>6. D(i) > 0 \/ D(i) = 0
    <3> HIDE DEF D
    <3> QED
      BY <2>5
  <2> QED
    BY <2>3, <2>4, <2>6
<1> QED
  BY <1>6, <1>7

\* The number of values.
LEMMA ModulusIs ==
  /\ Modulus \in Nat \ {0}
  /\ \A v \in UInt : Num(v) \in Nat /\ Num(v) < Modulus
<1>1. N \in Nat /\ N \in 0 .. N
  BY WordIs
<1> QED
  BY <1>1, WordPowers, LowIs, LowBound DEF Modulus, Num

\* Remainders of what differs by multiples.
LEMMA SameRemainder ==
  ASSUME NEW m \in Nat \ {0}, NEW x \in Nat, x < m, NEW y \in Int, NEW q \in Int, y = m * q + x
  PROVE  y % m = x
BY DivModUnique

\* add is exact unless it loses a carry below the last word.
LEMMA AddExact ==
  ASSUME NEW l \in UInt, NEW r \in UInt
  PROVE  Num(add(l, r)) = (Num(l) + Num(r)) % Modulus <=> ~LostCarry(l, r)
<1> DEFINE s == add(l, r)
<1>1. s \in UInt
  BY AddIs
<1>2. PICK f : Flags(f, l, r) /\ Sums(s, f, l, r)
  BY AddIs
<1> HIDE DEF s
<1>3. N - 1 \in 0 .. N - 1 /\ N - 1 \in 0 .. N /\ N \in 0 .. N /\ (N - 1) + 1 = N /\ N - 1 \in Nat /\ N \in Nat
  BY WordIs
<1> DEFINE D == Lack(s, f, l, r, N - 1)
           E == Lack(s, f, l, r, N)
           P == Power(WORD, N - 1)
           M == Modulus
           lost == IF Loses(f, l, r, N - 1) THEN 1 ELSE 0
           nl == Num(l)
           nr == Num(r)
           ns == Num(s)
           e == f[N]
<1>4. D \in Nat /\ D < 2 * P
  BY <1>1, <1>2, <1>3, LackBound
<1>5. P \in Nat /\ M = WORD * P /\ WORD \in Nat /\ WORD >= 2 /\ M \in Nat \ {0}
  BY <1>3, WordPowers, WordIs, ModulusIs DEF Modulus
<1>6. E = D + lost * M /\ lost \in {0, 1}
  <2>1. Lack(s, f, l, r, (N - 1) + 1)
          = D + IF Loses(f, l, r, N - 1) THEN Power(WORD, (N - 1) + 1) ELSE 0
    BY <1>1, <1>2, <1>3, LackStep
  <2>2. E = D + IF Loses(f, l, r, N - 1) THEN M ELSE 0
    BY <1>3, <2>1 DEF Modulus
  <2> HIDE DEF D, E, M
  <2> QED
    BY <1>4, <1>5, <2>2
<1>7. nl \in Nat /\ nr \in Nat /\ ns \in Nat /\ ns < M
  BY <1>1, ModulusIs
<1>8. e \in {0, 1}
  BY <1>2, <1>3 DEF Flags
<1>9. E = nl + nr - ns - e * M
  BY DEF Lack, Num, Modulus
<1>10. D > 0 <=> LostCarry(l, r)
  BY <1>1, <1>2, LackIsLost
<1> DEFINE t == e + lost
<1>11. t \in Nat
  BY <1>6, <1>8
<1>12. nl + nr = M * t + (D + ns)
  <2> HIDE DEF D, E, M, nl, nr, ns, e, lost
  <2>1. M * t = M * e + M * lost /\ M * e = e * M /\ M * lost = lost * M
    BY <1>5, <1>6, <1>8
  <2>2. e * M \in Int /\ lost * M \in Int
    BY <1>5, <1>6, <1>8
  <2>3. D + lost * M = nl + nr - ns - e * M
    BY <1>6, <1>9
  <2> QED
    BY <1>4, <1>7, <2>1, <2>2, <2>3
<1>13. D < M
  <2> HIDE DEF D, P, M
  <2>1. 2 * P <= WORD * P
    BY <1>5
  <2> QED
    BY <1>4, <1>5, <2>1
<1> HIDE DEF D, E, P, M, nl, nr, ns, e, lost, t
<1>14. CASE D = 0
  <2>1. nl + nr = M * t + ns /\ nl + nr \in Int /\ t \in Int
    BY <1>5, <1>7, <1>11, <1>12, <1>14
  <2>2. (nl + nr) % M = ns
    BY <1>5, <1>7, <2>1, SameRemainder
  <2>3. ~(D > 0)
    BY <1>14
  <2> QED
    BY <1>10, <2>2, <2>3 DEF s, nl, nr, ns, M
<1>15. CASE D # 0
  <2>1. D > 0
    BY <1>4, <1>15
  <2>2. ASSUME (nl + nr) % M = ns PROVE FALSE
    <3>1. CASE D + ns < M
      <4> DEFINE x == D + ns
                 y == nl + nr
      <4>1. x \in Nat /\ x < M /\ y \in Int /\ t \in Int /\ M \in Nat \ {0} /\ y = M * t + x
        BY <1>4, <1>5, <1>7, <1>11, <1>12, <3>1
      <4>2. y % M = ns
        BY <2>2
      <4>3. x # ns
        BY <1>4, <1>7, <2>1
      <4> HIDE DEF x, y
      <4>4. y % M = x
        BY <4>1, SameRemainder
      <4> QED
        BY <4>2, <4>3, <4>4
    <3>2. CASE D + ns >= M
      <4>1. D + ns - M \in Nat /\ D + ns - M < M /\ nl + nr \in Int /\ t + 1 \in Int
        BY <1>4, <1>5, <1>7, <1>11, <1>13, <3>2
      <4>2. M * (t + 1) = M * t + M /\ M * t \in Int
        BY <1>5, <1>11
      <4>3. nl + nr = M * (t + 1) + (D + ns - M)
        BY <1>4, <1>5, <1>7, <1>12, <4>2
      <4>4. (nl + nr) % M = D + ns - M
        <5> DEFINE x == D + ns - M
                   y == nl + nr
        <5>1. x \in Nat /\ x < M /\ y \in Int /\ y = M * (t + 1) + x
          BY <4>1, <4>3
        <5> HIDE DEF x, y
        <5>2. y % M = x
          BY <1>5, <4>1, <5>1, SameRemainder
        <5> QED
          BY <5>2 DEF x, y
      <4> QED
        BY <1>4, <1>5, <1>7, <1>13, <2>2, <4>4
    <3> QED
      BY <1>4, <1>5, <1>7, <3>1, <3>2
  <2> QED
    BY <1>10, <2>1, <2>2 DEF s, nl, nr, ns, M
<1> QED
  BY <1>14, <1>15

-----------------------------------------------------------------------------
(* The negation.                                                           *)

\* One.
LEMMA OneIs ==
  /\ create_from_u32(1) \in UInt
  /\ Num(create_from_u32(1)) = 1
  /\ \A i \in 1 .. N - 1 : create_from_u32(1)[i] = 0
<1> DEFINE one == create_from_u32(1)
<1>1. N \in Nat \ {0} /\ WORD \in Nat /\ WORD >= 2
  BY WordIs
<1>2. one = [i \in 0 .. N - 1 |-> IF i = 0 THEN 1 ELSE 0]
  BY DEF create_from_u32, Index
<1> HIDE DEF one
<1>3. one \in UInt
  BY <1>1, <1>2 DEF UInt, Index
<1>4. one[0] = 1 /\ \A i \in 1 .. N - 1 : one[i] = 0
  <2>1. 0 \in 0 .. N - 1 /\ \A i \in 1 .. N - 1 : i \in 0 .. N - 1 /\ i # 0
    BY <1>1
  <2> QED
    BY <1>2, <2>1
<1> DEFINE T == {k \in Nat : Low(one, k + 1) = 1}
<1>5. 0 \in T
  <2>1. 0 \in 0 .. N - 1
    BY <1>1
  <2>2. Low(one, 0 + 1) = Low(one, 0) + one[0] * Power(WORD, 0)
    BY <1>3, <2>1, LowIs
  <2>3. Low(one, 0) = 0 /\ Power(WORD, 0) = 1
    BY <1>3, LowIs, WordPowers
  <2> QED
    BY <1>4, <2>2, <2>3
<1>6. ASSUME NEW k \in 0 .. (N - 1) - 1, k \in T PROVE k + 1 \in T
  <2> DEFINE j == k + 1
  <2>1. j \in 0 .. N - 1 /\ j \in 1 .. N - 1 /\ j \in Nat
    BY <1>1
  <2>2. Low(one, j) = 1
    BY <1>6
  <2> HIDE DEF j
  <2>3. Low(one, j + 1) = Low(one, j) + one[j] * Power(WORD, j)
    BY <1>3, <2>1, LowIs
  <2>4. Power(WORD, j) \in Nat /\ one[j] = 0
    BY <1>4, <2>1, WordPowers
  <2>5. Low(one, j + 1) = 1
    BY <2>2, <2>3, <2>4
  <2> QED
    BY <2>1, <2>5 DEF j
<1>7. N - 1 \in Nat /\ (N - 1) + 1 = N
  BY <1>1
<1>8. \A k \in 0 .. N - 1 : k \in T
  <2> HIDE DEF T
  <2> QED
    BY <1>5, <1>6, <1>7, Climb
<1>9. Num(one) = 1
  <2>1. N - 1 \in T
    BY <1>7, <1>8
  <2> QED
    BY <1>7, <2>1 DEF Num
<1> QED
  BY <1>3, <1>4, <1>9 DEF one

\* The words of a value inverted.
LEMMA InverseIs ==
  ASSUME NEW v \in UInt
  PROVE  /\ [i \in Index |-> WORD - 1 - v[i]] \in UInt
         /\ Num([i \in Index |-> WORD - 1 - v[i]]) = Modulus - 1 - Num(v)
<1> DEFINE w == [i \in Index |-> WORD - 1 - v[i]]
<1>1. N \in Nat \ {0} /\ WORD \in Nat
  BY WordIs
<1>2. \A k \in 0 .. N - 1 : w[k] = WORD - 1 - v[k]
  BY DEF Index
<1>3. w \in UInt
  <2>1. \A k \in 0 .. N - 1 : WORD - 1 - v[k] \in 0 .. WORD - 1
    BY <1>1, UIntIs
  <2> QED
    BY <2>1 DEF UInt, Index
<1> HIDE DEF w
<1> DEFINE T == {k \in Nat : Low(w, k) = Power(WORD, k) - 1 - Low(v, k)}
<1>4. 0 \in T
  <2>1. Low(w, 0) = 0 /\ Low(v, 0) = 0 /\ Power(WORD, 0) = 1
    BY <1>3, LowIs, WordPowers
  <2> QED
    BY <2>1
<1>5. ASSUME NEW k \in 0 .. N - 1, k \in T PROVE k + 1 \in T
  <2> DEFINE p == Power(WORD, k)
             x == Low(v, k)
             y == Low(w, k)
             a == v[k]
             b == w[k]
  <2>1. k \in Nat /\ k + 1 \in Nat /\ k \in 0 .. N
    BY <1>1
  <2>2. Low(w, k + 1) = y + b * p /\ Low(v, k + 1) = x + a * p
    BY <1>3, LowIs
  <2>3. p \in Nat /\ Power(WORD, k + 1) = WORD * p
    BY <2>1, WordPowers
  <2>4. x \in Nat /\ y \in Nat /\ a \in Nat
    BY <1>3, <2>1, LowIs, UIntIs
  <2>5. b = WORD - 1 - a /\ y = p - 1 - x
    BY <1>2, <1>5
  <2> HIDE DEF p, x, y, a, b
  <2>6. b * p = WORD * p - p - a * p
    BY <1>1, <2>3, <2>4, <2>5
  <2>7. WORD * p \in Int /\ a * p \in Int
    BY <1>1, <2>3, <2>4
  <2>8. y + b * p = WORD * p - 1 - (x + a * p)
    BY <2>3, <2>4, <2>5, <2>6, <2>7
  <2> QED
    BY <2>1, <2>2, <2>3, <2>8
<1>6. \A k \in 0 .. N : k \in T
  <2> HIDE DEF T
  <2> QED
    BY <1>1, <1>4, <1>5, Climb
<1>7. N \in T
  BY <1>1, <1>6
<1>8. Num(w) = Modulus - 1 - Num(v)
  BY <1>7 DEF Num, Modulus
<1> QED
  BY <1>3, <1>8 DEF w

\* negate gives the two's complement.
LEMMA NegateExact ==
  ASSUME NEW v \in UInt
  PROVE  negate(v) \in UInt /\ Num(negate(v)) = (Modulus - Num(v)) % Modulus
<1> DEFINE one == create_from_u32(1)
           w == [i \in Index |-> WORD - 1 - v[i]]
<1>1. one \in UInt /\ Num(one) = 1
  BY OneIs
<1>2. w \in UInt /\ Num(w) = Modulus - 1 - Num(v)
  BY InverseIs
<1>3. negate(v) = add(one, w)
  BY DEF negate
<1>4. ~LostCarry(one, w)
  <2>1. WORD \in Nat /\ WORD >= 2 /\ N \in Nat
    BY WordIs
  <2>2. ASSUME NEW i \in 1 .. N - 2, one[i] = WORD - 1 PROVE FALSE
    <3>1. i \in 1 .. N - 1
      BY <2>1
    <3>2. one[i] = 0
      BY <3>1, OneIs
    <3> HIDE DEF one
    <3> QED
      BY <2>1, <2>2, <3>2
  <2> HIDE DEF one, w
  <2> QED
    BY <2>2 DEF LostCarry
<1> HIDE DEF one, w
<1>5. add(one, w) \in UInt /\ Num(add(one, w)) = (Num(one) + Num(w)) % Modulus
  BY <1>1, <1>2, <1>4, AddExact, AddIs
<1>6. Num(one) + Num(w) = Modulus - Num(v)
  BY <1>1, <1>2, ModulusIs
<1> QED
  BY <1>3, <1>5, <1>6

\* Adding the two's complement is subtracting.
LEMMA SubExact ==
  ASSUME NEW l \in UInt, NEW r \in UInt
  PROVE  Num(sub(l, r)) = (Num(l) - Num(r)) % Modulus <=> ~LostCarry(l, negate(r))
<1> DEFINE n == negate(r)
           M == Modulus
           a == Num(l)
           b == Num(r)
<1>1. n \in UInt /\ Num(n) = (M - b) % M
  BY NegateExact
<1>2. Num(sub(l, r)) = (a + Num(n)) % M <=> ~LostCarry(l, n)
  BY <1>1, AddExact DEF sub
<1>3. M \in Nat \ {0} /\ a \in Nat /\ a < M /\ b \in Nat /\ b < M
  BY ModulusIs
<1> HIDE DEF n, M, a, b
<1>4. (a + Num(n)) % M = (a - b) % M
  <2>1. CASE b = 0
    <3>1. M - b \in Int /\ M - b = M * 1 + 0 /\ 0 \in Nat /\ 0 < M /\ 1 \in Int
      BY <1>3, <2>1
    <3>2. (M - b) % M = 0
      BY <1>3, <3>1, SameRemainder
    <3> QED
      BY <1>1, <1>3, <2>1, <3>2
  <2>2. CASE b # 0
    <3> DEFINE c == M - b
    <3>1. c \in Nat /\ c < M /\ c \in Int /\ c = M * 0 + c /\ 0 \in Int
      BY <1>3, <2>2
    <3>2. c % M = c
      <4> HIDE DEF c
      <4> QED
        BY <1>3, <3>1, SameRemainder
    <3>3. Num(n) = M - b
      BY <1>1, <3>2
    <3>4. CASE a >= b
      <4> DEFINE x == a - b
                 y == a + (M - b)
      <4>1. x \in Nat /\ x < M /\ y \in Int /\ x \in Int /\ 0 \in Int /\ 1 \in Int
        BY <1>3, <3>4
      <4>2. y = M * 1 + x /\ x = M * 0 + x
        BY <1>3
      <4> HIDE DEF x, y
      <4>3. y % M = x
        BY <1>3, <4>1, <4>2, SameRemainder
      <4>4. x % M = x
        BY <1>3, <4>1, <4>2, SameRemainder
      <4> QED
        BY <3>3, <4>3, <4>4 DEF x, y
    <3>5. CASE a < b
      <4> DEFINE x == a - b
                 y == a + (M - b)
      <4>1. y \in Nat /\ y < M /\ y \in Int /\ x \in Int /\ 0 \in Int /\ 0 - 1 \in Int
        BY <1>3, <3>5
      <4>2. y = M * 0 + y /\ x = M * (0 - 1) + y
        BY <1>3
      <4> HIDE DEF x, y
      <4>3. y % M = y
        BY <1>3, <4>1, <4>2, SameRemainder
      <4>4. x % M = y
        BY <1>3, <4>1, <4>2, SameRemainder
      <4> QED
        BY <3>3, <4>3, <4>4 DEF x, y
    <3> QED
      BY <1>3, <3>4, <3>5
  <2> QED
    BY <2>1, <2>2
<1> QED
  BY <1>2, <1>4 DEF n, M, a, b

-----------------------------------------------------------------------------
(* Rotations.                                                              *)

\* y is x turned: of a * c values, the a parts of c are cut into c parts of a.
Turn(x, y, a, c) ==
  \E h \in 0 .. a - 1 : \E t \in 0 .. c - 1 : x = h * c + t /\ y = t * a + h

\* A turn as a shift to the left and what is shifted out.
LEMMA TurnIs ==
  ASSUME NEW a \in Nat \ {0}, NEW c \in Nat \ {0}, NEW x \in Nat, NEW y \in Nat, Turn(x, y, a, c)
  PROVE  y = ((x * a) % (a * c)) + (x \div c)
<1>1. PICK h \in 0 .. a - 1, t \in 0 .. c - 1 : x = h * c + t /\ y = t * a + h
  BY DEF Turn
<1>2. x \div c = h
  <2>1. h * c = c * h /\ h \in Int
    OBVIOUS
  <2>2. (c * h + t) \div c = h
    BY <2>1, DivModUnique
  <2> QED
    BY <1>1, <2>1, <2>2
<1>3. (x * a) % (a * c) = t * a
  <2> DEFINE m == a * c
             r == t * a
  <2>1. m \in Nat \ {0}
    OBVIOUS
  <2>2. r \in Nat /\ r <= m - 1
    <3>1. t * a <= (c - 1) * a
      OBVIOUS
    <3>2. (c - 1) * a = c * a - a /\ c * a = a * c /\ c * a \in Nat /\ t * a \in Nat
      OBVIOUS
    <3> QED
      BY <3>1, <3>2
  <2>3. x * a = m * h + r
    <3>1. (h * c + t) * a = (h * c) * a + t * a
      OBVIOUS
    <3>2. (h * c) * a = (a * c) * h
      OBVIOUS
    <3> QED
      BY <1>1, <3>1, <3>2
  <2>4. r \in 0 .. m - 1 /\ h \in Int
    <3> HIDE DEF m, r
    <3> QED
      BY <2>1, <2>2
  <2> HIDE DEF m, r
  <2>5. (m * h + r) % m = r
    BY <2>1, <2>4, DivModUnique
  <2>6. (x * a) % m = r
    BY <2>3, <2>5
  <2> QED
    BY <2>6 DEF m, r
<1> QED
  BY <1>1, <1>2, <1>3

\* Two turns are one.
LEMMA TurnTwice ==
  ASSUME NEW a \in Nat \ {0}, NEW b \in Nat \ {0}, NEW d \in Nat \ {0},
         NEW x \in Nat, NEW y \in Nat, NEW z \in Nat,
         Turn(x, y, a, b * d), Turn(y, z, b, a * d)
  PROVE  Turn(x, z, a * b, d)
<1>1. PICK h \in 0 .. a - 1, t \in 0 .. b * d - 1 : x = h * (b * d) + t /\ y = t * a + h
  BY DEF Turn
<1>2. PICK g \in 0 .. b - 1, s \in 0 .. a * d - 1 : y = g * (a * d) + s /\ z = s * b + g
  BY DEF Turn
<1> DEFINE q == t \div d
           r == t % d
<1>3. t \in Nat /\ t < b * d
  BY <1>1
<1>4. q \in Nat /\ r \in 0 .. d - 1 /\ t = d * q + r
  BY <1>3, DivModIs
<1> HIDE DEF q, r
<1>5. q \in 0 .. b - 1
  <2> SUFFICES ASSUME q >= b PROVE FALSE
    BY <1>4
  <2>1. d * q >= d * b
    BY <1>4
  <2>2. d * b = b * d
    OBVIOUS
  <2> QED
    BY <1>3, <1>4, <2>1, <2>2
<1> DEFINE m == a * d
           p == r * a + h
<1>6. m \in Nat \ {0}
  OBVIOUS
<1>7. p \in 0 .. m - 1
  <2>1. r * a <= (d - 1) * a
    BY <1>4
  <2>2. (d - 1) * a = d * a - a /\ d * a = a * d /\ d * a \in Nat /\ r * a \in Nat
    BY <1>4
  <2>3. p \in Nat /\ p <= m - 1
    BY <1>1, <2>1, <2>2
  <2> HIDE DEF m, p
  <2> QED
    BY <1>6, <2>3
<1>8. y = m * q + p
  <2>1. (d * q + r) * a = (d * q) * a + r * a /\ (d * q) * a = (a * d) * q
    BY <1>4
  <2>2. y = (a * d) * q + r * a + h
    BY <1>1, <1>4, <2>1
  <2>3. (a * d) * q \in Nat /\ r * a \in Nat /\ h \in Nat
    BY <1>1, <1>4
  <2> QED
    BY <2>2, <2>3
<1>9. y = m * g + s /\ s \in 0 .. m - 1 /\ g \in Int
  BY <1>2
<1>10. g = q /\ s = p
  <2> HIDE DEF m, p
  <2>1. q \in Int
    BY <1>4
  <2>2. (m * q + p) \div m = q /\ (m * q + p) % m = p
    BY <1>6, <1>7, <2>1, DivModUnique
  <2>3. (m * g + s) \div m = g /\ (m * g + s) % m = s
    BY <1>6, <1>9, DivModUnique
  <2> QED
    BY <1>8, <1>9, <2>2, <2>3
<1> HIDE DEF m
<1> DEFINE H == h * b + q
<1>11. H \in 0 .. a * b - 1
  <2>1. h * b <= (a - 1) * b
    BY <1>1
  <2>2. (a - 1) * b = a * b - b /\ a * b \in Nat /\ h * b \in Nat
    BY <1>1
  <2> QED
    BY <1>5, <2>1, <2>2
<1>12. x = H * d + r
  <2>1. (h * b + q) * d = (h * b) * d + q * d /\ (h * b) * d = h * (b * d) /\ q * d = d * q
    BY <1>1, <1>4
  <2>2. h * (b * d) \in Nat /\ d * q \in Nat
    BY <1>1, <1>4
  <2>3. x = h * (b * d) + (d * q + r)
    BY <1>1, <1>4
  <2> QED
    BY <1>4, <2>1, <2>2, <2>3
<1>13. z = r * (a * b) + H
  <2>1. (r * a + h) * b = (r * a) * b + h * b /\ (r * a) * b = r * (a * b)
    BY <1>1, <1>4
  <2>2. r * (a * b) \in Nat /\ h * b \in Nat
    BY <1>1, <1>4
  <2>3. z = (r * a + h) * b + q
    BY <1>2, <1>10
  <2> QED
    BY <1>4, <2>1, <2>2, <2>3
<1> HIDE DEF H
<1> QED
  BY <1>4, <1>11, <1>12, <1>13 DEF Turn

\* The remainders that the indices of a rotation have.
LEMMA AroundIs ==
  ASSUME NEW x \in Int
  PROVE  /\ x \in 0 .. N - 1 => x % N = x
         /\ x \in (0 - N) .. (0 - 1) => x % N = x + N
         /\ x \in N .. 2 * N - 1 => x % N = x - N
<1>1. N \in Nat \ {0}
  BY WordIs
<1>2. ASSUME x \in 0 .. N - 1 PROVE x % N = x
  <2>1. N * 0 + x = x /\ 0 \in Int
    BY <1>1
  <2>2. (N * 0 + x) % N = x
    BY <1>1, <1>2, <2>1, DivModUnique
  <2> QED
    BY <2>1, <2>2
<1>3. ASSUME x \in (0 - N) .. (0 - 1) PROVE x % N = x + N
  <2> DEFINE r == x + N
  <2>1. N * (0 - 1) + r = x /\ 0 - 1 \in Int /\ r \in 0 .. N - 1
    BY <1>1, <1>3
  <2> HIDE DEF r
  <2>2. (N * (0 - 1) + r) % N = r
    BY <1>1, <2>1, DivModUnique
  <2> QED
    BY <2>1, <2>2 DEF r
<1>4. ASSUME x \in N .. 2 * N - 1 PROVE x % N = x - N
  <2> DEFINE r == x - N
  <2>1. N * 1 + r = x /\ 1 \in Int /\ r \in 0 .. N - 1
    BY <1>1, <1>4
  <2> HIDE DEF r
  <2>2. (N * 1 + r) % N = r
    BY <1>1, <2>1, DivModUnique
  <2> QED
    BY <2>1, <2>2 DEF r
<1> QED
  BY <1>2, <1>3, <1>4

\* A value moved up by b whole words.
Shift(v, b) == [i \in 0 .. N - 1 |-> v[(i - b) % N]]

\* Its words.
LEMMA ShiftIs ==
  ASSUME NEW v \in UInt, NEW b \in 0 .. N - 1
  PROVE  /\ Shift(v, b) \in UInt
         /\ \A i \in 0 .. N - 1 : /\ (i - b) % N \in 0 .. N - 1
                                  /\ Shift(v, b)[i] = v[IF i >= b THEN i - b ELSE i - b + N]
<1>1. N \in Nat \ {0}
  BY WordIs
<1>2. ASSUME NEW i \in 0 .. N - 1
      PROVE  /\ (i - b) % N = IF i >= b THEN i - b ELSE i - b + N
             /\ (i - b) % N \in 0 .. N - 1
  <2> DEFINE x == i - b
  <2>1. x \in Int
    BY <1>1
  <2>2. CASE i >= b
    <3>1. x \in 0 .. N - 1
      BY <1>1, <2>2
    <3>2. x % N = x
      <4> HIDE DEF x
      <4> QED
        BY <2>1, <3>1, AroundIs
    <3> QED
      BY <2>2, <3>1, <3>2
  <2>3. CASE i < b
    <3>1. x \in (0 - N) .. (0 - 1) /\ x + N \in 0 .. N - 1
      BY <1>1, <2>3
    <3>2. x % N = x + N
      <4> HIDE DEF x
      <4> QED
        BY <2>1, <3>1, AroundIs
    <3>3. ~(i >= b)
      BY <1>1, <2>3
    <3> QED
      BY <3>1, <3>2, <3>3
  <2> QED
    BY <1>1, <2>2, <2>3
<1>3. Shift(v, b) \in UInt
  <2>1. \A i \in 0 .. N - 1 : v[(i - b) % N] \in 0 .. WORD - 1
    BY <1>2, UIntIs
  <2> QED
    BY <2>1 DEF Shift, UInt, Index
<1>4. \A i \in 0 .. N - 1 : Shift(v, b)[i] = v[(i - b) % N]
  BY DEF Shift
<1> QED
  BY <1>2, <1>3, <1>4

\* Moving by one more word is moving by one word once more.
LEMMA ShiftNext ==
  ASSUME NEW v \in UInt, NEW b \in 0 .. N - 1, b + 1 \in 0 .. N - 1
  PROVE  Shift(v, b + 1) = Shift(Shift(v, b), 1)
<1> DEFINE u == Shift(v, b)
<1>1. N \in Nat \ {0} /\ 1 \in 0 .. N - 1
  BY WordIs
<1>2. u \in UInt /\ \A i \in 0 .. N - 1 : u[i] = v[IF i >= b THEN i - b ELSE i - b + N]
  BY ShiftIs
<1> HIDE DEF u
<1>3. ASSUME NEW i \in 0 .. N - 1 PROVE Shift(v, b + 1)[i] = Shift(u, 1)[i]
  <2>1. Shift(v, b + 1)[i] = v[IF i >= b + 1 THEN i - (b + 1) ELSE i - (b + 1) + N]
    BY ShiftIs
  <2>2. Shift(u, 1)[i] = u[IF i >= 1 THEN i - 1 ELSE i - 1 + N]
    BY <1>1, <1>2, ShiftIs
  <2> DEFINE j == IF i >= 1 THEN i - 1 ELSE i - 1 + N
  <2>3. j \in 0 .. N - 1
    BY <1>1
  <2>4. u[j] = v[IF j >= b THEN j - b ELSE j - b + N]
    <3> HIDE DEF j
    <3> QED
      BY <1>2, <2>3
  <2>5. (IF i >= b + 1 THEN i - (b + 1) ELSE i - (b + 1) + N)
          = (IF j >= b THEN j - b ELSE j - b + N)
    BY <1>1
  <2> HIDE DEF j
  <2>6. Shift(u, 1)[i] = u[j]
    BY <2>2 DEF j
  <2> QED
    BY <2>1, <2>4, <2>5, <2>6
<1>4. Shift(v, b + 1) = [i \in 0 .. N - 1 |-> Shift(v, b + 1)[i]]
      /\ Shift(u, 1) = [i \in 0 .. N - 1 |-> Shift(u, 1)[i]]
  BY DEF Shift
<1>5. Shift(v, b + 1) = Shift(u, 1)
  BY <1>3, <1>4
<1> QED
  BY <1>5 DEF u

\* Moving by one word is a turn.
LEMMA ShiftOneTurns ==
  ASSUME NEW v \in UInt, 1 \in 0 .. N - 1
  PROVE  Turn(Num(v), Num(Shift(v, 1)), WORD, Power(WORD, N - 1))
<1> DEFINE u == Shift(v, 1)
           h == v[N - 1]
           t == Low(v, N - 1)
           P == Power(WORD, N - 1)
<1>1. N \in Nat \ {0} /\ N - 1 \in 0 .. N - 1 /\ N - 1 \in 0 .. N /\ (N - 1) + 1 = N
      /\ WORD \in Nat \ {0} /\ N - 1 \in Nat
  BY WordIs
<1>2. u \in UInt /\ u[0] = h /\ \A i \in 1 .. N - 1 : u[i] = v[i - 1]
  <2>1. \A i \in 0 .. N - 1 : u[i] = v[IF i >= 1 THEN i - 1 ELSE i - 1 + N]
    BY ShiftIs
  <2>2. 0 \in 0 .. N - 1 /\ ~(0 >= 1) /\ 0 - 1 + N = N - 1
    BY <1>1
  <2>3. u[0] = h
    <3> HIDE DEF u
    <3> QED
      BY <2>1, <2>2
  <2>4. \A i \in 1 .. N - 1 : i \in 0 .. N - 1 /\ i >= 1
    BY <1>1
  <2>5. \A i \in 1 .. N - 1 : u[i] = v[i - 1]
    <3> HIDE DEF u
    <3> QED
      BY <2>1, <2>4
  <2> QED
    BY <2>3, <2>5, ShiftIs
<1> HIDE DEF u
<1>3. h \in 0 .. WORD - 1 /\ t \in Nat /\ P \in Nat \ {0} /\ t < P
  BY <1>1, UIntIs, LowIs, LowBound, WordPowers
<1> DEFINE T == {k \in Nat : Low(u, k + 1) = Low(v, k) * WORD + h}
<1>4. 0 \in T
  <2>1. 0 \in 0 .. N - 1
    BY <1>1
  <2>2. Low(u, 0 + 1) = Low(u, 0) + u[0] * Power(WORD, 0)
    BY <1>2, <2>1, LowIs
  <2>3. Low(u, 0) = 0 /\ Low(v, 0) = 0 /\ Power(WORD, 0) = 1
    BY <1>2, LowIs, WordPowers
  <2>4. h \in Nat
    BY <1>1, <1>3
  <2> HIDE DEF h
  <2>5. Low(u, 0 + 1) = Low(v, 0) * WORD + h
    BY <1>1, <1>2, <2>2, <2>3, <2>4
  <2> QED
    BY <2>5
<1>5. ASSUME NEW k \in 0 .. (N - 1) - 1, k \in T PROVE k + 1 \in T
  <2> DEFINE j == k + 1
             p == Power(WORD, k)
             x == Low(v, k)
             a == v[k]
  <2>1. j \in 0 .. N - 1 /\ j \in 1 .. N - 1 /\ j \in Nat /\ k \in 0 .. N - 1 /\ k \in 0 .. N
        /\ k \in Nat /\ j - 1 = k
    BY <1>1
  <2>2. Low(v, j) = x + a * p
    BY <2>1, LowIs
  <2>3. x \in Nat /\ a \in Nat /\ p \in Nat /\ Power(WORD, j) = WORD * p
    BY <2>1, LowIs, UIntIs, WordPowers
  <2>4. Low(u, j) = x * WORD + h
    BY <1>5
  <2>5. u[j] = a
    BY <1>2, <2>1
  <2> HIDE DEF j
  <2>6. Low(u, j + 1) = Low(u, j) + u[j] * Power(WORD, j)
    BY <1>2, <2>1, LowIs
  <2> HIDE DEF x, a, p, h
  <2>7. (x + a * p) * WORD = x * WORD + a * (WORD * p)
    BY <1>1, <2>3
  <2>8. Low(u, j + 1) = (x * WORD + h) + a * (WORD * p)
    BY <2>3, <2>4, <2>5, <2>6
  <2>9. x * WORD \in Nat /\ a * (WORD * p) \in Nat /\ h \in Nat
    BY <1>1, <1>3, <2>3
  <2>10. Low(u, j + 1) = (x + a * p) * WORD + h
    BY <2>7, <2>8, <2>9
  <2> QED
    BY <2>1, <2>2, <2>10 DEF j
<1>6. \A k \in 0 .. N - 1 : k \in T
  <2> HIDE DEF T
  <2> QED
    BY <1>1, <1>4, <1>5, Climb
<1>7. N - 1 \in T
  BY <1>1, <1>6
<1>8. Num(u) = t * WORD + h
  BY <1>1, <1>7 DEF Num
<1>9. Num(v) = h * P + t
  <2>1. Low(v, (N - 1) + 1) = t + h * P
    BY <1>1, LowIs
  <2>2. h * P \in Nat
    BY <1>1, <1>3
  <2> HIDE DEF h, t, P
  <2> QED
    BY <1>1, <1>3, <2>1, <2>2 DEF Num
<1>10. t \in 0 .. P - 1
  BY <1>3
<1> HIDE DEF h, t, P
<1> QED
  BY <1>3, <1>8, <1>9, <1>10 DEF Turn, u, P

\* Moving by whole words is a turn.
LEMMA ShiftTurns ==
  ASSUME NEW v \in UInt, NEW b \in 0 .. N - 1
  PROVE  Turn(Num(v), Num(Shift(v, b)), Power(WORD, b), Power(WORD, N - b))
<1> DEFINE T == {k \in Nat : Turn(Num(v), Num(Shift(v, k)), Power(WORD, k), Power(WORD, N - k))}
<1>1. N \in Nat \ {0} /\ WORD \in Nat \ {0} /\ b \in Nat
  BY WordIs
<1>2. Num(v) \in Nat /\ Num(v) < Modulus /\ Modulus \in Nat \ {0}
  BY ModulusIs
<1>3. 0 \in T
  <2>1. 0 \in 0 .. N - 1
    BY <1>1
  <2>2. \A i \in 0 .. N - 1 : Shift(v, 0)[i] = v[i]
    <3>1. \A i \in 0 .. N - 1 : Shift(v, 0)[i] = v[IF i >= 0 THEN i - 0 ELSE i - 0 + N]
      BY <2>1, ShiftIs
    <3>2. \A i \in 0 .. N - 1 : i >= 0 /\ i - 0 = i
      BY <1>1
    <3> QED
      BY <3>1, <3>2
  <2>3. Shift(v, 0) = v
    <3>1. v = [i \in 0 .. N - 1 |-> v[i]]
      BY DEF UInt, Index
    <3>2. Shift(v, 0) = [i \in 0 .. N - 1 |-> Shift(v, 0)[i]]
      BY DEF Shift
    <3> QED
      BY <2>2, <3>1, <3>2
  <2>4. Power(WORD, 0) = 1 /\ N - 0 = N
    BY <1>1, WordPowers
  <2>5. Turn(Num(v), Num(v), 1, Modulus)
    <3> DEFINE x == Num(v)
    <3>1. 0 \in 0 .. 1 - 1 /\ x \in 0 .. Modulus - 1 /\ x = 0 * Modulus + x /\ x = x * 1 + 0
      BY <1>2
    <3> HIDE DEF x
    <3> QED
      BY <3>1 DEF Turn, x
  <2> QED
    BY <2>3, <2>4, <2>5 DEF Modulus
<1>4. ASSUME NEW k \in 0 .. b - 1, k \in T PROVE k + 1 \in T
  <2> DEFINE u == Shift(v, k)
             w == Shift(v, k + 1)
             a == Power(WORD, k)
             d == Power(WORD, N - (k + 1))
  <2>1. k \in 0 .. N - 1 /\ k + 1 \in 0 .. N - 1 /\ 1 \in 0 .. N - 1 /\ k \in Nat /\ k + 1 \in Nat
        /\ N - (k + 1) \in Nat /\ (N - (k + 1)) + 1 = N - k /\ k + (N - (k + 1)) = N - 1
    BY <1>1
  <2>2. u \in UInt /\ w = Shift(u, 1)
    BY <2>1, ShiftIs, ShiftNext
  <2>3. w \in UInt
    BY <2>1, ShiftIs
  <2>4. a \in Nat \ {0} /\ d \in Nat \ {0} /\ Power(WORD, k + 1) = WORD * a
        /\ Power(WORD, (N - (k + 1)) + 1) = WORD * d
    BY <2>1, WordPowers
  <2>5. Power(WORD, N - 1) = a * d
    <3>1. Power(WORD, k + (N - (k + 1))) = a * d
      BY <1>1, <2>1, PowerAdd
    <3> QED
      BY <2>1, <3>1
  <2>6. Turn(Num(v), Num(u), a, WORD * d)
    BY <1>4, <2>1, <2>4
  <2> HIDE DEF u, w, a, d
  <2>7. Turn(Num(u), Num(w), WORD, a * d)
    BY <2>1, <2>2, <2>5, ShiftOneTurns
  <2>8. Num(u) \in Nat /\ Num(w) \in Nat
    BY <2>2, <2>3, ModulusIs
  <2>9. Turn(Num(v), Num(w), a * WORD, d)
    BY <1>1, <1>2, <2>4, <2>6, <2>7, <2>8, TurnTwice
  <2>10. a * WORD = Power(WORD, k + 1)
    BY <1>1, <2>4
  <2> QED
    BY <2>1, <2>9, <2>10 DEF w, d
<1>5. \A k \in 0 .. b : k \in T
  <2> HIDE DEF T
  <2> QED
    BY <1>1, <1>3, <1>4, Climb
<1> QED
  BY <1>1, <1>5

\* A value moved up by less than a word, of which the top of each word goes
\* into the word above.  a * c is WORD.
Slide(u, a, c) ==
  [i \in 0 .. N - 1 |-> ((u[i] * a) % WORD) + (u[(i - 1) % N] \div c)]

\* A word of it.
LEMMA SlideWord ==
  ASSUME NEW a \in Nat \ {0}, NEW c \in Nat \ {0}, WORD = a * c,
         NEW x \in 0 .. WORD - 1, NEW y \in 0 .. WORD - 1
  PROVE  /\ x \div c \in 0 .. a - 1 /\ x % c \in 0 .. c - 1 /\ x = c * (x \div c) + (x % c)
         /\ (x * a) % WORD = (x % c) * a
         /\ ((x * a) % WORD) + (y \div c) \in 0 .. WORD - 1
<1>1. ASSUME NEW z \in 0 .. WORD - 1
      PROVE  /\ z \div c \in 0 .. a - 1 /\ z % c \in 0 .. c - 1 /\ z = c * (z \div c) + (z % c)
  <2> DEFINE q == z \div c
             r == z % c
  <2>1. z \in Nat /\ z < a * c
    BY WordIs
  <2>2. q \in Nat /\ r \in 0 .. c - 1 /\ z = c * q + r
    BY <2>1, DivModIs
  <2> HIDE DEF q, r
  <2>3. q < a
    <3> SUFFICES ASSUME q >= a PROVE FALSE
      BY <2>2
    <3>1. c * q >= c * a /\ c * a = a * c
      BY <2>2
    <3> QED
      BY <2>1, <2>2, <3>1
  <2>4. q \in 0 .. a - 1
    BY <2>2, <2>3
  <2> QED
    BY <2>2, <2>4 DEF q, r
<1> DEFINE h == x \div c
           t == x % c
           g == y \div c
<1>2. h \in 0 .. a - 1 /\ t \in 0 .. c - 1 /\ x = c * h + t /\ g \in 0 .. a - 1
  BY <1>1
<1> HIDE DEF h, t, g
<1>3. WORD \in Nat \ {0}
  BY WordIs
<1> DEFINE r == t * a
<1>4. r \in Nat /\ r <= WORD - a
  <2>1. t * a <= (c - 1) * a
    BY <1>2
  <2>2. (c - 1) * a = c * a - a /\ c * a = a * c /\ c * a \in Nat /\ t * a \in Nat
    BY <1>2
  <2> QED
    BY <2>1, <2>2
<1>5. x * a = WORD * h + r
  <2>1. (c * h + t) * a = (c * h) * a + t * a /\ (c * h) * a = (a * c) * h
    BY <1>2
  <2> QED
    BY <1>2, <2>1
<1>6. (x * a) % WORD = r
  <2>1. r \in 0 .. WORD - 1 /\ h \in Int
    BY <1>2, <1>3, <1>4
  <2> HIDE DEF r
  <2>2. (WORD * h + r) % WORD = r
    BY <1>3, <2>1, DivModUnique
  <2> QED
    BY <1>5, <2>2
<1>7. r + g \in 0 .. WORD - 1
  BY <1>2, <1>3, <1>4
<1> QED
  BY <1>1, <1>6, <1>7 DEF t, g

\* It is a value, and that a turn.
LEMMA SlideTurns ==
  ASSUME NEW u \in UInt, NEW a \in Nat \ {0}, NEW c \in Nat \ {0}, WORD = a * c
  PROVE  /\ Slide(u, a, c) \in UInt
         /\ Turn(Num(u), Num(Slide(u, a, c)), a, c * Power(WORD, N - 1))
<1> DEFINE s == Slide(u, a, c)
           H(i) == u[i] \div c
           R(i) == u[i] % c
           h == H(N - 1)
           prev(i) == IF i = 0 THEN N - 1 ELSE i - 1
<1>1. N \in Nat \ {0} /\ N - 1 \in 0 .. N - 1 /\ N - 1 \in 0 .. N /\ (N - 1) + 1 = N
      /\ WORD \in Nat \ {0} /\ N - 1 \in Nat
  BY WordIs
<1>2. ASSUME NEW i \in 0 .. N - 1
      PROVE  prev(i) \in 0 .. N - 1 /\ (i - 1) % N = prev(i)
  <2> DEFINE x == i - 1
  <2>1. x \in Int /\ prev(i) \in 0 .. N - 1
    BY <1>1
  <2>2. CASE i = 0
    <3>1. x \in (0 - N) .. (0 - 1) /\ x + N = prev(i)
      BY <1>1, <2>2
    <3> HIDE DEF x
    <3>2. x % N = x + N
      BY <2>1, <3>1, AroundIs
    <3>3. x % N = prev(i)
      BY <3>1, <3>2
    <3> QED
      BY <2>1, <3>3 DEF x
  <2>3. CASE i # 0
    <3>1. x \in 0 .. N - 1 /\ x = prev(i)
      BY <1>1, <2>3
    <3> HIDE DEF x
    <3>2. x % N = x
      BY <2>1, <3>1, AroundIs
    <3>3. x % N = prev(i)
      BY <3>1, <3>2
    <3> QED
      BY <2>1, <3>3 DEF x
  <2> QED
    BY <2>2, <2>3
<1>3. ASSUME NEW i \in 0 .. N - 1
      PROVE  /\ H(i) \in 0 .. a - 1 /\ R(i) \in 0 .. c - 1 /\ u[i] = c * H(i) + R(i)
             /\ s[i] = R(i) * a + H(prev(i))
             /\ s[i] \in 0 .. WORD - 1
  <2> DEFINE x == u[i]
             y == u[prev(i)]
  <2>1. x \in 0 .. WORD - 1 /\ y \in 0 .. WORD - 1
    BY <1>2, UIntIs
  <2>2. s[i] = ((x * a) % WORD) + (y \div c)
    BY <1>2 DEF Slide
  <2> HIDE DEF x, y, s
  <2>3. /\ x \div c \in 0 .. a - 1 /\ x % c \in 0 .. c - 1 /\ x = c * (x \div c) + (x % c)
        /\ (x * a) % WORD = (x % c) * a
        /\ ((x * a) % WORD) + (y \div c) \in 0 .. WORD - 1
    BY <2>1, SlideWord
  <2> QED
    BY <2>2, <2>3 DEF x, y
<1>4. s \in UInt
  <2>1. s = [i \in 0 .. N - 1 |-> s[i]]
    BY DEF Slide
  <2> HIDE DEF s
  <2> QED
    BY <1>3, <2>1 DEF UInt, Index
<1> HIDE DEF s
<1>5. h \in Nat /\ h <= a - 1
  <2>1. h \in 0 .. a - 1
    BY <1>1, <1>3
  <2> HIDE DEF h
  <2> QED
    BY <2>1
<1> DEFINE T == {k \in Nat : Low(s, k) + H(prev(k)) * Power(WORD, k) = a * Low(u, k) + h}
<1>6. 0 \in T
  <2>1. Low(s, 0) = 0 /\ Low(u, 0) = 0 /\ Power(WORD, 0) = 1
    BY <1>4, LowIs, WordPowers
  <2>2. H(prev(0)) = h
    OBVIOUS
  <2> HIDE DEF H, h, prev
  <2> QED
    BY <1>5, <2>1, <2>2
<1>7. ASSUME NEW k \in 0 .. N - 1, k \in T PROVE k + 1 \in T
  <2> DEFINE p == Power(WORD, k)
             hk == H(k)
             rk == R(k)
             hp == H(prev(k))
             uk == u[k]
             sk == s[k]
             lu == Low(u, k)
             ls == Low(s, k)
  <2>1. k \in Nat /\ k + 1 \in Nat /\ k \in 0 .. N /\ prev(k + 1) = k /\ prev(k) \in 0 .. N - 1
    BY <1>1
  <2>2. Low(s, k + 1) = ls + sk * p /\ Low(u, k + 1) = lu + uk * p
    BY <1>4, LowIs
  <2>3. lu \in Nat /\ ls \in Nat /\ p \in Nat /\ Power(WORD, k + 1) = WORD * p
    BY <1>4, <2>1, LowIs, WordPowers
  <2>4. uk = c * hk + rk /\ sk = rk * a + hp /\ hk \in Nat /\ rk \in Nat
    <3>1. hk \in 0 .. a - 1 /\ rk \in 0 .. c - 1 /\ uk = c * hk + rk /\ sk = rk * a + hp
      BY <1>3
    <3> HIDE DEF hk, rk, uk, sk, hp
    <3> QED
      BY <3>1
  <2>5. hp \in Nat
    <3>1. hp \in 0 .. a - 1
      BY <1>3, <2>1
    <3> HIDE DEF hp
    <3> QED
      BY <3>1
  <2>6. ls + hp * p = a * lu + h
    BY <1>7
  <2> HIDE DEF p, hk, rk, hp, uk, sk, lu, ls, h
  <2>7. sk * p = (rk * a) * p + hp * p
    BY <2>3, <2>4, <2>5
  <2>8. a * (lu + uk * p) = a * lu + (a * c) * (hk * p) + (rk * a) * p
    <3>1. uk * p = c * (hk * p) + rk * p
      BY <2>3, <2>4
    <3>2. a * (c * (hk * p)) = (a * c) * (hk * p) /\ a * (rk * p) = (rk * a) * p
      BY <2>3, <2>4
    <3> DEFINE A == c * (hk * p)
               B == rk * p
    <3>3. A \in Nat /\ B \in Nat
      BY <2>3, <2>4
    <3>4. uk * p = A + B
      BY <3>1
    <3> HIDE DEF A, B
    <3>5. a * (lu + (A + B)) = a * lu + a * A + a * B
      BY <2>3, <3>3
    <3> QED
      BY <3>2, <3>4, <3>5 DEF A, B
  <2>9. hk * (WORD * p) = (a * c) * (hk * p)
    BY <1>1, <2>3, <2>4
  <2>10. (ls + sk * p) + hk * (WORD * p) = a * (lu + uk * p) + h
    <3> DEFINE A == (a * c) * (hk * p)
               B == (rk * a) * p
               C == hp * p
               E == a * lu
    <3>1. A \in Nat /\ B \in Nat /\ C \in Nat /\ E \in Nat
      BY <2>3, <2>4, <2>5
    <3>2. sk * p = B + C /\ a * (lu + uk * p) = E + A + B /\ hk * (WORD * p) = A /\ ls + C = E + h
      BY <2>6, <2>7, <2>8, <2>9
    <3> HIDE DEF A, B, C, E
    <3>3. (ls + (B + C)) + A = (E + A + B) + h
      BY <1>5, <2>3, <3>1, <3>2
    <3> QED
      BY <3>2, <3>3
  <2>11. H(prev(k + 1)) = hk
    BY <2>1 DEF hk
  <2> HIDE DEF H, prev
  <2> QED
    BY <2>1, <2>2, <2>3, <2>10, <2>11
<1>8. \A k \in 0 .. N : k \in T
  <2> HIDE DEF T
  <2> QED
    BY <1>1, <1>6, <1>7, Climb
<1>9. Num(s) + h * Power(WORD, N) = a * Num(u) + h
  <2>1. N \in T
    BY <1>1, <1>8
  <2>2. prev(N) = N - 1
    BY <1>1
  <2> QED
    BY <2>1, <2>2 DEF Num
<1> DEFINE P == Power(WORD, N - 1)
           C == c * P
           r == R(N - 1)
           lo == Low(u, N - 1)
           t == r * P + lo
           x == Num(u)
           y == Num(s)
<1>10. P \in Nat \ {0} /\ Power(WORD, N) = WORD * P
  <2>1. Power(WORD, (N - 1) + 1) = WORD * Power(WORD, N - 1) /\ Power(WORD, N - 1) \in Nat \ {0}
    BY <1>1, WordPowers
  <2> QED
    BY <1>1, <2>1
<1>11. r \in 0 .. c - 1 /\ u[N - 1] = c * h + r
  BY <1>1, <1>3
<1>12. lo \in Nat /\ lo < P /\ x = lo + u[N - 1] * P /\ y \in Nat
  <2>1. Low(u, (N - 1) + 1) = Low(u, N - 1) + u[N - 1] * Power(WORD, N - 1)
    BY <1>1, LowIs
  <2> QED
    BY <1>1, <1>4, <2>1, LowIs, LowBound, ModulusIs DEF Num
<1> HIDE DEF h, r, P, lo, x, y
<1>13. t \in Nat /\ t <= C - 1 /\ C \in Nat
  <2>1. r * P <= (c - 1) * P
    BY <1>10, <1>11
  <2>2. (c - 1) * P = c * P - P /\ c * P \in Nat /\ r * P \in Nat
    BY <1>10, <1>11
  <2> QED
    BY <1>10, <1>12, <2>1, <2>2
<1>14. x = h * C + t
  <2>1. (c * h + r) * P = h * (c * P) + r * P
    BY <1>5, <1>10, <1>11
  <2>2. h * (c * P) \in Nat /\ r * P \in Nat
    BY <1>5, <1>10, <1>11
  <2> QED
    BY <1>11, <1>12, <2>1, <2>2
<1>15. y = t * a + h
  <2>1. y + h * ((a * c) * P) = a * x + h
    BY <1>9, <1>10 DEF x, y
  <2> HIDE DEF t
  <2>2. a * (h * (c * P) + t) = h * ((a * c) * P) + t * a
    <3>1. a * (h * C) = h * ((a * c) * P)
      BY <1>5, <1>10
    <3> HIDE DEF C
    <3>2. h * C \in Nat
      BY <1>5, <1>13
    <3>3. a * (h * C + t) = a * (h * C) + t * a
      BY <1>13, <3>2
    <3> QED
      BY <3>1, <3>3 DEF C
  <2>3. h * ((a * c) * P) \in Nat /\ t * a \in Nat
    BY <1>5, <1>10, <1>13
  <2>4. a * x = h * ((a * c) * P) + t * a
    BY <1>14, <2>2 DEF C
  <2> DEFINE A == h * ((a * c) * P)
             B == t * a
  <2>5. A \in Nat /\ B \in Nat /\ y + A = (A + B) + h
    BY <2>1, <2>3, <2>4
  <2> HIDE DEF A, B
  <2>6. y = B + h
    BY <1>5, <1>12, <2>5
  <2> QED
    BY <2>6 DEF B
<1> HIDE DEF t, C
<1>16. h \in 0 .. a - 1 /\ t \in 0 .. C - 1
  BY <1>5, <1>13
<1>17. Turn(x, y, a, C)
  BY <1>14, <1>15, <1>16 DEF Turn
<1> QED
  BY <1>4, <1>17 DEF s, x, y, C, P

\* n bits are big words and small bits, of a whole of k.
Amounts(n, k, big, small) ==
  /\ k = n % (N * BITS)
  /\ big = k \div BITS
  /\ small = k % BITS

\* A number of bits is made of whole words and a rest.
LEMMA AmountsAre ==
  ASSUME NEW n \in Nat, NEW k, NEW big, NEW small, Amounts(n, k, big, small)
  PROVE  /\ k \in 0 .. N * BITS - 1 /\ big \in 0 .. N - 1 /\ small \in 0 .. BITS - 1
         /\ k = BITS * big + small
<1>1. N \in Nat \ {0} /\ BITS \in Nat \ {0} /\ N * BITS \in Nat \ {0}
  <2>1. N \in Nat \ {0} /\ BITS \in Nat \ {0}
    BY WordIs
  <2> QED
    BY <2>1
<1>2. k \in 0 .. N * BITS - 1
  <2> DEFINE w == N * BITS
  <2>1. w \in Nat \ {0} /\ k = n % w
    BY <1>1 DEF Amounts
  <2> HIDE DEF w
  <2>2. k \in 0 .. w - 1
    BY <2>1, DivModIs
  <2> QED
    BY <2>2 DEF w
<1>3. k \in Nat
  BY <1>1, <1>2
<1>4. big \in Nat /\ small \in 0 .. BITS - 1 /\ k = BITS * big + small
  BY <1>1, <1>3, DivModIs DEF Amounts
<1>5. big < N
  <2> SUFFICES ASSUME big >= N PROVE FALSE
    BY <1>1, <1>4
  <2>1. BITS * big >= BITS * N /\ BITS * N = N * BITS
    BY <1>1, <1>4
  <2> QED
    BY <1>1, <1>2, <1>4, <2>1
<1>6. big \in 0 .. N - 1
  BY <1>1, <1>4, <1>5
<1> QED
  BY <1>2, <1>4, <1>6

\* The neighbours of a word that was moved.
LEMMA Around ==
  ASSUME NEW i \in 0 .. N - 1, NEW b \in 0 .. N - 1
  PROVE  /\ (i - 1) % N \in 0 .. N - 1 /\ (i - b) % N \in 0 .. N - 1
         /\ (i + 1) % N \in 0 .. N - 1 /\ (i + b) % N \in 0 .. N - 1
         /\ (i - 1 - b) % N \in 0 .. N - 1 /\ (i + 1 + b) % N \in 0 .. N - 1
         /\ (((i - 1) % N) - b) % N = (i - 1 - b) % N
         /\ (((i - b) % N) + b) % N = i
         /\ (((i - 1 - b) % N) + 1 + b) % N = i
<1> DEFINE W(x) == IF x < 0 THEN x + N ELSE IF x >= N THEN x - N ELSE x
<1>1. N \in Nat \ {0} /\ i \in Nat /\ b \in Nat /\ i < N /\ b < N
  BY WordIs
<1>2. ASSUME NEW x \in Int, 0 - N <= x, x <= 2 * N - 1
      PROVE  x % N = W(x) /\ W(x) \in 0 .. N - 1
  <2>1. CASE x < 0
    <3>1. x \in (0 - N) .. (0 - 1)
      BY <1>1, <1>2, <2>1
    <3> QED
      BY <1>1, <2>1, <3>1, AroundIs
  <2>2. CASE x >= N
    <3>1. x \in N .. 2 * N - 1
      BY <1>1, <1>2, <2>2
    <3> QED
      BY <1>1, <2>2, <3>1, AroundIs
  <2>3. CASE x >= 0 /\ x < N
    <3>1. x \in 0 .. N - 1
      BY <1>1, <2>3
    <3> QED
      BY <1>1, <2>3, <3>1, AroundIs
  <2> QED
    BY <1>1, <2>1, <2>2, <2>3
<1> HIDE DEF W
<1>3. (i - 1) % N = W(i - 1) /\ W(i - 1) \in 0 .. N - 1
  <2>1. i - 1 \in Int /\ 0 - N <= i - 1 /\ i - 1 <= 2 * N - 1
    BY <1>1
  <2> QED
    BY <1>2, <2>1
<1>4. (i - b) % N = W(i - b) /\ W(i - b) \in 0 .. N - 1
  <2>1. i - b \in Int /\ 0 - N <= i - b /\ i - b <= 2 * N - 1
    BY <1>1
  <2> QED
    BY <1>2, <2>1
<1>5. (i + 1) % N = W(i + 1) /\ W(i + 1) \in 0 .. N - 1
  <2>1. i + 1 \in Int /\ 0 - N <= i + 1 /\ i + 1 <= 2 * N - 1
    BY <1>1
  <2> QED
    BY <1>2, <2>1
<1>6. (i + b) % N = W(i + b) /\ W(i + b) \in 0 .. N - 1
  <2>1. i + b \in Int /\ 0 - N <= i + b /\ i + b <= 2 * N - 1
    BY <1>1
  <2> QED
    BY <1>2, <2>1
<1>7. (i - 1 - b) % N = W(i - 1 - b) /\ W(i - 1 - b) \in 0 .. N - 1
  <2>1. i - 1 - b \in Int /\ 0 - N <= i - 1 - b /\ i - 1 - b <= 2 * N - 1
    BY <1>1
  <2> QED
    BY <1>2, <2>1
<1>8. (i + 1 + b) % N = W(i + 1 + b) /\ W(i + 1 + b) \in 0 .. N - 1
  <2>1. i + 1 + b \in Int /\ 0 - N <= i + 1 + b /\ i + 1 + b <= 2 * N - 1
    BY <1>1
  <2> QED
    BY <1>2, <2>1
<1>9. (((i - 1) % N) - b) % N = (i - 1 - b) % N
  <2> DEFINE x == W(i - 1)
  <2>1. x \in 0 .. N - 1
    BY <1>3
  <2> HIDE DEF x
  <2>2. x - b \in Int /\ 0 - N <= x - b /\ x - b <= 2 * N - 1
    BY <1>1, <2>1
  <2>3. (x - b) % N = W(x - b)
    BY <1>2, <2>2
  <2>4. W(x - b) = W(i - 1 - b)
    BY <1>1 DEF W, x
  <2>5. (i - 1) % N = x
    BY <1>3 DEF x
  <2> QED
    BY <1>7, <2>3, <2>4, <2>5
<1>10. (((i - b) % N) + b) % N = i
  <2> DEFINE x == W(i - b)
  <2>1. x \in 0 .. N - 1
    BY <1>4
  <2> HIDE DEF x
  <2>2. x + b \in Int /\ 0 - N <= x + b /\ x + b <= 2 * N - 1
    BY <1>1, <2>1
  <2>3. (x + b) % N = W(x + b)
    BY <1>2, <2>2
  <2>4. W(x + b) = i
    BY <1>1 DEF W, x
  <2>5. (i - b) % N = x
    BY <1>4 DEF x
  <2> QED
    BY <2>3, <2>4, <2>5
<1>11. (((i - 1 - b) % N) + 1 + b) % N = i
  <2> DEFINE x == W(i - 1 - b)
  <2>1. x \in 0 .. N - 1
    BY <1>7
  <2> HIDE DEF x
  <2>2. x + 1 + b \in Int /\ 0 - N <= x + 1 + b /\ x + 1 + b <= 2 * N - 1
    BY <1>1, <2>1
  <2>3. (x + 1 + b) % N = W(x + 1 + b)
    BY <1>2, <2>2
  <2>4. W(x + 1 + b) = i
    BY <1>1 DEF W, x
  <2>5. (i - 1 - b) % N = x
    BY <1>7 DEF x
  <2> QED
    BY <2>3, <2>4, <2>5
<1> QED
  BY <1>3, <1>4, <1>5, <1>6, <1>7, <1>8, <1>9, <1>10, <1>11

\* The turn of a number by k bits.
Turned(x, k) == ((x * Power(2, k)) % Modulus) + (x \div Power(2, N * BITS - k))

\* The powers of two that a rotation multiplies with.
LEMMA AmountPowers ==
  ASSUME NEW n \in Nat, NEW k, NEW big, NEW small, Amounts(n, k, big, small)
  PROVE  /\ Power(2, k) = Power(WORD, big) * Power(2, small)
         /\ Power(2, N * BITS - k) * Power(2, small) = Power(WORD, N - big)
         /\ Modulus = Power(2, k) * Power(2, N * BITS - k)
         /\ Power(2, small) \in Nat \ {0} /\ Power(2, BITS - small) \in Nat \ {0}
         /\ WORD = Power(2, small) * Power(2, BITS - small)
         /\ Power(2, k) \in Nat \ {0} /\ Power(2, N * BITS - k) \in Nat \ {0}
         /\ Power(2, N * BITS - k) = Power(2, BITS - small) * Power(WORD, (N - 1) - big)
<1>1. N \in Nat \ {0} /\ BITS \in Nat \ {0} /\ 2 \in Nat \ {0}
  BY WordIs
<1>2. /\ k \in 0 .. N * BITS - 1 /\ big \in 0 .. N - 1 /\ small \in 0 .. BITS - 1
      /\ k = BITS * big + small
  BY AmountsAre
<1> DEFINE m == N * BITS - k
           c == BITS - small
           j == (N - 1) - big
<1>3. k \in Nat /\ big \in Nat /\ small \in Nat /\ m \in Nat /\ c \in Nat /\ j \in Nat
      /\ N - big \in Nat
  <2>1. N * BITS \in Nat
    BY <1>1
  <2> QED
    BY <1>1, <1>2, <2>1
<1>4. /\ k + m = BITS * N /\ m + small = BITS * (N - big) /\ small + c = BITS
      /\ m = c + BITS * j /\ BITS * big \in Nat /\ BITS * j \in Nat
  <2>1. BITS * (N - big) = N * BITS - BITS * big
    BY <1>1, <1>3
  <2>2. BITS * j = N * BITS - BITS - BITS * big
    BY <1>1, <1>3
  <2>3. N * BITS \in Nat /\ BITS * N = N * BITS /\ BITS * big \in Nat /\ BITS * j \in Nat
    BY <1>1, <1>3
  <2> HIDE DEF j
  <2> QED
    BY <1>1, <1>2, <1>3, <2>1, <2>2, <2>3
<1>5. \A e \in Nat : Power(2, e) \in Nat \ {0}
  BY <1>1, PowerIs
<1>6. ASSUME NEW e \in Nat PROVE Power(2, BITS * e) = Power(WORD, e)
  BY <1>1, <1>6, PowerMul DEF WORD
<1> HIDE DEF m, c, j
<1>7. Power(2, k) = Power(WORD, big) * Power(2, small)
  <2>1. Power(2, BITS * big + small) = Power(2, BITS * big) * Power(2, small)
    BY <1>1, <1>3, <1>4, PowerAdd
  <2> QED
    BY <1>2, <1>3, <1>6, <2>1
<1>8. Power(2, m) * Power(2, small) = Power(WORD, N - big)
  <2>1. Power(2, m + small) = Power(2, m) * Power(2, small)
    BY <1>1, <1>3, PowerAdd
  <2> QED
    BY <1>3, <1>4, <1>6, <2>1
<1>9. Modulus = Power(2, k) * Power(2, m)
  <2>1. Power(2, k + m) = Power(2, k) * Power(2, m)
    BY <1>1, <1>3, PowerAdd
  <2> QED
    BY <1>1, <1>4, <1>6, <2>1 DEF Modulus
<1>10. WORD = Power(2, small) * Power(2, c)
  <2>1. Power(2, small + c) = Power(2, small) * Power(2, c)
    BY <1>1, <1>3, PowerAdd
  <2> QED
    BY <1>4, <2>1 DEF WORD
<1>11. Power(2, m) = Power(2, c) * Power(WORD, j)
  <2>1. Power(2, c + BITS * j) = Power(2, c) * Power(2, BITS * j)
    BY <1>1, <1>3, <1>4, PowerAdd
  <2> QED
    BY <1>3, <1>4, <1>6, <2>1
<1> QED
  BY <1>3, <1>5, <1>7, <1>8, <1>9, <1>10, <1>11 DEF m, c, j

\* rotate_left is a move by whole words and a slide.
LEMMA RotateLeftIs ==
  ASSUME NEW v \in UInt, NEW n \in Nat, NEW k, NEW big, NEW small, Amounts(n, k, big, small)
  PROVE  rotate_left(v, n) = IF small = 0 THEN Shift(v, big)
                             ELSE Slide(Shift(v, big), Power(2, small), Power(2, BITS - small))
<1>1. big = (n % (N * BITS)) \div BITS /\ small = (n % (N * BITS)) % BITS
  BY DEF Amounts
<1>2. big \in 0 .. N - 1
  BY AmountsAre
<1>3. rotate_left(v, n) =
        [i \in 0 .. N - 1 |->
          IF small = 0 THEN v[(i - big) % N]
          ELSE ((v[(i - big) % N] * Power(2, small)) % WORD)
                 + (v[(i - 1 - big) % N] \div Power(2, BITS - small))]
  BY <1>1, Zenon DEF rotate_left, Index
<1> DEFINE u == Shift(v, big)
<1>4. ASSUME NEW i \in 0 .. N - 1
      PROVE  u[i] = v[(i - big) % N] /\ u[(i - 1) % N] = v[(i - 1 - big) % N]
  <2> DEFINE j == (i - 1) % N
  <2>1. j \in 0 .. N - 1 /\ (j - big) % N = (i - 1 - big) % N
    BY <1>2, Around
  <2> HIDE DEF j
  <2>2. u[j] = v[(j - big) % N]
    BY <2>1 DEF Shift
  <2>3. u[i] = v[(i - big) % N]
    BY DEF Shift
  <2> HIDE DEF u
  <2> QED
    BY <2>1, <2>2, <2>3 DEF j
<1>5. CASE small = 0
  <2>1. rotate_left(v, n) = [i \in 0 .. N - 1 |-> v[(i - big) % N]]
    BY <1>3, <1>5
  <2> QED
    BY <1>5, <2>1 DEF Shift
<1>6. CASE small # 0
  <2>1. rotate_left(v, n) =
          [i \in 0 .. N - 1 |->
             ((v[(i - big) % N] * Power(2, small)) % WORD)
               + (v[(i - 1 - big) % N] \div Power(2, BITS - small))]
    BY <1>3, <1>6
  <2> HIDE DEF u
  <2>2. rotate_left(v, n) =
          [i \in 0 .. N - 1 |->
             ((u[i] * Power(2, small)) % WORD) + (u[(i - 1) % N] \div Power(2, BITS - small))]
    BY <1>4, <2>1, Zenon
  <2>3. rotate_left(v, n) = Slide(u, Power(2, small), Power(2, BITS - small))
    BY <2>2 DEF Slide
  <2> QED
    BY <1>6, <2>3 DEF u
<1> QED
  BY <1>5, <1>6

\* rotate_left turns the number.
LEMMA RotateLeftExact ==
  ASSUME NEW v \in UInt, NEW n \in Nat
  PROVE  /\ rotate_left(v, n) \in UInt
         /\ Num(rotate_left(v, n)) = Turned(Num(v), n % (N * BITS))
<1> DEFINE k == n % (N * BITS)
           big == k \div BITS
           small == k % BITS
           u == Shift(v, big)
           w == rotate_left(v, n)
           a == Power(2, small)
           b == Power(2, BITS - small)
           A == Power(2, k)
           C == Power(2, N * BITS - k)
           x == Num(v)
<1>1. Amounts(n, k, big, small)
  BY DEF Amounts
<1> HIDE DEF k, big, small
<1>2. N \in Nat \ {0} /\ WORD \in Nat \ {0}
  BY WordIs
<1>3. big \in 0 .. N - 1 /\ small \in 0 .. BITS - 1 /\ (N - 1) - big \in Nat
  <2>1. big \in 0 .. N - 1 /\ small \in 0 .. BITS - 1
    BY <1>1, AmountsAre
  <2> QED
    BY <1>2, <2>1
<1>4. /\ A = Power(WORD, big) * a /\ C * a = Power(WORD, N - big) /\ Modulus = A * C
      /\ a \in Nat \ {0} /\ b \in Nat \ {0} /\ WORD = a * b
      /\ A \in Nat \ {0} /\ C \in Nat \ {0} /\ C = b * Power(WORD, (N - 1) - big)
  BY <1>1, AmountPowers
<1>5. w = IF small = 0 THEN u ELSE Slide(u, a, b)
  BY <1>1, RotateLeftIs
<1>6. u \in UInt /\ Turn(x, Num(u), Power(WORD, big), Power(WORD, N - big))
  BY <1>3, ShiftIs, ShiftTurns
<1>7. x \in Nat /\ Num(u) \in Nat
  BY <1>6, ModulusIs
<1>8. w \in UInt /\ Turn(x, Num(w), A, C)
  <2>1. CASE small = 0
    <3>1. a = 1
      BY <2>1, PowerIs
    <3>2. big \in Nat /\ Power(WORD, big) \in Nat
      BY <1>2, <1>3, WordPowers
    <3>3. A = Power(WORD, big) /\ C = Power(WORD, N - big)
      <4> HIDE DEF A, C, a
      <4>1. A = Power(WORD, big) * 1 /\ C * 1 = Power(WORD, N - big)
        BY <1>4, <3>1
      <4>2. Power(WORD, big) * 1 = Power(WORD, big) /\ C * 1 = C
        BY <1>4, <3>2
      <4> QED
        BY <4>1, <4>2
    <3>4. w = u
      BY <1>5, <2>1
    <3> HIDE DEF w, u, A, C, x
    <3> QED
      BY <1>6, <3>3, <3>4
  <2>2. CASE small # 0
    <3> DEFINE p == Power(WORD, big)
               j == Power(WORD, (N - 1) - big)
               s == Slide(u, a, b)
    <3>1. p \in Nat \ {0} /\ j \in Nat \ {0}
      <4>1. big \in Nat
        BY <1>2, <1>3
      <4> QED
        BY <1>3, <4>1, WordPowers
    <3>2. Power(WORD, N - 1) = p * j
      <4>1. big \in Nat /\ big + ((N - 1) - big) = N - 1
        BY <1>2, <1>3
      <4>2. Power(WORD, big + ((N - 1) - big)) = p * j
        BY <1>2, <1>3, <4>1, PowerAdd
      <4> QED
        BY <4>1, <4>2
    <3> HIDE DEF w, u, A, C, x, a, b
    <3>3. s \in UInt /\ Turn(Num(u), Num(s), a, b * Power(WORD, N - 1))
      BY <1>4, <1>6, SlideTurns
    <3>4. Num(s) \in Nat
      BY <3>3, ModulusIs
    <3> HIDE DEF p, j, s
    <3>5. C = b * j /\ A = p * a /\ Power(WORD, N - big) = a * C
      <4>1. C * a = a * C
        BY <1>4
      <4> QED
        BY <1>4, <4>1 DEF p, j
    <3>6. b * Power(WORD, N - 1) = p * C
      <4>1. b * (p * j) = p * (b * j)
        BY <1>4, <3>1
      <4> QED
        BY <3>2, <3>5, <4>1
    <3>7. Turn(x, Num(u), p, a * C)
      BY <1>6, <3>5 DEF p
    <3>8. Turn(Num(u), Num(s), a, p * C)
      BY <3>3, <3>6
    <3>9. Turn(x, Num(s), p * a, C)
      BY <1>4, <1>7, <3>1, <3>4, <3>7, <3>8, TurnTwice
    <3>10. w = s
      BY <1>5, <2>2 DEF s
    <3> QED
      BY <3>3, <3>5, <3>9, <3>10
  <2> QED
    BY <2>1, <2>2
<1> HIDE DEF w, x, A, C
<1>9. Num(w) \in Nat
  BY <1>8, ModulusIs
<1>10. Num(w) = ((x * A) % (A * C)) + (x \div C)
  BY <1>4, <1>7, <1>8, <1>9, TurnIs
<1> QED
  BY <1>4, <1>8, <1>10 DEF Turned, A, C, k, w, x

\* A word that rotate_right makes, of the top of one and the bottom of another.
RightSum(s, x, y, a, c) == s = (x \div a) + (y % a) * c

\* Moved back to the left, it gives the top of the one and the bottom of the other.
LEMMA RightWord ==
  ASSUME NEW a \in Nat \ {0}, NEW c \in Nat \ {0}, WORD = a * c,
         NEW x \in 0 .. WORD - 1, NEW y \in 0 .. WORD - 1, NEW s, RightSum(s, x, y, a, c)
  PROVE  /\ s \in 0 .. WORD - 1
         /\ (s * a) % WORD = (x \div a) * a
         /\ s \div c = y % a
<1> DEFINE h == x \div a
           t == y % a
<1>1. WORD \in Nat \ {0} /\ WORD = c * a
  BY WordIs
<1>2. h \in 0 .. c - 1 /\ t \in 0 .. a - 1
  <2>1. \A z \in 0 .. WORD - 1 : z \div a \in 0 .. c - 1 /\ z % a \in 0 .. a - 1
    BY <1>1, SlideWord
  <2> QED
    BY <2>1
<1> HIDE DEF h, t
<1>3. s = c * t + h
  <2>1. t * c = c * t /\ c * t \in Nat
    BY <1>2
  <2>2. s = h + t * c
    BY DEF RightSum, h, t
  <2> QED
    BY <1>2, <2>1, <2>2
<1>4. s \in 0 .. WORD - 1
  <2>1. c * t <= c * (a - 1)
    BY <1>2
  <2>2. c * (a - 1) = c * a - c /\ c * t \in Nat /\ c * a \in Nat
    BY <1>2
  <2> QED
    BY <1>1, <1>2, <1>3, <2>1, <2>2
<1>5. s \div c = t /\ s % c = h
  <2>1. t \in Int
    BY <1>2
  <2>2. (c * t + h) \div c = t /\ (c * t + h) % c = h
    BY <1>2, <2>1, DivModUnique
  <2> QED
    BY <1>3, <2>2
<1>6. (s * a) % WORD = (s % c) * a
  BY <1>4, SlideWord
<1> QED
  BY <1>4, <1>5, <1>6 DEF h, t

\* rotate_left undoes what rotate_right does.
LEMMA RotateRightExact ==
  ASSUME NEW v \in UInt, NEW n \in Nat
  PROVE  rotate_right(v, n) \in UInt /\ rotate_left(rotate_right(v, n), n) = v
<1> DEFINE k == n % (N * BITS)
           big == k \div BITS
           small == k % BITS
           a == Power(2, small)
           c == Power(2, BITS - small)
           w == rotate_right(v, n)
           from(i) == (i + big) % N
           next(i) == (i + 1 + big) % N
           to(i) == (i - big) % N
           prior(i) == (i - 1 - big) % N
<1>1. Amounts(n, k, big, small)
  BY DEF Amounts
<1>2. w = [i \in 0 .. N - 1 |->
             IF small = 0 THEN v[from(i)] ELSE (v[from(i)] \div a) + (v[next(i)] % a) * c]
  BY DEF rotate_right, Index
<1>3. rotate_left(w, n) =
        [i \in 0 .. N - 1 |->
          IF small = 0 THEN w[to(i)] ELSE ((w[to(i)] * a) % WORD) + (w[prior(i)] \div c)]
  <2> HIDE DEF w
  <2> QED
    BY DEF rotate_left, Index
<1> HIDE DEF k, big, small
<1>4. big \in 0 .. N - 1 /\ small \in 0 .. BITS - 1
  BY <1>1, AmountsAre
<1>5. a \in Nat \ {0} /\ c \in Nat \ {0} /\ WORD = a * c
  BY <1>1, AmountPowers
<1>6. ASSUME NEW i \in 0 .. N - 1
      PROVE  /\ from(i) \in 0 .. N - 1 /\ next(i) \in 0 .. N - 1
             /\ to(i) \in 0 .. N - 1 /\ prior(i) \in 0 .. N - 1
             /\ from(to(i)) = i /\ next(prior(i)) = i
  BY <1>4, Around
<1> HIDE DEF w, a, c, from, next, to, prior
<1>7. v = [i \in 0 .. N - 1 |-> v[i]] /\ \A i \in 0 .. N - 1 : v[i] \in 0 .. WORD - 1
  BY DEF UInt, Index
<1>8. CASE small = 0
  <2>1. w = [i \in 0 .. N - 1 |-> v[from(i)]]
    BY <1>2, <1>8
  <2>2. w \in UInt
    BY <1>6, <1>7, <2>1 DEF UInt, Index
  <2>3. rotate_left(w, n) = [i \in 0 .. N - 1 |-> w[to(i)]]
    BY <1>3, <1>8
  <2>4. \A i \in 0 .. N - 1 : w[to(i)] = v[i]
    <3> TAKE i \in 0 .. N - 1
    <3>1. to(i) \in 0 .. N - 1 /\ from(to(i)) = i
      BY <1>6
    <3> QED
      BY <2>1, <3>1
  <2>5. rotate_left(w, n) = v
    BY <1>7, <2>3, <2>4, Zenon
  <2> QED
    BY <2>2, <2>5 DEF w
<1>9. CASE small # 0
  <2>1. w = [i \in 0 .. N - 1 |-> (v[from(i)] \div a) + (v[next(i)] % a) * c]
    BY <1>2, <1>9
  <2>2. ASSUME NEW i \in 0 .. N - 1
        PROVE  /\ w[i] \in 0 .. WORD - 1
               /\ (w[i] * a) % WORD = (v[from(i)] \div a) * a
               /\ w[i] \div c = v[next(i)] % a
    <3> DEFINE x == v[from(i)]
               y == v[next(i)]
               s == w[i]
    <3>1. RightSum(s, x, y, a, c)
      BY <2>1 DEF RightSum
    <3>2. x \in 0 .. WORD - 1 /\ y \in 0 .. WORD - 1
      BY <1>6, <1>7
    <3> HIDE DEF x, y, s
    <3>3. s \in 0 .. WORD - 1 /\ (s * a) % WORD = (x \div a) * a /\ s \div c = y % a
      <4>1. a \in Nat \ {0}
        BY <1>5
      <4>2. c \in Nat \ {0}
        BY <1>5
      <4>3. WORD = a * c
        BY <1>5
      <4>4. x \in 0 .. WORD - 1
        BY <3>2
      <4>5. y \in 0 .. WORD - 1
        BY <3>2
      <4> QED
        BY <3>1, <4>1, <4>2, <4>3, <4>4, <4>5, RightWord
    <3> QED
      BY <3>3 DEF x, y, s
  <2>3. w \in UInt
    <3>1. w = [i \in 0 .. N - 1 |-> w[i]]
      BY <2>1
    <3> QED
      BY <2>2, <3>1 DEF UInt, Index
  <2>4. ASSUME NEW i \in 0 .. N - 1
        PROVE  ((w[to(i)] * a) % WORD) + (w[prior(i)] \div c) = v[i]
    <3>1. (w[to(i)] * a) % WORD = (v[i] \div a) * a
      BY <1>6, <2>2
    <3>2. w[prior(i)] \div c = v[i] % a
      BY <1>6, <2>2
    <3> DEFINE x == v[i]
               q == x \div a
               r == x % a
    <3>3. x \in Nat
      BY UIntIs
    <3>4. q \in Nat /\ r \in 0 .. a - 1 /\ x = a * q + r
      <4> HIDE DEF x
      <4> QED
        BY <1>5, <3>3, DivModIs
    <3>5. q * a + r = x
      <4> HIDE DEF x, q, r
      <4> QED
        BY <1>5, <3>4
    <3> QED
      BY <3>1, <3>2, <3>5
  <2>5. rotate_left(w, n) =
          [i \in 0 .. N - 1 |-> ((w[to(i)] * a) % WORD) + (w[prior(i)] \div c)]
    BY <1>3, <1>9
  <2>6. rotate_left(w, n) = v
    BY <1>7, <2>4, <2>5, Zenon
  <2> QED
    BY <2>3, <2>6 DEF w
<1> QED
  BY <1>8, <1>9

-----------------------------------------------------------------------------
(* Numerals.                                                               *)

Digit == 0 .. BASE - 1

\* p has the numbers that the first digits of s stand for.
Values(p, s) ==
  /\ p \in [0 .. Len(s) -> Nat]
  /\ p[0] = 0
  /\ \A k \in 1 .. Len(s) : p[k] = p[k - 1] * BASE + s[k]

\* The base and the digits.
LEMMA DigitIs ==
  /\ BASE \in Nat \ {0} /\ BASE >= 2
  /\ \A d \in Digit : d \in Nat /\ d <= BASE - 1
  /\ \A n \in Nat : Power(BASE, n) \in Nat \ {0} /\ Power(BASE, n + 1) = BASE * Power(BASE, n)
  /\ Power(BASE, 0) = 1
<1>1. BASE \in Nat \ {0} /\ BASE >= 2
  BY WordIs
<1>2. /\ \A n \in Nat : Power(BASE, n) \in Nat \ {0} /\ Power(BASE, n + 1) = BASE * Power(BASE, n)
      /\ Power(BASE, 0) = 1
  BY <1>1, PowerIs
<1>3. \A d \in Digit : d \in Nat /\ d <= BASE - 1
  BY <1>1 DEF Digit
<1> QED
  BY <1>1, <1>2, <1>3

\* strtoul gives the last of them.
LEMMA ValueOf ==
  ASSUME NEW s \in Seq(Digit), NEW p, Values(p, s)
  PROVE  strtoul(s) = p[Len(s)]
<1> DEFINE n == Len(s)
           Is(q) == q = [k \in 0 .. n |-> IF k = 0 THEN 0 ELSE q[k - 1] * BASE + s[k]]
           h == CHOOSE q : Is(q)
<1>1. n \in Nat
  BY LenProperties
<1>2. Is(p)
  <2>1. p[0] = 0 /\ p = [k \in 0 .. n |-> p[k]] /\ \A k \in 1 .. n : p[k] = p[k - 1] * BASE + s[k]
    BY DEF Values
  <2>2. \A k \in 0 .. n : k # 0 => k \in 1 .. n
    BY <1>1
  <2> HIDE DEF n
  <2> QED
    BY <2>1, <2>2
<1>3. Is(h)
  <2> HIDE DEF Is
  <2> QED
    BY <1>2
<1>4. strtoul(s) = h[n]
  BY DEF strtoul
<1> HIDE DEF h, n
<1>5. h[0] = p[0]
  <2>1. 0 \in 0 .. n
    BY <1>1
  <2> QED
    BY <1>2, <1>3, <2>1
<1>6. ASSUME NEW i \in 1 .. n, h[i - 1] = p[i - 1] PROVE h[i] = p[i]
  <2>1. i \in 0 .. n /\ i # 0
    OBVIOUS
  <2>2. h[i] = h[i - 1] * BASE + s[i]
    BY <1>3, <2>1
  <2>3. p[i] = p[i - 1] * BASE + s[i]
    BY <1>2, <2>1
  <2> QED
    BY <1>6, <2>2, <2>3
<1>7. \A i \in 0 .. n : h[i] = p[i]
  <2> HIDE DEF Is
  <2>1. SameSteps(h, p, n)
    BY <1>6 DEF SameSteps
  <2> QED
    BY <1>1, <1>5, <2>1, SameRecursion
<1> QED
  BY <1>1, <1>4, <1>7 DEF n

\* There are such numbers.
LEMMA ValuesExist ==
  ASSUME NEW s \in Seq(Digit)
  PROVE  \E p : Values(p, s)
<1> DEFINE n == Len(s)
           g == [i \in 1 .. n |-> [x \in Nat |-> x * BASE + s[i]]]
<1>1. n \in Nat
  BY LenProperties
<1>2. \A i \in 1 .. n : s[i] \in Nat
  BY ElementOfSeq, DigitIs
<1>3. \A i \in 1 .. n : \A x \in Nat : x * BASE + s[i] \in Nat
  <2>1. BASE \in Nat
    BY DigitIs
  <2>2. ASSUME NEW i \in 1 .. n, NEW x \in Nat PROVE x * BASE + s[i] \in Nat
    <3>1. x * BASE \in Nat /\ s[i] \in Nat
      BY <1>2, <2>1
    <3> QED
      BY <3>1
  <2> QED
    BY <2>2
<1>4. g \in [1 .. n -> [Nat -> Nat]]
  BY <1>3
<1>5. PICK p \in [0 .. n -> Nat] : Follows(p, 0, g, n)
  <2> HIDE DEF g, n
  <2>1. 0 \in Nat
    OBVIOUS
  <2> QED
    BY <1>1, <1>4, <2>1, Recursion
<1>6. ASSUME NEW i \in 1 .. n PROVE p[i] = p[i - 1] * BASE + s[i]
  <2>1. i - 1 \in 0 .. n
    BY <1>1
  <2>2. p[i - 1] \in Nat
    BY <2>1
  <2>3. p[i] = g[i][p[i - 1]]
    <3> HIDE DEF g
    <3> QED
      BY <1>5 DEF Follows
  <2> QED
    BY <2>2, <2>3
<1>7. p[0] = 0
  BY <1>5 DEF Follows
<1>8. Values(p, s)
  BY <1>6, <1>7 DEF Values
<1> QED
  BY <1>8

\* No digits stand for nothing, and n digits for less than the n-th power.
LEMMA NumeralBound ==
  ASSUME NEW s \in Seq(Digit)
  PROVE  strtoul(s) \in Nat /\ strtoul(s) < Power(BASE, Len(s))
<1> DEFINE n == Len(s)
<1>1. PICK p : Values(p, s)
  BY ValuesExist
<1>2. n \in Nat
  BY LenProperties
<1>3. /\ p \in [0 .. n -> Nat] /\ p[0] = 0
      /\ \A k \in 1 .. n : p[k] = p[k - 1] * BASE + s[k]
  BY <1>1 DEF Values
<1>4. strtoul(s) = p[n]
  BY <1>1, ValueOf
<1>5. \A k \in 1 .. n : s[k] \in Nat /\ s[k] <= BASE - 1
  <2> TAKE k \in 1 .. n
  <2>1. s[k] \in Digit
    BY ElementOfSeq
  <2> QED
    BY <2>1, DigitIs
<1> HIDE DEF n
<1> DEFINE T == {k \in Nat : p[k] < Power(BASE, k)}
<1>6. 0 \in T
  <2>1. Power(BASE, 0) = 1
    BY DigitIs
  <2> QED
    BY <1>3, <2>1
<1>7. ASSUME NEW k \in 0 .. n - 1, k \in T PROVE k + 1 \in T
  <2> DEFINE x == p[k]
             d == s[k + 1]
             q == Power(BASE, k)
  <2>1. k \in Nat /\ k + 1 \in Nat /\ k + 1 \in 1 .. n /\ k \in 0 .. n /\ (k + 1) - 1 = k
    BY <1>2
  <2>2. p[k + 1] = x * BASE + d /\ Power(BASE, k + 1) = BASE * q
    BY <1>3, <2>1, DigitIs
  <2>3. x \in Nat /\ d \in Nat /\ d <= BASE - 1 /\ q \in Nat /\ x < q /\ BASE \in Nat
    BY <1>3, <1>5, <1>7, <2>1, DigitIs
  <2> HIDE DEF x, d, q
  <2>4. x * BASE <= (q - 1) * BASE
    BY <2>3
  <2>5. (q - 1) * BASE = BASE * q - BASE /\ BASE * q \in Nat /\ x * BASE \in Nat
    BY <2>3
  <2>6. x * BASE + d < BASE * q
    BY <2>3, <2>4, <2>5
  <2> QED
    BY <2>1, <2>2, <2>6
<1>8. \A k \in 0 .. n : k \in T
  <2> HIDE DEF T
  <2> QED
    BY <1>2, <1>6, <1>7, Climb
<1>9. p[n] \in Nat /\ p[n] < Power(BASE, n)
  <2>1. n \in 0 .. n
    BY <1>2
  <2> QED
    BY <1>3, <1>8, <2>1
<1> QED
  BY <1>4, <1>9 DEF n

\* The number of two numerals in a row.
LEMMA NumeralConcat ==
  ASSUME NEW s \in Seq(Digit), NEW t \in Seq(Digit)
  PROVE  /\ s \o t \in Seq(Digit) /\ Len(s \o t) = Len(s) + Len(t)
         /\ strtoul(s \o t) = strtoul(s) * Power(BASE, Len(t)) + strtoul(t)
<1> DEFINE m == Len(s)
           n == Len(t)
           u == s \o t
<1>1. m \in Nat /\ n \in Nat
  BY LenProperties
<1>2. /\ u \in Seq(Digit) /\ Len(u) = m + n
      /\ \A i \in 1 .. m + n : u[i] = IF i <= m THEN s[i] ELSE t[i - m]
  BY ConcatProperties
<1>3. PICK p : Values(p, s)
  BY ValuesExist
<1>4. PICK q : Values(q, t)
  BY ValuesExist
<1>5. strtoul(s) = p[m] /\ strtoul(t) = q[n]
  BY <1>3, <1>4, ValueOf
<1>6. /\ p \in [0 .. m -> Nat] /\ p[0] = 0
      /\ \A k \in 1 .. m : p[k] = p[k - 1] * BASE + s[k]
  BY <1>3 DEF Values
<1>7. /\ q \in [0 .. n -> Nat] /\ q[0] = 0
      /\ \A k \in 1 .. n : q[k] = q[k - 1] * BASE + t[k]
  BY <1>4 DEF Values
<1> HIDE DEF m, n, u
<1>8. \A k \in 1 .. n : t[k] \in Nat
  BY ElementOfSeq, DigitIs DEF n
<1> DEFINE x == p[m]
           r == [k \in 0 .. m + n |-> IF k <= m THEN p[k] ELSE x * Power(BASE, k - m) + q[k - m]]
<1>9. x \in Nat /\ m \in 0 .. m
  BY <1>1, <1>6
<1>10. \A k \in 0 .. n : r[m + k] = x * Power(BASE, k) + q[k]
  <2> TAKE k \in 0 .. n
  <2>1. m + k \in 0 .. m + n /\ (m + k) - m = k
    BY <1>1
  <2>2. CASE k = 0
    <3>1. x * Power(BASE, 0) + q[0] = x
      <4>1. Power(BASE, 0) = 1 /\ q[0] = 0 /\ x \in Nat
        BY <1>7, <1>9, DigitIs
      <4> HIDE DEF x
      <4> QED
        BY <4>1
    <3>2. r[m + k] = x
      BY <1>1, <2>1, <2>2
    <3> QED
      BY <2>2, <3>1, <3>2
  <2>3. CASE k # 0
    <3>1. ~(m + k <= m)
      BY <1>1, <2>3
    <3> QED
      BY <2>1, <3>1
  <2> QED
    BY <2>2, <2>3
<1>11. \A k \in 0 .. m : r[k] = p[k]
  BY <1>1
<1>12. ASSUME NEW k \in 0 .. n PROVE x * Power(BASE, k) + q[k] \in Nat
  <2>1. k \in Nat
    BY <1>1
  <2>2. Power(BASE, k) \in Nat
    BY <2>1, DigitIs
  <2>3. q[k] \in Nat
    BY <1>7
  <2>4. x \in Nat
    BY <1>9
  <2> HIDE DEF x
  <2> QED
    BY <2>2, <2>3, <2>4
<1>13. r \in [0 .. m + n -> Nat]
  <2>1. ASSUME NEW k \in 0 .. m + n PROVE r[k] \in Nat
    <3>1. CASE k \in 0 .. m
      BY <1>6, <1>11, <3>1
    <3>2. CASE k \notin 0 .. m
      <4>1. k - m \in 0 .. n /\ m + (k - m) = k
        BY <1>1, <3>2
      <4> QED
        BY <1>10, <1>12, <4>1
    <3> QED
      BY <3>1, <3>2
  <2>2. r = [k \in 0 .. m + n |-> r[k]]
    OBVIOUS
  <2> HIDE DEF r
  <2> QED
    BY <2>1, <2>2
<1> HIDE DEF x, r
<1>14. ASSUME NEW k \in 1 .. m + n PROVE r[k] = r[k - 1] * BASE + u[k]
  <2>1. CASE k <= m
    <3>1. k \in 1 .. m /\ k \in 0 .. m /\ k - 1 \in 0 .. m
      BY <1>1, <2>1
    <3> QED
      BY <1>2, <1>6, <1>11, <2>1, <3>1
  <2>2. CASE ~(k <= m)
    <3> DEFINE j == k - m
    <3>1. j \in 1 .. n /\ j \in 0 .. n /\ j - 1 \in 0 .. n /\ m + j = k /\ m + (j - 1) = k - 1
          /\ j - 1 \in Nat /\ (j - 1) + 1 = j
      BY <1>1, <2>2
    <3> HIDE DEF j
    <3>2. r[k] = x * Power(BASE, j) + q[j] /\ r[k - 1] = x * Power(BASE, j - 1) + q[j - 1]
      BY <1>10, <3>1
    <3>3. u[k] = t[j]
      BY <1>2, <2>2 DEF j
    <3>4. q[j] = q[j - 1] * BASE + t[j]
      BY <1>7, <3>1
    <3> DEFINE w == Power(BASE, j - 1)
               y == q[j - 1]
               z == t[j]
    <3>5. Power(BASE, j) = BASE * w /\ w \in Nat /\ BASE \in Nat
      <4>1. Power(BASE, (j - 1) + 1) = BASE * Power(BASE, j - 1)
        BY <3>1, DigitIs
      <4> QED
        BY <3>1, <4>1, DigitIs
    <3>6. y \in Nat /\ z \in Nat
      BY <1>7, <1>8, <3>1
    <3> HIDE DEF w, y, z
    <3>7. (x * w + y) * BASE = x * (BASE * w) + y * BASE
      BY <1>9, <3>5, <3>6
    <3>8. x * (BASE * w) \in Nat /\ y * BASE \in Nat
      BY <1>9, <3>5, <3>6
    <3>9. x * (BASE * w) + (y * BASE + z) = (x * w + y) * BASE + z
      BY <3>6, <3>7, <3>8
    <3> QED
      BY <3>2, <3>3, <3>4, <3>5, <3>9 DEF w, y, z
  <2> QED
    BY <2>1, <2>2
<1>15. r[0] = 0
  BY <1>1, <1>6, <1>11
<1>16. Values(r, u)
  BY <1>2, <1>13, <1>14, <1>15 DEF Values
<1>17. strtoul(u) = r[m + n]
  BY <1>2, <1>16, ValueOf
<1>18. r[m + n] = x * Power(BASE, n) + q[n]
  <2>1. n \in 0 .. n
    BY <1>1
  <2> QED
    BY <1>10, <2>1
<1> QED
  BY <1>2, <1>5, <1>17, <1>18 DEF m, n, u, x

\* Dividing twice.
LEMMA DivTwice ==
  ASSUME NEW x \in Nat, NEW m \in Nat \ {0}, NEW b \in Nat \ {0}
  PROVE  x \div (b * m) = (x \div m) \div b
<1> DEFINE q == x \div m
           r == x % m
           p == q \div b
           s == q % b
<1>1. q \in Nat /\ r \in 0 .. m - 1 /\ x = m * q + r
  BY DivModIs
<1> HIDE DEF q, r
<1>2. p \in Nat /\ s \in 0 .. b - 1 /\ q = b * p + s
  BY <1>1, DivModIs
<1> HIDE DEF p, s
<1> DEFINE n == b * m
           t == m * s + r
<1>3. n \in Nat \ {0}
  OBVIOUS
<1>4. t \in 0 .. n - 1
  <2>1. m * s <= m * (b - 1)
    BY <1>2
  <2>2. m * (b - 1) = b * m - m /\ b * m \in Nat /\ m * s \in Nat
    BY <1>2
  <2>3. t \in Nat /\ t <= n - 1
    BY <1>1, <2>1, <2>2
  <2> HIDE DEF t, n
  <2> QED
    BY <1>3, <2>3
<1>5. x = n * p + t
  <2>1. m * (b * p + s) = (b * m) * p + m * s
    BY <1>2
  <2>2. (b * m) * p \in Nat /\ m * s \in Nat
    BY <1>2
  <2>3. x = m * (b * p + s) + r
    BY <1>1, <1>2
  <2>4. x = ((b * m) * p + m * s) + r
    BY <2>1, <2>3
  <2> DEFINE A == (b * m) * p
             B == m * s
  <2>5. A \in Nat /\ B \in Nat /\ x = (A + B) + r
    BY <2>2, <2>4
  <2> HIDE DEF A, B
  <2>6. x = A + (B + r)
    BY <1>1, <2>5
  <2> QED
    BY <2>6 DEF A, B
<1> HIDE DEF n, t
<1>6. (n * p + t) \div n = p
  <2>1. p \in Int
    BY <1>2
  <2> QED
    BY <1>3, <1>4, <2>1, DivModUnique
<1>7. x \div n = p
  BY <1>5, <1>6
<1> QED
  BY <1>7 DEF n, p, q

-----------------------------------------------------------------------------
(* Printing.                                                               *)

\* The digits of a word, and the numbers of its first digits.
LEMMA PaddedIs ==
  ASSUME NEW w \in 0 .. WORD - 1
  PROVE  /\ Padded(w) \in Seq(Digit) /\ Len(Padded(w)) = DIGITS
         /\ \A k \in 1 .. DIGITS : /\ Padded(w)[k] = (w \div Power(BASE, DIGITS - k)) % BASE
                                   /\ Padded(w)[k] \in Digit
                                   /\ w \div Power(BASE, DIGITS - k) \in Nat
                                   /\ w \div Power(BASE, DIGITS - k)
                                        = (w \div Power(BASE, DIGITS - (k - 1))) * BASE + Padded(w)[k]
<1>1. DIGITS \in Nat \ {0} /\ BASE \in Nat \ {0} /\ w \in Nat
  BY WordIs, DigitIs
<1>2. ASSUME NEW k \in 1 .. DIGITS
      PROVE  /\ w \div Power(BASE, DIGITS - k) \in Nat
             /\ (w \div Power(BASE, DIGITS - k)) % BASE \in Digit
             /\ w \div Power(BASE, DIGITS - k)
                  = (w \div Power(BASE, DIGITS - (k - 1))) * BASE
                      + ((w \div Power(BASE, DIGITS - k)) % BASE)
  <2> DEFINE j == DIGITS - k
             m == Power(BASE, j)
             x == w \div m
             y == x \div BASE
             d == x % BASE
  <2>1. j \in Nat /\ DIGITS - (k - 1) = j + 1
    BY <1>1
  <2> HIDE DEF j
  <2>2. m \in Nat \ {0} /\ Power(BASE, j + 1) = BASE * m
    BY <2>1, DigitIs
  <2> HIDE DEF m
  <2>3. x \in Nat /\ w \div (BASE * m) = y
    BY <1>1, <2>2, DivModIs, DivTwice
  <2> HIDE DEF x
  <2>4. y \in Nat /\ d \in 0 .. BASE - 1 /\ x = BASE * y + d
    BY <1>1, <2>3, DivModIs
  <2>5. x = y * BASE + d
    <3> HIDE DEF y, d
    <3> QED
      BY <1>1, <2>4
  <2>6. w \div Power(BASE, DIGITS - (k - 1)) = y
    BY <2>1, <2>2, <2>3
  <2>7. d \in Digit
    BY <2>4 DEF Digit
  <2>8. x = (w \div Power(BASE, DIGITS - (k - 1))) * BASE + d
    BY <2>5, <2>6
  <2> QED
    BY <2>3, <2>7, <2>8 DEF x, m, j
<1>3. Padded(w) = [k \in 1 .. DIGITS |-> (w \div Power(BASE, DIGITS - k)) % BASE]
  BY DEF Padded
<1>4. Padded(w) \in [1 .. DIGITS -> Digit]
  BY <1>2, <1>3
<1>5. Padded(w) \in Seq(Digit) /\ Len(Padded(w)) = DIGITS
  <2> DEFINE s == Padded(w)
  <2>1. s \in [1 .. DIGITS -> Digit] /\ DIGITS \in Nat
    BY <1>1, <1>4
  <2> HIDE DEF s
  <2>2. s \in Seq(Digit)
    BY <2>1
  <2>3. Len(s) = DIGITS
    BY <2>1
  <2> QED
    BY <2>2, <2>3 DEF s
<1>6. \A k \in 1 .. DIGITS : Padded(w)[k] = (w \div Power(BASE, DIGITS - k)) % BASE
  BY <1>3
<1> QED
  BY <1>2, <1>5, <1>6

\* The number of all of them is the word.
LEMMA PaddedValue ==
  ASSUME NEW w \in 0 .. WORD - 1
  PROVE  strtoul(Padded(w)) = w
<1> DEFINE s == Padded(w)
           p == [k \in 0 .. DIGITS |-> w \div Power(BASE, DIGITS - k)]
<1>1. DIGITS \in Nat \ {0} /\ BASE \in Nat \ {0} /\ w \in Nat /\ WORD = Power(BASE, DIGITS)
  BY WordIs, DigitIs
<1>2. /\ s \in Seq(Digit) /\ Len(s) = DIGITS
      /\ \A k \in 1 .. DIGITS : /\ w \div Power(BASE, DIGITS - k) \in Nat
                                /\ w \div Power(BASE, DIGITS - k)
                                     = (w \div Power(BASE, DIGITS - (k - 1))) * BASE + s[k]
  BY PaddedIs
<1>3. w \div Power(BASE, DIGITS - 0) = 0
  <2>1. DIGITS - 0 = DIGITS /\ WORD \in Nat \ {0}
    BY <1>1, WordIs
  <2>2. WORD * 0 + w = w /\ 0 \in Int
    BY <1>1, <2>1
  <2>3. (WORD * 0 + w) \div WORD = 0
    BY <2>1, <2>2, DivModUnique
  <2> QED
    BY <1>1, <2>1, <2>2, <2>3
<1>4. w \div Power(BASE, DIGITS - DIGITS) = w
  <2>1. DIGITS - DIGITS = 0 /\ Power(BASE, 0) = 1
    BY <1>1, DigitIs
  <2>2. w \div 1 = w
    BY <1>1
  <2> QED
    BY <2>1, <2>2
<1> HIDE DEF s
<1>5. p[0] = 0 /\ p[DIGITS] = w
  <2>1. 0 \in 0 .. DIGITS /\ DIGITS \in 0 .. DIGITS
    BY <1>1
  <2> QED
    BY <1>3, <1>4, <2>1
<1>6. \A k \in 1 .. DIGITS : p[k] = p[k - 1] * BASE + s[k]
  <2> TAKE k \in 1 .. DIGITS
  <2>1. k \in 0 .. DIGITS /\ k - 1 \in 0 .. DIGITS
    BY <1>1
  <2> QED
    BY <1>2, <2>1
<1>7. p \in [0 .. DIGITS -> Nat]
  <2>1. \A k \in 0 .. DIGITS : w \div Power(BASE, DIGITS - k) \in Nat
    <3> TAKE k \in 0 .. DIGITS
    <3>1. CASE k = 0
      BY <1>3, <3>1
    <3>2. CASE k # 0
      <4>1. k \in 1 .. DIGITS
        BY <1>1, <3>2
      <4> QED
        BY <1>2, <4>1
    <3> QED
      BY <3>1, <3>2
  <2> QED
    BY <2>1
<1>8. Values(p, s)
  <2> HIDE DEF p
  <2> QED
    BY <1>2, <1>5, <1>6, <1>7 DEF Values
<1>9. strtoul(s) = p[Len(s)]
  <2> HIDE DEF p
  <2> QED
    BY <1>2, <1>8, ValueOf
<1> QED
  BY <1>2, <1>5, <1>9 DEF s

\* len is the number of digits that "%x" prints.
Digits(w, len) == w < Power(BASE, len) /\ (len > 1 => w >= Power(BASE, len - 1))

\* What "%x" prints are the last digits of what "%08x" prints.
LEMMA UnpaddedIs ==
  ASSUME NEW w \in 0 .. WORD - 1
  PROVE  \E len \in 1 .. DIGITS : /\ Digits(w, len)
                                  /\ Unpadded(w) = SubSeq(Padded(w), DIGITS - len + 1, DIGITS)
<1> DEFINE S == {n \in 1 .. DIGITS : w < Power(BASE, n)}
           len == CHOOSE n \in 1 .. DIGITS :
                    w < Power(BASE, n) /\ (n > 1 => w >= Power(BASE, n - 1))
<1>1. DIGITS \in Nat \ {0} /\ WORD = Power(BASE, DIGITS) /\ WORD \in Nat /\ w \in Nat
      /\ DIGITS \in 1 .. DIGITS /\ w < WORD
  <2>1. DIGITS \in Nat \ {0} /\ WORD = Power(BASE, DIGITS) /\ WORD \in Nat
    BY WordIs
  <2> QED
    BY <2>1
<1>2. DIGITS \in S /\ S \subseteq Nat
  BY <1>1
<1>3. PICK m \in S : \A k \in S : m <= k
  <2> HIDE DEF S
  <2> QED
    BY <1>2, LeastIs
<1>4. m \in 1 .. DIGITS /\ w < Power(BASE, m)
  BY <1>3
<1>5. m > 1 => w >= Power(BASE, m - 1)
  <2> SUFFICES ASSUME m > 1 PROVE w >= Power(BASE, m - 1)
    OBVIOUS
  <2> DEFINE j == m - 1
  <2>1. j \in 1 .. DIGITS /\ j \in Nat /\ j < m
    BY <1>1, <1>4
  <2>2. j \notin S
    <3> HIDE DEF S, j
    <3> QED
      BY <1>2, <1>3, <1>4, <2>1
  <2>3. Power(BASE, j) \in Nat
    BY <2>1, DigitIs
  <2> HIDE DEF j
  <2>4. ~(w < Power(BASE, j))
    BY <2>1, <2>2
  <2>5. w >= Power(BASE, j)
    BY <1>1, <2>3, <2>4
  <2> QED
    BY <2>5 DEF j
<1>6. len \in 1 .. DIGITS /\ w < Power(BASE, len) /\ (len > 1 => w >= Power(BASE, len - 1))
  <2>1. \E n \in 1 .. DIGITS : w < Power(BASE, n) /\ (n > 1 => w >= Power(BASE, n - 1))
    BY <1>4, <1>5
  <2> QED
    BY <2>1, Zenon
<1>7. Unpadded(w) = SubSeq(Padded(w), DIGITS - len + 1, DIGITS)
  BY DEF Unpadded
<1> HIDE DEF len
<1> QED
  BY <1>6, <1>7 DEF Digits

\* Unpadded prints the word, and no leading zero unless the word is zero.
LEMMA UnpaddedValue ==
  ASSUME NEW w \in 0 .. WORD - 1
  PROVE  /\ Unpadded(w) \in Seq(Digit) /\ Len(Unpadded(w)) \in 1 .. DIGITS
         /\ strtoul(Unpadded(w)) = w
         /\ w # 0 => Unpadded(w)[1] # 0
         /\ w = 0 => Len(Unpadded(w)) = 1
<1> DEFINE s == Padded(w)
           u == Unpadded(w)
<1>1. PICK n \in 1 .. DIGITS : Digits(w, n) /\ u = SubSeq(s, DIGITS - n + 1, DIGITS)
  BY UnpaddedIs
<1>2. w < Power(BASE, n) /\ (n > 1 => w >= Power(BASE, n - 1))
  BY <1>1 DEF Digits
<1>3. DIGITS \in Nat \ {0} /\ BASE \in Nat \ {0} /\ BASE >= 2 /\ w \in Nat
      /\ n \in Nat /\ n - 1 \in Nat /\ (n - 1) + 1 = n
  BY WordIs, DigitIs
<1>4. /\ s \in Seq(Digit) /\ Len(s) = DIGITS
      /\ \A k \in 1 .. DIGITS : /\ s[k] = (w \div Power(BASE, DIGITS - k)) % BASE
                                /\ s[k] \in Digit
                                /\ w \div Power(BASE, DIGITS - k) \in Nat
                                /\ w \div Power(BASE, DIGITS - k)
                                     = (w \div Power(BASE, DIGITS - (k - 1))) * BASE + s[k]
  BY PaddedIs
<1> HIDE DEF s, u
<1>5. u \in Seq(Digit) /\ Len(u) = n /\ \A k \in 1 .. n : u[k] = s[DIGITS - n + k]
  <2> DEFINE a == DIGITS - n + 1
  <2>1. a \in Int /\ a <= DIGITS /\ DIGITS \in Int /\ DIGITS - a + 1 = n /\ a >= 1
    BY <1>3
  <2>2. \A k \in a .. DIGITS : s[k] \in Digit
    <3> HIDE DEF a
    <3>1. \A k \in a .. DIGITS : k \in 1 .. DIGITS
      BY <2>1
    <3> QED
      BY <1>4, <3>1
  <2>3. u = SubSeq(s, a, DIGITS)
    BY <1>1
  <2>4. \A k \in 1 .. n : a + k - 1 = DIGITS - n + k
    BY <1>3
  <2> HIDE DEF a
  <2>5. /\ u \in Seq(Digit)
        /\ Len(u) = IF a <= DIGITS THEN DIGITS - a + 1 ELSE 0
        /\ \A k \in 1 .. DIGITS - a + 1 : u[k] = s[a + k - 1]
    BY <2>1, <2>2, <2>3, SubSeqProperties
  <2> QED
    BY <2>1, <2>4, <2>5
<1>6. Power(BASE, n - 1) \in Nat \ {0} /\ Power(BASE, n) = BASE * Power(BASE, n - 1)
      /\ Power(BASE, n) \in Nat \ {0}
  <2>1. Power(BASE, (n - 1) + 1) = BASE * Power(BASE, n - 1)
    BY <1>3, DigitIs
  <2> QED
    BY <1>3, <2>1, DigitIs
<1> DEFINE p == [k \in 0 .. n |-> w \div Power(BASE, n - k)]
<1>7. p[0] = 0 /\ p[n] = w
  <2>1. 0 \in 0 .. n /\ n \in 0 .. n /\ n - 0 = n /\ n - n = 0 /\ Power(BASE, 0) = 1
    BY <1>3, DigitIs
  <2>2. w \div 1 = w
    BY <1>3
  <2> DEFINE m == Power(BASE, n)
  <2>3. m \in Nat \ {0} /\ w \in 0 .. m - 1 /\ m * 0 + w = w /\ 0 \in Int
    BY <1>2, <1>3, <1>6
  <2> HIDE DEF m
  <2>4. (m * 0 + w) \div m = 0
    BY <2>3, DivModUnique
  <2>5. w \div m = 0
    BY <2>3, <2>4
  <2> QED
    BY <2>1, <2>2, <2>5 DEF m
<1>8. \A k \in 1 .. n : p[k] = p[k - 1] * BASE + u[k]
  <2> TAKE k \in 1 .. n
  <2> DEFINE j == DIGITS - n + k
  <2>1. k \in 0 .. n /\ k - 1 \in 0 .. n /\ j \in 1 .. DIGITS /\ DIGITS - j = n - k
        /\ DIGITS - (j - 1) = n - (k - 1)
    BY <1>3
  <2>2. u[k] = s[j]
    BY <1>5
  <2> HIDE DEF j
  <2>3. w \div Power(BASE, DIGITS - j) = (w \div Power(BASE, DIGITS - (j - 1))) * BASE + s[j]
    BY <1>4, <2>1
  <2>4. p[k] = w \div Power(BASE, n - k) /\ p[k - 1] = w \div Power(BASE, n - (k - 1))
    BY <2>1
  <2> HIDE DEF p
  <2> QED
    BY <2>1, <2>2, <2>3, <2>4
<1>9. p \in [0 .. n -> Nat]
  <2>1. \A k \in 0 .. n : w \div Power(BASE, n - k) \in Nat
    <3> TAKE k \in 0 .. n
    <3>1. n - k \in Nat
      BY <1>3
    <3>2. Power(BASE, n - k) \in Nat \ {0}
      BY <3>1, DigitIs
    <3> QED
      BY <1>3, <3>2, DivModIs
  <2> QED
    BY <2>1
<1> HIDE DEF p
<1>10. Values(p, u)
  BY <1>5, <1>7, <1>8, <1>9 DEF Values
<1>11. strtoul(u) = w
  <2>1. strtoul(u) = p[Len(u)]
    BY <1>5, <1>10, ValueOf
  <2> QED
    BY <1>5, <1>7, <2>1
<1>12. ASSUME w # 0 PROVE u[1] # 0
  <2> DEFINE m == Power(BASE, n - 1)
             q == w \div m
             r == w % m
  <2>1. 1 \in 1 .. n /\ DIGITS - n + 1 \in 1 .. DIGITS /\ DIGITS - (DIGITS - n + 1) = n - 1
    BY <1>3
  <2>2. u[1] = q % BASE
    <3>1. u[1] = s[DIGITS - n + 1]
      BY <1>5, <2>1
    <3>2. s[DIGITS - n + 1] = (w \div Power(BASE, DIGITS - (DIGITS - n + 1))) % BASE
      BY <1>4, <2>1
    <3> QED
      BY <2>1, <3>1, <3>2
  <2>3. m \in Nat \ {0} /\ w < BASE * m
    BY <1>2, <1>6
  <2>4. w >= m
    <3>1. CASE n = 1
      <4>1. m = 1
        <5>1. n - 1 = 0 /\ Power(BASE, 0) = 1
          BY <3>1, DigitIs
        <5> QED
          BY <5>1
      <4> HIDE DEF m
      <4> QED
        BY <1>3, <1>12, <4>1
    <3>2. CASE n # 1
      BY <1>2, <1>3, <3>2
    <3> QED
      BY <3>1, <3>2
  <2> HIDE DEF m
  <2>5. q \in Nat /\ r \in 0 .. m - 1 /\ w = m * q + r
    BY <1>3, <2>3, DivModIs
  <2> HIDE DEF q, r
  <2>6. q # 0
    <3> SUFFICES ASSUME q = 0 PROVE FALSE
      OBVIOUS
    <3>1. m * q = 0
      BY <2>3
    <3> QED
      BY <2>3, <2>4, <2>5, <3>1
  <2>7. q < BASE
    <3> SUFFICES ASSUME q >= BASE PROVE FALSE
      BY <1>3, <2>5
    <3>1. m * q >= m * BASE /\ m * BASE = BASE * m
      BY <1>3, <2>3, <2>5
    <3> QED
      BY <1>3, <2>3, <2>5, <3>1
  <2>8. q % BASE = q
    <3>1. q \in 0 .. BASE - 1 /\ BASE * 0 + q = q /\ 0 \in Int
      BY <1>3, <2>5, <2>7
    <3>2. (BASE * 0 + q) % BASE = q
      BY <1>3, <3>1, DivModUnique
    <3> QED
      BY <3>1, <3>2
  <2> QED
    BY <2>2, <2>6, <2>8
<1>13. ASSUME w = 0 PROVE n = 1
  <2>1. ~(n > 1)
    BY <1>2, <1>3, <1>6, <1>13
  <2> QED
    BY <1>3, <2>1
<1> QED
  BY <1>5, <1>11, <1>12, <1>13 DEF u

\* Words that are zero add nothing.
LEMMA LowZeros ==
  ASSUME NEW v \in UInt, NEW j \in 0 .. N, \A k \in 0 .. N - 1 : k >= j => v[k] = 0
  PROVE  Num(v) = Low(v, j)
<1> DEFINE T == {k \in Nat : Low(v, j + k) = Low(v, j)}
<1>1. N \in Nat /\ j \in Nat /\ N - j \in Nat /\ j + (N - j) = N
  BY WordIs
<1>2. 0 \in T
  BY <1>1
<1>3. ASSUME NEW k \in 0 .. (N - j) - 1, k \in T PROVE k + 1 \in T
  <2> DEFINE i == j + k
  <2>1. i \in 0 .. N - 1 /\ i \in 0 .. N /\ i \in Nat /\ i >= j /\ i + 1 = j + (k + 1) /\ k + 1 \in Nat
    BY <1>1
  <2>2. Low(v, i) = Low(v, j)
    BY <1>3
  <2> HIDE DEF i
  <2>3. Low(v, i + 1) = Low(v, i) + v[i] * Power(WORD, i)
    BY <2>1, LowIs
  <2>4. v[i] = 0 /\ Power(WORD, i) \in Nat /\ Low(v, i) \in Nat
    BY <2>1, WordPowers, LowIs
  <2>5. Low(v, i + 1) = Low(v, i)
    BY <2>3, <2>4
  <2> QED
    BY <2>1, <2>2, <2>5
<1>4. \A k \in 0 .. N - j : k \in T
  <2> HIDE DEF T
  <2> QED
    BY <1>1, <1>2, <1>3, Climb
<1>5. N - j \in T
  BY <1>1, <1>4
<1> QED
  BY <1>1, <1>5 DEF Num

\* FirstInd is the most significant word that is not zero, or the lowest one.
LEMMA FirstIndIs ==
  ASSUME NEW v \in UInt
  PROVE  /\ FirstInd(v) \in 0 .. N - 1
         /\ FirstInd(v) = 0 \/ v[FirstInd(v)] # 0
         /\ \A k \in 0 .. N - 1 : k > FirstInd(v) => v[k] = 0
<1> DEFINE S == {j \in 0 .. N - 1 : j = N - 1 \/ v[(N - 1) - j] # 0}
           Is(i) == (i = 0 \/ v[i] # 0) /\ \A k \in 0 .. N - 1 : k > i => v[k] = 0
<1>1. N \in Nat \ {0} /\ N - 1 \in S /\ S \subseteq Nat
  BY WordIs
<1>2. PICK m \in S : \A j \in S : m <= j
  <2> HIDE DEF S
  <2> QED
    BY <1>1, LeastIs
<1>3. m \in 0 .. N - 1 /\ (m = N - 1 \/ v[(N - 1) - m] # 0)
  BY <1>2
<1> DEFINE i == (N - 1) - m
<1>4. i \in 0 .. N - 1 /\ (i = 0 \/ v[i] # 0) /\ i + m = N - 1
  BY <1>1, <1>3
<1>5. ASSUME NEW k \in 0 .. N - 1, k > i PROVE v[k] = 0
  <2> DEFINE j == (N - 1) - k
  <2>1. j \in 0 .. N - 1 /\ j < m /\ (N - 1) - j = k /\ j # N - 1
    BY <1>1, <1>3, <1>4, <1>5
  <2>2. j \notin S
    <3> HIDE DEF S, j
    <3> QED
      BY <1>1, <1>2, <1>3, <2>1
  <2> HIDE DEF j
  <2> QED
    BY <2>1, <2>2
<1>6. \E x \in 0 .. N - 1 : Is(x)
  <2> HIDE DEF i
  <2> QED
    BY <1>4, <1>5
<1>7. FirstInd(v) = CHOOSE x \in 0 .. N - 1 : Is(x)
  BY DEF FirstInd, Index
<1>8. FirstInd(v) \in 0 .. N - 1 /\ Is(FirstInd(v))
  <2> HIDE DEF Is
  <2> QED
    BY <1>6, <1>7, Zenon
<1> QED
  BY <1>8

\* f has the digits of the low words.
Texts(f, v) ==
  /\ f \in [0 .. N -> Seq(Digit)]
  /\ f[0] = <<>>
  /\ \A i \in 1 .. N : f[i] = Padded(v[i - 1]) \o f[i - 1]

\* format_as_hex prints such digits below the first word.
LEMMA FormatIs ==
  ASSUME NEW v \in UInt
  PROVE  \E f : /\ Texts(f, v)
                /\ format_as_hex(v) = Unpadded(v[FirstInd(v)]) \o f[FirstInd(v)]
<1> DEFINE Is(q) == q = [i \in 0 .. N |-> IF i = 0 THEN <<>> ELSE Padded(v[i - 1]) \o q[i - 1]]
           h == CHOOSE q : Is(q)
           S == Seq(Digit)
           g == [i \in 1 .. N |-> [x \in S |-> Padded(v[i - 1]) \o x]]
<1>1. N \in Nat
  BY WordIs
<1>2. \A i \in 1 .. N : Padded(v[i - 1]) \in S
  <2> TAKE i \in 1 .. N
  <2>1. i - 1 \in 0 .. N - 1
    BY <1>1
  <2>2. v[i - 1] \in 0 .. WORD - 1
    BY <2>1, UIntIs
  <2> QED
    BY <2>2, PaddedIs
<1>3. \A i \in 1 .. N : \A x \in S : Padded(v[i - 1]) \o x \in S
  BY <1>2, ConcatProperties
<1>4. <<>> \in S
  BY EmptySeq
<1> HIDE DEF S
<1>5. g \in [1 .. N -> [S -> S]]
  BY <1>3
<1>6. PICK p \in [0 .. N -> S] : Follows(p, <<>>, g, N)
  <2> HIDE DEF g
  <2> QED
    BY <1>1, <1>4, <1>5, Recursion
<1>7. ASSUME NEW i \in 1 .. N PROVE p[i] = Padded(v[i - 1]) \o p[i - 1]
  <2>1. i - 1 \in 0 .. N
    BY <1>1
  <2>2. p[i - 1] \in S
    BY <2>1
  <2>3. p[i] = g[i][p[i - 1]]
    <3> HIDE DEF g
    <3> QED
      BY <1>6 DEF Follows
  <2> QED
    BY <2>2, <2>3
<1>8. p[0] = <<>>
  BY <1>6 DEF Follows
<1>9. Is(p)
  <2>1. \A i \in 0 .. N : i # 0 => i \in 1 .. N
    BY <1>1
  <2>2. p = [i \in 0 .. N |-> p[i]]
    OBVIOUS
  <2> QED
    BY <1>7, <1>8, <2>1, <2>2
<1>10. Is(h)
  <2> HIDE DEF Is
  <2> QED
    BY <1>9
<1>11. format_as_hex(v) = Unpadded(v[FirstInd(v)]) \o h[FirstInd(v)]
  BY DEF format_as_hex
<1> HIDE DEF h
<1>12. h[0] = p[0]
  <2>1. 0 \in 0 .. N
    BY <1>1
  <2> QED
    BY <1>8, <1>10, <2>1
<1>13. ASSUME NEW i \in 1 .. N, h[i - 1] = p[i - 1] PROVE h[i] = p[i]
  <2>1. i \in 0 .. N /\ i # 0
    BY <1>1
  <2>2. h[i] = Padded(v[i - 1]) \o h[i - 1]
    BY <1>10, <2>1
  <2> QED
    BY <1>7, <1>13, <2>2
<1>14. \A i \in 0 .. N : h[i] = p[i]
  <2> HIDE DEF Is
  <2>1. SameSteps(h, p, N)
    BY <1>13 DEF SameSteps
  <2> QED
    BY <1>1, <1>12, <2>1, SameRecursion
<1>15. FirstInd(v) \in 0 .. N
  BY <1>1, FirstIndIs
<1>16. Texts(p, v)
  BY <1>7, <1>8 DEF Texts, S
<1> QED
  BY <1>11, <1>14, <1>15, <1>16

\* The text is the number, without leading zeros.
LEMMA FormatExact ==
  ASSUME NEW v \in UInt
  PROVE  /\ strtoul(format_as_hex(v)) = Num(v)
         /\ Len(format_as_hex(v)) > 1 => format_as_hex(v)[1] # 0
<1> DEFINE x == FirstInd(v)
           u == Unpadded(v[x])
           text == format_as_hex(v)
<1>1. PICK f : Texts(f, v) /\ text = u \o f[x]
  BY FormatIs
<1>2. x \in 0 .. N - 1 /\ (x = 0 \/ v[x] # 0) /\ \A k \in 0 .. N - 1 : k > x => v[k] = 0
  BY FirstIndIs
<1> HIDE DEF x
<1>3. v[x] \in 0 .. WORD - 1
  BY <1>2, UIntIs
<1>4. /\ u \in Seq(Digit) /\ Len(u) \in 1 .. DIGITS /\ strtoul(u) = v[x]
      /\ v[x] # 0 => u[1] # 0
      /\ v[x] = 0 => Len(u) = 1
  BY <1>3, UnpaddedValue
<1>5. /\ f \in [0 .. N -> Seq(Digit)] /\ f[0] = <<>>
      /\ \A i \in 1 .. N : f[i] = Padded(v[i - 1]) \o f[i - 1]
  BY <1>1 DEF Texts
<1>6. N \in Nat \ {0} /\ DIGITS \in Nat \ {0} /\ WORD = Power(BASE, DIGITS)
  BY WordIs
<1> HIDE DEF u, text
<1>7. \A k \in Nat : DIGITS * k \in Nat /\ Power(BASE, DIGITS * k) = Power(WORD, k)
  <2> TAKE k \in Nat
  <2>1. BASE \in Nat \ {0} /\ DIGITS \in Nat
    BY <1>6, DigitIs
  <2>2. Power(BASE, DIGITS * k) = Power(Power(BASE, DIGITS), k)
    BY <2>1, PowerMul
  <2>3. DIGITS * k \in Nat
    BY <1>6
  <2> QED
    BY <1>6, <2>2, <2>3
<1> DEFINE T == {k \in Nat : Len(f[k]) = DIGITS * k /\ strtoul(f[k]) = Low(v, k)}
<1>8. 0 \in T
  <2>1. f[0] \in Seq(Digit) /\ Len(f[0]) = 0
    BY <1>5, <1>6, EmptySeq
  <2>2. strtoul(f[0]) \in Nat /\ strtoul(f[0]) < 1
    BY <2>1, NumeralBound, DigitIs
  <2>3. Low(v, 0) = 0 /\ DIGITS * 0 = 0
    BY <1>6, LowIs
  <2> QED
    BY <2>1, <2>2, <2>3
<1>9. ASSUME NEW k \in 0 .. N - 1, k \in T PROVE k + 1 \in T
  <2>1. k \in 0 .. N /\ k \in Nat /\ k + 1 \in 1 .. N /\ (k + 1) - 1 = k /\ k + 1 \in Nat
    BY <1>6
  <2>2. f[k] \in Seq(Digit) /\ Len(f[k]) = DIGITS * k /\ strtoul(f[k]) = Low(v, k)
    BY <1>5, <1>9, <2>1
  <2> DEFINE w == Padded(v[k])
  <2>3. v[k] \in 0 .. WORD - 1
    BY UIntIs
  <2>4. w \in Seq(Digit) /\ Len(w) = DIGITS /\ strtoul(w) = v[k]
    BY <2>3, PaddedIs, PaddedValue
  <2>5. f[k + 1] = w \o f[k]
    BY <1>5, <2>1
  <2> HIDE DEF w
  <2>6. /\ Len(w \o f[k]) = DIGITS + DIGITS * k
        /\ strtoul(w \o f[k]) = v[k] * Power(BASE, DIGITS * k) + Low(v, k)
    BY <2>2, <2>4, NumeralConcat
  <2>7. DIGITS + DIGITS * k = DIGITS * (k + 1)
    BY <1>6, <2>1
  <2>8. Power(BASE, DIGITS * k) = Power(WORD, k)
    BY <1>7, <2>1
  <2>9. Low(v, k + 1) = Low(v, k) + v[k] * Power(WORD, k)
    BY LowIs
  <2>10. v[k] * Power(WORD, k) \in Nat /\ Low(v, k) \in Nat
    <3>1. v[k] \in Nat /\ Power(WORD, k) \in Nat /\ Low(v, k) \in Nat
      BY <2>1, UIntIs, WordPowers, LowIs
    <3> QED
      BY <3>1
  <2>11. Low(v, k + 1) = v[k] * Power(WORD, k) + Low(v, k)
    BY <2>9, <2>10
  <2> QED
    BY <2>1, <2>5, <2>6, <2>7, <2>8, <2>11
<1>10. \A k \in 0 .. N : k \in T
  <2> HIDE DEF T
  <2> QED
    BY <1>6, <1>8, <1>9, Climb
<1>11. x \in 0 .. N /\ x + 1 \in 0 .. N /\ x \in Nat
  BY <1>2, <1>6
<1>12. f[x] \in Seq(Digit) /\ Len(f[x]) = DIGITS * x /\ strtoul(f[x]) = Low(v, x)
  BY <1>5, <1>10, <1>11
<1>13. /\ Len(text) = Len(u) + DIGITS * x
       /\ strtoul(text) = v[x] * Power(WORD, x) + Low(v, x)
  <2>1. /\ Len(u \o f[x]) = Len(u) + Len(f[x])
        /\ strtoul(u \o f[x]) = strtoul(u) * Power(BASE, Len(f[x])) + strtoul(f[x])
    BY <1>4, <1>12, NumeralConcat
  <2>2. Power(BASE, Len(f[x])) = Power(WORD, x)
    BY <1>7, <1>11, <1>12
  <2> QED
    BY <1>1, <1>4, <1>12, <2>1, <2>2
<1>14. strtoul(text) = Num(v)
  <2>1. \A k \in 0 .. N - 1 : k >= x + 1 => v[k] = 0
    BY <1>2, <1>6
  <2>2. Num(v) = Low(v, x + 1)
    BY <1>11, <2>1, LowZeros
  <2>3. Low(v, x + 1) = Low(v, x) + v[x] * Power(WORD, x)
    BY <1>2, LowIs
  <2>4. v[x] * Power(WORD, x) \in Nat /\ Low(v, x) \in Nat
    <3>1. v[x] \in Nat /\ Power(WORD, x) \in Nat /\ Low(v, x) \in Nat
      BY <1>2, <1>11, UIntIs, WordPowers, LowIs
    <3> QED
      BY <3>1
  <2> QED
    BY <1>13, <2>2, <2>3, <2>4
<1>15. ASSUME Len(text) > 1 PROVE text[1] # 0
  <2>1. v[x] # 0
    <3> SUFFICES ASSUME v[x] = 0 PROVE FALSE
      OBVIOUS
    <3>1. x = 0 /\ Len(u) = 1
      BY <1>2, <1>4
    <3>2. DIGITS * 0 = 0
      BY <1>6
    <3> QED
      BY <1>13, <1>15, <3>1, <3>2
  <2>2. text[1] = u[1]
    <3>1. 1 <= Len(u) /\ 1 \in 1 .. Len(u) + Len(f[x])
      <4>1. Len(f[x]) \in Nat
        BY <1>12, LenProperties
      <4>2. Len(u) \in Nat /\ 1 <= Len(u)
        BY <1>4, <1>6
      <4> QED
        BY <4>1, <4>2
    <3>2. \A i \in 1 .. Len(u) + Len(f[x]) :
            (u \o f[x])[i] = IF i <= Len(u) THEN u[i] ELSE f[x][i - Len(u)]
      BY <1>4, <1>12, ConcatProperties
    <3> QED
      BY <1>1, <3>1, <3>2
  <2> QED
    BY <1>4, <2>1, <2>2
<1> QED
  BY <1>14, <1>15 DEF text

-----------------------------------------------------------------------------
(* Reading.                                                                *)

\* A string of digits.
LEMMA HexIs ==
  ASSUME NEW n \in Nat, NEW hex \in Hex(n)
  PROVE  hex \in Seq(Digit) /\ Len(hex) = n
<1>1. hex \in [1 .. n -> Digit]
  BY DEF Hex, Digit
<1> QED
  BY <1>1

\* The digits that count are no more than fit.
LEMMA KeptIs ==
  ASSUME NEW hex \in Seq(Digit)
  PROVE  /\ Kept(hex) \in Seq(Digit)
         /\ Len(Kept(hex)) <= N * DIGITS
         /\ Len(Kept(hex)) < N * DIGITS => Kept(hex) = hex
<1> DEFINE n == Len(hex)
           m == N * DIGITS
           a == n - m + 1
<1>1. n \in Nat /\ m \in Nat
  <2>1. N \in Nat /\ DIGITS \in Nat
    BY WordIs
  <2> QED
    BY <2>1, LenProperties
<1>2. Kept(hex) = IF n > m THEN SubSeq(hex, a, n) ELSE hex
  BY DEF Kept
<1> HIDE DEF m
<1>3. CASE n > m
  <2>1. a \in Int /\ n \in Int /\ n - a + 1 = m /\ a >= 1
    BY <1>1, <1>3
  <2>2. \A i \in a .. n : hex[i] \in Digit
    <3>1. \A i \in a .. n : i \in 1 .. n
      <4> HIDE DEF n, a
      <4> QED
        BY <1>1, <2>1
    <3> QED
      BY <3>1, ElementOfSeq
  <2> HIDE DEF n, a
  <2>3. SubSeq(hex, a, n) \in Seq(Digit) /\ Len(SubSeq(hex, a, n)) = IF a <= n THEN n - a + 1 ELSE 0
    BY <2>1, <2>2, SubSeqProperties
  <2>4. (IF a <= n THEN n - a + 1 ELSE 0) = m
    BY <1>1, <2>1
  <2> QED
    BY <1>1, <1>2, <1>3, <2>3, <2>4 DEF m
<1>4. CASE ~(n > m)
  BY <1>1, <1>2, <1>4 DEF m
<1> QED
  BY <1>3, <1>4

\* The digits of the i-th word from the right, and those of the low k words.
Word(h, i) == SubSeq(h, Len(h) - (i + 1) * DIGITS + 1, Len(h) - i * DIGITS)
Lowest(h, k) == SubSeq(h, Len(h) - k * DIGITS + 1, Len(h))

\* The words of a string, and what is left of it above them.
Splits(h, top, rest) == top = Len(h) \div DIGITS /\ rest = Len(h) % DIGITS

\* A string is its rest followed by its words, from the top one to the lowest.
LEMMA LowestIs ==
  ASSUME NEW h \in Seq(Digit), NEW top, NEW rest, Splits(h, top, rest)
  PROVE  /\ top \in Nat /\ rest \in 0 .. DIGITS - 1 /\ Len(h) = top * DIGITS + rest
         /\ Lowest(h, 0) = <<>>
         /\ \A i \in 0 .. top - 1 : /\ Word(h, i) \in Seq(Digit) /\ Len(Word(h, i)) = DIGITS
                                    /\ Lowest(h, i + 1) = Word(h, i) \o Lowest(h, i)
         /\ \A k \in 0 .. top : Lowest(h, k) \in Seq(Digit) /\ Len(Lowest(h, k)) = k * DIGITS
         /\ SubSeq(h, 1, rest) \in Seq(Digit) /\ Len(SubSeq(h, 1, rest)) = rest
         /\ h = SubSeq(h, 1, rest) \o Lowest(h, top)
<1> DEFINE n == Len(h)
<1>1. n \in Nat /\ DIGITS \in Nat \ {0}
  BY WordIs, LenProperties
<1>2. top \in Nat /\ rest \in 0 .. DIGITS - 1 /\ n = top * DIGITS + rest
  <2>1. top \in Nat /\ rest \in 0 .. DIGITS - 1 /\ n = DIGITS * top + rest
    BY <1>1, DivModIs DEF Splits
  <2>2. DIGITS * top = top * DIGITS
    BY <1>1, <2>1
  <2> QED
    BY <2>1, <2>2
<1>3. \A i \in 1 .. n : h[i] \in Digit
  BY ElementOfSeq
<1> HIDE DEF n
<1>4. ASSUME NEW k \in 0 .. top
      PROVE  k * DIGITS \in Nat /\ k * DIGITS <= top * DIGITS /\ (k + 1) * DIGITS = k * DIGITS + DIGITS
  <2>1. k \in Nat /\ top - k \in Nat
    BY <1>2
  <2>2. (top - k) * DIGITS \in Nat /\ (top - k) * DIGITS = top * DIGITS - k * DIGITS /\ k * DIGITS \in Nat
        /\ top * DIGITS \in Nat
    BY <1>1, <1>2, <2>1
  <2>3. k * DIGITS <= top * DIGITS
    BY <2>2
  <2>4. (k + 1) * DIGITS = k * DIGITS + DIGITS
    BY <1>1, <2>1
  <2> QED
    BY <2>2, <2>3, <2>4
<1>5. ASSUME NEW a \in Int, NEW b \in Int, a >= 1, b <= n, a <= b + 1
      PROVE  SubSeq(h, a, b) \in Seq(Digit) /\ Len(SubSeq(h, a, b)) = b - a + 1
  <2>1. \A i \in a .. b : h[i] \in Digit
    <3>1. \A i \in a .. b : i \in 1 .. n
      BY <1>1, <1>5
    <3> QED
      BY <1>3, <3>1
  <2>2. SubSeq(h, a, b) \in Seq(Digit) /\ Len(SubSeq(h, a, b)) = IF a <= b THEN b - a + 1 ELSE 0
    BY <2>1, SubSeqProperties
  <2>3. (IF a <= b THEN b - a + 1 ELSE 0) = b - a + 1
    BY <1>5
  <2> QED
    BY <2>2, <2>3
<1>6. ASSUME NEW k \in 0 .. top
      PROVE  Lowest(h, k) \in Seq(Digit) /\ Len(Lowest(h, k)) = k * DIGITS
  <2> DEFINE x == k * DIGITS
             a == n - x + 1
  <2>1. x \in Nat /\ x <= n
    <3>1. x \in Nat /\ x <= top * DIGITS /\ top * DIGITS \in Nat
      BY <1>1, <1>2, <1>4
    <3> HIDE DEF x
    <3> QED
      BY <1>1, <1>2, <3>1
  <2> HIDE DEF x
  <2>2. a \in Int /\ n \in Int /\ a >= 1 /\ n <= n /\ a <= n + 1 /\ n - a + 1 = x
    BY <1>1, <2>1
  <2>3. SubSeq(h, a, n) \in Seq(Digit) /\ Len(SubSeq(h, a, n)) = n - a + 1
    <3> HIDE DEF a
    <3> QED
      BY <1>5, <2>2
  <2>4. Lowest(h, k) = SubSeq(h, a, n)
    BY DEF Lowest, n, x
  <2> QED
    BY <2>2, <2>3, <2>4 DEF x
<1>7. ASSUME NEW i \in 0 .. top - 1
      PROVE  /\ Word(h, i) \in Seq(Digit) /\ Len(Word(h, i)) = DIGITS
             /\ Lowest(h, i + 1) = Word(h, i) \o Lowest(h, i)
  <2> DEFINE x == i * DIGITS
             a == n - (x + DIGITS) + 1
             b == n - x
  <2>1. i \in 0 .. top /\ i + 1 \in 0 .. top
    BY <1>2
  <2>2. x \in Nat /\ (i + 1) * DIGITS = x + DIGITS /\ x + DIGITS <= n
    <3> DEFINE y == (i + 1) * DIGITS
    <3>1. x \in Nat /\ y = x + DIGITS
      BY <1>4, <2>1
    <3>2. y \in Nat /\ y <= top * DIGITS /\ top * DIGITS \in Nat
      BY <1>1, <1>2, <1>4, <2>1
    <3> HIDE DEF x, y
    <3>3. x + DIGITS <= n
      BY <1>1, <1>2, <3>1, <3>2
    <3> QED
      BY <3>1, <3>3 DEF y
  <2> HIDE DEF x
  <2>3. /\ a \in Int /\ b \in Int /\ a >= 1 /\ b <= n /\ a <= b + 1 /\ b - a + 1 = DIGITS
        /\ a \in 1 .. n + 1 /\ b \in a - 1 .. n /\ n \in b .. n
    BY <1>1, <2>2
  <2>4. Word(h, i) = SubSeq(h, a, b) /\ Lowest(h, i + 1) = SubSeq(h, a, n) /\ Lowest(h, i) = SubSeq(h, b + 1, n)
    BY <2>2 DEF Word, Lowest, n, x
  <2> HIDE DEF a, b
  <2>5. SubSeq(h, a, b) \in Seq(Digit) /\ Len(SubSeq(h, a, b)) = DIGITS
    BY <1>5, <2>3
  <2>6. SubSeq(h, a, b) \o SubSeq(h, b + 1, n) = SubSeq(h, a, n)
    BY <2>3, ConcatAdjacentSubSeq DEF n
  <2> QED
    BY <2>4, <2>5, <2>6
<1>8. Lowest(h, 0) = <<>>
  <2>1. 0 \in 0 .. top /\ 0 * DIGITS = 0
    BY <1>1, <1>2
  <2>2. Lowest(h, 0) \in Seq(Digit) /\ Len(Lowest(h, 0)) = 0
    BY <1>6, <2>1
  <2> QED
    BY <2>2, EmptySeq
<1>9. /\ SubSeq(h, 1, rest) \in Seq(Digit) /\ Len(SubSeq(h, 1, rest)) = rest
      /\ h = SubSeq(h, 1, rest) \o Lowest(h, top)
  <2>1. top * DIGITS \in Nat
    BY <1>1, <1>2
  <2>2. rest \in Int /\ rest <= n /\ 1 <= rest + 1 /\ rest - 1 + 1 = rest /\ n - top * DIGITS + 1 = rest + 1
        /\ 1 \in Int /\ 1 >= 1 /\ 1 \in 1 .. n + 1 /\ rest \in 1 - 1 .. n /\ n \in rest .. n
    BY <1>1, <1>2, <2>1
  <2>3. SubSeq(h, 1, rest) \in Seq(Digit) /\ Len(SubSeq(h, 1, rest)) = rest
    BY <1>5, <2>2
  <2>4. Lowest(h, top) = SubSeq(h, rest + 1, n)
    BY <2>2 DEF Lowest, n
  <2>5. SubSeq(h, 1, rest) \o SubSeq(h, rest + 1, n) = SubSeq(h, 1, n)
    BY <2>2, ConcatAdjacentSubSeq DEF n
  <2>6. SubSeq(h, 1, n) = h
    BY SubSeqFull DEF n
  <2> QED
    BY <2>3, <2>4, <2>5, <2>6
<1> QED
  BY <1>2, <1>6, <1>7, <1>8, <1>9 DEF n

\* The words that are read from whole words stand for the digits.
LEMMA WordsRead ==
  ASSUME NEW h \in Seq(Digit), NEW top \in 0 .. N, NEW rest, Splits(h, top, rest),
         NEW w \in UInt, \A i \in 0 .. top - 1 : w[i] = strtoul(Word(h, i))
  PROVE  \A k \in 0 .. top : Low(w, k) = strtoul(Lowest(h, k))
<1> DEFINE T == {k \in Nat : Low(w, k) = strtoul(Lowest(h, k))}
<1>1. /\ top \in Nat /\ Lowest(h, 0) = <<>>
      /\ \A i \in 0 .. top - 1 : /\ Word(h, i) \in Seq(Digit) /\ Len(Word(h, i)) = DIGITS
                                 /\ Lowest(h, i + 1) = Word(h, i) \o Lowest(h, i)
      /\ \A k \in 0 .. top : Lowest(h, k) \in Seq(Digit) /\ Len(Lowest(h, k)) = k * DIGITS
  BY LowestIs
<1>2. N \in Nat /\ DIGITS \in Nat /\ WORD = Power(BASE, DIGITS) /\ BASE \in Nat \ {0}
  BY WordIs, DigitIs
<1>3. 0 \in T
  <2>1. <<>> \in Seq(Digit) /\ Len(<<>>) = 0
    BY EmptySeq
  <2>2. strtoul(<<>>) \in Nat /\ strtoul(<<>>) < 1
    BY <2>1, NumeralBound, DigitIs
  <2>3. strtoul(<<>>) = 0
    BY <2>2
  <2>4. Low(w, 0) = 0
    BY LowIs
  <2> QED
    BY <1>1, <2>3, <2>4
<1>4. ASSUME NEW k \in 0 .. top - 1, k \in T PROVE k + 1 \in T
  <2> DEFINE s == Word(h, k)
             t == Lowest(h, k)
             p == Power(WORD, k)
  <2>1. k \in 0 .. top /\ k \in Nat /\ k + 1 \in Nat /\ k \in 0 .. N - 1 /\ k \in 0 .. N
    BY <1>1, <1>2
  <2>2. s \in Seq(Digit) /\ Lowest(h, k + 1) = s \o t /\ t \in Seq(Digit) /\ Len(t) = k * DIGITS
    BY <1>1, <2>1
  <2>3. Low(w, k) = strtoul(t) /\ w[k] = strtoul(s)
    BY <1>4
  <2>4. Low(w, k + 1) = Low(w, k) + w[k] * p
    BY <2>1, LowIs
  <2>5. Power(BASE, k * DIGITS) = p
    <3>1. Power(BASE, DIGITS * k) = Power(Power(BASE, DIGITS), k)
      BY <1>2, <2>1, PowerMul
    <3>2. DIGITS * k = k * DIGITS
      BY <1>2, <2>1
    <3> QED
      BY <1>2, <3>1, <3>2
  <2>6. p \in Nat
    BY <2>1, WordPowers
  <2> HIDE DEF s, t, p
  <2>7. strtoul(s \o t) = strtoul(s) * p + strtoul(t)
    <3>1. strtoul(s \o t) = strtoul(s) * Power(BASE, Len(t)) + strtoul(t)
      BY <2>2, NumeralConcat
    <3> QED
      BY <2>2, <2>5, <3>1
  <2>8. strtoul(s) \in Nat /\ strtoul(t) \in Nat
    BY <2>2, NumeralBound
  <2>9. Low(w, k + 1) = strtoul(s \o t)
    <3> DEFINE x == strtoul(s) * p
               y == strtoul(t)
    <3>1. x \in Nat /\ y \in Nat
      BY <2>6, <2>8
    <3>2. Low(w, k + 1) = y + x /\ strtoul(s \o t) = x + y
      BY <2>3, <2>4, <2>7
    <3> HIDE DEF x, y
    <3> QED
      BY <3>1, <3>2
  <2> QED
    BY <2>1, <2>2, <2>9
<1>5. \A k \in 0 .. top : k \in T
  <2> HIDE DEF T
  <2> QED
    BY <1>1, <1>3, <1>4, Climb
<1> QED
  BY <1>5

\* A part of a word is less than a word.
LEMMA PartBound ==
  ASSUME NEW s \in Seq(Digit), Len(s) <= DIGITS
  PROVE  strtoul(s) \in 0 .. WORD - 1
<1> DEFINE n == Len(s)
           m == DIGITS - n
           a == Power(BASE, n)
           b == Power(BASE, m)
<1>1. DIGITS \in Nat /\ n \in Nat /\ WORD = Power(BASE, DIGITS) /\ BASE \in Nat \ {0} /\ WORD \in Nat
  BY WordIs, DigitIs, LenProperties
<1>2. m \in Nat /\ n + m = DIGITS
  BY <1>1
<1>3. Power(BASE, n + m) = a * b
  BY <1>1, <1>2, PowerAdd
<1>4. a \in Nat \ {0} /\ b \in Nat \ {0}
  BY <1>1, <1>2, DigitIs
<1>5. strtoul(s) \in Nat /\ strtoul(s) < a
  BY NumeralBound
<1>6. WORD = a * b
  BY <1>1, <1>2, <1>3
<1> HIDE DEF a, b
<1>7. a * b >= a
  BY <1>4
<1> QED
  BY <1>1, <1>4, <1>5, <1>6, <1>7

\* v is read from h, whose number of words is top, and junk is left in the word
\* that is not set.
Reads(v, h, top, rest, junk) ==
  v = [i \in 0 .. N - 1 |->
         CASE i < top -> strtoul(Word(h, i))
           [] i > top -> 0
           [] OTHER   -> IF rest # 0 THEN strtoul(SubSeq(h, 1, rest)) ELSE junk]

\* create_from_hex reads what is kept of the string.
LEMMA ReadsAre ==
  ASSUME NEW hex, NEW v \in create_from_hex(hex)
  PROVE  \E junk : /\ junk \in 0 .. WORD - 1
                   /\ Reads(v, Kept(hex), Len(Kept(hex)) \div DIGITS, Len(Kept(hex)) % DIGITS, junk)
<1> DEFINE h == Kept(hex)
           J == IF Unset(hex) = {} THEN {0} ELSE 0 .. WORD - 1
<1>1. PICK junk \in J : Reads(v, h, Len(h) \div DIGITS, Len(h) % DIGITS, junk)
  BY DEF create_from_hex, Reads, Word, Index
<1>2. junk \in 0 .. WORD - 1
  BY WordIs
<1> QED
  BY <1>1, <1>2

\* create_from_hex reads the number, but for the word that it leaves unset.
LEMMA FromHexExact ==
  ASSUME NEW hex \in Seq(Digit), NEW v \in create_from_hex(hex)
  PROVE  /\ v \in UInt
         /\ Unset(hex) = {} => Num(v) = strtoul(Kept(hex))
         /\ \A i \in Unset(hex) : Num([v EXCEPT ![i] = 0]) = strtoul(hex)
<1> DEFINE h == Kept(hex)
           top == Len(h) \div DIGITS
           rest == Len(h) % DIGITS
           first == SubSeq(h, 1, rest)
<1>1. N \in Nat \ {0} /\ DIGITS \in Nat \ {0} /\ WORD \in Nat \ {0} /\ WORD = Power(BASE, DIGITS)
      /\ BASE \in Nat \ {0}
  BY WordIs, DigitIs
<1>2. h \in Seq(Digit) /\ Len(h) <= N * DIGITS /\ (Len(h) < N * DIGITS => h = hex)
  BY KeptIs
<1>3. PICK junk : junk \in 0 .. WORD - 1 /\ Reads(v, h, top, rest, junk)
  BY ReadsAre
<1>4. Unset(hex) = {i \in 0 .. N - 1 : Len(h) = i * DIGITS}
  BY DEF Unset, Index
<1> HIDE DEF h
<1>5. Splits(h, top, rest)
  BY DEF Splits
<1> HIDE DEF top, rest
<1>6. /\ top \in Nat /\ rest \in 0 .. DIGITS - 1 /\ Len(h) = top * DIGITS + rest
      /\ \A i \in 0 .. top - 1 : Word(h, i) \in Seq(Digit) /\ Len(Word(h, i)) = DIGITS
      /\ \A k \in 0 .. top : Lowest(h, k) \in Seq(Digit) /\ Len(Lowest(h, k)) = k * DIGITS
      /\ first \in Seq(Digit) /\ Len(first) = rest
      /\ h = first \o Lowest(h, top)
  <2>1. h \in Seq(Digit)
    BY <1>2
  <2> QED
    BY <1>5, <2>1, LowestIs
<1> HIDE DEF first
<1>7. top <= N /\ (top = N => rest = 0) /\ top * DIGITS \in Nat
  <2>1. top * DIGITS \in Nat
    BY <1>1, <1>6
  <2>2. N * DIGITS \in Nat /\ (N + 1) * DIGITS = N * DIGITS + DIGITS
    BY <1>1
  <2>3. top <= N
    <3> SUFFICES ASSUME top >= N + 1 PROVE FALSE
      BY <1>1, <1>6
    <3>1. top * DIGITS >= (N + 1) * DIGITS
      BY <1>1, <1>6
    <3> DEFINE A == top * DIGITS
               B == N * DIGITS
               n == Len(h)
    <3>2. A \in Nat /\ B \in Nat /\ A >= B + DIGITS /\ n <= B /\ n = A + rest
      BY <1>2, <1>6, <2>1, <2>2, <3>1
    <3>3. rest \in Nat /\ DIGITS \in Nat \ {0}
      BY <1>1, <1>6
    <3> HIDE DEF A, B, n
    <3> QED
      BY <3>2, <3>3
  <2>4. ASSUME top = N PROVE rest = 0
    BY <1>1, <1>2, <1>6, <2>1, <2>2, <2>4
  <2> QED
    BY <2>1, <2>3, <2>4
<1>8. \A i \in 0 .. N - 1 :
        /\ i < top => v[i] = strtoul(Word(h, i))
        /\ i > top => v[i] = 0
        /\ i = top => v[i] = IF rest # 0 THEN strtoul(first) ELSE junk
  <2> TAKE i \in 0 .. N - 1
  <2>1. v[i] = CASE i < top -> strtoul(Word(h, i))
                 [] i > top -> 0
                 [] OTHER   -> IF rest # 0 THEN strtoul(first) ELSE junk
    BY <1>3 DEF Reads, first
  <2>2. i \in Int /\ top \in Int
    BY <1>1, <1>6
  <2>3. CASE i < top
    BY <2>1, <2>2, <2>3
  <2>4. CASE i > top
    BY <2>1, <2>2, <2>4
  <2>5. CASE i = top
    BY <2>1, <2>2, <2>5
  <2> QED
    BY <2>2, <2>3, <2>4, <2>5
<1>9. ASSUME NEW i \in 0 .. N - 1 PROVE v[i] \in 0 .. WORD - 1
  <2>1. CASE i < top
    <3>1. i \in 0 .. top - 1
      BY <1>1, <1>6, <2>1
    <3>2. Word(h, i) \in Seq(Digit) /\ Len(Word(h, i)) <= DIGITS
      BY <1>1, <1>6, <3>1
    <3> QED
      BY <1>8, <2>1, <3>2, PartBound
  <2>2. CASE i > top
    <3>1. 0 \in 0 .. WORD - 1
      BY <1>1
    <3> QED
      BY <1>8, <2>2, <3>1
  <2>3. CASE i = top
    <3>1. Len(first) <= DIGITS
      BY <1>1, <1>6
    <3>2. strtoul(first) \in 0 .. WORD - 1
      BY <1>6, <3>1, PartBound
    <3> QED
      BY <1>3, <1>8, <2>3, <3>2
  <2> QED
    BY <1>1, <1>6, <2>1, <2>2, <2>3
<1>10. v \in UInt
  <2>1. v = [i \in 0 .. N - 1 |-> v[i]]
    BY <1>3 DEF Reads
  <2> QED
    BY <1>9, <2>1 DEF UInt, Index
<1>11. \A i \in 0 .. top - 1 : i \in 0 .. N - 1 /\ i < top
  BY <1>1, <1>6, <1>7
<1>12. top \in 0 .. N
  BY <1>1, <1>6, <1>7
<1>13. ASSUME rest = 0 PROVE strtoul(h) = strtoul(Lowest(h, top))
  <2> DEFINE t == Lowest(h, top)
  <2>1. t \in Seq(Digit) /\ Len(t) \in Nat /\ h = first \o t
    <3>1. top \in 0 .. top
      BY <1>6
    <3> QED
      BY <1>6, <3>1, LenProperties
  <2> HIDE DEF t
  <2>2. strtoul(h) = strtoul(first) * Power(BASE, Len(t)) + strtoul(t)
    BY <1>6, <2>1, NumeralConcat
  <2>3. strtoul(first) \in Nat /\ strtoul(first) < 1
    <3>1. strtoul(first) \in Nat /\ strtoul(first) < Power(BASE, Len(first))
      BY <1>6, NumeralBound
    <3>2. Power(BASE, Len(first)) = 1
      BY <1>6, <1>13, DigitIs
    <3> QED
      BY <3>1, <3>2
  <2>4. strtoul(first) = 0
    BY <2>3
  <2>5. Power(BASE, Len(t)) \in Nat /\ strtoul(t) \in Nat
    BY <2>1, DigitIs, NumeralBound
  <2>6. strtoul(h) = strtoul(t)
    BY <2>2, <2>4, <2>5
  <2> QED
    BY <2>6 DEF t
<1>14. \A i \in Unset(hex) : i = top /\ rest = 0 /\ top \in 0 .. N - 1
  <2> TAKE i \in Unset(hex)
  <2>1. i \in 0 .. N - 1 /\ Len(h) = i * DIGITS
    BY <1>4
  <2>2. i \in Int /\ 0 \in 0 .. DIGITS - 1 /\ DIGITS * i + 0 = i * DIGITS
    BY <1>1, <2>1
  <2>3. (DIGITS * i + 0) \div DIGITS = i /\ (DIGITS * i + 0) % DIGITS = 0
    BY <1>1, <2>2, DivModUnique
  <2> QED
    BY <2>1, <2>2, <2>3 DEF top, rest
<1>15. ASSUME Unset(hex) = {} PROVE Num(v) = strtoul(h)
  <2>1. \A k \in 0 .. top : Low(v, k) = strtoul(Lowest(h, k))
    <3>1. \A i \in 0 .. top - 1 : v[i] = strtoul(Word(h, i))
      BY <1>8, <1>11
    <3> QED
      BY <1>2, <1>5, <1>10, <1>12, <3>1, WordsRead
  <2>2. top \in 0 .. top
    BY <1>6
  <2>3. CASE rest = 0
    <3>1. ~(top \in 0 .. N - 1)
      <4> SUFFICES ASSUME top \in 0 .. N - 1 PROVE FALSE
        OBVIOUS
      <4>1. Len(h) = top * DIGITS
        BY <1>6, <1>7, <2>3
      <4> QED
        BY <1>4, <1>15, <4>1
    <3>2. top = N
      BY <1>1, <1>12, <3>1
    <3>3. Low(v, N) = strtoul(h)
      BY <1>13, <2>1, <2>2, <2>3, <3>2
    <3> QED
      BY <3>3 DEF Num
  <2>4. CASE rest # 0
    <3> DEFINE t == Lowest(h, top)
               p == Power(WORD, top)
    <3>1. top \in 0 .. N - 1 /\ top + 1 \in 0 .. N
      BY <1>1, <1>6, <1>7, <2>4
    <3>2. v[top] = strtoul(first)
      BY <1>8, <2>4, <3>1
    <3>3. \A k \in 0 .. N - 1 : k >= top + 1 => v[k] = 0
      <4>1. \A k \in 0 .. N - 1 : k >= top + 1 => k > top
        BY <1>1, <1>6
      <4> QED
        BY <1>8, <4>1
    <3>4. Num(v) = Low(v, top + 1)
      BY <1>10, <3>1, <3>3, LowZeros
    <3>5. Low(v, top + 1) = Low(v, top) + v[top] * p
      BY <1>10, <3>1, LowIs
    <3>6. Low(v, top) = strtoul(t)
      BY <2>1, <2>2
    <3>7. t \in Seq(Digit) /\ Len(t) = top * DIGITS /\ h = first \o t
      BY <1>6, <2>2
    <3>8. Power(BASE, top * DIGITS) = p
      <4>1. Power(BASE, DIGITS * top) = Power(Power(BASE, DIGITS), top)
        BY <1>1, <1>6, PowerMul
      <4>2. DIGITS * top = top * DIGITS
        BY <1>1, <1>6
      <4> QED
        BY <1>1, <4>1, <4>2
    <3>9. p \in Nat
      BY <1>6, WordPowers
    <3> HIDE DEF t, p
    <3>10. strtoul(h) = strtoul(first) * p + strtoul(t)
      <4>1. strtoul(first \o t) = strtoul(first) * Power(BASE, Len(t)) + strtoul(t)
        BY <1>6, <3>7, NumeralConcat
      <4> QED
        BY <3>7, <3>8, <4>1
    <3>11. strtoul(first) \in Nat /\ strtoul(t) \in Nat
      BY <1>6, <3>7, NumeralBound
    <3> DEFINE x == strtoul(first) * p
               y == strtoul(t)
    <3>12. x \in Nat /\ y \in Nat /\ Num(v) = y + x /\ strtoul(h) = x + y
      BY <3>2, <3>4, <3>5, <3>6, <3>9, <3>10, <3>11
    <3> HIDE DEF x, y
    <3> QED
      BY <3>12
  <2> QED
    BY <2>3, <2>4
<1>16. ASSUME NEW i \in Unset(hex) PROVE Num([v EXCEPT ![i] = 0]) = strtoul(hex)
  <2> DEFINE w == [v EXCEPT ![i] = 0]
  <2>1. i = top /\ rest = 0 /\ top \in 0 .. N - 1
    BY <1>14
  <2>2. 0 \in 0 .. WORD - 1
    BY <1>1
  <2>3. w \in UInt
    BY <1>10, <2>2 DEF UInt
  <2>4. \A k \in 0 .. N - 1 : w[k] = IF k = top THEN 0 ELSE v[k]
    BY <1>10, <2>1 DEF UInt, Index
  <2> HIDE DEF w
  <2>5. \A k \in 0 .. N - 1 : k >= top => w[k] = 0
    <3> TAKE k \in 0 .. N - 1
    <3>1. k >= top => k = top \/ k > top
      BY <1>1, <1>6
    <3> QED
      BY <1>8, <2>4, <3>1
  <2>6. \A k \in 0 .. top - 1 : w[k] = strtoul(Word(h, k))
    <3> TAKE k \in 0 .. top - 1
    <3>1. k \in 0 .. N - 1 /\ k < top /\ k # top
      BY <1>6, <1>11
    <3> QED
      BY <1>8, <2>4, <3>1
  <2>7. Num(w) = Low(w, top)
    BY <1>12, <2>3, <2>5, LowZeros
  <2>8. Low(w, top) = strtoul(Lowest(h, top))
    <3>1. top \in 0 .. top
      BY <1>6
    <3>2. \A k \in 0 .. top : Low(w, k) = strtoul(Lowest(h, k))
      BY <1>2, <1>5, <1>12, <2>3, <2>6, WordsRead
    <3> QED
      BY <3>1, <3>2
  <2>9. h = hex
    <3>1. Len(h) = top * DIGITS /\ N - top \in Nat \ {0}
      BY <1>1, <1>6, <1>7, <2>1
    <3>2. (N - top) * DIGITS > 0 /\ (N - top) * DIGITS = N * DIGITS - top * DIGITS
          /\ N * DIGITS \in Nat /\ top * DIGITS \in Nat
      BY <1>1, <1>6, <3>1
    <3>3. Len(h) < N * DIGITS
      BY <3>1, <3>2
    <3> QED
      BY <1>2, <3>3
  <2> QED
    BY <1>13, <2>1, <2>7, <2>8, <2>9 DEF w
<1> QED
  BY <1>10, <1>15, <1>16 DEF h

-----------------------------------------------------------------------------
(* The properties.                                                         *)

\* A call and its result, of a function of v.
Made(c, v) ==
  \/ c = Ready
  \/ \E r \in UInt : c = [op |-> "add", right |-> r, result |-> add(v, r)]
  \/ \E r \in UInt : c = [op |-> "sub", right |-> r, result |-> sub(v, r)]
  \/ c = [op |-> "negate", result |-> negate(v)]
  \/ \E n \in Nat : c = [op |-> "left", nbits |-> n, result |-> rotate_left(v, n)]
  \/ \E n \in Nat : c = [op |-> "right", nbits |-> n, result |-> rotate_right(v, n)]
  \/ \E hex \in Seq(Digit) : \E w \in create_from_hex(hex) :
       c = [op |-> "from_hex", hex |-> hex, result |-> w]
  \/ c = [op |-> "format", hex |-> format_as_hex(v), result |-> v]

\* The caller has a value, and what it called is what the function gave.
CallerInv == val \in UInt /\ Made(call, val)

\* A caller begins with a value.
LEMMA CallerInitInv == CallerInit => CallerInv
<1> SUFFICES ASSUME CallerInit PROVE CallerInv
  OBVIOUS
<1>1. call = Ready
  BY DEF CallerInit
<1>2. WORD \in Nat \ {0}
  BY WordIs
<1>3. CASE \E w \in 0 .. WORD - 1 : val = create_from_u32(w)
  <2>1. PICK w \in 0 .. WORD - 1 : val = create_from_u32(w)
    BY <1>3
  <2>2. 0 \in 0 .. WORD - 1
    BY <1>2
  <2>3. create_from_u32(w) \in UInt
    BY <2>2 DEF create_from_u32, UInt
  <2> QED
    BY <1>1, <2>1, <2>3 DEF CallerInv, Made
<1>4. CASE \E data \in UInt : val = create(data)
  <2>1. PICK data \in UInt : val = create(data)
    BY <1>4
  <2>2. create(data) \in UInt
    BY DEF create, UInt
  <2> QED
    BY <1>1, <2>1, <2>2 DEF CallerInv, Made
<1> QED
  BY <1>3, <1>4 DEF CallerInit

\* The functions return values.
LEMMA CallerResult ==
  ASSUME NEW v \in UInt, NEW c, Made(c, v), c # Ready
  PROVE  c.result \in UInt
<1>1. CASE \E r \in UInt : c = [op |-> "add", right |-> r, result |-> add(v, r)]
  BY <1>1, AddIs
<1>2. CASE \E r \in UInt : c = [op |-> "sub", right |-> r, result |-> sub(v, r)]
  <2>1. PICK r \in UInt : c = [op |-> "sub", right |-> r, result |-> sub(v, r)]
    BY <1>2
  <2>2. negate(r) \in UInt
    BY NegateExact
  <2>3. sub(v, r) \in UInt
    BY <2>2, AddIs DEF sub
  <2> QED
    BY <2>1, <2>3
<1>3. CASE c = [op |-> "negate", result |-> negate(v)]
  BY <1>3, NegateExact
<1>4. CASE \E n \in Nat : c = [op |-> "left", nbits |-> n, result |-> rotate_left(v, n)]
  BY <1>4, RotateLeftExact
<1>5. CASE \E n \in Nat : c = [op |-> "right", nbits |-> n, result |-> rotate_right(v, n)]
  BY <1>5, RotateRightExact
<1>6. CASE \E hex \in Seq(Digit) : \E w \in create_from_hex(hex) :
             c = [op |-> "from_hex", hex |-> hex, result |-> w]
  BY <1>6, FromHexExact
<1>7. CASE c = [op |-> "format", hex |-> format_as_hex(v), result |-> v]
  BY <1>7
<1> QED
  BY <1>1, <1>2, <1>3, <1>4, <1>5, <1>6, <1>7 DEF Made

\* Every call keeps the invariant, and so does going on with the result.
LEMMA CallerStepInv == CallerInv /\ [CallerNext]_callerVars => CallerInv'
<1> SUFFICES ASSUME CallerInv, [CallerNext]_callerVars PROVE CallerInv'
  OBVIOUS
<1>1. val \in UInt /\ Made(call, val)
  BY DEF CallerInv
<1>2. CASE Add
  <2>1. PICK r \in UInt : Calls([op |-> "add", right |-> r, result |-> add(val, r)])
    BY <1>2 DEF Add
  <2> QED
    BY <1>1, <2>1 DEF Calls, CallerInv, Made
<1>3. CASE Sub
  <2>1. PICK r \in UInt : Calls([op |-> "sub", right |-> r, result |-> sub(val, r)])
    BY <1>3 DEF Sub
  <2> QED
    BY <1>1, <2>1 DEF Calls, CallerInv, Made
<1>4. CASE Negate
  BY <1>1, <1>4 DEF Negate, Calls, CallerInv, Made
<1>5. N * BITS \in Nat
  <2>1. N \in Nat /\ BITS \in Nat
    BY WordIs
  <2> QED
    BY <2>1
<1>6. CASE RotateLeft
  <2>1. PICK n \in 0 .. N * BITS + 1 :
          Calls([op |-> "left", nbits |-> n, result |-> rotate_left(val, n)])
    BY <1>6 DEF RotateLeft
  <2>2. n \in Nat
    BY <1>5
  <2> QED
    BY <1>1, <2>1, <2>2 DEF Calls, CallerInv, Made
<1>7. CASE RotateRight
  <2>1. PICK n \in 0 .. N * BITS + 1 :
          Calls([op |-> "right", nbits |-> n, result |-> rotate_right(val, n)])
    BY <1>7 DEF RotateRight
  <2>2. n \in Nat
    BY <1>5
  <2> QED
    BY <1>1, <2>1, <2>2 DEF Calls, CallerInv, Made
<1>8. CASE CreateFromHex
  <2>1. PICK n \in 0 .. MaxHex : \E hex \in Hex(n) : \E v \in create_from_hex(hex) :
          Calls([op |-> "from_hex", hex |-> hex, result |-> v])
    BY <1>8 DEF CreateFromHex
  <2>2. PICK hex \in Hex(n) : \E v \in create_from_hex(hex) :
          Calls([op |-> "from_hex", hex |-> hex, result |-> v])
    BY <2>1
  <2>3. PICK v \in create_from_hex(hex) : Calls([op |-> "from_hex", hex |-> hex, result |-> v])
    BY <2>2
  <2>4. n \in Nat
    BY WidthAssumption
  <2>5. hex \in Seq(Digit)
    BY <2>4, HexIs
  <2> QED
    BY <1>1, <2>3, <2>5 DEF Calls, CallerInv, Made
<1>9. CASE FormatAsHex
  BY <1>1, <1>9 DEF FormatAsHex, Calls, CallerInv, Made
<1>10. CASE Return
  <2>1. call # Ready /\ val' = call.result /\ call' = Ready
    BY <1>10 DEF Return
  <2>2. call.result \in UInt
    BY <1>1, <2>1, CallerResult
  <2> QED
    BY <2>1, <2>2 DEF CallerInv, Made
<1>11. CASE UNCHANGED callerVars
  BY <1>1, <1>11 DEF callerVars, CallerInv, Made
<1> QED
  BY <1>2, <1>3, <1>4, <1>6, <1>7, <1>8, <1>9, <1>10, <1>11 DEF CallerNext

\* The invariant of the caller.
LEMMA CallerInvariance == CallerSpec => []CallerInv
BY CallerInitInv, CallerStepInv, PTL DEF CallerSpec

\* uint256_add and uint256_sub are exact modulo the number of values for every
\* pair of operands, unless a carry comes into two words of ones below the top
\* one, which the comparison of add does not see: then they are wrong.
THEOREM SumsAreExact == CallerSpec => []SumExact
<1>1. CallerInv => SumExact
  <2> SUFFICES ASSUME CallerInv PROVE SumExact
    OBVIOUS
  <2>1. val \in UInt /\ Made(call, val)
    BY DEF CallerInv
  <2>2. ASSUME call.op = "add"
        PROVE  Num(call.result) = (Num(val) + Num(call.right)) % Modulus
                 <=> ~LostCarry(val, call.right)
    <3>1. PICK r \in UInt : call = [op |-> "add", right |-> r, result |-> add(val, r)]
      BY <2>1, <2>2 DEF Made, Ready
    <3>2. call.result = add(val, r) /\ call.right = r
      BY <3>1
    <3> QED
      BY <2>1, <3>2, AddExact
  <2>3. ASSUME call.op = "sub"
        PROVE  Num(call.result) = (Num(val) - Num(call.right)) % Modulus
                 <=> ~LostCarry(val, negate(call.right))
    <3>1. PICK r \in UInt : call = [op |-> "sub", right |-> r, result |-> sub(val, r)]
      BY <2>1, <2>3 DEF Made, Ready
    <3>2. call.result = sub(val, r) /\ call.right = r
      BY <3>1
    <3> QED
      BY <2>1, <3>2, SubExact
  <2> QED
    BY <2>2, <2>3 DEF SumExact
<1> QED
  BY <1>1, CallerInvariance, PTL

\* uint256_negate is the two's complement of every value: to add one to the
\* inverted bits never brings a carry into two words of ones.
THEOREM NegationsAreExact == CallerSpec => []NegationExact
<1>1. CallerInv => NegationExact
  <2> SUFFICES ASSUME CallerInv, call.op = "negate"
               PROVE  Num(call.result) = (Modulus - Num(val)) % Modulus
    BY DEF NegationExact
  <2>1. val \in UInt /\ Made(call, val)
    BY DEF CallerInv
  <2>2. call = [op |-> "negate", result |-> negate(val)]
    BY <2>1 DEF Made, Ready
  <2> QED
    BY <2>1, <2>2, NegateExact
<1> QED
  BY <1>1, CallerInvariance, PTL

\* uint256_rotate_left and uint256_rotate_right lose no bit, for every value and
\* every number of bits, multiples of the word and of the width included.
THEOREM RotationsAreExact == CallerSpec => []RotationsExact
<1>1. CallerInv => RotationsExact
  <2> SUFFICES ASSUME CallerInv PROVE RotationsExact
    OBVIOUS
  <2>1. val \in UInt /\ Made(call, val)
    BY DEF CallerInv
  <2>2. ASSUME call.op = "left"
        PROVE  Num(call.result) = Turned(Num(val), call.nbits % (N * BITS))
    <3>1. PICK n \in Nat : call = [op |-> "left", nbits |-> n, result |-> rotate_left(val, n)]
      BY <2>1, <2>2 DEF Made, Ready
    <3>2. call.result = rotate_left(val, n) /\ call.nbits = n
      BY <3>1
    <3> QED
      BY <2>1, <3>2, RotateLeftExact
  <2>3. ASSUME call.op = "right"
        PROVE  Num(val) = Turned(Num(call.result), call.nbits % (N * BITS))
    <3>1. PICK n \in Nat : call = [op |-> "right", nbits |-> n, result |-> rotate_right(val, n)]
      BY <2>1, <2>3 DEF Made, Ready
    <3>2. call.result = rotate_right(val, n) /\ call.nbits = n
      BY <3>1
    <3>3. rotate_right(val, n) \in UInt /\ rotate_left(rotate_right(val, n), n) = val
      BY <2>1, RotateRightExact
    <3>4. Num(rotate_left(rotate_right(val, n), n)) = Turned(Num(rotate_right(val, n)), n % (N * BITS))
      BY <3>3, RotateLeftExact
    <3> QED
      BY <3>2, <3>3, <3>4
  <2> QED
    BY <2>2, <2>3 DEF RotationsExact, Turned
<1> QED
  BY <1>1, CallerInvariance, PTL

\* uint256_format_as_hex prints the number of every value without leading zeros,
\* and uint256_create_from_hex reads the number of every string of digits, but
\* for the word it leaves unset.
THEOREM HexIsExact == CallerSpec => []HexExact
<1>1. CallerInv => HexExact
  <2> SUFFICES ASSUME CallerInv PROVE HexExact
    OBVIOUS
  <2>1. val \in UInt /\ Made(call, val)
    BY DEF CallerInv
  <2>2. ASSUME call.op = "format"
        PROVE  /\ strtoul(call.hex) = Num(val)
               /\ Len(call.hex) > 1 => call.hex[1] # 0
    <3>1. call = [op |-> "format", hex |-> format_as_hex(val), result |-> val]
      BY <2>1, <2>2 DEF Made, Ready
    <3>2. call.hex = format_as_hex(val)
      BY <3>1
    <3> QED
      BY <2>1, <3>2, FormatExact
  <2>3. ASSUME call.op = "from_hex"
        PROVE  /\ Unset(call.hex) = {} => Num(call.result) = strtoul(Kept(call.hex))
               /\ \A i \in Unset(call.hex) :
                    Num([call.result EXCEPT ![i] = 0]) = strtoul(call.hex)
    <3>1. PICK hex \in Seq(Digit) : \E w \in create_from_hex(hex) :
            call = [op |-> "from_hex", hex |-> hex, result |-> w]
      BY <2>1, <2>3 DEF Made, Ready
    <3>2. PICK w \in create_from_hex(hex) : call = [op |-> "from_hex", hex |-> hex, result |-> w]
      BY <3>1
    <3>3. call.hex = hex /\ call.result = w
      BY <3>2
    <3>4. /\ Unset(hex) = {} => Num(w) = strtoul(Kept(hex))
          /\ \A i \in Unset(hex) : Num([w EXCEPT ![i] = 0]) = strtoul(hex)
      BY FromHexExact
    <3> QED
      BY <3>3, <3>4
  <2> QED
    BY <2>2, <2>3 DEF HexExact
<1> QED
  BY <1>1, CallerInvariance, PTL
=============================================================================
