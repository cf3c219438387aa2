------------------------------ MODULE CacheSim ------------------------------
(***************************************************************************)
(* csf_assign03/cache_funcs.cpp: a set-associative cache that counts hits  *)
(* and clock cycles over a trace of loads and stores.  An access is one    *)
(* call of handle_address by the loop of main.cpp.                         *)
(*                                                                         *)
(* Blocks are replaced by timestamps: TIME goes up with every hit and      *)
(* every block that is brought in, load_ts is when a block came in and     *)
(* access_ts when it was used last.  The numbers of sets and of bytes are  *)
(* powers of two, so that the masks and shifts of the code are the         *)
(* divisions below.                                                        *)
(*                                                                         *)
(* A definition whose comment starts with MUTANT is a broken form of one   *)
(* that follows it; no specification uses it.                              *)
(***************************************************************************)
EXTENDS Integers, Sequences, FiniteSets

CONSTANTS
  num_sets,     \* the number of sets
  num_slots,    \* the number of slots of a set
  slot_size,    \* the number of bytes of a slot
  Addresses,    \* the addresses of the trace
  MaxAccesses   \* bound: the length of the trace

ASSUME CacheAssumption ==
  /\ {num_sets, num_slots, slot_size} \subseteq Nat \ {0}
  /\ Addresses \subseteq Nat
  /\ MaxAccesses \in Nat

MEMORY_PENALTY == 100

VARIABLES
  options,      \* the Options: write_allocate, is_write_through, is_lru
  sets,         \* the slots of each set
  TIME,         \* the clock of the timestamps
  load_count, store_count, load_hit_count, store_hit_count,
  total_cycles,
  dirtied,      \* history: how often a clean block became dirty
  last          \* history: the last access, and what became of it

counts == <<load_count, store_count, load_hit_count, store_hit_count>>
vars   == <<options, sets, TIME, counts, total_cycles, dirtied, last>>

Sets  == 0 .. num_sets - 1
Slots == 1 .. num_slots

calc_index_bits(a) == (a \div slot_size) % num_sets
calc_tag_bits(a)   == a \div (slot_size * num_sets)

Slot == [tag : {calc_tag_bits(a) : a \in Addresses} \cup {0}, valid : BOOLEAN,
         load_ts : Nat, access_ts : Nat, is_dirty : BOOLEAN]

\* main.cpp:99 refuses write-back without write-allocate.
Options == {o \in [write_allocate : BOOLEAN, is_write_through : BOOLEAN, is_lru : BOOLEAN] :
              o.is_write_through \/ o.write_allocate}

TypeOK ==
  /\ options \in Options
  /\ sets \in [Sets -> [Slots -> Slot]]
  /\ TIME \in Nat
  /\ load_count \in Nat /\ load_hit_count \in 0..load_count
  /\ store_count \in Nat /\ store_hit_count \in 0..store_count
  /\ load_count + store_count <= MaxAccesses
  /\ total_cycles \in Nat /\ dirtied \in Nat

Init ==
  /\ options \in Options
  /\ sets = [i \in Sets |-> [j \in Slots |->
       [tag |-> 0, valid |-> FALSE, load_ts |-> 0, access_ts |-> 0, is_dirty |-> FALSE]]]
  /\ TIME = 0
  /\ load_count = 0 /\ store_count = 0
  /\ load_hit_count = 0 /\ store_hit_count = 0
  /\ total_cycles = 0 /\ dirtied = 0
  /\ last = <<>>

-----------------------------------------------------------------------------
(* The loop over the slots of a set *)

\* The slots at which the loop returns: a hit, or open space.
Stops(set, tag) == {j \in Slots : ~set[j].valid \/ set[j].tag = tag}

FirstStop(set, tag) ==
  CHOOSE j \in Stops(set, tag) : \A k \in Stops(set, tag) : j <= k

IsHit(set, tag) ==
  Stops(set, tag) # {} /\ set[FirstStop(set, tag)].valid

\* What choose_eviction compares.
Stamp(s) == IF options.is_lru THEN s.access_ts ELSE s.load_ts

\* The slot that choose_eviction leaves: the first one with the least stamp.
EvictionSlot(set) ==
  CHOOSE j \in Slots : \A k \in Slots :
    Stamp(set[j]) < Stamp(set[k]) \/ (Stamp(set[j]) = Stamp(set[k]) /\ j <= k)

\* MUTANT: open space is taken from the end of the set.
FillLastFree(set, tag) ==
  IF Stops(set, tag) # {}
  THEN CHOOSE j \in Slots : ~set[j].valid /\ \A k \in Slots : k > j => set[k].valid
  ELSE EvictionSlot(set)

\* Where slot_in puts a block that missed.
FillSlot(set, tag) ==
  IF Stops(set, tag) # {} THEN FirstStop(set, tag) ELSE EvictionSlot(set)

-----------------------------------------------------------------------------
(* handle_address, by what happens to the slot *)

penalty == slot_size \div 4

\* The counters of main, and of handle_hit_*.
CountAccess(is_load, hit) ==
  LET n == IF hit THEN 1 ELSE 0
  IN /\ load_count + store_count < MaxAccesses
     /\ IF is_load
        THEN /\ load_count' = load_count + 1
             /\ load_hit_count' = load_hit_count + n
             /\ UNCHANGED <<store_count, store_hit_count>>
        ELSE /\ store_count' = store_count + 1
             /\ store_hit_count' = store_hit_count + n
             /\ UNCHANGED <<load_count, load_hit_count>>

HitCycles(is_load) ==
  IF is_load THEN 1
  ELSE IF ~options.write_allocate THEN MEMORY_PENALTY
  ELSE IF options.is_write_through THEN 1 + MEMORY_PENALTY
  ELSE 1

\* MUTANT: a hit does not mark the block as used.
HitUnmarked(is_load, a) ==
  LET i == calc_index_bits(a)
      j == FirstStop(sets[i], calc_tag_bits(a))
      dirties == ~is_load /\ ~options.is_write_through
  IN /\ IsHit(sets[i], calc_tag_bits(a))
     /\ sets' = [sets EXCEPT ![i][j].is_dirty = @ \/ dirties]
     /\ dirtied' = dirtied + (IF dirties /\ ~sets[i][j].is_dirty THEN 1 ELSE 0)
     /\ TIME' = TIME + 1
     /\ CountAccess(is_load, TRUE)
     /\ total_cycles' = total_cycles + HitCycles(is_load)
     /\ last' = <<i, calc_tag_bits(a), "hit">>
     /\ UNCHANGED options

\* A slot that was hit.
Touched(s, dirties) ==
  [tag |-> s.tag, valid |-> TRUE, load_ts |-> s.load_ts, access_ts |-> TIME,
   is_dirty |-> s.is_dirty \/ dirties]

\* handle_hit_write_allocate and handle_hit_no_write_allocate
Hit(is_load, a) ==
  LET i == calc_index_bits(a)
      j == FirstStop(sets[i], calc_tag_bits(a))
      dirties == ~is_load /\ ~options.is_write_through
  IN /\ IsHit(sets[i], calc_tag_bits(a))
     /\ sets' = [sets EXCEPT ![i][j] = Touched(@, dirties)]
     /\ dirtied' = dirtied + (IF dirties /\ ~sets[i][j].is_dirty THEN 1 ELSE 0)
     /\ TIME' = TIME + 1
     /\ CountAccess(is_load, TRUE)
     /\ total_cycles' = total_cycles + HitCycles(is_load)
     /\ last' = <<i, calc_tag_bits(a), "hit">>
     /\ UNCHANGED options

FillCycles(is_load, write_back) ==
  IF write_back THEN 4 + 2 * penalty * MEMORY_PENALTY
  ELSE IF options.is_write_through /\ options.write_allocate /\ ~is_load
       THEN 1 + penalty * MEMORY_PENALTY + MEMORY_PENALTY
  ELSE 1 + penalty * MEMORY_PENALTY

\* MUTANT: a block that comes in stays dirty when the one it replaces was.
StillDirty(old, t) ==
  [tag |-> t, valid |-> TRUE, load_ts |-> TIME, access_ts |-> TIME, is_dirty |-> old.is_dirty]

\* slot_in
SlotIn(old, t) ==
  [tag |-> t, valid |-> TRUE, load_ts |-> TIME, access_ts |-> TIME, is_dirty |-> FALSE]

\* A miss that brings the block in, into open space or by an eviction.
Fill(is_load, a) ==
  LET i == calc_index_bits(a)
      t == calc_tag_bits(a)
      j == FillSlot(sets[i], t)
      write_back == Stops(sets[i], t) = {} /\ ~options.is_write_through
                      /\ sets[i][j].is_dirty
  IN /\ ~IsHit(sets[i], t)
     /\ is_load \/ options.write_allocate
     /\ sets' = [sets EXCEPT ![i][j] = SlotIn(@, t)]
     /\ TIME' = TIME + 1
     /\ CountAccess(is_load, FALSE)
     /\ total_cycles' = total_cycles + FillCycles(is_load, write_back)
     /\ last' = <<i, t, "fill">>
     /\ UNCHANGED <<options, dirtied>>

\* A store that misses, without write-allocate: it goes to memory only.
Bypass(a) ==
  /\ ~IsHit(sets[calc_index_bits(a)], calc_tag_bits(a))
  /\ ~options.write_allocate
  /\ CountAccess(FALSE, FALSE)
  /\ total_cycles' = total_cycles + MEMORY_PENALTY
  /\ last' = <<calc_index_bits(a), calc_tag_bits(a), "bypass">>
  /\ UNCHANGED <<options, sets, TIME, dirtied>>

handle_address(is_load, a) ==
  Hit(is_load, a) \/ Fill(is_load, a) \/ (~is_load /\ Bypass(a))

Next == \E is_load \in BOOLEAN, a \in Addresses : handle_address(is_load, a)

Spec == Init /\ [][Next]_vars

-----------------------------------------------------------------------------
(* Properties *)

Valid(i) == {j \in Slots : sets[i][j].valid}

\* A set never holds a block twice.  The loop takes the first invalid slot for
\* proof of a miss without looking at the slots behind it.
OneCopy ==
  \A i \in Sets : \A j, k \in Valid(i) :
    sets[i][j].tag = sets[i][k].tag => j = k

\* The number of accesses that missed and brought a block in.
Fills == IF options.write_allocate
         THEN load_count - load_hit_count + store_count - store_hit_count
         ELSE load_count - load_hit_count

\* What one access costs at least, over the whole trace.
BaseCycles ==
  CASE ~options.write_allocate -> load_count + MEMORY_PENALTY * store_count
    [] options.write_allocate /\ options.is_write_through ->
         load_count + (1 + MEMORY_PENALTY) * store_count
    [] OTHER -> load_count + store_count

Dirty == UNION {{<<i, j>> : j \in {k \in Slots : sets[i][k].is_dirty}} : i \in Sets}

\* The cycles are those of the counts that main prints: one block is read for
\* each miss that fills, and each time a block became dirty it is written back
\* exactly once, or still there and dirty.
CyclesAccounted ==
  total_cycles = BaseCycles + Fills * penalty * MEMORY_PENALTY
                   + (dirtied - Cardinality(Dirty)) * (3 + penalty * MEMORY_PENALTY)

\* The stamps by which the slots of set i are compared.
Ages(i) == [j \in Slots |-> Stamp(sets[i][j])]

\* The slots V in the order of their stamps f: the r-th is behind r - 1 others.
ByAge(V, f) ==
  [r \in 1 .. Cardinality(V) |->
     CHOOSE j \in V : Cardinality({k \in V : f[k] <= f[j]}) = r]

OrderOf(i) ==
  LET slots == ByAge(Valid(i), Ages(i))
  IN [r \in DOMAIN slots |-> sets[i][slots[r]].tag]

Policy == INSTANCE ReplacementOrder WITH
  Tags <- {calc_tag_bits(a) : a \in Addresses}, NumSlots <- num_slots,
  lru <- options.is_lru, order <- [i \in Sets |-> OrderOf(i)]

\* The timestamps implement the policy: the block that is evicted is the one
\* used least recently, or the one that came in first.
ImplementsPolicy == Policy!Spec
=============================================================================
