----------------------------- MODULE FlatHashMap ------------------------------
(***************************************************************************)
(* utils/parallel_hashmap/phmap.h: raw_hash_set and raw_hash_map, the open    *)
(* addressing table behind the hash tables of the joins.  A table is          *)
(*   [capacity, ctrl, slots, size, growth_left]                             *)
(* with one control byte per slot, a sentinel, and a copy of the first bytes   *)
(* behind it; slots is a function on the slots that hold an element           *)
(* [key, val].                                                             *)
(***************************************************************************)
EXTENDS Integers, FiniteSets, FiniteSetsExt, SequencesExt, TLC

CONSTANTS
  kWidth,           \* control bytes of a group (8, or 16 with SSE2)
  LoadFactor,       \* one slot of so many stays empty (8)
  H2Bits,           \* bits of a hash that are kept in a control byte (7)
  HashOf(_)         \* HashElement: the mixed hash of a key

kEmpty == -128
kDeleted == -2
kSentinel == -1

IsFull(c) == c >= 0
IsEmptyOrDeleted(c) == c < kSentinel

H1(hash) == hash \div 2 ^ H2Bits
H2(hash) == hash % 2 ^ H2Bits

------------------------------------------------------------------------------
(* Sizes: capacities are 2^n - 1 *)

NormalizeCapacity(n) == IF n = 0 THEN 1 ELSE Min({c \in {2 ^ k - 1 : k \in 1 .. n} : c >= n})

CapacityToGrowth(capacity) ==
  IF kWidth = LoadFactor /\ capacity = LoadFactor - 1 THEN capacity - 1
  ELSE capacity - capacity \div LoadFactor

GrowthToLowerboundCapacity(growth) ==
  IF kWidth = LoadFactor /\ growth = LoadFactor - 1 THEN growth + 1
  ELSE IF growth = 0 THEN 0
  ELSE growth + (growth - 1) \div (LoadFactor - 1)

is_small(t) == t.capacity < kWidth - 1

------------------------------------------------------------------------------
(* Control bytes *)

\* reset_ctrl.  The last byte is only ever written.
EmptyCtrl(capacity) ==
  [i \in 0 .. capacity + kWidth |-> IF i = capacity THEN kSentinel ELSE kEmpty]

\* EmptyGroup, shared by all tables without slots.
EmptyTable == [capacity |-> 0, ctrl |-> EmptyCtrl(0), slots |-> << >>, size |-> 0, growth_left |-> 0]

\* initialize_slots
NewTable(capacity, size) ==
  [capacity |-> capacity, ctrl |-> EmptyCtrl(capacity), slots |-> << >>, size |-> size,
   growth_left |-> CapacityToGrowth(capacity) - size]

\* Mutant: the copy of the byte keeps its old value.
set_ctrl_once(t, i, h) == [t EXCEPT !.ctrl[i] = h]

\* The byte of slot i, and its copy behind the sentinel (or the byte once more).
set_ctrl(t, i, h) ==
  LET n == t.capacity + 1
      clone == ((i - kWidth) % n) + 1 + ((kWidth - 1) % n)
  IN  [t EXCEPT !.ctrl = [@ EXCEPT ![i] = h, ![clone] = h]]

\* The bytes of the group at an offset that are h, counted from 0; and the ones
\* without an element.
Match(t, offset, h) == {i \in 0 .. kWidth - 1 : t.ctrl[offset + i] = h}
MatchEmpty(t, offset) == Match(t, offset, kEmpty)
MatchEmptyOrDeleted(t, offset) == {i \in 0 .. kWidth - 1 : IsEmptyOrDeleted(t.ctrl[offset + i])}

------------------------------------------------------------------------------
(* Probing *)

\* probe_seq: offset of the k-th group; the steps grow by a group each time.
Probe(t, hash, k) == (H1(hash) + kWidth * ((k * (k + 1)) \div 2)) % (t.capacity + 1)

SlotAt(t, offset, i) == (offset + i) % (t.capacity + 1)

\* find, has_element: the slot of the key, or end().
find(t, key) ==
  LET hash == HashOf(key)
      hits(k) == {i \in Match(t, Probe(t, hash, k), H2(hash)) :
                    t.slots[SlotAt(t, Probe(t, hash, k), i)].key = key}
      stops(k) == hits(k) # {} \/ MatchEmpty(t, Probe(t, hash, k)) # {}
      last == CHOOSE k \in 0 .. t.capacity : stops(k) /\ \A j \in 0 .. k - 1 : ~stops(j)
  IN  IF hits(last) = {} THEN t.capacity ELSE SlotAt(t, Probe(t, hash, last), Min(hits(last)))

find_first_non_full(t, hash) ==
  LET stops(k) == MatchEmptyOrDeleted(t, Probe(t, hash, k)) # {}
      last == CHOOSE k \in 0 .. t.capacity : stops(k) /\ \A j \in 0 .. k - 1 : ~stops(j)
  IN  SlotAt(t, Probe(t, hash, last), Min(MatchEmptyOrDeleted(t, Probe(t, hash, last))))

------------------------------------------------------------------------------
(* Rehashing *)

\* An element into a table that has room for it and does not have it.
Place(t, elem) ==
  LET i == find_first_non_full(t, HashOf(elem.key))
  IN  [set_ctrl(t, i, H2(HashOf(elem.key))) EXCEPT !.slots = (i :> elem) @@ @]

\* The elements in the order of their slots.
Elements(t) ==
  LET full == SetToSortSeq({i \in 0 .. t.capacity - 1 : IsFull(t.ctrl[i])}, <)
  IN  [k \in DOMAIN full |-> t.slots[full[k]]]

resize(t, capacity) == FoldLeft(Place, NewTable(capacity, t.size), Elements(t))

\* Until drop_deletes_without_resize is done, kDeleted marks the slots to look at.
ConvertDeletedToEmptyAndFullToDeleted(t) ==
  LET converted(i) == IF IsFull(t.ctrl[i]) THEN kDeleted ELSE kEmpty
  IN  [t EXCEPT !.ctrl = [i \in DOMAIN @ |->
         IF i = t.capacity THEN kSentinel
         ELSE IF i > t.capacity THEN converted(i - t.capacity - 1) ELSE converted(i)]]

\* One turn of the loop.  An element stays if it is in the best group already,
\* moves to an empty slot, or changes places with one that has not been looked at.
DropStep(state) ==
  LET t == state.t
      i == state.i
      hash == HashOf(t.slots[i].key)
      new_i == find_first_non_full(t, hash)
      probe_index(pos) == ((pos - Probe(t, hash, 0)) % (t.capacity + 1)) \div kWidth
      marked == set_ctrl(t, new_i, H2(hash))
  IN  IF i = t.capacity THEN state
      ELSE IF t.ctrl[i] # kDeleted THEN [state EXCEPT !.i = i + 1]
      ELSE IF probe_index(new_i) = probe_index(i)
      THEN [i |-> i + 1, t |-> set_ctrl(t, i, H2(hash))]
      ELSE IF t.ctrl[new_i] = kEmpty
      THEN [i |-> i + 1,
            t |-> [set_ctrl(marked, i, kEmpty) EXCEPT !.slots =
                     [j \in (DOMAIN @ \cup {new_i}) \ {i} |-> IF j = new_i THEN @[i] ELSE @[j]]]]
      ELSE [i |-> i, t |-> [marked EXCEPT !.slots = [@ EXCEPT ![i] = t.slots[new_i], ![new_i] = t.slots[i]]]]

\* Every turn passes a slot or settles an element.
drop_deletes_without_resize(t) ==
  LET start == [t |-> ConvertDeletedToEmptyAndFullToDeleted(t), i |-> 0]
      done == FoldLeft(LAMBDA state, n : DropStep(state), start, [n \in 1 .. 2 * t.capacity |-> n]).t
  IN  [done EXCEPT !.growth_left = CapacityToGrowth(t.capacity) - t.size]

rehash_and_grow_if_necessary(t) ==
  IF t.capacity = 0 THEN resize(t, 1)
  ELSE IF t.size <= CapacityToGrowth(t.capacity) \div 2 THEN drop_deletes_without_resize(t)
  ELSE resize(t, t.capacity * 2 + 1)

------------------------------------------------------------------------------
(* Operations *)

\* The empty slots that go.
Taken(t, i) == IF t.ctrl[i] = kEmpty THEN 1 ELSE 0

emplace_at(t, target, elem) ==
  [set_ctrl(t, target, H2(HashOf(elem.key))) EXCEPT !.size = @ + 1, !.growth_left = @ - Taken(t, target),
                                                    !.slots = (target :> elem) @@ @]

Emplace(t, elem) == emplace_at(t, find_first_non_full(t, HashOf(elem.key)), elem)

prepare_insert(t, elem) ==
  Emplace(IF t.growth_left = 0 /\ t.ctrl[find_first_non_full(t, HashOf(elem.key))] # kDeleted
          THEN rehash_and_grow_if_necessary(t) ELSE t, elem)

Has(t, key) == find(t, key) # t.capacity

\* insert, emplace, try_emplace: an element that is there stays as it is.
try_emplace(t, elem) == IF Has(t, elem.key) THEN t ELSE prepare_insert(t, elem)

insert_or_assign(t, elem) ==
  IF Has(t, elem.key) THEN [t EXCEPT !.slots[find(t, elem.key)].val = elem.val]
  ELSE prepare_insert(t, elem)

\* Mutant: the slot is always marked as empty.
was_never_full_yes(t, index) == TRUE

\* No group that holds the slot was ever full: the run of non-empty bytes around
\* it is shorter than a group.
was_never_full(t, index) ==
  LET after == MatchEmpty(t, index)
      before == MatchEmpty(t, (index - kWidth) % (t.capacity + 1))
  IN  after # {} /\ before # {} /\ Min(after) + (kWidth - 1 - Max(before)) < kWidth

\* _erase, erase_meta_only
erase_at(t, index) ==
  LET empty == was_never_full(t, index)
  IN  [set_ctrl(t, index, IF empty THEN kEmpty ELSE kDeleted) EXCEPT
         !.size = @ - 1, !.growth_left = IF empty THEN @ + 1 ELSE @,
         !.slots = [j \in DOMAIN @ \ {index} |-> @[j]]]

erase(t, key) == IF Has(t, key) THEN erase_at(t, find(t, key)) ELSE t

\* destroy_slots above 127 slots, else the slots are kept.
clear(t, limit) ==
  IF t.size = 0 THEN t ELSE IF t.capacity > limit THEN EmptyTable ELSE NewTable(t.capacity, 0)

rehash(t, n) ==
  LET m == NormalizeCapacity(IF n > t.size THEN n ELSE t.size)
  IN  IF n = 0 /\ t.capacity = 0 THEN t
      ELSE IF n = 0 /\ t.size = 0 THEN EmptyTable
      ELSE IF n = 0 \/ m > t.capacity THEN resize(t, m) ELSE t

reserve(t, n) == rehash(t, GrowthToLowerboundCapacity(n))

\* The copy constructor reserves, and places the elements without a search.
Copy(t) ==
  LET room == reserve(EmptyTable, t.size)
  IN  [FoldLeft(Place, room, Elements(t)) EXCEPT !.size = t.size, !.growth_left = room.growth_left - t.size]

\* merge: an element that is there already stays in src.
merge(t, src) ==
  FoldLeft(LAMBDA both, elem :
             IF Has(both.t, elem.key) THEN both
             ELSE [t |-> prepare_insert(both.t, elem), src |-> erase(both.src, elem.key)],
           [t |-> t, src |-> src], Elements(src))

==============================================================================
