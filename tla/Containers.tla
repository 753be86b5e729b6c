------------------------------ MODULE Containers ------------------------------
(***************************************************************************)
(* The data structures, hashes and codecs the system is built with, under the calls   *)
(* of their users: of utils/parallel_hashmap a flat_hash_map, a parallel_hash_map,     *)
(* which is an array of flat maps each under a mutex of its own, a btree_set and a      *)
(* btree_multiset; xor filters; hashes of inputs that come in pieces; and the values of  *)
(* records.  A behaviour exercises one of them.                                      *)
(***************************************************************************)
EXTENDS FlatHashMap, BTree, XorFilter, XxHash, RecordCodec, Bitwise

CONSTANTS
  KeysOf(_),        \* keys used with a kind of container, natural numbers
  ValsOf(_),        \* values a key is given
  Sources,          \* sets of keys of a container that is merged into another
  Sizes,            \* arguments of reserve
  ParallelBits,     \* N: a parallel map has 2^N submaps
  ClearLimit,       \* slots from which clear() gives them back (127)
  MaxCopies(_),     \* bound on the copies of a key in a btree
  FilterKeys,       \* sequences of keys xor filters are populated with
  PosOf(_, _),      \* the places that a number of keys may be given under a seed
  MaxLen,           \* bound on the input of a hash
  Words             \* 64-bit words that are put into records

VARIABLES
  kind,             \* which of them
  sets,             \* the submaps of the map
  tree,             \* the btree
  contents,         \* what was put in: value or number of copies of each key, or 0
  returned,         \* erased key and key at the iterator that erase returned
  filter,           \* the xor filter
  stream,           \* the state of a hash
  word              \* the word in the record

Keys == KeysOf(kind)

utilities == << filter, stream, word >>

vars == << kind, sets, tree, contents, returned, utilities >>

Trees == {"set", "multiset"}

Filters == {"xor8", "xor16"}

Streams == {"xxhash32", "xxhash64", "xxhash3"}

IsTree == kind \in Trees

IsMap == kind \in {"map", "parallel_map"}

SubBits == IF kind = "parallel_map" THEN ParallelBits ELSE 0

Submaps == 0 .. 2 ^ SubBits - 1

\* subidx
SubIdx(k) == (HashOf(k) ^^ (HashOf(k) \div 2 ^ SubBits)) % 2 ^ SubBits

End == -1

FreshStream ==
  IF kind = "xxhash3" THEN hash3_state_t ELSE hash_state_t(IF kind = "xxhash64" THEN 64 ELSE 32)

Init ==
  /\ kind \in {"map", "parallel_map", "record"} \cup Trees \cup Filters \cup Streams
  /\ sets = [i \in Submaps |-> EmptyTable]
  /\ tree = EmptyTree
  /\ contents = [k \in Keys |-> 0]
  /\ returned = << >>
  /\ filter = Allocate(IF kind = "xor16" THEN 16 ELSE 8)
  /\ stream = FreshStream
  /\ word = {}

------------------------------------------------------------------------------
(* The map.  Each operation on a key holds the mutex of its submap from the search   *)
(* to the end; the others take one submap after the other.                          *)

MapStep(k, t) ==
  /\ IsMap
  /\ sets' = [sets EXCEPT ![SubIdx(k)] = t]
  /\ UNCHANGED << kind, tree, returned, utilities >>

InsertOrAssign(k, v) ==
  /\ MapStep(k, insert_or_assign(sets[SubIdx(k)], [key |-> k, val |-> v]))
  /\ contents' = [contents EXCEPT ![k] = v]

TryEmplace(k, v) ==
  /\ MapStep(k, try_emplace(sets[SubIdx(k)], [key |-> k, val |-> v]))
  /\ contents' = [contents EXCEPT ![k] = IF @ = 0 THEN v ELSE @]

Erase(k) ==
  /\ MapStep(k, erase(sets[SubIdx(k)], k))
  /\ contents' = [contents EXCEPT ![k] = 0]

AllSets(new) ==
  /\ IsMap
  /\ sets' = new
  /\ UNCHANGED << kind, tree, returned, utilities >>

Clear ==
  /\ AllSets([i \in Submaps |-> clear(sets[i], ClearLimit)])
  /\ contents' = [k \in Keys |-> 0]

Reserve(n) ==
  /\ AllSets([i \in Submaps |-> reserve(sets[i], n \div 2 ^ SubBits)])
  /\ UNCHANGED contents

\* operator=(const raw_hash_set&): a copy, swapped in.
CopyAssign ==
  /\ AllSets([i \in Submaps |-> Copy(sets[i])])
  /\ UNCHANGED contents

\* A table with the keys is built and merged, submap by submap.
Merge(keys) ==
  /\ keys \subseteq Keys
  /\ AllSets([i \in Submaps |->
       merge(sets[i], FoldSet(LAMBDA k, t : try_emplace(t, [key |-> k, val |-> 1]),
                              EmptyTable, {k \in keys : SubIdx(k) = i})).t])
  /\ contents' = [k \in Keys |-> IF k \in keys /\ contents[k] = 0 THEN 1 ELSE contents[k]]

------------------------------------------------------------------------------
(* The btrees *)

Iterators(t) ==
  {end(t)} \cup {It(n, i) : n \in DOMAIN t.nodes, i \in 0 .. kNodeValues - 1}

Valid(t, it) == IF it = end(t) THEN TRUE ELSE it.pos < count(t, it.node)

RECURSIVE Preorder(_, _)
Preorder(t, n) == FoldLeft(LAMBDA ids, c : ids \o Preorder(t, c), << n >>, t.nodes[n].kids)

\* Addresses say nothing: nodes are numbered from the root down.
Renumbered(t) ==
  LET down == Preorder(t, t.root)
      ids == down \o SetToSortSeq(DOMAIN t.nodes \ Range(down), <)
      New(n) == IF n \in Range(ids) THEN CHOOSE i \in DOMAIN ids : ids[i] = n ELSE Nil
  IN  IF t.size = 0 THEN t
      ELSE [t EXCEPT !.root = New(@), !.rightmost = New(@),
                     !.nodes = [i \in DOMAIN ids |->
                        [@[ids[i]] EXCEPT !.parent = New(@), !.kids = [j \in DOMAIN @ |-> New(@[j])]]]]

TreeStep(t, ret) ==
  /\ \E new \in {Renumbered(t)} : tree' = new
  /\ returned' = ret
  /\ UNCHANGED << kind, sets, utilities >>

Inserted(k) ==
  contents' = [contents EXCEPT ![k] = IF kind = "set" THEN 1 ELSE @ + 1]

\* insert
TreeInsert(k) ==
  /\ IsTree /\ contents[k] < MaxCopies(k)
  /\ TreeStep(IF kind = "set" THEN insert_unique(tree, k) ELSE insert_multi(tree, k), << >>)
  /\ Inserted(k)

\* insert(hint, value)
TreeInsertHint(it, k) ==
  /\ IsTree /\ contents[k] < MaxCopies(k) /\ Valid(tree, it)
  /\ TreeStep(IF kind = "set" THEN insert_hint_unique(tree, it, k) ELSE insert_hint_multi(tree, it, k), << >>)
  /\ Inserted(k)

KeyAt(done) == IF done.it = end(done.t) THEN End ELSE key(done.t, done.it)

\* erase(key)
TreeErase(k) ==
  /\ IsTree
  /\ \E done \in {IF kind = "set" THEN erase_unique(tree, k) ELSE erase_multi(tree, k)} :
       TreeStep(done.t, IF contents[k] = 0 THEN << >> ELSE << k, KeyAt(done) >>)
  /\ contents' = [contents EXCEPT ![k] = 0]

\* erase(iterator)
TreeEraseAt(it) ==
  /\ kind = "multiset" /\ it # end(tree) /\ Valid(tree, it)
  /\ TreeStep(EraseAt(tree, it).t, << >>)
  /\ contents' = [contents EXCEPT ![key(tree, it)] = @ - 1]

\* merge, of a tree with the keys: into a multiset they all go.
TreeMerge(keys) ==
  /\ IsTree /\ keys \subseteq Keys /\ \A k \in keys : contents[k] < MaxCopies(k)
  /\ \E src \in {insert_iterator_unique(EmptyTree, SetToSortSeq(keys, <))} :
       TreeStep(IF kind = "set" THEN MergeFrom(tree, Moved(src, begin(src)))
                ELSE insert_iterator_multi(tree, Values(src)), << >>)
  /\ contents' = [k \in Keys |-> IF k \notin keys THEN contents[k]
                                 ELSE IF kind = "set" THEN 1 ELSE contents[k] + 1]

TreeCopy ==
  /\ IsTree
  /\ TreeStep(copy_values_in_order(tree), << >>)
  /\ UNCHANGED contents

------------------------------------------------------------------------------
(* The xor filters, whose construction is a loop of many steps *)

containers == << kind, sets, tree, contents, returned >>

AddAll(keys, buffered) ==
  /\ kind \in Filters /\ filter.phase = "idle"
  /\ filter' = Start(filter, keys, buffered)
  /\ UNCHANGED << containers, stream, word >>

PopulateStep(bits, buffered) ==
  /\ filter.bits = bits /\ filter.buffered = buffered
  /\ filter.phase \notin {"idle", "done"}
  /\ \E pos \in IF filter.phase = "round" THEN PosOf(filter.seed, Max(Range(filter.keys))) ELSE {<< >>} :
       filter' = Populate(filter, pos)
  /\ UNCHANGED << containers, stream, word >>

xor8_populate == PopulateStep(8, FALSE)

xor8_buffered_populate == PopulateStep(8, TRUE)

xor16_populate == PopulateStep(16, FALSE)

xor16_buffered_populate == PopulateStep(16, TRUE)

\* xor8_free, xor16_free, and another filter.  Memory that an earlier one has left in the
\* fingerprints is no other than what malloc leaves.
FreeFilter ==
  /\ filter.phase = "done"
  /\ filter' = Allocate(filter.bits)
  /\ UNCHANGED << containers, stream, word >>

------------------------------------------------------------------------------
(* The hashes *)

StreamLen == IF kind = "xxhash3" THEN stream.totalLen ELSE stream.total_len

update(n) ==
  /\ kind \in Streams /\ StreamLen + n <= MaxLen
  /\ LET p == Input(StreamLen, StreamLen + n)
     IN  stream' = IF kind = "xxhash3" THEN update3_impl(stream, p) ELSE update_impl(stream, p)
  /\ UNCHANGED << containers, filter, word >>

reset ==
  /\ kind \in Streams
  /\ stream' = FreshStream
  /\ UNCHANGED << containers, filter, word >>

------------------------------------------------------------------------------
(* The records *)

Write(v) ==
  /\ kind = "record" /\ word = {}
  /\ word' = v
  /\ UNCHANGED << containers, filter, stream >>

ReadBack ==
  /\ kind = "record" /\ word # {}
  /\ word' = {}
  /\ UNCHANGED << containers, filter, stream >>

Next ==
  \/ \E k \in Keys : \E v \in ValsOf(k) : InsertOrAssign(k, v) \/ TryEmplace(k, v)
  \/ \E k \in Keys : Erase(k) \/ TreeInsert(k) \/ TreeErase(k)
  \/ \E n \in Sizes : Reserve(n)
  \/ \E keys \in Sources : Merge(keys) \/ TreeMerge(keys)
  \/ Clear \/ CopyAssign \/ TreeCopy
  \/ \E keys \in FilterKeys, buffered \in BOOLEAN : AddAll(keys, buffered)
  \/ xor8_populate \/ xor8_buffered_populate \/ xor16_populate \/ xor16_buffered_populate
  \/ \E n \in 0 .. MaxLen : update(n)
  \/ FreeFilter \/ reset \/ ReadBack
  \/ \E v \in Words : Write(v)
  \/ \E it \in Iterators(tree) : TreeEraseAt(it) \/ \E k \in Keys : TreeInsertHint(it, k)

Spec == Init /\ [][Next]_vars

------------------------------------------------------------------------------
(* Properties *)

\* A submap holds exactly the elements that were put in for its keys, and a search
\* ends and finds them and only them, whatever was inserted, erased, rehashed in
\* place, copied or merged before (find, find_or_prepare_insert).
MapExact ==
  IsMap =>
    \A k \in Keys, i \in Submaps :
      LET at == find(sets[i], k)
      IN  IF contents[k] > 0 /\ SubIdx(k) = i
          THEN at # sets[i].capacity /\ sets[i].slots[at] = [key |-> k, val |-> contents[k]]
          ELSE at = sets[i].capacity

\* growth_left counts the empty slots that may still be taken: never below zero, and
\* what the load factor allows less full slots and tombstones; size counts the full.
\* The bytes behind the sentinel repeat the first ones, and a table too small for a
\* group has no tombstone: drop_deletes_without_resize asserts !is_small(), and its
\* conversion of the control bytes by groups would not end on one.
TableVerified ==
  \A i \in Submaps :
    LET t == sets[i]
        used == {j \in 0 .. t.capacity - 1 : t.ctrl[j] # kEmpty}
    IN  t.capacity > 0 =>
          /\ \A j \in 0 .. Min({t.capacity, kWidth - 1}) - 1 : t.ctrl[t.capacity + 1 + j] = t.ctrl[j]
          /\ is_small(t) => \A j \in DOMAIN t.ctrl : t.ctrl[j] # kDeleted
          /\ t.growth_left >= 0
          /\ t.growth_left + Cardinality(used) = CapacityToGrowth(t.capacity)
          /\ t.size = Cardinality({j \in used : IsFull(t.ctrl[j])})
          /\ DOMAIN t.slots = {j \in used : IsFull(t.ctrl[j])}

\* A walk from begin() to end() visits what was put in, in order.
TreeExact ==
  IsTree =>
    LET vals == Values(tree)
    IN  /\ Len(vals) = tree.size
        /\ \A i \in 2 .. Len(vals) : vals[i - 1] <= vals[i]
        /\ \A k \in Keys : Cardinality({i \in DOMAIN vals : vals[i] = k}) = contents[k]
        /\ \A k \in Keys : (internal_find(tree, k).node # Nil) = (contents[k] > 0)

\* btree::verify(): parents, positions, order, first and last leaf; and all leaves are
\* equally deep, all nodes in the tree.
TreeVerified ==
  IF tree.size = 0 THEN DOMAIN tree.nodes = {}
  ELSE /\ internal_verify(tree, tree.root, Min(Keys), Max(Keys))
       /\ leftmost(tree) = Deepest(tree, tree.root, TRUE)
       /\ tree.rightmost = Deepest(tree, tree.root, FALSE)
       /\ Cardinality(Depths(tree, tree.root)) = 1
       /\ Below(tree, tree.root) = DOMAIN tree.nodes

\* erase returns an iterator to the first value behind the erased ones, though values
\* have moved between nodes and nodes have been merged meanwhile.
EraseReturnsNext ==
  returned # << >> =>
    LET behind == {k \in Keys : k > returned[1] /\ contents[k] > 0}
    IN  returned[2] = IF behind = {} THEN End ELSE Min(behind)

\* The keys can be taken off one at a time: among any of them, one has a place to itself.
Peelable ==
  \A some \in SUBSET DOMAIN filter.keys \ {{}} :
    \E i \in some, w \in 1 .. 3 :
      \A j \in some \ {i} : filter.pos[filter.keys[j]][w] # filter.pos[filter.keys[i]][w]

\* A round of populate takes all keys off exactly if that is possible under its seed,
\* puts each on the stack once, leaves nothing in the buffers for the next round, and
\* does not write past a queue; a filter that was populated contains all its keys,
\* whatever the memory held before ("it should never fail, except if there are
\* duplicated keys").
XorExact ==
  /\ filter.phase = "assign" => Peelable
  /\ filter.phase = "round" => filter.buf = NoBuffer /\ (filter.seed > 1 => ~Peelable)
  /\ Len(filter.stack) <= Len(filter.keys)
  /\ \A w \in Blocks : Len(filter.Q[w]) <= blockLength
  /\ filter.phase = "done" /\ filter.ok =>
       \A k \in Range(filter.keys) : IF kind = "xor16" THEN xor16_contain(filter, k) ELSE xor8_contain(filter, k)

\* What has gone from the input into the accumulators of xxhash3.
Consumed == stream.totalLen - stream.bufferedSize

\* The bytes behind the buffered ones are the last consumed.  They are not when update
\* has taken stripes straight from its input: then a digest with less than a stripe in
\* the buffer has other bytes in its last stripe than the input.
TailKept ==
  Skip(stream.buffer, internal_buffer_size - stripe_len) = Input(Consumed - stripe_len, Consumed)

\* The hash of an input does not depend on the pieces in which it came (update, digest).
StreamExact ==
  /\ kind \in {"xxhash32", "xxhash64"} =>
       digest_impl(stream) = endian_align(stream.N, Input(0, stream.total_len))
  /\ kind = "xxhash3" =>
       \/ digest(stream) = xxhash3_impl(Input(0, stream.totalLen))
       \/ Consumed > 0 /\ stream.bufferedSize \in 1 .. stripe_len - 1 /\ ~TailKept

\* The integers of a record are read as they were written: of any length and sign
\* (sqlite3GetVarint, recordSerialGet), or as the largest if they do not fit
\* (getVarint32); and both functions that know the width of a type agree.
RecordExact ==
  kind = "record" =>
    LET p == sqlite3PutVarint(word)
        t == SerialType(word)
        buf == SerialPut(word, serialTypeLen(t))
    IN  /\ sqlite3GetVarint(p) = Read(VarintLen(word), word)
        /\ getVarint32(p) = Read(VarintLen(word), IF word \subseteq 0 .. 31 THEN word ELSE 0 .. 31)
        /\ recordSerialGet(buf, t) = << serialTypeLen(t), IntVal(word) >>
        /\ \A u \in 0 .. 20 \cup 126 .. 129 : recordSerialGet(SerialPut(word, 8), u)[1] = serialTypeLen(u)
        /\ recordSerialGet(SerialPut(word, 8), 7)[2].flags = IF IsNaN(word) THEN "null" ELSE "real"

==============================================================================
