----------------------------- MODULE BloomFilter ------------------------------
(***************************************************************************)
(* utils/bloom_filter.h: the filter that LIP and FilterJoin build over the    *)
(* keys of a dimension.  Its cells are the set of the indices that are on.     *)
(***************************************************************************)
EXTENDS Integers

CONSTANTS
  HashBits,         \* bits of a hash (32)
  HashFactor,       \* 0x9e3779b1
  CellsPerValue     \* 100

\* BloomFilter::hash: the seed is ignored, so num_hash_ hashes are one.
hash(val) == (val * HashFactor) % 2 ^ HashBits

\* reduce: x * N / 2^32
reduce(x, n) == (x * n) \div 2 ^ HashBits

NewBloomFilter(num_vals) == [num_cells |-> num_vals * CellsPerValue, cells |-> {}]

insert(filter, val) ==
  [filter EXCEPT !.cells = @ \cup {reduce(hash(val), filter.num_cells)}]

\* insert, for every value of a set.
insert_all(filter, vals) ==
  [filter EXCEPT !.cells = @ \cup {reduce(hash(v), filter.num_cells) : v \in vals}]

probe(filter, val) == reduce(hash(val), filter.num_cells) \in filter.cells

==============================================================================
