-------------------------------- MODULE BTree ---------------------------------
(***************************************************************************)
(* utils/parallel_hashmap/btree.h: btree_node, btree_iterator and btree, with    *)
(* and without duplicate keys.  A tree is [root, rightmost, size, nodes] and a   *)
(* node [parent, position, vals, kids, max]; the parent of the root is the       *)
(* leftmost leaf, max is 0 for an internal node, and positions count from 0.     *)
(* Values are their keys.  An iterator is [node, pos].                          *)
(***************************************************************************)
EXTENDS Integers, FiniteSets, FiniteSetsExt, SequencesExt, TLC

CONSTANT kNodeValues

ASSUME kNodeValuesAssumption == kNodeValues \in Nat /\ kNodeValues >= 3

\* Mutant: no node is ever underfull.
kMinNodeValues_none == 0

kMinNodeValues == kNodeValues \div 2

Nil == 0

\* EmptyNode
EmptyTree == [root |-> Nil, rightmost |-> Nil, size |-> 0, nodes |-> << >>]

count(t, n) == Len(t.nodes[n].vals)
leaf(t, n) == t.nodes[n].max # 0
max_count(t, n) == IF leaf(t, n) THEN t.nodes[n].max ELSE kNodeValues
is_root(t, n) == leaf(t, t.nodes[n].parent)
leftmost(t) == t.nodes[t.root].parent
child(t, n, i) == t.nodes[n].kids[i + 1]
key(t, it) == t.nodes[it.node].vals[it.pos + 1]

It(n, i) == [node |-> n, pos |-> i]

end(t) == It(t.rightmost, IF t.size = 0 THEN 0 ELSE count(t, t.rightmost))
begin(t) == IF t.size = 0 THEN end(t) ELSE It(leftmost(t), 0)

------------------------------------------------------------------------------
(* Nodes *)

FreeNode(t) == Min((1 .. Cardinality(DOMAIN t.nodes) + 1) \ DOMAIN t.nodes)

\* init_leaf, init_internal
NewNode(t, n, parent, max) ==
  [t EXCEPT !.nodes = @ @@ (n :> [parent |-> parent, position |-> 0, vals |-> << >>,
                                  kids |-> << >>, max |-> max])]

\* delete_leaf_node, delete_internal_node
Delete(t, n) == [t EXCEPT !.nodes = [m \in DOMAIN @ \ {n} |-> @[m]]]

Position(kids, n) == CHOOSE i \in DOMAIN kids : kids[i] = n

\* set_child, init_child, of all the children of the nodes.
Adopt(t, ps) ==
  [t EXCEPT !.nodes = [n \in DOMAIN @ |->
     LET now == {p \in ps : n \in Range(@[p].kids)}
         p == CHOOSE q \in now : TRUE
         at == Position(@[p].kids, n) - 1
     IN  IF now = {} THEN @[n] ELSE [@[n] EXCEPT !.parent = p, !.position = at]]]

Take(s, m) == IF s = << >> THEN s ELSE SubSeq(s, 1, m)
Drop(s, m) == IF s = << >> THEN s ELSE SubSeq(s, m + 1, Len(s))

\* The values and the children of two siblings and of the value between them,
\* shared out anew: n values stay on the left, one goes up.
Share(t, left, right, n) ==
  LET p == t.nodes[left].parent
      at == t.nodes[left].position + 1
      vals == t.nodes[left].vals \o << t.nodes[p].vals[at] >> \o t.nodes[right].vals
      kids == t.nodes[left].kids \o t.nodes[right].kids
      shared == [t EXCEPT !.nodes = [@ EXCEPT ![left].vals = Take(vals, n), ![left].kids = Take(kids, n + 1),
                                              ![p].vals[at] = vals[n + 1],
                                              ![right].vals = Drop(vals, n + 1),
                                              ![right].kids = Drop(kids, n + 1)]]
  IN  Adopt(shared, {left, right})

rebalance_right_to_left(t, to_move, left, right) == Share(t, left, right, count(t, left) + to_move)
rebalance_left_to_right(t, to_move, left, right) == Share(t, left, right, count(t, left) - to_move)

\* Node n keeps the first values, gives the next one to its parent and the rest to
\* a new node dest.  Where the next insertion goes decides how many.
split(t, n, insert_position, dest) ==
  LET p == t.nodes[n].parent
      at == t.nodes[n].position
      moved == IF insert_position = 0 THEN count(t, n) - 1
               ELSE IF insert_position = kNodeValues THEN 0 ELSE count(t, n) \div 2
      kept == count(t, n) - moved - 1
      vals == t.nodes[n].vals
      made == NewNode(t, dest, p, IF leaf(t, n) THEN kNodeValues ELSE 0)
      done == [made EXCEPT !.rightmost = IF @ = n THEN dest ELSE @,
                           !.nodes = [@ EXCEPT ![n].vals = Take(vals, kept), ![n].kids = Take(@, kept + 1),
                                               ![dest].vals = Drop(vals, kept + 1),
                                               ![dest].kids = Drop(t.nodes[n].kids, kept + 1),
                                               ![p].vals = InsertAt(@, at + 1, vals[kept + 1]),
                                               ![p].kids = InsertAt(@, at + 2, dest)]]
  IN  Adopt(done, {dest, p})

\* merge_nodes, btree_node::merge, remove_value
merge_nodes(t, left, right) ==
  LET p == t.nodes[left].parent
      at == t.nodes[left].position + 1
      done == [t EXCEPT !.rightmost = IF @ = right THEN left ELSE @,
                        !.nodes = [@ EXCEPT ![left].vals = @ \o << t.nodes[p].vals[at] >> \o t.nodes[right].vals,
                                            ![left].kids = @ \o t.nodes[right].kids,
                                            ![p].vals = RemoveAt(@, at),
                                            ![p].kids = RemoveAt(@, at + 1)]]
  IN  Delete(Adopt(done, {left, p}), right)

------------------------------------------------------------------------------
(* Iterators *)

RECURSIVE ClimbRight(_, _), ClimbLeft(_, _), Deepest(_, _, _)

ClimbRight(t, it) ==
  IF it.pos = count(t, it.node) /\ ~is_root(t, it.node)
  THEN ClimbRight(t, It(t.nodes[it.node].parent, t.nodes[it.node].position)) ELSE it

ClimbLeft(t, it) ==
  IF it.pos < 0 /\ ~is_root(t, it.node)
  THEN ClimbLeft(t, It(t.nodes[it.node].parent, t.nodes[it.node].position - 1)) ELSE it

\* Down from n by the first or the last child.
Deepest(t, n, first) ==
  IF leaf(t, n) THEN n ELSE Deepest(t, child(t, n, IF first THEN 0 ELSE count(t, n)), first)

increment(t, it) ==
  LET next == It(it.node, it.pos + 1)
      up == ClimbRight(t, next)
  IN  IF ~leaf(t, it.node) THEN It(Deepest(t, child(t, it.node, it.pos + 1), TRUE), 0)
      ELSE IF next.pos < count(t, it.node) \/ up.pos = count(t, up.node) THEN next ELSE up

decrement(t, it) ==
  LET prev == It(it.node, it.pos - 1)
      up == ClimbLeft(t, prev)
      below == Deepest(t, child(t, it.node, it.pos), FALSE)
  IN  IF ~leaf(t, it.node) THEN It(below, count(t, below) - 1)
      ELSE IF prev.pos >= 0 \/ up.pos < 0 THEN prev ELSE up

------------------------------------------------------------------------------
(* Searching *)

\* The number of keys of a node before the key: lower_bound and upper_bound.
Before(t, n, k, equal) ==
  Cardinality({i \in 1 .. count(t, n) : t.nodes[n].vals[i] < k \/ (equal /\ t.nodes[n].vals[i] = k)})

RECURSIVE Descend(_, _, _, _), internal_last(_, _)

\* internal_locate, and the loops of internal_lower_bound and internal_upper_bound.
Descend(t, n, k, equal) ==
  LET pos == Before(t, n, k, equal)
  IN  IF leaf(t, n) THEN It(n, pos) ELSE Descend(t, child(t, n, pos), k, equal)

\* The next value, if the iterator is behind the last one of its node.
internal_last(t, it) ==
  IF it.node = Nil \/ it.pos # count(t, it.node) THEN it
  ELSE LET up == It(t.nodes[it.node].parent, t.nodes[it.node].position)
       IN  IF leaf(t, up.node) THEN It(Nil, up.pos) ELSE internal_last(t, up)

internal_lower_bound(t, k) == internal_last(t, Descend(t, t.root, k, FALSE))
internal_upper_bound(t, k) == internal_last(t, Descend(t, t.root, k, TRUE))

internal_end(t, it) == IF it.node = Nil THEN end(t) ELSE it

\* Mutant: only the leaf is looked at for the key.
Found_leaf(t, it, k) == it.pos < count(t, it.node) /\ ~(k < key(t, it))

\* The next value is the key already; it may be in a node above the leaf.
Found(t, it, k) ==
  LET last == internal_last(t, it)
  IN  last.node # Nil /\ ~(k < key(t, last))

\* The search of an empty tree ends in EmptyNode, a leaf without values.
internal_find(t, k) ==
  IF t.size = 0 THEN It(Nil, 0)
  ELSE LET it == Descend(t, t.root, k, FALSE)
       IN  IF Found(t, it, k) THEN internal_last(t, it) ELSE It(Nil, 0)

------------------------------------------------------------------------------
(* Insertion *)

Moved(t, it) == [t |-> t, it |-> it]

SplitAt(done, it, dest) ==
  Moved(done, IF it.pos > count(done, it.node) THEN It(dest, it.pos - count(done, it.node) - 1) ELSE it)

\* The iterator it is of a full node; where its position is afterwards, there is room.
\* First a sibling is tried, then the parent, which may itself have to be split.
RECURSIVE rebalance_or_split(_, _)
rebalance_or_split(t, it) ==
  LET n == it.node
      pos == it.pos
      p == t.nodes[n].parent
      at == t.nodes[n].position
      left == child(t, p, at - 1)
      right == child(t, p, at + 1)
      AtLeastOne(m) == IF m < 1 THEN 1 ELSE m
      leftwards == AtLeastOne((kNodeValues - count(t, left)) \div (IF pos < kNodeValues THEN 2 ELSE 1))
      rightwards == AtLeastOne((kNodeValues - count(t, right)) \div (IF pos > 0 THEN 2 ELSE 1))
      to_left == /\ at > 0 /\ count(t, left) < kNodeValues
                 /\ pos - leftwards >= 0 \/ count(t, left) + leftwards < kNodeValues
      to_right == /\ at < count(t, p) /\ count(t, right) < kNodeValues
                  /\ pos <= count(t, n) - rightwards \/ count(t, right) + rightwards < kNodeValues
      NewRoot(r) == Adopt([NewNode(t, r, p, 0) EXCEPT !.root = r, !.nodes = [@ EXCEPT ![r].kids = << n >>]], {r})
      Halves(room, dest) == SplitAt(split(room, n, pos, dest), it, dest)
      Halved(room) == Halves(room, FreeNode(room))
  IN  IF n # t.root /\ to_left
      THEN LET moved == rebalance_right_to_left(t, leftwards, left, n)
           IN  Moved(moved, IF pos >= leftwards THEN It(n, pos - leftwards)
                            ELSE It(left, pos - leftwards + count(moved, left) + 1))
      ELSE IF n # t.root /\ to_right
      THEN LET moved == rebalance_left_to_right(t, rightwards, n, right)
           IN  Moved(moved, IF pos > count(moved, n) THEN It(right, pos - count(moved, n) - 1) ELSE it)
      ELSE Halved(IF n = t.root THEN NewRoot(FreeNode(t))
                  ELSE IF count(t, p) = kNodeValues THEN rebalance_or_split(t, It(p, at)).t ELSE t)

\* A root that is a leaf is replaced by one of twice the size (btree_node::swap).
GrowRoot(t, it) ==
  LET size == 2 * max_count(t, t.root)
      n == FreeNode(t)
      made == NewNode(t, n, n, IF size < kNodeValues THEN size ELSE kNodeValues)
      full == [made EXCEPT !.root = n, !.rightmost = n, !.nodes = [@ EXCEPT ![n].vals = t.nodes[t.root].vals]]
  IN  Moved(Delete(full, t.root), It(n, it.pos))

Room(t, it) ==
  IF count(t, it.node) < max_count(t, it.node) THEN Moved(t, it)
  ELSE IF max_count(t, it.node) < kNodeValues THEN GrowRoot(t, it)
  ELSE rebalance_or_split(t, it)

Emplaced(room, k) ==
  [room.t EXCEPT !.size = @ + 1,
                 !.nodes = [@ EXCEPT ![room.it.node].vals = InsertAt(@, room.it.pos + 1, k)]]

Behind(it) == It(it.node, it.pos + 1)

\* The value goes before the iterator, into a leaf.
internal_emplace(t, it, k) ==
  Emplaced(Room(t, IF leaf(t, it.node) THEN it ELSE Behind(decrement(t, it))), k)

\* new_leaf_root_node(1), if the tree is empty.
Rooted(t) ==
  IF t.size > 0 THEN t ELSE [NewNode(t, 1, 1, 1) EXCEPT !.root = 1, !.rightmost = 1]

insert_unique(t, k) ==
  LET r == Rooted(t)
      it == Descend(r, r.root, k, FALSE)
  IN  IF Found(r, it, k) THEN r ELSE internal_emplace(r, it, k)

insert_multi(t, k) ==
  LET r == Rooted(t)
  IN  internal_emplace(r, internal_end(r, internal_upper_bound(r, k)), k)

\* With a hint: the value goes there if it belongs there.
insert_hint_unique(t, it, k) ==
  LET before == it = end(t) \/ k < key(t, it)
      after(next) == next = end(t) \/ k < key(t, next)
  IN  IF t.size > 0 /\ ~before /\ key(t, it) = k THEN t
      ELSE IF t.size > 0 /\ (IF before THEN it = begin(t) \/ key(t, decrement(t, it)) < k ELSE after(increment(t, it)))
      THEN internal_emplace(t, IF before THEN it ELSE increment(t, it), k)
      ELSE insert_unique(t, k)

insert_hint_multi(t, it, k) ==
  LET before == it = end(t) \/ ~(key(t, it) < k)
      after(next) == next = end(t) \/ ~(key(t, next) < k)
  IN  IF t.size > 0 /\ (IF before THEN it = begin(t) \/ ~(k < key(t, decrement(t, it))) ELSE after(increment(t, it)))
      THEN internal_emplace(t, IF before THEN it ELSE increment(t, it), k)
      ELSE insert_multi(t, k)

------------------------------------------------------------------------------
(* Removal *)

try_shrink(t) ==
  LET c == child(t, t.root, 0)
  IN  IF count(t, t.root) > 0 THEN t
      ELSE IF leaf(t, t.root) THEN EmptyTree
      ELSE Delete([t EXCEPT !.root = c, !.nodes = [@ EXCEPT ![c].parent = leftmost(t)]], t.root)

\* An underfull node: merge with the left or the right sibling, or take values from
\* one; not from the right if the first value of the node went, nor from the left if
\* the last did, while the node has values.
try_merge_or_rebalance(t, it) ==
  LET n == it.node
      p == t.nodes[n].parent
      at == t.nodes[n].position
      left == child(t, p, at - 1)
      right == child(t, p, at + 1)
      Least(a, b) == IF a < b THEN a ELSE b
      from_right == Least((count(t, right) - count(t, n)) \div 2, count(t, right) - 1)
      from_left == Least((count(t, left) - count(t, n)) \div 2, count(t, left) - 1)
      Result(tree, i, merged) == [t |-> tree, it |-> i, merged |-> merged]
  IN  IF at > 0 /\ 1 + count(t, left) + count(t, n) <= kNodeValues
      THEN Result(merge_nodes(t, left, n), It(left, it.pos + 1 + count(t, left)), TRUE)
      ELSE IF at < count(t, p) /\ 1 + count(t, n) + count(t, right) <= kNodeValues
      THEN Result(merge_nodes(t, n, right), it, TRUE)
      ELSE IF at < count(t, p) /\ count(t, right) > kMinNodeValues /\ (count(t, n) = 0 \/ it.pos > 0)
      THEN Result(rebalance_right_to_left(t, from_right, n, right), it, FALSE)
      ELSE IF at > 0 /\ count(t, left) > kMinNodeValues /\ (count(t, n) = 0 \/ it.pos < count(t, n))
      THEN Result(rebalance_left_to_right(t, from_left, left, n), It(n, it.pos + from_left), FALSE)
      ELSE Result(t, it, FALSE)

\* Up from the node of it, as long as nodes are merged; res is the iterator to return.
RECURSIVE RebalanceUp(_, _, _), Tried(_, _)
RebalanceUp(t, it, res) ==
  IF it.node = t.root THEN Moved(try_shrink(t), res)
  ELSE IF count(t, it.node) >= kMinNodeValues THEN Moved(t, res)
  ELSE Tried(try_merge_or_rebalance(t, it), IF it = res THEN << >> ELSE << res >>)

\* The iterator to return follows the first move.
Tried(tried, later) ==
  LET res == IF later = << >> THEN tried.it ELSE later[1]
      n == tried.it.node
  IN  IF tried.merged THEN RebalanceUp(tried.t, It(tried.t.nodes[n].parent, tried.t.nodes[n].position), res)
      ELSE Moved(tried.t, res)

\* An iterator behind the last value of its node goes on to the next.
Settled(up) ==
  IF up.t.size = 0 THEN Moved(up.t, end(up.t))
  ELSE IF up.it.pos = count(up.t, up.it.node)
  THEN Moved(up.t, increment(up.t, It(up.it.node, up.it.pos - 1)))
  ELSE up

rebalance_after_delete(t, it) == Settled(RebalanceUp(t, it, it))

\* remove_values_ignore_children
RemoveValues(t, it, n) ==
  [t EXCEPT !.nodes = [@ EXCEPT ![it.node].vals = SubSeq(@, 1, it.pos) \o SubSeq(@, it.pos + n + 1, Len(@))]]

\* erase_from_leaf_node
EraseFromLeaf(t, it, n) == rebalance_after_delete([RemoveValues(t, it, n) EXCEPT !.size = @ - n], it)

\* Mutant: the iterator stays at the value that was moved.
AfterErase_moved(done) == done

\* The value behind the one that took the place of the erased value.
AfterErase(done) == Moved(done.t, increment(done.t, done.it))

\* erase(iterator): the value of an internal node is replaced by the one before it.
EraseAt(t, it) ==
  LET prev == decrement(t, it)
      moved == [t EXCEPT !.nodes = [@ EXCEPT ![it.node].vals[it.pos + 1] = key(t, prev)]]
      inner == EraseFromLeaf(moved, prev, 1)
  IN  IF leaf(t, it.node) THEN EraseFromLeaf(t, it, 1)
      ELSE AfterErase(inner)

erase_unique(t, k) ==
  LET it == internal_find(t, k)
  IN  IF it.node = Nil THEN Moved(t, It(Nil, 0)) ELSE EraseAt(t, it)

\* internal_clear
RECURSIVE Below(_, _)
Below(t, n) == {n} \cup UNION {Below(t, c) : c \in Range(t.nodes[n].kids)}

\* The children between the values go with them.
erase_same_node(t, first, last) ==
  LET n == last.pos - first.pos
      kids == t.nodes[first.node].kids
      gone == UNION {Below(t, kids[i]) : i \in (DOMAIN kids) \cap (first.pos + 2 .. last.pos + 1)}
      removed == RemoveValues(t, first, n)
      left == [removed EXCEPT !.nodes = [@ EXCEPT ![first.node].kids =
                 IF kids = << >> THEN kids ELSE SubSeq(kids, 1, first.pos + 1) \o SubSeq(kids, last.pos + 2, Len(kids))]]
  IN  Adopt([left EXCEPT !.nodes = [m \in DOMAIN @ \ gone |-> @[m]]], {first.node})

\* The loop of erase(begin, end).
RECURSIVE EraseMany(_, _)
EraseMany(at, n) ==
  LET here == count(at.t, at.it.node) - at.it.pos
      m == IF here < n THEN here ELSE n
  IN  IF n = 0 THEN at
      ELSE IF leaf(at.t, at.it.node) THEN EraseMany(EraseFromLeaf(at.t, at.it, m), n - m)
      ELSE EraseMany(EraseAt(at.t, at.it), n - 1)

RECURSIVE Distance(_, _, _)
Distance(t, first, last) == IF first = last THEN 0 ELSE 1 + Distance(t, increment(t, first), last)

EraseRange(t, first, last) ==
  LET n == Distance(t, first, last)
      same == [erase_same_node(t, first, last) EXCEPT !.size = @ - n]
  IN  IF n = 0 THEN Moved(t, first)
      ELSE IF n = t.size THEN Moved(EmptyTree, end(EmptyTree))
      ELSE IF first.node = last.node THEN rebalance_after_delete(same, first)
      ELSE EraseMany(Moved(t, first), n)

erase_multi(t, k) ==
  LET first == internal_lower_bound(t, k)
  IN  IF t.size = 0 \/ first.node = Nil THEN Moved(t, It(Nil, 0))
      ELSE EraseRange(t, first, internal_end(t, internal_upper_bound(t, k)))

------------------------------------------------------------------------------
(* Whole trees *)

RECURSIVE Walk(_, _)
Walk(t, it) == IF it = end(t) THEN << >> ELSE << key(t, it) >> \o Walk(t, increment(t, it))

\* The values from begin() to end().
Values(t) == IF t.size = 0 THEN << >> ELSE Walk(t, begin(t))

\* copy_or_move_values_in_order: without comparing keys, always at the end.
copy_values_in_order(t) ==
  FoldLeft(LAMBDA c, k : internal_emplace(Rooted(c), IF c.size = 0 THEN It(1, 0) ELSE end(c), k),
           EmptyTree, Values(t))

\* insert(b, e): each value with the end as its hint.
insert_iterator_unique(t, keys) == FoldLeft(LAMBDA c, k : insert_hint_unique(c, end(c), k), t, keys)
insert_iterator_multi(t, keys) == FoldLeft(LAMBDA c, k : insert_hint_multi(c, end(c), k), t, keys)

\* merge of two sets: the values that are inserted leave src, whose iterator follows.
RECURSIVE MergeFrom(_, _)
MergeFrom(t, src) ==
  IF src.it = end(src.t) THEN t
  ELSE IF internal_find(t, key(src.t, src.it)).node = Nil
  THEN MergeFrom(insert_unique(t, key(src.t, src.it)), EraseAt(src.t, src.it))
  ELSE MergeFrom(t, Moved(src.t, increment(src.t, src.it)))

RECURSIVE internal_verify(_, _, _, _)
internal_verify(t, n, lo, hi) ==
  LET vals == t.nodes[n].vals
      kids == t.nodes[n].kids
  IN  /\ vals # << >> /\ count(t, n) <= max_count(t, n)
      /\ \A v \in Range(vals) : lo <= v /\ v <= hi
      /\ \A i \in 2 .. Len(vals) : vals[i - 1] <= vals[i]
      /\ \A i \in DOMAIN kids :
           /\ t.nodes[kids[i]].parent = n /\ t.nodes[kids[i]].position = i - 1
           /\ internal_verify(t, kids[i], IF i = 1 THEN lo ELSE vals[i - 1], IF i = Len(kids) THEN hi ELSE vals[i])

RECURSIVE Depths(_, _)
Depths(t, n) == IF leaf(t, n) THEN {1} ELSE {d + 1 : d \in UNION {Depths(t, c) : c \in Range(t.nodes[n].kids)}}

==============================================================================
