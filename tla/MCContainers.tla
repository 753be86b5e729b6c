----------------------------- MODULE MCContainers -----------------------------
(* Containers with groups of four bytes and nodes of three or four values. *)
EXTENDS Containers

\* Searches of a table of seven slots start at the fifth, the first or the fourth; some
\* keys have the same control byte.
MCHash(k) == << 16, 17, 48, 49, 0, 19, 32, 12 >>[k]

MCKeys(c) == CASE c = "map" -> (1 .. 8) \ {6} [] c = "multiset" -> 1 .. 3 [] OTHER -> 1 .. 6

MCVals(k) == IF k = 6 THEN {1, 2} ELSE {1}

\* Four keys, and three with one given twice.
MCFilterKeys == {<< 1, 2, 3, 4 >>, << 1, 2, 2 >>}

MCPlaces == {<< 0, 0, 0 >>, << 0, 1, 1 >>, << 1, 0, 1 >>, << 1, 2, 2 >>}

\* Under the second seed the keys fall in two, or are kept apart.
MCPos(seed, n) ==
  IF seed = 1 THEN [1 .. n -> MCPlaces]
  ELSE {[k \in 1 .. n |-> << k % 2, k % 2, k % 2 >>], [k \in 1 .. n |-> << k % 3, k % 2, k \div 2 >>]}

\* All words with up to two ones, or up to two zeros.
MCWords ==
  LET few == {{a, b} : a \in 0 .. 63, b \in 0 .. 63} \cup {{}}
  IN  (few \cup {(0 .. 63) \ w : w \in few}) \ {{}}

\* Enough of one key for a tree of three levels.
MCCopies(k) == IF k = 2 THEN 8 ELSE 2

MCSources == {{1, 2}, {3, 4, 5}}

==============================================================================
