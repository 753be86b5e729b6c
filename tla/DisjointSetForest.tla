--------------------------- MODULE DisjointSetForest ---------------------------
(* The union-find structure of the join reordering: a forest is a record of   *)
(* the nodes, each with a rank and a parent, and the position of an element.  *)
EXTENDS Integers, Sequences, TLC

Forest == [nodes |-> << >>, elements_map |-> << >>]

hasElement(f, element) == element \in DOMAIN f.elements_map

makeSet(f, element) ==
  IF hasElement(f, element) THEN f
  ELSE LET pos == Len(f.nodes) + 1
       IN [nodes |-> Append(f.nodes, [rank |-> 0, parent |-> pos]),
           elements_map |-> (element :> pos) @@ f.elements_map]

RECURSIVE RootFrom(_, _)
RootFrom(f, id) == IF f.nodes[id].parent = id THEN id ELSE RootFrom(f, f.nodes[id].parent)

find(f, element) == RootFrom(f, f.elements_map[element])

\* The nodes that are passed on the way to the root.
RECURSIVE Passed(_, _)
Passed(f, id) ==
  IF f.nodes[id].parent = id THEN {} ELSE {id} \cup Passed(f, f.nodes[id].parent)

\* find also hangs what it passed below the root, whose rank it sets anew.
compress_path(f, element) ==
  LET root == find(f, element)
      passed == Passed(f, f.elements_map[element])
      max_rank == CHOOSE m \in {0} \cup {f.nodes[id].rank : id \in passed} :
                    \A id \in passed : f.nodes[id].rank <= m
  IN [f EXCEPT !.nodes = [id \in DOMAIN @ |->
        IF id \in passed THEN [@[id] EXCEPT !.parent = root]
        ELSE IF id = root THEN [@[id] EXCEPT !.rank = max_rank + 1] ELSE @[id]]]

\* By elements instead of roots.
Union_elements(f, element1, element2) ==
  [f EXCEPT !.nodes[f.elements_map[element1]].parent = f.elements_map[element2]]

\* The root of lower rank goes below the other.
Union(f, element1, element2) ==
  LET root1 == find(f, element1)
      root2 == find(f, element2)
      n1 == f.nodes[root1]
      n2 == f.nodes[root2]
  IN IF root1 = root2 THEN f
     ELSE IF n1.rank > n2.rank THEN [f EXCEPT !.nodes[root2].parent = root1]
     ELSE IF n1.rank < n2.rank THEN [f EXCEPT !.nodes[root1].parent = root2]
     ELSE [f EXCEPT !.nodes[root1].parent = root2, !.nodes[root2].rank = @ + 1]

\* merge, with the two calls of find it begins with.
merge(f, element1, element2) ==
  Union(compress_path(compress_path(f, element1), element2), element1, element2)

==============================================================================
