------------------------------- MODULE Resolver -------------------------------
(****************************************************************************)
(* SelectResolver: what Hustle takes from SQLite's parse tree of a SELECT.  *)
(*                                                                          *)
(* An expression is a record with an op, its children pLeft and pRight, and *)
(* for a column its table, name, number and the cursor SQLite gave to the   *)
(* table.  A resolver is a record r of the members of the class.            *)
(****************************************************************************)
EXTENDS Integers, Sequences, FiniteSets, SequencesExt, TLC

CONSTANTS
  num_rows   \* the number of rows of every table of the catalog

Comparison == {"NE", "EQ", "GT", "LE", "LT", "GE"}

aggregate_kernels == {"SUM", "COUNT", "MEAN"}

\* A node that is not a column has cursor 0: SQLite allocates it zeroed.
ITable(e) == IF e.op = "COLUMN" THEN e.iTable ELSE 0

\* The address of a PredicateTree is its id.
NoTree == [id |-> 0]

NoExpr == [op |-> "NULL"]

Leaf(op, col, val) == [op |-> op, col |-> col, val |-> val]

ConnectiveNode(l, t, op) == [op |-> op, left |-> l, right |-> t]

ColumnReference(e) == [table |-> e.table, col_name |-> e.col_name]

SelectResolver ==
  [select_predicates |-> << >>, join_predicates |-> << >>, join_graph |-> << >>,
   predicates |-> << >>, agg_references |-> << >>, group_by_references |-> << >>,
   order_by_references |-> << >>, project_references |-> << >>,
   resolve_status |-> TRUE, trees |-> 0, join_type |-> "OTHER", aborted |-> FALSE]

Entry(f, k, default) == IF k \in DOMAIN f THEN f[k] ELSE default

Return(r, tree) == [r |-> r, tree |-> tree]

\* A new tree, stored as the predicate of a table.
Store(r, root, name, table) ==
  LET tree == [id |-> r.trees + 1, root |-> root, table_name |-> name]
  IN Return([r EXCEPT !.trees = @ + 1, !.select_predicates = (table :> tree) @@ @], tree)

-----------------------------------------------------------------------------
(* ResolvePredExpr *)

\* AND and OR: trees of one table are connected; a tree whose sibling has none
\* is joined to what its table already has.  Dereferencing the missing tree of
\* a table, and OR over two tables, end the program.
ResolveConnective(e, r, lpred, rpred) ==
  LET cur == IF lpred = NoTree THEN rpred ELSE lpred
      prev == Entry(r.select_predicates, cur.table_name, NoTree)
  IN CASE lpred = NoTree /\ rpred = NoTree -> Return(r, NoTree)
       [] (lpred = NoTree) # (rpred = NoTree) ->
            IF e.op = "OR" \/ prev = cur THEN Return(r, NoTree)
            ELSE IF prev = NoTree THEN Return([r EXCEPT !.aborted = TRUE], NoTree)
            ELSE Store(r, ConnectiveNode(prev.root, cur.root, "AND"), "", cur.table_name)
       [] OTHER ->
            IF ITable(e.pLeft.pLeft) = ITable(e.pRight.pLeft)
            THEN Store(r, ConnectiveNode(lpred.root, rpred.root, e.op),
                       lpred.table_name, lpred.table_name)
            ELSE Return([r EXCEPT !.aborted = @ \/ e.op = "OR"], NoTree)

HasPredicate_never(r, table) == FALSE

HasPredicate(r, table) == Entry(r.select_predicates, table, NoTree) # NoTree

\* Column against constant: kept unless the table already has a predicate (the
\* AND above will join them).  Column against column is left to the joins.
ResolveComparison(e, r) ==
  IF e.pLeft.op = "COLUMN" /\ e.pRight.op \in {"INTEGER", "STRING"}
  THEN LET table == e.pLeft.table
           root == Leaf(e.op, ColumnReference(e.pLeft), e.pRight.value)
           stored == Store(r, root, table, table)
       IN IF HasPredicate(r, table)
          THEN Return([stored.r EXCEPT !.select_predicates = r.select_predicates], stored.tree)
          ELSE stored
  ELSE Return([r EXCEPT !.resolve_status =
                 @ /\ e.pLeft.op = "COLUMN" /\ e.pRight.op = "COLUMN"], NoTree)

\* BETWEEN of two integers replaces the predicate of the table.
ResolveBetween(e, r) ==
  IF e.pLeft.op = "COLUMN" /\ e.low.op = "INTEGER" /\ e.high.op = "INTEGER"
  THEN LET col == ColumnReference(e.pLeft)
       IN Store(r, ConnectiveNode(Leaf("GE", col, e.low.value), Leaf("LE", col, e.high.value),
                                  "AND"), col.table, col.table)
  ELSE Return(r, NoTree)

RECURSIVE ResolvePredExpr(_, _)
ResolvePredExpr(e, r) ==
  CASE e.op \in {"OR", "AND"} ->
         LET l == ResolvePredExpr(e.pLeft, r)
             t == ResolvePredExpr(e.pRight, l.r)
         IN ResolveConnective(e, t.r, l.tree, t.tree)
    [] e.op \in Comparison -> ResolveComparison(e, r)
    [] e.op = "BETWEEN" -> ResolveBetween(e, r)
    [] e.op \in {"NULL", "INTEGER", "STRING", "AGG_COLUMN", "AGG_FUNCTION", "COLUMN"} ->
         Return(r, NoTree)
    [] OTHER -> Return([r EXCEPT !.resolve_status = FALSE], NoTree)

-----------------------------------------------------------------------------
(* ResolveJoinPredExpr: the larger table of an equality is on its left.      *)

Sides(e) ==
  LET l == ColumnReference(e.pLeft)
      t == ColumnReference(e.pRight)
  IN IF num_rows[l.table] < num_rows[t.table] THEN <<t, l>> ELSE <<l, t>>

AddJoin(e, r) ==
  LET pred == [left_col |-> Sides(e)[1], right_col |-> Sides(e)[2]]
      Add(g, t) == (t :> Append(Entry(g, t, << >>), pred)) @@ g
      right == pred.right_col.table
  IN [r EXCEPT !.join_predicates = (right :> pred) @@ @,
               !.join_graph = Add(Add(@, right), pred.left_col.table),
               !.predicates = Append(@, pred)]

RECURSIVE ResolveJoinPredExpr(_, _)
ResolveJoinPredExpr(e, r) ==
  CASE e.op \in {"NULL", "STRING", "INTEGER", "COLUMN"} -> r
    [] e.op = "EQ" ->
         IF e.pLeft.op = "COLUMN" /\ e.pRight.op = "COLUMN" THEN AddJoin(e, r) ELSE r
    [] OTHER -> ResolveJoinPredExpr(e.pRight, ResolveJoinPredExpr(e.pLeft, r))

-----------------------------------------------------------------------------
(* CheckJoinSupport *)

IsStar(r) == \E t \in DOMAIN r.join_graph : Len(r.join_graph[t]) = Len(r.predicates)

\* The walk starts at the last table with one predicate that the iteration
\* over an unordered_map comes by: at any of them.
Starts(r) == {t \in DOMAIN r.join_graph : Len(r.join_graph[t]) = 1}

\* The predicates in the order of a path through all of them, or none.
RECURSIVE Path(_, _, _, _, _)
Path(r, pred, table, visited, ordered) ==
  LET next == IF pred.left_col.table = table THEN pred.right_col.table
              ELSE pred.left_col.table
      others == SelectSeq(r.join_graph[next], LAMBDA p : p # pred)
      covered == Append(ordered, pred)
  IN IF table \in visited \/ Len(r.join_graph[next]) > 2 THEN << >>
     ELSE IF Len(covered) = Len(r.predicates) THEN covered
     ELSE IF others = << >> THEN << >>
     ELSE Path(r, others[1], next, visited \cup {table}, covered)

\* The outcomes: the resolver with its join type, and whether it is supported.
CheckJoinSupport(r) ==
  IF IsStar(r) THEN {[ok |-> TRUE, r |-> [r EXCEPT !.join_type = "STAR"]]}
  ELSE IF Starts(r) = {} THEN {[ok |-> FALSE, r |-> r]}
  ELSE {LET path == Path(r, r.join_graph[t][1], t, {}, << >>)
        IN IF path = << >> THEN [ok |-> FALSE, r |-> r]
           ELSE [ok |-> TRUE, r |-> [r EXCEPT !.join_type = "LINEAR", !.predicates = path]]
        : t \in Starts(r)}

-----------------------------------------------------------------------------
(* ResolveSelectTree *)

\* An operand that is not supported is left out; at the top the query is.
RECURSIVE ResolveAggExpr(_)
ResolveAggExpr(e) ==
  CASE e.op = "COLUMN" -> [op |-> "COLUMN", column_ref |-> ColumnReference(e)]
    [] e.op \in {"STAR", "PLUS", "MINUS", "SLASH"} ->
         [op |-> e.op, left_expr |-> ResolveAggExpr(e.pLeft),
          right_expr |-> ResolveAggExpr(e.pRight)]
    [] OTHER -> NoExpr

\* The forms of FROM and SELECT that are left to SQLite.
Unsupported == {"no_source", "having", "distinct", "compound", "view", "recursive", "values",
                "subquery", "using", "on", "outer_join"}

ResolvesItem(e) ==
  \/ /\ e.op = "AGG_FUNCTION" /\ e.func \in aggregate_kernels
     /\ ResolveAggExpr(e.arg) # NoExpr
  \/ e.op = "COLUMN" /\ e.iColumn # -1

AggregateReference(e) ==
  IF e.arg.op = "COLUMN" /\ e.arg.iColumn > 0
  THEN [kernel |-> e.func, agg_name |-> e.alias, col_ref |-> ColumnReference(e.arg)]
  ELSE [kernel |-> e.func, agg_name |-> e.alias, expr_ref |-> ResolveAggExpr(e.arg)]

ProjectReference(e) ==
  IF e.op = "COLUMN" THEN [table |-> e.table, name |-> e.col_name]
  ELSE [table |-> "", name |-> e.alias]

\* ORDER BY of a column that is selected, or of the aggregate by its name.
OrderByReference(o, project_references) ==
  [ref |-> IF o.expr.op = "AGG_FUNCTION" THEN [table |-> "", name |-> project_references[o.iOrderByCol].name]
           ELSE ProjectReference(o.expr),
   is_desc |-> o.desc]

\* The outcomes of ResolveSelectTree for a query: ok is what it returns.
ResolveSelectTree(q) ==
  LET r0 == [SelectResolver EXCEPT !.select_predicates = [t \in Range(q.from) |-> NoTree]]
      IsAgg(e) == e.op = "AGG_FUNCTION"
      refs == [k \in DOMAIN q.list |-> ProjectReference(q.list[k])]
      aggs == SelectSeq(q.list, IsAgg)
      r1 == [r0 EXCEPT
               !.agg_references = [k \in DOMAIN aggs |-> AggregateReference(aggs[k])],
               !.project_references = refs]
      r2 == ResolvePredExpr(q.where, r1).r
      orders == SelectSeq(q.order, LAMBDA o : o.iOrderByCol > 0)
      r3 == [ResolveJoinPredExpr(q.where, r2) EXCEPT
               !.group_by_references = [i \in DOMAIN q.group |-> ColumnReference(q.group[i])],
               !.order_by_references = [i \in DOMAIN orders |-> OrderByReference(orders[i], refs)]]
      no == [ok |-> FALSE, r |-> r0]
  IN CASE q.form \in Unsupported -> {no}
       [] \E k \in DOMAIN q.list : ~ResolvesItem(q.list[k]) -> {no}
       [] r2.aborted \/ ~r2.resolve_status -> {[ok |-> FALSE, r |-> r2]}
       [] OTHER -> CheckJoinSupport(r3)

==============================================================================
