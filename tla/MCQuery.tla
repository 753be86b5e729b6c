------------------------------- MODULE MCQuery --------------------------------
(***************************************************************************)
(* Small databases and queries for module Query: a fact table in four blocks   *)
(* with two foreign keys, and two dimensions with unique keys.                *)
(***************************************************************************)
EXTENDS Query

CONSTANTS Keys1, Keys2, Values1    \* foreign keys and values of the first fact rows

Column(sizes, values) ==
  [i \in DOMAIN sizes |->
     SubSeq(values, FoldLeft(+, 0, SubSeq(sizes, 1, i - 1)) + 1, FoldLeft(+, 0, SubSeq(sizes, 1, i)))]

\* A table with no metadata.
Plain(name, cols) ==
  [name |-> name, cols |-> cols, sma |-> [c \in DOMAIN cols |-> [i \in DOMAIN cols[c] |-> None]]]

FactSizes == <<3, 1, 1, 1>>
Fact(f1, f2, v) ==
  Plain("F", [f1 |-> Column(FactSizes, <<f1, 3, 2, 9, 1, 2>>), f2 |-> Column(FactSizes, <<1, f2, 2, 1, 1, 1>>),
              v |-> Column(FactSizes, <<v, 1, 3, 1, 2, 1>>)])
Dim1 == Plain("D1", [k1 |-> <<<<1>>, <<2, 3>>>>, a |-> <<<<1>>, <<0, 1>>>>])
Dim2 == Plain("D2", [k2 |-> <<<<2>>, <<1>>>>, b |-> <<<<1>>, <<2>>>>])

Facts == {Fact(f1, f2, v) : f1 \in Keys1, f2 \in Keys2, v \in Values1}

Leaf(col, cmp, value) ==
  [leaf |-> TRUE, col |-> col, type |-> "number", op |-> cmp, value |-> value, value2 |-> None]
Text(leaf) == [leaf EXCEPT !.type = "string"]
Range2(col, lo, hi) == [Leaf(col, "NOT_EQUAL", lo) EXCEPT !.value2 = Some(hi)]
Both(left, right) == [leaf |-> FALSE, connective |-> "AND", left |-> left, right |-> right, col |-> left.col]
Either(left, right) == [leaf |-> FALSE, connective |-> "OR", left |-> left, right |-> right, col |-> left.col]

VIs(value) == Some(Leaf("v", "GREATER", value))
AIs1 == Some(Leaf("a", "EQUAL", 1))
BIs1 == Some(Leaf("b", "LESS_EQUAL", 1))
InRange == Some(Either(Both(Range2("v", 1, 2), Leaf("f1", "GREATER_EQUAL", 2)), Leaf("v", "LESS", 1)))
\* <> of SQL, for a string and for a number.
AIsNot1 == Some(Text(Leaf("a", "NOT_EQUAL", 1)))
VIsNot1 == Some(Leaf("v", "NOT_EQUAL", 1))

Pred1 == [left |-> [table |-> "F", col |-> "f1"], right |-> [table |-> "D1", col |-> "k1"]]
Pred2 == [left |-> [table |-> "F", col |-> "f2"], right |-> [table |-> "D2", col |-> "k2"]]
Preds == <<Pred1, Pred2>>

SumV == [kernel |-> "SUM", table |-> "F", col |-> "v", expr |-> None]
CountV == [SumV EXCEPT !.kernel = "COUNT"]
MeanV == [SumV EXCEPT !.kernel = "MEAN"]
Expr(elems) == [SumV EXCEPT !.expr = Some([i \in DOMAIN elems |->
  IF elems[i] \in {"PLUS", "MINUS", "STAR", "SLASH"} THEN [op |-> elems[i]] ELSE [col |-> elems[i]]])]
\* f2 * v + v, v * (f2 - f1), v - v * (f1 + f2), (f2 - f1) / v
LeftExpr == Expr(<<"f2", "v", "STAR", "v", "PLUS">>)
RightExpr == Expr(<<"v", "f2", "f1", "MINUS", "STAR">>)
AgainExpr == Expr(<<"v", "v", "f1", "f2", "PLUS", "STAR", "MINUS">>)
QuotientExpr == Expr(<<"f2", "f1", "MINUS", "v", "SLASH">>)

ByA == [table |-> "D1", col |-> "a"]
ByB == [table |-> "D2", col |-> "b"]
OrderA == [table |-> Some("D1"), col |-> "a", desc |-> TRUE]
OrderB == [table |-> Some("D2"), col |-> "b", desc |-> FALSE]
OrderSum == [table |-> None, col |-> "v", desc |-> FALSE]

Select(table, tree, hash_col) ==
  [kind |-> "select", table |-> table, tree |-> tree, hash_col |-> hash_col]

\* A query over tables with WHERE clauses; the columns to hash are those that a
\* later step of the plan wants hashed.
NewQuery(tables, wheres, hashed, predicates, aggregate, group_by, order_by, steps) ==
  LET name(i) == tables[i].name
      index(n) == CHOOSE i \in DOMAIN tables : name(i) = n
      names == {name(i) : i \in DOMAIN tables}
  IN  [workers |-> 3, tables |-> [n \in names |-> tables[index(n)]],
       where |-> [n \in names |-> wheres[index(n)]],
       predicates |-> predicates, aggregate |-> aggregate, group_by |-> group_by,
       order_by |-> order_by,
       plan |-> [i \in DOMAIN tables |-> Select(tables[i], wheres[i], hashed[i])] \o steps]

MultiwayJoin(inputs) == [kind |-> "multiway_join", inputs |-> inputs, predicates |-> Preds]
Star(kind) == [kind |-> kind, inputs |-> <<1, 2, 3>>, predicates |-> Preds, num_chunks |-> Len(FactSizes)]
HashAggregateOf(input) == [kind |-> "hash_aggregate", input |-> input]
AggregateOf(input) == [kind |-> "aggregate", input |-> input]

Keyed == <<None, Some("k1"), Some("k2")>>
Unkeyed == <<None, None, None>>

\* Selections on one table, with all metadata its blocks may have.
MetaTables(fact) ==
  {[fact EXCEPT !.sma.v = m] :
     m \in {f \in [DOMAIN fact.cols.v -> UNION {GenerateMetadata(fact.cols.v[i]) : i \in DOMAIN fact.cols.v}] :
              \A i \in DOMAIN fact.cols.v : f[i] \in GenerateMetadata(fact.cols.v[i])}}

\* A value that is more than a byte, too.
SelectQueries ==
  {NewQuery(<<t>>, <<where>>, <<Some("f1")>>, << >>, agg, << >>, << >>, <<HashAggregateOf(1)>>) :
     t \in UNION {MetaTables(f) : f \in Facts \cup {Fact(1, 2, 2 ^ CHAR_BIT + 1)}},
     where \in {VIs(1), InRange}, agg \in {CountV, MeanV}}
  \cup
  {NewQuery(<<f>>, <<VIsNot1>>, <<None>>, << >>, CountV, << >>, << >>, <<HashAggregateOf(1)>>) : f \in Facts}
  \cup
  {NewQuery(<<Dim1>>, <<AIsNot1>>, <<Some("k1")>>, << >>,
            [CountV EXCEPT !.table = "D1", !.col = "k1"], << >>, << >>, <<HashAggregateOf(1)>>)}

ExprQueries ==
  {NewQuery(<<f>>, <<None>>, <<None>>, << >>, agg, <<[table |-> "F", col |-> by]>>, << >>,
            <<HashAggregateOf(1)>>) :
     f \in Facts, agg \in {LeftExpr, RightExpr, AgainExpr, QuotientExpr}, by \in {"f1", "v"}}

\* Aggregate is undefined on no rows; these facts always join.
Joining == {f \in Facts : f.cols.f1[1][1] = 1}

HashJoinPlan(last) ==
  <<[kind |-> "hash_join", left |-> 1, right |-> 2, predicate |-> Pred1],
    [kind |-> "hash_join", left |-> 4, right |-> 3, predicate |-> Pred2], last>>

HashJoinQueries ==
  {NewQuery(<<f, Dim1, Dim2>>, <<VIs(1), where, None>>, Keyed, Preds, SumV, <<ByA>>, <<OrderA>>,
            HashJoinPlan(HashAggregateOf(5))) : f \in Facts, where \in {None, AIs1}}
  \cup
  {NewQuery(<<f, Dim1, Dim2>>, <<None, where, None>>, Unkeyed, Preds, agg, by, order,
            HashJoinPlan(AggregateOf(5))) :
     f \in Joining, where \in {None, AIs1}, agg \in {SumV, CountV, MeanV}, by \in {<< >>, <<ByA>>},
     order \in {<< >>, <<OrderSum>>}}

MultiwayQueries ==
  {NewQuery(<<f, Dim1, Dim2>>, <<where, AIs1, None>>, hashed, Preds, SumV, <<ByB, ByA>>, order,
            <<MultiwayJoin(<<1, 2, 3>>), HashAggregateOf(4)>>) :
     f \in Facts, where \in {None, VIs(1)}, hashed \in {Keyed, Unkeyed},
     order \in {<<OrderB, OrderSum>>, <<OrderSum>>}}
  \cup
  {NewQuery(<<f, Dim1, Dim2>>, <<None, None, None>>, Keyed, Preds, SumV, <<ByA, ByB>>, <<OrderB>>,
            <<MultiwayJoin(<<1, 2, 3>>), AggregateOf(4)>>) : f \in Joining}

StarQueries ==
  {NewQuery(<<f, Dim1, Dim2>>, <<None, AIs1, where>>, hashed, Preds, SumV, <<ByB, ByA>>, <<OrderA, OrderB>>,
            <<Star("lip"), MultiwayJoin(<<4>>), HashAggregateOf(5)>>) :
     f \in Facts, where \in {None, BIs1}, hashed \in {Keyed, Unkeyed}}
  \cup
  {NewQuery(<<f, Dim1, Dim2>>, <<None, AIs1, where>>, Keyed, Preds, SumV, <<ByB, ByA>>, <<OrderA, OrderB>>,
            <<Star("filter_join"), HashAggregateOf(4)>>) :
     f \in Facts, where \in {None, BIs1}}

\* One of the dimensions has no hash table for FilterJoin.
ThrowingQueries ==
  {NewQuery(<<f, Dim1, Dim2>>, <<None, None, None>>, <<None, Some("k1"), None>>, Preds, SumV, << >>, << >>,
            <<Star("filter_join"), HashAggregateOf(4)>>) : f \in Joining}

\* Few workers for the GROUP BY columns of joined tables, and for a LIP over a fact
\* table that has been joined.
FewWorkers ==
  LET fact == Fact(1, 2, 2)
      joined == Len(SelectSeq(FlattenSeq(fact.cols.f1), LAMBDA k : k # 9))
      lip == [Star("lip") EXCEPT !.inputs = <<4, 3>>, !.num_chunks = joined \div SliceLength + 1]
      multiway(last) == <<MultiwayJoin(<<1, 2, 3>>), last>>
  IN  {[NewQuery(<<fact, Dim1, Dim2>>, <<None, None, None>>, Keyed, Preds, SumV, by, << >>, steps)
          EXCEPT !.workers = n] :
         n \in 1 .. 3, by \in {<<ByA>>, <<ByA, ByB>>},
         steps \in {multiway(HashAggregateOf(4)), multiway(AggregateOf(4)), <<HashJoinPlan(lip)[1], lip>>}}

MCQueries ==
  SelectQueries \cup ExprQueries \cup HashJoinQueries \cup MultiwayQueries \cup StarQueries
    \cup ThrowingQueries \cup FewWorkers

\* The second join is with a dimension that has a WHERE clause and no hash table.
FilteredQueries ==
  {NewQuery(<<f, Dim1, Dim2>>, <<None, None, BIs1>>, Unkeyed, Preds, SumV, <<ByA>>, << >>,
            <<MultiwayJoin(<<1, 2, 3>>), HashAggregateOf(4)>>) : f \in Facts}

==============================================================================
