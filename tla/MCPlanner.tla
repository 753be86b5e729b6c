------------------------------- MODULE MCPlanner -------------------------------
(* The planner on queries of up to four tables and four terms of WHERE.       *)
EXTENDS Planner

CONSTANTS MaxTerms

MCRows == [A |-> 4, B |-> 3, C |-> 2, D |-> 2]

Cursor(from, t) == CHOOSE i \in 0 .. Len(from) - 1 : from[i + 1] = t

Column(from, t, c, i) ==
  [op |-> "COLUMN", table |-> t, col_name |-> c, iColumn |-> i, iTable |-> Cursor(from, t)]

Int64(v) == [op |-> "INTEGER", value |-> v]

Expr(op, l, t) == [op |-> op, pLeft |-> l, pRight |-> t]

\* A term of WHERE: a join of two tables, or a filter of one.
JoinTerms == {<<"join", "A", "B">>, <<"join", "C", "A">>, <<"join", "B", "C">>,
              <<"join", "A", "D">>, <<"join", "C", "D">>}
FilterTerms == {<<"EQ", "A">>, <<"LT", "A">>, <<"BETWEEN", "A">>, <<"OR", "A">>,
                <<"EQ", "B">>, <<"OR", "B">>, <<"EQ", "C">>, <<"IN", "B">>}

TablesOf(term) == {term[i] : i \in 2 .. Len(term)}

Term(from, term) ==
  LET Col(t, c) == Column(from, t, c, 1)
      t == term[2]
  IN CASE term[1] = "join" -> Expr("EQ", Col(t, "key"), Col(term[3], "key"))
       [] term[1] = "BETWEEN" -> [op |-> "BETWEEN", pLeft |-> Col(t, "v"), pRight |-> NoExpr,
                                  low |-> Int64(1), high |-> Int64(2)]
       [] term[1] = "OR" -> Expr("OR", Expr("EQ", Col(t, "w"), Int64(1)),
                                       Expr("EQ", Col(t, "w"), Int64(2)))
       [] OTHER -> Expr(term[1], Col(t, "v"), Int64(3))

\* The sequences of different terms, the joins at most three.
Clauses ==
  UNION {{s \in [1 .. n -> JoinTerms \cup FilterTerms] :
            /\ \A i, j \in 1 .. n : i # j => s[i] # s[j]
            /\ \E i \in 1 .. n : s[i] \in JoinTerms} : n \in 1 .. MaxTerms}

Upward(ts) == SelectSeq(<<"A", "B", "C", "D">>, LAMBDA t : t \in ts)

Conjunction(from, s) ==
  FoldLeft(LAMBDA e, term : Expr("AND", e, Term(from, term)), Term(from, s[1]), Tail(s))

Aggregate(func, arg) == [op |-> "AGG_FUNCTION", func |-> func, arg |-> arg, alias |-> "total"]

\* The select lists: an aggregate of a column or an expression, columns only, and
\* what is not supported.
Lists(from) ==
  LET v == Column(from, from[1], "v", 1)
      key == Column(from, from[1], "key", 0)
      times == Expr("STAR", v, key)
  IN {<<v, Aggregate("SUM", v)>>, <<Aggregate("SUM", times)>>, <<Aggregate("COUNT", key)>>,
      <<v>>, <<Aggregate("MAX", v)>>, <<Aggregate("SUM", Int64(1))>>, <<times>>,
      <<Column(from, from[1], "rowid", -1)>>, <<Aggregate("SUM", v), Aggregate("MEAN", v)>>}

Query(from, where, list, order, form) ==
  [from |-> from, where |-> where, list |-> list, form |-> form,
   group |-> SelectSeq(list, LAMBDA e : e.op = "COLUMN"),
   order |-> IF order THEN [k \in DOMAIN list |-> [expr |-> list[k], iOrderByCol |-> k, desc |-> FALSE]]
             ELSE << >>]

Tables(s) == UNION {TablesOf(s[i]) : i \in DOMAIN s}

Plain(from) ==
  <<Column(from, from[1], "v", 1), Aggregate("SUM", Column(from, from[1], "v", 1))>>

\* The tables of FROM in either order with one list, and short clauses with all.
MCInit ==
  \E s \in Clauses :
    \/ \E from \in {Upward(Tables(s)), Reverse(Upward(Tables(s)))} :
         Init(Query(from, Conjunction(from, s), Plain(from), FALSE, "plain"))
    \/ /\ Len(s) <= 2 /\ s[1] \in JoinTerms
       /\ \E from \in {Upward(Tables(s))} : \E list \in Lists(from), form \in {"plain", "having"} :
            Init(Query(from, Conjunction(from, s), list, TRUE, form))

Spec == MCInit /\ [][Next]_vars

==============================================================================
