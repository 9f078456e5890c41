-------------------------------- MODULE Filter --------------------------------
(***************************************************************************)
(* Filter inputs: what filterCond compiles them to, evaluated as SQL does    *)
(* with its three truth values, and what they mean to a reader.             *)
(*                                                                         *)
(* A filter object is the set of its entries: lists of objects under "and"   *)
(* and "or", an object under "not", one operator of a column (a computed      *)
(* column is a column here), and the rows related by a foreign key with a     *)
(* quantifier ("forward" for the one row the key refers to).  A row is a     *)
(* table and the values of its columns.                                     *)
(***************************************************************************)
EXTENDS FiniteSetsExt

CONSTANTS
  Filters,     \* the filter objects in use and the objects within them
  FKs,         \* foreign keys: [table, column, ref, refColumn]
  NULL

Ops == {"isNull", "isNotNull", "in", "notIn", "equalTo", "notEqualTo", "greaterThan"}

ASSUME FilterAssumption ==
  \A f \in Filters : \A e \in f :
    /\ e.key \in {"and", "or", "not", "column", "relation"}
    /\ e.key = "column" => e.op \in Ops
    /\ e.key = "column" /\ e.op \in {"equalTo", "notEqualTo"} /\ e.val # NULL => \E v \in e.val : e.val = {v}
    /\ e.key \in {"and", "or"} => e.items \subseteq Filters
    /\ e.key \in {"not", "relation"} => e.item \in Filters
    /\ e.key = "relation" => e.fk \in FKs /\ e.quant \in {"forward", "some", "none", "every"}

\* The entries within an entry, and how deep those nest: a client's filter is finite.
Within(e) ==
  CASE e.key \in {"and", "or"} -> UNION e.items
    [] e.key \in {"not", "relation"} -> e.item
    [] OTHER -> {}
Nesting[e \in UNION Filters] == Max({0} \cup {1 + Nesting[d] : d \in Within(e)})

ASSUME NestingAssumption ==
  \A e \in UNION Filters : Nesting[e] \in Nat /\ \A d \in Within(e) : Nesting[d] < Nesting[e]
------------------------------------------------------------------------------
\* The three values of SQL.
T == "true"
F == "false"
N == "null"

And3(values) == IF F \in values THEN F ELSE IF N \in values THEN N ELSE T
Or3(values) == IF T \in values THEN T ELSE IF N \in values THEN N ELSE F
Not3(v) == IF v = T THEN F ELSE IF v = F THEN T ELSE N
Bool3(b) == IF b THEN T ELSE F

\* ref <op> $n, for a column value x and the set v of the operand's values (a
\* single one for a scalar operator; isNull: false is "isNotNull").
OneOp(op, x, v) ==
  CASE op = "isNull" -> Bool3(x = NULL)
    [] op = "isNotNull" -> Bool3(x # NULL)
    [] op = "in" -> IF v = {} THEN F ELSE IF x = NULL THEN N ELSE Bool3(x \in v)
    [] op = "notIn" -> IF v = {} THEN T ELSE IF x = NULL THEN N ELSE Bool3(x \notin v)
    [] op = "equalTo" -> IF x = NULL THEN N ELSE Bool3(v = {x})
    [] op = "notEqualTo" -> IF x = NULL THEN N ELSE Bool3(v # {x})
    [] op = "greaterThan" -> IF x = NULL THEN N ELSE Bool3(\A y \in v : x > y)

\* The rows a relation entry joins to a row; "=" never joins NULLs.
Joined(rows, e, row) ==
  LET fk == e.fk IN
    IF e.quant = "forward"
    THEN {x \in rows : x.table = fk.ref /\ row.val[fk.column] # NULL
                       /\ x.val[fk.refColumn] = row.val[fk.column]}
    ELSE {x \in rows : x.table = fk.table /\ x.val[fk.column] # NULL
                       /\ x.val[fk.column] = row.val[fk.refColumn]}

\* MUTANT of Quantified: every is read as some.
QuantifiedEverySome(quant, values) ==
  CASE quant \in {"forward", "some", "every"} -> Bool3(T \in values)
    [] quant = "none" -> Bool3(T \notin values)

\* The subquery of a relation entry, from the values of its condition on the
\* joined rows: EXISTS(true), NOT EXISTS(true), NOT EXISTS(NOT condition true).
Quantified(quant, values) ==
  CASE quant \in {"forward", "some"} -> Bool3(T \in values)
    [] quant = "none" -> Bool3(T \notin values)
    [] quant = "every" -> Bool3(F \notin values)

\* Whether an entry compiles to a condition at all: null operands, empty
\* objects and empty lists leave no text behind.
HasCond[e \in UNION Filters] ==
  CASE e.key \in {"and", "or"} -> \E g \in e.items : \E d \in g : HasCond[d]
    [] e.key = "not" -> \E d \in e.item : HasCond[d]
    [] e.key = "column" -> e.val # NULL
    [] e.key = "relation" -> e.quant = "every" => \E d \in e.item : HasCond[d]

Parts(f) == {e \in f : HasCond[e]}
NonEmpty(items) == {g \in items : Parts(g) # {}}

\* The value of an entry on a row; an object is the conjunction of its parts.
EntryCond(rows) ==
  LET
    cond[e \in UNION Filters] == [row \in rows |->
      LET object(g, x) == And3({cond[d][x] : d \in Parts(g)}) IN
      CASE e.key = "and" -> And3({object(g, row) : g \in NonEmpty(e.items)})
        [] e.key = "or" -> Or3({object(g, row) : g \in NonEmpty(e.items)})
        [] e.key = "not" -> Not3(object(e.item, row))
        [] e.key = "column" -> OneOp(e.op, row.val[e.column], e.val)
        [] e.key = "relation" -> Quantified(e.quant, {object(e.item, x) : x \in Joined(rows, e, row)})]
  IN cond

\* filterCond: the conjunction of the parts, and WHERE keeps the rows for which
\* it is true; an object without parts leaves every row.
Selected(rows, t, f) ==
  {row \in rows : row.table = t /\ \A e \in Parts(f) : EntryCond(rows)[e][row] = T}
------------------------------------------------------------------------------
\* What an object says in words, with two truth values and nothing dropped: a
\* comparison with NULL does not hold, an empty object asks for nothing.
SaysOp(op, x, v) ==
  CASE op = "isNull" -> x = NULL
    [] op = "isNotNull" -> x # NULL
    [] op \in {"in", "equalTo"} -> x # NULL /\ x \in v
    [] op = "notIn" -> v = {} \/ (x # NULL /\ x \notin v)
    [] op = "notEqualTo" -> x # NULL /\ x \notin v
    [] op = "greaterThan" -> x # NULL /\ \A y \in v : x > y

Says(rows) ==
  LET
    says[e \in UNION Filters] == [row \in rows |->
      LET object(g, x) == \A d \in g : says[d][x] IN
      CASE e.key = "and" -> \A g \in e.items : object(g, row)
        [] e.key = "or" -> \E g \in e.items : object(g, row)
        [] e.key = "not" -> ~object(e.item, row)
        [] e.key = "column" -> SaysOp(e.op, row.val[e.column], e.val)
        [] e.key = "relation" /\ e.quant \in {"forward", "some"} -> \E x \in Joined(rows, e, row) : object(e.item, x)
        [] e.key = "relation" /\ e.quant = "none" -> \A x \in Joined(rows, e, row) : ~object(e.item, x)
        [] e.key = "relation" /\ e.quant = "every" -> \A x \in Joined(rows, e, row) : object(e.item, x)]
  IN says
Meant(rows, t, f) == {row \in rows : row.table = t /\ \A e \in f : Says(rows)[e][row]}

\* An entry that loses no alternative and no negation with what is dropped.
Complete[e \in UNION Filters] ==
  /\ e.key = "column" => e.val # NULL
  /\ e.key = "or" => e.items # {} /\ \A g \in e.items : Parts(g) # {}
  /\ e.key = "not" => Parts(e.item) # {}
  /\ e.key \in {"and", "or"} => \A g \in e.items : \A d \in g : Complete[d]
  /\ e.key \in {"not", "relation"} => \A d \in e.item : Complete[d]

\* An object that negates no condition: NULL cannot turn into a match.
Positive[e \in UNION Filters] ==
  /\ e.key # "not" /\ ~(e.key = "relation" /\ e.quant = "every")
  /\ e.key \in {"and", "or"} => \A g \in e.items : \A d \in g : Positive[d]
  /\ e.key = "relation" => \A d \in e.item : Positive[d]
=============================================================================
