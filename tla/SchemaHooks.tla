----------------------------- MODULE SchemaHooks -----------------------------
(***************************************************************************)
(* The built-in plugins' catalog and schema hooks, and internal/plugin,    *)
(* which runs the enabled ones in the order of their priorities.           *)
(*                                                                         *)
(* p is what the plugin instances remember of a catalog and outlives a     *)
(* build: smart-comments' index of tags and simple-names' count of foreign *)
(* keys.  The specs of nested-mutations, which no hook reads, are not part *)
(* of it.  config has the plugins disabled and opts.                       *)
(***************************************************************************)
EXTENDS SchemaBuild

Priority ==
  [plugin \in {"smart-comments", "simple-names", "advanced-filters", "nested-mutations"} |->
     CASE plugin = "smart-comments" -> 50 [] plugin = "simple-names" -> 100
       [] plugin = "advanced-filters" -> 150 [] plugin = "nested-mutations" -> 200]
Enabled(disabled) ==
  LET on == DOMAIN Priority \ disabled
      before(x) == {y \in on : Priority[y] < Priority[x]}
  IN [i \in 1..Cardinality(on) |-> CHOOSE x \in on : Cardinality(before(x)) = i - 1]

NoIndex == [tables |-> << >>, columns |-> << >>, enums |-> << >>, functions |-> << >>, constraints |-> << >>]
NewPlugins(config) ==
  [order |-> Enabled(config.disabled), index |-> NoIndex, fkCount |-> << >>]

\* Builder entries leave in place, by name or by what they are bound to.
Without(f, Drop(_)) == [x \in {y \in DOMAIN f : ~Drop(f[y])} |-> f[x]]
RemoveFields(b, Drop(_)) == [b EXCEPT !.objects = [o \in DOMAIN @ |-> Without(@[o], Drop)]]
RemoveArgsOfType(b, name) ==
  LET without(f) == [f EXCEPT !.args = Without(@, LAMBDA type : type = name)]
  IN [b EXCEPT !.objects = [o \in DOMAIN @ |-> [f \in DOMAIN @[o] |-> without(@[o][f])]]]
Delete(f, x) == [y \in DOMAIN f \ {x} |-> f[y]]
\* MUTANT of RemoveInputType: the arguments of the type stay.
RemoveInputTypeAlone(b, name) == [b EXCEPT !.inputs = Delete(@, name)]
RemoveInputType(b, name) ==
  IF name \in DOMAIN b.inputs THEN RemoveArgsOfType([b EXCEPT !.inputs = Delete(@, name)], name) ELSE b
------------------------------------------------------------------------------
\* smart-comments, TransformCatalog.  A logical constraint is named after the
\* value of its tag; one of a @foreignKey brings the tags written behind it.
LogicalName(tag, cols) == <<tag>> \o ByColumns(cols)
LogicalFks(c, t, tags) ==
  LET fk(d) == [name |-> LogicalName("@foreignKey", d.columns) \o d.ref[2] \o ByColumns(d.refColumns),
                columns |-> d.columns, ref |-> d.ref, refColumns |-> d.refColumns, tags |-> NoTags]
      sound == SelectSeq(tags.foreignKey, LAMBDA d :
                 /\ d.columns # << >> /\ Len(d.columns) = Len(d.refColumns) /\ ColumnsExist(t, d.columns)
                 /\ d.ref \in Keys(c) /\ ColumnsExist(Table(c, d.ref), d.refColumns))
  IN [i \in DOMAIN sound |-> [fk |-> fk(sound[i]), tags |-> sound[i].tags]]

ApplyTableTags(p, c, t) ==
  LET tags == TableTags(p, t.schema, t.name)
      logical == LogicalFks(c, t, tags)
      uniques == SelectSeq(tags.unique, LAMBDA cols : cols # << >> /\ ColumnsExist(t, cols))
      kept(con) == ~OmitsAll(ConstraintTags(p, t.schema, con.name))
      withdrawn == {right \in t.privileges :
                      (CASE right = "insert" -> "create" [] OTHER -> right) \in Omits(tags)}
      filterable == {col \in ColumnNames(t) : ColumnTags(p, t.schema, t.name, col).filterable}
  IN [t EXCEPT
       !.privileges = @ \ withdrawn,
       !.primaryKey = IF @ = << >> /\ ColumnsExist(t, tags.primaryKey) THEN tags.primaryKey ELSE @,
       !.uniques = SelectSeq(@ \o [i \in DOMAIN uniques |->
                       [name |-> LogicalName("@unique", uniques[i]), columns |-> uniques[i], tags |-> NoTags]], kept),
       !.indexed = @ \cup filterable,
       !.fks = SelectSeq(@ \o [i \in DOMAIN logical |-> logical[i].fk], kept)]

\* The index of a catalog, and the catalog without what is omitted altogether.
Commented(c) ==
  LET known == [index |-> IndexTags(c)]
      shown == [c EXCEPT !.tables = SelectSeq(@, LAMBDA t : ~OmitsAll(TableTags(known, t.schema, t.name)))]
      entries(t) == LET fks == LogicalFks(shown, t, TableTags(known, t.schema, t.name))
                    IN [i \in DOMAIN fks |-> [key |-> <<t.schema, fks[i].fk.name>>, tags |-> fks[i].tags]]
      logical == FlattenSeq([i \in DOMAIN shown.tables |-> entries(shown.tables[i])])
      both == [known EXCEPT !.index.constraints = FoldLeft(AddTags, @, logical)]
  IN [index |-> both.index,
      c |-> [shown EXCEPT
              !.tables = [i \in DOMAIN @ |-> ApplyTableTags(both, shown, @[i])],
              !.functions = SelectSeq(@, LAMBDA f : ~OmitsAll(FunctionTags(both, f.schema, f.name)))]]
SmartCatalog(p, c) ==
  LET told == Commented(c) IN [p |-> [p EXCEPT !.index = told.index], c |-> told.c]

\* MUTANT of SimpleCatalog: what an earlier build captured is kept.
SimpleCatalogKept(p, c) ==
  [p |-> [p EXCEPT !.fkCount = @ @@ [key \in Keys(c) |-> Len(Table(c, key).fks)]], c |-> c]
\* MUTANT of SimpleCatalog: the tables referred to are counted.
SimpleCatalogParents(p, c) ==
  [p |-> [p EXCEPT !.fkCount = [key \in Keys(c) |-> Cardinality({fk.ref : fk \in ToSet(Table(c, key).fks)})]], c |-> c]
\* simple-names captures the catalog, of which it uses the number of foreign keys.
SimpleCatalog(p, c) ==
  [p |-> [p EXCEPT !.fkCount = [key \in Keys(c) |-> Len(Table(c, key).fks)]], c |-> c]

\* Registry.TransformCatalog
CatalogHook(acc, plugin) ==
  CASE plugin = "smart-comments" -> SmartCatalog(acc.p, acc.c)
    [] plugin = "simple-names" -> SimpleCatalog(acc.p, acc.c)
    [] OTHER -> acc
TransformCatalog(p, c) == FoldLeft(CatalogHook, [p |-> p, c |-> c], p.order)
------------------------------------------------------------------------------
\* smart-comments, TransformSchema: applyTableOmits, applyColumnTags and
\* applyRelationOmits of each table.
ApplyTableOmits(p, b, t) ==
  LET omits == Omits(TableTags(p, t.schema, t.name))
      of(f, kind) == f.table = Key(t) /\ f.kind = kind
      queries == [b EXCEPT !.objects[<<"query">>] = Without(@, LAMBDA f :
                    \/ of(f, "connection_query") /\ omits \cap {"read", "all"} # {}
                    \/ of(f, "row_by_key") /\ "read" \in omits)]
      many == IF "many" \in omits THEN RemoveFields(queries, LAMBDA f : of(f, "relation_backward")) ELSE queries
      filter == IF "filter" \in omits THEN RemoveInputType(many, TableName(p, "filter", t)) ELSE many
      order == TableName(p, "order_by", t)
  IN IF "order" \in omits THEN RemoveArgsOfType([filter EXCEPT !.enums = Delete(@, order)], order) ELSE filter

\* An output field stays when it is the last of its type.
RemoveColumnField(fields, t, col) ==
  IF Cardinality(DOMAIN fields) = 1 THEN fields
  ELSE Without(fields, LAMBDA f : f.kind = "column" /\ f.table = Key(t) /\ f.column = col)
Renames(values, col, new) ==
  {IF v.column = col THEN [v EXCEPT !.value = new \o SubSeq(@, Len(col) + 1, Len(@))] ELSE v : v \in values}
ApplyColumnTag(p, b, t, col) ==
  LET tags == ColumnTags(p, t.schema, t.name, col)
      omitted(action) == {"everything", action} \cap Omits(tags) # {}
      object == b.typeFor[Key(t)]
      order == TableName(p, "order_by", t)
      drop(inputs, kind, action) ==
        LET name == TableName(p, kind, t) IN
        IF omitted(action) /\ name \in DOMAIN inputs
        THEN [inputs EXCEPT ![name] = Without(@, LAMBDA f : f.column = col)] ELSE inputs
      kept(values) == IF omitted("order") THEN {v \in values : v.column # col} ELSE values
  IN [b EXCEPT
       !.objects = IF omitted("read") THEN [@ EXCEPT ![object] = RemoveColumnField(@, t, col)] ELSE @,
       !.inputs = drop(drop(drop(@, "create_input", "create"), "update_input", "update"), "filter", "filter"),
       !.enums = IF order \in DOMAIN @ THEN [@ EXCEPT ![order] = Renames(kept(@), col, Renamed(tags, col))] ELSE @]
ApplyRelationOmits(p, b, t) ==
  LET few == {FkId(t, fk) : fk \in {k \in ToSet(t.fks) : "many" \in Omits(ConstraintTags(p, t.schema, k.name))}}
  IN RemoveFields(b, LAMBDA f : f.kind = "relation_backward" /\ f.fk \in few)

SmartSchema(p, c, b) ==
  LET table(acc, t) ==
        LET columns == FoldLeft(LAMBDA b1, col : ApplyColumnTag(p, b1, t, col.name), ApplyTableOmits(p, acc, t), t.columns)
        IN ApplyRelationOmits(p, columns, t)
  IN FoldLeft(table, b, c.tables)
------------------------------------------------------------------------------
\* advanced-filters reads the tags off the constraint or function itself.
FilterOmits(opts, tags, action) ==
  {"everything", action} \cap Omits(tags) # {} \/ (opts.optIn /\ ~tags.filterable)

AddFilterRelation(b, filter, other, name, fk, related, forward) ==
  LET toMany == b.typeFor[Key(related)] \o <<"to", "many", "filter">>
      quantified == [q \in {<<"some">>, <<"none">>, <<"every">>} |-> InputField(other)]
      field == [InputField(IF forward THEN other ELSE toMany)
                  EXCEPT !.relation = [forward |-> forward, fk |-> fk, table |-> Key(related), filter |-> other]]
      inputs == IF forward THEN b.inputs ELSE Keep(b.inputs, toMany, quantified)
  IN IF {filter, other} \subseteq DOMAIN b.inputs /\ name \notin DOMAIN b.inputs[filter]
     THEN [b EXCEPT !.inputs = [inputs EXCEPT ![filter] = Put(@, name, field)]]
     ELSE b
AddRelationFilters(p, c, opts, b, t) ==
  LET filter == TableName(p, "filter", t)
      shown(fk) == ~FilterOmits(opts, fk.tags, "filter")
  IN FoldLeft(LAMBDA acc, r :
                AddFilterRelation(acc, filter, TableName(p, "filter", r.child), BackwardName(p, r.child, r.fk),
                                  FkId(r.child, r.fk), r.child, FALSE),
              FoldLeft(LAMBDA acc, fk :
                         AddFilterRelation(acc, filter, TableName(p, "filter", Table(c, fk.ref)), ForwardName(p, t, fk),
                                           FkId(t, fk), Table(c, fk.ref), TRUE),
                       b, SelectSeq(t.fks, LAMBDA fk : shown(fk) /\ fk.ref \in Keys(c))),
              SelectSeq(References(c, t), LAMBDA r : shown(r.fk)))

AddComputedFilter(opts, b, f, name, filter, type) ==
  IF FilterOmits(opts, f.tags, "filter") \/ filter \notin DOMAIN b.inputs THEN b
  ELSE IF name \in DOMAIN b.inputs[filter] THEN b
  ELSE [AddOps(b, type) EXCEPT !.inputs[filter] = Put(@, name, [InputField(OpsInput(type)) EXCEPT !.computed = f])]
AddComputedOrder(opts, b, f, name, order) ==
  LET values == {[value |-> name \o d, column |-> None, computed |-> f] : d \in Directions}
      present == {v.value : v \in Get(b.enums, order, {})}
  IN IF FilterOmits(opts, f.tags, "order") \/ order \notin DOMAIN b.enums
        \/ {v.value : v \in values} \cap present # {} THEN b
     ELSE [b EXCEPT !.enums[order] = @ \cup values]
AddComputed(p, c, opts, b, f) ==
  LET t == Table(c, f.args[1].type)
      name == FunctionName(p, "computed", t.name, f)
  IN AddComputedOrder(opts, AddComputedFilter(opts, b, f, name, TableName(p, "filter", t), GqlType(p, c, b, f.returns)),
                      f, name, TableName(p, "order_by", t))

AdvancedSchema(p, c, opts, b) ==
  LET eligible(f) ==
        /\ Len(f.args) = 1 /\ ~f.set /\ ~f.volatile /\ f.returns[2] # <<"void">>
        /\ f.args[1].type \in Keys(c)
        /\ f.returns \notin Keys(c) \cup {<<ct.schema, ct.name>> : ct \in ToSet(c.composites)}
      functions == IF opts.functions THEN SelectSeq(c.functions, eligible) ELSE << >>
  IN FoldLeft(LAMBDA acc, f : AddComputed(p, c, opts, acc, f),
              FoldLeft(LAMBDA acc, t : AddRelationFilters(p, c, opts, acc, t), b, c.tables), functions)
------------------------------------------------------------------------------
\* nested-mutations: create and connect fields on the create inputs, and the specs
\* the plugin compiles them by.  acc has the builder b and the specs.
AddNested(acc, input, name, type, spec) ==
  [b |-> [acc.b EXCEPT !.inputs[input] = Put(@, name, [InputField(type) EXCEPT !.nested = TRUE])],
   specs |-> Put(acc.specs, <<input, name>>, spec)]
\* The columns of a key may now come from the nested input.
Optional(p, acc, input, t, fk) ==
  LET names == {FieldName(p, "", t, fk.columns[i]) : i \in DOMAIN fk.columns} IN
  [acc EXCEPT !.b.inputs[input] =
    [n \in DOMAIN @ |-> IF n \in names THEN [@[n] EXCEPT !.required = FALSE] ELSE @[n]]]
NestField(p, acc, input, name, type, spec, child, fk) ==
  IF name \in DOMAIN acc.b.inputs[input] THEN acc
  ELSE Optional(p, AddNested(acc, input, name, type, spec), TableName(p, "create_input", child), child, fk)

\* ensureConnectInput, which is made for the first key that refers to the parent.
ConnectInput(b, parent) == b.typeFor[Key(parent)] \o <<"connect", "input">>
EnsureConnect(p, b, parent, fk) ==
  LET type(col) ==
        LET shown == {f \in Range(b.objects[b.typeFor[Key(parent)]]) : f.kind = "column" /\ f.column = col}
        IN IF shown = {} THEN StringType ELSE (CHOOSE f \in shown : TRUE).type
      add(fs, col) == Put(fs, FieldName(p, "", parent, col),
                          [InputField(type(col)) EXCEPT !.column = col, !.required = TRUE])
  IN [b EXCEPT !.inputs = Keep(@, ConnectInput(b, parent), FoldLeft(add, << >>, fk.refColumns))]

EnsureNestedInput(p, b, type, parent, fk) ==
  LET parentInput == TableName(p, "create_input", parent)
      create == IF parentInput \in DOMAIN b.inputs /\ Insertable(parent)
                THEN <<"create">> :> InputField(parentInput) ELSE << >>
  IN IF type \in DOMAIN b.inputs THEN b
     ELSE AddInput(EnsureConnect(p, b, parent, fk), type, (<<"connect">> :> InputField(ConnectInput(b, parent))) @@ create)

NestForward(p, c, acc, t, fk, name) ==
  LET type == acc.b.typeFor[Key(t)] \o name \o <<"nested", "input">> IN
  NestField(p, [acc EXCEPT !.b = EnsureNestedInput(p, @, type, Table(c, fk.ref), fk)],
            TableName(p, "create_input", t), name, type, [forward |-> TRUE, fk |-> FkId(t, fk)], t, fk)

NestBackward(p, acc, t, r, name) ==
  LET childInput == TableName(p, "create_input", r.child)
      type == acc.b.typeFor[Key(r.child)] \o name \o <<"nested", "children", "input">>
  IN IF childInput \notin DOMAIN acc.b.inputs THEN acc
     ELSE NestField(p, [acc EXCEPT !.b.inputs = Keep(@, type, <<"create">> :> InputField(childInput))],
                    TableName(p, "create_input", t), name, type, [forward |-> FALSE, fk |-> FkId(r.child, r.fk)],
                    r.child, r.fk)

NestTable(p, c, acc, t) ==
  LET refs == SelectSeq(References(c, t), LAMBDA r : Insertable(r.child)) IN
  IF ~Insertable(t) \/ TableName(p, "create_input", t) \notin DOMAIN acc.b.inputs THEN acc
  ELSE FoldLeft(LAMBDA a, r : NestBackward(p, a, t, r, BackwardName(p, r.child, r.fk)),
                FoldLeft(LAMBDA a, fk : NestForward(p, c, a, t, fk, ForwardName(p, t, fk)), acc,
                         SelectSeq(t.fks, LAMBDA fk : fk.ref \in Keys(c))),
                refs)

\* The builder, and the specs of this build.
NestedSchema(p, c, b) == FoldLeft(LAMBDA acc, t : NestTable(p, c, acc, t), [b |-> b, specs |-> << >>], c.tables)
\* MUTANT of Remember: every build starts its specs anew.
RememberAnew(known, added) == IF added = << >> THEN known ELSE added
\* The specs of the plugin are only ever added to.
Remember(known, added) == added @@ known
------------------------------------------------------------------------------
\* One schema hook, and the hooks still to run, as Registry.TransformSchema runs them.
SchemaHook(plugin, p, c, opts, b) ==
  LET only(end) == [b |-> end, specs |-> << >>] IN
  CASE plugin = "smart-comments" -> only(SmartSchema(p, c, b))
    [] plugin = "advanced-filters" -> only(AdvancedSchema(p, c, opts, b))
    [] plugin = "nested-mutations" -> NestedSchema(p, c, b)
    [] OTHER -> only(b)
RunHooks(todo, p, c, opts, b) ==
  FoldLeft(LAMBDA acc, plugin : SchemaHook(plugin, p, c, opts, acc).b, b, todo)
TransformSchema(p, c, opts, b) == RunHooks(p.order, p, c, opts, b)

\* The whole of BuildSchema for a catalog as introspected, by plugins p.
BuildSchema(p, c, opts) ==
  LET built(shaped) == Printed(TransformSchema(shaped.p, shaped.c, opts, New(shaped.p, shaped.c, opts)))
  IN built(TransformCatalog(p, c))
=============================================================================
