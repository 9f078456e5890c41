----------------------------- MODULE SchemaBuild -----------------------------
(***************************************************************************)
(* internal/schema: the Builder, which generates objects, inputs and enums *)
(* from a catalog, and Build, which accepts them or not.                   *)
(*                                                                         *)
(* A catalog has tables, enums, composites and functions; a PostgreSQL     *)
(* type is <<schema, name>>, and so is the key of a table.  Types are      *)
(* written without their lists and their "!" (an input field says whether  *)
(* it is required).  p is what the plugins know, opts the options, b the   *)
(* builder.                                                                *)
(***************************************************************************)
EXTENDS SchemaNames

Key(t) == <<t.schema, t.name>>
Keys(c) == {Key(c.tables[i]) : i \in DOMAIN c.tables}
Table(c, key) == CHOOSE t \in ToSet(c.tables) : Key(t) = key
ColumnNames(t) == {t.columns[i].name : i \in DOMAIN t.columns}
Column(t, name) == t.columns[CHOOSE i \in DOMAIN t.columns : t.columns[i].name = name]
ColumnsExist(t, cols) == ToSet(cols) \subseteq ColumnNames(t)

Insertable(t) == t.kind = "table" /\ "insert" \in t.privileges
Updatable(t) == t.kind = "table" /\ "update" \in t.privileges
Deletable(t) == t.kind = "table" /\ "delete" \in t.privileges

None == << >>
IntType == <<"int">>
StringType == <<"string">>
BooleanType == <<"boolean">>
CursorType == <<"cursor">>
IdType == <<"id">>
Scalars == {IntType, StringType, BooleanType, IdType, CursorType, <<"float">>, <<"big", "int">>,
            <<"big", "float">>, <<"datetime">>, <<"date">>, <<"time">>, <<"uuid">>, <<"json">>}
ScalarOf == (<<"int4">> :> IntType) @@ (<<"int8">> :> <<"big", "int">>) @@ (<<"bool">> :> BooleanType)
         @@ (<<"jsonb">> :> <<"json">>) @@ (<<"date">> :> <<"date">>)
ScalarFor(name) == Get(ScalarOf, name, StringType)

\* A Field with its FieldMeta, an InputField, and the write access to the maps.
Field(kind, type) ==
  [kind |-> kind, type |-> type, table |-> None, column |-> None, fk |-> None, fn |-> None, args |-> << >>]
TableField(kind, type, t) == [Field(kind, type) EXCEPT !.table = Key(t)]
InputField(type) ==
  [type |-> type, column |-> None, required |-> FALSE, relation |-> None, computed |-> None, nested |-> FALSE]

AddRootField(b, object, name, f) == [b EXCEPT !.objects[object] = Keep(@, name, f)]
AddInput(b, name, fields) == [b EXCEPT !.inputs = Put(@, name, fields)]
Taken(b) == DOMAIN b.objects \cup DOMAIN b.enums \cup DOMAIN b.inputs
Suffixed(name, n) == name \o [i \in 1..n |-> "_"]
UniqueTypeName(b, name) ==
  Suffixed(name, CHOOSE n \in 0..Cardinality(Taken(b)) :
    /\ Suffixed(name, n) \notin Taken(b)
    /\ \A m \in 0..(n - 1) : Suffixed(name, m) \in Taken(b))

TableName(p, kind, t) == Inflect(p, kind, [NoInput EXCEPT !.schema = t.schema, !.table = t.name])
KeyName(p, kind, t, cols) ==
  Inflect(p, kind, [NoInput EXCEPT !.schema = t.schema, !.table = t.name, !.columns = cols])
PayloadName(p, t, verb) ==
  Inflect(p, "payload", [NoInput EXCEPT !.schema = t.schema, !.table = t.name, !.verb = verb])
\* Most call sites leave the schema out; addTables gives it.
FieldName(p, schema, t, col) ==
  Inflect(p, "field_name", [NoInput EXCEPT !.schema = schema, !.table = t.name, !.column = col])
ForwardName(p, t, fk) ==
  Inflect(p, "relation_forward",
    [NoInput EXCEPT !.schema = t.schema, !.table = fk.ref[2], !.column = fk.columns[1],
                    !.columns = fk.columns, !.constraint = fk.name])
BackwardName(p, child, fk) ==
  Inflect(p, "relation_backward",
    [NoInput EXCEPT !.schema = child.schema, !.table = child.name, !.columns = fk.columns,
                    !.constraint = fk.name])
FunctionName(p, kind, table, f) ==
  Inflect(p, kind, [NoInput EXCEPT !.schema = f.schema, !.table = table, !.name = f.name])
EnumName(p, e) == Inflect(p, "enum", [NoInput EXCEPT !.schema = e.schema, !.name = e.name])

\* gqlTypeForColumn and gqlInputTypeForColumn.
GqlType(p, c, b, type) ==
  LET enums == {e \in ToSet(c.enums) : <<e.schema, e.name>> = type} IN
  IF enums # {} THEN EnumName(p, CHOOSE e \in enums : TRUE)
  ELSE Get(b.typeForComposite, type, ScalarFor(type[2]))
GqlInputType(p, c, b, type) == Get(b.inputForComposite, type, GqlType(p, c, b, type))
------------------------------------------------------------------------------
AddEnum(p, b, e) ==
  [b EXCEPT !.enums = Put(@, EnumName(p, e), {[value |-> v, column |-> None, computed |-> None] : v \in e.values})]

NameComposite(p, b, ct) ==
  LET type == UniqueTypeName(b, TableName(p, "type_name", ct))
      b1 == [b EXCEPT !.objects = Put(@, type, << >>),
                      !.typeForComposite = Put(@, <<ct.schema, ct.name>>, type)]
      input == UniqueTypeName(b1, Append(type, "input"))
  IN [AddInput(b1, input, << >>) EXCEPT !.inputForComposite = Put(@, <<ct.schema, ct.name>>, input)]
FillComposite(p, c, b, ct) ==
  LET add(acc, f) ==
        LET name == FieldName(p, ct.schema, ct, f.name) IN
        [acc EXCEPT
          !.objects[b.typeForComposite[<<ct.schema, ct.name>>]] =
            Put(@, name, Field("composite_field", GqlType(p, c, b, f.type))),
          !.inputs[b.inputForComposite[<<ct.schema, ct.name>>]] =
            Put(@, name, [InputField(GqlInputType(p, c, b, f.type)) EXCEPT !.column = f.name])]
  IN FoldLeft(add, b, ct.columns)
AddComposites(p, c, b) ==
  FoldLeft(LAMBDA acc, ct : FillComposite(p, c, acc, ct),
           FoldLeft(LAMBDA acc, ct : NameComposite(p, acc, ct), b, c.composites), c.composites)

\* addNode
AddNode(c, b) ==
  IF \A t \in ToSet(c.tables) : t.primaryKey = << >> THEN b
  ELSE AddRootField([b EXCEPT !.objects = Put(@, <<"node">>, <<"node", "id">> :> Field("node_id", IdType))],
                    <<"query">>, <<"node">>,
                    [Field("node", <<"node">>) EXCEPT !.args = <<"node", "id">> :> IdType])

\* addTables, first pass: the object type, its columns and its nodeId.
AddType(p, c, b, t) ==
  LET type == UniqueTypeName(b, TableName(p, "type_name", t))
      columns == FoldLeft(LAMBDA fs, col :
                   Put(fs, FieldName(p, t.schema, t, col.name),
                       [TableField("column", GqlType(p, c, b, col.type), t) EXCEPT !.column = col.name]),
                   << >>, t.columns)
      node == IF t.primaryKey = << >> THEN << >> ELSE <<"node", "id">> :> TableField("node_id", IdType, t)
  IN [b EXCEPT !.typeFor = Put(@, Key(t), type), !.objects = Put(@, type, columns @@ node)]

\* filterableColumns
Indexed(t) ==
  t.indexed \cup {k[1] : k \in {con.columns : con \in ToSet(t.uniques)} \cup ({t.primaryKey} \ {<< >>})}
Filterable(opts, b, t) ==
  SelectSeq(t.columns, LAMBDA col :
    /\ opts.indexedOnly => col.name \in Indexed(t) \cup Get(opts.allow, Key(t), {})
    /\ col.type \notin DOMAIN b.typeForComposite)

\* FilterOpsInputFor: one input of operators per scalar, made on first use.
OpsInput(type) == type \o <<"filter", "ops">>
AddOps(b, type) ==
  [b EXCEPT !.inputs = Keep(@, OpsInput(type), (<<"equal", "to">> :> InputField(type)) @@ (<<"is", "null">> :> InputField(BooleanType)))]

\* addTables, second pass: addFilter, addOrderBy and addDistinctOn.
AddFilter(p, c, opts, b, t) ==
  LET name == TableName(p, "filter", t)
      cols == Filterable(opts, b, t)
      type(col) == GqlType(p, c, b, col.type)
      ops == FoldLeft(LAMBDA acc, col : AddOps(acc, type(col)), b, cols)
      logic == (<<"and">> :> InputField(name)) @@ (<<"or">> :> InputField(name)) @@ (<<"not">> :> InputField(name))
      field(fs, col) == Put(fs, FieldName(p, "", t, col.name),
                            [InputField(OpsInput(type(col))) EXCEPT !.column = col.name])
  IN IF cols = << >> THEN b ELSE AddInput(ops, name, FoldLeft(field, logic, cols))

Values(cols, suffixes) ==
  {[value |-> col.name \o s, column |-> col.name, computed |-> None] : col \in ToSet(cols), s \in suffixes}
Directions == {<<"asc">>, <<"desc">>}
AddEnumOf(b, name, values) == IF values = {} THEN b ELSE [b EXCEPT !.enums = Put(@, name, values)]
AddSurface(p, c, opts, b, t) ==
  LET cols == Filterable(opts, b, t) IN
  AddEnumOf(AddEnumOf(AddFilter(p, c, opts, b, t),
                      TableName(p, "order_by", t), Values(cols, Directions)),
            TableName(p, "distinct_on", t), Values(cols, {<< >>}))
------------------------------------------------------------------------------
\* listArgs and connectionArgs: the filter and orders that exist by their names.
PageArgs ==
  [a \in {<<"first">>, <<"last">>, <<"offset">>} |-> IntType] @@ [a \in {<<"before">>, <<"after">>} |-> CursorType]
ConnectionArgs(p, b, t) ==
  LET arg(name, type, declared) == IF type \in DOMAIN declared THEN name :> type ELSE << >>
  IN PageArgs
     @@ arg(<<"order", "by">>, TableName(p, "order_by", t), b.enums)
     @@ arg(<<"distinct", "on">>, TableName(p, "distinct_on", t), b.enums)
     @@ arg(<<"filter">>, TableName(p, "filter", t), b.inputs)

Connection(b, t) == Append(b.typeFor[Key(t)], "connection")
EnsureConnection(b, t) ==
  LET type == b.typeFor[Key(t)]
      edge == (<<"cursor">> :> Field("synthetic", CursorType)) @@ (<<"node">> :> TableField("synthetic", type, t))
      conn == (<<"nodes">> :> TableField("synthetic", type, t))
           @@ (<<"edges">> :> TableField("synthetic", Append(type, "edge"), t))
           @@ (<<"page", "info">> :> Field("synthetic", <<"page", "info">>))
           @@ (<<"total", "count">> :> Field("synthetic", IntType))
  IN IF Connection(b, t) \in DOMAIN b.objects THEN b
     ELSE [b EXCEPT !.objects = Put(Put(@, Append(type, "edge"), edge), Connection(b, t), conn)]

\* The foreign keys that point at t, in the order of the catalog.
FkId(t, fk) == <<Key(t), fk.name>>
References(c, t) ==
  LET of(child) ==
        LET fks == SelectSeq(child.fks, LAMBDA fk : fk.ref = Key(t))
        IN [i \in DOMAIN fks |-> [child |-> child, fk |-> fks[i]]]
  IN FlattenSeq([i \in DOMAIN c.tables |-> of(c.tables[i])])

\* addRelations.  A forward relation makes way for a field of its name, a backward
\* one is dropped.
AddForward(p, c, b, t) ==
  LET object == b.typeFor[Key(t)]
      free(fields, name) == IF name \in DOMAIN fields THEN Append(name, "row") ELSE name
  IN FoldLeft(LAMBDA acc, fk :
                AddRootField(acc, object, free(acc.objects[object], ForwardName(p, t, fk)),
                  [Field("relation_forward", b.typeFor[fk.ref]) EXCEPT !.table = fk.ref, !.fk = FkId(t, fk)]),
              b, SelectSeq(t.fks, LAMBDA fk : fk.ref \in Keys(c)))
AddBackward(p, c, b, t) ==
  FoldLeft(LAMBDA acc, r :
             AddRootField(EnsureConnection(acc, r.child), b.typeFor[Key(t)], BackwardName(p, r.child, r.fk),
               [TableField("relation_backward", Connection(acc, r.child), r.child)
                  EXCEPT !.fk = FkId(r.child, r.fk), !.args = ConnectionArgs(p, acc, r.child)]),
           b, References(c, t))
AddRelations(p, c, b, t) == AddBackward(p, c, AddForward(p, c, b, t), t)

\* The keys of a table (their columns exist), and one root field for each.
KeyTargets(t) ==
  LET key(cols, pk) == [columns |-> cols, pk |-> pk]
  IN (IF t.primaryKey = << >> THEN << >> ELSE <<key(t.primaryKey, TRUE)>>)
     \o [i \in DOMAIN t.uniques |-> key(t.uniques[i].columns, FALSE)]
ByKeyName(p, kinds, t, k) == KeyName(p, IF k.pk THEN kinds[1] ELSE kinds[2], t, k.columns)
KeyArgs(p, c, b, t, k) ==
  FoldLeft(LAMBDA args, col : Put(args, FieldName(p, "", t, col), GqlInputType(p, c, b, Column(t, col).type)),
           << >>, k.columns)

AddQueries(p, c, b, t) ==
  FoldLeft(LAMBDA acc, k :
             AddRootField(acc, <<"query">>, ByKeyName(p, <<"row_by_pk", "row_by_unique">>, t, k),
               [TableField("row_by_key", b.typeFor[Key(t)], t) EXCEPT !.args = KeyArgs(p, c, b, t, k)]),
           AddRootField(EnsureConnection(b, t), <<"query">>, TableName(p, "all_rows", t),
             [TableField("connection_query", Connection(b, t), t) EXCEPT !.args = ConnectionArgs(p, b, t)]),
           KeyTargets(t))
------------------------------------------------------------------------------
\* addMutations.  A payload that is there is used as it is; an input is not.
ClientMutationId == <<"client", "mutation", "id">>
AddPayload(p, b, t, verb) ==
  LET type == b.typeFor[Key(t)]
      id == ClientMutationId :> Field("client_mutation_id", StringType)
      row == type :> TableField("payload_row", type, t)
      rows == (Pluralize(type) :> TableField("payload_rows", type, t))
           @@ (<<"affected", "count">> :> Field("payload_count", IntType))
  IN [b EXCEPT !.objects = Keep(@, PayloadName(p, t, verb), (IF Last(verb) = "many" THEN rows ELSE row) @@ id)]
AddMutation(p, b, t, name, kind, verb, args) ==
  AddRootField(AddPayload(p, b, t, verb), <<"mutation">>, name,
    [TableField(kind, PayloadName(p, t, verb), t) EXCEPT !.args = args])

\* The fields of a create input (isCreate) or an update input.
RowInput(p, c, b, t, isCreate) ==
  Put(FoldLeft(LAMBDA fs, col :
                 Put(fs, FieldName(p, "", t, col.name),
                   [InputField(GqlInputType(p, c, b, col.type))
                      EXCEPT !.column = col.name, !.required = isCreate /\ col.required]),
               << >>, SelectSeq(t.columns, LAMBDA col : ~col.generated)),
      ClientMutationId, InputField(StringType))

AddCreate(p, c, b, t) ==
  LET input == TableName(p, "create_input", t) IN
  IF ~Insertable(t) THEN b
  ELSE AddMutation(p, AddMutation(p, AddInput(b, input, RowInput(p, c, b, t, TRUE)),
                                  t, TableName(p, "create", t), "create", <<"create">>, <<"input">> :> input),
         t, TableName(p, "create_many", t), "create_many", <<"create", "many">>,
         (<<"input">> :> input) @@ (ClientMutationId :> StringType))

\* An upsert needs both rights, and a key settable through the create input.
AddUpserts(p, b, t) ==
  LET settable(k) == \A col \in ToSet(k.columns) : ~Column(t, col).generated
      targets == IF Insertable(t) /\ Updatable(t) THEN SelectSeq(KeyTargets(t), settable) ELSE << >>
  IN FoldLeft(LAMBDA acc, k :
                AddMutation(p, acc, t, ByKeyName(p, <<"upsert", "upsert_by_unique">>, t, k), "upsert",
                            <<"upsert">>, <<"input">> :> TableName(p, "create_input", t)),
              b, targets)

\* One update or delete per key, and the bulk one where the table has a filter.
AddByKey(p, c, opts, b, t, verb, args) ==
  LET kinds == IF verb = "update" THEN <<"update", "update_by_unique">> ELSE <<"delete", "delete_by_unique">>
      many == IF verb = "update" THEN "update_many" ELSE "delete_many"
      bulk(b1) == IF Filterable(opts, b, t) = << >> THEN b1
                  ELSE AddMutation(p, b1, t, TableName(p, many, t), many, <<verb, "many">>,
                         (<<"filter">> :> TableName(p, "filter", t)) @@ (ClientMutationId :> StringType) @@ args)
  IN bulk(FoldLeft(LAMBDA acc, k :
                     AddMutation(p, acc, t, ByKeyName(p, kinds, t, k), verb, <<verb>>, KeyArgs(p, c, b, t, k) @@ args),
                   b, KeyTargets(t)))
AddUpdates(p, c, opts, b, t) ==
  LET patch == TableName(p, "update_input", t) IN
  IF ~Updatable(t) THEN b
  ELSE AddByKey(p, c, opts, AddInput(b, patch, RowInput(p, c, b, t, FALSE)), t, "update", <<"patch">> :> patch)
AddDeletes(p, c, opts, b, t) ==
  IF ~Deletable(t) THEN b ELSE AddByKey(p, c, opts, b, t, "delete", ClientMutationId :> StringType)

AddKeyed(p, c, opts, b, t) ==
  IF KeyTargets(t) = << >> THEN b
  ELSE AddDeletes(p, c, opts, AddUpdates(p, c, opts, AddUpserts(p, b, t), t), t)
AddMutations(p, c, opts, b, t) ==
  AddKeyed(p, c, opts, AddCreate(p, c, b, t), t)
------------------------------------------------------------------------------
\* addFunctions.  A function whose first argument is a row is a computed field of
\* its table; with a row elsewhere, or an argument without a name, it is left out.
FunctionArgs(args, declare(_)) ==
  FoldLeft(LAMBDA as, a : Put(as, a.name, declare(ScalarFor(a.type[2]))), << >>, args)
FunctionField(kind, type, f, args) == [Field(kind, type) EXCEPT !.fn = f, !.args = args]

AddComputedField(p, c, b, t, f) ==
  LET type == Get(b.typeFor, IF f.set THEN f.returns ELSE None, GqlType(p, c, b, f.returns))
      field == [FunctionField("computed", type, f, FunctionArgs(Tail(f.args), LAMBDA a : a)) EXCEPT !.table = Key(t)]
  IN IF f.volatile \/ f.returns[2] = <<"void">> THEN b
     ELSE AddRootField(b, b.typeFor[Key(t)], FunctionName(p, "computed", t.name, f), field)

\* The result is a row when some table, of whatever schema, has the type's name.
ResultType(c, b, f) ==
  LET named == {key \in DOMAIN b.typeFor : key[2] = f.returns[2]} IN
  IF f.returns[2] = <<"void">> THEN BooleanType
  ELSE IF named # {} THEN b.typeFor[CHOOSE key \in named : TRUE] ELSE ScalarFor(f.returns[2])

AddRootFunction(p, c, b, f) ==
  LET name == FunctionName(p, "function_field", << >>, f)
      input == FunctionName(p, "function_input", << >>, f)
      payload == FunctionName(p, "function_payload", << >>, f)
      fields == (<<"result">> :> FunctionField("payload_result", ResultType(c, b, f), f, << >>))
             @@ (ClientMutationId :> Field("client_mutation_id", StringType))
      declared == [AddInput(b, input, Put(FunctionArgs(f.args, InputField), ClientMutationId, InputField(StringType)))
                     EXCEPT !.objects = Put(@, payload, fields)]
  IN IF ~f.volatile
     THEN AddRootField(b, <<"query">>, name,
            FunctionField("function", ResultType(c, b, f), f, FunctionArgs(f.args, LAMBDA a : a)))
     ELSE IF input \in DOMAIN b.inputs \/ payload \in DOMAIN b.objects THEN b
     ELSE AddRootField(declared, <<"mutation">>, name, FunctionField("function", payload, f, <<"input">> :> input))

AddFunction(p, c, b, f) ==
  IF f.args # << >> /\ f.args[1].type \in Keys(c) THEN AddComputedField(p, c, b, Table(c, f.args[1].type), f)
  ELSE IF \E a \in ToSet(f.args) : a.type \in Keys(c) \/ a.name = None THEN b
  ELSE AddRootFunction(p, c, b, f)
------------------------------------------------------------------------------
PageInfo ==
  [f \in {<<"has", "next", "page">>, <<"has", "previous", "page">>} |-> Field("synthetic", BooleanType)]
  @@ [f \in {<<"start", "cursor">>, <<"end", "cursor">>} |-> Field("synthetic", CursorType)]
Empty ==
  [objects |-> (<<"query">> :> << >>) @@ (<<"mutation">> :> << >>) @@ (<<"page", "info">> :> PageInfo),
   inputs |-> << >>, enums |-> << >>, typeFor |-> << >>, typeForComposite |-> << >>, inputForComposite |-> << >>]

\* New: everything the catalog gives, each table's types before any relation.
AddTypes(p, c, opts, b) ==
  FoldLeft(LAMBDA acc, t : AddSurface(p, c, opts, acc, t),
           FoldLeft(LAMBDA acc, t : AddType(p, c, acc, t), b, c.tables), c.tables)
AddRoots(p, c, opts, b) ==
  FoldLeft(LAMBDA acc, t : AddMutations(p, c, opts, AddQueries(p, c, acc, t), t),
           FoldLeft(LAMBDA acc, t : AddRelations(p, c, acc, t), b, c.tables), c.tables)
AddFunctions(p, c, opts, b) ==
  FoldLeft(LAMBDA acc, f : AddFunction(p, c, acc, f), b, IF opts.functions THEN c.functions ELSE << >>)
New(p, c, opts) ==
  LET enums == FoldLeft(LAMBDA b, e : AddEnum(p, b, e), AddNode(c, Empty), c.enums)
  IN AddFunctions(p, c, opts, AddRoots(p, c, opts, AddTypes(p, c, opts, AddComposites(p, c, enums))))

\* What is printed: no Mutation without fields, a Query that is never empty.
Printed(b) ==
  LET query == IF b.objects[<<"query">>] = << >> THEN <<"_empty">> :> Field("synthetic", BooleanType)
               ELSE b.objects[<<"query">>]
      objects == Put(b.objects, <<"query">>, query)
  IN [b EXCEPT !.objects = IF objects[<<"mutation">>] # << >> THEN objects
                           ELSE [o \in DOMAIN objects \ {<<"mutation">>} |-> objects[o]]]

OutputTypes(b) == {f.type : f \in UNION {Range(o) : o \in Range(b.objects)}}
InputTypes(b) ==
  {f.type : f \in UNION {Range(i) : i \in Range(b.inputs)}}
  \cup UNION {Range(f.args) : f \in UNION {Range(o) : o \in Range(b.objects)}}

\* What the GraphQL parser makes sure of in Build: a type is declared once and not
\* empty, and whatever refers to a type finds one fit for the place.
Declared(b) == <<Scalars, DOMAIN b.enums, DOMAIN b.objects, DOMAIN b.inputs>>
Dangling(b) == (OutputTypes(b) \ (Scalars \cup DOMAIN b.enums \cup DOMAIN b.objects))
               \cup (InputTypes(b) \ (Scalars \cup DOMAIN b.enums \cup DOMAIN b.inputs))
Valid(b) ==
  /\ Dangling(b) = {}
  /\ \A i, j \in 1..4 : i # j => Declared(b)[i] \cap Declared(b)[j] = {}
  /\ \A n \in DOMAIN b.enums : b.enums[n] # {}
  /\ << >> \notin Range(b.objects) \cup Range(b.inputs)
=============================================================================
