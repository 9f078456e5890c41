----------------------------- MODULE SchemaNames -----------------------------
(***************************************************************************)
(* How generated GraphQL names come about: internal/inflect, the tags of   *)
(* internal/smarttags, and the inflection hooks of the smart-comments and  *)
(* simple-names plugins, chained by internal/plugin.                       *)
(*                                                                         *)
(* A name is the sequence of its words, which snake_case, UpperCamel and   *)
(* lowerCamel spell differently, so two names are equal when their words   *)
(* are.  The word "s" at the end makes a plural.                           *)
(***************************************************************************)
EXTENDS Naturals, Sequences, SequencesExt

Put(f, k, v) == (k :> v) @@ f        \* a map write
Keep(f, k, v) == f @@ (k :> v)       \* a map write unless the key is there
Get(f, k, none) == IF k \in DOMAIN f THEN f[k] ELSE none

Singularize(n) == IF Last(n) = "s" THEN Front(n) ELSE n
Pluralize(n) == Append(n, "s")
ByColumns(cols) ==
  FlattenSeq([i \in DOMAIN cols |-> IF i = 1 THEN cols[i] ELSE <<"and">> \o cols[i]])
TrimPrefix(n, prefix) ==
  IF IsStrictPrefix(prefix, n) THEN SubSeq(n, Len(prefix) + 1, Len(n)) ELSE n
TrimId(col) == IF Len(col) > 1 /\ Last(col) = "id" THEN Front(col) ELSE col

\* inflect.Input; a call site leaves out what its kind has no use for.
NoInput == [schema |-> "", table |-> << >>, column |-> << >>, columns |-> << >>,
            constraint |-> << >>, name |-> << >>, verb |-> << >>]

KeyVerbs == [row_by_pk |-> << >>, row_by_unique |-> << >>,
             update |-> <<"update">>, update_by_unique |-> <<"update">>,
             delete |-> <<"delete">>, delete_by_unique |-> <<"delete">>,
             upsert |-> <<"upsert">>, upsert_by_unique |-> <<"upsert">>]
ManyVerbs == [create_many |-> <<"create">>, update_many |-> <<"update">>, delete_many |-> <<"delete">>]

Default(kind, in) ==
  LET one == Singularize(in.table)
      many == Pluralize(one)
  IN CASE kind = "type_name" -> one
       [] kind = "all_rows" -> <<"all">> \o many
       [] kind \in DOMAIN KeyVerbs -> KeyVerbs[kind] \o one \o <<"by">> \o ByColumns(in.columns)
       [] kind \in DOMAIN ManyVerbs -> ManyVerbs[kind] \o many
       [] kind = "create" -> <<"create">> \o one
       [] kind = "filter" -> Append(one, "filter")
       [] kind = "order_by" -> many \o <<"order", "by">>
       [] kind = "distinct_on" -> many \o <<"distinct", "on">>
       [] kind = "create_input" -> one \o <<"create", "input">>
       [] kind = "update_input" -> one \o <<"update", "input">>
       [] kind = "payload" -> in.verb \o Append(one, "payload")
       [] kind = "relation_forward" -> TrimId(in.column)
       [] kind = "relation_backward" -> many \o <<"by">> \o ByColumns(in.columns)
       [] kind = "field_name" -> in.column
       [] kind \in {"enum", "function_field"} -> in.name
       [] kind = "function_input" -> Append(in.name, "input")
       [] kind = "function_payload" -> Append(in.name, "payload")
       [] kind = "computed" -> TrimPrefix(in.name, in.table)
------------------------------------------------------------------------------
\* smarttags.Tags: what the leading '@' lines of a comment say.  "everything" in
\* omit is a bare @omit; an @foreignKey value is already parsed.
NoTags == [omit |-> {}, behavior |-> {}, name |-> << >>, fieldName |-> << >>,
           foreignFieldName |-> << >>, primaryKey |-> << >>, unique |-> << >>,
           foreignKey |-> << >>, filterable |-> FALSE]

BehaviorOmits == ("-insert" :> "create") @@ ("-update" :> "update") @@ ("-delete" :> "delete")
              @@ ("-select" :> "read") @@ ("-filter" :> "filter") @@ ("-order" :> "order")

Omits(tags) ==
  tags.omit \cup {BehaviorOmits[b] : b \in tags.behavior \cap DOMAIN BehaviorOmits}
OmitsAll(tags) == "everything" \in Omits(tags)
------------------------------------------------------------------------------
\* MUTANT of AddTags: there is no schema-less index.
AddTagsExact(index, entry) == IF entry.tags = NoTags THEN index ELSE Put(index, entry.key, entry.tags)
\* Plugin.indexTags of smart-comments.  A schema of "" is the schema-less index,
\* where a name tagged twice stands for nothing.
AddTags(index, entry) ==
  LET by == [entry.key EXCEPT ![1] = ""] IN
  IF entry.tags = NoTags THEN index
  ELSE Put(Put(index, by, IF by \in DOMAIN index THEN NoTags ELSE entry.tags), entry.key, entry.tags)
IndexOf(entries) == FoldLeft(AddTags, << >>, entries)

Entries(objects) ==
  [i \in DOMAIN objects |-> [key |-> <<objects[i].schema, objects[i].name>>, tags |-> objects[i].tags]]
ColumnEntries(t) ==
  [i \in DOMAIN t.columns |-> [key |-> <<t.schema, t.name, t.columns[i].name>>, tags |-> t.columns[i].tags]]
ConstraintEntries(t) ==
  LET cons == t.fks \o t.uniques IN
  [i \in DOMAIN cons |-> [key |-> <<t.schema, cons[i].name>>, tags |-> cons[i].tags]]

IndexTags(c) ==
  [tables |-> IndexOf(Entries(c.tables)),
   columns |-> IndexOf(FlattenSeq([i \in DOMAIN c.tables |-> ColumnEntries(c.tables[i])])),
   enums |-> IndexOf(Entries(c.enums)),
   functions |-> IndexOf(Entries(c.functions)),
   constraints |-> IndexOf(FlattenSeq([i \in DOMAIN c.tables |-> ConstraintEntries(c.tables[i])]))]

TableTags(p, schema, table) == Get(p.index.tables, <<schema, table>>, NoTags)
ColumnTags(p, schema, table, col) == Get(p.index.columns, <<schema, table, col>>, NoTags)
EnumTags(p, schema, name) == Get(p.index.enums, <<schema, name>>, NoTags)
FunctionTags(p, schema, name) == Get(p.index.functions, <<schema, name>>, NoTags)
ConstraintTags(p, schema, name) == Get(p.index.constraints, <<schema, name>>, NoTags)

Renamed(tags, name) == IF tags.name # << >> THEN tags.name ELSE name
RenamedColumn(p, schema, table, col) == Renamed(ColumnTags(p, schema, table, col), col)
------------------------------------------------------------------------------
\* An inflection hook names the thing, or hands its input on to the next one.
Name(n, in) == [name |-> n, in |-> in]
PassOn(in) == Name(<< >>, in)

TableKinds == {"type_name", "all_rows", "filter", "order_by", "create", "create_input",
               "update_input", "payload", "relation_backward"} \cup DOMAIN ManyVerbs
KeyKinds == DOMAIN KeyVerbs \cup {"relation_backward"}
FunctionKinds == {"function_field", "function_input", "function_payload", "computed"}

\* Plugin.Inflect of smart-comments.
FixedName(kind, con) ==
  CASE kind = "relation_forward" -> con.fieldName
    [] kind = "relation_backward" -> con.foreignFieldName
    [] OTHER -> << >>
SmartInflect(p, kind, in) ==
  LET fixed == FixedName(kind, ConstraintTags(p, in.schema, in.constraint))
  IN IF fixed # << >> THEN Name(fixed, in)
     ELSE PassOn(
       [in EXCEPT
         !.table = IF kind \in TableKinds \cup KeyKinds
                   THEN Renamed(TableTags(p, in.schema, in.table), @) ELSE @,
         !.columns = IF kind \in KeyKinds
                     THEN [i \in DOMAIN @ |-> RenamedColumn(p, in.schema, in.table, @[i])] ELSE @,
         !.column = IF kind = "field_name" THEN RenamedColumn(p, in.schema, in.table, @) ELSE @,
         !.name = CASE kind = "enum" -> Renamed(EnumTags(p, in.schema, @), @)
                    [] kind \in FunctionKinds -> Renamed(FunctionTags(p, in.schema, @), @)
                    [] OTHER -> @])

\* Plugin.Inflect of simple-names; a relation is shortened when its table has no
\* other foreign key.
SimpleInflect(p, kind, in) ==
  LET one == Singularize(in.table) IN
  CASE kind = "all_rows" -> Name(Pluralize(one), in)
    [] kind = "row_by_pk" -> Name(one, in)
    [] kind \in {"update", "delete", "upsert"} -> Name(KeyVerbs[kind] \o one, in)
    [] kind = "relation_backward" /\ Get(p.fkCount, <<in.schema, in.table>>, 0) <= 1 ->
         Name(Pluralize(one), in)
    [] OTHER -> PassOn(in)

\* Registry.Inflector: the hooks in the order of their plugins, then the default.
Inflect(p, kind, in) ==
  FoldLeft(LAMBDA acc, plugin :
             IF acc.name # << >> THEN acc
             ELSE CASE plugin = "smart-comments" -> SmartInflect(p, kind, acc.in)
                    [] plugin = "simple-names" -> SimpleInflect(p, kind, acc.in)
                    [] plugin = "default" -> Name(Default(kind, acc.in), acc.in)
                    [] OTHER -> acc,
           PassOn(in), Append(p.order, "default")).name
=============================================================================
