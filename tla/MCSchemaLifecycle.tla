-------------------------- MODULE MCSchemaLifecycle --------------------------
(* Instances of SchemaLifecycle for TLC.                                   *)
EXTENDS SchemaLifecycle

CONSTANTS d1, d2   \* processes that dump

PG(name) == <<"pg_catalog", name>>
Int4 == PG(<<"int4">>)
Text == PG(<<"text">>)
Col(name, type) == [name |-> name, type |-> type, required |-> FALSE, generated |-> FALSE, tags |-> NoTags]
Required(col) == [col EXCEPT !.required = TRUE]
Tagged(x, tag, value) == [x EXCEPT !.tags[tag] = value]
Omitted(x, actions) == Tagged(x, "omit", actions)
Named(x, name) == Tagged(x, "name", name)

Id == [Col(<<"id">>, Int4) EXCEPT !.generated = TRUE]
Tbl(name, columns, fks) ==
  [schema |-> "app", name |-> name, kind |-> "table", columns |-> <<Id>> \o columns,
   primaryKey |-> << <<"id">> >>, uniques |-> << >>, fks |-> fks, indexed |-> {},
   privileges |-> {"insert", "update", "delete"}, tags |-> NoTags]
View(name, columns) ==
  [Tbl(name, columns, << >>) EXCEPT !.kind = "view", !.primaryKey = << >>, !.privileges = {}]
Fk(name, col, table) ==
  [name |-> <<name>>, columns |-> <<col>>, ref |-> <<"app", table>>, refColumns |-> << <<"id">> >>, tags |-> NoTags]
Unique(name, col) == [name |-> <<name>>, columns |-> <<col>>, tags |-> NoTags]
Fn(name, args, returns) ==
  [schema |-> "app", name |-> name, args |-> args, returns |-> returns, set |-> FALSE, volatile |-> FALSE, tags |-> NoTags]
Arg(name, type) == [name |-> name, type |-> type]

Users == <<"user", "s">>
Posts == <<"post", "s">>
FullName == Required(Col(<<"name">>, Text))
Author == Required(Col(<<"author", "id">>, Int4))
Editor == Col(<<"editor", "id">>, Int4)
Title == Col(<<"title">>, Text)
AuthorFk == Fk("author_fk", <<"author", "id">>, Users)
EditorFk == Fk("editor_fk", <<"editor", "id">>, Users)
UsersTable == Tbl(Users, <<FullName>>, << >>)
PostsTable == Tbl(Posts, <<Author, Title>>, <<AuthorFk>>)
Database(tables) ==
  [server |-> 17, schemas |-> <<"app">>, tables |-> tables, enums |-> << >>, composites |-> << >>, functions |-> << >>]

\* Column tags, on a table with an enum, a composite and a unique column.
Mood == [schema |-> "app", name |-> <<"mood">>, values |-> {<<"happy">>, <<"sad">>}, tags |-> NoTags]
Address == [schema |-> "app", name |-> <<"address">>, columns |-> <<Col(<<"city">>, Text)>>, tags |-> NoTags]
Profile ==
  [Tbl(<<"profile", "s">>,
       <<Named(Required(Col(<<"email">>, Text)), <<"mail">>),
         Omitted(Col(<<"secret">>, Text), {"everything"}),
         Named(Omitted(Col(<<"score">>, Int4), {"create", "order"}), <<"rank">>),
         Omitted(Col(<<"mood">>, <<"app", <<"mood">>>>), {"update", "filter"}),
         Tagged(Col(<<"home">>, <<"app", <<"address">>>>), "behavior", {"-select", "-order"})>>, << >>)
     EXCEPT !.uniques = <<Unique("email_key", <<"email">>)>>]
Columns == [Database(<<Profile>>) EXCEPT !.enums = <<Named(Mood, <<"temper">>)>>, !.composites = <<Address>>]

\* Table tags: what each @omit of a table withholds while others refer to it.
Limited(actions) == Database(<<Omitted(PostsTable, actions), UsersTable>>)
Parent(actions) == Database(<<PostsTable, Omitted(Named(UsersTable, <<"person">>), actions)>>)

\* Constraint tags, two keys to one table, and a table that refers to itself.
TwoKeys ==
  Database(<<Tbl(Posts, <<Author, Editor, Title>>, <<AuthorFk, Tagged(EditorFk, "foreignFieldName", <<"edited">>)>>),
             Tbl(Users, <<FullName, Col(<<"boss", "id">>, Int4)>>, <<Omitted(Fk("boss_fk", <<"boss", "id">>, Users), {"many"})>>)>>)
PlainKeys == Database(<<Tbl(Posts, <<Author, Editor>>, <<AuthorFk, EditorFk>>), Named(UsersTable, <<"people">>)>>)
FkOmitted == Database(<<[PostsTable EXCEPT !.fks = <<Omitted(AuthorFk, {"everything"})>>], UsersTable>>)

\* A view made relational by its tags.
Metrics ==
  Tagged(Tagged(Tagged(View(<<"metric", "s">>, <<Author, Title>>), "primaryKey", << <<"id">> >>),
                "unique", << << <<"title">> >> >>),
         "foreignKey", <<[columns |-> << <<"author", "id">> >>, ref |-> <<"app", Users>>, refColumns |-> << <<"id">> >>,
                          tags |-> [NoTags EXCEPT !.foreignFieldName = <<"measured">>]]>>)
Logical == Database(<<Metrics, UsersTable>>)

\* Functions: computed, a query and a mutation, and overloads.
Row(table) == Arg(<<"row">>, <<"app", table>>)
Functions ==
  [Database(<<PostsTable, UsersTable>>) EXCEPT
    !.functions = <<Fn(<<"latest">>, << >>, <<"app", Posts>>),
                    [Fn(<<"login">>, <<Arg(<<"mail">>, Text)>>, PG(<<"void">>)) EXCEPT !.volatile = TRUE],
                    Named(Fn(<<"rate">>, <<Arg(<<"n">>, Int4)>>, Int4), <<"rating">>),
                    [Fn(<<"total">>, <<Row(Posts)>>, <<"app", Posts>>) EXCEPT !.set = TRUE],
                    Fn(Users \o <<"age">>, <<Row(Users)>>, Int4)>>]
Overload(type) == Fn(<<"find">>, <<Arg(<<"key">>, type)>>, Int4)
Overloaded(first, second) == [Database(<<UsersTable>>) EXCEPT !.functions = <<Overload(first), Overload(second)>>]

Catalogs ==
  ("columns" :> Columns) @@ ("two_keys" :> TwoKeys) @@ ("plain_keys" :> PlainKeys) @@ ("fk_omitted" :> FkOmitted)
  @@ ("logical" :> Logical) @@ ("functions" :> Functions)
  @@ [x \in {"read", "all", "many", "filter", "order"} |-> Limited({x})]
  @@ ("rights" :> Limited({"create", "update"})) @@ ("delete" :> Limited({"delete"}))
  @@ ("hidden" :> Parent({"everything"})) @@ ("parent_filter" :> Parent({"filter"}))
  @@ ("parent_create" :> Parent({"create"}))
  \* states of one database that DDL commands lead between
  @@ ("base" :> Database(<<PostsTable, UsersTable>>))
  @@ ("tagged" :> Database(<<[PostsTable EXCEPT !.columns[3] = Named(Omitted(@, {"create"}), <<"headline">>)], UsersTable>>))
  @@ ("keyed" :> Database(<<Tbl(Posts, <<Author, Editor, Title>>, <<AuthorFk, EditorFk>>), UsersTable>>))
  @@ ("clash" :> Database(<<Tbl(<<"date", "s">>, << >>, <<Fk("when_fk", <<"id">>, Users)>>), UsersTable>>))
  \* states that differ in one aspect each
  @@ ("retyped" :> Database(<<PostsTable, Tbl(Users, <<Col(<<"name">>, Int4)>>, << >>)>>))
  @@ ("revoked" :> Database(<<PostsTable, [UsersTable EXCEPT !.privileges = {"insert"}]>>))
  @@ ("upgraded" :> [Database(<<PostsTable, UsersTable>>) EXCEPT !.server = 18])
  @@ ("typed" :> [Database(<<PostsTable, UsersTable>>) EXCEPT !.enums = <<Mood>>])
  @@ ("overloads" :> Overloaded(Int4, Text))
  @@ ("commented" :> Overloaded(Int4, PG(<<"bool">>)))

Served == {"base", "tagged", "keyed", "clash"}
Differing == {"retyped", "revoked", "upgraded", "typed"}
DDLs == {<<x, y>> \in (Served \X Served) \cup ({"base"} \X Differing) : x # y}
        \cup {<<"overloads", "commented">>}

Options == [indexedOnly |-> FALSE, allow |-> << >>, functions |-> TRUE, optIn |-> FALSE]
All == [disabled |-> {}, opts |-> Options]
Configs ==
  {[All EXCEPT !.disabled = d] :
     d \in {{}, {"smart-comments"}, {"simple-names"}, {"advanced-filters", "nested-mutations"}}}
  \cup {[All EXCEPT !.opts.indexedOnly = TRUE, !.opts.allow = <<"app", Posts>> :> {<<"title">>}],
        [All EXCEPT !.opts.optIn = TRUE, !.disabled = {"simple-names"}]}
Begin ==
  ((DOMAIN Catalogs \ Differing) \X Configs \X {{"watch"}})
  \cup ({"base"} \X {All} \X {{"cache", "watch"}}) \cup ({"overloads"} \X {All} \X {{"cache"}})
Interchangeable == Permutations({d1, d2})
=============================================================================
