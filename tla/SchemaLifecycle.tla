--------------------------- MODULE SchemaLifecycle ---------------------------
(***************************************************************************)
(* How a schema comes into service: pdbq.go's LoadCatalog and BuildSchema, *)
(* facade.go's boot pipeline and OnChange, the commands schema dump and    *)
(* schema check of cmd/pdbq, and the plugin instances that every build of  *)
(* a process shares.                                                       *)
(*                                                                         *)
(* The process boots from the cache file or from the database, and watches *)
(* the database or not.  That a watcher learns of a DDL command is         *)
(* SchemaWatch's subject; here it may rebuild whenever there was one.      *)
(***************************************************************************)
EXTENDS SchemaHooks, SchemaCache

CONSTANTS
  Catalog,   \* [name of a state of the database -> its catalog]
  Edits,     \* pairs of such names: the DDL commands there may be
  Starts,    \* triples: the state at first, the configuration, a set of "cache" and "watch"
  Format,    \* CatalogFormatVersion
  Dumpers,   \* processes that dump
  MaxDDL

ASSUME LifecycleAssumption ==
  /\ Blocks \in Nat \ {0} /\ Format \in Nat \ {0} /\ MaxDDL \in Nat
  /\ Edits \subseteq (DOMAIN Catalog) \X (DOMAIN Catalog)
  /\ \A s \in Starts : s[1] \in DOMAIN Catalog /\ s[3] \subseteq {"cache", "watch"}

\* What introspection returns: lists, in which a name stands once in its schema.
CatalogParts == {"server", "schemas", "tables", "enums", "composites", "functions"}
Introspectable(c) ==
  /\ c = [part \in CatalogParts |-> c[part]]
  /\ \A part \in CatalogParts \ {"server"} : c[part] \in Seq(ToSet(c[part]))
  /\ \A part \in {"tables", "enums", "composites"} :
       \A x, y \in ToSet(c[part]) : Key(x) = Key(y) => x = y
  /\ \A t \in ToSet(c.tables) : t.columns \in Seq(ToSet(t.columns))

ASSUME CatalogAssumption == \A n \in DOMAIN Catalog : Introspectable(Catalog[n])

Absent == [x \in {} |-> x]

VARIABLES
  db,       \* the state of the database, how many DDL commands there were
  config,   \* the configuration of the process: its plugins, a cache path, a watcher
  file,     \* the blocks of the cache file, Absent before the first dump
  dump,     \* what each dump does, the content it writes, the blocks written
  wrote,    \* history: contents written from the first block to the last
  report,   \* the last schema check: cached and introspected catalog, its lines
  build,    \* stage of the build, catalog as loaded and as shaped, hooks to run, builder
  plugins,  \* what the plugin instances know of a catalog
  specs,    \* the specs that nested-mutations knows
  server,   \* the catalog and the schema behind the executor, Absent before boot
  flight    \* the executor of a request under way

vars == <<db, config, file, dump, wrote, report, build, plugins, specs, server, flight>>
------------------------------------------------------------------------------
\* Introspection of a state; overloads of a function come in any order.
Introspected(name) ==
  LET c == Catalog[name]
      orders == {fs \in SetToSeqs(ToSet(c.functions)) : \A i \in DOMAIN fs : Key(fs[i]) = Key(c.functions[i])}
  IN {[c EXCEPT !.functions = fs] : fs \in orders}

Dumping(stage, content, n) == [stage |-> stage, content |-> content, n |-> n]
Idle == [stage |-> "down", raw |-> Absent, shaped |-> Absent, todo |-> << >>, b |-> Absent,
         read |-> << >>, seen |-> 0]

Init ==
  \E s \in Starts :
    /\ db = [state |-> s[1], ddls |-> 0]
    /\ config = [plugins |-> s[2], mode |-> s[3]]
    \* an earlier version of pdbq may have left a file in its own format
    /\ LET left == [catalog |-> Catalog[s[1]], format |-> Format - 1] IN
       \/ file = Absent /\ wrote = {}
       \/ "cache" \in s[3] /\ file = [i \in 1..Blocks |-> left] /\ wrote = {left}
    /\ dump = [d \in Dumpers |-> Dumping("idle", Absent, 0)]
    /\ report = Absent
    /\ build = Idle
    /\ plugins = NewPlugins(s[2])
    /\ specs = << >>
    /\ server = Absent
    /\ flight = Absent

DDL ==
  /\ db.ddls < MaxDDL
  /\ \E e \in Edits : e[1] = db.state /\ db' = [state |-> e[2], ddls |-> db.ddls + 1]
  /\ UNCHANGED <<config, file, dump, wrote, report, build, plugins, specs, server, flight>>
------------------------------------------------------------------------------
\* pdbq schema dump introspects, and Save creates the file and writes it in pieces.
DumpIntrospect(d) ==
  /\ "cache" \in config.mode /\ dump[d].stage = "idle"
  /\ \E c \in Introspected(db.state) :
       dump' = [dump EXCEPT ![d] = Dumping("create", [catalog |-> c, format |-> Format], 0)]
  /\ UNCHANGED <<db, config, file, wrote, report, build, plugins, specs, server, flight>>
DumpCreate(d) ==
  /\ dump[d].stage = "create"
  /\ file' = Truncated
  /\ dump' = [dump EXCEPT ![d] = Dumping("write", @.content, 0)]
  /\ UNCHANGED <<db, config, wrote, report, build, plugins, specs, server, flight>>
DumpWrite(d) ==
  LET last == dump[d].n + 1 = Blocks IN
  /\ dump[d].stage = "write"
  /\ file' = Written(file, dump[d].n, dump[d].content)
  /\ dump' = [dump EXCEPT ![d] = Dumping(IF last THEN "done" ELSE "write", @.content, @.n + 1)]
  /\ wrote' = IF last THEN wrote \cup {dump[d].content} ELSE wrote
  /\ UNCHANGED <<db, config, report, build, plugins, specs, server, flight>>
DumpCrash(d) ==
  /\ dump[d].stage \in {"create", "write"}
  /\ dump' = [dump EXCEPT ![d] = Dumping("done", @.content, @.n)]
  /\ UNCHANGED <<db, config, file, wrote, report, build, plugins, specs, server, flight>>

\* pdbq schema check, of a file that loads; of another it only says so.
SchemaCheck ==
  /\ file # Absent /\ report = Absent
  /\ Loadable(file, Format)
  /\ \E c \in Introspected(db.state) :
       report' = [cached |-> Content(file).catalog, live |-> c, lines |-> Check(Content(file).catalog, c)]
  /\ UNCHANGED <<db, config, file, dump, wrote, build, plugins, specs, server, flight>>
------------------------------------------------------------------------------
\* LoadCatalog from the cache: the file is read a block at a time while others may
\* write it, and what was read is then verified.  A boot that fails changes nothing.
Open ==
  /\ "cache" \in config.mode /\ file # Absent
  /\ build.stage = "down" /\ server = Absent
  /\ build' = [build EXCEPT !.stage = "read"]
  /\ UNCHANGED <<db, config, file, dump, wrote, report, plugins, specs, server, flight>>
Read ==
  /\ build.stage = "read" /\ Len(build.read) < Blocks
  /\ build' = [build EXCEPT !.read = Append(@, file[Len(@) + 1])]
  /\ UNCHANGED <<db, config, file, dump, wrote, report, plugins, specs, server, flight>>
Load ==
  /\ build.stage = "read" /\ Len(build.read) = Blocks
  /\ build' = IF Loadable(build.read, Format)
              THEN [Idle EXCEPT !.stage = "loaded", !.raw = Content(build.read)]
              ELSE Idle
  /\ UNCHANGED <<db, config, file, dump, wrote, report, plugins, specs, server, flight>>

\* LoadCatalog from the database, at boot and, by the watcher, after a DDL command.
Introspect ==
  /\ build.stage = "down"
  /\ IF server = Absent THEN "cache" \notin config.mode ELSE "watch" \in config.mode /\ build.seen < db.ddls
  /\ \E c \in Introspected(db.state) :
       build' = [Idle EXCEPT !.stage = "loaded", !.raw = [catalog |-> c, format |-> Format], !.seen = db.ddls]
  /\ UNCHANGED <<db, config, file, dump, wrote, report, plugins, specs, server, flight>>

\* BuildSchema: the catalog hooks, New, each schema hook, and Build.  The schema
\* that comes out is put in service; without one, what is in service stays.
RunCatalogHooks ==
  /\ build.stage = "loaded"
  /\ \E shaped \in {TransformCatalog(plugins, build.raw.catalog)} :
       /\ build' = [build EXCEPT !.stage = "shaped", !.shaped = shaped.c]
       /\ plugins' = shaped.p
  /\ UNCHANGED <<db, config, file, dump, wrote, report, specs, server, flight>>
Generate ==
  /\ build.stage = "shaped"
  /\ build' = [build EXCEPT !.stage = "generated", !.todo = plugins.order,
                            !.b = New(plugins, build.shaped, config.plugins.opts)]
  /\ UNCHANGED <<db, config, file, dump, wrote, report, plugins, specs, server, flight>>
RunSchemaHook ==
  /\ build.stage = "generated" /\ build.todo # << >>
  /\ \E end \in {SchemaHook(Head(build.todo), plugins, build.shaped, config.plugins.opts, build.b)} :
       /\ build' = [build EXCEPT !.todo = Tail(@), !.b = end.b]
       /\ specs' = Remember(specs, end.specs)
  /\ UNCHANGED <<db, config, file, dump, wrote, report, plugins, server, flight>>
Build ==
  /\ build.stage = "generated" /\ build.todo = << >>
  /\ server' = IF Valid(Printed(build.b)) THEN [catalog |-> build.raw.catalog, b |-> Printed(build.b)] ELSE server
  /\ build' = [Idle EXCEPT !.seen = build.seen]
  \* a boot that fails ends the process, and the next one starts with new plugins
  /\ plugins' = IF server' = Absent THEN NewPlugins(config.plugins) ELSE plugins
  /\ specs' = IF server' = Absent THEN << >> ELSE specs
  /\ UNCHANGED <<db, config, file, dump, wrote, report, flight>>

\* A request takes the executor it finds, and is done.
Arrive ==
  /\ server # Absent /\ flight = Absent
  /\ flight' = server
  /\ UNCHANGED <<db, config, file, dump, wrote, report, build, plugins, specs, server>>
Finish ==
  /\ flight # Absent
  /\ flight' = Absent
  /\ UNCHANGED <<db, config, file, dump, wrote, report, build, plugins, specs, server>>

Next ==
  \/ DDL
  \/ \E d \in Dumpers : DumpIntrospect(d) \/ DumpCreate(d) \/ DumpWrite(d) \/ DumpCrash(d)
  \/ SchemaCheck
  \/ Open \/ Read \/ Load \/ Introspect
  \/ RunCatalogHooks \/ Generate \/ RunSchemaHook \/ Build
  \/ Arrive \/ Finish
Spec == Init /\ [][Next]_vars
------------------------------------------------------------------------------
\* Boot goes on only with a catalog that one dump wrote from its first block to its
\* last, in the format of this version, whatever dumps crashed or overtook each
\* other in the file (cache.Save and cache.Load).
LoadIsWhole ==
  ("cache" \in config.mode /\ server = Absent /\ build.raw # Absent) =>
    build.raw \in wrote /\ build.raw.format = Format

\* schema check is silent only when nothing differs, and says what does: no drift
\* is left without a line of its own, unless only overloads changed places, or two of
\* them differ only in the schemas of their argument types (Check and Diff).
SameUpToOrder(x, y) == [Hash(x) EXCEPT !.functions = ToSet(@)] = [Hash(y) EXCEPT !.functions = ToSet(@)]
SignaturesDiffer(c) == \A f, g \in ToSet(c.functions) : Signature(f) = Signature(g) => f = g
Tells(cached, live, lines) ==
  IF SameUpToOrder(cached, live) THEN lines \subseteq {<<"schema drift detected">>}
  ELSE SignaturesDiffer(cached) /\ SignaturesDiffer(live) => Cardinality(lines) > 1
CheckTellsDrift == report # Absent => Tells(report.cached, report.live, report.lines)

\* No hook leaves a field, an argument or an input that refers to a type that is no
\* longer there or cannot be used in its place, whichever plugins are enabled.
NothingDangles == build.stage = "generated" => Dangling(Printed(build.b)) = {}

\* A schema swapped in by the watcher is the one a restart would build: nothing of
\* an earlier catalog is left in what the plugins know (TransformCatalog).
SwapIsRestart ==
  [][server' # server =>
       server'.b = BuildSchema(NewPlugins(config.plugins), server'.catalog, config.plugins.opts)]_vars

\* Whatever the build under way has overwritten, nested-mutations recognises every
\* nested field of the schema in service and of the one a request still runs on: a
\* nested field it does not know would be compiled as a column (hasNested).
NestedFields(s) ==
  UNION {{<<i, n>> : n \in {m \in DOMAIN s.b.inputs[i] : s.b.inputs[i][m].nested}} : i \in DOMAIN s.b.inputs}
NestedSpecsCoverSchemas ==
  \A s \in {server, flight} \ {Absent} : NestedFields(s) \subseteq DOMAIN specs

\* A column goes by one name, that of its @name tag if it has one, wherever the
\* schema in service offers it: as a field, in the create and update inputs, in the
\* filter and the orders and as an argument of lookups; an @omit withholds it where
\* it says, and nowhere else (docs/smart-comments.md).  distinctOn, which no tag
\* reaches, and tables of one name in two schemas are left out.
TagsOf(x) == IF "smart-comments" \in config.plugins.disabled THEN NoTags ELSE x.tags
Names(fields, col) == {n \in DOMAIN fields : fields[n].column = col.name}
RootFields(s, t, kinds) ==
  {f \in Range(s.b.objects[<<"query">>]) \cup Range(Get(s.b.objects, <<"mutation">>, << >>)) :
     f.table = Key(t) /\ f.kind \in kinds}
ArgTypes(s, t, kinds, arg) ==
  {f.args[arg] : f \in {g \in RootFields(s, t, kinds) : arg \in DOMAIN g.args}}
ColumnNamed(s, t, col) ==
  LET tags == TagsOf(col)
      hidden(action) == {"everything", action} \cap Omits(tags) # {}
      name == Renamed(tags, col.name)
      offered(action) == IF hidden(action) THEN {} ELSE {name}
      unless(free, action, names) == names = offered(action) \/ (free /\ names = {})
  IN /\ Names(s.b.objects[s.b.typeFor[Key(t)]], col) = offered("read")
     /\ \A i \in ArgTypes(s, t, {"create", "create_many", "upsert"}, <<"input">>) :
          unless(col.generated, "create", Names(s.b.inputs[i], col))
     /\ \A i \in ArgTypes(s, t, {"update", "update_many"}, <<"patch">>) :
          unless(col.generated, "update", Names(s.b.inputs[i], col))
     /\ \A i \in ArgTypes(s, t, {"connection_query", "update_many", "delete_many"}, <<"filter">>) :
          unless(config.plugins.opts.indexedOnly \/ col.type \in DOMAIN s.b.typeForComposite,
                 "filter", Names(s.b.inputs[i], col))
     /\ \A e \in ArgTypes(s, t, {"connection_query"}, <<"order", "by">>) :
          \A v \in {w \in s.b.enums[e] : w.column = col.name} :
             \E d \in Directions : v.value = name \o d /\ ~hidden("order")
KeyArgsNamed(s, t) ==
  \A f \in RootFields(s, t, {"row_by_key", "update", "delete"}) :
    DOMAIN f.args \subseteq {Renamed(TagsOf(col), col.name) : col \in ToSet(t.columns)}
                          \cup {<<"patch">>, ClientMutationId}
ShownTables(c) == {t \in ToSet(c.tables) : ~OmitsAll(TagsOf(t))}
TagsReachEverySurface ==
  server # Absent =>
    \A t \in ShownTables(server.catalog) :
      (\A u \in ToSet(server.catalog.tables) : u.name = t.name => u = t) =>
        /\ KeyArgsNamed(server, t)
        /\ \A col \in ToSet(t.columns) : ColumnNamed(server, t, col)

\* Every foreign key between tables that are shown, and every logical one, gives the
\* child a field for its parent and the parent a field for its children, unless a
\* tag omits them (addRelations keeps the first of two fields of one name).  Left
\* out: constraints of one name in a schema, whose tags get mixed up, and a renamed
\* table with several keys, which simple-names does not find and shortens alike.
Related(s, object, kind, id) ==
  Cardinality({n \in DOMAIN s.b.objects[object] :
                 s.b.objects[object][n].kind = kind /\ s.b.objects[object][n].fk = id})
BothWays(s, t, fk, few) ==
  /\ Related(s, s.b.typeFor[Key(t)], "relation_forward", FkId(t, fk)) = 1
  /\ Related(s, s.b.typeFor[fk.ref], "relation_backward", FkId(t, fk)) = IF few THEN 0 ELSE 1
RelationsBothWays ==
  server # Absent =>
    LET shown == ShownTables(server.catalog)
        visible == [server.catalog EXCEPT !.tables = SelectSeq(@, LAMBDA u : u \in shown)]
        physical(t) == {fk \in ToSet(t.fks) : fk.ref \in Keys(visible) /\ ~OmitsAll(TagsOf(fk))}
        logical(t) == ToSet(LogicalFks(visible, t, TagsOf(t)))
        keys(t) == physical(t) \cup {d.fk : d \in logical(t)}
        many(t, x) == "many" \in Omits(TagsOf(x)) \cup Omits(TagsOf(t))
        mixedUp(t, fk) == \E u \in shown \ {t} : fk.name \in {k.name : k \in keys(u)}
        alike(t, fk) == /\ "simple-names" \notin config.plugins.disabled /\ TagsOf(t).name # << >>
                        /\ \E k \in keys(t) : k # fk /\ k.ref = fk.ref
        clear(t, fk) == ~mixedUp(t, fk) /\ ~alike(t, fk)
    IN \A t \in shown :
         /\ \A fk \in physical(t) : clear(t, fk) => BothWays(server, t, fk, many(t, fk))
         /\ \A d \in logical(t) : clear(t, d.fk) => BothWays(server, t, d.fk, many(t, d))
=============================================================================
