----------------------------- MODULE SchemaCache -----------------------------
(***************************************************************************)
(* The schema cache file of internal/cache and the comparison of catalogs  *)
(* of internal/introspect: Hash, Diff and Check.                           *)
(*                                                                         *)
(* A file is a function from the places of its blocks to what was written  *)
(* there, Hole before anything was.  A block says which catalog, in which  *)
(* format, the file it belongs to would hold.                              *)
(***************************************************************************)
EXTENDS SchemaBuild

CONSTANTS Blocks, Hole, Torn

\* os.Create, and the writes of an encoder that has written n blocks so far.
Truncated == [i \in 1..Blocks |-> Hole]
Written(file, n, content) == [file EXCEPT ![n + 1] = content]

\* MUTANT of Content: what decodes of the first block is taken for the whole.
ContentUnverified(blocks) == blocks[1]
\* What the blocks decode to: nothing, one dump's catalog, or something else that
\* the checksums of gzip and the hash of the envelope give away.
Content(blocks) ==
  IF \A i, j \in DOMAIN blocks : blocks[i] = blocks[j] THEN blocks[1] ELSE Torn
\* Load fails at the gzip trailer, at the format version or at the hash.
Loadable(blocks, format) ==
  /\ Content(blocks) \notin {Hole, Torn}
  /\ Content(blocks).format = format
------------------------------------------------------------------------------
\* Hash orders what it hashes by schema and name, which leaves overloads of a
\* function in the order the database returned them.
Hash(c) == [c EXCEPT !.schemas = ToSet(@), !.tables = ToSet(@), !.enums = ToSet(@), !.composites = ToSet(@)]

Signature(f) == <<f.schema, f.name, [i \in DOMAIN f.args |-> f.args[i].type[2]]>>
ByKey(objects) == [k \in {Key(x) : x \in ToSet(objects)} |-> CHOOSE x \in ToSet(objects) : Key(x) = k]
BySignature(fs) == [k \in {Signature(f) : f \in ToSet(fs)} |-> CHOOSE f \in ToSet(fs) : Signature(f) = k]

AddedOrRemoved(kind, was, is) ==
  {<<kind, k, "removed">> : k \in DOMAIN was \ DOMAIN is} \cup {<<kind, k, "added">> : k \in DOMAIN is \ DOMAIN was}
DiffNamed(kind, was, is) ==
  AddedOrRemoved(kind, was, is)
  \cup {<<kind, k, "changed">> : k \in {x \in DOMAIN was \cap DOMAIN is : was[x] # is[x]}}
\* MUTANT of DiffTable: only columns are compared.
DiffTableColumns(k, was, is) ==
  LET columns(t) == [x \in {k} \X ColumnNames(t) |-> Column(t, x[2])]
  IN DiffNamed("column", columns(was), columns(is))
\* Whatever else of a table changed is one line, when its columns have none.
DiffTable(k, was, is) ==
  LET columns(t) == [x \in {k} \X ColumnNames(t) |-> Column(t, x[2])]
      lines == DiffNamed("column", columns(was), columns(is))
  IN IF lines = {} /\ was # is THEN {<<"table", k, "changed">>} ELSE lines
DiffTables(was, is) ==
  AddedOrRemoved("table", was, is)
  \cup UNION {DiffTable(k, was[k], is[k]) : k \in DOMAIN was \cap DOMAIN is}
Diff(cached, c) ==
  (IF cached.server # c.server THEN {<<"server version">>} ELSE {})
  \cup AddedOrRemoved("schema", [s \in ToSet(cached.schemas) |-> s], [s \in ToSet(c.schemas) |-> s])
  \cup DiffTables(ByKey(cached.tables), ByKey(c.tables))
  \cup DiffNamed("enum", ByKey(cached.enums), ByKey(c.enums))
  \cup DiffNamed("composite type", ByKey(cached.composites), ByKey(c.composites))
  \cup DiffNamed("function", BySignature(cached.functions), BySignature(c.functions))

\* Check of a loadable file: no lines when the hashes agree.
Check(cached, c) == IF Hash(cached) = Hash(c) THEN {} ELSE {<<"schema drift detected">>} \cup Diff(cached, c)
=============================================================================
