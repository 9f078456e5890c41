------------------------------ MODULE Mutations ------------------------------
(***************************************************************************)
(* The generated mutations on a small database: create, create many, update   *)
(* and delete by a unique key, upsert, update and delete by a filter.  Each    *)
(* is one statement, so one step: the statement the compiler emits, run        *)
(* against the constraints of the tables.                                   *)
(*                                                                         *)
(* An input or patch is a function from the columns it sets to values: a       *)
(* column left out is not in its domain, an explicit null is NULL.             *)
(***************************************************************************)
EXTENDS Filter, FiniteSets

CONSTANTS
  Columns,       \* [table -> its columns]
  Default,       \* [table -> [column -> default value, NULL if it has none]]
  NotNull,       \* [table -> its NOT NULL columns]
  Keys,          \* [table -> its unique keys, sets of columns]
  Seeds,         \* the databases to start with
  FiltersOf,     \* [table -> filter objects a client sends]
  CreateInputs, Patches,   \* [table -> inputs, patches a client sends]
  KeyValues      \* values of key arguments

Tables == DOMAIN Columns

\* A filter and what it nests name columns and foreign keys of the table they are about.
FilterOn(t, f) ==
  \A e \in f :
    /\ e.key = "column" => e.column \in Columns[t]
    /\ e.key \in {"and", "or"} => e.items \subseteq FiltersOf[t]
    /\ e.key = "not" => e.item \in FiltersOf[t]
    /\ e.key = "relation" =>
         IF e.quant = "forward" THEN e.fk.table = t /\ e.item \in FiltersOf[e.fk.ref]
         ELSE e.fk.ref = t /\ e.item \in FiltersOf[e.fk.table]

\* The tables as they are declared.  What a create input has to set is not assumed: a
\* column of a foreign key is optional whatever the column says, since a nested field
\* may stand for it.
ASSUME TableAssumption ==
  /\ \A fk \in FKs : /\ fk.table \in Tables /\ fk.column \in Columns[fk.table]
                     /\ fk.ref \in Tables /\ fk.refColumn \in Columns[fk.ref]
  /\ \A t \in Tables :
       /\ NotNull[t] \subseteq Columns[t] /\ Keys[t] \subseteq SUBSET Columns[t]
       /\ FiltersOf[t] \subseteq Filters /\ \A f \in FiltersOf[t] : FilterOn(t, f)
       /\ \A in \in CreateInputs[t] : DOMAIN in \subseteq Columns[t]

VARIABLES db, answer

vars == <<db, answer>>
------------------------------------------------------------------------------
HasKey(row, key, value) == \A c \in key : row.val[c] # NULL /\ row.val[c] = value[c]

\* Unique keys (NULLs are distinct), NOT NULL and foreign keys of the tables.
Allowed(rows) ==
  /\ \A row \in rows :
       /\ \A c \in NotNull[row.table] : row.val[c] # NULL
       /\ \A key \in Keys[row.table] : \A other \in rows \ {row} :
            other.table = row.table => ~HasKey(other, key, row.val)
  /\ \A fk \in FKs : \A row \in rows :
       row.table = fk.table /\ row.val[fk.column] # NULL =>
         \E x \in rows : x.table = fk.ref /\ x.val[fk.refColumn] = row.val[fk.column]

IsRow(row) ==
  /\ row.table \in Tables
  /\ row = [table |-> row.table, val |-> [c \in Columns[row.table] |-> row.val[c]]]

ASSUME SeedAssumption ==
  \A rows \in Seeds : IsFiniteSet(rows) /\ (\A row \in rows : IsRow(row)) /\ Allowed(rows)

\* What a statement leads to: "ok", "no row matched", an error of the server,
\* or one of the compiler before anything is sent.
Outcome(status, rows, count) == [status |-> status, db |-> rows, count |-> count]
Refused(rows) == Outcome("refused", rows, 0)

Done(rows, new, count) ==
  IF Allowed(new) THEN Outcome("ok", new, count) ELSE Outcome("failed", rows, 0)

\* The payload of a single mutation has a row or the field fails; that of a
\* bulk mutation is an aggregate and always has one.
DoneOne(rows, new, count) == IF count = 0 THEN Outcome("no row", rows, 0) ELSE Done(rows, new, count)

\* Columns a patch leaves out keep their values.
Patched(row, patch) ==
  [row EXCEPT !.val = [c \in DOMAIN row.val |-> IF c \in DOMAIN patch THEN patch[c] ELSE row.val[c]]]

Update(rows, matched, patch) == (rows \ matched) \cup {Patched(row, patch) : row \in matched}

\* Two rows that become equal break a key.
UpdateDone(rows, matched, patch) ==
  IF Cardinality(Update(rows, matched, patch)) < Cardinality(rows)
  THEN Outcome("failed", rows, 0)
  ELSE Done(rows, Update(rows, matched, patch), Cardinality(matched))
------------------------------------------------------------------------------
\* INSERT with the columns of the input; the others take their defaults.
NewRow(t, in) ==
  [table |-> t, val |-> [c \in Columns[t] |-> IF c \in DOMAIN in THEN in[c] ELSE Default[t][c]]]

Create(rows, t, in) ==
  IF NewRow(t, in) \in rows THEN Outcome("failed", rows, 0)
  ELSE Done(rows, rows \cup {NewRow(t, in)}, 1)

\* MUTANT of ManyRow: a column another row sets is NULL here.
ManyRowNull(t, used, in) ==
  [table |-> t, val |-> [c \in Columns[t] |->
     IF c \in used THEN (IF c \in DOMAIN in THEN in[c] ELSE NULL) ELSE Default[t][c]]]

\* The columns of a multi-row INSERT are those any row sets; DEFAULT where a
\* row does not.
ManyRow(t, used, in) ==
  [table |-> t, val |-> [c \in Columns[t] |->
     IF c \in used THEN (IF c \in DOMAIN in THEN in[c] ELSE Default[t][c]) ELSE Default[t][c]]]

CreateMany(rows, t, ins) ==
  LET used == UNION {DOMAIN ins[i] : i \in DOMAIN ins}
      new == {ManyRow(t, used, ins[i]) : i \in DOMAIN ins} IN
    IF used = {} THEN Refused(rows)
    ELSE IF Cardinality(new \ rows) < Cardinality(DOMAIN ins) THEN Outcome("failed", rows, 0)
    ELSE Done(rows, rows \cup new, Cardinality(new))

\* The rows a key argument names.
ByKey(rows, t, key, value) == {row \in rows : row.table = t /\ HasKey(row, key, value)}

UpdateByKey(rows, t, key, value, patch) ==
  IF DOMAIN patch = {} THEN Refused(rows)
  ELSE IF ByKey(rows, t, key, value) = {} THEN Outcome("no row", rows, 0)
  ELSE UpdateDone(rows, ByKey(rows, t, key, value), patch)

DeleteByKey(rows, t, key, value) ==
  LET gone == ByKey(rows, t, key, value) IN DoneOne(rows, rows \ gone, Cardinality(gone))

\* MUTANT of UpsertSets: columns that are not given are reset to their defaults.
UpsertSetsAll(t, key, in) ==
  [c \in Columns[t] \ key |-> NewRow(t, in).val[c]]

\* The SET list of ON CONFLICT: what is given beside the target, from EXCLUDED;
\* the target itself when nothing else is.
UpsertSets(t, key, in) ==
  [c \in (IF DOMAIN in \ key = {} THEN key ELSE DOMAIN in \ key) |-> in[c]]

Upsert(rows, t, key, in) ==
  LET conflicting == ByKey(rows, t, key, NewRow(t, in).val) IN
    IF ~(key \subseteq DOMAIN in) THEN Refused(rows)
    ELSE IF \E c \in NotNull[t] : NewRow(t, in).val[c] = NULL THEN Outcome("failed", rows, 0)
    ELSE IF conflicting = {} THEN Create(rows, t, in)
    ELSE UpdateDone(rows, conflicting, UpsertSets(t, key, in))

\* MUTANT of UpdateMany: like an update by key, a miss is an error.
UpdateManyOrNone(rows, t, f, patch) ==
  IF DOMAIN patch = {} THEN Refused(rows)
  ELSE IF Selected(rows, t, f) = {} THEN Outcome("no row", rows, 0)
  ELSE UpdateDone(rows, Selected(rows, t, f), patch)

UpdateMany(rows, t, f, patch) ==
  IF DOMAIN patch = {} THEN Refused(rows)
  ELSE UpdateDone(rows, Selected(rows, t, f), patch)

DeleteMany(rows, t, f) ==
  LET gone == Selected(rows, t, f) IN Done(rows, rows \ gone, Cardinality(gone))
------------------------------------------------------------------------------
Init == db \in Seeds /\ answer = [status |-> "none", count |-> 0]

Apply(outcome) ==
  /\ db' = outcome.db
  /\ answer' = [status |-> outcome.status, count |-> outcome.count]

KeyArguments(key) == [key -> KeyValues]

CreateField == \E t \in Tables : \E in \in CreateInputs[t] : Apply(Create(db, t, in))
CreateManyField ==
  \E t \in Tables : \E a, b \in CreateInputs[t] : Apply(CreateMany(db, t, <<a, b>>))
UpdateField ==
  \E t \in Tables : \E key \in Keys[t], patch \in Patches[t] : \E value \in KeyArguments(key) :
    Apply(UpdateByKey(db, t, key, value, patch))
DeleteField ==
  \E t \in Tables : \E key \in Keys[t] : \E value \in KeyArguments(key) :
    Apply(DeleteByKey(db, t, key, value))
UpsertField ==
  \E t \in Tables : \E key \in Keys[t], in \in CreateInputs[t] : Apply(Upsert(db, t, key, in))
UpdateManyField ==
  \E t \in Tables : \E f \in FiltersOf[t], patch \in Patches[t] : Apply(UpdateMany(db, t, f, patch))
DeleteManyField ==
  \E t \in Tables : \E f \in FiltersOf[t] : Apply(DeleteMany(db, t, f))

Next ==
  \/ CreateField \/ CreateManyField \/ UpdateField \/ DeleteField
  \/ UpsertField \/ UpdateManyField \/ DeleteManyField

Spec == Init /\ [][Next]_vars
------------------------------------------------------------------------------
\* No column of any row is NULL.
Known == \A row \in db : \A c \in DOMAIN row.val : row.val[c] # NULL

\* filterCond and relationExists: a filter selects the rows it describes,
\* through any nesting of and, or, not and quantified relations; where a NULL
\* could make the two readings differ, for filters that negate nothing.
FilterSelects ==
  \A t \in Tables : \A f \in FiltersOf[t] :
    (\A e \in f : Complete[e]) /\ (Known \/ \A e \in f : Positive[e])
      => Selected(db, t, f) = Meant(db, t, f)

\* createManyCTE and insertCTE: creating two rows in one statement is creating
\* one after the other, defaults and explicit nulls included; when one cannot be
\* created, none is.  Only a reference of the first to the second makes a difference.
Refers(row, other) ==
  \E fk \in FKs : /\ fk.table = row.table /\ fk.ref = other.table
                 /\ row.val[fk.column] = other.val[fk.refColumn]
CreateManyIsCreates ==
  \A t \in Tables : \A a, b \in CreateInputs[t] :
    LET many == CreateMany(db, t, <<a, b>>)
        one == Create(db, t, a)
        two == Create(one.db, t, b) IN
      many.status # "refused" =>
        IF one.status = "ok" /\ two.status = "ok" THEN many = [two EXCEPT !.count = 2]
        ELSE (many.status = "ok" /\ Refers(NewRow(t, a), NewRow(t, b))) \/ many = Outcome("failed", db, 0)

\* A column that must have a value gets none from the input.
Lacks(t, in) == \E c \in NotNull[t] \ DOMAIN in : Default[t][c] = NULL

\* upsertCTE: with a row under the key it updates the row exactly as an update by
\* key with the other columns given would, and changes nothing when there are
\* none; otherwise it does what a create does.  So it also does, and fails, when the
\* input is not enough for a new row, whether or not it would need one: the server
\* looks at NOT NULL before it looks for a conflict.
UpsertIsUpdateOrCreate ==
  \A t \in Tables : \A key \in Keys[t], in \in CreateInputs[t] :
    key \subseteq DOMAIN in =>
      Upsert(db, t, key, in) =
        IF ByKey(db, t, key, in) = {} \/ Lacks(t, in) THEN Create(db, t, in)
        ELSE IF DOMAIN in = key THEN Outcome("ok", db, 1)
        ELSE UpdateByKey(db, t, key, in, [c \in DOMAIN in \ key |-> in[c]])

\* One row after the other, up to the first that fails.
DeleteEach(rows, t, key, listed) ==
  FoldSet(LAMBDA row, acc : IF acc.status # "ok" THEN acc
                            ELSE [DeleteByKey(acc.db, t, key, row.val) EXCEPT !.count = acc.count + 1],
          Outcome("ok", rows, 0), listed)
UpdateEach(rows, t, key, patch, listed) ==
  FoldSet(LAMBDA row, acc : IF acc.status # "ok" THEN acc
                            ELSE [UpdateByKey(acc.db, t, key, row.val, patch) EXCEPT !.count = acc.count + 1],
          Outcome("ok", rows, 0), listed)
RefersToItself(t) == \E fk \in FKs : fk.table = t /\ fk.ref = t
AllOrNothing(t, bulk, each) ==
  bulk = IF each.status = "ok" THEN each
         ELSE IF bulk.status = "ok" /\ RefersToItself(t) THEN bulk
         ELSE Outcome("failed", db, 0)

\* updateManyCTE, deleteManyCTE, updateCTE, deleteCTE: a bulk mutation does to the
\* rows the filter lists, and to no others, what a mutation by key does to each,
\* all or nothing, and counts them; no row is no error.  Of a table that refers to
\* itself, rows can go together that cannot go one by one.
BulkIsEach ==
  \A t \in Tables : \A f \in FiltersOf[t], key \in Keys[t] :
    key \subseteq NotNull[t] =>
      LET listed == Selected(db, t, f) IN
        /\ AllOrNothing(t, DeleteMany(db, t, f), DeleteEach(db, t, key, listed))
        /\ \A patch \in Patches[t] : DOMAIN patch \cap key = {} /\ DOMAIN patch # {} =>
             AllOrNothing(t, UpdateMany(db, t, f, patch), UpdateEach(db, t, key, patch, listed))
=============================================================================
