---------------------------- MODULE Mutations_proof ----------------------------
(***************************************************************************)
(* The generated mutations and filters of Mutations, for any tables, keys,   *)
(* foreign keys, filters and inputs, and any finite database that respects    *)
(* the constraints of the tables.  Each statement keeps those, so what is     *)
(* shown of one statement on such a database holds in every reachable state.  *)
(***************************************************************************)
EXTENDS Mutations, FiniteSetTheorems, WellFoundedInduction, TLAPS

Rows(S) == IsFiniteSet(S) /\ \A row \in S : IsRow(row)
Database(rows) == Rows(rows) /\ Allowed(rows)
Inv == Database(db)

\* A row is determined by its table and its columns.
LEMMA RowIs ==
  ASSUME NEW row, IsRow(row)
  PROVE  row.table \in Tables /\ DOMAIN row.val = Columns[row.table]
<1>1. row.val = [c \in Columns[row.table] |-> row.val[c]]
  BY DEF IsRow
<1> QED
  BY <1>1 DEF IsRow

LEMMA SameRow ==
  ASSUME NEW row, IsRow(row), NEW other, IsRow(other), row.table = other.table,
         \A c \in Columns[row.table] : row.val[c] = other.val[c]
  PROVE  row = other
<1>1. row = [table |-> row.table, val |-> [c \in Columns[row.table] |-> row.val[c]]]
  BY DEF IsRow
<1>2. other = [table |-> other.table, val |-> [c \in Columns[other.table] |-> other.val[c]]]
  BY DEF IsRow
<1>3. [c \in Columns[row.table] |-> row.val[c]] = [c \in Columns[other.table] |-> other.val[c]]
  OBVIOUS
<1> QED
  BY <1>1, <1>2, <1>3

LEMMA NewRowIs ==
  ASSUME NEW t \in Tables, NEW in
  PROVE  /\ IsRow(NewRow(t, in)) /\ NewRow(t, in).table = t
         /\ \A c \in Columns[t] : NewRow(t, in).val[c] = IF c \in DOMAIN in THEN in[c] ELSE Default[t][c]
BY DEF IsRow, NewRow

LEMMA PatchedIs ==
  ASSUME NEW row, IsRow(row), NEW patch
  PROVE  /\ IsRow(Patched(row, patch)) /\ Patched(row, patch).table = row.table
         /\ \A c \in Columns[row.table] :
              Patched(row, patch).val[c] = IF c \in DOMAIN patch THEN patch[c] ELSE row.val[c]
<1> DEFINE val == [c \in Columns[row.table] |-> IF c \in DOMAIN patch THEN patch[c] ELSE row.val[c]]
<1>1. row.table \in Tables /\ DOMAIN row.val = Columns[row.table]
  BY RowIs
<1>2. Patched(row, patch) = [row EXCEPT !.val = val]
  BY <1>1 DEF Patched
<1>3. row = [table |-> row.table, val |-> [c \in Columns[row.table] |-> row.val[c]]]
  BY DEF IsRow
<1> HIDE DEF val
<1>4. [row EXCEPT !.val = val] = [table |-> row.table, val |-> val]
  BY <1>3
<1>5. [table |-> row.table, val |-> val] = [table |-> row.table, val |-> [c \in Columns[row.table] |-> val[c]]]
  BY DEF val
<1> QED
  BY <1>1, <1>2, <1>4, <1>5 DEF IsRow, val

LEMMA ImageFinite ==
  ASSUME NEW S, IsFiniteSet(S), NEW f, NEW image, image = {f[x] : x \in S}
  PROVE  IsFiniteSet(image) /\ Cardinality(image) <= Cardinality(S)
<1> DEFINE g == [x \in S |-> f[x]]
<1>1. g \in Surjection(S, image)
  BY DEF Surjection
<1> HIDE DEF g
<1> QED
  BY <1>1, FS_Surjection

\* The rows of an update.
LEMMA UpdateRows ==
  ASSUME NEW rows, Rows(rows), NEW matched \in SUBSET rows, NEW patch
  PROVE  Rows(Update(rows, matched, patch))
<1> DEFINE f == [row \in matched |-> Patched(row, patch)]
           image == {Patched(row, patch) : row \in matched}
<1>1. IsFiniteSet(matched) /\ IsFiniteSet(rows \ matched)
  BY FS_Subset DEF Rows
<1>2. image = {f[row] : row \in matched}
  OBVIOUS
<1>3. \A row \in image : IsRow(row)
  BY PatchedIs DEF Rows
<1>4. Update(rows, matched, patch) = (rows \ matched) \cup image
  BY DEF Update
<1> HIDE DEF image, f
<1>5. IsFiniteSet(image)
  BY <1>1, <1>2, ImageFinite
<1>6. IsFiniteSet((rows \ matched) \cup image)
  BY <1>1, <1>5, FS_Union
<1> QED
  BY <1>3, <1>4, <1>6 DEF Rows

\* What a statement leaves is a database.
LEMMA DoneIs ==
  ASSUME NEW rows, Database(rows), NEW new, Rows(new), NEW n
  PROVE  Database(Done(rows, new, n).db)
BY DEF Done, Outcome, Database

LEMMA UpdateDoneIs ==
  ASSUME NEW rows, Database(rows), NEW matched \in SUBSET rows, NEW patch
  PROVE  Database(UpdateDone(rows, matched, patch).db)
<1>1. Rows(Update(rows, matched, patch))
  BY UpdateRows DEF Database
<1>2. Database(Done(rows, Update(rows, matched, patch), Cardinality(matched)).db)
  BY <1>1, DoneIs
<1> QED
  BY <1>2 DEF UpdateDone, Outcome

LEMMA CreateIs ==
  ASSUME NEW rows, Database(rows), NEW t \in Tables, NEW in
  PROVE  Database(Create(rows, t, in).db)
<1>1. Rows(rows \cup {NewRow(t, in)})
  BY FS_AddElement, NewRowIs DEF Database, Rows
<1>2. Database(Done(rows, rows \cup {NewRow(t, in)}, 1).db)
  BY <1>1, DoneIs
<1> QED
  BY <1>2 DEF Create, Outcome

LEMMA UpdateByKeyIs ==
  ASSUME NEW rows, Database(rows), NEW t, NEW key, NEW value, NEW patch
  PROVE  Database(UpdateByKey(rows, t, key, value, patch).db)
<1>1. ByKey(rows, t, key, value) \in SUBSET rows
  BY DEF ByKey
<1>2. Database(UpdateDone(rows, ByKey(rows, t, key, value), patch).db)
  BY <1>1, UpdateDoneIs
<1> QED
  BY <1>2 DEF UpdateByKey, Refused, Outcome

LEMMA DeletedIs ==
  ASSUME NEW rows, Database(rows), NEW gone
  PROVE  Rows(rows \ gone)
BY FS_Subset DEF Database, Rows

LEMMA DeleteByKeyIs ==
  ASSUME NEW rows, Database(rows), NEW t, NEW key, NEW value
  PROVE  Database(DeleteByKey(rows, t, key, value).db)
<1> DEFINE gone == ByKey(rows, t, key, value)
<1>1. Rows(rows \ gone)
  BY DeletedIs
<1>2. Database(Done(rows, rows \ gone, Cardinality(gone)).db)
  BY <1>1, DoneIs
<1> QED
  BY <1>2 DEF DeleteByKey, DoneOne, Outcome

LEMMA UpsertIs ==
  ASSUME NEW rows, Database(rows), NEW t \in Tables, NEW key, NEW in
  PROVE  Database(Upsert(rows, t, key, in).db)
<1>1. ByKey(rows, t, key, NewRow(t, in).val) \in SUBSET rows
  BY DEF ByKey
<1>2. Database(UpdateDone(rows, ByKey(rows, t, key, NewRow(t, in).val), UpsertSets(t, key, in)).db)
  BY <1>1, UpdateDoneIs
<1> QED
  BY <1>2, CreateIs DEF Upsert, Refused, Outcome
\* In a multi-row INSERT each row is what it is in an INSERT of its own.
LEMMA ManyRowIs ==
  ASSUME NEW t, NEW in, NEW used, DOMAIN in \subseteq used
  PROVE  ManyRow(t, used, in) = NewRow(t, in)
BY DEF ManyRow, NewRow

LEMMA TwoElements == \A x, y : IsFiniteSet({x, y}) /\ Cardinality({x, y}) = IF x = y THEN 1 ELSE 2
<1> SUFFICES ASSUME NEW x, NEW y PROVE IsFiniteSet({x, y}) /\ Cardinality({x, y}) = IF x = y THEN 1 ELSE 2
  OBVIOUS
<1>1. IsFiniteSet({x}) /\ Cardinality({x}) = 1 /\ {x, y} = {x} \cup {y}
  BY FS_Singleton
<1> QED
  BY <1>1, FS_AddElement

LEMMA ManyRowsAre ==
  ASSUME NEW t, NEW a, NEW b
  PROVE  CreateMany(db, t, <<a, b>>) =
           IF DOMAIN a \cup DOMAIN b = {} THEN Refused(db)
           ELSE IF Cardinality({NewRow(t, a), NewRow(t, b)} \ db) < 2 THEN Outcome("failed", db, 0)
           ELSE Done(db, db \cup {NewRow(t, a), NewRow(t, b)}, Cardinality({NewRow(t, a), NewRow(t, b)}))
<1> DEFINE ins == <<a, b>>
           used == UNION {DOMAIN ins[i] : i \in DOMAIN ins}
<1>1. DOMAIN ins = {1, 2} /\ ins[1] = a /\ ins[2] = b
  OBVIOUS
<1>2. used = DOMAIN a \cup DOMAIN b
  BY <1>1
<1>3. Cardinality(DOMAIN ins) = 2
  <2>1. Cardinality({1, 2}) = 2
    BY TwoElements
  <2> HIDE DEF ins
  <2> QED
    BY <1>1, <2>1
<1>4. ManyRow(t, used, a) = NewRow(t, a) /\ ManyRow(t, used, b) = NewRow(t, b)
  BY <1>2, ManyRowIs
<1> HIDE DEF used
<1>5. {ManyRow(t, used, ins[i]) : i \in DOMAIN ins} = {NewRow(t, a), NewRow(t, b)}
  BY <1>1, <1>4
<1> QED
  BY <1>2, <1>3, <1>5 DEF CreateMany, used

LEMMA CreateManyIs ==
  ASSUME Database(db), NEW t \in Tables, NEW a, NEW b
  PROVE  Database(CreateMany(db, t, <<a, b>>).db)
<1> DEFINE new == {NewRow(t, a), NewRow(t, b)}
<1>1. IsFiniteSet(new)
  BY TwoElements
<1>2. \A row \in new : IsRow(row)
  BY NewRowIs
<1> HIDE DEF new
<1>3. Rows(db \cup new)
  BY <1>1, <1>2, FS_Union DEF Database, Rows
<1>4. Database(Done(db, db \cup new, Cardinality(new)).db)
  BY <1>3, DoneIs
<1>5. \/ CreateMany(db, t, <<a, b>>) \in {Refused(db), Outcome("failed", db, 0)}
      \/ CreateMany(db, t, <<a, b>>) = Done(db, db \cup new, Cardinality(new))
  BY ManyRowsAre DEF new
<1>6. Refused(db).db = db /\ Outcome("failed", db, 0).db = db
  BY DEF Refused, Outcome
<1> QED
  BY <1>4, <1>5, <1>6

LEMMA SelectedRows ==
  ASSUME NEW rows, NEW t, NEW f
  PROVE  Selected(rows, t, f) \in SUBSET rows /\ \A row \in Selected(rows, t, f) : row.table = t
BY DEF Selected

LEMMA UpdateManyIs ==
  ASSUME NEW rows, Database(rows), NEW t, NEW f, NEW patch
  PROVE  Database(UpdateMany(rows, t, f, patch).db)
<1>1. Database(UpdateDone(rows, Selected(rows, t, f), patch).db)
  BY SelectedRows, UpdateDoneIs
<1> QED
  BY <1>1 DEF UpdateMany, Refused, Outcome

LEMMA DeleteManyIs ==
  ASSUME NEW rows, Database(rows), NEW t, NEW f
  PROVE  Database(DeleteMany(rows, t, f).db)
<1> DEFINE gone == Selected(rows, t, f)
<1>1. Rows(rows \ gone)
  BY DeletedIs
<1>2. Database(Done(rows, rows \ gone, Cardinality(gone)).db)
  BY <1>1, DoneIs
<1> QED
  BY <1>2 DEF DeleteMany

LEMMA InitInv == Init => Inv
BY SeedAssumption DEF Init, Inv, Database, Rows

LEMMA StepInv == Inv /\ [Next]_vars => Inv'
<1> SUFFICES ASSUME Inv, [Next]_vars PROVE Database(db')
  BY DEF Inv
<1>0. Database(db)
  BY DEF Inv
<1>1. CASE CreateField
  BY <1>0, <1>1, CreateIs DEF CreateField, Apply
<1>2. CASE CreateManyField
  BY <1>0, <1>2, CreateManyIs DEF CreateManyField, Apply
<1>3. CASE UpdateField
  BY <1>0, <1>3, UpdateByKeyIs DEF UpdateField, Apply
<1>4. CASE DeleteField
  BY <1>0, <1>4, DeleteByKeyIs DEF DeleteField, Apply
<1>5. CASE UpsertField
  BY <1>0, <1>5, UpsertIs DEF UpsertField, Apply
<1>6. CASE UpdateManyField
  BY <1>0, <1>6, UpdateManyIs DEF UpdateManyField, Apply
<1>7. CASE DeleteManyField
  BY <1>0, <1>7, DeleteManyIs DEF DeleteManyField, Apply
<1>8. CASE UNCHANGED vars
  BY <1>0, <1>8 DEF vars
<1> QED
  BY <1>1, <1>2, <1>3, <1>4, <1>5, <1>6, <1>7, <1>8 DEF Next

\* Every reachable database is finite, has rows of its tables only, and respects
\* their constraints, whatever is sent.
THEOREM DatabaseKept == Spec => []Inv
BY InitInv, StepInv, PTL DEF Spec
-----------------------------------------------------------------------------
\* Rows under a key.

LEMMA OneUnderKey ==
  ASSUME NEW rows, Allowed(rows), NEW t, NEW key \in Keys[t], NEW value,
         NEW row \in ByKey(rows, t, key, value)
  PROVE  ByKey(rows, t, key, value) = {row}
<1>1. ASSUME NEW other \in ByKey(rows, t, key, value), other # row PROVE FALSE
  <2>1. HasKey(other, key, value) /\ HasKey(row, key, value) /\ row.table = t /\ other.table = t
        /\ row \in rows /\ other \in rows \ {row}
    BY <1>1 DEF ByKey
  <2>2. HasKey(other, key, row.val)
    BY <2>1 DEF HasKey
  <2> QED
    BY <2>1, <2>2 DEF Allowed
<1> QED
  BY <1>1

LEMMA KeyColumns ==
  ASSUME NEW t \in Tables, NEW key \in Keys[t]
  PROVE  key \subseteq Columns[t]
BY TableAssumption

LEMMA SameKeyValues ==
  ASSUME NEW rows, NEW t, NEW key, NEW v, NEW w, \A c \in key : v[c] = w[c]
  PROVE  ByKey(rows, t, key, v) = ByKey(rows, t, key, w)
BY DEF ByKey, HasKey

\* A patch that says what is there changes nothing.
LEMMA NothingPatched ==
  ASSUME NEW rows, Rows(rows), NEW matched \in SUBSET rows, NEW patch,
         \A row \in matched : \A c \in DOMAIN patch : patch[c] = row.val[c]
  PROVE  Update(rows, matched, patch) = rows
<1>1. ASSUME NEW row \in matched PROVE Patched(row, patch) = row
  <2>1. IsRow(row) /\ IsRow(Patched(row, patch)) /\ Patched(row, patch).table = row.table
        /\ \A c \in Columns[row.table] :
             Patched(row, patch).val[c] = IF c \in DOMAIN patch THEN patch[c] ELSE row.val[c]
    BY PatchedIs DEF Rows
  <2> QED
    BY <2>1, SameRow
<1>2. {Patched(row, patch) : row \in matched} = matched
  BY <1>1
<1> QED
  BY <1>2 DEF Update

\* A row without a value for a NOT NULL column is not to be had.
LEMMA NullRefused ==
  ASSUME NEW new, NEW row \in new, NEW c \in NotNull[row.table], row.val[c] = NULL
  PROVE  ~Allowed(new)
BY DEF Allowed

LEMMA CreateNull ==
  ASSUME NEW t \in Tables, NEW in, NEW c \in NotNull[t], NewRow(t, in).val[c] = NULL
  PROVE  Create(db, t, in) = Outcome("failed", db, 0)
<1>1. NewRow(t, in).table = t
  BY NewRowIs
<1>2. ~Allowed(db \cup {NewRow(t, in)})
  BY <1>1, NullRefused
<1> QED
  BY <1>2 DEF Create, Done

LEMMA UpdateNull ==
  ASSUME Database(db), NEW t \in Tables, NEW matched \in SUBSET db, NEW row \in matched, row.table = t,
         NEW patch, NEW c \in NotNull[t], c \in DOMAIN patch, patch[c] = NULL
  PROVE  UpdateDone(db, matched, patch) = Outcome("failed", db, 0)
<1>1. IsRow(row) /\ c \in Columns[t]
  BY TableAssumption DEF Database, Rows
<1>2. Patched(row, patch).table = t /\ Patched(row, patch).val[c] = NULL
  BY <1>1, PatchedIs
<1>3. Patched(row, patch) \in Update(db, matched, patch)
  BY DEF Update
<1>4. ~Allowed(Update(db, matched, patch))
  BY <1>2, <1>3, NullRefused
<1> QED
  BY <1>4 DEF UpdateDone, Done

LEMMA UpsertStep ==
  ASSUME Database(db), NEW t \in Tables, NEW key \in Keys[t], NEW in \in CreateInputs[t],
         key \subseteq DOMAIN in
  PROVE  Upsert(db, t, key, in) =
           IF ByKey(db, t, key, in) = {} \/ Lacks(t, in) THEN Create(db, t, in)
           ELSE IF DOMAIN in = key THEN Outcome("ok", db, 1)
           ELSE UpdateByKey(db, t, key, in, [c \in DOMAIN in \ key |-> in[c]])
<1> DEFINE new == NewRow(t, in)
           M == ByKey(db, t, key, in)
           patch == [c \in DOMAIN in \ key |-> in[c]]
<1>0. DOMAIN in \subseteq Columns[t]
  BY TableAssumption
<1>1. \A c \in Columns[t] : new.val[c] = IF c \in DOMAIN in THEN in[c] ELSE Default[t][c]
  BY NewRowIs
<1>2. NotNull[t] \subseteq Columns[t]
  BY TableAssumption
<1>3. ByKey(db, t, key, new.val) = M
  BY <1>0, <1>1, SameKeyValues
<1>4. M \in SUBSET db /\ \A row \in M : row.table = t /\ HasKey(row, key, in)
  BY DEF ByKey
<1> HIDE DEF new, M
<1>5. Upsert(db, t, key, in) =
        IF \E c \in NotNull[t] : new.val[c] = NULL THEN Outcome("failed", db, 0)
        ELSE IF M = {} THEN Create(db, t, in)
        ELSE UpdateDone(db, M, UpsertSets(t, key, in))
  BY <1>3 DEF Upsert, new
<1>6. CASE Lacks(t, in)
  <2>1. PICK c \in NotNull[t] \ DOMAIN in : Default[t][c] = NULL
    BY <1>6 DEF Lacks
  <2>2. c \in NotNull[t] /\ new.val[c] = NULL
    BY <1>1, <1>2, <2>1
  <2>3. Create(db, t, in) = Outcome("failed", db, 0)
    BY <2>2, CreateNull DEF new
  <2> QED
    BY <1>5, <1>6, <2>2, <2>3
<1>7. CASE M = {} /\ ~Lacks(t, in)
  <2>1. CASE \E c \in NotNull[t] : new.val[c] = NULL
    BY <1>5, <1>7, <2>1, CreateNull DEF new, M
  <2>2. CASE ~\E c \in NotNull[t] : new.val[c] = NULL
    BY <1>5, <1>7, <2>2 DEF M
  <2> QED
    BY <2>1, <2>2
<1>8. CASE M # {} /\ ~Lacks(t, in) /\ DOMAIN in = key
  <2>1. PICK row \in M : TRUE
    BY <1>8
  <2>2. M = {row}
    BY <2>1, OneUnderKey DEF M, Database
  <2>3. ASSUME NEW c \in NotNull[t] PROVE new.val[c] # NULL
    <3>1. CASE c \in key
      BY <1>1, <1>2, <1>4, <1>8, <2>1, <3>1 DEF HasKey
    <3>2. CASE c \notin key
      BY <1>1, <1>2, <1>8, <3>2 DEF Lacks
    <3> QED
      BY <3>1, <3>2
  <2>4. UpsertSets(t, key, in) = [c \in key |-> in[c]]
    BY <1>8 DEF UpsertSets
  <2>5. \A x \in M : \A c \in DOMAIN UpsertSets(t, key, in) : UpsertSets(t, key, in)[c] = x.val[c]
    BY <1>4, <2>4 DEF HasKey
  <2>6. Update(db, M, UpsertSets(t, key, in)) = db
    BY <1>4, <2>5, NothingPatched DEF Database
  <2>7. Cardinality(M) = 1 /\ Cardinality(db) \in Nat
    BY <2>2, FS_Singleton, FS_CardinalityType DEF Database, Rows
  <2>8. UpdateDone(db, M, UpsertSets(t, key, in)) = Done(db, db, 1)
    BY <2>6, <2>7 DEF UpdateDone
  <2>9. Done(db, db, 1) = Outcome("ok", db, 1)
    BY DEF Done, Database
  <2> QED
    BY <1>5, <1>8, <2>3, <2>8, <2>9 DEF M
<1>9. CASE M # {} /\ ~Lacks(t, in) /\ DOMAIN in # key
  <2>1. DOMAIN patch # {} /\ UpsertSets(t, key, in) = patch
    BY <1>9 DEF UpsertSets
  <2>2. UpdateByKey(db, t, key, in, patch) = UpdateDone(db, M, patch)
    BY <1>9, <2>1 DEF UpdateByKey, M
  <2>3. ASSUME NEW c \in NotNull[t], new.val[c] = NULL PROVE UpdateDone(db, M, patch) = Outcome("failed", db, 0)
    <3>1. PICK row \in M : TRUE
      BY <1>9
    <3>2. c \in DOMAIN in /\ in[c] = NULL
      BY <1>1, <1>2, <1>9, <2>3 DEF Lacks
    <3>3. c \in DOMAIN patch /\ patch[c] = NULL
      BY <1>4, <3>1, <3>2 DEF HasKey
    <3> QED
      BY <1>4, <3>1, <3>3, UpdateNull
  <2> QED
    BY <1>5, <1>9, <2>1, <2>2, <2>3 DEF M
<1> QED
  BY <1>6, <1>7, <1>8, <1>9

\* An upsert is an update by its key when a row is there and the input is enough to
\* create one, and does what a create does otherwise (upsertCTE), for any tables and
\* any inputs, those that leave out a required column included, in every reachable
\* database.
THEOREM UpsertUpdatesOrCreates == Spec => []UpsertIsUpdateOrCreate
<1>1. Inv => UpsertIsUpdateOrCreate
  BY UpsertStep DEF Inv, UpsertIsUpdateOrCreate
<1> QED
  BY <1>1, DatabaseKept, PTL
-----------------------------------------------------------------------------
\* Rows that come and go.

LEMMA TwoAreNew ==
  ASSUME NEW x, NEW y, NEW rows
  PROVE  Cardinality({x, y} \ rows) >= 2 <=> x # y /\ x \notin rows /\ y \notin rows
<1>1. CASE x # y /\ x \notin rows /\ y \notin rows
  <2>1. {x, y} \ rows = {x, y}
    BY <1>1
  <2>2. Cardinality({x, y}) = 2
    BY <1>1, TwoElements
  <2> QED
    BY <1>1, <2>1, <2>2
<1>2. CASE ~(x # y /\ x \notin rows /\ y \notin rows)
  <2>1. {x, y} \ rows \in {{}, {x}, {y}}
    BY <1>2
  <2>2. Cardinality({}) = 0 /\ Cardinality({x}) = 1 /\ Cardinality({y}) = 1
    BY FS_EmptySet, FS_Singleton
  <2> QED
    BY <1>2, <2>1, <2>2
<1> QED
  BY <1>1, <1>2

\* A row alone is allowed where it is allowed together with one it does not refer to.
LEMMA WithoutOther ==
  ASSUME NEW rows, Allowed(rows), NEW x, NEW y, Allowed(rows \cup {x, y}), ~Refers(x, y)
  PROVE  Allowed(rows \cup {x})
<1>1. ASSUME NEW row \in rows \cup {x}
      PROVE  /\ \A c \in NotNull[row.table] : row.val[c] # NULL
             /\ \A key \in Keys[row.table] : \A other \in (rows \cup {x}) \ {row} :
                  other.table = row.table => ~HasKey(other, key, row.val)
  BY DEF Allowed
<1>2. ASSUME NEW fk \in FKs, NEW row \in rows \cup {x}, row.table = fk.table, row.val[fk.column] # NULL
      PROVE  \E z \in rows \cup {x} : z.table = fk.ref /\ z.val[fk.refColumn] = row.val[fk.column]
  <2>1. CASE row \in rows
    BY <1>2, <2>1 DEF Allowed
  <2>2. CASE row = x
    <3>1. PICK z \in rows \cup {x, y} : z.table = fk.ref /\ z.val[fk.refColumn] = x.val[fk.column]
      BY <1>2, <2>2 DEF Allowed
    <3>2. z # y
      BY <1>2, <2>2, <3>1 DEF Refers
    <3> QED
      BY <2>2, <3>1, <3>2
  <2> QED
    BY <2>1, <2>2
<1> QED
  BY <1>1, <1>2 DEF Allowed

LEMMA CreateManyStep ==
  ASSUME Database(db), NEW t \in Tables, NEW a, NEW b,
         CreateMany(db, t, <<a, b>>).status # "refused"
  PROVE  LET many == CreateMany(db, t, <<a, b>>)
             one == Create(db, t, a)
             two == Create(one.db, t, b) IN
           IF one.status = "ok" /\ two.status = "ok" THEN many = [two EXCEPT !.count = 2]
           ELSE (many.status = "ok" /\ Refers(NewRow(t, a), NewRow(t, b))) \/ many = Outcome("failed", db, 0)
<1> DEFINE x == NewRow(t, a)
           y == NewRow(t, b)
           many == CreateMany(db, t, <<a, b>>)
           one == Create(db, t, a)
           two == Create(one.db, t, b)
           both == x # y /\ x \notin db /\ y \notin db /\ Allowed(db \cup {x, y})
<1>1. many = IF both THEN Outcome("ok", db \cup {x, y}, 2) ELSE Outcome("failed", db, 0)
  <2>1. many = IF Cardinality({x, y} \ db) < 2 THEN Outcome("failed", db, 0)
               ELSE Done(db, db \cup {x, y}, Cardinality({x, y}))
    BY ManyRowsAre DEF Refused, Outcome
  <2>2. Cardinality({x, y} \ db) \in Nat
    <3> HIDE DEF x, y
    <3>1. IsFiniteSet({x, y} \ db)
      BY TwoElements, FS_Difference
    <3> QED
      BY <3>1, FS_CardinalityType
  <2> HIDE DEF x, y, many
  <2>3. Cardinality({x, y} \ db) < 2 <=> ~(x # y /\ x \notin db /\ y \notin db)
    <3>1. Cardinality({x, y} \ db) >= 2 <=> x # y /\ x \notin db /\ y \notin db
      BY TwoAreNew
    <3> QED
      BY <2>2, <3>1
  <2>4. x # y => Cardinality({x, y}) = 2
    BY TwoElements
  <2> QED
    BY <2>1, <2>3, <2>4 DEF Done
<1>2. one = IF x \notin db /\ Allowed(db \cup {x}) THEN Outcome("ok", db \cup {x}, 1) ELSE Outcome("failed", db, 0)
  BY DEF Create, Done
<1>3. two = IF y \notin one.db /\ Allowed(one.db \cup {y}) THEN Outcome("ok", one.db \cup {y}, 1)
            ELSE Outcome("failed", one.db, 0)
  BY DEF Create, Done
<1> HIDE DEF x, y, many, one, two
<1>4. CASE one.status = "ok" /\ two.status = "ok"
  <2>1. x \notin db /\ one.db = db \cup {x}
    BY <1>2, <1>4 DEF Outcome
  <2>2. y \notin one.db /\ Allowed(one.db \cup {y}) /\ two = Outcome("ok", one.db \cup {y}, 1)
    BY <1>3, <1>4 DEF Outcome
  <2>3. (db \cup {x}) \cup {y} = db \cup {x, y}
    OBVIOUS
  <2>4. many = Outcome("ok", db \cup {x, y}, 2) /\ two = Outcome("ok", db \cup {x, y}, 1)
    BY <1>1, <2>1, <2>2, <2>3
  <2>5. many = [two EXCEPT !.count = 2]
    BY <2>4 DEF Outcome
  <2> QED
    BY <1>4, <2>5 DEF many, one, two
<1>5. CASE ~(one.status = "ok" /\ two.status = "ok")
  <2>1. CASE both /\ ~Refers(x, y)
    <3>1. Allowed(db \cup {x})
      BY <2>1, WithoutOther DEF Database
    <3>2. one.status = "ok" /\ one.db = db \cup {x}
      BY <1>2, <2>1, <3>1 DEF Outcome
    <3>3. (db \cup {x}) \cup {y} = db \cup {x, y}
      OBVIOUS
    <3>4. two.status = "ok"
      BY <1>3, <2>1, <3>2, <3>3 DEF Outcome
    <3> QED
      BY <1>5, <3>2, <3>4
  <2>2. CASE both /\ Refers(x, y)
    <3>1. many.status = "ok"
      BY <1>1, <2>2 DEF Outcome
    <3> QED
      BY <1>5, <2>2, <3>1 DEF many, one, two, x, y
  <2>3. CASE ~both
    BY <1>1, <1>5, <2>3 DEF many, one, two
  <2> QED
    BY <2>1, <2>2, <2>3
<1> QED
  BY <1>4, <1>5

\* Two rows created in one statement are two rows created one after the other
\* (createManyCTE), for any tables and inputs, in every reachable database.
THEOREM ManyAreCreated == Spec => []CreateManyIsCreates
<1>1. Inv => CreateManyIsCreates
  BY CreateManyStep DEF Inv, CreateManyIsCreates
<1> QED
  BY <1>1, DatabaseKept, PTL
-----------------------------------------------------------------------------
\* Recursion over what has a rank.

LEMMA Least ==
  ASSUME NEW Ranks, Ranks \subseteq Nat, Ranks # {}
  PROVE  \E n \in Ranks : \A m \in Ranks : n <= m
<1>1. \E n \in Ranks : \A m \in Ranks : ~(<<m, n>> \in OpToRel(<, Nat))
  BY NatLessThanWellFounded, WFMin
<1>2. OpToRel(<, Nat) = {p \in Nat \X Nat : p[1] < p[2]}
  BY Zenon DEF OpToRel
<1>3. PICK n \in Ranks : \A m \in Ranks : ~(<<m, n>> \in {p \in Nat \X Nat : p[1] < p[2]})
  BY <1>1, <1>2, Zenon
<1>4. ASSUME NEW m \in Ranks, m < n PROVE FALSE
  <2>1. <<m, n>> \in Nat \X Nat /\ <<m, n>>[1] < <<m, n>>[2]
    BY <1>4
  <2> QED
    BY <1>3, <2>1
<1> QED
  BY <1>4

\* What an element has when all below it have it, all have.
LEMMA ByRank ==
  ASSUME NEW D, NEW h, \A x \in D : h[x] \in Nat,
         NEW S, \A x \in D : (\A y \in D : h[y] < h[x] => y \in S) => x \in S
  PROVE  D \subseteq S
<1> DEFINE Ranks == {h[x] : x \in D \ S}
<1> SUFFICES ASSUME Ranks # {} PROVE FALSE
  OBVIOUS
<1>0. Ranks \subseteq Nat
  OBVIOUS
<1> HIDE DEF Ranks
<1>1. PICK n \in Ranks : \A m \in Ranks : n <= m
  BY <1>0, Least
<1>2. PICK x \in D \ S : h[x] = n
  BY <1>1 DEF Ranks
<1>3. ASSUME NEW y \in D, h[y] < h[x], y \notin S PROVE FALSE
  <2>1. h[y] \in Ranks /\ h[y] \in Nat /\ n \in Nat
    BY <1>0, <1>1, <1>3 DEF Ranks
  <2>2. n <= h[y] /\ h[y] < n
    BY <1>1, <1>2, <1>3, <2>1
  <2> QED
    BY <2>1, <2>2
<1> QED
  BY <1>2, <1>3

\* A body that looks only at what is below has a function of its own.
Solves(f, B, h, D, n) == \A x \in D : h[x] < n => f[x] = B[f][x]

Agree(f, g, h, D, n) == \A x \in D : h[x] < n => f[x] = g[x]

Local(B, h, D, V) ==
  \A f, g \in [D -> V] : \A x \in D :
    (\A y \in D : h[y] < h[x] => f[y] = g[y]) => B[f][x] = B[g][x]

Solvable(B, D, V) == \E f \in [D -> V] : \A x \in D : f[x] = B[f][x]

LEMMA SolvedOnce ==
  ASSUME NEW D, NEW V, NEW h, \A x \in D : h[x] \in Nat, NEW B, Local(B, h, D, V),
         NEW n \in Nat, NEW f \in [D -> V], NEW g \in [D -> V],
         Solves(f, B, h, D, n), Solves(g, B, h, D, n)
  PROVE  Agree(f, g, h, D, n)
<1> DEFINE S == {x \in D : h[x] < n => f[x] = g[x]}
<1>1. ASSUME NEW x \in D, \A y \in D : h[y] < h[x] => y \in S PROVE x \in S
  <2> SUFFICES ASSUME h[x] < n PROVE f[x] = g[x]
    OBVIOUS
  <2>1. ASSUME NEW y \in D, h[y] < h[x] PROVE f[y] = g[y]
    BY <1>1, <2>1
  <2>2. B[f][x] = B[g][x]
    BY <2>1 DEF Local
  <2> QED
    BY <2>2 DEF Solves
<1> HIDE DEF S
<1>2. D \subseteq S
  BY <1>1, ByRank
<1> QED
  BY <1>2 DEF S, Agree

LEMMA Recursion ==
  ASSUME NEW D, NEW V, V # {}, NEW h, \A x \in D : h[x] \in Nat,
         NEW B, \A f \in [D -> V] : B[f] \in [D -> V], Local(B, h, D, V)
  PROVE  Solvable(B, D, V)
<1> DEFINE Solved == {n \in Nat : \E f \in [D -> V] : Solves(f, B, h, D, n)}
           id == [n \in Nat |-> n]
<1>1. ASSUME NEW n \in Nat, \A m \in Nat : id[m] < id[n] => m \in Solved PROVE n \in Solved
  <2>1. CASE n = 0
    <3>1. PICK v \in V : TRUE
      OBVIOUS
    <3>2. [x \in D |-> v] \in [D -> V]
      OBVIOUS
    <3>3. Solves([x \in D |-> v], B, h, D, 0)
      BY DEF Solves
    <3> QED
      BY <2>1, <3>2, <3>3
  <2>2. CASE n # 0
    <3>1. n - 1 \in Solved
      BY <1>1, <2>2
    <3>2. PICK f \in [D -> V] : Solves(f, B, h, D, n - 1)
      BY <3>1
    <3>3. ASSUME NEW x \in D, h[x] < n PROVE B[f][x] = B[B[f]][x]
      <4>1. ASSUME NEW y \in D, h[y] < h[x] PROVE f[y] = B[f][y]
        <5>1. h[y] < n - 1
          BY <3>3, <4>1
        <5> QED
          BY <3>2, <5>1 DEF Solves
      <4> QED
        BY <4>1 DEF Local
    <3>4. B[f] \in [D -> V] /\ Solves(B[f], B, h, D, n)
      BY <3>3 DEF Solves
    <3> QED
      BY <3>4
  <2> QED
    BY <2>1, <2>2
<1>2. \A n \in Nat : id[n] \in Nat
  OBVIOUS
<1> HIDE DEF Solved, id
<1>3. Nat \subseteq Solved
  BY <1>1, <1>2, ByRank, ZenonT(40)
<1> DEFINE ap(n) == CHOOSE f \in [D -> V] : Solves(f, B, h, D, n)
           whole == [x \in D |-> ap(h[x] + 1)[x]]
<1>4. ASSUME NEW n \in Nat PROVE ap(n) \in [D -> V] /\ Solves(ap(n), B, h, D, n)
  <2>1. \E f \in [D -> V] : Solves(f, B, h, D, n)
    BY <1>3 DEF Solved
  <2> QED
    BY <2>1
<1> HIDE DEF ap
<1>5. whole \in [D -> V]
  <2>1. ASSUME NEW x \in D PROVE ap(h[x] + 1)[x] \in V
    BY <1>4
  <2> QED
    BY <2>1
<1>6. ASSUME NEW x \in D PROVE whole[x] = B[whole][x]
  <2> DEFINE f == ap(h[x] + 1)
  <2>1. f \in [D -> V] /\ Solves(f, B, h, D, h[x] + 1) /\ h[x] \in Nat
    BY <1>4
  <2> HIDE DEF f
  <2>2. ASSUME NEW y \in D, h[y] < h[x] PROVE whole[y] = f[y]
    <3> DEFINE g == ap(h[y] + 1)
    <3>1. h[y] + 1 \in Nat /\ h[y] < h[y] + 1
      OBVIOUS
    <3>2. g \in [D -> V] /\ Solves(g, B, h, D, h[y] + 1)
      BY <1>4, <3>1
    <3>3. whole[y] = g[y]
      OBVIOUS
    <3> HIDE DEF g, whole
    <3>4. Solves(f, B, h, D, h[y] + 1)
      <4>1. ASSUME NEW z \in D, h[z] < h[y] + 1 PROVE h[z] < h[x] + 1
        BY <2>1, <2>2, <4>1
      <4> QED
        BY <2>1, <4>1 DEF Solves
    <3>5. Agree(g, f, h, D, h[y] + 1)
      BY <2>1, <3>1, <3>2, <3>4, SolvedOnce
    <3>6. g[y] = f[y]
      BY <3>1, <3>5 DEF Agree
    <3> QED
      BY <3>3, <3>6
  <2>3. whole[x] = f[x]
    BY DEF f
  <2>4. h[x] < h[x] + 1
    BY <2>1
  <2> HIDE DEF whole
  <2>5. B[whole][x] = B[f][x]
    BY <1>5, <2>1, <2>2 DEF Local
  <2> QED
    BY <2>1, <2>3, <2>4, <2>5 DEF Solves
<1> HIDE DEF whole
<1> QED
  BY <1>5, <1>6 DEF Solvable
\* A fold over a finite set is a recursion over its subsets.
FoldStep(f, S, base, go) == IF S = {} THEN base ELSE go[<<CHOOSE x \in S : TRUE, f[S \ {CHOOSE x \in S : TRUE}]>>]

LEMMA Smaller ==
  ASSUME NEW L, IsFiniteSet(L), NEW S \in SUBSET L, NEW x \in S
  PROVE  /\ Cardinality(S) \in Nat /\ Cardinality(S \ {x}) \in Nat
         /\ Cardinality(S) = Cardinality(S \ {x}) + 1
<1>1. IsFiniteSet(S)
  BY FS_Subset
<1>2. Cardinality(S \ {x}) = Cardinality(S) - 1 /\ IsFiniteSet(S \ {x})
  BY <1>1, FS_RemoveElement
<1>3. Cardinality(S) \in Nat /\ Cardinality(S \ {x}) \in Nat
  BY <1>1, <1>2, FS_CardinalityType
<1> QED
  BY <1>2, <1>3

Foldable(L, V, base, go) == \E f \in [SUBSET L -> V] : \A S \in SUBSET L : f[S] = FoldStep(f, S, base, go)

LEMMA Folded ==
  ASSUME NEW L, IsFiniteSet(L), NEW V, NEW base \in V, NEW go \in [L \X V -> V]
  PROVE  Foldable(L, V, base, go)
<1> DEFINE D == SUBSET L
           h == [S \in D |-> Cardinality(S)]
           B == [f \in [D -> V] |-> [S \in D |-> FoldStep(f, S, base, go)]]
<1>1. ASSUME NEW S \in D, S # {}
      PROVE  /\ (CHOOSE x \in S : TRUE) \in L /\ S \ {CHOOSE x \in S : TRUE} \in D
             /\ h[S \ {CHOOSE x \in S : TRUE}] < h[S]
  <2> DEFINE x == CHOOSE x \in S : TRUE
  <2>1. x \in S
    BY <1>1
  <2> HIDE DEF x
  <2>2. Cardinality(S) \in Nat /\ Cardinality(S \ {x}) \in Nat /\ Cardinality(S) = Cardinality(S \ {x}) + 1
    BY <2>1, Smaller
  <2>3. S \ {x} \in D
    OBVIOUS
  <2> QED
    BY <2>1, <2>2, <2>3 DEF x
<1>2. ASSUME NEW f \in [D -> V], NEW S \in D PROVE FoldStep(f, S, base, go) \in V
  BY <1>1 DEF FoldStep
<1>3. \A S \in D : h[S] \in Nat
  BY FS_Subset, FS_CardinalityType
<1>4. ASSUME NEW f \in [D -> V], NEW g \in [D -> V], NEW S \in D,
             \A X \in D : h[X] < h[S] => f[X] = g[X]
      PROVE  B[f][S] = B[g][S]
  <2>1. FoldStep(f, S, base, go) = FoldStep(g, S, base, go)
    <3>1. S # {} => f[S \ {CHOOSE x \in S : TRUE}] = g[S \ {CHOOSE x \in S : TRUE}]
      BY <1>1, <1>4
    <3> QED
      BY <3>1 DEF FoldStep
  <2> QED
    BY <2>1
<1>5. \A f \in [D -> V] : B[f] \in [D -> V] /\ \A S \in D : B[f][S] = FoldStep(f, S, base, go)
  BY <1>2
<1> HIDE DEF B, h, D
<1>6. Local(B, h, D, V)
  BY <1>4 DEF Local
<1>7. V # {} /\ \A f \in [D -> V] : B[f] \in [D -> V]
  BY <1>5
<1>8. Solvable(B, D, V)
  BY <1>3, <1>6, <1>7, Recursion
<1> QED
  BY <1>5, <1>8 DEF Solvable, D, Foldable
\* Steps and outcomes of the mutations of one row after the other.
Counted(outcome, n) == [outcome EXCEPT !.count = n]
DeleteNext(t, key, row, acc) ==
  IF acc.status # "ok" THEN acc ELSE Counted(DeleteByKey(acc.db, t, key, row.val), acc.count + 1)
UpdateNext(t, key, patch, row, acc) ==
  IF acc.status # "ok" THEN acc ELSE Counted(UpdateByKey(acc.db, t, key, row.val, patch), acc.count + 1)
Outcomes(U) == [status : {"ok", "failed", "no row", "refused"}, db : SUBSET U, count : Nat]

LEMMA CountedIs ==
  ASSUME NEW status, NEW R, NEW n, NEW k
  PROVE  Counted(Outcome(status, R, n), k) = Outcome(status, R, k)
<1> DEFINE o == [status |-> status, db |-> R, count |-> n]
<1>1. o = [status |-> status, db |-> R, count |-> n]
  OBVIOUS
<1> HIDE DEF o
<1>2. [o EXCEPT !.count = k] = [status |-> status, db |-> R, count |-> k]
  BY <1>1
<1> QED
  BY <1>1, <1>2 DEF Outcome, Counted

LEMMA OutcomeIs ==
  ASSUME NEW U, NEW status \in {"ok", "failed", "no row", "refused"}, NEW R \in SUBSET U, NEW k \in Nat
  PROVE  Outcome(status, R, k) \in Outcomes(U)
BY DEF Outcome, Outcomes

LEMMA DeleteNextIs ==
  ASSUME NEW U, NEW t, NEW key, NEW row, NEW acc \in Outcomes(U)
  PROVE  DeleteNext(t, key, row, acc) \in Outcomes(U)
<1> DEFINE gone == ByKey(acc.db, t, key, row.val)
           k == acc.count + 1
<1>1. acc.db \in SUBSET U /\ acc.db \ gone \in SUBSET U /\ k \in Nat
  <2>1. acc.db \in SUBSET U /\ acc.count \in Nat
    BY DEF Outcomes
  <2> HIDE DEF gone
  <2> QED
    BY <2>1
<1>2. \/ DeleteByKey(acc.db, t, key, row.val) = Outcome("no row", acc.db, 0)
      \/ DeleteByKey(acc.db, t, key, row.val) = Outcome("failed", acc.db, 0)
      \/ DeleteByKey(acc.db, t, key, row.val) = Outcome("ok", acc.db \ gone, Cardinality(gone))
  BY DEF DeleteByKey, DoneOne, Done
<1> HIDE DEF gone, k
<1>3. Counted(DeleteByKey(acc.db, t, key, row.val), k)
        \in {Outcome("no row", acc.db, k), Outcome("failed", acc.db, k), Outcome("ok", acc.db \ gone, k)}
  <2>1. \A R, n : /\ Counted(Outcome("no row", R, n), k) = Outcome("no row", R, k)
                  /\ Counted(Outcome("failed", R, n), k) = Outcome("failed", R, k)
                  /\ Counted(Outcome("ok", R, n), k) = Outcome("ok", R, k)
    BY CountedIs, Zenon
  <2> QED
    BY <1>2, <2>1
<1>4. Counted(DeleteByKey(acc.db, t, key, row.val), k) \in Outcomes(U)
  BY <1>1, <1>3, OutcomeIs
<1> QED
  BY <1>4 DEF DeleteNext, k

DeleteSteps(it, rows, t, key, L) ==
  \A S \in SUBSET L :
    it[S] = IF S = {} THEN Outcome("ok", rows, 0)
            ELSE DeleteNext(t, key, CHOOSE x \in S : TRUE, it[S \ {CHOOSE x \in S : TRUE}])

LEMMA DeleteEachIs ==
  ASSUME NEW rows, Rows(rows), NEW t, NEW key, NEW L \in SUBSET rows
  PROVE  \E it : DeleteEach(rows, t, key, L) = it[L] /\ DeleteSteps(it, rows, t, key, L)
<1> DEFINE V == Outcomes(rows)
           base == Outcome("ok", rows, 0)
           go == [p \in L \X V |-> DeleteNext(t, key, p[1], p[2])]
           it == CHOOSE f : f = [S \in SUBSET L |->
                   IF S = {} THEN base
                   ELSE DeleteNext(t, key, CHOOSE x \in S : TRUE, f[S \ {CHOOSE x \in S : TRUE}])]
<1>1. go \in [L \X V -> V]
  BY DeleteNextIs
<1>2. base \in V
  BY DEF Outcome, Outcomes
<1>3. IsFiniteSet(L)
  BY FS_Subset DEF Rows
<1>4. \A x \in L, acc \in V : go[<<x, acc>>] = DeleteNext(t, key, x, acc)
  OBVIOUS
<1>5. DeleteEach(rows, t, key, L) = it[L]
  BY DEF DeleteEach, FoldSet, MapThenFoldSet, DeleteNext, Counted
<1> HIDE DEF go, V
<1>6. PICK f \in [SUBSET L -> V] : \A S \in SUBSET L : f[S] = FoldStep(f, S, base, go)
  <2> HIDE DEF base, it
  <2>1. Foldable(L, V, base, go)
    BY <1>1, <1>2, <1>3, Folded
  <2> QED
    BY <2>1 DEF Foldable
<1>7. f = [S \in SUBSET L |-> IF S = {} THEN base
                            ELSE DeleteNext(t, key, CHOOSE x \in S : TRUE, f[S \ {CHOOSE x \in S : TRUE}])]
  <2>1. ASSUME NEW S \in SUBSET L, S # {} PROVE (CHOOSE x \in S : TRUE) \in L /\ S \ {CHOOSE x \in S : TRUE} \in SUBSET L
    BY <2>1
  <2>2. ASSUME NEW S \in SUBSET L, S # {}
        PROVE  f[S] = DeleteNext(t, key, CHOOSE x \in S : TRUE, f[S \ {CHOOSE x \in S : TRUE}])
    BY <1>4, <1>6, <2>1, <2>2 DEF FoldStep
  <2>3. f[{}] = base
    BY <1>6 DEF FoldStep
  <2> QED
    BY <2>2, <2>3
<1>8. it = [S \in SUBSET L |-> IF S = {} THEN base
                            ELSE DeleteNext(t, key, CHOOSE x \in S : TRUE, it[S \ {CHOOSE x \in S : TRUE}])]
  BY <1>7
<1> HIDE DEF it
<1>9. DeleteSteps(it, rows, t, key, L)
  BY <1>8 DEF DeleteSteps
<1> QED
  BY <1>5, <1>9
\* One row of a table with a NOT NULL key, by that key.
LEMMA ItsKey ==
  ASSUME NEW rows, Allowed(rows), NEW t, NEW key \in Keys[t], key \subseteq NotNull[t],
         NEW row \in rows, row.table = t
  PROVE  ByKey(rows, t, key, row.val) = {row}
<1>1. row \in ByKey(rows, t, key, row.val)
  BY DEF ByKey, HasKey, Allowed
<1> QED
  BY <1>1, OneUnderKey

LEMMA DeleteOne ==
  ASSUME NEW rows, Allowed(rows), NEW t, NEW key \in Keys[t], key \subseteq NotNull[t],
         NEW row \in rows, row.table = t
  PROVE  DeleteByKey(rows, t, key, row.val) = Done(rows, rows \ {row}, 1)
<1>1. ByKey(rows, t, key, row.val) = {row} /\ Cardinality({row}) = 1
  <2>1. ByKey(rows, t, key, row.val) = {row}
    BY ItsKey
  <2> QED
    BY <2>1, FS_Singleton
<1> QED
  BY <1>1 DEF DeleteByKey, DoneOne

\* The subsets of a finite set, by their number of elements.
LEMMA BySize ==
  ASSUME NEW L, IsFiniteSet(L), NEW P \in SUBSET SUBSET L, {} \in P,
         \A S \in SUBSET L : \A x \in S : (CHOOSE y \in S : TRUE) = x /\ S \ {x} \in P => S \in P
  PROVE  P = SUBSET L
<1> DEFINE D == SUBSET L
           h == [S \in D |-> Cardinality(S)]
<1>1. \A S \in D : h[S] \in Nat
  BY FS_Subset, FS_CardinalityType
<1>2. ASSUME NEW S \in D, \A X \in D : h[X] < h[S] => X \in P PROVE S \in P
  <2>1. CASE S = {}
    BY <2>1
  <2>2. CASE S # {}
    <3> DEFINE x == CHOOSE y \in S : TRUE
    <3>1. x \in S
      BY <2>2
    <3>2. Cardinality(S) \in Nat /\ Cardinality(S \ {x}) \in Nat /\ Cardinality(S) = Cardinality(S \ {x}) + 1
      BY <3>1, Smaller
    <3>3. S \ {x} \in D /\ h[S \ {x}] < h[S]
      BY <3>2
    <3> QED
      BY <1>2, <3>1, <3>3
  <2> QED
    BY <2>1, <2>2
<1> HIDE DEF h, D
<1>3. D \subseteq P
  BY <1>1, <1>2, ByRank
<1> QED
  BY <1>3 DEF D

\* One row after the other: what the rows of S leave, when they all go.
Went(o, R, S) == o = Outcome("ok", R, Cardinality(S)) /\ Allowed(R)
WentOrNot(o, R, S) ==
  \/ Went(o, R, S)
  \/ ~Allowed(R) /\ \E Q, n : o = Outcome("failed", Q, n)

OneByOne(it, after, L) ==
  /\ Went(it[{}], after[{}], {})
  /\ \A S \in SUBSET L : \A x \in S : (CHOOSE y \in S : TRUE) = x =>
       /\ it[S \ {x}].status # "ok" => it[S].status # "ok"
       /\ Went(it[S \ {x}], after[S \ {x}], S \ {x}) => WentOrNot(it[S], after[S], S)

LEMMA WentIsOk ==
  ASSUME NEW o, NEW R, NEW S
  PROVE  /\ Went(o, R, S) => o.status = "ok"
         /\ WentOrNot(o, R, S) /\ o.status = "ok" => Went(o, R, S)
         /\ WentOrNot(o, R, S) /\ Allowed(R) => Went(o, R, S)
<1>1. \A Q, n : Outcome("failed", Q, n).status # "ok"
  BY DEF Outcome
<1>2. \A Q, n : Outcome("ok", Q, n).status = "ok"
  BY DEF Outcome
<1> QED
  BY <1>1, <1>2 DEF Went, WentOrNot

LEMMA CountedDone ==
  ASSUME NEW R, NEW new, NEW S
  PROVE  WentOrNot(Counted(Done(R, new, 1), Cardinality(S)), new, S)
<1> DEFINE o == Counted(Done(R, new, 1), Cardinality(S))
<1>1. CASE Allowed(new)
  <2>1. o = Outcome("ok", new, Cardinality(S))
    BY <1>1, CountedIs DEF Done
  <2> HIDE DEF o
  <2> QED
    BY <1>1, <2>1 DEF WentOrNot, Went, o
<1>2. CASE ~Allowed(new)
  <2>1. o = Outcome("failed", R, Cardinality(S))
    BY <1>2, CountedIs DEF Done
  <2> HIDE DEF o
  <2> QED
    BY <1>2, <2>1 DEF WentOrNot, o
<1> QED
  BY <1>1, <1>2

LEMMA GoesOneByOne ==
  ASSUME NEW L, IsFiniteSet(L), NEW it, NEW after, OneByOne(it, after, L)
  PROVE  /\ \A S \in SUBSET L : it[S].status = "ok" => Went(it[S], after[S], S)
         /\ (\A S \in SUBSET L : Allowed(after[S])) => \A S \in SUBSET L : it[S].status = "ok"
<1> DEFINE P == {S \in SUBSET L : it[S].status = "ok" => Went(it[S], after[S], S)}
           Q == {S \in SUBSET L : it[S].status = "ok"}
<1>1. {} \in P /\ {} \in Q
  BY WentIsOk DEF OneByOne
<1>2. ASSUME NEW S \in SUBSET L, NEW x \in S, (CHOOSE y \in S : TRUE) = x, S \ {x} \in P PROVE S \in P
  <2>1. ASSUME it[S].status = "ok" PROVE Went(it[S], after[S], S)
    <3>1. it[S \ {x}].status = "ok" /\ Went(it[S \ {x}], after[S \ {x}], S \ {x})
      BY <1>2, <2>1 DEF OneByOne
    <3> HIDE DEF P, Q
    <3>2. WentOrNot(it[S], after[S], S)
      BY <1>2, <3>1 DEF OneByOne
    <3> QED
      BY <2>1, <3>2, WentIsOk
  <2> QED
    BY <2>1
<1>3. P = SUBSET L
  <2>1. P \in SUBSET SUBSET L
    OBVIOUS
  <2> HIDE DEF P, Q
  <2> QED
    BY <1>1, <1>2, <2>1, BySize
<1>4. ASSUME \A S \in SUBSET L : Allowed(after[S]) PROVE Q = SUBSET L
  <2>1. ASSUME NEW S \in SUBSET L, NEW x \in S, (CHOOSE y \in S : TRUE) = x, S \ {x} \in Q PROVE S \in Q
    <3>1. S \ {x} \in P /\ it[S \ {x}].status = "ok"
      BY <1>3, <2>1
    <3>2. Went(it[S \ {x}], after[S \ {x}], S \ {x})
      BY <3>1
    <3> HIDE DEF P, Q
    <3>3. WentOrNot(it[S], after[S], S)
      BY <2>1, <3>2 DEF OneByOne
    <3>4. it[S].status = "ok"
      BY <1>4, <3>3, WentIsOk
    <3> QED
      BY <3>4 DEF Q
  <2>2. Q \in SUBSET SUBSET L
    OBVIOUS
  <2> HIDE DEF P, Q
  <2> QED
    BY <1>1, <2>1, <2>2, BySize
<1> QED
  BY <1>3, <1>4

\* All rows at once and one after the other, where what all leave being allowed
\* says that what some leave is.
LEMMA AllAtOnce ==
  ASSUME NEW t, NEW L, IsFiniteSet(L), NEW it, NEW after, OneByOne(it, after, L),
         ~RefersToItself(t) /\ Allowed(after[L]) => \A S \in SUBSET L : Allowed(after[S])
  PROVE  AllOrNothing(t, Done(db, after[L], Cardinality(L)), it[L])
<1> DEFINE bulk == Done(db, after[L], Cardinality(L))
<1>1. it[L].status = "ok" => Went(it[L], after[L], L)
  BY GoesOneByOne
<1>2. Allowed(after[L]) /\ ~RefersToItself(t) => it[L].status = "ok"
  BY GoesOneByOne
<1>3. CASE it[L].status = "ok"
  BY <1>1, <1>3 DEF AllOrNothing, Went, Done
<1>4. CASE it[L].status # "ok" /\ Allowed(after[L])
  <2>1. bulk.status = "ok" /\ RefersToItself(t)
    BY <1>2, <1>4 DEF Done, Outcome
  <2> HIDE DEF bulk
  <2> QED
    BY <1>4, <2>1 DEF AllOrNothing, bulk
<1>5. CASE it[L].status # "ok" /\ ~Allowed(after[L])
  <2>1. bulk = Outcome("failed", db, 0)
    BY <1>5 DEF Done
  <2> HIDE DEF bulk
  <2> QED
    BY <1>5, <2>1 DEF AllOrNothing, bulk
<1> QED
  BY <1>3, <1>4, <1>5

\* Deletions.
LEMMA DeleteNextOk ==
  ASSUME NEW rows, Rows(rows), NEW t, NEW key \in Keys[t], key \subseteq NotNull[t],
         NEW S \in SUBSET rows, NEW x \in S, x.table = t, NEW acc, Went(acc, rows \ (S \ {x}), S \ {x})
  PROVE  WentOrNot(DeleteNext(t, key, x, acc), rows \ S, S)
<1> DEFINE mid == rows \ (S \ {x})
<1>1. acc.status = "ok" /\ acc.db = mid /\ acc.count = Cardinality(S \ {x}) /\ Allowed(mid)
  BY DEF Went, Outcome
<1>2. Cardinality(S) = Cardinality(S \ {x}) + 1
  BY Smaller DEF Rows
<1>3. x \in mid /\ mid \ {x} = rows \ S
  OBVIOUS
<1> HIDE DEF mid
<1>4. DeleteByKey(mid, t, key, x.val) = Done(mid, rows \ S, 1)
  BY <1>1, <1>3, DeleteOne
<1>5. DeleteNext(t, key, x, acc) = Counted(Done(mid, rows \ S, 1), Cardinality(S))
  BY <1>1, <1>2, <1>4 DEF DeleteNext
<1> QED
  BY <1>5, CountedDone

LEMMA DeletesOneByOne ==
  ASSUME NEW rows, Database(rows), NEW t, NEW key \in Keys[t], key \subseteq NotNull[t],
         NEW L \in SUBSET rows, \A row \in L : row.table = t, NEW it, DeleteSteps(it, rows, t, key, L),
         NEW after, after = [S \in SUBSET L |-> rows \ S]
  PROVE  OneByOne(it, after, L)
<1>1. Went(it[{}], after[{}], {})
  <2>1. it[{}] = Outcome("ok", rows, 0) /\ after[{}] = rows
    BY DEF DeleteSteps
  <2> QED
    BY <2>1, FS_EmptySet DEF Went, Database
<1>2. ASSUME NEW S \in SUBSET L, NEW x \in S, (CHOOSE y \in S : TRUE) = x
      PROVE  /\ it[S \ {x}].status # "ok" => it[S].status # "ok"
             /\ Went(it[S \ {x}], after[S \ {x}], S \ {x}) => WentOrNot(it[S], after[S], S)
  <2>1. it[S] = DeleteNext(t, key, x, it[S \ {x}])
    BY <1>2 DEF DeleteSteps
  <2>2. after[S] = rows \ S /\ after[S \ {x}] = rows \ (S \ {x})
    OBVIOUS
  <2>3. S \in SUBSET rows /\ x.table = t /\ Rows(rows)
    BY DEF Database
  <2> DEFINE acc == it[S \ {x}]
  <2>4. acc.status # "ok" => it[S].status # "ok"
    BY <2>1 DEF DeleteNext
  <2>5. ASSUME Went(acc, rows \ (S \ {x}), S \ {x}) PROVE WentOrNot(DeleteNext(t, key, x, acc), rows \ S, S)
    <3> HIDE DEF acc
    <3> QED
      BY <2>3, <2>5, DeleteNextOk
  <2> QED
    BY <2>1, <2>2, <2>4, <2>5
<1> QED
  BY <1>1, <1>2 DEF OneByOne
\* Rows that go together can go in any order, unless they may refer to each other.
LEMMA FewerDeleted ==
  ASSUME NEW rows, Allowed(rows), NEW t, ~RefersToItself(t), NEW L, \A row \in L : row.table = t,
         Allowed(rows \ L), NEW S \in SUBSET L
  PROVE  Allowed(rows \ S)
<1>1. ASSUME NEW row \in rows \ S
      PROVE  /\ \A c \in NotNull[row.table] : row.val[c] # NULL
             /\ \A key \in Keys[row.table] : \A other \in (rows \ S) \ {row} :
                  other.table = row.table => ~HasKey(other, key, row.val)
  BY DEF Allowed
<1>2. ASSUME NEW fk \in FKs, NEW row \in rows \ S, row.table = fk.table, row.val[fk.column] # NULL
      PROVE  \E x \in rows \ S : x.table = fk.ref /\ x.val[fk.refColumn] = row.val[fk.column]
  <2>1. CASE row \in L
    <3>1. fk.ref # t
      BY <1>2, <2>1 DEF RefersToItself
    <3>2. PICK x \in rows : x.table = fk.ref /\ x.val[fk.refColumn] = row.val[fk.column]
      BY <1>2 DEF Allowed
    <3> QED
      BY <3>1, <3>2
  <2>2. CASE row \notin L
    <3>1. PICK x \in rows \ L : x.table = fk.ref /\ x.val[fk.refColumn] = row.val[fk.column]
      BY <1>2, <2>2 DEF Allowed
    <3> QED
      BY <3>1
  <2> QED
    BY <2>1, <2>2
<1> QED
  BY <1>1, <1>2 DEF Allowed

LEMMA DeleteManyStep ==
  ASSUME Database(db), NEW t \in Tables, NEW f \in FiltersOf[t], NEW key \in Keys[t], key \subseteq NotNull[t]
  PROVE  AllOrNothing(t, DeleteMany(db, t, f), DeleteEach(db, t, key, Selected(db, t, f)))
<1> DEFINE L == Selected(db, t, f)
           after == [S \in SUBSET L |-> db \ S]
<1>1. L \in SUBSET db /\ \A row \in L : row.table = t
  BY SelectedRows
<1>2. DeleteMany(db, t, f) = Done(db, after[L], Cardinality(L))
  BY DEF DeleteMany
<1> HIDE DEF L
<1>3. PICK it : DeleteEach(db, t, key, L) = it[L] /\ DeleteSteps(it, db, t, key, L)
  BY <1>1, DeleteEachIs DEF Database
<1>4. OneByOne(it, after, L)
  BY <1>1, <1>3, DeletesOneByOne
<1>5. IsFiniteSet(L)
  BY <1>1, FS_Subset DEF Database, Rows
<1>6. ~RefersToItself(t) /\ Allowed(after[L]) => \A S \in SUBSET L : Allowed(after[S])
  BY <1>1, FewerDeleted DEF Database
<1> HIDE DEF after
<1>7. AllOrNothing(t, Done(db, after[L], Cardinality(L)), it[L])
  BY <1>4, <1>5, <1>6, AllAtOnce
<1> QED
  BY <1>2, <1>3, <1>7 DEF L
\* Updates.
LEMMA UpdateNextIs ==
  ASSUME NEW U, NEW t, NEW key, NEW patch, \A x \in U : Patched(x, patch) \in U,
         NEW row, NEW acc \in Outcomes(U)
  PROVE  UpdateNext(t, key, patch, row, acc) \in Outcomes(U)
<1> DEFINE matched == ByKey(acc.db, t, key, row.val)
           new == Update(acc.db, matched, patch)
           o == UpdateByKey(acc.db, t, key, row.val, patch)
           k == acc.count + 1
<1>1. acc.db \in SUBSET U /\ k \in Nat
  <2>1. acc.db \in SUBSET U /\ acc.count \in Nat
    BY DEF Outcomes
  <2> QED
    BY <2>1
<1>2. matched \in SUBSET acc.db
  BY DEF ByKey
<1>3. o \in {Outcome("refused", acc.db, 0), Outcome("no row", acc.db, 0), Outcome("failed", acc.db, 0),
             Outcome("ok", new, Cardinality(matched))}
  BY DEF UpdateByKey, UpdateDone, Done, Refused
<1> HIDE DEF matched, o, k
<1>4. new \in SUBSET U
  BY <1>1, <1>2 DEF Update
<1> HIDE DEF new
<1>5. Counted(o, k) \in {Outcome("refused", acc.db, k), Outcome("no row", acc.db, k), Outcome("failed", acc.db, k),
                         Outcome("ok", new, k)}
  <2>1. \A R, n : /\ Counted(Outcome("refused", R, n), k) = Outcome("refused", R, k)
                  /\ Counted(Outcome("no row", R, n), k) = Outcome("no row", R, k)
                  /\ Counted(Outcome("failed", R, n), k) = Outcome("failed", R, k)
                  /\ Counted(Outcome("ok", R, n), k) = Outcome("ok", R, k)
    BY CountedIs, Zenon
  <2> QED
    BY <1>3, <2>1
<1>6. Counted(o, k) \in Outcomes(U)
  BY <1>1, <1>4, <1>5, OutcomeIs
<1> QED
  BY <1>6 DEF UpdateNext, o, k

UpdateSteps(it, rows, t, key, patch, L) ==
  \A S \in SUBSET L :
    it[S] = IF S = {} THEN Outcome("ok", rows, 0)
            ELSE UpdateNext(t, key, patch, CHOOSE x \in S : TRUE, it[S \ {CHOOSE x \in S : TRUE}])

LEMMA PatchedTwice ==
  ASSUME NEW row, IsRow(row), NEW patch
  PROVE  Patched(Patched(row, patch), patch) = Patched(row, patch)
<1> DEFINE once == Patched(row, patch)
           twice == Patched(once, patch)
<1>1. /\ IsRow(once) /\ once.table = row.table
      /\ \A c \in Columns[row.table] : once.val[c] = IF c \in DOMAIN patch THEN patch[c] ELSE row.val[c]
  BY PatchedIs
<1> HIDE DEF once
<1>2. /\ IsRow(twice) /\ twice.table = once.table
      /\ \A c \in Columns[once.table] : twice.val[c] = IF c \in DOMAIN patch THEN patch[c] ELSE once.val[c]
  BY <1>1, PatchedIs
<1> HIDE DEF twice
<1>3. twice = once
  BY <1>1, <1>2, SameRow
<1> QED
  BY <1>3 DEF twice, once

LEMMA UpdateEachIs ==
  ASSUME NEW rows, Rows(rows), NEW t, NEW key, NEW patch, NEW L \in SUBSET rows
  PROVE  \E it : UpdateEach(rows, t, key, patch, L) = it[L] /\ UpdateSteps(it, rows, t, key, patch, L)
<1> DEFINE U == rows \cup {Patched(row, patch) : row \in rows}
           V == Outcomes(U)
           base == Outcome("ok", rows, 0)
           go == [p \in L \X V |-> UpdateNext(t, key, patch, p[1], p[2])]
           it == CHOOSE f : f = [S \in SUBSET L |->
                   IF S = {} THEN base
                   ELSE UpdateNext(t, key, patch, CHOOSE x \in S : TRUE, f[S \ {CHOOSE x \in S : TRUE}])]
<1>0. \A x \in U : Patched(x, patch) \in U
  BY PatchedTwice DEF Rows
<1>1. go \in [L \X V -> V]
  <2> HIDE DEF U, it
  <2> QED
    BY <1>0, UpdateNextIs
<1>2. base \in V
  BY DEF Outcome, Outcomes
<1>3. IsFiniteSet(L)
  BY FS_Subset DEF Rows
<1>4. \A x \in L, acc \in V : go[<<x, acc>>] = UpdateNext(t, key, patch, x, acc)
  OBVIOUS
<1>5. UpdateEach(rows, t, key, patch, L) = it[L]
  BY DEF UpdateEach, FoldSet, MapThenFoldSet, UpdateNext, Counted
<1> HIDE DEF go, V
<1>6. PICK f \in [SUBSET L -> V] : \A S \in SUBSET L : f[S] = FoldStep(f, S, base, go)
  <2> HIDE DEF base, it
  <2>1. Foldable(L, V, base, go)
    BY <1>1, <1>2, <1>3, Folded
  <2> QED
    BY <2>1 DEF Foldable
<1>7. f = [S \in SUBSET L |-> IF S = {} THEN base
                            ELSE UpdateNext(t, key, patch, CHOOSE x \in S : TRUE, f[S \ {CHOOSE x \in S : TRUE}])]
  <2>1. ASSUME NEW S \in SUBSET L, S # {} PROVE (CHOOSE x \in S : TRUE) \in L /\ S \ {CHOOSE x \in S : TRUE} \in SUBSET L
    BY <2>1
  <2>2. ASSUME NEW S \in SUBSET L, S # {}
        PROVE  f[S] = UpdateNext(t, key, patch, CHOOSE x \in S : TRUE, f[S \ {CHOOSE x \in S : TRUE}])
    BY <1>4, <1>6, <2>1, <2>2 DEF FoldStep
  <2>3. f[{}] = base
    BY <1>6 DEF FoldStep
  <2> QED
    BY <2>2, <2>3
<1>8. it = [S \in SUBSET L |-> IF S = {} THEN base
                            ELSE UpdateNext(t, key, patch, CHOOSE x \in S : TRUE, it[S \ {CHOOSE x \in S : TRUE}])]
  BY <1>7
<1> HIDE DEF it
<1>9. UpdateSteps(it, rows, t, key, patch, L)
  BY <1>8 DEF UpdateSteps
<1> QED
  BY <1>5, <1>9
\* A bulk update of rows of t that leaves their key alone.
Patching(rows, t, key, patch, L) ==
  /\ Database(rows)
  /\ t \in Tables /\ key \in Keys[t] /\ key \subseteq NotNull[t] /\ DOMAIN patch \cap key = {}
  /\ L \in SUBSET rows /\ \A row \in L : row.table = t

LEMMA PatchingIs ==
  ASSUME NEW rows, NEW t, NEW key, NEW patch, NEW L, Patching(rows, t, key, patch, L), NEW row \in rows
  PROVE  /\ IsRow(row) /\ IsRow(Patched(row, patch)) /\ Patched(row, patch).table = row.table
         /\ \A c \in Columns[row.table] :
              Patched(row, patch).val[c] = IF c \in DOMAIN patch THEN patch[c] ELSE row.val[c]
         /\ row.table = t => \A c \in key : row.val[c] # NULL /\ Patched(row, patch).val[c] = row.val[c]
<1>1. /\ IsRow(row) /\ IsRow(Patched(row, patch)) /\ Patched(row, patch).table = row.table
      /\ \A c \in Columns[row.table] :
           Patched(row, patch).val[c] = IF c \in DOMAIN patch THEN patch[c] ELSE row.val[c]
  BY PatchedIs DEF Patching, Database, Rows
<1>2. key \subseteq Columns[t] /\ DOMAIN patch \cap key = {} /\ key \subseteq NotNull[t] /\ Allowed(rows)
  BY KeyColumns DEF Patching, Database
<1> QED
  BY <1>1, <1>2 DEF Allowed

\* Rows stay apart, patched or not.
LEMMA PatchedApart ==
  ASSUME NEW rows, NEW t, NEW key, NEW patch, NEW L, Patching(rows, t, key, patch, L),
         NEW row \in rows, NEW other \in rows, row.table = t, other.table = t, row # other,
         NEW x \in {row, Patched(row, patch)}, NEW y \in {other, Patched(other, patch)}
  PROVE  x # y
<1>1. ~HasKey(other, key, row.val)
  BY DEF Patching, Database, Allowed
<1>2. \A c \in key : x.val[c] = row.val[c] /\ y.val[c] = other.val[c] /\ other.val[c] # NULL
  BY PatchingIs
<1> QED
  BY <1>1, <1>2 DEF HasKey

LEMMA UpdateIsImage ==
  ASSUME NEW rows, NEW S \in SUBSET rows, NEW patch
  PROVE  Update(rows, S, patch) = {IF row \in S THEN Patched(row, patch) ELSE row : row \in rows}
BY DEF Update

LEMMA UpdateSize ==
  ASSUME NEW rows, NEW t, NEW key, NEW patch, NEW L, Patching(rows, t, key, patch, L), NEW S \in SUBSET L
  PROVE  Cardinality(Update(rows, S, patch)) = Cardinality(rows)
<1> DEFINE m == [row \in rows |-> IF row \in S THEN Patched(row, patch) ELSE row]
           new == Update(rows, S, patch)
<1>0. S \in SUBSET rows /\ \A row \in S : row.table = t
  BY DEF Patching
<1>1. new = {m[row] : row \in rows}
  BY <1>0, UpdateIsImage
<1>2. ASSUME NEW row \in rows, NEW other \in rows, row # other PROVE m[row] # m[other]
  <2>1. m[row].table = row.table /\ m[other].table = other.table
        /\ m[row] \in {row, Patched(row, patch)} /\ m[other] \in {other, Patched(other, patch)}
    BY PatchingIs
  <2>2. CASE row \notin S /\ other \notin S
    BY <1>2, <2>2
  <2>3. CASE row.table = t /\ other.table = t
    <3> HIDE DEF m
    <3> QED
      BY <1>2, <2>1, <2>3, PatchedApart
  <2> QED
    BY <1>0, <2>1, <2>2, <2>3
<1> HIDE DEF m, new
<1>3. m \in [rows -> new]
  BY <1>1 DEF m
<1>4. m \in Injection(rows, new) /\ m \in Surjection(rows, new)
  BY <1>1, <1>2, <1>3 DEF Injection, Surjection, IsInjective, m
<1>5. IsFiniteSet(rows)
  BY DEF Patching, Database, Rows
<1>6. Cardinality(new) = Cardinality(rows)
  BY <1>4, <1>5, FS_Surjection
<1> QED
  BY <1>6 DEF new

LEMMA UpdateOneMore ==
  ASSUME NEW rows, NEW t, NEW key, NEW patch, NEW L, Patching(rows, t, key, patch, L),
         NEW S \in SUBSET L, NEW x \in S
  PROVE  /\ x \in Update(rows, S \ {x}, patch)
         /\ Update(Update(rows, S \ {x}, patch), {x}, patch) = Update(rows, S, patch)
<1> DEFINE rest == S \ {x}
           moved == {Patched(row, patch) : row \in rest}
<1>0. S \in SUBSET rows /\ \A row \in S : row.table = t
  BY DEF Patching
<1>1. x \notin moved
  BY <1>0, PatchedApart
<1>2. Update(rows, rest, patch) = (rows \ rest) \cup moved
  BY DEF Update
<1>3. moved \cup {Patched(x, patch)} = {Patched(row, patch) : row \in S}
  OBVIOUS
<1>4. {Patched(row, patch) : row \in {x}} = {Patched(x, patch)}
  OBVIOUS
<1> HIDE DEF moved
<1>5. ((rows \ rest) \cup moved) \ {x} = (rows \ S) \cup moved
  BY <1>0, <1>1
<1> QED
  BY <1>0, <1>2, <1>3, <1>4, <1>5 DEF Update
LEMMA UpdateNextOk ==
  ASSUME NEW rows, NEW t, NEW key, NEW patch, NEW L, Patching(rows, t, key, patch, L), DOMAIN patch # {},
         NEW S \in SUBSET L, NEW x \in S, NEW acc, Went(acc, Update(rows, S \ {x}, patch), S \ {x})
  PROVE  WentOrNot(UpdateNext(t, key, patch, x, acc), Update(rows, S, patch), S)
<1> DEFINE mid == Update(rows, S \ {x}, patch)
           new == Update(rows, S, patch)
<1>1. acc.status = "ok" /\ acc.db = mid /\ acc.count = Cardinality(S \ {x}) /\ Allowed(mid)
  BY DEF Went, Outcome
<1>2. Cardinality(S) = Cardinality(S \ {x}) + 1
  <2>1. IsFiniteSet(L)
    BY FS_Subset DEF Patching, Database, Rows
  <2> QED
    BY <2>1, Smaller
<1>3. x \in mid /\ Update(mid, {x}, patch) = new
  <2> HIDE DEF mid, new
  <2>1. x \in Update(rows, S \ {x}, patch)
    BY UpdateOneMore
  <2>2. Update(Update(rows, S \ {x}, patch), {x}, patch) = Update(rows, S, patch)
    BY UpdateOneMore
  <2> QED
    BY <2>1, <2>2 DEF mid, new
<1>4. Cardinality(new) = Cardinality(rows) /\ Cardinality(mid) = Cardinality(rows)
  BY UpdateSize
<1>5. Cardinality(rows) \in Nat
  BY FS_CardinalityType DEF Patching, Database, Rows
<1>6. x.table = t /\ key \in Keys[t] /\ key \subseteq NotNull[t]
  BY DEF Patching
<1> HIDE DEF mid, new
<1>7. ByKey(mid, t, key, x.val) = {x}
  BY <1>1, <1>3, <1>6, ItsKey
<1>8. UpdateDone(mid, {x}, patch) = Done(mid, new, 1)
  <2>1. Cardinality({x}) = 1 /\ ~(Cardinality(new) < Cardinality(mid))
    BY <1>4, <1>5, FS_Singleton
  <2> QED
    BY <1>3, <2>1 DEF UpdateDone
<1>9. UpdateByKey(mid, t, key, x.val, patch) = Done(mid, new, 1)
  BY <1>7, <1>8 DEF UpdateByKey
<1>10. UpdateNext(t, key, patch, x, acc) = Counted(Done(mid, new, 1), Cardinality(S))
  BY <1>1, <1>2, <1>9 DEF UpdateNext
<1>11. WentOrNot(UpdateNext(t, key, patch, x, acc), new, S)
  BY <1>10, CountedDone
<1> QED
  BY <1>11 DEF new

LEMMA UpdatesOneByOne ==
  ASSUME NEW rows, NEW t, NEW key, NEW patch, NEW L, Patching(rows, t, key, patch, L), DOMAIN patch # {},
         NEW it, UpdateSteps(it, rows, t, key, patch, L),
         NEW after, after = [S \in SUBSET L |-> Update(rows, S, patch)]
  PROVE  OneByOne(it, after, L)
<1>1. Went(it[{}], after[{}], {})
  <2>1. it[{}] = Outcome("ok", rows, 0)
    BY DEF UpdateSteps
  <2>2. after[{}] = rows
    BY DEF Update
  <2> QED
    BY <2>1, <2>2, FS_EmptySet DEF Went, Patching, Database
<1>2. ASSUME NEW S \in SUBSET L, NEW x \in S, (CHOOSE y \in S : TRUE) = x
      PROVE  /\ it[S \ {x}].status # "ok" => it[S].status # "ok"
             /\ Went(it[S \ {x}], after[S \ {x}], S \ {x}) => WentOrNot(it[S], after[S], S)
  <2>1. it[S] = UpdateNext(t, key, patch, x, it[S \ {x}])
    BY <1>2 DEF UpdateSteps
  <2>2. after[S] = Update(rows, S, patch) /\ after[S \ {x}] = Update(rows, S \ {x}, patch)
    OBVIOUS
  <2> DEFINE acc == it[S \ {x}]
  <2>3. acc.status # "ok" => it[S].status # "ok"
    BY <2>1 DEF UpdateNext
  <2>4. ASSUME Went(acc, Update(rows, S \ {x}, patch), S \ {x})
        PROVE  WentOrNot(UpdateNext(t, key, patch, x, acc), Update(rows, S, patch), S)
    <3> HIDE DEF acc
    <3> QED
      BY <2>4, UpdateNextOk
  <2> QED
    BY <2>1, <2>2, <2>3, <2>4
<1> QED
  BY <1>1, <1>2 DEF OneByOne

\* Two rows under a key of theirs.
LEMMA AllowedKeys ==
  ASSUME NEW rows, Allowed(rows), NEW x \in rows, NEW y \in rows, x # y, x.table = y.table,
         NEW K \in Keys[x.table], HasKey(y, K, x.val)
  PROVE  FALSE
BY DEF Allowed

\* Rows that are updated together can be updated in any order, unless they may refer
\* to each other: their keys ...
LEMMA FewerPatchedKeys ==
  ASSUME NEW rows, NEW t, NEW key, NEW patch, NEW L, Patching(rows, t, key, patch, L),
         Allowed(Update(rows, L, patch)), NEW S \in SUBSET L,
         NEW x \in Update(rows, S, patch), NEW y \in Update(rows, S, patch), x # y, x.table = y.table,
         NEW K \in Keys[x.table], HasKey(y, K, x.val)
  PROVE  FALSE
<1>0. S \in SUBSET rows /\ L \in SUBSET rows /\ Allowed(rows) /\ \A row \in L : row.table = t
  BY DEF Patching, Database
<1>1. \A z \in Update(rows, S, patch) :
        z \in rows \ S \/ \E row \in S : z = Patched(row, patch)
  BY DEF Update
<1>2. \A row \in L : Patched(row, patch) \in Update(rows, L, patch)
  BY DEF Update
<1>3. \A row \in rows \ L : row \in Update(rows, L, patch)
  BY DEF Update
\* One is patched and the other is not.
<1>4. ASSUME NEW u \in rows \ S, NEW r \in S, u.table = Patched(r, patch).table, NEW Q \in Keys[u.table],
             \A c \in Q : u.val[c] # NULL /\ Patched(r, patch).val[c] = u.val[c]
      PROVE  FALSE
  <2>1. r \in L /\ r \in rows /\ u # r /\ u.table = t /\ r.table = t /\ t \in Tables
    <3>1. r \in L /\ r \in rows /\ u \in rows /\ u # r /\ r.table = t /\ t \in Tables
      BY <1>0 DEF Patching
    <3>2. Patched(r, patch).table = r.table
      BY <3>1, PatchingIs
    <3> QED
      BY <1>4, <3>1, <3>2
  <2>2. Q \subseteq Columns[t]
    BY <1>4, <2>1, KeyColumns
  <2>3. CASE u \in L
    <3>1. Patched(u, patch) # Patched(r, patch) /\ Patched(u, patch).table = t /\ Patched(r, patch).table = t
      BY <2>1, PatchedApart, PatchingIs
    <3>2. \A c \in Q : Patched(u, patch).val[c] = Patched(r, patch).val[c]
      BY <1>4, <2>1, <2>2, PatchingIs
    <3>3. HasKey(Patched(u, patch), Q, Patched(r, patch).val)
      BY <1>4, <3>2 DEF HasKey
    <3>4. Patched(u, patch) \in Update(rows, L, patch) /\ Patched(r, patch) \in Update(rows, L, patch)
      BY <1>2, <2>1, <2>3
    <3> QED
      BY <1>4, <2>1, <3>1, <3>3, <3>4, AllowedKeys
  <2>4. CASE u \notin L
    <3>1. u # Patched(r, patch)
      BY <2>1, PatchedApart
    <3>2. u \in Update(rows, L, patch) /\ Patched(r, patch) \in Update(rows, L, patch)
      BY <1>2, <1>3, <2>1, <2>4
    <3>3. HasKey(Patched(r, patch), Q, u.val)
      BY <1>4 DEF HasKey
    <3> QED
      BY <1>4, <3>1, <3>2, <3>3, AllowedKeys
  <2> QED
    BY <2>3, <2>4
<1>5. CASE x \in rows \ S /\ y \in rows \ S
  BY <1>0, <1>5, AllowedKeys
<1>6. CASE x \in rows \ S /\ \E row \in S : y = Patched(row, patch)
  BY <1>4, <1>6 DEF HasKey
<1>7. CASE y \in rows \ S /\ \E row \in S : x = Patched(row, patch)
  <2>1. PICK r \in S : x = Patched(r, patch)
    BY <1>7
  <2>2. \A c \in K : y.val[c] # NULL /\ Patched(r, patch).val[c] = y.val[c]
    BY <2>1 DEF HasKey
  <2> QED
    BY <1>4, <1>7, <2>1, <2>2
<1>8. CASE (\E row \in S : x = Patched(row, patch)) /\ (\E row \in S : y = Patched(row, patch))
  BY <1>2, <1>8, AllowedKeys
<1> QED
  BY <1>1, <1>5, <1>6, <1>7, <1>8
\* ... and their references.
LEMMA FewerPatchedReferences ==
  ASSUME NEW rows, NEW t, NEW key, NEW patch, NEW L, Patching(rows, t, key, patch, L), ~RefersToItself(t),
         Allowed(Update(rows, L, patch)), NEW S \in SUBSET L,
         NEW fk \in FKs, NEW x \in Update(rows, S, patch), x.table = fk.table, x.val[fk.column] # NULL
  PROVE  \E z \in Update(rows, S, patch) : z.table = fk.ref /\ z.val[fk.refColumn] = x.val[fk.column]
<1> DEFINE v == x.val[fk.column]
           rc == fk.refColumn
<1>0. S \in SUBSET rows /\ L \in SUBSET rows /\ Allowed(rows) /\ (\A row \in L : row.table = t)
  BY DEF Patching, Database
<1>1. x \in rows \ S \/ \E row \in S : x = Patched(row, patch)
  BY DEF Update
<1>2. \A row \in S : Patched(row, patch) \in Update(rows, S, patch)
  BY DEF Update
<1>3. \A row \in rows \ S : row \in Update(rows, S, patch)
  BY DEF Update
<1>4. \A w \in Update(rows, L, patch) : w \in rows \ L \/ \E row \in L : w = Patched(row, patch)
  BY DEF Update
<1>5. \A row \in L : Patched(row, patch) \in Update(rows, L, patch) /\ Patched(row, patch).table = t
  BY <1>0, PatchingIs DEF Update
<1>6. rc \in Columns[fk.ref]
  BY TableAssumption
<1>7. ASSUME NEW u \in Update(rows, L, patch), u.table = fk.table, u.val[fk.column] = v
      PROVE  \E w \in Update(rows, L, patch) : w.table = fk.ref /\ w.val[rc] = v
  BY <1>7 DEF Allowed
<1>8. CASE x \in rows \ S
  <2>1. PICK z \in rows : z.table = fk.ref /\ z.val[rc] = v
    BY <1>0, <1>8 DEF Allowed
  <2>2. CASE z \notin S
    BY <1>3, <2>1, <2>2
  <2>3. CASE z \in S
    <3>1. fk.ref = t /\ x.table # t /\ x \notin L
      BY <1>0, <2>1, <2>3 DEF RefersToItself
    <3>2. x \in Update(rows, L, patch)
      BY <1>8, <3>1 DEF Update
    <3>3. PICK w \in Update(rows, L, patch) : w.table = fk.ref /\ w.val[rc] = v
      BY <1>7, <3>2
    <3>4. CASE w \in rows \ L
      BY <1>3, <3>3, <3>4
    <3>5. ASSUME NEW row \in L, w = Patched(row, patch)
          PROVE  \E q \in Update(rows, S, patch) : q.table = fk.ref /\ q.val[rc] = v
      <4>1. Patched(z, patch) \in Update(rows, S, patch) /\ Patched(z, patch).table = fk.ref
        BY <1>2, <2>1, <2>3, PatchingIs
      <4>2. Patched(z, patch).val[rc] = IF rc \in DOMAIN patch THEN patch[rc] ELSE z.val[rc]
        BY <1>6, <2>1, PatchingIs
      <4>3. Patched(row, patch).val[rc] = IF rc \in DOMAIN patch THEN patch[rc] ELSE row.val[rc]
        BY <1>0, <1>6, <3>1, PatchingIs
      <4>4. Patched(z, patch).val[rc] = v
        BY <2>1, <3>3, <3>5, <4>2, <4>3
      <4> QED
        BY <4>1, <4>4
    <3> QED
      BY <1>4, <3>4, <3>5
  <2> QED
    BY <2>2, <2>3
<1>9. ASSUME NEW r \in S, x = Patched(r, patch)
      PROVE  \E q \in Update(rows, S, patch) : q.table = fk.ref /\ q.val[rc] = v
  <2>1. x \in Update(rows, L, patch) /\ fk.table = t
    BY <1>5, <1>9
  <2>2. PICK w \in Update(rows, L, patch) : w.table = fk.ref /\ w.val[rc] = v
    BY <1>7, <2>1
  <2>3. fk.ref # t
    BY <2>1 DEF RefersToItself
  <2>4. w \in rows \ L
    BY <1>4, <1>5, <2>2, <2>3
  <2> QED
    BY <1>3, <2>2, <2>4
<1> QED
  BY <1>1, <1>8, <1>9

LEMMA FewerPatched ==
  ASSUME NEW rows, NEW t, NEW key, NEW patch, NEW L, Patching(rows, t, key, patch, L), ~RefersToItself(t),
         Allowed(Update(rows, L, patch)), NEW S \in SUBSET L
  PROVE  Allowed(Update(rows, S, patch))
<1> DEFINE new == Update(rows, S, patch)
<1>1. ASSUME NEW row \in new, NEW c \in NotNull[row.table] PROVE row.val[c] # NULL
  <2>1. CASE row \in rows
    BY <1>1, <2>1 DEF Patching, Database, Allowed
  <2>2. CASE row \in Update(rows, L, patch)
    BY <1>1, <2>2 DEF Allowed
  <2> QED
    BY <2>1, <2>2 DEF Update
<1>2. ASSUME NEW row \in new, NEW K \in Keys[row.table], NEW other \in new \ {row},
             other.table = row.table, HasKey(other, K, row.val)
      PROVE  FALSE
  BY <1>2, FewerPatchedKeys
<1>3. ASSUME NEW fk \in FKs, NEW row \in new, row.table = fk.table, row.val[fk.column] # NULL
      PROVE  \E x \in new : x.table = fk.ref /\ x.val[fk.refColumn] = row.val[fk.column]
  BY <1>3, FewerPatchedReferences
<1> HIDE DEF new
<1>4. Allowed(new)
  BY <1>1, <1>2, <1>3 DEF Allowed
<1> QED
  BY <1>4 DEF new

LEMMA UpdateManyStep ==
  ASSUME Database(db), NEW t \in Tables, NEW f \in FiltersOf[t], NEW key \in Keys[t], key \subseteq NotNull[t],
         NEW patch, DOMAIN patch \cap key = {}, DOMAIN patch # {}
  PROVE  AllOrNothing(t, UpdateMany(db, t, f, patch), UpdateEach(db, t, key, patch, Selected(db, t, f)))
<1> DEFINE L == Selected(db, t, f)
           after == [S \in SUBSET L |-> Update(db, S, patch)]
<1>1. Patching(db, t, key, patch, L)
  BY SelectedRows DEF Patching
<1>2. UpdateMany(db, t, f, patch) = UpdateDone(db, L, patch)
  BY DEF UpdateMany
<1> HIDE DEF L
<1>3. L \in SUBSET db /\ IsFiniteSet(L) /\ Cardinality(db) \in Nat
  BY <1>1, FS_Subset, FS_CardinalityType DEF Patching, Database, Rows
<1>4. Cardinality(Update(db, L, patch)) = Cardinality(db)
  BY <1>1, UpdateSize
<1>5. UpdateMany(db, t, f, patch) = Done(db, after[L], Cardinality(L))
  BY <1>2, <1>3, <1>4 DEF UpdateDone
<1>6. PICK it : UpdateEach(db, t, key, patch, L) = it[L] /\ UpdateSteps(it, db, t, key, patch, L)
  BY <1>3, UpdateEachIs DEF Database
<1>7. OneByOne(it, after, L)
  BY <1>1, <1>6, UpdatesOneByOne
<1>8. ~RefersToItself(t) /\ Allowed(after[L]) => \A S \in SUBSET L : Allowed(after[S])
  BY <1>1, FewerPatched
<1> HIDE DEF after
<1>9. AllOrNothing(t, Done(db, after[L], Cardinality(L)), it[L])
  BY <1>3, <1>7, <1>8, AllAtOnce
<1> QED
  BY <1>5, <1>6, <1>9 DEF L

\* A mutation by a filter does to the rows it lists what mutations by key do to each,
\* all or nothing (updateManyCTE, deleteManyCTE), for any tables, filters, NOT NULL
\* keys and patches that leave the key alone, in every reachable database.
THEOREM BulkGoesOneByOne == Spec => []BulkIsEach
<1>1. Inv => BulkIsEach
  <2> SUFFICES ASSUME Inv, NEW t \in Tables, NEW f \in FiltersOf[t], NEW key \in Keys[t], key \subseteq NotNull[t]
               PROVE  LET listed == Selected(db, t, f) IN
                        /\ AllOrNothing(t, DeleteMany(db, t, f), DeleteEach(db, t, key, listed))
                        /\ \A patch \in Patches[t] : DOMAIN patch \cap key = {} /\ DOMAIN patch # {} =>
                             AllOrNothing(t, UpdateMany(db, t, f, patch), UpdateEach(db, t, key, patch, listed))
    BY DEF BulkIsEach
  <2>1. AllOrNothing(t, DeleteMany(db, t, f), DeleteEach(db, t, key, Selected(db, t, f)))
    BY DeleteManyStep DEF Inv
  <2>2. \A patch \in Patches[t] : DOMAIN patch \cap key = {} /\ DOMAIN patch # {} =>
          AllOrNothing(t, UpdateMany(db, t, f, patch), UpdateEach(db, t, key, patch, Selected(db, t, f)))
    BY UpdateManyStep DEF Inv
  <2> QED
    BY <2>1, <2>2
<1> QED
  BY <1>1, DatabaseKept, PTL
-----------------------------------------------------------------------------
\* What filters compile to and what they say.

Entries == UNION Filters

LEMMA Nested ==
  ASSUME NEW e \in Entries
  PROVE  /\ Nesting[e] \in Nat
         /\ e.key \in {"and", "or", "not", "column", "relation"}
         /\ e.key \in {"and", "or"} =>
              \A g \in e.items : g \in Filters /\ \A d \in g : d \in Entries /\ Nesting[d] < Nesting[e]
         /\ e.key \in {"not", "relation"} =>
              e.item \in Filters /\ \A d \in e.item : d \in Entries /\ Nesting[d] < Nesting[e]
         /\ e.key = "relation" => e.quant \in {"forward", "some", "none", "every"}
         /\ e.key = "column" => e.op \in Ops
<1>1. Nesting[e] \in Nat /\ \A d \in Within(e) : Nesting[d] < Nesting[e]
  BY NestingAssumption DEF Entries
<1>2. /\ e.key \in {"and", "or", "not", "column", "relation"}
      /\ e.key \in {"and", "or"} => e.items \subseteq Filters
      /\ e.key \in {"not", "relation"} => e.item \in Filters
      /\ e.key = "relation" => e.quant \in {"forward", "some", "none", "every"}
      /\ e.key = "column" => e.op \in Ops
  BY FilterAssumption DEF Entries
<1>3. e.key \in {"and", "or"} => Within(e) = UNION e.items
  BY DEF Within
<1>4. e.key \in {"not", "relation"} => Within(e) = e.item
  BY DEF Within
<1> QED
  BY <1>1, <1>2, <1>3, <1>4 DEF Entries

\* One level of the recursions.
EntryOf(f, e) ==
  CASE e.key \in {"and", "or"} -> \E g \in e.items : \E d \in g : f[d]
    [] e.key = "not" -> \E d \in e.item : f[d]
    [] e.key = "column" -> e.val # NULL
    [] e.key = "relation" -> e.quant = "every" => \E d \in e.item : f[d]

LEMMA HasCondIs == \A e \in Entries : HasCond[e] = EntryOf(HasCond, e) /\ HasCond[e] \in BOOLEAN
<1> DEFINE D == Entries
           B == [f \in [D -> BOOLEAN] |-> [e \in D |-> EntryOf(f, e)]]
<1>1. ASSUME NEW f, NEW e \in D PROVE EntryOf(f, e) \in BOOLEAN
  BY Nested DEF EntryOf
<1>2. ASSUME NEW f \in [D -> BOOLEAN], NEW g \in [D -> BOOLEAN], NEW e \in D,
             \A d \in D : Nesting[d] < Nesting[e] => f[d] = g[d]
      PROVE  EntryOf(f, e) = EntryOf(g, e)
  BY <1>2, Nested DEF EntryOf
<1>3. \A e \in D : Nesting[e] \in Nat
  BY Nested
<1>4. \A f \in [D -> BOOLEAN] : B[f] \in [D -> BOOLEAN] /\ \A e \in D : B[f][e] = EntryOf(f, e)
  BY <1>1
<1> HIDE DEF B
<1>5. Local(B, Nesting, D, BOOLEAN)
  BY <1>2, <1>4 DEF Local
<1> HIDE DEF D
<1>6. Solvable(B, D, BOOLEAN)
  BY <1>3, <1>4, <1>5, Recursion
<1>7. PICK f \in [D -> BOOLEAN] : \A e \in D : f[e] = EntryOf(f, e)
  BY <1>4, <1>6 DEF Solvable
<1>8. f = [e \in Entries |-> EntryOf(f, e)]
  BY <1>7 DEF D
<1>9. HasCond = CHOOSE f0 : f0 = [e \in Entries |-> EntryOf(f0, e)]
  BY DEF HasCond, EntryOf, Entries
<1>10. HasCond = [e \in Entries |-> EntryOf(HasCond, e)]
  BY <1>8, <1>9
<1>11. \A e \in Entries : HasCond[e] = EntryOf(HasCond, e)
  BY <1>10
<1> QED
  BY <1>1, <1>11 DEF D
CompleteOf(f, e) ==
  /\ e.key = "column" => e.val # NULL
  /\ e.key = "or" => e.items # {} /\ \A g \in e.items : Parts(g) # {}
  /\ e.key = "not" => Parts(e.item) # {}
  /\ e.key \in {"and", "or"} => \A g \in e.items : \A d \in g : f[d]
  /\ e.key \in {"not", "relation"} => \A d \in e.item : f[d]

LEMMA CompleteIs == \A e \in Entries : Complete[e] = CompleteOf(Complete, e) /\ Complete[e] \in BOOLEAN
<1> DEFINE D == Entries
           B == [f \in [D -> BOOLEAN] |-> [e \in D |-> CompleteOf(f, e)]]
<1>1. ASSUME NEW f, NEW e \in D PROVE CompleteOf(f, e) \in BOOLEAN
  BY DEF CompleteOf
<1>2. ASSUME NEW f \in [D -> BOOLEAN], NEW g \in [D -> BOOLEAN], NEW e \in D,
             \A d \in D : Nesting[d] < Nesting[e] => f[d] = g[d]
      PROVE  CompleteOf(f, e) = CompleteOf(g, e)
  BY <1>2, Nested DEF CompleteOf
<1>3. \A e \in D : Nesting[e] \in Nat
  BY Nested
<1>4. \A f \in [D -> BOOLEAN] : B[f] \in [D -> BOOLEAN] /\ \A e \in D : B[f][e] = CompleteOf(f, e)
  BY <1>1
<1> HIDE DEF B
<1>5. Local(B, Nesting, D, BOOLEAN)
  BY <1>2, <1>4 DEF Local
<1> HIDE DEF D
<1>6. Solvable(B, D, BOOLEAN)
  BY <1>3, <1>4, <1>5, Recursion
<1>7. PICK f \in [D -> BOOLEAN] : \A e \in D : f[e] = CompleteOf(f, e)
  BY <1>4, <1>6 DEF Solvable
<1>8. f = [e \in Entries |-> CompleteOf(f, e)]
  BY <1>7 DEF D
<1>9. Complete = CHOOSE f0 : f0 = [e \in Entries |-> CompleteOf(f0, e)]
  BY DEF Complete, CompleteOf, Entries
<1>10. Complete = [e \in Entries |-> CompleteOf(Complete, e)]
  BY <1>8, <1>9
<1>11. \A e \in Entries : Complete[e] = CompleteOf(Complete, e)
  BY <1>10
<1> QED
  BY <1>1, <1>11 DEF D

PositiveOf(f, e) ==
  /\ e.key # "not" /\ ~(e.key = "relation" /\ e.quant = "every")
  /\ e.key \in {"and", "or"} => \A g \in e.items : \A d \in g : f[d]
  /\ e.key = "relation" => \A d \in e.item : f[d]

LEMMA PositiveIs == \A e \in Entries : Positive[e] = PositiveOf(Positive, e) /\ Positive[e] \in BOOLEAN
<1> DEFINE D == Entries
           B == [f \in [D -> BOOLEAN] |-> [e \in D |-> PositiveOf(f, e)]]
<1>1. ASSUME NEW f, NEW e \in D PROVE PositiveOf(f, e) \in BOOLEAN
  BY DEF PositiveOf
<1>2. ASSUME NEW f \in [D -> BOOLEAN], NEW g \in [D -> BOOLEAN], NEW e \in D,
             \A d \in D : Nesting[d] < Nesting[e] => f[d] = g[d]
      PROVE  PositiveOf(f, e) = PositiveOf(g, e)
  BY <1>2, Nested DEF PositiveOf
<1>3. \A e \in D : Nesting[e] \in Nat
  BY Nested
<1>4. \A f \in [D -> BOOLEAN] : B[f] \in [D -> BOOLEAN] /\ \A e \in D : B[f][e] = PositiveOf(f, e)
  BY <1>1
<1> HIDE DEF B
<1>5. Local(B, Nesting, D, BOOLEAN)
  BY <1>2, <1>4 DEF Local
<1> HIDE DEF D
<1>6. Solvable(B, D, BOOLEAN)
  BY <1>3, <1>4, <1>5, Recursion
<1>7. PICK f \in [D -> BOOLEAN] : \A e \in D : f[e] = PositiveOf(f, e)
  BY <1>4, <1>6 DEF Solvable
<1>8. f = [e \in Entries |-> PositiveOf(f, e)]
  BY <1>7 DEF D
<1>9. Positive = CHOOSE f0 : f0 = [e \in Entries |-> PositiveOf(f0, e)]
  BY DEF Positive, PositiveOf, Entries
<1>10. Positive = [e \in Entries |-> PositiveOf(Positive, e)]
  BY <1>8, <1>9
<1>11. \A e \in Entries : Positive[e] = PositiveOf(Positive, e)
  BY <1>10
<1> QED
  BY <1>1, <1>11 DEF D
\* The values of conditions, one level.
Values == {T, F, N}
ObjectOf(f, g, x) == And3({f[d][x] : d \in Parts(g)})
CondOf(f, rows, e, row) ==
  CASE e.key = "and" -> And3({ObjectOf(f, g, row) : g \in NonEmpty(e.items)})
    [] e.key = "or" -> Or3({ObjectOf(f, g, row) : g \in NonEmpty(e.items)})
    [] e.key = "not" -> Not3(ObjectOf(f, e.item, row))
    [] e.key = "column" -> OneOp(e.op, row.val[e.column], e.val)
    [] e.key = "relation" -> Quantified(e.quant, {ObjectOf(f, e.item, x) : x \in Joined(rows, e, row)})

LEMMA ValuesOf ==
  /\ \A s : And3(s) \in Values /\ Or3(s) \in Values
  /\ \A v : Not3(v) \in Values
  /\ \A op \in Ops : \A x, v : OneOp(op, x, v) \in Values
  /\ \A quant \in {"forward", "some", "none", "every"} : \A s : Quantified(quant, s) \in Values
<1>1. \A b \in BOOLEAN : Bool3(b) \in Values
  BY DEF Bool3, Values
<1>2. \A s : And3(s) \in Values /\ Or3(s) \in Values
  BY DEF And3, Or3, Values
<1>3. \A v : Not3(v) \in Values
  BY DEF Not3, Values
<1>4. ASSUME NEW op \in Ops, NEW x, NEW v PROVE OneOp(op, x, v) \in Values
  BY DEF OneOp, Ops, Bool3, Values
<1>5. ASSUME NEW quant \in {"forward", "some", "none", "every"}, NEW s PROVE Quantified(quant, s) \in Values
  BY DEF Quantified, Bool3, Values
<1> QED
  BY <1>2, <1>3, <1>4, <1>5

LEMMA CondOfValue ==
  ASSUME NEW f, NEW rows, NEW e \in Entries, NEW row
  PROVE  CondOf(f, rows, e, row) \in Values
BY ValuesOf, Nested DEF CondOf

LEMMA JoinedRows == \A rows, e, row : Joined(rows, e, row) \subseteq rows
BY DEF Joined

LEMMA SameObject ==
  ASSUME NEW f, NEW f2, NEW g, NEW x, \A d \in g : f[d][x] = f2[d][x]
  PROVE  ObjectOf(f, g, x) = ObjectOf(f2, g, x)
<1>1. {f[d][x] : d \in Parts(g)} = {f2[d][x] : d \in Parts(g)}
  BY DEF Parts
<1> QED
  BY <1>1 DEF ObjectOf

LEMMA SameCond ==
  ASSUME NEW rows, NEW e \in Entries, NEW row \in rows, NEW f, NEW f2,
         \A d \in Entries, x \in rows : Nesting[d] < Nesting[e] => f[d][x] = f2[d][x]
  PROVE  CondOf(f, rows, e, row) = CondOf(f2, rows, e, row)
<1>1. CASE e.key \in {"and", "or"}
  <2>1. \A g \in e.items : ObjectOf(f, g, row) = ObjectOf(f2, g, row)
    BY <1>1, Nested, SameObject
  <2>2. {ObjectOf(f, g, row) : g \in NonEmpty(e.items)} = {ObjectOf(f2, g, row) : g \in NonEmpty(e.items)}
    BY <2>1 DEF NonEmpty
  <2> QED
    BY <1>1, <2>2 DEF CondOf
<1>2. CASE e.key = "not"
  <2>1. ObjectOf(f, e.item, row) = ObjectOf(f2, e.item, row)
    BY <1>2, Nested, SameObject
  <2> QED
    BY <1>2, <2>1 DEF CondOf
<1>3. CASE e.key = "column"
  BY <1>3 DEF CondOf
<1>4. CASE e.key = "relation"
  <2>1. \A x \in Joined(rows, e, row) : ObjectOf(f, e.item, x) = ObjectOf(f2, e.item, x)
    BY <1>4, Nested, SameObject, JoinedRows
  <2>2. {ObjectOf(f, e.item, x) : x \in Joined(rows, e, row)} = {ObjectOf(f2, e.item, x) : x \in Joined(rows, e, row)}
    BY <2>1
  <2> QED
    BY <1>4, <2>2 DEF CondOf
<1> QED
  BY <1>1, <1>2, <1>3, <1>4, Nested
CondsOf(f, rows, e) == [row \in rows |-> CondOf(f, rows, e, row)]

LEMMA EntryCondIs ==
  ASSUME NEW rows, NEW e \in Entries, NEW row \in rows
  PROVE  EntryCond(rows)[e][row] = CondOf(EntryCond(rows), rows, e, row) /\ EntryCond(rows)[e][row] \in Values
<1> DEFINE D == Entries
           V == [rows -> Values]
           B == [f \in [D -> V] |-> [d \in D |-> CondsOf(f, rows, d)]]
<1>1. ASSUME NEW f \in [D -> V], NEW d \in D PROVE CondsOf(f, rows, d) \in V
  BY CondOfValue DEF CondsOf
<1>2. ASSUME NEW f \in [D -> V], NEW g \in [D -> V], NEW d \in D,
             \A c \in D : Nesting[c] < Nesting[d] => f[c] = g[c]
      PROVE  CondsOf(f, rows, d) = CondsOf(g, rows, d)
  BY <1>2, SameCond DEF CondsOf
<1>3. \A d \in D : Nesting[d] \in Nat
  BY Nested
<1>4. \A f \in [D -> V] : B[f] \in [D -> V] /\ \A d \in D : B[f][d] = CondsOf(f, rows, d)
  BY <1>1
<1>5. V # {}
  <2>1. [x \in rows |-> T] \in V
    BY DEF Values
  <2> QED
    BY <2>1
<1> HIDE DEF B, V
<1>6. Local(B, Nesting, D, V)
  BY <1>2, <1>4 DEF Local
<1> HIDE DEF D
<1>7. Solvable(B, D, V)
  BY <1>3, <1>4, <1>5, <1>6, Recursion
<1>8. PICK f \in [D -> V] : \A d \in D : f[d] = CondsOf(f, rows, d)
  BY <1>4, <1>7 DEF Solvable
<1>9. f = [d \in Entries |-> CondsOf(f, rows, d)]
  BY <1>8 DEF D
<1>10. EntryCond(rows) = CHOOSE f0 : f0 = [d \in Entries |-> CondsOf(f0, rows, d)]
  BY DEF EntryCond, CondsOf, CondOf, ObjectOf, Entries
<1>11. EntryCond(rows) = [d \in Entries |-> CondsOf(EntryCond(rows), rows, d)]
  BY <1>9, <1>10
<1>12. EntryCond(rows)[e][row] = CondOf(EntryCond(rows), rows, e, row)
  <2>1. EntryCond(rows)[e] = CondsOf(EntryCond(rows), rows, e)
    BY <1>11
  <2> QED
    BY <2>1 DEF CondsOf
<1> QED
  BY <1>12, CondOfValue
\* What filters say, one level.
SaysAll(f, g, x) == \A d \in g : f[d][x]
SaysEntry(f, rows, e, row) ==
  CASE e.key = "and" -> \A g \in e.items : SaysAll(f, g, row)
    [] e.key = "or" -> \E g \in e.items : SaysAll(f, g, row)
    [] e.key = "not" -> ~SaysAll(f, e.item, row)
    [] e.key = "column" -> SaysOp(e.op, row.val[e.column], e.val)
    [] e.key = "relation" /\ e.quant \in {"forward", "some"} -> \E x \in Joined(rows, e, row) : SaysAll(f, e.item, x)
    [] e.key = "relation" /\ e.quant = "none" -> \A x \in Joined(rows, e, row) : ~SaysAll(f, e.item, x)
    [] e.key = "relation" /\ e.quant = "every" -> \A x \in Joined(rows, e, row) : SaysAll(f, e.item, x)
SaysOf(f, rows, e) == [row \in rows |-> SaysEntry(f, rows, e, row)]

LEMMA SaysOpBoolean == \A op \in Ops : \A x, v : SaysOp(op, x, v) \in BOOLEAN
BY DEF SaysOp, Ops

LEMMA SaysEntryBoolean ==
  ASSUME NEW f, NEW rows, NEW e \in Entries, NEW row
  PROVE  SaysEntry(f, rows, e, row) \in BOOLEAN
<1>1. CASE e.key = "and"
  BY <1>1 DEF SaysEntry
<1>2. CASE e.key = "or"
  BY <1>2 DEF SaysEntry
<1>3. CASE e.key = "not"
  BY <1>3 DEF SaysEntry
<1>4. CASE e.key = "column"
  <2>1. SaysEntry(f, rows, e, row) = SaysOp(e.op, row.val[e.column], e.val)
    BY <1>4 DEF SaysEntry
  <2> QED
    BY <1>4, <2>1, SaysOpBoolean, Nested
<1>5. CASE e.key = "relation"
  BY <1>5, Nested DEF SaysEntry
<1> QED
  BY <1>1, <1>2, <1>3, <1>4, <1>5, Nested

LEMMA SameSays ==
  ASSUME NEW rows, NEW e \in Entries, NEW row \in rows, NEW f, NEW f2,
         \A d \in Entries, x \in rows : Nesting[d] < Nesting[e] => f[d][x] = f2[d][x]
  PROVE  SaysEntry(f, rows, e, row) = SaysEntry(f2, rows, e, row)
<1>0. \A g, x : (\A d \in g : f[d][x] = f2[d][x]) => SaysAll(f, g, x) = SaysAll(f2, g, x)
  BY DEF SaysAll
<1>1. CASE e.key \in {"and", "or"}
  <2>1. \A g \in e.items : SaysAll(f, g, row) = SaysAll(f2, g, row)
    BY <1>0, <1>1, Nested
  <2> QED
    BY <1>1, <2>1 DEF SaysEntry
<1>2. CASE e.key = "not"
  <2>1. SaysAll(f, e.item, row) = SaysAll(f2, e.item, row)
    BY <1>0, <1>2, Nested
  <2> QED
    BY <1>2, <2>1 DEF SaysEntry
<1>3. CASE e.key = "column"
  BY <1>3 DEF SaysEntry
<1>4. CASE e.key = "relation"
  <2>1. \A x \in Joined(rows, e, row) : SaysAll(f, e.item, x) = SaysAll(f2, e.item, x)
    BY <1>0, <1>4, Nested, JoinedRows
  <2> QED
    BY <1>4, <2>1, Nested DEF SaysEntry
<1> QED
  BY <1>1, <1>2, <1>3, <1>4, Nested

LEMMA SaysIs ==
  ASSUME NEW rows, NEW e \in Entries, NEW row \in rows
  PROVE  Says(rows)[e][row] = SaysEntry(Says(rows), rows, e, row) /\ Says(rows)[e][row] \in BOOLEAN
<1> DEFINE D == Entries
           V == [rows -> BOOLEAN]
           B == [f \in [D -> V] |-> [d \in D |-> SaysOf(f, rows, d)]]
<1>1. ASSUME NEW f \in [D -> V], NEW d \in D PROVE SaysOf(f, rows, d) \in V
  BY SaysEntryBoolean DEF SaysOf
<1>2. ASSUME NEW f \in [D -> V], NEW g \in [D -> V], NEW d \in D,
             \A c \in D : Nesting[c] < Nesting[d] => f[c] = g[c]
      PROVE  SaysOf(f, rows, d) = SaysOf(g, rows, d)
  BY <1>2, SameSays DEF SaysOf
<1>3. \A d \in D : Nesting[d] \in Nat
  BY Nested
<1>4. \A f \in [D -> V] : B[f] \in [D -> V] /\ \A d \in D : B[f][d] = SaysOf(f, rows, d)
  BY <1>1
<1>5. V # {}
  <2>1. [x \in rows |-> TRUE] \in V
    OBVIOUS
  <2> QED
    BY <2>1
<1> HIDE DEF B, V
<1>6. Local(B, Nesting, D, V)
  BY <1>2, <1>4 DEF Local
<1> HIDE DEF D
<1>7. Solvable(B, D, V)
  BY <1>3, <1>4, <1>5, <1>6, Recursion
<1>8. PICK f \in [D -> V] : \A d \in D : f[d] = SaysOf(f, rows, d)
  BY <1>4, <1>7 DEF Solvable
<1>9. f = [d \in Entries |-> SaysOf(f, rows, d)]
  BY <1>8 DEF D
<1>10. Says(rows) = CHOOSE f0 : f0 = [d \in Entries |-> SaysOf(f0, rows, d)]
  BY DEF Says, SaysOf, SaysEntry, SaysAll, Entries
<1>11. Says(rows) = [d \in Entries |-> SaysOf(Says(rows), rows, d)]
  BY <1>9, <1>10
<1>12. Says(rows)[e][row] = SaysEntry(Says(rows), rows, e, row)
  <2>1. Says(rows)[e] = SaysOf(Says(rows), rows, e)
    BY <1>11
  <2> QED
    BY <2>1 DEF SaysOf
<1> QED
  BY <1>12, SaysEntryBoolean
\* A condition says what its entry does: it is true when the entry holds, is not
\* NULL when nothing in the database is, and an entry without one asks for nothing.
KnownIn(rows) == \A row \in rows : \A c \in DOMAIN row.val : row.val[c] # NULL
Plain(rows, e) == e \in Entries /\ Complete[e] /\ (KnownIn(rows) \/ Positive[e])
Faithful(rows, c, s) == (c = T <=> s) /\ (KnownIn(rows) => c # N)
Right(rows, e, row) ==
  /\ HasCond[e] => Faithful(rows, EntryCond(rows)[e][row], Says(rows)[e][row])
  /\ ~HasCond[e] => Says(rows)[e][row]

LEMMA TruthValues == T # F /\ T # N /\ F # N
BY DEF T, F, N

LEMMA AllHold ==
  ASSUME NEW s \in SUBSET Values
  PROVE  /\ And3(s) = T <=> \A v \in s : v = T
         /\ N \notin s => And3(s) # N
BY TruthValues DEF And3, Values

LEMMA SomeHolds ==
  ASSUME NEW s \in SUBSET Values
  PROVE  /\ Or3(s) = T <=> \E v \in s : v = T
         /\ N \notin s => Or3(s) # N
BY TruthValues DEF Or3, Values

\* An object, from its entries.
LEMMA ObjectFaithful ==
  ASSUME NEW rows, NEW g, NEW x \in rows, \A d \in g : d \in Entries /\ Right(rows, d, x)
  PROVE  /\ ObjectOf(EntryCond(rows), g, x) \in Values
         /\ Faithful(rows, ObjectOf(EntryCond(rows), g, x), SaysAll(Says(rows), g, x))
         /\ Parts(g) = {} => SaysAll(Says(rows), g, x)
<1> DEFINE cond == EntryCond(rows)
           says == Says(rows)
           s == {cond[d][x] : d \in Parts(g)}
<1>1. \A d \in g : cond[d][x] \in Values /\ says[d][x] \in BOOLEAN
  BY EntryCondIs, SaysIs
<1>2. \A d \in g : d \in Parts(g) <=> HasCond[d]
  BY DEF Parts
<1>3. \A d \in Parts(g) : d \in g
  BY DEF Parts
<1>4. s \in SUBSET Values
  BY <1>1, <1>3
<1>5. ObjectOf(cond, g, x) = And3(s)
  BY DEF ObjectOf
<1>6. (\A v \in s : v = T) <=> \A d \in Parts(g) : cond[d][x] = T
  OBVIOUS
<1>7. KnownIn(rows) => N \notin s
  BY <1>2, <1>3 DEF Right, Faithful
<1> HIDE DEF s, cond, says
<1>8. And3(s) = T <=> \A d \in Parts(g) : cond[d][x] = T
  BY <1>4, <1>6, AllHold
<1>9. KnownIn(rows) => And3(s) # N
  BY <1>4, <1>7, AllHold
<1>10. \A d \in g : /\ HasCond[d] => (cond[d][x] = T <=> says[d][x])
                    /\ ~HasCond[d] => says[d][x]
  BY DEF Right, Faithful, cond, says
<1>11. (\A d \in Parts(g) : cond[d][x] = T) <=> SaysAll(says, g, x)
  BY <1>2, <1>3, <1>10 DEF SaysAll
<1>12. Parts(g) = {} => SaysAll(says, g, x)
  BY <1>2, <1>10 DEF SaysAll
<1> QED
  BY <1>5, <1>8, <1>9, <1>11, <1>12, ValuesOf DEF Faithful, cond, says

\* An operator of a column.
LEMMA ColumnFaithful ==
  ASSUME NEW rows, NEW op \in Ops, NEW x, NEW v, v # NULL,
         op \in {"equalTo", "notEqualTo"} => \E y \in v : v = {y},
         KnownIn(rows) => x # NULL
  PROVE  Faithful(rows, OneOp(op, x, v), SaysOp(op, x, v))
<1>1. \A b \in BOOLEAN : (Bool3(b) = T <=> b) /\ Bool3(b) # N
  BY TruthValues DEF Bool3
<1>2. CASE op = "isNull"
  BY <1>1, <1>2 DEF OneOp, SaysOp, Faithful
<1>3. CASE op = "isNotNull"
  BY <1>1, <1>3 DEF OneOp, SaysOp, Faithful
<1>4. CASE op = "in"
  <2>1. SaysOp(op, x, v) <=> x # NULL /\ x \in v
    BY <1>4 DEF SaysOp
  <2>2. OneOp(op, x, v) = IF v = {} THEN F ELSE IF x = NULL THEN N ELSE Bool3(x \in v)
    BY <1>4 DEF OneOp
  <2>3. (Bool3(x \in v) = T <=> x \in v) /\ Bool3(x \in v) # N
    BY TruthValues DEF Bool3
  <2>4. v = {} => x \notin v
    OBVIOUS
  <2> QED
    BY <2>1, <2>2, <2>3, <2>4, TruthValues DEF Faithful
<1>5. CASE op = "notIn"
  BY <1>1, <1>5, TruthValues DEF OneOp, SaysOp, Faithful
<1>6. CASE op = "equalTo"
  <2>1. (v = {x}) <=> x \in v
    BY <1>6
  <2> QED
    BY <1>1, <1>6, <2>1, TruthValues DEF OneOp, SaysOp, Faithful
<1>7. CASE op = "notEqualTo"
  <2>1. (v # {x}) <=> x \notin v
    BY <1>7
  <2> QED
    BY <1>1, <1>7, <2>1, TruthValues DEF OneOp, SaysOp, Faithful
<1>8. CASE op = "greaterThan"
  BY <1>1, <1>8, TruthValues DEF OneOp, SaysOp, Faithful
<1> QED
  BY <1>2, <1>3, <1>4, <1>5, <1>6, <1>7, <1>8 DEF Ops
\* The rows an entry is about, and what is in it.
LEMMA EntryOn ==
  ASSUME NEW t \in Tables, NEW f \in FiltersOf[t], NEW e \in f
  PROVE  /\ e \in Entries
         /\ e.key = "column" => e.column \in Columns[t]
         /\ e.key \in {"and", "or"} => e.items \subseteq FiltersOf[t]
         /\ e.key = "not" => e.item \in FiltersOf[t]
         /\ e.key = "relation" => e.fk \in FKs
         /\ e.key = "relation" /\ e.quant = "forward" => e.item \in FiltersOf[e.fk.ref]
         /\ e.key = "relation" /\ e.quant # "forward" => e.item \in FiltersOf[e.fk.table]
         /\ e.key = "column" /\ e.op \in {"equalTo", "notEqualTo"} /\ e.val # NULL => \E v \in e.val : e.val = {v}
<1>1. FiltersOf[t] \subseteq Filters /\ FilterOn(t, f)
  BY TableAssumption
<1> QED
  BY <1>1, FilterAssumption DEF FilterOn, Entries

LEMMA JoinedTables ==
  ASSUME NEW rows, NEW e, NEW row, NEW x \in Joined(rows, e, row)
  PROVE  x \in rows /\ x.table = IF e.quant = "forward" THEN e.fk.ref ELSE e.fk.table
BY DEF Joined

\* What holds of the entries below holds of an entry.
Below(rows, e) ==
  \A d \in Entries : Nesting[d] < Nesting[e] /\ Plain(rows, d) =>
    \A t \in Tables : \A f \in FiltersOf[t] : d \in f =>
      \A row \in rows : row.table = t => Right(rows, d, row)

LEMMA PlainBelow ==
  ASSUME NEW rows, NEW e, Plain(rows, e)
  PROVE  /\ e.key \in {"and", "or"} => \A g \in e.items : \A d \in g : Plain(rows, d) /\ Nesting[d] < Nesting[e]
         /\ e.key \in {"not", "relation"} => \A d \in e.item : Plain(rows, d) /\ Nesting[d] < Nesting[e]
         /\ e.key = "column" => e.val # NULL
         /\ e.key = "or" => e.items # {} /\ \A g \in e.items : Parts(g) # {}
         /\ e.key = "not" => KnownIn(rows) /\ Parts(e.item) # {}
         /\ e.key = "relation" /\ e.quant = "every" => KnownIn(rows)
<1>1. e \in Entries /\ Complete[e] /\ (KnownIn(rows) \/ Positive[e])
  BY DEF Plain
<1>2. CompleteOf(Complete, e) /\ (KnownIn(rows) \/ PositiveOf(Positive, e))
  BY <1>1, CompleteIs, PositiveIs
<1>3. e.key \in {"and", "or"} => \A g \in e.items : \A d \in g : Plain(rows, d) /\ Nesting[d] < Nesting[e]
  BY <1>1, <1>2, Nested DEF CompleteOf, PositiveOf, Plain
<1>4. e.key \in {"not", "relation"} => \A d \in e.item : Plain(rows, d) /\ Nesting[d] < Nesting[e]
  BY <1>1, <1>2, Nested DEF CompleteOf, PositiveOf, Plain
<1> QED
  BY <1>2, <1>3, <1>4 DEF CompleteOf, PositiveOf

LEMMA ObjectBelow ==
  ASSUME NEW rows, NEW e, Below(rows, e), NEW t \in Tables, NEW g \in FiltersOf[t],
         \A d \in g : Plain(rows, d) /\ Nesting[d] < Nesting[e], NEW x \in rows, x.table = t
  PROVE  /\ ObjectOf(EntryCond(rows), g, x) \in Values
         /\ Faithful(rows, ObjectOf(EntryCond(rows), g, x), SaysAll(Says(rows), g, x))
         /\ Parts(g) = {} => SaysAll(Says(rows), g, x)
<1>1. \A d \in g : d \in Entries /\ Right(rows, d, x)
  BY DEF Below, Plain
<1> QED
  BY <1>1, ObjectFaithful

LEMMA PartsHave ==
  ASSUME NEW e \in Entries
  PROVE  /\ e.key \in {"and", "or"} => (HasCond[e] <=> \E g \in e.items : Parts(g) # {})
         /\ e.key = "not" => (HasCond[e] <=> Parts(e.item) # {})
         /\ e.key = "column" => (HasCond[e] <=> e.val # NULL)
         /\ e.key = "relation" => (HasCond[e] <=> (e.quant = "every" => Parts(e.item) # {}))
<1>1. HasCond[e] = EntryOf(HasCond, e)
  BY HasCondIs
<1>2. \A g : Parts(g) # {} <=> \E d \in g : HasCond[d]
  BY DEF Parts
<1> QED
  BY <1>1, <1>2, Nested DEF EntryOf
\* The kinds of entries, one by one.
LEMMA ListRight ==
  ASSUME NEW rows, NEW e, Plain(rows, e), Below(rows, e), e.key \in {"and", "or"},
         NEW t \in Tables, NEW f \in FiltersOf[t], e \in f, NEW row \in rows, row.table = t
  PROVE  Right(rows, e, row)
<1> DEFINE cond == EntryCond(rows)
           says == Says(rows)
           s == {ObjectOf(cond, g, row) : g \in NonEmpty(e.items)}
<1>1. e \in Entries /\ e.items \subseteq FiltersOf[t]
  BY EntryOn
<1>2. ASSUME NEW g \in e.items
      PROVE  /\ ObjectOf(cond, g, row) \in Values
             /\ Faithful(rows, ObjectOf(cond, g, row), SaysAll(says, g, row))
             /\ Parts(g) = {} => SaysAll(says, g, row)
  <2>1. g \in FiltersOf[t] /\ \A d \in g : Plain(rows, d) /\ Nesting[d] < Nesting[e]
    BY <1>1, PlainBelow
  <2> QED
    BY <2>1, ObjectBelow
<1>3. \A g : g \in NonEmpty(e.items) <=> g \in e.items /\ Parts(g) # {}
  BY DEF NonEmpty
<1>4. s \in SUBSET Values
  BY <1>2, <1>3
<1>5. KnownIn(rows) => N \notin s
  BY <1>2, <1>3 DEF Faithful
<1>6. \A g \in e.items : ObjectOf(cond, g, row) = T <=> SaysAll(says, g, row)
  BY <1>2 DEF Faithful
<1>7. cond[e][row] = CondOf(cond, rows, e, row) /\ says[e][row] = SaysEntry(says, rows, e, row)
  BY <1>1, EntryCondIs, SaysIs
<1>8. HasCond[e] <=> \E g \in e.items : Parts(g) # {}
  BY <1>1, PartsHave
<1>9. /\ (\A v \in s : v = T) <=> \A g \in NonEmpty(e.items) : ObjectOf(cond, g, row) = T
      /\ (\E v \in s : v = T) <=> \E g \in NonEmpty(e.items) : ObjectOf(cond, g, row) = T
  OBVIOUS
<1>10. CASE e.key = "and"
  <2>1. cond[e][row] = And3(s) /\ (says[e][row] <=> \A g \in e.items : SaysAll(says, g, row))
    BY <1>7, <1>10 DEF CondOf, SaysEntry
  <2> HIDE DEF s, cond, says
  <2>2. And3(s) = T <=> \A g \in NonEmpty(e.items) : ObjectOf(cond, g, row) = T
    BY <1>4, <1>9, AllHold
  <2>3. KnownIn(rows) => And3(s) # N
    BY <1>4, <1>5, AllHold
  <2>4. (\A g \in NonEmpty(e.items) : ObjectOf(cond, g, row) = T) <=> \A g \in e.items : SaysAll(says, g, row)
    BY <1>2, <1>3, <1>6
  <2>5. ~HasCond[e] => \A g \in e.items : SaysAll(says, g, row)
    BY <1>2, <1>8
  <2> QED
    BY <2>1, <2>2, <2>3, <2>4, <2>5 DEF Right, Faithful, cond, says
<1>11. CASE e.key = "or"
  <2>1. cond[e][row] = Or3(s) /\ (says[e][row] <=> \E g \in e.items : SaysAll(says, g, row))
    BY <1>7, <1>11 DEF CondOf, SaysEntry
  <2> HIDE DEF s, cond, says
  <2>2. Or3(s) = T <=> \E g \in NonEmpty(e.items) : ObjectOf(cond, g, row) = T
    BY <1>4, <1>9, SomeHolds
  <2>3. KnownIn(rows) => Or3(s) # N
    BY <1>4, <1>5, SomeHolds
  <2>4. HasCond[e] /\ \A g \in e.items : Parts(g) # {}
    BY <1>8, <1>11, PlainBelow
  <2>5. (\E g \in NonEmpty(e.items) : ObjectOf(cond, g, row) = T) <=> \E g \in e.items : SaysAll(says, g, row)
    BY <1>3, <1>6, <2>4
  <2> QED
    BY <2>1, <2>2, <2>3, <2>4, <2>5 DEF Right, Faithful, cond, says
<1> QED
  BY <1>10, <1>11

LEMMA NotRight ==
  ASSUME NEW rows, NEW e, Plain(rows, e), Below(rows, e), e.key = "not",
         NEW t \in Tables, NEW f \in FiltersOf[t], e \in f, NEW row \in rows, row.table = t
  PROVE  Right(rows, e, row)
<1> DEFINE cond == EntryCond(rows)
           says == Says(rows)
           c == ObjectOf(cond, e.item, row)
<1>1. e \in Entries /\ e.item \in FiltersOf[t]
  BY EntryOn
<1>2. KnownIn(rows) /\ Parts(e.item) # {} /\ \A d \in e.item : Plain(rows, d) /\ Nesting[d] < Nesting[e]
  BY PlainBelow
<1>3. c \in Values /\ Faithful(rows, c, SaysAll(says, e.item, row))
  BY <1>1, <1>2, ObjectBelow
<1>4. cond[e][row] = Not3(c) /\ (says[e][row] <=> ~SaysAll(says, e.item, row))
  BY <1>1, EntryCondIs, SaysIs DEF CondOf, SaysEntry
<1>5. HasCond[e]
  BY <1>1, <1>2, PartsHave
<1> HIDE DEF c, cond, says
<1>6. Not3(c) \in {T, F} /\ (Not3(c) = T <=> c # T)
  BY <1>2, <1>3, TruthValues DEF Not3, Values, Faithful
<1> QED
  BY <1>3, <1>4, <1>5, <1>6, TruthValues DEF Right, Faithful, cond, says

LEMMA ColumnRight ==
  ASSUME NEW rows, Rows(rows), NEW e, Plain(rows, e), e.key = "column",
         NEW t \in Tables, NEW f \in FiltersOf[t], e \in f, NEW row \in rows, row.table = t
  PROVE  Right(rows, e, row)
<1>1. e \in Entries /\ e.column \in Columns[t] /\ e.op \in Ops /\ e.val # NULL
  BY EntryOn, PlainBelow, Nested
<1>2. e.op \in {"equalTo", "notEqualTo"} => \E v \in e.val : e.val = {v}
  BY <1>1, EntryOn
<1>3. KnownIn(rows) => row.val[e.column] # NULL
  BY <1>1, RowIs DEF KnownIn, Rows
<1>4. Faithful(rows, OneOp(e.op, row.val[e.column], e.val), SaysOp(e.op, row.val[e.column], e.val))
  BY <1>1, <1>2, <1>3, ColumnFaithful
<1>5. EntryCond(rows)[e][row] = OneOp(e.op, row.val[e.column], e.val)
  BY <1>1, EntryCondIs DEF CondOf
<1>6. Says(rows)[e][row] = SaysOp(e.op, row.val[e.column], e.val)
  <2>1. Says(rows)[e][row] = SaysEntry(Says(rows), rows, e, row)
    BY <1>1, SaysIs
  <2>2. SaysEntry(Says(rows), rows, e, row) = SaysOp(e.op, row.val[e.column], e.val)
    BY DEF SaysEntry
  <2> QED
    BY <2>1, <2>2
<1>7. HasCond[e]
  BY <1>1, PartsHave
<1> QED
  BY <1>4, <1>5, <1>6, <1>7 DEF Right
LEMMA RelationRight ==
  ASSUME NEW rows, Rows(rows), NEW e, Plain(rows, e), Below(rows, e), e.key = "relation",
         NEW t \in Tables, NEW f \in FiltersOf[t], e \in f, NEW row \in rows, row.table = t
  PROVE  Right(rows, e, row)
<1> DEFINE cond == EntryCond(rows)
           says == Says(rows)
           J == Joined(rows, e, row)
           s == {ObjectOf(cond, e.item, x) : x \in J}
<1>1. e \in Entries /\ e.quant \in {"forward", "some", "none", "every"} /\ e.fk \in FKs
  BY EntryOn, Nested
<1>2. \A d \in e.item : Plain(rows, d) /\ Nesting[d] < Nesting[e]
  BY PlainBelow
<1>3. ASSUME NEW x \in J
      PROVE  /\ ObjectOf(cond, e.item, x) \in Values
             /\ Faithful(rows, ObjectOf(cond, e.item, x), SaysAll(says, e.item, x))
             /\ Parts(e.item) = {} => SaysAll(says, e.item, x)
  <2>1. x \in rows /\ x.table \in Tables
    BY JoinedRows, RowIs DEF Rows
  <2>2. e.item \in FiltersOf[x.table]
    BY <1>1, EntryOn, JoinedTables
  <2> HIDE DEF J, cond, says
  <2>3. /\ ObjectOf(EntryCond(rows), e.item, x) \in Values
        /\ Faithful(rows, ObjectOf(EntryCond(rows), e.item, x), SaysAll(Says(rows), e.item, x))
        /\ Parts(e.item) = {} => SaysAll(Says(rows), e.item, x)
    BY <1>2, <2>1, <2>2, ObjectBelow
  <2> QED
    BY <2>3 DEF cond, says
<1>4. cond[e][row] = CondOf(cond, rows, e, row) /\ says[e][row] = SaysEntry(says, rows, e, row)
  BY <1>1, EntryCondIs, SaysIs
<1>5. CondOf(cond, rows, e, row) = Quantified(e.quant, s)
  BY DEF CondOf
<1>6. HasCond[e] <=> (e.quant = "every" => Parts(e.item) # {})
  BY <1>1, PartsHave
<1>7. /\ T \in s <=> \E x \in J : ObjectOf(cond, e.item, x) = T
      /\ F \in s <=> \E x \in J : ObjectOf(cond, e.item, x) = F
  OBVIOUS
<1> HIDE DEF s, J, cond, says
<1>8. \A x \in J : ObjectOf(cond, e.item, x) = T <=> SaysAll(says, e.item, x)
  BY <1>3 DEF Faithful
<1>9. CASE e.quant \in {"forward", "some"}
  <2>1. Quantified(e.quant, s) = Bool3(T \in s)
    BY <1>9 DEF Quantified
  <2>2. SaysEntry(says, rows, e, row) <=> \E x \in J : SaysAll(says, e.item, x)
    BY <1>9 DEF SaysEntry, J
  <2>3. (Bool3(T \in s) = T <=> T \in s) /\ Bool3(T \in s) # N
    BY TruthValues DEF Bool3
  <2>4. T \in s <=> \E x \in J : SaysAll(says, e.item, x)
    BY <1>7, <1>8
  <2>5. HasCond[e]
    BY <1>6, <1>9
  <2> QED
    BY <1>4, <1>5, <2>1, <2>2, <2>3, <2>4, <2>5 DEF Right, Faithful, cond, says
<1>10. CASE e.quant = "none"
  <2>1. Quantified(e.quant, s) = Bool3(T \notin s)
    BY <1>10 DEF Quantified
  <2>2. SaysEntry(says, rows, e, row) <=> \A x \in J : ~SaysAll(says, e.item, x)
    BY <1>10 DEF SaysEntry, J
  <2>3. (Bool3(T \notin s) = T <=> T \notin s) /\ Bool3(T \notin s) # N
    BY TruthValues DEF Bool3
  <2>4. T \notin s <=> \A x \in J : ~SaysAll(says, e.item, x)
    BY <1>7, <1>8
  <2>5. HasCond[e]
    BY <1>6, <1>10
  <2> QED
    BY <1>4, <1>5, <2>1, <2>2, <2>3, <2>4, <2>5 DEF Right, Faithful, cond, says
<1>11. CASE e.quant = "every"
  <2>0. KnownIn(rows)
    BY <1>11, PlainBelow
  <2>1. Quantified(e.quant, s) = Bool3(F \notin s)
    BY <1>11 DEF Quantified
  <2>2. SaysEntry(says, rows, e, row) <=> \A x \in J : SaysAll(says, e.item, x)
    BY <1>11 DEF SaysEntry, J
  <2>3. (Bool3(F \notin s) = T <=> F \notin s) /\ Bool3(F \notin s) # N
    BY TruthValues DEF Bool3
  <2>4. \A x \in J : ObjectOf(cond, e.item, x) # F <=> SaysAll(says, e.item, x)
    BY <1>3, <2>0, TruthValues DEF Faithful, Values
  <2>5. F \notin s <=> \A x \in J : SaysAll(says, e.item, x)
    BY <1>7, <2>4
  <2>6. ~HasCond[e] => \A x \in J : SaysAll(says, e.item, x)
    BY <1>3, <1>6
  <2> QED
    BY <1>4, <1>5, <2>1, <2>2, <2>3, <2>5, <2>6 DEF Right, Faithful, cond, says
<1> QED
  BY <1>1, <1>9, <1>10, <1>11

\* By how deep they nest: all entries.
LEMMA AllRight ==
  ASSUME NEW rows, Rows(rows), NEW e, Plain(rows, e),
         NEW t \in Tables, NEW f \in FiltersOf[t], e \in f, NEW row \in rows, row.table = t
  PROVE  Right(rows, e, row)
<1> DEFINE OK(d) == Plain(rows, d) =>
             \A u \in Tables : \A g \in FiltersOf[u] : d \in g => \A x \in rows : x.table = u => Right(rows, d, x)
           S == {d \in Entries : OK(d)}
<1>1. ASSUME NEW d \in Entries, \A c \in Entries : Nesting[c] < Nesting[d] => c \in S PROVE d \in S
  <2> SUFFICES ASSUME Plain(rows, d), NEW u \in Tables, NEW g \in FiltersOf[u], d \in g,
                      NEW x \in rows, x.table = u
               PROVE  Right(rows, d, x)
    OBVIOUS
  <2>1. Below(rows, d)
    BY <1>1 DEF Below
  <2> HIDE DEF S
  <2>2. d.key \in {"and", "or", "not", "column", "relation"}
    BY Nested
  <2>3. CASE d.key \in {"and", "or"}
    BY <2>1, <2>3, ListRight
  <2>4. CASE d.key = "not"
    BY <2>1, <2>4, NotRight
  <2>5. CASE d.key = "column"
    BY <2>5, ColumnRight
  <2>6. CASE d.key = "relation"
    BY <2>1, <2>6, RelationRight
  <2> QED
    BY <2>2, <2>3, <2>4, <2>5, <2>6
<1>2. \A d \in Entries : Nesting[d] \in Nat
  BY Nested
<1> HIDE DEF S
<1>3. Entries \subseteq S
  BY <1>1, <1>2, ByRank
<1>4. e \in S
  BY <1>3 DEF Plain
<1> QED
  BY <1>4 DEF S

LEMMA FilterStep ==
  ASSUME Database(db), NEW t \in Tables, NEW f \in FiltersOf[t],
         \A e \in f : Complete[e], Known \/ \A e \in f : Positive[e]
  PROVE  Selected(db, t, f) = Meant(db, t, f)
<1>1. \A e \in f : Plain(db, e)
  BY EntryOn DEF Plain, KnownIn, Known
<1>2. ASSUME NEW row \in db, row.table = t
      PROVE  (\A e \in Parts(f) : EntryCond(db)[e][row] = T) <=> \A e \in f : Says(db)[e][row]
  <2>1. \A e \in f : Right(db, e, row)
    BY <1>1, <1>2, AllRight DEF Database
  <2>2. \A e : e \in Parts(f) <=> e \in f /\ HasCond[e]
    BY DEF Parts
  <2> QED
    BY <2>1, <2>2 DEF Right, Faithful
<1> QED
  BY <1>2 DEF Selected, Meant

\* A filter selects the rows it describes (filterCond, relationExists), through any
\* nesting, for any tables and any filters over them, in every reachable database.
THEOREM FiltersSelect == Spec => []FilterSelects
<1>1. Inv => FilterSelects
  BY FilterStep DEF Inv, FilterSelects
<1> QED
  BY <1>1, DatabaseKept, PTL
=============================================================================
