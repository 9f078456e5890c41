----------------------------- MODULE NestedCreate -----------------------------
(***************************************************************************)
(* A create mutation with the nested-mutations plugin: BeforeOperation      *)
(* forces a transaction, WrapCompile turns the nested input into a chain of *)
(* INSERT and SELECT CTEs of one statement, and the payload is read from    *)
(* the row of the main CTE and its relations.  Other sessions insert and    *)
(* delete the rows the input wants to connect to.                           *)
(*                                                                         *)
(* An input is a prefix-closed set of paths of edges.  The empty path is    *)
(* the row the mutation creates; an edge leads to a row created for one of  *)
(* its foreign keys ("create"), to a row that exists ("connect"), to a row  *)
(* created on the other side of a foreign key ("child"), or gives a foreign *)
(* key column directly ("plain").  The row created for a path has that path *)
(* as its id.  Columns other than foreign keys do not matter here.          *)
(***************************************************************************)
EXTENDS Naturals, Sequences, SequencesExt

CONSTANTS
  Tables,
  FKs, Owner, Ref,  \* foreign keys, [FKs -> Tables] from owner to referenced table
  NotNull,          \* the foreign keys whose column is NOT NULL
  Seed,             \* the rows of the database at the start
  NULL,
  Others,           \* rows other sessions may insert
  MaxDepth,         \* plugins.settings.nested-mutations.max_depth
  Inputs,           \* [Tables -> sets of inputs]
  MaxWrites         \* bound: writes of other sessions

ASSUME SchemaAssumption ==
  /\ Owner \in [FKs -> Tables] /\ Ref \in [FKs -> Tables]
  /\ NotNull \subseteq FKs
  /\ MaxDepth \in Nat \ {0} /\ MaxWrites \in Nat

VARIABLES
  flags,     \* transactions.mutations, force_transactions, and whether the
             \* operation has the field itself or through a fragment
  target,    \* the table of the mutation
  input,     \* its input
  db,        \* committed rows
  pc,        \* "before", "compile", "execute", "commit", "rollback", "done"
  forceTx,   \* op.ForceTx
  pending,   \* rows the open transaction inserted
  payload,   \* what the statement returned, NULL for no row
  reply,     \* "none", "ok" or "errors"
  writes

request == <<flags, target, input>>
vars == <<request, db, pc, forceTx, pending, payload, reply, writes>>
------------------------------------------------------------------------------
\* A row: its table, its id, and the value of every foreign key it owns.
Row(t, id, fks) == [table |-> t, id |-> id, fk |-> fks]
Find(rows, t, id) == {row \in rows : row.table = t /\ row.id = id}

Kind(p) == IF p = << >> THEN "root" ELSE Last(p).kind
Via(p) == Last(p).fk
Parent(p) == Front(p)

\* The table of the row a path leads to.
TableOf(root, p) ==
  CASE Kind(p) = "root" -> root
    [] Kind(p) = "child" -> Owner[Via(p)]
    [] OTHER -> Ref[Via(p)]

\* The edges of an input that leave p for foreign key k.
Edges(in, p, k, kinds) ==
  {e \in {Last(q) : q \in {q \in in : q # << >> /\ Parent(q) = p}} : e.fk = k /\ e.kind \in kinds}

\* What the generated input types and the database let an input be: it contains
\* the way to each of its paths, only rows to create have fields of their own, an
\* edge uses a foreign key of the right table, an object has a field once, and an
\* explicit null (insertChain skips it) is no edge.
WellFormed(root, in) ==
  /\ << >> \in in
  /\ \A q \in in : \A n \in 1..Len(q) : SubSeq(q, 1, n) \in in
  /\ in \subseteq Seq(UNION {{q[i] : i \in 1..Len(q)} : q \in in})
  /\ \A q \in in \ {<< >>} :
       /\ Kind(q) \in {"create", "connect", "child", "plain"} /\ Via(q) \in FKs
       /\ Kind(Parent(q)) \in {"root", "create", "child"}
       /\ (IF Kind(q) = "child" THEN Ref ELSE Owner)[Via(q)] = TableOf(root, Parent(q))
       /\ Kind(q) # "child" => Edges(in, Parent(q), Via(q), {Kind(q)}) = {Last(q)}
       /\ Kind(q) \in {"connect", "plain"} => Last(q).to \notin in \cup {NULL}

\* Rows that were there, and rows of other sessions, have ids of their own, own
\* their table's foreign keys, and do not know the rows of the input.
Foreign(row, in) ==
  /\ row.id \notin in
  /\ DOMAIN row.fk = {k \in FKs : Owner[k] = row.table}
  /\ \A k \in DOMAIN row.fk : row.fk[k] \notin in

ASSUME InputsAssumption ==
  \A t \in Tables : \A in \in Inputs[t] :
    WellFormed(t, in) /\ NULL \notin in /\ \A row \in Seed \cup Others : Foreign(row, in)

\* hasNested: a nested field is set on the row of the mutation.
hasNested(in) == \E q \in in : Len(q) = 1 /\ Kind(q) # "plain"
------------------------------------------------------------------------------
\* insertChain recurses through nested parents, resolveParent and insertChildren
\* do not recurse any further: which paths the generator reaches.
OnChain(p) == \A i \in 1..Len(p) : p[i].kind = "create"

Chain(in) == {p \in in : OnChain(p)}
Lookups(in) == {p \in in : Kind(p) = "connect" /\ OnChain(Parent(p))}
\* MUTANT of Children: only the main row's.
ChildrenOfRoot(in) == {p \in in : Kind(p) = "child" /\ Len(p) = 1}

Children(in) == {p \in in : Kind(p) = "child" /\ OnChain(Parent(p))}
Inserts(in) == Chain(in) \cup Children(in)

\* Errors of the generator: the depth limit, and create beside connect.
TooDeep(in) == \E p \in Inserts(in) : Len(p) + 1 > MaxDepth
BothGiven(in) ==
  \E p \in Chain(in), k \in FKs :
    Edges(in, p, k, {"create"}) # {} /\ Edges(in, p, k, {"connect"}) # {}

\* What the CTE of p puts into foreign key k: plain columns, then the parents'
\* CTEs for a row of the chain, the parent's CTE for a child.
Given(in, p, k) ==
  {e.to : e \in Edges(in, p, k, {"plain"})}
  \cup (IF p \in Chain(in) THEN {e.to : e \in Edges(in, p, k, {"connect"})}
                               \cup {Append(p, e) : e \in Edges(in, p, k, {"create"})} ELSE {})
  \cup (IF p \in Children(in) /\ Via(p) = k THEN {Parent(p)} ELSE {})

\* A column named twice in an INSERT is an error of the server.
NamedTwice(in) ==
  \E p \in Inserts(in), k \in FKs :
    \/ Edges(in, p, k, {"plain"}) # {} /\ p \in Chain(in) /\ Edges(in, p, k, {"create", "connect"}) # {}
    \/ Edges(in, p, k, {"plain"}) # {} /\ p \in Children(in) /\ Via(p) = k

\* An INSERT ... SELECT inserts nothing when a CTE it reads is empty: a lookup
\* that missed, or an insert that depends on one.
Found(rows, root, q) == Find(rows, TableOf(root, q), Last(q).to) # {}
Base(in, p) == IF p \in Children(in) THEN Parent(p) ELSE p
Yields(in, root, rows, p) ==
  \A q \in Lookups(in) : IsPrefix(Base(in, p), q) => Found(rows, root, q)

NewRow(in, root, p) ==
  Row(TableOf(root, p), p,
      [k \in {k \in FKs : Owner[k] = TableOf(root, p)} |->
         IF Given(in, p, k) = {} THEN NULL ELSE CHOOSE id \in Given(in, p, k) : TRUE])

NewRows(in, root, rows) ==
  {NewRow(in, root, p) : p \in {p \in Inserts(in) : Yields(in, root, rows, p)}}

\* The constraints of the tables, checked when the statement ends.
Valid(new, rows) ==
  \A row \in new : \A k \in DOMAIN row.fk :
    IF row.fk[k] = NULL THEN k \notin NotNull
    ELSE Find(rows \cup new, Ref[k], row.fk[k]) # {}
------------------------------------------------------------------------------
\* Where the payload reads a table: the inserts of a table with nested children,
\* else the table as it was when the statement began.
Source(in, root, rows, t) ==
  IF \E p \in Children(in) : TableOf(root, p) = t
  THEN {row \in NewRows(in, root, rows) : row.table = t /\ row.id \in Children(in)}
  ELSE {row \in rows : row.table = t}

\* MUTANT of Payload: children are read from the table.
PayloadFromTables(in, root, rows) ==
  LET created == NewRow(in, root, << >>) IN
    [parents |-> [k \in DOMAIN created.fk |->
       {row.id : row \in {row \in rows : row.table = Ref[k] /\ row.id = created.fk[k]}}],
     children |-> [k \in {k \in FKs : Ref[k] = root} |->
       {row.id : row \in {row \in rows : row.table = Owner[k] /\ row.fk[k] = << >>}}]]

\* The relations of the created row, one level deep.
Payload(in, root, rows) ==
  LET created == NewRow(in, root, << >>) IN
    [parents |-> [k \in DOMAIN created.fk |->
       {row.id : row \in {row \in Source(in, root, rows, Ref[k]) : row.id = created.fk[k]}}],
     children |-> [k \in {k \in FKs : Ref[k] = root} |->
       {row.id : row \in {row \in Source(in, root, rows, Owner[k]) : row.fk[k] = << >>}}]]
------------------------------------------------------------------------------
Flags == [tx_mutations : BOOLEAN, force_transactions : BOOLEAN, top_level : BOOLEAN]

Init ==
  /\ flags \in Flags
  /\ target \in Tables
  /\ input \in Inputs[target]
  /\ db = Seed /\ writes = 0
  /\ pc = "before" /\ forceTx = FALSE
  /\ pending = {} /\ payload = NULL /\ reply = "none"

needTx == forceTx \/ flags.tx_mutations

Answer(r) == pc' = "done" /\ reply' = r

\* MUTANT of BeforeOperation: a nested parent does not count.
BeforeOperationChildrenOnly ==
  /\ pc = "before"
  /\ forceTx' = (flags.force_transactions /\ flags.top_level /\ \E q \in input : Len(q) = 1 /\ Kind(q) = "child")
  /\ pc' = "compile"
  /\ UNCHANGED <<request, db, pending, payload, reply, writes>>

\* The plugin looks at the fields of the operation, not into its fragments.
BeforeOperation ==
  /\ pc = "before"
  /\ forceTx' = (flags.force_transactions /\ flags.top_level /\ hasNested(input))
  /\ pc' = "compile"
  /\ UNCHANGED <<request, db, pending, payload, reply, writes>>

WrapCompile ==
  /\ pc = "compile"
  /\ IF TooDeep(input) \/ BothGiven(input) THEN Answer("errors") ELSE pc' = "execute" /\ UNCHANGED reply
  /\ UNCHANGED <<request, db, forceTx, pending, payload, writes>>

\* A statement may always fail: other constraints, a lock, the connection.
StatementFails ==
  /\ pc = "execute"
  /\ Answer("errors")
  /\ UNCHANGED <<request, db, forceTx, pending, payload, writes>>

\* The statement inserts rows and, when the main CTE is empty, still returns
\* no row: executeField reports "no row matched".
ExecuteInTx ==
  /\ pc = "execute" /\ needTx
  /\ ~NamedTwice(input) /\ Valid(NewRows(input, target, db), db)
  /\ pending' = NewRows(input, target, db)
  /\ IF Yields(input, target, db, << >>)
     THEN payload' = Payload(input, target, db) /\ pc' = "commit"
     ELSE pc' = "rollback" /\ UNCHANGED payload
  /\ UNCHANGED <<request, db, forceTx, reply, writes>>

ExecuteAutocommit ==
  /\ pc = "execute" /\ ~needTx
  /\ ~NamedTwice(input) /\ Valid(NewRows(input, target, db), db)
  /\ db' = db \cup NewRows(input, target, db)
  /\ IF Yields(input, target, db, << >>)
     THEN payload' = Payload(input, target, db) /\ Answer("ok")
     ELSE Answer("errors") /\ UNCHANGED payload
  /\ UNCHANGED <<request, forceTx, pending, writes>>

Commit ==
  /\ pc = "commit"
  /\ db' = db \cup pending /\ pending' = {}
  /\ Answer("ok")
  /\ UNCHANGED <<request, forceTx, payload, writes>>

\* The server rejects the commit (an answer lost on the way is RequestExecution's).
CommitFails ==
  /\ pc = "commit"
  /\ pending' = {}
  /\ Answer("errors")
  /\ UNCHANGED <<request, db, forceTx, payload, writes>>

Rollback ==
  /\ pc = "rollback"
  /\ pending' = {}
  /\ Answer("errors")
  /\ UNCHANGED <<request, db, forceTx, payload, writes>>

\* Other sessions, under the same constraints: a row the open transaction
\* refers to is locked.
OtherInserts ==
  /\ writes < MaxWrites /\ pc # "done"
  /\ \E row \in Others :
       /\ Find(db, row.table, row.id) = {} /\ Valid({row}, db)
       /\ db' = db \cup {row}
  /\ writes' = writes + 1
  /\ UNCHANGED <<request, pc, forceTx, pending, payload, reply>>

OtherDeletes ==
  /\ writes < MaxWrites /\ pc # "done"
  /\ \E row \in db :
       /\ \A other \in db \cup pending, k \in FKs :
            ~(k \in DOMAIN other.fk /\ Ref[k] = row.table /\ other.fk[k] = row.id)
       /\ db' = db \ {row}
  /\ writes' = writes + 1
  /\ UNCHANGED <<request, pc, forceTx, pending, payload, reply>>

Terminating == pc = "done" /\ UNCHANGED vars

Next ==
  \/ BeforeOperation \/ WrapCompile
  \/ StatementFails \/ ExecuteInTx \/ ExecuteAutocommit
  \/ Commit \/ CommitFails \/ Rollback
  \/ OtherInserts \/ OtherDeletes
  \/ Terminating

Spec == Init /\ [][Next]_vars
------------------------------------------------------------------------------
Created == {row \in db : row.id \in input}

\* A nested create that answers with an error leaves none of its rows, when
\* mutations run in transactions or the plugin saw the field and may force
\* one (BeforeOperation, runTx's deferred Rollback, "no row matched").
ErrorLeavesNothing ==
  reply = "errors" /\ (flags.tx_mutations \/ (flags.force_transactions /\ flags.top_level))
    => Created = {}

\* The row that stands for path p in the database holds in its foreign keys
\* what the input says of them.
Fulfilled(p) ==
  \E row \in Find(db, TableOf(target, p), p) :
    /\ Kind(p) = "child" => row.fk[Via(p)] = Parent(p)
    /\ \A q \in input : q # << >> /\ Parent(q) = p /\ Kind(q) # "child" =>
         row.fk[Via(q)] = (IF Kind(q) = "create" THEN q ELSE Last(q).to)
Asked == {p \in input : Kind(p) \in {"root", "create", "child"}}

\* The generator descends to every nested field of the input.
Reached(in) ==
  \A q \in in : \A i \in 1..Len(q) - 1 : q[i].kind = "child" => q[i + 1].kind = "plain"

\* A mutation that answers without errors created every row its input asked
\* for, each referring to the rows the input says, however parents, children
\* and lookups are nested and whatever other sessions do meanwhile; inputs
\* that nest below a child are left to NothingDropped.
OkInsertsInput == reply = "ok" /\ Reached(input) => \A p \in Asked : Fulfilled(p)

\* The foreign key of a child is its parent's alone.
Consistent(in) ==
  \A q \in in : \A i \in 1..Len(q) - 1 :
    q[i].kind = "child" /\ q[i + 1].kind # "child" => q[i + 1].fk # q[i].fk

\* The same for every input that does not contradict itself: "Nesting depth is
\* bounded", so what is within the bound should be created, and what is beyond
\* it refused.
NothingDropped == reply = "ok" /\ Consistent(input) => \A p \in Asked : Fulfilled(p)

\* The payload shows the children created by the same statement, which a scan of
\* their table cannot see, and no others; and the row connected to, unless its
\* table is read from the created children.
PayloadShowsRelations ==
  reply = "ok" =>
    /\ \A k \in DOMAIN payload.children :
         payload.children[k] = {p \in input : Len(p) = 1 /\ Kind(p) = "child" /\ Via(p) = k}
    /\ \A q \in input :
         /\ Len(q) = 1 /\ Kind(q) \in {"connect", "plain"}
         /\ \A p \in Children(input) : TableOf(target, p) # Ref[Via(q)]
         => payload.parents[Via(q)] = {Last(q).to}
=============================================================================
