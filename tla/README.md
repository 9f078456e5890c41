# Verification of pdbq

pdbq is a Go server that introspects a PostgreSQL database, generates a GraphQL
schema from its catalog, compiles every root field of an operation to one SQL
statement and executes it, with Relay pagination, row-level security, retries of
serialization failures, persisted queries, JWT verification against a rotating
key set, and a watch mode that follows schema changes.

This directory holds TLA+ models of its components, the TLC runs that check them
on small instances, and theorems about them that the TLA+ proof system checks
for every value of the constants. `PROJECT.json` lists the components, the runs,
the source lines each definition stands for, a mutation of the code that breaks
each property, the hazards and the findings.

Contents:

1. [The system](#the-system)
2. [Modules](#modules)
3. [Runs](#runs)
4. [Bounds](#bounds)
5. [Fairness](#fairness)
6. [Theorems](#theorems)
7. [Where code and documentation disagree](#where-code-and-documentation-disagree)
8. [What is not modelled](#what-is-not-modelled)
9. [Plan](#plan)

Paths below are relative to the repository; `exec.go` is
`internal/exec/exec.go`, and so on where the name is unique.

## The system

```
 HTTP client ──► server.go ──► apq.go (document?) ──► auth.go / jwks.go (identity?)
                    │  atomic pointers: executor, SDL
                    ▼
                 exec.go ──► plugin hooks ──► compile/* (one SQL statement a field)
                    │                              ▲ schema.Built
                    ▼                              │
               pgxpool connections           schema/builder.go ◄─ plugins ◄─ catalog
                    │                                                          ▲
                    ▼                                                          │
               PostgreSQL ──NOTIFY──► watch.go ──► introspect.go ──────────────┘
```

| Component | State it keeps | Operations | Talks to | What is hard | What makes it right |
|---|---|---|---|---|---|
| Executor (`exec.go`) | per request: position in the operation, attempt, errors, data; on the connection: transaction, role, claims | run an operation in autocommit or in one transaction, apply the identity, retry, answer | pool, compiler, request hooks, HTTP handler | requests interleave on reused connections; a commit's answer is lost; retry after failure; the context ends at any time | identity never leaks; a mutation is all or nothing and truthfully reported; connections come back clean |
| Connections and pagination (`keyset.go`, `rows.go`) | none on the server: the cursor is the state | plan a page, keyset predicate, scan, trim, pageInfo | PostgreSQL, the client that follows cursors | writes between pages, NULLs, reversed scans, off-by-ones spread over five places | a page is the right slice; a walk delivers each untouched row once |
| Filters and mutations (`filter.go`, `mutations.go`) | none | compile conditions and DML | PostgreSQL | three-valued logic, empty conditions | a bulk mutation touches what the same filter lists |
| Nested mutations plugin | specs of the last built schema | extend inputs, compile the chain of inserts, force a transaction | builder, compiler, executor | rows of one statement do not see each other; plugin state outlives a schema | all or nothing; every row of the input is inserted and linked |
| Persisted queries (`apq.go`) | map and FIFO list under a mutex, static documents | resolve, register, evict | HTTP handlers | eviction between registration and use; several registrations at once | a hash runs its own document; the store is bounded and consistent |
| Authentication (`auth.go`, `jwks.go`) | cached key set, its age, a mutex held during the fetch | verify a token, refresh, refetch early, resolve the role | JWKS endpoint | rotation during a fetch, failures, everyone waiting for one fetch | withdrawn keys expire, published keys are found |
| Watcher (`watch.go`, `facade.go`) | trigger and function in the database, LISTEN connection, last hash | install, listen, drain, poll, re-introspect, swap | PostgreSQL, introspection, server | DDL at any moment, several instances, failures half way | no change is lost; what is served converges; SDL never ahead |
| Introspection (`introspect.go`, `catalog.go`, `diff.go`) | none | read the catalog, hash, diff | PostgreSQL | several queries without a snapshot | see the watcher |
| Schema builder (`schema/`) | the builder under construction: objects, inputs, enums and what each field is bound to | generate tables, relations, queries, mutations and functions; print and validate the SDL | plugins, catalog | two things of one name, of which the first stays; names composed in a dozen places | both ends of every foreign key are offered; nothing refers to a type that is not there |
| Naming (`inflect/`, `smarttags/`, `smartcomments.go`, `simplenames.go`) | an index of the tags, the catalog last seen | answer a name for a kind of thing; rename, omit, derive logical keys from comments | registry, builder | the next plugin sees what the last one renamed; instances outlive a rebuild | a tag reaches every place its column is offered; a rebuild equals a restart |
| Plugin registry (`plugin.go`) | ordered list of the enabled plugins | run catalog, inflection and schema hooks | all plugins | what a hook removes, another may refer to; order and enabled plugins are configurable | whatever is enabled, nothing dangles |
| Operation limits (`exec.go` 336-471) | none | measure depth and cost | executor | products of page sizes | an over-limit operation never reaches the pool |
| Schema cache (`cache.go`, `diff.go`, `schema dump`, `schema check`) | a file | save, load, check, explain the drift | CLI, boot | a dump crashes or overtakes another while a boot reads | only a file written as a whole is loaded; drift is explained |
| HTTP server (`server.go`) | pointers to executor and SDL | decode, time out, compress, CORS, serve | everything above | timeout racing the handler | see the executor |
| Configuration, CLI | none that lives on | load, validate, commands | everything above | – | – |

## Modules

| Module | Models | Uses |
|---|---|---|
| `RequestExecution` | the executor, the pool and the database sessions | |
| `AtomicOutcome` | what the executor promises for a transactional mutation; abstract | refined by `RequestExecution` |
| `RequestExecution_proof` | theorems | `RequestExecution` |
| `Pagination` | one connection field: plan, predicate, scan, page | |
| `PageWalk` | a client that walks a connection while others write | `Pagination` |
| `PageWalk_proof` | theorems, of the predicate and of the walks | `PageWalk` |
| `PersistedQueries` | the APQ store and its protocol | |
| `PersistedQueries_proof` | theorems | `PersistedQueries` |
| `JwksCache` | the key cache, its mutex and a rotating endpoint | |
| `JwksCache_proof` | theorems | `JwksCache` |
| `SchemaWatch` | watcher, event trigger, boot and hot swap of several instances | |
| `NestedCreate` | one nested create: hook, generated statement, transaction, payload | |
| `NestedCreate_proof` | theorems | `NestedCreate` |
| `Filter` | filter inputs: the condition they compile to, in SQL's logic, and what they say | |
| `Mutations` | the generated mutations, single and bulk, against the constraints of the tables | `Filter` |
| `Mutations_proof` | theorems, of the filters and of the mutations | `Mutations` |
| `Limits` | depth and cost of an operation, and the fields, levels and values they bound | |
| `Admission` | a request from its credential and operation to a running transaction | `Limits` |
| `Admission_proof` | theorems | `Admission` |
| `SchemaNames` | names, tags and the inflection chain | |
| `SchemaBuild` | the builder: from a catalog to the objects, inputs and enums of a schema | `SchemaNames` |
| `SchemaHooks` | the catalog and schema hooks of the four built-in plugins, and the registry that runs them | `SchemaBuild` |
| `SchemaCache` | the cache file, the hash and the diff | |
| `SchemaLifecycle` | dumps, boot, rebuild and swap of one process and its plugin instances | `SchemaHooks`, `SchemaCache` |
| `Schema_proof` | theorems, of the life of a schema and of the watchers | `SchemaLifecycle`, `SchemaWatch` |
| `MC*` | constants of the runs | the module of the same name |

Definitions marked `MUTANT` or `Mutation` are deliberately wrong variants of the
definition that follows them. They are never part of a specification: each shows
that a property does break when the code is changed that way.

### RequestExecution

One action per step of `executeOperation`, `runTx`, `applyRLS` and `runFields`.
`pc[r]` is the place of the handler goroutine of request `r`: `received`
(operation accepted), `begin` (waiting for a connection to begin a transaction),
`set_role`, `set_claims`, `fields`, `committing`, `rollback`, `decide` (retry or
not), `autocommit` and `statement` (a field outside a transaction), `answered`,
`done`. A statement is one action for its success and one for each failure: not
sent, refused by the server, a serialization failure, a connection that dies with
the statement in flight. In the last case the server may still finish the work:
it becomes an element of `orphans` that `OrphanEnds` later applies or drops.

A root field is its position, and the effect of a mutation's field is that
position appended to `db[r]`; `pending[c]` holds the effects of the open
transaction of connection `c`. What a query reads is the value of `db` it saw,
taken from `snapshot[c]` under the snapshot isolation levels. Role and claims are
state of the connection (`sesRole`, `sesClaims`), reset by the end of a
transaction as `SET LOCAL` is. Claims are set in any order, as Go iterates over
a map. `Cancel` ends a context at any time, with the answer of
`http.TimeoutHandler` or a client that went away.

`AtomicOutcome` is the promise: one step per mutation, applied or dropped, never
confirmed unless applied, never reported failed when known to be applied. The
refinement maps the retry loop, the pool and every failure to that one step.

### Pagination, PageWalk

`Pagination` translates `orderTerms`, `reorderForDistinct`, `planPage`,
`anchorVals`, `keysetPredicate` and the assembly of the page in `rows.go` to
operators over tables. The SQL is modelled by what PostgreSQL computes: sorting
with NULL above every value, a predicate that selects a row only when TRUE,
`row_number()` before OFFSET, DISTINCT ON keeping the first row of a group. The
predicate is translated from the text the code generates and the order from
what ORDER BY means, so that the two are independent and can disagree. What a
statement returns is a `Listing`: the sequence that has exactly the given rows and
stands in the given order.

`PageWalk` adds the client and other sessions. Between two pages rows are
inserted, deleted and updated, the cursor's own row included. `delivered` is
everything the walk got; `settled` the rows nobody wrote. It is a history that
the guard of no action of the code reads.

### PersistedQueries

`Put` and `Get` are the two methods of `pqStore`, each atomic under its mutex;
the handler between them is not. A client sends a hash, the hash with a
document, or something outside the protocol. A document and its hash are model
values with `DocOf` relating them: SHA-256 is taken as injective on the documents
that occur.

### JwksCache

`key` holds the mutex while it fetches, so one action takes it, `Serve` is the
moment the endpoint answers and `Fetched` or `FetchFails` the moment the handler
has the result; `Rotate` can fall anywhere between. Time is a `Tick`; `age`,
`fetchAge` and `since` count ticks up to the bound `Old`.

### SchemaWatch

A catalog is the pair of versions that the first and the last of
`introspect.Introspect`'s queries read, so a mixture of two versions is a pair with
different components. `Migrate`, a DDL command, notifies whoever listens on the channel
that `pdbq_watch_notify()` currently names, once the trigger exists. Each instance is
one goroutine: boot (`LoadCatalog`, `Serve`), `installTrigger` in its two statements,
`listen` with its drain, `poll`, `reintrospect`, and `OnChange` with the two stores of
`Swap`. `missed` is a history: a DDL command or a failure the watcher was in no position
to notice. `NothingLost` and `Converges` speak of instances that missed nothing. What is
missed is DDL between the introspection at boot and LISTEN, and a rebuild or
introspection that fails: the old schema stays until the next change, and no property
says otherwise.

### NestedCreate

An input is the set of the paths to its nested objects, so that a plain set
operation answers what the recursive generator answers: `Chain`, `Lookups` and
`Children` are the paths `insertChain`, `resolveParent` and `insertChildren`
reach, and what they do not reach stays visible as a difference. A row's id is
the path it was created for. The chain of CTEs is one action, `ExecuteInTx` or
`ExecuteAutocommit`, as it is one statement: it reads one state of the database
(`db`), its inserts take effect together, and constraints are checked at its
end. `BeforeOperation` decides on the transaction from the operation, before the
generator runs; `flags.top_level` says whether the hook can see the field. Other
sessions insert and delete the rows the input connects to between any two steps.

### Filter, Mutations

A filter object is the set of its entries, and `EntryCond` is the value of the
SQL that `filterCond`, `relationExists` and `refOps` generate for an entry on a
row: "true", "false" or "null". `HasCond` is the code's empty string, which drops
null operands, empty objects and empty lists before they reach SQL. `Says` reads
the same object in two-valued logic with nothing dropped. `FilterSelects`
compares the two where they should agree: for filters that lose no alternative
and no negation (`Complete`), and, when the database holds NULLs, that negate
nothing (`Positive`); outside of that they differ, as the last section but one
says, and no property covers it.

A mutation is one statement, hence one action: what the statement does to the
rows, then the constraints, all or nothing. Inputs and patches are functions
from the columns they set, so that a column left out and an explicit null
differ. A create input need not set a foreign key column, even one that is NOT NULL,
since `nested-mutations` lets a nested field stand for it
(`nestedmutations.go:97-104`, `135-142`). PostgreSQL looks at NOT NULL before it looks
for a conflict, so an upsert of such an input fails although the row is there: that is
the case `Lacks` of `UpsertIsUpdateOrCreate`. `Outcome` is what the field answers: an
error of the compiler, an error of the server, no row, or the number of rows.

The bulk properties compare a statement with the single ones it stands for, run in
turn (`DeleteEach`, `UpdateEach`). They are not the same for a table that refers to
itself: PostgreSQL checks a foreign key when the statement ends, so a post can be
created with the one it replies to, or deleted with its replies, in one statement and
not row by row. `CreateManyIsCreates` and `AllOrNothing` allow just that difference.

### Limits, Admission

A selection set is a sequence of items, each a field or a fragment, with what its
directives skip and what it selects; a field has a class (what it yields) instead
of a name. `Cost` and `Depth` translate the traversal of `measureSel`, `Values`
and `Compiled` the page sizes of `planPage` and the recursion of `rowJSON` and
`compositeJSON`, which measure nothing: the properties compare the two sides.
`Stated` is the condition under which they agree, and says which pages are
charged for fewer rows than they return. The code takes an array to have ten
elements and limits none: `ArrayLen` is how long arrays are, and `Excess` by how
much the values of an operation may exceed the cost on that account, `Tens` of
elements for each level of arrays within arrays, 1 when they have at most ten.

`Admission` is one request: `Authenticate` with `resolve` and `roleAllowed`,
`checkLimits`, `needTx`, and the transaction that takes the role on or the pool. The
initial states are every RLS configuration `Validate` accepts with every credential,
and every operation with one identity. `txAsked` stands for the other reasons for a
transaction: `tx_per_request`, `tx_mutations` and a plugin's `ForceTx`.

### SchemaNames, SchemaBuild, SchemaHooks

`SchemaNames` has one operator for each inflector: `Name` is the default one,
`SmartInflect` and `SimpleInflect` those of the two naming plugins, `Inflect` the
chain the registry makes of them. A name is the sequence of its words, so that two
names are equal when the code's are, and how they are spelled is left out; what an
inflector shortens or renames is words dropped or replaced. A comment is the record
of the tags `smarttags.Parse` finds in it. `IndexTags` is the index that
smart-comments makes of a catalog: a lookup without a schema, as some of the
builder's are, finds what any schema says.

`SchemaBuild` translates `schema.New` and `Build`. A builder is a record of objects,
inputs and enums, each a function from names to fields; a field carries its type,
its arguments and what the compiler will find bound to it (table, column, foreign
key). `AddType` and `AddSurface` (the two passes of `addTables`), `AddRelations`, `AddQueries`, `AddMutations` and
`AddFunction` are folds over the catalog in its order, since the first of two
things of one name stays. `Valid` is what gqlparser demands of the printed schema
and a later hook can break: every type that is referred to is there and of the
right sort, and none is empty.

`SchemaHooks` has the hooks in the order of their priorities: smart-comments edits
the catalog (keys from tags) and, after the others, the builder (omissions,
renamed orders); simple-names remembers the catalog; advanced-filters adds
relations and computed columns to filters; nested-mutations adds inputs and the
specs by which it recognises them. What the instances know outlives a build: the
catalog hooks write `plugins` in `SchemaLifecycle`, which every later hook and every
name is computed from, and the schema hooks only read it. The specs are a variable of
their own, `specs`, which no hook reads (`WrapCompile` does); `Remember` adds those of
a build to them, as `addSpec` does one at a time within the one step the hook is here.

### SchemaCache, SchemaLifecycle

The file is a sequence of `Blocks` blocks. `Save` truncates it (`DumpCreate`) and
writes one after the other (`DumpWrite`); a dump can crash between any two, and
another can write the same file at its own position, since `os.Create` excludes
nobody. A boot reads block by block (`Open`, `Read`) and verifies what it got
(`Load`): only blocks of one content decode, and only this version's format is
accepted. `Hash`, `Diff` and `Check` are translated for the catalogs of
`SchemaBuild`.

`SchemaLifecycle` has one process, `config.mode` saying whether it boots from the
file (`"cache"`) and whether it watches (`"watch"`). `BuildSchema` is one action for
each hook, since a request may run on the old executor between any two of them
while they change the plugins; `Build` validates and swaps or, when that fails,
leaves what is in service. `flight` is the executor a request took. `wrote` and
`report` are histories that no guard of the code's steps depends on: the contents
written from the first block to the last, and the last `schema check` with what it
compared. Which plugins are disabled, their options, the catalog at first and the
DDL that follows come from the initial states (`Starts`, `Edits`).

## Runs

| Run | Expectation | Question and answer |
|---|---|---|
| `execution_rls` | holds | Two mutations with different identities on two connections under RLS, one retry: the pool is clean, mutations are atomic, nothing becomes durable late, and the whole refines `AtomicOutcome`. |
| `execution_mixed` | holds | A mutation outside any transaction beside a query with claims on one connection, repeatable read: statements run under exactly their identity, effects are a prefix of the fields, delivered results are durable, the query reads one state, and both are answered. |
| `paging` | holds | Every request of a grid equals the reference page on every table of three rows, and walks in both directions are exact under concurrent writes and end. |
| `paging_keyless` | violated | A walk over a table without a primary key skips rows although nobody writes. |
| `persisted` | holds | Two clients and a store of two under every combination of options: the store is bounded and agrees with itself, a hash runs its own document, strict mode runs only the file's, and a client gets its answer. |
| `jwks_rotation` | holds | Two handlers, two keys, rotation and failure at any time: the exact bounds after which a withdrawn key is refused and a published one accepted. |
| `watch_ddl` | holds | Two instances, two DDL commands, one failure of any kind: nothing lost, SDL never ahead, convergence. |
| `nested` | holds | Every nested create of up to three nodes under every transaction setting, with other sessions writing: an error leaves nothing, an answer without errors inserted and linked all of the input, the payload shows the new children. |
| `nested_dropped` | violated | A nested field below a child is accepted and not executed. |
| `mutations` | holds | Every generated mutation on every database three tables can reach: a filter selects the rows it describes, two creates in one statement are two creates, an upsert is an update or a create, a bulk update or delete is the single one on each listed row, all or nothing. |
| `admission` | holds | Every configuration with every credential, and every class of field at the boundaries of its arguments: statements run under an authorised role, in a transaction or on the pool; the limits charge what runs, bound the values of the response, and settle the compiler's depth before the first statement. |
| `lifecycle` | holds | Twenty-two catalogs under six plugin configurations, from boot through a DDL command, the rebuild by the same instances and the swap beside a running request; and two dumps that crash and overtake each other in the file a boot reads. A boot goes on only with a whole file, drift is explained, nothing dangles while hooks run, a swapped schema is the one a restart builds, nested fields in service are recognised, tags reach every place, and every foreign key has both its fields. |

## Bounds

* Executor: two requests of one or two fields, one or two connections, one
  retry. Two requests are the smallest number with interference through a
  reused connection, two fields the smallest with a partial mutation, one retry
  the smallest with an attempt after a failed one. `execution_mixed` has more
  requests than connections. `TxRetries` is the code's own bound on attempts.
* Paging: three row slots (four for the keyless walk), two values and NULL, page
  sizes one and two, `MaxWrites` = 2 writes in a walk. With page size one a walk
  over three rows has a page before, at and after each write; two writes can
  delete the cursor's row and insert it again, or move one row across the cursor
  and another back. Ties, NULLs at both ends and composite keys all occur.
* Persisted queries: a store of two entries for three registrable documents, so
  that registrations evict each other, and a fourth document in the file.
* Keys: `TTL` = 2, `Minute` = 1 and `FetchMax` = 1 ticks, `Old` = 4 the first
  value larger than every sum the properties compare with.
* Watch: `MaxMigrations` = 2 and `MaxFaults` = 1. One DDL command can fall before and a
  second between any two steps of a watcher; a failure can be a refused
  statement, a failed rebuild, a lost connection or a crash with restart. `PoolSize` = 2,
  one for the listener and one to introspect with. With a
  single connection `Converges` fails, as the last section but one says.
* Nested creates: two tables with three foreign keys, one of them
  self-referencing, one NOT NULL, one nullable beside it; inputs of up to three
  objects (`MaxNodes`) and three levels (`MaxLen`), the smallest with a created
  parent beside a missing connect, two children, a parent's parent, and a field
  below a child; `MaxDepth` = 3, so that the longest chain exceeds it;
  `MaxWrites` = 2, so that a row can appear or vanish at any step.
* Mutations: users with a primary key, a unique nullable column and a column
  with a default, posts with a nullable foreign key to them and one to the post they reply to (a
  seed has a post that replies to itself), notes with a NOT NULL foreign key that their
  inputs leave out; two key values, so that every key can collide, and NULL beside
  values in every other column. The filters nest each combinator over each kind of
  condition once; the inputs leave out, set and null each column. A bulk create has two
  rows, the smallest number whose columns can differ.
* Admission: three roles, one of them malformed; page arguments absent, negative,
  zero, within and beyond `MaxPageSize` = 3; connections in connections, lists in
  lists, chains of lists on both sides of `MaxDepth` = 4; `MaxCost` = 12, so that
  operations of two levels are admitted and refused. `ArrayLen` = 25 is beyond the ten
  elements the code assumes for an array, so that `Tens` is three and rounded. `txAsked`
  is either, for every configuration and credential. A request ends, so deadlock is not
  checked.
* Lifecycle: each catalog isolates one way in which tags, keys, views and
  functions can meet, with two or three tables, two being the fewest with a
  relation and two keys between them the fewest whose names can collide. The
  configurations disable each plugin or pair that another relies on, and set each
  option that changes what is generated. `MaxDDL` = 1 leads between any two of four
  states of one database (tags added, a key added, a catalog whose build fails, and
  back), so that what a rebuild leaves behind is seen. `Blocks` = 2 is the smallest
  file that can be torn, two dumpers the smallest number that can overtake each
  other, and the file may be there already in `Format` - 1. Dumps are checked with
  one catalog that DDL turns into others; the catalogs of `schema check` differ in
  one aspect each, and in the order of overloads. A process may be left with
  nothing to do, so deadlock is not checked.

## Fairness

* Executor: every statement is eventually answered by the server (weak fairness
  of the handler's steps); `pgxpool` serves waiters first come first served, so
  a waiter is not passed over for ever (strong fairness of taking a connection);
  giving up the wait is fair only once the context is done, as the code selects
  on it. Cancellation, failures and lost connections are never forced.
* Paging: a client that was told there is more asks for it. Writes are not fair.
* Persisted queries: handlers finish, and a client that is told
  `PersistedQueryNotFound` sends the document, as the protocol says.
* Keys: `sync.Mutex` does not starve a waiter (strong fairness of entering
  `key`); the HTTP client's timeout ends every fetch (weak fairness). Time,
  rotation and failures are never forced.
* Watch: the goroutine keeps running, statements end and the ticker ticks (weak
  fairness of its steps and of boot). DDL and failures are never forced.

## Theorems

All are proved for any number of requests, connections, clients, keys or rows.
The assumptions are the named `ASSUME`s of each module, which TLC evaluates in
every run: sentinels are distinct from the values they stand beside, functions
have their types, bounds are natural numbers, timing constants leave room
(`Old` exceeds what is compared).

* `RequestExecution_proof`
  * `TypeCorrect`: `TypeOK`, which no run repeats, strengthened by `Holding`: a request holds a
    connection exactly at the labels where the code has one checked out. Without
    it the actions on the session of `held[r]` could be applied to `NoConn`.
  * `IdentityNeverLeaks` (`StatementIdentity`) and `PoolStaysClean`
    (`PoolClean`), from `IdentityInv` = `TypeInv` ∧ `Exclusive` ∧ `IdleFresh` ∧
    `Identities`. `StatementIdentity` alone is not inductive: it says nothing of
    the connection between `BEGIN` and the last `set_config`. `Identities` does:
    at `set_role` the session is fresh, at `set_claims` the role is set and
    exactly the claims not in `claimsLeft` are, and from `fields` on both are
    complete. `IdleFresh` provides the fresh session at `BEGIN`, `Exclusive` that
    no other request changes it meanwhile.
  * `MutationsAreAtomic` (`TransactionAtomic`), `EffectsAreInOrder`
    (`EffectsInOrderOnce`), `RepliesAreTruthful` (`ReplyTruthful`),
    `NothingBecomesDurableLate` (`NoLateEffects`) and `OneSnapshot`
    (`SingleSnapshot`, for the isolation levels above read committed), all from
    `DurabilityInv` = `IdentityInv` ∧ `Sound(r)` ∧ `SnapshotSound(r)` for each `r`.
    The properties speak of the database and the answer; while a transaction is
    open the truth is in three other places, which `Sound` ties together: what the
    held connection has pending is exactly the fields before `field`; nothing is
    durable before the outcome is decided; and what a connection that died may
    still apply is all of the transaction, or the one field in doubt in
    autocommit, and is the reason of a reported error. `ErrorStops` carries the
    rest: a mutation stops at its first error, so a decided request without errors
    ran all its fields. Each action is treated twice: what it does to its own
    request (`OwnSound`, `OwnSnapshot`, `OrphanSound`), and that it leaves what
    another request's invariant reads alone (`OthersUntouched`), which is where
    `Exclusive` is needed again.
  * `RefinesAtomicOutcome` (`ImplementsAtomicOutcome`): every step of a mutation
    with a transaction is a step of `AtomicOutcome` for that request or a stutter,
    with `outcome` read off the database and `orphans`, and steps of all other
    requests are stutters. `DurabilityInv'` supplies what `AtomicOutcome` demands of
    the state after the step. A mutation without root fields, which cannot be told
    committed from undone, is not mapped (`TxMutationsOnly`).
* `Schema_proof`, of `SchemaWatch`: `WatchTypeCorrect` (`TypeOK`), `SdlFollowsExecutor`
  (`SdlNeverAhead`) and `NoChangeIsLost` (`NothingLost`), for any instances, privileges,
  DDL and failures. `StagesInOrder` orders the pipeline: database, catalog read,
  executor, SDL, each no newer than the one before; the SDL follows from it.
  `NothingLost` is about the moments a watcher waits; between them the invariant
  has to say where a change is known that is not served yet: `BootFresh` (what boot
  read is current, or the change was before LISTEN and `missed` says so),
  `ListenFresh` (it is in the queue, or the introspection that will see it has not
  begun), `PollFresh` (the hash describes what is served). The hypothesis
  `SharedChannel` is that of one deployment: all instances use one
  `watch.channel`. There is one trigger function in the database and `installTrigger`
  replaces it, so an instance with another channel redirects everyone's
  notifications, and the property is false without it.
* `PageWalk_proof`
  * `KeysetIsOrder`: for every table, list of terms and pair of rows, the
    predicate holds exactly when the ORDER BY, restricted to its terms, puts the
    row beyond the cursor's. NULLs, direction and flip are cases of a single column;
    the theorem lifts them to the lexicographic order. It needs a cursor row that is
    still there or terms that read only the key (`Located`): a deleted row has no
    sort value, and the predicate then compares with NULL.
  * `KeysetIsTotalOrder`: when the terms distinguish rows, as the appended
    primary key makes them (`KeyDistinguishes`), `after` and `before` select exactly
    what follows or precedes the cursor's row in the scan.
  * `PagesAreSlices` (`PageIsSlice`), for every definition, table and request of
    clients. ORDER BY is a linear order on the rows (`BelowOrder`, `PrecedesTotal`:
    two rows are compared at the first term in which they differ), a linear order of
    a finite set has exactly one listing (`ListingLists`, `ListedOnce`), so a sequence
    that is in order is the sorted one (`InOrderIsSorted`), the scan for
    `last` is the forward scan reversed (`ReversedSorted`), and the rows a cursor
    selects are a window of the sorted ones (`ScannedIsWindow`). `PageIs` computes
    what `rows.go` makes of the rows fetched (the extra row, the cut, the turning
    round, both flags), `PageIsWindow` sets it against the window, and
    `PagesAreReference` against the reference page.
  * `WalksAreTyped` and `WalksAreExact` (`WalkExact`), for any number of pages and
    writes between them. `WalkExact` looks at the end of a walk; on the way, what is
    delivered has to be known against the cursor. `KeyWalk`: the settled rows
    delivered stand in order and are exactly those the walk has reached, and the
    cursor names a row the order can place. `PlaceWalk`, for the walks of DISTINCT ON
    that count positions: what is delivered are the rows before the cursor's position.
    A page keeps them since it is a slice (`AskKeepsKeyWalk`, `AskKeepsPlaceWalk`); a
    write keeps `KeyWalk` since it changes no order between rows nobody touched
    (`PrecedesKept`, `WriteKeeps`). The theorem leaves out the plain walks of a table
    without a primary key, which are not exact (`paging_keyless`), and `WalkExact`
    itself those whose cursor's row is written while its order is not the key's.
  * Used of the constants: the key columns are a subset of the columns and tell rows
    apart (`DefsAssumption`), slots are finitely many (`SlotsAssumption`), orderings
    name columns and requests have their types (`OrdersAssumption`,
    `RequestsAssumption`).
* `PersistedQueries_proof`: `StoreBounded` (`TypeOK`), `StoreAgrees`
  (`StoreConsistent`), `HashNamesDocument` (`RunsWhatItNames`), `AllowlistHolds`
  (`StrictAllowlist`). The inductive
  invariant is `StoreInv` = `TypeOK` ∧ `Listed` ∧ `Once` ∧ `NotStatic` ∧
  `HoldsNamed`, with `MissNamed` for the client. `PutStore`, the eviction, is
  the lemma that carries it. The allowlist follows from `NothingRegistered`: without
  `server.apq` the store stays empty, so what is not static is not found.
* `JwksCache_proof`: `TypeCorrect` (`TypeOK`), `WithdrawnKeysExpire`
  (`WithdrawnKeyExpires`), `PublishedKeysFound` (`PublishedKeyFound`). The
  invariants `CacheBehind` and `DocBehind` bound by its age how far the cached set,
  or the document in flight, can be behind the endpoint; the two action
  properties follow at the step that decides.
* `NestedCreate_proof`: `ErrorsLeaveNothing` (`ErrorLeavesNothing`), for every
  schema, input, depth limit and interleaving. The invariant ties `forceTx` to
  the flags and the input once `BeforeOperation` has run. The step that matters
  is autocommit: it may run only an input without nested fields, such an input
  looks nothing up (`PlainLooksNothingUp`), so its row is always returned and
  the answer is not an error.
  `OkMeansAllOfIt` (`OkInsertsInput`) and `PayloadIsRight` (`PayloadShowsRelations`)
  follow from `CreateInv`: until the statement runs the database knows nothing of
  the input; after it the transaction, and after COMMIT the database, holds all of
  its rows, and the payload shows them. `StatementIsRight` is the step that makes
  this true. Its lemmas go along the paths of an input: if the statement
  yields a row for the root, every lookup and every parent it depends on has a row
  (`AllFulfilled`), so every row is inserted (`AllRows`) and has the columns asked
  for (`NewRowHolds`); `ChildrenShown` and `ParentShown` read the payload off the
  snapshot and the rows of the statement. `InputsAssumption` says what the generated
  input types and PostgreSQL guarantee: `WellFormed` (an input contains the way to
  each of its paths, edges use foreign keys of their table, an object has a field
  once, an explicit null is no edge), and `Foreign` (rows that are there before the
  statement have ids of their own and refer to none of its rows).
* `Admission_proof`: `StatementsRunAuthorised` (`NeverPrivileged`) and
  `TypeCorrect`, for any roles, lists and operations. The invariant carries the
  role from `Authenticate` (`RoleKnown`) to the session (`SessionRole`);
  `IdentityAuthorised` is the case analysis over the modes and the settings that
  may be empty, and is where the anonymous role that `Validate` demands is needed:
  the role is never empty with RLS, so `needTx` holds and nothing runs on the pool.
  `LimitsAreOfWhatRuns` (`LimitsCoverWhatRuns`), `ResponseWithinCost`
  (`CostBoundsResponse`) and `DepthNeverExceeded` (`DepthSettledUpFront`): for every
  selection set, every argument of a page and every setting of the limits.
  * The state only adds `Checked`: what is admitted has passed `checkLimits`. The
    rest is about the operators of `Limits`, recursive functions over selection sets.
    `Recursion` shows that a body which looks only at selection sets of smaller
    `Nesting` has a function of its own, so that each operator satisfies its equation
    (`CostEquation`, `ValuesEquation`, `CompiledEquation`, ...), and `ByRank` is the
    induction on `Nesting`, over a set instead of a predicate.
  * Depth: `CompiledWithinDepth`, a call below a row of depth d is at most
    d + 1 + `Depth`. A connection and its `nodes` are two levels for `measureSel` and
    one for the compiler, a field with everything below it skipped none for the first;
    the one that `checkLimits` starts from makes up for it.
  * Cost: `ValuesWithinCost`, the values below a selection set are at most as many as
    the rows paid for times its cost, times its `Excess`. `Paid` is what the induction
    carries down: a page has at most the rows its multiplier stands for, an array at
    most `Tens` times the ten it is charged for, and below a page, where a list is not
    multiplied again, there is no array that is not the page's own. The operation may
    have arrays of any length: the bound is `max_cost` itself where they have at most
    ten elements or there are none.
  * What runs: `Bill` is what a sequence of root fields is charged. It is additive over
    concatenation (`BillJoined`), as `collectRootFields` concatenates what it finds in
    fragments, and `CostIsBill` shows that `measureSel` adds up the same.
  * Used of the constants: `LimitsAssumption` (fields have the arguments their class
    has, limits and lengths are natural numbers),
    `NestingAssumption` (documents are finite and no fragment contains itself, which
    validation guarantees) and that an operation without its introspection fields is a
    selection set too (`AdmissionAssumption`).
* `Mutations_proof`, for any tables, keys, foreign keys, inputs and filters.
  * `DatabaseKept`: every reachable database is `Database`, a finite set of rows of
    the tables' columns that respects the constraints (`Allowed`). The other theorems
    speak of one statement on such a database, and need it for the same two facts:
    a row is determined by its columns (`SameRow`), and two rows that agree on a
    unique key without NULLs are one.
  * `UpsertUpdatesOrCreates` (`UpsertIsUpdateOrCreate`): the conflicting row of the
    insert is the row the key arguments name, at most one, and the SET list is the
    patch of the update, or assigns the row its own key. An input that is not enough for
    a new row (`Lacks`) fails on either side.
  * `ManyAreCreated` (`CreateManyIsCreates`): the columns another row sets change
    nothing (`ManyRow` is `NewRow`), so both sides insert the same two rows, and
    what is left is when the constraints hold half way. Without a reference of the
    first row to the second, a violation of the first insert alone is one of both.
  * `BulkGoesOneByOne` (`BulkIsEach`): `DeleteEach` and `UpdateEach` are folds in an
    order that `FoldSet` chooses. They are unfolded as functions over the subsets of
    what is listed, and the induction says of each subset that, as long as nothing
    failed, the database is the one in which exactly those rows are gone, or patched,
    and otherwise that doing all of them at once fails too: what a row breaks alone,
    it breaks together with the others, unless the table refers to itself. A key
    among the NOT NULL columns that the patch does not touch names the same row
    throughout.
  * `FiltersSelect` (`FilterSelects`): by induction on `Nesting`, the SQL value of an
    entry is true exactly where what it says is true, and false exactly where it is
    false if the rows hold no NULL; only the first half survives NULLs, and only
    under entries that negate nothing. Entries without a condition say nothing:
    `Complete` is what makes dropping them harmless. As in `Admission_proof`,
    `Recursion` gives each recursive function its equation and `ByRank` is the
    induction.
  * Used of the constants: `TableAssumption` (keys and foreign keys name columns of
    their tables, filters and inputs those of the table they are about; which columns an
    input sets is not assumed), `FilterAssumption` (the shapes the generated filter
    types admit), `NestingAssumption` (a filter object is finite), and `SeedAssumption`
    (a database to start with is a finite one that respects its constraints).
* `Schema_proof`, of `SchemaLifecycle`: `LoadedAsWritten` (`LoadIsWhole`), for any catalogs, any
  number of blocks and any number of dumps that crash and overtake each other. The
  invariant is `LastBlockSeals`: what stands in the last block of the file, or was read
  there, is a hole or the content of a dump that wrote from the first block to the
  last, since it is that dump's last write. A file that decodes has that content in
  every block, although two dumps may have written it together.

  `DriftIsTold` (`CheckTellsDrift`), for any two catalogs that introspection can
  return. `ReportOK` says that a report is what `Check` said of two such catalogs, which
  rests on the invariant above: what a file that loads holds was once introspected.
  That each part of `Diff` is empty when what it compares agrees, and has a line when it
  does not, is stated once (`Lines`) and proved for the set comparison (`DomainLines`),
  for maps by name (`NamedLines`), for a table and for all (`TableLines`,
  `TablesLines`). The maps lose nothing because a key names one object (`KeyedApart`,
  from `CatalogAssumption`: in `pg_class` and `pg_type` a name stands once in its
  schema); for functions this is `SignaturesDiffer`, a hypothesis of the property.
  `HashTells` is the other half: catalogs with equal hashes differ in nothing that
  `Diff` compares.

  `SwapsAreRestarts` (`SwapIsRestart`), for any catalogs and configurations and any
  number of builds. The invariant `SwapInv` says what is left of the past, and what of
  a build is still to come: `plugins` differs from new ones only in what an enabled
  plugin overwrites (`PluginsOK`); once the catalog hooks have run it is what they
  would have made of new plugins (`AsRestarted`); and the hooks still to run turn the
  builder at hand into the one that all of them would make of a new builder
  (`HooksToRun`). The induction over the registry's two folds is done once for each:
  `CatalogSteps` and `HookSteps` unfold them into their steps, `FirstHook` takes the
  first of them off, and `HooksAgree` follows two sets of plugin instances through the
  catalog hooks. It rests on `HookWrites`: what such a hook writes depends on the
  catalog alone, and what it does not write it leaves. Of the
  order of the hooks only that it is a list is used (`OrderIsList`).

Only model-checked:

* every liveness property (`WalkEnds` among them), which is out of the prover's reach;
* `NothingDangles`, `NestedSpecsCoverSchemas`, `TagsReachEverySurface` and
  `RelationsBothWays` of `SchemaLifecycle`. They say what some forty folds over a
  catalog make of it, over lists cut down by `SelectSeq` into maps put together by
  `@@`. Each fold would need its own induction over data, and of `SelectSeq` and `@@`
  the prover knows nothing, neither a definition nor a fact. `SwapsAreRestarts` gets
  by without: it compares two builds of one catalog and never looks into either.

## Where code and documentation disagree

* `paging_keyless`: `__rn` already counts the rows OFFSET skipped, and the offset
  cursor adds the offset again (`rows.go:498`).
* `nested_dropped`: the nested fields of a child row are offered by the schema and
  within `max_depth` (`docs/plugins.md:135-136`), and `insertChildren` ignores
  them without an error (`nestedmutations.go:443-451`): the rows are missing from
  a mutation reported as successful.

Seen while reading, and not the subject of a run: `watch.go:29` says `Run` blocks until
its context is cancelled, but a lost connection ends it (`watch.go:80`), and nothing
starts it again; with `database.max_conns: 1`, which the configuration accepts, the
listener keeps the only connection and re-introspection waits for one forever
(`watch.go:66`; `Converges` fails in `SchemaWatch` when `PoolSize` is 1), and so does
every request; `exec.go:66-67` says every root field of a per-request transaction reads
a single snapshot, which read committed, the default, does not give (`SingleSnapshot`
fails in `RequestExecution` when `Isolation` is `"read_committed"`); instances with
different `watch.channel` share one `pdbq_watch_notify()`, and the last to start decides
whose channel is notified (`watch.go:44-48`); a nested create inside a fragment forces
no transaction (`nestedmutations.go:486-490`), although `docs/plugins.md:131-134` calls
nested mutations atomic whatever the setting; the payload of a nested create shows null
for a parent created with it, although `docs/features.md:93` includes relations
(`nestedmutations.go:253-265`); `keyset.go:130-131` and `docs/filtering.md:76-79` say
the page after a deleted cursor row is empty, which holds only under an ordering by NOT
NULL columns, since a NULL sort value of the cursor's row compares as one that is
missing; the quantifier `every` also selects a row when the condition of a related row
is NULL, while the schema says "Every related row matches." (`filter.go:171`,
`advancedfilters.go:240`); `not: {}`, `or: [{}]` and `{column: {equalTo: null}}` compile
to no condition and `or: [{}, x]` to `x`, while `filter.go:172` takes an empty filter to
match everything, and a bulk mutation given one of them touches every row, as its
comment says of the empty object only (`mutations.go:274-276`); with only target columns
an upsert is said to return the existing row (`mutations.go:357-359`), but it fails when
the table has a NOT NULL foreign key column, which the input type lets a client leave
out (`nestedmutations.go:97-104`; the case `Lacks` of `UpsertIsUpdateOrCreate`);
`createMany` and `upsert` take the same input type as `create` and ignore its nested
fields (`mutations.go:197-200`, `342-345`); `jwks.go:67-68` limits early refetches to
one a minute, but the limit is the age of the last successful fetch, so a failing
endpoint is asked for every unknown key id (`jwks.go:99`, `153`); a page without `first`
or `last` is charged for ten rows and returns up to `max_page_size` (`exec.go:395`), and
an array directly below a paginated list is charged once, as the flag meant for `nodes`
and `edges` reaches it (`exec.go:372-375`), hence `Stated` in `CostBoundsResponse`;
`docs/features.md:149` exempts introspection from the limits, which holds for fields of
the operation itself and not for those reached through a fragment (`exec.go:351-355`);
DDL between the introspection at boot and LISTEN (or the first poll) is not picked up
until the next change (`facade.go:96`, `117`), which `docs/quickstart.md:48-50` calls
automatic; two root fields with one response key are both executed, and for a mutation
both take effect, where GraphQL merges them (`exec.go:474`).

Of the schema:

* `docs/smart-comments.md` says `@name` composes with `simple-names`, but the
  latter counts the foreign keys of the table by the name smart-comments has already
  put in its place, finds none and shortens: a renamed table with two keys to one
  parent gets two fields of one name there, and the second is dropped
  (`simplenames.go:42-67`, `builder.go:322`). `RelationsBothWays` leaves such tables
  out.
* Tags of constraints are indexed by schema and name, and names of foreign keys are
  unique only within a table: tags and omissions reach a key of the same name on
  another table (`smartcomments.go:148-157`). Tags of functions are indexed without
  argument types: `@omit` on one overload hides all.
* `nested-mutations` names the connect input after the parent alone: a second key
  that refers to other columns of the parent gets the columns of the first
  (`nestedmutations.go:181-184`). `@omit read` on a referenced column makes its
  connect field `String!` (`nestedmutations.go:214-222`).
* A request that started before a swap keeps its executor (`facade.go:116`), but the
  specs of `nested-mutations` are shared with the rebuild, without a mutex, and are
  overwritten even by a build that fails; specs of a dropped key stay until the
  process ends. `NestedSpecsCoverSchemas` shows that none goes missing.
* `@omit filter` leaves `updateMany` and `deleteMany` without their filter argument,
  and every call of them fails in the compiler, although `builder.go:777-778` says
  the argument keeps them from touching every row. `@omit order` on every orderable
  column leaves an empty enum, and the build fails.
* The type of `distinctOn` is not among those that `@name` renames, and its values are
  neither renamed nor omitted (`smartcomments.go:328-336`, `615-640`).
* Type names are made unique among objects, enums and inputs but not scalars: a table
  `dates` or `cursors` fails the boot (`builder.go:311-317`); inputs, enums and payloads are
  not made unique, and a table `user_connections` takes the place of the connection
  of `users` (`builder.go:540`).
* `Catalog.Hash` sorts by schema and name: overloads of a function can come in another
  order, and drift is reported that `Diff` has no line for (`catalog.go:200-239`);
  `CheckTellsDrift` says so.
* `Diff` names a function by its argument types without their schemas
  (`diff.go:179-189`): of two overloads that differ only there one takes the other's
  place in the map, and drift in it has no line (`SignaturesDiffer` leaves them out).
  `Diff` also joins schema and name with a dot, which the model does not: names that
  contain dots are not seen to collide.
* The return type of a function is found by iterating over a map with a suffix
  comparison: with a table of one name in two schemas it is either
  (`builder.go:858-863`).
* `Save` truncates the file it replaces: after a crash there is none to load
  (`cache.go:30`). `LoadIsWhole` shows that the torn one is refused.

## What is not modelled

* Wording, logging, metrics, compression, CORS, GraphiQL, the commands of the CLI
  other than dump and check, parsing of configuration: no state that outlives a call, or formatting only.
* Cryptography: a signature is valid or not, a hash names its document.
* PostgreSQL, pgx and gqlparser beyond what the models need of them. Their
  behaviour is modelled from how the code uses them and marked external.
* What each introspection query selects: it depends on the system catalogs.
* Statement timeouts and dead connections are failures of a statement; their
  cause is not distinguished.
* Of names: camel case, plurals and their exceptions, which would be strings put
  together. Two different sequences of words that are spelled alike are therefore
  not seen to collide.
* Of comments: parsing, `@notNull`, `@nullable`, `@deprecated` and descriptions; of
  schemas: lists and non-null of outputs, and most of the scalars.
* In `SchemaLifecycle`'s properties: `distinctOn`, tables of one name in two schemas,
  constraints of one name in a schema, renamed tables with several keys to one
  parent, and the order of overloads, each for the reason given in the last section.
* The data race on `nested-mutations`' maps (`nestedmutations.go:150`): hooks are
  actions of their own beside requests, but a torn map read is not an outcome.
* In-memory introspection and configuration validation: functions of their input
  without state; what `Validate` accepts is the set of initial states of `Admission`.

## Plan

Done, in this order: executor and its refinement, pagination, persisted queries,
key cache, watcher and boot, nested creates, filters and mutations, limits and
admission, naming, builder, plugins, cache file and the life of a schema.

Theorems proved since: the durability of `RequestExecution` and its refinement, the
freshness of `SchemaWatch`, the rows and the payload of `NestedCreate`, the pages and
the walks of `PageWalk`, the limits of `Admission`, what `schema check` tells, the
statements and filters of `Mutations`, that a swap is a restart.

Possible extensions: a nested create compiled with the specs of a later schema
(`SchemaLifecycle` with `NestedCreate`), and the compile chain with plugins that are
not built in.
