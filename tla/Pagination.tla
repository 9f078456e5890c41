------------------------------ MODULE Pagination ------------------------------
(***************************************************************************)
(* One Relay connection field, from its arguments to the page PostgreSQL   *)
(* returns: planPage resolves first/last/offset/after/before, the keyset    *)
(* predicate turns a cursor into a WHERE condition, and connectionJSON      *)
(* assembles the scan, the trim of the detection row, the cursors and       *)
(* pageInfo.  A table is a function from row slots to the value of one      *)
(* ordinary column; the key columns of a slot never change.  A filter only  *)
(* removes rows before the page is taken, so it is not a separate input.    *)
(***************************************************************************)
EXTENDS Integers, Sequences, FiniteSets

CONSTANTS
    Slots,          \* where a row may live
    Values,         \* non-NULL values of the ordinary column, integers
    NULL,           \* SQL NULL
    Absent,         \* the slot holds no row
    Key,            \* Key[s][c]: the value of key column c in slot s
    ValueCol,       \* the name of the ordinary column
    MaxPageSize,    \* the server's cap on a page
    None            \* an argument that was not given

ASSUME ValuesAssumption ==
    /\ Values \subseteq Int
    /\ NULL \notin Int /\ Absent \notin Int /\ Absent # NULL /\ None \notin Int

ASSUME SlotsAssumption == Slots \subseteq Int /\ IsFiniteSet(Slots)

\* Key columns are primary-key columns: never NULL.
ASSUME KeyAssumption == \A s \in Slots : \A c \in DOMAIN Key[s] : Key[s][c] \in Int

ASSUME MaxPageSizeAssumption == MaxPageSize \in Nat \ {0}

Tables == [Slots -> Values \cup {NULL, Absent}]

Rows(table) == {s \in Slots : table[s] # Absent}

Column(table, s, c) == IF c = ValueCol THEN table[s] ELSE Key[s][c]

\* What the catalog knows of a table: its primary key (<<>>: none) and
\* whether the ordinary column is declared NOT NULL.
HasPK(def) == def.pk # <<>>

PKColumns(def) == {def.pk[i] : i \in DOMAIN def.pk}

NotNull(def, c) == c # ValueCol \/ def.notNull

\* F of the value of e; TLC computes e once.
Bind(e, F(_)) == CHOOSE r \in {F(x) : x \in {e}} : TRUE

\* The elements of a set in order: below[s] are those that come before s.
Listing(below) ==
    LET place == [s \in DOMAIN below |-> Cardinality(below[s]) + 1]
    IN  [i \in 1..Cardinality(DOMAIN below) |-> CHOOSE s \in DOMAIN below : place[s] = i]

\* What stands at some positions of a sequence, in order.
Only(seq, keep) ==
    LET at == Listing([k \in keep |-> {j \in keep : j < k}])
    IN  [i \in DOMAIN at |-> seq[at[i]]]

-----------------------------------------------------------------------------
\* Ordering.  A term is a column with a direction.

Asc(c) == [col |-> c, desc |-> FALSE]
Desc(c) == [col |-> c, desc |-> TRUE]

\* Mutation: the primary key is not appended to an ordering
orderTermsNoPK(def, orderBy) == IF orderBy = <<>> THEN [i \in DOMAIN def.pk |-> Asc(def.pk[i])]
                                ELSE orderBy

\* The primary key ends every ordering, unless its only column is there.
orderTerms(def, orderBy) ==
    IF Len(def.pk) = 1 /\ \E i \in DOMAIN orderBy : orderBy[i].col = def.pk[1]
    THEN orderBy
    ELSE orderBy \o [i \in DOMAIN def.pk |-> Asc(def.pk[i])]

\* The DISTINCT ON column moves to the head with the direction of its first
\* term (dcols is <<>> or one column).
reorderForDistinct(terms, dcols) ==
    LET matching(c) == {i \in DOMAIN terms : terms[i].col = c}
        first(c) == CHOOSE i \in matching(c) : \A j \in matching(c) : i <= j
        head(c) == IF matching(c) = {} THEN Asc(c) ELSE terms[first(c)]
        others == {i \in DOMAIN terms : \A j \in DOMAIN dcols : terms[i].col # dcols[j]}
    IN  IF dcols = <<>> THEN terms
        ELSE [i \in DOMAIN dcols |-> head(dcols[i])] \o Only(terms, others)

\* PostgreSQL's default order: NULLS LAST ascending, NULLS FIRST descending,
\* that is NULL above every value.
Below(x, y) == x # NULL /\ (y = NULL \/ x < y)

\* ORDER BY the terms (all flipped when reversed) puts row a before row b;
\* rows that tie come in the order of their slots.
Precedes(table, terms, reversed, a, b) ==
    LET x(i) == Column(table, a, terms[i].col)
        y(i) == Column(table, b, terms[i].col)
        Tie(i) == x(i) = y(i)
    IN  \/ \E i \in DOMAIN terms :
            /\ \A j \in 1..(i - 1) : Tie(j)
            /\ IF terms[i].desc # reversed THEN Below(y(i), x(i)) ELSE Below(x(i), y(i))
        \/ (\A i \in DOMAIN terms : Tie(i)) /\ a < b

Sorted(table, terms, reversed, rows) ==
    Bind([s \in rows |-> {r \in rows : Precedes(table, terms, reversed, r, s)}], Listing)

-----------------------------------------------------------------------------
\* Cursors and the keyset predicate.

KeyCursor(s) == [kind |-> "key", at |-> s]
OffsetCursor(n) == [kind |-> "offset", at |-> n]
ForeignCursor == [kind |-> "foreign", at |-> 0]   \* another type's nodeId

\* One value per term for the cursor's row: key columns come from the cursor
\* itself, the others from a subquery that yields NULL when the row is gone.
anchorVals(def, table, terms, s) ==
    [i \in DOMAIN terms |->
        IF terms[i].col \in PKColumns(def) THEN Key[s][terms[i].col]
        ELSE IF table[s] = Absent THEN NULL
        ELSE Column(table, s, terms[i].col)]

\* Mutation: NULL is never after a value, as if the comparison alone decided
StrictlyAfterNoNulls(x, k, desc, notNull) ==
    x # NULL /\ k # NULL /\ (IF desc THEN x < k ELSE x > k)

\* The comparison of one term holds (SQL: is TRUE, neither FALSE nor NULL).
StrictlyAfter(x, k, desc, notNull) ==
    \/ x # NULL /\ k # NULL /\ (IF desc THEN x < k ELSE x > k)
    \/ ~notNull /\ ~desc /\ x = NULL /\ k # NULL
    \/ ~notNull /\ desc /\ x # NULL /\ k = NULL

SameValue(x, k, notNull) == x = k /\ (notNull => k # NULL)

\* s1 OR (e1 AND (s2 OR (e2 AND ...))) is TRUE for row s; flip turns
\* "strictly after the anchor" into "strictly before".
keysetPredicate(def, table, terms, vals, flip, s) ==
    LET x(i) == Column(table, s, terms[i].col)
        nn(i) == NotNull(def, terms[i].col)
    IN  \E i \in DOMAIN terms :
            /\ \A j \in 1..(i - 1) : SameValue(x(j), vals[j], nn(j))
            /\ StrictlyAfter(x(i), vals[i], terms[i].desc # flip, nn(i))

-----------------------------------------------------------------------------
\* The plan: what first, last, offset, after and before come to.

Given(arg) == arg # None

Rejected(def, args) ==
    LET cursors == {args.after, args.before} \ {None}
        legacy == Given(args.after) /\ args.after.kind = "offset"
        predKeyset == HasPK(def) /\ ~legacy
        offset == args.offset + (IF legacy THEN args.after.at ELSE 0)
    IN  \/ Given(args.first) /\ Given(args.last)
        \/ Given(args.first) /\ args.first < 0
        \/ Given(args.last) /\ args.last < 0
        \/ args.offset < 0
        \/ \E c \in cursors : c.kind = "foreign" \/ (c.kind = "key" /\ ~HasPK(def))
        \/ Given(args.before) /\ args.before.kind = "offset"
        \/ /\ Given(args.last) \/ Given(args.before)
           /\ ~predKeyset \/ offset > 0
        \/ /\ args.distinctOn # <<>>
           /\ \/ Given(args.after) /\ predKeyset
              \/ Given(args.before)
              \/ Given(args.last)

planPage(def, args) ==
    LET asked == IF Given(args.last) THEN args.last ELSE args.first
        legacy == Given(args.after) /\ args.after.kind = "offset"
        distinct == args.distinctOn # <<>>
    IN  [emitKeyset |-> HasPK(def) /\ ~distinct,
         predKeyset |-> HasPK(def) /\ ~legacy /\ ~distinct,
         reversed   |-> Given(args.last),
         limit      |-> IF ~Given(asked) \/ asked > MaxPageSize THEN MaxPageSize ELSE asked,
         offset     |-> args.offset + (IF legacy THEN args.after.at ELSE 0),
         hasAfter   |-> Given(args.after),
         hasBefore  |-> Given(args.before)]

-----------------------------------------------------------------------------
\* The page.  A fetched row is its slot with __rn, its number in the scan.

\* DISTINCT ON keeps the first row of each group in the scan's order.
DistinctOn(table, terms, dcols, rows) ==
    {s \in rows : ~\E r \in rows : /\ r # s
                                   /\ \A i \in DOMAIN dcols :
                                        Column(table, r, dcols[i]) = Column(table, s, dcols[i])
                                   /\ Precedes(table, terms, FALSE, r, s)}

ScanRows(def, table, args, terms, plan) ==
    LET Beyond(cursor, flip) ==
            Bind(anchorVals(def, table, terms, cursor.at),
                 LAMBDA vals : {s \in Rows(table) : keysetPredicate(def, table, terms, vals, flip, s)})
    IN  Rows(table)
        \cap (IF plan.predKeyset /\ plan.hasAfter THEN Beyond(args.after, FALSE) ELSE Slots)
        \cap (IF plan.predKeyset /\ plan.hasBefore THEN Beyond(args.before, TRUE) ELSE Slots)

\* row_number() counts before OFFSET; under DISTINCT ON the survivors are
\* numbered again after it.
RowNumber(plan, dcols, i) == IF dcols = <<>> THEN plan.offset + i ELSE i

LeastOf(m, n) == IF m < n THEN m ELSE n

LimitOffset(rows, limit, offset) ==
    SubSeq(rows, offset + 1, LeastOf(Len(rows), offset + limit))

Fetch(def, table, args, terms, plan) ==
    LET Distinct(rows) == IF args.distinctOn = <<>> THEN rows
                          ELSE DistinctOn(table, terms, args.distinctOn, rows)
        Page(rows) == LimitOffset(Sorted(table, terms, plan.reversed, rows),
                                  plan.limit + (IF plan.predKeyset THEN 1 ELSE 0), plan.offset)
        Numbered(page) == [i \in DOMAIN page |->
                            [at |-> page[i], rn |-> RowNumber(plan, args.distinctOn, i)]]
    IN  Bind(Bind(Distinct(ScanRows(def, table, args, terms, plan)), Page), Numbered)

CursorOf(plan, row) ==
    IF plan.emitKeyset THEN KeyCursor(row.at) ELSE OffsetCursor(row.rn + plan.offset)

\* Mutation: the trim threshold is off by one
EmittedShort(plan, fetched) ==
    LET kept == {i \in DOMAIN fetched :
                    plan.predKeyset => fetched[i].rn < plan.offset + plan.limit}
        n == Cardinality(kept)
    IN  [i \in 1..n |-> fetched[IF plan.reversed THEN n + 1 - i ELSE i]]

\* The aggregates drop the detection row, which is numbered last, and undo a
\* reversed scan.
Emitted(plan, fetched) ==
    LET kept == {i \in DOMAIN fetched :
                    plan.predKeyset => fetched[i].rn <= plan.offset + plan.limit}
        n == Cardinality(kept)
    IN  [i \in 1..n |-> fetched[IF plan.reversed THEN n + 1 - i ELSE i]]

TotalCount(table, dcols) ==
    IF dcols = <<>> THEN Cardinality(Rows(table))
    ELSE Cardinality({Column(table, s, dcols[1]) : s \in Rows(table)})

\* hasNextPage and hasPreviousPage.
PageInfo(table, args, plan, fetched) ==
    LET more == Len(fetched) + plan.offset > plan.offset + plan.limit
    IN  IF ~plan.predKeyset
        THEN [next |-> TotalCount(table, args.distinctOn) > plan.offset + Len(fetched),
              prev |-> plan.offset > 0]
        ELSE IF plan.reversed
        THEN [next |-> plan.hasBefore, prev |-> more]
        ELSE [next |-> more, prev |-> plan.hasAfter \/ plan.offset > 0]

Assembled(table, args, plan, fetched) ==
    LET rows == Emitted(plan, fetched)
        info == PageInfo(table, args, plan, fetched)
        cursors == [i \in DOMAIN rows |-> CursorOf(plan, rows[i])]
    IN  [nodes       |-> [i \in DOMAIN rows |-> rows[i].at],
         startCursor |-> IF rows = <<>> THEN None ELSE cursors[1],
         endCursor   |-> IF rows = <<>> THEN None ELSE cursors[Len(rows)],
         next        |-> info.next,
         prev        |-> info.prev]

connectionJSON(def, table, args) ==
    Bind(<<planPage(def, args),
           reorderForDistinct(orderTerms(def, args.orderBy), args.distinctOn)>>,
         LAMBDA p : Bind(Fetch(def, table, args, p[2], p[1]),
                         LAMBDA fetched : Assembled(table, args, p[1], fetched)))
=============================================================================
