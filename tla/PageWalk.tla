------------------------------- MODULE PageWalk -------------------------------
(***************************************************************************)
(* A client walks a connection page by page, following endCursor forward   *)
(* or startCursor backward, while other sessions insert, delete and update *)
(* rows of the table.  Every page is one statement, hence one snapshot of  *)
(* the table; between two pages anything may happen to it, the row the      *)
(* client's cursor names included.                                         *)
(***************************************************************************)
EXTENDS Pagination

CONSTANTS
    Defs,           \* the table definitions to consider
    Orders,         \* the orderBy arguments
    Sizes,          \* the page sizes of a walk, all positive
    Requests,       \* single requests compared with the reference page
    MaxWrites       \* bound: writes during one walk

\* The columns of a primary key tell rows apart.
ASSUME DefsAssumption ==
    \A d \in Defs :
        /\ d.notNull \in BOOLEAN
        /\ d.pk \in Seq(PKColumns(d)) /\ ValueCol \notin PKColumns(d)
        /\ \A s \in Slots : PKColumns(d) \subseteq DOMAIN Key[s]
        /\ HasPK(d) => \A s, t \in Slots :
              (\A i \in DOMAIN d.pk : Key[s][d.pk[i]] = Key[t][d.pk[i]]) => s = t

ASSUME OrdersAssumption ==
    \A o \in Orders : o \in Seq([col : {o[i].col : i \in DOMAIN o}, desc : BOOLEAN])

\* The cursors clients have: of rows, of positions (decodeCursor refuses negative
\* ones), and of rows of other types.
Cursors == [kind : {"key"}, at : Slots] \cup [kind : {"offset"}, at : Nat] \cup {ForeignCursor}

Arguments(ordering) ==
    [first : Int \cup {None}, last : Int \cup {None}, offset : Int,
     after : Cursors \cup {None}, before : Cursors \cup {None},
     orderBy : {ordering}, distinctOn : {<<>>, <<ValueCol>>}]

ASSUME RequestsAssumption ==
    /\ Sizes \subseteq Nat \ {0} /\ MaxWrites \in Nat
    /\ None \notin Cursors /\ Requests \subseteq Arguments(<<>>)
    /\ \A o \in Orders : None \notin Arguments(o)

VARIABLES
    def,            \* what the catalog says of the table
    orderBy,        \* the ordering of the walk
    table,          \* the rows
    args,           \* the client's last request, None before the first
    reply,          \* the page it got
    delivered,      \* every row of the walk so far, in page order
    settled,        \* rows no one wrote since the walk began
    lost,           \* the cursor's row was written under an ordering that reads it
    writes          \* writes so far

vars == <<def, orderBy, table, args, reply, delivered, settled, lost, writes>>

NoArgs == [first |-> None, last |-> None, offset |-> 0, after |-> None,
           before |-> None, orderBy |-> <<>>, distinctOn |-> <<>>]

ColumnValues(d) == IF d.notNull THEN Values ELSE Values \cup {NULL}

Terms == reorderForDistinct(orderTerms(def, orderBy),
                            IF args = None THEN <<>> ELSE args.distinctOn)

\* Every ordering column is a primary-key column.
PKOrdered == \A i \in DOMAIN Terms : Terms[i].col \in PKColumns(def)

Backward == Given(args.last)

\* The reply says there is more in the direction of the walk.
More == IF Backward THEN reply.prev ELSE reply.next

Cursor == IF Backward THEN reply.startCursor ELSE reply.endCursor

Walking == args # None /\ More

-----------------------------------------------------------------------------
Init ==
    /\ def \in Defs
    /\ orderBy \in Orders
    /\ \A i \in DOMAIN orderBy : orderBy[i].col \in PKColumns(def) \cup {ValueCol}
    /\ table \in [Slots -> ColumnValues(def) \cup {Absent}]
    /\ args = None
    /\ reply = None
    /\ delivered = <<>>
    /\ settled = Rows(table)
    /\ lost = FALSE
    /\ writes = 0

Ask(a) ==
    /\ args' = a
    /\ reply' = connectionJSON(def, table, a)
    /\ delivered' = IF Given(a.last) THEN reply'.nodes \o delivered
                                     ELSE delivered \o reply'.nodes
    /\ UNCHANGED <<def, orderBy, table, settled, lost, writes>>

\* Openings of a walk: first or last, plain or DISTINCT ON the column.
FirstPage ==
    /\ args = None
    /\ \E n \in Sizes, dcols \in {<<>>, <<ValueCol>>}, backward \in BOOLEAN :
          LET a == [NoArgs EXCEPT !.first = IF backward THEN None ELSE n,
                                  !.last = IF backward THEN n ELSE None,
                                  !.orderBy = orderBy, !.distinctOn = dcols]
          IN  ~Rejected(def, a) /\ Ask(a)

NextArgs == IF Backward THEN [args EXCEPT !.before = Cursor]
                        ELSE [args EXCEPT !.after = Cursor]

NextPage ==
    /\ Walking
    /\ \E a \in {NextArgs} : ~Rejected(def, a) /\ Ask(a)

\* Another session commits a write between two pages.
Write(s, x) ==
    /\ Walking
    /\ writes < MaxWrites
    /\ table[s] # x
    /\ table' = [table EXCEPT ![s] = x]
    /\ settled' = settled \ {s}
    /\ lost' = (lost \/ (Cursor = KeyCursor(s) /\ ~PKOrdered))
    /\ writes' = writes + 1
    /\ UNCHANGED <<def, orderBy, args, reply, delivered>>

InsertRow(s) == table[s] = Absent /\ \E x \in ColumnValues(def) : Write(s, x)
DeleteRow(s) == table[s] # Absent /\ Write(s, Absent)
UpdateRow(s) == table[s] # Absent /\ \E x \in ColumnValues(def) : Write(s, x)

Next ==
    \/ FirstPage
    \/ NextPage
    \/ \E s \in Slots : InsertRow(s) \/ DeleteRow(s) \/ UpdateRow(s)

Spec == Init /\ [][Next]_vars

\* A client that was told there is more asks for it.
FairSpec == Spec /\ WF_vars(NextPage)

-----------------------------------------------------------------------------
\* The reference: the rows of a request in their order, and the ones between
\* its cursors.  A cursor stands where its row is.
Ordered(a, rows) ==
    Sorted(table, reorderForDistinct(orderTerms(def, a.orderBy), a.distinctOn), FALSE, rows)

\* One row per value of the DISTINCT ON column: the first in order.
Groups(a) ==
    LET terms == reorderForDistinct(orderTerms(def, a.orderBy), a.distinctOn)
    IN  IF a.distinctOn = <<>> THEN Rows(table)
        ELSE {s \in Rows(table) : \A r \in Rows(table) :
                table[r] = table[s] /\ r # s => Precedes(table, terms, FALSE, s, r)}

Window(a) ==
    LET terms == orderTerms(def, a.orderBy)
    IN  {s \in Groups(a) :
            /\ Given(a.after) /\ a.after.kind = "key"
                 => Precedes(table, terms, FALSE, a.after.at, s)
            /\ Given(a.before) => Precedes(table, terms, FALSE, s, a.before.at)}

\* How many rows an offset cursor and the offset argument skip.
Skipped(a) == a.offset + (IF Given(a.after) /\ a.after.kind = "offset" THEN a.after.at ELSE 0)

\* The rows named by the cursors exist, or the ordering reads only their keys.
Locatable(a) ==
    \A c \in {a.after, a.before} \ {None} :
        \/ c.kind = "offset"
        \/ table[c.at] # Absent
        \/ \A i \in DOMAIN a.orderBy : a.orderBy[i].col \in PKColumns(def)

MostOf(m, n) == IF m > n THEN m ELSE n

ReferenceNodes(a) ==
    LET window == Ordered(a, Window(a))
        asked == IF Given(a.last) THEN a.last ELSE a.first
        n == IF Given(asked) THEN LeastOf(asked, MaxPageSize) ELSE MaxPageSize
    IN  IF Given(a.last) THEN SubSeq(window, MostOf(0, Len(window) - n) + 1, Len(window))
        ELSE LimitOffset(window, n, Skipped(a))

ReferenceMore(a) ==
    LET beyond == Cardinality(Window(a)) - Len(ReferenceNodes(a))
    IN  IF Given(a.last) THEN beyond > 0 ELSE beyond > Skipped(a)

\* Every accepted request, with any combination of first, last, offset, after,
\* before, orderBy and distinctOn, gets exactly the rows between its cursors
\* that the ordering puts there, in forward order, and hasNextPage (or
\* hasPreviousPage, paging backward) tells exactly whether rows were left
\* over: planPage, keysetPredicate and connectionJSON against the order that
\* PostgreSQL sorts by, NULLs and reversed scans included.
PageIsSlice ==
    args = None =>
        \A r \in Requests :
            LET a == [r EXCEPT !.orderBy = orderBy]
                page == connectionJSON(def, table, a)
            IN  ~Rejected(def, a) /\ Locatable(a) =>
                    /\ page.nodes = ReferenceNodes(a)
                    /\ (IF Given(a.last) THEN page.prev ELSE page.next) = ReferenceMore(a)

\* What the walk should have delivered of the settled rows: all of them up to
\* the row of its cursor, everything once the server says there is no more.
Reached ==
    IF ~More THEN settled
    ELSE {s \in settled :
            IF Backward THEN ~Precedes(table, Terms, FALSE, s, Cursor.at)
                        ELSE ~Precedes(table, Terms, FALSE, Cursor.at, s)}

DeliveredSettled == Only(delivered, {i \in DOMAIN delivered : delivered[i] \in settled})

\* A keyset walk delivers every row that nobody touches exactly once and in
\* order, whatever is inserted, deleted or moved around it meanwhile, as long
\* as the cursor's own row is not rewritten under an ordering that reads it.
\* A walk by offset cursors does so while the table is left alone.
WalkExact ==
    args # None =>
        IF HasPK(def) /\ args.distinctOn = <<>>
        THEN ~lost => DeliveredSettled = Sorted(table, Terms, FALSE, Reached)
        ELSE writes = 0 =>
                LET all == Ordered(args, Groups(args)) IN
                delivered = IF More THEN LimitOffset(all, Cursor.at, 0) ELSE all

\* A walk ends: each page moves the cursor on, so that a client that follows
\* hasNextPage does not go round for ever once the writes have stopped.
WalkEnds == (args # None) ~> (args # None /\ ~More)
=============================================================================
