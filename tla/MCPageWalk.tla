------------------------------ MODULE MCPageWalk ------------------------------
EXTENDS PageWalk

\* Row slots are numbered; k is a single-column key, a and b a composite one.
MCKey == [s \in Slots |-> [k |-> s, a |-> s \div 2, b |-> s % 2]]

Single(nn) == [pk |-> <<"k">>, notNull |-> nn]
Composite == [pk |-> <<"a", "b">>, notNull |-> FALSE]
Keyless == [pk |-> <<>>, notNull |-> FALSE]

KeyedDefs == {Single(TRUE), Single(FALSE), Composite}
NullableDefs == {Single(FALSE)}
KeylessDefs == {Keyless}

MCOrders == {<<>>, <<Asc("v")>>, <<Desc("v")>>, <<Desc("k")>>, <<Desc("b")>>,
             <<Desc("v"), Desc("k")>>}
ValueOrders == {<<Asc("v")>>, <<Desc("v")>>}
NoOrders == {<<>>}

KeyCursors == {KeyCursor(s) : s \in Slots}

\* Single requests: first or last of none to all rows, with offsets and
\* cursors of both kinds, plain and distinct.
MCRequests ==
    [first : {None, 0, 1, MaxPageSize + 1}, last : {None, 0, 2}, offset : {0, 1},
     after : KeyCursors \cup {None, OffsetCursor(1), ForeignCursor},
     before : KeyCursors \cup {None}, orderBy : {<<>>}, distinctOn : {<<>>, <<"v">>}]

NoRequests == {}
=============================================================================
