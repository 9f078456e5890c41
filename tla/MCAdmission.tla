----------------------------- MODULE MCAdmission -----------------------------
(***************************************************************************)
(* Requests with selections of every class of field, page arguments at their  *)
(* boundaries, skipped items and fragments.                                 *)
(***************************************************************************)
EXTENDS Admission

CONSTANTS user, admin, odd

Field(class, sub) ==
  [kind |-> "field", class |-> class, skip |-> FALSE, first |-> NULL, last |-> NULL, sub |-> sub]
Page(class, first, last, sub) == [Field(class, sub) EXCEPT !.first = first, !.last = last]
Fragment(sub) == [kind |-> "fragment", skip |-> FALSE, sub |-> sub]
Skipped(item) == [item EXCEPT !.skip = TRUE]

Column == Field("column", << >>)
Introspection == Field("introspection", <<Column>>)
Info == Field("info", <<Column, Column, Column, Column>>)

\* What rows hold, then pages of rows at the limits of their arguments.
Small ==
  {<<Column>>, <<Column, Skipped(Column)>>, <<Skipped(Column)>>, <<Fragment(<<Column>>)>>,
   <<Field("row", <<Column>>)>>, <<Field("rows", <<Column>>)>>}
Bodies == {<<Field("nodes", rows)>> : rows \in Small}
  \cup {<<Field("nodes", <<Column>>), Info>>, <<Fragment(<<Field("nodes", <<Column>>)>>)>>,
        <<Field("edges", <<Column, Field("node", <<Column>>)>>)>>, <<Info>>}
Arguments == {NULL, -1, 0, 1, 2, 5}
Connections(bodies) ==
  {Page("connection", first, NULL, b) : first \in Arguments, b \in bodies}
  \cup {Page("connection", first, 2, b) : first \in {NULL, 1}, b \in bodies}
Lists(bodies) == {Page("list", first, NULL, b) : first \in Arguments, b \in bodies}
OneLevel == Connections(Bodies) \cup Lists(Small)

Chain[n \in Nat] == IF n = 0 THEN <<Column>> ELSE <<Page("list", 1, NULL, Chain[n - 1])>>
Nested ==
  Connections({<<Field("nodes", <<Page("connection", n, NULL, <<Field("nodes", <<Column>>)>>)>>)>> : n \in {0, 2, NULL}})
  \cup Lists({<<Page("list", n, NULL, <<Column>>)>> : n \in {0, 1, 2}})
  \cup {Chain[n][1] : n \in 3..5} \cup {Field("row", Chain[n]) : n \in 0..3} \cup {Column, Introspection}

Roots == OneLevel \cup Nested
Empty == Page("connection", 0, NULL, <<Info, Field("nodes", <<Column>>)>>)
MCOperations ==
  {<<f>> : f \in Roots} \cup {<<Fragment(<<f>>)>> : f \in Roots}
  \cup {<<Skipped(f), Column>> : f \in Roots} \cup {<<f, Introspection>> : f \in Nested}
  \cup {<<Empty, Fragment(<<Empty, Column>>)>>, <<Fragment(<<Skipped(Empty), Fragment(<<Column, Introspection>>)>>), Column>>}

Exempted ==
  LET exempt(f) == IF f = Introspection THEN LeftOut ELSE f
  IN {<<exempt(f)>> : f \in Roots} \cup {<<exempt(f), LeftOut>> : f \in Nested}
       \cup {<<LeftOut, Column>>}

Subs(S) == UNION {{sel[i].sub : i \in DOMAIN sel} : sel \in S}
Closed[n \in Nat] ==
  IF n = 0 THEN MCOperations \cup Exempted \cup {<< >>}
  ELSE LET sels == Closed[n - 1] IN sels \cup Subs(sels)
MCSelections == Closed[8]

\* Every identity with one operation, every operation with one identity.
Known == [enabled |-> TRUE, mode |-> "jwt", default |-> user, anonymous |-> user, allowed |-> {}]
MCArrivals ==
  {[cfg |-> c, credential |-> k, op |-> <<Column>>, txAsked |-> b] : c \in Configs, k \in Credentials, b \in BOOLEAN}
  \cup {[cfg |-> Known, credential |-> [kind |-> "absent"], op |-> o, txAsked |-> FALSE] : o \in MCOperations}
=============================================================================
