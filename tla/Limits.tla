-------------------------------- MODULE Limits --------------------------------
(***************************************************************************)
(* The depth and cost limits of an operation, and what they are limits of:   *)
(* the fields that run, the depth the compiler reaches and the values the     *)
(* response can hold.                                                       *)
(*                                                                         *)
(* A selection set is a sequence of fields and fragments (a spread is the     *)
(* fragment it names).  An item says whether its directives skip it and what   *)
(* is selected below it; a field has a class and its page arguments, NULL      *)
(* where the argument is not given or null.                                 *)
(***************************************************************************)
EXTENDS Integers, Sequences, FiniteSets, FiniteSetsExt

CONSTANTS
  Selections,   \* the selection sets of the operations and those within them
  MaxDepth, MaxCost, MaxPageSize,   \* options; below 1 is "not set"
  ArrayLen,     \* the most elements an array or a set of rows without pages has:
                \* nothing in the code limits it
  NULL

\* What a field yields: "column" a value; "row" one row or composite value;
\* "rows" an array or set of them; "list" a page of rows; "connection" a page
\* with its wrapper, below which "nodes" and "edges" hold the rows, each edge a
\* "node", and "info" the rest; "introspection" nothing of the database.
Classes == {"column", "row", "rows", "list", "connection", "nodes", "edges", "node", "info", "introspection"}

Paged == {"list", "connection"}

ASSUME LimitsAssumption ==
  /\ NULL \notin Int /\ {MaxDepth, MaxCost, MaxPageSize} \subseteq Int /\ ArrayLen \in Nat
  /\ << >> \in Selections
  /\ \A sel \in Selections : sel \in Seq({sel[i] : i \in DOMAIN sel})
  /\ \A sel \in Selections : \A i \in DOMAIN sel :
       /\ sel[i].kind \in {"field", "fragment"} /\ sel[i].skip \in BOOLEAN
       /\ sel[i].sub \in Selections
       /\ sel[i].kind = "field" =>
            /\ sel[i].class \in Classes
            /\ sel[i].first \in Int \cup {NULL} /\ sel[i].last \in Int \cup {NULL}
            /\ sel[i].class \notin Paged => sel[i].first = NULL /\ sel[i].last = NULL

\* How deep a selection set nests.  Documents are finite, and validation refuses a
\* fragment that contains itself.
Nesting[sel \in Selections] == Max({0} \cup {1 + Nesting[sel[i].sub] : i \in DOMAIN sel})

ASSUME NestingAssumption ==
  \A sel \in Selections :
    Nesting[sel] \in Nat /\ \A i \in DOMAIN sel : Nesting[sel[i].sub] < Nesting[sel]
------------------------------------------------------------------------------
maxDepth == IF MaxDepth <= 0 THEN 15 ELSE MaxDepth
maxCost == IF MaxCost <= 0 THEN 10000 ELSE MaxCost
pageCap == IF MaxPageSize <= 0 THEN 100 ELSE MaxPageSize
compilerMaxDepth == IF MaxDepth <= 0 THEN 50 ELSE MaxDepth

\* MUTANT of Indices: directives are not looked at.
IndicesAll(sel) == DOMAIN sel

\* SkipByDirectives.
Indices(sel) == {j \in DOMAIN sel : ~sel[j].skip}
Included(sel) == {sel[i] : i \in Indices(sel)}

IsList(f) == f.class \in {"rows", "list", "nodes", "edges"}
hasPageArgs(f) == f.class \in Paged
pageArg(f) == IF f.first # NULL THEN f.first ELSE f.last

\* MUTANT of Multiplier: a page of no rows costs nothing below it.
MultiplierZero(f, paginated) ==
  IF pageArg(f) # NULL THEN Min({Max({pageArg(f), 0}), pageCap})
  ELSE IF hasPageArgs(f) \/ (IsList(f) /\ ~paginated) THEN 10 ELSE 1

\* How often what is below a field repeats.
Multiplier(f, paginated) ==
  IF pageArg(f) # NULL THEN Min({Max({pageArg(f), 1}), pageCap})
  ELSE IF hasPageArgs(f) \/ (IsList(f) /\ ~paginated) THEN 10 ELSE 1

Total(w) ==
  LET upTo[i \in 0..Len(w)] == IF i = 0 THEN 0 ELSE upTo[i - 1] + w[i]
  IN upTo[Len(w)]

Cost[at \in Selections \X BOOLEAN] ==
  LET sel == at[1]
      paginated == at[2]
      cost(item) ==
        IF item.kind = "fragment" THEN Cost[<<item.sub, paginated>>]
        ELSE 1 + Multiplier(item, paginated) * Cost[<<item.sub, hasPageArgs(item)>>]
  IN Total([i \in DOMAIN sel |-> IF i \in Indices(sel) THEN cost(sel[i]) ELSE 0])

\* MUTANT of Level: pages do not count as levels.
LevelNotPages(item) ==
  IF item.kind = "fragment" \/ item.sub = << >> \/ item.class \in {"list", "connection"} THEN 0 ELSE 1

\* Levels an item adds to those below it: none if it is a leaf, but one when all
\* of what is below it is skipped.
Level(item) == IF item.kind = "fragment" \/ item.sub = << >> THEN 0 ELSE 1

Depth[sel \in Selections] == Max({0} \cup {Level(item) + Depth[item.sub] : item \in Included(sel)})

\* Introspection fields of the operation itself are left out, as what a directive
\* skips is, not those in fragments.
Introspects(item) == item.kind = "field" /\ item.class = "introspection"
LeftOut == [kind |-> "fragment", skip |-> TRUE, sub |-> << >>]
Measured(op) == [i \in DOMAIN op |-> IF Introspects(op[i]) THEN LeftOut ELSE op[i]]

checkLimits(op) ==
  IF 1 + Depth[Measured(op)] > maxDepth THEN "too deep"
  ELSE IF Cost[<<Measured(op), FALSE>>] > maxCost THEN "too costly"
  ELSE "ok"
------------------------------------------------------------------------------
Joined(parts) ==
  LET upTo[i \in 0..Len(parts)] == IF i = 0 THEN << >> ELSE upTo[i - 1] \o parts[i]
  IN upTo[Len(parts)]

\* The root fields that run, in order, fragments flattened.
RootFields[sel \in Selections] ==
  Joined([i \in DOMAIN sel |->
            IF sel[i].skip THEN << >>
            ELSE IF sel[i].kind = "fragment" THEN RootFields[sel[i].sub]
            ELSE <<sel[i]>>])

\* The rows a page has at most; the compiler refuses some arguments.
PageRefused(f) ==
  \/ f.first # NULL /\ f.last # NULL
  \/ f.first # NULL /\ f.first < 0
  \/ f.last # NULL /\ f.last < 0
PageLimit(f) == IF pageArg(f) = NULL THEN pageCap ELSE Min({pageArg(f), pageCap})

\* The values below a selection set whose enclosing connection has a page of
\* `rows` rows.
Values[at \in Selections \X (0..pageCap)] ==
  LET sel == at[1]
      rows == at[2]
      values(item) ==
        CASE item.kind = "fragment" -> Values[<<item.sub, rows>>]
          [] item.kind = "field" /\ hasPageArgs(item) /\ PageRefused(item) -> 1
          [] item.kind = "field" /\ item.class = "list" /\ ~PageRefused(item) -> 1 + PageLimit(item) * Values[<<item.sub, 0>>]
          [] item.kind = "field" /\ item.class = "connection" /\ ~PageRefused(item) -> 1 + Values[<<item.sub, PageLimit(item)>>]
          [] item.kind = "field" /\ item.class \in {"nodes", "edges"} -> 1 + rows * Values[<<item.sub, 0>>]
          [] item.kind = "field" /\ item.class = "rows" -> 1 + ArrayLen * Values[<<item.sub, 0>>]
          [] item.kind = "field" /\ item.class \in {"column", "row", "node", "info"} -> 1 + Values[<<item.sub, 0>>]
          [] OTHER -> 0  \* introspection
  IN Total([i \in DOMAIN sel |-> IF i \in Indices(sel) THEN values(sel[i]) ELSE 0])

\* The deepest call of rowJSON or compositeJSON, from depth d of the enclosing row.
Compiled[at \in Selections \X Nat] ==
  LET d == at[2]
      deepest(item) ==
        CASE item.kind = "fragment" -> Compiled[<<item.sub, d>>]
          [] item.kind = "field" /\ item.class \in {"row", "rows", "list"} -> Max({d + 1, Compiled[<<item.sub, d + 1>>]})
          [] item.kind = "field" /\ item.class = "connection" -> Compiled[<<item.sub, d + 1>>]
          [] item.kind = "field" /\ item.class \in {"nodes", "node"} -> Max({d, Compiled[<<item.sub, d>>]})
          [] item.kind = "field" /\ item.class \in {"column", "edges", "info"} -> Compiled[<<item.sub, d>>]
          [] OTHER -> 0  \* introspection
  IN Max({0} \cup {deepest(item) : item \in Included(at[1])})

\* An array stands in a selection set, and not below another of its fields.
HasArray[sel \in Selections] ==
  \E item \in Included(sel) : IF item.kind = "fragment" THEN HasArray[item.sub] ELSE item.class = "rows"

\* The heuristic takes an array to have ten elements: how many times that the longest
\* has, and how many times over it is exceeded where arrays hold arrays.
Tens == Max({1, (ArrayLen + 9) \div 10})
Excess[sel \in Selections] ==
  Max({1} \cup {(IF item.kind = "field" /\ item.class = "rows" THEN Tens ELSE 1) * Excess[item.sub]
                : item \in Included(sel)})

\* Every page states its size, unless it cannot exceed the ten rows assumed for
\* it, and no array stands directly below a page, where it would be charged once.
Stated[sel \in Selections] ==
  \A item \in Included(sel) :
    /\ Stated[item.sub]
    /\ item.kind = "field" /\ hasPageArgs(item) =>
         (pageArg(item) # NULL \/ pageCap <= 10) /\ ~HasArray[item.sub]

\* No introspection field is reached through a fragment.
NotInFragments[sel \in Selections] ==
  \A item \in Included(sel) : item.kind = "fragment" =>
    \A i \in DOMAIN RootFields[item.sub] : ~Introspects(RootFields[item.sub][i])

\* What a field is charged on its own.
Charge(f) == 1 + Multiplier(f, FALSE) * Cost[<<f.sub, hasPageArgs(f)>>]
=============================================================================
