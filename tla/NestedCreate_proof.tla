--------------------------- MODULE NestedCreate_proof ---------------------------
(***************************************************************************)
(* What NestedCreate promises for every schema, input and database: an error *)
(* leaves no row behind; without one every row the input asks for is there,  *)
(* and the payload shows it.                                                *)
(***************************************************************************)
EXTENDS NestedCreate, SequenceTheorems, TLAPS

\* What the sequences of an input are: a path consists of the way to it and its
\* last edge, and every beginning of it is a path too.
LEMMA Paths ==
  ASSUME NEW root, NEW in, WellFormed(root, in), NEW q \in in, q # << >>
  PROVE  /\ Len(q) \in Nat /\ Len(q) >= 1
         /\ Append(Parent(q), Last(q)) = q
         /\ Len(Parent(q)) = Len(q) - 1
         /\ \A i \in 1..Len(q) - 1 : Parent(q)[i] = q[i]
         /\ Parent(q) = << >> <=> Len(q) = 1
<1> DEFINE E == UNION {{p[i] : i \in 1..Len(p)} : p \in in}
<1>1. q \in Seq(E)
  BY DEF WellFormed
<1> HIDE DEF E
<1>2. Len(q) \in Nat /\ Len(q) >= 1
  BY <1>1
<1>3. /\ Len(Parent(q)) = Len(q) - 1 /\ \A i \in 1..Len(q) - 1 : Parent(q)[i] = q[i]
      /\ Parent(q) \in Seq(E)
  <2> DEFINE n == Len(q) - 1
  <2>1. n \in Nat /\ n <= Len(q) /\ \A i \in 1..n : i \in 1..Len(q)
    BY <1>2
  <2>2. \A i \in 1..n : q[i] \in E
    BY <1>1, <2>1
  <2>3. Parent(q) = SubSeq(q, 1, n)
    BY DEF Parent, Front
  <2> HIDE DEF n
  <2>4. /\ SubSeq(q, 1, n) \in Seq(E) /\ Len(SubSeq(q, 1, n)) = n
        /\ \A i \in 1..n : SubSeq(q, 1, n)[i] = q[i]
    BY <2>1, <2>2, SubSeqProperties
  <2> QED BY <2>3, <2>4 DEF n
<1>5. Append(Parent(q), Last(q)) = q
  <2>1. Last(q) \in E /\ Last(q) = q[Len(q)]
    BY <1>1, <1>2 DEF Last
  <2>2. Append(Parent(q), Last(q)) \in Seq(E) /\ Len(Append(Parent(q), Last(q))) = Len(q)
    BY <1>2, <1>3, <2>1
  <2>3. \A i \in 1..Len(q) : Append(Parent(q), Last(q))[i] = q[i]
    BY <1>2, <1>3, <2>1
  <2> QED BY <1>1, <2>2, <2>3, SeqEqual
<1>6. Parent(q) = << >> <=> Len(q) = 1
  <2>1. Parent(q) = << >> <=> Len(Parent(q)) = 0
    BY <1>3
  <2> QED BY <1>2, <1>3, <2>1
<1> QED BY <1>2, <1>3, <1>5, <1>6

LEMMA Beginnings ==
  ASSUME NEW root, NEW in, WellFormed(root, in), NEW q \in in, NEW n \in 1..Len(q), q # << >>
  PROVE  /\ SubSeq(q, 1, n) \in in /\ SubSeq(q, 1, n) # << >>
         /\ Len(SubSeq(q, 1, n)) = n
         /\ Kind(SubSeq(q, 1, n)) = q[n].kind
<1> DEFINE E == UNION {{p[i] : i \in 1..Len(p)} : p \in in}
<1>1. q \in Seq(E) /\ SubSeq(q, 1, n) \in in
  BY DEF WellFormed
<1> HIDE DEF E
<1>2. n \in Nat /\ n >= 1 /\ Len(q) \in Nat /\ n <= Len(q)
  BY <1>1
<1>3. Len(SubSeq(q, 1, n)) = n /\ SubSeq(q, 1, n)[n] = q[n]
  BY <1>1, <1>2
<1>4. SubSeq(q, 1, n) # << >>
  <2>1. Len(<< >>) = 0
    OBVIOUS
  <2> QED BY <1>2, <1>3, <2>1
<1> QED BY <1>1, <1>3, <1>4 DEF Kind, Last

\* Before the last edge of a path every edge creates a row.
LEMMA CreatedBefore ==
  ASSUME NEW root, NEW in, WellFormed(root, in), NEW q \in in, NEW i \in 1..Len(q) - 1, q # << >>
  PROVE  q[i].kind \in {"create", "child"}
<1>1. Len(q) \in Nat /\ i \in Nat /\ i >= 1 /\ i + 1 \in 1..Len(q) /\ i \in 1..Len(q)
  BY Paths
<1> DEFINE up == SubSeq(q, 1, i + 1)
           p == SubSeq(q, 1, i)
<1>2. up \in in /\ up # << >> /\ Len(up) = i + 1
  BY <1>1, Beginnings
<1>3. p \in in /\ p # << >> /\ Kind(p) = q[i].kind
  BY <1>1, Beginnings
<1>4. Parent(up) = p
  <2> DEFINE E == UNION {{r[j] : j \in 1..Len(r)} : r \in in}
  <2>1. q \in Seq(E)
    BY DEF WellFormed
  <2> HIDE DEF E
  <2>2. Parent(up) = SubSeq(up, 1, i)
    BY <1>1, <1>2 DEF Parent, Front
  <2>3. /\ Len(SubSeq(up, 1, i)) = i /\ Len(p) = i
        /\ \A j \in 1..i : SubSeq(up, 1, i)[j] = q[j] /\ p[j] = q[j]
    BY <1>1, <2>1
  <2>4. SubSeq(up, 1, i) \in Seq(E) /\ p \in Seq(E)
    BY <1>1, <2>1
  <2> QED BY <2>2, <2>3, <2>4, SeqEqual
<1>5. Kind(p) \in {"root", "create", "child"} /\ Kind(p) \in {"create", "connect", "child", "plain"}
  BY <1>2, <1>3, <1>4 DEF WellFormed
<1> QED BY <1>3, <1>5
------------------------------------------------------------------------------
\* An input without nested fields looks nothing up: the way to a lookup begins
\* with a nested field (hasNested).
LEMMA PlainLooksNothingUp ==
  ASSUME NEW root, NEW in, WellFormed(root, in), ~hasNested(in)
  PROVE  Lookups(in) = {}
<1> SUFFICES ASSUME NEW q \in Lookups(in) PROVE FALSE
  OBVIOUS
<1>1. q \in in /\ Kind(q) = "connect" /\ OnChain(Parent(q)) /\ q # << >>
  BY DEF Lookups, Kind
<1>2. /\ Len(q) \in Nat /\ Len(q) >= 1 /\ Len(Parent(q)) = Len(q) - 1
      /\ \A i \in 1..Len(q) - 1 : Parent(q)[i] = q[i]
  BY <1>1, Paths
<1>3. CASE Len(q) = 1
  BY <1>1, <1>3 DEF hasNested
<1>4. CASE Len(q) # 1
  <2>1. 1 \in 1..Len(q) /\ 1 \in 1..Len(q) - 1
    BY <1>2, <1>4
  <2>2. /\ SubSeq(q, 1, 1) \in in /\ Len(SubSeq(q, 1, 1)) = 1
        /\ Kind(SubSeq(q, 1, 1)) = q[1].kind
    BY <1>1, <2>1, Beginnings
  <2>3. q[1].kind = "create"
    BY <1>1, <1>2, <2>1 DEF OnChain
  <2> QED BY <2>2, <2>3 DEF hasNested
<1> QED BY <1>3, <1>4

\* The request keeps its transaction or has no nested field.
Protected == flags.tx_mutations \/ (flags.force_transactions /\ flags.top_level)

IInv ==
  /\ flags \in Flags /\ target \in Tables /\ input \in Inputs[target]
  /\ pc # "before" => forceTx = (flags.force_transactions /\ flags.top_level /\ hasNested(input))
  /\ reply = "ok" => pc = "done"
  /\ Protected /\ reply # "ok" => Created = {}

LEMMA InitIInv == Init => IInv
<1> SUFFICES ASSUME Init PROVE IInv
  OBVIOUS
<1>1. Created = {}
  BY InputsAssumption DEF Init, Created, Foreign
<1> QED BY <1>1 DEF Init, IInv

\* Whoever runs in autocommit and may not leave anything behind gets its row.
LEMMA AutocommitYields ==
  ASSUME IInv, pc = "execute", ~needTx, Protected
  PROVE  Yields(input, target, db, << >>)
<1>1. ~hasNested(input)
  BY DEF IInv, needTx, Protected, Flags
<1>2. WellFormed(target, input)
  BY InputsAssumption DEF IInv
<1>3. Lookups(input) = {}
  BY <1>1, <1>2, PlainLooksNothingUp
<1> QED BY <1>3 DEF Yields

LEMMA StepIInv == IInv /\ [Next]_vars => IInv'
<1> SUFFICES ASSUME IInv, [Next]_vars PROVE IInv'
  OBVIOUS
<1> USE DEF request
<1>1. CASE BeforeOperation
  BY <1>1 DEF BeforeOperation, IInv, Protected, Created
<1>2. CASE WrapCompile
  BY <1>2 DEF WrapCompile, Answer, IInv, Protected, Created
<1>3. CASE StatementFails
  BY <1>3 DEF StatementFails, Answer, IInv, Protected, Created
<1>4. CASE ExecuteInTx
  BY <1>4 DEF ExecuteInTx, IInv, Protected, Created
<1>5. CASE ExecuteAutocommit
  <2>1. Protected' => reply' = "ok"
    BY <1>5, AutocommitYields DEF ExecuteAutocommit, Answer, Protected
  <2>2. pc' = "done" /\ UNCHANGED <<flags, target, input, forceTx>> /\ pc # "before"
    BY <1>5 DEF ExecuteAutocommit, Answer
  <2> QED BY <2>1, <2>2 DEF IInv
<1>6. CASE Commit
  BY <1>6 DEF Commit, Answer, IInv, Protected, Created
<1>7. CASE CommitFails
  BY <1>7 DEF CommitFails, Answer, IInv, Protected, Created
<1>8. CASE Rollback
  BY <1>8 DEF Rollback, Answer, IInv, Protected, Created
<1>9. CASE OtherInserts
  <2>1. UNCHANGED <<flags, target, input, forceTx, pc, reply>>
    BY <1>9 DEF OtherInserts
  <2>2. PICK row \in Others : db' = db \cup {row}
    BY <1>9 DEF OtherInserts
  <2>3. row.id \notin input
    BY <2>2, InputsAssumption DEF IInv, Foreign
  <2>4. Created = {} => Created' = {}
    BY <2>1, <2>2, <2>3 DEF Created
  <2> QED BY <2>1, <2>4 DEF IInv, Protected
<1>10. CASE OtherDeletes
  <2>1. UNCHANGED <<flags, target, input, forceTx, pc, reply>>
    BY <1>10 DEF OtherDeletes
  <2>2. db' \subseteq db
    BY <1>10 DEF OtherDeletes
  <2>3. Created = {} => Created' = {}
    BY <2>1, <2>2 DEF Created
  <2> QED BY <2>1, <2>3 DEF IInv, Protected
<1>11. CASE UNCHANGED vars
  BY <1>11 DEF vars, IInv, Protected, Created
<1> QED
  BY <1>1, <1>2, <1>3, <1>4, <1>5, <1>6, <1>7, <1>8, <1>9, <1>10, <1>11
  DEF Next, Terminating

\* A nested create that is answered with an error left none of its rows, for
\* every schema, input, depth limit and interleaving with other sessions.
THEOREM ErrorsLeaveNothing == Spec => []ErrorLeavesNothing
<1>1. IInv => ErrorLeavesNothing
  BY DEF IInv, ErrorLeavesNothing, Protected
<1> QED
  BY InitIInv, StepIInv, <1>1, PTL DEF Spec
------------------------------------------------------------------------------
\* The generator reaches every row the input asks for.
LEMMA AskedIsInserted ==
  ASSUME NEW root, NEW in, WellFormed(root, in), Reached(in),
         NEW p \in in, Kind(p) \in {"root", "create", "child"}
  PROVE  /\ p \in Inserts(in)
         /\ Kind(p) = "child" => p \in Children(in)
<1>1. CASE p = << >>
  BY <1>1 DEF Inserts, Chain, OnChain, Kind
<1>2. CASE p # << >>
  <2>1. /\ Len(p) \in Nat /\ Len(p) >= 1
        /\ Len(Parent(p)) = Len(p) - 1 /\ \A i \in 1..Len(p) - 1 : Parent(p)[i] = p[i]
    BY <1>2, Paths
  <2>2. Kind(p) = p[Len(p)].kind /\ Kind(p) \in {"create", "child"} /\ Len(p) \in 1..Len(p)
    <3>1. Kind(p) = p[Len(p)].kind
      BY <1>2 DEF Kind, Last
    <3>2. Kind(p) \in {"create", "connect", "child", "plain"}
      BY <1>2 DEF WellFormed
    <3> QED BY <2>1, <3>1, <3>2
  <2>3. \A i \in 1..Len(p) - 1 : p[i].kind = "create"
    <3> SUFFICES ASSUME NEW i \in 1..Len(p) - 1, p[i].kind = "child" PROVE FALSE
      BY <1>2, CreatedBefore
    <3>1. p[i + 1].kind = "plain" /\ i \in Nat
      BY <2>1 DEF Reached
    <3>2. i + 1 = Len(p) \/ i + 1 \in 1..Len(p) - 1
      BY <2>1, <3>1
    <3>3. i + 1 \in 1..Len(p) - 1 => p[i + 1].kind \in {"create", "child"}
      BY <1>2, CreatedBefore
    <3> QED BY <2>2, <3>1, <3>2, <3>3
  <2>4. OnChain(Parent(p))
    BY <2>1, <2>3 DEF OnChain
  <2>5. Kind(p) = "create" => OnChain(p)
    <3> SUFFICES ASSUME Kind(p) = "create", NEW i \in 1..Len(p) PROVE p[i].kind = "create"
      BY DEF OnChain
    <3>1. i = Len(p) \/ i \in 1..Len(p) - 1
      BY <2>1
    <3> QED BY <2>2, <2>3, <3>1
  <2> QED BY <2>2, <2>4, <2>5 DEF Inserts, Chain, Children
<1> QED BY <1>1, <1>2

\* A row of the chain is no child.
LEMMA ChainNoChild ==
  ASSUME NEW root, NEW in, WellFormed(root, in)
  PROVE  Chain(in) \cap Children(in) = {}
<1> SUFFICES ASSUME NEW p \in Chain(in), p \in Children(in) PROVE FALSE
  OBVIOUS
<1>1. p # << >> /\ p[Len(p)].kind = "child" /\ p \in in
  BY DEF Children, Kind, Last
<1>2. Len(p) \in 1..Len(p)
  BY <1>1, Paths
<1> QED BY <1>1, <1>2 DEF Chain, OnChain

\* What the statement accepts: neither create beside connect, nor a column twice.
Accepted(in) == ~BothGiven(in) /\ ~NamedTwice(in)

\* A path's edge leaves its parent.
LEMMA EdgeOf ==
  ASSUME NEW in, NEW q \in in, q # << >>
  PROVE  Last(q) \in Edges(in, Parent(q), Via(q), {Kind(q)})
BY DEF Edges, Via, Kind

\* The value of a foreign key the input gives: the row created for it, the row
\* to connect to, or the value itself.
LEMMA GivenByEdge ==
  ASSUME NEW root, NEW in, WellFormed(root, in), Accepted(in),
         NEW q \in in, q # << >>, Parent(q) \in Inserts(in), Kind(q) # "child",
         Parent(q) \in Children(in) => Kind(q) = "plain"
  PROVE  Given(in, Parent(q), Via(q)) = {IF Kind(q) = "create" THEN q ELSE Last(q).to}
<1> DEFINE p == Parent(q)
           k == Via(q)
<1>1. /\ Kind(q) \in {"create", "connect", "plain"} /\ k \in FKs
      /\ Edges(in, p, k, {Kind(q)}) = {Last(q)}
  BY DEF WellFormed
<1>2. p \in Chain(in) \/ p \in Children(in)
  BY DEF Inserts
<1>3. p \in Chain(in) => p \notin Children(in)
  BY ChainNoChild
<1>4. Edges(in, p, k, {"plain"}) # {} /\ p \in Chain(in)
        => Edges(in, p, k, {"create"}) = {} /\ Edges(in, p, k, {"connect"}) = {}
  <2>1. Edges(in, p, k, {"plain"}) # {} /\ p \in Chain(in)
          => Edges(in, p, k, {"create", "connect"}) = {}
    BY <1>1 DEF Accepted, NamedTwice
  <2>2. Edges(in, p, k, {"create", "connect"})
          = Edges(in, p, k, {"create"}) \cup Edges(in, p, k, {"connect"})
    BY DEF Edges
  <2> QED BY <2>1, <2>2
<1>5. Edges(in, p, k, {"plain"}) # {} /\ p \in Children(in) => Via(p) # k
  BY <1>1 DEF Accepted, NamedTwice
<1>6. p \in Chain(in) /\ Edges(in, p, k, {"create"}) # {} => Edges(in, p, k, {"connect"}) = {}
  BY <1>1 DEF Accepted, BothGiven
<1>7. CASE Kind(q) = "plain"
  BY <1>1, <1>3, <1>4, <1>5, <1>7 DEF Given
<1>8. CASE Kind(q) = "connect"
  <2>1. p \in Chain(in) /\ p \notin Children(in)
    BY <1>2, <1>3, <1>8
  <2>2. Edges(in, p, k, {"create"}) = {} /\ Edges(in, p, k, {"plain"}) = {}
    BY <1>1, <1>4, <1>6, <1>8, <2>1
  <2> QED BY <1>1, <1>8, <2>1, <2>2 DEF Given
<1>9. CASE Kind(q) = "create"
  <2>1. p \in Chain(in) /\ p \notin Children(in)
    BY <1>2, <1>3, <1>9
  <2>2. Edges(in, p, k, {"connect"}) = {} /\ Edges(in, p, k, {"plain"}) = {}
    BY <1>1, <1>4, <1>6, <1>9, <2>1
  <2>3. Append(p, Last(q)) = q
    BY Paths
  <2> QED BY <1>1, <1>9, <2>1, <2>2, <2>3 DEF Given
<1> QED BY <1>1, <1>7, <1>8, <1>9

\* The foreign key of a child is given by its parent alone.
LEMMA GivenByParent ==
  ASSUME NEW root, NEW in, WellFormed(root, in), Accepted(in), NEW p \in Children(in)
  PROVE  Given(in, p, Via(p)) = {Parent(p)}
<1>1. p \notin Chain(in)
  BY ChainNoChild
<1>2. Edges(in, p, Via(p), {"plain"}) = {}
  <2>1. p \in in /\ p # << >> /\ p \in Inserts(in)
    BY DEF Children, Kind, Inserts
  <2>2. Via(p) \in FKs
    BY <2>1 DEF WellFormed
  <2> QED BY <2>1, <2>2 DEF Accepted, NamedTwice
<1> QED BY <1>1, <1>2 DEF Given

LEMMA NewRowIs ==
  ASSUME NEW in, NEW root, NEW p, NEW row, row = NewRow(in, root, p)
  PROVE  /\ row.table = TableOf(root, p) /\ row.id = p
         /\ DOMAIN row.fk = {k \in FKs : Owner[k] = TableOf(root, p)}
         /\ \A k \in FKs : Owner[k] = TableOf(root, p) =>
              row.fk[k] = IF Given(in, p, k) = {} THEN NULL ELSE CHOOSE id \in Given(in, p, k) : TRUE
BY DEF NewRow, Row

LEMMA NewRowHolds ==
  ASSUME NEW in, NEW root, NEW p, NEW row, row = NewRow(in, root, p),
         NEW k \in FKs, NEW v, Owner[k] = TableOf(root, p), Given(in, p, k) = {v}
  PROVE  row.fk[k] = v
BY NewRowIs

\* The main CTE reads every lookup, through the CTEs it joins: when it has a row
\* the other inserts have theirs.
AllRows(in, root) == {NewRow(in, root, p) : p \in Inserts(in)}

LEMMA RootYieldsAll ==
  ASSUME NEW root, NEW in, WellFormed(root, in), NEW rows, Yields(in, root, rows, << >>)
  PROVE  NewRows(in, root, rows) = AllRows(in, root)
<1>1. << >> \notin Children(in)
  BY DEF Children, Kind
<1>2. \A q \in Lookups(in) : IsPrefix(<< >>, q)
  <2> SUFFICES ASSUME NEW q \in Lookups(in) PROVE IsPrefix(<< >>, q)
    OBVIOUS
  <2> DEFINE E == UNION {{p[i] : i \in 1..Len(p)} : p \in in}
  <2>1. q \in Seq(E)
    BY DEF Lookups, WellFormed
  <2> HIDE DEF E
  <2>2. Len(<< >>) = 0 /\ Len(q) \in Nat
    BY <2>1
  <2>3. SubSeq(<< >>, 1, 0) = << >> /\ SubSeq(q, 1, 0) = << >>
    BY SubSeqEmpty
  <2> QED BY <2>2, <2>3 DEF IsPrefix
<1>3. \A q \in Lookups(in) : Found(rows, root, q)
  BY <1>1, <1>2 DEF Yields, Base
<1>4. \A p \in Inserts(in) : Yields(in, root, rows, p)
  BY <1>3 DEF Yields
<1> QED BY <1>4 DEF NewRows, AllRows

\* What is asked for is fulfilled once all rows are in the database.
LEMMA AllFulfilled ==
  ASSUME WellFormed(target, input), Accepted(input), Reached(input),
         AllRows(input, target) \subseteq db, NEW p \in Asked
  PROVE  Fulfilled(p)
<1> DEFINE row == NewRow(input, target, p)
<1>0. row = NewRow(input, target, p)
  OBVIOUS
<1> HIDE DEF row
<1>1. p \in input /\ p \in Inserts(input) /\ (Kind(p) = "child" => p \in Children(input))
  BY AskedIsInserted DEF Asked
<1>2. row \in Find(db, TableOf(target, p), p)
  BY <1>0, <1>1, NewRowIs DEF AllRows, Find
<1>3. Kind(p) = "child" => row.fk[Via(p)] = Parent(p)
  <2> SUFFICES ASSUME Kind(p) = "child" PROVE row.fk[Via(p)] = Parent(p)
    OBVIOUS
  <2>1. p # << >> /\ Kind(p) # "root"
    BY DEF Kind
  <2>2. Via(p) \in FKs
    BY <1>1, <2>1 DEF WellFormed
  <2>3. Owner[Via(p)] = TableOf(target, p)
    BY DEF TableOf
  <2>4. Given(input, p, Via(p)) = {Parent(p)}
    BY <1>1, GivenByParent
  <2> QED BY <2>2, <2>3, <2>4, <1>0, NewRowHolds
<1>4. ASSUME NEW q \in input, q # << >>, Parent(q) = p, Kind(q) # "child"
      PROVE  row.fk[Via(q)] = (IF Kind(q) = "create" THEN q ELSE Last(q).to)
  <2>1. Via(q) \in FKs /\ Owner[Via(q)] = TableOf(target, p)
    BY <1>4 DEF WellFormed
  <2>2. p \in Children(input) => Kind(q) = "plain"
    <3> SUFFICES ASSUME p \in Children(input) PROVE Kind(q) = "plain"
      OBVIOUS
    <3>1. /\ Len(q) \in Nat /\ Len(q) >= 1
          /\ Len(p) = Len(q) - 1 /\ \A i \in 1..Len(q) - 1 : p[i] = q[i]
      BY <1>4, Paths
    <3>2. Len(p) >= 1 /\ p[Len(p)].kind = "child"
      <4>1. p # << >> /\ p[Len(p)].kind = "child"
        BY DEF Children, Kind, Last
      <4>2. Len(p) >= 1
        BY <1>1, <4>1, Paths
      <4> QED BY <4>1, <4>2
    <3>3. Len(p) \in 1..Len(q) - 1 /\ Len(p) + 1 = Len(q) /\ q[Len(p)].kind = "child"
      BY <3>1, <3>2
    <3>4. q[Len(q)].kind = "plain"
      BY <3>3 DEF Reached
    <3> QED BY <1>4, <3>4 DEF Kind, Last
  <2>3. Given(input, p, Via(q)) = {IF Kind(q) = "create" THEN q ELSE Last(q).to}
    BY <1>1, <1>4, <2>2, GivenByEdge
  <2> QED BY <2>1, <2>3, <1>0, NewRowHolds
<1> QED BY <1>2, <1>3, <1>4 DEF Fulfilled

\* The children of the created row that the input asks for, by foreign key.
ChildrenVia(in, k) == {p \in in : Len(p) = 1 /\ Kind(p) = "child" /\ Via(p) = k}

\* Among the rows created as children exactly these refer to the created row.
LEMMA RefersToRoot ==
  ASSUME NEW root, NEW in, WellFormed(root, in), Accepted(in), NULL \notin in,
         NEW k \in FKs, Ref[k] = root
  PROVE  {p \in Children(in) : TableOf(root, p) = Owner[k] /\ NewRow(in, root, p).fk[k] = << >>}
           = ChildrenVia(in, k)
<1>0. << >> \in in /\ NULL # << >>
  BY DEF WellFormed
<1>1. ASSUME NEW p \in ChildrenVia(in, k)
      PROVE  p \in Children(in) /\ TableOf(root, p) = Owner[k] /\ NewRow(in, root, p).fk[k] = << >>
  <2>1. p \in in /\ Len(p) = 1 /\ Kind(p) = "child" /\ Kind(p) # "root" /\ Via(p) = k /\ p # << >>
    BY <1>1 DEF ChildrenVia, Kind
  <2>2. Parent(p) = << >>
    BY <2>1, Paths
  <2>3. p \in Children(in)
    BY <2>1, <2>2 DEF Children, OnChain
  <2>4. TableOf(root, p) = Owner[k]
    BY <2>1 DEF TableOf
  <2>5. Given(in, p, k) = {<< >>}
    BY <2>1, <2>2, <2>3, GivenByParent
  <2> DEFINE row == NewRow(in, root, p)
  <2>6. row = NewRow(in, root, p)
    OBVIOUS
  <2> HIDE DEF row
  <2>7. row.fk[k] = << >>
    <3> DEFINE v == << >>
    <3>1. Given(in, p, k) = {v}
      BY <2>5
    <3> HIDE DEF v
    <3>2. row.fk[k] = v
      <4>1. row.fk[k] = IF Given(in, p, k) = {} THEN NULL ELSE CHOOSE id \in Given(in, p, k) : TRUE
        BY <2>4, <2>6, NewRowIs
      <4> QED BY <3>1, <4>1
    <3> QED BY <3>2 DEF v
  <2> QED BY <2>3, <2>4, <2>6, <2>7
<1>2. ASSUME NEW p \in Children(in), TableOf(root, p) = Owner[k], NewRow(in, root, p).fk[k] = << >>
      PROVE  p \in ChildrenVia(in, k)
  <2> DEFINE row == NewRow(in, root, p)
  <2>1. row = NewRow(in, root, p) /\ row.fk[k] = << >>
    BY <1>2
  <2> HIDE DEF row
  <2>2. row.fk[k] = IF Given(in, p, k) = {} THEN NULL ELSE CHOOSE id \in Given(in, p, k) : TRUE
    BY <1>2, <2>1, NewRowIs
  <2>3. << >> \in Given(in, p, k)
    BY <1>0, <2>1, <2>2
  <2>4. \A e \in Edges(in, p, k, {"plain"}) : e.to # << >>
    <3> SUFFICES ASSUME NEW e \in Edges(in, p, k, {"plain"}) PROVE e.to # << >>
      OBVIOUS
    <3>1. PICK q \in in : q # << >> /\ Last(q) = e /\ e.kind = "plain"
      BY DEF Edges
    <3>2. Kind(q) = "plain"
      BY <3>1 DEF Kind
    <3>3. Last(q).to \notin in
      BY <3>1, <3>2 DEF WellFormed
    <3> QED BY <1>0, <3>1, <3>3
  <2>5. Via(p) = k /\ Parent(p) = << >>
    <3>1. p \notin Chain(in)
      BY ChainNoChild
    <3> QED BY <2>3, <2>4, <3>1 DEF Given
  <2>6. p \in in /\ p # << >> /\ Kind(p) = "child"
    BY DEF Children, Kind
  <2>7. Len(p) = 1
    BY <2>5, <2>6, Paths
  <2> QED BY <2>5, <2>6, <2>7 DEF ChildrenVia
<1>3. ChildrenVia(in, k) \subseteq in
  BY DEF ChildrenVia
<1> QED BY <1>1, <1>2

\* The payload's children, read from the CTEs or from a table that knows none of
\* the input's rows.
LEMMA ChildrenShown ==
  ASSUME NEW root, NEW in, WellFormed(root, in), Accepted(in), NULL \notin in,
         NEW rows, \A row \in rows : Foreign(row, in), Yields(in, root, rows, << >>),
         NEW k \in FKs, Ref[k] = root
  PROVE  {row.id : row \in {row \in Source(in, root, rows, Owner[k]) : row.fk[k] = << >>}}
           = ChildrenVia(in, k)
<1> DEFINE C == {p \in Children(in) : TableOf(root, p) = Owner[k] /\ NewRow(in, root, p).fk[k] = << >>}
           S == {row \in Source(in, root, rows, Owner[k]) : row.fk[k] = << >>}
<1>1. C = ChildrenVia(in, k)
  BY RefersToRoot
<1>2. CASE \E p \in Children(in) : TableOf(root, p) = Owner[k]
  <2>1. Source(in, root, rows, Owner[k])
          = {row \in AllRows(in, root) : row.table = Owner[k] /\ row.id \in Children(in)}
    BY <1>2, RootYieldsAll DEF Source
  <2>2. ASSUME NEW row \in S PROVE row.id \in C
    <3>1. PICK p \in Inserts(in) : row = NewRow(in, root, p)
      BY <2>1, <2>2 DEF AllRows
    <3>2. row.table = TableOf(root, p) /\ row.id = p
      BY <3>1, NewRowIs
    <3> QED BY <2>1, <2>2, <3>1, <3>2
  <2>3. ASSUME NEW p \in C PROVE \E row \in S : row.id = p
    <3> DEFINE row == NewRow(in, root, p)
    <3>1. row = NewRow(in, root, p) /\ row.fk[k] = << >>
      BY <2>3
    <3>2. row \in AllRows(in, root)
      BY DEF AllRows, Inserts
    <3> HIDE DEF row
    <3>3. row.table = TableOf(root, p) /\ row.id = p
      BY <3>1, NewRowIs
    <3>4. row \in S
      BY <2>1, <3>1, <3>2, <3>3
    <3> QED BY <3>3, <3>4
  <2> HIDE DEF S, C
  <2>4. {row.id : row \in S} = C
    BY <2>2, <2>3
  <2> QED BY <1>1, <2>4 DEF S
<1>3. CASE ~\E p \in Children(in) : TableOf(root, p) = Owner[k]
  <2>1. ChildrenVia(in, k) = {}
    BY <1>1, <1>3
  <2>2. S = {}
    <3>1. << >> \in in
      BY DEF WellFormed
    <3> QED BY <1>3, <3>1 DEF Source, Foreign
  <2> QED BY <2>1, <2>2
<1> QED BY <1>2, <1>3

\* The row the created row refers to, when the input names it and its table is
\* not read from the created children.
LEMMA ParentShown ==
  ASSUME NEW root, NEW in, WellFormed(root, in), Accepted(in),
         NEW rows, Yields(in, root, rows, << >>), Valid(NewRows(in, root, rows), rows),
         NEW q \in in, Len(q) = 1, Kind(q) \in {"connect", "plain"},
         \A p \in Children(in) : TableOf(root, p) # Ref[Via(q)]
  PROVE  /\ Via(q) \in DOMAIN NewRow(in, root, << >>).fk
         /\ {row.id : row \in {row \in Source(in, root, rows, Ref[Via(q)]) :
                                  row.id = NewRow(in, root, << >>).fk[Via(q)]}} = {Last(q).to}
<1> DEFINE k == Via(q)
           to == Last(q).to
           created == NewRow(in, root, << >>)
<1>0. created = NewRow(in, root, << >>)
  OBVIOUS
<1>1. q # << >> /\ Kind(q) # "child" /\ Kind(q) # "root" /\ Kind(q) # "create"
  BY DEF Kind
<1>2. Parent(q) = << >>
  BY <1>1, Paths
<1>3. k \in FKs /\ Owner[k] = TableOf(root, << >>) /\ to \notin in /\ to # NULL /\ << >> \in in
  <2>1. << >> \in in /\ k \in FKs /\ to \notin in \cup {NULL}
    BY <1>1 DEF WellFormed
  <2>2. (IF Kind(q) = "child" THEN Ref ELSE Owner)[k] = TableOf(root, << >>)
    <3>1. (IF Kind(q) = "child" THEN Ref ELSE Owner)[Via(q)] = TableOf(root, Parent(q))
      BY <1>1 DEF WellFormed
    <3> QED BY <1>2, <3>1, Zenon
  <2> QED BY <1>1, <2>1, <2>2
<1>4. << >> \in Inserts(in) /\ << >> \notin Children(in)
  BY <1>3 DEF Inserts, Chain, Children, OnChain, Kind
<1>5. Given(in, << >>, k) = {to}
  BY <1>1, <1>2, <1>4, GivenByEdge
<1>6. created.fk[k] = to /\ k \in DOMAIN created.fk
  <2> HIDE DEF created, k, to
  <2>1. created.fk[k] = to
    <3> DEFINE p == << >>
    <3>1. created = NewRow(in, root, p) /\ Owner[k] = TableOf(root, p) /\ Given(in, p, k) = {to}
      BY <1>0, <1>3, <1>5
    <3> HIDE DEF p
    <3>2. created.fk[k] = IF Given(in, p, k) = {} THEN NULL ELSE CHOOSE id \in Given(in, p, k) : TRUE
      <4>1. \A c \in FKs : Owner[c] = TableOf(root, p) =>
              created.fk[c] = IF Given(in, p, c) = {} THEN NULL ELSE CHOOSE id \in Given(in, p, c) : TRUE
        BY <3>1, NewRowIs
      <4> QED BY <1>3, <3>1, <4>1
    <3> QED BY <3>1, <3>2
  <2>2. DOMAIN created.fk = {c \in FKs : Owner[c] = TableOf(root, << >>)}
    BY <1>0, NewRowIs
  <2> QED BY <1>3, <2>1, <2>2
<1>7. created \in NewRows(in, root, rows)
  BY <1>4, RootYieldsAll DEF AllRows
<1>8. Find(rows \cup NewRows(in, root, rows), Ref[k], to) # {}
  <2> HIDE DEF created, k, to
  <2> QED BY <1>3, <1>6, <1>7 DEF Valid
<1>9. \A row \in NewRows(in, root, rows) : row.id \in in
  <2> SUFFICES ASSUME NEW row \in NewRows(in, root, rows) PROVE row.id \in in
    OBVIOUS
  <2>1. PICK p \in Inserts(in) : row = NewRow(in, root, p)
    BY DEF NewRows
  <2>2. row.id = p
    BY <2>1, NewRowIs
  <2> QED BY <2>2 DEF Inserts, Chain, Children
<1>10. Find(rows, Ref[k], to) # {}
  <2> HIDE DEF k, to
  <2> QED BY <1>3, <1>8, <1>9 DEF Find
<1>11. Source(in, root, rows, Ref[k]) = {row \in rows : row.table = Ref[k]}
  BY DEF Source
<1> HIDE DEF created, k, to
<1>12. {row.id : row \in {row \in Source(in, root, rows, Ref[k]) : row.id = created.fk[k]}} = {to}
  BY <1>6, <1>10, <1>11 DEF Find
<1> QED BY <1>6, <1>12 DEF created, k, to
------------------------------------------------------------------------------
\* What PayloadShowsRelations says of a payload.
Shows(shown) ==
  /\ \A k \in DOMAIN shown.children :
       shown.children[k] = {p \in input : Len(p) = 1 /\ Kind(p) = "child" /\ Via(p) = k}
  /\ \A q \in input :
       /\ Len(q) = 1 /\ Kind(q) \in {"connect", "plain"}
       /\ \A p \in Children(input) : TableOf(target, p) # Ref[Via(q)]
       => shown.parents[Via(q)] = {Last(q).to}

\* Until the statement runs the database knows nothing of the input; from then on
\* the transaction holds all of its rows, and then the database does.
CreateInv ==
  /\ target \in Tables /\ input \in Inputs[target]
  /\ pc = "execute" => ~BothGiven(input)
  /\ pc \in {"before", "compile", "execute"} => \A row \in db : Foreign(row, input)
  /\ pc = "commit" => Accepted(input) /\ AllRows(input, target) \subseteq pending /\ Shows(payload)
  /\ reply = "ok" => pc = "done" /\ Accepted(input) /\ AllRows(input, target) \subseteq db /\ Shows(payload)

LEMMA InitCreateInv == Init => CreateInv
<1> SUFFICES ASSUME Init PROVE CreateInv
  OBVIOUS
<1>1. target \in Tables /\ input \in Inputs[target] /\ db = Seed /\ pc = "before" /\ reply = "none"
  BY DEF Init
<1>2. \A row \in db : Foreign(row, input)
  BY <1>1, InputsAssumption
<1> QED BY <1>1, <1>2 DEF CreateInv

\* The statement inserts all rows and returns a payload that shows them.
LEMMA StatementIsRight ==
  ASSUME CreateInv, pc = "execute", ~NamedTwice(input),
         Valid(NewRows(input, target, db), db), Yields(input, target, db, << >>)
  PROVE  /\ Accepted(input)
         /\ NewRows(input, target, db) = AllRows(input, target)
         /\ Shows(Payload(input, target, db))
<1>1. WellFormed(target, input) /\ NULL \notin input
  BY InputsAssumption DEF CreateInv
<1>2. Accepted(input) /\ \A row \in db : Foreign(row, input)
  BY DEF CreateInv, Accepted
<1>3. NewRows(input, target, db) = AllRows(input, target)
  BY <1>1, RootYieldsAll
<1> DEFINE shown == Payload(input, target, db)
<1>4. \A k \in DOMAIN shown.children :
        shown.children[k] = {p \in input : Len(p) = 1 /\ Kind(p) = "child" /\ Via(p) = k}
  <2>1. DOMAIN shown.children = {k \in FKs : Ref[k] = target}
    BY DEF Payload
  <2> SUFFICES ASSUME NEW k \in FKs, Ref[k] = target
               PROVE  shown.children[k] = ChildrenVia(input, k)
    BY <2>1 DEF ChildrenVia
  <2>2. shown.children[k]
          = {row.id : row \in {row \in Source(input, target, db, Owner[k]) : row.fk[k] = << >>}}
    BY DEF Payload
  <2> QED BY <1>1, <1>2, <2>2, ChildrenShown
<1>5. ASSUME NEW q \in input, Len(q) = 1, Kind(q) \in {"connect", "plain"},
             \A p \in Children(input) : TableOf(target, p) # Ref[Via(q)]
      PROVE  shown.parents[Via(q)] = {Last(q).to}
  <2>1. Via(q) \in DOMAIN NewRow(input, target, << >>).fk
    BY <1>1, <1>2, <1>5, ParentShown
  <2>2. shown.parents[Via(q)]
          = {row.id : row \in {row \in Source(input, target, db, Ref[Via(q)]) :
                                 row.id = NewRow(input, target, << >>).fk[Via(q)]}}
    BY <2>1 DEF Payload
  <2> QED BY <1>1, <1>2, <1>5, <2>2, ParentShown
<1> HIDE DEF shown
<1>6. Shows(shown)
  BY <1>4, <1>5 DEF Shows
<1> QED BY <1>2, <1>3, <1>6 DEF shown

LEMMA StepCreateInv == CreateInv /\ [Next]_vars => CreateInv'
<1> SUFFICES ASSUME CreateInv, [Next]_vars PROVE CreateInv'
  OBVIOUS
<1> USE DEF request
<1>1. CASE BeforeOperation
  BY <1>1 DEF BeforeOperation, CreateInv, Shows
<1>2. CASE WrapCompile
  BY <1>2 DEF WrapCompile, Answer, CreateInv, Shows
<1>3. CASE StatementFails
  BY <1>3 DEF StatementFails, Answer, CreateInv, Shows
<1>4. CASE ExecuteInTx
  <2>1. CASE Yields(input, target, db, << >>)
    <3>1. /\ Accepted(input) /\ pending' = AllRows(input, target)
          /\ payload' = Payload(input, target, db) /\ Shows(Payload(input, target, db))
      BY <1>4, <2>1, StatementIsRight DEF ExecuteInTx
    <3>2. Shows(payload)'
      BY <1>4, <3>1 DEF ExecuteInTx, Shows
    <3> QED BY <1>4, <2>1, <3>1, <3>2 DEF ExecuteInTx, CreateInv
  <2>2. CASE ~Yields(input, target, db, << >>)
    BY <1>4, <2>2 DEF ExecuteInTx, CreateInv
  <2> QED BY <2>1, <2>2
<1>5. CASE ExecuteAutocommit
  <2>1. CASE Yields(input, target, db, << >>)
    <3>1. /\ Accepted(input) /\ db' = db \cup AllRows(input, target)
          /\ payload' = Payload(input, target, db) /\ Shows(Payload(input, target, db))
      BY <1>5, <2>1, StatementIsRight DEF ExecuteAutocommit
    <3>2. Shows(payload)'
      BY <1>5, <3>1 DEF ExecuteAutocommit, Shows
    <3> QED BY <1>5, <2>1, <3>1, <3>2 DEF ExecuteAutocommit, Answer, CreateInv
  <2>2. CASE ~Yields(input, target, db, << >>)
    BY <1>5, <2>2 DEF ExecuteAutocommit, Answer, CreateInv
  <2> QED BY <2>1, <2>2
<1>6. CASE Commit
  <2>1. Accepted(input) /\ AllRows(input, target) \subseteq db' /\ Shows(payload)'
    BY <1>6 DEF Commit, CreateInv, Shows
  <2> QED BY <1>6, <2>1 DEF Commit, Answer, CreateInv
<1>7. CASE CommitFails
  BY <1>7 DEF CommitFails, Answer, CreateInv
<1>8. CASE Rollback
  BY <1>8 DEF Rollback, Answer, CreateInv
<1>9. CASE OtherInserts
  <2>1. UNCHANGED <<target, input, pc, pending, payload, reply>> /\ pc # "done"
    BY <1>9 DEF OtherInserts
  <2>2. PICK row \in Others : db' = db \cup {row}
    BY <1>9 DEF OtherInserts
  <2>3. Foreign(row, input)
    BY <2>2, InputsAssumption DEF CreateInv
  <2>4. Shows(payload) => Shows(payload)'
    BY <2>1 DEF Shows
  <2> QED BY <2>1, <2>2, <2>3, <2>4 DEF CreateInv
<1>10. CASE OtherDeletes
  <2>1. UNCHANGED <<target, input, pc, pending, payload, reply>> /\ pc # "done"
    BY <1>10 DEF OtherDeletes
  <2>2. db' \subseteq db
    BY <1>10 DEF OtherDeletes
  <2>3. Shows(payload) => Shows(payload)'
    BY <2>1 DEF Shows
  <2> QED BY <2>1, <2>2, <2>3 DEF CreateInv
<1>11. CASE UNCHANGED vars
  BY <1>11 DEF vars, CreateInv, Shows
<1> QED
  BY <1>1, <1>2, <1>3, <1>4, <1>5, <1>6, <1>7, <1>8, <1>9, <1>10, <1>11
  DEF Next, Terminating

\* A nested create answered without errors has created every row its input asks
\* for, each referring to what the input says, for every schema, input, depth
\* limit and interleaving with other sessions, as long as nothing nests below a
\* child.
THEOREM OkMeansAllOfIt == Spec => []OkInsertsInput
<1>1. CreateInv => OkInsertsInput
  <2> SUFFICES ASSUME CreateInv, reply = "ok", Reached(input), NEW p \in Asked PROVE Fulfilled(p)
    BY DEF OkInsertsInput
  <2>1. WellFormed(target, input) /\ Accepted(input) /\ AllRows(input, target) \subseteq db
    BY InputsAssumption DEF CreateInv
  <2> QED BY <2>1, AllFulfilled
<1> QED BY InitCreateInv, StepCreateInv, <1>1, PTL DEF Spec

\* The payload of such a create shows exactly the children created with the row,
\* and the rows it was connected to unless their table is read from the children.
THEOREM PayloadIsRight == Spec => []PayloadShowsRelations
<1>1. CreateInv => PayloadShowsRelations
  BY DEF CreateInv, Shows, PayloadShowsRelations
<1> QED BY InitCreateInv, StepCreateInv, <1>1, PTL DEF Spec
==============================================================================
