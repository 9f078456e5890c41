---------------------------- MODULE MCNestedCreate ----------------------------
(***************************************************************************)
(* NestedCreate over users with a manager and posts with an author and an   *)
(* editor.  Inputs have at most MaxNodes paths below the root, of length at  *)
(* most MaxLen.                                                             *)
(***************************************************************************)
EXTENDS NestedCreate, FiniteSets

CONSTANTS MaxNodes, MaxLen, u1, u3, p2, first, second

MCTables == {"users", "posts"}
MCFKs == {"author", "editor", "manager"}
MCOwner == [k \in MCFKs |-> IF k = "manager" THEN "users" ELSE "posts"]
MCRef == [k \in MCFKs |-> "users"]
MCNotNull == {"author"}

User(id) == [table |-> "users", id |-> id, fk |-> [k \in {"manager"} |-> NULL]]
MCSeed ==
  {User(u1),
   [table |-> "posts", id |-> p2,
    fk |-> [k \in {"author", "editor"} |-> IF k = "author" THEN u1 ELSE NULL]]}
MCOthers == {User(u3)}

\* The edges that may leave a row of table t.
EdgesFrom(t) ==
  {[fk |-> k, kind |-> e[1], to |-> e[2]] :
     k \in {k \in MCFKs : MCOwner[k] = t},
     e \in {<<"create", NULL>>, <<"connect", u1>>, <<"connect", u3>>, <<"plain", u1>>}}
  \cup {[fk |-> k, kind |-> "child", to |-> i] : k \in {k \in MCFKs : MCRef[k] = t}, i \in {first, second}}

\* An object has each field once; the second child of a foreign key comes
\* after the first.
MayAdd(in, p, e) ==
  IF e.kind = "child" THEN e.to = second => Append(p, [e EXCEPT !.to = first]) \in in
                      ELSE Edges(in, p, e.fk, {e.kind}) = {}

Grow(root, inputs) ==
  inputs \cup
  UNION {UNION {{in \cup {Append(p, e)} :
                   e \in {e \in EdgesFrom(TableOf(root, p)) : MayAdd(in, p, e)}} :
                p \in {p \in in : Len(p) < MaxLen /\ Kind(p) \notin {"connect", "plain"}}} :
         in \in inputs}

InputsOf[root \in MCTables, n \in 0..MaxNodes] ==
  IF n = 0 THEN {{<< >>}} ELSE Grow(root, InputsOf[root, n - 1])
MCInputs == [t \in MCTables |-> InputsOf[t, MaxNodes]]
=============================================================================
