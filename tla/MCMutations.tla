----------------------------- MODULE MCMutations -----------------------------
(***************************************************************************)
(* Mutations over users with a unique nullable mail and a rank that defaults  *)
(* to 1, posts with an owner, a score and the post they reply to, and notes,  *)
(* which must have an owner although an input need not name one.            *)
EXTENDS Mutations

MCColumns == [users |-> {"id", "mail", "rank"}, posts |-> {"id", "owner", "score", "re"},
              notes |-> {"id", "owner"}]
MCDefault ==
  [users |-> [c \in MCColumns.users |-> IF c = "rank" THEN 1 ELSE NULL],
   posts |-> [c \in MCColumns.posts |-> NULL],
   notes |-> [c \in MCColumns.notes |-> NULL]]
MCNotNull == [users |-> {"id"}, posts |-> {"id"}, notes |-> {"id", "owner"}]
MCKeys == [users |-> {{"id"}, {"mail"}}, posts |-> {{"id"}}, notes |-> {{"id"}}]
OwnerFK == [table |-> "posts", column |-> "owner", ref |-> "users", refColumn |-> "id"]
ReplyFK == [table |-> "posts", column |-> "re", ref |-> "posts", refColumn |-> "id"]
NoteFK == [table |-> "notes", column |-> "owner", ref |-> "users", refColumn |-> "id"]
MCFKs == {OwnerFK, ReplyFK, NoteFK}

User(id, mail, rank) == [table |-> "users", val |-> [id |-> id, mail |-> mail, rank |-> rank]]
Post(id, owner, score, re) ==
  [table |-> "posts", val |-> [id |-> id, owner |-> owner, score |-> score, re |-> re]]
Note(id, owner) == [table |-> "notes", val |-> [id |-> id, owner |-> owner]]
MCSeeds ==
  {{User(1, NULL, 1), User(2, 1, 2), Post(1, a, s, NULL), Post(2, 2, 1, a)} :
     a, s \in {1, NULL}}
  \cup {{User(1, NULL, NULL), Post(1, 1, NULL, 1)}, {User(1, 1, 2), Note(1, 1)}}

Column(c, op, v) == [key |-> "column", column |-> c, op |-> op, val |-> v]
Not(f) == [key |-> "not", item |-> f]
AndOf(fs) == [key |-> "and", items |-> fs]
OrOf(fs) == [key |-> "or", items |-> fs]
Posts(quant, f) == [key |-> "relation", fk |-> OwnerFK, quant |-> quant, item |-> f]
Owner(f) == [key |-> "relation", fk |-> OwnerFK, quant |-> "forward", item |-> f]

UserColumns ==
  {{Column("rank", "equalTo", {1})}, {Column("rank", "notEqualTo", {1})}, {Column("rank", "greaterThan", {1})},
   {Column("rank", "in", {1, 2})}, {Column("rank", "notIn", {})}, {Column("rank", "equalTo", NULL)},
   {Column("mail", "isNull", {})}, {Column("mail", "notIn", {1})}, {}}
PostFilters ==
  {{Column("score", "equalTo", {1})}, {Column("score", "isNotNull", {})}, {},
   {Not({Column("score", "equalTo", {1})})}, {Owner({Column("rank", "greaterThan", {1})})}}
Related == {{Posts(quant, f)} : quant \in {"some", "none", "every"}, f \in PostFilters}
One == {Column("rank", "equalTo", {1})}
Two == {Column("mail", "isNull", {})}
UserFilters ==
  UserColumns \cup Related
  \cup {{Not(f)} : f \in UserColumns \cup {{Posts("every", {Column("score", "equalTo", {1})})}}}
  \cup {{OrOf({One, f})} : f \in {Two, {}, {Posts("none", {})}}} \cup {{OrOf({})}, {OrOf({{}})}}
  \cup {{AndOf({One, f})} : f \in {Two, {}}} \cup {One \cup Two, {Not({OrOf({One, Two})})}}

MCFiltersOf == [users |-> UserFilters, posts |-> PostFilters, notes |-> {}]
MCFilters == UserFilters \cup PostFilters

MCCreateInputs ==
  [users |-> {[id |-> i] : i \in 1..2} \cup {[id |-> i, mail |-> 1] : i \in 1..2}
             \cup {[id |-> 2, rank |-> NULL]},
   posts |-> {[id |-> 3, re |-> 4], [id |-> 4]},
   notes |-> {[id |-> 1], [id |-> 2]}]
MCPatches ==
  [users |-> {[rank |-> 2], [mail |-> 1], [mail |-> NULL, rank |-> NULL], [id |-> 2], << >>},
   posts |-> {[score |-> NULL]},
   notes |-> {}]
=============================================================================
