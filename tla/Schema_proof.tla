------------------------------ MODULE Schema_proof ------------------------------
(***************************************************************************)
(* The schema's two ways of changing under a server.                       *)
(*                                                                         *)
(* SchemaLifecycle: a boot from the cache file goes on only with a catalog *)
(* that one dump wrote as a whole, for any catalogs, number of dumps and   *)
(* blocks.  The last block decides: whoever writes it has written all the  *)
(* others, so a file, or what was read of one, whose blocks agree with its *)
(* last is of a dump that ended.  Then that schema check tells drift: a    *)
(* part of Diff is empty when the parts it compares agree, and has a line  *)
(* when they do not, because a key names one object of an introspected     *)
(* catalog.                                                                *)
(*                                                                         *)
(* Then that a swap is a restart: the catalog hooks overwrite all that the *)
(* enabled plugins remember of earlier catalogs, and nothing else tells    *)
(* the process from a new one.                                             *)
(*                                                                         *)
(* SchemaWatch: its safety for every set of instances, whatever privileges *)
(* their roles have, and any number of DDL commands and failures.          *)
(***************************************************************************)
EXTENDS SchemaLifecycle, SchemaWatch, FiniteSetTheorems, SequenceTheorems, WellFoundedInduction, TLAPS

Versions == {Catalog[n] : n \in DOMAIN Catalog} \cup UNION {Introspected(n) : n \in DOMAIN Catalog}
Contents == [catalog : Versions, format : Nat]
BlockValues == Contents \cup {Hole}
Files == [1..Blocks -> BlockValues]
Stages == {"idle", "create", "write", "done"}
DumpRecords == [stage : Stages, content : Contents \cup {Absent}, n : Nat]
BuildFields == {"stage", "raw", "shaped", "todo", "b", "read", "seen"}

FileOK == db.state \in DOMAIN Catalog /\ file \in Files \cup {Absent} /\ wrote \in SUBSET Contents
DumpsOK ==
  /\ dump \in [Dumpers -> DumpRecords]
  /\ \A d \in Dumpers :
       /\ dump[d].stage \in {"create", "write"} => dump[d].content \in Contents
       /\ dump[d].stage = "write" => file # Absent /\ dump[d].n < Blocks
BuildOK == build = [f \in BuildFields |-> build[f]]
ReadOK ==
  /\ build.read \in Seq(BlockValues) /\ Len(build.read) <= Blocks
  /\ build.stage = "read" => file # Absent

\* A last block was written by a dump that wrote all of them.
LastBlockSeals ==
  /\ file # Absent => file[Blocks] \in wrote \cup {Hole}
  /\ Len(build.read) = Blocks => build.read[Blocks] \in wrote \cup {Hole}

Inv == FileOK /\ DumpsOK /\ BuildOK /\ ReadOK /\ LastBlockSeals /\ LoadIsWhole

LEMMA AbsentIsNoFile == Absent \notin Files
PROOF
  BY LifecycleAssumption DEF Absent, Files

LEMMA IntrospectedVersions ==
  ASSUME NEW n \in DOMAIN Catalog, NEW c \in Introspected(n)
  PROVE  c \in Versions
PROOF
  BY DEF Versions

LEMMA InitInv == Init => Inv
PROOF
<1> SUFFICES ASSUME Init PROVE Inv
  OBVIOUS
<1>1. PICK s \in Starts : db = [state |-> s[1], ddls |-> 0]
        /\ dump = [d \in Dumpers |-> Dumping("idle", Absent, 0)]
        /\ build = Idle
        /\ \/ file = Absent /\ wrote = {}
           \/ /\ file = [i \in 1..Blocks |-> [catalog |-> Catalog[s[1]], format |-> Format - 1]]
              /\ wrote = {[catalog |-> Catalog[s[1]], format |-> Format - 1]}
  BY DEF Init
<1>2. s[1] \in DOMAIN Catalog
  BY LifecycleAssumption
<1>3. [catalog |-> Catalog[s[1]], format |-> Format - 1] \in Contents
  BY <1>2, LifecycleAssumption DEF Contents, Versions
<1>4. FileOK /\ (file # Absent => file[Blocks] \in wrote)
  BY <1>1, <1>2, <1>3, LifecycleAssumption DEF FileOK, Files, BlockValues
<1>5. DumpsOK
  BY <1>1, LifecycleAssumption DEF DumpsOK, DumpRecords, Stages, Dumping
<1>6. build.read = << >> /\ build.stage = "down" /\ build.raw = Absent
  BY <1>1 DEF Idle
<1>7. BuildOK
  BY <1>1 DEF Idle, BuildFields, BuildOK
<1>8. ReadOK /\ LastBlockSeals
  <2>1. << >> \in Seq(BlockValues) /\ Len(<< >>) = 0
    OBVIOUS
  <2> QED
    BY <1>4, <1>6, <2>1, LifecycleAssumption DEF ReadOK, LastBlockSeals
<1>9. LoadIsWhole
  BY <1>6 DEF LoadIsWhole
<1> QED
  BY <1>4, <1>5, <1>7, <1>8, <1>9 DEF Inv

\* A dump that changes nothing of the others.
LEMMA DumpRecord ==
  ASSUME Inv, NEW d \in Dumpers, NEW r \in DumpRecords,
         dump' = [dump EXCEPT ![d] = r], file' \in Files \cup {Absent}, file # Absent => file' # Absent,
         r.stage \in {"create", "write"} => r.content \in Contents,
         r.stage = "write" => file' # Absent /\ r.n < Blocks
  PROVE  DumpsOK'
PROOF
<1>1. dump' \in [Dumpers -> DumpRecords] /\ dump'[d] = r /\ \A e \in Dumpers \ {d} : dump'[e] = dump[e]
  BY DEF Inv, DumpsOK
<1> QED
  BY <1>1 DEF Inv, DumpsOK

\* Nothing that the build has read or loaded changes.
LEMMA BuildUnchanged ==
  ASSUME Inv, UNCHANGED <<build, config>>, server' = server, file # Absent => file' # Absent, wrote \subseteq wrote',
         file' # Absent => file'[Blocks] \in wrote' \cup {Hole}
  PROVE  BuildOK' /\ ReadOK' /\ LastBlockSeals' /\ LoadIsWhole'
PROOF
<1>1. BuildOK' /\ ReadOK'
  BY DEF Inv, BuildOK, ReadOK
<1>2. LastBlockSeals'
  BY DEF Inv, LastBlockSeals
<1>3. LoadIsWhole'
  BY DEF Inv, LoadIsWhole
<1> QED
  BY <1>1, <1>2, <1>3

\* The build goes on by itself, and reads no further.
LEMMA BuildMoves ==
  ASSUME Inv, UNCHANGED <<db, config, file, dump, wrote>>,
         BuildOK', build'.read \in {build.read, << >>},
         build'.stage = "read" => file # Absent,
         server' = server \/ build'.raw = Absent,
         ("cache" \in config.mode /\ server = Absent /\ build'.raw # Absent) => build'.raw \in wrote /\ build'.raw.format = Format
  PROVE  Inv'
PROOF
<1>1. FileOK' /\ DumpsOK'
  BY DEF Inv, FileOK, DumpsOK
<1>2. build'.read \in Seq(BlockValues) /\ Len(build'.read) <= Blocks
  <2>1. << >> \in Seq(BlockValues) /\ Len(<< >>) = 0
    OBVIOUS
  <2>2. build.read \in Seq(BlockValues) /\ Len(build.read) <= Blocks /\ 0 <= Blocks
    BY LifecycleAssumption DEF Inv, ReadOK
  <2>3. CASE build'.read = build.read
    BY <2>2, <2>3
  <2>4. CASE build'.read = << >>
    BY <2>1, <2>2, <2>4
  <2> QED
    BY <2>3, <2>4
<1>3. ReadOK'
  BY <1>2 DEF ReadOK
<1>4. LastBlockSeals'
  <2>1. << >> \in Seq(BlockValues) /\ Len(<< >>) # Blocks
    BY LifecycleAssumption
  <2> QED
    BY <2>1 DEF Inv, LastBlockSeals
<1>5. LoadIsWhole'
  BY DEF LoadIsWhole
<1> QED
  BY <1>1, <1>3, <1>4, <1>5 DEF Inv

LEMMA DumpStep ==
  ASSUME Inv, NEW d \in Dumpers, DumpIntrospect(d) \/ DumpCreate(d) \/ DumpWrite(d) \/ DumpCrash(d)
  PROVE  Inv'
PROOF
<1>0. /\ dump[d] \in DumpRecords /\ db.state \in DOMAIN Catalog /\ UNCHANGED <<db, config, build, server>>
      /\ dump[d].stage \in {"create", "write"} => dump[d].content \in Contents
      /\ dump[d].stage = "write" => file # Absent /\ dump[d].n < Blocks
  BY DEF Inv, DumpsOK, FileOK, DumpIntrospect, DumpCreate, DumpWrite, DumpCrash
<1> USE DEF Dumping
<1>1. CASE DumpIntrospect(d)
  <2>1. PICK c \in Introspected(db.state) :
          dump' = [dump EXCEPT ![d] = Dumping("create", [catalog |-> c, format |-> Format], 0)]
    BY <1>1 DEF DumpIntrospect
  <2>2. [catalog |-> c, format |-> Format] \in Contents
    BY <1>0, IntrospectedVersions, LifecycleAssumption DEF Contents
  <2>3. Dumping("create", [catalog |-> c, format |-> Format], 0) \in DumpRecords
    BY <2>2 DEF DumpRecords, Stages
  <2>4. UNCHANGED <<file, wrote>>
    BY <1>1 DEF DumpIntrospect
  <2>5. DumpsOK'
    BY <2>1, <2>2, <2>3, <2>4, DumpRecord DEF Inv, FileOK
  <2> QED
    BY <1>0, <2>4, <2>5, BuildUnchanged DEF Inv, FileOK, LastBlockSeals
<1>2. CASE DumpCreate(d)
  <2>1. file' = [i \in 1..Blocks |-> Hole] /\ wrote' = wrote
    BY <1>2 DEF DumpCreate, Truncated
  <2>2. /\ dump[d].stage = "create"
        /\ dump' = [dump EXCEPT ![d] = Dumping("write", dump[d].content, 0)]
    BY <1>0, <1>2 DEF DumpCreate, Inv, DumpsOK
  <2>3. file' \in Files /\ file'[Blocks] = Hole
    BY <2>1, LifecycleAssumption DEF Files, BlockValues
  <2>4. Dumping("write", dump[d].content, 0) \in DumpRecords
    BY <1>0 DEF DumpRecords, Stages
  <2>5. DumpsOK'
    <3> DEFINE r == Dumping("write", dump[d].content, 0)
    <3>1. r.content \in Contents /\ r.n < Blocks /\ file' # Absent
      BY <1>0, <2>2, <2>3, AbsentIsNoFile, LifecycleAssumption
    <3>2. r \in DumpRecords /\ dump' = [dump EXCEPT ![d] = r]
      BY <2>2, <2>4
    <3> HIDE DEF r
    <3> QED
      BY <2>3, <3>1, <3>2, DumpRecord
  <2> QED
    BY <1>0, <2>1, <2>3, <2>5, AbsentIsNoFile, BuildUnchanged DEF Inv, FileOK
<1>3. CASE DumpWrite(d)
  <2> DEFINE n == dump[d].n
             last == n + 1 = Blocks
             r == Dumping(IF last THEN "done" ELSE "write", dump[d].content, n + 1)
  <2>1. /\ dump[d].stage = "write" /\ dump' = [dump EXCEPT ![d] = r]
        /\ file' = [file EXCEPT ![n + 1] = dump[d].content]
        /\ wrote' = IF last THEN wrote \cup {dump[d].content} ELSE wrote
    BY <1>0, <1>3 DEF DumpWrite, Written, Inv, DumpsOK
  <2>2. n \in Nat /\ n < Blocks /\ dump[d].content \in Contents /\ file \in Files
    BY <1>0, <2>1 DEF Inv, FileOK, DumpRecords
  <2>3. file' \in Files /\ file'[Blocks] \in wrote' \cup {Hole} /\ wrote' \in SUBSET Contents /\ wrote \subseteq wrote'
    BY <1>0, <2>1, <2>2, LifecycleAssumption DEF Files, BlockValues, Inv, LastBlockSeals, FileOK
  <2>4. r \in DumpRecords
    BY <2>2 DEF DumpRecords, Stages
  <2>5. DumpsOK'
    <3>1. r.content \in Contents /\ (r.stage = "write" => r.n < Blocks)
      BY <2>2, LifecycleAssumption
    <3> QED
      BY <2>1, <2>3, <2>4, <3>1, AbsentIsNoFile, DumpRecord
  <2> QED
    BY <1>0, <2>3, <2>5, AbsentIsNoFile, BuildUnchanged DEF Inv, FileOK
<1>4. CASE DumpCrash(d)
  <2>1. UNCHANGED <<file, wrote>>
    BY <1>4 DEF DumpCrash
  <2>2. dump' = [dump EXCEPT ![d] = Dumping("done", dump[d].content, dump[d].n)]
    BY <1>0, <1>4 DEF DumpCrash, Inv, DumpsOK
  <2>3. Dumping("done", dump[d].content, dump[d].n) \in DumpRecords
    BY <1>0 DEF DumpRecords, Stages
  <2>4. DumpsOK'
    BY <2>1, <2>2, <2>3, DumpRecord DEF Inv, FileOK
  <2> QED
    BY <1>0, <2>1, <2>4, BuildUnchanged DEF Inv, FileOK, LastBlockSeals
<1> QED
  BY <1>1, <1>2, <1>3, <1>4

\* The file read a block at a time, and what becomes of it.
LEMMA LoadStep ==
  ASSUME Inv, Open \/ Read \/ Load \/ Introspect
  PROVE  Inv'
PROOF
<1>0. UNCHANGED <<db, config, file, dump, wrote, server>> /\ BuildOK
  BY DEF Inv, Open, Read, Load, Introspect
<1>1. CASE Open
  <2>1. build' = [build EXCEPT !.stage = "read"] /\ file # Absent
    BY <1>1 DEF Open
  <2>2. BuildOK' /\ build'.read = build.read /\ build'.raw = build.raw
    BY <1>0, <2>1 DEF BuildOK, BuildFields
  <2> QED
    BY <1>0, <2>1, <2>2, BuildMoves DEF Inv, LoadIsWhole
<1>2. CASE Read
  <2> DEFINE block == file[Len(build.read) + 1]
  <2>1. /\ build.stage = "read" /\ Len(build.read) < Blocks
        /\ build' = [build EXCEPT !.read = Append(build.read, block)]
    BY <1>0, <1>2 DEF Read, BuildOK, BuildFields
  <2>2. BuildOK' /\ build'.read = Append(build.read, block) /\ build'.stage = "read" /\ build'.raw = build.raw
    BY <1>0, <2>1 DEF BuildOK, BuildFields
  <2>3. file \in Files /\ file # Absent /\ build.read \in Seq(BlockValues)
    BY <2>1 DEF Inv, FileOK, ReadOK
  <2>4. block \in BlockValues
    BY <2>1, <2>3, LifecycleAssumption DEF Files
  <2> HIDE DEF block
  <2>5. /\ build'.read \in Seq(BlockValues) /\ Len(build'.read) = Len(build.read) + 1
        /\ build'.read[Len(build.read) + 1] = block
    BY <2>2, <2>3, <2>4
  <2>6. FileOK' /\ DumpsOK' /\ ReadOK'
    BY <1>0, <2>1, <2>2, <2>3, <2>5, LifecycleAssumption DEF Inv, FileOK, DumpsOK, ReadOK
  <2>7. LastBlockSeals'
    BY <1>0, <2>3, <2>5 DEF Inv, LastBlockSeals, block
  <2>8. LoadIsWhole'
    BY <1>0, <2>2 DEF Inv, LoadIsWhole
  <2> QED
    BY <2>2, <2>6, <2>7, <2>8 DEF Inv
<1>3. CASE Load
  <2>1. CASE Loadable(build.read, Format)
    <3> DEFINE content == Content(build.read)
    <3>1. build' = [Idle EXCEPT !.stage = "loaded", !.raw = content] /\ Len(build.read) = Blocks
      BY <1>3, <2>1 DEF Load
    <3>2. content # Hole /\ content # Torn /\ content.format = Format
      BY <2>1 DEF Loadable
    <3>3. content = build.read[Blocks]
      <4>1. build.read \in Seq(BlockValues) /\ 1 \in DOMAIN build.read /\ Blocks \in DOMAIN build.read
        BY <3>1, LifecycleAssumption DEF Inv, ReadOK
      <4> QED
        BY <3>2, <4>1 DEF Content
    <3>4. content \in wrote
      BY <3>1, <3>2, <3>3 DEF Inv, LastBlockSeals
    <3> HIDE DEF content
    <3>5. BuildOK' /\ build'.read = << >> /\ build'.stage = "loaded" /\ build'.raw = content
      BY <3>1 DEF BuildOK, BuildFields, Idle
    <3> QED
      BY <1>0, <3>2, <3>4, <3>5, BuildMoves
  <2>2. CASE ~Loadable(build.read, Format)
    <3>1. build' = Idle
      BY <1>3, <2>2 DEF Load
    <3>2. BuildOK' /\ build'.read = << >> /\ build'.stage = "down" /\ build'.raw = Absent
      BY <3>1 DEF BuildOK, BuildFields, Idle
    <3> QED
      BY <1>0, <3>2, BuildMoves
  <2> QED
    BY <2>1, <2>2
<1>4. CASE Introspect
  <2>1. PICK c \in Introspected(db.state) :
          build' = [Idle EXCEPT !.stage = "loaded", !.raw = [catalog |-> c, format |-> Format], !.seen = db.ddls]
    BY <1>4 DEF Introspect
  <2>2. BuildOK' /\ build'.read = << >> /\ build'.stage = "loaded"
    BY <2>1 DEF BuildOK, BuildFields, Idle
  <2>3. ~("cache" \in config.mode /\ server = Absent) /\ server' = server
    BY <1>4 DEF Introspect
  <2> QED
    BY <1>0, <2>2, <2>3, BuildMoves
<1> QED
  BY <1>1, <1>2, <1>3, <1>4

LEMMA BuildStep ==
  ASSUME Inv, RunCatalogHooks \/ Generate \/ RunSchemaHook \/ Build
  PROVE  Inv'
PROOF
<1>0. UNCHANGED <<db, config, file, dump, wrote>> /\ BuildOK
  BY DEF Inv, RunCatalogHooks, Generate, RunSchemaHook, Build
<1>1. CASE RunCatalogHooks
  <2> DEFINE shaped == TransformCatalog(plugins, build.raw.catalog).c
  <2>1. build' = [build EXCEPT !.stage = "shaped", !.shaped = shaped] /\ server' = server
    BY <1>1 DEF RunCatalogHooks
  <2> HIDE DEF shaped
  <2>2. BuildOK' /\ build'.read = build.read /\ build'.raw = build.raw /\ build'.stage = "shaped"
    BY <1>0, <2>1 DEF BuildOK, BuildFields
  <2> QED
    BY <1>0, <2>1, <2>2, BuildMoves DEF Inv, LoadIsWhole
<1>2. CASE Generate
  <2> DEFINE b == New(plugins, build.shaped, config.plugins.opts)
  <2>1. build' = [build EXCEPT !.stage = "generated", !.todo = plugins.order, !.b = b] /\ server' = server
    BY <1>2 DEF Generate
  <2> HIDE DEF b
  <2>2. BuildOK' /\ build'.read = build.read /\ build'.raw = build.raw /\ build'.stage = "generated"
    BY <1>0, <2>1 DEF BuildOK, BuildFields
  <2> QED
    BY <1>0, <2>1, <2>2, BuildMoves DEF Inv, LoadIsWhole
<1>3. CASE RunSchemaHook
  <2> DEFINE b == SchemaHook(Head(build.todo), plugins, build.shaped, config.plugins.opts, build.b).b
  <2>1. build' = [build EXCEPT !.todo = Tail(build.todo), !.b = b] /\ build.stage = "generated" /\ server' = server
    BY <1>0, <1>3 DEF RunSchemaHook, BuildOK, BuildFields
  <2> HIDE DEF b
  <2>2. BuildOK' /\ build'.read = build.read /\ build'.raw = build.raw /\ build'.stage = "generated"
    BY <1>0, <2>1 DEF BuildOK, BuildFields
  <2> QED
    BY <1>0, <2>1, <2>2, BuildMoves DEF Inv, LoadIsWhole
<1>4. CASE Build
  <2>1. build' = [Idle EXCEPT !.seen = build.seen]
    BY <1>4 DEF Build
  <2>2. BuildOK' /\ build'.read = << >> /\ build'.raw = Absent /\ build'.stage = "down"
    BY <2>1 DEF BuildOK, BuildFields, Idle
  <2> QED
    BY <1>0, <2>2, BuildMoves
<1> QED
  BY <1>1, <1>2, <1>3, <1>4

LEMMA OtherStep ==
  ASSUME Inv, DDL \/ SchemaCheck \/ Arrive \/ Finish \/ UNCHANGED vars
  PROVE  Inv'
PROOF
<1>1. UNCHANGED <<config, file, dump, wrote, build, server>>
  BY DEF DDL, SchemaCheck, Arrive, Finish, vars
<1>2. db'.state \in DOMAIN Catalog
  <2>1. CASE DDL
    <3>1. PICK e \in Edits : db' = [state |-> e[2], ddls |-> db.ddls + 1]
      BY <2>1 DEF DDL
    <3>2. e[2] \in DOMAIN Catalog
      BY LifecycleAssumption
    <3> QED
      BY <3>1, <3>2
  <2>2. CASE SchemaCheck \/ Arrive \/ Finish \/ UNCHANGED vars
    BY <2>2 DEF SchemaCheck, Arrive, Finish, vars, Inv, FileOK
  <2> QED
    BY <2>1, <2>2
<1>3. FileOK' /\ DumpsOK'
  BY <1>1, <1>2 DEF Inv, FileOK, DumpsOK
<1> QED
  BY <1>1, <1>3, BuildUnchanged DEF Inv, LastBlockSeals

LEMMA StepInv == Inv /\ [Next]_vars => Inv'
PROOF
  BY DumpStep, LoadStep, BuildStep, OtherStep DEF Next

\* A boot from the cache file goes on only with a catalog of this version's format
\* that one dump wrote from its first block to its last (cache.Load of what
\* cache.Save leaves behind when dumps crash or overtake each other).
THEOREM LoadedAsWritten == Spec => []LoadIsWhole
PROOF
<1>1. Inv => LoadIsWhole
  BY DEF Inv
<1> QED
  BY InitInv, StepInv, <1>1, PTL DEF Spec
-----------------------------------------------------------------------------
\* Lists and the maps made of them are finite.

LEMMA ListFinite ==
  ASSUME NEW s, s \in Seq(ToSet(s))
  PROVE  IsFiniteSet(ToSet(s)) /\ IsFiniteSet(DOMAIN s)
PROOF
<1> DEFINE T == ToSet(s)
<1>1. Len(s) \in Nat /\ DOMAIN s = 1..Len(s) /\ s \in [1..Len(s) -> T]
  BY LenProperties
<1>2. \A x \in T : \E i \in 1..Len(s) : s[i] = x
  BY <1>1 DEF ToSet
<1>3. s \in Surjection(1..Len(s), T)
  BY <1>1, <1>2 DEF Surjection
<1>4. IsFiniteSet(1..Len(s))
  BY <1>1, FS_Interval
<1> HIDE DEF T
<1>5. IsFiniteSet(T)
  BY <1>3, <1>4, FS_Surjection
<1> QED
  BY <1>1, <1>4, <1>5 DEF T

LEMMA ImageFinite ==
  ASSUME NEW S, IsFiniteSet(S), NEW f, NEW T, T = {f[x] : x \in S}
  PROVE  IsFiniteSet(T)
PROOF
<1> DEFINE g == [x \in S |-> f[x]]
<1>1. g \in Surjection(S, T)
  BY DEF Surjection
<1> HIDE DEF g
<1> QED
  BY <1>1, FS_Surjection

\* A difference has lines of its own, finitely many.
Drift == <<"schema drift detected">>
Line(x) == x # Drift
Lines(S, differ) == IsFiniteSet(S) /\ (differ => \E x \in S : Line(x)) /\ (~differ => S = {})

LEMMA TripleIsLine == \A a, b, c : Line(<<a, b, c>>)
PROOF
<1> SUFFICES ASSUME NEW a, NEW b, NEW c PROVE <<a, b, c>> # <<"schema drift detected">>
  BY DEF Line, Drift
<1>1. Len(<<a, b, c>>) = 3 /\ Len(<<"schema drift detected">>) = 1
  OBVIOUS
<1> QED
  BY <1>1

LEMMA DomainLines ==
  ASSUME NEW kind, NEW was, NEW is, IsFiniteSet(DOMAIN was), IsFiniteSet(DOMAIN is)
  PROVE  Lines(AddedOrRemoved(kind, was, is), DOMAIN was # DOMAIN is)
PROOF
<1> DEFINE W == DOMAIN was
           I == DOMAIN is
           R == {<<kind, k, "removed">> : k \in W \ I}
           A == {<<kind, k, "added">> : k \in I \ W}
<1> HIDE DEF W, I
<1>1. IsFiniteSet(W \ I) /\ IsFiniteSet(I \ W)
  BY FS_Subset DEF W, I
<1>2. IsFiniteSet(R)
  <2> DEFINE f == [k \in W \ I |-> <<kind, k, "removed">>]
  <2>1. R = {f[k] : k \in W \ I}
    OBVIOUS
  <2> HIDE DEF f, R
  <2> QED
    BY <1>1, <2>1, ImageFinite
<1>3. IsFiniteSet(A)
  <2> DEFINE f == [k \in I \ W |-> <<kind, k, "added">>]
  <2>1. A = {f[k] : k \in I \ W}
    OBVIOUS
  <2> HIDE DEF f, A
  <2> QED
    BY <1>1, <2>1, ImageFinite
<1>4. W # I => \E x \in R \cup A : Line(x)
  <2> SUFFICES ASSUME W # I PROVE \E x \in R \cup A : Line(x)
    OBVIOUS
  <2>1. PICK k : k \in W \ I \/ k \in I \ W
    OBVIOUS
  <2>2. <<kind, k, "removed">> \in R \/ <<kind, k, "added">> \in A
    BY <2>1
  <2> QED
    BY <2>2, TripleIsLine
<1>5. W = I => R \cup A = {}
  OBVIOUS
<1>6. AddedOrRemoved(kind, was, is) = R \cup A
  BY DEF AddedOrRemoved, W, I
<1> HIDE DEF R, A
<1>7. IsFiniteSet(R \cup A)
  BY <1>2, <1>3, FS_Union
<1> QED
  BY <1>4, <1>5, <1>6, <1>7 DEF Lines, W, I

LEMMA NamedLines ==
  ASSUME NEW kind, NEW was, NEW is, IsFiniteSet(DOMAIN was), IsFiniteSet(DOMAIN is),
         was = [k \in DOMAIN was |-> was[k]], is = [k \in DOMAIN is |-> is[k]]
  PROVE  Lines(DiffNamed(kind, was, is), was # is)
PROOF
<1> DEFINE D == {x \in DOMAIN was \cap DOMAIN is : was[x] # is[x]}
           C == {<<kind, k, "changed">> : k \in D}
           M == AddedOrRemoved(kind, was, is)
<1>1. Lines(M, DOMAIN was # DOMAIN is)
  BY DomainLines
<1>2. IsFiniteSet(D)
  BY FS_Subset
<1>3. IsFiniteSet(C)
  <2> DEFINE f == [k \in D |-> <<kind, k, "changed">>]
  <2>1. C = {f[k] : k \in D}
    OBVIOUS
  <2> HIDE DEF f, C, D
  <2> QED
    BY <1>2, <2>1, ImageFinite
<1>4. DiffNamed(kind, was, is) = M \cup C
  BY DEF DiffNamed
<1>5. ASSUME DOMAIN was = DOMAIN is, was # is PROVE \E x \in C : Line(x)
  <2>1. PICK k \in DOMAIN was : was[k] # is[k]
    BY <1>5
  <2>2. <<kind, k, "changed">> \in C
    BY <1>5, <2>1
  <2> QED
    BY <2>2, TripleIsLine
<1>6. was = is => DOMAIN was = DOMAIN is /\ C = {}
  OBVIOUS
<1> HIDE DEF C, M, D
<1>7. IsFiniteSet(M \cup C)
  BY <1>1, <1>3, FS_Union DEF Lines
<1> QED
  BY <1>1, <1>4, <1>5, <1>6, <1>7 DEF Lines

\* A map by key says which objects there are, if keys tell them apart.
LEMMA KeyedApart ==
  ASSUME NEW xs, NEW ys, xs \in Seq(ToSet(xs)), ys \in Seq(ToSet(ys)),
         \A a, b \in ToSet(xs) : Key(a) = Key(b) => a = b,
         \A a, b \in ToSet(ys) : Key(a) = Key(b) => a = b
  PROVE  /\ IsFiniteSet(DOMAIN ByKey(xs)) /\ IsFiniteSet(DOMAIN ByKey(ys))
         /\ ByKey(xs) = [k \in DOMAIN ByKey(xs) |-> ByKey(xs)[k]]
         /\ ByKey(ys) = [k \in DOMAIN ByKey(ys) |-> ByKey(ys)[k]]
         /\ (ByKey(xs) = ByKey(ys)) <=> (ToSet(xs) = ToSet(ys))
PROOF
<1>1. ASSUME NEW s, s \in Seq(ToSet(s)), \A a, b \in ToSet(s) : Key(a) = Key(b) => a = b
      PROVE  /\ IsFiniteSet(DOMAIN ByKey(s))
             /\ \A x \in ToSet(s) : Key(x) \in DOMAIN ByKey(s) /\ ByKey(s)[Key(x)] = x
             /\ \A k \in DOMAIN ByKey(s) : ByKey(s)[k] \in ToSet(s)
  <2> DEFINE f == [x \in ToSet(s) |-> Key(x)]
  <2>1. DOMAIN ByKey(s) = {f[x] : x \in ToSet(s)}
    BY DEF ByKey
  <2> HIDE DEF f
  <2>2. IsFiniteSet(DOMAIN ByKey(s))
    BY <1>1, <2>1, ListFinite, ImageFinite
  <2>3. ASSUME NEW x \in ToSet(s) PROVE Key(x) \in DOMAIN ByKey(s) /\ ByKey(s)[Key(x)] = x
    <3>1. Key(x) \in DOMAIN ByKey(s)
      BY DEF ByKey
    <3>2. ByKey(s)[Key(x)] = CHOOSE y \in ToSet(s) : Key(y) = Key(x)
      BY <3>1 DEF ByKey
    <3> QED
      BY <1>1, <3>1, <3>2
  <2>4. ASSUME NEW k \in DOMAIN ByKey(s) PROVE ByKey(s)[k] \in ToSet(s)
    <3>1. PICK x \in ToSet(s) : Key(x) = k
      BY DEF ByKey
    <3> QED
      BY <2>3, <3>1
  <2> QED
    BY <2>2, <2>3, <2>4
<1>2. ToSet(xs) = ToSet(ys) => ByKey(xs) = ByKey(ys)
  BY DEF ByKey
<1>3. ASSUME ByKey(xs) = ByKey(ys) PROVE ToSet(xs) = ToSet(ys)
  <2>1. \A x \in ToSet(xs) : x \in ToSet(ys)
    BY <1>1, <1>3
  <2>2. \A x \in ToSet(ys) : x \in ToSet(xs)
    BY <1>1, <1>3
  <2> QED
    BY <2>1, <2>2
<1>4. /\ ByKey(xs) = [k \in DOMAIN ByKey(xs) |-> ByKey(xs)[k]]
      /\ ByKey(ys) = [k \in DOMAIN ByKey(ys) |-> ByKey(ys)[k]]
  BY DEF ByKey
<1> QED
  BY <1>1, <1>2, <1>3, <1>4

\* Of functions, only if signatures do.
LEMMA SignedApart ==
  ASSUME NEW xs, NEW ys, xs \in Seq(ToSet(xs)), ys \in Seq(ToSet(ys))
  PROVE  /\ IsFiniteSet(DOMAIN BySignature(xs)) /\ IsFiniteSet(DOMAIN BySignature(ys))
         /\ BySignature(xs) = [k \in DOMAIN BySignature(xs) |-> BySignature(xs)[k]]
         /\ BySignature(ys) = [k \in DOMAIN BySignature(ys) |-> BySignature(ys)[k]]
         /\ ToSet(xs) = ToSet(ys) => BySignature(xs) = BySignature(ys)
         /\ (/\ \A a, b \in ToSet(xs) : Signature(a) = Signature(b) => a = b
             /\ \A a, b \in ToSet(ys) : Signature(a) = Signature(b) => a = b
             /\ BySignature(xs) = BySignature(ys)) => ToSet(xs) = ToSet(ys)
PROOF
<1>1. ASSUME NEW s, s \in Seq(ToSet(s))
      PROVE  /\ IsFiniteSet(DOMAIN BySignature(s))
             /\ \A x \in ToSet(s) : Signature(x) \in DOMAIN BySignature(s)
             /\ \A k \in DOMAIN BySignature(s) : BySignature(s)[k] \in ToSet(s) /\ Signature(BySignature(s)[k]) = k
  <2> DEFINE f == [x \in ToSet(s) |-> Signature(x)]
  <2>1. DOMAIN BySignature(s) = {f[x] : x \in ToSet(s)}
    BY DEF BySignature
  <2> HIDE DEF f
  <2>2. IsFiniteSet(DOMAIN BySignature(s))
    BY <1>1, <2>1, ListFinite, ImageFinite
  <2>3. ASSUME NEW k \in DOMAIN BySignature(s)
        PROVE  BySignature(s)[k] \in ToSet(s) /\ Signature(BySignature(s)[k]) = k
    <3>1. \E x \in ToSet(s) : Signature(x) = k
      BY DEF BySignature
    <3>2. BySignature(s)[k] = CHOOSE x \in ToSet(s) : Signature(x) = k
      BY DEF BySignature
    <3> QED
      BY <3>1, <3>2
  <2>4. \A x \in ToSet(s) : Signature(x) \in DOMAIN BySignature(s)
    BY DEF BySignature
  <2> QED
    BY <2>2, <2>3, <2>4
<1>2. ToSet(xs) = ToSet(ys) => BySignature(xs) = BySignature(ys)
  BY DEF BySignature
<1>3. ASSUME BySignature(xs) = BySignature(ys),
             \A a, b \in ToSet(xs) : Signature(a) = Signature(b) => a = b,
             \A a, b \in ToSet(ys) : Signature(a) = Signature(b) => a = b
      PROVE  ToSet(xs) = ToSet(ys)
  <2> DEFINE m == BySignature(xs)
  <2>0. m = BySignature(xs) /\ m = BySignature(ys)
    BY <1>3
  <2> HIDE DEF m
  <2>1. ASSUME NEW x \in ToSet(xs) PROVE x \in ToSet(ys)
    <3>1. Signature(x) \in DOMAIN m /\ m[Signature(x)] \in ToSet(xs) /\ Signature(m[Signature(x)]) = Signature(x)
      BY <1>1, <2>0
    <3>2. m[Signature(x)] = x
      BY <1>3, <3>1
    <3>3. m[Signature(x)] \in ToSet(ys)
      BY <1>1, <2>0, <3>1
    <3> QED
      BY <3>2, <3>3
  <2>2. ASSUME NEW x \in ToSet(ys) PROVE x \in ToSet(xs)
    <3>1. Signature(x) \in DOMAIN m /\ m[Signature(x)] \in ToSet(ys) /\ Signature(m[Signature(x)]) = Signature(x)
      BY <1>1, <2>0
    <3>2. m[Signature(x)] = x
      BY <1>3, <3>1
    <3>3. m[Signature(x)] \in ToSet(xs)
      BY <1>1, <2>0, <3>1
    <3> QED
      BY <3>2, <3>3
  <2> QED
    BY <2>1, <2>2
<1>4. /\ BySignature(xs) = [k \in DOMAIN BySignature(xs) |-> BySignature(xs)[k]]
      /\ BySignature(ys) = [k \in DOMAIN BySignature(ys) |-> BySignature(ys)[k]]
  BY DEF BySignature
<1> QED
  BY <1>1, <1>2, <1>3, <1>4

-----------------------------------------------------------------------------
\* What the parts of Diff say.

LEMMA TableLines ==
  ASSUME NEW k, NEW was, NEW is, was.columns \in Seq(ToSet(was.columns)), is.columns \in Seq(ToSet(is.columns))
  PROVE  Lines(DiffTable(k, was, is), was # is)
PROOF
<1> DEFINE cw == [x \in {k} \X ColumnNames(was) |-> Column(was, x[2])]
           ci == [x \in {k} \X ColumnNames(is) |-> Column(is, x[2])]
           lines == DiffNamed("column", cw, ci)
<1>1. ASSUME NEW t, t.columns \in Seq(ToSet(t.columns)) PROVE IsFiniteSet({k} \X ColumnNames(t))
  <2> DEFINE f == [i \in DOMAIN t.columns |-> t.columns[i].name]
             D == DOMAIN t.columns
  <2>1. ColumnNames(t) = {f[i] : i \in D}
    BY DEF ColumnNames
  <2>2. IsFiniteSet(D)
    BY <1>1, ListFinite
  <2> HIDE DEF f, D
  <2>3. IsFiniteSet(ColumnNames(t))
    BY <2>1, <2>2, ImageFinite
  <2>4. IsFiniteSet({k})
    BY FS_Singleton
  <2> QED
    BY <2>3, <2>4, FS_Product
<1>2. IsFiniteSet(DOMAIN cw) /\ IsFiniteSet(DOMAIN ci)
  BY <1>1
<1>3. cw = [x \in DOMAIN cw |-> cw[x]] /\ ci = [x \in DOMAIN ci |-> ci[x]] /\ (was = is => cw = ci)
  OBVIOUS
<1>4. DiffTable(k, was, is) = IF lines = {} /\ was # is THEN {<<"table", k, "changed">>} ELSE lines
  BY DEF DiffTable
<1> HIDE DEF cw, ci
<1>5. Lines(lines, cw # ci)
  BY <1>2, <1>3, NamedLines
<1> HIDE DEF lines
<1>6. IsFiniteSet({<<"table", k, "changed">>}) /\ Line(<<"table", k, "changed">>)
  BY FS_Singleton, TripleIsLine
<1> QED
  BY <1>3, <1>4, <1>5, <1>6 DEF Lines

LEMMA UnionFinite ==
  ASSUME NEW D, IsFiniteSet(D), NEW f, \A k \in D : IsFiniteSet(f[k])
  PROVE  IsFiniteSet(UNION {f[k] : k \in D})
PROOF
<1> DEFINE C == {f[k] : k \in D}
<1>1. \A T \in C : IsFiniteSet(T)
  OBVIOUS
<1>2. C = {f[k] : k \in D}
  OBVIOUS
<1> HIDE DEF C
<1>3. IsFiniteSet(C)
  BY <1>2, ImageFinite
<1> QED
  BY <1>1, <1>2, <1>3, FS_UNION

Columned(m) == \A k \in DOMAIN m : m[k].columns \in Seq(ToSet(m[k].columns))

LEMMA TablesLines ==
  ASSUME NEW was, NEW is, IsFiniteSet(DOMAIN was), IsFiniteSet(DOMAIN is),
         was = [k \in DOMAIN was |-> was[k]], is = [k \in DOMAIN is |-> is[k]],
         Columned(was), Columned(is)
  PROVE  Lines(DiffTables(was, is), was # is)
PROOF
<1> DEFINE D == DOMAIN was \cap DOMAIN is
           f == [k \in D |-> DiffTable(k, was[k], is[k])]
           C == {f[k] : k \in D}
           M == AddedOrRemoved("table", was, is)
<1>1. Lines(M, DOMAIN was # DOMAIN is)
  BY DomainLines
<1>2. IsFiniteSet(D)
  BY FS_Subset
<1>3. \A k \in D : Lines(f[k], was[k] # is[k])
  BY TableLines DEF Columned
<1>4. DiffTables(was, is) = M \cup UNION C
  <2>1. C = {DiffTable(k, was[k], is[k]) : k \in DOMAIN was \cap DOMAIN is}
    OBVIOUS
  <2> QED
    BY <2>1 DEF DiffTables
<1>5. ASSUME DOMAIN was = DOMAIN is, was # is PROVE \E x \in UNION C : Line(x)
  <2>1. PICK k \in DOMAIN was : was[k] # is[k]
    BY <1>5
  <2>2. k \in D
    BY <1>5, <2>1
  <2> HIDE DEF f, D
  <2>3. PICK x \in f[k] : Line(x)
    BY <1>3, <2>1, <2>2 DEF Lines
  <2>4. x \in UNION C
    BY <2>2, <2>3
  <2> QED
    BY <2>3, <2>4
<1>6. was = is => DOMAIN was = DOMAIN is /\ \A k \in D : f[k] = {}
  BY <1>3 DEF Lines
<1> HIDE DEF f, D, M
<1>7. IsFiniteSet(UNION C)
  <2>1. \A k \in D : IsFiniteSet(f[k])
    BY <1>3 DEF Lines
  <2> QED
    BY <1>2, <2>1, UnionFinite
<1>8. was = is => UNION C = {}
  BY <1>6
<1> HIDE DEF C
<1>9. IsFiniteSet(M \cup UNION C)
  BY <1>1, <1>7, FS_Union DEF Lines
<1> QED
  BY <1>1, <1>4, <1>5, <1>6, <1>8, <1>9 DEF Lines

\* Catalogs that differ at most in the order of their lists.
SameParts(x, y) ==
  /\ x.server = y.server
  /\ ToSet(x.schemas) = ToSet(y.schemas)
  /\ ToSet(x.tables) = ToSet(y.tables)
  /\ ToSet(x.enums) = ToSet(y.enums)
  /\ ToSet(x.composites) = ToSet(y.composites)
  /\ ToSet(x.functions) = ToSet(y.functions)

LEMMA HashTells ==
  ASSUME NEW x, NEW y, Introspectable(x), Introspectable(y)
  PROVE  (SameUpToOrder(x, y) <=> SameParts(x, y)) /\ (Hash(x) = Hash(y) => SameUpToOrder(x, y))
PROOF
<1> DEFINE Parts(c) == [server |-> c.server, schemas |-> ToSet(c.schemas), tables |-> ToSet(c.tables), enums |-> ToSet(c.enums),
                        composites |-> ToSet(c.composites), functions |-> ToSet(c.functions)]
<1>1. ASSUME NEW c, Introspectable(c)
      PROVE  [Hash(c) EXCEPT !.functions = ToSet(@)] = Parts(c)
  <2> DEFINE v == c.server
             ss == c.schemas
             ts == c.tables
             es == c.enums
             cs == c.composites
             fs == c.functions
  <2>1. c = [server |-> v, schemas |-> ss, tables |-> ts, enums |-> es, composites |-> cs, functions |-> fs]
    BY <1>1 DEF Introspectable, CatalogParts
  <2> HIDE DEF v, ss, ts, es, cs, fs
  <2>2. Hash(c) = [server |-> v, schemas |-> ToSet(ss), tables |-> ToSet(ts), enums |-> ToSet(es),
                   composites |-> ToSet(cs), functions |-> fs]
    <3> DEFINE r(a, b, d, e) == [server |-> v, schemas |-> a, tables |-> b, enums |-> d, composites |-> e, functions |-> fs]
    <3>1. c.schemas = ss /\ c.tables = ts /\ c.enums = es /\ c.composites = cs
      BY <2>1
    <3>2. [c EXCEPT !.schemas = ToSet(c.schemas)] = r(ToSet(ss), ts, es, cs)
      BY <2>1, <3>1
    <3>3. [r(ToSet(ss), ts, es, cs) EXCEPT !.tables = ToSet(c.tables)] = r(ToSet(ss), ToSet(ts), es, cs)
      BY <3>1
    <3>4. [r(ToSet(ss), ToSet(ts), es, cs) EXCEPT !.enums = ToSet(c.enums)] = r(ToSet(ss), ToSet(ts), ToSet(es), cs)
      BY <3>1
    <3>5. [r(ToSet(ss), ToSet(ts), ToSet(es), cs) EXCEPT !.composites = ToSet(c.composites)]
            = r(ToSet(ss), ToSet(ts), ToSet(es), ToSet(cs))
      BY <3>1
    <3> QED
      BY <3>2, <3>3, <3>4, <3>5, Zenon DEF Hash
  <2>3. [Hash(c) EXCEPT !.functions = ToSet(@)]
          = [server |-> v, schemas |-> ToSet(ss), tables |-> ToSet(ts), enums |-> ToSet(es),
             composites |-> ToSet(cs), functions |-> ToSet(fs)]
    BY <2>2
  <2> QED
    BY <2>3 DEF v, ss, ts, es, cs, fs
<1>2. SameUpToOrder(x, y) <=> Parts(x) = Parts(y)
  BY <1>1 DEF SameUpToOrder
<1>3. Parts(x) = Parts(y) <=> SameParts(x, y)
  BY DEF SameParts
<1> QED
  BY <1>2, <1>3 DEF SameUpToOrder

LEMMA DiffTells ==
  ASSUME NEW x, NEW y, Introspectable(x), Introspectable(y)
  PROVE  /\ IsFiniteSet(Diff(x, y))
         /\ SameParts(x, y) => Diff(x, y) = {}
         /\ ~SameParts(x, y) /\ SignaturesDiffer(x) /\ SignaturesDiffer(y) => \E d \in Diff(x, y) : Line(d)
PROOF
<1> DEFINE V == IF x.server # y.server THEN {<<"server version">>} ELSE {}
           S == AddedOrRemoved("schema", [s \in ToSet(x.schemas) |-> s], [s \in ToSet(y.schemas) |-> s])
           T == DiffTables(ByKey(x.tables), ByKey(y.tables))
           E == DiffNamed("enum", ByKey(x.enums), ByKey(y.enums))
           C == DiffNamed("composite type", ByKey(x.composites), ByKey(y.composites))
           F == DiffNamed("function", BySignature(x.functions), BySignature(y.functions))
<1>0. Diff(x, y) = V \cup S \cup T \cup E \cup C \cup F
  BY DEF Diff
<1>1. Lines(V, x.server # y.server)
  <2>1. <<"server version">> # <<"schema drift detected">>
    OBVIOUS
  <2> QED
    BY <2>1, FS_Singleton, FS_EmptySet DEF Lines, Line, Drift
<1>2. Lines(S, ToSet(x.schemas) # ToSet(y.schemas))
  <2> DEFINE was == [s \in ToSet(x.schemas) |-> s]
             is == [s \in ToSet(y.schemas) |-> s]
  <2>1. DOMAIN was = ToSet(x.schemas) /\ DOMAIN is = ToSet(y.schemas)
    OBVIOUS
  <2>2. IsFiniteSet(ToSet(x.schemas)) /\ IsFiniteSet(ToSet(y.schemas))
    BY ListFinite DEF Introspectable, CatalogParts
  <2> HIDE DEF was, is
  <2>3. Lines(AddedOrRemoved("schema", was, is), DOMAIN was # DOMAIN is)
    BY <2>1, <2>2, DomainLines
  <2> QED
    BY <2>1, <2>3 DEF was, is
<1>3. ASSUME NEW part \in {"tables", "enums", "composites"}
      PROVE  /\ x[part] \in Seq(ToSet(x[part])) /\ y[part] \in Seq(ToSet(y[part]))
             /\ \A a, b \in ToSet(x[part]) : Key(a) = Key(b) => a = b
             /\ \A a, b \in ToSet(y[part]) : Key(a) = Key(b) => a = b
  BY DEF Introspectable, CatalogParts
<1>4. Lines(T, ToSet(x.tables) # ToSet(y.tables))
  <2> DEFINE was == ByKey(x.tables)
             is == ByKey(y.tables)
  <2>1. /\ x.tables \in Seq(ToSet(x.tables)) /\ y.tables \in Seq(ToSet(y.tables))
        /\ \A a, b \in ToSet(x.tables) : Key(a) = Key(b) => a = b
        /\ \A a, b \in ToSet(y.tables) : Key(a) = Key(b) => a = b
    BY <1>3
  <2>2. /\ IsFiniteSet(DOMAIN was) /\ IsFiniteSet(DOMAIN is)
        /\ was = [k \in DOMAIN was |-> was[k]] /\ is = [k \in DOMAIN is |-> is[k]]
        /\ (was = is) <=> (ToSet(x.tables) = ToSet(y.tables))
    BY <2>1, KeyedApart
  <2>3. \A k \in DOMAIN was : was[k] \in ToSet(x.tables)
    BY DEF ByKey
  <2>4. \A k \in DOMAIN is : is[k] \in ToSet(y.tables)
    BY DEF ByKey
  <2>5. /\ \A t \in ToSet(x.tables) : t.columns \in Seq(ToSet(t.columns))
        /\ \A t \in ToSet(y.tables) : t.columns \in Seq(ToSet(t.columns))
    BY DEF Introspectable
  <2> HIDE DEF was, is
  <2>6. Columned(was) /\ Columned(is)
    BY <2>3, <2>4, <2>5 DEF Columned
  <2>7. Lines(DiffTables(was, is), was # is)
    BY <2>2, <2>6, TablesLines
  <2> QED
    BY <2>2, <2>7 DEF was, is
<1>5. Lines(E, ToSet(x.enums) # ToSet(y.enums))
  <2> DEFINE was == ByKey(x.enums)
             is == ByKey(y.enums)
  <2>1. /\ x.enums \in Seq(ToSet(x.enums)) /\ y.enums \in Seq(ToSet(y.enums))
        /\ \A a, b \in ToSet(x.enums) : Key(a) = Key(b) => a = b
        /\ \A a, b \in ToSet(y.enums) : Key(a) = Key(b) => a = b
    BY <1>3
  <2>2. /\ IsFiniteSet(DOMAIN was) /\ IsFiniteSet(DOMAIN is)
        /\ was = [k \in DOMAIN was |-> was[k]] /\ is = [k \in DOMAIN is |-> is[k]]
        /\ (was = is) <=> (ToSet(x.enums) = ToSet(y.enums))
    BY <2>1, KeyedApart
  <2> HIDE DEF was, is
  <2>3. Lines(DiffNamed("enum", was, is), was # is)
    BY <2>2, NamedLines
  <2> QED
    BY <2>2, <2>3 DEF was, is
<1>6. Lines(C, ToSet(x.composites) # ToSet(y.composites))
  <2> DEFINE was == ByKey(x.composites)
             is == ByKey(y.composites)
  <2>1. /\ x.composites \in Seq(ToSet(x.composites)) /\ y.composites \in Seq(ToSet(y.composites))
        /\ \A a, b \in ToSet(x.composites) : Key(a) = Key(b) => a = b
        /\ \A a, b \in ToSet(y.composites) : Key(a) = Key(b) => a = b
    BY <1>3
  <2>2. /\ IsFiniteSet(DOMAIN was) /\ IsFiniteSet(DOMAIN is)
        /\ was = [k \in DOMAIN was |-> was[k]] /\ is = [k \in DOMAIN is |-> is[k]]
        /\ (was = is) <=> (ToSet(x.composites) = ToSet(y.composites))
    BY <2>1, KeyedApart
  <2> HIDE DEF was, is
  <2>3. Lines(DiffNamed("composite type", was, is), was # is)
    BY <2>2, NamedLines
  <2> QED
    BY <2>2, <2>3 DEF was, is
<1>7. /\ IsFiniteSet(F) /\ (ToSet(x.functions) = ToSet(y.functions) => F = {})
      /\ ToSet(x.functions) # ToSet(y.functions) /\ SignaturesDiffer(x) /\ SignaturesDiffer(y) => \E d \in F : Line(d)
  <2> DEFINE was == BySignature(x.functions)
             is == BySignature(y.functions)
  <2>1. x.functions \in Seq(ToSet(x.functions)) /\ y.functions \in Seq(ToSet(y.functions))
    BY DEF Introspectable, CatalogParts
  <2>2. /\ IsFiniteSet(DOMAIN was) /\ IsFiniteSet(DOMAIN is)
        /\ was = [k \in DOMAIN was |-> was[k]] /\ is = [k \in DOMAIN is |-> is[k]]
        /\ ToSet(x.functions) = ToSet(y.functions) => was = is
        /\ SignaturesDiffer(x) /\ SignaturesDiffer(y) /\ was = is => ToSet(x.functions) = ToSet(y.functions)
    BY <2>1, SignedApart DEF SignaturesDiffer
  <2> HIDE DEF was, is
  <2>3. Lines(DiffNamed("function", was, is), was # is)
    BY <2>2, NamedLines
  <2> QED
    BY <2>2, <2>3 DEF was, is, Lines
<1> HIDE DEF V, S, T, E, C, F
<1>8. IsFiniteSet(V \cup S \cup T \cup E \cup C \cup F)
  <2>1. IsFiniteSet(V \cup S)
    BY <1>1, <1>2, FS_Union DEF Lines
  <2>2. IsFiniteSet(V \cup S \cup T)
    BY <2>1, <1>4, FS_Union DEF Lines
  <2>3. IsFiniteSet(V \cup S \cup T \cup E)
    BY <2>2, <1>5, FS_Union DEF Lines
  <2>4. IsFiniteSet(V \cup S \cup T \cup E \cup C)
    BY <2>3, <1>6, FS_Union DEF Lines
  <2> QED
    BY <2>4, <1>7, FS_Union
<1>9. SameParts(x, y) => V \cup S \cup T \cup E \cup C \cup F = {}
  BY <1>1, <1>2, <1>4, <1>5, <1>6, <1>7 DEF Lines, SameParts
<1>10. ASSUME ~SameParts(x, y), SignaturesDiffer(x), SignaturesDiffer(y)
       PROVE  \E d \in V \cup S \cup T \cup E \cup C \cup F : Line(d)
  <2>1. \/ x.server # y.server \/ ToSet(x.schemas) # ToSet(y.schemas) \/ ToSet(x.tables) # ToSet(y.tables)
        \/ ToSet(x.enums) # ToSet(y.enums) \/ ToSet(x.composites) # ToSet(y.composites)
        \/ ToSet(x.functions) # ToSet(y.functions)
    BY <1>10 DEF SameParts
  <2>2. \/ \E d \in V : Line(d)
        \/ \E d \in S : Line(d)
        \/ \E d \in T : Line(d)
        \/ \E d \in E : Line(d)
        \/ \E d \in C : Line(d)
        \/ \E d \in F : Line(d)
    BY <2>1, <1>1, <1>2, <1>4, <1>5, <1>6, <1>7, <1>10 DEF Lines
  <2> QED
    BY <2>2
<1> QED
  BY <1>0, <1>8, <1>9, <1>10

\* Check says whether there is drift, and Diff which.
LEMMA CheckTells ==
  ASSUME NEW x, NEW y, Introspectable(x), Introspectable(y)
  PROVE  Tells(x, y, Check(x, y))
PROOF
<1>1. CASE SameUpToOrder(x, y)
  <2>1. Diff(x, y) = {}
    BY <1>1, HashTells, DiffTells
  <2> QED
    BY <1>1, <2>1 DEF Check, Tells
<1>2. CASE ~SameUpToOrder(x, y)
  <2> SUFFICES ASSUME SignaturesDiffer(x), SignaturesDiffer(y) PROVE Cardinality(Check(x, y)) > 1
    BY <1>2 DEF Tells
  <2>1. ~SameParts(x, y) /\ Hash(x) # Hash(y)
    BY <1>2, HashTells
  <2>2. Check(x, y) = {Drift} \cup Diff(x, y)
    BY <2>1 DEF Check, Drift
  <2>3. PICK d \in Diff(x, y) : d # Drift
    BY <2>1, DiffTells DEF Line
  <2> DEFINE two == {Drift} \cup {d}
  <2>4. Cardinality({Drift}) = 1 /\ IsFiniteSet({Drift})
    BY FS_Singleton
  <2>5. Cardinality(two) = 2
    BY <2>3, <2>4, FS_AddElement
  <2>6. IsFiniteSet(Check(x, y))
    BY <2>2, <2>4, DiffTells, FS_Union
  <2>7. two \in SUBSET Check(x, y)
    BY <2>2, <2>3
  <2> HIDE DEF two
  <2>8. Cardinality(two) <= Cardinality(Check(x, y)) /\ Cardinality(Check(x, y)) \in Nat
    BY <2>6, <2>7, FS_Subset, FS_CardinalityType
  <2> QED
    BY <2>5, <2>8
<1> QED
  BY <1>1, <1>2
-----------------------------------------------------------------------------
\* Introspection returns lists whatever the order of the overloads.
LEMMA VersionsIntrospectable ==
  ASSUME NEW v \in Versions
  PROVE  Introspectable(v)
PROOF
<1>1. CASE \E n \in DOMAIN Catalog : v = Catalog[n]
  BY <1>1, CatalogAssumption
<1>2. CASE \E n \in DOMAIN Catalog : v \in Introspected(n)
  <2>1. PICK n \in DOMAIN Catalog : v \in Introspected(n)
    BY <1>2
  <2> DEFINE c == Catalog[n]
             F == ToSet(c.functions)
  <2>2. Introspectable(c)
    BY CatalogAssumption
  <2>3. PICK fs \in SetToSeqs(F) : v = [c EXCEPT !.functions = fs]
    BY <2>1 DEF Introspected
  <2>4. Cardinality(F) \in Nat
    <3>1. c.functions \in Seq(ToSet(c.functions))
      BY <2>2 DEF Introspectable, CatalogParts
    <3> QED
      BY <3>1, ListFinite, FS_CardinalityType
  <2>5. fs \in [1..Cardinality(F) -> F]
    BY <2>3 DEF SetToSeqs
  <2> HIDE DEF F
  <2>6. fs \in Seq(ToSet(fs))
    <3>1. fs \in [1..Cardinality(F) -> ToSet(fs)]
      BY <2>5 DEF ToSet
    <3> QED
      BY <2>4, <3>1
  <2> HIDE DEF c
  <2>7. /\ v = [part \in CatalogParts |-> v[part]] /\ v.functions = fs
        /\ \A part \in CatalogParts \ {"functions"} : v[part] = c[part]
    BY <2>2, <2>3 DEF Introspectable, CatalogParts
  <2>8. \A part \in CatalogParts \ {"server"} : v[part] \in Seq(ToSet(v[part]))
    <3>1. \A part \in CatalogParts \ {"server", "functions"} : c[part] \in Seq(ToSet(c[part]))
      BY <2>2 DEF Introspectable
    <3> SUFFICES ASSUME NEW part \in CatalogParts \ {"server"} PROVE v[part] \in Seq(ToSet(v[part]))
      OBVIOUS
    <3>2. CASE part = "functions"
      BY <2>6, <2>7, <3>2
    <3>3. CASE part # "functions"
      BY <2>7, <3>1, <3>3
    <3> QED
      BY <3>2, <3>3
  <2>9. \A part \in {"tables", "enums", "composites"} : v[part] = c[part]
    BY <2>7 DEF CatalogParts
  <2>10. /\ \A part \in {"tables", "enums", "composites"} : \A x, y \in ToSet(v[part]) : Key(x) = Key(y) => x = y
         /\ \A t \in ToSet(v.tables) : t.columns \in Seq(ToSet(t.columns))
    BY <2>2, <2>9 DEF Introspectable
  <2> QED
    BY <2>7, <2>8, <2>10 DEF Introspectable
<1> QED
  BY <1>1, <1>2 DEF Versions

\* A report is what Check said of a catalog that a file held and one introspected.
ReportOK ==
  report # Absent =>
    Introspectable(report.cached) /\ Introspectable(report.live) /\ report.lines = Check(report.cached, report.live)

\* What a file that loads holds was a catalog of the database once.
LEMMA LoadableIsVersion ==
  ASSUME NEW blocks \in Files, Loadable(blocks, Format)
  PROVE  Content(blocks).catalog \in Versions
PROOF
<1> DEFINE content == Content(blocks)
<1>1. content # Hole /\ content # Torn
  BY DEF Loadable
<1>2. content = blocks[1]
  BY <1>1 DEF Content
<1>3. blocks[1] \in BlockValues
  BY LifecycleAssumption DEF Files
<1>4. content \in Contents
  BY <1>1, <1>2, <1>3 DEF BlockValues
<1> QED
  BY <1>4 DEF Contents

LEMMA CheckStep ==
  ASSUME Inv, ReportOK, [Next]_vars
  PROVE  ReportOK'
PROOF
<1>1. CASE SchemaCheck
  <2>1. file \in Files /\ Loadable(file, Format) /\ db.state \in DOMAIN Catalog
    BY <1>1 DEF SchemaCheck, Inv, FileOK
  <2>2. PICK c \in Introspected(db.state) :
          report' = [cached |-> Content(file).catalog, live |-> c, lines |-> Check(Content(file).catalog, c)]
    BY <1>1 DEF SchemaCheck
  <2> DEFINE cached == Content(file).catalog
             lines == Check(cached, c)
  <2>3. Introspectable(cached) /\ Introspectable(c)
    BY <2>1, LoadableIsVersion, IntrospectedVersions, VersionsIntrospectable
  <2>4. report' = [cached |-> cached, live |-> c, lines |-> lines] /\ lines = Check(cached, c)
    BY <2>2
  <2> HIDE DEF cached, lines
  <2>5. report'.cached = cached /\ report'.live = c /\ report'.lines = lines
    BY <2>4
  <2> QED
    BY <2>3, <2>4, <2>5 DEF ReportOK
<1>2. CASE report' = report
  BY <1>2 DEF ReportOK
<1>3. SchemaCheck \/ report' = report
  BY DEF Next, vars, DDL, DumpIntrospect, DumpCreate, DumpWrite, DumpCrash, Open, Read, Load, Introspect,
         RunCatalogHooks, Generate, RunSchemaHook, Build, Arrive, Finish
<1> QED
  BY <1>1, <1>2, <1>3

\* schema check tells drift: with a file that loads it is silent only when nothing
\* differs but the order of lists, and otherwise prints, below the line that there is
\* drift, one that says where, if in neither catalog two functions have one signature
\* (Check, Diff and Hash, for any catalogs and whatever dumps did to the file).
THEOREM DriftIsTold == Spec => []CheckTellsDrift
PROOF
<1>1. Init => ReportOK
  BY DEF Init, ReportOK
<1>2. Init => Inv
  BY InitInv
<1>3. Inv /\ [Next]_vars => Inv'
  BY StepInv
<1>4. Inv /\ ReportOK /\ [Next]_vars => ReportOK'
  BY CheckStep
<1>5. ReportOK => CheckTellsDrift
  BY CheckTells DEF ReportOK, CheckTellsDrift
<1> QED
  BY <1>1, <1>2, <1>3, <1>4, <1>5, PTL DEF Spec
-----------------------------------------------------------------------------
\* Swaps are restarts.  First, induction up to a number.
LEMMA LeastOne ==
  ASSUME NEW T, T \subseteq Nat, T # {}
  PROVE  \E n \in T : \A m \in T : n <= m
PROOF
<1>1. \E n \in T : \A m \in T : ~(<<m, n>> \in OpToRel(<, Nat))
  BY NatLessThanWellFounded, WFMin
<1>2. OpToRel(<, Nat) = {q \in Nat \X Nat : q[1] < q[2]}
  BY Zenon DEF OpToRel
<1>3. PICK n \in T : \A m \in T : ~(<<m, n>> \in {q \in Nat \X Nat : q[1] < q[2]})
  BY <1>1, <1>2, Zenon
<1>4. ASSUME NEW m \in T, m < n PROVE FALSE
  <2>1. <<m, n>> \in Nat \X Nat /\ <<m, n>>[1] < <<m, n>>[2]
    BY <1>4
  <2> QED
    BY <1>3, <2>1
<1> QED
  BY <1>4

LEMMA ByCounting ==
  ASSUME NEW n \in Nat, NEW S, 0 \in S, \A i \in 1..n : i - 1 \in S => i \in S
  PROVE  \A i \in 0..n : i \in S
PROOF
<1> DEFINE T == {i \in 0..n : i \notin S}
<1> SUFFICES ASSUME T # {} PROVE FALSE
  OBVIOUS
<1>1. T \subseteq Nat
  OBVIOUS
<1>2. PICK m \in T : \A i \in T : m <= i
  <2> HIDE DEF T
  <2> QED
    BY <1>1, LeastOne
<1>3. m \in 1..n /\ m - 1 \in 0..n /\ m - 1 \notin T
  BY <1>2
<1> QED
  BY <1>3

LEMMA MaxOfPrefix ==
  ASSUME NEW m \in Nat, NEW S \in SUBSET (1..m), m \in S
  PROVE  Max(S) = m /\ S \ {m} \in SUBSET (1..(m - 1))
PROOF
<1>1. \A y \in S : m >= y
  OBVIOUS
<1>2. ASSUME NEW x \in S, \A y \in S : x >= y PROVE x = m
  BY <1>2
<1>3. Max(S) = m
  BY <1>1, <1>2 DEF Max
<1>4. ASSUME NEW x \in S \ {m} PROVE x \in 1..(m - 1)
  OBVIOUS
<1> QED
  BY <1>3, <1>4

\* The steps of Registry.TransformCatalog: at[i] is what the first i hooks have made of p and c.
CatalogTrace(at, n, p, c) ==
  /\ at[0] = [p |-> p, c |-> c]
  /\ \A i \in 1..n : at[i] = CatalogHook(at[i - 1], p.order[i])
  /\ TransformCatalog(p, c) = at[n]
LEMMA CatalogSteps ==
  ASSUME NEW p, NEW c, NEW n \in Nat, DOMAIN p.order = 1..n
  PROVE  \E at : CatalogTrace(at, n, p, c)
PROOF
<1> DEFINE base == [p |-> p, c |-> c]
           Step(f, S) == IF S = {} THEN base ELSE CatalogHook(f[S \ {Max(S)}], p.order[Max(S)])
           Defines(f, m) == \A S \in SUBSET (1..m) : f[S] = Step(f, S)
           Solved == {m \in 0..n : \E f : Defines(f, m)}
<1>1. 0 \in Solved
  <2>1. Defines([S \in SUBSET (1..0) |-> base], 0)
    OBVIOUS
  <2> HIDE DEF Defines
  <2> QED
    BY <2>1
<1>2. ASSUME NEW m \in 1..n, m - 1 \in Solved PROVE m \in Solved
  <2>1. PICK f : Defines(f, m - 1)
    BY <1>2
  <2> DEFINE g == [S \in SUBSET (1..m) |-> IF S \in SUBSET (1..(m - 1)) THEN f[S] ELSE Step(f, S)]
  <2>2. ASSUME NEW S \in SUBSET (1..m) PROVE g[S] = Step(g, S)
    <3>1. CASE S \in SUBSET (1..(m - 1))
      <4>1. S \ {Max(S)} \in SUBSET (1..(m - 1)) /\ S \ {Max(S)} \in SUBSET (1..m)
        BY <3>1
      <4>2. g[S] = f[S] /\ g[S \ {Max(S)}] = f[S \ {Max(S)}] /\ f[S] = Step(f, S)
        BY <2>1, <3>1, <4>1
      <4> QED
        BY <4>2
    <3>2. CASE S \notin SUBSET (1..(m - 1))
      <4>1. m \in S
        BY <3>2
      <4>2. Max(S) = m /\ S \ {m} \in SUBSET (1..(m - 1)) /\ S \ {m} \in SUBSET (1..m)
        BY <4>1, MaxOfPrefix
      <4>3. g[S] = Step(f, S) /\ g[S \ {Max(S)}] = f[S \ {Max(S)}]
        BY <3>2, <4>2
      <4> QED
        BY <4>3
    <3> QED
      BY <3>1, <3>2
  <2>3. Defines(g, m)
    BY <2>2
  <2> HIDE DEF Defines
  <2> QED
    BY <2>3
<1>3. \E f : Defines(f, n)
  <2> HIDE DEF Defines
  <2>1. n \in Solved
    <3> HIDE DEF Solved
    <3> QED
      BY <1>1, <1>2, ByCounting
  <2> QED
    BY <2>1
<1> DEFINE iter == CHOOSE f : f = [S \in SUBSET DOMAIN p.order |-> Step(f, S)]
<1>4. iter = [S \in SUBSET (1..n) |-> Step(iter, S)]
  <2>1. PICK f : Defines(f, n)
    BY <1>3
  <2> DEFINE g == [S \in SUBSET (1..n) |-> f[S]]
  <2>2. g = [S \in SUBSET (1..n) |-> Step(g, S)]
    BY <2>1
  <2>3. \E h : h = [S \in SUBSET (1..n) |-> Step(h, S)]
    BY <2>2
  <2> QED
    BY <2>3
<1>5. TransformCatalog(p, c) = iter[1..n]
  BY DEF TransformCatalog, FoldLeft, MapThenFoldSet
<1> HIDE DEF iter
<1>6. iter[1..0] = base
  BY <1>4
<1>7. ASSUME NEW i \in 1..n PROVE iter[1..i] = CatalogHook(iter[1..(i - 1)], p.order[i])
  <2>1. Max(1..i) = i /\ (1..i) \ {i} = 1..(i - 1) /\ 1..i # {}
    BY MaxOfPrefix
  <2>2. 1..i \in SUBSET (1..n)
    OBVIOUS
  <2>3. iter[1..i] = Step(iter, 1..i)
    BY <1>4, <2>2
  <2> QED
    BY <2>1, <2>3
<1> DEFINE at == [i \in 0..n |-> iter[1..i]]
<1>8. at[0] = base /\ at[n] = iter[1..n]
  BY <1>6
<1>9. \A i \in 1..n : at[i] = CatalogHook(at[i - 1], p.order[i])
  BY <1>7
<1> HIDE DEF at
<1> QED
  BY <1>5, <1>8, <1>9 DEF CatalogTrace

\* The steps of Registry.TransformSchema.
HookTrace(at, n, todo, p, c, opts, b) ==
  /\ at[0] = b
  /\ \A i \in 1..n : at[i] = SchemaHook(todo[i], p, c, opts, at[i - 1]).b
  /\ RunHooks(todo, p, c, opts, b) = at[n]
LEMMA HookSteps ==
  ASSUME NEW p, NEW c, NEW opts, NEW b, NEW todo, NEW n \in Nat, DOMAIN todo = 1..n
  PROVE  \E at : HookTrace(at, n, todo, p, c, opts, b)
PROOF
<1> DEFINE Step(f, S) == IF S = {} THEN b ELSE SchemaHook(todo[Max(S)], p, c, opts, f[S \ {Max(S)}]).b
           Defines(f, m) == \A S \in SUBSET (1..m) : f[S] = Step(f, S)
           Solved == {m \in 0..n : \E f : Defines(f, m)}
<1>1. 0 \in Solved
  <2>1. Defines([S \in SUBSET (1..0) |-> b], 0)
    OBVIOUS
  <2> HIDE DEF Defines
  <2> QED
    BY <2>1
<1>2. ASSUME NEW m \in 1..n, m - 1 \in Solved PROVE m \in Solved
  <2>1. PICK f : Defines(f, m - 1)
    BY <1>2
  <2> DEFINE g == [S \in SUBSET (1..m) |-> IF S \in SUBSET (1..(m - 1)) THEN f[S] ELSE Step(f, S)]
  <2>2. ASSUME NEW S \in SUBSET (1..m) PROVE g[S] = Step(g, S)
    <3>1. CASE S \in SUBSET (1..(m - 1))
      <4>1. S \ {Max(S)} \in SUBSET (1..(m - 1)) /\ S \ {Max(S)} \in SUBSET (1..m)
        BY <3>1
      <4>2. g[S] = f[S] /\ g[S \ {Max(S)}] = f[S \ {Max(S)}] /\ f[S] = Step(f, S)
        BY <2>1, <3>1, <4>1
      <4> QED
        BY <4>2
    <3>2. CASE S \notin SUBSET (1..(m - 1))
      <4>1. m \in S
        BY <3>2
      <4>2. Max(S) = m /\ S \ {m} \in SUBSET (1..(m - 1)) /\ S \ {m} \in SUBSET (1..m)
        BY <4>1, MaxOfPrefix
      <4>3. g[S] = Step(f, S) /\ g[S \ {Max(S)}] = f[S \ {Max(S)}]
        BY <3>2, <4>2
      <4> QED
        BY <4>3
    <3> QED
      BY <3>1, <3>2
  <2>3. Defines(g, m)
    BY <2>2
  <2> HIDE DEF Defines
  <2> QED
    BY <2>3
<1>3. \E f : Defines(f, n)
  <2> HIDE DEF Defines
  <2>1. n \in Solved
    <3> HIDE DEF Solved
    <3> QED
      BY <1>1, <1>2, ByCounting
  <2> QED
    BY <2>1
<1> DEFINE iter == CHOOSE f : f = [S \in SUBSET DOMAIN todo |-> Step(f, S)]
<1>4. iter = [S \in SUBSET (1..n) |-> Step(iter, S)]
  <2>1. PICK f : Defines(f, n)
    BY <1>3
  <2> DEFINE g == [S \in SUBSET (1..n) |-> f[S]]
  <2>2. g = [S \in SUBSET (1..n) |-> Step(g, S)]
    BY <2>1
  <2>3. \E h : h = [S \in SUBSET (1..n) |-> Step(h, S)]
    BY <2>2
  <2> QED
    BY <2>3
<1>5. RunHooks(todo, p, c, opts, b) = iter[1..n]
  BY DEF RunHooks, FoldLeft, MapThenFoldSet
<1> HIDE DEF iter
<1>6. iter[1..0] = b
  BY <1>4
<1>7. ASSUME NEW i \in 1..n PROVE iter[1..i] = SchemaHook(todo[i], p, c, opts, iter[1..(i - 1)]).b
  <2>1. Max(1..i) = i /\ (1..i) \ {i} = 1..(i - 1) /\ 1..i # {}
    BY MaxOfPrefix
  <2>2. 1..i \in SUBSET (1..n)
    OBVIOUS
  <2>3. iter[1..i] = Step(iter, 1..i)
    BY <1>4, <2>2
  <2> QED
    BY <2>1, <2>3
<1> DEFINE at == [i \in 0..n |-> iter[1..i]]
<1>8. at[0] = b /\ at[n] = iter[1..n]
  BY <1>6
<1>9. \A i \in 1..n : at[i] = SchemaHook(todo[i], p, c, opts, at[i - 1]).b
  BY <1>7
<1> HIDE DEF at
<1> QED
  BY <1>5, <1>8, <1>9 DEF HookTrace

\* Without hooks to run the builder is left as it is.
LEMMA NoHookLeft ==
  ASSUME NEW p, NEW c, NEW opts, NEW b
  PROVE  RunHooks(<< >>, p, c, opts, b) = b
PROOF
<1>1. DOMAIN << >> = 1..0
  OBVIOUS
<1> QED
  BY <1>1, HookSteps DEF HookTrace

\* Running the hooks is to run the first, and then the others.
LEMMA FirstHook ==
  ASSUME NEW S, NEW todo \in Seq(S), todo # << >>, NEW p, NEW c, NEW opts, NEW b
  PROVE  RunHooks(todo, p, c, opts, b)
           = RunHooks(Tail(todo), p, c, opts, SchemaHook(Head(todo), p, c, opts, b).b)
PROOF
<1> DEFINE first == SchemaHook(todo[1], p, c, opts, b).b
           n == Len(todo)
           rest == Tail(todo)
<1>1. n \in Nat \ {0} /\ DOMAIN todo = 1..n /\ Head(todo) = todo[1]
  BY EmptySeq, LenProperties
<1>2. DOMAIN rest = 1..(n - 1) /\ \A i \in 1..(n - 1) : rest[i] = todo[i + 1]
  BY <1>1, HeadTailProperties, LenProperties
<1>3. PICK at : HookTrace(at, n, todo, p, c, opts, b)
  BY <1>1, HookSteps
<1> HIDE DEF n, rest, first
<1>4. PICK bt : HookTrace(bt, n - 1, rest, p, c, opts, first)
  <2>1. n - 1 \in Nat
    BY <1>1
  <2> QED
    BY <1>2, <2>1, HookSteps
<1> DEFINE Same == {i \in 0..(n - 1) : at[i + 1] = bt[i]}
<1>5. 0 \in Same
  BY <1>1, <1>3, <1>4 DEF first, HookTrace
<1>6. ASSUME NEW i \in 1..(n - 1), i - 1 \in Same PROVE i \in Same
  <2>1. i + 1 \in 1..n /\ (i + 1) - 1 = i /\ (i - 1) + 1 = i
    BY <1>1
  <2>2. at[i + 1] = SchemaHook(todo[i + 1], p, c, opts, at[i]).b
    BY <1>3, <2>1 DEF HookTrace
  <2>3. at[i] = bt[i - 1] /\ rest[i] = todo[i + 1]
    BY <1>2, <1>6, <2>1
  <2>4. bt[i] = SchemaHook(rest[i], p, c, opts, bt[i - 1]).b
    BY <1>4 DEF HookTrace
  <2> QED
    BY <1>1, <2>2, <2>3, <2>4
<1>7. n - 1 \in Same
  <2> HIDE DEF Same
  <2>1. n - 1 \in Nat /\ n - 1 \in 0..(n - 1)
    BY <1>1
  <2> QED
    BY <1>5, <1>6, <2>1, ByCounting
<1>8. at[n] = bt[n - 1]
  BY <1>1, <1>7
<1> QED
  BY <1>1, <1>3, <1>4, <1>8 DEF rest, first, HookTrace

-----------------------------------------------------------------------------
\* The shape of what the instances remember, and of what a catalog hook is given.
Memory(p) == p = [order |-> p.order, index |-> p.index, fkCount |-> p.fkCount]
Shaping(x) == x = [p |-> x.p, c |-> x.c] /\ Memory(x.p)

\* A catalog hook leaves the order, and what it writes depends on the catalog alone.
LEMMA HookWrites ==
  ASSUME NEW x, Shaping(x), NEW y, Shaping(y), x.c = y.c, NEW plugin
  PROVE  LET u == CatalogHook(x, plugin)
             v == CatalogHook(y, plugin)
         IN /\ Shaping(u) /\ u.p.order = x.p.order /\ u.c = v.c
            /\ plugin = "smart-comments" => u.p.index = v.p.index
            /\ plugin # "smart-comments" => u.p.index = x.p.index
            /\ plugin = "simple-names" => u.p.fkCount = v.p.fkCount
            /\ plugin # "simple-names" => u.p.fkCount = x.p.fkCount
PROOF
<1>1. CASE plugin = "smart-comments"
  <2> DEFINE told == Commented(x.c)
  <2>1. /\ CatalogHook(x, plugin) = [p |-> [x.p EXCEPT !.index = told.index], c |-> told.c]
        /\ CatalogHook(y, plugin) = [p |-> [y.p EXCEPT !.index = told.index], c |-> told.c]
    BY <1>1 DEF CatalogHook, SmartCatalog
  <2> HIDE DEF told
  <2> QED
    BY <1>1, <2>1 DEF Shaping, Memory
<1>2. CASE plugin = "simple-names"
  <2> DEFINE counted == [key \in Keys(x.c) |-> Len(Table(x.c, key).fks)]
  <2>1. /\ CatalogHook(x, plugin) = [p |-> [x.p EXCEPT !.fkCount = counted], c |-> x.c]
        /\ CatalogHook(y, plugin) = [p |-> [y.p EXCEPT !.fkCount = counted], c |-> x.c]
    BY <1>2 DEF CatalogHook, SimpleCatalog
  <2> HIDE DEF counted
  <2> QED
    BY <1>2, <2>1 DEF Shaping, Memory
<1>3. CASE plugin # "smart-comments" /\ plugin # "simple-names"
  <2>1. CatalogHook(x, plugin) = x /\ CatalogHook(y, plugin) = y
    BY <1>3 DEF CatalogHook
  <2> QED
    BY <1>3, <2>1
<1> QED
  BY <1>1, <1>2, <1>3

\* Two instances of the plugins agree after a catalog's hooks on all that an enabled
\* plugin writes, whatever either remembered before.
AgreeBut(x, y, ran) ==
  /\ Shaping(x) /\ Shaping(y) /\ x.p.order = y.p.order /\ x.c = y.c
  /\ "smart-comments" \in ran => x.p.index = y.p.index
  /\ "simple-names" \in ran => x.p.fkCount = y.p.fkCount
Untouched(x, p, ran) ==
  /\ x.p.order = p.order
  /\ "smart-comments" \notin ran => x.p.index = p.index
  /\ "simple-names" \notin ran => x.p.fkCount = p.fkCount

LEMMA HooksAgree ==
  ASSUME NEW p, NEW q, Memory(p), Memory(q), NEW c, NEW S, p.order \in Seq(S), q.order = p.order
  PROVE  LET x == TransformCatalog(p, c)
             y == TransformCatalog(q, c)
             ran == {p.order[i] : i \in DOMAIN p.order}
         IN AgreeBut(x, y, ran) /\ Untouched(x, p, ran) /\ Untouched(y, q, ran)
PROOF
<1> DEFINE n == Len(p.order)
           Ran(i) == {p.order[j] : j \in 1..i}
<1>1. n \in Nat /\ DOMAIN p.order = 1..n /\ DOMAIN q.order = 1..n
  BY LenProperties
<1> HIDE DEF n
<1>2. PICK at : CatalogTrace(at, n, p, c)
  BY <1>1, CatalogSteps
<1>3. PICK bt : CatalogTrace(bt, n, q, c)
  BY <1>1, CatalogSteps
<1> DEFINE Good(i) == AgreeBut(at[i], bt[i], Ran(i)) /\ Untouched(at[i], p, Ran(i)) /\ Untouched(bt[i], q, Ran(i))
           Agreed == {i \in 0..n : Good(i)}
<1>4. Good(0)
  <2>1. at[0] = [p |-> p, c |-> c] /\ bt[0] = [p |-> q, c |-> c] /\ Ran(0) = {}
    BY <1>2, <1>3 DEF CatalogTrace
  <2> QED
    BY <2>1 DEF AgreeBut, Untouched, Shaping
<1>5. ASSUME NEW i \in 1..n, Good(i - 1) PROVE Good(i)
  <2> DEFINE plugin == p.order[i]
             x == at[i - 1]
             y == bt[i - 1]
             u == CatalogHook(x, plugin)
             v == CatalogHook(y, plugin)
             before == Ran(i - 1)
             ran == Ran(i)
  <2>1. at[i] = u /\ bt[i] = v
    BY <1>2, <1>3, <1>1 DEF CatalogTrace
  <2>2. ran = before \cup {plugin}
    BY <1>1
  <2>3. AgreeBut(x, y, before) /\ Untouched(x, p, before) /\ Untouched(y, q, before)
    BY <1>5
  <2>4. Shaping(x) /\ Shaping(y) /\ x.c = y.c /\ x.p.order = y.p.order
    BY <2>3 DEF AgreeBut
  <2> HIDE DEF plugin, x, y, before, ran
  <2>5. /\ Shaping(u) /\ u.p.order = x.p.order /\ u.c = v.c
        /\ plugin = "smart-comments" => u.p.index = v.p.index
        /\ plugin # "smart-comments" => u.p.index = x.p.index
        /\ plugin = "simple-names" => u.p.fkCount = v.p.fkCount
        /\ plugin # "simple-names" => u.p.fkCount = x.p.fkCount
    BY <2>4, HookWrites
  <2>6. /\ Shaping(v) /\ v.p.order = y.p.order
        /\ plugin # "smart-comments" => v.p.index = y.p.index
        /\ plugin # "simple-names" => v.p.fkCount = y.p.fkCount
    BY <2>4, HookWrites
  <2> HIDE DEF u, v
  <2>7. AgreeBut(u, v, ran)
    BY <2>2, <2>3, <2>4, <2>5, <2>6 DEF AgreeBut
  <2>8. Untouched(u, p, ran)
    BY <2>2, <2>3, <2>5 DEF Untouched
  <2>9. Untouched(v, q, ran)
    BY <2>2, <2>3, <2>6 DEF Untouched
  <2> QED
    BY <2>1, <2>7, <2>8, <2>9 DEF ran
<1>6. Good(n)
  <2> HIDE DEF Good
  <2>1. 0 \in Agreed /\ \A i \in 1..n : i - 1 \in Agreed => i \in Agreed
    BY <1>1, <1>4, <1>5
  <2>2. n \in Agreed
    <3> HIDE DEF Agreed
    <3>1. n \in 0..n
      BY <1>1
    <3> QED
      BY <1>1, <2>1, <3>1, ByCounting
  <2> QED
    BY <2>2
<1>7. TransformCatalog(p, c) = at[n] /\ TransformCatalog(q, c) = bt[n]
  BY <1>2, <1>3 DEF CatalogTrace
<1>8. Ran(n) = {p.order[i] : i \in DOMAIN p.order}
  BY <1>1
<1> QED
  BY <1>6, <1>7, <1>8

\* The enabled plugins in their order are a list.
LEMMA OrderIsList ==
  ASSUME NEW settings
  PROVE  LET order == NewPlugins(settings).order IN order \in Seq(ToSet(order))
PROOF
<1> DEFINE on == DOMAIN Priority \ settings.disabled
           Before(x) == {y \in on : Priority[y] < Priority[x]}
           ranked == [i \in 1..Cardinality(on) |-> CHOOSE x \in on : Cardinality(Before(x)) = i - 1]
<1>1. Cardinality(on) \in Nat
  <2>1. DOMAIN Priority = {"smart-comments", "simple-names", "advanced-filters", "nested-mutations"}
    BY DEF Priority
  <2>2. IsFiniteSet({"smart-comments"}) /\ IsFiniteSet({"simple-names"})
    BY FS_Singleton
  <2>3. IsFiniteSet({"advanced-filters"}) /\ IsFiniteSet({"nested-mutations"})
    BY FS_Singleton
  <2>4. IsFiniteSet({"smart-comments"} \cup {"simple-names"})
    BY <2>2, FS_Union
  <2>5. IsFiniteSet({"advanced-filters"} \cup {"nested-mutations"})
    BY <2>3, FS_Union
  <2>6. IsFiniteSet(({"smart-comments"} \cup {"simple-names"}) \cup ({"advanced-filters"} \cup {"nested-mutations"}))
    BY <2>4, <2>5, FS_Union
  <2>7. on \subseteq ({"smart-comments"} \cup {"simple-names"}) \cup ({"advanced-filters"} \cup {"nested-mutations"})
    BY <2>1
  <2> HIDE DEF on
  <2> QED
    BY <2>6, <2>7, FS_Subset, FS_CardinalityType
<1>2. NewPlugins(settings).order = ranked
  BY DEF NewPlugins, Enabled
<1> HIDE DEF on
<1>3. ranked \in [1..Cardinality(on) -> ToSet(ranked)]
  <2>1. \A i \in DOMAIN ranked : ranked[i] \in ToSet(ranked)
    <3> HIDE DEF ranked
    <3> QED
      BY DEF ToSet
  <2> QED
    BY <2>1
<1> HIDE DEF ranked
<1> QED
  BY <1>1, <1>2, <1>3, SeqDef

-----------------------------------------------------------------------------
\* What a restart would start with, and what the hooks of a build have left to do.
Fresh == NewPlugins(config.plugins)
Opts == config.plugins.opts
PluginsOK ==
  /\ Memory(plugins) /\ plugins.order = Fresh.order
  /\ "smart-comments" \notin ToSet(Fresh.order) => plugins.index = Fresh.index
  /\ "simple-names" \notin ToSet(Fresh.order) => plugins.fkCount = Fresh.fkCount
AsRestarted ==
  build.stage \in {"shaped", "generated"} =>
    [p |-> plugins, c |-> build.shaped] = TransformCatalog(Fresh, build.raw.catalog)
HooksToRun ==
  build.stage = "generated" =>
    /\ build.todo \in Seq(ToSet(Fresh.order))
    /\ RunHooks(build.todo, plugins, build.shaped, Opts, build.b)
         = TransformSchema(plugins, build.shaped, Opts, New(plugins, build.shaped, Opts))
SwapInv == BuildOK /\ PluginsOK /\ AsRestarted /\ HooksToRun

LEMMA NewMemory == \A settings : Memory(NewPlugins(settings))
PROOF
  BY DEF Memory, NewPlugins

LEMMA FreshOK ==
  ASSUME plugins = Fresh
  PROVE  PluginsOK
PROOF
  BY NewMemory DEF PluginsOK, Fresh

LEMMA InitSwapInv == Init => SwapInv
PROOF
<1> SUFFICES ASSUME Init PROVE SwapInv
  OBVIOUS
<1>1. plugins = Fresh /\ build = Idle
  BY DEF Init, Fresh
<1>2. BuildOK /\ build.stage = "down"
  BY <1>1 DEF BuildOK, BuildFields, Idle
<1> QED
  BY <1>1, <1>2, FreshOK DEF SwapInv, AsRestarted, HooksToRun

\* The catalog hooks of the process do what those of a new one would.
LEMMA ShapedAsFresh ==
  ASSUME PluginsOK, NEW c
  PROVE  LET shaped == TransformCatalog(plugins, c)
         IN /\ shaped = TransformCatalog(Fresh, c) /\ Shaping(shaped)
            /\ shaped.p.order = Fresh.order
            /\ "smart-comments" \notin ToSet(Fresh.order) => shaped.p.index = Fresh.index
            /\ "simple-names" \notin ToSet(Fresh.order) => shaped.p.fkCount = Fresh.fkCount
PROOF
<1> DEFINE x == TransformCatalog(plugins, c)
           y == TransformCatalog(Fresh, c)
           ran == {plugins.order[i] : i \in DOMAIN plugins.order}
<1>1. plugins.order = Fresh.order /\ Memory(plugins) /\ Memory(Fresh)
  BY NewMemory DEF PluginsOK, Fresh
<1>2. plugins.order \in Seq(ToSet(Fresh.order))
  BY <1>1, OrderIsList DEF Fresh
<1>3. AgreeBut(x, y, ran) /\ Untouched(x, plugins, ran) /\ Untouched(y, Fresh, ran)
  BY <1>1, <1>2, HooksAgree
<1>4. ran = ToSet(Fresh.order)
  BY <1>1 DEF ToSet
<1> HIDE DEF x, y, ran
<1>5. x.p.index = y.p.index /\ x.p.fkCount = y.p.fkCount
  BY <1>3, <1>4 DEF AgreeBut, Untouched, PluginsOK
<1>6. x = y
  BY <1>3, <1>5 DEF AgreeBut, Shaping, Memory
<1>7. /\ Shaping(x) /\ x.p.order = Fresh.order
      /\ "smart-comments" \notin ToSet(Fresh.order) => x.p.index = Fresh.index
      /\ "simple-names" \notin ToSet(Fresh.order) => x.p.fkCount = Fresh.fkCount
  BY <1>1, <1>3, <1>4, <1>6 DEF AgreeBut, Untouched
<1> QED
  BY <1>6, <1>7 DEF x, y

LEMMA StepSwapInv == SwapInv /\ [Next]_vars => SwapInv'
PROOF
<1> SUFFICES ASSUME SwapInv, [Next]_vars PROVE SwapInv'
  OBVIOUS
<1> USE DEF SwapInv
<1>0. config' = config /\ Fresh' = Fresh /\ Opts' = Opts
  <2>1. config' = config
    BY DEF Next, vars, DDL, DumpIntrospect, DumpCreate, DumpWrite, DumpCrash, SchemaCheck, Open, Read, Load,
           Introspect, RunCatalogHooks, Generate, RunSchemaHook, Build, Arrive, Finish
  <2> QED
    BY <2>1 DEF Fresh, Opts
<1>1. ASSUME plugins' = plugins, BuildOK', build'.stage \notin {"shaped", "generated"} PROVE SwapInv'
  <2>1. PluginsOK'
    BY <1>0, <1>1 DEF PluginsOK
  <2> QED
    BY <1>1, <2>1 DEF AsRestarted, HooksToRun
<1>2. CASE UNCHANGED vars
  <2>1. UNCHANGED <<plugins, build>>
    BY <1>2 DEF vars
  <2> QED
    BY <1>0, <2>1 DEF PluginsOK, AsRestarted, HooksToRun, BuildOK, BuildFields
<1>3. CASE DDL \/ (\E d \in Dumpers : DumpIntrospect(d) \/ DumpCreate(d) \/ DumpWrite(d) \/ DumpCrash(d))
           \/ SchemaCheck \/ Arrive \/ Finish
  <2>1. UNCHANGED <<plugins, build>>
    BY <1>3 DEF DDL, DumpIntrospect, DumpCreate, DumpWrite, DumpCrash, SchemaCheck, Arrive, Finish
  <2> QED
    BY <1>0, <2>1 DEF PluginsOK, AsRestarted, HooksToRun, BuildOK, BuildFields
<1>4. CASE Open \/ Read
  <2>1. plugins' = plugins /\ BuildOK'
    BY <1>4 DEF Open, Read, BuildOK, BuildFields
  <2>2. build'.stage = "read"
    BY <1>4 DEF Open, Read, BuildOK, BuildFields
  <2> QED
    BY <1>1, <2>1, <2>2
<1>5. CASE Load \/ Introspect
  <2>1. plugins' = plugins /\ BuildOK'
    BY <1>5 DEF Load, Introspect, Idle, BuildOK, BuildFields
  <2>2. build'.stage \in {"loaded", "down"}
    <3>1. CASE Load
      BY <3>1 DEF Load, Idle
    <3>2. CASE Introspect
      <4>1. PICK c \in Introspected(db.state) :
              build' = [Idle EXCEPT !.stage = "loaded", !.raw = [catalog |-> c, format |-> Format], !.seen = db.ddls]
        BY <3>2 DEF Introspect
      <4> QED
        BY <4>1 DEF Idle
    <3> QED
      BY <1>5, <3>1, <3>2
  <2> QED
    BY <1>1, <2>1, <2>2
<1>6. CASE RunCatalogHooks
  <2> DEFINE shaped == TransformCatalog(plugins, build.raw.catalog)
  <2>1. build' = [build EXCEPT !.stage = "shaped", !.shaped = shaped.c] /\ plugins' = shaped.p
    BY <1>6 DEF RunCatalogHooks
  <2>2. /\ shaped = TransformCatalog(Fresh, build.raw.catalog) /\ Shaping(shaped)
        /\ shaped.p.order = Fresh.order
        /\ "smart-comments" \notin ToSet(Fresh.order) => shaped.p.index = Fresh.index
        /\ "simple-names" \notin ToSet(Fresh.order) => shaped.p.fkCount = Fresh.fkCount
    BY ShapedAsFresh
  <2> HIDE DEF shaped
  <2>3. /\ BuildOK' /\ build'.stage = "shaped" /\ build'.shaped = shaped.c
        /\ build'.raw = build.raw
    BY <2>1 DEF BuildOK, BuildFields
  <2>4. PluginsOK'
    BY <1>0, <2>1, <2>2 DEF PluginsOK, Shaping, Memory
  <2>5. AsRestarted'
    BY <1>0, <2>1, <2>2, <2>3 DEF AsRestarted, Shaping
  <2> QED
    BY <2>3, <2>4, <2>5 DEF HooksToRun
<1>7. CASE Generate
  <2> DEFINE b == New(plugins, build.shaped, Opts)
  <2>1. /\ build' = [build EXCEPT !.stage = "generated", !.todo = plugins.order, !.b = b]
        /\ plugins' = plugins /\ build.stage = "shaped"
    BY <1>7 DEF Generate, Opts
  <2>2. New(plugins', build.shaped, Opts') = b
    BY <1>0, <2>1
  <2>3. TransformSchema(plugins, build.shaped, Opts, b) = RunHooks(plugins.order, plugins, build.shaped, Opts, b)
    BY DEF TransformSchema
  <2> HIDE DEF b
  <2>4. /\ BuildOK' /\ build'.stage = "generated" /\ build'.todo = plugins.order /\ build'.b = b
        /\ build'.raw = build.raw /\ build'.shaped = build.shaped
    BY <2>1 DEF BuildOK, BuildFields
  <2>5. PluginsOK' /\ AsRestarted'
    BY <1>0, <2>1, <2>4 DEF PluginsOK, AsRestarted
  <2>6. build'.todo \in Seq(ToSet(Fresh.order))
    BY <2>4, OrderIsList DEF PluginsOK, Fresh
  <2>7. HooksToRun'
    BY <1>0, <2>1, <2>2, <2>3, <2>4, <2>6 DEF HooksToRun
  <2> QED
    BY <2>4, <2>5, <2>7
<1>8. CASE RunSchemaHook
  <2> DEFINE b == SchemaHook(Head(build.todo), plugins, build.shaped, Opts, build.b).b
             all == TransformSchema(plugins, build.shaped, Opts, New(plugins, build.shaped, Opts))
             T == ToSet(Fresh.order)
  <2>1. /\ build' = [build EXCEPT !.todo = Tail(build.todo), !.b = b]
        /\ plugins' = plugins /\ build.stage = "generated" /\ build.todo # << >>
    BY <1>8 DEF RunSchemaHook, Opts, BuildOK, BuildFields
  <2>2. build.todo \in Seq(T) /\ RunHooks(build.todo, plugins, build.shaped, Opts, build.b) = all
    BY <2>1 DEF HooksToRun
  <2> HIDE DEF T
  <2>3. RunHooks(Tail(build.todo), plugins, build.shaped, Opts, b) = all /\ Tail(build.todo) \in Seq(T)
    BY <2>1, <2>2, FirstHook, HeadTailProperties
  <2>4. TransformSchema(plugins', build.shaped, Opts', New(plugins', build.shaped, Opts')) = all
    BY <1>0, <2>1
  <2> HIDE DEF b, all
  <2>5. /\ BuildOK' /\ build'.stage = "generated" /\ build'.todo = Tail(build.todo) /\ build'.b = b
        /\ build'.raw = build.raw /\ build'.shaped = build.shaped
    BY <2>1 DEF BuildOK, BuildFields
  <2>6. PluginsOK' /\ AsRestarted'
    BY <1>0, <2>1, <2>5 DEF PluginsOK, AsRestarted
  <2>7. HooksToRun'
    BY <1>0, <2>1, <2>3, <2>4, <2>5 DEF HooksToRun, T
  <2> QED
    BY <2>5, <2>6, <2>7
<1>9. CASE Build
  <2>1. build' = [Idle EXCEPT !.seen = build.seen] /\ plugins' \in {Fresh, plugins}
    BY <1>9 DEF Build, Fresh
  <2>2. BuildOK' /\ build'.stage = "down"
    BY <2>1 DEF BuildOK, BuildFields, Idle
  <2>3. PluginsOK'
    BY <1>0, <2>1, NewMemory DEF PluginsOK, Fresh
  <2> QED
    BY <2>2, <2>3 DEF AsRestarted, HooksToRun
<1> QED
  BY <1>2, <1>3, <1>4, <1>5, <1>6, <1>7, <1>8, <1>9 DEF Next

\* A schema that comes into service is the one that a new process would build of the
\* same catalog: whatever earlier builds left in the plugins, the hooks overwrite
\* what they read (App.BuildSchema, Registry.TransformCatalog and TransformSchema).
THEOREM SwapsAreRestarts == Spec => SwapIsRestart
PROOF
<1> DEFINE Restarted == BuildSchema(NewPlugins(config.plugins), server'.catalog, config.plugins.opts)
<1>1. ASSUME SwapInv, [Next]_vars, server' # server PROVE server'.b = Restarted
  <2>1. Build
    BY <1>1 DEF Next, vars, DDL, DumpIntrospect, DumpCreate, DumpWrite, DumpCrash, SchemaCheck, Open, Read, Load,
                Introspect, RunCatalogHooks, Generate, RunSchemaHook, Arrive, Finish
  <2> DEFINE all == TransformSchema(plugins, build.shaped, Opts, New(plugins, build.shaped, Opts))
  <2>2. /\ build.stage = "generated" /\ build.todo = << >>
        /\ server' = [catalog |-> build.raw.catalog, b |-> Printed(build.b)]
    BY <1>1, <2>1 DEF Build
  <2>3. build.b = all
    BY <1>1, <2>2, NoHookLeft DEF SwapInv, HooksToRun
  <2>4. [p |-> plugins, c |-> build.shaped] = TransformCatalog(Fresh, build.raw.catalog)
    BY <1>1, <2>2 DEF SwapInv, AsRestarted
  <2>5. BuildSchema(Fresh, build.raw.catalog, Opts) = Printed(all)
    <3> DEFINE shaped == TransformCatalog(Fresh, build.raw.catalog)
    <3>1. BuildSchema(Fresh, build.raw.catalog, Opts)
            = Printed(TransformSchema(shaped.p, shaped.c, Opts, New(shaped.p, shaped.c, Opts)))
      BY DEF BuildSchema
    <3>2. shaped.p = plugins /\ shaped.c = build.shaped
      BY <2>4
    <3> HIDE DEF shaped
    <3> QED
      BY <3>1, <3>2
  <2> HIDE DEF all
  <2>6. server'.b = Printed(all) /\ server'.catalog = build.raw.catalog
    BY <2>2, <2>3
  <2> QED
    BY <2>5, <2>6 DEF Fresh, Opts
<1>2. SwapInv /\ [Next]_vars => [server' # server => server'.b = Restarted]_vars
  BY <1>1
<1>3. Spec => []SwapInv
  BY InitSwapInv, StepSwapInv, PTL DEF Spec
<1>4. Spec => [][server' # server => server'.b = Restarted]_vars
  BY <1>2, <1>3, PTL DEF Spec
<1> QED
  BY <1>4 DEF SwapIsRestart

-----------------------------------------------------------------------------
(* SchemaWatch. *)

\* The instances of one deployment share the channel (watch.channel): an
\* instance with another one redirects the notifications of all of them.
SharedChannel == \A i, j \in Instances : ChannelOf[i] = ChannelOf[j]

\* One catalog is nowhere older than another.
NoOlder(cat, other) == other[1] <= cat[1] /\ other[2] <= cat[2]

\* What was read, is served and was hashed is of the past, and each stage of the
\* pipeline is behind the one before it.
StagesInOrder(i) ==
  /\ pc[i] \in {"load", "read_rest"} => seen[i][1] <= catalog
  /\ pc[i] \notin {"down", "load"} =>
       NoOlder(Current, executor[i]) /\ NoOlder(executor[i], sdl[i])
  /\ pc[i] = "read_rest" => executor[i][1] <= seen[i][1]
  /\ pc[i] = "rebuild" => NoOlder(Current, seen[i]) /\ NoOlder(seen[i], executor[i])
  /\ pc[i] = "store_sdl" => executor[i] = seen[i]

\* Only installTrigger leads to LISTEN.
ListenMode == \A i \in Instances : pc[i] = "listen" => mode[i] = "listen"

TypeInv == TypeOK /\ ListenMode

WatchInv == TypeInv /\ \A i \in Instances : StagesInOrder(i)

\* Both copies an instance serves are the given catalog.
Serves(i, cat) == executor[i] = cat /\ sdl[i] = cat

\* From its first query to LISTEN an instance that missed nothing has the catalog
\* as it is.
BootFresh(i) ==
  ~ missed[i] =>
    /\ pc[i] = "load" => seen[i][1] = catalog
    /\ pc[i] \in {"install", "create_trigger", "listen"} => Serves(i, Current)

InListenLoop(i) ==
  \/ pc[i] \in {"listen", "wait", "drain"}
  \/ pc[i] \in {"read", "read_rest", "rebuild", "store_sdl"} /\ mode[i] = "listen"

\* While it listens, whatever it has not yet read of the catalog is announced by
\* a notification in its queue or yet to be followed by the introspection.
ListenFresh(i) ==
  /\ pc[i] = "create_trigger" \/ InListenLoop(i) => function = ChannelOf[i]
  /\ InListenLoop(i) => trigger
  /\ mode[i] = "listen" /\ listening[i] /\ queue[i] = 0 =>
       /\ pc[i] = "wait" /\ ~ missed[i] => Serves(i, Current)
       /\ pc[i] = "read_rest" => seen[i][1] = catalog
       /\ pc[i] \in {"rebuild", "store_sdl"} => seen[i] = Current

\* A poller has a hash of what it serves, or nothing has changed since it booted.
PollFresh(i) ==
  mode[i] = "poll" =>
    /\ ~ missed[i] /\ pc[i] \in {"tick", "read", "read_rest"} =>
         Serves(i, IF lastHash[i] = Unread THEN Current ELSE lastHash[i])
    /\ ~ missed[i] /\ pc[i] = "read_rest" /\ lastHash[i] = Unread => seen[i][1] = catalog
    /\ pc[i] \in {"rebuild", "store_sdl"} => lastHash[i] = seen[i]

FreshInv ==
  /\ WatchInv
  /\ SharedChannel => \A i \in Instances : BootFresh(i) /\ ListenFresh(i) /\ PollFresh(i)
------------------------------------------------------------------------------
\* Catalogs, and what notifying does to the queues.
LEMMA UnreadType == Unread \in Catalogs
  BY WatchAssumption DEF Unread, Catalogs

LEMMA CatalogRest ==
  ASSUME NEW cat \in Catalogs, NEW v \in 0..MaxMigrations
  PROVE  [cat EXCEPT ![2] = v] = <<cat[1], v>> /\ <<cat[1], v>> \in Catalogs
  BY WatchAssumption DEF Catalogs

LEMMA NotifyType ==
  ASSUME queue \in [Instances -> Nat], NEW channel, Notify(channel)
  PROVE  /\ queue' \in [Instances -> Nat]
         /\ \A i \in Instances : queue'[i] # queue[i] => listening[i]
         /\ \A i \in Instances : queue[i] <= queue'[i]
  BY DEF Notify

\* What Serve does, with the catalog it has read by then.
LEMMA ServeStep ==
  ASSUME TypeOK, NEW i \in Instances, Serve(i)
  PROVE  \E cat \in Catalogs :
           /\ cat[1] = seen[i][1] /\ cat[2] = catalog
           /\ cat = <<seen[i][1], catalog>>
           /\ pc[i] = "load" /\ pc' = [pc EXCEPT ![i] = "install"]
           /\ seen' = [seen EXCEPT ![i] = cat]
           /\ executor' = [executor EXCEPT ![i] = cat] /\ sdl' = [sdl EXCEPT ![i] = cat]
           /\ UNCHANGED <<schema, conn, mode, lastHash, missed, faults>>
<1> DEFINE cat == <<seen[i][1], catalog>>
<1>1. cat \in Catalogs /\ seen' = [seen EXCEPT ![i] = cat]
  BY CatalogRest DEF Serve, TypeOK
<1>2. /\ pc[i] = "load" /\ pc' = [pc EXCEPT ![i] = "install"]
      /\ executor' = [executor EXCEPT ![i] = cat] /\ sdl' = [sdl EXCEPT ![i] = cat]
      /\ UNCHANGED <<schema, conn, mode, lastHash, missed, faults>>
  BY DEF Serve, Goto
<1> QED
  BY <1>1, <1>2

\* What ReadRest does, with the catalog it has read by then.
LEMMA ReadRestStep ==
  ASSUME TypeOK, NEW i \in Instances, ReadRest(i)
  PROVE  \E cat \in Catalogs :
           /\ cat[1] = seen[i][1] /\ cat[2] = catalog
           /\ cat = <<seen[i][1], catalog>>
           /\ pc[i] = "read_rest" /\ seen' = [seen EXCEPT ![i] = cat]
           /\ \/ pc' = [pc EXCEPT ![i] = "rebuild"]
              \/ /\ pc' = [pc EXCEPT ![i] = "tick"] /\ mode[i] = "poll"
                 /\ lastHash[i] = Unread \/ lastHash[i] = cat
           /\ lastHash' = IF mode[i] = "poll" THEN [lastHash EXCEPT ![i] = cat] ELSE lastHash
           /\ UNCHANGED <<schema, conn, mode, served, missed, faults>>
<1> DEFINE cat == <<seen[i][1], catalog>>
<1>1. cat \in Catalogs
  BY CatalogRest DEF TypeOK
<1>2. mode[i] \in {"listen", "poll"}
  BY DEF TypeOK
<1> QED
  BY <1>1, <1>2 DEF ReadRest, Drifted, Resume, Goto

LEMMA InitTypeInv == WatchInit => TypeInv
<1> SUFFICES ASSUME WatchInit PROVE TypeInv
  OBVIOUS
<1>1. catalog \in 0..MaxMigrations /\ faults \in 0..MaxFaults
  BY WatchAssumption DEF WatchInit
<1>2. /\ queue \in [Instances -> Nat] /\ pc \in [Instances -> Labels]
      /\ mode \in [Instances -> {"listen", "poll"}]
      /\ listening \in [Instances -> BOOLEAN] /\ missed \in [Instances -> BOOLEAN]
      /\ function \in {ChannelOf[i] : i \in Instances} \cup {NoChannel} /\ trigger \in BOOLEAN
  BY DEF WatchInit, Labels
<1>3. /\ seen \in [Instances -> Catalogs] /\ lastHash \in [Instances -> Catalogs]
      /\ executor \in [Instances -> Catalogs] /\ sdl \in [Instances -> Catalogs]
  BY UnreadType DEF WatchInit
<1>4. \A i \in Instances : queue[i] = 0 /\ pc[i] = "down"
  BY DEF WatchInit
<1> QED
  BY <1>1, <1>2, <1>3, <1>4 DEF TypeInv, ListenMode, TypeOK

LEMMA StepTypeInv == TypeInv /\ [WatchNext]_watchVars => TypeInv'
<1> SUFFICES ASSUME TypeInv, [WatchNext]_watchVars PROVE TypeInv'
  OBVIOUS
<1> USE WatchAssumption, UnreadType
    DEF TypeInv, ListenMode, TypeOK, Labels, Goto, Resume, Fault, schema, conn, served
<1>1. CASE Migrate
  BY <1>1, NotifyType DEF Migrate
<1>2. ASSUME NEW i \in Instances, LoadCatalog(i) PROVE TypeInv'
  BY <1>2 DEF LoadCatalog, Catalogs
<1>3. ASSUME NEW i \in Instances, Serve(i) PROVE TypeInv'
  BY <1>3, ServeStep
<1>4. ASSUME NEW i \in Instances, InstallFunction(i) PROVE TypeInv'
  BY <1>4, NotifyType DEF InstallFunction
<1>5. ASSUME NEW i \in Instances, InstallTrigger(i) PROVE TypeInv'
  BY <1>5 DEF InstallTrigger
<1>6. ASSUME NEW i \in Instances, Degrade(i) PROVE TypeInv'
  BY <1>6 DEF Degrade
<1>7. ASSUME NEW i \in Instances, Listen(i) PROVE TypeInv'
  BY <1>7 DEF Listen
<1>8. ASSUME NEW i \in Instances, Notified(i) PROVE TypeInv'
  BY <1>8 DEF Notified
<1>9. ASSUME NEW i \in Instances, Drain(i) PROVE TypeInv'
  BY <1>9 DEF Drain
<1>10. ASSUME NEW i \in Instances, Poll(i) PROVE TypeInv'
  BY <1>10 DEF Poll
<1>11. ASSUME NEW i \in Instances, Reread(i) PROVE TypeInv'
  BY <1>11 DEF Reread, Catalogs
<1>12. ASSUME NEW i \in Instances, ReadRest(i) PROVE TypeInv'
  BY <1>12, ReadRestStep
<1>13. ASSUME NEW i \in Instances, ReadFails(i) PROVE TypeInv'
  BY <1>13 DEF ReadFails
<1>14. ASSUME NEW i \in Instances, StoreExecutor(i) PROVE TypeInv'
  BY <1>14 DEF StoreExecutor
<1>15. ASSUME NEW i \in Instances, StoreSDL(i) PROVE TypeInv'
  BY <1>15 DEF StoreSDL
<1>16. ASSUME NEW i \in Instances, RebuildFails(i) PROVE TypeInv'
  BY <1>16 DEF RebuildFails
<1>17. ASSUME NEW i \in Instances, ConnLost(i) PROVE TypeInv'
  BY <1>17 DEF ConnLost
<1>18. ASSUME NEW i \in Instances, WatcherStops(i) PROVE TypeInv'
  BY <1>18 DEF WatcherStops
<1>19. ASSUME NEW i \in Instances, Crash(i) PROVE TypeInv'
  BY <1>19 DEF Crash
<1>20. CASE UNCHANGED watchVars
  BY <1>20 DEF watchVars
<1> QED
  BY <1>1, <1>2, <1>3, <1>4, <1>5, <1>6, <1>7, <1>8, <1>9, <1>10, <1>11, <1>12,
     <1>13, <1>14, <1>15, <1>16, <1>17, <1>18, <1>19, <1>20
  DEF WatchNext, Boot, Watcher, Failure
------------------------------------------------------------------------------
\* Every step keeps the stages in order: versions only grow, and each stage takes
\* over what the one before it has.
LEMMA StepWatchInv == WatchInv /\ [WatchNext]_watchVars => WatchInv'
<1> SUFFICES ASSUME WatchInv, [WatchNext]_watchVars, NEW j \in Instances PROVE StagesInOrder(j)'
  BY StepTypeInv DEF WatchInv
<1>t. /\ TypeOK /\ \A i \in Instances : StagesInOrder(i)
      /\ catalog \in Nat /\ catalog' \in Nat
      /\ \A i \in Instances : /\ seen[i][1] \in Nat /\ seen[i][2] \in Nat
                               /\ executor[i][1] \in Nat /\ executor[i][2] \in Nat
                               /\ sdl[i][1] \in Nat /\ sdl[i][2] \in Nat
      /\ pc \in [Instances -> Labels] /\ seen \in [Instances -> Catalogs]
      /\ executor \in [Instances -> Catalogs] /\ sdl \in [Instances -> Catalogs]
      /\ Current[1] = catalog /\ Current[2] = catalog
  BY StepTypeInv, WatchAssumption DEF WatchInv, TypeInv, TypeOK, Catalogs, Current
<1> USE <1>t DEF Labels, Goto, Resume, schema, conn, served, StagesInOrder, NoOlder
<1>1. CASE Migrate
  BY <1>1 DEF Migrate, Current
<1>2. ASSUME NEW i \in Instances, LoadCatalog(i) PROVE StagesInOrder(j)'
  BY <1>2 DEF LoadCatalog, Current
<1>3. ASSUME NEW i \in Instances, Serve(i) PROVE StagesInOrder(j)'
  BY <1>3, ServeStep DEF Current
<1>4. ASSUME NEW i \in Instances, InstallFunction(i) PROVE StagesInOrder(j)'
  BY <1>4 DEF InstallFunction, Current
<1>5. ASSUME NEW i \in Instances, InstallTrigger(i) PROVE StagesInOrder(j)'
  BY <1>5 DEF InstallTrigger, Current
<1>6. ASSUME NEW i \in Instances, Degrade(i) PROVE StagesInOrder(j)'
  BY <1>6 DEF Degrade, Current
<1>7. ASSUME NEW i \in Instances, Listen(i) PROVE StagesInOrder(j)'
  BY <1>7 DEF Listen, Current
<1>8. ASSUME NEW i \in Instances, Notified(i) PROVE StagesInOrder(j)'
  BY <1>8 DEF Notified, Current
<1>9. ASSUME NEW i \in Instances, Drain(i) PROVE StagesInOrder(j)'
  BY <1>9 DEF Drain, Current
<1>10. ASSUME NEW i \in Instances, Poll(i) PROVE StagesInOrder(j)'
  BY <1>10 DEF Poll, Current
<1>11. ASSUME NEW i \in Instances, Reread(i) PROVE StagesInOrder(j)'
  BY <1>11 DEF Reread, Current
<1>12. ASSUME NEW i \in Instances, ReadRest(i) PROVE StagesInOrder(j)'
  BY <1>12, ReadRestStep DEF Current
<1>13. ASSUME NEW i \in Instances, ReadFails(i) PROVE StagesInOrder(j)'
  BY <1>13 DEF ReadFails, Current
<1>14. ASSUME NEW i \in Instances, StoreExecutor(i) PROVE StagesInOrder(j)'
  BY <1>14 DEF StoreExecutor, Current
<1>15. ASSUME NEW i \in Instances, StoreSDL(i) PROVE StagesInOrder(j)'
  BY <1>15 DEF StoreSDL, Current
<1>16. ASSUME NEW i \in Instances, RebuildFails(i) PROVE StagesInOrder(j)'
  BY <1>16 DEF RebuildFails, Current
<1>17. ASSUME NEW i \in Instances, ConnLost(i) PROVE StagesInOrder(j)'
  BY <1>17 DEF ConnLost, Current
<1>18. ASSUME NEW i \in Instances, WatcherStops(i) PROVE StagesInOrder(j)'
  BY <1>18 DEF WatcherStops, Current
<1>19. ASSUME NEW i \in Instances, Crash(i) PROVE StagesInOrder(j)'
  BY <1>19 DEF Crash, Current
<1>20. CASE UNCHANGED watchVars
  BY <1>20 DEF watchVars, Current
<1> QED
  BY <1>1, <1>2, <1>3, <1>4, <1>5, <1>6, <1>7, <1>8, <1>9, <1>10, <1>11, <1>12,
     <1>13, <1>14, <1>15, <1>16, <1>17, <1>18, <1>19, <1>20
  DEF WatchNext, Boot, Watcher, Failure
------------------------------------------------------------------------------
\* Every step keeps the served catalog fresh, or announced, or marked as missed.
LEMMA StepFreshInv == FreshInv /\ [WatchNext]_watchVars => FreshInv'
<1> SUFFICES ASSUME FreshInv, [WatchNext]_watchVars, SharedChannel, NEW j \in Instances
             PROVE  BootFresh(j)' /\ ListenFresh(j)' /\ PollFresh(j)'
  BY StepWatchInv DEF FreshInv, SharedChannel
<1>t. /\ TypeOK /\ TypeOK' /\ TypeInv
      /\ \A i \in Instances : BootFresh(i) /\ ListenFresh(i) /\ PollFresh(i)
      /\ Unread[1] = MaxMigrations + 1 /\ MaxMigrations \in Nat
      /\ Current[1] = catalog /\ Current[2] = catalog
  BY StepTypeInv, WatchAssumption DEF FreshInv, WatchInv, TypeInv, Unread, Current
<1>w. \A i \in Instances : StagesInOrder(i)
  BY DEF FreshInv, WatchInv
<1> DEFINE Goal == BootFresh(j)' /\ ListenFresh(j)' /\ PollFresh(j)'
<1>u. UNCHANGED catalog => UNCHANGED Current
  BY DEF Current
<1> USE <1>t, <1>u
    DEF TypeInv, ListenMode, TypeOK, Labels, Goto, Resume, schema, conn, served,
        BootFresh,
        ListenFresh, InListenLoop, PollFresh, Serves, SharedChannel
<1>1. CASE Migrate
  <2>1. /\ pc' = pc /\ mode' = mode /\ seen' = seen /\ listening' = listening
        /\ executor' = executor /\ sdl' = sdl /\ lastHash' = lastHash
        /\ function' = function /\ trigger' = trigger
        /\ missed'[j] = (missed[j] \/ Blind(j))
        /\ queue'[j] = IF trigger /\ listening[j] /\ ChannelOf[j] = function
                         THEN queue[j] + 1 ELSE queue[j]
    BY <1>1 DEF Migrate, Notify
  <2>2. BootFresh(j)'
    BY <2>1 DEF Blind
  <2>3. ListenFresh(j)'
    BY <2>1
  <2>4. PollFresh(j)'
    BY <2>1 DEF Blind
  <2> QED
    BY <2>2, <2>3, <2>4
<1>2. ASSUME NEW i \in Instances, LoadCatalog(i) PROVE Goal
  BY <1>2 DEF LoadCatalog
<1>3. ASSUME NEW i \in Instances, Serve(i) PROVE Goal
  BY <1>3, ServeStep DEF Current
<1>4. ASSUME NEW i \in Instances, InstallFunction(i) PROVE Goal
  BY <1>4 DEF InstallFunction, Notify
<1>5. ASSUME NEW i \in Instances, InstallTrigger(i) PROVE Goal
  BY <1>5 DEF InstallTrigger
<1>6. ASSUME NEW i \in Instances, Degrade(i) PROVE Goal
  BY <1>6 DEF Degrade
<1>7. ASSUME NEW i \in Instances, Listen(i) PROVE Goal
  BY <1>7 DEF Listen
<1>8. ASSUME NEW i \in Instances, Notified(i) PROVE Goal
  BY <1>8 DEF Notified
<1>9. ASSUME NEW i \in Instances, Drain(i) PROVE Goal
  BY <1>9 DEF Drain
<1>10. ASSUME NEW i \in Instances, Poll(i) PROVE Goal
  BY <1>10 DEF Poll
<1>11. ASSUME NEW i \in Instances, Reread(i) PROVE Goal
  BY <1>11 DEF Reread
<1>12. ASSUME NEW i \in Instances, ReadRest(i) PROVE Goal
  <2>1. PICK cat \in Catalogs :
          /\ cat = <<seen[i][1], catalog>> /\ cat[1] = seen[i][1] /\ cat[2] = catalog
          /\ pc[i] = "read_rest" /\ seen' = [seen EXCEPT ![i] = cat]
          /\ \/ pc' = [pc EXCEPT ![i] = "rebuild"]
             \/ /\ pc' = [pc EXCEPT ![i] = "tick"] /\ mode[i] = "poll"
                /\ lastHash[i] = Unread \/ lastHash[i] = cat
          /\ lastHash' = IF mode[i] = "poll" THEN [lastHash EXCEPT ![i] = cat] ELSE lastHash
          /\ UNCHANGED <<schema, conn, mode, served, missed, faults>>
    BY <1>12, ReadRestStep
  <2>2. BootFresh(j)'
    BY <2>1 DEF Current
  <2>3. ListenFresh(j)'
    BY <2>1 DEF Current
  <2>4. PollFresh(j)'
    <3>1. CASE i # j
      BY <2>1, <3>1
    <3>2. CASE i = j /\ pc' = [pc EXCEPT ![i] = "rebuild"]
      BY <2>1, <3>2
    <3>3. CASE i = j /\ pc' = [pc EXCEPT ![i] = "tick"] /\ mode[i] = "poll" /\ lastHash[i] = cat
      <4>1. lastHash' = lastHash
        BY <2>1, <3>3
      <4> QED
        BY <2>1, <3>3, <4>1
    <3>4. CASE i = j /\ pc' = [pc EXCEPT ![i] = "tick"] /\ mode[i] = "poll" /\ lastHash[i] = Unread
      <4>1. lastHash'[j] = cat
        BY <2>1, <3>4
      <4>2. ~missed[j] => Serves(j, Current) /\ cat = Current
        BY <2>1, <3>4 DEF Current
      <4> QED
        BY <2>1, <3>4, <4>1, <4>2
    <3> QED
      BY <2>1, <3>1, <3>2, <3>3, <3>4
  <2> QED
    BY <2>2, <2>3, <2>4
<1>13. ASSUME NEW i \in Instances, ReadFails(i) PROVE Goal
  BY <1>13 DEF ReadFails
<1>14. ASSUME NEW i \in Instances, StoreExecutor(i) PROVE Goal
  BY <1>14 DEF StoreExecutor
<1>15. ASSUME NEW i \in Instances, StoreSDL(i) PROVE Goal
  <2>1. executor[i] = seen[i] /\ seen[i] # Unread
    BY <1>15, <1>w DEF StoreSDL, StagesInOrder, NoOlder
  <2> QED
    BY <1>15, <2>1 DEF StoreSDL
<1>16. ASSUME NEW i \in Instances, RebuildFails(i) PROVE Goal
  BY <1>16 DEF RebuildFails
<1>17. ASSUME NEW i \in Instances, ConnLost(i) PROVE Goal
  BY <1>17 DEF ConnLost
<1>18. ASSUME NEW i \in Instances, WatcherStops(i) PROVE Goal
  BY <1>18 DEF WatcherStops
<1>19. ASSUME NEW i \in Instances, Crash(i) PROVE Goal
  BY <1>19 DEF Crash
<1>20. CASE UNCHANGED watchVars
  BY <1>20 DEF watchVars
<1> QED
  BY <1>1, <1>2, <1>3, <1>4, <1>5, <1>6, <1>7, <1>8, <1>9, <1>10, <1>11, <1>12,
     <1>13, <1>14, <1>15, <1>16, <1>17, <1>18, <1>19, <1>20
  DEF WatchNext, Boot, Watcher, Failure
------------------------------------------------------------------------------
LEMMA InitFreshInv == WatchInit => FreshInv
<1> SUFFICES ASSUME WatchInit PROVE FreshInv
  OBVIOUS
<1>1. \A i \in Instances : pc[i] = "down" /\ ~ listening[i] /\ mode[i] = "listen"
  BY DEF WatchInit
<1>2. \A i \in Instances : StagesInOrder(i) /\ BootFresh(i) /\ ListenFresh(i) /\ PollFresh(i)
  BY <1>1 DEF StagesInOrder, BootFresh, ListenFresh, InListenLoop, PollFresh
<1> QED
  BY <1>2, InitTypeInv DEF FreshInv, WatchInv

LEMMA FreshHolds == WatchSpec => []FreshInv
  BY InitFreshInv, StepFreshInv, PTL DEF WatchSpec

\* Every reachable state is well typed, only a listening watcher is notified and
\* each mechanism stays in its own loop, for any instances and failures (Run).
THEOREM WatchTypeCorrect == WatchSpec => []TypeOK
<1>1. FreshInv => TypeOK
  BY DEF FreshInv, WatchInv, TypeInv
<1> QED
  BY <1>1, FreshHolds, PTL

\* No instance ever serves an SDL that is newer than its executor, wherever DDL
\* commands fall between the queries of its introspection (the stores in Swap).
THEOREM SdlFollowsExecutor == WatchSpec => []SdlNeverAhead
<1>1. FreshInv => SdlNeverAhead
  BY DEF FreshInv, WatchInv, StagesInOrder, NoOlder, SdlNeverAhead
<1> QED
  BY <1>1, FreshHolds, PTL

\* For any number of instances on one channel no DDL command falls between the
\* steps of a watcher: a listener with nothing queued serves the catalog as it
\* is, a poller what it last hashed (listen, drainNotifications, poll).
THEOREM NoChangeIsLost == WatchSpec => [](SharedChannel => NothingLost)
<1>1. FreshInv => (SharedChannel => NothingLost)
  <2> SUFFICES ASSUME FreshInv, SharedChannel, NEW i \in Instances, ~ missed[i]
               PROVE  /\ pc[i] = "wait" /\ listening[i] /\ queue[i] = 0 =>
                           Serves(i, Current)
                      /\ pc[i] = "tick" /\ lastHash[i] # Unread => Serves(i, lastHash[i])
    BY DEF NothingLost, Serves
  <2> QED
    BY DEF FreshInv, WatchInv, TypeInv, TypeOK, ListenFresh, PollFresh
<1> QED
  BY <1>1, FreshHolds, PTL
=============================================================================
