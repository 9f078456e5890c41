--------------------------- MODULE Admission_proof ---------------------------
(***************************************************************************)
(* For every configuration Validate accepts and whatever a request presents,  *)
(* its statements run under a role the configuration names or lists.  For     *)
(* every operation, what checkLimits measures bounds what runs: the root       *)
(* fields, the compiler's depth and the values of the response.              *)
(*                                                                         *)
(* The operators of Limits are recursive functions over selection sets.  That *)
(* each satisfies its own equation is proved from the rank Nesting gives a     *)
(* selection set (Recursion); what holds of all of them, from what holds of    *)
(* those that nest less (ByRank).                                           *)
(***************************************************************************)
EXTENDS Admission, FiniteSetTheorems, SequenceTheorems, WellFoundedInduction, TLAPS

\* A role a request may have once it is authenticated.
Authorised(r) ==
  r \in Roles /\ (r \in cfg.allowed \cup {cfg.anonymous, cfg.default} \/ cfg.allowed = {})

\* The handler knows the role from Authenticate on, the session from Begin on.
RoleKnown == pc \in {"authenticated", "admitted", "running"} /\ cfg.enabled => Authorised(role)
SessionRole ==
  /\ pc = "running" /\ cfg.enabled => sesRole = role
  /\ pc # "running" => sesRole = NoRole
\* No limit is exceeded from Admit on.
Checked == pc \in {"admitted", "running"} => checkLimits(op) = "ok"
Inv == TypeOK /\ Presented /\ RoleKnown /\ SessionRole /\ Checked

\* Authenticator: with RLS enabled, what is not refused has an authorised role.
LEMMA IdentityAuthorised ==
  ASSUME cfg \in Configs, credential \in Credentials, ~Unauthorized, Presented
  PROVE  /\ Identity \in Roles \cup {NoRole}
         /\ cfg.enabled => Authorised(Identity)
<1>1. CASE ~cfg.enabled
  BY <1>1 DEF Identity
<1>2. CASE cfg.enabled
  <2>1. cfg.anonymous \in Roles /\ cfg.default \in Roles \cup {NoRole}
    BY <1>2 DEF Configs
  <2>2. Fallback \in Roles /\ Authorised(Fallback)
    BY <2>1 DEF Fallback, Authorised
  <2>3. CASE cfg.mode = "none" \/ credential.kind = "absent"
    <3>1. Identity = cfg.anonymous
      BY <1>2, <2>3 DEF Identity
    <3> QED
      BY <2>1, <3>1 DEF Authorised
  <2>4. CASE cfg.mode # "none" /\ credential.kind = "claims"
    <3>1. Identity = IF credential.role = NoRole THEN Fallback ELSE credential.role
      BY <1>2, <2>4 DEF Identity
    <3>2. credential.role \in Roles \cup {NoRole}
      BY <2>4 DEF Credentials
    <3>3. credential.role # NoRole => roleAllowed(credential.role)
      BY <1>2, <2>4 DEF Unauthorized
    <3> QED
      BY <2>2, <3>1, <3>2, <3>3 DEF Authorised, roleAllowed
  <2>5. cfg.mode \in {"jwt", "headers", "none"} /\ credential.kind \in {"absent", "bad", "claims"}
    BY DEF Configs, Credentials
  <2>6. cfg.mode = "none" \/ credential.kind \in {"absent", "claims"}
    BY <1>2, <2>5 DEF Unauthorized, Presented
  <2> QED
    BY <2>3, <2>4, <2>6
<1> QED
  BY <1>1, <1>2

LEMMA InitInv == Init => Inv
<1> SUFFICES ASSUME Init PROVE Inv
  OBVIOUS
<1>1. PICK a \in Arrivals : cfg = a.cfg /\ credential = a.credential /\ op = a.op /\ txAsked = a.txAsked
  BY DEF Init
<1>2. cfg \in Configs /\ credential \in Credentials /\ op \in Operations /\ txAsked \in BOOLEAN
  BY <1>1, AdmissionAssumption
<1> QED
  BY <1>2 DEF Init, Inv, TypeOK, RoleKnown, SessionRole, Checked

LEMMA StepInv == Inv /\ [Next]_vars => Inv'
<1> SUFFICES ASSUME Inv, [Next]_vars PROVE Inv'
  OBVIOUS
<1>1. CASE Authenticate
  <2>1. UNCHANGED <<cfg, credential, op, txAsked, sesRole>> /\ role' = Identity /\ pc = "received" /\ pc' = "authenticated"
    BY <1>1 DEF Authenticate
  <2>2. Identity \in Roles \cup {NoRole} /\ (cfg.enabled => Authorised(Identity))
    BY <1>1, IdentityAuthorised DEF Authenticate, Inv, TypeOK
  <2>3. TypeOK'
    BY <2>1, <2>2 DEF Inv, TypeOK
  <2>4. RoleKnown'
    BY <2>1, <2>2 DEF RoleKnown, Authorised
  <2>5. SessionRole' /\ Presented' /\ Checked'
    BY <2>1 DEF Inv, SessionRole, Presented, Checked
  <2> QED
    BY <2>3, <2>4, <2>5 DEF Inv
<1>2. CASE Reject401
  BY <1>2 DEF Reject401, Inv, TypeOK, Presented, RoleKnown, SessionRole, Checked
<1>3. CASE Admit
  BY <1>3 DEF Admit, Inv, TypeOK, Presented, RoleKnown, SessionRole, Checked, Authorised
<1>4. CASE OverLimit
  BY <1>4 DEF OverLimit, Inv, TypeOK, Presented, RoleKnown, SessionRole, Checked
<1>5. CASE Begin
  BY <1>5 DEF Begin, Inv, TypeOK, Presented, RoleKnown, SessionRole, Checked, Authorised
<1>6. CASE InvalidRole
  BY <1>6 DEF InvalidRole, Inv, TypeOK, Presented, RoleKnown, SessionRole, Checked
<1>7. CASE RunOnPool
  <2>1. ~cfg.enabled
    BY <1>7, AdmissionAssumption DEF RunOnPool, needTx, Inv, RoleKnown, Authorised
  <2> QED
    BY <1>7, <2>1 DEF RunOnPool, Inv, TypeOK, Presented, RoleKnown, SessionRole, Checked
<1>8. CASE UNCHANGED vars
  BY <1>8 DEF vars, Inv, TypeOK, Presented, RoleKnown, SessionRole, Checked, Authorised
<1> QED
  BY <1>1, <1>2, <1>3, <1>4, <1>5, <1>6, <1>7, <1>8 DEF Next

\* Every reachable state is well typed, and no refused request has a role on its
\* session (Reject401, OverLimit, InvalidRole).
THEOREM TypeCorrect == Spec => []TypeOK
<1>1. Inv => TypeOK
  BY DEF Inv
<1> QED
  BY InitInv, StepInv, <1>1, PTL DEF Spec

\* With RLS enabled no statement runs as the connection's own role or under one
\* that is neither configured nor listed (resolve, roleAllowed, needTx, applyRLS).
THEOREM StatementsRunAuthorised == Spec => []NeverPrivileged
<1>1. Inv => NeverPrivileged
  BY AdmissionAssumption DEF Inv, RoleKnown, SessionRole, Authorised, NeverPrivileged
<1> QED
  BY InitInv, StepInv, <1>1, PTL DEF Spec
-----------------------------------------------------------------------------
\* Recursion over what has a rank.

LEMMA Least ==
  ASSUME NEW T, T \subseteq Nat, T # {}
  PROVE  \E n \in T : \A m \in T : n <= m
<1>1. \E n \in T : \A m \in T : ~(<<m, n>> \in OpToRel(<, Nat))
  BY NatLessThanWellFounded, WFMin
<1>2. OpToRel(<, Nat) = {p \in Nat \X Nat : p[1] < p[2]}
  BY Zenon DEF OpToRel
<1>3. PICK n \in T : \A m \in T : ~(<<m, n>> \in {p \in Nat \X Nat : p[1] < p[2]})
  BY <1>1, <1>2, Zenon
<1>4. ASSUME NEW m \in T, m < n PROVE FALSE
  <2>1. <<m, n>> \in Nat \X Nat /\ <<m, n>>[1] < <<m, n>>[2]
    BY <1>4
  <2> QED
    BY <1>3, <2>1
<1> QED
  BY <1>4

\* What an element has when all below it have it, all have.
LEMMA ByRank ==
  ASSUME NEW D, NEW h, \A x \in D : h[x] \in Nat,
         NEW S, \A x \in D : (\A y \in D : h[y] < h[x] => y \in S) => x \in S
  PROVE  D \subseteq S
<1> DEFINE T == {h[x] : x \in D \ S}
<1> SUFFICES ASSUME T # {} PROVE FALSE
  OBVIOUS
<1>0. T \subseteq Nat
  OBVIOUS
<1> HIDE DEF T
<1>1. PICK n \in T : \A m \in T : n <= m
  BY <1>0, Least
<1>2. PICK x \in D \ S : h[x] = n
  BY <1>1 DEF T
<1>3. ASSUME NEW y \in D, h[y] < h[x], y \notin S PROVE FALSE
  <2>1. h[y] \in T /\ h[y] \in Nat /\ n \in Nat
    BY <1>0, <1>1, <1>3 DEF T
  <2>2. n <= h[y] /\ h[y] < n
    BY <1>1, <1>2, <1>3, <2>1
  <2> QED
    BY <2>1, <2>2
<1> QED
  BY <1>2, <1>3

\* A body that looks only at what is below has a function of its own.
Solves(f, B, h, D, n) == \A x \in D : h[x] < n => f[x] = B[f][x]

Agree(f, g, h, D, n) == \A x \in D : h[x] < n => f[x] = g[x]

Local(B, h, D, V) ==
  \A f, g \in [D -> V] : \A x \in D :
    (\A y \in D : h[y] < h[x] => f[y] = g[y]) => B[f][x] = B[g][x]

Solvable(B, D, V) == \E f \in [D -> V] : \A x \in D : f[x] = B[f][x]

LEMMA SolvedOnce ==
  ASSUME NEW D, NEW V, NEW h, \A x \in D : h[x] \in Nat, NEW B, Local(B, h, D, V),
         NEW n \in Nat, NEW f \in [D -> V], NEW g \in [D -> V],
         Solves(f, B, h, D, n), Solves(g, B, h, D, n)
  PROVE  Agree(f, g, h, D, n)
<1> DEFINE S == {x \in D : h[x] < n => f[x] = g[x]}
<1>1. ASSUME NEW x \in D, \A y \in D : h[y] < h[x] => y \in S PROVE x \in S
  <2> SUFFICES ASSUME h[x] < n PROVE f[x] = g[x]
    OBVIOUS
  <2>1. ASSUME NEW y \in D, h[y] < h[x] PROVE f[y] = g[y]
    BY <1>1, <2>1
  <2>2. B[f][x] = B[g][x]
    BY <2>1 DEF Local
  <2> QED
    BY <2>2 DEF Solves
<1> HIDE DEF S
<1>2. D \subseteq S
  BY <1>1, ByRank
<1> QED
  BY <1>2 DEF S, Agree

LEMMA Recursion ==
  ASSUME NEW D, NEW V, V # {}, NEW h, \A x \in D : h[x] \in Nat,
         NEW B, \A f \in [D -> V] : B[f] \in [D -> V], Local(B, h, D, V)
  PROVE  Solvable(B, D, V)
<1> DEFINE N == {n \in Nat : \E f \in [D -> V] : Solves(f, B, h, D, n)}
           id == [n \in Nat |-> n]
<1>1. ASSUME NEW n \in Nat, \A m \in Nat : id[m] < id[n] => m \in N PROVE n \in N
  <2>1. CASE n = 0
    <3>1. PICK v \in V : TRUE
      OBVIOUS
    <3>2. [x \in D |-> v] \in [D -> V]
      OBVIOUS
    <3>3. Solves([x \in D |-> v], B, h, D, 0)
      BY DEF Solves
    <3> QED
      BY <2>1, <3>2, <3>3
  <2>2. CASE n # 0
    <3>1. n - 1 \in N
      BY <1>1, <2>2
    <3>2. PICK f \in [D -> V] : Solves(f, B, h, D, n - 1)
      BY <3>1
    <3>3. ASSUME NEW x \in D, h[x] < n PROVE B[f][x] = B[B[f]][x]
      <4>1. ASSUME NEW y \in D, h[y] < h[x] PROVE f[y] = B[f][y]
        <5>1. h[y] < n - 1
          BY <3>3, <4>1
        <5> QED
          BY <3>2, <5>1 DEF Solves
      <4> QED
        BY <4>1 DEF Local
    <3>4. B[f] \in [D -> V] /\ Solves(B[f], B, h, D, n)
      BY <3>3 DEF Solves
    <3> QED
      BY <3>4
  <2> QED
    BY <2>1, <2>2
<1>2. \A n \in Nat : id[n] \in Nat
  OBVIOUS
<1> HIDE DEF N, id
<1>3. Nat \subseteq N
  BY <1>1, <1>2, ByRank, ZenonT(40)
<1> DEFINE ap(n) == CHOOSE f \in [D -> V] : Solves(f, B, h, D, n)
           F == [x \in D |-> ap(h[x] + 1)[x]]
<1>4. ASSUME NEW n \in Nat PROVE ap(n) \in [D -> V] /\ Solves(ap(n), B, h, D, n)
  <2>1. \E f \in [D -> V] : Solves(f, B, h, D, n)
    BY <1>3 DEF N
  <2> QED
    BY <2>1
<1> HIDE DEF ap
<1>5. F \in [D -> V]
  <2>1. ASSUME NEW x \in D PROVE ap(h[x] + 1)[x] \in V
    BY <1>4
  <2> QED
    BY <2>1
<1>6. ASSUME NEW x \in D PROVE F[x] = B[F][x]
  <2> DEFINE f == ap(h[x] + 1)
  <2>1. f \in [D -> V] /\ Solves(f, B, h, D, h[x] + 1) /\ h[x] \in Nat
    BY <1>4
  <2> HIDE DEF f
  <2>2. ASSUME NEW y \in D, h[y] < h[x] PROVE F[y] = f[y]
    <3> DEFINE g == ap(h[y] + 1)
    <3>1. h[y] + 1 \in Nat /\ h[y] < h[y] + 1
      OBVIOUS
    <3>2. g \in [D -> V] /\ Solves(g, B, h, D, h[y] + 1)
      BY <1>4, <3>1
    <3>3. F[y] = g[y]
      OBVIOUS
    <3> HIDE DEF g, F
    <3>4. Solves(f, B, h, D, h[y] + 1)
      <4>1. ASSUME NEW z \in D, h[z] < h[y] + 1 PROVE h[z] < h[x] + 1
        BY <2>1, <2>2, <4>1
      <4> QED
        BY <2>1, <4>1 DEF Solves
    <3>5. Agree(g, f, h, D, h[y] + 1)
      BY <2>1, <3>1, <3>2, <3>4, SolvedOnce
    <3>6. g[y] = f[y]
      BY <3>1, <3>5 DEF Agree
    <3> QED
      BY <3>3, <3>6
  <2>3. F[x] = f[x]
    BY DEF f
  <2>4. h[x] < h[x] + 1
    BY <2>1
  <2> HIDE DEF F
  <2>5. B[F][x] = B[f][x]
    BY <1>5, <2>1, <2>2 DEF Local
  <2> QED
    BY <2>1, <2>3, <2>4, <2>5 DEF Solves
<1> HIDE DEF F
<1> QED
  BY <1>5, <1>6 DEF Solvable

LEMMA MaxOf ==
  ASSUME NEW T, T \subseteq Nat, NEW b \in Nat, \A t \in T : t <= b
  PROVE  /\ Max({0} \cup T) \in {0} \cup T /\ Max({0} \cup T) \in Nat
         /\ \A t \in T : t <= Max({0} \cup T)
<1> DEFINE U == {0} \cup T
           Bounds == {n \in Nat : \A t \in U : t <= n}
<1>1. b \in Bounds /\ Bounds \subseteq Nat /\ U \subseteq Nat
  OBVIOUS
<1>2. PICK m \in Bounds : \A n \in Bounds : m <= n
  BY <1>1, Least
<1>3. m \in U
  <2> SUFFICES ASSUME m \notin U PROVE FALSE
    OBVIOUS
  <2>1. m \in Nat /\ m # 0 /\ \A t \in U : t <= m /\ t # m
    BY <1>2
  <2>2. m - 1 \in Nat /\ \A t \in U : t <= m - 1
    BY <1>1, <2>1
  <2> QED
    BY <1>2, <2>2
<1>4. \A t \in U : m >= t
  BY <1>1, <1>2
<1> HIDE DEF U
<1>5. Max(U) \in U /\ \A t \in U : Max(U) >= t
  BY <1>3, <1>4 DEF Max
<1> QED
  BY <1>1, <1>5 DEF U

LEMMA Bounded ==
  ASSUME NEW n \in Nat, NEW w, \A i \in 1..n : w[i] \in Nat
  PROVE  \E b \in Nat : \A i \in 1..n : w[i] <= b
<1> DEFINE D == 0..n
           S == {k \in D : \E b \in Nat : \A i \in 1..k : w[i] <= b}
           id == [k \in D |-> k]
<1>1. ASSUME NEW k \in D, \A j \in D : id[j] < id[k] => j \in S PROVE k \in S
  <2>1. CASE k = 0
    BY <2>1
  <2>2. CASE k # 0
    <3>0. k - 1 \in D /\ k - 1 < k
      BY <2>2
    <3>1. k - 1 \in S
      BY <1>1, <3>0
    <3>2. PICK b \in Nat : \A i \in 1..(k - 1) : w[i] <= b
      BY <3>1
    <3>3. w[k] \in Nat
      BY <2>2
    <3>4. PICK c \in Nat : b <= c /\ w[k] <= c
      BY <3>3
    <3>5. \A i \in 1..k : w[i] <= c
      BY <3>2, <3>4
    <3> QED
      BY <3>5
  <2> QED
    BY <2>1, <2>2
<1>2. \A k \in D : id[k] \in Nat
  OBVIOUS
<1> HIDE DEF S, id, D
<1>3. D \subseteq S
  BY <1>1, <1>2, ByRank
<1>4. n \in S
  BY <1>3 DEF D
<1> QED
  BY <1>4 DEF S
-----------------------------------------------------------------------------
\* Depth.

LEMMA Selection ==
  ASSUME NEW sel \in Selections
  PROVE  /\ Len(sel) \in Nat /\ DOMAIN sel = 1..Len(sel) /\ Indices(sel) \subseteq DOMAIN sel
         /\ \A i \in DOMAIN sel : sel[i].sub \in Selections /\ Nesting[sel[i].sub] < Nesting[sel]
<1>1. sel \in Seq({sel[i] : i \in DOMAIN sel})
  BY LimitsAssumption
<1>2. Len(sel) \in Nat /\ DOMAIN sel = 1..Len(sel)
  BY <1>1, LenProperties
<1> QED
  BY <1>2, LimitsAssumption, NestingAssumption DEF Indices

\* The greatest of some numbers along the selected items.
Tops(m, sel, w) ==
  m \in Nat /\ (\A i \in Indices(sel) : w[i] <= m) /\ (m = 0 \/ \E i \in Indices(sel) : m = w[i])

LEMMA MaxOver ==
  ASSUME NEW sel \in Selections, NEW w, \A i \in DOMAIN sel : w[i] \in Nat
  PROVE  Tops(Max({0} \cup {w[i] : i \in Indices(sel)}), sel, w)
<1> DEFINE T == {w[i] : i \in Indices(sel)}
<1>1. Len(sel) \in Nat /\ DOMAIN sel = 1..Len(sel) /\ Indices(sel) \subseteq DOMAIN sel
  BY Selection
<1>2. PICK b \in Nat : \A i \in 1..Len(sel) : w[i] <= b
  BY <1>1, Bounded
<1>3. T \subseteq Nat /\ \A t \in T : t <= b
  BY <1>1, <1>2
<1>4. \A i \in Indices(sel) : w[i] \in T
  OBVIOUS
<1>5. \A t \in T : \E i \in Indices(sel) : t = w[i]
  OBVIOUS
<1> HIDE DEF T
<1>6. /\ Max({0} \cup T) \in {0} \cup T /\ Max({0} \cup T) \in Nat
      /\ \A t \in T : t <= Max({0} \cup T)
  BY <1>3, MaxOf
<1>7. Tops(Max({0} \cup T), sel, w)
  BY <1>4, <1>5, <1>6 DEF Tops
<1> QED
  BY <1>7 DEF T

Deeper(f, sel) == Max({0} \cup {Level(item) + f[item.sub] : item \in Included(sel)})

LEMMA DeeperIs ==
  ASSUME NEW sel \in Selections, NEW f, \A i \in DOMAIN sel : f[sel[i].sub] \in Nat
  PROVE  Tops(Deeper(f, sel), sel, [i \in DOMAIN sel |-> Level(sel[i]) + f[sel[i].sub]])
<1> DEFINE w == [i \in DOMAIN sel |-> Level(sel[i]) + f[sel[i].sub]]
<1>1. \A i \in DOMAIN sel : Level(sel[i]) \in Nat
  BY DEF Level
<1>2. \A i \in DOMAIN sel : w[i] \in Nat
  BY <1>1
<1>3. {Level(item) + f[item.sub] : item \in Included(sel)} = {w[i] : i \in Indices(sel)}
  BY Selection DEF Included
<1> HIDE DEF w
<1>4. Tops(Max({0} \cup {w[i] : i \in Indices(sel)}), sel, w)
  BY <1>2, MaxOver
<1> QED
  BY <1>3, <1>4 DEF w, Deeper

LEMMA DepthEquation == Depth = [sel \in Selections |-> Deeper(Depth, sel)]
<1> DEFINE D == Selections
           B == [f \in [D -> Nat] |-> [sel \in D |-> Deeper(f, sel)]]
<1>1. ASSUME NEW f \in [D -> Nat], NEW sel \in D PROVE Deeper(f, sel) \in Nat
  <2>1. \A i \in DOMAIN sel : f[sel[i].sub] \in Nat
    BY Selection
  <2> QED
    BY <2>1, DeeperIs DEF Tops
<1>2. \A f \in [D -> Nat] : B[f] \in [D -> Nat]
  BY <1>1
<1>3. ASSUME NEW f \in [D -> Nat], NEW g \in [D -> Nat], NEW sel \in D,
             \A s \in D : Nesting[s] < Nesting[sel] => f[s] = g[s]
      PROVE  B[f][sel] = B[g][sel]
  <2>1. \A item \in Included(sel) : f[item.sub] = g[item.sub]
    BY <1>3, Selection DEF Included
  <2>2. {Level(item) + f[item.sub] : item \in Included(sel)} = {Level(item) + g[item.sub] : item \in Included(sel)}
    BY <2>1
  <2> QED
    BY <2>2 DEF Deeper
<1>4. \A sel \in D : Nesting[sel] \in Nat
  BY NestingAssumption
<1> HIDE DEF B
<1>5. Local(B, Nesting, D, Nat)
  BY <1>3 DEF Local
<1> HIDE DEF D
<1>6. Solvable(B, D, Nat)
  BY <1>2, <1>4, <1>5, Recursion
<1>7. PICK f \in [D -> Nat] : \A sel \in D : f[sel] = B[f][sel]
  BY <1>6 DEF Solvable
<1>8. f = [sel \in Selections |-> Deeper(f, sel)]
  BY <1>7 DEF D, B
<1>9. Depth = CHOOSE g : g = [sel \in Selections |-> Deeper(g, sel)]
  BY DEF Depth, Deeper
<1> QED
  BY <1>8, <1>9

LEMMA DepthIs ==
  \A sel \in Selections :
    /\ Depth[sel] \in Nat
    /\ \A i \in Indices(sel) : Level(sel[i]) + Depth[sel[i].sub] <= Depth[sel]
<1> DEFINE S == {sel \in Selections : Depth[sel] \in Nat}
<1>1. ASSUME NEW sel \in Selections, \A s \in Selections : Nesting[s] < Nesting[sel] => s \in S
      PROVE  /\ Depth[sel] \in Nat
             /\ \A i \in Indices(sel) : Level(sel[i]) + Depth[sel[i].sub] <= Depth[sel]
  <2>1. \A i \in DOMAIN sel : Depth[sel[i].sub] \in Nat
    BY <1>1, Selection
  <2>2. Depth[sel] = Deeper(Depth, sel)
    BY DepthEquation
  <2> QED
    BY <2>1, <2>2, DeeperIs DEF Tops, Indices
<1>2. \A sel \in Selections : Nesting[sel] \in Nat
  BY NestingAssumption
<1>3. \A sel \in Selections : (\A s \in Selections : Nesting[s] < Nesting[sel] => s \in S) => sel \in S
  BY <1>1
<1> HIDE DEF S
<1>4. Selections \subseteq S
  BY <1>2, <1>3, ByRank
<1> QED
  BY <1>1, <1>4
-----------------------------------------------------------------------------
\* The depth the compiler reaches.

LEMMA MaxPair ==
  ASSUME NEW a \in Int, NEW b \in Int
  PROVE  Max({a, b}) = IF a >= b THEN a ELSE b
<1> DEFINE U == {a, b}
           m == IF a >= b THEN a ELSE b
<1>1. m \in U /\ \A t \in U : m >= t
  OBVIOUS
<1>2. \A n \in U : (\A t \in U : n >= t) => n = m
  OBVIOUS
<1> HIDE DEF m, U
<1>3. Max(U) = m
  BY <1>1, <1>2 DEF Max
<1> QED
  BY <1>3 DEF m, U

Deepest(f, item, d) ==
  CASE item.kind = "fragment" -> f[<<item.sub, d>>]
    [] item.kind = "field" /\ item.class \in {"row", "rows", "list"} -> Max({d + 1, f[<<item.sub, d + 1>>]})
    [] item.kind = "field" /\ item.class = "connection" -> f[<<item.sub, d + 1>>]
    [] item.kind = "field" /\ item.class \in {"nodes", "node"} -> Max({d, f[<<item.sub, d>>]})
    [] item.kind = "field" /\ item.class \in {"column", "edges", "info"} -> f[<<item.sub, d>>]
    [] OTHER -> 0

DeepestOf(f, at) == Max({0} \cup {Deepest(f, item, at[2]) : item \in Included(at[1])})

LEMMA DeepestIs ==
  ASSUME NEW f, NEW item, NEW d \in Nat, f[<<item.sub, d>>] \in Nat, f[<<item.sub, d + 1>>] \in Nat
  PROVE  /\ Deepest(f, item, d) \in Nat
         /\ \/ Deepest(f, item, d) \in {0, d, f[<<item.sub, d>>]}
            \/ item.kind = "field" /\ Deepest(f, item, d) \in {d + 1, f[<<item.sub, d + 1>>]}
<1>1. Max({d + 1, f[<<item.sub, d + 1>>]}) \in {d + 1, f[<<item.sub, d + 1>>]}
  BY MaxPair
<1>2. Max({d, f[<<item.sub, d>>]}) \in {d, f[<<item.sub, d>>]}
  BY MaxPair
<1> QED
  BY <1>1, <1>2 DEF Deepest

LEMMA DeepestOfIs ==
  ASSUME NEW sel \in Selections, NEW d \in Nat, NEW f,
         \A i \in DOMAIN sel : f[<<sel[i].sub, d>>] \in Nat /\ f[<<sel[i].sub, d + 1>>] \in Nat
  PROVE  Tops(DeepestOf(f, <<sel, d>>), sel, [i \in DOMAIN sel |-> Deepest(f, sel[i], d)])
<1> DEFINE w == [i \in DOMAIN sel |-> Deepest(f, sel[i], d)]
<1>1. \A i \in DOMAIN sel : w[i] \in Nat
  BY DeepestIs
<1>2. {Deepest(f, item, d) : item \in Included(sel)} = {w[i] : i \in Indices(sel)}
  BY Selection DEF Included
<1>3. DeepestOf(f, <<sel, d>>) = Max({0} \cup {Deepest(f, item, d) : item \in Included(sel)})
  BY DEF DeepestOf
<1> HIDE DEF w
<1>4. Tops(Max({0} \cup {w[i] : i \in Indices(sel)}), sel, w)
  BY <1>1, MaxOver
<1> QED
  BY <1>2, <1>3, <1>4 DEF w

LEMMA CompiledEquation == Compiled = [at \in Selections \X Nat |-> DeepestOf(Compiled, at)]
<1> DEFINE D == Selections \X Nat
           h == [at \in D |-> Nesting[at[1]]]
           B == [f \in [D -> Nat] |-> [at \in D |-> DeepestOf(f, at)]]
<1>1. ASSUME NEW f \in [D -> Nat], NEW at \in D PROVE DeepestOf(f, at) \in Nat
  <2>1. PICK sel \in Selections, d \in Nat : at = <<sel, d>>
    OBVIOUS
  <2>2. \A i \in DOMAIN sel : f[<<sel[i].sub, d>>] \in Nat /\ f[<<sel[i].sub, d + 1>>] \in Nat
    BY Selection
  <2> QED
    BY <2>1, <2>2, DeepestOfIs DEF Tops
<1>2. \A f \in [D -> Nat] : B[f] \in [D -> Nat]
  BY <1>1
<1>3. ASSUME NEW f \in [D -> Nat], NEW g \in [D -> Nat], NEW at \in D,
             \A y \in D : h[y] < h[at] => f[y] = g[y]
      PROVE  B[f][at] = B[g][at]
  <2>1. PICK sel \in Selections, d \in Nat : at = <<sel, d>>
    OBVIOUS
  <2>2. ASSUME NEW item \in Included(sel), NEW e \in Nat PROVE f[<<item.sub, e>>] = g[<<item.sub, e>>]
    <3>1. <<item.sub, e>> \in D /\ h[<<item.sub, e>>] < h[at]
      BY <2>1, Selection DEF Included
    <3> QED
      BY <1>3, <3>1
  <2>3. \A item \in Included(sel) : Deepest(f, item, d) = Deepest(g, item, d)
    <3> SUFFICES ASSUME NEW item \in Included(sel) PROVE Deepest(f, item, d) = Deepest(g, item, d)
      OBVIOUS
    <3>1. f[<<item.sub, d>>] = g[<<item.sub, d>>] /\ f[<<item.sub, d + 1>>] = g[<<item.sub, d + 1>>]
      BY <2>2
    <3> QED
      BY <3>1 DEF Deepest
  <2>4. {Deepest(f, item, d) : item \in Included(sel)} = {Deepest(g, item, d) : item \in Included(sel)}
    BY <2>3
  <2>5. at[1] = sel /\ at[2] = d
    BY <2>1
  <2>6. DeepestOf(f, at) = DeepestOf(g, at)
    BY <2>4, <2>5 DEF DeepestOf
  <2> QED
    BY <2>6
<1>4. \A at \in D : h[at] \in Nat
  BY NestingAssumption
<1> HIDE DEF B, h
<1>5. Local(B, h, D, Nat)
  BY <1>3 DEF Local
<1> HIDE DEF D
<1>6. Solvable(B, D, Nat)
  BY <1>2, <1>4, <1>5, Recursion
<1>7. PICK f \in [D -> Nat] : \A at \in D : f[at] = B[f][at]
  BY <1>6 DEF Solvable
<1>8. f = [at \in Selections \X Nat |-> DeepestOf(f, at)]
  BY <1>7 DEF D, B
<1>9. Compiled = CHOOSE g : g = [at \in Selections \X Nat |-> DeepestOf(g, at)]
  BY DEF Compiled, DeepestOf, Deepest
<1> QED
  BY <1>8, <1>9

\* However deep an item stands, the compiler gets no deeper than measureSel counts.
LEMMA CompiledWithinDepth ==
  \A sel \in Selections, d \in Nat :
    Compiled[<<sel, d>>] \in Nat /\ Compiled[<<sel, d>>] <= d + 1 + Depth[sel]
<1> DEFINE S == {sel \in Selections : \A d \in Nat :
                   Compiled[<<sel, d>>] \in Nat /\ Compiled[<<sel, d>>] <= d + 1 + Depth[sel]}
<1>1. ASSUME NEW sel \in Selections, \A s \in Selections : Nesting[s] < Nesting[sel] => s \in S
      PROVE  sel \in S
  <2> SUFFICES ASSUME NEW d \in Nat
               PROVE  Compiled[<<sel, d>>] \in Nat /\ Compiled[<<sel, d>>] <= d + 1 + Depth[sel]
    OBVIOUS
  <2>1. ASSUME NEW i \in DOMAIN sel, NEW e \in Nat
        PROVE  /\ Compiled[<<sel[i].sub, e>>] \in Nat
               /\ Compiled[<<sel[i].sub, e>>] <= e + 1 + Depth[sel[i].sub]
    BY <1>1, Selection
  <2> DEFINE w == [i \in DOMAIN sel |-> Deepest(Compiled, sel[i], d)]
  <2>2. Compiled[<<sel, d>>] = DeepestOf(Compiled, <<sel, d>>)
    BY CompiledEquation
  <2>3. d + 1 \in Nat
    OBVIOUS
  <2>4. Tops(Compiled[<<sel, d>>], sel, w)
    BY <2>1, <2>2, <2>3, DeepestOfIs
  <2>5. Depth[sel] \in Nat /\ \A i \in Indices(sel) : Level(sel[i]) + Depth[sel[i].sub] <= Depth[sel]
    BY DepthIs
  <2>6. ASSUME NEW i \in Indices(sel) PROVE w[i] <= d + 1 + Depth[sel]
    <3> DEFINE s == sel[i].sub
    <3>1. i \in DOMAIN sel /\ w[i] = Deepest(Compiled, sel[i], d)
      BY DEF Indices
    <3>2. s \in Selections /\ Depth[s] \in Nat
      BY <3>1, Selection, DepthIs
    <3>3. /\ Compiled[<<s, d>>] \in Nat /\ Compiled[<<s, d>>] <= d + 1 + Depth[s]
          /\ Compiled[<<s, d + 1>>] \in Nat /\ Compiled[<<s, d + 1>>] <= d + 1 + 1 + Depth[s]
      BY <2>1, <2>3, <3>1
    <3>4. Level(sel[i]) + Depth[s] <= Depth[sel] /\ Level(sel[i]) \in {0, 1}
      BY <2>5 DEF Level
    <3>5. s = << >> => Compiled[<<s, d + 1>>] = 0
      <4> SUFFICES ASSUME s = << >> PROVE Compiled[<<s, d + 1>>] = 0
        OBVIOUS
      <4>1. Indices(s) = {}
        BY DEF Indices
      <4>2. \A j \in DOMAIN s : FALSE
        OBVIOUS
      <4>3. Compiled[<<s, d + 1>>] = DeepestOf(Compiled, <<s, d + 1>>)
        BY <2>3, <3>2, CompiledEquation
      <4> HIDE DEF s
      <4>4. Tops(Compiled[<<s, d + 1>>], s, [j \in DOMAIN s |-> Deepest(Compiled, s[j], d + 1)])
        BY <2>3, <3>2, <4>2, <4>3, DeepestOfIs
      <4> QED
        BY <4>1, <4>4 DEF Tops
    <3>6. sel[i].kind = "field" /\ s # << >> => Level(sel[i]) = 1
      BY DEF Level
    <3> HIDE DEF w
    <3>7. \/ w[i] \in {0, d, Compiled[<<s, d>>]}
          \/ sel[i].kind = "field" /\ w[i] \in {d + 1, Compiled[<<s, d + 1>>]}
      BY <3>1, <3>3, DeepestIs
    <3> HIDE DEF s
    <3>8. Depth[s] <= Depth[sel] /\ Depth[sel] \in Nat
      BY <2>5, <3>2, <3>4
    <3>9. Compiled[<<s, d>>] <= d + 1 + Depth[sel]
      BY <3>2, <3>3, <3>8
    <3>10. sel[i].kind = "field" => Compiled[<<s, d + 1>>] <= d + 1 + Depth[sel]
      <4>1. CASE s = << >>
        BY <3>5, <3>8, <4>1
      <4>2. CASE s # << >>
        BY <3>2, <3>3, <3>4, <3>6, <3>8, <4>2
      <4> QED
        BY <4>1, <4>2
    <3> QED
      BY <3>7, <3>8, <3>9, <3>10
  <2> HIDE DEF w
  <2> QED
    BY <2>4, <2>5, <2>6 DEF Tops
<1>2. \A sel \in Selections : Nesting[sel] \in Nat
  BY NestingAssumption
<1> HIDE DEF S
<1>3. Selections \subseteq S
  BY <1>1, <1>2, ByRank
<1> QED
  BY <1>3 DEF S
-----------------------------------------------------------------------------
\* Totals.

TotalSteps(u, w, n) ==
  /\ u \in [0..n -> Nat] /\ u[0] = 0 /\ u[n] = Total(w)
  /\ \A i \in 1..n : u[i] = u[i - 1] + w[i]

LEMMA TotalIs ==
  ASSUME NEW n \in Nat, NEW w \in [1..n -> Nat]
  PROVE  \E u : TotalSteps(u, w, n)
<1> DEFINE D == 0..n
           h == [i \in D |-> i]
           next(f, i) == IF i = 0 THEN 0 ELSE f[i - 1] + w[i]
           B == [f \in [D -> Nat] |-> [i \in D |-> next(f, i)]]
           u == CHOOSE f : f = [i \in D |-> next(f, i)]
<1>1. w \in Seq(Nat) /\ Len(w) = n
  OBVIOUS
<1>2. ASSUME NEW f \in [D -> Nat], NEW i \in D PROVE next(f, i) \in Nat
  OBVIOUS
<1>3. \A f \in [D -> Nat] : B[f] \in [D -> Nat]
  BY <1>2
<1>4. ASSUME NEW f \in [D -> Nat], NEW g \in [D -> Nat], NEW i \in D,
             \A j \in D : h[j] < h[i] => f[j] = g[j]
      PROVE  B[f][i] = B[g][i]
  <2>1. i # 0 => i - 1 \in D /\ h[i - 1] < h[i]
    OBVIOUS
  <2>2. i # 0 => f[i - 1] = g[i - 1]
    BY <1>4, <2>1
  <2> QED
    BY <2>2
<1>5. \A i \in D : h[i] \in Nat
  OBVIOUS
<1> HIDE DEF B, h
<1>6. Local(B, h, D, Nat)
  BY <1>4 DEF Local
<1> HIDE DEF D
<1>7. Solvable(B, D, Nat)
  BY <1>3, <1>5, <1>6, Recursion
<1>8. PICK f \in [D -> Nat] : \A i \in D : f[i] = B[f][i]
  BY <1>7 DEF Solvable
<1>9. f = [i \in D |-> next(f, i)]
  BY <1>8 DEF B
<1>10. u = [i \in D |-> next(u, i)]
  BY <1>9
<1>11. Total(w) = u[n]
  BY <1>1 DEF Total, D
<1> HIDE DEF u
<1>12. u[0] = 0 /\ \A i \in 1..n : u[i] = u[i - 1] + w[i]
  BY <1>10 DEF D
<1> DEFINE S == {i \in D : u[i] \in Nat}
<1>13. ASSUME NEW i \in D, \A j \in D : h[j] < h[i] => j \in S PROVE i \in S
  <2>1. i # 0 => i - 1 \in D /\ h[i - 1] < h[i] /\ i \in 1..n
    BY DEF D, h
  <2>2. CASE i = 0
    BY <1>12, <2>2
  <2>3. CASE i # 0
    <3>1. u[i - 1] \in Nat /\ w[i] \in Nat
      BY <1>13, <2>1, <2>3
    <3>2. u[i] = u[i - 1] + w[i]
      BY <1>12, <2>1, <2>3
    <3> QED
      BY <3>1, <3>2
  <2> QED
    BY <2>2, <2>3
<1> HIDE DEF S
<1>14. D \subseteq S
  BY <1>5, <1>13, ByRank
<1>15. u \in [D -> Nat]
  BY <1>10, <1>14 DEF S
<1> QED
  BY <1>11, <1>12, <1>15 DEF TotalSteps, D

LEMMA TotalType ==
  ASSUME NEW n \in Nat, NEW w \in [1..n -> Nat]
  PROVE  Total(w) \in Nat
<1>1. PICK u : TotalSteps(u, w, n)
  BY TotalIs
<1> QED
  BY <1>1 DEF TotalSteps

\* What is true of no number and kept by each is true of the total.
LEMMA ByPrefix ==
  ASSUME NEW n \in Nat, NEW S, 0 \in S, \A i \in 1..n : i - 1 \in S => i \in S
  PROVE  n \in S
<1> DEFINE D == 0..n
           h == [i \in D |-> i]
<1>1. \A i \in D : (\A j \in D : h[j] < h[i] => j \in S) => i \in S
  <2> SUFFICES ASSUME NEW i \in D, \A j \in D : h[j] < h[i] => j \in S PROVE i \in S
    OBVIOUS
  <2>1. i # 0 => i - 1 \in D /\ h[i - 1] < h[i] /\ i \in 1..n
    OBVIOUS
  <2> QED
    BY <2>1
<1>2. \A i \in D : h[i] \in Nat
  OBVIOUS
<1>3. n \in D
  OBVIOUS
<1> HIDE DEF D, h
<1>4. D \subseteq S
  BY <1>1, <1>2, ByRank
<1> QED
  BY <1>3, <1>4

LEMMA Distributes ==
  ASSUME NEW m \in Nat, NEW a \in Nat, NEW b \in Nat
  PROVE  m * (a + b) = m * a + m * b /\ m * a \in Nat /\ m * b \in Nat /\ m * (a + b) \in Nat
OBVIOUS

LEMMA TotalAtMost ==
  ASSUME NEW n \in Nat, NEW v \in [1..n -> Nat], NEW w \in [1..n -> Nat], NEW m \in Nat,
         \A i \in 1..n : v[i] <= m * w[i]
  PROVE  Total(v) <= m * Total(w)
<1>1. PICK x : TotalSteps(x, v, n)
  BY TotalIs
<1>2. PICK y : TotalSteps(y, w, n)
  BY TotalIs
<1> DEFINE S == {i \in 0..n : x[i] <= m * y[i]}
<1>3. 0 \in S
  BY <1>1, <1>2 DEF TotalSteps
<1>4. ASSUME NEW i \in 1..n, i - 1 \in S PROVE i \in S
  <2>1. x[i] = x[i - 1] + v[i] /\ y[i] = y[i - 1] + w[i] /\ v[i] <= m * w[i]
    BY <1>1, <1>2 DEF TotalSteps
  <2>2. /\ i \in 0..n /\ i - 1 \in 0..n /\ x[i - 1] \in Nat /\ y[i - 1] \in Nat
        /\ v[i] \in Nat /\ w[i] \in Nat
    BY <1>1, <1>2, SMTT(20) DEF TotalSteps
  <2>3. x[i - 1] <= m * y[i - 1]
    BY <1>4
  <2>4. m * (y[i - 1] + w[i]) = m * y[i - 1] + m * w[i] /\ m * y[i - 1] \in Nat /\ m * w[i] \in Nat
    BY <2>2, Distributes
  <2> DEFINE a == m * y[i - 1]
             b == m * w[i]
  <2>5. m * y[i] = a + b /\ a \in Nat /\ b \in Nat
    BY <2>1, <2>4
  <2>6. x[i - 1] <= a /\ v[i] <= b
    BY <2>1, <2>3
  <2> HIDE DEF a, b
  <2>7. x[i] <= a + b
    BY <2>1, <2>2, <2>5, <2>6
  <2>8. x[i] <= m * y[i]
    BY <2>5, <2>7, Zenon
  <2> QED
    BY <2>2, <2>8
<1> HIDE DEF S
<1>5. n \in S
  BY <1>3, <1>4, ByPrefix
<1> QED
  BY <1>1, <1>2, <1>5 DEF S, TotalSteps
-----------------------------------------------------------------------------
\* Cost.

LEMMA MinPair ==
  ASSUME NEW a \in Int, NEW b \in Int
  PROVE  Min({a, b}) = IF a <= b THEN a ELSE b
<1> DEFINE U == {a, b}
           m == IF a <= b THEN a ELSE b
<1>1. m \in U /\ \A t \in U : m <= t
  OBVIOUS
<1>2. \A n \in U : (\A t \in U : n <= t) => n = m
  OBVIOUS
<1> HIDE DEF m, U
<1>3. Min(U) = m
  BY <1>1, <1>2 DEF Min
<1> QED
  BY <1>3 DEF m, U

\* A field of an operation, and what its page arguments are.
IsField(f) ==
  /\ f.kind = "field" /\ f.class \in Classes /\ f.sub \in Selections
  /\ f.first \in Int \cup {NULL} /\ f.last \in Int \cup {NULL}
  /\ f.class \notin Paged => f.first = NULL /\ f.last = NULL

LEMMA ItemIs ==
  ASSUME NEW sel \in Selections, NEW i \in DOMAIN sel
  PROVE  sel[i].sub \in Selections /\ (sel[i].kind = "fragment" \/ IsField(sel[i]))
BY LimitsAssumption DEF IsField

LEMMA PageCapIs == pageCap \in Nat /\ pageCap >= 1
BY LimitsAssumption DEF pageCap

LEMMA MultiplierIs ==
  ASSUME NEW f, IsField(f), NEW p \in BOOLEAN
  PROVE  /\ Multiplier(f, p) \in Nat /\ Multiplier(f, p) >= 1
         /\ hasPageArgs(f) /\ ~PageRefused(f) /\ (pageArg(f) # NULL \/ pageCap <= 10) =>
              PageLimit(f) <= Multiplier(f, p)
         /\ f.class = "rows" => Multiplier(f, FALSE) = 10
<1>1. pageCap \in Nat /\ pageCap >= 1
  BY PageCapIs
<1>2. NULL \notin Int
  BY LimitsAssumption
<1>3. CASE pageArg(f) = NULL
  <2>1. Multiplier(f, p) = IF hasPageArgs(f) \/ (IsList(f) /\ ~p) THEN 10 ELSE 1
    BY <1>3 DEF Multiplier
  <2>2. PageLimit(f) = pageCap
    BY <1>3 DEF PageLimit
  <2>3. f.class = "rows" => Multiplier(f, FALSE) = 10
    BY <1>3 DEF Multiplier, IsList
  <2>4. Multiplier(f, p) \in Nat /\ Multiplier(f, p) >= 1
    BY <2>1
  <2>5. ASSUME hasPageArgs(f), pageArg(f) # NULL \/ pageCap <= 10
        PROVE  PageLimit(f) <= Multiplier(f, p)
    <3>1. Multiplier(f, p) = 10 /\ pageCap <= 10
      BY <1>3, <2>1, <2>5
    <3> QED
      BY <1>1, <2>2, <3>1
  <2> QED
    BY <2>3, <2>4, <2>5
<1>4. CASE pageArg(f) # NULL
  <2>1. pageArg(f) \in Int
    BY <1>4 DEF pageArg, IsField
  <2>2. Max({pageArg(f), 1}) = IF pageArg(f) >= 1 THEN pageArg(f) ELSE 1
    BY <2>1, MaxPair
  <2> DEFINE m == Max({pageArg(f), 1})
  <2>3. m \in Int /\ m >= 1 /\ m >= pageArg(f)
    BY <2>1, <2>2
  <2>4. Multiplier(f, p) = Min({m, pageCap})
    BY <1>4 DEF Multiplier
  <2>5. PageLimit(f) = Min({pageArg(f), pageCap})
    BY <1>4 DEF PageLimit
  <2> HIDE DEF m
  <2>6. Min({m, pageCap}) = IF m <= pageCap THEN m ELSE pageCap
    BY <1>1, <2>3, MinPair
  <2>7. Min({pageArg(f), pageCap}) = IF pageArg(f) <= pageCap THEN pageArg(f) ELSE pageCap
    BY <1>1, <2>1, MinPair
  <2>8. f.class # "rows"
    BY <1>4 DEF IsField, pageArg, Paged
  <2>9. Multiplier(f, p) \in Nat /\ Multiplier(f, p) >= 1
    BY <1>1, <2>3, <2>4, <2>6
  <2>10. PageLimit(f) <= Multiplier(f, p)
    BY <1>1, <2>1, <2>3, <2>4, <2>5, <2>6, <2>7
  <2> QED
    BY <2>8, <2>9, <2>10
<1> QED
  BY <1>3, <1>4

CostOf(f, item, p) ==
  IF item.kind = "fragment" THEN f[<<item.sub, p>>]
  ELSE 1 + Multiplier(item, p) * f[<<item.sub, hasPageArgs(item)>>]

Costs(f, sel, p) == [i \in DOMAIN sel |-> IF i \in Indices(sel) THEN CostOf(f, sel[i], p) ELSE 0]

LEMMA CostsAre ==
  ASSUME NEW sel \in Selections, NEW f, NEW p \in BOOLEAN,
         \A i \in DOMAIN sel, q \in BOOLEAN : f[<<sel[i].sub, q>>] \in Nat
  PROVE  Costs(f, sel, p) \in [1..Len(sel) -> Nat] /\ Total(Costs(f, sel, p)) \in Nat
<1>1. Len(sel) \in Nat /\ DOMAIN sel = 1..Len(sel)
  BY Selection
<1>2. ASSUME NEW i \in DOMAIN sel PROVE CostOf(f, sel[i], p) \in Nat
  <2>1. CASE sel[i].kind = "fragment"
    BY <2>1 DEF CostOf
  <2>2. CASE sel[i].kind # "fragment"
    <3>1. IsField(sel[i])
      BY <2>2, ItemIs
    <3>2. Multiplier(sel[i], p) \in Nat
      BY <3>1, MultiplierIs
    <3>3. hasPageArgs(sel[i]) \in BOOLEAN
      BY DEF hasPageArgs
    <3>4. f[<<sel[i].sub, hasPageArgs(sel[i])>>] \in Nat
      BY <3>3
    <3>5. Multiplier(sel[i], p) * f[<<sel[i].sub, hasPageArgs(sel[i])>>] \in Nat
      BY <3>2, <3>4
    <3> QED
      BY <2>2, <3>5 DEF CostOf
  <2> QED
    BY <2>1, <2>2
<1>3. Costs(f, sel, p) \in [1..Len(sel) -> Nat]
  BY <1>1, <1>2 DEF Costs
<1> QED
  BY <1>1, <1>3, TotalType

LEMMA CostEquation == Cost = [at \in Selections \X BOOLEAN |-> Total(Costs(Cost, at[1], at[2]))]
<1> DEFINE D == Selections \X BOOLEAN
           h == [at \in D |-> Nesting[at[1]]]
           B == [f \in [D -> Nat] |-> [at \in D |-> Total(Costs(f, at[1], at[2]))]]
<1>1. ASSUME NEW f \in [D -> Nat], NEW at \in D PROVE Total(Costs(f, at[1], at[2])) \in Nat
  <2>1. at[1] \in Selections /\ at[2] \in BOOLEAN
    OBVIOUS
  <2>2. \A i \in DOMAIN at[1], q \in BOOLEAN : f[<<at[1][i].sub, q>>] \in Nat
    BY <2>1, Selection
  <2> QED
    BY <2>1, <2>2, CostsAre
<1>2. \A f \in [D -> Nat] : B[f] \in [D -> Nat]
  BY <1>1
<1>3. ASSUME NEW f \in [D -> Nat], NEW g \in [D -> Nat], NEW at \in D,
             \A y \in D : h[y] < h[at] => f[y] = g[y]
      PROVE  B[f][at] = B[g][at]
  <2>1. at[1] \in Selections /\ at[2] \in BOOLEAN
    OBVIOUS
  <2>2. ASSUME NEW i \in DOMAIN at[1], NEW q \in BOOLEAN PROVE f[<<at[1][i].sub, q>>] = g[<<at[1][i].sub, q>>]
    <3>1. <<at[1][i].sub, q>> \in D /\ h[<<at[1][i].sub, q>>] < h[at]
      BY <2>1, Selection
    <3> QED
      BY <1>3, <3>1
  <2>3. ASSUME NEW i \in DOMAIN at[1] PROVE CostOf(f, at[1][i], at[2]) = CostOf(g, at[1][i], at[2])
    <3>1. hasPageArgs(at[1][i]) \in BOOLEAN
      BY DEF hasPageArgs
    <3> QED
      BY <2>1, <2>2, <3>1 DEF CostOf
  <2>4. Costs(f, at[1], at[2]) = Costs(g, at[1], at[2])
    BY <2>3 DEF Costs
  <2> QED
    BY <2>4
<1>4. \A at \in D : h[at] \in Nat
  BY NestingAssumption
<1> HIDE DEF B, h
<1>5. Local(B, h, D, Nat)
  BY <1>3 DEF Local
<1> HIDE DEF D
<1>6. Solvable(B, D, Nat)
  BY <1>2, <1>4, <1>5, Recursion
<1>7. PICK f \in [D -> Nat] : \A at \in D : f[at] = B[f][at]
  BY <1>6 DEF Solvable
<1>8. f = [at \in Selections \X BOOLEAN |-> Total(Costs(f, at[1], at[2]))]
  BY <1>7 DEF D, B
<1>9. Cost = CHOOSE g : g = [at \in Selections \X BOOLEAN |-> Total(Costs(g, at[1], at[2]))]
  BY DEF Cost, Costs, CostOf
<1> QED
  BY <1>8, <1>9

LEMMA CostType == \A sel \in Selections, p \in BOOLEAN : Cost[<<sel, p>>] \in Nat
<1> DEFINE S == {sel \in Selections : \A p \in BOOLEAN : Cost[<<sel, p>>] \in Nat}
<1>1. ASSUME NEW sel \in Selections, \A s \in Selections : Nesting[s] < Nesting[sel] => s \in S
      PROVE  sel \in S
  <2> SUFFICES ASSUME NEW p \in BOOLEAN PROVE Cost[<<sel, p>>] \in Nat
    OBVIOUS
  <2>1. \A i \in DOMAIN sel, q \in BOOLEAN : Cost[<<sel[i].sub, q>>] \in Nat
    BY <1>1, Selection
  <2>2. Cost[<<sel, p>>] = Total(Costs(Cost, sel, p))
    BY CostEquation
  <2> QED
    BY <2>1, <2>2, CostsAre
<1>2. \A sel \in Selections : Nesting[sel] \in Nat
  BY NestingAssumption
<1> HIDE DEF S
<1>3. Selections \subseteq S
  BY <1>1, <1>2, ByRank
<1> QED
  BY <1>3 DEF S
-----------------------------------------------------------------------------
\* The values of a response.

LEMMA PageLimitIs ==
  ASSUME NEW f, IsField(f), ~PageRefused(f)
  PROVE  PageLimit(f) \in 0..pageCap
<1>1. pageCap \in Nat /\ pageCap >= 1
  BY PageCapIs
<1>2. CASE pageArg(f) = NULL
  BY <1>1, <1>2 DEF PageLimit
<1>3. CASE pageArg(f) # NULL
  <2>1. pageArg(f) \in Int /\ pageArg(f) >= 0
    BY <1>3 DEF pageArg, IsField, PageRefused
  <2>2. PageLimit(f) = Min({pageArg(f), pageCap})
    BY <1>3 DEF PageLimit
  <2> QED
    BY <1>1, <2>1, <2>2, MinPair
<1> QED
  BY <1>2, <1>3

ValueOf(f, item, rows) ==
  CASE item.kind = "fragment" -> f[<<item.sub, rows>>]
    [] item.kind = "field" /\ hasPageArgs(item) /\ PageRefused(item) -> 1
    [] item.kind = "field" /\ item.class = "list" /\ ~PageRefused(item) -> 1 + PageLimit(item) * f[<<item.sub, 0>>]
    [] item.kind = "field" /\ item.class = "connection" /\ ~PageRefused(item) -> 1 + f[<<item.sub, PageLimit(item)>>]
    [] item.kind = "field" /\ item.class \in {"nodes", "edges"} -> 1 + rows * f[<<item.sub, 0>>]
    [] item.kind = "field" /\ item.class = "rows" -> 1 + ArrayLen * f[<<item.sub, 0>>]
    [] item.kind = "field" /\ item.class \in {"column", "row", "node", "info"} -> 1 + f[<<item.sub, 0>>]
    [] OTHER -> 0

\* The case an item falls under.
ValueCases(f, item, rows, v) ==
  \/ item.kind = "fragment" /\ v = f[<<item.sub, rows>>]
  \/ IsField(item) /\ v = 1
  \/ IsField(item) /\ item.class = "list" /\ ~PageRefused(item) /\ v = 1 + PageLimit(item) * f[<<item.sub, 0>>]
  \/ IsField(item) /\ item.class = "connection" /\ ~PageRefused(item) /\ v = 1 + f[<<item.sub, PageLimit(item)>>]
  \/ IsField(item) /\ item.class \in {"nodes", "edges"} /\ v = 1 + rows * f[<<item.sub, 0>>]
  \/ IsField(item) /\ item.class = "rows" /\ v = 1 + ArrayLen * f[<<item.sub, 0>>]
  \/ IsField(item) /\ item.class \in {"column", "row", "node", "info"} /\ v = 1 + f[<<item.sub, 0>>]
  \/ v = 0

LEMMA ValueOfIs ==
  ASSUME NEW f, NEW item, NEW rows, item.kind = "fragment" \/ IsField(item)
  PROVE  ValueCases(f, item, rows, ValueOf(f, item, rows))
<1>1. CASE item.kind = "fragment"
  BY <1>1 DEF ValueOf, ValueCases
<1>2. CASE item.kind # "fragment"
  <2>1. IsField(item) /\ item.kind = "field"
    BY <1>2 DEF IsField
  <2>2. CASE hasPageArgs(item) /\ PageRefused(item)
    BY <2>1, <2>2 DEF ValueOf, ValueCases, hasPageArgs, Paged
  <2>3. CASE hasPageArgs(item) /\ ~PageRefused(item)
    BY <2>1, <2>3 DEF ValueOf, ValueCases, hasPageArgs, Paged
  <2>4. CASE ~hasPageArgs(item)
    BY <2>1, <2>4 DEF ValueOf, ValueCases, hasPageArgs, Paged
  <2> QED
    BY <2>2, <2>3, <2>4
<1> QED
  BY <1>1, <1>2

LEMMA ValueOfType ==
  ASSUME NEW f, NEW item, NEW rows \in 0..pageCap, item.kind = "fragment" \/ IsField(item),
         \A r \in 0..pageCap : f[<<item.sub, r>>] \in Nat
  PROVE  ValueOf(f, item, rows) \in Nat
<1> DEFINE v == ValueOf(f, item, rows)
<1>1. ValueCases(f, item, rows, v)
  BY ValueOfIs
<1>2. pageCap \in Nat /\ ArrayLen \in Nat
  BY PageCapIs, LimitsAssumption
<1>3. f[<<item.sub, rows>>] \in Nat /\ f[<<item.sub, 0>>] \in Nat
  BY <1>2
<1>4. IsField(item) /\ ~PageRefused(item) =>
        /\ PageLimit(item) \in Nat /\ f[<<item.sub, PageLimit(item)>>] \in Nat
        /\ PageLimit(item) * f[<<item.sub, 0>>] \in Nat
  <2> SUFFICES ASSUME IsField(item), ~PageRefused(item)
               PROVE  /\ PageLimit(item) \in Nat /\ f[<<item.sub, PageLimit(item)>>] \in Nat
                      /\ PageLimit(item) * f[<<item.sub, 0>>] \in Nat
    OBVIOUS
  <2>1. PageLimit(item) \in 0..pageCap
    BY PageLimitIs
  <2> QED
    BY <1>2, <1>3, <2>1
<1>5. rows * f[<<item.sub, 0>>] \in Nat /\ ArrayLen * f[<<item.sub, 0>>] \in Nat
  BY <1>2, <1>3
<1> HIDE DEF v
<1>6. v \in Nat
  BY <1>1, <1>3, <1>4, <1>5 DEF ValueCases
<1> QED
  BY <1>6 DEF v

ValuesOf(f, sel, rows) == [i \in DOMAIN sel |-> IF i \in Indices(sel) THEN ValueOf(f, sel[i], rows) ELSE 0]

LEMMA ValuesAre ==
  ASSUME NEW sel \in Selections, NEW f, NEW rows \in 0..pageCap,
         \A i \in DOMAIN sel, r \in 0..pageCap : f[<<sel[i].sub, r>>] \in Nat
  PROVE  ValuesOf(f, sel, rows) \in [1..Len(sel) -> Nat] /\ Total(ValuesOf(f, sel, rows)) \in Nat
<1>1. Len(sel) \in Nat /\ DOMAIN sel = 1..Len(sel)
  BY Selection
<1>2. ASSUME NEW i \in DOMAIN sel PROVE ValueOf(f, sel[i], rows) \in Nat
  BY ItemIs, ValueOfType
<1>3. ValuesOf(f, sel, rows) \in [1..Len(sel) -> Nat]
  BY <1>1, <1>2 DEF ValuesOf
<1> QED
  BY <1>1, <1>3, TotalType

LEMMA ValuesEquation ==
  Values = [at \in Selections \X (0..pageCap) |-> Total(ValuesOf(Values, at[1], at[2]))]
<1> DEFINE D == Selections \X (0..pageCap)
           h == [at \in D |-> Nesting[at[1]]]
           B == [f \in [D -> Nat] |-> [at \in D |-> Total(ValuesOf(f, at[1], at[2]))]]
<1>1. ASSUME NEW f \in [D -> Nat], NEW at \in D PROVE Total(ValuesOf(f, at[1], at[2])) \in Nat
  <2>1. at[1] \in Selections /\ at[2] \in 0..pageCap
    OBVIOUS
  <2>2. \A i \in DOMAIN at[1], r \in 0..pageCap : f[<<at[1][i].sub, r>>] \in Nat
    BY <2>1, Selection
  <2> QED
    BY <2>1, <2>2, ValuesAre
<1>2. \A f \in [D -> Nat] : B[f] \in [D -> Nat]
  BY <1>1
<1>3. ASSUME NEW f \in [D -> Nat], NEW g \in [D -> Nat], NEW at \in D,
             \A y \in D : h[y] < h[at] => f[y] = g[y]
      PROVE  B[f][at] = B[g][at]
  <2>1. at[1] \in Selections /\ at[2] \in 0..pageCap
    OBVIOUS
  <2>2. ASSUME NEW i \in DOMAIN at[1], NEW r \in 0..pageCap PROVE f[<<at[1][i].sub, r>>] = g[<<at[1][i].sub, r>>]
    <3>1. <<at[1][i].sub, r>> \in D /\ h[<<at[1][i].sub, r>>] < h[at]
      BY <2>1, Selection
    <3> QED
      BY <1>3, <3>1
  <2>3. ASSUME NEW i \in DOMAIN at[1] PROVE ValueOf(f, at[1][i], at[2]) = ValueOf(g, at[1][i], at[2])
    <3> DEFINE item == at[1][i]
    <3>1. item.kind = "fragment" \/ IsField(item)
      BY <2>1, ItemIs
    <3>2. f[<<item.sub, at[2]>>] = g[<<item.sub, at[2]>>] /\ f[<<item.sub, 0>>] = g[<<item.sub, 0>>]
      BY <2>1, <2>2, PageCapIs
    <3>3. IsField(item) /\ ~PageRefused(item) => f[<<item.sub, PageLimit(item)>>] = g[<<item.sub, PageLimit(item)>>]
      BY <2>2, PageLimitIs
    <3> HIDE DEF item
    <3>4. item.kind = "field" => IsField(item)
      BY <3>1 DEF IsField
    <3>5. ValueOf(f, item, at[2]) = ValueOf(g, item, at[2])
      BY <3>2, <3>3, <3>4 DEF ValueOf
    <3> QED
      BY <3>5 DEF item
  <2>4. ValuesOf(f, at[1], at[2]) = ValuesOf(g, at[1], at[2])
    BY <2>3 DEF ValuesOf
  <2> QED
    BY <2>4
<1>4. \A at \in D : h[at] \in Nat
  BY NestingAssumption
<1> HIDE DEF B, h
<1>5. Local(B, h, D, Nat)
  BY <1>3 DEF Local
<1> HIDE DEF D
<1>6. Solvable(B, D, Nat)
  BY <1>2, <1>4, <1>5, Recursion
<1>7. PICK f \in [D -> Nat] : \A at \in D : f[at] = B[f][at]
  BY <1>6 DEF Solvable
<1>8. f = [at \in Selections \X (0..pageCap) |-> Total(ValuesOf(f, at[1], at[2]))]
  BY <1>7 DEF D, B
<1>9. Values = CHOOSE g : g = [at \in Selections \X (0..pageCap) |-> Total(ValuesOf(g, at[1], at[2]))]
  BY DEF Values, ValuesOf, ValueOf
<1> QED
  BY <1>8, <1>9

LEMMA ValuesType == \A sel \in Selections, r \in 0..pageCap : Values[<<sel, r>>] \in Nat
<1> DEFINE S == {sel \in Selections : \A r \in 0..pageCap : Values[<<sel, r>>] \in Nat}
<1>1. ASSUME NEW sel \in Selections, \A s \in Selections : Nesting[s] < Nesting[sel] => s \in S
      PROVE  sel \in S
  <2> SUFFICES ASSUME NEW r \in 0..pageCap PROVE Values[<<sel, r>>] \in Nat
    OBVIOUS
  <2>1. \A i \in DOMAIN sel, q \in 0..pageCap : Values[<<sel[i].sub, q>>] \in Nat
    BY <1>1, Selection
  <2>2. Values[<<sel, r>>] = Total(ValuesOf(Values, sel, r))
    BY ValuesEquation
  <2> QED
    BY <2>1, <2>2, ValuesAre
<1>2. \A sel \in Selections : Nesting[sel] \in Nat
  BY NestingAssumption
<1> HIDE DEF S
<1>3. Selections \subseteq S
  BY <1>1, <1>2, ByRank
<1> QED
  BY <1>3 DEF S
-----------------------------------------------------------------------------
\* What an operation that states its pages looks like.

ArrayIn(f, sel) ==
  \E item \in Included(sel) : IF item.kind = "fragment" THEN f[item.sub] ELSE item.class = "rows"

LEMMA HasArrayEquation == HasArray = [sel \in Selections |-> ArrayIn(HasArray, sel)]
<1> DEFINE D == Selections
           B == [f \in [D -> BOOLEAN] |-> [sel \in D |-> ArrayIn(f, sel)]]
<1>1. \A f \in [D -> BOOLEAN] : B[f] \in [D -> BOOLEAN]
  BY DEF ArrayIn
<1>2. ASSUME NEW f \in [D -> BOOLEAN], NEW g \in [D -> BOOLEAN], NEW sel \in D,
             \A s \in D : Nesting[s] < Nesting[sel] => f[s] = g[s]
      PROVE  B[f][sel] = B[g][sel]
  <2>1. \A item \in Included(sel) : f[item.sub] = g[item.sub]
    BY <1>2, Selection DEF Included
  <2>2. ArrayIn(f, sel) = ArrayIn(g, sel)
    BY <2>1 DEF ArrayIn
  <2> QED
    BY <2>2
<1>3. \A sel \in D : Nesting[sel] \in Nat
  BY NestingAssumption
<1> HIDE DEF B
<1>4. Local(B, Nesting, D, BOOLEAN)
  BY <1>2 DEF Local
<1> HIDE DEF D
<1>5. Solvable(B, D, BOOLEAN)
  BY <1>1, <1>3, <1>4, Recursion
<1>6. PICK f \in [D -> BOOLEAN] : \A sel \in D : f[sel] = B[f][sel]
  BY <1>5 DEF Solvable
<1>7. f = [sel \in Selections |-> ArrayIn(f, sel)]
  BY <1>6 DEF D, B
<1>8. HasArray = CHOOSE g : g = [sel \in Selections |-> ArrayIn(g, sel)]
  BY DEF HasArray, ArrayIn
<1> QED
  BY <1>7, <1>8

StatedIn(f, sel) ==
  \A item \in Included(sel) :
    /\ f[item.sub]
    /\ item.kind = "field" /\ hasPageArgs(item) =>
         (pageArg(item) # NULL \/ pageCap <= 10) /\ ~HasArray[item.sub]

LEMMA StatedEquation == Stated = [sel \in Selections |-> StatedIn(Stated, sel)]
<1> DEFINE D == Selections
           B == [f \in [D -> BOOLEAN] |-> [sel \in D |-> StatedIn(f, sel)]]
<1>1. \A f \in [D -> BOOLEAN] : B[f] \in [D -> BOOLEAN]
  BY DEF StatedIn
<1>2. ASSUME NEW f \in [D -> BOOLEAN], NEW g \in [D -> BOOLEAN], NEW sel \in D,
             \A s \in D : Nesting[s] < Nesting[sel] => f[s] = g[s]
      PROVE  B[f][sel] = B[g][sel]
  <2>1. \A item \in Included(sel) : f[item.sub] = g[item.sub]
    BY <1>2, Selection DEF Included
  <2>2. StatedIn(f, sel) = StatedIn(g, sel)
    BY <2>1 DEF StatedIn
  <2> QED
    BY <2>2
<1>3. \A sel \in D : Nesting[sel] \in Nat
  BY NestingAssumption
<1> HIDE DEF B
<1>4. Local(B, Nesting, D, BOOLEAN)
  BY <1>2 DEF Local
<1> HIDE DEF D
<1>5. Solvable(B, D, BOOLEAN)
  BY <1>1, <1>3, <1>4, Recursion
<1>6. PICK f \in [D -> BOOLEAN] : \A sel \in D : f[sel] = B[f][sel]
  BY <1>5 DEF Solvable
<1>7. f = [sel \in Selections |-> StatedIn(f, sel)]
  BY <1>6 DEF D, B
<1>8. Stated = CHOOSE g : g = [sel \in Selections |-> StatedIn(g, sel)]
  BY DEF Stated, StatedIn
<1> QED
  BY <1>7, <1>8

LEMMA StatedItems ==
  ASSUME NEW sel \in Selections, Stated[sel], NEW i \in Indices(sel)
  PROVE  /\ Stated[sel[i].sub]
         /\ sel[i].kind = "field" /\ hasPageArgs(sel[i]) =>
              (pageArg(sel[i]) # NULL \/ pageCap <= 10) /\ ~HasArray[sel[i].sub]
<1>1. StatedIn(Stated, sel)
  BY StatedEquation
<1> QED
  BY <1>1 DEF StatedIn, Included

LEMMA ArrayItems ==
  ASSUME NEW sel \in Selections, ~HasArray[sel], NEW i \in Indices(sel)
  PROVE  IF sel[i].kind = "fragment" THEN ~HasArray[sel[i].sub] ELSE sel[i].class # "rows"
<1>1. ~ArrayIn(HasArray, sel)
  BY HasArrayEquation
<1> QED
  BY <1>1 DEF ArrayIn, Included
-----------------------------------------------------------------------------
\* Products.

LEMMA OneMore ==
  ASSUME NEW m \in Nat, m >= 1, NEW v \in Nat, NEW c \in Nat, v <= m * c
  PROVE  1 + v <= m * (1 + c)
<1>1. m * (1 + c) = m * 1 + m * c /\ m * c \in Nat
  BY Distributes
<1> QED
  BY <1>1

LEMMA Scaled ==
  ASSUME NEW a \in Nat, NEW b \in Nat, NEW v \in Nat, NEW c \in Nat, a <= b, v <= c
  PROVE  a * v <= b * c /\ a * v \in Nat /\ b * c \in Nat
<1>1. a * v <= a * c /\ a * v \in Nat /\ a * c \in Nat
  <2>1. PICK d \in Nat : c = v + d
    <3>1. c - v \in Nat /\ c = v + (c - v)
      OBVIOUS
    <3> QED
      BY <3>1
  <2>2. a * c = a * v + a * d /\ a * v \in Nat /\ a * d \in Nat
    BY <2>1, Distributes
  <2> QED
    BY <2>2
<1>2. a * c <= b * c /\ b * c \in Nat
  <2>1. PICK d \in Nat : b = a + d
    <3>1. b - a \in Nat /\ b = a + (b - a)
      OBVIOUS
    <3> QED
      BY <3>1
  <2>2. c * b = c * a + c * d /\ c * a \in Nat /\ c * d \in Nat
    BY <2>1, Distributes
  <2>3. c * b = b * c /\ c * a = a * c
    OBVIOUS
  <2> QED
    BY <2>2, <2>3
<1> QED
  BY <1>1, <1>2

-----------------------------------------------------------------------------
\* By how much arrays longer than the heuristic takes them to be exceed a cost.

LEMMA MaxOne ==
  ASSUME NEW T, T \subseteq Nat, NEW b \in Nat, \A t \in T : t <= b
  PROVE  /\ Max({1} \cup T) \in Nat /\ Max({1} \cup T) >= 1
         /\ Max({1} \cup T) \in {1} \cup T /\ \A t \in T : t <= Max({1} \cup T)
<1> DEFINE U == {1} \cup T
           m == Max({0} \cup U)
<1>1. PICK c \in Nat : b <= c /\ 1 <= c
  OBVIOUS
<1>2. U \subseteq Nat /\ 1 \in U /\ \A t \in U : t <= c
  BY <1>1
<1> HIDE DEF U
<1>3. m \in {0} \cup U /\ m \in Nat /\ \A t \in U : t <= m
  BY <1>2, MaxOf
<1> HIDE DEF m
<1>4. m >= 1 /\ m \in U
  BY <1>2, <1>3
<1>5. \A t \in U : m >= t
  BY <1>2, <1>3
<1>6. Max(U) \in U /\ \A t \in U : Max(U) >= t
  BY <1>4, <1>5 DEF Max
<1>7. Max(U) \in Nat /\ Max(U) >= 1 /\ \A t \in U : t <= Max(U)
  BY <1>2, <1>6
<1> QED
  BY <1>6, <1>7 DEF U

LEMMA TensIs == Tens \in Nat /\ Tens >= 1 /\ ArrayLen \in Nat /\ ArrayLen <= 10 * Tens
<1> DEFINE n == (ArrayLen + 9) \div 10
<1>1. ArrayLen \in Nat
  BY LimitsAssumption
<1>2. n \in Nat /\ ArrayLen <= 10 * n
  BY <1>1
<1>3. Tens = Max({1, n})
  BY DEF Tens
<1> HIDE DEF n
<1>4. Max({1, n}) = IF 1 >= n THEN 1 ELSE n
  BY <1>2, MaxPair
<1> QED
  BY <1>1, <1>2, <1>3, <1>4

Longer(item) == IF item.kind = "field" /\ item.class = "rows" THEN Tens ELSE 1

ExcessOf(f, sel) == Max({1} \cup {Longer(item) * f[item.sub] : item \in Included(sel)})

LEMMA ExcessOfIs ==
  ASSUME NEW sel \in Selections, NEW f, \A i \in DOMAIN sel : f[sel[i].sub] \in Nat
  PROVE  /\ ExcessOf(f, sel) \in Nat /\ ExcessOf(f, sel) >= 1
         /\ \A i \in Indices(sel) : Longer(sel[i]) * f[sel[i].sub] <= ExcessOf(f, sel)
         /\ \/ ExcessOf(f, sel) = 1
            \/ \E item \in Included(sel) : ExcessOf(f, sel) = Longer(item) * f[item.sub]
<1> DEFINE w == [i \in DOMAIN sel |-> Longer(sel[i]) * f[sel[i].sub]]
           T == {w[i] : i \in Indices(sel)}
<1>1. Len(sel) \in Nat /\ DOMAIN sel = 1..Len(sel) /\ Indices(sel) \subseteq DOMAIN sel
  BY Selection
<1>2. \A i \in DOMAIN sel : w[i] \in Nat
  BY TensIs DEF Longer
<1>3. ExcessOf(f, sel) = Max({1} \cup T)
  <2>1. {Longer(item) * f[item.sub] : item \in Included(sel)} = T
    BY <1>1 DEF Included
  <2> QED
    BY <2>1 DEF ExcessOf
<1>4. \A i \in Indices(sel) : w[i] = Longer(sel[i]) * f[sel[i].sub]
  BY <1>1
<1> HIDE DEF w
<1>5. PICK b \in Nat : \A i \in 1..Len(sel) : w[i] <= b
  BY <1>1, <1>2, Bounded
<1>6. T \subseteq Nat /\ \A t \in T : t <= b
  BY <1>1, <1>2, <1>5
<1>7. \A i \in Indices(sel) : w[i] \in T
  OBVIOUS
<1>8. \A t \in T : \E item \in Included(sel) : t = Longer(item) * f[item.sub]
  BY <1>4 DEF Included
<1> HIDE DEF T
<1>9. /\ Max({1} \cup T) \in Nat /\ Max({1} \cup T) >= 1
      /\ Max({1} \cup T) \in {1} \cup T /\ \A t \in T : t <= Max({1} \cup T)
  BY <1>6, MaxOne
<1> QED
  BY <1>3, <1>4, <1>7, <1>8, <1>9

LEMMA ExcessEquation == Excess = [sel \in Selections |-> ExcessOf(Excess, sel)]
<1> DEFINE D == Selections
           B == [f \in [D -> Nat] |-> [sel \in D |-> ExcessOf(f, sel)]]
<1>1. ASSUME NEW f \in [D -> Nat], NEW sel \in D PROVE ExcessOf(f, sel) \in Nat
  <2>1. \A i \in DOMAIN sel : f[sel[i].sub] \in Nat
    BY Selection
  <2> QED
    BY <2>1, ExcessOfIs
<1>2. \A f \in [D -> Nat] : B[f] \in [D -> Nat]
  BY <1>1
<1>3. ASSUME NEW f \in [D -> Nat], NEW g \in [D -> Nat], NEW sel \in D,
             \A s \in D : Nesting[s] < Nesting[sel] => f[s] = g[s]
      PROVE  B[f][sel] = B[g][sel]
  <2>1. \A item \in Included(sel) : f[item.sub] = g[item.sub]
    BY <1>3, Selection DEF Included
  <2>2. {Longer(item) * f[item.sub] : item \in Included(sel)} = {Longer(item) * g[item.sub] : item \in Included(sel)}
    BY <2>1
  <2> QED
    BY <2>2 DEF ExcessOf
<1>4. \A sel \in D : Nesting[sel] \in Nat
  BY NestingAssumption
<1> HIDE DEF B
<1>5. Local(B, Nesting, D, Nat)
  BY <1>3 DEF Local
<1> HIDE DEF D
<1>6. Solvable(B, D, Nat)
  BY <1>2, <1>4, <1>5, Recursion
<1>7. PICK f \in [D -> Nat] : \A sel \in D : f[sel] = B[f][sel]
  BY <1>6 DEF Solvable
<1>8. f = [sel \in Selections |-> ExcessOf(f, sel)]
  BY <1>7 DEF D, B
<1>9. Excess = CHOOSE g : g = [sel \in Selections |-> ExcessOf(g, sel)]
  BY DEF Excess, ExcessOf, Longer
<1> QED
  BY <1>8, <1>9

LEMMA ExcessIs ==
  \A sel \in Selections :
    /\ Excess[sel] \in Nat /\ Excess[sel] >= 1
    /\ \A i \in Indices(sel) : Longer(sel[i]) * Excess[sel[i].sub] <= Excess[sel]
<1> DEFINE S == {sel \in Selections : Excess[sel] \in Nat}
<1>1. ASSUME NEW sel \in Selections, \A s \in Selections : Nesting[s] < Nesting[sel] => s \in S
      PROVE  /\ Excess[sel] \in Nat /\ Excess[sel] >= 1
             /\ \A i \in Indices(sel) : Longer(sel[i]) * Excess[sel[i].sub] <= Excess[sel]
  <2>1. \A i \in DOMAIN sel : Excess[sel[i].sub] \in Nat
    BY <1>1, Selection
  <2>2. Excess[sel] = ExcessOf(Excess, sel)
    BY ExcessEquation
  <2> QED
    BY <2>1, <2>2, ExcessOfIs
<1>2. \A sel \in Selections : Nesting[sel] \in Nat
  BY NestingAssumption
<1>3. \A sel \in Selections : (\A s \in Selections : Nesting[s] < Nesting[sel] => s \in S) => sel \in S
  BY <1>1
<1> HIDE DEF S
<1>4. Selections \subseteq S
  BY <1>2, <1>3, ByRank
<1> QED
  BY <1>1, <1>4

LEMMA ExcessBelow ==
  ASSUME NEW sel \in Selections, NEW i \in Indices(sel)
  PROVE  /\ Excess[sel[i].sub] \in Nat /\ Excess[sel[i].sub] >= 1
         /\ Excess[sel] \in Nat /\ Excess[sel[i].sub] <= Excess[sel]
         /\ sel[i].kind = "field" /\ sel[i].class = "rows" => Tens * Excess[sel[i].sub] <= Excess[sel]
<1> DEFINE s == sel[i].sub
           n == Longer(sel[i])
<1>1. s \in Selections
  BY Selection
<1>2. Excess[s] \in Nat /\ Excess[s] >= 1 /\ Excess[sel] \in Nat /\ n * Excess[s] <= Excess[sel]
  BY <1>1, ExcessIs
<1>3. n \in Nat /\ n >= 1
  BY TensIs DEF Longer
<1>4. sel[i].kind = "field" /\ sel[i].class = "rows" => n = Tens
  BY DEF Longer
<1> HIDE DEF n, s
<1>5. 1 * Excess[s] <= n * Excess[s] /\ n * Excess[s] \in Nat
  BY <1>2, <1>3, Scaled
<1> QED
  BY <1>2, <1>4, <1>5 DEF s
-----------------------------------------------------------------------------
\* Cost bounds values.

\* What is selected below a page of so many rows holds at most m times what it was
\* charged, when m is the page multiplied by what arrays exceed theirs; elsewhere, as
\* many times its charge as its arrays exceed theirs.
Within(sel, rows, p, m) == Values[<<sel, rows>>] <= m * Cost[<<sel, p>>]

Paid(sel, rows, p, m) ==
  /\ rows \in 0..pageCap /\ p \in BOOLEAN /\ m \in Nat
  /\ m >= Excess[sel] /\ m >= rows * Excess[sel]
  /\ IF p THEN ~HasArray[sel] ELSE rows = 0

LEMMA Times ==
  ASSUME NEW a \in Nat, NEW b \in Nat, NEW c \in Nat
  PROVE  a * b \in Nat /\ (a * b) * c = a * (b * c) /\ (a * b) * c = b * (a * c)
         /\ (a * b) * c \in Nat
OBVIOUS

LEMMA ItemWithin ==
  ASSUME NEW sel \in Selections, Stated[sel], NEW rows, NEW p, NEW m, Paid(sel, rows, p, m),
         NEW i \in Indices(sel),
         \A r, q, k : Paid(sel[i].sub, r, q, k) => Within(sel[i].sub, r, q, k)
  PROVE  ValueOf(Values, sel[i], rows) <= m * CostOf(Cost, sel[i], p)
<1> DEFINE item == sel[i]
           s == item.sub
           e == Excess[s]
           M == Multiplier(item, p)
           C == M * Cost[<<s, hasPageArgs(item)>>]
           v == ValueOf(Values, item, rows)
<1>1. i \in DOMAIN sel /\ s \in Selections /\ (item.kind = "fragment" \/ IsField(item))
  BY ItemIs DEF Indices
<1>2. /\ rows \in 0..pageCap /\ p \in BOOLEAN /\ m \in Nat
      /\ m >= Excess[sel] /\ m >= rows * Excess[sel]
      /\ IF p THEN ~HasArray[sel] ELSE rows = 0
      /\ pageCap \in Nat /\ pageCap >= 1 /\ 0 \in 0..pageCap
  BY PageCapIs DEF Paid
<1>3. \A r \in 0..pageCap : Values[<<s, r>>] \in Nat
  BY <1>1, ValuesType
<1>4. Cost[<<s, TRUE>>] \in Nat /\ Cost[<<s, FALSE>>] \in Nat
  BY <1>1, CostType
<1>5. /\ e \in Nat /\ e >= 1 /\ e <= m /\ rows * e <= m /\ m >= 1
      /\ item.kind = "field" /\ item.class = "rows" => Tens * e <= m
  <2>1. /\ e \in Nat /\ e >= 1 /\ Excess[sel] \in Nat /\ e <= Excess[sel]
        /\ item.kind = "field" /\ item.class = "rows" => Tens * e <= Excess[sel]
    BY ExcessBelow
  <2>2. Tens \in Nat /\ rows \in Nat
    BY <1>2, TensIs
  <2> HIDE DEF e, item
  <2>3. rows * e <= rows * Excess[sel] /\ rows * e \in Nat /\ rows * Excess[sel] \in Nat
    BY <2>1, <2>2, Scaled
  <2>4. rows * e <= m
    BY <1>2, <2>3
  <2>5. item.kind = "field" /\ item.class = "rows" => Tens * e <= m
    <3>1. Tens * e \in Nat
      BY <2>1, <2>2, Times
    <3> QED
      BY <1>2, <2>1, <3>1
  <2> QED
    BY <1>2, <2>1, <2>4, <2>5
<1>6. Paid(s, 0, FALSE, e)
  BY <1>2, <1>5 DEF Paid
<1>7. CASE item.kind = "fragment"
  <2>1. p => ~HasArray[s]
    BY <1>2, <1>7, ArrayItems
  <2>2. Within(s, rows, p, m)
    BY <1>2, <1>5, <2>1 DEF Paid
  <2> QED
    BY <1>7, <2>2 DEF Within, ValueOf, CostOf
<1>8. CASE item.kind # "fragment"
  <2>1. IsField(item) /\ item.kind = "field"
    BY <1>1, <1>8 DEF IsField
  <2>2. ValueCases(Values, item, rows, v)
    BY <1>1, ValueOfIs
  <2>3. CostOf(Cost, item, p) = 1 + C
    BY <1>8 DEF CostOf
  <2>4. M \in Nat /\ M >= 1
    BY <1>2, <2>1, MultiplierIs
  <2>5. ~hasPageArgs(item) => C = M * Cost[<<s, FALSE>>]
    <3>1. ~hasPageArgs(item) => hasPageArgs(item) = FALSE
      BY DEF hasPageArgs
    <3> QED
      BY <3>1
  <2>6. hasPageArgs(item) => C = M * Cost[<<s, TRUE>>]
    <3>1. hasPageArgs(item) => hasPageArgs(item) = TRUE
      BY DEF hasPageArgs
    <3> QED
      BY <3>1
  <2>7. Values[<<s, 0>>] <= e * Cost[<<s, FALSE>>]
    <3>1. Within(s, 0, FALSE, e)
      BY <1>6
    <3> QED
      BY <3>1 DEF Within
  <2>8. ~PageRefused(item) => PageLimit(item) \in 0..pageCap
    BY <2>1, PageLimitIs
  <2>9. hasPageArgs(item) /\ ~PageRefused(item) =>
          ~HasArray[s] /\ PageLimit(item) <= M
    BY <1>2, <2>1, StatedItems, MultiplierIs
  <2>10. item.class = "rows" => ~p
    BY <1>2, <1>8, ArrayItems
  <2>11. item.class = "rows" => Tens * e <= m
    BY <1>5, <2>1
  <2> HIDE DEF item, s, M, v, e
  <2>12. C \in Nat
    BY <1>4, <2>4, <2>5, <2>6
  <2> HIDE DEF C
  <2>13. ASSUME NEW x \in Nat, x <= m * C PROVE 1 + x <= m * (1 + C)
    BY <1>2, <1>5, <2>12, <2>13, OneMore
  <2>14. 1 <= m * (1 + C) /\ 0 <= m * (1 + C)
    <3>1. 0 <= m * C
      BY <1>2, <2>12
    <3>2. 1 + 0 <= m * (1 + C)
      BY <2>13, <3>1
    <3>3. m * (1 + C) \in Nat
      BY <1>2, <2>12
    <3> QED
      BY <3>2, <3>3
  <2>15. ASSUME ~hasPageArgs(item) PROVE Cost[<<s, FALSE>>] <= C
    <3>1. 1 * Cost[<<s, FALSE>>] <= M * Cost[<<s, FALSE>>]
      BY <1>4, <2>4, Scaled
    <3> QED
      BY <1>4, <2>5, <2>15, <3>1
  <2>16. CASE item.class = "list" /\ ~PageRefused(item) /\ v = 1 + PageLimit(item) * Values[<<s, 0>>]
    <3> DEFINE L == PageLimit(item)
               K == Cost[<<s, TRUE>>]
    <3>1. hasPageArgs(item)
      BY <2>16 DEF hasPageArgs, Paged
    <3>2. Paid(s, 0, TRUE, e)
      BY <1>2, <1>5, <2>9, <2>16, <3>1 DEF Paid, e
    <3>3. Within(s, 0, TRUE, e)
      BY <3>2 DEF s, item
    <3>4. Values[<<s, 0>>] <= e * K /\ Values[<<s, 0>>] \in Nat
      BY <1>2, <1>3, <3>3 DEF Within
    <3>5. L \in Nat /\ L <= M /\ K \in Nat
      BY <1>2, <1>4, <2>8, <2>9, <2>16, <3>1
    <3>6. C = M * K
      BY <2>6, <3>1
    <3> HIDE DEF L, K
    <3>7. e * K \in Nat /\ M * (e * K) = e * (M * K)
      BY <1>5, <2>4, <3>5, Times
    <3>8. L * Values[<<s, 0>>] <= M * (e * K) /\ L * Values[<<s, 0>>] \in Nat
      BY <2>4, <3>4, <3>5, <3>7, Scaled
    <3>9. e * C <= m * C /\ e * C \in Nat /\ m * C \in Nat
      BY <1>2, <1>5, <2>12, Scaled
    <3>10. L * Values[<<s, 0>>] <= m * C
      BY <3>6, <3>7, <3>8, <3>9
    <3>11. 1 + L * Values[<<s, 0>>] <= m * (1 + C)
      BY <2>13, <3>8, <3>10
    <3> QED
      BY <2>3, <2>16, <3>11 DEF v, item, L
  <2>17. CASE item.class = "connection" /\ ~PageRefused(item) /\ v = 1 + Values[<<s, PageLimit(item)>>]
    <3> DEFINE L == PageLimit(item)
               K == Cost[<<s, TRUE>>]
    <3>1. hasPageArgs(item)
      BY <2>17 DEF hasPageArgs, Paged
    <3>2. L \in 0..pageCap /\ L \in Nat /\ L <= M
      BY <1>2, <2>8, <2>9, <2>17, <3>1
    <3>3. C = M * K /\ K \in Nat
      BY <1>4, <2>6, <3>1
    <3> HIDE DEF K
    <3>4. M * e \in Nat /\ M * e >= e /\ M * e >= L * e
      <4>1. 1 * e <= M * e /\ M * e \in Nat
        BY <1>5, <2>4, Scaled
      <4>2. L * e <= M * e
        BY <1>5, <2>4, <3>2, Scaled
      <4>3. L * e \in Nat
        BY <1>5, <3>2, Times
      <4> QED
        BY <1>5, <4>1, <4>2, <4>3
    <3>5. Paid(s, L, TRUE, M * e)
      BY <2>9, <2>17, <3>1, <3>2, <3>4 DEF Paid, e
    <3>6. Within(s, L, TRUE, M * e)
      BY <3>5 DEF s, item
    <3>7. Values[<<s, L>>] <= (M * e) * K /\ Values[<<s, L>>] \in Nat
      BY <1>3, <3>2, <3>6 DEF Within, K
    <3>8. (M * e) * K = e * (M * K) /\ e * (M * K) \in Nat
      BY <1>5, <2>4, <3>3, Times
    <3>9. e * C <= m * C /\ e * C \in Nat /\ m * C \in Nat
      BY <1>2, <1>5, <2>12, Scaled
    <3>10. Values[<<s, L>>] <= m * C
      BY <3>3, <3>7, <3>8, <3>9
    <3>11. 1 + Values[<<s, L>>] <= m * (1 + C)
      BY <2>13, <3>7, <3>10
    <3> QED
      BY <2>3, <2>17, <3>11 DEF v, item
  <2>18. CASE item.class \in {"nodes", "edges"} /\ v = 1 + rows * Values[<<s, 0>>]
    <3> DEFINE K == Cost[<<s, FALSE>>]
    <3>1. ~hasPageArgs(item)
      BY <2>18 DEF hasPageArgs, Paged
    <3>2. Values[<<s, 0>>] \in Nat /\ Values[<<s, 0>>] <= e * K /\ rows \in Nat
      BY <1>2, <1>3, <2>7
    <3>3. K \in Nat /\ K <= C
      BY <1>4, <2>15, <3>1
    <3> HIDE DEF K
    <3>4. e * K \in Nat /\ rows * e \in Nat /\ rows * (e * K) = (rows * e) * K
      BY <1>5, <3>2, <3>3, Times
    <3>5. rows * Values[<<s, 0>>] <= rows * (e * K) /\ rows * Values[<<s, 0>>] \in Nat
      BY <3>2, <3>4, Scaled
    <3>6. (rows * e) * K <= m * C /\ (rows * e) * K \in Nat /\ m * C \in Nat
      BY <1>2, <1>5, <2>12, <3>3, <3>4, Scaled
    <3>7. rows * Values[<<s, 0>>] <= m * C
      BY <3>4, <3>5, <3>6
    <3>8. 1 + rows * Values[<<s, 0>>] <= m * (1 + C)
      BY <2>13, <3>5, <3>7
    <3> QED
      BY <2>3, <2>18, <3>8 DEF v, item
  <2>19. CASE item.class = "rows" /\ v = 1 + ArrayLen * Values[<<s, 0>>]
    <3> DEFINE K == Cost[<<s, FALSE>>]
    <3>1. ~hasPageArgs(item) /\ p = FALSE
      BY <1>2, <2>10, <2>19 DEF hasPageArgs, Paged
    <3>2. M = 10
      BY <2>1, <2>19, <3>1, MultiplierIs DEF M
    <3>3. C = 10 * K /\ K \in Nat
      BY <1>4, <2>5, <3>1, <3>2
    <3>4. Values[<<s, 0>>] \in Nat /\ Values[<<s, 0>>] <= e * K
      BY <1>2, <1>3, <2>7
    <3> HIDE DEF K
    <3>5. ArrayLen \in Nat /\ Tens \in Nat /\ ArrayLen <= 10 * Tens /\ 10 * Tens \in Nat
      BY TensIs
    <3>6. e * K \in Nat /\ Tens * e \in Nat
      BY <1>5, <3>3, <3>5, Times
    <3>7. /\ ArrayLen * Values[<<s, 0>>] <= (10 * Tens) * (e * K)
          /\ ArrayLen * Values[<<s, 0>>] \in Nat
      BY <3>4, <3>5, <3>6, Scaled
    <3>8. (10 * Tens) * (e * K) = (Tens * e) * (10 * K)
      <4>1. (10 * Tens) * (e * K) = Tens * (10 * (e * K))
        BY <3>5, <3>6, Times
      <4>2. 10 * (e * K) = e * (10 * K)
        BY <1>5, <3>3
      <4>3. 10 * K \in Nat
        BY <3>3
      <4>4. (Tens * e) * (10 * K) = Tens * (e * (10 * K))
        BY <1>5, <3>5, <4>3, Times
      <4> QED
        BY <4>1, <4>2, <4>4
    <3>9. (Tens * e) * C <= m * C /\ (Tens * e) * C \in Nat /\ m * C \in Nat
      BY <1>2, <2>11, <2>12, <2>19, <3>6, Scaled
    <3>10. ArrayLen * Values[<<s, 0>>] <= m * C
      BY <3>3, <3>7, <3>8, <3>9
    <3>11. 1 + ArrayLen * Values[<<s, 0>>] <= m * (1 + C)
      BY <2>13, <3>7, <3>10
    <3> QED
      BY <2>3, <2>19, <3>11 DEF v, item
  <2>20. CASE item.class \in {"column", "row", "node", "info"} /\ v = 1 + Values[<<s, 0>>]
    <3> DEFINE K == Cost[<<s, FALSE>>]
    <3>1. ~hasPageArgs(item)
      BY <2>20 DEF hasPageArgs, Paged
    <3>2. Values[<<s, 0>>] \in Nat /\ Values[<<s, 0>>] <= e * K /\ K \in Nat /\ K <= C
      BY <1>2, <1>3, <1>4, <2>7, <2>15, <3>1
    <3> HIDE DEF K
    <3>3. e * K <= m * C /\ e * K \in Nat /\ m * C \in Nat
      BY <1>2, <1>5, <2>12, <3>2, Scaled
    <3>4. Values[<<s, 0>>] <= m * C
      BY <3>2, <3>3
    <3>5. 1 + Values[<<s, 0>>] <= m * (1 + C)
      BY <2>13, <3>2, <3>4
    <3> QED
      BY <2>3, <2>20, <3>5 DEF v, item
  <2>21. CASE v \in {0, 1}
    BY <2>3, <2>14, <2>21 DEF v, item
  <2> QED
    BY <1>8, <2>2, <2>16, <2>17, <2>18, <2>19, <2>20, <2>21 DEF ValueCases, s
<1> QED
  BY <1>7, <1>8

LEMMA ValuesWithinCost ==
  \A sel \in Selections : \A r, q, k : Stated[sel] /\ Paid(sel, r, q, k) => Within(sel, r, q, k)
<1> DEFINE S == {sel \in Selections : \A r, q, k : Stated[sel] /\ Paid(sel, r, q, k) => Within(sel, r, q, k)}
<1>1. ASSUME NEW sel \in Selections, \A s \in Selections : Nesting[s] < Nesting[sel] => s \in S
      PROVE  sel \in S
  <2> SUFFICES ASSUME NEW r, NEW q, NEW k, Stated[sel], Paid(sel, r, q, k) PROVE Within(sel, r, q, k)
    OBVIOUS
  <2>1. Len(sel) \in Nat /\ DOMAIN sel = 1..Len(sel) /\ r \in 0..pageCap /\ q \in BOOLEAN /\ k \in Nat
    BY Selection DEF Paid
  <2>2. ASSUME NEW i \in Indices(sel) PROVE ValueOf(Values, sel[i], r) <= k * CostOf(Cost, sel[i], q)
    <3>1. Stated[sel[i].sub] /\ i \in DOMAIN sel
      BY StatedItems DEF Indices
    <3>2. sel[i].sub \in S
      BY <1>1, <3>1, Selection
    <3>3. \A x, y, z : Paid(sel[i].sub, x, y, z) => Within(sel[i].sub, x, y, z)
      BY <3>1, <3>2
    <3> QED
      BY <3>3, ItemWithin
  <2> DEFINE v == ValuesOf(Values, sel, r)
             w == Costs(Cost, sel, q)
  <2>3. v \in [1..Len(sel) -> Nat] /\ Values[<<sel, r>>] = Total(v)
    <3>1. \A i \in DOMAIN sel, x \in 0..pageCap : Values[<<sel[i].sub, x>>] \in Nat
      BY Selection, ValuesType
    <3> QED
      BY <2>1, <3>1, ValuesAre, ValuesEquation
  <2>4. w \in [1..Len(sel) -> Nat] /\ Cost[<<sel, q>>] = Total(w)
    <3>1. \A i \in DOMAIN sel, x \in BOOLEAN : Cost[<<sel[i].sub, x>>] \in Nat
      BY Selection, CostType
    <3> QED
      BY <2>1, <3>1, CostsAre, CostEquation
  <2>5. ASSUME NEW i \in 1..Len(sel) PROVE v[i] <= k * w[i]
    BY <2>1, <2>2, <2>5 DEF ValuesOf, Costs
  <2> HIDE DEF v, w
  <2>6. Total(v) <= k * Total(w)
    BY <2>1, <2>3, <2>4, <2>5, TotalAtMost
  <2> QED
    BY <2>3, <2>4, <2>6 DEF Within
<1>2. \A sel \in Selections : Nesting[sel] \in Nat
  BY NestingAssumption
<1> HIDE DEF S
<1>3. Selections \subseteq S
  BY <1>1, <1>2, ByRank
<1> QED
  BY <1>3 DEF S
-----------------------------------------------------------------------------
\* What runs.

JoinedSteps(u, parts, n, T) ==
  /\ u \in [0..n -> Seq(T)] /\ u[0] = << >> /\ u[n] = Joined(parts)
  /\ \A i \in 1..n : u[i] = u[i - 1] \o parts[i]

LEMMA JoinedIs ==
  ASSUME NEW T, NEW n \in Nat, NEW parts \in [1..n -> Seq(T)]
  PROVE  \E u : JoinedSteps(u, parts, n, T)
<1> DEFINE D == 0..n
           V == Seq(T)
           h == [i \in D |-> i]
           next(f, i) == IF i = 0 THEN << >> ELSE f[i - 1] \o parts[i]
           B == [f \in [D -> V] |-> [i \in D |-> next(f, i)]]
           u == CHOOSE f : f = [i \in D |-> next(f, i)]
<1>1. parts \in Seq(V) /\ Len(parts) = n
  OBVIOUS
<1>2. ASSUME NEW f \in [D -> V], NEW i \in D PROVE next(f, i) \in V
  <2>1. CASE i = 0
    BY <2>1
  <2>2. CASE i # 0
    <3>1. f[i - 1] \in Seq(T) /\ parts[i] \in Seq(T)
      BY <2>2
    <3>2. f[i - 1] \o parts[i] \in Seq(T)
      BY <3>1, ConcatProperties
    <3> QED
      BY <2>2, <3>2
  <2> QED
    BY <2>1, <2>2
<1> HIDE DEF V
<1>3. \A f \in [D -> V] : B[f] \in [D -> V]
  BY <1>2
<1>4. ASSUME NEW f \in [D -> V], NEW g \in [D -> V], NEW i \in D,
             \A j \in D : h[j] < h[i] => f[j] = g[j]
      PROVE  B[f][i] = B[g][i]
  <2>1. i # 0 => i - 1 \in D /\ h[i - 1] < h[i]
    OBVIOUS
  <2>2. i # 0 => f[i - 1] = g[i - 1]
    BY <1>4, <2>1
  <2> QED
    BY <2>2
<1>5. \A i \in D : h[i] \in Nat
  OBVIOUS
<1>6. V # {}
  BY EmptySeq DEF V
<1> HIDE DEF B, h
<1>7. Local(B, h, D, V)
  BY <1>4 DEF Local
<1> HIDE DEF D
<1>8. Solvable(B, D, V)
  BY <1>3, <1>5, <1>6, <1>7, Recursion
<1>9. PICK f \in [D -> V] : \A i \in D : f[i] = B[f][i]
  BY <1>8 DEF Solvable
<1>10. f = [i \in D |-> next(f, i)]
  BY <1>9 DEF B
<1>11. u = [i \in D |-> next(u, i)]
  BY <1>10
<1>12. Joined(parts) = u[n]
  BY <1>1 DEF Joined, D
<1> HIDE DEF u
<1>13. u[0] = << >> /\ \A i \in 1..n : u[i] = u[i - 1] \o parts[i]
  <2>1. \A i \in D : u[i] = next(u, i)
    BY <1>11
  <2>2. 0 \in D /\ \A i \in 1..n : i \in D /\ i # 0
    BY DEF D
  <2>3. u[0] = << >>
    BY <2>1, <2>2
  <2>4. ASSUME NEW i \in 1..n PROVE u[i] = u[i - 1] \o parts[i]
    BY <2>1, <2>2
  <2> QED
    BY <2>3, <2>4
<1> DEFINE S == {i \in D : u[i] \in V}
<1>14. ASSUME NEW i \in D, \A j \in D : h[j] < h[i] => j \in S PROVE i \in S
  <2>1. i # 0 => i - 1 \in D /\ h[i - 1] < h[i] /\ i \in 1..n
    BY DEF D, h
  <2>2. CASE i = 0
    BY <1>13, <2>2, EmptySeq DEF V
  <2>3. CASE i # 0
    <3>1. u[i - 1] \in Seq(T) /\ parts[i] \in Seq(T)
      BY <1>14, <2>1, <2>3 DEF V
    <3>2. u[i] = u[i - 1] \o parts[i]
      BY <1>13, <2>1, <2>3
    <3>3. u[i - 1] \o parts[i] \in Seq(T)
      BY <3>1, ConcatProperties
    <3> QED
      BY <3>2, <3>3 DEF V
  <2> QED
    BY <2>2, <2>3
<1> HIDE DEF S
<1>15. D \subseteq S
  BY <1>5, <1>14, ByRank
<1>16. u \in [D -> V]
  BY <1>11, <1>15 DEF S
<1> QED
  BY <1>12, <1>13, <1>16 DEF JoinedSteps, D, V

\* What is charged for the fields of a sequence.
Bill(c, q) == Total([i \in DOMAIN q |-> c[q[i]]])

LEMMA TotalConcat ==
  ASSUME NEW n \in Nat, NEW k \in Nat, NEW v \in [1..n -> Nat], NEW w \in [1..k -> Nat],
         NEW z \in [1..(n + k) -> Nat],
         \A i \in 1..n : z[i] = v[i], \A i \in 1..k : z[n + i] = w[i]
  PROVE  Total(z) = Total(v) + Total(w)
<1>1. PICK x : TotalSteps(x, v, n)
  BY TotalIs
<1>2. PICK y : TotalSteps(y, w, k)
  BY TotalIs
<1>3. n + k \in Nat
  OBVIOUS
<1>4. PICK t : TotalSteps(t, z, n + k)
  BY <1>3, TotalIs
<1> DEFINE S == {i \in 0..n : t[i] = x[i]}
           R == {i \in 0..k : t[n + i] = x[n] + y[i]}
<1>5. 0 \in S
  BY <1>1, <1>4 DEF TotalSteps
<1>6. ASSUME NEW i \in 1..n, i - 1 \in S PROVE i \in S
  <2>1. i \in 1..(n + k) /\ i \in 0..n
    OBVIOUS
  <2>2. t[i] = t[i - 1] + z[i] /\ x[i] = x[i - 1] + v[i]
    BY <1>1, <1>4, <2>1 DEF TotalSteps
  <2> QED
    BY <1>6, <2>1, <2>2
<1> HIDE DEF S
<1>7. n \in S
  BY <1>5, <1>6, ByPrefix
<1>8. t[n] = x[n] /\ x[n] \in Nat
  BY <1>1, <1>7 DEF S, TotalSteps
<1>9. 0 \in R
  BY <1>2, <1>8 DEF TotalSteps
<1>10. ASSUME NEW i \in 1..k, i - 1 \in R PROVE i \in R
  <2>1. n + i \in 1..(n + k) /\ i \in 0..k /\ (n + i) - 1 = n + (i - 1) /\ i - 1 \in 0..k
    OBVIOUS
  <2>2. t[n + i] = t[n + (i - 1)] + z[n + i] /\ y[i] = y[i - 1] + w[i]
    BY <1>2, <1>4, <2>1 DEF TotalSteps
  <2>3. y[i - 1] \in Nat /\ w[i] \in Nat
    BY <1>2, <2>1 DEF TotalSteps
  <2>4. t[n + (i - 1)] = x[n] + y[i - 1]
    BY <1>10
  <2>5. t[n + i] = x[n] + y[i]
    BY <1>8, <2>2, <2>3, <2>4, SMTT(30)
  <2> QED
    BY <2>1, <2>5
<1> HIDE DEF R
<1>11. k \in R
  BY <1>9, <1>10, ByPrefix
<1> QED
  BY <1>1, <1>2, <1>4, <1>11 DEF R, TotalSteps

LEMMA BillType ==
  ASSUME NEW T, NEW c \in [T -> Nat], NEW q \in Seq(T)
  PROVE  Bill(c, q) \in Nat /\ [i \in DOMAIN q |-> c[q[i]]] \in [1..Len(q) -> Nat] /\ Len(q) \in Nat
<1>1. Len(q) \in Nat /\ DOMAIN q = 1..Len(q) /\ q \in [1..Len(q) -> T]
  BY LenProperties
<1>2. [i \in DOMAIN q |-> c[q[i]]] \in [1..Len(q) -> Nat]
  BY <1>1
<1> QED
  BY <1>1, <1>2, TotalType DEF Bill

LEMMA BillConcat ==
  ASSUME NEW T, NEW c \in [T -> Nat], NEW q \in Seq(T), NEW r \in Seq(T)
  PROVE  Bill(c, q \o r) = Bill(c, q) + Bill(c, r)
<1> DEFINE n == Len(q)
           k == Len(r)
           v == [i \in DOMAIN q |-> c[q[i]]]
           w == [i \in DOMAIN r |-> c[r[i]]]
           z == [i \in DOMAIN (q \o r) |-> c[(q \o r)[i]]]
<1>1. /\ q \o r \in Seq(T) /\ Len(q \o r) = n + k
      /\ \A i \in 1..(n + k) : (q \o r)[i] = IF i <= n THEN q[i] ELSE r[i - n]
  BY ConcatProperties
<1>2. /\ n \in Nat /\ k \in Nat /\ DOMAIN q = 1..n /\ DOMAIN r = 1..k /\ DOMAIN (q \o r) = 1..(n + k)
  BY <1>1, LenProperties
<1>3. v \in [1..n -> Nat] /\ w \in [1..k -> Nat]
  BY BillType
<1>4. z \in [1..(n + k) -> Nat]
  BY <1>1, BillType
<1>5. ASSUME NEW i \in 1..n PROVE z[i] = v[i]
  <2>1. i \in 1..(n + k) /\ i <= n
    BY <1>2
  <2>2. (q \o r)[i] = q[i]
    BY <1>1, <2>1
  <2> QED
    BY <1>2, <2>1, <2>2
<1>6. ASSUME NEW i \in 1..k PROVE z[n + i] = w[i]
  <2>1. n + i \in 1..(n + k) /\ ~(n + i <= n) /\ (n + i) - n = i
    BY <1>2
  <2>2. (q \o r)[n + i] = r[i]
    BY <1>1, <2>1
  <2> QED
    BY <1>2, <2>1, <2>2
<1> HIDE DEF n, k, v, w, z
<1>7. Total(z) = Total(v) + Total(w)
  BY <1>2, <1>3, <1>4, <1>5, <1>6, TotalConcat, ZenonT(40)
<1> QED
  BY <1>7 DEF v, w, z, Bill

LEMMA BillOne ==
  ASSUME NEW T, NEW c \in [T -> Nat]
  PROVE  Bill(c, << >>) = 0 /\ \A x \in T : Bill(c, <<x>>) = c[x]
<1>1. Bill(c, << >>) = 0
  <2> DEFINE w == [i \in DOMAIN << >> |-> c[<< >>[i]]]
  <2>1. w \in [1..0 -> Nat]
    OBVIOUS
  <2> HIDE DEF w
  <2>2. PICK u : TotalSteps(u, w, 0)
    BY <2>1, TotalIs
  <2>3. Total(w) = 0
    BY <2>2 DEF TotalSteps
  <2> QED
    BY <2>3 DEF Bill, w
<1>2. ASSUME NEW x \in T PROVE Bill(c, <<x>>) = c[x]
  <2> DEFINE q == <<x>>
             w == [i \in DOMAIN q |-> c[q[i]]]
  <2>1. q \in Seq(T) /\ Len(q) = 1 /\ q[1] = x /\ DOMAIN q = 1..1
    OBVIOUS
  <2>2. w \in [1..1 -> Nat] /\ w[1] = c[x]
    BY <2>1
  <2> HIDE DEF w
  <2>3. PICK u : TotalSteps(u, w, 1)
    BY <2>2, TotalIs
  <2>4. u[1] = u[1 - 1] + w[1] /\ u[0] = 0 /\ u[1] = Total(w)
    BY <2>3 DEF TotalSteps
  <2>5. Total(w) = c[x]
    BY <2>2, <2>4
  <2> QED
    BY <2>5 DEF Bill, w
<1> QED
  BY <1>1, <1>2
LEMMA BillJoined ==
  ASSUME NEW T, NEW c \in [T -> Nat], NEW n \in Nat, NEW parts \in [1..n -> Seq(T)]
  PROVE  Joined(parts) \in Seq(T) /\ Bill(c, Joined(parts)) = Total([i \in 1..n |-> Bill(c, parts[i])])
<1> DEFINE w == [i \in 1..n |-> Bill(c, parts[i])]
<1>1. w \in [1..n -> Nat]
  <2>1. ASSUME NEW i \in 1..n PROVE Bill(c, parts[i]) \in Nat
    BY BillType
  <2> QED
    BY <2>1
<1>2. PICK u : JoinedSteps(u, parts, n, T)
  BY JoinedIs
<1>3. \A i \in 1..n : w[i] = Bill(c, parts[i])
  OBVIOUS
<1> HIDE DEF w
<1>4. PICK t : TotalSteps(t, w, n)
  BY <1>1, TotalIs
<1> DEFINE S == {i \in 0..n : Bill(c, u[i]) = t[i]}
<1>5. 0 \in S
  BY <1>2, <1>4, BillOne DEF JoinedSteps, TotalSteps
<1>6. ASSUME NEW i \in 1..n, i - 1 \in S PROVE i \in S
  <2>1. i \in 0..n /\ i - 1 \in 0..n
    OBVIOUS
  <2>2. u[i] = u[i - 1] \o parts[i] /\ u[i - 1] \in Seq(T) /\ parts[i] \in Seq(T)
    BY <1>2, <2>1 DEF JoinedSteps
  <2>3. Bill(c, u[i - 1] \o parts[i]) = Bill(c, u[i - 1]) + Bill(c, parts[i])
    BY <2>2, BillConcat
  <2>4. t[i] = t[i - 1] + w[i]
    BY <1>4 DEF TotalSteps
  <2>5. Bill(c, u[i]) = t[i]
    BY <1>3, <1>6, <2>2, <2>3, <2>4
  <2> QED
    BY <2>1, <2>5
<1> HIDE DEF S
<1>7. n \in S
  BY <1>5, <1>6, ByPrefix
<1>8. u[n] \in Seq(T) /\ u[n] = Joined(parts) /\ t[n] = Total(w)
  BY <1>2, <1>4 DEF JoinedSteps, TotalSteps
<1> QED
  BY <1>7, <1>8 DEF S, w

Fields == {f \in UNION {{sel[i] : i \in DOMAIN sel} : sel \in Selections} : IsField(f)}

RootParts(f, sel) ==
  [i \in DOMAIN sel |->
     IF sel[i].skip THEN << >>
     ELSE IF sel[i].kind = "fragment" THEN f[sel[i].sub]
     ELSE <<sel[i]>>]

LEMMA RootPartsAre ==
  ASSUME NEW sel \in Selections, NEW f, \A i \in DOMAIN sel : f[sel[i].sub] \in Seq(Fields)
  PROVE  RootParts(f, sel) \in [1..Len(sel) -> Seq(Fields)] /\ Joined(RootParts(f, sel)) \in Seq(Fields)
<1>1. Len(sel) \in Nat /\ DOMAIN sel = 1..Len(sel)
  BY Selection
<1>2. ASSUME NEW i \in DOMAIN sel PROVE RootParts(f, sel)[i] \in Seq(Fields)
  <2>1. sel[i].kind # "fragment" => sel[i] \in Fields
    BY ItemIs DEF Fields
  <2>2. << >> \in Seq(Fields) /\ \A x \in Fields : <<x>> \in Seq(Fields)
    OBVIOUS
  <2> QED
    BY <2>1, <2>2 DEF RootParts
<1>3. RootParts(f, sel) \in [1..Len(sel) -> Seq(Fields)]
  BY <1>1, <1>2 DEF RootParts
<1> DEFINE n == Len(sel)
           parts == RootParts(f, sel)
<1> HIDE DEF n, parts
<1>4. n \in Nat /\ parts \in [1..n -> Seq(Fields)]
  BY <1>1, <1>3 DEF n, parts
<1>5. PICK u : JoinedSteps(u, parts, n, Fields)
  BY <1>4, JoinedIs
<1>6. Joined(parts) \in Seq(Fields)
  BY <1>4, <1>5 DEF JoinedSteps
<1> QED
  BY <1>3, <1>6 DEF parts

LEMMA RootFieldsEquation == RootFields = [sel \in Selections |-> Joined(RootParts(RootFields, sel))]
<1> DEFINE D == Selections
           V == Seq(Fields)
           B == [f \in [D -> V] |-> [sel \in D |-> Joined(RootParts(f, sel))]]
<1>1. ASSUME NEW f \in [D -> V], NEW sel \in D PROVE Joined(RootParts(f, sel)) \in V
  <2>1. \A i \in DOMAIN sel : f[sel[i].sub] \in Seq(Fields)
    BY Selection
  <2> QED
    BY <2>1, RootPartsAre
<1>2. V # {}
  BY EmptySeq
<1> HIDE DEF V
<1>3. \A f \in [D -> V] : B[f] \in [D -> V]
  BY <1>1
<1>4. ASSUME NEW f \in [D -> V], NEW g \in [D -> V], NEW sel \in D,
             \A s \in D : Nesting[s] < Nesting[sel] => f[s] = g[s]
      PROVE  B[f][sel] = B[g][sel]
  <2>1. \A i \in DOMAIN sel : f[sel[i].sub] = g[sel[i].sub]
    BY <1>4, Selection
  <2>2. RootParts(f, sel) = RootParts(g, sel)
    BY <2>1 DEF RootParts
  <2> QED
    BY <2>2
<1>5. \A sel \in D : Nesting[sel] \in Nat
  BY NestingAssumption
<1> HIDE DEF B
<1>6. Local(B, Nesting, D, V)
  BY <1>4 DEF Local
<1> HIDE DEF D
<1>7. Solvable(B, D, V)
  BY <1>2, <1>3, <1>5, <1>6, Recursion
<1>8. PICK f \in [D -> V] : \A sel \in D : f[sel] = B[f][sel]
  BY <1>7 DEF Solvable
<1>9. f = [sel \in Selections |-> Joined(RootParts(f, sel))]
  BY <1>8 DEF D, B
<1>10. RootFields = CHOOSE g : g = [sel \in Selections |-> Joined(RootParts(g, sel))]
  BY DEF RootFields, RootParts
<1> QED
  BY <1>9, <1>10

LEMMA RootFieldsType == \A sel \in Selections : RootFields[sel] \in Seq(Fields)
<1> DEFINE S == {sel \in Selections : RootFields[sel] \in Seq(Fields)}
<1>1. ASSUME NEW sel \in Selections, \A s \in Selections : Nesting[s] < Nesting[sel] => s \in S
      PROVE  sel \in S
  <2>1. \A i \in DOMAIN sel : RootFields[sel[i].sub] \in Seq(Fields)
    BY <1>1, Selection
  <2>2. RootFields[sel] = Joined(RootParts(RootFields, sel))
    BY RootFieldsEquation
  <2>3. Joined(RootParts(RootFields, sel)) \in Seq(Fields)
    BY <2>1, RootPartsAre
  <2> QED
    BY <2>2, <2>3
<1>2. \A sel \in Selections : Nesting[sel] \in Nat
  BY NestingAssumption
<1> HIDE DEF S
<1>3. Selections \subseteq S
  BY <1>1, <1>2, ByRank
<1> QED
  BY <1>3 DEF S
\* What each root field is charged, and what it is when introspection is exempt.
Charges == [f \in Fields |-> Charge(f)]
Exempt == [f \in Fields |-> IF Introspects(f) THEN 0 ELSE Charge(f)]

LEMMA ChargesAre == Charges \in [Fields -> Nat] /\ Exempt \in [Fields -> Nat]
<1>1. ASSUME NEW f \in Fields PROVE Charge(f) \in Nat
  <2>1. IsField(f)
    BY DEF Fields
  <2>2. f.sub \in Selections /\ hasPageArgs(f) \in BOOLEAN
    BY <2>1 DEF IsField, hasPageArgs
  <2>3. Multiplier(f, FALSE) \in Nat
    BY <2>1, MultiplierIs
  <2>4. Cost[<<f.sub, hasPageArgs(f)>>] \in Nat
    BY <2>2, CostType
  <2>5. 1 + Multiplier(f, FALSE) * Cost[<<f.sub, hasPageArgs(f)>>] \in Nat
    <3>1. \A a, b \in Nat : 1 + a * b \in Nat
      OBVIOUS
    <3> QED
      BY <2>3, <2>4, <3>1, Zenon
  <2> QED
    BY <2>5 DEF Charge
<1> QED
  BY <1>1 DEF Charges, Exempt

\* A selection set is billed for its root fields if each of its items is.
LEMMA BilledByItem ==
  ASSUME NEW sel \in Selections, NEW c \in [Fields -> Nat], NEW w,
         w = [i \in DOMAIN sel |-> w[i]],
         \A i \in DOMAIN sel : w[i] = Bill(c, RootParts(RootFields, sel)[i])
  PROVE  Total(w) = Bill(c, RootFields[sel])
<1> DEFINE n == Len(sel)
           parts == RootParts(RootFields, sel)
<1>1. n \in Nat /\ DOMAIN sel = 1..n
  BY Selection
<1>2. parts \in [1..n -> Seq(Fields)]
  BY RootFieldsType, Selection, RootPartsAre
<1>3. RootFields[sel] = Joined(parts)
  BY RootFieldsEquation
<1>4. w = [i \in 1..n |-> Bill(c, parts[i])]
  BY <1>1
<1> HIDE DEF n, parts
<1>5. Bill(c, Joined(parts)) = Total([i \in 1..n |-> Bill(c, parts[i])])
  BY <1>1, <1>2, BillJoined, ZenonT(40)
<1> QED
  BY <1>3, <1>4, <1>5

LEMMA BillOfPart ==
  ASSUME NEW sel \in Selections, NEW i \in DOMAIN sel, NEW c \in [Fields -> Nat]
  PROVE  Bill(c, RootParts(RootFields, sel)[i]) =
           IF sel[i].skip THEN 0
           ELSE IF sel[i].kind = "fragment" THEN Bill(c, RootFields[sel[i].sub])
           ELSE c[sel[i]]
<1>1. sel[i].kind # "fragment" => sel[i] \in Fields
  BY ItemIs DEF Fields
<1>2. Bill(c, << >>) = 0 /\ \A x \in Fields : Bill(c, <<x>>) = c[x]
  BY BillOne
<1> QED
  BY <1>1, <1>2 DEF RootParts

\* What an item is charged, in a selection set outside any page.
LEMMA CostOfField ==
  ASSUME NEW f \in Fields
  PROVE  CostOf(Cost, f, FALSE) = Charges[f]
BY DEF Fields, IsField, CostOf, Charges, Charge

\* checkLimits charges a selection set for the fields collectRootFields finds in it.
LEMMA CostIsBill == \A sel \in Selections : Cost[<<sel, FALSE>>] = Bill(Charges, RootFields[sel])
<1> DEFINE S == {sel \in Selections : Cost[<<sel, FALSE>>] = Bill(Charges, RootFields[sel])}
<1>1. ASSUME NEW sel \in Selections, \A s \in Selections : Nesting[s] < Nesting[sel] => s \in S
      PROVE  sel \in S
  <2> DEFINE w == Costs(Cost, sel, FALSE)
  <2>1. \A i \in DOMAIN sel : Cost[<<sel[i].sub, FALSE>>] = Bill(Charges, RootFields[sel[i].sub])
    BY <1>1, Selection
  <2>2. ASSUME NEW i \in DOMAIN sel PROVE w[i] = Bill(Charges, RootParts(RootFields, sel)[i])
    <3>1. w[i] = IF sel[i].skip THEN 0 ELSE CostOf(Cost, sel[i], FALSE)
      BY DEF Costs, Indices
    <3>2. sel[i].kind = "fragment" => CostOf(Cost, sel[i], FALSE) = Cost[<<sel[i].sub, FALSE>>]
      BY DEF CostOf
    <3>3. sel[i].kind # "fragment" => CostOf(Cost, sel[i], FALSE) = Charges[sel[i]]
      <4>1. sel[i].kind # "fragment" => sel[i] \in Fields
        BY ItemIs DEF Fields
      <4> QED
        BY <4>1, CostOfField
    <3> QED
      BY <2>1, <3>1, <3>2, <3>3, BillOfPart, ChargesAre
  <2>3. w = [i \in DOMAIN sel |-> w[i]]
    BY DEF Costs
  <2>4. Cost[<<sel, FALSE>>] = Total(w)
    BY CostEquation
  <2> HIDE DEF w
  <2>5. Total(w) = Bill(Charges, RootFields[sel])
    BY <2>2, <2>3, ChargesAre, BilledByItem
  <2> QED
    BY <2>4, <2>5
<1>2. \A sel \in Selections : Nesting[sel] \in Nat
  BY NestingAssumption
<1> HIDE DEF S
<1>3. Selections \subseteq S
  BY <1>1, <1>2, ByRank
<1> QED
  BY <1>3 DEF S

\* What checkLimits measures of an operation.
LEMMA MeasuredIs ==
  ASSUME NEW o \in Operations
  PROVE  /\ o \in Selections /\ Measured(o) \in Selections /\ DOMAIN Measured(o) = DOMAIN o
         /\ \A i \in DOMAIN o : Introspects(o[i]) => Measured(o)[i].skip
         /\ \A i \in DOMAIN o : ~Introspects(o[i]) => Measured(o)[i] = o[i]
         /\ Indices(Measured(o)) = {i \in Indices(o) : ~Introspects(o[i])}
<1>1. o \in Selections /\ Measured(o) \in Selections
  BY AdmissionAssumption
<1>2. DOMAIN Measured(o) = DOMAIN o
  BY DEF Measured
<1>3. \A i \in DOMAIN o : Introspects(o[i]) => Measured(o)[i].skip
  BY DEF Measured, LeftOut
<1>4. \A i \in DOMAIN o : ~Introspects(o[i]) => Measured(o)[i] = o[i]
  BY DEF Measured
<1>5. Indices(Measured(o)) = {i \in Indices(o) : ~Introspects(o[i])}
  BY <1>2, <1>3, <1>4 DEF Indices
<1> QED
  BY <1>1, <1>2, <1>3, <1>4, <1>5

\* The bill of fields none of which is introspection.
LEMMA BillWithout ==
  ASSUME NEW q \in Seq(Fields), \A i \in DOMAIN q : ~Introspects(q[i])
  PROVE  Bill(Exempt, q) = Bill(Charges, q)
<1>1. \A i \in DOMAIN q : q[i] \in Fields
  BY LenProperties
<1>2. [i \in DOMAIN q |-> Exempt[q[i]]] = [i \in DOMAIN q |-> Charges[q[i]]]
  BY <1>1 DEF Exempt, Charges
<1> QED
  BY <1>2 DEF Bill

LEMMA MeasuredIsBill ==
  ASSUME NEW o \in Operations, NotInFragments[o]
  PROVE  Cost[<<Measured(o), FALSE>>] = Bill(Exempt, RootFields[o])
<1> DEFINE m == Measured(o)
           w == Costs(Cost, m, FALSE)
<1>1. o \in Selections /\ m \in Selections /\ DOMAIN m = DOMAIN o
  BY MeasuredIs
<1>2. ASSUME NEW i \in DOMAIN o PROVE w[i] = Bill(Exempt, RootParts(RootFields, o)[i])
  <2>1. w[i] = IF m[i].skip THEN 0 ELSE CostOf(Cost, m[i], FALSE)
    BY <1>1 DEF Costs, Indices
  <2>2. CASE o[i].skip
    <3>1. m[i].skip
      BY <2>2, MeasuredIs
    <3> QED
      BY <1>1, <2>1, <2>2, <3>1, BillOfPart, ChargesAre
  <2>3. CASE ~o[i].skip /\ o[i].kind = "fragment"
    <3>1. ~Introspects(o[i]) /\ o[i].sub \in Selections
      BY <1>1, <2>3, ItemIs DEF Introspects
    <3>2. m[i] = o[i]
      BY <3>1, MeasuredIs
    <3>3. w[i] = Cost[<<o[i].sub, FALSE>>]
      BY <2>1, <2>3, <3>2 DEF CostOf
    <3>4. \A k \in DOMAIN RootFields[o[i].sub] : ~Introspects(RootFields[o[i].sub][k])
      BY <1>1, <2>3 DEF NotInFragments, Included, Indices
    <3>5. Bill(Exempt, RootFields[o[i].sub]) = Bill(Charges, RootFields[o[i].sub])
      BY <3>1, <3>4, RootFieldsType, BillWithout
    <3> QED
      BY <1>1, <2>3, <3>1, <3>3, <3>5, CostIsBill, BillOfPart, ChargesAre
  <2>4. CASE ~o[i].skip /\ o[i].kind # "fragment"
    <3>1. o[i] \in Fields
      BY <1>1, <2>4, ItemIs DEF Fields
    <3>2. Introspects(o[i]) => m[i].skip /\ Exempt[o[i]] = 0
      BY <3>1, MeasuredIs DEF Exempt
    <3>3. ~Introspects(o[i]) => m[i] = o[i] /\ Exempt[o[i]] = Charges[o[i]]
      BY <3>1, MeasuredIs DEF Exempt, Charges
    <3>4. w[i] = Exempt[o[i]]
      BY <2>1, <2>4, <3>1, <3>2, <3>3, CostOfField
    <3> QED
      BY <1>1, <2>4, <3>4, BillOfPart, ChargesAre
  <2> QED
    BY <2>2, <2>3, <2>4
<1>3. w = [i \in DOMAIN o |-> w[i]]
  BY <1>1 DEF Costs
<1>4. Cost[<<m, FALSE>>] = Total(w)
  BY <1>1, CostEquation
<1> HIDE DEF w, m
<1>5. Total(w) = Bill(Exempt, RootFields[o])
  BY <1>1, <1>2, <1>3, ChargesAre, BilledByItem
<1> QED
  BY <1>4, <1>5 DEF m
\* The limits are of what runs.
LEMMA LimitsCover == ASSUME op \in Operations PROVE LimitsCoverWhatRuns
<1> SUFFICES ASSUME NotInFragments[op]
    PROVE  Cost[<<Measured(op), FALSE>>] =
             Total([i \in DOMAIN RootFields[op] |->
                      IF Introspects(RootFields[op][i]) THEN 0 ELSE Charge(RootFields[op][i])])
  BY DEF LimitsCoverWhatRuns
<1> DEFINE q == RootFields[op]
<1>1. q \in Seq(Fields)
  BY AdmissionAssumption, RootFieldsType
<1>2. \A i \in DOMAIN q : q[i] \in Fields
  BY <1>1, LenProperties
<1> HIDE DEF q
<1>3. [i \in DOMAIN q |-> Exempt[q[i]]] = [i \in DOMAIN q |-> IF Introspects(q[i]) THEN 0 ELSE Charge(q[i])]
  BY <1>2 DEF Exempt
<1>4. Cost[<<Measured(op), FALSE>>] = Bill(Exempt, q)
  BY MeasuredIsBill DEF q
<1> QED
  BY <1>3, <1>4 DEF Bill, q

\* The directions of an operation's pages are those of what is measured of it.
LEMMA MeasuredStated ==
  ASSUME NEW o \in Operations, Stated[o]
  PROVE  Stated[Measured(o)]
<1> DEFINE m == Measured(o)
<1>1. o \in Selections /\ m \in Selections
  BY MeasuredIs
<1>2. ASSUME NEW item \in Included(m) PROVE item \in Included(o)
  <2>1. PICK i \in Indices(m) : item = m[i]
    BY <1>2 DEF Included
  <2>2. i \in Indices(o) /\ ~Introspects(o[i]) /\ i \in DOMAIN o
    BY <2>1, MeasuredIs DEF Indices
  <2>3. m[i] = o[i]
    BY <2>2, MeasuredIs
  <2> QED
    BY <2>1, <2>2, <2>3 DEF Included
<1> HIDE DEF m
<1>3. StatedIn(Stated, o)
  BY <1>1, StatedEquation
<1>4. StatedIn(Stated, m)
  BY <1>2, <1>3 DEF StatedIn
<1>5. Stated[m]
  BY <1>1, <1>4, StatedEquation
<1> QED
  BY <1>5 DEF m

\* Introspection holds no value of the database.
LEMMA MeasuredValues ==
  ASSUME NEW o \in Operations
  PROVE  Values[<<o, 0>>] = Values[<<Measured(o), 0>>]
<1> DEFINE m == Measured(o)
<1>1. o \in Selections /\ m \in Selections /\ DOMAIN m = DOMAIN o
  BY MeasuredIs
<1>2. 0 \in 0..pageCap
  BY PageCapIs
<1>3. Values[<<o, 0>>] = Total(ValuesOf(Values, o, 0)) /\ Values[<<m, 0>>] = Total(ValuesOf(Values, m, 0))
  BY <1>1, <1>2, ValuesEquation
<1>4. ASSUME NEW i \in DOMAIN o
      PROVE  (IF i \in Indices(o) THEN ValueOf(Values, o[i], 0) ELSE 0)
               = IF i \in Indices(m) THEN ValueOf(Values, m[i], 0) ELSE 0
  <2>1. CASE Introspects(o[i])
    <3>1. ValueOf(Values, o[i], 0) = 0
      BY <2>1 DEF Introspects, ValueOf, hasPageArgs, Paged
    <3>2. i \notin Indices(m)
      BY <2>1, MeasuredIs
    <3> QED
      BY <3>1, <3>2
  <2>2. CASE ~Introspects(o[i])
    <3>1. m[i] = o[i]
      BY <2>2, MeasuredIs
    <3>2. i \in Indices(m) <=> i \in Indices(o)
      BY <2>2, MeasuredIs
    <3> QED
      BY <3>1, <3>2
  <2> QED
    BY <2>1, <2>2
<1>5. ValuesOf(Values, o, 0) = ValuesOf(Values, m, 0)
  BY <1>1, <1>4 DEF ValuesOf
<1> QED
  BY <1>3, <1>5

Tall(s) == [j \in DOMAIN s |-> Deepest(Compiled, s[j], 0)]

LEMMA MeasuredCompiled ==
  ASSUME NEW o \in Operations
  PROVE  /\ Compiled[<<o, 0>>] \in Nat /\ Compiled[<<Measured(o), 0>>] \in Nat
         /\ Compiled[<<o, 0>>] <= Compiled[<<Measured(o), 0>>]
<1> DEFINE m == Measured(o)
<1>1. o \in Selections /\ m \in Selections /\ DOMAIN m = DOMAIN o
  BY MeasuredIs
<1>2. ASSUME NEW s \in Selections PROVE Tops(Compiled[<<s, 0>>], s, Tall(s))
  <2>1. \A i \in DOMAIN s, e \in Nat : Compiled[<<s[i].sub, e>>] \in Nat
    BY Selection, CompiledWithinDepth
  <2>2. Compiled[<<s, 0>>] = DeepestOf(Compiled, <<s, 0>>)
    BY CompiledEquation
  <2>3. 0 \in Nat /\ 0 + 1 \in Nat
    OBVIOUS
  <2> QED
    BY <2>1, <2>2, <2>3, DeepestOfIs DEF Tall
<1>3. ASSUME NEW i \in Indices(o) PROVE Tall(o)[i] = 0 \/ (i \in Indices(m) /\ Tall(o)[i] = Tall(m)[i])
  <2>1. i \in DOMAIN o
    BY DEF Indices
  <2>2. CASE Introspects(o[i])
    <3>1. Deepest(Compiled, o[i], 0) = 0
      BY <2>2 DEF Introspects, Deepest
    <3> QED
      BY <2>1, <3>1 DEF Tall
  <2>3. CASE ~Introspects(o[i])
    <3>1. m[i] = o[i] /\ i \in Indices(m)
      BY <2>1, <2>3, MeasuredIs
    <3> QED
      BY <1>1, <2>1, <3>1 DEF Tall
  <2> QED
    BY <2>2, <2>3
<1> HIDE DEF m
<1>4. Tops(Compiled[<<o, 0>>], o, Tall(o)) /\ Tops(Compiled[<<m, 0>>], m, Tall(m))
  BY <1>1, <1>2
<1>5. Compiled[<<o, 0>>] = 0 \/ \E i \in Indices(m) : Compiled[<<o, 0>>] = Tall(m)[i]
  BY <1>3, <1>4 DEF Tops
<1>6. Compiled[<<o, 0>>] \in Nat /\ Compiled[<<m, 0>>] \in Nat /\ Compiled[<<o, 0>>] <= Compiled[<<m, 0>>]
  BY <1>4, <1>5 DEF Tops
<1> QED
  BY <1>6 DEF m

\* What has passed checkLimits.
LEMMA WithinLimits ==
  ASSUME NEW o \in Operations, checkLimits(o) = "ok"
  PROVE  /\ 1 + Depth[Measured(o)] <= compilerMaxDepth
         /\ Cost[<<Measured(o), FALSE>>] <= maxCost
<1>1. Measured(o) \in Selections
  BY MeasuredIs
<1>2. Depth[Measured(o)] \in Nat /\ Cost[<<Measured(o), FALSE>>] \in Nat
  BY <1>1, DepthIs, CostType
<1>3. maxDepth \in Int /\ maxCost \in Int /\ maxDepth <= compilerMaxDepth /\ compilerMaxDepth \in Int
  BY LimitsAssumption DEF maxDepth, maxCost, compilerMaxDepth
<1>4. ~(1 + Depth[Measured(o)] > maxDepth) /\ ~(Cost[<<Measured(o), FALSE>>] > maxCost)
  BY DEF checkLimits
<1> QED
  BY <1>2, <1>3, <1>4

\* Arrays stand in an operation where they stand in what is measured of it.
LEMMA MeasuredExcess ==
  ASSUME NEW o \in Operations
  PROVE  /\ Excess[Measured(o)] \in Nat /\ Excess[o] \in Nat /\ Excess[Measured(o)] >= 1
         /\ Excess[Measured(o)] <= Excess[o]
<1> DEFINE m == Measured(o)
           T(sel) == {1} \cup {Longer(item) * Excess[item.sub] : item \in Included(sel)}
<1>1. o \in Selections /\ m \in Selections
  BY MeasuredIs
<1>2. ASSUME NEW item \in Included(m) PROVE item \in Included(o)
  <2>1. PICK i \in Indices(m) : item = m[i]
    BY <1>2 DEF Included
  <2>2. i \in Indices(o) /\ ~Introspects(o[i]) /\ i \in DOMAIN o
    BY <2>1, MeasuredIs DEF Indices
  <2>3. m[i] = o[i]
    BY <2>2, MeasuredIs
  <2> QED
    BY <2>1, <2>2, <2>3 DEF Included
<1> HIDE DEF m
<1>3. Excess[m] \in Nat /\ Excess[o] \in Nat /\ Excess[m] >= 1 /\ Excess[o] >= 1
  BY <1>1, ExcessIs
<1>4. Excess[m] = 1 \/ \E item \in Included(m) : Excess[m] = Longer(item) * Excess[item.sub]
  <2>1. Excess[m] = ExcessOf(Excess, m)
    BY <1>1, ExcessEquation
  <2>2. \A i \in DOMAIN m : Excess[m[i].sub] \in Nat
    BY <1>1, Selection, ExcessIs
  <2> QED
    BY <1>1, <2>1, <2>2, ExcessOfIs
<1>5. CASE Excess[m] = 1
  BY <1>3, <1>5 DEF m
<1>6. CASE \E item \in Included(m) : Excess[m] = Longer(item) * Excess[item.sub]
  <2>1. PICK item \in Included(o) : Excess[m] = Longer(item) * Excess[item.sub]
    BY <1>2, <1>6
  <2>2. PICK i \in Indices(o) : item = o[i]
    BY <2>1 DEF Included
  <2>3. Longer(o[i]) * Excess[o[i].sub] <= Excess[o]
    BY <1>1, ExcessIs
  <2> QED
    BY <1>3, <2>1, <2>2, <2>3 DEF m
<1> QED
  BY <1>4, <1>5, <1>6

LEMMA CostBounds == ASSUME op \in Operations, Checked PROVE CostBoundsResponse
<1> SUFFICES ASSUME pc = "running", Stated[op] PROVE Values[<<op, 0>>] <= Excess[op] * maxCost
  BY DEF CostBoundsResponse
<1> DEFINE m == Measured(op)
<1>1. m \in Selections /\ Stated[m]
  BY MeasuredIs, MeasuredStated
<1>2. Values[<<op, 0>>] = Values[<<m, 0>>]
  BY MeasuredValues
<1>3. Excess[m] \in Nat /\ Excess[op] \in Nat /\ Excess[m] >= 1 /\ Excess[m] <= Excess[op]
  BY MeasuredExcess
<1>4. Cost[<<m, FALSE>>] <= maxCost
  BY WithinLimits DEF Checked
<1> HIDE DEF m
<1>5. Paid(m, 0, FALSE, Excess[m])
  BY <1>3, PageCapIs DEF Paid
<1>6. Values[<<m, 0>>] <= Excess[m] * Cost[<<m, FALSE>>]
  BY <1>1, <1>5, ValuesWithinCost DEF Within
<1>7. Cost[<<m, FALSE>>] \in Nat /\ Values[<<m, 0>>] \in Nat /\ maxCost \in Nat
  <2>1. 0 \in 0..pageCap
    BY PageCapIs
  <2>2. maxCost \in Nat
    BY LimitsAssumption DEF maxCost
  <2> QED
    BY <1>1, <2>1, <2>2, CostType, ValuesType
<1>8. /\ Excess[m] * Cost[<<m, FALSE>>] <= Excess[op] * maxCost
      /\ Excess[m] * Cost[<<m, FALSE>>] \in Nat /\ Excess[op] * maxCost \in Nat
  BY <1>3, <1>4, <1>7, Scaled
<1> QED
  BY <1>2, <1>6, <1>7, <1>8

LEMMA DepthSettled == ASSUME op \in Operations, Checked PROVE DepthSettledUpFront
<1> SUFFICES ASSUME pc = "running" PROVE Compiled[<<op, 0>>] <= compilerMaxDepth
  BY DEF DepthSettledUpFront
<1>1. 1 + Depth[Measured(op)] <= compilerMaxDepth
  BY WithinLimits DEF Checked
<1>2. Measured(op) \in Selections /\ 0 \in Nat
  BY MeasuredIs
<1>3. Compiled[<<Measured(op), 0>>] \in Nat /\ Compiled[<<Measured(op), 0>>] <= 0 + 1 + Depth[Measured(op)]
  BY <1>2, CompiledWithinDepth
<1>4. Compiled[<<op, 0>>] \in Nat /\ Compiled[<<op, 0>>] <= Compiled[<<Measured(op), 0>>]
  BY MeasuredCompiled
<1>5. Depth[Measured(op)] \in Nat /\ compilerMaxDepth \in Int
  BY <1>2, DepthIs, LimitsAssumption DEF compilerMaxDepth
<1> QED
  BY <1>1, <1>3, <1>4, <1>5

\* checkLimits charges every root field that collectRootFields hands to the
\* database, once and whatever fragments it is in, and nothing else.
THEOREM LimitsAreOfWhatRuns == Spec => []LimitsCoverWhatRuns
<1>1. Inv => LimitsCoverWhatRuns
  BY LimitsCover DEF Inv, TypeOK
<1> QED
  BY InitInv, StepInv, <1>1, PTL DEF Spec

\* When its pages state their sizes, the response to an admitted operation holds no more
\* values than max_cost, times what the longest array exceeds ten elements by for each
\* level of arrays within arrays (measureSel against planPage and pageClause).
THEOREM ResponseWithinCost == Spec => []CostBoundsResponse
<1>1. Inv => CostBoundsResponse
  BY CostBounds DEF Inv, TypeOK
<1> QED
  BY InitInv, StepInv, <1>1, PTL DEF Spec

\* The compiler never meets its own depth limit in an admitted operation (measureSel
\* against rowJSON and compositeJSON).
THEOREM DepthNeverExceeded == Spec => []DepthSettledUpFront
<1>1. Inv => DepthSettledUpFront
  BY DepthSettled DEF Inv, TypeOK
<1> QED
  BY InitInv, StepInv, <1>1, PTL DEF Spec
=============================================================================
