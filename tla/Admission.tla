------------------------------ MODULE Admission ------------------------------
(***************************************************************************)
(* What an HTTP request passes before its statements run: the Authenticator  *)
(* turns its credential into a role, the executor measures its operation, the  *)
(* transaction takes the role on, or there is none.                          *)
(***************************************************************************)
EXTENDS Limits

CONSTANTS
  Roles, NoRole,      \* database roles; "" in the code
  BadRoles,           \* the roles validRole refuses
  Operations,         \* selection sets a client sends
  Arrivals            \* configurations, credentials and operations that meet

\* rls.*, as Validate accepts it: an anonymous role when RLS is enabled.
Configs ==
  {cfg \in [enabled : BOOLEAN, mode : {"jwt", "headers", "none"},
            default : Roles \cup {NoRole}, anonymous : Roles \cup {NoRole}, allowed : SUBSET Roles] :
     cfg.enabled => cfg.anonymous # NoRole}

\* A request presents nothing, something malformed or not verified, or claims
\* with or without a role.
Credentials == [kind : {"absent", "bad"}] \cup [kind : {"claims"}, role : Roles \cup {NoRole}]

ASSUME AdmissionAssumption ==
  /\ NoRole \notin Roles /\ BadRoles \subseteq Roles /\ Operations \subseteq Selections
  /\ \A o \in Operations : Measured(o) \in Selections
  /\ \A a \in Arrivals :
       /\ a.cfg \in Configs /\ a.credential \in Credentials /\ a.op \in Operations
       /\ a.txAsked \in BOOLEAN

VARIABLES
  pc, cfg, credential, op,
  txAsked,      \* tx_per_request, tx_mutations of a mutation, or a plugin's ForceTx
  role, sesRole

vars == <<pc, cfg, credential, op, txAsked, role, sesRole>>
------------------------------------------------------------------------------
\* roleAllowed.
roleAllowed(r) == cfg.allowed = {} \/ r \in cfg.allowed \cup {cfg.default, cfg.anonymous}

\* MUTANT of Fallback: without a default role there is none.
FallbackNone == cfg.default

\* resolve: the role of claims that name none.
Fallback == IF cfg.default = NoRole THEN cfg.anonymous ELSE cfg.default

Identity ==
  CASE ~cfg.enabled -> NoRole
    [] cfg.enabled /\ (cfg.mode = "none" \/ credential.kind = "absent") -> cfg.anonymous
    [] cfg.enabled /\ cfg.mode # "none" /\ credential.kind = "claims" ->
         IF credential.role = NoRole THEN Fallback ELSE credential.role

\* The credential fails, or names a role that is not allowed.
Unauthorized ==
  /\ cfg.enabled /\ cfg.mode # "none"
  /\ \/ credential.kind = "bad" /\ cfg.mode = "jwt"
     \/ credential.kind = "claims" /\ credential.role # NoRole /\ ~roleAllowed(credential.role)

\* Headers that are no claims are no credential.
Presented == ~(cfg.mode = "headers" /\ credential.kind = "bad")

Init ==
  /\ pc = "received"
  /\ \E a \in Arrivals : cfg = a.cfg /\ credential = a.credential /\ op = a.op /\ txAsked = a.txAsked
  /\ Presented
  /\ role = NoRole /\ sesRole = NoRole

\* handleGraphQL: Authenticate, or 401.
Authenticate ==
  /\ pc = "received"
  /\ ~Unauthorized
  /\ role' = Identity
  /\ pc' = "authenticated"
  /\ UNCHANGED <<cfg, credential, op, txAsked, sesRole>>
Reject401 ==
  /\ pc = "received"
  /\ Unauthorized
  /\ pc' = "refused"
  /\ UNCHANGED <<cfg, credential, op, txAsked, role, sesRole>>

\* Execute: checkLimits before anything touches the pool.
Admit ==
  /\ pc = "authenticated"
  /\ checkLimits(op) = "ok"
  /\ pc' = "admitted"
  /\ UNCHANGED <<cfg, credential, op, txAsked, role, sesRole>>
OverLimit ==
  /\ pc = "authenticated"
  /\ checkLimits(op) # "ok"
  /\ pc' = "refused"
  /\ UNCHANGED <<cfg, credential, op, txAsked, role, sesRole>>

\* MUTANT of needTx: what RLS needs is left to the options.
NeedTxOptions == txAsked

\* executeOperation: a role or claims call for a transaction, whatever the options say.
needTx ==
  \/ txAsked
  \/ cfg.enabled /\ (role # NoRole \/ (cfg.mode # "none" /\ credential.kind = "claims"))

\* runTx, applyRLS: the transaction takes the role on, a bad one ends it.
Begin ==
  /\ pc = "admitted" /\ needTx
  /\ ~(cfg.enabled /\ role \in BadRoles)
  /\ sesRole' = IF cfg.enabled THEN role ELSE NoRole
  /\ pc' = "running"
  /\ UNCHANGED <<cfg, credential, op, txAsked, role>>
InvalidRole ==
  /\ pc = "admitted" /\ needTx
  /\ cfg.enabled /\ role \in BadRoles
  /\ pc' = "refused"
  /\ UNCHANGED <<cfg, credential, op, txAsked, role, sesRole>>

\* run(e.Pool): as the connection's own role.
RunOnPool ==
  /\ pc = "admitted" /\ ~needTx
  /\ pc' = "running"
  /\ UNCHANGED <<cfg, credential, op, txAsked, role, sesRole>>

Next == Authenticate \/ Reject401 \/ Admit \/ OverLimit \/ Begin \/ InvalidRole \/ RunOnPool

Spec == Init /\ [][Next]_vars
------------------------------------------------------------------------------
TypeOK ==
  /\ pc \in {"received", "authenticated", "admitted", "running", "refused"}
  /\ cfg \in Configs /\ credential \in Credentials /\ op \in Operations /\ txAsked \in BOOLEAN
  /\ role \in Roles \cup {NoRole} /\ sesRole \in Roles \cup {NoRole}
  /\ pc = "refused" => sesRole = NoRole

\* With RLS no statement runs as the connection's own role, and none under a role
\* that is neither configured nor, where there is a list, listed: whatever the
\* request presented and whichever roles the configuration leaves empty, and
\* whether or not a transaction was asked for.
NeverPrivileged ==
  pc = "running" /\ cfg.enabled =>
    /\ sesRole # NoRole
    /\ sesRole \in cfg.allowed \cup {cfg.anonymous, cfg.default} \/ cfg.allowed = {}

\* The limits are of what runs: checkLimits charges every root field that
\* collectRootFields hands to the database, once and whatever fragments it is in.
LimitsCoverWhatRuns ==
  NotInFragments[op] =>
    LET ran == RootFields[op] IN
    Cost[<<Measured(op), FALSE>>] =
      Total([i \in DOMAIN ran |-> IF Introspects(ran[i]) THEN 0 ELSE Charge(ran[i])])

\* measureSel against planPage and pageClause: when its pages state their sizes, the
\* response to an admitted operation holds no more values than max_cost, as long as
\* no array is longer than ten elements; with longer ones, whose length nothing limits,
\* as many times more as they are longer, for each level of arrays within arrays.
CostBoundsResponse ==
  pc = "running" /\ Stated[op] => Values[<<op, 0>>] <= Excess[op] * maxCost

\* measureSel against rowJSON and compositeJSON: the compiler never meets its own
\* depth limit in an admitted operation, so no field fails for depth after others
\* took effect.
DepthSettledUpFront ==
  pc = "running" => Compiled[<<op, 0>>] <= compilerMaxDepth
=============================================================================
