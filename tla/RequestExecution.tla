-------------------------- MODULE RequestExecution --------------------------
(***************************************************************************)
(* The executor of internal/exec: concurrent GraphQL operations share a    *)
(* pool of PostgreSQL connections.  An operation runs its root fields in   *)
(* order, either each in autocommit on a connection of its own or all of   *)
(* them in one transaction, which first assumes the caller's database      *)
(* identity (role and claims) and is re-run after a serialization failure. *)
(* The context of an operation may end at any time: the HTTP timeout       *)
(* answers 503, or the client goes away, while the handler runs on.        *)
(*                                                                         *)
(* Data is abstracted to what the properties tell apart.  A root field is  *)
(* its position, the effect of a mutation field is that position appended  *)
(* to db[r], and the state a query reads is the value of db it saw.        *)
(***************************************************************************)
EXTENDS Naturals, Sequences, FiniteSets

CONSTANTS
  Requests,      \* the operations
  Conns,         \* the connections of the pool (MaxConns)
  NoConn,        \* no connection held
  Mutations,     \* the requests that are mutations; the others are queries
  NumFields,     \* [Requests -> Nat]: root fields of each request
  Roles, NoRole, \* database roles; NoRole is the empty role
  BadRoles,      \* roles that validRole or the server refuses
  Keys,          \* claim keys
  BadKeys,       \* keys that validClaimKey refuses
  Values, Unset, \* claim values; Unset is an absent claim
  Role,          \* [Requests -> Roles \cup {NoRole}]
  Claims,        \* [Requests -> [Keys -> Values \cup {Unset}]]
  ForceTx,       \* requests whose BeforeOperation hooks set op.ForceTx
  TxMutations, TxPerRequest, RLS,   \* Options, Booleans
  TxRetries,     \* Options.TxRetries
  Isolation,     \* "read_committed", "repeatable_read" or "serializable"
  NoSnapshot     \* no snapshot taken yet

ASSUME RequestAssumption ==
  /\ NoConn \notin Conns
  /\ Mutations \subseteq Requests
  /\ ForceTx \subseteq Requests
  /\ NumFields \in [Requests -> Nat]

ASSUME IdentityAssumption ==
  /\ NoRole \notin Roles
  /\ BadRoles \subseteq Roles
  /\ Role \in [Requests -> Roles \cup {NoRole}]
  /\ BadKeys \subseteq Keys
  /\ Unset \notin Values
  /\ Claims \in [Requests -> [Keys -> Values \cup {Unset}]]

ASSUME OptionsAssumption ==
  /\ TxMutations \in BOOLEAN
  /\ TxPerRequest \in BOOLEAN
  /\ RLS \in BOOLEAN
  /\ TxRetries \in Nat
  /\ Isolation \in {"read_committed", "repeatable_read", "serializable"}

\* Database states are functions, so a model value will do.
ASSUME SnapshotAssumption == NoSnapshot \notin [Requests -> Seq(Nat)]

VARIABLES
  pc,         \* where the handler of each request is
  field,      \* the root field it runs next
  attempt,    \* transactional attempts that were retried
  claimsLeft, \* claim keys applyRLS has still to set
  errors,     \* kinds of the errors in res.Errors
  data,       \* root fields with a result in res.Data
  seen,       \* database states the query fields of this attempt read
  held,       \* the connection checked out of the pool
  ctxDone,    \* the context is cancelled
  reply,      \* what the client got
  txState,    \* of each pool connection: "idle", "open" or "aborted"
  sesRole,    \* the role its session runs under
  sesClaims,  \* the claims set on its session
  snapshot,   \* the database state its transaction took as snapshot
  pending,    \* effects of its transaction that are not durable yet
  db,         \* durable effects of each request, in commit order
  orphans     \* work the server may still finish for a lost connection

reqVars == <<pc, field, attempt, claimsLeft, errors, data, seen, held>>
session == <<txState, sesRole, sesClaims, snapshot, pending>>
vars == <<reqVars, ctxDone, reply, session, db, orphans>>
------------------------------------------------------------------------------
IsMutation(r) == r \in Mutations
Fields(r) == 1..NumFields[r]
AllFields(r) == [i \in Fields(r) |-> i]

HasClaims(r) == \E k \in Keys : Claims[r][k] # Unset

\* MUTANT of NeedTx: claims without a role do not call for a transaction.
NeedTxForRoleOnly(r) ==
  \/ r \in ForceTx
  \/ TxPerRequest
  \/ IsMutation(r) /\ TxMutations
  \/ RLS /\ Role[r] # NoRole

\* executeOperation: does the operation need a transaction?
NeedTx(r) ==
  \/ r \in ForceTx
  \/ TxPerRequest
  \/ IsMutation(r) /\ TxMutations
  \/ RLS /\ (Role[r] # NoRole \/ HasClaims(r))

\* The identity applyRLS gives to a transaction of r.
RoleOf(r) == IF RLS THEN Role[r] ELSE NoRole
ClaimsOf(r) ==
  [k \in Keys |-> IF RLS /\ k \notin BadKeys THEN Claims[r][k] ELSE Unset]

NoClaims == [k \in Keys |-> Unset]

ValidClaims(r) == {k \in Keys \ BadKeys : Claims[r][k] # Unset}

\* A session outside any transaction: settings made with SET LOCAL are gone.
FreshSession(c) ==
  /\ txState[c] = "idle"
  /\ sesRole[c] = NoRole
  /\ sesClaims[c] = NoClaims
  /\ snapshot[c] = NoSnapshot
  /\ pending[c] = << >>

Idle(c) == \A r \in Requests : held[r] # c

\* MUTANT of View: the isolation level never reaches BeginTx.
ViewLatest(c) == db

\* What a statement on connection c sees of the other requests' effects.
View(c) ==
  IF Isolation = "read_committed" \/ snapshot[c] = NoSnapshot
    THEN db ELSE snapshot[c]

\* MUTANT of IsSerializationFailure: any failed attempt is taken to be retryable.
IsAnyFailure(r) == errors[r] # {}

\* isSerializationFailure over res.Errors.
IsSerializationFailure(r) == "serialization" \in errors[r]

ShouldRetry(r) ==
  /\ attempt[r] < TxRetries
  /\ IsSerializationFailure(r)
  /\ ~ ctxDone[r]

\* "not_sent": never reached the server; "lost": its connection died under it.
ErrorKinds == {"not_sent", "statement", "serialization", "lost"}
------------------------------------------------------------------------------
Init ==
  /\ pc = [r \in Requests |-> "received"]
  /\ field = [r \in Requests |-> 1]
  /\ attempt = [r \in Requests |-> 0]
  /\ claimsLeft = [r \in Requests |-> {}]
  /\ errors = [r \in Requests |-> {}]
  /\ data = [r \in Requests |-> {}]
  /\ seen = [r \in Requests |-> {}]
  /\ held = [r \in Requests |-> NoConn]
  /\ ctxDone = [r \in Requests |-> FALSE]
  /\ reply = [r \in Requests |-> "none"]
  /\ txState = [c \in Conns |-> "idle"]
  /\ sesRole = [c \in Conns |-> NoRole]
  /\ sesClaims = [c \in Conns |-> NoClaims]
  /\ snapshot = [c \in Conns |-> NoSnapshot]
  /\ pending = [c \in Conns |-> << >>]
  /\ db = [r \in Requests |-> << >>]
  /\ orphans = {}

Goto(r, label) == pc' = [pc EXCEPT ![r] = label]
AddError(r, kind) == errors' = [errors EXCEPT ![r] = @ \cup {kind}]
Advance(r) == field' = [field EXCEPT ![r] = @ + 1]

\* The field's result goes into res.Data.
Deliver(r) == data' = [data EXCEPT ![r] = @ \cup {field[r]}]

\* A query records the database state its statement read.
Observe(r, state) ==
  seen' = [seen EXCEPT ![r] = IF IsMutation(r) THEN @ ELSE @ \cup {state}]

\* Whatever ended it, no transaction is left on the session of connection c.
EndTx(c) ==
  /\ txState' = [txState EXCEPT ![c] = "idle"]
  /\ sesRole' = [sesRole EXCEPT ![c] = NoRole]
  /\ sesClaims' = [sesClaims EXCEPT ![c] = NoClaims]
  /\ snapshot' = [snapshot EXCEPT ![c] = NoSnapshot]
  /\ pending' = [pending EXCEPT ![c] = << >>]

\* The connection returns to the pool outside any transaction: after COMMIT or
\* ROLLBACK as it is, otherwise closed and replaced by a new one.
Release(r) ==
  /\ held' = [held EXCEPT ![r] = NoConn]
  /\ EndTx(held[r])

\* The effects of one commit become durable.
MakeDurable(r, effects) == db' = [db EXCEPT ![r] = @ \o effects]

\* The connection dies under a statement in flight: the server may or may not
\* complete it, before or after the client has noticed.
Abandon(r, effects) ==
  orphans' = IF effects = << >> THEN orphans
             ELSE orphans \cup {[req |-> r, effects |-> effects]}

\* MUTANT of AfterFieldError: runTx commits what the fields before the error did.
AfterFieldErrorCommit(r, onMutation, onQuery) ==
  IF IsMutation(r)
    THEN Goto(r, onQuery) /\ field' = [field EXCEPT ![r] = NumFields[r] + 1]
    ELSE Goto(r, onQuery) /\ Advance(r)

\* MUTANT of AfterFieldError: a mutation continues after an error, like a query.
AfterFieldErrorContinue(r, onMutation, onQuery) == Goto(r, onQuery) /\ Advance(r)

\* After a field failed a mutation breaks off, a query goes on.
AfterFieldError(r, onMutation, onQuery) ==
  IF IsMutation(r)
    THEN Goto(r, onMutation) /\ UNCHANGED field
    ELSE Goto(r, onQuery) /\ Advance(r)
------------------------------------------------------------------------------
\* The request is answered before any connection is used: parse, validation,
\* limits, unknown operation, subscription, or an error of a BeforeOperation hook.
Refuse(r) ==
  /\ pc[r] = "received"
  /\ AddError(r, "not_sent")
  /\ Goto(r, "answered")
  /\ UNCHANGED <<field, attempt, claimsLeft, data, seen, held,
                 ctxDone, reply, session, db, orphans>>

StartOperation(r) ==
  /\ pc[r] = "received"
  /\ Goto(r, IF NeedTx(r) THEN "begin" ELSE "autocommit")
  /\ UNCHANGED <<field, attempt, claimsLeft, errors, data, seen, held,
                 ctxDone, reply, session, db, orphans>>

\* runTx: Pool.BeginTx waits for an idle connection and opens the transaction.
BeginTx(r) ==
  /\ pc[r] = "begin"
  /\ ~ ctxDone[r]
  /\ \E c \in Conns :
       /\ Idle(c)
       /\ held' = [held EXCEPT ![r] = c]
       /\ txState' = [txState EXCEPT ![c] = "open"]
  /\ claimsLeft' = [claimsLeft EXCEPT ![r] = IF RLS THEN ValidClaims(r) ELSE {}]
  /\ Goto(r, IF RLS /\ Role[r] # NoRole THEN "set_role" ELSE "set_claims")
  /\ UNCHANGED <<field, attempt, errors, data, seen, ctxDone, reply,
                 sesRole, sesClaims, snapshot, pending, db, orphans>>

\* BeginTx fails: context done while waiting, or no usable connection.
BeginTxFails(r) ==
  /\ pc[r] = "begin"
  /\ AddError(r, "not_sent")
  /\ Goto(r, "decide")
  /\ UNCHANGED <<field, attempt, claimsLeft, data, seen, held,
                 ctxDone, reply, session, db, orphans>>

\* applyRLS: SET LOCAL ROLE.
SetLocalRole(r) ==
  /\ pc[r] = "set_role"
  /\ ~ ctxDone[r]
  /\ Role[r] \notin BadRoles
  /\ sesRole' = [sesRole EXCEPT ![held[r]] = Role[r]]
  /\ Goto(r, "set_claims")
  /\ UNCHANGED <<field, attempt, claimsLeft, errors, data, seen, held, ctxDone, reply,
                 txState, sesClaims, snapshot, pending, db, orphans>>

\* applyRLS: one set_config(..., true); the Go map gives the claims in any order.
\* It is a SELECT, so it takes the snapshot of the transaction.
SetClaim(r) ==
  /\ pc[r] = "set_claims"
  /\ ~ ctxDone[r]
  /\ \E k \in claimsLeft[r] :
       /\ sesClaims' = [sesClaims EXCEPT ![held[r]][k] = Claims[r][k]]
       /\ claimsLeft' = [claimsLeft EXCEPT ![r] = @ \ {k}]
  /\ snapshot' = [snapshot EXCEPT ![held[r]] = View(held[r])]
  /\ UNCHANGED <<pc, field, attempt, errors, data, seen, held, ctxDone, reply,
                 txState, sesRole, pending, db, orphans>>

IdentityApplied(r) ==
  /\ pc[r] = "set_claims"
  /\ claimsLeft[r] = {}
  /\ Goto(r, "fields")
  /\ UNCHANGED <<field, attempt, claimsLeft, errors, data, seen, held,
                 ctxDone, reply, session, db, orphans>>

\* MUTANT of ApplyRLSFails: Rollback is deferred only after applyRLS succeeded.
ApplyRLSFailsNoRollback(r) ==
  /\ pc[r] = "set_role" \/ (pc[r] = "set_claims" /\ claimsLeft[r] # {})
  /\ AddError(r, "statement")
  /\ Goto(r, "decide")
  /\ UNCHANGED <<field, attempt, claimsLeft, data, seen, held,
                 ctxDone, reply, session, db, orphans>>

\* applyRLS fails: a refused role or claim, or the connection or context is gone.
ApplyRLSFails(r) ==
  /\ pc[r] = "set_role" \/ (pc[r] = "set_claims" /\ claimsLeft[r] # {})
  /\ AddError(r, "statement")
  /\ Goto(r, "rollback")
  /\ UNCHANGED <<field, attempt, claimsLeft, data, seen, held,
                 ctxDone, reply, session, db, orphans>>
------------------------------------------------------------------------------
\* run inside a transaction: the next field's statement succeeds.
TxField(r) ==
  /\ pc[r] = "fields"
  /\ field[r] <= NumFields[r]
  /\ ~ ctxDone[r]
  /\ txState[held[r]] = "open"
  /\ snapshot' = [snapshot EXCEPT ![held[r]] = View(held[r])]
  /\ pending' = [pending EXCEPT
                   ![held[r]] = IF IsMutation(r) THEN Append(@, field[r]) ELSE @]
  /\ Observe(r, View(held[r]))
  /\ Deliver(r)
  /\ Advance(r)
  /\ UNCHANGED <<pc, attempt, claimsLeft, errors, held, ctxDone, reply,
                 txState, sesRole, sesClaims, db, orphans>>

\* The field fails without failing the transaction: a compile error, no row
\* matched by a mutation, or a result that cannot be minted, after its effect.
TxFieldError(r) ==
  /\ pc[r] = "fields"
  /\ field[r] <= NumFields[r]
  /\ \/ UNCHANGED pending
     \/ /\ IsMutation(r) /\ txState[held[r]] = "open" /\ ~ ctxDone[r]
        /\ pending' = [pending EXCEPT ![held[r]] = Append(@, field[r])]
  /\ AddError(r, "statement")
  /\ AfterFieldError(r, "rollback", "fields")
  /\ UNCHANGED <<attempt, claimsLeft, data, seen, held, ctxDone, reply,
                 txState, sesRole, sesClaims, snapshot, db, orphans>>

\* The server reports an error, which aborts the transaction (every later
\* statement fails too), or the connection is lost under the statement.
TxStatementError(r) ==
  /\ pc[r] = "fields"
  /\ field[r] <= NumFields[r]
  /\ \E kind \in {"statement", "serialization", "lost"} :
       /\ kind = "serialization" => txState[held[r]] = "open"
       /\ AddError(r, kind)
  /\ txState' = [txState EXCEPT ![held[r]] = "aborted"]
  /\ AfterFieldError(r, "rollback", "fields")
  /\ UNCHANGED <<attempt, claimsLeft, data, seen, held, ctxDone, reply,
                 sesRole, sesClaims, snapshot, pending, db, orphans>>

\* All fields ran: runTx sends COMMIT.
SendCommit(r) ==
  /\ pc[r] = "fields"
  /\ field[r] > NumFields[r]
  /\ ~ ctxDone[r]
  /\ Goto(r, "committing")
  /\ UNCHANGED <<field, attempt, claimsLeft, errors, data, seen, held,
                 ctxDone, reply, session, db, orphans>>

\* Commit with a context that is already done sends nothing and fails.
CommitNotSent(r) ==
  /\ pc[r] = "fields"
  /\ field[r] > NumFields[r]
  /\ ctxDone[r]
  /\ AddError(r, "not_sent")
  /\ Release(r)
  /\ Goto(r, "decide")
  /\ UNCHANGED <<field, attempt, claimsLeft, data, seen, ctxDone, reply, db, orphans>>

Commit(r) ==
  /\ pc[r] = "committing"
  /\ txState[held[r]] = "open"
  /\ MakeDurable(r, pending[held[r]])
  /\ Release(r)
  /\ Goto(r, "decide")
  /\ UNCHANGED <<field, attempt, claimsLeft, errors, data, seen,
                 ctxDone, reply, orphans>>

\* COMMIT of an aborted transaction rolls back (pgx reports it as an error); a
\* serializable transaction may be refused at its commit.
CommitRefused(r) ==
  /\ pc[r] = "committing"
  /\ \/ txState[held[r]] = "aborted" /\ AddError(r, "statement")
     \/ txState[held[r]] = "open" /\ AddError(r, "serialization")
  /\ Release(r)
  /\ Goto(r, "decide")
  /\ UNCHANGED <<field, attempt, claimsLeft, data, seen, ctxDone, reply, db, orphans>>

\* MUTANT of CommitLost: the error of Commit is ignored.
CommitLostSilently(r) ==
  /\ pc[r] = "committing"
  /\ Abandon(r, IF txState[held[r]] = "open" THEN pending[held[r]] ELSE << >>)
  /\ Release(r)
  /\ Goto(r, "decide")
  /\ UNCHANGED <<field, attempt, claimsLeft, errors, data, seen, ctxDone, reply, db>>

\* The connection or the context is lost while COMMIT is in flight.
CommitLost(r) ==
  /\ pc[r] = "committing"
  /\ Abandon(r, IF txState[held[r]] = "open" THEN pending[held[r]] ELSE << >>)
  /\ AddError(r, "lost")
  /\ Release(r)
  /\ Goto(r, "decide")
  /\ UNCHANGED <<field, attempt, claimsLeft, data, seen, ctxDone, reply, db>>

\* MUTANT of Rollback: the connection does not go back to the pool.
RollbackKeepingConn(r) ==
  /\ pc[r] = "rollback"
  /\ EndTx(held[r])
  /\ Goto(r, "decide")
  /\ UNCHANGED <<field, attempt, claimsLeft, errors, data, seen, held,
                 ctxDone, reply, db, orphans>>

\* The deferred Rollback: ROLLBACK, or the connection is closed if that fails.
Rollback(r) ==
  /\ pc[r] = "rollback"
  /\ Release(r)
  /\ Goto(r, "decide")
  /\ UNCHANGED <<field, attempt, claimsLeft, errors, data, seen,
                 ctxDone, reply, db, orphans>>

\* The retry loop of executeOperation: reset the result and run again ...
Retry(r) ==
  /\ pc[r] = "decide"
  /\ ShouldRetry(r)
  /\ attempt' = [attempt EXCEPT ![r] = @ + 1]
  /\ field' = [field EXCEPT ![r] = 1]
  /\ data' = [data EXCEPT ![r] = {}]
  /\ errors' = [errors EXCEPT ![r] = {}]
  /\ seen' = [seen EXCEPT ![r] = {}]
  /\ Goto(r, "begin")
  /\ UNCHANGED <<claimsLeft, held, ctxDone, reply, session, db, orphans>>

\* ... or return the result of this attempt.
Finish(r) ==
  /\ pc[r] = "decide"
  /\ ~ ShouldRetry(r)
  /\ Goto(r, "answered")
  /\ UNCHANGED <<field, attempt, claimsLeft, errors, data, seen, held,
                 ctxDone, reply, session, db, orphans>>
------------------------------------------------------------------------------
\* run on the pool itself: QueryRow takes an idle connection and sends one
\* statement in autocommit.
AcquireConn(r) ==
  /\ pc[r] = "autocommit"
  /\ field[r] <= NumFields[r]
  /\ ~ ctxDone[r]
  /\ \E c \in Conns : Idle(c) /\ held' = [held EXCEPT ![r] = c]
  /\ Goto(r, "statement")
  /\ UNCHANGED <<field, attempt, claimsLeft, errors, data, seen,
                 ctxDone, reply, session, db, orphans>>

\* Compile error, or no connection could be had: nothing was sent.
FieldNotSent(r) ==
  /\ pc[r] = "autocommit"
  /\ field[r] <= NumFields[r]
  /\ AddError(r, "not_sent")
  /\ AfterFieldError(r, "answered", "autocommit")
  /\ UNCHANGED <<attempt, claimsLeft, data, seen, held,
                 ctxDone, reply, session, db, orphans>>

\* The statement completes and is durable.  The field may still fail: no row
\* matched (without effect) or a result that cannot be minted (with effect).
StatementDone(r) ==
  /\ pc[r] = "statement"
  /\ \/ /\ MakeDurable(r, IF IsMutation(r) THEN <<field[r]>> ELSE << >>)
        /\ Deliver(r)
        /\ Advance(r)
        /\ Goto(r, "autocommit")
        /\ UNCHANGED errors
     \/ /\ \E effect \in BOOLEAN :
             MakeDurable(r, IF effect /\ IsMutation(r) THEN <<field[r]>> ELSE << >>)
        /\ AddError(r, "statement")
        /\ AfterFieldError(r, "answered", "autocommit")
        /\ UNCHANGED data
  /\ Observe(r, db)
  /\ Release(r)
  /\ UNCHANGED <<attempt, claimsLeft, ctxDone, reply, orphans>>

\* MUTANT of StatementError: the error is not appended to the result.
StatementErrorSilently(r) ==
  /\ pc[r] = "statement"
  /\ Release(r)
  /\ AfterFieldError(r, "answered", "autocommit")
  /\ UNCHANGED <<attempt, claimsLeft, errors, data, seen, ctxDone, reply, db, orphans>>

\* The server refuses the statement.
StatementError(r) ==
  /\ pc[r] = "statement"
  /\ \E kind \in {"statement", "serialization"} : AddError(r, kind)
  /\ Release(r)
  /\ AfterFieldError(r, "answered", "autocommit")
  /\ UNCHANGED <<attempt, claimsLeft, data, seen, ctxDone, reply, db, orphans>>

\* The connection or the context is lost while the statement is in flight.
StatementLost(r) ==
  /\ pc[r] = "statement"
  /\ Abandon(r, IF IsMutation(r) THEN <<field[r]>> ELSE << >>)
  /\ AddError(r, "lost")
  /\ Release(r)
  /\ AfterFieldError(r, "answered", "autocommit")
  /\ UNCHANGED <<attempt, claimsLeft, data, seen, ctxDone, reply, db>>

FieldsDone(r) ==
  /\ pc[r] = "autocommit"
  /\ field[r] > NumFields[r]
  /\ Goto(r, "answered")
  /\ UNCHANGED <<field, attempt, claimsLeft, errors, data, seen, held,
                 ctxDone, reply, session, db, orphans>>
------------------------------------------------------------------------------
\* The handler returns; its response reaches a client that is still waiting.
Answer(r) ==
  /\ pc[r] = "answered"
  /\ reply' = [reply EXCEPT ![r] =
                 IF @ # "none" THEN @ ELSE IF errors[r] = {} THEN "ok" ELSE "errors"]
  /\ Goto(r, "done")
  /\ UNCHANGED <<field, attempt, claimsLeft, errors, data, seen, held,
                 ctxDone, session, db, orphans>>

\* http.TimeoutHandler answers 503, or the client disconnects; either way the
\* context ends and the handler goroutine runs on.
Cancel(r) ==
  /\ pc[r] # "done"
  /\ ~ ctxDone[r]
  /\ ctxDone' = [ctxDone EXCEPT ![r] = TRUE]
  /\ \E outcome \in {"timeout", "gone"} : reply' = [reply EXCEPT ![r] = outcome]
  /\ UNCHANGED <<reqVars, session, db, orphans>>

\* The server completes or discards what a lost connection left behind.
OrphanEnds(o) ==
  /\ orphans' = orphans \ {o}
  /\ MakeDurable(o.req, o.effects) \/ UNCHANGED db
  /\ UNCHANGED <<reqVars, ctxDone, reply, session>>

Terminating ==
  /\ \A r \in Requests : pc[r] = "done"
  /\ orphans = {}
  /\ UNCHANGED vars

\* The steps of the handler of r that need no idle connection.
Work(r) ==
  \/ Refuse(r) \/ StartOperation(r)
  \/ SetLocalRole(r) \/ SetClaim(r) \/ IdentityApplied(r) \/ ApplyRLSFails(r)
  \/ TxField(r) \/ TxFieldError(r) \/ TxStatementError(r)
  \/ SendCommit(r) \/ CommitNotSent(r)
  \/ Commit(r) \/ CommitRefused(r) \/ CommitLost(r)
  \/ Rollback(r) \/ Retry(r) \/ Finish(r)
  \/ StatementDone(r) \/ StatementError(r) \/ StatementLost(r)
  \/ FieldsDone(r) \/ Answer(r)

\* The waits for an idle connection: granted, or given up.
Wait(r) == BeginTx(r) \/ AcquireConn(r)
GiveUp(r) == BeginTxFails(r) \/ FieldNotSent(r)

Next ==
  \/ \E r \in Requests : Work(r) \/ Wait(r) \/ GiveUp(r) \/ Cancel(r)
  \/ \E o \in orphans : OrphanEnds(o)
  \/ Terminating

\* Every statement is eventually answered by the server, every lost one is
\* settled by it, and a waiter of the pool, served first come first served,
\* is not passed over forever.  Giving up is fair once the context is done.
Fairness ==
  /\ \A r \in Requests :
       WF_vars(Work(r)) /\ SF_vars(Wait(r)) /\ WF_vars(ctxDone[r] /\ GiveUp(r))
  /\ WF_vars(\E o \in orphans : OrphanEnds(o))

Spec == Init /\ [][Next]_vars
FairSpec == Spec /\ Fairness
------------------------------------------------------------------------------
Labels == {"received", "begin", "set_role", "set_claims", "fields", "committing",
           "rollback", "decide", "autocommit", "statement", "answered", "done"}
InTxLabels == {"set_role", "set_claims", "fields", "committing", "rollback"}
HoldingLabels == InTxLabels \cup {"statement"}

DbStates == [Requests -> Seq(Nat)]

\* Every variable holds the kind of value its comment names: progress counters
\* stay within the fields and the retry bound of the request.
TypeOK ==
  /\ pc \in [Requests -> Labels]
  /\ field \in [Requests -> Nat \ {0}]
  /\ attempt \in [Requests -> 0..TxRetries]
  /\ claimsLeft \in [Requests -> SUBSET Keys]
  /\ errors \in [Requests -> SUBSET ErrorKinds]
  /\ data \in [Requests -> SUBSET Nat]
  /\ seen \in [Requests -> SUBSET DbStates]
  /\ held \in [Requests -> Conns \cup {NoConn}]
  /\ ctxDone \in [Requests -> BOOLEAN]
  /\ reply \in [Requests -> {"none", "ok", "errors", "timeout", "gone"}]
  /\ txState \in [Conns -> {"idle", "open", "aborted"}]
  /\ sesRole \in [Conns -> Roles \cup {NoRole}]
  /\ sesClaims \in [Conns -> [Keys -> Values \cup {Unset}]]
  /\ snapshot \in [Conns -> DbStates \cup {NoSnapshot}]
  /\ pending \in [Conns -> Seq(Nat)]
  /\ db \in DbStates
  /\ orphans \subseteq [req : Requests, effects : Seq(Nat)]
------------------------------------------------------------------------------
\* A statement of a request runs under exactly the role and claims of that
\* request, whichever connection of the pool it got and whoever used it before;
\* autocommit is only used where no identity is called for (applyRLS, needTx).
StatementIdentity ==
  \A r \in Requests : pc[r] \in {"fields", "committing", "statement"} =>
    sesRole[held[r]] = RoleOf(r) /\ sesClaims[held[r]] = ClaimsOf(r)

\* A request holds one connection exactly while a transaction or a statement of
\* its own is under way, never shares it, and every connection in the pool is
\* outside any transaction with no identity left on it (runTx, Rollback).
PoolClean ==
  /\ \A r \in Requests : held[r] \in Conns <=> pc[r] \in HoldingLabels
  /\ \A r, s \in Requests : r # s /\ held[r] = held[s] => held[r] = NoConn
  /\ \A c \in Conns : Idle(c) => FreshSession(c)

\* A mutation run in a transaction is durable as a whole or not at all,
\* whatever fails, is retried or is cancelled (runTx).
TransactionAtomic ==
  \A r \in Mutations : NeedTx(r) => db[r] \in {<< >>, AllFields(r)}

\* The effects of a mutation are those of its first root fields, each once and
\* in order: an error stops it, and no retry repeats what was committed.
EffectsInOrderOnce ==
  \A r \in Mutations :
    \E n \in 0..NumFields[r] : db[r] = [i \in 1..n |-> i]

\* What the response of a mutation says is so: without errors all of it is
\* durable; with errors, unless a connection was lost in flight, a transaction
\* left nothing; outside a transaction every delivered field is durable.
ReplyTruthful ==
  \A r \in Mutations :
    /\ reply[r] = "ok" => db[r] = AllFields(r)
    /\ reply[r] = "errors" /\ NeedTx(r) /\ "lost" \notin errors[r] => db[r] = << >>
    /\ ~ NeedTx(r) => data[r] \subseteq 1..Len(db[r])

\* The root fields of one transactional query all read the same database state
\* (Options.TxPerRequest).  It depends on the isolation level.
SingleSnapshot ==
  \A r \in Requests : NeedTx(r) => Cardinality(seen[r]) <= 1

\* Nothing of a request becomes durable after its handler has returned, except
\* what was in flight on a connection the handler saw die.
NoLateEffects ==
  [][\A r \in Requests :
       pc[r] = "done" /\ "lost" \notin errors[r] => db'[r] = db[r]]_vars

\* Every request is answered and gives its connection back, although requests
\* outnumber connections, attempts are repeated and contexts end at any time.
EveryRequestAnswered ==
  \A r \in Requests : <>(pc[r] = "done" /\ held[r] = NoConn)
------------------------------------------------------------------------------
\* How far the mutation of a transactional request r has got.
OutcomeOf(r) ==
  IF \E o \in orphans : o.req = r THEN "in_doubt"
  ELSE IF db[r] # << >> THEN IF "lost" \in errors[r] THEN "applied_late" ELSE "applied"
  ELSE IF "lost" \in errors[r] \/ pc[r] = "done" THEN "dropped" ELSE "pending"

\* The mutations that promise is about; one without root fields has nothing to apply.
TxMutationsOnly == {r \in Mutations : NeedTx(r) /\ NumFields[r] # 0}

Outcome == INSTANCE AtomicOutcome WITH
  Requests <- TxMutationsOnly,
  outcome <- [r \in TxMutationsOnly |-> OutcomeOf(r)],
  reply <- [r \in TxMutationsOnly |-> reply[r]]

\* The retry loop, the pool, the row of statements and every failure in them
\* amount to one atomic step per mutation, truthfully reported (executeOperation).
ImplementsAtomicOutcome == Outcome!Spec
=============================================================================
