------------------------ MODULE RequestExecution_proof ------------------------
(***************************************************************************)
(* Safety of RequestExecution for every set of requests and connections.   *)
(***************************************************************************)
EXTENDS RequestExecution, FiniteSetTheorems, TLAPS

\* A request holds a connection exactly in the states between taking it from
\* the pool and giving it back.
Holding ==
  \A r \in Requests : held[r] \in Conns <=> pc[r] \in HoldingLabels

TypeInv == TypeOK /\ Holding

LEMMA ViewType ==
  ASSUME TypeOK, NEW c \in Conns
  PROVE  View(c) \in DbStates
  BY DEF TypeOK, View

LEMMA NoClaimsType == NoClaims \in [Keys -> Values \cup {Unset}]
  BY DEF NoClaims

LEMMA MakeDurableType ==
  ASSUME db \in DbStates, NEW r \in Requests, NEW effects \in Seq(Nat),
         MakeDurable(r, effects)
  PROVE  db' \in DbStates
<1>1. \A e \in Seq(Nat) : e \o effects \in Seq(Nat)
  OBVIOUS
<1> QED
  BY <1>1 DEF MakeDurable, DbStates

LEMMA AfterFieldErrorType ==
  ASSUME pc \in [Requests -> Labels], field \in [Requests -> Nat \ {0}],
         NEW r \in Requests, NEW p \in Labels, NEW q \in Labels,
         AfterFieldError(r, p, q)
  PROVE  /\ pc' \in [Requests -> Labels]
         /\ pc'[r] \in {p, q}
         /\ \A s \in Requests \ {r} : pc'[s] = pc[s]
         /\ field' \in [Requests -> Nat \ {0}]
<1>1. CASE IsMutation(r)
  BY <1>1 DEF AfterFieldError, Goto
<1>2. CASE ~ IsMutation(r)
  BY <1>2 DEF AfterFieldError, Goto, Advance
<1> QED
  BY <1>1, <1>2

LEMMA AddErrorType ==
  ASSUME errors \in [Requests -> SUBSET ErrorKinds],
         NEW r \in Requests, NEW kind \in ErrorKinds, AddError(r, kind)
  PROVE  errors' \in [Requests -> SUBSET ErrorKinds]
  BY DEF AddError

LEMMA AbandonType ==
  ASSUME orphans \subseteq [req : Requests, effects : Seq(Nat)],
         NEW r \in Requests, NEW effects \in Seq(Nat), Abandon(r, effects)
  PROVE  orphans' \subseteq [req : Requests, effects : Seq(Nat)]
  BY DEF Abandon

LEMMA InitTypeInv == Init => TypeInv
<1> SUFFICES ASSUME Init PROVE TypeInv
  OBVIOUS
<1>1. TypeOK
  BY NoClaimsType, RequestAssumption, OptionsAssumption
  DEF Init, TypeOK, Labels, ErrorKinds, DbStates
<1>2. Holding
  BY RequestAssumption DEF Init, Holding, HoldingLabels, InTxLabels
<1> QED
  BY <1>1, <1>2 DEF TypeInv

LEMMA StepTypeInv == TypeInv /\ [Next]_vars => TypeInv'
<1> SUFFICES ASSUME TypeInv, [Next]_vars PROVE TypeInv'
  OBVIOUS
<1> USE RequestAssumption, IdentityAssumption, NoClaimsType, AddErrorType
    DEF TypeInv, TypeOK, Holding, Labels, HoldingLabels, InTxLabels, ErrorKinds,
        Goto, Advance, Deliver, Observe, Release, EndTx, session
<1>1. ASSUME NEW r \in Requests, Refuse(r) PROVE TypeInv'
  BY <1>1 DEF Refuse
<1>2. ASSUME NEW r \in Requests, StartOperation(r) PROVE TypeInv'
  BY <1>2 DEF StartOperation
<1>3. ASSUME NEW r \in Requests, BeginTx(r) PROVE TypeInv'
  BY <1>3 DEF BeginTx, ValidClaims
<1>4. ASSUME NEW r \in Requests, SetLocalRole(r) PROVE TypeInv'
  BY <1>4 DEF SetLocalRole
<1>5. ASSUME NEW r \in Requests, SetClaim(r) PROVE TypeInv'
  BY <1>5, ViewType DEF SetClaim
<1>6. ASSUME NEW r \in Requests, TxField(r) PROVE TypeInv'
  <2>1. held[r] \in Conns /\ View(held[r]) \in DbStates
    BY <1>6, ViewType DEF TxField
  <2>2. /\ snapshot' \in [Conns -> DbStates \cup {NoSnapshot}]
        /\ seen' \in [Requests -> SUBSET DbStates]
    BY <1>6, <2>1 DEF TxField
  <2>3. pending' \in [Conns -> Seq(Nat)]
    BY <1>6, <2>1 DEF TxField
  <2>4. /\ field' \in [Requests -> Nat \ {0}]
        /\ data' \in [Requests -> SUBSET Nat]
    BY <1>6 DEF TxField
  <2> QED
    BY <1>6, <2>2, <2>3, <2>4 DEF TxField
<1>7. ASSUME NEW r \in Requests, TxFieldError(r) PROVE TypeInv'
  <2>1. pending' \in [Conns -> Seq(Nat)]
    <3>1. CASE UNCHANGED pending
      BY <3>1
    <3>2. CASE pending' = [pending EXCEPT ![held[r]] = Append(@, field[r])]
      BY <1>7, <3>2 DEF TxFieldError
    <3> QED
      BY <1>7, <3>1, <3>2 DEF TxFieldError
  <2>2. /\ pc' \in [Requests -> Labels]
        /\ pc'[r] \in {"rollback", "fields"}
        /\ \A s \in Requests \ {r} : pc'[s] = pc[s]
        /\ field' \in [Requests -> Nat \ {0}]
        /\ errors' \in [Requests -> SUBSET ErrorKinds]
    BY <1>7, AfterFieldErrorType DEF TxFieldError
  <2> QED
    BY <1>7, <2>1, <2>2 DEF TxFieldError
<1>8. ASSUME NEW r \in Requests, TxStatementError(r) PROVE TypeInv'
  <2>1. /\ pc' \in [Requests -> Labels]
        /\ pc'[r] \in {"rollback", "fields"}
        /\ \A s \in Requests \ {r} : pc'[s] = pc[s]
        /\ field' \in [Requests -> Nat \ {0}]
    BY <1>8, AfterFieldErrorType DEF TxStatementError
  <2>2. errors' \in [Requests -> SUBSET ErrorKinds]
    BY <1>8 DEF TxStatementError
  <2> QED
    BY <1>8, <2>1, <2>2 DEF TxStatementError
<1>9. ASSUME NEW r \in Requests, Commit(r) PROVE TypeInv'
  BY <1>9 DEF Commit, MakeDurable, DbStates
<1>10. ASSUME NEW r \in Requests, CommitLost(r) PROVE TypeInv'
  BY <1>10 DEF CommitLost, Abandon
<1>11. ASSUME NEW r \in Requests, Retry(r) PROVE TypeInv'
  BY <1>11, OptionsAssumption DEF Retry, ShouldRetry
<1>12. ASSUME NEW r \in Requests, StatementDone(r) PROVE TypeInv'
  <2>1. db' \in DbStates
    <3>1. <<field[r]>> \in Seq(Nat) /\ << >> \in Seq(Nat)
      OBVIOUS
    <3> QED
      BY <1>12, <3>1, MakeDurableType DEF StatementDone
  <2>2. /\ pc' \in [Requests -> Labels]
        /\ pc'[r] \in {"answered", "autocommit"}
        /\ \A s \in Requests \ {r} : pc'[s] = pc[s]
        /\ field' \in [Requests -> Nat \ {0}]
        /\ errors' \in [Requests -> SUBSET ErrorKinds]
        /\ data' \in [Requests -> SUBSET Nat]
    <3>1. CASE AfterFieldError(r, "answered", "autocommit") /\ AddError(r, "statement")
               /\ UNCHANGED data
      BY <3>1, AfterFieldErrorType
    <3>2. CASE Advance(r) /\ Goto(r, "autocommit") /\ Deliver(r) /\ UNCHANGED errors
      BY <1>12, <3>2
    <3> QED
      BY <1>12, <3>1, <3>2 DEF StatementDone
  <2>3. seen' \in [Requests -> SUBSET DbStates]
    BY <1>12 DEF StatementDone
  <2> QED
    BY <1>12, <2>1, <2>2, <2>3 DEF StatementDone
<1>13. ASSUME NEW r \in Requests, IdentityApplied(r) PROVE TypeInv'
  BY <1>13 DEF IdentityApplied
<1>14. ASSUME NEW r \in Requests, ApplyRLSFails(r) PROVE TypeInv'
  BY <1>14 DEF ApplyRLSFails
<1>15. ASSUME NEW r \in Requests, SendCommit(r) PROVE TypeInv'
  BY <1>15 DEF SendCommit
<1>16. ASSUME NEW r \in Requests, CommitNotSent(r) PROVE TypeInv'
  BY <1>16 DEF CommitNotSent
<1>17. ASSUME NEW r \in Requests, CommitRefused(r) PROVE TypeInv'
  BY <1>17 DEF CommitRefused
<1>18. ASSUME NEW r \in Requests, Rollback(r) PROVE TypeInv'
  BY <1>18 DEF Rollback
<1>19. ASSUME NEW r \in Requests, Finish(r) PROVE TypeInv'
  BY <1>19 DEF Finish
<1>20. ASSUME NEW r \in Requests, StatementError(r) PROVE TypeInv'
  BY <1>20, AfterFieldErrorType DEF StatementError
<1>21. ASSUME NEW r \in Requests, StatementLost(r) PROVE TypeInv'
  <2>1. /\ pc' \in [Requests -> Labels]
        /\ pc'[r] \in {"answered", "autocommit"}
        /\ \A s \in Requests \ {r} : pc'[s] = pc[s]
        /\ field' \in [Requests -> Nat \ {0}]
        /\ errors' \in [Requests -> SUBSET ErrorKinds]
    BY <1>21, AfterFieldErrorType DEF StatementLost
  <2>2. orphans' \subseteq [req : Requests, effects : Seq(Nat)]
    <3>1. <<field[r]>> \in Seq(Nat) /\ << >> \in Seq(Nat)
      OBVIOUS
    <3> QED
      BY <1>21, <3>1, AbandonType DEF StatementLost
  <2> QED
    BY <1>21, <2>1, <2>2 DEF StatementLost
<1>22. ASSUME NEW r \in Requests, FieldsDone(r) PROVE TypeInv'
  BY <1>22 DEF FieldsDone
<1>23. ASSUME NEW r \in Requests, Answer(r) PROVE TypeInv'
  BY <1>23 DEF Answer
<1>24. ASSUME NEW r \in Requests, BeginTxFails(r) PROVE TypeInv'
  BY <1>24 DEF BeginTxFails
<1>25. ASSUME NEW r \in Requests, AcquireConn(r) PROVE TypeInv'
  BY <1>25 DEF AcquireConn
<1>26. ASSUME NEW r \in Requests, FieldNotSent(r) PROVE TypeInv'
  BY <1>26, AfterFieldErrorType DEF FieldNotSent
<1>27. ASSUME NEW r \in Requests, Cancel(r) PROVE TypeInv'
  BY <1>27 DEF Cancel, reqVars
<1>28. ASSUME NEW o \in orphans, OrphanEnds(o) PROVE TypeInv'
  <2>1. o.req \in Requests /\ o.effects \in Seq(Nat)
    OBVIOUS
  <2>2. db' \in DbStates
    BY <1>28, <2>1, MakeDurableType DEF OrphanEnds
  <2> QED
    BY <1>28, <2>2 DEF OrphanEnds, reqVars
<1>29. CASE UNCHANGED vars
  BY <1>29 DEF vars, reqVars
<1> QED
  BY <1>1, <1>2, <1>3, <1>4, <1>5, <1>6, <1>7, <1>8, <1>9, <1>10, <1>11, <1>12,
     <1>13, <1>14, <1>15, <1>16, <1>17, <1>18, <1>19, <1>20, <1>21, <1>22, <1>23,
     <1>24, <1>25, <1>26, <1>27, <1>28, <1>29
  DEF Next, Work, Wait, GiveUp, Terminating

\* Every reachable state is well typed and holds connections as it should,
\* whatever the requests, the pool and the options are (Execute).
THEOREM TypeCorrect == Spec => []TypeOK
<1>1. Spec => []TypeInv
  BY InitTypeInv, StepTypeInv, PTL DEF Spec
<1>2. TypeInv => TypeOK
  BY DEF TypeInv
<1> QED
  BY <1>1, <1>2, PTL
------------------------------------------------------------------------------
\* No two requests hold one connection.
Exclusive ==
  \A r, s \in Requests : r # s /\ held[r] = held[s] => held[r] = NoConn

\* The connections in the pool carry nothing over.
IdleFresh == \A c \in Conns : Idle(c) => FreshSession(c)

\* How much of its identity a request has assumed, by the state it is in: this is
\* what makes StatementIdentity inductive.  Autocommit is only for requests
\* without an identity, and while applyRLS runs exactly the claims it has not come
\* to yet are unset.
Identities ==
  \A r \in Requests :
    /\ pc[r] \in {"autocommit", "statement"} => ~ NeedTx(r)
    /\ pc[r] \in {"set_role", "set_claims"} =>
         \A k \in Keys :
           sesClaims[held[r]][k] = IF k \in claimsLeft[r] THEN Unset ELSE ClaimsOf(r)[k]
    /\ pc[r] \in {"set_role", "set_claims"} =>
         claimsLeft[r] \subseteq IF RLS THEN ValidClaims(r) ELSE {}
    /\ pc[r] = "set_role" => RLS
    /\ pc[r] \in {"set_claims", "fields", "committing", "statement"} =>
         sesRole[held[r]] = RoleOf(r)
    /\ pc[r] \in {"fields", "committing", "statement"} =>
         sesClaims[held[r]] = ClaimsOf(r)

IdentityInv == TypeInv /\ Exclusive /\ IdleFresh /\ Identities

\* What the proof uses of TypeInv.
SessionTypes ==
  /\ pc \in [Requests -> Labels]
  /\ held \in [Requests -> Conns \cup {NoConn}]
  /\ claimsLeft \in [Requests -> SUBSET Keys]
  /\ txState \in [Conns -> {"idle", "open", "aborted"}]
  /\ sesRole \in [Conns -> Roles \cup {NoRole}]
  /\ sesClaims \in [Conns -> [Keys -> Values \cup {Unset}]]
  /\ snapshot \in [Conns -> DbStates \cup {NoSnapshot}]
  /\ pending \in [Conns -> Seq(Nat)]
  /\ Holding

LEMMA InitIdentityInv == Init => IdentityInv
<1> SUFFICES ASSUME Init PROVE IdentityInv
  OBVIOUS
<1>1. Exclusive /\ IdleFresh
  BY DEF Init, Exclusive, IdleFresh, FreshSession
<1>2. Identities
  BY DEF Init, Identities
<1> QED
  BY <1>1, <1>2, InitTypeInv DEF IdentityInv

LEMMA StepIdentityInv == IdentityInv /\ [Next]_vars => IdentityInv'
<1> SUFFICES ASSUME IdentityInv, [Next]_vars PROVE IdentityInv'
  OBVIOUS
<1>t. TypeInv' /\ SessionTypes
  BY StepTypeInv DEF IdentityInv, TypeInv, TypeOK, SessionTypes
<1> DEFINE Goal == Exclusive' /\ IdleFresh' /\ Identities'
<1> USE <1>t, RequestAssumption, IdentityAssumption
    DEF IdentityInv, SessionTypes, Exclusive, IdleFresh, Identities, Holding,
        Labels, HoldingLabels, InTxLabels, Goto, Release, EndTx, Idle, FreshSession, session
<1>1. ASSUME NEW r \in Requests, Refuse(r) PROVE Goal
  BY <1>1 DEF Refuse
<1>2. ASSUME NEW r \in Requests, StartOperation(r) PROVE Goal
  BY <1>2 DEF StartOperation
<1>3. ASSUME NEW r \in Requests, IdentityApplied(r) PROVE Goal
  <2>1. held[r] \in Conns /\ \A k \in Keys : sesClaims[held[r]][k] = ClaimsOf(r)[k]
    BY <1>3 DEF IdentityApplied
  <2>2. sesClaims[held[r]] = ClaimsOf(r)
    BY <2>1 DEF ClaimsOf
  <2> QED
    BY <1>3, <2>2 DEF IdentityApplied
<1>4. ASSUME NEW r \in Requests, ApplyRLSFails(r) PROVE Goal
  BY <1>4 DEF ApplyRLSFails
<1>5. ASSUME NEW r \in Requests, SendCommit(r) PROVE Goal
  BY <1>5 DEF SendCommit
<1>6. ASSUME NEW r \in Requests, Retry(r) PROVE Goal
  BY <1>6 DEF Retry
<1>7. ASSUME NEW r \in Requests, Finish(r) PROVE Goal
  BY <1>7 DEF Finish
<1>8. ASSUME NEW r \in Requests, FieldsDone(r) PROVE Goal
  BY <1>8 DEF FieldsDone
<1>9. ASSUME NEW r \in Requests, Answer(r) PROVE Goal
  BY <1>9 DEF Answer
<1>10. ASSUME NEW r \in Requests, BeginTxFails(r) PROVE Goal
  BY <1>10 DEF BeginTxFails
<1>11. ASSUME NEW r \in Requests, FieldNotSent(r) PROVE Goal
  BY <1>11 DEF FieldNotSent, AfterFieldError, Advance
<1>12. ASSUME NEW r \in Requests, Cancel(r) PROVE Goal
  BY <1>12 DEF Cancel, reqVars
<1>13. ASSUME NEW r \in Requests, SetLocalRole(r) PROVE Goal
  BY <1>13 DEF SetLocalRole, RoleOf
<1>14. ASSUME NEW r \in Requests, SetClaim(r) PROVE Goal
  <2>1. PICK k \in claimsLeft[r] :
          /\ sesClaims' = [sesClaims EXCEPT ![held[r]][k] = Claims[r][k]]
          /\ claimsLeft' = [claimsLeft EXCEPT ![r] = @ \ {k}]
    BY <1>14 DEF SetClaim
  <2>2. Claims[r][k] = ClaimsOf(r)[k]
    BY <1>14 DEF SetClaim, ClaimsOf, ValidClaims
  <2> QED
    BY <1>14, <2>1, <2>2 DEF SetClaim
<1>15. ASSUME NEW r \in Requests, TxField(r) PROVE Goal
  BY <1>15 DEF TxField
<1>16. ASSUME NEW r \in Requests, TxFieldError(r) PROVE Goal
  BY <1>16 DEF TxFieldError, AfterFieldError, Advance
<1>17. ASSUME NEW r \in Requests, TxStatementError(r) PROVE Goal
  BY <1>17 DEF TxStatementError, AfterFieldError, Advance
<1>18. ASSUME NEW r \in Requests, CommitNotSent(r) PROVE Goal
  BY <1>18 DEF CommitNotSent
<1>19. ASSUME NEW r \in Requests, Commit(r) PROVE Goal
  BY <1>19 DEF Commit
<1>20. ASSUME NEW r \in Requests, CommitRefused(r) PROVE Goal
  BY <1>20 DEF CommitRefused
<1>21. ASSUME NEW r \in Requests, CommitLost(r) PROVE Goal
  BY <1>21 DEF CommitLost
<1>22. ASSUME NEW r \in Requests, Rollback(r) PROVE Goal
  BY <1>22 DEF Rollback
<1>23. ASSUME NEW r \in Requests, StatementDone(r) PROVE Goal
  BY <1>23 DEF StatementDone, AfterFieldError, Advance
<1>24. ASSUME NEW r \in Requests, StatementError(r) PROVE Goal
  BY <1>24 DEF StatementError, AfterFieldError, Advance
<1>25. ASSUME NEW r \in Requests, StatementLost(r) PROVE Goal
  BY <1>25 DEF StatementLost, AfterFieldError, Advance
<1>26. ASSUME NEW r \in Requests, AcquireConn(r) PROVE Goal
  <2>1. PICK c \in Conns : Idle(c) /\ held' = [held EXCEPT ![r] = c]
    BY <1>26 DEF AcquireConn
  <2>2. RoleOf(r) = NoRole /\ ClaimsOf(r) = NoClaims
    BY <1>26 DEF AcquireConn, NeedTx, RoleOf, ClaimsOf, NoClaims, HasClaims
  <2>3. sesRole[c] = RoleOf(r) /\ sesClaims[c] = ClaimsOf(r)
    BY <2>1, <2>2
  <2> QED
    <3>1. Exclusive' /\ IdleFresh'
      <4>1. UNCHANGED session
        BY <1>26 DEF AcquireConn
      <4>2. held[r] \notin Conns
        BY <1>26 DEF AcquireConn
      <4>3. \A d \in Conns : Idle(d)' => Idle(d)
        BY <2>1, <4>2
      <4>4. IdleFresh'
        BY <4>1, <4>3
      <4> QED
        BY <2>1, <4>4
    <3>2. Identities'
      BY <1>26, <2>1, <2>3 DEF AcquireConn
    <3> QED
      BY <3>1, <3>2
<1>27. ASSUME NEW r \in Requests, BeginTx(r) PROVE Goal
  <2>1. PICK c \in Conns : /\ Idle(c)
                          /\ held' = [held EXCEPT ![r] = c]
                          /\ txState' = [txState EXCEPT ![c] = "open"]
    BY <1>27 DEF BeginTx
  <2>2. sesRole[c] = NoRole /\ sesClaims[c] = NoClaims
    BY <2>1
  <2>3. \A k \in Keys : NoClaims[k] = IF k \in claimsLeft'[r] THEN Unset ELSE ClaimsOf(r)[k]
    BY <1>27 DEF BeginTx, NoClaims, ClaimsOf, ValidClaims
  <2>4. pc'[r] = "set_role" => RLS
    BY <1>27 DEF BeginTx
  <2>5. pc'[r] = "set_claims" => sesRole[c] = RoleOf(r)
    BY <1>27, <2>2 DEF BeginTx, RoleOf
  <2> QED
    BY <1>27, <2>1, <2>2, <2>3, <2>4, <2>5 DEF BeginTx
<1>28. ASSUME NEW o \in orphans, OrphanEnds(o) PROVE Goal
  BY <1>28 DEF OrphanEnds, reqVars
<1>29. CASE UNCHANGED vars
  BY <1>29 DEF vars, reqVars
<1> QED
  BY <1>1, <1>2, <1>3, <1>4, <1>5, <1>6, <1>7, <1>8, <1>9, <1>10, <1>11, <1>12, <1>13, <1>14, <1>15, <1>16, <1>17, <1>18, <1>19, <1>20, <1>21, <1>22, <1>23, <1>24, <1>25, <1>26, <1>27, <1>28, <1>29
  DEF Next, Work, Wait, GiveUp, Terminating

\* Statements run under the identity of their own request, for any number of
\* requests and connections (applyRLS and needTx in executeOperation).
THEOREM IdentityNeverLeaks == Spec => []StatementIdentity
<1>1. Spec => []IdentityInv
  BY InitIdentityInv, StepIdentityInv, PTL DEF Spec
<1>2. IdentityInv => StatementIdentity
  BY DEF IdentityInv, Identities, StatementIdentity
<1> QED
  BY <1>1, <1>2, PTL

\* Connections are owned by one request at a time and return to the pool clean,
\* on every path out of a transaction or statement (runTx).
THEOREM PoolStaysClean == Spec => []PoolClean
<1>1. Spec => []IdentityInv
  BY InitIdentityInv, StepIdentityInv, PTL DEF Spec
<1>2. IdentityInv => PoolClean
  BY DEF IdentityInv, TypeInv, Holding, Exclusive, IdleFresh, PoolClean
<1> QED
  BY <1>1, <1>2, PTL
------------------------------------------------------------------------------
\* The effects of the first n root fields of a mutation.
FirstFields(n) == [i \in 1..n |-> i]

\* What the server may still finish for request r.
LostWork(r) == {o \in orphans : o.req = r}

BeforeTx == {"received", "begin", "set_role", "set_claims"}
Running == BeforeTx \cup {"fields", "committing", "autocommit", "statement"}
Decided == {"decide", "answered", "done"}

\* A query leaves nothing behind.
QuerySound(r) ==
  /\ db[r] = << >>
  /\ LostWork(r) = {}
  /\ pc[r] \in InTxLabels => pending[held[r]] = << >>

\* A mutation runs until its first error, so it has none while it runs.
ErrorStops(r) ==
  /\ pc[r] \in Running => errors[r] = {}
  /\ pc[r] = "rollback" => errors[r] # {}
  /\ \A k, l \in errors[r] : k = l
  /\ field[r] \in 1..(NumFields[r] + 1)
  /\ pc[r] \in BeforeTx => field[r] = 1 /\ data[r] = {}
  /\ pc[r] = "statement" => field[r] <= NumFields[r]
  /\ pc[r] = "committing" => field[r] = NumFields[r] + 1
  /\ LostWork(r) # {} => "lost" \in errors[r]

\* Nothing of a transaction is durable before its outcome is decided; from then
\* on all of it is if no error is reported, and with an error none of it is, but
\* for a COMMIT that was lost, whose effects the server may still apply.
TxSound(r) ==
  /\ pc[r] \notin {"autocommit", "statement"}
  /\ pc[r] \in {"set_role", "set_claims", "fields", "committing"} =>
       /\ txState[held[r]] = "open"
       /\ pending[held[r]] = FirstFields(field[r] - 1)
  /\ pc[r] \notin Decided => db[r] = << >> /\ LostWork(r) = {}
  /\ pc[r] \in Decided /\ errors[r] = {} => db[r] = AllFields(r)
  /\ db[r] = AllFields(r) \/ db[r] = << >>
  /\ db[r] # << >> => errors[r] \subseteq {"lost"}
  /\ \A o \in LostWork(r) : o.effects = AllFields(r) /\ db[r] = << >>

\* Statements in autocommit are durable one by one; only the last of them may
\* have failed after its effect or be in doubt.
AutocommitSound(r) ==
  /\ pc[r] \in {"received", "autocommit", "statement", "answered", "done"}
  /\ pc[r] \notin {"answered", "done"} => db[r] = FirstFields(field[r] - 1)
  /\ \/ db[r] = FirstFields(field[r] - 1)
     \/ db[r] = FirstFields(field[r]) /\ field[r] <= NumFields[r]
  /\ data[r] \subseteq 1..(field[r] - 1)
  /\ pc[r] \in {"answered", "done"} /\ errors[r] = {} => db[r] = AllFields(r)
  /\ \A o \in LostWork(r) :
       /\ o.effects = <<field[r]>> /\ field[r] <= NumFields[r]
       /\ db[r] = FirstFields(field[r] - 1)

MutationSound(r) ==
  /\ ErrorStops(r)
  /\ IF NeedTx(r) THEN TxSound(r) ELSE AutocommitSound(r)

\* The response is written once, from the errors the handler ended with.
ReplySound(r) ==
  /\ reply[r] = "ok" => pc[r] = "done" /\ errors[r] = {}
  /\ reply[r] = "errors" => pc[r] = "done" /\ errors[r] # {}
  /\ reply[r] \in {"timeout", "gone"} <=> ctxDone[r]

Sound(r) ==
  /\ IF IsMutation(r) THEN MutationSound(r) ELSE QuerySound(r)
  /\ ReplySound(r)

\* All statements of a transaction above READ COMMITTED see the snapshot its
\* first statement took.
SnapshotSound(r) ==
  Isolation # "read_committed" /\ NeedTx(r) =>
    /\ pc[r] \notin {"autocommit", "statement"}
    /\ pc[r] \in InTxLabels => seen[r] \subseteq {snapshot[held[r]]}
    /\ pc[r] \in {"received", "begin"} => seen[r] = {}
    /\ \A s, t \in seen[r] : s = t

DurabilityInv == IdentityInv /\ \A r \in Requests : Sound(r) /\ SnapshotSound(r)

\* Effects are sequences of field positions; appending the next position to the
\* first n - 1 of them gives the first n.
LEMMA FirstFieldsType ==
  ASSUME NEW n \in Nat
  PROVE  FirstFields(n) \in Seq(Nat) /\ Len(FirstFields(n)) = n
  BY DEF FirstFields

LEMMA FirstFieldsZero == FirstFields(0) = << >>
  BY DEF FirstFields

LEMMA FirstFieldsNext ==
  ASSUME NEW n \in Nat \ {0}
  PROVE  /\ Append(FirstFields(n - 1), n) = FirstFields(n)
         /\ FirstFields(n - 1) \o <<n>> = FirstFields(n)
<1>1. \A i \in 1..n : Append(FirstFields(n - 1), n)[i] = i
  BY DEF FirstFields
<1>2. \A i \in 1..n : (FirstFields(n - 1) \o <<n>>)[i] = i
  BY DEF FirstFields
<1> QED
  BY <1>1, <1>2 DEF FirstFields

LEMMA FirstFieldsSame ==
  ASSUME NEW m \in Nat, NEW n \in Nat, FirstFields(m) = FirstFields(n)
  PROVE  m = n
  BY FirstFieldsType

LEMMA AllFieldsIsFirstFields ==
  ASSUME NEW r \in Requests
  PROVE  AllFields(r) = FirstFields(NumFields[r])
  BY DEF AllFields, Fields, FirstFields

LEMMA EmptyConcat ==
  ASSUME NEW s \in Seq(Nat)
  PROVE  s \o << >> = s /\ << >> \o s = s
  OBVIOUS
------------------------------------------------------------------------------
\* A step leaves request s alone, with the transaction it may have open.
Untouched(s) ==
  /\ pc'[s] = pc[s] /\ field'[s] = field[s] /\ errors'[s] = errors[s]
  /\ data'[s] = data[s] /\ seen'[s] = seen[s] /\ held'[s] = held[s]
  /\ ctxDone'[s] = ctxDone[s] /\ reply'[s] = reply[s] /\ db'[s] = db[s]
  /\ LostWork(s)' = LostWork(s)
  /\ pc[s] \in InTxLabels =>
       /\ txState'[held[s]] = txState[held[s]]
       /\ pending'[held[s]] = pending[held[s]]
       /\ snapshot'[held[s]] = snapshot[held[s]]

\* The steps of one request leave every other request alone.
LEMMA OthersUntouched ==
  ASSUME IdentityInv, NEW r \in Requests, NEW s \in Requests \ {r},
         Work(r) \/ Wait(r) \/ GiveUp(r) \/ Cancel(r)
  PROVE  Untouched(s)
<1> DEFINE Alone(t) ==
       pc[t] \in InTxLabels => held[t] \in Conns /\ held[t] # held[r] /\ ~ Idle(held[t])
<1>a. Alone(s)
  BY RequestAssumption
  DEF IdentityInv, TypeInv, TypeOK, Holding, HoldingLabels, Exclusive, Idle
<1>b. /\ pc \in [Requests -> Labels] /\ held \in [Requests -> Conns \cup {NoConn}]
      /\ field \in [Requests -> Nat \ {0}]
      /\ errors \in [Requests -> SUBSET ErrorKinds]
      /\ data \in [Requests -> SUBSET Nat]
      /\ seen \in [Requests -> SUBSET DbStates]
      /\ ctxDone \in [Requests -> BOOLEAN]
      /\ reply \in [Requests -> {"none", "ok", "errors", "timeout", "gone"}]
      /\ txState \in [Conns -> {"idle", "open", "aborted"}]
      /\ snapshot \in [Conns -> DbStates \cup {NoSnapshot}]
      /\ pending \in [Conns -> Seq(Nat)]
      /\ db \in [Requests -> Seq(Nat)]
  BY DEF IdentityInv, TypeInv, TypeOK, DbStates
<1> HIDE DEF Alone
<1> USE <1>a, <1>b
    DEF Untouched, Goto, Advance, AddError, Deliver, Observe, Release, EndTx, session
<1>1. CASE Refuse(r) \/ StartOperation(r) \/ IdentityApplied(r) \/ ApplyRLSFails(r)
           \/ SendCommit(r) \/ Finish(r) \/ FieldsDone(r) \/ Answer(r) \/ BeginTxFails(r)
  BY <1>1 DEF Refuse, StartOperation, IdentityApplied, ApplyRLSFails, SendCommit,
     Finish, FieldsDone, Answer, BeginTxFails, LostWork
<1>2. CASE Retry(r)
  BY <1>2 DEF Retry, LostWork
<1>3. CASE FieldNotSent(r)
  BY <1>3 DEF FieldNotSent, AfterFieldError, LostWork
<1>4. CASE Cancel(r)
  BY <1>4 DEF Cancel, reqVars, LostWork
<1>5. CASE SetLocalRole(r)
  BY <1>5 DEF SetLocalRole, LostWork
<1>6. CASE SetClaim(r)
  BY <1>6 DEF SetClaim, LostWork, Alone
<1>7. CASE TxField(r)
  BY <1>7 DEF TxField, LostWork, Alone
<1>8. CASE TxFieldError(r)
  BY <1>8 DEF TxFieldError, AfterFieldError, LostWork, Alone
<1>9. CASE TxStatementError(r)
  BY <1>9 DEF TxStatementError, AfterFieldError, LostWork, Alone
<1>10. CASE CommitNotSent(r) \/ CommitRefused(r) \/ Rollback(r)
  BY <1>10 DEF CommitNotSent, CommitRefused, Rollback, LostWork, Alone
<1>11. CASE Commit(r)
  BY <1>11 DEF Commit, MakeDurable, LostWork, Alone
<1>12. CASE CommitLost(r)
  BY <1>12 DEF CommitLost, Abandon, LostWork, Alone
<1>13. CASE StatementDone(r)
  BY <1>13 DEF StatementDone, MakeDurable, AfterFieldError, LostWork, Alone
<1>14. CASE StatementError(r)
  BY <1>14 DEF StatementError, AfterFieldError, LostWork, Alone
<1>15. CASE StatementLost(r)
  BY <1>15 DEF StatementLost, Abandon, AfterFieldError, LostWork, Alone
<1>16. CASE BeginTx(r)
  BY <1>16 DEF BeginTx, LostWork, Alone
<1>17. CASE AcquireConn(r)
  BY <1>17 DEF AcquireConn, LostWork
<1> QED
  BY <1>1, <1>2, <1>3, <1>4, <1>5, <1>6, <1>7, <1>8, <1>9, <1>10, <1>11, <1>12,
     <1>13, <1>14, <1>15, <1>16, <1>17 DEF Work, Wait, GiveUp

\* What is sound of a request stays so while others move.
LEMMA UntouchedSound ==
  ASSUME NEW s \in Requests, Untouched(s), Sound(s), SnapshotSound(s)
  PROVE  Sound(s)' /\ SnapshotSound(s)'
<1> USE DEF Untouched, InTxLabels
<1>1. QuerySound(s) => QuerySound(s)'
  BY DEF QuerySound
<1>2. ErrorStops(s) => ErrorStops(s)'
  BY DEF ErrorStops
<1>3. TxSound(s) => TxSound(s)'
  BY DEF TxSound
<1>4. AutocommitSound(s) => AutocommitSound(s)'
  BY DEF AutocommitSound
<1>5. ReplySound(s)'
  BY DEF Sound, ReplySound
<1>6. SnapshotSound(s)'
  BY DEF SnapshotSound
<1> QED
  BY <1>1, <1>2, <1>3, <1>4, <1>5, <1>6 DEF Sound, MutationSound
------------------------------------------------------------------------------
\* The types a step of request r needs.
OwnTypes(r) ==
  /\ pc \in [Requests -> Labels] /\ held \in [Requests -> Conns \cup {NoConn}]
  /\ field \in [Requests -> Nat \ {0}] /\ NumFields[r] \in Nat
  /\ errors \in [Requests -> SUBSET ErrorKinds]
  /\ data \in [Requests -> SUBSET Nat]
  /\ seen \in [Requests -> SUBSET DbStates]
  /\ ctxDone \in [Requests -> BOOLEAN]
  /\ reply \in [Requests -> {"none", "ok", "errors", "timeout", "gone"}]
  /\ txState \in [Conns -> {"idle", "open", "aborted"}]
  /\ snapshot \in [Conns -> DbStates \cup {NoSnapshot}]
  /\ pending \in [Conns -> Seq(Nat)]
  /\ db \in [Requests -> Seq(Nat)]
  /\ orphans \subseteq [req : Requests, effects : Seq(Nat)]
  /\ pc[r] \in HoldingLabels => held[r] \in Conns

\* They hold by type correctness.
LEMMA OwnTyped ==
  ASSUME IdentityInv, NEW r \in Requests PROVE OwnTypes(r)
  BY RequestAssumption DEF IdentityInv, TypeInv, TypeOK, Holding, DbStates, OwnTypes

\* Every step of a request keeps what is sound of it: the heart of the argument.
LEMMA OwnSound ==
  ASSUME IdentityInv, NEW r \in Requests, Sound(r),
         Work(r) \/ Wait(r) \/ GiveUp(r) \/ Cancel(r)
  PROVE  Sound(r)'
<1>t. OwnTypes(r)
  BY OwnTyped
<1>l. UNCHANGED orphans => LostWork(r)' = LostWork(r)
  BY DEF LostWork
<1> USE <1>t, <1>l
    DEF OwnTypes, Labels, HoldingLabels, InTxLabels, ErrorKinds, Running, BeforeTx,
        Decided, Sound, MutationSound, ReplySound, IsMutation, Goto, Advance, AddError,
        Deliver, Release, EndTx, session
<1>1. CASE Refuse(r)
  BY <1>1, FirstFieldsZero DEF Refuse, QuerySound, ErrorStops, TxSound, AutocommitSound
<1>2. CASE StartOperation(r)
  BY <1>2, FirstFieldsZero
  DEF StartOperation, QuerySound, ErrorStops, TxSound, AutocommitSound
<1>3. CASE IdentityApplied(r)
  BY <1>3 DEF IdentityApplied, QuerySound, ErrorStops, TxSound, AutocommitSound
<1>4. CASE ApplyRLSFails(r)
  BY <1>4 DEF ApplyRLSFails, QuerySound, ErrorStops, TxSound, AutocommitSound
<1>5. CASE SendCommit(r)
  BY <1>5 DEF SendCommit, QuerySound, ErrorStops, TxSound, AutocommitSound
<1>6. CASE Finish(r)
  BY <1>6 DEF Finish, QuerySound, ErrorStops, TxSound, AutocommitSound
<1>7. CASE FieldsDone(r)
  BY <1>7, AllFieldsIsFirstFields
  DEF FieldsDone, QuerySound, ErrorStops, TxSound, AutocommitSound
<1>8. CASE Answer(r)
  <2>1. ReplySound(r)'
    BY <1>8 DEF Answer
  <2>2. IsMutation(r) => MutationSound(r)'
    BY <1>8 DEF Answer, ErrorStops, TxSound, AutocommitSound
  <2>3. ~ IsMutation(r) => QuerySound(r)'
    BY <1>8 DEF Answer, QuerySound
  <2> QED
    BY <2>1, <2>2, <2>3
<1>9. CASE BeginTxFails(r)
  BY <1>9 DEF BeginTxFails, QuerySound, ErrorStops, TxSound, AutocommitSound
<1>10. CASE Retry(r)
  BY <1>10
  DEF Retry, ShouldRetry, IsSerializationFailure, QuerySound, ErrorStops, TxSound,
      AutocommitSound
<1>11. CASE FieldNotSent(r)
  BY <1>11
  DEF FieldNotSent, AfterFieldError, QuerySound, ErrorStops, TxSound, AutocommitSound
<1>12. CASE Cancel(r)
  BY <1>12 DEF Cancel, reqVars, QuerySound, ErrorStops, TxSound, AutocommitSound
<1>13. CASE SetLocalRole(r)
  BY <1>13 DEF SetLocalRole, QuerySound, ErrorStops, TxSound, AutocommitSound
<1>14. CASE SetClaim(r)
  BY <1>14 DEF SetClaim, QuerySound, ErrorStops, TxSound, AutocommitSound
<1>15. CASE TxField(r)
  <2>1. ~ IsMutation(r) => Sound(r)'
    BY <1>15 DEF TxField, QuerySound
  <2>2. ASSUME IsMutation(r) PROVE Sound(r)'
    <3>1. NeedTx(r) /\ ErrorStops(r) /\ TxSound(r)
      BY <1>15, <2>2 DEF TxField, AutocommitSound
    <3>2. pending'[held[r]] = FirstFields(field'[r] - 1)
      <4>1. pending'[held[r]] = Append(FirstFields(field[r] - 1), field[r])
        BY <1>15, <2>2, <3>1 DEF TxField, TxSound
      <4>2. field'[r] - 1 = field[r] /\ field[r] \in Nat \ {0}
        BY <1>15 DEF TxField
      <4> QED
        BY <4>1, <4>2, FirstFieldsNext
    <3>3. ErrorStops(r)' /\ ReplySound(r)'
      BY <1>15, <3>1 DEF TxField, ErrorStops
    <3>4. TxSound(r)'
      BY <1>15, <3>1, <3>2 DEF TxField, TxSound
    <3> QED
      BY <2>2, <3>1, <3>3, <3>4
  <2> QED
    BY <2>1, <2>2
<1>16. CASE TxFieldError(r)
  BY <1>16
  DEF TxFieldError, AfterFieldError, QuerySound, ErrorStops, TxSound, AutocommitSound
<1>17. CASE TxStatementError(r)
  BY <1>17
  DEF TxStatementError, AfterFieldError, QuerySound, ErrorStops, TxSound,
      AutocommitSound
<1>18. CASE CommitNotSent(r)
  BY <1>18 DEF CommitNotSent, QuerySound, ErrorStops, TxSound, AutocommitSound
<1>19. CASE CommitRefused(r)
  <2>1. PICK kind \in {"statement", "serialization"} : AddError(r, kind)
    BY <1>19 DEF CommitRefused
  <2>2. ~ IsMutation(r) => Sound(r)'
    BY <1>19, <2>1 DEF CommitRefused, QuerySound
  <2>3. IsMutation(r) => Sound(r)'
    BY <1>19, <2>1 DEF CommitRefused, ErrorStops, TxSound, AutocommitSound
  <2> QED
    BY <2>2, <2>3
<1>20. CASE Rollback(r)
  BY <1>20 DEF Rollback, QuerySound, ErrorStops, TxSound, AutocommitSound
<1>21. CASE Commit(r)
  <2>1. pending[held[r]] \in Seq(Nat) /\ db'[r] = db[r] \o pending[held[r]]
    BY <1>21 DEF Commit, MakeDurable
  <2>2. ~ IsMutation(r) => Sound(r)'
    BY <1>21, <2>1 DEF Commit, QuerySound
  <2>3. ASSUME IsMutation(r) PROVE Sound(r)'
    <3>1. NeedTx(r) /\ ErrorStops(r) /\ TxSound(r)
      BY <1>21, <2>3 DEF Commit, AutocommitSound
    <3>2. db'[r] = AllFields(r)
      BY <1>21, <2>1, <3>1, EmptyConcat, AllFieldsIsFirstFields
      DEF Commit, ErrorStops, TxSound
    <3> QED
      BY <1>21, <2>3, <3>1, <3>2 DEF Commit, ErrorStops, TxSound
  <2> QED
    BY <2>2, <2>3
<1>22. CASE CommitLost(r)
  BY <1>22, AllFieldsIsFirstFields
  DEF CommitLost, Abandon, LostWork, QuerySound, ErrorStops, TxSound, AutocommitSound
<1>23. CASE StatementDone(r)
  <2>1. ASSUME ~ IsMutation(r) PROVE Sound(r)'
    <3>1. db'[r] = db[r]
      BY <1>23, <2>1, EmptyConcat DEF StatementDone, MakeDurable
    <3> QED
      BY <1>23, <2>1, <3>1 DEF StatementDone, AfterFieldError, QuerySound
  <2>2. ASSUME IsMutation(r) PROVE Sound(r)'
    <3>1. ~ NeedTx(r) /\ ErrorStops(r) /\ AutocommitSound(r)
      BY <1>23, <2>2 DEF StatementDone, TxSound
    <3>2. /\ FirstFields(field[r] - 1) \o <<field[r]>> = FirstFields(field[r])
          /\ FirstFields(field[r] - 1) \o << >> = FirstFields(field[r] - 1)
      <4>1. field[r] \in Nat \ {0} /\ field[r] - 1 \in Nat
        OBVIOUS
      <4> QED
        BY <4>1, FirstFieldsNext, FirstFieldsType, EmptyConcat
    <3>3. /\ db[r] = FirstFields(field[r] - 1) /\ LostWork(r) = {} /\ errors[r] = {}
          /\ field[r] \in 1..NumFields[r]
      BY <1>23, <3>1 DEF StatementDone, ErrorStops, AutocommitSound
    <3>4. CASE db'[r] = FirstFields(field[r]) /\ Deliver(r) /\ Advance(r)
               /\ Goto(r, "autocommit") /\ UNCHANGED errors
      BY <1>23, <2>2, <3>1, <3>3, <3>4 DEF StatementDone, ErrorStops, AutocommitSound
    <3>5. CASE /\ db'[r] = FirstFields(field[r]) \/ db'[r] = FirstFields(field[r] - 1)
               /\ AddError(r, "statement") /\ UNCHANGED data
               /\ Goto(r, "answered") /\ UNCHANGED field
      BY <1>23, <2>2, <3>1, <3>3, <3>5 DEF StatementDone, ErrorStops, AutocommitSound
    <3> QED
      <4>1. CASE MakeDurable(r, <<field[r]>>) /\ Deliver(r) /\ Advance(r)
                 /\ Goto(r, "autocommit") /\ UNCHANGED errors
        BY <4>1, <3>2, <3>3, <3>4 DEF MakeDurable
      <4>2. CASE /\ MakeDurable(r, <<field[r]>>) \/ MakeDurable(r, << >>)
                 /\ AddError(r, "statement") /\ UNCHANGED data
                 /\ Goto(r, "answered") /\ UNCHANGED field
        <5>1. db'[r] = db[r] \o <<field[r]>> \/ db'[r] = db[r] \o << >>
          BY <4>2 DEF MakeDurable
        <5> QED
          BY <5>1, <4>2, <3>2, <3>3, <3>5
      <4>3. <4>1!1 \/ <4>2!1
        BY <1>23, <2>2 DEF StatementDone, AfterFieldError
      <4> QED
        BY <4>1, <4>2, <4>3
  <2> QED
    BY <2>1, <2>2
<1>24. CASE StatementError(r)
  BY <1>24
  DEF StatementError, AfterFieldError, QuerySound, ErrorStops, TxSound, AutocommitSound
<1>25. CASE StatementLost(r)
  BY <1>25
  DEF StatementLost, Abandon, LostWork, AfterFieldError, QuerySound, ErrorStops, TxSound,
      AutocommitSound
<1>26. CASE BeginTx(r)
  BY <1>26, FirstFieldsZero
  DEF BeginTx, IdentityInv, IdleFresh, FreshSession, QuerySound, ErrorStops, TxSound,
      AutocommitSound
<1>27. CASE AcquireConn(r)
  BY <1>27 DEF AcquireConn, QuerySound, ErrorStops, TxSound, AutocommitSound
<1> QED
  BY <1>1, <1>2, <1>3, <1>4, <1>5, <1>6, <1>7, <1>8, <1>9, <1>10, <1>11, <1>12,
     <1>13, <1>14, <1>15, <1>16, <1>17, <1>18, <1>19, <1>20, <1>21, <1>22, <1>23,
     <1>24, <1>25, <1>26, <1>27 DEF Work, Wait, GiveUp
------------------------------------------------------------------------------
\* No step of a request reads from a second snapshot.
LEMMA OwnSnapshot ==
  ASSUME IdentityInv, NEW r \in Requests, SnapshotSound(r),
         Work(r) \/ Wait(r) \/ GiveUp(r) \/ Cancel(r)
  PROVE  SnapshotSound(r)'
<1> SUFFICES ASSUME Isolation # "read_committed", NeedTx(r) PROVE SnapshotSound(r)'
  BY DEF SnapshotSound
<1>t. OwnTypes(r)
  BY OwnTyped
<1> USE <1>t, SnapshotAssumption
    DEF OwnTypes, Labels, HoldingLabels, InTxLabels, SnapshotSound, Goto, Release, EndTx, session
<1>1. CASE Refuse(r) \/ StartOperation(r) \/ IdentityApplied(r) \/ ApplyRLSFails(r)
           \/ SendCommit(r) \/ Finish(r) \/ FieldsDone(r) \/ Answer(r)
           \/ BeginTxFails(r) \/ SetLocalRole(r)
  BY <1>1 DEF Refuse, StartOperation, IdentityApplied, ApplyRLSFails, SendCommit,
     Finish, FieldsDone, Answer, BeginTxFails, SetLocalRole
<1>2. CASE CommitNotSent(r) \/ CommitRefused(r) \/ Commit(r) \/ CommitLost(r)
           \/ Rollback(r)
  BY <1>2 DEF CommitNotSent, CommitRefused, Commit, CommitLost, Rollback
<1>3. CASE Retry(r)
  BY <1>3 DEF Retry
<1>4. CASE Cancel(r)
  BY <1>4 DEF Cancel, reqVars
<1>5. CASE SetClaim(r)
  BY <1>5 DEF SetClaim, View, DbStates
<1>6. CASE TxField(r)
  BY <1>6 DEF TxField, Observe, View, DbStates
<1>7. CASE TxFieldError(r) \/ TxStatementError(r)
  BY <1>7 DEF TxFieldError, TxStatementError, AfterFieldError
<1>8. CASE BeginTx(r)
  BY <1>8 DEF BeginTx
<1>9. CASE AcquireConn(r) \/ FieldNotSent(r) \/ StatementDone(r) \/ StatementError(r)
           \/ StatementLost(r)
  BY <1>9 DEF AcquireConn, FieldNotSent, StatementDone, StatementError, StatementLost
<1> QED
  BY <1>1, <1>2, <1>3, <1>4, <1>5, <1>6, <1>7, <1>8, <1>9 DEF Work, Wait, GiveUp

\* The server settles what request o.req left behind: at most once, and after
\* an error that says so.
LEMMA OrphanSound ==
  ASSUME IdentityInv, NEW o \in orphans, OrphanEnds(o), Sound(o.req)
  PROVE  /\ o.req \in Mutations /\ "lost" \in errors[o.req]
         /\ LostWork(o.req)' = {}
         /\ Sound(o.req)'
<1> DEFINE r == o.req
<1>1. r \in Requests /\ o.effects \in Seq(Nat) /\ o = [req |-> r, effects |-> o.effects]
  BY DEF IdentityInv, TypeInv, TypeOK
<1>2. OwnTypes(r)
  BY <1>1, OwnTyped
<1>3. o \in LostWork(r)
  BY DEF LostWork
<1>4. IsMutation(r) /\ MutationSound(r)
  BY <1>3 DEF Sound, QuerySound
<1>5. LostWork(r)' = {}
  <2>1. \A p \in LostWork(r) : p.effects = o.effects
    BY <1>3, <1>4 DEF MutationSound, TxSound, AutocommitSound
  <2>2. \A p \in LostWork(r) : p = o
    BY <1>1, <1>2, <2>1 DEF LostWork, OwnTypes
  <2> QED
    BY <2>2 DEF LostWork, OrphanEnds
<1>6. /\ UNCHANGED <<pc, field, errors, data, ctxDone, reply>>
      /\ db'[r] = db[r] \/ db'[r] = db[r] \o o.effects
  BY <1>1, <1>2 DEF OrphanEnds, reqVars, MakeDurable, OwnTypes
<1>7. ErrorStops(r)' /\ ReplySound(r)' /\ "lost" \in errors[r]
  BY <1>3, <1>4, <1>5, <1>6 DEF MutationSound, Sound, ErrorStops, ReplySound
<1>8. ASSUME NeedTx(r) PROVE TxSound(r)'
  <2>1. /\ TxSound(r) /\ o.effects = AllFields(r) /\ db[r] = << >>
        /\ pc[r] \in Decided /\ errors[r] = {"lost"}
    BY <1>3, <1>4, <1>7, <1>8 DEF MutationSound, TxSound, ErrorStops
  <2>2. db'[r] \in {<< >>, AllFields(r)}
    BY <1>1, <1>6, <2>1, EmptyConcat
  <2> QED
    BY <1>5, <1>6, <2>1, <2>2 DEF TxSound, Decided, InTxLabels
<1>9. ASSUME ~ NeedTx(r) PROVE AutocommitSound(r)'
  <2>1. /\ AutocommitSound(r) /\ o.effects = <<field[r]>>
        /\ field[r] <= NumFields[r] /\ db[r] = FirstFields(field[r] - 1)
    BY <1>3, <1>4, <1>9 DEF MutationSound, AutocommitSound
  <2>2. pc[r] \in {"answered", "done"}
    BY <1>4, <1>7, <2>1 DEF MutationSound, ErrorStops, AutocommitSound, Running, BeforeTx
  <2>3. db'[r] \in {FirstFields(field[r] - 1), FirstFields(field[r])}
    <3>1. field[r] \in Nat \ {0}
      BY <1>1, <1>2 DEF OwnTypes
    <3> QED
      BY <1>6, <2>1, <3>1, FirstFieldsNext
  <2> QED
    BY <1>5, <1>6, <1>7, <2>1, <2>2, <2>3 DEF AutocommitSound
<1> QED
  BY <1>4, <1>5, <1>7, <1>8, <1>9 DEF Sound, MutationSound, IsMutation

\* What becomes of one lost connection is no concern of the other requests.
LEMMA OrphanOthers ==
  ASSUME IdentityInv, NEW o \in orphans, OrphanEnds(o), NEW s \in Requests \ {o.req}
  PROVE  Untouched(s)
<1>1. o.req \in Requests /\ OwnTypes(o.req)
  BY OwnTyped DEF IdentityInv, TypeInv, TypeOK
<1>2. db'[s] = db[s] /\ LostWork(s)' = LostWork(s)
  BY <1>1 DEF OrphanEnds, MakeDurable, LostWork, OwnTypes
<1> QED
  BY <1>2 DEF OrphanEnds, reqVars, session, Untouched

LEMMA InitDurabilityInv == Init => DurabilityInv
<1> SUFFICES ASSUME Init, NEW r \in Requests PROVE Sound(r) /\ SnapshotSound(r)
  BY InitIdentityInv DEF DurabilityInv
<1>1. LostWork(r) = {}
  BY DEF Init, LostWork
<1>2. QuerySound(r) /\ ReplySound(r) /\ SnapshotSound(r)
  BY <1>1 DEF Init, QuerySound, ReplySound, SnapshotSound, InTxLabels
<1>3. ErrorStops(r)
  BY <1>1, RequestAssumption DEF Init, ErrorStops, Running, BeforeTx
<1>4. TxSound(r)
  BY <1>1 DEF Init, TxSound, Decided
<1>5. AutocommitSound(r)
  BY <1>1, FirstFieldsZero DEF Init, AutocommitSound
<1> QED
  BY <1>2, <1>3, <1>4, <1>5 DEF Sound, MutationSound

LEMMA StepDurabilityInv == DurabilityInv /\ [Next]_vars => DurabilityInv'
<1> SUFFICES ASSUME DurabilityInv, [Next]_vars, NEW s \in Requests
             PROVE  Sound(s)' /\ SnapshotSound(s)'
  BY StepIdentityInv DEF DurabilityInv
<1>1. IdentityInv /\ \A r \in Requests : Sound(r) /\ SnapshotSound(r)
  BY DEF DurabilityInv
<1>2. ASSUME NEW r \in Requests, Work(r) \/ Wait(r) \/ GiveUp(r) \/ Cancel(r)
      PROVE  Sound(s)' /\ SnapshotSound(s)'
  <2>1. CASE s = r
    BY <1>1, <1>2, <2>1, OwnSound, OwnSnapshot
  <2>2. CASE s # r
    BY <1>1, <1>2, <2>2, OthersUntouched, UntouchedSound
  <2> QED
    BY <2>1, <2>2
<1>3. ASSUME NEW o \in orphans, OrphanEnds(o) PROVE Sound(s)' /\ SnapshotSound(s)'
  <2>1. CASE s = o.req
    <3>1. Sound(s)'
      BY <1>1, <1>3, <2>1, OrphanSound
    <3>2. SnapshotSound(s)'
      BY <1>1, <1>3 DEF OrphanEnds, reqVars, session, SnapshotSound
    <3> QED
      BY <3>1, <3>2
  <2>2. CASE s # o.req
    BY <1>1, <1>3, <2>2, OrphanOthers, UntouchedSound
  <2> QED
    BY <2>1, <2>2
<1>4. CASE UNCHANGED vars
  <2>1. Untouched(s)
    BY <1>4 DEF vars, reqVars, session, Untouched, LostWork
  <2> QED
    BY <1>1, <2>1, UntouchedSound
<1> QED
  BY <1>2, <1>3, <1>4 DEF Next, Terminating

LEMMA DurabilityHolds == Spec => []DurabilityInv
  BY InitDurabilityInv, StepDurabilityInv, PTL DEF Spec

\* For any number of requests, connections, fields and retries, a mutation in a
\* transaction is durable as a whole or not at all (runTx, executeOperation).
THEOREM MutationsAreAtomic == Spec => []TransactionAtomic
<1>1. DurabilityInv => TransactionAtomic
  BY RequestAssumption
  DEF DurabilityInv, Sound, IsMutation, MutationSound, TxSound, TransactionAtomic
<1> QED
  BY <1>1, DurabilityHolds, PTL

\* No field of a mutation takes effect out of order or twice, in a transaction or
\* in autocommit, whatever is retried or lost (run, executeOperation).
THEOREM EffectsAreInOrder == Spec => []EffectsInOrderOnce
<1>1. DurabilityInv => EffectsInOrderOnce
  <2> SUFFICES ASSUME DurabilityInv, NEW r \in Mutations
               PROVE  \E n \in 0..NumFields[r] : db[r] = FirstFields(n)
    BY DEF EffectsInOrderOnce, FirstFields
  <2>1. r \in Requests /\ NumFields[r] \in Nat /\ MutationSound(r)
    BY RequestAssumption DEF DurabilityInv, Sound, IsMutation
  <2>2. CASE NeedTx(r)
    BY <2>1, <2>2, FirstFieldsZero, AllFieldsIsFirstFields DEF MutationSound, TxSound
  <2>3. CASE ~ NeedTx(r)
    BY <2>1, <2>3 DEF MutationSound, AutocommitSound, ErrorStops
  <2> QED
    BY <2>2, <2>3
<1> QED
  BY <1>1, DurabilityHolds, PTL

\* A response without errors means all of it is durable, and a failed transaction
\* left nothing unless its connection was lost (executeOperation, runTx).
THEOREM RepliesAreTruthful == Spec => []ReplyTruthful
<1>1. DurabilityInv => ReplyTruthful
  <2> SUFFICES ASSUME DurabilityInv, NEW r \in Mutations
               PROVE  /\ reply[r] = "ok" => db[r] = AllFields(r)
                      /\ reply[r] = "errors" /\ NeedTx(r) /\ "lost" \notin errors[r] =>
                           db[r] = << >>
                      /\ ~ NeedTx(r) => data[r] \subseteq 1..Len(db[r])
    BY DEF ReplyTruthful
  <2>1. r \in Requests /\ MutationSound(r) /\ ReplySound(r)
    BY RequestAssumption DEF DurabilityInv, Sound, IsMutation
  <2>2. CASE NeedTx(r)
    BY <2>1, <2>2 DEF MutationSound, TxSound, ReplySound, Decided
  <2>3. CASE ~ NeedTx(r)
    <3>1. reply[r] = "ok" => db[r] = AllFields(r)
      BY <2>1, <2>3 DEF MutationSound, AutocommitSound, ReplySound
    <3>2. Len(db[r]) = field[r] - 1 \/ Len(db[r]) = field[r]
      BY <2>1, <2>3, FirstFieldsType DEF MutationSound, AutocommitSound, ErrorStops
    <3>3. data[r] \subseteq 1..(field[r] - 1) /\ field[r] \in Nat
      BY <2>1, <2>3 DEF MutationSound, AutocommitSound, ErrorStops
    <3> QED
      BY <2>3, <3>1, <3>2, <3>3
  <2> QED
    BY <2>2, <2>3
<1> QED
  BY <1>1, DurabilityHolds, PTL

\* Once the handler has returned nothing more of the request becomes durable, but
\* for what was in flight on a connection it saw die (runTx's deferred Rollback).
THEOREM NothingBecomesDurableLate == Spec => NoLateEffects
<1>1. DurabilityInv /\ [Next]_vars =>
        [\A r \in Requests :
           pc[r] = "done" /\ "lost" \notin errors[r] => db'[r] = db[r]]_vars
  <2> SUFFICES ASSUME DurabilityInv, Next, NEW r \in Requests,
                      pc[r] = "done", "lost" \notin errors[r]
               PROVE  db'[r] = db[r]
    OBVIOUS
  <2>1. IdentityInv /\ Sound(r)
    BY DEF DurabilityInv
  <2>2. ASSUME NEW s \in Requests, Work(s) \/ Wait(s) \/ GiveUp(s) \/ Cancel(s)
        PROVE  db'[r] = db[r]
    <3>1. CASE s = r
      BY <2>2, <3>1
      DEF Work, Wait, GiveUp, Refuse, StartOperation, SetLocalRole, SetClaim,
          IdentityApplied, ApplyRLSFails, TxField, TxFieldError, TxStatementError,
          SendCommit, CommitNotSent, Commit, CommitRefused, CommitLost, Rollback,
          Retry, Finish, StatementDone, StatementError, StatementLost, FieldsDone,
          Answer, BeginTx, AcquireConn, BeginTxFails, FieldNotSent, Cancel
    <3>2. CASE s # r
      BY <2>1, <2>2, <3>2, OthersUntouched DEF Untouched
    <3> QED
      BY <3>1, <3>2
  <2>3. ASSUME NEW o \in orphans, OrphanEnds(o) PROVE db'[r] = db[r]
    <3>1. o.req \in Requests
      BY <2>1 DEF IdentityInv, TypeInv, TypeOK
    <3>2. o.req # r
      BY <2>1, <2>3, <3>1, OrphanSound
    <3> QED
      BY <2>1, <2>3, <3>2, OrphanOthers DEF Untouched
  <2>4. CASE Terminating
    BY <2>4 DEF Terminating, vars
  <2> QED
    BY <2>2, <2>3, <2>4 DEF Next
<1> QED
  BY <1>1, DurabilityHolds, PTL DEF Spec, NoLateEffects

\* Above READ COMMITTED all root fields of a transactional query read one database
\* state, also when the first statement was one of applyRLS (runTx, TxPerRequest).
THEOREM OneSnapshot == Spec => [](Isolation # "read_committed" => SingleSnapshot)
<1>1. DurabilityInv => (Isolation # "read_committed" => SingleSnapshot)
  <2> SUFFICES ASSUME DurabilityInv, Isolation # "read_committed",
                      NEW r \in Requests, NeedTx(r)
               PROVE  Cardinality(seen[r]) <= 1
    BY DEF SingleSnapshot
  <2>1. \A s, t \in seen[r] : s = t
    BY DEF DurabilityInv, SnapshotSound
  <2>2. CASE seen[r] = {}
    BY <2>2, FS_EmptySet
  <2>3. CASE seen[r] # {}
    <3>1. PICK s \in seen[r] : TRUE
      BY <2>3
    <3>2. seen[r] = {s}
      BY <2>1, <3>1
    <3>3. Cardinality({s}) = 1
      BY FS_Singleton, Zenon
    <3> QED
      BY <3>2, <3>3
  <2> QED
    BY <2>2, <2>3
<1> QED
  BY <1>1, DurabilityHolds, PTL
------------------------------------------------------------------------------
\* The mapped variables of AtomicOutcome.
OutcomeBar == [r \in TxMutationsOnly |-> OutcomeOf(r)]
ReplyBar == [r \in TxMutationsOnly |-> reply[r]]

\* What a step may make of a mutation, by its outcome and reply before and after.
Allowed(r) ==
  \/ OutcomeOf(r)' = OutcomeOf(r) /\ reply'[r] = reply[r]
  \/ /\ OutcomeOf(r) = "pending" /\ OutcomeOf(r)' \in {"applied", "dropped", "in_doubt"}
     /\ reply'[r] = reply[r]
  \/ /\ OutcomeOf(r) = "in_doubt" /\ OutcomeOf(r)' \in {"applied_late", "dropped"}
     /\ reply'[r] = reply[r]
  \/ /\ reply[r] = "none" /\ reply'[r] = "ok"
     /\ OutcomeOf(r) = "applied" /\ OutcomeOf(r)' = "applied"
  \/ /\ reply[r] = "none" /\ reply'[r] = "errors" /\ OutcomeOf(r) # "applied"
     /\ OutcomeOf(r)' = IF OutcomeOf(r) = "pending" THEN "dropped" ELSE OutcomeOf(r)
  \/ /\ reply[r] = "none" /\ reply'[r] \in {"timeout", "gone"}
     /\ OutcomeOf(r)' = OutcomeOf(r)

\* A step that moves one mutation as allowed is a step of AtomicOutcome.
LEMMA OneMoves ==
  ASSUME NEW r \in TxMutationsOnly, Allowed(r),
         \A s \in TxMutationsOnly \ {r} :
           OutcomeOf(s)' = OutcomeOf(s) /\ reply'[s] = reply[s]
  PROVE  [Outcome!Next]_<<OutcomeBar, ReplyBar>>
<1>1. /\ OutcomeBar' = [OutcomeBar EXCEPT ![r] = OutcomeOf(r)']
      /\ ReplyBar' = [ReplyBar EXCEPT ![r] = reply'[r]]
  BY DEF OutcomeBar, ReplyBar
<1>2. OutcomeBar[r] = OutcomeOf(r) /\ ReplyBar[r] = reply[r]
  BY DEF OutcomeBar, ReplyBar
<1>3. reply'[r] = reply[r] => ReplyBar' = ReplyBar
  BY <1>1, <1>2 DEF ReplyBar
<1>4. OutcomeOf(r)' = OutcomeOf(r) => OutcomeBar' = OutcomeBar
  BY <1>1, <1>2 DEF OutcomeBar
<1> QED
  BY <1>1, <1>2, <1>3, <1>4
  DEF Allowed, Outcome!Next, Outcome!Move, Outcome!Apply, Outcome!Drop, Outcome!Lose,
      Outcome!Settle, Outcome!Confirm, Outcome!Report, Outcome!Detach,
      OutcomeBar, ReplyBar

\* Most steps of a request change nothing an outcome depends on.
Quiet(r) ==
  /\ reply'[r] = reply[r] /\ db'[r] = db[r]
  /\ LostWork(r)' = LostWork(r)
  /\ "lost" \in errors'[r] <=> "lost" \in errors[r]
  /\ pc'[r] = "done" <=> pc[r] = "done"

LEMMA QuietAllowed ==
  ASSUME NEW r \in Requests, Quiet(r)
  PROVE  OutcomeOf(r)' = OutcomeOf(r) /\ reply'[r] = reply[r]
  BY DEF Quiet, OutcomeOf, LostWork

LEMMA OwnMove ==
  ASSUME IdentityInv, NEW r \in TxMutationsOnly, Sound(r), Sound(r)',
         Work(r) \/ Wait(r) \/ GiveUp(r) \/ Cancel(r)
  PROVE  Allowed(r)
<1>1. r \in Requests /\ OwnTypes(r) /\ NumFields[r] \in Nat \ {0}
  BY RequestAssumption, OwnTyped DEF TxMutationsOnly, OwnTypes
<1>2. /\ ErrorStops(r) /\ TxSound(r) /\ ReplySound(r)
      /\ ErrorStops(r)' /\ TxSound(r)' /\ ReplySound(r)'
  BY DEF TxMutationsOnly, Sound, IsMutation, MutationSound
<1>3. AllFields(r) # << >>
  BY <1>1, AllFieldsIsFirstFields, FirstFieldsType
<1>4. /\ UNCHANGED orphans => LostWork(r)' = LostWork(r)
      /\ Quiet(r) => Allowed(r)
  BY <1>1, QuietAllowed DEF Allowed, LostWork
<1> USE <1>1 DEF OwnTypes, Goto, AddError, Release, EndTx, session
<1>5. CASE Refuse(r) \/ StartOperation(r) \/ IdentityApplied(r) \/ ApplyRLSFails(r)
           \/ SendCommit(r) \/ Finish(r) \/ BeginTxFails(r) \/ SetLocalRole(r)
           \/ SetClaim(r) \/ BeginTx(r) \/ TxField(r)
  BY <1>4, <1>5 DEF Quiet, Refuse, StartOperation, IdentityApplied, ApplyRLSFails,
     SendCommit, Finish, BeginTxFails, SetLocalRole, SetClaim, BeginTx, TxField
<1>6. CASE CommitNotSent(r) \/ CommitRefused(r) \/ Rollback(r)
  BY <1>4, <1>6 DEF Quiet, CommitNotSent, CommitRefused, Rollback
<1>7. CASE TxFieldError(r)
  BY <1>4, <1>7 DEF Quiet, TxFieldError, AfterFieldError
<1>8. CASE Retry(r)
  BY <1>2, <1>4, <1>8 DEF Quiet, Retry, ShouldRetry, IsSerializationFailure, ErrorStops
<1>9. CASE TxStatementError(r)
  <2>1. /\ pc'[r] # "done" /\ reply'[r] = reply[r] /\ db'[r] = << >> /\ db[r] = << >>
        /\ LostWork(r) = {} /\ LostWork(r)' = {} /\ errors[r] = {} /\ pc[r] = "fields"
    BY <1>2, <1>4, <1>9 DEF TxStatementError, AfterFieldError, TxSound, ErrorStops,
       Running, Decided
  <2>2. OutcomeOf(r) = "pending" /\ OutcomeOf(r)' \in {"pending", "dropped"}
    BY <2>1 DEF OutcomeOf, LostWork
  <2> QED
    BY <2>1, <2>2 DEF Allowed
<1>10. CASE Commit(r)
  <2>1. /\ LostWork(r) = {} /\ LostWork(r)' = {} /\ errors[r] = {} /\ errors'[r] = {}
        /\ db[r] = << >> /\ pc[r] = "committing" /\ pc'[r] = "decide" /\ reply'[r] = reply[r]
    BY <1>2, <1>4, <1>10 DEF Commit, TxSound, ErrorStops, Running, Decided
  <2>2. db'[r] # << >>
    BY <1>2, <1>3, <2>1 DEF TxSound, Decided
  <2>3. OutcomeOf(r) = "pending" /\ OutcomeOf(r)' = "applied"
    BY <2>1, <2>2 DEF OutcomeOf, LostWork
  <2> QED
    BY <2>1, <2>3 DEF Allowed
<1>11. CASE CommitLost(r)
  <2>1. /\ LostWork(r) = {} /\ errors[r] = {} /\ db[r] = << >> /\ db'[r] = << >>
        /\ pc[r] = "committing" /\ reply'[r] = reply[r] /\ "lost" \in errors'[r]
    BY <1>2, <1>11 DEF CommitLost, TxSound, ErrorStops, Running, Decided
  <2>2. OutcomeOf(r) = "pending" /\ OutcomeOf(r)' \in {"in_doubt", "dropped"}
    BY <2>1 DEF OutcomeOf, LostWork
  <2> QED
    BY <2>1, <2>2 DEF Allowed
<1>12. CASE Answer(r)
  <2>1. /\ LostWork(r)' = LostWork(r) /\ db'[r] = db[r] /\ errors'[r] = errors[r]
        /\ pc[r] = "answered" /\ pc'[r] = "done"
        /\ reply'[r] = IF reply[r] # "none" THEN reply[r]
                       ELSE IF errors[r] = {} THEN "ok" ELSE "errors"
    BY <1>4, <1>12 DEF Answer
  <2>2. OutcomeOf(r)' = IF OutcomeOf(r) = "pending" THEN "dropped" ELSE OutcomeOf(r)
    BY <2>1 DEF OutcomeOf, LostWork
  <2>3. OutcomeOf(r) = "applied" <=> errors[r] = {}
    BY <1>2, <1>3, <2>1 DEF OutcomeOf, LostWork, TxSound, ErrorStops, Decided
  <2> QED
    BY <2>1, <2>2, <2>3 DEF Allowed
<1>13. CASE Cancel(r)
  <2>1. reply[r] = "none" /\ reply'[r] \in {"timeout", "gone"}
    BY <1>2, <1>13 DEF Cancel, ReplySound
  <2>2. OutcomeOf(r)' = OutcomeOf(r)
    BY <1>13 DEF Cancel, reqVars, OutcomeOf
  <2> QED
    BY <2>1, <2>2 DEF Allowed
<1>14. ~ (StatementDone(r) \/ StatementError(r) \/ StatementLost(r) \/ FieldsDone(r)
          \/ AcquireConn(r) \/ FieldNotSent(r))
  BY <1>2 DEF StatementDone, StatementError, StatementLost, FieldsDone, AcquireConn,
     FieldNotSent, TxSound
<1> QED
  BY <1>5, <1>6, <1>7, <1>8, <1>9, <1>10, <1>11, <1>12, <1>13, <1>14
  DEF Work, Wait, GiveUp

LEMMA OrphanMove ==
  ASSUME IdentityInv, NEW o \in orphans, OrphanEnds(o), Sound(o.req),
         o.req \in TxMutationsOnly
  PROVE  Allowed(o.req)
<1>1. OutcomeOf(o.req) = "in_doubt"
  BY DEF OutcomeOf
<1>2. OutcomeOf(o.req)' \in {"applied_late", "dropped"}
  <2>1. LostWork(o.req)' = {} /\ "lost" \in errors'[o.req]
    BY OrphanSound DEF OrphanEnds, reqVars
  <2> QED
    BY <2>1 DEF OutcomeOf, LostWork
<1> QED
  BY <1>1, <1>2 DEF Allowed, OrphanEnds

LEMMA InitOutcome == Init => Outcome!Init
  BY RequestAssumption DEF Init, Outcome!Init, OutcomeOf, TxMutationsOnly

LEMMA StepOutcome ==
  DurabilityInv /\ DurabilityInv' /\ [Next]_vars =>
    [Outcome!Next]_<<OutcomeBar, ReplyBar>>
<1> SUFFICES ASSUME DurabilityInv, DurabilityInv', [Next]_vars
             PROVE  [Outcome!Next]_<<OutcomeBar, ReplyBar>>
  OBVIOUS
<1>1. /\ IdentityInv /\ TxMutationsOnly \subseteq Requests
      /\ \A r \in Requests : Sound(r) /\ Sound(r)'
  BY RequestAssumption DEF DurabilityInv, TxMutationsOnly
<1>2. ASSUME NEW s \in Requests, Untouched(s)
      PROVE  OutcomeOf(s)' = OutcomeOf(s) /\ reply'[s] = reply[s]
  BY <1>2, QuietAllowed DEF Untouched, Quiet
<1>3. ASSUME \A s \in TxMutationsOnly : Untouched(s)
      PROVE  UNCHANGED <<OutcomeBar, ReplyBar>>
  BY <1>1, <1>2, <1>3 DEF OutcomeBar, ReplyBar
<1>4. ASSUME NEW r \in Requests, \A s \in Requests \ {r} : Untouched(s),
             r \in TxMutationsOnly => Allowed(r)
      PROVE  [Outcome!Next]_<<OutcomeBar, ReplyBar>>
  BY <1>1, <1>2, <1>3, <1>4, OneMoves
<1>5. ASSUME NEW r \in Requests, Work(r) \/ Wait(r) \/ GiveUp(r) \/ Cancel(r)
      PROVE  [Outcome!Next]_<<OutcomeBar, ReplyBar>>
  BY <1>1, <1>4, <1>5, OthersUntouched, OwnMove
<1>6. ASSUME NEW o \in orphans, OrphanEnds(o)
      PROVE  [Outcome!Next]_<<OutcomeBar, ReplyBar>>
  <2>1. o.req \in Requests
    BY <1>1 DEF IdentityInv, TypeInv, TypeOK
  <2> QED
    BY <1>1, <1>4, <1>6, <2>1, OrphanOthers, OrphanMove
<1>7. CASE UNCHANGED vars
  BY <1>3, <1>7 DEF vars, reqVars, session, Untouched, LostWork
<1> QED
  BY <1>5, <1>6, <1>7 DEF Next, Terminating

\* The executor implements AtomicOutcome: retries, pool, statements and failures
\* amount to one atomic step per transactional mutation, and the response says
\* truthfully which (executeOperation).
THEOREM RefinesAtomicOutcome == Spec => ImplementsAtomicOutcome
<1>1. Spec => [][Outcome!Next]_<<OutcomeBar, ReplyBar>>
  BY StepOutcome, DurabilityHolds, PTL DEF Spec
<1> QED
  BY <1>1, InitOutcome, PTL
  DEF Spec, ImplementsAtomicOutcome, Outcome!Spec, OutcomeBar, ReplyBar
===============================================================================
