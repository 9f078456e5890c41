-------------------------- MODULE JwksCache_proof --------------------------
(***************************************************************************)
(* Proofs about JwksCache for any handlers, keys and timing constants.     *)
(* The inductive invariant bounds how far the cached set and the document  *)
(* of the fetch in flight can be behind the endpoint: by their age.        *)
(***************************************************************************)
EXTENDS JwksCache, TLAPS

\* The set differs from the endpoint's at k only since at most n ticks.
Behind(set, k, n) == (k \in set <=> k \in published) \/ since[k] <= n

CacheBehind == keys # {} => \A k \in Kids : Behind(keys, k, age + FetchMax)
DocBehind == doc # {} => lock # None /\ \A k \in Kids : Behind(doc, k, fetchAge)

Inv == TypeOK /\ CacheBehind /\ DocBehind

LEMMA LookupFound ==
  ASSUME NEW set \in SUBSET Kids, NEW id \in Kids \cup {NoKid}
  PROVE  /\ Lookup(set, id) # NoKey => Lookup(set, id) \in set
         /\ id # NoKid /\ Lookup(set, id) = NoKey => id \notin set
         /\ Lookup(set, id) \in Kids \cup {NoKey}
PROOF
  BY KidAssumption DEF Lookup

LEMMA OlderNat ==
  ASSUME NEW n \in 0..Old
  PROVE  /\ Older(n) \in 0..Old
         /\ Older(n) <= n + 1
         /\ n < Old => Older(n) = n + 1
         /\ n = Old => Older(n) = Old
PROOF
  BY TimeAssumption DEF Older

LEMMA InitInv == Init => Inv
PROOF
  BY KidAssumption, NoneAssumption, TimeAssumption
  DEF Init, Inv, TypeOK, Labels, CacheBehind, DocBehind

LEMMA HandlerStep ==
  ASSUME Inv, NEW r \in Requests, Arrive(r) \/ Hit(r) \/ Unknown(r) \/ Done(r)
  PROVE  Inv'
PROOF
<1> USE DEF Inv
<1>1. UNCHANGED <<endpoint, cache, fetch>>
  BY DEF Arrive, Hit, Unknown, Done
<1>2. CacheBehind' /\ DocBehind'
  BY <1>1 DEF CacheBehind, DocBehind, Behind, endpoint, cache, fetch
<1>3. CASE Arrive(r)
  BY <1>1, <1>2, <1>3 DEF Arrive, TypeOK, Labels, endpoint, cache, fetch
<1>4. CASE Hit(r)
  <2>1. Lookup(keys, kid[r]) \in Kids \cup {NoKey}
    BY LookupFound DEF TypeOK
  <2> QED
    BY <1>1, <1>2, <1>4, <2>1 DEF Hit, Return, TypeOK, Labels, endpoint, cache, fetch
<1>5. CASE Unknown(r)
  BY <1>1, <1>2, <1>5 DEF Unknown, Return, TypeOK, Labels, endpoint, cache, fetch
<1>6. CASE Done(r)
  BY <1>1, <1>2, <1>6, KidAssumption DEF Done, Return, TypeOK, Labels, endpoint, cache, fetch
<1> QED
  BY <1>3, <1>4, <1>5, <1>6

LEMMA BeginStep ==
  ASSUME Inv, NEW r \in Requests, Refresh(r) \/ Refetch(r)
  PROVE  Inv'
PROOF
<1>1. PICK label \in {"refresh", "refetch"} : BeginFetch(r, label)
  BY DEF Refresh, Refetch
<1>2. lock = None /\ pc[r] = "waiting" /\ UNCHANGED <<endpoint, cache, kid>>
  BY DEF Refresh, Refetch
<1>3. TypeOK'
  BY <1>1, <1>2, NoneAssumption, TimeAssumption
  DEF Inv, TypeOK, Labels, BeginFetch, endpoint, cache
<1>4. CacheBehind' /\ DocBehind'
  BY <1>1, <1>2 DEF Inv, BeginFetch, CacheBehind, DocBehind, Behind, endpoint, cache
<1> QED
  BY <1>3, <1>4 DEF Inv

LEMMA ServeStep == ASSUME Inv, Serve PROVE Inv'
PROOF
<1>1. TypeOK'
  BY DEF Inv, TypeOK, Serve, endpoint, cache
<1>2. CacheBehind' /\ DocBehind'
  BY DEF Inv, TypeOK, Serve, endpoint, cache, CacheBehind, DocBehind, Behind
<1> QED
  BY <1>1, <1>2 DEF Inv

LEMMA FetchedStep == ASSUME Inv, NEW r \in Requests, Fetched(r) PROVE Inv'
PROOF
<1>1. Lookup(doc, kid[r]) \in Kids \cup {NoKey}
  BY LookupFound DEF Inv, TypeOK
<1>2. TypeOK'
  BY <1>1, NoneAssumption, TimeAssumption
  DEF Inv, TypeOK, Labels, Fetched, Return, EndFetch, endpoint
<1>3. CacheBehind'
  <2>1. keys' = doc /\ doc # {} /\ age' = 0 /\ UNCHANGED endpoint
    BY DEF Fetched
  <2>2. fetchAge <= 0 + FetchMax
    BY TimeAssumption DEF Inv, TypeOK
  <2> QED
    BY <2>1, <2>2, TimeAssumption
    DEF Inv, TypeOK, CacheBehind, DocBehind, Behind, endpoint
<1>4. DocBehind'
  BY DEF Fetched, EndFetch, DocBehind
<1> QED
  BY <1>2, <1>3, <1>4 DEF Inv

LEMMA FetchFailsStep == ASSUME Inv, NEW r \in Requests, FetchFails(r) PROVE Inv'
PROOF
<1>1. TypeOK'
  BY NoneAssumption, TimeAssumption DEF Inv, TypeOK, Labels, FetchFails, Return, EndFetch, endpoint, cache
<1>2. CacheBehind' /\ DocBehind'
  BY DEF Inv, FetchFails, EndFetch, CacheBehind, DocBehind, Behind, endpoint, cache
<1> QED
  BY <1>1, <1>2 DEF Inv

LEMMA RotateStep == ASSUME Inv, Rotate PROVE Inv'
PROOF
<1>1. PICK k \in Kids :
        /\ published' = IF k \in published THEN published \ {k} ELSE published \cup {k}
        /\ since' = [since EXCEPT ![k] = 0]
  BY DEF Rotate
<1>2. UNCHANGED <<cache, fetch, pc, kid, used>>
  BY DEF Rotate
<1>3. TypeOK'
  BY <1>1, <1>2, TimeAssumption DEF Inv, TypeOK, cache, fetch
<1>4. \A set, n : n \in Nat => \A j \in Kids : Behind(set, j, n) => Behind(set, j, n)'
  BY <1>1 DEF Inv, TypeOK, Behind
<1>5. CacheBehind' /\ DocBehind'
  <2>1. age + FetchMax \in Nat /\ fetchAge \in Nat
    BY TimeAssumption DEF Inv, TypeOK
  <2> QED
    BY <1>1, <1>2, <2>1 DEF Inv, TypeOK, CacheBehind, DocBehind, Behind, cache, fetch
<1> QED
  BY <1>3, <1>5 DEF Inv

LEMMA TickStep == ASSUME Inv, Tick PROVE Inv'
PROOF
<1>1. /\ age \in 0..Old
      /\ \A k \in Kids : since[k] \in 0..Old
      /\ UNCHANGED <<published, keys, lock, doc, pc, kid, used>>
      /\ age' = Older(age)
      /\ since' = [k \in Kids |-> Older(since[k])]
  BY DEF Inv, TypeOK, Tick
<1>2. TypeOK'
  <2>1. since' \in [Kids -> 0..Old] /\ age' \in 0..Old
    BY <1>1, OlderNat
  <2>2. fetchAge' \in 0..FetchMax
    BY TimeAssumption DEF Inv, TypeOK, Tick
  <2> QED
    BY <1>1, <2>1, <2>2 DEF Inv, TypeOK
<1>3. CacheBehind'
  <2> SUFFICES ASSUME keys # {}, NEW k \in Kids, since[k] <= age + FetchMax
               PROVE  Older(since[k]) <= Older(age) + FetchMax
    BY <1>1 DEF Inv, CacheBehind, Behind
  <2>1. CASE age = Old
    BY <2>1, <1>1, OlderNat, TimeAssumption
  <2>2. CASE age # Old
    <3>1. Older(age) = age + 1
      BY <2>2, <1>1, OlderNat, TimeAssumption
    <3>2. Older(since[k]) <= since[k] + 1
      BY <1>1, OlderNat
    <3>3. Older(since[k]) \in Nat
      BY <1>1, OlderNat
    <3> QED
      BY <1>1, <3>1, <3>2, <3>3, TimeAssumption
  <2> QED
    BY <2>1, <2>2
<1>4. DocBehind'
  <2>1. doc # {} => fetchAge' = fetchAge + 1
    BY DEF Inv, DocBehind, Tick
  <2>2. \A k \in Kids : Older(since[k]) \in Nat /\ Older(since[k]) <= since[k] + 1
    BY <1>1, OlderNat
  <2>3. fetchAge \in Nat
    BY DEF Inv, TypeOK
  <2> QED
    BY <1>1, <2>1, <2>2, <2>3 DEF Inv, DocBehind, Behind
<1> QED
  BY <1>2, <1>3, <1>4 DEF Inv

LEMMA StepInv == Inv /\ [Next]_vars => Inv'
PROOF
<1> SUFFICES ASSUME Inv, [Next]_vars PROVE Inv'
  OBVIOUS
<1>1. CASE UNCHANGED vars
  BY <1>1 DEF vars, Inv, TypeOK, CacheBehind, DocBehind, Behind
<1>2. CASE Next
  BY <1>2, HandlerStep, BeginStep, ServeStep, FetchedStep, FetchFailsStep, RotateStep,
     TickStep DEF Next, Enter, FetchEnds
<1> QED
  BY <1>1, <1>2

THEOREM AlwaysInv == Spec => []Inv
PROOF
  BY InitInv, StepInv, PTL DEF Spec

\* Types hold and a fetch in flight belongs to exactly the handler that holds the
\* mutex (key, fetchLocked).
THEOREM TypeCorrect == Spec => []TypeOK
PROOF
<1>1. Inv => TypeOK
  BY DEF Inv
<1> QED
  BY AlwaysInv, <1>1, PTL

\* The steps that end a verification, and what they looked up.
LEMMA Decision ==
  ASSUME Inv, Next, NEW r \in Requests, NEW label \in {"accepted", "unknown"},
         pc[r] # label, pc'[r] = label
  PROVE  \/ label = "accepted" /\ Hit(r)
         \/ label = "unknown" /\ Unknown(r)
         \/ Fetched(r) /\ (label = "accepted" <=> Lookup(doc, kid[r]) # NoKey)
PROOF
<1>1. PICK s \in Requests : pc' # pc => Arrive(s) \/ Enter(s) \/ FetchEnds(s) \/ Done(s)
  BY DEF Next, Serve, Rotate, Tick
<1>2. pc' # pc /\ r = s
  BY <1>1 DEF Inv, TypeOK, Arrive, Enter, Refresh, Hit, Refetch, Unknown, FetchEnds,
              Fetched, FetchFails, Done, Return, BeginFetch
<1> QED
  BY <1>1, <1>2 DEF Inv, TypeOK, Arrive, Enter, Refresh, Hit, Refetch, Unknown,
                    FetchEnds, Fetched, FetchFails, Done, Return, BeginFetch

LEMMA AcceptedStep ==
  ASSUME Inv, Next, NEW r \in Requests, pc[r] # "accepted", pc'[r] = "accepted"
  PROVE  used'[r] \in published \/ since[used'[r]] <= TTL + FetchMax
PROOF
<1>1. CASE Hit(r)
  <2>1. /\ used'[r] = Lookup(keys, kid[r])
        /\ used'[r] \in keys
        /\ keys # {} /\ age <= TTL
    BY <1>1, LookupFound, TimeAssumption DEF Inv, TypeOK, Hit, Return, Expired
  <2>2. used'[r] \in Kids /\ Behind(keys, used'[r], age + FetchMax)
    BY <2>1 DEF Inv, TypeOK, CacheBehind
  <2> QED
    BY <2>1, <2>2, TimeAssumption DEF Inv, TypeOK, Behind
<1>2. CASE Fetched(r) /\ Lookup(doc, kid[r]) # NoKey
  <2>1. used'[r] = Lookup(doc, kid[r]) /\ used'[r] \in doc
    BY <1>2, LookupFound DEF Inv, TypeOK, Fetched, Return
  <2>2. used'[r] \in Kids /\ Behind(doc, used'[r], fetchAge)
    BY <1>2, <2>1 DEF Inv, TypeOK, DocBehind
  <2> QED
    BY <2>1, <2>2, TimeAssumption DEF Inv, TypeOK, Behind
<1> QED
  BY <1>1, <1>2, Decision

LEMMA UnknownStep ==
  ASSUME Inv, Next, NEW r \in Requests, pc[r] # "unknown", pc'[r] = "unknown",
         kid[r] # NoKid
  PROVE  kid[r] \notin published \/ since[kid[r]] <= Minute + FetchMax
PROOF
<1>1. kid[r] \in Kids
  BY DEF Inv, TypeOK
<1>2. CASE Unknown(r)
  <2>1. kid[r] \notin keys /\ keys # {} /\ age <= Minute
    BY <1>1, <1>2, LookupFound DEF Inv, TypeOK, Unknown, Expired
  <2>2. Behind(keys, kid[r], age + FetchMax)
    BY <1>1, <2>1 DEF Inv, CacheBehind
  <2> QED
    BY <1>1, <2>1, <2>2, TimeAssumption DEF Inv, TypeOK, Behind
<1>3. CASE Fetched(r) /\ Lookup(doc, kid[r]) = NoKey
  <2>1. kid[r] \notin doc /\ doc # {}
    BY <1>1, <1>3, LookupFound DEF Inv, TypeOK, Fetched
  <2>2. Behind(doc, kid[r], fetchAge)
    BY <1>1, <2>1 DEF Inv, DocBehind
  <2> QED
    BY <1>1, <2>1, <2>2, TimeAssumption DEF Inv, TypeOK, Behind
<1> QED
  BY <1>2, <1>3, Decision

\* No token is verified with a key withdrawn more than TTL + FetchMax ago (key).
THEOREM WithdrawnKeysExpire == Spec => WithdrawnKeyExpires
PROOF
<1>1. Inv /\ [Next]_vars =>
        [\A r \in Requests : pc[r] # "accepted" /\ pc'[r] = "accepted" =>
           used'[r] \in published \/ since[used'[r]] <= TTL + FetchMax]_vars
  BY AcceptedStep
<1> QED
  BY AlwaysInv, <1>1, PTL DEF Spec, WithdrawnKeyExpires

\* No token is refused as unknown once its key has been published for more than
\* Minute + FetchMax (the early refetch of key).
THEOREM PublishedKeysFound == Spec => PublishedKeyFound
PROOF
<1>1. Inv /\ [Next]_vars =>
        [\A r \in Requests : pc[r] # "unknown" /\ pc'[r] = "unknown" /\ kid[r] # NoKid =>
           kid[r] \notin published \/ since[kid[r]] <= Minute + FetchMax]_vars
  BY UnknownStep
<1> QED
  BY AlwaysInv, <1>1, PTL DEF Spec, PublishedKeyFound
=============================================================================
