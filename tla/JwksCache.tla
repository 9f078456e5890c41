----------------------------- MODULE JwksCache -----------------------------
(***************************************************************************)
(* The signing-key cache of internal/server/jwks.go.  Handlers ask key(kid)*)
(* under the cache's mutex, which is held across a fetch of the endpoint;  *)
(* the endpoint rotates its keys whenever it likes.  A key stands for its  *)
(* kid.  Time is an age in ticks: how long ago the cached set was stored   *)
(* and how long ago each key was published or withdrawn; ages stop at Old, *)
(* beyond every threshold of the code.                                     *)
(***************************************************************************)
EXTENDS Naturals, FiniteSets

CONSTANTS
  Requests,  \* handlers verifying a token
  Kids,      \* keys the endpoint may publish
  NoKid,     \* a token without a kid header
  NoKey,     \* key() returned an error
  None,      \* no handler holds the mutex
  TTL,       \* rls.auth.jwks_cache_ttl, an hour by default
  Minute,    \* the early-refetch window of key()
  FetchMax,  \* the http.Client timeout of newJWKSCache
  Old        \* bound of every age

ASSUME KidAssumption == NoKid \notin Kids /\ NoKey \notin Kids
ASSUME NoneAssumption == None \notin Requests
ASSUME TimeAssumption ==
  /\ TTL \in Nat \ {0} /\ Minute \in Nat /\ FetchMax \in Nat /\ Old \in Nat
  /\ Old > TTL + FetchMax
  /\ Old > Minute + FetchMax

VARIABLES
  published, \* keys at the endpoint
  since,     \* per key, ticks since it was published or withdrawn
  keys,      \* the cached set, {} before the first successful fetch (nil)
  age,       \* ticks since fetched
  lock,      \* the handler that holds the mutex while it fetches
  doc,       \* usable keys the endpoint answered the fetch in flight, {} before
  fetchAge,  \* ticks since that fetch began
  pc,        \* where each handler is
  kid,       \* the kid of the token it is verifying
  used       \* the key it was given, NoKey for an error

vars == <<published, since, keys, age, lock, doc, fetchAge, pc, kid, used>>
cache == <<keys, age>>
fetch == <<lock, doc, fetchAge>>
endpoint == <<published, since>>
------------------------------------------------------------------------------
\* lookupLocked: no kid is fine when the set holds exactly one key.
Lookup(set, id) ==
  IF id # NoKid
    THEN IF id \in set THEN id ELSE NoKey
    ELSE IF \E k \in set : set = {k} THEN CHOOSE k \in set : TRUE ELSE NoKey

\* The cached set is absent or older than its time to live.
Expired == keys = {} \/ age > TTL

Return(r, label, k) ==
  /\ pc' = [pc EXCEPT ![r] = label]
  /\ used' = [used EXCEPT ![r] = k]
  /\ kid' = [kid EXCEPT ![r] = NoKid]

\* The handler of r keeps the mutex and starts fetchLocked.
BeginFetch(r, label) ==
  /\ lock' = r
  /\ fetchAge' = 0
  /\ doc' = {}
  /\ pc' = [pc EXCEPT ![r] = label]
  /\ UNCHANGED used

EndFetch ==
  /\ lock' = None
  /\ doc' = {}
  /\ fetchAge' = 0
------------------------------------------------------------------------------
Init ==
  /\ published \in SUBSET Kids
  /\ since = [k \in Kids |-> Old]
  /\ keys = {}
  /\ age = Old
  /\ lock = None
  /\ doc = {}
  /\ fetchAge = 0
  /\ pc = [r \in Requests |-> "idle"]
  /\ kid = [r \in Requests |-> NoKid]
  /\ used = [r \in Requests |-> NoKey]

\* A token arrives and its handler waits for the mutex.
Arrive(r) ==
  /\ pc[r] = "idle"
  /\ \E id \in Kids \cup {NoKid} : kid' = [kid EXCEPT ![r] = id]
  /\ pc' = [pc EXCEPT ![r] = "waiting"]
  /\ UNCHANGED <<endpoint, cache, fetch, used>>

\* key: the set expired, fetch it.
Refresh(r) ==
  /\ pc[r] = "waiting"
  /\ lock = None
  /\ Expired
  /\ BeginFetch(r, "refresh")
  /\ UNCHANGED <<endpoint, cache, kid>>

\* key: the cached set has the key.
Hit(r) ==
  /\ pc[r] = "waiting"
  /\ lock = None
  /\ ~ Expired
  /\ Lookup(keys, kid[r]) # NoKey
  /\ Return(r, "accepted", Lookup(keys, kid[r]))
  /\ UNCHANGED <<endpoint, cache, fetch>>

\* key: an unknown kid, and the set is more than a minute old: fetch it early.
Refetch(r) ==
  /\ pc[r] = "waiting"
  /\ lock = None
  /\ ~ Expired
  /\ Lookup(keys, kid[r]) = NoKey
  /\ age > Minute
  /\ BeginFetch(r, "refetch")
  /\ UNCHANGED <<endpoint, cache, kid>>

\* MUTANT of Unknown: an unknown kid is reported without looking at the age.
UnknownAtOnce(r) ==
  /\ pc[r] = "waiting"
  /\ lock = None
  /\ ~ Expired
  /\ Lookup(keys, kid[r]) = NoKey
  /\ Return(r, "unknown", NoKey)
  /\ UNCHANGED <<endpoint, cache, fetch>>

\* key: an unknown kid, and the set was fetched within the last minute.
Unknown(r) ==
  /\ pc[r] = "waiting"
  /\ lock = None
  /\ ~ Expired
  /\ Lookup(keys, kid[r]) = NoKey
  /\ age <= Minute
  /\ Return(r, "unknown", NoKey)
  /\ UNCHANGED <<endpoint, cache, fetch>>

\* The endpoint answers the fetch in flight with the keys it has now.
Serve ==
  /\ lock # None
  /\ doc = {}
  /\ published # {}
  /\ doc' = published
  /\ UNCHANGED <<endpoint, cache, lock, fetchAge, pc, kid, used>>

\* fetchLocked succeeds: the set is replaced and the kid looked up again.
Fetched(r) ==
  /\ lock = r
  /\ doc # {}
  /\ keys' = doc
  /\ age' = 0
  /\ Return(r, IF Lookup(doc, kid[r]) = NoKey THEN "unknown" ELSE "accepted",
            Lookup(doc, kid[r]))
  /\ EndFetch
  /\ UNCHANGED <<endpoint>>

\* MUTANT of FetchFails: the mutex is not released on the error path.
FetchFailsLocked(r) ==
  /\ lock = r
  /\ Return(r, "failed", NoKey)
  /\ UNCHANGED <<endpoint, cache, fetch>>

\* MUTANT of FetchFails: the old set is kept in use while the endpoint is down.
FetchFailsServingStale(r) ==
  /\ lock = r
  /\ age' = 0
  /\ Return(r, "failed", NoKey)
  /\ EndFetch
  /\ UNCHANGED <<endpoint, keys>>

\* fetchLocked fails at any point: no connection, a bad status or document, no
\* usable key, the client's timeout.  Neither keys nor fetched change.
FetchFails(r) ==
  /\ lock = r
  /\ Return(r, "failed", NoKey)
  /\ EndFetch
  /\ UNCHANGED <<endpoint, cache>>

\* The verification is over and the handler takes another token.
Done(r) ==
  /\ pc[r] \in {"accepted", "unknown", "failed"}
  /\ Return(r, "idle", NoKey)
  /\ UNCHANGED <<endpoint, cache, fetch>>

\* The endpoint publishes or withdraws a key.
Rotate ==
  /\ \E k \in Kids :
       /\ published' = IF k \in published THEN published \ {k} ELSE published \cup {k}
       /\ since' = [since EXCEPT ![k] = 0]
  /\ UNCHANGED <<cache, fetch, pc, kid, used>>

Older(n) == IF n < Old THEN n + 1 ELSE Old

\* A tick passes; no fetch outlives the client's timeout.
Tick ==
  /\ lock # None => fetchAge < FetchMax
  /\ fetchAge' = IF lock # None THEN fetchAge + 1 ELSE fetchAge
  /\ age' = Older(age)
  /\ since' = [k \in Kids |-> Older(since[k])]
  /\ UNCHANGED <<published, keys, lock, doc, pc, kid, used>>

\* key() gets the mutex.
Enter(r) == Refresh(r) \/ Hit(r) \/ Refetch(r) \/ Unknown(r)
FetchEnds(r) == Fetched(r) \/ FetchFails(r)

Next ==
  \/ \E r \in Requests : Arrive(r) \/ Enter(r) \/ FetchEnds(r) \/ Done(r)
  \/ Serve \/ Rotate \/ Tick

\* sync.Mutex starves no waiter, and the client's timeout ends every fetch.
Fairness == \A r \in Requests : SF_vars(Enter(r)) /\ WF_vars(FetchEnds(r))

Spec == Init /\ [][Next]_vars
FairSpec == Spec /\ Fairness
------------------------------------------------------------------------------
Labels == {"idle", "waiting", "refresh", "refetch", "accepted", "unknown", "failed"}

\* Every variable has its type, a fetch belongs to exactly the handler that
\* holds the mutex (key), and it never outlives the client's timeout.
TypeOK ==
  /\ published \subseteq Kids
  /\ since \in [Kids -> 0..Old]
  /\ keys \subseteq Kids
  /\ age \in 0..Old
  /\ lock \in Requests \cup {None}
  /\ doc \subseteq Kids
  /\ fetchAge \in 0..FetchMax
  /\ pc \in [Requests -> Labels]
  /\ kid \in [Requests -> Kids \cup {NoKid}]
  /\ used \in [Requests -> Kids \cup {NoKey}]
  /\ \A r \in Requests : pc[r] \in {"refresh", "refetch"} <=> lock = r

\* A withdrawn key stops being accepted: whatever the interleaving of fetches,
\* failures and rotations, a token is never verified with a key the endpoint
\* withdrew more than TTL + FetchMax ago (the ttl check of key).
WithdrawnKeyExpires ==
  [][\A r \in Requests : pc[r] # "accepted" /\ pc'[r] = "accepted" =>
       used'[r] \in published \/ since[used'[r]] <= TTL + FetchMax]_vars

\* Key rotation just works: a token is never refused as unknown when its key has
\* been published for more than Minute + FetchMax (the early refetch of key).
PublishedKeyFound ==
  [][\A r \in Requests : pc[r] # "unknown" /\ pc'[r] = "unknown" /\ kid[r] # NoKid =>
       kid[r] \notin published \/ since[kid[r]] <= Minute + FetchMax]_vars

\* Every verification ends, however many handlers wait for the mutex and however
\* often fetches fail (the deferred Unlock of key).
EveryTokenDecided ==
  \A r \in Requests : pc[r] = "waiting" ~> pc[r] \in {"accepted", "unknown", "failed"}
=============================================================================
