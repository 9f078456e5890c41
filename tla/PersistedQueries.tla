-------------------------- MODULE PersistedQueries --------------------------
(***************************************************************************)
(* The persisted-query store of internal/server/apq.go and the protocol    *)
(* around it.  A client names a document by its hash; on a miss the server *)
(* answers PersistedQueryNotFound and the client sends hash and document   *)
(* together, which registers it.  Handlers run concurrently; get and put   *)
(* each hold the mutex of the store, the rest of a handler does not.       *)
(* Documents stand for their text, and the document with hash h is DocOf[h]*)
(* (SHA-256 does not collide).                                             *)
(***************************************************************************)
EXTENDS Naturals, Sequences, FiniteSets

CONSTANTS
  Clients,
  Hashes,        \* one per document
  Docs, NoDoc,
  DocOf,         \* [Hashes -> Docs], the inverse of hashQuery
  Static,        \* hashes preloaded from persisted_queries_path
  CacheSize,     \* apqCacheSize
  NoHash,        \* a request without a persistedQuery extension
  BadHash        \* an extension with an unsupported version or an empty hash

ASSUME StoreAssumption ==
  /\ CacheSize \in Nat \ {0}
  /\ Static \subseteq Hashes
  /\ NoDoc \notin Docs
  /\ NoHash \notin Hashes
  /\ BadHash \notin Hashes
  /\ DocOf \in [Hashes -> Docs]
  /\ \A g, h \in Hashes : DocOf[g] = DocOf[h] => g = h

VARIABLES
  flags,  \* the options of the server that are on: "apq", "persisted_only"
  apq,    \* registered documents by hash; NoDoc where there is none
  order,  \* their hashes, oldest first
  pc,     \* where each client and the handler of its request are
  hash,   \* the hash its request carries
  query   \* the request's query text, NoDoc when it is empty

vars == <<flags, apq, order, pc, hash, query>>
------------------------------------------------------------------------------
\* newPQStore checks every entry of the file against its hash.
StaticDoc(h) == IF h \in Static THEN DocOf[h] ELSE NoDoc

\* pqStore.get: the static map first, then the registered documents.
Get(h) == IF h \in Static THEN StaticDoc(h) ELSE apq[h]

\* MUTANT of Put: a document that is already registered is appended again.
PutAgain(h, q) ==
  IF h \in Static
    THEN UNCHANGED <<apq, order>>
    ELSE IF Len(order) >= CacheSize
      THEN /\ apq' = [apq EXCEPT ![Head(order)] = NoDoc, ![h] = q]
           /\ order' = Append(Tail(order), h)
      ELSE /\ apq' = [apq EXCEPT ![h] = q]
           /\ order' = Append(order, h)

\* pqStore.put: nothing for a known hash, else evict the oldest when full.
Put(h, q) ==
  IF h \in Static \/ apq[h] # NoDoc
    THEN UNCHANGED <<apq, order>>
    ELSE IF Len(order) >= CacheSize
      THEN /\ apq' = [apq EXCEPT ![Head(order)] = NoDoc, ![h] = q]
           /\ order' = Append(Tail(order), h)
      ELSE /\ apq' = [apq EXCEPT ![h] = q]
           /\ order' = Append(order, h)

Goto(c, label) == pc' = [pc EXCEPT ![c] = label]
Send(c, h, q) ==
  /\ hash' = [hash EXCEPT ![c] = h]
  /\ query' = [query EXCEPT ![c] = q]
  /\ Goto(c, "received")
------------------------------------------------------------------------------
\* The store exists when server.apq or server.persisted_queries_path is set, and
\* persisted_only needs one of them.
Init ==
  /\ flags \in SUBSET {"apq", "persisted_only"}
  /\ apq = [h \in Hashes |-> NoDoc]
  /\ order = << >>
  /\ pc = [c \in Clients |-> "idle"]
  /\ hash = [c \in Clients |-> NoHash]
  /\ query = [c \in Clients |-> NoDoc]

\* A client of the protocol asks by hash alone, for any document it likes.
Ask(c) ==
  /\ pc[c] = "idle"
  /\ \E h \in Hashes : Send(c, h, NoDoc)
  /\ UNCHANGED <<apq, order>>

\* After PersistedQueryNotFound it sends hash and document.
SendFull(c) ==
  /\ pc[c] = "not_found"
  /\ Send(c, hash[c], DocOf[hash[c]])
  /\ UNCHANGED <<apq, order>>

\* Requests outside the protocol: no usable extension, with or without a
\* document, or a document that does not match the hash sent with it.
SendOther(c) ==
  /\ pc[c] = "idle"
  /\ \/ \E h \in {NoHash, BadHash}, q \in Docs \cup {NoDoc} : Send(c, h, q)
     \/ \E g, h \in Hashes : g # h /\ Send(c, h, DocOf[g])
  /\ UNCHANGED <<apq, order>>

\* resolvePersisted without a usable extension, then the missing-query check of
\* handleGraphQL.
NoExtension(c) ==
  /\ pc[c] = "received"
  /\ hash[c] \in {NoHash, BadHash}
  /\ Goto(c, IF "persisted_only" \in flags \/ hash[c] = BadHash \/ query[c] = NoDoc
               THEN "rejected" ELSE "authenticate")
  /\ UNCHANGED <<apq, order, hash, query>>

\* resolvePersisted with a hash only.
Lookup(c) ==
  /\ pc[c] = "received"
  /\ hash[c] \in Hashes
  /\ query[c] = NoDoc
  /\ IF Get(hash[c]) = NoDoc
       THEN Goto(c, "not_found") /\ UNCHANGED query
       ELSE /\ query' = [query EXCEPT ![c] = Get(hash[c])]
            /\ Goto(c, "authenticate")
  /\ UNCHANGED <<apq, order, hash>>

\* MUTANT of Register: the document is registered without comparing its hash.
RegisterUnchecked(c) ==
  /\ pc[c] = "received"
  /\ hash[c] \in Hashes
  /\ query[c] # NoDoc
  /\ "apq" \in flags
  /\ Put(hash[c], query[c])
  /\ Goto(c, "authenticate")
  /\ UNCHANGED <<hash, query>>

\* MUTANT of Register: it only registers; the client has to ask by hash again.
RegisterAndAskAgain(c) ==
  /\ pc[c] = "received"
  /\ hash[c] \in Hashes
  /\ query[c] = DocOf[hash[c]]
  /\ "apq" \in flags
  /\ Put(hash[c], query[c])
  /\ query' = [query EXCEPT ![c] = NoDoc]
  /\ UNCHANGED <<pc, hash>>

\* MUTANT of Register: registration does not look at server.apq.
RegisterAlways(c) ==
  /\ pc[c] = "received"
  /\ hash[c] \in Hashes
  /\ query[c] = DocOf[hash[c]]
  /\ Put(hash[c], query[c])
  /\ Goto(c, "authenticate")
  /\ UNCHANGED <<hash, query>>

\* resolvePersisted with hash and document: they match and APQ is on.
Register(c) ==
  /\ pc[c] = "received"
  /\ hash[c] \in Hashes
  /\ query[c] = DocOf[hash[c]]
  /\ "apq" \in flags
  /\ Put(hash[c], query[c])
  /\ Goto(c, "authenticate")
  /\ UNCHANGED <<hash, query>>

\* ... they do not match, or registration is disabled.
RejectRegistration(c) ==
  /\ pc[c] = "received"
  /\ hash[c] \in Hashes
  /\ query[c] # NoDoc
  /\ query[c] # DocOf[hash[c]] \/ "apq" \notin flags
  /\ Goto(c, "rejected")
  /\ UNCHANGED <<apq, order, hash, query>>

\* handleGraphQL goes on with the query: 401, or it is executed.
Authenticate(c) ==
  /\ pc[c] = "authenticate"
  /\ \/ Goto(c, "executed")
     \/ Goto(c, "rejected")
  /\ UNCHANGED <<apq, order, hash, query>>

\* The client has its response and may send the next request.
Done(c) ==
  /\ pc[c] \in {"executed", "rejected"}
  /\ Goto(c, "idle")
  /\ hash' = [hash EXCEPT ![c] = NoHash]
  /\ query' = [query EXCEPT ![c] = NoDoc]
  /\ UNCHANGED <<apq, order>>

Handler(c) ==
  NoExtension(c) \/ Lookup(c) \/ Register(c) \/ RejectRegistration(c) \/ Authenticate(c)

Next ==
  /\ \E c \in Clients : Ask(c) \/ SendFull(c) \/ SendOther(c) \/ Handler(c) \/ Done(c)
  /\ UNCHANGED flags

\* Handlers finish, and a client told PersistedQueryNotFound follows the protocol.
Fairness == \A c \in Clients : WF_vars((Handler(c) \/ SendFull(c)) /\ UNCHANGED flags)

Spec == Init /\ [][Next]_vars
FairSpec == Spec /\ Fairness
------------------------------------------------------------------------------
Labels == {"idle", "received", "not_found", "authenticate", "executed", "rejected"}

\* Every variable has its type, and at most CacheSize documents are registered.
TypeOK ==
  /\ flags \subseteq {"apq", "persisted_only"}
  /\ apq \in [Hashes -> Docs \cup {NoDoc}]
  /\ order \in Seq(Hashes) /\ Len(order) <= CacheSize
  /\ pc \in [Clients -> Labels]
  /\ hash \in [Clients -> Hashes \cup {NoHash, BadHash}]
  /\ query \in [Clients -> Docs \cup {NoDoc}]

\* The map and the eviction list agree, so every registered document can be
\* evicted and no eviction is lost on an unregistered hash: each registered hash
\* is listed exactly once, none of them is static, and however clients evict each
\* other there are never more than the bound (pqStore.put).
StoreConsistent ==
  /\ Len(order) <= CacheSize
  /\ \A h \in Hashes : apq[h] # NoDoc <=> \E i \in 1..Len(order) : order[i] = h
  /\ \A i, j \in 1..Len(order) : order[i] = order[j] => i = j
  /\ \A i \in 1..Len(order) : order[i] \notin Static

\* Whoever registered it and whatever was evicted since, a request that names a
\* document by its hash runs that document and no other (resolvePersisted).
RunsWhatItNames ==
  \A c \in Clients : pc[c] \in {"authenticate", "executed"} /\ hash[c] \in Hashes =>
    query[c] = DocOf[hash[c]]

\* With persisted_only and without apq nothing but the documents of the file runs.
StrictAllowlist ==
  "persisted_only" \in flags /\ "apq" \notin flags =>
    \A c \in Clients : pc[c] \in {"authenticate", "executed"} =>
      \E h \in Static : query[c] = DocOf[h]

\* A client that follows the protocol is not sent back and forth forever by the
\* evictions other clients cause: its request is executed or refused.
AskedIsAnswered ==
  \A c \in Clients : pc[c] = "received" ~> pc[c] \in {"executed", "rejected"}
=============================================================================
