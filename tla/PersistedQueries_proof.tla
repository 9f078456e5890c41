----------------------- MODULE PersistedQueries_proof -----------------------
(***************************************************************************)
(* Proofs about PersistedQueries, for any clients, documents and cache     *)
(* size.  The inductive invariant adds to StoreConsistent what the store   *)
(* holds: a registered document is the one its hash names, and without     *)
(* server.apq there is none.                                               *)
(***************************************************************************)
EXTENDS PersistedQueries, TLAPS

Registered(h) == \E i \in 1..Len(order) : order[i] = h

\* The parts of StoreConsistent, and what the store holds.
Listed == \A h \in Hashes : apq[h] # NoDoc <=> Registered(h)
Once == \A i, j \in 1..Len(order) : order[i] = order[j] => i = j
NotStatic == \A i \in 1..Len(order) : order[i] \notin Static
HoldsNamed == \A h \in Hashes : apq[h] \in {DocOf[h], NoDoc}

StoreInv == TypeOK /\ Listed /\ Once /\ NotStatic /\ HoldsNamed

\* A client told PersistedQueryNotFound named a document.
MissNamed == \A c \in Clients : pc[c] = "not_found" => hash[c] \in Hashes

\* Without server.apq nothing is ever registered.
NothingRegistered == "apq" \notin flags => \A h \in Hashes : apq[h] = NoDoc

Inv == StoreInv /\ MissNamed /\ RunsWhatItNames /\ NothingRegistered /\ StrictAllowlist

\* What put does to a well-formed store, for a document and its hash.
LEMMA PutStore ==
  ASSUME StoreInv, NEW h \in Hashes, Put(h, DocOf[h])
  PROVE  /\ apq' \in [Hashes -> Docs \cup {NoDoc}]
         /\ order' \in Seq(Hashes)
         /\ Len(order') <= CacheSize
         /\ Listed' /\ Once' /\ NotStatic' /\ HoldsNamed'
PROOF
<1> USE DEF StoreInv, TypeOK
<1>1. CASE h \in Static \/ apq[h] # NoDoc
  BY <1>1 DEF Put, Listed, Once, NotStatic, HoldsNamed, Registered
<1>2. CASE h \notin Static /\ apq[h] = NoDoc /\ Len(order) >= CacheSize
  <2>1. /\ apq' = [apq EXCEPT ![Head(order)] = NoDoc, ![h] = DocOf[h]]
        /\ order' = Append(Tail(order), h)
    BY <1>2 DEF Put
  <2>2. Len(order) = CacheSize /\ Len(order) \in Nat \ {0}
    BY <1>2, StoreAssumption
  <2>3. /\ order' \in Seq(Hashes)
        /\ Len(order') = Len(order)
        /\ order'[Len(order)] = h
        /\ \A i \in 1..(Len(order) - 1) : order'[i] = order[i + 1]
    BY <2>1, <2>2
  <2>4. \A i \in 1..Len(order) : order[i] # h /\ order[i] \in Hashes
    BY <1>2 DEF Listed, Registered
  <2>5. Head(order) = order[1] /\ order[1] \in Hashes
    BY <2>2
  <2>6. /\ apq' \in [Hashes -> Docs \cup {NoDoc}]
        /\ apq'[h] = DocOf[h]
    BY <2>1, StoreAssumption
  <2>a. DocOf[h] # NoDoc
    BY StoreAssumption
  <2>7. Once'
    <3> SUFFICES ASSUME NEW i \in 1..Len(order'), NEW j \in 1..Len(order'),
                        order'[i] = order'[j]
                 PROVE  i = j
      BY DEF Once
    <3>1. CASE i = Len(order) \/ j = Len(order)
      <4>1. \A k \in 1..(Len(order) - 1) : order'[k] # h
        BY <2>2, <2>3, <2>4
      <4> QED
        BY <3>1, <4>1, <2>2, <2>3
    <3>2. CASE i # Len(order) /\ j # Len(order)
      <4>1. i \in 1..(Len(order) - 1) /\ j \in 1..(Len(order) - 1)
        BY <3>2, <2>2, <2>3
      <4>2. /\ i + 1 \in 1..Len(order) /\ j + 1 \in 1..Len(order)
            /\ order[i + 1] = order[j + 1]
        BY <4>1, <2>2, <2>3
      <4> QED
        BY <4>1, <4>2 DEF Once
    <3> QED
      BY <3>1, <3>2
  <2>8. NotStatic'
    BY <1>2, <2>2, <2>3 DEF NotStatic
  <2>9. HoldsNamed'
    BY <2>1, <2>5 DEF HoldsNamed
  <2>10. Listed'
    <3> SUFFICES ASSUME NEW g \in Hashes
                 PROVE  apq'[g] # NoDoc <=> \E i \in 1..Len(order') : order'[i] = g
      BY DEF Listed, Registered
    <3>1. CASE g = h
      <4>1. apq'[g] = DocOf[h] /\ DocOf[h] # NoDoc
        BY <3>1, <2>6, <2>a
      <4>2. Len(order) \in 1..Len(order') /\ order'[Len(order)] = g
        BY <3>1, <2>2, <2>3
      <4> QED
        BY <4>1, <4>2
    <3>2. CASE g # h /\ g = order[1]
      BY <3>2, <2>1, <2>2, <2>3, <2>5 DEF Once
    <3>3. CASE g # h /\ g # order[1]
      <4>1. apq'[g] = apq[g]
        BY <3>3, <2>1, <2>5
      <4>2. (\E i \in 1..Len(order') : order'[i] = g) <=> Registered(g)
        <5>1. ASSUME NEW i \in 1..Len(order'), order'[i] = g
              PROVE  Registered(g)
          <6>1. i \in 1..(Len(order) - 1)
            BY <5>1, <3>3, <2>2, <2>3
          <6>2. order[i + 1] = g /\ i + 1 \in 1..Len(order)
            BY <5>1, <6>1, <2>2, <2>3
          <6> QED
            BY <6>2 DEF Registered
        <5>2. ASSUME NEW i \in 1..Len(order), order[i] = g
              PROVE  \E j \in 1..Len(order') : order'[j] = g
          <6>1. i - 1 \in 1..(Len(order) - 1) /\ (i - 1) + 1 = i
            BY <5>2, <3>3, <2>2
          <6>2. order'[i - 1] = g /\ i - 1 \in 1..Len(order')
            BY <5>2, <6>1, <2>2, <2>3
          <6> QED
            BY <6>2
        <5> QED
          BY <5>1, <5>2 DEF Registered
      <4> QED
        BY <4>1, <4>2 DEF Listed
    <3> QED
      BY <3>1, <3>2, <3>3
  <2> QED
    BY <1>2, <2>2, <2>3, <2>6, <2>7, <2>8, <2>9, <2>10
<1>3. CASE h \notin Static /\ apq[h] = NoDoc /\ ~ (Len(order) >= CacheSize)
  <2>1. /\ apq' = [apq EXCEPT ![h] = DocOf[h]]
        /\ order' = Append(order, h)
    BY <1>3 DEF Put
  <2>2. Len(order) < CacheSize /\ Len(order) \in Nat
    BY <1>3, StoreAssumption
  <2>3. /\ order' \in Seq(Hashes)
        /\ Len(order') = Len(order) + 1
        /\ order'[Len(order) + 1] = h
        /\ \A i \in 1..Len(order) : order'[i] = order[i]
    BY <2>1, <2>2
  <2>4. \A i \in 1..Len(order) : order[i] # h
    BY <1>3 DEF Listed, Registered
  <2>6. /\ apq' \in [Hashes -> Docs \cup {NoDoc}]
        /\ apq'[h] = DocOf[h]
    BY <2>1, StoreAssumption
  <2>a. DocOf[h] # NoDoc
    BY StoreAssumption
  <2>7. Once'
    <3> SUFFICES ASSUME NEW i \in 1..Len(order'), NEW j \in 1..Len(order'),
                        order'[i] = order'[j]
                 PROVE  i = j
      BY DEF Once
    <3>1. CASE i = Len(order) + 1 \/ j = Len(order) + 1
      BY <3>1, <2>2, <2>3, <2>4
    <3>2. CASE i \in 1..Len(order) /\ j \in 1..Len(order)
      BY <3>2, <2>3 DEF Once
    <3> QED
      BY <3>1, <3>2, <2>2, <2>3
  <2>8. NotStatic'
    BY <1>3, <2>2, <2>3 DEF NotStatic
  <2>9. HoldsNamed'
    BY <2>1 DEF HoldsNamed
  <2>10. Listed'
    <3> SUFFICES ASSUME NEW g \in Hashes
                 PROVE  apq'[g] # NoDoc <=> \E i \in 1..Len(order') : order'[i] = g
      BY DEF Listed, Registered
    <3>1. CASE g = h
      <4>1. apq'[g] = DocOf[h] /\ DocOf[h] # NoDoc
        BY <3>1, <2>6, <2>a
      <4>2. Len(order) + 1 \in 1..Len(order') /\ order'[Len(order) + 1] = g
        BY <3>1, <2>2, <2>3
      <4> QED
        BY <4>1, <4>2
    <3>2. CASE g # h
      <4>1. apq'[g] = apq[g]
        BY <3>2, <2>1
      <4>2. \A i \in 1..Len(order') : order'[i] = g => i \in 1..Len(order)
        BY <3>2, <2>2, <2>3
      <4>3. (\E i \in 1..Len(order') : order'[i] = g) <=> Registered(g)
        BY <4>2, <2>2, <2>3 DEF Registered
      <4> QED
        BY <4>1, <4>3 DEF Listed
    <3> QED
      BY <3>1, <3>2
  <2>11. Len(order') <= CacheSize
    BY <2>2, <2>3, StoreAssumption
  <2> QED
    BY <2>3, <2>6, <2>7, <2>8, <2>9, <2>10, <2>11
<1> QED
  BY <1>1, <1>2, <1>3

LEMMA InitInv == Init => Inv
PROOF
  BY StoreAssumption
  DEF Init, Inv, StoreInv, TypeOK, Listed, Registered, Once, NotStatic, HoldsNamed,
      MissNamed, RunsWhatItNames, NothingRegistered, StrictAllowlist, Labels

\* A step that leaves the store alone keeps everything but the handlers' part.
LEMMA SameStore ==
  ASSUME StoreInv, UNCHANGED <<apq, order>>
  PROVE  Listed' /\ Once' /\ NotStatic' /\ HoldsNamed'
PROOF
  BY DEF StoreInv, Listed, Registered, Once, NotStatic, HoldsNamed

\* What a hash finds is the document it names.
LEMMA GetNamed ==
  ASSUME StoreInv, NEW h \in Hashes, Get(h) # NoDoc
  PROVE  Get(h) = DocOf[h]
PROOF
  BY DEF StoreInv, HoldsNamed, Get, StaticDoc

LEMMA ClientStep ==
  ASSUME Inv, NEW c \in Clients, Ask(c) \/ SendFull(c) \/ SendOther(c) \/ Done(c),
         UNCHANGED flags
  PROVE  Inv'
PROOF
<1> USE StoreAssumption DEF Inv, MissNamed, RunsWhatItNames, NothingRegistered, StrictAllowlist
<1>1. UNCHANGED <<apq, order>>
  BY DEF Ask, SendFull, SendOther, Done
<1>2. Listed' /\ Once' /\ NotStatic' /\ HoldsNamed'
  BY <1>1, SameStore
<1>3. CASE Ask(c)
  BY <1>2, <1>3 DEF StoreInv, TypeOK, Labels, Ask, Send, Goto
<1>4. CASE SendFull(c)
  BY <1>2, <1>4 DEF StoreInv, TypeOK, Labels, SendFull, Send, Goto
<1>5. CASE SendOther(c)
  <2>1. PICK h \in Hashes \cup {NoHash, BadHash}, q \in Docs \cup {NoDoc} : Send(c, h, q)
    BY <1>5 DEF SendOther
  <2>2. pc' = [pc EXCEPT ![c] = "received"]
    BY <2>1 DEF Send, Goto
  <2> QED
    BY <1>1, <1>2, <2>1, <2>2 DEF StoreInv, TypeOK, Labels, Send
<1>6. CASE Done(c)
  BY <1>2, <1>6 DEF StoreInv, TypeOK, Labels, Done, Goto
<1> QED
  BY <1>3, <1>4, <1>5, <1>6

LEMMA HandlerStep ==
  ASSUME Inv, NEW c \in Clients, Handler(c), UNCHANGED flags
  PROVE  Inv'
PROOF
<1> USE StoreAssumption DEF Inv, MissNamed, RunsWhatItNames, NothingRegistered, StrictAllowlist
<1>1. CASE NoExtension(c)
  <2>1. Listed' /\ Once' /\ NotStatic' /\ HoldsNamed'
    BY <1>1, SameStore DEF NoExtension
  <2> QED
    BY <1>1, <2>1 DEF StoreInv, TypeOK, Labels, NoExtension, Goto
<1>2. CASE Lookup(c)
  <2>1. Listed' /\ Once' /\ NotStatic' /\ HoldsNamed'
    BY <1>2, SameStore DEF Lookup
  <2>2. CASE Get(hash[c]) = NoDoc
    BY <1>2, <2>1, <2>2 DEF StoreInv, TypeOK, Labels, Lookup, Goto
  <2>3. CASE Get(hash[c]) # NoDoc
    <3>1. Get(hash[c]) = DocOf[hash[c]] /\ hash[c] \in Hashes
      BY <1>2, <2>3, GetNamed DEF Lookup
    <3>2. "apq" \notin flags => hash[c] \in Static
      BY <2>3, <3>1 DEF Get
    <3> QED
      BY <1>2, <2>1, <2>3, <3>1, <3>2 DEF StoreInv, TypeOK, Labels, Lookup, Goto
  <2> QED
    BY <2>2, <2>3
<1>3. CASE Register(c)
  <2>1. hash[c] \in Hashes /\ Put(hash[c], DocOf[hash[c]])
    BY <1>3 DEF Register
  <2>2. /\ apq' \in [Hashes -> Docs \cup {NoDoc}]
        /\ order' \in Seq(Hashes)
        /\ Len(order') <= CacheSize
        /\ Listed' /\ Once' /\ NotStatic' /\ HoldsNamed'
    BY <2>1, PutStore
  <2> QED
    BY <1>3, <2>2 DEF StoreInv, TypeOK, Labels, Register, Goto
<1>4. CASE RejectRegistration(c)
  <2>1. Listed' /\ Once' /\ NotStatic' /\ HoldsNamed'
    BY <1>4, SameStore DEF RejectRegistration
  <2> QED
    BY <1>4, <2>1 DEF StoreInv, TypeOK, Labels, RejectRegistration, Goto
<1>5. CASE Authenticate(c)
  <2>1. Listed' /\ Once' /\ NotStatic' /\ HoldsNamed'
    BY <1>5, SameStore DEF Authenticate
  <2> QED
    BY <1>5, <2>1 DEF StoreInv, TypeOK, Labels, Authenticate, Goto
<1> QED
  BY <1>1, <1>2, <1>3, <1>4, <1>5 DEF Handler

LEMMA StepInv == Inv /\ [Next]_vars => Inv'
PROOF
<1> SUFFICES ASSUME Inv, [Next]_vars PROVE Inv'
  OBVIOUS
<1>1. CASE UNCHANGED vars
  BY <1>1 DEF vars, Inv, StoreInv, TypeOK, Listed, Registered, Once, NotStatic,
              HoldsNamed, MissNamed, RunsWhatItNames, NothingRegistered, StrictAllowlist
<1>2. CASE Next
  BY <1>2, ClientStep, HandlerStep DEF Next
<1> QED
  BY <1>1, <1>2

THEOREM AlwaysInv == Spec => []Inv
PROOF
  BY InitInv, StepInv, PTL DEF Spec

\* Types hold, and the registered documents never exceed the bound, whatever the
\* clients send (pqStore.put).
THEOREM StoreBounded == Spec => []TypeOK
PROOF
<1>1. Inv => TypeOK
  BY DEF Inv, StoreInv
<1> QED
  BY AlwaysInv, <1>1, PTL

\* The map and the eviction list of the store always agree (pqStore.put).
THEOREM StoreAgrees == Spec => []StoreConsistent
PROOF
<1>1. Inv => StoreConsistent
  BY DEF Inv, StoreInv, Listed, Registered, Once, NotStatic, TypeOK, StoreConsistent
<1> QED
  BY AlwaysInv, <1>1, PTL

\* A request that names a document by hash runs that document, whoever
\* registered it (resolvePersisted).
THEOREM HashNamesDocument == Spec => []RunsWhatItNames
PROOF
<1>1. Inv => RunsWhatItNames
  BY DEF Inv
<1> QED
  BY AlwaysInv, <1>1, PTL

\* With persisted_only and without apq nothing but the documents of the file
\* runs, whatever sequence of requests the clients send (resolvePersisted).
THEOREM AllowlistHolds == Spec => []StrictAllowlist
PROOF
<1>1. Inv => StrictAllowlist
  BY DEF Inv
<1> QED
  BY AlwaysInv, <1>1, PTL
=============================================================================
