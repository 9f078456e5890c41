---------------------------- MODULE PageWalk_proof ----------------------------
(***************************************************************************)
(* Safety of Pagination and PageWalk.                                      *)
(***************************************************************************)
EXTENDS PageWalk, FiniteSetTheorems, SequenceTheorems, WellFoundedInduction, TLAPS

\* below orders its domain.
LinearOrder(below) ==
    LET S == DOMAIN below
    IN  /\ IsFiniteSet(S)
        /\ \A s \in S : below[s] \subseteq S /\ s \notin below[s]
        /\ \A r, s, t \in S : r \in below[s] /\ s \in below[t] => r \in below[t]
        /\ \A r, s \in S : r = s \/ r \in below[s] \/ s \in below[r]

\* A sequence has every element of the domain, in order.
Lists(q, below) ==
    /\ q \in Seq(DOMAIN below)
    /\ \A s \in DOMAIN below : \E i \in 1..Len(q) : q[i] = s
    /\ \A i, j \in 1..Len(q) : i < j => q[i] \in below[q[j]]

\* The more there is below an element, the higher its place.
LEMMA PlacesDiffer ==
    ASSUME NEW below, LinearOrder(below)
    PROVE  \A s \in DOMAIN below :
              /\ IsFiniteSet(below[s])
              /\ Cardinality(below[s]) \in 0..(Cardinality(DOMAIN below) - 1)
              /\ \A r \in below[s] : Cardinality(below[r]) < Cardinality(below[s])
  <1> DEFINE S == DOMAIN below
  <1> SUFFICES ASSUME NEW s \in S
               PROVE  /\ IsFiniteSet(below[s])
                      /\ Cardinality(below[s]) \in 0..(Cardinality(S) - 1)
                      /\ \A r \in below[s] : Cardinality(below[r]) < Cardinality(below[s])
    OBVIOUS
  <1>1. IsFiniteSet(S) /\ Cardinality(S) \in Nat
    BY FS_CardinalityType DEF LinearOrder
  <1>2. below[s] \subseteq S /\ below[s] # S
    BY DEF LinearOrder
  <1>3. /\ IsFiniteSet(below[s]) /\ Cardinality(below[s]) \in Nat
        /\ Cardinality(below[s]) < Cardinality(S)
    <2>1. IsFiniteSet(below[s]) /\ Cardinality(below[s]) <= Cardinality(S)
      BY <1>1, <1>2, FS_Subset
    <2>2. Cardinality(below[s]) # Cardinality(S)
      BY <1>1, <1>2, FS_Subset
    <2>3. Cardinality(below[s]) \in Nat
      BY <2>1, FS_CardinalityType
    <2> QED
      BY <1>1, <2>1, <2>2, <2>3
  <1>4. ASSUME NEW r \in below[s]
        PROVE  Cardinality(below[r]) < Cardinality(below[s])
    <2>1. r \in S /\ below[r] \subseteq below[s] /\ r \notin below[r]
      BY <1>2 DEF LinearOrder
    <2>2. IsFiniteSet(below[r]) /\ Cardinality(below[r]) <= Cardinality(below[s])
      BY <1>3, <2>1, FS_Subset
    <2>3. Cardinality(below[r]) # Cardinality(below[s])
      BY <1>3, <2>1, FS_Subset
    <2>4. Cardinality(below[r]) \in Nat
      BY <2>2, FS_CardinalityType
    <2> QED
      BY <1>3, <2>2, <2>3, <2>4
  <1> QED
    BY <1>1, <1>3, <1>4

\* Every place is taken, by one element.
LEMMA PlacesTaken ==
    ASSUME NEW below, LinearOrder(below),
           NEW i \in 1..Cardinality(DOMAIN below)
    PROVE  \E s \in DOMAIN below : Cardinality(below[s]) + 1 = i
  <1> DEFINE S == DOMAIN below
             n == Cardinality(S)
             place == [s \in S |-> Cardinality(below[s]) + 1]
  <1>1. IsFiniteSet(S) /\ n \in Nat
    BY FS_CardinalityType DEF LinearOrder
  <1>2. place \in [S -> 1..n]
    BY <1>1, PlacesDiffer
  <1>3. ASSUME NEW r \in S, NEW s \in S, r # s
        PROVE  place[r] # place[s]
    <2>1. r \in below[s] \/ s \in below[r]
      BY <1>3 DEF LinearOrder
    <2> QED
      BY <1>1, <2>1, PlacesDiffer
  <1>4. IsFiniteSet(1..n) /\ Cardinality(1..n) = n
    BY <1>1, FS_Interval
  <1> HIDE DEF place, n
  <1>5. place \in Injection(S, 1..n)
    BY <1>2, <1>3 DEF Injection, IsInjective
  <1>6. place \in Surjection(S, 1..n)
    BY <1>4, <1>5, FS_Injection DEF n
  <1>7. i \in 1..n
    BY DEF n
  <1>8. \E s \in S : place[s] = i
    BY <1>6, <1>7 DEF Surjection
  <1> QED
    BY <1>8 DEF place

LEMMA ListingLists ==
    ASSUME NEW below, LinearOrder(below)
    PROVE  Lists(Listing(below), below) /\ Len(Listing(below)) = Cardinality(DOMAIN below)
  <1> DEFINE S == DOMAIN below
             n == Cardinality(S)
             q == Listing(below)
  <1>1. n \in Nat
    BY FS_CardinalityType DEF LinearOrder
  <1>2. DOMAIN q = 1..n
    BY DEF Listing
  <1>3. ASSUME NEW i \in 1..n
        PROVE  q[i] \in S /\ Cardinality(below[q[i]]) + 1 = i
    <2>1. q[i] = CHOOSE s \in S : Cardinality(below[s]) + 1 = i
      BY DEF Listing
    <2> QED
      BY <2>1, PlacesTaken
  <1>4. q \in [1..n -> S]
    BY <1>2, <1>3 DEF Listing
  <1> HIDE DEF q, n
  <1>5. q \in Seq(S) /\ Len(q) = n
    BY <1>1, <1>4
  <1>6. ASSUME NEW s \in S PROVE \E i \in 1..n : q[i] = s
    <2> DEFINE i == Cardinality(below[s]) + 1
    <2>1. i \in 1..n
      BY <1>1, PlacesDiffer DEF n
    <2>2. q[i] \in S /\ Cardinality(below[q[i]]) + 1 = Cardinality(below[s]) + 1
      BY <1>3, <2>1
    <2>3. /\ Cardinality(below[q[i]]) \in Int /\ Cardinality(below[s]) \in Int
          /\ q[i] \in below[s] => Cardinality(below[q[i]]) < Cardinality(below[s])
          /\ s \in below[q[i]] => Cardinality(below[s]) < Cardinality(below[q[i]])
      BY <2>2, PlacesDiffer
    <2>4. q[i] \notin below[s] /\ s \notin below[q[i]]
      BY <2>2, <2>3
    <2> QED
      BY <2>1, <2>2, <2>4 DEF LinearOrder
  <1>7. ASSUME NEW i \in 1..n, NEW j \in 1..n, i < j PROVE q[i] \in below[q[j]]
    <2>1. /\ q[i] \in S /\ q[j] \in S
          /\ Cardinality(below[q[i]]) + 1 = i /\ Cardinality(below[q[j]]) + 1 = j
      BY <1>3
    <2>2. q[j] \in below[q[i]] => Cardinality(below[q[j]]) < Cardinality(below[q[i]])
      BY <2>1, PlacesDiffer
    <2>3. Cardinality(below[q[i]]) \in Int /\ Cardinality(below[q[j]]) \in Int
      BY <2>1, PlacesDiffer
    <2>4. q[i] # q[j] /\ q[j] \notin below[q[i]]
      BY <1>7, <2>1, <2>2, <2>3
    <2> QED
      BY <2>1, <2>4 DEF LinearOrder
  <1> QED
    BY <1>5, <1>6, <1>7 DEF Lists, q, n

\* There is one way to list an order.
LEMMA ListedOnce ==
    ASSUME NEW below, LinearOrder(below), NEW q, Lists(q, below)
    PROVE  q = Listing(below) /\ Len(q) = Cardinality(DOMAIN below)
  <1> DEFINE S == DOMAIN below
             n == Len(q)
             p == Listing(below)
  <1>1. q \in Seq(S) /\ n \in Nat /\ q \in [1..n -> S] /\ DOMAIN q = 1..n
    BY LenProperties DEF Lists
  <1>2. ASSUME NEW i \in 1..n, NEW j \in 1..n, q[i] = q[j]
        PROVE  i = j
    <2>1. i < j => q[i] \in below[q[j]]
      BY DEF Lists
    <2>2. j < i => q[j] \in below[q[i]]
      BY DEF Lists
    <2>3. q[i] \notin below[q[i]] /\ q[j] \notin below[q[j]]
      BY <1>1 DEF LinearOrder
    <2> QED
      BY <1>1, <1>2, <2>1, <2>2, <2>3
  <1>3. ASSUME NEW i \in 1..n
        PROVE  Cardinality(below[q[i]]) + 1 = i
    <2> DEFINE f == [k \in 1..(i - 1) |-> q[k]]
               B == below[q[i]]
    <2>1. q[i] \in S /\ B \subseteq S
      BY <1>1 DEF LinearOrder
    <2>2. ASSUME NEW k \in 1..(i - 1) PROVE k \in 1..n /\ q[k] \in B
      BY <1>1, <2>2 DEF Lists
    <2>3. f \in [1..(i - 1) -> B]
      BY <2>2
    <2>4. ASSUME NEW s \in B PROVE \E k \in 1..(i - 1) : f[k] = s
      <3>1. PICK k \in 1..n : q[k] = s
        BY <2>1 DEF Lists
      <3>2. k = i \/ i < k \/ k \in 1..(i - 1)
        BY <1>1
      <3>3. k # i
        BY <2>1, <3>1 DEF LinearOrder
      <3>4. CASE i < k
        <4>1. q[i] \in below[s]
          BY <3>1, <3>4 DEF Lists
        <4>2. s \in below[q[i]] /\ s \in S
          BY <2>1
        <4>3. q[i] \in below[q[i]]
          BY <2>1, <4>1, <4>2 DEF LinearOrder
        <4> QED
          BY <2>1, <4>3 DEF LinearOrder
      <3> QED
        BY <3>1, <3>2, <3>3, <3>4
    <2>5. \A k, l \in 1..(i - 1) : f[k] = f[l] => k = l
      BY <1>2, <2>2
    <2> HIDE DEF f, B
    <2>6. f \in Bijection(1..(i - 1), B)
      BY <2>3, <2>4, <2>5 DEF Bijection, Injection, Surjection, IsInjective
    <2>7. ExistsBijection(1..(i - 1), B)
      BY <2>6 DEF ExistsBijection
    <2>8. Cardinality(B) = i - 1
      BY <2>7, FS_CountingElements
    <2> QED
      BY <2>8 DEF B
  <1>4. /\ p \in Seq(S) /\ Len(p) = Cardinality(S)
        /\ Lists(p, below)
    BY ListingLists DEF Lists
  <1>5. q \in Bijection(1..n, S)
    BY <1>1, <1>2 DEF Lists, Bijection, Injection, Surjection, IsInjective
  <1>6. n = Cardinality(S)
    BY <1>1, <1>5, FS_CountingElements DEF ExistsBijection
  <1>7. ASSUME NEW i \in 1..n PROVE q[i] = p[i]
    <2>1. /\ p[i] = CHOOSE s \in S : Cardinality(below[s]) + 1 = i
          /\ q[i] \in S
      BY <1>1, <1>6 DEF Listing
    <2>2. p[i] \in S /\ Cardinality(below[p[i]]) + 1 = i
      BY <2>1, <1>3
    <2>3. PICK j \in 1..n : q[j] = p[i]
      BY <2>2 DEF Lists
    <2>4. j = i
      BY <1>3, <2>2, <2>3
    <2> QED
      BY <2>3, <2>4
  <1> HIDE DEF p, n
  <1> QED
    BY <1>1, <1>4, <1>6, <1>7, SeqEqual DEF p, n
-----------------------------------------------------------------------------
\* ORDER BY is a linear order of rows whose ordering columns hold values or NULL.
Comparable(tab, terms, s) ==
    \A i \in DOMAIN terms : Column(tab, s, terms[i].col) \in Int \cup {NULL}

LEMMA BelowOrder ==
    ASSUME NEW x \in Int \cup {NULL}, NEW y \in Int \cup {NULL}, NEW z \in Int \cup {NULL}
    PROVE  /\ ~Below(x, x)
           /\ Below(x, y) => ~Below(y, x)
           /\ Below(x, y) /\ Below(y, z) => Below(x, z)
           /\ x = y \/ Below(x, y) \/ Below(y, x)
  BY ValuesAssumption DEF Below

\* One term decides: its columns differ, in its direction.
Decides(tab, term, reversed, a, b) ==
    IF term.desc # reversed THEN Below(Column(tab, b, term.col), Column(tab, a, term.col))
                            ELSE Below(Column(tab, a, term.col), Column(tab, b, term.col))

LEMMA PrecedesIs ==
    ASSUME NEW tab, NEW terms, NEW reversed, NEW a, NEW b
    PROVE  Precedes(tab, terms, reversed, a, b) <=>
             \/ \E i \in DOMAIN terms :
                  /\ \A j \in 1..(i - 1) :
                        Column(tab, a, terms[j].col) = Column(tab, b, terms[j].col)
                  /\ Decides(tab, terms[i], reversed, a, b)
             \/ /\ \A i \in DOMAIN terms :
                      Column(tab, a, terms[i].col) = Column(tab, b, terms[i].col)
                /\ a < b
  BY DEF Precedes, Decides

LEMMA PrecedesIrreflexive ==
    ASSUME NEW tab, NEW terms, NEW reversed, NEW a \in Int, Comparable(tab, terms, a)
    PROVE  ~Precedes(tab, terms, reversed, a, a)
  <1>1. ~(a < a)
    OBVIOUS
  <1>2. ASSUME NEW i \in DOMAIN terms PROVE ~Decides(tab, terms[i], reversed, a, a)
    BY BelowOrder DEF Comparable, Decides
  <1> QED
    BY <1>1, <1>2, PrecedesIs

LEMMA PrecedesTransitive ==
    ASSUME NEW tab, NEW S, NEW terms \in Seq(S), NEW reversed,
           NEW a \in Int, NEW b \in Int, NEW c \in Int,
           Comparable(tab, terms, a), Comparable(tab, terms, b), Comparable(tab, terms, c),
           Precedes(tab, terms, reversed, a, b), Precedes(tab, terms, reversed, b, c)
    PROVE  Precedes(tab, terms, reversed, a, c)
  <1> DEFINE x(i) == Column(tab, a, terms[i].col)
             y(i) == Column(tab, b, terms[i].col)
             z(i) == Column(tab, c, terms[i].col)
             D(i, r, s) == Decides(tab, terms[i], reversed, r, s)
  <1>0. DOMAIN terms = 1..Len(terms) /\ Len(terms) \in Nat
    BY LenProperties
  <1>1. ASSUME NEW i \in DOMAIN terms
        PROVE  /\ D(i, a, b) /\ D(i, b, c) => D(i, a, c)
               /\ x(i) = y(i) /\ D(i, b, c) => D(i, a, c)
               /\ D(i, a, b) /\ y(i) = z(i) => D(i, a, c)
    <2> DEFINE d == terms[i].desc # reversed
    <2>1. x(i) \in Int \cup {NULL} /\ y(i) \in Int \cup {NULL} /\ z(i) \in Int \cup {NULL}
      BY DEF Comparable
    <2>2. /\ D(i, a, b) <=> IF d THEN Below(y(i), x(i)) ELSE Below(x(i), y(i))
          /\ D(i, b, c) <=> IF d THEN Below(z(i), y(i)) ELSE Below(y(i), z(i))
          /\ D(i, a, c) <=> IF d THEN Below(z(i), x(i)) ELSE Below(x(i), z(i))
      BY DEF Decides
    <2> HIDE DEF x, y, z, D, d
    <2>3. Below(x(i), y(i)) /\ Below(y(i), z(i)) => Below(x(i), z(i))
      BY <2>1, BelowOrder
    <2>4. Below(z(i), y(i)) /\ Below(y(i), x(i)) => Below(z(i), x(i))
      BY <2>1, BelowOrder
    <2> QED
      BY <2>2, <2>3, <2>4
  <1>2. \/ \E i \in DOMAIN terms : (\A j \in 1..(i - 1) : x(j) = y(j)) /\ D(i, a, b)
        \/ (\A i \in DOMAIN terms : x(i) = y(i)) /\ a < b
    BY PrecedesIs
  <1>3. \/ \E i \in DOMAIN terms : (\A j \in 1..(i - 1) : y(j) = z(j)) /\ D(i, b, c)
        \/ (\A i \in DOMAIN terms : y(i) = z(i)) /\ b < c
    BY PrecedesIs
  <1> SUFFICES \/ \E i \in DOMAIN terms : (\A j \in 1..(i - 1) : x(j) = z(j)) /\ D(i, a, c)
               \/ (\A i \in DOMAIN terms : x(i) = z(i)) /\ a < c
    BY PrecedesIs
  <1> HIDE DEF x, y, z, D
  <1>4. CASE (\A i \in DOMAIN terms : x(i) = y(i)) /\ (\A i \in DOMAIN terms : y(i) = z(i))
    <2>1. \A i \in DOMAIN terms : ~D(i, a, b) /\ ~D(i, b, c)
      BY <1>4, BelowOrder DEF D, Decides, Comparable, x, y, z
    <2> QED
      BY <1>2, <1>3, <1>4, <2>1
  <1>5. ASSUME NEW i \in DOMAIN terms, \A j \in 1..(i - 1) : x(j) = y(j), D(i, a, b),
               \A j \in DOMAIN terms : y(j) = z(j)
        PROVE  \E k \in DOMAIN terms : (\A j \in 1..(k - 1) : x(j) = z(j)) /\ D(k, a, c)
    BY <1>0, <1>1, <1>5
  <1>6. ASSUME NEW i \in DOMAIN terms, \A j \in 1..(i - 1) : y(j) = z(j), D(i, b, c),
               \A j \in DOMAIN terms : x(j) = y(j)
        PROVE  \E k \in DOMAIN terms : (\A j \in 1..(k - 1) : x(j) = z(j)) /\ D(k, a, c)
    BY <1>0, <1>1, <1>6
  <1>7. ASSUME NEW i \in DOMAIN terms, \A j \in 1..(i - 1) : x(j) = y(j), D(i, a, b),
               NEW k \in DOMAIN terms, \A j \in 1..(k - 1) : y(j) = z(j), D(k, b, c)
        PROVE  \E l \in DOMAIN terms : (\A j \in 1..(l - 1) : x(j) = z(j)) /\ D(l, a, c)
    <2>1. CASE i < k
      <3>1. y(i) = z(i) /\ \A j \in 1..(i - 1) : x(j) = z(j)
        BY <1>0, <1>7, <2>1
      <3> QED BY <1>1, <1>7, <3>1
    <2>2. CASE i = k
      <3>1. \A j \in 1..(i - 1) : x(j) = z(j)
        BY <1>0, <1>7, <2>2
      <3> QED BY <1>1, <1>7, <2>2, <3>1
    <2>3. CASE k < i
      <3>1. x(k) = y(k) /\ \A j \in 1..(k - 1) : x(j) = z(j)
        BY <1>0, <1>7, <2>3
      <3> QED BY <1>1, <1>7, <3>1
    <2> QED
      BY <1>0, <2>1, <2>2, <2>3
  <1> QED
    BY <1>2, <1>3, <1>4, <1>5, <1>6, <1>7

\* Where two rows differ first.
LEMMA FirstDifference ==
    ASSUME NEW S, NEW terms \in Seq(S), NEW T, T \subseteq DOMAIN terms, T # {}
    PROVE  \E i \in T : \A j \in 1..(i - 1) : j \notin T
  <1>1. DOMAIN terms = 1..Len(terms) /\ Len(terms) \in Nat
    BY LenProperties
  <1>2. T \subseteq Nat
    BY <1>1
  <1>3. \E i \in T : \A j \in T : ~(<<j, i>> \in OpToRel(<, Nat))
    BY <1>2, NatLessThanWellFounded, WFMin
  <1>4. OpToRel(<, Nat) = {p \in Nat \X Nat : p[1] < p[2]}
    BY Zenon DEF OpToRel
  <1>5. \E i \in T : \A j \in T : ~(<<j, i>> \in {p \in Nat \X Nat : p[1] < p[2]})
    BY <1>3, <1>4, Zenon
  <1>6. PICK i \in T : \A j \in T : ~(<<j, i>> \in {p \in Nat \X Nat : p[1] < p[2]})
    BY <1>5
  <1>7. ASSUME NEW j \in 1..(i - 1), j \in T PROVE FALSE
    <2>1. <<j, i>> \in Nat \X Nat /\ <<j, i>>[1] < <<j, i>>[2]
      BY <1>2, <1>7
    <2> QED
      BY <1>6, <1>7, <2>1
  <1> QED
    BY <1>7

LEMMA PrecedesTotal ==
    ASSUME NEW tab, NEW S, NEW terms \in Seq(S), NEW reversed,
           NEW a \in Int, NEW b \in Int,
           Comparable(tab, terms, a), Comparable(tab, terms, b)
    PROVE  a = b \/ Precedes(tab, terms, reversed, a, b) \/ Precedes(tab, terms, reversed, b, a)
  <1> DEFINE x(i) == Column(tab, a, terms[i].col)
             y(i) == Column(tab, b, terms[i].col)
             T == {i \in DOMAIN terms : x(i) # y(i)}
  <1>1. CASE T = {}
    <2>1. a = b \/ a < b \/ b < a
      OBVIOUS
    <2>2. \A i \in DOMAIN terms : x(i) = y(i)
      BY <1>1
    <2> QED
      BY <2>1, <2>2, PrecedesIs
  <1>2. CASE T # {}
    <2>1. PICK i \in T : \A j \in 1..(i - 1) : j \notin T
      BY <1>2, FirstDifference
    <2>2. \A j \in 1..(i - 1) : x(j) = y(j)
      <3>1. DOMAIN terms = 1..Len(terms) /\ Len(terms) \in Nat
        BY LenProperties
      <3> QED
        BY <2>1, <3>1
    <2>3. Decides(tab, terms[i], reversed, a, b) \/ Decides(tab, terms[i], reversed, b, a)
      <3> DEFINE d == terms[i].desc # reversed
      <3>1. x(i) \in Int \cup {NULL} /\ y(i) \in Int \cup {NULL} /\ x(i) # y(i)
        BY <2>1 DEF Comparable
      <3>2. /\ Decides(tab, terms[i], reversed, a, b)
                 <=> IF d THEN Below(y(i), x(i)) ELSE Below(x(i), y(i))
            /\ Decides(tab, terms[i], reversed, b, a)
                 <=> IF d THEN Below(x(i), y(i)) ELSE Below(y(i), x(i))
        BY DEF Decides
      <3> HIDE DEF x, y, d
      <3>3. Below(x(i), y(i)) \/ Below(y(i), x(i))
        BY <3>1, BelowOrder
      <3> QED
        BY <3>2, <3>3
    <2> QED
      BY <2>1, <2>2, <2>3, PrecedesIs
  <1> QED
    BY <1>1, <1>2
-----------------------------------------------------------------------------
\* Tables, and order terms over the columns of a table.
TablesOf(d) == [Slots -> ColumnValues(d) \cup {Absent}]

Term(d) == [col : PKColumns(d) \cup {ValueCol}, desc : BOOLEAN]

\* The row is there, or the terms read only its key.
Located(d, tab, terms, s) ==
    /\ s \in Slots
    /\ s \in Rows(tab) \/ \A i \in DOMAIN terms : terms[i].col \in PKColumns(d)

\* A column of such a row holds an integer, or NULL where allowed.
LEMMA ColumnValue ==
    ASSUME NEW d \in Defs, NEW tab \in TablesOf(d), NEW terms \in Seq(Term(d)),
           NEW s, Located(d, tab, terms, s), NEW i \in DOMAIN terms
    PROVE  /\ Column(tab, s, terms[i].col) \in Int \cup {NULL}
           /\ NotNull(d, terms[i].col) => Column(tab, s, terms[i].col) # NULL
           /\ terms[i].desc \in BOOLEAN /\ NotNull(d, terms[i].col) \in BOOLEAN
  <1> DEFINE c == terms[i].col
  <1>1. terms[i] \in Term(d)
    BY ElementOfSeq, LenProperties
  <1>2. c \in PKColumns(d) \cup {ValueCol} /\ terms[i].desc \in BOOLEAN
    BY <1>1 DEF Term
  <1>3. d.notNull \in BOOLEAN /\ ValueCol \notin PKColumns(d) /\ s \in Slots
    BY DefsAssumption DEF Located
  <1>4. CASE c = ValueCol
    <2>1. s \in Rows(tab)
      BY <1>3, <1>4 DEF Located
    <2>2. tab[s] \in ColumnValues(d)
      BY <1>3, <2>1 DEF TablesOf, Rows
    <2> QED
      BY <1>2, <1>3, <1>4, <2>2, ValuesAssumption DEF Column, NotNull, ColumnValues
  <1>5. CASE c # ValueCol
    <2>1. Key[s][c] \in Int
      BY <1>2, <1>3, <1>5, KeyAssumption, DefsAssumption
    <2> QED
      BY <1>2, <1>3, <1>5, <2>1, ValuesAssumption DEF Column, NotNull
  <1> QED
    BY <1>4, <1>5

LEMMA LocatedComparable ==
    ASSUME NEW d \in Defs, NEW tab \in TablesOf(d), NEW terms \in Seq(Term(d)),
           NEW s, Located(d, tab, terms, s)
    PROVE  Comparable(tab, terms, s) /\ s \in Int
  BY ColumnValue, SlotsAssumption DEF Comparable, Located

\* The anchor's values are the columns of its row.
LEMMA AnchorIsRow ==
    ASSUME NEW d \in Defs, NEW tab, NEW terms,
           NEW a, Located(d, tab, terms, a), NEW i \in DOMAIN terms
    PROVE  anchorVals(d, tab, terms, a)[i] = Column(tab, a, terms[i].col)
  BY DefsAssumption DEF anchorVals, Column, Rows, Located

\* The lexicographic order of the terms alone, before ties are broken.
Beyond(tab, terms, flip, a, s) ==
    \E i \in DOMAIN terms :
        /\ \A j \in 1..(i - 1) :
              Column(tab, a, terms[j].col) = Column(tab, s, terms[j].col)
        /\ Decides(tab, terms[i], flip, a, s)

\* after/before: the rows keysetPredicate selects are those the ORDER BY of the
\* scan (reversed for `before`) puts beyond the cursor's row, for every table, list
\* of terms and pair of rows, and also if the cursor's row is gone when the terms
\* read only its key.
THEOREM KeysetIsOrder ==
    ASSUME NEW d \in Defs, NEW tab \in TablesOf(d), NEW terms \in Seq(Term(d)),
           NEW flip \in BOOLEAN,
           NEW a, Located(d, tab, terms, a), NEW s \in Rows(tab)
    PROVE  keysetPredicate(d, tab, terms, anchorVals(d, tab, terms, a), flip, s)
             <=> Beyond(tab, terms, flip, a, s)
  <1> DEFINE vals == anchorVals(d, tab, terms, a)
             x(i) == Column(tab, s, terms[i].col)
             k(i) == Column(tab, a, terms[i].col)
             nn(i) == NotNull(d, terms[i].col)
             D(i) == terms[i].desc # flip
  <1>0. Located(d, tab, terms, s)
    BY DEF Located, Rows
  <1>1. ASSUME NEW i \in DOMAIN terms
        PROVE  /\ StrictlyAfter(x(i), vals[i], D(i), nn(i))
                    <=> (IF D(i) THEN Below(x(i), k(i)) ELSE Below(k(i), x(i)))
               /\ SameValue(x(i), vals[i], nn(i)) <=> k(i) = x(i)
    <2>1. vals[i] = k(i)
      BY AnchorIsRow
    <2>2. x(i) \in Int \cup {NULL} /\ k(i) \in Int \cup {NULL}
      BY <1>0, ColumnValue
    <2>3. nn(i) => x(i) # NULL /\ k(i) # NULL
      BY <1>0, ColumnValue
    <2>4. D(i) \in BOOLEAN /\ nn(i) \in BOOLEAN
      BY <1>0, ColumnValue
    <2> HIDE DEF vals, x, k, nn, D
    <2>5. /\ StrictlyAfter(x(i), k(i), D(i), nn(i))
                <=> (IF D(i) THEN Below(x(i), k(i)) ELSE Below(k(i), x(i)))
          /\ SameValue(x(i), k(i), nn(i)) <=> x(i) = k(i)
      BY <2>2, <2>3, <2>4, ValuesAssumption DEF StrictlyAfter, SameValue, Below
    <2> QED
      BY <2>1, <2>5, Zenon
  <1>2. ASSUME NEW i \in DOMAIN terms, NEW j \in 1..(i - 1)
        PROVE  j \in DOMAIN terms
    BY LenProperties
  <1> QED
    BY <1>1, <1>2 DEF keysetPredicate, Beyond, Decides

\* No two rows tie in these terms.
Distinguishes(tab, terms, rows) ==
    \A a, b \in rows :
        (\A i \in DOMAIN terms :
            Column(tab, a, terms[i].col) = Column(tab, b, terms[i].col)) => a = b

\* The primary key, appended to the order terms, tells rows apart.
LEMMA OrderTermsType ==
    ASSUME NEW d \in Defs, NEW o \in Seq(Term(d))
    PROVE  /\ orderTerms(d, o) \in Seq(Term(d))
           /\ (\A i \in DOMAIN o : o[i].col \in PKColumns(d)) <=>
                \A i \in DOMAIN orderTerms(d, o) : orderTerms(d, o)[i].col \in PKColumns(d)
           /\ HasPK(d) => \A c \in PKColumns(d) :
                \E i \in DOMAIN orderTerms(d, o) : orderTerms(d, o)[i].col = c
  <1> DEFINE key == [i \in DOMAIN d.pk |-> Asc(d.pk[i])]
  <1>1. d.pk \in Seq(PKColumns(d)) /\ DOMAIN d.pk = 1..Len(d.pk) /\ Len(d.pk) \in Nat
    BY DefsAssumption, LenProperties
  <1>2. ASSUME NEW i \in DOMAIN d.pk PROVE Asc(d.pk[i]) \in Term(d) /\ Asc(d.pk[i]).col = d.pk[i]
    BY DEF Asc, Term, PKColumns
  <1>3. key \in [1..Len(d.pk) -> Term(d)]
    BY <1>1, <1>2
  <1>4. key \in Seq(Term(d)) /\ Len(key) = Len(d.pk)
    <2> HIDE DEF key
    <2> QED BY <1>1, <1>3
  <1>5. /\ o \o key \in Seq(Term(d)) /\ Len(o \o key) = Len(o) + Len(key)
        /\ \A i \in 1..(Len(o) + Len(key)) :
              (o \o key)[i] = IF i <= Len(o) THEN o[i] ELSE key[i - Len(o)]
    <2> HIDE DEF key
    <2> QED BY <1>4, ConcatProperties
  <1>6. Len(o) \in Nat /\ DOMAIN o = 1..Len(o) /\ DOMAIN (o \o key) = 1..Len(o \o key)
    <2> HIDE DEF key
    <2> QED BY <1>4, <1>5, LenProperties
  <1>7. \A i \in 1..Len(key) : key[i].col = d.pk[i] /\ key[i].col \in PKColumns(d)
    BY <1>1, <1>2, <1>4 DEF PKColumns
  <1>8. CASE orderTerms(d, o) = o \o key
    <2> DEFINE t == o \o key
    <2>1. (\A i \in DOMAIN o : o[i].col \in PKColumns(d)) =>
            \A i \in DOMAIN t : t[i].col \in PKColumns(d)
      <3> HIDE DEF key
      <3> SUFFICES ASSUME \A i \in DOMAIN o : o[i].col \in PKColumns(d), NEW i \in DOMAIN t
                   PROVE  t[i].col \in PKColumns(d)
        OBVIOUS
      <3>1. CASE i <= Len(o)
        BY <1>4, <1>5, <1>6, <3>1
      <3>2. CASE ~(i <= Len(o))
        <4>1. i - Len(o) \in 1..Len(key) /\ t[i] = key[i - Len(o)]
          BY <1>1, <1>4, <1>5, <1>6, <3>2
        <4> QED
          BY <1>7, <4>1
      <3> QED
        BY <3>1, <3>2
    <2>2. ASSUME NEW c \in PKColumns(d) PROVE \E i \in DOMAIN t : t[i].col = c
      <3>1. PICK k \in DOMAIN d.pk : d.pk[k] = c
        BY DEF PKColumns
      <3> HIDE DEF key
      <3>2. /\ Len(o) + k \in 1..(Len(o) + Len(key)) /\ Len(o) + k \in DOMAIN t
            /\ ~(Len(o) + k <= Len(o)) /\ (Len(o) + k) - Len(o) = k
        BY <1>1, <1>4, <1>5, <1>6
      <3>3. t[Len(o) + k] = key[k]
        BY <1>5, <3>2
      <3> QED
        BY <1>1, <1>4, <1>7, <3>1, <3>2, <3>3
    <2>3. (\A i \in DOMAIN t : t[i].col \in PKColumns(d)) =>
            \A i \in DOMAIN o : o[i].col \in PKColumns(d)
      <3> HIDE DEF key
      <3> SUFFICES ASSUME \A i \in DOMAIN t : t[i].col \in PKColumns(d), NEW i \in DOMAIN o
                   PROVE  o[i].col \in PKColumns(d)
        OBVIOUS
      <3>1. i \in DOMAIN t /\ t[i] = o[i]
        BY <1>1, <1>4, <1>5, <1>6
      <3> QED
        BY <3>1
    <2> HIDE DEF key
    <2> QED
      BY <1>5, <1>8, <2>1, <2>2, <2>3
  <1>9. CASE orderTerms(d, o) = o /\ Len(d.pk) = 1 /\ \E i \in DOMAIN o : o[i].col = d.pk[1]
    <2>1. PKColumns(d) = {d.pk[1]}
      BY <1>1, <1>9 DEF PKColumns
    <2> QED
      BY <1>9, <2>1
  <1> QED
    BY <1>8, <1>9 DEF orderTerms

LEMMA KeyDistinguishes ==
    ASSUME NEW d \in Defs, HasPK(d), NEW tab, NEW terms,
           \A c \in PKColumns(d) : \E i \in DOMAIN terms : terms[i].col = c
    PROVE  Distinguishes(tab, terms, Slots)
  <1> SUFFICES ASSUME NEW a \in Slots, NEW b \in Slots,
                      \A i \in DOMAIN terms :
                         Column(tab, a, terms[i].col) = Column(tab, b, terms[i].col)
               PROVE  a = b
    BY DEF Distinguishes
  <1>1. ASSUME NEW i \in DOMAIN d.pk PROVE Key[a][d.pk[i]] = Key[b][d.pk[i]]
    <2>0. d.pk[i] \in PKColumns(d)
      BY DEF PKColumns
    <2>1. d.pk[i] \in PKColumns(d) /\ d.pk[i] # ValueCol
      BY <2>0, DefsAssumption
    <2>2. PICK k \in DOMAIN terms : terms[k].col = d.pk[i]
      BY <2>1
    <2>3. Column(tab, a, d.pk[i]) = Column(tab, b, d.pk[i])
      BY <2>2
    <2> QED
      BY <2>1, <2>3 DEF Column
  <1> QED
    BY <1>1, DefsAssumption

\* When no two rows tie, the order beyond a row is the whole order of the scan:
\* `after` selects exactly what ORDER BY puts after the cursor, and `before` what
\* it puts before.
THEOREM KeysetIsTotalOrder ==
    ASSUME NEW d \in Defs, NEW tab \in TablesOf(d), NEW terms \in Seq(Term(d)),
           NEW flip \in BOOLEAN, Distinguishes(tab, terms, Slots),
           NEW a, Located(d, tab, terms, a), NEW s \in Rows(tab)
    PROVE  keysetPredicate(d, tab, terms, anchorVals(d, tab, terms, a), flip, s)
             <=> Precedes(tab, terms, flip, a, s)
  <1>1. ~((\A i \in DOMAIN terms :
             Column(tab, a, terms[i].col) = Column(tab, s, terms[i].col)) /\ a < s)
    BY SlotsAssumption DEF Rows, Located, Distinguishes
  <1>2. Beyond(tab, terms, flip, a, s) <=> Precedes(tab, terms, flip, a, s)
    BY <1>1, PrecedesIs DEF Beyond
  <1> QED
    BY <1>2, KeysetIsOrder

\* A reversed scan is the scan backward.
LEMMA ReversedPrecedes ==
    ASSUME NEW d, NEW tab, NEW terms \in Seq(Term(d)), Distinguishes(tab, terms, Slots),
           NEW a \in Slots, NEW b \in Slots, a # b
    PROVE  Precedes(tab, terms, TRUE, a, b) <=> Precedes(tab, terms, FALSE, b, a)
  <1>1. ASSUME NEW i \in DOMAIN terms
        PROVE  Decides(tab, terms[i], TRUE, a, b) <=> Decides(tab, terms[i], FALSE, b, a)
    <2>1. terms[i] \in Term(d)
      BY ElementOfSeq, LenProperties
    <2>2. terms[i].desc \in BOOLEAN
      BY <2>1 DEF Term
    <2> QED
      BY <2>2 DEF Decides
  <1>2. ~(\A i \in DOMAIN terms :
             Column(tab, a, terms[i].col) = Column(tab, b, terms[i].col))
    BY DEF Distinguishes
  <1> QED
    BY <1>1, <1>2, PrecedesIs
-----------------------------------------------------------------------------
\* A sequence has every one of the rows, in order.
InOrder(tab, terms, reversed, rows, q) ==
    /\ q \in Seq(rows)
    /\ \A s \in rows : \E i \in 1..Len(q) : q[i] = s
    /\ \A i, j \in 1..Len(q) : i < j => Precedes(tab, terms, reversed, q[i], q[j])

BelowIn(tab, terms, reversed, rows) ==
    [s \in rows |-> {r \in rows : Precedes(tab, terms, reversed, r, s)}]

LEMMA RowsLinear ==
    ASSUME NEW tab, NEW S, NEW terms \in Seq(S), NEW reversed,
           NEW rows \in SUBSET Slots, \A s \in rows : Comparable(tab, terms, s)
    PROVE  LinearOrder(BelowIn(tab, terms, reversed, rows))
  <1> DEFINE below == BelowIn(tab, terms, reversed, rows)
  <1>1. DOMAIN below = rows /\ IsFiniteSet(rows) /\ rows \subseteq Int
    BY SlotsAssumption, FS_Subset DEF BelowIn
  <1>2. \A s \in rows : below[s] = {r \in rows : Precedes(tab, terms, reversed, r, s)}
    BY DEF BelowIn
  <1> HIDE DEF below
  <1>3. \A s \in rows : below[s] \subseteq rows /\ s \notin below[s]
    BY <1>1, <1>2, PrecedesIrreflexive
  <1>4. ASSUME NEW r \in rows, NEW s \in rows, NEW t \in rows, r \in below[s], s \in below[t]
        PROVE  r \in below[t]
    <2>1. Precedes(tab, terms, reversed, r, s) /\ Precedes(tab, terms, reversed, s, t)
      BY <1>2, <1>4
    <2>2. r \in Int /\ s \in Int /\ t \in Int
      BY <1>1
    <2>3. Precedes(tab, terms, reversed, r, t)
      BY <2>1, <2>2, PrecedesTransitive
    <2> QED
      BY <1>2, <2>3
  <1>5. ASSUME NEW r \in rows, NEW s \in rows
        PROVE  r = s \/ r \in below[s] \/ s \in below[r]
    <2>1. r \in Int /\ s \in Int
      BY <1>1
    <2>2. r = s \/ Precedes(tab, terms, reversed, r, s) \/ Precedes(tab, terms, reversed, s, r)
      BY <2>1, PrecedesTotal
    <2> QED
      BY <1>2, <2>2
  <1> QED
    BY <1>1, <1>3, <1>4, <1>5 DEF LinearOrder, below

LEMMA InOrderIsLists ==
    ASSUME NEW tab, NEW terms, NEW reversed, NEW rows, NEW q
    PROVE  InOrder(tab, terms, reversed, rows, q)
             <=> Lists(q, BelowIn(tab, terms, reversed, rows))
  <1> DEFINE below == BelowIn(tab, terms, reversed, rows)
  <1>1. DOMAIN below = rows
    BY DEF BelowIn
  <1>2. \A r, s \in rows : r \in below[s] <=> Precedes(tab, terms, reversed, r, s)
    BY DEF BelowIn
  <1> HIDE DEF below
  <1>3. q \in Seq(rows) => \A i \in 1..Len(q) : q[i] \in rows
    BY ElementOfSeq
  <1> QED
    BY <1>1, <1>2, <1>3 DEF InOrder, Lists, below

\* Sorted has the rows in order, and nothing else does.
LEMMA SortedIs ==
    ASSUME NEW tab, NEW terms, NEW reversed, NEW rows
    PROVE  Sorted(tab, terms, reversed, rows) = Listing(BelowIn(tab, terms, reversed, rows))
  BY DEF Sorted, Bind, BelowIn

LEMMA SortedInOrder ==
    ASSUME NEW tab, NEW S, NEW terms \in Seq(S), NEW reversed,
           NEW rows \in SUBSET Slots, \A s \in rows : Comparable(tab, terms, s)
    PROVE  /\ InOrder(tab, terms, reversed, rows, Sorted(tab, terms, reversed, rows))
           /\ Len(Sorted(tab, terms, reversed, rows)) = Cardinality(rows)
           /\ Cardinality(rows) \in Nat
  <1> DEFINE below == BelowIn(tab, terms, reversed, rows)
  <1>0. LinearOrder(below)
    BY RowsLinear
  <1>1. LinearOrder(below) /\ DOMAIN below = rows
    BY <1>0 DEF BelowIn
  <1>2. Lists(Listing(below), below) /\ Len(Listing(below)) = Cardinality(rows)
    <2> HIDE DEF below
    <2> QED BY <1>1, ListingLists
  <1>3. Cardinality(rows) \in Nat
    BY SlotsAssumption, FS_Subset, FS_CardinalityType
  <1> QED
    BY <1>2, <1>3, SortedIs, InOrderIsLists

LEMMA InOrderIsSorted ==
    ASSUME NEW tab, NEW S, NEW terms \in Seq(S), NEW reversed,
           NEW rows \in SUBSET Slots, \A s \in rows : Comparable(tab, terms, s),
           NEW q, InOrder(tab, terms, reversed, rows, q)
    PROVE  q = Sorted(tab, terms, reversed, rows) /\ Len(q) = Cardinality(rows)
  <1> DEFINE below == BelowIn(tab, terms, reversed, rows)
  <1>0. LinearOrder(below)
    BY RowsLinear
  <1>1. LinearOrder(below) /\ DOMAIN below = rows
    BY <1>0 DEF BelowIn
  <1>2. Lists(q, below)
    BY InOrderIsLists
  <1>3. q = Listing(below) /\ Len(q) = Cardinality(rows)
    <2> HIDE DEF below
    <2> QED BY <1>1, <1>2, ListedOnce
  <1> QED
    BY <1>3, SortedIs

\* Rows come before or after one another by their positions.
InPlaces(tab, terms, reversed, q) ==
    \A i, j \in 1..Len(q) :
        /\ Precedes(tab, terms, reversed, q[i], q[j]) <=> i < j
        /\ q[i] = q[j] <=> i = j

LEMMA InOrderPositions ==
    ASSUME NEW tab, NEW S, NEW terms \in Seq(S), NEW reversed,
           NEW rows \in SUBSET Slots, \A s \in rows : Comparable(tab, terms, s),
           NEW q, InOrder(tab, terms, reversed, rows, q)
    PROVE  InPlaces(tab, terms, reversed, q)
  <1> SUFFICES ASSUME NEW i \in 1..Len(q), NEW j \in 1..Len(q)
               PROVE  /\ Precedes(tab, terms, reversed, q[i], q[j]) <=> i < j
                      /\ q[i] = q[j] <=> i = j
    BY DEF InPlaces
  <1>1. q[i] \in rows /\ q[j] \in rows /\ Len(q) \in Nat
    BY ElementOfSeq, LenProperties DEF InOrder
  <1>2. q[i] \in Int /\ q[j] \in Int
    BY <1>1, SlotsAssumption
  <1>3. /\ i < j => Precedes(tab, terms, reversed, q[i], q[j])
        /\ j < i => Precedes(tab, terms, reversed, q[j], q[i])
    BY DEF InOrder
  <1>4. /\ ~Precedes(tab, terms, reversed, q[i], q[i])
        /\ ~Precedes(tab, terms, reversed, q[j], q[j])
    BY <1>1, <1>2, PrecedesIrreflexive
  <1>5. ~(/\ Precedes(tab, terms, reversed, q[i], q[j])
          /\ Precedes(tab, terms, reversed, q[j], q[i]))
    <2> SUFFICES ASSUME Precedes(tab, terms, reversed, q[i], q[j]),
                        Precedes(tab, terms, reversed, q[j], q[i])
                 PROVE  FALSE
      OBVIOUS
    <2>1. Precedes(tab, terms, reversed, q[i], q[i])
      BY <1>1, <1>2, PrecedesTransitive
    <2> QED
      BY <1>4, <2>1
  <1> QED
    BY <1>1, <1>3, <1>4, <1>5

\* A reversed scan, turned round, is the scan.
LEMMA ReversedSorted ==
    ASSUME NEW d \in Defs, NEW tab, NEW terms \in Seq(Term(d)),
           Distinguishes(tab, terms, Slots),
           NEW rows \in SUBSET Slots, \A s \in rows : Comparable(tab, terms, s)
    PROVE  LET n == Cardinality(rows) IN
           \A i \in 1..n : Sorted(tab, terms, TRUE, rows)[i]
                             = Sorted(tab, terms, FALSE, rows)[n + 1 - i]
  <1> DEFINE n == Cardinality(rows)
             p == Sorted(tab, terms, FALSE, rows)
             q == [i \in 1..n |-> p[n + 1 - i]]
  <1>1. InOrder(tab, terms, FALSE, rows, p) /\ Len(p) = n /\ n \in Nat
    BY SortedInOrder
  <1> HIDE DEF p, n
  <1>2. \A i \in 1..n : p[i] \in rows
    BY <1>1, ElementOfSeq DEF InOrder
  <1>3. \A i \in 1..n : n + 1 - i \in 1..n /\ n + 1 - (n + 1 - i) = i
    BY <1>1
  <1>4. q \in [1..n -> rows]
    BY <1>2, <1>3
  <1>5. q \in Seq(rows) /\ Len(q) = n
    <2> HIDE DEF q
    <2> QED BY <1>1, <1>4
  <1>6. ASSUME NEW s \in rows PROVE \E i \in 1..n : q[i] = s
    <2>1. PICK i \in 1..n : p[i] = s
      BY <1>1 DEF InOrder
    <2>2. q[n + 1 - i] = p[i]
      BY <1>3
    <2> QED
      BY <1>3, <2>1, <2>2
  <1>7. ASSUME NEW i \in 1..n, NEW j \in 1..n, i < j
        PROVE  Precedes(tab, terms, TRUE, q[i], q[j])
    <2>1. n + 1 - j < n + 1 - i
      BY <1>1, <1>7
    <2>2. Precedes(tab, terms, FALSE, q[j], q[i])
      BY <1>1, <1>3, <2>1 DEF InOrder
    <2>3. q[i] \in Slots /\ q[j] \in Slots
      BY <1>4
    <2>4. q[i] # q[j]
      <3>1. q[j] \in Int /\ Comparable(tab, terms, q[j])
        BY <1>4, <2>3, SlotsAssumption
      <3> HIDE DEF q
      <3>2. ~Precedes(tab, terms, FALSE, q[j], q[j])
        BY <3>1, PrecedesIrreflexive
      <3> QED
        BY <2>2, <3>2
    <2> HIDE DEF q
    <2> QED
      BY <2>2, <2>3, <2>4, ReversedPrecedes
  <1>8. InOrder(tab, terms, TRUE, rows, q)
    <2> HIDE DEF q
    <2> QED BY <1>5, <1>6, <1>7 DEF InOrder
  <1>9. q = Sorted(tab, terms, TRUE, rows)
    <2> HIDE DEF q
    <2> QED BY <1>8, InOrderIsSorted
  <1> QED
    BY <1>9 DEF p, n
-----------------------------------------------------------------------------
LEMMA FunctionIsSeq ==
    ASSUME NEW S, NEW n \in Nat, NEW f \in [1..n -> S]
    PROVE  f \in Seq(S) /\ Len(f) = n
  OBVIOUS

\* The positions kept, increasing, and what stands there.
KeptAt(at, S, seq, keep) ==
    /\ \A k \in keep : \E i \in 1..Len(at) : at[i] = k
    /\ \A i, j \in 1..Len(at) : i < j => at[i] < at[j]
    /\ Only(seq, keep) \in Seq(S) /\ Len(Only(seq, keep)) = Len(at)
    /\ \A i \in 1..Len(at) : at[i] \in keep /\ Only(seq, keep)[i] = seq[at[i]]

\* What Only keeps stands at increasing positions.
LEMMA OnlyIs ==
    ASSUME NEW S, NEW seq \in Seq(S), NEW keep \in SUBSET (1..Len(seq))
    PROVE  \E at \in Seq(keep) : KeptAt(at, S, seq, keep)
  <1> DEFINE below == [k \in keep |-> {j \in keep : j < k}]
             at == Listing(below)
  <1>1. Len(seq) \in Nat /\ IsFiniteSet(1..Len(seq))
    BY LenProperties, FS_Interval
  <1>2. IsFiniteSet(keep) /\ keep \subseteq Int
    <2>1. IsFiniteSet(keep)
      BY <1>1, FS_Subset
    <2> QED
      BY <2>1
  <1>3. LinearOrder(below)
    BY <1>2 DEF LinearOrder
  <1>4. DOMAIN below = keep /\ \A k \in keep : below[k] = {j \in keep : j < k}
    OBVIOUS
  <1>5. Only(seq, keep) = [i \in DOMAIN at |-> seq[at[i]]]
    BY DEF Only
  <1> HIDE DEF below
  <1>6. Lists(at, below)
    BY <1>3, ListingLists
  <1> HIDE DEF at
  <1>7. /\ at \in Seq(keep) /\ \A k \in keep : \E i \in 1..Len(at) : at[i] = k
        /\ \A i, j \in 1..Len(at) : i < j => at[i] \in below[at[j]]
    BY <1>4, <1>6 DEF Lists
  <1>8. /\ Len(at) \in Nat /\ DOMAIN at = 1..Len(at)
        /\ \A i \in 1..Len(at) : at[i] \in keep
    BY <1>7, LenProperties, ElementOfSeq
  <1>9. \A i, j \in 1..Len(at) : i < j => at[i] < at[j]
    BY <1>4, <1>7, <1>8
  <1>10. \A i \in 1..Len(at) : seq[at[i]] \in S
    BY <1>8, ElementOfSeq
  <1>11. Only(seq, keep) \in [1..Len(at) -> S]
    BY <1>5, <1>8, <1>10
  <1>12. Only(seq, keep) \in Seq(S) /\ Len(Only(seq, keep)) = Len(at)
    BY <1>8, <1>11
  <1>13. \A i \in 1..Len(at) : Only(seq, keep)[i] = seq[at[i]]
    BY <1>5, <1>8
  <1>14. KeptAt(at, S, seq, keep)
    BY <1>7, <1>8, <1>9, <1>12, <1>13 DEF KeptAt
  <1> QED
    BY <1>7, <1>14

LEMMA ReorderType ==
    ASSUME NEW d, NEW terms \in Seq(Term(d)), NEW dcols \in {<<>>, <<ValueCol>>}
    PROVE  reorderForDistinct(terms, dcols) \in Seq(Term(d))
  <1>1. CASE dcols = <<>>
    BY <1>1 DEF reorderForDistinct
  <1>2. CASE dcols = <<ValueCol>>
    <2> DEFINE matching(c) == {i \in DOMAIN terms : terms[i].col = c}
               first(c) == CHOOSE i \in matching(c) : \A j \in matching(c) : i <= j
               head(c) == IF matching(c) = {} THEN Asc(c) ELSE terms[first(c)]
               others == {i \in DOMAIN terms : \A j \in DOMAIN dcols : terms[i].col # dcols[j]}
               heads == [i \in DOMAIN dcols |-> head(dcols[i])]
    <2>1. reorderForDistinct(terms, dcols) = heads \o Only(terms, others)
      BY <1>2 DEF reorderForDistinct
    <2>2. DOMAIN terms = 1..Len(terms) /\ Len(terms) \in Nat
      BY LenProperties
    <2>3. head(ValueCol) \in Term(d)
      <3>1. CASE matching(ValueCol) = {}
        BY <3>1 DEF Asc, Term
      <3>2. CASE matching(ValueCol) # {}
        <4>1. PICK i \in matching(ValueCol) : \A j \in 1..(i - 1) : j \notin matching(ValueCol)
          BY <3>2, FirstDifference
        <4>2. \A j \in matching(ValueCol) : i <= j
          BY <2>2, <4>1
        <4>3. first(ValueCol) \in matching(ValueCol)
          BY <4>1, <4>2
        <4> QED
          BY <2>2, <3>2, <4>3, ElementOfSeq
      <3> QED
        BY <3>1, <3>2
    <2>4. heads \in Seq(Term(d))
      <3>1. DOMAIN dcols = 1..1 /\ dcols[1] = ValueCol
        BY <1>2
      <3> HIDE DEF head
      <3>2. heads \in [1..1 -> Term(d)]
        BY <2>3, <3>1
      <3> HIDE DEF heads
      <3> QED BY <3>2
    <2>5. Only(terms, others) \in Seq(Term(d))
      <3>1. others \in SUBSET (1..Len(terms))
        BY <2>2
      <3> HIDE DEF others
      <3>2. \E at \in Seq(others) : KeptAt(at, Term(d), terms, others)
        BY <3>1, OnlyIs
      <3> QED BY <3>2 DEF KeptAt
    <2> HIDE DEF heads, others
    <2> QED
      BY <2>1, <2>4, <2>5, ConcatProperties
  <1> QED
    BY <1>1, <1>2

\* What Fetch reads: the rows beyond the cursors, one per group under DISTINCT ON.
Scanned(d, tab, a, terms, plan) ==
    IF a.distinctOn = <<>> THEN ScanRows(d, tab, a, terms, plan)
    ELSE DistinctOn(tab, terms, a.distinctOn, ScanRows(d, tab, a, terms, plan))

TermsFor(d, a) == reorderForDistinct(orderTerms(d, a.orderBy), a.distinctOn)

ScanOf(d, tab, a) ==
    LET plan == planPage(d, a)
        terms == TermsFor(d, a)
    IN  Sorted(tab, terms, plan.reversed, Scanned(d, tab, a, terms, plan))

\* How many of n rows LIMIT and OFFSET leave.
LimitedTo(n, lim, off) == IF n <= off THEN 0 ELSE LeastOf(n - off, lim)

PageLen(plan, n) == LimitedTo(n, plan.limit, plan.offset)

\* LIMIT and OFFSET of a sequence.
SlicesSeq(S, seq, lim, off) ==
    /\ LimitedTo(Len(seq), lim, off) \in Nat
    /\ LimitOffset(seq, lim, off) \in Seq(S)
    /\ Len(LimitOffset(seq, lim, off)) = LimitedTo(Len(seq), lim, off)
    /\ \A i \in 1..LimitedTo(Len(seq), lim, off) : LimitOffset(seq, lim, off)[i] = seq[off + i]

LEMMA LimitOffsetIs ==
    ASSUME NEW S, NEW seq \in Seq(S), NEW lim \in Nat, NEW off \in Nat
    PROVE  SlicesSeq(S, seq, lim, off)
  <1> DEFINE N == Len(seq)
             m == LimitedTo(N, lim, off)
             lo == off + 1
             hi == LeastOf(N, off + lim)
             page == SubSeq(seq, lo, hi)
  <1>1. LimitOffset(seq, lim, off) = page
    BY DEF LimitOffset
  <1>2. N \in Nat
    BY LenProperties
  <1>3. \A i \in 1..N : seq[i] \in S
    BY ElementOfSeq
  <1> HIDE DEF N
  <1>4. /\ lo \in Int /\ hi \in Int /\ hi <= N /\ lo >= 1
        /\ m \in Nat /\ m = IF lo <= hi THEN hi - lo + 1 ELSE 0
    BY <1>2 DEF LeastOf, LimitedTo
  <1>5. \A i \in lo..hi : seq[i] \in S
    BY <1>2, <1>3, <1>4
  <1> HIDE DEF lo, hi, m
  <1>6. /\ page \in Seq(S)
        /\ Len(page) = IF lo <= hi THEN hi - lo + 1 ELSE 0
        /\ \A i \in 1..(hi - lo + 1) : page[i] = seq[lo + i - 1]
    BY <1>4, <1>5, SubSeqProperties
  <1> HIDE DEF page
  <1>7. page \in Seq(S) /\ Len(page) = m
    BY <1>4, <1>6
  <1>8. ASSUME NEW i \in 1..m PROVE page[i] = seq[off + i]
    <2>1. i \in 1..(hi - lo + 1) /\ lo + i - 1 = off + i
      BY <1>4 DEF lo
    <2> QED
      BY <1>6, <2>1
  <1> QED
    BY <1>1, <1>4, <1>7, <1>8 DEF SlicesSeq, m, N

LEMMA FetchIs ==
    ASSUME NEW d, NEW tab, NEW a,
           planPage(d, a).limit \in Nat, planPage(d, a).offset \in Nat,
           planPage(d, a).predKeyset \in BOOLEAN,
           NEW S, ScanOf(d, tab, a) \in Seq(S)
    PROVE  LET plan == planPage(d, a)
               more == IF plan.predKeyset THEN 1 ELSE 0
               all == ScanOf(d, tab, a)
               fetched == Fetch(d, tab, a, TermsFor(d, a), plan)
               m == LimitedTo(Len(all), plan.limit + more, plan.offset)
           IN  fetched = [i \in 1..m |-> [at |-> all[plan.offset + i],
                                          rn |-> RowNumber(plan, a.distinctOn, i)]]
  <1> DEFINE plan == planPage(d, a)
             more == IF plan.predKeyset THEN 1 ELSE 0
             all == ScanOf(d, tab, a)
             m == LimitedTo(Len(all), plan.limit + more, plan.offset)
             page == LimitOffset(all, plan.limit + more, plan.offset)
  <1>1. Fetch(d, tab, a, TermsFor(d, a), plan)
          = [i \in DOMAIN page |-> [at |-> page[i], rn |-> RowNumber(plan, a.distinctOn, i)]]
    BY DEF Fetch, Bind, Scanned, ScanOf
  <1>2. plan.offset \in Nat /\ plan.limit + more \in Nat /\ all \in Seq(S)
    OBVIOUS
  <1> HIDE DEF plan, more, all
  <1>3. m \in Nat /\ page = [i \in 1..m |-> all[plan.offset + i]]
    <2> DEFINE lim == plan.limit + more
               off == plan.offset
    <2> HIDE DEF lim, off
    <2>1. all \in Seq(S) /\ lim \in Nat /\ off \in Nat
      BY <1>2 DEF lim, off
    <2>2. /\ LimitedTo(Len(all), lim, off) \in Nat
          /\ LimitOffset(all, lim, off) \in Seq(S)
          /\ Len(LimitOffset(all, lim, off)) = LimitedTo(Len(all), lim, off)
          /\ \A i \in 1..LimitedTo(Len(all), lim, off) : LimitOffset(all, lim, off)[i] = all[off + i]
      BY <2>1, LimitOffsetIs DEF SlicesSeq
    <2>3. m \in Nat /\ page \in Seq(S) /\ Len(page) = m /\ \A i \in 1..m : page[i] = all[plan.offset + i]
      BY <2>2 DEF lim, off
    <2> HIDE DEF m, page
    <2>4. DOMAIN page = 1..m /\ page = [i \in DOMAIN page |-> page[i]]
      BY <2>3, LenProperties
    <2> QED
      BY <2>3, <2>4
  <1> HIDE DEF page, m
  <1>4. [i \in DOMAIN page |-> [at |-> page[i], rn |-> RowNumber(plan, a.distinctOn, i)]]
          = [i \in 1..m |-> [at |-> all[plan.offset + i], rn |-> RowNumber(plan, a.distinctOn, i)]]
    BY <1>3
  <1> QED
    BY <1>1, <1>4 DEF plan, more, all, m

\* The page: the first rows of the scan behind the offset, in forward order, its
\* cursors, and whether rows were left over.
TakesPage(d, tab, a, S) ==
    LET plan == planPage(d, a)
        all == ScanOf(d, tab, a)
        n == PageLen(plan, Len(all))
        At(i) == IF plan.reversed THEN n + 1 - i ELSE i
        row(i) == [at |-> all[plan.offset + At(i)],
                   rn |-> RowNumber(plan, a.distinctOn, At(i))]
        page == connectionJSON(d, tab, a)
    IN  /\ n \in Nat
        /\ page.nodes \in Seq(S) /\ Len(page.nodes) = n
        /\ \A i \in 1..n : page.nodes[i] = all[plan.offset + At(i)]
        /\ page.startCursor = IF n = 0 THEN None ELSE CursorOf(plan, row(1))
        /\ page.endCursor = IF n = 0 THEN None ELSE CursorOf(plan, row(n))
        /\ plan.predKeyset =>
             (IF plan.reversed THEN page.prev ELSE page.next)
               = (Len(all) > plan.offset + plan.limit)
        /\ ~plan.predKeyset =>
             page.next = (TotalCount(tab, a.distinctOn) > plan.offset + n)

LEMMA PageIs ==
    ASSUME NEW d, NEW tab, NEW a,
           planPage(d, a).limit \in Nat, planPage(d, a).offset \in Nat,
           planPage(d, a).predKeyset \in BOOLEAN, planPage(d, a).reversed \in BOOLEAN,
           planPage(d, a).predKeyset => a.distinctOn = <<>>,
           NEW S, ScanOf(d, tab, a) \in Seq(S)
    PROVE  TakesPage(d, tab, a, S)
  <1> DEFINE plan == planPage(d, a)
             all == ScanOf(d, tab, a)
             n == PageLen(plan, Len(all))
             At(i) == IF plan.reversed THEN n + 1 - i ELSE i
             F(i) == [at |-> all[plan.offset + i], rn |-> RowNumber(plan, a.distinctOn, i)]
             page == connectionJSON(d, tab, a)
             fetched == Fetch(d, tab, a, TermsFor(d, a), plan)
             m == LimitedTo(Len(all), plan.limit + (IF plan.predKeyset THEN 1 ELSE 0), plan.offset)
             kept == {i \in DOMAIN fetched :
                         plan.predKeyset => fetched[i].rn <= plan.offset + plan.limit}
             rows == Emitted(plan, fetched)
             info == PageInfo(tab, a, plan, fetched)
  <1>1. page = Assembled(tab, a, plan, fetched)
    BY DEF connectionJSON, Bind, TermsFor
  <1>2. fetched = [i \in 1..m |-> F(i)]
    BY FetchIs
  <1>3. /\ Len(all) \in Nat /\ plan.offset \in Nat /\ plan.limit \in Nat
        /\ plan.predKeyset \in BOOLEAN /\ plan.reversed \in BOOLEAN
        /\ plan.predKeyset => a.distinctOn = <<>>
    BY LenProperties
  <1> HIDE DEF plan, all, fetched
  <1>4. /\ m \in Nat /\ n \in Nat /\ n <= m
        /\ plan.predKeyset => (m > plan.limit <=> Len(all) > plan.offset + plan.limit)
        /\ ~plan.predKeyset => m = n
        /\ \A i \in 1..m : i \in 1..n <=> (plan.predKeyset => plan.offset + i <= plan.offset + plan.limit)
    <2> DEFINE N == Len(all)
               off == plan.offset
               lim == plan.limit
               ahead == plan.predKeyset
    <2>1. N \in Nat /\ off \in Nat /\ lim \in Nat /\ ahead \in BOOLEAN
      BY <1>3
    <2>2. /\ n = LimitedTo(N, lim, off)
          /\ m = LimitedTo(N, lim + (IF ahead THEN 1 ELSE 0), off)
      BY DEF PageLen
    <2> HIDE DEF N, off, lim, ahead, n, m
    <2>3. m \in Nat /\ n \in Nat /\ n <= m
      BY <2>1, <2>2 DEF LeastOf, LimitedTo
    <2>4. ahead => (m > lim <=> N > off + lim)
      BY <2>1, <2>2 DEF LeastOf, LimitedTo
    <2>5. ~ahead => m = n
      BY <2>1, <2>2 DEF LeastOf, LimitedTo
    <2>6. \A i \in 1..m : i \in 1..n <=> (ahead => off + i <= off + lim)
      BY <2>1, <2>2 DEF LeastOf, LimitedTo
    <2> QED
      BY <2>3, <2>4, <2>5, <2>6 DEF N, off, lim, ahead
  <1> HIDE DEF m, n
  <1>5. DOMAIN fetched = 1..m /\ \A i \in 1..m : fetched[i] = F(i)
    BY <1>2
  <1>6. fetched \in Seq({F(i) : i \in 1..m}) /\ Len(fetched) = m
    <2>1. fetched \in [1..m -> {F(i) : i \in 1..m}]
      BY <1>2
    <2> HIDE DEF F
    <2> QED BY <1>4, <2>1, FunctionIsSeq
  <1>7. kept = 1..n
    <2>1. ASSUME NEW i \in 1..m
          PROVE  i \in kept <=> i \in 1..n
      <3>1. plan.predKeyset => fetched[i].rn = plan.offset + i
        BY <1>3, <1>5 DEF RowNumber
      <3> QED
        BY <1>4, <1>5, <3>1
    <2>2. kept \subseteq 1..m /\ 1..n \subseteq 1..m
      BY <1>4, <1>5
    <2> QED
      BY <2>1, <2>2
  <1>8. Cardinality(kept) = n
    <2> HIDE DEF kept
    <2> QED BY <1>4, <1>7, FS_Interval
  <1>9. rows = [i \in 1..n |-> fetched[At(i)]]
    BY <1>8 DEF Emitted
  <1> HIDE DEF kept, rows
  <1>10. \A i \in 1..n : At(i) \in 1..m /\ At(i) \in 1..n
    BY <1>3, <1>4
  <1>11. DOMAIN rows = 1..n /\ \A i \in 1..n : rows[i] = F(At(i))
    BY <1>5, <1>9, <1>10
  <1>12. rows \in Seq({F(At(i)) : i \in 1..n}) /\ Len(rows) = n /\ (rows = <<>> <=> n = 0)
    <2>1. rows \in [1..n -> {F(At(i)) : i \in 1..n}]
      BY <1>9, <1>11
    <2> HIDE DEF F, At
    <2>2. rows \in Seq({F(At(i)) : i \in 1..n}) /\ Len(rows) = n
      BY <1>4, <2>1, FunctionIsSeq
    <2> QED
      BY <2>2, EmptySeq
  <1>13. /\ page.nodes = [i \in DOMAIN rows |-> rows[i].at]
         /\ page.startCursor = IF rows = <<>> THEN None ELSE [i \in DOMAIN rows |-> CursorOf(plan, rows[i])][1]
         /\ page.endCursor = IF rows = <<>> THEN None ELSE [i \in DOMAIN rows |-> CursorOf(plan, rows[i])][Len(rows)]
         /\ page.next = info.next /\ page.prev = info.prev
    BY <1>1 DEF Assembled, rows
  <1>14. page.nodes = [i \in 1..n |-> all[plan.offset + At(i)]]
    BY <1>11, <1>13
  <1>18. page.nodes \in Seq(S) /\ Len(page.nodes) = n
    <2>1. \A i \in 1..n : plan.offset + At(i) \in 1..Len(all)
      <3>1. m <= Len(all) - plan.offset \/ m = 0
        BY <1>3 DEF m, LimitedTo, LeastOf
      <3> SUFFICES ASSUME NEW i \in 1..n PROVE plan.offset + At(i) \in 1..Len(all)
        OBVIOUS
      <3> DEFINE k == At(i)
                 N == Len(all)
                 off == plan.offset
      <3>2. k \in 1..m /\ N \in Nat /\ off \in Nat /\ (m <= N - off \/ m = 0)
        BY <1>3, <1>10, <3>1
      <3> HIDE DEF k, N, off
      <3>3. off + k \in 1..N
        BY <1>4, <3>2
      <3> QED
        BY <3>3 DEF k, N, off
    <2>2. all \in Seq(S)
      BY DEF all
    <2> HIDE DEF At
    <2>3. page.nodes \in [1..n -> S]
      BY <1>14, <2>1, <2>2, ElementOfSeq
    <2> HIDE DEF page
    <2> QED
      BY <1>4, <2>3, FunctionIsSeq
  <1>19. \A i \in 1..n : page.nodes[i] = all[plan.offset + At(i)]
    BY <1>14
  <1>15. /\ page.startCursor = IF n = 0 THEN None ELSE CursorOf(plan, F(At(1)))
         /\ page.endCursor = IF n = 0 THEN None ELSE CursorOf(plan, F(At(n)))
    <2>1. CASE n = 0
      BY <1>12, <1>13, <2>1
    <2>2. CASE n # 0
      <3>1. 1 \in 1..n /\ n \in 1..n
        BY <1>4, <2>2
      <3> HIDE DEF F, At
      <3> QED BY <1>11, <1>12, <1>13, <2>2, <3>1
    <2> QED BY <2>1, <2>2
  <1>16. plan.predKeyset => (IF plan.reversed THEN page.prev ELSE page.next)
                              = (Len(all) > plan.offset + plan.limit)
    <2> SUFFICES ASSUME plan.predKeyset
                 PROVE  (IF plan.reversed THEN page.prev ELSE page.next)
                          = (Len(all) > plan.offset + plan.limit)
      OBVIOUS
    <2>1. (IF plan.reversed THEN info.prev ELSE info.next)
            = (Len(fetched) + plan.offset > plan.offset + plan.limit)
      BY DEF PageInfo
    <2>2. (m + plan.offset > plan.offset + plan.limit) <=> (Len(all) > plan.offset + plan.limit)
      BY <1>3, <1>4
    <2>3. (m + plan.offset > plan.offset + plan.limit) = (Len(all) > plan.offset + plan.limit)
      BY <2>2
    <2> QED
      BY <1>6, <1>13, <2>1, <2>3
  <1>17. ~plan.predKeyset => page.next = (TotalCount(tab, a.distinctOn) > plan.offset + n)
    <2> SUFFICES ASSUME ~plan.predKeyset
                 PROVE  page.next = (TotalCount(tab, a.distinctOn) > plan.offset + n)
      OBVIOUS
    <2>1. info.next = (TotalCount(tab, a.distinctOn) > plan.offset + Len(fetched))
      BY DEF PageInfo
    <2> QED
      BY <1>4, <1>6, <1>13, <2>1
  <1> QED
    BY <1>4, <1>15, <1>16, <1>17, <1>18, <1>19 DEF TakesPage, plan, all, n
-----------------------------------------------------------------------------
\* The catalog, the table and the ordering are of one another.
StateTyped ==
    def \in Defs /\ table \in TablesOf(def) /\ orderBy \in Seq(Term(def))

Legacy(a) == Given(a.after) /\ a.after.kind = "offset"

LEMMA CursorKinds ==
    ASSUME NEW c \in Cursors
    PROVE  /\ c.kind \in {"key", "offset", "foreign"}
           /\ c.kind = "key" => c.at \in Slots
           /\ c.kind = "offset" => c.at \in Nat
           /\ c # None
  BY RequestsAssumption DEF Cursors, ForeignCursor

\* What is left of an accepted request's arguments.
LEMMA AcceptedIs ==
    ASSUME StateTyped, NEW a \in Arguments(orderBy), ~Rejected(def, a)
    PROVE  /\ Given(a.after) => a.after \in Cursors /\ a.after.kind \in {"key", "offset"}
           /\ Given(a.before) => a.before \in Cursors /\ a.before.kind = "key"
           /\ Given(a.after) /\ a.after.kind = "key" => HasPK(def) /\ a.distinctOn = <<>>
           /\ Given(a.before) \/ Given(a.last) =>
                HasPK(def) /\ ~Legacy(a) /\ a.distinctOn = <<>> /\ Skipped(a) = 0
           /\ a.offset \in Nat /\ Skipped(a) \in Nat
           /\ Given(a.first) => a.first \in Nat /\ ~Given(a.last)
           /\ Given(a.last) => a.last \in Nat
  <1>1. /\ a.after \in Cursors \cup {None} /\ a.before \in Cursors \cup {None}
        /\ a.first \in Int \cup {None} /\ a.last \in Int \cup {None} /\ a.offset \in Int
    BY DEF Arguments
  <1>2. /\ Given(a.after) => a.after \in Cursors
        /\ Given(a.before) => a.before \in Cursors
    BY <1>1 DEF Given
  <1>3. \A c \in {a.after, a.before} \ {None} :
          c.kind # "foreign" /\ (c.kind = "key" => HasPK(def))
    BY DEF Rejected
  <1>4. /\ Given(a.after) => a.after.kind \in {"key", "offset"}
        /\ Given(a.before) => a.before.kind \in {"key", "offset"}
        /\ Given(a.after) /\ a.after.kind = "key" => HasPK(def)
    BY <1>2, <1>3, CursorKinds DEF Given
  <1>5. Given(a.before) => a.before.kind = "key"
    BY <1>4 DEF Rejected
  <1>6. a.offset \in Nat /\ Skipped(a) \in Nat
    <2>1. a.offset \in Nat
      BY <1>1 DEF Rejected
    <2>2. Given(a.after) /\ a.after.kind = "offset" => a.after.at \in Nat
      BY <1>2, CursorKinds
    <2> QED
      BY <2>1, <2>2 DEF Skipped
  <1>7. Given(a.before) \/ Given(a.last) =>
          HasPK(def) /\ ~Legacy(a) /\ a.distinctOn = <<>> /\ Skipped(a) = 0
    <2>1. Given(a.before) \/ Given(a.last) => HasPK(def) /\ ~Legacy(a) /\ ~(Skipped(a) > 0)
      BY DEF Rejected, Legacy, Skipped
    <2>2. Given(a.before) \/ Given(a.last) => a.distinctOn = <<>>
      BY DEF Rejected
    <2> QED
      BY <1>6, <2>1, <2>2
  <1>8. Given(a.after) /\ a.after.kind = "key" => a.distinctOn = <<>>
    BY <1>4 DEF Rejected
  <1>9. /\ Given(a.first) => a.first \in Nat /\ ~Given(a.last)
        /\ Given(a.last) => a.last \in Nat
    <2>1. Given(a.first) => a.first \in Int /\ ~(a.first < 0) /\ ~Given(a.last)
      BY <1>1 DEF Rejected, Given
    <2>2. Given(a.last) => a.last \in Int /\ ~(a.last < 0)
      BY <1>1 DEF Rejected, Given
    <2> QED
      BY <2>1, <2>2
  <1> QED
    BY <1>2, <1>4, <1>5, <1>6, <1>7, <1>8, <1>9

\* How many rows an accepted request asks for, within the server's cap.
Limit(a) ==
    LET asked == IF Given(a.last) THEN a.last ELSE a.first
    IN  IF Given(asked) THEN LeastOf(asked, MaxPageSize) ELSE MaxPageSize

LEMMA PlanIs ==
    ASSUME StateTyped, NEW a \in Arguments(orderBy), ~Rejected(def, a)
    PROVE  LET plan == planPage(def, a)
           IN  /\ plan.limit = Limit(a) /\ Limit(a) \in Nat
               /\ plan.offset = Skipped(a) /\ Skipped(a) \in Nat
               /\ plan.predKeyset \in BOOLEAN
               /\ plan.predKeyset <=> HasPK(def) /\ ~Legacy(a) /\ a.distinctOn = <<>>
               /\ plan.emitKeyset <=> HasPK(def) /\ a.distinctOn = <<>>
               /\ plan.reversed \in BOOLEAN /\ plan.reversed <=> Given(a.last)
               /\ plan.hasAfter <=> Given(a.after)
               /\ plan.hasBefore <=> Given(a.before)
               /\ plan.reversed => plan.predKeyset /\ plan.offset = 0
  <1> DEFINE plan == planPage(def, a)
             asked == IF Given(a.last) THEN a.last ELSE a.first
  <1>1. Given(asked) => asked \in Nat
    BY AcceptedIs
  <1>2. plan.limit = IF ~Given(asked) \/ asked > MaxPageSize THEN MaxPageSize ELSE asked
    BY DEF planPage
  <1>3. Limit(a) = IF Given(asked) THEN LeastOf(asked, MaxPageSize) ELSE MaxPageSize
    BY DEF Limit
  <1> HIDE DEF asked
  <1>4. plan.limit = Limit(a) /\ Limit(a) \in Nat
    <2> HIDE DEF plan
    <2>1. MaxPageSize \in Nat
      BY MaxPageSizeAssumption
    <2> QED
      BY <1>1, <1>2, <1>3, <2>1 DEF LeastOf
  <1>5. plan.offset = Skipped(a) /\ Skipped(a) \in Nat
    BY AcceptedIs DEF planPage, Skipped
  <1>6. /\ plan.predKeyset \in BOOLEAN
        /\ plan.predKeyset <=> HasPK(def) /\ ~Legacy(a) /\ a.distinctOn = <<>>
    BY DEF planPage, Legacy
  <1>7. /\ plan.emitKeyset <=> HasPK(def) /\ a.distinctOn = <<>>
        /\ plan.reversed \in BOOLEAN /\ plan.reversed <=> Given(a.last)
        /\ plan.hasAfter <=> Given(a.after)
        /\ plan.hasBefore <=> Given(a.before)
    BY DEF planPage, Given
  <1>8. plan.reversed => plan.predKeyset /\ plan.offset = 0
    BY <1>5, <1>6, <1>7, AcceptedIs
  <1> QED
    BY <1>4, <1>5, <1>6, <1>7, <1>8

\* The terms of a request, and what they can order.
LEMMA TermsType ==
    ASSUME StateTyped, NEW a \in Arguments(orderBy)
    PROVE  /\ orderTerms(def, a.orderBy) \in Seq(Term(def))
           /\ TermsFor(def, a) \in Seq(Term(def))
           /\ \A s \in Rows(table) : s \in Slots /\ Comparable(table, TermsFor(def, a), s)
           /\ a.distinctOn = <<>> => TermsFor(def, a) = orderTerms(def, a.orderBy)
           /\ HasPK(def) /\ a.distinctOn = <<>> => Distinguishes(table, TermsFor(def, a), Slots)
  <1>1. a.orderBy = orderBy /\ a.distinctOn \in {<<>>, <<ValueCol>>}
    BY DEF Arguments
  <1>2. orderTerms(def, a.orderBy) \in Seq(Term(def))
    BY <1>1, OrderTermsType DEF StateTyped
  <1>3. TermsFor(def, a) \in Seq(Term(def))
    BY <1>1, <1>2, ReorderType DEF TermsFor
  <1>4. ASSUME NEW s \in Rows(table)
        PROVE  s \in Slots /\ Comparable(table, TermsFor(def, a), s)
    <2>1. Located(def, table, TermsFor(def, a), s)
      BY DEF Located, Rows
    <2> QED
      BY <1>3, <2>1, LocatedComparable DEF StateTyped, Rows
  <1>5. a.distinctOn = <<>> => TermsFor(def, a) = orderTerms(def, a.orderBy)
    BY DEF TermsFor, reorderForDistinct
  <1>6. HasPK(def) => Distinguishes(table, orderTerms(def, a.orderBy), Slots)
    <2> DEFINE terms == orderTerms(def, a.orderBy)
    <2>1. HasPK(def) => \A c \in PKColumns(def) : \E i \in DOMAIN terms : terms[i].col = c
      BY <1>1, OrderTermsType DEF StateTyped
    <2> HIDE DEF terms
    <2>2. HasPK(def) => Distinguishes(table, terms, Slots)
      BY <2>1, KeyDistinguishes DEF StateTyped
    <2> QED
      BY <2>2 DEF terms
  <1> QED
    BY <1>2, <1>3, <1>4, <1>5, <1>6

\* A cursor whose row is gone can be used when the terms read only keys.
LEMMA CursorLocated ==
    ASSUME StateTyped, NEW a \in Arguments(orderBy), Locatable(a),
           NEW c \in {a.after, a.before}, c \in Cursors, c.kind = "key"
    PROVE  Located(def, table, orderTerms(def, a.orderBy), c.at)
  <1>1. c # None /\ c.at \in Slots
    BY CursorKinds
  <1>2. table[c.at] # Absent \/ \A i \in DOMAIN a.orderBy : a.orderBy[i].col \in PKColumns(def)
    BY <1>1 DEF Locatable
  <1>3. (\A i \in DOMAIN a.orderBy : a.orderBy[i].col \in PKColumns(def)) =>
          \A i \in DOMAIN orderTerms(def, a.orderBy) : orderTerms(def, a.orderBy)[i].col \in PKColumns(def)
    BY OrderTermsType DEF StateTyped, Arguments
  <1> QED
    BY <1>1, <1>2, <1>3 DEF Located, Rows

\* The scan reads the rows of the reference window.
LEMMA ScannedIsWindow ==
    ASSUME StateTyped, NEW a \in Arguments(orderBy), ~Rejected(def, a), Locatable(a)
    PROVE  /\ Scanned(def, table, a, TermsFor(def, a), planPage(def, a)) = Window(a)
           /\ Window(a) \subseteq Groups(a) /\ Groups(a) \subseteq Rows(table)
  <1> DEFINE plan == planPage(def, a)
             terms == TermsFor(def, a)
             after == {s \in Rows(table) :
                         Given(a.after) /\ a.after.kind = "key" =>
                            Precedes(table, orderTerms(def, a.orderBy), FALSE, a.after.at, s)}
             before == {s \in Rows(table) :
                         Given(a.before) =>
                            Precedes(table, orderTerms(def, a.orderBy), FALSE, s, a.before.at)}
             KeyedBy(cursor, flip) ==
                {s \in Rows(table) :
                   keysetPredicate(def, table, terms, anchorVals(def, table, terms, cursor.at), flip, s)}
  <1>0. /\ terms \in Seq(Term(def)) /\ orderTerms(def, a.orderBy) \in Seq(Term(def))
        /\ \A s \in Rows(table) : s \in Slots /\ Comparable(table, terms, s)
        /\ def \in Defs /\ table \in TablesOf(def)
    BY TermsType DEF StateTyped
  <1>1. Groups(a) \subseteq Rows(table) /\ (a.distinctOn = <<>> => Groups(a) = Rows(table))
    BY DEF Groups
  <1>2. Window(a) = Groups(a) \cap after \cap before
    BY <1>1 DEF Window
  <1>3. ScanRows(def, table, a, terms, plan)
          = Rows(table)
            \cap (IF plan.predKeyset /\ plan.hasAfter THEN KeyedBy(a.after, FALSE) ELSE Slots)
            \cap (IF plan.predKeyset /\ plan.hasBefore THEN KeyedBy(a.before, TRUE) ELSE Slots)
    BY DEF ScanRows, Bind
  <1>4. Rows(table) \subseteq Slots
    BY DEF Rows
  <1>5. CASE a.distinctOn # <<>>
    <2>1. ~plan.predKeyset
      BY <1>5, PlanIs
    <2>2. ScanRows(def, table, a, terms, plan) = Rows(table)
      BY <1>3, <1>4, <2>1
    <2>3. after = Rows(table) /\ before = Rows(table)
      BY <1>5, AcceptedIs
    <2>4. a.distinctOn = <<ValueCol>>
      BY <1>5 DEF Arguments
    <2>5. DistinctOn(table, terms, a.distinctOn, Rows(table)) = Groups(a)
      <3>1. ASSUME NEW r, NEW s
            PROVE  (\A i \in DOMAIN a.distinctOn :
                      Column(table, r, a.distinctOn[i]) = Column(table, s, a.distinctOn[i]))
                     <=> table[r] = table[s]
        <4>1. DOMAIN a.distinctOn = {1} /\ a.distinctOn[1] = ValueCol
          BY <2>4
        <4> QED
          BY <4>1 DEF Column
      <3>2. \A r, s \in Rows(table) :
              r # s => (~Precedes(table, terms, FALSE, r, s) <=> Precedes(table, terms, FALSE, s, r))
        <4> SUFFICES ASSUME NEW r \in Rows(table), NEW s \in Rows(table), r # s
                     PROVE  ~Precedes(table, terms, FALSE, r, s) <=> Precedes(table, terms, FALSE, s, r)
          OBVIOUS
        <4>1. r \in Int /\ s \in Int /\ Comparable(table, terms, r) /\ Comparable(table, terms, s)
          BY <1>0, SlotsAssumption
        <4> HIDE DEF terms
        <4>2. Precedes(table, terms, FALSE, r, s) \/ Precedes(table, terms, FALSE, s, r)
          BY <1>0, <4>1, PrecedesTotal
        <4>3. ~(Precedes(table, terms, FALSE, r, s) /\ Precedes(table, terms, FALSE, s, r))
          BY <1>0, <4>1, PrecedesTransitive, PrecedesIrreflexive
        <4> QED
          BY <4>2, <4>3
      <3>3. Groups(a) = {s \in Rows(table) : \A r \in Rows(table) :
                           table[r] = table[s] /\ r # s => Precedes(table, terms, FALSE, s, r)}
        BY <1>5 DEF Groups, TermsFor
      <3>4. DistinctOn(table, terms, a.distinctOn, Rows(table))
              = {s \in Rows(table) : ~\E r \in Rows(table) :
                   r # s /\ table[r] = table[s] /\ Precedes(table, terms, FALSE, r, s)}
        BY <3>1 DEF DistinctOn
      <3> HIDE DEF terms
      <3> QED
        BY <3>2, <3>3, <3>4
    <2> HIDE DEF plan, terms, after, before
    <2>6. Scanned(def, table, a, terms, plan) = DistinctOn(table, terms, a.distinctOn, Rows(table))
      BY <1>5, <2>2 DEF Scanned
    <2> QED
      BY <1>1, <1>2, <2>3, <2>5, <2>6 DEF plan, terms
  <1>6. CASE a.distinctOn = <<>>
    <2>1. terms = orderTerms(def, a.orderBy)
      BY <1>6, TermsType
    <2>2. HasPK(def) => Distinguishes(table, terms, Slots)
      BY <1>6, TermsType
    <2>3. (IF plan.predKeyset /\ plan.hasAfter THEN KeyedBy(a.after, FALSE) ELSE Slots)
            \cap Rows(table) = after
      <3>1. CASE Given(a.after) /\ a.after.kind = "key"
        <4>1. a.after \in Cursors /\ HasPK(def) /\ ~Legacy(a)
          BY <3>1, AcceptedIs DEF Legacy
        <4>2. plan.predKeyset /\ plan.hasAfter
          BY <1>6, <3>1, <4>1, PlanIs
        <4>3. Located(def, table, terms, a.after.at)
          BY <2>1, <3>1, <4>1, CursorLocated
        <4> HIDE DEF terms
        <4>4. ASSUME NEW s \in Rows(table)
              PROVE  s \in KeyedBy(a.after, FALSE) <=> Precedes(table, terms, FALSE, a.after.at, s)
          BY <1>0, <2>2, <4>1, <4>3, KeysetIsTotalOrder
        <4> QED
          BY <2>1, <3>1, <4>2, <4>4
      <3>2. CASE ~(Given(a.after) /\ a.after.kind = "key")
        <4>1. ~(plan.predKeyset /\ plan.hasAfter)
          BY <3>2, PlanIs, AcceptedIs DEF Legacy
        <4>2. after = Rows(table)
          BY <3>2
        <4> HIDE DEF after
        <4> QED
          BY <1>4, <4>1, <4>2
      <3> QED
        BY <3>1, <3>2
    <2>4. (IF plan.predKeyset /\ plan.hasBefore THEN KeyedBy(a.before, TRUE) ELSE Slots)
            \cap Rows(table) = before
      <3>1. CASE Given(a.before)
        <4>1. a.before \in Cursors /\ a.before.kind = "key" /\ HasPK(def) /\ ~Legacy(a)
          BY <3>1, AcceptedIs
        <4>2. plan.predKeyset /\ plan.hasBefore
          BY <1>6, <3>1, <4>1, PlanIs
        <4>3. Located(def, table, terms, a.before.at)
          BY <2>1, <3>1, <4>1, CursorLocated
        <4> HIDE DEF terms
        <4>4. ASSUME NEW s \in Rows(table)
              PROVE  s \in KeyedBy(a.before, TRUE) <=> Precedes(table, terms, FALSE, s, a.before.at)
          <5>1. s \in KeyedBy(a.before, TRUE) <=> Precedes(table, terms, TRUE, a.before.at, s)
            BY <1>0, <2>2, <4>1, <4>3, KeysetIsTotalOrder
          <5>2. s \in Slots /\ a.before.at \in Slots
            BY <1>4, <4>1, CursorKinds
          <5>3. CASE s = a.before.at
            <6>1. Comparable(table, terms, s) /\ s \in Int
              BY <1>0, <5>2, SlotsAssumption
            <6>2. ~Precedes(table, terms, TRUE, s, s) /\ ~Precedes(table, terms, FALSE, s, s)
              BY <6>1, PrecedesIrreflexive
            <6> QED
              BY <5>1, <5>3, <6>2
          <5>4. CASE s # a.before.at
            <6>1. Precedes(table, terms, TRUE, a.before.at, s)
                    <=> Precedes(table, terms, FALSE, s, a.before.at)
              BY <1>0, <2>2, <4>1, <5>2, <5>4, ReversedPrecedes
            <6> QED
              BY <5>1, <6>1
          <5> QED
            BY <5>3, <5>4
        <4> QED
          BY <2>1, <3>1, <4>2, <4>4
      <3>2. CASE ~Given(a.before)
        <4>1. ~plan.hasBefore
          BY <3>2, PlanIs
        <4>2. before = Rows(table)
          BY <3>2
        <4> HIDE DEF before
        <4> QED
          BY <1>4, <4>1, <4>2
      <3> QED
        BY <3>1, <3>2
    <2>5. Scanned(def, table, a, terms, plan) = ScanRows(def, table, a, terms, plan)
      BY <1>6 DEF Scanned
    <2>6. after \subseteq Rows(table) /\ before \subseteq Rows(table)
      OBVIOUS
    <2> HIDE DEF plan, terms, after, before, KeyedBy
    <2> QED
      BY <1>1, <1>2, <1>3, <1>6, <2>3, <2>4, <2>5, <2>6 DEF plan, terms
  <1> QED
    BY <1>5, <1>6

\* A set of rows that is not empty has a first one.
LEMMA FirstOf ==
    ASSUME StateTyped, NEW a \in Arguments(orderBy),
           NEW rows \in SUBSET Rows(table), rows # {}
    PROVE  \E s \in rows : \A r \in rows \ {s} : Precedes(table, TermsFor(def, a), FALSE, s, r)
  <1> DEFINE terms == TermsFor(def, a)
             q == Sorted(table, terms, FALSE, rows)
  <1>1. /\ terms \in Seq(Term(def)) /\ rows \in SUBSET Slots
        /\ \A s \in rows : Comparable(table, terms, s)
    BY TermsType
  <1> HIDE DEF terms
  <1>2. InOrder(table, terms, FALSE, rows, q)
    BY <1>1, SortedInOrder
  <1> HIDE DEF q
  <1>3. Len(q) \in Nat /\ \A i \in 1..Len(q) : q[i] \in rows
    BY <1>2, LenProperties, ElementOfSeq DEF InOrder
  <1>4. 1 \in 1..Len(q) /\ q[1] \in rows
    <2>1. PICK r \in rows : TRUE
      OBVIOUS
    <2>2. PICK i \in 1..Len(q) : q[i] = r
      BY <1>2, <2>1 DEF InOrder
    <2> QED
      BY <1>3, <2>2
  <1>5. ASSUME NEW r \in rows \ {q[1]} PROVE Precedes(table, terms, FALSE, q[1], r)
    <2>1. PICK i \in 1..Len(q) : q[i] = r
      BY <1>2 DEF InOrder
    <2>2. 1 < i
      BY <1>3, <1>5, <2>1
    <2> QED
      BY <1>2, <1>4, <2>1, <2>2 DEF InOrder
  <1> QED
    BY <1>4, <1>5 DEF terms

\* The total counts the rows the scan of an unfiltered request reads.
LEMMA TotalIsGroups ==
    ASSUME StateTyped, NEW a \in Arguments(orderBy)
    PROVE  TotalCount(table, a.distinctOn) = Cardinality(Groups(a))
  <1>1. CASE a.distinctOn = <<>>
    BY <1>1 DEF TotalCount, Groups
  <1>2. CASE a.distinctOn = <<ValueCol>>
    <2> DEFINE values == {table[s] : s \in Rows(table)}
               first == [s \in Groups(a) |-> table[s]]
               terms == TermsFor(def, a)
    <2>1. TotalCount(table, a.distinctOn) = Cardinality(values)
      BY <1>2 DEF TotalCount, Column
    <2>2. Groups(a) = {s \in Rows(table) : \A r \in Rows(table) :
                         table[r] = table[s] /\ r # s => Precedes(table, terms, FALSE, s, r)}
      BY <1>2 DEF Groups, TermsFor
    <2>3. first \in [Groups(a) -> values]
      BY <2>2
    <2>4. ASSUME NEW v \in values PROVE \E s \in Groups(a) : first[s] = v
      <3> DEFINE group == {s \in Rows(table) : table[s] = v}
      <3>1. group \in SUBSET Rows(table) /\ group # {}
        OBVIOUS
      <3> HIDE DEF group
      <3>2. PICK s \in group : \A r \in group \ {s} : Precedes(table, terms, FALSE, s, r)
        BY <3>1, FirstOf
      <3>3. s \in Groups(a) /\ table[s] = v
        BY <2>2, <3>2 DEF group
      <3> QED
        BY <3>3
    <2>5. ASSUME NEW s \in Groups(a), NEW r \in Groups(a), first[s] = first[r]
          PROVE  s = r
      <3>1. s \in Rows(table) /\ r \in Rows(table) /\ table[s] = table[r]
        BY <2>2, <2>5
      <3>2. /\ terms \in Seq(Term(def)) /\ s \in Int /\ r \in Int
            /\ Comparable(table, terms, s) /\ Comparable(table, terms, r)
        BY <3>1, TermsType, SlotsAssumption
      <3>3. s # r => Precedes(table, terms, FALSE, s, r) /\ Precedes(table, terms, FALSE, r, s)
        BY <2>2, <3>1
      <3> HIDE DEF terms
      <3>4. s # r => Precedes(table, terms, FALSE, s, s)
        BY <3>2, <3>3, PrecedesTransitive
      <3>5. ~Precedes(table, terms, FALSE, s, s)
        BY <3>2, PrecedesIrreflexive
      <3> QED
        BY <3>4, <3>5
    <2> HIDE DEF first, values
    <2>6. first \in Bijection(Groups(a), values)
      BY <2>3, <2>4, <2>5 DEF Bijection, Injection, Surjection, IsInjective
    <2>7. IsFiniteSet(Groups(a))
      <3>1. Groups(a) \in SUBSET Slots
        BY DEF Groups, Rows
      <3> QED
        BY <3>1, SlotsAssumption, FS_Subset
    <2>8. Cardinality(values) = Cardinality(Groups(a))
      BY <2>6, <2>7, FS_Bijection DEF ExistsBijection
    <2> QED
      BY <2>1, <2>8
  <1> QED
    BY <1>1, <1>2 DEF Arguments

\* The rows between a request's cursors, in order.
WindowOf(a) == Ordered(a, Window(a))

LEMMA WindowInOrder ==
    ASSUME StateTyped, NEW a \in Arguments(orderBy)
    PROVE  /\ Window(a) \subseteq Groups(a) /\ Groups(a) \subseteq Rows(table)
           /\ WindowOf(a) = Sorted(table, TermsFor(def, a), FALSE, Window(a))
           /\ InOrder(table, TermsFor(def, a), FALSE, Window(a), WindowOf(a))
           /\ WindowOf(a) \in Seq(Slots)
           /\ Len(WindowOf(a)) = Cardinality(Window(a)) /\ Len(WindowOf(a)) \in Nat
  <1> DEFINE terms == TermsFor(def, a)
             W == Sorted(table, terms, FALSE, Window(a))
  <1>1. Window(a) \subseteq Groups(a) /\ Groups(a) \subseteq Rows(table) /\ Rows(table) \subseteq Slots
    BY DEF Window, Groups, Rows
  <1>2. /\ terms \in Seq(Term(def)) /\ Window(a) \in SUBSET Slots
        /\ \A s \in Window(a) : Comparable(table, terms, s)
    BY <1>1, TermsType
  <1>3. WindowOf(a) = W
    BY DEF WindowOf, Ordered, TermsFor
  <1> HIDE DEF terms
  <1>4. InOrder(table, terms, FALSE, Window(a), W) /\ Len(W) = Cardinality(Window(a))
    BY <1>2, SortedInOrder
  <1> HIDE DEF W
  <1>5. W \in Seq(Slots) /\ Len(W) \in Nat
    <2>1. W \in Seq(Window(a))
      BY <1>4 DEF InOrder
    <2> QED
      BY <1>2, <2>1, SeqMonotonic, LenProperties
  <1> QED
    BY <1>1, <1>3, <1>4, <1>5 DEF W, terms

\* The page is a slice of its window, from the front behind what is skipped, or
\* from the end, and the server knows whether that is all.
SlicesWindow(a) ==
    LET page == connectionJSON(def, table, a)
        W == WindowOf(a)
        N == Len(W)
        n == LimitedTo(N, Limit(a), Skipped(a))
    IN  /\ n \in Nat /\ n <= N
        /\ page.nodes \in Seq(Slots) /\ Len(page.nodes) = n
        /\ \A i \in 1..n :
             page.nodes[i] = W[IF Given(a.last) THEN N - n + i ELSE Skipped(a) + i]
        /\ (IF Given(a.last) THEN page.prev ELSE page.next) = (N > n + Skipped(a))
        /\ HasPK(def) /\ a.distinctOn = <<>> =>
             /\ page.startCursor = IF n = 0 THEN None ELSE KeyCursor(page.nodes[1])
             /\ page.endCursor = IF n = 0 THEN None ELSE KeyCursor(page.nodes[n])
        /\ a.distinctOn # <<>> =>
             page.endCursor = IF n = 0 THEN None ELSE OffsetCursor(Skipped(a) + n)

LEMMA PageIsWindow ==
    ASSUME StateTyped, NEW a \in Arguments(orderBy), ~Rejected(def, a), Locatable(a)
    PROVE  SlicesWindow(a)
  <1> DEFINE page == connectionJSON(def, table, a)
             plan == planPage(def, a)
             terms == TermsFor(def, a)
             W == WindowOf(a)
             N == Len(W)
             off == Skipped(a)
             lim == Limit(a)
             all == ScanOf(def, table, a)
             n == LimitedTo(N, lim, off)
             At(i) == IF plan.reversed THEN n + 1 - i ELSE i
             row(i) == [at |-> all[plan.offset + At(i)],
                        rn |-> RowNumber(plan, a.distinctOn, At(i))]
  <1>1. /\ plan.limit = lim /\ lim \in Nat /\ plan.offset = off /\ off \in Nat
        /\ plan.predKeyset \in BOOLEAN
        /\ plan.predKeyset <=> HasPK(def) /\ ~Legacy(a) /\ a.distinctOn = <<>>
        /\ plan.emitKeyset <=> HasPK(def) /\ a.distinctOn = <<>>
        /\ plan.reversed \in BOOLEAN /\ plan.reversed <=> Given(a.last)
        /\ plan.reversed => plan.predKeyset /\ off = 0
    BY PlanIs
  <1>2. /\ Window(a) \in SUBSET Slots /\ W \in Seq(Slots) /\ N \in Nat
        /\ N = Cardinality(Window(a)) /\ W = Sorted(table, terms, FALSE, Window(a))
        /\ \A s \in Window(a) : Comparable(table, terms, s)
    BY WindowInOrder, TermsType
  <1>3. all = Sorted(table, terms, plan.reversed, Window(a))
    BY ScannedIsWindow DEF ScanOf
  <1>4. terms \in Seq(Term(def)) /\ def \in Defs
    BY TermsType DEF StateTyped
  <1>5. plan.reversed => Distinguishes(table, terms, Slots)
    BY <1>1, TermsType
  <1> HIDE DEF terms, W, all
  <1>6. all \in Seq(Slots) /\ Len(all) = N
    <2>1. /\ InOrder(table, terms, plan.reversed, Window(a), all)
          /\ Len(all) = Cardinality(Window(a))
      BY <1>2, <1>3, <1>4, SortedInOrder
    <2>2. all \in Seq(Window(a))
      BY <2>1 DEF InOrder
    <2> QED
      BY <1>2, <2>1, <2>2, SeqMonotonic
  <1>7. \A i \in 1..N : all[i] = W[IF plan.reversed THEN N + 1 - i ELSE i]
    <2>1. CASE plan.reversed
      <3>1. plan.reversed = TRUE
        BY <1>1, <2>1
      <3>2. \A i \in 1..N : Sorted(table, terms, TRUE, Window(a))[i]
                             = Sorted(table, terms, FALSE, Window(a))[N + 1 - i]
        <4> HIDE DEF N
        <4> QED BY <1>2, <1>4, <1>5, <2>1, ReversedSorted
      <3> QED
        BY <1>2, <1>3, <2>1, <3>1, <3>2
    <2>2. CASE ~plan.reversed
      <3>1. plan.reversed = FALSE
        BY <1>1, <2>2
      <3> QED
        BY <1>2, <1>3, <2>2, <3>1
    <2> QED BY <2>1, <2>2
  <1>8. n = PageLen(plan, Len(all))
    BY <1>1, <1>6 DEF PageLen
  <1>9. /\ page.nodes \in Seq(Slots) /\ Len(page.nodes) = n /\ n \in Nat
        /\ \A i \in 1..n : page.nodes[i] = all[plan.offset + At(i)]
        /\ page.startCursor = IF n = 0 THEN None ELSE CursorOf(plan, row(1))
        /\ page.endCursor = IF n = 0 THEN None ELSE CursorOf(plan, row(n))
        /\ plan.predKeyset =>
             (IF plan.reversed THEN page.prev ELSE page.next) = (Len(all) > plan.offset + plan.limit)
        /\ ~plan.predKeyset => page.next = (TotalCount(table, a.distinctOn) > plan.offset + n)
    <2>1. planPage(def, a).limit \in Nat /\ planPage(def, a).offset \in Nat
      <3>1. planPage(def, a).limit = Limit(a) /\ planPage(def, a).offset = Skipped(a)
        BY <1>1
      <3>2. Limit(a) \in Nat /\ Skipped(a) \in Nat
        BY <1>1
      <3> QED BY <3>1, <3>2
    <2>5. planPage(def, a).predKeyset \in BOOLEAN /\ planPage(def, a).reversed \in BOOLEAN
      <3>1. planPage(def, a).predKeyset \in BOOLEAN
        BY DEF planPage
      <3>2. planPage(def, a).reversed \in BOOLEAN
        BY DEF planPage, Given
      <3> QED BY <3>1, <3>2
    <2>6. planPage(def, a).predKeyset => a.distinctOn = <<>>
      BY <1>1
    <2>4. ScanOf(def, table, a) \in Seq(Slots)
      BY <1>6 DEF all
    <2>2. TakesPage(def, table, a, Slots)
      BY <2>1, <2>4, <2>5, <2>6, PageIs
    <2> HIDE DEF n, plan, page
    <2>3. n = PageLen(planPage(def, a), Len(ScanOf(def, table, a)))
      BY <1>8 DEF plan, all
    <2> QED
      BY <2>2, <2>3 DEF TakesPage, plan, page, all
  <1> HIDE DEF plan, page, N, off, lim
  <1>10. /\ n <= N /\ (n = 0 \/ n <= N - off)
         /\ (N > off + lim) = (N > n + off)
    <2>1. n <= N /\ (n = 0 \/ n <= N - off)
      BY <1>1, <1>2 DEF LimitedTo, LeastOf
    <2>2. (N > off + lim) <=> (N > n + off)
      BY <1>1, <1>2 DEF LimitedTo, LeastOf
    <2> QED
      BY <2>1, <2>2
  <1> HIDE DEF n
  <1>11. ASSUME NEW i \in 1..n
         PROVE  page.nodes[i] = W[IF Given(a.last) THEN N - n + i ELSE off + i]
    <2>1. page.nodes[i] = all[off + At(i)]
      BY <1>1, <1>9
    <2>2. CASE plan.reversed
      <3>1. /\ off + At(i) = n + 1 - i /\ n + 1 - i \in 1..N
            /\ N + 1 - (n + 1 - i) = N - n + i
        BY <1>1, <1>2, <1>9, <1>10, <2>2
      <3>2. all[n + 1 - i] = W[N + 1 - (n + 1 - i)]
        BY <1>7, <2>2, <3>1
      <3> QED
        BY <1>1, <2>1, <2>2, <3>1, <3>2
    <2>3. CASE ~plan.reversed
      <3>1. off + At(i) = off + i /\ off + i \in 1..N
        BY <1>1, <1>2, <1>9, <1>10, <2>3
      <3> QED
        BY <1>1, <1>7, <2>1, <2>3, <3>1
    <2> QED BY <2>2, <2>3
  <1>12. (IF Given(a.last) THEN page.prev ELSE page.next) = (N > n + off)
    <2>1. CASE plan.predKeyset
      BY <1>1, <1>6, <1>9, <1>10, <2>1
    <2>2. CASE ~plan.predKeyset
      <3>1. ~Given(a.last) /\ ~Given(a.before) /\ ~(Given(a.after) /\ a.after.kind = "key")
        BY <1>1, <2>2, AcceptedIs DEF Legacy
      <3>2. Window(a) = Groups(a)
        BY <3>1 DEF Window
      <3>3. TotalCount(table, a.distinctOn) = N
        BY <1>2, <3>2, TotalIsGroups
      <3>4. (N > off + n) = (N > n + off)
        BY <1>1, <1>2, <1>9
      <3> QED
        BY <1>1, <1>9, <2>2, <3>1, <3>3, <3>4
    <2> QED BY <2>1, <2>2
  <1>13. HasPK(def) /\ a.distinctOn = <<>> =>
           /\ page.startCursor = IF n = 0 THEN None ELSE KeyCursor(page.nodes[1])
           /\ page.endCursor = IF n = 0 THEN None ELSE KeyCursor(page.nodes[n])
    <2> SUFFICES ASSUME HasPK(def), a.distinctOn = <<>>, n # 0
                 PROVE  /\ page.startCursor = KeyCursor(page.nodes[1])
                        /\ page.endCursor = KeyCursor(page.nodes[n])
      BY <1>9
    <2>1. 1 \in 1..n /\ n \in 1..n /\ plan.emitKeyset
      BY <1>1, <1>9
    <2>2. page.nodes[1] = row(1).at /\ page.nodes[n] = row(n).at
      <3>1. page.nodes[1] = all[plan.offset + At(1)] /\ page.nodes[n] = all[plan.offset + At(n)]
        BY <1>9, <2>1
      <3> QED
        BY <3>1
    <2> HIDE DEF row
    <2> QED
      BY <1>9, <2>1, <2>2 DEF CursorOf
  <1>14. a.distinctOn # <<>> =>
           page.endCursor = IF n = 0 THEN None ELSE OffsetCursor(off + n)
    <2> SUFFICES ASSUME a.distinctOn # <<>>, n # 0
                 PROVE  page.endCursor = OffsetCursor(off + n)
      BY <1>9
    <2>1. ~plan.emitKeyset /\ ~plan.reversed
      BY <1>1
    <2>2. row(n).rn = n
      BY <2>1 DEF RowNumber
    <2> HIDE DEF row
    <2>3. page.endCursor = OffsetCursor(n + plan.offset)
      BY <1>9, <2>1, <2>2 DEF CursorOf
    <2> QED
      BY <1>1, <1>9, <2>3
  <1> QED
    BY <1>9, <1>10, <1>11, <1>12, <1>13, <1>14 DEF SlicesWindow, page, W, N, n, off, lim

\* The page of an accepted request is the reference page.
PageIsReference(a) ==
    LET page == connectionJSON(def, table, a)
    IN  /\ page.nodes = ReferenceNodes(a)
        /\ (IF Given(a.last) THEN page.prev ELSE page.next) = ReferenceMore(a)

LEMMA PagesAreReference ==
    ASSUME StateTyped, NEW a \in Arguments(orderBy), ~Rejected(def, a), Locatable(a)
    PROVE  PageIsReference(a)
  <1> DEFINE page == connectionJSON(def, table, a)
             W == WindowOf(a)
             N == Len(W)
             off == Skipped(a)
             lim == Limit(a)
             n == LimitedTo(N, lim, off)
  <1>1. /\ lim \in Nat /\ off \in Nat /\ (Given(a.last) => off = 0)
        /\ W \in Seq(Slots) /\ N \in Nat /\ N = Cardinality(Window(a))
    BY PlanIs, AcceptedIs, WindowInOrder
  <1>2. /\ n \in Nat /\ n <= N
        /\ page.nodes \in Seq(Slots) /\ Len(page.nodes) = n
        /\ \A i \in 1..n : page.nodes[i] = W[IF Given(a.last) THEN N - n + i ELSE off + i]
        /\ (IF Given(a.last) THEN page.prev ELSE page.next) = (N > n + off)
    BY PageIsWindow DEF SlicesWindow
  <1>3. ReferenceNodes(a) = IF Given(a.last) THEN SubSeq(W, MostOf(0, N - lim) + 1, N)
                            ELSE LimitOffset(W, lim, off)
    BY DEF ReferenceNodes, Limit, WindowOf
  <1> HIDE DEF page, W, off, lim
  <1>4. page.nodes = ReferenceNodes(a)
    <2>1. CASE Given(a.last)
      <3> DEFINE lo == MostOf(0, N - lim) + 1
                 ref == SubSeq(W, lo, N)
      <3>1. ref = ReferenceNodes(a)
        BY <1>3, <2>1
      <3>2. \A i \in 1..N : W[i] \in Slots
        BY <1>1, ElementOfSeq
      <3> HIDE DEF N
      <3>3. lo \in 1..(N + 1) /\ n = N - lo + 1
        BY <1>1, <2>1 DEF MostOf, LimitedTo, LeastOf
      <3> HIDE DEF lo, n
      <3>4. \A i \in lo..N : W[i] \in Slots
        BY <1>1, <3>2, <3>3
      <3>5. /\ ref \in Seq(Slots)
            /\ Len(ref) = IF lo <= N THEN N - lo + 1 ELSE 0
            /\ \A i \in 1..(N - lo + 1) : ref[i] = W[lo + i - 1]
        BY <1>1, <3>3, <3>4, SubSeqProperties
      <3> HIDE DEF ref
      <3>6. ref \in Seq(Slots) /\ Len(ref) = n
        BY <1>1, <3>3, <3>5
      <3>7. ASSUME NEW i \in 1..n PROVE page.nodes[i] = ref[i]
        <4>1. i \in 1..(N - lo + 1) /\ lo + i - 1 = N - n + i
          BY <1>1, <3>3
        <4> QED
          BY <1>2, <2>1, <3>5, <4>1
      <3> QED
        BY <1>2, <3>1, <3>6, <3>7, SeqEqual
    <2>2. CASE ~Given(a.last)
      <3> DEFINE ref == LimitOffset(W, lim, off)
      <3>1. ref = ReferenceNodes(a)
        BY <1>3, <2>2
      <3>2. /\ ref \in Seq(Slots) /\ Len(ref) = n
            /\ \A i \in 1..n : ref[i] = W[off + i]
        <4>1. SlicesSeq(Slots, W, lim, off)
          BY <1>1, LimitOffsetIs
        <4> QED BY <4>1 DEF SlicesSeq
      <3> HIDE DEF ref, N, n
      <3>3. \A i \in 1..n : page.nodes[i] = ref[i]
        BY <1>2, <2>2, <3>2
      <3> QED
        BY <1>2, <3>1, <3>2, <3>3, SeqEqual
    <2> QED BY <2>1, <2>2
  <1>5. ReferenceMore(a) = (N > n + off)
    <2>1. Cardinality(Window(a)) - Len(ReferenceNodes(a)) = N - n
      BY <1>1, <1>2, <1>4
    <2> HIDE DEF N, n
    <2>2. CASE Given(a.last)
      <3>1. ReferenceMore(a) = (N - n > 0)
        BY <2>1, <2>2 DEF ReferenceMore
      <3>2. (N - n > 0) = (N > n + off)
        BY <1>1, <1>2, <2>2
      <3> QED BY <3>1, <3>2
    <2>3. CASE ~Given(a.last)
      <3>1. ReferenceMore(a) = (N - n > off)
        BY <2>1, <2>3 DEF ReferenceMore, off
      <3>2. (N - n > off) = (N > n + off)
        BY <1>1, <1>2
      <3> QED BY <3>1, <3>2
    <2> QED BY <2>2, <2>3
  <1> QED
    BY <1>2, <1>4, <1>5 DEF PageIsReference, page
-----------------------------------------------------------------------------
StartTyped ==
    /\ StateTyped /\ orderBy \in Orders
    /\ settled \subseteq Rows(table) /\ writes \in Nat

LEMMA InitTyped == Init => StartTyped
  <1> SUFFICES ASSUME Init PROVE StartTyped
    OBVIOUS
  <1>1. /\ def \in Defs /\ table \in TablesOf(def) /\ settled \subseteq Rows(table)
        /\ orderBy \in Orders /\ writes \in Nat
    BY DEF Init, TablesOf
  <1>2. orderBy \in Seq(Term(def))
    <2>1. orderBy \in Seq([col : {orderBy[i].col : i \in DOMAIN orderBy}, desc : BOOLEAN])
      BY OrdersAssumption DEF Init
    <2>2. \A i \in DOMAIN orderBy : orderBy[i].col \in PKColumns(def) \cup {ValueCol}
      BY DEF Init
    <2>3. [col : {orderBy[i].col : i \in DOMAIN orderBy}, desc : BOOLEAN] \subseteq Term(def)
      BY <2>2 DEF Term
    <2> QED
      BY <2>1, <2>3, SeqMonotonic
  <1> QED
    BY <1>1, <1>2 DEF StartTyped, StateTyped

\* A write leaves a row that the table may hold.
LEMMA WriteTyped ==
    ASSUME StartTyped, NEW s \in Slots, NEW x \in ColumnValues(def) \cup {Absent}, Write(s, x)
    PROVE  StartTyped'
  <1>1. /\ def' = def /\ orderBy' = orderBy /\ table' = [table EXCEPT ![s] = x]
        /\ settled' = settled \ {s} /\ writes' = writes + 1
    BY DEF Write
  <1>2. table' \in TablesOf(def)
    BY <1>1 DEF StartTyped, StateTyped, TablesOf
  <1>3. settled' \subseteq Rows(table')
    BY <1>1 DEF StartTyped, StateTyped, TablesOf, Rows
  <1>4. StateTyped'
    BY <1>1, <1>2 DEF StartTyped, StateTyped, TablesOf, ColumnValues, Term, PKColumns
  <1>5. writes' \in Nat /\ orderBy' \in Orders
    BY <1>1 DEF StartTyped
  <1> QED
    BY <1>3, <1>4, <1>5 DEF StartTyped

\* The steps of a walk: a page, or a write between two pages.
LEMMA StepsAre ==
    ASSUME Next
    PROVE  \/ \E a : Ask(a)
           \/ \E s \in Slots, x \in ColumnValues(def) \cup {Absent} : Write(s, x)
  <1>1. ASSUME FirstPage PROVE \E a : Ask(a)
    BY <1>1 DEF FirstPage
  <1>2. ASSUME NextPage PROVE \E a : Ask(a)
    BY <1>2 DEF NextPage
  <1>3. ASSUME NEW s \in Slots, InsertRow(s) \/ DeleteRow(s) \/ UpdateRow(s)
        PROVE  \E x \in ColumnValues(def) \cup {Absent} : Write(s, x)
    BY <1>3 DEF InsertRow, DeleteRow, UpdateRow
  <1> QED
    BY <1>1, <1>2, <1>3 DEF Next

LEMMA NextTyped ==
    StartTyped /\ [Next]_vars => StartTyped'
  <1> SUFFICES ASSUME StartTyped, [Next]_vars PROVE StartTyped'
    OBVIOUS
  <1>1. ASSUME NEW a, Ask(a) PROVE StartTyped'
    BY <1>1 DEF Ask, StartTyped, StateTyped, Rows, TablesOf, ColumnValues, Term, PKColumns
  <1>2. CASE UNCHANGED vars
    BY <1>2 DEF vars, StartTyped, StateTyped, Rows, TablesOf, ColumnValues, Term, PKColumns
  <1> QED
    BY <1>1, <1>2, StepsAre, WriteTyped

LEMMA StartHolds == Spec => []StartTyped
  BY InitTyped, NextTyped, PTL DEF Spec

\* Every accepted request gets exactly the rows between its cursors that the ordering
\* puts there, in forward order, and hasNextPage (hasPreviousPage, paging backward)
\* tells exactly whether rows were left over: connectionJSON is the reference page for
\* every table, ordering and combination of arguments.
THEOREM PagesAreSlices == Spec => []PageIsSlice
  <1>1. StateTyped => PageIsSlice
    <2> SUFFICES ASSUME StateTyped, NEW r \in Requests,
                        ~Rejected(def, [r EXCEPT !.orderBy = orderBy]),
                        Locatable([r EXCEPT !.orderBy = orderBy])
                 PROVE  PageIsReference([r EXCEPT !.orderBy = orderBy])
      BY DEF PageIsSlice, PageIsReference
    <2> DEFINE a == [r EXCEPT !.orderBy = orderBy]
    <2>1. a \in Arguments(orderBy)
      BY RequestsAssumption DEF Arguments
    <2> HIDE DEF a
    <2>2. ~Rejected(def, a) /\ Locatable(a)
      BY DEF a
    <2>3. PageIsReference(a)
      BY <2>1, <2>2, PagesAreReference
    <2> QED
      BY <2>3 DEF a
  <1> QED
    BY <1>1, StartHolds, PTL DEF StartTyped
-----------------------------------------------------------------------------
\* What makes a walk exact.

\* One of first and last, no offset, and a cursor only in the walk's direction.
WalkArgs(a) ==
    /\ a \in Arguments(orderBy) /\ a.offset = 0
    /\ \/ Given(a.last) /\ a.last \in Sizes /\ a.first = None /\ a.after = None
       \/ a.last = None /\ a.first \in Sizes /\ a.before = None

Has(seq, s) == \E i \in DOMAIN seq : seq[i] = s

\* Those of some rows that a sequence has stand in order.
OrderedIn(tab, terms, rows, seq) ==
    \A i, j \in DOMAIN seq :
        i < j /\ seq[i] \in rows /\ seq[j] \in rows => Precedes(tab, terms, FALSE, seq[i], seq[j])

\* The settled rows delivered are in order, each once, and are those reached so far;
\* the next page starts at a row the order can place.
KeyWalk ==
    /\ ~Legacy(args) /\ OrderedIn(table, Terms, settled, delivered)
    /\ \A s \in settled : Has(delivered, s) <=> s \in Reached
    /\ More => \E c \in Slots : Cursor = KeyCursor(c) /\ Located(def, table, Terms, c)

\* The rows before the cursor's position are delivered, and there are more behind it.
PlaceWalk ==
    /\ args.last = None /\ (Given(args.after) => Legacy(args))
    /\ LET all == Ordered(args, Groups(args))
       IN  IF More THEN \E k \in Nat : /\ Cursor = OffsetCursor(k)
                                        /\ delivered = LimitOffset(all, k, 0)
                        ELSE delivered = all

\* Nothing is delivered before the first request; after it, requests and cursors
\* have their types.
WalkTyped ==
    /\ StartTyped /\ delivered \in Seq(Slots)
    /\ IF args = None THEN delivered = <<>> ELSE WalkArgs(args) /\ (More => Cursor \in Cursors)

WalkInv ==
    /\ WalkTyped
    /\ args # None =>
         /\ HasPK(def) /\ args.distinctOn = <<>> /\ ~lost => KeyWalk
         /\ args.distinctOn # <<>> /\ writes = 0 => PlaceWalk

\* The terms of a walk are those of its requests.
LEMMA WalkTerms ==
    ASSUME StateTyped, args # None, args \in Arguments(orderBy)
    PROVE  /\ Terms = TermsFor(def, args) /\ Terms \in Seq(Term(def))
           /\ \A s \in Rows(table) : s \in Slots /\ Comparable(table, Terms, s)
  <1>1. Terms = TermsFor(def, args)
    BY DEF Terms, TermsFor, Arguments
  <1> QED
    BY <1>1, TermsType

LEMMA InvIsExact ==
    ASSUME WalkInv, args # None, HasPK(def) \/ args.distinctOn # <<>>
    PROVE  WalkExact
  <1>1. CASE HasPK(def) /\ args.distinctOn = <<>> /\ ~lost
    <2> DEFINE keep == {i \in DOMAIN delivered : delivered[i] \in settled}
               q == DeliveredSettled
    <2>1. KeyWalk /\ StateTyped /\ settled \subseteq Rows(table) /\ args \in Arguments(orderBy)
      BY <1>1 DEF WalkInv, WalkTyped, StartTyped, WalkArgs
    <2>2. /\ Terms \in Seq(Term(def))
          /\ \A s \in Rows(table) : s \in Slots /\ Comparable(table, Terms, s)
      BY <2>1, WalkTerms
    <2>3. Reached \in SUBSET Slots /\ Reached \subseteq settled /\ \A s \in Reached : Comparable(table, Terms, s)
      BY <2>1, <2>2 DEF Reached
    <2>4. /\ delivered \in Seq(Slots) /\ DOMAIN delivered = 1..Len(delivered)
          /\ \A i, j \in keep : i < j => Precedes(table, Terms, FALSE, delivered[i], delivered[j])
          /\ \A s \in settled : (\E i \in keep : delivered[i] = s) <=> s \in Reached
          /\ \A i \in keep : delivered[i] \in Reached
      <3>1. delivered \in Seq(Slots)
        BY DEF WalkInv, WalkTyped
      <3> QED BY <2>1, <2>3, <3>1, LenProperties DEF KeyWalk, Has, OrderedIn
    <2>5. keep \in SUBSET (1..Len(delivered))
      BY <2>4
    <2>6. q = Only(delivered, keep)
      BY DEF DeliveredSettled
    <2> HIDE DEF keep, q
    <2>14. PICK at \in Seq(keep) : KeptAt(at, Slots, delivered, keep)
      <3>1. delivered \in Seq(Slots)
        BY <2>4
      <3> QED BY <2>5, <3>1, OnlyIs
    <2>7. /\ \A k \in keep : \E i \in 1..Len(at) : at[i] = k
          /\ \A i, j \in 1..Len(at) : i < j => at[i] < at[j]
          /\ Only(delivered, keep) \in Seq(Slots) /\ Len(Only(delivered, keep)) = Len(at)
          /\ \A i \in 1..Len(at) : at[i] \in keep /\ Only(delivered, keep)[i] = delivered[at[i]]
      BY <2>14 DEF KeptAt
    <2>8. Len(at) \in Nat /\ q \in Seq(Slots) /\ Len(q) = Len(at) /\ DOMAIN q = 1..Len(q)
      BY <2>6, <2>7, LenProperties
    <2>9. q \in Seq(Reached)
      <3>1. \A i \in 1..Len(q) : q[i] \in Reached
        BY <2>4, <2>6, <2>7, <2>8
      <3>2. q \in [1..Len(q) -> Slots]
        BY <2>8, LenProperties
      <3>3. q \in [1..Len(q) -> Reached]
        BY <3>1, <3>2
      <3> QED BY <2>8, <3>3
    <2>10. ASSUME NEW s \in Reached PROVE \E i \in 1..Len(q) : q[i] = s
      <3>1. PICK k \in keep : delivered[k] = s
        BY <2>3, <2>4
      <3>2. PICK i \in 1..Len(at) : at[i] = k
        BY <2>7
      <3>3. q[i] = delivered[at[i]]
        BY <2>6, <2>7
      <3> QED BY <2>8, <3>1, <3>2, <3>3
    <2>11. ASSUME NEW i \in 1..Len(q), NEW j \in 1..Len(q), i < j
           PROVE  Precedes(table, Terms, FALSE, q[i], q[j])
      <3>1. /\ at[i] \in keep /\ at[j] \in keep /\ at[i] < at[j]
            /\ q[i] = delivered[at[i]] /\ q[j] = delivered[at[j]]
        BY <2>6, <2>7, <2>8, <2>11
      <3> QED BY <2>4, <3>1
    <2>12. InOrder(table, Terms, FALSE, Reached, q)
      BY <2>9, <2>10, <2>11 DEF InOrder
    <2>13. q = Sorted(table, Terms, FALSE, Reached)
      BY <2>2, <2>3, <2>12, InOrderIsSorted
    <2> QED
      BY <1>1, <2>13 DEF WalkExact, q
  <1>2. CASE ~(HasPK(def) /\ args.distinctOn = <<>>) /\ writes = 0
    <2>1. PlaceWalk
      BY <1>2 DEF WalkInv
    <2> DEFINE all == Ordered(args, Groups(args))
    <2>2. delivered = IF More THEN LimitOffset(all, Cursor.at, 0) ELSE all
      <3> HIDE DEF all
      <3>1. CASE More
        <4>1. PICK k \in Nat : Cursor = OffsetCursor(k) /\ delivered = LimitOffset(all, k, 0)
          BY <2>1, <3>1 DEF PlaceWalk, all
        <4>2. Cursor.at = k
          BY <4>1 DEF OffsetCursor
        <4> QED BY <3>1, <4>1, <4>2
      <3>2. CASE ~More
        BY <2>1, <3>2 DEF PlaceWalk, all
      <3> QED BY <3>1, <3>2
    <2> HIDE DEF all
    <2> QED
      BY <1>2, <2>2 DEF WalkExact, all
  <1> QED
    BY <1>1, <1>2 DEF WalkExact

\* A walk asks for some rows, and skips none but by its cursor.
LEMMA WalkAsks ==
    ASSUME NEW a, WalkArgs(a)
    PROVE  /\ Limit(a) \in Nat /\ Limit(a) > 0
           /\ a \in Arguments(orderBy) /\ (~Legacy(a) => Skipped(a) = 0)
           /\ Given(a.last) => a.after = None
           /\ ~Given(a.last) => a.before = None
  <1>1. \A n \in Sizes : n \in Nat /\ n > 0 /\ Given(n)
    BY RequestsAssumption, ValuesAssumption DEF Given
  <1>2. MaxPageSize \in Nat /\ MaxPageSize > 0
    BY MaxPageSizeAssumption
  <1>3. Limit(a) \in Nat /\ Limit(a) > 0
    BY <1>1, <1>2 DEF WalkArgs, Limit, LeastOf, Given
  <1> QED
    BY <1>3 DEF WalkArgs, Skipped, Legacy, Given

\* The page of a keyset walk: the rows of the window up to its cursor.
KeyPage(a) ==
    LET page == connectionJSON(def, table, a)
        terms == TermsFor(def, a)
        more == IF Given(a.last) THEN page.prev ELSE page.next
        cursor == IF Given(a.last) THEN page.startCursor ELSE page.endCursor
    IN  /\ page.nodes \in Seq(Slots)
        /\ \A i \in DOMAIN page.nodes : page.nodes[i] \in Window(a)
        /\ \A i, j \in DOMAIN page.nodes :
              i < j => Precedes(table, terms, FALSE, page.nodes[i], page.nodes[j])
        /\ ~more => \A s \in Window(a) : Has(page.nodes, s)
        /\ more => \E c \in Window(a) :
              /\ cursor = KeyCursor(c)
              /\ \A s \in Window(a) :
                    Has(page.nodes, s) <=> ~(IF Given(a.last) THEN Precedes(table, terms, FALSE, s, c)
                                                              ELSE Precedes(table, terms, FALSE, c, s))

LEMMA KeyPages ==
    ASSUME StateTyped, NEW a, WalkArgs(a), ~Legacy(a), ~Rejected(def, a), Locatable(a),
           HasPK(def), a.distinctOn = <<>>
    PROVE  KeyPage(a)
  <1> DEFINE page == connectionJSON(def, table, a)
             terms == TermsFor(def, a)
             more == IF Given(a.last) THEN page.prev ELSE page.next
             cursor == IF Given(a.last) THEN page.startCursor ELSE page.endCursor
             W == WindowOf(a)
             N == Len(W)
             lim == Limit(a)
             n == LimitedTo(N, lim, 0)
             back == Given(a.last)
             At(i) == IF back THEN N - n + i ELSE i
             rows == Window(a)
  <1>1. a \in Arguments(orderBy) /\ lim \in Nat /\ lim > 0 /\ Skipped(a) = 0
    BY WalkAsks
  <1>2. /\ terms \in Seq(Term(def)) /\ rows \in SUBSET Slots
        /\ \A s \in rows : Comparable(table, terms, s)
        /\ InOrder(table, terms, FALSE, rows, W) /\ N \in Nat
    <2>1. /\ rows \subseteq Rows(table) /\ InOrder(table, terms, FALSE, rows, W) /\ N \in Nat
      BY <1>1, WindowInOrder
    <2>2. /\ terms \in Seq(Term(def)) /\ \A s \in Rows(table) : s \in Slots /\ Comparable(table, terms, s)
      BY <1>1, TermsType
    <2> HIDE DEF rows, terms
    <2> QED BY <2>1, <2>2
  <1>3. /\ n \in Nat /\ n <= N /\ page.nodes \in Seq(Slots) /\ Len(page.nodes) = n
        /\ \A i \in 1..n : page.nodes[i] = W[IF back THEN N - n + i ELSE 0 + i]
        /\ more = (N > n + 0)
        /\ page.startCursor = IF n = 0 THEN None ELSE KeyCursor(page.nodes[1])
        /\ page.endCursor = IF n = 0 THEN None ELSE KeyCursor(page.nodes[n])
    <2>1. SlicesWindow(a)
      BY <1>1, PageIsWindow
    <2> QED
      BY <1>1, <2>1 DEF SlicesWindow
  <1> HIDE DEF page, terms, W, lim, rows, back
  <1>4. DOMAIN page.nodes = 1..n
    BY <1>3, LenProperties
  <1>5. (more <=> N > n) /\ (N > n => n > 0)
    <2>1. N > n => n > 0
      BY <1>1, <1>2 DEF LimitedTo, LeastOf
    <2>2. more <=> N > n + 0
      BY <1>3
    <2> HIDE DEF n, N, more
    <2>3. N > n + 0 <=> N > n
      BY <1>3
    <2> QED BY <2>1, <2>2, <2>3
  <1> HIDE DEF n, N, more
  <1>6. \A i \in 1..n : At(i) \in 1..N /\ page.nodes[i] = W[At(i)]
    BY <1>2, <1>3
  <1>7. \A i \in 1..N : W[i] \in rows
    BY <1>2, ElementOfSeq DEF InOrder, N
  <1>8. \A i, j \in 1..N : /\ Precedes(table, terms, FALSE, W[i], W[j]) <=> i < j
                           /\ W[i] = W[j] <=> i = j
    <2>2. terms \in Seq(Term(def)) /\ rows \in SUBSET Slots
      BY <1>2
    <2>3. \A s \in rows : Comparable(table, terms, s)
      BY <1>2
    <2>4. InOrder(table, terms, FALSE, rows, W)
      BY <1>2
    <2>5. InPlaces(table, terms, FALSE, W)
      BY <2>2, <2>3, <2>4, InOrderPositions
    <2> QED BY <2>5 DEF InPlaces, N
  <1>9. \A s \in rows : \E i \in 1..N : W[i] = s
    BY <1>2 DEF InOrder, N
  <1>10. \A k \in 1..N : Has(page.nodes, W[k]) <=> \E i \in 1..n : At(i) = k
    <2> SUFFICES ASSUME NEW k \in 1..N
                 PROVE  Has(page.nodes, W[k]) <=> \E i \in 1..n : At(i) = k
      OBVIOUS
    <2>1. ASSUME NEW i \in 1..n PROVE page.nodes[i] = W[k] <=> At(i) = k
      <3>1. At(i) \in 1..N /\ page.nodes[i] = W[At(i)]
        BY <1>6
      <3> HIDE DEF At
      <3> QED BY <1>8, <3>1
    <2> HIDE DEF At
    <2> QED BY <1>4, <2>1 DEF Has
  <1>11. \A i \in DOMAIN page.nodes : page.nodes[i] \in rows
    BY <1>4, <1>6, <1>7
  <1>12. ASSUME NEW i \in DOMAIN page.nodes, NEW j \in DOMAIN page.nodes, i < j
         PROVE  Precedes(table, terms, FALSE, page.nodes[i], page.nodes[j])
    <2>1. At(i) < At(j)
      BY <1>2, <1>3, <1>4, <1>12
    <2> QED
      BY <1>4, <1>6, <1>8, <2>1
  <1>13. ASSUME ~more, NEW s \in rows PROVE Has(page.nodes, s)
    <2>1. PICK k \in 1..N : W[k] = s
      BY <1>9
    <2>2. n = N
      BY <1>2, <1>3, <1>5, <1>13
    <2>3. k \in 1..n /\ At(k) = k
      BY <1>2, <2>2
    <2> QED
      BY <1>10, <2>1, <2>3
  <1>14. ASSUME more
         PROVE  \E c \in rows :
              /\ cursor = KeyCursor(c)
              /\ \A s \in rows :
                    Has(page.nodes, s) <=> ~(IF back THEN Precedes(table, terms, FALSE, s, c)
                                                     ELSE Precedes(table, terms, FALSE, c, s))
    <2> DEFINE e == IF back THEN 1 ELSE n
               c == W[At(e)]
    <2>1. n > 0 /\ e \in 1..n
      BY <1>3, <1>5, <1>14
    <2>2. c \in rows /\ c = page.nodes[e] /\ At(e) \in 1..N
      BY <1>6, <1>7, <2>1
    <2>3. cursor = KeyCursor(c)
      <3>1. cursor = IF back THEN page.startCursor ELSE page.endCursor
        BY DEF back, page
      <3>2. page.startCursor = KeyCursor(page.nodes[1]) /\ page.endCursor = KeyCursor(page.nodes[n])
        BY <1>3, <2>1
      <3> HIDE DEF cursor, c
      <3> QED BY <2>2, <3>1, <3>2
    <2>4. ASSUME NEW s \in rows
          PROVE  Has(page.nodes, s) <=> ~(IF back THEN Precedes(table, terms, FALSE, s, c)
                                                  ELSE Precedes(table, terms, FALSE, c, s))
      <3>1. PICK k \in 1..N : W[k] = s
        BY <1>9
      <3>2. Has(page.nodes, s) <=> \E i \in 1..n : At(i) = k
        BY <1>10, <3>1
      <3>3. CASE back
        <4>1. (\E i \in 1..n : At(i) = k) <=> ~(k < N - n + 1)
          <5>1. \A i \in 1..n : At(i) = N - n + i
            BY <3>3
          <5>2. ~(k < N - n + 1) => k - (N - n) \in 1..n /\ N - n + (k - (N - n)) = k
            BY <1>2, <1>3
          <5>3. \A i \in 1..n : N - n + i = k => ~(k < N - n + 1)
            BY <1>2, <1>3
          <5> QED BY <5>1, <5>2, <5>3
        <4>2. At(e) = N - n + 1
          BY <3>3
        <4>3. Precedes(table, terms, FALSE, s, c) <=> k < N - n + 1
          BY <1>8, <2>2, <3>1, <4>2
        <4> QED BY <3>2, <3>3, <4>1, <4>3
      <3>4. CASE ~back
        <4>1. (\E i \in 1..n : At(i) = k) <=> ~(n < k)
          BY <1>2, <1>3, <3>4
        <4>2. At(e) = n
          BY <3>4
        <4>3. Precedes(table, terms, FALSE, c, s) <=> n < k
          BY <1>8, <2>2, <3>1, <4>2
        <4> QED BY <3>2, <3>4, <4>1, <4>3
      <3> QED BY <3>3, <3>4
    <2> HIDE DEF c, cursor
    <2> QED BY <2>2, <2>3, <2>4
  <1> HIDE DEF cursor
  <1> QED
    BY <1>3, <1>11, <1>12, <1>13, <1>14 DEF KeyPage, page, terms, more, cursor, rows, back

\* Two such sequences, one after the other.
JoinedIn(tab, terms, rows, S, p, q) ==
    /\ p \o q \in Seq(S) /\ OrderedIn(tab, terms, rows, p \o q)
    /\ \A s : Has(p \o q, s) <=> Has(p, s) \/ Has(q, s)

LEMMA Joined ==
    ASSUME NEW tab, NEW terms, NEW rows, NEW S, NEW p \in Seq(S), NEW q \in Seq(S),
           OrderedIn(tab, terms, rows, p), OrderedIn(tab, terms, rows, q),
           \A r, s \in rows : Has(p, r) /\ Has(q, s) => Precedes(tab, terms, FALSE, r, s)
    PROVE  JoinedIn(tab, terms, rows, S, p, q)
  <1> DEFINE w == p \o q
             m == Len(p)
             n == Len(q)
  <1>1. /\ w \in Seq(S) /\ Len(w) = m + n
        /\ \A i \in 1..(m + n) : w[i] = IF i <= m THEN p[i] ELSE q[i - m]
    BY ConcatProperties
  <1> HIDE DEF w
  <1>2. /\ m \in Nat /\ n \in Nat /\ DOMAIN p = 1..m /\ DOMAIN q = 1..n /\ DOMAIN w = 1..(m + n)
    BY <1>1, LenProperties
  <1> HIDE DEF m, n
  <1>3. /\ \A i \in 1..(m + n) : i <= m => i \in 1..m /\ w[i] = p[i]
        /\ \A i \in 1..(m + n) : ~(i <= m) => i - m \in 1..n /\ w[i] = q[i - m]
        /\ \A i \in 1..m : i \in 1..(m + n) /\ w[i] = p[i]
        /\ \A i \in 1..n : m + i \in 1..(m + n) /\ w[m + i] = q[i]
    <2>1. \A i \in 1..(m + n) : i <= m => i \in 1..m /\ w[i] = p[i]
      BY <1>1, <1>2
    <2>2. \A i \in 1..(m + n) : ~(i <= m) => i - m \in 1..n /\ w[i] = q[i - m]
      BY <1>1, <1>2
    <2>3. \A i \in 1..m : i \in 1..(m + n) /\ w[i] = p[i]
      BY <1>1, <1>2
    <2>4. ASSUME NEW i \in 1..n PROVE m + i \in 1..(m + n) /\ w[m + i] = q[i]
      <3>1. m + i \in 1..(m + n) /\ ~(m + i <= m) /\ (m + i) - m = i
        BY <1>2
      <3> QED BY <1>1, <3>1
    <2> QED BY <2>1, <2>2, <2>3, <2>4
  <1>4. ASSUME NEW s PROVE Has(w, s) <=> Has(p, s) \/ Has(q, s)
    <2>1. Has(w, s) => Has(p, s) \/ Has(q, s)
      BY <1>2, <1>3 DEF Has
    <2>2. Has(p, s) \/ Has(q, s) => Has(w, s)
      BY <1>2, <1>3 DEF Has
    <2> QED BY <2>1, <2>2
  <1>5. ASSUME NEW i \in DOMAIN w, NEW j \in DOMAIN w, i < j, w[i] \in rows, w[j] \in rows
        PROVE  Precedes(tab, terms, FALSE, w[i], w[j])
    <2>1. CASE j <= m
      <3>1. /\ i \in DOMAIN p /\ j \in DOMAIN p /\ w[i] = p[i] /\ w[j] = p[j]
        BY <1>2, <1>3, <1>5, <2>1
      <3> QED BY <1>5, <3>1 DEF OrderedIn
    <2>2. CASE i <= m /\ ~(j <= m)
      <3>1. Has(p, w[i]) /\ Has(q, w[j])
        BY <1>2, <1>3, <2>2 DEF Has
      <3> QED BY <1>5, <3>1
    <2>3. CASE ~(i <= m)
      <3>1. /\ i - m \in DOMAIN q /\ j - m \in DOMAIN q /\ i - m < j - m
            /\ w[i] = q[i - m] /\ w[j] = q[j - m]
        BY <1>2, <1>3, <1>5, <2>3
      <3> QED BY <1>5, <3>1 DEF OrderedIn
    <2> QED BY <1>2, <1>5, <2>1, <2>2, <2>3
  <1> QED
    BY <1>1, <1>4, <1>5 DEF JoinedIn, OrderedIn, w

\* What a page is asked for: the settled rows delivered are in order and are those
\* outside its window, on the side the walk comes from.
Continues(a) ==
    /\ delivered \in Seq(Slots) /\ OrderedIn(table, TermsFor(def, a), settled, delivered)
    /\ \A s \in settled : Has(delivered, s) <=> s \notin Window(a)
    /\ \A r \in settled \ Window(a), s \in Window(a) :
          IF Given(a.last) THEN Precedes(table, TermsFor(def, a), FALSE, s, r)
                           ELSE Precedes(table, TermsFor(def, a), FALSE, r, s)

LEMMA AskKeepsKeyWalk ==
    ASSUME StartTyped, NEW a, WalkArgs(a), ~Legacy(a), ~Rejected(def, a), Locatable(a),
           HasPK(def), a.distinctOn = <<>>, Continues(a), Ask(a)
    PROVE  KeyWalk'
  <1> DEFINE page == connectionJSON(def, table, a)
             terms == TermsFor(def, a)
             more == IF Given(a.last) THEN page.prev ELSE page.next
             cursor == IF Given(a.last) THEN page.startCursor ELSE page.endCursor
             back == Given(a.last)
             rows == Window(a)
             P == page.nodes
             D == delivered
             Behind(s, c) == IF back THEN Precedes(table, terms, FALSE, s, c)
                                     ELSE Precedes(table, terms, FALSE, c, s)
  <1>1. /\ def' = def /\ orderBy' = orderBy /\ table' = table /\ settled' = settled
        /\ args' = a /\ reply' = page
        /\ delivered' = IF back THEN P \o D ELSE D \o P
    BY DEF Ask
  <1>2. StateTyped /\ settled \subseteq Rows(table) /\ a \in Arguments(orderBy)
    BY WalkAsks DEF StartTyped
  <1>3. /\ P \in Seq(Slots) /\ \A i \in DOMAIN P : P[i] \in rows
        /\ \A i, j \in DOMAIN P : i < j => Precedes(table, terms, FALSE, P[i], P[j])
        /\ ~more => \A s \in rows : Has(P, s)
        /\ more => \E c \in rows : cursor = KeyCursor(c) /\ \A s \in rows : Has(P, s) <=> ~Behind(s, c)
    <2>1. KeyPage(a)
      BY <1>2, KeyPages
    <2> QED BY <2>1 DEF KeyPage
  <1>4. /\ D \in Seq(Slots) /\ OrderedIn(table, terms, settled, D)
        /\ \A s \in settled : Has(D, s) <=> s \notin rows
        /\ \A r \in settled \ rows, s \in rows :
              IF back THEN Precedes(table, terms, FALSE, s, r) ELSE Precedes(table, terms, FALSE, r, s)
    BY DEF Continues
  <1>5. Terms' = terms /\ More' = more /\ Cursor' = cursor
    <2>1. Terms' = terms
      BY <1>1, <1>2 DEF Terms, TermsFor, Arguments
    <2>2. More' = more /\ Cursor' = cursor
      BY <1>1 DEF More, Cursor, Backward
    <2> QED BY <2>1, <2>2
  <1>6. WalkArgs(args)' /\ ~Legacy(args)'
    BY <1>1 DEF WalkArgs, Legacy
  <1>7. /\ terms \in Seq(Term(def))
        /\ \A s \in Rows(table) : s \in Slots /\ Comparable(table, terms, s)
        /\ rows \subseteq Rows(table)
    BY <1>2, TermsType, WindowInOrder
  <1> HIDE DEF page, terms, more, cursor, back, rows, D
  <1>8. OrderedIn(table, terms, settled, P)
    BY <1>3 DEF OrderedIn
  <1>9. \A s : Has(P, s) => s \in rows
    BY <1>3 DEF Has
  <1>10. /\ delivered' \in Seq(Slots) /\ OrderedIn(table, terms, settled, delivered')
         /\ \A s : Has(delivered', s) <=> Has(P, s) \/ Has(D, s)
    <2> HIDE DEF P
    <2>1. CASE back
      <3>1. \A r, s \in settled : Has(P, r) /\ Has(D, s) => Precedes(table, terms, FALSE, r, s)
        BY <1>4, <1>9, <2>1
      <3>2. JoinedIn(table, terms, settled, Slots, P, D)
        BY <1>3, <1>4, <1>8, <3>1, Joined
      <3> QED BY <1>1, <2>1, <3>2 DEF JoinedIn
    <2>2. CASE ~back
      <3>1. \A r, s \in settled : Has(D, r) /\ Has(P, s) => Precedes(table, terms, FALSE, r, s)
        BY <1>4, <1>9, <2>2
      <3>2. JoinedIn(table, terms, settled, Slots, D, P)
        BY <1>3, <1>4, <1>8, <3>1, Joined
      <3> QED BY <1>1, <2>2, <3>2 DEF JoinedIn
    <2> QED BY <2>1, <2>2
  <1> HIDE DEF P
  <1>11. ASSUME NEW s \in settled PROVE Has(delivered', s) <=> s \in Reached'
    <2>1. Reached' = IF ~more THEN settled
                     ELSE {t \in settled : ~Behind(t, cursor.at)}
      <3>1. CASE back
        BY <1>1, <1>5, <3>1 DEF Reached, Backward, back
      <3>2. CASE ~back
        BY <1>1, <1>5, <3>2 DEF Reached, Backward, back
      <3> QED BY <3>1, <3>2
    <2>2. Has(delivered', s) <=> Has(P, s) \/ s \notin rows
      BY <1>4, <1>10
    <2>3. CASE ~more
      BY <1>3, <2>1, <2>2, <2>3
    <2>4. CASE more
      <3>1. PICK c \in rows : cursor = KeyCursor(c) /\ \A t \in rows : Has(P, t) <=> ~Behind(t, c)
        BY <1>3, <2>4
      <3>2. s \in Reached' <=> ~Behind(s, c)
        BY <2>1, <2>4, <3>1 DEF KeyCursor
      <3>3. s \notin rows => ~Behind(s, c)
        <4> SUFFICES ASSUME s \notin rows, Behind(s, c) PROVE FALSE
          OBVIOUS
        <4>1. IF back THEN Precedes(table, terms, FALSE, c, s) ELSE Precedes(table, terms, FALSE, s, c)
          BY <1>4
        <4>2. /\ s \in Int /\ c \in Int
              /\ Comparable(table, terms, s) /\ Comparable(table, terms, c)
          BY <1>2, <1>7, SlotsAssumption
        <4>3. Precedes(table, terms, FALSE, c, s) /\ Precedes(table, terms, FALSE, s, c)
          BY <4>1
        <4>4. Precedes(table, terms, FALSE, c, c)
          BY <1>7, <4>2, <4>3, PrecedesTransitive
        <4> QED BY <4>2, <4>4, PrecedesIrreflexive
      <3> HIDE DEF Behind
      <3> QED BY <2>2, <3>1, <3>2, <3>3
    <2> QED BY <2>3, <2>4
  <1>12. More' => \E c \in Slots : Cursor' = KeyCursor(c) /\ Located(def', table', Terms', c)
    <2> SUFFICES ASSUME more PROVE \E c \in Slots : cursor = KeyCursor(c) /\ Located(def, table, terms, c)
      BY <1>1, <1>5
    <2>1. PICK c \in rows : cursor = KeyCursor(c)
      BY <1>3
    <2> QED BY <1>7, <2>1 DEF Located
  <1> QED
    BY <1>1, <1>5, <1>6, <1>10, <1>11, <1>12 DEF KeyWalk

\* The types of what a page brings, wherever its cursors' rows are.
PageTyped(a) ==
    LET page == connectionJSON(def, table, a)
    IN  /\ page.nodes \in Seq(Slots)
        /\ (IF Given(a.last) THEN page.prev ELSE page.next) =>
              (IF Given(a.last) THEN page.startCursor ELSE page.endCursor) \in Cursors

LEMMA PagesAreTyped ==
    ASSUME StateTyped, NEW a, WalkArgs(a), ~Rejected(def, a)
    PROVE  PageTyped(a)
  <1> DEFINE page == connectionJSON(def, table, a)
             plan == planPage(def, a)
             terms == TermsFor(def, a)
             all == ScanOf(def, table, a)
             n == PageLen(plan, Len(all))
             At(i) == IF plan.reversed THEN n + 1 - i ELSE i
             row(i) == [at |-> all[plan.offset + At(i)], rn |-> RowNumber(plan, a.distinctOn, At(i))]
             read == Scanned(def, table, a, terms, plan)
             back == Given(a.last)
  <1>1. /\ a \in Arguments(orderBy) /\ Limit(a) > 0 /\ Limit(a) \in Nat
    BY WalkAsks
  <1>2. /\ plan.limit = Limit(a) /\ plan.offset = Skipped(a) /\ Skipped(a) \in Nat
        /\ plan.predKeyset <=> HasPK(def) /\ ~Legacy(a) /\ a.distinctOn = <<>>
        /\ plan.reversed <=> back
    BY <1>1, PlanIs
  <1>3. all \in Seq(Slots) /\ Len(all) \in Nat
    <2>1. terms \in Seq(Term(def)) /\ \A s \in Rows(table) : s \in Slots /\ Comparable(table, terms, s)
      BY <1>1, TermsType
    <2>2. read \subseteq Rows(table)
      <3>1. ScanRows(def, table, a, terms, plan) \subseteq Rows(table)
        BY DEF ScanRows
      <3> QED BY <3>1 DEF Scanned, DistinctOn
    <2>3. all = Sorted(table, terms, plan.reversed, read)
      BY DEF ScanOf
    <2> HIDE DEF terms, read, all, plan
    <2>4. read \in SUBSET Slots /\ \A s \in read : Comparable(table, terms, s)
      BY <2>1, <2>2
    <2>5. InOrder(table, terms, plan.reversed, read, all)
      BY <2>1, <2>3, <2>4, SortedInOrder
    <2> QED BY <2>4, <2>5, SeqMonotonic, LenProperties DEF InOrder
  <1>4. TakesPage(def, table, a, Slots)
    <2>1. plan.limit \in Nat /\ plan.offset \in Nat
      BY <1>1, <1>2
    <2>2. plan.predKeyset \in BOOLEAN
      BY DEF planPage
    <2>3. plan.reversed \in BOOLEAN
      BY DEF planPage, Given
    <2>4. plan.predKeyset => a.distinctOn = <<>>
      BY <1>2
    <2> QED BY <1>3, <2>1, <2>2, <2>3, <2>4, PageIs
  <1>5. /\ n \in Nat /\ page.nodes \in Seq(Slots) /\ Len(page.nodes) = n
        /\ \A i \in 1..n : page.nodes[i] = all[plan.offset + At(i)]
        /\ page.startCursor = IF n = 0 THEN None ELSE CursorOf(plan, row(1))
        /\ page.endCursor = IF n = 0 THEN None ELSE CursorOf(plan, row(n))
        /\ plan.predKeyset =>
             (IF plan.reversed THEN page.prev ELSE page.next) = (Len(all) > plan.offset + plan.limit)
    BY <1>4 DEF TakesPage
  <1>6. ASSUME IF back THEN page.prev ELSE page.next PROVE n > 0
    <2>1. CASE plan.predKeyset
      <3>1. Len(all) > plan.offset + plan.limit
        BY <1>2, <1>5, <1>6, <2>1
      <3> HIDE DEF all, plan
      <3> QED BY <1>1, <1>2, <1>3, <3>1 DEF PageLen, LimitedTo, LeastOf
    <2>2. CASE ~plan.predKeyset
      <3>1. ~Given(a.before) /\ ~(Given(a.after) /\ a.after.kind = "key")
        BY <1>1, <1>2, <2>2, AcceptedIs DEF Legacy
      <3>2. Locatable(a)
        BY <1>1, <3>1, AcceptedIs DEF Locatable, Given
      <3>3. SlicesWindow(a)
        BY <1>1, <3>2, PageIsWindow
      <3> DEFINE N == Len(WindowOf(a))
                 m == LimitedTo(N, Limit(a), Skipped(a))
      <3>4. m = n /\ (IF back THEN page.prev ELSE page.next) = (N > m + Skipped(a))
        BY <1>5, <3>3 DEF SlicesWindow
      <3>5. N \in Nat
        BY <1>1, WindowInOrder
      <3> HIDE DEF n, page, N
      <3>6. N > m + Skipped(a)
        BY <1>6, <3>4
      <3>7. m > 0
        BY <1>1, <1>2, <3>5, <3>6 DEF LimitedTo, LeastOf
      <3> QED BY <3>4, <3>7
    <2> QED BY <2>1, <2>2
  <1>7. ASSUME NEW i \in 1..n PROVE CursorOf(plan, row(i)) \in Cursors
    <2>1. row(i).at \in Slots
      <3>1. page.nodes[i] \in Slots
        BY <1>5, ElementOfSeq
      <3> QED BY <1>5, <3>1
    <2>2. row(i).rn + plan.offset \in Nat
      <3> DEFINE k == At(i)
                 off == plan.offset
      <3>1. k \in Nat /\ off \in Nat
        BY <1>2, <1>5
      <3>2. row(i).rn = IF a.distinctOn = <<>> THEN off + k ELSE k
        BY DEF RowNumber
      <3> HIDE DEF k, off, row
      <3>3. row(i).rn + off \in Nat
        BY <3>1, <3>2
      <3> QED BY <3>3 DEF off
    <2> HIDE DEF row, plan
    <2> QED BY <2>1, <2>2 DEF CursorOf, Cursors, KeyCursor, OffsetCursor
  <1> HIDE DEF page, plan, all, n, row
  <1>8. (IF back THEN page.prev ELSE page.next) => page.startCursor \in Cursors /\ page.endCursor \in Cursors
    <2> SUFFICES ASSUME IF back THEN page.prev ELSE page.next
                 PROVE  page.startCursor \in Cursors /\ page.endCursor \in Cursors
      OBVIOUS
    <2>1. 1 \in 1..n /\ n \in 1..n /\ n # 0
      BY <1>5, <1>6
    <2> QED BY <1>5, <1>7, <2>1
  <1> QED
    BY <1>5, <1>8 DEF PageTyped, page

\* A walk's requests.
Opening(n, dcols, backward) ==
    [NoArgs EXCEPT !.first = IF backward THEN None ELSE n,
                   !.last = IF backward THEN n ELSE None,
                   !.orderBy = orderBy, !.distinctOn = dcols]

LEMMA OpeningArgs ==
    ASSUME NEW n \in Sizes, NEW dcols \in {<<>>, <<ValueCol>>}, NEW backward \in BOOLEAN,
           NEW a, a = Opening(n, dcols, backward)
    PROVE  /\ WalkArgs(a) /\ a.after = None /\ a.before = None /\ a.distinctOn = dcols
           /\ ~Legacy(a) /\ Locatable(a)
  <1>1. n \in Nat /\ n # None
    BY RequestsAssumption, ValuesAssumption
  <1>2. a = [first |-> IF backward THEN None ELSE n, last |-> IF backward THEN n ELSE None,
             offset |-> 0, after |-> None, before |-> None, orderBy |-> orderBy, distinctOn |-> dcols]
    BY DEF Opening, NoArgs
  <1> DEFINE first == IF backward THEN None ELSE n
             last == IF backward THEN n ELSE None
  <1>5. a = [first |-> first, last |-> last, offset |-> 0, after |-> None, before |-> None,
             orderBy |-> orderBy, distinctOn |-> dcols]
    BY <1>2
  <1>6. /\ first \in Int \cup {None} /\ last \in Int \cup {None}
        /\ \/ last # None /\ last \in Sizes /\ first = None
           \/ last = None /\ first \in Sizes
    BY <1>1
  <1> HIDE DEF first, last
  <1>3. a.after = None /\ a.before = None /\ a.distinctOn = dcols
    BY ONLY <1>5
  <1>7. a.first = first /\ a.last = last /\ a.offset = 0
    BY ONLY <1>5
  <1>8. a \in Arguments(orderBy)
    BY ONLY <1>5, <1>6, dcols \in {<<>>, <<ValueCol>>} DEF Arguments
  <1>4. WalkArgs(a)
    BY <1>3, <1>6, <1>7, <1>8 DEF WalkArgs, Given
  <1> QED
    BY <1>3, <1>4 DEF Legacy, Locatable, Given

LEMMA NextPageArgs ==
    ASSUME WalkArgs(args), Cursor \in Cursors, NEW a, a = NextArgs
    PROVE  /\ WalkArgs(a) /\ a.distinctOn = args.distinctOn
           /\ a.first = args.first /\ a.last = args.last
           /\ IF Given(args.last) THEN a.before = Cursor /\ a.after = None
                                 ELSE a.after = Cursor /\ a.before = None
  <1>1. CASE Given(args.last)
    <2>1. a = [args EXCEPT !.before = Cursor]
      BY <1>1 DEF NextArgs, Backward
    <2> HIDE DEF Cursor
    <2>2. a \in Arguments(orderBy)
      BY <2>1 DEF WalkArgs, Arguments
    <2>3. /\ a.first = args.first /\ a.last = args.last /\ a.before = Cursor /\ a.after = args.after
          /\ a.distinctOn = args.distinctOn /\ a.offset = args.offset
      BY <2>1 DEF WalkArgs, Arguments
    <2> QED BY <1>1, <2>2, <2>3 DEF WalkArgs, Given
  <1>2. CASE ~Given(args.last)
    <2>1. a = [args EXCEPT !.after = Cursor]
      BY <1>2 DEF NextArgs, Backward
    <2> HIDE DEF Cursor
    <2>2. a \in Arguments(orderBy)
      BY <2>1 DEF WalkArgs, Arguments
    <2>3. /\ a.first = args.first /\ a.last = args.last /\ a.after = Cursor /\ a.before = args.before
          /\ a.distinctOn = args.distinctOn /\ a.offset = args.offset
      BY <2>1 DEF WalkArgs, Arguments
    <2> QED BY <1>2, <2>2, <2>3 DEF WalkArgs, Given
  <1> QED BY <1>1, <1>2

\* A page keeps the types.
LEMMA AskTyped ==
    ASSUME StartTyped, delivered \in Seq(Slots), NEW a, WalkArgs(a), ~Rejected(def, a), Ask(a)
    PROVE  WalkTyped'
  <1> DEFINE page == connectionJSON(def, table, a)
             P == page.nodes
  <1>1. /\ def' = def /\ orderBy' = orderBy /\ table' = table /\ settled' = settled /\ writes' = writes
        /\ args' = a /\ reply' = page
        /\ delivered' = IF Given(a.last) THEN P \o delivered ELSE delivered \o P
    BY DEF Ask
  <1>2. /\ P \in Seq(Slots)
        /\ (IF Given(a.last) THEN page.prev ELSE page.next) =>
              (IF Given(a.last) THEN page.startCursor ELSE page.endCursor) \in Cursors
    BY PagesAreTyped DEF PageTyped, StartTyped
  <1>3. More' => Cursor' \in Cursors
    BY <1>1, <1>2 DEF More, Cursor, Backward
  <1> HIDE DEF page
  <1>4. delivered' \in Seq(Slots)
    <2> HIDE DEF P
    <2> QED BY <1>1, <1>2, ConcatProperties
  <1>5. StartTyped'
    BY <1>1 DEF StartTyped, StateTyped, Rows, TablesOf, ColumnValues, Term, PKColumns
  <1>6. WalkArgs(args)' /\ args' # None
    <2>1. a \in Arguments(orderBy) /\ a # None
      BY RequestsAssumption DEF WalkArgs, StartTyped
    <2> QED BY <1>1, <2>1 DEF WalkArgs
  <1> QED
    BY <1>3, <1>4, <1>5, <1>6 DEF WalkTyped

\* The terms and the groups of two requests of one walk are the same.
LEMMA SameWalk ==
    ASSUME StateTyped, NEW a \in Arguments(orderBy), NEW b \in Arguments(orderBy),
           a.distinctOn = b.distinctOn
    PROVE  /\ TermsFor(def, a) = TermsFor(def, b) /\ Groups(a) = Groups(b)
           /\ Ordered(a, Groups(a)) = Ordered(b, Groups(b))
  <1>1. a.orderBy = b.orderBy
    BY DEF Arguments
  <1>2. TermsFor(def, a) = TermsFor(def, b) /\ Groups(a) = Groups(b)
    BY <1>1 DEF TermsFor, Groups
  <1> QED
    BY <1>1, <1>2 DEF Ordered

\* A walk by positions goes on: what is delivered is what comes before them.
LEMMA AskKeepsPlaceWalk ==
    ASSUME StartTyped, NEW a, WalkArgs(a), ~Rejected(def, a), Ask(a), a.distinctOn # <<>>,
           delivered = LimitOffset(Ordered(a, Groups(a)), Skipped(a), 0)
    PROVE  PlaceWalk'
  <1> DEFINE page == connectionJSON(def, table, a)
             P == page.nodes
             W == WindowOf(a)
             N == Len(W)
             k == Skipped(a)
             n == LimitedTo(N, Limit(a), k)
             D == delivered
             M == LimitOffset(W, k + n, 0)
  <1>1. /\ def' = def /\ orderBy' = orderBy /\ table' = table /\ args' = a /\ reply' = page
        /\ delivered' = IF Given(a.last) THEN P \o D ELSE D \o P
    BY DEF Ask
  <1>2. StateTyped /\ a \in Arguments(orderBy) /\ Limit(a) \in Nat /\ Limit(a) > 0
    BY WalkAsks DEF StartTyped
  <1>3. /\ ~Given(a.last) /\ ~Given(a.before) /\ k \in Nat
        /\ Given(a.after) => Legacy(a)
    BY <1>2, AcceptedIs DEF Legacy
  <1>4. Locatable(a)
    BY <1>2, <1>3, AcceptedIs DEF Locatable, Given, Legacy
  <1>5. Window(a) = Groups(a)
    BY <1>3 DEF Window, Legacy
  <1>6. W = Ordered(a, Groups(a)) /\ W \in Seq(Slots) /\ N \in Nat
    BY <1>2, <1>5, WindowInOrder DEF WindowOf
  <1>7. /\ n \in Nat /\ n <= N /\ P \in Seq(Slots) /\ Len(P) = n
        /\ \A i \in 1..n : P[i] = W[k + i]
        /\ page.next = (N > n + k)
        /\ page.endCursor = IF n = 0 THEN None ELSE OffsetCursor(k + n)
    <2>1. SlicesWindow(a)
      BY <1>2, <1>4, PageIsWindow
    <2> QED BY <1>3, <2>1 DEF SlicesWindow
  <1>8. /\ More' = page.next /\ Cursor' = page.endCursor
        /\ Ordered(args, Groups(args))' = W
    <2>1. More' = page.next /\ Cursor' = page.endCursor
      BY <1>1, <1>3 DEF More, Cursor, Backward
    <2>2. Groups(args)' = Groups(a)
      BY <1>1 DEF Groups
    <2>3. Ordered(args, Groups(args))' = Ordered(a, Groups(a))
      BY <1>1, <2>2 DEF Ordered
    <2> QED BY <1>6, <2>1, <2>3
  <1>9. D = LimitOffset(W, k, 0)
    BY <1>6
  <1> HIDE DEF page, W, k, D
  <1>10. /\ LimitedTo(N, k, 0) \in Nat /\ D \in Seq(Slots) /\ Len(D) = LimitedTo(N, k, 0)
         /\ \A i \in 1..LimitedTo(N, k, 0) : D[i] = W[0 + i]
    <2>1. 0 \in Nat /\ k \in Nat /\ W \in Seq(Slots)
      BY <1>3, <1>6
    <2>2. SlicesSeq(Slots, W, k, 0)
      BY <2>1, LimitOffsetIs
    <2> QED BY <1>9, <2>2 DEF SlicesSeq
  <1>11. /\ LimitedTo(N, k + n, 0) \in Nat /\ M \in Seq(Slots) /\ Len(M) = LimitedTo(N, k + n, 0)
         /\ \A i \in 1..LimitedTo(N, k + n, 0) : M[i] = W[0 + i]
    <2> DEFINE lim == k + n
    <2>1. lim \in Nat /\ W \in Seq(Slots) /\ 0 \in Nat
      BY <1>3, <1>6, <1>7
    <2> HIDE DEF lim
    <2>2. SlicesSeq(Slots, W, lim, 0)
      BY <2>1, LimitOffsetIs
    <2> QED BY <2>2 DEF SlicesSeq, lim
  <1>12. /\ LimitedTo(N, k + n, 0) = LimitedTo(N, k, 0) + n
         /\ n = 0 \/ LimitedTo(N, k, 0) = k
         /\ ~(N > n + k) => LimitedTo(N, k + n, 0) = N
         /\ N > n + k => n > 0
    BY <1>2, <1>3, <1>6 DEF LimitedTo, LeastOf
  <1> HIDE DEF N, n, M, P
  <1>13. delivered' = M
    <2> DEFINE J == D \o P
               m == LimitedTo(N, k, 0)
    <2>1. /\ J \in Seq(Slots) /\ Len(J) = m + n
          /\ \A i \in 1..(m + n) : J[i] = IF i <= m THEN D[i] ELSE P[i - m]
      <3>1. /\ J \in Seq(Slots) /\ Len(J) = Len(D) + Len(P)
            /\ \A i \in 1..(Len(D) + Len(P)) : J[i] = IF i <= Len(D) THEN D[i] ELSE P[i - Len(D)]
        <4>1. D \in Seq(Slots) /\ P \in Seq(Slots)
          BY <1>7, <1>10
        <4> QED BY <4>1, ConcatProperties
      <3>2. Len(D) = m /\ Len(P) = n
        BY <1>7, <1>10
      <3> HIDE DEF J, m
      <3> QED BY <3>1, <3>2
    <2> HIDE DEF J, m
    <2>2. Len(M) = m + n /\ m \in Nat
      BY <1>10, <1>11, <1>12 DEF m
    <2>3. ASSUME NEW i \in 1..(m + n) PROVE J[i] = M[i]
      <3>1. M[i] = W[i]
        BY <1>11, <1>12, <2>3 DEF m
      <3>2. CASE i <= m
        BY <1>10, <2>1, <2>2, <3>1, <3>2 DEF m
      <3>3. CASE ~(i <= m)
        <4>1. i - m \in 1..n /\ m = k /\ k + (i - m) = i
          BY <1>3, <1>7, <1>12, <2>2, <3>3 DEF m
        <4> QED BY <1>7, <2>1, <3>1, <3>3, <4>1
      <3> QED BY <3>2, <3>3
    <2>4. J = M
      BY <1>11, <2>1, <2>2, <2>3, SeqEqual
    <2> QED BY <1>1, <1>3, <2>4 DEF J
  <1>14. ~(N > n + k) => M = W
    <2> SUFFICES ASSUME ~(N > n + k) PROVE M = W
      OBVIOUS
    <2>1. Len(M) = N /\ \A i \in 1..N : M[i] = W[i]
      BY <1>6, <1>11, <1>12
    <2> QED BY <1>6, <1>11, <2>1, SeqEqual DEF N
  <1>15. IF More' THEN \E j \in Nat : Cursor' = OffsetCursor(j) /\ delivered' = LimitOffset(W, j, 0)
                  ELSE delivered' = W
    <2>1. CASE N > n + k
      <3>1. Cursor' = OffsetCursor(k + n) /\ k + n \in Nat
        BY <1>3, <1>7, <1>8, <1>12, <2>1
      <3> QED BY <1>7, <1>8, <1>13, <2>1, <3>1 DEF M
    <2>2. CASE ~(N > n + k)
      BY <1>7, <1>8, <1>13, <1>14, <2>2
    <2> QED BY <2>1, <2>2
  <1>16. args'.last = None /\ (Given(args'.after) => Legacy(args'))
    BY <1>1, <1>3 DEF Given
  <1> QED
    BY <1>8, <1>15, <1>16 DEF PlaceWalk

LEMMA FirstPageKeeps ==
    ASSUME WalkInv, FirstPage
    PROVE  WalkInv'
  <1>1. PICK n \in Sizes, dcols \in {<<>>, <<ValueCol>>}, backward \in BOOLEAN :
          LET a == [NoArgs EXCEPT !.first = IF backward THEN None ELSE n,
                                  !.last = IF backward THEN n ELSE None,
                                  !.orderBy = orderBy, !.distinctOn = dcols]
          IN  ~Rejected(def, a) /\ Ask(a)
    BY DEF FirstPage
  <1> DEFINE a == Opening(n, dcols, backward)
  <1>2. /\ WalkArgs(a) /\ a.after = None /\ a.before = None /\ ~Legacy(a) /\ Locatable(a)
        /\ ~Rejected(def, a) /\ Ask(a)
    <2>1. ~Rejected(def, a) /\ Ask(a)
      BY <1>1 DEF Opening
    <2>2. a = Opening(n, dcols, backward)
      OBVIOUS
    <2> HIDE DEF a
    <2> QED BY <2>1, <2>2, OpeningArgs
  <1> HIDE DEF a
  <1>3. /\ StartTyped /\ StateTyped /\ settled \subseteq Rows(table) /\ delivered = <<>>
        /\ delivered \in Seq(Slots)
    BY DEF WalkInv, WalkTyped, StartTyped, FirstPage
  <1>4. WalkTyped'
    BY <1>2, <1>3, AskTyped
  <1>5. args' = a /\ def' = def /\ lost' = lost /\ writes' = writes
    BY <1>2 DEF Ask
  <1>6. \A s : ~Has(delivered, s)
    BY <1>3 DEF Has
  <1>7. ASSUME HasPK(def), a.distinctOn = <<>> PROVE KeyWalk'
    <2>1. Window(a) = Rows(table)
      BY <1>2, <1>7 DEF Window, Groups, Given
    <2>2. OrderedIn(table, TermsFor(def, a), settled, delivered)
      BY <1>3 DEF OrderedIn
    <2>3. Continues(a)
      BY <1>3, <1>6, <2>1, <2>2 DEF Continues
    <2> QED BY <1>2, <1>3, <1>7, <2>3, AskKeepsKeyWalk
  <1>8. ASSUME a.distinctOn # <<>> PROVE PlaceWalk'
    <2>1. Skipped(a) = 0
      BY <1>2, WalkAsks
    <2> DEFINE W == Ordered(a, Groups(a))
    <2>2. LimitOffset(W, 0, 0) = <<>>
      <3>1. W \in Seq(Slots) /\ Len(W) \in Nat
        <4>1. a \in Arguments(orderBy)
          BY <1>2 DEF WalkArgs
        <4>2. Window(a) = Groups(a)
          BY <1>2 DEF Window, Given
        <4> QED BY <1>3, <4>1, <4>2, WindowInOrder DEF WindowOf
      <3> HIDE DEF W
      <3>2. LeastOf(Len(W), 0 + 0) = 0
        BY <3>1 DEF LeastOf
      <3>3. SubSeq(W, 0 + 1, 0) = <<>>
        BY SubSeqEmpty
      <3> QED BY <3>2, <3>3 DEF LimitOffset
    <2> QED BY <1>2, <1>3, <1>8, <2>1, <2>2, AskKeepsPlaceWalk
  <1>9. HasPK(def)' = HasPK(def)
    BY <1>5
  <1> QED
    BY <1>4, <1>5, <1>7, <1>8, <1>9 DEF WalkInv

LEMMA NextPageKeeps ==
    ASSUME WalkInv, NextPage
    PROVE  WalkInv'
  <1> DEFINE a == NextArgs
  <1>1. args # None /\ More /\ ~Rejected(def, a) /\ Ask(a)
    BY DEF NextPage, Walking
  <1>2. /\ StartTyped /\ StateTyped /\ settled \subseteq Rows(table) /\ delivered \in Seq(Slots)
        /\ WalkArgs(args) /\ Cursor \in Cursors /\ args \in Arguments(orderBy)
    BY <1>1 DEF WalkInv, WalkTyped, StartTyped, WalkArgs
  <1>3. /\ WalkArgs(a) /\ a.distinctOn = args.distinctOn
        /\ a.first = args.first /\ a.last = args.last
        /\ IF Given(args.last) THEN a.before = Cursor /\ a.after = None
                              ELSE a.after = Cursor /\ a.before = None
    BY <1>2, NextPageArgs
  <1> HIDE DEF a
  <1>4. WalkTyped'
    BY <1>1, <1>2, <1>3, AskTyped
  <1>5. args' = a /\ def' = def /\ lost' = lost /\ writes' = writes
    BY <1>1 DEF Ask
  <1>6. a \in Arguments(orderBy) /\ TermsFor(def, a) = TermsFor(def, args)
        /\ Ordered(a, Groups(a)) = Ordered(args, Groups(args))
    <2>1. a \in Arguments(orderBy)
      BY <1>3 DEF WalkArgs
    <2> QED BY <1>2, <1>3, <2>1, SameWalk
  <1>7. ASSUME HasPK(def), a.distinctOn = <<>>, ~lost PROVE KeyWalk'
    <2> DEFINE terms == TermsFor(def, a)
               rows == Window(a)
               back == Given(a.last)
               Ahead(c, s) == IF back THEN Precedes(table, terms, FALSE, s, c)
                                      ELSE Precedes(table, terms, FALSE, c, s)
    <2>1. KeyWalk
      BY <1>1, <1>3, <1>7 DEF WalkInv
    <2>2. /\ Terms = terms /\ terms \in Seq(Term(def))
          /\ \A s \in Rows(table) : s \in Slots /\ Comparable(table, terms, s)
      BY <1>1, <1>2, <1>6, WalkTerms
    <2>3. PICK c \in Slots : Cursor = KeyCursor(c) /\ Located(def, table, terms, c)
      BY <1>1, <2>1, <2>2 DEF KeyWalk
    <2>4. Cursor.kind = "key" /\ Cursor.at = c /\ Given(Cursor)
      BY <1>2, <2>3, CursorKinds DEF KeyCursor, Given
    <2>5. ~Legacy(a)
      BY <1>3, <2>4 DEF Legacy, Given
    <2>6. terms = orderTerms(def, a.orderBy)
      BY <1>2, <1>6, <1>7, TermsType
    <2>7. Locatable(a)
      <3>1. \A d \in {a.after, a.before} \ {None} : d = Cursor
        BY <1>3
      <3>2. table[c] # Absent \/ \A i \in DOMAIN a.orderBy : a.orderBy[i].col \in PKColumns(def)
        <4>1. a.orderBy \in Seq(Term(def)) /\ def \in Defs
          BY <1>2, <1>6 DEF Arguments, StateTyped
        <4>2. (\A i \in DOMAIN a.orderBy : a.orderBy[i].col \in PKColumns(def)) <=>
                 \A i \in DOMAIN orderTerms(def, a.orderBy) :
                    orderTerms(def, a.orderBy)[i].col \in PKColumns(def)
          BY <4>1, OrderTermsType
        <4> QED BY <2>3, <2>6, <4>2 DEF Located, Rows
      <3> QED BY <2>4, <3>1, <3>2 DEF Locatable
    <2>8. \A s : s \in rows <=> s \in Rows(table) /\ Ahead(c, s)
      <3>1. rows = {s \in Rows(table) :
                      /\ Given(a.after) /\ a.after.kind = "key" => Precedes(table, terms, FALSE, a.after.at, s)
                      /\ Given(a.before) => Precedes(table, terms, FALSE, s, a.before.at)}
        BY <1>7, <2>6 DEF Window, Groups
      <3> HIDE DEF rows, terms
      <3>2. CASE back
        <4>1. a.before = Cursor /\ a.after = None
          BY <1>3, <3>2
        <4> QED BY <2>4, <3>1, <3>2, <4>1 DEF Given
      <3>3. CASE ~back
        <4>1. a.after = Cursor /\ a.before = None
          BY <1>3, <3>3
        <4> QED BY <2>4, <3>1, <3>3, <4>1 DEF Given
      <3> QED BY <3>2, <3>3
    <2>9. Reached = {s \in settled : ~Ahead(c, s)}
      <3>1. Backward <=> back
        BY <1>3 DEF Backward
      <3>2. CASE back
        BY <1>1, <2>2, <2>4, <3>1, <3>2 DEF Reached
      <3>3. CASE ~back
        BY <1>1, <2>2, <2>4, <3>1, <3>3 DEF Reached
      <3> QED BY <3>2, <3>3
    <2> HIDE DEF terms, rows
    <2>10. \A s \in settled : Has(delivered, s) <=> s \notin rows
      BY <1>2, <2>1, <2>8, <2>9 DEF KeyWalk
    <2>11. ASSUME NEW r \in settled \ rows, NEW s \in rows
           PROVE  IF back THEN Precedes(table, terms, FALSE, s, r)
                          ELSE Precedes(table, terms, FALSE, r, s)
      <3>1. /\ r \in Int /\ s \in Int /\ c \in Int
            /\ Comparable(table, terms, r) /\ Comparable(table, terms, s) /\ Comparable(table, terms, c)
        <4>1. Comparable(table, terms, c)
          BY <1>2, <2>2, <2>3, LocatedComparable DEF StateTyped
        <4> QED BY <1>2, <2>2, <2>8, <4>1, SlotsAssumption
      <3>2. ~Ahead(c, r) /\ Ahead(c, s)
        BY <1>2, <2>8
      <3>3. c = r \/ Precedes(table, terms, FALSE, c, r) \/ Precedes(table, terms, FALSE, r, c)
        BY <2>2, <3>1, PrecedesTotal
      <3>4. CASE back
        <4>1. Precedes(table, terms, FALSE, s, c) /\ ~Precedes(table, terms, FALSE, r, c)
          BY <3>2, <3>4
        <4>2. Precedes(table, terms, FALSE, s, r)
          BY <2>2, <3>1, <3>3, <4>1, PrecedesTransitive
        <4> QED BY <3>4, <4>2
      <3>5. CASE ~back
        <4>1. Precedes(table, terms, FALSE, c, s) /\ ~Precedes(table, terms, FALSE, c, r)
          BY <3>2, <3>5
        <4>2. Precedes(table, terms, FALSE, r, s)
          BY <2>2, <3>1, <3>3, <4>1, PrecedesTransitive
        <4> QED BY <3>5, <4>2
      <3> QED BY <3>4, <3>5
    <2>12. Continues(a)
      <3>1. OrderedIn(table, terms, settled, delivered)
        BY <2>1, <2>2 DEF KeyWalk
      <3> QED BY <1>2, <2>10, <2>11, <3>1 DEF Continues, terms, rows
    <2> QED BY <1>1, <1>2, <1>3, <1>7, <2>5, <2>7, <2>12, AskKeepsKeyWalk
  <1>8. ASSUME a.distinctOn # <<>>, writes = 0 PROVE PlaceWalk'
    <2>1. PlaceWalk
      BY <1>1, <1>3, <1>8 DEF WalkInv
    <2> DEFINE W == Ordered(args, Groups(args))
    <2>2. PICK k \in Nat : Cursor = OffsetCursor(k) /\ delivered = LimitOffset(W, k, 0)
      BY <1>1, <2>1 DEF PlaceWalk
    <2>3. a.after = Cursor /\ a.offset = 0
      BY <1>3, <2>1 DEF PlaceWalk, Given, WalkArgs
    <2>4. Skipped(a) = k
      BY <1>2, <2>2, <2>3, CursorKinds DEF Skipped, OffsetCursor, Given
    <2> HIDE DEF W
    <2>5. delivered = LimitOffset(Ordered(a, Groups(a)), Skipped(a), 0)
      BY <1>6, <2>2, <2>4 DEF W
    <2> QED BY <1>1, <1>2, <1>3, <1>8, <2>5, AskKeepsPlaceWalk
  <1>9. HasPK(def)' = HasPK(def)
    BY <1>5
  <1> QED
    BY <1>4, <1>5, <1>7, <1>8, <1>9 DEF WalkInv

\* A write elsewhere, or one that no ordering column can show, moves no row.
LEMMA PrecedesKept ==
    ASSUME NEW tab, NEW tab2, NEW terms, NEW a, NEW b,
           \A i \in DOMAIN terms :
              /\ Column(tab2, a, terms[i].col) = Column(tab, a, terms[i].col)
              /\ Column(tab2, b, terms[i].col) = Column(tab, b, terms[i].col),
           NEW S, terms \in Seq(S)
    PROVE  Precedes(tab2, terms, FALSE, a, b) <=> Precedes(tab, terms, FALSE, a, b)
  <1>1. DOMAIN terms = 1..Len(terms) /\ Len(terms) \in Nat
    BY LenProperties
  <1>2. \A i \in DOMAIN terms : Decides(tab2, terms[i], FALSE, a, b) <=> Decides(tab, terms[i], FALSE, a, b)
    BY DEF Decides
  <1>3. \A i \in DOMAIN terms : (Column(tab2, a, terms[i].col) = Column(tab2, b, terms[i].col))
                                <=> (Column(tab, a, terms[i].col) = Column(tab, b, terms[i].col))
    OBVIOUS
  <1>4. \A i \in DOMAIN terms : \A j \in 1..(i - 1) : j \in DOMAIN terms
    BY <1>1
  <1> QED
    BY <1>2, <1>3, <1>4, PrecedesIs

LEMMA WriteKeepsTypes ==
    ASSUME WalkTyped, NEW s \in Slots, NEW x \in ColumnValues(def) \cup {Absent}, Write(s, x)
    PROVE  WalkTyped'
  <1>1. StartTyped'
    BY WriteTyped DEF WalkTyped
  <1>2. args' = args /\ reply' = reply /\ delivered' = delivered /\ orderBy' = orderBy
    BY DEF Write
  <1>3. (More' <=> More) /\ Cursor' = Cursor
    BY <1>2 DEF More, Cursor, Backward
  <1>4. WalkArgs(args)' <=> WalkArgs(args)
    BY <1>2 DEF WalkArgs
  <1> QED
    BY <1>1, <1>2, <1>3, <1>4 DEF WalkTyped

LEMMA WriteKeeps ==
    ASSUME WalkInv, NEW s \in Slots, NEW x \in ColumnValues(def) \cup {Absent}, Write(s, x)
    PROVE  WalkInv'
  <1>1. /\ args # None /\ More
        /\ def' = def /\ orderBy' = orderBy /\ args' = args /\ reply' = reply /\ delivered' = delivered
        /\ table' = [table EXCEPT ![s] = x] /\ settled' = settled \ {s}
        /\ lost' = (lost \/ (Cursor = KeyCursor(s) /\ ~PKOrdered)) /\ writes' = writes + 1
    BY DEF Write, Walking
  <1>2. WalkTyped'
    BY WriteKeepsTypes DEF WalkInv
  <1>3. /\ StateTyped /\ settled \subseteq Rows(table) /\ delivered \in Seq(Slots)
        /\ args \in Arguments(orderBy) /\ writes \in Nat
    BY <1>1 DEF WalkInv, WalkTyped, StartTyped, WalkArgs
  <1>4. writes' # 0
    BY <1>1, <1>3
  <1>5. ASSUME HasPK(def), args.distinctOn = <<>>, ~lost' PROVE KeyWalk'
    <2>1. KeyWalk /\ ~lost
      BY <1>1, <1>5 DEF WalkInv
    <2>2. /\ Terms \in Seq(Term(def)) /\ DOMAIN Terms = 1..Len(Terms)
          /\ \A r \in Rows(table) : r \in Slots
      BY <1>1, <1>3, WalkTerms, LenProperties
    <2>3. PICK c \in Slots : Cursor = KeyCursor(c) /\ Located(def, table, Terms, c)
      BY <1>1, <2>1 DEF KeyWalk
    <2>4. /\ Terms' = Terms /\ (More' <=> More) /\ Cursor' = Cursor /\ (Backward' <=> Backward)
      BY <1>1 DEF Terms, More, Cursor, Backward
    <2> DEFINE terms == Terms
               Still(r) == \A i \in DOMAIN terms :
                              Column(table', r, terms[i].col) = Column(table, r, terms[i].col)
    <2>5. \A r \in Slots \ {s} : Still(r) /\ table'[r] = table[r]
      <3>1. \A r \in Slots \ {s} : table'[r] = table[r]
        BY <1>1, <1>3 DEF StateTyped, TablesOf
      <3> HIDE DEF terms
      <3> QED BY <3>1 DEF Column
    <2>6. Still(c) /\ Located(def, table', Terms, c)
      <3>1. CASE c # s
        BY <2>3, <2>5, <3>1 DEF Located, Rows
      <3>2. CASE c = s
        <4>1. PKOrdered
          BY <1>1, <1>5, <2>3, <3>2
        <4>2. \A i \in DOMAIN terms : terms[i].col # ValueCol
          BY <1>3, <4>1, DefsAssumption DEF PKOrdered, StateTyped
        <4>3. Still(c)
          BY <4>2 DEF Column
        <4>4. Located(def, table', Terms, c)
          BY <2>3, <4>1 DEF Located, PKOrdered
        <4> QED BY <4>3, <4>4
      <3> QED BY <3>1, <3>2
    <2>7. \A r \in settled' : r \in Slots /\ r \in settled /\ Still(r)
      BY <1>1, <1>3, <2>2, <2>5
    <2> HIDE DEF terms
    <2>8. ASSUME NEW p, NEW q, Still(p), Still(q)
          PROVE  Precedes(table', terms, FALSE, p, q) <=> Precedes(table, terms, FALSE, p, q)
      BY <2>2, <2>8, PrecedesKept DEF terms
    <2> HIDE DEF Still
    <2>9. OrderedIn(table', terms, settled', delivered)
      <3>1. OrderedIn(table, terms, settled, delivered)
        BY <2>1 DEF KeyWalk, terms
      <3> QED BY <2>7, <2>8, <3>1 DEF OrderedIn
    <2>10. ASSUME NEW r \in settled' PROVE r \in Reached' <=> r \in Reached
      <3>1. Cursor.at = c /\ Still(c) /\ Still(r) /\ r \in settled
        BY <2>3, <2>6, <2>7 DEF KeyCursor
      <3>2. r \in Reached <=> IF Backward THEN ~Precedes(table, terms, FALSE, r, c)
                                         ELSE ~Precedes(table, terms, FALSE, c, r)
        BY <1>1, <3>1 DEF Reached, terms
      <3>3. r \in Reached' <=> IF Backward THEN ~Precedes(table', terms, FALSE, r, c)
                                          ELSE ~Precedes(table', terms, FALSE, c, r)
        BY <1>1, <2>4, <3>1 DEF Reached, terms
      <3> QED BY <2>8, <3>1, <3>2, <3>3
    <2>11. \A r \in settled' : Has(delivered, r) <=> r \in Reached'
      BY <2>1, <2>7, <2>10 DEF KeyWalk
    <2>12. ~Legacy(args)'
      BY <1>1, <2>1 DEF KeyWalk, Legacy
    <2> QED
      BY <1>1, <2>3, <2>4, <2>6, <2>9, <2>11, <2>12 DEF KeyWalk, terms
  <1>6. HasPK(def)' = HasPK(def)
    BY <1>1
  <1> QED
    BY <1>1, <1>2, <1>4, <1>5, <1>6 DEF WalkInv

LEMMA StutterKeeps ==
    ASSUME WalkInv, UNCHANGED vars
    PROVE  WalkInv'
  <1>1. /\ def' = def /\ orderBy' = orderBy /\ table' = table /\ args' = args /\ reply' = reply
        /\ delivered' = delivered /\ settled' = settled /\ lost' = lost /\ writes' = writes
    BY DEF vars
  <1>2. /\ Terms' = Terms /\ (More' <=> More) /\ Cursor' = Cursor /\ (Backward' <=> Backward)
    BY <1>1 DEF Terms, More, Cursor, Backward
  <1>3. Reached' = Reached
    BY <1>1, <1>2 DEF Reached
  <1>4. KeyWalk' <=> KeyWalk
    BY <1>1, <1>2, <1>3 DEF KeyWalk, Legacy
  <1>5. Ordered(args, Groups(args))' = Ordered(args, Groups(args))
    <2>1. Groups(args)' = Groups(args)
      BY <1>1 DEF Groups
    <2> QED BY <1>1, <2>1 DEF Ordered
  <1>6. PlaceWalk' <=> PlaceWalk
    BY <1>1, <1>2, <1>5 DEF PlaceWalk, Legacy
  <1>7. WalkTyped'
    <2>1. StartTyped'
      BY <1>1 DEF WalkInv, WalkTyped, StartTyped, StateTyped, Rows, TablesOf, ColumnValues, Term, PKColumns
    <2>2. WalkArgs(args)' <=> WalkArgs(args)
      BY <1>1 DEF WalkArgs
    <2> QED BY <1>1, <1>2, <2>1, <2>2 DEF WalkInv, WalkTyped
  <1> QED
    BY <1>1, <1>4, <1>6, <1>7 DEF WalkInv

LEMMA InitKeeps == Init => WalkInv
  <1> SUFFICES ASSUME Init PROVE WalkInv
    OBVIOUS
  <1>1. StartTyped /\ args = None /\ delivered = <<>>
    BY InitTyped DEF Init
  <1> QED
    BY <1>1 DEF WalkInv, WalkTyped

LEMMA NextKeeps == WalkInv /\ [Next]_vars => WalkInv'
  <1> SUFFICES ASSUME WalkInv, [Next]_vars PROVE WalkInv'
    OBVIOUS
  <1>1. ASSUME NEW s \in Slots, InsertRow(s) \/ DeleteRow(s) \/ UpdateRow(s)
        PROVE  WalkInv'
    <2>1. PICK x \in ColumnValues(def) \cup {Absent} : Write(s, x)
      BY <1>1 DEF InsertRow, DeleteRow, UpdateRow
    <2> QED BY <2>1, WriteKeeps
  <1> QED
    BY <1>1, FirstPageKeeps, NextPageKeeps, StutterKeeps DEF Next

LEMMA InvHolds == Spec => []WalkInv
  BY InitKeeps, NextKeeps, PTL DEF Spec

\* The types of a walk: its requests ask in one direction, its cursors name rows or
\* positions, and the catalog, the table and the ordering stay those of one another.
THEOREM WalksAreTyped == Spec => []WalkTyped
  BY InvHolds, PTL DEF WalkInv

\* A keyset walk delivers every row that nobody touches exactly once and in order,
\* whatever is written around it, and a walk by positions does so while the table is
\* left alone.  Left out: plain pages of a table without a primary key, whose cursor
\* counts the offset twice.
THEOREM WalksAreExact ==
    Spec => []((args # None => HasPK(def) \/ args.distinctOn # <<>>) => WalkExact)
  <1>1. WalkInv => ((args # None => HasPK(def) \/ args.distinctOn # <<>>) => WalkExact)
    <2>1. args = None => WalkExact
      BY DEF WalkExact
    <2> QED BY <2>1, InvIsExact
  <1> QED
    BY <1>1, InvHolds, PTL
=============================================================================
