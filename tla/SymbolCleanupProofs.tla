------------------------ MODULE SymbolCleanupProofs -------------------------
(***************************************************************************)
(* Proofs about cleanFunctions, cleanArrays and removeSymbol, for every    *)
(* input: what std::sort and the loop over the sorted list leave, which    *)
(* objects are deleted, and where the ids of the deleted objects lead.     *)
(***************************************************************************)
EXTENDS SymbolContentsProofs, SymbolCleanup, InductionTheorems

-----------------------------------------------------------------------------
(* Sorting. *)

StrictOrder(S, lt) ==
    /\ \A x \in S : <<x, x>> \notin lt
    /\ \A x, y, z \in S : <<x, y>> \in lt /\ <<y, z>> \in lt => <<x, z>> \in lt
    /\ \A x, y \in S : x # y => <<x, y>> \in lt \/ <<y, x>> \in lt

\* rank counts what is before an element.
Counts(rank, S, lt) ==
    /\ rank \in [S -> 0..(Cardinality(S) - 1)]
    /\ \A k \in 0..(Cardinality(S) - 1) : \E x \in S : rank[x] = k
    /\ \A x, y \in S : <<x, y>> \in lt <=> rank[x] < rank[y]
    /\ \A x, y \in S : rank[x] = rank[y] => x = y

\* The numbers of elements before an element are 0, 1, 2 and so on, in order.
LEMMA Ranks ==
    ASSUME NEW S, IsFiniteSet(S), NEW lt, StrictOrder(S, lt)
    PROVE  Counts([x \in S |-> Cardinality({y \in S : <<y, x>> \in lt})], S, lt)
<1> DEFINE below(x) == {y \in S : <<y, x>> \in lt}
           rank == [x \in S |-> Cardinality(below(x))]
           n == Cardinality(S)
<1>1. n \in Nat
  BY FS_CardinalityType
<1>2. \A x \in S : below(x) \subseteq S /\ x \notin below(x)
  BY DEF StrictOrder
<1>3. \A x, y \in S : <<x, y>> \in lt => x \in below(y) /\ below(x) \subseteq below(y)
  BY DEF StrictOrder
<1>4. \A x \in S : rank[x] = Cardinality(below(x))
  OBVIOUS
<1> HIDE DEF below
<1>5. \A x \in S : IsFiniteSet(below(x)) /\ Cardinality(below(x)) \in Nat
  BY <1>2, FS_Subset, FS_CardinalityType
<1>6. ASSUME NEW x \in S PROVE rank[x] \in 0..(n - 1)
  <2>1. IsFiniteSet(S \ {x}) /\ Cardinality(S \ {x}) = n - 1
    BY FS_RemoveElement
  <2>2. below(x) \in SUBSET (S \ {x})
    BY <1>2
  <2>3. Cardinality(below(x)) <= n - 1
    BY <2>1, <2>2, FS_Subset
  <2> QED
    BY <1>1, <1>4, <1>5, <2>3
<1>7. ASSUME NEW x \in S, NEW y \in S, <<x, y>> \in lt PROVE rank[x] < rank[y]
  <2>1. IsFiniteSet(below(x) \cup {x}) /\ Cardinality(below(x) \cup {x}) = Cardinality(below(x)) + 1
    BY <1>2, <1>5, FS_AddElement
  <2>2. below(x) \cup {x} \in SUBSET below(y)
    BY <1>3, <1>7
  <2>3. Cardinality(below(x)) + 1 <= Cardinality(below(y))
    BY <1>5, <2>1, <2>2, FS_Subset
  <2> QED
    BY <1>4, <1>5, <2>3
<1> HIDE DEF rank
<1>8. rank \in [S -> 0..(n - 1)]
  BY <1>6 DEF rank
<1>9. \A x, y \in S : rank[x] = rank[y] => x = y
  <2> SUFFICES ASSUME NEW x \in S, NEW y \in S, rank[x] = rank[y], x # y PROVE FALSE
    OBVIOUS
  <2>1. <<x, y>> \in lt \/ <<y, x>> \in lt
    BY DEF StrictOrder
  <2>2. rank[x] < rank[y] \/ rank[y] < rank[x]
    BY <1>7, <2>1
  <2>3. rank[x] \in Nat
    BY <1>8
  <2> QED
    BY <2>2, <2>3
<1>10. \A x, y \in S : <<x, y>> \in lt <=> rank[x] < rank[y]
  <2> SUFFICES ASSUME NEW x \in S, NEW y \in S, rank[x] < rank[y] PROVE <<x, y>> \in lt
    BY <1>7
  <2>1. rank[x] \in Nat /\ rank[y] \in Nat
    BY <1>8
  <2>2. ~ (rank[y] < rank[x]) /\ rank[x] # rank[y]
    BY <2>1
  <2>3. x # y /\ <<y, x>> \notin lt
    BY <1>7, <2>2
  <2> QED
    BY <2>3 DEF StrictOrder
<1>11. \A k \in 0..(n - 1) : \E x \in S : rank[x] = k
  <2>1. IsFiniteSet(0..(n - 1)) /\ Cardinality(0..(n - 1)) = n
    BY <1>1, FS_Interval
  <2>2. rank \in Injection(S, 0..(n - 1))
    BY <1>8, <1>9 DEF Injection, IsInjective
  <2>3. rank \in Surjection(S, 0..(n - 1))
    BY <2>1, <2>2, FS_Injection
  <2> QED
    BY <2>3 DEF Surjection
<1> QED
  BY <1>8, <1>9, <1>10, <1>11 DEF Counts, rank, below

\* o lists every element of S once, in the order lt.
Lists(o, S, lt) ==
    /\ o \in [1..Cardinality(S) -> S]
    /\ \A x \in S : \E i \in 1..Cardinality(S) : o[i] = x
    /\ \A i, j \in 1..Cardinality(S) : i < j <=> <<o[i], o[j]>> \in lt
    /\ \A i, j \in 1..Cardinality(S) : o[i] = o[j] => i = j

\* A list that has in each place the element with so many before it.
LEMMA RankedLists ==
    ASSUME NEW S, IsFiniteSet(S), NEW lt, StrictOrder(S, lt), NEW rank, Counts(rank, S, lt),
           NEW o, DOMAIN o = 1..Cardinality(S), o = [i \in DOMAIN o |-> o[i]],
           \A i \in 1..Cardinality(S) : o[i] \in S /\ rank[o[i]] = i - 1
    PROVE  Lists(o, S, lt)
<1> DEFINE n == Cardinality(S)
<1>1. n \in Nat
  BY FS_CardinalityType
<1>2. o \in [1..n -> S]
  OBVIOUS
<1>3. ASSUME NEW x \in S PROVE \E i \in 1..n : o[i] = x
  <2>1. rank[x] \in 0..(n - 1)
    BY DEF Counts
  <2>2. rank[x] + 1 \in 1..n /\ rank[o[rank[x] + 1]] = rank[x] /\ o[rank[x] + 1] \in S
    BY <1>1, <2>1
  <2>3. o[rank[x] + 1] = x
    BY <2>2 DEF Counts
  <2> QED
    BY <2>2, <2>3
<1>4. \A i, j \in 1..n : i < j <=> <<o[i], o[j]>> \in lt
  <2> SUFFICES ASSUME NEW i \in 1..n, NEW j \in 1..n PROVE i < j <=> <<o[i], o[j]>> \in lt
    OBVIOUS
  <2>1. <<o[i], o[j]>> \in lt <=> rank[o[i]] < rank[o[j]]
    BY DEF Counts
  <2>2. rank[o[i]] = i - 1 /\ rank[o[j]] = j - 1
    OBVIOUS
  <2> QED
    BY <1>1, <2>1, <2>2
<1>5. \A i, j \in 1..n : o[i] = o[j] => i = j
  <2> SUFFICES ASSUME NEW i \in 1..n, NEW j \in 1..n, o[i] = o[j] PROVE i = j
    OBVIOUS
  <2>1. rank[o[i]] = i - 1 /\ rank[o[j]] = j - 1
    OBVIOUS
  <2> QED
    BY <1>1, <2>1
<1> QED
  BY <1>2, <1>3, <1>4, <1>5 DEF Lists

\* std::sort lists the elements in order.
LEMMA SortedLists ==
    ASSUME NEW S, IsFiniteSet(S), NEW lt, StrictOrder(S, lt)
    PROVE  Lists(Sorted(S, lt), S, lt)
<1> DEFINE n == Cardinality(S)
           before(x) == Cardinality({y \in S : <<y, x>> \in lt})
           rank == [x \in S |-> before(x)]
           o == Sorted(S, lt)
<1>1. Counts(rank, S, lt)
  BY Ranks
<1>2. o = [i \in 1..n |-> CHOOSE x \in S : before(x) = i - 1]
  BY DEF Sorted
<1>3. ASSUME NEW i \in 1..n PROVE o[i] \in S /\ rank[o[i]] = i - 1
  <2>1. n \in Nat /\ i - 1 \in 0..(n - 1)
    BY FS_CardinalityType
  <2>2. \E x \in S : before(x) = i - 1
    BY <1>1, <2>1 DEF Counts
  <2>3. o[i] = CHOOSE x \in S : before(x) = i - 1
    BY <1>2
  <2> HIDE DEF before, o
  <2>4. o[i] \in S /\ before(o[i]) = i - 1
    BY <2>2, <2>3
  <2> QED
    BY <2>4
<1>4. DOMAIN o = 1..n /\ o = [i \in DOMAIN o |-> o[i]]
  BY <1>2
<1> HIDE DEF rank, o
<1> QED
  BY <1>1, <1>3, <1>4, RankedLists DEF o

\* Of two different sequences of keys one comes first, if they differ in a
\* place that both have.
LEMMA KeysOrder ==
    ASSUME NEW S, NEW key \in [S -> Seq(Int)],
           \A x, y \in S : x # y => \E i \in DOMAIN key[x] : /\ i \in DOMAIN key[y]
                                                             /\ key[x][i] # key[y][i]
    PROVE  StrictOrder(S, {p \in S \X S : LessKeys(key[p[1]], key[p[2]])})
<1> DEFINE lt == {p \in S \X S : LessKeys(key[p[1]], key[p[2]])}
<1>1. \A x \in S : \A i \in DOMAIN key[x] : i \in Nat \ {0} /\ key[x][i] \in Int
  OBVIOUS
<1>2. \A x \in S : <<x, x>> \notin lt
  BY <1>1 DEF LessKeys
<1>3. ASSUME NEW x \in S, NEW y \in S, NEW z \in S, <<x, y>> \in lt, <<y, z>> \in lt
      PROVE  <<x, z>> \in lt
  <2>1. LessKeys(key[x], key[y]) /\ LessKeys(key[y], key[z])
    BY <1>3
  <2>2. PICK i \in DOMAIN key[x] : /\ i \in DOMAIN key[y] /\ key[x][i] < key[y][i]
                                   /\ \A j \in 1..(i - 1) : key[x][j] = key[y][j]
    BY <2>1 DEF LessKeys
  <2>3. PICK m \in DOMAIN key[y] : /\ m \in DOMAIN key[z] /\ key[y][m] < key[z][m]
                                   /\ \A j \in 1..(m - 1) : key[y][j] = key[z][j]
    BY <2>1 DEF LessKeys
  <2>4. i \in Nat \ {0} /\ m \in Nat \ {0}
    BY <1>1, <2>2, <2>3
  <2>5. /\ key[x][i] \in Int /\ key[y][i] \in Int /\ key[y][m] \in Int /\ key[z][m] \in Int
    BY <1>1, <2>2, <2>3
  <2>6. CASE i < m
    <3>1. i \in DOMAIN key[z] /\ key[y][i] = key[z][i]
      <4>1. DOMAIN key[z] = 1..Len(key[z])
        OBVIOUS
      <4> QED
        BY <2>3, <2>4, <2>6, <4>1
    <3>2. \A j \in 1..(i - 1) : key[x][j] = key[z][j]
      BY <2>2, <2>3, <2>4, <2>6
    <3>3. LessKeys(key[x], key[z])
      BY <2>2, <3>1, <3>2 DEF LessKeys
    <3> QED
      BY <3>3
  <2>7. CASE m < i
    <3>1. m \in DOMAIN key[x] /\ key[x][m] = key[y][m]
      <4>1. DOMAIN key[x] = 1..Len(key[x])
        OBVIOUS
      <4> QED
        BY <2>2, <2>4, <2>7, <4>1
    <3>2. \A j \in 1..(m - 1) : key[x][j] = key[z][j]
      BY <2>2, <2>3, <2>4, <2>7
    <3>3. LessKeys(key[x], key[z])
      BY <2>3, <3>1, <3>2 DEF LessKeys
    <3> QED
      BY <3>3
  <2>8. CASE i = m
    <3>1. m \in DOMAIN key[z] /\ key[x][i] < key[z][i]
      <4>1. key[x][i] < key[y][i] /\ key[y][i] < key[z][i] /\ key[z][i] \in Int
        BY <2>2, <2>3, <2>5, <2>8
      <4> QED
        BY SMTT(30), <2>3, <2>5, <4>1
    <3>2. \A j \in 1..(i - 1) : key[x][j] = key[z][j]
      BY <2>2, <2>3, <2>4, <2>8
    <3>3. LessKeys(key[x], key[z])
      BY <2>2, <2>8, <3>1, <3>2 DEF LessKeys
    <3> QED
      BY <3>3
  <2> QED
    BY <2>4, <2>6, <2>7, <2>8
<1>4. ASSUME NEW x \in S, NEW y \in S, x # y PROVE <<x, y>> \in lt \/ <<y, x>> \in lt
  <2> DEFINE U == {i \in DOMAIN key[x] : i \in DOMAIN key[y] /\ key[x][i] # key[y][i]}
  <2>1. U \subseteq Nat /\ U # {}
    BY <1>1, <1>4
  <2>2. PICK i \in U : \A j \in U : i <= j
    <3> HIDE DEF U
    <3> QED
      BY <2>1, LeastNatural
  <2>3. /\ i \in DOMAIN key[x] /\ i \in DOMAIN key[y] /\ key[x][i] # key[y][i]
        /\ key[x][i] \in Int /\ key[y][i] \in Int /\ i \in Nat \ {0}
    BY <1>1
  <2>4. ASSUME NEW j \in 1..(i - 1) PROVE key[x][j] = key[y][j] /\ key[y][j] = key[x][j]
    <3>1. DOMAIN key[x] = 1..Len(key[x]) /\ DOMAIN key[y] = 1..Len(key[y])
      OBVIOUS
    <3>2. j \in DOMAIN key[x] /\ j \in DOMAIN key[y] /\ j < i
      BY <2>3, <3>1
    <3>3. j \notin U
      BY <2>2, <2>3, <3>2
    <3> QED
      BY <3>2, <3>3
  <2>5. CASE key[x][i] < key[y][i]
    BY <2>3, <2>4, <2>5 DEF LessKeys
  <2>6. CASE key[y][i] < key[x][i]
    BY <2>3, <2>4, <2>6 DEF LessKeys
  <2> QED
    BY <2>3, <2>5, <2>6
<1> HIDE DEF lt
<1>5. StrictOrder(S, lt)
  BY <1>2, <1>3, <1>4 DEF StrictOrder
<1> QED
  BY <1>5 DEF lt

\* Symbols have their fields, and different ones different ids.
Identified(s, S) ==
    /\ \A x \in S : /\ s[x].type \in Nat /\ s[x].id \in Nat /\ s[x].length \in Nat
                    /\ s[x].paramList \in Seq(AllNames \X Nat)
    /\ \A x, y \in S : s[x].id = s[y].id => x = y

\* operator < orders any functions.
LEMMA FunctionsOrdered ==
    ASSUME NEW S, NEW s, Identified(s, S)
    PROVE  StrictOrder(S, {p \in S \X S : Function_lt(s[p[1]], s[p[2]])})
<1> DEFINE f(x) == <<s[x].type, Len(s[x].paramList)>> \o ParamTypes(s[x]) \o <<s[x].id>>
           key == [x \in S |-> f(x)]
<1>1. ASSUME NEW x \in S
      PROVE  /\ f(x) \in Seq(Int) /\ DOMAIN f(x) = 1..(Len(s[x].paramList) + 3)
             /\ Len(s[x].paramList) \in Nat
             /\ f(x)[1] = s[x].type /\ f(x)[2] = Len(s[x].paramList)
             /\ f(x)[Len(s[x].paramList) + 3] = s[x].id
  <2> DEFINE pt == ParamTypes(s[x])
             n == Len(s[x].paramList)
  <2>1. s[x].paramList \in Seq(AllNames \X Nat) /\ s[x].type \in Nat /\ s[x].id \in Nat
    BY DEF Identified
  <2>2. n \in Nat /\ pt \in Seq(Nat) /\ Len(pt) = n
    <3>1. n \in Nat /\ DOMAIN s[x].paramList = 1..n
      BY <2>1
    <3>2. \A i \in 1..n : s[x].paramList[i] \in AllNames \X Nat
      BY <2>1, <3>1
    <3>3. pt \in [1..n -> Nat]
      BY <3>1, <3>2 DEF ParamTypes
    <3> HIDE DEF pt, n
    <3> QED
      BY <3>1, <3>3
  <2> HIDE DEF pt, n
  <2>3. /\ <<s[x].type, n>> \o pt \in Seq(Nat) /\ Len(<<s[x].type, n>> \o pt) = n + 2
        /\ (<<s[x].type, n>> \o pt)[1] = s[x].type /\ (<<s[x].type, n>> \o pt)[2] = n
    BY <2>1, <2>2
  <2> DEFINE a == <<s[x].type, n>> \o pt
  <2>4. a \in Seq(Nat) /\ Len(a) = n + 2 /\ a[1] = s[x].type /\ a[2] = n
    BY <2>3
  <2> HIDE DEF a
  <2>5. /\ a \o <<s[x].id>> \in Seq(Nat) /\ Len(a \o <<s[x].id>>) = n + 3
        /\ (a \o <<s[x].id>>)[1] = s[x].type /\ (a \o <<s[x].id>>)[2] = n
        /\ (a \o <<s[x].id>>)[n + 3] = s[x].id
    BY <2>1, <2>2, <2>4
  <2>6. f(x) = a \o <<s[x].id>>
    BY DEF a, n, pt
  <2>7. f(x) \in Seq(Int) /\ DOMAIN f(x) = 1..(n + 3)
    <3> HIDE DEF f
    <3>1. f(x) \in Seq(Nat) /\ Len(f(x)) = n + 3
      BY <2>5, <2>6
    <3> QED
      BY <3>1
  <2> HIDE DEF f
  <2> QED
    BY <2>2, <2>5, <2>6, <2>7 DEF n
<1> HIDE DEF f
<1>2. key \in [S -> Seq(Int)] /\ \A x \in S : key[x] = f(x)
  BY <1>1
<1>3. ASSUME NEW x \in S, NEW y \in S, x # y
      PROVE  \E i \in DOMAIN key[x] : i \in DOMAIN key[y] /\ key[x][i] # key[y][i]
  <2>1. s[x].id # s[y].id
    BY <1>3 DEF Identified
  <2>2. CASE Len(s[x].paramList) # Len(s[y].paramList)
    <3>1. 2 \in DOMAIN f(x) /\ 2 \in DOMAIN f(y) /\ f(x)[2] # f(y)[2]
      BY SMTT(30), <1>1, <2>2
    <3> QED
      BY <1>2, <3>1
  <2>3. CASE Len(s[x].paramList) = Len(s[y].paramList)
    <3> DEFINE k == Len(s[x].paramList) + 3
    <3>1. k \in DOMAIN f(x) /\ f(x)[k] = s[x].id
      BY <1>1
    <3>2. k = Len(s[y].paramList) + 3 /\ k \in DOMAIN f(y) /\ f(y)[k] = s[y].id
      BY <1>1, <2>3
    <3> QED
      BY <1>2, <2>1, <3>1, <3>2
  <2> QED
    BY <2>2, <2>3
<1> DEFINE lt == {p \in S \X S : LessKeys(key[p[1]], key[p[2]])}
<1>4. StrictOrder(S, lt)
  <2> HIDE DEF key
  <2> QED
    BY <1>2, <1>3, KeysOrder
<1>5. lt = {p \in S \X S : Function_lt(s[p[1]], s[p[2]])}
  BY DEF Function_lt, f
<1> QED
  BY <1>4, <1>5

\* operator < orders any arrays.
LEMMA ArraysOrdered ==
    ASSUME NEW S, NEW s, Identified(s, S)
    PROVE  StrictOrder(S, {p \in S \X S : Array_lt(s[p[1]], s[p[2]])})
<1> DEFINE key == [x \in S |-> <<s[x].type, s[x].length, s[x].id>>]
<1>1. key \in [S -> Seq(Int)]
  BY DEF Identified
<1>2. ASSUME NEW x \in S, NEW y \in S, x # y
      PROVE  \E i \in DOMAIN key[x] : i \in DOMAIN key[y] /\ key[x][i] # key[y][i]
  <2>1. s[x].id # s[y].id
    BY <1>2 DEF Identified
  <2>2. 3 \in DOMAIN key[x] /\ 3 \in DOMAIN key[y] /\ key[x][3] # key[y][3]
    BY <2>1
  <2> QED
    BY <2>2
<1> DEFINE lt == {p \in S \X S : LessKeys(key[p[1]], key[p[2]])}
<1>3. StrictOrder(S, lt)
  <2> HIDE DEF key
  <2> QED
    BY <1>1, <1>2, KeysOrder
<1>4. lt = {p \in S \X S : Array_lt(s[p[1]], s[p[2]])}
  BY DEF Array_lt
<1> QED
  BY <1>3, <1>4

-----------------------------------------------------------------------------
(* The loop over the sorted list. *)

Equivalence(S, eq) ==
    /\ \A x \in S : <<x, x>> \in eq
    /\ \A x, y \in S : <<x, y>> \in eq => <<y, x>> \in eq
    /\ \A x, y, z \in S : <<x, y>> \in eq /\ <<y, z>> \in eq => <<x, z>> \in eq

\* k begins the run of equal elements that i ends.
RunOf(o, eq, k, i) ==
    /\ k \in 1..i
    /\ Survivor(o, i, eq) = o[k]
    /\ <<o[k], o[i]>> \in eq
    /\ k = 1 \/ <<o[k - 1], o[k]>> \notin eq
    /\ \A j \in (k + 1)..i : <<o[j - 1], o[j]>> \in eq

\* Every element ends a run of equal elements, and oldPtr is at its beginning.
LEMMA Runs ==
    ASSUME NEW n \in Nat, NEW S, NEW o \in [1..n -> S], NEW eq, Equivalence(S, eq),
           NEW i \in 1..n
    PROVE  \E k \in 1..i : RunOf(o, eq, k, i)
<1> DEFINE chain(k) == \A j \in (k + 1)..i : <<o[j - 1], o[j]>> \in eq
           first(k) == k = 1 \/ <<o[k - 1], o[k]>> \notin eq
           K == {k \in 1..i : chain(k)}
<1>1. i \in K /\ K \subseteq Nat
  OBVIOUS
<1> HIDE DEF K
<1>2. PICK k \in K : \A m \in K : k <= m
  BY <1>1, LeastNatural
<1>3. k \in 1..i /\ chain(k)
  BY DEF K
<1>4. first(k)
  <2> SUFFICES ASSUME k # 1, <<o[k - 1], o[k]>> \in eq PROVE FALSE
    OBVIOUS
  <2>1. k - 1 \in 1..i /\ ~ (k <= k - 1)
    BY <1>3
  <2>2. chain(k - 1)
    <3> SUFFICES ASSUME NEW j \in (k - 1 + 1)..i PROVE <<o[j - 1], o[j]>> \in eq
      OBVIOUS
    <3>1. j = k \/ j \in (k + 1)..i
      BY <1>3
    <3> QED
      BY <1>3, <3>1
  <2> QED
    BY <1>2, <2>1, <2>2 DEF K
<1>5. ASSUME NEW m \in 1..i, chain(m), first(m) PROVE ~ (m < k) /\ ~ (k < m)
  <2>1. m \in K
    BY <1>5 DEF K
  <2>2. k <= m /\ k \in Nat /\ m \in Nat
    BY <1>2, <1>3, <2>1
  <2>3. ASSUME k < m PROVE FALSE
    <3>1. m \in (k + 1)..i /\ m # 1
      BY <1>3, <2>3
    <3> QED
      BY <1>3, <1>5, <3>1
  <2> QED
    BY <2>2, <2>3
<1> DEFINE c == CHOOSE m \in 1..i : chain(m) /\ first(m)
<1>6. c = k
  <2>1. c \in 1..i /\ chain(c) /\ first(c)
    BY <1>3, <1>4
  <2> HIDE DEF c
  <2>2. ~ (c < k) /\ ~ (k < c)
    BY <1>5, <2>1
  <2> QED
    BY <1>3, <2>1, <2>2
<1>7. Survivor(o, i, eq) = o[k]
  <2>1. Survivor(o, i, eq) = o[c]
    BY DEF Survivor
  <2> HIDE DEF c
  <2> QED
    BY <1>6, <2>1
<1>8. <<o[k], o[i]>> \in eq
  <2> DEFINE T == {d \in 0..(i - k) : <<o[k], o[k + d]>> \in eq}
  <2>1. 0 \in T
    BY <1>3 DEF Equivalence
  <2>2. ASSUME NEW d \in 0..(i - k - 1), d \in T PROVE d + 1 \in T
    <3>1. /\ k + d + 1 \in (k + 1)..i /\ k + d + 1 - 1 = k + d /\ d + 1 \in 0..(i - k)
          /\ k \in 1..n /\ k + d \in 1..n /\ k + d + 1 \in 1..n /\ k + (d + 1) = k + d + 1
      BY <1>3
    <3>2. <<o[k + d], o[k + d + 1]>> \in eq
      BY <1>3, <3>1
    <3>3. <<o[k], o[k + d + 1]>> \in eq
      BY <2>2, <3>1, <3>2 DEF Equivalence
    <3> QED
      BY <3>1, <3>3
  <2> HIDE DEF T
  <2>3. i - k \in Nat
    BY <1>3
  <2>4. \A d \in 0..(i - k) : d \in T
    BY <2>1, <2>2, <2>3, NaturalsUpTo
  <2>5. i - k \in T /\ k + (i - k) = i
    BY <1>3, <2>3, <2>4
  <2> QED
    BY <2>5 DEF T
<1> QED
  BY <1>3, <1>4, <1>7, <1>8 DEF RunOf

\* What a deleted element is merged into is equal to it, and not deleted.
LEMMA SurvivorLives ==
    ASSUME NEW n \in Nat, NEW S, NEW o \in [1..n -> S], NEW eq, Equivalence(S, eq),
           NEW i \in 1..n
    PROVE  \E k \in (1..n) \ Deleted(o, eq) : /\ Survivor(o, i, eq) = o[k]
                                              /\ <<o[k], o[i]>> \in eq
<1>1. PICK k \in 1..i : RunOf(o, eq, k, i)
  BY Runs
<1>2. k \in 1..n
  OBVIOUS
<1>3. PICK m \in 1..k : RunOf(o, eq, m, k)
  BY <1>2, Runs
<1>4. m = k
  <2> SUFFICES ASSUME m # k PROVE FALSE
    OBVIOUS
  <2>1. k \in (m + 1)..k /\ k # 1
    BY <1>3
  <2> QED
    BY <1>1, <1>3, <2>1 DEF RunOf
<1>5. k \notin Deleted(o, eq)
  BY <1>3, <1>4 DEF RunOf, Deleted
<1> QED
  BY <1>1, <1>2, <1>5 DEF RunOf

\* Equal elements are next to each other.
Contiguous(S, lt, eq) ==
    \A x, y, z \in S : <<x, y>> \in lt /\ <<y, z>> \in lt /\ <<x, z>> \in eq => <<y, z>> \in eq

\* If equal elements are next to each other, one of them is left.
LEMMA OneSurvivor ==
    ASSUME NEW S, IsFiniteSet(S), NEW lt, NEW o, Lists(o, S, lt), NEW eq, Equivalence(S, eq),
           Contiguous(S, lt, eq), NEW i \in 1..Cardinality(S), NEW j \in 1..Cardinality(S),
           i < j, <<o[i], o[j]>> \in eq
    PROVE  j \in Deleted(o, eq)
<1> DEFINE n == Cardinality(S)
<1>1. n \in Nat /\ o \in [1..n -> S]
  BY FS_CardinalityType DEF Lists
<1>2. j - 1 \in 1..n /\ j # 1 /\ (i = j - 1 \/ i < j - 1) /\ j - 1 < j
  BY <1>1
<1>3. <<o[j - 1], o[j]>> \in eq
  <2>1. CASE i = j - 1
    BY <2>1
  <2>2. CASE i < j - 1
    <3>1. <<o[i], o[j - 1]>> \in lt /\ <<o[j - 1], o[j]>> \in lt
      BY <1>2, <2>2 DEF Lists
    <3> QED
      BY <1>1, <1>2, <3>1 DEF Contiguous
  <2> QED
    BY <1>2, <2>1, <2>2
<1>4. PICK k \in 1..j : RunOf(o, eq, k, j)
  BY <1>1, Runs
<1>5. k # j /\ k \in 1..n
  <2>1. k = 1 \/ <<o[k - 1], o[k]>> \notin eq
    BY <1>4 DEF RunOf
  <2>2. k # j
    BY <1>2, <1>3, <2>1
  <2> QED
    BY <1>1, <2>2
<1>6. o[k] # o[j]
  BY <1>5 DEF Lists
<1> QED
  BY <1>1, <1>4, <1>6 DEF RunOf, Deleted

Before(S) == {p \in S \X S : p[1] < p[2]}

\* list has the elements of o in the places of keep, in order.
Picks(o, keep, list) ==
    /\ IsFiniteSet(keep)
    /\ \E pos : /\ Lists(pos, keep, Before(keep))
                /\ list = [k \in 1..Cardinality(keep) |-> o[pos[k]]]

\* The list that the loop leaves: all but the deleted and the first, in order.
LEMMA KeptPositions ==
    ASSUME NEW n \in Nat, NEW o, DOMAIN o = 1..n, NEW eq
    PROVE  Picks(o, {i \in 1..n : i # 1} \ Deleted(o, eq), Kept(o, eq))
<1> DEFINE keep == {i \in 1..n : i # 1} \ Deleted(o, eq)
           c == Cardinality(keep)
           before(i) == Cardinality({j \in keep : j < i})
           rank == [i \in keep |-> before(i)]
           nth(k) == CHOOSE i \in keep : before(i) = k - 1
           pos == [k \in 1..c |-> nth(k)]
<1>1. IsFiniteSet(keep)
  <2>1. IsFiniteSet(1..n) /\ keep \in SUBSET (1..n)
    BY FS_Interval
  <2> QED
    BY <2>1, FS_Subset
<1>2. \A i \in keep : i \in Int
  OBVIOUS
<1>3. Kept(o, eq) = [k \in 1..c |-> o[nth(k)]]
  BY DEF Kept
<1> HIDE DEF keep
<1>4. StrictOrder(keep, Before(keep))
  BY <1>2 DEF StrictOrder, Before
<1>5. Counts(rank, keep, Before(keep))
  <2>1. \A i \in keep : {j \in keep : <<j, i>> \in Before(keep)} = {j \in keep : j < i}
    BY DEF Before
  <2>2. rank = [i \in keep |-> Cardinality({j \in keep : <<j, i>> \in Before(keep)})]
    BY <2>1
  <2> HIDE DEF rank
  <2> QED
    BY <1>1, <1>4, <2>2, Ranks
<1>6. ASSUME NEW k \in 1..c PROVE pos[k] \in keep /\ rank[pos[k]] = k - 1
  <2>1. c \in Nat /\ k - 1 \in 0..(c - 1)
    BY <1>1, FS_CardinalityType
  <2>2. \E i \in keep : before(i) = k - 1
    BY <1>5, <2>1 DEF Counts
  <2>3. pos[k] = nth(k)
    OBVIOUS
  <2> HIDE DEF before, pos
  <2>4. pos[k] \in keep /\ before(pos[k]) = k - 1
    BY <2>2, <2>3
  <2> QED
    BY <2>4
<1>7. DOMAIN pos = 1..c /\ pos = [k \in DOMAIN pos |-> pos[k]]
  BY SMTT(30)
<1>8. Kept(o, eq) = [k \in 1..c |-> o[pos[k]]]
  BY <1>3
<1> HIDE DEF rank, pos
<1>9. Lists(pos, keep, Before(keep))
  BY <1>1, <1>4, <1>5, <1>6, <1>7, RankedLists
<1>10. Picks(o, keep, Kept(o, eq))
  BY <1>1, <1>8, <1>9 DEF Picks
<1> QED
  BY <1>10 DEF keep

\* What the loop makes of the sorted elements of S: it deletes those of D,
\* and leaves all others in list but the first one.
Merges(S, lt, eq, D, first, list) ==
    /\ D \subseteq S /\ first \in S \ D
    /\ \A x \in S \ {first} : <<first, x>> \in lt
    /\ list \in Seq(S \ D)
    /\ Elements(list) = (S \ D) \ {first}
    /\ \A a, b \in DOMAIN list : a < b => <<list[a], list[b]>> \in lt
    /\ Contiguous(S, lt, eq) => \A x, y \in S \ D : <<x, y>> \in eq => x = y

\* The loop over the sorted list.
LEMMA LoopMerges ==
    ASSUME NEW S, IsFiniteSet(S), S # {}, NEW lt, StrictOrder(S, lt), NEW o, Lists(o, S, lt),
           NEW eq, Equivalence(S, eq)
    PROVE  Merges(S, lt, eq, {o[i] : i \in Deleted(o, eq)}, o[1], Kept(o, eq))
<1> DEFINE n == Cardinality(S)
           dead == Deleted(o, eq)
           D == {o[i] : i \in dead}
           keep == {i \in 1..n : i # 1} \ dead
           c == Cardinality(keep)
           list == Kept(o, eq)
<1>1. n \in Nat /\ o \in [1..n -> S] /\ DOMAIN o = 1..n
  BY FS_CardinalityType DEF Lists
<1>17. Picks(o, keep, list)
  BY <1>1, KeptPositions
<1>2. 1 \in 1..n
  <2>1. PICK x \in S : TRUE
    OBVIOUS
  <2>2. \E i \in 1..n : o[i] = x
    BY DEF Lists
  <2> QED
    BY <1>1, <2>2
<1>3. dead \subseteq 1..n
  BY <1>1 DEF Deleted
<1>4. 1 \notin dead
  <2>1. PICK k \in 1..1 : RunOf(o, eq, k, 1)
    BY <1>1, <1>2, Runs
  <2>2. Survivor(o, 1, eq) = o[1]
    BY <2>1 DEF RunOf
  <2> QED
    BY <2>2 DEF Deleted
<1> HIDE DEF dead
<1>5. \A i \in 1..n : o[i] \in D <=> i \in dead
  BY <1>1, <1>3 DEF Lists
<1>6. D \subseteq S /\ o[1] \in S \ D
  BY <1>1, <1>2, <1>3, <1>4, <1>5
<1>7. \A x \in S \ {o[1]} : <<o[1], x>> \in lt
  <2> SUFFICES ASSUME NEW x \in S, x # o[1] PROVE <<o[1], x>> \in lt
    OBVIOUS
  <2>1. PICK i \in 1..n : o[i] = x
    BY DEF Lists
  <2>2. 1 < i
    BY <1>1, <1>2, <2>1
  <2> QED
    BY <1>2, <2>1, <2>2 DEF Lists
<1>8. PICK pos : /\ Lists(pos, keep, Before(keep))
                 /\ list = [k \in 1..c |-> o[pos[k]]]
  BY <1>17 DEF Picks
<1>9. IsFiniteSet(keep) /\ c \in Nat
  <2> HIDE DEF keep
  <2> QED
    BY <1>17, FS_CardinalityType DEF Picks
<1>10. pos \in [1..c -> keep] /\ \A i \in keep : \E k \in 1..c : pos[k] = i
  BY <1>8 DEF Lists
<1>11. \A a, b \in 1..c : a < b => pos[a] < pos[b]
  <2> SUFFICES ASSUME NEW a \in 1..c, NEW b \in 1..c, a < b PROVE pos[a] < pos[b]
    OBVIOUS
  <2>1. <<pos[a], pos[b]>> \in Before(keep)
    BY <1>8 DEF Lists
  <2> QED
    BY <2>1 DEF Before
<1> HIDE DEF list, D
<1>12. DOMAIN list = 1..c /\ \A k \in 1..c : list[k] = o[pos[k]] /\ list[k] \in S \ D
  BY <1>1, <1>5, <1>8, <1>10
<1>13. list \in Seq(S \ D)
  <2>1. list = [k \in 1..c |-> list[k]]
    BY <1>8, <1>12
  <2>2. list \in [1..c -> S \ D]
    BY <1>12, <2>1
  <2> HIDE DEF c
  <2> QED
    BY <1>9, <2>2
<1>14. Elements(list) = (S \ D) \ {o[1]}
  <2>1. ASSUME NEW x \in Elements(list) PROVE x \in (S \ D) \ {o[1]}
    <3>1. PICK k \in 1..c : x = list[k]
      BY <1>12, <2>1 DEF Elements
    <3>2. pos[k] \in 1..n /\ pos[k] # 1
      BY <1>10
    <3>3. o[pos[k]] # o[1]
      BY <1>2, <3>2 DEF Lists
    <3> QED
      BY <1>12, <3>1, <3>3
  <2>2. ASSUME NEW x \in (S \ D) \ {o[1]} PROVE x \in Elements(list)
    <3>1. PICK i \in 1..n : o[i] = x
      BY DEF Lists
    <3>2. i \in keep
      BY <1>5, <3>1
    <3>3. PICK k \in 1..c : pos[k] = i
      BY <1>10, <3>2
    <3> QED
      BY <1>12, <3>1, <3>3 DEF Elements
  <2> QED
    BY <2>1, <2>2
<1>15. \A a, b \in DOMAIN list : a < b => <<list[a], list[b]>> \in lt
  <2> SUFFICES ASSUME NEW a \in 1..c, NEW b \in 1..c, a < b PROVE <<list[a], list[b]>> \in lt
    BY <1>12
  <2>1. pos[a] < pos[b] /\ pos[a] \in 1..n /\ pos[b] \in 1..n
    BY <1>10, <1>11
  <2> QED
    BY <1>12, <2>1 DEF Lists
<1>16. ASSUME Contiguous(S, lt, eq), NEW x \in S \ D, NEW y \in S \ D, <<x, y>> \in eq
       PROVE  x = y
  <2>1. PICK i \in 1..n : o[i] = x
    BY DEF Lists
  <2>2. PICK j \in 1..n : o[j] = y
    BY DEF Lists
  <2>3. i \notin dead /\ j \notin dead /\ <<y, x>> \in eq
    BY <1>5, <1>16, <2>1, <2>2 DEF Equivalence
  <2>4. ~ (i < j) /\ ~ (j < i)
    BY <1>16, <2>1, <2>2, <2>3, OneSurvivor DEF dead
  <2>5. i = j
    BY <1>1, <2>4
  <2> QED
    BY <2>1, <2>2, <2>5
<1> QED
  BY <1>6, <1>7, <1>13, <1>14, <1>15, <1>16 DEF Merges, D, dead, list

\* getAliases after the step.
AliasesAfter(id) ==
    IF id \in DOMAIN symbolIDAliasReverseList' THEN symbolIDAliasReverseList'[id] ELSE {}

\* What the loop does to the aliases of the deleted elements of S: s has the
\* symbols after updateTypes.
Aliased(S, s, eq, D) ==
    /\ freed' = freed \cup D
    /\ DOMAIN symbolIDAliasMap' = DOMAIN symbolIDAliasMap \cup {s[x].id : x \in D}
    /\ \A a \in DOMAIN symbolIDAliasMap \ {s[x].id : x \in D} :
          symbolIDAliasMap'[a] = symbolIDAliasMap[a]
    /\ \A x \in D : \E y \in S \ D : /\ <<y, x>> \in eq
                                     /\ symbolIDAliasMap'[s[x].id] = s[y].id
                                     /\ s[x].id \in AliasesAfter(s[y].id)
    /\ \A id : getAliases(id) \subseteq AliasesAfter(id)

\* The maps of aliases keep their types.
AliasTypes ==
    /\ DOMAIN symbolIDAliasMap \subseteq Nat
    /\ symbolIDAliasMap \in [DOMAIN symbolIDAliasMap -> Nat]
    /\ DOMAIN symbolIDAliasReverseList \subseteq Nat
    /\ symbolIDAliasReverseList \in [DOMAIN symbolIDAliasReverseList -> SUBSET Nat]

\* addAlternativeID for every deleted element.
LEMMA MergeAliases ==
    ASSUME NEW n \in Nat, NEW S, NEW o \in [1..n -> S],
           \A i, j \in 1..n : o[i] = o[j] => i = j,
           NEW eq, Equivalence(S, eq), NEW s, Identified(s, S), AliasTypes,
           MergeEqual(s, o, eq), NEW D, D = {o[i] : i \in Deleted(o, eq)}
    PROVE  AliasTypes' /\ Aliased(S, s, eq, D)
<1> DEFINE dead == Deleted(o, eq)
           idOf(i) == s[o[i]].id
           into(i) == s[Survivor(o, i, eq)].id
           merged(id) == {idOf(i) : i \in {j \in dead : into(j) = id}}
           owners == {into(i) : i \in dead}
           index(id) == CHOOSE i \in dead : idOf(i) = id
<1>0. D = {o[i] : i \in dead}
  OBVIOUS
<1>1. dead \subseteq 1..n
  BY DEF Deleted
<1>2. \A i \in 1..n : o[i] \in S
  OBVIOUS
<1>3. \A i \in dead : \E k \in (1..n) \ dead : /\ Survivor(o, i, eq) = o[k]
                                               /\ <<o[k], o[i]>> \in eq
  BY <1>1, SurvivorLives
<1>4. /\ symbolIDAliasMap' = [id \in DOMAIN symbolIDAliasMap \cup {idOf(i) : i \in dead} |->
                                 IF \E i \in dead : idOf(i) = id
                                 THEN into(index(id)) ELSE symbolIDAliasMap[id]]
      /\ symbolIDAliasReverseList' =
             [id \in DOMAIN symbolIDAliasReverseList \cup owners |-> getAliases(id) \cup merged(id)]
      /\ freed' = freed \cup D
  BY DEF MergeEqual
<1> HIDE DEF dead
<1>5. \A i \in dead : idOf(i) \in Nat /\ into(i) \in Nat
  BY <1>1, <1>2, <1>3 DEF Identified
<1>6. \A i, j \in dead : idOf(i) = idOf(j) => i = j
  BY <1>1, <1>2 DEF Identified
<1>7. {s[x].id : x \in D} = {idOf(i) : i \in dead}
  BY <1>0
<1>8. \A i \in 1..n : o[i] \in D <=> i \in dead
  BY <1>0, <1>1
<1>9. ASSUME NEW x \in D
      PROVE  \E i \in dead, y \in S \ D :
                /\ x = o[i] /\ s[x].id = idOf(i) /\ into(i) = s[y].id /\ <<y, x>> \in eq
  <2>1. PICK i \in dead : x = o[i]
    BY <1>0
  <2>2. PICK k \in (1..n) \ dead : Survivor(o, i, eq) = o[k] /\ <<o[k], o[i]>> \in eq
    BY <1>3
  <2>3. o[k] \in S \ D
    BY <1>2, <1>8
  <2> QED
    BY <2>1, <2>2, <2>3
<1> HIDE DEF idOf, into
<1>10. ASSUME NEW i \in dead PROVE index(idOf(i)) = i
  <2>1. index(idOf(i)) \in dead /\ idOf(index(idOf(i))) = idOf(i)
    OBVIOUS
  <2> HIDE DEF index
  <2> QED
    BY <1>6, <2>1
<1>11. \A i \in dead : symbolIDAliasMap'[idOf(i)] = into(i)
  <2> HIDE DEF index
  <2> QED
    BY <1>4, <1>10
<1>12. \A a \in DOMAIN symbolIDAliasMap \ {idOf(i) : i \in dead} :
          symbolIDAliasMap'[a] = symbolIDAliasMap[a]
  <2> HIDE DEF index
  <2> QED
    BY <1>4
<1>13. DOMAIN symbolIDAliasMap' = DOMAIN symbolIDAliasMap \cup {idOf(i) : i \in dead}
  BY <1>4
<1>14. \A id : AliasesAfter(id) = IF id \in DOMAIN symbolIDAliasReverseList \cup owners
                                 THEN getAliases(id) \cup merged(id) ELSE {}
  <2> HIDE DEF merged, owners
  <2> QED
    BY <1>4 DEF AliasesAfter
<1>15. \A id : getAliases(id) \subseteq AliasesAfter(id)
  <2> HIDE DEF merged, owners
  <2> QED
    BY <1>14 DEF getAliases
<1>16. \A i \in dead : idOf(i) \in AliasesAfter(into(i))
  <2> TAKE i \in dead
  <2>1. into(i) \in owners /\ idOf(i) \in merged(into(i))
    OBVIOUS
  <2> HIDE DEF merged, owners
  <2> QED
    BY <1>14, <2>1
<1>17. AliasTypes'
  <2>1. DOMAIN symbolIDAliasMap' \subseteq Nat
    BY <1>5, <1>13 DEF AliasTypes
  <2>2. \A a \in DOMAIN symbolIDAliasMap' : symbolIDAliasMap'[a] \in Nat
    BY <1>5, <1>11, <1>12, <1>13 DEF AliasTypes
  <2>3. symbolIDAliasMap' = [a \in DOMAIN symbolIDAliasMap' |-> symbolIDAliasMap'[a]]
    <3> HIDE DEF index
    <3> QED
      BY <1>4
  <2>4. owners \subseteq Nat /\ \A id : merged(id) \subseteq Nat
    BY <1>5
  <2>5. \A id : getAliases(id) \subseteq Nat
    BY DEF AliasTypes, getAliases
  <2> HIDE DEF owners, merged
  <2>6. /\ DOMAIN symbolIDAliasReverseList' \subseteq Nat
        /\ symbolIDAliasReverseList' \in [DOMAIN symbolIDAliasReverseList' -> SUBSET Nat]
    BY <1>4, <2>4, <2>5 DEF AliasTypes
  <2>7. symbolIDAliasMap' \in [DOMAIN symbolIDAliasMap' -> Nat]
    BY <2>2, <2>3
  <2> QED
    BY <2>1, <2>6, <2>7 DEF AliasTypes
<1>18. \A x \in D : \E y \in S \ D : /\ <<y, x>> \in eq
                                     /\ symbolIDAliasMap'[s[x].id] = s[y].id
                                     /\ s[x].id \in AliasesAfter(s[y].id)
  <2> TAKE x \in D
  <2>1. PICK i \in dead, y \in S \ D :
                x = o[i] /\ s[x].id = idOf(i) /\ into(i) = s[y].id /\ <<y, x>> \in eq
    BY <1>9
  <2> QED
    BY <1>11, <1>16, <2>1
<1>19. Aliased(S, s, eq, D)
  BY <1>4, <1>7, <1>12, <1>13, <1>15, <1>18 DEF Aliased
<1> QED
  BY <1>17, <1>19

-----------------------------------------------------------------------------
(* The steps. *)

\* s has the symbols after updateTypes of those in xs.
Retyped(s, xs) ==
    /\ s \in [Symbols -> SymbolType]
    /\ \A x \in Symbols \ xs : s[x] = sym[x]
    /\ \A x \in Symbols : /\ s[x].kind = sym[x].kind
                          /\ s[x].name = sym[x].name
                          /\ s[x].id = sym[x].id
                          /\ s[x].length = sym[x].length
                          /\ s[x].memberNameMap = sym[x].memberNameMap

\* A symbol that is found has an id.
LEMMA ResolvedSymbol ==
    ASSUME ShapesOK, NEW i, findSymbolByID(i) # Null
    PROVE  findSymbolByID(i) \in Symbols /\ ResolvedIDs(i) \subseteq Nat
<1> DEFINE alias == IF i \in DOMAIN symbolIDAliasMap THEN symbolIDAliasMap[i] ELSE 0
           rev == {k \in getAliases(i) : k \in DOMAIN symbolIDMap}
           first == CHOOSE k \in rev : \A j \in rev : k <= j
<1>1. \A k \in DOMAIN symbolIDMap : symbolIDMap[k] \in Symbols
  BY DEF ShapesOK
<1>2. (\E k \in rev : \A j \in rev : k <= j) => first \in rev
  OBVIOUS
<1>3. \/ findSymbolByID(i) = symbolIDMap[i] /\ i \in DOMAIN symbolIDMap
      \/ findSymbolByID(i) = symbolIDMap[alias] /\ alias \in DOMAIN symbolIDMap
      \/ findSymbolByID(i) = symbolIDMap[first] /\ \E k \in rev : \A j \in rev : k <= j
  BY DEF findSymbolByID
<1>4. findSymbolByID(i) \in Symbols
  <2>1. \A k \in rev : symbolIDMap[k] \in Symbols
    BY <1>1
  <2> HIDE DEF rev, first, alias
  <2> QED
    BY <1>1, <1>2, <1>3, <2>1
<1>5. sym[findSymbolByID(i)].id \in Nat
  BY <1>4 DEF ShapesOK, SymbolType
<1> QED
  BY <1>4, <1>5, ConstantsAssumption DEF ResolvedIDs

\* updateTypes puts ids in place of ids.
LEMMA ResolutionsTyped ==
    ASSUME ShapesOK, NEW refs, Resolves(refs), NEW to \in Resolutions(refs)
    PROVE  \A i \in refs : to[i] \in Nat
BY ResolvedSymbol DEF Resolves, Resolutions

\* Function::updateTypes changes types only.
LEMMA FunctionsRetyped ==
    ASSUME ShapesOK, NEW fs \in SUBSET Symbols,
           NEW to, \A i \in UNION {Function_types(f) : f \in fs} : to[i] \in Nat
    PROVE  Retyped([x \in Symbols |-> IF x \in fs THEN Function_updateTypes(sym[x], to)
                                      ELSE sym[x]], fs)
<1> DEFINE s == [x \in Symbols |-> IF x \in fs THEN Function_updateTypes(sym[x], to) ELSE sym[x]]
<1>1. ASSUME NEW x \in fs
      PROVE  /\ s[x] \in SymbolType /\ s[x].kind = sym[x].kind /\ s[x].name = sym[x].name
             /\ s[x].id = sym[x].id /\ s[x].length = sym[x].length
             /\ s[x].memberNameMap = sym[x].memberNameMap
  <2> DEFINE pl == [i \in DOMAIN sym[x].paramList |->
                       <<sym[x].paramList[i][1], to[sym[x].paramList[i][2]]>>]
             ty == IF sym[x].type = 0 THEN 0 ELSE to[sym[x].type]
  <2>1. sym[x] \in SymbolType /\ s[x] = Function_updateTypes(sym[x], to)
    BY DEF ShapesOK
  <2>2. sym[x].paramList \in Seq(AllNames \X Nat)
    BY <2>1 DEF SymbolType
  <2>3. \A i \in DOMAIN sym[x].paramList : to[sym[x].paramList[i][2]] \in Nat
    BY DEF Function_types
  <2>4. pl \in Seq(AllNames \X Nat)
    <3>1. \A i \in DOMAIN sym[x].paramList : sym[x].paramList[i][1] \in AllNames
      BY <2>2
    <3>2. pl \in [1..Len(sym[x].paramList) -> AllNames \X Nat]
      BY <2>2, <2>3, <3>1
    <3> HIDE DEF pl
    <3> QED
      BY <2>2, <3>2
  <2>5. ty \in Nat
    BY DEF Function_types
  <2>6. Function_updateTypes(sym[x], to) = [sym[x] EXCEPT !.type = ty, !.paramList = pl]
    BY <2>1 DEF Function_updateTypes, SymbolType
  <2> HIDE DEF pl, ty, s
  <2>7. s[x] = [sym[x] EXCEPT !.type = ty, !.paramList = pl]
    BY <2>1, <2>6
  <2>8. s[x] \in SymbolType
    BY <2>1, <2>4, <2>5, <2>7 DEF SymbolType
  <2> QED
    BY <2>1, <2>7, <2>8 DEF SymbolType
<1>2. \A x \in Symbols \ fs : s[x] = sym[x]
  OBVIOUS
<1>3. \A x \in Symbols : s[x] \in SymbolType
  BY <1>1, <1>2 DEF ShapesOK
<1>4. s \in [Symbols -> SymbolType]
  BY <1>3
<1> HIDE DEF s
<1>5. Retyped(s, fs)
  BY <1>1, <1>2, <1>4 DEF Retyped
<1> QED
  BY <1>5 DEF s

\* Array::updateTypes too.
LEMMA ArraysRetyped ==
    ASSUME ShapesOK, NEW as \in SUBSET Symbols,
           NEW to, \A i \in UNION {Array_types(a) : a \in as} : to[i] \in Nat
    PROVE  Retyped([x \in Symbols |-> IF x \in as THEN Array_updateTypes(sym[x], to)
                                      ELSE sym[x]], as)
<1> DEFINE s == [x \in Symbols |-> IF x \in as THEN Array_updateTypes(sym[x], to) ELSE sym[x]]
<1>1. ASSUME NEW x \in as
      PROVE  /\ s[x] \in SymbolType /\ s[x].kind = sym[x].kind /\ s[x].name = sym[x].name
             /\ s[x].id = sym[x].id /\ s[x].length = sym[x].length
             /\ s[x].memberNameMap = sym[x].memberNameMap
  <2> DEFINE ty == IF sym[x].type = 0 THEN 0 ELSE to[sym[x].type]
  <2>1. sym[x] \in SymbolType /\ s[x] = Array_updateTypes(sym[x], to)
    BY DEF ShapesOK
  <2>2. ty \in Nat
    BY DEF Array_types
  <2>3. Array_updateTypes(sym[x], to) = [sym[x] EXCEPT !.type = ty]
    BY <2>1 DEF Array_updateTypes, SymbolType
  <2> HIDE DEF ty, s
  <2> QED
    BY ZenonT(60), <2>1, <2>2, <2>3 DEF SymbolType
<1>2. \A x \in Symbols \ as : s[x] = sym[x]
  OBVIOUS
<1>3. \A x \in Symbols : s[x] \in SymbolType
  BY <1>1, <1>2 DEF ShapesOK
<1>4. s \in [Symbols -> SymbolType]
  BY <1>3
<1> HIDE DEF s
<1>5. Retyped(s, as)
  BY <1>1, <1>2, <1>4 DEF Retyped
<1> QED
  BY <1>5 DEF s

FunctionLt(S, s) == {p \in S \X S : Function_lt(s[p[1]], s[p[2]])}
FunctionEq(S, s) == {p \in S \X S : Function_eq(s[p[1]], s[p[2]])}
ArrayLt(S, s) == {p \in S \X S : Array_lt(s[p[1]], s[p[2]])}
ArrayEq(S, s) == {p \in S \X S : Array_eq(s[p[1]], s[p[2]])}

\* What cleanFunctions and cleanArrays do to the objects of S.
Cleaned(S, lt, eq, D, first, list) ==
    /\ S # {} /\ Identified(sym', S) /\ Equivalence(S, eq) /\ StrictOrder(S, lt)
    /\ Retyped(sym', S)
    /\ Merges(S, lt, eq, D, first, list)
    /\ AliasTypes'
    /\ Aliased(S, sym', eq, D)
    /\ UNCHANGED <<ids, symbolIDMap, symbolNameMap, baseTypeNameMap, refBaseTypeNameMap,
                   functionNameMap, variableNameMap, die, open>>

\* The same, with the deleted objects and the first one of the list.
CleanedSome(S, lt, eq, list) == \E D, first : Cleaned(S, lt, eq, D, first, list)

FunctionsCleaned ==
    LET S == Elements(funcList)
    IN  /\ Call("cleanFunctions")
        /\ CleanedSome(S, FunctionLt(S, sym'), FunctionEq(S, sym'), funcList')
        /\ UNCHANGED <<arrayVector, arrayTypeMap, tidy>>

ArraysCleaned ==
    LET S == Elements(arrayVector)
    IN  /\ Call("cleanArrays")
        /\ CleanedSome(S, ArrayLt(S, sym'), ArrayEq(S, sym'), arrayVector')
        /\ arrayTypeMap' = InsertArrays(arrayTypeMap, arrayVector', sym')
        /\ tidy' = TRUE
        /\ UNCHANGED funcList

\* An early return and a failed assertion leave the symbols and maps alone.
NothingCleaned ==
    /\ UNCHANGED <<vars, freed, arrayTypeMap, tidy>>
    /\ UNCHANGED calls \/ \E op \in Operations : Call(op)

-----------------------------------------------------------------------------
(* The inductive invariant. *)

OwnIDs == \A s \in Symbols : ids.idMap[s] # 0 /\ sym[s].id = ids.idMap[s]

\* The lists hold live objects of their class.
ListsLive ==
    /\ \A x \in Elements(funcList) : /\ x \in Symbols /\ x \notin freed
                                     /\ sym[x].kind = "Function"
    /\ \A x \in Elements(arrayVector) : /\ x \in Symbols /\ x \notin freed
                                        /\ sym[x].kind = "Array"

\* Only arrays and functions without a name are deleted.
FreedNameless ==
    \A x \in freed : /\ x \in Symbols
                     /\ sym[x].kind \in {"Array", "Function"}
                     /\ sym[x].kind = "Function" => sym[x].name = NoName

CleanupInv == NamesInv /\ OwnIDs /\ ListsLive /\ FreedNameless

\* A list has finitely many elements.
LEMMA ListFinite ==
    ASSUME NEW T, NEW list \in Seq(T)
    PROVE  IsFiniteSet(Elements(list)) /\ Elements(list) \subseteq T
<1>1. Len(list) \in Nat /\ list \in [1..Len(list) -> T] /\ DOMAIN list = 1..Len(list)
  OBVIOUS
<1>2. list \in Surjection(1..Len(list), Elements(list))
  BY <1>1 DEF Surjection, Elements
<1>3. ExistsSurjection(1..Len(list), Elements(list))
  BY <1>2 DEF ExistsSurjection
<1>4. IsFiniteSet(Elements(list))
  BY <1>1, <1>3, FS_NatSurjection
<1> QED
  BY <1>1, <1>4 DEF Elements

\* The ids of the symbols tell them apart, also after updateTypes.
LEMMA RetypedIdentified ==
    ASSUME NamesInv, OwnIDs, NEW S, S \subseteq Symbols, NEW s, Retyped(s, S)
    PROVE  Identified(s, S)
<1>1. Symbols \subseteq Dies
  BY DEF NamesInv, ShapesOK
<1>2. ASSUME NEW x \in S
      PROVE  /\ s[x].type \in Nat /\ s[x].id \in Nat /\ s[x].length \in Nat
             /\ s[x].paramList \in Seq(AllNames \X Nat)
             /\ s[x].id = ids.idMap[x] /\ ids.idMap[x] # 0 /\ x \in Dies
  <2>1. s[x] \in SymbolType /\ s[x].id = sym[x].id
    BY DEF Retyped
  <2> QED
    BY <1>1, <2>1, ConstantsAssumption DEF SymbolType, OwnIDs
<1>3. \A x, y \in S : s[x].id = s[y].id => x = y
  BY <1>2, IdsInjective DEF NamesInv
<1> QED
  BY <1>2, <1>3 DEF Identified

\* The common part of cleanFunctions and cleanArrays.
LEMMA CleanLoop ==
    ASSUME NamesInv, OwnIDs, NEW S, S # {}, IsFiniteSet(S), S \subseteq Symbols,
           Retyped(sym', S), NEW lt, StrictOrder(S, lt), NEW eq, Equivalence(S, eq),
           NEW o, o = Sorted(S, lt), MergeEqual(sym', o, eq), NEW list, list = Kept(o, eq),
           UNCHANGED <<ids, symbolIDMap, symbolNameMap, baseTypeNameMap, refBaseTypeNameMap,
                       functionNameMap, variableNameMap, die, open>>
    PROVE  CleanedSome(S, lt, eq, list)
<1>1. Lists(o, S, lt)
  BY SortedLists
<1>2. Cardinality(S) \in Nat
  BY FS_CardinalityType
<1>3. Merges(S, lt, eq, {o[i] : i \in Deleted(o, eq)}, o[1], list)
  BY <1>1, LoopMerges
<1>4. Identified(sym', S)
  BY RetypedIdentified
<1>5. AliasTypes
  BY DEF NamesInv, ShapesOK, AliasTypes
<1>6. /\ o \in [1..Cardinality(S) -> S]
      /\ \A i, j \in 1..Cardinality(S) : o[i] = o[j] => i = j
  BY <1>1 DEF Lists
<1>7. AliasTypes' /\ Aliased(S, sym', eq, {o[i] : i \in Deleted(o, eq)})
  <2>1. PICK s : s = sym'
    OBVIOUS
  <2>2. Identified(s, S) /\ MergeEqual(s, o, eq)
    BY <1>4, <2>1
  <2>3. PICK n : n = Cardinality(S)
    OBVIOUS
  <2>4. PICK D : D = {o[i] : i \in Deleted(o, eq)}
    OBVIOUS
  <2>5. AliasTypes' /\ Aliased(S, s, eq, D)
    BY <1>2, <1>5, <1>6, <2>2, <2>3, <2>4, MergeAliases
  <2> QED
    BY <2>1, <2>4, <2>5
<1>8. Cleaned(S, lt, eq, {o[i] : i \in Deleted(o, eq)}, o[1], list)
  BY <1>3, <1>4, <1>7 DEF Cleaned
<1> QED
  BY <1>8 DEF CleanedSome

\* cleanFunctions cleans, or does nothing.
LEMMA CleanFunctionsStep ==
    ASSUME NamesInv, OwnIDs, ListsLive, cleanFunctions
    PROVE  FunctionsCleaned \/ NothingCleaned
<1> DEFINE fs == Elements(funcList)
           refs == UNION {Function_types(f) : f \in fs}
           upd(to) == [x \in Symbols |-> IF x \in fs THEN Function_updateTypes(sym[x], to)
                                         ELSE sym[x]]
           o == Sorted(fs, FunctionLt(fs, sym'))
           eq == FunctionEq(fs, sym')
<1>1. Call("cleanFunctions")
  BY DEF cleanFunctions
<1>2. CASE ~Resolves(refs) /\ Abort
  BY <1>1, <1>2 DEF Abort, Call, NothingCleaned, vars, Operations
<1>3. CASE fs = {} /\ UNCHANGED <<ids, sym, idVars, nameVars, freed, arrayTypeMap, tidy>>
  BY <1>1, <1>3 DEF Call, NothingCleaned, vars
<1>4. ASSUME fs # {}, Resolves(refs), NEW to \in Resolutions(refs), sym' = upd(to),
             funcList' = Kept(o, eq), MergeEqual(sym', o, eq),
             UNCHANGED <<ids, symbolIDMap, symbolNameMap, baseTypeNameMap, refBaseTypeNameMap,
                         functionNameMap, variableNameMap, arrayVector, arrayTypeMap, tidy>>
      PROVE  FunctionsCleaned
  <2>1. fs \in SUBSET Symbols /\ IsFiniteSet(fs)
    BY ListFinite DEF ListsLive, NamesInv, ShapesOK
  <2>2. Retyped(sym', fs)
    <3>1. ShapesOK
      BY DEF NamesInv
    <3>2. \A i \in refs : to[i] \in Nat
      <4> HIDE DEF refs
      <4> QED
        BY <1>4, <3>1, ResolutionsTyped
    <3> HIDE DEF fs
    <3>3. Retyped(upd(to), fs)
      BY <2>1, <3>1, <3>2, FunctionsRetyped
    <3> QED
      BY <1>4, <3>3
  <2>3. UNCHANGED <<die, open>>
    BY <1>1 DEF Call
  <2> HIDE DEF fs
  <2>4. StrictOrder(fs, FunctionLt(fs, sym'))
    <3>1. Identified(sym', fs)
      BY <2>1, <2>2, RetypedIdentified
    <3> QED
      BY <3>1, FunctionsOrdered DEF FunctionLt
  <2>5. Equivalence(fs, eq)
    BY DEF Equivalence, FunctionEq, Function_eq
  <2> HIDE DEF o, eq, refs, upd
  <2>6. o = Sorted(fs, FunctionLt(fs, sym'))
    BY DEF o
  <2>7. CleanedSome(fs, FunctionLt(fs, sym'), eq, funcList')
    BY <1>4, <2>1, <2>2, <2>3, <2>4, <2>5, <2>6, CleanLoop
  <2> QED
    BY <1>1, <1>4, <2>7 DEF FunctionsCleaned, fs, eq
<1>5. \/ ~Resolves(refs) /\ Abort
      \/ fs = {} /\ UNCHANGED <<ids, sym, idVars, nameVars, freed, arrayTypeMap, tidy>>
      \/ /\ fs # {} /\ Resolves(refs)
         /\ \E to \in Resolutions(refs) : /\ sym' = upd(to)
                                          /\ funcList' = Kept(o, eq)
                                          /\ MergeEqual(sym', o, eq)
         /\ UNCHANGED <<ids, symbolIDMap, symbolNameMap, baseTypeNameMap, refBaseTypeNameMap,
                        functionNameMap, variableNameMap, arrayVector, arrayTypeMap, tidy>>
  BY DEF cleanFunctions, FunctionLt, FunctionEq
<1> HIDE DEF fs, refs, upd, o, eq
<1> QED
  BY <1>2, <1>3, <1>4, <1>5

\* cleanArrays as well.
LEMMA CleanArraysStep ==
    ASSUME NamesInv, OwnIDs, ListsLive, cleanArrays
    PROVE  ArraysCleaned \/ NothingCleaned
<1> DEFINE as == Elements(arrayVector)
           refs == UNION {Array_types(a) : a \in as}
           upd(to) == [x \in Symbols |-> IF x \in as THEN Array_updateTypes(sym[x], to)
                                         ELSE sym[x]]
           o == Sorted(as, ArrayLt(as, sym'))
           eq == ArrayEq(as, sym')
<1>1. Call("cleanArrays")
  BY DEF cleanArrays
<1>2. CASE ~Resolves(refs) /\ Abort
  BY <1>1, <1>2 DEF Abort, Call, NothingCleaned, vars, Operations
<1>3. CASE as = {} /\ UNCHANGED <<ids, sym, idVars, nameVars, freed, arrayTypeMap, tidy>>
  BY <1>1, <1>3 DEF Call, NothingCleaned, vars
<1>4. ASSUME as # {}, Resolves(refs), NEW to \in Resolutions(refs), sym' = upd(to),
             arrayVector' = Kept(o, eq), MergeEqual(sym', o, eq),
             arrayTypeMap' = InsertArrays(arrayTypeMap, Kept(o, eq), sym'), tidy' = TRUE,
             UNCHANGED <<ids, symbolIDMap, symbolNameMap, baseTypeNameMap, refBaseTypeNameMap,
                         functionNameMap, variableNameMap, funcList>>
      PROVE  ArraysCleaned
  <2>1. as \in SUBSET Symbols /\ IsFiniteSet(as)
    BY ListFinite DEF ListsLive, NamesInv, ShapesOK
  <2>2. Retyped(sym', as)
    <3>1. ShapesOK
      BY DEF NamesInv
    <3>2. \A i \in refs : to[i] \in Nat
      <4> HIDE DEF refs
      <4> QED
        BY <1>4, <3>1, ResolutionsTyped
    <3> HIDE DEF as
    <3>3. Retyped(upd(to), as)
      BY <2>1, <3>1, <3>2, ArraysRetyped
    <3> QED
      BY <1>4, <3>3
  <2>3. UNCHANGED <<die, open>>
    BY <1>1 DEF Call
  <2> HIDE DEF as
  <2>4. StrictOrder(as, ArrayLt(as, sym'))
    <3>1. Identified(sym', as)
      BY <2>1, <2>2, RetypedIdentified
    <3> QED
      BY <3>1, ArraysOrdered DEF ArrayLt
  <2>5. Equivalence(as, eq)
    BY DEF Equivalence, ArrayEq, Array_eq
  <2> HIDE DEF o, eq, refs, upd
  <2>6. o = Sorted(as, ArrayLt(as, sym'))
    BY DEF o
  <2>7. CleanedSome(as, ArrayLt(as, sym'), eq, arrayVector')
    BY <1>4, <2>1, <2>2, <2>3, <2>4, <2>5, <2>6, CleanLoop
  <2> QED
    BY <1>1, <1>4, <2>7 DEF ArraysCleaned, as, eq
<1>5. \/ ~Resolves(refs) /\ Abort
      \/ as = {} /\ UNCHANGED <<ids, sym, idVars, nameVars, freed, arrayTypeMap, tidy>>
      \/ /\ as # {} /\ Resolves(refs)
         /\ \E to \in Resolutions(refs) :
               /\ sym' = upd(to)
               /\ arrayVector' = Kept(o, eq)
               /\ MergeEqual(sym', o, eq)
               /\ arrayTypeMap' = InsertArrays(arrayTypeMap, Kept(o, eq), sym')
         /\ tidy' = TRUE
         /\ UNCHANGED <<ids, symbolIDMap, symbolNameMap, baseTypeNameMap, refBaseTypeNameMap,
                        functionNameMap, variableNameMap, funcList>>
  BY DEF cleanArrays, ArrayLt, ArrayEq
<1> HIDE DEF as, refs, upd, o, eq
<1> QED
  BY <1>2, <1>3, <1>4, <1>5

\* An update of the types keeps symbols, names and indexes.
LEMMA CleanedKeepsNames ==
    ASSUME NamesInv, OwnIDs, NEW S, S \subseteq Symbols, NEW lt, NEW eq, NEW D, NEW first, NEW list,
           Cleaned(S, lt, eq, D, first, list),
           funcList' \in Seq(Symbols), arrayVector' \in Seq(Symbols)
    PROVE  NamesInv' /\ OwnIDs' /\ Symbols' = Symbols
<1>1. /\ UNCHANGED <<ids, symbolIDMap, symbolNameMap, baseTypeNameMap, refBaseTypeNameMap,
                     functionNameMap, variableNameMap, die, open>>
      /\ AliasTypes' /\ Retyped(sym', S)
  BY DEF Cleaned
<1>2. /\ sym' \in [Symbols -> SymbolType] /\ Symbols' = Symbols /\ Visited' = Visited
      /\ \A x \in Symbols : /\ sym'[x].kind = sym[x].kind
                            /\ sym'[x].name = sym[x].name
                            /\ sym'[x].id = sym[x].id
                            /\ sym'[x].memberNameMap = sym[x].memberNameMap
  BY <1>1 DEF Retyped, Symbols, Visited
<1>3. SymbolType' = SymbolType /\ DieType' = DieType
  BY <1>2 DEF SymbolType, DieType
<1>4. ShapesOK'
  BY <1>1, <1>2, <1>3 DEF NamesInv, ShapesOK, AliasTypes
<1>5. SameNames
  BY <1>1, <1>2 DEF SameNames
<1>6. /\ OwnDie' /\ ParentsOK' /\ StacksOK'
      /\ IndexesSound' /\ IndexesComplete' /\ RefIndexLast'
      /\ OneSymbolPerName' /\ MergeCompatible' /\ MembersIndexed'
  BY <1>4, <1>5, SameNamesKept
<1>7. NamesInv'
  BY <1>1, <1>4, <1>6 DEF NamesInv
<1>8. OwnIDs'
  BY <1>1, <1>2 DEF OwnIDs
<1> QED
  BY <1>2, <1>7, <1>8

\* No named function is deleted: a function equal to it has its name, too.
LEMMA NamelessDeleted ==
    ASSUME NamesInv, ListsLive, FunctionsCleaned
    PROVE  \A x \in freed' \ freed : /\ x \in Elements(funcList)
                                     /\ sym[x].name = NoName
<1> DEFINE S == Elements(funcList)
           lt == FunctionLt(S, sym')
           eq == FunctionEq(S, sym')
<1>1. PICK D, first : Cleaned(S, lt, eq, D, first, funcList')
  BY DEF FunctionsCleaned, CleanedSome
<1>2. D \subseteq S /\ freed' = freed \cup D
  BY <1>1 DEF Cleaned, Merges, Aliased
<1>3. ASSUME NEW x \in D PROVE sym[x].name = NoName
  <2>1. PICK y \in S \ D : <<y, x>> \in eq
    BY <1>1 DEF Cleaned, Aliased
  <2>2. x \in S /\ y \in S /\ x # y
    BY <1>2, <2>1
  <2>3. /\ sym'[x].name = sym'[y].name
        /\ x \in Symbols /\ y \in Symbols
        /\ sym[x].kind = "Function" /\ sym[y].kind = "Function"
    BY <2>1, <2>2 DEF FunctionEq, Function_eq, ListsLive
  <2>4. sym[x].name = sym[y].name
    BY <1>1, <2>3 DEF Cleaned, Retyped
  <2> QED
    BY <2>2, <2>3, <2>4 DEF NamesInv, OneSymbolPerName
<1> QED
  BY <1>2, <1>3

\* cleanFunctions keeps the invariant.
LEMMA CleanFunctionsKeeps ==
    ASSUME CleanupInv, FunctionsCleaned
    PROVE  CleanupInv'
<1> DEFINE S == Elements(funcList)
<1>0. NamesInv /\ OwnIDs /\ ListsLive /\ FreedNameless
  BY DEF CleanupInv
<1>1. PICK D, first : Cleaned(S, FunctionLt(S, sym'), FunctionEq(S, sym'), D, first, funcList')
  BY DEF FunctionsCleaned, CleanedSome
<1>2. /\ D \subseteq S /\ freed' = freed \cup D /\ arrayVector' = arrayVector
      /\ funcList' \in Seq(S \ D) /\ Elements(funcList') \subseteq S \ D
  BY <1>1 DEF Cleaned, Merges, Aliased, FunctionsCleaned
<1>3. S \subseteq Symbols /\ \A x \in S : x \notin freed /\ sym[x].kind = "Function"
  BY <1>0 DEF ListsLive
<1>4. funcList' \in Seq(Symbols) /\ arrayVector' \in Seq(Symbols)
  <2>1. S \ D \subseteq Symbols
    BY <1>3
  <2>2. funcList' \in Seq(Symbols)
    <3> HIDE DEF S
    <3> QED
      BY <1>2, <2>1
  <2> QED
    BY <1>0, <1>2, <2>2 DEF NamesInv, ShapesOK
<1>5. NamesInv' /\ OwnIDs' /\ Symbols' = Symbols
  <2> HIDE DEF S
  <2> QED
    BY <1>0, <1>1, <1>3, <1>4, CleanedKeepsNames
<1>6. \A x \in Symbols : sym'[x].kind = sym[x].kind /\ sym'[x].name = sym[x].name
  BY <1>1 DEF Cleaned, Retyped
<1>7. ListsLive'
  <2>1. ASSUME NEW x \in Elements(funcList')
        PROVE  x \in Symbols /\ x \notin freed' /\ sym'[x].kind = "Function"
    BY <1>2, <1>3, <1>6, <2>1
  <2>2. ASSUME NEW x \in Elements(arrayVector)
        PROVE  x \in Symbols /\ x \notin freed' /\ sym'[x].kind = "Array"
    <3>1. x \in Symbols /\ x \notin freed /\ sym[x].kind = "Array"
      BY <1>0 DEF ListsLive
    <3>2. x \notin D
      BY <1>2, <1>3, <3>1
    <3> QED
      BY <1>2, <1>6, <3>1, <3>2
  <2> QED
    BY <1>2, <1>5, <2>1, <2>2 DEF ListsLive
<1>8. FreedNameless'
  <2> SUFFICES ASSUME NEW x \in freed'
               PROVE  /\ x \in Symbols /\ sym'[x].kind \in {"Array", "Function"}
                      /\ sym'[x].kind = "Function" => sym'[x].name = NoName
    BY <1>5 DEF FreedNameless
  <2>1. CASE x \in freed
    BY <1>0, <1>6, <2>1 DEF FreedNameless
  <2>2. CASE x \notin freed
    <3>1. x \in S /\ sym[x].name = NoName
      BY <1>0, <2>2, NamelessDeleted
    <3> QED
      BY <1>3, <1>6, <3>1
  <2> QED
    BY <2>1, <2>2
<1> QED
  BY <1>5, <1>7, <1>8 DEF CleanupInv

\* cleanArrays keeps the invariant.
LEMMA CleanArraysKeeps ==
    ASSUME CleanupInv, ArraysCleaned
    PROVE  CleanupInv'
<1> DEFINE S == Elements(arrayVector)
<1>0. NamesInv /\ OwnIDs /\ ListsLive /\ FreedNameless
  BY DEF CleanupInv
<1>1. PICK D, first : Cleaned(S, ArrayLt(S, sym'), ArrayEq(S, sym'), D, first, arrayVector')
  BY DEF ArraysCleaned, CleanedSome
<1>2. /\ D \subseteq S /\ freed' = freed \cup D /\ funcList' = funcList
      /\ arrayVector' \in Seq(S \ D) /\ Elements(arrayVector') \subseteq S \ D
  BY <1>1 DEF Cleaned, Merges, Aliased, ArraysCleaned
<1>3. S \subseteq Symbols /\ \A x \in S : x \notin freed /\ sym[x].kind = "Array"
  BY <1>0 DEF ListsLive
<1>4. funcList' \in Seq(Symbols) /\ arrayVector' \in Seq(Symbols)
  <2>1. S \ D \subseteq Symbols
    BY <1>3
  <2>2. arrayVector' \in Seq(Symbols)
    <3> HIDE DEF S
    <3> QED
      BY <1>2, <2>1
  <2> QED
    BY <1>0, <1>2, <2>2 DEF NamesInv, ShapesOK
<1>5. NamesInv' /\ OwnIDs' /\ Symbols' = Symbols
  <2> HIDE DEF S
  <2> QED
    BY <1>0, <1>1, <1>3, <1>4, CleanedKeepsNames
<1>6. \A x \in Symbols : sym'[x].kind = sym[x].kind /\ sym'[x].name = sym[x].name
  BY <1>1 DEF Cleaned, Retyped
<1>7. ListsLive'
  <2>1. ASSUME NEW x \in Elements(arrayVector')
        PROVE  x \in Symbols /\ x \notin freed' /\ sym'[x].kind = "Array"
    BY <1>2, <1>3, <1>6, <2>1
  <2>2. ASSUME NEW x \in Elements(funcList)
        PROVE  x \in Symbols /\ x \notin freed' /\ sym'[x].kind = "Function"
    <3>1. x \in Symbols /\ x \notin freed /\ sym[x].kind = "Function"
      BY <1>0 DEF ListsLive
    <3>2. x \notin D
      BY <1>2, <1>3, <3>1
    <3> QED
      BY <1>2, <1>6, <3>1, <3>2
  <2> QED
    BY <1>2, <1>5, <2>1, <2>2 DEF ListsLive
<1>8. FreedNameless'
  <2> SUFFICES ASSUME NEW x \in freed'
               PROVE  /\ x \in Symbols /\ sym'[x].kind \in {"Array", "Function"}
                      /\ sym'[x].kind = "Function" => sym'[x].name = NoName
    BY <1>5 DEF FreedNameless
  <2>1. CASE x \in freed
    BY <1>0, <1>6, <2>1 DEF FreedNameless
  <2>2. CASE x \in D
    BY <1>2, <1>3, <1>6, <2>2
  <2> QED
    BY <1>2, <2>1, <2>2
<1> QED
  BY <1>5, <1>7, <1>8 DEF CleanupInv

\* A DIE that is read has the effect of its handler.
LEMMA ParseParts ==
    ASSUME NamesInv, Parse
    PROVE  /\ NamesInv' /\ Step /\ \E d \in Dies : Effect(d)
           /\ UNCHANGED <<freed, arrayTypeMap, calls>> /\ tidy' = FALSE
<1>1. PICK d \in Dies \ Visited : \E level \in 0..Len(open[d[2]]) : ParseDie(d, level)
  BY DEF Parse
<1>2. PICK level \in 0..Len(open[d[2]]) : ParseDie(d, level)
  BY <1>1
<1>3. Next
  BY <1>1 DEF Next
<1>4. LookupInv
  BY DEF NamesInv, LookupInv
<1>5. Effect(d)
  BY <1>2, <1>4, ParseDieEffect
<1>6. Step
  BY <1>3, NextStep DEF NamesInv
<1>7. NamesInv'
  BY <1>3, StepKeepsNames
<1>8. UNCHANGED <<freed, arrayTypeMap, calls>> /\ tidy' = FALSE
  BY DEF Parse
<1> QED
  BY <1>5, <1>6, <1>7, <1>8

\* An id, once issued, stays, and a new symbol has one.
LEMMA IssuedStay ==
    ASSUME IdsOK(ids), Step
    PROVE  /\ \A e \in Dies : ids.idMap[e] # 0 => ids'.idMap[e] = ids.idMap[e]
           /\ \A d \in Dies, t \in Dies \cup {Null} : NewStep(d, t) => ids'.idMap[d] # 0
<1>1. ASSUME NEW d \in Dies, NEW t \in Dies \cup {Null}, NewStep(d, t)
      PROVE  /\ \A e \in Dies : ids.idMap[e] # 0 => ids'.idMap[e] = ids.idMap[e]
             /\ ids'.idMap[d] # 0
  <2>1. ids' = getTypeID(getID(ids, d), t)
    BY <1>1 DEF NewStep
  <2>2. IdsOK(getID(ids, d)) /\ getID(ids, d).idMap[d] # 0
    BY GetIDOK
  <2>3. \A e \in Dies : ids.idMap[e] # 0 => getID(ids, d).idMap[e] = ids.idMap[e]
    BY GetIDOK
  <2>4. \A e \in Dies : getID(ids, d).idMap[e] # 0
           => getTypeID(getID(ids, d), t).idMap[e] = getID(ids, d).idMap[e]
    BY <2>2, GetTypeIDOK
  <2> QED
    BY <2>1, <2>2, <2>3, <2>4
<1>2. ASSUME NEW d \in Dies, NEW t \in Dies \cup {Null}, NEW s \in Dies, MergeStep(d, t, s)
      PROVE  \A e \in Dies : ids.idMap[e] # 0 => ids'.idMap[e] = ids.idMap[e]
  <2>1. ids' = getID(getTypeID(ids, t), d)
    BY <1>2 DEF MergeStep
  <2>2. IdsOK(getTypeID(ids, t))
    BY GetTypeIDOK
  <2>3. \A e \in Dies : ids.idMap[e] # 0 => getTypeID(ids, t).idMap[e] = ids.idMap[e]
    BY GetTypeIDOK
  <2>4. \A e \in Dies : getTypeID(ids, t).idMap[e] # 0
           => getID(getTypeID(ids, t), d).idMap[e] = getTypeID(ids, t).idMap[e]
    BY <2>2, GetIDOK
  <2> QED
    BY <2>1, <2>3, <2>4
<1>3. ASSUME NEW d \in Dies, NEW t \in Dies \cup {Null}, QuietStep(d, t)
      PROVE  \A e \in Dies : ids.idMap[e] # 0 => ids'.idMap[e] = ids.idMap[e]
  BY <1>3, GetTypeIDOK DEF QuietStep
<1>4. UserStep => ids' = ids
  BY DEF UserStep
<1> QED
  BY <1>1, <1>2, <1>3, <1>4 DEF Step

\* Reading a DIE keeps the invariant.
LEMMA ParseKeeps ==
    ASSUME CleanupInv, Parse
    PROVE  CleanupInv'
<1>0. NamesInv /\ OwnIDs /\ ListsLive /\ FreedNameless
  BY DEF CleanupInv
<1>1. NamesInv' /\ Step /\ freed' = freed
  BY <1>0, ParseParts
<1>2. PICK d \in Dies : Effect(d)
  BY <1>0, ParseParts
<1>3. PICK tag \in AllTags, n \in AllNames, t \in Dies \cup {Null}, val \in Nat \cup {Null},
           s \in Dies \cup {Null}, p \in Dies \cup {Null} : ParseEffect(d, tag, n, t, val, s, p)
  BY <1>2 DEF Effect
<1>4. d \notin Visited /\ VisitEffect(d, tag, n, t, val, s, p) /\ NameEffect(d, tag, n, s)
      /\ ListEffect(d, tag, s, SymOf(p))
  BY <1>3 DEF ParseEffect, VisitEffect
<1>5. Symbols \subseteq Visited /\ d \notin Symbols /\ Symbols \subseteq Dies
  BY <1>0, <1>4 DEF NamesInv, ShapesOK
<1>6. /\ Symbols' = IF s = d THEN Symbols \cup {d} ELSE Symbols
      /\ \A x \in Symbols : sym'[x].kind = sym[x].kind /\ sym'[x].name = sym[x].name
      /\ s = d => sym'[d].kind = ClassOf(tag)
  BY <1>4 DEF NameEffect
<1>7. OwnIDs'
  <2>1. \A e \in Dies : ids.idMap[e] # 0 => ids'.idMap[e] = ids.idMap[e]
    BY <1>0, <1>1, IssuedStay DEF NamesInv
  <2>2. SymbolIDsKept
    BY <1>1 DEF Step, NewStep, MergeStep, QuietStep, UserStep
  <2>3. \A x \in Symbols : ids'.idMap[x] # 0 /\ sym'[x].id = ids'.idMap[x]
    BY <1>0, <1>5, <2>1, <2>2 DEF OwnIDs, SymbolIDsKept
  <2>4. CASE s # d
    BY <1>6, <2>3, <2>4 DEF OwnIDs
  <2>5. CASE s = d
    <3>1. PICK e \in Dies, u \in Dies \cup {Null} : NewStep(e, u)
      BY <1>1, <1>5, <1>6, <2>5 DEF Step, MergeStep, QuietStep, UserStep
    <3>2. e = d
      BY <1>5, <1>6, <2>5, <3>1 DEF NewStep
    <3>3. sym'[d].id = ids'.idMap[d] /\ ids'.idMap[d] # 0
      BY <1>0, <1>1, <3>1, <3>2, IssuedStay DEF NewStep, NamesInv
    <3> QED
      BY <1>6, <2>3, <2>5, <3>3 DEF OwnIDs
  <2> QED
    BY <2>4, <2>5
<1>8. FreedNameless'
  BY <1>0, <1>1, <1>6 DEF FreedNameless
<1>9. d \notin freed
  BY <1>0, <1>5 DEF FreedNameless
<1>10. ASSUME NEW list \in Seq(Symbols), NEW x \in Elements(Append(list, d))
       PROVE  x \in Elements(list) \/ x = d
  <2>1. PICK i \in 1..(Len(list) + 1) : x = Append(list, d)[i]
    BY <1>10 DEF Elements
  <2> QED
    BY <2>1 DEF Elements
<1>11. funcList \in Seq(Symbols) /\ arrayVector \in Seq(Symbols)
  BY <1>0 DEF NamesInv, ShapesOK
<1>12. /\ \A x \in Elements(funcList') :
             x \in Elements(funcList) \/ (x = d /\ s = d /\ ClassOf(tag) = "Function")
       /\ \A x \in Elements(arrayVector') :
             x \in Elements(arrayVector) \/ (x = d /\ s = d /\ ClassOf(tag) = "Array")
  <2>1. /\ \A x \in Elements(Append(funcList, d)) : x \in Elements(funcList) \/ x = d
        /\ \A x \in Elements(Append(arrayVector, d)) : x \in Elements(arrayVector) \/ x = d
    BY <1>10, <1>11
  <2> QED
    BY <1>4, <2>1 DEF ListEffect
<1>13. ListsLive'
  <2>1. \A x \in Elements(funcList) : x \in Symbols' /\ x \notin freed' /\ sym'[x].kind = "Function"
    BY <1>0, <1>1, <1>6 DEF ListsLive
  <2>2. \A x \in Elements(arrayVector) : x \in Symbols' /\ x \notin freed' /\ sym'[x].kind = "Array"
    BY <1>0, <1>1, <1>6 DEF ListsLive
  <2>3. \A x \in Elements(funcList') : x \in Symbols' /\ x \notin freed' /\ sym'[x].kind = "Function"
    BY <1>1, <1>6, <1>9, <1>12, <2>1
  <2>4. \A x \in Elements(arrayVector') : x \in Symbols' /\ x \notin freed' /\ sym'[x].kind = "Array"
    BY <1>1, <1>6, <1>9, <1>12, <2>2
  <2> QED
    BY <2>3, <2>4 DEF ListsLive
<1> QED
  BY <1>1, <1>7, <1>8, <1>13 DEF CleanupInv

\* A step that leaves everything but the id map alone keeps the invariant.
LEMMA QuietKeeps ==
    ASSUME CleanupInv, UNCHANGED <<ids, sym, symbolIDAliasMap, symbolIDAliasReverseList,
                                   nameVars, die, open, freed>>,
           DOMAIN symbolIDMap' \subseteq Nat, symbolIDMap' \in [DOMAIN symbolIDMap' -> Symbols]
    PROVE  CleanupInv'
<1>0. NamesInv /\ OwnIDs /\ ListsLive /\ FreedNameless
  BY DEF CleanupInv
<1>1. /\ Symbols' = Symbols /\ Visited' = Visited
      /\ UNCHANGED <<symbolNameMap, baseTypeNameMap, refBaseTypeNameMap, functionNameMap,
                     variableNameMap, funcList, arrayVector>>
  BY DEF Symbols, Visited, nameVars
<1>2. SymbolType' = SymbolType /\ DieType' = DieType
  BY <1>1 DEF SymbolType, DieType
<1>3. ShapesOK'
  BY <1>0, <1>1, <1>2 DEF NamesInv, ShapesOK
<1>4. SameNames
  BY <1>1 DEF SameNames
<1>5. /\ OwnDie' /\ ParentsOK' /\ StacksOK'
      /\ IndexesSound' /\ IndexesComplete' /\ RefIndexLast'
      /\ OneSymbolPerName' /\ MergeCompatible' /\ MembersIndexed'
  BY <1>0, <1>3, <1>4, SameNamesKept
<1>6. NamesInv'
  BY <1>0, <1>3, <1>5 DEF NamesInv
<1> QED
  BY <1>0, <1>1, <1>6 DEF CleanupInv, OwnIDs, ListsLive, FreedNameless

\* The effect of removeSymbol.
SymbolRemoved ==
    /\ Call("removeSymbol")
    /\ UNCHANGED <<ids, sym, symbolIDAliasMap, symbolIDAliasReverseList, nameVars,
                   freed, arrayTypeMap, tidy>>
    /\ \/ UNCHANGED symbolIDMap
       \/ \E s \in Symbols : /\ s \notin freed
                             /\ getAliases(sym[s].id) = {}
                             /\ symbolIDMap' = [i \in DOMAIN symbolIDMap \ {sym[s].id} |->
                                                   symbolIDMap[i]]

\* removeSymbol takes a symbol without aliases out of the id map, or does
\* nothing.
LEMMA RemoveStep ==
    ASSUME NEW s \in Symbols, removeSymbol(s)
    PROVE  SymbolRemoved
<1>1. Call("removeSymbol") /\ s \notin freed
  BY DEF removeSymbol
<1>2. CASE Abort
  BY <1>1, <1>2 DEF SymbolRemoved, Abort, idVars
<1>3. CASE ~Abort
  BY <1>1, <1>3 DEF SymbolRemoved, removeSymbol
<1> QED
  BY <1>2, <1>3

\* The steps of CleanupNext, as far as symbols, maps and lists go.
CleanupStep ==
    \/ Parse
    \/ FunctionsCleaned
    \/ ArraysCleaned
    \/ SymbolRemoved
    \/ NothingCleaned

\* ... which are all there are.
LEMMA CleanupSteps ==
    ASSUME CleanupInv, [CleanupNext]_allVars
    PROVE  CleanupStep
<1>1. CASE UNCHANGED allVars
  BY <1>1 DEF allVars, cleanupVars, CleanupStep, NothingCleaned
<1> QED
  BY <1>1, CleanFunctionsStep, CleanArraysStep, RemoveStep DEF CleanupNext, CleanupStep, CleanupInv

\* Every step keeps the invariant.
LEMMA CleanupKeeps ==
    ASSUME CleanupInv, CleanupStep
    PROVE  CleanupInv'
<1>0. DOMAIN symbolIDMap \subseteq Nat /\ symbolIDMap \in [DOMAIN symbolIDMap -> Symbols]
  BY DEF CleanupInv, NamesInv, ShapesOK
<1>1. CASE SymbolRemoved
  <2>1. DOMAIN symbolIDMap' \subseteq Nat /\ symbolIDMap' \in [DOMAIN symbolIDMap' -> Symbols]
    BY <1>0, <1>1 DEF SymbolRemoved
  <2> QED
    BY <1>1, <2>1, QuietKeeps DEF SymbolRemoved, Call
<1>2. CASE NothingCleaned
  BY <1>0, <1>2, QuietKeeps DEF NothingCleaned, vars, idVars
<1> QED
  BY <1>1, <1>2, ParseKeeps, CleanFunctionsKeeps, CleanArraysKeeps DEF CleanupStep

\* The inductive invariant behind the theorems on removal and deduplication.
LEMMA CleanupInvariant == CleanupSpec => []CleanupInv
<1>1. CleanupInit => CleanupInv
  <2> SUFFICES ASSUME CleanupInit PROVE CleanupInv
    OBVIOUS
  <2>1. NamesInv
    BY InitContent DEF CleanupInit, ContentInv
  <2>2. Symbols = {} /\ funcList = <<>> /\ arrayVector = <<>> /\ freed = {}
    BY DEF CleanupInit, Init, EmptyMap, Symbols
  <2> QED
    BY <2>1, <2>2 DEF CleanupInv, OwnIDs, ListsLive, FreedNameless, Elements
<1>2. CleanupInv /\ [CleanupNext]_allVars => CleanupInv'
  BY CleanupSteps, CleanupKeeps
<1> QED
  BY <1>1, <1>2, PTL DEF CleanupSpec

\* cleanFunctions never deletes a function that is found by name, in whatever
\* order files are read and the lists are cleaned.
THEOREM NamedFunctionsStayLive == CleanupSpec => []NamedFunctionsLive
<1>1. CleanupInv => NamedFunctionsLive
  <2> SUFFICES ASSUME CleanupInv, NEW m \in Names
               PROVE  /\ functionNameMap[m] \notin freed
                      /\ findBaseTypeByName(m, "Function") \notin freed
    BY DEF NamedFunctionsLive
  <2>0. NamesInv /\ FreedNameless
    BY DEF CleanupInv
  <2>1. Null \notin Symbols /\ m # NoName /\ m \in AllNames
    BY <2>0, ConstantsAssumption DEF NamesInv, ShapesOK, AllNames
  <2>2. functionNameMap[m] \notin freed
    BY <2>0, <2>1 DEF NamesInv, IndexesSound, FreedNameless
  <2>3. findBaseTypeByName(m, "Function") \notin freed
    <3> DEFINE b == findBaseTypeByName(m, "Function")
    <3>1. CASE b = Null
      BY <2>0, <2>1, <3>1 DEF FreedNameless
    <3>2. CASE b # Null
      <4>1. LookupInv
        BY <2>0 DEF LookupInv, NamesInv
      <4>2. b \in Symbols /\ sym[b].name = m /\ IsA(sym[b].kind, "Function")
        BY <2>1, <3>2, <4>1, FoundNamed
      <4>3. sym[b].kind = "Function"
        BY <4>2 DEF IsA
      <4> QED
        BY <2>0, <2>1, <4>2, <4>3 DEF FreedNameless
    <3> QED
      BY <3>1, <3>2
  <2> QED
    BY <2>2, <2>3
<1> QED
  BY <1>1, CleanupInvariant, PTL

-----------------------------------------------------------------------------
(* Where the ids of merged DIEs lead. *)

\* A DIE that was read stays read.
LEMMA VisitedStay ==
    ASSUME CleanupInv, CleanupStep
    PROVE  Visited \subseteq Visited'
<1>1. CASE Parse
  <2>1. NamesInv
    BY DEF CleanupInv
  <2>2. PICK d \in Dies : Effect(d)
    BY <1>1, <2>1, ParseParts
  <2> QED
    BY <2>2 DEF Effect, ParseEffect, VisitEffect
<1>2. CASE ~Parse
  BY <1>2 DEF CleanupStep, FunctionsCleaned, ArraysCleaned, SymbolRemoved, NothingCleaned, Call,
              vars, Visited
<1> QED
  BY <1>1, <1>2

\* A symbol is registered under its id or not at all, and every alias is in
\* the reverse list of the id it leads to.
AliasInv ==
    /\ \A k \in DOMAIN symbolIDMap : k = ids.idMap[symbolIDMap[k]]
    /\ \A a \in DOMAIN symbolIDAliasMap : a # 0 /\ a \in getAliases(symbolIDAliasMap[a])
    /\ \A s \in Symbols : die[s].sym = s

\* Reading a DIE keeps it.
LEMMA ParseKeepsAliases ==
    ASSUME CleanupInv, AliasInv, Parse
    PROVE  AliasInv'
<1>0. NamesInv /\ OwnIDs
  BY DEF CleanupInv
<1>1. /\ \A k \in DOMAIN symbolIDMap : k = ids.idMap[symbolIDMap[k]]
      /\ \A a \in DOMAIN symbolIDAliasMap : a # 0 /\ a \in getAliases(symbolIDAliasMap[a])
      /\ \A s \in Symbols : die[s].sym = s
  BY DEF AliasInv
<1>2. /\ Symbols \subseteq Visited /\ Visited \subseteq Dies
      /\ \A k \in DOMAIN symbolIDMap : symbolIDMap[k] \in Symbols
  BY <1>0 DEF NamesInv, ShapesOK
<1>3. Step /\ \A e \in Dies : ids.idMap[e] # 0 => ids'.idMap[e] = ids.idMap[e]
  BY <1>0, ParseParts, IssuedStay DEF NamesInv
<1>4. \A k \in DOMAIN symbolIDMap : k = ids'.idMap[symbolIDMap[k]]
  BY <1>0, <1>1, <1>2, <1>3 DEF OwnIDs
<1>5. ASSUME NEW d \in Dies, NEW t \in Dies \cup {Null}, NewStep(d, t)
      PROVE  AliasInv'
  <2>1. /\ d \notin Visited /\ Symbols' = Symbols \cup {d} /\ die'[d].sym = d
        /\ \A e \in Visited : die'[e] = die[e]
        /\ symbolIDMap' = Put(symbolIDMap, ids'.idMap[d], d)
        /\ UNCHANGED <<symbolIDAliasMap, symbolIDAliasReverseList>>
    BY <1>5 DEF NewStep, VisitStep
  <2>2. \A k \in DOMAIN symbolIDMap' : k = ids'.idMap[symbolIDMap'[k]]
    BY <1>4, <2>1 DEF Put
  <2>3. \A s \in Symbols' : die'[s].sym = s
    BY <1>1, <1>2, <2>1
  <2> QED
    BY <1>1, <2>1, <2>2, <2>3 DEF AliasInv, getAliases
<1>6. ASSUME NEW d \in Dies, NEW t \in Dies \cup {Null}, NEW s \in Dies, MergeStep(d, t, s)
      PROVE  AliasInv'
  <2>1. /\ d \notin Visited /\ Symbols' = Symbols
        /\ \A e \in Visited : die'[e] = die[e]
        /\ ids' = getID(getTypeID(ids, t), d)
        /\ addAlternativeID(sym[s].id, ids'.idMap[d])
        /\ UNCHANGED symbolIDMap
    BY <1>6 DEF MergeStep, VisitStep
  <2> DEFINE new == ids'.idMap[d]
             id == sym[s].id
  <2>2. new # 0
    BY <1>0, <2>1, GetTypeIDOK, GetIDOK DEF NamesInv
  <2>3. /\ symbolIDAliasMap' = Put(symbolIDAliasMap, new, id)
        /\ symbolIDAliasReverseList' = Put(symbolIDAliasReverseList, id, getAliases(id) \cup {new})
    BY <2>1 DEF addAlternativeID
  <2> HIDE DEF new, id
  <2>4. \A k : AliasesAfter(k) = IF k = id THEN getAliases(id) \cup {new} ELSE getAliases(k)
    BY <2>3 DEF AliasesAfter, getAliases, Put
  <2>5. \A a \in DOMAIN symbolIDAliasMap' :
           /\ a \in DOMAIN symbolIDAliasMap \cup {new}
           /\ symbolIDAliasMap'[a] = IF a = new THEN id ELSE symbolIDAliasMap[a]
    BY <2>3 DEF Put
  <2>6. \A a \in DOMAIN symbolIDAliasMap' : a # 0 /\ a \in AliasesAfter(symbolIDAliasMap'[a])
    BY <1>1, <2>2, <2>4, <2>5
  <2>7. \A s2 \in Symbols' : die'[s2].sym = s2
    BY <1>1, <1>2, <2>1
  <2> QED
    BY <1>4, <2>1, <2>6, <2>7 DEF AliasInv, getAliases, AliasesAfter
<1>7. ASSUME NEW d \in Dies, NEW t \in Dies \cup {Null}, QuietStep(d, t)
      PROVE  AliasInv'
  <2>1. /\ Symbols' = Symbols /\ \A e \in Visited : die'[e] = die[e]
        /\ UNCHANGED <<symbolIDMap, symbolIDAliasMap, symbolIDAliasReverseList>>
    BY <1>7 DEF QuietStep, VisitStep, idVars
  <2>2. \A s \in Symbols' : die'[s].sym = s
    BY <1>1, <1>2, <2>1
  <2> QED
    BY <1>1, <1>4, <2>1, <2>2 DEF AliasInv, getAliases
<1>8. CASE UserStep
  BY <1>1, <1>8 DEF UserStep, AliasInv, idVars, getAliases
<1> QED
  BY <1>3, <1>5, <1>6, <1>7, <1>8 DEF Step

\* So do cleanFunctions and cleanArrays.
LEMMA CleanedKeepsAliases ==
    ASSUME CleanupInv, AliasInv, NEW S, S \subseteq Symbols, NEW lt, NEW eq, NEW list,
           CleanedSome(S, lt, eq, list)
    PROVE  AliasInv'
<1>1. PICK D, first : Cleaned(S, lt, eq, D, first, list)
  BY DEF CleanedSome
<1>2. D \subseteq S /\ Aliased(S, sym', eq, D) /\ Retyped(sym', S)
      /\ UNCHANGED <<ids, symbolIDMap, die>>
  BY <1>1 DEF Cleaned, Merges
<1>3. \A x \in D : sym'[x].id # 0
  BY <1>2 DEF Retyped, CleanupInv, OwnIDs
<1>4. \A a \in DOMAIN symbolIDAliasMap' :
         \/ \E x \in D : a = sym'[x].id
         \/ a \in DOMAIN symbolIDAliasMap /\ symbolIDAliasMap'[a] = symbolIDAliasMap[a]
  BY <1>2 DEF Aliased
<1>5. \A x \in D : sym'[x].id \in AliasesAfter(symbolIDAliasMap'[sym'[x].id])
  BY <1>2 DEF Aliased
<1>6. \A id : getAliases(id) \subseteq AliasesAfter(id)
  BY <1>2 DEF Aliased
<1>7. \A a \in DOMAIN symbolIDAliasMap' : a # 0 /\ a \in AliasesAfter(symbolIDAliasMap'[a])
  BY <1>3, <1>4, <1>5, <1>6 DEF AliasInv
<1>8. Symbols' = Symbols
  BY <1>2 DEF Retyped, Symbols
<1> QED
  BY <1>2, <1>7, <1>8 DEF AliasInv, AliasesAfter, getAliases

\* Every step keeps it.
LEMMA StepKeepsAliases ==
    ASSUME CleanupInv, AliasInv, CleanupStep
    PROVE  AliasInv'
<1>1. Elements(funcList) \subseteq Symbols /\ Elements(arrayVector) \subseteq Symbols
  BY DEF CleanupInv, ListsLive
<1>2. CASE FunctionsCleaned
  BY <1>1, <1>2, CleanedKeepsAliases DEF FunctionsCleaned
<1>3. CASE ArraysCleaned
  BY <1>1, <1>3, CleanedKeepsAliases DEF ArraysCleaned
<1>4. CASE SymbolRemoved
  <2>1. Symbols' = Symbols /\ UNCHANGED <<ids, die, symbolIDAliasMap, symbolIDAliasReverseList>>
    BY <1>4 DEF SymbolRemoved, Call, Symbols
  <2>2. \A k \in DOMAIN symbolIDMap' : k \in DOMAIN symbolIDMap /\ symbolIDMap'[k] = symbolIDMap[k]
    BY <1>4 DEF SymbolRemoved
  <2> QED
    BY <2>1, <2>2 DEF AliasInv, getAliases
<1>5. CASE NothingCleaned
  BY <1>5 DEF NothingCleaned, vars, idVars, AliasInv, getAliases, Symbols
<1> QED
  BY <1>2, <1>3, <1>4, <1>5, ParseKeepsAliases DEF CleanupStep

\* The id of DIE d leads through the alias map to its symbol.
Through(d) ==
    LET id == ids.idMap[d]
    IN  /\ id # 0 /\ d \notin Symbols /\ die[d].sym \in Symbols
        /\ id \in DOMAIN symbolIDAliasMap /\ id \notin DOMAIN symbolIDMap
        /\ symbolIDAliasMap[id] \in DOMAIN symbolIDMap
        /\ symbolIDMap[symbolIDAliasMap[id]] = die[d].sym

\* The id of a merged DIE leads to its symbol in no other way.
LEMMA FoundThrough ==
    ASSUME CleanupInv, AliasInv, NEW d \in Visited, die[d].sym \notin {d, Null},
           findSymbolByID(ids.idMap[d]) = die[d].sym
    PROVE  Through(d)
<1> DEFINE id == ids.idMap[d]
           alias == IF id \in DOMAIN symbolIDAliasMap THEN symbolIDAliasMap[id] ELSE 0
           rev == {i \in getAliases(id) : i \in DOMAIN symbolIDMap}
           first == CHOOSE k \in rev : \A j \in rev : k <= j
<1>0. NamesInv /\ OwnIDs /\ ShapesOK /\ IdsOK(ids)
  BY DEF CleanupInv, NamesInv
<1>1. /\ Symbols \subseteq Dies /\ d \in Dies /\ die[d].sym \in Symbols
      /\ \A k \in DOMAIN symbolIDMap : symbolIDMap[k] \in Symbols
  BY <1>0 DEF ShapesOK, DieType
<1>2. d \notin Symbols
  BY DEF AliasInv
<1>3. \A s \in Symbols : sym[s].id # 0 /\ sym[s].id # id
  BY <1>0, <1>1, <1>2, IdsInjective DEF OwnIDs
<1>4. \A k \in DOMAIN symbolIDMap : k = sym[symbolIDMap[k]].id
  BY <1>0, <1>1 DEF AliasInv, OwnIDs
<1>5. id \notin DOMAIN symbolIDMap /\ 0 \notin DOMAIN symbolIDMap
  BY <1>1, <1>3, <1>4
<1>6. ~ (\E i \in rev : sym[symbolIDMap[i]].id = id)
  BY <1>1, <1>3
<1>7. die[d].sym # Null
  OBVIOUS
<1>8. alias \in DOMAIN symbolIDMap /\ die[d].sym = symbolIDMap[alias]
  <2>1. findSymbolByID(id) = IF alias \in DOMAIN symbolIDMap
                             THEN IF sym[symbolIDMap[alias]].id = alias
                                  THEN symbolIDMap[alias] ELSE Null
                             ELSE Null
    BY <1>5, <1>6 DEF findSymbolByID
  <2> HIDE DEF alias
  <2> QED
    BY <1>7, <2>1
<1>9. id \in DOMAIN symbolIDAliasMap
  BY <1>5, <1>8
<1>10. id # 0
  BY <1>9 DEF AliasInv
<1> QED
  BY <1>1, <1>2, <1>5, <1>8, <1>9, <1>10 DEF Through

\* ... and that way stays open.
LEMMA ThroughStays ==
    ASSUME CleanupInv, AliasInv, CleanupInv', CleanupStep, NEW d \in Visited, Through(d)
    PROVE  Through(d)' /\ ids'.idMap[d] = ids.idMap[d] /\ die'[d] = die[d]
<1> DEFINE id == ids.idMap[d]
           a == symbolIDAliasMap[id]
<1>0. NamesInv /\ OwnIDs /\ ShapesOK /\ IdsOK(ids) /\ IdsOK(ids)' /\ OwnIDs'
  BY DEF CleanupInv, NamesInv
<1>1. /\ Symbols \subseteq Visited /\ Visited \subseteq Dies /\ d \in Dies
      /\ \A k \in DOMAIN symbolIDMap : symbolIDMap[k] \in Symbols
  BY <1>0 DEF ShapesOK
<1>2. /\ id # 0 /\ d \notin Symbols /\ die[d].sym \in Symbols
      /\ id \in DOMAIN symbolIDAliasMap /\ id \notin DOMAIN symbolIDMap
      /\ a \in DOMAIN symbolIDMap /\ symbolIDMap[a] = die[d].sym
      /\ a = ids.idMap[die[d].sym]
  BY DEF Through, AliasInv
<1>3. ASSUME NEW S, S \subseteq Symbols, NEW lt, NEW eq, NEW list, CleanedSome(S, lt, eq, list)
      PROVE  Through(d)' /\ ids'.idMap[d] = id /\ die'[d] = die[d]
  <2>1. PICK D, first : Cleaned(S, lt, eq, D, first, list)
    BY <1>3 DEF CleanedSome
  <2>2. D \subseteq S /\ Aliased(S, sym', eq, D) /\ Retyped(sym', S)
        /\ UNCHANGED <<ids, symbolIDMap, die>>
    BY <2>1 DEF Cleaned, Merges
  <2>3. Symbols' = Symbols
    BY <2>2 DEF Retyped, Symbols
  <2>4. \A x \in D : sym'[x].id # id
    BY <1>0, <1>1, <1>2, <1>3, <2>2, IdsInjective DEF Retyped, OwnIDs
  <2>5. id \in DOMAIN symbolIDAliasMap' /\ symbolIDAliasMap'[id] = a
    BY <1>2, <2>2, <2>4 DEF Aliased
  <2> QED
    BY <1>2, <2>2, <2>3, <2>5 DEF Through
<1>4. CASE FunctionsCleaned
  BY <1>3, <1>4 DEF FunctionsCleaned, CleanupInv, ListsLive
<1>5. CASE ArraysCleaned
  BY <1>3, <1>5 DEF ArraysCleaned, CleanupInv, ListsLive
<1>6. CASE SymbolRemoved
  <2>1. Symbols' = Symbols /\ UNCHANGED <<ids, die, symbolIDAliasMap>>
    BY <1>6 DEF SymbolRemoved, Call, Symbols
  <2>2. getAliases(a) # {}
    BY <1>2 DEF AliasInv
  <2>3. \/ symbolIDMap' = symbolIDMap
        \/ \E s \in Symbols : /\ sym[s].id # a
                              /\ symbolIDMap' = [i \in DOMAIN symbolIDMap \ {sym[s].id} |->
                                                    symbolIDMap[i]]
    BY <1>6, <2>2 DEF SymbolRemoved
  <2>4. /\ DOMAIN symbolIDMap' \subseteq DOMAIN symbolIDMap
        /\ a \in DOMAIN symbolIDMap' /\ symbolIDMap'[a] = symbolIDMap[a]
    BY <1>2, <2>3
  <2> QED
    BY <1>2, <2>1, <2>4 DEF Through
<1>7. CASE NothingCleaned
  BY <1>7 DEF NothingCleaned, vars, idVars, Through, Symbols
<1>8. CASE Parse
  <2>1. Step /\ \A e \in Dies : ids.idMap[e] # 0 => ids'.idMap[e] = ids.idMap[e]
    BY <1>0, <1>8, ParseParts, IssuedStay
  <2>2. ids'.idMap[d] = id /\ ids'.idMap[die[d].sym] = a
    BY <1>0, <1>1, <1>2, <2>1 DEF OwnIDs
  <2>3. \A e \in Dies : e \notin Visited => ids'.idMap[e] # id /\ ids'.idMap[e] # a
    <3>1. a # 0
      BY <1>0, <1>2 DEF OwnIDs
    <3> QED
      BY <1>0, <1>1, <1>2, <2>2, <3>1, IdsInjective
  <2>4. ASSUME NEW e \in Dies, NEW t \in Dies \cup {Null}, NewStep(e, t)
        PROVE  Through(d)' /\ die'[d] = die[d]
    <3>1. /\ e \notin Visited /\ Symbols' = Symbols \cup {e} /\ die'[d] = die[d]
          /\ symbolIDMap' = Put(symbolIDMap, ids'.idMap[e], e)
          /\ UNCHANGED symbolIDAliasMap
      BY <2>4 DEF NewStep, VisitStep
    <3>2. /\ id \notin DOMAIN symbolIDMap' /\ a \in DOMAIN symbolIDMap'
          /\ symbolIDMap'[a] = die[d].sym
      BY <1>2, <2>3, <3>1 DEF Put
    <3> QED
      BY <1>2, <2>2, <3>1, <3>2 DEF Through
  <2>5. ASSUME NEW e \in Dies, NEW t \in Dies \cup {Null}, NEW s \in Dies, MergeStep(e, t, s)
        PROVE  Through(d)' /\ die'[d] = die[d]
    <3>1. /\ e \notin Visited /\ Symbols' = Symbols /\ die'[d] = die[d]
          /\ symbolIDAliasMap' = Put(symbolIDAliasMap, ids'.idMap[e], sym[s].id)
          /\ UNCHANGED symbolIDMap
      BY <2>5 DEF MergeStep, VisitStep, addAlternativeID
    <3>2. id \in DOMAIN symbolIDAliasMap' /\ symbolIDAliasMap'[id] = a
      BY <1>2, <2>3, <3>1 DEF Put
    <3> QED
      BY <1>2, <2>2, <3>1, <3>2 DEF Through
  <2>6. ASSUME NEW e \in Dies, NEW t \in Dies \cup {Null}, QuietStep(e, t)
        PROVE  Through(d)' /\ die'[d] = die[d]
    BY <1>2, <2>2, <2>6 DEF QuietStep, VisitStep, idVars, Through
  <2>7. CASE UserStep
    BY <1>2, <2>2, <2>7 DEF UserStep, idVars, Through
  <2> QED
    BY <2>1, <2>2, <2>4, <2>5, <2>6, <2>7 DEF Step
<1> QED
  BY <1>4, <1>5, <1>6, <1>7, <1>8 DEF CleanupStep

\* The symbol that the id of a merged DIE resolves to never changes.
MergedKeepsSymbol ==
    [][\A d \in Visited :
          /\ die[d].sym \notin {d, Null}
          /\ findSymbolByID(ids.idMap[d]) = die[d].sym
          => findSymbolByID(ids.idMap[d])' = die[d].sym]_allVars

\* No array has a name, as the arrays of C.
ArraysUnnamed == \A s \in Symbols : sym[s].kind = "Array" => sym[s].name = NoName

\* The inductive invariant of the theorems on merged ids.
LEMMA AliasInvariant == CleanupSpec => []AliasInv
<1>1. CleanupInit => AliasInv
  BY DEF CleanupInit, Init, AliasInv, EmptyMap, Symbols
<1>2. CleanupInv /\ AliasInv /\ [CleanupNext]_allVars => AliasInv'
  BY CleanupSteps, StepKeepsAliases
<1> QED
  BY <1>1, <1>2, CleanupInvariant, PTL DEF CleanupSpec

\* A step keeps the symbol of a merged id, and does not delete it if it is no
\* array.
LEMMA MergedStep ==
    ASSUME CleanupInv, AliasInv, CleanupInv', CleanupStep, NEW d \in Visited,
           die[d].sym \notin {d, Null}, findSymbolByID(ids.idMap[d]) = die[d].sym
    PROVE  /\ findSymbolByID(ids.idMap[d])' = die[d].sym
           /\ ArraysUnnamed' => die[d].sym \notin freed'
<1>1. Through(d)' /\ ids'.idMap[d] = ids.idMap[d] /\ die'[d] = die[d]
  BY FoundThrough, ThroughStays
<1>2. NamesInv' /\ OwnIDs' /\ FreedNameless'
  BY DEF CleanupInv
<1>3. AliasInv'
  BY StepKeepsAliases
<1> DEFINE id == ids'.idMap[d]
           a == symbolIDAliasMap'[id]
           s == die[d].sym
<1>4. /\ id \in DOMAIN symbolIDAliasMap' /\ id \notin DOMAIN symbolIDMap'
      /\ a \in DOMAIN symbolIDMap' /\ symbolIDMap'[a] = s /\ s \in Symbols'
      /\ a = ids'.idMap[symbolIDMap'[a]]
  BY <1>1, <1>3 DEF Through, AliasInv
<1>5. sym'[s].id = a
  BY <1>2, <1>4 DEF OwnIDs
<1>6. findSymbolByID(ids.idMap[d])' = s
  <2>1. findSymbolByID(ids.idMap[d])' =
           IF id \in DOMAIN symbolIDMap' THEN symbolIDMap'[id]
           ELSE IF a \in DOMAIN symbolIDMap'
                THEN IF sym'[symbolIDMap'[a]].id = a THEN symbolIDMap'[a] ELSE Null
                ELSE findSymbolByID(ids.idMap[d])'
    BY <1>4 DEF findSymbolByID
  <2> QED
    BY <1>4, <1>5, <2>1
<1>7. ASSUME ArraysUnnamed', s \in freed' PROVE FALSE
  <2>1. d \in Visited' /\ die'[d].sym = s /\ s # Null /\ s # d
    BY <1>1, VisitedStay
  <2>2. sym'[s].name = NoName /\ sym'[s].kind \in {"Array", "Function"}
    BY <1>2, <1>4, <1>7 DEF FreedNameless, ArraysUnnamed
  <2>3. sym'[s].kind = "StructuredMember"
    BY <1>2, <2>1, <2>2 DEF NamesInv, MergeCompatible
  <2> QED
    BY <2>2, <2>3
<1> QED
  BY <1>6, <1>7

\* Whatever is removed or deleted, the id of a merged DIE leads to the same
\* symbol.
THEOREM MergedIdsKeepSymbol == CleanupSpec => MergedKeepsSymbol
<1>1. /\ CleanupInv /\ AliasInv /\ CleanupInv' /\ [CleanupNext]_allVars
      => [\A d \in Visited :
             /\ die[d].sym \notin {d, Null}
             /\ findSymbolByID(ids.idMap[d]) = die[d].sym
             => findSymbolByID(ids.idMap[d])' = die[d].sym]_allVars
  BY CleanupSteps, MergedStep
<1> QED
  BY <1>1, CleanupInvariant, AliasInvariant, PTL DEF CleanupSpec, MergedKeepsSymbol

\* If no array has a name, that symbol is not deleted either: only an object
\* that no DIE was merged into is.
THEOREM MergedIdsStayResolved == CleanupSpec /\ []ArraysUnnamed => MergedStaysResolved
<1>1. /\ CleanupInv /\ AliasInv /\ CleanupInv' /\ ArraysUnnamed' /\ [CleanupNext]_allVars
      => [\A d \in Visited :
             /\ die[d].sym \notin {d, Null}
             /\ findSymbolByID(ids.idMap[d]) = die[d].sym
             => /\ findSymbolByID(ids.idMap[d])' = die[d].sym
                /\ die[d].sym \notin freed']_allVars
  BY CleanupSteps, MergedStep
<1> QED
  BY <1>1, CleanupInvariant, AliasInvariant, PTL DEF CleanupSpec, MergedStaysResolved

-----------------------------------------------------------------------------
(* Where the ids of deleted objects lead. *)

\* An alias is the id of a DIE that is no live symbol's.
AliasesDead ==
    \A a \in DOMAIN symbolIDAliasMap :
        \E e \in Visited : a = ids.idMap[e] /\ e \notin Symbols \ freed

LeadInv == AliasesDead /\ DeletedLeadToLive

\* No alias replaces the id of a live symbol.
LEMMA LiveHaveNoAlias ==
    ASSUME CleanupInv, AliasInv, AliasesDead, NEW x \in Symbols \ freed
    PROVE  sym[x].id \notin DOMAIN symbolIDAliasMap
<1> SUFFICES ASSUME sym[x].id \in DOMAIN symbolIDAliasMap PROVE FALSE
  OBVIOUS
<1>1. NamesInv /\ OwnIDs /\ IdsOK(ids) /\ Visited \subseteq Dies /\ Symbols \subseteq Dies
  BY DEF CleanupInv, NamesInv, ShapesOK
<1>2. sym[x].id = ids.idMap[x] /\ ids.idMap[x] # 0
  BY <1>1 DEF OwnIDs
<1>3. PICK e \in Visited : sym[x].id = ids.idMap[e] /\ e \notin Symbols \ freed
  BY DEF AliasesDead
<1>4. e = x
  BY <1>1, <1>2, <1>3, IdsInjective
<1> QED
  BY <1>3, <1>4

\* The symbols, their ids and classes stay, and so do the aliases of their ids.
EdgesStay ==
    \A u \in Symbols :
        /\ u \in Symbols' /\ sym'[u].id = sym[u].id /\ sym'[u].kind = sym[u].kind
        /\ sym[u].id \in DOMAIN symbolIDAliasMap =>
              /\ sym[u].id \in DOMAIN symbolIDAliasMap'
              /\ symbolIDAliasMap'[sym[u].id] = symbolIDAliasMap[sym[u].id]

\* Then what a set leads to in the new state has what it led to before.
LEMMA LedBefore ==
    ASSUME EdgesStay, DeletedLeadToLive, NEW x \in freed, x \in Symbols,
           NEW T \in SUBSET Symbols', x \in T,
           \A u \in T, v \in Symbols' :
               sym'[u].id \in DOMAIN symbolIDAliasMap'
                   /\ symbolIDAliasMap'[sym'[u].id] = sym'[v].id => v \in T
    PROVE  \E y \in (T \cap Symbols) \ freed : sym'[y].kind = sym'[x].kind
<1> DEFINE U == T \cap Symbols
<1>1. U \in SUBSET Symbols /\ x \in U
  OBVIOUS
<1>2. ASSUME NEW u \in U, NEW v \in Symbols, sym[u].id \in DOMAIN symbolIDAliasMap,
             symbolIDAliasMap[sym[u].id] = sym[v].id
      PROVE  v \in U
  BY <1>2 DEF EdgesStay
<1> HIDE DEF U
<1>3. PICK y \in U \ freed : sym[y].kind = sym[x].kind
  BY <1>1, <1>2 DEF DeletedLeadToLive
<1> QED
  BY <1>1, <1>3 DEF EdgesStay, U

\* A step that deletes nothing keeps where the deleted objects lead.
LEMMA LeadStays ==
    ASSUME EdgesStay, DeletedLeadToLive, freed' = freed, freed \subseteq Symbols
    PROVE  DeletedLeadToLive'
<1> SUFFICES ASSUME NEW x \in freed, NEW T \in SUBSET Symbols', x \in T,
                    \A u \in T, v \in Symbols' :
                        sym'[u].id \in DOMAIN symbolIDAliasMap'
                            /\ symbolIDAliasMap'[sym'[u].id] = sym'[v].id => v \in T
             PROVE  \E y \in T \ freed : sym'[y].kind = sym'[x].kind
  BY DEF DeletedLeadToLive
<1>1. \E y \in (T \cap Symbols) \ freed : sym'[y].kind = sym'[x].kind
  BY LedBefore
<1> QED
  BY <1>1

\* cleanFunctions and cleanArrays keep it: an object that others lead to and
\* that is deleted now leads on to a live one.
LEMMA CleanedLead ==
    ASSUME CleanupInv, AliasInv, LeadInv, NEW S, S \subseteq Symbols \ freed, NEW kind,
           \A x \in S : sym[x].kind = kind, NEW lt, NEW eq, NEW list,
           CleanedSome(S, lt, eq, list)
    PROVE  LeadInv' /\ EdgesStay
<1>0. NamesInv /\ OwnIDs /\ FreedNameless /\ AliasesDead /\ DeletedLeadToLive
  BY DEF CleanupInv, LeadInv
<1>1. PICK D, first : Cleaned(S, lt, eq, D, first, list)
  BY DEF CleanedSome
<1>2. /\ D \subseteq S /\ Aliased(S, sym', eq, D) /\ Retyped(sym', S) /\ freed' = freed \cup D
      /\ UNCHANGED <<ids, die>>
  BY <1>1 DEF Cleaned, Merges, Aliased
<1>3. /\ Symbols' = Symbols /\ Visited' = Visited /\ Symbols \subseteq Visited
      /\ Symbols \subseteq Dies /\ freed \subseteq Symbols
      /\ \A u \in Symbols : sym'[u].id = sym[u].id /\ sym'[u].kind = sym[u].kind
  BY <1>0, <1>2 DEF Retyped, Symbols, Visited, NamesInv, ShapesOK, FreedNameless
<1>4. \A x \in D : sym[x].id \notin DOMAIN symbolIDAliasMap
  BY <1>0, <1>2, LiveHaveNoAlias
<1>5. EdgesStay
  <2> SUFFICES ASSUME NEW u \in Symbols, sym[u].id \in DOMAIN symbolIDAliasMap
               PROVE  /\ sym[u].id \in DOMAIN symbolIDAliasMap'
                      /\ symbolIDAliasMap'[sym[u].id] = symbolIDAliasMap[sym[u].id]
    BY <1>3 DEF EdgesStay
  <2>1. \A x \in D : sym'[x].id # sym[u].id
    BY <1>2, <1>3, <1>4
  <2> QED
    BY <1>2, <2>1 DEF Aliased
<1>6. AliasesDead'
  <2> SUFFICES ASSUME NEW a \in DOMAIN symbolIDAliasMap'
               PROVE  \E e \in Visited : a = ids.idMap[e] /\ e \notin Symbols \ freed'
    BY <1>2, <1>3 DEF AliasesDead
  <2>1. CASE a \in DOMAIN symbolIDAliasMap
    BY <1>0, <1>2, <2>1 DEF AliasesDead
  <2>2. CASE a \notin DOMAIN symbolIDAliasMap
    <3>1. PICK x \in D : a = sym'[x].id
      BY <1>2, <2>2 DEF Aliased
    <3> QED
      BY <1>0, <1>2, <1>3, <3>1 DEF OwnIDs
  <2> QED
    BY <2>1, <2>2
<1>7. DeletedLeadToLive'
  <2> SUFFICES ASSUME NEW x \in freed', NEW T \in SUBSET Symbols', x \in T,
                      \A u \in T, v \in Symbols' :
                          sym'[u].id \in DOMAIN symbolIDAliasMap'
                              /\ symbolIDAliasMap'[sym'[u].id] = sym'[v].id => v \in T
               PROVE  \E y \in T \ freed' : sym'[y].kind = sym'[x].kind
    BY DEF DeletedLeadToLive
  <2>1. ASSUME NEW w \in D, w \in T PROVE \E y \in T \ freed' : sym'[y].kind = sym'[w].kind
    <3>1. PICK y \in S \ D : symbolIDAliasMap'[sym'[w].id] = sym'[y].id
      BY <1>2 DEF Aliased
    <3>2. sym'[w].id \in DOMAIN symbolIDAliasMap'
      BY <1>2 DEF Aliased
    <3>3. y \in T
      BY <1>3, <2>1, <3>1, <3>2
    <3> QED
      BY <1>2, <1>3, <3>1, <3>3
  <2>2. CASE x \in freed
    <3>1. PICK w \in (T \cap Symbols) \ freed : sym'[w].kind = sym'[x].kind
      BY <1>0, <1>3, <1>5, <2>2, LedBefore
    <3> QED
      BY <1>2, <2>1, <3>1
  <2>3. CASE x \in D
    BY <2>1, <2>3
  <2> QED
    BY <1>2, <2>2, <2>3
<1> QED
  BY <1>5, <1>6, <1>7 DEF LeadInv

\* Reading a DIE keeps it, too: the id of a merged DIE is no symbol's.
LEMMA ParseLead ==
    ASSUME CleanupInv, AliasInv, LeadInv, Parse
    PROVE  LeadInv' /\ EdgesStay
<1>0. /\ NamesInv /\ OwnIDs /\ FreedNameless /\ AliasesDead /\ DeletedLeadToLive
      /\ CleanupInv' /\ OwnIDs' /\ NamesInv' /\ IdsOK(ids)' /\ IdsOK(ids)
  BY ParseKeeps DEF CleanupInv, LeadInv, NamesInv
<1>1. Step /\ freed' = freed /\ \A e \in Dies : ids.idMap[e] # 0 => ids'.idMap[e] = ids.idMap[e]
  BY <1>0, ParseParts, IssuedStay
<1>2. /\ Symbols \subseteq Visited /\ Visited \subseteq Dies /\ freed \subseteq Symbols
      /\ Visited \subseteq Visited'
  BY <1>0, VisitedStay DEF NamesInv, ShapesOK, FreedNameless, CleanupStep
<1>3. \A u \in Symbols : u \in Symbols' /\ sym'[u].id = sym[u].id /\ sym'[u].kind = sym[u].kind
  <2>1. PICK d \in Dies : Effect(d)
    BY <1>0, ParseParts
  <2>2. \A u \in Symbols : u \in Symbols' /\ sym'[u].kind = sym[u].kind
    BY <2>1 DEF Effect, ParseEffect, NameEffect
  <2>3. SymbolIDsKept
    BY <1>1 DEF Step, NewStep, MergeStep, QuietStep, UserStep
  <2> QED
    BY <2>2, <2>3 DEF SymbolIDsKept
<1>4. \A a \in DOMAIN symbolIDAliasMap :
         \E e \in Visited : a = ids'.idMap[e] /\ e \notin Symbols \ freed
  BY <1>0, <1>1, <1>2 DEF AliasesDead, AliasInv
<1>5. ASSUME NEW d \in Dies, NEW t \in Dies \cup {Null}, NewStep(d, t)
      PROVE  AliasesDead' /\ EdgesStay
  <2>1. /\ d \notin Visited /\ Symbols' = Symbols \cup {d} /\ UNCHANGED symbolIDAliasMap
    BY <1>5 DEF NewStep, VisitStep
  <2> QED
    BY <1>1, <1>2, <1>3, <1>4, <2>1 DEF AliasesDead, EdgesStay
<1>6. ASSUME NEW d \in Dies, NEW t \in Dies \cup {Null}, NEW s \in Dies, MergeStep(d, t, s)
      PROVE  AliasesDead' /\ EdgesStay
  <2>1. /\ d \notin Visited /\ d \in Visited' /\ Symbols' = Symbols
        /\ symbolIDAliasMap' = Put(symbolIDAliasMap, ids'.idMap[d], sym[s].id)
    BY <1>6 DEF MergeStep, VisitStep, addAlternativeID
  <2>2. \A u \in Symbols : sym[u].id # ids'.idMap[d]
    BY <1>0, <1>2, <1>3, <2>1, IdsInjective DEF OwnIDs
  <2>3. EdgesStay
    BY <1>3, <2>1, <2>2 DEF EdgesStay, Put
  <2>4. AliasesDead'
    BY <1>1, <1>2, <1>4, <2>1 DEF AliasesDead, Put
  <2> QED
    BY <2>3, <2>4
<1>7. ASSUME NEW d \in Dies, NEW t \in Dies \cup {Null}, QuietStep(d, t)
      PROVE  AliasesDead' /\ EdgesStay
  <2>1. Symbols' = Symbols /\ UNCHANGED symbolIDAliasMap
    BY <1>7 DEF QuietStep, VisitStep, idVars
  <2> QED
    BY <1>1, <1>2, <1>3, <1>4, <2>1 DEF AliasesDead, EdgesStay
<1>8. ASSUME UserStep PROVE AliasesDead' /\ EdgesStay
  <2>1. Symbols' = Symbols /\ UNCHANGED symbolIDAliasMap
    BY <1>8 DEF UserStep, idVars
  <2> QED
    BY <1>1, <1>2, <1>3, <1>4, <2>1 DEF AliasesDead, EdgesStay
<1>9. AliasesDead' /\ EdgesStay
  <2>1. Step
    BY <1>1
  <2>2. AliasesDead'
    BY <1>5, <1>6, <1>7, <1>8, <2>1 DEF Step
  <2>3. EdgesStay
    BY <1>5, <1>6, <1>7, <1>8, <2>1 DEF Step
  <2> QED
    BY <2>2, <2>3
<1> QED
  BY <1>0, <1>1, <1>2, <1>9, LeadStays DEF LeadInv

\* Every step keeps it.
LEMMA StepLead ==
    ASSUME CleanupInv, AliasInv, LeadInv, CleanupStep
    PROVE  LeadInv' /\ EdgesStay
<1>1. CASE FunctionsCleaned
  <2>1. \A x \in Elements(funcList) : x \in Symbols \ freed /\ sym[x].kind = "Function"
    BY DEF CleanupInv, ListsLive
  <2> QED
    BY <1>1, <2>1, CleanedLead DEF FunctionsCleaned
<1>2. CASE ArraysCleaned
  <2>1. \A x \in Elements(arrayVector) : x \in Symbols \ freed /\ sym[x].kind = "Array"
    BY DEF CleanupInv, ListsLive
  <2> QED
    BY <1>2, <2>1, CleanedLead DEF ArraysCleaned
<1>3. CASE SymbolRemoved \/ NothingCleaned
  <2>1. UNCHANGED <<ids, sym, symbolIDAliasMap, die, freed>>
    BY <1>3 DEF SymbolRemoved, NothingCleaned, Call, vars, idVars
  <2>2. Symbols' = Symbols /\ Visited' = Visited
    BY <2>1 DEF Symbols, Visited
  <2>3. EdgesStay /\ AliasesDead'
    BY <2>1, <2>2 DEF EdgesStay, LeadInv, AliasesDead
  <2> QED
    BY <2>1, <2>3, LeadStays DEF LeadInv, CleanupInv, FreedNameless
<1> QED
  BY <1>1, <1>2, <1>3, ParseLead DEF CleanupStep

\* The inductive invariant of the next theorem.
LEMMA LeadInvariant == CleanupSpec => []LeadInv
<1>1. CleanupInit => LeadInv
  BY DEF CleanupInit, Init, LeadInv, AliasesDead, DeletedLeadToLive, EmptyMap
<1>2. CleanupInv /\ AliasInv /\ LeadInv /\ [CleanupNext]_allVars => LeadInv'
  BY CleanupSteps, StepLead
<1> QED
  BY <1>1, <1>2, CleanupInvariant, AliasInvariant, PTL DEF CleanupSpec

\* The aliases lead from the id of a deleted object to a live one of its class,
\* however often the lists are cleaned and whatever is read in between.
THEOREM DeletedIdsLeadToLive == CleanupSpec => []DeletedLeadToLive
<1>1. LeadInv => DeletedLeadToLive
  BY DEF LeadInv
<1> QED
  BY <1>1, LeadInvariant, PTL

-----------------------------------------------------------------------------
(* What the first call of an operation merges. *)

\* Only an operation that was called has deleted objects, and until cleanArrays
\* is called every array is in arrayVector.
CallsInv ==
    /\ calls \in [Operations -> Nat]
    /\ \A x \in freed : CleanerOf(x) \in Operations /\ calls[CleanerOf(x)] # 0
    /\ \/ "cleanArrays" \in Operations /\ calls["cleanArrays"] # 0
       \/ /\ tidy = FALSE /\ arrayTypeMap = <<>>
          /\ \A x \in Symbols : sym[x].kind = "Array" => x \in Elements(arrayVector)

\* A call counts once, for its operation.
LEMMA CallCounts ==
    ASSUME calls \in [Operations -> Nat], NEW op, Call(op)
    PROVE  /\ op \in Operations /\ calls' \in [Operations -> Nat] /\ BetweenFiles
           /\ calls'[op] = calls[op] + 1
           /\ \A o \in Operations \ {op} : calls'[o] = calls[o]
BY DEF Call

\* The numbers of calls grow by one at most.
LEMMA CallsGrow ==
    ASSUME CleanupInv, CallsInv, CleanupStep
    PROVE  /\ calls' \in [Operations -> Nat]
           /\ \A op \in Operations : calls'[op] = calls[op] \/ calls'[op] = calls[op] + 1
<1>1. calls \in [Operations -> Nat]
  BY DEF CallsInv
<1>2. ASSUME NEW op, Call(op)
      PROVE  /\ calls' \in [Operations -> Nat]
             /\ \A o \in Operations : calls'[o] = calls[o] \/ calls'[o] = calls[o] + 1
  BY <1>1, <1>2, CallCounts
<1>3. CASE Parse
  BY <1>1, <1>3, ParseParts DEF CleanupInv
<1> QED
  BY <1>1, <1>2, <1>3 DEF CleanupStep, FunctionsCleaned, ArraysCleaned, SymbolRemoved, NothingCleaned

\* What is deleted is deleted by the operation for its class.
LEMMA DeletedBy ==
    ASSUME CleanupInv, CleanupStep, NEW x \in freed' \ freed
    PROVE  \/ FunctionsCleaned /\ x \in Elements(funcList)
           \/ ArraysCleaned /\ x \in Elements(arrayVector)
<1>1. CASE FunctionsCleaned
  <2>1. PICK D, first : Cleaned(Elements(funcList), FunctionLt(Elements(funcList), sym'),
                                FunctionEq(Elements(funcList), sym'), D, first, funcList')
    BY <1>1 DEF FunctionsCleaned, CleanedSome
  <2> QED
    BY <1>1, <2>1 DEF Cleaned, Merges, Aliased
<1>2. CASE ArraysCleaned
  <2>1. PICK D, first : Cleaned(Elements(arrayVector), ArrayLt(Elements(arrayVector), sym'),
                                ArrayEq(Elements(arrayVector), sym'), D, first, arrayVector')
    BY <1>2 DEF ArraysCleaned, CleanedSome
  <2> QED
    BY <1>2, <2>1 DEF Cleaned, Merges, Aliased
<1>3. CASE Parse \/ SymbolRemoved \/ NothingCleaned
  <2>1. freed' = freed
    BY <1>3, ParseParts DEF CleanupInv, SymbolRemoved, NothingCleaned
  <2> QED
    BY <2>1
<1> QED
  BY <1>1, <1>2, <1>3 DEF CleanupStep

\* A new array is appended to arrayVector.
LEMMA NewArrayListed ==
    ASSUME CleanupInv, Parse,
           \A x \in Symbols : sym[x].kind = "Array" => x \in Elements(arrayVector)
    PROVE  \A x \in Symbols' : sym'[x].kind = "Array" => x \in Elements(arrayVector')
<1>1. NamesInv /\ arrayVector \in Seq(Symbols)
  BY DEF CleanupInv, NamesInv, ShapesOK
<1>2. PICK d \in Dies : Effect(d)
  BY <1>1, ParseParts
<1>3. PICK tag \in AllTags, n \in AllNames, t \in Dies \cup {Null}, val \in Nat \cup {Null},
           s \in Dies \cup {Null}, p \in Dies \cup {Null} : ParseEffect(d, tag, n, t, val, s, p)
  BY <1>2 DEF Effect
<1>4. NameEffect(d, tag, n, s) /\ ListEffect(d, tag, s, SymOf(p))
  BY <1>3 DEF ParseEffect
<1>5. /\ Symbols' = IF s = d THEN Symbols \cup {d} ELSE Symbols
      /\ \A x \in Symbols : sym'[x].kind = sym[x].kind
      /\ s = d => sym'[d].kind = ClassOf(tag)
      /\ arrayVector' = IF s = d /\ ClassOf(tag) = "Array" THEN Append(arrayVector, d)
                        ELSE arrayVector
  BY <1>4 DEF NameEffect, ListEffect
<1>6. Elements(arrayVector) \cup {d} \subseteq Elements(Append(arrayVector, d))
  <2>1. \A i \in 1..Len(arrayVector) : /\ i \in DOMAIN Append(arrayVector, d)
                                       /\ Append(arrayVector, d)[i] = arrayVector[i]
    BY <1>1
  <2>2. /\ Len(arrayVector) + 1 \in DOMAIN Append(arrayVector, d)
        /\ Append(arrayVector, d)[Len(arrayVector) + 1] = d
    BY <1>1
  <2>3. DOMAIN arrayVector = 1..Len(arrayVector)
    BY <1>1
  <2> QED
    BY <2>1, <2>2, <2>3 DEF Elements
<1> QED
  BY <1>5, <1>6

\* Every step keeps CallsInv.
LEMMA StepKeepsCalls ==
    ASSUME CleanupInv, AliasInv, LeadInv, CallsInv, CleanupStep
    PROVE  CallsInv'
<1>0. NamesInv /\ FreedNameless /\ ListsLive /\ freed \subseteq Symbols
  BY DEF CleanupInv, FreedNameless
<1>1. calls \in [Operations -> Nat] /\ calls' \in [Operations -> Nat]
  BY CallsGrow DEF CallsInv
<1>2. \A op \in Operations : calls[op] # 0 => calls'[op] # 0
  BY <1>1, CallsGrow
<1>3. \A x \in Symbols : x \in Symbols' /\ sym'[x].kind = sym[x].kind
  BY StepLead DEF EdgesStay
<1>4. ASSUME NEW x \in freed'
      PROVE  CleanerOf(x)' \in Operations /\ calls'[CleanerOf(x)'] # 0
  <2>1. CASE x \in freed
    <3>1. CleanerOf(x)' = CleanerOf(x)
      BY <1>0, <1>3, <2>1 DEF CleanerOf
    <3> QED
      BY <1>2, <2>1, <3>1 DEF CallsInv
  <2>2. CASE FunctionsCleaned /\ x \in Elements(funcList)
    <3>1. CleanerOf(x)' = "cleanFunctions"
      BY <1>0, <1>3, <2>2 DEF CleanerOf, ListsLive
    <3>2. "cleanFunctions" \in Operations /\ calls'["cleanFunctions"] = calls["cleanFunctions"] + 1
      BY <1>1, <2>2, CallCounts DEF FunctionsCleaned
    <3>3. calls["cleanFunctions"] \in Nat
      BY <1>1, <3>2
    <3> QED
      BY <3>1, <3>2, <3>3
  <2>3. CASE ArraysCleaned /\ x \in Elements(arrayVector)
    <3>1. CleanerOf(x)' = "cleanArrays"
      BY <1>0, <1>3, <2>3 DEF CleanerOf, ListsLive
    <3>2. "cleanArrays" \in Operations /\ calls'["cleanArrays"] = calls["cleanArrays"] + 1
      BY <1>1, <2>3, CallCounts DEF ArraysCleaned
    <3>3. calls["cleanArrays"] \in Nat
      BY <1>1, <3>2
    <3> QED
      BY <3>1, <3>2, <3>3
  <2> QED
    BY <2>1, <2>2, <2>3, DeletedBy
<1>5. \/ "cleanArrays" \in Operations /\ calls'["cleanArrays"] # 0
      \/ /\ tidy' = FALSE /\ arrayTypeMap' = <<>>
         /\ \A x \in Symbols' : sym'[x].kind = "Array" => x \in Elements(arrayVector')
  <2>1. CASE "cleanArrays" \in Operations /\ calls["cleanArrays"] # 0
    BY <1>2, <2>1
  <2>2. CASE ArraysCleaned
    <3>1. "cleanArrays" \in Operations /\ calls'["cleanArrays"] = calls["cleanArrays"] + 1
      BY <1>1, <2>2, CallCounts DEF ArraysCleaned
    <3>2. calls["cleanArrays"] \in Nat
      BY <1>1, <3>1
    <3> QED
      BY <3>1, <3>2
  <2>3. ASSUME tidy = FALSE, arrayTypeMap = <<>>, ~ArraysCleaned,
               \A x \in Symbols : sym[x].kind = "Array" => x \in Elements(arrayVector)
        PROVE  /\ tidy' = FALSE /\ arrayTypeMap' = <<>>
               /\ \A x \in Symbols' : sym'[x].kind = "Array" => x \in Elements(arrayVector')
    <3>1. CASE Parse
      BY <1>0, <2>3, <3>1, ParseParts, NewArrayListed
    <3>2. CASE ~Parse
      <4>1. UNCHANGED <<arrayVector, arrayTypeMap, tidy>>
        BY <2>3, <3>2 DEF CleanupStep, FunctionsCleaned, SymbolRemoved, NothingCleaned, vars, nameVars
      <4>2. Symbols' = Symbols
        <5>1. CASE FunctionsCleaned
          BY <5>1 DEF FunctionsCleaned, CleanedSome, Cleaned, Retyped, Symbols
        <5>2. CASE SymbolRemoved \/ NothingCleaned
          BY <5>2 DEF SymbolRemoved, NothingCleaned, vars, Symbols
        <5> QED
          BY <2>3, <3>2, <5>1, <5>2 DEF CleanupStep
      <4> QED
        BY <1>3, <2>3, <4>1, <4>2
    <3> QED
      BY <3>1, <3>2
  <2> QED
    BY <2>1, <2>2, <2>3 DEF CallsInv
<1> QED
  BY <1>1, <1>4, <1>5 DEF CallsInv

\* The file of a symbol was read to its end.
Settled(x) == \A e \in Dies : e[2] = x[2] => e \in Visited

\* x was deleted as a duplicate of y.
MergedInto(x, y) ==
    /\ y \in Symbols \ freed
    /\ sym[y].kind = sym[x].kind
    /\ sym[x].kind = "Array" => Array_eq(sym[x], sym[y])
    /\ sym[x].kind # "Array" => Function_eq(sym[x], sym[y])
    /\ sym[x].id \in DOMAIN symbolIDAliasMap
    /\ symbolIDAliasMap[sym[x].id] = sym[y].id
    /\ Settled(x) /\ Settled(y)

\* An array DIE is never merged, so that the bounds that are read after it are
\* those of its own array.
ArrayDies == \A p \in Visited : die[p].tag = "array_type" => die[p].sym = p

MergedInv ==
    /\ ArrayDies
    /\ \A x \in freed : calls[CleanerOf(x)] = 1 => \E y : MergedInto(x, y)

\* What equality of functions and arrays depends on.
SameKeys(x) ==
    /\ sym'[x].kind = sym[x].kind /\ sym'[x].name = sym[x].name
    /\ sym'[x].type = sym[x].type
    /\ sym[x].kind = "Array" => sym'[x].length = sym[x].length
    /\ sym[x].kind # "Array" => sym'[x].paramList = sym[x].paramList

\* Reading another file changes no array, and no function without a name.
LEMMA SettledStays ==
    ASSUME CleanupInv, ArrayDies, Parse, NEW x \in Symbols, Settled(x),
           \/ sym[x].kind = "Array"
           \/ sym[x].kind = "Function" /\ sym[x].name = NoName
    PROVE  SameKeys(x)
<1>0. NamesInv /\ Symbols \subseteq Dies /\ Visited \subseteq Dies /\ Null \notin Dies
  BY ConstantsAssumption DEF CleanupInv, NamesInv, ShapesOK
<1>1. PICK d \in Dies : Effect(d)
  BY <1>0, ParseParts
<1>2. PICK tag \in AllTags, n \in AllNames, t \in Dies \cup {Null}, val \in Nat \cup {Null},
           s \in Dies \cup {Null}, p \in Dies \cup {Null} : ParseEffect(d, tag, n, t, val, s, p)
  BY <1>1 DEF Effect
<1>3. /\ VisitEffect(d, tag, n, t, val, s, p) /\ NameEffect(d, tag, n, s)
      /\ ParamEffect(d, tag, n, t, s, SymOf(p)) /\ ValueEffect(d, tag, t, val, s)
      /\ ListEffect(d, tag, s, SymOf(p))
  BY <1>2 DEF ParseEffect
<1>4. d \notin Visited /\ d[2] # x[2]
  BY <1>3 DEF VisitEffect, Settled
<1>5. sym'[x].kind = sym[x].kind /\ sym'[x].name = sym[x].name
  BY <1>3 DEF NameEffect
<1>6. p # Null => p \in Visited /\ p[2] = d[2] /\ die[p].tag \in ParentTags(tag)
  BY <1>3 DEF VisitEffect
<1>7. ASSUME x = SymOf(p) PROVE p \in Visited /\ die[p].sym = x /\ p # x
  <2>1. p # Null
    BY <1>0, <1>7 DEF SymOf
  <2> QED
    BY <1>4, <1>6, <1>7, <2>1 DEF SymOf
<1>8. sym'[x].type = sym[x].type
  <2> SUFFICES ASSUME tag = "subprogram", x = s PROVE FALSE
    BY <1>3 DEF ValueEffect
  <2>1. x # d /\ x # Null
    BY <1>0, <1>4
  <2>2. /\ sym[x].name = n /\ IsA(sym[x].kind, ClassOf(tag))
        /\ n = NoName => sym[x].kind = "StructuredMember"
    BY <1>3, <2>1 DEF NameEffect
  <2>3. ClassOf(tag) = "Function"
    BY DEF ClassOf
  <2>4. sym[x].kind = "Function"
    BY <2>2, <2>3 DEF IsA
  <2> QED
    BY <2>2, <2>4
<1>9. ASSUME sym[x].kind = "Array" PROVE sym'[x].length = sym[x].length
  <2> SUFFICES ASSUME tag = "subrange_type", x = SymOf(p) PROVE FALSE
    BY <1>3 DEF ListEffect
  <2>1. ParentTags(tag) = {"array_type"}
    BY DEF ParentTags
  <2>2. die[p].tag = "array_type"
    BY <1>0, <1>6, <1>7, <2>1
  <2> QED
    BY <1>7, <2>2 DEF ArrayDies
<1>10. ASSUME sym[x].kind # "Array" PROVE sym'[x].paramList = sym[x].paramList
  <2> SUFFICES ASSUME x = SymOf(p) PROVE FALSE
    BY <1>3 DEF ParamEffect
  <2>1. sym[x].kind = "Function" /\ sym[x].name = NoName
    BY <1>10
  <2>2. MergeCompatible
    BY <1>0 DEF NamesInv
  <2>3. die[p].name = NoName /\ die[p].sym # Null
    BY <1>0, <1>7, <2>1, <2>2 DEF MergeCompatible
  <2>4. sym[x].kind = "StructuredMember"
    BY <1>7, <2>2, <2>3 DEF MergeCompatible
  <2> QED
    BY <2>1, <2>4
<1> QED
  BY <1>5, <1>8, <1>9, <1>10 DEF SameKeys

\* Then a deleted object and what it was merged into stay equal.
LEMMA MergedStays ==
    ASSUME EdgesStay, NEW x \in Symbols, NEW y, MergedInto(x, y), SameKeys(x), SameKeys(y),
           y \notin freed', Visited \subseteq Visited'
    PROVE  MergedInto(x, y)'
<1>1. /\ y \in Symbols /\ sym[y].kind = sym[x].kind /\ Settled(x) /\ Settled(y)
      /\ sym[x].id \in DOMAIN symbolIDAliasMap /\ symbolIDAliasMap[sym[x].id] = sym[y].id
  BY DEF MergedInto
<1>2. /\ y \in Symbols' /\ sym'[y].id = sym[y].id /\ sym'[x].id = sym[x].id
      /\ sym'[x].id \in DOMAIN symbolIDAliasMap' /\ symbolIDAliasMap'[sym'[x].id] = sym'[y].id
  BY <1>1 DEF EdgesStay
<1>3. Settled(x)' /\ Settled(y)'
  BY <1>1 DEF Settled
<1>4. sym'[y].kind = sym'[x].kind
  BY <1>1 DEF SameKeys
<1>5. sym'[x].kind = "Array" => Array_eq(sym'[x], sym'[y])
  BY <1>1 DEF SameKeys, MergedInto, Array_eq
<1>6. sym'[x].kind # "Array" => Function_eq(sym'[x], sym'[y])
  BY <1>1 DEF SameKeys, MergedInto, Function_eq, ParamTypes
<1> QED
  BY <1>2, <1>3, <1>4, <1>5, <1>6 DEF MergedInto

\* Reading a DIE keeps the invariant.
LEMMA ParseMerged ==
    ASSUME CleanupInv, AliasInv, LeadInv, CallsInv, MergedInv, Parse
    PROVE  MergedInv'
<1>0. NamesInv /\ FreedNameless /\ ArrayDies
  BY DEF CleanupInv, MergedInv
<1>1. freed' = freed /\ calls' = calls /\ EdgesStay /\ Visited \subseteq Visited'
  BY <1>0, ParseParts, ParseLead, VisitedStay DEF CleanupStep
<1>2. ArrayDies'
  <2>1. PICK d \in Dies : Effect(d)
    BY <1>0, ParseParts
  <2>2. PICK tag \in AllTags, n \in AllNames, t \in Dies \cup {Null}, val \in Nat \cup {Null},
             s \in Dies \cup {Null}, p \in Dies \cup {Null} : ParseEffect(d, tag, n, t, val, s, p)
    BY <2>1 DEF Effect
  <2>3. /\ Visited' = Visited \cup {d} /\ \A e \in Visited : die'[e] = die[e]
        /\ die'[d].tag = tag /\ die'[d].sym = s
    BY <2>2 DEF ParseEffect, VisitEffect
  <2>4. tag = "array_type" => s = d
    BY <2>2 DEF ParseEffect, ListEffect
  <2> QED
    BY <1>0, <2>3, <2>4 DEF ArrayDies
<1>3. ASSUME NEW x \in freed, calls[CleanerOf(x)'] = 1 PROVE \E y : MergedInto(x, y)'
  <2>1. /\ x \in Symbols /\ sym[x].kind \in {"Array", "Function"}
        /\ sym[x].kind = "Function" => sym[x].name = NoName
    BY <1>0 DEF FreedNameless
  <2>2. CleanerOf(x)' = CleanerOf(x)
    BY <1>1, <2>1 DEF EdgesStay, CleanerOf
  <2>3. PICK y : MergedInto(x, y)
    BY <1>3, <2>2 DEF MergedInv
  <2>4. /\ y \in Symbols \ freed /\ sym[y].kind = sym[x].kind /\ Settled(x) /\ Settled(y)
        /\ sym[x].kind = "Function" => sym[y].name = NoName
    BY <2>1, <2>3 DEF MergedInto, Function_eq
  <2>5. SameKeys(x) /\ SameKeys(y)
    BY <1>0, <2>1, <2>4, SettledStays
  <2> QED
    BY <1>1, <2>1, <2>3, <2>4, <2>5, MergedStays
<1> QED
  BY <1>1, <1>2, <1>3 DEF MergedInv

\* cleanFunctions and cleanArrays keep it: what they delete is equal to what it
\* is merged into, and what the other one deleted they leave alone.
LEMMA CleanedMerged ==
    ASSUME CleanupInv, AliasInv, LeadInv, CallsInv, MergedInv, CleanupStep,
           NEW S, S \subseteq Symbols \ freed,
           NEW kind \in {"Array", "Function"}, \A x \in S : sym[x].kind = kind,
           NEW op, op = (IF kind = "Array" THEN "cleanArrays" ELSE "cleanFunctions"), Call(op),
           NEW lt, NEW eq, NEW list, CleanedSome(S, lt, eq, list),
           \A x, y \in S : <<y, x>> \in eq =>
               /\ kind = "Array" => Array_eq(sym'[x], sym'[y])
               /\ kind # "Array" => Function_eq(sym'[x], sym'[y])
    PROVE  MergedInv'
<1>0. NamesInv /\ FreedNameless /\ ArrayDies /\ calls \in [Operations -> Nat]
  BY DEF CleanupInv, MergedInv, CallsInv
<1>1. PICK D, first : Cleaned(S, lt, eq, D, first, list)
  BY DEF CleanedSome
<1>2. /\ D \subseteq S /\ Aliased(S, sym', eq, D) /\ Retyped(sym', S) /\ freed' = freed \cup D
      /\ UNCHANGED die
  BY <1>1 DEF Cleaned, Merges, Aliased
<1>3. /\ Symbols' = Symbols /\ Visited' = Visited /\ Symbols \subseteq Visited /\ Symbols \subseteq Dies
      /\ \A x \in Symbols : sym'[x].kind = sym[x].kind
      /\ \A x \in Symbols \ S : sym'[x] = sym[x]
  BY <1>0, <1>2 DEF Retyped, Symbols, Visited, NamesInv, ShapesOK
<1>4. ArrayDies' /\ EdgesStay
  BY <1>0, <1>2, <1>3, StepLead DEF ArrayDies
<1>5. /\ op \in Operations /\ calls' \in [Operations -> Nat] /\ calls'[op] = calls[op] + 1
      /\ BetweenFiles /\ \A o \in Operations \ {op} : calls'[o] = calls[o]
  BY <1>0, CallCounts
<1>6. \A x \in Symbols : Settled(x)'
  BY <1>3, <1>5 DEF Settled, BetweenFiles
<1>7. ASSUME NEW x \in freed, calls'[CleanerOf(x)'] = 1 PROVE \E y : MergedInto(x, y)'
  <2>1. /\ x \in Symbols /\ sym[x].kind \in {"Array", "Function"}
        /\ CleanerOf(x) \in Operations /\ calls[CleanerOf(x)] # 0
    BY <1>0 DEF FreedNameless, CallsInv
  <2>2. CleanerOf(x)' = CleanerOf(x)
    BY <1>3, <2>1 DEF CleanerOf
  <2>3. CleanerOf(x) # op /\ calls[CleanerOf(x)] = 1
    <3>1. calls[CleanerOf(x)] \in Nat /\ calls[op] \in Nat
      BY <1>0, <1>5, <2>1
    <3>2. CleanerOf(x) # op
      BY <1>5, <1>7, <2>1, <2>2, <3>1
    <3> QED
      BY <1>5, <1>7, <2>1, <2>2, <3>2
  <2>4. sym[x].kind # kind
    BY <2>1, <2>3 DEF CleanerOf
  <2>5. PICK y : MergedInto(x, y)
    BY <2>3 DEF MergedInv
  <2>6. y \in Symbols \ freed /\ sym[y].kind = sym[x].kind
    BY <2>5 DEF MergedInto
  <2>7. x \notin S /\ y \notin S
    BY <2>4, <2>6
  <2>8. SameKeys(x) /\ SameKeys(y) /\ y \notin freed'
    BY <1>2, <1>3, <2>1, <2>6, <2>7 DEF SameKeys
  <2> QED
    BY <1>3, <1>4, <2>1, <2>5, <2>8, MergedStays
<1>8. ASSUME NEW x \in D PROVE \E y : MergedInto(x, y)'
  <2>1. PICK y \in S \ D : /\ <<y, x>> \in eq /\ symbolIDAliasMap'[sym'[x].id] = sym'[y].id
    BY <1>2 DEF Aliased
  <2>2. sym'[x].id \in DOMAIN symbolIDAliasMap'
    BY <1>2 DEF Aliased
  <2>3. x \in Symbols /\ y \in Symbols /\ sym'[x].kind = kind /\ sym'[y].kind = kind
    BY <1>2, <1>3
  <2>4. /\ sym'[x].kind = "Array" => Array_eq(sym'[x], sym'[y])
        /\ sym'[x].kind # "Array" => Function_eq(sym'[x], sym'[y])
    BY <1>2, <2>1, <2>3
  <2>5. y \in Symbols' \ freed'
    BY <1>2, <1>3, <2>1
  <2> QED
    BY <1>6, <2>1, <2>2, <2>3, <2>4, <2>5 DEF MergedInto
<1> QED
  BY <1>2, <1>4, <1>7, <1>8 DEF MergedInv

\* Every step keeps it.
LEMMA StepMerged ==
    ASSUME CleanupInv, AliasInv, LeadInv, CallsInv, MergedInv, CleanupStep
    PROVE  MergedInv'
<1>0. ListsLive /\ FreedNameless /\ ArrayDies
  BY DEF CleanupInv, MergedInv
<1>1. CASE FunctionsCleaned
  <2> DEFINE S == Elements(funcList)
  <2>1. \A x \in S : x \in Symbols \ freed /\ sym[x].kind = "Function"
    BY <1>0 DEF ListsLive
  <2>2. CleanedSome(S, FunctionLt(S, sym'), FunctionEq(S, sym'), funcList') /\ Call("cleanFunctions")
    BY <1>1 DEF FunctionsCleaned
  <2>3. \A x, y \in S : <<y, x>> \in FunctionEq(S, sym') => Function_eq(sym'[x], sym'[y])
    BY DEF FunctionEq, Function_eq
  <2> HIDE DEF S
  <2> QED
    BY <2>1, <2>2, <2>3, CleanedMerged
<1>2. CASE ArraysCleaned
  <2> DEFINE S == Elements(arrayVector)
  <2>1. \A x \in S : x \in Symbols \ freed /\ sym[x].kind = "Array"
    BY <1>0 DEF ListsLive
  <2>2. CleanedSome(S, ArrayLt(S, sym'), ArrayEq(S, sym'), arrayVector') /\ Call("cleanArrays")
    BY <1>2 DEF ArraysCleaned
  <2>3. \A x, y \in S : <<y, x>> \in ArrayEq(S, sym') => Array_eq(sym'[x], sym'[y])
    BY DEF ArrayEq, Array_eq
  <2> HIDE DEF S
  <2> QED
    BY <2>1, <2>2, <2>3, CleanedMerged
<1>3. CASE SymbolRemoved \/ NothingCleaned
  <2>1. UNCHANGED <<sym, die, freed>>
    BY <1>3 DEF SymbolRemoved, NothingCleaned, Call, vars
  <2>2. Visited' = Visited /\ EdgesStay /\ ArrayDies'
    BY <1>0, <2>1, StepLead DEF Visited, ArrayDies
  <2>3. ASSUME NEW x \in freed, calls'[CleanerOf(x)'] = 1 PROVE \E y : MergedInto(x, y)'
    <3>1. x \in Symbols /\ CleanerOf(x) \in Operations /\ calls[CleanerOf(x)] # 0
      BY <1>0 DEF FreedNameless, CallsInv
    <3>2. CleanerOf(x)' = CleanerOf(x)
      BY <2>1 DEF CleanerOf
    <3>3. calls[CleanerOf(x)] \in Nat
      BY <3>1 DEF CallsInv
    <3>4. calls[CleanerOf(x)] = 1
      BY <2>3, <3>1, <3>2, <3>3, CallsGrow
    <3>5. PICK y : MergedInto(x, y)
      BY <3>4 DEF MergedInv
    <3>6. y \notin freed' /\ SameKeys(x) /\ SameKeys(y)
      BY <2>1, <3>5 DEF MergedInto, SameKeys
    <3> QED
      BY <2>2, <3>1, <3>5, <3>6, MergedStays
  <2> QED
    BY <2>1, <2>2, <2>3 DEF MergedInv
<1> QED
  BY <1>1, <1>2, <1>3, ParseMerged DEF CleanupStep

\* The inductive invariant of the next theorem.
LEMMA MergedInvariant == CleanupSpec => [](CallsInv /\ MergedInv)
<1>1. CleanupInit => CallsInv /\ MergedInv
  <2> SUFFICES ASSUME CleanupInit PROVE CallsInv /\ MergedInv
    OBVIOUS
  <2>1. /\ freed = {} /\ calls = [op \in Operations |-> 0] /\ tidy = FALSE /\ arrayTypeMap = <<>>
        /\ Symbols = {} /\ Visited = {}
    BY DEF CleanupInit, Init, EmptyMap, Symbols, Visited
  <2> QED
    BY <2>1 DEF CallsInv, MergedInv, ArrayDies
<1>2. CleanupInv /\ AliasInv /\ LeadInv /\ CallsInv /\ MergedInv /\ [CleanupNext]_allVars
      => (CallsInv /\ MergedInv)'
  BY CleanupSteps, StepKeepsCalls, StepMerged
<1> QED
  BY <1>1, <1>2, CleanupInvariant, AliasInvariant, LeadInvariant, PTL DEF CleanupSpec

\* The first cleanFunctions and the first cleanArrays delete only objects that
\* a live one is equal to and that its alias leads to, and reading other files
\* changes neither of the two.
THEOREM MergedIntoLiveOnce == CleanupSpec => []MergedIntoLive
<1>1. MergedInv => MergedIntoLive
  <2> SUFFICES ASSUME MergedInv, NEW x \in freed, calls[CleanerOf(x)] = 1
               PROVE  \E y \in Symbols \ freed :
                         /\ sym[y].kind = sym[x].kind
                         /\ IF sym[x].kind = "Array" THEN Array_eq(sym[x], sym[y])
                            ELSE Function_eq(sym[x], sym[y])
                         /\ symbolIDAliasMap[sym[x].id] = sym[y].id
    BY DEF MergedIntoLive
  <2>1. PICK y : MergedInto(x, y)
    BY DEF MergedInv
  <2> QED
    BY <2>1 DEF MergedInto
<1> QED
  BY <1>1, MergedInvariant, PTL

-----------------------------------------------------------------------------
(* What findArrayByTypeID finds. *)

\* The type, then the length, then the id decides.
LEMMA ArrayLess ==
    ASSUME NEW a, NEW b, a.type \in Nat, a.length \in Nat, a.id \in Nat,
           b.type \in Nat, b.length \in Nat, b.id \in Nat
    PROVE  Array_lt(a, b) <=> \/ a.type < b.type
                              \/ a.type = b.type /\ a.length < b.length
                              \/ a.type = b.type /\ a.length = b.length /\ a.id < b.id
<1> DEFINE k == <<a.type, a.length, a.id>>
           m == <<b.type, b.length, b.id>>
<1>1. /\ DOMAIN k = 1..3 /\ k[1] = a.type /\ k[2] = a.length /\ k[3] = a.id
      /\ DOMAIN m = 1..3 /\ m[1] = b.type /\ m[2] = b.length /\ m[3] = b.id
  OBVIOUS
<1>2. Array_lt(a, b) <=> LessKeys(k, m)
  BY DEF Array_lt
<1> HIDE DEF k, m
<1>3. LessKeys(k, m) <=> \E i \in 1..3 : k[i] < m[i] /\ \A j \in 1..(i - 1) : k[j] = m[j]
  BY <1>1 DEF LessKeys
<1>4. ASSUME NEW i \in 1..3, k[i] < m[i], \A j \in 1..(i - 1) : k[j] = m[j]
      PROVE  \/ k[1] < m[1]
             \/ k[1] = m[1] /\ k[2] < m[2]
             \/ k[1] = m[1] /\ k[2] = m[2] /\ k[3] < m[3]
  <2>1. i = 1 \/ i = 2 \/ i = 3
    OBVIOUS
  <2>2. (i = 2 => k[1] = m[1]) /\ (i = 3 => k[1] = m[1] /\ k[2] = m[2])
    BY <1>4
  <2> QED
    BY <1>4, <2>1, <2>2
<1>5. ASSUME k[1] < m[1] \/ (k[1] = m[1] /\ k[2] < m[2])
                \/ (k[1] = m[1] /\ k[2] = m[2] /\ k[3] < m[3])
      PROVE  \E i \in 1..3 : k[i] < m[i] /\ \A j \in 1..(i - 1) : k[j] = m[j]
  <2>1. \A j \in 1..(1 - 1) : k[j] = m[j]
    OBVIOUS
  <2>2. (\A j \in 1..(2 - 1) : j = 1) /\ \A j \in 1..(3 - 1) : j = 1 \/ j = 2
    OBVIOUS
  <2> QED
    BY <1>5, <2>1, <2>2
<1> QED
  BY <1>1, <1>2, <1>3, <1>4, <1>5

\* Arrays of the same type and length are next to each other.
LEMMA ArraysContiguous ==
    ASSUME NEW S, NEW s, Identified(s, S)
    PROVE  Contiguous(S, ArrayLt(S, s), ArrayEq(S, s))
<1> SUFFICES ASSUME NEW x \in S, NEW y \in S, NEW z \in S, <<x, y>> \in ArrayLt(S, s),
                    <<y, z>> \in ArrayLt(S, s), <<x, z>> \in ArrayEq(S, s)
             PROVE  <<y, z>> \in ArrayEq(S, s)
  BY DEF Contiguous
<1>1. \A w \in S : s[w].type \in Nat /\ s[w].length \in Nat /\ s[w].id \in Nat
  BY DEF Identified
<1>2. Array_lt(s[x], s[y]) /\ Array_lt(s[y], s[z])
  BY DEF ArrayLt
<1>3. s[x].type = s[z].type /\ s[x].length = s[z].length
  BY DEF ArrayEq, Array_eq
<1>4. /\ s[x].type < s[y].type \/ (s[x].type = s[y].type /\ s[x].length <= s[y].length)
      /\ s[y].type < s[z].type \/ (s[y].type = s[z].type /\ s[y].length <= s[z].length)
  BY <1>1, <1>2, ArrayLess
<1>5. s[y].type = s[z].type /\ s[y].length = s[z].length
  BY <1>1, <1>3, <1>4
<1> QED
  BY <1>5 DEF ArrayEq, Array_eq

\* The entries of the first k arrays of list.
Entries(list, s, k) == [i \in 1..k |-> <<s[list[i]].type, list[i]>>]

\* A type that is no smaller than those in the map goes to the end.
LEMMA InsertLast ==
    ASSUME NEW N \in Nat, NEW list \in [1..N -> Dies], NEW s,
           \A i \in 1..N : s[list[i]].type \in Nat,
           \A i, j \in 1..N : i < j => s[list[i]].type <= s[list[j]].type, NEW k \in 1..N
    PROVE  InsertByType(Entries(list, s, k - 1), s[list[k]].type, list[k]) = Entries(list, s, k)
<1> DEFINE map == Entries(list, s, k - 1)
           e == <<s[list[k]].type, list[k]>>
           V == Nat \X Dies
           low == {i \in DOMAIN map : map[i][1] <= s[list[k]].type}
<1>1. map \in Seq(V) /\ Len(map) = k - 1 /\ DOMAIN map = 1..(k - 1) /\ e \in V
      /\ \A i \in 1..(k - 1) : map[i] = <<s[list[i]].type, list[i]>>
  <2>1. map \in [1..(k - 1) -> V]
    BY DEF Entries
  <2> HIDE DEF map
  <2>2. k - 1 \in Nat
    OBVIOUS
  <2>3. map \in Seq(V) /\ Len(map) = k - 1
    BY <2>1, <2>2
  <2> QED
    BY <2>1, <2>3 DEF map, Entries
<1> HIDE DEF map
<1>2. low = 1..(k - 1)
  <2>1. \A i \in 1..(k - 1) : map[i][1] <= s[list[k]].type
    <3> TAKE i \in 1..(k - 1)
    <3>1. i \in 1..N /\ i < k
      OBVIOUS
    <3> QED
      BY SMTT(30), <1>1, <3>1
  <2> QED
    BY <1>1, <2>1
<1>3. Cardinality(low) = k - 1
  <2>1. Cardinality(1..(k - 1)) = IF 1 > k - 1 THEN 0 ELSE (k - 1) - 1 + 1
    BY FS_Interval
  <2>2. Cardinality(1..(k - 1)) = k - 1
    BY <2>1
  <2> QED
    BY <1>2, <2>2
<1> HIDE DEF low
<1>4. InsertByType(map, s[list[k]].type, list[k])
         = SubSeq(map, 1, k - 1) \o <<e>> \o SubSeq(map, k - 1 + 1, Len(map))
  <2>1. InsertByType(map, s[list[k]].type, list[k])
           = SubSeq(map, 1, Cardinality(low)) \o <<e>>
                \o SubSeq(map, Cardinality(low) + 1, Len(map))
    BY DEF InsertByType, low
  <2> QED
    BY <1>3, <2>1
<1> HIDE DEF e
<1>5. SubSeq(map, 1, k - 1) = map /\ SubSeq(map, k - 1 + 1, Len(map)) = <<>>
  BY <1>1
<1>6. InsertByType(map, s[list[k]].type, list[k]) = Append(map, e)
  BY <1>1, <1>4, <1>5
<1>7. Append(map, e) = Entries(list, s, k)
  <2>1. PICK q : q = Append(map, e)
    OBVIOUS
  <2>2. q \in Seq(V) /\ Len(q) = k /\ k \in Nat
    BY <1>1, <2>1
  <2>3. (\A i \in 1..(k - 1) : q[i] = map[i]) /\ q[k] = e
    BY <1>1, <2>1
  <2>4. \A i \in 1..k : i \in 1..(k - 1) \/ i = k
    OBVIOUS
  <2>5. \A i \in 1..k : q[i] = <<s[list[i]].type, list[i]>>
    BY <1>1, <2>3, <2>4 DEF e
  <2>6. q \in [1..k -> V]
    BY <2>2
  <2>7. q = [i \in 1..k |-> q[i]]
    BY <2>6
  <2> QED
    BY <2>1, <2>5, <2>7 DEF Entries
<1> QED
  BY <1>6, <1>7 DEF map

\* Into an empty map the sorted arrays go in their order.
LEMMA InsertAll ==
    ASSUME NEW list \in Seq(Dies), NEW s, \A i \in 1..Len(list) : s[list[i]].type \in Nat,
           \A i, j \in 1..Len(list) : i < j => s[list[i]].type <= s[list[j]].type
    PROVE  InsertArrays(<<>>, list, s) = Entries(list, s, Len(list))
<1>1. PICK N \in Nat : N = Len(list)
  OBVIOUS
<1>2. list \in [1..N -> Dies]
  BY <1>1
<1> DEFINE Eq(h) == h = [k \in 0..Len(list) |->
                            IF k = 0 THEN <<>>
                            ELSE InsertByType(h[k - 1], s[list[k]].type, list[k])]
           g == [k \in 0..N |-> Entries(list, s, k)]
           f == CHOOSE h : Eq(h)
<1>3. Entries(list, s, 0) = <<>>
  BY DEF Entries
<1>4. Eq(g)
  <2>1. ASSUME NEW k \in 0..N
        PROVE  g[k] = IF k = 0 THEN <<>> ELSE InsertByType(g[k - 1], s[list[k]].type, list[k])
    <3>1. CASE k = 0
      BY <1>3, <3>1
    <3>2. CASE k # 0
      <4>1. k \in 1..N /\ k - 1 \in 0..N
        BY <3>2
      <4>2. InsertByType(Entries(list, s, k - 1), s[list[k]].type, list[k]) = Entries(list, s, k)
        BY <1>1, <1>2, <4>1, InsertLast
      <4> QED
        BY <3>2, <4>1, <4>2
    <3> QED
      BY <3>1, <3>2
  <2>2. g = [k \in 0..N |-> g[k]]
    OBVIOUS
  <2> HIDE DEF g
  <2> QED
    BY <1>1, <2>1, <2>2
<1>5. InsertArrays(<<>>, list, s) = f[Len(list)]
  BY DEF InsertArrays
<1> HIDE DEF Eq, f, g
<1>6. Eq(f)
  BY <1>4 DEF f
<1>7. \A k \in 0..N : f[k] = IF k = 0 THEN <<>>
                            ELSE InsertByType(f[k - 1], s[list[k]].type, list[k])
  BY <1>1, <1>6 DEF Eq
<1> DEFINE T == {k \in 0..N : f[k] = Entries(list, s, k)}
<1>8. 0 \in T
  BY <1>3, <1>7
<1>9. ASSUME NEW k \in 0..(N - 1), k \in T PROVE k + 1 \in T
  <2>1. PICK m : m = k + 1
    OBVIOUS
  <2>2. m \in 0..N /\ m \in 1..N /\ m # 0 /\ m - 1 = k
    BY <2>1
  <2>3. f[m] = InsertByType(f[k], s[list[m]].type, list[m])
    BY <1>7, <2>2
  <2>4. InsertByType(Entries(list, s, m - 1), s[list[m]].type, list[m]) = Entries(list, s, m)
    BY <1>1, <1>2, <2>2, InsertLast
  <2>5. f[m] = Entries(list, s, m)
    BY <1>9, <2>2, <2>3, <2>4
  <2> QED
    BY <2>1, <2>2, <2>5
<1> HIDE DEF T
<1>10. N \in T
  <2>1. \A k \in 0..N : k \in T
    BY <1>8, <1>9, NaturalsUpTo
  <2> QED
    BY <2>1
<1> QED
  BY <1>1, <1>5, <1>10 DEF T

LiveArrays == {x \in Symbols \ freed : sym[x].kind = "Array"}

\* arrayTypeMap has all live arrays but the first, sorted, and no other.
MapOK ==
    /\ \A a, b \in LiveArrays : Array_eq(sym[a], sym[b]) => a = b
    /\ \A a, b \in LiveArrays : Array_lt(sym[b], sym[a]) =>
          \E i \in DOMAIN arrayTypeMap : arrayTypeMap[i] = <<sym[a].type, a>>
    /\ DOMAIN arrayTypeMap \subseteq Nat
    /\ \A i \in DOMAIN arrayTypeMap : /\ arrayTypeMap[i][2] \in LiveArrays
                                      /\ arrayTypeMap[i][1] = sym[arrayTypeMap[i][2]].type
    /\ \A i, j \in DOMAIN arrayTypeMap :
          i < j => Array_lt(sym[arrayTypeMap[i][2]], sym[arrayTypeMap[j][2]])

MapInv == JustCleaned => MapOK

\* The first cleanArrays fills it so.
LEMMA CleanedMap ==
    ASSUME CleanupInv, ArraysCleaned, arrayTypeMap = <<>>,
           \A x \in Symbols : sym[x].kind = "Array" => x \in Elements(arrayVector)
    PROVE  MapOK'
<1> DEFINE S == Elements(arrayVector)
<1>0. NamesInv /\ ListsLive /\ Symbols \subseteq Dies
  BY DEF CleanupInv, NamesInv, ShapesOK
<1>1. PICK D, first : Cleaned(S, ArrayLt(S, sym'), ArrayEq(S, sym'), D, first, arrayVector')
  BY DEF ArraysCleaned, CleanedSome
<1>2. S \subseteq Symbols /\ \A x \in S : x \notin freed /\ sym[x].kind = "Array"
  BY <1>0 DEF ListsLive
<1>3. arrayTypeMap' = InsertArrays(<<>>, arrayVector', sym')
  BY DEF ArraysCleaned
<1> HIDE DEF S
<1>4. /\ Identified(sym', S) /\ Merges(S, ArrayLt(S, sym'), ArrayEq(S, sym'), D, first, arrayVector')
      /\ StrictOrder(S, ArrayLt(S, sym')) /\ Retyped(sym', S) /\ freed' = freed \cup D
  BY <1>1 DEF Cleaned, Aliased
<1>5. /\ D \subseteq S /\ first \in S \ D
      /\ \A x \in S \ {first} : <<first, x>> \in ArrayLt(S, sym')
      /\ arrayVector' \in Seq(S \ D) /\ Elements(arrayVector') = (S \ D) \ {first}
      /\ \A i, j \in DOMAIN arrayVector' :
            i < j => <<arrayVector'[i], arrayVector'[j]>> \in ArrayLt(S, sym')
      /\ \A x, y \in S \ D : <<x, y>> \in ArrayEq(S, sym') => x = y
  BY <1>4, ArraysContiguous DEF Merges
<1>6. LiveArrays' = S \ D
  <2>1. Symbols' = Symbols /\ \A x \in Symbols : sym'[x].kind = sym[x].kind
    BY <1>4 DEF Retyped, Symbols
  <2>2. \A x \in Symbols : sym[x].kind = "Array" => x \in S
    BY DEF S
  <2> QED
    BY <1>2, <1>4, <1>5, <2>1, <2>2 DEF LiveArrays
<1>7. PICK list : list = arrayVector'
  OBVIOUS
<1>8. PICK s : s = sym'
  OBVIOUS
<1>9. list \in Seq(Dies) /\ DOMAIN list = 1..Len(list) /\ \A i \in 1..Len(list) : list[i] \in S \ D
  <2>1. list \in Seq(S \ D) /\ S \ D \subseteq Dies
    BY <1>0, <1>2, <1>5, <1>7
  <2> QED
    BY <2>1
<1>10. \A x \in S : s[x].type \in Nat /\ s[x].length \in Nat /\ s[x].id \in Nat
  BY <1>4, <1>8 DEF Identified
<1>11. \A i, j \in 1..Len(list) : i < j => Array_lt(s[list[i]], s[list[j]])
  BY <1>5, <1>7, <1>8, <1>9 DEF ArrayLt
<1>12. \A i, j \in 1..Len(list) : i < j => s[list[i]].type <= s[list[j]].type
  <2> SUFFICES ASSUME NEW i \in 1..Len(list), NEW j \in 1..Len(list), i < j
               PROVE  s[list[i]].type <= s[list[j]].type
    OBVIOUS
  <2>1. Array_lt(s[list[i]], s[list[j]]) /\ list[i] \in S /\ list[j] \in S
    BY <1>9, <1>11
  <2> QED
    BY SMTT(30), <1>10, <2>1, ArrayLess
<1>13. \A i \in 1..Len(list) : s[list[i]].type \in Nat
  BY <1>9, <1>10
<1>14. arrayTypeMap' = Entries(list, s, Len(list))
  BY <1>3, <1>7, <1>8, <1>9, <1>12, <1>13, InsertAll
<1>15. /\ DOMAIN arrayTypeMap' = 1..Len(list)
       /\ \A i \in 1..Len(list) : arrayTypeMap'[i] = <<s[list[i]].type, list[i]>>
  BY <1>14 DEF Entries
<1>16. \A a, b \in LiveArrays' : Array_eq(sym'[a], sym'[b]) => a = b
  BY <1>5, <1>6 DEF ArrayEq
<1>17. ASSUME NEW a \in LiveArrays', NEW b \in LiveArrays', Array_lt(sym'[b], sym'[a])
       PROVE  \E i \in DOMAIN arrayTypeMap' : arrayTypeMap'[i] = <<sym'[a].type, a>>
  <2>1. a # first
    <3> SUFFICES ASSUME a = first PROVE FALSE
      OBVIOUS
    <3>1. <<b, first>> \in ArrayLt(S, sym') /\ b \in S
      BY <1>5, <1>6, <1>17 DEF ArrayLt
    <3>2. <<first, first>> \notin ArrayLt(S, sym')
      BY <1>4, <1>5 DEF StrictOrder
    <3>3. <<first, b>> \in ArrayLt(S, sym')
      BY <1>5, <3>1, <3>2
    <3> QED
      BY <1>4, <1>5, <3>1, <3>2, <3>3 DEF StrictOrder
  <2>2. PICK i \in DOMAIN list : list[i] = a
    BY <1>5, <1>6, <1>7, <2>1 DEF Elements
  <2> QED
    BY <1>8, <1>9, <1>15, <2>2
<1>18. \A i \in DOMAIN arrayTypeMap' : /\ i \in Nat /\ arrayTypeMap'[i][2] \in LiveArrays'
                                       /\ arrayTypeMap'[i][1] = sym'[arrayTypeMap'[i][2]].type
  BY <1>6, <1>8, <1>9, <1>15
<1>19. \A i, j \in DOMAIN arrayTypeMap' :
          i < j => Array_lt(sym'[arrayTypeMap'[i][2]], sym'[arrayTypeMap'[j][2]])
  BY <1>8, <1>11, <1>15
<1> QED
  BY <1>16, <1>17, <1>18, <1>19 DEF MapOK

\* Until a DIE is read or cleanArrays is called again, nothing changes it.
LEMMA MapStays ==
    ASSUME CleanupInv, MapOK, LiveArrays' = LiveArrays, arrayTypeMap' = arrayTypeMap,
           \A a \in LiveArrays : sym'[a] = sym[a]
    PROVE  MapOK'
BY DEF MapOK

\* Every step keeps the invariant.
LEMMA StepMap ==
    ASSUME CleanupInv, CallsInv, MapInv, CleanupStep
    PROVE  MapInv'
<1> SUFFICES ASSUME JustCleaned' PROVE MapOK'
  BY DEF MapInv
<1>1. tidy' /\ calls'["cleanArrays"] = 1
  BY DEF JustCleaned
<1>2. CASE Parse
  BY <1>1, <1>2, ParseParts DEF CleanupInv
<1>3. CASE ArraysCleaned
  <2>1. "cleanArrays" \in Operations /\ calls'["cleanArrays"] = calls["cleanArrays"] + 1
    BY <1>3, CallCounts DEF ArraysCleaned, CallsInv
  <2>2. calls["cleanArrays"] = 0
    BY <1>1, <2>1 DEF CallsInv
  <2>3. arrayTypeMap = <<>> /\ \A x \in Symbols : sym[x].kind = "Array" => x \in Elements(arrayVector)
    BY <2>2 DEF CallsInv
  <2> QED
    BY <1>3, <2>3, CleanedMap
<1>4. CASE ~Parse /\ ~ArraysCleaned
  <2>1. UNCHANGED <<arrayTypeMap, tidy>>
    BY <1>4 DEF CleanupStep, FunctionsCleaned, SymbolRemoved, NothingCleaned
  <2>2. tidy
    BY <1>1, <2>1
  <2>3. "cleanArrays" \in Operations /\ calls["cleanArrays"] # 0
    BY <2>2 DEF CallsInv
  <2>4. calls["cleanArrays"] \in Nat
    BY <2>3 DEF CallsInv
  <2>5. calls["cleanArrays"] = 1
    <3>1. \/ calls'["cleanArrays"] = calls["cleanArrays"]
          \/ calls'["cleanArrays"] = calls["cleanArrays"] + 1
      BY <2>3, CallsGrow
    <3> QED
      BY <1>1, <2>3, <2>4, <3>1
  <2>6. MapOK
    BY <2>2, <2>5 DEF MapInv, JustCleaned
  <2>7. LiveArrays' = LiveArrays /\ \A a \in LiveArrays : sym'[a] = sym[a]
    <3>1. CASE FunctionsCleaned
      <4> DEFINE S == Elements(funcList)
      <4>1. PICK D, first : Cleaned(S, FunctionLt(S, sym'), FunctionEq(S, sym'), D, first, funcList')
        BY <3>1 DEF FunctionsCleaned, CleanedSome
      <4>2. Retyped(sym', S) /\ freed' = freed \cup D /\ D \subseteq S
        BY <4>1 DEF Cleaned, Aliased, Merges
      <4>3. \A x \in S : sym[x].kind = "Function"
        BY DEF CleanupInv, ListsLive
      <4> HIDE DEF S
      <4>4. /\ Symbols' = Symbols /\ \A x \in Symbols : sym'[x].kind = sym[x].kind
            /\ \A x \in Symbols \ S : sym'[x] = sym[x]
        BY <4>2 DEF Retyped, Symbols
      <4> QED
        BY <4>2, <4>3, <4>4 DEF LiveArrays
    <3>2. CASE SymbolRemoved \/ NothingCleaned
      BY <3>2 DEF SymbolRemoved, NothingCleaned, vars, LiveArrays, Symbols
    <3> QED
      BY <1>4, <3>1, <3>2 DEF CleanupStep
  <2> QED
    BY <2>1, <2>6, <2>7, MapStays
<1> QED
  BY <1>2, <1>3, <1>4

\* The inductive invariant of the last two theorems.
LEMMA MapInvariant == CleanupSpec => []MapInv
<1>1. CleanupInit => MapInv
  BY DEF CleanupInit, MapInv, JustCleaned
<1>2. CleanupInv /\ CallsInv /\ MapInv /\ [CleanupNext]_allVars => MapInv'
  BY CleanupSteps, StepMap
<1> QED
  BY <1>1, <1>2, CleanupInvariant, MergedInvariant, PTL DEF CleanupSpec

\* The first cleanArrays leaves no two live arrays of the same element type and
\* length.
THEOREM ArraysStayDistinct == CleanupSpec => []ArraysDistinct
<1>1. MapInv => ArraysDistinct
  BY DEF MapInv, MapOK, ArraysDistinct, LiveArrays
<1> QED
  BY <1>1, MapInvariant, PTL

\* In a sorted map without duplicates, the first entry from the key on that has
\* the length is the array itself.
LEMMA FoundArray ==
    ASSUME CleanupInv, MapOK, NEW a \in LiveArrays, NEW b \in LiveArrays, Array_lt(sym[b], sym[a])
    PROVE  findArrayByTypeID(sym[a].type, sym[a].length) = a
<1> DEFINE t == sym[a].type
           hits == {i \in FromKey(t) : sym[arrayTypeMap[i][2]].length = sym[a].length}
           c == CHOOSE i \in hits : \A j \in hits : i <= j
<1>1. \A x \in LiveArrays : sym[x].type \in Nat /\ sym[x].length \in Nat /\ sym[x].id \in Nat
  <2> SUFFICES ASSUME NEW x \in Symbols
               PROVE  sym[x].type \in Nat /\ sym[x].length \in Nat /\ sym[x].id \in Nat
    BY DEF LiveArrays
  <2>1. sym[x] \in SymbolType
    BY DEF CleanupInv, NamesInv, ShapesOK
  <2> QED
    BY <2>1, ConstantsAssumption DEF SymbolType
<1>2. PICK k \in DOMAIN arrayTypeMap : arrayTypeMap[k] = <<t, a>>
  BY DEF MapOK
<1>3. DOMAIN arrayTypeMap \subseteq Nat
  BY DEF MapOK
<1>4. k \in hits
  BY <1>2, <1>3 DEF FromKey
<1>5. hits \subseteq Nat
  BY <1>3 DEF FromKey
<1> HIDE DEF hits
<1>6. \E i \in hits : \A j \in hits : i <= j
  BY <1>4, <1>5, LeastNatural
<1>7. c \in hits /\ c <= k
  BY <1>4, <1>6
<1> HIDE DEF c
<1>8. /\ c \in DOMAIN arrayTypeMap /\ sym[arrayTypeMap[c][2]].length = sym[a].length
      /\ \E j \in DOMAIN arrayTypeMap : arrayTypeMap[j][1] = t /\ j <= c
  BY <1>7 DEF hits, FromKey
<1>9. PICK j \in DOMAIN arrayTypeMap : arrayTypeMap[j][1] = t /\ j <= c
  BY <1>8
<1>10. PICK x \in LiveArrays : x = arrayTypeMap[c][2]
  BY <1>8 DEF MapOK
<1>11. PICK y \in LiveArrays : y = arrayTypeMap[j][2] /\ sym[y].type = t
  BY <1>9 DEF MapOK
<1>12. sym[y].type <= sym[x].type
  <2>1. CASE j = c
    BY <1>1, <1>10, <1>11, <2>1
  <2>2. CASE j < c
    <3>1. Array_lt(sym[y], sym[x])
      BY <1>8, <1>10, <1>11, <2>2 DEF MapOK
    <3> QED
      BY <1>1, <3>1, ArrayLess
  <2> QED
    BY <1>3, <1>8, <1>9, <2>1, <2>2
<1>13. sym[x].type <= sym[a].type
  <2>1. CASE c = k
    BY <1>1, <1>2, <1>10, <2>1
  <2>2. CASE c < k
    <3>1. Array_lt(sym[x], sym[a])
      BY <1>2, <1>8, <1>10, <2>2 DEF MapOK
    <3> QED
      BY <1>1, <3>1, ArrayLess
  <2> QED
    BY <1>3, <1>7, <1>8, <2>1, <2>2
<1>14. sym[x].type = sym[a].type /\ sym[x].length = sym[a].length
  BY <1>1, <1>8, <1>10, <1>11, <1>12, <1>13
<1>15. x = a
  BY <1>14 DEF MapOK, Array_eq
<1>16. findArrayByTypeID(sym[a].type, sym[a].length) = arrayTypeMap[c][2]
  <2>1. hits # {}
    BY <1>4
  <2> QED
    BY <2>1 DEF findArrayByTypeID, hits, c
<1> QED
  BY <1>10, <1>15, <1>16

\* ... and then findArrayByTypeID finds every live array but the first in sort
\* order, and finds no other one for its element type and length.
THEOREM ArraysStayFindable == CleanupSpec => []ArraysFindable
<1>1. CleanupInv /\ MapInv => ArraysFindable
  <2> SUFFICES ASSUME CleanupInv, MapInv, JustCleaned, NEW a \in LiveArrays, NEW b \in LiveArrays,
                      Array_lt(sym[b], sym[a])
               PROVE  findArrayByTypeID(sym[a].type, sym[a].length) = a
    BY DEF ArraysFindable, LiveArrays
  <2>1. MapOK
    BY DEF MapInv
  <2> QED
    BY <2>1, FoundArray
<1> QED
  BY <1>1, CleanupInvariant, MapInvariant, PTL

=============================================================================
