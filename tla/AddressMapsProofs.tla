------------------------- MODULE AddressMapsProofs ---------------------------
(***************************************************************************)
(* For every set of names and addresses: duplicate names lose nothing, the *)
(* reverse maps do not lie, and the searches by address and over all       *)
(* sources find what there is.                                             *)
(***************************************************************************)
EXTENDS AddressMaps, InductionTheorems

\* A reverse map names only what its map holds, with the right address except
\* for the names of stale.
RevOf(rev, map, stale) ==
    \A a \in DOMAIN rev : /\ rev[a] \in DOMAIN map
                          /\ rev[a] \notin stale => map[rev[a]] = a

\* The inductive invariant.  ReverseSound alone is not inductive: find gives
\* 0 for a name that is not there, so a reverse entry for address 0 could name
\* anything.
AddressInv ==
    /\ AddressTypeOK
    /\ AddedReachable
    /\ RevOf(elfSymbolRevMap, elfSymbolMap, replaced)
    /\ RevOf(functionSymbolRevMap, functionSymbolMap, {})

\* x is found in map by trying its name with a growing suffix.
Reached(x, map) ==
    \E k \in x[2][2]..MaxSuffix :
        /\ \A j \in x[2][2]..k : <<x[2][1], j>> \in DOMAIN map
        /\ map[<<x[2][1], k>>] = x[3]

\* AddedReachable in terms of Reached.
LEMMA AddedReachableIs ==
    ASSUME AddressTypeOK
    PROVE  AddedReachable <=>
               \A x \in added : IF x[1] = "elf" THEN Reached(x, elfSymbolMap)
                                ELSE Reached(x, functionSymbolMap)
BY DEF AddedReachable, Reached

\* Put keeps the type of a map.
LEMMA PutType ==
    ASSUME NEW S, NEW T, NEW map, MapTo(S, map, T), NEW k \in S, NEW v \in T
    PROVE  /\ MapTo(S, Put(map, k, v), T)
           /\ DOMAIN Put(map, k, v) = DOMAIN map \cup {k}
           /\ Put(map, k, v)[k] = v
           /\ \A x \in DOMAIN map : x # k => Put(map, k, v)[x] = map[x]
BY DEF MapTo, Put

\* Storing an address under the first suitable longer name makes it reached.
LEMMA PutReaches ==
    ASSUME NEW kind, NEW n \in Names, NEW a, NEW map, NEW m \in Names,
           m[1] = n[1], m[2] >= n[2],
           \A k \in n[2]..(m[2] - 1) : <<n[1], k>> \in DOMAIN map
    PROVE  Reached(<<kind, n, a>>, Put(map, m, a))
<1> DEFINE x == <<kind, n, a>>
<1>1. /\ x[2][1] = n[1] /\ x[2][2] = n[2] /\ x[3] = a
  OBVIOUS
<1>2. /\ n[2] \in Nat /\ m[2] \in Nat /\ MaxSuffix \in Nat /\ m[2] <= MaxSuffix
      /\ m = <<n[1], m[2]>>
  BY AddressAssumption DEF Names
<1>3. m[2] \in n[2]..MaxSuffix
  BY <1>2
<1>4. \A j \in n[2]..m[2] : <<n[1], j>> \in DOMAIN Put(map, m, a)
  <2> TAKE j \in n[2]..m[2]
  <2>1. j = m[2] \/ j \in n[2]..(m[2] - 1)
    BY <1>2
  <2> QED  BY <2>1, <1>2 DEF Put
<1>5. Put(map, m, a)[<<n[1], m[2]>>] = a
  BY <1>2 DEF Put
<1> QED  BY <1>1, <1>3, <1>4, <1>5 DEF Reached

\* What was reached stays so when an entry is stored, unless that entry held
\* the address under a name the search comes by.
LEMMA PutKeeps ==
    ASSUME NEW x, x[2] \in Names, NEW map, NEW m, NEW a, Reached(x, map),
           m \in DOMAIN map /\ map[m] # a /\ map[m] = x[3] => x[2] \notin UpTo(m)
    PROVE  Reached(x, Put(map, m, a))
<1>1. PICK k \in x[2][2]..MaxSuffix :
          /\ \A j \in x[2][2]..k : <<x[2][1], j>> \in DOMAIN map
          /\ map[<<x[2][1], k>>] = x[3]
  BY DEF Reached
<1> DEFINE y == <<x[2][1], k>>
<1>2. /\ x[2][2] \in Nat /\ MaxSuffix \in Nat /\ x[2][2] <= k /\ k \in Int
  BY AddressAssumption DEF Names
<1>3. y \in DOMAIN map
  BY <1>1, <1>2
<1>4. Put(map, m, a)[y] = x[3]
  <2>1. CASE y # m
    BY <2>1, <1>1, <1>3 DEF Put
  <2>2. CASE y = m /\ map[m] = a
    BY <2>2, <1>1, <1>3 DEF Put
  <2>3. CASE y = m /\ map[m] # a
    <3>1. x[2] \in UpTo(m)
      BY <2>3, <1>2 DEF UpTo, Names
    <3> QED  BY <3>1, <2>3, <1>1, <1>3
  <2> QED  BY <2>1, <2>2, <2>3
<1>5. \A j \in x[2][2]..k : <<x[2][1], j>> \in DOMAIN Put(map, m, a)
  BY <1>1 DEF Put
<1> QED  BY <1>1, <1>4, <1>5 DEF Reached

\* Storing under m keeps a reverse map right up to the overwritten name.
LEMMA PutRev ==
    ASSUME NEW rev, NEW map, NEW stale, NEW stale2, NEW m, NEW a,
           RevOf(rev, map, stale), stale \subseteq stale2,
           m \in DOMAIN map /\ map[m] # a => m \in stale2
    PROVE  RevOf(rev, Put(map, m, a), stale2)
BY DEF RevOf, Put

\* The invariant implies that the reverse maps do not lie.
LEMMA InvReverseSound ==
    AddressInv => ReverseSound
BY DEF AddressInv, ReverseSound, RevOf, getElfSymbolName, getFunctionName,
       getElfSymbolAddress, getFunctionAddress, find

\* The maps start out empty.
LEMMA InitInv ==
    Init => AddressInv
BY DEF Init, AddressInv, AddressTypeOK, AddedReachable, RevOf, MapTo, EmptyMap

\* What the search for a free name with growing suffixes returns.
LEMMA FirstSuffixIs ==
    ASSUME NEW n \in Names, NEW stop \in SUBSET Names, NEW m \in FirstSuffix(n, stop)
    PROVE  /\ m \in Names /\ m \in stop /\ m[1] = n[1] /\ m[2] >= n[2]
           /\ \A k \in n[2]..(m[2] - 1) : <<n[1], k>> \in Names /\ <<n[1], k>> \notin stop
<1>1. /\ m \in Names /\ m \in stop /\ m[1] = n[1] /\ m[2] >= n[2]
      /\ \A k \in n[2]..(m[2] - 1) : <<n[1], k>> \notin stop
  BY DEF FirstSuffix
<1>2. n[1] \in Stems /\ n[2] \in 0..MaxSuffix /\ m[2] \in 0..MaxSuffix
  BY <1>1 DEF Names
<1>3. \A k \in n[2]..(m[2] - 1) : k \in 0..MaxSuffix
  BY <1>2, AddressAssumption
<1>4. \A k \in n[2]..(m[2] - 1) : <<n[1], k>> \in Names
  BY <1>2, <1>3 DEF Names
<1> QED  BY <1>1, <1>4

\* addSymbolAddress: the chain of names up to the new entry is complete, and
\* what it overwrites leaves added and enters replaced.
LEMMA addSymbolAddressInv ==
    ASSUME AddressInv, NEW n \in Names, NEW a \in Addresses, NEW replace \in BOOLEAN,
           addSymbolAddress(n, a, replace)
    PROVE  AddressInv'
<1> DEFINE done == {x \in Names : \/ replace
                                  \/ x \notin DOMAIN elfSymbolMap
                                  \/ elfSymbolMap[x] = a}
<1>1. PICK m \in FirstSuffix(n, done) :
          LET same == m \in DOMAIN elfSymbolMap /\ elfSymbolMap[m] = a
              lost == IF m \in DOMAIN elfSymbolMap /\ ~same
                      THEN {<<"elf", x, elfSymbolMap[m]>> : x \in UpTo(m)} ELSE {}
          IN  /\ elfSymbolMap' = Put(elfSymbolMap, m, a)
              /\ added' = (added \ lost) \cup {<<"elf", n, a>>}
              /\ replaced' = IF lost = {} THEN replaced ELSE replaced \cup {m}
              /\ UNCHANGED <<sysmapVars, functionSymbolMap, revVars, dwarfAddress>>
  BY DEF addSymbolAddress
<1> DEFINE same == m \in DOMAIN elfSymbolMap /\ elfSymbolMap[m] = a
           lost == IF m \in DOMAIN elfSymbolMap /\ ~same
                   THEN {<<"elf", x, elfSymbolMap[m]>> : x \in UpTo(m)} ELSE {}
<1>2. /\ m \in Names /\ m[1] = n[1] /\ m[2] >= n[2]
      /\ \A k \in n[2]..(m[2] - 1) : <<n[1], k>> \in DOMAIN elfSymbolMap
  <2>1. done \in SUBSET Names
    OBVIOUS
  <2> QED  BY <2>1, FirstSuffixIs
<1> HIDE DEF done
<1>3. /\ elfSymbolMap' = Put(elfSymbolMap, m, a)
      /\ added' = (added \ lost) \cup {<<"elf", n, a>>}
      /\ replaced' = IF lost = {} THEN replaced ELSE replaced \cup {m}
      /\ UNCHANGED <<sysMapSymbols, sysMapSymbolsPrivate, published, functionSymbolMap,
                     elfSymbolRevMap, functionSymbolRevMap, dwarfAddress>>
  BY <1>1 DEF sysmapVars, revVars
<1>4. m \in DOMAIN elfSymbolMap /\ elfSymbolMap[m] # a => m \in replaced'
  <2> SUFFICES ASSUME m \in DOMAIN elfSymbolMap, elfSymbolMap[m] # a PROVE m \in replaced'
    OBVIOUS
  <2>1. m \in UpTo(m)
    BY <1>2 DEF UpTo, Names
  <2>2. <<"elf", m, elfSymbolMap[m]>> \in lost
    BY <2>1
  <2> QED  BY <2>2, <1>3
<1>5. replaced \subseteq replaced'
  BY <1>3
<1>6. AddressTypeOK'
  <2>1. MapTo(Names, elfSymbolMap, Addresses)
    BY DEF AddressInv, AddressTypeOK
  <2>2. MapTo(Names, elfSymbolMap', Addresses) /\ DOMAIN elfSymbolMap' = DOMAIN elfSymbolMap \cup {m}
    <3>1. /\ MapTo(Names, Put(elfSymbolMap, m, a), Addresses)
          /\ DOMAIN Put(elfSymbolMap, m, a) = DOMAIN elfSymbolMap \cup {m}
      BY <2>1, <1>2, PutType
    <3> QED  BY <3>1, <1>3
  <2>3. replaced' \subseteq DOMAIN elfSymbolMap'
    BY <2>2, <1>3 DEF AddressInv, AddressTypeOK
  <2>4. <<"elf", n, a>> \in {"elf", "function"} \X Names \X Addresses
    OBVIOUS
  <2>5. added' \subseteq {"elf", "function"} \X Names \X Addresses
    BY <2>4, <1>3 DEF AddressInv, AddressTypeOK
  <2> QED  BY <2>2, <2>3, <2>5, <1>3 DEF AddressInv, AddressTypeOK, MapTo
<1>7. ASSUME NEW x \in added'
      PROVE  IF x[1] = "elf" THEN Reached(x, elfSymbolMap') ELSE Reached(x, functionSymbolMap')
  <2>1. CASE x = <<"elf", n, a>>
    <3>1. Reached(<<"elf", n, a>>, Put(elfSymbolMap, m, a))
      BY <1>2, PutReaches
    <3> QED  BY <3>1, <2>1, <1>3
  <2>2. CASE x \in added /\ x \notin lost
    <3>1. IF x[1] = "elf" THEN Reached(x, elfSymbolMap) ELSE Reached(x, functionSymbolMap)
      BY <2>2, AddedReachableIs DEF AddressInv
    <3>2. x \in {"elf", "function"} \X Names \X Addresses
      BY <2>2 DEF AddressInv, AddressTypeOK
    <3>3. x[2] \in Names /\ x = <<x[1], x[2], x[3]>>
      BY <3>2
    <3>4. CASE x[1] = "elf"
      <4>1. m \in DOMAIN elfSymbolMap /\ elfSymbolMap[m] # a /\ elfSymbolMap[m] = x[3]
                => x[2] \notin UpTo(m)
        BY <2>2, <3>3, <3>4
      <4>2. Reached(x, Put(elfSymbolMap, m, a))
        BY <4>1, <3>1, <3>3, <3>4, PutKeeps
      <4> QED  BY <4>2, <3>4, <1>3
    <3>5. CASE x[1] # "elf"
      BY <3>1, <3>5, <1>3
    <3> QED  BY <3>4, <3>5
  <2> QED  BY <2>1, <2>2, <1>3
<1>8. AddedReachable'
  BY <1>7 DEF AddedReachable, Reached
<1>9. RevOf(elfSymbolRevMap, Put(elfSymbolMap, m, a), replaced')
  BY <1>4, <1>5, PutRev DEF AddressInv
<1> QED  BY <1>3, <1>6, <1>8, <1>9 DEF AddressInv

\* addFunctionAddress: the new name was free, so nothing is overwritten.
LEMMA addFunctionAddressInv ==
    ASSUME AddressInv, NEW n \in Names, NEW a \in Addresses, addFunctionAddress(n, a)
    PROVE  AddressInv'
<1> DEFINE free == Names \ DOMAIN functionSymbolMap
<1>1. PICK m \in FirstSuffix(n, free) : functionSymbolMap' = Put(functionSymbolMap, m, a)
  BY DEF addFunctionAddress
<1>2. /\ m \in Names /\ m[1] = n[1] /\ m[2] >= n[2] /\ m \notin DOMAIN functionSymbolMap
      /\ \A k \in n[2]..(m[2] - 1) : <<n[1], k>> \in DOMAIN functionSymbolMap
  <2>1. free \in SUBSET Names
    OBVIOUS
  <2> QED  BY <2>1, FirstSuffixIs
<1>3. /\ added' = added \cup {<<"function", n, a>>}
      /\ UNCHANGED <<sysMapSymbols, sysMapSymbolsPrivate, published, elfSymbolMap, replaced,
                     elfSymbolRevMap, functionSymbolRevMap, dwarfAddress>>
  BY DEF addFunctionAddress, sysmapVars, elfVars, revVars
<1>4. AddressTypeOK'
  <2>1. MapTo(Names, functionSymbolMap, Addresses)
    BY DEF AddressInv, AddressTypeOK
  <2>2. MapTo(Names, functionSymbolMap', Addresses)
    BY <2>1, <1>1, <1>2, PutType
  <2>3. <<"function", n, a>> \in {"elf", "function"} \X Names \X Addresses
    OBVIOUS
  <2>4. added' \subseteq {"elf", "function"} \X Names \X Addresses
    BY <2>3, <1>3 DEF AddressInv, AddressTypeOK
  <2> QED  BY <2>2, <2>4, <1>3 DEF AddressInv, AddressTypeOK, MapTo
<1>5. ASSUME NEW x \in added'
      PROVE  IF x[1] = "elf" THEN Reached(x, elfSymbolMap') ELSE Reached(x, functionSymbolMap')
  <2>1. CASE x = <<"function", n, a>>
    <3>1. Reached(<<"function", n, a>>, Put(functionSymbolMap, m, a))
      BY <1>2, PutReaches
    <3> QED  BY <3>1, <2>1, <1>1
  <2>2. CASE x \in added
    <3>1. IF x[1] = "elf" THEN Reached(x, elfSymbolMap) ELSE Reached(x, functionSymbolMap)
      BY <2>2, AddedReachableIs DEF AddressInv
    <3>2. x[2] \in Names
      BY <2>2 DEF AddressInv, AddressTypeOK
    <3>3. CASE x[1] = "elf"
      BY <3>1, <3>3, <1>3
    <3>4. CASE x[1] # "elf"
      <4>1. Reached(x, Put(functionSymbolMap, m, a))
        BY <3>1, <3>2, <3>4, <1>2, PutKeeps
      <4> QED  BY <4>1, <3>4, <1>1
    <3> QED  BY <3>3, <3>4
  <2> QED  BY <2>1, <2>2, <1>3
<1>6. AddedReachable'
  BY <1>5 DEF AddedReachable, Reached
<1>7. RevOf(functionSymbolRevMap, Put(functionSymbolMap, m, a), {})
  BY <1>2, PutRev DEF AddressInv
<1> QED  BY <1>1, <1>3, <1>4, <1>6, <1>7 DEF AddressInv

\* updateRevMaps: whatever the iteration order, the reverse maps are right.
LEMMA updateRevMapsInv ==
    ASSUME AddressInv, updateRevMaps
    PROVE  AddressInv'
<1>1. ASSUME NEW map, MapTo(Names, map, Addresses), NEW r \in Reverses(map)
      PROVE  RevOf(r, map, {}) /\ MapTo(Addresses, r, Names)
  BY <1>1 DEF Reverses, RevOf, MapTo
<1>2. /\ UNCHANGED <<sysMapSymbols, sysMapSymbolsPrivate, published, elfSymbolMap,
                     functionSymbolMap, dwarfAddress, added>>
      /\ replaced' = {}
      /\ elfSymbolRevMap' \in Reverses(elfSymbolMap)
      /\ functionSymbolRevMap' \in Reverses(functionSymbolMap)
  BY DEF updateRevMaps, sysmapVars
<1>3. /\ RevOf(elfSymbolRevMap', elfSymbolMap, {}) /\ MapTo(Addresses, elfSymbolRevMap', Names)
      /\ RevOf(functionSymbolRevMap', functionSymbolMap, {})
      /\ MapTo(Addresses, functionSymbolRevMap', Names)
  BY <1>1, <1>2 DEF AddressInv, AddressTypeOK
<1>4. AddressTypeOK'
  BY <1>2, <1>3 DEF AddressInv, AddressTypeOK, MapTo
<1>5. AddedReachable'
  BY <1>2 DEF AddressInv, AddedReachable
<1> QED  BY <1>2, <1>3, <1>4, <1>5 DEF AddressInv

\* The other operations do not touch the ELF and function maps.
LEMMA OtherMapsInv ==
    ASSUME AddressInv, NEW n \in Names, NEW a \in Addresses,
           \/ \E priv \in BOOLEAN : addSysmapSymbol(n, a, priv)
           \/ \E kind \in {"function", "variable"} : parseDwarf(n, kind, a)
           \/ setLocation(n, a)
    PROVE  AddressInv'
<1>1. UNCHANGED <<elfSymbolMap, replaced, functionSymbolMap,
                  elfSymbolRevMap, functionSymbolRevMap, added>>
  BY DEF addSysmapSymbol, parseDwarf, setLocation, elfVars, revVars, sysmapVars
<1>2. AddressTypeOK'
  <2>1. ASSUME NEW priv \in BOOLEAN, addSysmapSymbol(n, a, priv) PROVE AddressTypeOK'
    <3>1. \A map : MapTo(Names, map, Addresses) => MapTo(Names, Put(map, n, a), Addresses)
      BY PutType
    <3>2. /\ dwarfAddress' = dwarfAddress
          /\ MapTo(Names, sysMapSymbols', Addresses)
          /\ MapTo(Names, sysMapSymbolsPrivate', Addresses)
          /\ published' \subseteq Names \X Addresses
      BY <2>1, <3>1 DEF addSysmapSymbol, AddressInv, AddressTypeOK
    <3> QED  BY <3>2, <1>1 DEF AddressInv, AddressTypeOK, MapTo
  <2>2. ASSUME NEW kind \in {"function", "variable"}, parseDwarf(n, kind, a) PROVE AddressTypeOK'
    BY <2>2, <1>1 DEF parseDwarf, AddressInv, AddressTypeOK, MapTo, sysmapVars
  <2>3. ASSUME setLocation(n, a) PROVE AddressTypeOK'
    BY <2>3, <1>1 DEF setLocation, AddressInv, AddressTypeOK, MapTo, sysmapVars
  <2> QED  BY <2>1, <2>2, <2>3
<1>3. AddedReachable'
  BY <1>1 DEF AddressInv, AddedReachable
<1> QED  BY <1>1, <1>2, <1>3 DEF AddressInv

\* Every step keeps the invariant.
LEMMA AddressInvStep ==
    AddressInv /\ [Next]_vars => AddressInv'
<1> SUFFICES ASSUME AddressInv, [Next]_vars PROVE AddressInv'
  OBVIOUS
<1>1. ASSUME NEW n \in Names, NEW a \in Addresses, NEW replace \in BOOLEAN,
             addSymbolAddress(n, a, replace)
      PROVE  AddressInv'
  BY <1>1, addSymbolAddressInv
<1>2. ASSUME NEW n \in Names, NEW a \in Addresses, addFunctionAddress(n, a)
      PROVE  AddressInv'
  BY <1>2, addFunctionAddressInv
<1>3. ASSUME NEW n \in Names, NEW a \in Addresses,
             \/ \E priv \in BOOLEAN : addSysmapSymbol(n, a, priv)
             \/ \E kind \in {"function", "variable"} : parseDwarf(n, kind, a)
             \/ setLocation(n, a)
      PROVE  AddressInv'
  BY <1>3, OtherMapsInv
<1>4. CASE updateRevMaps
  BY <1>4, updateRevMapsInv
<1>5. CASE UNCHANGED vars
  BY <1>5 DEF vars, sysmapVars, elfVars, revVars, AddressInv, AddressTypeOK, AddedReachable, RevOf, MapTo
<1>6. \A k \in {"elf", "function", "sysmap", "dwarf"} : \A x \in Used[k] :
          x[1] \in Names /\ x[2] \in Addresses
  BY AddressAssumption
<1> QED  BY <1>1, <1>2, <1>3, <1>4, <1>5, <1>6 DEF Next

\* The invariant holds in every state.
LEMMA AddressInvariant ==
    Spec => []AddressInv
BY InitInv, AddressInvStep, PTL DEF Spec

\* However often a name is added to the ELF or the function map, every address
\* is found under the name with a gap-free run of underscores, until
\* addSymbolAddress is told to replace it.
THEOREM AddedStaysReachable ==
    Spec => []AddedReachable
<1>1. AddressInv => AddedReachable
  BY DEF AddressInv
<1> QED  BY <1>1, AddressInvariant, PTL

\* getElfSymbolName and getFunctionName never name a symbol that has another
\* address, unless that symbol was replaced since updateRevMaps.
THEOREM ReverseMapsSound ==
    Spec => []ReverseSound
BY InvReverseSound, AddressInvariant, PTL

-----------------------------------------------------------------------------
(* The searches. *)

\* A non-empty set of naturals that is bounded has a greatest element.
LEMMA GreatestExists ==
    ASSUME NEW S, S \subseteq Nat, S # {}, NEW a \in Nat, \A x \in S : x <= a
    PROVE  \E x \in S : \A y \in S : y <= x
<1> DEFINE D == {z \in Nat : \E x \in S : z = a - x}
<1>1. D \subseteq Nat /\ D # {}
  <2>1. PICK x \in S : TRUE
    OBVIOUS
  <2>2. a - x \in D
    BY <2>1
  <2> QED
    BY <2>2
<1>2. PICK z \in D : \A y \in D : z <= y
  BY <1>1, LeastNatural
<1>3. PICK x \in S : z = a - x
  BY <1>2
<1>4. ASSUME NEW y \in S
      PROVE  y <= x
  <2>1. a - y \in D
    OBVIOUS
  <2>2. z <= a - y
    BY <1>2, <2>1
  <2> QED
    BY <1>3, <2>2
<1> QED
  BY <1>4

\* upper_bound and one step back give the last symbol at or below the address.
LEMMA ContainingIs ==
    ASSUME AddressTypeOK, NEW a \in Addresses, NEW l \in DOMAIN elfSymbolRevMap, l > a
    PROVE  LET s == getContainingSymbol(a)
           IN  IF s = 0 THEN \A k \in DOMAIN elfSymbolRevMap : k > a \/ k = 0
               ELSE isSymbol(s) /\ s <= a /\ \A k \in DOMAIN elfSymbolRevMap : ~(s < k /\ k <= a)
<1> DEFINE iter == {k \in DOMAIN elfSymbolRevMap : k > a}
           below == {k \in DOMAIN elfSymbolRevMap : k <= a}
           last == CHOOSE k \in below : \A j \in below : j <= k
<1>1. DOMAIN elfSymbolRevMap \subseteq Nat /\ a \in Nat
  BY AddressAssumption DEF AddressTypeOK, MapTo
<1>2. iter # {}
  OBVIOUS
<1>3. getContainingSymbol(a) = IF below # {} THEN last ELSE 0
  BY <1>2 DEF getContainingSymbol
<1>4. CASE below = {}
  <2>1. \A k \in DOMAIN elfSymbolRevMap : k > a
    BY <1>1, <1>4
  <2> QED
    BY <1>3, <1>4, <2>1
<1>5. CASE below # {}
  <2>1. \E k \in below : \A j \in below : j <= k
    BY <1>1, <1>5, GreatestExists
  <2>2. last \in below /\ \A j \in below : j <= last
    BY <2>1
  <2>3. getContainingSymbol(a) = last
    BY <1>3, <1>5
  <2> HIDE DEF last
  <2>4. last \in DOMAIN elfSymbolRevMap /\ last \in Nat /\ last <= a
    BY <1>1, <2>2
  <2>5. \A k \in DOMAIN elfSymbolRevMap : k <= a => k <= last
    BY <2>2
  <2>6. last = 0 => \A k \in DOMAIN elfSymbolRevMap : k > a \/ k = 0
    BY <1>1, <2>5
  <2>7. \A k \in DOMAIN elfSymbolRevMap : ~(last < k /\ k <= a)
    BY <1>1, <2>4, <2>5
  <2> QED
    BY <2>3, <2>4, <2>6, <2>7 DEF isSymbol
<1> QED
  BY <1>4, <1>5

\* For every set of symbols, getContainingSymbol never skips one and never
\* returns one above the address.
THEOREM ContainingCorrect == Spec => []ContainingBelow
<1>1. AddressInv => ContainingBelow
  BY ContainingIs DEF AddressInv, ContainingBelow
<1> QED
  BY <1>1, AddressInvariant, PTL

\* A step that overwrites nothing of a name takes no source's address away.
LEMMA SourcesKept ==
    ASSUME AddressInv, [Next]_vars, NEW n \in Names, ~Overwrites(n)
    PROVE  \A i \in 1..5 : SourceAddress(n)[i][2] # 0
               => SourceAddress(n)'[i][2] = SourceAddress(n)[i][2]
<1> DEFINE Kept(map, map2) == find(map, n) # 0 => find(map2, n) = find(map, n)
<1> SUFFICES /\ Kept(sysMapSymbols, sysMapSymbols')
             /\ Kept(elfSymbolMap, elfSymbolMap')
             /\ Kept(functionSymbolMap, functionSymbolMap')
             /\ \A kind \in {"function", "variable"} :
                   dwarfAddress[n][kind] # 0 => dwarfAddress'[n][kind] = dwarfAddress[n][kind]
  BY DEF SourceAddress, getSystemMapAddress, getElfSymbolAddress, getFunctionAddress, find
<1>1. \A k \in {"elf", "function", "sysmap", "dwarf"} : \A x \in Used[k] :
          x[1] \in Names /\ x[2] \in Addresses
  BY AddressAssumption
<1>2. \A map, m, a : m # n \/ n \notin DOMAIN map \/ map[n] = a => Kept(map, Put(map, m, a))
  BY DEF find, Put
<1>3. ASSUME NEW x \in Used["elf"], NEW replace \in BOOLEAN, addSymbolAddress(x[1], x[2], replace)
      PROVE  Kept(elfSymbolMap, elfSymbolMap')
  <2> DEFINE done == {m \in Names : \/ replace
                                    \/ m \notin DOMAIN elfSymbolMap
                                    \/ elfSymbolMap[m] = x[2]}
  <2>1. PICK m \in FirstSuffix(x[1], done) : elfSymbolMap' = Put(elfSymbolMap, m, x[2])
    BY <1>3 DEF addSymbolAddress
  <2>2. m \in done
    BY DEF FirstSuffix
  <2>3. CASE m # n
    BY <1>2, <2>1, <2>3
  <2>4. CASE m = n /\ ~replace
    BY <1>2, <2>1, <2>2, <2>4
  <2>5. CASE m = n /\ replace
    <3>1. x[1] \in Names /\ m \in Names
      BY <1>1, <2>2
    <3>2. x[1] \in done
      BY <2>5, <3>1
    <3>3. m[1] = x[1][1] /\ m[2] >= x[1][2] /\ \A k \in x[1][2]..(m[2] - 1) : <<x[1][1], k>> \notin done
      BY DEF FirstSuffix
    <3>4. x[1] = <<x[1][1], x[1][2]>> /\ m = <<m[1], m[2]>> /\ x[1][2] \in Nat /\ m[2] \in Nat
      BY <3>1 DEF Names
    <3>5. m[2] = x[1][2]
      BY <3>2, <3>3, <3>4
    <3>6. x[1] = n
      BY <2>5, <3>3, <3>4, <3>5
    <3>7. n \notin DOMAIN elfSymbolMap
      BY <1>3, <2>5, <3>6 DEF Overwrites
    <3> QED
      BY <1>2, <2>1, <3>7
  <2> QED
    BY <2>3, <2>4, <2>5
<1>4. ASSUME NEW x \in Used["function"], addFunctionAddress(x[1], x[2])
      PROVE  Kept(functionSymbolMap, functionSymbolMap')
  <2>1. PICK m \in FirstSuffix(x[1], Names \ DOMAIN functionSymbolMap) :
            functionSymbolMap' = Put(functionSymbolMap, m, x[2])
    BY <1>4 DEF addFunctionAddress
  <2>2. m \notin DOMAIN functionSymbolMap
    BY DEF FirstSuffix
  <2> QED
    BY <1>2, <2>1, <2>2
<1>5. ASSUME NEW x \in Used["sysmap"], NEW priv \in BOOLEAN, addSysmapSymbol(x[1], x[2], priv)
      PROVE  Kept(sysMapSymbols, sysMapSymbols')
  <2>1. CASE ~priv
    BY <1>5, <2>1 DEF addSysmapSymbol
  <2>2. CASE priv
    <3>1. sysMapSymbols' = Put(sysMapSymbols, x[1], x[2])
      BY <1>5, <2>2 DEF addSysmapSymbol
    <3>2. x[1] # n \/ n \notin DOMAIN sysMapSymbols
      BY <1>5, <2>2 DEF Overwrites
    <3> QED
      BY <1>2, <3>1, <3>2
  <2> QED
    BY <2>1, <2>2
<1>6. ASSUME NEW x \in Used["dwarf"], NEW kind \in {"function", "variable"},
             parseDwarf(x[1], kind, x[2])
      PROVE  \A k \in {"function", "variable"} :
                 dwarfAddress[n][k] # 0 => dwarfAddress'[n][k] = dwarfAddress[n][k]
  BY <1>6 DEF parseDwarf, AddressInv, AddressTypeOK
<1>7. ASSUME NEW x \in Used["dwarf"], setLocation(x[1], x[2])
      PROVE  \A k \in {"function", "variable"} :
                 dwarfAddress[n][k] # 0 => dwarfAddress'[n][k] = dwarfAddress[n][k]
  <2>1. x[1] = n => dwarfAddress[n].variable = 0
    BY <1>7 DEF Overwrites
  <2> QED
    BY <1>7, <2>1 DEF setLocation, AddressInv, AddressTypeOK
<1> HIDE DEF Kept
<1>8. \A map : Kept(map, map)
  BY DEF Kept
<1> QED
  BY <1>3, <1>4, <1>5, <1>6, <1>7, <1>8
     DEF Next, vars, addSymbolAddress, addFunctionAddress, addSysmapSymbol, parseDwarf,
         setLocation, updateRevMaps, sysmapVars, elfVars, revVars

\* The first source that has an address answers.
LEMMA FirstAnswers ==
    ASSUME NEW n \in Names, NEW src \in SUBSET Sources, getSymbolAddress(n, src) # 0
    PROVE  \E i \in 1..5 :
               /\ SourceAddress(n)[i][1] \in src /\ SourceAddress(n)[i][2] # 0
               /\ getSymbolAddress(n, src) = SourceAddress(n)[i][2]
               /\ \A j \in 1..5 : SourceAddress(n)[j][1] \in src /\ SourceAddress(n)[j][2] # 0 => i <= j
<1> DEFINE source == SourceAddress(n)
           hits == {k \in 1..5 : source[k][1] \in src /\ source[k][2] # 0}
           first == CHOOSE i \in hits : \A j \in hits : i <= j
<1>1. hits # {} /\ getSymbolAddress(n, src) = source[first][2]
  BY DEF getSymbolAddress
<1>2. hits \subseteq Nat
  OBVIOUS
<1>3. \E i \in hits : \A j \in hits : i <= j
  BY <1>1, <1>2, LeastNatural
<1>4. first \in hits /\ \A j \in hits : first <= j
  BY <1>3
<1> HIDE DEF first
<1> QED
  BY <1>1, <1>4

\* Without a call that overwrites it, what getSymbolAddress finds for a name is
\* found again, or what a source has that did not know the name before; an entry
\* with address 0 hides nothing.
THEOREM AnswersStay == Spec => AnswersKept
<1> DEFINE Kept(n, src) ==
        getSymbolAddress(n, src) # 0 /\ getSymbolAddress(n, src)' # getSymbolAddress(n, src)
            => /\ getSymbolAddress(n, src)' # 0
               /\ \E i \in 1..5 : /\ SourceAddress(n)[i][1] \in src
                                 /\ SourceAddress(n)[i][2] = 0
                                 /\ SourceAddress(n)'[i][2] = getSymbolAddress(n, src)'
<1>1. ASSUME AddressInv, [Next]_vars, NEW n \in Names, ~Overwrites(n), NEW src \in SUBSET Sources
      PROVE  Kept(n, src)
  <2> SUFFICES ASSUME getSymbolAddress(n, src) # 0,
                      getSymbolAddress(n, src)' # getSymbolAddress(n, src)
               PROVE  /\ getSymbolAddress(n, src)' # 0
                      /\ \E i \in 1..5 : /\ SourceAddress(n)[i][1] \in src
                                        /\ SourceAddress(n)[i][2] = 0
                                        /\ SourceAddress(n)'[i][2] = getSymbolAddress(n, src)'
    OBVIOUS
  <2> DEFINE old == SourceAddress(n)
             new == SourceAddress(n)'
  <2>1. \A i \in 1..5 : old[i][2] # 0 => new[i][2] = old[i][2]
    BY <1>1, SourcesKept
  <2>2. \A i \in 1..5 : new[i][1] = old[i][1]
    BY DEF SourceAddress
  <2>3. PICK i \in 1..5 : /\ old[i][1] \in src /\ old[i][2] # 0
                          /\ getSymbolAddress(n, src) = old[i][2]
                          /\ \A j \in 1..5 : old[j][1] \in src /\ old[j][2] # 0 => i <= j
    BY FirstAnswers
  <2>4. \E k \in 1..5 : /\ new[k][1] \in src /\ new[k][2] # 0
                        /\ getSymbolAddress(n, src)' = new[k][2]
                        /\ \A j \in 1..5 : new[j][1] \in src /\ new[j][2] # 0 => k <= j
    <3> DEFINE hits == {k \in 1..5 : new[k][1] \in src /\ new[k][2] # 0}
               first == CHOOSE k \in hits : \A j \in hits : k <= j
    <3>1. i \in hits /\ hits \subseteq Nat
      BY <2>1, <2>2, <2>3
    <3>2. \E k \in hits : \A j \in hits : k <= j
      BY <3>1, LeastNatural
    <3>3. first \in hits /\ \A j \in hits : first <= j
      BY <3>2
    <3>4. getSymbolAddress(n, src)' = new[first][2]
      BY <3>1 DEF getSymbolAddress
    <3> HIDE DEF first
    <3> QED
      BY <3>3, <3>4
  <2>5. PICK k \in 1..5 : /\ new[k][1] \in src /\ new[k][2] # 0
                          /\ getSymbolAddress(n, src)' = new[k][2]
                          /\ \A j \in 1..5 : new[j][1] \in src /\ new[j][2] # 0 => k <= j
    BY <2>4
  <2>6. old[k][2] = 0
    <3> SUFFICES ASSUME old[k][2] # 0 PROVE FALSE
      OBVIOUS
    <3>1. i <= k /\ k <= i
      BY <2>1, <2>2, <2>3, <2>5
    <3>2. i = k
      BY <3>1
    <3> QED
      BY <2>1, <2>3, <2>5, <3>2
  <2> QED
    BY <2>2, <2>5, <2>6
<1>2. AddressInv /\ [Next]_vars
          => [\A n \in Names : Entries(n)' # Entries(n) /\ ~Overwrites(n) =>
                 \A src \in SUBSET Sources :
                     LET before == getSymbolAddress(n, src)
                         after == getSymbolAddress(n, src)'
                     IN  before # 0 /\ after # before
                             => /\ after # 0
                                /\ \E i \in 1..5 : /\ SourceAddress(n)[i][1] \in src
                                                  /\ SourceAddress(n)[i][2] = 0
                                                  /\ SourceAddress(n)'[i][2] = after]_vars
  BY <1>1
<1> QED
  BY <1>2, AddressInvariant, PTL DEF Spec, AnswersKept

=============================================================================
