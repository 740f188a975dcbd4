---------------------------- MODULE AddressMaps ------------------------------
(***************************************************************************)
(* The name <-> address maps of a SymbolManager: ELF symbols and functions *)
(* with their reverse maps, the System.map symbols, and the search over    *)
(* all of them.  A name is <<stem, n>>: the stem with n underscores        *)
(* appended, which is how addSymbolAddress and addFunctionAddress make     *)
(* names unique; a caller may itself pass a name that ends in underscores. *)
(***************************************************************************)
EXTENDS Integers, FiniteSets

CONSTANTS
    Stems,
    MaxSuffix,      \* bound: longest run of appended underscores
    Addresses,      \* 0 is the value of an undefined symbol
    Used            \* bound: the <<name, address>> pairs callers pass to each map

Names == Stems \X (0..MaxSuffix)

ASSUME AddressAssumption ==
    /\ MaxSuffix \in Nat
    /\ Addresses \subseteq Nat
    /\ Used \in [{"elf", "function", "sysmap", "dwarf"} -> SUBSET (Names \X Addresses)]

NoName == <<>>
Sources == {"system_map", "modules", "functions", "dwarf_function", "dwarf_variable"}

VARIABLES
    sysMapSymbols, sysMapSymbolsPrivate,
    elfSymbolMap, functionSymbolMap,          \* name -> address
    elfSymbolRevMap, functionSymbolRevMap,    \* address -> name
    dwarfAddress,   \* addresses of the DWARF functions and variables by name
    \* History: what the callers asked for, for the properties.
    added,          \* <<map, name, address>> added and not replaced since
    replaced,       \* names given another address since updateRevMaps
    published       \* <<name, address>> last passed to addSysmapSymbol as public

sysmapVars == <<sysMapSymbols, sysMapSymbolsPrivate, published>>
elfVars == <<elfSymbolMap, replaced>>
revVars == <<elfSymbolRevMap, functionSymbolRevMap>>
vars == <<sysmapVars, elfVars, functionSymbolMap, revVars, dwarfAddress, added>>

Put(map, k, v) == [x \in DOMAIN map \cup {k} |-> IF x = k THEN v ELSE map[x]]
EmptyMap == [x \in {} |-> x]

\* find() on a SymbolMap, 0 when there is no entry.
find(map, n) == IF n \in DOMAIN map THEN map[n] ELSE 0

\* The first of n, n_, n__, ... that is in stop, if the bound allows one.
FirstSuffix(n, stop) ==
    {m \in stop : /\ m[1] = n[1] /\ m[2] >= n[2]
                  /\ \A k \in n[2]..(m[2] - 1) : <<n[1], k>> \notin stop}

-----------------------------------------------------------------------------
(* Lookups. *)

getElfSymbolAddress(n) == find(elfSymbolMap, n)
getFunctionAddress(n) == find(functionSymbolMap, n)

getElfSymbolName(a) ==
    IF a \in DOMAIN elfSymbolRevMap THEN elfSymbolRevMap[a] ELSE NoName

getFunctionName(a) ==
    IF a \in DOMAIN functionSymbolRevMap THEN functionSymbolRevMap[a] ELSE NoName

isSymbol(a) == a \in DOMAIN elfSymbolRevMap
isFunction(a) == a \in DOMAIN functionSymbolRevMap

\* FAULTY: lower_bound in place of upper_bound.
getContainingSymbol_Lower(a) ==
    LET iter == {k \in DOMAIN elfSymbolRevMap : k >= a}
        below == {k \in DOMAIN elfSymbolRevMap : k < a}
    IN  IF iter # {} /\ below # {}
        THEN CHOOSE k \in below : \A j \in below : j <= k ELSE 0

\* upper_bound(address), then one back, unless at either end of the map.
getContainingSymbol(a) ==
    LET iter == {k \in DOMAIN elfSymbolRevMap : k > a}
        below == {k \in DOMAIN elfSymbolRevMap : k <= a}
    IN  IF iter # {} /\ below # {}
        THEN CHOOSE k \in below : \A j \in below : j <= k ELSE 0

getSystemMapAddress(n, priv) ==
    IF n \in DOMAIN sysMapSymbols THEN sysMapSymbols[n]
    ELSE IF priv THEN find(sysMapSymbolsPrivate, n) ELSE 0

\* What each source of getSymbolAddress knows, in the order they are tried.
SourceAddress(n) ==
    << <<"system_map", getSystemMapAddress(n, FALSE)>>,
       <<"modules", getElfSymbolAddress(n)>>,
       <<"functions", getFunctionAddress(n)>>,
       <<"dwarf_function", dwarfAddress[n].function>>,
       <<"dwarf_variable", dwarfAddress[n].variable>> >>

\* FAULTY: an entry ends the search even when its address is 0.
getSymbolAddress_ZeroEnds(n, src) ==
    LET source == SourceAddress(n)
        hits == {i \in 1..5 : /\ source[i][1] \in src
                              /\ \/ source[i][2] # 0
                                 \/ i = 2 /\ n \in DOMAIN elfSymbolMap}
    IN  IF hits = {} THEN 0 ELSE source[CHOOSE i \in hits : \A j \in hits : i <= j][2]

getSymbolAddress(n, src) ==
    LET source == SourceAddress(n)
        hits == {i \in 1..5 : source[i][1] \in src /\ source[i][2] # 0}
    IN  IF hits = {} THEN 0 ELSE source[CHOOSE i \in hits : \A j \in hits : i <= j][2]

-----------------------------------------------------------------------------
(* Operations. *)

\* The names whose search with growing suffixes comes by m.
UpTo(m) == {x \in Names : x[1] = m[1] /\ x[2] <= m[2]}

\* FAULTY: takes the next longer name without looking whether it is free.
addSymbolAddress_OneTry(n, a, replace) ==
    LET m == IF n \in DOMAIN elfSymbolMap /\ ~replace THEN <<n[1], n[2] + 1>> ELSE n
    IN  /\ m \in Names
        /\ elfSymbolMap' = Put(elfSymbolMap, m, a)
        /\ added' = added \cup {<<"elf", n, a>>}
        /\ UNCHANGED <<sysmapVars, functionSymbolMap, revVars, dwarfAddress, replaced>>

\* Without replace, the loop ends at the first name that is free or already
\* has the address; with replace, at the name itself.  The result, whether
\* the name was a duplicate, is left out: nothing in the library uses it.
addSymbolAddress(n, a, replace) ==
    LET done == {m \in Names : replace \/ m \notin DOMAIN elfSymbolMap \/ elfSymbolMap[m] = a}
    IN  \E m \in FirstSuffix(n, done) :
           LET same == m \in DOMAIN elfSymbolMap /\ elfSymbolMap[m] = a
               lost == IF m \in DOMAIN elfSymbolMap /\ ~same
                       THEN {<<"elf", x, elfSymbolMap[m]>> : x \in UpTo(m)} ELSE {}
           IN  /\ elfSymbolMap' = Put(elfSymbolMap, m, a)
               /\ added' = (added \ lost) \cup {<<"elf", n, a>>}
               /\ replaced' = IF lost = {} THEN replaced ELSE replaced \cup {m}
               /\ UNCHANGED <<sysmapVars, functionSymbolMap, revVars, dwarfAddress>>

addFunctionAddress(n, a) ==
    LET free == Names \ DOMAIN functionSymbolMap
    IN  /\ \E m \in FirstSuffix(n, free) :
              functionSymbolMap' = Put(functionSymbolMap, m, a)
        /\ added' = added \cup {<<"function", n, a>>}
        /\ UNCHANGED <<sysmapVars, elfVars, revVars, dwarfAddress>>

\* The code stores a private symbol in the public map and vice versa.
addSysmapSymbol(n, a, priv) ==
    /\ IF priv
       THEN /\ sysMapSymbols' = Put(sysMapSymbols, n, a)
            /\ UNCHANGED sysMapSymbolsPrivate
       ELSE /\ sysMapSymbolsPrivate' = Put(sysMapSymbolsPrivate, n, a)
            /\ UNCHANGED sysMapSymbols
    /\ published' = IF priv THEN published
                    ELSE {p \in published : p[1] # n} \cup {<<n, a>>}
    /\ UNCHANGED <<elfVars, functionSymbolMap, revVars, dwarfAddress, added>>

\* Every reverse of map that some iteration order of it produces.
Reverses(map) ==
    LET values == {map[n] : n \in DOMAIN map}
    IN  {r \in [values -> DOMAIN map] : \A a \in values : map[r[a]] = a}

\* FAULTY: does not clear the reverse maps first.
updateRevMaps_NoClear ==
    /\ \E r \in Reverses(elfSymbolMap) :
          elfSymbolRevMap' = [a \in DOMAIN r \cup DOMAIN elfSymbolRevMap |->
                                 IF a \in DOMAIN r THEN r[a] ELSE elfSymbolRevMap[a]]
    /\ functionSymbolRevMap' \in Reverses(functionSymbolMap)
    /\ replaced' = {}
    /\ UNCHANGED <<sysmapVars, elfSymbolMap, functionSymbolMap, dwarfAddress, added>>

updateRevMaps ==
    /\ elfSymbolRevMap' \in Reverses(elfSymbolMap)
    /\ functionSymbolRevMap' \in Reverses(functionSymbolMap)
    /\ replaced' = {}
    /\ UNCHANGED <<sysmapVars, elfSymbolMap, functionSymbolMap, dwarfAddress, added>>

\* A DIE of a DWARF function or variable of that name: an address is taken
\* while there is none, and then kept.
parseDwarf(n, kind, a) ==
    /\ dwarfAddress[n][kind] = 0
    /\ dwarfAddress' = [dwarfAddress EXCEPT ![n][kind] = a]
    /\ UNCHANGED <<sysmapVars, elfVars, functionSymbolMap, revVars, added>>

\* Variable::setLocation, with which callers relocate a variable.
setLocation(n, a) ==
    /\ dwarfAddress' = [dwarfAddress EXCEPT ![n].variable = a]
    /\ UNCHANGED <<sysmapVars, elfVars, functionSymbolMap, revVars, added>>

-----------------------------------------------------------------------------
Init ==
    /\ sysMapSymbols = EmptyMap /\ sysMapSymbolsPrivate = EmptyMap
    /\ elfSymbolMap = EmptyMap /\ functionSymbolMap = EmptyMap
    /\ elfSymbolRevMap = EmptyMap /\ functionSymbolRevMap = EmptyMap
    /\ dwarfAddress = [n \in Names |-> [function |-> 0, variable |-> 0]]
    /\ added = {} /\ replaced = {} /\ published = {}

Next ==
    \/ \E x \in Used["elf"], replace \in BOOLEAN : addSymbolAddress(x[1], x[2], replace)
    \/ \E x \in Used["function"] : addFunctionAddress(x[1], x[2])
    \/ \E x \in Used["sysmap"], priv \in BOOLEAN : addSysmapSymbol(x[1], x[2], priv)
    \/ \E x \in Used["dwarf"], kind \in {"function", "variable"} : parseDwarf(x[1], kind, x[2])
    \/ \E x \in Used["dwarf"] : setLocation(x[1], x[2])
    \/ updateRevMaps

Spec == Init /\ [][Next]_vars

-----------------------------------------------------------------------------
(* Properties. *)

MapTo(S, map, T) == DOMAIN map \subseteq S /\ \A x \in DOMAIN map : map[x] \in T

\* The maps hold names and addresses, and the history is one of calls made.
AddressTypeOK ==
    /\ MapTo(Names, sysMapSymbols, Addresses)
    /\ MapTo(Names, sysMapSymbolsPrivate, Addresses)
    /\ MapTo(Names, elfSymbolMap, Addresses)
    /\ MapTo(Names, functionSymbolMap, Addresses)
    /\ MapTo(Addresses, elfSymbolRevMap, Names)
    /\ MapTo(Addresses, functionSymbolRevMap, Names)
    /\ dwarfAddress \in [Names -> [function : Addresses \cup {0}, variable : Addresses \cup {0}]]
    /\ added \subseteq {"elf", "function"} \X Names \X Addresses
    /\ replaced \subseteq DOMAIN elfSymbolMap
    /\ published \subseteq Names \X Addresses

\* Duplicate names lose nothing: an address added under a name is found by
\* trying the name with 0, 1, 2, ... underscores without a gap, until some
\* addSymbolAddress with replace overwrites an entry that holds the address.
AddedReachable ==
    \A x \in added :
        LET map == IF x[1] = "elf" THEN elfSymbolMap ELSE functionSymbolMap
        IN  \E k \in x[2][2]..MaxSuffix :
               /\ \A j \in x[2][2]..k : <<x[2][1], j>> \in DOMAIN map
               /\ map[<<x[2][1], k>>] = x[3]

\* The reverse maps may lag behind but do not lie: a name they give for an
\* address has that address, unless it was replaced since updateRevMaps.
ReverseSound ==
    /\ \A a \in DOMAIN elfSymbolRevMap :
          getElfSymbolName(a) \notin replaced => getElfSymbolAddress(getElfSymbolName(a)) = a
    /\ \A a \in DOMAIN functionSymbolRevMap : getFunctionAddress(getFunctionName(a)) = a

\* getContainingSymbol gives the last known symbol at or below an address
\* that lies before the last symbol.
ContainingBelow ==
    \A a \in Addresses :
        (\E k \in DOMAIN elfSymbolRevMap : k > a) =>
            LET s == getContainingSymbol(a)
            IN  IF s = 0 THEN \A k \in DOMAIN elfSymbolRevMap : k > a \/ k = 0
                ELSE isSymbol(s) /\ s <= a /\ \A k \in DOMAIN elfSymbolRevMap : ~(s < k /\ k <= a)

\* A call that overwrites what a source of getSymbolAddress has for the name n.
Overwrites(n) ==
    \/ /\ n \in DOMAIN elfSymbolMap
       /\ \E x \in Used["elf"] : x[1] = n /\ addSymbolAddress(n, x[2], TRUE)
    \/ /\ n \in DOMAIN sysMapSymbols
       /\ \E x \in Used["sysmap"] : x[1] = n /\ addSysmapSymbol(n, x[2], TRUE)
    \/ /\ dwarfAddress[n].variable # 0
       /\ \E x \in Used["dwarf"] : x[1] = n /\ setLocation(n, x[2])

\* What the sources of getSymbolAddress have for the name n.
Entries(n) ==
    <<n \in DOMAIN sysMapSymbols, n \in DOMAIN elfSymbolMap, n \in DOMAIN functionSymbolMap,
      SourceAddress(n)>>

\* What getSymbolAddress has found for a name it keeps finding, whatever symbol
\* tables, files and System.maps are entered afterwards, symbols at address 0
\* among them: without a call that overwrites the name, an entry that is made for
\* it changes the answer only to that of a source that did not know the name before.
AnswersKept ==
    [][\A n \in Names : Entries(n)' # Entries(n) /\ ~Overwrites(n) =>
          \A src \in SUBSET Sources :
              LET before == getSymbolAddress(n, src)
                  after == getSymbolAddress(n, src)'
              IN  before # 0 /\ after # before
                      => /\ after # 0
                         /\ \E i \in 1..5 : /\ SourceAddress(n)[i][1] \in src
                                           /\ SourceAddress(n)[i][2] = 0
                                           /\ SourceAddress(n)'[i][2] = after]_vars

\* "return the address of public system map symbol" (symbolmanager.h).
PublicFound ==
    \A p \in published : getSystemMapAddress(p[1], FALSE) = p[2]

=============================================================================
