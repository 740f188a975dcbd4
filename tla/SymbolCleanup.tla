---------------------------- MODULE SymbolCleanup ----------------------------
(***************************************************************************)
(* Removing symbols from a SymbolManager: cleanFunctions and cleanArrays   *)
(* delete all but one of equal functions and arrays, removeSymbol takes a  *)
(* symbol out of the id map.  A caller does that when no parser is half    *)
(* through its file, since parseDwarfFromFD reads a file in one call.      *)
(***************************************************************************)
EXTENDS SymbolManager

CONSTANT
    MaxCalls      \* bound: for each operation callers use, how often they do

Operations == DOMAIN MaxCalls

ASSUME CleanupAssumption == MaxCalls \in [Operations -> Nat]

VARIABLES
    freed,         \* deleted symbol objects
    arrayTypeMap,  \* <<type id, Array>> in the order of the multimap
    locked,        \* mutexes an early return left locked
    aborted,       \* a failed assertion ended the process
    calls,         \* calls of each operation so far
    tidy           \* History: no DIE was read since cleanArrays

cleanupVars == <<freed, arrayTypeMap, locked, aborted, calls, tidy>>
allVars == <<vars, cleanupVars>>

Elements(seq) == {seq[i] : i \in DOMAIN seq}

\* std::sort: the set of pairs lt orders S strictly and totally.
Sorted(S, lt) ==
    [i \in 1..Cardinality(S) |->
        CHOOSE x \in S : Cardinality({y \in S : <<y, x>> \in lt}) = i - 1]

\* a sorts before b: the first unequal pair of the two key sequences decides.
LessKeys(a, b) ==
    \E i \in DOMAIN a : /\ i \in DOMAIN b
                        /\ a[i] < b[i]
                        /\ \A j \in 1..(i - 1) : a[j] = b[j]

-----------------------------------------------------------------------------
(* updateTypes: type ids become the ids of the symbols they resolve to. *)

\* The ids sym->getID() may return for a reference to id: the id of a deleted
\* object is read from freed memory.
ResolvedIDs(id) ==
    LET s == findSymbolByID(id)
    IN  {sym[s].id} \cup (IF s \in freed THEN Garbage ELSE {})

Resolutions(refs) ==
    {to \in [refs -> UNION {ResolvedIDs(i) : i \in refs}] :
        \A i \in refs : to[i] \in ResolvedIDs(i)}

Resolves(refs) == \A i \in refs : findSymbolByID(i) # Null

Function_types(f) ==
    {sym[f].paramList[i][2] : i \in DOMAIN sym[f].paramList}
        \cup (IF sym[f].type = 0 THEN {} ELSE {sym[f].type})

Function_updateTypes(f, to) ==
    [f EXCEPT !.type = IF @ = 0 THEN 0 ELSE to[@],
              !.paramList = [i \in DOMAIN @ |-> <<@[i][1], to[@[i][2]]>>]]

Array_types(a) == IF sym[a].type = 0 THEN {} ELSE {sym[a].type}

Array_updateTypes(a, to) == [a EXCEPT !.type = IF @ = 0 THEN 0 ELSE to[@]]

-----------------------------------------------------------------------------
(* operator < and operator ==. *)

ParamTypes(f) == [i \in DOMAIN f.paramList |-> f.paramList[i][2]]

Function_lt(f, g) ==
    LessKeys(<<f.type, Len(f.paramList)>> \o ParamTypes(f) \o <<f.id>>,
             <<g.type, Len(g.paramList)>> \o ParamTypes(g) \o <<g.id>>)

\* FAULTY: functions of different names are equal.
Function_eq_NoName(f, g) == f.type = g.type /\ ParamTypes(f) = ParamTypes(g)

Function_eq(f, g) ==
    f.type = g.type /\ ParamTypes(f) = ParamTypes(g) /\ f.name = g.name

\* FAULTY: the length is not part of the order.
Array_lt_NoLength(a, b) == LessKeys(<<a.type, a.id>>, <<b.type, b.id>>)

Array_lt(a, b) == LessKeys(<<a.type, a.length, a.id>>, <<b.type, b.length, b.id>>)

Array_eq(a, b) == a.type = b.type /\ a.length = b.length

-----------------------------------------------------------------------------
(* The loop over the sorted list; eq is the set of pairs that are equal. *)

\* FAULTY: oldPtr moves on to the element that is being deleted.
Survivor_Previous(order, i, eq) ==
    IF i > 1 /\ <<order[i - 1], order[i]>> \in eq THEN order[i - 1] ELSE order[i]

\* oldPtr when the loop comes to element i, and that element itself if it is
\* not equal: the first element of the run of equal ones that i ends.
Survivor(order, i, eq) ==
    order[CHOOSE k \in 1..i : /\ \A j \in (k + 1)..i : <<order[j - 1], order[j]>> \in eq
                              /\ k = 1 \/ <<order[k - 1], order[k]>> \notin eq]

\* Aliases the loop adds, the objects it deletes and the list it leaves: the
\* first element never enters tmp.
Deleted(order, eq) ==
    {i \in DOMAIN order : Survivor(order, i, eq) # order[i]}

Kept(order, eq) ==
    LET keep == {i \in DOMAIN order : i # 1} \ Deleted(order, eq)
        nth(k) == CHOOSE i \in keep : Cardinality({j \in keep : j < i}) = k - 1
    IN  [k \in 1..Cardinality(keep) |-> order[nth(k)]]

\* FAULTY: deletes objects without an alias for their ids.
MergeEqual_NoAlias(s, order, eq) ==
    /\ freed' = freed \cup {order[i] : i \in Deleted(order, eq)}
    /\ UNCHANGED <<symbolIDAliasMap, symbolIDAliasReverseList>>

\* addAlternativeID(survivor, deleted) and delete, for every deleted element.
MergeEqual(s, order, eq) ==
    LET dead == Deleted(order, eq)
        idOf(i) == s[order[i]].id
        into(i) == s[Survivor(order, i, eq)].id
        merged(id) == {idOf(i) : i \in {j \in dead : into(j) = id}}
        owners == {into(i) : i \in dead}
    IN  /\ symbolIDAliasMap' =
               [id \in DOMAIN symbolIDAliasMap \cup {idOf(i) : i \in dead} |->
                   IF \E i \in dead : idOf(i) = id
                   THEN into(CHOOSE i \in dead : idOf(i) = id) ELSE symbolIDAliasMap[id]]
        /\ symbolIDAliasReverseList' =
               [id \in DOMAIN symbolIDAliasReverseList \cup owners |-> getAliases(id) \cup merged(id)]
        /\ freed' = freed \cup {order[i] : i \in dead}

-----------------------------------------------------------------------------
(* Operations. *)

\* Every file is either unread or read to its end.
BetweenFiles == \A d \in Visited, e \in Dies : e[2] = d[2] => e \in Visited

Call(op) ==
    /\ op \in Operations
    /\ BetweenFiles
    /\ ~aborted
    /\ calls[op] < MaxCalls[op]
    /\ calls' = [calls EXCEPT ![op] = @ + 1]
    /\ UNCHANGED <<die, open>>

\* A type that no symbol stands for fails the assertion in findSymbolByID.
Abort ==
    /\ aborted' = TRUE
    /\ UNCHANGED <<ids, sym, idVars, nameVars, freed, arrayTypeMap, locked, tidy>>

\* The early return of an empty list leaves the mutex locked.
cleanFunctions ==
    LET fs == Elements(funcList)
        refs == UNION {Function_types(f) : f \in fs}
    IN  /\ Call("cleanFunctions")
        /\ "funcListMutex" \notin locked
        /\ \/ ~Resolves(refs) /\ Abort
           \/ /\ fs = {}
              /\ locked' = locked \cup {"funcListMutex"}
              /\ UNCHANGED <<ids, sym, idVars, nameVars, freed, arrayTypeMap, aborted, tidy>>
           \/ /\ fs # {} /\ Resolves(refs)
              /\ \E to \in Resolutions(refs) :
                    LET s == [x \in Symbols |-> IF x \in fs THEN Function_updateTypes(sym[x], to)
                                                ELSE sym[x]]
                        order == Sorted(fs, {p \in fs \X fs : Function_lt(s[p[1]], s[p[2]])})
                        eq == {p \in fs \X fs : Function_eq(s[p[1]], s[p[2]])}
                    IN  /\ sym' = s
                        /\ funcList' = Kept(order, eq)
                        /\ MergeEqual(s, order, eq)
              /\ UNCHANGED <<ids, symbolIDMap, symbolNameMap, baseTypeNameMap, refBaseTypeNameMap,
                             functionNameMap, variableNameMap, arrayVector,
                             arrayTypeMap, locked, aborted, tidy>>

\* std::multimap::insert: after the entries with the same key.
InsertByType(map, type, a) ==
    LET n == Cardinality({i \in DOMAIN map : map[i][1] <= type})
    IN  SubSeq(map, 1, n) \o << <<type, a>> >> \o SubSeq(map, n + 1, Len(map))

\* FAULTY: the key is the id of the array and not of its element type.
InsertArrays_OwnID(map, list, s) ==
    LET ins[k \in 0..Len(list)] ==
            IF k = 0 THEN map ELSE InsertByType(ins[k - 1], s[list[k]].id, list[k])
    IN  ins[Len(list)]

\* Inserting the arrays of list, which is sorted by type, one after another.
InsertArrays(map, list, s) ==
    LET ins[k \in 0..Len(list)] ==
            IF k = 0 THEN map ELSE InsertByType(ins[k - 1], s[list[k]].type, list[k])
    IN  ins[Len(list)]

cleanArrays ==
    LET as == Elements(arrayVector)
        refs == UNION {Array_types(a) : a \in as}
    IN  /\ Call("cleanArrays")
        /\ "arrayVectorMutex" \notin locked
        /\ \/ ~Resolves(refs) /\ Abort
           \/ /\ as = {}
              /\ locked' = locked \cup {"arrayVectorMutex"}
              /\ UNCHANGED <<ids, sym, idVars, nameVars, freed, arrayTypeMap, aborted, tidy>>
           \/ /\ as # {} /\ Resolves(refs)
              /\ \E to \in Resolutions(refs) :
                    LET s == [x \in Symbols |-> IF x \in as THEN Array_updateTypes(sym[x], to)
                                                ELSE sym[x]]
                        order == Sorted(as, {p \in as \X as : Array_lt(s[p[1]], s[p[2]])})
                        eq == {p \in as \X as : Array_eq(s[p[1]], s[p[2]])}
                    IN  /\ sym' = s
                        /\ arrayVector' = Kept(order, eq)
                        /\ MergeEqual(s, order, eq)
                        /\ arrayTypeMap' = InsertArrays(arrayTypeMap, Kept(order, eq), s)
              /\ tidy' = TRUE
              /\ UNCHANGED <<ids, symbolIDMap, symbolNameMap, baseTypeNameMap, refBaseTypeNameMap,
                             functionNameMap, variableNameMap, funcList, locked, aborted>>

\* FAULTY: removes a symbol without looking at its aliases.
removeSymbol_NoCheck(s) ==
    /\ Call("removeSymbol")
    /\ s \notin freed
    /\ symbolIDMap' = [i \in DOMAIN symbolIDMap \ {sym[s].id} |-> symbolIDMap[i]]
    /\ UNCHANGED <<ids, sym, symbolIDAliasMap, symbolIDAliasReverseList, nameVars,
                   freed, arrayTypeMap, locked, aborted, tidy>>

\* A symbol with aliases fails an assertion; another one leaves the id map,
\* and only that.
removeSymbol(s) ==
    LET id == sym[s].id
    IN  /\ Call("removeSymbol")
        /\ s \notin freed
        /\ \/ getAliases(id) # {} /\ Abort
           \/ /\ getAliases(id) = {}
              /\ symbolIDMap' = [i \in DOMAIN symbolIDMap \ {id} |-> symbolIDMap[i]]
              /\ UNCHANGED <<ids, sym, symbolIDAliasMap, symbolIDAliasReverseList, nameVars,
                             freed, arrayTypeMap, locked, aborted, tidy>>

\* The entries of arrayTypeMap from the first one with this key on: the loop
\* does not stop where the key ends.
FromKey(id) ==
    LET at == {i \in DOMAIN arrayTypeMap : arrayTypeMap[i][1] = id}
    IN  {i \in DOMAIN arrayTypeMap : \E j \in at : j <= i}

findArrayByTypeID(id, length) ==
    LET hits(k) == {i \in FromKey(k) : sym[arrayTypeMap[i][2]].length = length}
        first(k) == arrayTypeMap[CHOOSE i \in hits(k) : \A j \in hits(k) : i <= j][2]
        aliases == {k \in getAliases(id) : hits(k) # {}}
    IN  IF hits(id) # {} THEN first(id)
        ELSE IF aliases # {} THEN first(CHOOSE k \in aliases : \A j \in aliases : k <= j)
        ELSE Null

-----------------------------------------------------------------------------
\* A lookup by name would read a deleted object.
StaleIndex ==
    \E n \in Names : \/ \E i \in DOMAIN baseTypeNameMap[n] : baseTypeNameMap[n][i] \in freed
                     \/ refBaseTypeNameMap[n] \in freed

\* A DIE is read; addFunction and addArray need their mutex.  Bound: not once
\* a lookup by name may read a deleted object.
Parse ==
    /\ ~aborted
    /\ ~StaleIndex
    /\ \E d \in Dies \ Visited : \E level \in 0..Len(open[d[2]]) : ParseDie(d, level)
    /\ funcList' # funcList => "funcListMutex" \notin locked
    /\ arrayVector' # arrayVector => "arrayVectorMutex" \notin locked
    /\ tidy' = FALSE
    /\ UNCHANGED <<freed, arrayTypeMap, locked, aborted, calls>>

CleanupInit ==
    /\ Init
    /\ freed = {} /\ arrayTypeMap = <<>> /\ locked = {}
    /\ aborted = FALSE /\ calls = [op \in Operations |-> 0] /\ tidy = FALSE

CleanupNext ==
    \/ Parse
    \/ cleanFunctions
    \/ cleanArrays
    \/ \E s \in Symbols : removeSymbol(s)

CleanupSpec == CleanupInit /\ [][CleanupNext]_allVars

-----------------------------------------------------------------------------
(* Properties. *)

\* The operation that deletes objects of the class of x.
CleanerOf(x) == IF sym[x].kind = "Array" THEN "cleanArrays" ELSE "cleanFunctions"

\* Nothing is lost when the first cleanFunctions or cleanArrays deletes an
\* object: a live one of the same class is equal to it, and the alias map
\* leads from the deleted object's id to that one in a single step.  (A later
\* call may delete what an earlier one merged others into.)
MergedIntoLive ==
    \A x \in freed : calls[CleanerOf(x)] = 1 =>
        \E y \in Symbols \ freed :
            /\ sym[y].kind = sym[x].kind
            /\ IF sym[x].kind = "Array" THEN Array_eq(sym[x], sym[y])
               ELSE Function_eq(sym[x], sym[y])
            /\ symbolIDAliasMap[sym[x].id] = sym[y].id

\* However often the lists are cleaned, whoever follows the aliases from the id
\* of a deleted object comes to a live one of the same class: every set that
\* has the deleted object, and with an object what its alias leads to, has one.
DeletedLeadToLive ==
    \A x \in freed : \A T \in SUBSET Symbols :
        /\ x \in T
        /\ \A u \in T, v \in Symbols :
              /\ sym[u].id \in DOMAIN symbolIDAliasMap
              /\ symbolIDAliasMap[sym[u].id] = sym[v].id
              => v \in T
        => \E y \in T \ freed : sym[y].kind = sym[x].kind

\* A function that is found by name is never deleted, also when files are read
\* before, between and after the calls of cleanFunctions: only functions that
\* no name leads to are ever equal.
NamedFunctionsLive ==
    \A n \in Names :
        /\ functionNameMap[n] \notin freed
        /\ findBaseTypeByName(n, "Function") \notin freed

\* The only call of cleanArrays so far was the last step but for steps that
\* read no DIE.
JustCleaned == tidy /\ calls["cleanArrays"] = 1

\* The first cleanArrays leaves one live array per element type and length.
ArraysDistinct ==
    JustCleaned =>
        \A a, b \in {x \in Symbols \ freed : sym[x].kind = "Array"} :
            Array_eq(sym[a], sym[b]) => a = b

\* Once the id of a merged DIE resolves to the symbol the DIE was merged into,
\* it keeps doing so and the symbol is not deleted, whatever symbols removeSymbol
\* takes out and however often functions are cleaned.  (The same holds of
\* cleanArrays only while no array has a name: it may delete a named array that a
\* pointer DIE was merged into.)
MergedStaysResolved ==
    [][\A d \in Visited :
          /\ die[d].sym \notin {d, Null}
          /\ findSymbolByID(ids.idMap[d]) = die[d].sym
          => /\ findSymbolByID(ids.idMap[d])' = die[d].sym
             /\ die[d].sym \notin freed']_allVars

\* After the first cleanArrays, findArrayByTypeID finds exactly the array of an
\* element type and length, for every live array but the first in sort order:
\* that one stays out of the rebuilt arrayVector and of arrayTypeMap.
ArraysFindable ==
    JustCleaned =>
        \A a, b \in {x \in Symbols \ freed : sym[x].kind = "Array"} :
            Array_lt(sym[b], sym[a]) => findArrayByTypeID(sym[a].type, sym[a].length) = a

\* "Warning removing symbol with aliases" and the assertion behind it
\* (symbolmanager.cpp): a symbol that aliases lead to stays registered.
AliasTargetsRegistered ==
    \A id \in DOMAIN symbolIDAliasMap : symbolIDAliasMap[id] \in DOMAIN symbolIDMap

=============================================================================
