---------------------------- MODULE ManagerLocks -----------------------------
(***************************************************************************)
(* The mutexes of a SymbolManager that several threads use at once: parsers *)
(* of different files and clients.  A call is a program, a sequence of     *)
(* steps on mutexes and maps; a step is atomic, everything between two      *)
(* steps of a thread is open to the others.  Symbols stand for their ids:   *)
(* <<class, thread, number of the call>>.  All DIEs of a class that has     *)
(* names have one name, which is the case in which calls interfere.         *)
(***************************************************************************)
EXTENDS Naturals, SequencesExt

CONSTANTS
    Threads,
    Calls,          \* bound: Calls[t][i], the operations the i-th call of t may be
    Nobody

ASSUME LocksAssumption == Nobody \notin Threads

VARIABLES
    owner,          \* who holds each mutex
    todo,           \* the rest of the program each thread is in
    calls,          \* number of calls each thread has begun
    data,           \* the ids in each map, pairs of ids in the alias maps
    aborted,        \* the assertion that failed: none, "lookup" or "remove"
    \* History, for the properties.
    abandoned,      \* mutexes whose holder returned or threw without unlocking
    finished,       \* DIEs whose call has returned
    removed,        \* ids taken out by removeSymbol
    destroyed,      \* ids of objects whose constructor threw after addSymbol
    lost,           \* maps that lost entries when two writes raced
    missed,         \* maps in which a search that raced with a write missed an entry
    repeated        \* DIEs constructed although one of their name was finished

dataVars == <<data, lost, removed>>
callVars == <<calls, finished, repeated>>
failVars == <<aborted, abandoned, destroyed>>
vars == <<owner, todo, dataVars, missed, callVars, failVars>>

Mutexes == {"mapMutex", "symbolNameMapMutex", "symbolIDMapMutex", "symbolIDAliasMapMutex",
            "symbolIDAliasReverseListMutex", "functionNameMapMutex", "funcListMutex",
            "arrayVectorMutex", "arrayTypeMapMutex", "memberMutex", "enumMutex"}
Maps == {"idMap", "idRevMap", "symbolNameMap", "symbolIDMap", "symbolIDAliasMap",
         "symbolIDAliasReverseList", "baseTypeNameMap", "refBaseTypeNameMap",
         "variableNameMap", "functionNameMap", "funcList", "arrayVector", "arrayTypeMap",
         "memberNameMap", "enumValues"}

\* A type read before the threads start, to which everything else refers.
Root == <<"root", Nobody, 0>>

-----------------------------------------------------------------------------
(* Steps.  kind says how a step touches the map or mutex it is on.         *)

S(kind, op, on, d) == [kind |-> kind, op |-> op, on |-> on, die |-> d]
Lock(m) == S("mutex", "lock", m, Root)
Unlock(m) == S("mutex", "unlock", m, Root)
Insert(map, x) == S("write", "insert", map, x)
Read(map) == S("read", "skip", map, Root)
Decide(op, map, d) == S("read", op, map, d)
MayThrow(d) == <<S("none", "may_throw", "none", d)>>

Guarded(m, program) == <<Lock(m)>> \o program \o <<Unlock(m)>>

-----------------------------------------------------------------------------
(* Programs. *)

\* FAULTY: returns a known id while it holds the mutex.
getID_Early(d) ==
    IF d \in data["idMap"] THEN <<Lock("mapMutex"), Read("idMap")>>
    ELSE Guarded("mapMutex", <<Insert("idMap", d)>>)

\* The id of a DIE is new, that of Root is known.
getID(d) ==
    Guarded("mapMutex", <<Insert("idMap", d)>> \o IF d = Root THEN <<>> ELSE <<Insert("idRevMap", d)>>)

\* operator[] inserts what it does not find: a write, here without a mutex.
getRevID(d) == <<S("write", "skip", "idRevMap", d)>>

\* symbolIDMap is written without its mutex.  Only arrays have no name.
addSymbol(d) ==
    (IF d[1] = "array" THEN <<>> ELSE Guarded("symbolNameMapMutex", <<Insert("symbolNameMap", d)>>))
        \o <<Insert("symbolIDMap", d)>>

addBaseType(d) == <<Insert("baseTypeNameMap", d)>>
addRefBaseType(d) == <<Insert("refBaseTypeNameMap", d)>>
addVariable(d) == <<Insert("variableNameMap", d)>>

\* FAULTY: appends to funcList without its mutex.
addFunction_Unlocked(d) == <<Decide("name_free", "functionNameMap", d), Insert("funcList", d)>>

\* The mutex of functionNameMap is taken after the look into it.
addFunction(d) ==
    <<Decide("name_free", "functionNameMap", d)>>
        \o Guarded("funcListMutex", <<Insert("funcList", d)>>)

addArray(d) == Guarded("arrayVectorMutex", <<Insert("arrayVector", d)>>)

addAlternativeID(id, new_id) ==
    Guarded("symbolIDAliasMapMutex", <<Insert("symbolIDAliasMap", <<new_id, id>>)>>)
        \o Guarded("symbolIDAliasReverseListMutex",
                   <<Insert("symbolIDAliasReverseList", <<id, new_id>>)>>)

\* FAULTY: the name is published before the id is registered.
Publish(d) ==
    CASE d[1] = "typedef" -> addRefBaseType(d)
      [] d[1] = "variable" -> addVariable(d)
      [] OTHER -> addBaseType(d)
Construct_NameFirst(d) == Publish(d) \o getID(d) \o addSymbol(d)


\* The constructor of the DIE's class and its bases in order.  An attribute that
\* cannot be read throws, before the object is registered (Root), in between or
\* after it can be found by name.
Construct(d) ==
    LET symbol == MayThrow(Root) \o getID(d) \o addSymbol(d) \o MayThrow(d)
        type == getID(Root)
    IN  CASE d[1] = "struct" -> symbol \o addBaseType(d)
          [] d[1] = "typedef" -> symbol \o addBaseType(d) \o MayThrow(d) \o type \o addRefBaseType(d)
          [] d[1] = "array" -> symbol \o type \o addArray(d)
          [] d[1] = "function" ->
                symbol \o addBaseType(d) \o MayThrow(d) \o type \o MayThrow(d) \o addFunction(d)
          [] d[1] = "variable" -> symbol \o type \o addVariable(d) \o MayThrow(d)
          [] d[1] = "member" -> symbol \o type \o MayThrow(d)

\* FAULTY: functions are looked for where only pointers and the like are.
NameIndex_Wrong(class) == IF class = "variable" THEN "variableNameMap" ELSE "refBaseTypeNameMap"

\* The by-name index in which getTypeInstance looks for a DIE's class.
NameIndex(class) ==
    CASE class \in {"struct", "function"} -> "baseTypeNameMap"
      [] class = "typedef" -> "refBaseTypeNameMap"
      [] class = "variable" -> "variableNameMap"

addMember(d) == <<Lock("memberMutex"), Decide("find_member", "memberNameMap", d)>>

addEnum(d) == MayThrow(Root) \o Guarded("enumMutex", <<Insert("enumValues", d)>>)

\* A formal parameter or a subrange refers to a type.
initSymbolFromDie(d) ==
    CASE d[1] = "array" -> Construct(d)
      [] d[1] = "parameter" -> MayThrow(Root) \o getID(Root)
      [] d[1] = "member" -> addMember(d)
      [] d[1] = "enumerator" -> addEnum(d)
      [] OTHER -> <<Decide("lookup", NameIndex(d[1]), d)>>

\* FAULTY: a nested lookup takes the mutex a second time.
findSymbolByID_Nested(d) ==
    <<Lock("symbolIDMapMutex"), Lock("symbolIDMapMutex"), Decide("find_symbol", "symbolIDMap", d)>>

findSymbolByID(d) == <<Lock("symbolIDMapMutex"), Decide("find_symbol", "symbolIDMap", d)>>

\* operator[] again.
getAliases(d) == <<S("write", "skip", "symbolIDAliasReverseList", d)>>
memberByName(d) == <<S("write", "skip", "memberNameMap", d)>>

\* The iterator found under the mutex is advanced after it is released.
findArrayByTypeID(d) ==
    Guarded("arrayTypeMapMutex", <<Read("arrayTypeMap")>>)
        \o <<Read("arrayTypeMap")>> \o getAliases(d)
        \o Guarded("arrayTypeMapMutex", <<Read("arrayTypeMap")>>) \o <<Read("arrayTypeMap")>>

findSymbolByName == Guarded("symbolNameMapMutex", <<Read("symbolNameMap")>>)

removeSymbol(d) == <<S("write", "has_aliases", "symbolIDAliasReverseList", d)>>

\* updateTypes of every element, one lookup for all of them.
cleanFunctions ==
    <<Lock("funcListMutex"), Read("funcList")>> \o findSymbolByID(Root)
        \o <<S("write", "merge_equal", "funcList", Root)>>

cleanArrays ==
    <<Lock("arrayVectorMutex"), Read("arrayVector")>> \o findSymbolByID(Root)
        \o <<S("write", "merge_equal", "arrayVector", Root)>>

\* Calls that only look into a map, without a mutex; others are like them:
\* getVarNames, listMembers, memberNameByOffset, memberOffset, enumValue,
\* printEnumMembers.  An enumName that finds nothing throws, holding nothing.
Looks == [numberOfSymbols |-> "symbolIDMap", findBaseTypeByName |-> "baseTypeNameMap",
          findRefBaseTypeByName |-> "refBaseTypeNameMap", findVariableByName |-> "variableNameMap",
          findFunctionByName |-> "functionNameMap", memberByOffset |-> "memberNameMap",
          enumName |-> "enumValues"]

DieClasses == {"struct", "typedef", "array", "function", "variable", "member", "enumerator",
               "parameter"}
\* DIEs of these classes never become a symbol, or not under an id of their own.
Unregistered == {"member", "enumerator", "parameter"}
Returned == <<S("none", "return", "none", Root)>>

-----------------------------------------------------------------------------
(* Actions. *)

Here(t) == Head(todo[t])
At(t, op) == aborted = "no" /\ todo[t] # <<>> /\ Here(t).op = op
Held(t) == {m \in Mutexes : owner[m] = t}
Touching(t, map) == todo[t] # <<>> /\ Here(t).on = map /\ Here(t).kind \in {"read", "write"}
Writing(t, map) == Touching(t, map) /\ Here(t).kind = "write"
Racing(t, map) == \E u \in Threads \ {t} : Writing(u, map)

\* What the step of thread t leaves its program as.
Go(t, program) == todo' = [todo EXCEPT ![t] = program]
Rest(t) == Tail(todo[t])
OnlyProgram == UNCHANGED <<owner, dataVars, callVars, failVars>>

\* A search that comes to nothing, or that a racing write keeps from an entry.
Misses(t, entries) ==
    /\ entries = {} \/ Racing(t, Here(t).on)
    /\ missed' = IF entries = {} THEN missed ELSE missed \cup {Here(t).on}

Acquire(t) ==
    /\ At(t, "lock") /\ owner[Here(t).on] = Nobody
    /\ owner' = [owner EXCEPT ![Here(t).on] = t]
    /\ Go(t, Rest(t))
    /\ UNCHANGED <<dataVars, missed, callVars, failVars>>

Release(t) ==
    /\ At(t, "unlock")
    /\ owner' = [owner EXCEPT ![Here(t).on] = Nobody]
    /\ Go(t, Rest(t))
    /\ UNCHANGED <<dataVars, missed, callVars, failVars>>

\* An insertion that races with another write may lose an entry of the map, its
\* own or another.
DoInsert(t) ==
    /\ At(t, "insert")
    /\ LET map == Here(t).on
           all == data[map] \cup {Here(t).die}
       IN  \/ /\ data' = [data EXCEPT ![map] = all]
              /\ UNCHANGED lost
           \/ /\ Racing(t, map)
              /\ \E x \in all : data' = [data EXCEPT ![map] = all \ {x}]
              /\ lost' = lost \cup {map}
    /\ Go(t, Rest(t))
    /\ UNCHANGED <<owner, removed, missed, callVars, failVars>>

DoErase(t) ==
    /\ At(t, "erase")
    /\ data' = [data EXCEPT !["symbolIDMap"] = @ \ {Here(t).die}]
    /\ removed' = removed \cup {Here(t).die}
    /\ Go(t, Rest(t))
    /\ UNCHANGED <<owner, lost, missed, callVars, failVars>>

Skip(t) ==
    /\ \/ At(t, "skip")
       \/ At(t, "may_throw")
    /\ Go(t, Rest(t))
    /\ OnlyProgram /\ UNCHANGED missed

\* The exception leaves every call that is in progress, and destroys the object
\* whose constructor it comes from.  The maps keep what they have of it.
Throw(t) ==
    /\ At(t, "may_throw")
    /\ abandoned' = abandoned \cup Held(t)
    /\ destroyed' = destroyed \cup ({Here(t).die} \ {Root})
    /\ Go(t, <<>>)
    /\ UNCHANGED <<owner, dataVars, missed, callVars, aborted>>

Return(t) ==
    /\ At(t, "return")
    /\ finished' = finished \cup {Here(t).die}
    /\ Go(t, <<>>)
    /\ UNCHANGED <<owner, dataVars, missed, calls, repeated, failVars>>

\* getTypeInstance and getRefTypeInstance: merge into a symbol of the class or
\* construct one.  Which of several the index yields is left open.  The update
\* of a Function or Variable that is merged into touches none of the maps, but
\* may throw.
Lookup(t) ==
    /\ At(t, "lookup")
    /\ LET d == Here(t).die
           known == {s \in data[Here(t).on] : s[1] = d[1]}
       IN  \/ /\ Misses(t, known)
              /\ Go(t, Construct(d) \o Rest(t))
              /\ repeated' = IF \E s \in finished : s[1] = d[1] THEN repeated \cup {d} ELSE repeated
           \/ /\ \E s \in known :
                    Go(t, MayThrow(Root) \o getID(d) \o addAlternativeID(s, d) \o Rest(t))
              /\ UNCHANGED <<missed, repeated>>
    /\ UNCHANGED <<owner, dataVars, calls, finished, failVars>>

NameFree(t) ==
    /\ At(t, "name_free")
    /\ \/ /\ Misses(t, data["functionNameMap"])
          /\ Go(t, Guarded("functionNameMapMutex", <<Insert("functionNameMap", Here(t).die)>>) \o Rest(t))
       \/ /\ data["functionNameMap"] # {}
          /\ Go(t, Rest(t))
          /\ UNCHANGED missed
    /\ OnlyProgram

FindMember(t) ==
    /\ At(t, "find_member")
    /\ LET d == Here(t).die
       IN  \/ /\ Misses(t, data["memberNameMap"])
              /\ Go(t, Construct(d) \o <<Insert("memberNameMap", d), Unlock("memberMutex")>> \o Rest(t))
           \/ /\ data["memberNameMap"] # {}
              /\ Go(t, <<Unlock("memberMutex")>> \o Rest(t))
              /\ UNCHANGED missed
    /\ OnlyProgram

\* findSymbolByID compares and follows its iterators after it gave the mutex back.
Follow(m, map) == <<Unlock(m), Read(map)>>

\* A symbol that is not in the map may have an alias; one that has none is
\* looked for in the reverse list, which can only end in a failed assertion.
FindSymbol(t) ==
    /\ At(t, "find_symbol")
    /\ LET d == Here(t).die
           entries == data["symbolIDMap"] \cap {d}
           follow == Follow("symbolIDMapMutex", "symbolIDMap")
       IN  \/ /\ Misses(t, entries)
              /\ Go(t, follow \o <<Lock("symbolIDAliasMapMutex"),
                                   Decide("find_alias", "symbolIDAliasMap", d)>> \o Rest(t))
           \/ /\ entries # {}
              /\ Go(t, follow \o Rest(t))
              /\ UNCHANGED missed
    /\ OnlyProgram

NotFound(d) ==
    Guarded("symbolIDAliasReverseListMutex", getAliases(d)) \o getRevID(d)
        \o <<S("none", "fail", "none", d)>>

FindAlias(t) ==
    /\ At(t, "find_alias")
    /\ LET d == Here(t).die
           entries == {x \in data["symbolIDAliasMap"] : x[1] = d}
       IN  \/ /\ Misses(t, entries)
              /\ Go(t, Follow("symbolIDAliasMapMutex", "symbolIDAliasMap") \o NotFound(d))
           \/ /\ entries # {}
              /\ Go(t, <<Unlock("symbolIDAliasMapMutex"),
                         Decide("use_alias", "symbolIDAliasMap", d)>> \o Rest(t))
              /\ UNCHANGED missed
    /\ OnlyProgram

\* Without the mutex.
UseAlias(t) ==
    /\ At(t, "use_alias")
    /\ \E x \in data["symbolIDAliasMap"] :
          /\ x[1] = Here(t).die
          /\ Go(t, <<Lock("symbolIDMapMutex"), Decide("find_target", "symbolIDMap", x[2])>> \o Rest(t))
    /\ OnlyProgram /\ UNCHANGED missed

FindTarget(t) ==
    /\ At(t, "find_target")
    /\ LET d == Here(t).die
           entries == data["symbolIDMap"] \cap {d}
           follow == Follow("symbolIDMapMutex", "symbolIDMap")
       IN  \/ /\ Misses(t, entries)
              /\ Go(t, follow \o NotFound(d))
           \/ /\ entries # {}
              /\ Go(t, follow \o Rest(t))
              /\ UNCHANGED missed
    /\ OnlyProgram

Fail(t) ==
    /\ At(t, "fail")
    /\ aborted' = "lookup"
    /\ UNCHANGED <<owner, todo, dataVars, missed, callVars, abandoned, destroyed>>

\* removeSymbol looks for aliases without the mutex.  A symbol that has some is
\* printed, and the assertion fails.
HasAliases(t) ==
    /\ At(t, "has_aliases")
    /\ LET d == Here(t).die
           aliases == {x \in data["symbolIDAliasReverseList"] : x[1] = d}
       IN  \/ /\ Misses(t, aliases)
              /\ Go(t, Guarded("symbolIDMapMutex", <<S("write", "erase", "symbolIDMap", d)>>) \o Rest(t))
              /\ UNCHANGED aborted
           \/ /\ aliases # {}
              /\ aborted' = "remove"
              /\ UNCHANGED <<todo, missed>>
    /\ UNCHANGED <<owner, dataVars, callVars, abandoned, destroyed>>

ListMutex(list) == IF list = "funcList" THEN "funcListMutex" ELSE "arrayVectorMutex"

\* The loop over a sorted list at oldPtr old: the elements still to come, and
\* those in tmp.
MergeLoop(list, old, left, tmp) == S("write", "merge_next", list, <<old, left, tmp>>)

\* After the sort.  An empty list returns without unlock; the first element does
\* not enter tmp.
MergeEqual(t) ==
    /\ At(t, "merge_equal")
    /\ LET list == Here(t).on
       IN  \/ /\ data[list] = {}
              /\ abandoned' = abandoned \cup {ListMutex(list)}
              /\ Go(t, <<>>)
           \/ /\ \E old \in data[list] :
                    Go(t, <<MergeLoop(list, old, data[list] \ {old}, {})>> \o Rest(t))
              /\ UNCHANGED abandoned
    /\ UNCHANGED <<owner, dataVars, missed, callVars, aborted, destroyed>>

\* The next element is merged into oldPtr, or kept and the new oldPtr; which
\* elements are equal is left open (module SymbolCleanup has the comparison).
\* After the last one the list is swapped with tmp.
MergeNext(t) ==
    /\ At(t, "merge_next")
    /\ LET list == Here(t).on
           old == Here(t).die[1]
           left == Here(t).die[2]
           tmp == Here(t).die[3]
           kept == SetToSeq(tmp)
           insertions ==
               IF list = "funcList" THEN <<>>
               ELSE Guarded("arrayTypeMapMutex", [i \in 1..Len(kept) |-> Insert("arrayTypeMap", kept[i])])
       IN  \/ /\ \E x \in left :
                    \/ Go(t, addAlternativeID(old, x) \o <<MergeLoop(list, old, left \ {x}, tmp)>> \o Rest(t))
                    \/ Go(t, <<MergeLoop(list, x, left \ {x}, tmp \cup {x})>> \o Rest(t))
              /\ UNCHANGED data
           \/ /\ left = {}
              /\ data' = [data EXCEPT ![list] = tmp]
              /\ Go(t, insertions \o <<Unlock(ListMutex(list))>> \o Rest(t))
    /\ UNCHANGED <<owner, lost, removed, missed, callVars, failVars>>

\* A thread that is in no call begins one.  Ids looked up or removed are ids
\* of DIEs whose call has returned.
Begin(t) ==
    /\ aborted = "no" /\ todo[t] = <<>> /\ calls[t] < Len(Calls[t])
    /\ calls' = [calls EXCEPT ![t] = @ + 1]
    /\ \E c \in Calls[t][calls'[t]] :
          \/ /\ c \in DieClasses
             /\ LET d == <<c, t, calls'[t]>>
                IN  Go(t, initSymbolFromDie(d) \o <<S("none", "return", "none", d)>>)
          \/ \E d \in {x \in finished : x[1] \notin Unregistered} :
                /\ c \in {"findSymbolByID", "getAliases", "getRevID", "findArrayByTypeID", "removeSymbol"}
                /\ Go(t, (CASE c = "findSymbolByID" -> findSymbolByID(d)
                            [] c = "getAliases" -> getAliases(d)
                            [] c = "getRevID" -> getRevID(d)
                            [] c = "findArrayByTypeID" -> findArrayByTypeID(d)
                            [] c = "removeSymbol" -> removeSymbol(d)) \o Returned)
          \/ c \in DOMAIN Looks /\ Go(t, <<Read(Looks[c])>> \o Returned)
          \/ c = "findSymbolByName" /\ Go(t, findSymbolByName \o Returned)
          \/ c = "memberByName" /\ Go(t, memberByName(Root) \o Returned)
          \/ c = "cleanFunctions" /\ Go(t, cleanFunctions \o Returned)
          \/ c = "cleanArrays" /\ Go(t, cleanArrays \o Returned)
    /\ UNCHANGED <<owner, dataVars, missed, finished, repeated, failVars>>

-----------------------------------------------------------------------------
Init ==
    /\ owner = [m \in Mutexes |-> Nobody]
    /\ todo = [t \in Threads |-> <<>>]
    /\ calls = [t \in Threads |-> 0]
    /\ data = [m \in Maps |-> IF m \in {"idMap", "idRevMap", "symbolNameMap", "symbolIDMap"}
                              THEN {Root} ELSE {}]
    /\ aborted = "no" /\ abandoned = {} /\ destroyed = {}
    /\ finished = {Root} /\ removed = {} /\ lost = {} /\ missed = {} /\ repeated = {}

Step(t) ==
    \/ Begin(t) \/ Acquire(t) \/ Release(t) \/ DoInsert(t) \/ DoErase(t) \/ Skip(t)
    \/ Throw(t) \/ Return(t) \/ Lookup(t) \/ NameFree(t) \/ FindMember(t)
    \/ FindSymbol(t) \/ FindAlias(t) \/ UseAlias(t) \/ FindTarget(t) \/ Fail(t) \/ HasAliases(t)
    \/ MergeEqual(t) \/ MergeNext(t)

Next == \E t \in Threads : Step(t)

\* Threads are scheduled, and a mutex that is free is eventually taken by one
\* of those that wait for it.
Fairness == \A t \in Threads : WF_vars(Step(t))

Spec == Init /\ [][Next]_vars
FairSpec == Spec /\ Fairness

-----------------------------------------------------------------------------
(* Properties. *)

\* No two threads touch idMap, symbolNameMap, funcList or arrayVector at once,
\* one of them writing, and no two write at once to symbolIDAliasMap,
\* functionNameMap, arrayTypeMap or enumValues: their mutexes are taken for that
\* in every call and on every path.  (The second four are read without them; all
\* other maps are also written without a mutex.)
GuardedRaceFree ==
    \A t \in Threads :
        /\ \A map \in {"idMap", "symbolNameMap", "funcList", "arrayVector"} :
              ~(Touching(t, map) /\ Racing(t, map))
        /\ \A map \in {"symbolIDAliasMap", "functionNameMap", "arrayTypeMap", "enumValues"} :
              ~(Writing(t, map) /\ Racing(t, map))

\* findSymbolByID finds an entry for every DIE that was read to the end,
\* unless removeSymbol took one out or symbolIDMap, written without its mutex, was
\* raced on, by two writes or by a write and a search: a name is published only
\* after the id is registered, so an alias never leads to an id that is not there
\* yet.  (DestroyedUnreached says which objects found may be destroyed ones.)
FinishedFound ==
    aborted = "lookup" => removed # {} \/ "symbolIDMap" \in lost \cup missed


\* A thread between two calls holds no mutex, except one that cleaning an empty
\* list returned with, or memberMutex after a member that could not be read.
ReleasedAtEnd ==
    /\ \A t \in Threads : todo[t] = <<>> => Held(t) \subseteq abandoned
    /\ abandoned \subseteq {"funcListMutex", "arrayVectorMutex", "memberMutex"}

\* Two symbols of a name come only from calls that overlap: once a DIE was
\* read to the end, no thread constructs another symbol of its name, unless the
\* index it is looked up in, which has no mutex, was raced on.
NoLateDuplicate == \A d \in repeated : NameIndex(d[1]) \in lost \cup missed

\* Every call returns: the threads never wait for each other in a cycle, nor
\* for a mutex that is not given back, unless one was abandoned or the process
\* ends.
CallsReturn ==
    \A t \in Threads :
        todo[t] # <<>> ~> (todo[t] = <<>> \/ abandoned # {} \/ aborted # "no")

=============================================================================
