---------------------------- MODULE SymbolManager ----------------------------
(***************************************************************************)
(* The symbol namespace a SymbolManager builds while DwarfParsers feed it  *)
(* the DIEs of .debug_info sections: internal ids, the symbols registered  *)
(* under them, aliases of merged duplicates and the by-name indexes.       *)
(*                                                                         *)
(* A DIE is a pair <<offset, fileID>>.  A symbol object is named by the    *)
(* DIE it was constructed from: a DIE is handed to initSymbolFromDie once  *)
(* and constructs at most one object.  The contents of a DIE are chosen    *)
(* when it is visited, so a behaviour ranges over every DWARF input of the *)
(* given size.  Null is a null pointer, or a lookup that ends in a failed  *)
(* assertion.  Id 0 is "no id".                                            *)
(***************************************************************************)
EXTENDS Integers, Sequences, FiniteSets

CONSTANTS
    Files,        \* fileIDs handed out by the DwarfParser constructor
    Dies,         \* <<offset in .debug_info, fileID>> of every DIE
    Names,        \* non-empty symbol names
    NoName,       \* the empty name
    Null,
    NoEntry,      \* no entry under a key of a map
    Tags,         \* the DIE tags the input may use
    Addresses,    \* non-zero values of DW_AT_low_pc and DW_AT_location
    Constants,    \* values of DW_AT_const_value
    EnumMod,      \* 2^32 scaled down: Enum::enumValues has keys of 32 bits
    Bounds,       \* values of DW_AT_upper_bound
    LengthMod,    \* 2^64 scaled down: lengths wrap at this value
    Garbage,      \* ids an uninitialized ReferencingType::type may hold
    Queries,      \* names a user asks memberByName for
    Relocations   \* addresses a user passes to setLocation

AllNames == Names \cup {NoName}

RefTags == {"typedef", "pointer_type", "const_type"}
Composites == {"structure_type", "union_type"}
PlainTags == Composites \cup {"base_type", "enumeration_type"}
TypeTags == RefTags \cup PlainTags \cup {"array_type", "unsupported"}
AllTags == TypeTags \cup {"subprogram", "variable", "member", "enumerator",
                          "subrange_type", "formal_parameter"}

ASSUME ConstantsAssumption ==
    /\ Dies \subseteq Nat \X Files
    /\ Null \notin Dies \cup AllNames
    /\ NoEntry \notin Dies \cup AllNames \cup {Null}
    /\ NoName \notin Names
    /\ Tags \subseteq AllTags
    /\ Addresses \subseteq Nat \ {0}
    /\ Constants \subseteq Nat
    /\ EnumMod \in Nat \ {0}
    /\ Bounds \subseteq Nat
    /\ LengthMod \in Nat \ {0}
    /\ Garbage \subseteq Nat
    /\ Queries \subseteq AllNames
    /\ Relocations \subseteq Nat

\* The keys of Enum::enumValues.
EnumKeys == 0..EnumMod - 1

RefBaseTypes == {"Typedef", "Pointer", "ConstType", "Array"}
Structureds == {"Struct", "Union"}
BaseTypes == RefBaseTypes \cup Structureds \cup {"BaseType", "Enum", "Function"}
Classes == BaseTypes \cup {"Variable", "StructuredMember"}

\* The class initSymbolFromDie instantiates or looks up for a tag.
ClassOf(tag) ==
    CASE tag = "typedef"          -> "Typedef"
      [] tag = "pointer_type"     -> "Pointer"
      [] tag = "const_type"       -> "ConstType"
      [] tag = "structure_type"   -> "Struct"
      [] tag = "union_type"       -> "Union"
      [] tag = "base_type"        -> "BaseType"
      [] tag = "enumeration_type" -> "Enum"
      [] tag = "array_type"       -> "Array"
      [] tag = "subprogram"       -> "Function"
      [] tag = "variable"         -> "Variable"
      [] tag = "member"           -> "StructuredMember"
      [] OTHER                    -> "None"

\* dynamic_cast<class *> of an object of class kind succeeds.
IsA(kind, class) ==
    \/ kind = class
    \/ class = "BaseType" /\ kind \in BaseTypes
    \/ class = "RefBaseType" /\ kind \in RefBaseTypes
    \/ class = "Structured" /\ kind \in Structureds
    \/ class = "Pointer" /\ kind = "Array"

VARIABLES
    ids,          \* [currentID, idMap, idRevMap]: the id allocator
    sym,          \* the symbol objects constructed so far
    symbolIDMap,  \* id -> symbol
    symbolIDAliasMap,          \* id of a merged DIE -> id of its symbol
    symbolIDAliasReverseList,  \* id of a symbol -> ids merged into it
    symbolNameMap,      \* name -> symbols, in insertion order (multimap)
    baseTypeNameMap,    \* name -> BaseTypes, in insertion order (multimap)
    refBaseTypeNameMap, \* name -> RefBaseType or Null
    functionNameMap,    \* name -> Function or Null
    variableNameMap,    \* name -> Variable or Null
    funcList,           \* every Function, in construction order
    arrayVector,        \* every Array, in construction order
    die,          \* what was read from each visited DIE, and its symbol
    open          \* per file, the DIEs enclosing the next one (recursion stack)

idVars == <<symbolIDMap, symbolIDAliasMap, symbolIDAliasReverseList>>
nameVars == <<symbolNameMap, baseTypeNameMap, refBaseTypeNameMap,
              functionNameMap, variableNameMap, funcList, arrayVector>>
vars == <<ids, sym, idVars, nameVars, die, open>>

\* map[k] = v on a std::map or std::unordered_map.
Put(map, k, v) == [x \in DOMAIN map \cup {k} |-> IF x = k THEN v ELSE map[x]]
EmptyMap == [x \in {} |-> x]

Visited == DOMAIN die
Symbols == DOMAIN sym

-----------------------------------------------------------------------------
(* Ids and aliases. *)

\* The allocator after getID(dwarfID, fileID); the id returned is idMap[d].
getID(s, d) ==
    IF s.idMap[d] # 0 THEN s
    ELSE [currentID |-> s.currentID + 1,
          idMap     |-> [s.idMap EXCEPT ![d] = s.currentID + 1],
          idRevMap  |-> Put(s.idRevMap, s.currentID + 1, d)]

\* FAULTY: looks the referenced id up without issuing it.
getTypeID_NotIssued(s, t) == s

\* A reader of DW_AT_type: an id for the referenced DIE when it is present.
getTypeID(s, t) == IF t = Null THEN s ELSE getID(s, t)
typeID(s, t) == IF t = Null THEN 0 ELSE s.idMap[t]

\* ReferencingType leaves type unset when the DIE has no DW_AT_type.
referencingTypeIDs(s, t) == IF t = Null THEN Garbage ELSE {s.idMap[t]}

getAliases(id) ==
    IF id \in DOMAIN symbolIDAliasReverseList
    THEN symbolIDAliasReverseList[id] ELSE {}

\* Null stands for the assertions of lines 70, 86 and 93.
findSymbolByID(id) ==
    LET alias == IF id \in DOMAIN symbolIDAliasMap THEN symbolIDAliasMap[id] ELSE 0
        rev == {i \in getAliases(id) : i \in DOMAIN symbolIDMap}
    IN  IF id \in DOMAIN symbolIDMap THEN symbolIDMap[id]
        ELSE IF alias \in DOMAIN symbolIDMap
             THEN IF sym[symbolIDMap[alias]].id = alias
                  THEN symbolIDMap[alias] ELSE Null
        ELSE IF \E i \in rev : /\ \A j \in rev : i <= j
                               /\ sym[symbolIDMap[i]].id = id
             THEN symbolIDMap[CHOOSE i \in rev : \A j \in rev : i <= j]
        ELSE Null

\* FAULTY: records the alias in the wrong direction.
addAlternativeID_Swapped(id, new_id) ==
    /\ symbolIDAliasMap' = Put(symbolIDAliasMap, id, new_id)
    /\ symbolIDAliasReverseList' =
           Put(symbolIDAliasReverseList, id, getAliases(id) \cup {new_id})

\* FAULTY: forgets the reverse list.
addAlternativeID_NoReverse(id, new_id) ==
    /\ symbolIDAliasMap' = Put(symbolIDAliasMap, new_id, id)
    /\ UNCHANGED symbolIDAliasReverseList

addAlternativeID(id, new_id) ==
    /\ symbolIDAliasMap' = Put(symbolIDAliasMap, new_id, id)
    /\ symbolIDAliasReverseList' =
           Put(symbolIDAliasReverseList, id, getAliases(id) \cup {new_id})

-----------------------------------------------------------------------------
(* By-name indexes: each operator is the new value of the index after the  *)
(* constructor chain of an object s of class kind and name n ran.          *)

\* FAULTY: registers the symbol under the id issued last.
addSymbol_LastID(s, id, n) ==
    /\ symbolIDMap' = Put(symbolIDMap, ids'.currentID, s)
    /\ symbolNameMap' = IF n = NoName THEN symbolNameMap
                        ELSE [symbolNameMap EXCEPT ![n] = Append(@, s)]

addSymbol(s, id, n) ==
    /\ symbolIDMap' = Put(symbolIDMap, id, s)
    /\ symbolNameMap' = IF n = NoName THEN symbolNameMap
                        ELSE [symbolNameMap EXCEPT ![n] = Append(@, s)]

\* FAULTY: keeps one BaseType per name, as a map would.
addBaseType_Unique(s, kind, n) ==
    IF kind \in BaseTypes /\ n # NoName /\ baseTypeNameMap[n] = <<>>
    THEN [baseTypeNameMap EXCEPT ![n] = <<s>>] ELSE baseTypeNameMap

addBaseType(s, kind, n) ==
    IF kind \in BaseTypes /\ n # NoName
    THEN [baseTypeNameMap EXCEPT ![n] = Append(@, s)] ELSE baseTypeNameMap

\* FAULTY: keeps the first RefBaseType of a name.
addRefBaseType_First(s, kind, n) ==
    IF kind \in RefBaseTypes /\ n # NoName
    THEN [refBaseTypeNameMap EXCEPT ![n] = IF @ = Null THEN s ELSE @]
    ELSE refBaseTypeNameMap

addRefBaseType(s, kind, n) ==
    IF kind \in RefBaseTypes /\ n # NoName
    THEN [refBaseTypeNameMap EXCEPT ![n] = s] ELSE refBaseTypeNameMap

addFunction(s, kind, n) ==
    IF kind = "Function" /\ n # NoName
    THEN [functionNameMap EXCEPT ![n] = IF @ = Null THEN s ELSE @]
    ELSE functionNameMap

addVariable(s, kind, n) ==
    IF kind = "Variable" /\ n # NoName
    THEN [variableNameMap EXCEPT ![n] = s] ELSE variableNameMap

\* FAULTY: returns the first BaseType of that name whatever its class.
findBaseTypeByName_NoCast(n, class) ==
    IF n = NoName \/ baseTypeNameMap[n] = <<>> THEN Null ELSE baseTypeNameMap[n][1]

\* findBaseTypeByName<class>: the oldest entry of that name that is a class.
findBaseTypeByName(n, class) ==
    LET hits == IF n = NoName THEN {}
                ELSE {i \in DOMAIN baseTypeNameMap[n] :
                         IsA(sym[baseTypeNameMap[n][i]].kind, class)}
    IN  IF hits = {} THEN Null
        ELSE baseTypeNameMap[n][CHOOSE i \in hits : \A j \in hits : i <= j]

findRefBaseTypeByName(n) == IF n = NoName THEN Null ELSE refBaseTypeNameMap[n]
findFunctionByName(n) == IF n = NoName THEN Null ELSE functionNameMap[n]
findVariableByName(n) == IF n = NoName THEN Null ELSE variableNameMap[n]

-----------------------------------------------------------------------------
(* Visiting a DIE. *)

\* A symbol as Symbol::Symbol and the member initializers leave it.  type is
\* RefBaseType::type, ReferencingType::type or Function::rettype; addr is
\* Function::address or Variable::location.
NewSymbol(kind, n, id) ==
    [kind |-> kind, name |-> n, id |-> id, type |-> 0, addr |-> 0,
     paramList |-> <<>>, paramsFinal |-> FALSE,
     memberNameMap |-> [m \in AllNames |-> NoEntry],
     enumValues |-> [k \in EnumKeys |-> NoEntry],
     lengthType |-> 0, length |-> 0]

Parent(d, level) == IF level = 0 THEN Null ELSE open[d[2]][level]
ParentTag(d, level) == IF level = 0 THEN "none" ELSE die[open[d[2]][level]].tag
ParentSym(d, level) == IF level = 0 THEN Null ELSE die[open[d[2]][level]].sym

\* The tags of the DIEs that DWARF lets a DIE of this tag be a child of.
ParentTags(tag) ==
    CASE tag = "member"           -> Composites \cup {"unsupported"}
      [] tag = "enumerator"       -> {"enumeration_type"}
      [] tag = "subrange_type"    -> {"array_type"}
      [] tag = "formal_parameter" -> {"subprogram", "unsupported"}
      [] OTHER -> Composites \cup {"none", "subprogram", "unsupported"}

\* The DIEs a DW_AT_type of d may refer to; Null is no DW_AT_type.
TypeRefs(d) ==
    {t \in Dies : /\ t[2] = d[2]
                  /\ t # d
                  /\ t \in Visited => die[t].tag \in TypeTags} \cup {Null}

\* d is the next DIE of its file in section order, level DIEs deep below the
\* compile unit; s becomes the parent of its children.  A DIE that some
\* DW_AT_type already referred to is a type.  val is the DIE's address,
\* upper bound or constant.
Visit(d, level, tag, n, t, val, s) ==
    /\ d \notin Visited
    /\ tag \in Tags
    /\ \A e \in Dies : e[2] = d[2] /\ e[1] < d[1] => e \in Visited
    /\ level \in 0..Len(open[d[2]])
    /\ ParentTag(d, level) \in ParentTags(tag)
    /\ ids.idMap[d] # 0 => tag \in TypeTags
    /\ t \in TypeRefs(d)
    /\ die' = Put(die, d, [tag |-> tag, name |-> n, type |-> t, val |-> val,
                           sym |-> s, parent |-> Parent(d, level)])
    /\ open' = [open EXCEPT ![d[2]] = Append(SubSeq(@, 1, level), d)]

\* The constructor chain of object obj of DIE d: ids were issued up to i, and
\* the other symbols are as in others.  The attributes of the input have forms
\* that the readers know, so that no constructor throws in between; objects that
\* stay in some of the maps when one does are in module ManagerLocks.
Construct(d, i, obj, others) ==
    /\ ids' = i
    /\ sym' = Put(others, d, obj)
    /\ addSymbol(d, obj.id, obj.name)
    /\ baseTypeNameMap' = addBaseType(d, obj.kind, obj.name)
    /\ refBaseTypeNameMap' = addRefBaseType(d, obj.kind, obj.name)
    /\ functionNameMap' = addFunction(d, obj.kind, obj.name)
    /\ variableNameMap' = addVariable(d, obj.kind, obj.name)
    /\ funcList' = IF obj.kind = "Function" THEN Append(funcList, d) ELSE funcList
    /\ arrayVector' = IF obj.kind = "Array" THEN Append(arrayVector, d) ELSE arrayVector
    /\ UNCHANGED <<symbolIDAliasMap, symbolIDAliasReverseList>>

\* Symbol::addAlternativeDwarfID of DIE d on the known symbol s, with ids
\* issued up to i; the symbol itself becomes obj.
addAlternativeDwarfID(d, s, i, obj) ==
    /\ ids' = getID(i, d)
    /\ addAlternativeID(sym[s].id, ids'.idMap[d])
    /\ sym' = [sym EXCEPT ![s] = obj]
    /\ UNCHANGED <<symbolIDMap, nameVars>>

\* The handler only changes fields of symbol s, with ids issued up to i.
ChangeSymbol(s, i, obj) ==
    /\ ids' = i
    /\ sym' = [sym EXCEPT ![s] = obj]
    /\ UNCHANGED <<idVars, nameVars>>

\* The handler returns nullptr and changes nothing.
Skip(d, level, tag, n, t) ==
    /\ Visit(d, level, tag, n, t, 0, Null)
    /\ UNCHANGED <<ids, sym, idVars, nameVars>>

-----------------------------------------------------------------------------
(* initSymbolFromDie, one action per tag group. *)

\* getRefTypeInstance<T>: typedef, pointer and const types.
RefType(d, level, tag, n, t) ==
    LET rbt == findRefBaseTypeByName(n)
        i == getTypeID(getID(ids, d), t)
    IN  /\ tag \in RefTags
        /\ \/ /\ rbt = Null
              /\ Visit(d, level, tag, n, t, 0, d)
              /\ Construct(d, i, [NewSymbol(ClassOf(tag), n, i.idMap[d])
                                     EXCEPT !.type = typeID(i, t)], sym)
           \/ /\ rbt # Null
              /\ ~IsA(sym[rbt].kind, ClassOf(tag))
              /\ Skip(d, level, tag, n, t)
           \/ /\ rbt # Null
              /\ IsA(sym[rbt].kind, ClassOf(tag))
              /\ Visit(d, level, tag, n, t, 0, rbt)
              /\ addAlternativeDwarfID(d, rbt, ids, sym[rbt])

\* getTypeInstance<T>: struct, union, base and enumeration types.
PlainType(d, level, tag, n) ==
    LET known == findBaseTypeByName(n, ClassOf(tag))
        i == getID(ids, d)
    IN  /\ tag \in PlainTags
        /\ \/ /\ known = Null
              /\ Visit(d, level, tag, n, Null, 0, d)
              /\ Construct(d, i, NewSymbol(ClassOf(tag), n, i.idMap[d]), sym)
           \/ /\ known # Null
              /\ Visit(d, level, tag, n, Null, 0, known)
              /\ addAlternativeDwarfID(d, known, ids, sym[known])

\* DW_TAG_array_type always constructs an Array.
ArrayType(d, level, n, t) ==
    LET i == getTypeID(getID(ids, d), t)
    IN  /\ Visit(d, level, "array_type", n, t, 0, d)
        /\ Construct(d, i, [NewSymbol("Array", n, i.idMap[d])
                               EXCEPT !.type = typeID(i, t)], sym)

\* Array::update; val is the upper bound, or Null.
Subrange(d, level, t, val) ==
    LET a == ParentSym(d, level)
        i == getTypeID(ids, t)
    IN  /\ Visit(d, level, "subrange_type", NoName, t, val, Null)
        /\ ChangeSymbol(a, i,
               [sym[a] EXCEPT
                   !.lengthType = IF t = Null THEN @ ELSE i.idMap[t],
                   !.length = IF val = Null THEN @ ELSE (val + 1) % LengthMod])

\* FAULTY: a later DIE overwrites the return type and the address.
Function_update_Overwrites(f, i, t, val) ==
    [f EXCEPT !.type = typeID(i, t), !.addr = val, !.paramsFinal = TRUE]

\* FAULTY: leaves the parameter list open.
Function_update_KeepsOpen(f, i, t, val) ==
    [f EXCEPT !.type = IF @ = 0 THEN typeID(i, t) ELSE @,
              !.addr = IF @ = 0 THEN val ELSE @]

\* Function::update with the return type's id issued in i.
Function_update(f, i, t, val) ==
    [f EXCEPT !.type = IF @ = 0 THEN typeID(i, t) ELSE @,
              !.addr = IF @ = 0 THEN val ELSE @,
              !.paramsFinal = TRUE]

\* DW_TAG_subprogram; val is DW_AT_low_pc, 0 when there is none.
Subprogram(d, level, n, t, val) ==
    LET f == findBaseTypeByName(n, "Function")
    IN  \/ LET i == getTypeID(getID(ids, d), t)
               obj == NewSymbol("Function", n, i.idMap[d])
           IN  /\ f = Null
               /\ Visit(d, level, "subprogram", n, t, val, d)
               /\ Construct(d, i, [Function_update(obj, i, t, val)
                                      EXCEPT !.paramsFinal = FALSE], sym)
        \/ LET i == IF sym[f].type = 0 THEN getTypeID(ids, t) ELSE ids
           IN  /\ f # Null
               /\ Visit(d, level, "subprogram", n, t, val, f)
               /\ addAlternativeDwarfID(d, f, i, Function_update(sym[f], i, t, val))

\* Function::addParam.
FormalParameter(d, level, n, t) ==
    LET f == ParentSym(d, level)
        i == getTypeID(ids, t)
    IN  \/ /\ f = Null
           /\ Skip(d, level, "formal_parameter", n, t)
        \/ /\ f # Null
           /\ sym[f].paramsFinal \/ t = Null
           /\ Skip(d, level, "formal_parameter", n, t)
        \/ /\ f # Null
           /\ ~sym[f].paramsFinal
           /\ t # Null
           /\ Visit(d, level, "formal_parameter", n, t, 0, Null)
           /\ ChangeSymbol(f, i, [sym[f] EXCEPT !.paramList =
                                     Append(@, <<n, i.idMap[t]>>)])

\* FAULTY: a later DIE overwrites the location.
Variable_update_Overwrites(v, val) == [v EXCEPT !.addr = IF val = 0 THEN @ ELSE val]

\* Variable::update.
Variable_update(v, val) == [v EXCEPT !.addr = IF @ # 0 THEN @ ELSE val]

\* DW_TAG_variable; val is DW_AT_location, 0 when there is none, spec says
\* whether the DIE has a DW_AT_specification.
VariableDie(d, level, n, t, val, spec) ==
    LET v == findVariableByName(n)
        i == getTypeID(getID(ids, d), t)
    IN  \/ /\ spec
           /\ Skip(d, level, "variable", n, t)
        \/ /\ ~spec
           /\ v = Null
           /\ Visit(d, level, "variable", n, t, val, d)
           /\ \E ty \in referencingTypeIDs(i, t) :
                 Construct(d, i, [NewSymbol("Variable", n, i.idMap[d])
                                     EXCEPT !.type = ty, !.addr = val], sym)
        \/ /\ ~spec
           /\ v # Null
           /\ Visit(d, level, "variable", n, t, val, v)
           /\ addAlternativeDwarfID(d, v, ids, Variable_update(sym[v], val))

\* FAULTY: the new member does not enter the index.
addMember_NotIndexed(map, n, d) == map

\* memberNameMap after Structured::addMember constructed a member.
addMember(map, n, d) == [map EXCEPT ![n] = d]

\* Structured::addMember; a known member is not given an alternative id.
Member(d, level, n, t) ==
    LET s == ParentSym(d, level)
        i == getTypeID(getID(ids, d), t)
    IN  \/ /\ s = Null
           /\ Skip(d, level, "member", n, t)
        \/ /\ s # Null
           /\ sym[s].memberNameMap[n] # NoEntry
           /\ Visit(d, level, "member", n, t, 0, sym[s].memberNameMap[n])
           /\ UNCHANGED <<ids, sym, idVars, nameVars>>
        \/ /\ s # Null
           /\ sym[s].memberNameMap[n] = NoEntry
           /\ Visit(d, level, "member", n, t, 0, d)
           /\ \E ty \in referencingTypeIDs(i, t) :
                 Construct(d, i, [NewSymbol("StructuredMember", n, i.idMap[d])
                                     EXCEPT !.type = ty],
                           [sym EXCEPT ![s].memberNameMap = addMember(@, n, d)])

\* FAULTY: forgets the values known so far.
addEnum_Reset(map, val, n) == [k \in EnumKeys |-> IF k = val % EnumMod THEN n ELSE NoEntry]

\* enumValues after Enum::addEnum, which takes the value as a uint32_t.
addEnum(map, val, n) == [map EXCEPT ![val % EnumMod] = n]

\* DW_TAG_enumerator; val is DW_AT_const_value.
Enumerator(d, level, n, val) ==
    LET e == ParentSym(d, level)
    IN  /\ Visit(d, level, "enumerator", n, Null, val, Null)
        /\ ChangeSymbol(e, ids, [sym[e] EXCEPT !.enumValues = addEnum(@, val, n)])

-----------------------------------------------------------------------------
(* What a library user may do between two DIEs. *)

\* Structured::memberByName inserts a null member for an unknown name.
memberByName(s, n) ==
    /\ sym[s].kind \in Structureds
    /\ sym[s].memberNameMap[n] = NoEntry
    /\ ChangeSymbol(s, ids, [sym[s] EXCEPT !.memberNameMap[n] = Null])
    /\ UNCHANGED <<die, open>>

setLocation(s, a) ==
    /\ sym[s].kind = "Variable"
    /\ ChangeSymbol(s, ids, [sym[s] EXCEPT !.addr = a])
    /\ UNCHANGED <<die, open>>

-----------------------------------------------------------------------------
Init ==
    /\ ids = [currentID |-> 0, idMap |-> [d \in Dies |-> 0], idRevMap |-> EmptyMap]
    /\ sym = EmptyMap
    /\ symbolIDMap = EmptyMap
    /\ symbolIDAliasMap = EmptyMap
    /\ symbolIDAliasReverseList = EmptyMap
    /\ symbolNameMap = [n \in Names |-> <<>>]
    /\ baseTypeNameMap = [n \in Names |-> <<>>]
    /\ refBaseTypeNameMap = [n \in Names |-> Null]
    /\ functionNameMap = [n \in Names |-> Null]
    /\ variableNameMap = [n \in Names |-> Null]
    /\ funcList = <<>>
    /\ arrayVector = <<>>
    /\ die = EmptyMap
    /\ open = [f \in Files |-> <<>>]

\* One parser handles its next DIE.
ParseDie(d, level) ==
    \/ Skip(d, level, "unsupported", NoName, Null)
    \/ \E n \in AllNames :
          \/ \E tag \in PlainTags : PlainType(d, level, tag, n)
          \/ \E c \in Constants : Enumerator(d, level, n, c)
          \/ \E t \in Dies \cup {Null} :
                \/ \E tag \in RefTags : RefType(d, level, tag, n, t)
                \/ ArrayType(d, level, n, t)
                \/ FormalParameter(d, level, n, t)
                \/ Member(d, level, n, t)
                \/ \E a \in Addresses \cup {0} :
                      \/ Subprogram(d, level, n, t, a)
                      \/ \E spec \in BOOLEAN : VariableDie(d, level, n, t, a, spec)
    \/ \E t \in Dies \cup {Null}, ub \in Bounds \cup {Null} : Subrange(d, level, t, ub)

UserCall ==
    \E s \in Symbols :
        \/ \E n \in Queries : memberByName(s, n)
        \/ \E a \in Relocations : setLocation(s, a)

Next ==
    \/ \E d \in Dies \ Visited : \E level \in 0..Len(open[d[2]]) : ParseDie(d, level)
    \/ UserCall

Spec == Init /\ [][Next]_vars

-----------------------------------------------------------------------------
(* Properties. *)

SymbolType ==
    [kind : Classes, name : AllNames, id : Nat \ {0}, type : Nat, addr : Nat,
     paramList : Seq(AllNames \X Nat), paramsFinal : BOOLEAN,
     memberNameMap : [AllNames -> Symbols \cup {Null, NoEntry}],
     enumValues : [EnumKeys -> AllNames \cup {NoEntry}],
     lengthType : Nat, length : 0..LengthMod - 1]

DieType ==
    [tag : AllTags, name : AllNames, type : Dies \cup {Null},
     val : Nat \cup {Null}, sym : Symbols \cup {Null}, parent : Visited \cup {Null}]

\* The maps of SymbolManager and the fields of the symbol classes hold what
\* their C++ declarations say.
ShapesOK ==
    /\ ids.currentID \in Nat
    /\ ids.idMap \in [Dies -> 0..ids.currentID]
    /\ ids.idRevMap \in [1..ids.currentID -> Dies]
    /\ Symbols \subseteq Visited
    /\ sym \in [Symbols -> SymbolType]
    /\ DOMAIN symbolIDMap \subseteq Nat
    /\ symbolIDMap \in [DOMAIN symbolIDMap -> Symbols]
    /\ DOMAIN symbolIDAliasMap \subseteq Nat
    /\ symbolIDAliasMap \in [DOMAIN symbolIDAliasMap -> Nat]
    /\ DOMAIN symbolIDAliasReverseList \subseteq Nat
    /\ symbolIDAliasReverseList \in [DOMAIN symbolIDAliasReverseList -> SUBSET Nat]
    /\ symbolNameMap \in [Names -> Seq(Symbols)]
    /\ baseTypeNameMap \in [Names -> Seq(Symbols)]
    /\ refBaseTypeNameMap \in [Names -> Symbols \cup {Null}]
    /\ functionNameMap \in [Names -> Symbols \cup {Null}]
    /\ variableNameMap \in [Names -> Symbols \cup {Null}]
    /\ funcList \in Seq(Symbols)
    /\ arrayVector \in Seq(Symbols)
    /\ Visited \subseteq Dies
    /\ die \in [Visited -> DieType]
    /\ open \in [Files -> Seq(Visited)]

\* Every variable has its type, and the ids a DW_AT_type yields are never 0, as
\* the constructors assert.
TypeOK ==
    /\ ShapesOK
    /\ \A s \in Symbols : \A i \in DOMAIN sym[s].paramList : sym[s].paramList[i][2] # 0

\* findSymbolByID resolves every id ever issued, in whatever order DIEs were
\* referenced, constructed and merged: to the symbol its DIE became, and to
\* nothing exactly when the DIE was not visited or became no symbol.
ResolveExact ==
    \A d \in Dies : ids.idMap[d] # 0 =>
        findSymbolByID(ids.idMap[d]) = IF d \in Visited THEN die[d].sym ELSE Null

\* addAlternativeID keeps the alias map flat and the reverse list its exact
\* inverse: an alias leads to a registered symbol in one hop, an id never is
\* both, and the third search stage of findSymbolByID has nothing to find.
AliasesExact ==
    /\ DOMAIN symbolIDAliasMap \cap DOMAIN symbolIDMap = {}
    /\ \A a \in DOMAIN symbolIDAliasMap : symbolIDAliasMap[a] \in DOMAIN symbolIDMap
    /\ \A i \in 1..ids.currentID :
          getAliases(i) = {a \in DOMAIN symbolIDAliasMap : symbolIDAliasMap[a] = i}

\* getTypeInstance, getRefTypeInstance and addMember hand a DIE only a symbol
\* of its own name that dynamic_cast accepts as the class of its tag, and
\* outside a Structured never merge DIEs that have no name.
MergeCompatible ==
    \A d \in Visited : die[d].sym # Null =>
        /\ sym[die[d].sym].name = die[d].name
        /\ IsA(sym[die[d].sym].kind, ClassOf(die[d].tag))
        /\ die[d].name = NoName =>
              die[d].sym = d \/ sym[die[d].sym].kind = "StructuredMember"

\* The duplicate entries of several files end in one object: no two symbols
\* of one class share a name, but for arrays and members.
OneSymbolPerName ==
    \A s1, s2 \in Symbols :
        /\ sym[s1].kind = sym[s2].kind
        /\ sym[s1].kind \notin {"Array", "StructuredMember"}
        /\ sym[s1].name = sym[s2].name
        /\ sym[s1].name # NoName
        => s1 = s2

\* The indexes that addFunction, addRefBaseType and addVariable keep agree
\* with the multimaps that addBaseType and addSymbol keep beside them.
IndexesAgree ==
    \A n \in Names :
        LET bts == baseTypeNameMap[n]
            refs == {i \in DOMAIN bts : sym[bts[i]].kind \in RefBaseTypes}
            variables == {s \in Symbols : /\ sym[s].kind = "Variable"
                                          /\ sym[s].name = n}
        IN  /\ findFunctionByName(n) = findBaseTypeByName(n, "Function")
            /\ refs = {} => refBaseTypeNameMap[n] = Null
            /\ \A i \in refs : (\A j \in refs : j <= i) => refBaseTypeNameMap[n] = bts[i]
            /\ IF variables = {} THEN variableNameMap[n] = Null
               ELSE variableNameMap[n] \in variables

\* The formal parameters with a type of the DIE that constructed s.
ParamDies(s) ==
    {d \in Visited : /\ die[d].tag = "formal_parameter"
                     /\ die[d].parent = s
                     /\ die[d].type # Null}

\* Function::addParam collects the parameters of one DIE only, in order, the
\* duplicates of other files notwithstanding; none is missing until a
\* duplicate makes the list final.
ParamsFromOneDie ==
    \A s \in Symbols : sym[s].kind = "Function" =>
        /\ Len(sym[s].paramList) <= Cardinality(ParamDies(s))
        /\ ~sym[s].paramsFinal =>
              Len(sym[s].paramList) = Cardinality(ParamDies(s))
        /\ \A d \in ParamDies(s) :
              LET pos == Cardinality({e \in ParamDies(s) : e[1] <= d[1]})
              IN  pos <= Len(sym[s].paramList) =>
                     sym[s].paramList[pos] = <<die[d].name, ids.idMap[die[d].type]>>

\* Function::update loses no address and no return type, whichever of the
\* merged DIEs carries it, and never mixes in those of another function.
FunctionSummary ==
    \A s \in Symbols : sym[s].kind = "Function" =>
        LET merged == {d \in Visited : die[d].sym = s}
            addrs == {die[d].val : d \in merged} \ {0}
            rets == {ids.idMap[die[d].type] : d \in {e \in merged : die[e].type # Null}}
        IN  /\ IF addrs = {} THEN sym[s].addr = 0 ELSE sym[s].addr \in addrs
            /\ IF rets = {} THEN sym[s].type = 0 ELSE sym[s].type \in rets

\* Variable::update never moves a location that a DIE or a user's setLocation
\* put in place: only setLocation itself does.
LocationSticks ==
    [][\A s \in Symbols :
          /\ sym[s].kind = "Variable"
          /\ sym[s].addr # 0
          /\ die' # die
          => sym'[s].addr = sym[s].addr]_vars

\* Structured::addMember indexes every member under its name in the one
\* Structured it belongs to, and a duplicate structure's member DIE becomes
\* the member the index names.
MembersIndexed ==
    /\ \A d \in Visited :
          LET s == die[die[d].parent].sym
          IN  die[d].tag = "member" /\ s # Null =>
                 sym[s].memberNameMap[die[d].name] = die[d].sym
    /\ \A s \in Symbols, n \in AllNames :
          LET m == sym[s].memberNameMap[n]
          IN  m \in Symbols => /\ sym[m].kind = "StructuredMember"
                          /\ sym[m].name = n
                          /\ die[die[m].parent].sym = s

\* The low 32 bits of every enumerator DIE's value stay findable in its Enum,
\* under the name of an enumerator of that Enum with the same low bits: neither
\* another value nor a duplicate enumeration takes them away.
EnumeratorsKept ==
    \A d \in Visited : die[d].tag = "enumerator" =>
        LET e == die[die[d].parent].sym
            key == die[d].val % EnumMod
        IN  \E x \in Visited : /\ die[x].tag = "enumerator"
                               /\ die[die[x].parent].sym = e
                               /\ die[x].val % EnumMod = key
                               /\ die[x].name = sym[e].enumValues[key]

\* "Add a member to this Structured type" (structured.h): a member DIE of a
\* Structured gets a member object, whatever was asked for by name before.
MemberAdded ==
    \A d \in Visited :
        /\ die[d].tag = "member"
        /\ die[die[d].parent].sym # Null
        => die[d].sym # Null

-----------------------------------------------------------------------------
(* What the ids mean to a user, and the abstract namespace they implement. *)

Canon == [d \in Dies |-> IF ids.idMap[d] = 0 THEN Null
                         ELSE findSymbolByID(ids.idMap[d])]

Namespace == INSTANCE SymbolNamespace WITH canon <- Canon

\* The id and alias maps implement the abstract namespace: the symbol an id
\* resolves to never changes once it resolves, and is always a symbol that
\* resolves to itself.
ImplementsNamespace == Namespace!Spec

=============================================================================
