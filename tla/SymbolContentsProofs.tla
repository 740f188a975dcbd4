------------------------ MODULE SymbolContentsProofs -------------------------
(***************************************************************************)
(* Proofs about what SymbolManager keeps in its symbols and by-name        *)
(* indexes, for every input: merging of duplicates, agreement of the       *)
(* indexes, members, enumerators, parameters, and the addresses and return *)
(* types of functions.                                                     *)
(*                                                                         *)
(* Every handler is first reduced to its effect, field by field            *)
(* (ParseEffect); the invariants are then kept by the effect alone.        *)
(***************************************************************************)
EXTENDS SymbolManagerProofs, FiniteSetTheorems

-----------------------------------------------------------------------------
(* The inductive invariant. *)

\* The recursion stack of a file holds DIEs of that file.
StacksOK == \A f \in Files : \A k \in DOMAIN open[f] : open[f][k][2] = f

\* A symbol has the name and the class of the DIE that constructed it.
OwnDie ==
    \A s \in Symbols : /\ sym[s].name = die[s].name
                       /\ sym[s].kind = ClassOf(die[s].tag)

\* The tags whose DIEs always end in a symbol.
SymbolTags == PlainTags \cup {"array_type", "subprogram"}

\* The parent of a DIE is a visited DIE of its file that may have such a
\* child, and the DIEs of SymbolTags have their symbols.
ParentsOK ==
    \A d \in Visited :
        /\ IF die[d].parent = Null THEN "none" \in ParentTags(die[d].tag)
           ELSE /\ die[d].parent \in Visited
                /\ die[d].parent[2] = d[2]
                /\ die[die[d].parent].tag \in ParentTags(die[d].tag)
        /\ die[d].tag \in SymbolTags => die[d].sym # Null

\* The by-name indexes hold symbols of their class under their own names.
IndexesSound ==
    \A n \in Names :
        /\ \A k \in DOMAIN baseTypeNameMap[n] :
              LET s == baseTypeNameMap[n][k]
              IN  sym[s].kind \in BaseTypes /\ sym[s].name = n
        /\ refBaseTypeNameMap[n] # Null =>
              /\ sym[refBaseTypeNameMap[n]].kind \in RefBaseTypes
              /\ sym[refBaseTypeNameMap[n]].name = n
        /\ functionNameMap[n] # Null =>
              /\ sym[functionNameMap[n]].kind = "Function"
              /\ sym[functionNameMap[n]].name = n
        /\ variableNameMap[n] # Null =>
              /\ sym[variableNameMap[n]].kind = "Variable"
              /\ sym[variableNameMap[n]].name = n

\* No named symbol is missing from the indexes of its classes.
IndexesComplete ==
    \A s \in Symbols : sym[s].name # NoName =>
        LET n == sym[s].name
        IN  /\ sym[s].kind \in BaseTypes =>
                  \E k \in DOMAIN baseTypeNameMap[n] : baseTypeNameMap[n][k] = s
            /\ sym[s].kind \in RefBaseTypes => refBaseTypeNameMap[n] # Null
            /\ sym[s].kind = "Function" => functionNameMap[n] # Null
            /\ sym[s].kind = "Variable" => variableNameMap[n] # Null

\* The RefBaseType index holds the last RefBaseType of the multimap.
RefIndexLast ==
    \A n \in Names :
        LET bts == baseTypeNameMap[n]
            refs == {i \in DOMAIN bts : sym[bts[i]].kind \in RefBaseTypes}
        IN  /\ refs = {} => refBaseTypeNameMap[n] = Null
            /\ \A i \in refs : (\A j \in refs : j <= i) => refBaseTypeNameMap[n] = bts[i]

\* What the symbols and indexes hold as far as it does not depend on the maps
\* of ids and aliases.
NamesInv ==
    /\ ShapesOK
    /\ IdsOK(ids)
    /\ StacksOK
    /\ OwnDie
    /\ ParentsOK
    /\ IndexesSound
    /\ IndexesComplete
    /\ RefIndexLast
    /\ OneSymbolPerName
    /\ MergeCompatible
    /\ MembersIndexed

ContentInv == IdInv /\ NamesInv /\ TypeOK

-----------------------------------------------------------------------------
(* The effect of the handler of DIE d with symbol s, parent DIE p and the   *)
(* parent's symbol ps.                                                     *)

SymOf(p) == IF p = Null THEN Null ELSE die[p].sym

VisitEffect(d, tag, n, t, val, s, p) ==
    /\ d \in Dies /\ d \notin Visited
    /\ Visited' = Visited \cup {d}
    /\ \A e \in Visited : die'[e] = die[e]
    /\ die'[d] = [tag |-> tag, name |-> n, type |-> t, val |-> val, sym |-> s, parent |-> p]
    /\ \A e \in Dies : e[2] = d[2] /\ e[1] < d[1] => e \in Visited
    /\ IF p = Null THEN "none" \in ParentTags(tag)
       ELSE /\ p \in Visited
            /\ p[2] = d[2]
            /\ die[p].tag \in ParentTags(tag)

\* A class whose name n leads to no symbol of it yet.
Unused(kind, n) ==
    kind \in {"Array", "StructuredMember"} \/ n = NoName \/
        \A x \in Symbols : ~(sym[x].kind = kind /\ sym[x].name = n)

NameEffect(d, tag, n, s) ==
    /\ Symbols' = IF s = d THEN Symbols \cup {d} ELSE Symbols
    /\ \A x \in Symbols : sym'[x].kind = sym[x].kind /\ sym'[x].name = sym[x].name
    /\ s = d => /\ sym'[d].kind = ClassOf(tag)
                /\ sym'[d].name = n
                /\ Unused(ClassOf(tag), n)
                /\ baseTypeNameMap' = addBaseType(d, ClassOf(tag), n)
                /\ refBaseTypeNameMap' = addRefBaseType(d, ClassOf(tag), n)
                /\ functionNameMap' = addFunction(d, ClassOf(tag), n)
                /\ variableNameMap' = addVariable(d, ClassOf(tag), n)
    /\ s # d => UNCHANGED <<baseTypeNameMap, refBaseTypeNameMap, functionNameMap,
                            variableNameMap>>
    /\ s \notin {d, Null} => /\ s \in Symbols
                             /\ sym[s].name = n
                             /\ IsA(sym[s].kind, ClassOf(tag))
                             /\ n = NoName => sym[s].kind = "StructuredMember"
    /\ tag \in SymbolTags => s # Null

EnumEffect(tag, n, val, ps) ==
    /\ \A x \in Symbols :
          sym'[x].enumValues = IF tag = "enumerator" /\ x = ps
                               THEN addEnum(sym[x].enumValues, val, n)
                               ELSE sym[x].enumValues
    /\ tag = "enumerator" => val \in Constants

MemberEffect(d, tag, n, s, ps) ==
    /\ \A x \in Symbols :
          sym'[x].memberNameMap = IF tag = "member" /\ x = ps /\ s = d
                                  THEN addMember(sym[x].memberNameMap, n, d)
                                  ELSE sym[x].memberNameMap
    /\ tag = "member" =>
          IF ps = Null THEN s = Null
          ELSE sym[ps].memberNameMap[n] = IF s = d THEN NoEntry ELSE s
    /\ s = d => \A m \in AllNames : sym'[d].memberNameMap[m] = NoEntry

ParamEffect(d, tag, n, t, s, ps) ==
    /\ \A x \in Symbols :
          /\ sym'[x].paramList =
                IF tag = "formal_parameter" /\ x = ps /\ ~sym[x].paramsFinal /\ t # Null
                THEN Append(sym[x].paramList, <<n, ids'.idMap[t]>>)
                ELSE sym[x].paramList
          /\ sym'[x].paramsFinal = IF tag = "subprogram" /\ x = s THEN TRUE
                                   ELSE sym[x].paramsFinal
    /\ s = d => sym'[d].paramList = <<>> /\ sym'[d].paramsFinal = FALSE
    /\ tag = "formal_parameter" /\ ps \in Symbols /\ ~sym[ps].paramsFinal /\ t # Null
          => ids'.idMap[t] # 0

ValueEffect(d, tag, t, val, s) ==
    /\ \A x \in Symbols :
          /\ sym'[x].addr = IF tag \in {"subprogram", "variable"} /\ x = s /\ sym[x].addr = 0
                            THEN val ELSE sym[x].addr
          /\ sym'[x].type = IF tag = "subprogram" /\ x = s /\ sym[x].type = 0
                            THEN typeID(ids', t) ELSE sym[x].type
          /\ tag = "subprogram" /\ x = s /\ sym[x].type = 0 /\ t # Null => ids'.idMap[t] # 0
          /\ x = s /\ sym[x].kind = "Function" /\ tag # "subprogram" => val = 0 /\ t = Null
    /\ s = d /\ tag = "subprogram" => /\ sym'[d].addr = val
                                      /\ sym'[d].type = typeID(ids', t)
                                      /\ t # Null => ids'.idMap[t] # 0

ListEffect(d, tag, s, ps) ==
    /\ funcList' = IF s = d /\ ClassOf(tag) = "Function" THEN Append(funcList, d) ELSE funcList
    /\ arrayVector' = IF s = d /\ ClassOf(tag) = "Array" THEN Append(arrayVector, d)
                      ELSE arrayVector
    /\ tag = "array_type" => s = d
    /\ \A x \in Symbols :
          ~(tag = "subrange_type" /\ x = ps) => sym'[x].length = sym[x].length

\* Everything the handler of a DIE does to the DIEs, the symbols and the
\* indexes.
ParseEffect(d, tag, n, t, val, s, p) ==
    /\ VisitEffect(d, tag, n, t, val, s, p)
    /\ NameEffect(d, tag, n, s)
    /\ EnumEffect(tag, n, val, SymOf(p))
    /\ MemberEffect(d, tag, n, s, SymOf(p))
    /\ ParamEffect(d, tag, n, t, s, SymOf(p))
    /\ ValueEffect(d, tag, t, val, s)
    /\ ListEffect(d, tag, s, SymOf(p))

-----------------------------------------------------------------------------
(* Every handler has such an effect. *)

\* What reading a DIE adds to the DIEs.
LEMMA VisitHasEffect ==
    ASSUME ShapesOK, StacksOK, NEW d \in Dies, NEW level \in Nat, NEW tag, NEW n, NEW t,
           NEW val, NEW s, Visit(d, level, tag, n, t, val, s)
    PROVE  /\ VisitEffect(d, tag, n, t, val, s, Parent(d, level))
           /\ SymOf(Parent(d, level)) = ParentSym(d, level)
           /\ StacksOK'
<1>1. d[2] \in Files
  BY ConstantsAssumption
<1>2. open[d[2]] \in Seq(Visited) /\ level \in 0..Len(open[d[2]])
  BY <1>1 DEF ShapesOK, Visit
<1>3. Null \notin Visited /\ Visited \subseteq Dies
  BY ConstantsAssumption DEF ShapesOK
<1> DEFINE Goal == /\ VisitEffect(d, tag, n, t, val, s, Parent(d, level))
                   /\ SymOf(Parent(d, level)) = ParentSym(d, level)
<1>4. ASSUME level = 0 PROVE Goal
  <2>1. Parent(d, level) = Null /\ ParentTag(d, level) = "none" /\ ParentSym(d, level) = Null
    BY <1>4 DEF Parent, ParentTag, ParentSym
  <2> QED
    BY <2>1 DEF Visit, VisitEffect, Put, Visited, SymOf
<1>5. ASSUME level # 0 PROVE Goal
  <2>1. level \in DOMAIN open[d[2]]
    BY <1>2, <1>5
  <2>2. Parent(d, level) \in Visited /\ Parent(d, level)[2] = d[2]
    BY <1>1, <1>2, <1>5, <2>1 DEF Parent, StacksOK
  <2>3. /\ ParentTag(d, level) = die[Parent(d, level)].tag
        /\ ParentSym(d, level) = die[Parent(d, level)].sym
    BY <1>5 DEF Parent, ParentTag, ParentSym
  <2>4. Parent(d, level) # Null
    BY <1>3, <2>2
  <2>5. die[Parent(d, level)].tag \in ParentTags(tag)
    BY <2>3 DEF Visit
  <2> QED
    BY <2>2, <2>3, <2>4, <2>5 DEF Visit, VisitEffect, Put, Visited, SymOf
<1>6. StacksOK'
  <2> DEFINE new == Append(SubSeq(open[d[2]], 1, level), d)
  <2>1. open' = [open EXCEPT ![d[2]] = new] /\ open \in [Files -> Seq(Visited)]
    BY DEF Visit, ShapesOK
  <2>2. SubSeq(open[d[2]], 1, level) \in Seq(Visited) /\ Len(SubSeq(open[d[2]], 1, level)) = level
    BY <1>2
  <2>3. \A k \in 1..level : SubSeq(open[d[2]], 1, level)[k] = open[d[2]][k]
    BY <1>2
  <2>4. /\ Len(new) = level + 1 /\ new[level + 1] = d
        /\ \A k \in 1..level : new[k] = open[d[2]][k]
    BY <2>2, <2>3
  <2>5. DOMAIN new = 1..(level + 1)
    BY <2>2, <2>4
  <2>6. \A k \in 1..level : open[d[2]][k][2] = d[2]
    BY <1>1, <1>2 DEF StacksOK
  <2>7. \A k \in DOMAIN new : new[k][2] = d[2]
    BY <2>4, <2>5, <2>6
  <2> HIDE DEF new
  <2>8. ASSUME NEW f \in Files, NEW k \in DOMAIN open'[f]
        PROVE  open'[f][k][2] = f
    BY <1>1, <2>1, <2>7, <2>8 DEF StacksOK
  <2> QED
    BY <2>8 DEF StacksOK
<1> QED
  BY <1>4, <1>5, <1>6

\* A handler that constructs its DIE's symbol and leaves the others alone.
LEMMA CreateHasEffect ==
    ASSUME ShapesOK, StacksOK, IdsOK(ids), NEW d \in Dies, NEW level \in Nat, NEW tag, NEW n,
           NEW t \in Dies \cup {Null}, NEW val, NEW obj,
           tag \notin {"member", "formal_parameter", "enumerator"},
           obj.kind = ClassOf(tag), obj.name = n,
           obj.memberNameMap = [m \in AllNames |-> NoEntry],
           obj.paramList = <<>>, obj.paramsFinal = FALSE,
           tag = "subprogram" => /\ obj.addr = val
                                 /\ obj.type = typeID(getTypeID(getID(ids, d), t), t),
           Unused(ClassOf(tag), n), Visit(d, level, tag, n, t, val, d),
           Construct(d, getTypeID(getID(ids, d), t), obj, sym)
    PROVE  ParseEffect(d, tag, n, t, val, d, Parent(d, level)) /\ StacksOK'
<1> DEFINE p == Parent(d, level)
           i == getTypeID(getID(ids, d), t)
<1>1. VisitEffect(d, tag, n, t, val, d, p) /\ StacksOK'
  BY VisitHasEffect
<1>2. d \notin Symbols /\ d # Null
  BY <1>1, ConstantsAssumption DEF VisitEffect, ShapesOK
<1>3. sym' = Put(sym, d, obj) /\ ids' = i
  BY DEF Construct
<1>4. Symbols' = Symbols \cup {d} /\ sym'[d] = obj /\ \A x \in Symbols : sym'[x] = sym[x]
  BY <1>2, <1>3 DEF Put, Symbols
<1>5. NameEffect(d, tag, n, d)
  BY <1>2, <1>4 DEF NameEffect, Construct
<1>6. EnumEffect(tag, n, val, SymOf(p)) /\ MemberEffect(d, tag, n, d, SymOf(p))
  BY <1>4 DEF EnumEffect, MemberEffect
<1>7. ParamEffect(d, tag, n, t, d, SymOf(p))
  BY <1>2, <1>4 DEF ParamEffect
<1>8. t # Null => ids'.idMap[t] # 0
  BY <1>3, GetIDOK, GetTypeIDOK
<1>9. ValueEffect(d, tag, t, val, d)
  BY <1>2, <1>3, <1>4, <1>8 DEF ValueEffect
<1>10. ListEffect(d, tag, d, SymOf(p))
  BY <1>4 DEF ListEffect, Construct
<1> QED
  BY <1>1, <1>5, <1>6, <1>7, <1>9, <1>10 DEF ParseEffect

\* A handler that merges its DIE into the known symbol s of its name.
LEMMA MergeHasEffect ==
    ASSUME ShapesOK, StacksOK, NEW d \in Dies, NEW level \in Nat, NEW tag, NEW n,
           NEW t, NEW val, NEW s \in Symbols, NEW i, NEW obj,
           tag \notin {"member", "formal_parameter", "enumerator"},
           Visit(d, level, tag, n, t, val, s), addAlternativeDwarfID(d, s, i, obj),
           sym[s].name = n, n # NoName, IsA(sym[s].kind, ClassOf(tag)),
           obj.kind = sym[s].kind, obj.name = sym[s].name,
           obj.enumValues = sym[s].enumValues, obj.memberNameMap = sym[s].memberNameMap,
           obj.paramList = sym[s].paramList,
           tag = "subprogram" => obj.paramsFinal = TRUE,
           tag # "subprogram" => obj.paramsFinal = sym[s].paramsFinal,
           obj.addr = IF tag \in {"subprogram", "variable"} /\ sym[s].addr = 0
                      THEN val ELSE sym[s].addr,
           obj.type = IF tag = "subprogram" /\ sym[s].type = 0
                      THEN typeID(ids', t) ELSE sym[s].type,
           tag = "subprogram" /\ sym[s].type = 0 /\ t # Null => ids'.idMap[t] # 0,
           obj.length = sym[s].length, tag # "array_type",
           sym[s].kind = "Function" /\ tag # "subprogram" => val = 0 /\ t = Null
    PROVE  ParseEffect(d, tag, n, t, val, s, Parent(d, level)) /\ StacksOK'
<1> DEFINE p == Parent(d, level)
<1>1. VisitEffect(d, tag, n, t, val, s, p) /\ StacksOK'
  BY VisitHasEffect
<1>2. d \notin Symbols /\ s # d /\ s # Null
  BY <1>1, ConstantsAssumption DEF VisitEffect, ShapesOK
<1>3. sym' = [sym EXCEPT ![s] = obj] /\ UNCHANGED nameVars
  BY DEF addAlternativeDwarfID
<1>4. Symbols' = Symbols /\ \A x \in Symbols : sym'[x] = IF x = s THEN obj ELSE sym[x]
  BY <1>3 DEF Symbols
<1>5. NameEffect(d, tag, n, s)
  BY <1>2, <1>3, <1>4 DEF NameEffect, nameVars
<1>6. EnumEffect(tag, n, val, SymOf(p)) /\ MemberEffect(d, tag, n, s, SymOf(p))
  BY <1>2, <1>4 DEF EnumEffect, MemberEffect
<1>7. ParamEffect(d, tag, n, t, s, SymOf(p))
  BY <1>2, <1>4 DEF ParamEffect
<1>8. ValueEffect(d, tag, t, val, s)
  BY <1>2, <1>4 DEF ValueEffect
<1>9. ListEffect(d, tag, s, SymOf(p))
  BY <1>2, <1>3, <1>4 DEF ListEffect, nameVars
<1> QED
  BY <1>1, <1>5, <1>6, <1>7, <1>8, <1>9 DEF ParseEffect

\* A handler that only reads its DIE; a member that is known already becomes
\* the DIE's symbol.
LEMMA SkipHasEffect ==
    ASSUME ShapesOK, StacksOK, NEW d \in Dies, NEW level \in Nat, NEW tag, NEW n,
           NEW t, NEW val, NEW s,
           tag \notin SymbolTags \cup {"enumerator"},
           Visit(d, level, tag, n, t, val, s), UNCHANGED <<ids, sym, idVars, nameVars>>,
           tag = "formal_parameter" /\ t # Null /\ ParentSym(d, level) \in Symbols
               => sym[ParentSym(d, level)].paramsFinal,
           tag # "member" \/ ParentSym(d, level) = Null => s = Null,
           tag = "member" /\ ParentSym(d, level) # Null
               => s = sym[ParentSym(d, level)].memberNameMap[n],
           s # Null => /\ s \in Symbols
                       /\ sym[s].kind = "StructuredMember"
                       /\ sym[s].name = n
    PROVE  ParseEffect(d, tag, n, t, val, s, Parent(d, level)) /\ StacksOK'
<1> DEFINE p == Parent(d, level)
<1>1. /\ VisitEffect(d, tag, n, t, val, s, p) /\ StacksOK'
      /\ SymOf(p) = ParentSym(d, level)
  BY VisitHasEffect
<1>2. d \notin Symbols /\ s # d /\ Null \notin Symbols
  BY <1>1, ConstantsAssumption DEF VisitEffect, ShapesOK
<1>3. Symbols' = Symbols /\ \A x \in Symbols : sym'[x] = sym[x]
  BY DEF Symbols
<1>4. s # Null => IsA(sym[s].kind, ClassOf(tag))
  BY DEF IsA, ClassOf
<1>5. NameEffect(d, tag, n, s)
  BY <1>2, <1>3, <1>4 DEF NameEffect, nameVars
<1>6. EnumEffect(tag, n, val, SymOf(p)) /\ MemberEffect(d, tag, n, s, SymOf(p))
  BY <1>1, <1>2, <1>3 DEF EnumEffect, MemberEffect
<1>7. ParamEffect(d, tag, n, t, s, SymOf(p))
  BY <1>1, <1>2, <1>3 DEF ParamEffect
<1>8. ValueEffect(d, tag, t, val, s)
  BY <1>2, <1>3 DEF ValueEffect
<1>9. ListEffect(d, tag, s, SymOf(p))
  BY <1>2, <1>3 DEF ListEffect, nameVars, SymbolTags
<1> QED
  BY <1>1, <1>5, <1>6, <1>7, <1>8, <1>9 DEF ParseEffect

\* A handler that changes fields of its parent's symbol o.
LEMMA ChangeHasEffect ==
    ASSUME ShapesOK, StacksOK, NEW d \in Dies, NEW level \in Nat, NEW tag, NEW n,
           NEW t, NEW val, NEW i, NEW o \in Symbols, NEW obj,
           tag \notin SymbolTags, tag # "member", tag # "variable",
           Visit(d, level, tag, n, t, val, Null), ChangeSymbol(o, i, obj),
           o = ParentSym(d, level),
           obj.kind = sym[o].kind, obj.name = sym[o].name,
           obj.memberNameMap = sym[o].memberNameMap,
           tag = "enumerator" => /\ val \in Constants
                                 /\ obj.enumValues = addEnum(sym[o].enumValues, val, n),
           tag # "enumerator" => obj.enumValues = sym[o].enumValues,
           tag = "formal_parameter" =>
               /\ ~sym[o].paramsFinal /\ t # Null /\ i.idMap[t] # 0
               /\ obj.paramList = Append(sym[o].paramList, <<n, i.idMap[t]>>),
           tag # "formal_parameter" => obj.paramList = sym[o].paramList,
           tag # "subrange_type" => obj.length = sym[o].length,
           obj.paramsFinal = sym[o].paramsFinal,
           obj.addr = sym[o].addr, obj.type = sym[o].type
    PROVE  ParseEffect(d, tag, n, t, val, Null, Parent(d, level)) /\ StacksOK'
<1> DEFINE p == Parent(d, level)
<1>1. /\ VisitEffect(d, tag, n, t, val, Null, p) /\ StacksOK'
      /\ SymOf(p) = o
  BY VisitHasEffect
<1>2. d # Null /\ Null \notin Symbols
  BY ConstantsAssumption DEF ShapesOK
<1>3. sym' = [sym EXCEPT ![o] = obj] /\ UNCHANGED nameVars /\ ids' = i
  BY DEF ChangeSymbol
<1>4. Symbols' = Symbols /\ \A x \in Symbols : sym'[x] = IF x = o THEN obj ELSE sym[x]
  BY <1>3 DEF Symbols
<1>5. NameEffect(d, tag, n, Null)
  BY <1>2, <1>3, <1>4 DEF NameEffect, nameVars
<1>6. EnumEffect(tag, n, val, SymOf(p)) /\ MemberEffect(d, tag, n, Null, SymOf(p))
  BY <1>1, <1>2, <1>4 DEF EnumEffect, MemberEffect
<1>7. ParamEffect(d, tag, n, t, Null, SymOf(p))
  <2> SUFFICES ASSUME NEW x \in Symbols
               PROVE  /\ sym'[x].paramList =
                            IF tag = "formal_parameter" /\ x = SymOf(p)
                               /\ ~sym[x].paramsFinal /\ t # Null
                            THEN Append(sym[x].paramList, <<n, ids'.idMap[t]>>)
                            ELSE sym[x].paramList
                      /\ sym'[x].paramsFinal = sym[x].paramsFinal
    BY <1>2, <1>3 DEF ParamEffect
  <2>1. CASE x = o
    BY <1>1, <1>3, <1>4, <2>1
  <2>2. CASE x # o
    BY <1>1, <1>4, <2>2
  <2> QED
    BY <2>1, <2>2
<1>8. ValueEffect(d, tag, t, val, Null)
  BY <1>2, <1>4 DEF ValueEffect, SymbolTags
<1>9. ListEffect(d, tag, Null, SymOf(p))
  BY <1>1, <1>2, <1>3, <1>4 DEF ListEffect, nameVars, SymbolTags
<1> QED
  BY <1>1, <1>5, <1>6, <1>7, <1>8, <1>9 DEF ParseEffect

\* The parts of the invariant that decide what a handler merges into.
LookupInv ==
    /\ ShapesOK /\ IdsOK(ids) /\ StacksOK /\ ParentsOK
    /\ IndexesSound /\ IndexesComplete /\ MembersIndexed

Effect(d) ==
    /\ \E tag \in AllTags, n \in AllNames, t \in Dies \cup {Null}, val \in Nat \cup {Null},
          s \in Dies \cup {Null}, p \in Dies \cup {Null} : ParseEffect(d, tag, n, t, val, s, p)
    /\ StacksOK'

\* A visit names a tag, a type and a parent of the input.
LEMMA EffectFound ==
    ASSUME ShapesOK, NEW d \in Dies, NEW level \in Nat, NEW tag, NEW n \in AllNames, NEW t,
           NEW val \in Nat \cup {Null}, NEW s \in Dies \cup {Null},
           Visit(d, level, tag, n, t, val, s),
           ParseEffect(d, tag, n, t, val, s, Parent(d, level)), StacksOK'
    PROVE  Effect(d)
<1>1. tag \in AllTags /\ t \in Dies \cup {Null}
  BY ConstantsAssumption DEF Visit, TypeRefs
<1>2. d[2] \in Files
  BY ConstantsAssumption
<1>3. open[d[2]] \in Seq(Visited) /\ level \in 0..Len(open[d[2]])
  BY <1>2 DEF ShapesOK, Visit
<1>4. Parent(d, level) \in Dies \cup {Null}
  BY <1>3 DEF Parent, ShapesOK
<1> QED
  BY <1>1, <1>4 DEF Effect

\* findBaseTypeByName finds nothing only if there is no such symbol.
LEMMA NotFoundUnused ==
    ASSUME LookupInv, NEW n \in AllNames, NEW class \in BaseTypes,
           findBaseTypeByName(n, class) = Null
    PROVE  Unused(class, n)
<1> SUFFICES ASSUME n # NoName, NEW x \in Symbols, sym[x].kind = class, sym[x].name = n
             PROVE  FALSE
  BY DEF Unused
<1> DEFINE hits == {i \in DOMAIN baseTypeNameMap[n] :
                       IsA(sym[baseTypeNameMap[n][i]].kind, class)}
           first == CHOOSE i \in hits : \A j \in hits : i <= j
<1>1. n \in Names
  BY DEF AllNames
<1>2. PICK k \in DOMAIN baseTypeNameMap[n] : baseTypeNameMap[n][k] = x
  BY DEF LookupInv, IndexesComplete
<1>3. k \in hits
  BY <1>2 DEF IsA
<1>4. findBaseTypeByName(n, class) = baseTypeNameMap[n][first]
  BY <1>3 DEF findBaseTypeByName
<1>5. baseTypeNameMap[n] \in Seq(Symbols) /\ Symbols \subseteq Dies
  BY <1>1 DEF LookupInv, ShapesOK
<1>6. hits \subseteq Nat
  BY <1>5
<1>7. first \in hits
  BY <1>3, <1>6, MinExists
<1>8. baseTypeNameMap[n][first] \in Symbols
  <2>1. first \in DOMAIN baseTypeNameMap[n]
    BY <1>7
  <2> HIDE DEF first
  <2> QED
    BY <1>5, <2>1
<1> QED
  BY <1>4, <1>5, <1>8, ConstantsAssumption

\* What findBaseTypeByName finds has the name and passes the cast.
LEMMA FoundNamed ==
    ASSUME LookupInv, NEW n \in AllNames, NEW class,
           findBaseTypeByName(n, class) # Null
    PROVE  LET s == findBaseTypeByName(n, class)
           IN  /\ s \in Symbols /\ s \in Dies /\ n # NoName
               /\ sym[s].name = n
               /\ sym[s].kind \in BaseTypes
               /\ IsA(sym[s].kind, class)
<1> DEFINE s == findBaseTypeByName(n, class)
<1>1. baseTypeNameMap \in [Names -> Seq(Symbols)] /\ Symbols \subseteq Dies
  BY DEF LookupInv, ShapesOK
<1>2. /\ n \in Names /\ s \in Symbols /\ IsA(sym[s].kind, class)
      /\ \E k \in DOMAIN baseTypeNameMap[n] : s = baseTypeNameMap[n][k]
  BY <1>1, FindBaseShapesOK
<1>3. sym[s].name = n /\ sym[s].kind \in BaseTypes
  BY <1>2 DEF LookupInv, IndexesSound
<1> QED
  BY <1>1, <1>2, <1>3, ConstantsAssumption

\* Typedef, pointer and const DIEs.
LEMMA RefTypeEffect ==
    ASSUME LookupInv, NEW d \in Dies, NEW level \in Nat, NEW tag \in RefTags,
           NEW n \in AllNames, NEW t \in Dies \cup {Null}, RefType(d, level, tag, n, t)
    PROVE  Effect(d)
<1> USE DEF LookupInv
<1> DEFINE rbt == findRefBaseTypeByName(n)
           i == getTypeID(getID(ids, d), t)
           obj == [NewSymbol(ClassOf(tag), n, i.idMap[d]) EXCEPT !.type = typeID(i, t)]
<1>1. /\ tag \notin {"member", "formal_parameter", "enumerator", "subprogram", "variable"}
      /\ tag \notin SymbolTags /\ tag # "array_type"
      /\ ClassOf(tag) \in RefBaseTypes /\ ClassOf(tag) # "Array"
  BY DEF RefTags, SymbolTags, PlainTags, Composites, ClassOf, RefBaseTypes
<1>2. CASE /\ rbt = Null
           /\ Visit(d, level, tag, n, t, 0, d)
           /\ Construct(d, i, obj, sym)
  <2>1. Unused(ClassOf(tag), n)
    BY <1>1, <1>2 DEF Unused, findRefBaseTypeByName, IndexesComplete, AllNames
  <2>2. /\ obj.kind = ClassOf(tag) /\ obj.name = n
        /\ obj.memberNameMap = [m \in AllNames |-> NoEntry]
        /\ obj.paramList = <<>> /\ obj.paramsFinal = FALSE
    BY DEF NewSymbol
  <2>3. ParseEffect(d, tag, n, t, 0, d, Parent(d, level)) /\ StacksOK'
    BY <1>1, <1>2, <2>1, <2>2, CreateHasEffect
  <2> QED
    BY <1>2, <2>3, EffectFound
<1>3. CASE Skip(d, level, tag, n, t)
  <2>1. ParseEffect(d, tag, n, t, 0, Null, Parent(d, level)) /\ StacksOK'
    BY <1>1, <1>3, SkipHasEffect DEF Skip
  <2> QED
    BY <1>3, <2>1, EffectFound DEF Skip
<1>4. CASE /\ rbt # Null
           /\ IsA(sym[rbt].kind, ClassOf(tag))
           /\ Visit(d, level, tag, n, t, 0, rbt)
           /\ addAlternativeDwarfID(d, rbt, ids, sym[rbt])
  <2>1. n \in Names /\ n # NoName /\ rbt = refBaseTypeNameMap[n]
    BY <1>4, ConstantsAssumption DEF findRefBaseTypeByName, AllNames
  <2>2. rbt \in Symbols /\ rbt \in Dies
    BY <1>4, <2>1 DEF ShapesOK
  <2>3. sym[rbt].name = n /\ sym[rbt].kind \in RefBaseTypes
    BY <1>4, <2>1 DEF IndexesSound
  <2>4. sym[rbt].kind # "Function"
    BY <2>3 DEF RefBaseTypes
  <2>5. ParseEffect(d, tag, n, t, 0, rbt, Parent(d, level)) /\ StacksOK'
    BY <1>1, <1>4, <2>1, <2>2, <2>3, <2>4, MergeHasEffect
  <2> QED
    BY <1>4, <2>2, <2>5, EffectFound
<1> QED
  BY <1>2, <1>3, <1>4 DEF RefType

\* Struct, union, base and enumeration type DIEs.
LEMMA PlainTypeEffect ==
    ASSUME LookupInv, NEW d \in Dies, NEW level \in Nat, NEW tag \in PlainTags,
           NEW n \in AllNames, PlainType(d, level, tag, n)
    PROVE  Effect(d)
<1> USE DEF LookupInv
<1> DEFINE known == findBaseTypeByName(n, ClassOf(tag))
           i == getID(ids, d)
           obj == NewSymbol(ClassOf(tag), n, i.idMap[d])
<1>1. /\ tag \notin {"member", "formal_parameter", "enumerator", "subprogram", "variable"}
      /\ tag # "array_type"
      /\ ClassOf(tag) \in BaseTypes
  BY DEF PlainTags, Composites, ClassOf, BaseTypes, Structureds
<1>2. CASE /\ known = Null
           /\ Visit(d, level, tag, n, Null, 0, d)
           /\ Construct(d, i, obj, sym)
  <2>1. Unused(ClassOf(tag), n)
    BY <1>1, <1>2, NotFoundUnused
  <2>2. /\ obj.kind = ClassOf(tag) /\ obj.name = n
        /\ obj.memberNameMap = [m \in AllNames |-> NoEntry]
        /\ obj.paramList = <<>> /\ obj.paramsFinal = FALSE
    BY DEF NewSymbol
  <2>3. i = getTypeID(getID(ids, d), Null)
    BY DEF getTypeID
  <2>4. ParseEffect(d, tag, n, Null, 0, d, Parent(d, level)) /\ StacksOK'
    BY <1>1, <1>2, <2>1, <2>2, <2>3, CreateHasEffect
  <2> QED
    BY <1>2, <2>4, EffectFound
<1>3. CASE /\ known # Null
           /\ Visit(d, level, tag, n, Null, 0, known)
           /\ addAlternativeDwarfID(d, known, ids, sym[known])
  <2>1. /\ known \in Symbols /\ known \in Dies /\ n # NoName
        /\ sym[known].name = n /\ IsA(sym[known].kind, ClassOf(tag))
    BY <1>3, FoundNamed
  <2>2. ParseEffect(d, tag, n, Null, 0, known, Parent(d, level)) /\ StacksOK'
    BY <1>1, <1>3, <2>1, MergeHasEffect
  <2> QED
    BY <1>3, <2>1, <2>2, EffectFound
<1> QED
  BY <1>2, <1>3 DEF PlainType

\* Array DIEs.
LEMMA ArrayTypeEffect ==
    ASSUME LookupInv, NEW d \in Dies, NEW level \in Nat,
           NEW n \in AllNames, NEW t \in Dies \cup {Null}, ArrayType(d, level, n, t)
    PROVE  Effect(d)
<1> USE DEF LookupInv
<1> DEFINE i == getTypeID(getID(ids, d), t)
           obj == [NewSymbol("Array", n, i.idMap[d]) EXCEPT !.type = typeID(i, t)]
<1>1. ClassOf("array_type") = "Array" /\ Unused(ClassOf("array_type"), n)
  BY DEF ClassOf, Unused
<1>2. /\ obj.kind = ClassOf("array_type") /\ obj.name = n
      /\ obj.memberNameMap = [m \in AllNames |-> NoEntry]
      /\ obj.paramList = <<>> /\ obj.paramsFinal = FALSE
  BY <1>1 DEF NewSymbol
<1>3. Visit(d, level, "array_type", n, t, 0, d) /\ Construct(d, i, obj, sym)
  BY DEF ArrayType
<1> HIDE DEF obj
<1>4. ParseEffect(d, "array_type", n, t, 0, d, Parent(d, level)) /\ StacksOK'
  BY <1>2, <1>3, <1>1, CreateHasEffect
<1> QED
  BY <1>3, <1>4, EffectFound

\* A subprogram DIE.
LEMMA SubprogramEffect ==
    ASSUME LookupInv, NEW d \in Dies, NEW level \in Nat, NEW n \in AllNames,
           NEW t \in Dies \cup {Null}, NEW val \in Nat, Subprogram(d, level, n, t, val)
    PROVE  Effect(d)
<1> USE DEF LookupInv
<1> DEFINE f == findBaseTypeByName(n, "Function")
<1>1. ClassOf("subprogram") = "Function" /\ "Function" \in BaseTypes
  BY DEF ClassOf, BaseTypes
<1>2. CASE f = Null
  <2> DEFINE i == getTypeID(getID(ids, d), t)
             obj == NewSymbol("Function", n, i.idMap[d])
             new == [Function_update(obj, i, t, val) EXCEPT !.paramsFinal = FALSE]
  <2>1. Unused(ClassOf("subprogram"), n)
    BY <1>1, <1>2, NotFoundUnused
  <2>2. /\ new.kind = ClassOf("subprogram") /\ new.name = n
        /\ new.memberNameMap = [m \in AllNames |-> NoEntry]
        /\ new.paramList = <<>> /\ new.paramsFinal = FALSE
        /\ new.addr = val /\ new.type = typeID(i, t)
    BY <1>1 DEF NewSymbol, Function_update
  <2>3. Visit(d, level, "subprogram", n, t, val, d) /\ Construct(d, i, new, sym)
    BY <1>2 DEF Subprogram
  <2> HIDE DEF new
  <2>4. ParseEffect(d, "subprogram", n, t, val, d, Parent(d, level)) /\ StacksOK'
    BY <1>1, <2>1, <2>2, <2>3, CreateHasEffect
  <2> QED
    BY <2>3, <2>4, EffectFound
<1>3. CASE f # Null
  <2> DEFINE i == IF sym[f].type = 0 THEN getTypeID(ids, t) ELSE ids
             new == Function_update(sym[f], i, t, val)
  <2>1. /\ f \in Symbols /\ f \in Dies /\ n # NoName
        /\ sym[f].name = n /\ IsA(sym[f].kind, ClassOf("subprogram"))
    BY <1>1, <1>3, FoundNamed
  <2>2. Visit(d, level, "subprogram", n, t, val, f) /\ addAlternativeDwarfID(d, f, i, new)
    BY <1>3 DEF Subprogram
  <2>3. sym[f] \in SymbolType
    BY <2>1 DEF ShapesOK
  <2>4. ids' = getID(i, d)
    BY <2>2 DEF addAlternativeDwarfID
  <2>5. ASSUME sym[f].type = 0
        PROVE  typeID(i, t) = typeID(ids', t) /\ (t # Null => ids'.idMap[t] # 0)
    <3>1. i = getTypeID(ids, t) /\ IdsOK(i)
      BY <2>5, GetTypeIDOK
    <3>2. t # Null => i.idMap[t] # 0
      BY <3>1, GetTypeIDOK
    <3>3. t # Null => ids'.idMap[t] = i.idMap[t]
      BY <2>4, <3>1, <3>2, GetIDOK
    <3> QED
      BY <3>2, <3>3 DEF typeID
  <2>6. /\ new.kind = sym[f].kind /\ new.name = sym[f].name
        /\ new.enumValues = sym[f].enumValues /\ new.memberNameMap = sym[f].memberNameMap
        /\ new.paramList = sym[f].paramList /\ new.paramsFinal = TRUE
        /\ new.length = sym[f].length
        /\ new.addr = IF sym[f].addr = 0 THEN val ELSE sym[f].addr
        /\ new.type = IF sym[f].type = 0 THEN typeID(ids', t) ELSE sym[f].type
    BY <2>3, <2>5 DEF Function_update, SymbolType
  <2> HIDE DEF new, i, f
  <2>7. ParseEffect(d, "subprogram", n, t, val, f, Parent(d, level)) /\ StacksOK'
    BY <1>1, <2>1, <2>2, <2>5, <2>6, MergeHasEffect
  <2> QED
    BY <2>1, <2>2, <2>7, EffectFound
<1> QED
  BY <1>2, <1>3

\* Variable DIEs.
LEMMA VariableEffect ==
    ASSUME LookupInv, NEW d \in Dies, NEW level \in Nat, NEW n \in AllNames,
           NEW t \in Dies \cup {Null}, NEW val \in Nat, NEW spec \in BOOLEAN,
           VariableDie(d, level, n, t, val, spec)
    PROVE  Effect(d)
<1> USE DEF LookupInv
<1> DEFINE v == findVariableByName(n)
           i == getTypeID(getID(ids, d), t)
<1>1. ClassOf("variable") = "Variable" /\ "variable" \notin SymbolTags
  BY DEF ClassOf, SymbolTags, PlainTags, Composites
<1>2. CASE Skip(d, level, "variable", n, t)
  <2>1. ParseEffect(d, "variable", n, t, 0, Null, Parent(d, level)) /\ StacksOK'
    BY <1>1, <1>2, SkipHasEffect DEF Skip
  <2> QED
    BY <1>2, <2>1, EffectFound DEF Skip
<1>3. CASE /\ v = Null
           /\ Visit(d, level, "variable", n, t, val, d)
           /\ \E ty \in referencingTypeIDs(i, t) :
                 Construct(d, i, [NewSymbol("Variable", n, i.idMap[d])
                                     EXCEPT !.type = ty, !.addr = val], sym)
  <2>1. PICK ty \in referencingTypeIDs(i, t) :
             Construct(d, i, [NewSymbol("Variable", n, i.idMap[d])
                                 EXCEPT !.type = ty, !.addr = val], sym)
    BY <1>3
  <2> DEFINE obj == [NewSymbol("Variable", n, i.idMap[d]) EXCEPT !.type = ty, !.addr = val]
  <2>2. Unused(ClassOf("variable"), n)
    BY <1>1, <1>3 DEF Unused, findVariableByName, IndexesComplete, AllNames
  <2>3. /\ obj.kind = ClassOf("variable") /\ obj.name = n
        /\ obj.memberNameMap = [m \in AllNames |-> NoEntry]
        /\ obj.paramList = <<>> /\ obj.paramsFinal = FALSE
    BY <1>1 DEF NewSymbol
  <2>5. Construct(d, i, obj, sym)
    BY <2>1
  <2> HIDE DEF obj
  <2>4. ParseEffect(d, "variable", n, t, val, d, Parent(d, level)) /\ StacksOK'
    BY <1>3, <2>2, <2>3, <2>5, CreateHasEffect
  <2> QED
    BY <1>3, <2>4, EffectFound
<1>4. CASE /\ v # Null
           /\ Visit(d, level, "variable", n, t, val, v)
           /\ addAlternativeDwarfID(d, v, ids, Variable_update(sym[v], val))
  <2> DEFINE new == Variable_update(sym[v], val)
  <2>1. n \in Names /\ n # NoName /\ v = variableNameMap[n]
    BY <1>4, ConstantsAssumption DEF findVariableByName, AllNames
  <2>2. v \in Symbols /\ v \in Dies
    BY <1>4, <2>1 DEF ShapesOK
  <2>3. /\ sym[v].name = n /\ sym[v].kind = "Variable"
        /\ IsA(sym[v].kind, ClassOf("variable"))
    BY <1>1, <1>4, <2>1 DEF IndexesSound, IsA
  <2>4. sym[v] \in SymbolType
    BY <2>2 DEF ShapesOK
  <2>5. /\ new.kind = sym[v].kind /\ new.name = sym[v].name
        /\ new.enumValues = sym[v].enumValues /\ new.memberNameMap = sym[v].memberNameMap
        /\ new.paramList = sym[v].paramList
        /\ new.paramsFinal = sym[v].paramsFinal /\ new.length = sym[v].length
        /\ new.addr = IF sym[v].addr = 0 THEN val ELSE sym[v].addr
        /\ new.type = sym[v].type
    BY <2>4 DEF Variable_update, SymbolType
  <2>7. Visit(d, level, "variable", n, t, val, v) /\ addAlternativeDwarfID(d, v, ids, new)
    BY <1>4
  <2> HIDE DEF new, v
  <2>6. ParseEffect(d, "variable", n, t, val, v, Parent(d, level)) /\ StacksOK'
    <3>1. "variable" \notin {"member", "formal_parameter", "enumerator", "array_type"}
      OBVIOUS
    <3> QED
      BY <2>1, <2>2, <2>3, <2>5, <2>7, <3>1, MergeHasEffect
  <2> QED
    BY <2>2, <2>6, <2>7, EffectFound
<1> QED
  BY <1>2, <1>3, <1>4 DEF VariableDie

\* The symbol of the parent of a DIE: one that must have a symbol has it.
LEMMA ParentSymbol ==
    ASSUME LookupInv, NEW d \in Dies, NEW level \in Nat, NEW tag, NEW n, NEW t, NEW val,
           NEW s, Visit(d, level, tag, n, t, val, s)
    PROVE  /\ ParentSym(d, level) \in Symbols \cup {Null}
           /\ tag \in {"enumerator", "subrange_type"} => ParentSym(d, level) \in Symbols
<1> USE DEF LookupInv
<1> DEFINE p == Parent(d, level)
<1>1. VisitEffect(d, tag, n, t, val, s, p) /\ SymOf(p) = ParentSym(d, level)
  BY VisitHasEffect
<1>2. CASE p = Null
  <2>1. "none" \notin ParentTags("enumerator") /\ "none" \notin ParentTags("subrange_type")
    BY DEF ParentTags
  <2> QED
    BY <1>1, <1>2, <2>1 DEF VisitEffect, SymOf
<1>3. CASE p # Null
  <2>1. p \in Visited /\ die[p].tag \in ParentTags(tag)
    BY <1>1, <1>3 DEF VisitEffect
  <2>2. die[p].sym \in Symbols \cup {Null}
    BY <2>1 DEF ShapesOK, DieType
  <2>3. tag \in {"enumerator", "subrange_type"} => die[p].tag \in SymbolTags
    BY <2>1 DEF ParentTags, SymbolTags, PlainTags
  <2>4. tag \in {"enumerator", "subrange_type"} => die[p].sym # Null
    BY <2>1, <2>3 DEF ParentsOK
  <2> QED
    BY <1>1, <1>3, <2>2, <2>4 DEF SymOf
<1> QED
  BY <1>2, <1>3

\* Subrange DIEs.
LEMMA SubrangeEffect ==
    ASSUME LookupInv, NEW d \in Dies, NEW level \in Nat,
           NEW t \in Dies \cup {Null}, NEW ub \in Bounds \cup {Null},
           Subrange(d, level, t, ub)
    PROVE  Effect(d)
<1> USE DEF LookupInv
<1> DEFINE a == ParentSym(d, level)
           i == getTypeID(ids, t)
           obj == [sym[a] EXCEPT
                      !.lengthType = IF t = Null THEN @ ELSE i.idMap[t],
                      !.length = IF ub = Null THEN @ ELSE (ub + 1) % LengthMod]
<1>1. Visit(d, level, "subrange_type", NoName, t, ub, Null) /\ ChangeSymbol(a, i, obj)
  BY DEF Subrange
<1>2. a \in Symbols
  BY <1>1, ParentSymbol
<1>3. sym[a] \in SymbolType
  BY <1>2 DEF ShapesOK
<1>4. /\ obj.kind = sym[a].kind /\ obj.name = sym[a].name
      /\ obj.memberNameMap = sym[a].memberNameMap /\ obj.enumValues = sym[a].enumValues
      /\ obj.paramList = sym[a].paramList /\ obj.paramsFinal = sym[a].paramsFinal
      /\ obj.addr = sym[a].addr /\ obj.type = sym[a].type
  BY <1>3 DEF SymbolType
<1>7. a = ParentSym(d, level)
  OBVIOUS
<1> HIDE DEF obj, i, a
<1>5. ParseEffect(d, "subrange_type", NoName, t, ub, Null, Parent(d, level)) /\ StacksOK'
  <2>1. "subrange_type" \notin SymbolTags
    BY DEF SymbolTags, PlainTags, Composites
  <2> QED
    BY <1>1, <1>2, <1>4, <1>7, <2>1, ChangeHasEffect
<1>6. NoName \in AllNames /\ ub \in Nat \cup {Null}
  BY ConstantsAssumption DEF AllNames
<1> QED
  BY <1>1, <1>5, <1>6, EffectFound

\* Enumerator DIEs.
LEMMA EnumeratorEffect ==
    ASSUME LookupInv, NEW d \in Dies, NEW level \in Nat, NEW n \in AllNames,
           NEW val \in Constants, Enumerator(d, level, n, val)
    PROVE  Effect(d)
<1> USE DEF LookupInv
<1> DEFINE e == ParentSym(d, level)
           obj == [sym[e] EXCEPT !.enumValues = addEnum(@, val, n)]
<1>1. Visit(d, level, "enumerator", n, Null, val, Null) /\ ChangeSymbol(e, ids, obj)
  BY DEF Enumerator
<1>2. e \in Symbols
  BY <1>1, ParentSymbol
<1>3. sym[e] \in SymbolType
  BY <1>2 DEF ShapesOK
<1>4. /\ obj.kind = sym[e].kind /\ obj.name = sym[e].name
      /\ obj.memberNameMap = sym[e].memberNameMap
      /\ obj.enumValues = addEnum(sym[e].enumValues, val, n)
      /\ obj.paramList = sym[e].paramList /\ obj.paramsFinal = sym[e].paramsFinal
      /\ obj.addr = sym[e].addr /\ obj.type = sym[e].type /\ obj.length = sym[e].length
  BY <1>3 DEF SymbolType
<1>7. e = ParentSym(d, level)
  OBVIOUS
<1> HIDE DEF obj, e
<1>5. ParseEffect(d, "enumerator", n, Null, val, Null, Parent(d, level)) /\ StacksOK'
  <2>1. "enumerator" \notin SymbolTags
    BY DEF SymbolTags, PlainTags, Composites
  <2> QED
    BY <1>1, <1>2, <1>4, <1>7, <2>1, ChangeHasEffect
<1>6. val \in Nat \cup {Null}
  BY ConstantsAssumption
<1> QED
  BY <1>1, <1>5, <1>6, EffectFound

\* Formal parameter DIEs.
LEMMA FormalParameterEffect ==
    ASSUME LookupInv, NEW d \in Dies, NEW level \in Nat, NEW n \in AllNames,
           NEW t \in Dies \cup {Null}, FormalParameter(d, level, n, t)
    PROVE  Effect(d)
<1> USE DEF LookupInv
<1> DEFINE f == ParentSym(d, level)
           i == getTypeID(ids, t)
           obj == [sym[f] EXCEPT !.paramList = Append(@, <<n, i.idMap[t]>>)]
<1>1. Null \notin Symbols
  BY ConstantsAssumption DEF ShapesOK
<1>2. CASE /\ f = Null \/ sym[f].paramsFinal \/ t = Null
           /\ Skip(d, level, "formal_parameter", n, t)
  <2>1. "formal_parameter" \notin SymbolTags \cup {"enumerator"}
    BY DEF SymbolTags, PlainTags, Composites
  <2>2. ParseEffect(d, "formal_parameter", n, t, 0, Null, Parent(d, level)) /\ StacksOK'
    BY <1>1, <1>2, <2>1, SkipHasEffect DEF Skip
  <2> QED
    BY <1>2, <2>2, EffectFound DEF Skip
<1>3. CASE /\ f # Null
           /\ ~sym[f].paramsFinal
           /\ t # Null
           /\ Visit(d, level, "formal_parameter", n, t, 0, Null)
           /\ ChangeSymbol(f, i, obj)
  <2>1. f \in Symbols
    BY <1>3, ParentSymbol
  <2>2. sym[f] \in SymbolType
    BY <2>1 DEF ShapesOK
  <2>3. /\ obj.kind = sym[f].kind /\ obj.name = sym[f].name
        /\ obj.memberNameMap = sym[f].memberNameMap /\ obj.enumValues = sym[f].enumValues
        /\ obj.paramList = Append(sym[f].paramList, <<n, i.idMap[t]>>)
        /\ obj.paramsFinal = sym[f].paramsFinal
        /\ obj.addr = sym[f].addr /\ obj.type = sym[f].type /\ obj.length = sym[f].length
    BY <2>2 DEF SymbolType
  <2>4. /\ Visit(d, level, "formal_parameter", n, t, 0, Null) /\ ChangeSymbol(f, i, obj)
        /\ ~sym[f].paramsFinal /\ t # Null /\ f = ParentSym(d, level)
    BY <1>3
  <2>6. i.idMap[t] # 0
    BY <1>3, GetTypeIDOK
  <2> HIDE DEF obj, i, f
  <2>5. ParseEffect(d, "formal_parameter", n, t, 0, Null, Parent(d, level)) /\ StacksOK'
    <3>1. "formal_parameter" \notin SymbolTags
      BY DEF SymbolTags, PlainTags, Composites
    <3> QED
      BY <2>1, <2>3, <2>4, <2>6, <3>1, ChangeHasEffect
  <2> QED
    BY <2>4, <2>5, EffectFound
<1> QED
  BY <1>2, <1>3 DEF FormalParameter

\* Member DIEs.
LEMMA MemberDieEffect ==
    ASSUME LookupInv, NEW d \in Dies, NEW level \in Nat, NEW n \in AllNames,
           NEW t \in Dies \cup {Null}, Member(d, level, n, t)
    PROVE  Effect(d)
<1> USE DEF LookupInv
<1> DEFINE s == ParentSym(d, level)
           p == Parent(d, level)
           i == getTypeID(getID(ids, d), t)
           new(ty) == [NewSymbol("StructuredMember", n, i.idMap[d]) EXCEPT !.type = ty]
           others == [sym EXCEPT ![s].memberNameMap = addMember(@, n, d)]
<1>1. Null \notin Symbols /\ Symbols \subseteq Dies
  BY ConstantsAssumption DEF ShapesOK
<1>2. "member" \notin SymbolTags \cup {"enumerator"} /\ ClassOf("member") = "StructuredMember"
  BY DEF SymbolTags, PlainTags, Composites, ClassOf
<1>3. CASE s = Null /\ Skip(d, level, "member", n, t)
  <2>1. ParseEffect(d, "member", n, t, 0, Null, p) /\ StacksOK'
    BY <1>2, <1>3, SkipHasEffect DEF Skip
  <2> QED
    BY <1>3, <2>1, EffectFound DEF Skip
<1>4. CASE /\ s # Null
           /\ sym[s].memberNameMap[n] # NoEntry
           /\ Visit(d, level, "member", n, t, 0, sym[s].memberNameMap[n])
           /\ UNCHANGED <<ids, sym, idVars, nameVars>>
  <2> DEFINE m == sym[s].memberNameMap[n]
  <2>1. s \in Symbols
    BY <1>4, ParentSymbol
  <2>2. m \in Symbols \cup {Null}
    BY <1>4, <2>1 DEF ShapesOK, SymbolType
  <2>3. m # Null => m \in Symbols /\ sym[m].kind = "StructuredMember" /\ sym[m].name = n
    BY <2>1, <2>2 DEF MembersIndexed
  <2>4. Visit(d, level, "member", n, t, 0, m)
    BY <1>4
  <2>5. m = sym[s].memberNameMap[n]
    OBVIOUS
  <2> HIDE DEF m
  <2>6. ParseEffect(d, "member", n, t, 0, m, p) /\ StacksOK'
    BY <1>2, <1>4, <2>3, <2>4, <2>5, SkipHasEffect
  <2> QED
    BY <1>1, <2>2, <2>4, <2>6, EffectFound
<1>5. CASE /\ s # Null
           /\ sym[s].memberNameMap[n] = NoEntry
           /\ Visit(d, level, "member", n, t, 0, d)
           /\ \E ty \in referencingTypeIDs(i, t) : Construct(d, i, new(ty), others)
  <2>1. PICK ty \in referencingTypeIDs(i, t) : Construct(d, i, new(ty), others)
    BY <1>5
  <2> DEFINE obj == new(ty)
             changed == [sym[s] EXCEPT !.memberNameMap = addMember(@, n, d)]
  <2>2. s \in Symbols
    BY <1>5, ParentSymbol
  <2>3. sym[s] \in SymbolType
    BY <2>2 DEF ShapesOK
  <2>4. /\ VisitEffect(d, "member", n, t, 0, d, p) /\ StacksOK'
        /\ SymOf(p) = s
    BY <1>5, VisitHasEffect
  <2>5. d \notin Symbols /\ d # Null
    BY <2>4, ConstantsAssumption DEF VisitEffect, ShapesOK
  <2>6. sym' = Put(others, d, obj) /\ others = [sym EXCEPT ![s] = changed]
    BY <2>1 DEF Construct
  <2>7. /\ Symbols' = Symbols \cup {d} /\ sym'[d] = obj
        /\ \A x \in Symbols : sym'[x] = IF x = s THEN changed ELSE sym[x]
    BY <2>5, <2>6 DEF Put, Symbols
  <2>8. /\ obj.kind = "StructuredMember" /\ obj.name = n
        /\ \A m \in AllNames : obj.memberNameMap[m] = NoEntry
        /\ obj.paramList = <<>> /\ obj.paramsFinal = FALSE
    BY DEF NewSymbol
  <2>9. /\ changed.kind = sym[s].kind /\ changed.name = sym[s].name
        /\ changed.memberNameMap = addMember(sym[s].memberNameMap, n, d)
        /\ changed.enumValues = sym[s].enumValues
        /\ changed.paramList = sym[s].paramList /\ changed.paramsFinal = sym[s].paramsFinal
        /\ changed.addr = sym[s].addr /\ changed.type = sym[s].type
        /\ changed.length = sym[s].length
    BY <2>3 DEF SymbolType
  <2>14. Construct(d, i, obj, others)
    BY <2>1
  <2>15. Unused(ClassOf("member"), n)
    BY <1>2 DEF Unused
  <2> HIDE DEF obj, changed, others
  <2>10. NameEffect(d, "member", n, d)
    BY <1>2, <2>5, <2>7, <2>8, <2>9, <2>14, <2>15 DEF NameEffect, Construct
  <2>11. EnumEffect("member", n, 0, SymOf(p)) /\ MemberEffect(d, "member", n, d, SymOf(p))
    BY <1>5, <2>4, <2>7, <2>8, <2>9 DEF EnumEffect, MemberEffect
  <2>12. ParamEffect(d, "member", n, t, d, SymOf(p))
    BY <2>5, <2>7, <2>8, <2>9 DEF ParamEffect
  <2>13. ValueEffect(d, "member", t, 0, d)
    BY <2>5, <2>7, <2>8, <2>9 DEF ValueEffect
  <2>16. ParseEffect(d, "member", n, t, 0, d, p)
    <3>1. ListEffect(d, "member", d, SymOf(p))
      BY <1>2, <2>5, <2>7, <2>8, <2>9, <2>14 DEF ListEffect, Construct
    <3> QED
      BY <2>4, <2>10, <2>11, <2>12, <2>13, <3>1 DEF ParseEffect
  <2> QED
    BY <1>5, <2>4, <2>16, EffectFound
<1> QED
  BY <1>3, <1>4, <1>5 DEF Member

-----------------------------------------------------------------------------
(* The calls of a user, and every step. *)

UserEffect ==
    /\ UNCHANGED <<ids, die, open, baseTypeNameMap, refBaseTypeNameMap, functionNameMap,
                   variableNameMap>>
    /\ Symbols' = Symbols
    /\ \A x \in Symbols :
          /\ sym'[x].kind = sym[x].kind
          /\ sym'[x].name = sym[x].name
          /\ sym'[x].enumValues = sym[x].enumValues
          /\ sym'[x].paramList = sym[x].paramList
          /\ sym'[x].paramsFinal = sym[x].paramsFinal
          /\ sym'[x].type = sym[x].type
          /\ sym[x].kind # "Variable" => sym'[x].addr = sym[x].addr
          /\ \A n \in AllNames :
                \/ sym'[x].memberNameMap[n] = sym[x].memberNameMap[n]
                \/ sym[x].memberNameMap[n] = NoEntry /\ sym'[x].memberNameMap[n] = Null

\* memberByName and setLocation.
LEMMA UserCallEffect ==
    ASSUME ShapesOK, UserCall
    PROVE  UserEffect
<1>1. PICK s \in Symbols : \/ \E n \in Queries : memberByName(s, n)
                           \/ \E a \in Relocations : setLocation(s, a)
  BY DEF UserCall
<1>2. sym[s] \in SymbolType
  BY DEF ShapesOK
<1>3. CASE \E n \in Queries : memberByName(s, n)
  <2>1. PICK q \in Queries : memberByName(s, q)
    BY <1>3
  <2> DEFINE obj == [sym[s] EXCEPT !.memberNameMap[q] = Null]
  <2>2. q \in AllNames /\ sym[s].memberNameMap[q] = NoEntry
    BY <2>1, ConstantsAssumption DEF memberByName
  <2>3. /\ sym' = [sym EXCEPT ![s] = obj]
        /\ UNCHANGED <<ids, die, open, nameVars>>
    BY <2>1 DEF memberByName, ChangeSymbol
  <2>4. Symbols' = Symbols /\ \A x \in Symbols : sym'[x] = IF x = s THEN obj ELSE sym[x]
    BY <2>3 DEF Symbols
  <2>5. /\ obj.kind = sym[s].kind /\ obj.name = sym[s].name
        /\ obj.enumValues = sym[s].enumValues
        /\ obj.paramList = sym[s].paramList /\ obj.paramsFinal = sym[s].paramsFinal
        /\ obj.addr = sym[s].addr /\ obj.type = sym[s].type
        /\ \A n \in AllNames : obj.memberNameMap[n] = IF n = q THEN Null
                                                      ELSE sym[s].memberNameMap[n]
    BY <1>2, <2>2 DEF SymbolType
  <2> HIDE DEF obj
  <2> QED
    BY <2>2, <2>3, <2>4, <2>5 DEF UserEffect, nameVars
<1>4. CASE \E a \in Relocations : setLocation(s, a)
  <2>1. PICK a \in Relocations : setLocation(s, a)
    BY <1>4
  <2> DEFINE obj == [sym[s] EXCEPT !.addr = a]
  <2>2. sym[s].kind = "Variable"
    BY <2>1 DEF setLocation
  <2>3. /\ sym' = [sym EXCEPT ![s] = obj]
        /\ UNCHANGED <<ids, die, open, nameVars>>
    BY <2>1 DEF setLocation, ChangeSymbol
  <2>4. Symbols' = Symbols /\ \A x \in Symbols : sym'[x] = IF x = s THEN obj ELSE sym[x]
    BY <2>3 DEF Symbols
  <2>5. /\ obj.kind = sym[s].kind /\ obj.name = sym[s].name
        /\ obj.enumValues = sym[s].enumValues
        /\ obj.paramList = sym[s].paramList /\ obj.paramsFinal = sym[s].paramsFinal
        /\ obj.type = sym[s].type /\ obj.memberNameMap = sym[s].memberNameMap
    BY <1>2 DEF SymbolType
  <2> HIDE DEF obj
  <2> QED
    BY <2>2, <2>3, <2>4, <2>5 DEF UserEffect, nameVars
<1> QED
  BY <1>1, <1>3, <1>4

\* Every handler has its effect.
LEMMA ParseDieEffect ==
    ASSUME LookupInv, NEW d \in Dies, NEW level \in 0..Len(open[d[2]]), ParseDie(d, level)
    PROVE  Effect(d)
<1>1. d[2] \in Files
  BY ConstantsAssumption
<1>2. level \in Nat
  BY <1>1 DEF LookupInv, ShapesOK
<1>3. ASSUME Skip(d, level, "unsupported", NoName, Null)
      PROVE  Effect(d)
  <2>1. "unsupported" \notin SymbolTags \cup {"enumerator"}
    BY DEF SymbolTags, PlainTags, Composites
  <2>2. /\ ParseEffect(d, "unsupported", NoName, Null, 0, Null, Parent(d, level))
        /\ StacksOK'
    BY <1>2, <1>3, <2>1, SkipHasEffect DEF Skip, LookupInv
  <2>3. NoName \in AllNames
    BY DEF AllNames
  <2> QED
    BY <1>2, <1>3, <2>2, <2>3, EffectFound DEF Skip, LookupInv
<1>4. ASSUME NEW n \in AllNames, NEW tag \in PlainTags, PlainType(d, level, tag, n)
      PROVE  Effect(d)
  BY <1>2, <1>4, PlainTypeEffect
<1>5. ASSUME NEW n \in AllNames, NEW c \in Constants, Enumerator(d, level, n, c)
      PROVE  Effect(d)
  BY <1>2, <1>5, EnumeratorEffect
<1>6. ASSUME NEW n \in AllNames, NEW t \in Dies \cup {Null},
             \/ \E tag \in RefTags : RefType(d, level, tag, n, t)
             \/ ArrayType(d, level, n, t)
             \/ FormalParameter(d, level, n, t)
             \/ Member(d, level, n, t)
      PROVE  Effect(d)
  BY <1>2, <1>6, RefTypeEffect, ArrayTypeEffect, FormalParameterEffect, MemberDieEffect
<1>7. ASSUME NEW n \in AllNames, NEW t \in Dies \cup {Null}, NEW a \in Addresses \cup {0},
             \/ Subprogram(d, level, n, t, a)
             \/ \E spec \in BOOLEAN : VariableDie(d, level, n, t, a, spec)
      PROVE  Effect(d)
  <2>1. a \in Nat
    BY ConstantsAssumption
  <2> QED
    BY <1>2, <1>7, <2>1, SubprogramEffect, VariableEffect
<1>8. ASSUME NEW t \in Dies \cup {Null}, NEW ub \in Bounds \cup {Null},
              Subrange(d, level, t, ub)
       PROVE  Effect(d)
  BY <1>2, <1>8, SubrangeEffect
<1> QED
  BY <1>3, <1>4, <1>5, <1>6, <1>7, <1>8 DEF ParseDie

\* Every step has the effect of a handler or of a user's call.
LEMMA NextEffect ==
    ASSUME LookupInv, [Next]_vars
    PROVE  (\E d \in Dies : Effect(d)) \/ UserEffect
<1>1. CASE UserCall
  BY <1>1, UserCallEffect DEF LookupInv
<1>2. CASE UNCHANGED vars
  BY <1>2 DEF vars, nameVars, UserEffect, Symbols
<1>3. CASE \E d \in Dies : \E level \in 0..Len(open[d[2]]) : ParseDie(d, level)
  BY <1>3, ParseDieEffect
<1> QED
  BY <1>1, <1>2, <1>3 DEF Next

-----------------------------------------------------------------------------
(* The effect of a handler keeps the invariant. *)

\* What every proof below uses of the state and of the effect.
LEMMA EffectBasics ==
    ASSUME NamesInv, ShapesOK', NEW d \in Dies, NEW tag, NEW n \in AllNames, NEW t, NEW val,
           NEW s, NEW p, ParseEffect(d, tag, n, t, val, s, p)
    PROVE  /\ Symbols \subseteq Visited /\ Visited \subseteq Dies /\ Null \notin Dies
           /\ d \notin Visited /\ d \notin Symbols /\ Visited' = Visited \cup {d}
           /\ Symbols' = IF s = d THEN Symbols \cup {d} ELSE Symbols
           /\ \A e \in Visited : die'[e] = die[e]
           /\ die'[d] = [tag |-> tag, name |-> n, type |-> t, val |-> val,
                         sym |-> s, parent |-> p]
           /\ n # NoName => n \in Names
           /\ \A x \in Visited : die[x].sym \in Symbols \cup {Null}
<1>1. Symbols \subseteq Visited /\ Visited \subseteq Dies /\ Null \notin Dies
  BY ConstantsAssumption DEF NamesInv, ShapesOK
<1>2. \A x \in Visited : die[x].sym \in Symbols \cup {Null}
  BY DEF NamesInv, ShapesOK, DieType
<1> QED
  BY <1>1, <1>2 DEF ParseEffect, VisitEffect, NameEffect, AllNames

\* A symbol keeps the name and class of its DIE, and a DIE its parent.
LEMMA EffectKeepsDies ==
    ASSUME NamesInv, ShapesOK', NEW d \in Dies, NEW tag, NEW n \in AllNames, NEW t, NEW val,
           NEW s, NEW p, ParseEffect(d, tag, n, t, val, s, p)
    PROVE  OwnDie' /\ ParentsOK'
<1>1. /\ Symbols \subseteq Visited /\ Visited \subseteq Dies /\ Null \notin Dies
      /\ d \notin Visited /\ d \notin Symbols /\ Visited' = Visited \cup {d}
      /\ Symbols' = IF s = d THEN Symbols \cup {d} ELSE Symbols
      /\ \A e \in Visited : die'[e] = die[e]
      /\ die'[d] = [tag |-> tag, name |-> n, type |-> t, val |-> val,
                    sym |-> s, parent |-> p]
  BY EffectBasics
<1>2. ASSUME NEW x \in Symbols'
      PROVE  sym'[x].name = die'[x].name /\ sym'[x].kind = ClassOf(die'[x].tag)
  <2>1. CASE x = d
    BY <1>1, <2>1 DEF ParseEffect, NameEffect
  <2>2. CASE x # d
    BY <1>1, <2>2 DEF ParseEffect, NameEffect, NamesInv, OwnDie
  <2> QED
    BY <2>1, <2>2
<1>3. ASSUME NEW x \in Visited'
      PROVE  /\ IF die'[x].parent = Null THEN "none" \in ParentTags(die'[x].tag)
                ELSE /\ die'[x].parent \in Visited'
                     /\ die'[x].parent[2] = x[2]
                     /\ die'[die'[x].parent].tag \in ParentTags(die'[x].tag)
             /\ die'[x].tag \in SymbolTags => die'[x].sym # Null
  <2>1. CASE x = d
    BY <1>1, <2>1 DEF ParseEffect, VisitEffect, NameEffect
  <2>2. CASE x # d
    BY <1>1, <2>2 DEF NamesInv, ParentsOK
  <2> QED
    BY <2>1, <2>2
<1> QED
  BY <1>2, <1>3 DEF OwnDie, ParentsOK

\* What the indexes hold after the effect.
LEMMA EffectOnIndexes ==
    ASSUME NamesInv, ShapesOK', NEW d \in Dies, NEW tag, NEW n \in AllNames, NEW t, NEW val,
           NEW s, NEW p, ParseEffect(d, tag, n, t, val, s, p), NEW m \in Names
    PROVE  /\ \/ /\ s = d /\ m = n /\ ClassOf(tag) \in BaseTypes
                 /\ baseTypeNameMap'[m] = Append(baseTypeNameMap[m], d)
              \/ /\ ~(s = d /\ m = n /\ ClassOf(tag) \in BaseTypes)
                 /\ baseTypeNameMap'[m] = baseTypeNameMap[m]
           /\ refBaseTypeNameMap'[m] = IF s = d /\ m = n /\ ClassOf(tag) \in RefBaseTypes
                                       THEN d ELSE refBaseTypeNameMap[m]
           /\ functionNameMap'[m] = IF s = d /\ m = n /\ ClassOf(tag) = "Function"
                                       /\ functionNameMap[m] = Null
                                    THEN d ELSE functionNameMap[m]
           /\ variableNameMap'[m] = IF s = d /\ m = n /\ ClassOf(tag) = "Variable"
                                    THEN d ELSE variableNameMap[m]
<1> USE DEF NamesInv
<1>1. m # NoName
  BY ConstantsAssumption
<1>2. /\ baseTypeNameMap \in [Names -> Seq(Symbols)]
      /\ refBaseTypeNameMap \in [Names -> Symbols \cup {Null}]
      /\ functionNameMap \in [Names -> Symbols \cup {Null}]
      /\ variableNameMap \in [Names -> Symbols \cup {Null}]
  BY DEF ShapesOK
<1>3. CASE s = d
  <2>1. /\ baseTypeNameMap' = addBaseType(d, ClassOf(tag), n)
        /\ refBaseTypeNameMap' = addRefBaseType(d, ClassOf(tag), n)
        /\ functionNameMap' = addFunction(d, ClassOf(tag), n)
        /\ variableNameMap' = addVariable(d, ClassOf(tag), n)
    BY <1>3 DEF ParseEffect, NameEffect
  <2>2. \/ /\ m = n /\ ClassOf(tag) \in BaseTypes
           /\ baseTypeNameMap'[m] = Append(baseTypeNameMap[m], d)
        \/ /\ ~(m = n /\ ClassOf(tag) \in BaseTypes)
           /\ baseTypeNameMap'[m] = baseTypeNameMap[m]
    BY <1>1, <1>2, <2>1 DEF addBaseType
  <2>3. refBaseTypeNameMap'[m] = IF m = n /\ ClassOf(tag) \in RefBaseTypes
                                 THEN d ELSE refBaseTypeNameMap[m]
    BY <1>1, <1>2, <2>1 DEF addRefBaseType
  <2>4. functionNameMap'[m] = IF m = n /\ ClassOf(tag) = "Function" /\ functionNameMap[m] = Null
                              THEN d ELSE functionNameMap[m]
    BY <1>1, <1>2, <2>1 DEF addFunction
  <2>5. variableNameMap'[m] = IF m = n /\ ClassOf(tag) = "Variable"
                              THEN d ELSE variableNameMap[m]
    BY <1>1, <1>2, <2>1 DEF addVariable
  <2> QED
    BY <1>3, <2>2, <2>3, <2>4, <2>5
<1>4. CASE s # d
  BY <1>4 DEF ParseEffect, NameEffect
<1> QED
  BY <1>3, <1>4

\* An index never lists a symbol of another class or name.
LEMMA EffectKeepsSound ==
    ASSUME NamesInv, ShapesOK', NEW d \in Dies, NEW tag, NEW n \in AllNames, NEW t, NEW val,
           NEW s, NEW p, ParseEffect(d, tag, n, t, val, s, p)
    PROVE  IndexesSound'
<1>1. /\ d \notin Symbols /\ Symbols \subseteq Dies /\ Null \notin Dies
      /\ Symbols' = IF s = d THEN Symbols \cup {d} ELSE Symbols
  BY EffectBasics
<1>2. /\ \A x \in Symbols : sym'[x].kind = sym[x].kind /\ sym'[x].name = sym[x].name
      /\ s = d => sym'[d].kind = ClassOf(tag) /\ sym'[d].name = n
  BY DEF ParseEffect, NameEffect
<1>3. /\ baseTypeNameMap \in [Names -> Seq(Symbols)]
      /\ refBaseTypeNameMap \in [Names -> Symbols \cup {Null}]
      /\ functionNameMap \in [Names -> Symbols \cup {Null}]
      /\ variableNameMap \in [Names -> Symbols \cup {Null}]
  BY DEF NamesInv, ShapesOK
<1> SUFFICES ASSUME NEW m \in Names
             PROVE  /\ \A k \in DOMAIN baseTypeNameMap'[m] :
                          LET x == baseTypeNameMap'[m][k]
                          IN  sym'[x].kind \in BaseTypes /\ sym'[x].name = m
                    /\ refBaseTypeNameMap'[m] # Null =>
                          /\ sym'[refBaseTypeNameMap'[m]].kind \in RefBaseTypes
                          /\ sym'[refBaseTypeNameMap'[m]].name = m
                    /\ functionNameMap'[m] # Null =>
                          /\ sym'[functionNameMap'[m]].kind = "Function"
                          /\ sym'[functionNameMap'[m]].name = m
                    /\ variableNameMap'[m] # Null =>
                          /\ sym'[variableNameMap'[m]].kind = "Variable"
                          /\ sym'[variableNameMap'[m]].name = m
  BY DEF IndexesSound
<1>4. ASSUME NEW k \in DOMAIN baseTypeNameMap'[m]
      PROVE  /\ sym'[baseTypeNameMap'[m][k]].kind \in BaseTypes
             /\ sym'[baseTypeNameMap'[m][k]].name = m
  <2>1. baseTypeNameMap[m] \in Seq(Symbols)
    BY <1>3
  <2>2. \A j \in DOMAIN baseTypeNameMap[m] :
           /\ baseTypeNameMap[m][j] \in Symbols
           /\ sym[baseTypeNameMap[m][j]].kind \in BaseTypes
           /\ sym[baseTypeNameMap[m][j]].name = m
    BY <2>1 DEF NamesInv, IndexesSound
  <2>3. CASE baseTypeNameMap'[m] = baseTypeNameMap[m]
    BY <1>2, <2>2, <2>3
  <2>4. CASE /\ s = d /\ m = n /\ ClassOf(tag) \in BaseTypes
             /\ baseTypeNameMap'[m] = Append(baseTypeNameMap[m], d)
    <3>1. k \in DOMAIN baseTypeNameMap[m] \/ baseTypeNameMap'[m][k] = d
      BY <2>1, <2>4
    <3>2. k \in DOMAIN baseTypeNameMap[m] => baseTypeNameMap'[m][k] = baseTypeNameMap[m][k]
      BY <2>1, <2>4
    <3> QED
      BY <1>2, <2>2, <2>4, <3>1, <3>2
  <2> QED
    BY <2>3, <2>4, EffectOnIndexes
<1>5. refBaseTypeNameMap'[m] # Null =>
         /\ sym'[refBaseTypeNameMap'[m]].kind \in RefBaseTypes
         /\ sym'[refBaseTypeNameMap'[m]].name = m
  <2>1. refBaseTypeNameMap[m] # Null =>
           /\ refBaseTypeNameMap[m] \in Symbols
           /\ sym[refBaseTypeNameMap[m]].kind \in RefBaseTypes
           /\ sym[refBaseTypeNameMap[m]].name = m
    BY <1>3 DEF NamesInv, IndexesSound
  <2>2. refBaseTypeNameMap'[m] = IF s = d /\ m = n /\ ClassOf(tag) \in RefBaseTypes
                                 THEN d ELSE refBaseTypeNameMap[m]
    BY EffectOnIndexes
  <2> QED
    BY <1>2, <2>1, <2>2
<1>6. functionNameMap'[m] # Null =>
         /\ sym'[functionNameMap'[m]].kind = "Function"
         /\ sym'[functionNameMap'[m]].name = m
  <2>1. functionNameMap[m] # Null =>
           /\ functionNameMap[m] \in Symbols
           /\ sym[functionNameMap[m]].kind = "Function"
           /\ sym[functionNameMap[m]].name = m
    BY <1>3 DEF NamesInv, IndexesSound
  <2>2. functionNameMap'[m] = IF s = d /\ m = n /\ ClassOf(tag) = "Function"
                                 /\ functionNameMap[m] = Null
                              THEN d ELSE functionNameMap[m]
    BY EffectOnIndexes
  <2> QED
    BY <1>2, <2>1, <2>2
<1>7. variableNameMap'[m] # Null =>
         /\ sym'[variableNameMap'[m]].kind = "Variable"
         /\ sym'[variableNameMap'[m]].name = m
  <2>1. variableNameMap[m] # Null =>
           /\ variableNameMap[m] \in Symbols
           /\ sym[variableNameMap[m]].kind = "Variable"
           /\ sym[variableNameMap[m]].name = m
    BY <1>3 DEF NamesInv, IndexesSound
  <2>2. variableNameMap'[m] = IF s = d /\ m = n /\ ClassOf(tag) = "Variable"
                              THEN d ELSE variableNameMap[m]
    BY EffectOnIndexes
  <2> QED
    BY <1>2, <2>1, <2>2
<1> QED
  BY <1>4, <1>5, <1>6, <1>7

\* No index loses a symbol.
LEMMA EffectKeepsComplete ==
    ASSUME NamesInv, ShapesOK', NEW d \in Dies, NEW tag, NEW n \in AllNames, NEW t, NEW val,
           NEW s, NEW p, ParseEffect(d, tag, n, t, val, s, p)
    PROVE  IndexesComplete'
<1>1. /\ d \notin Symbols /\ Symbols \subseteq Dies /\ Null \notin Dies
      /\ Symbols' = IF s = d THEN Symbols \cup {d} ELSE Symbols
      /\ n # NoName => n \in Names
  BY EffectBasics
<1>2. /\ \A x \in Symbols : sym'[x].kind = sym[x].kind /\ sym'[x].name = sym[x].name
      /\ s = d => sym'[d].kind = ClassOf(tag) /\ sym'[d].name = n
  BY DEF ParseEffect, NameEffect
<1>3. /\ baseTypeNameMap \in [Names -> Seq(Symbols)]
      /\ sym \in [Symbols -> SymbolType]
  BY DEF NamesInv, ShapesOK
<1>4. \A x \in Symbols : sym[x].name # NoName => sym[x].name \in Names
  BY <1>3 DEF SymbolType, AllNames
<1>11. \A m \in Names :
          /\ \/ /\ s = d /\ m = n /\ ClassOf(tag) \in BaseTypes
                /\ baseTypeNameMap'[m] = Append(baseTypeNameMap[m], d)
             \/ /\ ~(s = d /\ m = n /\ ClassOf(tag) \in BaseTypes)
                /\ baseTypeNameMap'[m] = baseTypeNameMap[m]
          /\ refBaseTypeNameMap'[m] = IF s = d /\ m = n /\ ClassOf(tag) \in RefBaseTypes
                                      THEN d ELSE refBaseTypeNameMap[m]
          /\ functionNameMap'[m] = IF s = d /\ m = n /\ ClassOf(tag) = "Function"
                                      /\ functionNameMap[m] = Null
                                   THEN d ELSE functionNameMap[m]
          /\ variableNameMap'[m] = IF s = d /\ m = n /\ ClassOf(tag) = "Variable"
                                   THEN d ELSE variableNameMap[m]
  BY EffectOnIndexes
<1> SUFFICES ASSUME NEW x \in Symbols', sym'[x].name # NoName, NEW m, m = sym'[x].name
             PROVE  /\ sym'[x].kind \in BaseTypes =>
                          \E k \in DOMAIN baseTypeNameMap'[m] : baseTypeNameMap'[m][k] = x
                    /\ sym'[x].kind \in RefBaseTypes => refBaseTypeNameMap'[m] # Null
                    /\ sym'[x].kind = "Function" => functionNameMap'[m] # Null
                    /\ sym'[x].kind = "Variable" => variableNameMap'[m] # Null
  BY DEF IndexesComplete
<1>5. m \in Names
  BY <1>1, <1>2, <1>4
<1>6. /\ refBaseTypeNameMap'[m] = IF s = d /\ m = n /\ ClassOf(tag) \in RefBaseTypes
                                  THEN d ELSE refBaseTypeNameMap[m]
      /\ functionNameMap'[m] = IF s = d /\ m = n /\ ClassOf(tag) = "Function"
                                  /\ functionNameMap[m] = Null
                               THEN d ELSE functionNameMap[m]
      /\ variableNameMap'[m] = IF s = d /\ m = n /\ ClassOf(tag) = "Variable"
                               THEN d ELSE variableNameMap[m]
  BY <1>5, <1>11
<1>7. \/ /\ s = d /\ m = n /\ ClassOf(tag) \in BaseTypes
         /\ baseTypeNameMap'[m] = Append(baseTypeNameMap[m], d)
      \/ /\ ~(s = d /\ m = n /\ ClassOf(tag) \in BaseTypes)
         /\ baseTypeNameMap'[m] = baseTypeNameMap[m]
  BY <1>5, <1>11
<1>8. baseTypeNameMap[m] \in Seq(Symbols)
  BY <1>3, <1>5
<1>9. CASE x = d
  <2>1. s = d /\ m = n
    BY <1>1, <1>2, <1>9
  <2>2. sym'[x].kind \in BaseTypes =>
           \E k \in DOMAIN baseTypeNameMap'[m] : baseTypeNameMap'[m][k] = x
    <3> SUFFICES ASSUME sym'[x].kind \in BaseTypes
                 PROVE  \E k \in DOMAIN baseTypeNameMap'[m] : baseTypeNameMap'[m][k] = x
      OBVIOUS
    <3>1. baseTypeNameMap'[m] = Append(baseTypeNameMap[m], d)
      BY <1>2, <1>7, <1>9, <2>1
    <3>2. /\ Len(baseTypeNameMap[m]) + 1 \in DOMAIN baseTypeNameMap'[m]
          /\ baseTypeNameMap'[m][Len(baseTypeNameMap[m]) + 1] = d
      BY <1>8, <3>1
    <3> QED
      BY <1>9, <3>2
  <2> QED
    BY <1>1, <1>2, <1>6, <1>9, <2>1, <2>2
<1>10. CASE x # d
  <2>1. x \in Symbols /\ sym[x].name = m /\ sym'[x].kind = sym[x].kind
    BY <1>1, <1>2, <1>10
  <2>2. /\ sym[x].kind \in BaseTypes =>
               \E k \in DOMAIN baseTypeNameMap[m] : baseTypeNameMap[m][k] = x
        /\ sym[x].kind \in RefBaseTypes => refBaseTypeNameMap[m] # Null
        /\ sym[x].kind = "Function" => functionNameMap[m] # Null
        /\ sym[x].kind = "Variable" => variableNameMap[m] # Null
    BY <1>2, <2>1 DEF NamesInv, IndexesComplete
  <2>3. \A k \in DOMAIN baseTypeNameMap[m] :
           k \in DOMAIN baseTypeNameMap'[m] /\ baseTypeNameMap'[m][k] = baseTypeNameMap[m][k]
    BY <1>7, <1>8
  <2>4. sym[x].kind \in BaseTypes =>
           \E k \in DOMAIN baseTypeNameMap'[m] : baseTypeNameMap'[m][k] = x
    BY <2>2, <2>3
  <2> QED
    BY <1>1, <1>6, <2>1, <2>2, <2>4
<1> QED
  BY <1>9, <1>10

\* addRefBaseType follows addBaseType.
LEMMA EffectKeepsRefLast ==
    ASSUME NamesInv, ShapesOK', NEW d \in Dies, NEW tag, NEW n \in AllNames, NEW t, NEW val,
           NEW s, NEW p, ParseEffect(d, tag, n, t, val, s, p)
    PROVE  RefIndexLast'
<1> SUFFICES ASSUME NEW m \in Names
             PROVE  LET bts == baseTypeNameMap'[m]
                        refs == {i \in DOMAIN bts : sym'[bts[i]].kind \in RefBaseTypes}
                    IN  /\ refs = {} => refBaseTypeNameMap'[m] = Null
                        /\ \A i \in refs : (\A j \in refs : j <= i)
                                              => refBaseTypeNameMap'[m] = bts[i]
  BY DEF RefIndexLast
<1> DEFINE bts == baseTypeNameMap[m]
           refs == {i \in DOMAIN bts : sym[bts[i]].kind \in RefBaseTypes}
           bts2 == baseTypeNameMap'[m]
           refs2 == {i \in DOMAIN bts2 : sym'[bts2[i]].kind \in RefBaseTypes}
<1>1. d \notin Symbols /\ Symbols \subseteq Dies /\ Null \notin Dies
  BY EffectBasics
<1>2. /\ \A x \in Symbols : sym'[x].kind = sym[x].kind
      /\ s = d => sym'[d].kind = ClassOf(tag)
  BY DEF ParseEffect, NameEffect
<1>3. bts \in Seq(Symbols) /\ bts2 \in Seq(Symbols')
  BY DEF NamesInv, ShapesOK
<1>4. /\ refs = {} => refBaseTypeNameMap[m] = Null
      /\ \A i \in refs : (\A j \in refs : j <= i) => refBaseTypeNameMap[m] = bts[i]
  BY DEF NamesInv, RefIndexLast
<1>5. /\ \/ /\ s = d /\ m = n /\ ClassOf(tag) \in BaseTypes
            /\ bts2 = Append(bts, d)
         \/ /\ ~(s = d /\ m = n /\ ClassOf(tag) \in BaseTypes)
            /\ bts2 = bts
      /\ refBaseTypeNameMap'[m] = IF s = d /\ m = n /\ ClassOf(tag) \in RefBaseTypes
                                  THEN d ELSE refBaseTypeNameMap[m]
  BY EffectOnIndexes
<1>6. \A i \in DOMAIN bts : bts[i] \in Symbols
  BY <1>3
<1>7. RefBaseTypes \subseteq BaseTypes
  BY DEF BaseTypes
<1> HIDE DEF bts, bts2
<1>8. CASE s = d /\ m = n /\ ClassOf(tag) \in BaseTypes
  <2> DEFINE l == Len(bts) + 1
  <2>1. bts2 = Append(bts, d)
    BY <1>5, <1>8
  <2>2. /\ l \in Nat /\ DOMAIN bts = 1..Len(bts) /\ DOMAIN bts2 = 1..l
        /\ bts2[l] = d /\ \A i \in DOMAIN bts : bts2[i] = bts[i]
    BY <1>3, <2>1
  <2>3. \A i \in DOMAIN bts : i <= l /\ i # l
    BY <2>2, <1>3
  <2>4. \A i \in DOMAIN bts : i \in refs2 <=> i \in refs
    BY <1>2, <1>6, <2>2, <1>3
  <2>5. l \in refs2 <=> ClassOf(tag) \in RefBaseTypes
    BY <1>2, <1>8, <2>2
  <2>6. \A i \in refs2 : i = l \/ i \in DOMAIN bts
    BY <2>2, <1>3
  <2>7. CASE ClassOf(tag) \in RefBaseTypes
    <3>1. refBaseTypeNameMap'[m] = d /\ l \in refs2
      BY <1>5, <1>8, <2>5, <2>7
    <3>2. \A i \in refs2 : (\A j \in refs2 : j <= i) => i = l
      <4> SUFFICES ASSUME NEW i \in refs2, \A j \in refs2 : j <= i PROVE i = l
        OBVIOUS
      <4>1. l <= i /\ (i = l \/ (i <= l /\ i # l))
        BY <2>3, <2>6, <3>1
      <4>2. i \in Nat
        BY <2>2
      <4> QED
        BY <2>2, <4>1, <4>2
    <3> QED
      BY <2>2, <3>1, <3>2 DEF bts2
  <2>8. CASE ClassOf(tag) \notin RefBaseTypes
    <3>1. refs2 = refs
      BY <2>2, <2>4, <2>5, <2>6, <2>8
    <3>2. refBaseTypeNameMap'[m] = refBaseTypeNameMap[m]
      BY <1>5, <2>8
    <3>3. \A i \in refs : bts2[i] = bts[i]
      BY <2>2
    <3> HIDE DEF refs, refs2
    <3>4. /\ refs2 = {} => refBaseTypeNameMap'[m] = Null
          /\ \A i \in refs2 : (\A j \in refs2 : j <= i) => refBaseTypeNameMap'[m] = bts2[i]
      BY <1>4, <3>1, <3>2, <3>3
    <3> QED
      BY <3>4 DEF bts2, refs2
  <2> QED
    BY <2>7, <2>8
<1>9. CASE ~(s = d /\ m = n /\ ClassOf(tag) \in BaseTypes)
  <2>1. bts2 = bts /\ refBaseTypeNameMap'[m] = refBaseTypeNameMap[m]
    BY <1>5, <1>7, <1>9
  <2>2. refs2 = refs
    BY <1>2, <1>6, <2>1
  <2> HIDE DEF refs, refs2
  <2>3. /\ refs2 = {} => refBaseTypeNameMap'[m] = Null
        /\ \A i \in refs2 : (\A j \in refs2 : j <= i) => refBaseTypeNameMap'[m] = bts2[i]
    BY <1>4, <2>1, <2>2
  <2> QED
    BY <2>3 DEF bts2, refs2
<1> QED
  BY <1>8, <1>9

\* A symbol is constructed only if its class and name are unused, and a DIE is
\* merged only into a symbol of its name and class.
LEMMA EffectKeepsMerging ==
    ASSUME NamesInv, ShapesOK', NEW d \in Dies, NEW tag, NEW n \in AllNames, NEW t, NEW val,
           NEW s, NEW p, ParseEffect(d, tag, n, t, val, s, p)
    PROVE  OneSymbolPerName' /\ MergeCompatible'
<1>1. /\ Symbols \subseteq Visited /\ Visited \subseteq Dies /\ Null \notin Dies
      /\ d \notin Visited /\ d \notin Symbols /\ Visited' = Visited \cup {d}
      /\ Symbols' = IF s = d THEN Symbols \cup {d} ELSE Symbols
      /\ \A e \in Visited : die'[e] = die[e]
      /\ die'[d] = [tag |-> tag, name |-> n, type |-> t, val |-> val,
                    sym |-> s, parent |-> p]
      /\ \A x \in Visited : die[x].sym \in Symbols \cup {Null}
  BY EffectBasics
<1>2. /\ \A x \in Symbols : sym'[x].kind = sym[x].kind /\ sym'[x].name = sym[x].name
      /\ s = d => /\ sym'[d].kind = ClassOf(tag) /\ sym'[d].name = n
                  /\ Unused(ClassOf(tag), n)
      /\ s \notin {d, Null} => /\ s \in Symbols /\ sym[s].name = n
                               /\ IsA(sym[s].kind, ClassOf(tag))
                               /\ n = NoName => sym[s].kind = "StructuredMember"
  BY DEF ParseEffect, NameEffect
<1>3. ASSUME NEW s1 \in Symbols', NEW s2 \in Symbols',
             sym'[s1].kind = sym'[s2].kind,
             sym'[s1].kind \notin {"Array", "StructuredMember"},
             sym'[s1].name = sym'[s2].name, sym'[s1].name # NoName
      PROVE  s1 = s2
  <2>1. CASE s1 = d /\ s2 = d
    BY <2>1
  <2>2. CASE s1 = d /\ s2 # d
    BY <1>1, <1>2, <1>3, <2>2 DEF Unused
  <2>3. CASE s1 # d /\ s2 = d
    BY <1>1, <1>2, <1>3, <2>3 DEF Unused
  <2>4. CASE s1 # d /\ s2 # d
    BY <1>1, <1>2, <1>3, <2>4 DEF NamesInv, OneSymbolPerName
  <2> QED
    BY <2>1, <2>2, <2>3, <2>4
<1>4. ASSUME NEW e \in Visited', die'[e].sym # Null
      PROVE  /\ sym'[die'[e].sym].name = die'[e].name
             /\ IsA(sym'[die'[e].sym].kind, ClassOf(die'[e].tag))
             /\ die'[e].name = NoName =>
                   die'[e].sym = e \/ sym'[die'[e].sym].kind = "StructuredMember"
  <2>1. CASE e = d
    <3>1. s = d => IsA(sym'[s].kind, ClassOf(tag))
      BY <1>2 DEF IsA
    <3> QED
      BY <1>1, <1>2, <1>4, <2>1, <3>1
  <2>2. CASE e # d
    BY <1>1, <1>2, <1>4, <2>2 DEF NamesInv, MergeCompatible
  <2> QED
    BY <2>1, <2>2
<1> QED
  BY <1>3, <1>4 DEF OneSymbolPerName, MergeCompatible

\* A member DIE has a parent, and so has the DIE of every StructuredMember.
LEMMA MembersHaveParents ==
    ASSUME NamesInv
    PROVE  /\ \A e \in Visited : die[e].tag = "member" => die[e].parent \in Visited
           /\ \A m \in Symbols : sym[m].kind = "StructuredMember" => die[m].tag = "member"
<1>1. "none" \notin ParentTags("member")
  BY DEF ParentTags, Composites
<1>2. \A e \in Visited : die[e].tag = "member" => die[e].parent \in Visited
  BY <1>1 DEF NamesInv, ParentsOK
<1>3. ASSUME NEW m \in Symbols, sym[m].kind = "StructuredMember"
      PROVE  die[m].tag = "member"
  <2>1. die[m].tag \in AllTags
    BY DEF NamesInv, ShapesOK, DieType
  <2>2. ClassOf(die[m].tag) = "StructuredMember"
    BY <1>3 DEF NamesInv, OwnDie
  <2> QED
    BY <2>1, <2>2 DEF ClassOf
<1> QED
  BY <1>2, <1>3

\* A member enters the index of the one Structured it is a member of.
LEMMA EffectKeepsMembers ==
    ASSUME NamesInv, ShapesOK', NEW d \in Dies, NEW tag, NEW n \in AllNames, NEW t, NEW val,
           NEW s, NEW p, ParseEffect(d, tag, n, t, val, s, p)
    PROVE  MembersIndexed'
<1>1. /\ Symbols \subseteq Visited /\ Visited \subseteq Dies /\ Null \notin Dies
      /\ d \notin Visited /\ d \notin Symbols /\ Visited' = Visited \cup {d}
      /\ Symbols' = IF s = d THEN Symbols \cup {d} ELSE Symbols
      /\ \A e \in Visited : die'[e] = die[e]
      /\ die'[d] = [tag |-> tag, name |-> n, type |-> t, val |-> val,
                    sym |-> s, parent |-> p]
      /\ \A x \in Visited : die[x].sym \in Symbols \cup {Null}
  BY EffectBasics
<1>2. NoEntry \notin Dies /\ NoEntry # Null
  BY ConstantsAssumption
<1>3. \A x \in Symbols : /\ sym[x].memberNameMap \in [AllNames -> Symbols \cup {Null, NoEntry}]
                         /\ sym'[x].kind = sym[x].kind /\ sym'[x].name = sym[x].name
  BY DEF NamesInv, ShapesOK, SymbolType, ParseEffect, NameEffect
<1> DEFINE ps == SymOf(p)
           adds(x) == tag = "member" /\ x = ps /\ s = d
<1>4. ASSUME NEW x \in Symbols, NEW m \in AllNames
      PROVE  sym'[x].memberNameMap[m] = IF adds(x) /\ m = n THEN d
                                        ELSE sym[x].memberNameMap[m]
  <2>1. sym'[x].memberNameMap = IF adds(x) THEN addMember(sym[x].memberNameMap, n, d)
                                ELSE sym[x].memberNameMap
    BY DEF ParseEffect, MemberEffect
  <2> QED
    BY <1>3, <2>1 DEF addMember
<1>5. /\ tag = "member" =>
            IF ps = Null THEN s = Null
            ELSE sym[ps].memberNameMap[n] = IF s = d THEN NoEntry ELSE s
      /\ s = d => \A m \in AllNames : sym'[d].memberNameMap[m] = NoEntry
      /\ s = d => sym'[d].kind = ClassOf(tag) /\ sym'[d].name = n
  BY DEF ParseEffect, MemberEffect, NameEffect
<1>6. tag = "member" => /\ p \in Visited /\ p # Null /\ p # d /\ ps = die[p].sym
                        /\ ps \in Symbols \cup {Null}
  <2>1. "none" \notin ParentTags("member")
    BY DEF ParentTags, Composites
  <2>2. tag = "member" => p \in Visited
    BY <2>1 DEF ParseEffect, VisitEffect
  <2> QED
    BY <1>1, <2>2 DEF SymOf
<1>7. /\ \A e \in Visited : die[e].tag = "member" => die[e].parent \in Visited
      /\ \A m \in Symbols : sym[m].kind = "StructuredMember" => die[m].tag = "member"
  BY MembersHaveParents
<1> HIDE DEF ps, adds
<1>8. ASSUME NEW e \in Visited', die'[e].tag = "member", die'[die'[e].parent].sym # Null
      PROVE  sym'[die'[die'[e].parent].sym].memberNameMap[die'[e].name] = die'[e].sym
  <2>1. CASE e = d
    <3>1. tag = "member" /\ die'[die'[d].parent].sym = ps /\ ps \in Symbols
      BY <1>1, <1>6, <1>8, <2>1
    <3>2. sym'[ps].memberNameMap[n] = s
      BY <1>1, <1>4, <1>5, <3>1 DEF adds
    <3> QED
      BY <1>1, <2>1, <3>1, <3>2
  <2>2. CASE e # d
    <3> DEFINE q == die[die[e].parent].sym
    <3>1. /\ e \in Visited /\ die'[e] = die[e] /\ die[e].parent \in Visited
          /\ die'[die'[e].parent].sym = q /\ q \in Symbols /\ die[e].name \in AllNames
      <4>1. e \in Visited /\ die'[e] = die[e]
        BY <1>1, <2>2
      <4>2. die[e].parent \in Visited
        BY <1>7, <1>8, <4>1
      <4>3. die[e].name \in AllNames
        BY <4>1 DEF NamesInv, ShapesOK, DieType
      <4> QED
        BY <1>1, <1>8, <4>1, <4>2, <4>3
    <3>2. sym[q].memberNameMap[die[e].name] = die[e].sym
      BY <1>1, <1>8, <3>1, SMTT(60) DEF NamesInv, MembersIndexed
    <3>3. die[e].sym # NoEntry
      BY <1>1, <1>2, <3>1
    <3>4. ~(adds(q) /\ die[e].name = n)
      BY <1>1, <1>5, <3>1, <3>2, <3>3 DEF adds
    <3> HIDE DEF q
    <3> QED
      BY <1>4, <3>1, <3>2, <3>4
  <2> QED
    BY <2>1, <2>2
<1>9. ASSUME NEW x \in Symbols', NEW m \in AllNames, sym'[x].memberNameMap[m] \in Symbols'
      PROVE  /\ sym'[sym'[x].memberNameMap[m]].kind = "StructuredMember"
             /\ sym'[sym'[x].memberNameMap[m]].name = m
             /\ die'[die'[sym'[x].memberNameMap[m]].parent].sym = x
  <2>1. x \in Symbols
    BY <1>1, <1>2, <1>5, <1>9
  <2>2. CASE adds(x) /\ m = n
    <3>1. sym'[x].memberNameMap[m] = d
      BY <1>4, <2>1, <2>2
    <3>2. sym'[d].kind = "StructuredMember" /\ sym'[d].name = m
      BY <1>5, <2>2 DEF adds, ClassOf
    <3>3. die'[die'[d].parent].sym = x
      BY <1>1, <1>6, <2>2 DEF adds
    <3> QED
      BY <3>1, <3>2, <3>3
  <2>3. CASE ~(adds(x) /\ m = n)
    <3> DEFINE y == sym[x].memberNameMap[m]
    <3>1. sym'[x].memberNameMap[m] = y
      BY <1>4, <2>1, <2>3
    <3>2. y \in Symbols
      BY <1>1, <1>2, <1>3, <1>9, <2>1, <3>1
    <3>3. sym[y].kind = "StructuredMember" /\ sym[y].name = m /\ die[die[y].parent].sym = x
      BY <2>1, <3>2 DEF NamesInv, MembersIndexed
    <3>4. die[y].parent \in Visited /\ die'[y] = die[y]
      BY <1>1, <1>7, <3>2, <3>3
    <3> HIDE DEF y
    <3> QED
      BY <1>1, <1>3, <3>1, <3>2, <3>3, <3>4
  <2> QED
    BY <2>2, <2>3
<1> QED
  BY <1>8, <1>9 DEF MembersIndexed

\* A step that reads no DIE and keeps names, classes, indexes and members.
SameNames ==
    /\ UNCHANGED <<die, open, baseTypeNameMap, refBaseTypeNameMap, functionNameMap,
                   variableNameMap>>
    /\ Symbols' = Symbols
    /\ \A x \in Symbols : sym'[x].kind = sym[x].kind /\ sym'[x].name = sym[x].name
    /\ \A x \in Symbols, n \in AllNames :
          \/ sym'[x].memberNameMap[n] = sym[x].memberNameMap[n]
          \/ sym[x].memberNameMap[n] = NoEntry /\ sym'[x].memberNameMap[n] = Null

\* Such a step, for instance a user's call, keeps what depends on names.
LEMMA SameNamesKept ==
    ASSUME NamesInv, ShapesOK', SameNames
    PROVE  /\ OwnDie' /\ ParentsOK' /\ StacksOK'
           /\ IndexesSound' /\ IndexesComplete' /\ RefIndexLast'
           /\ OneSymbolPerName' /\ MergeCompatible' /\ MembersIndexed'
<1>1. /\ Symbols' = Symbols /\ Visited' = Visited /\ die' = die /\ open' = open
      /\ baseTypeNameMap' = baseTypeNameMap /\ refBaseTypeNameMap' = refBaseTypeNameMap
      /\ functionNameMap' = functionNameMap /\ variableNameMap' = variableNameMap
      /\ \A x \in Symbols : sym'[x].kind = sym[x].kind /\ sym'[x].name = sym[x].name
      /\ \A x \in Symbols, n \in AllNames :
            \/ sym'[x].memberNameMap[n] = sym[x].memberNameMap[n]
            \/ sym[x].memberNameMap[n] = NoEntry /\ sym'[x].memberNameMap[n] = Null
  BY DEF SameNames, Visited
<1>2. /\ Symbols \subseteq Visited /\ Null \notin Symbols /\ NoEntry \notin Symbols \cup {Null}
      /\ \A x \in Visited : /\ die[x].sym \in Symbols \cup {Null}
                            /\ die[x].name \in AllNames
  BY ConstantsAssumption DEF NamesInv, ShapesOK, DieType
<1>3. /\ \A m \in Names : /\ baseTypeNameMap[m] \in Seq(Symbols)
                          /\ refBaseTypeNameMap[m] \in Symbols \cup {Null}
                          /\ functionNameMap[m] \in Symbols \cup {Null}
                          /\ variableNameMap[m] \in Symbols \cup {Null}
  BY DEF NamesInv, ShapesOK
<1>4. OwnDie' /\ ParentsOK' /\ StacksOK'
  BY <1>1 DEF NamesInv, OwnDie, ParentsOK, StacksOK
<1>5. IndexesSound'
  <2>1. \A m \in Names : \A k \in DOMAIN baseTypeNameMap[m] : baseTypeNameMap[m][k] \in Symbols
    BY <1>3
  <2> QED
    BY <1>1, <1>3, <2>1 DEF NamesInv, IndexesSound
<1>6. IndexesComplete'
  BY <1>1 DEF NamesInv, IndexesComplete
<1>7. RefIndexLast'
  <2> SUFFICES ASSUME NEW m \in Names
               PROVE  LET bts == baseTypeNameMap[m]
                          refs == {i \in DOMAIN bts : sym'[bts[i]].kind \in RefBaseTypes}
                      IN  /\ refs = {} => refBaseTypeNameMap[m] = Null
                          /\ \A i \in refs : (\A j \in refs : j <= i)
                                                => refBaseTypeNameMap[m] = bts[i]
    BY <1>1 DEF RefIndexLast
  <2>1. \A k \in DOMAIN baseTypeNameMap[m] : baseTypeNameMap[m][k] \in Symbols
    BY <1>3
  <2>2. {i \in DOMAIN baseTypeNameMap[m] : sym'[baseTypeNameMap[m][i]].kind \in RefBaseTypes}
        = {i \in DOMAIN baseTypeNameMap[m] : sym[baseTypeNameMap[m][i]].kind \in RefBaseTypes}
    BY <1>1, <2>1
  <2> QED
    BY <2>2 DEF NamesInv, RefIndexLast
<1>8. OneSymbolPerName' /\ MergeCompatible'
  BY <1>1, <1>2 DEF NamesInv, OneSymbolPerName, MergeCompatible
<1>9. MembersIndexed'
  <2>1. ASSUME NEW e \in Visited, die[e].tag = "member", die[die[e].parent].sym # Null
        PROVE  sym'[die[die[e].parent].sym].memberNameMap[die[e].name] = die[e].sym
    <3> DEFINE q == die[die[e].parent].sym
    <3>1. die[e].parent \in Visited
      BY <2>1, MembersHaveParents
    <3>2. q \in Symbols /\ die[e].name \in AllNames /\ die[e].sym # NoEntry
      BY <1>2, <2>1, <3>1
    <3>3. sym[q].memberNameMap[die[e].name] = die[e].sym
      BY <2>1 DEF NamesInv, MembersIndexed
    <3> QED
      BY <1>1, <3>2, <3>3
  <2>2. ASSUME NEW x \in Symbols, NEW m \in AllNames, sym'[x].memberNameMap[m] \in Symbols
        PROVE  /\ sym'[sym'[x].memberNameMap[m]].kind = "StructuredMember"
               /\ sym'[sym'[x].memberNameMap[m]].name = m
               /\ die[die[sym'[x].memberNameMap[m]].parent].sym = x
    <3>1. sym'[x].memberNameMap[m] = sym[x].memberNameMap[m]
      BY <1>1, <1>2, <2>2
    <3> QED
      BY <1>1, <2>2, <3>1 DEF NamesInv, MembersIndexed
  <2> QED
    BY <1>1, <2>1, <2>2 DEF MembersIndexed
<1> QED
  BY <1>4, <1>5, <1>6, <1>7, <1>8, <1>9

\* Every step keeps the invariant.
LEMMA StepKeepsNames ==
    ASSUME NamesInv, [Next]_vars
    PROVE  NamesInv' /\ ((\E d \in Dies : Effect(d)) \/ UserEffect)
<1>1. ShapesOK' /\ IdsOK(ids)'
  BY NextStep, StutterOK DEF NamesInv
<1>2. LookupInv
  BY DEF NamesInv, LookupInv
<1>3. (\E d \in Dies : Effect(d)) \/ UserEffect
  BY <1>2, NextEffect
<1>5. CASE UserEffect
  <2>1. SameNames
    BY <1>5 DEF UserEffect, SameNames
  <2>2. /\ OwnDie' /\ ParentsOK' /\ StacksOK'
        /\ IndexesSound' /\ IndexesComplete' /\ RefIndexLast'
        /\ OneSymbolPerName' /\ MergeCompatible' /\ MembersIndexed'
    BY <1>1, <2>1, SameNamesKept
  <2> QED
    BY <1>1, <1>5, <2>2 DEF NamesInv
<1>6. ASSUME NEW d \in Dies, Effect(d)
      PROVE  NamesInv'
  <2>1. PICK tag \in AllTags, n \in AllNames, t \in Dies \cup {Null}, val \in Nat \cup {Null},
             s \in Dies \cup {Null}, p \in Dies \cup {Null} :
                ParseEffect(d, tag, n, t, val, s, p)
    BY <1>6 DEF Effect
  <2>2. OwnDie' /\ ParentsOK'
    BY <1>1, <2>1, EffectKeepsDies
  <2>3. IndexesSound' /\ IndexesComplete' /\ RefIndexLast'
    BY <1>1, <2>1, EffectKeepsSound, EffectKeepsComplete, EffectKeepsRefLast
  <2>4. OneSymbolPerName' /\ MergeCompatible' /\ MembersIndexed'
    BY <1>1, <2>1, EffectKeepsMerging, EffectKeepsMembers
  <2> QED
    BY <1>1, <1>6, <2>2, <2>3, <2>4 DEF NamesInv, Effect
<1> QED
  BY <1>3, <1>5, <1>6

\* Of a parameter's type an id is issued.
LEMMA StepKeepsTypes ==
    ASSUME NamesInv, TypeOK, [Next]_vars
    PROVE  TypeOK'
<1> SUFFICES ASSUME NEW x \in Symbols', NEW k \in DOMAIN sym'[x].paramList
             PROVE  sym'[x].paramList[k][2] # 0
  BY StepKeepsNames DEF NamesInv, TypeOK
<1>1. (\E d \in Dies : Effect(d)) \/ UserEffect
  BY StepKeepsNames
<1>2. CASE UserEffect
  BY <1>2 DEF UserEffect, TypeOK
<1>3. ASSUME NEW d \in Dies, Effect(d)
      PROVE  sym'[x].paramList[k][2] # 0
  <2>1. PICK tag \in AllTags, n \in AllNames, t \in Dies \cup {Null},
             val \in Nat \cup {Null}, s \in Dies \cup {Null}, p \in Dies \cup {Null} :
                ParseEffect(d, tag, n, t, val, s, p)
    BY <1>3 DEF Effect
  <2>2. ParamEffect(d, tag, n, t, s, SymOf(p)) /\ (x \in Symbols \/ (x = d /\ s = d))
    BY <2>1 DEF ParseEffect, NameEffect
  <2>3. CASE x \notin Symbols
    BY <2>2, <2>3 DEF ParamEffect
  <2>4. CASE x \in Symbols
    <3>1. sym[x].paramList \in Seq(AllNames \X Nat)
      BY <2>4 DEF NamesInv, ShapesOK, SymbolType
    <3>2. CASE sym'[x].paramList = sym[x].paramList
      BY <2>4, <3>2 DEF TypeOK
    <3>3. CASE /\ sym'[x].paramList = Append(sym[x].paramList, <<n, ids'.idMap[t]>>)
               /\ ids'.idMap[t] # 0
      <4>1. \/ k \in DOMAIN sym[x].paramList /\ sym'[x].paramList[k] = sym[x].paramList[k]
            \/ sym'[x].paramList[k] = <<n, ids'.idMap[t]>>
        BY <3>1, <3>3
      <4> QED
        BY <2>4, <3>3, <4>1 DEF TypeOK
    <3> QED
      BY <2>2, <2>4, <3>2, <3>3 DEF ParamEffect
  <2> QED
    BY <2>3, <2>4
<1> QED
  BY <1>1, <1>2, <1>3

\* ... and the maps of ids and aliases with it.
LEMMA StepKeepsContent ==
    ASSUME ContentInv, [Next]_vars
    PROVE  ContentInv' /\ ((\E d \in Dies : Effect(d)) \/ UserEffect)
<1>1. IdInv'
  <2>1. CASE Next
    <3>1. ShapesOK' /\ IdsOK(ids)' /\ Step
      BY <2>1, NextStep DEF ContentInv, IdInv
    <3> QED
      BY <3>1, NewKeepsIdInv, MergeKeepsIdInv, QuietKeepsIdInv, UserKeepsIdInv
         DEF Step, ContentInv
  <2>2. CASE UNCHANGED vars
    <3>1. ShapesOK' /\ IdsOK(ids)' /\ UserStep
      BY <2>2, StutterOK DEF ContentInv, IdInv
    <3> QED
      BY <3>1, UserKeepsIdInv DEF ContentInv
  <2> QED
    BY <2>1, <2>2
<1> QED
  BY <1>1, StepKeepsNames, StepKeepsTypes DEF ContentInv

\* The initial state has no symbols and empty indexes.
LEMMA InitContent == Init => ContentInv
<1> SUFFICES ASSUME Init PROVE ContentInv
  OBVIOUS
<1>1. ShapesOK /\ IdsOK(ids)
  BY InitTypeOK
<1>2. /\ Symbols = {} /\ Visited = {}
      /\ DOMAIN symbolIDMap = {} /\ DOMAIN symbolIDAliasMap = {}
      /\ DOMAIN symbolIDAliasReverseList = {}
  BY DEF Init, EmptyMap, Symbols, Visited
<1>3. IdInv
  BY <1>1, <1>2 DEF IdInv, SymbolsRegistered, MergedAliased, AliasesMerged,
                    ReverseExact, getAliases
<1>4. \A m \in Names : /\ baseTypeNameMap[m] = <<>> /\ refBaseTypeNameMap[m] = Null
                       /\ functionNameMap[m] = Null /\ variableNameMap[m] = Null
  BY DEF Init
<1>5. \A f \in Files : DOMAIN open[f] = {}
  BY DEF Init
<1>6. \A m \in Names : DOMAIN baseTypeNameMap[m] = {}
  BY <1>4
<1>7. IndexesSound /\ IndexesComplete /\ RefIndexLast
  BY <1>2, <1>4, <1>6 DEF IndexesSound, IndexesComplete, RefIndexLast
<1>8. StacksOK /\ OwnDie /\ ParentsOK /\ OneSymbolPerName /\ MergeCompatible /\ MembersIndexed
  BY <1>2, <1>5 DEF StacksOK, OwnDie, ParentsOK, OneSymbolPerName, MergeCompatible,
                    MembersIndexed
<1>9. TypeOK
  BY <1>1, <1>2 DEF TypeOK
<1> QED
  BY <1>1, <1>3, <1>7, <1>8, <1>9 DEF ContentInv, NamesInv

\* The inductive invariant behind the theorems on symbols and indexes.
LEMMA ContentInvariant == Spec => []ContentInv
<1>1. ContentInv /\ [Next]_vars => ContentInv'
  BY StepKeepsContent
<1> QED
  BY <1>1, InitContent, PTL DEF Spec

-----------------------------------------------------------------------------
(* What the invariant says of the namespace. *)

\* TypeOK is an invariant: the maps of the manager and the fields of its
\* symbols always hold what they are declared to hold, for every input.
THEOREM TypeCorrect == Spec => []TypeOK
<1>1. ContentInv => TypeOK
  BY DEF ContentInv
<1> QED
  BY <1>1, ContentInvariant, PTL

\* Whatever the order in which the files' duplicates are parsed, a DIE is
\* merged only into a symbol of its name that passes the cast to its class.
THEOREM MergesCompatible == Spec => []MergeCompatible
<1>1. ContentInv => MergeCompatible
  BY DEF ContentInv, NamesInv
<1> QED
  BY <1>1, ContentInvariant, PTL

\* The lookups by name leave one object per name and class, for any number of
\* files.
THEOREM DuplicatesMerged == Spec => []OneSymbolPerName
<1>1. ContentInv => OneSymbolPerName
  BY DEF ContentInv, NamesInv
<1> QED
  BY <1>1, ContentInvariant, PTL

\* Structured::addMember and memberByName keep the member indexes exact.
THEOREM MembersStayIndexed == Spec => []MembersIndexed
<1>1. ContentInv => MembersIndexed
  BY DEF ContentInv, NamesInv
<1> QED
  BY <1>1, ContentInvariant, PTL

\* A name and class have the same answer from functionNameMap as from the
\* multimap of all BaseTypes.
LEMMA FunctionIndexAgrees ==
    ASSUME ContentInv, NEW n \in Names
    PROVE  findFunctionByName(n) = findBaseTypeByName(n, "Function")
<1> DEFINE f == functionNameMap[n]
           b == findBaseTypeByName(n, "Function")
<1>1. LookupInv
  BY DEF ContentInv, NamesInv, IdInv, LookupInv
<1>2. n \in AllNames /\ n # NoName /\ "Function" \in BaseTypes
  BY ConstantsAssumption DEF AllNames, BaseTypes
<1>3. f \in Symbols \cup {Null} /\ Null \notin Symbols
  BY ConstantsAssumption DEF ContentInv, NamesInv, IdInv, ShapesOK
<1>4. findFunctionByName(n) = f
  BY <1>2 DEF findFunctionByName
<1>5. CASE b = Null
  <2>1. Unused("Function", n)
    BY <1>1, <1>2, <1>5, NotFoundUnused
  <2>2. f = Null
    BY <1>2, <1>3, <2>1 DEF Unused, ContentInv, NamesInv, IndexesSound
  <2> QED
    BY <1>4, <1>5, <2>2
<1>6. CASE b # Null
  <2>1. b \in Symbols /\ sym[b].name = n /\ IsA(sym[b].kind, "Function")
    BY <1>1, <1>2, <1>6, FoundNamed
  <2>2. sym[b].kind = "Function"
    BY <2>1 DEF IsA
  <2>3. f # Null
    BY <1>2, <2>1, <2>2 DEF ContentInv, NamesInv, IndexesComplete
  <2>4. sym[f].kind = "Function" /\ sym[f].name = n
    BY <2>3 DEF ContentInv, NamesInv, IndexesSound
  <2>5. f = b
    BY <1>2, <1>3, <2>1, <2>2, <2>3, <2>4 DEF ContentInv, NamesInv, OneSymbolPerName
  <2> QED
    BY <1>4, <2>5
<1> QED
  BY <1>5, <1>6

\* The one-entry indexes of functions, RefBaseTypes and variables never
\* contradict the multimaps kept beside them.
THEOREM IndexesStayConsistent == Spec => []IndexesAgree
<1>1. ContentInv => IndexesAgree
  <2> SUFFICES ASSUME ContentInv, NEW n \in Names
               PROVE  LET bts == baseTypeNameMap[n]
                          refs == {i \in DOMAIN bts : sym[bts[i]].kind \in RefBaseTypes}
                          variables == {s \in Symbols : /\ sym[s].kind = "Variable"
                                                        /\ sym[s].name = n}
                      IN  /\ findFunctionByName(n) = findBaseTypeByName(n, "Function")
                          /\ refs = {} => refBaseTypeNameMap[n] = Null
                          /\ \A i \in refs : (\A j \in refs : j <= i)
                                                => refBaseTypeNameMap[n] = bts[i]
                          /\ IF variables = {} THEN variableNameMap[n] = Null
                             ELSE variableNameMap[n] \in variables
    BY DEF IndexesAgree
  <2> DEFINE variables == {s \in Symbols : sym[s].kind = "Variable" /\ sym[s].name = n}
  <2>1. n # NoName /\ variableNameMap[n] \in Symbols \cup {Null}
    BY ConstantsAssumption DEF ContentInv, NamesInv, IdInv, ShapesOK
  <2>2. variableNameMap[n] # Null => variableNameMap[n] \in variables
    BY <2>1 DEF ContentInv, NamesInv, IndexesSound
  <2>3. variables # {} => variableNameMap[n] # Null
    BY <2>1 DEF ContentInv, NamesInv, IndexesComplete
  <2>4. IF variables = {} THEN variableNameMap[n] = Null ELSE variableNameMap[n] \in variables
    BY <2>2, <2>3
  <2> QED
    BY <2>4, FunctionIndexAgrees DEF ContentInv, NamesInv, RefIndexLast
<1> QED
  BY <1>1, ContentInvariant, PTL

\* No DIE moves the location of a variable that has one, for any number of
\* duplicates and relocations.
THEOREM LocationsStick == Spec => LocationSticks
<1>1. ASSUME ContentInv, [Next]_vars, NEW s \in Symbols,
             sym[s].kind = "Variable", sym[s].addr # 0, die' # die
      PROVE  sym'[s].addr = sym[s].addr
  <2>1. PICK d \in Dies : Effect(d)
    BY <1>1, StepKeepsContent DEF UserEffect
  <2> QED
    BY <1>1, <2>1 DEF Effect, ParseEffect, ValueEffect
<1>2. ContentInv /\ [Next]_vars
      => [\A s \in Symbols : /\ sym[s].kind = "Variable"
                             /\ sym[s].addr # 0
                             /\ die' # die
                             => sym'[s].addr = sym[s].addr]_vars
  BY <1>1
<1> QED
  BY <1>2, ContentInvariant, PTL DEF Spec, LocationSticks

-----------------------------------------------------------------------------
(* What merging collects in enumerations and functions. *)

\* The value of an enumerator is a constant of the input.
EnumConstants == \A d \in Visited : die[d].tag = "enumerator" => die[d].val \in Constants

\* The key of a value in Enum::enumValues.
Key(val) == val % EnumMod

LEMMA KeyType ==
    ASSUME NEW val \in Constants
    PROVE  Key(val) \in EnumKeys
BY ConstantsAssumption DEF Key, EnumKeys

\* FunctionSummary with a witness for what is known and none for what is not:
\* an id that is still 0 may be issued later.
FunctionValues ==
    \A s \in Symbols : sym[s].kind = "Function" =>
        /\ sym[s].addr # 0 => \E d \in Visited : die[d].sym = s /\ die[d].val = sym[s].addr
        /\ sym[s].addr = 0 => \A d \in Visited : die[d].sym = s => die[d].val = 0
        /\ sym[s].type # 0 => \E d \in Visited : /\ die[d].sym = s /\ die[d].type # Null
                                                 /\ ids.idMap[die[d].type] = sym[s].type
        /\ sym[s].type = 0 => \A d \in Visited : die[d].sym = s => die[d].type = Null

\* The DIEs of a file are visited in section order.
VisitedPrefix ==
    /\ IsFiniteSet(Visited)
    /\ \A e \in Visited, x \in Dies : x[2] = e[2] /\ x[1] < e[1] => x \in Visited

\* A duplicate of a function closes its parameter list.
DuplicateCloses ==
    \A s \in Symbols, d \in Visited :
        /\ sym[s].kind = "Function"
        /\ die[d].sym = s /\ d # s
        /\ die[d].tag = "subprogram"
        => sym[s].paramsFinal

DetailInv ==
    /\ ContentInv
    /\ EnumConstants
    /\ EnumeratorsKept
    /\ FunctionValues
    /\ VisitedPrefix
    /\ DuplicateCloses
    /\ ParamsFromOneDie

\* An id, once issued, stays.
LEMMA IdsStay ==
    ASSUME IdInv, [Next]_vars
    PROVE  \A e \in Dies : ids.idMap[e] # 0 => ids'.idMap[e] = ids.idMap[e]
<1>1. CASE Next
  <2>1. Step
    BY <1>1, NextStep DEF IdInv
  <2> QED
    BY <2>1, IdsGrow DEF Step, UserStep
<1>2. CASE UNCHANGED vars
  BY <1>2 DEF vars
<1> QED
  BY <1>1, <1>2

\* An enumerator's parent is an enumeration with its symbol.
LEMMA EnumeratorParent ==
    ASSUME ContentInv, NEW x \in Visited, die[x].tag = "enumerator"
    PROVE  die[x].parent \in Visited /\ die[die[x].parent].sym \in Symbols
<1>1. /\ "none" \notin ParentTags("enumerator")
      /\ ParentTags("enumerator") = {"enumeration_type"}
      /\ "enumeration_type" \in SymbolTags
  BY DEF ParentTags, SymbolTags, PlainTags
<1>2. /\ die[x].parent \in Visited
      /\ die[die[x].parent].tag = "enumeration_type"
  BY <1>1 DEF ContentInv, NamesInv, ParentsOK
<1>3. die[die[x].parent].sym # Null
  BY <1>1, <1>2 DEF ContentInv, NamesInv, ParentsOK
<1> QED
  BY <1>2, <1>3 DEF ContentInv, NamesInv, IdInv, ShapesOK, DieType

\* No enumerator is lost from its Enum.
LEMMA EffectKeepsEnums ==
    ASSUME DetailInv, ContentInv', NEW d \in Dies, NEW tag, NEW n \in AllNames, NEW t, NEW val,
           NEW s, NEW p, ParseEffect(d, tag, n, t, val, s, p)
    PROVE  EnumConstants' /\ EnumeratorsKept'
<1>0. ShapesOK' /\ ContentInv /\ NamesInv
  BY DEF DetailInv, ContentInv, NamesInv, IdInv
<1>1. /\ d \notin Visited /\ Visited' = Visited \cup {d}
      /\ \A e \in Visited : die'[e] = die[e]
      /\ die'[d] = [tag |-> tag, name |-> n, type |-> t, val |-> val,
                    sym |-> s, parent |-> p]
  BY <1>0, EffectBasics
<1>2. /\ \A x \in Symbols :
           sym'[x].enumValues = IF tag = "enumerator" /\ x = SymOf(p)
                                THEN addEnum(sym[x].enumValues, val, n)
                                ELSE sym[x].enumValues
      /\ tag = "enumerator" => val \in Constants
  BY DEF ParseEffect, EnumEffect
<1>3. EnumConstants'
  BY <1>1, <1>2 DEF EnumConstants, DetailInv
<1>4. \A x \in Symbols : sym[x].enumValues \in [EnumKeys -> AllNames \cup {NoEntry}]
  BY DEF DetailInv, ContentInv, NamesInv, IdInv, ShapesOK, SymbolType
<1>5. ASSUME tag = "enumerator"
      PROVE  /\ p \in Visited /\ SymOf(p) \in Symbols /\ SymOf(p) = die[p].sym
             /\ die'[die'[d].parent].sym = die[p].sym
  <2>1. "none" \notin ParentTags("enumerator")
    BY DEF ParentTags
  <2>2. p \in Visited /\ p # Null
    BY <1>5, <2>1 DEF ParseEffect, VisitEffect
  <2>3. ParentTags("enumerator") = {"enumeration_type"} /\ "enumeration_type" \in SymbolTags
    BY DEF ParentTags, SymbolTags, PlainTags
  <2>4. die[p].tag \in SymbolTags
    BY <1>5, <2>2, <2>3 DEF ParseEffect, VisitEffect
  <2>5. die[p].sym \in Symbols
    BY <2>2, <2>4 DEF DetailInv, ContentInv, NamesInv, ParentsOK, IdInv, ShapesOK, DieType
  <2> QED
    BY <1>1, <2>2, <2>5 DEF SymOf
<1>6. ASSUME NEW x \in Visited', die'[x].tag = "enumerator"
      PROVE  LET e == die'[die'[x].parent].sym
             IN  \E y \in Visited' : /\ die'[y].tag = "enumerator"
                                     /\ die'[die'[y].parent].sym = e
                                     /\ Key(die'[y].val) = Key(die'[x].val)
                                     /\ die'[y].name = sym'[e].enumValues[Key(die'[x].val)]
  <2>1. CASE x = d
    <3>0. tag = "enumerator"
      BY <1>1, <1>6, <2>1
    <3>1. sym'[SymOf(p)].enumValues[Key(val)] = n
      BY <1>2, <1>4, <1>5, <3>0, KeyType DEF addEnum, Key
    <3> QED
      BY <1>1, <1>5, <1>6, <2>1, <3>1
  <2>2. CASE x # d
    <3> DEFINE e == die[die[x].parent].sym
               v == Key(die[x].val)
    <3>1. /\ x \in Visited /\ die'[x] = die[x] /\ die[x].tag = "enumerator"
          /\ die[x].parent \in Visited /\ e \in Symbols
      BY <1>0, <1>1, <1>6, <2>2, EnumeratorParent
    <3>2. die'[die'[x].parent].sym = e /\ Key(die'[x].val) = v /\ v \in EnumKeys
      BY <1>1, <3>1, KeyType DEF DetailInv, EnumConstants
    <3>3. PICK y \in Visited : /\ die[y].tag = "enumerator"
                               /\ die[die[y].parent].sym = e
                               /\ Key(die[y].val) = v
                               /\ die[y].name = sym[e].enumValues[v]
      BY <3>1 DEF DetailInv, EnumeratorsKept, Key
    <3>4. die[y].parent \in Visited
      BY <1>0, <3>3, EnumeratorParent
    <3>5. y \in Visited' /\ die'[y] = die[y] /\ die'[die'[y].parent].sym = e
      BY <1>1, <3>3, <3>4
    <3> HIDE DEF e, v
    <3>6. CASE tag = "enumerator" /\ e = SymOf(p) /\ v = Key(val)
      <4>1. sym'[e].enumValues[v] = n
        BY <1>2, <1>4, <3>1, <3>2, <3>6 DEF addEnum, Key
      <4>2. d \in Visited' /\ die'[d].tag = "enumerator" /\ die'[die'[d].parent].sym = e
        BY <1>1, <1>5, <3>6
      <4> QED
        BY <1>1, <3>2, <3>6, <4>1, <4>2
    <3>7. CASE ~(tag = "enumerator" /\ e = SymOf(p) /\ v = Key(val))
      <4>1. sym'[e].enumValues[v] = sym[e].enumValues[v]
        BY <1>2, <1>4, <3>1, <3>2, <3>7 DEF addEnum, Key
      <4> QED
        BY <3>2, <3>3, <3>5, <4>1
    <3> QED
      BY <3>6, <3>7
  <2> QED
    BY <2>1, <2>2
<1> QED
  BY <1>3, <1>6 DEF EnumeratorsKept, Key

\* A function's address and return type stay those of one of its DIEs.
LEMMA EffectKeepsValues ==
    ASSUME DetailInv, ShapesOK', NEW d \in Dies, NEW tag, NEW n \in AllNames,
           NEW t \in Dies \cup {Null}, NEW val,
           NEW s, NEW p, ParseEffect(d, tag, n, t, val, s, p),
           \A e \in Dies : ids.idMap[e] # 0 => ids'.idMap[e] = ids.idMap[e]
    PROVE  FunctionValues'
<1>0. ContentInv /\ NamesInv
  BY DEF DetailInv, ContentInv
<1>1. /\ d \notin Visited /\ d \notin Symbols /\ Visited' = Visited \cup {d}
      /\ Symbols' = IF s = d THEN Symbols \cup {d} ELSE Symbols
      /\ \A e \in Visited : die'[e] = die[e]
      /\ die'[d] = [tag |-> tag, name |-> n, type |-> t, val |-> val,
                    sym |-> s, parent |-> p]
      /\ \A x \in Visited : die[x].sym \in Symbols \cup {Null}
      /\ d # Null
  BY <1>0, EffectBasics, ZenonT(40)
<1>2. /\ \A x \in Symbols : sym'[x].kind = sym[x].kind
      /\ s = d => sym'[d].kind = ClassOf(tag)
  BY DEF ParseEffect, NameEffect
<1>3. ValueEffect(d, tag, t, val, s)
  BY DEF ParseEffect
<1>4. \A x \in Visited : die[x].type # Null => die[x].type \in Dies
  BY <1>0 DEF ContentInv, NamesInv, IdInv, ShapesOK, DieType
<1> SUFFICES ASSUME NEW x \in Symbols', sym'[x].kind = "Function"
             PROVE  /\ sym'[x].addr # 0 =>
                          \E e \in Visited' : die'[e].sym = x /\ die'[e].val = sym'[x].addr
                    /\ sym'[x].addr = 0 =>
                          \A e \in Visited' : die'[e].sym = x => die'[e].val = 0
                    /\ sym'[x].type # 0 =>
                          \E e \in Visited' : /\ die'[e].sym = x /\ die'[e].type # Null
                                              /\ ids'.idMap[die'[e].type] = sym'[x].type
                    /\ sym'[x].type = 0 =>
                          \A e \in Visited' : die'[e].sym = x => die'[e].type = Null
  BY DEF FunctionValues
<1>5. CASE x = d
  <2>1. s = d /\ tag = "subprogram"
    BY <1>1, <1>2, <1>5 DEF ClassOf
  <2>2. /\ sym'[d].addr = val /\ sym'[d].type = typeID(ids', t)
        /\ t # Null => ids'.idMap[t] # 0
    BY <1>3, <2>1 DEF ValueEffect
  <2>3. \A e \in Visited' : die'[e].sym = d => e = d
    BY <1>1
  <2> QED
    BY <1>1, <1>5, <2>1, <2>2, <2>3 DEF typeID
<1>6. CASE x # d
  <2>1. x \in Symbols /\ sym[x].kind = "Function"
    BY <1>1, <1>2, <1>6
  <2>2. /\ sym[x].addr # 0 => \E e \in Visited : die[e].sym = x /\ die[e].val = sym[x].addr
        /\ sym[x].addr = 0 => \A e \in Visited : die[e].sym = x => die[e].val = 0
        /\ sym[x].type # 0 => \E e \in Visited : /\ die[e].sym = x /\ die[e].type # Null
                                                 /\ ids.idMap[die[e].type] = sym[x].type
        /\ sym[x].type = 0 => \A e \in Visited : die[e].sym = x => die[e].type = Null
    BY <2>1 DEF DetailInv, FunctionValues
  <2>3. /\ sym'[x].addr = IF tag \in {"subprogram", "variable"} /\ x = s /\ sym[x].addr = 0
                          THEN val ELSE sym[x].addr
        /\ sym'[x].type = IF tag = "subprogram" /\ x = s /\ sym[x].type = 0
                          THEN typeID(ids', t) ELSE sym[x].type
        /\ tag = "subprogram" /\ x = s /\ sym[x].type = 0 /\ t # Null => ids'.idMap[t] # 0
        /\ x = s /\ tag # "subprogram" => val = 0 /\ t = Null
    BY <1>3, <2>1 DEF ValueEffect
  <2>4. sym'[x].addr # 0 => \E e \in Visited' : die'[e].sym = x /\ die'[e].val = sym'[x].addr
    BY <1>1, <2>2, <2>3
  <2>5. sym'[x].addr = 0 => \A e \in Visited' : die'[e].sym = x => die'[e].val = 0
    BY <1>1, <2>2, <2>3
  <2>6. ASSUME sym'[x].type # 0
        PROVE  \E e \in Visited' : /\ die'[e].sym = x /\ die'[e].type # Null
                                   /\ ids'.idMap[die'[e].type] = sym'[x].type
    <3>1. CASE sym[x].type = 0
      BY <1>1, <2>3, <2>6, <3>1 DEF typeID
    <3>2. CASE sym[x].type # 0
      BY <1>1, <1>4, <2>2, <2>3, <3>2
    <3> QED
      BY <3>1, <3>2
  <2>7. sym'[x].type = 0 => \A e \in Visited' : die'[e].sym = x => die'[e].type = Null
    BY <1>1, <2>2, <2>3 DEF typeID
  <2> QED
    BY <2>4, <2>5, <2>6, <2>7
<1> QED
  BY <1>5, <1>6

\* The parameters of the DIE that constructed a function, before and after a
\* handler.
LEMMA ParamDiesGrow ==
    ASSUME DetailInv, ShapesOK', NEW d \in Dies, NEW tag, NEW n \in AllNames,
           NEW t \in Dies \cup {Null}, NEW val,
           NEW s, NEW p, ParseEffect(d, tag, n, t, val, s, p), NEW x \in Dies
    PROVE  /\ ParamDies(x)' = IF tag = "formal_parameter" /\ p = x /\ t # Null
                              THEN ParamDies(x) \cup {d} ELSE ParamDies(x)
           /\ IsFiniteSet(ParamDies(x)) /\ d \notin ParamDies(x)
           /\ \A e \in ParamDies(x) : p = x => e[1] < d[1]
<1>0. ContentInv /\ NamesInv
  BY DEF DetailInv, ContentInv
<1>1. /\ d \notin Visited /\ Visited' = Visited \cup {d} /\ Visited \subseteq Dies
      /\ \A e \in Visited : die'[e] = die[e]
      /\ die'[d] = [tag |-> tag, name |-> n, type |-> t, val |-> val,
                    sym |-> s, parent |-> p]
      /\ Null \notin Dies
  BY <1>0, EffectBasics
<1>2. /\ die'[d].tag = tag /\ die'[d].parent = p /\ die'[d].type = t
  BY <1>1
<1>3. ParamDies(x)' = {e \in Visited \cup {d} : /\ die'[e].tag = "formal_parameter"
                                                /\ die'[e].parent = x
                                                /\ die'[e].type # Null}
  BY <1>1 DEF ParamDies
<1>4. ParamDies(x)' = IF tag = "formal_parameter" /\ p = x /\ t # Null
                      THEN ParamDies(x) \cup {d} ELSE ParamDies(x)
  BY <1>1, <1>2, <1>3 DEF ParamDies
<1>5. ParamDies(x) \subseteq Visited /\ IsFiniteSet(Visited)
  BY DEF ParamDies, DetailInv, VisitedPrefix
<1>6. IsFiniteSet(ParamDies(x))
  BY <1>5, FS_Subset
<1>7. ASSUME NEW e \in ParamDies(x), p = x
      PROVE  e[1] < d[1]
  <2>1. e \in Visited /\ die[e].parent = x /\ x # Null
    BY <1>1, <1>7 DEF ParamDies
  <2>2. e[2] = x[2]
    BY <1>0, <2>1 DEF ContentInv, NamesInv, ParentsOK
  <2>3. d[2] = x[2]
    BY <1>7, <2>1 DEF ParseEffect, VisitEffect
  <2>4. ~(d[1] < e[1])
    BY <1>1, <2>1, <2>2, <2>3 DEF DetailInv, VisitedPrefix
  <2>5. d[1] # e[1]
    BY <1>1, <2>1, <2>2, <2>3, ConstantsAssumption
  <2>6. d[1] \in Nat /\ e[1] \in Nat
    BY <1>1, <2>1, ConstantsAssumption
  <2> QED
    BY <2>4, <2>5, <2>6
<1> QED
  BY <1>1, <1>4, <1>5, <1>6, <1>7

\* A duplicate's parameters find the list closed, and the first DIE's are
\* appended in order.
LEMMA EffectKeepsParams ==
    ASSUME DetailInv, ShapesOK', NEW d \in Dies, NEW tag, NEW n \in AllNames,
           NEW t \in Dies \cup {Null}, NEW val,
           NEW s, NEW p, ParseEffect(d, tag, n, t, val, s, p),
           \A e \in Dies : ids.idMap[e] # 0 => ids'.idMap[e] = ids.idMap[e]
    PROVE  VisitedPrefix' /\ DuplicateCloses' /\ ParamsFromOneDie'
<1>0. ContentInv /\ NamesInv
  BY DEF DetailInv, ContentInv
<1>1. /\ Symbols \subseteq Visited /\ Visited \subseteq Dies /\ Null \notin Dies
      /\ d \notin Visited /\ d \notin Symbols /\ Visited' = Visited \cup {d}
      /\ Symbols' = IF s = d THEN Symbols \cup {d} ELSE Symbols
      /\ \A e \in Visited : die'[e] = die[e]
      /\ die'[d] = [tag |-> tag, name |-> n, type |-> t, val |-> val,
                    sym |-> s, parent |-> p]
      /\ \A x \in Visited : die[x].sym \in Symbols \cup {Null}
  BY <1>0, EffectBasics, ZenonT(40)
<1>2. /\ \A x \in Symbols : sym'[x].kind = sym[x].kind
      /\ s = d => sym'[d].kind = ClassOf(tag)
  BY DEF ParseEffect, NameEffect
<1>3. ParamEffect(d, tag, n, t, s, SymOf(p))
  BY DEF ParseEffect
<1>4. VisitedPrefix'
  <2>1. IsFiniteSet(Visited')
    BY <1>1, FS_AddElement DEF DetailInv, VisitedPrefix
  <2>2. \A e \in Dies : e[2] = d[2] /\ e[1] < d[1] => e \in Visited
    BY DEF ParseEffect, VisitEffect
  <2> QED
    BY <1>1, <2>1, <2>2 DEF DetailInv, VisitedPrefix
<1>5. DuplicateCloses'
  <2> SUFFICES ASSUME NEW x \in Symbols', NEW e \in Visited', sym'[x].kind = "Function",
                      die'[e].sym = x, e # x, die'[e].tag = "subprogram"
               PROVE  sym'[x].paramsFinal
    BY DEF DuplicateCloses
  <2>1. x \in Symbols /\ sym[x].kind = "Function"
    BY <1>1, <1>2
  <2>2. sym'[x].paramsFinal = IF tag = "subprogram" /\ x = s THEN TRUE ELSE sym[x].paramsFinal
    BY <1>3, <2>1 DEF ParamEffect
  <2>3. CASE e = d
    BY <1>1, <2>2, <2>3
  <2>4. CASE e # d
    <3>1. sym[x].paramsFinal
      BY <1>1, <2>1, <2>4 DEF DetailInv, DuplicateCloses
    <3> QED
      BY <2>2, <3>1
  <2> QED
    BY <2>3, <2>4
<1>6. ASSUME NEW x \in Symbols', sym'[x].kind = "Function"
      PROVE  /\ Len(sym'[x].paramList) <= Cardinality(ParamDies(x)')
             /\ ~sym'[x].paramsFinal => Len(sym'[x].paramList) = Cardinality(ParamDies(x)')
             /\ \A e \in ParamDies(x)' :
                   LET pos == Cardinality({y \in ParamDies(x)' : y[1] <= e[1]})
                   IN  pos <= Len(sym'[x].paramList) =>
                          sym'[x].paramList[pos] = <<die'[e].name, ids'.idMap[die'[e].type]>>
  <2>1. x \in Dies
    BY <1>1
  <2>2. CASE x = d
    <3>1. ParamDies(d) = {}
      BY <1>0, <1>1 DEF ParamDies, ContentInv, NamesInv, ParentsOK
    <3>2. p # d
      BY <1>1 DEF ParseEffect, VisitEffect
    <3>3. ParamDies(d)' = {}
      BY <3>1, <3>2, ParamDiesGrow
    <3>4. s = d
      BY <1>1, <2>2
    <3>5. sym'[d].paramList = <<>>
      BY <1>3, <3>4 DEF ParamEffect
    <3> QED
      BY <2>2, <3>3, <3>5, FS_EmptySet
  <2>4. /\ ParamDies(x)' = IF tag = "formal_parameter" /\ p = x /\ t # Null
                           THEN ParamDies(x) \cup {d} ELSE ParamDies(x)
        /\ IsFiniteSet(ParamDies(x)) /\ d \notin ParamDies(x)
        /\ \A e \in ParamDies(x) : p = x => e[1] < d[1]
    BY ONLY ShapesOK', DetailInv, d \in Dies, n \in AllNames, t \in Dies \cup {Null},
            ParseEffect(d, tag, n, t, val, s, p), <2>1, ParamDiesGrow
  <2>3. CASE x # d
    <3> DEFINE ds == ParamDies(x)
               ds2 == ParamDies(x)'
               list == sym[x].paramList
               list2 == sym'[x].paramList
    <3>1. x \in Symbols /\ sym[x].kind = "Function"
      BY <1>1, <1>2, <1>6, <2>3
    <3>2. /\ Len(list) <= Cardinality(ds)
          /\ ~sym[x].paramsFinal => Len(list) = Cardinality(ds)
          /\ \A e \in ds : LET pos == Cardinality({y \in ds : y[1] <= e[1]})
                           IN  pos <= Len(list) =>
                                  list[pos] = <<die[e].name, ids.idMap[die[e].type]>>
      BY <3>1 DEF DetailInv, ParamsFromOneDie
    <3>3. /\ list \in Seq(AllNames \X Nat)
          /\ sym[x].paramsFinal \in BOOLEAN /\ sym'[x].paramsFinal \in BOOLEAN
      BY <1>0, <1>1, <3>1 DEF ContentInv, NamesInv, IdInv, ShapesOK, SymbolType
    <3>4. /\ ds2 = IF tag = "formal_parameter" /\ p = x /\ t # Null
                   THEN ds \cup {d} ELSE ds
          /\ IsFiniteSet(ds) /\ d \notin ds
          /\ \A e \in ds : p = x => e[1] < d[1]
      BY <2>4
    <3>5. /\ list2 = IF tag = "formal_parameter" /\ x = SymOf(p) /\ ~sym[x].paramsFinal
                        /\ t # Null
                     THEN Append(list, <<n, ids'.idMap[t]>>) ELSE list
          /\ ~sym'[x].paramsFinal => ~sym[x].paramsFinal
      BY <1>3, <3>1 DEF ParamEffect
    <3>6. \A e \in ds : e \in Visited /\ e \in Dies /\ die[e].type \in Dies /\ e[1] \in Nat
      <4> SUFFICES ASSUME NEW e \in ds
                   PROVE  e \in Visited /\ e \in Dies /\ die[e].type \in Dies /\ e[1] \in Nat
        OBVIOUS
      <4>1. e \in Visited /\ e \in Dies /\ die[e].type # Null
        BY <1>1 DEF ParamDies
      <4>2. die[e].type \in Dies \cup {Null}
        BY <1>0, <4>1 DEF ContentInv, NamesInv, IdInv, ShapesOK, DieType
      <4> QED
        BY <4>1, <4>2, ConstantsAssumption
    <3>7. Cardinality(ds) \in Nat /\ d[1] \in Nat
      BY <3>4, FS_CardinalityType, ConstantsAssumption
    <3>8. ASSUME NEW e \in ds
          PROVE  LET pos == Cardinality({y \in ds : y[1] <= e[1]})
                 IN  /\ pos \in 1..Cardinality(ds)
                     /\ pos <= Len(list) =>
                           list[pos] = <<die'[e].name, ids'.idMap[die'[e].type]>>
      <4> DEFINE upto == {y \in ds : y[1] <= e[1]}
                 pos == Cardinality(upto)
      <4>1. upto \in SUBSET ds /\ e \in upto
        BY <3>6, <3>8
      <4>2. IsFiniteSet(upto) /\ pos <= Cardinality(ds)
        BY <3>4, <4>1, FS_Subset
      <4>3. pos \in Nat /\ pos # 0
        BY <4>1, <4>2, FS_CardinalityType, FS_EmptySet
      <4>4. pos <= Len(list) => list[pos] = <<die[e].name, ids.idMap[die[e].type]>>
        BY <3>2, <3>8
      <4> HIDE DEF upto, pos
      <4>5. ASSUME pos <= Len(list)
            PROVE  list[pos] = <<die'[e].name, ids'.idMap[die'[e].type]>>
        <5>1. list[pos] \in AllNames \X Nat
          BY <3>3, <4>3, <4>5
        <5>2. ids.idMap[die[e].type] # 0
          <6>1. list[pos][2] # 0
            BY <1>0, <3>1, <3>3, <4>3, <4>5 DEF ContentInv, TypeOK
          <6> QED
            BY <4>4, <4>5, <6>1
        <5>3. die'[e] = die[e] /\ die[e].type \in Dies
          BY <1>1, <3>6, <3>8
        <5>4. ids'.idMap[die[e].type] = ids.idMap[die[e].type]
          BY <5>2, <5>3
        <5> QED
          BY <4>4, <4>5, <5>3, <5>4
      <4>6. pos \in 1..Cardinality(ds)
        BY <3>7, <4>2, <4>3
      <4> QED
        BY <4>5, <4>6 DEF upto, pos
    <3>9. CASE tag = "formal_parameter" /\ p = x /\ t # Null
      <4>1. SymOf(p) = x
        BY <1>0, <1>1, <3>1, <3>9 DEF SymOf, ContentInv, NamesInv, IdInv, SymbolsRegistered
      <4>2. ds2 = ds \cup {d} /\ Cardinality(ds2) = Cardinality(ds) + 1
        BY <3>4, <3>9, FS_AddElement
      <4>3. {y \in ds2 : y[1] <= d[1]} = ds2
        BY <3>4, <3>6, <3>7, <3>9, <4>2
      <4>4. \A e \in ds : {y \in ds2 : y[1] <= e[1]} = {y \in ds : y[1] <= e[1]}
        BY <3>4, <3>6, <3>7, <3>9, <4>2
      <4>5. CASE sym[x].paramsFinal
        <5>1. list2 = list /\ sym'[x].paramsFinal
          BY <3>3, <3>5, <4>5
        <5>2. Len(list2) <= Cardinality(ds2) /\ Len(list2) < Cardinality(ds) + 1
          BY <3>2, <3>3, <3>7, <4>2, <5>1
        <5>3. ASSUME NEW e \in ds2
              PROVE  LET pos == Cardinality({y \in ds2 : y[1] <= e[1]})
                     IN  pos <= Len(list2) =>
                            list2[pos] = <<die'[e].name, ids'.idMap[die'[e].type]>>
          <6>1. CASE e \in ds
            BY <3>8, <4>4, <5>1, <6>1
          <6>2. CASE e = d
            <7>1. Cardinality({y \in ds2 : y[1] <= e[1]}) = Cardinality(ds) + 1
              BY <4>2, <4>3, <6>2
            <7>2. Len(list2) \in Nat
              BY <3>3, <5>1
            <7> QED
              BY <3>7, <5>2, <7>1, <7>2
          <6> QED
            BY <4>2, <5>3, <6>1, <6>2
        <5> QED
          BY <5>1, <5>2, <5>3
      <4>6. CASE ~sym[x].paramsFinal
        <5>1. list2 = Append(list, <<n, ids'.idMap[t]>>)
          BY <3>5, <3>9, <4>1, <4>6
        <5>2. Len(list) = Cardinality(ds)
          BY <3>2, <4>6
        <5>3. /\ Len(list2) = Len(list) + 1
              /\ list2[Len(list) + 1] = <<n, ids'.idMap[t]>>
              /\ \A k \in 1..Len(list) : list2[k] = list[k]
          BY <3>3, <5>1
        <5>4. ASSUME NEW e \in ds2
              PROVE  LET pos == Cardinality({y \in ds2 : y[1] <= e[1]})
                     IN  pos <= Len(list2) =>
                            list2[pos] = <<die'[e].name, ids'.idMap[die'[e].type]>>
          <6>1. CASE e \in ds
            <7> DEFINE pos == Cardinality({y \in ds : y[1] <= e[1]})
            <7>1. /\ pos \in 1..Cardinality(ds)
                  /\ pos <= Len(list) =>
                        list[pos] = <<die'[e].name, ids'.idMap[die'[e].type]>>
              BY <3>8, <6>1
            <7>2. Cardinality({y \in ds2 : y[1] <= e[1]}) = pos
              BY <4>4, <6>1
            <7>3. pos \in 1..Len(list) /\ pos <= Len(list)
              BY <3>7, <5>2, <7>1
            <7>4. list2[pos] = <<die'[e].name, ids'.idMap[die'[e].type]>>
              BY <5>3, <7>1, <7>3
            <7> HIDE DEF pos
            <7> QED
              BY <7>2, <7>4
          <6>2. CASE e = d
            <7>1. die'[d].name = n /\ die'[d].type = t
              BY <1>1
            <7> QED
              BY <4>2, <4>3, <5>2, <5>3, <6>2, <7>1
          <6> QED
            BY <4>2, <5>4, <6>1, <6>2
        <5>5. Len(list2) = Cardinality(ds2)
          BY <4>2, <5>2, <5>3
        <5>6. Len(list2) <= Cardinality(ds2)
          BY <3>7, <4>2, <5>5
        <5> HIDE DEF list2, ds2
        <5> QED
          BY <5>4, <5>5, <5>6 DEF list2, ds2
      <4> QED
        BY <4>5, <4>6
    <3>10. CASE ~(tag = "formal_parameter" /\ p = x /\ t # Null)
      <4>1. ds2 = ds
        BY <3>4, <3>10
      <4>2. list2 = list
        <5>1. CASE ~(tag = "formal_parameter" /\ x = SymOf(p) /\ ~sym[x].paramsFinal /\ t # Null)
          BY <3>5, <5>1
        <5>2. CASE tag = "formal_parameter" /\ x = SymOf(p) /\ ~sym[x].paramsFinal /\ t # Null
          <6>1. p # x /\ p # Null /\ die[p].sym = x
            BY <1>1, <3>1, <3>10, <5>2 DEF SymOf
          <6>2. p \in Visited /\ die[p].tag \in {"subprogram", "unsupported"}
            BY <5>2, <6>1 DEF ParseEffect, VisitEffect, ParentTags
          <6>3. x # Null /\ sym[x].kind \in Classes
            BY <1>0, <1>1, <3>1 DEF ContentInv, NamesInv, IdInv, ShapesOK, SymbolType
          <6>4. IsA(sym[x].kind, ClassOf(die[p].tag))
            BY <1>0, <6>1, <6>2, <6>3 DEF ContentInv, NamesInv, MergeCompatible
          <6>5. die[p].tag # "unsupported"
            BY <3>1, <6>4 DEF IsA, ClassOf
          <6>6. sym[x].paramsFinal
            BY <3>1, <6>1, <6>2, <6>5 DEF DetailInv, DuplicateCloses
          <6> QED
            BY <5>2, <6>6
        <5> QED
          BY <5>1, <5>2
      <4> QED
        BY <3>2, <3>5, <3>8, <4>1, <4>2
    <3> QED
      BY <3>9, <3>10
  <2> QED
    BY <2>2, <2>3
<1>7. ParamsFromOneDie'
  BY <1>6 DEF ParamsFromOneDie
<1> QED
  BY <1>4, <1>5, <1>7

\* A user's call changes nothing that merging collects.
LEMMA UserKeepsDetail ==
    ASSUME DetailInv, UserEffect
    PROVE  /\ EnumConstants' /\ EnumeratorsKept' /\ FunctionValues'
           /\ VisitedPrefix' /\ DuplicateCloses' /\ ParamsFromOneDie'
<1>0. ContentInv /\ NamesInv
  BY DEF DetailInv, ContentInv
<1>1. /\ Symbols' = Symbols /\ Visited' = Visited /\ die' = die /\ ids' = ids
      /\ \A x \in Symbols :
            /\ sym'[x].kind = sym[x].kind
            /\ sym'[x].enumValues = sym[x].enumValues
            /\ sym'[x].paramList = sym[x].paramList
            /\ sym'[x].paramsFinal = sym[x].paramsFinal
            /\ sym'[x].type = sym[x].type
            /\ sym[x].kind # "Variable" => sym'[x].addr = sym[x].addr
  BY DEF UserEffect, Visited
<1>2. \A x : ParamDies(x)' = ParamDies(x)
  BY <1>1 DEF ParamDies
<1>3. EnumConstants' /\ VisitedPrefix' /\ DuplicateCloses'
  BY <1>1 DEF DetailInv, EnumConstants, VisitedPrefix, DuplicateCloses
<1>4. EnumeratorsKept'
  <2>1. \A x \in Visited : die[x].tag = "enumerator" =>
           sym'[die[die[x].parent].sym].enumValues = sym[die[die[x].parent].sym].enumValues
    BY <1>0, <1>1, EnumeratorParent
  <2> QED
    BY <1>1, <2>1 DEF DetailInv, EnumeratorsKept
<1>5. FunctionValues'
  BY <1>1 DEF DetailInv, FunctionValues
<1>6. ParamsFromOneDie'
  BY <1>1, <1>2 DEF DetailInv, ParamsFromOneDie
<1> QED
  BY <1>3, <1>4, <1>5, <1>6

\* The inductive invariant behind the theorems on enumerations and functions.
LEMMA DetailInvariant == Spec => []DetailInv
<1>1. Init => DetailInv
  <2> SUFFICES ASSUME Init PROVE DetailInv
    OBVIOUS
  <2>1. ContentInv
    BY InitContent
  <2>2. Symbols = {} /\ Visited = {}
    BY DEF Init, EmptyMap, Symbols, Visited
  <2> QED
    BY <2>1, <2>2, FS_EmptySet DEF DetailInv, EnumConstants, EnumeratorsKept, FunctionValues,
                                   VisitedPrefix, DuplicateCloses, ParamsFromOneDie
<1>2. DetailInv /\ [Next]_vars => DetailInv'
  <2> SUFFICES ASSUME DetailInv, [Next]_vars PROVE DetailInv'
    OBVIOUS
  <2>1. ContentInv' /\ ((\E d \in Dies : Effect(d)) \/ UserEffect)
    BY StepKeepsContent DEF DetailInv
  <2>2. ShapesOK'
    BY <2>1 DEF ContentInv, NamesInv, IdInv
  <2>3. \A e \in Dies : ids.idMap[e] # 0 => ids'.idMap[e] = ids.idMap[e]
    BY IdsStay DEF DetailInv, ContentInv, NamesInv
  <2>4. CASE UserEffect
    BY <2>1, <2>4, UserKeepsDetail DEF DetailInv
  <2>5. ASSUME NEW d \in Dies, Effect(d)
        PROVE  DetailInv'
    <3>1. PICK tag \in AllTags, n \in AllNames, t \in Dies \cup {Null}, val \in Nat \cup {Null},
               s \in Dies \cup {Null}, p \in Dies \cup {Null} :
                  ParseEffect(d, tag, n, t, val, s, p)
      BY <2>5 DEF Effect
    <3>2. EnumConstants' /\ EnumeratorsKept'
      BY <2>1, <3>1, EffectKeepsEnums
    <3>3. FunctionValues'
      BY <2>2, <2>3, <3>1, EffectKeepsValues
    <3>4. VisitedPrefix' /\ DuplicateCloses' /\ ParamsFromOneDie'
      BY <2>2, <2>3, <3>1, EffectKeepsParams
    <3> QED
      BY <2>1, <3>2, <3>3, <3>4 DEF DetailInv
  <2> QED
    BY <2>1, <2>4, <2>5
<1> QED
  BY <1>1, <1>2, PTL DEF Spec

\* Enum::addEnum loses no value, however many duplicates of an enumeration
\* are merged.
THEOREM EnumeratorsFindable == Spec => []EnumeratorsKept
<1>1. DetailInv => EnumeratorsKept
  BY DEF DetailInv
<1> QED
  BY <1>1, DetailInvariant, PTL

\* The parameter list of a function is that of the DIE that constructed it,
\* for any interleaving of files and any number of parameters.
THEOREM ParamsOfOneDie == Spec => []ParamsFromOneDie
<1>1. DetailInv => ParamsFromOneDie
  BY DEF DetailInv
<1> QED
  BY <1>1, DetailInvariant, PTL

\* Function::update keeps an address and a return type once any of the merged
\* DIEs has one, and takes them from no other DIE.
THEOREM FunctionsSummarised == Spec => []FunctionSummary
<1>1. DetailInv => FunctionSummary
  <2> SUFFICES ASSUME DetailInv, NEW s \in Symbols, sym[s].kind = "Function"
               PROVE  LET merged == {d \in Visited : die[d].sym = s}
                          addrs == {die[d].val : d \in merged} \ {0}
                          rets == {ids.idMap[die[d].type] : d \in {e \in merged : die[e].type # Null}}
                      IN  /\ IF addrs = {} THEN sym[s].addr = 0 ELSE sym[s].addr \in addrs
                          /\ IF rets = {} THEN sym[s].type = 0 ELSE sym[s].type \in rets
    BY DEF FunctionSummary
  <2> DEFINE merged == {d \in Visited : die[d].sym = s}
             addrs == {die[d].val : d \in merged} \ {0}
             rets == {ids.idMap[die[d].type] : d \in {e \in merged : die[e].type # Null}}
  <2>1. /\ sym[s].addr # 0 => \E d \in Visited : die[d].sym = s /\ die[d].val = sym[s].addr
        /\ sym[s].addr = 0 => \A d \in Visited : die[d].sym = s => die[d].val = 0
        /\ sym[s].type # 0 => \E d \in Visited : /\ die[d].sym = s /\ die[d].type # Null
                                                 /\ ids.idMap[die[d].type] = sym[s].type
        /\ sym[s].type = 0 => \A d \in Visited : die[d].sym = s => die[d].type = Null
    BY DEF DetailInv, FunctionValues
  <2>2. IF addrs = {} THEN sym[s].addr = 0 ELSE sym[s].addr \in addrs
    BY <2>1
  <2>3. IF rets = {} THEN sym[s].type = 0 ELSE sym[s].type \in rets
    <3>1. CASE sym[s].type = 0
      BY <2>1, <3>1
    <3>2. CASE sym[s].type # 0
      <4>1. PICK d \in Visited : /\ die[d].sym = s /\ die[d].type # Null
                                 /\ ids.idMap[die[d].type] = sym[s].type
        BY <2>1, <3>2
      <4>2. d \in {e \in merged : die[e].type # Null}
        BY <4>1
      <4> QED
        BY <4>1, <4>2
    <3> QED
      BY <3>1, <3>2
  <2> QED
    BY <2>2, <2>3
<1> QED
  BY <1>1, DetailInvariant, PTL

=============================================================================
