------------------------- MODULE SymbolManagerProofs -------------------------
(***************************************************************************)
(* Proofs about SymbolManager for every number of files, DIEs and names:   *)
(* type correctness, the exactness of ids and aliases, and the refinement  *)
(* of SymbolNamespace.                                                     *)
(***************************************************************************)
EXTENDS SymbolManager, NaturalsInduction, WellFoundedInduction, TLAPS

-----------------------------------------------------------------------------
(* The id allocator. *)

\* The id maps are typed and inverse to each other.
IdsOK(i) ==
    /\ i.currentID \in Nat
    /\ i.idMap \in [Dies -> 0..i.currentID]
    /\ i.idRevMap \in [1..i.currentID -> Dies]
    /\ \A d \in Dies : i.idMap[d] # 0 => i.idRevMap[i.idMap[d]] = d
    /\ \A k \in 1..i.currentID : i.idMap[i.idRevMap[k]] = k

\* getID issues an id to the DIE and keeps every id issued before.
LEMMA GetIDOK ==
    ASSUME NEW i, IdsOK(i), NEW d \in Dies
    PROVE  /\ IdsOK(getID(i, d))
           /\ getID(i, d).idMap[d] # 0
           /\ \A e \in Dies : e # d \/ i.idMap[e] # 0
                 => getID(i, d).idMap[e] = i.idMap[e]
<1>1. CASE i.idMap[d] # 0
  BY <1>1 DEF getID
<1>2. CASE i.idMap[d] = 0
  <2> DEFINE k == i.currentID + 1
             j == getID(i, d)
  <2>1. /\ j.currentID = k
        /\ j.idMap = [i.idMap EXCEPT ![d] = k]
        /\ j.idRevMap = [x \in (1..i.currentID) \cup {k} |-> IF x = k THEN d ELSE i.idRevMap[x]]
    BY <1>2 DEF getID, Put, IdsOK
  <2>2. (1..i.currentID) \cup {k} = 1..k
    BY DEF IdsOK
  <2>3. /\ j.currentID \in Nat
        /\ j.idMap \in [Dies -> 0..k]
        /\ j.idRevMap \in [1..k -> Dies]
    BY <2>1, <2>2 DEF IdsOK
  <2>4. \A e \in Dies : j.idMap[e] = IF e = d THEN k ELSE i.idMap[e]
    BY <2>1 DEF IdsOK
  <2>5. \A x \in 1..k : j.idRevMap[x] = IF x = k THEN d ELSE i.idRevMap[x]
    BY <2>1, <2>2
  <2>6. \A e \in Dies : j.idMap[e] # 0 => j.idRevMap[j.idMap[e]] = e
    BY <2>4, <2>5 DEF IdsOK
  <2>7. \A x \in 1..k : j.idMap[j.idRevMap[x]] = x
    BY <1>2, <2>4, <2>5, SMTT(20) DEF IdsOK
  <2>8. IdsOK(j)
    BY <2>1, <2>3, <2>6, <2>7 DEF IdsOK
  <2> QED
    BY <1>2, <2>4, <2>8 DEF IdsOK
<1> QED
  BY <1>1, <1>2

\* The same of a DW_AT_type that may be absent.
LEMMA GetTypeIDOK ==
    ASSUME NEW i, IdsOK(i), NEW t \in Dies \cup {Null}
    PROVE  /\ IdsOK(getTypeID(i, t))
           /\ t # Null => getTypeID(i, t).idMap[t] \in Nat \ {0}
           /\ typeID(getTypeID(i, t), t) \in Nat
           /\ \A e \in Dies : e # t \/ i.idMap[e] # 0
                 => getTypeID(i, t).idMap[e] = i.idMap[e]
<1>1. CASE t = Null
  BY <1>1 DEF getTypeID, typeID
<1>2. CASE t # Null
  <2>1. t \in Dies /\ getTypeID(i, t) = getID(i, t)
    BY <1>2 DEF getTypeID
  <2>2. getID(i, t).idMap[t] \in Nat \ {0}
    BY <2>1, GetIDOK DEF IdsOK
  <2> QED
    BY <1>2, <2>1, <2>2, GetIDOK DEF typeID
<1> QED
  BY <1>1, <1>2

-----------------------------------------------------------------------------
(* Lookups by name. *)

\* A non-empty set of naturals has a least element, so that the CHOOSE of a
\* first match is one.
LEMMA MinExists ==
    ASSUME NEW S, S \subseteq Nat, S # {}
    PROVE  \E x \in S : \A y \in S : x <= y
<1>1. IsWellFoundedOn(OpToRel(<, Nat), Nat)
  BY NatLessThanWellFounded
<1>2. PICK x \in S : \A y \in S : ~ (<<y, x>> \in OpToRel(<, Nat))
  BY <1>1, WFMin
<1>3. \A y \in S : ~ (y < x)
  BY <1>2 DEF OpToRel
<1> QED
  BY <1>3

\* A lookup by name and class yields a known symbol that passes the cast, or
\* nothing.
LEMMA FindBaseShapesOK ==
    ASSUME NEW n \in AllNames, NEW class, findBaseTypeByName(n, class) # Null,
           baseTypeNameMap \in [Names -> Seq(Symbols)]
    PROVE  /\ n \in Names
           /\ \E k \in DOMAIN baseTypeNameMap[n] :
                 findBaseTypeByName(n, class) = baseTypeNameMap[n][k]
           /\ findBaseTypeByName(n, class) \in Symbols
           /\ IsA(sym[findBaseTypeByName(n, class)].kind, class)
<1> DEFINE hits == {i \in DOMAIN baseTypeNameMap[n] :
                       IsA(sym[baseTypeNameMap[n][i]].kind, class)}
           first == CHOOSE i \in hits : \A j \in hits : i <= j
<1>1. n \in Names
  BY DEF findBaseTypeByName, AllNames
<1>2. n # NoName
  BY DEF findBaseTypeByName
<1>3. hits # {} /\ findBaseTypeByName(n, class) = baseTypeNameMap[n][first]
  BY <1>2 DEF findBaseTypeByName
<1>4. hits \subseteq Nat
  BY <1>1
<1>5. first \in hits
  BY <1>3, <1>4, MinExists
<1>6. baseTypeNameMap[n][first] \in Symbols
  <2>1. first \in DOMAIN baseTypeNameMap[n]
    BY <1>5
  <2>2. baseTypeNameMap[n] \in Seq(Symbols)
    BY <1>1
  <2> HIDE DEF first, hits
  <2> QED
    BY <2>1, <2>2
<1> QED
  BY <1>1, <1>3, <1>5, <1>6

-----------------------------------------------------------------------------
(* Type correctness. *)

\* A fresh object is typed whatever class, name and id it gets.
LEMMA NewSymbolOK ==
    ASSUME NEW kind \in Classes, NEW n \in AllNames, NEW id \in Nat \ {0}
    PROVE  NewSymbol(kind, n, id) \in SymbolType
<1>1. <<>> \in Seq(AllNames \X Nat)
  OBVIOUS
<1>2. 0 \in 0..LengthMod - 1
  BY ConstantsAssumption
<1> QED
  BY <1>1, <1>2 DEF NewSymbol, SymbolType

\* Reading a DIE keeps the input's types.
LEMMA VisitOK ==
    ASSUME ShapesOK, NEW d \in Dies, NEW level \in Nat, NEW tag, NEW n \in AllNames,
           NEW t, NEW val \in Nat \cup {Null}, NEW s \in Symbols' \cup {Null},
           Symbols \subseteq Symbols', Visit(d, level, tag, n, t, val, s)
    PROVE  /\ Visited' = Visited \cup {d}
           /\ Visited' \subseteq Dies
           /\ die' \in [Visited' -> DieType']
           /\ open' \in [Files -> Seq(Visited')]
           /\ t \in Dies \cup {Null}
           /\ tag \in AllTags
<1>1. d[2] \in Files
  BY ConstantsAssumption
<1>2. open[d[2]] \in Seq(Visited) /\ level \in 0..Len(open[d[2]])
  BY <1>1 DEF ShapesOK, Visit
<1>3. Parent(d, level) \in Visited \cup {Null}
  BY <1>2 DEF Parent
<1>4. Visited' = Visited \cup {d}
  BY DEF Visit, Visited, Put
<1>5. t \in Dies \cup {Null} /\ tag \in AllTags
  BY ConstantsAssumption DEF Visit, TypeRefs
<1> DEFINE r == [tag |-> tag, name |-> n, type |-> t, val |-> val,
                 sym |-> s, parent |-> Parent(d, level)]
<1>6. r \in DieType'
  BY <1>3, <1>4, <1>5 DEF DieType
<1>7. DieType \subseteq DieType'
  BY <1>4 DEF DieType
<1>8. die' = [x \in Visited' |-> IF x = d THEN r ELSE die[x]]
  BY <1>4 DEF Visit, Put, Visited
<1>9. die' \in [Visited' -> DieType']
  BY <1>4, <1>6, <1>7, <1>8 DEF ShapesOK
<1>10. SubSeq(open[d[2]], 1, level) \in Seq(Visited)
  BY <1>2
<1>11. SubSeq(open[d[2]], 1, level) \in Seq(Visited')
  BY <1>10, <1>4
<1>12. Append(SubSeq(open[d[2]], 1, level), d) \in Seq(Visited')
  BY <1>11, <1>4
<1>13. \A f \in Files : open[f] \in Seq(Visited')
  BY <1>4 DEF ShapesOK
<1>14. open' \in [Files -> Seq(Visited')]
  BY <1>12, <1>13 DEF Visit, ShapesOK
<1> QED
  BY <1>4, <1>5, <1>9, <1>14 DEF ShapesOK

\* A constructor chain keeps the types of the id maps and of the indexes.
LEMMA ConstructOK ==
    ASSUME ShapesOK, NEW d \in Dies, NEW i, IdsOK(i), NEW obj \in SymbolType',
           NEW others \in [Symbols -> SymbolType'], Construct(d, i, obj, others),
           Visited' = Visited \cup {d}, die' \in [Visited' -> DieType'],
           open' \in [Files -> Seq(Visited')]
    PROVE  ShapesOK' /\ IdsOK(ids)'
<1> DEFINE n == obj.name
           kind == obj.kind
<1>1. n \in AllNames /\ kind \in Classes /\ obj.id \in Nat
  BY DEF SymbolType
<1>2. Symbols' = Symbols \cup {d}
  BY DEF Construct, Put, Symbols
<1>3. sym' \in [Symbols' -> SymbolType']
  BY <1>2 DEF Construct, Put, Symbols
<1>4. Symbols' \subseteq Visited' /\ Visited' \subseteq Dies
  BY <1>2 DEF ShapesOK
<1>5. n # NoName => n \in Names
  BY <1>1 DEF AllNames
<1>6. /\ DOMAIN symbolIDMap' \subseteq Nat
      /\ symbolIDMap' \in [DOMAIN symbolIDMap' -> Symbols']
  <2>1. symbolIDMap' = Put(symbolIDMap, obj.id, d)
    BY DEF Construct, addSymbol
  <2> QED
    BY <1>1, <1>2, <2>1 DEF Put, ShapesOK
<1>7. \A x \in Names : /\ symbolNameMap[x] \in Seq(Symbols')
                       /\ baseTypeNameMap[x] \in Seq(Symbols')
  BY <1>2 DEF ShapesOK
<1>8. symbolNameMap' \in [Names -> Seq(Symbols')]
  <2>1. symbolNameMap' = IF n = NoName THEN symbolNameMap
                         ELSE [symbolNameMap EXCEPT ![n] = Append(@, d)]
    BY DEF Construct, addSymbol
  <2>2. n \in Names => Append(symbolNameMap[n], d) \in Seq(Symbols')
    BY <1>2, <1>7
  <2> QED
    BY <1>5, <1>7, <2>1, <2>2 DEF ShapesOK
<1>9. baseTypeNameMap' \in [Names -> Seq(Symbols')]
  <2>1. \/ baseTypeNameMap' = baseTypeNameMap
        \/ n # NoName /\ baseTypeNameMap' = [baseTypeNameMap EXCEPT ![n] = Append(@, d)]
    BY DEF Construct, addBaseType
  <2>2. n \in Names => Append(baseTypeNameMap[n], d) \in Seq(Symbols')
    BY <1>2, <1>7
  <2> QED
    BY <1>5, <1>7, <2>1, <2>2 DEF ShapesOK
<1>10. /\ refBaseTypeNameMap' \in [Names -> Symbols' \cup {Null}]
       /\ functionNameMap' \in [Names -> Symbols' \cup {Null}]
       /\ variableNameMap' \in [Names -> Symbols' \cup {Null}]
  BY <1>2 DEF Construct, addRefBaseType, addFunction, addVariable, ShapesOK
<1>11. funcList \in Seq(Symbols') /\ arrayVector \in Seq(Symbols')
  BY <1>2 DEF ShapesOK
<1>12. funcList' \in Seq(Symbols') /\ arrayVector' \in Seq(Symbols')
  BY <1>2, <1>11 DEF Construct
<1>13. IdsOK(ids)'
  BY DEF Construct, IdsOK
<1>14. /\ DOMAIN symbolIDAliasMap' \subseteq Nat
       /\ symbolIDAliasMap' \in [DOMAIN symbolIDAliasMap' -> Nat]
       /\ DOMAIN symbolIDAliasReverseList' \subseteq Nat
       /\ symbolIDAliasReverseList' \in [DOMAIN symbolIDAliasReverseList' -> SUBSET Nat]
  BY DEF Construct, ShapesOK
<1> QED
  BY <1>3, <1>4, <1>6, <1>8, <1>9, <1>10, <1>12, <1>13, <1>14 DEF ShapesOK, IdsOK

\* A step that constructs nothing keeps the types of the indexes.
LEMMA SameSymbolsOK ==
    ASSUME ShapesOK, sym' \in [Symbols -> SymbolType], IdsOK(ids)',
           UNCHANGED <<symbolIDMap, nameVars>>,
           DOMAIN symbolIDAliasMap' \subseteq Nat,
           symbolIDAliasMap' \in [DOMAIN symbolIDAliasMap' -> Nat],
           DOMAIN symbolIDAliasReverseList' \subseteq Nat,
           symbolIDAliasReverseList' \in [DOMAIN symbolIDAliasReverseList' -> SUBSET Nat],
           Visited \subseteq Visited', Visited' \subseteq Dies, die' \in [Visited' -> DieType'],
           open' \in [Files -> Seq(Visited')]
    PROVE  ShapesOK'
<1>1. Symbols' = Symbols
  BY DEF Symbols
<1>2. SymbolType' = SymbolType
  BY <1>1 DEF SymbolType
<1> QED
  BY <1>1, <1>2 DEF ShapesOK, IdsOK, nameVars

\* Merging a DIE into a known symbol keeps the types.
LEMMA MergeOK ==
    ASSUME ShapesOK, NEW d \in Dies, NEW s \in Symbols, NEW i, IdsOK(i),
           NEW obj \in SymbolType, addAlternativeDwarfID(d, s, i, obj),
           Visited \subseteq Visited', Visited' \subseteq Dies, die' \in [Visited' -> DieType'],
           open' \in [Files -> Seq(Visited')]
    PROVE  ShapesOK' /\ IdsOK(ids)'
<1>1. IdsOK(ids)'
  <2>1. IdsOK(getID(i, d)) /\ ids' = getID(i, d)
    BY GetIDOK DEF addAlternativeDwarfID
  <2> QED
    BY <2>1 DEF IdsOK
<1>2. sym' \in [Symbols -> SymbolType]
  BY DEF addAlternativeDwarfID, ShapesOK
<1> DEFINE k == ids'.idMap[d]
           j == sym[s].id
<1>3. k \in Nat /\ j \in Nat
  BY <1>1 DEF IdsOK, ShapesOK, SymbolType
<1>4. symbolIDAliasMap' = Put(symbolIDAliasMap, k, j)
  BY DEF addAlternativeDwarfID, addAlternativeID
<1>5. symbolIDAliasReverseList' = Put(symbolIDAliasReverseList, j, getAliases(j) \cup {k})
  BY DEF addAlternativeDwarfID, addAlternativeID
<1>6. getAliases(j) \subseteq Nat
  BY DEF getAliases, ShapesOK
<1>7. /\ DOMAIN symbolIDAliasMap' \subseteq Nat
      /\ symbolIDAliasMap' \in [DOMAIN symbolIDAliasMap' -> Nat]
  BY <1>3, <1>4 DEF Put, ShapesOK
<1>8. /\ DOMAIN symbolIDAliasReverseList' \subseteq Nat
      /\ symbolIDAliasReverseList' \in [DOMAIN symbolIDAliasReverseList' -> SUBSET Nat]
  BY <1>3, <1>5, <1>6 DEF Put, ShapesOK
<1>9. UNCHANGED <<symbolIDMap, nameVars>>
  BY DEF addAlternativeDwarfID
<1> QED
  BY <1>1, <1>2, <1>7, <1>8, <1>9, SameSymbolsOK

\* Changing fields of a symbol keeps the types.
LEMMA ChangeOK ==
    ASSUME ShapesOK, NEW s, NEW i, IdsOK(i), NEW obj, s \in Symbols => obj \in SymbolType,
           ChangeSymbol(s, i, obj),
           Visited \subseteq Visited', Visited' \subseteq Dies, die' \in [Visited' -> DieType'],
           open' \in [Files -> Seq(Visited')]
    PROVE  ShapesOK' /\ IdsOK(ids)'
<1>1. IdsOK(ids)'
  BY DEF ChangeSymbol, IdsOK
<1>2. sym' \in [Symbols -> SymbolType]
  BY DEF ChangeSymbol, ShapesOK
<1>3. UNCHANGED <<symbolIDMap, symbolIDAliasMap, symbolIDAliasReverseList, nameVars>>
  BY DEF ChangeSymbol, idVars
<1> QED
  BY <1>1, <1>2, <1>3, SameSymbolsOK DEF ShapesOK

\* The initial state is typed.
LEMMA InitTypeOK == Init => ShapesOK /\ IdsOK(ids)
<1> SUFFICES ASSUME Init PROVE ShapesOK /\ IdsOK(ids)
  OBVIOUS
<1>1. /\ DOMAIN sym = {} /\ DOMAIN die = {} /\ DOMAIN symbolIDMap = {}
      /\ DOMAIN symbolIDAliasMap = {} /\ DOMAIN symbolIDAliasReverseList = {}
      /\ DOMAIN ids.idRevMap = {}
  BY DEF Init, EmptyMap
<1>2. 1..ids.currentID = {} /\ ids.currentID = 0
  BY DEF Init
<1>3. ids.idRevMap \in [1..ids.currentID -> Dies] /\ ids.idMap = [d \in Dies |-> 0]
  BY <1>1, <1>2 DEF Init, EmptyMap
<1>4. IdsOK(ids)
  BY <1>2, <1>3 DEF IdsOK
<1>5. \A S : <<>> \in Seq(S)
  OBVIOUS
<1>6. sym \in [Symbols -> SymbolType] /\ Symbols \subseteq Visited
  BY <1>1 DEF Init, EmptyMap, Symbols
<1>7. die \in [Visited -> DieType] /\ Visited \subseteq Dies
  BY <1>1 DEF Init, EmptyMap, Visited
<1>8. symbolIDMap \in [DOMAIN symbolIDMap -> Symbols]
  BY <1>1 DEF Init, EmptyMap
<1>9. symbolIDAliasMap \in [DOMAIN symbolIDAliasMap -> Nat]
  BY <1>1 DEF Init, EmptyMap
<1>10. symbolIDAliasReverseList \in [DOMAIN symbolIDAliasReverseList -> SUBSET Nat]
  BY <1>1 DEF Init, EmptyMap
<1>11. /\ symbolNameMap \in [Names -> Seq(Symbols)]
       /\ baseTypeNameMap \in [Names -> Seq(Symbols)]
       /\ refBaseTypeNameMap \in [Names -> Symbols \cup {Null}]
       /\ functionNameMap \in [Names -> Symbols \cup {Null}]
       /\ variableNameMap \in [Names -> Symbols \cup {Null}]
       /\ funcList \in Seq(Symbols)
       /\ arrayVector \in Seq(Symbols)
       /\ open \in [Files -> Seq(Visited)]
  BY <1>5 DEF Init
<1> QED
  BY <1>1, <1>4, <1>6, <1>7, <1>8, <1>9, <1>10, <1>11 DEF ShapesOK, IdsOK

\* Per handler: the types are kept, and what the step does to ids, symbols
\* and aliases is one of three things.  NewStep constructs the DIE's symbol,
\* MergeStep makes the DIE an alias of s, QuietStep does neither; i is the
\* allocator once the ids of the types the handler reads are issued.
SymbolIDsKept == \A s \in Symbols : s \in Symbols' /\ sym'[s].id = sym[s].id

VisitStep(d, t, s) ==
    /\ d \in Dies /\ d \notin Visited
    /\ Visited' = Visited \cup {d}
    /\ \A e \in Visited : die'[e] = die[e]
    /\ die'[d].sym = s
    /\ t \in TypeRefs(d)
    /\ ids.idMap[d] # 0 => die'[d].tag \in TypeTags

NewStep(d, t) ==
    /\ VisitStep(d, t, d)
    /\ ids' = getTypeID(getID(ids, d), t)
    /\ Symbols' = Symbols \cup {d}
    /\ SymbolIDsKept
    /\ sym'[d].id = ids'.idMap[d]
    /\ symbolIDMap' = Put(symbolIDMap, ids'.idMap[d], d)
    /\ UNCHANGED <<symbolIDAliasMap, symbolIDAliasReverseList>>

MergeStep(d, t, s) ==
    /\ VisitStep(d, t, s)
    /\ s \in Symbols
    /\ ids' = getID(getTypeID(ids, t), d)
    /\ Symbols' = Symbols
    /\ SymbolIDsKept
    /\ addAlternativeID(sym[s].id, ids'.idMap[d])
    /\ UNCHANGED symbolIDMap

QuietStep(d, t) ==
    /\ VisitStep(d, t, die'[d].sym)
    /\ die'[d].sym # Null => die'[d].tag = "member" /\ die'[d].sym \in Symbols
    /\ ids' = getTypeID(ids, t)
    /\ Symbols' = Symbols
    /\ SymbolIDsKept
    /\ UNCHANGED idVars

UserStep ==
    /\ Symbols' = Symbols
    /\ SymbolIDsKept
    /\ UNCHANGED <<ids, idVars, die>>

Step ==
    \/ \E d \in Dies, t \in Dies \cup {Null} :
          NewStep(d, t) \/ QuietStep(d, t) \/ \E s \in Dies : MergeStep(d, t, s)
    \/ UserStep

\* What a visit contributes to each kind of step.
LEMMA VisitStepOK ==
    ASSUME NEW d \in Dies, NEW level, NEW tag, NEW n, NEW t, NEW val, NEW s,
           Visit(d, level, tag, n, t, val, s)
    PROVE  VisitStep(d, t, s) /\ VisitStep(d, Null, s) /\ die'[d].tag = tag
BY DEF Visit, VisitStep, Put, Visited, TypeRefs

\* The symbol type grows with the symbols.
LEMMA SymbolTypeGrows ==
    ASSUME Symbols \subseteq Symbols'
    PROVE  SymbolType \subseteq SymbolType'
BY DEF SymbolType

\* A handler that constructs its DIE's symbol.
LEMMA NewSymbolStep ==
    ASSUME ShapesOK, IdsOK(ids), NEW d \in Dies, NEW level \in Nat, NEW tag,
           NEW n \in AllNames, NEW t \in Dies \cup {Null}, NEW val \in Nat \cup {Null},
           NEW obj \in SymbolType', NEW others \in [Symbols -> SymbolType'],
           \A s \in Symbols : others[s].id = sym[s].id,
           obj.id = getTypeID(getID(ids, d), t).idMap[d],
           Visit(d, level, tag, n, t, val, d),
           Construct(d, getTypeID(getID(ids, d), t), obj, others)
    PROVE  ShapesOK' /\ IdsOK(ids)' /\ NewStep(d, t)
<1> DEFINE i == getTypeID(getID(ids, d), t)
<1>1. IdsOK(i)
  BY GetIDOK, GetTypeIDOK
<1>2. sym' = Put(others, d, obj)
  BY DEF Construct
<1>3. Symbols' = Symbols \cup {d}
  BY <1>2 DEF Put, Symbols
<1>4. /\ Visited' = Visited \cup {d} /\ die' \in [Visited' -> DieType']
      /\ open' \in [Files -> Seq(Visited')]
  BY <1>3, VisitOK
<1>5. ShapesOK' /\ IdsOK(ids)'
  BY <1>1, <1>4, ConstructOK
<1>6. VisitStep(d, t, d)
  BY VisitStepOK
<1>7. SymbolIDsKept
  <2>1. \A s \in Symbols : s # d
    BY <1>6 DEF VisitStep, ShapesOK
  <2>2. \A s \in Symbols : sym'[s] = others[s]
    BY <1>2, <2>1 DEF Put
  <2> QED
    BY <1>3, <2>2 DEF SymbolIDsKept
<1>8. sym'[d] = obj
  BY <1>2 DEF Put
<1>9. ids' = i /\ symbolIDMap' = Put(symbolIDMap, obj.id, d)
  BY DEF Construct, addSymbol
<1> QED
  BY <1>3, <1>5, <1>6, <1>7, <1>8, <1>9 DEF NewStep, Construct

\* A handler that merges its DIE into the known symbol s; t2 is the type it
\* reads on the way, if any.
LEMMA MergeSymbolStep ==
    ASSUME ShapesOK, IdsOK(ids), NEW d \in Dies, NEW level \in Nat, NEW tag,
           NEW n \in AllNames, NEW t \in Dies \cup {Null}, NEW val \in Nat \cup {Null},
           NEW t2 \in {t, Null}, NEW s \in Symbols, NEW obj \in SymbolType,
           obj.id = sym[s].id, Visit(d, level, tag, n, t, val, s),
           addAlternativeDwarfID(d, s, getTypeID(ids, t2), obj)
    PROVE  ShapesOK' /\ IdsOK(ids)' /\ MergeStep(d, t2, s)
<1>1. IdsOK(getTypeID(ids, t2))
  BY GetTypeIDOK
<1>2. sym' = [sym EXCEPT ![s] = obj] /\ sym \in [Symbols -> SymbolType]
  BY DEF addAlternativeDwarfID, ShapesOK
<1>3. Symbols' = Symbols /\ SymbolIDsKept
  BY <1>2 DEF Symbols, SymbolIDsKept
<1>4. /\ Visited \subseteq Visited' /\ Visited' \subseteq Dies
      /\ die' \in [Visited' -> DieType'] /\ open' \in [Files -> Seq(Visited')]
  BY <1>3, VisitOK
<1>5. ShapesOK' /\ IdsOK(ids)'
  BY <1>1, <1>4, MergeOK
<1>6. VisitStep(d, t2, s)
  BY VisitStepOK
<1> QED
  BY <1>3, <1>5, <1>6 DEF MergeStep, addAlternativeDwarfID

\* A handler that changes fields of a symbol o, and neither constructs nor
\* merges one.
LEMMA ChangeSymbolStep ==
    ASSUME ShapesOK, IdsOK(ids), NEW d \in Dies, NEW level \in Nat, NEW tag,
           NEW n \in AllNames, NEW t \in Dies \cup {Null}, NEW val \in Nat \cup {Null},
           NEW o, NEW obj, o \in Symbols => obj \in SymbolType /\ obj.id = sym[o].id,
           Visit(d, level, tag, n, t, val, Null),
           ChangeSymbol(o, getTypeID(ids, t), obj)
    PROVE  ShapesOK' /\ IdsOK(ids)' /\ QuietStep(d, t)
<1>1. IdsOK(getTypeID(ids, t))
  BY GetTypeIDOK
<1>2. sym' = [sym EXCEPT ![o] = obj] /\ sym \in [Symbols -> SymbolType]
  BY DEF ChangeSymbol, ShapesOK
<1>3. Symbols' = Symbols /\ SymbolIDsKept
  BY <1>2 DEF Symbols, SymbolIDsKept
<1>4. /\ Visited \subseteq Visited' /\ Visited' \subseteq Dies
      /\ die' \in [Visited' -> DieType'] /\ open' \in [Files -> Seq(Visited')]
  BY <1>3, VisitOK
<1>5. ShapesOK' /\ IdsOK(ids)'
  BY <1>1, <1>4, ChangeOK
<1>6. VisitStep(d, t, Null) /\ die'[d].sym = Null
  BY VisitStepOK DEF VisitStep
<1> QED
  BY <1>3, <1>5, <1>6 DEF QuietStep, ChangeSymbol

\* A handler that only reads its DIE.
LEMMA SkipStep ==
    ASSUME ShapesOK, IdsOK(ids), NEW d \in Dies, NEW level \in Nat, NEW tag,
           NEW n \in AllNames, NEW t, NEW val \in Nat \cup {Null},
           NEW s \in Symbols \cup {Null}, s # Null => tag = "member",
           Visit(d, level, tag, n, t, val, s), UNCHANGED <<ids, sym, idVars, nameVars>>
    PROVE  ShapesOK' /\ IdsOK(ids)' /\ QuietStep(d, Null)
<1>1. Symbols' = Symbols /\ SymbolIDsKept
  BY DEF Symbols, SymbolIDsKept
<1>2. /\ Visited \subseteq Visited' /\ Visited' \subseteq Dies
      /\ die' \in [Visited' -> DieType'] /\ open' \in [Files -> Seq(Visited')]
  BY <1>1, VisitOK
<1>3. IdsOK(ids)'
  BY DEF IdsOK
<1>4. ShapesOK'
  BY <1>2, <1>3, SameSymbolsOK DEF ShapesOK, idVars
<1>5. VisitStep(d, Null, s) /\ die'[d].sym = s /\ die'[d].tag = tag
  BY VisitStepOK DEF VisitStep
<1> QED
  BY <1>1, <1>3, <1>4, <1>5 DEF QuietStep, getTypeID

\* The ids a constructor issues: one for its DIE, one for the type it reads.
LEMMA ConstructorIDs ==
    ASSUME IdsOK(ids), NEW d \in Dies, NEW t \in Dies \cup {Null}
    PROVE  LET i == getTypeID(getID(ids, d), t)
           IN  /\ i.idMap[d] \in Nat \ {0}
               /\ typeID(i, t) \in Nat
               /\ t # Null => i.idMap[t] \in Nat
<1> DEFINE i == getTypeID(getID(ids, d), t)
<1>1. IdsOK(getID(ids, d)) /\ getID(ids, d).idMap[d] # 0
  BY GetIDOK
<1>2. IdsOK(i) /\ typeID(i, t) \in Nat /\ i.idMap[d] = getID(ids, d).idMap[d]
  BY <1>1, GetTypeIDOK
<1>3. \A e \in Dies : i.idMap[e] \in Nat
  BY <1>2 DEF IdsOK
<1> QED
  BY <1>1, <1>2, <1>3

\* A handler that constructs a symbol and leaves the others alone.
LEMMA NewOnlyStep ==
    ASSUME ShapesOK, IdsOK(ids), NEW d \in Dies, NEW level \in Nat, NEW tag,
           NEW n \in AllNames, NEW t \in Dies \cup {Null}, NEW val \in Nat \cup {Null},
           NEW obj \in SymbolType, obj.id = getTypeID(getID(ids, d), t).idMap[d],
           Visit(d, level, tag, n, t, val, d),
           Construct(d, getTypeID(getID(ids, d), t), obj, sym)
    PROVE  ShapesOK' /\ IdsOK(ids)' /\ Step
<1>1. Symbols \subseteq Symbols'
  BY DEF Construct, Put, Symbols
<1>2. obj \in SymbolType' /\ sym \in [Symbols -> SymbolType']
  BY <1>1, SymbolTypeGrows DEF ShapesOK
<1>3. ShapesOK' /\ IdsOK(ids)' /\ NewStep(d, t)
  BY <1>2, NewSymbolStep
<1> QED
  BY <1>3 DEF Step

\* A handler that merges its DIE reads the type t2 on the way, if any.
LEMMA MergeOnlyStep ==
    ASSUME ShapesOK, IdsOK(ids), NEW d \in Dies, NEW level \in Nat, NEW tag,
           NEW n \in AllNames, NEW t \in Dies \cup {Null}, NEW val \in Nat \cup {Null},
           NEW t2 \in {t, Null}, NEW s \in Symbols, NEW obj \in SymbolType,
           obj.id = sym[s].id, Visit(d, level, tag, n, t, val, s),
           addAlternativeDwarfID(d, s, getTypeID(ids, t2), obj)
    PROVE  ShapesOK' /\ IdsOK(ids)' /\ Step
<1>1. ShapesOK' /\ IdsOK(ids)' /\ MergeStep(d, t2, s)
  BY MergeSymbolStep
<1>2. s \in Dies
  BY DEF ShapesOK
<1> QED
  BY <1>1, <1>2 DEF Step

\* Typedef, pointer and const DIEs.
LEMMA RefTypeStep ==
    ASSUME ShapesOK, IdsOK(ids), NEW d \in Dies, NEW level \in Nat, NEW tag \in RefTags,
           NEW n \in AllNames, NEW t \in Dies \cup {Null}, RefType(d, level, tag, n, t)
    PROVE  ShapesOK' /\ IdsOK(ids)' /\ Step
<1> DEFINE rbt == findRefBaseTypeByName(n)
           i == getTypeID(getID(ids, d), t)
           obj == [NewSymbol(ClassOf(tag), n, i.idMap[d]) EXCEPT !.type = typeID(i, t)]
<1>1. CASE /\ Visit(d, level, tag, n, t, 0, d)
           /\ Construct(d, i, obj, sym)
  <2>1. i.idMap[d] \in Nat \ {0} /\ typeID(i, t) \in Nat
    BY ConstructorIDs
  <2>2. ClassOf(tag) \in Classes
    BY DEF ClassOf, RefTags, Classes, BaseTypes, RefBaseTypes
  <2>3. NewSymbol(ClassOf(tag), n, i.idMap[d]) \in SymbolType
    BY <2>1, <2>2, NewSymbolOK
  <2>4. obj \in SymbolType /\ obj.id = i.idMap[d]
    BY <2>1, <2>3 DEF SymbolType, NewSymbol
  <2> QED
    BY <1>1, <2>4, NewOnlyStep
<1>2. CASE Skip(d, level, tag, n, t)
  BY <1>2, SkipStep DEF Skip, Step
<1>3. CASE /\ rbt # Null
           /\ Visit(d, level, tag, n, t, 0, rbt)
           /\ addAlternativeDwarfID(d, rbt, ids, sym[rbt])
  <2>1. rbt \in Symbols
    BY <1>3 DEF findRefBaseTypeByName, ShapesOK, AllNames
  <2>2. sym[rbt] \in SymbolType /\ ids = getTypeID(ids, Null)
    BY <2>1 DEF ShapesOK, getTypeID
  <2> QED
    BY <1>3, <2>1, <2>2, MergeOnlyStep
<1> QED
  BY <1>1, <1>2, <1>3 DEF RefType

\* Struct, union, base and enumeration type DIEs.
LEMMA PlainTypeStep ==
    ASSUME ShapesOK, IdsOK(ids), NEW d \in Dies, NEW level \in Nat, NEW tag \in PlainTags,
           NEW n \in AllNames, PlainType(d, level, tag, n)
    PROVE  ShapesOK' /\ IdsOK(ids)' /\ Step
<1> DEFINE known == findBaseTypeByName(n, ClassOf(tag))
           i == getID(ids, d)
           obj == NewSymbol(ClassOf(tag), n, i.idMap[d])
<1>1. CASE /\ Visit(d, level, tag, n, Null, 0, d)
           /\ Construct(d, i, obj, sym)
  <2>1. i = getTypeID(getID(ids, d), Null)
    BY DEF getTypeID
  <2>2. i.idMap[d] \in Nat \ {0}
    BY <2>1, ConstructorIDs
  <2>3. ClassOf(tag) \in Classes
    BY DEF ClassOf, PlainTags, Composites, Classes, BaseTypes, Structureds
  <2>4. obj \in SymbolType /\ obj.id = i.idMap[d]
    BY <2>2, <2>3, NewSymbolOK DEF NewSymbol
  <2> QED
    BY <1>1, <2>1, <2>4, NewOnlyStep
<1>2. CASE /\ known # Null
           /\ Visit(d, level, tag, n, Null, 0, known)
           /\ addAlternativeDwarfID(d, known, ids, sym[known])
  <2>1. known \in Symbols
    BY <1>2, FindBaseShapesOK DEF ShapesOK
  <2>2. sym[known] \in SymbolType /\ ids = getTypeID(ids, Null)
    BY <2>1 DEF ShapesOK, getTypeID
  <2> QED
    BY <1>2, <2>1, <2>2, MergeOnlyStep
<1> QED
  BY <1>1, <1>2 DEF PlainType

\* Array DIEs and their subranges.
LEMMA ArrayTypeStep ==
    ASSUME ShapesOK, IdsOK(ids), NEW d \in Dies, NEW level \in Nat,
           NEW n \in AllNames, NEW t \in Dies \cup {Null}, ArrayType(d, level, n, t)
    PROVE  ShapesOK' /\ IdsOK(ids)' /\ Step
<1> DEFINE i == getTypeID(getID(ids, d), t)
           obj == [NewSymbol("Array", n, i.idMap[d]) EXCEPT !.type = typeID(i, t)]
<1>1. i.idMap[d] \in Nat \ {0} /\ typeID(i, t) \in Nat
  BY ConstructorIDs
<1>2. NewSymbol("Array", n, i.idMap[d]) \in SymbolType
  BY <1>1, NewSymbolOK DEF Classes, BaseTypes, RefBaseTypes
<1>3. obj \in SymbolType /\ obj.id = i.idMap[d]
  BY <1>1, <1>2 DEF SymbolType, NewSymbol
<1> QED
  BY <1>3, NewOnlyStep DEF ArrayType

\* Array::update only issues an id for the index type and changes the array.
LEMMA SubrangeStep ==
    ASSUME ShapesOK, IdsOK(ids), NEW d \in Dies, NEW level \in Nat,
           NEW t \in Dies \cup {Null}, NEW ub \in Bounds \cup {Null},
           Subrange(d, level, t, ub)
    PROVE  ShapesOK' /\ IdsOK(ids)' /\ Step
<1> DEFINE a == ParentSym(d, level)
           i == getTypeID(ids, t)
           obj == [sym[a] EXCEPT
                      !.lengthType = IF t = Null THEN @ ELSE i.idMap[t],
                      !.length = IF ub = Null THEN @ ELSE (ub + 1) % LengthMod]
<1>1. t # Null => i.idMap[t] \in Nat
  BY GetTypeIDOK
<1>2. ub # Null => (ub + 1) % LengthMod \in 0..LengthMod - 1
  BY ConstantsAssumption
<1>3. ASSUME a \in Symbols
      PROVE  obj \in SymbolType /\ obj.id = sym[a].id
  <2>1. sym[a] \in SymbolType
    BY <1>3 DEF ShapesOK
  <2> QED
    BY <1>1, <1>2, <2>1 DEF SymbolType
<1>4. ub \in Nat \cup {Null} /\ NoName \in AllNames
  BY ConstantsAssumption DEF AllNames
<1>5. ShapesOK' /\ IdsOK(ids)' /\ QuietStep(d, t)
  BY <1>3, <1>4, ChangeSymbolStep DEF Subrange
<1> QED
  BY <1>5 DEF Step

\* Subprogram DIEs and their parameters.
LEMMA FunctionUpdateOK ==
    ASSUME NEW f \in SymbolType, NEW i, NEW t, typeID(i, t) \in Nat, NEW val \in Nat
    PROVE  Function_update(f, i, t, val) \in SymbolType
           /\ Function_update(f, i, t, val).id = f.id
BY DEF Function_update, SymbolType

\* A DW_TAG_subprogram constructs a Function or merges into the known one.
LEMMA SubprogramStep ==
    ASSUME ShapesOK, IdsOK(ids), NEW d \in Dies, NEW level \in Nat, NEW n \in AllNames,
           NEW t \in Dies \cup {Null}, NEW val \in Nat, Subprogram(d, level, n, t, val)
    PROVE  ShapesOK' /\ IdsOK(ids)' /\ Step
<1> DEFINE f == findBaseTypeByName(n, "Function")
<1>1. CASE f = Null
  <2> DEFINE i == getTypeID(getID(ids, d), t)
             obj == NewSymbol("Function", n, i.idMap[d])
             new == [Function_update(obj, i, t, val) EXCEPT !.paramsFinal = FALSE]
  <2>1. i.idMap[d] \in Nat \ {0} /\ typeID(i, t) \in Nat
    BY ConstructorIDs
  <2>2. obj \in SymbolType
    BY <2>1, NewSymbolOK DEF Classes, BaseTypes
  <2>3. /\ Function_update(obj, i, t, val) \in SymbolType
        /\ Function_update(obj, i, t, val).id = obj.id
    BY <2>1, <2>2, FunctionUpdateOK
  <2>4. new \in SymbolType /\ new.id = obj.id
    BY <2>3 DEF SymbolType
  <2>6. obj.id = i.idMap[d]
    BY DEF NewSymbol
  <2>5. Visit(d, level, "subprogram", n, t, val, d) /\ Construct(d, i, new, sym)
    BY <1>1 DEF Subprogram
  <2> QED
    BY <2>4, <2>5, <2>6, NewOnlyStep
<1>2. CASE f # Null
  <2> DEFINE t2 == IF sym[f].type = 0 THEN t ELSE Null
             i == getTypeID(ids, t2)
             new == Function_update(sym[f], i, t, val)
  <2>1. f \in Symbols
    BY <1>2, FindBaseShapesOK DEF ShapesOK
  <2>2. sym[f] \in SymbolType
    BY <2>1 DEF ShapesOK
  <2>3. i = IF sym[f].type = 0 THEN getTypeID(ids, t) ELSE ids
    BY DEF getTypeID
  <2>4. IdsOK(i)
    BY GetTypeIDOK
  <2>5. typeID(i, t) \in Nat
    BY <2>4 DEF IdsOK, typeID
  <2>6. new \in SymbolType /\ new.id = sym[f].id
    BY <2>2, <2>5, FunctionUpdateOK
  <2>7. Visit(d, level, "subprogram", n, t, val, f) /\ addAlternativeDwarfID(d, f, i, new)
    BY <1>2, <2>3 DEF Subprogram
  <2>8. t2 \in {t, Null}
    OBVIOUS
  <2> QED
    BY <2>1, <2>6, <2>7, <2>8, MergeOnlyStep
<1> QED
  BY <1>1, <1>2

\* Function::addParam only issues an id and appends to the parameter list.
LEMMA FormalParameterStep ==
    ASSUME ShapesOK, IdsOK(ids), NEW d \in Dies, NEW level \in Nat, NEW n \in AllNames,
           NEW t \in Dies \cup {Null}, FormalParameter(d, level, n, t)
    PROVE  ShapesOK' /\ IdsOK(ids)' /\ Step
<1> DEFINE f == ParentSym(d, level)
           i == getTypeID(ids, t)
           obj == [sym[f] EXCEPT !.paramList = Append(@, <<n, i.idMap[t]>>)]
<1>1. CASE Skip(d, level, "formal_parameter", n, t)
  BY <1>1, SkipStep DEF Skip, Step
<1>2. CASE /\ t # Null
           /\ Visit(d, level, "formal_parameter", n, t, 0, Null)
           /\ ChangeSymbol(f, i, obj)
  <2>1. i.idMap[t] \in Nat \ {0}
    BY <1>2, GetTypeIDOK
  <2>2. ASSUME f \in Symbols
        PROVE  obj \in SymbolType /\ obj.id = sym[f].id
    <3>1. sym[f] \in SymbolType
      BY <2>2 DEF ShapesOK
    <3>2. sym[f].paramList \in Seq(AllNames \X Nat)
      BY <3>1 DEF SymbolType
    <3>3. Append(sym[f].paramList, <<n, i.idMap[t]>>) \in Seq(AllNames \X Nat)
      BY <2>1, <3>2
    <3> QED
      BY <3>1, <3>3 DEF SymbolType
  <2>3. ShapesOK' /\ IdsOK(ids)' /\ QuietStep(d, t)
    BY <1>2, <2>2, ChangeSymbolStep
  <2> QED
    BY <2>3 DEF Step
<1> QED
  BY <1>1, <1>2 DEF FormalParameter

\* Variable DIEs.
LEMMA VariableStep ==
    ASSUME ShapesOK, IdsOK(ids), NEW d \in Dies, NEW level \in Nat, NEW n \in AllNames,
           NEW t \in Dies \cup {Null}, NEW val \in Nat, NEW spec \in BOOLEAN,
           VariableDie(d, level, n, t, val, spec)
    PROVE  ShapesOK' /\ IdsOK(ids)' /\ Step
<1> DEFINE v == findVariableByName(n)
           i == getTypeID(getID(ids, d), t)
<1>1. CASE Skip(d, level, "variable", n, t)
  BY <1>1, SkipStep DEF Skip, Step
<1>2. CASE /\ Visit(d, level, "variable", n, t, val, d)
           /\ \E ty \in referencingTypeIDs(i, t) :
                 Construct(d, i, [NewSymbol("Variable", n, i.idMap[d])
                                     EXCEPT !.type = ty, !.addr = val], sym)
  <2>1. PICK ty \in referencingTypeIDs(i, t) :
             Construct(d, i, [NewSymbol("Variable", n, i.idMap[d])
                                 EXCEPT !.type = ty, !.addr = val], sym)
    BY <1>2
  <2> DEFINE obj == [NewSymbol("Variable", n, i.idMap[d]) EXCEPT !.type = ty, !.addr = val]
  <2>2. i.idMap[d] \in Nat \ {0} /\ (t # Null => i.idMap[t] \in Nat)
    BY ConstructorIDs
  <2>3. ty \in Nat
    BY <2>2, ConstantsAssumption DEF referencingTypeIDs
  <2>4. NewSymbol("Variable", n, i.idMap[d]) \in SymbolType
    BY <2>2, NewSymbolOK DEF Classes
  <2>5. obj \in SymbolType /\ obj.id = i.idMap[d]
    BY <2>2, <2>3, <2>4 DEF SymbolType, NewSymbol
  <2> QED
    BY <1>2, <2>1, <2>5, NewOnlyStep
<1>3. CASE /\ v # Null
           /\ Visit(d, level, "variable", n, t, val, v)
           /\ addAlternativeDwarfID(d, v, ids, Variable_update(sym[v], val))
  <2>1. v \in Symbols
    BY <1>3 DEF findVariableByName, ShapesOK, AllNames
  <2>2. sym[v] \in SymbolType /\ ids = getTypeID(ids, Null)
    BY <2>1 DEF ShapesOK, getTypeID
  <2>3. Variable_update(sym[v], val) \in SymbolType
        /\ Variable_update(sym[v], val).id = sym[v].id
    BY <2>2 DEF Variable_update, SymbolType
  <2> QED
    BY <1>3, <2>1, <2>2, <2>3, MergeOnlyStep
<1> QED
  BY <1>1, <1>2, <1>3 DEF VariableDie

\* Member DIEs: a new member also enters the index of its Structured.
LEMMA MemberStep ==
    ASSUME ShapesOK, IdsOK(ids), NEW d \in Dies, NEW level \in Nat, NEW n \in AllNames,
           NEW t \in Dies \cup {Null}, Member(d, level, n, t)
    PROVE  ShapesOK' /\ IdsOK(ids)' /\ Step
<1> DEFINE s == ParentSym(d, level)
           i == getTypeID(getID(ids, d), t)
           new(ty) == [NewSymbol("StructuredMember", n, i.idMap[d]) EXCEPT !.type = ty]
           others == [sym EXCEPT ![s].memberNameMap = addMember(@, n, d)]
<1>0. s \in Symbols \cup {Null} \/ ~(\E x : Visit(d, level, "member", n, t, 0, x))
  <2> SUFFICES ASSUME NEW x, Visit(d, level, "member", n, t, 0, x)
               PROVE  s \in Symbols \cup {Null}
    OBVIOUS
  <2>1. d[2] \in Files
    BY ConstantsAssumption
  <2>2. open[d[2]] \in Seq(Visited) /\ level \in 0..Len(open[d[2]])
    BY <2>1 DEF ShapesOK, Visit
  <2>3. level # 0 => open[d[2]][level] \in Visited
    BY <2>2
  <2>4. level # 0 => die[open[d[2]][level]].sym \in Symbols \cup {Null}
    BY <2>3 DEF ShapesOK, DieType
  <2> QED
    BY <2>4 DEF ParentSym
<1>1. CASE Skip(d, level, "member", n, t)
  BY <1>1, SkipStep DEF Skip, Step
<1>2. CASE /\ s # Null
           /\ sym[s].memberNameMap[n] # NoEntry
           /\ Visit(d, level, "member", n, t, 0, sym[s].memberNameMap[n])
           /\ UNCHANGED <<ids, sym, idVars, nameVars>>
  <2>1. s \in Symbols
    BY <1>0, <1>2
  <2>2. sym[s].memberNameMap[n] \in Symbols \cup {Null}
    BY <1>2, <2>1 DEF ShapesOK, SymbolType
  <2>3. ShapesOK' /\ IdsOK(ids)' /\ QuietStep(d, Null)
    BY <1>2, <2>2, SkipStep
  <2> QED
    BY <2>3 DEF Step
<1>3. CASE /\ s # Null
           /\ Visit(d, level, "member", n, t, 0, d)
           /\ \E ty \in referencingTypeIDs(i, t) : Construct(d, i, new(ty), others)
  <2>1. PICK ty \in referencingTypeIDs(i, t) : Construct(d, i, new(ty), others)
    BY <1>3
  <2>2. i.idMap[d] \in Nat \ {0} /\ (t # Null => i.idMap[t] \in Nat)
    BY ConstructorIDs
  <2>3. ty \in Nat
    BY <2>2, ConstantsAssumption DEF referencingTypeIDs
  <2>4. NewSymbol("StructuredMember", n, i.idMap[d]) \in SymbolType
    BY <2>2, NewSymbolOK DEF Classes
  <2>5. new(ty) \in SymbolType /\ new(ty).id = i.idMap[d]
    BY <2>2, <2>3, <2>4 DEF SymbolType, NewSymbol
  <2>6. s \in Symbols
    BY <1>0, <1>3
  <2>7. DOMAIN others = Symbols
    BY DEF Symbols
  <2>8. Symbols' = Symbols \cup {d}
    BY <2>1, <2>7 DEF Construct, Put, Symbols
  <2>9. SymbolType \subseteq SymbolType'
    BY <2>8, SymbolTypeGrows
  <2>10. \A x \in Symbols : sym[x] \in SymbolType'
    BY <2>9 DEF ShapesOK
  <2>11. [sym[s] EXCEPT !.memberNameMap = addMember(@, n, d)] \in SymbolType'
    BY <2>6, <2>8, <2>10 DEF SymbolType, addMember
  <2>12. others = [sym EXCEPT ![s] = [sym[s] EXCEPT !.memberNameMap = addMember(@, n, d)]]
    OBVIOUS
  <2>13. others \in [Symbols -> SymbolType']
    BY <2>10, <2>11, <2>12 DEF ShapesOK
  <2>14. \A x \in Symbols : others[x].id = sym[x].id
    BY <2>6, <2>12 DEF ShapesOK, SymbolType
  <2>15. ShapesOK' /\ IdsOK(ids)' /\ NewStep(d, t)
    BY <1>3, <2>1, <2>5, <2>9, <2>13, <2>14, NewSymbolStep
  <2> QED
    BY <2>15 DEF Step
<1> QED
  BY <1>1, <1>2, <1>3 DEF Member

\* Enumerator DIEs.
LEMMA EnumeratorStep ==
    ASSUME ShapesOK, IdsOK(ids), NEW d \in Dies, NEW level \in Nat, NEW n \in AllNames,
           NEW val \in Constants, Enumerator(d, level, n, val)
    PROVE  ShapesOK' /\ IdsOK(ids)' /\ Step
<1> DEFINE e == ParentSym(d, level)
           obj == [sym[e] EXCEPT !.enumValues = addEnum(@, val, n)]
<1>1. ASSUME e \in Symbols
      PROVE  obj \in SymbolType /\ obj.id = sym[e].id
  <2>1. sym[e] \in SymbolType
    BY <1>1 DEF ShapesOK
  <2> QED
    BY <2>1 DEF SymbolType, addEnum
<1>2. val \in Nat \cup {Null} /\ ids = getTypeID(ids, Null)
  BY ConstantsAssumption DEF getTypeID
<1>3. ShapesOK' /\ IdsOK(ids)' /\ QuietStep(d, Null)
  BY <1>1, <1>2, ChangeSymbolStep DEF Enumerator
<1> QED
  BY <1>3 DEF Step

\* The calls of a library user.
LEMMA UserCallStep ==
    ASSUME ShapesOK, IdsOK(ids), UserCall
    PROVE  ShapesOK' /\ IdsOK(ids)' /\ Step
<1>1. PICK s \in Symbols : \/ \E n \in Queries : memberByName(s, n)
                           \/ \E a \in Relocations : setLocation(s, a)
  BY DEF UserCall
<1>2. sym[s] \in SymbolType
  BY DEF ShapesOK
<1>3. \E obj \in SymbolType : /\ obj.id = sym[s].id
                              /\ ChangeSymbol(s, ids, obj)
                              /\ UNCHANGED <<die, open>>
  <2>1. CASE \E n \in Queries : memberByName(s, n)
    <3>1. PICK n \in Queries : memberByName(s, n)
      BY <2>1
    <3>2. n \in AllNames
      BY ConstantsAssumption
    <3>3. [sym[s] EXCEPT !.memberNameMap[n] = Null] \in SymbolType
          /\ [sym[s] EXCEPT !.memberNameMap[n] = Null].id = sym[s].id
      BY <1>2, <3>2 DEF SymbolType
    <3> QED
      BY <3>1, <3>3 DEF memberByName
  <2>2. CASE \E a \in Relocations : setLocation(s, a)
    <3>1. PICK a \in Relocations : setLocation(s, a)
      BY <2>2
    <3>2. a \in Nat
      BY ConstantsAssumption
    <3>3. [sym[s] EXCEPT !.addr = a] \in SymbolType
          /\ [sym[s] EXCEPT !.addr = a].id = sym[s].id
      BY <1>2, <3>2 DEF SymbolType
    <3> QED
      BY <3>1, <3>3 DEF setLocation
  <2> QED
    BY <1>1, <2>1, <2>2
<1>4. PICK obj \in SymbolType : /\ obj.id = sym[s].id
                                /\ ChangeSymbol(s, ids, obj)
                                /\ UNCHANGED <<die, open>>
  BY <1>3
<1>5. sym' = [sym EXCEPT ![s] = obj]
  BY <1>4 DEF ChangeSymbol
<1>6. Symbols' = Symbols /\ Visited' = Visited
  BY <1>4, <1>5 DEF Symbols, Visited
<1>7. DieType' = DieType
  BY <1>6 DEF DieType
<1>8. ShapesOK' /\ IdsOK(ids)'
  BY <1>4, <1>6, <1>7, ChangeOK DEF ShapesOK
<1>9. SymbolIDsKept
  BY <1>4, <1>5, <1>6 DEF SymbolIDsKept, ShapesOK
<1> QED
  BY <1>4, <1>6, <1>8, <1>9 DEF Step, UserStep, ChangeSymbol

\* Every step is typed and of one of the kinds of Step.
LEMMA NextStep ==
    ASSUME ShapesOK, IdsOK(ids), Next
    PROVE  ShapesOK' /\ IdsOK(ids)' /\ Step
<1>1. CASE UserCall
  BY <1>1, UserCallStep
<1>2. CASE \E d \in Dies : \E level \in 0..Len(open[d[2]]) : ParseDie(d, level)
  <2>1. PICK d \in Dies : \E level \in 0..Len(open[d[2]]) : ParseDie(d, level)
    BY <1>2
  <2>2. PICK level \in 0..Len(open[d[2]]) : ParseDie(d, level)
    BY <2>1
  <2>3. d[2] \in Files
    BY ConstantsAssumption
  <2>4. level \in Nat
    BY <2>3 DEF ShapesOK
  <2>5. NoName \in AllNames
    BY DEF AllNames
  <2>6. ASSUME Skip(d, level, "unsupported", NoName, Null)
        PROVE  ShapesOK' /\ IdsOK(ids)' /\ Step
    BY <2>4, <2>5, <2>6, SkipStep DEF Skip, Step
  <2>7. ASSUME NEW n \in AllNames, NEW tag \in PlainTags, PlainType(d, level, tag, n)
        PROVE  ShapesOK' /\ IdsOK(ids)' /\ Step
    BY <2>4, <2>7, PlainTypeStep
  <2>8. ASSUME NEW n \in AllNames, NEW c \in Constants, Enumerator(d, level, n, c)
        PROVE  ShapesOK' /\ IdsOK(ids)' /\ Step
    BY <2>4, <2>8, EnumeratorStep
  <2>9. ASSUME NEW n \in AllNames, NEW t \in Dies \cup {Null},
               \/ \E tag \in RefTags : RefType(d, level, tag, n, t)
               \/ ArrayType(d, level, n, t)
               \/ FormalParameter(d, level, n, t)
               \/ Member(d, level, n, t)
        PROVE  ShapesOK' /\ IdsOK(ids)' /\ Step
    BY <2>4, <2>9, RefTypeStep, ArrayTypeStep, FormalParameterStep, MemberStep
  <2>10. ASSUME NEW n \in AllNames, NEW t \in Dies \cup {Null}, NEW a \in Addresses \cup {0},
                \/ Subprogram(d, level, n, t, a)
                \/ \E spec \in BOOLEAN : VariableDie(d, level, n, t, a, spec)
         PROVE  ShapesOK' /\ IdsOK(ids)' /\ Step
    <3>1. a \in Nat
      BY ConstantsAssumption
    <3> QED
      BY <2>4, <2>10, <3>1, SubprogramStep, VariableStep
  <2>11. ASSUME NEW t \in Dies \cup {Null}, NEW ub \in Bounds \cup {Null},
                Subrange(d, level, t, ub)
         PROVE  ShapesOK' /\ IdsOK(ids)' /\ Step
    BY <2>4, <2>11, SubrangeStep
  <2> QED
    BY <2>2, <2>6, <2>7, <2>8, <2>9, <2>10, <2>11 DEF ParseDie
<1> QED
  BY <1>1, <1>2 DEF Next

\* A stuttering step changes nothing.
LEMMA StutterOK ==
    ASSUME ShapesOK, IdsOK(ids), UNCHANGED vars
    PROVE  ShapesOK' /\ IdsOK(ids)' /\ UserStep
<1>1. /\ UNCHANGED <<ids, sym, symbolIDMap, symbolIDAliasMap, symbolIDAliasReverseList>>
      /\ UNCHANGED <<idVars, nameVars, die, open>>
  BY DEF vars, idVars
<1>2. Symbols' = Symbols /\ Visited' = Visited
  BY <1>1 DEF Symbols, Visited
<1>3. ShapesOK' /\ IdsOK(ids)'
  BY <1>1 DEF nameVars, ShapesOK, IdsOK, Symbols, Visited, SymbolType, DieType
<1> QED
  BY <1>1, <1>2, <1>3 DEF UserStep, SymbolIDsKept

-----------------------------------------------------------------------------
(* Resolution of ids. *)

\* A symbol is registered under the id of its DIE, and nothing else is.
SymbolsRegistered ==
    /\ \A s \in Symbols : /\ die[s].sym = s
                          /\ ids.idMap[s] # 0
                          /\ sym[s].id = ids.idMap[s]
                          /\ ids.idMap[s] \in DOMAIN symbolIDMap
                          /\ symbolIDMap[ids.idMap[s]] = s
    /\ \A k \in DOMAIN symbolIDMap : k = ids.idMap[symbolIDMap[k]]

\* A DIE merged into a symbol has an id only as an alias of the symbol's.
\* A DIE without an id is no symbol's, or is the duplicate of a member.
MergedAliased ==
    \A d \in Visited :
        /\ d \notin Symbols /\ die[d].sym # Null /\ ids.idMap[d] # 0
              => /\ ids.idMap[d] \in DOMAIN symbolIDAliasMap
                 /\ symbolIDAliasMap[ids.idMap[d]] = ids.idMap[die[d].sym]
        /\ ids.idMap[d] = 0 => die[d].sym = Null \/ die[d].tag = "member"

\* Every alias is the id of a merged DIE.
AliasesMerged ==
    \A a \in DOMAIN symbolIDAliasMap :
        \E d \in Visited : /\ d \notin Symbols
                           /\ a = ids.idMap[d] /\ a # 0
                           /\ die[d].sym \in Symbols
                           /\ symbolIDAliasMap[a] = ids.idMap[die[d].sym]

\* The reverse list is the inverse of the alias map.
ReverseExact ==
    \A i \in Nat :
        getAliases(i) = {a \in DOMAIN symbolIDAliasMap : symbolIDAliasMap[a] = i}

IdInv ==
    /\ ShapesOK
    /\ IdsOK(ids)
    /\ SymbolsRegistered
    /\ MergedAliased
    /\ AliasesMerged
    /\ ReverseExact

\* Two DIEs never share an id.
LEMMA IdsInjective ==
    ASSUME NEW i, IdsOK(i), NEW d \in Dies, NEW e \in Dies,
           i.idMap[d] = i.idMap[e], i.idMap[d] # 0
    PROVE  d = e
BY DEF IdsOK

\* What a visiting step does to the ids of other DIEs: those issued stay, and
\* of the visited DIEs only types without a symbol get new ones.
LEMMA IdsGrow ==
    ASSUME IdInv, NEW d \in Dies, NEW t \in Dies \cup {Null},
           NewStep(d, t) \/ QuietStep(d, t) \/ \E s \in Dies : MergeStep(d, t, s)
    PROVE  /\ \A e \in Dies : ids.idMap[e] # 0 => ids'.idMap[e] = ids.idMap[e]
           /\ \A e \in Visited : ids'.idMap[e] # ids.idMap[e] => die[e].sym = Null
           /\ QuietStep(d, t) => ids'.idMap[d] = ids.idMap[d]
           /\ ~QuietStep(d, t) => ids'.idMap[d] # 0
<1> USE DEF IdInv
<1>1. d \notin Visited /\ t \in TypeRefs(d) /\ t # d
  BY ConstantsAssumption DEF NewStep, QuietStep, MergeStep, VisitStep, TypeRefs
<1>2. \A e \in Dies : e # t \/ ids.idMap[e] # 0 => getTypeID(ids, t).idMap[e] = ids.idMap[e]
  BY GetTypeIDOK
<1>3. IdsOK(getTypeID(ids, t)) /\ IdsOK(getID(ids, d))
  BY GetIDOK, GetTypeIDOK
<1>4. /\ \A e \in Dies : ids.idMap[e] # 0 => ids'.idMap[e] = ids.idMap[e]
      /\ \A e \in Dies : e # d /\ e # t => ids'.idMap[e] = ids.idMap[e]
      /\ QuietStep(d, t) => ids'.idMap[d] = ids.idMap[d]
      /\ ~QuietStep(d, t) => ids'.idMap[d] # 0
  <2>1. CASE NewStep(d, t)
    <3>1. ids' = getTypeID(getID(ids, d), t)
      BY <2>1 DEF NewStep
    <3>2. /\ getID(ids, d).idMap[d] # 0
          /\ \A e \in Dies : e # d \/ ids.idMap[e] # 0 => getID(ids, d).idMap[e] = ids.idMap[e]
      BY GetIDOK
    <3>3. \A e \in Dies : e # t \/ getID(ids, d).idMap[e] # 0
                             => ids'.idMap[e] = getID(ids, d).idMap[e]
      BY <1>3, <3>1, GetTypeIDOK
    <3>4. ~QuietStep(d, t)
      BY <1>1, <2>1 DEF NewStep, QuietStep, ShapesOK
    <3> QED
      BY <1>1, <3>2, <3>3, <3>4
  <2>2. CASE QuietStep(d, t)
    BY <1>1, <1>2, <2>2 DEF QuietStep
  <2>3. CASE \E s \in Dies : MergeStep(d, t, s)
    <3>1. ids' = getID(getTypeID(ids, t), d)
      BY <2>3 DEF MergeStep
    <3>2. /\ ids'.idMap[d] # 0
          /\ \A e \in Dies : e # d \/ getTypeID(ids, t).idMap[e] # 0
                                => ids'.idMap[e] = getTypeID(ids, t).idMap[e]
      BY <1>3, <3>1, GetIDOK
    <3>3. QuietStep(d, t) => ids'.idMap[d] = ids.idMap[d]
      BY <1>1, <1>2 DEF QuietStep
    <3> QED
      BY <1>1, <1>2, <3>2, <3>3
  <2> QED
    BY <2>1, <2>2, <2>3
<1>5. ASSUME NEW e \in Visited, ids'.idMap[e] # ids.idMap[e]
      PROVE  die[e].sym = Null
  <2>1. e \in Dies /\ e # d
    BY <1>1 DEF ShapesOK
  <2>2. e = t /\ ids.idMap[e] = 0
    BY <1>4, <1>5, <2>1
  <2>3. die[e].tag # "member"
    BY <1>1, <2>1, <2>2, ConstantsAssumption
       DEF TypeRefs, TypeTags, RefTags, PlainTags, Composites
  <2> QED
    BY <2>2, <2>3 DEF MergedAliased
<1> QED
  BY <1>4, <1>5

\* A step that constructs a symbol.
LEMMA NewKeepsIdInv ==
    ASSUME IdInv, ShapesOK', IdsOK(ids)', NEW d \in Dies, NEW t \in Dies \cup {Null},
           NewStep(d, t)
    PROVE  IdInv'
<1> USE DEF IdInv
<1> DEFINE k == ids'.idMap[d]
<1>1. /\ \A e \in Dies : ids.idMap[e] # 0 => ids'.idMap[e] = ids.idMap[e]
      /\ \A e \in Visited : ids'.idMap[e] # ids.idMap[e] => die[e].sym = Null
      /\ k # 0
  <2>1. ~QuietStep(d, t)
    BY DEF NewStep, QuietStep, ShapesOK, VisitStep
  <2> QED
    BY <2>1, IdsGrow
<1>2. /\ d \notin Visited /\ d \notin Symbols /\ Visited' = Visited \cup {d}
      /\ Symbols' = Symbols \cup {d} /\ die'[d].sym = d
      /\ \A e \in Visited : die'[e] = die[e]
      /\ \A s \in Symbols : sym'[s].id = sym[s].id
      /\ sym'[d].id = k
      /\ symbolIDMap' = Put(symbolIDMap, k, d)
      /\ symbolIDAliasMap' = symbolIDAliasMap
      /\ symbolIDAliasReverseList' = symbolIDAliasReverseList
  BY DEF NewStep, VisitStep, SymbolIDsKept, ShapesOK
<1>3. Visited \subseteq Dies /\ Symbols \subseteq Visited
  BY DEF ShapesOK
<1>4. /\ DOMAIN symbolIDMap' = DOMAIN symbolIDMap \cup {k}
      /\ \A x \in DOMAIN symbolIDMap' : symbolIDMap'[x] = IF x = k THEN d ELSE symbolIDMap[x]
  BY <1>2 DEF Put
<1>5. \A s \in Symbols : ids'.idMap[s] = ids.idMap[s] /\ ids'.idMap[s] # k
  <2> SUFFICES ASSUME NEW s \in Symbols
               PROVE  ids'.idMap[s] = ids.idMap[s] /\ ids'.idMap[s] # k
    OBVIOUS
  <2>1. ids'.idMap[s] = ids.idMap[s]
    BY <1>1, <1>3 DEF SymbolsRegistered
  <2>2. s \in Dies /\ s # d
    BY <1>2, <1>3
  <2>3. ids'.idMap[s] # ids'.idMap[d]
    BY <1>1, <2>2, IdsInjective
  <2> QED
    BY <2>1, <2>3
<1>6. SymbolsRegistered'
  <2>1. ASSUME NEW s \in Symbols'
        PROVE  /\ die'[s].sym = s
               /\ ids'.idMap[s] # 0
               /\ sym'[s].id = ids'.idMap[s]
               /\ ids'.idMap[s] \in DOMAIN symbolIDMap'
               /\ symbolIDMap'[ids'.idMap[s]] = s
    BY <1>1, <1>2, <1>3, <1>4, <1>5 DEF SymbolsRegistered
  <2>2. ASSUME NEW x \in DOMAIN symbolIDMap'
        PROVE  x = ids'.idMap[symbolIDMap'[x]]
    <3>1. x # k => symbolIDMap[x] \in Symbols /\ x = ids.idMap[symbolIDMap[x]]
      BY <1>4 DEF SymbolsRegistered, ShapesOK
    <3> QED
      BY <1>4, <1>5, <3>1
  <2> QED
    BY <2>1, <2>2 DEF SymbolsRegistered
<1>7. MergedAliased'
  <2> SUFFICES ASSUME NEW e \in Visited'
               PROVE  /\ e \notin Symbols' /\ die'[e].sym # Null /\ ids'.idMap[e] # 0
                            => /\ ids'.idMap[e] \in DOMAIN symbolIDAliasMap'
                               /\ symbolIDAliasMap'[ids'.idMap[e]] = ids'.idMap[die'[e].sym]
                      /\ ids'.idMap[e] = 0 => die'[e].sym = Null \/ die'[e].tag = "member"
    BY DEF MergedAliased
  <2>1. CASE e = d
    BY <1>1, <1>2, <2>1
  <2>2. CASE e # d
    <3>1. e \in Visited /\ die'[e] = die[e] /\ die[e].sym \in Symbols \cup {Null}
      BY <1>2, <2>2 DEF ShapesOK, DieType
    <3> QED
      BY <1>1, <1>2, <1>3, <1>5, <3>1 DEF MergedAliased
  <2> QED
    BY <2>1, <2>2
<1>8. AliasesMerged'
  <2> SUFFICES ASSUME NEW a \in DOMAIN symbolIDAliasMap
               PROVE  \E e \in Visited' : /\ e \notin Symbols'
                                          /\ a = ids'.idMap[e] /\ a # 0
                                          /\ die'[e].sym \in Symbols'
                                          /\ symbolIDAliasMap[a] = ids'.idMap[die'[e].sym]
    BY <1>2 DEF AliasesMerged
  <2>1. PICK e \in Visited : /\ e \notin Symbols
                             /\ a = ids.idMap[e] /\ a # 0
                             /\ die[e].sym \in Symbols
                             /\ symbolIDAliasMap[a] = ids.idMap[die[e].sym]
    BY DEF AliasesMerged
  <2> QED
    BY <1>1, <1>2, <1>3, <1>5, <2>1
<1>9. ReverseExact'
  BY <1>2 DEF ReverseExact, getAliases
<1> QED
  BY <1>6, <1>7, <1>8, <1>9

\* A step that merges a DIE into a symbol.
LEMMA MergeKeepsIdInv ==
    ASSUME IdInv, ShapesOK', IdsOK(ids)', NEW d \in Dies, NEW t \in Dies \cup {Null},
           NEW s \in Dies, MergeStep(d, t, s)
    PROVE  IdInv'
<1> USE DEF IdInv
<1> DEFINE k == ids'.idMap[d]
           j == sym[s].id
<1>1. d \notin Visited /\ s \in Symbols /\ s # Null /\ d \notin Symbols
  BY ConstantsAssumption DEF MergeStep, VisitStep, ShapesOK
<1>2. /\ Visited' = Visited \cup {d} /\ Symbols' = Symbols /\ die'[d].sym = s
      /\ \A e \in Visited : die'[e] = die[e]
      /\ \A x \in Symbols : sym'[x].id = sym[x].id
      /\ symbolIDMap' = symbolIDMap
      /\ symbolIDAliasMap' = Put(symbolIDAliasMap, k, j)
      /\ symbolIDAliasReverseList' = Put(symbolIDAliasReverseList, j, getAliases(j) \cup {k})
  BY DEF MergeStep, VisitStep, SymbolIDsKept, addAlternativeID
<1>3. Visited \subseteq Dies /\ Symbols \subseteq Visited
  BY DEF ShapesOK
<1>4. ids' = getID(getTypeID(ids, t), d)
  BY DEF MergeStep
<1>5. k # 0
  BY <1>4, GetIDOK, GetTypeIDOK
<1>6. /\ \A e \in Dies : ids.idMap[e] # 0 => ids'.idMap[e] = ids.idMap[e]
      /\ \A e \in Visited : ids'.idMap[e] # ids.idMap[e] => die[e].sym = Null
  BY IdsGrow
<1>7. \A x \in Symbols : ids'.idMap[x] = ids.idMap[x] /\ ids'.idMap[x] # 0
  BY <1>3, <1>6 DEF SymbolsRegistered
<1>8. j = ids'.idMap[s]
  BY <1>1, <1>7 DEF SymbolsRegistered
<1>9. \A e \in Visited : ids'.idMap[e] # k
  <2> SUFFICES ASSUME NEW e \in Visited, ids'.idMap[e] = k PROVE FALSE
    OBVIOUS
  <2>1. e \in Dies /\ e # d
    BY <1>1, <1>3
  <2> QED
    BY <1>5, <2>1, IdsInjective
<1>10. k \notin DOMAIN symbolIDAliasMap
  <2> SUFFICES ASSUME k \in DOMAIN symbolIDAliasMap PROVE FALSE
    OBVIOUS
  <2>1. PICK e \in Visited : k = ids.idMap[e] /\ ids.idMap[e] # 0
    BY DEF AliasesMerged
  <2> QED
    BY <1>3, <1>6, <1>9, <2>1
<1>11. /\ DOMAIN symbolIDAliasMap' = DOMAIN symbolIDAliasMap \cup {k}
       /\ \A a \in DOMAIN symbolIDAliasMap' :
             symbolIDAliasMap'[a] = IF a = k THEN j ELSE symbolIDAliasMap[a]
  BY <1>2 DEF Put
<1>12. SymbolsRegistered'
  <2>1. ASSUME NEW x \in Symbols'
        PROVE  /\ die'[x].sym = x
               /\ ids'.idMap[x] # 0
               /\ sym'[x].id = ids'.idMap[x]
               /\ ids'.idMap[x] \in DOMAIN symbolIDMap'
               /\ symbolIDMap'[ids'.idMap[x]] = x
    BY <1>2, <1>3, <1>7 DEF SymbolsRegistered
  <2>2. ASSUME NEW x \in DOMAIN symbolIDMap'
        PROVE  x = ids'.idMap[symbolIDMap'[x]]
    <3>1. symbolIDMap[x] \in Symbols /\ x = ids.idMap[symbolIDMap[x]]
      BY <1>2 DEF SymbolsRegistered, ShapesOK
    <3> QED
      BY <1>2, <1>7, <3>1
  <2> QED
    BY <2>1, <2>2 DEF SymbolsRegistered
<1>13. MergedAliased'
  <2> SUFFICES ASSUME NEW e \in Visited'
               PROVE  /\ e \notin Symbols' /\ die'[e].sym # Null /\ ids'.idMap[e] # 0
                            => /\ ids'.idMap[e] \in DOMAIN symbolIDAliasMap'
                               /\ symbolIDAliasMap'[ids'.idMap[e]] = ids'.idMap[die'[e].sym]
                      /\ ids'.idMap[e] = 0 => die'[e].sym = Null \/ die'[e].tag = "member"
    BY DEF MergedAliased
  <2>1. CASE e = d
    BY <1>2, <1>5, <1>8, <1>11, <2>1
  <2>2. CASE e # d
    <3>1. e \in Visited /\ die'[e] = die[e] /\ die[e].sym \in Symbols \cup {Null}
      BY <1>2, <2>2 DEF ShapesOK, DieType
    <3>2. ids'.idMap[e] # k
      BY <1>9, <3>1
    <3>3. die[e].sym # Null => ids'.idMap[e] = ids.idMap[e]
      BY <1>6, <3>1
    <3>4. ids'.idMap[e] = 0 => ids.idMap[e] = 0
      BY <1>3, <1>6, <3>1
    <3> QED
      BY <1>2, <1>7, <1>11, <3>1, <3>2, <3>3, <3>4 DEF MergedAliased
  <2> QED
    BY <2>1, <2>2
<1>14. AliasesMerged'
  <2> SUFFICES ASSUME NEW a \in DOMAIN symbolIDAliasMap'
               PROVE  \E e \in Visited' : /\ e \notin Symbols'
                                          /\ a = ids'.idMap[e] /\ a # 0
                                          /\ die'[e].sym \in Symbols'
                                          /\ symbolIDAliasMap'[a] = ids'.idMap[die'[e].sym]
    BY DEF AliasesMerged
  <2>1. CASE a = k
    BY <1>1, <1>2, <1>5, <1>8, <1>11, <2>1
  <2>2. CASE a # k
    <3>1. PICK e \in Visited : /\ e \notin Symbols
                               /\ a = ids.idMap[e] /\ a # 0
                               /\ die[e].sym \in Symbols
                               /\ symbolIDAliasMap[a] = ids.idMap[die[e].sym]
      BY <1>11, <2>2 DEF AliasesMerged
    <3>2. ids'.idMap[e] = a /\ ids'.idMap[die[e].sym] = ids.idMap[die[e].sym]
      BY <1>3, <1>6, <1>7, <3>1
    <3> QED
      BY <1>2, <1>11, <2>2, <3>1, <3>2
  <2> QED
    BY <2>1, <2>2
<1>15. ReverseExact'
  <2> SUFFICES ASSUME NEW i \in Nat
               PROVE  getAliases(i)' = {a \in DOMAIN symbolIDAliasMap' : symbolIDAliasMap'[a] = i}
    BY DEF ReverseExact
  <2>1. getAliases(i) = {a \in DOMAIN symbolIDAliasMap : symbolIDAliasMap[a] = i}
    BY DEF ReverseExact
  <2>2. CASE i = j
    <3>1. getAliases(i)' = getAliases(i) \cup {k}
      BY <1>2, <2>2 DEF getAliases, Put
    <3> QED
      BY <1>10, <1>11, <2>1, <2>2, <3>1
  <2>3. CASE i # j
    <3>1. getAliases(i)' = getAliases(i)
      BY <1>2, <2>3 DEF getAliases, Put
    <3> QED
      BY <1>10, <1>11, <2>1, <2>3, <3>1
  <2> QED
    BY <2>2, <2>3
<1> QED
  BY <1>12, <1>13, <1>14, <1>15

\* A step that neither constructs nor merges.
LEMMA QuietKeepsIdInv ==
    ASSUME IdInv, ShapesOK', IdsOK(ids)', NEW d \in Dies, NEW t \in Dies \cup {Null},
           QuietStep(d, t)
    PROVE  IdInv'
<1> USE DEF IdInv
<1>1. /\ Visited' = Visited \cup {d} /\ Symbols' = Symbols
      /\ d \notin Visited /\ d \notin Symbols
      /\ \A e \in Visited : die'[e] = die[e]
      /\ \A x \in Symbols : sym'[x].id = sym[x].id
      /\ symbolIDMap' = symbolIDMap
      /\ symbolIDAliasMap' = symbolIDAliasMap
      /\ symbolIDAliasReverseList' = symbolIDAliasReverseList
  BY DEF QuietStep, VisitStep, SymbolIDsKept, idVars, ShapesOK
<1>2. Visited \subseteq Dies /\ Symbols \subseteq Visited
  BY DEF ShapesOK
<1>3. /\ \A e \in Dies : ids.idMap[e] # 0 => ids'.idMap[e] = ids.idMap[e]
      /\ \A e \in Visited : ids'.idMap[e] # ids.idMap[e] => die[e].sym = Null
      /\ ids'.idMap[d] = ids.idMap[d]
  BY IdsGrow
<1>4. \A x \in Symbols : ids'.idMap[x] = ids.idMap[x] /\ ids'.idMap[x] # 0
  BY <1>2, <1>3 DEF SymbolsRegistered
<1>5. SymbolsRegistered'
  <2>1. ASSUME NEW x \in DOMAIN symbolIDMap'
        PROVE  x = ids'.idMap[symbolIDMap'[x]]
    <3>1. symbolIDMap[x] \in Symbols /\ x = ids.idMap[symbolIDMap[x]]
      BY <1>1 DEF SymbolsRegistered, ShapesOK
    <3> QED
      BY <1>1, <1>4, <3>1
  <2> QED
    BY <1>1, <1>2, <1>4, <2>1 DEF SymbolsRegistered
<1>6. MergedAliased'
  <2> SUFFICES ASSUME NEW e \in Visited'
               PROVE  /\ e \notin Symbols' /\ die'[e].sym # Null /\ ids'.idMap[e] # 0
                            => /\ ids'.idMap[e] \in DOMAIN symbolIDAliasMap'
                               /\ symbolIDAliasMap'[ids'.idMap[e]] = ids'.idMap[die'[e].sym]
                      /\ ids'.idMap[e] = 0 => die'[e].sym = Null \/ die'[e].tag = "member"
    BY DEF MergedAliased
  <2>1. CASE e = d
    <3>1. die'[d].sym # Null => die'[d].tag = "member"
      BY DEF QuietStep
    <3>2. ids.idMap[d] # 0 => die'[d].tag # "member"
      BY DEF QuietStep, VisitStep, TypeTags, RefTags, PlainTags, Composites
    <3> QED
      BY <1>3, <2>1, <3>1, <3>2
  <2>2. CASE e # d
    <3>1. e \in Visited /\ die'[e] = die[e] /\ die[e].sym \in Symbols \cup {Null}
      BY <1>1, <2>2 DEF ShapesOK, DieType
    <3>2. die[e].sym # Null => ids'.idMap[e] = ids.idMap[e]
      BY <1>3, <3>1
    <3>3. ids'.idMap[e] = 0 => ids.idMap[e] = 0
      BY <1>2, <1>3, <3>1
    <3> QED
      BY <1>1, <1>4, <3>1, <3>2, <3>3 DEF MergedAliased
  <2> QED
    BY <2>1, <2>2
<1>7. AliasesMerged'
  <2> SUFFICES ASSUME NEW a \in DOMAIN symbolIDAliasMap
               PROVE  \E e \in Visited' : /\ e \notin Symbols'
                                          /\ a = ids'.idMap[e] /\ a # 0
                                          /\ die'[e].sym \in Symbols'
                                          /\ symbolIDAliasMap[a] = ids'.idMap[die'[e].sym]
    BY <1>1 DEF AliasesMerged
  <2>1. PICK e \in Visited : /\ e \notin Symbols
                             /\ a = ids.idMap[e] /\ a # 0
                             /\ die[e].sym \in Symbols
                             /\ symbolIDAliasMap[a] = ids.idMap[die[e].sym]
    BY DEF AliasesMerged
  <2> QED
    BY <1>1, <1>2, <1>3, <1>4, <2>1
<1>8. ReverseExact'
  BY <1>1 DEF ReverseExact, getAliases
<1> QED
  BY <1>5, <1>6, <1>7, <1>8

\* A user's call.
LEMMA UserKeepsIdInv ==
    ASSUME IdInv, ShapesOK', IdsOK(ids)', UserStep
    PROVE  IdInv'
<1>1. Visited' = Visited /\ Symbols' = Symbols
  BY DEF UserStep, Visited
<1> QED
  BY <1>1 DEF IdInv, UserStep, SymbolIDsKept, idVars, SymbolsRegistered, MergedAliased,
              AliasesMerged, ReverseExact, getAliases

\* The inductive invariant behind the theorems on ids and aliases.
LEMMA IdInvariant == Spec => []IdInv
<1>1. Init => IdInv
  <2> SUFFICES ASSUME Init PROVE IdInv
    OBVIOUS
  <2>1. ShapesOK /\ IdsOK(ids)
    BY InitTypeOK
  <2>2. /\ Symbols = {} /\ Visited = {}
        /\ DOMAIN symbolIDMap = {} /\ DOMAIN symbolIDAliasMap = {}
        /\ DOMAIN symbolIDAliasReverseList = {}
    BY DEF Init, EmptyMap, Symbols, Visited
  <2> QED
    BY <2>1, <2>2 DEF IdInv, SymbolsRegistered, MergedAliased, AliasesMerged,
                      ReverseExact, getAliases
<1>2. IdInv /\ [Next]_vars => IdInv'
  <2> SUFFICES ASSUME IdInv, [Next]_vars PROVE IdInv'
    OBVIOUS
  <2>1. CASE Next
    <3>1. ShapesOK' /\ IdsOK(ids)' /\ Step
      BY <2>1, NextStep DEF IdInv
    <3> QED
      BY <3>1, NewKeepsIdInv, MergeKeepsIdInv, QuietKeepsIdInv, UserKeepsIdInv DEF Step
  <2>2. CASE UNCHANGED vars
    <3>1. ShapesOK' /\ IdsOK(ids)' /\ UserStep
      BY <2>2, StutterOK DEF IdInv
    <3> QED
      BY <3>1, UserKeepsIdInv
  <2> QED
    BY <2>1, <2>2
<1> QED
  BY <1>1, <1>2, PTL DEF Spec

\* What findSymbolByID returns for the id of any DIE.
LEMMA Resolution ==
    ASSUME IdInv, NEW d \in Dies, ids.idMap[d] # 0
    PROVE  findSymbolByID(ids.idMap[d]) = IF d \in Visited THEN die[d].sym ELSE Null
<1> USE DEF IdInv
<1> DEFINE k == ids.idMap[d]
           alias == IF k \in DOMAIN symbolIDAliasMap THEN symbolIDAliasMap[k] ELSE 0
           rev == {i \in getAliases(k) : i \in DOMAIN symbolIDMap}
<1>1. Symbols \subseteq Visited /\ Visited \subseteq Dies /\ Null \notin Dies
  BY ConstantsAssumption DEF ShapesOK
<1>2. CASE d \in Symbols
  BY <1>1, <1>2 DEF findSymbolByID, SymbolsRegistered
<1>3. CASE d \notin Symbols
  <2>1. k \notin DOMAIN symbolIDMap
    <3> SUFFICES ASSUME k \in DOMAIN symbolIDMap PROVE FALSE
      OBVIOUS
    <3>1. symbolIDMap[k] \in Symbols /\ k = ids.idMap[symbolIDMap[k]]
      BY DEF SymbolsRegistered, ShapesOK
    <3>2. symbolIDMap[k] = d
      BY <1>1, <3>1, IdsInjective
    <3> QED
      BY <1>3, <3>1, <3>2
  <2>2. CASE d \in Visited /\ die[d].sym # Null
    <3>1. k \in DOMAIN symbolIDAliasMap /\ symbolIDAliasMap[k] = ids.idMap[die[d].sym]
      BY <1>3, <2>2 DEF MergedAliased
    <3>2. die[d].sym \in Symbols
      BY <2>2 DEF ShapesOK, DieType
    <3>3. /\ alias \in DOMAIN symbolIDMap
          /\ symbolIDMap[alias] = die[d].sym
          /\ sym[symbolIDMap[alias]].id = alias
      BY <3>1, <3>2 DEF SymbolsRegistered
    <3> QED
      BY <2>1, <2>2, <3>3 DEF findSymbolByID
  <2>3. CASE ~(d \in Visited /\ die[d].sym # Null)
    <3>1. k \notin DOMAIN symbolIDAliasMap
      <4> SUFFICES ASSUME k \in DOMAIN symbolIDAliasMap PROVE FALSE
        OBVIOUS
      <4>1. PICK e \in Visited : k = ids.idMap[e] /\ die[e].sym \in Symbols
        BY DEF AliasesMerged
      <4>2. e = d
        BY <1>1, <4>1, IdsInjective
      <4> QED
        BY <1>1, <2>3, <4>1, <4>2
    <3>2. 0 \notin DOMAIN symbolIDMap
      BY DEF SymbolsRegistered, ShapesOK
    <3>3. getAliases(k) = {}
      <4> SUFFICES ASSUME NEW a \in getAliases(k) PROVE FALSE
        OBVIOUS
      <4>1. k \in Nat
        BY DEF IdsOK
      <4>2. a \in DOMAIN symbolIDAliasMap /\ symbolIDAliasMap[a] = k
        BY <4>1 DEF ReverseExact
      <4>3. PICK e \in Visited : die[e].sym \in Symbols /\ k = ids.idMap[die[e].sym]
        BY <4>2 DEF AliasesMerged
      <4>4. die[e].sym = d
        BY <1>1, <4>3, IdsInjective
      <4> QED
        BY <1>3, <4>3, <4>4
    <3>4. rev = {}
      BY <3>3
    <3>5. alias = 0
      BY <3>1
    <3>6. findSymbolByID(k) = Null
      BY <2>1, <3>2, <3>4, <3>5 DEF findSymbolByID
    <3> QED
      BY <2>3, <3>6
  <2> QED
    BY <2>2, <2>3
<1> QED
  BY <1>2, <1>3

\* findSymbolByID resolves every issued id to the symbol its DIE became, for
\* any number of files and DIEs in any interleaving.
THEOREM ResolveCorrect == Spec => []ResolveExact
<1>1. IdInv => ResolveExact
  BY Resolution DEF ResolveExact
<1> QED
  BY <1>1, IdInvariant, PTL

\* The alias map stays flat and its reverse list exact.
THEOREM AliasesCorrect == Spec => []AliasesExact
<1>1. IdInv => AliasesExact
  <2> SUFFICES ASSUME IdInv PROVE AliasesExact
    OBVIOUS
  <2> USE DEF IdInv
  <2>1. Symbols \subseteq Visited /\ Visited \subseteq Dies
    BY DEF ShapesOK
  <2>2. ASSUME NEW a \in DOMAIN symbolIDAliasMap, a \in DOMAIN symbolIDMap
        PROVE  FALSE
    <3>1. PICK e \in Visited : e \notin Symbols /\ a = ids.idMap[e] /\ a # 0
      BY <2>2 DEF AliasesMerged
    <3>2. symbolIDMap[a] \in Symbols /\ a = ids.idMap[symbolIDMap[a]]
      BY <2>2 DEF SymbolsRegistered, ShapesOK
    <3>3. symbolIDMap[a] = e
      BY <2>1, <3>1, <3>2, IdsInjective
    <3> QED
      BY <3>1, <3>2, <3>3
  <2>3. ASSUME NEW a \in DOMAIN symbolIDAliasMap
        PROVE  symbolIDAliasMap[a] \in DOMAIN symbolIDMap
    BY DEF AliasesMerged, SymbolsRegistered
  <2>4. \A i \in 1..ids.currentID :
           getAliases(i) = {a \in DOMAIN symbolIDAliasMap : symbolIDAliasMap[a] = i}
    BY DEF ReverseExact, IdsOK
  <2> QED
    BY <2>2, <2>3, <2>4 DEF AliasesExact
<1> QED
  BY <1>1, IdInvariant, PTL

-----------------------------------------------------------------------------
(* The refinement. *)

\* The abstract symbol of a DIE is the one its visit ended in.
CanonExact ==
    /\ Canon \in [Dies -> Dies \cup {Null}]
    /\ \A d \in Dies : Canon[d] = IF ids.idMap[d] # 0 /\ d \in Visited
                                  THEN die[d].sym ELSE Null

\* Under the invariant the refinement mapping gives each visited DIE its symbol.
LEMMA CanonIs == IdInv => CanonExact
<1> SUFFICES ASSUME IdInv PROVE CanonExact
  OBVIOUS
<1>1. \A d \in Dies : Canon[d] = IF ids.idMap[d] # 0 /\ d \in Visited
                                 THEN die[d].sym ELSE Null
  BY Resolution DEF Canon
<1>2. \A d \in Visited : die[d].sym \in Dies \cup {Null}
  BY DEF IdInv, ShapesOK, DieType
<1>3. Canon = [d \in Dies |-> Canon[d]]
  BY DEF Canon
<1> QED
  BY <1>1, <1>2, <1>3 DEF CanonExact

\* Every step is an Introduce, a Merge or a stutter of SymbolNamespace.
LEMMA StepRefines ==
    ASSUME IdInv, CanonExact, CanonExact', Step
    PROVE  [Namespace!Next]_Canon
<1>1. /\ Canon \in [Dies -> Dies \cup {Null}]
      /\ \A e \in Dies : Canon[e] = IF ids.idMap[e] # 0 /\ e \in Visited
                                    THEN die[e].sym ELSE Null
  BY DEF CanonExact
<1>2. /\ Canon' \in [Dies -> Dies \cup {Null}]
      /\ \A e \in Dies : Canon'[e] = IF ids'.idMap[e] # 0 /\ e \in Visited'
                                     THEN die'[e].sym ELSE Null
  BY DEF CanonExact
<1>3. CASE UserStep
  <2>1. \A e \in Dies : Canon'[e] = Canon[e]
    BY <1>1, <1>2, <1>3 DEF UserStep, Visited
  <2> QED
    BY <1>1, <1>2, <2>1
<1>4. ASSUME NEW d \in Dies, NEW t \in Dies \cup {Null},
             NewStep(d, t) \/ QuietStep(d, t) \/ \E s \in Dies : MergeStep(d, t, s)
      PROVE  [Namespace!Next]_Canon
  <2>1. /\ d \notin Visited /\ Visited' = Visited \cup {d}
        /\ \A e \in Visited : die'[e] = die[e]
    BY <1>4 DEF NewStep, QuietStep, MergeStep, VisitStep
  <2>2. /\ \A e \in Dies : ids.idMap[e] # 0 => ids'.idMap[e] = ids.idMap[e]
        /\ \A e \in Visited : ids'.idMap[e] # ids.idMap[e] => die[e].sym = Null
        /\ QuietStep(d, t) => ids'.idMap[d] = ids.idMap[d]
        /\ ~QuietStep(d, t) => ids'.idMap[d] # 0
    BY <1>4, IdsGrow
  <2>3. \A e \in Dies : e # d => Canon'[e] = Canon[e]
    BY <1>1, <1>2, <2>1, <2>2
  <2>4. Canon[d] = Null
    BY <1>1, <2>1
  <2>5. CASE QuietStep(d, t)
    <3>1. ids.idMap[d] # 0 => die'[d].sym = Null
      BY <2>5 DEF QuietStep, VisitStep, TypeTags, RefTags, PlainTags, Composites
    <3>2. Canon'[d] = Null
      BY <1>2, <2>2, <2>5, <3>1
    <3> QED
      BY <1>1, <1>2, <2>3, <2>4, <3>2
  <2>6. CASE ~QuietStep(d, t) /\ NewStep(d, t)
    <3>1. Canon'[d] = d
      BY <1>2, <2>1, <2>2, <2>6 DEF NewStep, VisitStep
    <3>2. Canon' = [Canon EXCEPT ![d] = d]
      BY <1>1, <1>2, <2>3, <3>1
    <3> QED
      BY <2>4, <3>2 DEF Namespace!Next, Namespace!Introduce
  <2>7. CASE ~QuietStep(d, t) /\ \E s \in Dies : MergeStep(d, t, s)
    <3>1. PICK s \in Dies : MergeStep(d, t, s)
      BY <2>7
    <3>2. Canon[s] = s
      <4>1. s \in Symbols /\ s \in Visited
        BY <3>1 DEF MergeStep, IdInv, ShapesOK
      <4>2. die[s].sym = s /\ ids.idMap[s] # 0
        BY <4>1 DEF IdInv, SymbolsRegistered
      <4> QED
        BY <1>1, <4>1, <4>2
    <3>3. Canon'[d] = s
      BY <1>2, <2>1, <2>2, <2>7, <3>1 DEF MergeStep, VisitStep
    <3>4. Canon' = [Canon EXCEPT ![d] = s]
      BY <1>1, <1>2, <2>3, <3>3
    <3> QED
      BY <2>4, <3>2, <3>4 DEF Namespace!Next, Namespace!Merge
  <2> QED
    BY <1>4, <2>5, <2>6, <2>7
<1> QED
  BY <1>3, <1>4 DEF Step

\* The manager implements the abstract namespace: what an id resolves to is
\* settled once, by a symbol that resolves to itself.
THEOREM NamespaceImplemented == Spec => ImplementsNamespace
<1>1. Init => Namespace!Init
  <2> SUFFICES ASSUME Init PROVE Canon = [d \in Dies |-> Null]
    BY DEF Namespace!Init
  <2> QED
    BY DEF Init, Canon
<1>2. IdInv /\ CanonExact /\ CanonExact' /\ [Next]_vars => [Namespace!Next]_Canon
  <2> SUFFICES ASSUME IdInv, CanonExact, CanonExact', [Next]_vars
               PROVE  [Namespace!Next]_Canon
    OBVIOUS
  <2>1. Step
    BY NextStep, StutterOK DEF IdInv, Step
  <2> QED
    BY <2>1, StepRefines
<1> QED
  BY <1>1, <1>2, IdInvariant, CanonIs, PTL DEF Spec, ImplementsNamespace, Namespace!Spec

=============================================================================
