-------------------------- MODULE ManagerLocksProofs --------------------------
(***************************************************************************)
(* For any number of threads and calls: the maps whose mutex is taken on   *)
(* every path see no race, a thread between two calls holds no mutex but   *)
(* those that were abandoned, every DIE that was read to the end is found  *)
(* by its id, and no second symbol of its name is constructed, unless a    *)
(* race on a map without a mutex hid it.  A program is followed step by    *)
(* step twice: for the mutexes its thread holds (Disciplined) and for what *)
(* the maps must hold already (Builds).                                    *)
(***************************************************************************)
EXTENDS ManagerLocks, FiniteSetTheorems, TLAPS

-----------------------------------------------------------------------------
(* The discipline of a program. *)

DieIds == DieClasses \X Threads \X Nat
Ids == {Root} \cup DieIds
AliasMaps == {"symbolIDAliasMap", "symbolIDAliasReverseList"}
Things == Ids \cup (Ids \X Ids) \cup (Ids \X (SUBSET Ids) \X (SUBSET Ids))
Entries(map) == IF map \in AliasMaps THEN Ids \X Ids ELSE Ids

Steps == [kind : {"mutex", "read", "write", "none"},
          op : {"lock", "unlock", "insert", "erase", "skip", "may_throw", "return", "lookup",
                "name_free", "find_member", "find_symbol", "find_alias", "use_alias",
                "find_target", "fail", "has_aliases", "merge_equal", "merge_next"},
          on : Mutexes \cup Maps \cup {"none"},
          die : Things]

\* The maps that are never touched, or never written, without their mutex.
Guard == [idMap |-> "mapMutex", symbolNameMap |-> "symbolNameMapMutex",
          funcList |-> "funcListMutex", arrayVector |-> "arrayVectorMutex",
          symbolIDAliasMap |-> "symbolIDAliasMapMutex",
          functionNameMap |-> "functionNameMapMutex",
          arrayTypeMap |-> "arrayTypeMapMutex", enumValues |-> "enumMutex"]
GuardedMaps == {"idMap", "symbolNameMap", "funcList", "arrayVector"}
WriteGuardedMaps ==
    GuardedMaps \cup {"symbolIDAliasMap", "functionNameMap", "arrayTypeMap", "enumValues"}
Lists == {"funcList", "arrayVector"}
ListMutexes == {"funcListMutex", "arrayVectorMutex"}
NamedClasses == {"struct", "function", "typedef", "variable"}

\* What the code takes for granted at a step when it holds the mutexes H.
StepOK(s, H) ==
    /\ s.kind \in {"read", "write"} /\ s.on \in GuardedMaps => Guard[s.on] \in H
    /\ s.kind = "write" /\ s.on \in WriteGuardedMaps => Guard[s.on] \in H
    /\ s.op = "lock" => s.on \in Mutexes \ H
    /\ s.op = "unlock" => s.on \in H
    /\ s.op = "insert" => s.kind = "write" /\ s.on \in Maps /\ s.die \in Entries(s.on)
    /\ s.op = "may_throw" => H \subseteq {"memberMutex"} /\ s.die \in Ids
    /\ s.op = "return" => H = {} /\ s.die \in Ids
    /\ s.op = "has_aliases" => H = {} /\ s.die \in Ids
    /\ s.op = "lookup" => H = {} /\ s.die \in DieIds /\ s.die[1] \in NamedClasses
                          /\ s.on = NameIndex(s.die[1])
    /\ s.op = "name_free" => H = {} /\ s.die \in Ids
    /\ s.op = "find_member" => H = {"memberMutex"} /\ s.die \in DieIds /\ s.die[1] = "member"
    /\ s.op \in {"find_symbol", "find_target"} =>
          /\ "symbolIDMapMutex" \in H /\ H \subseteq {"symbolIDMapMutex"} \cup ListMutexes
          /\ s.die \in Ids /\ s.on = "symbolIDMap"
    /\ s.op = "find_alias" =>
          /\ "symbolIDAliasMapMutex" \in H /\ H \subseteq {"symbolIDAliasMapMutex"} \cup ListMutexes
          /\ s.die \in Ids /\ s.on = "symbolIDAliasMap"
    /\ s.op = "use_alias" => H \subseteq ListMutexes /\ s.die \in Ids
    /\ s.op = "merge_equal" => s.on \in Lists /\ H = {ListMutex(s.on)}
    /\ s.op = "merge_next" =>
          /\ s.on \in Lists /\ H = {ListMutex(s.on)}
          /\ s.die \in Ids \X (SUBSET Ids) \X (SUBSET Ids)
          /\ IsFiniteSet(s.die[3])

\* The mutexes held after the step and what it turns into; NotFound and a
\* return leave the call.
After(s, H) ==
    CASE s.op = "lock" -> H \cup {s.on}
      [] s.op = "unlock" -> H \ {s.on}
      [] s.op \in {"find_symbol", "find_target"} -> H \ {"symbolIDMapMutex"}
      [] s.op = "find_alias" -> H \ {"symbolIDAliasMapMutex"}
      [] s.op \in {"find_member", "merge_equal", "merge_next", "fail"} -> {}
      [] OTHER -> H

\* Program p takes a thread from holding H to holding K, with every mutex it
\* needs at hand.
Disciplined(p, H, K) ==
    /\ p \in Seq(Steps)
    /\ \E h \in [1..(Len(p) + 1) -> SUBSET Mutexes] :
          /\ h[1] = H /\ h[Len(p) + 1] = K
          /\ \A i \in 1..Len(p) : StepOK(p[i], h[i]) /\ h[i + 1] = After(p[i], h[i])

OwnersOK ==
    /\ owner \in [Mutexes -> Threads \cup {Nobody}]
    /\ abandoned \subseteq {"funcListMutex", "arrayVectorMutex", "memberMutex"}
    /\ \A m \in abandoned : owner[m] # Nobody

DataOK ==
    /\ data \in [Maps -> SUBSET (Ids \cup (Ids \X Ids))]
    /\ \A map \in Maps : data[map] \subseteq Entries(map)
    /\ finished \subseteq Ids
    /\ calls \in [Threads -> Nat]

ProgramsOK ==
    /\ todo \in [Threads -> Seq(Steps)]
    /\ \A t \in Threads : Disciplined(todo[t], Held(t) \ abandoned, {})

LocksInv == OwnersOK /\ DataOK /\ ProgramsOK

-----------------------------------------------------------------------------
(* Programs put together. *)

\* A step leaves a set of mutexes.
LEMMA AfterType ==
    ASSUME NEW s \in Steps, NEW H \in SUBSET Mutexes, StepOK(s, H)
    PROVE  After(s, H) \in SUBSET Mutexes
<1>1. s.op = "lock" => s.on \in Mutexes
  BY DEF StepOK
<1> QED
  BY <1>1 DEF After

\* The empty program changes nothing.
LEMMA NothingDisciplined ==
    ASSUME NEW H \in SUBSET Mutexes, NEW K
    PROVE  Disciplined(<<>>, H, K) <=> H = K
<1>1. <<>> \in Seq(Steps) /\ Len(<<>>) = 0
  OBVIOUS
<1>2. ASSUME H = K
      PROVE  Disciplined(<<>>, H, K)
  <2> DEFINE h == [i \in 1..(Len(<<>>) + 1) |-> H]
  <2>1. h \in [1..(Len(<<>>) + 1) -> SUBSET Mutexes] /\ h[1] = H /\ h[Len(<<>>) + 1] = K
    BY <1>1, <1>2
  <2>2. \A i \in 1..Len(<<>>) : StepOK(<<>>[i], h[i]) /\ h[i + 1] = After(<<>>[i], h[i])
    BY <1>1
  <2> QED
    BY <1>1, <2>1, <2>2 DEF Disciplined
<1>3. ASSUME Disciplined(<<>>, H, K)
      PROVE  H = K
  BY <1>1, <1>3 DEF Disciplined
<1> QED
  BY <1>2, <1>3

\* A program of one step.
LEMMA StepDisciplined ==
    ASSUME NEW s \in Steps, NEW H \in SUBSET Mutexes, StepOK(s, H)
    PROVE  Disciplined(<<s>>, H, After(s, H))
<1> DEFINE h == [i \in 1..2 |-> IF i = 1 THEN H ELSE After(s, H)]
<1>1. <<s>> \in Seq(Steps) /\ Len(<<s>>) = 1 /\ <<s>>[1] = s
  OBVIOUS
<1>2. h \in [1..2 -> SUBSET Mutexes] /\ h[1] = H /\ h[2] = After(s, H)
  BY AfterType
<1> HIDE DEF h
<1>3. \A i \in 1..Len(<<s>>) : i = 1
  BY <1>1
<1>4. Len(<<s>>) + 1 = 2 /\ 1 + 1 = 2
  BY <1>1
<1>5. \A i \in 1..Len(<<s>>) : StepOK(<<s>>[i], h[i]) /\ h[i + 1] = After(<<s>>[i], h[i])
  BY <1>1, <1>2, <1>3, <1>4
<1> QED
  BY <1>1, <1>2, <1>4, <1>5 DEF Disciplined

\* One program after another.
LEMMA ThenDisciplined ==
    ASSUME NEW p, NEW q, NEW H, NEW K, NEW L,
           Disciplined(p, H, K), Disciplined(q, K, L)
    PROVE  Disciplined(p \o q, H, L)
<1>1. p \in Seq(Steps) /\ q \in Seq(Steps) /\ Len(p) \in Nat /\ Len(q) \in Nat
  BY DEF Disciplined
<1>2. PICK g \in [1..(Len(p) + 1) -> SUBSET Mutexes] :
          /\ g[1] = H /\ g[Len(p) + 1] = K
          /\ \A i \in 1..Len(p) : StepOK(p[i], g[i]) /\ g[i + 1] = After(p[i], g[i])
  BY DEF Disciplined
<1>3. PICK h \in [1..(Len(q) + 1) -> SUBSET Mutexes] :
          /\ h[1] = K /\ h[Len(q) + 1] = L
          /\ \A i \in 1..Len(q) : StepOK(q[i], h[i]) /\ h[i + 1] = After(q[i], h[i])
  BY DEF Disciplined
<1> DEFINE r == p \o q
           k == [i \in 1..(Len(r) + 1) |-> IF i <= Len(p) THEN g[i] ELSE h[i - Len(p)]]
<1>4. /\ r \in Seq(Steps) /\ Len(r) = Len(p) + Len(q)
      /\ \A i \in 1..Len(r) : r[i] = IF i <= Len(p) THEN p[i] ELSE q[i - Len(p)]
  BY <1>1
<1> HIDE DEF r
<1>5. k \in [1..(Len(r) + 1) -> SUBSET Mutexes]
  BY <1>1, <1>2, <1>3, <1>4
<1>6. \A i \in 1..(Len(r) + 1) : k[i] = IF i <= Len(p) THEN g[i] ELSE h[i - Len(p)]
  OBVIOUS
<1> HIDE DEF k
<1>7. \A i \in 1..(Len(p) + 1) : k[i] = g[i]
  <2> SUFFICES ASSUME NEW i \in 1..(Len(p) + 1) PROVE k[i] = g[i]
    OBVIOUS
  <2>1. i \in 1..(Len(r) + 1)
    BY <1>1, <1>4
  <2>2. CASE i <= Len(p)
    BY <1>6, <2>1, <2>2
  <2>3. CASE i = Len(p) + 1
    <3>1. ~(i <= Len(p)) /\ i - Len(p) = 1
      BY <1>1, <2>3
    <3> QED
      BY <1>2, <1>3, <1>6, <2>1, <2>3, <3>1
  <2> QED
    BY <1>1, <2>2, <2>3
<1>8. k[1] = H /\ k[Len(r) + 1] = L
  <2>1. 1 \in 1..(Len(p) + 1) /\ Len(r) + 1 \in 1..(Len(r) + 1)
    BY <1>1, <1>4
  <2>2. ~(Len(r) + 1 <= Len(p)) /\ (Len(r) + 1) - Len(p) = Len(q) + 1
    BY <1>1, <1>4
  <2> QED
    BY <1>2, <1>3, <1>6, <1>7, <2>1, <2>2
<1>9. ASSUME NEW i \in 1..Len(r)
      PROVE  StepOK(r[i], k[i]) /\ k[i + 1] = After(r[i], k[i])
  <2>1. CASE i <= Len(p)
    <3>1. i \in 1..Len(p) /\ i \in 1..(Len(p) + 1) /\ i + 1 \in 1..(Len(p) + 1)
      BY <1>1, <1>4, <2>1
    <3> QED
      BY <1>2, <1>4, <1>7, <2>1, <3>1
  <2>2. CASE ~(i <= Len(p))
    <3>1. /\ i - Len(p) \in 1..Len(q) /\ (i + 1) - Len(p) = (i - Len(p)) + 1
          /\ i \in 1..(Len(r) + 1) /\ i + 1 \in 1..(Len(r) + 1) /\ ~(i + 1 <= Len(p))
      BY <1>1, <1>4, <2>2
    <3>2. k[i] = h[i - Len(p)] /\ k[i + 1] = h[(i - Len(p)) + 1] /\ r[i] = q[i - Len(p)]
      BY <1>4, <1>6, <2>2, <3>1
    <3> QED
      BY <1>3, <3>1, <3>2
  <2> QED
    BY <2>1, <2>2
<1>10. Disciplined(r, H, L)
  BY <1>4, <1>5, <1>8, <1>9 DEF Disciplined
<1> QED
  BY <1>10 DEF r

\* The first step of a program and the rest of it.
LEMMA FirstDisciplined ==
    ASSUME NEW p, NEW H, NEW K, Disciplined(p, H, K), p # <<>>
    PROVE  /\ H \in SUBSET Mutexes
           /\ Head(p) \in Steps
           /\ StepOK(Head(p), H)
           /\ Disciplined(Tail(p), After(Head(p), H), K)
<1>1. p \in Seq(Steps) /\ Len(p) \in Nat /\ Len(p) >= 1
  BY DEF Disciplined
<1>2. PICK h \in [1..(Len(p) + 1) -> SUBSET Mutexes] :
          /\ h[1] = H /\ h[Len(p) + 1] = K
          /\ \A i \in 1..Len(p) : StepOK(p[i], h[i]) /\ h[i + 1] = After(p[i], h[i])
  BY DEF Disciplined
<1> DEFINE r == Tail(p)
           k == [i \in 1..(Len(r) + 1) |-> h[i + 1]]
<1>3. /\ r \in Seq(Steps) /\ Len(r) = Len(p) - 1
      /\ \A i \in 1..Len(r) : r[i] = p[i + 1]
      /\ Head(p) = p[1] /\ p[1] \in Steps
  BY <1>1
<1> HIDE DEF r
<1>4. k \in [1..(Len(r) + 1) -> SUBSET Mutexes]
  BY <1>1, <1>2, <1>3
<1>5. \A i \in 1..(Len(r) + 1) : k[i] = h[i + 1]
  OBVIOUS
<1> HIDE DEF k
<1>6. 1 \in 1..Len(p) /\ 1 + 1 = 2 /\ 1 \in 1..(Len(r) + 1) /\ Len(r) + 1 \in 1..(Len(r) + 1)
      /\ (Len(r) + 1) + 1 = Len(p) + 1 /\ 1 \in 1..(Len(p) + 1)
  BY <1>1, <1>3
<1>7. k[1] = After(Head(p), H) /\ k[Len(r) + 1] = K
  BY <1>2, <1>3, <1>5, <1>6
<1>8. ASSUME NEW i \in 1..Len(r)
      PROVE  StepOK(r[i], k[i]) /\ k[i + 1] = After(r[i], k[i])
  <2>1. i + 1 \in 1..Len(p) /\ i \in 1..(Len(r) + 1) /\ i + 1 \in 1..(Len(r) + 1)
    BY <1>1, <1>3
  <2> QED
    BY <1>2, <1>3, <1>5, <2>1
<1>9. Disciplined(r, After(Head(p), H), K)
  BY <1>3, <1>4, <1>7, <1>8 DEF Disciplined
<1> QED
  BY <1>2, <1>3, <1>6, <1>9 DEF r

-----------------------------------------------------------------------------
(* The programs of the operations keep the discipline. *)

\* The roles of ids in steps.
LEMMA ThingsAre ==
    /\ Root \in Ids /\ Root \in Things
    /\ Ids \subseteq Things
    /\ \A map \in Maps : Entries(map) \subseteq Things
    /\ DieIds \subseteq Ids
BY DEF Things, Ids, Entries

\* A step that neither locks nor unlocks.
LEMMA StayDisciplined ==
    ASSUME NEW s \in Steps, NEW H \in SUBSET Mutexes, StepOK(s, H), After(s, H) = H
    PROVE  Disciplined(<<s>>, H, H)
BY StepDisciplined

\* Taking and giving back a mutex around a program.
LEMMA GuardedDisciplined ==
    ASSUME NEW m \in Mutexes, NEW H \in SUBSET Mutexes, m \notin H,
           NEW p, Disciplined(p, H \cup {m}, H \cup {m})
    PROVE  Disciplined(Guarded(m, p), H, H)
<1>1. Lock(m) \in Steps /\ Unlock(m) \in Steps
  BY ThingsAre DEF Lock, Unlock, S, Steps
<1>2. StepOK(Lock(m), H) /\ After(Lock(m), H) = H \cup {m}
  BY DEF StepOK, After, Lock, S
<1>3. StepOK(Unlock(m), H \cup {m}) /\ After(Unlock(m), H \cup {m}) = H
  BY DEF StepOK, After, Unlock, S
<1>4. Disciplined(<<Lock(m)>>, H, H \cup {m})
  BY <1>1, <1>2, StepDisciplined
<1>5. Disciplined(<<Unlock(m)>>, H \cup {m}, H)
  BY <1>1, <1>3, StepDisciplined
<1>6. Disciplined(<<Lock(m)>> \o p, H, H \cup {m})
  BY <1>4, ThenDisciplined
<1>7. Disciplined((<<Lock(m)>> \o p) \o <<Unlock(m)>>, H, H)
  BY <1>5, <1>6, ThenDisciplined
<1> QED
  BY <1>7 DEF Guarded

\* An insertion.
LEMMA InsertDisciplined ==
    ASSUME NEW map \in Maps, NEW x \in Entries(map), NEW H \in SUBSET Mutexes,
           map \in WriteGuardedMaps => Guard[map] \in H
    PROVE  /\ Insert(map, x) \in Steps
           /\ StepOK(Insert(map, x), H) /\ After(Insert(map, x), H) = H
           /\ Disciplined(<<Insert(map, x)>>, H, H)
<1>1. Insert(map, x) \in Steps
  BY ThingsAre DEF Insert, S, Steps
<1>2. StepOK(Insert(map, x), H) /\ After(Insert(map, x), H) = H
  BY DEF StepOK, After, Insert, S, WriteGuardedMaps
<1> QED
  BY <1>1, <1>2, StayDisciplined

\* A look into a map, or a write to it that changes nothing the properties see.
LEMMA SkipDisciplined ==
    ASSUME NEW map \in Maps, NEW x \in Things, NEW H \in SUBSET Mutexes,
           NEW kind \in {"read", "write"},
           map \in GuardedMaps => Guard[map] \in H,
           kind = "write" /\ map \in WriteGuardedMaps => Guard[map] \in H
    PROVE  Disciplined(<<S(kind, "skip", map, x)>>, H, H)
<1> DEFINE s == S(kind, "skip", map, x)
<1>1. s \in Steps
  BY DEF S, Steps
<1>2. StepOK(s, H) /\ After(s, H) = H
  BY DEF StepOK, After, S
<1> QED
  BY <1>1, <1>2, StayDisciplined

\* A look into a map that has no mutex, or has it at hand.
LEMMA ReadDisciplined ==
    ASSUME NEW map \in Maps, NEW H \in SUBSET Mutexes,
           map \in GuardedMaps => Guard[map] \in H
    PROVE  Disciplined(<<Read(map)>>, H, H)
BY SkipDisciplined, ThingsAre DEF Read

\* An insertion under a mutex.
LEMMA GuardedInsertDisciplined ==
    ASSUME NEW m \in Mutexes, NEW map \in Maps, NEW x \in Entries(map),
           NEW H \in SUBSET Mutexes, m \notin H,
           map \in WriteGuardedMaps => Guard[map] = m
    PROVE  Disciplined(Guarded(m, <<Insert(map, x)>>), H, H)
<1>1. H \cup {m} \in SUBSET Mutexes
  OBVIOUS
<1>2. Disciplined(<<Insert(map, x)>>, H \cup {m}, H \cup {m})
  BY <1>1, InsertDisciplined
<1> QED
  BY <1>2, GuardedDisciplined

\* A look into a map under a mutex.
LEMMA GuardedReadDisciplined ==
    ASSUME NEW m \in Mutexes, NEW map \in Maps, NEW H \in SUBSET Mutexes, m \notin H,
           map \in GuardedMaps => Guard[map] = m
    PROVE  Disciplined(Guarded(m, <<Read(map)>>), H, H)
<1>1. H \cup {m} \in SUBSET Mutexes
  OBVIOUS
<1>2. Disciplined(<<Read(map)>>, H \cup {m}, H \cup {m})
  BY <1>1, ReadDisciplined
<1> QED
  BY <1>2, GuardedDisciplined

\* A point where an exception may leave the call.
LEMMA ThrowDisciplined ==
    ASSUME NEW d \in Ids, NEW H \in SUBSET Mutexes, H \subseteq {"memberMutex"}
    PROVE  Disciplined(MayThrow(d), H, H)
<1> DEFINE s == S("none", "may_throw", "none", d)
<1>1. s \in Steps
  BY ThingsAre DEF S, Steps
<1>2. StepOK(s, H) /\ After(s, H) = H
  BY DEF StepOK, After, S
<1> QED
  BY <1>1, <1>2, StayDisciplined DEF MayThrow

\* The registration of an id and of a symbol.
LEMMA RegisterDisciplined ==
    ASSUME NEW d \in Ids, NEW H \in SUBSET Mutexes,
           "mapMutex" \notin H, "symbolNameMapMutex" \notin H
    PROVE  Disciplined(getID(d), H, H) /\ Disciplined(addSymbol(d), H, H)
<1> USE DEF Mutexes, Maps, Entries, AliasMaps, GuardedMaps, WriteGuardedMaps, Guard
<1>1. Disciplined(getID(d), H, H)
  <2> DEFINE K == H \cup {"mapMutex"}
             rev == IF d = Root THEN <<>> ELSE <<Insert("idRevMap", d)>>
  <2>1. K \in SUBSET Mutexes
    OBVIOUS
  <2>2. Disciplined(<<Insert("idMap", d)>>, K, K) /\ Disciplined(<<Insert("idRevMap", d)>>, K, K)
    BY <2>1, InsertDisciplined
  <2>3. Disciplined(<<>>, K, K)
    BY <2>1, NothingDisciplined
  <2>4. Disciplined(<<Insert("idMap", d)>> \o rev, K, K)
    BY <2>2, <2>3, ThenDisciplined
  <2> HIDE DEF rev
  <2>5. Disciplined(Guarded("mapMutex", <<Insert("idMap", d)>> \o rev), H, H)
    BY <2>4, GuardedDisciplined
  <2> QED
    BY <2>5 DEF getID, rev
<1>2. Disciplined(<<Insert("symbolIDMap", d)>>, H, H)
  BY InsertDisciplined
<1>3. Disciplined(Guarded("symbolNameMapMutex", <<Insert("symbolNameMap", d)>>), H, H)
  BY GuardedInsertDisciplined
<1>4. Disciplined(<<>>, H, H)
  BY NothingDisciplined
<1>5. Disciplined(addSymbol(d), H, H)
  BY <1>2, <1>3, <1>4, ThenDisciplined DEF addSymbol
<1> QED
  BY <1>1, <1>5

\* The insertions into the by-name indexes, which have no mutex.
LEMMA IndexDisciplined ==
    ASSUME NEW d \in Ids, NEW H \in SUBSET Mutexes
    PROVE  /\ Disciplined(addBaseType(d), H, H)
           /\ Disciplined(addRefBaseType(d), H, H)
           /\ Disciplined(addVariable(d), H, H)
           /\ Disciplined(<<Insert("memberNameMap", d)>>, H, H)
<1> USE DEF Mutexes, Maps, Entries, AliasMaps, GuardedMaps, WriteGuardedMaps, Guard
<1> QED
  BY InsertDisciplined DEF addBaseType, addRefBaseType, addVariable

\* The insertions into the lists.
LEMMA ListDisciplined ==
    ASSUME NEW d \in Ids
    PROVE  Disciplined(addFunction(d), {}, {}) /\ Disciplined(addArray(d), {}, {})
<1> USE DEF Mutexes, Maps, Entries, AliasMaps, GuardedMaps, WriteGuardedMaps, Guard
<1> DEFINE s == Decide("name_free", "functionNameMap", d)
<1>1. s \in Steps
  BY ThingsAre DEF Decide, S, Steps
<1>2. StepOK(s, {}) /\ After(s, {}) = {}
  BY DEF StepOK, After, Decide, S
<1>3. Disciplined(<<s>>, {}, {})
  BY <1>1, <1>2, StayDisciplined
<1>4. Disciplined(Guarded("funcListMutex", <<Insert("funcList", d)>>), {}, {})
  BY GuardedInsertDisciplined
<1>5. Disciplined(addFunction(d), {}, {})
  BY <1>3, <1>4, ThenDisciplined DEF addFunction
<1>6. Disciplined(addArray(d), {}, {})
  BY GuardedInsertDisciplined DEF addArray
<1> QED
  BY <1>5, <1>6

\* The registration of an alias.
LEMMA AliasDisciplined ==
    ASSUME NEW id \in Ids, NEW new_id \in Ids, NEW H \in SUBSET Mutexes,
           "symbolIDAliasMapMutex" \notin H, "symbolIDAliasReverseListMutex" \notin H
    PROVE  Disciplined(addAlternativeID(id, new_id), H, H)
<1> USE DEF Mutexes, Maps, Entries, AliasMaps, GuardedMaps, WriteGuardedMaps, Guard
<1>1. Disciplined(Guarded("symbolIDAliasMapMutex", <<Insert("symbolIDAliasMap", <<new_id, id>>)>>), H, H)
  BY GuardedInsertDisciplined
<1>2. Disciplined(Guarded("symbolIDAliasReverseListMutex",
                          <<Insert("symbolIDAliasReverseList", <<id, new_id>>)>>), H, H)
  BY GuardedInsertDisciplined
<1> QED
  BY <1>1, <1>2, ThenDisciplined DEF addAlternativeID

\* The constructors.  That of a member runs under memberMutex.
LEMMA ConstructDisciplined ==
    ASSUME NEW d \in DieIds, NEW H \in SUBSET Mutexes,
           \/ d[1] \in NamedClasses \cup {"array"} /\ H = {}
           \/ d[1] = "member" /\ H \subseteq {"memberMutex"}
    PROVE  Disciplined(Construct(d), H, H)
<1> DEFINE symbol == MayThrow(Root) \o getID(d) \o addSymbol(d) \o MayThrow(d)
           type == getID(Root)
           base == symbol \o addBaseType(d)
<1>0. d \in Ids /\ Root \in Ids
  BY ThingsAre
<1>1. "mapMutex" \notin H /\ "symbolNameMapMutex" \notin H
  OBVIOUS
<1>2. Disciplined(MayThrow(d), H, H) /\ Disciplined(MayThrow(Root), H, H)
  BY <1>0, ThrowDisciplined
<1>3. /\ Disciplined(getID(d), H, H) /\ Disciplined(type, H, H)
      /\ Disciplined(addSymbol(d), H, H)
  BY <1>0, <1>1, RegisterDisciplined
<1>4. /\ Disciplined(addBaseType(d), H, H) /\ Disciplined(addRefBaseType(d), H, H)
      /\ Disciplined(addVariable(d), H, H)
  BY <1>0, IndexDisciplined
<1>5. H = {} => Disciplined(addFunction(d), H, H) /\ Disciplined(addArray(d), H, H)
  BY <1>0, ListDisciplined
<1>6. Disciplined(symbol, H, H)
  <2>1. Disciplined(MayThrow(Root) \o getID(d), H, H)
    BY <1>2, <1>3, ThenDisciplined
  <2>2. Disciplined(MayThrow(Root) \o getID(d) \o addSymbol(d), H, H)
    BY <1>3, <2>1, ThenDisciplined
  <2> QED
    BY <1>2, <2>2, ThenDisciplined
<1> HIDE DEF symbol, type
<1>7. Disciplined(symbol \o type, H, H) /\ Disciplined(base, H, H)
  BY <1>3, <1>4, <1>6, ThenDisciplined
<1> HIDE DEF base
<1>8. Disciplined(base \o MayThrow(d) \o type, H, H)
  <2>1. Disciplined(base \o MayThrow(d), H, H)
    BY <1>2, <1>7, ThenDisciplined
  <2> QED
    BY <1>3, <2>1, ThenDisciplined
<1>9. CASE d[1] = "struct"
  BY <1>7, <1>9 DEF Construct, base, symbol
<1>10. CASE d[1] = "typedef"
  <2>1. Disciplined(base \o MayThrow(d) \o type \o addRefBaseType(d), H, H)
    BY <1>4, <1>8, ThenDisciplined
  <2> QED
    BY <1>10, <2>1 DEF Construct, base, symbol, type
<1>11. CASE d[1] = "array"
  <2>1. Disciplined(symbol \o type \o addArray(d), H, H)
    BY <1>5, <1>7, <1>11, ThenDisciplined
  <2> QED
    BY <1>11, <2>1 DEF Construct, symbol, type
<1>12. CASE d[1] = "function"
  <2>1. Disciplined(base \o MayThrow(d) \o type \o MayThrow(d), H, H)
    BY <1>2, <1>8, ThenDisciplined
  <2>2. Disciplined(base \o MayThrow(d) \o type \o MayThrow(d) \o addFunction(d), H, H)
    BY <1>5, <1>12, <2>1, ThenDisciplined
  <2> QED
    BY <1>12, <2>2 DEF Construct, base, symbol, type
<1>13. CASE d[1] = "variable"
  <2>1. Disciplined(symbol \o type \o addVariable(d), H, H)
    BY <1>4, <1>7, ThenDisciplined
  <2>2. Disciplined(symbol \o type \o addVariable(d) \o MayThrow(d), H, H)
    BY <1>2, <2>1, ThenDisciplined
  <2> QED
    BY <1>13, <2>2 DEF Construct, symbol, type
<1>14. CASE d[1] = "member"
  <2>1. Disciplined(symbol \o type \o MayThrow(d), H, H)
    BY <1>2, <1>7, ThenDisciplined
  <2> QED
    BY <1>14, <2>1 DEF Construct, symbol, type
<1> QED
  BY <1>9, <1>10, <1>11, <1>12, <1>13, <1>14 DEF NamedClasses

\* A step that ends what the discipline follows of a program.
LEMMA DecideDisciplined ==
    ASSUME NEW s \in Steps, NEW H \in SUBSET Mutexes, NEW K, StepOK(s, H), After(s, H) = K
    PROVE  Disciplined(<<s>>, H, K)
BY StepDisciplined

\* A program of two steps.
LEMMA PairDisciplined ==
    ASSUME NEW r \in Steps, NEW s \in Steps, NEW H, NEW K, NEW L,
           Disciplined(<<r>>, H, K), Disciplined(<<s>>, K, L)
    PROVE  Disciplined(<<r, s>>, H, L)
<1>1. <<r, s>> = <<r>> \o <<s>>
  <2>1. <<r>> \in Seq(Steps) /\ Len(<<r>>) = 1 /\ <<r>>[1] = r
    OBVIOUS
  <2>2. <<s>> \in Seq(Steps) /\ Len(<<s>>) = 1 /\ <<s>>[1] = s
    OBVIOUS
  <2> DEFINE q == <<r>> \o <<s>>
  <2>3. q \in Seq(Steps) /\ Len(q) = 2
    BY <2>1, <2>2
  <2>4. q[1] = r /\ q[2] = s
    BY <2>1, <2>2
  <2> HIDE DEF q
  <2>5. q = <<q[1], q[2]>>
    BY <2>3
  <2> QED
    BY <2>4, <2>5 DEF q
<1>2. Disciplined(<<r>> \o <<s>>, H, L)
  BY ThenDisciplined
<1> QED
  BY <1>1, <1>2

\* findSymbolByID, also when a list is being cleaned.
LEMMA FindDisciplined ==
    ASSUME NEW d \in Ids, NEW H \in SUBSET Mutexes, H \subseteq ListMutexes
    PROVE  Disciplined(findSymbolByID(d), H, H)
<1> USE DEF Mutexes, Maps
<1> DEFINE m == "symbolIDMapMutex"
           s == Decide("find_symbol", "symbolIDMap", d)
<1>1. Lock(m) \in Steps /\ s \in Steps
  BY ThingsAre DEF Lock, Decide, S, Steps
<1>2. m \notin H
  BY DEF ListMutexes
<1>3. StepOK(Lock(m), H) /\ After(Lock(m), H) = H \cup {m}
  BY <1>2 DEF StepOK, After, Lock, S
<1>4. H \cup {m} \in SUBSET Mutexes /\ (H \cup {m}) \ {m} = H
  BY <1>2
<1>5. StepOK(s, H \cup {m})
  BY DEF StepOK, Decide, S, GuardedMaps
<1>6. After(s, H \cup {m}) = H
  BY <1>4 DEF After, Decide, S
<1>7. Disciplined(<<Lock(m)>>, H, H \cup {m})
  BY <1>1, <1>3, StepDisciplined
<1>8. Disciplined(<<s>>, H \cup {m}, H)
  BY <1>1, <1>4, <1>5, <1>6, DecideDisciplined
<1> HIDE DEF s
<1>9. Disciplined(<<Lock(m), s>>, H, H)
  BY <1>1, <1>7, <1>8, PairDisciplined
<1> QED
  BY <1>9 DEF findSymbolByID, s

\* A failed assertion after a search under a mutex.
LEMMA NotFoundDisciplined ==
    ASSUME NEW d \in Ids, NEW H \in SUBSET Mutexes, H \subseteq ListMutexes
    PROVE  Disciplined(NotFound(d), H, {})
<1> USE DEF Mutexes, Maps
<1> DEFINE s == S("none", "fail", "none", d)
           m == "symbolIDAliasReverseListMutex"
<1>1. H \cup {m} \in SUBSET Mutexes /\ m \notin H
  BY DEF ListMutexes
<1>2. /\ Disciplined(getAliases(d), H \cup {m}, H \cup {m})
      /\ Disciplined(getRevID(d), H, H)
  BY <1>1, ThingsAre, SkipDisciplined DEF getAliases, getRevID, GuardedMaps, WriteGuardedMaps
<1>3. Disciplined(Guarded(m, getAliases(d)), H, H)
  BY <1>1, <1>2, GuardedDisciplined
<1>4. Disciplined(<<s>>, H, {})
  <2>1. s \in Steps
    BY ThingsAre DEF S, Steps
  <2>2. StepOK(s, H) /\ After(s, H) = {}
    BY DEF StepOK, After, S
  <2> QED
    BY <2>1, <2>2, DecideDisciplined
<1> HIDE DEF m, s
<1>5. Disciplined(Guarded(m, getAliases(d)) \o getRevID(d), H, H)
  BY <1>2, <1>3, ThenDisciplined
<1>6. Disciplined(Guarded(m, getAliases(d)) \o getRevID(d) \o <<s>>, H, {})
  BY <1>4, <1>5, ThenDisciplined
<1> QED
  BY <1>6 DEF NotFound, m, s

\* The other lookups, all begun without a mutex.
LEMMA LookupsDisciplined ==
    ASSUME NEW d \in Ids
    PROVE  /\ Disciplined(getAliases(d), {}, {})
           /\ Disciplined(getRevID(d), {}, {})
           /\ Disciplined(memberByName(d), {}, {})
           /\ \A call \in DOMAIN Looks : Disciplined(<<Read(Looks[call])>>, {}, {})
           /\ Disciplined(findArrayByTypeID(d), {}, {})
           /\ Disciplined(findSymbolByName, {}, {})
           /\ Disciplined(removeSymbol(d), {}, {})
<1> USE DEF Mutexes, Maps, GuardedMaps, WriteGuardedMaps, Guard
<1>1. /\ Disciplined(getAliases(d), {}, {}) /\ Disciplined(getRevID(d), {}, {})
      /\ Disciplined(memberByName(d), {}, {})
  BY ThingsAre, SkipDisciplined DEF getAliases, getRevID, memberByName
<1>2. Disciplined(findSymbolByName, {}, {})
  BY GuardedReadDisciplined DEF findSymbolByName
<1>3. Disciplined(removeSymbol(d), {}, {})
  <2> DEFINE s == S("write", "has_aliases", "symbolIDAliasReverseList", d)
  <2>1. s \in Steps
    BY ThingsAre DEF S, Steps
  <2>2. StepOK(s, {}) /\ After(s, {}) = {}
    BY DEF StepOK, After, S
  <2> QED
    BY <2>1, <2>2, StayDisciplined DEF removeSymbol
<1>4. Disciplined(findArrayByTypeID(d), {}, {})
  <2> DEFINE g == Guarded("arrayTypeMapMutex", <<Read("arrayTypeMap")>>)
             r == <<Read("arrayTypeMap")>>
  <2>1. Disciplined(g, {}, {})
    BY GuardedReadDisciplined
  <2>2. Disciplined(r, {}, {})
    BY ReadDisciplined
  <2> HIDE DEF g, r
  <2>3. Disciplined(g \o r, {}, {})
    BY <2>1, <2>2, ThenDisciplined
  <2>4. Disciplined(g \o r \o getAliases(d), {}, {})
    BY <1>1, <2>3, ThenDisciplined
  <2>5. Disciplined(g \o r \o getAliases(d) \o g, {}, {})
    BY <2>1, <2>4, ThenDisciplined
  <2>6. Disciplined(g \o r \o getAliases(d) \o g \o r, {}, {})
    BY <2>2, <2>5, ThenDisciplined
  <2> QED
    BY <2>6 DEF findArrayByTypeID, g, r
<1>5. ASSUME NEW call \in DOMAIN Looks
      PROVE  Disciplined(<<Read(Looks[call])>>, {}, {})
  <2>1. Looks[call] \in Maps \ GuardedMaps
    BY DEF Looks
  <2> QED
    BY <2>1, ReadDisciplined
<1> QED
  BY <1>1, <1>2, <1>3, <1>4, <1>5

\* cleanFunctions and cleanArrays up to the loop.
LEMMA CleanDisciplined ==
    Disciplined(cleanFunctions, {}, {}) /\ Disciplined(cleanArrays, {}, {})
<1> USE DEF Mutexes, Maps, GuardedMaps, WriteGuardedMaps, Guard
<1>1. ASSUME NEW list \in Lists
      PROVE  Disciplined(<<Lock(ListMutex(list)), Read(list)>> \o findSymbolByID(Root)
                            \o <<S("write", "merge_equal", list, Root)>>, {}, {})
  <2> DEFINE m == ListMutex(list)
             s == S("write", "merge_equal", list, Root)
  <2>1. m \in ListMutexes /\ m \in Mutexes /\ {m} \subseteq ListMutexes /\ {m} \in SUBSET Mutexes
    BY DEF ListMutex, ListMutexes
  <2>2. list \in Maps /\ list \in GuardedMaps /\ Guard[list] = m
    BY DEF ListMutex, Lists
  <2>3. Lock(m) \in Steps /\ s \in Steps /\ Read(list) \in Steps
    BY <2>1, <2>2, ThingsAre DEF Lock, Read, S, Steps
  <2>4. StepOK(Lock(m), {}) /\ After(Lock(m), {}) = {m}
    BY <2>1 DEF StepOK, After, Lock, S
  <2>5. Disciplined(<<Lock(m)>>, {}, {m})
    BY <2>1, <2>3, <2>4, DecideDisciplined
  <2>6. Disciplined(<<Read(list)>>, {m}, {m})
    BY <2>1, <2>2, ReadDisciplined
  <2>7. Disciplined(findSymbolByID(Root), {m}, {m})
    BY <2>1, ThingsAre, FindDisciplined
  <2>8. StepOK(s, {m}) /\ After(s, {m}) = {}
    BY <2>2 DEF StepOK, After, S
  <2>9. Disciplined(<<s>>, {m}, {})
    BY <2>1, <2>3, <2>8, DecideDisciplined
  <2>10. Disciplined(<<Lock(m), Read(list)>>, {}, {m})
    BY <2>3, <2>5, <2>6, PairDisciplined
  <2> HIDE DEF m, s
  <2>11. Disciplined(<<Lock(m), Read(list)>> \o findSymbolByID(Root), {}, {m})
    BY <2>7, <2>10, ThenDisciplined
  <2>12. Disciplined(<<Lock(m), Read(list)>> \o findSymbolByID(Root) \o <<s>>, {}, {})
    BY <2>9, <2>11, ThenDisciplined
  <2> QED
    BY <2>12 DEF m, s
<1>2. /\ "funcList" \in Lists /\ "arrayVector" \in Lists
      /\ ListMutex("funcList") = "funcListMutex" /\ ListMutex("arrayVector") = "arrayVectorMutex"
  BY DEF Lists, ListMutex
<1> QED
  BY <1>1, <1>2 DEF cleanFunctions, cleanArrays

\* The handlers of the DIE classes.
LEMMA HandlerDisciplined ==
    ASSUME NEW d \in DieIds
    PROVE  Disciplined(initSymbolFromDie(d), {}, {})
<1> USE DEF Mutexes, Maps, GuardedMaps, WriteGuardedMaps, Guard
<1>0. d \in Ids /\ d \in Things /\ d[1] \in DieClasses
  BY ThingsAre DEF DieIds
<1>1. CASE d[1] = "array"
  BY <1>1, ConstructDisciplined DEF initSymbolFromDie
<1>2. CASE d[1] = "member"
  <2> DEFINE m == "memberMutex"
             s == Decide("find_member", "memberNameMap", d)
  <2>1. Lock(m) \in Steps /\ s \in Steps
    BY <1>0, ThingsAre DEF Lock, Decide, S, Steps
  <2>2. StepOK(Lock(m), {}) /\ After(Lock(m), {}) = {m}
    BY DEF StepOK, After, Lock, S
  <2>3. StepOK(s, {m}) /\ After(s, {m}) = {}
    BY <1>2 DEF StepOK, After, Decide, S
  <2>4. Disciplined(<<Lock(m)>>, {}, {m}) /\ Disciplined(<<s>>, {m}, {})
    BY <2>1, <2>2, <2>3, DecideDisciplined
  <2> HIDE DEF s
  <2>5. Disciplined(<<Lock(m), s>>, {}, {})
    BY <2>1, <2>4, PairDisciplined
  <2> QED
    BY <1>2, <2>5 DEF initSymbolFromDie, addMember, s
<1>3. CASE d[1] = "enumerator"
  <2>1. Disciplined(Guarded("enumMutex", <<Insert("enumValues", d)>>), {}, {})
    BY <1>0, GuardedInsertDisciplined DEF Entries, AliasMaps
  <2>2. Disciplined(MayThrow(Root), {}, {})
    BY ThingsAre, ThrowDisciplined
  <2>3. Disciplined(addEnum(d), {}, {})
    BY <2>1, <2>2, ThenDisciplined DEF addEnum
  <2> QED
    BY <1>3, <2>3 DEF initSymbolFromDie
<1>5. CASE d[1] = "parameter"
  <2>1. Disciplined(MayThrow(Root), {}, {}) /\ Disciplined(getID(Root), {}, {})
    BY ThingsAre, ThrowDisciplined, RegisterDisciplined
  <2>2. Disciplined(MayThrow(Root) \o getID(Root), {}, {})
    BY <2>1, ThenDisciplined
  <2> QED
    BY <1>5, <2>2 DEF initSymbolFromDie
<1>4. CASE d[1] \notin {"array", "member", "enumerator", "parameter"}
  <2> DEFINE s == Decide("lookup", NameIndex(d[1]), d)
  <2>1. d[1] \in NamedClasses
    BY <1>0, <1>4 DEF DieClasses, NamedClasses
  <2>2. NameIndex(d[1]) \in {"baseTypeNameMap", "refBaseTypeNameMap", "variableNameMap"}
    BY <2>1 DEF NamedClasses, NameIndex
  <2>3. s \in Steps
    BY <1>0, <2>2 DEF Decide, S, Steps
  <2>4. StepOK(s, {}) /\ After(s, {}) = {}
    BY <2>1, <2>2 DEF StepOK, After, Decide, S
  <2>5. Disciplined(<<s>>, {}, {})
    BY <2>3, <2>4, StayDisciplined
  <2> QED
    BY <1>4, <2>5 DEF initSymbolFromDie
<1> QED
  BY <1>1, <1>2, <1>3, <1>4, <1>5

\* The last step of a call.
LEMMA ReturnDisciplined ==
    ASSUME NEW d \in Ids
    PROVE  Disciplined(<<S("none", "return", "none", d)>>, {}, {})
<1> DEFINE s == S("none", "return", "none", d)
<1>1. s \in Steps
  BY ThingsAre DEF S, Steps
<1>2. StepOK(s, {}) /\ After(s, {}) = {}
  BY DEF StepOK, After, S
<1> QED
  BY <1>1, <1>2, StayDisciplined

-----------------------------------------------------------------------------
(* Every step of a thread keeps the invariant. *)

\* The mutexes a program of t gives back.
Mine(t) == Held(t) \ abandoned

\* What is known of the thread that takes a step.
LEMMA StepFacts ==
    ASSUME LocksInv, NEW t \in Threads, NEW op, At(t, op)
    PROVE  /\ todo[t] # <<>> /\ Here(t) \in Steps /\ Here(t).op = op
           /\ Mine(t) \in SUBSET Mutexes
           /\ StepOK(Here(t), Mine(t))
           /\ Disciplined(Rest(t), After(Here(t), Mine(t)), {})
<1>1. todo[t] # <<>> /\ Here(t).op = op
  BY DEF At
<1>2. Disciplined(todo[t], Mine(t), {})
  BY DEF LocksInv, ProgramsOK, Mine
<1> QED
  BY <1>1, <1>2, FirstDisciplined DEF Here, Rest

\* A thread that goes on with a program for the mutexes it holds.
LEMMA GoesOn ==
    ASSUME LocksInv, NEW t \in Threads, NEW p, Disciplined(p, Mine(t), {}),
           Go(t, p), UNCHANGED <<owner, abandoned>>
    PROVE  OwnersOK' /\ ProgramsOK'
<1>1. OwnersOK'
  BY DEF LocksInv, OwnersOK
<1>2. p \in Seq(Steps)
  BY DEF Disciplined
<1>3. todo' = [todo EXCEPT ![t] = p] /\ todo \in [Threads -> Seq(Steps)]
  BY DEF Go, LocksInv, ProgramsOK
<1>4. \A u \in Threads : todo'[u] = IF u = t THEN p ELSE todo[u]
  BY <1>3
<1>5. \A u \in Threads : Held(u)' \ abandoned' = Mine(u)
  BY DEF Held, Mine
<1>6. \A u \in Threads : Disciplined(todo[u], Mine(u), {})
  BY DEF LocksInv, ProgramsOK, Mine
<1>7. \A u \in Threads : Disciplined(todo'[u], Mine(u), {})
  BY <1>4, <1>6
<1>8. todo' \in [Threads -> Seq(Steps)]
  BY <1>2, <1>3
<1> QED
  BY <1>1, <1>5, <1>7, <1>8 DEF ProgramsOK

\* A thread that leaves its call with mutexes it does not give back.
LEMMA Leaves ==
    ASSUME LocksInv, NEW t \in Threads, NEW X, X \subseteq Held(t), Mine(t) \subseteq X,
           X \subseteq {"funcListMutex", "arrayVectorMutex", "memberMutex"} \cup abandoned,
           Go(t, <<>>), UNCHANGED owner, abandoned' = abandoned \cup X
    PROVE  OwnersOK' /\ ProgramsOK'
<1>1. \A m \in X : owner[m] = t /\ t # Nobody
  BY LocksAssumption DEF Held
<1>2. OwnersOK'
  BY <1>1 DEF LocksInv, OwnersOK
<1>3. todo' = [todo EXCEPT ![t] = <<>>] /\ todo \in [Threads -> Seq(Steps)]
  BY DEF Go, LocksInv, ProgramsOK
<1>4. \A u \in Threads : Disciplined(todo[u], Mine(u), {})
  BY DEF LocksInv, ProgramsOK, Mine
<1>5. ASSUME NEW u \in Threads
      PROVE  Disciplined(todo'[u], Held(u)' \ abandoned', {})
  <2>1. CASE u = t
    <3>1. Held(u)' \ abandoned' = {}
      BY <2>1 DEF Held, Mine
    <3>2. todo'[u] = <<>>
      BY <1>3, <2>1
    <3> QED
      BY <3>1, <3>2, NothingDisciplined
  <2>2. CASE u # t
    <3>1. Held(u)' \ abandoned' = Mine(u)
      BY <1>1, <2>2 DEF Held, Mine
    <3>2. todo'[u] = todo[u]
      BY <1>3, <2>2
    <3> QED
      BY <1>4, <3>1, <3>2
  <2> QED
    BY <2>1, <2>2
<1>6. todo' \in [Threads -> Seq(Steps)]
  <2>1. <<>> \in Seq(Steps)
    OBVIOUS
  <2> QED
    BY <1>3, <2>1
<1> QED
  BY <1>2, <1>5, <1>6 DEF ProgramsOK

\* Taking a free mutex.
LEMMA AcquireInv ==
    ASSUME LocksInv, NEW t \in Threads, Acquire(t)
    PROVE  LocksInv'
<1>1. PICK s : s = Here(t)
  OBVIOUS
<1>2. PICK H : H = Mine(t)
  OBVIOUS
<1>3. PICK r : r = Rest(t)
  OBVIOUS
<1>4. s.op = "lock" /\ s \in Steps /\ StepOK(s, H) /\ Disciplined(r, After(s, H), {})
  BY <1>1, <1>2, <1>3, StepFacts DEF Acquire
<1>5. s.on \in Mutexes /\ s.on \notin H /\ After(s, H) = H \cup {s.on}
  BY <1>4 DEF StepOK, After
<1>6. /\ owner[s.on] = Nobody /\ owner' = [owner EXCEPT ![s.on] = t]
      /\ todo' = [todo EXCEPT ![t] = r] /\ UNCHANGED <<dataVars, callVars, abandoned>>
  BY <1>1, <1>3 DEF Acquire, Go, failVars
<1>7. s.on \notin abandoned
  BY <1>6 DEF LocksInv, OwnersOK
<1>8. owner \in [Mutexes -> Threads \cup {Nobody}] /\ todo \in [Threads -> Seq(Steps)]
  BY DEF LocksInv, OwnersOK, ProgramsOK
<1>9. OwnersOK'
  BY <1>5, <1>6, <1>7, <1>8 DEF LocksInv, OwnersOK
<1>10. DataOK'
  BY <1>6 DEF LocksInv, DataOK, dataVars, callVars
<1>11. \A u \in Threads : Disciplined(todo[u], Mine(u), {})
  BY DEF LocksInv, ProgramsOK, Mine
<1>12. ASSUME NEW u \in Threads
       PROVE  Disciplined(todo'[u], Held(u)' \ abandoned', {})
  <2>1. CASE u = t
    <3>1. Held(u)' = Held(t) \cup {s.on}
      BY <1>5, <1>6, <1>8, <2>1 DEF Held
    <3>2. Held(u)' \ abandoned' = H \cup {s.on}
      BY <1>2, <1>6, <1>7, <3>1 DEF Mine
    <3>3. todo'[u] = r
      BY <1>6, <1>8, <2>1
    <3> QED
      BY <1>4, <1>5, <3>2, <3>3
  <2>2. CASE u # t
    <3>1. Held(u)' = Held(u)
      BY <1>5, <1>6, <1>8, <2>2, LocksAssumption DEF Held
    <3>2. todo'[u] = todo[u]
      BY <1>6, <1>8, <2>2
    <3> QED
      BY <1>6, <1>11, <3>1, <3>2 DEF Mine
  <2> QED
    BY <2>1, <2>2
<1>13. todo' \in [Threads -> Seq(Steps)]
  BY <1>4, <1>6, <1>8 DEF Disciplined
<1> QED
  BY <1>9, <1>10, <1>12, <1>13 DEF LocksInv, ProgramsOK

\* Giving back a mutex.
LEMMA ReleaseInv ==
    ASSUME LocksInv, NEW t \in Threads, Release(t)
    PROVE  LocksInv'
<1>1. PICK s : s = Here(t)
  OBVIOUS
<1>2. PICK H : H = Mine(t)
  OBVIOUS
<1>3. PICK r : r = Rest(t)
  OBVIOUS
<1>4. s.op = "unlock" /\ s \in Steps /\ StepOK(s, H) /\ Disciplined(r, After(s, H), {})
  BY <1>1, <1>2, <1>3, StepFacts DEF Release
<1>5. s.on \in H /\ After(s, H) = H \ {s.on}
  BY <1>4 DEF StepOK, After
<1>6. /\ owner' = [owner EXCEPT ![s.on] = Nobody]
      /\ todo' = [todo EXCEPT ![t] = r] /\ UNCHANGED <<dataVars, callVars, abandoned>>
  BY <1>1, <1>3 DEF Release, Go, failVars
<1>7. s.on \in Mutexes /\ owner[s.on] = t /\ s.on \notin abandoned
  BY <1>2, <1>5 DEF Mine, Held
<1>8. owner \in [Mutexes -> Threads \cup {Nobody}] /\ todo \in [Threads -> Seq(Steps)]
  BY DEF LocksInv, OwnersOK, ProgramsOK
<1>9. OwnersOK'
  BY <1>6, <1>7, <1>8 DEF LocksInv, OwnersOK
<1>10. DataOK'
  BY <1>6 DEF LocksInv, DataOK, dataVars, callVars
<1>11. \A u \in Threads : Disciplined(todo[u], Mine(u), {})
  BY DEF LocksInv, ProgramsOK, Mine
<1>12. ASSUME NEW u \in Threads
       PROVE  Disciplined(todo'[u], Held(u)' \ abandoned', {})
  <2>1. CASE u = t
    <3>1. Held(u)' = Held(t) \ {s.on}
      BY <1>6, <1>7, <1>8, <2>1, LocksAssumption DEF Held
    <3>2. Held(u)' \ abandoned' = H \ {s.on}
      BY <1>2, <1>6, <3>1 DEF Mine
    <3>3. todo'[u] = r
      BY <1>6, <1>8, <2>1
    <3> QED
      BY <1>4, <1>5, <3>2, <3>3
  <2>2. CASE u # t
    <3>1. Held(u)' = Held(u)
      BY <1>6, <1>7, <1>8, <2>2, LocksAssumption DEF Held
    <3>2. todo'[u] = todo[u]
      BY <1>6, <1>8, <2>2
    <3> QED
      BY <1>6, <1>11, <3>1, <3>2 DEF Mine
  <2> QED
    BY <2>1, <2>2
<1>13. todo' \in [Threads -> Seq(Steps)]
  BY <1>4, <1>6, <1>8 DEF Disciplined
<1> QED
  BY <1>9, <1>10, <1>12, <1>13 DEF LocksInv, ProgramsOK

\* Steps after which the thread is where it was with the rest of its program.
LEMMA RestDisciplined ==
    ASSUME LocksInv, NEW t \in Threads, NEW op, At(t, op),
           op \in {"insert", "erase", "skip", "may_throw", "return", "lookup", "name_free",
                   "use_alias", "has_aliases"}
    PROVE  Disciplined(Rest(t), Mine(t), {})
<1>1. PICK s : s = Here(t)
  OBVIOUS
<1>2. s.op = op /\ Disciplined(Rest(t), After(s, Mine(t)), {})
  BY <1>1, StepFacts
<1>3. After(s, Mine(t)) = Mine(t)
  BY <1>2 DEF After
<1> QED
  BY <1>2, <1>3

\* An insertion that is made or lost.
LEMMA InsertInv ==
    ASSUME LocksInv, NEW t \in Threads, DoInsert(t)
    PROVE  LocksInv'
<1>1. Disciplined(Rest(t), Mine(t), {})
  BY RestDisciplined DEF DoInsert
<1>2. OwnersOK' /\ ProgramsOK'
  BY <1>1, GoesOn DEF DoInsert, failVars
<1>3. PICK s : s = Here(t)
  OBVIOUS
<1>4. s.on \in Maps /\ s.die \in Entries(s.on)
  BY <1>3, StepFacts DEF DoInsert, StepOK
<1>5. \E y \in SUBSET (data[s.on] \cup {s.die}) : data' = [data EXCEPT ![s.on] = y]
  <2>1. PICK all : all = data[s.on] \cup {s.die}
    OBVIOUS
  <2>2. data' = [data EXCEPT ![s.on] = all] \/ \E x \in all : data' = [data EXCEPT ![s.on] = all \ {x}]
    BY <1>3, <2>1 DEF DoInsert
  <2> QED
    BY <2>1, <2>2
<1>6. data \in [Maps -> SUBSET (Ids \cup (Ids \X Ids))] /\ Entries(s.on) \subseteq Ids \cup (Ids \X Ids)
  BY DEF LocksInv, DataOK, Entries
<1>7. DataOK'
  BY <1>4, <1>5, <1>6 DEF DoInsert, LocksInv, DataOK, callVars
<1> QED
  BY <1>2, <1>7 DEF LocksInv

\* A symbol is taken out of the id map.
LEMMA EraseInv ==
    ASSUME LocksInv, NEW t \in Threads, DoErase(t)
    PROVE  LocksInv'
<1>1. Disciplined(Rest(t), Mine(t), {})
  BY RestDisciplined DEF DoErase
<1>2. OwnersOK' /\ ProgramsOK'
  BY <1>1, GoesOn DEF DoErase, failVars
<1>3. PICK x : x = Here(t).die
  OBVIOUS
<1>4. data' = [data EXCEPT !["symbolIDMap"] = @ \ {x}]
  BY <1>3 DEF DoErase
<1>5. data \in [Maps -> SUBSET (Ids \cup (Ids \X Ids))] /\ "symbolIDMap" \in Maps
  BY DEF LocksInv, DataOK, Maps
<1>6. DataOK'
  BY <1>4, <1>5 DEF DoErase, LocksInv, DataOK, callVars
<1> QED
  BY <1>2, <1>6 DEF LocksInv

\* Steps that change only the program.
LEMMA OnlyProgramInv ==
    ASSUME LocksInv, NEW t \in Threads, NEW p, Disciplined(p, Mine(t), {}), Go(t, p),
           UNCHANGED <<owner, abandoned, data, finished, calls>>
    PROVE  LocksInv'
<1>1. OwnersOK' /\ ProgramsOK'
  BY GoesOn
<1>2. DataOK'
  BY DEF LocksInv, DataOK
<1> QED
  BY <1>1, <1>2 DEF LocksInv

\* A step over a read, or over a point where an attribute could be missing.
LEMMA SkipInv ==
    ASSUME LocksInv, NEW t \in Threads, Skip(t)
    PROVE  LocksInv'
<1>1. Disciplined(Rest(t), Mine(t), {})
  BY RestDisciplined DEF Skip
<1> QED
  BY <1>1, OnlyProgramInv DEF Skip, OnlyProgram, dataVars, callVars, failVars

\* An exception; the mutexes of the call stay locked.
LEMMA ThrowInv ==
    ASSUME LocksInv, NEW t \in Threads, Throw(t)
    PROVE  LocksInv'
<1>1. PICK s : s = Here(t)
  OBVIOUS
<1>2. Mine(t) \subseteq {"memberMutex"}
  <2>1. s.op = "may_throw" /\ StepOK(s, Mine(t))
    BY <1>1, StepFacts DEF Throw
  <2> QED
    BY <2>1 DEF StepOK
<1>3. Held(t) \subseteq {"funcListMutex", "arrayVectorMutex", "memberMutex"} \cup abandoned
  BY <1>2 DEF Mine
<1>4. Mine(t) \subseteq Held(t)
  BY DEF Mine
<1>5. OwnersOK' /\ ProgramsOK'
  <2>1. PICK X : X = Held(t)
    OBVIOUS
  <2>2. Go(t, <<>>) /\ UNCHANGED owner /\ abandoned' = abandoned \cup X
    BY <2>1 DEF Throw
  <2> QED
    BY <1>3, <1>4, <2>1, <2>2, Leaves
<1>6. DataOK'
  BY DEF LocksInv, DataOK, Throw, dataVars, callVars
<1> QED
  BY <1>5, <1>6 DEF LocksInv

\* The end of a call.
LEMMA ReturnInv ==
    ASSUME LocksInv, NEW t \in Threads, Return(t)
    PROVE  LocksInv'
<1>1. PICK s : s = Here(t)
  OBVIOUS
<1>2. Mine(t) = {} /\ s.die \in Ids
  <2>1. s.op = "return" /\ StepOK(s, Mine(t))
    BY <1>1, StepFacts DEF Return
  <2> QED
    BY <2>1 DEF StepOK
<1>3. Disciplined(<<>>, Mine(t), {})
  BY <1>2, NothingDisciplined
<1>4. OwnersOK' /\ ProgramsOK'
  BY <1>3, GoesOn DEF Return, failVars
<1>5. finished' = finished \cup {s.die}
  BY <1>1 DEF Return
<1>6. DataOK'
  BY <1>2, <1>5 DEF LocksInv, DataOK, Return, dataVars
<1> QED
  BY <1>4, <1>6 DEF LocksInv

\* getTypeInstance: a symbol is constructed, or the DIE gets an alias.
LEMMA LookupInv ==
    ASSUME LocksInv, NEW t \in Threads, Lookup(t)
    PROVE  LocksInv'
<1>1. PICK s : s = Here(t)
  OBVIOUS
<1>2. PICK d : d = s.die
  OBVIOUS
<1>3. Mine(t) = {} /\ d \in DieIds /\ d[1] \in NamedClasses /\ s.on = NameIndex(d[1])
  <2>1. s.op = "lookup" /\ StepOK(s, Mine(t))
    BY <1>1, StepFacts DEF Lookup
  <2> QED
    BY <1>2, <2>1 DEF StepOK
<1>4. Disciplined(Rest(t), {}, {})
  BY <1>3, RestDisciplined DEF Lookup
<1>5. d \in Ids
  BY <1>3, ThingsAre
<1>6. CASE Go(t, Construct(d) \o Rest(t))
  <2>1. Disciplined(Construct(d), {}, {})
    BY <1>3, ConstructDisciplined
  <2>2. Disciplined(Construct(d) \o Rest(t), Mine(t), {})
    BY <1>3, <1>4, <2>1, ThenDisciplined
  <2> QED
    BY <1>6, <2>2, OnlyProgramInv DEF Lookup, dataVars, failVars
<1>7. ASSUME NEW x \in data[s.on],
             Go(t, MayThrow(Root) \o getID(d) \o addAlternativeID(x, d) \o Rest(t))
      PROVE  LocksInv'
  <2>1. x \in Ids
    <3>1. s.on \in Maps \ AliasMaps
      BY <1>3 DEF NamedClasses, NameIndex, Maps, AliasMaps
    <3> QED
      BY <1>7, <3>1 DEF LocksInv, DataOK, Entries
  <2>2. /\ Disciplined(MayThrow(Root), {}, {}) /\ Disciplined(getID(d), {}, {})
        /\ Disciplined(addAlternativeID(x, d), {}, {})
    BY <1>5, <2>1, ThingsAre, ThrowDisciplined, RegisterDisciplined, AliasDisciplined
  <2>3. Disciplined(MayThrow(Root) \o getID(d), {}, {})
    BY <2>2, ThenDisciplined
  <2>4. Disciplined(MayThrow(Root) \o getID(d) \o addAlternativeID(x, d), {}, {})
    BY <2>2, <2>3, ThenDisciplined
  <2>5. Disciplined(MayThrow(Root) \o getID(d) \o addAlternativeID(x, d) \o Rest(t), Mine(t), {})
    BY <1>3, <1>4, <2>4, ThenDisciplined
  <2> QED
    BY <1>7, <2>5, OnlyProgramInv DEF Lookup, dataVars, failVars
<1> QED
  BY <1>1, <1>2, <1>6, <1>7 DEF Lookup

\* addFunction after its look into functionNameMap.
LEMMA NameFreeInv ==
    ASSUME LocksInv, NEW t \in Threads, NameFree(t)
    PROVE  LocksInv'
<1> USE DEF Mutexes, Maps, GuardedMaps, WriteGuardedMaps, Guard
<1>1. PICK s : s = Here(t)
  OBVIOUS
<1>2. Mine(t) = {} /\ s.die \in Ids
  <2>1. s.op = "name_free" /\ StepOK(s, Mine(t))
    BY <1>1, StepFacts DEF NameFree
  <2> QED
    BY <2>1 DEF StepOK
<1>3. Disciplined(Rest(t), Mine(t), {})
  BY RestDisciplined DEF NameFree
<1>4. Disciplined(Guarded("functionNameMapMutex", <<Insert("functionNameMap", s.die)>>), {}, {})
  BY <1>2, GuardedInsertDisciplined DEF Entries, AliasMaps
<1>5. Disciplined(Guarded("functionNameMapMutex", <<Insert("functionNameMap", s.die)>>) \o Rest(t),
                  Mine(t), {})
  BY <1>2, <1>3, <1>4, ThenDisciplined
<1>6. CASE Go(t, Rest(t))
  BY <1>3, <1>6, OnlyProgramInv DEF NameFree, OnlyProgram, dataVars, callVars, failVars
<1>7. CASE Go(t, Guarded("functionNameMapMutex", <<Insert("functionNameMap", s.die)>>) \o Rest(t))
  BY <1>5, <1>7, OnlyProgramInv DEF NameFree, OnlyProgram, dataVars, callVars, failVars
<1> QED
  BY <1>1, <1>6, <1>7 DEF NameFree

\* The step over one mutex of a search that gives it back first.
LEMMA GivesBack ==
    ASSUME NEW m \in Mutexes, NEW H \in SUBSET Mutexes, m \in H
    PROVE  Disciplined(<<Unlock(m)>>, H, H \ {m})
<1>1. Unlock(m) \in Steps
  BY ThingsAre DEF Unlock, S, Steps
<1>2. StepOK(Unlock(m), H) /\ After(Unlock(m), H) = H \ {m}
  BY DEF StepOK, After, Unlock, S
<1> QED
  BY <1>1, <1>2, DecideDisciplined

\* Structured::addMember after its look into the member map.
LEMMA FindMemberInv ==
    ASSUME LocksInv, NEW t \in Threads, FindMember(t)
    PROVE  LocksInv'
<1>1. PICK s : s = Here(t)
  OBVIOUS
<1>2. PICK d : d = s.die
  OBVIOUS
<1> DEFINE H == {"memberMutex"}
           end == <<Insert("memberNameMap", d), Unlock("memberMutex")>>
<1>3. Mine(t) = H /\ d \in DieIds /\ d[1] = "member" /\ After(s, Mine(t)) = {}
      /\ Disciplined(Rest(t), {}, {})
  <2>1. s.op = "find_member" /\ StepOK(s, Mine(t)) /\ Disciplined(Rest(t), After(s, Mine(t)), {})
    BY <1>1, StepFacts DEF FindMember
  <2>2. After(s, Mine(t)) = {}
    BY <2>1 DEF After
  <2> QED
    BY <1>2, <2>1, <2>2 DEF StepOK
<1>4. H \in SUBSET Mutexes /\ d \in Ids
  BY <1>3, ThingsAre DEF Mutexes
<1>5. Disciplined(<<Unlock("memberMutex")>>, H, {})
  <2>1. H \ {"memberMutex"} = {}
    OBVIOUS
  <2> QED
    BY <1>4, <2>1, GivesBack DEF Mutexes
<1>6. Disciplined(Construct(d), H, H) /\ Disciplined(end, H, {})
  <2>1. Insert("memberNameMap", d) \in Steps /\ Disciplined(<<Insert("memberNameMap", d)>>, H, H)
    BY <1>4, InsertDisciplined DEF Maps, WriteGuardedMaps, GuardedMaps, Entries, AliasMaps
  <2>2. Unlock("memberMutex") \in Steps
    BY ThingsAre DEF Unlock, S, Steps, Mutexes
  <2> QED
    BY <1>3, <1>4, <1>5, <2>1, <2>2, ConstructDisciplined, PairDisciplined
<1>7. \/ Go(t, Construct(d) \o end \o Rest(t))
      \/ Go(t, <<Unlock("memberMutex")>> \o Rest(t))
  BY <1>1, <1>2 DEF FindMember
<1> HIDE DEF end, H
<1>8. Disciplined(<<Unlock("memberMutex")>> \o Rest(t), Mine(t), {})
  BY <1>3, <1>5, ThenDisciplined
<1>9. Disciplined(Construct(d) \o end, H, {})
  BY <1>6, ThenDisciplined
<1>10. Disciplined(Construct(d) \o end \o Rest(t), Mine(t), {})
  BY <1>3, <1>9, ThenDisciplined
<1> QED
  BY <1>7, <1>8, <1>10, OnlyProgramInv DEF FindMember, OnlyProgram, dataVars, callVars, failVars

\* What the three steps of findSymbolByID know.
LEMMA SearchFacts ==
    ASSUME LocksInv, NEW t \in Threads, NEW op \in {"find_symbol", "find_alias", "find_target"},
           At(t, op), NEW m,
           m = IF op = "find_alias" THEN "symbolIDAliasMapMutex" ELSE "symbolIDMapMutex"
    PROVE  \E H \in SUBSET ListMutexes :
              /\ H \in SUBSET Mutexes
              /\ Here(t).die \in Ids
              /\ Disciplined(<<Unlock(m)>>, Mine(t), H)
              /\ \A map \in {"symbolIDMap", "symbolIDAliasMap"} : Disciplined(Follow(m, map), Mine(t), H)
              /\ Disciplined(Rest(t), H, {})
<1>1. PICK s : s = Here(t)
  OBVIOUS
<1>2. s.op = op /\ StepOK(s, Mine(t)) /\ Disciplined(Rest(t), After(s, Mine(t)), {})
      /\ Mine(t) \in SUBSET Mutexes
  BY <1>1, StepFacts
<1>3. /\ m \in Mine(t) /\ Mine(t) \subseteq {m} \cup ListMutexes /\ s.die \in Ids
      /\ After(s, Mine(t)) = Mine(t) \ {m}
  BY <1>2 DEF StepOK, After
<1>4. m \in Mutexes
  BY DEF Mutexes
<1>5. Disciplined(<<Unlock(m)>>, Mine(t), Mine(t) \ {m})
  BY <1>2, <1>3, <1>4, GivesBack
<1>6. Mine(t) \ {m} \in SUBSET ListMutexes /\ Mine(t) \ {m} \in SUBSET Mutexes
  BY <1>2, <1>3
<1>7. ASSUME NEW map \in {"symbolIDMap", "symbolIDAliasMap"}
      PROVE  Disciplined(Follow(m, map), Mine(t), Mine(t) \ {m})
  <2>1. map \in Maps \ GuardedMaps
    BY DEF Maps, GuardedMaps
  <2>2. Unlock(m) \in Steps /\ Read(map) \in Steps
    BY <1>4, <2>1, ThingsAre DEF Unlock, Read, S, Steps
  <2>3. Disciplined(<<Read(map)>>, Mine(t) \ {m}, Mine(t) \ {m})
    BY <1>6, <2>1, ReadDisciplined
  <2> QED
    BY <1>5, <2>2, <2>3, PairDisciplined DEF Follow
<1> QED
  BY <1>1, <1>2, <1>3, <1>5, <1>6, <1>7

\* Taking the next mutex of a search, and the step under it.
LEMMA SearchDisciplined ==
    ASSUME NEW H \in SUBSET ListMutexes, NEW d \in Ids
    PROVE  /\ Disciplined(<<Lock("symbolIDAliasMapMutex"), Decide("find_alias", "symbolIDAliasMap", d)>>, H, H)
           /\ Disciplined(<<Lock("symbolIDMapMutex"), Decide("find_target", "symbolIDMap", d)>>, H, H)
<1> USE DEF Mutexes, Maps
<1>0. H \in SUBSET Mutexes
  BY DEF ListMutexes
<1>1. ASSUME NEW m \in {"symbolIDAliasMapMutex", "symbolIDMapMutex"}, NEW s \in Steps,
             StepOK(s, H \cup {m}), After(s, H \cup {m}) = (H \cup {m}) \ {m}
      PROVE  Disciplined(<<Lock(m), s>>, H, H)
  <2>1. Lock(m) \in Steps
    BY ThingsAre DEF Lock, S, Steps
  <2>2. m \notin H /\ (H \cup {m}) \ {m} = H /\ H \cup {m} \in SUBSET Mutexes
    BY <1>0 DEF ListMutexes
  <2>3. StepOK(Lock(m), H) /\ After(Lock(m), H) = H \cup {m}
    BY <2>2 DEF StepOK, After, Lock, S
  <2>4. Disciplined(<<Lock(m)>>, H, H \cup {m})
    BY <1>0, <2>1, <2>3, StepDisciplined
  <2>5. Disciplined(<<s>>, H \cup {m}, H)
    BY <1>1, <2>2, DecideDisciplined
  <2> QED
    BY <2>1, <2>4, <2>5, PairDisciplined
<1>2. Disciplined(<<Lock("symbolIDAliasMapMutex"), Decide("find_alias", "symbolIDAliasMap", d)>>, H, H)
  <2> DEFINE s == Decide("find_alias", "symbolIDAliasMap", d)
  <2>1. s \in Steps
    BY ThingsAre DEF Decide, S, Steps
  <2>2. StepOK(s, H \cup {"symbolIDAliasMapMutex"})
    BY DEF StepOK, Decide, S, GuardedMaps, Guard
  <2>3. After(s, H \cup {"symbolIDAliasMapMutex"})
           = (H \cup {"symbolIDAliasMapMutex"}) \ {"symbolIDAliasMapMutex"}
    BY DEF After, Decide, S
  <2> QED
    BY <1>1, <2>1, <2>2, <2>3
<1>3. Disciplined(<<Lock("symbolIDMapMutex"), Decide("find_target", "symbolIDMap", d)>>, H, H)
  <2> DEFINE s == Decide("find_target", "symbolIDMap", d)
  <2>1. s \in Steps
    BY ThingsAre DEF Decide, S, Steps
  <2>2. StepOK(s, H \cup {"symbolIDMapMutex"})
    BY DEF StepOK, Decide, S, GuardedMaps, Guard
  <2>3. After(s, H \cup {"symbolIDMapMutex"}) = (H \cup {"symbolIDMapMutex"}) \ {"symbolIDMapMutex"}
    BY DEF After, Decide, S
  <2> QED
    BY <1>1, <2>1, <2>2, <2>3
<1> QED
  BY <1>2, <1>3

\* findSymbolByID after its look into the id map.
LEMMA FindSymbolInv ==
    ASSUME LocksInv, NEW t \in Threads, FindSymbol(t)
    PROVE  LocksInv'
<1>1. PICK d : d = Here(t).die
  OBVIOUS
<1> DEFINE u == Follow("symbolIDMapMutex", "symbolIDMap")
           q == <<Lock("symbolIDAliasMapMutex"), Decide("find_alias", "symbolIDAliasMap", d)>>
<1>2. PICK H \in SUBSET ListMutexes :
          /\ H \in SUBSET Mutexes /\ d \in Ids
          /\ Disciplined(u, Mine(t), H) /\ Disciplined(Rest(t), H, {})
  <2>1. At(t, "find_symbol")
    BY DEF FindSymbol
  <2> QED
    BY <1>1, <2>1, SearchFacts
<1>3. Disciplined(q, H, H)
  BY <1>2, SearchDisciplined
<1>4. Go(t, u \o q \o Rest(t)) \/ Go(t, u \o Rest(t))
  BY <1>1 DEF FindSymbol
<1> HIDE DEF u, q
<1>5. Disciplined(u \o q, Mine(t), H)
  BY <1>2, <1>3, ThenDisciplined
<1>6. Disciplined(u \o q \o Rest(t), Mine(t), {}) /\ Disciplined(u \o Rest(t), Mine(t), {})
  BY <1>2, <1>5, ThenDisciplined
<1> QED
  BY <1>4, <1>6, OnlyProgramInv DEF FindSymbol, OnlyProgram, dataVars, callVars, failVars

\* findSymbolByID after its look into the alias map.
LEMMA FindAliasInv ==
    ASSUME LocksInv, NEW t \in Threads, FindAlias(t)
    PROVE  LocksInv'
<1>1. PICK d : d = Here(t).die
  OBVIOUS
<1> DEFINE m == "symbolIDAliasMapMutex"
           u == Follow(m, "symbolIDAliasMap")
           use == Decide("use_alias", "symbolIDAliasMap", d)
<1>2. PICK H \in SUBSET ListMutexes :
          /\ H \in SUBSET Mutexes /\ d \in Ids
          /\ Disciplined(u, Mine(t), H) /\ Disciplined(<<Unlock(m)>>, Mine(t), H)
          /\ Disciplined(Rest(t), H, {})
  <2>1. At(t, "find_alias")
    BY DEF FindAlias
  <2> QED
    BY <1>1, <2>1, SearchFacts
<1>3. Disciplined(u \o NotFound(d), Mine(t), {})
  BY <1>2, NotFoundDisciplined, ThenDisciplined
<1>4. Disciplined(<<Unlock(m), use>>, Mine(t), H)
  <2>1. Unlock(m) \in Steps /\ use \in Steps
    BY <1>2, ThingsAre DEF Unlock, Decide, S, Steps, Mutexes, Maps
  <2>2. StepOK(use, H) /\ After(use, H) = H
    BY <1>2 DEF StepOK, After, Decide, S, GuardedMaps
  <2>3. Disciplined(<<use>>, H, H)
    BY <1>2, <2>1, <2>2, StayDisciplined
  <2> QED
    BY <1>2, <2>1, <2>3, PairDisciplined
<1>5. Go(t, u \o NotFound(d)) \/ Go(t, <<Unlock(m), use>> \o Rest(t))
  BY <1>1 DEF FindAlias
<1> HIDE DEF u, use, m
<1>6. Disciplined(<<Unlock(m), use>> \o Rest(t), Mine(t), {})
  BY <1>2, <1>4, ThenDisciplined
<1> QED
  BY <1>3, <1>5, <1>6, OnlyProgramInv DEF FindAlias, OnlyProgram, dataVars, callVars, failVars

\* findSymbolByID where it follows the alias.
LEMMA UseAliasInv ==
    ASSUME LocksInv, NEW t \in Threads, UseAlias(t)
    PROVE  LocksInv'
<1>1. PICK s : s = Here(t)
  OBVIOUS
<1>2. /\ Mine(t) \in SUBSET ListMutexes
      /\ Disciplined(Rest(t), Mine(t), {})
  <2>1. At(t, "use_alias")
    BY DEF UseAlias
  <2>2. s.op = "use_alias" /\ StepOK(s, Mine(t))
    BY <1>1, <2>1, StepFacts
  <2> QED
    BY <2>1, <2>2, RestDisciplined DEF StepOK
<1>3. PICK x \in data["symbolIDAliasMap"] :
         Go(t, <<Lock("symbolIDMapMutex"), Decide("find_target", "symbolIDMap", x[2])>> \o Rest(t))
  BY DEF UseAlias
<1>4. x[2] \in Ids
  <2>1. data["symbolIDAliasMap"] \subseteq Ids \X Ids
    BY DEF LocksInv, DataOK, Maps, Entries, AliasMaps
  <2> QED
    BY <2>1
<1>5. Disciplined(<<Lock("symbolIDMapMutex"), Decide("find_target", "symbolIDMap", x[2])>>,
                  Mine(t), Mine(t))
  BY <1>2, <1>4, SearchDisciplined
<1>6. Disciplined(<<Lock("symbolIDMapMutex"), Decide("find_target", "symbolIDMap", x[2])>> \o Rest(t),
                  Mine(t), {})
  BY <1>2, <1>5, ThenDisciplined
<1> QED
  BY <1>3, <1>6, OnlyProgramInv DEF UseAlias, OnlyProgram, dataVars, callVars, failVars

\* findSymbolByID after its look for the target of an alias.
LEMMA FindTargetInv ==
    ASSUME LocksInv, NEW t \in Threads, FindTarget(t)
    PROVE  LocksInv'
<1>1. PICK d : d = Here(t).die
  OBVIOUS
<1> DEFINE u == Follow("symbolIDMapMutex", "symbolIDMap")
<1>2. PICK H \in SUBSET ListMutexes :
          /\ H \in SUBSET Mutexes /\ d \in Ids
          /\ Disciplined(u, Mine(t), H) /\ Disciplined(Rest(t), H, {})
  <2>1. At(t, "find_target")
    BY DEF FindTarget
  <2> QED
    BY <1>1, <2>1, SearchFacts
<1>3. Go(t, u \o NotFound(d)) \/ Go(t, u \o Rest(t))
  BY <1>1 DEF FindTarget
<1> HIDE DEF u
<1>4. Disciplined(u \o NotFound(d), Mine(t), {}) /\ Disciplined(u \o Rest(t), Mine(t), {})
  BY <1>2, NotFoundDisciplined, ThenDisciplined
<1> QED
  BY <1>3, <1>4, OnlyProgramInv DEF FindTarget, OnlyProgram, dataVars, callVars, failVars

\* A failed assertion leaves everything as it is.
LEMMA FailInv ==
    ASSUME LocksInv, NEW t \in Threads, Fail(t)
    PROVE  LocksInv'
<1>1. UNCHANGED <<owner, todo, abandoned, data, finished, calls>>
  BY DEF Fail, dataVars, callVars
<1> QED
  BY <1>1 DEF LocksInv, OwnersOK, DataOK, ProgramsOK, Held

\* removeSymbol after its look for aliases.
LEMMA HasAliasesInv ==
    ASSUME LocksInv, NEW t \in Threads, HasAliases(t)
    PROVE  LocksInv'
<1> USE DEF Mutexes, Maps
<1>1. PICK s : s = Here(t)
  OBVIOUS
<1> DEFINE e == S("write", "erase", "symbolIDMap", s.die)
           p == Guarded("symbolIDMapMutex", <<e>>)
<1>2. Mine(t) = {} /\ s.die \in Ids /\ Disciplined(Rest(t), {}, {})
  <2>1. s.op = "has_aliases" /\ StepOK(s, Mine(t))
    BY <1>1, StepFacts DEF HasAliases
  <2>2. Mine(t) = {} /\ s.die \in Ids
    BY <2>1 DEF StepOK
  <2> QED
    BY <2>2, RestDisciplined DEF HasAliases
<1>3. Disciplined(p, {}, {})
  <2> DEFINE H == {} \cup {"symbolIDMapMutex"}
  <2>1. e \in Steps /\ H \in SUBSET Mutexes
    BY <1>2, ThingsAre DEF S, Steps
  <2>2. StepOK(e, H) /\ After(e, H) = H
    BY DEF StepOK, After, S, GuardedMaps, WriteGuardedMaps
  <2>3. Disciplined(<<e>>, H, H)
    BY <2>1, <2>2, StayDisciplined
  <2> QED
    BY <2>3, GuardedDisciplined
<1>4. UNCHANGED <<owner, abandoned, data, finished, calls>>
  BY DEF HasAliases, dataVars, callVars
<1>5. todo' = todo \/ Go(t, p \o Rest(t))
  BY <1>1 DEF HasAliases
<1> HIDE DEF p
<1>6. Disciplined(p \o Rest(t), Mine(t), {})
  BY <1>2, <1>3, ThenDisciplined
<1>7. CASE todo' = todo
  BY <1>4, <1>7 DEF LocksInv, OwnersOK, DataOK, ProgramsOK, Held
<1>8. CASE Go(t, p \o Rest(t))
  BY <1>4, <1>6, <1>8, OnlyProgramInv
<1> QED
  BY <1>5, <1>7, <1>8

\* The elements of a finite set in some order.
LEMMA SetToSeqIs ==
    ASSUME NEW T, IsFiniteSet(T)
    PROVE  SetToSeq(T) \in Seq(T)
<1> DEFINE n == Cardinality(T)
<1>1. n \in Nat /\ ExistsBijection(1..n, T)
  BY FS_CardinalityType
<1>2. PICK f \in [1..n -> T] : IsInjective(f)
  BY <1>1 DEF ExistsBijection, Bijection, Injection
<1>3. SetToSeq(T) \in [1..n -> T]
  BY <1>2 DEF SetToSeq
<1> QED
  BY <1>1, <1>3

\* The insertions of cleanArrays into arrayTypeMap.
LEMMA InsertionsDisciplined ==
    ASSUME NEW kept \in Seq(Ids), NEW H \in SUBSET Mutexes, "arrayTypeMapMutex" \in H
    PROVE  Disciplined([i \in 1..Len(kept) |-> Insert("arrayTypeMap", kept[i])], H, H)
<1> DEFINE p == [i \in 1..Len(kept) |-> Insert("arrayTypeMap", kept[i])]
           h == [i \in 1..(Len(p) + 1) |-> H]
<1>1. "arrayTypeMap" \in Maps /\ Guard["arrayTypeMap"] \in H
  BY DEF Maps, Guard
<1>2. Len(kept) \in Nat /\ \A i \in 1..Len(kept) : kept[i] \in Entries("arrayTypeMap")
  BY DEF Entries, AliasMaps
<1>3. ASSUME NEW i \in 1..Len(kept)
      PROVE  p[i] \in Steps /\ StepOK(p[i], H) /\ After(p[i], H) = H
  BY <1>1, <1>2, InsertDisciplined
<1>4. p \in Seq(Steps) /\ Len(p) = Len(kept)
  <2>1. p \in [1..Len(kept) -> Steps]
    BY <1>3
  <2> QED
    BY <1>2, <2>1
<1> HIDE DEF p
<1>5. h \in [1..(Len(p) + 1) -> SUBSET Mutexes] /\ h[1] = H /\ h[Len(p) + 1] = H
  BY <1>2, <1>4
<1>6. \A i \in 1..Len(p) : StepOK(p[i], h[i]) /\ h[i + 1] = After(p[i], h[i])
  BY <1>2, <1>3, <1>4
<1>7. Disciplined(p, H, H)
  BY <1>4, <1>5, <1>6 DEF Disciplined
<1> QED
  BY <1>7 DEF p

\* The loop of cleanFunctions and cleanArrays.
LEMMA MergeLoopDisciplined ==
    ASSUME NEW list \in Lists, NEW old \in Ids, NEW left \in SUBSET Ids, NEW tmp \in SUBSET Ids,
           IsFiniteSet(tmp)
    PROVE  Disciplined(<<MergeLoop(list, old, left, tmp)>>, {ListMutex(list)}, {})
<1> DEFINE s == MergeLoop(list, old, left, tmp)
           H == {ListMutex(list)}
<1>1. H \in SUBSET Mutexes /\ list \in Maps
  BY DEF ListMutex, Mutexes, Maps, Lists
<1>2. <<old, left, tmp>> \in Ids \X (SUBSET Ids) \X (SUBSET Ids)
  OBVIOUS
<1>3. s \in Steps
  BY <1>1, <1>2 DEF MergeLoop, S, Steps, Things
<1>4. Guard[list] \in H
  BY DEF Guard, ListMutex, Lists
<1>5. StepOK(s, H)
  BY <1>2, <1>4 DEF StepOK, MergeLoop, S
<1>6. After(s, H) = {}
  BY DEF After, MergeLoop, S
<1> QED
  BY <1>1, <1>3, <1>5, <1>6, DecideDisciplined

\* cleanFunctions and cleanArrays after the sort.
LEMMA MergeEqualInv ==
    ASSUME LocksInv, NEW t \in Threads, MergeEqual(t)
    PROVE  LocksInv'
<1>1. PICK s : s = Here(t)
  OBVIOUS
<1>2. PICK list : list = s.on
  OBVIOUS
<1>3. /\ list \in Lists /\ Mine(t) = {ListMutex(list)}
      /\ Disciplined(Rest(t), {}, {})
  <2>1. s.op = "merge_equal" /\ StepOK(s, Mine(t)) /\ Disciplined(Rest(t), After(s, Mine(t)), {})
    BY <1>1, StepFacts DEF MergeEqual
  <2>2. After(s, Mine(t)) = {}
    BY <2>1 DEF After
  <2> QED
    BY <1>2, <2>1, <2>2 DEF StepOK
<1>4. UNCHANGED <<owner, data, finished, calls>>
  BY DEF MergeEqual, dataVars, callVars
<1>5. CASE abandoned' = abandoned \cup {ListMutex(list)} /\ Go(t, <<>>)
  <2>1. /\ {ListMutex(list)} \subseteq Held(t)
        /\ {ListMutex(list)} \subseteq {"funcListMutex", "arrayVectorMutex", "memberMutex"} \cup abandoned
    BY <1>3 DEF Mine, ListMutex
  <2>2. PICK X : X = {ListMutex(list)}
    OBVIOUS
  <2>3. OwnersOK' /\ ProgramsOK'
    BY <1>3, <1>4, <1>5, <2>1, <2>2, Leaves
  <2>4. DataOK'
    BY <1>4 DEF LocksInv, DataOK
  <2> QED
    BY <2>3, <2>4 DEF LocksInv
<1>6. ASSUME NEW old \in data[list], UNCHANGED abandoned,
             Go(t, <<MergeLoop(list, old, data[list] \ {old}, {})>> \o Rest(t))
      PROVE  LocksInv'
  <2>1. data[list] \in SUBSET Ids
    <3>1. list \in Maps \ AliasMaps
      BY <1>3 DEF Lists, Maps, AliasMaps
    <3> QED
      BY <3>1 DEF LocksInv, DataOK, Entries
  <2>2. old \in Ids /\ data[list] \ {old} \in SUBSET Ids /\ {} \in SUBSET Ids /\ IsFiniteSet({})
    BY <1>6, <2>1, FS_EmptySet
  <2>3. Disciplined(<<MergeLoop(list, old, data[list] \ {old}, {})>>, Mine(t), {})
    BY <1>3, <2>2, MergeLoopDisciplined
  <2>4. Disciplined(<<MergeLoop(list, old, data[list] \ {old}, {})>> \o Rest(t), Mine(t), {})
    BY <1>3, <2>3, ThenDisciplined
  <2> QED
    BY <1>4, <1>6, <2>4, OnlyProgramInv
<1> QED
  BY <1>1, <1>2, <1>5, <1>6 DEF MergeEqual

\* An element of a sorted list, or the end of the loop over it.
LEMMA MergeNextInv ==
    ASSUME LocksInv, NEW t \in Threads, MergeNext(t)
    PROVE  LocksInv'
<1>1. PICK s : s = Here(t)
  OBVIOUS
<1>2. PICK list : list = s.on
  OBVIOUS
<1>3. PICK old, left, tmp : old = s.die[1] /\ left = s.die[2] /\ tmp = s.die[3]
  OBVIOUS
<1>4. PICK kept : kept = SetToSeq(tmp)
  OBVIOUS
<1> DEFINE m == ListMutex(list)
           ins == [i \in 1..Len(kept) |-> Insert("arrayTypeMap", kept[i])]
           insertions == IF list = "funcList" THEN <<>> ELSE Guarded("arrayTypeMapMutex", ins)
<1>5. /\ list \in Lists /\ Mine(t) = {m}
      /\ old \in Ids /\ left \in SUBSET Ids /\ tmp \in SUBSET Ids /\ IsFiniteSet(tmp)
      /\ Disciplined(Rest(t), {}, {})
  <2>1. s.op = "merge_next" /\ StepOK(s, Mine(t)) /\ Disciplined(Rest(t), After(s, Mine(t)), {})
    BY <1>1, StepFacts DEF MergeNext
  <2>2. After(s, Mine(t)) = {}
    BY <2>1 DEF After
  <2> QED
    BY <1>2, <1>3, <2>1, <2>2 DEF StepOK
<1>6. m \in Mutexes /\ {m} \in SUBSET Mutexes /\ m \in ListMutexes /\ list \in Maps \ AliasMaps
  BY <1>5 DEF ListMutex, ListMutexes, Mutexes, Lists, Maps, AliasMaps
<1>7. UNCHANGED <<owner, abandoned, finished, calls>>
  BY DEF MergeNext, callVars, failVars
<1>8. ASSUME NEW x \in left, UNCHANGED data,
             Go(t, addAlternativeID(old, x) \o <<MergeLoop(list, old, left \ {x}, tmp)>> \o Rest(t))
      PROVE  LocksInv'
  <2>1. x \in Ids /\ left \ {x} \in SUBSET Ids
    BY <1>5
  <2>2. Disciplined(addAlternativeID(old, x), {m}, {m})
    BY <1>5, <1>6, <2>1, AliasDisciplined DEF ListMutexes
  <2>3. Disciplined(<<MergeLoop(list, old, left \ {x}, tmp)>>, {m}, {})
    BY <1>5, <2>1, MergeLoopDisciplined
  <2>4. Disciplined(addAlternativeID(old, x) \o <<MergeLoop(list, old, left \ {x}, tmp)>>, {m}, {})
    BY <2>2, <2>3, ThenDisciplined
  <2>5. Disciplined(addAlternativeID(old, x) \o <<MergeLoop(list, old, left \ {x}, tmp)>> \o Rest(t),
                    Mine(t), {})
    BY <1>5, <2>4, ThenDisciplined
  <2> QED
    BY <1>7, <1>8, <2>5, OnlyProgramInv
<1>9. ASSUME NEW x \in left, UNCHANGED data,
             Go(t, <<MergeLoop(list, x, left \ {x}, tmp \cup {x})>> \o Rest(t))
      PROVE  LocksInv'
  <2>1. x \in Ids /\ left \ {x} \in SUBSET Ids /\ tmp \cup {x} \in SUBSET Ids
    BY <1>5
  <2>2. IsFiniteSet(tmp \cup {x})
    BY <1>5, FS_AddElement
  <2>3. Disciplined(<<MergeLoop(list, x, left \ {x}, tmp \cup {x})>>, {m}, {})
    BY <1>5, <2>1, <2>2, MergeLoopDisciplined
  <2>4. Disciplined(<<MergeLoop(list, x, left \ {x}, tmp \cup {x})>> \o Rest(t), Mine(t), {})
    BY <1>5, <2>3, ThenDisciplined
  <2> QED
    BY <1>7, <1>9, <2>4, OnlyProgramInv
<1>10. ASSUME data' = [data EXCEPT ![list] = tmp], Go(t, insertions \o <<Unlock(m)>> \o Rest(t))
       PROVE  LocksInv'
  <2>1. Disciplined(insertions, {m}, {m})
    <3>1. Disciplined(<<>>, {m}, {m})
      BY <1>6, NothingDisciplined
    <3>2. kept \in Seq(Ids)
      BY <1>4, <1>5, SetToSeqIs
    <3>3. /\ "arrayTypeMapMutex" \in Mutexes /\ "arrayTypeMapMutex" \notin {m}
          /\ {m} \cup {"arrayTypeMapMutex"} \in SUBSET Mutexes
      BY <1>6 DEF Mutexes, ListMutexes
    <3>4. Disciplined(ins, {m} \cup {"arrayTypeMapMutex"}, {m} \cup {"arrayTypeMapMutex"})
      BY <3>2, <3>3, InsertionsDisciplined
    <3> HIDE DEF ins, m
    <3>5. Disciplined(Guarded("arrayTypeMapMutex", ins), {m}, {m})
      BY <1>6, <3>3, <3>4, GuardedDisciplined
    <3> QED
      BY <3>1, <3>5
  <2>2. Disciplined(<<Unlock(m)>>, {m}, {})
    <3>1. {m} \ {m} = {}
      OBVIOUS
    <3> QED
      BY <1>6, <3>1, GivesBack
  <2> HIDE DEF insertions, m
  <2>3. Disciplined(insertions \o <<Unlock(m)>>, {m}, {})
    BY <2>1, <2>2, ThenDisciplined
  <2>4. Disciplined(insertions \o <<Unlock(m)>> \o Rest(t), Mine(t), {})
    BY <1>5, <2>3, ThenDisciplined
  <2>5. OwnersOK' /\ ProgramsOK'
    BY <1>7, <1>10, <2>4, GoesOn
  <2>6. data \in [Maps -> SUBSET (Ids \cup (Ids \X Ids))]
    BY DEF LocksInv, DataOK
  <2>7. tmp \subseteq Entries(list)
    BY <1>5, <1>6 DEF Entries
  <2>8. DataOK'
    BY <1>5, <1>6, <1>7, <1>10, <2>6, <2>7 DEF LocksInv, DataOK
  <2> QED
    BY <2>5, <2>8 DEF LocksInv
<1> QED
  BY <1>1, <1>2, <1>3, <1>4, <1>8, <1>9, <1>10 DEF MergeNext

\* The programs that a call begins with.
LEMMA BeginInv ==
    ASSUME LocksInv, NEW t \in Threads, Begin(t)
    PROVE  LocksInv'
<1>1. todo[t] = <<>> /\ UNCHANGED <<owner, abandoned, data, finished>>
  BY DEF Begin, dataVars, failVars
<1>2. PICK n : n = calls[t] + 1
  OBVIOUS
<1>3. calls \in [Threads -> Nat] /\ calls' = [calls EXCEPT ![t] = n] /\ n \in Nat /\ calls'[t] = n
  BY <1>2 DEF Begin, LocksInv, DataOK
<1>4. Mine(t) = {}
  <2>1. Disciplined(<<>>, Mine(t), {}) /\ Mine(t) \in SUBSET Mutexes
    BY <1>1 DEF LocksInv, ProgramsOK, Mine, Held
  <2> QED
    BY <2>1, NothingDisciplined
<1>5. DataOK'
  BY <1>1, <1>3 DEF LocksInv, DataOK
<1>6. ASSUME NEW p, Disciplined(p, {}, {}), Go(t, p)
      PROVE  LocksInv'
  <2>1. OwnersOK' /\ ProgramsOK'
    BY <1>1, <1>4, <1>6, GoesOn
  <2> QED
    BY <1>5, <2>1 DEF LocksInv
<1>7. ASSUME NEW p, Disciplined(p, {}, {}), Go(t, p \o Returned)
      PROVE  LocksInv'
  <2>1. Disciplined(Returned, {}, {})
    BY ThingsAre, ReturnDisciplined DEF Returned
  <2>2. Disciplined(p \o Returned, {}, {})
    BY <1>7, <2>1, ThenDisciplined
  <2> QED
    BY <1>6, <1>7, <2>2
<1>8. finished \subseteq Ids
  BY DEF LocksInv, DataOK
<1>9. PICK c :
         \/ /\ c \in DieClasses
            /\ LET d == <<c, t, n>>
               IN  Go(t, initSymbolFromDie(d) \o <<S("none", "return", "none", d)>>)
         \/ \E d \in {x \in finished : x[1] \notin Unregistered} :
               /\ c \in {"findSymbolByID", "getAliases", "getRevID", "findArrayByTypeID", "removeSymbol"}
               /\ Go(t, (CASE c = "findSymbolByID" -> findSymbolByID(d)
                           [] c = "getAliases" -> getAliases(d)
                           [] c = "getRevID" -> getRevID(d)
                           [] c = "findArrayByTypeID" -> findArrayByTypeID(d)
                           [] c = "removeSymbol" -> removeSymbol(d)) \o Returned)
         \/ c \in DOMAIN Looks /\ Go(t, <<Read(Looks[c])>> \o Returned)
         \/ c = "findSymbolByName" /\ Go(t, findSymbolByName \o Returned)
         \/ c = "memberByName" /\ Go(t, memberByName(Root) \o Returned)
         \/ c = "cleanFunctions" /\ Go(t, cleanFunctions \o Returned)
         \/ c = "cleanArrays" /\ Go(t, cleanArrays \o Returned)
  BY <1>3 DEF Begin
<1>10. CASE /\ c \in DieClasses
            /\ LET d == <<c, t, n>>
               IN  Go(t, initSymbolFromDie(d) \o <<S("none", "return", "none", d)>>)
  <2>1. PICK d : d = <<c, t, n>>
    OBVIOUS
  <2>2. d \in DieIds /\ d \in Ids
    BY <1>3, <1>10, <2>1 DEF DieIds, Ids
  <2>3. /\ Disciplined(initSymbolFromDie(d), {}, {})
        /\ Disciplined(<<S("none", "return", "none", d)>>, {}, {})
    BY <2>2, HandlerDisciplined, ReturnDisciplined
  <2>4. Disciplined(initSymbolFromDie(d) \o <<S("none", "return", "none", d)>>, {}, {})
    BY <2>3, ThenDisciplined
  <2>5. Go(t, initSymbolFromDie(d) \o <<S("none", "return", "none", d)>>)
    BY <1>10, <2>1
  <2> QED
    BY <1>6, <2>4, <2>5
<1>11. ASSUME NEW d \in {x \in finished : x[1] \notin Unregistered},
              c \in {"findSymbolByID", "getAliases", "getRevID", "findArrayByTypeID", "removeSymbol"},
              Go(t, (CASE c = "findSymbolByID" -> findSymbolByID(d)
                       [] c = "getAliases" -> getAliases(d)
                       [] c = "getRevID" -> getRevID(d)
                       [] c = "findArrayByTypeID" -> findArrayByTypeID(d)
                       [] c = "removeSymbol" -> removeSymbol(d)) \o Returned)
       PROVE  LocksInv'
  <2>1. d \in Ids
    BY <1>8
  <2>2. /\ Disciplined(findSymbolByID(d), {}, {}) /\ Disciplined(getAliases(d), {}, {})
        /\ Disciplined(findArrayByTypeID(d), {}, {}) /\ Disciplined(removeSymbol(d), {}, {})
        /\ Disciplined(getRevID(d), {}, {})
    BY <2>1, FindDisciplined, LookupsDisciplined
  <2>3. PICK p : p = CASE c = "findSymbolByID" -> findSymbolByID(d)
                       [] c = "getAliases" -> getAliases(d)
                       [] c = "getRevID" -> getRevID(d)
                       [] c = "findArrayByTypeID" -> findArrayByTypeID(d)
                       [] c = "removeSymbol" -> removeSymbol(d)
    OBVIOUS
  <2>4. Disciplined(p, {}, {})
    BY <1>11, <2>2, <2>3
  <2>5. Go(t, p \o Returned)
    BY <1>11, <2>3
  <2> QED
    BY <1>7, <2>4, <2>5
<1>12. CASE Go(t, findSymbolByName \o Returned)
  BY <1>7, <1>12, ThingsAre, LookupsDisciplined
<1>13. CASE Go(t, memberByName(Root) \o Returned)
  BY <1>7, <1>13, ThingsAre, LookupsDisciplined
<1>14. CASE Go(t, cleanFunctions \o Returned)
  BY <1>7, <1>14, CleanDisciplined
<1>15. CASE Go(t, cleanArrays \o Returned)
  BY <1>7, <1>15, CleanDisciplined
<1>16. CASE c \in DOMAIN Looks /\ Go(t, <<Read(Looks[c])>> \o Returned)
  BY <1>7, <1>16, ThingsAre, LookupsDisciplined
<1> QED
  BY <1>9, <1>10, <1>11, <1>12, <1>13, <1>14, <1>15, <1>16

\* A step of any thread keeps the invariant.
LEMMA LocksNext ==
    ASSUME LocksInv, [Next]_vars
    PROVE  LocksInv'
<1>1. CASE UNCHANGED vars
  BY <1>1 DEF vars, dataVars, callVars, failVars, LocksInv, OwnersOK, DataOK, ProgramsOK, Held
<1>2. ASSUME NEW t \in Threads, Step(t) PROVE LocksInv'
  BY <1>2, BeginInv, AcquireInv, ReleaseInv, InsertInv, EraseInv, SkipInv, ThrowInv, ReturnInv,
     LookupInv, NameFreeInv, FindMemberInv, FindSymbolInv, FindAliasInv, UseAliasInv, FindTargetInv,
     FailInv, HasAliasesInv, MergeEqualInv, MergeNextInv DEF Step
<1> QED
  BY <1>1, <1>2 DEF Next

\* No thread is in a call to begin with.
LEMMA LocksInitially ==
    ASSUME Init
    PROVE  LocksInv
<1>1. OwnersOK
  BY DEF Init, OwnersOK
<1>2. DataOK
  <2>1. \A map \in Maps : data[map] \in {{Root}, {}}
    BY DEF Init
  <2>2. \A map \in Maps : data[map] \subseteq Entries(map)
    <3> SUFFICES ASSUME NEW map \in Maps PROVE data[map] \subseteq Entries(map)
      OBVIOUS
    <3>1. CASE map \in {"idMap", "idRevMap", "symbolNameMap", "symbolIDMap"}
      BY <2>1, <3>1, ThingsAre DEF Entries, AliasMaps
    <3>2. CASE map \notin {"idMap", "idRevMap", "symbolNameMap", "symbolIDMap"}
      BY <3>2 DEF Init
    <3> QED
      BY <3>1, <3>2
  <2>3. data \in [Maps -> SUBSET (Ids \cup (Ids \X Ids))]
    BY <2>1, ThingsAre DEF Init
  <2>4. finished \subseteq Ids /\ calls \in [Threads -> Nat]
    BY ThingsAre DEF Init
  <2> QED
    BY <2>2, <2>3, <2>4 DEF DataOK
<1>3. ProgramsOK
  <2>1. <<>> \in Seq(Steps)
    OBVIOUS
  <2>2. todo \in [Threads -> Seq(Steps)] /\ \A t \in Threads : todo[t] = <<>>
    BY <2>1 DEF Init
  <2>3. \A t \in Threads : Held(t) = {}
    BY LocksAssumption DEF Init, Held
  <2>4. Disciplined(<<>>, {}, {})
    BY NothingDisciplined
  <2>5. \A t \in Threads : Held(t) \ abandoned = {}
    BY <2>3
  <2> QED
    BY <2>2, <2>4, <2>5 DEF ProgramsOK
<1> QED
  BY <1>1, <1>2, <1>3 DEF LocksInv

\* The inductive invariant of the threads.
LEMMA LocksInvariant == Spec => []LocksInv
<1>1. Init => LocksInv
  BY LocksInitially
<1>2. LocksInv /\ [Next]_vars => LocksInv'
  BY LocksNext
<1> QED
  BY <1>1, <1>2, PTL DEF Spec

-----------------------------------------------------------------------------
(* What the invariant says of mutexes and maps. *)

\* What a thread touches, or writes, under a guard it owns the mutex of.
LEMMA TouchesOwned ==
    ASSUME LocksInv, NEW t \in Threads, NEW map,
           \/ map \in GuardedMaps /\ Touching(t, map)
           \/ map \in WriteGuardedMaps /\ Writing(t, map)
    PROVE  owner[Guard[map]] = t
<1>1. PICK s : s = Here(t)
  OBVIOUS
<1>2. /\ todo[t] # <<>> /\ s.on = map /\ s.kind \in {"read", "write"}
      /\ map \in GuardedMaps \/ (map \in WriteGuardedMaps /\ s.kind = "write")
  BY <1>1 DEF Touching, Writing
<1>3. Disciplined(todo[t], Mine(t), {})
  BY DEF LocksInv, ProgramsOK, Mine
<1>4. StepOK(s, Mine(t))
  BY <1>1, <1>2, <1>3, FirstDisciplined DEF Here
<1>5. Guard[map] \in Mine(t)
  BY <1>2, <1>4 DEF StepOK
<1> QED
  BY <1>5 DEF Mine, Held

\* Nobody else writes a map whose mutex a thread owns.
LEMMA OwnedQuiet ==
    ASSUME LocksInv, NEW t \in Threads, NEW map \in WriteGuardedMaps, owner[Guard[map]] = t
    PROVE  ~Racing(t, map)
<1> SUFFICES ASSUME NEW u \in Threads \ {t}, Writing(u, map)
             PROVE  FALSE
  BY DEF Racing
<1>1. owner[Guard[map]] = u
  BY TouchesOwned
<1> QED
  BY <1>1

\* No race on a guarded map, whatever the operations and however many threads.
LEMMA NoRace == LocksInv => GuardedRaceFree
<1> SUFFICES ASSUME LocksInv, NEW t \in Threads, NEW map,
                    \/ map \in GuardedMaps /\ Touching(t, map)
                    \/ map \in WriteGuardedMaps /\ Writing(t, map)
             PROVE  ~Racing(t, map)
  BY DEF GuardedRaceFree, GuardedMaps, WriteGuardedMaps
<1>1. map \in WriteGuardedMaps
  BY DEF WriteGuardedMaps
<1>2. owner[Guard[map]] = t
  BY TouchesOwned
<1> QED
  BY <1>1, <1>2, OwnedQuiet

\* The mutexes of idMap, symbolNameMap, funcList and arrayVector are held wherever
\* these are touched, those of symbolIDAliasMap, functionNameMap, arrayTypeMap and
\* enumValues wherever these are written.
THEOREM GuardsSuffice == Spec => []GuardedRaceFree
BY LocksInvariant, NoRace, PTL

\* A thread that is in no call holds only mutexes that were abandoned, and only
\* the three known ones are.
THEOREM MutexesReturned == Spec => []ReleasedAtEnd
<1>1. LocksInv => ReleasedAtEnd
  <2> SUFFICES ASSUME LocksInv PROVE ReleasedAtEnd
    OBVIOUS
  <2>1. ASSUME NEW t \in Threads, todo[t] = <<>>
        PROVE  Held(t) \subseteq abandoned
    <3>1. Disciplined(<<>>, Mine(t), {}) /\ Mine(t) \in SUBSET Mutexes
      BY <2>1 DEF LocksInv, ProgramsOK, Mine, Held
    <3>2. Mine(t) = {}
      BY <3>1, NothingDisciplined
    <3> QED
      BY <3>2 DEF Mine
  <2> QED
    BY <2>1 DEF ReleasedAtEnd, LocksInv, OwnersOK
<1> QED
  BY <1>1, LocksInvariant, PTL

-----------------------------------------------------------------------------
(* What the maps are known to hold, and what a program relies on. *)

Published == {"baseTypeNameMap", "refBaseTypeNameMap", "variableNameMap", "funcList", "arrayVector"}
Indexes == {"baseTypeNameMap", "refBaseTypeNameMap", "variableNameMap"}

\* No symbol was taken out, and no race on symbolIDMap did harm.
Intact == removed = {} /\ "symbolIDMap" \notin lost \cup missed

\* The ids in symbolIDMap, the ids with an alias and the classes with a symbol
\* in their index.  Once the properties promise nothing any more, all are.
Registered == IF Intact THEN data["symbolIDMap"] ELSE Ids
Aliased == IF Intact THEN {x[1] : x \in data["symbolIDAliasMap"]} ELSE Ids
Indexed == {c \in NamedClasses : NameIndex(c) \in lost \/ \E s \in data[NameIndex(c)] : s[1] = c}

Facts ==
    ({"id"} \X Registered) \cup ({"alias"} \X Aliased) \cup ({"known"} \X (Registered \cup Aliased))
        \cup ({"class"} \X Indexed) \cup ({"fail"} \X (IF Intact THEN {} ELSE Ids))

\* A DIE that was read to the end is found by its id, and its class by name.
ReadNeeds(d) ==
    IF d[1] \in Unregistered THEN {}
    ELSE {<<"known", d>>} \cup (IF d[1] \in NamedClasses THEN {<<"class", d[1]>>} ELSE {})

\* What must hold before a step: ids are published after they are registered.
Needs(s) ==
    CASE s.op = "insert" /\ s.on \in Published -> {<<"id", s.die>>}
      [] s.op = "insert" /\ s.on = "symbolIDAliasMap" -> {<<"id", s.die[2]>>}
      [] s.op = "return" -> ReadNeeds(s.die)
      [] s.op = "find_symbol" -> {<<"known", s.die>>}
      [] s.op = "find_alias" -> {<<"alias", s.die>>}
      [] s.op = "find_target" -> {<<"id", s.die>>}
      [] s.op = "fail" -> {<<"fail", s.die>>}
      [] s.op = "merge_next" -> {"id"} \X ({s.die[1]} \cup s.die[2] \cup s.die[3])
      [] OTHER -> {}

\* What holds after a step, or after what it turns into.
Gives(s) ==
    CASE s.op = "insert" /\ s.on = "symbolIDMap" -> {<<"id", s.die>>, <<"known", s.die>>}
      [] s.op = "insert" /\ s.on = "symbolIDAliasMap" -> {<<"alias", s.die[1]>>, <<"known", s.die[1]>>}
      [] s.op = "insert" /\ s.on \in Indexes ->
            {<<"class", c>> : c \in {x \in NamedClasses : x = s.die[1] /\ s.on = NameIndex(x)}}
      [] s.op = "lookup" -> {<<"known", s.die>>, <<"class", s.die[1]>>}
      [] OTHER -> {}

\* Program p, where F holds, has what it needs at every step and ends in G.
Builds(p, F, G) ==
    /\ p \in Seq(Steps)
    /\ \A i \in 1..Len(p) : \A n \in Needs(p[i]) :
          n \in F \/ \E j \in 1..(i - 1) : n \in Gives(p[j])
    /\ \A g \in G : g \in F \/ \E j \in 1..Len(p) : g \in Gives(p[j])

PublishedOK ==
    /\ \A map \in Published : \A d \in data[map] : <<"id", d>> \in Facts
    /\ \A x \in data["symbolIDAliasMap"] : <<"id", x[2]>> \in Facts

FinishedOK == Root \in finished /\ \A d \in finished : ReadNeeds(d) \subseteq Facts

FactsInv ==
    /\ LocksInv
    /\ PublishedOK
    /\ FinishedOK
    /\ \A t \in Threads : Builds(todo[t], Facts, {})
    /\ FinishedFound
    /\ NoLateDuplicate

-----------------------------------------------------------------------------
(* Programs put together. *)

\* More facts do no harm.
LEMMA WeakerBuilds ==
    ASSUME NEW p, NEW F, NEW G, NEW F1, NEW G1, Builds(p, F, G), F \subseteq F1, G1 \subseteq G
    PROVE  Builds(p, F1, G1)
BY DEF Builds

\* A program without steps.
LEMMA NothingBuilds ==
    ASSUME NEW F
    PROVE  Builds(<<>>, F, F)
<1>1. <<>> \in Seq(Steps) /\ Len(<<>>) = 0
  OBVIOUS
<1> QED
  BY <1>1 DEF Builds

\* A program of one step.
LEMMA StepBuilds ==
    ASSUME NEW s \in Steps, NEW F, Needs(s) \subseteq F
    PROVE  Builds(<<s>>, F, F \cup Gives(s))
<1>1. <<s>> \in Seq(Steps) /\ Len(<<s>>) = 1 /\ <<s>>[1] = s
  OBVIOUS
<1>2. \A i \in 1..Len(<<s>>) : <<s>>[i] = s
  BY <1>1
<1>3. 1 \in 1..Len(<<s>>)
  BY <1>1
<1> QED
  BY <1>1, <1>2, <1>3 DEF Builds

\* One program after another.
LEMMA ThenBuilds ==
    ASSUME NEW p, NEW q, NEW F, NEW G, NEW K, Builds(p, F, G), Builds(q, G, K)
    PROVE  Builds(p \o q, F, K)
<1>1. p \in Seq(Steps) /\ q \in Seq(Steps) /\ Len(p) \in Nat /\ Len(q) \in Nat
  BY DEF Builds
<1> DEFINE r == p \o q
<1>2. /\ r \in Seq(Steps) /\ Len(r) = Len(p) + Len(q)
      /\ \A i \in 1..Len(r) : r[i] = IF i <= Len(p) THEN p[i] ELSE q[i - Len(p)]
  BY <1>1
<1> HIDE DEF r
<1>3. \A i \in 1..Len(p) : i \in 1..Len(r) /\ r[i] = p[i]
  BY <1>1, <1>2
<1>4. \A i \in 1..Len(q) : i + Len(p) \in 1..Len(r) /\ r[i + Len(p)] = q[i]
  <2> SUFFICES ASSUME NEW i \in 1..Len(q)
               PROVE  i + Len(p) \in 1..Len(r) /\ r[i + Len(p)] = q[i]
    OBVIOUS
  <2>1. i + Len(p) \in 1..Len(r) /\ ~(i + Len(p) <= Len(p)) /\ (i + Len(p)) - Len(p) = i
    BY <1>1, <1>2
  <2> QED
    BY <1>2, <2>1
<1>5. ASSUME NEW i \in 1..Len(r), NEW n \in Needs(r[i])
      PROVE  n \in F \/ \E j \in 1..(i - 1) : n \in Gives(r[j])
  <2>1. CASE i <= Len(p)
    <3>1. i \in 1..Len(p) /\ r[i] = p[i]
      BY <1>1, <1>2, <2>1
    <3>2. n \in F \/ \E j \in 1..(i - 1) : n \in Gives(p[j])
      BY <1>5, <3>1 DEF Builds
    <3>3. \A j \in 1..(i - 1) : j \in 1..Len(p)
      BY <1>1, <3>1
    <3> QED
      BY <1>3, <3>2, <3>3
  <2>2. CASE ~(i <= Len(p))
    <3>1. i - Len(p) \in 1..Len(q) /\ r[i] = q[i - Len(p)]
      BY <1>1, <1>2, <2>2
    <3>2. n \in G \/ \E j \in 1..((i - Len(p)) - 1) : n \in Gives(q[j])
      BY <1>5, <3>1 DEF Builds
    <3>3. CASE n \in G
      <4>1. n \in F \/ \E j \in 1..Len(p) : n \in Gives(p[j])
        BY <3>3 DEF Builds
      <4>2. \A j \in 1..Len(p) : j \in 1..(i - 1)
        BY <1>1, <1>2, <2>2
      <4> QED
        BY <1>3, <4>1, <4>2
    <3>4. ASSUME NEW j \in 1..((i - Len(p)) - 1), n \in Gives(q[j])
          PROVE  \E k \in 1..(i - 1) : n \in Gives(r[k])
      <4>1. j \in 1..Len(q) /\ j + Len(p) \in 1..(i - 1)
        BY <1>1, <1>2, <3>1
      <4> QED
        BY <1>4, <3>4, <4>1
    <3> QED
      BY <3>2, <3>3, <3>4
  <2> QED
    BY <2>1, <2>2
<1>6. ASSUME NEW g \in K
      PROVE  g \in F \/ \E j \in 1..Len(r) : g \in Gives(r[j])
  <2>1. g \in G \/ \E j \in 1..Len(q) : g \in Gives(q[j])
    BY DEF Builds
  <2>2. g \in G => g \in F \/ \E j \in 1..Len(p) : g \in Gives(p[j])
    BY DEF Builds
  <2>3. ASSUME NEW j \in 1..Len(q), g \in Gives(q[j])
        PROVE  \E k \in 1..Len(r) : g \in Gives(r[k])
    BY <1>4, <2>3
  <2> QED
    BY <1>3, <2>1, <2>2, <2>3
<1>7. Builds(r, F, K)
  BY <1>2, <1>5, <1>6 DEF Builds
<1> QED
  BY <1>7 DEF r

\* The first step of a program and the rest of it.
LEMMA FirstBuilds ==
    ASSUME NEW p, NEW F, NEW G, Builds(p, F, G), p # <<>>
    PROVE  /\ Needs(Head(p)) \subseteq F
           /\ Builds(Tail(p), F \cup Gives(Head(p)), G)
<1>1. p \in Seq(Steps) /\ Len(p) \in Nat /\ Len(p) >= 1
  BY DEF Builds
<1> DEFINE r == Tail(p)
<1>2. /\ r \in Seq(Steps) /\ Len(r) = Len(p) - 1
      /\ \A i \in 1..Len(r) : r[i] = p[i + 1]
      /\ Head(p) = p[1]
  BY <1>1
<1> HIDE DEF r
<1>3. 1 \in 1..Len(p)
  BY <1>1
<1>4. Needs(p[1]) \subseteq F
  <2>1. \A n \in Needs(p[1]) : n \in F \/ \E j \in 1..(1 - 1) : n \in Gives(p[j])
    BY <1>3 DEF Builds
  <2>2. 1..(1 - 1) = {}
    OBVIOUS
  <2> QED
    BY <2>1, <2>2
<1>5. \A j \in 1..Len(p) : j = 1 \/ (j - 1 \in 1..Len(r) /\ r[j - 1] = p[j])
  <2> SUFFICES ASSUME NEW j \in 1..Len(p), j # 1
               PROVE  j - 1 \in 1..Len(r) /\ r[j - 1] = p[j]
    OBVIOUS
  <2>1. j - 1 \in 1..Len(r) /\ (j - 1) + 1 = j
    BY <1>1, <1>2
  <2> QED
    BY <1>2, <2>1
<1>6. ASSUME NEW i \in 1..Len(r), NEW n \in Needs(r[i])
      PROVE  n \in F \cup Gives(p[1]) \/ \E j \in 1..(i - 1) : n \in Gives(r[j])
  <2>1. i + 1 \in 1..Len(p) /\ r[i] = p[i + 1] /\ (i + 1) - 1 = i
    BY <1>1, <1>2
  <2>2. n \in F \/ \E j \in 1..i : n \in Gives(p[j])
    BY <1>6, <2>1 DEF Builds
  <2>3. ASSUME NEW j \in 1..i, n \in Gives(p[j]), j # 1
        PROVE  \E k \in 1..(i - 1) : n \in Gives(r[k])
    <3>1. j \in 1..Len(p) /\ j - 1 \in 1..(i - 1)
      BY <1>1, <1>2, <2>3
    <3> QED
      BY <1>5, <2>3, <3>1
  <2> QED
    BY <2>2, <2>3
<1>7. ASSUME NEW g \in G
      PROVE  g \in F \cup Gives(p[1]) \/ \E j \in 1..Len(r) : g \in Gives(r[j])
  <2>1. g \in F \/ \E j \in 1..Len(p) : g \in Gives(p[j])
    BY DEF Builds
  <2> QED
    BY <1>5, <2>1
<1>8. Builds(r, F \cup Gives(p[1]), G)
  BY <1>2, <1>6, <1>7 DEF Builds
<1> QED
  BY <1>2, <1>4, <1>8 DEF r

-----------------------------------------------------------------------------
(* What the programs of the operations rely on and establish. *)

\* A step that needs nothing.
LEMMA QuietBuilds ==
    ASSUME NEW s \in Steps, NEW F, Needs(s) = {}
    PROVE  Builds(<<s>>, F, F)
<1>1. Builds(<<s>>, F, F \cup Gives(s))
  BY StepBuilds
<1> QED
  BY <1>1, WeakerBuilds

\* A program under a mutex.
LEMMA GuardedBuilds ==
    ASSUME NEW m \in Mutexes, NEW p, NEW F, NEW G, Builds(p, F, G)
    PROVE  Builds(Guarded(m, p), F, G)
<1>1. Lock(m) \in Steps /\ Unlock(m) \in Steps
  BY ThingsAre DEF Lock, Unlock, S, Steps
<1>2. Needs(Lock(m)) = {} /\ Needs(Unlock(m)) = {}
  BY DEF Needs, Lock, Unlock, S
<1>3. Builds(<<Lock(m)>>, F, F) /\ Builds(<<Unlock(m)>>, G, G)
  BY <1>1, <1>2, QuietBuilds
<1>4. Builds(<<Lock(m)>> \o p, F, G)
  BY <1>3, ThenBuilds
<1>5. Builds((<<Lock(m)>> \o p) \o <<Unlock(m)>>, F, G)
  BY <1>3, <1>4, ThenBuilds
<1> QED
  BY <1>5 DEF Guarded

\* Giving back a mutex.
LEMMA UnlockBuilds ==
    ASSUME NEW m \in Mutexes, NEW F
    PROVE  Builds(<<Unlock(m)>>, F, F)
<1>1. Unlock(m) \in Steps
  BY ThingsAre DEF Unlock, S, Steps
<1>2. Needs(Unlock(m)) = {}
  BY DEF Needs, Unlock, S
<1> QED
  BY <1>1, <1>2, QuietBuilds

\* A program of two steps, the first of which needs nothing.
LEMMA PairBuilds ==
    ASSUME NEW r \in Steps, NEW s \in Steps, NEW F, Needs(r) = {}, Needs(s) \subseteq F
    PROVE  Builds(<<r, s>>, F, F)
<1> DEFINE p == <<r, s>>
<1>1. p \in Seq(Steps) /\ Len(p) = 2 /\ p[1] = r /\ p[2] = s
  OBVIOUS
<1> HIDE DEF p
<1>2. \A i \in 1..Len(p) : i = 1 \/ i = 2
  BY <1>1
<1>3. \A i \in 1..Len(p) : Needs(p[i]) \subseteq F
  BY <1>1, <1>2
<1>4. Builds(p, F, F)
  BY <1>1, <1>3 DEF Builds
<1> QED
  BY <1>4 DEF p

\* An insertion is a step.
LEMMA InsertStep ==
    ASSUME NEW map \in Maps, NEW x \in Entries(map)
    PROVE  Insert(map, x) \in Steps
BY ThingsAre DEF Insert, S, Steps

\* What the insertions that others rely on need and give.
LEMMA InsertMeans ==
    ASSUME NEW s, s.op = "insert"
    PROVE  /\ s.on \in Published => Needs(s) = {<<"id", s.die>>}
           /\ s.on = "symbolIDMap" => /\ Needs(s) = {}
                                     /\ Gives(s) = {<<"id", s.die>>, <<"known", s.die>>}
           /\ s.on = "symbolIDAliasMap" =>
                 /\ Needs(s) = {<<"id", s.die[2]>>}
                 /\ Gives(s) = {<<"alias", s.die[1]>>, <<"known", s.die[1]>>}
           /\ s.on \in Indexes =>
                 Gives(s) = {<<"class", c>> : c \in {x \in NamedClasses : x = s.die[1] /\ s.on = NameIndex(x)}}
<1>1. CASE s.on \in Published
  <2>1. Needs(s) = {<<"id", s.die>>}
    BY <1>1 DEF Needs, Published
  <2>2. s.on \in Indexes =>
           Gives(s) = {<<"class", c>> : c \in {x \in NamedClasses : x = s.die[1] /\ s.on = NameIndex(x)}}
    BY DEF Gives, Indexes
  <2> QED
    BY <1>1, <2>1, <2>2 DEF Published
<1>2. CASE s.on = "symbolIDMap"
  BY <1>2 DEF Needs, Gives, Published, Indexes
<1>3. CASE s.on = "symbolIDAliasMap"
  BY <1>3 DEF Needs, Gives, Published, Indexes
<1> QED
  BY <1>1, <1>2, <1>3 DEF Published, Indexes

\* Maps from which nothing is looked up.
LEMMA PlainBuilds ==
    ASSUME NEW map \in Maps, map \notin Published, map # "symbolIDAliasMap",
           NEW x \in Entries(map), NEW F
    PROVE  Builds(<<Insert(map, x)>>, F, F)
<1>1. Needs(Insert(map, x)) = {}
  BY DEF Needs, Insert, S
<1> QED
  BY <1>1, InsertStep, QuietBuilds

\* A look into a map.
LEMMA SkipBuilds ==
    ASSUME NEW map \in Maps, NEW x \in Things, NEW kind \in {"read", "write"}, NEW F
    PROVE  Builds(<<S(kind, "skip", map, x)>>, F, F)
<1> DEFINE s == S(kind, "skip", map, x)
<1>1. s \in Steps
  BY DEF S, Steps
<1>2. Needs(s) = {}
  BY DEF Needs, S
<1> QED
  BY <1>1, <1>2, QuietBuilds

\* A point where an exception may leave the call.
LEMMA ThrowBuilds ==
    ASSUME NEW d \in Ids, NEW F
    PROVE  Builds(MayThrow(d), F, F)
<1> DEFINE s == S("none", "may_throw", "none", d)
<1>1. s \in Steps
  BY ThingsAre DEF S, Steps
<1>2. Needs(s) = {}
  BY DEF Needs, S
<1> QED
  BY <1>1, <1>2, QuietBuilds DEF MayThrow

\* The registration of an id and of a symbol.
LEMMA RegisterBuilds ==
    ASSUME NEW d \in Ids, NEW F
    PROVE  /\ Builds(getID(d), F, F)
           /\ Builds(addSymbol(d), F, F \cup {<<"id", d>>, <<"known", d>>})
<1> USE DEF Mutexes, Maps, Entries, AliasMaps, Published
<1>1. Builds(getID(d), F, F)
  <2> DEFINE rev == IF d = Root THEN <<>> ELSE <<Insert("idRevMap", d)>>
  <2>1. Builds(<<Insert("idMap", d)>>, F, F) /\ Builds(<<Insert("idRevMap", d)>>, F, F)
    BY PlainBuilds
  <2>2. Builds(<<>>, F, F)
    BY NothingBuilds
  <2>3. Builds(<<Insert("idMap", d)>> \o rev, F, F)
    BY <2>1, <2>2, ThenBuilds
  <2> HIDE DEF rev
  <2>4. Builds(Guarded("mapMutex", <<Insert("idMap", d)>> \o rev), F, F)
    BY <2>3, GuardedBuilds
  <2> QED
    BY <2>4 DEF getID, rev
<1>2. Builds(<<Insert("symbolIDMap", d)>>, F, F \cup {<<"id", d>>, <<"known", d>>})
  <2> DEFINE s == Insert("symbolIDMap", d)
  <2>1. s \in Steps
    BY InsertStep
  <2>2. Needs(s) = {} /\ Gives(s) = {<<"id", d>>, <<"known", d>>}
    BY InsertMeans DEF Insert, S
  <2> HIDE DEF s
  <2>3. Builds(<<s>>, F, F \cup Gives(s))
    BY <2>1, <2>2, StepBuilds
  <2> QED
    BY <2>2, <2>3 DEF s
<1>3. Builds(Guarded("symbolNameMapMutex", <<Insert("symbolNameMap", d)>>), F, F)
  BY PlainBuilds, GuardedBuilds
<1>4. Builds(<<>>, F, F)
  BY NothingBuilds
<1>5. Builds(addSymbol(d), F, F \cup {<<"id", d>>, <<"known", d>>})
  BY <1>2, <1>3, <1>4, ThenBuilds DEF addSymbol
<1> QED
  BY <1>1, <1>5

\* The publication of a registered id.
LEMMA PublishBuilds ==
    ASSUME NEW map \in Published, NEW d \in Ids, NEW F, <<"id", d>> \in F
    PROVE  /\ Builds(<<Insert(map, d)>>, F, F)
           /\ d[1] \in NamedClasses /\ map = NameIndex(d[1])
                 => Builds(<<Insert(map, d)>>, F, F \cup {<<"class", d[1]>>})
<1> DEFINE s == Insert(map, d)
<1>1. s \in Steps
  BY InsertStep DEF Published, Maps, Entries, AliasMaps
<1>2. Needs(s) = {<<"id", d>>}
  BY InsertMeans DEF Insert, S
<1>3. d[1] \in NamedClasses /\ map = NameIndex(d[1]) => Gives(s) = {<<"class", d[1]>>}
  <2> SUFFICES ASSUME d[1] \in NamedClasses, map = NameIndex(d[1])
               PROVE  Gives(s) = {<<"class", d[1]>>}
    OBVIOUS
  <2>1. map \in Indexes
    BY DEF NamedClasses, NameIndex, Indexes
  <2>2. s.op = "insert" /\ s.on = map /\ s.die = d
    BY DEF Insert, S
  <2>3. map # "symbolIDMap" /\ map # "symbolIDAliasMap"
    BY <2>1 DEF Indexes
  <2> HIDE DEF s
  <2>4. Gives(s) = {<<"class", c>> : c \in {x \in NamedClasses : x = d[1] /\ map = NameIndex(x)}}
    BY <2>1, <2>2, <2>3 DEF Gives
  <2>5. {x \in NamedClasses : x = d[1] /\ map = NameIndex(x)} = {d[1]}
    OBVIOUS
  <2> QED
    BY <2>4, <2>5
<1> HIDE DEF s
<1>4. Builds(<<s>>, F, F \cup Gives(s))
  BY <1>1, <1>2, StepBuilds
<1>5. Builds(<<s>>, F, F)
  BY <1>4, WeakerBuilds
<1> QED
  BY <1>3, <1>4, <1>5 DEF s

\* The registration of an alias of a registered id.
LEMMA AliasBuilds ==
    ASSUME NEW id \in Ids, NEW new_id \in Ids, NEW F, <<"id", id>> \in F
    PROVE  Builds(addAlternativeID(id, new_id), F, F \cup {<<"alias", new_id>>, <<"known", new_id>>})
<1> USE DEF Mutexes, Maps, Entries, AliasMaps, Published
<1> DEFINE s == Insert("symbolIDAliasMap", <<new_id, id>>)
           G == F \cup {<<"alias", new_id>>, <<"known", new_id>>}
<1>1. s \in Steps
  BY InsertStep
<1>2. Needs(s) = {<<"id", id>>} /\ Gives(s) = {<<"alias", new_id>>, <<"known", new_id>>}
  BY InsertMeans DEF Insert, S
<1> HIDE DEF s
<1>3. Builds(<<s>>, F, F \cup Gives(s))
  BY <1>1, <1>2, StepBuilds
<1>4. Builds(<<s>>, F, G)
  BY <1>2, <1>3
<1>5. Builds(Guarded("symbolIDAliasMapMutex", <<s>>), F, G)
  BY <1>4, GuardedBuilds
<1>6. Builds(Guarded("symbolIDAliasReverseListMutex",
                     <<Insert("symbolIDAliasReverseList", <<id, new_id>>)>>), G, G)
  BY PlainBuilds, GuardedBuilds
<1> HIDE DEF G
<1>7. Builds(addAlternativeID(id, new_id), F, G)
  BY <1>5, <1>6, ThenBuilds DEF addAlternativeID, s
<1> QED
  BY <1>7 DEF G

\* A constructor publishes after it has registered, and a DIE it returns for is
\* found.
LEMMA ConstructBuilds ==
    ASSUME NEW d \in DieIds, d[1] \in NamedClasses \cup {"array", "member"}, NEW F
    PROVE  Builds(Construct(d), F, F \cup {<<"id", d>>, <<"known", d>>}
                                     \cup (IF d[1] \in NamedClasses THEN {<<"class", d[1]>>} ELSE {}))
<1> DEFINE symbol == MayThrow(Root) \o getID(d) \o addSymbol(d) \o MayThrow(d)
           type == getID(Root)
           base == symbol \o addBaseType(d)
           G == F \cup {<<"id", d>>, <<"known", d>>}
           C == {<<"class", d[1]>>}
<1>0. d \in Ids /\ Root \in Ids
  BY ThingsAre
<1>1. \A K : Builds(MayThrow(d), K, K) /\ Builds(MayThrow(Root), K, K)
  BY <1>0, ThrowBuilds
<1>2. /\ \A K : Builds(getID(d), K, K) /\ Builds(type, K, K)
      /\ Builds(addSymbol(d), F, G)
  BY <1>0, RegisterBuilds
<1>3. Builds(symbol, F, G)
  <2>1. Builds(MayThrow(Root) \o getID(d), F, F)
    BY <1>1, <1>2, ThenBuilds
  <2>2. Builds(MayThrow(Root) \o getID(d) \o addSymbol(d), F, G)
    BY <1>2, <2>1, ThenBuilds
  <2> QED
    BY <1>1, <2>2, ThenBuilds
<1>4. <<"id", d>> \in G /\ \A K : <<"id", d>> \in G \cup K
  OBVIOUS
<1>5. \A K : Builds(addBaseType(d), G \cup K, G \cup K)
  BY <1>0, <1>4, PublishBuilds DEF addBaseType, Published
<1>6. d[1] \in {"struct", "function"} => Builds(addBaseType(d), G, G \cup C)
  BY <1>0, <1>4, PublishBuilds DEF addBaseType, Published, NamedClasses, NameIndex
<1>7. d[1] = "typedef" => Builds(addRefBaseType(d), G, G \cup C)
  BY <1>0, <1>4, PublishBuilds DEF addRefBaseType, Published, NamedClasses, NameIndex
<1>8. d[1] = "variable" => Builds(addVariable(d), G, G \cup C)
  BY <1>0, <1>4, PublishBuilds DEF addVariable, Published, NamedClasses, NameIndex
<1>9. Builds(addArray(d), G, G)
  <2>1. Builds(<<Insert("arrayVector", d)>>, G, G)
    BY <1>0, <1>4, PublishBuilds DEF Published
  <2> QED
    BY <2>1, GuardedBuilds DEF addArray, Mutexes
<1>10. Builds(addFunction(d), G \cup C, G \cup C)
  <2> DEFINE s == Decide("name_free", "functionNameMap", d)
  <2>1. s \in Steps
    BY <1>0, ThingsAre DEF Decide, S, Steps, Maps
  <2>2. Needs(s) = {}
    BY DEF Needs, Decide, S
  <2>3. Builds(<<s>>, G \cup C, G \cup C)
    BY <2>1, <2>2, QuietBuilds
  <2>4. Builds(<<Insert("funcList", d)>>, G \cup C, G \cup C)
    BY <1>0, <1>4, PublishBuilds DEF Published
  <2>5. Builds(Guarded("funcListMutex", <<Insert("funcList", d)>>), G \cup C, G \cup C)
    BY <2>4, GuardedBuilds DEF Mutexes
  <2> QED
    BY <2>3, <2>5, ThenBuilds DEF addFunction
<1> HIDE DEF symbol, type
<1>11. \A K : /\ Builds(base, F, K) => Builds(base \o MayThrow(d) \o type, F, K)
              /\ Builds(symbol \o type, F, G)
  <2>1. \A K : Builds(base, F, K) => Builds(base \o MayThrow(d), F, K)
    BY <1>1, ThenBuilds
  <2> QED
    BY <1>2, <1>3, <2>1, ThenBuilds
<1>12. CASE d[1] = "struct"
  <2>1. Builds(base, F, G \cup C)
    BY <1>3, <1>6, <1>12, ThenBuilds
  <2> QED
    BY <1>12, <2>1 DEF Construct, symbol, NamedClasses
<1>13. CASE d[1] = "typedef"
  <2>1. Builds(addBaseType(d), G \cup {}, G \cup {}) /\ G \cup {} = G
    BY <1>5
  <2>2. Builds(base, F, G)
    BY <1>3, <2>1, ThenBuilds
  <2> HIDE DEF base
  <2>3. Builds(base \o MayThrow(d) \o type, F, G)
    BY <1>11, <2>2
  <2>4. Builds(base \o MayThrow(d) \o type \o addRefBaseType(d), F, G \cup C)
    BY <1>7, <1>13, <2>3, ThenBuilds
  <2> QED
    BY <1>13, <2>4 DEF Construct, base, symbol, type, NamedClasses
<1>14. CASE d[1] = "array"
  <2>1. Builds(symbol \o type \o addArray(d), F, G)
    BY <1>9, <1>11, ThenBuilds
  <2>2. G \cup {} = G
    OBVIOUS
  <2> QED
    BY <1>14, <2>1, <2>2 DEF Construct, symbol, type, NamedClasses
<1>15. CASE d[1] = "function"
  <2>1. Builds(base, F, G \cup C)
    BY <1>3, <1>6, <1>15, ThenBuilds
  <2> HIDE DEF base
  <2>2. Builds(base \o MayThrow(d) \o type, F, G \cup C)
    BY <1>11, <2>1
  <2>3. Builds(base \o MayThrow(d) \o type \o MayThrow(d), F, G \cup C)
    BY <1>1, <2>2, ThenBuilds
  <2>4. Builds(base \o MayThrow(d) \o type \o MayThrow(d) \o addFunction(d), F, G \cup C)
    BY <1>10, <2>3, ThenBuilds
  <2> QED
    BY <1>15, <2>4 DEF Construct, base, symbol, type, NamedClasses
<1>16. CASE d[1] = "variable"
  <2>1. Builds(symbol \o type \o addVariable(d), F, G \cup C)
    BY <1>8, <1>11, <1>16, ThenBuilds
  <2>2. Builds(symbol \o type \o addVariable(d) \o MayThrow(d), F, G \cup C)
    BY <1>1, <2>1, ThenBuilds
  <2> QED
    BY <1>16, <2>2 DEF Construct, symbol, type, NamedClasses
<1>17. CASE d[1] = "member"
  <2>1. Builds(symbol \o type \o MayThrow(d), F, G)
    BY <1>1, <1>11, ThenBuilds
  <2>2. G \cup {} = G
    OBVIOUS
  <2> QED
    BY <1>17, <2>1, <2>2 DEF Construct, symbol, type, NamedClasses
<1> QED
  BY <1>12, <1>13, <1>14, <1>15, <1>16, <1>17 DEF NamedClasses

\* The steps of a search, each with what makes it succeed.
LEMMA FindBuilds ==
    ASSUME NEW d \in Ids, NEW F
    PROVE  /\ <<"known", d>> \in F => Builds(findSymbolByID(d), F, F)
           /\ <<"alias", d>> \in F =>
                 Builds(<<Lock("symbolIDAliasMapMutex"), Decide("find_alias", "symbolIDAliasMap", d)>>, F, F)
           /\ <<"id", d>> \in F =>
                 Builds(<<Lock("symbolIDMapMutex"), Decide("find_target", "symbolIDMap", d)>>, F, F)
           /\ Builds(<<Unlock("symbolIDAliasMapMutex"), Decide("use_alias", "symbolIDAliasMap", d)>>, F, F)
           /\ \A m \in Mutexes : \A map \in Maps : Builds(Follow(m, map), F, F)
           /\ <<"fail", d>> \in F => Builds(NotFound(d), F, F)
<1> USE DEF Mutexes, Maps
<1>1. d \in Things
  BY ThingsAre
<1>2. ASSUME NEW m \in Mutexes
      PROVE  Lock(m) \in Steps /\ Needs(Lock(m)) = {}
  BY <1>2, ThingsAre DEF Lock, S, Steps, Needs
<1>3. <<"known", d>> \in F => Builds(findSymbolByID(d), F, F)
  <2>1. Decide("find_symbol", "symbolIDMap", d) \in Steps
    BY <1>1 DEF Decide, S, Steps
  <2>2. Needs(Decide("find_symbol", "symbolIDMap", d)) = {<<"known", d>>}
    BY DEF Decide, S, Needs
  <2> QED
    BY <1>2, <2>1, <2>2, PairBuilds DEF findSymbolByID
<1>4. <<"alias", d>> \in F =>
         Builds(<<Lock("symbolIDAliasMapMutex"), Decide("find_alias", "symbolIDAliasMap", d)>>, F, F)
  <2>1. Decide("find_alias", "symbolIDAliasMap", d) \in Steps
    BY <1>1 DEF Decide, S, Steps
  <2>2. Needs(Decide("find_alias", "symbolIDAliasMap", d)) = {<<"alias", d>>}
    BY DEF Decide, S, Needs
  <2> QED
    BY <1>2, <2>1, <2>2, PairBuilds
<1>5. <<"id", d>> \in F =>
         Builds(<<Lock("symbolIDMapMutex"), Decide("find_target", "symbolIDMap", d)>>, F, F)
  <2>1. Decide("find_target", "symbolIDMap", d) \in Steps
    BY <1>1 DEF Decide, S, Steps
  <2>2. Needs(Decide("find_target", "symbolIDMap", d)) = {<<"id", d>>}
    BY DEF Decide, S, Needs
  <2> QED
    BY <1>2, <2>1, <2>2, PairBuilds
<1>6. <<"fail", d>> \in F => Builds(NotFound(d), F, F)
  <2> DEFINE s == S("none", "fail", "none", d)
             q == Guarded("symbolIDAliasReverseListMutex", getAliases(d))
  <2>1. s \in Steps
    BY <1>1 DEF S, Steps
  <2>2. Needs(s) = {<<"fail", d>>}
    BY DEF S, Needs
  <2> HIDE DEF s
  <2>3. <<"fail", d>> \in F => Builds(<<s>>, F, F \cup Gives(s))
    BY <2>1, <2>2, StepBuilds
  <2>4. <<"fail", d>> \in F => Builds(<<s>>, F, F)
    BY <2>3, WeakerBuilds
  <2>5. Builds(q, F, F) /\ Builds(getRevID(d), F, F)
    BY <1>1, SkipBuilds, GuardedBuilds DEF getAliases, getRevID
  <2> HIDE DEF q
  <2>6. Builds(q \o getRevID(d), F, F)
    BY <2>5, ThenBuilds
  <2>7. <<"fail", d>> \in F => Builds(q \o getRevID(d) \o <<s>>, F, F)
    BY <2>4, <2>6, ThenBuilds
  <2> QED
    BY <2>7 DEF NotFound, q, s
<1>7. Builds(<<Unlock("symbolIDAliasMapMutex"), Decide("use_alias", "symbolIDAliasMap", d)>>, F, F)
  <2> DEFINE s == Decide("use_alias", "symbolIDAliasMap", d)
             r == Unlock("symbolIDAliasMapMutex")
  <2>1. r \in Steps /\ s \in Steps
    BY <1>1, ThingsAre DEF Unlock, Decide, S, Steps
  <2>2. Needs(r) = {} /\ Needs(s) = {}
    BY DEF Unlock, Decide, S, Needs
  <2> HIDE DEF r, s
  <2>3. Builds(<<r, s>>, F, F)
    BY <2>1, <2>2, PairBuilds
  <2> QED
    BY <2>3 DEF r, s
<1>8. ASSUME NEW m \in Mutexes, NEW map \in Maps
      PROVE  Builds(Follow(m, map), F, F)
  <2>1. Unlock(m) \in Steps /\ Read(map) \in Steps
    BY ThingsAre DEF Unlock, Read, S, Steps
  <2>2. Needs(Unlock(m)) = {} /\ Needs(Read(map)) = {}
    BY DEF Unlock, Read, S, Needs
  <2> QED
    BY <2>1, <2>2, PairBuilds DEF Follow
<1> QED
  BY <1>3, <1>4, <1>5, <1>6, <1>7, <1>8

\* Calls that look nothing up by id.
LEMMA LookupsBuild ==
    ASSUME NEW d \in Ids, NEW F
    PROVE  /\ Builds(getAliases(d), F, F) /\ Builds(memberByName(d), F, F)
           /\ Builds(findArrayByTypeID(d), F, F) /\ Builds(findSymbolByName, F, F)
           /\ Builds(removeSymbol(d), F, F) /\ Builds(getRevID(d), F, F)
           /\ \A call \in DOMAIN Looks : Builds(<<Read(Looks[call])>>, F, F)
<1> USE DEF Mutexes, Maps
<1>1. d \in Things /\ Root \in Things
  BY ThingsAre
<1>2. \A map \in Maps : Builds(<<Read(map)>>, F, F)
  BY <1>1, SkipBuilds DEF Read
<1>3. /\ Builds(getAliases(d), F, F) /\ Builds(memberByName(d), F, F)
      /\ Builds(getRevID(d), F, F)
  BY <1>1, SkipBuilds DEF getAliases, memberByName, getRevID
<1>4. Builds(Guarded("arrayTypeMapMutex", <<Read("arrayTypeMap")>>), F, F)
      /\ Builds(Guarded("symbolNameMapMutex", <<Read("symbolNameMap")>>), F, F)
  BY <1>2, GuardedBuilds
<1>5. Builds(findArrayByTypeID(d), F, F)
  <2> DEFINE g == Guarded("arrayTypeMapMutex", <<Read("arrayTypeMap")>>)
             r == <<Read("arrayTypeMap")>>
  <2>1. Builds(g, F, F) /\ Builds(r, F, F)
    BY <1>2, <1>4
  <2> HIDE DEF g, r
  <2>2. Builds(g \o r, F, F)
    BY <2>1, ThenBuilds
  <2>3. Builds(g \o r \o getAliases(d), F, F)
    BY <1>3, <2>2, ThenBuilds
  <2>4. Builds(g \o r \o getAliases(d) \o g, F, F)
    BY <2>1, <2>3, ThenBuilds
  <2>5. Builds(g \o r \o getAliases(d) \o g \o r, F, F)
    BY <2>1, <2>4, ThenBuilds
  <2> QED
    BY <2>5 DEF findArrayByTypeID, g, r
<1>6. Builds(removeSymbol(d), F, F)
  <2> DEFINE s == S("write", "has_aliases", "symbolIDAliasReverseList", d)
  <2>1. s \in Steps
    BY <1>1 DEF S, Steps
  <2>2. Needs(s) = {}
    BY DEF S, Needs
  <2> QED
    BY <2>1, <2>2, QuietBuilds DEF removeSymbol
<1>7. \A call \in DOMAIN Looks : Builds(<<Read(Looks[call])>>, F, F)
  BY <1>2 DEF Looks
<1> QED
  BY <1>3, <1>4, <1>5, <1>6, <1>7 DEF findSymbolByName

\* The cleaning of a list, which looks up the one type everything refers to.
LEMMA CleanBuilds ==
    ASSUME NEW F, <<"known", Root>> \in F
    PROVE  Builds(cleanFunctions, F, F) /\ Builds(cleanArrays, F, F)
<1> USE DEF Mutexes, Maps
<1>1. Root \in Things /\ Root \in Ids
  BY ThingsAre
<1>2. ASSUME NEW m \in Mutexes, NEW list \in Maps
      PROVE  Builds(<<Lock(m), Read(list)>> \o findSymbolByID(Root)
                       \o <<S("write", "merge_equal", list, Root)>>, F, F)
  <2> DEFINE s == S("write", "merge_equal", list, Root)
  <2>1. Lock(m) \in Steps /\ Read(list) \in Steps /\ s \in Steps
    BY <1>1 DEF Lock, Read, S, Steps
  <2>2. Needs(Lock(m)) = {} /\ Needs(Read(list)) = {} /\ Needs(s) = {}
    BY DEF Lock, Read, S, Needs
  <2>3. Builds(<<Lock(m), Read(list)>>, F, F) /\ Builds(<<s>>, F, F)
    BY <2>1, <2>2, PairBuilds, QuietBuilds
  <2>4. Builds(findSymbolByID(Root), F, F)
    BY <1>1, FindBuilds
  <2> HIDE DEF s
  <2>5. Builds(<<Lock(m), Read(list)>> \o findSymbolByID(Root), F, F)
    BY <2>3, <2>4, ThenBuilds
  <2>6. Builds(<<Lock(m), Read(list)>> \o findSymbolByID(Root) \o <<s>>, F, F)
    BY <2>3, <2>5, ThenBuilds
  <2> QED
    BY <2>6 DEF s
<1> QED
  BY <1>2 DEF cleanFunctions, cleanArrays

\* A DIE whose call returns is found by its id, and its class by name.
LEMMA HandlerBuilds ==
    ASSUME NEW d \in DieIds, NEW F
    PROVE  Builds(initSymbolFromDie(d), F, F \cup ReadNeeds(d))
<1> USE DEF Mutexes, Maps
<1>1. d \in Things /\ d \in Ids /\ d[1] \in DieClasses
  BY ThingsAre DEF DieIds
<1>2. CASE d[1] = "array"
  <2>1. Builds(Construct(d), F, F \cup {<<"id", d>>, <<"known", d>>} \cup {})
    BY <1>2, ConstructBuilds DEF NamedClasses
  <2>2. ReadNeeds(d) = {<<"known", d>>}
    BY <1>2 DEF ReadNeeds, NamedClasses, Unregistered
  <2>3. Builds(Construct(d), F, F \cup ReadNeeds(d))
    BY <2>1, <2>2, WeakerBuilds
  <2> QED
    BY <1>2, <2>3 DEF initSymbolFromDie
<1>3. CASE d[1] = "member"
  <2> DEFINE s == Decide("find_member", "memberNameMap", d)
  <2>1. s \in Steps /\ Lock("memberMutex") \in Steps
    BY <1>1, ThingsAre DEF Decide, Lock, S, Steps
  <2>2. Needs(s) = {} /\ Needs(Lock("memberMutex")) = {}
    BY DEF Decide, Lock, S, Needs
  <2>3. Builds(addMember(d), F, F)
    BY <2>1, <2>2, PairBuilds DEF addMember
  <2>4. F \cup ReadNeeds(d) = F
    BY <1>3 DEF ReadNeeds, Unregistered
  <2> QED
    BY <1>3, <2>3, <2>4 DEF initSymbolFromDie
<1>4. CASE d[1] = "enumerator"
  <2>1. Builds(<<Insert("enumValues", d)>>, F, F)
    BY <1>1, PlainBuilds DEF Published, Entries, AliasMaps
  <2>2. Builds(Guarded("enumMutex", <<Insert("enumValues", d)>>), F, F)
    BY <2>1, GuardedBuilds
  <2>3. Builds(addEnum(d), F, F)
    BY <2>2, ThingsAre, ThrowBuilds, ThenBuilds DEF addEnum
  <2>4. F \cup ReadNeeds(d) = F
    BY <1>4 DEF ReadNeeds, Unregistered
  <2> QED
    BY <1>4, <2>3, <2>4 DEF initSymbolFromDie
<1>6. CASE d[1] = "parameter"
  <2>1. Builds(MayThrow(Root) \o getID(Root), F, F)
    BY ThingsAre, ThrowBuilds, RegisterBuilds, ThenBuilds
  <2>2. F \cup ReadNeeds(d) = F
    BY <1>6 DEF ReadNeeds, Unregistered
  <2> QED
    BY <1>6, <2>1, <2>2 DEF initSymbolFromDie
<1>5. CASE d[1] \in NamedClasses
  <2> DEFINE s == Decide("lookup", NameIndex(d[1]), d)
  <2>1. NameIndex(d[1]) \in Maps
    BY <1>5 DEF NamedClasses, NameIndex
  <2>2. s \in Steps
    BY <1>1, <2>1 DEF Decide, S, Steps
  <2>3. Needs(s) = {} /\ Gives(s) = {<<"known", d>>, <<"class", d[1]>>}
    BY DEF Decide, S, Needs, Gives
  <2>4. Gives(s) = ReadNeeds(d)
    BY <1>5, <2>3 DEF ReadNeeds, NamedClasses, Unregistered
  <2> HIDE DEF s
  <2>5. Builds(<<s>>, F, F \cup ReadNeeds(d))
    BY <2>2, <2>3, <2>4, StepBuilds
  <2> QED
    BY <1>5, <2>5 DEF initSymbolFromDie, s, NamedClasses
<1> QED
  BY <1>1, <1>2, <1>3, <1>4, <1>5, <1>6 DEF DieClasses, NamedClasses

\* The return from a call for a DIE.
LEMMA ReturnBuilds ==
    ASSUME NEW d \in Ids, NEW F, ReadNeeds(d) \subseteq F
    PROVE  Builds(<<S("none", "return", "none", d)>>, F, F)
<1> DEFINE s == S("none", "return", "none", d)
<1>1. s \in Steps
  BY ThingsAre DEF S, Steps
<1>2. Needs(s) = ReadNeeds(d)
  BY DEF S, Needs
<1> HIDE DEF s
<1>3. Builds(<<s>>, F, F \cup Gives(s))
  BY <1>1, <1>2, StepBuilds
<1>4. Builds(<<s>>, F, F)
  BY <1>3, WeakerBuilds
<1> QED
  BY <1>4 DEF s

\* The loop of cleanFunctions and cleanArrays over registered symbols.
LEMMA MergeLoopBuilds ==
    ASSUME NEW list \in Lists, NEW old \in Ids, NEW left \in SUBSET Ids, NEW tmp \in SUBSET Ids,
           NEW F, {"id"} \X ({old} \cup left \cup tmp) \subseteq F
    PROVE  Builds(<<MergeLoop(list, old, left, tmp)>>, F, F)
<1> DEFINE s == MergeLoop(list, old, left, tmp)
<1>1. <<old, left, tmp>> \in Ids \X (SUBSET Ids) \X (SUBSET Ids)
  OBVIOUS
<1>2. s \in Steps
  BY <1>1 DEF MergeLoop, S, Steps, Things, Lists, Maps
<1>3. Needs(s) = {"id"} \X ({old} \cup left \cup tmp)
  BY DEF MergeLoop, S, Needs
<1> HIDE DEF s
<1>4. Builds(<<s>>, F, F \cup Gives(s))
  BY <1>2, <1>3, StepBuilds
<1>5. Builds(<<s>>, F, F)
  BY <1>4, WeakerBuilds
<1> QED
  BY <1>5 DEF s

\* The insertions of cleanArrays into arrayTypeMap.
LEMMA InsertionsBuild ==
    ASSUME NEW kept \in Seq(Ids), NEW F
    PROVE  Builds([i \in 1..Len(kept) |-> Insert("arrayTypeMap", kept[i])], F, F)
<1> DEFINE p == [i \in 1..Len(kept) |-> Insert("arrayTypeMap", kept[i])]
<1>1. Len(kept) \in Nat /\ "arrayTypeMap" \in Maps
      /\ \A i \in 1..Len(kept) : kept[i] \in Entries("arrayTypeMap")
  BY DEF Entries, AliasMaps, Maps
<1>2. ASSUME NEW i \in 1..Len(kept)
      PROVE  p[i] \in Steps /\ Needs(p[i]) = {}
  <2>1. p[i] = Insert("arrayTypeMap", kept[i])
    OBVIOUS
  <2>2. Insert("arrayTypeMap", kept[i]) \in Steps
    BY <1>1, InsertStep
  <2>3. Needs(Insert("arrayTypeMap", kept[i])) = {}
    BY DEF Needs, Insert, S, Published
  <2> QED
    BY <2>1, <2>2, <2>3
<1>3. p \in Seq(Steps) /\ Len(p) = Len(kept)
  <2>1. p \in [1..Len(kept) -> Steps]
    BY <1>2
  <2> QED
    BY <1>1, <2>1
<1> HIDE DEF p
<1>4. Builds(p, F, F)
  BY <1>2, <1>3 DEF Builds
<1> QED
  BY <1>4 DEF p

-----------------------------------------------------------------------------
(* Every step of a thread keeps what is known of the maps. *)

\* What the thread that takes a step can rely on, and what the rest of its
\* program starts from.
LEMMA StepBuilding ==
    ASSUME FactsInv, NEW t \in Threads, NEW op, At(t, op)
    PROVE  /\ Needs(Here(t)) \subseteq Facts
           /\ Builds(Rest(t), Facts \cup Gives(Here(t)), {})
<1>1. Builds(todo[t], Facts, {}) /\ todo[t] # <<>>
  BY DEF FactsInv, At
<1> QED
  BY <1>1, FirstBuilds DEF Here, Rest

\* Only insertions and what a lookup turns into establish anything.
LEMMA RestBuilds ==
    ASSUME FactsInv, NEW t \in Threads, NEW op, At(t, op), op \notin {"insert", "lookup"}
    PROVE  Builds(Rest(t), Facts, {})
<1>1. PICK s : s = Here(t)
  OBVIOUS
<1>2. s.op = op /\ Builds(Rest(t), Facts \cup Gives(s), {})
  BY <1>1, StepBuilding DEF At
<1>3. Gives(s) = {}
  BY <1>2 DEF Gives
<1>4. Facts \cup Gives(s) = Facts
  BY <1>3
<1> QED
  BY <1>2, <1>4

\* Facts stay when maps grow, and when a property has nothing left to promise.
LEMMA FactsGrow ==
    ASSUME LocksInv, lost \subseteq lost', missed \subseteq missed', removed \subseteq removed',
           data["symbolIDAliasMap"] \subseteq data'["symbolIDAliasMap"],
           \A map \in Indexes : data[map] \subseteq data'[map] \/ map \in lost',
           \/ data["symbolIDMap"] \subseteq data'["symbolIDMap"]
           \/ removed' # {} \/ "symbolIDMap" \in lost'
    PROVE  Facts \subseteq Facts'
<1>1. /\ data["symbolIDMap"] \subseteq Ids /\ data["symbolIDAliasMap"] \subseteq Ids \X Ids
  BY DEF LocksInv, DataOK, Entries, AliasMaps, Maps
<1>2. Intact' => Intact /\ data["symbolIDMap"] \subseteq data'["symbolIDMap"]
  BY DEF Intact
<1>3. Registered \subseteq Registered'
  BY <1>1, <1>2 DEF Registered
<1>4. Aliased \subseteq Aliased'
  <2>1. Aliased \subseteq Ids
    BY <1>1 DEF Aliased
  <2>2. Intact' => Aliased \subseteq {x[1] : x \in data'["symbolIDAliasMap"]}
    BY <1>1, <1>2 DEF Aliased
  <2> QED
    BY <2>1, <2>2 DEF Aliased
<1>5. Indexed \subseteq Indexed'
  <2>1. \A c \in NamedClasses : NameIndex(c) \in Indexes
    BY DEF NamedClasses, NameIndex, Indexes
  <2> SUFFICES ASSUME NEW c \in Indexed PROVE c \in Indexed'
    OBVIOUS
  <2>2. c \in NamedClasses /\ (NameIndex(c) \in lost \/ \E s \in data[NameIndex(c)] : s[1] = c)
    BY DEF Indexed
  <2>3. NameIndex(c) \in lost' \/ \E s \in data'[NameIndex(c)] : s[1] = c
    BY <2>1, <2>2
  <2> QED
    BY <2>2, <2>3 DEF Indexed
<1>6. (IF Intact THEN {} ELSE Ids) \subseteq (IF Intact' THEN {} ELSE Ids)
  BY <1>2
<1> QED
  BY <1>3, <1>4, <1>5, <1>6 DEF Facts

\* The parts of the invariant that are left to show when a thread goes on.
LEMMA FactsKept ==
    ASSUME FactsInv, LocksInv', NEW t \in Threads, NEW p, Go(t, p), Facts \subseteq Facts',
           Builds(p, Facts', {}), PublishedOK', FinishedFound', NoLateDuplicate',
           finished \subseteq finished', \A d \in finished' \ finished : ReadNeeds(d) \subseteq Facts'
    PROVE  FactsInv'
<1>1. FinishedOK'
  BY DEF FactsInv, FinishedOK
<1>2. \A u \in Threads : todo'[u] = IF u = t THEN p ELSE todo[u]
  BY DEF Go, FactsInv, LocksInv, ProgramsOK
<1>3. \A u \in Threads : Builds(todo[u], Facts, {})
  BY DEF FactsInv
<1>4. \A u \in Threads : Builds(todo[u], Facts', {})
  BY <1>3, WeakerBuilds
<1>5. \A u \in Threads : Builds(todo'[u], Facts', {})
  BY <1>2, <1>4
<1> QED
  BY <1>1, <1>5 DEF FactsInv

\* Steps that change no map; a search may have missed an entry.
LEMMA SameFacts ==
    ASSUME FactsInv, UNCHANGED <<data, removed, lost>>, missed \subseteq missed'
    PROVE  Facts \subseteq Facts' /\ PublishedOK'
<1>1. Facts \subseteq Facts'
  BY FactsGrow DEF FactsInv
<1> QED
  BY <1>1 DEF FactsInv, PublishedOK

\* Steps that change only the program and the mutexes.
LEMMA ProgramFacts ==
    ASSUME FactsInv, LocksInv', NEW t \in Threads, NEW p, Go(t, p),
           Builds(p, Facts, {}) \/ Builds(p, Facts', {}),
           UNCHANGED <<dataVars, finished, repeated, aborted>>, missed \subseteq missed'
    PROVE  FactsInv'
<1>1. UNCHANGED <<data, removed, lost>>
  BY DEF dataVars
<1>2. Facts \subseteq Facts' /\ PublishedOK'
  BY <1>1, SameFacts
<1>3. FinishedFound' /\ NoLateDuplicate'
  BY <1>1 DEF FactsInv, FinishedFound, NoLateDuplicate
<1>4. Builds(p, Facts', {})
  BY <1>2, WeakerBuilds
<1> QED
  BY <1>2, <1>3, <1>4, FactsKept

\* The empty program relies on nothing.
LEMMA DoneBuilds ==
    ASSUME NEW F
    PROVE  Builds(<<>>, F, {})
BY NothingBuilds, WeakerBuilds

\* Taking and giving back a mutex, reading, and an exception.
LEMMA QuietFacts ==
    ASSUME FactsInv, LocksInv', NEW t \in Threads, Acquire(t) \/ Release(t) \/ Skip(t) \/ Throw(t)
    PROVE  FactsInv'
<1>1. CASE Acquire(t)
  BY <1>1, RestBuilds, ProgramFacts DEF Acquire, callVars, failVars
<1>2. CASE Release(t)
  BY <1>2, RestBuilds, ProgramFacts DEF Release, callVars, failVars
<1>3. CASE Skip(t)
  BY <1>3, RestBuilds, ProgramFacts DEF Skip, OnlyProgram, callVars, failVars
<1>4. CASE Throw(t)
  BY <1>4, DoneBuilds, ProgramFacts DEF Throw, callVars
<1> QED
  BY <1>1, <1>2, <1>3, <1>4

\* A call returns for a DIE that is found from now on.
LEMMA ReturnFacts ==
    ASSUME FactsInv, LocksInv', NEW t \in Threads, Return(t)
    PROVE  FactsInv'
<1>1. PICK s : s = Here(t)
  OBVIOUS
<1>2. s.op = "return" /\ Needs(s) \subseteq Facts
  BY <1>1, StepBuilding DEF Return, At
<1>3. ReadNeeds(s.die) \subseteq Facts
  BY <1>2 DEF Needs
<1>4. /\ UNCHANGED <<data, removed, lost, missed, repeated, aborted>>
      /\ finished' = finished \cup {s.die}
  BY <1>1 DEF Return, dataVars, failVars
<1>5. Facts \subseteq Facts' /\ PublishedOK'
  BY <1>4, SameFacts
<1>6. FinishedFound' /\ NoLateDuplicate'
  BY <1>4 DEF FactsInv, FinishedFound, NoLateDuplicate
<1>7. Go(t, <<>>)
  BY DEF Return
<1> QED
  BY <1>3, <1>4, <1>5, <1>6, <1>7, DoneBuilds, FactsKept

\* An insertion establishes what it promises, and one that is lost leaves
\* nothing to promise.
LEMMA InsertGives ==
    ASSUME FactsInv, NEW t \in Threads, DoInsert(t)
    PROVE  Facts \subseteq Facts' /\ Gives(Here(t)) \subseteq Facts'
<1>1. PICK s : s = Here(t)
  OBVIOUS
<1>2. PICK x : x = s.die
  OBVIOUS
<1>3. /\ s.op = "insert" /\ s.kind = "write" /\ s.on \in Maps /\ x \in Entries(s.on)
      /\ todo[t] # <<>> /\ LocksInv
  BY <1>1, <1>2, StepFacts DEF DoInsert, StepOK, FactsInv
<1>4. /\ data \in [Maps -> SUBSET (Ids \cup (Ids \X Ids))] /\ UNCHANGED <<removed, missed>>
      /\ \/ data' = [data EXCEPT ![s.on] = @ \cup {x}] /\ lost' = lost
         \/ /\ Racing(t, s.on) /\ lost' = lost \cup {s.on}
            /\ \E y : data' = [data EXCEPT ![s.on] = y]
  <2>1. PICK all : all = data[s.on] \cup {x}
    OBVIOUS
  <2>2. \/ data' = [data EXCEPT ![s.on] = all] /\ lost' = lost
        \/ /\ Racing(t, s.on) /\ lost' = lost \cup {s.on}
           /\ \E y : data' = [data EXCEPT ![s.on] = y]
    BY <1>1, <1>2, <2>1 DEF DoInsert
  <2>3. data' = [data EXCEPT ![s.on] = all] => data' = [data EXCEPT ![s.on] = @ \cup {x}]
    BY <2>1
  <2> QED
    BY <1>3, <2>2, <2>3 DEF DoInsert, LocksInv, DataOK
<1>5. \A map \in Maps : data[map] \subseteq data'[map] \/ (map = s.on /\ map \in lost' /\ Racing(t, map))
  BY <1>3, <1>4
<1>6. ~Racing(t, "symbolIDAliasMap") \/ s.on # "symbolIDAliasMap"
  <2>1. s.on = "symbolIDAliasMap" => Writing(t, "symbolIDAliasMap")
    BY <1>1, <1>3 DEF Writing, Touching
  <2> QED
    BY <1>3, <2>1, NoRace DEF GuardedRaceFree
<1>7. lost \subseteq lost' /\ data["symbolIDAliasMap"] \subseteq data'["symbolIDAliasMap"]
  BY <1>4, <1>5, <1>6 DEF Maps
<1>8. Facts \subseteq Facts'
  <2>1. \A map \in Indexes : data[map] \subseteq data'[map] \/ map \in lost'
    BY <1>5 DEF Maps, Indexes
  <2>2. data["symbolIDMap"] \subseteq data'["symbolIDMap"] \/ "symbolIDMap" \in lost'
    BY <1>5 DEF Maps
  <2> QED
    BY <1>3, <1>4, <1>7, <2>1, <2>2, FactsGrow
<1>9. x \in data'[s.on] \/ (s.on \in lost' /\ Racing(t, s.on))
  BY <1>3, <1>4
<1>10. CASE s.on = "symbolIDMap"
  <2>1. Gives(s) = {<<"id", x>>, <<"known", x>>}
    BY <1>2, <1>3, <1>10, InsertMeans
  <2>2. x \in Ids
    BY <1>3, <1>10 DEF Entries, AliasMaps
  <2>3. x \in Registered'
    BY <1>9, <1>10, <2>2 DEF Registered, Intact
  <2> QED
    BY <1>1, <1>8, <2>1, <2>3 DEF Facts
<1>11. CASE s.on = "symbolIDAliasMap"
  <2>1. Gives(s) = {<<"alias", x[1]>>, <<"known", x[1]>>}
    BY <1>2, <1>3, <1>11, InsertMeans
  <2>3. x \in data'["symbolIDAliasMap"] /\ x[1] \in Ids
    BY <1>3, <1>6, <1>9, <1>11 DEF Entries, AliasMaps
  <2>4. x[1] \in Aliased'
    BY <2>3 DEF Aliased
  <2> QED
    BY <1>1, <1>8, <2>1, <2>4 DEF Facts
<1>12. CASE s.on \in Indexes
  <2>1. Gives(s) = {<<"class", c>> : c \in {y \in NamedClasses : y = x[1] /\ s.on = NameIndex(y)}}
    BY <1>2, <1>3, <1>12, InsertMeans
  <2>2. ASSUME NEW y \in NamedClasses, y = x[1], s.on = NameIndex(y)
        PROVE  y \in Indexed'
    <3>1. x \in data'[NameIndex(y)] \/ NameIndex(y) \in lost'
      BY <1>9, <2>2
    <3> QED
      BY <2>2, <3>1 DEF Indexed
  <2>3. Gives(s) \subseteq {"class"} \X Indexed'
    BY <2>1, <2>2
  <2> QED
    BY <1>1, <1>8, <2>3 DEF Facts
<1>13. CASE s.on \notin {"symbolIDMap", "symbolIDAliasMap"} \cup Indexes
  <2>1. Gives(s) = {}
    BY <1>3, <1>13 DEF Gives
  <2> QED
    BY <1>1, <1>8, <2>1
<1> QED
  BY <1>10, <1>11, <1>12, <1>13

\* An insertion publishes only what is registered.
LEMMA InsertFacts ==
    ASSUME FactsInv, LocksInv', NEW t \in Threads, DoInsert(t)
    PROVE  FactsInv'
<1>1. PICK s : s = Here(t)
  OBVIOUS
<1>2. PICK x : x = s.die
  OBVIOUS
<1>3. s.op = "insert" /\ s.on \in Maps
  BY <1>1, StepFacts DEF DoInsert, StepOK, FactsInv
<1>4. /\ Needs(s) \subseteq Facts /\ Builds(Rest(t), Facts \cup Gives(s), {})
      /\ Facts \subseteq Facts' /\ Gives(s) \subseteq Facts'
  BY <1>1, StepBuilding, InsertGives DEF DoInsert
<1>5. Builds(Rest(t), Facts', {})
  <2>1. Facts \cup Gives(s) \subseteq Facts'
    BY <1>4
  <2> QED
    BY <1>4, <2>1, WeakerBuilds
<1>6. \A map \in Maps : data'[map] \subseteq data[map]
                         \/ (map = s.on /\ data'[map] \subseteq data[map] \cup {x})
  <2>1. data \in [Maps -> SUBSET (Ids \cup (Ids \X Ids))]
    BY DEF FactsInv, LocksInv, DataOK
  <2>2. PICK all : all = data[s.on] \cup {x}
    OBVIOUS
  <2>3. \E y \in SUBSET all : data' = [data EXCEPT ![s.on] = y]
    <3>1. \/ data' = [data EXCEPT ![s.on] = all]
          \/ \E y \in all : data' = [data EXCEPT ![s.on] = all \ {y}]
      BY <1>1, <1>2, <2>2 DEF DoInsert
    <3> QED
      BY <3>1
  <2> QED
    BY <1>3, <2>1, <2>2, <2>3
<1>7. PublishedOK'
  <2>1. ASSUME NEW map \in Published, NEW d \in data'[map]
        PROVE  <<"id", d>> \in Facts'
    <3>1. CASE d \in data[map]
      BY <1>4, <3>1 DEF FactsInv, PublishedOK
    <3>2. CASE d \notin data[map]
      <4>1. map = s.on /\ d = x
        BY <1>6, <2>1, <3>2 DEF Published, Maps
      <4>2. <<"id", x>> \in Needs(s)
        BY <1>2, <1>3, <4>1, InsertMeans
      <4> QED
        BY <1>4, <4>1, <4>2
    <3> QED
      BY <3>1, <3>2
  <2>2. ASSUME NEW a \in data'["symbolIDAliasMap"]
        PROVE  <<"id", a[2]>> \in Facts'
    <3>1. CASE a \in data["symbolIDAliasMap"]
      BY <1>4, <3>1 DEF FactsInv, PublishedOK
    <3>2. CASE a \notin data["symbolIDAliasMap"]
      <4>1. "symbolIDAliasMap" = s.on /\ a = x
        BY <1>6, <2>2, <3>2 DEF Maps
      <4>2. <<"id", x[2]>> \in Needs(s)
        BY <1>2, <1>3, <4>1, InsertMeans
      <4> QED
        BY <1>4, <4>1, <4>2
    <3> QED
      BY <3>1, <3>2
  <2> QED
    BY <2>1, <2>2 DEF PublishedOK
<1>8. /\ UNCHANGED <<finished, repeated, removed, missed, aborted>> /\ Go(t, Rest(t))
      /\ lost \subseteq lost'
  BY DEF DoInsert, callVars, failVars
<1>9. FinishedFound' /\ NoLateDuplicate'
  BY <1>8 DEF FactsInv, FinishedFound, NoLateDuplicate
<1> QED
  BY <1>4, <1>5, <1>7, <1>8, <1>9, FactsKept

\* removeSymbol takes a symbol out, after which nothing is promised.
LEMMA EraseFacts ==
    ASSUME FactsInv, LocksInv', NEW t \in Threads, DoErase(t)
    PROVE  FactsInv'
<1>1. PICK x : x = Here(t).die
  OBVIOUS
<1>2. /\ data' = [data EXCEPT !["symbolIDMap"] = @ \ {x}] /\ removed' = removed \cup {x}
      /\ UNCHANGED <<lost, missed, finished, repeated, aborted>> /\ Go(t, Rest(t))
  BY <1>1 DEF DoErase, callVars, failVars
<1>3. LocksInv /\ data \in [Maps -> SUBSET (Ids \cup (Ids \X Ids))]
  BY DEF FactsInv, LocksInv, DataOK
<1>4. \A map \in Maps \ {"symbolIDMap"} : data'[map] = data[map]
  BY <1>2, <1>3
<1>5. Facts \subseteq Facts'
  <2>1. \A map \in Indexes \cup {"symbolIDAliasMap"} : data[map] \subseteq data'[map]
    BY <1>4 DEF Indexes, Maps
  <2>2. removed' # {} /\ removed \subseteq removed'
    BY <1>2
  <2> QED
    BY <1>2, <1>3, <2>1, <2>2, FactsGrow
<1>6. Builds(Rest(t), Facts, {})
  BY RestBuilds DEF DoErase
<1>7. Builds(Rest(t), Facts', {})
  BY <1>5, <1>6, WeakerBuilds
<1>8. PublishedOK'
  <2>1. \A map \in Published \cup {"symbolIDAliasMap"} : data'[map] = data[map]
    BY <1>4 DEF Published, Maps
  <2> QED
    BY <1>5, <2>1 DEF FactsInv, PublishedOK
<1>9. FinishedFound' /\ NoLateDuplicate'
  BY <1>2 DEF FactsInv, FinishedFound, NoLateDuplicate
<1> QED
  BY <1>2, <1>5, <1>7, <1>8, <1>9, FactsKept

\* A lookup constructs a symbol only when no DIE of its class was read to the
\* end, or an index lost one.
LEMMA LookupFacts ==
    ASSUME FactsInv, LocksInv', NEW t \in Threads, Lookup(t)
    PROVE  FactsInv'
<1>1. PICK s : s = Here(t)
  OBVIOUS
<1>2. PICK d : d = s.die
  OBVIOUS
<1> DEFINE known == {x \in data[s.on] : x[1] = d[1]}
<1>3. /\ s.op = "lookup" /\ d \in DieIds /\ d[1] \in NamedClasses /\ s.on = NameIndex(d[1])
      /\ d \in Ids
  BY <1>1, <1>2, StepFacts, ThingsAre DEF Lookup, StepOK, FactsInv
<1>4. Builds(Rest(t), Facts \cup {<<"known", d>>, <<"class", d[1]>>}, {})
  <2>1. Builds(Rest(t), Facts \cup Gives(s), {})
    BY <1>1, StepBuilding DEF Lookup
  <2>2. Gives(s) = {<<"known", d>>, <<"class", d[1]>>}
    BY <1>2, <1>3 DEF Gives
  <2> QED
    BY <2>1, <2>2
<1>5. UNCHANGED <<data, removed, lost, finished, aborted>> /\ missed \subseteq missed'
  BY DEF Lookup, Misses, dataVars, failVars
<1>6. Facts \subseteq Facts' /\ PublishedOK' /\ FinishedFound'
  BY <1>5, SameFacts DEF FactsInv, FinishedFound
<1>7. s.on \in Published /\ s.on \in Maps
  BY <1>3 DEF NamedClasses, NameIndex, Published, Maps
<1>8. ASSUME known = {} \/ s.on \in missed', Go(t, Construct(d) \o Rest(t)),
             repeated' = IF \E x \in finished : x[1] = d[1] THEN repeated \cup {d} ELSE repeated
      PROVE  FactsInv'
  <2> DEFINE G == Facts \cup {<<"id", d>>, <<"known", d>>} \cup {<<"class", d[1]>>}
  <2>1. Builds(Construct(d), Facts, G)
    BY <1>3, ConstructBuilds
  <2>2. Facts \cup {<<"known", d>>, <<"class", d[1]>>} \subseteq G
    OBVIOUS
  <2>3. Builds(Rest(t), G, {})
    BY <1>4, <2>2, WeakerBuilds
  <2> HIDE DEF G
  <2>4. Builds(Construct(d) \o Rest(t), Facts', {})
    BY <1>6, <2>1, <2>3, ThenBuilds, WeakerBuilds
  <2>5. NoLateDuplicate'
    <3>1. ASSUME NEW x \in finished, x[1] = d[1]
          PROVE  NameIndex(d[1]) \in lost' \cup missed'
      <4>1. <<"class", d[1]>> \in ReadNeeds(x)
        BY <1>3, <3>1 DEF ReadNeeds, NamedClasses, Unregistered
      <4>2. <<"class", d[1]>> \in Facts
        BY <4>1 DEF FactsInv, FinishedOK
      <4>3. d[1] \in Indexed
        BY <4>2 DEF Facts
      <4> QED
        BY <1>3, <1>5, <1>8, <4>3 DEF Indexed
    <3> QED
      BY <1>5, <1>8, <3>1 DEF FactsInv, NoLateDuplicate
  <2> QED
    BY <1>5, <1>6, <1>8, <2>4, <2>5, FactsKept
<1>9. ASSUME NEW x \in known,
             Go(t, MayThrow(Root) \o getID(d) \o addAlternativeID(x, d) \o Rest(t)),
             repeated' = repeated
      PROVE  FactsInv'
  <2> DEFINE G == Facts \cup {<<"alias", d>>, <<"known", d>>}
  <2>1. <<"id", x>> \in Facts
    BY <1>7 DEF FactsInv, PublishedOK
  <2>2. x \in Ids
    <3>1. s.on \notin AliasMaps
      BY <1>3 DEF NamedClasses, NameIndex, AliasMaps
    <3> QED
      BY <1>7, <3>1 DEF FactsInv, LocksInv, DataOK, Entries
  <2>3. Builds(getID(d), Facts, Facts) /\ Builds(addAlternativeID(x, d), Facts, G)
    BY <1>3, <2>1, <2>2, RegisterBuilds, AliasBuilds
  <2>4. <<"class", d[1]>> \in Facts
    <3>1. d[1] \in Indexed
      BY <1>3 DEF Indexed
    <3> QED
      BY <3>1 DEF Facts
  <2>5. Facts \cup {<<"known", d>>, <<"class", d[1]>>} \subseteq G
    BY <2>4
  <2>6. Builds(Rest(t), G, {})
    BY <1>4, <2>5, WeakerBuilds
  <2> HIDE DEF G
  <2>7. Builds(MayThrow(Root) \o getID(d) \o addAlternativeID(x, d), Facts, G)
    <3>1. Builds(MayThrow(Root) \o getID(d), Facts, Facts)
      BY <2>3, ThingsAre, ThrowBuilds, ThenBuilds
    <3> QED
      BY <2>3, <3>1, ThenBuilds
  <2>8. Builds(MayThrow(Root) \o getID(d) \o addAlternativeID(x, d) \o Rest(t), Facts', {})
    BY <1>6, <2>6, <2>7, ThenBuilds, WeakerBuilds
  <2>9. NoLateDuplicate'
    BY <1>5, <1>9 DEF FactsInv, NoLateDuplicate
  <2> QED
    BY <1>5, <1>6, <1>9, <2>8, <2>9, FactsKept
<1> QED
  BY <1>1, <1>2, <1>8, <1>9 DEF Lookup, Misses

\* addFunction after its look into functionNameMap.
LEMMA NameFreeFacts ==
    ASSUME FactsInv, LocksInv', NEW t \in Threads, NameFree(t)
    PROVE  FactsInv'
<1>1. PICK d : d = Here(t).die
  OBVIOUS
<1> DEFINE p == Guarded("functionNameMapMutex", <<Insert("functionNameMap", d)>>)
<1>2. d \in Ids
  BY <1>1, StepFacts DEF NameFree, StepOK, FactsInv
<1>3. Builds(Rest(t), Facts, {})
  BY RestBuilds DEF NameFree
<1>4. Builds(p, Facts, Facts)
  <2>1. Builds(<<Insert("functionNameMap", d)>>, Facts, Facts)
    BY <1>2, PlainBuilds DEF Published, Entries, AliasMaps, Maps
  <2> QED
    BY <2>1, GuardedBuilds DEF Mutexes
<1>5. Go(t, Rest(t)) \/ Go(t, p \o Rest(t))
  BY <1>1 DEF NameFree
<1> HIDE DEF p
<1>6. Builds(p \o Rest(t), Facts, {})
  BY <1>3, <1>4, ThenBuilds
<1> QED
  BY <1>3, <1>5, <1>6, ProgramFacts DEF NameFree, Misses, OnlyProgram, callVars, failVars

\* Structured::addMember after its look into the member map.
LEMMA FindMemberFacts ==
    ASSUME FactsInv, LocksInv', NEW t \in Threads, FindMember(t)
    PROVE  FactsInv'
<1>1. PICK d : d = Here(t).die
  OBVIOUS
<1> DEFINE end == <<Insert("memberNameMap", d), Unlock("memberMutex")>>
<1>2. d \in DieIds /\ d[1] = "member" /\ d \in Ids
  BY <1>1, StepFacts, ThingsAre DEF FindMember, StepOK, FactsInv
<1>3. Builds(Rest(t), Facts, {})
  BY RestBuilds DEF FindMember
<1>4. Builds(Construct(d), Facts, Facts)
  <2>1. Builds(Construct(d), Facts,
               Facts \cup {<<"id", d>>, <<"known", d>>}
                  \cup (IF d[1] \in NamedClasses THEN {<<"class", d[1]>>} ELSE {}))
    BY <1>2, ConstructBuilds
  <2> QED
    BY <2>1, WeakerBuilds
<1>5. Builds(end, Facts, Facts)
  <2>1. Insert("memberNameMap", d) \in Steps /\ Unlock("memberMutex") \in Steps
    BY <1>2, ThingsAre, InsertStep DEF Unlock, S, Steps, Mutexes, Maps, Entries, AliasMaps
  <2>2. Needs(Insert("memberNameMap", d)) = {} /\ Needs(Unlock("memberMutex")) = {}
    BY DEF Needs, Insert, Unlock, S, Published
  <2> QED
    BY <2>1, <2>2, PairBuilds
<1>6. Builds(<<Unlock("memberMutex")>>, Facts, Facts)
  BY UnlockBuilds DEF Mutexes
<1>7. \/ Go(t, Construct(d) \o end \o Rest(t))
      \/ Go(t, <<Unlock("memberMutex")>> \o Rest(t))
  BY <1>1 DEF FindMember
<1> HIDE DEF end
<1>8. Builds(Construct(d) \o end, Facts, Facts)
  BY <1>4, <1>5, ThenBuilds
<1>9. /\ Builds(Construct(d) \o end \o Rest(t), Facts, {})
      /\ Builds(<<Unlock("memberMutex")>> \o Rest(t), Facts, {})
  BY <1>3, <1>6, <1>8, ThenBuilds
<1> QED
  BY <1>7, <1>9, ProgramFacts DEF FindMember, Misses, OnlyProgram, callVars, failVars

\* What the facts say of the maps.
LEMMA FactsMean ==
    ASSUME NEW d
    PROVE  /\ <<"id", d>> \in Facts <=> d \in Registered
           /\ <<"alias", d>> \in Facts <=> d \in Aliased
           /\ <<"known", d>> \in Facts <=> d \in Registered \cup Aliased
           /\ <<"fail", d>> \in Facts <=> d \in (IF Intact THEN {} ELSE Ids)
BY DEF Facts

\* A search keeps the facts, and may leave nothing to promise.
LEMMA SearchFactsGrow ==
    ASSUME FactsInv, NEW t \in Threads, FindSymbol(t) \/ FindAlias(t) \/ UseAlias(t) \/ FindTarget(t)
    PROVE  /\ Facts \subseteq Facts'
           /\ UNCHANGED <<dataVars, finished, repeated, aborted>>
           /\ missed \subseteq missed'
<1>1. UNCHANGED <<dataVars, finished, repeated, aborted>> /\ missed \subseteq missed'
  BY DEF FindSymbol, FindAlias, UseAlias, FindTarget, Misses, OnlyProgram, callVars, failVars
<1>2. UNCHANGED <<data, removed, lost>>
  BY <1>1 DEF dataVars
<1> QED
  BY <1>1, <1>2, SameFacts

\* A DIE that is known but not in the id map has an alias.
LEMMA FindSymbolFacts ==
    ASSUME FactsInv, LocksInv', NEW t \in Threads, FindSymbol(t)
    PROVE  FactsInv'
<1>1. PICK d : d = Here(t).die
  OBVIOUS
<1> DEFINE u == Follow("symbolIDMapMutex", "symbolIDMap")
           q == <<Lock("symbolIDAliasMapMutex"), Decide("find_alias", "symbolIDAliasMap", d)>>
<1>2. PICK s : s = Here(t)
  OBVIOUS
<1>3. d \in Ids /\ <<"known", d>> \in Facts
  <2>1. s.op = "find_symbol" /\ StepOK(s, Mine(t)) /\ Needs(s) \subseteq Facts
    BY <1>2, StepFacts, StepBuilding DEF FindSymbol, FactsInv
  <2> QED
    BY <1>1, <1>2, <2>1 DEF StepOK, Needs
<1>4. s.on = "symbolIDMap"
  BY <1>2, StepFacts DEF FindSymbol, FactsInv, StepOK
<1>5. /\ Facts \subseteq Facts' /\ missed \subseteq missed'
      /\ UNCHANGED <<dataVars, finished, repeated, aborted>>
  BY SearchFactsGrow
<1>6. \/ /\ d \notin data["symbolIDMap"] \/ "symbolIDMap" \in missed'
         /\ Go(t, u \o q \o Rest(t))
      \/ Go(t, u \o Rest(t))
  BY <1>1, <1>2, <1>4 DEF FindSymbol, Misses
<1>7. Builds(Rest(t), Facts, {})
  BY RestBuilds DEF FindSymbol
<1>8. \A F : Builds(u, F, F)
  BY <1>3, FindBuilds DEF Mutexes, Maps
<1>9. CASE Go(t, u \o Rest(t))
  <2>1. Builds(u \o Rest(t), Facts, {})
    BY <1>7, <1>8, ThenBuilds
  <2> QED
    BY <1>5, <1>9, <2>1, ProgramFacts
<1>10. CASE /\ d \notin data["symbolIDMap"] \/ "symbolIDMap" \in missed'
            /\ Go(t, u \o q \o Rest(t))
  <2>1. <<"alias", d>> \in Facts'
    <3>1. CASE d \notin data["symbolIDMap"]
      BY <1>3, <1>5, <3>1, FactsMean DEF Registered, Aliased
    <3>2. CASE "symbolIDMap" \in missed'
      <4>1. d \in Aliased'
        BY <1>3, <3>2 DEF Aliased, Intact
      <4> QED
        BY <4>1 DEF Facts
    <3> QED
      BY <1>10, <3>1, <3>2
  <2>2. Builds(q, Facts', Facts')
    BY <1>3, <2>1, FindBuilds
  <2>3. Builds(Rest(t), Facts', {})
    BY <1>5, <1>7, WeakerBuilds
  <2> HIDE DEF u, q
  <2>4. Builds(u \o q, Facts', Facts')
    BY <1>8, <2>2, ThenBuilds
  <2>5. Builds(u \o q \o Rest(t), Facts', {})
    BY <2>3, <2>4, ThenBuilds
  <2> QED
    BY <1>5, <1>10, <2>5, ProgramFacts
<1> QED
  BY <1>6, <1>9, <1>10

\* A search of the alias map, which nobody else writes at that time, misses
\* nothing.
LEMMA FindAliasFacts ==
    ASSUME FactsInv, LocksInv', NEW t \in Threads, FindAlias(t)
    PROVE  FactsInv'
<1>1. PICK d : d = Here(t).die
  OBVIOUS
<1> DEFINE u == Follow("symbolIDAliasMapMutex", "symbolIDAliasMap")
           use == <<Unlock("symbolIDAliasMapMutex"), Decide("use_alias", "symbolIDAliasMap", d)>>
<1>2. PICK s : s = Here(t)
  OBVIOUS
<1>3. /\ d \in Ids /\ <<"alias", d>> \in Facts /\ s.on = "symbolIDAliasMap"
      /\ "symbolIDAliasMapMutex" \in Mine(t)
  <2>1. s.op = "find_alias" /\ StepOK(s, Mine(t)) /\ Needs(s) \subseteq Facts
    BY <1>2, StepFacts, StepBuilding DEF FindAlias, FactsInv
  <2> QED
    BY <1>1, <1>2, <2>1 DEF StepOK, Needs
<1>4. ~Racing(t, "symbolIDAliasMap")
  BY <1>3, OwnedQuiet DEF FactsInv, Mine, Held, WriteGuardedMaps, Guard
<1>5. /\ Facts \subseteq Facts' /\ missed \subseteq missed'
      /\ UNCHANGED <<dataVars, finished, repeated, aborted>>
  BY SearchFactsGrow
<1>6. \/ /\ {x \in data["symbolIDAliasMap"] : x[1] = d} = {}
         /\ Go(t, u \o NotFound(d))
      \/ Go(t, use \o Rest(t))
  BY <1>1, <1>2, <1>3, <1>4 DEF FindAlias, Misses
<1>7. Builds(Rest(t), Facts, {})
  BY RestBuilds DEF FindAlias
<1>8. Builds(u, Facts, Facts) /\ Builds(use, Facts, Facts)
  BY <1>3, FindBuilds DEF Mutexes, Maps
<1>9. CASE /\ {x \in data["symbolIDAliasMap"] : x[1] = d} = {}
           /\ Go(t, u \o NotFound(d))
  <2>1. ~Intact
    BY <1>3, <1>9, FactsMean DEF Aliased
  <2>2. Builds(NotFound(d), Facts, Facts)
    BY <1>3, <2>1, FactsMean, FindBuilds
  <2>3. Builds(NotFound(d), Facts, {})
    BY <2>2, WeakerBuilds
  <2>4. Builds(u \o NotFound(d), Facts, {})
    BY <1>8, <2>3, ThenBuilds
  <2> QED
    BY <1>5, <1>9, <2>4, ProgramFacts
<1>10. CASE Go(t, use \o Rest(t))
  <2>1. Builds(use \o Rest(t), Facts, {})
    BY <1>7, <1>8, ThenBuilds
  <2> QED
    BY <1>5, <1>10, <2>1, ProgramFacts
<1> QED
  BY <1>6, <1>9, <1>10

\* An alias leads to an id that is registered.
LEMMA UseAliasFacts ==
    ASSUME FactsInv, LocksInv', NEW t \in Threads, UseAlias(t)
    PROVE  FactsInv'
<1>1. PICK x \in data["symbolIDAliasMap"] :
         Go(t, <<Lock("symbolIDMapMutex"), Decide("find_target", "symbolIDMap", x[2])>> \o Rest(t))
  BY DEF UseAlias
<1>2. x[2] \in Ids /\ <<"id", x[2]>> \in Facts
  <2>1. data["symbolIDAliasMap"] \subseteq Ids \X Ids
    BY DEF FactsInv, LocksInv, DataOK, Maps, Entries, AliasMaps
  <2> QED
    BY <2>1 DEF FactsInv, PublishedOK
<1>3. Builds(<<Lock("symbolIDMapMutex"), Decide("find_target", "symbolIDMap", x[2])>>, Facts, Facts)
  BY <1>2, FindBuilds
<1>4. Builds(Rest(t), Facts, {})
  BY RestBuilds DEF UseAlias
<1>5. Builds(<<Lock("symbolIDMapMutex"), Decide("find_target", "symbolIDMap", x[2])>> \o Rest(t),
             Facts, {})
  BY <1>3, <1>4, ThenBuilds
<1> QED
  BY <1>1, <1>5, SearchFactsGrow, ProgramFacts

\* A registered id is found, unless the search races with a write.
LEMMA FindTargetFacts ==
    ASSUME FactsInv, LocksInv', NEW t \in Threads, FindTarget(t)
    PROVE  FactsInv'
<1>1. PICK d : d = Here(t).die
  OBVIOUS
<1> DEFINE u == Follow("symbolIDMapMutex", "symbolIDMap")
<1>2. PICK s : s = Here(t)
  OBVIOUS
<1>3. d \in Ids /\ <<"id", d>> \in Facts /\ s.on = "symbolIDMap"
  <2>1. s.op = "find_target" /\ StepOK(s, Mine(t)) /\ Needs(s) \subseteq Facts
    BY <1>2, StepFacts, StepBuilding DEF FindTarget, FactsInv
  <2> QED
    BY <1>1, <1>2, <2>1 DEF StepOK, Needs
<1>4. /\ Facts \subseteq Facts' /\ missed \subseteq missed'
      /\ UNCHANGED <<dataVars, finished, repeated, aborted>>
  BY SearchFactsGrow
<1>5. \/ /\ d \notin data["symbolIDMap"] \/ "symbolIDMap" \in missed'
         /\ Go(t, u \o NotFound(d))
      \/ Go(t, u \o Rest(t))
  BY <1>1, <1>2, <1>3 DEF FindTarget, Misses
<1>6. Builds(Rest(t), Facts, {})
  BY RestBuilds DEF FindTarget
<1>7. \A F : Builds(u, F, F)
  BY <1>3, FindBuilds DEF Mutexes, Maps
<1>8. CASE Go(t, u \o Rest(t))
  <2>1. Builds(u \o Rest(t), Facts, {})
    BY <1>6, <1>7, ThenBuilds
  <2> QED
    BY <1>4, <1>8, <2>1, ProgramFacts
<1>9. CASE /\ d \notin data["symbolIDMap"] \/ "symbolIDMap" \in missed'
           /\ Go(t, u \o NotFound(d))
  <2>1. <<"fail", d>> \in Facts'
    <3>1. CASE d \notin data["symbolIDMap"]
      BY <1>3, <1>4, <3>1, FactsMean DEF Registered
    <3>2. CASE "symbolIDMap" \in missed'
      <4>1. ~Intact'
        BY <3>2 DEF Intact
      <4> QED
        BY <1>3, <4>1 DEF Facts
    <3> QED
      BY <1>9, <3>1, <3>2
  <2>2. Builds(NotFound(d), Facts', Facts')
    BY <1>3, <2>1, FindBuilds
  <2>3. Builds(NotFound(d), Facts', {})
    BY <2>2, WeakerBuilds
  <2>4. Builds(u \o NotFound(d), Facts', {})
    BY <1>7, <2>3, ThenBuilds
  <2> QED
    BY <1>4, <1>9, <2>4, ProgramFacts
<1> QED
  BY <1>5, <1>8, <1>9

\* The assertion fails only when a symbol was taken out or lost.
LEMMA FailFacts ==
    ASSUME FactsInv, LocksInv', NEW t \in Threads, Fail(t)
    PROVE  FactsInv'
<1>1. PICK s : s = Here(t)
  OBVIOUS
<1>2. s.op = "fail" /\ Needs(s) \subseteq Facts
  BY <1>1, StepBuilding DEF Fail, At
<1>3. <<"fail", s.die>> \in Facts
  BY <1>2 DEF Needs
<1>4. ~Intact
  BY <1>3, FactsMean
<1>5. UNCHANGED <<todo, data, removed, lost, missed, finished, repeated>>
  BY DEF Fail, dataVars, callVars
<1>6. Facts \subseteq Facts' /\ PublishedOK'
  BY <1>5, SameFacts
<1>7. FinishedOK' /\ NoLateDuplicate' /\ \A u \in Threads : Builds(todo'[u], Facts', {})
  BY <1>5, <1>6, WeakerBuilds DEF FactsInv, FinishedOK, NoLateDuplicate
<1>8. FinishedFound'
  BY <1>4, <1>5 DEF FinishedFound, Intact
<1> QED
  BY <1>6, <1>7, <1>8 DEF FactsInv

\* removeSymbol after its look for aliases.
LEMMA HasAliasesFacts ==
    ASSUME FactsInv, LocksInv', NEW t \in Threads, HasAliases(t)
    PROVE  FactsInv'
<1>1. PICK d : d = Here(t).die
  OBVIOUS
<1> DEFINE e == S("write", "erase", "symbolIDMap", d)
           p == Guarded("symbolIDMapMutex", <<e>>)
<1>2. d \in Ids
  BY <1>1, StepFacts DEF HasAliases, StepOK, FactsInv
<1>3. Builds(Rest(t), Facts, {})
  BY RestBuilds DEF HasAliases
<1>4. Builds(p, Facts, Facts)
  <2>1. e \in Steps
    BY <1>2, ThingsAre DEF S, Steps, Maps
  <2>2. Needs(e) = {}
    BY DEF S, Needs
  <2> HIDE DEF e
  <2>3. Builds(<<e>>, Facts, Facts)
    BY <2>1, <2>2, QuietBuilds
  <2> QED
    BY <2>3, GuardedBuilds DEF Mutexes
<1>5. UNCHANGED <<dataVars, finished, repeated>> /\ missed \subseteq missed'
  BY DEF HasAliases, Misses, callVars
<1>6. \/ aborted' = "remove" /\ todo' = todo
      \/ aborted' = aborted /\ Go(t, p \o Rest(t))
  BY <1>1 DEF HasAliases
<1> HIDE DEF p
<1>7. Builds(p \o Rest(t), Facts, {})
  BY <1>3, <1>4, ThenBuilds
<1>8. CASE aborted' = "remove" /\ todo' = todo
  <2>1. UNCHANGED <<data, removed, lost>>
    BY <1>5 DEF dataVars
  <2>2. Facts \subseteq Facts' /\ PublishedOK'
    BY <1>5, <2>1, SameFacts
  <2>3. FinishedOK' /\ NoLateDuplicate' /\ \A u \in Threads : Builds(todo'[u], Facts', {})
    BY <1>5, <1>8, <2>1, <2>2, WeakerBuilds DEF FactsInv, FinishedOK, NoLateDuplicate
  <2>4. FinishedFound'
    BY <1>8 DEF FinishedFound
  <2> QED
    BY <2>2, <2>3, <2>4 DEF FactsInv
<1>9. CASE aborted' = aborted /\ Go(t, p \o Rest(t))
  BY <1>5, <1>7, <1>9, ProgramFacts
<1> QED
  BY <1>6, <1>8, <1>9

\* cleanFunctions and cleanArrays after the sort.
LEMMA MergeEqualFacts ==
    ASSUME FactsInv, LocksInv', NEW t \in Threads, MergeEqual(t)
    PROVE  FactsInv'
<1>1. PICK list : list = Here(t).on
  OBVIOUS
<1>2. list \in Lists
  BY <1>1, StepFacts DEF MergeEqual, StepOK, FactsInv
<1>3. Builds(Rest(t), Facts, {})
  BY RestBuilds DEF MergeEqual
<1>4. UNCHANGED <<dataVars, missed, finished, repeated, aborted>>
  BY DEF MergeEqual, callVars
<1>5. CASE Go(t, <<>>)
  BY <1>4, <1>5, DoneBuilds, ProgramFacts
<1>6. ASSUME NEW old \in data[list],
             Go(t, <<MergeLoop(list, old, data[list] \ {old}, {})>> \o Rest(t))
      PROVE  FactsInv'
  <2>1. data[list] \in SUBSET Ids
    <3>1. list \in Maps \ AliasMaps
      BY <1>2 DEF Lists, Maps, AliasMaps
    <3> QED
      BY <3>1 DEF FactsInv, LocksInv, DataOK, Entries
  <2>2. old \in Ids /\ data[list] \ {old} \in SUBSET Ids /\ {} \in SUBSET Ids
    BY <1>6, <2>1
  <2>3. {"id"} \X ({old} \cup (data[list] \ {old}) \cup {}) \subseteq Facts
    <3>1. \A d \in data[list] : <<"id", d>> \in Facts
      BY <1>2 DEF FactsInv, PublishedOK, Published, Lists
    <3> QED
      BY <1>6, <3>1
  <2>4. Builds(<<MergeLoop(list, old, data[list] \ {old}, {})>>, Facts, Facts)
    BY <1>2, <2>2, <2>3, MergeLoopBuilds
  <2>5. Builds(<<MergeLoop(list, old, data[list] \ {old}, {})>> \o Rest(t), Facts, {})
    BY <1>3, <2>4, ThenBuilds
  <2> QED
    BY <1>4, <1>6, <2>5, ProgramFacts
<1> QED
  BY <1>1, <1>5, <1>6 DEF MergeEqual

\* An element of a sorted list gets an alias of one that is registered, and the
\* list is swapped with elements that are.
LEMMA MergeNextFacts ==
    ASSUME FactsInv, LocksInv', NEW t \in Threads, MergeNext(t)
    PROVE  FactsInv'
<1>1. PICK s : s = Here(t)
  OBVIOUS
<1>2. PICK list : list = s.on
  OBVIOUS
<1>3. PICK old, left, tmp : old = s.die[1] /\ left = s.die[2] /\ tmp = s.die[3]
  OBVIOUS
<1>4. PICK kept : kept = SetToSeq(tmp)
  OBVIOUS
<1> DEFINE m == ListMutex(list)
           ins == [i \in 1..Len(kept) |-> Insert("arrayTypeMap", kept[i])]
           insertions == IF list = "funcList" THEN <<>> ELSE Guarded("arrayTypeMapMutex", ins)
<1>5. /\ s.op = "merge_next" /\ list \in Lists
      /\ old \in Ids /\ left \in SUBSET Ids /\ tmp \in SUBSET Ids /\ IsFiniteSet(tmp)
  BY <1>1, <1>2, <1>3, StepFacts DEF MergeNext, StepOK, FactsInv
<1>6. {"id"} \X ({old} \cup left \cup tmp) \subseteq Facts
  <2>1. Needs(s) \subseteq Facts
    BY <1>1, StepBuilding DEF MergeNext
  <2>2. Needs(s) = {"id"} \X ({old} \cup left \cup tmp)
    BY <1>3, <1>5 DEF Needs
  <2> QED
    BY <2>1, <2>2
<1>7. Builds(Rest(t), Facts, {})
  BY RestBuilds DEF MergeNext
<1>8. UNCHANGED <<lost, removed, missed, finished, repeated, aborted>>
  BY DEF MergeNext, callVars, failVars
<1>9. m \in Mutexes /\ list \in Maps \ AliasMaps
  BY <1>5 DEF ListMutex, Mutexes, Lists, Maps, AliasMaps
<1>10. ASSUME NEW x \in left, UNCHANGED data,
              Go(t, addAlternativeID(old, x) \o <<MergeLoop(list, old, left \ {x}, tmp)>> \o Rest(t))
       PROVE  FactsInv'
  <2>1. x \in Ids /\ left \ {x} \in SUBSET Ids /\ <<"id", old>> \in Facts
        /\ {"id"} \X ({old} \cup (left \ {x}) \cup tmp) \subseteq Facts
    BY <1>5, <1>6
  <2>2. Builds(addAlternativeID(old, x), Facts, Facts \cup {<<"alias", x>>, <<"known", x>>})
    BY <1>5, <2>1, AliasBuilds
  <2>3. Builds(addAlternativeID(old, x), Facts, Facts)
    BY <2>2, WeakerBuilds
  <2>4. Builds(<<MergeLoop(list, old, left \ {x}, tmp)>>, Facts, Facts)
    BY <1>5, <2>1, MergeLoopBuilds
  <2>5. Builds(addAlternativeID(old, x) \o <<MergeLoop(list, old, left \ {x}, tmp)>>, Facts, Facts)
    BY <2>3, <2>4, ThenBuilds
  <2>6. Builds(addAlternativeID(old, x) \o <<MergeLoop(list, old, left \ {x}, tmp)>> \o Rest(t),
               Facts, {})
    BY <1>7, <2>5, ThenBuilds
  <2> QED
    BY <1>8, <1>10, <2>6, ProgramFacts DEF dataVars
<1>11. ASSUME NEW x \in left, UNCHANGED data,
              Go(t, <<MergeLoop(list, x, left \ {x}, tmp \cup {x})>> \o Rest(t))
       PROVE  FactsInv'
  <2>1. x \in Ids /\ left \ {x} \in SUBSET Ids /\ tmp \cup {x} \in SUBSET Ids
        /\ {"id"} \X ({x} \cup (left \ {x}) \cup (tmp \cup {x})) \subseteq Facts
    BY <1>5, <1>6
  <2>2. Builds(<<MergeLoop(list, x, left \ {x}, tmp \cup {x})>>, Facts, Facts)
    BY <1>5, <2>1, MergeLoopBuilds
  <2>3. Builds(<<MergeLoop(list, x, left \ {x}, tmp \cup {x})>> \o Rest(t), Facts, {})
    BY <1>7, <2>2, ThenBuilds
  <2> QED
    BY <1>8, <1>11, <2>3, ProgramFacts DEF dataVars
<1>12. ASSUME data' = [data EXCEPT ![list] = tmp], Go(t, insertions \o <<Unlock(m)>> \o Rest(t))
       PROVE  FactsInv'
  <2>1. data \in [Maps -> SUBSET (Ids \cup (Ids \X Ids))] /\ LocksInv
    BY DEF FactsInv, LocksInv, DataOK
  <2>2. data'[list] = tmp /\ \A map \in Maps \ {list} : data'[map] = data[map]
    BY <1>9, <1>12, <2>1
  <2>3. Facts \subseteq Facts'
    <3>1. \A map \in Indexes \cup {"symbolIDAliasMap", "symbolIDMap"} : data[map] \subseteq data'[map]
      BY <1>5, <2>2 DEF Lists, Indexes, Maps
    <3> QED
      BY <1>8, <2>1, <3>1, FactsGrow
  <2>4. PublishedOK'
    <3>1. \A d \in tmp : <<"id", d>> \in Facts
      BY <1>6
    <3>2. \A map \in Published : data'[map] = data[map] \/ data'[map] = tmp
      BY <2>2 DEF Published, Maps
    <3>3. data'["symbolIDAliasMap"] = data["symbolIDAliasMap"]
      BY <1>5, <2>2 DEF Lists, Maps
    <3> QED
      BY <2>3, <3>1, <3>2, <3>3 DEF FactsInv, PublishedOK
  <2>5. Builds(insertions, Facts, Facts)
    <3>1. kept \in Seq(Ids)
      BY <1>4, <1>5, SetToSeqIs
    <3>2. Builds(ins, Facts, Facts)
      BY <3>1, InsertionsBuild
    <3> HIDE DEF ins
    <3>3. Builds(Guarded("arrayTypeMapMutex", ins), Facts, Facts)
      BY <3>2, GuardedBuilds DEF Mutexes
    <3> QED
      BY <3>3, NothingBuilds
  <2>6. Builds(<<Unlock(m)>>, Facts, Facts)
    BY <1>9, UnlockBuilds
  <2> HIDE DEF insertions, m
  <2>7. Builds(insertions \o <<Unlock(m)>>, Facts, Facts)
    BY <2>5, <2>6, ThenBuilds
  <2>8. Builds(insertions \o <<Unlock(m)>> \o Rest(t), Facts, {})
    BY <1>7, <2>7, ThenBuilds
  <2>9. Builds(insertions \o <<Unlock(m)>> \o Rest(t), Facts', {})
    BY <2>3, <2>8, WeakerBuilds
  <2>10. FinishedFound' /\ NoLateDuplicate'
    BY <1>8 DEF FactsInv, FinishedFound, NoLateDuplicate
  <2> QED
    BY <1>8, <1>12, <2>3, <2>4, <2>9, <2>10, FactsKept
<1> QED
  BY <1>1, <1>2, <1>3, <1>4, <1>10, <1>11, <1>12 DEF MergeNext

\* The programs that a call begins with.
LEMMA BeginFacts ==
    ASSUME FactsInv, LocksInv', NEW t \in Threads, Begin(t)
    PROVE  FactsInv'
<1>1. PICK n : n = calls[t] + 1
  OBVIOUS
<1>2. n \in Nat /\ calls'[t] = n /\ finished \subseteq Ids
  BY <1>1 DEF Begin, FactsInv, LocksInv, DataOK
<1>3. <<"known", Root>> \in Facts
  <2>1. <<"known", Root>> \in ReadNeeds(Root)
    BY DEF ReadNeeds, Root, Unregistered
  <2> QED
    BY <2>1 DEF FactsInv, FinishedOK
<1>4. ASSUME NEW p, Builds(p, Facts, {}), Go(t, p)
      PROVE  FactsInv'
  BY <1>4, ProgramFacts DEF Begin, failVars
<1>5. ASSUME NEW p, Builds(p, Facts, Facts), Go(t, p \o Returned)
      PROVE  FactsInv'
  <2>1. Root \in Ids /\ ReadNeeds(Root) \subseteq Facts
    BY ThingsAre DEF FactsInv, FinishedOK
  <2>2. Builds(Returned, Facts, Facts)
    BY <2>1, ReturnBuilds DEF Returned
  <2>3. Builds(p \o Returned, Facts, Facts)
    BY <1>5, <2>2, ThenBuilds
  <2>4. Builds(p \o Returned, Facts, {})
    BY <2>3, WeakerBuilds
  <2> QED
    BY <1>4, <1>5, <2>4
<1>6. PICK c :
         \/ /\ c \in DieClasses
            /\ LET d == <<c, t, n>>
               IN  Go(t, initSymbolFromDie(d) \o <<S("none", "return", "none", d)>>)
         \/ \E d \in {x \in finished : x[1] \notin Unregistered} :
               /\ c \in {"findSymbolByID", "getAliases", "getRevID", "findArrayByTypeID", "removeSymbol"}
               /\ Go(t, (CASE c = "findSymbolByID" -> findSymbolByID(d)
                           [] c = "getAliases" -> getAliases(d)
                           [] c = "getRevID" -> getRevID(d)
                           [] c = "findArrayByTypeID" -> findArrayByTypeID(d)
                           [] c = "removeSymbol" -> removeSymbol(d)) \o Returned)
         \/ c \in DOMAIN Looks /\ Go(t, <<Read(Looks[c])>> \o Returned)
         \/ c = "findSymbolByName" /\ Go(t, findSymbolByName \o Returned)
         \/ c = "memberByName" /\ Go(t, memberByName(Root) \o Returned)
         \/ c = "cleanFunctions" /\ Go(t, cleanFunctions \o Returned)
         \/ c = "cleanArrays" /\ Go(t, cleanArrays \o Returned)
  BY <1>2 DEF Begin
<1>7. CASE /\ c \in DieClasses
           /\ LET d == <<c, t, n>>
              IN  Go(t, initSymbolFromDie(d) \o <<S("none", "return", "none", d)>>)
  <2>1. PICK d : d = <<c, t, n>>
    OBVIOUS
  <2>2. d \in DieIds /\ d \in Ids
    BY <1>2, <1>7, <2>1 DEF DieIds, Ids
  <2>3. PICK F : F = Facts \cup ReadNeeds(d)
    OBVIOUS
  <2>4. /\ Builds(initSymbolFromDie(d), Facts, F)
        /\ Builds(<<S("none", "return", "none", d)>>, F, F)
    BY <2>2, <2>3, HandlerBuilds, ReturnBuilds
  <2>5. Builds(initSymbolFromDie(d) \o <<S("none", "return", "none", d)>>, Facts, F)
    BY <2>4, ThenBuilds
  <2>6. Builds(initSymbolFromDie(d) \o <<S("none", "return", "none", d)>>, Facts, {})
    BY <2>5, WeakerBuilds
  <2>7. Go(t, initSymbolFromDie(d) \o <<S("none", "return", "none", d)>>)
    BY <1>7, <2>1
  <2> QED
    BY <1>4, <2>6, <2>7
<1>8. ASSUME NEW d \in {x \in finished : x[1] \notin Unregistered},
             c \in {"findSymbolByID", "getAliases", "getRevID", "findArrayByTypeID", "removeSymbol"},
             Go(t, (CASE c = "findSymbolByID" -> findSymbolByID(d)
                      [] c = "getAliases" -> getAliases(d)
                      [] c = "getRevID" -> getRevID(d)
                      [] c = "findArrayByTypeID" -> findArrayByTypeID(d)
                      [] c = "removeSymbol" -> removeSymbol(d)) \o Returned)
      PROVE  FactsInv'
  <2>1. d \in Ids /\ <<"known", d>> \in Facts
    <3>1. <<"known", d>> \in ReadNeeds(d)
      BY DEF ReadNeeds, Unregistered
    <3> QED
      BY <1>2, <3>1 DEF FactsInv, FinishedOK
  <2>2. /\ Builds(findSymbolByID(d), Facts, Facts) /\ Builds(getAliases(d), Facts, Facts)
        /\ Builds(findArrayByTypeID(d), Facts, Facts) /\ Builds(removeSymbol(d), Facts, Facts)
        /\ Builds(getRevID(d), Facts, Facts)
    BY <2>1, FindBuilds, LookupsBuild
  <2>3. PICK p : p = CASE c = "findSymbolByID" -> findSymbolByID(d)
                       [] c = "getAliases" -> getAliases(d)
                       [] c = "getRevID" -> getRevID(d)
                       [] c = "findArrayByTypeID" -> findArrayByTypeID(d)
                       [] c = "removeSymbol" -> removeSymbol(d)
    OBVIOUS
  <2>4. Builds(p, Facts, Facts)
    BY <1>8, <2>2, <2>3
  <2>5. Go(t, p \o Returned)
    BY <1>8, <2>3
  <2> QED
    BY <1>5, <2>4, <2>5
<1>9. CASE Go(t, findSymbolByName \o Returned)
  BY <1>5, <1>9, ThingsAre, LookupsBuild
<1>10. CASE Go(t, memberByName(Root) \o Returned)
  BY <1>5, <1>10, ThingsAre, LookupsBuild
<1>11. CASE Go(t, cleanFunctions \o Returned)
  BY <1>3, <1>5, <1>11, CleanBuilds
<1>12. CASE Go(t, cleanArrays \o Returned)
  BY <1>3, <1>5, <1>12, CleanBuilds
<1>13. CASE c \in DOMAIN Looks /\ Go(t, <<Read(Looks[c])>> \o Returned)
  BY <1>5, <1>13, ThingsAre, LookupsBuild
<1> QED
  BY <1>6, <1>7, <1>8, <1>9, <1>10, <1>11, <1>12, <1>13

\* The inductive invariant of what the maps hold.
LEMMA FactsInvariant == Spec => []FactsInv
<1>1. Init => FactsInv
  <2> SUFFICES ASSUME Init, LocksInv PROVE FactsInv
    BY LocksInitially
  <2>1. PublishedOK
    BY DEF Init, PublishedOK, Published, Maps
  <2>2. FinishedOK
    <3>1. Root \in data["symbolIDMap"] /\ Root \in Ids
      BY ThingsAre DEF Init, Maps
    <3>2. <<"known", Root>> \in Facts
      BY <3>1, FactsMean DEF Registered
    <3>3. ReadNeeds(Root) = {<<"known", Root>>}
      BY DEF ReadNeeds, Root, NamedClasses, Unregistered
    <3> QED
      BY <3>2, <3>3 DEF Init, FinishedOK
  <2>3. \A t \in Threads : Builds(todo[t], Facts, {})
    BY DoneBuilds DEF Init
  <2> QED
    BY <2>1, <2>2, <2>3 DEF Init, FactsInv, FinishedFound, NoLateDuplicate
<1>2. FactsInv /\ [Next]_vars => FactsInv'
  <2> SUFFICES ASSUME FactsInv, [Next]_vars PROVE FactsInv'
    OBVIOUS
  <2>1. LocksInv'
    BY LocksNext DEF FactsInv
  <2>2. CASE UNCHANGED vars
    <3>1. UNCHANGED <<data, removed, lost, missed, todo, finished, repeated, aborted>>
      BY <2>2 DEF vars, dataVars, callVars, failVars
    <3>2. Facts \subseteq Facts' /\ PublishedOK'
      BY <3>1, SameFacts
    <3> QED
      BY <2>1, <3>1, <3>2, WeakerBuilds DEF FactsInv, FinishedOK, FinishedFound, NoLateDuplicate
  <2>3. ASSUME NEW t \in Threads, Step(t) PROVE FactsInv'
    BY <2>1, <2>3, BeginFacts, QuietFacts, InsertFacts, EraseFacts, ReturnFacts, LookupFacts,
       NameFreeFacts, FindMemberFacts, FindSymbolFacts, FindAliasFacts, UseAliasFacts, FindTargetFacts,
       FailFacts, HasAliasesFacts, MergeEqualFacts, MergeNextFacts DEF Step
  <2> QED
    BY <2>2, <2>3 DEF Next
<1> QED
  BY <1>1, <1>2, PTL DEF Spec

\* findSymbolByID finds every DIE that was read to the end, for any number of
\* threads and calls, as long as no symbol is taken out and no race on symbolIDMap
\* loses an entry or hides one from a search.
THEOREM ReadSymbolsFound == Spec => []FinishedFound
<1>1. FactsInv => FinishedFound
  BY DEF FactsInv
<1> QED
  BY <1>1, FactsInvariant, PTL

\* No second symbol of a name is constructed once a DIE of that name was read to
\* the end, as long as no race on the index of its class loses an entry or hides
\* one from a lookup.
THEOREM NoSecondSymbol == Spec => []NoLateDuplicate
<1>1. FactsInv => NoLateDuplicate
  BY DEF FactsInv
<1> QED
  BY <1>1, FactsInvariant, PTL

=============================================================================
