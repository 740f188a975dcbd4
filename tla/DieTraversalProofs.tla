------------------------- MODULE DieTraversalProofs --------------------------
(***************************************************************************)
(* For .debug_info sections of every size and shape: get_die_and_siblings  *)
(* hands over each DIE once and in order, with the symbol of the DIE that  *)
(* encloses it and the offset of its CU, and uses no handle that was       *)
(* deallocated.                                                            *)
(***************************************************************************)
EXTENDS DieTraversal, FiniteSetTheorems, NaturalsInduction, WellFoundedInduction, TLAPS

-----------------------------------------------------------------------------
(* The inductive invariant. *)

\* e is the last DIE of the subtree of d.
SubtreeEnd(d, e) ==
    /\ e \in Dies /\ d <= e
    /\ \A x \in (d + 1)..e : level[x] > level[d]
    /\ e + 1 \in Dies => level[e + 1] <= level[d]

\* Before DIE v + 1 the reading is at a CU header or at the section's end.
AtHeader(v) == v + 1 \in Dies => level[v + 1] = 0

TraversalType ==
    /\ level \in Levels
    /\ phase \in {"start", "read_cu_list", "returned", "thrown", "exited"}
    /\ pc \in {"init", "child", "sibling"}
    /\ curCUOffset \in Nat /\ nextCUOffset \in Nat
    /\ frames \in Seq([in : Dies, cur : Dies, parent : Nat, cursym : Nat])
    /\ visited \in Seq([die : Nat, parent : Nat, sym : Nat, cu : Nat])
    /\ handles \subseteq Dies
    /\ released \in [Dies -> Nat]

\* The calls of get_die_and_siblings are at the DIEs that enclose the
\* innermost one, level by level.
FramesNested ==
    /\ \A i \in DOMAIN frames : /\ level[frames[i].cur] = i - 1
                                /\ frames[i].in <= frames[i].cur
    /\ \A i, j \in DOMAIN frames : i < j => frames[i].cur < frames[j].cur
    /\ \A i \in 1..(Len(frames) - 1) :
          \A x \in (frames[i].cur + 1)..Top.cur : level[x] >= i

\* How far the DIEs were visited when the innermost call is at pc.
Progress ==
    LET v == Len(visited)
    IN  IF frames = <<>> THEN v = 0 \/ v \in Dies
        ELSE CASE pc = "init"    -> v = Top.cur - 1
               [] pc = "child"   -> v = Top.cur
               [] pc = "sibling" -> SubtreeEnd(Top.cur, v)

\* A call has the symbol of its DIE, and passes it on as parent.
SymbolsPassed ==
    /\ \A i \in DOMAIN frames :
          i < Len(frames) \/ pc # "init" =>
             /\ frames[i].cur \in DOMAIN visited
             /\ frames[i].cursym = visited[frames[i].cur].sym
    /\ \A i \in DOMAIN frames :
          frames[i].parent = IF i = 1 THEN None ELSE frames[i - 1].cursym

\* The offsets are those of the current and of the next CU.
OffsetsRight ==
    IF frames = <<>>
    THEN AtHeader(Len(visited)) /\ nextCUOffset = HeaderOffset(Len(visited) + 1)
    ELSE /\ curCUOffset = HeaderOffset(frames[1].cur)
         /\ \E e \in Dies : SubtreeEnd(frames[1].cur, e) /\ nextCUOffset = HeaderOffset(e + 1)

\* A handle is used before it is deallocated, and only visited DIEs lose it.
HandlesOpen ==
    /\ \A i \in DOMAIN frames : frames[i].in \in handles /\ frames[i].cur \in handles
    /\ \A d \in handles : released[d] = 0
    /\ \A d \in Dies : released[d] # 0 => d <= Len(visited)

Reading == FramesNested /\ Progress /\ SymbolsPassed /\ OffsetsRight /\ HandlesOpen

TraversalInv ==
    /\ TraversalType
    /\ phase = "start" => visited = <<>> /\ frames = <<>> /\ nextCUOffset = 0
                          /\ \A d \in Dies : released[d] = 0
    /\ phase = "start" => handles = {}
    /\ phase = "read_cu_list" => Reading
    /\ VisitedInOrder
    /\ ParentIsEnclosing
    /\ CuOffsetRight
    /\ HandlesValid

-----------------------------------------------------------------------------
(* The shape of a section, and what libdwarf's calls return in it. *)

\* A non-empty set of naturals has a least element.
LEMMA LeastExists ==
    ASSUME NEW S, S \subseteq Nat, S # {}
    PROVE  \E x \in S : \A y \in S : x <= y
<1>1. IsWellFoundedOn(OpToRel(<, Nat), Nat)
  BY NatLessThanWellFounded
<1>2. PICK x \in S : \A y \in S : ~ (<<y, x>> \in OpToRel(<, Nat))
  BY <1>1, WFMin
<1>3. \A y \in S : ~ (y < x)
  BY <1>2 DEF OpToRel
<1> QED
  BY <1>3

\* Least is the least element.
LEMMA LeastIs ==
    ASSUME NEW S, S \subseteq Nat, NEW x \in S, \A y \in S : x <= y
    PROVE  Least(S) = x
<1> DEFINE z == CHOOSE z \in S : \A y \in S : z <= y
<1>1. z \in S /\ \A y \in S : z <= y
  OBVIOUS
<1>2. Least(S) = z
  BY DEF Least
<1> HIDE DEF z
<1>3. z <= x /\ x <= z /\ z \in Nat /\ x \in Nat
  BY <1>1
<1> QED
  BY <1>2, <1>3

\* The DIEs are numbered from 1, and a DIE is at most one level deeper than
\* the one before it.
LEMMA LevelsAre ==
    ASSUME level \in Levels
    PROVE  /\ Cardinality(Dies) \in Nat /\ Dies = 1..Cardinality(Dies)
           /\ level \in [Dies -> Nat]
           /\ 1 \in Dies => level[1] = 0
           /\ \A d \in Dies : d + 1 \in Dies => level[d + 1] <= level[d] + 1
<1>1. PICK n \in 0..MaxDies : level \in [1..n -> 0..MaxDies]
  BY DEF Levels
<1>2. \A d \in DOMAIN level : IF d = 1 THEN level[d] = 0 ELSE level[d] <= level[d - 1] + 1
  BY DEF Levels
<1>3. Dies = 1..n /\ n \in Nat
  BY <1>1, TraversalAssumption DEF Dies
<1>4. Cardinality(1..n) = n
  BY <1>3, FS_Interval
<1>5. level \in [1..n -> Nat]
  BY <1>1, TraversalAssumption
<1>6. ASSUME NEW d \in Dies, d + 1 \in Dies
      PROVE  level[d + 1] <= level[d] + 1
  <2>1. d + 1 # 1 /\ (d + 1) - 1 = d
    BY <1>3
  <2>2. level[d + 1] <= level[(d + 1) - 1] + 1
    BY <1>2, <1>6, <2>1 DEF Dies
  <2> QED
    BY <2>1, <2>2
<1> QED
  BY <1>2, <1>3, <1>4, <1>5, <1>6 DEF Dies

\* A DIE has a child, the next DIE, or its subtree ends with it.
LEMMA ChildIs ==
    ASSUME level \in Levels, NEW d \in Dies
    PROVE  \/ /\ dwarf_child(d) = d + 1 /\ d + 1 # None /\ d + 1 \in Dies
              /\ level[d + 1] = level[d] + 1
           \/ dwarf_child(d) = None /\ SubtreeEnd(d, d)
<1>1. /\ Cardinality(Dies) \in Nat /\ Dies = 1..Cardinality(Dies)
      /\ level \in [Dies -> Nat]
      /\ \A x \in Dies : x + 1 \in Dies => level[x + 1] <= level[x] + 1
  BY LevelsAre
<1>2. d \in Nat /\ d >= 1 /\ level[d] \in Nat /\ (d + 1 \in Dies => level[d + 1] \in Nat)
  BY <1>1
<1>3. CASE d + 1 \in Dies /\ level[d + 1] = level[d] + 1
  BY <1>2, <1>3 DEF dwarf_child, None
<1>4. CASE ~(d + 1 \in Dies /\ level[d + 1] = level[d] + 1)
  <2>1. d + 1 \in Dies => level[d + 1] <= level[d]
    BY <1>1, <1>2, <1>4
  <2>2. (d + 1)..d = {}
    BY <1>2
  <2>3. SubtreeEnd(d, d)
    BY <1>2, <2>1, <2>2 DEF SubtreeEnd
  <2> QED
    BY <1>4, <2>3 DEF dwarf_child
<1> QED
  BY <1>3, <1>4

\* The sibling of a DIE follows its subtree.
LEMMA SiblingIs ==
    ASSUME level \in Levels, NEW d \in Dies, NEW e, SubtreeEnd(d, e)
    PROVE  \/ /\ level[d] > 0 /\ e + 1 \in Dies /\ level[e + 1] = level[d]
              /\ dwarf_siblingof(d) = e + 1 /\ e + 1 # None
           \/ /\ ~(level[d] > 0 /\ e + 1 \in Dies /\ level[e + 1] = level[d])
              /\ dwarf_siblingof(d) = None
<1> DEFINE after == {x \in Dies : x > d /\ level[x] <= level[d]}
<1>1. /\ Cardinality(Dies) \in Nat /\ Dies = 1..Cardinality(Dies)
      /\ level \in [Dies -> Nat]
  BY LevelsAre
<1>2. e \in Dies /\ d <= e /\ d \in Nat /\ e \in Nat /\ e + 1 # None /\ after \subseteq Nat
  BY <1>1 DEF SubtreeEnd, None
<1>3. \A x \in after : x > e
  <2> SUFFICES ASSUME NEW x \in after, x <= e PROVE FALSE
    BY <1>1, <1>2
  <2>1. x \in (d + 1)..e
    BY <1>1, <1>2
  <2>2. level[x] > level[d] /\ level[x] \in Nat /\ level[d] \in Nat
    BY <1>1, <2>1 DEF SubtreeEnd
  <2> QED
    BY <2>2
<1>4. CASE e + 1 \in Dies
  <2>1. e + 1 \in after
    BY <1>2, <1>4 DEF SubtreeEnd
  <2>2. Least(after) = e + 1
    BY <1>2, <1>3, <2>1, LeastIs
  <2> HIDE DEF after
  <2> QED
    BY <1>2, <1>4, <2>2 DEF dwarf_siblingof, after
<1>5. CASE e + 1 \notin Dies
  <2>1. after = {}
    BY <1>1, <1>2, <1>3, <1>5
  <2>2. Least(after) = None
    BY <2>1 DEF Least
  <2> HIDE DEF after
  <2> QED
    BY <1>5, <2>2 DEF dwarf_siblingof, after
<1> QED
  BY <1>4, <1>5

\* A subtree has one end.
LEMMA EndUnique ==
    ASSUME level \in Levels, NEW d \in Dies, NEW e, NEW f, SubtreeEnd(d, e), SubtreeEnd(d, f)
    PROVE  e = f
<1>1. /\ Cardinality(Dies) \in Nat /\ Dies = 1..Cardinality(Dies)
      /\ level \in [Dies -> Nat]
  BY LevelsAre
<1>2. ASSUME NEW x \in Dies, NEW y \in Dies, SubtreeEnd(d, x), SubtreeEnd(d, y), x < y
      PROVE  FALSE
  <2>1. x + 1 \in (d + 1)..y /\ x + 1 \in Dies
    BY <1>1, <1>2, SMTT(20) DEF SubtreeEnd
  <2>2. level[x + 1] > level[d] /\ level[x + 1] <= level[d]
    BY <1>2, <2>1 DEF SubtreeEnd
  <2>3. level[x + 1] \in Nat /\ level[d] \in Nat
    BY <1>1, <2>1
  <2> QED
    BY <2>2, <2>3
<1>3. e \in Dies /\ f \in Dies /\ e \in Nat /\ f \in Nat
  BY <1>1 DEF SubtreeEnd
<1>4. ~(e < f) /\ ~(f < e)
  BY <1>2, <1>3
<1> QED
  BY <1>3, <1>4

\* At a header, the next CU is that of the next DIE.
LEMMA NextCuIs ==
    ASSUME level \in Levels, NEW v, v = 0 \/ v \in Dies, AtHeader(v)
    PROVE  dwarf_next_cu(HeaderOffset(v + 1)) = IF v + 1 \in Dies THEN v + 1 ELSE None
<1> DEFINE S == {d \in Dies : level[d] = 0 /\ HeaderOffset(d) >= HeaderOffset(v + 1)}
<1>1. /\ Cardinality(Dies) \in Nat /\ Dies = 1..Cardinality(Dies) /\ Dies \subseteq Nat
  BY LevelsAre
<1>2. v \in Nat
  BY <1>1
<1>3. \A d \in Nat : HeaderOffset(d) >= HeaderOffset(v + 1) <=> d >= v + 1
  BY <1>2 DEF HeaderOffset
<1>4. dwarf_next_cu(HeaderOffset(v + 1)) = Least(S)
  BY DEF dwarf_next_cu
<1>5. CASE v + 1 \in Dies
  <2>1. v + 1 \in S /\ S \subseteq Nat /\ \A y \in S : v + 1 <= y
    BY <1>1, <1>2, <1>3, <1>5 DEF AtHeader
  <2>2. Least(S) = v + 1
    BY <2>1, LeastIs
  <2> QED
    BY <1>4, <1>5, <2>2
<1>6. CASE v + 1 \notin Dies
  <2>1. S = {}
    BY <1>1, <1>2, <1>3, <1>6
  <2> QED
    BY <1>4, <1>6, <2>1 DEF Least
<1> QED
  BY <1>5, <1>6

\* The header after a CU follows the subtree of the CU's DIE.
LEMMA NextHeaderIs ==
    ASSUME level \in Levels, NEW c \in Dies, level[c] = 0
    PROVE  \E e \in Dies : SubtreeEnd(c, e) /\ NextHeader(c) = HeaderOffset(e + 1)
<1> DEFINE S == {d \in Dies : level[d] = 0 /\ HeaderOffset(d) >= HeaderOffset(c) + 1}
           n == Cardinality(Dies)
<1>1. /\ n \in Nat /\ Dies = 1..n /\ Dies \subseteq Nat /\ level \in [Dies -> Nat]
  BY LevelsAre
<1>2. \A d \in Nat : HeaderOffset(d) >= HeaderOffset(c) + 1 <=> d > c
  BY <1>1 DEF HeaderOffset
<1>3. dwarf_next_cu(HeaderOffset(c) + 1) = Least(S)
  BY DEF dwarf_next_cu
<1>4. S \subseteq Nat
  BY <1>1
<1>5. CASE S = {}
  <2>1. Least(S) = None
    BY <1>5 DEF Least
  <2>2. NextHeader(c) = HeaderOffset(n + 1)
    BY <1>3, <2>1 DEF NextHeader
  <2>3. \A x \in (c + 1)..n : x \in Dies /\ level[x] # 0 /\ level[x] \in Nat
    BY <1>1, <1>2, <1>5
  <2>4. n \in Dies /\ c <= n /\ n + 1 \notin Dies
    BY <1>1
  <2>5. SubtreeEnd(c, n)
    BY <2>3, <2>4 DEF SubtreeEnd
  <2> QED
    BY <2>2, <2>4, <2>5
<1>6. CASE S # {}
  <2>1. PICK x \in S : \A y \in S : x <= y
    BY <1>4, <1>6, LeastExists
  <2>2. Least(S) = x
    BY <1>4, <2>1, LeastIs
  <2>3. x \in Dies /\ x > c /\ level[x] = 0
    BY <1>1, <1>2
  <2>4. NextHeader(c) = HeaderOffset((x - 1) + 1)
    BY <1>1, <1>3, <2>2, <2>3 DEF NextHeader, None
  <2>5. x - 1 \in Dies /\ c <= x - 1 /\ (x - 1) + 1 = x
    BY <1>1, <2>3
  <2>6. ASSUME NEW y \in (c + 1)..(x - 1)
        PROVE  level[y] > level[c]
    <3>1. y \in Dies /\ y > c /\ y < x /\ y \in Nat
      BY <1>1, <2>3
    <3>2. y \notin S
      BY <1>1, <2>1, <2>3, <3>1
    <3>3. level[y] # 0 /\ level[y] \in Nat
      BY <1>1, <1>2, <3>1, <3>2
    <3> QED
      BY <3>3
  <2>7. SubtreeEnd(c, x - 1)
    BY <2>3, <2>5, <2>6 DEF SubtreeEnd
  <2> QED
    BY <2>4, <2>5, <2>7
<1> QED
  BY <1>5, <1>6

\* The DIE a call is at encloses those of the next level after it.
LEMMA EnclosingIs ==
    ASSUME level \in Levels, NEW d \in Dies, NEW b \in Dies, b < d,
           level[b] = level[d] - 1, \A x \in (b + 1)..d : level[x] >= level[d]
    PROVE  Enclosing(d) = b
<1> DEFINE above == {e \in Dies : e < d /\ level[e] = level[d] - 1}
           z == CHOOSE e \in above : \A f \in above : f <= e
<1>1. Dies \subseteq Nat /\ level \in [Dies -> Nat]
  BY LevelsAre
<1>2. b \in above /\ level[d] # 0
  BY <1>1
<1>3. \A f \in above : f <= b
  <2> SUFFICES ASSUME NEW f \in above, f > b PROVE FALSE
    BY <1>1
  <2>1. f \in (b + 1)..d /\ level[f] = level[d] - 1
    BY <1>1
  <2> QED
    BY <1>1, <2>1
<1>4. z \in above /\ \A f \in above : f <= z
  BY <1>2, <1>3
<1>5. Enclosing(d) = z
  BY <1>2 DEF Enclosing
<1> HIDE DEF z
<1>6. z <= b /\ b <= z /\ z \in Nat /\ b \in Nat
  BY <1>1, <1>2, <1>3, <1>4
<1> QED
  BY <1>5, <1>6

\* The CU of a DIE is the last one at or before it.
LEMMA CuIs ==
    ASSUME level \in Levels, NEW d \in Dies, NEW c \in Dies, c <= d,
           level[c] = 0, \A x \in (c + 1)..d : level[x] > 0
    PROVE  CuOf(d) = c
<1> DEFINE P(b) == /\ level[b] = 0 /\ b <= d
                   /\ \A e \in Dies : level[e] = 0 /\ e <= d => e <= b
           z == CHOOSE b \in Dies : P(b)
<1>1. Dies \subseteq Nat /\ level \in [Dies -> Nat]
  BY LevelsAre
<1>2. \A e \in Dies : level[e] = 0 /\ e <= d => e <= c
  <2> SUFFICES ASSUME NEW e \in Dies, level[e] = 0, e <= d, e > c PROVE FALSE
    BY <1>1
  <2>1. e \in (c + 1)..d
    BY <1>1
  <2> QED
    BY <2>1
<1>3. P(c)
  BY <1>2
<1>4. z \in Dies /\ P(z)
  BY <1>3
<1>5. CuOf(d) = z
  BY DEF CuOf
<1> HIDE DEF z
<1>6. z <= c /\ c <= z /\ z \in Nat /\ c \in Nat
  BY <1>1, <1>2, <1>4
<1> QED
  BY <1>5, <1>6

\* None of this changes while the section is read.
LEMMA SameLevels ==
    ASSUME UNCHANGED level
    PROVE  /\ Dies' = Dies
           /\ \A d : Enclosing(d)' = Enclosing(d)
           /\ \A d : CuOf(d)' = CuOf(d)
           /\ \A d, e : SubtreeEnd(d, e)' <=> SubtreeEnd(d, e)
           /\ \A v : AtHeader(v)' <=> AtHeader(v)
<1>1. Dies' = Dies
  BY DEF Dies
<1>2. \A d : Enclosing(d)' = Enclosing(d)
  BY DEF Enclosing, Dies
<1>3. \A d : CuOf(d)' = CuOf(d)
  BY DEF CuOf, Dies
<1>4. /\ \A d, e : SubtreeEnd(d, e)' <=> SubtreeEnd(d, e)
      /\ \A v : AtHeader(v)' <=> AtHeader(v)
  BY DEF SubtreeEnd, AtHeader, Dies
<1> QED
  BY <1>1, <1>2, <1>3, <1>4

-----------------------------------------------------------------------------
(* Every step keeps the invariant. *)

FrameType == [in : Dies, cur : Dies, parent : Nat, cursym : Nat]
VisitType == [die : Nat, parent : Nat, sym : Nat, cu : Nat]

\* What was visited stays right while nothing is visited.
LEMMA HistoryKept ==
    ASSUME TraversalInv, UNCHANGED <<level, visited>>
    PROVE  /\ \A i \in DOMAIN visited' : visited'[i].die = i
           /\ ParentIsEnclosing' /\ CuOffsetRight'
<1>1. /\ \A d : Enclosing(d)' = Enclosing(d)
      /\ \A d : CuOf(d)' = CuOf(d)
  BY SameLevels
<1>2. \A i \in DOMAIN visited' : visited'[i].die = i
  BY DEF TraversalInv, VisitedInOrder
<1>3. ParentIsEnclosing'
  BY <1>1 DEF TraversalInv, ParentIsEnclosing
<1>4. CuOffsetRight'
  BY <1>1 DEF TraversalInv, CuOffsetRight, HeaderOffset
<1> QED
  BY <1>2, <1>3, <1>4

\* exit(1) leaves everything as it is.
LEMMA ExitInv ==
    ASSUME TraversalInv, phase = "read_cu_list", Exit
    PROVE  TraversalInv'
<1>1. /\ phase' = "exited"
      /\ UNCHANGED <<level, fd, cuVars, frames, pc, handles, visited, released>>
  BY DEF Exit
<1>2. Dies' = Dies
  BY <1>1, SameLevels
<1>3. TraversalType'
  BY <1>1, <1>2 DEF TraversalInv, TraversalType, cuVars
<1>4. HandlesValid'
  BY <1>1, <1>2 DEF TraversalInv, HandlesValid
<1>5. /\ \A i \in DOMAIN visited' : visited'[i].die = i
      /\ ParentIsEnclosing' /\ CuOffsetRight'
  BY <1>1, HistoryKept
<1> QED
  BY <1>1, <1>3, <1>4, <1>5 DEF TraversalInv, VisitedInOrder

\* The constructor, or its exception.
LEMMA OpenInv ==
    ASSUME TraversalInv, parseDwarfFromFilename
    PROVE  TraversalInv'
<1>1. /\ phase = "start" /\ phase' \in {"read_cu_list", "thrown"}
      /\ UNCHANGED <<level, cuVars, frames, pc, handles, visited, released>>
  BY DEF parseDwarfFromFilename
<1>2. /\ Dies' = Dies
      /\ \A d, e : SubtreeEnd(d, e)' <=> SubtreeEnd(d, e)
      /\ \A v : AtHeader(v)' <=> AtHeader(v)
  BY <1>1, SameLevels
<1>3. TraversalType'
  BY <1>1, <1>2 DEF TraversalInv, TraversalType, cuVars
<1>4. /\ visited = <<>> /\ frames = <<>> /\ nextCUOffset = 0 /\ handles = {}
      /\ \A d \in Dies : released[d] = 0
  BY <1>1 DEF TraversalInv
<1>5. /\ frames' = <<>> /\ DOMAIN frames' = {} /\ Len(frames') = 0
      /\ Len(visited') = 0 /\ handles' = {}
  BY <1>1, <1>4
<1>6. HandlesValid'
  BY <1>1, <1>2, <1>4, <1>5 DEF HandlesValid
<1>7. AtHeader(0)
  BY LevelsAre DEF TraversalInv, TraversalType, AtHeader
<1>8. FramesNested'
  BY <1>5 DEF FramesNested
<1>9. Progress' /\ SymbolsPassed' /\ HandlesOpen'
  BY <1>1, <1>2, <1>4, <1>5 DEF Progress, SymbolsPassed, HandlesOpen
<1>10. OffsetsRight'
  BY <1>1, <1>2, <1>4, <1>5, <1>7 DEF OffsetsRight, HeaderOffset, cuVars
<1>11. /\ \A i \in DOMAIN visited' : visited'[i].die = i
       /\ ParentIsEnclosing' /\ CuOffsetRight'
  BY <1>1, HistoryKept
<1> QED
  BY <1>1, <1>3, <1>6, <1>8, <1>9, <1>10, <1>11 DEF TraversalInv, VisitedInOrder, Reading

\* The next CU is the one of the next DIE; the reading returns only at the
\* end of the section.
LEMMA ReadCuInv ==
    ASSUME TraversalInv, read_cu_list
    PROVE  TraversalInv'
<1> DEFINE v == Len(visited)
           cu == dwarf_next_cu(nextCUOffset)
<1>1. phase = "read_cu_list" /\ frames = <<>>
  BY DEF read_cu_list
<1>2. /\ level \in Levels /\ Reading /\ TraversalType
  BY <1>1 DEF TraversalInv, TraversalType
<1>3. /\ Cardinality(Dies) \in Nat /\ Dies = 1..Cardinality(Dies)
      /\ level \in [Dies -> Nat]
  BY <1>2, LevelsAre
<1>4. /\ v = 0 \/ v \in Dies
      /\ AtHeader(v) /\ nextCUOffset = HeaderOffset(v + 1) /\ v \in Nat
  BY <1>1, <1>2, <1>3 DEF Reading, Progress, OffsetsRight
<1>5. cu = IF v + 1 \in Dies THEN v + 1 ELSE None
  BY <1>2, <1>4, NextCuIs
<1>6. CASE Exit
  BY <1>1, <1>6, ExitInv
<1>7. CASE /\ cu = None
           /\ curCUOffset' = nextCUOffset
           /\ phase' = "returned"
           /\ Destroy
           /\ UNCHANGED <<level, nextCUOffset, frames, pc, visited, released>>
  <2>1. v + 1 \notin Dies
    BY <1>4, <1>5, <1>7 DEF None
  <2>2. v = Cardinality(Dies)
    BY <1>3, <1>4, <2>1
  <2>3. Dies' = Dies /\ handles' = {} /\ fd' = "closed"
    BY <1>7, SameLevels DEF Destroy
  <2>4. TraversalType'
    BY <1>2, <1>7, <2>3 DEF TraversalType
  <2>5. HandlesValid'
    BY <1>7, <2>3 DEF TraversalInv, HandlesValid
  <2>6. /\ \A i \in DOMAIN visited' : visited'[i].die = i
        /\ ParentIsEnclosing' /\ CuOffsetRight'
    BY <1>7, HistoryKept
  <2>7. VisitedInOrder'
    BY <1>7, <2>2, <2>3, <2>6 DEF VisitedInOrder
  <2> QED
    BY <1>7, <2>4, <2>5, <2>6, <2>7 DEF TraversalInv
<1>8. CASE /\ cu # None
           /\ curCUOffset' = nextCUOffset
           /\ nextCUOffset' = NextHeader(cu)
           /\ handles' = handles \cup {cu}
           /\ frames' = <<Frame(cu, None)>>
           /\ pc' = "init"
           /\ UNCHANGED <<level, phase, fd, visited, released>>
  <2>0. PICK c : c = cu
    OBVIOUS
  <2>1. c = v + 1 /\ v + 1 \in Dies
    BY <1>5, <1>8, <2>0
  <2>2. level[c] = 0 /\ c \in Dies /\ c \in Nat
    BY <1>3, <1>4, <2>1 DEF AtHeader
  <2>3. /\ Dies' = Dies
        /\ \A d, e : SubtreeEnd(d, e)' <=> SubtreeEnd(d, e)
    BY <1>8, SameLevels
  <2>4. /\ Len(frames') = 1 /\ DOMAIN frames' = {1} /\ frames' # <<>>
        /\ frames'[1] = [in |-> c, cur |-> c, parent |-> None, cursym |-> None]
    BY <1>8, <2>0 DEF Frame
  <2>5. Top' = frames'[1]
    BY <2>4 DEF Top
  <2>6. PICK e \in Dies : SubtreeEnd(c, e) /\ NextHeader(c) = HeaderOffset(e + 1)
    BY <1>2, <2>2, NextHeaderIs
  <2>7. frames' \in Seq([in : Dies, cur : Dies, parent : Nat, cursym : Nat])
    BY <1>8, <2>0, <2>2 DEF Frame, None
  <2>8. nextCUOffset' \in Nat
    BY <1>3, <1>8, <2>0, <2>6 DEF HeaderOffset
  <2>9. TraversalType'
    BY <1>2, <1>8, <2>0, <2>2, <2>3, <2>7, <2>8 DEF TraversalType
  <2>10. FramesNested'
    BY <1>3, <1>8, <2>2, <2>4 DEF FramesNested
  <2>11. Progress'
    BY <1>4, <1>8, <2>1, <2>4, <2>5 DEF Progress
  <2>12. SymbolsPassed'
    BY <1>8, <2>4 DEF SymbolsPassed
  <2>13. OffsetsRight'
    <3>1. curCUOffset' = HeaderOffset(c)
      BY <1>4, <1>8, <2>1
    <3>2. SubtreeEnd(c, e)' /\ nextCUOffset' = HeaderOffset(e + 1)
      BY <1>8, <2>0, <2>3, <2>6
    <3> QED
      BY <2>3, <2>4, <3>1, <3>2 DEF OffsetsRight, HeaderOffset
  <2>14. HandlesOpen'
    <3>1. released[c] = 0
      BY <1>2, <1>3, <1>4, <2>1, <2>2 DEF Reading, HandlesOpen, TraversalType
    <3> QED
      BY <1>2, <1>8, <2>0, <2>3, <2>4, <3>1 DEF Reading, HandlesOpen
  <2>15. HandlesValid'
    BY <1>1, <1>8, <2>0, <2>3, <2>4 DEF TraversalInv, HandlesValid
  <2>16. /\ \A i \in DOMAIN visited' : visited'[i].die = i
         /\ ParentIsEnclosing' /\ CuOffsetRight'
    BY <1>8, HistoryKept
  <2> QED
    BY <1>1, <1>8, <2>9, <2>10, <2>11, <2>12, <2>13, <2>14, <2>15, <2>16
       DEF TraversalInv, VisitedInOrder, Reading
<1> QED
  BY <1>6, <1>7, <1>8 DEF read_cu_list

\* Where the innermost call is.
LEMMA TopIs ==
    ASSUME TraversalType, Reading, frames # <<>>
    PROVE  /\ Len(frames) \in Nat /\ Len(frames) >= 1
           /\ Len(frames) \in DOMAIN frames /\ DOMAIN frames = 1..Len(frames)
           /\ Top = frames[Len(frames)] /\ Top \in FrameType
           /\ Top.cur \in Dies /\ Top.in \in Dies /\ Top.cur \in Nat
           /\ Top.in <= Top.cur /\ level[Top.cur] = Len(frames) - 1
           /\ Top.in \in handles /\ Top.cur \in handles
           /\ Len(visited) \in Nat
<1>1. frames \in Seq(FrameType) /\ visited \in Seq(VisitType)
  BY DEF TraversalType, FrameType, VisitType
<1>2. /\ Len(frames) \in Nat /\ Len(frames) >= 1
      /\ Len(frames) \in DOMAIN frames /\ DOMAIN frames = 1..Len(frames)
      /\ Len(visited) \in Nat
  BY <1>1
<1>3. Top = frames[Len(frames)] /\ Top \in FrameType
  BY <1>1, <1>2 DEF Top
<1>4. Top.cur \in Dies /\ Top.in \in Dies
  BY <1>3 DEF FrameType
<1>5. Dies \subseteq Nat
  <2>1. level \in Levels
    BY DEF TraversalType
  <2> QED
    BY <2>1, LevelsAre
<1> QED
  BY <1>2, <1>3, <1>4, <1>5 DEF Reading, FramesNested, HandlesOpen

\* A DIE is handed over after the one before it, with the right parent and CU.
LEMMA VisitedRight ==
    ASSUME TraversalInv, phase = "read_cu_list", frames # <<>>, pc = "init"
    PROVE  /\ Len(visited) + 1 = Top.cur
           /\ IF Enclosing(Top.cur) = None THEN Top.parent = None
              ELSE \E j \in 1..Len(visited) : /\ visited[j].die = Enclosing(Top.cur)
                                              /\ Top.parent = visited[j].sym
           /\ curCUOffset = HeaderOffset(CuOf(Top.cur))
<1> DEFINE m == Len(frames)
           c == Top.cur
<1>1. /\ level \in Levels /\ Reading /\ TraversalType
  BY DEF TraversalInv, TraversalType
<1>2. Dies \subseteq Nat /\ level \in [Dies -> Nat] /\ None \notin Dies
  BY <1>1, LevelsAre DEF None
<1>3. /\ m \in Nat /\ m >= 1 /\ m \in DOMAIN frames /\ DOMAIN frames = 1..m
      /\ Top = frames[m] /\ c \in Dies /\ level[c] = m - 1 /\ Len(visited) \in Nat
      /\ c \in Nat
  BY <1>1, TopIs
<1>4. Len(visited) + 1 = c
  BY <1>1, <1>3 DEF Reading, Progress
<1>5. \A i \in DOMAIN frames : frames[i].cur \in Dies /\ level[frames[i].cur] = i - 1
  <2>0. frames \in Seq(FrameType)
    BY <1>1 DEF TraversalType, FrameType
  <2>1. \A i \in DOMAIN frames : frames[i] \in FrameType
    BY <2>0
  <2> QED
    BY <1>1, <2>1 DEF FrameType, Reading, FramesNested
<1>6. IF Enclosing(c) = None THEN Top.parent = None
      ELSE \E j \in 1..Len(visited) : /\ visited[j].die = Enclosing(c)
                                      /\ Top.parent = visited[j].sym
  <2>1. CASE m = 1
    <3>1. Enclosing(c) = None
      BY <1>3, <2>1 DEF Enclosing
    <3>2. Top.parent = None
      BY <1>1, <1>3, <2>1 DEF Reading, SymbolsPassed
    <3> QED
      BY <3>1, <3>2
  <2>2. CASE m > 1
    <3> DEFINE b == frames[m - 1].cur
    <3>1. m - 1 \in DOMAIN frames /\ m - 1 \in 1..(m - 1) /\ m - 1 < m
      BY <1>3, <2>2
    <3>2. b \in Dies /\ level[b] = (m - 1) - 1 /\ b < c
      BY <1>1, <1>3, <1>5, <3>1 DEF Reading, FramesNested
    <3>3. \A x \in (b + 1)..c : level[x] >= m - 1
      BY <1>1, <3>1 DEF Reading, FramesNested
    <3> HIDE DEF b
    <3>4. Enclosing(c) = b
      BY <1>1, <1>3, <3>2, <3>3, EnclosingIs
    <3>5. b \in DOMAIN visited /\ frames[m - 1].cursym = visited[b].sym
      BY <1>1, <3>1 DEF Reading, SymbolsPassed, b
    <3>6. Top.parent = frames[m - 1].cursym
      BY <1>1, <1>3, <2>2 DEF Reading, SymbolsPassed
    <3>7. visited[b].die = b
      BY <3>5 DEF TraversalInv, VisitedInOrder
    <3>8. b \in 1..Len(visited)
      BY <1>2, <1>3, <1>4, <3>2, LevelsAre, <1>1
    <3> QED
      BY <1>2, <3>2, <3>4, <3>5, <3>6, <3>7, <3>8
  <2> QED
    BY <1>3, <2>1, <2>2
<1>7. curCUOffset = HeaderOffset(CuOf(c))
  <2> DEFINE u == frames[1].cur
  <2>1. 1 \in DOMAIN frames /\ u \in Dies /\ level[u] = 0
    BY <1>3, <1>5
  <2>2. curCUOffset = HeaderOffset(u)
    BY <1>1 DEF Reading, OffsetsRight
  <2>3. u <= c /\ \A x \in (u + 1)..c : level[x] > 0
    <3>1. CASE m = 1
      <4>1. u = c
        BY <1>3, <3>1
      <4>2. (u + 1)..c = {} /\ u <= c
        BY <1>3, <4>1
      <4> QED
        BY <4>2
    <3>2. CASE m > 1
      <4>1. 1 \in 1..(m - 1) /\ 1 < m
        BY <1>3, <3>2
      <4>2. u < c /\ \A x \in (u + 1)..c : level[x] >= 1
        BY <1>1, <1>3, <2>1, <4>1 DEF Reading, FramesNested
      <4>3. \A x \in (u + 1)..c : x \in Dies
        BY <1>1, <1>2, <1>3, <2>1, LevelsAre
      <4>4. \A x \in (u + 1)..c : level[x] > 0
        BY <1>2, <4>2, <4>3
      <4>5. u <= c
        <5>1. u \in Nat
          BY <1>2, <2>1
        <5> HIDE DEF u, c
        <5> QED
          BY <1>3, <4>2, <5>1
      <4> QED
        BY <4>4, <4>5
    <3> QED
      BY <1>3, <3>1, <3>2
  <2> HIDE DEF u
  <2>4. CuOf(c) = u
    BY <1>1, <1>3, <2>1, <2>3, CuIs
  <2> QED
    BY <2>2, <2>4
<1> QED
  BY <1>4, <1>6, <1>7

\* Handing a DIE over adds one right entry to the history.
LEMMA HistoryGrows ==
    ASSUME TraversalInv, phase = "read_cu_list", frames # <<>>, pc = "init", NEW s \in Nat,
           UNCHANGED level,
           visited' = Append(visited, [die |-> Top.cur, parent |-> Top.parent,
                                       sym |-> s, cu |-> curCUOffset])
    PROVE  /\ visited' \in Seq(VisitType)
           /\ Len(visited') = Top.cur
           /\ visited'[Top.cur].sym = s
           /\ \A i \in DOMAIN visited : i \in DOMAIN visited' /\ visited'[i] = visited[i]
           /\ \A i \in DOMAIN visited' : visited'[i].die = i
           /\ ParentIsEnclosing' /\ CuOffsetRight'
<1> DEFINE c == Top.cur
           e == [die |-> Top.cur, parent |-> Top.parent, sym |-> s, cu |-> curCUOffset]
<1>1. /\ level \in Levels /\ Reading /\ TraversalType
  BY DEF TraversalInv, TraversalType
<1>2. Top \in FrameType /\ c \in Nat /\ Len(visited) \in Nat
  BY <1>1, TopIs
<1>3. e \in VisitType /\ visited \in Seq(VisitType)
  BY <1>1, <1>2 DEF VisitType, FrameType, TraversalType
<1>4. /\ Len(visited) + 1 = c
      /\ IF Enclosing(c) = None THEN Top.parent = None
         ELSE \E j \in 1..Len(visited) : /\ visited[j].die = Enclosing(c)
                                         /\ Top.parent = visited[j].sym
      /\ curCUOffset = HeaderOffset(CuOf(c))
  BY VisitedRight
<1>5. /\ e.die = c /\ e.parent = Top.parent /\ e.sym = s /\ e.cu = curCUOffset
  OBVIOUS
<1>6. PICK d : d = c
  OBVIOUS
<1>7. PICK f : f = e
  OBVIOUS
<1>8. /\ visited' \in Seq(VisitType) /\ Len(visited') = d
      /\ DOMAIN visited = 1..(d - 1) /\ DOMAIN visited' = 1..d
      /\ visited'[d] = f
      /\ \A i \in 1..(d - 1) : visited'[i] = visited[i]
  <2>1. visited' = Append(visited, f) /\ f \in VisitType
    BY <1>3, <1>7
  <2> QED
    BY <1>2, <1>3, <1>4, <1>6, <2>1
<1>9. /\ f.die = d /\ f.parent = Top.parent /\ f.sym = s /\ f.cu = curCUOffset
      /\ d \in Nat
  BY <1>2, <1>5, <1>6, <1>7
<1>10. \A i \in 1..d : i = d \/ i \in 1..(d - 1)
  BY <1>9
<1>11. /\ \A x : Enclosing(x)' = Enclosing(x)
       /\ \A x : CuOf(x)' = CuOf(x)
  BY SameLevels
<1>12. \A i \in DOMAIN visited' : visited'[i].die = i
  BY <1>8, <1>9, <1>10 DEF TraversalInv, VisitedInOrder
<1>13. ASSUME NEW i \in DOMAIN visited'
       PROVE  LET b == Enclosing(i)
              IN  IF b = None THEN visited'[i].parent = None
                  ELSE \E j \in 1..(i - 1) : /\ visited'[j].die = b
                                             /\ visited'[i].parent = visited'[j].sym
  <2>1. CASE i = d
    <3>1. visited'[i] = f /\ visited'[i].die = d
      BY <1>8, <1>9, <2>1
    <3>2. Enclosing(i) = Enclosing(c)
      BY <1>6, <2>1
    <3>3. Len(visited) = d - 1
      BY <1>2, <1>4, <1>6
    <3> QED
      BY <1>4, <1>8, <1>9, <2>1, <3>1, <3>2, <3>3
  <2>2. CASE i \in 1..(d - 1)
    <3>1. i \in DOMAIN visited /\ visited'[i] = visited[i]
      BY <1>8, <2>2
    <3>2. LET b == Enclosing(i)
          IN  IF b = None THEN visited[i].parent = None
              ELSE \E j \in 1..(i - 1) : visited[j].die = b /\ visited[i].parent = visited[j].sym
      BY <3>1 DEF TraversalInv, ParentIsEnclosing, VisitedInOrder
    <3>3. \A j \in 1..(i - 1) : visited'[j] = visited[j]
      BY <1>8, <1>9, <2>2
    <3> QED
      BY <3>1, <3>2, <3>3
  <2> QED
    BY <1>8, <1>10, <2>1, <2>2
<1>14. ASSUME NEW i \in DOMAIN visited'
       PROVE  visited'[i].cu = HeaderOffset(CuOf(i))
  <2>1. CASE i = d
    BY <1>4, <1>6, <1>8, <1>9, <2>1
  <2>2. CASE i \in 1..(d - 1)
    BY <1>8, <2>2 DEF TraversalInv, CuOffsetRight, VisitedInOrder
  <2> QED
    BY <1>8, <1>10, <2>1, <2>2
<1>15. ParentIsEnclosing'
  BY <1>11, <1>12, <1>13 DEF ParentIsEnclosing
<1>16. CuOffsetRight'
  BY <1>11, <1>12, <1>14 DEF CuOffsetRight, HeaderOffset
<1> QED
  BY <1>6, <1>8, <1>9, <1>10, <1>12, <1>15, <1>16

\* initSymbolFromDie returns a symbol or nullptr, or throws.
LEMMA InitSymbolInv ==
    ASSUME TraversalInv, initSymbolFromDie
    PROVE  TraversalInv'
<1> DEFINE m == Len(frames)
<1>1. phase = "read_cu_list" /\ frames # <<>> /\ pc = "init"
  BY DEF initSymbolFromDie
<1>2. /\ level \in Levels /\ Reading /\ TraversalType
  BY <1>1 DEF TraversalInv, TraversalType
<1>3. /\ m \in Nat /\ m >= 1 /\ m \in DOMAIN frames /\ DOMAIN frames = 1..m
      /\ Top = frames[m] /\ Top \in FrameType /\ Top.cur \in Dies /\ Top.cur \in Nat
  BY <1>1, <1>2, TopIs
<1>4. PICK c : c = Top.cur
  OBVIOUS
<1>5. PICK s \in {c, None} :
          /\ visited' = Append(visited, [die |-> Top.cur, parent |-> Top.parent,
                                         sym |-> s, cu |-> curCUOffset])
          /\ \/ /\ s = None
                /\ phase' = "thrown"
                /\ Destroy
                /\ UNCHANGED <<level, cuVars, frames, pc, released>>
             \/ /\ frames' = [frames EXCEPT ![m].cursym = s]
                /\ pc' = "child"
                /\ UNCHANGED <<level, phase, fd, cuVars, handles, released>>
  BY <1>4 DEF initSymbolFromDie
<1>6. s \in Nat /\ UNCHANGED level
  BY <1>3, <1>4, <1>5 DEF None
<1>7. /\ visited' \in Seq(VisitType) /\ Len(visited') = c /\ visited'[c].sym = s
      /\ \A i \in DOMAIN visited : i \in DOMAIN visited' /\ visited'[i] = visited[i]
      /\ \A i \in DOMAIN visited' : visited'[i].die = i
      /\ ParentIsEnclosing' /\ CuOffsetRight'
  BY <1>1, <1>4, <1>5, <1>6, HistoryGrows
<1>8. /\ Dies' = Dies
      /\ \A d, e : SubtreeEnd(d, e)' <=> SubtreeEnd(d, e)
  BY <1>6, SameLevels
<1>9. CASE /\ phase' = "thrown"
           /\ Destroy
           /\ UNCHANGED <<level, cuVars, frames, pc, released>>
  <2>1. handles' = {} /\ fd' = "closed"
    BY <1>9 DEF Destroy
  <2>2. TraversalType'
    BY <1>2, <1>7, <1>8, <1>9, <2>1 DEF TraversalType, VisitType, cuVars
  <2>3. HandlesValid'
    BY <1>8, <1>9, <2>1 DEF TraversalInv, HandlesValid
  <2> QED
    BY <1>7, <1>9, <2>2, <2>3 DEF TraversalInv, VisitedInOrder
<1>10. CASE /\ frames' = [frames EXCEPT ![m].cursym = s]
            /\ pc' = "child"
            /\ UNCHANGED <<level, phase, fd, cuVars, handles, released>>
  <2>1. frames \in Seq(FrameType)
    BY <1>2 DEF TraversalType, FrameType
  <2>2. /\ frames' \in Seq(FrameType) /\ Len(frames') = m /\ DOMAIN frames' = DOMAIN frames
        /\ frames' # <<>>
    <3>1. [frames[m] EXCEPT !.cursym = s] \in FrameType
      BY <1>3, <1>6 DEF FrameType
    <3>2. frames' = [frames EXCEPT ![m] = [frames[m] EXCEPT !.cursym = s]]
      BY <1>10
    <3>3. frames' \in Seq(FrameType) /\ Len(frames') = m
      BY <1>3, <2>1, <3>1, <3>2
    <3> QED
      BY <1>3, <3>2, <3>3
  <2>3. \A i \in DOMAIN frames : /\ frames'[i].cur = frames[i].cur
                                 /\ frames'[i].in = frames[i].in
                                 /\ frames'[i].parent = frames[i].parent
                                 /\ frames'[i].cursym = IF i = m THEN s ELSE frames[i].cursym
    BY <1>3, <1>10, <2>1 DEF FrameType
  <2>4. Top' = frames'[m] /\ Top'.cur = c
    BY <1>3, <1>4, <2>2, <2>3 DEF Top
  <2>5. TraversalType'
    BY <1>2, <1>7, <1>8, <1>10, <2>2 DEF TraversalType, VisitType, FrameType, cuVars
  <2>6. FramesNested'
    BY <1>2, <1>3, <1>4, <1>8, <1>10, <2>2, <2>3, <2>4 DEF Reading, FramesNested
  <2>7. Progress'
    BY <1>7, <1>10, <2>2, <2>4 DEF Progress
  <2>8. SymbolsPassed'
    <3>1. ASSUME NEW i \in DOMAIN frames
          PROVE  /\ frames'[i].cur \in DOMAIN visited'
                 /\ frames'[i].cursym = visited'[frames'[i].cur].sym
      <4>1. CASE i = m
        <5>1. c \in DOMAIN visited'
          BY <1>2, <1>3, <1>4, <1>7, LevelsAre
        <5> QED
          BY <1>3, <1>4, <1>7, <2>3, <4>1, <5>1
      <4>2. CASE i # m
        <5>1. i < m
          BY <1>3, <4>2
        <5>2. frames[i].cur \in DOMAIN visited /\ frames[i].cursym = visited[frames[i].cur].sym
          BY <1>2, <5>1 DEF Reading, SymbolsPassed
        <5> QED
          BY <1>7, <2>3, <4>2, <5>2
      <4> QED
        BY <4>1, <4>2
    <3>2. ASSUME NEW i \in DOMAIN frames
          PROVE  frames'[i].parent = IF i = 1 THEN None ELSE frames'[i - 1].cursym
      <4>1. frames[i].parent = IF i = 1 THEN None ELSE frames[i - 1].cursym
        BY <1>2 DEF Reading, SymbolsPassed
      <4>2. i # 1 => i - 1 \in DOMAIN frames /\ i - 1 # m
        BY <1>3
      <4> QED
        BY <2>3, <4>1, <4>2
    <3> QED
      BY <2>2, <3>1, <3>2 DEF SymbolsPassed
  <2>9. OffsetsRight'
    <3>1. frames'[1].cur = frames[1].cur
      BY <1>3, <2>3
    <3> QED
      BY <1>1, <1>2, <1>8, <1>10, <2>2, <3>1
         DEF Reading, OffsetsRight, HeaderOffset, cuVars
  <2>10. HandlesOpen'
    <3>1. Len(visited) <= Len(visited')
      BY <1>1, <1>4, <1>7, VisitedRight, <1>3
    <3>2. Len(visited) \in Nat /\ Len(visited') \in Nat /\ Dies \subseteq Nat
      BY <1>2, <1>3, <1>4, <1>7, TopIs, <1>1, LevelsAre
    <3>3. \A d \in Dies : released[d] # 0 => d <= Len(visited')
      <4>1. \A d \in Dies : released[d] # 0 => d <= Len(visited)
        BY <1>2 DEF Reading, HandlesOpen
      <4> QED
        BY <3>1, <3>2, <4>1
    <3> QED
      BY <1>2, <1>8, <1>10, <2>2, <2>3, <3>3 DEF Reading, HandlesOpen
  <2>11. HandlesValid'
    BY <1>1, <1>8, <1>10, <2>2, <2>3 DEF TraversalInv, HandlesValid
  <2> QED
    BY <1>1, <1>7, <1>10, <2>5, <2>6, <2>7, <2>8, <2>9, <2>10, <2>11
       DEF TraversalInv, VisitedInOrder, Reading
<1> QED
  BY <1>5, <1>9, <1>10

\* The call for a child is one level deeper; without a child the subtree is
\* complete.
LEMMA DescendInv ==
    ASSUME TraversalInv, descend
    PROVE  TraversalInv'
<1> DEFINE m == Len(frames)
<1>1. phase = "read_cu_list" /\ frames # <<>> /\ pc = "child"
  BY DEF descend
<1>2. /\ level \in Levels /\ Reading /\ TraversalType
  BY <1>1 DEF TraversalInv, TraversalType
<1>3. /\ m \in Nat /\ m >= 1 /\ m \in DOMAIN frames /\ DOMAIN frames = 1..m
      /\ Top = frames[m] /\ Top \in FrameType /\ Top.cur \in Dies /\ Top.cur \in Nat
      /\ level[Top.cur] = m - 1
  BY <1>1, <1>2, TopIs
<1>4. PICK c : c = Top.cur
  OBVIOUS
<1>5. PICK child : child = dwarf_child(c)
  OBVIOUS
<1>6. Len(visited) = c
  BY <1>1, <1>2, <1>4 DEF Reading, Progress
<1>7. \/ /\ child = c + 1 /\ child # None /\ child \in Dies
         /\ level[child] = m
      \/ child = None /\ SubtreeEnd(c, c)
  BY <1>2, <1>3, <1>4, <1>5, ChildIs
<1>8. Dies \subseteq Nat /\ level \in [Dies -> Nat]
  BY <1>2, LevelsAre
<1>9. CASE Exit
  BY <1>1, <1>9, ExitInv
<1>10. CASE /\ child = None
            /\ pc' = "sibling"
            /\ UNCHANGED <<level, phase, fd, cuVars, frames, handles, visited, released>>
  <2>1. /\ Dies' = Dies
        /\ \A d, e : SubtreeEnd(d, e)' <=> SubtreeEnd(d, e)
    BY <1>10, SameLevels
  <2>2. Top' = Top
    BY <1>10 DEF Top
  <2>3. SubtreeEnd(c, c)
    BY <1>7, <1>10
  <2>4. TraversalType'
    BY <1>2, <1>10, <2>1 DEF TraversalType, cuVars
  <2>5. FramesNested'
    BY <1>2, <1>10, <2>2 DEF Reading, FramesNested
  <2>6. Progress'
    <3>1. Top'.cur = c /\ Len(visited') = c /\ frames' # <<>> /\ pc' = "sibling"
      BY <1>1, <1>4, <1>6, <1>10, <2>2
    <3> QED
      BY <2>1, <2>3, <3>1 DEF Progress
  <2>7. SymbolsPassed'
    BY <1>1, <1>2, <1>10 DEF Reading, SymbolsPassed
  <2>8. OffsetsRight'
    BY <1>1, <1>2, <1>10, <2>1 DEF Reading, OffsetsRight, HeaderOffset, cuVars
  <2>9. HandlesOpen' /\ HandlesValid'
    BY <1>2, <1>10, <2>1 DEF TraversalInv, Reading, HandlesOpen, HandlesValid
  <2>10. /\ \A i \in DOMAIN visited' : visited'[i].die = i
         /\ ParentIsEnclosing' /\ CuOffsetRight'
    BY <1>10, HistoryKept
  <2> QED
    BY <1>1, <1>10, <2>4, <2>5, <2>6, <2>7, <2>8, <2>9, <2>10
       DEF TraversalInv, VisitedInOrder, Reading
<1>11. CASE /\ child # None
            /\ handles' = handles \cup {child}
            /\ frames' = Append(frames, Frame(child, Top.cursym))
            /\ pc' = "init"
            /\ UNCHANGED <<level, phase, fd, cuVars, visited, released>>
  <2>1. child = c + 1 /\ child \in Dies /\ level[child] = m /\ child \in Nat
    BY <1>7, <1>8, <1>11
  <2>2. /\ Dies' = Dies
        /\ \A d, e : SubtreeEnd(d, e)' <=> SubtreeEnd(d, e)
    BY <1>11, SameLevels
  <2>3. PICK f : f = Frame(child, Top.cursym)
    OBVIOUS
  <2>4. /\ f \in FrameType /\ f.in = child /\ f.cur = child /\ f.parent = Top.cursym
    BY <1>3, <2>1, <2>3 DEF Frame, FrameType, None
  <2>5. frames \in Seq(FrameType)
    BY <1>2 DEF TraversalType, FrameType
  <2>6. /\ frames' \in Seq(FrameType) /\ Len(frames') = m + 1
        /\ DOMAIN frames' = 1..(m + 1) /\ frames' # <<>>
        /\ frames'[m + 1] = f
        /\ \A i \in DOMAIN frames : frames'[i] = frames[i]
    BY <1>3, <1>11, <2>3, <2>4, <2>5
  <2>7. Top' = f
    BY <2>6 DEF Top
  <2>8. \A i \in DOMAIN frames' : i \in DOMAIN frames \/ i = m + 1
    BY <1>3, <2>6
  <2>9. \A i \in DOMAIN frames : /\ frames[i].cur \in Dies /\ frames[i].cur <= c
                                 /\ i \in Nat /\ i <= m
    <3>1. \A i \in DOMAIN frames : frames[i] \in FrameType
      BY <2>5
    <3>2. \A i \in DOMAIN frames : i < m => frames[i].cur < c
      BY <1>2, <1>3, <1>4 DEF Reading, FramesNested
    <3>3. \A i \in DOMAIN frames : frames[i].cur \in Dies
      BY <3>1 DEF FrameType
    <3>4. \A i \in DOMAIN frames : i \in Nat /\ i <= m /\ (i < m \/ i = m)
      BY <1>3
    <3>5. \A i \in DOMAIN frames : frames[i].cur <= c
      <4> SUFFICES ASSUME NEW i \in DOMAIN frames PROVE frames[i].cur <= c
        OBVIOUS
      <4>1. frames[i].cur \in Nat /\ c \in Nat
        BY <1>3, <1>4, <1>8, <3>3
      <4>2. frames[i].cur < c \/ frames[i].cur = c
        BY <1>3, <1>4, <3>2, <3>4
      <4> QED
        BY <4>1, <4>2
    <3> QED
      BY <3>3, <3>4, <3>5
  <2>10. TraversalType'
    BY <1>2, <1>11, <2>1, <2>2, <2>6 DEF TraversalType, FrameType, cuVars
  <2>11. FramesNested'
    <3>1. \A i \in DOMAIN frames' : /\ level'[frames'[i].cur] = i - 1
                                    /\ frames'[i].in <= frames'[i].cur
      BY <1>2, <1>3, <1>11, <2>1, <2>4, <2>6, <2>8 DEF Reading, FramesNested
    <3>2. ASSUME NEW i \in DOMAIN frames', NEW j \in DOMAIN frames', i < j
          PROVE  frames'[i].cur < frames'[j].cur
      <4>1. i \in DOMAIN frames
        BY <1>3, <2>6, <3>2
      <4>2. CASE j \in DOMAIN frames
        BY <1>2, <2>6, <3>2, <4>1, <4>2 DEF Reading, FramesNested
      <4>3. CASE j = m + 1
        <5>1. frames'[i].cur \in Nat /\ frames'[i].cur <= c /\ c \in Nat
          BY <1>3, <1>4, <1>8, <2>6, <2>9, <4>1
        <5>2. frames'[j].cur = c + 1
          BY <2>1, <2>4, <2>6, <4>3
        <5> QED
          BY <5>1, <5>2
      <4> QED
        BY <2>8, <4>2, <4>3
    <3>3. ASSUME NEW i \in 1..(Len(frames') - 1), NEW x \in (frames'[i].cur + 1)..Top'.cur
          PROVE  level'[x] >= i
      <4>1. i \in DOMAIN frames /\ i \in 1..m /\ frames'[i].cur = frames[i].cur
        BY <1>3, <2>6
      <4>2. frames[i].cur \in Nat /\ c \in Nat /\ Top'.cur = c + 1
        BY <1>3, <1>4, <1>8, <2>1, <2>4, <2>7, <2>9, <4>1
      <4>3. CASE x = c + 1
        BY <1>3, <1>11, <2>1, <4>1, <4>3
      <4>4. CASE x # c + 1
        <5>1. x \in (frames[i].cur + 1)..c
          BY <3>3, <4>1, <4>2, <4>4
        <5>2. i \in 1..(m - 1)
          BY <1>3, <1>4, <4>1, <4>2, <5>1
        <5> QED
          BY <1>2, <1>4, <1>11, <5>1, <5>2 DEF Reading, FramesNested
      <4> QED
        BY <4>3, <4>4
    <3> QED
      BY <3>1, <3>2, <3>3 DEF FramesNested
  <2>12. Progress'
    <3>1. Len(visited') = child - 1 /\ Top'.cur = child
      BY <1>3, <1>4, <1>6, <1>11, <2>1, <2>4, <2>7
    <3> QED
      BY <1>11, <2>6, <3>1 DEF Progress
  <2>13. SymbolsPassed'
    <3>1. ASSUME NEW i \in DOMAIN frames', i < Len(frames') \/ pc' # "init"
          PROVE  /\ frames'[i].cur \in DOMAIN visited'
                 /\ frames'[i].cursym = visited'[frames'[i].cur].sym
      <4>1. i \in DOMAIN frames
        BY <1>3, <1>11, <2>6, <2>8, <3>1
      <4> QED
        BY <1>1, <1>2, <1>11, <2>6, <4>1 DEF Reading, SymbolsPassed
    <3>2. ASSUME NEW i \in DOMAIN frames'
          PROVE  frames'[i].parent = IF i = 1 THEN None ELSE frames'[i - 1].cursym
      <4>1. CASE i \in DOMAIN frames
        <5>1. frames[i].parent = IF i = 1 THEN None ELSE frames[i - 1].cursym
          BY <1>2, <4>1 DEF Reading, SymbolsPassed
        <5>2. i # 1 => i - 1 \in DOMAIN frames
          BY <1>3, <4>1
        <5> QED
          BY <2>6, <4>1, <5>1, <5>2
      <4>2. CASE i = m + 1
        <5>1. i # 1 /\ i - 1 = m
          BY <1>3, <4>2
        <5> QED
          BY <1>3, <2>4, <2>6, <4>2, <5>1
      <4> QED
        BY <2>8, <4>1, <4>2
    <3> QED
      BY <3>1, <3>2 DEF SymbolsPassed
  <2>14. OffsetsRight'
    <3>1. frames'[1] = frames[1]
      BY <1>3, <2>6
    <3> QED
      BY <1>1, <1>2, <1>11, <2>2, <2>6, <3>1
         DEF Reading, OffsetsRight, HeaderOffset, cuVars
  <2>15. HandlesOpen'
    <3>1. released[child] = 0
      BY <1>2, <1>3, <1>4, <1>6, <2>1 DEF Reading, HandlesOpen
    <3>2. \A i \in DOMAIN frames' : frames'[i].in \in handles' /\ frames'[i].cur \in handles'
      BY <1>2, <1>11, <2>4, <2>6, <2>8 DEF Reading, HandlesOpen
    <3> QED
      BY <1>2, <1>11, <2>2, <3>1, <3>2 DEF Reading, HandlesOpen
  <2>16. HandlesValid'
    BY <1>1, <1>11, <2>2, <2>15 DEF TraversalInv, HandlesValid, HandlesOpen
  <2>17. /\ \A i \in DOMAIN visited' : visited'[i].die = i
         /\ ParentIsEnclosing' /\ CuOffsetRight'
    BY <1>11, HistoryKept
  <2> QED
    BY <1>1, <1>11, <2>10, <2>11, <2>12, <2>13, <2>14, <2>15, <2>16, <2>17
       DEF TraversalInv, VisitedInOrder, Reading
<1> QED
  BY <1>4, <1>5, <1>9, <1>10, <1>11 DEF descend

\* A sequence of length 0 is the empty one.
LEMMA EmptyIs ==
    ASSUME NEW S, NEW s \in Seq(S)
    PROVE  s = <<>> <=> Len(s) = 0
OBVIOUS

\* The count of dwarf_dealloc calls after those for the DIEs of done.
LEMMA ReleasedIs ==
    ASSUME TraversalType, NEW done,
           released' = [d \in Dies |-> released[d] + Cardinality(done \cap {d})]
    PROVE  /\ released' \in [Dies -> Nat]
           /\ \A d \in Dies : d \in done => released'[d] = released[d] + 1
           /\ \A d \in Dies : d \notin done => released'[d] = released[d]
<1>1. \A d \in Dies : released[d] \in Nat
  BY DEF TraversalType
<1>2. \A d \in Dies : released'[d] = released[d] + Cardinality(done \cap {d})
  OBVIOUS
<1>3. ASSUME NEW d \in Dies, d \in done
      PROVE  released'[d] = released[d] + 1
  <2>1. done \cap {d} = {d}
    BY <1>3
  <2>2. Cardinality({d}) = 1
    BY FS_Singleton
  <2> QED
    BY <1>2, <2>1, <2>2
<1>4. ASSUME NEW d \in Dies, d \notin done
      PROVE  released'[d] = released[d]
  <2>1. done \cap {d} = {}
    BY <1>4
  <2>2. Cardinality({}) = 0
    BY FS_EmptySet
  <2>3. released'[d] = released[d] + 0
    BY <1>2, <2>1, <2>2
  <2> QED
    BY <1>1, <2>3
<1>5. \A d \in Dies : released'[d] \in Nat
  <2> SUFFICES ASSUME NEW d \in Dies PROVE released'[d] \in Nat
    OBVIOUS
  <2>1. CASE d \in done
    BY <1>1, <1>3, <2>1
  <2>2. CASE d \notin done
    BY <1>1, <1>4, <2>2
  <2> QED
    BY <2>1, <2>2
<1> QED
  BY <1>3, <1>4, <1>5

\* On to the sibling, which follows the subtree.
LEMMA SiblingInv ==
    ASSUME TraversalInv, phase = "read_cu_list", frames # <<>>, pc = "sibling",
           NEW sib, sib = dwarf_siblingof(Top.cur), sib # None,
           NEW done, done = {Top.cur} \ {Top.in},
           handles' = (handles \ done) \cup {sib},
           released' = [d \in Dies |-> released[d] + Cardinality(done \cap {d})],
           frames' = [frames EXCEPT ![Len(frames)].cur = sib],
           pc' = "init",
           UNCHANGED <<level, phase, fd, cuVars, visited>>
    PROVE  TraversalInv'
<1> DEFINE m == Len(frames)
           v == Len(visited)
<1>1. /\ level \in Levels /\ Reading /\ TraversalType
  BY DEF TraversalInv, TraversalType
<1>2. /\ m \in Nat /\ m >= 1 /\ m \in DOMAIN frames /\ DOMAIN frames = 1..m
      /\ Top = frames[m] /\ Top \in FrameType /\ Top.cur \in Dies /\ Top.in \in Dies
      /\ Top.in <= Top.cur /\ level[Top.cur] = m - 1
      /\ Top.in \in handles /\ Top.cur \in handles /\ v \in Nat
  BY <1>1, TopIs
<1>3. PICK c : c = Top.cur
  OBVIOUS
<1>4. Dies \subseteq Nat /\ level \in [Dies -> Nat]
  BY <1>1, LevelsAre
<1>5. SubtreeEnd(c, v)
  BY <1>1, <1>3 DEF Reading, Progress
<1>6. sib = v + 1 /\ sib \in Dies /\ level[sib] = m - 1 /\ m - 1 > 0
  BY <1>1, <1>2, <1>3, <1>5, SiblingIs
<1>7. c \in Dies /\ c \in Nat /\ c <= v /\ sib \in Nat /\ c < sib
  BY <1>2, <1>3, <1>4, <1>5, <1>6 DEF SubtreeEnd
<1>8. /\ Dies' = Dies
      /\ \A d, e : SubtreeEnd(d, e)' <=> SubtreeEnd(d, e)
  BY SameLevels
<1>9. frames \in Seq(FrameType)
  BY <1>1 DEF TraversalType, FrameType
<1>10. /\ frames' \in Seq(FrameType) /\ Len(frames') = m /\ DOMAIN frames' = DOMAIN frames
       /\ frames' # <<>>
  <2>1. [frames[m] EXCEPT !.cur = sib] \in FrameType
    BY <1>2, <1>6 DEF FrameType
  <2>2. frames' = [frames EXCEPT ![m] = [frames[m] EXCEPT !.cur = sib]]
    OBVIOUS
  <2>3. frames' \in Seq(FrameType) /\ Len(frames') = m
    BY <1>2, <1>9, <2>1, <2>2
  <2> QED
    BY <1>2, <2>2, <2>3
<1>11. \A i \in DOMAIN frames : /\ frames'[i].cur = IF i = m THEN sib ELSE frames[i].cur
                                /\ frames'[i].in = frames[i].in
                                /\ frames'[i].parent = frames[i].parent
                                /\ frames'[i].cursym = frames[i].cursym
                                /\ frames[i].cur \in Nat /\ frames[i].in \in Nat
                                /\ frames[i].in <= frames[i].cur
                                /\ i # m => i < m /\ frames[i].cur < c
  <2>1. \A i \in DOMAIN frames : frames[i] \in FrameType
    BY <1>9
  <2>2. \A i \in DOMAIN frames : frames[i].cur \in Nat /\ frames[i].in \in Nat
    BY <1>4, <2>1 DEF FrameType
  <2>3. \A i \in DOMAIN frames : /\ frames'[i].cur = IF i = m THEN sib ELSE frames[i].cur
                                 /\ frames'[i].in = frames[i].in
                                 /\ frames'[i].parent = frames[i].parent
                                 /\ frames'[i].cursym = frames[i].cursym
    BY <1>2, <2>1 DEF FrameType
  <2>4. \A i \in DOMAIN frames : i # m => i < m
    BY <1>2
  <2> QED
    BY <1>1, <1>2, <1>3, <2>2, <2>3, <2>4 DEF Reading, FramesNested
<1>12. Top' = frames'[m] /\ Top'.cur = sib
  BY <1>2, <1>10, <1>11 DEF Top
<1>13. done \subseteq {c} /\ Top.in \notin done /\ done \subseteq Dies
  BY <1>2, <1>3
<1>14. /\ \A d \in Dies : d \in done => released'[d] = released[d] + 1
       /\ \A d \in Dies : d \notin done => released'[d] = released[d]
       /\ released' \in [Dies -> Nat]
  BY <1>1, ReleasedIs
<1>15. \A d \in Dies : released[d] \in Nat
  BY <1>1 DEF TraversalType
<1>16. TraversalType'
  BY <1>1, <1>6, <1>8, <1>10, <1>14 DEF TraversalType, FrameType, cuVars
<1>17. FramesNested'
  <2>1. \A i \in DOMAIN frames' : /\ level'[frames'[i].cur] = i - 1
                                  /\ frames'[i].in <= frames'[i].cur
    <3> SUFFICES ASSUME NEW i \in DOMAIN frames
                 PROVE  level[frames'[i].cur] = i - 1 /\ frames'[i].in <= frames'[i].cur
      BY <1>10
    <3>1. CASE i = m
      <4>1. frames'[i].cur = sib /\ frames'[i].in = frames[m].in
        BY <1>11, <3>1
      <4>2. frames[m].in <= c /\ frames[m].in \in Nat
        BY <1>2, <1>3, <1>11
      <4> QED
        BY <1>6, <1>7, <3>1, <4>1, <4>2
    <3>2. CASE i # m
      BY <1>1, <1>11, <3>2 DEF Reading, FramesNested
    <3> QED
      BY <3>1, <3>2
  <2>2. ASSUME NEW i \in DOMAIN frames, NEW j \in DOMAIN frames, i < j
        PROVE  frames'[i].cur < frames'[j].cur
    <3>1. i # m
      BY <1>2, <2>2
    <3>2. frames'[i].cur = frames[i].cur /\ frames[i].cur < c /\ frames[i].cur \in Nat
      BY <1>11, <3>1
    <3>3. CASE j = m
      <4>1. frames'[j].cur = sib
        BY <1>11, <3>3
      <4> QED
        BY <1>7, <3>2, <4>1
    <3>4. CASE j # m
      BY <1>1, <1>11, <2>2, <3>2, <3>4 DEF Reading, FramesNested
    <3> QED
      BY <3>3, <3>4
  <2>3. ASSUME NEW i \in 1..(m - 1), NEW x \in (frames'[i].cur + 1)..sib
        PROVE  level[x] >= i
    <3>1. i \in DOMAIN frames /\ i # m /\ i \in Nat /\ i <= m - 1
      BY <1>2
    <3>2. frames'[i].cur = frames[i].cur /\ frames[i].cur \in Nat
      BY <1>11, <3>1
    <3>3. CASE x = sib
      BY <1>2, <1>6, <3>1, <3>3
    <3>4. CASE x <= c
      <4>1. x \in (frames[i].cur + 1)..c
        BY <1>7, <2>3, <3>2, <3>4
      <4> QED
        BY <1>1, <1>3, <4>1 DEF Reading, FramesNested
    <3>5. CASE x > c /\ x # sib
      <4>1. x \in (c + 1)..v
        BY <1>2, <1>6, <1>7, <2>3, <3>2, <3>5
      <4>2. level[x] > level[c] /\ level[c] = m - 1
        BY <1>2, <1>3, <1>5, <4>1 DEF SubtreeEnd
      <4>3. x \in Dies
        BY <1>1, <1>5, <1>7, <4>1, LevelsAre DEF SubtreeEnd
      <4> QED
        BY <1>2, <1>4, <3>1, <4>2, <4>3
    <3> QED
      BY <1>7, <2>3, <3>2, <3>3, <3>4, <3>5
  <2> QED
    BY <1>10, <1>12, <2>1, <2>2, <2>3 DEF FramesNested
<1>18. Progress'
  BY <1>2, <1>6, <1>10, <1>12 DEF Progress
<1>19. SymbolsPassed'
  <2>1. ASSUME NEW i \in DOMAIN frames, i < m
        PROVE  /\ frames'[i].cur \in DOMAIN visited
               /\ frames'[i].cursym = visited[frames'[i].cur].sym
    BY <1>1, <1>2, <1>11, <2>1 DEF Reading, SymbolsPassed
  <2>2. ASSUME NEW i \in DOMAIN frames
        PROVE  frames'[i].parent = IF i = 1 THEN None ELSE frames'[i - 1].cursym
    <3>1. i # 1 => i - 1 \in DOMAIN frames
      BY <1>2
    <3> QED
      BY <1>1, <1>11, <3>1 DEF Reading, SymbolsPassed
  <2> QED
    BY <1>10, <2>1, <2>2 DEF SymbolsPassed
<1>20. OffsetsRight'
  <2>1. frames'[1].cur = frames[1].cur
    BY <1>2, <1>6, <1>11
  <2> QED
    BY <1>1, <1>8, <1>10, <2>1 DEF Reading, OffsetsRight, HeaderOffset, cuVars
<1>21. HandlesOpen'
  <2>1. ASSUME NEW i \in DOMAIN frames
        PROVE  frames'[i].in \in handles' /\ frames'[i].cur \in handles'
    <3>1. frames[i].in \in handles /\ frames[i].cur \in handles
      BY <1>1 DEF Reading, HandlesOpen
    <3>2. CASE i = m
      BY <1>2, <1>11, <1>13, <3>1, <3>2
    <3>3. CASE i # m
      <4>1. frames[i].cur # c /\ frames[i].in # c
        BY <1>7, <1>11, <3>3
      <4> QED
        BY <1>11, <1>13, <3>1, <3>3, <4>1
    <3> QED
      BY <3>2, <3>3
  <2>2. released[sib] = 0
    BY <1>1, <1>2, <1>6 DEF Reading, HandlesOpen
  <2>3. sib \notin done
    BY <1>7, <1>13
  <2>4. \A d \in handles' : released'[d] = 0
    <3>1. \A d \in handles : d \in Dies /\ released[d] = 0
      BY <1>1 DEF Reading, HandlesOpen, TraversalType
    <3> QED
      BY <1>6, <1>14, <2>2, <2>3, <3>1
  <2>5. \A d \in Dies : released'[d] # 0 => d <= Len(visited')
    <3>1. \A d \in Dies : released[d] # 0 => d <= v
      BY <1>1 DEF Reading, HandlesOpen
    <3> QED
      BY <1>7, <1>13, <1>14, <3>1
  <2> QED
    BY <1>8, <1>10, <2>1, <2>4, <2>5 DEF HandlesOpen
<1>22. \A d \in Dies : released'[d] <= 1
  <2>1. \A d \in done : released[d] = 0
    BY <1>1, <1>2, <1>3, <1>13 DEF Reading, HandlesOpen
  <2>2. \A d \in Dies : released[d] <= 1
    BY DEF TraversalInv, HandlesValid
  <2> SUFFICES ASSUME NEW d \in Dies PROVE released'[d] <= 1
    OBVIOUS
  <2>3. CASE d \in done
    BY <1>14, <2>1, <2>3
  <2>4. CASE d \notin done
    BY <1>14, <2>2, <2>4
  <2> QED
    BY <2>3, <2>4
<1>23. HandlesValid'
  BY <1>8, <1>21, <1>22 DEF HandlesValid, HandlesOpen
<1>24. /\ \A i \in DOMAIN visited' : visited'[i].die = i
       /\ ParentIsEnclosing' /\ CuOffsetRight'
  BY HistoryKept
<1> QED
  BY <1>16, <1>17, <1>18, <1>19, <1>20, <1>21, <1>23, <1>24
     DEF TraversalInv, VisitedInOrder, Reading

\* Back to the caller, whose DIE's subtree is then complete too.
LEMMA ReturnInv ==
    ASSUME TraversalInv, phase = "read_cu_list", frames # <<>>, pc = "sibling",
           dwarf_siblingof(Top.cur) = None,
           NEW done, done = IF Len(frames) = 1 THEN {Top.in} ELSE {},
           handles' = handles \ done,
           released' = [d \in Dies |-> released[d] + Cardinality(done \cap {d})],
           frames' = SubSeq(frames, 1, Len(frames) - 1),
           pc' = "sibling",
           UNCHANGED <<level, phase, fd, cuVars, visited>>
    PROVE  TraversalInv'
<1> DEFINE m == Len(frames)
           v == Len(visited)
<1>1. /\ level \in Levels /\ Reading /\ TraversalType
  BY DEF TraversalInv, TraversalType
<1>2. /\ m \in Nat /\ m >= 1 /\ m \in DOMAIN frames /\ DOMAIN frames = 1..m
      /\ Top = frames[m] /\ Top \in FrameType /\ Top.cur \in Dies /\ Top.in \in Dies
      /\ Top.in <= Top.cur /\ level[Top.cur] = m - 1
      /\ Top.in \in handles /\ Top.cur \in handles /\ v \in Nat
  BY <1>1, TopIs
<1>3. PICK c : c = Top.cur
  OBVIOUS
<1>4. Dies \subseteq Nat /\ level \in [Dies -> Nat]
  BY <1>1, LevelsAre
<1>5. SubtreeEnd(c, v)
  BY <1>1, <1>3 DEF Reading, Progress
<1>6. ~(m - 1 > 0 /\ v + 1 \in Dies /\ level[v + 1] = m - 1)
  <2>1. v + 1 # None
    BY <1>2 DEF None
  <2> QED
    BY <1>1, <1>2, <1>3, <1>5, <2>1, SiblingIs
<1>7. c \in Dies /\ c \in Nat /\ c <= v /\ v \in Dies /\ level[c] = m - 1
      /\ (v + 1 \in Dies => level[v + 1] <= m - 1 /\ level[v + 1] \in Nat)
  BY <1>2, <1>3, <1>4, <1>5 DEF SubtreeEnd
<1>8. /\ Dies' = Dies
      /\ \A d, e : SubtreeEnd(d, e)' <=> SubtreeEnd(d, e)
      /\ \A x : AtHeader(x)' <=> AtHeader(x)
  BY SameLevels
<1>9. frames \in Seq(FrameType)
  BY <1>1 DEF TraversalType, FrameType
<1>10. /\ frames' \in Seq(FrameType) /\ Len(frames') = m - 1 /\ DOMAIN frames' = 1..(m - 1)
       /\ \A i \in 1..(m - 1) : frames'[i] = frames[i] /\ i \in DOMAIN frames
       /\ m = 1 => frames' = <<>>
       /\ m > 1 => frames' # <<>>
  <2>1. m - 1 \in 0..m /\ m - 1 \in Nat
    BY <1>2
  <2>2. frames' \in Seq(FrameType) /\ Len(frames') = m - 1 /\ DOMAIN frames' = 1..(m - 1)
    BY <1>2, <1>9, <2>1
  <2>3. \A i \in 1..(m - 1) : frames'[i] = frames[i] /\ i \in DOMAIN frames
    BY <1>2, <1>9, <2>1
  <2>4. m = 1 => Len(frames') = 0
    BY <1>2, <2>2
  <2>5. m > 1 => Len(frames') # 0
    BY <1>2, <2>2
  <2>6. frames' = <<>> <=> Len(frames') = 0
    BY <2>2, EmptyIs
  <2> QED
    BY <2>2, <2>3, <2>4, <2>5, <2>6
<1>11. done \subseteq Dies /\ \A d \in done : d \in handles /\ released[d] = 0 /\ d <= v
  <2>1. Top.in \in Dies /\ Top.in \in handles /\ released[Top.in] = 0 /\ Top.in <= v
    <3>1. released[Top.in] = 0
      BY <1>1, <1>2 DEF Reading, HandlesOpen
    <3>2. Top.in \in Nat /\ Top.in <= c
      BY <1>2, <1>3, <1>4
    <3> QED
      BY <1>2, <1>7, <3>1, <3>2
  <2> QED
    BY <2>1
<1>12. /\ \A d \in Dies : d \in done => released'[d] = released[d] + 1
       /\ \A d \in Dies : d \notin done => released'[d] = released[d]
       /\ released' \in [Dies -> Nat]
  BY <1>1, ReleasedIs
<1>13. \A d \in Dies : released[d] \in Nat
  BY <1>1 DEF TraversalType
<1>14. TraversalType'
  BY <1>1, <1>8, <1>10, <1>12 DEF TraversalType, FrameType, cuVars
<1>15. \A d \in Dies : released'[d] <= 1
  <2>1. \A d \in Dies : released[d] <= 1
    BY DEF TraversalInv, HandlesValid
  <2> SUFFICES ASSUME NEW d \in Dies PROVE released'[d] <= 1
    OBVIOUS
  <2>2. CASE d \in done
    BY <1>11, <1>12, <2>2
  <2>3. CASE d \notin done
    BY <1>12, <2>1, <2>3
  <2> QED
    BY <2>2, <2>3
<1>16. /\ \A d \in handles' : released'[d] = 0
       /\ \A d \in Dies : released'[d] # 0 => d <= Len(visited')
  BY <1>1, <1>11, <1>12 DEF Reading, HandlesOpen, TraversalType
<1>17. /\ \A i \in DOMAIN visited' : visited'[i].die = i
       /\ ParentIsEnclosing' /\ CuOffsetRight'
  BY HistoryKept
<1>18. CASE m = 1
  <2>1. frames' = <<>> /\ DOMAIN frames' = {} /\ Len(frames') = 0
    BY <1>10, <1>18
  <2>2. FramesNested'
    BY <2>1 DEF FramesNested
  <2>3. Progress' /\ SymbolsPassed'
    BY <1>7, <1>8, <2>1 DEF Progress, SymbolsPassed
  <2>4. AtHeader(v)
    BY <1>7, <1>18 DEF AtHeader
  <2>5. nextCUOffset = HeaderOffset(v + 1)
    <3>1. frames[1].cur = c
      BY <1>2, <1>3, <1>18
    <3>2. PICK e \in Dies : SubtreeEnd(c, e) /\ nextCUOffset = HeaderOffset(e + 1)
      BY <1>1, <3>1 DEF Reading, OffsetsRight
    <3>3. e = v
      BY <1>1, <1>5, <1>7, <3>2, EndUnique
    <3> QED
      BY <3>2, <3>3
  <2>6. OffsetsRight'
    BY <1>8, <2>1, <2>4, <2>5 DEF OffsetsRight, HeaderOffset, cuVars
  <2>7. HandlesOpen' /\ HandlesValid'
    BY <1>8, <1>15, <1>16, <2>1 DEF HandlesOpen, HandlesValid
  <2> QED
    BY <1>14, <1>17, <2>2, <2>3, <2>6, <2>7 DEF TraversalInv, VisitedInOrder, Reading
<1>19. CASE m > 1
  <2>1. PICK b : b = frames[m - 1].cur
    OBVIOUS
  <2>2. m - 1 \in DOMAIN frames /\ m - 1 \in 1..(m - 1) /\ m - 1 < m
    BY <1>2, <1>19
  <2>3. b \in Dies /\ level[b] = (m - 1) - 1 /\ b < c /\ b \in Nat
    <3>1. frames[m - 1] \in FrameType
      BY <1>9, <2>2
    <3>2. b \in Dies
      BY <2>1, <3>1 DEF FrameType
    <3> QED
      BY <1>1, <1>2, <1>3, <1>4, <2>1, <2>2, <3>2 DEF Reading, FramesNested
  <2>4. Top' = frames[m - 1] /\ Top'.cur = b
    BY <1>10, <2>1, <2>2 DEF Top
  <2>5. SubtreeEnd(b, v)
    <3>1. ASSUME NEW x \in (b + 1)..v
          PROVE  level[x] > level[b]
      <4>0. x \in Dies
        BY <1>1, <1>7, <2>3, LevelsAre
      <4>1. CASE x <= c
        <5>1. x \in (frames[m - 1].cur + 1)..Top.cur
          BY <1>3, <1>7, <2>1, <2>3, <4>1
        <5>2. level[x] >= m - 1
          BY <1>1, <2>2, <5>1 DEF Reading, FramesNested
        <5> QED
          BY <1>2, <1>4, <2>3, <4>0, <5>2
      <4>2. CASE x > c
        <5>1. x \in (c + 1)..v
          BY <1>7, <2>3, <4>2
        <5>2. level[x] > m - 1
          BY <1>5, <1>7, <5>1 DEF SubtreeEnd
        <5> QED
          BY <1>2, <1>4, <2>3, <4>0, <5>2
      <4> QED
        BY <1>7, <2>3, <4>1, <4>2
    <3>2. v + 1 \in Dies => level[v + 1] <= level[b]
      BY <1>2, <1>6, <1>7, <1>19, <2>3
    <3>3. b <= v
      BY <1>2, <1>7, <2>3
    <3> QED
      BY <1>7, <3>1, <3>2, <3>3 DEF SubtreeEnd
  <2>6. FramesNested'
    <3>1. ASSUME NEW i \in 1..((m - 1) - 1), NEW x \in (frames[i].cur + 1)..b
          PROVE  level[x] >= i
      <4>1. i \in 1..(m - 1) /\ i \in DOMAIN frames
        BY <1>2
      <4>2. frames[i].cur \in Nat
        <5>1. frames[i] \in FrameType
          BY <1>9, <4>1
        <5> QED
          BY <1>4, <5>1 DEF FrameType
      <4>3. x \in (frames[i].cur + 1)..Top.cur
        BY <1>3, <1>7, <2>3, <3>1, <4>2
      <4> QED
        BY <1>1, <4>1, <4>3 DEF Reading, FramesNested
    <3>2. \A i \in DOMAIN frames' : /\ level'[frames'[i].cur] = i - 1
                                    /\ frames'[i].in <= frames'[i].cur
      BY <1>1, <1>10 DEF Reading, FramesNested
    <3>3. \A i, j \in DOMAIN frames' : i < j => frames'[i].cur < frames'[j].cur
      BY <1>1, <1>10 DEF Reading, FramesNested
    <3>4. ASSUME NEW i \in 1..(Len(frames') - 1), NEW x \in (frames'[i].cur + 1)..Top'.cur
          PROVE  level'[x] >= i
      <4>1. i \in 1..((m - 1) - 1) /\ i \in 1..(m - 1)
        BY <1>2, <1>10
      <4>2. x \in (frames[i].cur + 1)..b
        BY <1>10, <2>4, <4>1
      <4> QED
        BY <3>1, <4>1, <4>2
    <3> QED
      BY <3>2, <3>3, <3>4 DEF FramesNested
  <2>7. Progress'
    BY <1>8, <1>10, <1>19, <2>4, <2>5 DEF Progress
  <2>8. SymbolsPassed'
    <3>1. ASSUME NEW i \in 1..(m - 1)
          PROVE  /\ frames[i].cur \in DOMAIN visited
                 /\ frames[i].cursym = visited[frames[i].cur].sym
                 /\ frames[i].parent = IF i = 1 THEN None ELSE frames'[i - 1].cursym
      <4>1. i \in DOMAIN frames /\ i < m /\ (i # 1 => i - 1 \in 1..(m - 1))
        BY <1>2
      <4> QED
        BY <1>1, <1>10, <4>1 DEF Reading, SymbolsPassed
    <3> QED
      BY <1>10, <3>1, SMTT(20) DEF SymbolsPassed
  <2>9. OffsetsRight'
    <3>1. frames'[1] = frames[1] /\ frames' # <<>>
      BY <1>2, <1>10, <1>19
    <3> QED
      BY <1>1, <1>8, <3>1 DEF Reading, OffsetsRight, HeaderOffset, cuVars
  <2>10. HandlesOpen'
    <3>0. done = {}
      BY <1>2, <1>19
    <3>1. handles' = handles
      BY <3>0
    <3> QED
      BY <1>1, <1>10, <1>16, <3>1, <1>8 DEF Reading, HandlesOpen
  <2>11. HandlesValid'
    BY <1>8, <1>15, <2>10, ZenonT(40) DEF HandlesValid, HandlesOpen
  <2> QED
    BY <1>14, <1>17, <2>6, <2>7, <2>8, <2>9, <2>10, <2>11
       DEF TraversalInv, VisitedInOrder, Reading
<1> QED
  BY <1>2, <1>18, <1>19

\* The three outcomes of dwarf_siblingof.
LEMMA NextSiblingInv ==
    ASSUME TraversalInv, next_sibling
    PROVE  TraversalInv'
<1> DEFINE sib == dwarf_siblingof(Top.cur)
           done == IF sib # None THEN {Top.cur} \ {Top.in}
                   ELSE IF Len(frames) = 1 THEN {Top.in} ELSE {}
<1>1. phase = "read_cu_list" /\ frames # <<>> /\ pc = "sibling"
  BY DEF next_sibling
<1>2. CASE Exit
  BY <1>1, <1>2, ExitInv
<1>3. CASE /\ handles' = (handles \ done) \cup ({sib} \ {None})
           /\ released' = [d \in Dies |-> released[d] + Cardinality(done \cap {d})]
           /\ frames' = IF sib = None THEN SubSeq(frames, 1, Len(frames) - 1)
                        ELSE [frames EXCEPT ![Len(frames)].cur = sib]
           /\ pc' = IF sib = None THEN "sibling" ELSE "init"
           /\ UNCHANGED <<level, phase, fd, cuVars, visited>>
  <2>1. PICK s : s = sib
    OBVIOUS
  <2>2. PICK D : D = done
    OBVIOUS
  <2>3. /\ handles' = (handles \ D) \cup ({s} \ {None})
        /\ released' = [d \in Dies |-> released[d] + Cardinality(D \cap {d})]
        /\ frames' = IF s = None THEN SubSeq(frames, 1, Len(frames) - 1)
                     ELSE [frames EXCEPT ![Len(frames)].cur = s]
        /\ pc' = IF s = None THEN "sibling" ELSE "init"
        /\ UNCHANGED <<level, phase, fd, cuVars, visited>>
        /\ s = dwarf_siblingof(Top.cur)
        /\ D = IF s # None THEN {Top.cur} \ {Top.in}
               ELSE IF Len(frames) = 1 THEN {Top.in} ELSE {}
    BY <1>3, <2>1, <2>2
  <2> HIDE DEF sib, done
  <2>4. CASE s # None
    <3>1. /\ D = {Top.cur} \ {Top.in}
          /\ frames' = [frames EXCEPT ![Len(frames)].cur = s]
          /\ pc' = "init"
      BY <2>3, <2>4
    <3>2. {s} \ {None} = {s}
      BY <2>4
    <3>3. handles' = (handles \ D) \cup {s}
      BY <2>3, <3>2
    <3> QED
      BY <1>1, <2>3, <2>4, <3>1, <3>3, SiblingInv
  <2>5. CASE s = None
    BY <1>1, <2>3, <2>5, ReturnInv
  <2> QED
    BY <2>4, <2>5
<1> QED
  BY <1>2, <1>3 DEF next_sibling

\* Before the file is opened nothing was read.
LEMMA InitTraversal == Init => TraversalInv
<1> SUFFICES ASSUME Init PROVE TraversalInv
  OBVIOUS
<1>1. /\ visited = <<>> /\ frames = <<>> /\ handles = {} /\ phase = "start"
      /\ \A d \in Dies : released[d] = 0
  BY DEF Init
<1>2. DOMAIN visited = {} /\ DOMAIN frames = {}
  BY <1>1
<1>3. TraversalType
  BY DEF Init, TraversalType
<1>4. VisitedInOrder /\ ParentIsEnclosing /\ CuOffsetRight /\ HandlesValid
  BY <1>1, <1>2 DEF VisitedInOrder, ParentIsEnclosing, CuOffsetRight, HandlesValid
<1> QED
  BY <1>1, <1>3, <1>4 DEF TraversalInv, Init

\* Doing nothing keeps the invariant.
LEMMA StutterTraversal ==
    ASSUME TraversalInv, UNCHANGED vars
    PROVE  TraversalInv'
<1> USE DEF vars, cuVars
<1>1. /\ Dies' = Dies
      /\ \A d, e : SubtreeEnd(d, e)' <=> SubtreeEnd(d, e)
      /\ \A v : AtHeader(v)' <=> AtHeader(v)
  BY SameLevels
<1>2. /\ \A i \in DOMAIN visited' : visited'[i].die = i
      /\ ParentIsEnclosing' /\ CuOffsetRight'
  BY HistoryKept
<1>3. TraversalType'
  BY <1>1 DEF TraversalInv, TraversalType
<1>4. HandlesValid' /\ VisitedInOrder'
  BY <1>1 DEF TraversalInv, HandlesValid, VisitedInOrder
<1>5. Top' = Top
  BY DEF Top
<1>6. Reading => Reading'
  <2> SUFFICES ASSUME Reading PROVE Reading'
    OBVIOUS
  <2>1. FramesNested'
    BY <1>5 DEF Reading, FramesNested
  <2>2. Progress'
    <3>1. PICK c : c = Top.cur
      OBVIOUS
    <3>2. PICK v : v = Len(visited)
      OBVIOUS
    <3>3. Top'.cur = c /\ Len(visited') = v
      BY <1>5, <3>1, <3>2
    <3>4. SubtreeEnd(c, v)' <=> SubtreeEnd(c, v)
      BY <1>1
    <3>5. CASE frames = <<>>
      BY <1>1, <3>5 DEF Reading, Progress
    <3>6. CASE frames # <<>> /\ pc = "sibling"
      BY <3>1, <3>2, <3>3, <3>4, <3>6 DEF Reading, Progress
    <3>7. CASE frames # <<>> /\ pc # "sibling"
      BY <3>1, <3>2, <3>3, <3>7 DEF Reading, Progress, TraversalInv, TraversalType
    <3> QED
      BY <3>5, <3>6, <3>7
  <2>3. SymbolsPassed'
    BY DEF Reading, SymbolsPassed
  <2>4. OffsetsRight'
    BY <1>1 DEF Reading, OffsetsRight, HeaderOffset
  <2>5. HandlesOpen'
    BY <1>1 DEF Reading, HandlesOpen
  <2> QED
    BY <2>1, <2>2, <2>3, <2>4, <2>5 DEF Reading
<1> QED
  BY <1>1, <1>2, <1>3, <1>4, <1>6 DEF TraversalInv

\* The inductive invariant behind the theorems on the traversal.
LEMMA TraversalInvariant == Spec => []TraversalInv
<1>1. TraversalInv /\ [Next]_vars => TraversalInv'
  BY OpenInv, ReadCuInv, InitSymbolInv, DescendInv, NextSiblingInv, StutterTraversal DEF Next
<1> QED
  BY <1>1, InitTraversal, PTL DEF Spec

-----------------------------------------------------------------------------
(* What the invariant says of the traversal. *)

\* The recursion of get_die_and_siblings over children and siblings is a walk
\* through the section in order, for any nesting, and skips nothing.
THEOREM VisitsInOrder == Spec => []VisitedInOrder
<1>1. TraversalInv => VisitedInOrder
  BY DEF TraversalInv
<1> QED
  BY <1>1, TraversalInvariant, PTL

\* The parent symbol a DIE is given is that of the DIE that encloses it, for
\* any depth of the recursion.
THEOREM ParentsEnclose == Spec => []ParentIsEnclosing
<1>1. TraversalInv => ParentIsEnclosing
  BY DEF TraversalInv
<1> QED
  BY <1>1, TraversalInvariant, PTL

\* The CU offset that references are relative to is that of the DIE's CU.
THEOREM CuOffsetsRight == Spec => []CuOffsetRight
<1>1. TraversalInv => CuOffsetRight
  BY DEF TraversalInv
<1> QED
  BY <1>1, TraversalInvariant, PTL

\* No handle is used after dwarf_dealloc or deallocated twice, for sections of
\* every shape and failures at any point.
THEOREM HandlesStayValid == Spec => []HandlesValid
<1>1. TraversalInv => HandlesValid
  BY DEF TraversalInv
<1> QED
  BY <1>1, TraversalInvariant, PTL

=============================================================================
