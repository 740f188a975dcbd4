---------------------------- MODULE DieTraversal -----------------------------
(***************************************************************************)
(* A DwarfParser from the opening of a file to its end: the constructor,   *)
(* read_cu_list, the recursion of get_die_and_siblings and the destructor, *)
(* with the file descriptor and the DIE handles of libdwarf.               *)
(*                                                                         *)
(* The DIEs of the file are 1..MaxDies in section order; level[d] is the   *)
(* depth of d, so a DIE of level 0 is the single DIE of a compile unit.    *)
(* level is chosen in the initial state: a behaviour ranges over every     *)
(* .debug_info section of up to MaxDies DIEs.  libdwarf is external: any   *)
(* call of it may fail.                                                    *)
(***************************************************************************)
EXTENDS Integers, Sequences, FiniteSets

CONSTANT MaxDies    \* bound: DIEs of a file

ASSUME TraversalAssumption == MaxDies \in Nat

None == 0       \* no DIE, a null symbol

VARIABLES
    level,      \* the file: level of each DIE
    phase,      \* where the caller of parseDwarfFromFilename is
    fd,         \* "unopened", "open" or "closed"
    curCUOffset, nextCUOffset,
    frames,     \* calls of get_die_and_siblings: in_die, cur_die, parent, cursym
    pc,         \* the next step of the innermost call
    handles,    \* DIE handles allocated by libdwarf and not deallocated
    \* History, for the properties.
    visited,    \* calls of initSymbolFromDie: DIE, parent, symbol, curCUOffset
    released    \* number of dwarf_dealloc calls for each DIE handle

cuVars == <<curCUOffset, nextCUOffset>>
vars == <<level, phase, fd, cuVars, frames, pc, handles, visited, released>>

Dies == DOMAIN level
Levels ==
    {l \in UNION {[1..n -> 0..MaxDies] : n \in 0..MaxDies} :
        \A d \in DOMAIN l : IF d = 1 THEN l[d] = 0 ELSE l[d] <= l[d - 1] + 1}

Least(S) == IF S = {} THEN None ELSE CHOOSE x \in S : \A y \in S : x <= y

-----------------------------------------------------------------------------
(* libdwarf: None is DW_DLV_NO_ENTRY. *)

dwarf_child(d) == IF d + 1 \in Dies /\ level[d + 1] = level[d] + 1 THEN d + 1 ELSE None

\* The single DIE of a CU has no sibling.
dwarf_siblingof(d) ==
    LET after == {e \in Dies : e > d /\ level[e] <= level[d]}
        next == Least(after)
    IN  IF level[d] > 0 /\ next # None /\ level[next] = level[d] THEN next ELSE None

\* DIE d is at offset 2 * d - 1, and the header of a CU just before its DIE.
HeaderOffset(d) == 2 * (d - 1)

\* The CU dwarf_next_cu_header comes to from off, where the previous one
\* ended, and the CU of a DIE.
dwarf_next_cu(off) == Least({d \in Dies : level[d] = 0 /\ HeaderOffset(d) >= off})
CuOf(d) == CHOOSE c \in Dies : /\ level[c] = 0 /\ c <= d
                               /\ \A e \in Dies : level[e] = 0 /\ e <= d => e <= c

\* next_cu_header: the offset of the following header, or the section's end.
NextHeader(d) ==
    LET n == dwarf_next_cu(HeaderOffset(d) + 1)
    IN  IF n = None THEN HeaderOffset(Cardinality(Dies) + 1) ELSE HeaderOffset(n)

-----------------------------------------------------------------------------
Top == frames[Len(frames)]
Frame(die, parent) == [in |-> die, cur |-> die, parent |-> parent, cursym |-> None]

\* exit(1) after an error of libdwarf.
Exit ==
    /\ phase' = "exited"
    /\ UNCHANGED <<level, fd, cuVars, frames, pc, handles, visited, released>>

\* ~DwarfParser: dwarf_finish releases what libdwarf allocated, close(fd).
Destroy ==
    /\ handles' = {}
    /\ fd' = "closed"

\* parseDwarfFromFilename and the constructor.  When dwarf_init fails the
\* constructor throws, and the destructor does not run.
parseDwarfFromFilename ==
    /\ phase = "start"
    /\ fd' = "open"
    /\ phase' \in {"read_cu_list", "thrown"}
    /\ UNCHANGED <<level, cuVars, frames, pc, handles, visited, released>>

\* FAULTY: the CU offset follows the header that was just read.
read_cu_list_Ahead ==
    /\ phase = "read_cu_list" /\ frames = <<>>
    /\ \/ Exit
       \/ LET cu == dwarf_next_cu(nextCUOffset)
          IN  IF cu = None
              THEN /\ phase' = "returned"
                   /\ Destroy
                   /\ UNCHANGED <<level, cuVars, frames, pc, visited, released>>
              ELSE /\ nextCUOffset' = NextHeader(cu)
                   /\ curCUOffset' = NextHeader(cu)
                   /\ handles' = handles \cup {cu}
                   /\ frames' = <<Frame(cu, None)>>
                   /\ pc' = "init"
                   /\ UNCHANGED <<level, phase, fd, visited, released>>

\* One turn of the loop of read_cu_list, up to the call for the CU's DIE.
read_cu_list ==
    /\ phase = "read_cu_list" /\ frames = <<>>
    /\ \/ Exit
       \/ LET cu == dwarf_next_cu(nextCUOffset)
          IN  /\ curCUOffset' = nextCUOffset
              /\ IF cu = None
                 THEN /\ phase' = "returned"
                      /\ Destroy
                      /\ UNCHANGED <<level, nextCUOffset, frames, pc, visited, released>>
                 ELSE /\ nextCUOffset' = NextHeader(cu)
                      /\ handles' = handles \cup {cu}
                      /\ frames' = <<Frame(cu, None)>>
                      /\ pc' = "init"
                      /\ UNCHANGED <<level, phase, fd, visited, released>>

\* initSymbolFromDie: a symbol (named by its DIE) or nullptr, or an exception,
\* which leaves the parser through every frame.
initSymbolFromDie ==
    /\ phase = "read_cu_list" /\ frames # <<>> /\ pc = "init"
    /\ \E s \in {Top.cur, None} :
          /\ visited' = Append(visited, [die |-> Top.cur, parent |-> Top.parent,
                                         sym |-> s, cu |-> curCUOffset])
          /\ \/ /\ s = None
                /\ phase' = "thrown"
                /\ Destroy
                /\ UNCHANGED <<level, cuVars, frames, pc, released>>
             \/ /\ frames' = [frames EXCEPT ![Len(frames)].cursym = s]
                /\ pc' = "child"
                /\ UNCHANGED <<level, phase, fd, cuVars, handles, released>>

\* FAULTY: the children of the last DIE of a level are left out.
descend_NotLast ==
    /\ phase = "read_cu_list" /\ frames # <<>> /\ pc = "child"
    /\ LET child == dwarf_child(Top.cur)
       IN  IF child = None \/ (level[Top.cur] > 0 /\ dwarf_siblingof(Top.cur) = None)
           THEN /\ pc' = "sibling"
                /\ UNCHANGED <<level, phase, fd, cuVars, frames, handles, visited, released>>
           ELSE /\ handles' = handles \cup {child}
                /\ frames' = Append(frames, Frame(child, Top.cursym))
                /\ pc' = "init"
                /\ UNCHANGED <<level, phase, fd, cuVars, visited, released>>

\* FAULTY: a child that no symbol encloses gets the parent of its parent.
descend_Inherits ==
    /\ phase = "read_cu_list" /\ frames # <<>> /\ pc = "child"
    /\ LET child == dwarf_child(Top.cur)
           parent == IF Top.cursym = None THEN Top.parent ELSE Top.cursym
       IN  IF child = None
           THEN /\ pc' = "sibling"
                /\ UNCHANGED <<level, phase, fd, cuVars, frames, handles, visited, released>>
           ELSE /\ handles' = handles \cup {child}
                /\ frames' = Append(frames, Frame(child, parent))
                /\ pc' = "init"
                /\ UNCHANGED <<level, phase, fd, cuVars, visited, released>>

\* dwarf_child, and the call for the child if there is one.
descend ==
    /\ phase = "read_cu_list" /\ frames # <<>> /\ pc = "child"
    /\ \/ Exit
       \/ LET child == dwarf_child(Top.cur)
          IN  IF child = None
              THEN /\ pc' = "sibling"
                   /\ UNCHANGED <<level, phase, fd, cuVars, frames, handles, visited, released>>
              ELSE /\ handles' = handles \cup {child}
                   /\ frames' = Append(frames, Frame(child, Top.cursym))
                   /\ pc' = "init"
                   /\ UNCHANGED <<level, phase, fd, cuVars, visited, released>>

\* FAULTY: does not go back to the caller at the end of a level.
next_sibling_Stays ==
    /\ phase = "read_cu_list" /\ frames # <<>> /\ pc = "sibling"
    /\ LET sib == dwarf_siblingof(Top.cur)
       IN  /\ handles' = handles \cup ({sib} \ {None})
           /\ frames' = IF sib = None THEN frames ELSE [frames EXCEPT ![Len(frames)].cur = sib]
           /\ pc' = IF sib = None THEN "child" ELSE "init"
           /\ UNCHANGED <<level, phase, fd, cuVars, visited, released>>

\* FAULTY: deallocates the first DIE of a level too.
next_sibling_FreesFirst ==
    /\ phase = "read_cu_list" /\ frames # <<>> /\ pc = "sibling"
    /\ \/ Exit
       \/ LET sib == dwarf_siblingof(Top.cur)
          IN  /\ handles' = (handles \ {Top.cur}) \cup ({sib} \ {None})
              /\ released' = [released EXCEPT ![Top.cur] = @ + 1]
              /\ frames' = IF sib = None THEN SubSeq(frames, 1, Len(frames) - 1)
                           ELSE [frames EXCEPT ![Len(frames)].cur = sib]
              /\ pc' = IF sib = None THEN "sibling" ELSE "init"
              /\ UNCHANGED <<level, phase, fd, cuVars, visited>>

\* dwarf_siblingof: on to the sibling, or back to the caller.  The last DIE of
\* a level is not deallocated, nor is the first: read_cu_list does that for
\* the DIE of a CU.
next_sibling ==
    /\ phase = "read_cu_list" /\ frames # <<>> /\ pc = "sibling"
    /\ \/ Exit
       \/ LET sib == dwarf_siblingof(Top.cur)
              done == IF sib # None THEN {Top.cur} \ {Top.in}
                      ELSE IF Len(frames) = 1 THEN {Top.in} ELSE {}
          IN  /\ handles' = (handles \ done) \cup ({sib} \ {None})
              /\ released' = [d \in Dies |-> released[d] + Cardinality(done \cap {d})]
              /\ frames' = IF sib = None THEN SubSeq(frames, 1, Len(frames) - 1)
                           ELSE [frames EXCEPT ![Len(frames)].cur = sib]
              /\ pc' = IF sib = None THEN "sibling" ELSE "init"
              /\ UNCHANGED <<level, phase, fd, cuVars, visited>>

-----------------------------------------------------------------------------
Init ==
    /\ level \in Levels
    /\ phase = "start" /\ fd = "unopened"
    /\ curCUOffset = 0 /\ nextCUOffset = 0
    /\ frames = <<>> /\ pc = "init" /\ handles = {}
    /\ visited = <<>> /\ released = [d \in Dies |-> 0]

Next ==
    \/ parseDwarfFromFilename
    \/ read_cu_list
    \/ initSymbolFromDie
    \/ descend
    \/ next_sibling

Spec == Init /\ [][Next]_vars

\* The parser is sequential code and libdwarf's calls return.
FairSpec == Spec /\ WF_vars(Next)

-----------------------------------------------------------------------------
(* Properties. *)

\* The DIE that encloses d, None at the top of a CU.
Enclosing(d) ==
    LET above == {e \in Dies : e < d /\ level[e] = level[d] - 1}
    IN  IF level[d] = 0 THEN None ELSE CHOOSE e \in above : \A f \in above : f <= e

\* Every DIE is handed to initSymbolFromDie once, in section order, whatever
\* the shape of the file; and all were when the parser returned normally.
VisitedInOrder ==
    /\ \A i \in DOMAIN visited : visited[i].die = i
    /\ phase = "returned" => Len(visited) = Cardinality(Dies)

\* A DIE is given its enclosing DIE's symbol as parent, or no parent if that
\* DIE has no symbol: never the symbol of a preceding sibling or of a deeper
\* DIE that the recursion came by.
ParentIsEnclosing ==
    \A i \in DOMAIN visited :
        LET e == Enclosing(visited[i].die)
        IN  IF e = None THEN visited[i].parent = None
            ELSE \E j \in 1..(i - 1) : visited[j].die = e /\ visited[i].parent = visited[j].sym

\* getDieAttributeNumber adds curCUOffset to a DW_FORM_ref4: it is the offset
\* of the CU the DIE is in.
CuOffsetRight ==
    \A i \in DOMAIN visited : visited[i].cu = HeaderOffset(CuOf(visited[i].die))

\* No DIE handle is passed to libdwarf after it was deallocated, none is
\* deallocated twice, and none outlives a parser that was constructed, whose
\* descriptor is closed with it.
HandlesValid ==
    /\ phase = "read_cu_list" => \A i \in DOMAIN frames : {frames[i].in, frames[i].cur} \subseteq handles
    /\ \A d \in Dies : released[d] <= 1
    /\ phase = "returned" \/ (phase = "thrown" /\ visited # <<>>) => handles = {} /\ fd = "closed"

\* Reading a file ends: the parser returns, throws or exits the process.
ReadingEnds == <>(phase \in {"returned", "thrown", "exited"})

=============================================================================
