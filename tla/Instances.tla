------------------------------ MODULE Instances ------------------------------
(***************************************************************************)
(* A client that navigates guest memory with Instances: a type and an       *)
(* address, starting at a Variable.  Types are what the parser made of      *)
(* DIEs, offsets and locations decoded from their attributes; pointers are  *)
(* read through the current VMIInstance while the guest changes them.       *)
(***************************************************************************)
EXTENDS VmiInstance, AttributeReaders

CONSTANTS
    Types,          \* type -> [kind, of, length, byteSize, encoding, members]:
                    \* of is the referenced type, members name -> [type, offset]
    Variables,      \* variable -> [type, address]: all objects of the guest;
                    \* address 0 for a variable that has no DW_AT_location
    MaxChain,       \* bound: types that refer to each other in a row, and
                    \* objects within each other
    Names, Offsets, \* bound: arguments of the client's calls
    Volatile        \* bound: addresses of the pointers that the guest changes

VARIABLES
    layout,         \* <<struct, name>> -> memberLocation; Null before it is read
    location,       \* variable -> Variable::location; Null before it is read
    mem,            \* the guest's pointers: address -> address
    inst,           \* the Instance at hand, [type, address], or Null
    value,          \* the value last read, [type, address], or Null
    stopped         \* an assertion failed or a null pointer was used

dieVars == <<layout, location>>
clientVars == <<inst, value, stopped>>
vars == <<vmiVars, dieVars, mem, clientVars>>

Kind(t) == Types[t].kind
IsRef(t) == Kind(t) \in {"pointer", "array", "typedef", "const"}
IsPointer(t) == Kind(t) \in {"pointer", "array"}        \* an Array is a Pointer
Members(s) == DOMAIN Types[s].members
MemberType(s, m) == Types[s].members[m].type

\* The types from t over referenced types to the one that refers to no other.
Chain[n \in 0..MaxChain] ==
    [t \in DOMAIN Types |->
        IF n = 0 \/ ~IsRef(t) THEN <<t>> ELSE <<t>> \o Chain[n - 1][Types[t].of]]

getRealType(t) == Last(Chain[MaxChain][t])

\* The kinds of RefBaseTypes that t goes through.
RefKinds(t) == {Kind(x) : x \in {y \in Range(Chain[MaxChain][t]) : IsRef(y)}}

\* The pointers a chain begins with.
Pointers(chain) ==
    SubSeq(chain, 1, CHOOSE k \in 0..Len(chain) :
                        /\ \A j \in 1..k : IsPointer(chain[j])
                        /\ k = Len(chain) \/ ~IsPointer(chain[k + 1]))

\* A RefBaseType has the size of what it refers to, a Pointer too.
Size[n \in 0..MaxChain] ==
    [t \in DOMAIN Types |->
        IF n = 0 \/ ~IsRef(t) THEN Types[t].byteSize
        ELSE Size[n - 1][Types[t].of] * IF Kind(t) = "array" THEN Types[t].length ELSE 1]

getByteSize(t) == Size[MaxChain][t]

\* The size in the guest, where a pointer is one unit.
TrueSize(t) == IF Kind(t) = "pointer" THEN 1 ELSE getByteSize(t)

-----------------------------------------------------------------------------
(* What is where in the guest.                                              *)

Parts(obj) ==
    LET t == obj[1]
        a == obj[2]
    IN  CASE Kind(t) = "struct" -> {<<m.type, a + m.offset>> : m \in Range(Types[t].members)}
          [] Kind(t) = "array" -> {<<Types[t].of, a + (i * TrueSize(Types[t].of))>> :
                                      i \in 0..(Types[t].length - 1)}
          [] Kind(t) \in {"typedef", "const"} -> {<<Types[t].of, a>>}
          [] OTHER -> {}

Within[n \in 0..MaxChain] ==
    IF n = 0 THEN {<<v.type, v.address>> : v \in {w \in Range(Variables) : w.address # 0}}
    ELSE Within[n - 1] \cup UNION {Parts(obj) : obj \in Within[n - 1]}

TypedObjects == Within[MaxChain]
PointerCells == {x \in TypedObjects : Kind(x[1]) = "pointer"}
Targets(t) == {0} \cup {x[2] : x \in {y \in TypedObjects : y[1] = Types[t].of}}

\* Types end in one that refers to no other, arrays have a length, and addresses
\* fit into 8 bytes.
ASSUME TypesAssumption ==
    /\ MaxChain \in Nat /\ Offsets \subseteq Nat
    /\ \A t \in DOMAIN Types :
          /\ Types[t].byteSize \in Nat
          /\ IsRef(t) => Types[t].of \in DOMAIN Types
          /\ Kind(t) = "array" => Types[t].length \in Nat \ {0}
          /\ \A m \in Members(t) : /\ MemberType(t, m) \in DOMAIN Types
                                  /\ Types[t].members[m].offset \in Nat
          /\ ~IsRef(getRealType(t))
    /\ \A v \in Range(Variables) : /\ v.type \in DOMAIN Types /\ v.address \in Nat
                                   /\ Fits(v.address, Byte, AddressBytes)

\* No member is empty, and the members of a struct do not overlap.
ASSUME LayoutAssumption ==
    \A t \in DOMAIN Types : \A m \in Members(t) :
        LET End(x) == Types[t].members[x].offset + TrueSize(MemberType(t, x))
        IN  /\ TrueSize(MemberType(t, m)) > 0
            /\ \A x \in Members(t) \ {m} : \/ End(x) <= Types[t].members[m].offset
                                           \/ End(m) <= Types[t].members[x].offset

\* MaxChain reaches all objects, of which there are finitely many; there is one
\* pointer at an address; and each list_head that is no variable is a member.
ASSUME ObjectsAssumption ==
    /\ IsFiniteSet(TypedObjects)
    /\ \A x \in TypedObjects : Parts(x) \subseteq TypedObjects
    /\ \A x, y \in PointerCells : x[2] = y[2] => x[1] = y[1]
    /\ \A x \in TypedObjects, t \in DOMAIN Types : \A m \in Members(t) :
          /\ x[1] = "list_head" /\ MemberType(t, m) = "list_head"
          /\ \A v \in Range(Variables) : v.address # x[2]
          => <<t, x[2] - Types[t].members[m].offset>> \in TypedObjects

FilesRead == Null \notin Range(layout) \cup Range(location)
Idle == FilesRead /\ reading = Null /\ ~stopped /\ ~overrun

\* The guest changes a pointer.
GuestWrites ==
    /\ Idle
    /\ \E x \in PointerCells : /\ x[2] \in Volatile
                               /\ \E a \in Targets(x[1]) : mem' = [mem EXCEPT ![x[2]] = a]
    /\ vector' = Null
    /\ UNCHANGED <<lifeVars, mapped, reading, dieVars, clientVars>>

-----------------------------------------------------------------------------
(* The parser: files are read before the client navigates.                  *)

StructuredMember(s, m) ==
    /\ layout[<<s, m>>] = Null
    /\ \E attr \in OffsetEncodings(Types[s].members[m].offset) :
          layout' = [layout EXCEPT ![<<s, m>>] = getDieAttributeNumber(attr, 0)]
    /\ UNCHANGED <<vmiVars, location, mem, clientVars>>

Variable(x) ==
    /\ location[x] = Null
    /\ IF Variables[x].address = 0
       THEN location' = [location EXCEPT ![x] = 0]
       ELSE \E attr \in AddressEncodings(Variables[x].address) :
               location' = [location EXCEPT ![x] = getDieAttributeNumber(attr, 0)]
    /\ UNCHANGED <<vmiVars, layout, mem, clientVars>>

-----------------------------------------------------------------------------
(* Lookups in a struct.                                                     *)

memberLocation(s, m) == layout[<<s, m>>]

\* FAULTY: takes the first member below the offset.
Structured_memberByOffset_Lowest(s, offset) ==
    {m \in Members(s) : /\ memberLocation(s, m) <= offset
                        /\ \A x \in Members(s) : memberLocation(s, m) <= memberLocation(s, x)}

\* The members at the highest location up to the offset, of which one is taken.
Structured_memberByOffset(s, offset) ==
    {m \in Members(s) :
        /\ memberLocation(s, m) <= offset
        /\ \A x \in Members(s) : memberLocation(s, x) > memberLocation(s, m)
                                    => memberLocation(s, x) > offset}

\* 2^32 - 1 in the code for a name that the struct does not have.
memberOffset(s, name) == IF name \in Members(s) THEN memberLocation(s, name) ELSE -1

memberNameByOffset(s, offset) == {m \in Members(s) : memberLocation(s, m) = offset}

-----------------------------------------------------------------------------
(* Navigation.  The client is one thread: it does not navigate during a     *)
(* vector read, which it begins when it has no Instance at hand.            *)

Stop == stopped' = TRUE /\ UNCHANGED <<inst, value>>
Hold(t, a) == inst' = [type |-> t, address |-> a] /\ UNCHANGED <<value, stopped>>
Outside == vector' = Null /\ UNCHANGED <<lifeVars, mapped, reading, dieVars, mem>>

\* Where n reads lead from a, each at the address that the one before read.
ReadThrough(a, n) ==
    LET at[k \in 0..n] == IF k = 0 THEN a ELSE read64FromVA(mem, at[k - 1])
    IN  at[n]

\* Follows the types of refs from address a, one read64FromVA for each; without
\* a VMIInstance the null pointer is used.
Follow(refs, a, t) ==
    IF refs # <<>> /\ instance = Null THEN Stop ELSE Hold(t, ReadThrough(a, Len(refs)))

Variable_getInstance(x) ==
    /\ Idle
    /\ IF location[x] = 0 THEN Stop
       ELSE /\ inst' = [type |-> Variables[x].type, address |-> location[x]]
            /\ value' = Null /\ UNCHANGED stopped
    /\ Outside

memberByName(m, ptr, expectZeroPtr) ==
    LET s == getRealType(inst.type)
        t == MemberType(s, m)
        a == inst.address + memberLocation(s, m)
        pointee == read64FromVA(mem, a)
    IN  /\ Idle /\ inst # Null
        \* Obligations of the client: memberByName does not read the pointers it
        \* goes through, and takes an array for a pointer.
        /\ "pointer" \notin RefKinds(inst.type)
        /\ (m \in Members(s) /\ ptr) => Kind(t) # "array"
        /\ IF Kind(s) # "struct" \/ inst.address = 0 \/ m \notin Members(s) THEN Stop
           ELSE IF ~(ptr /\ IsPointer(t)) THEN Hold(t, a)
           ELSE IF instance = Null \/ (pointee = 0 /\ ~expectZeroPtr) THEN Stop
           ELSE Hold(Types[t].of, pointee)
        /\ Outside

\* Unlike memberByName it does not stop at NULL: asking isNULL first is an
\* obligation, as it is for arrayElem.
memberByOffset(offset, ptr) ==
    LET s == inst.type
        found == Structured_memberByOffset(s, offset)
    IN  /\ Idle /\ inst # Null /\ inst.address # 0
        /\ IF Kind(s) # "struct" \/ offset > getByteSize(s) \/ found = {} THEN Stop
           ELSE \E m \in found :
                   LET chain == Chain[MaxChain][MemberType(s, m)]
                       refs == IF ptr THEN Pointers(chain) ELSE <<>>
                   IN  /\ "array" \in RefKinds(MemberType(s, m)) => ~ptr    \* obligation
                       /\ Follow(refs, inst.address + memberLocation(s, m), chain[Len(refs) + 1])
        /\ Outside

\* An obligation: the elements are no pointers, whose size is not theirs.
arrayElem(element) ==
    LET t == inst.type
    IN  /\ Idle /\ inst # Null /\ inst.address # 0
        /\ Kind(t) = "array" => "pointer" \notin RefKinds(Types[t].of)
        /\ IF \/ Kind(t) # "array"
              \/ element >= Types[t].length /\ Types[t].length # 0
              \/ getByteSize(Types[t].of) = 0
           THEN Stop
           ELSE Hold(Types[t].of, inst.address + (element * getByteSize(Types[t].of)))
        /\ Outside

\* An obligation: only pointers are dereferenced.  The code also reads memory
\* for a typedef, a const or an array that it goes through.
dereference ==
    /\ Idle /\ inst # Null
    /\ RefKinds(inst.type) \subseteq {"pointer"}
    /\ LET chain == Chain[MaxChain][inst.type]
       IN  Follow(Front(chain), inst.address, Last(chain))
    /\ Outside

\* FAULTY: steps forward from the member instead of back.
changeBaseType_Forward(newType, field) ==
    /\ Idle /\ inst # Null
    /\ inst.type = "list_head" /\ inst.address \notin {0} \cup Range(location)
    /\ field \in Members(newType) => MemberType(newType, field) = "list_head"
    /\ IF field \notin Members(newType) THEN Stop
       ELSE Hold(newType, inst.address + memberLocation(newType, field))
    /\ Outside

\* container_of, for a type of the name list_head.  Obligations: the client does
\* not cast other types, nor NULL, nor the head of the list, and names the field.
changeBaseType(newType, field) ==
    /\ Idle /\ inst # Null
    /\ inst.type = "list_head" /\ inst.address \notin {0} \cup Range(location)
    /\ field \in Members(newType) => MemberType(newType, field) = "list_head"
    /\ IF field \notin Members(newType) THEN Stop
       ELSE Hold(newType, inst.address - memberLocation(newType, field))
    /\ Outside

\* The T that getValue<T> accepts for each encoding.
ValueType == [boolean |-> "bool", float |-> "float", signed |-> "int64", signed_char |-> "int8",
              unsigned |-> "uint64", unsigned_char |-> "int8"]

\* The value is handed to the client, which is done with the Instance.
Got(t, a) ==
    /\ value' = [type |-> t, address |-> a]
    /\ inst' = Null /\ UNCHANGED stopped

\* A wrong T throws and leaves everything as it was.  An obligation: the client
\* reads no value of a pointer, the code would take the pointer for its target.
getValue(T) ==
    LET t == getRealType(inst.type)
    IN  /\ Idle /\ inst # Null
        /\ "pointer" \notin RefKinds(inst.type)
        /\ (T # "string" /\ Types[t].encoding \in DOMAIN ValueType) => ValueType[Types[t].encoding] = T
        /\ IF \/ inst.address = 0 \/ instance = Null
              \/ T = "string" /\ ~MappedAt(inst.address)
              \/ T # "string" /\ Types[t].encoding \notin DOMAIN ValueType
           THEN Stop
           ELSE Got(t, inst.address)
        /\ Outside

\* Any integer T is read, with follow at the end of the pointers in between; how
\* many bits depends on T alone.
getRawValue(follow) ==
    LET chain == Chain[MaxChain][inst.type]
        a == ReadThrough(inst.address, Len(chain) - 1)
    IN  /\ Idle /\ inst # Null
        /\ follow => RefKinds(inst.type) \subseteq {"pointer"}      \* as for dereference
        /\ IF inst.address = 0 \/ instance = Null \/ (follow /\ a = 0) THEN Stop
           ELSE IF follow THEN Got(Last(chain), a) ELSE Got(inst.type, inst.address)
        /\ Outside

Navigate ==
    \/ \E x \in DOMAIN Variables : Variable_getInstance(x)
    \/ \E m \in Names, ptr \in BOOLEAN, zero \in BOOLEAN : memberByName(m, ptr, zero)
    \/ \E offset \in Offsets, ptr \in BOOLEAN : memberByOffset(offset, ptr)
    \/ \E element \in Offsets : arrayElem(element)
    \/ dereference
    \/ \E t \in {u \in DOMAIN Types : Kind(u) = "struct"}, m \in Names : changeBaseType(t, m)
    \/ \E T \in Range(ValueType) \cup {"string"} : getValue(T)
    \/ \E follow \in BOOLEAN : getRawValue(follow)

-----------------------------------------------------------------------------
StructMembers == UNION {{<<s, m>> : m \in Members(s)} : s \in DOMAIN Types}

Init ==
    /\ VmiInit
    /\ layout = [x \in StructMembers |-> Null]
    /\ location = [x \in DOMAIN Variables |-> Null]
    /\ mem = [a \in {x[2] : x \in PointerCells} |->
                Max(UNION {Targets(x[1]) : x \in {y \in PointerCells : y[2] = a}})]
    /\ inst = Null /\ value = Null /\ stopped = FALSE

Next ==
    \/ /\ VmiNext /\ FilesRead /\ ~stopped /\ ~overrun
       /\ reading = Null /\ reading' # Null => inst = Null /\ value = Null
       /\ UNCHANGED <<dieVars, mem, clientVars>>
    \/ \E x \in StructMembers : StructuredMember(x[1], x[2])
    \/ \E x \in DOMAIN Variables : Variable(x)
    \/ GuestWrites
    \/ Navigate

\* The thread that reads a vector goes on reading.
Spec == Init /\ [][Next]_vars /\ WF_vars(ReadStep /\ UNCHANGED <<dieVars, mem, clientVars>>)

-----------------------------------------------------------------------------
(* Properties. *)

\* Locations come out of every encoding of an attribute as they went in: member
\* offsets in plain, ULEB128 and padded ULEB128 form, addresses as DW_OP_addr.
DecodedExact ==
    /\ \A x \in StructMembers : layout[x] \in {Null, Types[x[1]].members[x[2]].offset}
    /\ \A x \in DOMAIN Variables : location[x] \in {Null, Variables[x].address}

\* Navigation is type safe: whatever the guest does to its pointers and pages, an
\* Instance is at NULL or where the guest has an object of its type, and a value
\* is one of such an object, as long as the client meets its obligations.
WellTyped ==
    /\ inst # Null => inst.address = 0 \/ <<inst.type, inst.address>> \in TypedObjects
    /\ value # Null => <<value.type, value.address>> \in TypedObjects

\* The lookups by name and by offset agree: memberOffset leads back to the member
\* it was asked for, and so does memberByOffset from everywhere inside it.
OffsetsAgree ==
    FilesRead => \A x \in StructMembers :
        LET s == x[1]
            first == memberOffset(s, x[2])
        IN  /\ memberNameByOffset(s, first) = {x[2]}
            /\ \A offset \in first..(first + TrueSize(MemberType(s, x[2])) - 1) :
                  Structured_memberByOffset(s, offset) = {x[2]}

=============================================================================
