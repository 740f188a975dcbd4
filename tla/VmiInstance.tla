----------------------------- MODULE VmiInstance -----------------------------
(***************************************************************************)
(* libvmiwrapper: VMIInstance objects, the static instance the rest of the *)
(* library reads guest memory through, and the reads themselves, from a     *)
(* guest that keeps running and maps and unmaps pages.  vmiMutex makes each *)
(* libvmi call one step; a vector is read in several of them.  A unit of    *)
(* memory is the 8 bytes of a pointer.                                      *)
(***************************************************************************)
EXTENDS Integers, Sequences, FiniteSets

CONSTANTS
    Objects,        \* VMIInstance objects a client creates
    Null,
    PageSize,       \* bound: units of a page, for 0x1000 bytes
    Pages, Swapped, \* bound: the guest's pages, and those it maps and unmaps
    IntMod,         \* 2^32 bytes scaled down: an int wraps at half of it
    ReadStarts, ReadLengths     \* bound: arguments of readVectorFromVA

ASSUME GuestAssumption ==
    /\ Null \notin Objects \cup Nat
    /\ PageSize \in Nat \ {0}
    /\ IntMod \in Nat \ {0}
    /\ Pages \subseteq Nat /\ Swapped \subseteq Pages
    /\ ReadStarts \subseteq Nat /\ ReadLengths \subseteq Nat \ {0}

VARIABLES
    life,           \* none, live, failed (constructor threw) or destroyed
    handles,        \* objects whose libvmi handle is open
    instance,       \* VMIInstance::instance
    mapped,         \* the pages the guest has mapped
    reading,        \* the call of readVectorFromVA in progress, or Null
    vector,         \* the vector the last step returned, or Null
    overrun         \* a read wrote past its buffer: anything may follow

lifeVars == <<life, handles, instance, overrun>>
vmiVars == <<lifeVars, mapped, reading, vector>>

PageOf(a) == a \div PageSize
MappedAt(a) == PageOf(a) \in mapped
Smaller(a, b) == IF a <= b THEN a ELSE b

-----------------------------------------------------------------------------
(* Objects. *)

\* vmi_init fails, or the guest is not Linux: then the handle stays open, as
\* no destructor runs for an object whose constructor throws.
VMIInstance(v) ==
    /\ life[v] = "none"
    /\ \/ /\ life' = [life EXCEPT ![v] = "failed"]
          /\ handles' \in {handles, handles \cup {v}}
          /\ UNCHANGED instance
       \/ /\ life' = [life EXCEPT ![v] = "live"]
          /\ handles' = handles \cup {v}
          /\ instance' = v
    /\ vector' = Null
    /\ UNCHANGED <<mapped, reading, overrun>>

\* FAULTY: leaves the static instance alone.
Destroy_KeepsInstance(v) ==
    /\ life[v] = "live" /\ (reading # Null => reading.obj # v)
    /\ life' = [life EXCEPT ![v] = "destroyed"]
    /\ handles' = handles \ {v}
    /\ vector' = Null
    /\ UNCHANGED <<instance, mapped, reading, overrun>>

\* resumeVM returns at once: nothing calls pauseVM, which is private.
Destroy(v) ==
    /\ life[v] = "live" /\ (reading # Null => reading.obj # v)
    /\ life' = [life EXCEPT ![v] = "destroyed"]
    /\ instance' = Null
    /\ handles' = handles \ {v}
    /\ vector' = Null
    /\ UNCHANGED <<mapped, reading, overrun>>

\* The guest maps or unmaps a page.
Remap ==
    /\ \E p \in Swapped : mapped' = (mapped \ {p}) \cup ({p} \ mapped)
    /\ vector' = Null
    /\ UNCHANGED <<lifeVars, reading>>

-----------------------------------------------------------------------------
(* Vectors.  A byte of the buffer is the address it was read from, or Null  *)
(* for one that memset left 0.                                              *)

\* libvmi reads up to the first unmapped page and returns how much it read.
vmi_read_va(va, count) ==
    CHOOSE n \in 0..count :
        /\ \A i \in 0..(n - 1) : MappedAt(va + i)
        /\ n < count => ~MappedAt(va + n)

readVectorFromVA(v, va, len, fillunmapped) ==
    /\ life[v] = "live" /\ reading = Null
    /\ reading' = [obj |-> v, va |-> va, len |-> len, fill |-> fillunmapped, size |-> 0,
                   buffer |-> [i \in 0..(len - 1) |-> Null], absent |-> {}]
    /\ vector' = Null
    /\ UNCHANGED <<lifeVars, mapped>>

\* FAULTY: counts a whole page, however much was read.
Advance_WholePage(size, res) == size + PageSize

\* FAULTY: an unmapped page is tried again and again.
Advance_Retries(size, res) == size + res

\* Nothing read skips the length of a page.
Advance(size, res) == IF res = 0 THEN size + PageSize ELSE size + res

\* (int)n, and the lengths it leaves as they are.
AsInt(n) == IF n % IntMod < IntMod \div 2 THEN n % IntMod ELSE (n % IntMod) - IntMod
FitsInt(n) == n < IntMod \div 2

\* How much a round asks for: a page, or the rest as an int.  A negative int is
\* an enormous size_t, more than the buffer has left.
ChunkLength(rest) == IF AsInt(rest) < 0 THEN rest + 1 ELSE Smaller(PageSize, AsInt(rest))

\* Nothing read ends the loop without fillunmapped.  absent is history: the
\* pages found unmapped.
ReadChunk ==
    LET rest == reading.len - reading.size
        res == vmi_read_va(reading.va + reading.size, ChunkLength(rest))
        at == reading.va + reading.size
        read == [reading EXCEPT
                   !.size = Advance(@, res),
                   !.absent = IF MappedAt(at) THEN @ ELSE @ \cup {PageOf(at)},
                   !.buffer = [i \in DOMAIN @ |->
                       IF i \in reading.size..(reading.size + res - 1) THEN reading.va + i ELSE @[i]]]
    IN  /\ reading # Null /\ reading.size < reading.len
        /\ res <= rest
        /\ IF res = 0 /\ ~reading.fill
           THEN reading' = Null /\ vector' = reading
           ELSE reading' = read /\ vector' = Null
        /\ UNCHANGED <<lifeVars, mapped>>

\* More is mapped than the buffer has room for, when the rest is no int.  The model
\* ends there.
Overrun ==
    /\ reading # Null /\ reading.size < reading.len
    /\ LET rest == reading.len - reading.size
       IN  vmi_read_va(reading.va + reading.size, ChunkLength(rest)) > rest
    /\ overrun' = TRUE
    /\ reading' = Null /\ vector' = Null
    /\ UNCHANGED <<life, handles, instance, mapped>>

\* The loop ends; size may be more than len after a page was skipped.
ReadReturns ==
    /\ reading # Null /\ reading.size >= reading.len
    /\ vector' = reading /\ reading' = Null
    /\ UNCHANGED <<lifeVars, mapped>>

\* read64FromVA: a failed read leaves the value 0.
read64FromVA(mem, va) == IF va \in DOMAIN mem /\ MappedAt(va) THEN mem[va] ELSE 0

-----------------------------------------------------------------------------
VmiInit ==
    /\ life = [v \in Objects |-> "none"]
    /\ handles = {} /\ instance = Null
    /\ mapped = Pages
    /\ reading = Null /\ vector = Null /\ overrun = FALSE

ReadStep == ReadChunk \/ Overrun \/ ReadReturns

VmiNext ==
    \/ \E v \in Objects : \/ VMIInstance(v)
                          \/ Destroy(v)
                          \/ \E va \in ReadStarts, len \in ReadLengths, fill \in BOOLEAN :
                                readVectorFromVA(v, va, len, fill)
    \/ ReadStep
    \/ Remap

-----------------------------------------------------------------------------
(* Properties. *)

\* The static instance is never one whose constructor threw or whose destructor
\* ran, in whatever order several of them come and go.
InstanceLive ==
    instance # Null => life[instance] = "live" /\ instance \in handles

\* readVectorFromVA: what it returns came from where it was asked for, however
\* the guest remaps pages meanwhile.  Without fillunmapped it is an unbroken
\* part from the start on; with it, and whole pages asked for and a length that
\* is an int, it has the length asked for and a 0 only where a page was not mapped.
VectorFaithful ==
    vector # Null =>
        /\ \A i \in DOMAIN vector.buffer : vector.buffer[i] \in {Null, vector.va + i}
        /\ ~vector.fill => /\ vector.size <= vector.len
                           /\ \A i \in 0..(vector.size - 1) : vector.buffer[i] # Null
        /\ /\ vector.fill /\ FitsInt(vector.len)
           /\ vector.va % PageSize = 0 /\ vector.len % PageSize = 0
           => /\ vector.size = vector.len
              /\ \A i \in DOMAIN vector.buffer :
                    vector.buffer[i] = Null => PageOf(vector.va + i) \in vector.absent

\* A vector read ends, whether or not the pages are mapped.
ReadsEnd == reading # Null ~> reading = Null

=============================================================================
