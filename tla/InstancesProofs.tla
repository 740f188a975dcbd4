--------------------------- MODULE InstancesProofs ---------------------------
(***************************************************************************)
(* Reads of guest memory, for any number of VMIInstances, any size of pages *)
(* and vectors, any types, and any order of the steps of client and guest.  *)
(***************************************************************************)
EXTENDS Instances, InductionTheorems

-----------------------------------------------------------------------------
(* Pages. *)

\* Division: quotient and remainder are determined.
LEMMA Division ==
    ASSUME NEW n \in Nat, n > 0, NEW q \in Int, NEW r \in Int, 0 <= r, r < n
    PROVE  /\ (n * q + r) \div n = q
           /\ (n * q + r) % n = r
<1> DEFINE a == n * q + r
           d == a \div n
           m == a % n
<1>1. a \in Int
  OBVIOUS
<1>2. d \in Int /\ m \in Int /\ 0 <= m /\ m < n /\ a = n * d + m
  BY <1>1
<1>3. d = q
  <2>1. ~(d >= q + 1)
    <3>1. SUFFICES ASSUME d >= q + 1 PROVE FALSE
      OBVIOUS
    <3>2. n * d >= n * (q + 1)
      BY <1>2, <3>1
    <3>3. n * (q + 1) = n * q + n
      OBVIOUS
    <3> QED
      BY <1>2, <3>2, <3>3
  <2>2. ~(q >= d + 1)
    <3>1. SUFFICES ASSUME q >= d + 1 PROVE FALSE
      OBVIOUS
    <3>2. n * q >= n * (d + 1)
      BY <1>2, <3>1
    <3>3. n * (d + 1) = n * d + n
      BY <1>2
    <3> QED
      BY <1>2, <3>2, <3>3
  <2> QED
    BY <1>2, <2>1, <2>2
<1> QED
  BY <1>2, <1>3

\* Division by the size of a page.
LEMMA Quotient ==
    ASSUME NEW q \in Int, NEW r \in Int, 0 <= r, r < PageSize
    PROVE  /\ (PageSize * q + r) \div PageSize = q
           /\ (PageSize * q + r) % PageSize = r
<1>1. PageSize \in Nat /\ PageSize > 0
  BY GuestAssumption
<1> QED
  BY <1>1, Division

\* A number without remainder is a multiple of the size of a page.
LEMMA Multiple ==
    ASSUME NEW a \in Nat, a % PageSize = 0
    PROVE  \E q \in Int : a = PageSize * q
<1>1. PageSize \in Nat /\ PageSize > 0
  BY GuestAssumption
<1>2. a \div PageSize \in Int /\ a = PageSize * (a \div PageSize) + (a % PageSize)
  BY <1>1
<1> QED
  BY <1>1, <1>2

\* A page begins at every multiple of the size of a page.
LEMMA SamePage ==
    ASSUME NEW a \in Nat, a % PageSize = 0, NEW i \in 0..(PageSize - 1)
    PROVE  PageOf(a + i) = PageOf(a)
<1>1. PageSize \in Nat /\ PageSize > 0
  BY GuestAssumption
<1>2. PICK q \in Int : a = PageSize * q
  BY Multiple
<1>3. (PageSize * q + i) \div PageSize = q
  BY <1>1, Quotient
<1>4. (PageSize * q + 0) \div PageSize = q
  BY <1>1, Quotient
<1> QED
  BY <1>1, <1>2, <1>3, <1>4 DEF PageOf

\* Multiples of the size of a page are a page apart, and their sums are such
\* multiples.
LEMMA Multiples ==
    ASSUME NEW a \in Nat, NEW b \in Nat, a % PageSize = 0, b % PageSize = 0
    PROVE  /\ (a + b) % PageSize = 0
           /\ (a + PageSize) % PageSize = 0
           /\ a < b => a + PageSize <= b
<1>1. PageSize \in Nat /\ PageSize > 0
  BY GuestAssumption
<1>2. PICK q \in Int : a = PageSize * q
  BY Multiple
<1>3. PICK p \in Int : b = PageSize * p
  BY Multiple
<1>4. (a + b) % PageSize = 0
  <2>1. a + b = PageSize * (q + p) + 0
    BY <1>1, <1>2, <1>3
  <2>2. (PageSize * (q + p) + 0) % PageSize = 0
    BY <1>1, Quotient
  <2> QED
    BY <2>1, <2>2
<1>5. (a + PageSize) % PageSize = 0
  <2>1. a + PageSize = PageSize * (q + 1) + 0
    BY <1>1, <1>2
  <2>2. (PageSize * (q + 1) + 0) % PageSize = 0
    BY <1>1, Quotient
  <2> QED
    BY <2>1, <2>2
<1>6. ASSUME a < b PROVE a + PageSize <= b
  <2>1. p >= q + 1
    <3>1. SUFFICES ASSUME p <= q PROVE FALSE
      BY <1>2, <1>3
    <3>2. PageSize * p <= PageSize * q
      BY <1>1, <3>1
    <3> QED
      BY <1>1, <1>2, <1>3, <1>6, <3>2
  <2>2. PageSize * p >= PageSize * (q + 1)
    BY <1>1, <2>1
  <2>3. PageSize * (q + 1) = PageSize * q + PageSize
    BY <1>1
  <2> QED
    BY <1>1, <1>2, <1>3, <2>2, <2>3
<1> QED
  BY <1>4, <1>5, <1>6

-----------------------------------------------------------------------------
(* The libvmi call. *)

\* vmi_read_va is defined: it reads up to the first unmapped unit.
LEMMA ReadDefined ==
    ASSUME NEW va \in Nat, NEW count \in Nat
    PROVE  LET n == vmi_read_va(va, count)
           IN  /\ n \in 0..count
               /\ \A i \in 0..(n - 1) : MappedAt(va + i)
               /\ n < count => ~MappedAt(va + n)
<1> DEFINE U == {i \in 0..(count - 1) : ~MappedAt(va + i)}
           Ok(n) == /\ \A i \in 0..(n - 1) : MappedAt(va + i)
                    /\ n < count => ~MappedAt(va + n)
<1>1. \E n \in 0..count : Ok(n)
  <2>1. CASE U = {}
    <3>1. \A i \in 0..(count - 1) : MappedAt(va + i)
      BY <2>1
    <3>2. Ok(count)
      BY <3>1
    <3> QED
      BY <3>2
  <2>2. CASE U # {}
    <3>1. U \subseteq Nat
      OBVIOUS
    <3>2. PICK n \in U : \A y \in U : n <= y
      <4> HIDE DEF U
      <4> QED
        BY <2>2, <3>1, LeastNatural
    <3>3. n \in 0..count
      OBVIOUS
    <3>4. \A i \in 0..(n - 1) : MappedAt(va + i)
      BY <3>2
    <3>5. Ok(n)
      BY <3>4
    <3> QED
      BY <3>3, <3>5
  <2> QED
    BY <2>1, <2>2
<1> HIDE DEF Ok
<1>2. (CHOOSE n \in 0..count : Ok(n)) \in 0..count /\ Ok(CHOOSE n \in 0..count : Ok(n))
  BY <1>1
<1>3. vmi_read_va(va, count) = CHOOSE n \in 0..count : Ok(n)
  BY DEF vmi_read_va, Ok
<1> QED
  BY <1>2, <1>3 DEF Ok

\* A page is mapped as a whole: a read of a page from its beginning reads all
\* of it or nothing.
LEMMA WholePage ==
    ASSUME NEW va \in Nat, va % PageSize = 0
    PROVE  vmi_read_va(va, PageSize) \in {0, PageSize}
<1> DEFINE n == vmi_read_va(va, PageSize)
<1>1. PageSize \in Nat /\ PageSize > 0
  BY GuestAssumption
<1>2. /\ n \in 0..PageSize
      /\ \A i \in 0..(n - 1) : MappedAt(va + i)
      /\ n < PageSize => ~MappedAt(va + n)
  BY <1>1, ReadDefined
<1> HIDE DEF n
<1>3. SUFFICES ASSUME n # 0, n < PageSize PROVE FALSE
  BY <1>1, <1>2 DEF n
<1>4. MappedAt(va + 0) /\ ~MappedAt(va + n)
  BY <1>1, <1>2, <1>3
<1>5. PageOf(va + 0) = PageOf(va) /\ PageOf(va + n) = PageOf(va)
  BY <1>1, <1>2, <1>3, SamePage
<1> QED
  BY <1>4, <1>5 DEF MappedAt

\* What is asked for is a natural number, and the rest or a page where the rest
\* is an int.
LEMMA Asked ==
    ASSUME NEW rest \in Nat, rest > 0
    PROVE  /\ ChunkLength(rest) \in Nat
           /\ FitsInt(rest) => ChunkLength(rest) = Smaller(PageSize, rest)
<1>1. PageSize \in Nat /\ IntMod \in Nat /\ IntMod > 0
  BY GuestAssumption
<1>2. PICK m, h : m = rest % IntMod /\ h = IntMod \div 2
  OBVIOUS
<1>3. m \in Nat /\ m < IntMod /\ h \in Nat /\ h <= IntMod
  BY <1>1, <1>2
<1>4. AsInt(rest) = IF m < h THEN m ELSE m - IntMod
  BY <1>2 DEF AsInt
<1>5. ChunkLength(rest) \in Nat
  BY <1>1, <1>3, <1>4 DEF ChunkLength, Smaller
<1>6. ASSUME FitsInt(rest) PROVE ChunkLength(rest) = Smaller(PageSize, rest)
  <2>1. rest < h
    BY <1>2, <1>6 DEF FitsInt
  <2>2. rest < IntMod
    BY <1>1, <1>3, <2>1
  <2>3. m = rest
    BY <1>1, <1>2, <2>2
  <2> QED
    BY <1>4, <2>1, <2>3 DEF ChunkLength
<1> QED
  BY <1>5, <1>6

-----------------------------------------------------------------------------
(* The inductive invariant.  VectorFaithful speaks of the vector returned;  *)
(* VectorSoFar says of each round what has been read up to then.            *)

WholePages(r) == r.fill /\ FitsInt(r.len) /\ r.va % PageSize = 0 /\ r.len % PageSize = 0

ReadFrame(r) ==
    /\ r = [obj |-> r.obj, va |-> r.va, len |-> r.len, fill |-> r.fill, size |-> r.size,
            buffer |-> r.buffer, absent |-> r.absent]
    /\ r.va \in Nat /\ r.len \in Nat /\ r.size \in Nat /\ r.fill \in BOOLEAN
    /\ r.buffer = [i \in 0..(r.len - 1) |-> r.buffer[i]]

VectorSoFar(r) ==
    /\ \A i \in 0..(r.len - 1) : r.buffer[i] \in {Null, r.va + i}
    /\ ~r.fill => /\ r.size <= r.len
                  /\ \A i \in 0..(r.size - 1) : r.buffer[i] # Null
    /\ WholePages(r) =>
          /\ r.size % PageSize = 0 /\ r.size <= r.len
          /\ \A i \in 0..(r.size - 1) :
                r.buffer[i] = Null => PageOf(r.va + i) \in r.absent

VmiTypes ==
    /\ life \in [Objects -> {"none", "live", "failed", "destroyed"}]
    /\ handles \subseteq Objects
    /\ instance \in Objects \cup {Null}

ReadingOK == reading # Null => ReadFrame(reading) /\ VectorSoFar(reading)

VmiInv == VmiTypes /\ InstanceLive /\ ReadingOK /\ VectorFaithful

\* Nothing is read and no object exists at first.
LEMMA InitOK == Init => VmiInv
<1> SUFFICES ASSUME Init PROVE VmiInv
  OBVIOUS
<1> QED
  BY DEF Init, VmiInit, VmiInv, VmiTypes, InstanceLive, ReadingOK, VectorFaithful

\* Steps that touch neither the objects nor the read in progress.
Aside ==
    /\ UNCHANGED <<life, handles, instance, reading>>
    /\ vector' = vector \/ vector' = Null

\* The invariant does not depend on anything else.
LEMMA AsideOK == VmiInv /\ Aside => VmiInv'
<1> SUFFICES ASSUME VmiInv, Aside PROVE VmiInv'
  OBVIOUS
<1>1. VmiTypes' /\ InstanceLive'
  BY DEF VmiInv, Aside, VmiTypes, InstanceLive
<1>2. ReadingOK'
  BY DEF VmiInv, Aside, ReadingOK, ReadFrame, VectorSoFar, WholePages, FitsInt, PageOf
<1>3. VectorFaithful'
  BY DEF VmiInv, Aside, VectorFaithful, FitsInt, PageOf
<1> QED
  BY <1>1, <1>2, <1>3 DEF VmiInv

-----------------------------------------------------------------------------
(* Objects. *)

\* A constructor sets the static instance to its object once that is live.
LEMMA ConstructOK ==
    ASSUME NEW v \in Objects, VmiInv, VMIInstance(v)
    PROVE  VmiInv'
<1>1. VmiTypes' /\ InstanceLive'
  BY DEF VmiInv, VMIInstance, VmiTypes, InstanceLive
<1>2. ReadingOK'
  BY DEF VmiInv, VMIInstance, ReadingOK, ReadFrame, VectorSoFar, WholePages, FitsInt, PageOf
<1>3. VectorFaithful'
  BY DEF VMIInstance, VectorFaithful
<1> QED
  BY <1>1, <1>2, <1>3 DEF VmiInv

\* A destructor leaves no static instance at all.
LEMMA DestroyOK ==
    ASSUME NEW v \in Objects, VmiInv, Destroy(v)
    PROVE  VmiInv'
<1>1. VmiTypes' /\ InstanceLive'
  BY DEF VmiInv, Destroy, VmiTypes, InstanceLive
<1>2. ReadingOK'
  BY DEF VmiInv, Destroy, ReadingOK, ReadFrame, VectorSoFar, WholePages, FitsInt, PageOf
<1>3. VectorFaithful'
  BY DEF Destroy, VectorFaithful
<1> QED
  BY <1>1, <1>2, <1>3 DEF VmiInv

-----------------------------------------------------------------------------
(* Vectors. *)

\* A read begins with an empty buffer.
LEMMA BeginOK ==
    ASSUME NEW v \in Objects, NEW va \in ReadStarts, NEW len \in ReadLengths,
           NEW fill \in BOOLEAN, VmiInv, readVectorFromVA(v, va, len, fill)
    PROVE  VmiInv'
<1> DEFINE r == [obj |-> v, va |-> va, len |-> len, fill |-> fill, size |-> 0,
                 buffer |-> [i \in 0..(len - 1) |-> Null], absent |-> {}]
<1>1. VmiTypes' /\ InstanceLive'
  BY DEF VmiInv, readVectorFromVA, lifeVars, VmiTypes, InstanceLive
<1>2. reading' = r /\ vector' = Null
  BY DEF readVectorFromVA
<1>3. va \in Nat /\ len \in Nat
  BY GuestAssumption
<1>4. 0 % PageSize = 0
  <2>1. (PageSize * 0 + 0) % PageSize = 0 /\ PageSize \in Nat
    BY Quotient, GuestAssumption
  <2> QED
    BY <2>1
<1>5. ReadFrame(r)
  BY <1>3 DEF ReadFrame
<1>6. VectorSoFar(r)
  BY <1>3, <1>4 DEF VectorSoFar, WholePages
<1>7. ReadingOK'
  BY <1>2, <1>5, <1>6 DEF ReadingOK, ReadFrame, VectorSoFar, WholePages, FitsInt, PageOf
<1>8. VectorFaithful'
  BY <1>2 DEF VectorFaithful
<1> QED
  BY <1>1, <1>7, <1>8 DEF VmiInv

\* What a read returns once its loop has ended is faithful.
LEMMA ReturnedFaithful ==
    ASSUME ReadFrame(reading), VectorSoFar(reading),
           reading.size >= reading.len \/ ~reading.fill,
           vector' = reading
    PROVE  VectorFaithful'
<1> DEFINE r == reading
<1>1. r.va \in Nat /\ r.len \in Nat /\ r.size \in Nat /\ DOMAIN r.buffer = 0..(r.len - 1)
  BY DEF ReadFrame
<1>2. \A i \in DOMAIN r.buffer : r.buffer[i] \in {Null, r.va + i}
  BY <1>1 DEF VectorSoFar
<1>3. ~r.fill => /\ r.size <= r.len
                 /\ \A i \in 0..(r.size - 1) : r.buffer[i] # Null
  BY DEF VectorSoFar
<1>4. ASSUME r.fill /\ FitsInt(r.len) /\ r.va % PageSize = 0 /\ r.len % PageSize = 0
      PROVE  /\ r.size = r.len
             /\ \A i \in DOMAIN r.buffer :
                   r.buffer[i] = Null => PageOf(r.va + i) \in r.absent
  <2>1. r.size <= r.len /\ r.size >= r.len
    BY <1>4 DEF VectorSoFar, WholePages
  <2>2. r.size = r.len
    BY <1>1, <2>1
  <2> QED
    BY <1>1, <1>4, <2>2 DEF VectorSoFar, WholePages
<1> QED
  BY <1>2, <1>3, <1>4 DEF VectorFaithful, FitsInt, PageOf

\* The loop has ended because everything was asked for.
LEMMA ReturnOK == VmiInv /\ ReadReturns => VmiInv'
<1> SUFFICES ASSUME VmiInv, ReadReturns PROVE VmiInv'
  OBVIOUS
<1>1. VmiTypes' /\ InstanceLive'
  BY DEF VmiInv, ReadReturns, lifeVars, VmiTypes, InstanceLive
<1>2. ReadingOK'
  BY DEF ReadReturns, ReadingOK
<1>3. VectorFaithful'
  BY ReturnedFaithful DEF VmiInv, ReadingOK, ReadReturns
<1> QED
  BY <1>1, <1>2, <1>3 DEF VmiInv

\* A round of the loop extends what was read.
LEMMA RoundOK ==
    ASSUME NEW r, NEW s, ReadFrame(r), VectorSoFar(r), r.size < r.len,
           NEW res, res = vmi_read_va(r.va + r.size, ChunkLength(r.len - r.size)),
           res <= r.len - r.size, res = 0 => r.fill,
           s = [r EXCEPT
                  !.size = Advance(r.size, res),
                  !.absent = IF MappedAt(r.va + r.size) THEN @ ELSE @ \cup {PageOf(r.va + r.size)},
                  !.buffer = [i \in DOMAIN @ |->
                      IF i \in r.size..(r.size + res - 1) THEN r.va + i ELSE @[i]]]
    PROVE  ReadFrame(s) /\ VectorSoFar(s)
<1>1. PageSize \in Nat /\ PageSize > 0 /\ Null \notin Nat
  BY GuestAssumption
<1>2. /\ r.va \in Nat /\ r.len \in Nat /\ r.size \in Nat /\ r.fill \in BOOLEAN
      /\ DOMAIN r.buffer = 0..(r.len - 1)
  BY DEF ReadFrame
<1> DEFINE count == ChunkLength(r.len - r.size)
<1>3. r.len - r.size \in Nat /\ r.len - r.size > 0 /\ r.va + r.size \in Nat
  BY <1>2
<1>4. res \in Nat /\ r.size + res <= r.len
  <2>1. count \in Nat
    BY <1>3, Asked
  <2> HIDE DEF count
  <2>2. res \in 0..count
    BY <1>3, <2>1, ReadDefined DEF count
  <2> QED
    BY <1>2, <2>1, <2>2
<1>5. /\ s.va = r.va /\ s.len = r.len /\ s.fill = r.fill
      /\ s.size = IF res = 0 THEN r.size + PageSize ELSE r.size + res
      /\ s.absent = IF MappedAt(r.va + r.size) THEN r.absent ELSE r.absent \cup {PageOf(r.va + r.size)}
      /\ s.buffer = [i \in 0..(r.len - 1) |->
                        IF i \in r.size..(r.size + res - 1) THEN r.va + i ELSE r.buffer[i]]
      /\ s = [obj |-> s.obj, va |-> s.va, len |-> s.len, fill |-> s.fill, size |-> s.size,
              buffer |-> s.buffer, absent |-> s.absent]
  BY <1>2 DEF ReadFrame, Advance
<1> HIDE DEF count
<1>6. s.size \in Nat
  BY <1>1, <1>2, <1>3, <1>4, <1>5
<1>7. ReadFrame(s)
  BY <1>2, <1>5, <1>6 DEF ReadFrame
<1>8. \A i \in 0..(s.len - 1) : s.buffer[i] \in {Null, s.va + i}
  <2>1. SUFFICES ASSUME NEW i \in 0..(r.len - 1) PROVE s.buffer[i] \in {Null, r.va + i}
    BY <1>5
  <2>2. r.buffer[i] \in {Null, r.va + i}
    BY DEF VectorSoFar
  <2>3. s.buffer[i] \in {r.va + i, r.buffer[i]}
    BY <1>5
  <2> QED
    BY <2>2, <2>3
<1>9. ASSUME ~s.fill
      PROVE  s.size <= s.len /\ \A i \in 0..(s.size - 1) : s.buffer[i] # Null
  <2>1. res # 0 /\ s.size = r.size + res
    BY <1>5, <1>9
  <2>2. s.size <= s.len
    BY <1>2, <1>3, <1>4, <1>5, <2>1
  <2>3. ASSUME NEW i \in 0..(s.size - 1) PROVE s.buffer[i] # Null
    <3>1. i \in 0..(r.len - 1) /\ r.va + i \in Nat
      BY <1>2, <1>5, <1>6, <2>2
    <3>2. CASE i < r.size
      <4>1. r.buffer[i] # Null
        BY <1>2, <1>5, <1>9, <3>1, <3>2 DEF VectorSoFar
      <4> QED
        BY <1>2, <1>4, <1>5, <3>1, <3>2, <4>1
    <3>3. CASE i >= r.size
      BY <1>1, <1>2, <1>4, <1>5, <2>1, <3>1, <3>3
    <3> QED
      BY <1>2, <3>1, <3>2, <3>3
  <2> QED
    BY <2>2, <2>3
<1>10. ASSUME WholePages(s)
       PROVE  /\ s.size % PageSize = 0 /\ s.size <= s.len
              /\ \A i \in 0..(s.size - 1) :
                    s.buffer[i] = Null => PageOf(s.va + i) \in s.absent
  <2>1. WholePages(r) /\ FitsInt(r.len) /\ r.va % PageSize = 0 /\ r.len % PageSize = 0
    BY <1>5, <1>10 DEF WholePages
  <2>2. r.size % PageSize = 0 /\ r.size <= r.len
    BY <2>1 DEF VectorSoFar
  <2>3. /\ (r.va + r.size) % PageSize = 0
        /\ (r.size + PageSize) % PageSize = 0
        /\ r.size + PageSize <= r.len
    BY <1>2, <2>1, <2>2, Multiples
  <2>4. count = PageSize
    <3>1. PageSize <= r.len - r.size
      <4>1. r.size + PageSize <= r.len
        BY <2>3
      <4> QED
        BY <1>1, <1>2, <4>1
    <3>2. FitsInt(r.len - r.size)
      <4>1. PICK h \in Int : h = IntMod \div 2
        BY GuestAssumption
      <4> QED
        BY <1>2, <2>1, <4>1 DEF FitsInt
    <3> QED
      BY <1>3, <3>1, <3>2, Asked DEF count, Smaller
  <2>5. res \in {0, PageSize} /\ (res = 0 => ~MappedAt(r.va + r.size))
    <3>1. res = vmi_read_va(r.va + r.size, PageSize)
      BY <2>4 DEF count
    <3>2. res \in {0, PageSize}
      BY <1>3, <2>3, <3>1, WholePage
    <3>3. ASSUME res = 0 PROVE ~MappedAt(r.va + r.size)
      <4>1. ~MappedAt((r.va + r.size) + res)
        BY <1>1, <1>3, <3>1, <3>3, ReadDefined
      <4> QED
        BY <1>3, <3>3, <4>1
    <3> QED
      BY <3>2, <3>3
  <2>6. s.size = r.size + PageSize
    BY <1>5, <2>5
  <2>7. ASSUME NEW i \in 0..(s.size - 1), s.buffer[i] = Null
        PROVE  PageOf(s.va + i) \in s.absent
    <3>1. i \in 0..(r.len - 1) /\ r.va + i \in Nat
      BY SMTT(30), <1>1, <1>2, <1>6, <2>3, <2>6
    <3>2. CASE i < r.size
      <4>1. r.buffer[i] = Null
        BY <1>2, <1>5, <2>7, <3>1, <3>2
      <4>2. PageOf(r.va + i) \in r.absent
        BY <1>2, <2>1, <3>1, <3>2, <4>1 DEF VectorSoFar
      <4> QED
        BY <1>5, <4>2
    <3>3. CASE i >= r.size
      <4>1. res = 0
        <5>1. SUFFICES ASSUME res = PageSize PROVE FALSE
          BY <2>5
        <5>2. i \in r.size..(r.size + res - 1)
          BY <1>1, <1>2, <2>6, <3>1, <3>3, <5>1
        <5>3. s.buffer[i] = r.va + i
          BY <1>5, <3>1, <5>2
        <5> QED
          BY <1>1, <2>7, <3>1, <5>3
      <4>2. i - r.size \in 0..(PageSize - 1)
        BY <1>1, <1>2, <2>6, <3>1, <3>3, SMTT(20)
      <4>3. PageOf((r.va + r.size) + (i - r.size)) = PageOf(r.va + r.size)
        BY <1>2, <2>3, <4>2, SamePage
      <4>4. (r.va + r.size) + (i - r.size) = r.va + i
        BY <1>2, <3>1
      <4> QED
        BY <1>5, <2>5, <4>1, <4>3, <4>4
    <3> QED
      BY <1>2, <3>1, <3>2, <3>3
  <2> QED
    BY <2>3, <2>6, <2>7, <1>5
<1> QED
  BY <1>7, <1>8, <1>9, <1>10 DEF VectorSoFar

\* A round goes on, or gives up at an unmapped page.
LEMMA ChunkOK == VmiInv /\ ReadChunk => VmiInv'
<1> SUFFICES ASSUME VmiInv, ReadChunk PROVE VmiInv'
  OBVIOUS
<1> DEFINE res == vmi_read_va(reading.va + reading.size,
                              ChunkLength(reading.len - reading.size))
<1>1. VmiTypes' /\ InstanceLive'
  BY DEF VmiInv, ReadChunk, lifeVars, VmiTypes, InstanceLive
<1>2. /\ ReadFrame(reading) /\ VectorSoFar(reading) /\ reading # Null
      /\ reading.size < reading.len /\ res <= reading.len - reading.size
  BY DEF VmiInv, ReadingOK, ReadChunk
<1>3. CASE res = 0 /\ ~reading.fill
  <2>1. reading' = Null /\ vector' = reading
    BY <1>3 DEF ReadChunk
  <2>2. ReadingOK' /\ VectorFaithful'
    BY <1>2, <1>3, <2>1, ReturnedFaithful DEF ReadingOK
  <2> QED
    BY <1>1, <2>2 DEF VmiInv
<1>4. CASE ~(res = 0 /\ ~reading.fill)
  <2>1. vector' = Null
    BY <1>4 DEF ReadChunk
  <2>2. reading' = [reading EXCEPT
                      !.size = Advance(reading.size, res),
                      !.absent = IF MappedAt(reading.va + reading.size) THEN @
                                 ELSE @ \cup {PageOf(reading.va + reading.size)},
                      !.buffer = [i \in DOMAIN @ |->
                          IF i \in reading.size..(reading.size + res - 1)
                          THEN reading.va + i ELSE @[i]]]
    BY <1>4 DEF ReadChunk
  <2>3. res = 0 => reading.fill
    BY <1>4
  <2> HIDE DEF res
  <2>4. ReadFrame(reading') /\ VectorSoFar(reading')
    BY <1>2, <2>2, <2>3, RoundOK DEF res
  <2>5. ReadingOK'
    BY <2>4 DEF ReadingOK, ReadFrame, VectorSoFar, WholePages, FitsInt, PageOf
  <2>6. VectorFaithful'
    BY <2>1 DEF VectorFaithful
  <2> QED
    BY <1>1, <2>5, <2>6 DEF VmiInv
<1> QED
  BY <1>3, <1>4

\* A round that wrote past its buffer returns nothing.
LEMMA OverrunOK == VmiInv /\ Overrun => VmiInv'
<1> SUFFICES ASSUME VmiInv, Overrun PROVE VmiInv'
  OBVIOUS
<1>1. VmiTypes' /\ InstanceLive'
  BY DEF VmiInv, Overrun, VmiTypes, InstanceLive
<1>2. ReadingOK' /\ VectorFaithful'
  BY DEF Overrun, ReadingOK, VectorFaithful
<1> QED
  BY <1>1, <1>2 DEF VmiInv

-----------------------------------------------------------------------------
(* All steps. *)

\* Every step of libvmiwrapper and of the guest's page tables.
LEMMA VmiNextOK == VmiInv /\ VmiNext => VmiInv'
<1> SUFFICES ASSUME VmiInv, VmiNext PROVE VmiInv'
  OBVIOUS
<1>1. ASSUME NEW v \in Objects, VMIInstance(v) PROVE VmiInv'
  BY <1>1, ConstructOK
<1>2. ASSUME NEW v \in Objects, Destroy(v) PROVE VmiInv'
  BY <1>2, DestroyOK
<1>3. ASSUME NEW v \in Objects, NEW va \in ReadStarts, NEW len \in ReadLengths,
             NEW fill \in BOOLEAN, readVectorFromVA(v, va, len, fill)
      PROVE  VmiInv'
  BY <1>3, BeginOK
<1>4. CASE ReadStep
  BY <1>4, ChunkOK, OverrunOK, ReturnOK DEF ReadStep
<1>5. CASE Remap
  <2>1. Aside
    BY <1>5 DEF Remap, lifeVars, Aside
  <2> QED
    BY <2>1, AsideOK
<1> QED
  BY <1>1, <1>2, <1>3, <1>4, <1>5 DEF VmiNext

\* Navigation stays outside of the reads of vectors, the parser and the guest.
LEMMA NavigateOutside == Navigate => Outside
<1>1. ASSUME NEW x, Variable_getInstance(x) PROVE Outside
  BY <1>1 DEF Variable_getInstance
<1>2. ASSUME NEW m, NEW ptr, NEW zero, memberByName(m, ptr, zero) PROVE Outside
  BY <1>2 DEF memberByName
<1>3. ASSUME NEW offset, NEW ptr, memberByOffset(offset, ptr) PROVE Outside
  BY <1>3 DEF memberByOffset
<1>4. ASSUME NEW element, arrayElem(element) PROVE Outside
  BY <1>4 DEF arrayElem
<1>5. ASSUME dereference PROVE Outside
  BY <1>5 DEF dereference
<1>6. ASSUME NEW t, NEW m, changeBaseType(t, m) PROVE Outside
  BY <1>6 DEF changeBaseType
<1>7. ASSUME NEW T, getValue(T) PROVE Outside
  BY <1>7 DEF getValue
<1>8. ASSUME NEW follow, getRawValue(follow) PROVE Outside
  BY <1>8 DEF getRawValue
<1> QED
  BY <1>1, <1>2, <1>3, <1>4, <1>5, <1>6, <1>7, <1>8 DEF Navigate

\* Decoding, the guest's writes and navigation go on beside the reads.
LEMMA NextOK == VmiInv /\ [Next]_vars => VmiInv'
<1> SUFFICES ASSUME VmiInv, [Next]_vars PROVE VmiInv'
  OBVIOUS
<1>1. CASE VmiNext
  BY <1>1, VmiNextOK
<1>2. ASSUME NEW x \in StructMembers, StructuredMember(x[1], x[2]) PROVE Aside
  BY <1>2 DEF StructuredMember, vmiVars, lifeVars, Aside
<1>3. ASSUME NEW x \in DOMAIN Variables, Variable(x) PROVE Aside
  BY <1>3 DEF Variable, vmiVars, lifeVars, Aside
<1>4. ASSUME GuestWrites PROVE Aside
  BY <1>4 DEF GuestWrites, lifeVars, Aside
<1>5. ASSUME Outside PROVE Aside
  BY <1>5 DEF Outside, lifeVars, Aside
<1>6. ASSUME Navigate PROVE Aside
  BY <1>5, <1>6, NavigateOutside
<1>7. ASSUME UNCHANGED vars PROVE Aside
  BY <1>7 DEF vars, vmiVars, lifeVars, Aside
<1> QED
  BY <1>1, <1>2, <1>3, <1>4, <1>6, <1>7, AsideOK DEF Next

\* The static instance always is a live object with an open handle, for any
\* number of VMIInstances that are constructed, fail and are destroyed.
THEOREM InstanceAlwaysLive == Spec => []InstanceLive
<1>1. VmiInv => InstanceLive
  BY DEF VmiInv
<1> QED
  BY <1>1, InitOK, NextOK, PTL DEF Spec

\* readVectorFromVA is faithful for any page size, start and length, whatever
\* the guest maps and unmaps between its rounds.
THEOREM VectorsFaithful == Spec => []VectorFaithful
<1>1. VmiInv => VectorFaithful
  BY DEF VmiInv
<1> QED
  BY <1>1, InitOK, NextOK, PTL DEF Spec

-----------------------------------------------------------------------------
(* Attributes. *)

\* Remainders are below the divisor, and a number is made of both.
LEMMA DivMod ==
    ASSUME NEW a \in Nat, NEW n \in Nat, n > 0
    PROVE  /\ a \div n \in Nat /\ a % n \in Nat /\ a % n < n
           /\ (a \div n) * n + (a % n) = a
<1>1. a \div n \in Int /\ a % n \in 0..(n - 1) /\ a = n * (a \div n) + (a % n)
  OBVIOUS
<1>2. a \div n >= 0
  <2>1. SUFFICES ASSUME a \div n <= -1 PROVE FALSE
    BY <1>1
  <2>2. n * (a \div n) <= n * (-1)
    BY <1>1, <2>1
  <2>3. n * (-1) = -n
    OBVIOUS
  <2> QED
    BY <1>1, <2>2, <2>3
<1>3. (a \div n) * n = n * (a \div n)
  BY <1>1
<1> QED
  BY <1>1, <1>2, <1>3

\* s are the sums of the N digits from the most significant one on.
Sums(s, base, digits, N) ==
    /\ s \in [0..N -> Nat] /\ s[0] = 0 /\ Joined(base, digits) = s[N]
    /\ \A k \in 1..N : s[k] = (s[k - 1] * base) + (digits[N + 1 - k] % base)

\* Joined sums up the digits from the most significant one on.
LEMMA JoinedSums ==
    ASSUME NEW base \in Nat, base > 0, NEW digits \in Seq(Nat), NEW N, N = Len(digits)
    PROVE  \E s : Sums(s, base, digits, N)
<1>1. N \in Nat
  OBVIOUS
<1> DEFINE D == [k \in 1..N |-> digits[N + 1 - k] % base]
<1>2. D \in [1..N -> Nat]
  <2> SUFFICES ASSUME NEW k \in 1..N PROVE digits[N + 1 - k] % base \in Nat
    OBVIOUS
  <2>1. N + 1 - k \in 1..N
    BY <1>1
  <2>2. digits[N + 1 - k] \in Nat
    BY <2>1
  <2> QED
    BY <2>2, DivMod
<1> DEFINE F == [p \in (1..N) \X Nat |-> (p[2] * base) + D[p[1]]]
<1>3. F \in [(1..N) \X Nat -> Nat]
  <2> SUFFICES ASSUME NEW p \in (1..N) \X Nat PROVE (p[2] * base) + D[p[1]] \in Nat
    OBVIOUS
  <2>1. p[2] \in Nat /\ D[p[1]] \in Nat
    BY <1>2
  <2> HIDE DEF D
  <2> QED
    BY <2>1
<1> HIDE DEF F
<1>4. PICK g \in [0..N -> Nat] : Computes(g, N, 0, F)
  BY <1>1, <1>3, Recursion
<1> DEFINE Eq(h) == h = [k \in 0..N |-> IF k = 0 THEN 0 ELSE (h[k - 1] * base) + (digits[N + 1 - k] % base)]
<1>5. Eq(g)
  <2>1. ASSUME NEW k \in 1..N PROVE g[k] = (g[k - 1] * base) + (digits[N + 1 - k] % base)
    <3>1. k - 1 \in 0..N
      BY <1>1
    <3>2. g[k] = F[<<k, g[k - 1]>>] /\ <<k, g[k - 1]>> \in (1..N) \X Nat
      BY <1>4, <3>1 DEF Computes
    <3> QED
      BY <3>2 DEF F
  <2>2. g[0] = 0
    BY <1>4 DEF Computes
  <2>3. \A k \in 0..N : k = 0 \/ k \in 1..N
    BY <1>1
  <2> QED
    BY <2>1, <2>2, <2>3
<1> DEFINE f == CHOOSE h : Eq(h)
<1>6. Joined(base, digits) = f[N]
  BY DEF Joined
<1> HIDE DEF Eq
<1>7. Eq(f)
  BY <1>5
<1> HIDE DEF f
<1> USE DEF Eq
<1>8. f[0] = 0 /\ DOMAIN f = 0..N
  BY <1>1, <1>7
<1>9. ASSUME NEW k \in 1..N PROVE f[k] = (f[k - 1] * base) + D[k]
  <2>1. k \in 0..N /\ k # 0
    BY <1>1
  <2> QED
    BY <1>7, <2>1
<1>10. f = [k \in 0..N |-> f[k]]
  BY <1>7
<1> HIDE DEF Eq
<1> DEFINE S == {k \in 0..N : f[k] \in Nat}
<1>11. \A k \in 0..N : k \in S
  <2>1. 0 \in S
    BY <1>1, <1>8
  <2>2. ASSUME NEW k \in 0..(N - 1), k \in S PROVE k + 1 \in S
    <3>1. k + 1 \in 1..N /\ k + 1 \in 0..N /\ (k + 1) - 1 = k
      BY <1>1
    <3>2. f[k + 1] = (f[k] * base) + D[k + 1] /\ D[k + 1] \in Nat /\ f[k] \in Nat
      BY <1>2, <1>9, <2>2, <3>1
    <3>3. \A a, d \in Nat : (a * base) + d \in Nat
      OBVIOUS
    <3>4. f[k + 1] \in Nat
      BY <3>2, <3>3
    <3> QED
      BY <3>1, <3>4
  <2> HIDE DEF S
  <2> QED
    BY <1>1, <2>1, <2>2, NaturalsUpTo
<1>12. f \in [0..N -> Nat]
  BY <1>10, <1>11
<1>13. Sums(f, base, digits, N)
  BY <1>6, <1>8, <1>9, <1>12 DEF Sums
<1> QED
  BY <1>13

\* Shifted divides by the base again and again.
LEMMA ShiftedValues ==
    ASSUME NEW base \in Nat, base > 0, NEW n \in Nat
    PROVE  LET s == Shifted(n, base)
           IN  /\ s \in [0..AddressBytes -> Nat] /\ s[0] = n
               /\ \A k \in 1..AddressBytes : s[k] = s[k - 1] \div base
<1>1. PICK N \in Nat : N = AddressBytes
  BY DEF AddressBytes
<1> DEFINE F == [p \in (1..N) \X Nat |-> p[2] \div base]
<1>3. F \in [(1..N) \X Nat -> Nat]
  <2> SUFFICES ASSUME NEW p \in (1..N) \X Nat PROVE p[2] \div base \in Nat
    OBVIOUS
  <2> QED
    BY DivMod
<1> HIDE DEF F
<1>4. PICK g \in [0..N -> Nat] : Computes(g, N, n, F)
  BY <1>3, Recursion
<1> DEFINE Eq(h) == h = [k \in 0..AddressBytes |-> IF k = 0 THEN n ELSE h[k - 1] \div base]
<1>5. Eq(g)
  <2>1. ASSUME NEW k \in 1..N PROVE g[k] = g[k - 1] \div base
    <3>1. k - 1 \in 0..N
      OBVIOUS
    <3>2. g[k] = F[<<k, g[k - 1]>>] /\ <<k, g[k - 1]>> \in (1..N) \X Nat
      BY <1>4, <3>1 DEF Computes
    <3> QED
      BY <3>2 DEF F
  <2>2. g[0] = n
    BY <1>4 DEF Computes
  <2>3. \A k \in 0..N : k = 0 \/ k \in 1..N
    OBVIOUS
  <2> QED
    BY <1>1, <2>1, <2>2, <2>3
<1> DEFINE f == CHOOSE h : Eq(h)
<1>6. Shifted(n, base) = f
  BY DEF Shifted
<1> HIDE DEF Eq
<1>7. Eq(f)
  BY <1>5
<1> HIDE DEF f
<1> USE DEF Eq
<1>8. f[0] = n /\ DOMAIN f = 0..N
  BY <1>1, <1>7
<1>9. ASSUME NEW k \in 1..N PROVE f[k] = f[k - 1] \div base
  <2>1. k \in 0..AddressBytes /\ k # 0
    BY <1>1
  <2> QED
    BY <1>7, <2>1
<1>10. f = [k \in 0..N |-> f[k]]
  BY <1>1, <1>7
<1> HIDE DEF Eq
<1> DEFINE S == {k \in 0..N : f[k] \in Nat}
<1>11. \A k \in 0..N : k \in S
  <2>1. 0 \in S
    BY <1>8
  <2>2. ASSUME NEW k \in 0..(N - 1), k \in S PROVE k + 1 \in S
    <3>1. k + 1 \in 1..N /\ k + 1 \in 0..N /\ (k + 1) - 1 = k
      OBVIOUS
    <3>2. f[k + 1] = f[k] \div base /\ f[k] \in Nat
      BY <1>9, <2>2, <3>1
    <3>3. f[k + 1] \in Nat
      BY <3>2, DivMod
    <3> QED
      BY <3>1, <3>3
  <2> HIDE DEF S
  <2> QED
    BY <2>1, <2>2, NaturalsUpTo
<1>12. f \in [0..N -> Nat]
  BY <1>10, <1>11
<1> QED
  BY <1>1, <1>6, <1>8, <1>9, <1>12

\* The digits of a number that they hold make up the number.
LEMMA JoinedDigits ==
    ASSUME NEW base \in Nat, base > 0, NEW n \in Nat,
           NEW L \in 0..AddressBytes, NEW digits \in Seq(Nat), Len(digits) = L,
           \A i \in 1..L : digits[i] % base = Digit(n, base, i), Fits(n, base, L)
    PROVE  Joined(base, digits) = n
<1>1. PICK N \in Nat : N = AddressBytes
  BY DEF AddressBytes
<1>2. PICK h : h = Shifted(n, base)
  OBVIOUS
<1>3. /\ h \in [0..N -> Nat] /\ h[0] = n /\ h[L] = 0
      /\ \A k \in 1..N : h[k] = h[k - 1] \div base
  <2>1. /\ h \in [0..AddressBytes -> Nat] /\ h[0] = n
        /\ \A k \in 1..AddressBytes : h[k] = h[k - 1] \div base
    BY <1>2, ShiftedValues
  <2>2. h[L] = 0
    BY <1>2 DEF Fits
  <2> QED
    BY <1>1, <2>1, <2>2
<1>4. PICK s : Sums(s, base, digits, L)
  BY JoinedSums
<1>5. L \in Nat /\ L <= N
  BY <1>1
<1> DEFINE S == {k \in 0..L : s[k] = h[L - k]}
<1>6. 0 \in S
  BY <1>3, <1>4, <1>5 DEF Sums
<1>7. ASSUME NEW k \in 0..(L - 1), k \in S PROVE k + 1 \in S
  <2>1. /\ k + 1 \in 1..L /\ k + 1 \in 0..L /\ (k + 1) - 1 = k
        /\ L + 1 - (k + 1) = L - k /\ L - k \in 1..L /\ L - k \in 1..N
        /\ (L - k) - 1 = L - (k + 1) /\ L - (k + 1) \in 0..N
    BY <1>5
  <2>2. s[k + 1] = (s[k] * base) + (digits[L - k] % base)
    BY <1>4, <2>1 DEF Sums
  <2>3. digits[L - k] % base = h[L - (k + 1)] % base
    BY <1>2, <2>1 DEF Digit
  <2>4. s[k] = h[L - (k + 1)] \div base
    BY <1>3, <1>7, <2>1
  <2>5. h[L - (k + 1)] \in Nat
    BY <1>3, <2>1
  <2>6. s[k + 1] = h[L - (k + 1)]
    BY <2>2, <2>3, <2>4, <2>5, DivMod
  <2> QED
    BY <2>1, <2>6
<1> HIDE DEF S
<1>8. L \in S
  <2>1. \A k \in 0..L : k \in S
    BY <1>5, <1>6, <1>7, NaturalsUpTo
  <2> QED
    BY <1>5, <2>1
<1> QED
  BY <1>3, <1>4, <1>5, <1>8 DEF S, Sums

\* Digits are below the base.
LEMMA DigitBelow ==
    ASSUME NEW base \in Nat, base > 0, NEW n \in Nat, NEW i \in 1..AddressBytes
    PROVE  Digit(n, base, i) \in Nat /\ Digit(n, base, i) < base
<1>1. PICK N \in Nat : N = AddressBytes
  BY DEF AddressBytes
<1>2. PICK h : h = Shifted(n, base)
  OBVIOUS
<1>3. h \in [0..N -> Nat]
  BY <1>1, <1>2, ShiftedValues
<1>4. i - 1 \in 0..N
  BY <1>1
<1>5. h[i - 1] \in Nat /\ Digit(n, base, i) = h[i - 1] % base
  BY <1>2, <1>3, <1>4 DEF Digit
<1> QED
  BY <1>5, DivMod

\* The remainder of a digit is the digit, with or without the base added.
LEMMA DigitRemains ==
    ASSUME NEW base \in Nat, base > 0, NEW d \in Nat, d < base
    PROVE  d % base = d /\ (d + base) % base = d
<1>1. (base * 0 + d) % base = d /\ (base * 1 + d) % base = d
  BY Division
<1>2. base * 0 + d = d /\ base * 1 + d = d + base
  OBVIOUS
<1> QED
  BY <1>1, <1>2

\* A ULEB128 number ends at its last byte, padded or not, and is decoded exactly.
LEMMA UlebExact ==
    ASSUME NEW form \in {"block1", "exprloc"}, NEW n \in Nat, NEW size \in 1..5,
           Fits(n, Group, size)
    PROVE  getDieAttributeNumber(Uleb(form, n, size), 0) = n
<1>1. PICK g \in Nat : g = Group /\ g > 1
  BY ByteAssumption
<1>2. size \in 0..AddressBytes /\ \A i \in 1..size : i \in 1..AddressBytes
  BY DEF AddressBytes
<1> DEFINE bytes == [i \in 1..size |-> Digit(n, Group, i) + IF i < size THEN Group ELSE 0]
<1>3. ASSUME NEW i \in 1..size
      PROVE  /\ bytes[i] \in Nat /\ bytes[i] % Group = Digit(n, Group, i)
             /\ bytes[i] < Group <=> i = size
  <2>1. PICK d \in Nat : d = Digit(n, Group, i) /\ d < g
    BY <1>1, <1>2, DigitBelow
  <2>2. bytes[i] = IF i < size THEN d + g ELSE d
    BY <1>1, <2>1
  <2>3. d % g = d /\ (d + g) % g = d
    BY <1>1, <2>1, DigitRemains
  <2> HIDE DEF bytes
  <2> QED
    BY <1>1, <2>1, <2>2, <2>3
<1>4. bytes \in Seq(Nat) /\ Len(bytes) = size
  <2>1. bytes \in [1..size -> Nat]
    BY <1>3
  <2> HIDE DEF bytes
  <2> QED
    BY <2>1
<1> DEFINE attr == Uleb(form, n, size)
<1>5. attr.form = form /\ attr.blen = size + 1 /\ attr.op = "plus_uconst" /\ attr.bytes = bytes
  BY DEF Uleb
<1> DEFINE final == {i \in 1..((size + 1) - 1) : bytes[i] < Group \/ i = (size + 1) - 1}
<1>6. final = {size}
  <2>1. (size + 1) - 1 = size /\ size \in 1..size
    OBVIOUS
  <2> HIDE DEF bytes
  <2> QED
    BY <1>3, <2>1
<1>7. (CHOOSE i \in final : \A j \in final : i <= j) = size
  <2> HIDE DEF final
  <2> QED
    BY <1>6
<1>8. SubSeq(bytes, 1, size) = bytes
  <2> HIDE DEF bytes
  <2> QED
    BY <1>4
<1>9. parseBlock(size + 1, "plus_uconst", bytes) = Joined(Group, bytes)
  <2>1. parseBlock(size + 1, "plus_uconst", bytes) =
          IF final = {} THEN 0
          ELSE Joined(Group, SubSeq(bytes, 1, CHOOSE i \in final : \A j \in final : i <= j))
    BY DEF parseBlock
  <2> HIDE DEF final, bytes
  <2> QED
    BY <1>6, <1>7, <1>8, <2>1
<1>10. Joined(Group, bytes) = n
  <2> HIDE DEF bytes
  <2>1. Group \in Nat /\ Group > 0
    BY ByteAssumption
  <2> QED
    BY <1>2, <1>3, <1>4, <2>1, JoinedDigits
<1>11. getDieAttributeNumber(attr, 0) = parseBlock(attr.blen, attr.op, attr.bytes)
  <2> HIDE DEF attr
  <2> QED
    BY <1>5 DEF getDieAttributeNumber
<1> HIDE DEF bytes, attr
<1>12. getDieAttributeNumber(attr, 0) = n
  BY <1>5, <1>9, <1>10, <1>11
<1> QED
  BY <1>12 DEF attr

\* The 8 bytes behind DW_OP_addr are decoded exactly, whatever the block ends in.
LEMMA AddrExact ==
    ASSUME NEW form \in {"block1", "exprloc"}, NEW n \in Nat, NEW blen,
           Fits(n, Byte, AddressBytes)
    PROVE  getDieAttributeNumber(Addr(form, n, blen), 0) = n
<1>1. PICK g \in Nat : g = Byte /\ g > 0
  BY ByteAssumption DEF Byte
<1>2. PICK N \in Nat : N = AddressBytes
  BY DEF AddressBytes
<1> DEFINE bytes == [i \in 1..AddressBytes |-> Digit(n, Byte, i)]
<1>3. ASSUME NEW i \in 1..N
      PROVE  bytes[i] \in Nat /\ bytes[i] % g = Digit(n, g, i)
  <2>1. PICK d \in Nat : d = Digit(n, g, i) /\ d < g
    BY <1>1, <1>2, DigitBelow
  <2>2. bytes[i] = d
    BY <1>1, <1>2, <2>1
  <2>3. d % g = d
    BY <1>1, <2>1, DigitRemains
  <2> QED
    BY <2>1, <2>2, <2>3
<1>4. bytes \in Seq(Nat) /\ Len(bytes) = N
  <2>1. bytes \in [1..N -> Nat]
    BY <1>2, <1>3
  <2> HIDE DEF bytes
  <2> QED
    BY <2>1
<1> DEFINE attr == Addr(form, n, blen)
<1>5. attr.form = form /\ attr.blen = blen /\ attr.op = "addr" /\ attr.bytes = bytes
  BY DEF Addr
<1>6. getDieAttributeNumber(attr, 0) = parseBlock(attr.blen, attr.op, attr.bytes)
  <2> HIDE DEF attr
  <2> QED
    BY <1>5 DEF getDieAttributeNumber
<1> HIDE DEF bytes, attr
<1>7. SubSeq(bytes, 1, N) = bytes
  BY <1>4
<1>8. parseBlock(blen, "addr", bytes) = Joined(g, bytes)
  BY <1>1, <1>2, <1>7 DEF parseBlock
<1>9. Joined(g, bytes) = n
  <2>1. N \in 0..AddressBytes /\ Fits(n, g, N)
    BY <1>1, <1>2
  <2> QED
    BY <1>1, <1>3, <1>4, <2>1, JoinedDigits
<1>10. getDieAttributeNumber(attr, 0) = n
  BY <1>5, <1>6, <1>8, <1>9
<1> QED
  BY <1>10 DEF attr

\* Every encoding of an offset and of an address is decoded exactly.
LEMMA EncodingsExact ==
    ASSUME NEW n \in Nat
    PROVE  /\ \A attr \in OffsetEncodings(n) : getDieAttributeNumber(attr, 0) = n
           /\ Fits(n, Byte, AddressBytes) =>
                 \A attr \in AddressEncodings(n) : getDieAttributeNumber(attr, 0) = n
<1>1. ASSUME NEW form \in {"data1", "sdata", "addr"}
      PROVE  getDieAttributeNumber(Plain(form, n), 0) = n
  BY DEF getDieAttributeNumber, Plain
<1>2. ASSUME NEW attr \in OffsetEncodings(n) PROVE getDieAttributeNumber(attr, 0) = n
  <2>1. CASE attr \in {Plain("data1", n), Plain("sdata", n)}
    BY <1>1, <2>1
  <2>2. CASE attr \notin {Plain("data1", n), Plain("sdata", n)}
    <3>1. PICK form \in {"block1", "exprloc"}, size \in {k \in 1..5 : Fits(n, Group, k)} :
              attr = Uleb(form, n, size)
      BY <2>2 DEF OffsetEncodings
    <3> QED
      BY <3>1, UlebExact
  <2> QED
    BY <2>1, <2>2
<1>3. ASSUME NEW attr \in AddressEncodings(n), Fits(n, Byte, AddressBytes)
      PROVE  getDieAttributeNumber(attr, 0) = n
  <2>1. attr \in {Plain("addr", n), Addr("exprloc", n, 9), Addr("block1", n, 10)}
    BY DEF AddressEncodings
  <2> QED
    BY <1>1, <1>3, <2>1, AddrExact
<1> QED
  BY <1>2, <1>3

\* Nothing is decoded at first.
LEMMA DecodedInit == Init => DecodedExact
BY DEF Init, DecodedExact

\* Only the parser sets locations.
LEMMA DecodedAside == DecodedExact /\ UNCHANGED dieVars => DecodedExact'
BY DEF DecodedExact, dieVars

\* A member is decoded from any encoding of its offset.
LEMMA MemberDecoded ==
    ASSUME DecodedExact, NEW x \in StructMembers, StructuredMember(x[1], x[2])
    PROVE  DecodedExact'
<1>1. PICK s \in DOMAIN Types : x \in {<<s, m>> : m \in Members(s)}
  BY DEF StructMembers
<1>2. PICK m \in Members(s) : x = <<s, m>>
  BY <1>1
<1>3. PICK n \in Nat : n = Types[s].members[m].offset
  BY TypesAssumption
<1>4. PICK attr \in OffsetEncodings(n) :
          layout' = [layout EXCEPT ![<<s, m>>] = getDieAttributeNumber(attr, 0)]
  BY <1>2, <1>3 DEF StructuredMember
<1>5. layout' = [layout EXCEPT ![x] = n] /\ location' = location
  BY <1>2, <1>4, EncodingsExact DEF StructuredMember
<1>6. Types[x[1]].members[x[2]].offset = n
  BY <1>2, <1>3
<1> QED
  BY <1>5, <1>6 DEF DecodedExact

\* A variable is decoded from any encoding of its address, or has none.
LEMMA VariableDecoded ==
    ASSUME DecodedExact, NEW x \in DOMAIN Variables, Variable(x)
    PROVE  DecodedExact'
<1>1. Variables[x] \in Range(Variables)
  BY DEF Range
<1>2. PICK n \in Nat : n = Variables[x].address /\ Fits(n, Byte, AddressBytes)
  BY <1>1, TypesAssumption
<1>3. location' = [location EXCEPT ![x] = n] /\ layout' = layout
  BY <1>2, EncodingsExact DEF Variable
<1> QED
  BY <1>2, <1>3 DEF DecodedExact

\* Steps other than the parser's leave the locations alone.
LEMMA DieVarsKept ==
    ASSUME (VmiNext /\ UNCHANGED dieVars) \/ GuestWrites \/ Navigate \/ UNCHANGED vars
    PROVE  UNCHANGED dieVars
<1>1. ASSUME GuestWrites PROVE UNCHANGED dieVars
  BY <1>1 DEF GuestWrites
<1>2. ASSUME UNCHANGED vars PROVE UNCHANGED dieVars
  BY <1>2 DEF vars
<1>3. ASSUME Outside PROVE UNCHANGED dieVars
  BY <1>3 DEF Outside
<1>4. ASSUME Navigate PROVE UNCHANGED dieVars
  BY <1>3, <1>4, NavigateOutside
<1> QED
  BY <1>1, <1>2, <1>4

\* Every step decodes exactly what was encoded.
LEMMA DecodedNext == DecodedExact /\ [Next]_vars => DecodedExact'
<1> SUFFICES ASSUME DecodedExact, [Next]_vars PROVE DecodedExact'
  OBVIOUS
<1>1. \/ (VmiNext /\ UNCHANGED dieVars) \/ GuestWrites \/ Navigate \/ UNCHANGED vars
      \/ \E x \in StructMembers : StructuredMember(x[1], x[2])
      \/ \E x \in DOMAIN Variables : Variable(x)
  BY DEF Next
<1> QED
  BY <1>1, DieVarsKept, DecodedAside, MemberDecoded, VariableDecoded

\* Decoding is exact for bytes of any width, for every number of up to 8 bytes,
\* and for every encoding of it, padded or not.
THEOREM LocationsDecodedExactly == Spec => []DecodedExact
BY DecodedInit, DecodedNext, PTL DEF Spec

-----------------------------------------------------------------------------
(* Types. *)

\* Sizes are natural numbers.
LEMMA SizeTyped == \A t \in DOMAIN Types : getByteSize(t) \in Nat /\ TrueSize(t) \in Nat
<1>1. PICK N \in Nat : N = MaxChain
  BY TypesAssumption
<1> DEFINE T == DOMAIN Types
           V == [T -> Nat]
           Own == [t \in T |-> Types[t].byteSize]
           Times == [t \in T |-> IF Kind(t) = "array" THEN Types[t].length ELSE 1]
           F == [p \in (1..N) \X V |->
                   [t \in T |-> IF ~IsRef(t) THEN Types[t].byteSize
                                ELSE p[2][Types[t].of] * Times[t]]]
<1>2. Own \in V /\ Times \in V
  BY TypesAssumption
<1>3. F \in [(1..N) \X V -> V]
  <2> SUFFICES ASSUME NEW p \in (1..N) \X V, NEW t \in T, IsRef(t)
               PROVE  p[2][Types[t].of] * Times[t] \in Nat
    BY TypesAssumption
  <2>1. p[2] \in V /\ Types[t].of \in T
    BY TypesAssumption
  <2>2. p[2][Types[t].of] \in Nat /\ Times[t] \in Nat
    BY <1>2, <2>1
  <2> HIDE DEF Times
  <2> QED
    BY <2>2
<1> HIDE DEF F
<1>4. PICK g \in [0..N -> V] : Computes(g, N, Own, F)
  BY <1>2, <1>3, Recursion
<1> DEFINE Eq(h) == h = [n \in 0..MaxChain |->
                          [t \in DOMAIN Types |->
                              IF n = 0 \/ ~IsRef(t) THEN Types[t].byteSize
                              ELSE h[n - 1][Types[t].of]
                                    * IF Kind(t) = "array" THEN Types[t].length ELSE 1]]
<1>5. Eq(g)
  <2>1. ASSUME NEW n \in 1..N
        PROVE  g[n] = [t \in T |-> IF n = 0 \/ ~IsRef(t) THEN Types[t].byteSize
                                   ELSE g[n - 1][Types[t].of]
                                         * IF Kind(t) = "array" THEN Types[t].length ELSE 1]
    <3>1. n - 1 \in 0..N /\ n # 0
      OBVIOUS
    <3>2. g[n] = F[<<n, g[n - 1]>>] /\ <<n, g[n - 1]>> \in (1..N) \X V
      BY <1>4, <3>1 DEF Computes
    <3> QED
      BY <3>1, <3>2 DEF F
  <2>2. g[0] = Own
    BY <1>4 DEF Computes
  <2>3. \A k \in 0..N : k = 0 \/ k \in 1..N
    OBVIOUS
  <2> QED
    BY <1>1, <2>1, <2>2, <2>3
<1>6. Size = CHOOSE h : Eq(h)
  BY DEF Size
<1> HIDE DEF Eq
<1>7. Eq(Size)
  BY <1>5, <1>6
<1> USE DEF Eq
<1>8. Size[0] = Own
  BY <1>1, <1>7
<1>9. ASSUME NEW n \in 1..N, NEW t \in T
      PROVE  Size[n][t] = IF ~IsRef(t) THEN Types[t].byteSize
                          ELSE Size[n - 1][Types[t].of] * Times[t]
  <2>1. n \in 0..MaxChain /\ n # 0
    BY <1>1
  <2>2. Size[n] = [u \in DOMAIN Types |->
                      IF n = 0 \/ ~IsRef(u) THEN Types[u].byteSize
                      ELSE Size[n - 1][Types[u].of]
                            * IF Kind(u) = "array" THEN Types[u].length ELSE 1]
    BY <1>7, <2>1
  <2>3. Size[n][t] = IF n = 0 \/ ~IsRef(t) THEN Types[t].byteSize
                     ELSE Size[n - 1][Types[t].of]
                           * IF Kind(t) = "array" THEN Types[t].length ELSE 1
    BY <2>2
  <2>4. Times[t] = IF Kind(t) = "array" THEN Types[t].length ELSE 1
    OBVIOUS
  <2> QED
    BY <2>1, <2>3, <2>4
<1> HIDE DEF Eq
<1> DEFINE S == {n \in 0..N : \A t \in T : Size[n][t] \in Nat}
<1>10. \A n \in 0..N : n \in S
  <2>1. 0 \in S
    <3>1. \A t \in T : Own[t] \in Nat
      BY <1>2
    <3> HIDE DEF Own
    <3> QED
      BY <1>8, <3>1
  <2>2. ASSUME NEW n \in 0..(N - 1), n \in S PROVE n + 1 \in S
    <3>1. n + 1 \in 1..N /\ n + 1 \in 0..N /\ (n + 1) - 1 = n
      OBVIOUS
    <3>2. ASSUME NEW t \in T PROVE Size[n + 1][t] \in Nat
      <4>1. CASE ~IsRef(t)
        BY <1>9, <3>1, <4>1, TypesAssumption
      <4>2. CASE IsRef(t)
        <5>1. Types[t].of \in T
          BY <4>2, TypesAssumption
        <5>2. Size[n][Types[t].of] \in Nat /\ Times[t] \in Nat
          BY <1>2, <2>2, <5>1
        <5>3. \A a, b \in Nat : a * b \in Nat
          OBVIOUS
        <5>4. Size[n + 1][t] = Size[n][Types[t].of] * Times[t]
          BY <1>9, <3>1, <4>2
        <5> HIDE DEF Times
        <5> QED
          BY <5>2, <5>3, <5>4
      <4> QED
        BY <4>1, <4>2
    <3> QED
      BY <3>1, <3>2
  <2> HIDE DEF S
  <2> QED
    BY <2>1, <2>2, NaturalsUpTo
<1>11. \A t \in T : Size[N][t] \in Nat
  BY <1>10
<1> QED
  BY <1>1, <1>11 DEF getByteSize, TrueSize

-----------------------------------------------------------------------------
(* Lookups. *)

\* The parser's maps have an entry for each member and each variable.
LocationsOK ==
    /\ DecodedExact
    /\ DOMAIN layout = StructMembers /\ DOMAIN location = DOMAIN Variables

\* They have from the first on.
LEMMA LocationsInit == Init => LocationsOK
BY DecodedInit DEF Init, LocationsOK

\* No step adds or removes one.
LEMMA LocationsNext == LocationsOK /\ [Next]_vars => LocationsOK'
<1> SUFFICES ASSUME LocationsOK, [Next]_vars PROVE LocationsOK'
  OBVIOUS
<1>1. \/ (VmiNext /\ UNCHANGED dieVars) \/ GuestWrites \/ Navigate \/ UNCHANGED vars
      \/ \E x \in StructMembers : StructuredMember(x[1], x[2])
      \/ \E x \in DOMAIN Variables : Variable(x)
  BY DEF Next
<1>2. DecodedExact'
  BY DecodedNext DEF LocationsOK
<1>3. ASSUME UNCHANGED dieVars PROVE LocationsOK'
  BY <1>2, <1>3 DEF LocationsOK, dieVars
<1>4. ASSUME NEW x, StructuredMember(x[1], x[2]) PROVE LocationsOK'
  BY <1>2, <1>4 DEF LocationsOK, StructuredMember
<1>5. ASSUME NEW x, Variable(x) PROVE LocationsOK'
  BY <1>2, <1>5 DEF LocationsOK, Variable
<1> QED
  BY <1>1, <1>3, <1>4, <1>5, DieVarsKept

\* Once the files are read, locations are the offsets and addresses.
LEMMA LocationsRead ==
    ASSUME LocationsOK, FilesRead
    PROVE  /\ \A t \in DOMAIN Types : \A m \in Members(t) :
                 /\ <<t, m>> \in StructMembers
                 /\ memberLocation(t, m) = Types[t].members[m].offset
                 /\ memberLocation(t, m) \in Nat
           /\ \A x \in DOMAIN Variables : location[x] = Variables[x].address
<1>1. ASSUME NEW t \in DOMAIN Types, NEW m \in Members(t)
      PROVE  /\ <<t, m>> \in StructMembers
             /\ memberLocation(t, m) = Types[t].members[m].offset
             /\ memberLocation(t, m) \in Nat
  <2>1. <<t, m>> \in StructMembers
    BY DEF StructMembers
  <2>2. layout[<<t, m>>] # Null
    BY <2>1 DEF FilesRead, LocationsOK, Range
  <2>3. layout[<<t, m>>] = Types[t].members[m].offset
    BY <2>1, <2>2 DEF LocationsOK, DecodedExact
  <2> QED
    BY <2>1, <2>3, TypesAssumption DEF memberLocation
<1>2. ASSUME NEW x \in DOMAIN Variables PROVE location[x] = Variables[x].address
  <2>1. location[x] # Null
    BY DEF FilesRead, LocationsOK, Range
  <2> QED
    BY <2>1 DEF LocationsOK, DecodedExact
<1> QED
  BY <1>1, <1>2

\* Members are found by name, by their offset and from everywhere inside them.
LEMMA LookupsAgree ==
    ASSUME LocationsOK, FilesRead, NEW s \in DOMAIN Types, NEW m \in Members(s),
           NEW first, first = memberOffset(s, m)
    PROVE  /\ memberNameByOffset(s, first) = {m}
           /\ \A offset \in first..(first + TrueSize(MemberType(s, m)) - 1) :
                 Structured_memberByOffset(s, offset) = {m}
<1> DEFINE Loc(x) == memberLocation(s, x)
           Width(x) == TrueSize(MemberType(s, x))
<1>1. \A x \in Members(s) : Loc(x) \in Nat /\ Width(x) \in Nat /\ Width(x) > 0
  <2> SUFFICES ASSUME NEW x \in Members(s) PROVE Loc(x) \in Nat /\ Width(x) \in Nat /\ Width(x) > 0
    OBVIOUS
  <2>1. MemberType(s, x) \in DOMAIN Types
    BY TypesAssumption
  <2> QED
    BY <2>1, SizeTyped, LocationsRead, LayoutAssumption
<1>2. first = Loc(m)
  BY DEF memberOffset
<1>3. \A x \in Members(s) \ {m} : Loc(x) + Width(x) <= Loc(m) \/ Loc(m) + Width(m) <= Loc(x)
  BY LocationsRead, LayoutAssumption
<1>4. memberNameByOffset(s, first) = {x \in Members(s) : Loc(x) = first}
  BY DEF memberNameByOffset
<1>5. \A offset : Structured_memberByOffset(s, offset) =
          {x \in Members(s) :
              /\ Loc(x) <= offset
              /\ \A y \in Members(s) : Loc(y) > Loc(x) => Loc(y) > offset}
  BY DEF Structured_memberByOffset
<1> HIDE DEF Loc, Width
<1>6. memberNameByOffset(s, first) = {m}
  <2>1. \A x \in Members(s) \ {m} : Loc(x) # first
    BY <1>1, <1>2, <1>3
  <2> QED
    BY <1>2, <1>4, <2>1
<1>7. ASSUME NEW offset \in first..(first + Width(m) - 1)
      PROVE  Structured_memberByOffset(s, offset) = {m}
  <2>1. offset \in Int /\ Loc(m) <= offset /\ offset < Loc(m) + Width(m)
    BY <1>1, <1>2
  <2>2. \A y \in Members(s) : Loc(y) > Loc(m) => Loc(y) > offset
    BY <1>1, <1>3, <2>1
  <2>3. \A x \in Members(s) \ {m} : Loc(x) > offset \/ (Loc(m) > Loc(x) /\ ~ (Loc(m) > offset))
    BY <1>1, <1>3, <2>1
  <2>4. m \in Structured_memberByOffset(s, offset)
    BY <1>5, <2>1, <2>2
  <2>5. ASSUME NEW x \in Structured_memberByOffset(s, offset) PROVE x = m
    <3>1. /\ x \in Members(s) /\ Loc(x) <= offset
          /\ Loc(m) > Loc(x) => Loc(m) > offset
      BY <1>5, <2>5
    <3>2. ~(Loc(x) > offset)
      BY <1>1, <2>1, <3>1
    <3> QED
      BY <2>3, <3>1, <3>2
  <2> QED
    BY <2>4, <2>5
<1> QED
  BY <1>6, <1>7 DEF Width

\* Lookups agree in every layout of non-empty members that do not overlap.
THEOREM LookupsByNameAndOffsetAgree == Spec => []OffsetsAgree
<1>1. LocationsOK => OffsetsAgree
  <2> SUFFICES ASSUME LocationsOK, FilesRead, NEW x \in StructMembers
               PROVE  LET s == x[1]
                          first == memberOffset(s, x[2])
                      IN  /\ memberNameByOffset(s, first) = {x[2]}
                          /\ \A offset \in first..(first + TrueSize(MemberType(s, x[2])) - 1) :
                                Structured_memberByOffset(s, offset) = {x[2]}
    BY DEF OffsetsAgree
  <2>1. PICK s \in DOMAIN Types : x \in {<<s, m>> : m \in Members(s)}
    BY DEF StructMembers
  <2>2. PICK m \in Members(s) : x = <<s, m>>
    BY <2>1
  <2>3. x[1] = s /\ x[2] = m
    BY <2>2
  <2> QED
    BY <2>3, LookupsAgree
<1> QED
  BY <1>1, LocationsInit, LocationsNext, PTL DEF Spec

-----------------------------------------------------------------------------
(* Chains of types. *)

\* c goes from t over what types refer to.
Refers(c, t) ==
    /\ c \in Seq(DOMAIN Types) /\ Len(c) >= 1 /\ c[1] = t
    /\ \A i \in 1..(Len(c) - 1) : IsRef(c[i]) /\ c[i + 1] = Types[c[i]].of

\* A chain for what t refers to is one for t with t before it.
LEMMA RefersLonger ==
    ASSUME NEW t \in DOMAIN Types, IsRef(t), NEW d, Refers(d, Types[t].of)
    PROVE  Refers(<<t>> \o d, t)
<1> DEFINE T == DOMAIN Types
<1>1. d \in Seq(T) /\ Len(d) \in Nat /\ Len(d) >= 1 /\ d[1] = Types[t].of
  BY DEF Refers
<1>2. PICK c : c = <<t>> \o d
  OBVIOUS
<1>3. /\ c \in Seq(T) /\ Len(c) = Len(d) + 1 /\ c[1] = t
      /\ \A i \in 1..Len(d) : c[i + 1] = d[i]
  BY <1>1, <1>2
<1>4. ASSUME NEW i \in 1..(Len(c) - 1) PROVE IsRef(c[i]) /\ c[i + 1] = Types[c[i]].of
  <2>1. i \in 1..Len(d)
    BY <1>1, <1>3
  <2>2. CASE i = 1
    BY <1>1, <1>3, <2>1, <2>2
  <2>3. CASE i # 1
    <3>1. i - 1 \in 1..(Len(d) - 1) /\ (i - 1) + 1 = i /\ i - 1 \in 1..Len(d)
      BY <1>1, <2>1, <2>3
    <3>2. IsRef(d[i - 1]) /\ d[(i - 1) + 1] = Types[d[i - 1]].of
      BY <3>1 DEF Refers
    <3>3. c[i] = d[i - 1] /\ c[i + 1] = d[i]
      BY <1>3, <2>1, <3>1
    <3> QED
      BY <3>1, <3>2, <3>3
  <2> QED
    BY <2>2, <2>3
<1>5. Len(c) >= 1
  BY <1>1, <1>3
<1> QED
  BY <1>2, <1>3, <1>4, <1>5 DEF Refers

\* The chain of a type goes to one that refers to no other.
LEMMA ChainRefers ==
    ASSUME NEW t \in DOMAIN Types
    PROVE  /\ Refers(Chain[MaxChain][t], t)
           /\ getRealType(t) \in DOMAIN Types /\ ~IsRef(getRealType(t))
<1>1. PICK N \in Nat : N = MaxChain
  BY TypesAssumption
<1> DEFINE T == DOMAIN Types
           V == [T -> Seq(T)]
           One == [u \in T |-> <<u>>]
           F == [p \in (1..N) \X V |->
                   [u \in T |-> IF ~IsRef(u) THEN <<u>> ELSE <<u>> \o p[2][Types[u].of]]]
<1>2. One \in V
  OBVIOUS
<1>3. F \in [(1..N) \X V -> V]
  <2>1. ASSUME NEW p \in (1..N) \X V, NEW u \in T, IsRef(u)
        PROVE  <<u>> \o p[2][Types[u].of] \in Seq(T)
    <3>1. p[2] \in V /\ Types[u].of \in T
      BY <2>1, TypesAssumption
    <3>2. p[2][Types[u].of] \in Seq(T)
      BY <3>1
    <3> QED
      BY <3>2
  <2>2. ASSUME NEW p \in (1..N) \X V
        PROVE  [u \in T |-> IF ~IsRef(u) THEN <<u>> ELSE <<u>> \o p[2][Types[u].of]] \in V
    <3> SUFFICES ASSUME NEW u \in T
                 PROVE  (IF ~IsRef(u) THEN <<u>> ELSE <<u>> \o p[2][Types[u].of]) \in Seq(T)
      OBVIOUS
    <3>1. <<u>> \in Seq(T)
      OBVIOUS
    <3> QED
      BY <2>1, <3>1
  <2> HIDE DEF V
  <2> QED
    BY <2>2
<1> HIDE DEF F
<1>4. PICK g \in [0..N -> V] : Computes(g, N, One, F)
  BY <1>2, <1>3, Recursion
<1> DEFINE Eq(h) == h = [n \in 0..MaxChain |->
                          [u \in DOMAIN Types |->
                              IF n = 0 \/ ~IsRef(u) THEN <<u>> ELSE <<u>> \o h[n - 1][Types[u].of]]]
<1>5. Eq(g)
  <2>1. ASSUME NEW n \in 1..N
        PROVE  g[n] = [u \in T |-> IF n = 0 \/ ~IsRef(u) THEN <<u>>
                                   ELSE <<u>> \o g[n - 1][Types[u].of]]
    <3>1. n - 1 \in 0..N /\ n # 0
      OBVIOUS
    <3>2. g[n] = F[<<n, g[n - 1]>>] /\ <<n, g[n - 1]>> \in (1..N) \X V
      BY <1>4, <3>1 DEF Computes
    <3> QED
      BY <3>1, <3>2 DEF F
  <2>2. g[0] = One
    BY <1>4 DEF Computes
  <2>3. \A k \in 0..N : k = 0 \/ k \in 1..N
    OBVIOUS
  <2> QED
    BY <1>1, <2>1, <2>2, <2>3
<1>6. Chain = CHOOSE h : Eq(h)
  BY DEF Chain
<1> HIDE DEF Eq
<1>7. Eq(Chain)
  BY <1>5, <1>6
<1> USE DEF Eq
<1>8. Chain[0] = One
  BY <1>1, <1>7
<1>9. ASSUME NEW n \in 1..N, NEW u \in T
      PROVE  Chain[n][u] = IF ~IsRef(u) THEN <<u>> ELSE <<u>> \o Chain[n - 1][Types[u].of]
  <2>1. n \in 0..MaxChain /\ n # 0
    BY <1>1
  <2>2. Chain[n] = [w \in DOMAIN Types |->
                      IF n = 0 \/ ~IsRef(w) THEN <<w>> ELSE <<w>> \o Chain[n - 1][Types[w].of]]
    BY <1>7, <2>1
  <2> QED
    BY <2>1, <2>2
<1> HIDE DEF Eq
<1>10. ASSUME NEW u \in T PROVE Refers(<<u>>, u)
  BY DEF Refers
<1> DEFINE S == {n \in 0..N : \A u \in T : Refers(Chain[n][u], u)}
<1>11. \A n \in 0..N : n \in S
  <2>1. 0 \in S
    BY <1>8, <1>10
  <2>2. ASSUME NEW n \in 0..(N - 1), n \in S PROVE n + 1 \in S
    <3>1. n + 1 \in 1..N /\ n + 1 \in 0..N /\ (n + 1) - 1 = n
      OBVIOUS
    <3>2. ASSUME NEW u \in T PROVE Refers(Chain[n + 1][u], u)
      <4>1. CASE ~IsRef(u)
        BY <1>9, <1>10, <3>1, <4>1
      <4>2. CASE IsRef(u)
        <5>1. Types[u].of \in T
          BY <4>2, TypesAssumption
        <5>2. Refers(Chain[n][Types[u].of], Types[u].of)
          BY <2>2, <5>1
        <5>3. Chain[n + 1][u] = <<u>> \o Chain[n][Types[u].of]
          BY <1>9, <3>1, <4>2
        <5> QED
          BY <4>2, <5>2, <5>3, RefersLonger
      <4> QED
        BY <4>1, <4>2
    <3> QED
      BY <3>1, <3>2
  <2> HIDE DEF S
  <2> QED
    BY <2>1, <2>2, NaturalsUpTo
<1>12. Refers(Chain[N][t], t)
  BY <1>11
<1>13. getRealType(t) \in T
  <2>1. PICK c : c = Chain[MaxChain][t]
    OBVIOUS
  <2>2. c \in Seq(T) /\ Len(c) \in 1..Len(c)
    BY <1>1, <1>12, <2>1 DEF Refers
  <2> QED
    BY <2>1, <2>2 DEF getRealType, Last
<1> QED
  BY <1>1, <1>12, <1>13, TypesAssumption

-----------------------------------------------------------------------------
(* Objects. *)

\* Objects have a type and an address that is not 0, and each variable with a
\* location is one.
LEMMA ObjectsTyped ==
    /\ TypedObjects \subseteq (DOMAIN Types) \X (Nat \ {0})
    /\ \A x \in DOMAIN Variables :
          Variables[x].address # 0 => <<Variables[x].type, Variables[x].address>> \in TypedObjects
<1>1. PICK N \in Nat : N = MaxChain
  BY TypesAssumption
<1> DEFINE T == DOMAIN Types
           O == T \X (Nat \ {0})
           V == SUBSET O
           Roots == {<<v.type, v.address>> : v \in {w \in Range(Variables) : w.address # 0}}
           F == [p \in (1..N) \X V |-> p[2] \cup UNION {Parts(obj) : obj \in p[2]}]
<1>2. Roots \in V
  BY TypesAssumption
<1>3. ASSUME NEW obj \in O PROVE Parts(obj) \subseteq O
  <2>1. PICK t \in T, a \in Nat \ {0} : obj = <<t, a>>
    OBVIOUS
  <2>2. SUFFICES ASSUME NEW x \in Parts(<<t, a>>) PROVE x \in O
    BY <2>1
  <2>3. CASE Kind(t) = "struct"
    <3>1. x \in {<<m.type, a + m.offset>> : m \in Range(Types[t].members)}
      BY <2>2, <2>3 DEF Parts
    <3>2. PICK m \in Members(t) : x = <<MemberType(t, m), a + Types[t].members[m].offset>>
      BY <3>1 DEF Range, Members, MemberType
    <3>3. MemberType(t, m) \in T /\ Types[t].members[m].offset \in Nat
      BY TypesAssumption
    <3> QED
      BY <3>2, <3>3
  <2>4. CASE Kind(t) = "array"
    <3>1. x \in {<<Types[t].of, a + (i * TrueSize(Types[t].of))>> : i \in 0..(Types[t].length - 1)}
      BY <2>2, <2>4 DEF Parts
    <3>2. PICK i \in 0..(Types[t].length - 1) :
              x = <<Types[t].of, a + (i * TrueSize(Types[t].of))>>
      BY <3>1
    <3>3. Types[t].of \in T /\ i \in Nat
      BY <2>4, TypesAssumption DEF IsRef
    <3>4. TrueSize(Types[t].of) \in Nat
      BY <3>3, SizeTyped
    <3>5. \A b, c \in Nat : a + (b * c) \in Nat \ {0}
      OBVIOUS
    <3> QED
      BY <3>2, <3>3, <3>4, <3>5
  <2>5. CASE Kind(t) \in {"typedef", "const"}
    <3>1. x = <<Types[t].of, a>>
      BY <2>2, <2>5 DEF Parts
    <3>2. Types[t].of \in T
      BY <2>5, TypesAssumption DEF IsRef
    <3> QED
      BY <3>1, <3>2
  <2>6. CASE Kind(t) \notin {"struct", "array", "typedef", "const"}
    BY <2>2, <2>6 DEF Parts
  <2> QED
    BY <2>3, <2>4, <2>5, <2>6
<1>4. F \in [(1..N) \X V -> V]
  <2> SUFFICES ASSUME NEW p \in (1..N) \X V
               PROVE  p[2] \cup UNION {Parts(obj) : obj \in p[2]} \in V
    OBVIOUS
  <2>1. p[2] \subseteq O
    OBVIOUS
  <2> HIDE DEF O
  <2> QED
    BY <1>3, <2>1
<1> HIDE DEF F
<1>5. PICK g \in [0..N -> V] : Computes(g, N, Roots, F)
  BY <1>2, <1>4, Recursion
<1> DEFINE Eq(h) == h = [n \in 0..MaxChain |->
                          IF n = 0 THEN {<<v.type, v.address>> : v \in {w \in Range(Variables) : w.address # 0}}
                          ELSE h[n - 1] \cup UNION {Parts(obj) : obj \in h[n - 1]}]
<1> HIDE DEF Roots
<1>6. Eq(g)
  <2>1. ASSUME NEW n \in 1..N
        PROVE  g[n] = g[n - 1] \cup UNION {Parts(obj) : obj \in g[n - 1]}
    <3>1. n - 1 \in 0..N /\ n # 0
      OBVIOUS
    <3>2. g[n] = F[<<n, g[n - 1]>>] /\ <<n, g[n - 1]>> \in (1..N) \X V
      BY <1>5, <3>1 DEF Computes
    <3> QED
      BY <3>1, <3>2 DEF F
  <2>2. g[0] = Roots
    BY <1>5 DEF Computes
  <2>3. \A k \in 0..N : k = 0 \/ k \in 1..N
    OBVIOUS
  <2> QED
    BY <1>1, <2>1, <2>2, <2>3 DEF Roots
<1>7. Within = CHOOSE h : Eq(h)
  BY DEF Within
<1> HIDE DEF Eq
<1>8. Eq(Within)
  BY <1>6, <1>7
<1>9. Within[0] = Roots
  BY <1>1, <1>8 DEF Eq, Roots
<1>10. ASSUME NEW n \in 1..N
       PROVE  Within[n] = Within[n - 1] \cup UNION {Parts(obj) : obj \in Within[n - 1]}
  <2>1. n \in 0..MaxChain /\ n # 0
    BY <1>1
  <2>2. Within[n] = IF n = 0 THEN Roots
                    ELSE Within[n - 1] \cup UNION {Parts(obj) : obj \in Within[n - 1]}
    BY <1>8, <2>1 DEF Eq, Roots
  <2> QED
    BY <2>1, <2>2
<1> DEFINE S == {n \in 0..N : Roots \subseteq Within[n] /\ Within[n] \subseteq O}
<1>11. \A n \in 0..N : n \in S
  <2>1. 0 \in S
    BY <1>2, <1>9
  <2>2. ASSUME NEW n \in 0..(N - 1), n \in S PROVE n + 1 \in S
    <3>1. n + 1 \in 1..N /\ n + 1 \in 0..N /\ (n + 1) - 1 = n
      OBVIOUS
    <3>2. Within[n + 1] = Within[n] \cup UNION {Parts(obj) : obj \in Within[n]}
      BY <1>10, <3>1
    <3> HIDE DEF O
    <3> QED
      BY <1>3, <2>2, <3>1, <3>2
  <2> HIDE DEF S
  <2> QED
    BY <2>1, <2>2, NaturalsUpTo
<1>12. Roots \subseteq TypedObjects /\ TypedObjects \subseteq O
  <2>1. N \in S
    BY <1>11
  <2> HIDE DEF O
  <2> QED
    BY <1>1, <2>1 DEF TypedObjects
<1>13. ASSUME NEW x \in DOMAIN Variables, Variables[x].address # 0
       PROVE  <<Variables[x].type, Variables[x].address>> \in Roots
  <2>1. Variables[x] \in Range(Variables)
    BY DEF Range
  <2> QED
    BY <1>13, <2>1 DEF Roots
<1> HIDE DEF Roots, O
<1>14. \A x \in DOMAIN Variables :
          Variables[x].address # 0 => <<Variables[x].type, Variables[x].address>> \in TypedObjects
  BY <1>12, <1>13
<1> QED
  BY <1>12, <1>14 DEF O

\* A chain without pointers stays at the address.
LEMMA ChainObjects ==
    ASSUME NEW t \in DOMAIN Types, NEW a, <<t, a>> \in TypedObjects, "pointer" \notin RefKinds(t)
    PROVE  <<getRealType(t), a>> \in TypedObjects
<1>1. PICK c : c = Chain[MaxChain][t]
  OBVIOUS
<1>2. PICK L \in Nat : L = Len(c) /\ L >= 1
  BY <1>1, ChainRefers DEF Refers
<1>3. /\ c \in Seq(DOMAIN Types) /\ c[1] = t
      /\ \A i \in 1..(L - 1) : IsRef(c[i]) /\ c[i + 1] = Types[c[i]].of
  BY <1>1, <1>2, ChainRefers DEF Refers
<1>4. \A i \in 1..L : IsRef(c[i]) => Kind(c[i]) # "pointer"
  BY <1>1, <1>2, <1>3 DEF RefKinds, Range
<1>5. a \in Nat
  <2>1. <<t, a>> \in (DOMAIN Types) \X (Nat \ {0})
    BY ObjectsTyped
  <2> QED
    BY <2>1
<1> DEFINE S == {k \in 0..(L - 1) : <<c[k + 1], a>> \in TypedObjects}
<1>6. 0 \in S
  BY <1>2, <1>3
<1>7. ASSUME NEW k \in 0..((L - 1) - 1), k \in S PROVE k + 1 \in S
  <2>1. k + 1 \in 1..(L - 1) /\ k + 1 \in 0..(L - 1) /\ k + 1 \in 1..L
    BY <1>2
  <2>2. PICK u \in DOMAIN Types : u = c[k + 1]
    BY <1>2, <1>3, <2>1
  <2>3. IsRef(u) /\ c[(k + 1) + 1] = Types[u].of /\ <<u, a>> \in TypedObjects
    BY <1>3, <1>7, <2>1, <2>2
  <2>4. Kind(u) \in {"array", "typedef", "const"}
    BY <1>4, <2>1, <2>2, <2>3 DEF IsRef
  <2>5. <<Types[u].of, a>> \in Parts(<<u, a>>)
    <3>1. CASE Kind(u) = "array"
      <4>1. 0 \in 0..(Types[u].length - 1)
        BY <2>2, <3>1, TypesAssumption
      <4>2. TrueSize(Types[u].of) \in Nat
        BY <2>2, <2>3, TypesAssumption, SizeTyped
      <4>3. a + (0 * TrueSize(Types[u].of)) = a
        BY <1>5, <4>2
      <4> QED
        BY <3>1, <4>1, <4>3 DEF Parts
    <3>2. CASE Kind(u) # "array"
      BY <2>4, <3>2 DEF Parts
    <3> QED
      BY <3>1, <3>2
  <2> QED
    BY <2>1, <2>3, <2>5, ObjectsAssumption
<1> HIDE DEF S
<1>8. L - 1 \in S
  <2>1. L - 1 \in Nat
    BY <1>2
  <2>2. \A k \in 0..(L - 1) : k \in S
    BY <1>6, <1>7, <2>1, NaturalsUpTo
  <2> QED
    BY <2>1, <2>2
<1>9. <<c[L], a>> \in TypedObjects
  BY <1>2, <1>8 DEF S
<1> QED
  BY <1>1, <1>2, <1>9 DEF getRealType, Last

-----------------------------------------------------------------------------
(* Memory. *)

\* A pointer's cell has an address of what the pointer refers to, or 0.
MemOK ==
    /\ DOMAIN mem = {x[2] : x \in PointerCells}
    /\ \A x \in PointerCells : mem[x[2]] \in Targets(x[1])

\* NULL, or where the guest has an object of type t.
Place(t, a) == a = 0 \/ <<t, a>> \in TypedObjects

\* The objects that a pointer may refer to are finitely many.
LEMMA TargetsGreatest ==
    ASSUME NEW t
    PROVE  Max(Targets(t)) \in Targets(t)
<1> DEFINE R == {y \in TypedObjects : y[1] = Types[t].of}
           A == {x[2] : x \in R}
           f == [x \in R |-> x[2]]
<1>1. IsFiniteSet(R)
  BY ObjectsAssumption, FS_Subset
<1>2. f \in Surjection(R, A)
  BY DEF Surjection
<1>3. IsFiniteSet(A)
  <2> HIDE DEF R, A, f
  <2> QED
    BY <1>1, <1>2, FS_Surjection
<1>4. A \subseteq Nat
  BY ObjectsTyped
<1>5. PICK S : S = Targets(t)
  OBVIOUS
<1>6. S = A \cup {0}
  BY <1>5 DEF Targets
<1> HIDE DEF R, A, f
<1>7. IsFiniteSet(S) /\ S \subseteq Nat /\ S # {}
  BY <1>3, <1>4, <1>6, FS_AddElement
<1>8. \E x \in S : \A y \in S : y <= x
  BY <1>7, GreatestNatural
<1>9. \E x \in S : \A y \in S : x >= y
  BY <1>7, <1>8
<1>10. Max(S) \in S
  BY <1>9 DEF Max
<1> QED
  BY <1>5, <1>10

\* All pointers refer to something at first.
LEMMA MemInit == Init => MemOK
<1> SUFFICES ASSUME Init PROVE MemOK
  OBVIOUS
<1> DEFINE Cells == {x[2] : x \in PointerCells}
           At(a) == Max(UNION {Targets(x[1]) : x \in {y \in PointerCells : y[2] = a}})
<1>1. mem = [a \in Cells |-> At(a)]
  BY DEF Init
<1>2. ASSUME NEW x \in PointerCells PROVE At(x[2]) \in Targets(x[1])
  <2>1. {Targets(z[1]) : z \in {y \in PointerCells : y[2] = x[2]}} = {Targets(x[1])}
    BY ObjectsAssumption
  <2>2. At(x[2]) = Max(Targets(x[1]))
    BY <2>1
  <2> QED
    BY <2>2, TargetsGreatest
<1>3. DOMAIN mem = Cells /\ \A x \in PointerCells : mem[x[2]] = At(x[2])
  BY <1>1
<1> HIDE DEF At
<1> QED
  BY <1>2, <1>3 DEF MemOK

\* The guest writes addresses of what the pointer refers to.
LEMMA GuestWritesOK == MemOK /\ GuestWrites => MemOK'
<1> SUFFICES ASSUME MemOK, GuestWrites PROVE MemOK'
  OBVIOUS
<1>1. PICK x \in PointerCells : \E a \in Targets(x[1]) : mem' = [mem EXCEPT ![x[2]] = a]
  BY DEF GuestWrites
<1>2. PICK a \in Targets(x[1]) : mem' = [mem EXCEPT ![x[2]] = a]
  BY <1>1
<1>3. DOMAIN mem' = {z[2] : z \in PointerCells}
  BY <1>2 DEF MemOK
<1>4. ASSUME NEW y \in PointerCells PROVE mem'[y[2]] \in Targets(y[1])
  <2>1. y[2] \in DOMAIN mem /\ mem[y[2]] \in Targets(y[1])
    BY DEF MemOK
  <2>2. CASE y[2] = x[2]
    <3>1. y[1] = x[1]
      BY <2>2, ObjectsAssumption
    <3> QED
      BY <1>2, <2>1, <2>2, <3>1
  <2>3. CASE y[2] # x[2]
    BY <1>2, <2>1, <2>3
  <2> QED
    BY <2>2, <2>3
<1> QED
  BY <1>3, <1>4 DEF MemOK

\* Reading a pointer leads to a place of what it refers to, whatever is mapped.
LEMMA PointerRead ==
    ASSUME MemOK, NEW t \in DOMAIN Types, NEW a, Place(t, a), Kind(t) = "pointer"
    PROVE  Place(Types[t].of, read64FromVA(mem, a))
<1>1. ASSUME a \notin DOMAIN mem PROVE read64FromVA(mem, a) = 0
  BY <1>1 DEF read64FromVA
<1>2. CASE a = 0
  <2>1. \A x \in PointerCells : x[2] # 0
    BY ObjectsTyped DEF PointerCells
  <2>2. a \notin DOMAIN mem
    BY <1>2, <2>1 DEF MemOK
  <2> QED
    BY <1>1, <2>2 DEF Place
<1>3. CASE <<t, a>> \in TypedObjects
  <2>1. <<t, a>> \in PointerCells
    BY <1>3 DEF PointerCells
  <2>2. PICK x \in PointerCells : x = <<t, a>>
    BY <2>1
  <2>3. mem[a] \in Targets(t)
    BY <2>2 DEF MemOK
  <2>4. Place(Types[t].of, mem[a])
    <3>1. CASE mem[a] = 0
      BY <3>1 DEF Place
    <3>2. CASE mem[a] # 0
      <4>1. PICK y \in TypedObjects : y[1] = Types[t].of /\ y[2] = mem[a]
        BY <2>3, <3>2 DEF Targets
      <4>2. y = <<y[1], y[2]>>
        BY ObjectsTyped
      <4> QED
        BY <4>1, <4>2 DEF Place
    <3> QED
      BY <3>1, <3>2
  <2>5. Place(Types[t].of, 0)
    BY DEF Place
  <2> QED
    BY <2>4, <2>5 DEF read64FromVA
<1> QED
  BY <1>2, <1>3 DEF Place

\* at are the addresses of n reads from a, and what the last one gave.
Reads(at, a, n) ==
    /\ at[0] = a /\ ReadThrough(a, n) = at[n]
    /\ \A k \in 1..n : at[k] = read64FromVA(mem, at[k - 1])

\* ReadThrough reads at the address that the read before gave.
LEMMA ReadThroughSteps ==
    ASSUME NEW a, NEW n \in Nat
    PROVE  \E at : Reads(at, a, n)
<1> DEFINE V == {a, 0} \cup {mem[x] : x \in DOMAIN mem}
           F == [p \in (1..n) \X V |-> read64FromVA(mem, p[2])]
<1>1. F \in [(1..n) \X V -> V]
  BY DEF read64FromVA
<1>2. a \in V
  OBVIOUS
<1> HIDE DEF F, V
<1>3. PICK g \in [0..n -> V] : Computes(g, n, a, F)
  BY <1>1, <1>2, Recursion
<1> DEFINE Eq(h) == h = [k \in 0..n |-> IF k = 0 THEN a ELSE read64FromVA(mem, h[k - 1])]
<1>4. Eq(g)
  <2>1. ASSUME NEW k \in 1..n PROVE g[k] = read64FromVA(mem, g[k - 1])
    <3>1. k - 1 \in 0..n
      OBVIOUS
    <3>2. g[k] = F[<<k, g[k - 1]>>] /\ <<k, g[k - 1]>> \in (1..n) \X V
      BY <1>3, <3>1 DEF Computes
    <3> QED
      BY <3>2 DEF F
  <2>2. g[0] = a
    BY <1>3 DEF Computes
  <2>3. \A k \in 0..n : k = 0 \/ k \in 1..n
    OBVIOUS
  <2> QED
    BY <2>1, <2>2, <2>3
<1> DEFINE f == CHOOSE h : Eq(h)
<1>5. ReadThrough(a, n) = f[n]
  BY DEF ReadThrough
<1> HIDE DEF Eq
<1>6. Eq(f)
  BY <1>4
<1> HIDE DEF f
<1>7. f[0] = a
  BY <1>6 DEF Eq
<1>8. ASSUME NEW k \in 1..n PROVE f[k] = read64FromVA(mem, f[k - 1])
  <2>1. k \in 0..n /\ k # 0
    OBVIOUS
  <2> QED
    BY <1>6, <2>1 DEF Eq
<1>9. Reads(f, a, n)
  BY <1>5, <1>7, <1>8 DEF Reads
<1> QED
  BY <1>9

\* Reading through pointers leads to a place of what the last one refers to.
LEMMA PointerChain ==
    ASSUME MemOK, NEW t \in DOMAIN Types, NEW a, Place(t, a),
           NEW c, c = Chain[MaxChain][t],
           NEW n \in Nat, n < Len(c), \A i \in 1..n : Kind(c[i]) = "pointer"
    PROVE  c[n + 1] \in DOMAIN Types /\ Place(c[n + 1], ReadThrough(a, n))
<1>1. PICK at : Reads(at, a, n)
  BY ReadThroughSteps
<1>2. /\ c \in Seq(DOMAIN Types) /\ Len(c) \in Nat /\ c[1] = t
      /\ \A i \in 1..(Len(c) - 1) : IsRef(c[i]) /\ c[i + 1] = Types[c[i]].of
  BY ChainRefers DEF Refers
<1> DEFINE S == {k \in 0..n : Place(c[k + 1], at[k])}
<1>3. 0 \in S
  BY <1>1, <1>2 DEF Reads
<1>4. ASSUME NEW k \in 0..(n - 1), k \in S PROVE k + 1 \in S
  <2>1. /\ k + 1 \in 1..n /\ k + 1 \in 0..n /\ (k + 1) - 1 = k
        /\ k + 1 \in 1..(Len(c) - 1) /\ k + 1 \in 1..Len(c)
    BY <1>2
  <2>2. PICK u \in DOMAIN Types : u = c[k + 1]
    BY <1>2, <2>1
  <2>3. Kind(u) = "pointer" /\ c[(k + 1) + 1] = Types[u].of
    BY <1>2, <2>1, <2>2
  <2>4. PICK b : b = at[k] /\ Place(u, b) /\ at[k + 1] = read64FromVA(mem, b)
    BY <1>1, <1>4, <2>1, <2>2 DEF Reads
  <2>5. Place(Types[u].of, read64FromVA(mem, b))
    BY <2>3, <2>4, PointerRead
  <2> QED
    BY <2>1, <2>3, <2>4, <2>5
<1> HIDE DEF S
<1>5. n \in S
  <2>1. \A k \in 0..n : k \in S
    BY <1>3, <1>4, NaturalsUpTo
  <2> QED
    BY <2>1
<1>6. n + 1 \in 1..Len(c)
  BY <1>2
<1> QED
  BY <1>1, <1>2, <1>5, <1>6 DEF S, Reads

-----------------------------------------------------------------------------
(* Navigation. *)

\* The Instance at hand is in its place, the value is one of an object.
InstOK ==
    /\ inst # Null => inst.type \in DOMAIN Types /\ Place(inst.type, inst.address)
    /\ value # Null => <<value.type, value.address>> \in TypedObjects

\* A step that holds an Instance in its place keeps the client in order.
LEMMA HoldOK ==
    ASSUME InstOK, NEW t \in DOMAIN Types, NEW a, Place(t, a), Hold(t, a)
    PROVE  InstOK'
BY DEF InstOK, Hold, Place

\* So does a step that stops the client,
LEMMA StopOK == InstOK /\ Stop => InstOK'
BY DEF InstOK, Stop, Place

\* and one that reads the value of an object.
LEMMA GotOK ==
    ASSUME NEW t, NEW a, <<t, a>> \in TypedObjects, Got(t, a)
    PROVE  InstOK'
BY DEF InstOK, Got

\* What the client's steps begin with.
Ready == LocationsOK /\ MemOK /\ InstOK /\ FilesRead

\* Variables are objects.
LEMMA VariableOK ==
    ASSUME Ready, NEW x \in DOMAIN Variables, Variable_getInstance(x)
    PROVE  InstOK'
<1>1. CASE location[x] = 0
  BY <1>1, StopOK DEF Ready, Variable_getInstance
<1>2. CASE location[x] # 0
  <2>1. PICK t, a : t = Variables[x].type /\ a = Variables[x].address
    OBVIOUS
  <2>2. a = location[x] /\ a # 0
    BY <1>2, <2>1, LocationsRead DEF Ready
  <2>3. <<t, a>> \in TypedObjects
    BY <2>1, <2>2, ObjectsTyped
  <2>4. t \in DOMAIN Types
    BY <2>3, ObjectsTyped
  <2>5. inst' = [type |-> t, address |-> a] /\ value' = Null
    BY <1>2, <2>1, <2>2 DEF Variable_getInstance
  <2> QED
    BY <2>3, <2>4, <2>5 DEF InstOK, Place
<1> QED
  BY <1>1, <1>2

\* Without a pointer in between, the real type is at the same address.
LEMMA RealTypeThere ==
    ASSUME Ready, inst # Null, inst.address # 0, "pointer" \notin RefKinds(inst.type)
    PROVE  <<getRealType(inst.type), inst.address>> \in TypedObjects
<1>1. PICK t, a : t = inst.type /\ a = inst.address
  OBVIOUS
<1>2. t \in DOMAIN Types /\ <<t, a>> \in TypedObjects
  BY <1>1 DEF Ready, InstOK, Place
<1> QED
  BY <1>1, <1>2, ChainObjects

\* A member is an object within the struct.
LEMMA MemberThere ==
    ASSUME Ready, NEW s, NEW a, <<s, a>> \in TypedObjects, Kind(s) = "struct", NEW m \in Members(s)
    PROVE  /\ MemberType(s, m) \in DOMAIN Types
           /\ <<MemberType(s, m), a + memberLocation(s, m)>> \in TypedObjects
<1>1. s \in DOMAIN Types
  BY ObjectsTyped
<1>2. memberLocation(s, m) = Types[s].members[m].offset /\ MemberType(s, m) \in DOMAIN Types
  BY <1>1, LocationsRead, TypesAssumption DEF Ready
<1>3. <<MemberType(s, m), a + Types[s].members[m].offset>> \in Parts(<<s, a>>)
  BY DEF Parts, Range, Members, MemberType
<1> QED
  BY <1>2, <1>3, ObjectsAssumption

\* memberByName: a member of the real type, or what its pointer refers to.
LEMMA MemberByNameOK ==
    ASSUME Ready, NEW m, NEW ptr, NEW expectZeroPtr, memberByName(m, ptr, expectZeroPtr)
    PROVE  InstOK'
<1>1. PICK s, b : s = getRealType(inst.type) /\ b = inst.address
  OBVIOUS
<1>2. PICK t, a : t = MemberType(s, m) /\ a = b + memberLocation(s, m)
  OBVIOUS
<1>3. PICK v : v = read64FromVA(mem, a)
  OBVIOUS
<1>4. /\ inst # Null /\ "pointer" \notin RefKinds(inst.type)
      /\ (m \in Members(s) /\ ptr) => Kind(t) # "array"
      /\ IF Kind(s) # "struct" \/ b = 0 \/ m \notin Members(s) THEN Stop
         ELSE IF ~(ptr /\ IsPointer(t)) THEN Hold(t, a)
         ELSE IF instance = Null \/ (v = 0 /\ ~expectZeroPtr) THEN Stop
         ELSE Hold(Types[t].of, v)
  BY <1>1, <1>2, <1>3 DEF memberByName
<1>5. CASE Stop
  BY <1>5, StopOK DEF Ready
<1>6. CASE ~Stop
  <2>1. Kind(s) = "struct" /\ b # 0 /\ m \in Members(s)
    BY <1>4, <1>6
  <2>2. <<s, b>> \in TypedObjects
    BY <1>1, <1>4, <2>1, RealTypeThere
  <2>3. t \in DOMAIN Types /\ <<t, a>> \in TypedObjects
    BY <1>2, <2>1, <2>2, MemberThere
  <2>4. CASE ~(ptr /\ IsPointer(t))
    <3>1. Hold(t, a) /\ Place(t, a)
      BY <1>4, <2>1, <2>3, <2>4 DEF Place
    <3> QED
      BY <2>3, <3>1, HoldOK DEF Ready
  <2>5. CASE ptr /\ IsPointer(t)
    <3>1. Kind(t) = "pointer"
      BY <1>4, <2>1, <2>5 DEF IsPointer
    <3>2. Place(Types[t].of, v)
      BY <1>3, <2>3, <3>1, PointerRead DEF Ready, Place
    <3>3. Types[t].of \in DOMAIN Types
      BY <2>3, <3>1, TypesAssumption DEF IsRef
    <3>4. Hold(Types[t].of, v)
      BY <1>4, <1>6, <2>1, <2>5
    <3> QED
      BY <3>2, <3>3, <3>4, HoldOK DEF Ready
  <2> QED
    BY <2>4, <2>5
<1> QED
  BY <1>5, <1>6

\* The pointers a chain begins with are fewer than the chain has types.
LEMMA PointersPrefix ==
    ASSUME NEW t \in DOMAIN Types, NEW c, c = Chain[MaxChain][t], NEW n, n = Len(Pointers(c))
    PROVE  n \in Nat /\ n < Len(c) /\ \A i \in 1..n : IsPointer(c[i])
<1>1. PICK L \in Nat : L = Len(c) /\ L >= 1
  BY ChainRefers DEF Refers
<1>2. c \in Seq(DOMAIN Types)
  BY ChainRefers DEF Refers
<1>3. ~IsPointer(c[L])
  BY <1>1, ChainRefers DEF getRealType, Last, IsPointer, IsRef
<1> DEFINE Stops == {k \in 0..L : k = L \/ ~IsPointer(c[k + 1])}
           Prefix(k) == (\A j \in 1..k : IsPointer(c[j])) /\ (k = L \/ ~IsPointer(c[k + 1]))
<1>4. \E k \in 0..L : Prefix(k)
  <2>1. Stops \subseteq Nat /\ L \in Stops
    BY <1>1
  <2> HIDE DEF Stops
  <2>2. PICK k \in Stops : \A y \in Stops : k <= y
    BY <2>1, LeastNatural
  <2>3. k \in 0..L /\ (k = L \/ ~IsPointer(c[k + 1]))
    BY <2>2 DEF Stops
  <2>4. ASSUME NEW j \in 1..k PROVE IsPointer(c[j])
    <3>1. j - 1 \in 0..L /\ j - 1 < k /\ j - 1 # L /\ (j - 1) + 1 = j
      BY <1>1, <2>3
    <3>2. j - 1 \notin Stops
      BY <2>2, <2>3, <3>1
    <3> QED
      BY <3>1, <3>2 DEF Stops
  <2> QED
    BY <2>3, <2>4
<1> DEFINE k == CHOOSE q \in 0..L : Prefix(q)
<1>5. k \in 0..L /\ Prefix(k)
  <2> HIDE DEF Prefix
  <2> QED
    BY <1>4
<1>6. Pointers(c) = SubSeq(c, 1, k)
  BY <1>1 DEF Pointers
<1> HIDE DEF k
<1>7. n = k
  BY <1>1, <1>2, <1>5, <1>6
<1>8. k # L
  BY <1>1, <1>3, <1>5
<1> QED
  BY <1>1, <1>5, <1>7, <1>8

\* The types of the chain of t that refer to others have the kinds of RefKinds.
LEMMA RefKindsOf ==
    ASSUME NEW t \in DOMAIN Types, NEW c, c = Chain[MaxChain][t], NEW i \in 1..Len(c), IsRef(c[i])
    PROVE  Kind(c[i]) \in RefKinds(t)
<1>1. c \in Seq(DOMAIN Types)
  BY ChainRefers DEF Refers
<1>2. c[i] \in Range(c)
  BY <1>1 DEF Range
<1> QED
  BY <1>2 DEF RefKinds

\* memberByOffset: a member, or what the pointers it begins with refer to.
LEMMA MemberByOffsetOK ==
    ASSUME Ready, NEW offset, NEW ptr, memberByOffset(offset, ptr)
    PROVE  InstOK'
<1>1. PICK s, b : s = inst.type /\ b = inst.address
  OBVIOUS
<1>2. CASE Stop
  BY <1>2, StopOK DEF Ready
<1>3. CASE ~Stop
  <2>1. inst # Null /\ b # 0 /\ Kind(s) = "struct"
    BY <1>1, <1>3 DEF memberByOffset
  <2>2. \E m \in Structured_memberByOffset(s, offset) :
           LET chain == Chain[MaxChain][MemberType(s, m)]
               refs == IF ptr THEN Pointers(chain) ELSE <<>>
           IN  /\ "array" \in RefKinds(MemberType(s, m)) => ~ptr
               /\ Follow(refs, b + memberLocation(s, m), chain[Len(refs) + 1])
    BY <1>1, <1>3 DEF memberByOffset
  <2>3. PICK m \in Structured_memberByOffset(s, offset) :
           LET chain == Chain[MaxChain][MemberType(s, m)]
               refs == IF ptr THEN Pointers(chain) ELSE <<>>
           IN  /\ "array" \in RefKinds(MemberType(s, m)) => ~ptr
               /\ Follow(refs, b + memberLocation(s, m), chain[Len(refs) + 1])
    BY <2>2
  <2>4. PICK t, a : t = MemberType(s, m) /\ a = b + memberLocation(s, m)
    OBVIOUS
  <2>5. PICK c, refs : c = Chain[MaxChain][t] /\ refs = IF ptr THEN Pointers(c) ELSE <<>>
    OBVIOUS
  <2>6. PICK n : n = Len(refs)
    OBVIOUS
  <2>7. ("array" \in RefKinds(t) => ~ptr) /\ Follow(refs, a, c[n + 1])
    BY <2>3, <2>4, <2>5, <2>6
  <2>8. m \in Members(s)
    BY DEF Structured_memberByOffset
  <2>9. <<s, b>> \in TypedObjects
    BY <1>1, <2>1 DEF Ready, InstOK, Place
  <2>10. t \in DOMAIN Types /\ Place(t, a)
    BY <2>1, <2>4, <2>8, <2>9, MemberThere DEF Place
  <2>11. n \in Nat /\ n < Len(c) /\ \A i \in 1..n : Kind(c[i]) = "pointer"
    <3>1. CASE ptr
      <4>1. n \in Nat /\ n < Len(c) /\ \A i \in 1..n : IsPointer(c[i])
        BY <2>5, <2>6, <2>10, <3>1, PointersPrefix
      <4>2. ASSUME NEW i \in 1..n PROVE Kind(c[i]) = "pointer"
        <5>1. i \in 1..Len(c) /\ IsPointer(c[i])
          <6>1. Len(c) \in Nat
            BY <2>5, <2>10, ChainRefers DEF Refers
          <6> QED
            BY <4>1, <6>1
        <5>2. Kind(c[i]) \in RefKinds(t)
          BY <2>5, <2>10, <5>1, RefKindsOf DEF IsPointer, IsRef
        <5> QED
          BY <2>7, <3>1, <5>1, <5>2 DEF IsPointer
      <4> QED
        BY <4>1, <4>2
    <3>2. CASE ~ptr
      <4>1. n = 0
        BY <2>5, <2>6, <3>2
      <4>2. Len(c) \in Nat /\ Len(c) >= 1
        BY <2>5, <2>10, ChainRefers DEF Refers
      <4> QED
        BY <4>1, <4>2
    <3> QED
      BY <3>1, <3>2
  <2>12. PICK r : r = ReadThrough(a, n)
    OBVIOUS
  <2>13. c[n + 1] \in DOMAIN Types /\ Place(c[n + 1], r)
    BY <2>5, <2>10, <2>11, <2>12, PointerChain DEF Ready
  <2>14. Hold(c[n + 1], r)
    BY <1>3, <2>6, <2>7, <2>12 DEF Follow
  <2> QED
    BY <2>13, <2>14, HoldOK DEF Ready
<1> QED
  BY <1>2, <1>3

\* arrayElem: an element is an object within the array.
LEMMA ArrayElemOK ==
    ASSUME Ready, NEW element \in Offsets, arrayElem(element)
    PROVE  InstOK'
<1>1. PICK t, b : t = inst.type /\ b = inst.address
  OBVIOUS
<1>2. PICK u : u = Types[t].of
  OBVIOUS
<1>3. CASE Stop
  BY <1>3, StopOK DEF Ready
<1>4. CASE ~Stop
  <2>1. /\ inst # Null /\ b # 0 /\ Kind(t) = "array" /\ "pointer" \notin RefKinds(u)
        /\ ~ (element >= Types[t].length /\ Types[t].length # 0)
        /\ Hold(u, b + (element * getByteSize(u)))
    BY <1>1, <1>2, <1>4 DEF arrayElem
  <2>2. t \in DOMAIN Types /\ <<t, b>> \in TypedObjects
    BY <1>1, <2>1 DEF Ready, InstOK, Place
  <2>3. u \in DOMAIN Types /\ Types[t].length \in Nat \ {0} /\ element \in Nat
    BY <1>2, <2>1, <2>2, TypesAssumption DEF IsRef
  <2>4. TrueSize(u) = getByteSize(u)
    <3>1. SUFFICES ASSUME Kind(u) = "pointer" PROVE FALSE
      BY DEF TrueSize
    <3>2. PICK c : c = Chain[MaxChain][u]
      OBVIOUS
    <3>3. 1 \in 1..Len(c) /\ c[1] = u
      BY <2>3, <3>2, ChainRefers DEF Refers
    <3> QED
      BY <2>1, <2>3, <3>1, <3>2, <3>3, RefKindsOf DEF IsRef
  <2>5. element \in 0..(Types[t].length - 1)
    BY <2>1, <2>3
  <2>6. <<u, b + (element * getByteSize(u))>> \in Parts(<<t, b>>)
    BY <1>2, <2>1, <2>4, <2>5 DEF Parts
  <2>7. Place(u, b + (element * getByteSize(u)))
    BY <2>2, <2>6, ObjectsAssumption DEF Place
  <2> QED
    BY <2>1, <2>3, <2>7, HoldOK DEF Ready
<1> QED
  BY <1>3, <1>4

\* Reading as many times as there are types before the last one of a chain of
\* pointers leads to a place of that one.
LEMMA FollowPointers ==
    ASSUME Ready, inst # Null, RefKinds(inst.type) \subseteq {"pointer"},
           NEW c, c = Chain[MaxChain][inst.type], NEW L, L = Len(c)
    PROVE  /\ L \in Nat /\ L >= 1 /\ Len(Front(c)) = L - 1
           /\ Last(c) \in DOMAIN Types
           /\ Place(Last(c), ReadThrough(inst.address, L - 1))
<1>1. PICK t, a : t = inst.type /\ a = inst.address
  OBVIOUS
<1>2. t \in DOMAIN Types /\ Place(t, a)
  BY <1>1 DEF Ready, InstOK
<1>3. /\ c \in Seq(DOMAIN Types) /\ L \in Nat /\ L >= 1
      /\ \A i \in 1..(L - 1) : IsRef(c[i])
  BY <1>1, <1>2, ChainRefers DEF Refers
<1>4. ASSUME NEW i \in 1..(L - 1) PROVE Kind(c[i]) = "pointer"
  <2>1. i \in 1..Len(c)
    BY <1>3
  <2>2. Kind(c[i]) \in RefKinds(t)
    BY <1>1, <1>2, <1>3, <2>1, RefKindsOf
  <2> QED
    BY <1>1, <2>2
<1>5. PICK n \in Nat : n = L - 1 /\ n < Len(c) /\ n + 1 = L
  <2>1. L - 1 \in Nat /\ L - 1 < Len(c) /\ (L - 1) + 1 = L
    BY <1>3
  <2> QED
    BY <2>1
<1>6. c[n + 1] \in DOMAIN Types /\ Place(c[n + 1], ReadThrough(a, n))
  BY <1>1, <1>2, <1>4, <1>5, PointerChain DEF Ready
<1>7. Len(Front(c)) = L - 1
  BY <1>3 DEF Front
<1> QED
  BY <1>1, <1>3, <1>5, <1>6, <1>7 DEF Last

\* dereference: what the last of the pointers refers to.
LEMMA DereferenceOK == Ready /\ dereference => InstOK'
<1> SUFFICES ASSUME Ready, dereference PROVE InstOK'
  OBVIOUS
<1>1. PICK c : c = Chain[MaxChain][inst.type]
  OBVIOUS
<1>2. PICK t, a, refs : t = Last(c) /\ a = inst.address /\ refs = Front(c)
  OBVIOUS
<1>3. inst # Null /\ RefKinds(inst.type) \subseteq {"pointer"} /\ Follow(refs, a, t)
  BY <1>1, <1>2 DEF dereference
<1>4. PICK r : r = ReadThrough(a, Len(refs))
  OBVIOUS
<1>5. t \in DOMAIN Types /\ Place(t, r)
  <2>1. PICK L : L = Len(c)
    OBVIOUS
  <2> QED
    BY <1>1, <1>2, <1>3, <1>4, <2>1, FollowPointers
<1>6. CASE Stop
  BY <1>6, StopOK DEF Ready
<1>7. CASE ~Stop
  <2>1. Hold(t, r)
    BY <1>3, <1>4, <1>7 DEF Follow
  <2> QED
    BY <1>5, <2>1, HoldOK DEF Ready
<1> QED
  BY <1>6, <1>7

\* changeBaseType: the struct that the list_head is a member of.
LEMMA ChangeBaseTypeOK ==
    ASSUME Ready, NEW newType \in DOMAIN Types, NEW field, changeBaseType(newType, field)
    PROVE  InstOK'
<1>1. PICK b : b = inst.address
  OBVIOUS
<1>2. CASE Stop
  BY <1>2, StopOK DEF Ready
<1>3. CASE ~Stop
  <2>1. /\ inst # Null /\ inst.type = "list_head" /\ b # 0 /\ b \notin Range(location)
        /\ field \in Members(newType) /\ MemberType(newType, field) = "list_head"
        /\ Hold(newType, b - memberLocation(newType, field))
    BY <1>1, <1>3 DEF changeBaseType
  <2>2. PICK x \in TypedObjects : x = <<"list_head", b>> /\ x[1] = "list_head" /\ x[2] = b
    BY <1>1, <2>1 DEF Ready, InstOK, Place
  <2>3. \A v \in Range(Variables) : v.address # b
    <3>1. ASSUME NEW y \in DOMAIN Variables PROVE Variables[y].address # b
      <4>1. location[y] = Variables[y].address /\ location[y] \in Range(location)
        BY LocationsRead DEF Ready, LocationsOK, Range
      <4> QED
        BY <2>1, <4>1
    <3> QED
      BY <3>1 DEF Range
  <2>4. memberLocation(newType, field) = Types[newType].members[field].offset
    BY <2>1, LocationsRead DEF Ready
  <2>5. <<newType, b - memberLocation(newType, field)>> \in TypedObjects
    BY <2>1, <2>2, <2>3, <2>4, ObjectsAssumption
  <2>6. PICK a : a = b - memberLocation(newType, field)
    OBVIOUS
  <2> QED
    BY <2>1, <2>5, <2>6, HoldOK DEF Ready, Place
<1> QED
  BY <1>2, <1>3

\* getValue: the value of the object at hand, by its real type.
LEMMA GetValueOK ==
    ASSUME Ready, NEW T, getValue(T)
    PROVE  InstOK'
<1>1. PICK t, a : t = getRealType(inst.type) /\ a = inst.address
  OBVIOUS
<1>2. CASE Stop
  BY <1>2, StopOK DEF Ready
<1>3. CASE ~Stop
  <2>1. inst # Null /\ a # 0 /\ "pointer" \notin RefKinds(inst.type) /\ Got(t, a)
    BY <1>1, <1>3 DEF getValue
  <2>2. <<t, a>> \in TypedObjects
    BY <1>1, <2>1, RealTypeThere
  <2> QED
    BY <2>1, <2>2, GotOK
<1> QED
  BY <1>2, <1>3

\* getRawValue: the object at hand or what the last of its pointers refers to.
LEMMA GetRawValueOK ==
    ASSUME Ready, NEW follow, getRawValue(follow)
    PROVE  InstOK'
<1>1. PICK c : c = Chain[MaxChain][inst.type]
  OBVIOUS
<1>2. PICK t, a, u, b : /\ t = inst.type /\ a = inst.address /\ u = Last(c)
                        /\ b = ReadThrough(inst.address, Len(c) - 1)
  OBVIOUS
<1>3. /\ inst # Null /\ (follow => RefKinds(t) \subseteq {"pointer"})
      /\ IF a = 0 \/ instance = Null \/ (follow /\ b = 0) THEN Stop
         ELSE IF follow THEN Got(u, b) ELSE Got(t, a)
  BY <1>1, <1>2 DEF getRawValue
<1>4. CASE Stop
  BY <1>4, StopOK DEF Ready
<1>5. CASE ~Stop /\ follow
  <2>1. Got(u, b) /\ b # 0 /\ RefKinds(inst.type) \subseteq {"pointer"}
    BY <1>2, <1>3, <1>5
  <2>2. PICK L : L = Len(c)
    OBVIOUS
  <2>3. Place(u, b)
    BY <1>1, <1>2, <1>3, <2>1, <2>2, FollowPointers
  <2> QED
    BY <2>1, <2>3, GotOK DEF Place
<1>6. CASE ~Stop /\ ~follow
  <2>1. Got(t, a) /\ a # 0
    BY <1>3, <1>6
  <2>2. <<t, a>> \in TypedObjects
    BY <1>2, <1>3, <2>1 DEF Ready, InstOK, Place
  <2> QED
    BY <2>1, <2>2, GotOK
<1> QED
  BY <1>4, <1>5, <1>6

-----------------------------------------------------------------------------
(* The client. *)

NavInv == LocationsOK /\ MemOK /\ InstOK

\* The client has nothing at first.
LEMMA NavInit == Init => NavInv
<1>1. Init => InstOK
  BY DEF Init, InstOK
<1> QED
  BY <1>1, LocationsInit, MemInit DEF NavInv

\* Navigation keeps the client in order.
LEMMA NavigateOK == NavInv /\ Navigate => InstOK'
<1> SUFFICES ASSUME NavInv, Navigate PROVE InstOK'
  OBVIOUS
<1>1. Ready
  <2>1. FilesRead
    BY DEF Navigate, Idle, Variable_getInstance, memberByName, memberByOffset, arrayElem,
           dereference, changeBaseType, getValue, getRawValue
  <2> QED
    BY <2>1 DEF Ready, NavInv
<1>2. ASSUME NEW x \in DOMAIN Variables, Variable_getInstance(x) PROVE InstOK'
  BY <1>1, <1>2, VariableOK
<1>3. ASSUME NEW m, NEW ptr, NEW zero, memberByName(m, ptr, zero) PROVE InstOK'
  BY <1>1, <1>3, MemberByNameOK
<1>4. ASSUME NEW offset, NEW ptr, memberByOffset(offset, ptr) PROVE InstOK'
  BY <1>1, <1>4, MemberByOffsetOK
<1>5. ASSUME NEW element \in Offsets, arrayElem(element) PROVE InstOK'
  BY <1>1, <1>5, ArrayElemOK
<1>6. ASSUME dereference PROVE InstOK'
  BY <1>1, <1>6, DereferenceOK
<1>7. ASSUME NEW t \in DOMAIN Types, NEW m, changeBaseType(t, m) PROVE InstOK'
  BY <1>1, <1>7, ChangeBaseTypeOK
<1>8. ASSUME NEW T, getValue(T) PROVE InstOK'
  BY <1>1, <1>8, GetValueOK
<1>9. ASSUME NEW follow, getRawValue(follow) PROVE InstOK'
  BY <1>1, <1>9, GetRawValueOK
<1> QED
  BY <1>2, <1>3, <1>4, <1>5, <1>6, <1>7, <1>8, <1>9 DEF Navigate

\* So does every step.
LEMMA NavNext == NavInv /\ [Next]_vars => NavInv'
<1> SUFFICES ASSUME NavInv, [Next]_vars PROVE NavInv'
  OBVIOUS
<1>1. LocationsOK'
  BY LocationsNext DEF NavInv
<1>2. CASE Navigate
  <2>1. Outside
    BY <1>2, NavigateOutside
  <2>2. MemOK'
    BY <2>1 DEF Outside, NavInv, MemOK
  <2> QED
    BY <1>1, <1>2, <2>2, NavigateOK DEF NavInv
<1>3. CASE GuestWrites
  <2>1. MemOK'
    BY <1>3, GuestWritesOK DEF NavInv
  <2>2. InstOK'
    BY <1>3 DEF GuestWrites, clientVars, NavInv, InstOK, Place
  <2> QED
    BY <1>1, <2>1, <2>2 DEF NavInv
<1>4. CASE UNCHANGED <<mem, clientVars>>
  BY <1>1, <1>4 DEF clientVars, NavInv, MemOK, InstOK, Place
<1>5. ASSUME NEW x, StructuredMember(x[1], x[2]) PROVE UNCHANGED <<mem, clientVars>>
  BY <1>5 DEF StructuredMember
<1>6. ASSUME NEW x, Variable(x) PROVE UNCHANGED <<mem, clientVars>>
  BY <1>6 DEF Variable
<1>7. ASSUME UNCHANGED vars PROVE UNCHANGED <<mem, clientVars>>
  BY <1>7 DEF vars
<1> QED
  BY <1>2, <1>3, <1>4, <1>5, <1>6, <1>7 DEF Next

\* Navigation is type safe for all types, variables and guests, whatever the
\* guest does to its pointers and pages in between.
THEOREM NavigationTypeSafe == Spec => []WellTyped
<1>1. NavInv => WellTyped
  BY DEF NavInv, InstOK, Place, WellTyped
<1> QED
  BY <1>1, NavInit, NavNext, PTL DEF Spec

=============================================================================
