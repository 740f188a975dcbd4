--------------------------- MODULE AttributeReaders --------------------------
(***************************************************************************)
(* How DwarfParser turns an attribute into a number.  An attribute is       *)
(* [form, value, blen, op, bytes]: value for the forms that libdwarf        *)
(* decodes, and for blocks the length, the operation in the first byte and  *)
(* the bytes behind it, of which some may lie behind the block.             *)
(***************************************************************************)
EXTENDS Integers, SequencesExt

CONSTANT Group      \* bound: values of the bits of a byte but its highest, 128 in the code

ASSUME ByteAssumption == Group \in Nat \ {0, 1}

Byte == 2 * Group   \* values of a byte
AddressBytes == 8
Throws == -1        \* a DwarfException; no number is negative

\* FAULTY: takes the most significant digit first.
Joined_BigEndian(base, digits) ==
    LET sum[k \in 0..Len(digits)] ==
            IF k = 0 THEN 0 ELSE (sum[k - 1] * base) + (digits[k] % base)
    IN  sum[Len(digits)]

\* The number with these digits to a base, the least significant one first; of
\* a digit only the bits below the base count.
Joined(base, digits) ==
    LET n == Len(digits)
        sum[k \in 0..n] ==
            IF k = 0 THEN 0 ELSE (sum[k - 1] * base) + (digits[n + 1 - k] % base)
    IN  sum[n]

\* DW_OP_addr: the next 8 bytes.  DW_OP_plus_uconst: groups up to the first byte
\* without the continuation bit.  Other operations give 0.
parseBlock(blen, op, bytes) ==
    LET final == {i \in 1..(blen - 1) : bytes[i] < Group \/ i = blen - 1}
    IN  CASE op = "addr" -> Joined(Byte, SubSeq(bytes, 1, AddressBytes))
          [] op = "plus_uconst" ->
                IF final = {} THEN 0
                ELSE Joined(Group, SubSeq(bytes, 1, CHOOSE i \in final : \A j \in final : i <= j))
          [] OTHER -> 0

\* A reference is relative to the compilation unit, whose offset is cu.
getDieAttributeNumber(attr, cu) ==
    CASE attr.form \in {"block1", "exprloc"} -> parseBlock(attr.blen, attr.op, attr.bytes)
      [] attr.form \in {"data1", "data2", "data4", "data8", "sdata", "addr"} -> attr.value
      [] attr.form \in {"ref4", "sec_offset"} -> attr.value + cu
      [] OTHER -> Throws

-----------------------------------------------------------------------------
(* What a compiler writes: the attributes that stand for a number.          *)

\* n after its lowest k digits are shifted out.
Shifted(n, base) ==
    LET rest[k \in 0..AddressBytes] == IF k = 0 THEN n ELSE rest[k - 1] \div base
    IN  rest

Digit(n, base, i) == Shifted(n, base)[i - 1] % base
Fits(n, base, size) == Shifted(n, base)[size] = 0

Plain(form, n) == [form |-> form, value |-> n, blen |-> 0, op |-> "none", bytes |-> <<>>]

\* ULEB128 in size bytes, the last of which may be padding.
Uleb(form, n, size) ==
    [form |-> form, value |-> 0, blen |-> size + 1, op |-> "plus_uconst",
     bytes |-> [i \in 1..size |-> Digit(n, Group, i) + IF i < size THEN Group ELSE 0]]

\* DW_OP_addr, in a block that may end in another operation.
Addr(form, n, blen) ==
    [form |-> form, value |-> 0, blen |-> blen, op |-> "addr",
     bytes |-> [i \in 1..AddressBytes |-> Digit(n, Byte, i)]]

\* The encodings of a member's offset and of a variable's address.
OffsetEncodings(n) ==
    {Plain("data1", n), Plain("sdata", n)}
        \cup {Uleb(form, n, size) : form \in {"block1", "exprloc"},
                                    size \in {k \in 1..5 : Fits(n, Group, k)}}
AddressEncodings(n) == {Plain("addr", n), Addr("exprloc", n, 9), Addr("block1", n, 10)}

=============================================================================
