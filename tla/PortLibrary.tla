------------------------------ MODULE PortLibrary -----------------------------
(***************************************************************************)
(* What the JavaScript and the Rust decoder of record streams have in      *)
(* common: bit operators on integers of a width, and the loops that are    *)
(* written alike in js/src and in wasm/src.  A loop of n turns is a        *)
(* recursive function on 0 .. n, whose value at i is what i turns make.    *)
(***************************************************************************)
EXTENDS Integers, Sequences, FiniteSets

CONSTANTS
    None,           \* null in JavaScript, None in Rust
    FromBytes(_)    \* the number that big-endian bytes write

\* A byte past the data counts as 0 where a port goes on after reading it.
Byte(data, p) == IF p \in 0 .. Len(data) - 1 THEN data[p + 1] ELSE 0

NumBytes(bits) == (bits + 7) \div 8

-----------------------------------------------------------------------------
(* Integers of a width *)

Bit(v, p) == (v \div 2 ^ p) % 2

OrBit(v, w, p) == IF Bit(v, p) = 0 THEN Bit(w, p) ELSE 1

\* The p lowest bits of v | w
OrBits(v, w, width) ==
    LET low[p \in 0 .. width] ==
            IF p = 0 THEN 0
            ELSE low[p - 1] + 2 ^ (p - 1) * OrBit(v, w, p - 1)
    IN  low

Or(v, w, width) == OrBits(v, w, width)[width]

\* v << shift, whose count is taken modulo the width
Shl(v, shift, width) == (v * 2 ^ (shift % width)) % 2 ^ width

-----------------------------------------------------------------------------
(* leb128 *)

NextValue(data, offset, i, value, width) ==
    Or(value, Shl(Byte(data, offset + i - 1) % 128, 7 * (i - 1), width), width)

VarintValue(data, offset, n, width) ==
    LET value[i \in 0 .. n] ==
            IF i = 0 THEN 0 ELSE NextValue(data, offset, i, value[i - 1], width)
    IN  value

\* Where the varint ends; one that the data cuts short ends with them.
LastByte(data, offset) ==
    CHOOSE p \in offset .. Len(data) - 1 :
        /\ Byte(data, p) < 128 \/ p = Len(data) - 1
        /\ \A q \in offset .. p - 1 : Byte(data, q) >= 128

Varint(data, offset, width) ==
    LET n == LastByte(data, offset) - offset + 1
    IN  IF offset >= Len(data) THEN [value |-> 0, next |-> offset]
        ELSE [value |-> VarintValue(data, offset, n, width)[n], next |-> offset + n]

-----------------------------------------------------------------------------
(* Bitmaps and labels *)

OneMoreBit(data, offset, p, found) ==
    IF Bit(Byte(data, offset + p \div 8), p % 8) = 1 THEN Append(found, p) ELSE found

\* The set bits among the first ones
SetBits(data, offset, n) ==
    LET found[p \in 0 .. n] ==
            IF p = 0 THEN <<>> ELSE OneMoreBit(data, offset, p - 1, found[p - 1])
    IN  found

\* width bits from position pos on, of two bytes
BitsAt(data, pos, width) ==
    ((Byte(data, pos \div 8) + 256 * Byte(data, pos \div 8 + 1)) \div 2 ^ (pos % 8))
        % 2 ^ width

CeilLog2(m) == Cardinality({w \in 0 .. 7 : 2 ^ w < m})

AtLeastOne(w) == IF w < 1 THEN 1 ELSE w

\* remaining[code] of classes in ascending order
Nth(remaining, code) ==
    CHOOSE c \in remaining : Cardinality({d \in remaining : d < c}) = code
=============================================================================
