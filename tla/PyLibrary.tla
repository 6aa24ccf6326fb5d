------------------------------ MODULE PyLibrary -------------------------------
(***************************************************************************)
(* The library functions the decoder calls, as their documentation defines *)
(* them: leb128.u.decode_reader, math.comb and int.from_bytes.  The model- *)
(* checking modules give these to the constants of RecordStream.           *)
(***************************************************************************)
EXTENDS Integers, Sequences, FiniteSetsExt, SequencesExt

CONSTANT None

\* leb128.u.decode_reader on data[offset:]: the bytes up to the first one
\* without continuation bit, least significant first; None where it is missing.
RECURSIVE LEB128(_, _)
LEB128(stream, offset) ==
    LET byte == stream[offset + 1]
        rest == LEB128(stream, offset + 1)
    IN  IF offset >= Len(stream) THEN None
        ELSE IF byte < 128 THEN [value |-> byte, next |-> offset + 1]
        ELSE IF rest = None THEN None
        ELSE [value |-> (byte % 128) + 128 * rest.value, next |-> rest.next]

\* TLC's integers have 32 bits: results from MaxRank on are told apart by no
\* instance and kept there.
MaxRank == 2 ^ 23

\* math.comb for 0 <= k <= n
MathComb(n, k) ==
    LET least == IF 2 * k > n THEN n - k ELSE k
        comb[j \in 0 .. least] ==
            LET below == comb[j - 1]
            IN  IF j = 0 THEN 1
                ELSE IF below >= MaxRank THEN MaxRank
                ELSE (below * (n - j + 1)) \div j
    IN  comb[least]

\* int.from_bytes(data, 'big')
BigEndian(bytes) ==
    FoldLeft(LAMBDA acc, byte : IF acc >= MaxRank \div 256 THEN MaxRank
                                ELSE 256 * acc + byte, 0, bytes)
=============================================================================
