--------------------------- MODULE MCWrittenStream ----------------------------
(***************************************************************************)
(* The leaves of MCRecordStream that an encoder wrote.                     *)
(***************************************************************************)
EXTENDS MCRecordStream

\* The writer of the instances keeps to the format.
ASSUME WriterAssumption == LeavesAreWritten

\* Every class fits an i8, and every rank that is written fits with its
\* binomials.
ASSUME WidthAssumption == ClassesFit /\ WrittenRanksFit

\* The library's coefficients are Pascal's as far as they fit TLC's integers.
ASSUME PascalAssumption == \A n \in 0 .. 23 : PascalsRow(n)
=============================================================================
