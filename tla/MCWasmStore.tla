----------------------------- MODULE MCWasmStore ------------------------------
(***************************************************************************)
(* An instance of WasmStore.  The record decoders are taken to agree: what *)
(* differs here is everything around them.                                 *)
(***************************************************************************)
EXTENDS WasmStore, FileSamples

\* Two written files that answer differently, one with a surplus index, and
\* the damaged copies of the first, one with an offset past memory
First == WrittenFile(LEAF_BLOCK, CONDITIONAL_1BIT, 18, <<<<"two", "none">>, <<"one", "none">>>>, FALSE)
Second == WrittenFile(LEAF_BLOCK, FIXED_2BIT, 30, <<<<"one", "two">>>>, TRUE)
Surplus == WrittenFile(LEAF_BLOCK, FIXED_2BIT, 30, <<<<"long", "two">>>>, TRUE)

LoadedFiles ==
    {First, Second, Surplus, [First EXCEPT !.index[1].blob_offset = Usize + 2]}
        \cup MCDamaged(First)

-----------------------------------------------------------------------------
(* Correctness *)

\* "Returns 0 on success, -1 on error." (load_residual)
LoadReturnsZeroOrMinusOne ==
    reply.call = "load" => reply.value \in {0, -1}
=============================================================================
