----------------------------- MODULE MCBaselines ------------------------------
(***************************************************************************)
(* Instances of Baselines: what the command can be given, and dictionaries *)
(* of more classes and other insertion orders that a library caller may    *)
(* pass.  Floats are so short that some ratios round to one, and so small  *)
(* that the largest size and B1 overflow against the smallest counts.      *)
(***************************************************************************)
EXTENDS Baselines

CONSTANTS
    MaxCount,   \* largest count of a symbol
    MaxTotal    \* largest sum of the counts

Dictionary(symbols, values) ==
    [i \in 1 .. Len(symbols) |-> [symbol |-> symbols[i], count |-> values[i]]]

Total(values) == MapThenSumSet(LAMBDA i : values[i], DOMAIN values)

Dictionaries(symbols, least) ==
    {Dictionary(symbols, v) :
        v \in {w \in [1 .. Len(symbols) -> least .. MaxCount] :
                  Total(w) <= MaxTotal}}

\* cmd_baselines builds {1: W, 0: D, -1: L}
CommandCalls ==
    [counts : Dictionaries(<<1, 0, -1>>, -1), model_bits : {None, 6, 9, 1000},
     cli : {TRUE}, json : BOOLEAN]

LibraryCalls ==
    [counts : Dictionaries(<<0, 1, -1>>, 0) \cup Dictionaries(<<2, 1, 0>>, 0)
              \cup {d \in Dictionaries(<<0, 1, 2, 3, 4>>, 0) :
                       \A i \in 1 .. 4 : d[i].count > 0},
     model_bits : {None, 9}, cli : {FALSE}, json : {FALSE}]

AllCalls == CommandCalls \cup LibraryCalls
=============================================================================
