-------------------------- MODULE MCInputPreflight --------------------------
(* An instance of InputPreflight for TLC. *)
EXTENDS InputPreflight

CONSTANTS o1, o2, o3

\* The first object alone, shared, and beside the second one.
MCArguments == {<<o1>>, <<o1, o1>>, <<o2, Leaf, o1>>}
MCLimits ==
    [maxInputDepth : 1 .. 2, maxInputNodes : {2, 5}]
        \cup {[maxInputDepth |-> 3, maxInputNodes |-> 6],
              [maxInputDepth |-> 0, maxInputNodes |-> 6],
              [maxInputDepth |-> 2, maxInputNodes |-> 0]}
=============================================================================
