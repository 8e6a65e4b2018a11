------------------------------ MODULE MCDmxBuffer ------------------------------
(* Instances of DmxBuffer and of its refinement for TLC. *)
EXTENDS DmxBufferRefinement, TLC

Span(first, n) == [channel |-> first, count |-> n]

\* All of a universe, or its last channel.
MCSpans == {Span(1, UniverseLength), Span(UniverseLength, 1)}

\* All of a universe, one that begins before it, one behind it, and one that
\* lies before it.
MCWideSpans == {Span(1, UniverseLength), Span(0, 2), Span(UniverseLength + 1, 1), Span(-1, 1)}

\* The threads differ in nothing but their names.
Symmetry == Permutations(Threads)
================================================================================
