---------------------------- MODULE MCTraceBuffer ----------------------------
(* Instances of TraceBuffer small enough to explore.                       *)
EXTENDS TraceBuffer, TLC

Symmetry == Permutations(Writers) \cup Permutations(Readers)
WriterSymmetry == Permutations(Writers)
=============================================================================
