--------------------------- MODULE MCServiceControl ---------------------------
(* An instance of ServiceControl: every graph of dependences on four       *)
(* services in which no service depends on itself.                         *)
EXTENDS ServiceControl

CONSTANTS a, b, c, d

FourServices == <<a, b, c, d>>

(* Pairs that go against a linear order of the services cannot form a      *)
(* cycle.  Each graph has the shape of one of these.                        *)
Rank == [s \in {a, b, c, d} |-> CHOOSE i \in 1 .. 4 : <<b, d, a, c>>[i] = s]

AllGraphs ==
  SUBSET {p \in {a, b, c, d} \X {a, b, c, d} : Rank[p[1]] > Rank[p[2]]}
=============================================================================
