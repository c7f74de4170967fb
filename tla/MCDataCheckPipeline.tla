------------------------ MODULE MCDataCheckPipeline ------------------------
(* Instances of DataCheckPipeline for TLC: policy tables in small.          *)
EXTENDS DataCheckPipeline, TLC

CONSTANTS a, b, c, d, e, w1, w2, w3

\* A chain behind one first-wave unit: signals_aggregation, then
\* candidate_ai_summary.
Chain == {a, d, e}
ChainDeps == a :> {} @@ d :> {a} @@ e :> {d}

\* A chain behind three first-wave units.
Table == {a, b, c, d, e}
TableDeps == a :> {} @@ b :> {} @@ c :> {} @@ d :> {a, b, c} @@ e :> {d}

\* The least of that shape: a unit and its dependent.
Pair == {a, d}
PairDeps == a :> {} @@ d :> {a}

\* Two units that can be processed at the same time, and one behind both.
Join == {a, b, d}
JoinDeps == a :> {} @@ b :> {} @@ d :> {a, b}

PolicyRank ==
    [u \in Unit |-> CASE u = a -> 1 [] u = b -> 2 [] u = c -> 3
                      [] u = d -> 4 [] u = e -> 5]

Symmetry == Permutations(Worker)
=============================================================================
