---------------------------- MODULE MCIngestion -----------------------------
(* IngestionService for TLC: workers are interchangeable, and so are the    *)
(* requests that are alike.                                                 *)
EXTENDS IngestionInvariant, TLC

WorkerSymmetry == Permutations(Workers)

FullSymmetry ==
  Permutations(Workers) \union Permutations(Requests \ (Invalid \union Unusable))
=============================================================================
