--------------------------- MODULE MCModelCatalog ---------------------------
(* Instance of ModelCatalog for TLC: tokens and goroutines are               *)
(* interchangeable, and so are auth records of the same kind.                *)
EXTENDS ModelCatalog, TLC

Symmetric == Permutations(Overrides) \cup Permutations(AuthIds \ Overrides)
             \cup Permutations(Tokens)
             \cup Permutations(Background) \cup Permutations(Handlers)
=============================================================================
