----------------------------- MODULE MCJwtCache -----------------------------
(* Instance of JwtCache for TLC: accounts are interchangeable, and so are     *)
(* the callers, and the validators, that have the same transport.            *)
EXTENDS JwtCache, TLC

Symmetric ==
    Permutations(Accounts) \cup Permutations(Validators)
        \cup Permutations(Callers \cap Hosted) \cup Permutations(Callers \ Hosted)
=============================================================================
