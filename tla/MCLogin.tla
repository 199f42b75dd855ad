------------------------------ MODULE MCLogin -------------------------------
(* Instance of Login for TLC: each account has one code.                      *)
EXTENDS Login

OwnCode == [k \in Accounts |-> k]
=============================================================================
