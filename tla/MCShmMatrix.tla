----------------------------- MODULE MCShmMatrix -----------------------------
EXTENDS ShmMatrix

(* Small and big matrices, each with two exponents, as the inputs of        *)
(* tester.py lines 51-56.                                                   *)
SmallAndBig ==
    {[n |-> e, m |-> 1, matrix |-> "A"] : e \in {2, 3}}
        \union {[n |-> e, m |-> BigMatrix, matrix |-> "B"] : e \in {2, 3}}
=============================================================================
