------------------------------ MODULE MCExport ------------------------------
(* Model-checking instance of Export: two requests of one account and one    *)
(* of another.                                                               *)
EXTENDS Export

CONSTANTS e1, e2, e3, u1, u2

MCOwner == [e \in {e1, e2, e3} |-> IF e = e3 THEN u2 ELSE u1]
=============================================================================
