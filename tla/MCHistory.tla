----------------------------- MODULE MCHistory -----------------------------
(* Model-checking instance of History.                                      *)
EXTENDS History
=============================================================================
