---------------------------- MODULE MCAuthTokens ----------------------------
(* One account, two requests at a time, three refresh tokens and two reset   *)
(* tokens.                                                                   *)
EXTENDS AuthTokens
=============================================================================
