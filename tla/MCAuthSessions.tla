--------------------------- MODULE MCAuthSessions ---------------------------
(***************************************************************************)
(* AuthSessions for TLC: tokens and requests are interchangeable.          *)
(***************************************************************************)
EXTENDS AuthSessions, TLC

Symmetry == Permutations(Tokens) \cup Permutations(Requests)
=============================================================================
