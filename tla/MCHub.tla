------------------------------- MODULE MCHub -------------------------------
(***************************************************************************)
(* Hub for TLC: every topic is in the workspace named by the constant.     *)
(***************************************************************************)
EXTENDS Hub
CONSTANT workspace
OneHome == [t \in Topics |-> workspace]
=============================================================================
