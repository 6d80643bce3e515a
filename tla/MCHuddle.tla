------------------------------ MODULE MCHuddle ------------------------------
(***************************************************************************)
(* Huddle for TLC: two users in one room that has place for one in its     *)
(* huddle; one of them is in a second room too.                            *)
(***************************************************************************)
EXTENDS Huddle
CONSTANTS u1, u2, r1, r2
TwoUsers == {u1, u2}
TwoRooms == {r1, r2}
TwoAndOne == (TwoUsers \X {r1}) \cup {<<u1, r2>>}
=============================================================================
