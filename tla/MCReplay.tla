------------------------------ MODULE MCReplay ------------------------------
(* Record and replay on a small scenario; the values of the constants. *)
EXTENDS Replay
MCLimits == {[coverage |-> 6, hardEnd |-> 5], [coverage |-> 4, hardEnd |-> 5]}
NoLegs == {}
=============================================================================
