------------------------------ MODULE MCReplay ------------------------------
(* The replay log with a root fiber and a child, one host call each. *)
EXTENDS ReplayProps

MCCalls == [f \in 0 .. 1 |-> 1]
MCRefuels == {2}
=============================================================================
