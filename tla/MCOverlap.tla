----------------------------- MODULE MCOverlap ------------------------------
(* Small instances of Overlap for TLC. *)
EXTENDS Overlap

Templates == {{[template |-> TRUE, paused |-> FALSE]}}
OnOneNode == [s \in Signals |-> "n1"]
CheckPerSignal == [s \in Signals |-> s]
ByName == [s \in Signals |-> IF s = "r1" THEN 1 ELSE 2]
AllRestart == [s \in Signals |-> "Restart"]

=============================================================================
