---------------------------- MODULE MCRemediator ----------------------------
(* Small instances of Remediator for TLC. *)
EXTENDS RemediatorLifecycle

\* Kinds of MachineHealthCheck.
ByTemplate == [template |-> TRUE, paused |-> FALSE]
Replaces   == [template |-> FALSE, paused |-> FALSE]
Paused(check) == [check EXCEPT !.paused = TRUE]

\* Every check remediates through a template.
Templates == {{ByTemplate}}
\* Templates that may be paused, or joined by a check that replaces.
Changing == {{ByTemplate}, {ByTemplate, Replaces}, {Paused(ByTemplate)}}

OnOneNode == [s \in Signals |-> "n1"]

\* Signals of a node differ in their check, or share one.
CheckPerSignal == [s \in Signals |-> s]
OneCheck       == [s \in Signals |-> "check"]

\* Requests and conditions sort by their names.
ByName == [s \in Signals |-> CASE s = "r1" -> 1 [] s = "r2" -> 2 [] s = "c1" -> 3 [] OTHER -> 4]

AllRestart  == [s \in Signals |-> "Restart"]
\* The second request or condition asks for a replacement.
ThenReplace == [s \in Signals |-> IF s \in {"r2", "c2"} THEN "Replace" ELSE "Restart"]
=============================================================================
