----------------------------- MODULE MCDecision -----------------------------
(* A small instance of Decision for TLC. *)
EXTENDS Decision

\* A prefix of REPLACE_VM, which is also a custom action, and an action this
\* operator does not know of.
SomeNames == KnownActions \cup {"REPLACE", "NEW_ACTION"}

NoEntries == [a \in {} |-> "Report"]
SomeOverrides ==
  {NoEntries, [a \in {"REPLACE"} |-> "Replace"], [a \in {"CONTACT_SUPPORT", "RESTART_VM"} |->
     IF a = "RESTART_VM" THEN "Report" ELSE "Restart"]}

\* Checks with up to three events.
Emitted == {"REPLACE_VM", "RESTART_VM", "CONTACT_SUPPORT", "NEW_ACTION"}
ShortLists == UNION {[1..n -> Emitted] : n \in 0..3}
=============================================================================
