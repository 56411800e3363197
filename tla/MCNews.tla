------------------------------- MODULE MCNews -------------------------------
(* A small instance of News for TLC: every signal has a key of its own, or two
   requests are about one check. *)
EXTENDS News

OwnKeys   == [s \in Signals |-> s]
SharedKey == [OwnKeys EXCEPT !["r2"] = "r1"]

MCSettings ==
  {[keyOf |-> OwnKeys, failing |-> {"collect", "read", "act"}],
   [keyOf |-> SharedKey, failing |-> {"collect", "act"}]}

=============================================================================
