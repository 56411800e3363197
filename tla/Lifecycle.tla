----------------------------- MODULE Lifecycle ------------------------------
(***************************************************************************)
(* What the operator promises about a node: the one mark its Machine may   *)
(* carry, the requests for its restart or replacement, and its boots.      *)
(*                                                                         *)
(* There are no passes here, no caches and no retries: each action is what *)
(* others may see happen at once.  RemediatorLifecycle shows that the      *)
(* ClusterReconciler does nothing else.                                    *)
(***************************************************************************)
EXTENDS Naturals

CONSTANTS Nodes, Requests, NodeOf, NoRequest

VARIABLES
  mark,    \* the mark of each node's Machine
  status,  \* the status of each request
  boots,   \* how often each node has booted
  raised   \* the boot at which each request became pending

vars == <<mark, status, boots, raised>>

\* Nobody's mark, somebody else's, a restart for a request, a replacement,
\* or a Machine that is gone.
Unmarked   == [kind |-> "none", request |-> NoRequest]
Foreign    == [kind |-> "foreign", request |-> NoRequest]
Restart(r) == [kind |-> "restart", request |-> r]
Replace    == [kind |-> "replace", request |-> NoRequest]
Gone       == [kind |-> "gone", request |-> NoRequest]

Init ==
  /\ mark = [n \in Nodes |-> Unmarked]
  /\ status = [r \in Requests |-> "unraised"]
  /\ boots = [n \in Nodes |-> 1]
  /\ raised = [r \in Requests |-> 0]

MarkBecomes(n, m) == mark' = [mark EXCEPT ![n] = m] /\ UNCHANGED <<status, boots, raised>>
Answer(r, to)     == status' = [status EXCEPT ![r] = to] /\ UNCHANGED <<mark, boots, raised>>

\* A node is released to the operator for request r.
Raise(r) ==
  /\ status[r] = "unraised" /\ status' = [status EXCEPT ![r] = "pending"]
  /\ raised' = [raised EXCEPT ![r] = boots[NodeOf[r]]]
  /\ UNCHANGED <<mark, boots>>

\* The request goes away unanswered.
Close(r) == status[r] = "pending" /\ Answer(r, "closed")

Boot(n) == boots' = [boots EXCEPT ![n] = @ + 1] /\ UNCHANGED <<mark, status, raised>>

\* The Machine is marked for a restart that was asked for and not answered,
\* or for a replacement.  Two requests may ask for one restart: when the
\* operator does not learn that the first mark was made, it makes the second.
AskRestart(n, r) ==
  /\ NodeOf[r] = n /\ status[r] \in {"pending", "closed"}
  /\ mark[n].kind \in {"none", "foreign", "restart"} /\ MarkBecomes(n, Restart(r))

AskReplace(n) == mark[n] \in {Unmarked, Foreign} /\ MarkBecomes(n, Replace)

\* A restart gives way to a replacement.
Escalate(n) == mark[n].kind = "restart" /\ MarkBecomes(n, Replace)

\* A restart is over, or nobody waits for it any more.
Release(n) ==
  /\ mark[n].kind = "restart" /\ status[mark[n].request] # "pending"
  /\ MarkBecomes(n, Unmarked)

\* The restart that r asked for has happened.
Confirm(r) ==
  status[r] = "pending" /\ raised[r] < boots[NodeOf[r]] /\ Answer(r, "True")

\* Nothing is going to happen for r.
Decline(r) ==
  status[r] = "pending" /\ mark[NodeOf[r]] # Restart(r) /\ Answer(r, "False")

\* Others mark a Machine that is not marked, and remove Machines.
ForeignMark(n) == mark[n] = Unmarked /\ MarkBecomes(n, Foreign)
Remove(n)      == mark[n] # Gone /\ MarkBecomes(n, Gone)

Next ==
  \/ \E r \in Requests : Raise(r) \/ Close(r) \/ Confirm(r) \/ Decline(r)
  \/ \E n \in Nodes :
       \/ Boot(n) \/ AskReplace(n) \/ Escalate(n) \/ Release(n) \/ ForeignMark(n) \/ Remove(n)
       \/ \E r \in Requests : AskRestart(n, r)

Spec == Init /\ [][Next]_vars

=============================================================================
