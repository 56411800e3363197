------------------------ MODULE RemediatorLifecycle -------------------------
(* The ClusterReconciler implements Lifecycle, where NVSentinel leaves its
   requests to the operator, the cached Machines keep up and nobody takes a
   mark apart. *)
EXTENDS Remediator

\* What others see of a Machine.
MarkOf(m) ==
  [kind |-> IF ~m.exists THEN "gone"
            ELSE IF ~m.marked THEN "none"
            ELSE IF m.action = "none" THEN "foreign"
            ELSE IF m.action = "Restart" THEN "restart" ELSE "replace",
   request |-> IF m.exists /\ MarkedAction(m) = "Restart" THEN m.request ELSE NoRequest]

Promise == INSTANCE Lifecycle WITH
  mark   <- [n \in Nodes |-> MarkOf(machine[n])],
  status <- request,
  boots  <- [n \in Nodes |-> node[n].boot],
  raised <- raisedAt

\* Every step of the operator and of everyone else is a step of Lifecycle or
\* none at all: a restart is asked for once and for a request not yet
\* answered, confirmed only after a boot, declined only with nothing under
\* way, released only when nobody waits for it, and a replacement is final.
ImplementsLifecycle == Promise!Spec

=============================================================================
