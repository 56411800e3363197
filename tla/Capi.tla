-------------------------------- MODULE Capi --------------------------------
(***************************************************************************)
(* What internal/capi reads off a Machine and what it writes to one.       *)
(*                                                                         *)
(* A Machine is a record of the annotations, the label and the condition   *)
(* the operator looks at:                                                  *)
(*   exists        the API server has the object, with a node reference    *)
(*   deleting      it carries a deletion timestamp                         *)
(*   marked        cluster.x-k8s.io/remediate-machine is present           *)
(*   action        remediation-action: "none" when absent                  *)
(*   boot          remediation-boot-id: 0 when absent.  The boot IDs of a  *)
(*                 node are numbered in the order it takes them on         *)
(*   request       remediation-request: NoRequest when absent              *)
(*   paused        cluster.x-k8s.io/paused is present                      *)
(*   optedOut      machine-skip-remediation is present                     *)
(*   shown         HealthCheckSucceeded is False for the annotation        *)
(*   controlPlane  the control plane label is present                      *)
(* remediation-reason holds text only and is left out.                     *)
(***************************************************************************)
EXTENDS Naturals

CONSTANTS
  Requests,   \* names of ExternalRemediationRequests
  NoRequest   \* no request: the annotation, or the signal's field, is empty

ASSUME NoRequestAssumption == NoRequest \notin Requests

Actions == {"none", "Restart", "Remediate"}

Machines ==
  [exists: BOOLEAN, deleting: BOOLEAN, marked: BOOLEAN, action: Actions,
   boot: Nat, request: Requests \cup {NoRequest}, paused: BOOLEAN,
   optedOut: BOOLEAN, shown: BOOLEAN, controlPlane: BOOLEAN]

-----------------------------------------------------------------------------
(* guard.go, release.go: reading a Machine *)

\* A slip: a marked Machine is marked again.
GuardMarkedAgain(m) ==
  IF m.deleting THEN "MachineDeleting"
  ELSE IF m.controlPlane THEN "ControlPlaneMachine"
  ELSE IF m.paused THEN "MachinePaused"
  ELSE IF m.optedOut THEN "MachineOptedOutOfRemediation"
  ELSE ""

\* The reason to leave the Machine alone, "" when it may be remediated.
Guard(m) ==
  IF m.deleting THEN "MachineDeleting"
  ELSE IF m.marked THEN "AlreadyMarkedForRemediation"
  ELSE IF m.controlPlane THEN "ControlPlaneMachine"
  ELSE IF m.paused THEN "MachinePaused"
  ELSE IF m.optedOut THEN "MachineOptedOutOfRemediation"
  ELSE ""

\* A slip: a mark is not taken for work under way.
InProgressDeleting(skip) == skip = "MachineDeleting"

InProgress(skip) == skip \in {"MachineDeleting", "AlreadyMarkedForRemediation"}

EarlierMarkPending(m) == ~m.marked /\ m.shown

\* The action this operator marked the Machine for; "none" for a Machine that
\* is not marked, or was marked by someone else.
MarkedAction(m) == IF m.marked THEN m.action ELSE "none"

\* A node is a record with the fields exists, boot and ready.
RestartCompleted(m, node) ==
  /\ MarkedAction(m) = "Restart"
  /\ node.exists
  /\ m.boot # 0 /\ node.boot # 0 /\ node.boot # m.boot
  /\ node.ready

\* A plausible slip: the mark of any finished restart answers any request.
RestartAnswersAny(m, request) == TRUE

RestartAnswers(m, request) == m.request \in {NoRequest, request}

\* What tells one mark from another (cluster_controller.go, restartMarkOf).
RestartMarkOf(m) ==
  [marked |-> m.marked, action |-> MarkedAction(m), boot |-> m.boot, request |-> m.request]

-----------------------------------------------------------------------------
(* remediate.go, release.go: the Machine each patch asks for *)

\* A boot ID or a request that is empty is not written, and what an earlier
\* mark left in its place stays.
Marked(m, action, boot, request) ==
  [m EXCEPT !.marked = TRUE,
            !.action = action,
            !.boot = IF boot # 0 THEN boot ELSE @,
            !.request = IF request # NoRequest THEN request ELSE @]

Escalated(m) ==
  [m EXCEPT !.action = "Remediate", !.boot = 0, !.request = NoRequest]

\* A slip: only the mark goes, the boot and the request stay behind.
ReleasedMarkOnly(m) == [m EXCEPT !.marked = FALSE, !.action = "none"]

Released(m) ==
  [m EXCEPT !.marked = FALSE, !.action = "none", !.boot = 0, !.request = NoRequest]

\* The effect on `current', the Machine the API server has, of the merge
\* patch from `old' to `new': it carries only what differs between the two.
MergePatch(old, new, current) ==
  LET Field(o, n, c) == IF o # n THEN n ELSE c
  IN  [current EXCEPT !.marked = Field(old.marked, new.marked, @),
                      !.action = Field(old.action, new.action, @),
                      !.boot = Field(old.boot, new.boot, @),
                      !.request = Field(old.request, new.request, @)]

-----------------------------------------------------------------------------
(* coverage.go: the MachineHealthChecks that select a Machine, as the set of
   their kinds *)

CoveringChecks == [template: BOOLEAN, paused: BOOLEAN]

Covered(cov) == \E check \in cov : ~check.paused

TemplatesOnly(cov) == Covered(cov) /\ \A check \in cov : check.template

IgnoringPause(cov) == {[check EXCEPT !.paused = FALSE] : check \in cov}

=============================================================================
