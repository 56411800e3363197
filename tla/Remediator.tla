----------------------------- MODULE Remediator -----------------------------
(***************************************************************************)
(* The ClusterReconciler on one Cluster: a pass reads the signals, the     *)
(* Machines, the checks and the nodes, takes the signals one at a time,    *)
(* asks Cluster API to restart or replace a Machine by marking it, answers *)
(* the ExternalRemediationRequests, and releases the Machines whose        *)
(* restart nobody calls for any more.                                      *)
(*                                                                         *)
(* A pass is a sequence of steps, each with at most one call to an API     *)
(* server; everything else in the system (NVSentinel, Cluster API, the     *)
(* provider, the kubelet, users, the informers) moves between them.  A     *)
(* read that fails before the signals are taken ends the pass with nothing *)
(* changed, so it is a stuttering step.                                    *)
(***************************************************************************)
EXTENDS Capi, FiniteSets

CONSTANTS
  Nodes,         \* nodes of the workload cluster; Machine n is the one behind node n
  Conditions,    \* NVSentinel's node conditions
  NodeOf,        \* the node a signal is about
  CheckOf,       \* the check a signal is about
  Want,          \* what decision.Table decides for a signal
  Order,         \* where a signal sorts among the collected ones
  ControlPlane,  \* the nodes whose Machines belong to the control plane
  DryRuns,       \* whether the operator may be started with --dry-run
  ReleaseTries,  \* attempts of retry.DefaultBackoff
  Modes,         \* the modes the workload cluster may be in
  Coverages,     \* the sets of checks that may select a Machine
  Fallbacks,     \* the restart fallbacks the Cluster may have
  ClusterStates, \* the states the Cluster may be in
  Lag,           \* informers that may lag: subset of {"machines", "nodes", "requests"}
  Rejected,      \* calls that may fail: subset of Calls
  Lost,          \* writes whose reply may be lost: subset of Calls
  Disturbances,  \* what others may do in this run, see Environment
  Inherited,     \* marks an earlier instance may have left: subset of Actions
  MaxBoot,       \* bound on the boots of a node
  MaxCrashes     \* bound on the crashes of the operator

Signals   == Requests \cup Conditions
Decisions == {"Report", "Restart", "Replace"}
Calls     == {"read", "mark", "escalate", "release", "answer"}
Checks    == {CheckOf[s] : s \in Signals}
Keys      == Nodes \X Checks

ASSUME ConstantsAssumption ==
  /\ Requests \cap Conditions = {}
  /\ NodeOf \in [Signals -> Nodes]
  /\ CheckOf \in [Signals -> Checks]
  /\ Want \in [Signals -> Decisions]
  /\ Order \in [Signals -> Nat]
  /\ ControlPlane \subseteq Nodes
  /\ DryRuns \subseteq BOOLEAN
  /\ ReleaseTries \in Nat \ {0}
  /\ Modes \subseteq {"ExternalRemediationRequest", "ReportOnly", "NodeCondition"}
  /\ Coverages \subseteq SUBSET CoveringChecks
  /\ Fallbacks \subseteq {"Report", "Replace"}
  /\ ClusterStates \subseteq {"ready", "paused", "disconnected", "gone"}
  /\ "ready" \in ClusterStates
  /\ Inherited \subseteq Actions
  /\ MaxBoot \in Nat \ {0}
  /\ MaxCrashes \in Nat

VARIABLES
  (* the management cluster *)
  machine,    \* the Machines as the API server has them
  coverage,   \* the checks that select each Machine
  cluster,    \* the Cluster's state
  fallback,   \* the Cluster's restart fallback
  (* the workload cluster *)
  node,       \* the nodes as the API server has them, with their faults raised
  request,    \* the status of each request
  mode,       \* the mode NVSentinel's installation implies
  raisedAt,   \* history: the node's boot when the request became pending
  (* the informer caches *)
  mcache,     \* the Machines as cached
  mfresh,     \* whether the cached Machine has the current resource version
  ncache,     \* the nodes as cached
  rcache,     \* the requests that are pending according to the cache
  (* the operator: its --dry-run and ClusterReconciler.waiting *)
  dry,        \* it only says what it would do
  wait,       \* the wait of each Machine for its checks
  (* one pass of Reconcile *)
  pc,         \* where the pass is
  read,       \* what the pass read once: mode, fallback, coverage and nodes
  view,       \* the pass's copy of the Machines, updated by its own patches
  vfresh,     \* whether that copy has the current resource version
  todo,       \* the collected signals not yet taken
  sig,        \* the signal being handled
  ans,        \* the answer to give for it
  observed,   \* current: what was concluded, by node and check
  asking,     \* the requests found pending in this pass
  unreadable, \* some request could not be read
  answered,   \* the mark whose restart was just answered
  tries,      \* attempts left to release it
  left,       \* the Machines still to release at the end of the pass
  crashes     \* crashes so far

apiVars   == <<machine, mcache, mfresh>>
hubVars   == <<coverage, cluster, fallback, dry>>
nodeVars  == <<node, ncache>>
reqVars   == <<request, rcache, raisedAt>>
viewVars  == <<view, vfresh>>
passVars  == <<todo, sig, asking, unreadable>>
tryVars   == <<answered, tries>>
vars == <<apiVars, hubVars, nodeVars, reqVars, mode, wait, pc, read, viewVars,
          passVars, ans, observed, tryVars, left, crashes>>

-----------------------------------------------------------------------------
(* Types *)

NodeRecords == [exists: BOOLEAN, boot: Nat, ready: BOOLEAN, faults: SUBSET Conditions]

RequestStates == {"unraised", "pending", "True", "False", "closed"}

\* observation: what a signal calls for, and the request it came from.  An
\* observation that names no Machine, or decides Report, holds nothing.
NoCall       == [call |-> "none", request |-> NoRequest]
Observations == [call: {"none", "Restart", "Replace"}, request: Requests \cup {NoRequest}]

Reads ==
  [mode: Modes, fallback: Fallbacks, coverage: [Nodes -> Coverages], nodes: [Nodes -> NodeRecords]]

RestartMarks == [marked: BOOLEAN, action: Actions, boot: Nat, request: Requests \cup {NoRequest}]

PCs == {"idle", "signals", "handle", "answer", "releaseAnswered", "reread", "release"}

\* A Machine not yet looked at; it stands for the copies between two passes.
Unread  == [exists |-> FALSE, deleting |-> FALSE, marked |-> FALSE, action |-> "none", boot |-> 0,
            request |-> NoRequest, paused |-> FALSE, optedOut |-> FALSE, shown |-> FALSE,
            controlPlane |-> FALSE]
NoMark  == RestartMarkOf(Unread)
NoRead  == [mode |-> "none"]
NoSig   == NoRequest

-----------------------------------------------------------------------------
(* Writing to the API servers.  An informer that does not lag has the write
   at once. *)

\* Machine n becomes m, and gets a new resource version.
StoreMachine(n, m) ==
  /\ machine' = [machine EXCEPT ![n] = m]
  /\ IF "machines" \in Lag
     THEN mfresh' = [mfresh EXCEPT ![n] = FALSE] /\ UNCHANGED mcache
     ELSE mcache' = machine' /\ UNCHANGED mfresh

\* A patch of this operator is accepted, and its reply updates the copy.
PatchMachine(n, m) ==
  /\ StoreMachine(n, m)
  /\ view' = [view EXCEPT ![n] = m]
  /\ vfresh' = [vfresh EXCEPT ![n] = TRUE]

\* Someone else writes to the Machine, or the reply to a patch is lost: the
\* pass's copy is out of date.
WriteBehind(n, m) ==
  /\ StoreMachine(n, m)
  /\ vfresh' = [vfresh EXCEPT ![n] = FALSE]
  /\ UNCHANGED view

StoreNode(n, rec) ==
  /\ node' = [node EXCEPT ![n] = rec]
  /\ ncache' = IF "nodes" \in Lag THEN ncache ELSE node'

StoreRequest(r, status) ==
  /\ request' = [request EXCEPT ![r] = status]
  /\ rcache' = IF "requests" \in Lag THEN rcache
               ELSE {q \in Requests : request'[q] = "pending"}

\* Somebody else's step passes this operator by: its informers see the writes,
\* at once unless they lag, and its copies of the Machines written to are behind.
Overtaken ==
  LET Behind(fresh) == [n \in Nodes |-> fresh[n] /\ machine'[n] = machine[n]] IN
  /\ IF "machines" \in Lag THEN mfresh' = Behind(mfresh) /\ UNCHANGED mcache
                           ELSE mcache' = machine' /\ UNCHANGED mfresh
  /\ ncache' = IF "nodes" \in Lag THEN ncache ELSE node'
  /\ rcache' = IF "requests" \in Lag THEN rcache ELSE {q \in Requests : request'[q] = "pending"}
  /\ vfresh' = Behind(vfresh)

-----------------------------------------------------------------------------
(* Reconcile: the start of a pass *)

\* The mode that the CRDs the workload cluster serves imply.
SelectMode(served) ==
  IF "requests" \in served THEN "ExternalRemediationRequest"
  ELSE IF "janitor" \in served THEN "ReportOnly" ELSE "NodeCondition"

\* What the two sources collect: the requests, and the conditions raised.
PendingRequests  == rcache
RaisedConditions == {c \in Conditions : ncache[NodeOf[c]].exists /\ c \in ncache[NodeOf[c]].faults}

Collected == IF mode = "ExternalRemediationRequest" THEN PendingRequests ELSE RaisedConditions

\* The signals, the Machines, the checks and the nodes are read one after the
\* other, each from a cache.  One read earlier than the nodes has what its
\* cache, lagging that long, has now.
Begin ==
  /\ pc = "idle" /\ cluster = "ready"
  /\ pc' = "signals"
  /\ todo' = Collected
  /\ read' = [mode |-> mode, fallback |-> fallback, coverage |-> coverage, nodes |-> ncache]
  /\ view' = mcache /\ vfresh' = mfresh
  /\ UNCHANGED <<apiVars, hubVars, nodeVars, reqVars, mode, wait, sig, asking, unreadable,
                 ans, observed, tryVars, left, crashes>>

\* forgetWaits and forget: a Cluster that is paused, disconnected, gone or no
\* longer selected is not read, and its waits are dropped.
PassOver ==
  /\ pc = "idle" /\ cluster # "ready"
  /\ wait' = [n \in Nodes |-> "none"]
  /\ UNCHANGED <<apiVars, hubVars, nodeVars, reqVars, mode, pc, read, viewVars, passVars,
                 ans, observed, tryVars, left, crashes>>

\* A slip: the signals are taken in any order.
Unsorted(s) == s \in todo

\* Signals are sorted before they are taken.
First(s) == s \in todo /\ \A t \in todo : Order[s] <= Order[t]

\* The slip AnsweredNeverMarked is about: trusting the cached view.
LiveIgnored(s) == TRUE

\* extrr.IsPending through the uncached client; a condition has no request.
LivePending(s) == s \in Requests => request[s] = "pending"

\* The signal is taken up.
Take(s) ==
  /\ pc = "signals" /\ First(s)
  /\ LivePending(s)
  /\ todo' = todo \ {s}
  /\ sig' = s
  /\ asking' = IF s \in Requests THEN asking \cup {s} ELSE asking
  /\ pc' = "handle"
  /\ UNCHANGED <<apiVars, hubVars, nodeVars, reqVars, mode, wait, read, viewVars, unreadable,
                 ans, observed, tryVars, left, crashes>>

\* The request was answered or closed since the cache saw it.
PassBy(s) ==
  /\ pc = "signals" /\ First(s)
  /\ ~LivePending(s)
  /\ todo' = todo \ {s}
  /\ UNCHANGED <<apiVars, hubVars, nodeVars, reqVars, mode, wait, pc, read, viewVars, sig, asking,
                 unreadable, ans, observed, tryVars, left, crashes>>

\* A slip: a request that could not be read is forgotten.
UnreadableForgotten(s) ==
  /\ pc = "signals" /\ First(s)
  /\ s \in Requests /\ "read" \in Rejected
  /\ todo' = todo \ {s}
  /\ UNCHANGED <<apiVars, hubVars, nodeVars, reqVars, mode, wait, pc, read, viewVars, sig, asking,
                 unreadable, ans, observed, tryVars, left, crashes>>

\* The request could not be read.
Unreadable(s) ==
  /\ pc = "signals" /\ First(s)
  /\ s \in Requests /\ "read" \in Rejected
  /\ todo' = todo \ {s}
  /\ unreadable' = TRUE
  /\ UNCHANGED <<apiVars, hubVars, nodeVars, reqVars, mode, wait, pc, read, viewVars, sig, asking,
                 ans, observed, tryVars, left, crashes>>

-----------------------------------------------------------------------------
(* handle and remediate: one signal.  The Machine and the node behind it, as
   the pass has them, and what is decided for it. *)

Key(s)  == <<NodeOf[s], CheckOf[s]>>
Machine == view[NodeOf[sig]]
Node    == read.nodes[NodeOf[sig]]
Cover   == read.coverage[NodeOf[sig]]

RequestOf(s) == IF s \in Requests THEN s ELSE NoRequest

\* reportOnly: in ModeReportOnly every decision is only reported.
Decided == IF read.mode = "ReportOnly" THEN "Report" ELSE Want[sig]

NodeGone == sig \in Requests /\ ~Node.exists

\* The restart the request asked for is over.
Complete ==
  /\ Decided = "Restart" /\ sig \in Requests
  /\ RestartCompleted(Machine, Node)
  /\ RestartAnswers(Machine, sig)

RestartUnavailable == Decided = "Restart" /\ ~TemplatesOnly(Cover)

FallsBack == RestartUnavailable /\ read.fallback = "Replace" /\ Covered(Cover)

\* Whether it is a restart that is asked for, after the fallback.
AsRestart == Decided = "Restart" /\ ~FallsBack

\* Escalate has a restart mark to turn into a replacement mark.
Escalates ==
  /\ ~AsRestart
  /\ Decided = "Replace" \/ ~(Machine.paused \/ Machine.optedOut)
  /\ MarkedAction(Machine) = "Restart" /\ ~Machine.deleting

\* No check carries out what is asked for now.
Unavailable ==
  IF AsRestart THEN RestartUnavailable ELSE ~Covered(Cover)

\* Unpausing the checks would make it possible.
WaitsForPausedChecks ==
  LET unpaused == IgnoringPause(Cover)
  IN  IF AsRestart
      THEN TemplatesOnly(unpaused) \/ (read.fallback = "Replace" /\ Covered(unpaused))
      ELSE Covered(unpaused)

\* The slip the liveness property is about: a wait that is never over.
HeldForGood == AsRestart /\ EarlierMarkPending(Machine)

\* heldForChecks: the checks still show the earlier mark and the grace they
\* get is not over.
HeldForChecks ==
  AsRestart /\ EarlierMarkPending(Machine) /\ wait[NodeOf[sig]] \in {"none", "waiting"}

\* heldForChecks also starts, ends or drops the Machine's wait.
NoteWait ==
  wait' = [wait EXCEPT ![NodeOf[sig]] =
             IF ~AsRestart THEN @
             ELSE IF ~EarlierMarkPending(Machine) THEN "none"
             ELSE IF @ \in {"none", "waiting"} THEN "waiting" ELSE "over"]

\* What the observation says: the Machine is called for, or nothing.
Call == IF Machine.exists /\ Decided # "Report"
        THEN [call |-> Decided, request |-> RequestOf(sig)] ELSE NoCall

\* A slip: an answer for a signal no request asked for.
DeclineAlways == "False"

\* decline: False for a request, nothing for a condition.
Decline == IF sig \in Requests THEN "False" ELSE "none"

Conclude(observation, answer) ==
  /\ observed' = [observed EXCEPT ![Key(sig)] = observation]
  /\ ans' = answer
  /\ pc' = IF answer = "none" THEN "signals" ELSE "answer"
  /\ UNCHANGED <<hubVars, nodeVars, reqVars, mode, read, passVars, tryVars, left, crashes>>

\* A signal that ends in a report: its node or Machine is gone, or nothing is
\* to be done.
Reported ==
  /\ pc = "handle"
  /\ NodeGone \/ ~Machine.exists \/ Decided = "Report"
  /\ Conclude(Call, IF NodeGone THEN "none" ELSE Decline)
  /\ UNCHANGED <<apiVars, viewVars, wait>>

Remediates == pc = "handle" /\ ~NodeGone /\ Machine.exists /\ Decided # "Report"

RestartOver ==
  /\ Remediates /\ Complete
  /\ Conclude(Call, "True")
  /\ UNCHANGED <<apiVars, viewVars, wait>>

\* A slip: every escalation concludes nothing.
EscalateNothing ==
  /\ Remediates /\ ~Complete /\ Escalates /\ ~dry
  /\ Conclude(NoCall, "none")
  /\ UNCHANGED <<apiVars, viewVars, wait>>

\* Escalate, which patches with the resource version.  The Machine is then
\* skipped as marked.
Escalate ==
  /\ Remediates /\ ~Complete /\ Escalates /\ ~dry
  /\ UNCHANGED wait
  /\ \/ /\ vfresh[NodeOf[sig]]
        /\ PatchMachine(NodeOf[sig], Escalated(Machine))
        /\ Conclude(Call, "none")
     \/ /\ "escalate" \in Lost /\ vfresh[NodeOf[sig]]
        /\ WriteBehind(NodeOf[sig], Escalated(Machine))
        /\ Conclude(NoCall, "none")
     \/ /\ "escalate" \in Rejected \/ ~vfresh[NodeOf[sig]]
        /\ Conclude(NoCall, "none")
        /\ UNCHANGED <<apiVars, viewVars>>

\* What remediate comes to when the restart is not over and nothing was
\* escalated.
Proceeds == Remediates /\ ~Complete /\ (~Escalates \/ dry)

Skipped ==
  /\ Proceeds /\ Guard(Machine) # ""
  /\ Conclude(Call, IF InProgress(Guard(Machine)) \/ Guard(Machine) = "MachinePaused"
                    THEN "none" ELSE Decline)
  /\ UNCHANGED <<apiVars, viewVars, wait>>

ReportedUnavailable ==
  /\ Proceeds /\ Guard(Machine) = "" /\ Unavailable
  /\ Conclude(Call, IF WaitsForPausedChecks THEN "none" ELSE Decline)
  /\ UNCHANGED <<apiVars, viewVars, wait>>

\* Held back for the checks, or only said what would be done.
HeldBack ==
  /\ Proceeds /\ Guard(Machine) = "" /\ ~Unavailable
  /\ HeldForChecks \/ dry
  /\ NoteWait
  /\ Conclude(Call, "none")
  /\ UNCHANGED <<apiVars, viewVars>>

\* The Machine MarkForRemediation asks for, and what its patch makes of the
\* Machine the API server has by now: the patch carries no resource version.
MarkWanted ==
  IF AsRestart THEN Marked(Machine, "Restart", IF Node.exists THEN Node.boot ELSE 0, RequestOf(sig))
  ELSE Marked(Machine, "Remediate", 0, NoRequest)

MarkStored == MergePatch(Machine, MarkWanted, machine[NodeOf[sig]])

Mark ==
  /\ Proceeds /\ Guard(Machine) = "" /\ ~Unavailable /\ ~HeldForChecks /\ ~dry
  /\ NoteWait
  /\ \/ /\ machine[NodeOf[sig]].exists
        /\ PatchMachine(NodeOf[sig], MarkStored)
        /\ Conclude(Call, "none")
     \/ /\ "mark" \in Lost /\ machine[NodeOf[sig]].exists
        /\ WriteBehind(NodeOf[sig], MarkStored)
        /\ Conclude(NoCall, "none")
     \/ /\ "mark" \in Rejected \/ ~machine[NodeOf[sig]].exists
        /\ Conclude(NoCall, "none")
        /\ UNCHANGED <<apiVars, viewVars>>

-----------------------------------------------------------------------------
(* answer and releaseAnswered *)

\* A slip: a dry run answers too.
AnswersInDryRun == request[sig] = "pending"

Answers == ~dry /\ request[sig] = "pending"

\* The answer is written unless the request is no longer pending; a True one
\* goes on to release the Machine.
Answer ==
  /\ pc = "answer"
  /\ \/ /\ Answers
        /\ StoreRequest(sig, ans)
        /\ \/ /\ ans = "True"
              /\ pc' = "releaseAnswered"
              /\ answered' = RestartMarkOf(Machine)
              /\ tries' = ReleaseTries
           \/ /\ ans = "False" \/ "answer" \in Lost
              /\ pc' = "signals"
              /\ UNCHANGED tryVars
     \/ /\ ~Answers \/ "answer" \in Rejected
        /\ pc' = "signals"
        /\ UNCHANGED <<request, rcache, tryVars>>
  /\ ans' = "none"
  /\ UNCHANGED <<apiVars, hubVars, nodeVars, raisedAt, mode, wait, read, viewVars, passVars,
                 observed, left, crashes>>

\* A release that forgets the resource version: it removes whatever mark
\* the Machine carries by now.
ReleaseUnlocked(n) ==
  \/ /\ machine[n].exists
     /\ PatchMachine(n, MergePatch(view[n], Released(view[n]), machine[n]))
  \/ /\ "release" \in Lost /\ vfresh[n]
     /\ WriteBehind(n, Released(view[n]))
  \/ /\ view[n].deleting \/ "release" \in Rejected \/ ~machine[n].exists
     /\ UNCHANGED <<apiVars, viewVars>>

\* Actuator.Release on the pass's copy: written, written with the reply
\* lost, or not written (refused, out of date, being deleted or gone).
Release(n) ==
  \/ /\ vfresh[n] /\ ~view[n].deleting
     /\ PatchMachine(n, Released(view[n]))
  \/ /\ "release" \in Lost /\ vfresh[n] /\ ~view[n].deleting
     /\ WriteBehind(n, Released(view[n]))
  \/ /\ view[n].deleting \/ ~vfresh[n] \/ "release" \in Rejected
     /\ UNCHANGED <<apiVars, viewVars>>

\* The release lost to another write, and is to be tried again.
Conflicts(n) == ~vfresh[n] /\ ~view[n].deleting /\ machine[n].exists /\ tries > 1

ReleaseAnswered ==
  /\ pc = "releaseAnswered"
  /\ \/ /\ ~Conflicts(NodeOf[sig]) \/ "release" \in Rejected
        /\ Release(NodeOf[sig])
        /\ pc' = "signals" /\ answered' = NoMark /\ tries' = 0
     \/ /\ Conflicts(NodeOf[sig])
        /\ pc' = "reread" /\ tries' = tries - 1
        /\ UNCHANGED <<apiVars, viewVars, answered>>
  /\ UNCHANGED <<hubVars, nodeVars, reqVars, mode, wait, read, passVars, ans, observed, left, crashes>>

\* The next attempt reads the Machine from the cache, and goes on only when
\* it still carries the mark that was answered.
Reread ==
  /\ pc = "reread"
  /\ LET n == NodeOf[sig] IN
     /\ IF mcache[n].exists
        THEN /\ view' = [view EXCEPT ![n] = mcache[n]]
             /\ vfresh' = [vfresh EXCEPT ![n] = mfresh[n]]
        ELSE UNCHANGED viewVars
     /\ IF mcache[n].exists /\ RestartMarkOf(mcache[n]) = answered
        THEN pc' = "releaseAnswered" /\ UNCHANGED tryVars
        ELSE pc' = "signals" /\ answered' = NoMark /\ tries' = 0
  /\ UNCHANGED <<apiVars, hubVars, nodeVars, reqVars, mode, wait, read, passVars, ans, observed,
                 left, crashes>>

-----------------------------------------------------------------------------
(* releaseRestarts and the end of the pass *)

\* The slip the second request pays for: its wait holds a finished restart.
LeftoverNever(n, obs) == FALSE

\* The Machine carries the mark of a finished restart that another request,
\* no longer asking, asked for.
Leftover(n, obs) ==
  /\ obs.call = "Restart" /\ obs.request # NoRequest
  /\ view[n].request # NoRequest /\ view[n].request \notin asking
  /\ RestartCompleted(view[n], read.nodes[n])

\* A slip: only requests hold a Machine.
HeldByRequests(n) ==
  \E k \in Keys : k[1] = n /\ observed[k].request # NoRequest /\ ~Leftover(n, observed[k])

Held(n) ==
  \E k \in Keys : k[1] = n /\ observed[k].call # "none" /\ ~Leftover(n, observed[k])

\* A slip: replacement marks are released too.
ReleasableAny(m) == m.exists /\ MarkedAction(m) # "none"

Releasable(m) == m.exists /\ MarkedAction(m) = "Restart"

\* A slip: a partial read is enough.
ReleaseAnyway == TRUE

\* Nothing is released on the strength of a partial read.
MayRelease == ~unreadable

StartRelease ==
  /\ pc = "signals" /\ todo = {}
  /\ left' = {n \in Nodes : MayRelease /\ Releasable(view[n]) /\ ~Held(n)}
  /\ pc' = "release"
  /\ UNCHANGED <<apiVars, hubVars, nodeVars, reqVars, mode, wait, read, viewVars, passVars, ans,
                 observed, tryVars, crashes>>

\* The Machines are released by name; the order shows in nothing but logs.
ReleaseRestart(n) ==
  /\ pc = "release" /\ n \in left
  /\ IF dry THEN UNCHANGED <<apiVars, viewVars>> ELSE Release(n)
  /\ left' = left \ {n}
  /\ UNCHANGED <<hubVars, nodeVars, reqVars, mode, wait, pc, read, passVars, ans, observed,
                 tryVars, crashes>>

\* What a pass works with is gone once it ends.
EndPass ==
  /\ pc' = "idle" /\ read' = NoRead
  /\ view' = [n \in Nodes |-> Unread] /\ vfresh' = [n \in Nodes |-> FALSE]
  /\ todo' = {} /\ sig' = NoSig /\ asking' = {} /\ unreadable' = FALSE
  /\ ans' = "none" /\ observed' = [k \in Keys |-> NoCall]
  /\ answered' = NoMark /\ tries' = 0 /\ left' = {}
  /\ UNCHANGED <<apiVars, hubVars, nodeVars, reqVars, mode>>

\* forgetWaits keeps the waits of the Machines that are still as they were.
Finish ==
  /\ pc = "release" /\ left = {}
  /\ wait' = [n \in Nodes |-> IF view[n].exists /\ EarlierMarkPending(view[n]) THEN wait[n] ELSE "none"]
  /\ EndPass
  /\ UNCHANGED crashes

\* The operator stops and another instance takes over, with no memory.
Crash ==
  /\ crashes < MaxCrashes
  /\ crashes' = crashes + 1
  /\ wait' = [n \in Nodes |-> "none"]
  /\ EndPass

Handle == Reported \/ RestartOver \/ Escalate \/ Skipped \/ ReportedUnavailable \/ HeldBack \/ Mark

Pass ==
  \/ Begin \/ PassOver
  \/ \E s \in todo : Take(s) \/ PassBy(s) \/ Unreadable(s)
  \/ Handle
  \/ Answer \/ ReleaseAnswered \/ Reread
  \/ StartRelease
  \/ \E n \in left : ReleaseRestart(n)
  \/ Finish

-----------------------------------------------------------------------------
(* Everyone else.  An action that Disturbances names happens only in the
   runs that ask for it. *)

\* No step of the environment touches the operator's own state.
EnvFrame == UNCHANGED <<pc, read, passVars, ans, observed, tryVars, left, crashes>>

\* NVSentinel releases the node to a request: to one at a time, which it holds
\* until that is answered True or closed, unless requests "overlap".
RequestRaised(r) ==
  /\ request[r] = "unraised" /\ node[NodeOf[r]].exists
  /\ \/ "overlap" \in Disturbances
     \/ \A q \in Requests : NodeOf[q] = NodeOf[r] => request[q] \notin {"pending", "False"}
  /\ StoreRequest(r, "pending")
  /\ raisedAt' = [raisedAt EXCEPT ![r] = node[NodeOf[r]].boot]
  /\ EnvFrame /\ UNCHANGED <<apiVars, hubVars, nodeVars, mode, wait, viewVars>>

\* The request is deleted, by NVSentinel or with its node.
RequestClosed(r) ==
  /\ "close" \in Disturbances \/ ~node[NodeOf[r]].exists
  /\ request[r] = "pending"
  /\ StoreRequest(r, "closed")
  /\ EnvFrame /\ UNCHANGED <<apiVars, hubVars, nodeVars, raisedAt, mode, wait, viewVars>>

NodeChanges(n, rec) ==
  /\ StoreNode(n, rec)
  /\ EnvFrame /\ UNCHANGED <<apiVars, hubVars, reqVars, mode, wait, viewVars>>

\* NVSentinel raises or lowers a node condition.
FaultChanges(c) ==
  /\ "faults" \in Disturbances /\ node[NodeOf[c]].exists
  /\ NodeChanges(NodeOf[c],
       [node[NodeOf[c]] EXCEPT !.faults = IF c \in @ THEN @ \ {c} ELSE @ \cup {c}])

Booted(rec) == [rec EXCEPT !.boot = @ + 1, !.ready = FALSE]

\* The provider carries out the restart a mark asks for, once.
ProviderRestarts(n) ==
  /\ machine[n].exists /\ machine[n].marked /\ machine[n].boot = node[n].boot
  /\ node[n].exists /\ node[n].boot < MaxBoot
  /\ NodeChanges(n, Booted(node[n]))

\* The node restarts for a reason of its own.
NodeRestarts(n) ==
  /\ "restart" \in Disturbances
  /\ node[n].exists /\ node[n].boot < MaxBoot
  /\ NodeChanges(n, Booted(node[n]))

NodeReady(n) ==
  /\ node[n].exists /\ ~node[n].ready
  /\ NodeChanges(n, [node[n] EXCEPT !.ready = TRUE])

MachineChanges(n, m) ==
  /\ machine[n].exists /\ m # machine[n]
  /\ WriteBehind(n, m)
  /\ EnvFrame /\ UNCHANGED <<hubVars, nodeVars, reqVars, mode, wait>>

\* A MachineHealthCheck looks at the Machine and rewrites its condition.
ChecksLook(n) ==
  /\ "look" \in Disturbances /\ Covered(coverage[n])
  /\ MachineChanges(n, [machine[n] EXCEPT !.shown = machine[n].marked])

UserPauses(n) ==
  /\ "pause" \in Disturbances
  /\ MachineChanges(n, [machine[n] EXCEPT !.paused = ~@])

UserOptsOut(n) ==
  /\ "optOut" \in Disturbances
  /\ MachineChanges(n, [machine[n] EXCEPT !.optedOut = ~@])

\* Someone else marks the Machine; annotations left of an earlier mark stay.
UserMarks(n) ==
  /\ "mark" \in Disturbances
  /\ MachineChanges(n, [machine[n] EXCEPT !.marked = TRUE])

\* A user removes the mark, and the mark only.
UserUnmarks(n) ==
  /\ "unmark" \in Disturbances
  /\ MachineChanges(n, [machine[n] EXCEPT !.marked = FALSE])

MachineDeleted(n) ==
  /\ "delete" \in Disturbances
  /\ MachineChanges(n, [machine[n] EXCEPT !.deleting = TRUE])

NodeRemoved(n) ==
  /\ machine[n].deleting /\ node[n].exists
  /\ NodeChanges(n, [node[n] EXCEPT !.exists = FALSE])

MachineRemoved(n) ==
  /\ machine[n].deleting /\ ~node[n].exists
  /\ MachineChanges(n, [machine[n] EXCEPT !.exists = FALSE])

ChecksChange(n) ==
  /\ \E cov \in Coverages \ {coverage[n]} : coverage' = [coverage EXCEPT ![n] = cov]
  /\ EnvFrame
  /\ UNCHANGED <<apiVars, cluster, fallback, dry, nodeVars, reqVars, mode, wait, viewVars>>

FallbackChanges ==
  /\ \E f \in Fallbacks \ {fallback} : fallback' = f
  /\ EnvFrame
  /\ UNCHANGED <<apiVars, coverage, cluster, dry, nodeVars, reqVars, mode, wait, viewVars>>

ClusterChanges ==
  /\ \E c \in ClusterStates \ {cluster} : cluster' = c
  /\ EnvFrame
  /\ UNCHANGED <<apiVars, coverage, fallback, dry, nodeVars, reqVars, mode, wait, viewVars>>

\* NVSentinel's CRDs are installed or removed.
ModeChanges ==
  /\ \E served \in SUBSET {"requests", "janitor"} :
       /\ SelectMode(served) \in Modes \ {mode}
       /\ mode' = SelectMode(served)
  /\ EnvFrame
  /\ UNCHANGED <<apiVars, hubVars, nodeVars, reqVars, wait, viewVars>>

SyncMachine(n) ==
  /\ ~mfresh[n]
  /\ mcache' = [mcache EXCEPT ![n] = machine[n]]
  /\ mfresh' = [mfresh EXCEPT ![n] = TRUE]
  /\ EnvFrame /\ UNCHANGED <<machine, hubVars, nodeVars, reqVars, mode, wait, viewVars>>

SyncNode(n) ==
  /\ ncache[n] # node[n]
  /\ ncache' = [ncache EXCEPT ![n] = node[n]]
  /\ EnvFrame /\ UNCHANGED <<apiVars, hubVars, node, reqVars, mode, wait, viewVars>>

SyncRequests ==
  /\ rcache # {r \in Requests : request[r] = "pending"}
  /\ rcache' = {r \in Requests : request[r] = "pending"}
  /\ EnvFrame /\ UNCHANGED <<apiVars, hubVars, nodeVars, request, raisedAt, mode, wait, viewVars>>

\* earlierMarkGrace passes on the operator's clock.
GraceElapses(n) ==
  /\ wait[n] = "waiting"
  /\ wait' = [wait EXCEPT ![n] = "due"]
  /\ EnvFrame /\ UNCHANGED <<apiVars, hubVars, nodeVars, reqVars, mode, viewVars>>

Environment ==
  \/ \E r \in Requests : RequestRaised(r) \/ RequestClosed(r)
  \/ \E c \in Conditions : FaultChanges(c)
  \/ \E n \in Nodes :
       \/ ProviderRestarts(n) \/ NodeRestarts(n) \/ NodeReady(n)
       \/ ChecksLook(n) \/ UserPauses(n) \/ UserOptsOut(n) \/ UserMarks(n) \/ UserUnmarks(n)
       \/ MachineDeleted(n) \/ NodeRemoved(n) \/ MachineRemoved(n)
       \/ ChecksChange(n) \/ SyncMachine(n) \/ SyncNode(n) \/ GraceElapses(n)
  \/ FallbackChanges \/ ClusterChanges \/ ModeChanges \/ SyncRequests

-----------------------------------------------------------------------------
(* The specification *)

NewMachine(n) == [Unread EXCEPT !.exists = TRUE, !.controlPlane = n \in ControlPlane]

\* A mark of an operator that did not record the request.
EarlierMark(m, action) == Marked(m, action, IF action = "Restart" THEN 1 ELSE 0, NoRequest)

Init ==
  /\ \/ machine = [n \in Nodes |-> NewMachine(n)]
     \/ \E action \in Inherited : machine = [n \in Nodes |-> EarlierMark(NewMachine(n), action)]
  /\ mcache = machine /\ mfresh = [n \in Nodes |-> TRUE]
  /\ coverage \in [Nodes -> Coverages]
  /\ cluster \in ClusterStates /\ fallback \in Fallbacks /\ mode \in Modes
  /\ dry \in DryRuns
  /\ node = [n \in Nodes |-> [exists |-> TRUE, boot |-> 1, ready |-> TRUE, faults |-> {}]]
  /\ ncache = node
  /\ request = [r \in Requests |-> "unraised"] /\ rcache = {}
  /\ raisedAt = [r \in Requests |-> 0]
  /\ wait = [n \in Nodes |-> "none"]
  /\ pc = "idle" /\ read = NoRead
  /\ view = [n \in Nodes |-> Unread] /\ vfresh = [n \in Nodes |-> FALSE]
  /\ todo = {} /\ sig = NoSig /\ asking = {} /\ unreadable = FALSE
  /\ ans = "none" /\ observed = [k \in Keys |-> NoCall]
  /\ answered = NoMark /\ tries = 0 /\ left = {} /\ crashes = 0

Next == Pass \/ Crash \/ Environment

Spec == Init /\ [][Next]_vars

\* Every pass is followed by another, for the controller requeues itself; its
\* calls return.  The provider and the kubelet finish what they began, the
\* informers catch up and time passes.
Fairness ==
  /\ WF_vars(Pass)
  /\ WF_vars(SyncRequests)
  /\ \A n \in Nodes :
       /\ WF_vars(ProviderRestarts(n)) /\ WF_vars(NodeReady(n))
       /\ WF_vars(GraceElapses(n)) /\ WF_vars(SyncMachine(n)) /\ WF_vars(SyncNode(n))

FairSpec == Spec /\ Fairness

-----------------------------------------------------------------------------
(* Properties *)

MachinesTypeOK ==
  /\ machine \in [Nodes -> Machines] /\ mcache \in [Nodes -> Machines]
  /\ view \in [Nodes -> Machines]
  /\ mfresh \in [Nodes -> BOOLEAN] /\ vfresh \in [Nodes -> BOOLEAN]

ClustersTypeOK ==
  /\ coverage \in [Nodes -> Coverages] /\ cluster \in ClusterStates
  /\ fallback \in Fallbacks /\ mode \in Modes /\ dry \in DryRuns
  /\ node \in [Nodes -> NodeRecords] /\ ncache \in [Nodes -> NodeRecords]
  /\ request \in [Requests -> RequestStates] /\ raisedAt \in [Requests -> Nat]
  /\ rcache \subseteq Requests

PassTypeOK ==
  /\ wait \in [Nodes -> {"none", "waiting", "due", "over"}]
  /\ pc \in PCs
  /\ IF pc = "idle" THEN read = NoRead ELSE read \in Reads
  /\ todo \subseteq Signals /\ asking \subseteq Requests /\ unreadable \in BOOLEAN
  /\ sig \in Signals \cup {NoSig}
  /\ pc \in {"handle", "answer", "releaseAnswered", "reread"} => sig \in Signals
  /\ ans \in {"none", "True", "False"}
  /\ pc = "answer" => sig \in Requests /\ ans # "none"
  /\ observed \in [Keys -> Observations]
  /\ answered \in RestartMarks /\ tries \in 0..ReleaseTries
  /\ left \subseteq Nodes /\ crashes \in 0..MaxCrashes

\* The values every variable keeps; a pass under way has read its Cluster
\* and, past the signals, has a signal in hand, and only a request is ever
\* answered (Reconcile, decline).
TypeOK == MachinesTypeOK /\ ClustersTypeOK /\ PassTypeOK

\* The steps in which the operator may write: each moves the pass on, and no
\* step of the environment does.
ByOperator == pc' # pc \/ left' # left

\* The mark of the restart that request r asked for.
MarkFor(m, r) == MarkedAction(m) = "Restart" /\ m.request = r

\* A request is answered True only when its node has restarted since it was
\* released to the operator (remediate, RestartCompleted, RestartAnswers:
\* "answering it too would report a remediation that never happened").
RestartedForReal ==
  \A r \in Requests : request[r] = "True" => raisedAt[r] < node[NodeOf[r]].boot

(* Why RestartedForReal holds.  A boot is recorded with a mark after the
   request was raised, and compared with a node read later: every copy of a
   Machine keeps the request and the boot of its restart mark together. *)

\* The request was released to the operator no later than its node's boot b.
RaisedBy(r, b) == request[r] # "unraised" /\ raisedAt[r] <= b

\* The boot of the node that the operator goes by.
KnownBoot(n) == IF pc = "idle" THEN ncache[n].boot ELSE read.nodes[n].boot

BootsKnown ==
  /\ ncache = node
  /\ \A n \in Nodes : 1 <= KnownBoot(n) /\ KnownBoot(n) <= node[n].boot

RequestsRaised ==
  /\ \A r \in Requests : request[r] # "unraised" => raisedAt[r] <= node[NodeOf[r]].boot
  /\ \A r \in rcache : request[r] # "unraised"

Credited(n, m) ==
  /\ ~m.marked => m.action = "none" /\ m.boot = 0 /\ m.request = NoRequest
  /\ m.action = "Restart" =>
       m.request \in Requests /\ NodeOf[m.request] = n /\ RaisedBy(m.request, m.boot)
  /\ m.boot <= KnownBoot(n)

MarksCredited ==
  \A n \in Nodes : Credited(n, machine[n]) /\ Credited(n, mcache[n]) /\ Credited(n, view[n])

SignalsRaised ==
  pc # "idle" =>
    /\ read.mode = "ExternalRemediationRequest"
    /\ \A s \in todo : s \in Requests /\ RaisedBy(s, KnownBoot(NodeOf[s]))
    /\ pc \in {"handle", "answer"} => sig \in Requests /\ RaisedBy(sig, KnownBoot(NodeOf[sig]))
    /\ pc = "answer" /\ ans = "True" => raisedAt[sig] < KnownBoot(NodeOf[sig])

\* The setting RestartedForReal is proved in: NVSentinel leaves its requests
\* to the operator, the node informer keeps up, no mark is older than the
\* request's name on it and nobody takes a mark apart.
OnlyRequests ==
  /\ Modes = {"ExternalRemediationRequest"}
  /\ "nodes" \notin Lag /\ "unmark" \notin Disturbances /\ Inherited = {}

CreditInv ==
  BootsKnown /\ RequestsRaised /\ MarksCredited /\ SignalsRaised /\ RestartedForReal

(* What the operator's own steps go by.  The parts that hold in every setting
   come first. *)

\* A copy that has the resource version is the Machine as it is, and so is
\* every cached one when the informer keeps up.
CopiesCurrent ==
  /\ \A n \in Nodes : vfresh[n] => view[n] = machine[n]
  /\ \A n \in Nodes : mfresh[n] => mcache[n] = machine[n]
  /\ "machines" \notin Lag => mcache = machine

\* A request on a Machine is about its node, asks for a restart and was
\* raised.
Named(n, m) ==
  m.request \in Requests =>
    NodeOf[m.request] = n /\ Want[m.request] = "Restart" /\ request[m.request] # "unraised"

RequestsNamed ==
  /\ \A r \in rcache \cup (todo \cap Requests) \cup asking : request[r] # "unraised"
  /\ \A n \in Nodes : Named(n, machine[n])

\* Faults are of their node, a node goes only with its Machine, a node read as
\* gone is gone, and the cached nodes are the nodes when the informer keeps up.
NodesKnown ==
  /\ "nodes" \notin Lag => ncache = node
  /\ \A n \in Nodes :
       /\ \A c \in node[n].faults \cup ncache[n].faults : NodeOf[c] = n
       /\ ~machine[n].exists => ~node[n].exists
       /\ ~node[n].exists => machine[n].deleting
       /\ ~ncache[n].exists => ~node[n].exists
  /\ pc # "idle" => \A n \in Nodes : /\ \A c \in read.nodes[n].faults : NodeOf[c] = n
                                     /\ ~read.nodes[n].exists => ~node[n].exists

\* Requests are read, asked and answered in their mode only, and while one is
\* handled nobody else answers it.  A signal is taken up once, in order.
RequestsInHand ==
  /\ pc = "handle" => sig \notin todo /\ \A t \in todo : Order[sig] <= Order[t]
  /\ pc = "idle" => asking = {} /\ sig = NoSig /\ observed = [k \in Keys |-> NoCall]
  /\ pc # "idle" /\ read.mode # "ExternalRemediationRequest" =>
       /\ todo \cap Requests = {} /\ asking = {} /\ sig \notin Requests
       /\ \A k \in Keys : observed[k].request = NoRequest
  /\ pc # "idle" /\ read.mode = "ExternalRemediationRequest" =>
       todo \subseteq Requests /\ (pc = "handle" => sig \in Requests)
  /\ pc \in {"handle", "answer"} /\ sig \in Requests =>
       sig \in asking /\ request[sig] \in {"pending", "closed"}

\* An answer True and the release after it are about the restart mark that the
\* pass saw; the releases at the end are of restart marks nothing holds.
ReleasesKnown ==
  /\ pc = "answer" /\ ans = "True" => Releasable(Machine) /\ RestartAnswers(Machine, sig)
  /\ (pc = "answer" /\ ans = "True") \/ pc \in {"releaseAnswered", "reread"} =>
       observed[Key(sig)].call = "Restart"
  /\ pc \in {"releaseAnswered", "reread"} =>
       /\ ~dry /\ sig \in Requests /\ request[sig] = "True"
       /\ answered.action = "Restart" /\ answered.request \in {NoRequest, sig}
  /\ pc = "releaseAnswered" => Machine.exists /\ RestartMarkOf(Machine) = answered
  /\ pc = "release" =>
       /\ todo = {}
       /\ \A n \in left : MayRelease /\ Releasable(view[n]) /\ ~Held(n)

PassInv == CopiesCurrent /\ RequestsNamed /\ NodesKnown /\ RequestsInHand /\ ReleasesKnown

\* A mark comes with its annotations and goes with them, unless someone takes
\* the mark off alone.
Whole(m) == ~m.marked => m.action = "none" /\ m.request = NoRequest

MarksWhole == \A n \in Nodes : Whole(machine[n]) /\ Whole(mcache[n]) /\ Whole(view[n])

\* The signals that call for a restart of a node sort before those that call for
\* its replacement.
RestartsFirst ==
  \A s, t \in Signals :
    NodeOf[s] = NodeOf[t] /\ Want[s] = "Replace" /\ Want[t] = "Restart" => Order[t] < Order[s]

\* The setting in which no replacement mark is made that a restart could be
\* asked for on top of: no reply to a mark is lost, or restarts come first.
ReplacementsLast == "mark" \notin Lost \/ RestartsFirst

\* Handling the signal in this pass would ask for a restart.
CallsRestart(s) ==
  LET cover == read.coverage[NodeOf[s]]
  IN  Want[s] = "Restart" /\ ~(~TemplatesOnly(cover) /\ read.fallback = "Replace" /\ Covered(cover))

\* The operator sees the replacement marks of its own, or asks for no restart
\* of those Machines, when the cached Machines keep up.
ReplacementsSeen ==
  "machines" \notin Lag /\ ReplacementsLast /\ pc # "idle" =>
    \A n \in Nodes : ~view[n].marked /\ MarkedAction(machine[n]) = "Remediate" =>
      \A s \in Signals :
        NodeOf[s] = n /\ (s \in todo \/ (pc = "handle" /\ sig = s)) => ~CallsRestart(s)

MarksInv == "unmark" \notin Disturbances => MarksWhole /\ ReplacementsSeen

\* The pass is done with a signal that it read.
Done(s) ==
  /\ \/ s \in asking
     \/ /\ read.mode = "NodeCondition" /\ read.nodes[NodeOf[s]].exists
        /\ s \in read.nodes[NodeOf[s]].faults \ todo
  /\ ~(pc = "handle" /\ sig = s)

\* Some signal of this pass calls for node n.
Called(n) == \E k \in Keys : k[1] = n /\ observed[k].call # "none"

\* The setting in which a signal that was acted on holds its Machine to the end
\* of the pass: no escalation is refused, and the signals that share a check of
\* a node are all acted on or all reported.
SignalsHold ==
  /\ "escalate" \notin Rejected
  /\ \A s, t \in Signals : Key(s) = Key(t) => (Want[s] = "Report" <=> Want[t] = "Report")

\* A restart mark that the pass could release is called for by every signal
\* that it is done with and that calls for anything.
HoldInv ==
  /\ \A k \in Keys : observed[k].call # "none" =>
       \E s \in Signals : Key(s) = k /\ Want[s] # "Report"
  /\ pc # "idle" => \A s \in Signals :
       /\ Done(s) /\ Want[s] # "Report"
       /\ vfresh[NodeOf[s]] /\ Releasable(machine[NodeOf[s]])
       => Called(NodeOf[s])

\* Requests are taken in order, an answer True is about a restart, and a restart
\* mark that the pass could release is called for by a replacement once the pass
\* is done with a request that asks for one.
ReplaceInv ==
  /\ \A r \in asking :
       /\ \A t \in todo : Order[r] <= Order[t]
       /\ pc \in {"handle", "answer", "releaseAnswered", "reread"} => Order[r] <= Order[sig]
  /\ (pc = "answer" /\ ans = "True") \/ pc \in {"releaseAnswered", "reread"} => Want[sig] = "Restart"
  /\ \A r \in asking :
       /\ Want[r] = "Replace" /\ ~(pc = "handle" /\ sig = r)
       /\ vfresh[NodeOf[r]] /\ Releasable(machine[NodeOf[r]])
       => \E k \in Keys : k[1] = NodeOf[r] /\ observed[k].call = "Replace"

\* A pending request that a Machine names is in the cache, and a pass that is
\* under way has it before it, has found it pending, or releases nothing.
PendingInv ==
  \A r \in Requests : request[r] = "pending" =>
    /\ (\E n \in Nodes : machine[n].request = r) \/ r \in todo \cup asking => r \in rcache
    /\ pc # "idle" /\ machine[NodeOf[r]].request = r => r \in todo \cup asking \/ unreadable

\* The operator never takes the restart mark made for a request off its
\* Machine while the request is pending: the next pass would restart the node
\* again (remediate: "so that a failed answer never leaves a pending request
\* behind an unmarked Machine"; releaseRestarts).
PendingKeepsItsMark ==
  [][ByOperator => \A n \in Nodes, r \in Requests :
       MarkFor(machine[n], r) /\ request[r] = "pending"
       => MarkedAction(machine'[n]) # "none"]_vars

\* The operator never marks a Machine for a request it has answered, however
\* far the cached requests lag (Reconcile, IsPending).
AnsweredNeverMarked ==
  [][ByOperator => \A n \in Nodes, r \in Requests :
       MarkFor(machine'[n], r) /\ ~MarkFor(machine[n], r)
       => request[r] \notin {"True", "False"}]_vars

\* A request that was declined has no restart mark: nothing happens to a node
\* NVSentinel was told nothing will happen to (Answer: "False is only given
\* when nothing is going to happen").
DeclinedNotMarked ==
  \A r \in Requests, n \in Nodes : request[r] = "False" => ~MarkFor(machine[n], r)

\* A request is declined only with its Machine unmarked or marked for another,
\* as the Machine is and not only as it was read.
DeclinedInv ==
  /\ pc # "idle" =>
       /\ \A n \in Nodes : ~view[n].exists => ~read.nodes[n].exists
       /\ \A r \in Requests : r \in todo \/ (pc = "handle" /\ sig = r) =>
            (MarkFor(machine[NodeOf[r]], r) => MarkFor(view[NodeOf[r]], r))
  /\ pc = "answer" /\ ans = "False" => ~MarkFor(machine[NodeOf[sig]], sig)
  /\ DeclinedNotMarked

\* A mark that names no action is somebody else's.  The operator never takes one
\* off, and changes one only in a pass whose copy is from before it, where the
\* patch of MarkForRemediation, with no resource version, makes it a mark of the
\* operator's own (Release, Guard, MarkForRemediation).
ForeignMarkKept ==
  [][ByOperator => \A n \in Nodes :
       machine[n].marked /\ machine[n].action = "none" =>
         /\ machine'[n].marked
         /\ machine'[n] # machine[n] => ~view[n].marked]_vars

\* The operator never removes or changes a replacement mark (releaseRestarts,
\* Escalate, Guard).
ReplacementIsFinal ==
  [][ByOperator => \A n \in Nodes :
       MarkedAction(machine[n]) = "Remediate" => MarkedAction(machine'[n]) = "Remediate"]_vars

\* The operator never releases a Machine in a pass that found a request
\* pending that calls for its replacement (releaseRestarts: "once no signal
\* this operator acts on calls for a restart or a replacement of its node").
ReplacementHoldsMark ==
  [][ByOperator => \A n \in Nodes :
       MarkedAction(machine[n]) = "Restart" /\ ~machine'[n].marked
       => \A r \in asking : NodeOf[r] = n => ~(Want[r] = "Replace" /\ request[r] = "pending")]_vars

\* The operator never releases a Machine in a pass that read a condition
\* calling for its restart or replacement (releaseRestarts).
FaultHoldsMark ==
  [][ByOperator => \A n \in Nodes :
       MarkedAction(machine[n]) = "Restart" /\ ~machine'[n].marked /\ read.mode = "NodeCondition"
       => \A c \in read.nodes[n].faults : Want[c] = "Report"]_vars

\* A dry run writes nothing to either cluster, whatever it finds on the way:
\* no mark, escalation, answer or release (Actuator.DryRun, answer).
DryRunWritesNothing == [][dry /\ ByOperator => UNCHANGED <<machine, request>>]_vars

\* Every pending request is answered or closed in the end, or its Machine is
\* marked for a replacement or being deleted: neither a mark left by another
\* request nor the wait for the checks blocks it for good (releaseRestarts,
\* heldForChecks).
RequestsSettle ==
  \A r \in Requests :
    request[r] = "pending" ~>
      \/ request[r] # "pending"
      \/ MarkedAction(machine[NodeOf[r]]) = "Remediate" \/ machine[NodeOf[r]].deleting

\* A restart mark whose request is no longer pending does not stay: it is
\* released or becomes a replacement mark, also when the operator stopped
\* between the answer and the release (answer, releaseRestarts).
LeftoverMarksGo ==
  \A n \in Nodes, r \in Requests :
    MarkFor(machine[n], r) /\ request[r] # "pending" ~> ~MarkFor(machine[n], r)

=============================================================================
