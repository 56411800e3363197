--------------------------- MODULE LifecycleProofs ---------------------------
(* The ClusterReconciler implements Lifecycle, for any nodes, requests and
   bounds: every step of Remediator is a step of Lifecycle or changes nothing
   that others see. *)
EXTENDS RemediatorSafety, RemediatorLifecycle

-----------------------------------------------------------------------------
(* What others see of a Machine *)

LEMMA MarksMapped ==
  ASSUME NEW m \in Machines
  PROVE  /\ ~m.exists => MarkOf(m) = Promise!Gone
         /\ m.exists /\ ~m.marked => MarkOf(m) = Promise!Unmarked
         /\ m.exists /\ m.marked /\ m.action = "none" => MarkOf(m) = Promise!Foreign
         /\ m.exists /\ m.marked /\ m.action = "Restart" => MarkOf(m) = Promise!Restart(m.request)
         /\ m.exists /\ m.marked /\ m.action = "Remediate" => MarkOf(m) = Promise!Replace
BY DEF MarkOf, MarkedAction, Promise!Gone, Promise!Unmarked, Promise!Foreign, Promise!Restart,
       Promise!Replace

LEMMA MarkKinds ==
  /\ Promise!Gone.kind = "gone" /\ Promise!Unmarked.kind = "none" /\ Promise!Foreign.kind = "foreign"
  /\ Promise!Replace.kind = "replace"
  /\ \A r : Promise!Restart(r).kind = "restart" /\ Promise!Restart(r).request = r
BY DEF Promise!Gone, Promise!Unmarked, Promise!Foreign, Promise!Restart, Promise!Replace

\* A step that changes one Machine only.
LEMMA OneMarkChanges ==
  ASSUME NEW n \in Nodes, NEW m, MarkOf(machine'[n]) = m,
         \A k \in Nodes \ {n} : machine'[k] = machine[k],
         UNCHANGED <<request, node, raisedAt>>
  PROVE  Promise!MarkBecomes(n, m)
BY DEF Promise!MarkBecomes

LEMMA NothingSeen ==
  ASSUME \A n \in Nodes : MarkOf(machine'[n]) = MarkOf(machine[n]),
         \A n \in Nodes : node'[n].boot = node[n].boot,
         UNCHANGED <<request, raisedAt>>
  PROVE  UNCHANGED Promise!vars
BY DEF Promise!vars

-----------------------------------------------------------------------------
(* The steps of everyone else *)

LEMMA RequestsMapped ==
  ASSUME TypeOK, NEW r \in Requests, RequestRaised(r) \/ RequestClosed(r)
  PROVE  Promise!Next
<1>1. NodeOf[r] \in Nodes BY ConstantsAssumption DEF Signals
<1>2. UNCHANGED <<machine, node>> BY DEF RequestRaised, RequestClosed, apiVars, nodeVars
<1>3. CASE RequestRaised(r)
  <2>1. /\ request[r] = "unraised" /\ request' = [request EXCEPT ![r] = "pending"]
        /\ raisedAt' = [raisedAt EXCEPT ![r] = node[NodeOf[r]].boot]
    BY <1>3 DEF RequestRaised, StoreRequest
  <2>2. Promise!Raise(r) BY <1>1, <1>2, <2>1 DEF Promise!Raise
  <2>3. QED BY <2>2 DEF Promise!Next
<1>4. CASE RequestClosed(r)
  <2>1. /\ request[r] = "pending" /\ request' = [request EXCEPT ![r] = "closed"]
        /\ raisedAt' = raisedAt
    BY <1>4 DEF RequestClosed, StoreRequest
  <2>2. Promise!Close(r) BY <1>2, <2>1 DEF Promise!Close, Promise!Answer
  <2>3. QED BY <2>2 DEF Promise!Next
<1>5. QED BY <1>3, <1>4

LEMMA NodesMapped ==
  ASSUME TypeOK, NEW n \in Nodes, NEW rec, NodeChanges(n, rec),
         rec.boot \in {node[n].boot, node[n].boot + 1}
  PROVE  [Promise!Next]_Promise!vars
<1>1. UNCHANGED <<machine, request, raisedAt>> BY DEF NodeChanges, apiVars, reqVars
<1>2. \A k \in Nodes : node'[k] = IF k = n THEN rec ELSE node[k]
  BY DEF NodeChanges, StoreNode, TypeOK, ClustersTypeOK
<1>3. CASE rec.boot = node[n].boot BY <1>1, <1>2, <1>3, NothingSeen
<1>4. CASE rec.boot = node[n].boot + 1
  <2>1. Promise!Boot(n) BY <1>1, <1>2, <1>4 DEF Promise!Boot
  <2>2. QED BY <2>1 DEF Promise!Next
<1>5. QED BY <1>3, <1>4

LEMMA MachinesMapped ==
  ASSUME TypeOK, MarksInv, "unmark" \notin Disturbances, NEW n \in Nodes,
         \/ ChecksLook(n) \/ UserPauses(n) \/ UserOptsOut(n) \/ UserMarks(n) \/ UserUnmarks(n)
         \/ MachineDeleted(n) \/ MachineRemoved(n)
  PROVE  [Promise!Next]_Promise!vars
<1>1. machine[n] \in Machines BY DEF TypeOK, MachinesTypeOK
<1>2. ASSUME NEW m \in Machines, MachineChanges(n, m)
      PROVE  /\ \A k \in Nodes : machine'[k] = IF k = n THEN m ELSE machine[k]
             /\ UNCHANGED <<request, node, raisedAt>> /\ machine[n].exists /\ m # machine[n]
  BY <1>2 DEF MachineChanges, WriteBehind, StoreMachine, reqVars, nodeVars, TypeOK, MachinesTypeOK
<1>3. ASSUME NEW m \in Machines, MachineChanges(n, m), m.exists = machine[n].exists,
             m.marked = machine[n].marked, m.action = machine[n].action,
             m.request = machine[n].request
      PROVE  [Promise!Next]_Promise!vars
  <2>1. MarkOf(m) = MarkOf(machine[n]) BY <1>3 DEF MarkOf, MarkedAction
  <2>2. QED BY <1>2, <1>3, <2>1, NothingSeen
<1>4. CASE ChecksLook(n) BY <1>1, <1>3, <1>4 DEF ChecksLook, Machines
<1>5. CASE UserPauses(n) BY <1>1, <1>3, <1>5 DEF UserPauses, Machines
<1>6. CASE UserOptsOut(n) BY <1>1, <1>3, <1>6 DEF UserOptsOut, Machines
<1>7. CASE MachineDeleted(n) BY <1>1, <1>3, <1>7 DEF MachineDeleted, Machines
<1>8. CASE UserMarks(n)
  <2> DEFINE m == [machine[n] EXCEPT !.marked = TRUE]
  <2>1. MachineChanges(n, m) BY <1>8 DEF UserMarks
  <2>2. m \in Machines /\ m.exists = machine[n].exists /\ m.marked = TRUE
        /\ m.action = machine[n].action
    BY <1>1 DEF Machines
  <2>3. ~machine[n].marked BY <1>1, <1>2, <2>1, <2>2 DEF Machines
  <2>4. m.action = "none" BY <2>2, <2>3 DEF MarksInv, MarksWhole, Whole
  <2>5. machine[n].exists /\ machine'[n] = m BY <1>2, <2>1, <2>2
  <2>6. MarkOf(machine[n]) = Promise!Unmarked BY <1>1, <2>3, <2>5, MarksMapped
  <2>7. MarkOf(machine'[n]) = Promise!Foreign BY <2>2, <2>4, <2>5, MarksMapped
  <2>8. Promise!MarkBecomes(n, Promise!Foreign)
    BY <1>2, <2>1, <2>2, <2>7, OneMarkChanges
  <2>9. Promise!ForeignMark(n) BY <2>6, <2>8 DEF Promise!ForeignMark
  <2>10. QED BY <2>9 DEF Promise!Next
<1>9. CASE MachineRemoved(n)
  <2> DEFINE m == [machine[n] EXCEPT !.exists = FALSE]
  <2>1. MachineChanges(n, m) BY <1>9 DEF MachineRemoved
  <2>2. m \in Machines /\ m.exists = FALSE BY <1>1 DEF Machines
  <2>3. machine[n].exists /\ machine'[n] = m BY <1>2, <2>1, <2>2
  <2>4. MarkOf(machine[n]).kind # "gone" BY <2>3 DEF MarkOf
  <2>5. MarkOf(machine'[n]) = Promise!Gone BY <2>2, <2>3, MarksMapped
  <2>6. Promise!MarkBecomes(n, Promise!Gone) BY <1>2, <2>1, <2>2, <2>5, OneMarkChanges
  <2>7. Promise!Remove(n) BY <2>4, <2>6, MarkKinds DEF Promise!Remove
  <2>8. QED BY <2>7 DEF Promise!Next
<1>10. ~UserUnmarks(n) BY DEF UserUnmarks
<1>11. QED BY <1>4, <1>5, <1>6, <1>7, <1>8, <1>9, <1>10

LEMMA EnvironmentMapped ==
  ASSUME TypeOK, MarksInv, "unmark" \notin Disturbances, Environment
  PROVE  [Promise!Next]_Promise!vars
<1>1. CASE \E r \in Requests : RequestRaised(r) \/ RequestClosed(r) BY <1>1, RequestsMapped
<1>2. ASSUME NEW c \in Conditions, FaultChanges(c) PROVE [Promise!Next]_Promise!vars
  <2>1. NodeOf[c] \in Nodes BY ConstantsAssumption DEF Signals
  <2>2. node[NodeOf[c]] \in NodeRecords BY <2>1 DEF TypeOK, ClustersTypeOK
  <2> DEFINE rec == [node[NodeOf[c]] EXCEPT !.faults = IF c \in @ THEN @ \ {c} ELSE @ \cup {c}]
  <2>3. rec.boot = node[NodeOf[c]].boot BY <2>2 DEF NodeRecords
  <2>4. NodeChanges(NodeOf[c], rec) BY <1>2 DEF FaultChanges
  <2>5. QED BY <2>1, <2>3, <2>4, NodesMapped
<1>3. ASSUME NEW n \in Nodes,
             ProviderRestarts(n) \/ NodeRestarts(n) \/ NodeReady(n) \/ NodeRemoved(n)
      PROVE  [Promise!Next]_Promise!vars
  <2>1. node[n] \in NodeRecords BY DEF TypeOK, ClustersTypeOK
  <2>2. /\ Booted(node[n]).boot = node[n].boot + 1
        /\ [node[n] EXCEPT !.ready = TRUE].boot = node[n].boot
        /\ [node[n] EXCEPT !.exists = FALSE].boot = node[n].boot
    BY <2>1 DEF Booted, NodeRecords
  <2>3. QED BY <1>3, <2>2, NodesMapped DEF ProviderRestarts, NodeRestarts, NodeReady, NodeRemoved
<1>4. CASE \E n \in Nodes :
             \/ ChecksLook(n) \/ UserPauses(n) \/ UserOptsOut(n) \/ UserMarks(n) \/ UserUnmarks(n)
             \/ MachineDeleted(n) \/ MachineRemoved(n)
  BY <1>4, MachinesMapped
<1>5. CASE \/ FallbackChanges \/ ClusterChanges \/ ModeChanges \/ SyncRequests
           \/ \E n \in Nodes : ChecksChange(n) \/ GraceElapses(n) \/ SyncMachine(n) \/ SyncNode(n)
  <2>1. UNCHANGED <<machine, node, request, raisedAt>>
    BY <1>5 DEF FallbackChanges, ClusterChanges, ModeChanges, SyncRequests, ChecksChange,
                GraceElapses, SyncMachine, SyncNode, apiVars, nodeVars, reqVars
  <2>2. QED BY <2>1, NothingSeen
<1>6. QED BY <1>1, <1>2, <1>3, <1>4, <1>5 DEF Environment

-----------------------------------------------------------------------------
(* The steps of the operator *)

LEMMA AnswersMapped ==
  ASSUME TypeOK, CreditInv, DeclinedInv, Answer
  PROVE  [Promise!Next]_Promise!vars
<1>1. sig \in Requests /\ pc = "answer" /\ ans \in {"True", "False"} /\ NodeOf[sig] \in Nodes
  BY ConstantsAssumption DEF Answer, TypeOK, PassTypeOK, Signals
<1>2. UNCHANGED <<machine, node, raisedAt>> BY DEF Answer, apiVars, nodeVars
<1>3. CASE request' = request BY <1>2, <1>3, NothingSeen
<1>4. CASE request' # request
  <2>1. request[sig] = "pending" /\ request' = [request EXCEPT ![sig] = ans]
    BY <1>4 DEF Answer, Answers, StoreRequest
  <2>2. Promise!Answer(sig, ans) BY <1>2, <2>1 DEF Promise!Answer
  <2>3. CASE ans = "True"
    <3>1. raisedAt[sig] < KnownBoot(NodeOf[sig]) /\ KnownBoot(NodeOf[sig]) <= node[NodeOf[sig]].boot
      BY <1>1, <2>3 DEF CreditInv, SignalsRaised, BootsKnown
    <3>2. raisedAt[sig] \in Nat /\ node[NodeOf[sig]].boot \in Nat /\ KnownBoot(NodeOf[sig]) \in Nat
      BY <1>1, KnownBootType DEF TypeOK, ClustersTypeOK, NodeRecords
    <3>3. raisedAt[sig] < node[NodeOf[sig]].boot BY <3>1, <3>2
    <3>4. Promise!Confirm(sig) BY <1>1, <2>1, <2>2, <2>3, <3>3 DEF Promise!Confirm
    <3>5. QED BY <1>1, <3>4 DEF Promise!Next
  <2>4. CASE ans = "False"
    <3>1. ~MarkFor(machine[NodeOf[sig]], sig) BY <1>1, <2>4 DEF DeclinedInv
    <3>2. MarkOf(machine[NodeOf[sig]]) # Promise!Restart(sig)
      BY <3>1 DEF MarkFor, MarkOf, MarkedAction, Promise!Restart
    <3>3. Promise!Decline(sig) BY <1>1, <2>1, <2>2, <2>4, <3>2 DEF Promise!Decline
    <3>4. QED BY <1>1, <3>3 DEF Promise!Next
  <2>5. QED BY <1>1, <2>3, <2>4
<1>5. QED BY <1>3, <1>4

\* A mark asks for a restart or a replacement; a replacement asked for on top
\* of a restart that the operator does not know of escalates it.
LEMMA MarksAreAsked ==
  ASSUME OnlyRequests, "machines" \notin Lag, ReplacementsLast, TypeOK, PassInv, MarksInv,
         NEW n \in Nodes, MarksIt(n), machine'[n] \in Machines,
         \A m : MarkOf(machine'[n]) = m => Promise!MarkBecomes(n, m)
  PROVE  [Promise!Next]_Promise!vars
<1>1. /\ pc = "handle" /\ Machine.marked = FALSE /\ n = NodeOf[sig] /\ machine'[n] = MarkStored
      /\ machine[n].exists
  BY MarksUnmarked DEF MarksIt
<1>2. Machine.action = "none" /\ Machine.request = NoRequest
  BY <1>1 DEF Machine, MarksInv, MarksWhole, Whole, OnlyRequests
<1>3. machine[n] \in Machines BY DEF TypeOK, MachinesTypeOK
<1>4. \/ MarkOf(machine[n]) \in {Promise!Unmarked, Promise!Foreign}
      \/ MarkOf(machine[n]).kind = "restart"
      \/ MarkOf(machine[n]) = Promise!Replace /\ MarkedAction(machine[n]) = "Remediate"
  <2>1. machine[n].action \in {"none", "Restart", "Remediate"} BY <1>3 DEF Machines, Actions
  <2>2. QED BY <1>1, <1>3, <2>1, MarksMapped, MarkKinds DEF MarkedAction
<1>5. machine'[n].exists /\ machine'[n].marked
      /\ machine'[n].action = IF AsRestart THEN "Restart" ELSE "Remediate"
  BY <1>1, <1>2, MarkStoredFields
<1>6. CASE AsRestart
  <2>1. read.mode = "ExternalRemediationRequest" BY <1>1 DEF TypeOK, PassTypeOK, Reads, OnlyRequests
  <2>2. sig \in Requests /\ request[sig] \in {"pending", "closed"}
    BY <1>1, <2>1 DEF PassInv, RequestsInHand
  <2>3. machine'[n].request = sig BY <1>1, <1>2, <1>6, <2>2, MarkStoredFields
  <2>4. MarkOf(machine'[n]) = Promise!Restart(sig) BY <1>5, <1>6, <2>3, MarksMapped
  <2>5. MarkedAction(machine[n]) # "Remediate" BY <1>6, RestartsNotOnTop DEF OnlyRequests
  <2>6. MarkOf(machine[n]).kind \in {"none", "foreign", "restart"} BY <1>4, <2>5, MarkKinds
  <2>7. Promise!AskRestart(n, sig) BY <1>1, <2>2, <2>4, <2>6 DEF Promise!AskRestart
  <2>8. QED BY <2>2, <2>7 DEF Promise!Next
<1>7. CASE ~AsRestart
  <2>1. MarkOf(machine'[n]) = Promise!Replace BY <1>5, <1>7, MarksMapped
  <2>2. Promise!MarkBecomes(n, Promise!Replace) BY <2>1
  <2>3. CASE MarkOf(machine[n]) \in {Promise!Unmarked, Promise!Foreign}
    BY <2>2, <2>3 DEF Promise!AskReplace, Promise!Next
  <2>4. CASE MarkOf(machine[n]).kind = "restart"
    BY <2>2, <2>4 DEF Promise!Escalate, Promise!Next
  <2>5. CASE MarkOf(machine[n]) = Promise!Replace
    BY <2>2, <2>5 DEF Promise!MarkBecomes, Promise!vars
  <2>6. QED BY <1>4, <2>3, <2>4, <2>5
<1>8. QED BY <1>6, <1>7

LEMMA EscalationsMapped ==
  ASSUME TypeOK, PassInv, NEW n \in Nodes, EscalatesIt(n), machine'[n] \in Machines,
         \A m : MarkOf(machine'[n]) = m => Promise!MarkBecomes(n, m)
  PROVE  Promise!Next
<1>1. machine[n] \in Machines BY DEF TypeOK, MachinesTypeOK
<1>2. /\ machine[n].exists /\ machine[n].marked /\ machine[n].action = "Restart"
      /\ machine'[n].exists /\ machine'[n].marked /\ machine'[n].action = "Remediate"
  BY EscalatesRestarts DEF MarkedAction
<1>3. MarkOf(machine[n]).kind = "restart" BY <1>1, <1>2, MarksMapped, MarkKinds
<1>4. MarkOf(machine'[n]) = Promise!Replace BY <1>2, MarksMapped
<1>5. Promise!Escalate(n) BY <1>3, <1>4 DEF Promise!Escalate
<1>6. QED BY <1>5 DEF Promise!Next

LEMMA ReleasesMapped ==
  ASSUME TypeOK, PassInv, CreditInv, HoldInv, PendingInv, NEW n \in Nodes, ReleasesIt(n),
         machine'[n] \in Machines,
         \A m : MarkOf(machine'[n]) = m => Promise!MarkBecomes(n, m)
  PROVE  Promise!Next
<1>1. machine[n] \in Machines BY DEF TypeOK, MachinesTypeOK
<1>2. view[n] = machine[n] /\ machine[n].exists /\ machine[n].marked /\ machine[n].action = "Restart"
  BY ReleasesRestarts DEF MarkedAction
<1>3. machine[n].request \in Requests BY <1>2 DEF CreditInv, MarksCredited, Credited
<1>4. request[machine[n].request] # "pending" BY <1>3, PendingNotReleased
<1>5. MarkOf(machine[n]).kind = "restart" /\ MarkOf(machine[n]).request = machine[n].request
  BY <1>1, <1>2, MarksMapped, MarkKinds
<1>6. machine'[n].exists /\ ~machine'[n].marked
  <2>1. ASSUME NEW m \in Machines, m.exists PROVE Released(m).exists /\ ~Released(m).marked
    BY <2>1 DEF Released, Machines
  <2>2. machine'[n] = Released(machine[n]) BY <1>2 DEF ReleasesIt
  <2>3. QED BY <1>1, <1>2, <2>1, <2>2
<1>7. MarkOf(machine'[n]) = Promise!Unmarked BY <1>6, MarksMapped
<1>8. Promise!Release(n) BY <1>4, <1>5, <1>7 DEF Promise!Release
<1>9. QED BY <1>8 DEF Promise!Next

LEMMA OperatorMapped ==
  ASSUME OnlyRequests, "machines" \notin Lag, ReplacementsLast,
         TypeOK, TypeOK', PassInv, MarksInv, CreditInv, HoldInv, PendingInv, DeclinedInv, Pass \/ Crash
  PROVE  [Promise!Next]_Promise!vars
<1>1. UNCHANGED <<node, raisedAt>> BY OperatorSteps DEF nodeVars
<1>2. CASE Answer BY <1>2, AnswersMapped
<1>3. CASE ~Answer
  <2>1. request' = request
    BY <1>3 DEF Pass, Begin, PassOver, Take, PassBy, Unreadable, Handle, Reported, RestartOver, Escalate,
       Skipped, ReportedUnavailable, HeldBack, Mark, Conclude, ReleaseAnswered, Reread, StartRelease,
       ReleaseRestart, Finish, Crash, EndPass, reqVars
  <2>2. CASE \A n \in Nodes : machine'[n] = machine[n]
    BY <1>1, <2>1, <2>2, NothingSeen
  <2>3. ASSUME NEW n \in Nodes, machine'[n] # machine[n] PROVE [Promise!Next]_Promise!vars
    <3>1. Wrote(n) /\ (MarksIt(n) \/ EscalatesIt(n) \/ ReleasesIt(n)) BY <2>3, OperatorWrites
    <3>2. \A k \in Nodes \ {n} : machine'[k] = machine[k] BY <3>1 DEF Wrote
    <3>3. \A m : MarkOf(machine'[n]) = m => Promise!MarkBecomes(n, m)
      BY <1>1, <2>1, <3>2, OneMarkChanges
    <3>4. machine'[n] \in Machines BY DEF TypeOK, MachinesTypeOK
    <3>5. QED BY <3>1, <3>3, <3>4, MarksAreAsked, EscalationsMapped, ReleasesMapped
  <2>4. QED BY <2>2, <2>3
<1>4. QED BY <1>2, <1>3

-----------------------------------------------------------------------------

\* The ClusterReconciler implements Lifecycle: others never see it ask for a
\* restart of a node nobody waits for, confirm one that did not happen, decline
\* one that is under way, release a mark somebody waits for, or touch a
\* replacement.  It holds for any number of nodes, requests, boots and crashes,
\* however far the cached requests lag and whichever replies are lost; a lost
\* reply to a mark only where the restarts of a node come before its
\* replacements.
THEOREM RemediatorImplementsLifecycle ==
  ASSUME OnlyRequests, SignalsHold, ReplacementsLast, "machines" \notin Lag
  PROVE  Spec => ImplementsLifecycle
<1>1. Modes = {"ExternalRemediationRequest"} /\ "nodes" \notin Lag /\ "unmark" \notin Disturbances
  BY DEF OnlyRequests
<1>2. Init => Promise!Init
  <2> SUFFICES ASSUME Init PROVE Promise!Init OBVIOUS
  <2>1. machine = [n \in Nodes |-> NewMachine(n)] BY DEF Init, OnlyRequests
  <2>2. \A n \in Nodes : MarkOf(NewMachine(n)) = Promise!Unmarked
    BY DEF NewMachine, Unread, MarkOf, MarkedAction, Promise!Unmarked
  <2>3. \A n \in Nodes : node[n].boot = 1 BY DEF Init
  <2>4. QED BY <2>1, <2>2, <2>3 DEF Init, Promise!Init
<1>3. /\ TypeOK /\ TypeOK' /\ PassInv /\ MarksInv /\ CreditInv /\ HoldInv /\ PendingInv /\ DeclinedInv
      /\ [Next]_vars
      => [Promise!Next]_Promise!vars
  <2> SUFFICES ASSUME TypeOK, TypeOK', PassInv, MarksInv, CreditInv, HoldInv, PendingInv, DeclinedInv,
                      [Next]_vars
               PROVE  [Promise!Next]_Promise!vars
    OBVIOUS
  <2>1. CASE Pass \/ Crash BY <2>1, OperatorMapped
  <2>2. CASE Environment BY <1>1, <2>2, EnvironmentMapped
  <2>3. CASE UNCHANGED vars
    <3>1. UNCHANGED <<machine, node, request, raisedAt>>
      BY <2>3 DEF vars, apiVars, nodeVars, reqVars
    <3>2. QED BY <3>1, NothingSeen
  <2>4. QED BY <2>1, <2>2, <2>3 DEF Next
<1>4. Spec => []HoldInv /\ []PendingInv /\ []DeclinedInv /\ []CreditInv
  BY <1>1, SignalsHoldTheirMachines, PendingAreMet, DeclinesAreSafe, MarksAreCredited, PTL
<1>5. QED
  BY <1>2, <1>3, <1>4, TypeCorrect, PassesKnowWhatTheyWrite, OwnMarksAreKnown, PTL
     DEF Spec, ImplementsLifecycle, Promise!Spec

=============================================================================
