-------------------------- MODULE RemediatorProofs --------------------------
(* Theorems about Remediator, for every value of its constants. *)
EXTENDS Remediator, TLAPS

-----------------------------------------------------------------------------
(* The patches of Capi keep a Machine a Machine *)

LEMMA UnreadType == Unread \in Machines
BY DEF Unread, Machines, Actions

LEMMA MarkedType ==
  ASSUME NEW m \in Machines, NEW action \in Actions, NEW boot \in Nat,
         NEW request_ \in Requests \cup {NoRequest}
  PROVE  Marked(m, action, boot, request_) \in Machines
BY DEF Marked, Machines

LEMMA EscalatedType ==
  ASSUME NEW m \in Machines PROVE Escalated(m) \in Machines
BY DEF Escalated, Machines, Actions

LEMMA ReleasedType ==
  ASSUME NEW m \in Machines PROVE Released(m) \in Machines
BY DEF Released, Machines, Actions

LEMMA MergePatchType ==
  ASSUME NEW old \in Machines, NEW new \in Machines, NEW current \in Machines
  PROVE  MergePatch(old, new, current) \in Machines
BY DEF MergePatch, Machines

LEMMA RestartMarkOfType ==
  ASSUME NEW m \in Machines PROVE RestartMarkOf(m) \in RestartMarks
BY DEF RestartMarkOf, MarkedAction, RestartMarks, Machines, Actions


-----------------------------------------------------------------------------
(* Types of what the steps store *)

LEMMA MarkWantedType ==
  ASSUME TypeOK, pc = "handle" PROVE MarkWanted \in Machines
<1>1. sig \in Signals /\ read \in Reads BY DEF TypeOK, PassTypeOK
<1>2. NodeOf[sig] \in Nodes BY <1>1, ConstantsAssumption
<1>3. Machine \in Machines BY <1>2 DEF Machine, TypeOK, MachinesTypeOK
<1>4. Node.boot \in Nat BY <1>1, <1>2 DEF Node, Reads, NodeRecords
<1>5. RequestOf(sig) \in Requests \cup {NoRequest} BY DEF RequestOf
<1>6. (IF Node.exists THEN Node.boot ELSE 0) \in Nat BY <1>4
<1>7. "Restart" \in Actions /\ "Remediate" \in Actions /\ 0 \in Nat BY DEF Actions
<1>8. QED BY <1>3, <1>5, <1>6, <1>7, MarkedType DEF MarkWanted

LEMMA MarkStoredType ==
  ASSUME TypeOK, pc = "handle" PROVE MarkStored \in Machines
<1>1. NodeOf[sig] \in Nodes BY ConstantsAssumption DEF TypeOK, PassTypeOK
<1>2. Machine \in Machines /\ machine[NodeOf[sig]] \in Machines
  BY <1>1 DEF Machine, TypeOK, MachinesTypeOK
<1>3. QED BY <1>2, MarkWantedType, MergePatchType DEF MarkStored

LEMMA CallType ==
  ASSUME TypeOK, pc = "handle" PROVE Call \in Observations /\ NoCall \in Observations
<1>1. sig \in Signals BY DEF TypeOK, PassTypeOK
<1>2. Decided \in Decisions BY <1>1, ConstantsAssumption DEF Decided, Decisions
<1>3. QED BY <1>2 DEF Call, NoCall, Observations, RequestOf, Decisions

LEMMA PatchType ==
  ASSUME MachinesTypeOK, NEW n \in Nodes, NEW m \in Machines,
         PatchMachine(n, m) \/ WriteBehind(n, m)
  PROVE  MachinesTypeOK'
<1>1. machine' \in [Nodes -> Machines] /\ mcache' \in [Nodes -> Machines] /\ mfresh' \in [Nodes -> BOOLEAN]
  BY DEF MachinesTypeOK, PatchMachine, WriteBehind, StoreMachine
<1>2. view' \in [Nodes -> Machines] /\ vfresh' \in [Nodes -> BOOLEAN]
  BY DEF MachinesTypeOK, PatchMachine, WriteBehind
<1>3. QED BY <1>1, <1>2 DEF MachinesTypeOK

LEMMA ReleaseType ==
  ASSUME MachinesTypeOK, NEW n \in Nodes, Release(n)
  PROVE  MachinesTypeOK'
<1>1. Released(view[n]) \in Machines BY ReleasedType DEF MachinesTypeOK
<1>2. CASE PatchMachine(n, Released(view[n])) \/ WriteBehind(n, Released(view[n]))
  BY <1>1, <1>2, PatchType
<1>3. CASE UNCHANGED <<apiVars, viewVars>>
  BY <1>3 DEF MachinesTypeOK, apiVars, viewVars
<1>4. QED BY <1>2, <1>3 DEF Release

LEMMA ConcludeType ==
  ASSUME TypeOK, pc = "handle", NEW obs \in Observations, NEW answer \in {"none", "True", "False"},
         answer # "none" => sig \in Requests, Conclude(obs, answer),
         wait' \in [Nodes -> {"none", "waiting", "due", "over"}]
  PROVE  ClustersTypeOK' /\ PassTypeOK'
<1>1. ClustersTypeOK'
  BY DEF TypeOK, ClustersTypeOK, Conclude, hubVars, nodeVars, reqVars
<1>2. observed' \in [Keys -> Observations]
  BY DEF TypeOK, PassTypeOK, Conclude
<1>3. UNCHANGED <<read, passVars, tryVars, left, crashes>> /\ ans' = answer
      /\ pc' = IF answer = "none" THEN "signals" ELSE "answer"
  BY DEF Conclude
<1>4. PassTypeOK'
  BY <1>2, <1>3 DEF TypeOK, PassTypeOK, PCs, passVars, tryVars
<1>5. QED BY <1>1, <1>4

LEMMA EndPassType ==
  ASSUME TypeOK, EndPass, wait' \in [Nodes -> {"none", "waiting", "due", "over"}],
         crashes' \in 0..MaxCrashes
  PROVE  TypeOK'
<1>1. MachinesTypeOK'
  BY UnreadType DEF EndPass, TypeOK, MachinesTypeOK, apiVars
<1>2. ClustersTypeOK'
  BY DEF EndPass, TypeOK, ClustersTypeOK, hubVars, nodeVars, reqVars
<1>3. NoMark \in RestartMarks /\ NoCall \in Observations
  BY UnreadType, RestartMarkOfType DEF NoMark, NoCall, Observations
<1>4. observed' \in [Keys -> Observations] /\ answered' \in RestartMarks
  BY <1>3 DEF EndPass
<1>5. tries' \in 0..ReleaseTries
  BY ConstantsAssumption DEF EndPass
<1>6. /\ pc' = "idle" /\ read' = NoRead /\ todo' = {} /\ sig' = NoSig /\ asking' = {}
      /\ unreadable' = FALSE /\ ans' = "none" /\ left' = {}
  BY DEF EndPass
<1>7. PassTypeOK'
  BY <1>4, <1>5, <1>6 DEF PassTypeOK, PCs
<1>8. QED BY <1>1, <1>2, <1>7 DEF TypeOK

LEMMA NoteWaitType ==
  ASSUME TypeOK, pc = "handle", NoteWait
  PROVE  wait' \in [Nodes -> {"none", "waiting", "due", "over"}]
<1>1. NodeOf[sig] \in Nodes BY ConstantsAssumption DEF TypeOK, PassTypeOK
<1>2. QED BY <1>1 DEF NoteWait, TypeOK, PassTypeOK

-----------------------------------------------------------------------------
(* Every step keeps the types *)

LEMMA ReadPreservesType ==
  ASSUME TypeOK,
         \/ Begin \/ PassOver \/ StartRelease
         \/ \E s \in todo : Take(s) \/ PassBy(s) \/ Unreadable(s)
  PROVE  TypeOK'
<1> USE DEF TypeOK
<1>1. CASE Begin
  <2>1. MachinesTypeOK' BY <1>1 DEF Begin, MachinesTypeOK, apiVars
  <2>2. ClustersTypeOK' BY <1>1 DEF Begin, ClustersTypeOK, hubVars, nodeVars, reqVars
  <2>3. Collected \subseteq Signals BY DEF Collected, PendingRequests, RaisedConditions, ClustersTypeOK, Signals
  <2>4. read' \in Reads BY <1>1 DEF Begin, ClustersTypeOK, Reads
  <2>5. PassTypeOK' BY <1>1, <2>3, <2>4 DEF Begin, PassTypeOK, PCs, tryVars
  <2>6. QED BY <2>1, <2>2, <2>5
<1>2. CASE PassOver
  <2>1. MachinesTypeOK' BY <1>2 DEF PassOver, MachinesTypeOK, apiVars, viewVars
  <2>2. ClustersTypeOK' BY <1>2 DEF PassOver, ClustersTypeOK, hubVars, nodeVars, reqVars
  <2>3. PassTypeOK' BY <1>2 DEF PassOver, PassTypeOK, passVars, tryVars
  <2>4. QED BY <2>1, <2>2, <2>3
<1>3. CASE StartRelease
  <2>1. MachinesTypeOK' BY <1>3 DEF StartRelease, MachinesTypeOK, apiVars, viewVars
  <2>2. ClustersTypeOK' BY <1>3 DEF StartRelease, ClustersTypeOK, hubVars, nodeVars, reqVars
  <2>3. left' \subseteq Nodes BY <1>3 DEF StartRelease
  <2>4. PassTypeOK' BY <1>3, <2>3 DEF StartRelease, PassTypeOK, PCs, passVars, tryVars
  <2>5. QED BY <2>1, <2>2, <2>4
<1>4. ASSUME NEW s \in todo, Take(s) PROVE TypeOK'
  <2>1. MachinesTypeOK' BY <1>4 DEF Take, MachinesTypeOK, apiVars, viewVars
  <2>2. ClustersTypeOK' BY <1>4 DEF Take, ClustersTypeOK, hubVars, nodeVars, reqVars
  <2>3. PassTypeOK' BY <1>4 DEF Take, PassTypeOK, PCs, tryVars
  <2>4. QED BY <2>1, <2>2, <2>3
<1>5. ASSUME NEW s \in todo, PassBy(s) \/ Unreadable(s) PROVE TypeOK'
  <2>1. MachinesTypeOK' BY <1>5 DEF PassBy, Unreadable, MachinesTypeOK, apiVars, viewVars
  <2>2. ClustersTypeOK' BY <1>5 DEF PassBy, Unreadable, ClustersTypeOK, hubVars, nodeVars, reqVars
  <2>3. PassTypeOK' BY <1>5 DEF PassBy, Unreadable, PassTypeOK, PCs, tryVars
  <2>4. QED BY <2>1, <2>2, <2>3
<1>6. QED BY <1>1, <1>2, <1>3, <1>4, <1>5

LEMMA HandlePreservesType ==
  ASSUME TypeOK, Handle
  PROVE  TypeOK'
<1>1. pc = "handle"
  BY DEF Handle, Reported, RestartOver, Escalate, Skipped, ReportedUnavailable, HeldBack, Mark,
         Proceeds, Remediates
<1>2. NodeOf[sig] \in Nodes BY <1>1, ConstantsAssumption DEF TypeOK, PassTypeOK
<1>3. Machine \in Machines BY <1>2 DEF Machine, TypeOK, MachinesTypeOK
<1>4. wait \in [Nodes -> {"none", "waiting", "due", "over"}] BY DEF TypeOK, PassTypeOK
<1>5. Decline \in {"none", "True", "False"} /\ (Decline # "none" => sig \in Requests)
  BY DEF Decline
<1>6. ASSUME NEW obs \in {Call, NoCall}, NEW answer \in {"none", Decline}, Conclude(obs, answer),
             UNCHANGED wait \/ NoteWait, MachinesTypeOK'
      PROVE  TypeOK'
  <2>1. obs \in Observations BY <1>1, CallType
  <2>2. wait' \in [Nodes -> {"none", "waiting", "due", "over"}]
    BY <1>1, <1>4, <1>6, NoteWaitType
  <2>3. answer \in {"none", "True", "False"} /\ (answer # "none" => sig \in Requests) BY <1>5
  <2>4. QED BY <1>1, <1>6, <2>1, <2>2, <2>3, ConcludeType DEF TypeOK
<1>7. ASSUME UNCHANGED <<apiVars, viewVars>> PROVE MachinesTypeOK'
  BY <1>7 DEF TypeOK, MachinesTypeOK, apiVars, viewVars
<1>8. CASE Reported
  BY <1>6, <1>7, <1>8 DEF Reported
<1>9. CASE RestartOver
  <2>1. sig \in Requests BY <1>9 DEF RestartOver, Complete
  <2>2. QED BY <1>1, <1>4, <1>7, <1>9, <2>1, CallType, ConcludeType DEF RestartOver, TypeOK
<1>10. CASE Escalate
  <2>1. Escalated(Machine) \in Machines BY <1>3, EscalatedType
  <2>2. MachinesTypeOK'
    BY <1>2, <1>7, <1>10, <2>1, PatchType DEF Escalate, TypeOK
  <2>3. QED BY <1>6, <1>10, <2>2 DEF Escalate
<1>11. CASE Skipped
  BY <1>6, <1>7, <1>11 DEF Skipped
<1>12. CASE ReportedUnavailable
  BY <1>6, <1>7, <1>12 DEF ReportedUnavailable
<1>13. CASE HeldBack
  BY <1>6, <1>7, <1>13 DEF HeldBack
<1>14. CASE Mark
  <2>1. MarkStored \in Machines BY <1>1, MarkStoredType
  <2>2. MachinesTypeOK'
    BY <1>2, <1>7, <1>14, <2>1, PatchType DEF Mark, TypeOK
  <2>3. QED BY <1>6, <1>14, <2>2 DEF Mark
<1>15. QED
  BY <1>8, <1>9, <1>10, <1>11, <1>12, <1>13, <1>14 DEF Handle

LEMMA AnswerPreservesType ==
  ASSUME TypeOK, Answer \/ ReleaseAnswered \/ Reread
  PROVE  TypeOK'
<1> USE DEF TypeOK
<1>1. sig \in Signals
  BY DEF PassTypeOK, Answer, ReleaseAnswered, Reread
<1>2. NodeOf[sig] \in Nodes BY <1>1, ConstantsAssumption
<1>3. NoMark \in RestartMarks /\ 0 \in 0..ReleaseTries /\ ReleaseTries \in 0..ReleaseTries
  BY UnreadType, RestartMarkOfType, ConstantsAssumption DEF NoMark
<1>4. CASE Answer
  <2>1. MachinesTypeOK' BY <1>4 DEF Answer, MachinesTypeOK, apiVars, viewVars
  <2>2. sig \in Requests /\ ans \in RequestStates
    BY <1>4 DEF Answer, PassTypeOK, RequestStates
  <2>3. request' \in [Requests -> RequestStates] /\ rcache' \subseteq Requests
    BY <1>4, <2>2 DEF Answer, StoreRequest, ClustersTypeOK
  <2>4. ClustersTypeOK'
    BY <1>4, <2>3 DEF Answer, ClustersTypeOK, hubVars, nodeVars
  <2>5. RestartMarkOf(Machine) \in RestartMarks
    BY <1>2, RestartMarkOfType DEF Machine, MachinesTypeOK
  <2>6. answered' \in RestartMarks /\ tries' \in 0..ReleaseTries
    BY <1>3, <1>4, <2>5 DEF Answer, tryVars, PassTypeOK
  <2>7. PassTypeOK'
    BY <1>1, <1>4, <2>6 DEF Answer, PassTypeOK, PCs, passVars
  <2>8. QED BY <2>1, <2>4, <2>7
<1>5. CASE ReleaseAnswered
  <2>1. MachinesTypeOK'
    BY <1>2, <1>5, ReleaseType DEF ReleaseAnswered, MachinesTypeOK, apiVars, viewVars
  <2>2. ClustersTypeOK' BY <1>5 DEF ReleaseAnswered, ClustersTypeOK, hubVars, nodeVars, reqVars
  <2>3. answered' \in RestartMarks BY <1>3, <1>5 DEF ReleaseAnswered, PassTypeOK
  <2>4. tries' \in 0..ReleaseTries
    BY <1>3, <1>5, ConstantsAssumption DEF ReleaseAnswered, Conflicts, PassTypeOK
  <2>5. PassTypeOK'
    BY <1>1, <1>5, <2>3, <2>4 DEF ReleaseAnswered, PassTypeOK, PCs, passVars
  <2>6. QED BY <2>1, <2>2, <2>5
<1>6. CASE Reread
  <2>1. MachinesTypeOK'
    BY <1>2, <1>6 DEF Reread, MachinesTypeOK, apiVars, viewVars
  <2>2. ClustersTypeOK' BY <1>6 DEF Reread, ClustersTypeOK, hubVars, nodeVars, reqVars
  <2>3. answered' \in RestartMarks /\ tries' \in 0..ReleaseTries
    BY <1>3, <1>6 DEF Reread, PassTypeOK, tryVars
  <2>4. PassTypeOK'
    BY <1>1, <1>6, <2>3 DEF Reread, PassTypeOK, PCs, passVars
  <2>5. QED BY <2>1, <2>2, <2>4
<1>7. QED BY <1>4, <1>5, <1>6

LEMMA EndPreservesType ==
  ASSUME TypeOK, Finish \/ Crash \/ (\E n \in left : ReleaseRestart(n))
  PROVE  TypeOK'
<1>1. CASE Finish
  <2>1. wait' \in [Nodes -> {"none", "waiting", "due", "over"}]
    BY <1>1 DEF Finish, TypeOK, PassTypeOK
  <2>2. EndPass /\ crashes' \in 0..MaxCrashes BY <1>1 DEF Finish, TypeOK, PassTypeOK
  <2>3. QED BY <2>1, <2>2, EndPassType
<1>2. CASE Crash
  <2>1. wait' \in [Nodes -> {"none", "waiting", "due", "over"}] BY <1>2 DEF Crash
  <2>2. EndPass /\ crashes' \in 0..MaxCrashes
    BY <1>2, ConstantsAssumption DEF Crash, TypeOK, PassTypeOK
  <2>3. QED BY <2>1, <2>2, EndPassType
<1>3. ASSUME NEW n \in left, ReleaseRestart(n) PROVE TypeOK'
  <2>1. n \in Nodes BY DEF TypeOK, PassTypeOK
  <2>2. MachinesTypeOK'
    BY <1>3, <2>1, ReleaseType DEF ReleaseRestart, TypeOK, MachinesTypeOK, apiVars, viewVars
  <2>3. ClustersTypeOK'
    BY <1>3 DEF ReleaseRestart, TypeOK, ClustersTypeOK, hubVars, nodeVars, reqVars
  <2>4. PassTypeOK'
    BY <1>3 DEF ReleaseRestart, TypeOK, PassTypeOK, passVars, tryVars
  <2>5. QED BY <2>2, <2>3, <2>4 DEF TypeOK
<1>4. QED BY <1>1, <1>2, <1>3

LEMMA EnvironmentPreservesType ==
  ASSUME TypeOK, Environment
  PROVE  TypeOK'
<1> USE DEF TypeOK
<1>1. ASSUME EnvFrame, wait' \in [Nodes -> {"none", "waiting", "due", "over"}] PROVE PassTypeOK'
  BY <1>1 DEF EnvFrame, PassTypeOK, passVars, tryVars
<1>2. wait \in [Nodes -> {"none", "waiting", "due", "over"}] BY DEF PassTypeOK
<1>3. ASSUME UNCHANGED <<apiVars, viewVars>> PROVE MachinesTypeOK'
  BY <1>3 DEF MachinesTypeOK, apiVars, viewVars
<1>4. ASSUME NEW n \in Nodes, NEW rec \in NodeRecords, NodeChanges(n, rec) PROVE TypeOK'
  <2>1. node' \in [Nodes -> NodeRecords] /\ ncache' \in [Nodes -> NodeRecords]
    BY <1>4 DEF NodeChanges, StoreNode, ClustersTypeOK
  <2>2. ClustersTypeOK' BY <1>4, <2>1 DEF NodeChanges, ClustersTypeOK, hubVars, reqVars
  <2>3. QED BY <1>1, <1>2, <1>3, <1>4, <2>2 DEF NodeChanges
<1>5. ASSUME NEW n \in Nodes, NEW m \in Machines, MachineChanges(n, m) PROVE TypeOK'
  <2>1. MachinesTypeOK' BY <1>5, PatchType DEF MachineChanges
  <2>2. ClustersTypeOK' BY <1>5 DEF MachineChanges, ClustersTypeOK, hubVars, nodeVars, reqVars
  <2>3. QED BY <1>1, <1>2, <1>5, <2>1, <2>2 DEF MachineChanges
<1>6. ASSUME NEW r \in Requests, RequestRaised(r) \/ RequestClosed(r) PROVE TypeOK'
  <2>1. request' \in [Requests -> RequestStates] /\ rcache' \subseteq Requests
    BY <1>6 DEF RequestRaised, RequestClosed, StoreRequest, ClustersTypeOK, RequestStates
  <2>2. raisedAt' \in [Requests -> Nat]
    <3>1. NodeOf[r] \in Nodes BY ConstantsAssumption DEF Signals
    <3>2. node[NodeOf[r]].boot \in Nat BY <3>1 DEF ClustersTypeOK, NodeRecords
    <3>3. QED BY <1>6, <3>2 DEF RequestRaised, RequestClosed, ClustersTypeOK
  <2>3. ClustersTypeOK'
    BY <1>6, <2>1, <2>2 DEF RequestRaised, RequestClosed, ClustersTypeOK, hubVars, nodeVars
  <2>4. QED BY <1>1, <1>2, <1>3, <1>6, <2>3 DEF RequestRaised, RequestClosed
<1>7. ASSUME NEW c \in Conditions, FaultChanges(c) PROVE TypeOK'
  <2>1. NodeOf[c] \in Nodes BY ConstantsAssumption DEF Signals
  <2>2. [node[NodeOf[c]] EXCEPT !.faults = IF c \in @ THEN @ \ {c} ELSE @ \cup {c}] \in NodeRecords
    <3>1. node[NodeOf[c]] \in NodeRecords BY <2>1 DEF ClustersTypeOK
    <3>2. ASSUME NEW rec \in NodeRecords, NEW faults \in SUBSET Conditions
          PROVE  [rec EXCEPT !.faults = faults] \in NodeRecords
      BY <3>2 DEF NodeRecords
    <3>3. node[NodeOf[c]].faults \in SUBSET Conditions BY <3>1 DEF NodeRecords
    <3>4. (IF c \in node[NodeOf[c]].faults THEN node[NodeOf[c]].faults \ {c}
           ELSE node[NodeOf[c]].faults \cup {c}) \in SUBSET Conditions
      BY <3>3
    <3>5. QED BY <3>1, <3>2, <3>4
  <2>3. QED BY <1>4, <1>7, <2>1, <2>2 DEF FaultChanges
<1>8. ASSUME NEW n \in Nodes,
             \/ ProviderRestarts(n) \/ NodeRestarts(n) \/ NodeReady(n) \/ NodeRemoved(n)
      PROVE  TypeOK'
  <2>1. node[n] \in NodeRecords BY DEF ClustersTypeOK
  <2>a. Booted(node[n]) \in NodeRecords
    <3>1. node[n].boot + 1 \in Nat BY <2>1 DEF NodeRecords
    <3>2. QED BY <2>1, <3>1 DEF Booted, NodeRecords
  <2>2. /\ [node[n] EXCEPT !.ready = TRUE] \in NodeRecords
        /\ [node[n] EXCEPT !.exists = FALSE] \in NodeRecords
    BY <2>1 DEF NodeRecords
  <2>3. QED BY <1>4, <1>8, <2>a, <2>2 DEF ProviderRestarts, NodeRestarts, NodeReady, NodeRemoved
<1>9. ASSUME NEW n \in Nodes,
             \/ ChecksLook(n) \/ UserPauses(n) \/ UserOptsOut(n) \/ UserMarks(n) \/ UserUnmarks(n)
             \/ MachineDeleted(n) \/ MachineRemoved(n)
      PROVE  TypeOK'
  <2>1. machine[n] \in Machines BY DEF MachinesTypeOK
  <2>2. /\ [machine[n] EXCEPT !.shown = machine[n].marked] \in Machines
        /\ [machine[n] EXCEPT !.paused = ~@] \in Machines
        /\ [machine[n] EXCEPT !.optedOut = ~@] \in Machines
    BY <2>1 DEF Machines
  <2>3. /\ [machine[n] EXCEPT !.marked = TRUE] \in Machines
        /\ [machine[n] EXCEPT !.marked = FALSE] \in Machines
        /\ [machine[n] EXCEPT !.deleting = TRUE] \in Machines
        /\ [machine[n] EXCEPT !.exists = FALSE] \in Machines
    BY <2>1 DEF Machines
  <2>4. QED
    BY <1>5, <1>9, <2>2, <2>3 DEF ChecksLook, UserPauses, UserOptsOut, UserMarks, UserUnmarks,
                                  MachineDeleted, MachineRemoved
<1>10. ASSUME NEW n \in Nodes, ChecksChange(n) PROVE TypeOK'
  <2>1. ClustersTypeOK' BY <1>10 DEF ChecksChange, ClustersTypeOK, nodeVars, reqVars
  <2>2. QED BY <1>1, <1>2, <1>3, <1>10, <2>1 DEF ChecksChange
<1>11. ASSUME NEW n \in Nodes, SyncMachine(n) PROVE TypeOK'
  <2>1. MachinesTypeOK' BY <1>11 DEF SyncMachine, MachinesTypeOK, viewVars
  <2>2. ClustersTypeOK' BY <1>11 DEF SyncMachine, ClustersTypeOK, hubVars, nodeVars, reqVars
  <2>3. QED BY <1>1, <1>2, <1>11, <2>1, <2>2 DEF SyncMachine
<1>12. ASSUME NEW n \in Nodes, SyncNode(n) PROVE TypeOK'
  <2>1. ClustersTypeOK' BY <1>12 DEF SyncNode, ClustersTypeOK, hubVars, reqVars
  <2>2. QED BY <1>1, <1>2, <1>3, <1>12, <2>1 DEF SyncNode
<1>13. ASSUME NEW n \in Nodes, GraceElapses(n) PROVE TypeOK'
  <2>1. ClustersTypeOK' BY <1>13 DEF GraceElapses, ClustersTypeOK, hubVars, nodeVars, reqVars
  <2>2. wait' \in [Nodes -> {"none", "waiting", "due", "over"}] BY <1>2, <1>13 DEF GraceElapses
  <2>3. QED BY <1>1, <1>3, <1>13, <2>1, <2>2 DEF GraceElapses
<1>14. CASE FallbackChanges \/ ClusterChanges \/ ModeChanges \/ SyncRequests
  <2>1. ClustersTypeOK'
    BY <1>14 DEF FallbackChanges, ClusterChanges, ModeChanges, SyncRequests, ClustersTypeOK,
                 hubVars, nodeVars, reqVars
  <2>2. QED BY <1>1, <1>2, <1>3, <1>14, <2>1
            DEF FallbackChanges, ClusterChanges, ModeChanges, SyncRequests
<1>15. QED
  BY <1>6, <1>7, <1>8, <1>9, <1>10, <1>11, <1>12, <1>13, <1>14 DEF Environment

LEMMA TypeKept ==
  ASSUME TypeOK, [Next]_vars
  PROVE  TypeOK'
<1>1. CASE Pass
  BY <1>1, ReadPreservesType, HandlePreservesType, AnswerPreservesType, EndPreservesType DEF Pass
<1>2. CASE Crash BY <1>2, EndPreservesType
<1>3. CASE Environment BY <1>3, EnvironmentPreservesType
<1>4. CASE UNCHANGED vars
  BY <1>4 DEF vars, apiVars, hubVars, nodeVars, reqVars, viewVars, passVars, tryVars,
              TypeOK, MachinesTypeOK, ClustersTypeOK, PassTypeOK
<1>5. QED BY <1>1, <1>2, <1>3, <1>4 DEF Next

LEMMA TypeInit ==
  ASSUME Init PROVE TypeOK
<1>1. \A n \in Nodes : NewMachine(n) \in Machines
  <2>1. ASSUME NEW b \in BOOLEAN
        PROVE  [Unread EXCEPT !.exists = TRUE, !.controlPlane = b] \in Machines
    BY UnreadType DEF Machines
  <2>2. \A n \in Nodes : (n \in ControlPlane) \in BOOLEAN OBVIOUS
  <2>3. QED BY <2>1, <2>2, Zenon DEF NewMachine
<1>2. \A n \in Nodes, action \in Actions : EarlierMark(NewMachine(n), action) \in Machines
  BY <1>1, MarkedType DEF EarlierMark
<1>3. machine \in [Nodes -> Machines]
  <2>1. CASE machine = [n \in Nodes |-> NewMachine(n)] BY <1>1, <2>1
  <2>2. ASSUME NEW action \in Inherited,
               machine = [n \in Nodes |-> EarlierMark(NewMachine(n), action)]
        PROVE  machine \in [Nodes -> Machines]
    <3>1. action \in Actions BY ConstantsAssumption
    <3>2. QED BY <1>2, <2>2, <3>1
  <2>3. QED BY <2>1, <2>2 DEF Init
<1>4. MachinesTypeOK BY <1>3, UnreadType DEF Init, MachinesTypeOK
<1>5. node \in [Nodes -> NodeRecords] BY DEF Init, NodeRecords
<1>6. ClustersTypeOK BY <1>5 DEF Init, ClustersTypeOK, RequestStates
<1>7. NoMark \in RestartMarks /\ NoCall \in Observations
  BY UnreadType, RestartMarkOfType DEF NoMark, NoCall, Observations
<1>8. observed \in [Keys -> Observations] /\ answered \in RestartMarks BY <1>7 DEF Init
<1>9. tries \in 0..ReleaseTries /\ crashes \in 0..MaxCrashes BY ConstantsAssumption DEF Init
<1>10. PassTypeOK BY <1>8, <1>9 DEF Init, PassTypeOK, PCs
<1>11. QED BY <1>4, <1>6, <1>10 DEF TypeOK

\* The types hold in every state, whatever the nodes, the signals, the
\* failures and the lag of the caches: a pass never reads what it has not
\* collected, and only requests are answered.
THEOREM TypeCorrect == Spec => []TypeOK
<1>1. Init => TypeOK BY TypeInit
<1>2. TypeOK /\ [Next]_vars => TypeOK' BY TypeKept
<1>3. QED BY <1>1, <1>2, PTL DEF Spec

-----------------------------------------------------------------------------
(* A request is answered True only for a restart that happened *)

\* Boots go up, a request once raised stays raised, and the operator learns
\* of boots no sooner than they happen.
Onwards ==
  /\ ncache' = node'
  /\ \A n \in Nodes : /\ node[n].boot <= node'[n].boot
                       /\ KnownBoot(n) <= KnownBoot(n)' /\ KnownBoot(n)' <= node'[n].boot
  /\ \A r \in Requests : request[r] # "unraised" =>
       request'[r] # "unraised" /\ raisedAt'[r] = raisedAt[r]

LEMMA KnownBootType ==
  ASSUME TypeOK, NEW n \in Nodes PROVE KnownBoot(n) \in Nat /\ node[n].boot \in Nat
BY DEF TypeOK, ClustersTypeOK, PassTypeOK, KnownBoot, Reads, NodeRecords

LEMMA RaisedKept ==
  ASSUME TypeOK, TypeOK', Onwards, NEW n \in Nodes, NEW r \in Requests, NEW b \in Nat,
         RaisedBy(r, b)
  PROVE  request'[r] # "unraised" /\ raisedAt'[r] = raisedAt[r] /\ raisedAt'[r] <= b
BY DEF Onwards, RaisedBy

\* Credited in the next state, of a Machine as it is then.
CreditedThen(n, m) ==
  /\ ~m.marked => m.action = "none" /\ m.boot = 0 /\ m.request = NoRequest
  /\ m.action = "Restart" =>
       /\ m.request \in Requests /\ NodeOf[m.request] = n
       /\ request'[m.request] # "unraised" /\ raisedAt'[m.request] <= m.boot
  /\ m.boot <= KnownBoot(n)'

LEMMA CreditedThenMarks ==
  ASSUME \A n \in Nodes : CreditedThen(n, machine'[n]) /\ CreditedThen(n, mcache'[n])
                          /\ CreditedThen(n, view'[n])
  PROVE  MarksCredited'
BY DEF MarksCredited, Credited, CreditedThen, RaisedBy

\* What was credited to a mark stays credited.
LEMMA CreditKept ==
  ASSUME TypeOK, TypeOK', Onwards, NEW n \in Nodes, NEW m \in Machines, Credited(n, m)
  PROVE  CreditedThen(n, m)
<1>1. KnownBoot(n) \in Nat /\ KnownBoot(n)' \in Nat /\ KnownBoot(n) <= KnownBoot(n)'
  BY KnownBootType DEF Onwards, TypeOK, ClustersTypeOK, PassTypeOK, KnownBoot, Reads, NodeRecords
<1>2. m.boot \in Nat BY DEF Machines
<1>3. m.boot <= KnownBoot(n)' BY <1>1, <1>2 DEF Credited
<1>4. m.action = "Restart" =>
        /\ m.request \in Requests /\ NodeOf[m.request] = n
        /\ request'[m.request] # "unraised" /\ raisedAt'[m.request] <= m.boot
  BY <1>2, RaisedKept DEF Credited
<1>5. QED BY <1>3, <1>4 DEF Credited, CreditedThen

LEMMA MarksKept ==
  ASSUME TypeOK, TypeOK', Onwards, MarksCredited, UNCHANGED <<machine, mcache, view>>
  PROVE  MarksCredited'
<1>1. ASSUME NEW n \in Nodes
      PROVE  CreditedThen(n, machine[n]) /\ CreditedThen(n, mcache[n]) /\ CreditedThen(n, view[n])
  <2>1. machine[n] \in Machines /\ mcache[n] \in Machines /\ view[n] \in Machines
    BY DEF TypeOK, MachinesTypeOK
  <2>2. QED BY <2>1, CreditKept DEF MarksCredited
<1>2. QED BY <1>1, CreditedThenMarks

LEMMA PatchCredited ==
  ASSUME TypeOK, TypeOK', Onwards, MarksCredited, NEW n \in Nodes, NEW m \in Machines,
         Credited(n, m), PatchMachine(n, m) \/ WriteBehind(n, m)
  PROVE  MarksCredited'
<1>1. ASSUME NEW k \in Nodes
      PROVE  CreditedThen(k, machine'[k]) /\ CreditedThen(k, mcache'[k]) /\ CreditedThen(k, view'[k])
  <2>1. machine[k] \in Machines /\ mcache[k] \in Machines /\ view[k] \in Machines
    BY DEF TypeOK, MachinesTypeOK
  <2>2. machine'[k] = IF k = n THEN m ELSE machine[k]
    BY DEF PatchMachine, WriteBehind, StoreMachine, TypeOK, MachinesTypeOK
  <2>3. mcache'[k] = mcache[k] \/ mcache'[k] = machine'[k]
    BY DEF PatchMachine, WriteBehind, StoreMachine
  <2>4. view'[k] = view[k] \/ view'[k] = machine'[k]
    BY <2>2 DEF PatchMachine, WriteBehind, TypeOK, MachinesTypeOK
  <2>5. CreditedThen(k, machine'[k]) BY <2>1, <2>2, CreditKept DEF MarksCredited
  <2>6. CreditedThen(k, mcache[k]) /\ CreditedThen(k, view[k]) BY <2>1, CreditKept DEF MarksCredited
  <2>7. QED BY <2>3, <2>4, <2>5, <2>6
<1>2. QED BY <1>1, CreditedThenMarks

\* Steps within a pass that touch neither the nodes nor the requests.
LEMMA PassOnwards ==
  ASSUME TypeOK, TypeOK', CreditInv, UNCHANGED <<nodeVars, reqVars>>,
         pc # "idle", pc' # "idle", read' = read
  PROVE  Onwards /\ BootsKnown' /\ RequestsRaised' /\ RestartedForReal'
<1>1. \A n \in Nodes : KnownBoot(n)' = KnownBoot(n) /\ KnownBoot(n) \in Nat /\ node[n].boot \in Nat
  BY KnownBootType DEF KnownBoot
<1>2. BootsKnown' BY <1>1 DEF CreditInv, BootsKnown, nodeVars
<1>3. Onwards BY <1>1 DEF CreditInv, BootsKnown, Onwards, nodeVars, reqVars
<1>4. RequestsRaised' /\ RestartedForReal'
  BY DEF CreditInv, RequestsRaised, RestartedForReal, nodeVars, reqVars
<1>5. QED BY <1>2, <1>3, <1>4

\* A pass goes on with the signals it has, and finds no other to answer True.
LEMMA SignalsKept ==
  ASSUME TypeOK, TypeOK', Onwards, SignalsRaised, pc # "idle", pc' # "idle", read' = read,
         todo' \subseteq todo,
         pc' \in {"handle", "answer"} => pc \in {"handle", "answer"} /\ sig' = sig,
         pc' = "answer" /\ ans' = "True" => raisedAt[sig] < KnownBoot(NodeOf[sig])
  PROVE  SignalsRaised'
<1>1. \A n : KnownBoot(n)' = KnownBoot(n) BY DEF KnownBoot
<1>2. \A r \in Requests : NodeOf[r] \in Nodes /\ KnownBoot(NodeOf[r]) \in Nat
  BY KnownBootType, ConstantsAssumption DEF Signals
<1>3. \A r \in Requests : RaisedBy(r, KnownBoot(NodeOf[r])) =>
        /\ request'[r] # "unraised" /\ raisedAt'[r] = raisedAt[r]
        /\ raisedAt'[r] <= KnownBoot(NodeOf[r])'
  BY <1>1, <1>2, RaisedKept
<1>4. \A s \in todo' : s \in Requests /\ RaisedBy(s, KnownBoot(NodeOf[s]))'
  BY <1>3 DEF SignalsRaised, RaisedBy
<1>5. pc' \in {"handle", "answer"} =>
        sig' \in Requests /\ request'[sig'] # "unraised" /\ raisedAt'[sig'] = raisedAt[sig]
        /\ raisedAt'[sig'] <= KnownBoot(NodeOf[sig])'
  BY <1>3 DEF SignalsRaised
<1>6. pc' = "answer" /\ ans' = "True" => raisedAt'[sig'] < KnownBoot(NodeOf[sig])'
  BY <1>1, <1>5
<1>7. (read.mode)' = "ExternalRemediationRequest" BY DEF SignalsRaised
<1>8. QED BY <1>1, <1>4, <1>5, <1>6, <1>7 DEF SignalsRaised, RaisedBy

LEMMA BeginCredited ==
  ASSUME OnlyRequests, TypeOK, TypeOK', CreditInv, Begin
  PROVE  CreditInv'
<1>1. UNCHANGED <<machine, mcache, nodeVars, reqVars>> /\ view' = mcache
  BY DEF Begin, apiVars
<1>2. /\ pc = "idle" /\ pc' = "signals" /\ todo' = Collected
      /\ read' = [mode |-> mode, fallback |-> fallback, coverage |-> coverage, nodes |-> ncache]
  BY DEF Begin
<1>3. \A n \in Nodes : KnownBoot(n)' = KnownBoot(n) /\ KnownBoot(n) \in Nat
                        /\ KnownBoot(n) = node[n].boot
  BY <1>2, KnownBootType DEF KnownBoot, CreditInv, BootsKnown
<1>4. BootsKnown' /\ Onwards
  BY <1>1, <1>3 DEF CreditInv, BootsKnown, Onwards, nodeVars, reqVars
<1>5. RequestsRaised' /\ RestartedForReal'
  BY <1>1 DEF CreditInv, RequestsRaised, RestartedForReal, nodeVars, reqVars
<1>6. MarksCredited'
  <2>1. ASSUME NEW n \in Nodes PROVE CreditedThen(n, machine[n]) /\ CreditedThen(n, mcache[n])
    <3>1. machine[n] \in Machines /\ mcache[n] \in Machines BY DEF TypeOK, MachinesTypeOK
    <3>2. QED BY <1>4, <3>1, CreditKept DEF CreditInv, MarksCredited
  <2>2. QED BY <1>1, <2>1, CreditedThenMarks
<1>7. SignalsRaised'
  <2>1. mode = "ExternalRemediationRequest" BY DEF OnlyRequests, TypeOK, ClustersTypeOK
  <2>2. todo' = rcache BY <1>2, <2>1 DEF Collected, PendingRequests
  <2>3. \A s \in rcache : s \in Requests /\ NodeOf[s] \in Nodes
    BY ConstantsAssumption DEF TypeOK, ClustersTypeOK, Signals
  <2>4. \A s \in rcache : request[s] # "unraised" /\ raisedAt[s] <= KnownBoot(NodeOf[s])
    BY <1>3, <2>3 DEF CreditInv, RequestsRaised
  <2>5. \A s \in todo' : s \in Requests /\ request'[s] # "unraised"
                         /\ raisedAt'[s] <= KnownBoot(NodeOf[s])'
    BY <1>1, <1>3, <2>2, <2>3, <2>4 DEF reqVars
  <2>6. QED BY <1>2, <2>1, <2>5 DEF SignalsRaised, RaisedBy
<1>8. QED BY <1>4, <1>5, <1>6, <1>7 DEF CreditInv

LEMMA ReadCredited ==
  ASSUME OnlyRequests, TypeOK, TypeOK', CreditInv,
         StartRelease \/ (\E s \in todo : Take(s) \/ PassBy(s) \/ Unreadable(s))
  PROVE  CreditInv'
<1>1. /\ UNCHANGED <<machine, mcache, view, nodeVars, reqVars>>
      /\ pc = "signals" /\ read' = read /\ pc' \in {"signals", "handle", "release"}
      /\ todo' \subseteq todo
  BY DEF StartRelease, Take, PassBy, Unreadable, apiVars, viewVars, passVars
<1>2. Onwards /\ BootsKnown' /\ RequestsRaised' /\ RestartedForReal'
  BY <1>1, PassOnwards
<1>3. MarksCredited' BY <1>1, <1>2, MarksKept DEF CreditInv
<1>4. SignalsRaised'
  <2>1. CASE pc' # "handle" BY <1>1, <1>2, <2>1, SignalsKept DEF CreditInv
  <2>2. ASSUME NEW s \in todo, Take(s) PROVE SignalsRaised'
    <3>1. sig' = s /\ pc' = "handle" BY <2>2 DEF Take
    <3>2. \A r \in todo : r \in Requests /\ RaisedBy(r, KnownBoot(NodeOf[r]))
          BY <1>1 DEF CreditInv, SignalsRaised
    <3>3. \A n : KnownBoot(n)' = KnownBoot(n) BY <1>1, <3>1 DEF KnownBoot
    <3>4. \A r \in todo : r \in Requests /\ request'[r] # "unraised"
                          /\ raisedAt'[r] <= KnownBoot(NodeOf[r])'
      BY <1>1, <3>2, <3>3 DEF RaisedBy, reqVars
    <3>5. (read.mode)' = "ExternalRemediationRequest" BY <1>1 DEF CreditInv, SignalsRaised
    <3>6. QED BY <1>1, <3>1, <3>4, <3>5 DEF SignalsRaised, RaisedBy
  <2>3. QED BY <1>1, <2>1, <2>2 DEF StartRelease, PassBy, Unreadable
<1>5. QED BY <1>2, <1>3, <1>4 DEF CreditInv

\* Marking names the request and the boot it was raised by, whatever the
\* Machine has become since it was read.
LEMMA MarkCredited ==
  ASSUME OnlyRequests, TypeOK, CreditInv, Mark
  PROVE  Credited(NodeOf[sig], MarkStored)
<1> DEFINE n == NodeOf[sig]
           b == KnownBoot(n)
<1>1. pc = "handle" /\ ~NodeGone /\ Guard(Machine) = "" BY DEF Mark, Proceeds, Remediates
<1>2. sig \in Requests /\ n \in Nodes
  BY <1>1, ConstantsAssumption DEF CreditInv, SignalsRaised, Signals
<1>3. RaisedBy(sig, b) BY <1>1 DEF CreditInv, SignalsRaised
<1>4. Node.exists /\ Node.boot = b /\ b \in Nat /\ b # 0
  <2>1. Node.exists BY <1>1, <1>2 DEF NodeGone
  <2>2. Node.boot = b BY <1>1 DEF Node, KnownBoot
  <2>3. b \in Nat /\ 1 <= b BY <1>2, KnownBootType DEF CreditInv, BootsKnown
  <2>4. QED BY <2>1, <2>2, <2>3
<1>5. Machine \in Machines /\ machine[n] \in Machines
  BY <1>2 DEF Machine, TypeOK, MachinesTypeOK
<1>6. Credited(n, Machine) /\ Credited(n, machine[n])
  BY <1>2 DEF Machine, CreditInv, MarksCredited
<1>7. ~Machine.marked BY <1>1 DEF Guard
<1>8. Machine.action = "none" /\ Machine.boot = 0 /\ Machine.request = NoRequest
  BY <1>6, <1>7 DEF Credited
<1>9. sig # NoRequest BY <1>2, NoRequestAssumption
<1>10. CASE AsRestart
  <2>1. MarkWanted = Marked(Machine, "Restart", b, sig)
    BY <1>2, <1>4, <1>10 DEF MarkWanted, RequestOf
  <2>2. /\ MarkWanted.marked /\ MarkWanted.action = "Restart" /\ MarkWanted.boot = b
        /\ MarkWanted.request = sig
    BY <1>4, <1>5, <1>9, <2>1 DEF Marked, Machines
  <2>3. /\ MarkStored.marked /\ MarkStored.action = "Restart" /\ MarkStored.boot = b
        /\ MarkStored.request = sig
    BY <1>4, <1>5, <1>7, <1>8, <1>9, <2>2 DEF MarkStored, MergePatch, Machines
  <2>4. QED BY <1>2, <1>3, <1>4, <2>3 DEF Credited
<1>11. CASE ~AsRestart
  <2>1. MarkWanted = [Machine EXCEPT !.marked = TRUE, !.action = "Remediate"]
    BY <1>5, <1>11 DEF MarkWanted, Marked, Machines
  <2>2. /\ MarkWanted.marked /\ MarkWanted.action = "Remediate"
        /\ MarkWanted.boot = Machine.boot
    BY <1>5, <2>1 DEF Machines
  <2>3. MarkStored.marked /\ MarkStored.action = "Remediate" /\ MarkStored.boot = machine[n].boot
    BY <1>5, <1>7, <1>8, <2>2 DEF MarkStored, MergePatch, Machines
  <2>4. QED BY <1>6, <2>3 DEF Credited
<1>12. QED BY <1>10, <1>11

LEMMA ReleaseCredited ==
  ASSUME TypeOK, TypeOK', Onwards, MarksCredited, NEW n \in Nodes, Release(n)
  PROVE  MarksCredited'
<1>1. view[n] \in Machines /\ KnownBoot(n) \in Nat BY KnownBootType DEF TypeOK, MachinesTypeOK
<1>2. Released(view[n]) \in Machines BY <1>1, ReleasedType
<1>3. Credited(n, Released(view[n])) BY <1>1 DEF Credited, Released, Machines
<1>4. CASE UNCHANGED <<apiVars, viewVars>>
  BY <1>4, MarksKept DEF apiVars, viewVars
<1>5. CASE PatchMachine(n, Released(view[n])) \/ WriteBehind(n, Released(view[n]))
  BY <1>2, <1>3, <1>5, PatchCredited
<1>6. QED BY <1>4, <1>5 DEF Release

\* The request's own mark names a boot after it was raised, and the node has
\* taken on another one since.
LEMMA CompleteIsReal ==
  ASSUME TypeOK, CreditInv, pc = "handle", Complete
  PROVE  raisedAt[sig] < KnownBoot(NodeOf[sig])
<1>1. sig \in Requests /\ NodeOf[sig] \in Nodes
  BY ConstantsAssumption DEF Complete, Signals
<1>2. Machine \in Machines BY <1>1 DEF Machine, TypeOK, MachinesTypeOK
<1>3. Credited(NodeOf[sig], Machine) BY <1>1 DEF Machine, CreditInv, MarksCredited
<1>4. Machine.action = "Restart" /\ Machine.boot # Node.boot
  BY <1>2 DEF Complete, RestartCompleted, MarkedAction, Machines
<1>5. Machine.request = sig
  BY <1>3, <1>4, NoRequestAssumption DEF Complete, RestartAnswers, Credited
<1>6. raisedAt[sig] <= Machine.boot /\ Machine.boot <= KnownBoot(NodeOf[sig])
  BY <1>3, <1>4, <1>5 DEF Credited, RaisedBy
<1>7. KnownBoot(NodeOf[sig]) = Node.boot BY DEF KnownBoot, Node
<1>8. raisedAt[sig] \in Nat /\ Machine.boot \in Nat /\ KnownBoot(NodeOf[sig]) \in Nat
  BY <1>1, <1>2, KnownBootType DEF TypeOK, ClustersTypeOK, Machines
<1>9. QED BY <1>4, <1>6, <1>7, <1>8

LEMMA HandleCredited ==
  ASSUME OnlyRequests, TypeOK, TypeOK', CreditInv, Handle
  PROVE  CreditInv'
<1>1. pc = "handle"
  BY DEF Handle, Reported, RestartOver, Escalate, Skipped, ReportedUnavailable, HeldBack, Mark,
         Proceeds, Remediates
<1>2. sig \in Requests /\ NodeOf[sig] \in Nodes
  BY <1>1, ConstantsAssumption DEF CreditInv, SignalsRaised, Signals
<1>3. ans' = "True" => RestartOver
  BY DEF Handle, Reported, Escalate, Skipped, ReportedUnavailable, HeldBack, Mark, Conclude, Decline
<1>4. /\ UNCHANGED <<nodeVars, reqVars, todo, sig>> /\ read' = read
      /\ pc' \in {"signals", "answer"}
  BY DEF Handle, Reported, RestartOver, Escalate, Skipped, ReportedUnavailable, HeldBack, Mark,
         Conclude, passVars
<1>5. Onwards /\ BootsKnown' /\ RequestsRaised' /\ RestartedForReal'
  BY <1>1, <1>4, PassOnwards
<1>6. SignalsRaised'
  <2>1. ans' = "True" => raisedAt[sig] < KnownBoot(NodeOf[sig])
    BY <1>1, <1>3, <1>4, CompleteIsReal DEF RestartOver
  <2>2. QED BY <1>1, <1>4, <1>5, <2>1, SignalsKept DEF CreditInv
<1>7. MarksCredited'
  <2>1. CASE Mark
    <3>1. Credited(NodeOf[sig], MarkStored) BY <2>1, MarkCredited
    <3>2. MarkStored \in Machines BY <1>1, MarkStoredType
    <3>3. CASE UNCHANGED <<apiVars, viewVars>>
      BY <1>5, <3>3, MarksKept DEF CreditInv, apiVars, viewVars
    <3>4. CASE PatchMachine(NodeOf[sig], MarkStored) \/ WriteBehind(NodeOf[sig], MarkStored)
      BY <1>2, <1>5, <3>1, <3>2, <3>4, PatchCredited DEF CreditInv
    <3>5. QED BY <2>1, <3>3, <3>4 DEF Mark
  <2>2. CASE Escalate
    <3>1. Machine \in Machines /\ KnownBoot(NodeOf[sig]) \in Nat
      BY <1>2, KnownBootType DEF Machine, TypeOK, MachinesTypeOK
    <3>2. Escalated(Machine) \in Machines BY <3>1, EscalatedType
    <3>3. Machine.marked BY <2>2, <3>1 DEF Escalate, Escalates, MarkedAction, Machines
    <3>4. Credited(NodeOf[sig], Escalated(Machine))
      BY <3>1, <3>3 DEF Credited, Escalated, Machines
    <3>5. CASE UNCHANGED <<apiVars, viewVars>>
      BY <1>5, <3>5, MarksKept DEF CreditInv, apiVars, viewVars
    <3>6. CASE \/ PatchMachine(NodeOf[sig], Escalated(Machine))
               \/ WriteBehind(NodeOf[sig], Escalated(Machine))
      BY <1>2, <1>5, <3>2, <3>4, <3>6, PatchCredited DEF CreditInv
    <3>7. QED BY <2>2, <3>5, <3>6 DEF Escalate
  <2>3. CASE UNCHANGED <<apiVars, viewVars>>
    BY <1>5, <2>3, MarksKept DEF CreditInv, apiVars, viewVars
  <2>4. QED BY <2>1, <2>2, <2>3
      DEF Handle, Reported, RestartOver, Skipped, ReportedUnavailable, HeldBack
<1>8. QED BY <1>5, <1>6, <1>7 DEF CreditInv

LEMMA AnswerCredited ==
  ASSUME OnlyRequests, TypeOK, TypeOK', CreditInv, Answer
  PROVE  CreditInv'
<1>1. /\ UNCHANGED <<machine, mcache, view, nodeVars, raisedAt, todo, sig>> /\ read' = read
      /\ pc = "answer" /\ pc' \in {"signals", "releaseAnswered"} /\ ans # "none"
  BY DEF Answer, apiVars, viewVars, passVars, TypeOK, PassTypeOK
<1>2. sig \in Requests /\ NodeOf[sig] \in Nodes /\ request[sig] # "unraised"
  BY <1>1, ConstantsAssumption DEF CreditInv, SignalsRaised, Signals, RaisedBy
<1>3. /\ \A r \in Requests : \/ request'[r] = request[r]
                             \/ r = sig /\ request'[r] = ans
      /\ \A r \in rcache' : r \in rcache \/ request'[r] = "pending"
  BY <1>2 DEF Answer, StoreRequest, TypeOK, ClustersTypeOK
<1>4. ans \in {"True", "False"} BY <1>1 DEF TypeOK, PassTypeOK
<1>5. \A n \in Nodes : KnownBoot(n)' = KnownBoot(n) /\ KnownBoot(n) \in Nat /\ node[n].boot \in Nat
  BY <1>1, KnownBootType DEF KnownBoot
<1>6. \A r \in Requests : request[r] # "unraised" => request'[r] # "unraised"
  BY <1>3, <1>4
<1>7. BootsKnown' /\ Onwards
  BY <1>1, <1>5, <1>6 DEF CreditInv, BootsKnown, Onwards, nodeVars
<1>8. RequestsRaised'
  <2>1. \A r \in Requests : request'[r] # "unraised" => request[r] # "unraised" BY <1>2, <1>3
  <2>2. \A r \in rcache' : request'[r] # "unraised"
    BY <1>3, <1>6 DEF CreditInv, RequestsRaised, TypeOK, ClustersTypeOK
  <2>3. QED BY <1>1, <2>1, <2>2 DEF CreditInv, RequestsRaised, nodeVars
<1>9. RestartedForReal'
  <2>1. ans = "True" => raisedAt[sig] < node[NodeOf[sig]].boot
    <3>1. ans = "True" => raisedAt[sig] < KnownBoot(NodeOf[sig])
      BY <1>1 DEF CreditInv, SignalsRaised
    <3>2. KnownBoot(NodeOf[sig]) <= node[NodeOf[sig]].boot BY <1>2 DEF CreditInv, BootsKnown
    <3>3. raisedAt[sig] \in Nat BY <1>2 DEF TypeOK, ClustersTypeOK
    <3>4. QED BY <1>2, <1>5, <3>1, <3>2, <3>3
  <2>2. QED BY <1>1, <1>3, <2>1 DEF CreditInv, RestartedForReal, nodeVars
<1>10. MarksCredited' BY <1>1, <1>7, MarksKept DEF CreditInv
<1>11. SignalsRaised' BY <1>1, <1>7, SignalsKept DEF CreditInv
<1>12. QED BY <1>7, <1>8, <1>9, <1>10, <1>11 DEF CreditInv

LEMMA ReleasesCredited ==
  ASSUME OnlyRequests, TypeOK, TypeOK', CreditInv,
         ReleaseAnswered \/ Reread \/ (\E n \in left : ReleaseRestart(n))
  PROVE  CreditInv'
<1>1. /\ UNCHANGED <<nodeVars, reqVars, todo, sig>> /\ read' = read
      /\ pc \in {"releaseAnswered", "reread", "release"}
      /\ pc' \in {"signals", "releaseAnswered", "reread", "release"}
  BY DEF ReleaseAnswered, Reread, ReleaseRestart, passVars
<1>2. Onwards /\ BootsKnown' /\ RequestsRaised' /\ RestartedForReal'
  BY <1>1, PassOnwards
<1>3. SignalsRaised' BY <1>1, <1>2, SignalsKept DEF CreditInv
<1>4. MarksCredited'
  <2>1. CASE UNCHANGED <<apiVars, viewVars>>
    BY <1>2, <2>1, MarksKept DEF CreditInv, apiVars, viewVars
  <2>2. ASSUME NEW n \in Nodes, Release(n) PROVE MarksCredited'
    BY <1>2, <2>2, ReleaseCredited DEF CreditInv
  <2>3. CASE ReleaseAnswered
    <3>1. NodeOf[sig] \in Nodes BY <2>3, ConstantsAssumption DEF ReleaseAnswered, TypeOK, PassTypeOK
    <3>2. QED BY <2>1, <2>2, <2>3, <3>1 DEF ReleaseAnswered
  <2>4. CASE Reread
    <3>1. ASSUME NEW n \in Nodes
          PROVE  /\ CreditedThen(n, machine[n]) /\ CreditedThen(n, mcache[n])
                 /\ CreditedThen(n, view[n])
      <4>1. machine[n] \in Machines /\ mcache[n] \in Machines /\ view[n] \in Machines
        BY DEF TypeOK, MachinesTypeOK
      <4>2. QED BY <1>2, <4>1, CreditKept DEF CreditInv, MarksCredited
    <3>2. \A n \in Nodes : view'[n] = view[n] \/ view'[n] = mcache[n]
      BY <2>4 DEF Reread, viewVars, TypeOK, MachinesTypeOK
    <3>3. UNCHANGED <<machine, mcache>> BY <2>4 DEF Reread, apiVars
    <3>4. QED BY <3>1, <3>2, <3>3, CreditedThenMarks
  <2>5. ASSUME NEW n \in left, ReleaseRestart(n) PROVE MarksCredited'
    <3>1. n \in Nodes BY DEF TypeOK, PassTypeOK
    <3>2. QED BY <2>1, <2>2, <2>5, <3>1 DEF ReleaseRestart
  <2>6. QED BY <2>3, <2>4, <2>5
<1>5. QED BY <1>2, <1>3, <1>4 DEF CreditInv

LEMMA EndCredited ==
  ASSUME OnlyRequests, TypeOK, TypeOK', CreditInv, PassOver \/ Finish \/ Crash
  PROVE  CreditInv'
<1>1. /\ UNCHANGED <<machine, mcache, nodeVars, reqVars>> /\ pc' = "idle"
      /\ UNCHANGED view \/ view' = [n \in Nodes |-> Unread]
  BY DEF PassOver, Finish, Crash, EndPass, apiVars, viewVars
<1>2. \A n \in Nodes : KnownBoot(n)' = node[n].boot /\ node[n].boot \in Nat /\ KnownBoot(n) \in Nat
  BY <1>1, KnownBootType DEF KnownBoot, CreditInv, BootsKnown, nodeVars
<1>3. BootsKnown' /\ Onwards
  BY <1>1, <1>2 DEF CreditInv, BootsKnown, Onwards, nodeVars, reqVars
<1>4. RequestsRaised' /\ RestartedForReal'
  BY <1>1 DEF CreditInv, RequestsRaised, RestartedForReal, nodeVars, reqVars
<1>5. MarksCredited'
  <2>1. ASSUME NEW n \in Nodes
        PROVE  /\ CreditedThen(n, machine[n]) /\ CreditedThen(n, mcache[n])
               /\ CreditedThen(n, view[n]) /\ CreditedThen(n, Unread)
    <3>1. machine[n] \in Machines /\ mcache[n] \in Machines /\ view[n] \in Machines
      BY DEF TypeOK, MachinesTypeOK
    <3>2. CreditedThen(n, Unread) BY <1>2 DEF CreditedThen, Unread
    <3>3. QED BY <1>3, <3>1, <3>2, CreditKept DEF CreditInv, MarksCredited
  <2>2. QED BY <1>1, <2>1, CreditedThenMarks
<1>6. SignalsRaised' BY <1>1 DEF SignalsRaised
<1>7. QED BY <1>3, <1>4, <1>5, <1>6 DEF CreditInv

LEMMA EnvironmentCredited ==
  ASSUME OnlyRequests, TypeOK, TypeOK', CreditInv, Environment
  PROVE  CreditInv'
<1> USE DEF CreditInv
<1>1. UNCHANGED <<pc, read, todo, sig, ans>>
  BY DEF Environment, RequestRaised, RequestClosed, FaultChanges, ProviderRestarts, NodeRestarts,
         NodeReady, ChecksLook, UserPauses, UserOptsOut, UserMarks, UserUnmarks, MachineDeleted,
         NodeRemoved, MachineRemoved, ChecksChange, SyncMachine, SyncNode, GraceElapses,
         FallbackChanges, ClusterChanges, ModeChanges, SyncRequests, NodeChanges, MachineChanges,
         EnvFrame, passVars
<1>2. ASSUME Onwards PROVE SignalsRaised'
  <2>1. CASE pc = "idle" BY <1>1, <2>1 DEF SignalsRaised
  <2>2. CASE pc # "idle"
    <3>1. pc = "answer" /\ ans = "True" => raisedAt[sig] < KnownBoot(NodeOf[sig])
      BY DEF SignalsRaised
    <3>2. QED BY <1>1, <1>2, <2>2, <3>1, SignalsKept
  <2>3. QED BY <2>1, <2>2
<1>3. \A n \in Nodes : KnownBoot(n) \in Nat /\ node[n].boot \in Nat BY KnownBootType
<1>4. ASSUME UNCHANGED nodeVars,
             \A r \in Requests : request[r] # "unraised" =>
               request'[r] # "unraised" /\ raisedAt'[r] = raisedAt[r]
      PROVE  BootsKnown' /\ Onwards
  <2>1. \A n \in Nodes : KnownBoot(n)' = KnownBoot(n) BY <1>1, <1>4 DEF KnownBoot, nodeVars
  <2>2. QED BY <1>3, <1>4, <2>1 DEF BootsKnown, Onwards, nodeVars
<1>5. ASSUME UNCHANGED <<nodeVars, reqVars>>
      PROVE  BootsKnown' /\ Onwards /\ RequestsRaised' /\ RestartedForReal'
  <2>1. BootsKnown' /\ Onwards BY <1>4, <1>5 DEF reqVars
  <2>2. QED BY <1>5, <2>1 DEF RequestsRaised, RestartedForReal, nodeVars, reqVars
<1>6. ASSUME Onwards, UNCHANGED <<machine, mcache, view>> PROVE MarksCredited'
  BY <1>6, MarksKept
<1>7. ASSUME NEW n \in Nodes, NEW m \in Machines, Credited(n, m), MachineChanges(n, m)
      PROVE  CreditInv'
  <2>1. WriteBehind(n, m) /\ UNCHANGED <<nodeVars, reqVars>> BY <1>7 DEF MachineChanges
  <2>2. MarksCredited' BY <1>5, <1>7, <2>1, PatchCredited
  <2>3. QED BY <1>2, <1>5, <2>1, <2>2
<1>8. ASSUME NEW n \in Nodes, NEW rec \in NodeRecords, NodeChanges(n, rec), node[n].boot <= rec.boot
      PROVE  CreditInv'
  <2>1. UNCHANGED <<machine, mcache, view, reqVars>> BY <1>8 DEF NodeChanges, apiVars, viewVars
  <2>2. ncache' = node' BY <1>8 DEF NodeChanges, StoreNode, OnlyRequests
  <2>3. \A k \in Nodes : node[k].boot <= node'[k].boot /\ node'[k].boot \in Nat
    BY <1>3, <1>8 DEF NodeChanges, StoreNode, TypeOK, ClustersTypeOK, NodeRecords
  <2>4. \A k \in Nodes : KnownBoot(k) <= KnownBoot(k)' /\ KnownBoot(k)' <= node'[k].boot
                         /\ KnownBoot(k)' \in Nat
    <3>1. CASE pc = "idle" BY <1>1, <2>2, <2>3, <3>1 DEF KnownBoot, BootsKnown
    <3>2. CASE pc # "idle"
      <4>1. \A k \in Nodes : KnownBoot(k)' = KnownBoot(k) BY <1>1, <3>2 DEF KnownBoot
      <4>2. QED BY <1>3, <2>3, <4>1 DEF BootsKnown
    <3>3. QED BY <3>1, <3>2
  <2>5. BootsKnown' BY <1>3, <2>2, <2>4 DEF BootsKnown
  <2>6. Onwards BY <2>1, <2>2, <2>3, <2>4 DEF Onwards, reqVars
  <2>7. RequestsRaised' /\ RestartedForReal'
    <3>1. \A r \in Requests : NodeOf[r] \in Nodes /\ raisedAt[r] \in Nat
      BY ConstantsAssumption DEF Signals, TypeOK, ClustersTypeOK
    <3>2. QED BY <1>3, <2>1, <2>3, <3>1 DEF RequestsRaised, RestartedForReal, reqVars
  <2>8. QED BY <1>2, <1>6, <2>1, <2>5, <2>6, <2>7
<1>9. ASSUME NEW r \in Requests, RequestRaised(r) \/ RequestClosed(r) PROVE CreditInv'
  <2>1. UNCHANGED <<machine, mcache, view, nodeVars>>
    BY <1>9 DEF RequestRaised, RequestClosed, apiVars, viewVars
  <2>2. \A q \in Requests : \/ request'[q] = request[q] /\ raisedAt'[q] = raisedAt[q]
                           \/ /\ q = r /\ request'[q] = "pending" /\ request[q] = "unraised"
                              /\ raisedAt'[q] = node[NodeOf[q]].boot
                           \/ /\ q = r /\ request'[q] = "closed" /\ request[q] = "pending"
                              /\ raisedAt'[q] = raisedAt[q]
    BY <1>9 DEF RequestRaised, RequestClosed, StoreRequest, TypeOK, ClustersTypeOK
  <2>3. BootsKnown' /\ Onwards BY <1>4, <2>1, <2>2
  <2>4. RequestsRaised'
    <3>1. \A q \in Requests : request'[q] # "unraised" => raisedAt'[q] <= node[NodeOf[q]].boot
      BY <1>3, <2>2, ConstantsAssumption DEF RequestsRaised, Signals
    <3>2. \A q \in rcache' : q \in rcache \/ request'[q] = "pending"
      BY <1>9 DEF RequestRaised, RequestClosed, StoreRequest
    <3>3. \A q \in rcache' : request'[q] # "unraised"
      BY <2>2, <3>2 DEF RequestsRaised, TypeOK, ClustersTypeOK
    <3>4. QED BY <2>1, <3>1, <3>3 DEF RequestsRaised, nodeVars
  <2>5. RestartedForReal' BY <2>1, <2>2 DEF RestartedForReal, nodeVars
  <2>6. QED BY <1>2, <1>6, <2>1, <2>3, <2>4, <2>5
<1>10. CASE SyncRequests
  <2>1. UNCHANGED <<machine, mcache, view, nodeVars, request, raisedAt>>
    BY <1>10 DEF SyncRequests, apiVars, viewVars
  <2>2. BootsKnown' /\ Onwards BY <1>4, <2>1
  <2>3. RequestsRaised' /\ RestartedForReal'
    BY <1>10, <2>1 DEF SyncRequests, RequestsRaised, RestartedForReal, nodeVars
  <2>4. QED BY <1>2, <1>6, <2>1, <2>2, <2>3
<1>11. CASE \/ FallbackChanges \/ ClusterChanges \/ ModeChanges
            \/ \E n \in Nodes : ChecksChange(n) \/ GraceElapses(n)
  <2>1. UNCHANGED <<machine, mcache, view, nodeVars, reqVars>>
    BY <1>11 DEF FallbackChanges, ClusterChanges, ModeChanges, ChecksChange, GraceElapses,
                 apiVars, viewVars
  <2>2. QED BY <1>2, <1>5, <1>6, <2>1
<1>12. ASSUME NEW n \in Nodes, SyncMachine(n) PROVE CreditInv'
  <2>1. UNCHANGED <<machine, view, nodeVars, reqVars>> BY <1>12 DEF SyncMachine, viewVars
  <2>2. ASSUME NEW k \in Nodes
        PROVE  CreditedThen(k, machine[k]) /\ CreditedThen(k, mcache[k]) /\ CreditedThen(k, view[k])
    <3>1. machine[k] \in Machines /\ mcache[k] \in Machines /\ view[k] \in Machines
      BY DEF TypeOK, MachinesTypeOK
    <3>2. QED BY <1>5, <2>1, <3>1, CreditKept DEF MarksCredited
  <2>3. \A k \in Nodes : mcache'[k] = mcache[k] \/ mcache'[k] = machine[k]
    BY <1>12 DEF SyncMachine, TypeOK, MachinesTypeOK
  <2>4. MarksCredited' BY <2>1, <2>2, <2>3, CreditedThenMarks
  <2>5. QED BY <1>2, <1>5, <2>1, <2>4
<1>13. ASSUME NEW n \in Nodes, SyncNode(n) PROVE FALSE BY <1>13 DEF SyncNode, BootsKnown
<1>14. ASSUME NEW c \in Conditions, FaultChanges(c) PROVE CreditInv'
  <2>1. NodeOf[c] \in Nodes BY ConstantsAssumption DEF Signals
  <2>2. node[NodeOf[c]] \in NodeRecords BY <2>1 DEF TypeOK, ClustersTypeOK
  <2> DEFINE rec == [node[NodeOf[c]] EXCEPT !.faults = IF c \in @ THEN @ \ {c} ELSE @ \cup {c}]
  <2>3. rec \in NodeRecords /\ rec.boot = node[NodeOf[c]].boot BY <2>2 DEF NodeRecords
  <2>4. node[NodeOf[c]].boot <= rec.boot BY <1>3, <2>1, <2>3
  <2>5. QED BY <1>8, <1>14, <2>1, <2>3, <2>4 DEF FaultChanges
<1>15. ASSUME NEW n \in Nodes,
              ProviderRestarts(n) \/ NodeRestarts(n) \/ NodeReady(n) \/ NodeRemoved(n)
       PROVE  CreditInv'
  <2>1. node[n] \in NodeRecords BY DEF TypeOK, ClustersTypeOK
  <2>2. Booted(node[n]) \in NodeRecords /\ node[n].boot <= Booted(node[n]).boot
    <3>1. node[n].boot + 1 \in Nat /\ node[n].boot <= node[n].boot + 1 BY <1>3
    <3>2. QED BY <2>1, <3>1 DEF Booted, NodeRecords
  <2>3. /\ [node[n] EXCEPT !.ready = TRUE] \in NodeRecords
        /\ [node[n] EXCEPT !.exists = FALSE] \in NodeRecords
        /\ [node[n] EXCEPT !.ready = TRUE].boot = node[n].boot
        /\ [node[n] EXCEPT !.exists = FALSE].boot = node[n].boot
    BY <2>1 DEF NodeRecords
  <2>4. node[n].boot <= node[n].boot BY <1>3
  <2>5. QED BY <1>8, <1>15, <2>2, <2>3, <2>4
            DEF ProviderRestarts, NodeRestarts, NodeReady, NodeRemoved
<1>16. ASSUME NEW n \in Nodes,
              \/ ChecksLook(n) \/ UserPauses(n) \/ UserOptsOut(n) \/ UserMarks(n)
              \/ MachineDeleted(n) \/ MachineRemoved(n)
       PROVE  CreditInv'
  <2>1. machine[n] \in Machines /\ Credited(n, machine[n]) BY DEF TypeOK, MachinesTypeOK, MarksCredited
  <2>2. ASSUME NEW m \in Machines, MachineChanges(n, m), m.marked = machine[n].marked \/ m.marked,
               m.action = machine[n].action, m.boot = machine[n].boot, m.request = machine[n].request
        PROVE  CreditInv'
    <3>1. Credited(n, m) BY <2>1, <2>2 DEF Credited
    <3>2. QED BY <1>7, <2>2, <3>1
  <2>3. CASE ChecksLook(n)
    <3> DEFINE m == [machine[n] EXCEPT !.shown = machine[n].marked]
    <3>1. m \in Machines /\ m.marked = machine[n].marked /\ m.action = machine[n].action
          /\ m.boot = machine[n].boot /\ m.request = machine[n].request BY <2>1 DEF Machines
    <3>2. QED BY <2>2, <2>3, <3>1 DEF ChecksLook
  <2>4. CASE UserPauses(n)
    <3> DEFINE m == [machine[n] EXCEPT !.paused = ~@]
    <3>1. m \in Machines /\ m.marked = machine[n].marked /\ m.action = machine[n].action
          /\ m.boot = machine[n].boot /\ m.request = machine[n].request BY <2>1 DEF Machines
    <3>2. QED BY <2>2, <2>4, <3>1 DEF UserPauses
  <2>5. CASE UserOptsOut(n)
    <3> DEFINE m == [machine[n] EXCEPT !.optedOut = ~@]
    <3>1. m \in Machines /\ m.marked = machine[n].marked /\ m.action = machine[n].action
          /\ m.boot = machine[n].boot /\ m.request = machine[n].request BY <2>1 DEF Machines
    <3>2. QED BY <2>2, <2>5, <3>1 DEF UserOptsOut
  <2>6. CASE UserMarks(n)
    <3> DEFINE m == [machine[n] EXCEPT !.marked = TRUE]
    <3>1. m \in Machines /\ m.marked /\ m.action = machine[n].action
          /\ m.boot = machine[n].boot /\ m.request = machine[n].request BY <2>1 DEF Machines
    <3>2. QED BY <2>2, <2>6, <3>1 DEF UserMarks
  <2>7. CASE MachineDeleted(n)
    <3> DEFINE m == [machine[n] EXCEPT !.deleting = TRUE]
    <3>1. m \in Machines /\ m.marked = machine[n].marked /\ m.action = machine[n].action
          /\ m.boot = machine[n].boot /\ m.request = machine[n].request BY <2>1 DEF Machines
    <3>2. QED BY <2>2, <2>7, <3>1 DEF MachineDeleted
  <2>8. CASE MachineRemoved(n)
    <3> DEFINE m == [machine[n] EXCEPT !.exists = FALSE]
    <3>1. m \in Machines /\ m.marked = machine[n].marked /\ m.action = machine[n].action
          /\ m.boot = machine[n].boot /\ m.request = machine[n].request BY <2>1 DEF Machines
    <3>2. QED BY <2>2, <2>8, <3>1 DEF MachineRemoved
  <2>9. QED BY <1>16, <2>3, <2>4, <2>5, <2>6, <2>7, <2>8
<1>17. ASSUME NEW n \in Nodes, UserUnmarks(n) PROVE FALSE BY <1>17 DEF UserUnmarks, OnlyRequests
<1>18. QED
  BY <1>9, <1>10, <1>11, <1>12, <1>13, <1>14, <1>15, <1>16, <1>17 DEF Environment

\* Every copy of a Machine keeps the request and the boot of its restart mark
\* together, the boot is one at which the request was pending, and no pass
\* goes by a boot its node has not had (MarkForRemediation, RestartCompleted,
\* Release): the induction behind RestartsAreReal.
THEOREM MarksAreCredited ==
  ASSUME OnlyRequests
  PROVE  Spec => []CreditInv
<1>1. Init => CreditInv
  <2> SUFFICES ASSUME Init PROVE CreditInv OBVIOUS
  <2>1. \A n \in Nodes : machine[n] = NewMachine(n) /\ mcache[n] = NewMachine(n) /\ view[n] = Unread
    BY DEF Init, OnlyRequests
  <2>2. \A n \in Nodes : node[n].boot = 1 /\ KnownBoot(n) = 1 BY DEF Init, KnownBoot
  <2>3. BootsKnown BY <2>2 DEF Init, BootsKnown
  <2>4. RequestsRaised /\ RestartedForReal BY DEF Init, RequestsRaised, RestartedForReal
  <2>5. SignalsRaised BY DEF Init, SignalsRaised
  <2>6. MarksCredited
    <3>1. \A n \in Nodes : Credited(n, NewMachine(n)) /\ Credited(n, Unread)
      BY <2>2 DEF Credited, NewMachine, Unread
    <3>2. QED BY <2>1, <3>1 DEF MarksCredited
  <2>7. QED BY <2>3, <2>4, <2>5, <2>6 DEF CreditInv
<1>2. TypeOK /\ TypeOK' /\ CreditInv /\ [Next]_vars => CreditInv'
  <2> SUFFICES ASSUME TypeOK, TypeOK', CreditInv, [Next]_vars PROVE CreditInv' OBVIOUS
  <2>1. CASE Pass
    BY <2>1, BeginCredited, ReadCredited, HandleCredited, AnswerCredited, ReleasesCredited,
       EndCredited DEF Pass
  <2>2. CASE Crash BY <2>2, EndCredited
  <2>3. CASE Environment BY <2>3, EnvironmentCredited
  <2>4. CASE UNCHANGED vars
    BY <2>4 DEF vars, apiVars, hubVars, nodeVars, reqVars, viewVars, passVars, tryVars, CreditInv,
                BootsKnown, RequestsRaised, MarksCredited, SignalsRaised, RestartedForReal, Credited,
                RaisedBy, KnownBoot
  <2>5. QED BY <2>1, <2>2, <2>3, <2>4 DEF Next
<1>3. QED BY <1>1, <1>2, TypeCorrect, PTL DEF Spec

\* A request is answered True only when its node has restarted since the
\* request was released: for any nodes and requests, however far the cached
\* Machines and requests lag, whichever calls fail or lose their reply, and
\* wherever the operator stops (remediate, MarkForRemediation, Answer).
THEOREM RestartsAreReal ==
  ASSUME OnlyRequests
  PROVE  Spec => []RestartedForReal
<1>1. CreditInv => RestartedForReal BY DEF CreditInv
<1>2. QED BY <1>1, MarksAreCredited, PTL

=============================================================================
