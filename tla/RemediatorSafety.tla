-------------------------- MODULE RemediatorSafety --------------------------
(* What the operator's steps may never do, for every value of the constants
   of Remediator: theorems about the marks it makes, keeps and removes. *)
EXTENDS RemediatorProofs

-----------------------------------------------------------------------------
(* What the steps of everyone else leave alone *)

\* Others leave the operator's annotations alone, and a Machine that is being
\* deleted goes after its node.
OthersWrite(n) ==
  /\ machine'[n].action = machine[n].action /\ machine'[n].request = machine[n].request
  /\ machine'[n].boot = machine[n].boot
  /\ machine[n].marked /\ "unmark" \notin Disturbances => machine'[n].marked
  /\ machine[n].deleting => machine'[n].deleting
  /\ ~machine'[n].exists => ~machine[n].exists \/ ~node[n].exists

MachinesByOthers ==
  /\ view' = view
  /\ \A n \in Nodes : vfresh'[n] => vfresh[n] /\ machine'[n] = machine[n]
  /\ \A n \in Nodes : OthersWrite(n)

RequestsByOthers ==
  /\ \A r \in Requests : \/ request'[r] = request[r]
                         \/ request[r] = "unraised" /\ request'[r] = "pending"
                         \/ request[r] = "pending" /\ request'[r] = "closed"
  /\ \A r \in Requests : raisedAt'[r] = IF request[r] = "unraised" /\ request'[r] = "pending"
                                         THEN node[NodeOf[r]].boot ELSE raisedAt[r]
  /\ \A r \in rcache' : r \in rcache \/ request'[r] = "pending"
  /\ \A r \in rcache : request'[r] = "pending" => r \in rcache'

NodesByOthers ==
  /\ "nodes" \notin Lag /\ ncache = node => ncache' = node'
  /\ \A n \in Nodes :
       /\ node[n].boot <= node'[n].boot
       /\ \A c \in node'[n].faults : c \in node[n].faults \/ NodeOf[c] = n
       /\ ~node[n].exists => ~node'[n].exists
       /\ ~node'[n].exists => ~node[n].exists \/ machine[n].deleting
       /\ ncache'[n] = ncache[n] \/ ncache'[n] = node'[n]

LEMMA BootType ==
  ASSUME TypeOK, NEW n \in Nodes
  PROVE  node[n].boot \in Nat /\ node[n].boot <= node[n].boot /\ node[n].boot <= node[n].boot + 1
<1>1. node[n].boot \in Nat BY DEF TypeOK, ClustersTypeOK, NodeRecords
<1>2. QED BY <1>1

LEMMA NothingByOthers ==
  /\ TypeOK /\ UNCHANGED <<apiVars, viewVars>> => MachinesByOthers
  /\ TypeOK /\ UNCHANGED reqVars => RequestsByOthers
  /\ TypeOK /\ UNCHANGED nodeVars => NodesByOthers
<1>1. TypeOK /\ UNCHANGED <<apiVars, viewVars>> => MachinesByOthers
  BY DEF MachinesByOthers, OthersWrite, apiVars, viewVars
<1>2. TypeOK /\ UNCHANGED reqVars => RequestsByOthers
  BY DEF RequestsByOthers, reqVars
<1>3. TypeOK /\ UNCHANGED nodeVars => NodesByOthers
  <2>1. TypeOK => \A n \in Nodes : node[n].boot <= node[n].boot BY BootType
  <2>2. QED BY <2>1 DEF NodesByOthers, nodeVars
<1>4. QED BY <1>1, <1>2, <1>3

LEMMA MachineChangesByOthers ==
  ASSUME TypeOK, NEW n \in Nodes, NEW m \in Machines, MachineChanges(n, m),
         m.action = machine[n].action, m.request = machine[n].request, m.boot = machine[n].boot,
         machine[n].marked /\ "unmark" \notin Disturbances => m.marked,
         machine[n].deleting => m.deleting,
         ~m.exists => ~machine[n].exists \/ ~node[n].exists
  PROVE  MachinesByOthers /\ RequestsByOthers /\ NodesByOthers /\ EnvFrame /\ UNCHANGED dry
<1>1. /\ UNCHANGED <<reqVars, nodeVars, dry, view>> /\ EnvFrame
      /\ machine' = [machine EXCEPT ![n] = m] /\ vfresh' = [vfresh EXCEPT ![n] = FALSE]
  BY DEF MachineChanges, WriteBehind, StoreMachine, hubVars
<1>2. \A k \in Nodes : machine'[k] = IF k = n THEN m ELSE machine[k]
  BY <1>1 DEF TypeOK, MachinesTypeOK
<1>3. \A k \in Nodes : vfresh'[k] => vfresh[k] /\ k # n
  BY <1>1 DEF TypeOK, MachinesTypeOK
<1>4. \A k \in Nodes : OthersWrite(k) BY <1>2 DEF OthersWrite
<1>5. MachinesByOthers BY <1>1, <1>2, <1>3, <1>4 DEF MachinesByOthers
<1>6. QED BY <1>1, <1>5, NothingByOthers

LEMMA NodeChangesByOthers ==
  ASSUME TypeOK, NEW n \in Nodes, NEW rec, NodeChanges(n, rec), node[n].boot <= rec.boot,
         \A c \in rec.faults : c \in node[n].faults \/ NodeOf[c] = n,
         ~node[n].exists => ~rec.exists,
         ~rec.exists => ~node[n].exists \/ machine[n].deleting
  PROVE  MachinesByOthers /\ RequestsByOthers /\ NodesByOthers /\ EnvFrame /\ UNCHANGED dry
<1>1. UNCHANGED <<apiVars, viewVars, reqVars, dry>> /\ EnvFrame
  BY DEF NodeChanges, hubVars
<1>2. \A k \in Nodes : node'[k] = (IF k = n THEN rec ELSE node[k]) /\ node[k].boot <= node'[k].boot
  BY BootType DEF NodeChanges, StoreNode, TypeOK, ClustersTypeOK
<1>3. \A k \in Nodes : ncache'[k] = ncache[k] \/ ncache'[k] = node'[k]
  BY DEF NodeChanges, StoreNode
<1>4. "nodes" \notin Lag => ncache' = node' BY DEF NodeChanges, StoreNode
<1>5. NodesByOthers BY <1>2, <1>3, <1>4 DEF NodesByOthers
<1>6. QED BY <1>1, <1>5, NothingByOthers

LEMMA EnvironmentSteps ==
  ASSUME TypeOK, Environment
  PROVE  MachinesByOthers /\ RequestsByOthers /\ NodesByOthers /\ EnvFrame /\ UNCHANGED dry
<1> DEFINE Goal == MachinesByOthers /\ RequestsByOthers /\ NodesByOthers /\ EnvFrame /\ UNCHANGED dry
<1>1. ASSUME NEW r \in Requests, RequestRaised(r) \/ RequestClosed(r) PROVE Goal
  <2>1. UNCHANGED <<apiVars, viewVars, nodeVars, dry>> /\ EnvFrame
    BY <1>1 DEF RequestRaised, RequestClosed, hubVars
  <2>2. \A q \in Requests : \/ request'[q] = request[q]
                            \/ request[q] = "unraised" /\ request'[q] = "pending"
                            \/ request[q] = "pending" /\ request'[q] = "closed"
    BY <1>1 DEF RequestRaised, RequestClosed, StoreRequest, TypeOK, ClustersTypeOK
  <2>3. \A q \in Requests : raisedAt'[q] = IF request[q] = "unraised" /\ request'[q] = "pending"
                                           THEN node[NodeOf[q]].boot ELSE raisedAt[q]
    BY <1>1 DEF RequestRaised, RequestClosed, StoreRequest, TypeOK, ClustersTypeOK
  <2>4. rcache' = rcache \/ rcache' = {q \in Requests : request'[q] = "pending"}
    BY <1>1 DEF RequestRaised, RequestClosed, StoreRequest
  <2>5. RequestsByOthers BY <2>2, <2>4, <2>3 DEF RequestsByOthers, TypeOK, ClustersTypeOK
  <2>6. QED BY <2>1, <2>5, NothingByOthers
<1>2. CASE SyncRequests
  <2>1. UNCHANGED <<apiVars, viewVars, nodeVars, request, raisedAt, dry>> /\ EnvFrame
        /\ rcache' = {q \in Requests : request'[q] = "pending"}
    BY <1>2 DEF SyncRequests, hubVars
  <2>2. RequestsByOthers BY <2>1 DEF RequestsByOthers, TypeOK, ClustersTypeOK
  <2>3. QED BY <2>1, <2>2, NothingByOthers
<1>3. CASE \/ FallbackChanges \/ ClusterChanges \/ ModeChanges
           \/ \E n \in Nodes : ChecksChange(n) \/ GraceElapses(n)
  <2>1. UNCHANGED <<apiVars, viewVars, nodeVars, reqVars, dry>> /\ EnvFrame
    BY <1>3 DEF FallbackChanges, ClusterChanges, ModeChanges, ChecksChange, GraceElapses, hubVars
  <2>2. QED BY <2>1, NothingByOthers
<1>4. ASSUME NEW n \in Nodes, SyncMachine(n) PROVE Goal
  <2>1. UNCHANGED <<machine, viewVars, nodeVars, reqVars, dry>> /\ EnvFrame
    BY <1>4 DEF SyncMachine, hubVars
  <2>2. MachinesByOthers BY <2>1 DEF MachinesByOthers, OthersWrite, viewVars
  <2>3. QED BY <2>1, <2>2, NothingByOthers
<1>5. ASSUME NEW n \in Nodes, SyncNode(n) PROVE Goal
  <2>1. UNCHANGED <<apiVars, viewVars, node, reqVars, dry>> /\ EnvFrame
        /\ ncache' = [ncache EXCEPT ![n] = node[n]]
    BY <1>5 DEF SyncNode, hubVars
  <2>2. \A k \in Nodes : ncache'[k] = ncache[k] \/ ncache'[k] = node[k]
    BY <2>1 DEF TypeOK, ClustersTypeOK
  <2>3. ncache = node => ncache' = node' BY <2>1 DEF TypeOK, ClustersTypeOK
  <2>4. NodesByOthers BY <2>1, <2>2, <2>3, BootType DEF NodesByOthers
  <2>5. QED BY <2>1, <2>4, NothingByOthers
<1>6. ASSUME NEW c \in Conditions, FaultChanges(c) PROVE Goal
  <2>1. NodeOf[c] \in Nodes BY ConstantsAssumption DEF Signals
  <2>2. node[NodeOf[c]] \in NodeRecords BY <2>1 DEF TypeOK, ClustersTypeOK
  <2> DEFINE rec == [node[NodeOf[c]] EXCEPT !.faults = IF c \in @ THEN @ \ {c} ELSE @ \cup {c}]
  <2>3. rec.exists = node[NodeOf[c]].exists /\ node[NodeOf[c]].boot <= rec.boot
    BY <2>1, <2>2, BootType DEF NodeRecords
  <2>4. \A d \in rec.faults : d \in node[NodeOf[c]].faults \/ d = c BY <2>2 DEF NodeRecords
  <2>5. NodeChanges(NodeOf[c], rec) BY <1>6 DEF FaultChanges
  <2>6. QED BY <2>1, <2>3, <2>4, <2>5, NodeChangesByOthers
<1>7. ASSUME NEW n \in Nodes,
             ProviderRestarts(n) \/ NodeRestarts(n) \/ NodeReady(n) \/ NodeRemoved(n)
      PROVE  Goal
  <2>1. node[n] \in NodeRecords BY DEF TypeOK, ClustersTypeOK
  <2>2. /\ Booted(node[n]).faults = node[n].faults /\ Booted(node[n]).exists = node[n].exists
        /\ node[n].boot <= Booted(node[n]).boot
    BY <2>1, BootType DEF Booted, NodeRecords
  <2>3. /\ [node[n] EXCEPT !.ready = TRUE].faults = node[n].faults
        /\ [node[n] EXCEPT !.ready = TRUE].exists = node[n].exists
        /\ [node[n] EXCEPT !.exists = FALSE].faults = node[n].faults
        /\ [node[n] EXCEPT !.exists = FALSE].exists = FALSE
        /\ node[n].boot <= [node[n] EXCEPT !.ready = TRUE].boot
        /\ node[n].boot <= [node[n] EXCEPT !.exists = FALSE].boot
    BY <2>1, BootType DEF NodeRecords
  <2>4. CASE ProviderRestarts(n) \/ NodeRestarts(n)
    BY <2>2, <2>4, NodeChangesByOthers DEF ProviderRestarts, NodeRestarts
  <2>5. CASE NodeReady(n) BY <2>3, <2>5, NodeChangesByOthers DEF NodeReady
  <2>6. CASE NodeRemoved(n) BY <2>3, <2>6, NodeChangesByOthers DEF NodeRemoved
  <2>7. QED BY <1>7, <2>4, <2>5, <2>6
<1>8. ASSUME NEW n \in Nodes,
             \/ ChecksLook(n) \/ UserPauses(n) \/ UserOptsOut(n) \/ UserMarks(n) \/ UserUnmarks(n)
             \/ MachineDeleted(n) \/ MachineRemoved(n)
      PROVE  Goal
  <2>1. machine[n] \in Machines BY DEF TypeOK, MachinesTypeOK
  <2>2. ASSUME NEW m \in Machines, MachineChanges(n, m),
               m.action = machine[n].action, m.request = machine[n].request, m.boot = machine[n].boot,
               machine[n].marked /\ "unmark" \notin Disturbances => m.marked,
               machine[n].deleting => m.deleting,
               ~m.exists => ~machine[n].exists \/ ~node[n].exists
        PROVE  Goal
    BY <2>2, MachineChangesByOthers
  <2>3. CASE ChecksLook(n)
    BY <2>1, <2>2, <2>3 DEF ChecksLook, Machines
  <2>4. CASE UserPauses(n)
    BY <2>1, <2>2, <2>4 DEF UserPauses, Machines
  <2>5. CASE UserOptsOut(n)
    BY <2>1, <2>2, <2>5 DEF UserOptsOut, Machines
  <2>6. CASE UserMarks(n)
    BY <2>1, <2>2, <2>6 DEF UserMarks, Machines
  <2>7. CASE UserUnmarks(n)
    BY <2>1, <2>2, <2>7 DEF UserUnmarks, Machines
  <2>8. CASE MachineDeleted(n)
    BY <2>1, <2>2, <2>8 DEF MachineDeleted, Machines
  <2>9. CASE MachineRemoved(n)
    BY <2>1, <2>2, <2>9 DEF MachineRemoved, Machines
  <2>10. QED BY <1>8, <2>3, <2>4, <2>5, <2>6, <2>7, <2>8, <2>9
<1>9. QED
  BY <1>1, <1>2, <1>3, <1>4, <1>5, <1>6, <1>7, <1>8 DEF Environment

-----------------------------------------------------------------------------
(* The writes of the operator *)

\* Machine n is written, and the pass has its copy from the reply or has lost
\* track of it.
Wrote(n) ==
  /\ \/ vfresh'[n] = TRUE /\ view'[n] = machine'[n]
     \/ vfresh'[n] = FALSE /\ view'[n] = view[n]
  /\ \A k \in Nodes \ {n} :
       machine'[k] = machine[k] /\ view'[k] = view[k] /\ vfresh'[k] = vfresh[k]

MarksIt(n) ==
  /\ Mark /\ n = NodeOf[sig] /\ machine[n].exists /\ machine'[n] = MarkStored
  /\ (vfresh'[n] /\ observed' = [observed EXCEPT ![Key(sig)] = Call])
       \/ ("mark" \in Lost /\ ~vfresh'[n])

EscalatesIt(n) ==
  /\ Escalate /\ n = NodeOf[sig] /\ vfresh[n] /\ machine'[n] = Escalated(view[n])

ReleasesIt(n) ==
  /\ vfresh[n] /\ ~view[n].deleting /\ machine'[n] = Released(view[n])
  /\ \/ ReleaseAnswered /\ n = NodeOf[sig] /\ pc' = "signals"
     \/ ReleaseRestart(n) /\ ~dry

LEMMA WriteKinds ==
  ASSUME TypeOK, NEW n \in Nodes, NEW m \in Machines
  PROVE  /\ PatchMachine(n, m) => Wrote(n) /\ machine'[n] = m /\ vfresh'[n]
         /\ WriteBehind(n, m) => Wrote(n) /\ machine'[n] = m /\ ~vfresh'[n]
<1>1. PatchMachine(n, m) => Wrote(n) /\ machine'[n] = m /\ vfresh'[n]
  BY DEF PatchMachine, StoreMachine, Wrote, TypeOK, MachinesTypeOK
<1>2. WriteBehind(n, m) => Wrote(n) /\ machine'[n] = m /\ ~vfresh'[n]
  BY DEF WriteBehind, StoreMachine, Wrote, TypeOK, MachinesTypeOK
<1>3. QED BY <1>1, <1>2

LEMMA MarkSteps ==
  ASSUME TypeOK, Mark
  PROVE  UNCHANGED <<apiVars, viewVars>> \/ (Wrote(NodeOf[sig]) /\ MarksIt(NodeOf[sig]))
<1>1. pc = "handle" BY DEF Mark, Proceeds, Remediates
<1>2. NodeOf[sig] \in Nodes BY <1>1, ConstantsAssumption DEF TypeOK, PassTypeOK
<1>3. MarkStored \in Machines BY <1>1, MarkStoredType
<1>4. CASE machine[NodeOf[sig]].exists /\ PatchMachine(NodeOf[sig], MarkStored)
           /\ Conclude(Call, "none")
  BY <1>2, <1>3, <1>4, WriteKinds DEF MarksIt, Conclude
<1>5. CASE "mark" \in Lost /\ machine[NodeOf[sig]].exists /\ WriteBehind(NodeOf[sig], MarkStored)
  BY <1>2, <1>3, <1>5, WriteKinds DEF MarksIt
<1>6. QED BY <1>4, <1>5 DEF Mark

LEMMA EscalateSteps ==
  ASSUME TypeOK, Escalate
  PROVE  UNCHANGED <<apiVars, viewVars>> \/ (Wrote(NodeOf[sig]) /\ EscalatesIt(NodeOf[sig]))
<1>1. pc = "handle" BY DEF Escalate, Remediates
<1>2. NodeOf[sig] \in Nodes BY <1>1, ConstantsAssumption DEF TypeOK, PassTypeOK
<1>3. Escalated(Machine) \in Machines BY <1>2, EscalatedType DEF Machine, TypeOK, MachinesTypeOK
<1>4. CASE vfresh[NodeOf[sig]] /\ PatchMachine(NodeOf[sig], Escalated(Machine))
  BY <1>2, <1>3, <1>4, WriteKinds DEF EscalatesIt, Machine
<1>5. CASE vfresh[NodeOf[sig]] /\ WriteBehind(NodeOf[sig], Escalated(Machine))
  BY <1>2, <1>3, <1>5, WriteKinds DEF EscalatesIt, Machine
<1>6. QED BY <1>4, <1>5 DEF Escalate

LEMMA ReleaseSteps ==
  ASSUME TypeOK, NEW n \in Nodes, Release(n)
  PROVE  \/ UNCHANGED <<apiVars, viewVars>>
         \/ Wrote(n) /\ vfresh[n] /\ ~view[n].deleting /\ machine'[n] = Released(view[n])
<1>1. Released(view[n]) \in Machines BY ReleasedType DEF TypeOK, MachinesTypeOK
<1>2. QED BY <1>1, WriteKinds DEF Release

\* What a step of the operator does to the Machines and to its copies of them.
OperatorKinds ==
  \/ UNCHANGED <<apiVars, viewVars>>
  \/ UNCHANGED apiVars /\ (Begin \/ Reread \/ EndPass)
  \/ \E n \in Nodes : Wrote(n) /\ (MarksIt(n) \/ EscalatesIt(n) \/ ReleasesIt(n))

LEMMA OperatorSteps ==
  ASSUME TypeOK, Pass \/ Crash
  PROVE  OperatorKinds /\ UNCHANGED <<nodeVars, dry, raisedAt>>
<1>1. CASE Begin \/ PassOver \/ \E s \in todo : Take(s) \/ PassBy(s) \/ Unreadable(s)
  BY <1>1 DEF Begin, PassOver, Take, PassBy, Unreadable, OperatorKinds, hubVars, reqVars
<1>2. CASE StartRelease \/ Answer \/ Reread
  BY <1>2 DEF StartRelease, Answer, Reread, OperatorKinds, hubVars, reqVars
<1>3. CASE Finish \/ Crash
  BY <1>3 DEF Finish, Crash, EndPass, OperatorKinds, hubVars, reqVars
<1>4. CASE Handle
  <2>1. UNCHANGED <<nodeVars, dry, raisedAt>>
    BY <1>4 DEF Handle, Reported, RestartOver, Escalate, Skipped, ReportedUnavailable, HeldBack,
                Mark, Conclude, hubVars, reqVars
  <2>2. CASE Reported \/ RestartOver \/ Skipped \/ ReportedUnavailable \/ HeldBack
    BY <2>1, <2>2
       DEF Reported, RestartOver, Skipped, ReportedUnavailable, HeldBack, OperatorKinds
  <2>3. CASE Escalate \/ Mark
    <3>1. NodeOf[sig] \in Nodes
      BY <2>3, ConstantsAssumption DEF Escalate, Mark, Proceeds, Remediates, TypeOK, PassTypeOK
    <3>2. QED BY <2>1, <2>3, <3>1, MarkSteps, EscalateSteps DEF OperatorKinds
  <2>4. QED BY <1>4, <2>2, <2>3 DEF Handle
<1>5. CASE ReleaseAnswered
  <2>1. NodeOf[sig] \in Nodes
    BY <1>5, ConstantsAssumption DEF ReleaseAnswered, TypeOK, PassTypeOK
  <2>2. UNCHANGED <<nodeVars, dry, raisedAt>> BY <1>5 DEF ReleaseAnswered, hubVars, reqVars
  <2>3. CASE Release(NodeOf[sig]) /\ pc' = "signals"
    BY <1>5, <2>1, <2>2, <2>3, ReleaseSteps DEF OperatorKinds, ReleasesIt
  <2>4. CASE UNCHANGED <<apiVars, viewVars>> BY <2>2, <2>4 DEF OperatorKinds
  <2>5. QED BY <1>5, <2>3, <2>4 DEF ReleaseAnswered
<1>6. ASSUME NEW n \in left, ReleaseRestart(n)
      PROVE  OperatorKinds /\ UNCHANGED <<nodeVars, dry, raisedAt>>
  <2>1. n \in Nodes BY DEF TypeOK, PassTypeOK
  <2>2. UNCHANGED <<nodeVars, dry, raisedAt>> BY <1>6 DEF ReleaseRestart, hubVars, reqVars
  <2>3. CASE dry BY <1>6, <2>2, <2>3 DEF ReleaseRestart, OperatorKinds
  <2>4. CASE ~dry
    <3>1. Release(n) BY <1>6, <2>4 DEF ReleaseRestart
    <3>2. QED BY <1>6, <2>1, <2>2, <2>4, <3>1, ReleaseSteps DEF OperatorKinds, ReleasesIt
  <2>5. QED BY <2>3, <2>4
<1>7. QED BY <1>1, <1>2, <1>3, <1>4, <1>5, <1>6 DEF Pass

-----------------------------------------------------------------------------
(* A copy that has the resource version is the Machine as it is *)

LEMMA CopiesWritten ==
  ASSUME TypeOK, CopiesCurrent, NEW n \in Nodes, NEW m \in Machines,
         PatchMachine(n, m) \/ WriteBehind(n, m)
  PROVE  CopiesCurrent'
<1>1. \A k \in Nodes : vfresh'[k] => view'[k] = machine'[k]
  BY DEF CopiesCurrent, PatchMachine, WriteBehind, StoreMachine, TypeOK, MachinesTypeOK
<1>2. \A k \in Nodes : mfresh'[k] => mcache'[k] = machine'[k]
  BY DEF CopiesCurrent, PatchMachine, WriteBehind, StoreMachine, TypeOK, MachinesTypeOK
<1>3. "machines" \notin Lag => mcache' = machine'
  BY DEF PatchMachine, WriteBehind, StoreMachine
<1>4. QED BY <1>1, <1>2, <1>3 DEF CopiesCurrent

LEMMA CopiesKept ==
  ASSUME TypeOK, CopiesCurrent, [Next]_vars
  PROVE  CopiesCurrent'
<1>1. ASSUME UNCHANGED <<apiVars, viewVars>> PROVE CopiesCurrent'
  BY <1>1 DEF CopiesCurrent, apiVars, viewVars
<1>2. CASE Begin
  BY <1>2 DEF Begin, CopiesCurrent, apiVars
<1>3. CASE Reread
  BY <1>3 DEF Reread, CopiesCurrent, apiVars, viewVars, TypeOK, MachinesTypeOK
<1>4. CASE Finish \/ Crash
  BY <1>4 DEF Finish, Crash, EndPass, CopiesCurrent, apiVars
<1>5. CASE \/ PassOver \/ StartRelease \/ Answer
           \/ \E s \in todo : Take(s) \/ PassBy(s) \/ Unreadable(s)
  BY <1>1, <1>5 DEF PassOver, StartRelease, Answer, Take, PassBy, Unreadable
<1>6. CASE Handle
  <2>1. pc = "handle"
    BY <1>6 DEF Handle, Reported, RestartOver, Escalate, Skipped, ReportedUnavailable, HeldBack,
                Mark, Proceeds, Remediates
  <2>2. NodeOf[sig] \in Nodes BY <2>1, ConstantsAssumption DEF TypeOK, PassTypeOK
  <2>3. Escalated(Machine) \in Machines /\ MarkStored \in Machines
    BY <2>1, <2>2, EscalatedType, MarkStoredType DEF Machine, TypeOK, MachinesTypeOK
  <2>4. CASE Reported \/ RestartOver \/ Skipped \/ ReportedUnavailable \/ HeldBack
    BY <1>1, <2>4 DEF Reported, RestartOver, Skipped, ReportedUnavailable, HeldBack
  <2>5. CASE Escalate BY <1>1, <2>2, <2>3, <2>5, CopiesWritten DEF Escalate
  <2>6. CASE Mark BY <1>1, <2>2, <2>3, <2>6, CopiesWritten DEF Mark
  <2>7. QED BY <1>6, <2>4, <2>5, <2>6 DEF Handle
<1>7. ASSUME NEW n \in Nodes, Release(n) PROVE CopiesCurrent'
  <2>1. Released(view[n]) \in Machines BY ReleasedType DEF TypeOK, MachinesTypeOK
  <2>2. QED BY <1>1, <1>7, <2>1, CopiesWritten DEF Release
<1>8. CASE ReleaseAnswered
  <2>1. NodeOf[sig] \in Nodes
    BY <1>8, ConstantsAssumption DEF ReleaseAnswered, TypeOK, PassTypeOK
  <2>2. QED BY <1>1, <1>7, <1>8, <2>1 DEF ReleaseAnswered, apiVars, viewVars
<1>9. CASE \E n \in left : ReleaseRestart(n)
  BY <1>1, <1>7, <1>9 DEF ReleaseRestart, TypeOK, PassTypeOK
<1>10. CASE Environment
  <2>1. CASE \/ \E r \in Requests : RequestRaised(r) \/ RequestClosed(r)
             \/ FallbackChanges \/ ClusterChanges \/ ModeChanges \/ SyncRequests
             \/ \E n \in Nodes : ChecksChange(n) \/ GraceElapses(n) \/ SyncNode(n)
    BY <1>1, <2>1 DEF RequestRaised, RequestClosed, FallbackChanges, ClusterChanges, ModeChanges,
                      SyncRequests, ChecksChange, GraceElapses, SyncNode
  <2>2. CASE \/ \E c \in Conditions : FaultChanges(c)
             \/ \E n \in Nodes : ProviderRestarts(n) \/ NodeRestarts(n) \/ NodeReady(n) \/ NodeRemoved(n)
    BY <1>1, <2>2 DEF FaultChanges, ProviderRestarts, NodeRestarts, NodeReady, NodeRemoved, NodeChanges
  <2>3. ASSUME NEW n \in Nodes, SyncMachine(n) PROVE CopiesCurrent'
    BY <2>3 DEF SyncMachine, CopiesCurrent, viewVars, TypeOK, MachinesTypeOK
  <2>4. ASSUME NEW n \in Nodes,
               \/ ChecksLook(n) \/ UserPauses(n) \/ UserOptsOut(n) \/ UserMarks(n) \/ UserUnmarks(n)
               \/ MachineDeleted(n) \/ MachineRemoved(n)
        PROVE  CopiesCurrent'
    <3>1. machine[n] \in Machines BY DEF TypeOK, MachinesTypeOK
    <3>2. ASSUME NEW m \in Machines, MachineChanges(n, m) PROVE CopiesCurrent'
      BY <3>2, CopiesWritten DEF MachineChanges
    <3>3. CASE ChecksLook(n) BY <3>1, <3>2, <3>3 DEF ChecksLook, Machines
    <3>4. CASE UserPauses(n) BY <3>1, <3>2, <3>4 DEF UserPauses, Machines
    <3>5. CASE UserOptsOut(n) BY <3>1, <3>2, <3>5 DEF UserOptsOut, Machines
    <3>6. CASE UserMarks(n) BY <3>1, <3>2, <3>6 DEF UserMarks, Machines
    <3>7. CASE UserUnmarks(n) BY <3>1, <3>2, <3>7 DEF UserUnmarks, Machines
    <3>8. CASE MachineDeleted(n) BY <3>1, <3>2, <3>8 DEF MachineDeleted, Machines
    <3>9. CASE MachineRemoved(n) BY <3>1, <3>2, <3>9 DEF MachineRemoved, Machines
    <3>10. QED BY <2>4, <3>3, <3>4, <3>5, <3>6, <3>7, <3>8, <3>9
  <2>5. QED BY <1>10, <2>1, <2>2, <2>3, <2>4 DEF Environment
<1>11. CASE UNCHANGED vars BY <1>1, <1>11 DEF vars
<1>12. QED
  BY <1>2, <1>3, <1>4, <1>5, <1>6, <1>8, <1>9, <1>10, <1>11 DEF Next, Pass

-----------------------------------------------------------------------------
(* What the patches do to a Machine, field by field *)

LEMMA MarkStoredFields ==
  ASSUME TypeOK, pc = "handle", ~Machine.marked
  PROVE  /\ MarkStored.exists = machine[NodeOf[sig]].exists
         /\ MarkStored.deleting = machine[NodeOf[sig]].deleting
         /\ MarkStored.marked = TRUE
         /\ Machine.action = "none" =>
              MarkStored.action = IF AsRestart THEN "Restart" ELSE "Remediate"
         /\ MarkStored.action \in {"Restart", "Remediate", machine[NodeOf[sig]].action}
         /\ \/ MarkStored.request = machine[NodeOf[sig]].request
            \/ AsRestart /\ sig \in Requests /\ MarkStored.request = sig
         /\ AsRestart /\ sig \in Requests /\ Machine.request = NoRequest => MarkStored.request = sig
<1>1. sig \in Signals /\ read \in Reads BY DEF TypeOK, PassTypeOK
<1>2. NodeOf[sig] \in Nodes BY <1>1, ConstantsAssumption
<1>3. Machine \in Machines /\ machine[NodeOf[sig]] \in Machines
  BY <1>2 DEF Machine, TypeOK, MachinesTypeOK
<1>4. MarkWanted.marked = TRUE /\ MarkWanted.action = IF AsRestart THEN "Restart" ELSE "Remediate"
  BY <1>3 DEF MarkWanted, Marked, Machines
<1>5. MarkWanted.request =
        IF AsRestart /\ sig \in Requests THEN sig ELSE Machine.request
  BY <1>3, NoRequestAssumption DEF MarkWanted, Marked, RequestOf, Machines
<1>6. /\ MarkStored.exists = machine[NodeOf[sig]].exists
      /\ MarkStored.deleting = machine[NodeOf[sig]].deleting
      /\ MarkStored.marked =
           IF Machine.marked # MarkWanted.marked THEN MarkWanted.marked ELSE machine[NodeOf[sig]].marked
      /\ MarkStored.action =
           IF Machine.action # MarkWanted.action THEN MarkWanted.action ELSE machine[NodeOf[sig]].action
      /\ MarkStored.request =
           IF Machine.request # MarkWanted.request THEN MarkWanted.request
           ELSE machine[NodeOf[sig]].request
  BY <1>3 DEF MarkStored, MergePatch, Machines
<1>7. MarkStored.marked = TRUE BY <1>4, <1>6
<1>8. QED BY <1>4, <1>5, <1>6, <1>7, NoRequestAssumption

LEMMA PatchFields ==
  ASSUME NEW m \in Machines
  PROVE  /\ Escalated(m).exists = m.exists /\ Escalated(m).deleting = m.deleting
         /\ Escalated(m).marked = m.marked /\ Escalated(m).action = "Remediate"
         /\ Escalated(m).request = NoRequest
         /\ Released(m).exists = m.exists /\ Released(m).deleting = m.deleting
         /\ Released(m).marked = FALSE /\ Released(m).action = "none"
         /\ Released(m).request = NoRequest
BY DEF Escalated, Released, Machines

\* A Machine the operator marks is one it read as unmarked.
LEMMA MarksUnmarked ==
  ASSUME Mark
  PROVE  /\ pc = "handle" /\ ~dry /\ Machine.marked = FALSE /\ ~Machine.deleting /\ Machine.exists
         /\ ~NodeGone /\ Decided # "Report"
BY DEF Mark, Proceeds, Remediates, Guard

\* The operator adds no request to a Machine but the one it handles, and
\* neither removes nor restores a Machine.
LEMMA OperatorFields ==
  ASSUME TypeOK, CopiesCurrent, Pass \/ Crash, NEW n \in Nodes
  PROVE  /\ machine'[n].exists = machine[n].exists /\ machine'[n].deleting = machine[n].deleting
         /\ \/ machine'[n].request \in {machine[n].request, NoRequest}
            \/ /\ pc = "handle" /\ sig \in Requests /\ n = NodeOf[sig] /\ AsRestart
               /\ machine'[n].request = sig
<1>1. machine[n] \in Machines /\ view[n] \in Machines BY DEF TypeOK, MachinesTypeOK
<1>2. ASSUME machine'[n] = machine[n]
      PROVE  /\ machine'[n].exists = machine[n].exists /\ machine'[n].deleting = machine[n].deleting
             /\ machine'[n].request = machine[n].request
  BY <1>2
<1>3. ASSUME NEW k \in Nodes, Wrote(k), k # n PROVE machine'[n] = machine[n]
  BY <1>3 DEF Wrote
<1>4. CASE MarksIt(n)
  <2>1. pc = "handle" /\ ~Machine.marked /\ n = NodeOf[sig] /\ machine'[n] = MarkStored
    BY <1>4, MarksUnmarked DEF MarksIt
  <2>2. QED BY <2>1, MarkStoredFields
<1>5. CASE EscalatesIt(n) \/ ReleasesIt(n)
  <2>1. view[n] = machine[n] BY <1>5 DEF EscalatesIt, ReleasesIt, CopiesCurrent
  <2>2. machine'[n] = Escalated(view[n]) \/ machine'[n] = Released(view[n])
    BY <1>5 DEF EscalatesIt, ReleasesIt
  <2>3. QED BY <1>1, <2>1, <2>2, PatchFields
<1>6. CASE UNCHANGED apiVars BY <1>2, <1>6 DEF apiVars
<1>7. QED BY <1>2, <1>3, <1>4, <1>5, <1>6, OperatorSteps DEF OperatorKinds

\* Only the operator answers a request, the one it handles, while it is
\* pending and not in a dry run.
LEMMA OperatorAnswers ==
  ASSUME TypeOK, Pass \/ Crash
  PROVE  /\ \A r \in Requests :
              \/ request'[r] = request[r]
              \/ /\ pc = "answer" /\ r = sig /\ ~dry
                 /\ request[r] = "pending" /\ request'[r] = ans /\ ans \in {"True", "False"}
         /\ rcache' = rcache \/ rcache' = {r \in Requests : request'[r] = "pending"}
<1>1. CASE Answer
  <2>1. sig \in Requests /\ ans \in {"True", "False"}
    BY <1>1 DEF Answer, TypeOK, PassTypeOK
  <2>2. \/ UNCHANGED <<request, rcache>>
        \/ pc = "answer" /\ ~dry /\ request[sig] = "pending" /\ StoreRequest(sig, ans)
    BY <1>1 DEF Answer, Answers
  <2>3. QED BY <2>1, <2>2 DEF StoreRequest, TypeOK, ClustersTypeOK
<1>2. CASE ~Answer
  <2>1. UNCHANGED <<request, rcache>>
    BY <1>2 DEF Pass, Begin, PassOver, Take, PassBy, Unreadable, Handle, Reported, RestartOver, Escalate,
       Skipped, ReportedUnavailable, HeldBack, Mark, Conclude, ReleaseAnswered, Reread, StartRelease,
       ReleaseRestart, Finish, Crash, EndPass, reqVars
  <2>2. QED BY <2>1
<1>3. QED BY <1>1, <1>2

\* What handling a signal comes to.
LEMMA HandleKinds ==
  ASSUME TypeOK, Handle
  PROVE  /\ pc = "handle" /\ UNCHANGED <<reqVars, read, passVars, tryVars, left, dry>>
         /\ \/ observed' = [observed EXCEPT ![Key(sig)] = Call]
            \/ observed' = [observed EXCEPT ![Key(sig)] = NoCall]
         /\ \/ pc' = "signals" /\ ans' = "none"
            \/ pc' = "answer" /\ ans' = "False" /\ sig \in Requests
               /\ (Reported \/ Skipped \/ ReportedUnavailable)
            \/ pc' = "answer" /\ ans' = "True" /\ RestartOver
<1>1. pc = "handle"
  BY DEF Handle, Reported, RestartOver, Escalate, Skipped, ReportedUnavailable, HeldBack, Mark,
         Proceeds, Remediates
<1>2. UNCHANGED <<reqVars, read, passVars, tryVars, left, dry>>
  BY DEF Handle, Reported, RestartOver, Escalate, Skipped, ReportedUnavailable, HeldBack, Mark,
         Conclude, hubVars
<1>3. \/ observed' = [observed EXCEPT ![Key(sig)] = Call]
      \/ observed' = [observed EXCEPT ![Key(sig)] = NoCall]
  BY DEF Handle, Reported, RestartOver, Escalate, Skipped, ReportedUnavailable, HeldBack, Mark, Conclude
<1>4. CASE RestartOver BY <1>1, <1>2, <1>3, <1>4 DEF RestartOver, Conclude
<1>5. CASE Escalate \/ HeldBack \/ Mark
  BY <1>1, <1>2, <1>3, <1>5 DEF Escalate, HeldBack, Mark, Conclude
<1>6. CASE Reported \/ Skipped \/ ReportedUnavailable
  <2>1. \/ pc' = "signals" /\ ans' = "none"
        \/ pc' = "answer" /\ ans' = "False" /\ sig \in Requests
    BY <1>6 DEF Reported, Skipped, ReportedUnavailable, Conclude, Decline
  <2>2. QED BY <1>1, <1>2, <1>3, <1>6, <2>1
<1>7. QED BY <1>4, <1>5, <1>6 DEF Handle

-----------------------------------------------------------------------------
(* PassInv, part by part *)

\* What a step of the operator does to what it has read.
LEMMA OperatorReads ==
  ASSUME TypeOK, Pass \/ Crash
  PROVE  \/ Begin
         \/ pc' = "idle" /\ EndPass
         \/ PassOver
         \/ /\ pc # "idle" /\ pc' # "idle" /\ read' = read /\ todo' \subseteq todo
            /\ asking' \subseteq asking \cup (todo \cap Requests)
<1>1. CASE \E s \in todo : Take(s) \/ PassBy(s) \/ Unreadable(s)
  BY <1>1 DEF Take, PassBy, Unreadable
<1>2. CASE Handle
  <2>1. pc = "handle" /\ pc' \in {"signals", "answer"} /\ UNCHANGED <<read, passVars>>
    BY <1>2, HandleKinds
  <2>2. QED BY <2>1 DEF passVars
<1>3. CASE Answer \/ ReleaseAnswered \/ Reread \/ StartRelease \/ \E n \in left : ReleaseRestart(n)
  BY <1>3 DEF Answer, ReleaseAnswered, Reread, StartRelease, ReleaseRestart, passVars
<1>4. CASE Finish \/ Crash
  BY <1>4 DEF Finish, Crash, EndPass
<1>5. QED BY <1>1, <1>2, <1>3, <1>4 DEF Pass

LEMMA NodesKnownKept ==
  ASSUME TypeOK, CopiesCurrent, NodesKnown, [Next]_vars
  PROVE  NodesKnown'
<1>1. CASE Environment
  <2>1. MachinesByOthers /\ NodesByOthers /\ UNCHANGED <<pc, read>>
    BY <1>1, EnvironmentSteps DEF EnvFrame
  <2>2. ASSUME NEW n \in Nodes
        PROVE  /\ \A c \in node'[n].faults \cup ncache'[n].faults : NodeOf[c] = n
               /\ ~machine'[n].exists => ~node'[n].exists
               /\ ~node'[n].exists => machine'[n].deleting
               /\ ~ncache'[n].exists => ~node'[n].exists
               /\ ~node[n].exists => ~node'[n].exists
    <3>1. OthersWrite(n) BY <2>1 DEF MachinesByOthers
    <3>2. \A c \in node'[n].faults : NodeOf[c] = n BY <2>1 DEF NodesByOthers, NodesKnown
    <3>3. ncache'[n] = ncache[n] \/ ncache'[n] = node'[n] BY <2>1 DEF NodesByOthers
    <3>4. ~node[n].exists => ~node'[n].exists BY <2>1 DEF NodesByOthers
    <3>5. ~node'[n].exists => machine[n].deleting BY <2>1 DEF NodesByOthers, NodesKnown
    <3>6. QED BY <3>1, <3>2, <3>3, <3>4, <3>5 DEF OthersWrite, NodesKnown
  <2>3. "nodes" \notin Lag => ncache' = node' BY <2>1 DEF NodesByOthers, NodesKnown
  <2>4. QED BY <2>1, <2>2, <2>3 DEF NodesKnown
<1>2. CASE Pass \/ Crash
  <2>1. UNCHANGED <<node, ncache>> BY <1>2, OperatorSteps DEF nodeVars
  <2>2. \A n \in Nodes : machine'[n].exists = machine[n].exists
                         /\ machine'[n].deleting = machine[n].deleting
    BY <1>2, OperatorFields
  <2>3. pc' # "idle" => \A n \in Nodes : /\ \A c \in read'.nodes[n].faults : NodeOf[c] = n
                                         /\ ~read'.nodes[n].exists => ~node[n].exists
    <3>1. CASE Begin
      <4>1. read'.nodes = ncache BY <3>1 DEF Begin
      <4>2. QED BY <4>1 DEF NodesKnown
    <3>2. CASE EndPass BY <3>2 DEF EndPass
    <3>3. CASE PassOver BY <3>3 DEF PassOver
    <3>4. CASE pc # "idle" /\ read' = read BY <3>4 DEF NodesKnown
    <3>5. QED BY <1>2, <3>1, <3>2, <3>3, <3>4, OperatorReads
  <2>4. QED BY <2>1, <2>2, <2>3 DEF NodesKnown
<1>3. CASE UNCHANGED vars
  BY <1>3 DEF vars, apiVars, nodeVars, NodesKnown
<1>4. QED BY <1>1, <1>2, <1>3 DEF Next

LEMMA RequestsNamedKept ==
  ASSUME TypeOK, CopiesCurrent, RequestsInHand, RequestsNamed, [Next]_vars
  PROVE  RequestsNamed'
<1>1. CASE Environment
  <2>1. MachinesByOthers /\ RequestsByOthers /\ UNCHANGED <<todo, asking>>
    BY <1>1, EnvironmentSteps DEF EnvFrame, passVars
  <2>2. \A r \in Requests : request[r] # "unraised" => request'[r] # "unraised"
    BY <2>1 DEF RequestsByOthers
  <2>3. rcache' \subseteq Requests /\ rcache \subseteq Requests /\ asking \subseteq Requests
    BY <1>1, EnvironmentPreservesType DEF TypeOK, ClustersTypeOK, PassTypeOK
  <2>4. \A r \in rcache' : request'[r] # "unraised"
    BY <2>1, <2>2, <2>3 DEF RequestsByOthers, RequestsNamed
  <2>5. \A r \in (todo \cap Requests) \cup asking : request'[r] # "unraised"
    BY <2>2, <2>3 DEF RequestsNamed
  <2>6. \A n \in Nodes : machine'[n].request = machine[n].request
    BY <2>1 DEF MachinesByOthers, OthersWrite
  <2>7. \A n \in Nodes : Named(n, machine[n]) BY DEF RequestsNamed
  <2>8. \A n \in Nodes : machine'[n].request \in Requests =>
          /\ NodeOf[machine'[n].request] = n /\ Want[machine'[n].request] = "Restart"
          /\ request'[machine'[n].request] # "unraised"
    BY <2>2, <2>6, <2>7 DEF Named
  <2>9. QED BY <2>1, <2>4, <2>5, <2>8 DEF RequestsNamed, Named
<1>2. CASE Pass \/ Crash
  <2>1. \A r \in Requests : request[r] # "unraised" => request'[r] # "unraised"
    BY <1>2, OperatorAnswers
  <2>2. rcache' = rcache \/ rcache' = {r \in Requests : request'[r] = "pending"}
    BY <1>2, OperatorAnswers
  <2>3. rcache \subseteq Requests /\ asking \subseteq Requests
    BY DEF TypeOK, ClustersTypeOK, PassTypeOK
  <2>4. \A r \in rcache' : request'[r] # "unraised"
    BY <2>1, <2>2, <2>3 DEF RequestsNamed
  <2>5. (todo' \cap Requests) \cup asking' \subseteq rcache \cup (todo \cap Requests) \cup asking
    <3>1. CASE Begin
      <4>1. Collected \cap Requests \subseteq rcache
        BY ConstantsAssumption DEF Collected, PendingRequests, RaisedConditions
      <4>2. QED BY <3>1, <4>1 DEF Begin
    <3>2. CASE EndPass BY <3>2 DEF EndPass
    <3>3. CASE PassOver BY <3>3 DEF PassOver, passVars
    <3>4. CASE todo' \subseteq todo /\ asking' \subseteq asking \cup (todo \cap Requests)
      BY <3>4
    <3>5. QED BY <1>2, <3>1, <3>2, <3>3, <3>4, OperatorReads
  <2>6. \A r \in (todo' \cap Requests) \cup asking' : request'[r] # "unraised"
    BY <2>1, <2>3, <2>5 DEF RequestsNamed
  <2>7. ASSUME NEW n \in Nodes, machine'[n].request \in Requests
        PROVE  /\ NodeOf[machine'[n].request] = n /\ Want[machine'[n].request] = "Restart"
               /\ request'[machine'[n].request] # "unraised"
    <3>1. CASE machine'[n].request = machine[n].request
      BY <2>1, <2>7, <3>1 DEF RequestsNamed, Named
    <3>2. CASE pc = "handle" /\ sig \in Requests /\ n = NodeOf[sig] /\ AsRestart
               /\ machine'[n].request = sig
      <4>1. request[sig] \in {"pending", "closed"} BY <3>2 DEF RequestsInHand
      <4>2. Want[sig] = "Restart" BY <3>2 DEF AsRestart, Decided
      <4>3. QED BY <2>1, <3>2, <4>1, <4>2
    <3>3. QED BY <1>2, <2>7, <3>1, <3>2, OperatorFields, NoRequestAssumption
  <2>8. QED BY <2>4, <2>6, <2>7 DEF RequestsNamed, Named
<1>3. CASE UNCHANGED vars
  BY <1>3 DEF vars, apiVars, reqVars, passVars, RequestsNamed, Named
<1>4. QED BY <1>1, <1>2, <1>3 DEF Next

LEMMA RequestsInHandKept ==
  ASSUME TypeOK, RequestsInHand, [Next]_vars
  PROVE  RequestsInHand'
<1>1. CASE Environment
  <2>1. RequestsByOthers /\ UNCHANGED <<pc, read, sig, asking, todo, observed>>
    BY <1>1, EnvironmentSteps DEF EnvFrame, passVars
  <2>2. \A r \in Requests : request[r] \in {"pending", "closed"} => request'[r] \in {"pending", "closed"}
    BY <2>1 DEF RequestsByOthers
  <2>3. QED BY <2>1, <2>2 DEF RequestsInHand
<1>2. CASE Begin
  <2>1. mode # "ExternalRemediationRequest" => Collected \cap Requests = {}
    BY ConstantsAssumption DEF Collected, RaisedConditions
  <2>2. NoSig \notin Requests BY NoRequestAssumption DEF NoSig
  <2>3. observed = [k \in Keys |-> NoCall] /\ sig = NoSig /\ asking = {}
    BY <1>2 DEF Begin, RequestsInHand
  <2>4. \A k \in Keys : observed[k].request = NoRequest BY <2>3 DEF NoCall
  <2>5. pc' = "signals" /\ todo' = Collected /\ read'.mode = mode /\ UNCHANGED <<sig, asking, observed>>
    BY <1>2 DEF Begin
  <2>6. mode = "ExternalRemediationRequest" => Collected \subseteq Requests
    BY DEF Collected, PendingRequests, TypeOK, ClustersTypeOK
  <2>7. QED BY <2>1, <2>2, <2>3, <2>4, <2>5, <2>6 DEF RequestsInHand
<1>3. CASE PassOver
  BY <1>3 DEF PassOver, RequestsInHand, passVars, reqVars
<1>4. ASSUME NEW s \in todo, Take(s) PROVE RequestsInHand'
  <2>1. /\ pc = "signals" /\ pc' = "handle" /\ sig' = s /\ todo' = todo \ {s}
        /\ UNCHANGED <<request, read, observed>>
        /\ asking' = IF s \in Requests THEN asking \cup {s} ELSE asking
        /\ s \in Requests => request[s] = "pending"
        /\ \A t \in todo : Order[s] <= Order[t]
    BY <1>4 DEF Take, First, LivePending, reqVars
  <2>2. QED BY <2>1 DEF RequestsInHand
<1>5. ASSUME NEW s \in todo, PassBy(s) \/ Unreadable(s) PROVE RequestsInHand'
  BY <1>5 DEF PassBy, Unreadable, RequestsInHand
<1>6. CASE Handle
  <2>1. /\ pc = "handle" /\ pc' \in {"signals", "answer"}
        /\ UNCHANGED <<request, read, todo, asking, sig>>
        /\ \/ observed' = [observed EXCEPT ![Key(sig)] = Call]
           \/ observed' = [observed EXCEPT ![Key(sig)] = NoCall]
    BY <1>6, HandleKinds DEF reqVars, passVars
  <2>2. sig \notin Requests => Call.request = NoRequest /\ NoCall.request = NoRequest
    BY DEF Call, NoCall, RequestOf
  <2>3. sig \notin Requests /\ (\A k \in Keys : observed[k].request = NoRequest)
        => \A k \in Keys : observed'[k].request = NoRequest
    BY <2>1, <2>2 DEF TypeOK, PassTypeOK
  <2>4. QED BY <2>1, <2>3 DEF RequestsInHand
<1>7. CASE Answer \/ ReleaseAnswered \/ Reread \/ StartRelease \/ \E n \in left : ReleaseRestart(n)
  <2>1. /\ pc # "idle" /\ pc' \notin {"idle", "handle", "answer"}
        /\ UNCHANGED <<read, todo, asking, sig, observed>>
    BY <1>7 DEF Answer, ReleaseAnswered, Reread, StartRelease, ReleaseRestart, passVars
  <2>2. QED BY <2>1 DEF RequestsInHand
<1>8. CASE Finish \/ Crash
  BY <1>8 DEF Finish, Crash, EndPass, RequestsInHand
<1>9. CASE UNCHANGED vars
  BY <1>9 DEF vars, reqVars, passVars, RequestsInHand
<1>10. QED
  BY <1>1, <1>2, <1>3, <1>4, <1>5, <1>6, <1>7, <1>8, <1>9 DEF Next, Pass

LEMMA KeyType ==
  ASSUME NEW s \in Signals PROVE Key(s) \in Keys /\ Key(s)[1] = NodeOf[s] /\ NodeOf[s] \in Nodes
BY ConstantsAssumption DEF Key, Keys, Checks

LEMMA CompletionSeen ==
  ASSUME TypeOK, RestartOver
  PROVE  /\ Releasable(Machine) /\ RestartAnswers(Machine, sig) /\ sig \in Requests
         /\ Call.call = "Restart" /\ observed' = [observed EXCEPT ![Key(sig)] = Call]
<1>1. Releasable(Machine) /\ RestartAnswers(Machine, sig) /\ sig \in Requests /\ Decided = "Restart"
  BY DEF RestartOver, Remediates, Complete, RestartCompleted, Releasable
<1>2. Call.call = "Restart" BY <1>1 DEF Call, Releasable
<1>3. QED BY <1>1, <1>2 DEF RestartOver, Conclude

LEMMA ReleasesKnownKept ==
  ASSUME TypeOK, RequestsInHand, ReleasesKnown, [Next]_vars
  PROVE  ReleasesKnown'
<1>1. ASSUME UNCHANGED <<view, asking, observed, read, unreadable>>
      PROVE  \A n \in Nodes : Held(n)' = Held(n) /\ MayRelease' = MayRelease
  BY <1>1 DEF Held, Leftover, MayRelease
<1>2. CASE Environment
  <2>1. /\ MachinesByOthers /\ RequestsByOthers /\ UNCHANGED dry
        /\ UNCHANGED <<pc, read, sig, asking, todo, unreadable, ans, observed, answered, left>>
    BY <1>2, EnvironmentSteps DEF EnvFrame, passVars, tryVars
  <2>2. view' = view BY <2>1 DEF MachinesByOthers
  <2>3. \A r \in Requests : request[r] = "True" => request'[r] = "True" BY <2>1 DEF RequestsByOthers
  <2>4. \A n \in Nodes : Held(n)' = Held(n) /\ MayRelease' = MayRelease BY <1>1, <2>1, <2>2
  <2>5. left \subseteq Nodes BY DEF TypeOK, PassTypeOK
  <2>6. QED BY <2>1, <2>2, <2>3, <2>4, <2>5 DEF ReleasesKnown, Machine, Key
<1>3. CASE \/ Begin \/ PassOver
           \/ \E s \in todo : Take(s) \/ PassBy(s) \/ Unreadable(s)
  <2>1. pc' \in {"idle", "signals", "handle"} BY <1>3 DEF Begin, PassOver, Take, PassBy, Unreadable
  <2>2. QED BY <2>1 DEF ReleasesKnown
<1>4. CASE Handle
  <2>1. /\ pc' = "signals" \/ (pc' = "answer" /\ ans' = "False")
           \/ (pc' = "answer" /\ ans' = "True" /\ RestartOver)
        /\ UNCHANGED <<sig, read>> /\ pc = "handle"
    BY <1>4, HandleKinds DEF passVars
  <2>2. CASE RestartOver
    <3>1. sig \in Signals BY <2>1 DEF TypeOK, PassTypeOK
    <3>2. observed'[Key(sig)] = Call
      BY <2>2, <3>1, KeyType, CompletionSeen DEF TypeOK, PassTypeOK
    <3>3. view' = view BY <2>2 DEF RestartOver, viewVars
    <3>4. QED BY <2>1, <2>2, <3>2, <3>3, CompletionSeen DEF ReleasesKnown, Machine, Key
  <2>3. CASE ~RestartOver BY <2>1, <2>3 DEF ReleasesKnown
  <2>4. QED BY <2>2, <2>3
<1>5. CASE Answer
  <2>1. sig \in Requests /\ UNCHANGED <<view, sig, observed, dry>> /\ pc = "answer"
    BY <1>5 DEF Answer, viewVars, passVars, hubVars, TypeOK, PassTypeOK
  <2>2. CASE pc' = "releaseAnswered"
    <3>1. /\ ans = "True" /\ answered' = RestartMarkOf(Machine) /\ ~dry
          /\ request' = [request EXCEPT ![sig] = "True"]
      BY <1>5, <2>2 DEF Answer, Answers, StoreRequest
    <3>2. request'[sig] = "True" BY <2>1, <3>1 DEF TypeOK, ClustersTypeOK
    <3>3. Releasable(Machine) /\ RestartAnswers(Machine, sig) /\ observed[Key(sig)].call = "Restart"
      BY <2>1, <3>1 DEF ReleasesKnown
    <3>4. answered'.action = "Restart" /\ answered'.request \in {NoRequest, sig} /\ Machine.exists
      BY <3>1, <3>3 DEF RestartMarkOf, Releasable, RestartAnswers
    <3>5. QED BY <2>1, <2>2, <3>1, <3>2, <3>3, <3>4 DEF ReleasesKnown, Machine, Key
  <2>3. CASE pc' = "signals" BY <2>3 DEF ReleasesKnown
  <2>4. QED BY <1>5, <2>2, <2>3 DEF Answer
<1>6. CASE ReleaseAnswered
  <2>1. \/ pc' = "signals"
        \/ pc' = "reread" /\ UNCHANGED <<view, answered>>
    BY <1>6 DEF ReleaseAnswered, viewVars
  <2>2. pc = "releaseAnswered" /\ UNCHANGED <<request, sig, observed, dry>>
    BY <1>6 DEF ReleaseAnswered, reqVars, passVars, hubVars
  <2>3. QED BY <2>1, <2>2 DEF ReleasesKnown, Key
<1>7. CASE Reread
  <2>1. pc = "reread" /\ UNCHANGED <<request, sig, observed, dry>>
    BY <1>7 DEF Reread, reqVars, passVars, hubVars
  <2>2. CASE pc' = "releaseAnswered"
    <3>1. /\ mcache[NodeOf[sig]].exists /\ RestartMarkOf(mcache[NodeOf[sig]]) = answered
          /\ view' = [view EXCEPT ![NodeOf[sig]] = mcache[NodeOf[sig]]] /\ answered' = answered
      BY <1>7, <2>2 DEF Reread, tryVars
    <3>2. NodeOf[sig] \in Nodes BY <2>1, ConstantsAssumption DEF TypeOK, PassTypeOK
    <3>3. view'[NodeOf[sig]] = mcache[NodeOf[sig]] BY <3>1, <3>2 DEF TypeOK, MachinesTypeOK
    <3>4. QED BY <2>1, <2>2, <3>1, <3>3 DEF ReleasesKnown, Machine, Key
  <2>3. CASE pc' = "signals" BY <2>3 DEF ReleasesKnown
  <2>4. QED BY <1>7, <2>2, <2>3 DEF Reread
<1>8. CASE StartRelease
  <2>1. /\ pc' = "release" /\ todo' = {} /\ UNCHANGED <<view, asking, observed, read, unreadable>>
        /\ left' = {n \in Nodes : MayRelease /\ Releasable(view[n]) /\ ~Held(n)}
    BY <1>8 DEF StartRelease, viewVars, passVars
  <2>2. \A n \in Nodes : Held(n)' = Held(n) /\ MayRelease' = MayRelease BY <1>1, <2>1
  <2>3. QED BY <2>1, <2>2 DEF ReleasesKnown
<1>9. ASSUME NEW n \in left, ReleaseRestart(n) PROVE ReleasesKnown'
  <2>1. /\ pc = "release" /\ pc' = "release" /\ left' = left \ {n} /\ left \subseteq Nodes
        /\ UNCHANGED <<todo, asking, observed, read, unreadable>>
    BY <1>9 DEF ReleaseRestart, passVars, TypeOK, PassTypeOK
  <2>2. \A k \in left' : view'[k] = view[k]
    <3>1. CASE UNCHANGED viewVars BY <3>1 DEF viewVars
    <3>2. CASE Release(n)
      BY <2>1, <3>2, ReleaseSteps DEF Wrote, viewVars
    <3>3. QED BY <1>9, <3>1, <3>2 DEF ReleaseRestart
  <2>3. \A k \in left' : Held(k)' = Held(k) /\ MayRelease' = MayRelease
    BY <2>1, <2>2 DEF Held, Leftover, MayRelease
  <2>4. QED BY <2>1, <2>2, <2>3 DEF ReleasesKnown
<1>10. CASE Finish \/ Crash
  BY <1>10 DEF Finish, Crash, EndPass, ReleasesKnown
<1>11. CASE UNCHANGED vars
  <2>1. /\ UNCHANGED <<view, asking, observed, read, unreadable>>
        /\ UNCHANGED <<pc, ans, sig, dry, request, answered, todo, left>>
    BY <1>11 DEF vars, viewVars, passVars, tryVars, hubVars, reqVars
  <2>2. \A n \in Nodes : Held(n)' = Held(n) /\ MayRelease' = MayRelease BY <1>1, <2>1
  <2>3. left \subseteq Nodes BY DEF TypeOK, PassTypeOK
  <2>4. QED BY <2>1, <2>2, <2>3 DEF ReleasesKnown, Machine, Key
<1>12. QED
  BY <1>2, <1>3, <1>4, <1>5, <1>6, <1>7, <1>8, <1>9, <1>10, <1>11 DEF Next, Pass

\* A copy of a Machine that has the resource version is the Machine, requests
\* on Machines are the node's own, a request in hand is answered by nobody
\* else, and what is about to be released is a restart mark that the pass saw
\* and nothing holds: in every setting, whatever lags, fails or stops
\* (Reconcile, remediate, answer, releaseAnswered, releaseRestarts).
THEOREM PassesKnowWhatTheyWrite == Spec => []PassInv
<1>1. Init => PassInv
  <2> SUFFICES ASSUME Init PROVE PassInv OBVIOUS
  <2>1. CopiesCurrent BY DEF Init, CopiesCurrent
  <2>2. \A n \in Nodes : machine[n].request = NoRequest /\ machine[n].exists
    <3>1. \A n \in Nodes : NewMachine(n) \in Machines /\ NewMachine(n).request = NoRequest
                           /\ NewMachine(n).exists
      <4>1. ASSUME NEW b \in BOOLEAN
            PROVE  /\ [Unread EXCEPT !.exists = TRUE, !.controlPlane = b] \in Machines
                   /\ [Unread EXCEPT !.exists = TRUE, !.controlPlane = b].request = NoRequest
                   /\ [Unread EXCEPT !.exists = TRUE, !.controlPlane = b].exists
        BY UnreadType DEF Machines, Unread
      <4>2. \A n \in Nodes : (n \in ControlPlane) \in BOOLEAN OBVIOUS
      <4>3. QED BY <4>1, <4>2, Zenon DEF NewMachine
    <3>2. CASE machine = [n \in Nodes |-> NewMachine(n)] BY <3>1, <3>2
    <3>3. ASSUME NEW action \in Inherited,
                 machine = [n \in Nodes |-> EarlierMark(NewMachine(n), action)]
          PROVE  \A n \in Nodes : machine[n].request = NoRequest /\ machine[n].exists
      BY <3>1, <3>3 DEF EarlierMark, Marked, Machines
    <3>4. QED BY <3>2, <3>3 DEF Init
  <2>3. RequestsNamed BY <2>2, NoRequestAssumption DEF Init, RequestsNamed, Named
  <2>4. \A n \in Nodes : node[n].exists /\ ncache[n].exists /\ node[n].faults = {} /\ ncache[n].faults = {}
    BY DEF Init
  <2>5. NodesKnown BY <2>2, <2>4 DEF Init, NodesKnown
  <2>6. RequestsInHand BY DEF Init, RequestsInHand
  <2>7. ReleasesKnown BY DEF Init, ReleasesKnown
  <2>8. QED BY <2>1, <2>3, <2>5, <2>6, <2>7 DEF PassInv
<1>2. TypeOK /\ PassInv /\ [Next]_vars => PassInv'
  BY CopiesKept, RequestsNamedKept, NodesKnownKept, RequestsInHandKept, ReleasesKnownKept DEF PassInv
<1>3. QED BY <1>1, <1>2, TypeCorrect, PTL DEF Spec

-----------------------------------------------------------------------------
(* A dry run writes nothing, and marks of others stay *)

\* No step of everyone else is taken for the operator's.
LEMMA OperatorActs ==
  ASSUME TypeOK, [Next]_vars, ByOperator
  PROVE  Pass \/ Crash
<1>1. Environment => ~ByOperator BY EnvironmentSteps DEF EnvFrame, ByOperator
<1>2. UNCHANGED vars => ~ByOperator BY DEF vars, ByOperator
<1>3. QED BY <1>1, <1>2 DEF Next

\* The operator writes to a Machine in three ways only.
LEMMA OperatorWrites ==
  ASSUME TypeOK, PassInv, Pass \/ Crash, NEW n \in Nodes, machine'[n] # machine[n]
  PROVE  Wrote(n) /\ (MarksIt(n) \/ EscalatesIt(n) \/ ReleasesIt(n))
<1>1. ~UNCHANGED apiVars BY DEF apiVars
<1>2. PICK k \in Nodes : Wrote(k) /\ (MarksIt(k) \/ EscalatesIt(k) \/ ReleasesIt(k))
  BY <1>1, OperatorSteps DEF OperatorKinds
<1>3. k = n BY <1>2 DEF Wrote
<1>4. QED BY <1>2, <1>3

\* A release removes a restart mark of this operator, which the Machine still
\* carries.
LEMMA ReleasesRestarts ==
  ASSUME TypeOK, PassInv, NEW n \in Nodes, ReleasesIt(n)
  PROVE  /\ view[n] = machine[n] /\ MarkedAction(machine[n]) = "Restart" /\ machine[n].exists
         /\ pc \in {"releaseAnswered", "release"} /\ ~dry
         /\ pc = "releaseAnswered" =>
              /\ n = NodeOf[sig] /\ sig \in Requests /\ request[sig] = "True"
              /\ machine[n].request \in {NoRequest, sig}
         /\ pc = "release" => n \in left /\ MayRelease /\ ~Held(n) /\ todo = {}
<1>1. view[n] = machine[n] BY DEF ReleasesIt, PassInv, CopiesCurrent
<1>2. CASE ReleaseAnswered /\ n = NodeOf[sig]
  <2>1. pc = "releaseAnswered" BY <1>2 DEF ReleaseAnswered
  <2>2. /\ ~dry /\ sig \in Requests /\ request[sig] = "True" /\ Machine.exists
        /\ answered.action = "Restart" /\ answered.request \in {NoRequest, sig}
        /\ RestartMarkOf(Machine) = answered
    BY <2>1 DEF PassInv, ReleasesKnown
  <2>3. MarkedAction(Machine) = "Restart" /\ Machine.request \in {NoRequest, sig}
    BY <2>2 DEF RestartMarkOf
  <2>4. QED BY <1>1, <1>2, <2>1, <2>2, <2>3 DEF Machine
<1>3. CASE ReleaseRestart(n) /\ ~dry
  <2>1. pc = "release" /\ n \in left BY <1>3 DEF ReleaseRestart
  <2>2. MayRelease /\ Releasable(view[n]) /\ ~Held(n) /\ todo = {}
    BY <2>1 DEF PassInv, ReleasesKnown
  <2>3. QED BY <1>1, <1>3, <2>1, <2>2 DEF Releasable
<1>4. QED BY <1>2, <1>3 DEF ReleasesIt

\* A dry run writes nothing to either cluster: no mark, escalation, answer or
\* release, whatever it finds on the way (Actuator.DryRun, answer).
THEOREM DryRunIsDry == Spec => DryRunWritesNothing
<1>1. TypeOK /\ PassInv /\ [Next]_vars => [dry /\ ByOperator => UNCHANGED <<machine, request>>]_vars
  <2> SUFFICES ASSUME TypeOK, TypeOK', PassInv, [Next]_vars, dry, ByOperator
               PROVE  UNCHANGED <<machine, request>>
    <3>1. TypeOK /\ [Next]_vars => TypeOK' BY TypeKept
    <3>2. QED BY <3>1
  <2>1. Pass \/ Crash BY OperatorActs
  <2>2. ASSUME NEW n \in Nodes PROVE machine'[n] = machine[n]
    <3>1. ~MarksIt(n) BY MarksUnmarked DEF MarksIt
    <3>2. ~EscalatesIt(n) BY DEF EscalatesIt, Escalate
    <3>3. ~ReleasesIt(n) BY ReleasesRestarts
    <3>4. QED BY <2>1, <3>1, <3>2, <3>3, OperatorWrites
  <2>3. machine' = machine
    BY <2>2 DEF TypeOK, MachinesTypeOK
  <2>4. \A r \in Requests : request'[r] = request[r] BY <2>1, OperatorAnswers
  <2>5. request' = request BY <2>4 DEF TypeOK, ClustersTypeOK
  <2>6. QED BY <2>3, <2>5
<1>2. QED BY <1>1, TypeCorrect, PassesKnowWhatTheyWrite, PTL DEF DryRunWritesNothing, Spec

\* The operator takes off no mark that somebody else set, and makes one its own
\* only in a pass whose copy of the Machine is from before the mark (Release,
\* releaseRestarts, Guard, MarkForRemediation).
THEOREM ForeignMarksStay == Spec => ForeignMarkKept
<1>1. TypeOK /\ PassInv /\ [Next]_vars =>
        [ByOperator => \A n \in Nodes :
           machine[n].marked /\ machine[n].action = "none" =>
             /\ machine'[n].marked
             /\ machine'[n] # machine[n] => ~view[n].marked]_vars
  <2> SUFFICES ASSUME TypeOK, PassInv, [Next]_vars, ByOperator, NEW n \in Nodes,
                      machine[n].marked, machine[n].action = "none"
               PROVE  machine'[n].marked /\ (machine'[n] # machine[n] => ~view[n].marked)
    OBVIOUS
  <2>1. Pass \/ Crash BY OperatorActs
  <2>2. view[n] \in Machines BY DEF TypeOK, MachinesTypeOK
  <2>3. CASE MarksIt(n)
    <3>1. machine'[n].marked BY <2>3, MarksUnmarked, MarkStoredFields DEF MarksIt
    <3>2. ~view[n].marked BY <2>3, MarksUnmarked DEF MarksIt, Machine
    <3>3. QED BY <3>1, <3>2
  <2>4. ~EscalatesIt(n)
    <3>1. EscalatesIt(n) => MarkedAction(view[n]) = "Restart" /\ view[n] = machine[n]
      BY DEF EscalatesIt, Escalate, Remediates, Escalates, Machine, PassInv, CopiesCurrent
    <3>2. QED BY <3>1 DEF MarkedAction
  <2>5. ~ReleasesIt(n) BY ReleasesRestarts DEF MarkedAction
  <2>6. QED BY <2>1, <2>3, <2>4, <2>5, OperatorWrites
<1>2. QED BY <1>1, TypeCorrect, PassesKnowWhatTheyWrite, PTL DEF ForeignMarkKept, Spec

-----------------------------------------------------------------------------
(* The operator's own marks *)

\* Every copy of a Machine was the Machine at some time.
LEMMA CopiesFrom ==
  ASSUME TypeOK, [Next]_vars, NEW n \in Nodes
  PROVE  /\ mcache'[n] = mcache[n] \/ mcache'[n] = machine'[n]
         /\ view'[n] = view[n] \/ view'[n] = machine'[n] \/ view'[n] = mcache[n] \/ view'[n] = Unread
<1>1. CASE Pass \/ Crash
  <2>1. mcache' = mcache \/ mcache' = machine'
    BY <1>1 DEF Pass, Begin, PassOver, Take, PassBy, Unreadable, Handle, Reported, RestartOver, Escalate,
       Skipped, ReportedUnavailable, HeldBack, Mark, Answer, ReleaseAnswered, Reread, StartRelease,
       ReleaseRestart, Release, Finish, Crash, EndPass, PatchMachine, WriteBehind, StoreMachine, apiVars
  <2>2. \/ view'[n] = view[n] \/ view'[n] = machine'[n] \/ view'[n] = mcache[n] \/ view'[n] = Unread
    <3>1. CASE UNCHANGED <<apiVars, viewVars>> BY <3>1 DEF viewVars
    <3>2. CASE Begin BY <3>2 DEF Begin
    <3>3. CASE Reread BY <3>3 DEF Reread, viewVars, TypeOK, MachinesTypeOK
    <3>4. CASE EndPass BY <3>4 DEF EndPass
    <3>5. CASE \E k \in Nodes : Wrote(k) BY <3>5 DEF Wrote
    <3>6. QED BY <1>1, <3>1, <3>2, <3>3, <3>4, <3>5, OperatorSteps DEF OperatorKinds
  <2>3. QED BY <2>1, <2>2
<1>2. CASE Environment
  <2>1. view' = view BY <1>2, EnvironmentSteps DEF MachinesByOthers
  <2>2. CASE \E k \in Nodes : SyncMachine(k)
    BY <2>1, <2>2 DEF SyncMachine, TypeOK, MachinesTypeOK
  <2>3. CASE ~ \E k \in Nodes : SyncMachine(k)
    <3>1. mcache' = mcache \/ mcache' = machine'
      BY <1>2, <2>3 DEF Environment, RequestRaised, RequestClosed, FaultChanges, ProviderRestarts,
         NodeRestarts, NodeReady, NodeRemoved, NodeChanges, ChecksLook, UserPauses, UserOptsOut,
         UserMarks, UserUnmarks, MachineDeleted, MachineRemoved, MachineChanges, WriteBehind,
         StoreMachine, ChecksChange, SyncNode, GraceElapses, FallbackChanges, ClusterChanges,
         ModeChanges, SyncRequests, apiVars
    <3>2. QED BY <2>1, <3>1
  <2>4. QED BY <2>2, <2>3
<1>3. CASE UNCHANGED vars BY <1>3 DEF vars, apiVars, viewVars
<1>4. QED BY <1>1, <1>2, <1>3 DEF Next

LEMMA EscalatesRestarts ==
  ASSUME TypeOK, PassInv, NEW n \in Nodes, EscalatesIt(n)
  PROVE  /\ view[n] = machine[n] /\ MarkedAction(machine[n]) = "Restart" /\ machine[n].exists
         /\ view[n].marked /\ pc = "handle" /\ machine'[n].action = "Remediate" /\ machine'[n].marked
         /\ machine'[n].exists = machine[n].exists
<1>1. view[n] = machine[n] /\ machine'[n] = Escalated(view[n])
  BY DEF EscalatesIt, PassInv, CopiesCurrent
<1>2. MarkedAction(view[n]) = "Restart" /\ pc = "handle" /\ view[n].exists
  BY DEF EscalatesIt, Escalate, Escalates, Remediates, Machine
<1>3. view[n].marked BY <1>2 DEF MarkedAction
<1>4. view[n] \in Machines BY DEF TypeOK, MachinesTypeOK
<1>5. ASSUME NEW m \in Machines, m.marked PROVE Escalated(m).marked
  BY <1>5 DEF Escalated, Machines
<1>6. Escalated(view[n]).marked BY <1>3, <1>4, <1>5
<1>7. Escalated(view[n]).action = "Remediate" /\ Escalated(view[n]).exists = view[n].exists
  BY <1>4, PatchFields
<1>8. QED BY <1>1, <1>2, <1>3, <1>6, <1>7

LEMMA MarksWholeKept ==
  ASSUME "unmark" \notin Disturbances, TypeOK, PassInv, MarksWhole, [Next]_vars
  PROVE  MarksWhole'
<1>1. ASSUME NEW n \in Nodes PROVE Whole(machine'[n])
  <2>1. CASE machine'[n] = machine[n] BY <2>1 DEF MarksWhole
  <2>2. CASE Environment
    <3>1. OthersWrite(n) BY <2>2, EnvironmentSteps DEF MachinesByOthers
    <3>2. Whole(machine[n]) BY DEF MarksWhole
    <3>3. QED BY <3>1, <3>2 DEF OthersWrite, Whole
  <2>3. CASE MarksIt(n)
    <3>1. machine'[n].marked BY <2>3, MarksUnmarked, MarkStoredFields DEF MarksIt
    <3>2. QED BY <3>1 DEF Whole
  <2>4. CASE EscalatesIt(n) BY <2>4, EscalatesRestarts DEF Whole
  <2>5. CASE ReleasesIt(n)
    <3>1. view[n] \in Machines BY DEF TypeOK, MachinesTypeOK
    <3>2. machine'[n] = Released(view[n]) BY <2>5 DEF ReleasesIt
    <3>3. QED BY <3>1, <3>2, PatchFields DEF Whole
  <2>6. CASE UNCHANGED vars BY <2>1, <2>6 DEF vars, apiVars
  <2>7. QED BY <2>1, <2>2, <2>3, <2>4, <2>5, <2>6, OperatorWrites DEF Next
<1>2. Whole(Unread) BY DEF Whole, Unread
<1>3. \A n \in Nodes : Whole(mcache[n]) /\ Whole(view[n]) BY DEF MarksWhole
<1>4. ASSUME NEW n \in Nodes PROVE Whole(mcache'[n]) /\ Whole(view'[n])
  <2>1. Whole(machine'[n]) /\ Whole(mcache[n]) /\ Whole(view[n]) BY <1>1, <1>3
  <2>2. /\ mcache'[n] = mcache[n] \/ mcache'[n] = machine'[n]
        /\ view'[n] = view[n] \/ view'[n] = machine'[n] \/ view'[n] = mcache[n] \/ view'[n] = Unread
    BY CopiesFrom
  <2>3. QED BY <1>2, <2>1, <2>2
<1>5. QED BY <1>1, <1>4 DEF MarksWhole, Whole

\* A signal still to be handled after a step was so before it.
LEMMA ToHandle ==
  ASSUME TypeOK, Pass \/ Crash, ~Begin, pc' # "idle", NEW s \in Signals,
         s \in todo' \/ (pc' = "handle" /\ sig' = s)
  PROVE  pc # "idle" /\ s \in todo /\ read' = read
<1>1. pc # "idle" /\ read' = read /\ todo' \subseteq todo BY OperatorReads DEF PassOver, EndPass
<1>2. CASE \E t \in todo : Take(t) BY <1>1, <1>2 DEF Take
<1>3. CASE ~ \E t \in todo : Take(t)
  <2>1. pc' # "handle"
    BY <1>1, <1>3, HandleKinds
       DEF Pass, PassOver, PassBy, Unreadable, Answer, ReleaseAnswered, Reread, StartRelease,
           ReleaseRestart, Finish, Crash, EndPass
  <2>2. QED BY <1>1, <2>1
<1>4. QED BY <1>2, <1>3

\* A mark whose reply is lost is of a replacement only after the restarts.
LEMMA LostReplacementsLast ==
  ASSUME ReplacementsLast, "mark" \in Lost, TypeOK, PassInv, Mark, ~AsRestart,
         NEW s \in todo, NodeOf[s] = NodeOf[sig]
  PROVE  ~CallsRestart(s)
<1>1. pc = "handle" /\ Decided # "Report" BY MarksUnmarked
<1>2. sig \in Signals /\ s \in Signals BY <1>1 DEF TypeOK, PassTypeOK
<1>3. Order[sig] <= Order[s] /\ Order[sig] \in Nat /\ Order[s] \in Nat
  BY <1>1, <1>2, ConstantsAssumption DEF PassInv, RequestsInHand
<1>4. CASE Decided = "Restart"
  BY <1>4 DEF AsRestart, FallsBack, RestartUnavailable, CallsRestart, Cover
<1>5. CASE Decided = "Replace"
  <2>1. Want[sig] = "Replace" BY <1>5 DEF Decided
  <2>2. Want[s] # "Restart" BY <1>2, <1>3, <2>1 DEF ReplacementsLast, RestartsFirst
  <2>3. QED BY <2>2 DEF CallsRestart
<1>6. Want[sig] \in {"Report", "Restart", "Replace"} BY <1>2, ConstantsAssumption DEF Decisions
<1>7. QED BY <1>1, <1>4, <1>5, <1>6 DEF Decided

LEMMA ReplacementsSeenKept ==
  ASSUME "unmark" \notin Disturbances, TypeOK, PassInv, MarksWhole, ReplacementsSeen, [Next]_vars
  PROVE  ReplacementsSeen'
<1> SUFFICES ASSUME "machines" \notin Lag, ReplacementsLast, pc' # "idle", NEW n \in Nodes,
                    ~view'[n].marked, MarkedAction(machine'[n]) = "Remediate",
                    NEW s \in Signals, NodeOf[s] = n, s \in todo' \/ (pc' = "handle" /\ sig' = s)
             PROVE  ~CallsRestart(s)'
  BY DEF ReplacementsSeen
<1>1. /\ pc # "idle" /\ ~view[n].marked /\ MarkedAction(machine[n]) = "Remediate"
      /\ s \in todo \/ (pc = "handle" /\ sig = s)
      => ~CallsRestart(s)
  BY DEF ReplacementsSeen
<1>2. mcache = machine BY DEF PassInv, CopiesCurrent
<1>3. CASE Environment
  <2>1. OthersWrite(n) /\ view' = view /\ UNCHANGED <<pc, todo, sig, read>>
    BY <1>3, EnvironmentSteps DEF MachinesByOthers, EnvFrame, passVars
  <2>2. Whole(machine[n]) BY DEF MarksWhole
  <2>3. MarkedAction(machine[n]) = "Remediate"
    BY <2>1, <2>2 DEF Whole, MarkedAction, OthersWrite
  <2>4. QED BY <1>1, <2>1, <2>3 DEF CallsRestart
<1>4. CASE Begin
  <2>1. view' = machine /\ machine' = machine BY <1>2, <1>4 DEF Begin, apiVars
  <2>2. QED BY <2>1 DEF MarkedAction
<1>5. CASE (Pass \/ Crash) /\ ~Begin
  <2>1. pc # "idle" /\ s \in todo /\ read' = read BY <1>5, ToHandle
  <2>2. ASSUME view'[n] = view[n], machine'[n] = machine[n] PROVE ~CallsRestart(s)'
    BY <1>1, <2>1, <2>2 DEF CallsRestart
  <2>3. CASE Reread
    <3>1. machine' = machine /\ (view'[n] = view[n] \/ view'[n] = machine[n])
      BY <1>2, <2>3 DEF Reread, apiVars, viewVars, TypeOK, MachinesTypeOK
    <3>2. QED BY <2>2, <3>1 DEF MarkedAction
  <2>4. CASE UNCHANGED <<apiVars, viewVars>> BY <2>2, <2>4 DEF apiVars, viewVars
  <2>5. ASSUME NEW k \in Nodes, Wrote(k), MarksIt(k) \/ EscalatesIt(k) \/ ReleasesIt(k)
        PROVE  ~CallsRestart(s)'
    <3>1. CASE k # n BY <2>2, <2>5, <3>1 DEF Wrote
    <3>2. ~(vfresh'[n] = TRUE /\ view'[n] = machine'[n]) BY DEF MarkedAction
    <3>3. CASE k = n /\ vfresh'[n] = FALSE /\ view'[n] = view[n]
      <4>1. MarksIt(n)
        BY <2>5, <3>3, ReleasesRestarts, EscalatesRestarts DEF MarkedAction
      <4>2. /\ Mark /\ n = NodeOf[sig] /\ "mark" \in Lost /\ machine'[n] = MarkStored
            /\ pc = "handle" /\ Machine.marked = FALSE
        BY <3>3, <4>1, MarksUnmarked DEF MarksIt
      <4>3. Machine.action = "none" BY <4>2 DEF Machine, MarksWhole, Whole
      <4>4. ~AsRestart BY <4>2, <4>3, MarkStoredFields DEF MarkedAction
      <4>5. ~CallsRestart(s) BY <2>1, <4>2, <4>4, LostReplacementsLast
      <4>6. QED BY <2>1, <4>5 DEF CallsRestart
    <3>4. QED BY <2>5, <3>1, <3>2, <3>3 DEF Wrote
  <2>6. ~EndPass BY DEF EndPass
  <2>7. QED BY <1>5, <2>3, <2>4, <2>5, <2>6, OperatorSteps DEF OperatorKinds
<1>6. CASE UNCHANGED vars BY <1>1, <1>6 DEF vars, apiVars, viewVars, passVars, CallsRestart
<1>7. QED BY <1>3, <1>4, <1>5, <1>6 DEF Next

\* No restart is asked for on top of a replacement mark of the operator's own.
LEMMA RestartsNotOnTop ==
  ASSUME "unmark" \notin Disturbances, "machines" \notin Lag, ReplacementsLast,
         TypeOK, PassInv, MarksInv, NEW n \in Nodes, MarksIt(n),
         MarkedAction(machine[n]) = "Remediate"
  PROVE  ~AsRestart
<1>1. pc = "handle" /\ Machine.marked = FALSE /\ n = NodeOf[sig] BY MarksUnmarked DEF MarksIt
<1>2. sig \in Signals /\ ~view[n].marked BY <1>1 DEF TypeOK, PassTypeOK, Machine
<1>3. ~CallsRestart(sig) BY <1>1, <1>2 DEF MarksInv, ReplacementsSeen
<1>4. QED BY <1>3 DEF CallsRestart, AsRestart, Decided, FallsBack, RestartUnavailable, Cover

\* Nobody taking a mark apart, a mark and its annotations come and go together
\* in every copy of a Machine, and an operator whose cache keeps up sees its own
\* replacement marks or asks for no restart of those Machines
\* (MarkForRemediation, Escalate, Release).
THEOREM OwnMarksAreKnown == Spec => []MarksInv
<1>1. Init => MarksInv
  <2> SUFFICES ASSUME Init PROVE MarksInv OBVIOUS
  <2>1. Whole(Unread) /\ \A n \in Nodes : Whole(NewMachine(n)) BY DEF Whole, NewMachine, Unread
  <2>2. \A n \in Nodes : Whole(machine[n])
    <3>1. CASE machine = [n \in Nodes |-> NewMachine(n)] BY <2>1, <3>1
    <3>2. ASSUME NEW action \in Inherited,
                 machine = [n \in Nodes |-> EarlierMark(NewMachine(n), action)]
          PROVE  \A n \in Nodes : Whole(machine[n])
      BY <3>2 DEF EarlierMark, Marked, Whole, NewMachine, Unread
    <3>3. QED BY <3>1, <3>2 DEF Init
  <2>3. MarksWhole BY <2>1, <2>2 DEF Init, MarksWhole
  <2>4. QED BY <2>3 DEF Init, MarksInv, ReplacementsSeen
<1>2. TypeOK /\ PassInv /\ MarksInv /\ [Next]_vars => MarksInv'
  BY MarksWholeKept, ReplacementsSeenKept DEF MarksInv
<1>3. QED BY <1>1, <1>2, TypeCorrect, PassesKnowWhatTheyWrite, PTL DEF Spec

\* A replacement mark is never removed or changed, where the cached Machines
\* keep up, nobody takes a mark apart and either every mark is replied to or the
\* restarts of a node come before its replacements: neither another signal nor a
\* release gets past it (Guard, Escalate, releaseRestarts).
THEOREM ReplacementsAreFinal ==
  ASSUME "machines" \notin Lag, ReplacementsLast, "unmark" \notin Disturbances
  PROVE  Spec => ReplacementIsFinal
<1>1. TypeOK /\ PassInv /\ MarksInv /\ [Next]_vars =>
        [ByOperator => \A n \in Nodes :
           MarkedAction(machine[n]) = "Remediate" => MarkedAction(machine'[n]) = "Remediate"]_vars
  <2> SUFFICES ASSUME TypeOK, PassInv, MarksInv, [Next]_vars, ByOperator, NEW n \in Nodes,
                      MarkedAction(machine[n]) = "Remediate"
               PROVE  MarkedAction(machine'[n]) = "Remediate"
    OBVIOUS
  <2>1. Pass \/ Crash BY OperatorActs
  <2>2. CASE MarksIt(n)
    <3>1. pc = "handle" /\ Machine.marked = FALSE /\ n = NodeOf[sig] /\ machine'[n] = MarkStored
      BY <2>2, MarksUnmarked DEF MarksIt
    <3>2. Machine.action = "none" BY <3>1 DEF Machine, MarksInv, MarksWhole, Whole
    <3>3. ~AsRestart BY <2>2, RestartsNotOnTop
    <3>4. QED BY <3>1, <3>2, <3>3, MarkStoredFields DEF MarkedAction
  <2>3. ~EscalatesIt(n) BY EscalatesRestarts
  <2>4. ~ReleasesIt(n) BY ReleasesRestarts
  <2>5. QED BY <2>1, <2>2, <2>3, <2>4, OperatorWrites
<1>2. QED
  BY <1>1, TypeCorrect, PassesKnowWhatTheyWrite, OwnMarksAreKnown, PTL DEF ReplacementIsFinal, Spec

\* Where there are only requests, a Machine that a step marks for a restart is
\* marked for the request in hand.
LEMMA MarksTheRequest ==
  ASSUME Modes = {"ExternalRemediationRequest"}, "unmark" \notin Disturbances,
         TypeOK, PassInv, MarksInv, Pass \/ Crash, NEW n \in Nodes, NEW r \in Requests,
         MarkFor(machine'[n], r), machine'[n] # machine[n]
  PROVE  MarksIt(n) /\ pc = "handle" /\ sig = r /\ request[r] \in {"pending", "closed"}
<1>1. view[n] \in Machines BY DEF TypeOK, MachinesTypeOK
<1>2. CASE MarksIt(n)
  <2>1. pc = "handle" /\ Machine.marked = FALSE /\ n = NodeOf[sig] /\ machine'[n] = MarkStored
    BY <1>2, MarksUnmarked DEF MarksIt
  <2>2. Machine.action = "none" /\ Machine.request = NoRequest
    BY <2>1 DEF Machine, MarksInv, MarksWhole, Whole
  <2>3. AsRestart BY <2>1, <2>2, MarkStoredFields DEF MarkFor, MarkedAction
  <2>4. sig \in Requests
    <3>1. read.mode = "ExternalRemediationRequest" BY <2>1 DEF TypeOK, PassTypeOK, Reads
    <3>2. QED BY <2>1, <3>1 DEF PassInv, RequestsInHand
  <2>5. r = sig BY <2>1, <2>2, <2>3, <2>4, MarkStoredFields DEF MarkFor
  <2>6. QED BY <1>2, <2>1, <2>4, <2>5 DEF PassInv, RequestsInHand
<1>3. ~EscalatesIt(n) BY EscalatesRestarts DEF MarkFor, MarkedAction
<1>4. ~ReleasesIt(n) BY <1>1, PatchFields DEF ReleasesIt, MarkFor, MarkedAction
<1>5. QED BY <1>2, <1>3, <1>4, OperatorWrites

\* A Machine is never marked for a request that was answered, where NVSentinel
\* leaves its requests to the operator and nobody takes a mark apart, however
\* far the caches lag and whichever replies are lost (Reconcile, IsPending).
THEOREM AnsweredAreNotMarked ==
  ASSUME Modes = {"ExternalRemediationRequest"}, "unmark" \notin Disturbances
  PROVE  Spec => AnsweredNeverMarked
<1>1. TypeOK /\ PassInv /\ MarksInv /\ [Next]_vars =>
        [ByOperator => \A n \in Nodes, r \in Requests :
           MarkFor(machine'[n], r) /\ ~MarkFor(machine[n], r)
           => request[r] \notin {"True", "False"}]_vars
  <2> SUFFICES ASSUME TypeOK, PassInv, MarksInv, [Next]_vars, ByOperator,
                      NEW n \in Nodes, NEW r \in Requests,
                      MarkFor(machine'[n], r), ~MarkFor(machine[n], r)
               PROVE  request[r] \notin {"True", "False"}
    OBVIOUS
  <2>1. Pass \/ Crash BY OperatorActs
  <2>2. machine'[n] # machine[n] BY DEF MarkFor
  <2>3. QED BY <2>1, <2>2, MarksTheRequest
<1>2. QED
  BY <1>1, TypeCorrect, PassesKnowWhatTheyWrite, OwnMarksAreKnown, PTL DEF AnsweredNeverMarked, Spec

-----------------------------------------------------------------------------
(* A signal that was acted on holds its Machine to the end of the pass *)

\* A signal the pass is done with after a step was done before, or was in hand.
LEMMA DoneBefore ==
  ASSUME TypeOK, PassInv, Pass, pc # "idle", pc' # "idle", NEW s \in Signals, Done(s)'
  PROVE  /\ Done(s) \/ (pc = "handle" /\ sig = s)
         /\ Decided = Want[sig] /\ read' = read
<1>1. read \in Reads BY DEF TypeOK, PassTypeOK
<1>2. read' = read BY OperatorReads DEF Begin, PassOver, EndPass
<1>3. NodeOf[s] \in Nodes BY ConstantsAssumption
<1>4. read.nodes[NodeOf[s]] \in NodeRecords BY <1>1, <1>3 DEF Reads
<1>5. \A c \in read.nodes[NodeOf[s]].faults : c \in Conditions BY <1>4 DEF NodeRecords
<1>6. CASE \E t \in todo : Take(t)
  <2>1. PICK t \in todo : Take(t) BY <1>6
  <2>2. /\ pc = "signals" /\ pc' = "handle" /\ sig' = t /\ todo' = todo \ {t}
        /\ asking' = IF t \in Requests THEN asking \cup {t} ELSE asking
    BY <2>1 DEF Take
  <2>3. s # t BY <2>2 DEF Done
  <2>4. Done(s) BY <1>2, <2>2, <2>3 DEF Done
  <2>5. QED BY <1>2, <2>4 DEF Done, Decided, PassInv, RequestsInHand
<1>7. CASE \E t \in todo : PassBy(t) \/ Unreadable(t)
  <2>1. PICK t \in todo : PassBy(t) \/ Unreadable(t) BY <1>7
  <2>2. t \in Requests /\ todo' = todo \ {t} /\ asking' = asking /\ pc = "signals"
    BY <2>1 DEF PassBy, Unreadable, LivePending
  <2>3. t \notin read.nodes[NodeOf[s]].faults BY <1>5, <2>2, ConstantsAssumption
  <2>4. Done(s) BY <1>2, <2>2, <2>3 DEF Done
  <2>5. QED BY <1>2, <2>4 DEF Done, Decided, PassInv, RequestsInHand
<1>8. CASE \/ Handle \/ Answer \/ ReleaseAnswered \/ Reread \/ StartRelease
           \/ \E n \in left : ReleaseRestart(n)
  <2>1. UNCHANGED <<asking, todo, sig>>
    <3>1. CASE Handle BY <3>1, HandleKinds DEF passVars
    <3>2. QED BY <1>8, <3>1 DEF Answer, ReleaseAnswered, Reread, StartRelease, ReleaseRestart, passVars
  <2>2. Done(s) \/ (pc = "handle" /\ sig = s) BY <1>2, <2>1 DEF Done
  <2>3. s \in asking \/ read.mode = "NodeCondition" BY <1>2, <2>1 DEF Done
  <2>4. QED BY <1>2, <2>2, <2>3 DEF Decided, PassInv, RequestsInHand
<1>9. QED BY <1>6, <1>7, <1>8 DEF Pass, Begin, PassOver, Finish, EndPass

\* What the observation of the signal in hand says of a Machine that could be
\* released afterwards.
LEMMA HandleHolds ==
  ASSUME TypeOK, PassInv, "escalate" \notin Rejected, Handle,
         vfresh'[NodeOf[sig]], Releasable(machine'[NodeOf[sig]])
  PROVE  \/ observed'[Key(sig)].call # "none"
         \/ Decided = "Report" /\ vfresh[NodeOf[sig]] /\ machine' = machine
<1>1. pc = "handle" /\ sig \in Signals BY HandleKinds DEF TypeOK, PassTypeOK
<1>2. Key(sig) \in Keys /\ NodeOf[sig] \in Nodes BY <1>1, KeyType
<1>3. \A obs : observed' = [observed EXCEPT ![Key(sig)] = obs] => observed'[Key(sig)] = obs
  BY <1>2 DEF TypeOK, PassTypeOK
<1>4. Decided \in {"Report", "Restart", "Replace"}
  BY <1>1, ConstantsAssumption DEF Decided, Decisions
<1>5. Machine.exists /\ Decided # "Report" => Call.call # "none" BY <1>4 DEF Call
<1>6. vfresh[NodeOf[sig]] => Machine = machine[NodeOf[sig]]
  BY <1>2 DEF PassInv, CopiesCurrent, Machine
<1>7. CASE Reported
  <2>1. UNCHANGED <<machine, vfresh>> /\ observed' = [observed EXCEPT ![Key(sig)] = Call]
    BY <1>7 DEF Reported, Conclude, apiVars, viewVars
  <2>2. vfresh[NodeOf[sig]] /\ Machine.exists BY <1>6, <2>1 DEF Releasable
  <2>3. observed'[Key(sig)] = Call BY <1>3, <2>1
  <2>4. QED BY <1>5, <2>1, <2>2, <2>3
<1>8. CASE RestartOver \/ Skipped \/ ReportedUnavailable \/ HeldBack
  <2>1. Machine.exists /\ Decided # "Report" /\ observed' = [observed EXCEPT ![Key(sig)] = Call]
    BY <1>8 DEF RestartOver, Skipped, ReportedUnavailable, HeldBack, Conclude, Proceeds, Remediates
  <2>2. observed'[Key(sig)] = Call BY <1>3, <2>1
  <2>3. QED BY <1>5, <2>1, <2>2
<1>9. CASE Escalate
  <2>1. Machine.exists /\ Decided # "Report" BY <1>9 DEF Escalate, Remediates
  <2>2. \/ observed' = [observed EXCEPT ![Key(sig)] = Call]
        \/ WriteBehind(NodeOf[sig], Escalated(Machine))
        \/ ~vfresh[NodeOf[sig]] /\ vfresh' = vfresh
    BY <1>9 DEF Escalate, Conclude, viewVars
  <2>3. ~WriteBehind(NodeOf[sig], Escalated(Machine))
    BY <1>2 DEF WriteBehind, TypeOK, MachinesTypeOK
  <2>4. observed' = [observed EXCEPT ![Key(sig)] = Call] BY <2>2, <2>3
  <2>5. observed'[Key(sig)] = Call BY <1>3, <2>4
  <2>6. QED BY <1>5, <2>1, <2>5
<1>10. CASE Mark
  <2>1. Machine.exists /\ Decided # "Report" /\ Machine.marked = FALSE BY <1>10, MarksUnmarked
  <2>2. \/ observed' = [observed EXCEPT ![Key(sig)] = Call]
        \/ WriteBehind(NodeOf[sig], MarkStored)
        \/ machine' = machine /\ vfresh' = vfresh
    BY <1>10 DEF Mark, Conclude, viewVars, apiVars
  <2>3. ~WriteBehind(NodeOf[sig], MarkStored)
    BY <1>2 DEF WriteBehind, TypeOK, MachinesTypeOK
  <2>4. ~(machine' = machine /\ vfresh' = vfresh)
    BY <1>6, <2>1 DEF Releasable, MarkedAction
  <2>5. observed'[Key(sig)] = Call BY <1>3, <2>2, <2>3, <2>4
  <2>6. QED BY <1>5, <2>1, <2>5
<1>11. QED BY <1>7, <1>8, <1>9, <1>10 DEF Handle

\* Outside a signal's handling, no Machine becomes one to release but by being
\* read again.
LEMMA ReleasableBefore ==
  ASSUME TypeOK, PassInv, Pass, pc \notin {"idle", "handle"}, pc' # "idle", ~Reread,
         NEW n \in Nodes, vfresh'[n], Releasable(machine'[n])
  PROVE  vfresh[n] /\ machine'[n] = machine[n]
<1>1. ~Begin /\ ~EndPass BY DEF Begin, EndPass
<1>2. CASE UNCHANGED <<apiVars, viewVars>> BY <1>2 DEF apiVars, viewVars
<1>3. ASSUME NEW k \in Nodes, Wrote(k), MarksIt(k) \/ EscalatesIt(k) \/ ReleasesIt(k)
      PROVE  vfresh[n] /\ machine'[n] = machine[n]
  <2>1. ReleasesIt(k)
    BY <1>3, MarksUnmarked, EscalatesRestarts DEF MarksIt
  <2>2. view[k] \in Machines BY DEF TypeOK, MachinesTypeOK
  <2>3. ~Releasable(machine'[k])
    BY <2>1, <2>2, PatchFields DEF ReleasesIt, Releasable, MarkedAction
  <2>4. QED BY <1>3, <2>3 DEF Wrote
<1>4. QED BY <1>1, <1>2, <1>3, OperatorSteps DEF OperatorKinds

LEMMA ObservedCalls ==
  ASSUME TypeOK, SignalsHold, HoldInv, [Next]_vars
  PROVE  \A k \in Keys : observed'[k].call # "none" =>
           \E s \in Signals : Key(s) = k /\ Want[s] # "Report"
<1>1. \A k \in Keys : observed[k].call # "none" =>
        \E s \in Signals : Key(s) = k /\ Want[s] # "Report"
  BY DEF HoldInv
<1>2. CASE Handle
  <2>1. sig \in Signals /\ pc = "handle" BY <1>2, HandleKinds DEF TypeOK, PassTypeOK
  <2>2. Call.call # "none" => Want[sig] # "Report" BY DEF Call, Decided, NoCall
  <2>3. NoCall.call = "none" BY DEF NoCall
  <2>4. \A k \in Keys : k # Key(sig) => observed'[k] = observed[k]
    BY <1>2, HandleKinds DEF TypeOK, PassTypeOK
  <2>5. observed'[Key(sig)].call # "none" => Want[sig] # "Report"
    BY <1>2, <2>1, <2>2, <2>3, KeyType, HandleKinds DEF TypeOK, PassTypeOK
  <2>6. QED BY <1>1, <2>1, <2>4, <2>5
<1>3. CASE observed' = observed BY <1>1, <1>3
<1>4. CASE EndPass BY <1>4 DEF EndPass, NoCall
<1>5. CASE Environment BY <1>3, <1>5, EnvironmentSteps DEF EnvFrame
<1>6. CASE UNCHANGED vars BY <1>3, <1>6 DEF vars
<1>7. CASE (Pass \/ Crash) /\ ~Handle
  BY <1>3, <1>4, <1>7
     DEF Pass, Begin, PassOver, Take, PassBy, Unreadable, Answer, ReleaseAnswered, Reread,
         StartRelease, ReleaseRestart, Finish, Crash
<1>8. QED BY <1>2, <1>5, <1>6, <1>7 DEF Next

LEMMA SignalsHoldKept ==
  ASSUME SignalsHold, TypeOK, PassInv, HoldInv, [Next]_vars, pc' # "idle", NEW s \in Signals,
         Done(s)', Want[s] # "Report", vfresh'[NodeOf[s]], Releasable(machine'[NodeOf[s]])
  PROVE  Called(NodeOf[s])'
<1> DEFINE n == NodeOf[s]
<1>1. n \in Nodes BY ConstantsAssumption
<1>2. /\ pc # "idle" /\ Done(s) /\ vfresh[n] /\ Releasable(machine[n]) => Called(n)
      /\ \A k \in Keys : observed[k].call # "none" =>
           \E t \in Signals : Key(t) = k /\ Want[t] # "Report"
  BY DEF HoldInv
<1>3. CASE Environment
  <2>1. /\ UNCHANGED <<pc, read, todo, sig, asking, observed>>
        /\ vfresh[n] /\ machine'[n] = machine[n]
    BY <1>1, <1>3, EnvironmentSteps DEF EnvFrame, passVars, MachinesByOthers
  <2>2. Done(s) BY <2>1 DEF Done
  <2>3. Called(n) BY <1>2, <2>1, <2>2
  <2>4. QED BY <2>1, <2>3 DEF Called
<1>4. CASE Begin
  <2>1. /\ asking' = {} /\ todo' = Collected /\ read'.mode = mode /\ read'.nodes = ncache
    BY <1>4 DEF Begin, PassInv, RequestsInHand
  <2>2. ncache[n] \in NodeRecords BY <1>1 DEF TypeOK, ClustersTypeOK
  <2>3. \A c \in ncache[n].faults : c \in Conditions BY <2>2 DEF NodeRecords
  <2>4. FALSE BY <2>1, <2>3 DEF Done, Collected, PendingRequests, RaisedConditions
  <2>5. QED BY <2>4
<1>5. CASE Handle
  <2>1. pc = "handle" /\ sig \in Signals /\ Pass BY <1>5, HandleKinds DEF TypeOK, PassTypeOK, Pass
  <2>2. (Done(s) \/ sig = s) /\ Decided = Want[sig] BY <2>1, DoneBefore
  <2>3. \A k \in Keys : k # Key(sig) => observed'[k] = observed[k]
    BY <1>5, HandleKinds DEF TypeOK, PassTypeOK
  <2>4. Key(sig) \in Keys /\ Key(sig)[1] = NodeOf[sig] BY <2>1, KeyType
  <2>5. CASE n # NodeOf[sig]
    <3>1. machine'[n] = machine[n] /\ vfresh'[n] = vfresh[n]
      <4>1. ~Begin /\ ~Reread /\ ~EndPass BY <2>1 DEF Begin, Reread, EndPass
      <4>2. CASE UNCHANGED <<apiVars, viewVars>> BY <4>2 DEF apiVars, viewVars
      <4>3. ASSUME NEW k \in Nodes, Wrote(k), MarksIt(k) \/ EscalatesIt(k) \/ ReleasesIt(k)
            PROVE  machine'[n] = machine[n] /\ vfresh'[n] = vfresh[n]
        <5>1. k = NodeOf[sig] BY <2>1, <4>3, ReleasesRestarts DEF MarksIt, EscalatesIt
        <5>2. QED BY <1>1, <2>5, <4>3, <5>1 DEF Wrote
      <4>4. QED BY <2>1, <4>1, <4>2, <4>3, OperatorSteps DEF OperatorKinds
    <3>2. Called(n) BY <1>2, <2>1, <2>2, <2>5, <3>1
    <3>3. PICK k \in Keys : k[1] = n /\ observed[k].call # "none" BY <3>2 DEF Called
    <3>4. observed'[k] = observed[k] BY <2>3, <2>4, <2>5, <3>3
    <3>5. QED BY <3>3, <3>4 DEF Called
  <2>6. CASE n = NodeOf[sig]
    <3>1. \/ observed'[Key(sig)].call # "none"
          \/ Decided = "Report" /\ vfresh[n] /\ machine' = machine
      BY <1>5, <2>6, HandleHolds DEF SignalsHold
    <3>2. CASE observed'[Key(sig)].call # "none" BY <2>4, <2>6, <3>2 DEF Called
    <3>3. CASE Decided = "Report" /\ vfresh[n] /\ machine' = machine
      <4>1. Called(n) BY <1>2, <2>1, <2>2, <3>3
      <4>2. PICK k \in Keys : k[1] = n /\ observed[k].call # "none" BY <4>1 DEF Called
      <4>3. PICK t \in Signals : Key(t) = k /\ Want[t] # "Report" BY <1>2, <4>2
      <4>4. k # Key(sig) BY <2>1, <2>2, <3>3, <4>3 DEF SignalsHold
      <4>5. QED BY <2>3, <4>2, <4>4 DEF Called
    <3>4. QED BY <3>1, <3>2, <3>3
  <2>7. QED BY <2>5, <2>6
<1>6. CASE Reread /\ n = NodeOf[sig]
  <2>1. sig \in Signals /\ observed[Key(sig)].call = "Restart" /\ observed' = observed
    BY <1>6 DEF Reread, PassInv, ReleasesKnown, TypeOK, PassTypeOK
  <2>2. Key(sig) \in Keys /\ Key(sig)[1] = n BY <1>6, <2>1, KeyType
  <2>3. QED BY <2>1, <2>2 DEF Called
<1>7. CASE Pass /\ ~Begin /\ ~Handle /\ ~(Reread /\ n = NodeOf[sig])
  <2>1. pc # "idle" /\ pc # "handle" /\ observed' = observed
    BY <1>7 DEF Pass, PassOver, Take, PassBy, Unreadable, Answer, ReleaseAnswered, Reread,
                StartRelease, ReleaseRestart, Finish, EndPass
  <2>2. Done(s) BY <1>7, <2>1, DoneBefore
  <2>3. vfresh[n] /\ machine'[n] = machine[n]
    <3>1. CASE Reread
      BY <1>1, <1>7, <3>1 DEF Reread, apiVars, viewVars, TypeOK, MachinesTypeOK
    <3>2. CASE ~Reread BY <1>1, <1>7, <2>1, <3>2, ReleasableBefore
    <3>3. QED BY <3>1, <3>2
  <2>4. Called(n) BY <1>2, <2>1, <2>2, <2>3
  <2>5. QED BY <2>1, <2>4 DEF Called
<1>8. CASE UNCHANGED vars
  <2>1. UNCHANGED <<pc, read, todo, sig, asking, observed, vfresh, machine>>
    BY <1>8 DEF vars, apiVars, viewVars, passVars
  <2>2. Done(s) BY <2>1 DEF Done
  <2>3. Called(n) BY <1>2, <2>1, <2>2
  <2>4. QED BY <2>1, <2>3 DEF Called
<1>9. ~Crash BY DEF Crash, EndPass
<1>10. QED BY <1>3, <1>4, <1>5, <1>6, <1>7, <1>8, <1>9 DEF Next

\* A signal that the pass acted on, or refused to act on, holds the restart
\* mark of its Machine to the end of the pass, whatever the other signals of
\* the node come to: where no escalation is refused, and a check of a node is
\* not both reported and acted on (remediate, releaseRestarts).
THEOREM SignalsHoldTheirMachines ==
  ASSUME SignalsHold
  PROVE  Spec => []HoldInv
<1>1. Init => HoldInv BY DEF Init, HoldInv, NoCall
<1>2. TypeOK /\ PassInv /\ HoldInv /\ [Next]_vars => HoldInv'
  BY ObservedCalls, SignalsHoldKept DEF HoldInv, Key
<1>3. QED BY <1>1, <1>2, TypeCorrect, PassesKnowWhatTheyWrite, PTL DEF Spec

\* A condition that calls for a restart or a replacement holds the restart mark
\* of its Machine, in every pass that read it (collect, releaseRestarts).
THEOREM FaultsHoldMarks ==
  ASSUME SignalsHold
  PROVE  Spec => FaultHoldsMark
<1>1. TypeOK /\ PassInv /\ HoldInv /\ [Next]_vars =>
        [ByOperator => \A n \in Nodes :
           MarkedAction(machine[n]) = "Restart" /\ ~machine'[n].marked /\ read.mode = "NodeCondition"
           => \A c \in read.nodes[n].faults : Want[c] = "Report"]_vars
  <2> SUFFICES ASSUME TypeOK, PassInv, HoldInv, [Next]_vars, ByOperator, NEW n \in Nodes,
                      MarkedAction(machine[n]) = "Restart", ~machine'[n].marked,
                      read.mode = "NodeCondition", NEW c \in read.nodes[n].faults,
                      Want[c] # "Report"
               PROVE  FALSE
    OBVIOUS
  <2>1. Pass \/ Crash BY OperatorActs
  <2>2. machine'[n] # machine[n] BY DEF MarkedAction
  <2>3. ~MarksIt(n) BY MarksUnmarked, MarkStoredFields DEF MarksIt
  <2>4. ~EscalatesIt(n) BY EscalatesRestarts
  <2>5. ReleasesIt(n) BY <2>1, <2>2, <2>3, <2>4, OperatorWrites
  <2>6. pc = "release" /\ view[n] = machine[n] /\ ~Held(n) /\ todo = {} /\ machine[n].exists
        /\ vfresh[n] /\ ~view[n].deleting
    BY <2>5, ReleasesRestarts DEF ReleasesIt, PassInv, RequestsInHand
  <2>7. read \in Reads BY <2>6 DEF TypeOK, PassTypeOK
  <2>8. c \in Signals
    <3>1. read.nodes[n] \in NodeRecords BY <2>7 DEF Reads
    <3>2. QED BY <3>1 DEF NodeRecords, Signals
  <2>9. NodeOf[c] = n /\ read.nodes[n].exists
    BY <2>6 DEF PassInv, NodesKnown
  <2>10. Done(c) BY <2>6, <2>9 DEF Done
  <2>11. Called(n) BY <2>6, <2>8, <2>9, <2>10 DEF HoldInv, Releasable
  <2>12. PICK k \in Keys : k[1] = n /\ observed[k].call # "none" BY <2>11 DEF Called
  <2>13. observed[k].request = NoRequest BY <2>6 DEF PassInv, RequestsInHand
  <2>14. QED BY <2>6, <2>12, <2>13 DEF Held, Leftover
<1>2. QED
  BY <1>1, TypeCorrect, PassesKnowWhatTheyWrite, SignalsHoldTheirMachines, PTL DEF FaultHoldsMark, Spec

-----------------------------------------------------------------------------
(* A pending request keeps its mark *)

\* A step of the operator loses no request that is pending.
LEMMA PendingInHand ==
  ASSUME TypeOK, Pass, pc # "idle", pc' # "idle", NEW r \in Requests, request[r] = "pending",
         r \in todo \cup asking \/ unreadable
  PROVE  r \in todo' \cup asking' \/ unreadable'
<1>1. ASSUME NEW t \in todo, Take(t) PROVE r \in todo' \cup asking' \/ unreadable'
  BY <1>1 DEF Take
<1>2. ASSUME NEW t \in todo, PassBy(t) \/ Unreadable(t) PROVE r \in todo' \cup asking' \/ unreadable'
  BY <1>2 DEF PassBy, Unreadable, LivePending
<1>3. CASE Handle BY <1>3, HandleKinds DEF passVars
<1>4. CASE Answer \/ ReleaseAnswered \/ Reread \/ StartRelease \/ \E n \in left : ReleaseRestart(n)
  BY <1>4 DEF Answer, ReleaseAnswered, Reread, StartRelease, ReleaseRestart, passVars
<1>5. QED BY <1>1, <1>2, <1>3, <1>4 DEF Pass, Begin, PassOver, Finish, EndPass

LEMMA PendingKept ==
  ASSUME Modes = {"ExternalRemediationRequest"}, TypeOK, PassInv, PendingInv, [Next]_vars
  PROVE  PendingInv'
<1> SUFFICES ASSUME NEW r \in Requests, request'[r] = "pending"
             PROVE  /\ (\E n \in Nodes : machine'[n].request = r) \/ r \in todo' \cup asking'
                       => r \in rcache'
                    /\ pc' # "idle" /\ machine'[NodeOf[r]].request = r
                       => r \in todo' \cup asking' \/ unreadable'
  BY DEF PendingInv
<1>1. NodeOf[r] \in Nodes /\ r # NoRequest BY ConstantsAssumption, NoRequestAssumption DEF Signals
<1>2. request[r] = "pending" =>
        /\ (\E n \in Nodes : machine[n].request = r) \/ r \in todo \cup asking => r \in rcache
        /\ pc # "idle" /\ machine[NodeOf[r]].request = r => r \in todo \cup asking \/ unreadable
  BY DEF PendingInv
<1>3. CASE Environment
  <2>1. RequestsByOthers /\ UNCHANGED <<pc, todo, asking, unreadable>>
    BY <1>3, EnvironmentSteps DEF EnvFrame, passVars
  <2>2. \A n \in Nodes : machine'[n].request = machine[n].request
    BY <1>3, EnvironmentSteps DEF MachinesByOthers, OthersWrite
  <2>3. request[r] = "unraised" =>
          (\A n \in Nodes : machine[n].request # r) /\ r \notin todo \cup asking
    BY DEF PassInv, RequestsNamed, Named
  <2>4. request[r] \in {"unraised", "pending"} /\ (r \in rcache => r \in rcache')
    BY <2>1 DEF RequestsByOthers
  <2>5. QED BY <1>1, <1>2, <2>1, <2>2, <2>3, <2>4
<1>4. CASE Pass \/ Crash
  <2>1. request[r] = "pending" BY <1>4, OperatorAnswers
  <2>2. r \in rcache => r \in rcache' BY <1>4, OperatorAnswers
  <2>3. ASSUME NEW n \in Nodes, machine'[n].request = r
        PROVE  machine[n].request = r \/ (r \in asking /\ pc = "handle")
    <3>1. \/ machine[n].request = r
          \/ pc = "handle" /\ sig \in Requests /\ sig = r
      BY <1>1, <1>4, <2>3, OperatorFields DEF PassInv
    <3>2. QED BY <3>1 DEF PassInv, RequestsInHand
  <2>4. (\E n \in Nodes : machine'[n].request = r) => r \in rcache
    BY <1>2, <2>1, <2>3
  <2>5. CASE Begin
    <3>1. mode = "ExternalRemediationRequest" BY DEF TypeOK, ClustersTypeOK
    <3>2. todo' = rcache /\ asking' = {} BY <2>5, <3>1 DEF Begin, Collected, PendingRequests, PassInv, RequestsInHand
    <3>3. QED BY <1>1, <2>2, <2>4, <3>2
  <2>6. CASE EndPass BY <2>2, <2>4, <2>6 DEF EndPass
  <2>7. CASE PassOver
    <3>1. UNCHANGED <<todo, asking, pc>> /\ pc = "idle" BY <2>7 DEF PassOver, passVars
    <3>2. QED BY <1>2, <2>1, <2>2, <2>4, <3>1
  <2>8. CASE /\ pc # "idle" /\ pc' # "idle" /\ todo' \subseteq todo
             /\ asking' \subseteq asking \cup (todo \cap Requests)
    <3>1. Pass BY <1>4, <2>8 DEF Crash, EndPass
    <3>2. r \in todo' \cup asking' => r \in rcache BY <1>2, <2>1, <2>8
    <3>3. machine'[NodeOf[r]].request = r => r \in todo \cup asking \/ unreadable
      BY <1>1, <1>2, <2>1, <2>3, <2>8
    <3>4. QED BY <2>1, <2>2, <2>4, <2>8, <3>1, <3>2, <3>3, PendingInHand
  <2>9. QED BY <1>4, <2>5, <2>6, <2>7, <2>8, OperatorReads
<1>5. CASE UNCHANGED vars
  <2>1. UNCHANGED <<pc, todo, asking, unreadable, machine, request, rcache>>
    BY <1>5 DEF vars, apiVars, passVars, reqVars
  <2>2. QED BY <1>2, <2>1
<1>6. QED BY <1>3, <1>4, <1>5 DEF Next

\* A pass meets every pending request that a Machine is marked for, or does not
\* release: where NVSentinel leaves its requests to the operator, however far
\* the caches lag (Reconcile, collect, releaseRestarts).
THEOREM PendingAreMet ==
  ASSUME Modes = {"ExternalRemediationRequest"}
  PROVE  Spec => []PendingInv
<1>1. Init => PendingInv BY DEF Init, PendingInv
<1>2. TypeOK /\ PassInv /\ PendingInv /\ [Next]_vars => PendingInv' BY PendingKept
<1>3. QED BY <1>1, <1>2, TypeCorrect, PassesKnowWhatTheyWrite, PTL DEF Spec

\* A restart mark is not released while the request it was made for is
\* pending, whatever the pass's other signals come to.
LEMMA PendingNotReleased ==
  ASSUME TypeOK, PassInv, HoldInv, PendingInv, NEW n \in Nodes, ReleasesIt(n),
         NEW r \in Requests, machine[n].request = r
  PROVE  request[r] # "pending"
<1> SUFFICES ASSUME request[r] = "pending" PROVE FALSE OBVIOUS
<1>1. view[n] = machine[n] /\ MarkedAction(machine[n]) = "Restart" /\ machine[n].exists /\ vfresh[n]
  BY ReleasesRestarts DEF ReleasesIt
<1>2. pc # "releaseAnswered" BY ReleasesRestarts, NoRequestAssumption
<1>3. pc = "release" /\ MayRelease /\ ~Held(n) /\ todo = {} BY <1>2, ReleasesRestarts
<1>4. NodeOf[r] = n /\ Want[r] = "Restart" BY DEF PassInv, RequestsNamed, Named
<1>5. r \in asking BY <1>3, <1>4 DEF PendingInv, MayRelease
<1>6. Done(r) BY <1>3, <1>5 DEF Done
<1>7. Called(n) BY <1>1, <1>3, <1>4, <1>6 DEF HoldInv, Releasable, Signals
<1>8. PICK k \in Keys : k[1] = n /\ observed[k].call # "none" BY <1>7 DEF Called
<1>9. ~Leftover(n, observed[k]) BY <1>1, <1>5 DEF Leftover
<1>10. QED BY <1>3, <1>8, <1>9 DEF Held

\* The mark made for a request stays while the request is pending: it is never
\* released, only escalated, where NVSentinel leaves its requests to the
\* operator and a signal holds its Machine (remediate, releaseRestarts).
THEOREM PendingMarksStay ==
  ASSUME SignalsHold, Modes = {"ExternalRemediationRequest"}
  PROVE  Spec => PendingKeepsItsMark
<1>1. TypeOK /\ PassInv /\ HoldInv /\ PendingInv /\ [Next]_vars =>
        [ByOperator => \A n \in Nodes, r \in Requests :
           MarkFor(machine[n], r) /\ request[r] = "pending"
           => MarkedAction(machine'[n]) # "none"]_vars
  <2> SUFFICES ASSUME TypeOK, PassInv, HoldInv, PendingInv, [Next]_vars, ByOperator,
                      NEW n \in Nodes, NEW r \in Requests,
                      MarkFor(machine[n], r), request[r] = "pending"
               PROVE  MarkedAction(machine'[n]) # "none"
    OBVIOUS
  <2>1. Pass \/ Crash BY OperatorActs
  <2>2. machine[n].request = r /\ machine[n].action = "Restart" BY DEF MarkFor, MarkedAction
  <2>3. CASE MarksIt(n)
    BY <2>2, <2>3, MarksUnmarked, MarkStoredFields DEF MarksIt, MarkedAction
  <2>4. CASE EscalatesIt(n) BY <2>4, EscalatesRestarts DEF MarkedAction
  <2>5. ~ReleasesIt(n) BY <2>2, PendingNotReleased
  <2>6. CASE machine'[n] = machine[n] BY <2>6 DEF MarkFor
  <2>7. QED BY <2>1, <2>3, <2>4, <2>5, <2>6, OperatorWrites
<1>2. QED
  BY <1>1, TypeCorrect, PassesKnowWhatTheyWrite, SignalsHoldTheirMachines, PendingAreMet, PTL
     DEF PendingKeepsItsMark, Spec

-----------------------------------------------------------------------------
(* A declined request has no mark *)

\* Nobody taking a mark apart, the environment marks no Machine for a request.
LEMMA OthersMarkNothing ==
  ASSUME "unmark" \notin Disturbances, TypeOK, MarksInv, Environment,
         NEW n \in Nodes, NEW r \in Requests, MarkFor(machine'[n], r)
  PROVE  MarkFor(machine[n], r)
<1>1. OthersWrite(n) BY EnvironmentSteps DEF MachinesByOthers
<1>2. Whole(machine[n]) BY DEF MarksInv, MarksWhole
<1>3. machine[n].action = "Restart" /\ machine[n].request = r
  BY <1>1 DEF OthersWrite, MarkFor, MarkedAction
<1>4. QED BY <1>2, <1>3 DEF MarkFor, MarkedAction, Whole

\* Within a pass, a copy changes only to the Machine as it is, which exists.
LEMMA CopiesInPass ==
  ASSUME "machines" \notin Lag, TypeOK, PassInv, Pass \/ Crash, pc # "idle", pc' # "idle",
         NEW n \in Nodes
  PROVE  view'[n] = view[n] \/ (view'[n] = machine'[n] /\ view'[n].exists)
<1>1. ~Begin /\ ~EndPass BY DEF Begin, EndPass
<1>2. CASE UNCHANGED <<apiVars, viewVars>> BY <1>2 DEF viewVars
<1>3. CASE Reread
  BY <1>3 DEF Reread, apiVars, viewVars, TypeOK, MachinesTypeOK, PassInv, CopiesCurrent
<1>4. ASSUME NEW k \in Nodes, Wrote(k), MarksIt(k) \/ EscalatesIt(k) \/ ReleasesIt(k)
      PROVE  view'[n] = view[n] \/ (view'[n] = machine'[n] /\ view'[n].exists)
  <2>1. CASE k # n BY <1>4, <2>1 DEF Wrote
  <2>2. CASE k = n
    <3>1. machine[n].exists
      BY <1>4, <2>2, EscalatesRestarts, ReleasesRestarts DEF MarksIt
    <3>2. machine'[n].exists = machine[n].exists BY OperatorFields DEF PassInv
    <3>3. QED BY <1>4, <2>2, <3>1, <3>2 DEF Wrote
  <2>3. QED BY <2>1, <2>2
<1>5. QED BY <1>1, <1>2, <1>3, <1>4, OperatorSteps DEF OperatorKinds

\* A request whose Machine carries its mark is not declined.
LEMMA MarkedNotDeclined ==
  ASSUME Modes = {"ExternalRemediationRequest"}, TypeOK, PassInv, DeclinedInv, Handle,
         pc' = "answer", ans' = "False"
  PROVE  UNCHANGED <<machine, sig>> /\ sig \in Requests /\ ~MarkFor(machine[NodeOf[sig]], sig)
<1>1. pc = "handle" /\ sig \in Requests /\ sig' = sig /\ (Reported \/ Skipped \/ ReportedUnavailable)
  BY HandleKinds DEF passVars
<1>2. NodeOf[sig] \in Nodes BY <1>1, ConstantsAssumption DEF Signals
<1>3. machine' = machine BY <1>1 DEF Reported, Skipped, ReportedUnavailable, apiVars
<1>4. ASSUME MarkFor(machine[NodeOf[sig]], sig) PROVE FALSE
  <2>1. MarkFor(Machine, sig) BY <1>1, <1>4 DEF DeclinedInv, Machine
  <2>2. Machine.marked BY <2>1 DEF MarkFor, MarkedAction
  <2>3. Want[sig] = "Restart" BY <1>1, <1>2, <1>4 DEF PassInv, RequestsNamed, Named, MarkFor
  <2>4. read.mode = "ExternalRemediationRequest" BY <1>1 DEF TypeOK, PassTypeOK, Reads
  <2>5. Decided = "Restart" BY <2>3, <2>4 DEF Decided
  <2>6. ~Reported
    <3> SUFFICES ASSUME Reported PROVE FALSE OBVIOUS
    <3>1. ~NodeGone BY DEF Reported, Conclude
    <3>2. ~Machine.exists BY <2>5, <3>1 DEF Reported
    <3>3. ~Node.exists BY <1>1, <1>2, <3>2 DEF DeclinedInv, Machine, Node
    <3>4. QED BY <1>1, <3>1, <3>3 DEF NodeGone
  <2>7. ~Skipped
    <3>1. Guard(Machine) \in {"MachineDeleting", "AlreadyMarkedForRemediation"} BY <2>2 DEF Guard
    <3>2. QED BY <3>1 DEF Skipped, InProgress, Conclude
  <2>8. ~ReportedUnavailable BY <2>2 DEF ReportedUnavailable, Guard
  <2>9. QED BY <1>1, <2>6, <2>7, <2>8
<1>5. QED BY <1>1, <1>3, <1>4

\* The requests still to be looked at are seen marked when they are.
LEMMA MarksSeen ==
  ASSUME Modes = {"ExternalRemediationRequest"}, "machines" \notin Lag, "unmark" \notin Disturbances,
         TypeOK, PassInv, MarksInv, DeclinedInv, [Next]_vars, pc' # "idle",
         NEW r \in Requests, r \in todo' \/ (pc' = "handle" /\ sig' = r),
         MarkFor(machine'[NodeOf[r]], r)
  PROVE  MarkFor(view'[NodeOf[r]], r)
<1> DEFINE n == NodeOf[r]
<1>1. n \in Nodes BY ConstantsAssumption DEF Signals
<1>2. pc # "idle" /\ (r \in todo \/ (pc = "handle" /\ sig = r)) /\ MarkFor(machine[n], r)
      => MarkFor(view[n], r)
  BY DEF DeclinedInv
<1>3. CASE Environment
  <2>1. UNCHANGED <<pc, todo, sig, view>> BY <1>3, EnvironmentSteps DEF EnvFrame, passVars, MachinesByOthers
  <2>2. MarkFor(machine[n], r) BY <1>1, <1>3, OthersMarkNothing
  <2>3. QED BY <1>2, <2>1, <2>2
<1>4. CASE Begin
  <2>1. view' = machine' BY <1>4 DEF Begin, PassInv, CopiesCurrent, apiVars
  <2>2. QED BY <2>1
<1>5. CASE (Pass \/ Crash) /\ ~Begin
  <2>1. pc # "idle" /\ r \in todo BY <1>5, ToHandle DEF Signals
  <2>2. machine'[n] = machine[n]
    <3> SUFFICES ASSUME machine'[n] # machine[n] PROVE FALSE OBVIOUS
    <3>1. pc = "handle" /\ sig = r BY <1>1, <1>5, MarksTheRequest
    <3>2. QED BY <2>1, <3>1 DEF PassInv, RequestsInHand
  <2>3. MarkFor(view[n], r) BY <1>2, <2>1, <2>2
  <2>4. QED BY <1>1, <1>5, <2>1, <2>2, <2>3, CopiesInPass
<1>6. CASE UNCHANGED vars
  BY <1>2, <1>6 DEF vars, apiVars, viewVars, passVars
<1>7. QED BY <1>3, <1>4, <1>5, <1>6 DEF Next

LEMMA DeclinedKept ==
  ASSUME Modes = {"ExternalRemediationRequest"}, "machines" \notin Lag, "nodes" \notin Lag,
         "unmark" \notin Disturbances,
         TypeOK, PassInv, MarksInv, DeclinedInv, [Next]_vars
  PROVE  DeclinedInv'
<1>1. ASSUME pc' # "idle", NEW n \in Nodes, ~view'[n].exists PROVE ~read'.nodes[n].exists
  <2>1. pc # "idle" /\ ~view[n].exists => ~read.nodes[n].exists BY DEF DeclinedInv
  <2>2. CASE Environment
    BY <1>1, <2>1, <2>2, EnvironmentSteps DEF EnvFrame, MachinesByOthers
  <2>3. CASE Begin
    <3>1. view' = machine /\ read'.nodes = node
      BY <2>3 DEF Begin, PassInv, CopiesCurrent, NodesKnown
    <3>2. QED BY <1>1, <3>1 DEF PassInv, NodesKnown
  <2>4. CASE (Pass \/ Crash) /\ ~Begin
    <3>1. pc # "idle" /\ read' = read BY <1>1, <2>4, OperatorReads DEF PassOver, EndPass
    <3>2. view'[n] = view[n] BY <1>1, <2>4, <3>1, CopiesInPass
    <3>3. QED BY <1>1, <2>1, <3>1, <3>2
  <2>5. CASE UNCHANGED vars BY <1>1, <2>1, <2>5 DEF vars, viewVars
  <2>6. QED BY <2>2, <2>3, <2>4, <2>5 DEF Next
<1>2. ASSUME pc' = "answer", ans' = "False" PROVE ~MarkFor(machine'[NodeOf[sig']], sig')
  <2>1. pc = "answer" /\ ans = "False" => ~MarkFor(machine[NodeOf[sig]], sig) BY DEF DeclinedInv
  <2>2. pc = "answer" => sig \in Requests /\ NodeOf[sig] \in Nodes
    BY ConstantsAssumption DEF TypeOK, PassTypeOK, Signals
  <2>3. CASE Environment
    BY <1>2, <2>1, <2>2, <2>3, EnvironmentSteps, OthersMarkNothing DEF EnvFrame, passVars
  <2>4. CASE Handle BY <1>2, <2>4, MarkedNotDeclined
  <2>5. CASE (Pass \/ Crash) /\ ~Handle
    BY <1>2, <2>5 DEF Pass, Begin, PassOver, Take, PassBy, Unreadable, Answer, ReleaseAnswered, Reread,
       StartRelease, ReleaseRestart, Finish, Crash, EndPass
  <2>6. CASE UNCHANGED vars BY <1>2, <2>1, <2>6 DEF vars, apiVars, passVars
  <2>7. QED BY <2>3, <2>4, <2>5, <2>6 DEF Next
<1>3. ASSUME NEW r \in Requests, NEW n \in Nodes, request'[r] = "False" PROVE ~MarkFor(machine'[n], r)
  <2>1. request[r] = "False" => ~MarkFor(machine[n], r) BY DEF DeclinedInv, DeclinedNotMarked
  <2>2. CASE Environment
    <3>1. request[r] = "False" BY <1>3, <2>2, EnvironmentSteps DEF RequestsByOthers
    <3>2. QED BY <2>1, <2>2, <3>1, OthersMarkNothing
  <2>3. CASE Pass \/ Crash
    <3> SUFFICES ASSUME MarkFor(machine'[n], r) PROVE FALSE OBVIOUS
    <3>1. CASE request'[r] = request[r]
      <4>1. machine'[n] # machine[n] BY <1>3, <2>1, <3>1
      <4>2. request[r] \in {"pending", "closed"} BY <2>3, <4>1, MarksTheRequest
      <4>3. QED BY <1>3, <3>1, <4>2
    <3>2. CASE request'[r] # request[r]
      <4>1. pc = "answer" /\ r = sig /\ ans = "False" BY <1>3, <2>3, <3>2, OperatorAnswers
      <4>2. ~MarkFor(machine[NodeOf[r]], r) BY <4>1 DEF DeclinedInv
      <4>3. machine'[n] = machine[n] BY <2>3, <4>1, MarksTheRequest
      <4>4. NodeOf[r] = n BY <4>3 DEF PassInv, RequestsNamed, Named, MarkFor
      <4>5. QED BY <4>2, <4>3, <4>4
    <3>3. QED BY <3>1, <3>2
  <2>4. CASE UNCHANGED vars BY <1>3, <2>1, <2>4 DEF vars, apiVars, reqVars
  <2>5. QED BY <2>2, <2>3, <2>4 DEF Next
<1>4. QED BY <1>1, <1>2, <1>3, MarksSeen DEF DeclinedInv, DeclinedNotMarked

\* A pass declines a request only with its Machine as it is, and not only as it
\* was read, unmarked or marked for another, and hands on no stale copy of a mark
\* to a signal it has yet to take: the induction behind DeclinedAreNotMarked
\* (decline, Answer, Reconcile's copies of the Machines).
THEOREM DeclinesAreSafe ==
  ASSUME Modes = {"ExternalRemediationRequest"}, "machines" \notin Lag, "nodes" \notin Lag,
         "unmark" \notin Disturbances
  PROVE  Spec => []DeclinedInv
<1>1. Init => DeclinedInv BY DEF Init, DeclinedInv, DeclinedNotMarked
<1>2. TypeOK /\ PassInv /\ MarksInv /\ DeclinedInv /\ [Next]_vars => DeclinedInv' BY DeclinedKept
<1>3. QED BY <1>1, <1>2, TypeCorrect, PassesKnowWhatTheyWrite, OwnMarksAreKnown, PTL DEF Spec

\* A request that was declined has no restart mark on any Machine, then or
\* later, where NVSentinel leaves its requests to the operator, the cached
\* Machines and nodes keep up and nobody takes a mark apart: whichever replies
\* are lost and wherever the operator stops (decline, Answer).
THEOREM DeclinedAreNotMarked ==
  ASSUME Modes = {"ExternalRemediationRequest"}, "machines" \notin Lag, "nodes" \notin Lag,
         "unmark" \notin Disturbances
  PROVE  Spec => []DeclinedNotMarked
<1>1. DeclinedInv => DeclinedNotMarked BY DEF DeclinedInv
<1>2. QED BY <1>1, DeclinesAreSafe, PTL

-----------------------------------------------------------------------------
(* A replacement that is asked for holds the Machine *)

\* Requests are taken in order, and one that is confirmed asked for a restart.
LEMMA TakenInOrder ==
  ASSUME TypeOK, PassInv, ReplaceInv, [Next]_vars
  PROVE  /\ \A r \in asking' :
              /\ \A t \in todo' : Order[r] <= Order[t]
              /\ pc' \in {"handle", "answer", "releaseAnswered", "reread"} => Order[r] <= Order[sig']
         /\ (pc' = "answer" /\ ans' = "True") \/ pc' \in {"releaseAnswered", "reread"}
            => Want[sig'] = "Restart"
<1>1. /\ \A r \in asking :
           /\ \A t \in todo : Order[r] <= Order[t]
           /\ pc \in {"handle", "answer", "releaseAnswered", "reread"} => Order[r] <= Order[sig]
      /\ (pc = "answer" /\ ans = "True") \/ pc \in {"releaseAnswered", "reread"}
         => Want[sig] = "Restart"
  BY DEF ReplaceInv
<1>2. CASE UNCHANGED <<pc, ans, asking, todo, sig>> BY <1>1, <1>2
<1>3. ASSUME NEW s \in todo, Take(s)
      PROVE  /\ \A r \in asking' : /\ \A t \in todo' : Order[r] <= Order[t]
                                   /\ Order[r] <= Order[sig']
             /\ pc' = "handle"
  <2>1. /\ asking' \subseteq asking \cup {s} /\ todo' = todo \ {s} /\ sig' = s /\ pc' = "handle"
        /\ \A t \in todo : Order[s] <= Order[t]
    BY <1>3 DEF Take, First
  <2>2. QED BY <1>1, <2>1
<1>4. ASSUME NEW s \in todo, PassBy(s) \/ Unreadable(s)
      PROVE  UNCHANGED <<asking, pc>> /\ pc = "signals" /\ todo' \subseteq todo
  BY <1>4 DEF PassBy, Unreadable
<1>5. CASE Handle
  <2>1. UNCHANGED <<asking, todo, sig>> /\ pc = "handle" BY <1>5, HandleKinds DEF passVars
  <2>2. pc' \in {"signals", "answer"} /\ (pc' = "answer" /\ ans' = "True" => RestartOver)
    BY <1>5, HandleKinds
  <2>3. RestartOver => Want[sig] = "Restart" BY DEF RestartOver, Complete, Decided
  <2>4. QED BY <1>1, <2>1, <2>2, <2>3
<1>6. CASE Answer \/ ReleaseAnswered \/ Reread
  <2>1. /\ UNCHANGED <<asking, todo, sig>> /\ pc' \in {"signals", "releaseAnswered", "reread"}
        /\ pc \in {"answer", "releaseAnswered", "reread"}
        /\ pc = "answer" /\ pc' # "signals" => ans = "True"
    BY <1>6 DEF Answer, ReleaseAnswered, Reread, passVars
  <2>2. QED BY <1>1, <2>1
<1>7. CASE StartRelease \/ \E n \in left : ReleaseRestart(n)
  BY <1>1, <1>7 DEF StartRelease, ReleaseRestart, passVars
<1>8. CASE Begin BY <1>8 DEF Begin, PassInv, RequestsInHand
<1>9. CASE Finish \/ Crash BY <1>9 DEF Finish, Crash, EndPass
<1>10. CASE PassOver BY <1>2, <1>10 DEF PassOver, passVars
<1>11. CASE Environment BY <1>2, <1>11, EnvironmentSteps DEF EnvFrame, passVars
<1>12. CASE UNCHANGED vars BY <1>2, <1>12 DEF vars, passVars
<1>13. CASE \E s \in todo : Take(s) BY <1>3, <1>13
<1>14. CASE \E s \in todo : PassBy(s) \/ Unreadable(s) BY <1>1, <1>4, <1>14
<1>15. QED
  BY <1>5, <1>6, <1>7, <1>8, <1>9, <1>10, <1>11, <1>12, <1>13, <1>14 DEF Next, Pass

LEMMA ReplacementCalls ==
  ASSUME SignalsHold, RestartsFirst, TypeOK, PassInv, HoldInv, ReplaceInv, [Next]_vars,
         NEW r \in asking', Want[r] = "Replace", ~(pc' = "handle" /\ sig' = r),
         vfresh'[NodeOf[r]], Releasable(machine'[NodeOf[r]])
  PROVE  \E k \in Keys : k[1] = NodeOf[r] /\ observed'[k].call = "Replace"
<1> DEFINE n == NodeOf[r]
<1> DEFINE Replaces == \E k \in Keys : k[1] = n /\ observed[k].call = "Replace"
<1>1. r \in asking /\ ~(pc = "handle" /\ sig = r) /\ vfresh[n] /\ Releasable(machine[n]) => Replaces
  BY DEF ReplaceInv
<1>2. CASE Environment
  <2>1. asking' = asking BY <1>2, EnvironmentSteps DEF EnvFrame, passVars
  <2>2. r \in Signals /\ n \in Nodes
    BY <2>1, ConstantsAssumption DEF TypeOK, PassTypeOK, Signals
  <2>3. /\ UNCHANGED <<pc, sig, observed>> /\ vfresh[n] /\ machine'[n] = machine[n]
    BY <1>2, <2>2, EnvironmentSteps DEF EnvFrame, passVars, MachinesByOthers
  <2>4. QED BY <1>1, <2>1, <2>3
<1>3. CASE UNCHANGED vars
  BY <1>1, <1>3 DEF vars, apiVars, viewVars, passVars
<1>4. CASE Pass \/ Crash
  <2>1. ~Begin /\ ~EndPass BY DEF Begin, EndPass, PassInv, RequestsInHand
  <2>2. ~PassOver BY DEF PassOver, passVars, PassInv, RequestsInHand
  <2>3. pc # "idle" /\ pc' # "idle" /\ asking' \subseteq asking \cup (todo \cap Requests)
    BY <1>4, <2>1, <2>2, OperatorReads
  <2>4. Pass BY <1>4, <2>1 DEF Crash
  <2>5. r \in Requests BY <2>3 DEF TypeOK, PassTypeOK
  <2>6. r \in Signals /\ n \in Nodes BY <2>5, ConstantsAssumption DEF Signals
  <2>7. Done(r)' BY DEF Done
  <2>8. (Done(r) \/ (pc = "handle" /\ sig = r)) /\ Decided = Want[sig]
    BY <2>3, <2>4, <2>6, <2>7, DoneBefore
  <2>9. r \in asking
    <3>1. CASE \E s \in todo : Take(s)
      BY <3>1 DEF Take
    <3>2. CASE ~ \E s \in todo : Take(s)
      <4>1. asking' = asking
        <5>1. CASE Handle BY <5>1, HandleKinds DEF passVars
        <5>2. CASE ~Handle
          BY <2>1, <2>2, <2>4, <3>2, <5>2
             DEF Pass, PassBy, Unreadable, Answer, ReleaseAnswered, Reread, StartRelease,
                 ReleaseRestart, Finish, passVars
        <5>3. QED BY <5>1, <5>2
      <4>2. QED BY <4>1
    <3>3. QED BY <3>1, <3>2
  <2>10. CASE Handle
    <3>1. pc = "handle" /\ sig \in Signals BY <2>10, HandleKinds DEF TypeOK, PassTypeOK
    <3>2. \A k \in Keys : k # Key(sig) => observed'[k] = observed[k]
      BY <2>10, HandleKinds DEF TypeOK, PassTypeOK
    <3>3. Key(sig) \in Keys /\ Key(sig)[1] = NodeOf[sig] BY <3>1, KeyType
    <3>4. CASE n # NodeOf[sig]
      <4>1. machine'[n] = machine[n] /\ vfresh'[n] = vfresh[n]
        <5>1. ~Reread BY <3>1 DEF Reread
        <5>2. CASE UNCHANGED <<apiVars, viewVars>> BY <5>2 DEF apiVars, viewVars
        <5>3. ASSUME NEW k \in Nodes, Wrote(k), MarksIt(k) \/ EscalatesIt(k) \/ ReleasesIt(k)
              PROVE  machine'[n] = machine[n] /\ vfresh'[n] = vfresh[n]
          <6>1. k = NodeOf[sig] BY <3>1, <5>3, ReleasesRestarts DEF MarksIt, EscalatesIt
          <6>2. QED BY <2>6, <3>4, <5>3, <6>1 DEF Wrote
        <5>4. QED BY <2>1, <2>4, <5>1, <5>2, <5>3, OperatorSteps DEF OperatorKinds
      <4>2. Replaces BY <1>1, <2>9, <3>4, <4>1
      <4>3. PICK k \in Keys : k[1] = n /\ observed[k].call = "Replace" BY <4>2
      <4>4. observed'[k] = observed[k] BY <3>2, <3>3, <3>4, <4>3
      <4>5. QED BY <4>3, <4>4
    <3>5. CASE n = NodeOf[sig]
      <4>1. Order[r] <= Order[sig] /\ Order[r] \in Nat /\ Order[sig] \in Nat
        BY <2>6, <2>9, <3>1, ConstantsAssumption DEF ReplaceInv
      <4>2. Want[sig] # "Restart" BY <2>6, <3>1, <3>5, <4>1 DEF RestartsFirst
      <4>3. Want[sig] \in {"Report", "Replace"}
        BY <3>1, <4>2, ConstantsAssumption DEF Decisions
      <4>4. \/ observed'[Key(sig)].call # "none"
            \/ Decided = "Report" /\ vfresh[n] /\ machine' = machine
        BY <2>10, <3>5, HandleHolds DEF SignalsHold
      <4>5. CASE observed'[Key(sig)].call # "none"
        <5>1. observed'[Key(sig)] \in {Call, NoCall}
          BY <2>10, <3>3, HandleKinds DEF TypeOK, PassTypeOK
        <5>2. observed'[Key(sig)].call = "Replace"
          BY <2>8, <4>3, <4>5, <5>1 DEF Call, NoCall
        <5>3. QED BY <3>3, <3>5, <5>2
      <4>6. CASE Decided = "Report" /\ vfresh[n] /\ machine' = machine
        <5>1. Replaces BY <1>1, <2>8, <2>9, <4>6
        <5>2. PICK k \in Keys : k[1] = n /\ observed[k].call = "Replace" BY <5>1
        <5>3. PICK t \in Signals : Key(t) = k /\ Want[t] # "Report" BY <5>2 DEF HoldInv
        <5>4. k # Key(sig) BY <2>8, <3>1, <4>6, <5>3 DEF SignalsHold
        <5>5. QED BY <3>2, <5>2, <5>4
      <4>7. QED BY <4>4, <4>5, <4>6
    <3>6. QED BY <3>4, <3>5
  <2>11. CASE Reread /\ n = NodeOf[sig]
    <3>1. pc = "reread" /\ sig \in Signals BY <2>11 DEF Reread, TypeOK, PassTypeOK
    <3>2. Want[sig] = "Restart" /\ Order[r] <= Order[sig] BY <2>9, <3>1 DEF ReplaceInv
    <3>3. Order[r] \in Nat /\ Order[sig] \in Nat BY <2>6, <3>1, ConstantsAssumption
    <3>4. QED BY <2>6, <2>11, <3>1, <3>2, <3>3 DEF RestartsFirst
  <2>12. CASE ~Handle /\ ~(Reread /\ n = NodeOf[sig])
    <3>1. pc # "handle" /\ observed' = observed
      BY <2>1, <2>2, <2>4, <2>12
         DEF Pass, Take, PassBy, Unreadable, Answer, ReleaseAnswered, Reread, StartRelease,
             ReleaseRestart, Finish
    <3>2. vfresh[n] /\ machine'[n] = machine[n]
      <4>1. CASE Reread
        BY <2>6, <2>12, <4>1 DEF Reread, apiVars, viewVars, TypeOK, MachinesTypeOK
      <4>2. CASE ~Reread BY <2>3, <2>4, <2>6, <3>1, <4>2, ReleasableBefore
      <4>3. QED BY <4>1, <4>2
    <3>3. QED BY <1>1, <2>9, <3>1, <3>2
  <2>13. QED BY <2>10, <2>11, <2>12
<1>5. QED BY <1>2, <1>3, <1>4 DEF Next

\* Where the restarts of a node sort before its replacements, no escalation is
\* refused and a check is not both reported and acted on, a pass that is done
\* with a request for a replacement calls for it on every Machine it could
\* release: the induction behind ReplacementsHoldMarks (remediate, collect).
THEOREM ReplacementsCall ==
  ASSUME SignalsHold, RestartsFirst
  PROVE  Spec => []ReplaceInv
<1>1. Init => ReplaceInv BY DEF Init, ReplaceInv
<1>2. TypeOK /\ PassInv /\ HoldInv /\ ReplaceInv /\ [Next]_vars => ReplaceInv'
  BY TakenInOrder, ReplacementCalls DEF ReplaceInv
<1>3. QED
  BY <1>1, <1>2, TypeCorrect, PassesKnowWhatTheyWrite, SignalsHoldTheirMachines, PTL DEF Spec

\* No Machine is released in a pass that found a request pending that calls for
\* its replacement, whatever conflicts and lost replies its escalation met: in
\* the setting of ReplacementsCall (releaseRestarts, answer, Escalate).
THEOREM ReplacementsHoldMarks ==
  ASSUME SignalsHold, RestartsFirst
  PROVE  Spec => ReplacementHoldsMark
<1>1. TypeOK /\ PassInv /\ ReplaceInv /\ [Next]_vars =>
        [ByOperator => \A n \in Nodes :
           MarkedAction(machine[n]) = "Restart" /\ ~machine'[n].marked
           => \A r \in asking :
                NodeOf[r] = n => ~(Want[r] = "Replace" /\ request[r] = "pending")]_vars
  <2> SUFFICES ASSUME TypeOK, PassInv, ReplaceInv, [Next]_vars, ByOperator, NEW n \in Nodes,
                      MarkedAction(machine[n]) = "Restart", ~machine'[n].marked,
                      NEW r \in asking, NodeOf[r] = n, Want[r] = "Replace"
               PROVE  FALSE
    OBVIOUS
  <2>1. Pass \/ Crash BY OperatorActs
  <2>2. machine'[n] # machine[n] BY DEF MarkedAction
  <2>3. ~MarksIt(n) BY MarksUnmarked, MarkStoredFields DEF MarksIt
  <2>4. ~EscalatesIt(n) BY EscalatesRestarts
  <2>5. ReleasesIt(n) BY <2>1, <2>2, <2>3, <2>4, OperatorWrites
  <2>6. r \in Signals BY DEF TypeOK, PassTypeOK, Signals
  <2>7. CASE pc = "releaseAnswered"
    <3>1. n = NodeOf[sig] /\ sig \in Signals
      BY <2>5, <2>7, ReleasesRestarts DEF Signals
    <3>2. Want[sig] = "Restart" /\ Order[r] <= Order[sig] BY <2>7 DEF ReplaceInv
    <3>3. Order[r] \in Nat /\ Order[sig] \in Nat BY <2>6, <3>1, ConstantsAssumption
    <3>4. QED BY <2>6, <3>1, <3>2, <3>3 DEF RestartsFirst
  <2>8. CASE pc = "release"
    <3>1. view[n] = machine[n] /\ ~Held(n) /\ machine[n].exists /\ vfresh[n]
      BY <2>5, <2>8, ReleasesRestarts DEF ReleasesIt
    <3>2. PICK k \in Keys : k[1] = n /\ observed[k].call = "Replace"
      BY <2>8, <3>1 DEF ReplaceInv, Releasable
    <3>3. QED BY <3>1, <3>2 DEF Held, Leftover
  <2>9. QED BY <2>5, <2>7, <2>8, ReleasesRestarts
<1>2. QED
  BY <1>1, TypeCorrect, PassesKnowWhatTheyWrite, ReplacementsCall, PTL DEF ReplacementHoldsMark, Spec

=============================================================================
