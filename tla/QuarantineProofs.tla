-------------------------- MODULE QuarantineProofs --------------------------
(* Theorems about Quarantine, for every value of its constants. *)
EXTENDS Quarantine, FiniteSetTheorems, TLAPS

-----------------------------------------------------------------------------
(* Facts about the operators *)

\* The setting of a behaviour is as QuarantineAssumption says.
LEMMA SettingType ==
  ASSUME setting \in Settings
  PROVE  /\ Requests \subseteq RequestValues
         /\ DryRun \in BOOLEAN /\ Lag \in BOOLEAN
         /\ Allocations \subseteq SUBSET Results
         /\ FirstRules \subseteq [Devices -> [there: BOOLEAN, blocks: BOOLEAN, owner: Nat]]
         /\ LauncherPods \subseteq Pods
         /\ \A p, q, r \in LauncherPods : p # q => PodClaims[p] \cap PodClaims[q] \subseteq PodClaims[r]
BY QuarantineAssumption
   DEF Requests, DryRun, Lag, Allocations, FirstRules, LauncherPods

\* What a Machine may be depends on the setting only.
LEMMA MachinesKept ==
  ASSUME UNCHANGED setting
  PROVE  /\ Machines' = Machines /\ Settings' = Settings
         /\ ClusterStates' = ClusterStates /\ Infras' = Infras /\ DryRun' = DryRun /\ Lag' = Lag
         /\ LauncherPods' = LauncherPods
BY DEF Machines, Requests, Bars, Toggles, ClusterStates, Infras, DryRun, Lag, LauncherPods

LEMMA NoMachineType == NoMachine \in Machines
BY DEF NoMachine, Machines, Statuses

LEMMA MachineEditType ==
  ASSUME NEW m \in Machines
  PROVE  /\ \A status \in Statuses : [m EXCEPT !.status = status] \in Machines
         /\ \A request \in Requests \cup {NoRequest} : [m EXCEPT !.request = request] \in Machines
         /\ \A bars \in SUBSET (Bars \cup Toggles) : [m EXCEPT !.bars = bars] \in Machines
         /\ [m EXCEPT !.deleting = TRUE] \in Machines
BY DEF Machines

LEMMA NewMachineType ==
  ASSUME NEW name \in Nat, NEW bars \in SUBSET (Bars \cup Toggles)
  PROVE  NewMachine(name, bars) \in Machines
BY NoMachineType DEF NewMachine, Machines

LEMMA NoVMIType == NoVMI \in [uid: Nat, active: SUBSET Pods]
BY DEF NoVMI

LEMMA NothingHeldType == NothingHeld \in [Pods -> SUBSET Devices]
BY DEF NothingHeld

LEMMA AllocatedType ==
  ASSUME NEW c \in SUBSET Results PROVE Allocated(c) \subseteq Devices
BY DEF Allocated, Results

LEMMA RuleForType ==
  ASSUME NEW owner \in Nat
  PROVE  /\ RuleFor(owner) \in [there: BOOLEAN, blocks: BOOLEAN, owner: Nat]
         /\ NoRule \in [there: BOOLEAN, blocks: BOOLEAN, owner: Nat]
         /\ RuleFor(owner).there /\ RuleFor(owner).blocks
BY DEF RuleFor, NoRule, NoOwner

\* A selection that succeeds covers the request.
LEMMA SelectCovers ==
  ASSUME NEW all, NEW names, SelectOK(all, names)
  PROVE  Covers(Select(all, names), names)
<1>1. Cardinality({}) = 0 BY FS_EmptySet
<1>2. CASE names = {}
  <2>1. Candidates(all) # {} BY <1>1, <1>2 DEF SelectOK
  <2>2. QED BY <1>2, <2>1 DEF Covers, Select
<1>3. CASE names # {}
  <2>1. ASSUME NEW name \in names PROVE Matches(Select(all, names), name) # {}
    <3>1. Matches(Candidates(all), name) # {} BY <1>1, <1>3 DEF SelectOK
    <3>2. QED BY <3>1 DEF Matches, Select
  <2>2. Select(all, names) # {} BY <1>3, <2>1 DEF Matches
  <2>3. QED BY <2>1, <2>2 DEF Covers
<1>4. QED BY <1>2, <1>3

-----------------------------------------------------------------------------
(* Types *)

\* Where a pass leaves off, its memory has its type.
LEMMA EndType ==
  ASSUME PassTypeOK, HistoryTypeOK, UNCHANGED setting, NEW again \in BOOLEAN, End(again),
         faults' \in Nat
  PROVE  PassTypeOK' /\ since' \in [Pods -> SUBSET Devices]
<1>1. view' \in Machines' BY NoMachineType, MachinesKept DEF End
<1>2. seen' \in [uid: Nat, active: SUBSET Pods] BY NoVMIType DEF End
<1>3. QED BY <1>1, <1>2, NothingHeldType DEF End, PassTypeOK, Stages

LEMMA GotoType ==
  ASSUME PassTypeOK, HistoryTypeOK, UNCHANGED setting, NEW stage \in Stages, Goto(stage),
         seen' \in [uid: Nat, active: SUBSET Pods], toRead' \subseteq Claims, held' \subseteq Devices,
         devices' \subseteq Devices, left' \subseteq Devices, faults' \in Nat
  PROVE  PassTypeOK' /\ since' \in [Pods -> SUBSET Devices]
<1>1. view' \in Machines' BY MachinesKept DEF Goto, PassTypeOK
<1>2. QED BY <1>1 DEF Goto, PassTypeOK, HistoryTypeOK

LEMMA RejectedType ==
  ASSUME PassTypeOK, HistoryTypeOK, UNCHANGED setting, Rejected, faults' \in Nat
  PROVE  PassTypeOK' /\ since' \in [Pods -> SUBSET Devices]
<1>1. CASE End(FALSE) BY <1>1, EndType
<1>2. CASE Goto("reject") /\ UNCHANGED <<seen, toRead, held, devices, left>>
  <2>1. "reject" \in Stages BY DEF Stages
  <2>2. /\ seen' \in [uid: Nat, active: SUBSET Pods] /\ toRead' \subseteq Claims /\ held' \subseteq Devices
        /\ devices' \subseteq Devices /\ left' \subseteq Devices
    BY <1>2 DEF PassTypeOK
  <2>3. QED BY <1>2, <2>1, <2>2, GotoType
<1>3. QED BY <1>1, <1>2 DEF Rejected

LEMMA StoredKept ==
  ASSUME StoredTypeOK, UNCHANGED setting, UNCHANGED Stored
  PROVE  StoredTypeOK'
BY MachinesKept DEF StoredTypeOK, Stored

LEMMA AroundKept ==
  ASSUME AroundTypeOK, UNCHANGED Around
  PROVE  AroundTypeOK' /\ UNCHANGED setting
<1>1. UNCHANGED <<setting, infra, cluster, vm, pods, claim, edits>> BY DEF Around, world, fixed
<1>2. QED BY <1>1, MachinesKept DEF AroundTypeOK

LEMMA SaveType ==
  ASSUME StoredTypeOK, UNCHANGED setting, NEW m \in Machines, Save(m), UNCHANGED <<mcache, rules>>
  PROVE  StoredTypeOK'
BY MachinesKept DEF StoredTypeOK, Save

\* The steps of a pass that store nothing.
LEMMA ReadStepType ==
  ASSUME TypeOK, UNCHANGED <<Stored, Around, Promises>>,
         \/ \E again \in BOOLEAN : End(again)
         \/ Rejected
         \/ /\ \E stage \in Stages : Goto(stage)
            /\ seen' \in [uid: Nat, active: SUBSET Pods] /\ toRead' \subseteq Claims
            /\ held' \subseteq Devices /\ devices' \subseteq Devices /\ left' \subseteq Devices,
         faults' \in Nat
  PROVE  TypeOK'
<1> USE DEF TypeOK
<1>1. AroundTypeOK' /\ UNCHANGED setting BY AroundKept
<1>2. StoredTypeOK' BY <1>1, StoredKept
<1>3. PassTypeOK' /\ since' \in [Pods -> SUBSET Devices] BY <1>1, EndType, RejectedType, GotoType
<1>4. HistoryTypeOK' BY <1>3 DEF HistoryTypeOK, Promises
<1>5. QED BY <1>1, <1>2, <1>3, <1>4

\* setStatus, with the history variable settled left aside.
LEMMA SetStatusType ==
  ASSUME TypeOK, NEW status \in Statuses, NEW next \in Stages, SetStatus(status, next),
         settled' \in BOOLEAN
  PROVE  TypeOK'
<1> USE DEF TypeOK
<1>1. AroundTypeOK' /\ UNCHANGED setting BY AroundKept DEF SetStatus
<1>2. [machine EXCEPT !.status = status] \in Machines BY MachineEditType DEF StoredTypeOK
<1>3. StoredTypeOK'
  <2>1. CASE UNCHANGED <<machine, unseen>>
    BY <1>1, <2>1, StoredKept DEF SetStatus, Stored
  <2>2. CASE Save([machine EXCEPT !.status = status])
    BY <1>1, <1>2, <2>2, SaveType DEF SetStatus
  <2>3. QED BY <2>1, <2>2 DEF SetStatus
<1>4. faults' \in Nat
  <2>1. faults + 1 \in Nat BY DEF PassTypeOK
  <2>2. QED BY <2>1 DEF SetStatus, PassTypeOK
<1>5. PassTypeOK' /\ since' \in [Pods -> SUBSET Devices]
  <2>1. CASE \E again \in BOOLEAN : End(again)
    BY <1>1, <1>4, <2>1, EndType
  <2>2. CASE /\ pc' = next /\ view' \in {view, machine'}
             /\ UNCHANGED <<wake, vfresh, seen, toRead, held, devices, left, since>>
    <3>1. view' \in Machines' BY <1>1, <1>3, <2>2, MachinesKept DEF StoredTypeOK, PassTypeOK
    <3>2. QED BY <1>4, <2>2, <3>1 DEF PassTypeOK, HistoryTypeOK
  <2>3. QED BY <2>1, <2>2 DEF SetStatus
<1>6. HistoryTypeOK' BY <1>5 DEF HistoryTypeOK, SetStatus
<1>7. QED BY <1>1, <1>3, <1>5, <1>6

LEMMA PassPreservesType ==
  ASSUME TypeOK, Pass
  PROVE  TypeOK'
<1>t. /\ seen \in [uid: Nat, active: SUBSET Pods] /\ toRead \subseteq Claims /\ held \subseteq Devices
      /\ devices \subseteq Devices /\ left \subseteq Devices /\ faults \in Nat /\ settled \in BOOLEAN
  BY DEF TypeOK, PassTypeOK, HistoryTypeOK
<1>1. CASE LeaveAlone
  <2>1. AroundTypeOK' /\ UNCHANGED setting BY <1>1, AroundKept DEF LeaveAlone, TypeOK
  <2>2. StoredTypeOK' BY <1>1, <2>1, StoredKept DEF LeaveAlone, TypeOK
  <2>3. PassTypeOK' BY <1>1, <2>1, MachinesKept DEF LeaveAlone, TypeOK, PassTypeOK, memory
  <2>4. HistoryTypeOK' BY <1>1 DEF LeaveAlone, TypeOK, HistoryTypeOK, history
  <2>5. QED BY <2>1, <2>2, <2>3, <2>4 DEF TypeOK
<1>2. CASE Begin
  <2>1. AroundTypeOK' /\ UNCHANGED setting BY <1>2, AroundKept DEF Begin, TypeOK
  <2>2. StoredTypeOK' BY <1>2, <2>1, StoredKept DEF Begin, TypeOK
  <2>3. Stage(cluster, mcache) \in Stages BY DEF Stage, Stages
  <2>4. PassTypeOK'
    BY <1>2, <2>1, <2>3, MachinesKept DEF Begin, TypeOK, StoredTypeOK, PassTypeOK, Fresh
  <2>5. HistoryTypeOK' BY <1>2 DEF Begin, TypeOK, HistoryTypeOK, Promises, HeldNow, HeldBy
  <2>6. QED BY <2>1, <2>2, <2>4, <2>5 DEF TypeOK
<1>3. CASE Clear \/ Reject \/ Quarantining \/ Replacing
  <2>1. /\ {"idle", "ensure", "delete"} \subseteq Stages
        /\ {"none", "rejected", "quarantining", "replacing"} \subseteq Statuses
    BY DEF Stages, Statuses
  <2>2. settled' \in BOOLEAN BY <1>3, <1>t DEF Clear, Reject, Quarantining, Replacing
  <2>3. QED BY <1>3, <2>1, <2>2, SetStatusType DEF Clear, Reject, Quarantining, Replacing
<1>4. CASE ListRules
  <2>1. Of(rules, view.name) \subseteq Devices BY DEF Of
  <2>2. {"delete", "vm"} \subseteq Stages BY DEF Stages
  <2>3. QED BY <1>t, <1>4, <2>1, <2>2, ReadStepType DEF ListRules
<1>5. CASE ReadVM
  <2>1. VMI \subseteq [uid: Nat, active: SUBSET Pods] BY DEF VMI, TypeOK, AroundTypeOK
  <2>2. "pods" \in Stages BY DEF Stages
  <2>3. QED BY <1>t, <1>5, <2>1, <2>2, ReadStepType DEF ReadVM
<1>6. CASE ListPods
  <2>1. ClaimsOf(seen, pods) \subseteq Claims BY DevicesAssumption DEF ClaimsOf
  <2>2. "claims" \in Stages BY DEF Stages
  <2>3. QED BY <1>t, <1>6, <2>1, <2>2, ReadStepType DEF ListPods
<1>7. ASSUME NEW c \in Claims, ReadClaim(c) PROVE TypeOK'
  <2>1. Allocated(claim[c]) \subseteq Devices BY AllocatedType DEF TypeOK, AroundTypeOK
  <2>2. "claims" \in Stages BY DEF Stages
  <2>3. QED BY <1>t, <1>7, <2>1, <2>2, ReadStepType DEF ReadClaim
<1>8. CASE SelectDevices
  <2>1. Select(held, Asked) \subseteq Devices BY <1>t DEF Select, Candidates
  <2>2. {"ensure", "quarantining"} \subseteq Stages BY DEF Stages
  <2>3. QED BY <1>t, <1>8, <2>1, <2>2, ReadStepType DEF SelectDevices
<1>9. ASSUME NEW d \in Devices, Ensure(d) PROVE TypeOK'
  <2>1. AroundTypeOK' /\ UNCHANGED setting BY <1>9, AroundKept DEF Ensure, TypeOK
  <2>2. RuleFor(view.name) \in [there: BOOLEAN, blocks: BOOLEAN, owner: Nat]
    BY RuleForType DEF TypeOK, PassTypeOK, Machines
  <2>3. rules' \in [Devices -> [there: BOOLEAN, blocks: BOOLEAN, owner: Nat]]
    BY <1>9, <2>2 DEF Ensure, TypeOK, StoredTypeOK
  <2>4. StoredTypeOK' BY <1>9, <2>1, <2>3, MachinesKept DEF Ensure, TypeOK, StoredTypeOK
  <2>5. faults' \in Nat
    <3>1. faults + 1 \in Nat BY <1>t
    <3>2. QED BY <1>9, <1>t, <3>1 DEF Ensure
  <2>6. PassTypeOK' /\ since' \in [Pods -> SUBSET Devices]
    <3>1. CASE End(TRUE) BY <2>1, <2>5, <3>1, EndType DEF TypeOK
    <3>2. CASE Rejected BY <2>1, <2>5, <3>2, RejectedType DEF TypeOK
    <3>3. CASE Done(d, "check", devices)
      <4>1. (IF left = {d} THEN "check" ELSE pc) \in Stages BY DEF Stages, TypeOK, PassTypeOK
      <4>2. left' \subseteq Devices /\ UNCHANGED <<seen, toRead, held, devices>>
        BY <1>t, <3>3 DEF Done
      <4>3. QED BY <1>t, <2>1, <2>5, <3>3, <4>1, <4>2, GotoType DEF Done, TypeOK
    <3>4. QED BY <1>9, <3>1, <3>2, <3>3 DEF Ensure
  <2>7. HistoryTypeOK' BY <1>9, <2>6 DEF Ensure, TypeOK, HistoryTypeOK
  <2>8. QED BY <2>1, <2>4, <2>6, <2>7 DEF TypeOK
<1>10. ASSUME NEW d \in Devices, CheckRule(d) PROVE TypeOK'
  <2>1. {"delete", "replacing"} \subseteq Stages /\ pc \in Stages BY DEF Stages, TypeOK, PassTypeOK
  <2>2. ASSUME NEW next \in Stages, Done(d, next, {})
        PROVE  /\ \E stage \in Stages : Goto(stage)
               /\ left' \subseteq Devices /\ UNCHANGED <<seen, toRead, held, devices>>
    BY <1>t, <2>1, <2>2 DEF Done
  <2>3. QED BY <1>t, <1>10, <2>1, <2>2, ReadStepType DEF CheckRule
<1>11. CASE Delete
  <2>1. AroundTypeOK' /\ UNCHANGED setting BY <1>11, AroundKept DEF Delete, TypeOK
  <2>2. [machine EXCEPT !.deleting = TRUE] \in Machines BY MachineEditType DEF TypeOK, StoredTypeOK
  <2>3. StoredTypeOK'
    <3>1. CASE UNCHANGED <<machine, unseen>>
      BY <1>11, <2>1, <3>1, StoredKept DEF Delete, Stored, TypeOK
    <3>2. CASE Save([machine EXCEPT !.deleting = TRUE])
      BY <1>11, <2>1, <2>2, <3>2, SaveType DEF Delete, TypeOK
    <3>3. QED BY <1>11, <3>1, <3>2 DEF Delete
  <2>4. faults' \in Nat
    <3>1. faults + 1 \in Nat BY <1>t
    <3>2. QED BY <1>t, <1>11, <3>1 DEF Delete
  <2>5. PassTypeOK' /\ since' \in [Pods -> SUBSET Devices]
    <3>1. \E again \in BOOLEAN : End(again) BY <1>11 DEF Delete
    <3>2. QED BY <2>1, <2>4, <3>1, EndType DEF TypeOK
  <2>6. HistoryTypeOK' BY <1>t, <1>11, <2>5 DEF Delete, TypeOK, HistoryTypeOK
  <2>7. QED BY <2>1, <2>3, <2>5, <2>6 DEF TypeOK
<1>12. QED
  BY <1>1, <1>2, <1>3, <1>4, <1>5, <1>6, <1>7, <1>8, <1>9, <1>10, <1>11 DEF Pass

LEMMA FailurePreservesType ==
  ASSUME TypeOK, CallFails \/ SyncMachine \/ Crash
  PROVE  TypeOK'
<1>1. CASE CallFails
  <2>1. PICK call : Fails(call) BY <1>1 DEF CallFails
  <2>2. faults + 1 \in Nat /\ faults \in Nat BY DEF TypeOK, PassTypeOK
  <2>3. QED BY <2>1, <2>2, ReadStepType DEF Fails
<1>2. CASE SyncMachine
  <2>1. AroundTypeOK' /\ UNCHANGED setting BY <1>2, AroundKept DEF SyncMachine, TypeOK
  <2>2. StoredTypeOK' BY <1>2, <2>1, MachinesKept DEF SyncMachine, TypeOK, StoredTypeOK
  <2>3. PassTypeOK' BY <1>2, <2>1, MachinesKept DEF SyncMachine, TypeOK, PassTypeOK, memory
  <2>4. HistoryTypeOK' BY <1>2 DEF SyncMachine, TypeOK, HistoryTypeOK, history
  <2>5. QED BY <2>1, <2>2, <2>3, <2>4 DEF TypeOK
<1>3. CASE Crash
  <2>1. AroundTypeOK' /\ UNCHANGED setting BY <1>3, AroundKept DEF Crash, TypeOK
  <2>2. StoredTypeOK' BY <1>3, <2>1, MachinesKept DEF Crash, TypeOK, StoredTypeOK
  <2>3. FirstSeen(machine) \in BOOLEAN BY DEF FirstSeen
  <2>4. faults + 1 \in Nat BY DEF TypeOK, PassTypeOK
  <2>5. PassTypeOK'
    BY <1>3, <2>1, <2>3, <2>4, MachinesKept, NoMachineType, NoVMIType DEF Crash, PassTypeOK, Stages
  <2>6. HistoryTypeOK' BY <1>3, NothingHeldType DEF Crash, TypeOK, HistoryTypeOK, Promises
  <2>7. QED BY <2>1, <2>2, <2>5, <2>6 DEF TypeOK
<1>4. QED BY <1>1, <1>2, <1>3

\* The claims keep their type when a pod is given its devices or ends.
LEMMA ReallocatedType ==
  ASSUME TypeOK, NEW old, NEW p \in Pods, NEW given \in [PodClaims[p] -> Allocations]
  PROVE  Reallocated(old, given) \in [Claims -> SUBSET Results]
<1>1. Allocations \subseteq SUBSET Results BY SettingType DEF TypeOK, AroundTypeOK
<1>2. ASSUME NEW c \in Claims
      PROVE  (IF c \in DOMAIN given THEN given[c] ELSE IF c \in old THEN {} ELSE claim[c]) \in SUBSET Results
  BY <1>1 DEF TypeOK, AroundTypeOK
<1>3. QED BY <1>2 DEF Reallocated

LEMMA StartOnType ==
  ASSUME TypeOK, NEW p \in Pods, NEW given \in [PodClaims[p] -> Allocations], StartOn(p, given)
  PROVE  /\ vm' \in [uid: Nat, phase: {"Starting", "Running", "Stopping"}, pod: Pods]
         /\ pods' \in [Pods -> [vmi: Nat, over: BOOLEAN]]
         /\ claim' \in [Claims -> SUBSET Results]
<1>1. vm.uid + 1 \in Nat BY DEF TypeOK, AroundTypeOK
<1>2. vm' \in [uid: Nat, phase: {"Starting", "Running", "Stopping"}, pod: Pods]
  BY <1>1 DEF StartOn
<1>3. pods' \in [Pods -> [vmi: Nat, over: BOOLEAN]]
  <2>1. ASSUME NEW q \in Pods
        PROVE  /\ pods[q] \in [vmi: Nat, over: BOOLEAN]
               /\ [pods[q] EXCEPT !.over = TRUE] \in [vmi: Nat, over: BOOLEAN]
               /\ [vmi |-> vm.uid + 1, over |-> FALSE] \in [vmi: Nat, over: BOOLEAN]
    BY <1>1 DEF TypeOK, AroundTypeOK
  <2>2. QED BY <2>1 DEF StartOn
<1>4. claim' \in [Claims -> SUBSET Results] BY ReallocatedType DEF StartOn
<1>5. QED BY <1>2, <1>3, <1>4

LEMMA UnusedType ==
  ASSUME TypeOK PROVE Unused \subseteq Pods
BY SettingType DEF TypeOK, AroundTypeOK, Unused

LEMMA UsersPreserveType ==
  ASSUME TypeOK,
         \/ \E request \in Requests \cup {NoRequest} : EditRequest(request)
         \/ \E status \in {"none", "replacing"} : EditStatus(status)
         \/ \E bar \in Toggles : Toggle(bar)
         \/ UserDeletes
         \/ \E d \in Devices : LiftRule(d)
         \/ \E state \in ClusterStates : ClusterChanges(state)
  PROVE  TypeOK'
<1>1. edits + 1 \in Nat BY DEF TypeOK, AroundTypeOK
<1>2. ASSUME Edit, vfresh' \in BOOLEAN
      PROVE  AroundTypeOK' /\ UNCHANGED setting /\ PassTypeOK'
  <2>1. UNCHANGED <<setting, infra, cluster, vm, pods, claim>> /\ edits' = edits + 1
    BY <1>2 DEF Edit, world, fixed
  <2>2. AroundTypeOK' BY <1>1, <2>1, MachinesKept DEF TypeOK, AroundTypeOK
  <2>3. PassTypeOK' BY <1>2, <2>1, MachinesKept DEF Edit, TypeOK, PassTypeOK
  <2>4. QED BY <2>1, <2>2, <2>3
<1>3. ASSUME NEW m \in Machines, MachineEdit, Save(m), settled' \in BOOLEAN PROVE TypeOK'
  <2>1. AroundTypeOK' /\ UNCHANGED setting /\ PassTypeOK' BY <1>2, <1>3 DEF MachineEdit
  <2>2. UNCHANGED <<mcache, rules>> BY <1>3 DEF MachineEdit, Edit
  <2>3. StoredTypeOK' BY <1>3, <2>1, <2>2, SaveType DEF TypeOK
  <2>4. HistoryTypeOK' BY <1>3 DEF MachineEdit, Edit, TypeOK, HistoryTypeOK
  <2>5. QED BY <2>1, <2>3, <2>4 DEF TypeOK
<1>4. settled \in BOOLEAN /\ machine \in Machines BY DEF TypeOK, HistoryTypeOK, StoredTypeOK
<1>5. ASSUME NEW request \in Requests \cup {NoRequest}, EditRequest(request) PROVE TypeOK'
  <2>1. [machine EXCEPT !.request = request] \in Machines BY <1>4, MachineEditType
  <2>2. QED BY <1>3, <1>5, <2>1 DEF EditRequest
<1>6. ASSUME NEW status \in {"none", "replacing"}, EditStatus(status) PROVE TypeOK'
  <2>1. [machine EXCEPT !.status = status] \in Machines BY <1>4, MachineEditType DEF Statuses
  <2>2. QED BY <1>3, <1>6, <2>1 DEF EditStatus
<1>7. ASSUME NEW bar \in Toggles, Toggle(bar) PROVE TypeOK'
  <2>1. machine.bars \in SUBSET (Bars \cup Toggles) BY <1>4 DEF Machines
  <2>2. (IF bar \in machine.bars THEN machine.bars \ {bar} ELSE machine.bars \cup {bar})
          \in SUBSET (Bars \cup Toggles)
    BY <2>1
  <2>3. [machine EXCEPT !.bars = IF bar \in @ THEN @ \ {bar} ELSE @ \cup {bar}] \in Machines
    BY <1>4, <2>2, MachineEditType
  <2>4. QED BY <1>3, <1>4, <1>7, <2>3 DEF Toggle
<1>8. CASE UserDeletes
  <2>1. [machine EXCEPT !.deleting = TRUE] \in Machines BY <1>4, MachineEditType
  <2>2. QED BY <1>3, <1>4, <1>8, <2>1 DEF UserDeletes
<1>9. ASSUME NEW d \in Devices, LiftRule(d) PROVE TypeOK'
  <2>1. AroundTypeOK' /\ UNCHANGED setting /\ PassTypeOK'
    BY <1>2, <1>9 DEF LiftRule, TypeOK, PassTypeOK
  <2>2. rules[d] \in [there: BOOLEAN, blocks: BOOLEAN, owner: Nat] BY DEF TypeOK, StoredTypeOK
  <2>3. /\ NoRule \in [there: BOOLEAN, blocks: BOOLEAN, owner: Nat]
        /\ [rules[d] EXCEPT !.blocks = FALSE] \in [there: BOOLEAN, blocks: BOOLEAN, owner: Nat]
    BY <2>2, RuleForType
  <2>4. rules' \in [Devices -> [there: BOOLEAN, blocks: BOOLEAN, owner: Nat]]
    BY <1>9, <2>3 DEF LiftRule, TypeOK, StoredTypeOK
  <2>5. StoredTypeOK' BY <1>9, <2>1, <2>4, MachinesKept DEF LiftRule, Edit, TypeOK, StoredTypeOK
  <2>6. HistoryTypeOK' BY <1>9 DEF LiftRule, Edit, TypeOK, HistoryTypeOK
  <2>7. QED BY <2>1, <2>5, <2>6 DEF TypeOK
<1>10. ASSUME NEW state \in ClusterStates, ClusterChanges(state) PROVE TypeOK'
  <2>1. UNCHANGED <<setting, infra, vm, pods, claim>> /\ cluster' = state /\ edits' = edits + 1
    BY <1>10 DEF ClusterChanges, world, fixed
  <2>2. AroundTypeOK' BY <1>1, <2>1, MachinesKept DEF TypeOK, AroundTypeOK
  <2>3. StoredTypeOK' BY <1>10, <2>1, StoredKept DEF ClusterChanges, TypeOK
  <2>4. PassTypeOK' BY <1>10, <2>1, MachinesKept DEF ClusterChanges, TypeOK, PassTypeOK, memory
  <2>5. HistoryTypeOK' BY <1>10 DEF ClusterChanges, TypeOK, HistoryTypeOK, history
  <2>6. QED BY <2>2, <2>3, <2>4, <2>5 DEF TypeOK
<1>11. QED BY <1>5, <1>6, <1>7, <1>8, <1>9, <1>10

\* The virtual machine and Cluster API touch neither the rules nor the pass.
VMSteps ==
  \/ VMStops \/ VMRuns
  \/ \E p \in Unused : VMStarts(p) \/ MigrationStarts(p) \/ Replaced(p)
  \/ \E p \in Live(vm.uid) : MigrationEnds(p)

LEMMA VMPreservesType ==
  ASSUME TypeOK, VMSteps
  PROVE  TypeOK'
<1>1. ASSUME UNCHANGED <<setting, infra, cluster, edits>>,
             vm' \in [uid: Nat, phase: {"Starting", "Running", "Stopping"}, pod: Pods],
             pods' \in [Pods -> [vmi: Nat, over: BOOLEAN]],
             claim' \in [Claims -> SUBSET Results]
      PROVE  AroundTypeOK'
  BY <1>1, MachinesKept DEF TypeOK, AroundTypeOK
<1>2. ASSUME UNCHANGED <<Stored, setting, wake, memory, faults, Promises>>, since' \in [Pods -> SUBSET Devices]
      PROVE  StoredTypeOK' /\ PassTypeOK' /\ HistoryTypeOK'
  <2>1. StoredTypeOK' BY <1>2, StoredKept DEF TypeOK
  <2>2. PassTypeOK' BY <1>2, MachinesKept DEF TypeOK, PassTypeOK, memory
  <2>3. HistoryTypeOK' BY <1>2 DEF TypeOK, HistoryTypeOK, Promises
  <2>4. QED BY <2>1, <2>2, <2>3
<1>3. since \in [Pods -> SUBSET Devices] BY DEF TypeOK, HistoryTypeOK
<1>r. ASSUME NEW p \in Pods, Remember(p) PROVE since' \in [Pods -> SUBSET Devices]
  <2>1. HeldBy(p)' \subseteq Devices BY DEF HeldBy
  <2>2. QED BY <1>3, <1>r, <2>1 DEF Remember
<1>4. CASE VMStops \/ VMRuns
  <2>1. vm' \in [uid: Nat, phase: {"Starting", "Running", "Stopping"}, pod: Pods]
    BY <1>4 DEF VMStops, VMRuns, TypeOK, AroundTypeOK
  <2>2. /\ UNCHANGED <<setting, infra, cluster, edits, pods, claim, Stored, wake, memory, faults, Promises>>
        /\ UNCHANGED since
    BY <1>4 DEF VMStops, VMRuns, fixed, history, Promises
  <2>3. AroundTypeOK' BY <1>1, <2>1, <2>2 DEF TypeOK, AroundTypeOK
  <2>4. QED BY <1>2, <1>3, <2>2, <2>3 DEF TypeOK
<1>5. ASSUME NEW p \in Unused, VMStarts(p) PROVE TypeOK'
  <2>1. p \in Pods BY UnusedType
  <2>2. PICK given \in [PodClaims[p] -> Allocations] : StartOn(p, given) BY <1>5 DEF VMStarts
  <2>3. UNCHANGED <<setting, infra, cluster, edits, Stored, wake, memory, faults, Promises>>
    BY <1>5 DEF VMStarts, fixed
  <2>4. AroundTypeOK' BY <1>1, <2>1, <2>2, <2>3, StartOnType
  <2>5. since' \in [Pods -> SUBSET Devices] BY <1>5, <1>r, <2>1 DEF VMStarts
  <2>6. QED BY <1>2, <2>3, <2>4, <2>5 DEF TypeOK
<1>6. ASSUME NEW p \in Unused, MigrationStarts(p) PROVE TypeOK'
  <2>1. p \in Pods BY UnusedType
  <2>2. PICK given \in [PodClaims[p] -> Allocations] : claim' = Reallocated({}, given)
    BY <1>6 DEF MigrationStarts
  <2>3. /\ UNCHANGED <<setting, infra, cluster, edits, vm, Stored, wake, memory, faults, Promises>>
        /\ since' \in [Pods -> SUBSET Devices]
    BY <1>6, <1>r, <2>1 DEF MigrationStarts, fixed
  <2>4. claim' \in [Claims -> SUBSET Results] BY <2>1, <2>2, ReallocatedType
  <2>5. pods' \in [Pods -> [vmi: Nat, over: BOOLEAN]]
    BY <1>6 DEF MigrationStarts, TypeOK, AroundTypeOK
  <2>6. AroundTypeOK' BY <1>1, <2>3, <2>4, <2>5 DEF TypeOK, AroundTypeOK
  <2>7. QED BY <1>2, <1>3, <2>3, <2>6 DEF TypeOK
<1>7. ASSUME NEW p \in Live(vm.uid), MigrationEnds(p) PROVE TypeOK'
  <2>1. p \in Pods BY DEF Live
  <2>2. /\ UNCHANGED <<setting, infra, cluster, edits, Stored, wake, memory, faults, Promises>>
        /\ UNCHANGED since
    BY <1>7 DEF MigrationEnds, fixed, history, Promises
  <2>3. PICK gone \in {p, vm.pod} :
          /\ vm' = [vm EXCEPT !.pod = IF gone = p THEN vm.pod ELSE p]
          /\ pods' = [pods EXCEPT ![gone].over = TRUE]
          /\ claim' = Reallocated(PodClaims[gone], << >>)
    BY <1>7 DEF MigrationEnds
  <2>4. vm' \in [uid: Nat, phase: {"Starting", "Running", "Stopping"}, pod: Pods]
    BY <2>1, <2>3 DEF TypeOK, AroundTypeOK
  <2>5. pods' \in [Pods -> [vmi: Nat, over: BOOLEAN]]
    BY <2>3 DEF TypeOK, AroundTypeOK
  <2>6. claim' \in [Claims -> SUBSET Results]
    <3>1. ASSUME NEW c \in Claims
          PROVE  (IF c \in PodClaims[gone] THEN {} ELSE claim[c]) \in SUBSET Results
      BY DEF TypeOK, AroundTypeOK
    <3>2. DOMAIN << >> = {} OBVIOUS
    <3>3. QED BY <2>3, <3>1, <3>2 DEF Reallocated
  <2>7. AroundTypeOK' BY <1>1, <2>2, <2>4, <2>5, <2>6
  <2>8. QED BY <1>2, <1>3, <2>2, <2>7 DEF TypeOK
<1>8. ASSUME NEW p \in Unused, Replaced(p) PROVE TypeOK'
  <2>1. p \in Pods BY UnusedType
  <2>2. PICK given \in [PodClaims[p] -> Allocations] : StartOn(p, given) BY <1>8 DEF Replaced
  <2>3. UNCHANGED <<setting, infra, cluster, edits>> BY <1>8 DEF Replaced, fixed
  <2>4. AroundTypeOK' BY <1>1, <2>1, <2>2, <2>3, StartOnType
  <2>5. NewMachine(machine.name + 1, {}) \in Machines
    <3>1. machine.name + 1 \in Nat BY DEF TypeOK, StoredTypeOK, Machines
    <3>2. QED BY <3>1, NewMachineType
  <2>6. StoredTypeOK' BY <1>8, <2>3, <2>5, MachinesKept DEF Replaced, TypeOK, StoredTypeOK
  <2>7. PassTypeOK' BY <1>8, <2>3, MachinesKept DEF Replaced, TypeOK, PassTypeOK
  <2>8. HistoryTypeOK' BY <1>8 DEF Replaced, TypeOK, HistoryTypeOK
  <2>9. QED BY <2>4, <2>6, <2>7, <2>8 DEF TypeOK
<1>9. QED BY <1>4, <1>5, <1>6, <1>7, <1>8 DEF VMSteps

LEMMA InitType ==
  ASSUME Init PROVE TypeOK
<1>1. setting \in Settings BY DEF Init
<1>2. machine \in Machines
  <2>1. PICK bars \in SUBSET Bars, request \in Requests \cup {NoRequest} :
          machine = [NewMachine(1, bars) EXCEPT !.request = request]
    BY DEF Init
  <2>2. NewMachine(1, bars) \in Machines BY NewMachineType
  <2>3. QED BY <2>1, <2>2, MachineEditType
<1>3. StoredTypeOK BY <1>1, <1>2, SettingType DEF Init, StoredTypeOK
<1>4. PICK p \in LauncherPods : \E given \in [PodClaims[p] -> Allocations] :
        /\ vm = [uid |-> 1, phase |-> "Running", pod |-> p]
        /\ pods = [q \in Pods |-> [vmi |-> IF q = p THEN 1 ELSE 0, over |-> FALSE]]
        /\ claim = [c \in Claims |-> IF c \in PodClaims[p] THEN given[c] ELSE {}]
  BY DEF Init
<1>5. PICK given \in [PodClaims[p] -> Allocations] :
        claim = [c \in Claims |-> IF c \in PodClaims[p] THEN given[c] ELSE {}]
  BY <1>4
<1>6. claim \in [Claims -> SUBSET Results] BY <1>1, <1>5, SettingType
<1>7. p \in Pods BY <1>1, SettingType
<1>8. AroundTypeOK BY <1>1, <1>4, <1>6, <1>7 DEF Init, AroundTypeOK
<1>9. PassTypeOK BY NoMachineType, NoVMIType DEF Init, PassTypeOK, Stages, FirstSeen
<1>10. HistoryTypeOK BY NothingHeldType DEF Init, HistoryTypeOK
<1>11. QED BY <1>3, <1>8, <1>9, <1>10 DEF TypeOK

LEMMA NextType ==
  ASSUME TypeOK, [Next]_vars PROVE TypeOK'
<1>1. CASE Next
  BY <1>1, PassPreservesType, FailurePreservesType, UsersPreserveType, VMPreservesType
     DEF Next, VMSteps
<1>2. CASE UNCHANGED vars
  <2>1. AroundTypeOK' /\ UNCHANGED setting BY <1>2, AroundKept DEF vars, Around, TypeOK
  <2>2. StoredTypeOK' BY <1>2, <2>1, StoredKept DEF vars, Stored, TypeOK
  <2>3. PassTypeOK' BY <1>2, <2>1, MachinesKept DEF vars, TypeOK, PassTypeOK, memory
  <2>4. HistoryTypeOK' BY <1>2 DEF vars, TypeOK, HistoryTypeOK, history
  <2>5. QED BY <2>1, <2>2, <2>3, <2>4 DEF TypeOK
<1>3. QED BY <1>1, <1>2

\* Every variable keeps its type, whatever the pass, the users and the
\* virtual machine do (Reconcile and replace).
THEOREM TypeCorrect == Spec => []TypeOK
<1>1. Init => TypeOK BY InitType
<1>2. TypeOK /\ [Next]_vars => TypeOK' BY NextType
<1>3. QED BY <1>1, <1>2, PTL DEF Spec

-----------------------------------------------------------------------------
(* The pass has what it goes by: PassInv *)

LEMMA SaveIsUnseen ==
  ASSUME NEW m, Save(m) PROVE ~Fresh' /\ machine' = m
BY DEF Save, Fresh

LEMMA EndPassInv ==
  ASSUME NEW again, End(again), Fresh' => mcache' = machine'
  PROVE  PassInv'
BY DEF End, PassInv, Found

LEMMA RejectedPassInv ==
  ASSUME PassInv, UNCHANGED <<Stored, setting>>, Rejected
  PROVE  PassInv'
<1>1. Fresh' => mcache' = machine' BY DEF PassInv, Stored, Fresh
<1>2. CASE End(FALSE) BY <1>1, <1>2, EndPassInv
<1>3. CASE ~DryRun /\ Goto("reject")
  <2>1. ~DryRun' BY <1>3 DEF DryRun
  <2>2. QED BY <1>1, <1>3, <2>1 DEF Goto, PassInv, Found, Stored
<1>4. QED BY <1>2, <1>3 DEF Rejected

\* What setStatus leaves the pass with: it is over, or it goes on with the
\* status as written and with the rest of the Machine as it had it.
LEMMA SetStatusPass ==
  ASSUME TypeOK, PassInv, NEW status \in Statuses, NEW next, SetStatus(status, next)
  PROVE  /\ Fresh' => mcache' = machine'
         /\ \/ \E again \in BOOLEAN : End(again)
            \/ /\ next # "idle" /\ pc' = next /\ view' = [view EXCEPT !.status = status]
               /\ vfresh' => view' = machine'
               /\ UNCHANGED <<wake, vfresh, seen, toRead, held, devices, left, since>>
<1>1. view \in Machines /\ machine \in Machines BY DEF TypeOK, PassTypeOK, StoredTypeOK
<1>2. CASE view.status = status /\ UNCHANGED <<machine, unseen>>
  <2>1. view = [view EXCEPT !.status = status] BY <1>1, <1>2 DEF Machines
  <2>2. Fresh' => mcache' = machine' BY <1>2 DEF SetStatus, PassInv, Fresh
  <2>3. vfresh => view = machine' BY <1>2 DEF PassInv
  <2>4. \/ next = "idle" /\ End(FALSE)
        \/ /\ next # "idle" /\ pc' = next /\ view' = view
           /\ UNCHANGED <<wake, vfresh, seen, toRead, held, devices, left, since>>
    BY <1>2 DEF SetStatus
  <2>5. CASE End(FALSE) BY <2>2, <2>5
  <2>6. CASE /\ next # "idle" /\ pc' = next /\ view' = view
             /\ UNCHANGED <<wake, vfresh, seen, toRead, held, devices, left, since>>
    <3>1. view' = [view EXCEPT !.status = status] BY <2>1, <2>6, Zenon
    <3>2. vfresh' => view' = machine' BY <2>3, <2>6
    <3>3. QED BY <2>2, <2>6, <3>1, <3>2, Zenon
  <2>7. QED BY <2>4, <2>5, <2>6, Zenon
<1>3. CASE view.status # status /\ UNCHANGED <<machine, unseen>> /\ End(TRUE)
  BY <1>3 DEF SetStatus, PassInv, Fresh
<1>4. CASE view.status # status /\ vfresh /\ Save([machine EXCEPT !.status = status])
  <2>1. view = machine BY <1>4 DEF PassInv
  <2>2. ~Fresh' /\ machine' = [view EXCEPT !.status = status] BY <1>4, <2>1, SaveIsUnseen
  <2>3. QED BY <1>4, <2>1, <2>2 DEF SetStatus, Save
<1>5. QED BY <1>2, <1>3, <1>4 DEF SetStatus

\* A request in hand keeps what PassInv says of it when only its status changes.
LEMMA StatusKeepsRequest ==
  ASSUME NEW m \in Machines, NEW status \in Statuses
  PROVE  LET n == [m EXCEPT !.status = status] IN
         /\ n.request = m.request /\ n.bars = m.bars /\ n.deleting = m.deleting /\ n.name = m.name
         /\ n.status = status
BY DEF Machines

LEMMA PassKeepsPassInv ==
  ASSUME TypeOK, PassInv, Pass
  PROVE  PassInv'
<1>m. view \in Machines /\ mcache \in Machines /\ pc \in Stages
  BY DEF TypeOK, PassTypeOK, StoredTypeOK
<1>s. {"none", "rejected", "quarantining", "replacing"} \subseteq Statuses BY DEF Statuses
<1>f. ASSUME UNCHANGED <<Stored, Around>>
      PROVE  (Fresh' => mcache' = machine') /\ UNCHANGED <<machine, setting, rules>>
  BY <1>f DEF PassInv, Stored, Fresh, Around, world, fixed
<1>1. CASE LeaveAlone
  <2>1. UNCHANGED <<Stored, Around, memory>> BY <1>1 DEF LeaveAlone
  <2>2. QED BY <1>f, <2>1 DEF PassInv, memory, Asked, DryRun
<1>2. CASE Begin
  <2>1. UNCHANGED <<Stored, Around>> BY <1>2 DEF Begin
  <2>2. /\ pc' = Stage(cluster, mcache) /\ pc' # "idle" /\ view' = mcache /\ vfresh' = Fresh
    BY <1>2 DEF Begin
  <2>3. vfresh' => view' = machine' BY <1>f, <2>1, <2>2 DEF PassInv
  <2>4. /\ pc' \in {"clear", "reject", "rules", "vm"}
        /\ pc' \in {"rules", "vm"} =>
             /\ mcache.request # NoRequest /\ ParseOK(mcache.request)
             /\ mcache.bars = {} /\ ~mcache.deleting
        /\ pc' = "rules" => mcache.status = "replacing"
        /\ pc' \in {"clear", "reject"} => ~DryRun
    BY <2>2 DEF Stage, GuardReplace
  <2>5. DryRun' = DryRun BY <1>f, <2>1 DEF DryRun
  <2>6. QED BY <1>f, <2>1, <2>2, <2>3, <2>4, <2>5 DEF PassInv, Found, Stages
<1>3. CASE Clear \/ Reject
  <2>1. \/ SetStatus("none", "idle") \/ SetStatus("rejected", "idle") BY <1>3 DEF Clear, Reject
  <2>2. (Fresh' => mcache' = machine') /\ \E again \in BOOLEAN : End(again)
    BY <1>s, <2>1, SetStatusPass
  <2>3. QED BY <2>2, EndPassInv
<1>4. CASE Quarantining
  <2>1. pc = "quarantining" /\ SetStatus("quarantining", "ensure") BY <1>4 DEF Quarantining
  <2>2. Fresh' => mcache' = machine' BY <1>s, <2>1, SetStatusPass
  <2>3. CASE \E again \in BOOLEAN : End(again) BY <2>2, <2>3, EndPassInv
  <2>4. CASE /\ pc' = "ensure" /\ view' = [view EXCEPT !.status = "quarantining"]
             /\ vfresh' => view' = machine'
             /\ UNCHANGED <<wake, vfresh, seen, toRead, held, devices, left, since>>
    <3>1. /\ view'.request = view.request /\ view'.bars = view.bars /\ view'.deleting = view.deleting
      BY <1>m, <1>s, <2>4, StatusKeepsRequest
    <3>2. DryRun' = DryRun BY <2>1 DEF SetStatus, Around, world, fixed, DryRun
    <3>3. Asked' = Asked BY <3>1 DEF Asked
    <3>4. QED BY <2>1, <2>2, <2>4, <3>1, <3>2, <3>3 DEF PassInv, Found, Stages
  <2>5. QED BY <1>s, <2>1, <2>3, <2>4, SetStatusPass
<1>5. CASE Replacing
  <2>1. pc = "replacing" /\ SetStatus("replacing", "delete") BY <1>5 DEF Replacing
  <2>2. Fresh' => mcache' = machine' BY <1>s, <2>1, SetStatusPass
  <2>3. CASE \E again \in BOOLEAN : End(again) BY <2>2, <2>3, EndPassInv
  <2>4. CASE /\ pc' = "delete" /\ view' = [view EXCEPT !.status = "replacing"]
             /\ vfresh' => view' = machine'
             /\ UNCHANGED <<wake, vfresh, seen, toRead, held, devices, left, since>>
    <3>1. /\ view'.request = view.request /\ view'.bars = view.bars /\ view'.deleting = view.deleting
          /\ view'.status = "replacing"
      BY <1>m, <1>s, <2>4, StatusKeepsRequest
    <3>2. DryRun' = DryRun BY <2>1 DEF SetStatus, Around, world, fixed, DryRun
    <3>3. Asked' = Asked BY <3>1 DEF Asked
    <3>4. QED BY <2>1, <2>2, <2>4, <3>1, <3>2, <3>3 DEF PassInv, Found, Stages
  <2>5. QED BY <1>s, <2>1, <2>3, <2>4, SetStatusPass
<1>6. ASSUME UNCHANGED <<Stored, Around>>, Goto(pc')
      PROVE  /\ Fresh' => mcache' = machine'
             /\ vfresh' => view' = machine'
             /\ UNCHANGED <<view, vfresh>> /\ DryRun' = DryRun /\ Asked' = Asked
  BY <1>f, <1>6 DEF Goto, PassInv, DryRun, Asked
<1>7. ASSUME UNCHANGED <<Stored, Around>>, Rejected \/ \E again \in BOOLEAN : End(again)
      PROVE  PassInv'
  BY <1>f, <1>7, RejectedPassInv, EndPassInv
<1>8. CASE ListRules
  <2>1. pc = "rules" /\ UNCHANGED <<Stored, Around>> BY <1>8 DEF ListRules
  <2>2. CASE /\ Covers(Of(rules, view.name), Asked) /\ ~DryRun /\ Goto("delete")
             /\ devices' = Of(rules, view.name)
    <3>1. pc' = "delete" BY <2>2 DEF Goto
    <3>2. QED BY <1>6, <2>1, <2>2, <3>1 DEF PassInv, Found, Stages
  <2>3. CASE Goto("vm")
    <3>1. pc' = "vm" BY <2>3 DEF Goto
    <3>2. QED BY <1>6, <2>1, <2>3, <3>1 DEF PassInv, Found, Stages
  <2>4. QED BY <1>7, <1>8, <2>1, <2>2, <2>3 DEF ListRules
<1>9. CASE ReadVM
  <2>1. pc = "vm" /\ UNCHANGED <<Stored, Around>> BY <1>9 DEF ReadVM
  <2>2. CASE Goto("pods")
    <3>1. pc' = "pods" BY <2>2 DEF Goto
    <3>2. QED BY <1>6, <2>1, <2>2, <3>1 DEF PassInv, Found, Stages
  <2>3. QED BY <1>7, <1>9, <2>1, <2>2 DEF ReadVM
<1>10. CASE ListPods \/ \E c \in Claims : ReadClaim(c)
  <2>1. pc \in {"pods", "claims"} /\ UNCHANGED <<Stored, Around>> /\ Goto("claims")
    BY <1>10 DEF ListPods, ReadClaim
  <2>2. pc' = "claims" BY <2>1 DEF Goto
  <2>3. QED BY <1>6, <2>1, <2>2 DEF PassInv, Found, Stages
<1>11. CASE SelectDevices
  <2>1. pc = "claims" /\ UNCHANGED <<Stored, Around>> BY <1>11 DEF SelectDevices
  <2>2. CASE /\ SelectOK(held, Asked) /\ ~DryRun
             /\ Goto(IF view.status = "replacing" THEN "ensure" ELSE "quarantining")
             /\ devices' = Select(held, Asked) /\ left' = Select(held, Asked)
    <3>1. pc' \in {"ensure", "quarantining"} /\ Goto(pc') BY <2>2 DEF Goto
    <3>2. Covers(devices', Asked') BY <1>6, <2>1, <2>2, <3>1, SelectCovers
    <3>3. QED BY <1>6, <2>1, <2>2, <3>1, <3>2 DEF PassInv, Found, Stages
  <2>3. QED BY <1>7, <1>11, <2>1, <2>2 DEF SelectDevices
<1>12. ASSUME NEW d \in Devices, Ensure(d) PROVE PassInv'
  <2>1. /\ pc = "ensure" /\ UNCHANGED <<machine, mcache, unseen, Around>> BY <1>12 DEF Ensure
  <2>2. /\ Fresh' => mcache' = machine'
        /\ UNCHANGED setting
    BY <2>1 DEF PassInv, Fresh, Around, world, fixed
  <2>3. CASE Done(d, "check", devices)
    <3>1. /\ pc' \in {"ensure", "check"} /\ UNCHANGED <<view, vfresh, devices>>
          /\ left' \subseteq devices
      BY <2>1, <2>3 DEF Done, Goto, PassInv
    <3>2. DryRun' = DryRun /\ Asked' = Asked BY <2>2, <3>1 DEF DryRun, Asked
    <3>3. QED BY <2>1, <2>2, <3>1, <3>2 DEF PassInv, Found, Stages
  <2>4. CASE End(TRUE) BY <2>2, <2>4, EndPassInv
  <2>5. CASE Rejected /\ UNCHANGED rules BY <2>1, <2>2, <2>5, RejectedPassInv DEF Stored
  <2>6. QED BY <1>12, <2>3, <2>4, <2>5 DEF Ensure
<1>13. ASSUME NEW d \in Devices, CheckRule(d) PROVE PassInv'
  <2>1. pc = "check" /\ UNCHANGED <<Stored, Around>> BY <1>13 DEF CheckRule
  <2>2. CASE Done(d, IF view.status = "replacing" THEN "delete" ELSE "replacing", {})
    <3>1. /\ pc' \in {"check", "delete", "replacing"} /\ UNCHANGED devices
          /\ pc' = "delete" => view.status = "replacing"
          /\ left' \subseteq left /\ Goto(pc')
      BY <2>1, <2>2 DEF Done, Goto
    <3>2. QED BY <1>6, <2>1, <3>1 DEF PassInv, Found, Stages
  <2>3. QED BY <1>7, <1>13, <2>1, <2>2 DEF CheckRule
<1>14. CASE Delete
  <2>1. \E again \in BOOLEAN : End(again) BY <1>14 DEF Delete
  <2>2. Fresh' => mcache' = machine'
    BY <1>14, SaveIsUnseen DEF Delete, PassInv, Fresh
  <2>3. QED BY <2>1, <2>2, EndPassInv
<1>15. QED
  BY <1>1, <1>2, <1>3, <1>4, <1>5, <1>8, <1>9, <1>10, <1>11, <1>12, <1>13, <1>14 DEF Pass

LEMMA OthersKeepPassInv ==
  ASSUME TypeOK, PassInv, Next, ~Pass
  PROVE  PassInv'
<1>1. CASE CallFails
  <2>1. PICK call : Fails(call) BY <1>1 DEF CallFails
  <2>2. UNCHANGED <<Stored, Around>> /\ (Rejected \/ End(TRUE)) BY <2>1 DEF Fails
  <2>3. UNCHANGED setting /\ (Fresh' => mcache' = machine')
    BY <2>2 DEF Around, world, fixed, PassInv, Stored, Fresh
  <2>4. QED BY <2>2, <2>3, RejectedPassInv, EndPassInv
<1>2. CASE SyncMachine
  <2>1. UNCHANGED <<machine, rules, Around, memory>> /\ mcache' = machine BY <1>2 DEF SyncMachine
  <2>2. UNCHANGED setting BY <2>1 DEF Around, world, fixed
  <2>3. QED BY <2>1, <2>2 DEF PassInv, memory, Asked, DryRun
<1>3. CASE Crash
  BY <1>3 DEF Crash, PassInv, Found
<1>4. ASSUME ~Fresh', ~vfresh', UNCHANGED <<setting, pc, view, devices, left>> PROVE PassInv'
  BY <1>4 DEF PassInv, Asked, DryRun
<1>5. ASSUME UNCHANGED <<setting, machine, mcache, unseen, pc, view, vfresh, devices, left>> PROVE PassInv'
  BY <1>5 DEF PassInv, Asked, DryRun, Fresh
<1>6. ASSUME NEW m, MachineEdit, Save(m) PROVE PassInv'
  <2>1. /\ UNCHANGED <<setting, pc, view, devices, left>> /\ ~vfresh'
    BY <1>6 DEF MachineEdit, Edit, world, fixed
  <2>2. QED BY <1>4, <1>6, <2>1, SaveIsUnseen
<1>7. CASE \/ \E request \in Requests \cup {NoRequest} : EditRequest(request)
           \/ \E status \in {"none", "replacing"} : EditStatus(status)
           \/ \E bar \in Toggles : Toggle(bar)
           \/ UserDeletes
  BY <1>6, <1>7 DEF EditRequest, EditStatus, Toggle, UserDeletes
<1>8. CASE \/ \E d \in Devices : LiftRule(d)
           \/ \E state \in ClusterStates : ClusterChanges(state)
  <2>1. UNCHANGED <<setting, machine, mcache, unseen, pc, view, vfresh, devices, left>>
    BY <1>8 DEF LiftRule, ClusterChanges, Edit, Stored, world, fixed, memory
  <2>2. QED BY <1>5, <2>1
<1>9. CASE \E p \in Unused : Replaced(p)
  <2>1. ~Fresh' /\ ~vfresh' /\ UNCHANGED <<setting, pc, view, devices, left>>
    BY <1>9 DEF Replaced, Fresh, fixed
  <2>2. QED BY <1>4, <2>1
<1>10. CASE \/ VMStops \/ VMRuns
            \/ \E p \in Unused : VMStarts(p) \/ MigrationStarts(p)
            \/ \E p \in Live(vm.uid) : MigrationEnds(p)
  <2>1. UNCHANGED <<setting, machine, mcache, unseen, pc, view, vfresh, devices, left>>
    BY <1>10 DEF VMStops, VMRuns, VMStarts, MigrationStarts, MigrationEnds, Stored, fixed, memory
  <2>2. QED BY <1>5, <2>1
<1>11. QED BY <1>1, <1>2, <1>3, <1>7, <1>8, <1>9, <1>10 DEF Next

\* A pass that has the stored version goes by the Machine as it is, and past
\* its first stages it carries out a readable request on a Machine that
\* nothing bars, with devices that cover the request (Reconcile, replace).
THEOREM PassesGoByWhatIsStored == Spec => []PassInv
<1>1. Init => PassInv BY DEF Init, PassInv, Found, Stages
<1>2. TypeOK /\ PassInv /\ [Next]_vars => PassInv'
  <2>1. ASSUME TypeOK, PassInv, UNCHANGED vars PROVE PassInv'
    BY <2>1 DEF vars, world, fixed, memory, PassInv, Asked, DryRun, Fresh
  <2>2. QED BY <2>1, PassKeepsPassInv, OthersKeepPassInv
<1>3. QED BY <1>1, <1>2, TypeCorrect, PTL DEF Spec

-----------------------------------------------------------------------------
(* The devices of a request stay out of service: RulesInv *)

\* Whatever a step does to the rules, a device that was kept from being
\* allocated still is, or its rule was taken away.
LEMMA KeptStays ==
  ASSUME TypeOK, [Next]_vars, NEW d \in Devices, Kept(d)
  PROVE  Kept(d)'
<1>1. CASE UNCHANGED <<rules, lifted>> BY <1>1 DEF Kept
<1>2. ASSUME NEW e \in Devices, Ensure(e) PROVE Kept(d)'
  <2>1. CASE rules' = [rules EXCEPT ![e] = RuleFor(view.name)] /\ lifted' = lifted \ {e}
    <3>1. RuleFor(view.name).there /\ RuleFor(view.name).blocks BY DEF RuleFor
    <3>2. rules \in [Devices -> [there: BOOLEAN, blocks: BOOLEAN, owner: Nat]] BY DEF TypeOK, StoredTypeOK
    <3>3. CASE d = e BY <2>1, <3>1, <3>2, <3>3 DEF Kept
    <3>4. CASE d # e BY <2>1, <3>2, <3>4 DEF Kept
    <3>5. QED BY <3>3, <3>4
  <2>2. QED BY <1>1, <1>2, <2>1 DEF Ensure
<1>3. ASSUME NEW e \in Devices, LiftRule(e) PROVE Kept(d)'
  <2>1. PICK rule : rules' = [rules EXCEPT ![e] = rule] BY <1>3 DEF LiftRule
  <2>2. lifted' = lifted \cup {e} BY <1>3 DEF LiftRule
  <2>3. rules \in [Devices -> [there: BOOLEAN, blocks: BOOLEAN, owner: Nat]] BY DEF TypeOK, StoredTypeOK
  <2>4. CASE d = e BY <2>2, <2>4 DEF Kept
  <2>5. CASE d # e BY <2>1, <2>2, <2>3, <2>5 DEF Kept
  <2>6. QED BY <2>4, <2>5
<1>4. CASE Pass
  <2>1. CASE \E e \in Devices : Ensure(e) BY <1>2, <2>1
  <2>2. CASE ~ \E e \in Devices : Ensure(e)
    BY <1>1, <1>4, <2>2
       DEF Pass, LeaveAlone, Begin, Clear, Reject, ListRules, ReadVM, ListPods, ReadClaim, SelectDevices,
           Quarantining, CheckRule, Replacing, Delete, SetStatus, Stored, Promises, history
  <2>3. QED BY <2>1, <2>2
<1>5. CASE CallFails \/ SyncMachine \/ Crash
  BY <1>1, <1>5 DEF CallFails, Fails, SyncMachine, Crash, Stored, Promises, history
<1>6. CASE \/ \E request \in Requests \cup {NoRequest} : EditRequest(request)
           \/ \E status \in {"none", "replacing"} : EditStatus(status)
           \/ \E bar \in Toggles : Toggle(bar)
           \/ UserDeletes
           \/ \E state \in ClusterStates : ClusterChanges(state)
  BY <1>1, <1>6
     DEF EditRequest, EditStatus, Toggle, UserDeletes, MachineEdit, ClusterChanges, Stored, history
<1>7. CASE VMSteps
  BY <1>1, <1>7
     DEF VMSteps, VMStops, VMRuns, VMStarts, MigrationStarts, MigrationEnds, Replaced, Stored, Promises,
         history
<1>8. CASE UNCHANGED vars BY <1>1, <1>8 DEF vars, history
<1>9. QED BY <1>3, <1>4, <1>5, <1>6, <1>7, <1>8 DEF Next, VMSteps

\* What a step that is not of the pass does to its memory: nothing, or the
\* pass is over or about to reject the request.
LEMMA OthersAndThePass ==
  ASSUME TypeOK, [Next]_vars, ~Pass
  PROVE  /\ UNCHANGED promised
         /\ UNCHANGED <<pc, devices, left>> \/ pc' \in {"idle", "reject"}
<1>1. CASE CallFails
  <2>1. PICK call : Fails(call) BY <1>1 DEF CallFails
  <2>2. UNCHANGED promised /\ (Rejected \/ End(TRUE)) BY <2>1 DEF Fails, Promises
  <2>3. pc' \in {"idle", "reject"} BY <2>2 DEF Rejected, End, Goto
  <2>4. QED BY <2>2, <2>3
<1>2. CASE SyncMachine \/ Crash
  BY <1>2 DEF SyncMachine, Crash, memory, history, Promises
<1>3. CASE \/ \E request \in Requests \cup {NoRequest} : EditRequest(request)
           \/ \E status \in {"none", "replacing"} : EditStatus(status)
           \/ \E bar \in Toggles : Toggle(bar)
           \/ UserDeletes
           \/ \E d \in Devices : LiftRule(d)
           \/ \E state \in ClusterStates : ClusterChanges(state)
  BY <1>3 DEF EditRequest, EditStatus, Toggle, UserDeletes, MachineEdit, LiftRule, Edit, ClusterChanges,
              memory, history
<1>4. CASE VMSteps
  BY <1>4 DEF VMSteps, VMStops, VMRuns, VMStarts, MigrationStarts, MigrationEnds, Replaced, memory,
              Promises, history
<1>5. CASE UNCHANGED vars BY <1>5 DEF vars, memory, history
<1>6. QED BY <1>1, <1>2, <1>3, <1>4, <1>5 DEF Next, VMSteps

LEMMA PassKeepsRulesInv ==
  ASSUME TypeOK, PassInv, RulesInv, Pass
  PROVE  RulesInv'
<1>k. \A d \in Devices : Kept(d) => Kept(d)' BY KeptStays DEF Next
<1>t. devices \subseteq Devices /\ left \subseteq Devices /\ promised \subseteq Devices
  BY DEF TypeOK, PassTypeOK, HistoryTypeOK
<1>1. ASSUME UNCHANGED promised, pc' \notin {"ensure", "check", "replacing", "delete"} PROVE RulesInv'
  BY <1>k, <1>t, <1>1 DEF RulesInv
<1>2. CASE \/ LeaveAlone \/ Begin \/ ReadVM \/ ListPods \/ \E c \in Claims : ReadClaim(c)
  <2>1. UNCHANGED promised
    BY <1>2 DEF LeaveAlone, Begin, ReadVM, ListPods, ReadClaim, Promises, history
  <2>2. pc' \notin {"ensure", "check", "replacing", "delete"}
    BY <1>2 DEF LeaveAlone, Begin, Stage, ReadVM, ListPods, ReadClaim, Goto, Rejected, End, memory
  <2>3. QED BY <1>1, <2>1, <2>2
<1>3. CASE Clear \/ Reject
  <2>1. UNCHANGED promised /\ pc' = "idle" BY <1>3 DEF Clear, Reject, SetStatus, End
  <2>2. QED BY <1>1, <2>1
<1>4. CASE ListRules
  <2>1. UNCHANGED promised BY <1>4 DEF ListRules, Promises
  <2>2. CASE pc' = "delete"
    <3>1. devices' = Of(rules, view.name) BY <1>4, <2>2 DEF ListRules, End, Goto
    <3>2. \A d \in devices' : d \in Devices /\ Kept(d) BY <3>1 DEF Of, Kept
    <3>3. QED BY <1>k, <1>t, <2>1, <2>2, <3>2 DEF RulesInv
  <2>3. CASE pc' # "delete"
    <3>1. pc' \in {"idle", "vm"} BY <1>4, <2>3 DEF ListRules, End, Goto
    <3>2. QED BY <1>1, <2>1, <3>1
  <2>4. QED BY <2>2, <2>3
<1>5. CASE SelectDevices
  <2>1. UNCHANGED promised BY <1>5 DEF SelectDevices, Promises
  <2>2. CASE pc' = "ensure"
    <3>1. left' = devices' BY <1>5, <2>2 DEF SelectDevices, Rejected, End, Goto
    <3>2. QED BY <1>k, <1>t, <2>1, <2>2, <3>1 DEF RulesInv
  <2>3. CASE pc' # "ensure"
    <3>1. pc' \in {"idle", "reject", "quarantining"} BY <1>5, <2>3 DEF SelectDevices, Rejected, End, Goto
    <3>2. QED BY <1>1, <2>1, <3>1
  <2>4. QED BY <2>2, <2>3
<1>6. CASE Quarantining
  <2>1. UNCHANGED promised /\ left = devices BY <1>6 DEF Quarantining, SetStatus, PassInv
  <2>2. pc' = "idle" \/ (pc' = "ensure" /\ UNCHANGED <<devices, left>>)
    BY <1>6 DEF Quarantining, SetStatus, End
  <2>3. QED BY <1>1, <1>k, <1>t, <2>1, <2>2 DEF RulesInv
<1>7. ASSUME NEW d \in Devices, Ensure(d) PROVE RulesInv'
  <2>1. pc = "ensure" /\ d \in left /\ UNCHANGED promised BY <1>7 DEF Ensure
  <2>2. CASE Done(d, "check", devices)
    <3>1. Kept(d)'
      <4>1. CASE rules' = [rules EXCEPT ![d] = RuleFor(view.name)]
        BY <4>1 DEF TypeOK, StoredTypeOK, Kept, RuleFor
      <4>2. CASE rules[d].there /\ Check(rules[d])
        BY <1>k, <4>2 DEF Kept, Check
      <4>3. QED BY <1>7, <2>2, <4>1, <4>2 DEF Ensure, Done, Rejected, End, Goto
    <3>2. UNCHANGED devices BY <2>2 DEF Done
    <3>3. CASE left = {d}
      <4>1. pc' = "check" BY <2>2, <3>3 DEF Done, Goto
      <4>2. \A e \in devices : Kept(e)' BY <1>k, <1>t, <2>1, <3>1, <3>3 DEF RulesInv
      <4>3. QED BY <1>k, <1>t, <2>1, <3>2, <4>1, <4>2 DEF RulesInv
    <3>4. CASE left # {d}
      <4>1. pc' = "ensure" /\ left' = left \ {d} BY <2>1, <2>2, <3>4 DEF Done, Goto
      <4>2. \A e \in devices \ left' : Kept(e)' BY <1>k, <1>t, <2>1, <3>1, <4>1 DEF RulesInv
      <4>3. QED BY <1>k, <1>t, <2>1, <3>2, <4>1, <4>2 DEF RulesInv
    <3>5. QED BY <3>3, <3>4
  <2>3. CASE End(TRUE) \/ Rejected
    <3>1. pc' \in {"idle", "reject"} BY <2>3 DEF End, Rejected, Goto
    <3>2. QED BY <1>1, <2>1, <3>1
  <2>4. QED BY <1>7, <2>2, <2>3 DEF Ensure
<1>8. ASSUME NEW d \in Devices, CheckRule(d) PROVE RulesInv'
  <2>1. pc = "check" /\ UNCHANGED promised BY <1>8 DEF CheckRule, Promises
  <2>2. pc' \in {"idle", "reject"} \/ (pc' \in {"check", "delete", "replacing"} /\ UNCHANGED devices)
    BY <1>8, <2>1 DEF CheckRule, End, Rejected, Done, Goto
  <2>3. QED BY <1>1, <1>k, <1>t, <2>1, <2>2 DEF RulesInv
<1>9. CASE Replacing
  <2>1. pc = "replacing" /\ UNCHANGED promised BY <1>9 DEF Replacing, SetStatus
  <2>2. pc' = "idle" \/ (pc' = "delete" /\ UNCHANGED devices) BY <1>9 DEF Replacing, SetStatus, End
  <2>3. QED BY <1>1, <1>k, <1>t, <2>1, <2>2 DEF RulesInv
<1>10. CASE Delete
  <2>1. pc = "delete" /\ pc' = "idle" BY <1>10 DEF Delete, End
  <2>2. promised' \subseteq promised \cup devices BY <1>10 DEF Delete
  <2>3. QED BY <1>k, <1>t, <2>1, <2>2 DEF RulesInv
<1>11. QED
  BY <1>2, <1>3, <1>4, <1>5, <1>6, <1>7, <1>8, <1>9, <1>10 DEF Pass

LEMMA NextRulesInv ==
  ASSUME TypeOK, PassInv, RulesInv, [Next]_vars
  PROVE  RulesInv'
<1>1. CASE Pass BY <1>1, PassKeepsRulesInv
<1>2. CASE ~Pass
  <2>1. \A d \in Devices : Kept(d) => Kept(d)' BY KeptStays
  <2>2. devices \subseteq Devices /\ promised \subseteq Devices BY DEF TypeOK, PassTypeOK, HistoryTypeOK
  <2>3. /\ UNCHANGED promised
        /\ UNCHANGED <<pc, devices, left>> \/ pc' \in {"idle", "reject"}
    BY <1>2, OthersAndThePass
  <2>4. QED BY <2>1, <2>2, <2>3 DEF RulesInv
<1>3. QED BY <1>1, <1>2

\* Every device with which a Machine was deleted is kept from being
\* allocated from then on, unless its rule was taken away, and the pass keeps
\* to the order of rules first and deletion last (replace).
THEOREM RulesComeFirst == Spec => []RulesInv
<1>1. Init => RulesInv BY DEF Init, RulesInv
<1>2. TypeOK /\ PassInv /\ RulesInv /\ [Next]_vars => RulesInv' BY NextRulesInv
<1>3. QED BY <1>1, <1>2, TypeCorrect, PassesGoByWhatIsStored, PTL DEF Spec

-----------------------------------------------------------------------------
(* What a step may do *)

LEMMA DeletingStep ==
  ASSUME TypeOK, PassInv, RulesInv, [Next]_vars, Deletes
  PROVE  AsAsked
<1>1. pc = "delete" /\ machine' # machine /\ pc' = "idle" BY DEF Deletes
<1>2. CASE Pass
  <2>1. Delete
    BY <1>1, <1>2
       DEF Pass, LeaveAlone, Begin, Clear, Reject, ListRules, ReadVM, ListPods, ReadClaim, SelectDevices,
           Quarantining, Ensure, CheckRule, Replacing
  <2>2. vfresh BY <1>1, <2>1 DEF Delete
  <2>3. view = machine BY <2>2 DEF PassInv
  <2>4. /\ machine.request # NoRequest /\ ParseOK(machine.request) /\ machine.bars = {}
        /\ machine.status = "replacing" /\ Covers(devices, ParseRequest(machine.request))
    BY <1>1, <2>3 DEF PassInv, Stages, Found, Asked
  <2>5. \A d \in devices : d \in Devices /\ Kept(d) BY <1>1 DEF RulesInv, TypeOK, PassTypeOK
  <2>6. \A name \in ParseRequest(machine.request) : \E d \in Devices : NameOf[d] = name /\ Kept(d)
    BY <2>4, <2>5 DEF Covers, Matches
  <2>7. \E d \in Devices : Kept(d) BY <2>4, <2>5 DEF Covers
  <2>8. QED BY <2>4, <2>6, <2>7 DEF AsAsked
<1>3. CASE CallFails \/ SyncMachine \/ Crash
  BY <1>1, <1>3 DEF CallFails, Fails, SyncMachine, Crash, Stored
<1>4. CASE \/ \E request \in Requests \cup {NoRequest} : EditRequest(request)
           \/ \E status \in {"none", "replacing"} : EditStatus(status)
           \/ \E bar \in Toggles : Toggle(bar)
           \/ UserDeletes
           \/ \E d \in Devices : LiftRule(d)
           \/ \E state \in ClusterStates : ClusterChanges(state)
  BY <1>1, <1>4
     DEF EditRequest, EditStatus, Toggle, UserDeletes, MachineEdit, LiftRule, Edit, ClusterChanges, memory
<1>5. CASE VMSteps
  BY <1>1, <1>5
     DEF VMSteps, VMStops, VMRuns, VMStarts, MigrationStarts, MigrationEnds, Replaced, memory
<1>6. CASE UNCHANGED vars BY <1>1, <1>6 DEF vars
<1>7. QED BY <1>2, <1>3, <1>4, <1>5, <1>6 DEF Next, VMSteps

\* The operator deletes a Machine only for the request that is on it at that
\* moment, with nothing that bars it and with every device the request names
\* kept from being allocated, whatever users, crashes, lost answers and the
\* virtual machine did since the pass began (replace).
THEOREM DeletionIsAsked == Spec => DeletesAsAsked
<1>1. TypeOK /\ PassInv /\ RulesInv /\ [Next]_vars => [Deletes => AsAsked]_vars
  BY DeletingStep
<1>2. QED BY <1>1, TypeCorrect, PassesGoByWhatIsStored, RulesComeFirst, PTL DEF Spec, DeletesAsAsked

\* The devices that the scheduler gives a new virtual machine.
LEMMA StartOnHeld ==
  ASSUME TypeOK, NEW p \in Pods, NEW given \in [PodClaims[p] -> Allocations], StartOn(p, given),
         NEW d \in Held'
  PROVE  ~rules[d].blocks
<1>1. vm'.pod = p /\ claim' = Reallocated(UNION {PodClaims[q] : q \in Live(vm.uid)}, given)
      /\ Scheduled(p, given, Devices)
  BY DEF StartOn
<1>2. PICK c \in PodClaims[p] : [device |-> d, admin |-> FALSE] \in claim'[c]
  BY <1>1 DEF Held, HeldBy
<1>3. c \in Claims BY DevicesAssumption
<1>4. claim'[c] = given[c] BY <1>1, <1>3 DEF Reallocated
<1>5. d \in Allocated(given[c]) BY <1>2, <1>4 DEF Allocated
<1>6. QED BY <1>1, <1>5 DEF Scheduled

LEMMA StartingStep ==
  ASSUME TypeOK, RulesInv, [Next]_vars, vm'.uid # vm.uid
  PROVE  Held' \cap promised \subseteq lifted
<1>1. ASSUME NEW p \in Unused, VMStarts(p) \/ Replaced(p)
      PROVE  Held' \cap promised \subseteq lifted
  <2>1. PICK given \in [PodClaims[p] -> Allocations] : StartOn(p, given)
    BY <1>1 DEF VMStarts, Replaced
  <2>2. p \in Pods BY UnusedType
  <2>3. ASSUME NEW d \in Held', d \in promised PROVE d \in lifted
    <3>1. ~rules[d].blocks BY <2>1, <2>2, StartOnHeld
    <3>2. Kept(d) BY <2>3 DEF RulesInv
    <3>3. QED BY <3>1, <3>2 DEF Kept
  <2>4. QED BY <2>3
<1>2. CASE UNCHANGED vm BY <1>2
<1>3. CASE Pass \/ CallFails \/ SyncMachine \/ Crash
  <2>1. UNCHANGED Around
    BY <1>3 DEF Pass, LeaveAlone, Begin, Clear, Reject, ListRules, ReadVM, ListPods, ReadClaim,
       SelectDevices, Quarantining, Ensure, CheckRule, Replacing, Delete, SetStatus, CallFails, Fails,
       SyncMachine, Crash
  <2>2. QED BY <1>2, <2>1 DEF Around, world
<1>4. CASE \/ \E request \in Requests \cup {NoRequest} : EditRequest(request)
           \/ \E status \in {"none", "replacing"} : EditStatus(status)
           \/ \E bar \in Toggles : Toggle(bar)
           \/ UserDeletes
           \/ \E d \in Devices : LiftRule(d)
           \/ \E state \in ClusterStates : ClusterChanges(state)
  BY <1>2, <1>4
     DEF EditRequest, EditStatus, Toggle, UserDeletes, MachineEdit, LiftRule, Edit, ClusterChanges, world
<1>5. CASE VMStops \/ VMRuns \/ \E p \in Live(vm.uid) : MigrationEnds(p)
  <2>1. vm'.uid = vm.uid BY <1>5 DEF VMStops, VMRuns, MigrationEnds, TypeOK, AroundTypeOK
  <2>2. QED BY <2>1
<1>6. CASE \E p \in Unused : MigrationStarts(p) BY <1>2, <1>6 DEF MigrationStarts
<1>7. CASE UNCHANGED vars BY <1>2, <1>7 DEF vars, world
<1>8. QED BY <1>1, <1>3, <1>4, <1>5, <1>6, <1>7 DEF Next

\* A virtual machine that starts after a Machine was deleted for its devices
\* is given none of them while their rules stand, the replacement's among
\* them: what replacing the Machine is for (replace, Rules.Ensure).
THEOREM ReplacementGetsOthers == Spec => ReplacementAvoids
<1>1. TypeOK /\ RulesInv /\ [Next]_vars => [vm'.uid # vm.uid => Held' \cap promised \subseteq lifted]_vars
  BY StartingStep
<1>2. QED BY <1>1, TypeCorrect, RulesComeFirst, PTL DEF Spec, ReplacementAvoids

LEMMA DryRunStep ==
  ASSUME TypeOK, PassInv, [Next]_vars, DryRun, pc # "idle", <<pc, left>>' # <<pc, left>>
  PROVE  UNCHANGED <<machine, rules>>
<1>1. pc \in {"rules", "vm", "pods", "claims"} BY DEF PassInv, Found, Stages, TypeOK, PassTypeOK
<1>2. CASE Pass
  BY <1>1, <1>2
     DEF Pass, LeaveAlone, Begin, Clear, Reject, ListRules, ReadVM, ListPods, ReadClaim,
         SelectDevices, Quarantining, Ensure, CheckRule, Replacing, Delete, Stored
<1>3. CASE CallFails \/ SyncMachine \/ Crash
  BY <1>3 DEF CallFails, Fails, SyncMachine, Crash, Stored
<1>4. CASE ~(Pass \/ CallFails \/ SyncMachine \/ Crash)
  <2>1. UNCHANGED <<pc, left>>
    BY <1>4 DEF Next, EditRequest, EditStatus, Toggle, UserDeletes, MachineEdit, LiftRule, Edit,
       ClusterChanges, VMStops, VMRuns, VMStarts, MigrationStarts, MigrationEnds, Replaced, memory, vars
  <2>2. QED BY <2>1
<1>5. QED BY <1>2, <1>3, <1>4

\* A dry run writes nothing: no rule, no status and no deletion, whichever way
\* the pass goes (replace, reject).
THEOREM DryRunIsDry == Spec => DryRunWritesNothing
<1>1. TypeOK /\ PassInv /\ [Next]_vars
        => [DryRun /\ pc # "idle" /\ <<pc, left>>' # <<pc, left>> => UNCHANGED <<machine, rules>>]_vars
  BY DryRunStep
<1>2. QED BY <1>1, TypeCorrect, PassesGoByWhatIsStored, PTL DEF Spec, DryRunWritesNothing

-----------------------------------------------------------------------------
(* A request whose rules are made: SettledInv *)

LEMMA CoversMore ==
  ASSUME NEW few, NEW many, NEW names, few \subseteq many, Covers(few, names)
  PROVE  Covers(many, names)
BY DEF Covers, Matches

LEMMA PassKeepsSettledInv ==
  ASSUME TypeOK, PassInv, SettledInv, Pass, settled', ~Lag'
  PROVE  SettledInv'
<1>m. machine \in Machines /\ view \in Machines BY DEF TypeOK, StoredTypeOK, PassTypeOK
<1>s. {"none", "rejected", "quarantining", "replacing"} \subseteq Statuses BY DEF Statuses
<1>l. ~Lag /\ UNCHANGED setting
  <2>1. UNCHANGED Around
    BY DEF Pass, LeaveAlone, Begin, Clear, Reject, ListRules, ReadVM, ListPods, ReadClaim,
       SelectDevices, Quarantining, Ensure, CheckRule, Replacing, Delete, SetStatus
  <2>2. UNCHANGED setting BY <2>1 DEF Around, world, fixed
  <2>3. QED BY <2>2 DEF Lag
<1>1. CASE Replacing
  <2>1. /\ pc = "replacing" /\ SetStatus("replacing", "delete") /\ UNCHANGED rules
        /\ machine'.status = "replacing" /\ devices \subseteq Of(rules, view.name)
        /\ machine'.name = view.name /\ machine'.request = view.request
    BY <1>1 DEF Replacing, SetStatus
  <2>2. pc' \in {"idle", "delete"} BY <2>1 DEF SetStatus, End
  <2>3. view.request # NoRequest /\ Covers(devices, ParseRequest(view.request))
    BY <2>1 DEF PassInv, Found, Stages, Asked
  <2>4. Covers(Of(rules', machine'.name), ParseRequest(machine'.request))
    BY <2>1, <2>3, CoversMore
  <2>5. QED BY <2>1, <2>2, <2>3, <2>4 DEF SettledInv
<1>2. CASE ~Replacing /\ ~settled
  BY <1>2
     DEF Pass, LeaveAlone, Begin, Clear, Reject, ListRules, ReadVM, ListPods, ReadClaim,
         SelectDevices, Quarantining, Ensure, CheckRule, Delete, Promises, history
<1>3. CASE ~Replacing /\ settled
  <2>1. /\ machine.status \in {"replacing", "rejected"} /\ machine.request # NoRequest
        /\ Covers(Of(rules, machine.name), ParseRequest(machine.request))
        /\ pc \in {"idle", "rules", "delete", "reject"}
        /\ pc = "rules" => view.name = machine.name /\ view.request = machine.request
    BY <1>l, <1>3 DEF SettledInv
  <2>2. ASSUME UNCHANGED <<machine, rules>>, pc' \in {"idle", "delete", "reject"} PROVE SettledInv'
    BY <2>1, <2>2 DEF SettledInv
  <2>3. CASE LeaveAlone
    BY <2>1, <2>3 DEF LeaveAlone, Stored, memory, SettledInv
  <2>4. CASE Begin
    <3>1. mcache = machine /\ UNCHANGED <<machine, rules>> BY <1>l, <2>4 DEF Begin, PassInv, Stored
    <3>2. pc' \in {"rules", "reject"} /\ view' = machine
      BY <2>1, <2>4, <3>1 DEF Begin, Stage, IsRejected
    <3>3. QED BY <2>1, <3>1, <3>2 DEF SettledInv
  <2>5. CASE Reject
    <3>1. SetStatus("rejected", "idle") /\ UNCHANGED rules BY <2>5 DEF Reject, SetStatus
    <3>2. pc' = "idle" BY <3>1 DEF SetStatus, End
    <3>3. machine' = machine \/ machine' = [machine EXCEPT !.status = "rejected"]
      BY <3>1 DEF SetStatus, Save
    <3>4. /\ machine'.status \in {"replacing", "rejected"} /\ machine'.request = machine.request
          /\ machine'.name = machine.name
      BY <1>m, <2>1, <3>3 DEF Machines
    <3>5. QED BY <2>1, <3>1, <3>2, <3>4 DEF SettledInv
  <2>6. CASE ListRules
    <3>1. Covers(Of(rules, view.name), Asked) BY <2>1, <2>6 DEF ListRules, Asked
    <3>2. UNCHANGED <<machine, rules>> BY <2>6 DEF ListRules, Stored
    <3>3. pc' \in {"idle", "delete"} BY <2>6, <3>1 DEF ListRules, End, Goto
    <3>4. QED BY <2>2, <3>2, <3>3
  <2>7. CASE Delete
    <3>1. pc' = "idle" /\ UNCHANGED rules BY <2>7 DEF Delete, End
    <3>2. machine' = machine \/ machine' = [machine EXCEPT !.deleting = TRUE] BY <2>7 DEF Delete, Save
    <3>3. machine'.status = machine.status /\ machine'.request = machine.request /\ machine'.name = machine.name
      BY <1>m, <3>2 DEF Machines
    <3>4. QED BY <2>1, <3>1, <3>3 DEF SettledInv
  <2>8. QED
    BY <1>3, <2>1, <2>3, <2>4, <2>5, <2>6, <2>7
       DEF Pass, Clear, ReadVM, ListPods, ReadClaim, SelectDevices, Quarantining, Ensure, CheckRule
<1>4. QED BY <1>1, <1>2, <1>3

LEMMA OthersKeepSettledInv ==
  ASSUME TypeOK, SettledInv, [Next]_vars, ~Pass
  PROVE  SettledInv'
<1>1. ASSUME UNCHANGED <<setting, rules, settled, pc, view>>,
             machine'.name = machine.name, machine'.request = machine.request,
             machine'.status = machine.status
      PROVE  SettledInv'
  BY <1>1 DEF SettledInv, Lag
<1>2. ASSUME UNCHANGED <<setting, rules, settled, machine>>, pc' \in {"idle", "reject"} PROVE SettledInv'
  BY <1>2 DEF SettledInv, Lag
<1>3. ASSUME ~settled' PROVE SettledInv' BY <1>3 DEF SettledInv
<1>m. machine \in Machines BY DEF TypeOK, StoredTypeOK
<1>4. CASE CallFails
  <2>1. PICK call : Fails(call) BY <1>4 DEF CallFails
  <2>2. UNCHANGED <<setting, rules, settled, machine>> /\ (Rejected \/ End(TRUE))
    BY <2>1 DEF Fails, Stored, Around, world, fixed, Promises
  <2>3. pc' \in {"idle", "reject"} BY <2>2 DEF Rejected, End, Goto
  <2>4. QED BY <1>2, <2>2, <2>3
<1>5. CASE SyncMachine
  BY <1>1, <1>5 DEF SyncMachine, Around, world, fixed, memory, history
<1>6. CASE Crash
  BY <1>2, <1>6 DEF Crash, Around, world, fixed, Promises
<1>7. CASE \/ \E request \in Requests \cup {NoRequest} : EditRequest(request)
           \/ \E status \in {"none", "replacing"} : EditStatus(status)
           \/ \E d \in Devices : LiftRule(d)
           \/ \E p \in Unused : Replaced(p)
  BY <1>3, <1>7 DEF EditRequest, EditStatus, LiftRule, Replaced
<1>8. ASSUME NEW bar \in Toggles, Toggle(bar) PROVE SettledInv'
  <2>1. UNCHANGED <<setting, rules, settled, pc, view>>
    BY <1>8 DEF Toggle, MachineEdit, Edit, world, fixed
  <2>2. PICK bars : machine' = [machine EXCEPT !.bars = bars] BY <1>8 DEF Toggle, Save
  <2>3. QED BY <1>1, <1>m, <2>1, <2>2 DEF Machines
<1>9. CASE UserDeletes
  <2>1. UNCHANGED <<setting, rules, settled, pc, view>>
    BY <1>9 DEF UserDeletes, MachineEdit, Edit, world, fixed
  <2>2. machine' = [machine EXCEPT !.deleting = TRUE] BY <1>9 DEF UserDeletes, Save
  <2>3. QED BY <1>1, <1>m, <2>1, <2>2 DEF Machines
<1>10. CASE \E state \in ClusterStates : ClusterChanges(state)
  BY <1>1, <1>10 DEF ClusterChanges, Stored, world, fixed, memory, history
<1>11. CASE \/ VMStops \/ VMRuns
            \/ \E p \in Unused : VMStarts(p) \/ MigrationStarts(p)
            \/ \E p \in Live(vm.uid) : MigrationEnds(p)
  BY <1>1, <1>11
     DEF VMStops, VMRuns, VMStarts, MigrationStarts, MigrationEnds, Stored, fixed, memory, history, Promises
<1>12. CASE UNCHANGED vars
  BY <1>1, <1>12 DEF vars, world, fixed, memory, history
<1>13. QED BY <1>4, <1>5, <1>6, <1>7, <1>8, <1>9, <1>10, <1>11, <1>12 DEF Next

\* Once the rules of a request are made they cover it, and no pass looks at
\* the virtual machine again for it, unless one begins on an old copy of the
\* Machine (replace, on a request picked up again).
THEOREM RulesCoverTheRequest == Spec => []SettledInv
<1>1. Init => SettledInv BY DEF Init, SettledInv
<1>2. TypeOK /\ PassInv /\ SettledInv /\ [Next]_vars => SettledInv'
  <2>1. CASE ~settled' \/ Lag' BY <2>1 DEF SettledInv
  <2>2. QED BY <2>1, PassKeepsSettledInv, OthersKeepSettledInv
<1>3. QED BY <1>1, <1>2, TypeCorrect, PassesGoByWhatIsStored, PTL DEF Spec

LEMMA SettledStep ==
  ASSUME TypeOK, SettledInv, [Next]_vars, settled, ~Lag
  PROVE  rules' = rules \/ ~settled'
<1>1. pc \in {"idle", "rules", "delete", "reject"} BY DEF SettledInv
<1>2. CASE Pass
  BY <1>1, <1>2
     DEF Pass, LeaveAlone, Begin, Clear, Reject, ListRules, ReadVM, ListPods, ReadClaim, SelectDevices,
         Quarantining, Ensure, CheckRule, Replacing, Delete, SetStatus, Stored
<1>3. CASE CallFails \/ SyncMachine \/ Crash
  BY <1>3 DEF CallFails, Fails, SyncMachine, Crash, Stored
<1>4. CASE ~(Pass \/ CallFails \/ SyncMachine \/ Crash)
  BY <1>4 DEF Next, EditRequest, EditStatus, Toggle, UserDeletes, MachineEdit, LiftRule, Edit,
     ClusterChanges, VMStops, VMRuns, VMStarts, MigrationStarts, MigrationEnds, Replaced, Stored, vars
<1>5. QED BY <1>2, <1>3, <1>4

\* While nobody edits a request, its status or the rules made for it, no
\* further device is quarantined for it: what the virtual machine holds
\* after a restart is not the request's (replace).
THEOREM NothingMoreIsQuarantined == Spec => SettledStays
<1>1. TypeOK /\ SettledInv /\ [Next]_vars => [settled /\ ~Lag => rules' = rules \/ ~settled']_vars
  BY SettledStep
<1>2. QED BY <1>1, TypeCorrect, RulesCoverTheRequest, PTL DEF Spec, SettledStays

-----------------------------------------------------------------------------
(* The pods of the virtual machine: PodsInv *)

\* A pod is live in one virtual machine at most, and that is the last one.
LEMMA StartOnPods ==
  ASSUME TypeOK, PodsInv, NEW p \in Unused, NEW given, StartOn(p, given), UNCHANGED setting
  PROVE  /\ PodsInv' /\ vm'.pod = p /\ vm'.uid = vm.uid + 1
         /\ pods'[p].vmi = vm.uid + 1
         /\ \A q \in Pods : q # p => pods'[q].vmi = pods[q].vmi
<1>1. /\ vm' = [uid |-> vm.uid + 1, phase |-> "Starting", pod |-> p]
      /\ pods' = [q \in Pods |-> IF q = p THEN [vmi |-> vm.uid + 1, over |-> FALSE]
                                 ELSE IF q \in Live(vm.uid) THEN [pods[q] EXCEPT !.over = TRUE]
                                 ELSE pods[q]]
  BY DEF StartOn
<1>2. vm.uid \in Nat /\ pods \in [Pods -> [vmi: Nat, over: BOOLEAN]] BY DEF TypeOK, AroundTypeOK
<1>3. p \in Pods /\ p \in LauncherPods BY UnusedType DEF Unused
<1>4. vm'.uid = vm.uid + 1 /\ vm'.pod = p /\ pods'[p] = [vmi |-> vm.uid + 1, over |-> FALSE]
  BY <1>1, <1>3
<1>5. ASSUME NEW q \in Pods, q # p
      PROVE  /\ pods'[q].vmi = pods[q].vmi /\ pods[q].vmi \in Nat /\ pods[q].vmi <= vm.uid
             /\ pods[q].vmi # 0 => pods'[q].over
             /\ pods[q].vmi # 0 => q \in LauncherPods
  <2>1. pods[q] \in [vmi: Nat, over: BOOLEAN] BY <1>2
  <2>2. CASE q \in Live(vm.uid)
    <3>1. pods'[q] = [pods[q] EXCEPT !.over = TRUE] BY <1>1, <1>5, <2>2
    <3>2. QED BY <2>1, <3>1 DEF PodsInv
  <2>3. CASE q \notin Live(vm.uid)
    <3>1. pods'[q] = pods[q] BY <1>1, <1>5, <2>3
    <3>2. QED BY <2>1, <2>3, <3>1 DEF PodsInv, Live
  <2>4. QED BY <2>2, <2>3
<1>6. LauncherPods' = LauncherPods BY MachinesKept
<1>7. vm'.uid # 0 /\ vm'.pod \in LauncherPods' /\ pods'[vm'.pod] = [vmi |-> vm'.uid, over |-> FALSE]
  BY <1>2, <1>3, <1>4, <1>6
<1>8. ASSUME NEW q \in Pods
      PROVE  /\ pods'[q].vmi # 0 => q \in LauncherPods'
             /\ pods'[q].vmi <= vm'.uid
             /\ pods'[q].vmi \notin {0, vm'.uid} => pods'[q].over
  <2>1. CASE q = p BY <1>2, <1>3, <1>4, <1>6, <2>1
  <2>2. CASE q # p BY <1>2, <1>4, <1>5, <1>6, <2>2
  <2>3. QED BY <2>1, <2>2
<1>9. PodsInv' BY <1>7, <1>8 DEF PodsInv
<1>10. QED BY <1>2, <1>3, <1>4, <1>5, <1>9

LEMMA MigrationStartsPods ==
  ASSUME TypeOK, PodsInv, NEW p \in Unused, MigrationStarts(p)
  PROVE  PodsInv' /\ \A q \in Pods : q # p => pods'[q] = pods[q]
<1>1. UNCHANGED <<vm, setting>> /\ pods' = [pods EXCEPT ![p] = [vmi |-> vm.uid, over |-> FALSE]]
  BY DEF MigrationStarts, fixed
<1>2. vm.uid \in Nat /\ pods \in [Pods -> [vmi: Nat, over: BOOLEAN]] BY DEF TypeOK, AroundTypeOK
<1>3. p \in Pods /\ p \in LauncherPods /\ pods[p].vmi = 0 BY UnusedType DEF Unused
<1>4. pods'[p] = [vmi |-> vm.uid, over |-> FALSE] /\ \A q \in Pods : q # p => pods'[q] = pods[q]
  BY <1>1, <1>2, <1>3
<1>5. LauncherPods' = LauncherPods BY <1>1, MachinesKept
<1>6. vm.pod # p /\ vm.pod \in Pods BY <1>2, <1>3 DEF PodsInv, TypeOK, AroundTypeOK
<1>7. PodsInv' BY <1>1, <1>2, <1>3, <1>4, <1>5, <1>6 DEF PodsInv
<1>8. QED BY <1>3, <1>4, <1>7

LEMMA MigrationEndsPods ==
  ASSUME TypeOK, PodsInv, NEW p \in Live(vm.uid), MigrationEnds(p)
  PROVE  /\ PodsInv' /\ vm'.uid = vm.uid
         /\ \A q \in Pods : pods'[q].vmi = pods[q].vmi /\ (pods[q].over => pods'[q].over)
<1>1. PICK gone \in {p, vm.pod} :
        /\ vm' = [vm EXCEPT !.pod = IF gone = p THEN vm.pod ELSE p]
        /\ pods' = [pods EXCEPT ![gone].over = TRUE]
  BY DEF MigrationEnds
<1>2. /\ vm \in [uid: Nat, phase: {"Starting", "Running", "Stopping"}, pod: Pods]
      /\ pods \in [Pods -> [vmi: Nat, over: BOOLEAN]]
  BY DEF TypeOK, AroundTypeOK
<1>3. p \in Pods /\ pods[p].vmi = vm.uid /\ ~pods[p].over BY DEF Live
<1>4. gone \in Pods /\ p # vm.pod /\ UNCHANGED setting BY <1>2, <1>3 DEF MigrationEnds, fixed
<1>5. vm'.uid = vm.uid /\ vm'.pod \in {p, vm.pod} \ {gone} BY <1>1, <1>2, <1>4
<1>6. ASSUME NEW q \in Pods
      PROVE  /\ pods'[q].vmi = pods[q].vmi /\ (pods[q].over => pods'[q].over)
             /\ q # gone => pods'[q] = pods[q]
  <2>1. pods[q] \in [vmi: Nat, over: BOOLEAN] BY <1>2
  <2>2. CASE q = gone
    <3>1. pods'[q] = [pods[q] EXCEPT !.over = TRUE] BY <1>1, <1>2, <2>2
    <3>2. QED BY <2>1, <2>2, <3>1
  <2>3. CASE q # gone BY <1>1, <1>2, <2>3
  <2>4. QED BY <2>2, <2>3
<1>7. LauncherPods' = LauncherPods BY <1>4, MachinesKept
<1>8. pods[p] = [vmi |-> vm.uid, over |-> FALSE]
  <2>1. pods[p] \in [vmi: Nat, over: BOOLEAN] BY <1>2, <1>3
  <2>2. QED BY <1>3, <2>1
<1>9. PodsInv'
  <2>1. vm'.pod \in LauncherPods /\ pods[vm'.pod] = [vmi |-> vm.uid, over |-> FALSE]
    BY <1>3, <1>5, <1>8 DEF PodsInv
  <2>2. pods'[vm'.pod] = [vmi |-> vm'.uid, over |-> FALSE] BY <1>2, <1>3, <1>5, <1>6, <2>1
  <2>3. ASSUME NEW q \in Pods
        PROVE  /\ pods'[q].vmi # 0 => q \in LauncherPods'
               /\ pods'[q].vmi <= vm'.uid
               /\ pods'[q].vmi \notin {0, vm'.uid} => pods'[q].over
    BY <1>5, <1>6, <1>7 DEF PodsInv
  <2>4. QED BY <1>5, <1>7, <2>1, <2>2, <2>3 DEF PodsInv
<1>10. QED BY <1>5, <1>6, <1>9

-----------------------------------------------------------------------------
(* What the locator finds is of the virtual machine: HeldInv *)

\* What the claims of a pod have is held by it.
LEMMA AllocatedIsHeld ==
  ASSUME TypeOK, NEW p \in Pods, NEW c \in PodClaims[p]
  PROVE  Allocated(claim[c]) \subseteq HeldBy(p)
<1>1. c \in Claims BY DevicesAssumption
<1>2. claim[c] \subseteq Results BY <1>1 DEF TypeOK, AroundTypeOK
<1>3. ASSUME NEW res \in claim[c], ~res.admin PROVE res.device \in HeldBy(p)
  <2>1. res \in Results BY <1>2
  <2>2. res = [device |-> res.device, admin |-> FALSE] /\ res.device \in Devices
    BY <1>3, <2>1 DEF Results
  <2>3. QED BY <2>2 DEF HeldBy
<1>4. QED BY <1>3 DEF Allocated

\* The locator reads only claims of live pods that the pass goes by.
LEMMA ListedClaims ==
  ASSUME TypeOK, HeldInv, pc = "pods", NEW c \in ClaimsOf(seen, pods)
  PROVE  \E p \in Pods : /\ c \in PodClaims[p] /\ pods[p].vmi # 0
                         /\ p \in Live(vm.uid) /\ p \in GoesBy
<1>1. PICK p \in Pods : /\ c \in PodClaims[p] /\ pods[p].vmi = seen.uid /\ ~pods[p].over
                        /\ seen.active # {} => p \in seen.active
  BY DEF ClaimsOf
<1>2. PodsInv /\ seen.uid # 0 BY DEF HeldInv
<1>3. pods[p].vmi = vm.uid BY <1>1, <1>2 DEF PodsInv
<1>4. QED BY <1>1, <1>2, <1>3 DEF Live, GoesBy

\* What the pods held is not forgotten while a pass goes on: a pod that is
\* given to a virtual machine held nothing before.
LEMMA HeldByTheseGrows ==
  ASSUME UNCHANGED seen,
         \A q \in Pods : since[q] \subseteq since'[q] /\ (since[q] # {} => pods'[q].vmi = pods[q].vmi)
  PROVE  HeldByThese \subseteq HeldByThese'
<1>1. ASSUME NEW d, NEW q \in GoesBy, d \in since[q] PROVE \E r \in GoesBy' : d \in since'[r]
  <2>1. q \in Pods BY DEF GoesBy
  <2>2. pods'[q].vmi = pods[q].vmi /\ d \in since'[q] BY <1>1, <2>1
  <2>3. q \in GoesBy' BY <1>1, <2>1, <2>2 DEF GoesBy
  <2>4. QED BY <2>2, <2>3
<1>2. QED BY <1>1 DEF HeldByThese

LEMMA HeldByTheseKept ==
  ASSUME UNCHANGED <<seen, since, pods>> PROVE HeldByThese' = HeldByThese
<1>1. GoesBy' = GoesBy BY DEF GoesBy
<1>2. QED BY <1>1 DEF HeldByThese

\* What is live, and holds what, follows from the virtual machine, its pods
\* and the claims.
LEMMA LiveKept ==
  ASSUME UNCHANGED <<pods, claim>>, vm'.uid = vm.uid
  PROVE  Live(vm.uid)' = Live(vm.uid) /\ \A p \in Pods : HeldBy(p)' = HeldBy(p)
BY DEF Live, HeldBy

LEMMA PodsInvKept ==
  ASSUME PodsInv, UNCHANGED <<setting, pods>>, vm'.uid = vm.uid, vm'.pod = vm.pod PROVE PodsInv'
<1>1. LauncherPods' = LauncherPods BY MachinesKept
<1>2. QED BY <1>1 DEF PodsInv

LEMMA EndHeldInv ==
  ASSUME PodsInv', vm'.uid \in Nat, mcache'.name <= machine'.name, machine'.name \in Nat,
         pc' = "idle", view' = NoMachine, seen' = NoVMI, held' = {}, since' = NothingHeld
  PROVE  HeldInv'
<1>1. view'.name = 0 /\ seen'.uid = 0 BY DEF NoMachine, NoVMI
<1>2. view'.name <= machine'.name /\ seen'.uid <= vm'.uid BY <1>1
<1>3. \A p \in Pods : since'[p] = {} BY DEF NothingHeld
<1>4. QED BY <1>2, <1>3 DEF HeldInv

\* The pass goes on, past what it read of the virtual machine.
LEMMA GotoHeldInv ==
  ASSUME HeldInv, pc # "idle", UNCHANGED Around,
         view'.name = view.name, machine'.name = machine.name, UNCHANGED <<mcache, seen, held, since>>,
         pc' \notin {"idle", "pods", "claims"}, pc' \in {"rules", "vm"} => held = {},
         pc' \in {"quarantining", "ensure"} => left' \subseteq Candidates(held)
  PROVE  HeldInv'
<1>1. UNCHANGED <<setting, vm, pods, claim>> BY DEF Around, world, fixed
<1>2. PodsInv' BY <1>1, PodsInvKept DEF HeldInv
<1>3. HeldByThese' = HeldByThese BY <1>1, HeldByTheseKept
<1>4. Live(vm.uid)' = Live(vm.uid) /\ \A p \in Pods : HeldBy(p)' = HeldBy(p) BY <1>1, LiveKept
<1>5. \A p \in Live(vm.uid) : p \in Pods BY DEF Live
<1>6. QED BY <1>1, <1>2, <1>3, <1>4, <1>5 DEF HeldInv

LEMMA RejectedHeldInv ==
  ASSUME TypeOK, HeldInv, pc # "idle", UNCHANGED <<machine, mcache, Around>>, Rejected
  PROVE  HeldInv'
<1>1. UNCHANGED <<setting, vm, pods, claim>> BY DEF Around, world, fixed
<1>2. PodsInv' BY <1>1, PodsInvKept DEF HeldInv
<1>3. machine.name \in Nat /\ vm.uid \in Nat BY DEF TypeOK, StoredTypeOK, AroundTypeOK, Machines
<1>4. CASE End(FALSE) BY <1>1, <1>2, <1>3, <1>4, EndHeldInv DEF HeldInv, End
<1>5. CASE Goto("reject") /\ UNCHANGED <<seen, toRead, held, devices, left>>
  BY <1>5, GotoHeldInv DEF Goto
<1>6. QED BY <1>4, <1>5 DEF Rejected

LEMMA PassKeepsHeldInv ==
  ASSUME TypeOK, PassInv, HeldInv, Pass
  PROVE  HeldInv'
<1>m. /\ machine \in Machines /\ mcache \in Machines /\ view \in Machines
      /\ machine.name \in Nat /\ vm.uid \in Nat
  BY DEF TypeOK, StoredTypeOK, AroundTypeOK, PassTypeOK, Machines
<1>s. {"none", "rejected", "quarantining", "replacing"} \subseteq Statuses BY DEF Statuses
<1>a. UNCHANGED <<Around, mcache>> /\ UNCHANGED <<setting, vm, pods, claim>>
  <2>1. UNCHANGED <<Around, mcache>>
    BY DEF Pass, LeaveAlone, Begin, Clear, Reject, ListRules, ReadVM, ListPods, ReadClaim,
       SelectDevices, Quarantining, Ensure, CheckRule, Replacing, Delete, SetStatus, Stored
  <2>2. QED BY <2>1 DEF Around, world, fixed
<1>p. PodsInv' BY <1>a, PodsInvKept DEF HeldInv
<1>h. /\ Live(vm.uid)' = Live(vm.uid) /\ \A p \in Live(vm.uid) : p \in Pods
      /\ \A p \in Pods : HeldBy(p)' = HeldBy(p)
  BY <1>a, LiveKept DEF Live
<1>n. machine'.name = machine.name
  <2>1. \/ UNCHANGED machine
        \/ \E status : Save([machine EXCEPT !.status = status])
        \/ Save([machine EXCEPT !.deleting = TRUE])
    BY DEF Pass, LeaveAlone, Begin, Clear, Reject, ListRules, ReadVM, ListPods, ReadClaim,
       SelectDevices, Quarantining, Ensure, CheckRule, Replacing, Delete, SetStatus, Stored
  <2>2. \/ UNCHANGED machine
        \/ \E status : machine' = [machine EXCEPT !.status = status]
        \/ machine' = [machine EXCEPT !.deleting = TRUE]
    BY <2>1 DEF Save
  <2>3. QED BY <1>m, <2>2 DEF Machines
<1>e. ASSUME NEW again, End(again) PROVE HeldInv'
  BY <1>a, <1>e, <1>m, <1>n, <1>p, EndHeldInv DEF HeldInv, End
<1>1. CASE LeaveAlone
  <2>1. pc = "idle" /\ UNCHANGED <<pc, view, seen, toRead, held, left, since>>
    BY <1>1 DEF LeaveAlone, memory, history
  <2>2. QED BY <1>a, <1>n, <1>p, <2>1 DEF HeldInv
<1>2. CASE Begin
  <2>1. /\ view' = mcache /\ since' = HeldNow /\ UNCHANGED <<seen, held>> /\ pc = "idle"
        /\ pc' \in {"clear", "reject", "rules", "vm"}
    BY <1>2 DEF Begin, Stage
  <2>2. held' = {} BY <2>1 DEF HeldInv
  <2>3. view'.name <= machine'.name BY <1>n, <2>1 DEF HeldInv
  <2>4. /\ \A p \in Live(vm.uid) : HeldBy(p) \subseteq since'[p]
        /\ \A p \in Pods : pods[p].vmi = 0 => since'[p] = {}
    BY <1>h, <2>1 DEF HeldNow, HeldInv, PodsInv, Live
  <2>5. QED BY <1>a, <1>h, <1>n, <1>p, <2>1, <2>2, <2>3, <2>4 DEF HeldInv
<1>3. ASSUME NEW status \in Statuses, NEW next, SetStatus(status, next), pc # "idle",
             next \notin {"rules", "vm", "pods", "claims", "quarantining"},
             next = "ensure" => left \subseteq Candidates(held)
      PROVE  HeldInv'
  <2>1. CASE \E again \in BOOLEAN : End(again) BY <1>e, <2>1
  <2>2. CASE /\ next # "idle" /\ pc' = next /\ view' = [view EXCEPT !.status = status]
             /\ UNCHANGED <<wake, vfresh, seen, toRead, held, devices, left, since>>
    <3>1. view'.name = view.name BY <1>m, <2>2, StatusKeepsRequest
    <3>2. QED BY <1>3, <1>a, <1>n, <2>2, <3>1, GotoHeldInv
  <2>3. QED BY <1>3, <2>1, <2>2, SetStatusPass
<1>4. CASE Clear \/ Reject \/ Replacing
  BY <1>3, <1>4, <1>s DEF Clear, Reject, Replacing
<1>5. CASE Quarantining
  <2>1. left \subseteq Candidates(held) BY <1>5 DEF Quarantining, HeldInv
  <2>2. QED BY <1>3, <1>5, <1>s, <2>1 DEF Quarantining
<1>6. ASSUME Goto(pc'), pc # "idle", UNCHANGED <<seen, held>>, pc' \notin {"idle", "pods", "claims"},
             pc' \in {"rules", "vm"} => held = {},
             pc' \in {"quarantining", "ensure"} => left' \subseteq Candidates(held)
      PROVE  HeldInv'
  BY <1>6, <1>a, <1>n, GotoHeldInv DEF Goto
<1>r. ASSUME Rejected, UNCHANGED machine, pc # "idle" PROVE HeldInv'
  BY <1>a, <1>r, RejectedHeldInv
<1>7. CASE ListRules
  <2>1. CASE Goto("delete") /\ UNCHANGED <<seen, held>>
    <3>1. pc' = "delete" BY <2>1 DEF Goto
    <3>2. QED BY <1>6, <1>7, <2>1, <3>1 DEF ListRules
  <2>2. CASE Goto("vm") /\ UNCHANGED <<seen, held>>
    <3>1. pc' = "vm" /\ held = {} BY <1>7, <2>2 DEF Goto, ListRules, HeldInv
    <3>2. QED BY <1>6, <1>7, <2>2, <3>1 DEF ListRules
  <2>3. QED BY <1>7, <1>e, <2>1, <2>2 DEF ListRules
<1>8. CASE ReadVM
  <2>1. CASE Goto("pods") /\ seen' \in VMI /\ UNCHANGED held
    <3>1. pc' = "pods" /\ UNCHANGED <<view, since>> BY <2>1 DEF Goto
    <3>2. pc # "idle" /\ held = {} BY <1>8 DEF ReadVM, HeldInv
    <3>3. seen'.uid = vm.uid /\ vm.uid # 0 BY <2>1 DEF VMI, HeldInv, PodsInv
    <3>4. seen'.uid <= vm'.uid BY <1>a, <1>m, <3>3
    <3>5. QED BY <1>a, <1>h, <1>n, <1>p, <2>1, <3>1, <3>2, <3>3, <3>4 DEF HeldInv
  <2>2. QED BY <1>8, <1>r, <2>1 DEF ReadVM, Stored
<1>9. CASE ListPods
  <2>1. /\ pc = "pods" /\ pc' = "claims" /\ UNCHANGED <<view, since, seen, held>>
        /\ toRead' = ClaimsOf(seen, pods)
    BY <1>9 DEF ListPods, Goto
  <2>2. \A c \in toRead' : \E p \in Pods : /\ c \in PodClaims[p] /\ pods[p].vmi # 0
                                           /\ p \in Live(vm.uid) /\ p \in GoesBy
    BY <2>1, ListedClaims
  <2>3. \A c \in toRead' : \E p \in Pods : pods'[p].vmi # 0 /\ c \in PodClaims[p]
    BY <1>a, <2>2
  <2>4. ASSUME NEW c \in toRead', machine.name = view.name
        PROVE  Allocated(claim[c]) \subseteq HeldByThese
    <3>1. PICK p \in Pods : c \in PodClaims[p] /\ p \in Live(vm.uid) /\ p \in GoesBy BY <2>2, <2>4
    <3>2. Allocated(claim[c]) \subseteq HeldBy(p) BY <3>1, AllocatedIsHeld
    <3>3. HeldBy(p) \subseteq since[p] BY <2>1, <2>4, <3>1 DEF HeldInv
    <3>4. QED BY <3>1, <3>2, <3>3 DEF HeldByThese
  <2>5. HeldByThese' = HeldByThese BY <1>a, <2>1, HeldByTheseKept
  <2>6. QED BY <1>a, <1>h, <1>n, <1>p, <2>1, <2>3, <2>4, <2>5 DEF HeldInv
<1>10. ASSUME NEW c \in Claims, ReadClaim(c) PROVE HeldInv'
  <2>1. /\ pc = "claims" /\ pc' = "claims" /\ UNCHANGED <<view, since, seen>> /\ toRead' \subseteq toRead
        /\ c \in toRead /\ held' = held \cup Allocated(claim[c])
    BY <1>10 DEF ReadClaim, Goto
  <2>2. machine.name = view.name => held' \subseteq HeldByThese BY <2>1 DEF HeldInv
  <2>3. HeldByThese' = HeldByThese BY <1>a, <2>1, HeldByTheseKept
  <2>4. QED BY <1>a, <1>h, <1>n, <1>p, <2>1, <2>2, <2>3 DEF HeldInv
<1>11. CASE SelectDevices
  <2>1. CASE /\ Goto(IF view.status = "replacing" THEN "ensure" ELSE "quarantining")
             /\ left' = Select(held, Asked) /\ UNCHANGED <<seen, held>>
    <3>1. pc' \in {"ensure", "quarantining"} /\ Goto(pc') BY <2>1 DEF Goto
    <3>2. left' \subseteq Candidates(held) BY <2>1 DEF Select
    <3>3. QED BY <1>6, <1>11, <2>1, <3>1, <3>2 DEF SelectDevices
  <2>2. QED BY <1>11, <1>e, <1>r, <2>1 DEF SelectDevices, Stored
<1>12. ASSUME NEW d \in Devices, Ensure(d) PROVE HeldInv'
  <2>1. pc = "ensure" /\ UNCHANGED machine BY <1>12 DEF Ensure
  <2>2. CASE Done(d, "check", devices)
    <3>1. /\ pc' \in {"ensure", "check"} /\ Goto(pc') /\ UNCHANGED <<seen, held>>
          /\ pc' = "ensure" => left' \subseteq left
      BY <2>1, <2>2 DEF Done, Goto
    <3>2. left \subseteq Candidates(held) BY <2>1 DEF HeldInv
    <3>3. QED BY <1>6, <2>1, <3>1, <3>2
  <2>3. QED BY <1>12, <1>e, <1>r, <2>1, <2>2 DEF Ensure
<1>13. ASSUME NEW d \in Devices, CheckRule(d) PROVE HeldInv'
  <2>1. pc = "check" /\ UNCHANGED machine BY <1>13 DEF CheckRule, Stored
  <2>2. CASE Done(d, IF view.status = "replacing" THEN "delete" ELSE "replacing", {})
    <3>1. pc' \in {"check", "delete", "replacing"} /\ Goto(pc') /\ UNCHANGED <<seen, held>>
      BY <2>1, <2>2 DEF Done, Goto
    <3>2. QED BY <1>6, <2>1, <3>1
  <2>3. QED BY <1>13, <1>e, <1>r, <2>1, <2>2 DEF CheckRule
<1>14. CASE Delete BY <1>14, <1>e DEF Delete
<1>15. QED
  BY <1>1, <1>2, <1>4, <1>5, <1>7, <1>8, <1>9, <1>10, <1>11, <1>12, <1>13, <1>14 DEF Pass

\* A step that gives the virtual machine a pod and remembers what it holds.
LEMMA RememberGrows ==
  ASSUME TypeOK, HeldInv, NEW p \in Unused, Remember(p), UNCHANGED seen,
         \A q \in Pods : q # p => pods'[q].vmi = pods[q].vmi
  PROVE  /\ HeldByThese \subseteq HeldByThese'
         /\ pc # "idle" => HeldBy(p)' \subseteq since'[p]
         /\ \A q \in Pods : q # p => since'[q] = since[q]
<1>1. p \in Pods /\ pods[p].vmi = 0 /\ since \in [Pods -> SUBSET Devices]
  BY UnusedType DEF Unused, TypeOK, HistoryTypeOK
<1>2. since[p] = {} BY <1>1 DEF HeldInv
<1>3. CASE pc = "idle"
  <2>1. UNCHANGED since BY <1>3 DEF Remember
  <2>2. QED BY <1>2, <1>3, <2>1, HeldByTheseGrows
<1>4. CASE pc # "idle"
  <2>1. since' = [since EXCEPT ![p] = @ \cup HeldBy(p)'] BY <1>4 DEF Remember
  <2>2. HeldBy(p)' \subseteq since'[p] /\ \A q \in Pods : q # p => since'[q] = since[q] BY <1>1, <2>1
  <2>3. QED BY <1>2, <2>2, HeldByTheseGrows
<1>5. QED BY <1>3, <1>4

\* The claims that a pass has yet to read stay claims of pods that were used,
\* and what they are allocated anew the new pod of the virtual machine holds.
LEMMA StartKeepsHeldInv ==
  ASSUME TypeOK, TypeOK', HeldInv, NEW p \in Unused, VMStarts(p)
  PROVE  HeldInv'
<1>1. PICK given \in [PodClaims[p] -> Allocations] : StartOn(p, given) BY DEF VMStarts
<1>2. UNCHANGED <<machine, mcache, setting, pc, view, seen, toRead, held, left>> /\ Remember(p)
  BY DEF VMStarts, Stored, fixed, memory
<1>3. /\ PodsInv' /\ vm'.pod = p /\ vm'.uid = vm.uid + 1 /\ pods'[p].vmi = vm.uid + 1
      /\ \A q \in Pods : q # p => pods'[q].vmi = pods[q].vmi
  BY <1>1, <1>2, StartOnPods DEF HeldInv
<1>4. p \in Pods /\ vm.uid \in Nat /\ seen.uid \in Nat /\ \A q \in Pods : pods[q].vmi \in Nat
  BY UnusedType DEF TypeOK, AroundTypeOK, PassTypeOK
<1>5. /\ HeldByThese \subseteq HeldByThese'
      /\ pc # "idle" => HeldBy(p)' \subseteq since'[p]
      /\ \A q \in Pods : q # p => since'[q] = since[q]
  BY <1>2, <1>3, RememberGrows
<1>6. seen'.uid <= vm'.uid /\ seen.uid # vm.uid + 1 BY <1>2, <1>3, <1>4 DEF HeldInv
<1>7. \A q \in Pods : pods'[q].vmi = 0 => since'[q] = {} BY <1>3, <1>4, <1>5 DEF HeldInv
<1>8. ASSUME NEW q \in Live(vm.uid)' PROVE q = p
  <2>1. q \in Pods /\ pods'[q].vmi = vm.uid + 1 BY <1>3, <1>8 DEF Live
  <2>2. pods[q].vmi <= vm.uid BY <2>1 DEF HeldInv, PodsInv
  <2>3. QED BY <1>3, <1>4, <2>1, <2>2
<1>9. ASSUME pc = "claims", NEW c \in toRead
      PROVE  \E q \in Pods : pods'[q].vmi # 0 /\ c \in PodClaims[q]
  <2>1. PICK q \in Pods : pods[q].vmi # 0 /\ c \in PodClaims[q] BY <1>9 DEF HeldInv
  <2>2. q # p BY <2>1 DEF Unused
  <2>3. QED BY <1>3, <2>1, <2>2
<1>10. ASSUME pc = "claims", machine.name = view.name, NEW c \in toRead
       PROVE  Allocated(claim'[c]) \subseteq HeldByThese'
  <2>1. c \in Claims /\ Allocated(claim[c]) \subseteq HeldByThese BY <1>10 DEF HeldInv, TypeOK, PassTypeOK
  <2>2. CASE c \in PodClaims[p]
    <3>1. Allocated(claim'[c]) \subseteq HeldBy(p)'
      <4>1. claim'[c] \subseteq Results BY <2>1 DEF TypeOK, AroundTypeOK
      <4>2. ASSUME NEW res \in claim'[c], ~res.admin PROVE res.device \in HeldBy(p)'
        <5>1. res \in Results BY <4>1
        <5>2. res = [device |-> res.device, admin |-> FALSE] /\ res.device \in Devices
          BY <4>2, <5>1 DEF Results
        <5>3. QED BY <2>2, <5>2 DEF HeldBy
      <4>3. QED BY <4>2 DEF Allocated
    <3>2. p \in GoesBy' BY <1>2, <1>3, <1>4, <1>6 DEF GoesBy
    <3>3. since'[p] \subseteq HeldByThese' BY <3>2 DEF HeldByThese
    <3>4. QED BY <1>5, <1>10, <3>1, <3>3
  <2>3. CASE c \notin PodClaims[p]
    <3>1. claim'[c] \in {{}, claim[c]} BY <1>1, <2>1, <2>3 DEF StartOn, Reallocated
    <3>2. Allocated({}) = {} BY DEF Allocated
    <3>3. QED BY <1>5, <2>1, <3>1, <3>2
  <2>4. QED BY <2>2, <2>3
<1>11. pc # "idle" /\ machine.name = view.name =>
         held \subseteq HeldByThese' /\ \A q \in Live(vm.uid)' : HeldBy(q)' \subseteq since'[q]
  BY <1>5, <1>8 DEF HeldInv
<1>12. QED BY <1>2, <1>3, <1>6, <1>7, <1>9, <1>10, <1>11 DEF HeldInv

\* A migration starts with claims that no pod used before, for a claim of two
\* pods is a claim of the one that the virtual machine runs in.
LEMMA MigrationStartKeepsHeldInv ==
  ASSUME TypeOK, HeldInv, NEW p \in Unused, MigrationStarts(p)
  PROVE  HeldInv'
<1>1. /\ UNCHANGED <<machine, mcache, setting, vm, pc, view, seen, toRead, held, left>>
      /\ PodClaims[p] \cap PodClaims[vm.pod] = {} /\ Live(vm.uid) = {vm.pod} /\ Remember(p)
  BY DEF MigrationStarts, Stored, fixed, memory
<1>2. PICK given \in [PodClaims[p] -> Allocations] : claim' = Reallocated({}, given)
  BY DEF MigrationStarts
<1>3. PodsInv' /\ \A q \in Pods : q # p => pods'[q] = pods[q]
  BY MigrationStartsPods DEF HeldInv
<1>4. p \in Pods /\ pods[p].vmi = 0 /\ pods'[p].vmi # 0
  <2>1. p \in Pods /\ pods[p].vmi = 0 BY UnusedType DEF Unused
  <2>2. pods' = [pods EXCEPT ![p] = [vmi |-> vm.uid, over |-> FALSE]] BY DEF MigrationStarts
  <2>3. pods'[p].vmi = vm.uid BY <2>1, <2>2 DEF TypeOK, AroundTypeOK
  <2>4. QED BY <2>1, <2>3 DEF HeldInv, PodsInv
<1>5. vm.pod \in Pods /\ PodClaims[vm.pod] \subseteq Claims
  BY DevicesAssumption DEF TypeOK, AroundTypeOK
<1>6. ASSUME NEW c \in Claims, c \notin PodClaims[p] PROVE claim'[c] = claim[c]
  BY <1>2, <1>6 DEF Reallocated
<1>7. HeldBy(vm.pod)' = HeldBy(vm.pod)
  <2>1. \A c \in PodClaims[vm.pod] : claim'[c] = claim[c] BY <1>1, <1>5, <1>6
  <2>2. QED BY <1>1, <2>1 DEF HeldBy
<1>8. ASSUME NEW q \in Pods, pods[q].vmi # 0 PROVE PodClaims[p] \cap PodClaims[q] = {}
  <2>1. q \in LauncherPods /\ vm.pod \in LauncherPods BY <1>8 DEF HeldInv, PodsInv
  <2>2. p \in LauncherPods /\ p # q BY <1>8 DEF Unused
  <2>3. PodClaims[p] \cap PodClaims[q] \subseteq PodClaims[vm.pod]
    BY <2>1, <2>2, SettingType DEF TypeOK, AroundTypeOK
  <2>4. QED BY <1>1, <2>3
<1>9. /\ HeldByThese \subseteq HeldByThese'
      /\ pc # "idle" => HeldBy(p)' \subseteq since'[p]
      /\ \A q \in Pods : q # p => since'[q] = since[q]
  BY <1>1, <1>3, RememberGrows
<1>10. \A q \in Pods : pods'[q].vmi = 0 => since'[q] = {} BY <1>3, <1>4, <1>9 DEF HeldInv
<1>11. ASSUME pc # "idle", machine.name = view.name, NEW q \in Live(vm.uid)'
       PROVE  HeldBy(q)' \subseteq since'[q]
  <2>1. CASE q = p BY <1>9, <1>11, <2>1
  <2>2. CASE q # p
    <3>1. q \in Live(vm.uid) BY <1>1, <1>3, <1>11, <2>2 DEF Live
    <3>2. q = vm.pod /\ HeldBy(vm.pod) \subseteq since[vm.pod] BY <1>1, <1>11, <3>1 DEF HeldInv
    <3>3. HeldBy(q)' = HeldBy(vm.pod)' BY <1>1, <3>2 DEF HeldBy
    <3>4. QED BY <1>5, <1>7, <1>9, <2>2, <3>2, <3>3
  <2>3. QED BY <2>1, <2>2
<1>12. ASSUME pc = "claims", NEW c \in toRead
       PROVE  /\ \E q \in Pods : pods'[q].vmi # 0 /\ c \in PodClaims[q]
              /\ claim'[c] = claim[c]
  <2>1. PICK q \in Pods : pods[q].vmi # 0 /\ c \in PodClaims[q] BY <1>12 DEF HeldInv
  <2>2. pods'[q].vmi # 0 BY <1>3, <1>4, <2>1
  <2>3. c \in Claims /\ c \notin PodClaims[p] BY <1>8, <1>12, <2>1 DEF TypeOK, PassTypeOK
  <2>4. QED BY <1>6, <2>1, <2>2, <2>3
<1>13. pc # "idle" /\ machine.name = view.name =>
         /\ held \subseteq HeldByThese'
         /\ pc = "claims" => \A c \in toRead : Allocated(claim'[c]) \subseteq HeldByThese'
  BY <1>9, <1>12 DEF HeldInv
<1>14. QED BY <1>1, <1>3, <1>10, <1>11, <1>12, <1>13 DEF HeldInv

LEMMA MigrationEndKeepsHeldInv ==
  ASSUME TypeOK, HeldInv, NEW p \in Live(vm.uid), MigrationEnds(p)
  PROVE  HeldInv'
<1>1. UNCHANGED <<machine, mcache, setting, pc, view, seen, toRead, held, left, since>>
  BY DEF MigrationEnds, Stored, fixed, memory, history
<1>2. PICK gone \in {p, vm.pod} : claim' = Reallocated(PodClaims[gone], << >>) BY DEF MigrationEnds
<1>3. /\ PodsInv' /\ vm'.uid = vm.uid
      /\ \A q \in Pods : pods'[q].vmi = pods[q].vmi /\ (pods[q].over => pods'[q].over)
  BY MigrationEndsPods DEF HeldInv
<1>4. ASSUME NEW c \in Claims PROVE claim'[c] \subseteq claim[c]
  <2>1. DOMAIN << >> = {} OBVIOUS
  <2>2. QED BY <1>2, <2>1 DEF Reallocated
<1>5. ASSUME NEW q \in Live(vm.uid)' PROVE q \in Live(vm.uid) /\ HeldBy(q)' \subseteq HeldBy(q)
  <2>1. q \in Pods /\ q \in Live(vm.uid) BY <1>3, <1>5 DEF Live
  <2>2. PodClaims[q] \subseteq Claims BY <2>1, DevicesAssumption
  <2>3. QED BY <1>4, <2>1, <2>2 DEF HeldBy
<1>6. HeldByThese \subseteq HeldByThese' BY <1>1, <1>3, HeldByTheseGrows
<1>7. ASSUME pc = "claims", NEW c \in toRead
      PROVE  /\ \E q \in Pods : pods'[q].vmi # 0 /\ c \in PodClaims[q]
             /\ Allocated(claim'[c]) \subseteq Allocated(claim[c])
  <2>1. c \in Claims BY <1>7 DEF TypeOK, PassTypeOK
  <2>2. Allocated(claim'[c]) \subseteq Allocated(claim[c]) BY <1>4, <2>1 DEF Allocated
  <2>3. QED BY <1>3, <1>7, <2>2 DEF HeldInv
<1>8. pc # "idle" /\ machine.name = view.name =>
        /\ \A q \in Live(vm.uid)' : HeldBy(q)' \subseteq since[q]
        /\ held \subseteq HeldByThese'
        /\ pc = "claims" => \A c \in toRead : Allocated(claim'[c]) \subseteq HeldByThese'
  BY <1>5, <1>6, <1>7 DEF HeldInv
<1>9. seen'.uid <= vm'.uid /\ \A q \in Pods : pods'[q].vmi = 0 => since'[q] = {}
  BY <1>1, <1>3 DEF HeldInv
<1>10. QED BY <1>1, <1>3, <1>7, <1>8, <1>9 DEF HeldInv

LEMMA OthersKeepHeldInv ==
  ASSUME TypeOK, TypeOK', PassInv, HeldInv, [Next]_vars, ~Pass
  PROVE  HeldInv'
<1>m. machine \in Machines /\ machine.name \in Nat /\ view.name \in Nat /\ vm.uid \in Nat
  BY DEF TypeOK, StoredTypeOK, PassTypeOK, AroundTypeOK, Machines
<1>1. ASSUME UNCHANGED <<setting, pods, claim, mcache, pc, view, seen, toRead, held, left, since>>,
             vm'.uid = vm.uid, vm'.pod = vm.pod, machine'.name = machine.name
      PROVE  HeldInv'
  <2>1. PodsInv' BY <1>1, PodsInvKept DEF HeldInv
  <2>2. HeldByThese' = HeldByThese BY <1>1, HeldByTheseKept
  <2>3. /\ Live(vm.uid)' = Live(vm.uid) /\ \A p \in Live(vm.uid) : p \in Pods
        /\ \A p \in Pods : HeldBy(p)' = HeldBy(p)
    BY <1>1, LiveKept DEF Live
  <2>4. QED BY <1>1, <2>1, <2>2, <2>3 DEF HeldInv
<1>2. CASE CallFails
  <2>1. PICK call : Fails(call) BY <1>2 DEF CallFails
  <2>2. UNCHANGED <<Stored, Around>> /\ (Rejected \/ End(TRUE)) BY <2>1 DEF Fails
  <2>3. UNCHANGED <<machine, mcache, setting, vm, pods, claim>> BY <2>2 DEF Stored, Around, world, fixed
  <2>4. PodsInv' BY <2>3, PodsInvKept DEF HeldInv
  <2>5. pc # "idle" BY <1>2 DEF CallFails
  <2>6. CASE Rejected BY <2>2, <2>3, <2>5, <2>6, RejectedHeldInv
  <2>7. CASE End(TRUE) BY <1>m, <2>3, <2>4, <2>7, EndHeldInv DEF HeldInv, End
  <2>8. QED BY <2>2, <2>6, <2>7
<1>3. CASE SyncMachine
  <2>1. UNCHANGED <<machine, Around, memory, since>> /\ mcache' = machine BY <1>3 DEF SyncMachine, history
  <2>2. UNCHANGED <<setting, vm, pods, claim, pc, view, seen, toRead, held, left>>
    BY <2>1 DEF Around, world, fixed, memory
  <2>3. PodsInv' BY <2>2, PodsInvKept DEF HeldInv
  <2>4. HeldByThese' = HeldByThese BY <2>1, <2>2, HeldByTheseKept
  <2>5. /\ Live(vm.uid)' = Live(vm.uid) /\ \A p \in Live(vm.uid) : p \in Pods
        /\ \A p \in Pods : HeldBy(p)' = HeldBy(p)
    BY <2>2, LiveKept DEF Live
  <2>6. mcache'.name <= machine'.name BY <1>m, <2>1
  <2>7. QED BY <2>1, <2>2, <2>3, <2>4, <2>5, <2>6 DEF HeldInv
<1>4. CASE Crash
  <2>1. /\ UNCHANGED <<machine, Around>> /\ mcache' = machine /\ pc' = "idle" /\ held' = {}
        /\ view' = NoMachine /\ seen' = NoVMI /\ since' = NothingHeld
    BY <1>4 DEF Crash
  <2>2. UNCHANGED <<setting, vm, pods>> BY <2>1 DEF Around, world, fixed
  <2>3. PodsInv' BY <2>2, PodsInvKept DEF HeldInv
  <2>4. mcache'.name <= machine'.name BY <1>m, <2>1
  <2>5. QED BY <1>m, <2>1, <2>2, <2>3, <2>4, EndHeldInv
<1>5. ASSUME NEW m, MachineEdit, Save(m), m.name = machine.name PROVE HeldInv'
  <2>1. UNCHANGED <<setting, vm, pods, claim, mcache, pc, view, seen, toRead, held, left, since>>
    BY <1>5 DEF MachineEdit, Edit, world, fixed
  <2>2. machine'.name = machine.name BY <1>5 DEF Save
  <2>3. QED BY <1>1, <2>1, <2>2
<1>6. CASE \/ \E request \in Requests \cup {NoRequest} : EditRequest(request)
           \/ \E status \in {"none", "replacing"} : EditStatus(status)
           \/ \E bar \in Toggles : Toggle(bar)
           \/ UserDeletes
  <2>1. /\ \A request : [machine EXCEPT !.request = request].name = machine.name
        /\ \A status : [machine EXCEPT !.status = status].name = machine.name
        /\ \A bars : [machine EXCEPT !.bars = bars].name = machine.name
        /\ [machine EXCEPT !.deleting = TRUE].name = machine.name
    BY <1>m DEF Machines
  <2>2. CASE \E request \in Requests \cup {NoRequest} : EditRequest(request)
    BY <1>5, <2>1, <2>2 DEF EditRequest
  <2>3. CASE \E status \in {"none", "replacing"} : EditStatus(status)
    BY <1>5, <2>1, <2>3 DEF EditStatus
  <2>4. CASE \E bar \in Toggles : Toggle(bar) BY <1>5, <2>1, <2>4 DEF Toggle
  <2>5. CASE UserDeletes BY <1>5, <2>1, <2>5 DEF UserDeletes
  <2>6. QED BY <1>6, <2>2, <2>3, <2>4, <2>5
<1>7. CASE \/ \E d \in Devices : LiftRule(d)
           \/ \E state \in ClusterStates : ClusterChanges(state)
  <2>1. UNCHANGED <<setting, vm, pods, claim, machine, mcache, pc, view, seen, toRead, held, left, since>>
    BY <1>7 DEF LiftRule, ClusterChanges, Edit, Stored, world, fixed, memory, history
  <2>2. QED BY <1>1, <2>1
<1>8. CASE VMStops \/ VMRuns
  <2>1. UNCHANGED <<setting, pods, claim, machine, mcache, pc, view, seen, toRead, held, left, since>>
    BY <1>8 DEF VMStops, VMRuns, Stored, fixed, memory, history
  <2>2. vm'.uid = vm.uid /\ vm'.pod = vm.pod BY <1>8 DEF VMStops, VMRuns, TypeOK, AroundTypeOK
  <2>3. QED BY <1>1, <2>1, <2>2
<1>9. ASSUME NEW p \in Unused, Replaced(p) PROVE HeldInv'
  <2>1. PICK given \in [PodClaims[p] -> Allocations] : StartOn(p, given) BY <1>9 DEF Replaced
  <2>2. /\ UNCHANGED <<mcache, setting, pc, view, seen, toRead, held, left, since>>
        /\ machine' = NewMachine(machine.name + 1, {})
    BY <1>9 DEF Replaced, fixed
  <2>3. /\ PodsInv' /\ vm'.pod = p /\ vm'.uid = vm.uid + 1 /\ pods'[p].vmi = vm.uid + 1
        /\ \A q \in Pods : q # p => pods'[q].vmi = pods[q].vmi
    BY <2>1, <2>2, StartOnPods DEF HeldInv
  <2>4. p \in Pods /\ seen.uid \in Nat /\ mcache.name \in Nat
    BY UnusedType DEF TypeOK, StoredTypeOK, PassTypeOK, Machines
  <2>5. machine'.name = machine.name + 1 BY <2>2 DEF NewMachine, NoMachine
  <2>6. mcache'.name <= machine'.name /\ view'.name < machine'.name BY <1>m, <2>2, <2>4, <2>5 DEF HeldInv
  <2>7. view'.name # machine'.name /\ view'.name <= machine'.name BY <1>m, <2>2, <2>5, <2>6
  <2>8. ASSUME pc = "claims", NEW c \in toRead
        PROVE  \E q \in Pods : pods'[q].vmi # 0 /\ c \in PodClaims[q]
    <3>1. PICK q \in Pods : pods[q].vmi # 0 /\ c \in PodClaims[q] BY <2>8 DEF HeldInv
    <3>2. q # p BY <3>1 DEF Unused
    <3>3. QED BY <2>3, <3>1, <3>2
  <2>9. seen'.uid <= vm'.uid BY <1>m, <2>2, <2>3, <2>4 DEF HeldInv
  <2>10. \A q \in Pods : pods'[q].vmi = 0 => since'[q] = {} BY <1>m, <2>2, <2>3, <2>4 DEF HeldInv
  <2>11. QED BY <2>2, <2>3, <2>6, <2>7, <2>8, <2>9, <2>10 DEF HeldInv
<1>10. CASE UNCHANGED vars
  <2>1. UNCHANGED <<setting, vm, pods, claim, machine, mcache, pc, view, seen, toRead, held, left, since>>
    BY <1>10 DEF vars, world, fixed, memory, history
  <2>2. QED BY <1>1, <2>1
<1>11. QED
  BY <1>2, <1>3, <1>4, <1>6, <1>7, <1>8, <1>9, <1>10, StartKeepsHeldInv, MigrationStartKeepsHeldInv,
     MigrationEndKeepsHeldInv DEF Next

LEMMA InitHeldInv ==
  ASSUME Init PROVE HeldInv
<1>1. TypeOK BY InitType
<1>2. PICK p \in LauncherPods :
        /\ vm = [uid |-> 1, phase |-> "Running", pod |-> p]
        /\ pods = [q \in Pods |-> [vmi |-> IF q = p THEN 1 ELSE 0, over |-> FALSE]]
  BY DEF Init
<1>3. p \in Pods BY <1>1, SettingType DEF TypeOK, AroundTypeOK
<1>4. vm.uid = 1 /\ vm.pod = p /\ pods[p] = [vmi |-> 1, over |-> FALSE] BY <1>2, <1>3
<1>5. \A q \in Pods : q # p => pods[q].vmi = 0 BY <1>2
<1>6. PodsInv BY <1>3, <1>4, <1>5 DEF PodsInv
<1>7. seen.uid <= vm.uid /\ \A q \in Pods : since[q] = {} BY <1>4 DEF Init, NoVMI, NothingHeld
<1>8. mcache = machine /\ machine.name \in Nat /\ view.name = 0
  BY <1>1 DEF Init, TypeOK, StoredTypeOK, Machines, NoMachine
<1>9. QED BY <1>6, <1>7, <1>8 DEF Init, HeldInv

\* What the locator read is of pods of the Machine's own virtual machine that
\* the pass goes by, and rules are made for what it found only, however the
\* virtual machine restarts or migrates between two reads and whichever of
\* its pods the VMI lists (KubeVirtLocator.Devices, claimsOf, Select).
THEOREM LocatorFindsItsOwn == Spec => []HeldInv
<1>1. Init => HeldInv BY InitHeldInv
<1>2. TypeOK /\ TypeOK' /\ PassInv /\ HeldInv /\ [Next]_vars => HeldInv'
  BY PassKeepsHeldInv, OthersKeepHeldInv
<1>3. QED BY <1>1, <1>2, TypeCorrect, PassesGoByWhatIsStored, PTL DEF Spec

LEMMA QuarantiningStep ==
  ASSUME TypeOK, HeldInv, [Next]_vars, NEW d \in Devices, rules'[d].there, ~rules[d].there
  PROVE  DriverOf[d] \in Drivers /\ (machine.name = view.name => d \in HeldByThese)
<1>1. CASE UNCHANGED rules BY <1>1
<1>2. ASSUME NEW e \in Devices, Ensure(e)
      PROVE  DriverOf[d] \in Drivers /\ (machine.name = view.name => d \in HeldByThese)
  <2>1. pc = "ensure" /\ e \in left /\ rules' \in {rules, [rules EXCEPT ![e] = RuleFor(view.name)]}
    BY <1>2 DEF Ensure
  <2>2. d = e BY <2>1 DEF TypeOK, StoredTypeOK
  <2>3. d \in Candidates(held) /\ (machine.name = view.name => held \subseteq HeldByThese)
    BY <2>1, <2>2 DEF HeldInv
  <2>4. QED BY <2>3 DEF Candidates
<1>3. ASSUME NEW e \in Devices, LiftRule(e) PROVE FALSE
  <2>1. PICK rule \in {NoRule, [rules[e] EXCEPT !.blocks = FALSE]} : rules' = [rules EXCEPT ![e] = rule]
    BY <1>3 DEF LiftRule
  <2>2. rules \in [Devices -> [there: BOOLEAN, blocks: BOOLEAN, owner: Nat]] BY DEF TypeOK, StoredTypeOK
  <2>3. rules[e] \in [there: BOOLEAN, blocks: BOOLEAN, owner: Nat] BY <2>2
  <2>4. rule.there => rules[e].there BY <2>1, <2>3 DEF NoRule
  <2>5. d = e BY <2>1, <2>2
  <2>6. QED BY <2>1, <2>2, <2>4, <2>5
<1>4. CASE Pass
  <2>1. CASE \E e \in Devices : Ensure(e) BY <1>2, <2>1
  <2>2. CASE ~ \E e \in Devices : Ensure(e)
    BY <1>1, <1>4, <2>2
       DEF Pass, LeaveAlone, Begin, Clear, Reject, ListRules, ReadVM, ListPods, ReadClaim, SelectDevices,
           Quarantining, CheckRule, Replacing, Delete, SetStatus, Stored
  <2>3. QED BY <2>1, <2>2
<1>5. CASE CallFails \/ SyncMachine \/ Crash
  BY <1>1, <1>5 DEF CallFails, Fails, SyncMachine, Crash, Stored
<1>6. CASE ~(Pass \/ CallFails \/ SyncMachine \/ Crash) /\ ~ \E e \in Devices : LiftRule(e)
  BY <1>1, <1>6
     DEF Next, EditRequest, EditStatus, Toggle, UserDeletes, MachineEdit, ClusterChanges, VMStops, VMRuns,
         VMStarts, MigrationStarts, MigrationEnds, Replaced, Stored, vars
<1>7. QED BY <1>3, <1>4, <1>5, <1>6

\* A rule is made only for a device of the configured drivers that a pod of
\* the Machine's virtual machine was allocated while its request was carried
\* out, a migration's target included: one that the VMI lists as active or,
\* when it lists none, any.  No other tenant's device is taken out of service
\* (KubeVirtLocator.Devices, claimsOf, Select).
THEOREM QuarantinesItsOwn == Spec => OnlyHeldQuarantined
<1>1. TypeOK /\ HeldInv /\ [Next]_vars
        => [\A d \in Devices : rules'[d].there /\ ~rules[d].there =>
              /\ DriverOf[d] \in Drivers
              /\ machine.name = view.name => d \in HeldByThese]_vars
  BY QuarantiningStep
<1>2. QED BY <1>1, TypeCorrect, LocatorFindsItsOwn, PTL DEF Spec, OnlyHeldQuarantined

=============================================================================
