----------------------------- MODULE Quarantine -----------------------------
(***************************************************************************)
(* MachineQuarantineReconciler: carrying out a request to replace one      *)
(* Machine once the devices that its virtual machine holds are excluded.   *)
(*                                                                         *)
(* A pass reads the Machine and its Cluster from the manager's cache and   *)
(* then does at most one call to the API server per step.  Between two     *)
(* steps users edit the Machine or the rules, the virtual machine restarts *)
(* or migrates, the cache catches up and the operator may stop.  The queue *)
(* keeps the Machine at most once and never gives it to two workers.       *)
(***************************************************************************)
EXTENDS DeviceSelection

CONSTANT Settings   \* the circumstances that a behaviour may have

Reads  == {"list", "vm", "pods", "claim", "check"}
Writes == {"status", "create", "delete"}

ASSUME QuarantineAssumption == \A s \in Settings :
  /\ s.Requests \subseteq RequestValues
  /\ s.DryRun \in BOOLEAN /\ s.Lag \in BOOLEAN
  /\ s.Infras \subseteq Infrastructures
  /\ s.Bars \subseteq {"controlPlane", "marked", "paused", "optedOut", "unowned"}
  /\ s.Toggles \subseteq {"marked", "paused", "optedOut"}
  /\ s.ClusterStates \subseteq {"ready", "paused", "unwatched"}
  /\ s.FirstRules \subseteq [Devices -> [there: BOOLEAN, blocks: BOOLEAN, owner: Nat]]
  /\ s.Allocations \subseteq SUBSET Results
  /\ s.Failing \subseteq Reads \cup Writes /\ s.Lost \subseteq Writes
  /\ s.Refused \subseteq (Reads \cup Writes) \ {"status"}
  /\ {s.MaxFaults, s.MaxEdits, s.MaxMachines} \subseteq Nat
  /\ s.LauncherPods \subseteq Pods
  \* A claim is named by the template of the virtual machine, and then by
  \* every pod of it, or was made for one pod.
  /\ \A p, q, r \in s.LauncherPods : p # q => PodClaims[p] \cap PodClaims[q] \subseteq PodClaims[r]

VARIABLES
  setting,   \* one of the Settings; it does not change
  machine,   \* the Machine, as stored
  mcache,    \* the manager's copy of it
  unseen,    \* what the manager has yet to see of it: nothing, a change of
             \* its request or status, or only other changes
  cluster,   \* its Cluster, as the manager's cache has it
  infra,     \* its infrastructure objects
  vm,        \* its virtual machine
  pods,      \* the virt-launcher pods
  claim,     \* what each ResourceClaim is allocated
  rules,     \* the rule of each device
  wake,      \* the Machine is queued
  pc,        \* where the pass is
  view,      \* the Machine as the pass has it
  vfresh,    \* that is the stored version
  seen,      \* the VMI as the pass read it
  toRead,    \* claims yet to read
  held,      \* devices found on the claims read
  devices,   \* the devices of the request
  left,      \* those yet to ensure or to check
  faults, edits,
  since,     \* history: what each pod of the virtual machine held since the pass began
  promised,  \* history: the devices with which Machines were deleted
  lifted,    \* history: the devices whose rule was taken away
  settled    \* history: the rules were made for the request that the Machine
             \* has, and nobody touched request, status or rules since

fixed    == <<setting, infra>>
world    == <<fixed, vm, pods, claim>>
memory   == <<pc, view, vfresh, seen, toRead, held, devices, left>>
history  == <<since, promised, lifted, settled>>
vars == <<machine, mcache, unseen, cluster, world, rules, wake, memory, faults, edits, history>>

-----------------------------------------------------------------------------
(* The setting: how the operator was started, what the clusters hold, what may
   go wrong, and bounds. *)

Requests      == setting.Requests      \* the values that users give the replace annotation
DryRun        == setting.DryRun
Infras        == setting.Infras        \* the infrastructure a Machine may have
Bars          == setting.Bars          \* what may bar a Machine from being replaced at first
Toggles       == setting.Toggles       \* what users put on a Machine and take off again
ClusterStates == setting.ClusterStates
FirstRules    == setting.FirstRules    \* the rules that may be there before any request
Allocations   == setting.Allocations   \* what the scheduler may allocate to a claim
LauncherPods  == setting.LauncherPods  \* the pods there may be
Lag           == setting.Lag           \* a pass may begin on an old copy of the Machine
Failing       == setting.Failing       \* calls that may fail for a while
Refused       == setting.Refused       \* calls that may be forbidden, or whose kind is not served
Lost          == setting.Lost          \* writes whose answer may be lost
MaxFaults     == setting.MaxFaults     \* bound on crashes, failed calls and lost answers
MaxEdits      == setting.MaxEdits      \* bound on what users do
MaxMachines   == setting.MaxMachines   \* bound on replacements

-----------------------------------------------------------------------------
(* What the objects hold. *)

NoRequest == [form |-> "none", list |-> << >>]

Statuses == {"none", "quarantining", "replacing", "rejected"}

\* A Machine: its name, the two annotations and what bars it from being
\* replaced.
Machines ==
  [name: Nat, deleting: BOOLEAN, request: Requests \cup {NoRequest}, status: Statuses,
   bars: SUBSET (Bars \cup Toggles)]

NoMachine == [name |-> 0, deleting |-> FALSE, request |-> NoRequest, status |-> "none", bars |-> {}]

NewMachine(name, bars) == [NoMachine EXCEPT !.name = name, !.bars = bars]

NoVMI == [uid |-> 0, active |-> {}]

\* The VMI as a read may find it: it lists any of its pods as active, the two
\* of a migration or one that ended among them, or none.
VMI == [uid: {vm.uid}, active: SUBSET {p \in Pods : pods[p].vmi = vm.uid}]

Live(uid) == {p \in Pods : pods[p].vmi = uid /\ ~pods[p].over}

\* The devices allocated to a pod, of any driver, and those that the virtual
\* machine holds.
HeldBy(p) == {d \in Devices : \E c \in PodClaims[p] : [device |-> d, admin |-> FALSE] \in claim[c]}
Held      == HeldBy(vm.pod)

\* The history of what the pods held.
NothingHeld == [p \in Pods |-> {}]
HeldNow     == [p \in Pods |-> IF p \in Live(vm.uid) THEN HeldBy(p) ELSE {}]
Remember(p) == since' = IF pc = "idle" THEN since ELSE [since EXCEPT ![p] = @ \cup HeldBy(p)']

IsRejected(status) == status = "rejected"

\* guardReplace finds a reason; the guards come from the Cluster and the
\* Machine alone.
GuardReplace(c, m) == c = "paused" \/ m.bars # {}

\* replaceRequestChanged, for a Machine first seen and for one that changed.
FirstSeen(m) == m.request # NoRequest \/ m.status # "none"

\* A slip: only a request that is there wakes the controller.
RequestSet(old, new) == new.request # NoRequest /\ (old.request # new.request \/ old.status # new.status)

RequestChanged(old, new) == old.request # new.request \/ old.status # new.status

-----------------------------------------------------------------------------
(* The operator. *)

\* The manager's copy is of the stored version.
Fresh == unseen = "nothing"

\* The Machine is stored as m.  The watch delivers every version, so a change
\* that is undone before the manager sees the last one still counts.
Save(m) ==
  /\ machine' = m
  /\ unseen' = IF unseen = "request" \/ RequestChanged(machine, m) THEN "request" ELSE "other"

\* The pass is over; the queue has the Machine again when it is to be retried
\* (an error, a conflict) or was queued meanwhile.
End(again) ==
  /\ pc' = "idle" /\ view' = NoMachine /\ vfresh' = FALSE /\ seen' = NoVMI
  /\ toRead' = {} /\ held' = {} /\ devices' = {} /\ left' = {}
  /\ since' = NothingHeld
  /\ wake' = (wake \/ again)

Goto(stage) == pc' = stage /\ UNCHANGED <<wake, view, vfresh, since>>

Stored  == <<machine, mcache, unseen, rules>>
Around  == <<cluster, world, edits>>
Promises == <<promised, lifted, settled>>

\* A slip: a dry run records the rejection.
RejectAlways == Goto("reject") /\ UNCHANGED <<seen, toRead, held, devices, left>>

\* reject: a dry run only says so, otherwise the status is written next.
Rejected ==
  \/ DryRun /\ End(FALSE)
  \/ ~DryRun /\ Goto("reject") /\ UNCHANGED <<seen, toRead, held, devices, left>>

\* A call that fails, or is not allowed, and changes nothing.
Fails(call) ==
  /\ UNCHANGED <<Stored, Around, Promises>>
  /\ \/ call \in Failing /\ faults < MaxFaults /\ faults' = faults + 1 /\ End(TRUE)
     \/ call \in Refused /\ UNCHANGED faults /\ Rejected

\* setStatus, and the pass goes on at `next': nothing to write, the write, a
\* conflict, an error, and a write whose answer is lost.
SetStatus(status, next) ==
  LET Proceed(m) == \/ next = "idle" /\ End(FALSE)
                    \/ next # "idle" /\ pc' = next /\ view' = m
                       /\ UNCHANGED <<wake, vfresh, seen, toRead, held, devices, left, since>>
      Write      == Save([machine EXCEPT !.status = status])
  IN
  /\ UNCHANGED <<mcache, rules, Around, promised, lifted>>
  /\ \/ view.status = status /\ Proceed(view) /\ UNCHANGED <<machine, unseen, faults>>
     \/ view.status # status /\ vfresh /\ Write /\ Proceed(machine') /\ UNCHANGED faults
     \/ view.status # status /\ ~vfresh /\ End(TRUE) /\ UNCHANGED <<machine, unseen, faults>>
     \/ /\ view.status # status /\ "status" \in Failing /\ faults < MaxFaults
        /\ faults' = faults + 1 /\ End(TRUE) /\ UNCHANGED <<machine, unseen>>
     \/ /\ view.status # status /\ vfresh /\ "status" \in Lost /\ faults < MaxFaults
        /\ faults' = faults + 1 /\ Write /\ End(TRUE)

\* Where the pass begins for a Machine as read: `replace' up to its first
\* call outside the cache.
Stage(c, m) ==
  IF m.deleting THEN "idle"
  ELSE IF m.request = NoRequest
       THEN IF m.status = "none" \/ DryRun THEN "idle" ELSE "clear"
  ELSE IF IsRejected(m.status) \/ c = "unwatched" THEN "idle"
  ELSE IF GuardReplace(c, m) \/ ~ParseOK(m.request)
       THEN IF DryRun THEN "idle" ELSE "reject"
  ELSE IF m.status = "replacing" THEN "rules" ELSE "vm"

\* Reconcile finds nothing to do, or the Machine gone.
LeaveAlone ==
  /\ pc = "idle" /\ wake /\ (Lag \/ Fresh)
  /\ Stage(cluster, mcache) = "idle"
  /\ wake' = FALSE
  /\ UNCHANGED <<Stored, Around, memory, faults, history>>

\* Reconcile begins on a request or on the status of one withdrawn.
Begin ==
  /\ pc = "idle" /\ wake /\ (Lag \/ Fresh)
  /\ Stage(cluster, mcache) # "idle"
  /\ wake' = FALSE
  /\ pc' = Stage(cluster, mcache) /\ view' = mcache /\ vfresh' = Fresh
  /\ since' = HeldNow
  /\ UNCHANGED <<Stored, Around, seen, toRead, held, devices, left, faults, Promises>>

\* A slip: the status is left empty, not removed.
ClearToEmpty == pc = "clear" /\ SetStatus("", "idle") /\ UNCHANGED settled

\* The request was withdrawn; its status goes with it.
Clear == pc = "clear" /\ SetStatus("none", "idle") /\ UNCHANGED settled

\* The status says that the request was rejected.
Reject == pc = "reject" /\ SetStatus("rejected", "idle") /\ UNCHANGED settled

Asked == ParseRequest(view.request)

\* A slip: the devices of a request picked up again are looked up afresh.
LookAgain ==
  /\ pc = "rules" /\ Goto("vm")
  /\ UNCHANGED <<Stored, Around, seen, toRead, held, devices, left, faults, Promises>>

\* A request found replacing: the rules made for the Machine cover it, and
\* the deletion is next, or it is carried out again.
ListRules ==
  /\ pc = "rules"
  /\ LET made == Of(rules, view.name) IN
     \/ Covers(made, Asked) /\ DryRun /\ End(FALSE)
     \/ /\ Covers(made, Asked) /\ ~DryRun /\ Goto("delete")
        /\ devices' = made /\ UNCHANGED <<seen, toRead, held, left>>
     \/ ~Covers(made, Asked) /\ Goto("vm") /\ UNCHANGED <<seen, toRead, held, devices, left>>
  /\ UNCHANGED <<Stored, Around, faults, Promises>>

\* The locator up to the VMI, which has to run.
ReadVM ==
  /\ pc = "vm"
  /\ LET runs == Locatable(infra) /\ vm.phase = "Running" IN
     \/ runs /\ Goto("pods") /\ seen' \in VMI /\ UNCHANGED <<toRead, held, devices, left>>
     \/ ~runs /\ Rejected
  /\ UNCHANGED <<Stored, Around, faults, Promises>>

\* claimsOf.
ListPods ==
  /\ pc = "pods" /\ Goto("claims")
  /\ toRead' = ClaimsOf(seen, pods)
  /\ UNCHANGED <<Stored, Around, seen, held, devices, left, faults, Promises>>

\* One claim is read.
ReadClaim(c) ==
  /\ pc = "claims" /\ c \in toRead /\ Goto("claims")
  /\ toRead' = toRead \ {c} /\ held' = held \cup Allocated(claim[c])
  /\ UNCHANGED <<Stored, Around, seen, devices, left, faults, Promises>>

\* Select; a request already replacing keeps that status.
SelectDevices ==
  /\ pc = "claims" /\ toRead = {}
  /\ \/ ~SelectOK(held, Asked) /\ Rejected
     \/ SelectOK(held, Asked) /\ DryRun /\ End(FALSE)
     \/ /\ SelectOK(held, Asked) /\ ~DryRun
        /\ Goto(IF view.status = "replacing" THEN "ensure" ELSE "quarantining")
        /\ devices' = Select(held, Asked) /\ left' = Select(held, Asked)
        /\ UNCHANGED <<seen, toRead, held>>
  /\ UNCHANGED <<Stored, Around, faults, Promises>>

Quarantining == pc = "quarantining" /\ SetStatus("quarantining", "ensure") /\ UNCHANGED settled

\* One device is done with, in the loop of this stage; `next' follows it.
Done(d, next, again) ==
  /\ left' = IF left = {d} THEN again ELSE left \ {d}
  /\ Goto(IF left = {d} THEN next ELSE pc)
  /\ UNCHANGED <<seen, toRead, held, devices>>

\* A slip: a rule of the name is taken for the device's.
EnsureBlind(d) ==
  /\ pc = "ensure" /\ d \in left /\ Done(d, "check", devices)
  /\ rules' = IF rules[d].there THEN rules ELSE [rules EXCEPT ![d] = RuleFor(view.name)]
  /\ lifted' = IF rules[d].there THEN lifted ELSE lifted \ {d}
  /\ UNCHANGED <<machine, mcache, unseen, Around, faults, promised, settled>>

\* Rules.Ensure: the rule is created unless one of its name is there, which
\* then has to keep the device from being allocated.
Ensure(d) ==
  /\ pc = "ensure" /\ d \in left
  /\ \/ ~rules[d].there /\ Done(d, "check", devices) /\ UNCHANGED faults
        /\ rules' = [rules EXCEPT ![d] = RuleFor(view.name)] /\ lifted' = lifted \ {d}
     \/ ~rules[d].there /\ "create" \in Lost /\ faults < MaxFaults /\ End(TRUE)
        /\ faults' = faults + 1
        /\ rules' = [rules EXCEPT ![d] = RuleFor(view.name)] /\ lifted' = lifted \ {d}
     \/ rules[d].there /\ Check(rules[d]) /\ Done(d, "check", devices)
        /\ UNCHANGED <<rules, lifted, faults>>
     \/ rules[d].there /\ ~Check(rules[d]) /\ Rejected /\ UNCHANGED <<rules, lifted, faults>>
  /\ UNCHANGED <<machine, mcache, unseen, Around, promised, settled>>

\* Rules.Exists: the rule is read back.
CheckRule(d) ==
  /\ pc = "check" /\ d \in left
  /\ \/ ~rules[d].there /\ End(TRUE)
     \/ rules[d].there /\ ~Check(rules[d]) /\ Rejected
     \/ rules[d].there /\ Check(rules[d])
        /\ Done(d, IF view.status = "replacing" THEN "delete" ELSE "replacing", {})
  /\ UNCHANGED <<Stored, Around, faults, Promises>>

\* The status says that every rule is there.  From here on the rules made for
\* the Machine are those of the request, unless a device had one before.
Replacing ==
  /\ pc = "replacing" /\ SetStatus("replacing", "delete")
  /\ settled' = (/\ machine'.status = "replacing" /\ devices \subseteq Of(rules, view.name)
                 /\ machine'.name = view.name /\ machine'.request = view.request)

\* A slip: the deletion has no precondition.
DeleteAnyway ==
  /\ pc = "delete" /\ machine.name = view.name
  /\ Save([machine EXCEPT !.deleting = TRUE])
  /\ promised' = promised \cup devices /\ End(FALSE)
  /\ UNCHANGED <<mcache, rules, Around, faults, lifted, settled>>

\* A slip: after a conflict nothing is tried again.
DeleteOnce ==
  /\ pc = "delete" /\ End(FALSE)
  /\ \/ vfresh /\ Save([machine EXCEPT !.deleting = TRUE]) /\ promised' = promised \cup devices
     \/ ~vfresh /\ UNCHANGED <<machine, unseen, promised>>
  /\ UNCHANGED <<mcache, rules, Around, faults, lifted, settled>>

\* The Machine is deleted if it is the one the pass has; it may be gone, or
\* have changed, or the answer may be lost.
Delete ==
  /\ pc = "delete"
  /\ \/ vfresh /\ Save([machine EXCEPT !.deleting = TRUE])
        /\ promised' = promised \cup devices
        /\ \/ End(FALSE) /\ UNCHANGED faults
           \/ "delete" \in Lost /\ faults < MaxFaults /\ faults' = faults + 1 /\ End(TRUE)
     \/ machine.name # view.name /\ End(FALSE) /\ UNCHANGED <<machine, unseen, promised, faults>>
     \/ machine.name = view.name /\ ~vfresh /\ End(TRUE) /\ UNCHANGED <<machine, unseen, promised, faults>>
  /\ UNCHANGED <<mcache, rules, Around, lifted, settled>>

\* A call of the stage fails or is refused.
CallFails ==
  \/ pc = "rules" /\ Fails("list")
  \/ pc = "vm" /\ Fails("vm")
  \/ pc = "pods" /\ Fails("pods")
  \/ pc = "claims" /\ toRead # {} /\ Fails("claim")
  \/ pc = "ensure" /\ Fails("create")
  \/ pc = "check" /\ Fails("check")
  \/ pc = "delete" /\ Fails("delete")

Pass ==
  \/ LeaveAlone \/ Begin \/ Clear \/ Reject \/ ListRules \/ ReadVM \/ ListPods
  \/ (\E c \in Claims : ReadClaim(c))
  \/ SelectDevices \/ Quarantining
  \/ (\E d \in Devices : Ensure(d) \/ CheckRule(d))
  \/ Replacing \/ Delete

-----------------------------------------------------------------------------
(* The manager's cache and the process. *)

\* The cache catches up with the stored Machine.
SyncMachine ==
  /\ ~Fresh /\ mcache' = machine /\ unseen' = "nothing"
  /\ wake' = (wake \/ unseen = "request")
  /\ UNCHANGED <<machine, rules, Around, memory, faults, history>>

\* The operator stops and starts again: what it had in memory is lost, and it
\* sees the Machine as for the first time.
Crash ==
  /\ faults < MaxFaults /\ faults' = faults + 1
  /\ pc' = "idle" /\ view' = NoMachine /\ vfresh' = FALSE /\ seen' = NoVMI
  /\ toRead' = {} /\ held' = {} /\ devices' = {} /\ left' = {} /\ since' = NothingHeld
  /\ mcache' = machine /\ unseen' = "nothing" /\ wake' = FirstSeen(machine)
  /\ UNCHANGED <<machine, rules, Around, Promises>>

-----------------------------------------------------------------------------
(* Users, the virtual machine and Cluster API. *)

Edit ==
  /\ edits < MaxEdits /\ edits' = edits + 1
  /\ UNCHANGED <<mcache, cluster, world, wake, faults, since, promised, pc, view, seen, toRead, held,
                 devices, left>>

MachineEdit ==
  /\ Edit /\ ~machine.deleting /\ vfresh' = FALSE
  /\ UNCHANGED <<rules, lifted>>

\* A request is made, edited or withdrawn.
EditRequest(request) ==
  /\ MachineEdit /\ request # machine.request
  /\ Save([machine EXCEPT !.request = request]) /\ settled' = FALSE

\* The status is removed or set by hand.
EditStatus(status) ==
  /\ MachineEdit /\ status # machine.status
  /\ Save([machine EXCEPT !.status = status]) /\ settled' = FALSE

\* The Machine is paused, marked or opted out, or that is taken back.
Toggle(bar) ==
  /\ MachineEdit /\ UNCHANGED settled
  /\ Save([machine EXCEPT !.bars = IF bar \in @ THEN @ \ {bar} ELSE @ \cup {bar}])

UserDeletes ==
  /\ MachineEdit /\ Save([machine EXCEPT !.deleting = TRUE]) /\ UNCHANGED settled

\* A device goes back into service, or its rule is made to have no effect.
LiftRule(d) ==
  /\ Edit /\ rules[d].blocks
  /\ \E rule \in {NoRule, [rules[d] EXCEPT !.blocks = FALSE]} : rules' = [rules EXCEPT ![d] = rule]
  /\ lifted' = lifted \cup {d} /\ settled' = FALSE
  /\ UNCHANGED <<machine, unseen, vfresh>>

ClusterChanges(state) ==
  /\ state # cluster /\ cluster' = state /\ edits < MaxEdits /\ edits' = edits + 1
  /\ UNCHANGED <<Stored, world, wake, memory, faults, history>>

\* What the scheduler gives the claims of a new pod: devices that no rule
\* keeps and nobody holds, and admin access to any.
Scheduled(p, given, free) ==
  /\ given \in [PodClaims[p] -> Allocations]
  /\ \A c \in PodClaims[p] : Allocated(given[c]) \subseteq {d \in free : ~rules[d].blocks}
  /\ \A c1, c2 \in PodClaims[p] : c1 # c2 => Allocated(given[c1]) \cap Allocated(given[c2]) = {}

\* The claims with the given allocation, and without that of a pod that ended.
Reallocated(old, given) ==
  [c \in Claims |-> IF c \in DOMAIN given THEN given[c]
                    ELSE IF c \in old THEN {} ELSE claim[c]]

Unused == {p \in LauncherPods : pods[p].vmi = 0}

\* The virtual machine is deleted or shut down.
VMStops ==
  /\ vm.phase # "Stopping" /\ vm' = [vm EXCEPT !.phase = "Stopping"]
  /\ UNCHANGED <<Stored, cluster, fixed, pods, claim, wake, memory, faults, edits, history>>

\* It is given a new pod, with devices anew.
StartOn(p, given) ==
  LET old == UNION {PodClaims[q] : q \in Live(vm.uid)} IN
  /\ Scheduled(p, given, Devices)
  /\ vm' = [uid |-> vm.uid + 1, phase |-> "Starting", pod |-> p]
  /\ pods' = [q \in Pods |-> IF q = p THEN [vmi |-> vm.uid + 1, over |-> FALSE]
                             ELSE IF q \in Live(vm.uid) THEN [pods[q] EXCEPT !.over = TRUE]
                             ELSE pods[q]]
  /\ claim' = Reallocated(old, given)

VMStarts(p) ==
  /\ vm.phase = "Stopping"
  /\ \E given \in [PodClaims[p] -> Allocations] : StartOn(p, given)
  /\ Remember(p)
  /\ UNCHANGED <<Stored, cluster, fixed, wake, memory, faults, edits, Promises>>

VMRuns ==
  /\ vm.phase = "Starting" /\ vm' = [vm EXCEPT !.phase = "Running"]
  /\ UNCHANGED <<Stored, cluster, fixed, pods, claim, wake, memory, faults, edits, history>>

\* A migration gives the virtual machine a second pod, with claims of its own;
\* the virtual machine moves to it, or that fails.
MigrationStarts(p) ==
  /\ vm.phase = "Running" /\ Live(vm.uid) = {vm.pod}
  /\ PodClaims[p] \cap PodClaims[vm.pod] = {}
  /\ \E given \in [PodClaims[p] -> Allocations] :
       /\ Scheduled(p, given, Devices \ Held)
       /\ claim' = Reallocated({}, given)
  /\ pods' = [pods EXCEPT ![p] = [vmi |-> vm.uid, over |-> FALSE]]
  /\ Remember(p)
  /\ UNCHANGED <<Stored, cluster, fixed, vm, wake, memory, faults, edits, Promises>>

MigrationEnds(p) ==
  /\ vm.phase = "Running" /\ p # vm.pod
  /\ \E gone \in {p, vm.pod} :
       /\ vm' = [vm EXCEPT !.pod = IF gone = p THEN vm.pod ELSE p]
       /\ pods' = [pods EXCEPT ![gone].over = TRUE]
       /\ claim' = Reallocated(PodClaims[gone], << >>)
  /\ UNCHANGED <<Stored, cluster, fixed, wake, memory, faults, edits, history>>

\* The deleted Machine and its virtual machine are gone, and its MachineSet
\* has made another.
Replaced(p) ==
  /\ machine.deleting /\ machine.name < MaxMachines /\ "unowned" \notin machine.bars
  /\ machine' = NewMachine(machine.name + 1, {}) /\ unseen' = "other" /\ vfresh' = FALSE
  /\ \E given \in [PodClaims[p] -> Allocations] : StartOn(p, given)
  /\ settled' = FALSE
  /\ UNCHANGED <<mcache, rules, cluster, fixed, wake, faults, edits, since, promised, lifted,
                 pc, view, seen, toRead, held, devices, left>>

-----------------------------------------------------------------------------

Init ==
  /\ setting \in Settings
  /\ \E bars \in SUBSET Bars, request \in Requests \cup {NoRequest} :
       machine = [NewMachine(1, bars) EXCEPT !.request = request]
  /\ mcache = machine /\ unseen = "nothing"
  /\ cluster \in ClusterStates /\ infra \in Infras
  /\ rules \in FirstRules
  /\ \E p \in LauncherPods : \E given \in [PodClaims[p] -> Allocations] :
       /\ Scheduled(p, given, Devices)
       /\ vm = [uid |-> 1, phase |-> "Running", pod |-> p]
       /\ pods = [q \in Pods |-> [vmi |-> IF q = p THEN 1 ELSE 0, over |-> FALSE]]
       /\ claim = [c \in Claims |-> IF c \in PodClaims[p] THEN given[c] ELSE {}]
  /\ wake = FirstSeen(machine) /\ pc = "idle" /\ view = NoMachine /\ vfresh = FALSE /\ seen = NoVMI
  /\ toRead = {} /\ held = {} /\ devices = {} /\ left = {}
  /\ faults = 0 /\ edits = 0
  /\ since = NothingHeld /\ promised = {} /\ lifted = {} /\ settled = FALSE

Next ==
  \/ Pass \/ CallFails \/ SyncMachine \/ Crash
  \/ \E request \in Requests \cup {NoRequest} : EditRequest(request)
  \/ \E status \in {"none", "replacing"} : EditStatus(status)
  \/ \E bar \in Toggles : Toggle(bar)
  \/ UserDeletes
  \/ \E d \in Devices : LiftRule(d)
  \/ \E state \in ClusterStates : ClusterChanges(state)
  \/ VMStops \/ VMRuns
  \/ \E p \in Unused : VMStarts(p) \/ MigrationStarts(p) \/ Replaced(p)
  \/ \E p \in Live(vm.uid) : MigrationEnds(p)

\* The queue hands the Machine to a worker, a pass goes on unless the process
\* stops, and the watch delivers what happened to the Machine.
Spec == Init /\ [][Next]_vars /\ WF_vars(Pass) /\ WF_vars(SyncMachine)

-----------------------------------------------------------------------------
(* Properties. *)

Stages ==
  {"idle", "clear", "reject", "rules", "vm", "pods", "claims", "quarantining", "ensure", "check",
   "replacing", "delete"}

\* The stages at which the devices of the request are known.
Found == {"quarantining", "ensure", "check", "replacing", "delete"}

StoredTypeOK ==
  /\ machine \in Machines /\ mcache \in Machines
  /\ unseen \in {"nothing", "request", "other"}
  /\ rules \in [Devices -> [there: BOOLEAN, blocks: BOOLEAN, owner: Nat]]

AroundTypeOK ==
  /\ setting \in Settings /\ cluster \in ClusterStates /\ infra \in Infras
  /\ vm \in [uid: Nat, phase: {"Starting", "Running", "Stopping"}, pod: Pods]
  /\ pods \in [Pods -> [vmi: Nat, over: BOOLEAN]]
  /\ claim \in [Claims -> SUBSET Results]
  /\ edits \in Nat

PassTypeOK ==
  /\ pc \in Stages /\ view \in Machines /\ vfresh \in BOOLEAN /\ wake \in BOOLEAN
  /\ seen \in [uid: Nat, active: SUBSET Pods] /\ toRead \subseteq Claims
  /\ held \subseteq Devices /\ devices \subseteq Devices /\ left \subseteq Devices
  /\ faults \in Nat

HistoryTypeOK ==
  /\ since \in [Pods -> SUBSET Devices] /\ promised \subseteq Devices /\ lifted \subseteq Devices
  /\ settled \in BOOLEAN

\* The state has its type.
TypeOK == StoredTypeOK /\ AroundTypeOK /\ PassTypeOK /\ HistoryTypeOK

\* A pass that has the stored version has the Machine as it is.  Past its
\* first stages it is about a request that can be read, on a Machine that
\* nothing bars, and the devices it found are what the request names.
PassInv ==
  /\ Fresh => mcache = machine
  /\ vfresh => view = machine /\ pc # "idle"
  /\ pc \in Stages \ {"idle", "clear", "reject"} =>
       /\ view.request # NoRequest /\ ParseOK(view.request)
       /\ view.bars = {} /\ ~view.deleting
  /\ pc \in Found => ~DryRun /\ Covers(devices, Asked)
  /\ pc = "quarantining" => left = devices
  /\ pc \in {"ensure", "check"} => left \subseteq devices
  /\ pc \in {"rules", "delete"} => view.status = "replacing"
  /\ pc \in {"clear", "reject"} => ~DryRun

\* Every device that the pass is done with, and every device with which a
\* Machine was deleted, is kept from being allocated, unless somebody took
\* its rule away.
Kept(d) == (rules[d].there /\ rules[d].blocks) \/ d \in lifted

RulesInv ==
  /\ pc = "ensure" => \A d \in devices \ left : Kept(d)
  /\ pc \in {"check", "replacing", "delete"} => \A d \in devices : Kept(d)
  /\ \A d \in promised : Kept(d)

\* Of the virtual machine there is its pod and the target of a migration;
\* every pod of an earlier one has ended.
PodsInv ==
  /\ vm.uid # 0 /\ vm.pod \in LauncherPods /\ pods[vm.pod] = [vmi |-> vm.uid, over |-> FALSE]
  /\ \A p \in Pods : /\ pods[p].vmi # 0 => p \in LauncherPods
                     /\ pods[p].vmi <= vm.uid
                     /\ pods[p].vmi \notin {0, vm.uid} => pods[p].over

\* The pods that a pass goes by: those of the VMI that it read, without the
\* ones that the VMI leaves out when it lists active pods, and those of a
\* virtual machine started since.
GoesBy == {p \in Pods : seen.active # {} /\ pods[p].vmi = seen.uid => p \in seen.active}

\* What these pods held since the pass began.
HeldByThese == UNION {since[p] : p \in GoesBy}

\* What the locator read is of the Machine's virtual machine: the claims it
\* has yet to read and the devices it found, which are the only ones that
\* rules are made for, are of the pods that the pass goes by, whatever ends,
\* restarts or migrates between the reads (KubeVirtLocator.Devices, claimsOf,
\* Select).
HeldInv ==
  /\ PodsInv
  /\ mcache.name <= machine.name /\ view.name <= machine.name
  /\ pc \in {"idle", "rules", "vm", "pods"} => held = {}
  /\ seen.uid <= vm.uid
  /\ \A p \in Pods : pods[p].vmi = 0 => since[p] = {}
  /\ pc = "pods" => seen.uid # 0
  /\ pc = "claims" => \A c \in toRead : \E p \in Pods : pods[p].vmi # 0 /\ c \in PodClaims[p]
  /\ pc \in {"quarantining", "ensure"} => left \subseteq Candidates(held)
  /\ pc # "idle" /\ machine.name = view.name =>
       /\ \A p \in Live(vm.uid) : HeldBy(p) \subseteq since[p]
       /\ held \subseteq HeldByThese
       /\ pc = "claims" => \A c \in toRead : Allocated(claim[c]) \subseteq HeldByThese

\* Once the rules of a request are made, they cover it, and a pass that picks
\* it up again finds that out before it looks at the virtual machine, unless
\* it began on a copy from before (replace, Rules.Of).
SettledInv ==
  settled /\ ~Lag =>
    /\ machine.status \in {"replacing", "rejected"} /\ machine.request # NoRequest
    /\ Covers(Of(rules, machine.name), ParseRequest(machine.request))
    /\ pc \in {"idle", "rules", "delete", "reject"}
    /\ pc = "rules" => view.name = machine.name /\ view.request = machine.request

\* The step deletes the Machine on behalf of the request.
Deletes == pc = "delete" /\ ~machine.deleting /\ machine'.deleting /\ pc' = "idle"

\* The request that is on the Machine can be read and was not rejected,
\* nothing bars the Machine, and every device the request names is kept from
\* being allocated.
AsAsked ==
  /\ machine.request # NoRequest /\ ParseOK(machine.request)
  /\ machine.status = "replacing" /\ machine.bars = {}
  /\ \A name \in ParseRequest(machine.request) : \E d \in Devices : NameOf[d] = name /\ Kept(d)
  /\ \E d \in Devices : Kept(d)

\* The operator deletes a Machine only if that is what the Machine asks for at
\* that moment, whatever happened to it and to the operator since the pass
\* began (Reconcile, replace).
DeletesAsAsked == [][Deletes => AsAsked]_vars

\* A virtual machine started after a Machine was deleted for its devices,
\* the replacement's above all, is given none of them while their rules stand.
ReplacementAvoids ==
  [][vm'.uid # vm.uid => Held' \cap promised \subseteq lifted]_vars

\* A rule is made only for a device of the configured drivers that a pod of
\* the Machine's virtual machine was allocated while the request was carried
\* out, whatever restarts or migrates between the reads: a pod that the VMI
\* lists as active or, when it lists none, any, or one of a virtual machine
\* started since, which a shared claim passes to (KubeVirtLocator.Devices,
\* claimsOf).  A migration's target is such a pod, before the virtual machine
\* runs on it.  This is so as long as the Machine is there: a claim that the
\* template names passes to the virtual machine of the next one.
OnlyHeldQuarantined ==
  [][\A d \in Devices : rules'[d].there /\ ~rules[d].there =>
       /\ DriverOf[d] \in Drivers
       /\ machine.name = view.name => d \in HeldByThese]_vars

\* Once the rules of a request are made, and while nobody edits the request,
\* its status or the rules, no other device is quarantined for it: a virtual
\* machine that restarted may hold devices that are not the request's
\* (replace, on a request picked up again). A pass that begins on a copy from
\* before the status said so is left out.
SettledStays == [][settled /\ ~Lag => rules' = rules \/ ~settled']_vars

\* A dry run writes nothing: no rule, no status and no deletion.
DryRunWritesNothing ==
  [][DryRun /\ pc # "idle" /\ <<pc, left>>' # <<pc, left>> => UNCHANGED <<machine, rules>>]_vars

\* A request on a Machine that stays is carried out, rejected or withdrawn,
\* whatever the operator's cache lacks and wherever it stops.
RequestsConclude ==
  machine.request # NoRequest ~>
    machine.deleting \/ IsRejected(machine.status) \/ machine.request = NoRequest

\* The status of a request goes when the request does.
StatusFollows ==
  machine.request = NoRequest /\ machine.status # "none" ~>
    machine.deleting \/ machine.request # NoRequest \/ machine.status = "none"

=============================================================================
