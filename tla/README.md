# A model of the NVSentinel remediator for Cluster API

The operator reads the faults NVSentinel finds on GPU nodes of workload
clusters and asks Cluster API, in the management cluster, to restart or
replace the Machines behind them. It does so by annotating the Machine. It
answers NVSentinel's requests once the restart has happened, and takes the
annotation off again.

This directory holds TLA+ modules of its core, TLC configurations that check
them on small instances, and TLAPS proofs of what matters most for every
instance. The code is the reference: `PROJECT.json` names the lines each
definition stands for.

## The system

| Part | State | Operations | Hard to get right |
| --- | --- | --- | --- |
| `internal/controller/cluster_controller.go` | observations of the last pass, waits for the checks (memory only) | `Reconcile`: collect, `handle`, `remediate`, `answer`, `releaseRestarts` | everything it reads is cached and may be stale; each write may fail, conflict or lose its reply; it may stop anywhere |
| `internal/capi` | none: reads and patches Machines | `Guard`, `MarkForRemediation`, `Escalate`, `Release`, `RestartCompleted`, `CoverageOf` | one of the three patches carries no resource version; annotations outlive the pass that wrote them |
| `internal/signal/extrr` | none: requests in the workload cluster | `Collect` (cached), `IsPending` (live), `Answer` | an answered request still looks pending in the cache |
| `internal/signal/condition` | none: node conditions | `Collect`, `Parse` | a message may be cut inside an event |
| `internal/decision` | the table | `Lookup`, `Decide` | order and unknown actions |
| `internal/controller/mode.go` | none | `selectMode` | the mode may change between passes, with marks on Machines |
| `internal/controller/quarantine_controller.go` | the status annotation of a replace request | `Reconcile`: find the devices, make their rules, read them back, delete the Machine | a crash or an edit between two of those steps; an old cached copy of the Machine |
| `internal/quarantine` | DeviceTaintRules in the management cluster | `ParseRequest`, `Select`, `Devices`, `Ensure`, `Of`, `Exists` | a virtual machine that restarts or migrates between the reads; a rule of the right name that keeps nothing |
| `cmd/manager` | the lease | flags, clients, leader election | the old leader's pass goes on after the lease moved |

The parts interact through API objects only. A **Machine** carries a *mark*:
`remediate-machine`, with the action (`Restart` or `Remediate`), the node's
boot ID and the name of the request in annotations beside it. MachineHealthChecks
act on the mark; the provider restarts the node or Cluster API replaces it. A
**request** (ExternalRemediationRequest) is *pending* from when NVSentinel
releases its node until it is answered `True` or `False`. A **node** shows its
boot ID, whether it is Ready and its conditions. A **replace request** is an
annotation that a user puts on a Machine; the quarantine controller excludes
the devices it names, or the one the Machine holds, by a DeviceTaintRule each,
and then deletes the Machine for its MachineSet to replace. The two controllers
meet on the Machine: a mark of the first one bars the second.

What makes it correct:

- a request is answered `True` only when its node restarted since;
- a request that is pending keeps the mark made for it, one that was declined
  has none, and one that was answered is never acted on again;
- a replacement, once asked for, is never undone; a mark someone else made is
  never taken off, and becomes the operator's own only in a pass that read the
  Machine before it was set;
- nothing is released while a fault that was read calls for it;
- every request is settled and no mark stays behind for good;
- the decision is the most disruptive one of what was read, and a cut message
  never makes it worse;
- a conclusion is told once and none is lost;
- a Machine is deleted for a replace request only as the request on it then
  asks, with every device it names kept from being allocated;
- only devices that pods of its virtual machine were allocated are excluded, and
  no others later on;
- every replace request is carried out, rejected or withdrawn;
- a dry run writes nothing.

## Modules

| Module | What it is |
| --- | --- |
| `Capi` | Operators: what a Machine says (`Guard`, `RestartCompleted`, ...), what each patch makes of it (`Marked`, `Escalated`, `Released`, `MergePatch`), what the checks that select it can do (`Covered`, `TemplatesOnly`) |
| `Remediator` | The state machine: passes of `Reconcile` on one Cluster, and everyone else |
| `MCRemediator` | Values of its constants for TLC |
| `RemediatorProofs` | Theorems about `Remediator`: types, and restarts that were real |
| `RemediatorSafety` | Theorems about `Remediator`: the other invariants and the action properties |
| `Lifecycle` | Abstract specification: the life of a node's mark, of requests and boots, with no passes, caches or retries |
| `RemediatorLifecycle` | The refinement mapping from `Remediator` to `Lifecycle` |
| `LifecycleProofs` | The refinement as a theorem |
| `Overlap`, `MCOverlap` | Two instances of `Remediator`'s pass around a change of leader |
| `OverlapProofs` | Theorems about both leaders |
| `News`, `MCNews` | What the cluster controller remembers between passes, and the Events it records |
| `NewsProofs` | Its theorems |
| `DeviceSelection` | Operators of package quarantine: requests, the choice of devices, rules, the locator |
| `Quarantine`, `MCQuarantine` | The quarantine controller, one call per step, and everyone else |
| `QuarantineProofs` | Its theorems |
| `Decision` | From a condition's message to a decision, one loop step at a time |
| `MCDecision`, `DecisionProofs` | Its instance and its theorems |

Mutants used to test the properties sit next to the definition they alter and
say "a slip" in their comment; no specification uses them.

### Remediator: state and steps

A pass is a sequence of steps, each with at most one API call, so that the
environment can move between any two calls:

    Begin      cached requests or conditions, Machines, checks, nodes  (Reconcile)
      Take, PassBy, Unreadable    the live read of a request            (IsPending)
      Reported, RestartOver, Escalate, Skipped, ReportedUnavailable,
      HeldBack, Mark              what handle and remediate come to
      Answer                      the answer, then, when True:
      ReleaseAnswered, Reread     the release with its retries
    StartRelease, ReleaseRestart  releaseRestarts
    Finish                        forgetWaits; the next pass may begin

`PassOver` is a pass over a Cluster that is paused, disconnected, gone or not
selected. `Crash` may strike between any two steps; memory goes, annotations
stay.

- `machine`, `node`, `request` are what the API servers have; `mcache`,
  `ncache`, `rcache` what the informers have. The constant `Lag` says which
  informers may be behind. `view` is the pass's copy of the Machines, changed
  by its own patches as `*m = *updated` does; `mfresh` and `vfresh` stand for
  equal resource versions.
- A write is accepted, refused (`Rejected`) or accepted with its reply lost
  (`Lost`). `Escalate`, `Release` and the answer carry a resource version and
  fail on a stale copy; `Mark` is a merge patch without one, so `MergePatch`
  sends the fields that differ in the stale copy and leaves the others.
- Boot IDs are numbered in the order the node takes them on. The operator only
  ever compares them for equality; the order is for the properties.
- `Begin` merges four reads of caches: the signals, the Machines, the checks and
  the nodes (`cluster_controller.go:342`, `350`, `356`, `364`). One read earlier
  than the nodes has what a cache that lags that long has then, so `Lag` gives
  the interleavings of these reads with other writers; in `overlap` it is the
  requests, which are read first.
- `raisedAt` is a history variable.
- A failed read before the signals are taken ends the pass with nothing
  changed, and so is a stuttering step.
- What the decision table decides for a signal is the constant `Want`;
  `Decision` is about how it comes to that.

The environment's actions (`RequestRaised` ... `GraceElapses`) are what
NVSentinel, the provider, the kubelet, MachineHealthChecks, users and
informers do, as far as this code relies on it. They are external. The
constant `Disturbances` switches those on that a run asks for.
`dry` is the operator's `--dry-run`, chosen from `DryRuns` at first.

### Lifecycle: what the passes add up to

`Lifecycle` has one action per thing others may see happen: a request is raised
or closed, a Machine is marked for a restart or a replacement, a restart gives
way to a replacement or is released, a request is confirmed or declined, a node
boots. `MarkOf` reads the mark off a Machine's annotations; requests, boots and
`raisedAt` map to themselves. Caches, the pass and its copies map to nothing,
so all reads are stuttering steps, and each write must be one action of
`Lifecycle`. The guards there are the promises: a restart is asked for only for
a request not yet answered (it may have been closed since it was read),
confirmed only after a boot, declined only with nothing under way, and released
only when the request it names is not pending; a replacement has no way back.

### Overlap: two leaders

The manager lets its lease go when a shutdown times out or a renewal fails
(`cmd/manager/main.go:157`). The old leader begins no further pass, but the one
it is in goes on, each call at a time, until its process ends (`OldEnds`), while
the new leader runs passes of its own. `Old` is a second instance of
`Remediator` on the same Machines, nodes and requests. The leaders are two
processes: each has informers of its own, which lag on their own
(`OldInformers`), and a pass and waits of its own. A write of one overtakes the
caches and copies of the other (`Overtaken`).
What survives is in the run `overlap`. `AnsweredNeverMarked` does not: the old
leader may read a request pending, and mark its Machine after the new leader
has answered it. Such a mark is a leftover, and the next pass releases it.

The variables of `Remediator` are the new leader's caches and pass and those with
an `o` the old one's. `Mine` and `Theirs` are the two as records, for invariants
that are said of a pass and hold of both. `HasRequest` is the condition of
`MarksSurviveOverlap`: the pass has the request, or knows that it read only some.
See the limits below for what happens otherwise.

### News: what is told

`seen`, `known` and `current` are the reconciler's `seen`, `modes` and the
observations of the pass. What Remediator would conclude of a signal is a value
of `Conclusions`; `Handle` compares it with the last one under its key. `told`,
`met` and `failed` are history. A request's name is not used again, and a node
has one condition of a check (`Signal.Key` says so).

### Quarantine: state and steps

    LeaveAlone, Begin   the cached Machine and Cluster: Stage says where to go
      Clear, Reject     the status of a request withdrawn or rejected
      ListRules         a request found replacing: Rules.Of and Covers
      ReadVM, ListPods, ReadClaim, SelectDevices      the locator and Select
      Quarantining, Ensure, CheckRule, Replacing      statuses and rules
      Delete            with the UID and resource version the pass has
    CallFails           any of these calls fails, or is forbidden

- `machine` is stored, `mcache` cached and `view` the pass's copy; `vfresh`
  says that its resource version is the stored one, so that `SetStatus` and
  `Delete` succeed or conflict. `Lag` lets a pass begin on an old copy.
- `wake` is the queue: it is set by what `replaceRequestChanged` admits and by
  a requeue, and a `Crash` sets it from the first list. A watch delivers every
  version, which `unseen` keeps track of.
- A request is a form and a list of names, a device its driver, pool and name.
  `blocks` says that a rule selects its device with an effect that keeps it
  from being allocated, `owner` whose labels and annotation it has. A create
  that finds a rule and the read of that rule are one step.
- A claim is made for one pod or named by all the pods of a virtual machine
  (`QuarantineAssumption`), as KubeVirt has it. The scheduler gives a new pod only
  devices that no rule keeps and nobody holds.
- The VMI lists any of its pods as active (`VMI`): the source of a migration, its
  target, both or none, in which case `claimsOf` takes every pod that has not
  ended. A migration ends with the target or, when it fails, with the source.
- `since`, `promised`, `lifted` and `settled` are history.
- `setting` holds what differs from one instance to another: the flags, the
  requests, what may fail and the bounds. It is chosen at first and stays.

## Runs

| Run | Setting | Shows |
| --- | --- | --- |
| `restarts` | two requests for restarts of one node about one check; stale Machines and requests; failed and lost writes; a crash; restarts by themselves; marks made and removed by others | `RestartedForReal`, `PassInv`, `PendingInv`, `PendingKeepsItsMark`, `AnsweredNeverMarked`, `ForeignMarkKept` |
| `lifecycle` | a restart and a replacement for one node; checks that are paused or joined by others, both fallbacks; failed reads and marks, lost replies; a deleted Machine; a crash | `ImplementsLifecycle`, `CreditInv`, `MarksInv`, `DeclinedNotMarked`, `DeclinedInv`, `ReplacementHoldsMark` |
| `modes` | live and dry runs; a request for a replacement and a condition that calls for a restart, all modes, a paused Cluster, pausing and opting out of the Machine, an inherited mark | `TypeOK`, `HoldInv`, `FaultHoldsMark`, `ReplacementIsFinal`, `DryRunWritesNothing` |
| `settles` | two requests, closed or answered; lost replies; stale requests and nodes; checks that look at any time; a crash; fairness | `RequestsSettle`, `LeftoverMarksGo` |
| `overlap` | two requests for restarts of one node, the lease moving at any point of a pass, informers of requests that lag apart, foreign marks, restarts by themselves, failed reads, lost answers | `RestartedForReal`, `OverlapInv`, `MarksSurviveOverlap` |
| `news` | two requests, with a key each or one for both, and a condition; failed reads, collects and writes; modes; a Cluster that is paused or gone; a crash | `NewsInv`, `ToldOnce`, `ConclusionsTold` |
| `quarantine` | six settings: `Edited` (two edits of the request, the status, the mark or the rules, or a deletion; lost replies or a crash), `Replacing2` (a request for two GPUs, others' rules with their names, the replacement Machine), `Migrating` (claims per pod, migrations that succeed or fail with any pods listed as active, two drivers, admin access, refused reads), `TurnedAway` (requests that cannot be read, a Machine without a MachineSet, an infrastructure elsewhere), `PickedUp` (two faults, the cache keeps up), `Dry` | `TypeOK`, `PassInv`, `RulesInv`, `HeldInv`, `SettledInv`, `DeletesAsAsked`, `ReplacementAvoids`, `OnlyHeldQuarantined`, `SettledStays`, `DryRunWritesNothing` |
| `conclude` | one good and one bad request, two edits with a pause, any one call failing or a crash, fairness | `RequestsConclude`, `StatusFollows` |
| `decisions` | every list of up to three events, cut anywhere, three tables | `MostDisruptiveWins`, `FirstKnownIsNamed`, `TruncationNeverEscalates` |

Deadlock is checked in the runs of `Remediator`, where a pass can always
begin, and of `Overlap` and `News`; not in `decisions`, which ends, nor in those
of `Quarantine`, whose controller sleeps until a Machine changes.

Three runs find what the code does and its documentation denies; see
`findings` in `PROJECT.json`:

- `escalation_refused`: an escalation that fails leaves an empty observation,
  so `releaseRestarts` removes the restart mark in the very pass that read a
  fault calling for a replacement.
- `stale_machine`: `MarkForRemediation` patches without a resource version, so
  a pass on a stale Machine turns a replacement mark back into a restart mark.
  A user's mark set since becomes a restart mark in the same way, and is
  released later; `ForeignMarkKept` is about a mark while no action is beside it.
- `stale_node`: a mark made from a stale node records the boot before the last
  one, and its request is answered `True` with no restart since it was raised.

The passing runs leave exactly these cases out, and say so by their constants:
`FaultHoldsMark` and `ReplacementHoldsMark` are checked where an escalation is
not refused, `ReplacementIsFinal` where the Machine informer keeps up,
`RestartedForReal` where the node informer does.

Other limits of the code that TLC found when a property was stated without its
condition, which the property or the setting now names:

- Rules are created without regard to the Machine's version
  (`quarantine_controller.go:267`), so a request withdrawn in the middle of a
  pass still takes its device out of service, although
  `docs/device-quarantine.md:164` says that each write is conditional on the
  Machine being as it was read. The deletion is: `DeletesAsAsked`.
- A pass on an old copy that has the status `quarantining` writes no status
  (line 261), meets no conflict, and quarantines the devices that a restarted
  virtual machine was given since. `SettledStays` is about a cache that keeps
  up.
- A claim that a template names passes to the replacement's virtual machine; a
  pass that outlives the Machine may then read the replacement's devices.
  `OnlyHeldQuarantined` is about a Machine that is still there.
- Two pending requests for one check of a node share an observation key
  (`cluster_controller.go:411`). The Event of one is repeated at every poll, so
  `ToldOnce` is about signals alone under their key. A request that cannot be
  read takes back what the last pass remembered of the other, so
  `ConclusionsTold` is checked where requests that share a key can be read. And
  where one asks for a restart and the other for a replacement whose escalation
  fails, the empty observation of the second displaces that of the first, and
  the first one's mark is released while it is pending; `lifecycle` has a check
  for each request.
- Around a change of leader `AnsweredNeverMarked` does not hold (see above). Nor
  does a pending request keep its mark against a leader that does not have it: an
  instance that collected its signals before the request was raised
  (`cluster_controller.go:342`), or whose cached requests are behind, and that
  lists the Machine (line 350), or reads it again after a conflict (line 907), once
  the other has marked it, finds a mark that nothing holds and releases it
  (line 786), although `docs/configuration.md:44` has a lease "so that only one
  replica acts". The next pass marks the Machine again. `MarksSurviveOverlap` is
  about requests that the pass has or could not read.
- The devices of a migration's target are quarantined when the VMI lists it as
  active, or lists no pod (`locator.go:192`, `213`), before the virtual machine
  runs there, although `docs/device-quarantine.md:102` says that they are "those
  the Machine's VM holds". `OnlyHeldQuarantined` is about devices that such pods
  were allocated.
- Requests are taken by node, check and name (`extrr.go:265`). Where a request
  for a replacement comes before one for a restart of the node, its escalation
  may conflict and leave no observation; the restart is then found over and
  answered, and its release, after a conflict of its own, reads the Machine
  again and takes the mark off although the replacement is pending and was
  found so. `ReplacementHoldsMark` is proved where restarts come first
  (`RestartsFirst`), as in `lifecycle`. The next pass asks for the replacement.

### Bounds

- Two requests on a node are the least for one to find the other's mark; a
  third adds only repetition.
- One node: a pass handles every signal on its own node's Machine, and only
  `unreadable` reaches across nodes, where it withholds releases. The theorems
  are about any number of nodes. A control plane Machine, which `Guard` turns
  away before anything is written, needs a second node and is in no run.
- `MaxBoot` 3: the boot a request was raised in, the one its restart leads to,
  and one more, of the second request or by itself. 2 where only one restart
  matters.
- `MaxCrashes` 1: a crash leaves no memory, so a second one starts from a state
  the first can leave.
- `ReleaseTries` 2 of the 4 of `retry.DefaultBackoff`: one retry reaches every
  branch, the last attempt included.
- `MaxEdits` 2 of a replace request: one to make a pass stale and one to undo or
  change what it did; 1 where one other actor is enough. `MaxFaults` counts
  crashes, failed calls and lost replies together; 2 in `PickedUp`, where the
  second comes after the pass that the first one caused.
- `MaxMachines` 2: a Machine and its replacement. Up to three pods bound the
  restarts and migrations: each is used once. `Edited` has one, as the virtual
  machine is not the trouble there.
- Two devices are the least for a request that is half carried out and for a
  virtual machine to be given another; three with one of another driver.
- `overlap` has cached requests that lag, of each leader on its own, two boots, no
  refused writes and no crash: what the two leaders do to each other's copies is
  the trouble there, and a process that ends is `OldEnds`. Cached Machines that
  lag too are out of TLC's reach there; the theorems include them.
- Each run of `Remediator` and each setting of `quarantine` turns on what one kind of trouble
  needs. All of them at once are out of TLC's reach.
- No symmetry is used: the signals of an instance differ in order or decision.

### Fairness

`FairSpec` assumes weak fairness of the pass as a whole (the controller
requeues itself after every poll, and calls return), of the informers, of the
grace period, of the provider carrying out a restart it was asked for and of
the kubelet becoming Ready. Nothing is assumed of users, NVSentinel or the
checks: `ChecksLook` has no fairness, and a request still settles because the
wait for the checks ends. A write that is refused for good settles nothing, so
`settles` has lost replies and no refusals.
`Quarantine` assumes weak fairness of the pass (the queue hands out a Machine it
has, and calls return) and of the watch. Users and KubeVirt need do nothing.
Faults are bounded, so a call fails for a while and not for good; one that is
forbidden rejects the request.
A request whose Machine is marked for a replacement or being deleted is left
to Cluster API, which removes the node and with it the request.

## Proofs

`tlapm` checks the seven modules with theorems. They hold for every value of the
constants that satisfies the assumptions of the modules, and so for any number
of nodes, requests, boots, devices and crashes. Every
invariant and every action property of the passing runs is a theorem, and every
inductive invariant but `ReplaceInv` is also an invariant of a run.

### The settings of the theorems

A theorem about `Remediator` or `Overlap` that does not hold of the code in general names
what it needs. The runs that find a violation show what happens otherwise.

| Hypothesis | Means | Without it |
| --- | --- | --- |
| `OnlyRequests` | the workload cluster serves requests, the node informer keeps up, no mark was made by an operator that did not name the request, nobody removes the mark and leaves the annotations beside it | `stale_node`; a mark without a request answers any request that waits |
| `SignalsHold` | no escalation is refused; the signals of one check of a node are all acted on or all reported | `escalation_refused`; an observation displaced by one that calls for nothing |
| `"machines" \notin Lag` | the Machine informer keeps up | `stale_machine` |
| `ReplacementsLast` | no reply to a mark is lost, or restarts of a node sort before its replacements | a replacement mark whose reply was lost is not in the pass's copy, and a restart handled after it writes over it as in `stale_machine` |
| `RestartsFirst` | restarts of a node sort before its replacements | a replacement whose escalation conflicted is passed by (see the limits above) |
| `"unmark" \notin Disturbances` | nobody takes a mark apart | annotations without a mark are taken for those of the next one |

`PassInv`, `MarksInv`, `ForeignMarkKept`, `DryRunWritesNothing` and `TypeOK` are
proved with no hypothesis: with every informer behind without bound, every call
failing or losing its reply, and everyone writing in between.

### Remediator

- **`TypeCorrect`**: `Spec => []TypeOK`.
- **`MarksAreCredited`**, **`RestartsAreReal`**: `[]CreditInv` and with it
  `[]RestartedForReal`, under `OnlyRequests`. The Machine and request informers
  may lag without bound, any call may fail or lose its reply, and the operator
  may stop anywhere.

  `RestartedForReal` is not inductive: it says nothing of the marks on whose
  strength requests are answered. `CreditInv` adds what every copy of a
  Machine keeps, stored, cached or held by the pass (`Credited`): an unmarked
  Machine has no action, boot or request; a restart mark names a request of
  its node that had been raised by the boot beside it; and no boot on a mark
  is later than the one the operator has read. `MarkCredited` is the heart:
  since an unmarked copy is blank, however stale, the merge patch sends the
  boot and the request together. `CompleteIsReal` then puts the request's
  raising at or before the mark's boot, and that before the boot just read.
- **`PassesKnowWhatTheyWrite`**: `[]PassInv`. A copy with the current resource
  version is the stored Machine (`CopiesCurrent`), which is what a conditional
  write relies on; a request on a Machine is the node's own (`RequestsNamed`); a
  signal in hand is not collected a second time (`RequestsInHand`); and what is
  about to be released is a restart mark that the pass saw and that nothing
  holds (`ReleasesKnown`). From it **`DryRunIsDry`** and **`ForeignMarksStay`**: a
  release is conditional on the version and of a restart mark, and of the other
  writes only the merge patch of an unmarked copy reaches a Machine with a mark
  that is not in the copy.
- **`OwnMarksAreKnown`**, **`ReplacementsAreFinal`**: `MarksInv` says that a mark
  and its annotations come and go together in every copy (`MarksWhole`) and that
  the pass's copy has the replacement marks there are, or none of the signals
  left calls for a restart of that Machine (`ReplacementsSeen`). The second half
  is needed for a lost reply, which leaves the copy unmarked.
- **`AnsweredAreNotMarked`**: the live read precedes the mark, and nobody else
  answers in between; the merge patch sends the request with the mark.
- **`SignalsHoldTheirMachines`**, **`FaultsHoldMarks`**: `HoldInv` says that a
  restart mark the pass could release is called for by every signal it is done
  with. It relates the map of observations, where signals of one check displace
  one another, to the Machine.
- **`PendingAreMet`**, **`PendingMarksStay`**: `PendingInv` says that a pass
  has every pending request that a Machine names before it, has found it pending,
  or could not read one and releases nothing. The cached requests may lag, but
  one that a Machine names has been in the cache, or no pass would have met it.
- **`ReplacementsCall`**, **`ReplacementsHoldMarks`**: under `SignalsHold` and
  `RestartsFirst`. `HoldInv` is not enough: the call it promises may be that of a
  restart, which `Leftover` sets aside. `ReplaceInv` says that the call is one for
  a replacement, and why it lasts: signals are taken in order, so a restart that
  is answered, and whose release may read the Machine again, comes before every
  replacement of its node.
- **`DeclinesAreSafe`**, **`DeclinedAreNotMarked`**: `DeclinedInv` says that the mark of a request still
  to be handled is in the pass's copy too, so that a request about to be declined
  has none on the Machine as it is, and not only as it was read.
- **`RemediatorImplementsLifecycle`**: the initial states map to initial states,
  and each step to a step of `Lifecycle` or a stutter, from all of these
  together. `CreditInv` gives `Confirm` its boot, `PendingInv` and `HoldInv` give
  `Release` its request that is not pending, `DeclinedInv` gives `Decline`, and
  `MarksInv` keeps replacements. The hypotheses include the settings of the run
  `lifecycle`.

### Overlap

The module of theorems has four parts.

1. *Steps as values.* `Step(L, K)` says what a leader's step does to its pass, as
   a record, and to what the two share; `NewSteps` and `OldSteps` put every action
   of either leader as such a step. The prover cites no theorem through an
   `INSTANCE`, so what is needed of the operators behind `Old!` is shown anew
   there, once. Everything else is shown of `Step`, for both leaders.
2. *Credit.* **`MarksAreEarnedByBoth`**, **`RestartsAreRealForBoth`**, under
   `OnlyRequests`. `CreditInv` does not carry over: it bounds the boot on a mark by
   the boot that the operator has read, and another leader may mark at a later
   one. `CreditOverlap` bounds it by the node's own boot (`Earned`) and adds, of
   each pass, that its requests were raised by the boot it read (`PassEarned`). A
   mark that answers a request was made no earlier than the request was raised,
   and the boot the pass read is another one: it is later than the mark's, or the
   mark's is later than it. Either is a boot since.
3. *Holding.* **`BothHoldTheirRequests`**, under `SignalsHold` too. `PendingInv`
   fails for two leaders: a pass need not know of a request that the other marked a
   Machine for. `PassHolds` is about the requests that the pass has found: when it
   is done with one that is pending, and its copy of the Machine marked for it is
   current, the Machine is called for. A copy that is not current does not matter,
   as every release is conditional on the resource version.
4. **`MarksSurviveBoth`**. A release at the end of a pass needs everything read and
   every call for the Machine to be a leftover. If the pass has the mark's request,
   `PassHolds` gives a call for the Machine, and none is a leftover: that takes a
   mark whose request the pass does not ask for. A release after an answer is of the mark that was answered, whose
   request is not pending.

### News

`NewsInv` ties the memory to the history: what is remembered of a signal was
told of it (`RememberedIsTold`), and what was told of a signal alone under its
key is remembered (`ToldIsRemembered`), in the old map until the pass meets the
signal and in the new one from then on. **`MemoryAgreesWithEvents`** and
**`NewsIsToldOnce`** hold in every setting. **`NoConclusionIsLost`** needs
`ReadsAlone`: requests that share a key can be read, for the reason given above.

### Quarantine

- **`TypeCorrect`** and **`PassesGoByWhatIsStored`** (`PassInv`): a pass whose
  version is current goes by the stored Machine, and past its first stages has a
  readable request that nothing bars and devices that cover it.
- **`RulesComeFirst`** (`RulesInv`), **`DeletionIsAsked`**,
  **`ReplacementGetsOthers`**: what the pass has been through is in the rules,
  whoever made them, and stays there after the deletion unless a rule is lifted.
- **`RulesCoverTheRequest`** (`SettledInv`), **`NothingMoreIsQuarantined`**: the
  history variable `settled` starts when the pass has written `replacing` for the
  Machine and the request of its copy, with its rules all there, and ends with an
  edit of the request, its status or its rules, or with the Machine. The proof
  needs the first two: a write that conflicts with an edit which set that status
  for another request settles nothing.
- **`LocatorFindsItsOwn`** (`HeldInv`), **`QuarantinesItsOwn`**: claims that were
  read are of pods of the virtual machine (`PodsInv`), however it restarts or
  migrates between the reads. `GoesBy` are the pods that the locator may go by:
  those the VMI listed as active, all of them when it listed none, and those of a
  virtual machine started since. `since` keeps what each pod was allocated, so that
  a target that is gone again still counts for the devices read from it.
- **`DryRunIsDry`**.

None of these has a hypothesis: the conditions are part of the properties.

### Decision

**`DecidesMostDisruptive`**, **`NamesFirstKnown`**, **`TruncationIsSafe`**: for
every table, every list of events and every cut. The loops are steps of the
state machine, so the loop invariants (`BestBefore`, `NamedBefore`,
`ActionsListed`) are ordinary inductive invariants. The comment at
`internal/decision/decision.go:205` says that "among equals the first action listed
is named"; the code prefers one the table knows, as its test does
(`decision_test.go:129`), and so does `FirstKnownIsNamed`. `findings` has it.

### Only model-checked

- Liveness (`RequestsSettle`, `LeftoverMarksGo`, `RequestsConclude`,
  `StatusFollows`), which is out of the prover's reach.

## Not modelled

- The wording of logs and Events; the length of waits (only that one ends); the
  poll intervals and the watch of requests, which bring the next pass sooner;
  the memory of what a dry run would release, which decides only what is logged.
- `extrr.Parse` and the command line's decision table: what a request asks for
  is taken as decided, the overrides as parsed. Both are short conversions that
  the repository tests case by case.
- Several Clusters: a pass shares nothing with another Cluster's but the maps
  its own entry is in, and one worker runs them. Several Machines with replace
  requests: one worker takes one at a time, and they meet only in the rules,
  which `FirstRules` and `LiftRule` stand for.
- The documented undo of a mark by hand, with all its annotations
  (`docs/operations.md:125`). A user's `unmark` takes the mark only, which is
  the harder case: the annotations stay and must not be taken for a mark.
- Digests of device names and of long Machine names, taken to be distinct.
- Set-up in `cmd/manager`. A Cluster that is selected only later does not wake
  the quarantine controller; the hazard is listed, with no property.

## What could come next

1. The time between two passes: polls and watches, to bound how long a finished
   restart waits for its answer.
2. Several replace requests at once, should the quarantine controller ever run
   more than one worker.
3. Fairness of both leaders: that a request settles across a change of leader,
   which the run `settles` shows of one leader that stops.
