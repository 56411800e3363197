-------------------------- MODULE DeviceSelection ---------------------------
(***************************************************************************)
(* Package quarantine: which devices a replace request names, which ones a *)
(* Machine's virtual machine holds, and which rules keep a device from     *)
(* being scheduled.                                                        *)
(*                                                                         *)
(* A device stands for its driver, pool and name; two devices of different *)
(* pools may have one name.  RuleName follows from the device alone, so a  *)
(* rule is found by its device; that two digests never meet is assumed.    *)
(***************************************************************************)
EXTENDS Naturals, FiniteSets, Sequences

CONSTANTS
  Devices,
  DriverOf,    \* the driver of a device
  NameOf,      \* its name, without the pool
  Names,       \* the names a request may list
  Drivers,     \* --quarantine-drivers
  Pods,        \* virt-launcher pods
  Claims,      \* ResourceClaims
  PodClaims    \* the claims a pod's spec or status names

ASSUME DevicesAssumption ==
  /\ DOMAIN DriverOf = Devices
  /\ NameOf \in [Devices -> Names] /\ "" \notin Names
  /\ PodClaims \in [Pods -> SUBSET Claims]

-----------------------------------------------------------------------------
(* The request: the value of the replace annotation, as "quarantine" alone,
   followed by a list of names (empty ones among them), or anything else. *)

RequestValues == [form: {"quarantine", "list", "other"}, list: Seq(Names \cup {""})]

Listed(value) == {value.list[i] : i \in DOMAIN value.list}

\* ParseRequest succeeds.
ParseOK(value) ==
  \/ value.form = "quarantine"
  \/ value.form = "list" /\ "" \notin Listed(value)

\* The names it returns, none for a request that lists none.
ParseRequest(value) == IF value.form = "list" THEN Listed(value) ELSE {}

Matches(devices, name) == {d \in devices : NameOf[d] = name}

Candidates(all) == {d \in all : DriverOf[d] \in Drivers}

\* A slip: a name that no device has is passed over.
SelectSome(all, names) ==
  IF names = {} THEN Cardinality(Candidates(all)) <= 1
  ELSE \A name \in names : Cardinality(Matches(Candidates(all), name)) <= 1

\* Select succeeds: just one device when no name is listed, and otherwise
\* just one for every name.
SelectOK(all, names) ==
  IF names = {} THEN Cardinality(Candidates(all)) = 1
  ELSE \A name \in names : Cardinality(Matches(Candidates(all), name)) = 1

Select(all, names) ==
  {d \in Candidates(all) : names = {} \/ NameOf[d] \in names}

-----------------------------------------------------------------------------
(* The rules: for each device the rule of its name.  `blocks' says that it
   selects the device, with an effect that keeps it from being allocated;
   `owner' is the Machine that the labels and the annotation name. *)

NoOwner == 0
NoRule  == [there |-> FALSE, blocks |-> FALSE, owner |-> NoOwner]
RuleFor(owner) == [there |-> TRUE, blocks |-> TRUE, owner |-> owner]

\* A slip: a rule of the right name is enough.
CheckName(rule) == TRUE

\* check: a rule that is there keeps its device from being allocated.
Check(rule) == rule.blocks

Of(rules, owner) == {d \in Devices : rules[d].there /\ rules[d].blocks /\ rules[d].owner = owner}

Covers(devices, names) == devices # {} /\ \A name \in names : Matches(devices, name) # {}

-----------------------------------------------------------------------------
(* The locator.  What it reads first does not change while a Machine lives:
   the Machine's infrastructure reference, the KubevirtMachine and the
   KubevirtCluster. *)

Infrastructures ==
  [kubevirt: BOOLEAN, exists: BOOLEAN, secretRef: BOOLEAN, kubevirtCluster: BOOLEAN,
   clusterSecretRef: BOOLEAN]

ExternalInfra(infra) == infra.secretRef \/ (infra.kubevirtCluster /\ infra.clusterSecretRef)

Locatable(infra) == infra.kubevirt /\ infra.exists /\ ~ExternalInfra(infra)

\* A slip: the pods that the VMI leaves out count too.
ClaimsOfAll(vmi, pods) ==
  UNION {PodClaims[p] : p \in {q \in Pods : pods[q].vmi = vmi.uid /\ ~pods[q].over}}

\* The claims of the pods of the VMI that have not terminated: of those it
\* lists as active, when it lists any.
ClaimsOf(vmi, pods) ==
  UNION {PodClaims[p] : p \in {q \in Pods : /\ pods[q].vmi = vmi.uid /\ ~pods[q].over
                                            /\ vmi.active # {} => q \in vmi.active}}

\* A claim as the set of its allocation's results; empty when it is gone.
Results == [device: Devices, admin: BOOLEAN]

\* The devices allocated to the claim, admin access left out.
Allocated(claim) == {res.device : res \in {x \in claim : ~x.admin}}

=============================================================================
