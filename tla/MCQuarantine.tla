---------------------------- MODULE MCQuarantine ----------------------------
(* Settings of Quarantine: two GPUs with one name in different pools, a GPU of
   another name and a network card; pods that name one claim, and pods that
   have a claim each. *)
EXTENDS Quarantine

MCDriverOf  == [d \in Devices |-> IF d = "nic" THEN "net" ELSE "gpu"]
MCNameOf    == [gpuA |-> "a", gpuA2 |-> "a", gpuB |-> "b", nic |-> "n"]
MCPodClaims == [p \in Pods |-> IF p <= 2 THEN {0} ELSE {p}]
Named       == {1, 2}
Templated   == {3, 4, 5}

Plain      == [form |-> "quarantine", list |-> << >>]
ByName     == [form |-> "list", list |-> <<"a">>]
Both       == [form |-> "list", list |-> <<"a", "b">>]
EmptyName  == [form |-> "list", list |-> <<"a", "">>]
OtherWord  == [form |-> "other", list |-> << >>]
All        == {Plain, ByName, EmptyName, OtherWord}

Kubevirt == [kubevirt |-> TRUE, exists |-> TRUE, secretRef |-> FALSE, kubevirtCluster |-> TRUE,
             clusterSecretRef |-> FALSE]

Res(d) == [device |-> d, admin |-> FALSE]
Adm(d) == [device |-> d, admin |-> TRUE]
OneEach   == {{Res("gpuA")}, {Res("gpuA2")}}
OneOrBoth == {{Res("gpuA")}, {Res("gpuB")}, {Res("gpuA"), Res("gpuB")}}
Mixed     == {{Res("gpuA")}, {Res("gpuA2"), Res("nic")}, {Res("nic"), Adm("gpuA2")}}

\* A rule by hand that does not block, and one left by an earlier request.
Toothless == [there |-> TRUE, blocks |-> FALSE, owner |-> 7]
Rules(some, rule) == {[d \in Devices |-> IF d \in on THEN rule ELSE NoRule] : on \in SUBSET some}

Calm ==
  [Requests |-> {Plain, ByName}, DryRun |-> FALSE, Infras |-> {Kubevirt}, Bars |-> {}, Toggles |-> {},
   ClusterStates |-> {"ready"}, FirstRules |-> Rules({}, NoRule), Allocations |-> OneEach,
   LauncherPods |-> Named, Lag |-> TRUE, Failing |-> {}, Refused |-> {},
   Lost |-> {}, MaxFaults |-> 0, MaxEdits |-> 1, MaxMachines |-> 1]

\* Users edit the Machine while answers are lost.
Edited == [Calm EXCEPT !.Toggles = {"marked"}, !.Allocations = {{Res("gpuA")}}, !.Lost = {"delete"},
                       !.LauncherPods = {1}, !.MaxFaults = 1, !.MaxEdits = 2]

\* Requests for two devices, some of which have a rule, and the replacement.
Replacing2 == [Calm EXCEPT !.Requests = {Plain, Both}, !.Allocations = OneOrBoth,
                           !.FirstRules = Rules({"gpuB"}, Toothless),
                           !.Lost = {"create", "delete"}, !.MaxFaults = 1, !.MaxMachines = 2]

\* The virtual machine migrates and restarts under the locator.
Migrating == [Calm EXCEPT !.Allocations = Mixed, !.Refused = {"claim", "pods"}, !.LauncherPods = Templated,
                          !.Lag = FALSE, !.MaxEdits = 0]

\* Requests that cannot be read, or are not for this operator to carry out.
TurnedAway == [Calm EXCEPT !.Requests = All, !.Infras = {Kubevirt, [Kubevirt EXCEPT !.clusterSecretRef = TRUE]},
                           !.Bars = {"unowned"}, !.MaxEdits = 0]

\* A request is picked up again after a failure.
PickedUp == [Calm EXCEPT !.Lag = FALSE, !.Lost = {"status", "create"}, !.Failing = {"delete", "check"},
                         !.MaxFaults = 2]

\* A dry run.
Dry == [Calm EXCEPT !.Requests = All, !.DryRun = TRUE, !.Bars = {"controlPlane"},
                    !.ClusterStates = {"ready", "paused", "unwatched"},
                    !.FirstRules = Rules({"gpuA", "gpuA2"}, RuleFor(1)), !.Refused = {"list", "vm"}]

MCSettings == {Edited, Replacing2, Migrating, TurnedAway, PickedUp, Dry}

\* Any call may fail, and users pause the Machine and take that back.
Retried == [Calm EXCEPT !.Requests = {ByName, OtherWord}, !.Toggles = {"paused"},
                        !.Failing = Reads \cup Writes, !.Allocations = {{Res("gpuA")}},
                        !.MaxFaults = 1, !.MaxEdits = 2]

OneSetting == {Retried}

=============================================================================
