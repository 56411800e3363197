-------------------------------- MODULE News --------------------------------
(***************************************************************************)
(* What the ClusterReconciler remembers of one Cluster between its passes, *)
(* to tell news from what it has said before.                              *)
(*                                                                         *)
(* What is concluded about a signal, by the decision, the guards and the   *)
(* checks that Remediator models, is a value here; a pass compares it with *)
(* what the last pass concluded under the same key and records an Event    *)
(* when the two differ.                                                    *)
(***************************************************************************)
EXTENDS Naturals, FiniteSets

CONSTANTS
  Requests,     \* signals read from ExternalRemediationRequests
  Conditions,   \* signals read from node conditions
  Conclusions,  \* what may be concluded about one
  Modes,        \* the modes the workload cluster may be in
  ClusterStates,
  Settings,     \* which signals share a key, and what may go wrong
  MaxCrashes

Signals == Requests \cup Conditions
None    == "none"
Over    == "over"

ASSUME NewsAssumption ==
  /\ Requests \cap Conditions = {}
  /\ Settings \subseteq [keyOf: [Signals -> Signals], failing: SUBSET {"collect", "read", "act"}]
  /\ \A g \in Settings : \A c, d \in Conditions : g.keyOf[c] = g.keyOf[d] => c = d
  /\ {None, Over} \cap (Conclusions \cup Signals) = {} /\ None # Over
  /\ Modes \subseteq {"ExternalRemediationRequest", "ReportOnly", "NodeCondition"}
  /\ ClusterStates \subseteq {"ready", "paused", "gone"}
  /\ MaxCrashes \in Nat

VARIABLES
  setting,   \* one of the Settings; it does not change
  mode, cluster,
  state,     \* what would be concluded about each signal now; None while it is
             \* not raised, Over once a request is answered or deleted
  seen,      \* ClusterReconciler.seen: what was concluded last, by key
  known,     \* ClusterReconciler.modes: the mode of the last pass
  pc, todo,  \* the pass
  current,   \* what it concluded so far, by key
  met,       \* history: the signals it came across
  told,      \* history: the conclusion last told about a signal that stayed
  failed,    \* history: the signals whose last attempt to act failed
  event,     \* the Event this step recorded
  crashes

outside == <<setting, mode, cluster, state>>
vars == <<outside, seen, known, pc, todo, current, met, told, failed, event, crashes>>

\* The key of a signal, of its node and its check, named by one of its signals.
\* A node has one condition of a check.
KeyOf   == setting.keyOf
Keys    == Signals
Failing == setting.failing

\* No other signal has its key.
Alone(s) == \A t \in Signals \ {s} : KeyOf[t] # KeyOf[s]

\* An observation: the conclusion, and the request it came from.
NoObs == [what |-> None, request |-> None]
Observations == [what: Conclusions \cup {None}, request: Requests \cup {None}]

\* A slip: the request is left out.
ObservedAlike(s) == [what |-> state[s], request |-> None]

Concluded(s, what) == [what |-> what, request |-> IF s \in Requests THEN s ELSE None]

Observed(s) == Concluded(s, state[s])

Unseen == [k \in Keys |-> NoObs]

Nothing == [s \in Signals |-> None]

\* The signals of the mode's source.
Collected ==
  {s \in IF mode = "ExternalRemediationRequest" THEN Requests ELSE Conditions : state[s] \in Conclusions}

-----------------------------------------------------------------------------

\* noteMode: a change of mode drops what was concluded in the old one.
NoteMode ==
  /\ known' = mode
  /\ IF known \in {None, mode} THEN UNCHANGED <<seen, told, failed>>
     ELSE seen' = Unseen /\ told' = Nothing /\ failed' = {}

Begin ==
  /\ pc = "idle" /\ cluster = "ready" /\ NoteMode
  /\ pc' = "signals" /\ todo' = Collected /\ current' = Unseen /\ met' = {} /\ event' = None
  /\ UNCHANGED <<outside, crashes>>

\* The signals cannot be collected: the pass ends with the mode noted.
CollectFails ==
  /\ pc = "idle" /\ cluster = "ready" /\ "collect" \in Failing /\ NoteMode /\ event' = None
  /\ UNCHANGED <<outside, pc, todo, current, met, crashes>>

\* A paused or disconnected Cluster is left alone, and a Cluster that is gone
\* is forgotten.
PassOver ==
  /\ pc = "idle" /\ cluster # "ready" /\ event' = None
  /\ IF cluster = "gone" THEN seen' = Unseen /\ known' = None /\ told' = Nothing /\ failed' = {}
     ELSE UNCHANGED <<seen, known, told, failed>>
  /\ UNCHANGED <<outside, pc, todo, current, met, crashes>>

\* The signal is handled; report records an Event when it is news.
Handle(s) ==
  /\ pc = "signals" /\ s \in todo /\ state[s] \in Conclusions
  /\ LET news == Observed(s) # seen[KeyOf[s]] IN
     /\ event' = IF news THEN s ELSE None
     /\ told' = IF news THEN [told EXCEPT ![s] = state[s]] ELSE told
  /\ current' = [current EXCEPT ![KeyOf[s]] = Observed(s)]
  /\ todo' = todo \ {s} /\ met' = met \cup {s} /\ failed' = failed \ {s}
  /\ UNCHANGED <<outside, seen, known, pc, crashes>>

\* The mark or the escalation fails: nothing was concluded.
ActFails(s) ==
  /\ pc = "signals" /\ s \in todo /\ "act" \in Failing
  /\ current' = [current EXCEPT ![KeyOf[s]] = NoObs]
  /\ todo' = todo \ {s} /\ met' = met \cup {s} /\ failed' = failed \cup {s} /\ event' = None
  /\ UNCHANGED <<outside, seen, known, pc, told, crashes>>

\* The request was answered or deleted since it was collected.
NotPending(s) ==
  /\ pc = "signals" /\ s \in todo /\ s \in Requests /\ state[s] = Over
  /\ todo' = todo \ {s} /\ event' = None
  /\ UNCHANGED <<outside, seen, known, pc, current, met, told, failed, crashes>>

\* A slip: what was concluded about a request that cannot be read is lost.
ForgetUnreadable(s) ==
  /\ pc = "signals" /\ s \in todo /\ s \in Requests /\ "read" \in Failing
  /\ todo' = todo \ {s} /\ met' = met \cup {s} /\ event' = None
  /\ UNCHANGED <<outside, seen, known, pc, current, told, failed, crashes>>

\* The request cannot be read, and what was concluded before is kept.
Unreadable(s) ==
  /\ pc = "signals" /\ s \in todo /\ s \in Requests /\ "read" \in Failing
  /\ current' = IF seen[KeyOf[s]] # NoObs THEN [current EXCEPT ![KeyOf[s]] = seen[KeyOf[s]]] ELSE current
  /\ todo' = todo \ {s} /\ met' = met \cup {s} /\ event' = None
  /\ UNCHANGED <<outside, seen, known, pc, told, failed, crashes>>

\* remember: a signal that was not met has cleared.
Finish ==
  /\ pc = "signals" /\ todo = {}
  /\ seen' = current /\ pc' = "idle" /\ current' = Unseen /\ met' = {} /\ event' = None
  /\ told' = [s \in Signals |-> IF s \in met THEN told[s] ELSE None]
  /\ failed' = failed \cap met
  /\ UNCHANGED <<outside, known, todo, crashes>>

\* The operator stops; another starts with nothing remembered.
Crash ==
  /\ crashes < MaxCrashes /\ crashes' = crashes + 1
  /\ seen' = Unseen /\ known' = None /\ pc' = "idle" /\ todo' = {} /\ current' = Unseen
  /\ met' = {} /\ told' = Nothing /\ failed' = {} /\ event' = None
  /\ UNCHANGED outside

-----------------------------------------------------------------------------
(* Faults come and go, and what is concluded about them changes. *)

Inside == /\ event' = None
          /\ UNCHANGED <<seen, known, pc, todo, current, met, told, failed, crashes>>

\* A condition is read once per pass, a request again when it is handled. A
\* request that was answered or deleted does not come back.
SignalChanges(s) ==
  /\ s \in Requests \/ s \notin todo
  /\ state[s] # Over
  /\ \E what \in (Conclusions \cup {IF s \in Requests THEN Over ELSE None}) \ {state[s]} :
       state' = [state EXCEPT ![s] = what]
  /\ Inside /\ UNCHANGED <<setting, mode, cluster>>

ModeChanges ==
  /\ \E m \in Modes \ {mode} : mode' = m
  /\ Inside /\ UNCHANGED <<setting, cluster, state>>

ClusterChanges ==
  /\ \E c \in ClusterStates \ {cluster} : cluster' = c
  /\ Inside /\ UNCHANGED <<setting, mode, state>>

Init ==
  /\ setting \in Settings
  /\ mode \in Modes /\ cluster \in ClusterStates /\ state = Nothing
  /\ seen = Unseen /\ known = None /\ pc = "idle" /\ todo = {} /\ current = Unseen
  /\ met = {} /\ told = Nothing /\ failed = {} /\ event = None /\ crashes = 0

Next ==
  \/ Begin \/ CollectFails \/ PassOver \/ Finish \/ Crash
  \/ \E s \in Signals : Handle(s) \/ ActFails(s) \/ NotPending(s) \/ Unreadable(s) \/ SignalChanges(s)
  \/ ModeChanges \/ ClusterChanges

Spec == Init /\ [][Next]_vars

-----------------------------------------------------------------------------

TypeOK ==
  /\ setting \in Settings
  /\ state \in [Signals -> Conclusions \cup {None, Over}]
  /\ seen \in [Keys -> Observations] /\ current \in [Keys -> Observations]
  /\ told \in [Signals -> Conclusions \cup {None}]
  /\ todo \subseteq Signals /\ met \subseteq Signals /\ failed \subseteq Signals
  /\ pc \in {"idle", "signals"}

\* A signal waits to be handled or was met, with a conclusion to come to unless
\* it is a request that was over since.
SignalsMet ==
  /\ todo \cap met = {} /\ (pc = "idle" => todo = {} /\ met = {} /\ current = Unseen)
  /\ \A s \in todo : state[s] \in Conclusions \/ (s \in Requests /\ state[s] = Over)

\* What is remembered under the key of a signal is its own to carry over.
Keeps(s) == Alone(s) \/ "read" \notin Failing

\* What is remembered of a signal is what was told of it, and is its own.
RememberedIsTold ==
  \A s \in Signals, w \in Conclusions : Keeps(s) =>
    /\ s \notin met /\ seen[KeyOf[s]] = Concluded(s, w) => told[s] = w
    /\ current[KeyOf[s]] = Concluded(s, w) => told[s] = w /\ s \in met

\* What was told of a signal alone under its key is remembered of it.
ToldIsRemembered ==
  \A s \in Signals : Alone(s) /\ s \notin failed /\ told[s] # None =>
    (IF s \in met THEN current ELSE seen)[KeyOf[s]] = Concluded(s, told[s])

\* What the reconciler remembers between passes and within one agrees with the
\* Events it recorded, whatever failed since (handle, remember, noteMode).
NewsInv == TypeOK /\ SignalsMet /\ RememberedIsTold /\ ToldIsRemembered

\* Whatever is concluded about a signal in a pass has been told: no
\* conclusion is taken for one of an earlier request, of another mode or of
\* a fault that had cleared (handle, noteMode, remember).
ConclusionsTold ==
  [][\A s \in Signals : s \in met' \ met /\ current'[KeyOf[s]] = Observed(s) => told'[s] = state[s]]_vars

\* A conclusion that stays is told once: the Event is not repeated by the
\* polls that follow, nor after one that could not read the request (handle:
\* "a fault that persists across polls does not repeat itself"). It is told
\* again after an attempt to act failed, which starts over. Two requests
\* about one check displace each other's conclusion and are left out.
ToldOnce ==
  [][event' # None /\ Alone(event') => told[event'] # state[event'] \/ event' \in failed]_vars

=============================================================================
