------------------------------ MODULE Decision ------------------------------
(***************************************************************************)
(* From a node condition to a decision: NVSentinel writes the events of a  *)
(* check into the condition's message, whole or cut short; condition.Parse *)
(* reads the recommended actions off it, and decision.Table.Decide reduces *)
(* them to one outcome.  Both loops run one element at a time.             *)
(***************************************************************************)
EXTENDS Integers, Sequences

CONSTANTS
  Names,      \* action names: NVSentinel's, custom ones, and prefixes of them
  Overrides,  \* the entries the command line may add to the table
  Lists,      \* the sequences of actions a check's events may recommend
  NoAction    \* an event that was cut before its action

KnownActions == {"NONE", "COMPONENT_RESET", "CONTACT_SUPPORT", "RUN_FIELDDIAG", "RESTART_VM",
                 "RESTART_BM", "REPLACE_VM", "RUN_DCGMEUD", "CUSTOM", "UNKNOWN"}

Decisions == {"Report", "Restart", "Replace"}

ASSUME NamesAssumption == KnownActions \subseteq Names /\ NoAction \notin Names
ASSUME OverridesAssumption == \A o \in Overrides : \E A \in SUBSET Names : o \in [A -> Decisions]
ASSUME ListsAssumption == Lists \subseteq Seq(Names)

VARIABLES
  entries,  \* Table.entries
  listed,   \* the actions of all the events of the check
  message,  \* the events the condition shows, with how they were cut
  phase,    \* what is being done: Parse, Decide, or nothing any more
  at,       \* the element the loop is at
  actions,  \* Signal.Actions
  best,     \* the outcome so far
  bestKnown,
  found

vars == <<entries, listed, message, phase, at, actions, best, bestKnown, found>>

-----------------------------------------------------------------------------
(* The table *)

Rank == [Report |-> 0, Restart |-> 1, Replace |-> 2]

MoreDisruptive(d, o) == Rank[d] > Rank[o]

Defaults ==
  [a \in KnownActions |-> IF a = "REPLACE_VM" THEN "Replace"
                          ELSE IF a \in {"RESTART_VM", "RESTART_BM"} THEN "Restart" ELSE "Report"]

\* The built-in table with the overrides, for whatever action they name.
New(overrides) ==
  [a \in KnownActions \cup DOMAIN overrides |->
     IF a \in DOMAIN overrides THEN overrides[a] ELSE Defaults[a]]

Known(a) == a \in DOMAIN entries

Lookup(a) == IF Known(a) THEN entries[a] ELSE "Report"

-----------------------------------------------------------------------------
(* The message *)

Event(a, whole) == [action |-> a, whole |-> whole]

\* What the connector may show of the events: the first `kept' of them and,
\* of the one after, nothing or a part that ends before its action or inside
\* the action's name.
Shown(list) ==
  {[events |-> [i \in 1..Len(list) |-> Event(list[i], TRUE)], truncated |-> FALSE]} \cup
  UNION {{[events |-> [i \in 1..kept |-> Event(list[i], TRUE)], truncated |-> TRUE]} \cup
         {[events |-> Append([i \in 1..kept |-> Event(list[i], TRUE)], Event(a, FALSE)),
           truncated |-> TRUE] : a \in (Names \ KnownActions) \cup {NoAction}}
         : kept \in 0..(Len(list) - 1)}

\* The event ends in an action NVSentinel can emit.
IsComplete(event) == event.whole /\ event.action \in KnownActions

\* A slip: the event that was cut is read like the others.
EventsWithCut == message.events

\* The events to read: the last one of a truncated message only when it is
\* complete.
Events ==
  LET last == Len(message.events)
  IN  IF message.truncated /\ last > 0 /\ ~IsComplete(message.events[last])
      THEN SubSeq(message.events, 1, last - 1)
      ELSE message.events

\* Some event names an action: the condition is NVSentinel's.
Marked == \E i \in DOMAIN message.events : message.events[i].action # NoAction

-----------------------------------------------------------------------------
(* Parse and Decide *)

Elements(s) == {s[i] : i \in DOMAIN s}

\* The condition is not NVSentinel's: there is no signal.
Ignore ==
  /\ phase = "parse" /\ at = 1 /\ ~Marked
  /\ phase' = "ignored"
  /\ UNCHANGED <<entries, listed, message, at, actions, best, bestKnown, found>>

\* captures: the actions in order of first appearance, each once.
Capture ==
  /\ phase = "parse" /\ Marked /\ at <= Len(Events)
  /\ LET a == Events[at].action
     IN  actions' = IF a = NoAction \/ a \in Elements(actions) THEN actions ELSE Append(actions, a)
  /\ at' = at + 1
  /\ UNCHANGED <<entries, listed, message, phase, best, bestKnown, found>>

Parsed ==
  /\ phase = "parse" /\ Marked /\ at > Len(Events)
  /\ phase' = "decide" /\ at' = 1
  /\ UNCHANGED <<entries, listed, message, actions, best, bestKnown, found>>

\* A slip: the first action the table knows counts.
ReplacesBestFirst(a) == ~found \/ (Known(a) /\ ~bestKnown)

\* A slip: of two equal actions the one listed later counts.
ReplacesBestLater(a) ==
  \/ ~found
  \/ ~MoreDisruptive(best.decision, Lookup(a))

\* The action determines the outcome from here on.
ReplacesBest(a) ==
  \/ ~found
  \/ MoreDisruptive(Lookup(a), best.decision)
  \/ Known(a) /\ ~bestKnown /\ Lookup(a) = best.decision

Consider ==
  /\ phase = "decide" /\ at <= Len(actions)
  /\ LET a == actions[at]
     IN  IF ReplacesBest(a)
         THEN /\ best' = [decision |-> Lookup(a), action |-> a]
              /\ bestKnown' = Known(a) /\ found' = TRUE
         ELSE UNCHANGED <<best, bestKnown, found>>
  /\ at' = at + 1
  /\ UNCHANGED <<entries, listed, message, phase, actions>>

\* A signal without an action is reported.
Decide ==
  /\ phase = "decide" /\ at > Len(actions)
  /\ phase' = "done"
  /\ best' = IF found THEN best ELSE [decision |-> "Report", action |-> NoAction]
  /\ UNCHANGED <<entries, listed, message, at, actions, bestKnown, found>>

Init ==
  /\ \E o \in Overrides : entries = New(o)
  /\ listed \in Lists /\ message \in Shown(listed)
  /\ phase = "parse" /\ at = 1 /\ actions = <<>>
  /\ best = [decision |-> "Report", action |-> NoAction] /\ bestKnown = FALSE /\ found = FALSE

Next == Ignore \/ Capture \/ Parsed \/ Consider \/ Decide

Spec == Init /\ [][Next]_vars

-----------------------------------------------------------------------------
(* Properties *)

\* The outcome is the most disruptive of the decisions for the signal's
\* actions, and Report without an action, whatever their order (Decide).
MostDisruptiveWins ==
  phase = "done" =>
    /\ \A i \in DOMAIN actions : ~MoreDisruptive(Lookup(actions[i]), best.decision)
    /\ IF actions = <<>> THEN best.decision = "Report"
       ELSE \E i \in DOMAIN actions : actions[i] = best.action /\ Lookup(actions[i]) = best.decision

\* The outcome names the first action with that decision that the table
\* knows, or the first one when it knows none, as the test "known report beats
\* unknown for naming" expects.  The comment on Decide says otherwise, "among
\* equals the first action listed is named": of an unknown action and then a
\* known one that is reported, the code names the second.
FirstKnownIsNamed ==
  phase = "done" /\ actions # <<>> =>
    \E i \in DOMAIN actions :
      /\ actions[i] = best.action
      /\ \A j \in 1..(i - 1) : Lookup(actions[j]) = best.decision => ~Known(actions[j]) /\ Known(actions[i])
      /\ \A j \in DOMAIN actions : Lookup(actions[j]) = best.decision /\ Known(actions[j]) => Known(actions[i])

\* A message that was cut short never leads to more than the whole one would
\* have: whatever is left of the last event is not taken for an action
\* (events, Decide: "a truncated signal never escalates").
TruncationNeverEscalates ==
  phase = "done" /\ best.decision # "Report" =>
    \E i \in DOMAIN listed : ~MoreDisruptive(best.decision, Lookup(listed[i]))

=============================================================================
