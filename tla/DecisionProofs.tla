--------------------------- MODULE DecisionProofs ---------------------------
(* Theorems about Decision, for every table and every sequence of actions. *)
EXTENDS Decision, SequenceTheorems, TLAPS

-----------------------------------------------------------------------------
(* The inductive invariant *)

\* The table decides, for every action.
TableOK == \A a \in DOMAIN entries : entries[a] \in Decisions

ShownEvents == [action: Names \cup {NoAction}, whole: BOOLEAN]

\* Whole events are shown where they were listed, and only the last event of
\* a truncated message may be in parts.
MessageOK ==
  /\ listed \in Seq(Names)
  /\ message.truncated \in BOOLEAN
  /\ message.events \in Seq(ShownEvents)
  /\ \A i \in 1..Len(message.events) :
       /\ message.events[i].whole => i \in 1..Len(listed) /\ message.events[i].action = listed[i]
       /\ i < Len(message.events) \/ ~message.truncated => message.events[i].whole

\* Every action was read off a listed event.
ActionsListed ==
  /\ actions \in Seq(Names) /\ at \in Nat \ {0}
  /\ \A i \in 1..Len(actions) : \E j \in 1..Len(listed) : actions[i] = listed[j]

\* The actions before n led to the outcome so far.
BestBefore(n) ==
  /\ \A i \in 1..Len(actions) : i < n => ~MoreDisruptive(Lookup(actions[i]), best.decision)
  /\ found => \E i \in 1..Len(actions) : i < n /\ actions[i] = best.action
                                         /\ Lookup(actions[i]) = best.decision
  /\ found <=> n > 1
  /\ ~found => best.decision = "Report"

OutcomeOK ==
  /\ best.decision \in Decisions /\ found \in BOOLEAN
  /\ phase \in {"parse", "ignored", "decide", "done"}
  /\ phase = "parse" => ~found /\ best.decision = "Report"
  /\ phase = "decide" => at <= Len(actions) + 1 /\ BestBefore(at)
  /\ phase = "done" => BestBefore(Len(actions) + 1)

DecideInv == TableOK /\ MessageOK /\ ActionsListed /\ OutcomeOK

-----------------------------------------------------------------------------
(* The operators of the module *)

LEMMA LookupType ==
  ASSUME TableOK, NEW a PROVE Lookup(a) \in Decisions
BY DEF TableOK, Lookup, Known, Decisions

\* Ranks order the decisions.
LEMMA RankOrder ==
  ASSUME NEW c \in Decisions, NEW d \in Decisions, NEW e \in Decisions
  PROVE  /\ ~MoreDisruptive(d, d)
         /\ ~MoreDisruptive(c, d) /\ ~MoreDisruptive(d, e) => ~MoreDisruptive(c, e)
         /\ MoreDisruptive(e, d) => ~MoreDisruptive(d, e)
BY DEF MoreDisruptive, Rank, Decisions

LEMMA NewTable ==
  ASSUME NEW o \in Overrides, entries = New(o) PROVE TableOK
<1>1. PICK A \in SUBSET Names : o \in [A -> Decisions] BY OverridesAssumption
<1>2. \A a \in KnownActions : Defaults[a] \in Decisions BY DEF Defaults, Decisions
<1>3. QED BY <1>1, <1>2 DEF New, TableOK

LEMMA WholeEvents ==
  ASSUME listed \in Seq(Names), NEW k \in 0..Len(listed), NEW e,
         e = [i \in 1..k |-> Event(listed[i], TRUE)]
  PROVE  /\ e \in Seq(ShownEvents) /\ Len(e) = k
         /\ \A i \in 1..k : e[i].whole /\ e[i].action = listed[i] /\ i \in 1..Len(listed)
<1>1. \A i \in 1..k : i \in 1..Len(listed) /\ listed[i] \in Names OBVIOUS
<1>2. \A i \in 1..k : e[i] = Event(listed[i], TRUE) OBVIOUS
<1>3. \A a \in Names \cup {NoAction} : Event(a, TRUE) \in ShownEvents BY DEF Event, ShownEvents
<1>4. e \in [1..k -> ShownEvents] BY <1>1, <1>3
<1>5. k \in Nat OBVIOUS
<1>6. e \in Seq(ShownEvents) BY <1>4, <1>5, SeqDef
<1>7. Len(e) = k
  <2>1. DOMAIN e = 1..k BY <1>4
  <2>2. DOMAIN e = 1..Len(e) /\ Len(e) \in Nat BY <1>6
  <2>3. QED BY <1>5, <2>1, <2>2
<1>8. QED BY <1>1, <1>2, <1>6, <1>7 DEF Event

LEMMA ShownMessage ==
  ASSUME listed \in Seq(Names), message \in Shown(listed) PROVE MessageOK
<1>1. ASSUME NEW k \in 0..Len(listed), NEW e, e = [i \in 1..k |-> Event(listed[i], TRUE)],
             NEW t \in BOOLEAN, message = [events |-> e, truncated |-> t]
      PROVE  MessageOK
  <2>1. /\ e \in Seq(ShownEvents) /\ Len(e) = k
        /\ \A i \in 1..k : e[i].whole /\ e[i].action = listed[i] /\ i \in 1..Len(listed)
    BY <1>1, WholeEvents
  <2>2. message.events = e /\ message.truncated = t BY <1>1
  <2>3. QED BY <2>1, <2>2 DEF MessageOK, ShownEvents
<1>2. ASSUME NEW k \in 0..Len(listed), NEW e, e = [i \in 1..k |-> Event(listed[i], TRUE)],
             NEW a \in Names \cup {NoAction},
             message = [events |-> Append(e, Event(a, FALSE)), truncated |-> TRUE]
      PROVE  MessageOK
  <2> DEFINE cut == Event(a, FALSE)
             m == Append(e, cut)
  <2>1. /\ e \in Seq(ShownEvents) /\ Len(e) = k
        /\ \A i \in 1..k : e[i].whole /\ e[i].action = listed[i] /\ i \in 1..Len(listed)
    BY <1>2, WholeEvents
  <2>2. cut \in ShownEvents /\ ~cut.whole BY DEF Event, ShownEvents
  <2> HIDE DEF cut
  <2>3. m \in Seq(ShownEvents) /\ Len(m) = k + 1 /\ m[k + 1] = cut BY <2>1, <2>2
  <2>4. \A i \in 1..k : m[i] = e[i] BY <2>1, <2>2
  <2>5. message.events = m /\ message.truncated = TRUE BY <1>2 DEF cut
  <2> HIDE DEF m
  <2>6. \A i \in 1..Len(m) : i \in 1..k \/ (i = k + 1 /\ ~(i < Len(m))) BY <2>3
  <2>7. QED BY <2>1, <2>2, <2>3, <2>4, <2>5, <2>6 DEF MessageOK, ShownEvents
<1>3. Len(listed) \in 0..Len(listed) /\ \A k \in 0..(Len(listed) - 1) : k \in 0..Len(listed)
  OBVIOUS
<1>4. QED BY <1>1, <1>2, <1>3 DEF Shown

\* What is read are whole events.
LEMMA EventsListed ==
  ASSUME MessageOK, NEW i \in 1..Len(Events)
  PROVE  Events[i].action \in Names /\ \E j \in 1..Len(listed) : Events[i].action = listed[j]
<1> DEFINE last == Len(message.events)
           cut == message.truncated /\ last > 0 /\ ~IsComplete(message.events[last])
<1>1. last \in Nat BY DEF MessageOK
<1>2. i \in 1..last /\ Events[i] = message.events[i] /\ (cut => i < last)
  <2>1. CASE cut BY <1>1, <2>1 DEF Events, MessageOK
  <2>2. CASE ~cut BY <2>2 DEF Events
  <2>3. QED BY <2>1, <2>2
<1>3. message.events[i].whole
  <2>1. CASE cut BY <1>2, <2>1 DEF MessageOK
  <2>2. CASE ~cut /\ i < last BY <1>2, <2>2 DEF MessageOK
  <2>3. CASE ~cut /\ i = last BY <1>1, <1>2, <2>3 DEF MessageOK, IsComplete
  <2>4. QED BY <1>1, <1>2, <2>1, <2>2, <2>3
<1>4. QED BY <1>2, <1>3 DEF MessageOK

-----------------------------------------------------------------------------
(* Every step keeps the invariant *)

LEMMA CaptureInv ==
  ASSUME DecideInv, Capture PROVE DecideInv'
<1> USE DEF DecideInv
<1>1. UNCHANGED <<entries, listed, message, phase, best, found>> /\ phase = "parse"
  BY DEF Capture
<1>2. at \in 1..Len(Events) BY DEF Capture, ActionsListed, Events, MessageOK
<1>3. Events[at].action \in Names /\ \E j \in 1..Len(listed) : Events[at].action = listed[j]
  BY <1>2, EventsListed
<1>4. actions' = actions \/ actions' = Append(actions, Events[at].action) BY DEF Capture
<1>5. ActionsListed'
  <2>1. at' \in Nat \ {0} BY DEF Capture, ActionsListed
  <2>2. CASE actions' = actions BY <1>1, <2>1, <2>2 DEF ActionsListed
  <2>3. CASE actions' = Append(actions, Events[at].action)
    <3>1. actions' \in Seq(Names) /\ Len(actions') = Len(actions) + 1
          /\ actions'[Len(actions) + 1] = Events[at].action
      BY <1>3, <2>3 DEF ActionsListed
    <3>2. \A i \in 1..Len(actions) : actions'[i] = actions[i] BY <2>3 DEF ActionsListed
    <3>3. \A i \in 1..Len(actions') : i \in 1..Len(actions) \/ i = Len(actions) + 1
      BY <3>1 DEF ActionsListed
    <3>4. QED BY <1>1, <1>3, <2>1, <3>1, <3>2, <3>3 DEF ActionsListed
  <2>4. QED BY <1>4, <2>2, <2>3
<1>6. TableOK' /\ MessageOK' BY <1>1 DEF TableOK, MessageOK
<1>7. OutcomeOK' BY <1>1 DEF OutcomeOK
<1>8. QED BY <1>5, <1>6, <1>7

LEMMA ConsiderInv ==
  ASSUME DecideInv, Consider PROVE DecideInv'
<1> USE DEF DecideInv
<1>1. UNCHANGED <<entries, listed, message, phase, actions>> /\ phase = "decide" /\ at' = at + 1
  BY DEF Consider
<1>2. at \in 1..Len(actions) /\ Len(actions) \in Nat BY DEF Consider, ActionsListed
<1>3. BestBefore(at) /\ best.decision \in Decisions BY <1>1 DEF OutcomeOK
<1>4. \A a : Lookup(a) \in Decisions /\ Lookup(a)' = Lookup(a)
  BY <1>1, LookupType DEF Lookup, Known
<1>5. TableOK' /\ MessageOK' /\ ActionsListed'
  BY <1>1, <1>2 DEF TableOK, MessageOK, ActionsListed
<1>6. \A i \in 1..Len(actions) : i < at + 1 => i < at \/ i = at BY <1>2
<1>7. CASE ReplacesBest(actions[at])
  <2> DEFINE a == actions[at]
  <2>1. best' = [decision |-> Lookup(a), action |-> a] /\ found' = TRUE BY <1>7 DEF Consider
  <2>2. best'.decision = Lookup(a) /\ best'.action = a /\ Lookup(a) \in Decisions BY <1>4, <2>1
  <2>3. ~MoreDisruptive(best.decision, Lookup(a)) \/ ~found
    BY <1>3, <1>4, <1>7, RankOrder DEF ReplacesBest
  <2>4. \A i \in 1..Len(actions) : i < at => ~MoreDisruptive(Lookup(actions[i]), Lookup(a))
    BY <1>2, <1>3, <1>4, <2>3, RankOrder DEF BestBefore
  <2>5. \A i \in 1..Len(actions) : i < at + 1 => ~MoreDisruptive(Lookup(actions[i]), Lookup(a))
    BY <1>4, <1>6, <2>4, RankOrder
  <2>6. at < at + 1 /\ at + 1 > 1 BY <1>2
  <2>7. BestBefore(at)' BY <1>1, <1>2, <1>4, <2>1, <2>2, <2>5, <2>6 DEF BestBefore
  <2>8. OutcomeOK' BY <1>1, <1>2, <2>1, <2>2, <2>7 DEF OutcomeOK
  <2>9. QED BY <1>5, <2>8
<1>8. CASE ~ReplacesBest(actions[at])
  <2>1. UNCHANGED <<best, found>> BY <1>8 DEF Consider
  <2>2. found /\ ~MoreDisruptive(Lookup(actions[at]), best.decision) BY <1>8 DEF ReplacesBest, OutcomeOK
  <2>3. \A i \in 1..Len(actions) : i < at + 1 => ~MoreDisruptive(Lookup(actions[i]), best.decision)
    BY <1>3, <1>6, <2>2 DEF BestBefore
  <2>4. \E i \in 1..Len(actions) : i < at + 1 /\ actions[i] = best.action
                                   /\ Lookup(actions[i]) = best.decision
    BY <1>2, <1>3, <2>2 DEF BestBefore
  <2>5. BestBefore(at)' BY <1>1, <1>2, <1>4, <2>1, <2>2, <2>3, <2>4 DEF BestBefore
  <2>6. OutcomeOK' BY <1>1, <1>2, <1>3, <2>1, <2>5 DEF OutcomeOK
  <2>7. QED BY <1>5, <2>6
<1>9. QED BY <1>7, <1>8

LEMMA OtherStepsInv ==
  ASSUME DecideInv, Ignore \/ Parsed \/ Decide \/ UNCHANGED vars PROVE DecideInv'
<1> USE DEF DecideInv
<1>1. UNCHANGED <<entries, listed, message, actions, found>> /\ at' \in Nat \ {0}
  BY DEF Ignore, Parsed, Decide, vars, ActionsListed
<1>2. TableOK' /\ MessageOK' /\ ActionsListed'
  BY <1>1 DEF TableOK, MessageOK, ActionsListed
<1>3. \A a : Lookup(a)' = Lookup(a) BY <1>1 DEF Lookup, Known
<1>4. Len(actions) \in Nat BY DEF ActionsListed
<1>5. CASE Ignore BY <1>2, <1>5 DEF Ignore, OutcomeOK
<1>6. CASE Parsed
  <2>1. /\ UNCHANGED <<best, found, actions>> /\ phase' = "decide" /\ at' = 1 /\ ~found
        /\ best.decision = "Report"
    BY <1>6 DEF Parsed, OutcomeOK
  <2>2. BestBefore(at)' BY <1>3, <1>4, <2>1 DEF BestBefore
  <2>3. OutcomeOK' BY <1>4, <2>1, <2>2 DEF OutcomeOK, Decisions
  <2>4. QED BY <1>2, <2>3
<1>7. CASE Decide
  <2>1. /\ phase' = "done" /\ phase = "decide" /\ at = Len(actions) + 1 /\ BestBefore(at)
    BY <1>4, <1>7 DEF Decide, OutcomeOK, ActionsListed
  <2>2. best'.decision = best.decision /\ (found => best' = best)
    BY <1>7, <2>1 DEF Decide, BestBefore
  <2>3. BestBefore(Len(actions) + 1)' BY <1>1, <1>3, <2>1, <2>2 DEF BestBefore
  <2>4. OutcomeOK' BY <1>1, <2>1, <2>2, <2>3 DEF OutcomeOK
  <2>5. QED BY <1>2, <2>4
<1>8. CASE UNCHANGED vars
  <2>1. OutcomeOK' BY <1>8 DEF vars, OutcomeOK, BestBefore, Lookup, Known
  <2>2. QED BY <1>2, <2>1
<1>9. QED BY <1>5, <1>6, <1>7, <1>8

LEMMA DecideInvariant == Spec => []DecideInv
<1>1. Init => DecideInv
  <2> SUFFICES ASSUME Init PROVE DecideInv OBVIOUS
  <2>1. TableOK BY NewTable DEF Init
  <2>2. listed \in Seq(Names) BY ListsAssumption DEF Init
  <2>3. MessageOK BY <2>2, ShownMessage DEF Init
  <2>4. ActionsListed BY DEF Init, ActionsListed
  <2>5. OutcomeOK BY DEF Init, OutcomeOK, Decisions
  <2>6. QED BY <2>1, <2>3, <2>4, <2>5 DEF DecideInv
<1>2. DecideInv /\ [Next]_vars => DecideInv'
  BY CaptureInv, ConsiderInv, OtherStepsInv DEF Next
<1>3. QED BY <1>1, <1>2, PTL DEF Spec

-----------------------------------------------------------------------------
(* The theorems *)

\* The decision for a signal is the most disruptive one among its actions,
\* for every table, every number of actions and every order (Table.Decide).
THEOREM DecidesMostDisruptive == Spec => []MostDisruptiveWins
<1>1. DecideInv => MostDisruptiveWins
  <2> SUFFICES ASSUME DecideInv, phase = "done" PROVE MostDisruptiveWins
    BY DEF MostDisruptiveWins
  <2>1. BestBefore(Len(actions) + 1) /\ actions \in Seq(Names)
    BY DEF DecideInv, OutcomeOK, ActionsListed
  <2>2. DOMAIN actions = 1..Len(actions) /\ Len(actions) \in Nat BY <2>1
  <2>3. \A i \in DOMAIN actions : ~MoreDisruptive(Lookup(actions[i]), best.decision)
    BY <2>1, <2>2 DEF BestBefore
  <2>4. CASE actions = <<>> BY <2>1, <2>3, <2>4 DEF BestBefore, MostDisruptiveWins
  <2>5. CASE actions # <<>>
    <3>1. Len(actions) + 1 > 1 BY <2>1, <2>5
    <3>2. found BY <2>1, <3>1 DEF BestBefore
    <3>3. QED BY <2>1, <2>2, <2>3, <2>5, <3>2 DEF BestBefore, MostDisruptiveWins
  <2>6. QED BY <2>4, <2>5
<1>2. QED BY <1>1, DecideInvariant, PTL

\* However a condition's message is cut short, the operator decides nothing
\* more disruptive than the whole message called for (condition.events).
THEOREM TruncationIsSafe == Spec => []TruncationNeverEscalates
<1>1. DecideInv => TruncationNeverEscalates
  <2> SUFFICES ASSUME DecideInv, phase = "done", best.decision # "Report"
               PROVE  \E i \in DOMAIN listed : ~MoreDisruptive(best.decision, Lookup(listed[i]))
    BY DEF TruncationNeverEscalates
  <2>1. BestBefore(Len(actions) + 1) /\ best.decision \in Decisions BY DEF DecideInv, OutcomeOK
  <2>2. PICK i \in 1..Len(actions) : Lookup(actions[i]) = best.decision BY <2>1 DEF BestBefore
  <2>3. PICK j \in 1..Len(listed) : actions[i] = listed[j] BY DEF DecideInv, ActionsListed
  <2>4. j \in DOMAIN listed BY DEF DecideInv, MessageOK
  <2>5. ~MoreDisruptive(best.decision, Lookup(listed[j])) BY <2>1, <2>2, <2>3, RankOrder
  <2>6. QED BY <2>4, <2>5
<1>2. QED BY <1>1, DecideInvariant, PTL

-----------------------------------------------------------------------------
(* Which action the outcome names *)

\* Position i names the outcome, as far as the actions before n say.
NamesOutcome(i, n) ==
  /\ i < n /\ actions[i] = best.action /\ Lookup(actions[i]) = best.decision
  /\ bestKnown = Known(actions[i])
  /\ \A j \in 1..Len(actions) : j < i /\ Lookup(actions[j]) = best.decision =>
       ~Known(actions[j]) /\ bestKnown
  /\ \A j \in 1..Len(actions) : j < n /\ Lookup(actions[j]) = best.decision /\ Known(actions[j]) =>
       bestKnown

NamedBefore(n) == found => \E i \in 1..Len(actions) : NamesOutcome(i, n)

NamedInv ==
  /\ phase = "parse" => ~found
  /\ phase = "decide" => NamedBefore(at)
  /\ phase = "done" => NamedBefore(Len(actions) + 1)

LEMMA ConsiderNamed ==
  ASSUME DecideInv, NamedInv, Consider PROVE NamedInv'
<1>1. UNCHANGED <<entries, phase, actions>> /\ phase = "decide" /\ at' = at + 1
  BY DEF Consider
<1>2. at \in 1..Len(actions) /\ Len(actions) \in Nat BY DEF Consider, DecideInv, ActionsListed
<1>3. BestBefore(at) /\ NamedBefore(at) /\ best.decision \in Decisions
  BY <1>1 DEF DecideInv, OutcomeOK, NamedInv
<1>4. \A a : Lookup(a) \in Decisions /\ Lookup(a)' = Lookup(a) /\ Known(a)' = Known(a)
  BY <1>1, LookupType DEF DecideInv, Lookup, Known
<1>5. \A i \in 1..Len(actions) : i < at + 1 => i < at \/ i = at BY <1>2
<1>6. CASE ReplacesBest(actions[at])
  <2> DEFINE a == actions[at]
  <2>1. best' = [decision |-> Lookup(a), action |-> a] /\ bestKnown' = Known(a)
    BY <1>6 DEF Consider
  <2>2. best'.decision = Lookup(a) /\ best'.action = a BY <2>1
  <2>3. \A j \in 1..Len(actions) : j < at /\ Lookup(actions[j]) = Lookup(a) =>
          ~Known(actions[j]) /\ Known(a)
    <3>1. CASE ~found
      <4>1. ~(at > 1) BY <1>3, <3>1 DEF BestBefore
      <4>2. QED BY <1>2, <4>1
    <3>2. CASE MoreDisruptive(Lookup(a), best.decision)
      BY <1>3, <3>2 DEF BestBefore
    <3>3. CASE found /\ Known(a) /\ ~bestKnown /\ Lookup(a) = best.decision
      BY <1>3, <3>3 DEF NamedBefore, NamesOutcome
    <3>4. QED BY <1>6, <3>1, <3>2, <3>3 DEF ReplacesBest
  <2>4. PICK i \in 1..Len(actions) : i = at BY <1>2
  <2>5. i < at + 1 BY <1>2, <2>4
  <2>6. NamesOutcome(i, at)'
    BY <1>1, <1>4, <1>5, <2>1, <2>2, <2>3, <2>4, <2>5 DEF NamesOutcome
  <2>7. QED BY <1>1, <2>6 DEF NamedInv, NamedBefore
<1>7. CASE ~ReplacesBest(actions[at])
  <2>1. UNCHANGED <<best, bestKnown, found>> /\ found BY <1>7 DEF Consider, ReplacesBest
  <2>2. PICK i \in 1..Len(actions) : NamesOutcome(i, at) BY <1>3, <2>1 DEF NamedBefore
  <2>3. Lookup(actions[at]) = best.decision /\ Known(actions[at]) => bestKnown
    BY <1>7 DEF ReplacesBest
  <2>4. i < at + 1 BY <1>2, <2>2 DEF NamesOutcome
  <2>5. NamesOutcome(i, at)'
    BY <1>1, <1>4, <1>5, <2>1, <2>2, <2>3, <2>4 DEF NamesOutcome
  <2>6. QED BY <1>1, <2>1, <2>5 DEF NamedInv, NamedBefore
<1>8. QED BY <1>6, <1>7

LEMMA OtherStepsNamed ==
  ASSUME DecideInv, NamedInv, Ignore \/ Capture \/ Parsed \/ Decide \/ UNCHANGED vars
  PROVE  NamedInv'
<1>1. CASE Ignore BY <1>1 DEF Ignore, NamedInv
<1>2. CASE Capture BY <1>2 DEF Capture, NamedInv
<1>3. CASE Parsed BY <1>3 DEF Parsed, NamedInv, NamedBefore
<1>4. CASE Decide
  <2>1. /\ phase' = "done" /\ phase = "decide" /\ at = Len(actions) + 1
        /\ UNCHANGED <<entries, actions, bestKnown, found>> /\ (found => best' = best)
    BY <1>4 DEF Decide, DecideInv, OutcomeOK, ActionsListed
  <2>2. \A a : Lookup(a)' = Lookup(a) /\ Known(a)' = Known(a) BY <2>1 DEF Lookup, Known
  <2>3. NamedBefore(Len(actions) + 1) BY <2>1 DEF NamedInv
  <2>4. NamedBefore(Len(actions) + 1)' BY <2>1, <2>2, <2>3 DEF NamedBefore, NamesOutcome
  <2>5. QED BY <2>1, <2>4 DEF NamedInv
<1>5. CASE UNCHANGED vars
  BY <1>5 DEF vars, NamedInv, NamedBefore, NamesOutcome, Lookup, Known
<1>6. QED BY <1>1, <1>2, <1>3, <1>4, <1>5

\* The outcome names the first of the actions with its decision that the table
\* knows, and the first of them all when it knows none, for every table and
\* every order of the actions (Table.Decide).
THEOREM NamesFirstKnown == Spec => []FirstKnownIsNamed
<1>1. Init => NamedInv BY DEF Init, NamedInv
<1>2. DecideInv /\ NamedInv /\ [Next]_vars => NamedInv'
  BY ConsiderNamed, OtherStepsNamed DEF Next
<1>3. DecideInv /\ NamedInv => FirstKnownIsNamed
  <2> SUFFICES ASSUME DecideInv, NamedInv, phase = "done", actions # <<>>
               PROVE  \E i \in DOMAIN actions :
                        /\ actions[i] = best.action
                        /\ \A j \in 1..(i - 1) : Lookup(actions[j]) = best.decision =>
                             ~Known(actions[j]) /\ Known(actions[i])
                        /\ \A j \in DOMAIN actions :
                             Lookup(actions[j]) = best.decision /\ Known(actions[j]) => Known(actions[i])
    BY DEF FirstKnownIsNamed
  <2>1. actions \in Seq(Names) /\ BestBefore(Len(actions) + 1) /\ NamedBefore(Len(actions) + 1)
    BY DEF DecideInv, OutcomeOK, ActionsListed, NamedInv
  <2>2. DOMAIN actions = 1..Len(actions) /\ Len(actions) \in Nat /\ Len(actions) + 1 > 1 BY <2>1
  <2>3. found BY <2>1, <2>2 DEF BestBefore
  <2>4. PICK i \in 1..Len(actions) : NamesOutcome(i, Len(actions) + 1)
    BY <2>1, <2>3 DEF NamedBefore
  <2>5. \A j \in 1..(i - 1) : j \in 1..Len(actions) /\ j < i BY <2>2
  <2>6. \A j \in 1..Len(actions) : j < Len(actions) + 1 BY <2>2
  <2>7. QED BY <2>2, <2>4, <2>5, <2>6 DEF NamesOutcome
<1>4. QED BY <1>1, <1>2, <1>3, DecideInvariant, PTL DEF Spec

=============================================================================
