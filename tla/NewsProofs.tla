---------------------------- MODULE NewsProofs ----------------------------
(* Theorems about News, for any signals, keys, conclusions and failures. *)
EXTENDS News, TLAPS

-----------------------------------------------------------------------------
(* Keys and observations *)

LEMMA KeysOK ==
  ASSUME TypeOK
  PROVE  /\ KeyOf \in [Signals -> Keys]
         /\ \A c, d \in Conditions : KeyOf[c] = KeyOf[d] => c = d
BY NewsAssumption DEF TypeOK, KeyOf, Keys

\* Two signals of one key are told apart by their observations.
LEMMA ObservationsDiffer ==
  ASSUME TypeOK, NEW s \in Signals, NEW t \in Signals, NEW v, NEW w, s # t,
         KeyOf[s] = KeyOf[t]
  PROVE  Concluded(s, v) # Concluded(t, w)
BY KeysOK, NewsAssumption DEF Concluded, Signals

LEMMA ConcludedFields ==
  ASSUME NEW s \in Signals, NEW v, NEW w
  PROVE  /\ Concluded(s, v) = Concluded(s, w) => v = w
         /\ v # None => Concluded(s, v) # NoObs
         /\ v \in Conclusions => Concluded(s, v) \in Observations
         /\ Concluded(s, v) \in Observations => v \in Conclusions \cup {None}
BY DEF Concluded, NoObs, Observations

LEMMA Blank ==
  /\ Unseen \in [Keys -> Observations] /\ \A k \in Keys : Unseen[k] = NoObs
  /\ Nothing \in [Signals -> Conclusions \cup {None}] /\ \A s \in Signals : Nothing[s] = None
BY DEF Unseen, Nothing, NoObs, Observations

\* With nothing remembered and nothing told, the invariant holds between passes.
Forgotten == seen = Unseen /\ told = Nothing /\ current = Unseen

LEMMA ForgottenInv ==
  ASSUME TypeOK, Forgotten PROVE RememberedIsTold /\ ToldIsRemembered
<1>1. \A s \in Signals : KeyOf[s] \in Keys BY KeysOK
<1>2. \A w \in Conclusions : w # None BY NewsAssumption
<1>3. \A s \in Signals, w \in Conclusions :
        seen[KeyOf[s]] # Concluded(s, w) /\ current[KeyOf[s]] # Concluded(s, w)
  BY <1>1, <1>2, Blank, ConcludedFields DEF Forgotten
<1>4. QED BY <1>3, Blank DEF Forgotten, RememberedIsTold, ToldIsRemembered

-----------------------------------------------------------------------------
(* Every step keeps the invariant *)

LEMMA TypeKept ==
  ASSUME TypeOK, [Next]_vars PROVE TypeOK'
<1> USE DEF TypeOK
<1>1. NoObs \in Observations /\ {None, Over} \cap Conclusions = {} BY NewsAssumption DEF NoObs, Observations
<1>2. \A s \in Signals : state[s] \in Conclusions => Observed(s) \in Observations
  BY ConcludedFields DEF Observed
<1>3. CASE Begin \/ CollectFails \/ PassOver \/ Finish \/ Crash
  BY <1>3, Blank DEF Begin, CollectFails, PassOver, Finish, Crash, NoteMode, outside, Collected, Signals
<1>4. ASSUME NEW s \in Signals, Handle(s) PROVE TypeOK'
  BY <1>2, <1>4, KeysOK DEF Handle, outside
<1>5. ASSUME NEW s \in Signals, ActFails(s) \/ NotPending(s) \/ Unreadable(s) PROVE TypeOK'
  BY <1>1, <1>5, KeysOK DEF ActFails, NotPending, Unreadable, outside
<1>6. ASSUME NEW s \in Signals, SignalChanges(s) PROVE TypeOK'
  BY <1>6 DEF SignalChanges, Inside
<1>7. CASE ModeChanges \/ ClusterChanges BY <1>7 DEF ModeChanges, ClusterChanges, Inside
<1>8. CASE UNCHANGED vars BY <1>8 DEF vars, outside
<1>9. QED BY <1>3, <1>4, <1>5, <1>6, <1>7, <1>8 DEF Next

LEMMA MetKept ==
  ASSUME TypeOK, SignalsMet, [Next]_vars PROVE SignalsMet'
<1> USE DEF SignalsMet
<1>1. CASE Begin \/ CollectFails \/ PassOver \/ Finish \/ Crash
  BY <1>1 DEF Begin, CollectFails, PassOver, Finish, Crash, outside, Collected
<1>2. ASSUME NEW s \in Signals, Handle(s) \/ ActFails(s) \/ NotPending(s) \/ Unreadable(s)
      PROVE  SignalsMet'
  BY <1>2 DEF Handle, ActFails, NotPending, Unreadable, outside, TypeOK
<1>3. ASSUME NEW s \in Signals, SignalChanges(s) PROVE SignalsMet'
  BY <1>3 DEF SignalChanges, Inside, TypeOK
<1>4. CASE ModeChanges \/ ClusterChanges BY <1>4 DEF ModeChanges, ClusterChanges, Inside
<1>5. CASE UNCHANGED vars BY <1>5 DEF vars, outside
<1>6. QED BY <1>1, <1>2, <1>3, <1>4, <1>5 DEF Next

\* The setting does not change, nor what follows from it.
LEMMA SettingKept ==
  ASSUME [Next]_vars
  PROVE  /\ setting' = setting /\ KeyOf' = KeyOf /\ Failing' = Failing
         /\ \A s : Alone(s)' = Alone(s) /\ Keeps(s)' = Keeps(s)
<1>1. setting' = setting
  BY DEF Next, Begin, CollectFails, PassOver, Finish, Crash, Handle, ActFails, NotPending, Unreadable,
     SignalChanges, ModeChanges, ClusterChanges, vars, outside
<1>2. QED BY <1>1 DEF KeyOf, Failing, Alone, Keeps

LEMMA HandleKept ==
  ASSUME NewsInv, NEW s \in Signals, Handle(s), TypeOK'
  PROVE  RememberedIsTold' /\ ToldIsRemembered'
<1> USE DEF NewsInv
<1>1. setting' = setting /\ KeyOf' = KeyOf /\ \A t : Alone(t)' = Alone(t) /\ Keeps(t)' = Keeps(t)
  BY SettingKept DEF Next
<1>2. /\ seen' = seen /\ s \notin met /\ met' = met \cup {s} /\ failed' = failed \ {s}
      /\ state[s] \in Conclusions
      /\ current' = [current EXCEPT ![KeyOf[s]] = Observed(s)]
      /\ \A t \in Signals \ {s} : told'[t] = told[t]
      /\ IF Observed(s) # seen[KeyOf[s]] THEN told'[s] = state[s] ELSE told'[s] = told[s]
  BY DEF Handle, TypeOK, SignalsMet
<1>3. Observed(s) = Concluded(s, state[s]) BY DEF Observed
<1>4. current'[KeyOf[s]] = Observed(s) /\ \A k \in Keys \ {KeyOf[s]} : current'[k] = current[k]
  BY <1>2, KeysOK DEF TypeOK
<1>5. Keeps(s) => told'[s] = state[s] BY <1>2, <1>3 DEF RememberedIsTold
<1>6. RememberedIsTold'
  <2> SUFFICES ASSUME NEW t \in Signals, NEW w \in Conclusions, Keeps(t)
               PROVE  /\ t \notin met' /\ seen'[KeyOf[t]] = Concluded(t, w) => told'[t] = w
                      /\ current'[KeyOf[t]] = Concluded(t, w) => told'[t] = w /\ t \in met'
    BY <1>1 DEF RememberedIsTold
  <2>1. CASE t = s BY <1>2, <1>3, <1>4, <1>5, <2>1, ConcludedFields
  <2>2. CASE t # s /\ KeyOf[t] = KeyOf[s]
    <3>1. current'[KeyOf[t]] # Concluded(t, w) BY <1>3, <1>4, <2>2, ObservationsDiffer
    <3>2. QED BY <1>2, <2>2, <3>1 DEF RememberedIsTold
  <2>3. CASE t # s /\ KeyOf[t] # KeyOf[s] BY <1>2, <1>4, <2>3, KeysOK DEF RememberedIsTold
  <2>4. QED BY <2>1, <2>2, <2>3
<1>7. ToldIsRemembered'
  <2> SUFFICES ASSUME NEW t \in Signals, Alone(t), t \notin failed', told'[t] # None
               PROVE  (IF t \in met' THEN current' ELSE seen')[KeyOf[t]] = Concluded(t, told'[t])
    BY <1>1 DEF ToldIsRemembered
  <2>1. CASE t = s BY <1>2, <1>3, <1>4, <1>5, <2>1 DEF Keeps
  <2>2. CASE t # s
    <3>1. KeyOf[t] # KeyOf[s] BY <2>2 DEF Alone
    <3>2. QED BY <1>2, <1>4, <2>2, <3>1, KeysOK DEF ToldIsRemembered
  <2>3. QED BY <2>1, <2>2
<1>8. QED BY <1>6, <1>7

LEMMA ActFailsKept ==
  ASSUME NewsInv, NEW s \in Signals, ActFails(s), TypeOK'
  PROVE  RememberedIsTold' /\ ToldIsRemembered'
<1> USE DEF NewsInv
<1>1. setting' = setting /\ KeyOf' = KeyOf /\ \A t : Alone(t)' = Alone(t) /\ Keeps(t)' = Keeps(t)
  BY SettingKept DEF Next
<1>2. /\ seen' = seen /\ told' = told /\ met' = met \cup {s} /\ failed' = failed \cup {s}
      /\ current' = [current EXCEPT ![KeyOf[s]] = NoObs]
  BY DEF ActFails
<1>3. current'[KeyOf[s]] = NoObs /\ \A k \in Keys \ {KeyOf[s]} : current'[k] = current[k]
  BY <1>2, KeysOK DEF TypeOK
<1>4. \A t \in Signals, w \in Conclusions : Concluded(t, w) # NoObs BY ConcludedFields, NewsAssumption
<1>5. RememberedIsTold' BY <1>1, <1>2, <1>3, <1>4, KeysOK DEF RememberedIsTold
<1>6. ToldIsRemembered'
  <2> SUFFICES ASSUME NEW t \in Signals, Alone(t), t \notin failed', told'[t] # None
               PROVE  (IF t \in met' THEN current' ELSE seen')[KeyOf[t]] = Concluded(t, told'[t])
    BY <1>1 DEF ToldIsRemembered
  <2>1. t # s /\ KeyOf[t] # KeyOf[s] BY <1>2 DEF Alone
  <2>2. QED BY <1>2, <1>3, <2>1, KeysOK DEF ToldIsRemembered
<1>7. QED BY <1>5, <1>6

LEMMA UnreadableKept ==
  ASSUME NewsInv, NEW s \in Signals, Unreadable(s), TypeOK'
  PROVE  RememberedIsTold' /\ ToldIsRemembered'
<1> USE DEF NewsInv
<1>1. setting' = setting /\ KeyOf' = KeyOf /\ \A t : Alone(t)' = Alone(t) /\ Keeps(t)' = Keeps(t)
  BY SettingKept DEF Next
<1>2. /\ seen' = seen /\ told' = told /\ s \notin met /\ met' = met \cup {s} /\ failed' = failed
      /\ current' = IF seen[KeyOf[s]] # NoObs
                    THEN [current EXCEPT ![KeyOf[s]] = seen[KeyOf[s]]] ELSE current
      /\ "read" \in Failing
  BY DEF Unreadable, SignalsMet
<1>3. \A k \in Keys \ {KeyOf[s]} : current'[k] = current[k] BY <1>2, KeysOK DEF TypeOK
<1>4. seen[KeyOf[s]] # NoObs => current'[KeyOf[s]] = seen[KeyOf[s]] BY <1>2, KeysOK DEF TypeOK
<1>5. seen[KeyOf[s]] = NoObs => current'[KeyOf[s]] = current[KeyOf[s]] BY <1>2
<1>6. \A t \in Signals : Keeps(t) => Alone(t) /\ (t # s => KeyOf[t] # KeyOf[s])
  BY <1>2 DEF Keeps, Alone
<1>7. RememberedIsTold'
  <2> SUFFICES ASSUME NEW t \in Signals, NEW w \in Conclusions, Keeps(t)
               PROVE  /\ t \notin met' /\ seen'[KeyOf[t]] = Concluded(t, w) => told'[t] = w
                      /\ current'[KeyOf[t]] = Concluded(t, w) => told'[t] = w /\ t \in met'
    BY <1>1 DEF RememberedIsTold
  <2>1. CASE t = s BY <1>2, <1>4, <1>5, <2>1 DEF RememberedIsTold
  <2>2. CASE t # s BY <1>2, <1>3, <1>6, <2>2, KeysOK DEF RememberedIsTold
  <2>3. QED BY <2>1, <2>2
<1>8. ToldIsRemembered'
  <2> SUFFICES ASSUME NEW t \in Signals, Alone(t), t \notin failed', told'[t] # None
               PROVE  (IF t \in met' THEN current' ELSE seen')[KeyOf[t]] = Concluded(t, told'[t])
    BY <1>1 DEF ToldIsRemembered
  <2>1. CASE t = s
    <3>1. seen[KeyOf[t]] = Concluded(t, told[t]) BY <1>2, <2>1 DEF ToldIsRemembered
    <3>2. seen[KeyOf[t]] # NoObs BY <1>2, <3>1, ConcludedFields
    <3>3. QED BY <1>2, <1>4, <2>1, <3>1, <3>2
  <2>2. CASE t # s
    <3>1. KeyOf[t] # KeyOf[s] BY <2>2 DEF Alone
    <3>2. QED BY <1>2, <1>3, <2>2, <3>1, KeysOK DEF ToldIsRemembered
  <2>3. QED BY <2>1, <2>2
<1>9. QED BY <1>7, <1>8

LEMMA FinishKept ==
  ASSUME NewsInv, Finish, TypeOK'
  PROVE  RememberedIsTold' /\ ToldIsRemembered'
<1> USE DEF NewsInv
<1>1. setting' = setting /\ KeyOf' = KeyOf /\ \A t : Alone(t)' = Alone(t) /\ Keeps(t)' = Keeps(t)
  BY SettingKept DEF Next
<1>2. /\ seen' = current /\ current' = Unseen /\ met' = {} /\ failed' = failed \cap met
      /\ \A t \in Signals : told'[t] = IF t \in met THEN told[t] ELSE None
  BY DEF Finish
<1>3. \A t \in Signals, w \in Conclusions : current'[KeyOf[t]] # Concluded(t, w)
  BY <1>2, KeysOK, Blank, ConcludedFields, NewsAssumption
<1>4. RememberedIsTold' BY <1>1, <1>2, <1>3 DEF RememberedIsTold
<1>5. ToldIsRemembered'
  <2> SUFFICES ASSUME NEW t \in Signals, Alone(t), t \notin failed', told'[t] # None
               PROVE  (IF t \in met' THEN current' ELSE seen')[KeyOf[t]] = Concluded(t, told'[t])
    BY <1>1 DEF ToldIsRemembered
  <2>1. t \in met /\ t \notin failed /\ told'[t] = told[t] BY <1>2
  <2>2. QED BY <1>2, <2>1 DEF ToldIsRemembered
<1>6. QED BY <1>4, <1>5

\* The other steps remember all or nothing.
LEMMA OthersKept ==
  ASSUME NewsInv, TypeOK',
         \/ Begin \/ CollectFails \/ PassOver \/ Crash \/ ModeChanges \/ ClusterChanges \/ UNCHANGED vars
         \/ \E s \in Signals : NotPending(s) \/ SignalChanges(s)
  PROVE  RememberedIsTold' /\ ToldIsRemembered'
<1> USE DEF NewsInv
<1>1. setting' = setting /\ KeyOf' = KeyOf /\ \A t : Alone(t)' = Alone(t) /\ Keeps(t)' = Keeps(t)
  BY SettingKept DEF Next
<1>2. \/ Forgotten'
      \/ UNCHANGED <<seen, told, failed>> /\ pc = "idle" /\ met' = {} /\ current' = Unseen
      \/ UNCHANGED <<seen, told, failed, met, current>>
  BY DEF Begin, CollectFails, PassOver, Crash, ModeChanges, ClusterChanges, NotPending, SignalChanges,
     vars, Inside, NoteMode, Forgotten, SignalsMet
<1>3. CASE Forgotten' BY <1>3, ForgottenInv, PTL
<1>4. CASE UNCHANGED <<seen, told, failed>> /\ pc = "idle" /\ met' = {} /\ current' = Unseen
  <2>1. met = {} BY <1>4 DEF SignalsMet
  <2>2. \A t \in Signals, w \in Conclusions : current'[KeyOf[t]] # Concluded(t, w)
    BY <1>4, KeysOK, Blank, ConcludedFields, NewsAssumption
  <2>3. QED BY <1>1, <1>4, <2>1, <2>2 DEF RememberedIsTold, ToldIsRemembered
<1>5. CASE UNCHANGED <<seen, told, failed, met, current>>
  BY <1>1, <1>5 DEF RememberedIsTold, ToldIsRemembered
<1>6. QED BY <1>2, <1>3, <1>4, <1>5

\* What the reconciler remembers agrees with the Events it recorded, in every
\* setting: whichever signals share a key, and whatever cannot be read,
\* collected or acted on (handle, remember, noteMode).
THEOREM MemoryAgreesWithEvents == Spec => []NewsInv
<1>1. Init => NewsInv
  <2> SUFFICES ASSUME Init PROVE NewsInv OBVIOUS
  <2>1. TypeOK BY Blank DEF Init, TypeOK
  <2>2. SignalsMet BY DEF Init, SignalsMet
  <2>3. RememberedIsTold /\ ToldIsRemembered BY <2>1, ForgottenInv DEF Init, Forgotten
  <2>4. QED BY <2>1, <2>2, <2>3 DEF NewsInv
<1>2. NewsInv /\ [Next]_vars => NewsInv'
  <2> SUFFICES ASSUME NewsInv, [Next]_vars PROVE NewsInv' OBVIOUS
  <2>1. TypeOK' /\ SignalsMet' BY TypeKept, MetKept DEF NewsInv
  <2>2. RememberedIsTold' /\ ToldIsRemembered'
    BY <2>1, HandleKept, ActFailsKept, UnreadableKept, FinishKept, OthersKept DEF Next
  <2>3. QED BY <2>1, <2>2 DEF NewsInv
<1>3. QED BY <1>1, <1>2, PTL DEF Spec

-----------------------------------------------------------------------------
(* The theorems *)

\* A conclusion that stays is told once: the Event of a signal alone under its
\* key comes again only after an attempt to act on it failed, in every setting
\* and whichever polls could not collect or read it (handle).
THEOREM NewsIsToldOnce == Spec => ToldOnce
<1>1. NewsInv /\ [Next]_vars =>
        [event' # None /\ Alone(event') => told[event'] # state[event'] \/ event' \in failed]_vars
  <2> SUFFICES ASSUME NewsInv, Next, event' # None, Alone(event'), event' \notin failed
               PROVE  told[event'] # state[event']
    BY DEF vars
  <2>1. PICK s \in Signals : Handle(s) /\ event' = s
    BY DEF Next, Begin, CollectFails, PassOver, Finish, Crash, Handle, ActFails, NotPending, Unreadable,
       SignalChanges, ModeChanges, ClusterChanges, Inside
  <2>2. /\ s \notin met /\ state[s] \in Conclusions /\ state[s] # None
        /\ Concluded(s, state[s]) # seen[KeyOf[s]]
    BY <2>1, NewsAssumption DEF Handle, Observed, NewsInv, SignalsMet
  <2>3. Alone(s) /\ s \notin failed BY <2>1
  <2>4. QED BY <2>1, <2>2, <2>3 DEF NewsInv, ToldIsRemembered
<1>2. QED BY <1>1, MemoryAgreesWithEvents, PTL DEF Spec, ToldOnce

\* Requests that share a key can be read: one that cannot would carry over what
\* the last pass concluded about the other.
ReadsAlone ==
  \A g \in Settings : "read" \in g.failing =>
    \A r \in Requests, t \in Signals : g.keyOf[r] = g.keyOf[t] => r = t

\* Whatever a pass concludes about a signal has been told: no conclusion is
\* taken for one of an earlier request, of another mode or of a fault that had
\* cleared, where requests that share a key can be read (handle, noteMode,
\* remember).
THEOREM NoConclusionIsLost == ASSUME ReadsAlone PROVE Spec => ConclusionsTold
<1>1. ASSUME NewsInv, NEW s \in Signals PROVE Keeps(s)
  BY <1>1, KeysOK, NewsAssumption DEF ReadsAlone, NewsInv, TypeOK, Keeps, Alone, KeyOf, Failing, Signals
<1>2. ASSUME NewsInv, Next, NEW s \in Signals, s \in met' \ met, current'[KeyOf[s]] = Observed(s)
      PROVE  told'[s] = state[s]
  <2> USE <1>2 DEF NewsInv
  <2>1. Handle(s) \/ ActFails(s) \/ Unreadable(s)
    BY DEF Next, Begin, CollectFails, PassOver, Finish, Crash, Handle, ActFails, NotPending, Unreadable,
       SignalChanges, ModeChanges, ClusterChanges, Inside
  <2>2. s \in todo /\ s \notin met /\ state[s] # None /\ Keeps(s)
    BY <1>1, <2>1, NewsAssumption DEF Handle, ActFails, Unreadable, SignalsMet
  <2>3. CASE Handle(s)
    <3>1. state[s] \in Conclusions BY <2>3 DEF Handle
    <3>2. CASE Observed(s) = seen[KeyOf[s]]
      <4>1. told[s] = state[s] BY <2>2, <3>1, <3>2 DEF RememberedIsTold, Observed
      <4>2. QED BY <2>3, <3>2, <4>1 DEF Handle
    <3>3. CASE Observed(s) # seen[KeyOf[s]] BY <2>3, <3>3 DEF Handle, TypeOK
    <3>4. QED BY <3>2, <3>3
  <2>4. CASE ActFails(s)
    <3>1. current'[KeyOf[s]] = NoObs BY <2>4, KeysOK DEF ActFails, TypeOK
    <3>2. QED BY <2>2, <3>1, ConcludedFields DEF Observed
  <2>5. CASE Unreadable(s)
    <3>1. told' = told /\ (current'[KeyOf[s]] = seen[KeyOf[s]] \/ current'[KeyOf[s]] = current[KeyOf[s]])
      BY <2>5, KeysOK DEF Unreadable, TypeOK
    <3>2. state[s] \in Conclusions BY <2>2, <3>1, KeysOK, ConcludedFields DEF Observed, TypeOK
    <3>3. QED BY <2>2, <3>1, <3>2 DEF RememberedIsTold, Observed
  <2>6. QED BY <2>1, <2>3, <2>4, <2>5
<1>3. NewsInv /\ [Next]_vars =>
        [\A s \in Signals : s \in met' \ met /\ current'[KeyOf[s]] = Observed(s) => told'[s] = state[s]]_vars
  BY <1>2
<1>4. QED BY <1>3, MemoryAgreesWithEvents, PTL DEF Spec, ConclusionsTold

=============================================================================
