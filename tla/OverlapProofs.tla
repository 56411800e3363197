---------------------------- MODULE OverlapProofs ----------------------------
(* Theorems about two leaders on one Cluster, for every value of the constants
   of Remediator.  A step of either leader is first put as what it does to its
   pass, taken as a value, and to what the two share; what follows is shown once,
   for both. *)
EXTENDS Overlap, RemediatorSafety

-----------------------------------------------------------------------------
(* A step of a leader, from pass L to pass K *)

SameSignals(L, K) ==
  K.todo = L.todo /\ K.sig = L.sig /\ K.asking = L.asking /\ K.unreadable = L.unreadable

SameCopies(L, K) == K.view = L.view /\ K.fresh = L.fresh

Unwritten(L, K) == machine' = machine /\ K.machines = L.machines /\ K.current = L.current

SameRequests(L, K) == UNCHANGED <<request, raisedAt>> /\ K.requests = L.requests

\* As StoreMachine and StoreRequest, with the caches of the leader that writes.
Stores(L, K, n, m) ==
  /\ machine' = [machine EXCEPT ![n] = m]
  /\ IF "machines" \in Lag
     THEN K.machines = L.machines /\ K.current = [L.current EXCEPT ![n] = FALSE]
     ELSE K.machines = machine' /\ K.current = L.current

StoresRequest(L, K, r, status) ==
  /\ request' = [request EXCEPT ![r] = status]
  /\ K.requests = IF "requests" \in Lag THEN L.requests
                  ELSE {q \in Requests : request'[q] = "pending"}

\* Machine n becomes m; the pass has its copy from the reply, or loses track.
Writes(L, K, n, m) ==
  Stores(L, K, n, m) /\ K.view = [L.view EXCEPT ![n] = m] /\ K.fresh = [L.fresh EXCEPT ![n] = TRUE]

Loses(L, K, n, m) ==
  Stores(L, K, n, m) /\ K.view = L.view /\ K.fresh = [L.fresh EXCEPT ![n] = FALSE]

CallBy(L) ==
  IF CopyInHand(L).exists /\ Want[L.sig] # "Report"
  THEN [call |-> Want[L.sig], request |-> L.sig] ELSE NoCall

NodeInHand(L) == L.read.nodes[NodeOf[L.sig]]

Begins(L, K) ==
  /\ L.pc = "idle" /\ K.pc = "signals"
  /\ K.todo = L.requests /\ K.read \in Reads /\ K.read.mode = "ExternalRemediationRequest"
  /\ K.read.nodes = L.nodes /\ K.view = L.machines /\ K.fresh = L.current
  /\ K.asking = L.asking /\ K.observed = L.observed /\ K.left = L.left /\ K.ans = L.ans
  /\ Unwritten(L, K) /\ SameRequests(L, K)

TakesNext(L, K) ==
  /\ L.pc = "signals"
  /\ \E s \in L.todo :
       /\ K.todo = L.todo \ {s}
       /\ \/ /\ K.pc = "handle" /\ K.sig = s /\ K.asking = L.asking \cup {s}
             /\ K.unreadable = L.unreadable
          \/ /\ K.pc = "signals" /\ K.asking = L.asking
             /\ \/ request[s] # "pending" /\ K.unreadable = L.unreadable
                \/ K.unreadable = TRUE
  /\ K.read = L.read /\ K.observed = L.observed /\ K.left = L.left /\ K.ans = L.ans
  /\ SameCopies(L, K) /\ Unwritten(L, K) /\ SameRequests(L, K)

\* The restart of the signal in hand is over.
Completes(L) ==
  /\ Want[L.sig] = "Restart" /\ CopyInHand(L).exists
  /\ RestartCompleted(CopyInHand(L), NodeInHand(L)) /\ RestartAnswers(CopyInHand(L), L.sig)

\* The Machine the pass asks for and what the patch makes of it.
AsksFor(L, m) ==
  \/ /\ ~CopyInHand(L).marked
     /\ \E wanted \in
             {Marked(CopyInHand(L), "Remediate", 0, NoRequest)} \cup
             {w \in {Marked(CopyInHand(L), "Restart", NodeInHand(L).boot, L.sig)} :
                Want[L.sig] = "Restart"} :
          m = MergePatch(CopyInHand(L), wanted, machine[NodeOf[L.sig]])
  \/ /\ L.fresh[NodeOf[L.sig]] /\ MarkedAction(CopyInHand(L)) = "Restart"
     /\ m = Escalated(CopyInHand(L))

Observes(L, K, obs) == K.observed = [L.observed EXCEPT ![Key(L.sig)] = obs]

\* The signal in hand is handled: with a write, which is called for unless its
\* reply is lost, or without one.
HandlesSignal(L, K) ==
  /\ L.pc = "handle" /\ SameSignals(L, K) /\ K.read = L.read /\ K.left = L.left
  /\ K.pc \in {"signals", "answer"} /\ K.ans \in {"none", "True", "False"}
  /\ K.pc = "answer" => K.ans # "none"
  /\ \/ /\ SameCopies(L, K) /\ Unwritten(L, K)
        /\ \/ /\ Observes(L, K, CallBy(L))
              /\ K.pc = "answer" /\ K.ans = "True" => Completes(L)
           \/ /\ Observes(L, K, NoCall) /\ K.pc = "signals"
              /\ "escalate" \in Rejected \/ ~L.fresh[NodeOf[L.sig]] \/ ~CopyInHand(L).marked
     \/ /\ K.pc = "signals" /\ CopyInHand(L).exists /\ Want[L.sig] # "Report"
        /\ \E m :
             /\ AsksFor(L, m)
             /\ \/ Writes(L, K, NodeOf[L.sig], m) /\ Observes(L, K, CallBy(L))
                \/ Loses(L, K, NodeOf[L.sig], m) /\ Observes(L, K, NoCall)
  /\ SameRequests(L, K)

AnswersSignal(L, K) ==
  /\ L.pc = "answer" /\ SameSignals(L, K) /\ SameCopies(L, K) /\ K.ans = "none"
  /\ K.read = L.read /\ K.observed = L.observed /\ K.left = L.left
  /\ \/ /\ request[L.sig] = "pending" /\ StoresRequest(L, K, L.sig, L.ans)
        /\ \/ K.pc = "signals"
           \/ /\ L.ans = "True" /\ K.pc = "releaseAnswered"
              /\ K.answered = RestartMarkOf(CopyInHand(L))
     \/ K.pc = "signals" /\ UNCHANGED request /\ K.requests = L.requests
  /\ Unwritten(L, K) /\ UNCHANGED raisedAt

ReleasesOne(L, K, n) ==
  \/ SameCopies(L, K) /\ Unwritten(L, K)
  \/ /\ L.fresh[n]
     /\ Writes(L, K, n, Released(L.view[n])) \/ Loses(L, K, n, Released(L.view[n]))

ReleasesSignal(L, K) ==
  /\ L.pc = "releaseAnswered" /\ SameSignals(L, K)
  /\ K.read = L.read /\ K.observed = L.observed /\ K.left = L.left /\ K.ans = L.ans
  /\ \/ ReleasesOne(L, K, NodeOf[L.sig]) /\ K.pc = "signals"
     \/ SameCopies(L, K) /\ Unwritten(L, K) /\ K.pc = "reread" /\ K.answered = L.answered
  /\ SameRequests(L, K)

RereadsCopy(L, K) ==
  LET n == NodeOf[L.sig] IN
  /\ L.pc = "reread" /\ SameSignals(L, K)
  /\ K.read = L.read /\ K.observed = L.observed /\ K.left = L.left /\ K.ans = L.ans
  /\ \/ /\ K.view = [L.view EXCEPT ![n] = L.machines[n]] /\ K.fresh = [L.fresh EXCEPT ![n] = L.current[n]]
        /\ \/ K.pc = "signals"
           \/ /\ K.pc = "releaseAnswered" /\ K.answered = L.answered
              /\ RestartMarkOf(L.machines[n]) = L.answered
     \/ SameCopies(L, K) /\ K.pc = "signals"
  /\ Unwritten(L, K) /\ SameRequests(L, K)

ChoosesReleases(L, K) ==
  /\ L.pc = "signals" /\ L.todo = {} /\ K.pc = "release"
  /\ K.left = {n \in Nodes : ~L.unreadable /\ Releasable(L.view[n]) /\ ~HeldBy(L, n)}
  /\ SameSignals(L, K) /\ SameCopies(L, K)
  /\ K.read = L.read /\ K.observed = L.observed /\ K.ans = L.ans
  /\ Unwritten(L, K) /\ SameRequests(L, K)

ReleasesLeft(L, K) ==
  /\ L.pc = "release" /\ K.pc = "release" /\ SameSignals(L, K)
  /\ K.read = L.read /\ K.observed = L.observed /\ K.ans = L.ans
  /\ \E n \in L.left : K.left = L.left \ {n} /\ ReleasesOne(L, K, n)
  /\ SameRequests(L, K)

Ends(L, K) ==
  /\ K.pc = "idle" /\ K.view = [n \in Nodes |-> Unread] /\ K.fresh = [n \in Nodes |-> FALSE]
  /\ K.todo = {} /\ K.asking = {} /\ K.left = {} /\ K.ans = "none"
  /\ K.observed = [k \in Keys |-> NoCall]
  /\ Unwritten(L, K) /\ SameRequests(L, K)

Rests(L, K) == K = L /\ Unwritten(L, K) /\ SameRequests(L, K)

Step(L, K) ==
  \/ Begins(L, K) \/ TakesNext(L, K) \/ HandlesSignal(L, K) \/ AnswersSignal(L, K)
  \/ ReleasesSignal(L, K) \/ RereadsCopy(L, K) \/ ChoosesReleases(L, K) \/ ReleasesLeft(L, K)
  \/ Ends(L, K) \/ Rests(L, K)

-----------------------------------------------------------------------------
(* The new leader's steps *)

\* What the translation goes by: the mode is the one with requests, and the
\* signal in hand is a request.
LEMMA NewInHand ==
  ASSUME PassTyped(Mine)
  PROVE  /\ pc \in {"handle", "answer", "releaseAnswered", "reread"} => sig \in asking /\ sig \in Requests
         /\ pc # "idle" => read.mode = "ExternalRemediationRequest" /\ read \in Reads
         /\ todo \subseteq Requests
         /\ pc = "handle" => Decided = Want[sig] /\ RequestOf(sig) = sig
         /\ Machine = CopyInHand(Mine) /\ Node = NodeInHand(Mine)
         /\ pc = "handle" => Call = CallBy(Mine)
<1>1. /\ pc \in {"handle", "answer", "releaseAnswered", "reread"} => sig \in asking /\ sig \in Requests
      /\ pc # "idle" => read.mode = "ExternalRemediationRequest" /\ read \in Reads
      /\ todo \subseteq Requests
  BY DEF PassTyped, Mine
<1>2. pc = "handle" => Decided = Want[sig] /\ RequestOf(sig) = sig BY <1>1 DEF Decided, RequestOf
<1>3. Machine = CopyInHand(Mine) /\ Node = NodeInHand(Mine)
  BY DEF Mine, Machine, Node, CopyInHand, NodeInHand
<1>4. pc = "handle" => Call = CallBy(Mine) BY <1>2, <1>3 DEF Call, CallBy, Mine
<1>5. QED BY <1>1, <1>2, <1>3, <1>4

LEMMA NewBegins ==
  ASSUME OnlyRequests, TypeOK, PassTyped(Mine), Begin
  PROVE  Begins(Mine, Mine')
<1>1. mode = "ExternalRemediationRequest" BY DEF TypeOK, ClustersTypeOK, OnlyRequests
<1>2. read' \in Reads BY DEF Begin, TypeOK, ClustersTypeOK, Reads
<1>3. QED BY <1>1, <1>2 DEF Begin, Begins, Mine, Collected, PendingRequests, Unwritten, SameRequests, apiVars, reqVars

LEMMA NewTakes ==
  ASSUME PassTyped(Mine), NEW s \in todo, Take(s) \/ PassBy(s) \/ Unreadable(s)
  PROVE  TakesNext(Mine, Mine')
<1>1. s \in Requests BY NewInHand
<1>2. CASE Take(s) BY <1>1, <1>2 DEF Take, TakesNext, Mine, SameCopies, Unwritten, SameRequests, apiVars, reqVars, viewVars
<1>3. CASE PassBy(s)
  BY <1>3 DEF PassBy, LivePending, TakesNext, Mine, SameCopies, Unwritten, SameRequests, apiVars, reqVars, viewVars
<1>4. CASE Unreadable(s)
  BY <1>4 DEF Unreadable, TakesNext, Mine, SameCopies, Unwritten, SameRequests, apiVars, reqVars, viewVars
<1>5. QED BY <1>2, <1>3, <1>4

LEMMA NewWrites ==
  ASSUME NEW n, NEW m
  PROVE  /\ PatchMachine(n, m) => Writes(Mine, Mine', n, m)
         /\ WriteBehind(n, m) => Loses(Mine, Mine', n, m)
BY DEF PatchMachine, WriteBehind, StoreMachine, Writes, Loses, Stores, Mine

LEMMA NewHandles ==
  ASSUME TypeOK, PassTyped(Mine), Handle
  PROVE  HandlesSignal(Mine, Mine')
<1>1. pc = "handle" /\ sig \in Requests /\ NodeOf[sig] \in Nodes
  BY NewInHand, HandleKinds, ConstantsAssumption DEF Signals
<1>2. Decided = Want[sig] /\ Call = CallBy(Mine) /\ Machine = CopyInHand(Mine)
      /\ Node = NodeInHand(Mine) /\ RequestOf(sig) = sig
  BY <1>1, NewInHand
<1>3. /\ Mine.pc = "handle" /\ SameSignals(Mine, Mine') /\ Mine'.read = Mine.read
      /\ Mine'.left = Mine.left /\ Mine'.pc = pc' /\ Mine'.ans = ans' /\ Mine.sig = sig
      /\ Mine.fresh = vfresh
      /\ SameRequests(Mine, Mine')
  BY <1>1, HandleKinds DEF Mine, SameSignals, SameRequests, passVars, reqVars
<1>4. pc' \in {"signals", "answer"} /\ ans' \in {"none", "True", "False"} /\ (pc' = "answer" => ans' # "none")
  BY HandleKinds
<1>5. UNCHANGED <<apiVars, viewVars>> => SameCopies(Mine, Mine') /\ Unwritten(Mine, Mine')
  BY DEF SameCopies, Unwritten, Mine, viewVars, apiVars
<1>6. \A obs : observed' = [observed EXCEPT ![Key(sig)] = obs] => Observes(Mine, Mine', obs)
  BY DEF Observes, Mine
<1>7. CASE Reported \/ Skipped \/ ReportedUnavailable \/ HeldBack
  <2>1. UNCHANGED <<apiVars, viewVars>> /\ observed' = [observed EXCEPT ![Key(sig)] = Call] /\ ans' # "True"
    BY <1>7 DEF Reported, Skipped, ReportedUnavailable, HeldBack, Conclude, Decline
  <2>2. QED BY <1>2, <1>3, <1>4, <1>5, <1>6, <2>1 DEF HandlesSignal
<1>8. CASE RestartOver
  <2>1. UNCHANGED <<apiVars, viewVars>> /\ observed' = [observed EXCEPT ![Key(sig)] = Call]
    BY <1>8 DEF RestartOver, Conclude
  <2>2. Completes(Mine) BY <1>2, <1>3, <1>8 DEF RestartOver, Remediates, Complete, Completes
  <2>3. QED BY <1>2, <1>3, <1>4, <1>5, <1>6, <2>1, <2>2 DEF HandlesSignal
<1>9. CASE Escalate
  <2>1. Machine.exists /\ Decided # "Report" /\ MarkedAction(Machine) = "Restart" /\ pc' = "signals"
    BY <1>9 DEF Escalate, Remediates, Escalates, Conclude
  <2>2. CASE /\ vfresh[NodeOf[sig]] /\ PatchMachine(NodeOf[sig], Escalated(Machine))
             /\ observed' = [observed EXCEPT ![Key(sig)] = Call]
    <3>1. AsksFor(Mine, Escalated(Machine)) BY <1>2, <1>3, <2>1, <2>2 DEF AsksFor
    <3>2. Writes(Mine, Mine', NodeOf[sig], Escalated(Machine)) BY <2>2, NewWrites
    <3>3. QED BY <1>2, <1>3, <1>4, <1>6, <2>1, <2>2, <3>1, <3>2 DEF HandlesSignal
  <2>3. CASE /\ vfresh[NodeOf[sig]] /\ WriteBehind(NodeOf[sig], Escalated(Machine))
             /\ observed' = [observed EXCEPT ![Key(sig)] = NoCall]
    <3>1. AsksFor(Mine, Escalated(Machine)) BY <1>2, <1>3, <2>1, <2>3 DEF AsksFor
    <3>2. Loses(Mine, Mine', NodeOf[sig], Escalated(Machine)) BY <2>3, NewWrites
    <3>3. QED BY <1>2, <1>3, <1>4, <1>6, <2>1, <2>3, <3>1, <3>2 DEF HandlesSignal
  <2>4. CASE /\ "escalate" \in Rejected \/ ~vfresh[NodeOf[sig]]
             /\ observed' = [observed EXCEPT ![Key(sig)] = NoCall]
             /\ UNCHANGED <<apiVars, viewVars>>
    BY <1>2, <1>3, <1>4, <1>5, <1>6, <2>1, <2>4 DEF HandlesSignal
  <2>5. QED BY <1>9, <2>2, <2>3, <2>4 DEF Escalate, Conclude
<1>10. CASE Mark
  <2>1. Machine.exists /\ Decided # "Report" /\ Machine.marked = FALSE /\ ~NodeGone /\ pc' = "signals"
    BY <1>10, MarksUnmarked DEF Mark, Conclude
  <2>2. AsksFor(Mine, MarkStored)
    <3>1. Node.exists BY <1>1, <2>1 DEF NodeGone
    <3>2. AsRestart => MarkWanted = Marked(Machine, "Restart", Node.boot, sig) /\ Want[sig] = "Restart"
      BY <1>2, <3>1 DEF MarkWanted, AsRestart
    <3>3. ~AsRestart => MarkWanted = Marked(Machine, "Remediate", 0, NoRequest) BY DEF MarkWanted
    <3>4. QED BY <1>2, <1>3, <2>1, <3>2, <3>3 DEF AsksFor, MarkStored
  <2>3. CASE PatchMachine(NodeOf[sig], MarkStored) /\ observed' = [observed EXCEPT ![Key(sig)] = Call]
    <3>1. Writes(Mine, Mine', NodeOf[sig], MarkStored) BY <2>3, NewWrites
    <3>2. QED BY <1>2, <1>3, <1>4, <1>6, <2>1, <2>2, <2>3, <3>1 DEF HandlesSignal
  <2>4. CASE WriteBehind(NodeOf[sig], MarkStored) /\ observed' = [observed EXCEPT ![Key(sig)] = NoCall]
    <3>1. Loses(Mine, Mine', NodeOf[sig], MarkStored) BY <2>4, NewWrites
    <3>2. QED BY <1>2, <1>3, <1>4, <1>6, <2>1, <2>2, <2>4, <3>1 DEF HandlesSignal
  <2>5. CASE UNCHANGED <<apiVars, viewVars>> /\ observed' = [observed EXCEPT ![Key(sig)] = NoCall]
    BY <1>2, <1>3, <1>4, <1>5, <1>6, <2>1, <2>5 DEF HandlesSignal
  <2>6. QED BY <1>10, <2>3, <2>4, <2>5 DEF Mark, Conclude
<1>11. QED BY <1>7, <1>8, <1>9, <1>10 DEF Handle

LEMMA NewAnswers ==
  ASSUME Answer
  PROVE  AnswersSignal(Mine, Mine')
<1>1. Mine.pc = "answer" /\ SameSignals(Mine, Mine') /\ SameCopies(Mine, Mine') /\ Mine'.ans = "none"
      /\ Mine'.read = Mine.read /\ Mine'.observed = Mine.observed /\ Mine'.left = Mine.left
      /\ Unwritten(Mine, Mine') /\ UNCHANGED raisedAt
  BY DEF Answer, Mine, SameSignals, SameCopies, Unwritten, passVars, viewVars, apiVars
<1>2. Mine.sig = sig /\ Mine.ans = ans /\ Mine'.pc = pc' /\ Mine'.answered = answered'
      /\ Machine = CopyInHand(Mine)
  BY DEF Mine, CopyInHand, Machine
<1>3. \/ /\ request[sig] = "pending" /\ StoresRequest(Mine, Mine', sig, ans)
         /\ \/ pc' = "signals"
            \/ ans = "True" /\ pc' = "releaseAnswered" /\ answered' = RestartMarkOf(Machine)
      \/ pc' = "signals" /\ UNCHANGED request /\ Mine'.requests = Mine.requests
  BY DEF Answer, Answers, StoreRequest, StoresRequest, Mine
<1>4. QED BY <1>1, <1>2, <1>3 DEF AnswersSignal

LEMMA NewReleases ==
  ASSUME NEW n, Release(n)
  PROVE  ReleasesOne(Mine, Mine', n)
<1>1. UNCHANGED <<apiVars, viewVars>> => SameCopies(Mine, Mine') /\ Unwritten(Mine, Mine')
  BY DEF SameCopies, Unwritten, Mine, viewVars, apiVars
<1>2. Mine.fresh = vfresh /\ Mine.view = view BY DEF Mine
<1>3. QED BY <1>1, <1>2, NewWrites DEF Release, ReleasesOne

LEMMA NewReleasesAnswered ==
  ASSUME ReleaseAnswered
  PROVE  ReleasesSignal(Mine, Mine')
<1>1. Mine.pc = "releaseAnswered" /\ SameSignals(Mine, Mine') /\ Mine'.ans = Mine.ans
      /\ Mine'.read = Mine.read /\ Mine'.observed = Mine.observed /\ Mine'.left = Mine.left
      /\ SameRequests(Mine, Mine') /\ Mine'.pc = pc' /\ Mine.sig = sig
      /\ Mine'.answered = answered' /\ Mine.answered = answered
  BY DEF ReleaseAnswered, Mine, SameSignals, SameRequests, passVars, reqVars
<1>2. UNCHANGED <<apiVars, viewVars>> => SameCopies(Mine, Mine') /\ Unwritten(Mine, Mine')
  BY DEF SameCopies, Unwritten, Mine, viewVars, apiVars
<1>3. QED BY <1>1, <1>2, NewReleases DEF ReleaseAnswered, ReleasesSignal

LEMMA NewRereads ==
  ASSUME Reread
  PROVE  RereadsCopy(Mine, Mine')
<1>1. Mine.pc = "reread" /\ SameSignals(Mine, Mine') /\ Mine'.ans = Mine.ans
      /\ Mine'.read = Mine.read /\ Mine'.observed = Mine.observed /\ Mine'.left = Mine.left
      /\ Unwritten(Mine, Mine') /\ SameRequests(Mine, Mine') /\ Mine'.pc = pc' /\ Mine.sig = sig
      /\ Mine'.answered = answered' /\ Mine.answered = answered
      /\ Mine'.view = view' /\ Mine'.fresh = vfresh' /\ Mine.view = view /\ Mine.fresh = vfresh
  BY DEF Reread, Mine, SameSignals, SameRequests, Unwritten, passVars, apiVars, reqVars
<1>2. CASE mcache[NodeOf[sig]].exists
  BY <1>1, <1>2 DEF Reread, RereadsCopy, Mine, tryVars
<1>3. CASE ~mcache[NodeOf[sig]].exists
  BY <1>1, <1>3 DEF Reread, RereadsCopy, SameCopies, Mine, viewVars
<1>4. QED BY <1>2, <1>3

LEMMA NewChooses ==
  ASSUME StartRelease
  PROVE  ChoosesReleases(Mine, Mine')
<1>1. \A n : Held(n) <=> HeldBy(Mine, n)
  BY DEF Held, HeldBy, Leftover, LeftoverIn, Mine
<1>2. QED
  BY <1>1 DEF StartRelease, ChoosesReleases, Mine, SameSignals, SameCopies, Unwritten,
              SameRequests, MayRelease, passVars, viewVars, apiVars, reqVars

LEMMA NewReleasesLeft ==
  ASSUME NEW n \in left, ReleaseRestart(n)
  PROVE  ReleasesLeft(Mine, Mine')
<1>1. Mine.pc = "release" /\ Mine'.pc = "release" /\ SameSignals(Mine, Mine') /\ Mine'.ans = Mine.ans
      /\ Mine'.read = Mine.read /\ Mine'.observed = Mine.observed
      /\ n \in Mine.left /\ Mine'.left = Mine.left \ {n} /\ SameRequests(Mine, Mine')
  BY DEF ReleaseRestart, Mine, SameSignals, SameRequests, passVars, reqVars
<1>2. UNCHANGED <<apiVars, viewVars>> => SameCopies(Mine, Mine') /\ Unwritten(Mine, Mine')
  BY DEF SameCopies, Unwritten, Mine, viewVars, apiVars
<1>3. ReleasesOne(Mine, Mine', n) BY <1>2, NewReleases DEF ReleaseRestart, ReleasesOne
<1>4. QED BY <1>1, <1>3 DEF ReleasesLeft

LEMMA NewSteps ==
  ASSUME OnlyRequests, TypeOK, PassTyped(Mine), Pass
  PROVE  Step(Mine, Mine')
<1>1. CASE PassOver
  BY <1>1 DEF PassOver, Step, Rests, Mine, Unwritten, SameRequests, nodeVars, passVars, viewVars, tryVars,
              apiVars, reqVars
<1>2. CASE Finish BY <1>2 DEF Finish, EndPass, Step, Ends, Mine, Unwritten, SameRequests, apiVars, reqVars
<1>3. CASE \E s \in todo : Take(s) \/ PassBy(s) \/ Unreadable(s) BY <1>3, NewTakes DEF Step
<1>4. CASE \E n \in left : ReleaseRestart(n) BY <1>4, NewReleasesLeft DEF Step
<1>5. CASE Begin BY <1>5, NewBegins DEF Step
<1>6. CASE Handle BY <1>6, NewHandles DEF Step
<1>7. CASE Answer BY <1>7, NewAnswers DEF Step
<1>8. CASE ReleaseAnswered BY <1>8, NewReleasesAnswered DEF Step
<1>9. CASE Reread BY <1>9, NewRereads DEF Step
<1>10. CASE StartRelease BY <1>10, NewChooses DEF Step
<1>11. QED BY <1>1, <1>2, <1>3, <1>4, <1>5, <1>6, <1>7, <1>8, <1>9, <1>10 DEF Pass

-----------------------------------------------------------------------------
(* The old leader's steps.  What an instance defines is another operator to the
   provers, so the ones that both go by are first shown to be the same. *)

LEMMA OldReads ==
  /\ \A m : Old!MarkedAction(m) = MarkedAction(m)
  /\ \A m : Old!RestartMarkOf(m) = RestartMarkOf(m)
  /\ \A m : Old!Releasable(m) <=> Releasable(m)
  /\ \A m, n : Old!RestartCompleted(m, n) <=> RestartCompleted(m, n)
  /\ \A m, r : Old!RestartAnswers(m, r) <=> RestartAnswers(m, r)
  /\ \A s : Old!Key(s) = Key(s) /\ Old!RequestOf(s) = RequestOf(s)
  /\ Old!Keys = Keys /\ Old!NoCall = NoCall /\ Old!Unread = Unread
<1>1. \A m : Old!MarkedAction(m) = MarkedAction(m) BY DEF Old!MarkedAction, MarkedAction
<1>2. \A m : Old!RestartMarkOf(m) = RestartMarkOf(m) BY <1>1 DEF Old!RestartMarkOf, RestartMarkOf
<1>3. \A m : Old!Releasable(m) <=> Releasable(m) BY <1>1 DEF Old!Releasable, Releasable
<1>4. \A m, n : Old!RestartCompleted(m, n) <=> RestartCompleted(m, n)
  BY <1>1 DEF Old!RestartCompleted, RestartCompleted
<1>5. \A m, r : Old!RestartAnswers(m, r) <=> RestartAnswers(m, r)
  BY DEF Old!RestartAnswers, RestartAnswers
<1>6. \A s : Old!Key(s) = Key(s) /\ Old!RequestOf(s) = RequestOf(s)
  BY DEF Old!Key, Key, Old!RequestOf, RequestOf
<1>7. Old!Keys = Keys /\ Old!NoCall = NoCall /\ Old!Unread = Unread
  BY DEF Old!Keys, Keys, Old!Checks, Checks, Old!Signals, Signals, Old!NoCall, NoCall, Old!Unread,
      Unread
<1>8. QED BY <1>1, <1>2, <1>3, <1>4, <1>5, <1>6, <1>7

LEMMA OldStores ==
  /\ \A m, a, b, r : Old!Marked(m, a, b, r) = Marked(m, a, b, r)
  /\ \A m : Old!Escalated(m) = Escalated(m) /\ Old!Released(m) = Released(m)
  /\ \A m, k, c : Old!MergePatch(m, k, c) = MergePatch(m, k, c)
<1>1. \A m, a, b, r : Old!Marked(m, a, b, r) = Marked(m, a, b, r) BY DEF Old!Marked, Marked
<1>2. \A m : Old!Escalated(m) = Escalated(m) /\ Old!Released(m) = Released(m)
  BY DEF Old!Escalated, Escalated, Old!Released, Released
<1>3. \A m, k, c : Old!MergePatch(m, k, c) = MergePatch(m, k, c) BY DEF Old!MergePatch, MergePatch
<1>4. QED BY <1>1, <1>2, <1>3

\* As MarksUnmarked and HandleKinds.
LEMMA OldMarksUnmarked ==
  ASSUME Old!Mark
  PROVE  opc = "handle" /\ Old!Machine.marked = FALSE /\ Old!Machine.exists
         /\ ~Old!NodeGone /\ Old!Decided # "Report"
BY DEF Old!Mark, Old!Proceeds, Old!Remediates, Old!Guard

LEMMA OldHandleKinds ==
  ASSUME Old!Handle
  PROVE  /\ opc = "handle" /\ UNCHANGED <<Old!reqVars, oread, Old!passVars, oleft>>
         /\ \/ opc' = "signals" /\ oans' = "none"
            \/ opc' = "answer" /\ oans' \in {"True", "False"}
<1>1. opc = "handle"
  BY DEF Old!Handle, Old!Reported, Old!RestartOver, Old!Escalate, Old!Skipped,
      Old!ReportedUnavailable,
         Old!HeldBack, Old!Mark, Old!Proceeds, Old!Remediates
<1>2. UNCHANGED <<Old!reqVars, oread, Old!passVars, oleft>>
  BY DEF Old!Handle, Old!Reported, Old!RestartOver, Old!Escalate, Old!Skipped,
      Old!ReportedUnavailable,
         Old!HeldBack, Old!Mark, Old!Conclude, Old!reqVars
<1>3. \/ opc' = "signals" /\ oans' = "none"
      \/ opc' = "answer" /\ oans' \in {"True", "False"}
  BY DEF Old!Handle, Old!Reported, Old!RestartOver, Old!Escalate, Old!Skipped,
      Old!ReportedUnavailable,
         Old!HeldBack, Old!Mark, Old!Conclude, Old!Decline
<1>4. QED BY <1>1, <1>2, <1>3

\* What the translation goes by: the mode is the one with requests, and the
\* signal in hand is a request.
LEMMA OldInHand ==
  ASSUME PassTyped(Theirs)
  PROVE  /\ opc \in {"handle", "answer", "releaseAnswered", "reread"} => osig \in oasking /\ osig \in Requests
         /\ opc # "idle" => oread.mode = "ExternalRemediationRequest" /\ oread \in Reads
         /\ otodo \subseteq Requests
         /\ opc = "handle" => Old!Decided = Want[osig] /\ Old!RequestOf(osig) = osig
         /\ Old!Machine = CopyInHand(Theirs) /\ Old!Node = NodeInHand(Theirs)
         /\ opc = "handle" => Old!Call = CallBy(Theirs)
<1>1. /\ opc \in {"handle", "answer", "releaseAnswered", "reread"} => osig \in oasking /\ osig \in Requests
      /\ opc # "idle" => oread.mode = "ExternalRemediationRequest" /\ oread \in Reads
      /\ otodo \subseteq Requests
  BY DEF PassTyped, Theirs
<1>2. opc = "handle" => Old!Decided = Want[osig] /\ Old!RequestOf(osig) = osig
  BY <1>1 DEF Old!Decided, Old!RequestOf
<1>3. Old!Machine = CopyInHand(Theirs) /\ Old!Node = NodeInHand(Theirs)
  BY DEF Theirs, Old!Machine, Old!Node, CopyInHand, NodeInHand
<1>4. opc = "handle" => Old!Call = CallBy(Theirs) BY <1>2, <1>3, OldReads DEF Old!Call, CallBy, Theirs
<1>5. QED BY <1>1, <1>2, <1>3, <1>4

LEMMA OldBegins ==
  ASSUME OnlyRequests, TypeOK, PassTyped(Theirs), CachesEarned(Theirs), Old!Begin
  PROVE  Begins(Theirs, Theirs')
<1>1. mode = "ExternalRemediationRequest" BY DEF TypeOK, ClustersTypeOK, OnlyRequests
<1>2. oread' \in Reads BY DEF Old!Begin, CachesEarned, Theirs, TypeOK, ClustersTypeOK, Reads
<1>3. QED
  BY <1>1, <1>2 DEF Old!Begin, Begins, Theirs, Old!Collected, Old!PendingRequests, Unwritten,
      SameRequests, Old!reqVars, Old!apiVars

LEMMA OldTakes ==
  ASSUME PassTyped(Theirs), NEW s \in otodo, Old!Take(s) \/ Old!PassBy(s) \/ Old!Unreadable(s)
  PROVE  TakesNext(Theirs, Theirs')
<1>1. s \in Requests BY OldInHand
<1>2. CASE Old!Take(s)
  BY <1>1, <1>2 DEF Old!Take, TakesNext, Theirs, SameCopies, Unwritten, SameRequests, Old!viewVars,
      Old!reqVars, Old!apiVars
<1>3. CASE Old!PassBy(s)
  BY <1>3 DEF Old!PassBy, Old!LivePending, TakesNext, Theirs, SameCopies, Unwritten, SameRequests, 
      Old!viewVars, Old!reqVars, Old!apiVars
<1>4. CASE Old!Unreadable(s)
  BY <1>4 DEF Old!Unreadable, TakesNext, Theirs, SameCopies, Unwritten, SameRequests, Old!viewVars,
      Old!reqVars, Old!apiVars
<1>5. QED BY <1>2, <1>3, <1>4

LEMMA OldWrites ==
  ASSUME NEW n, NEW m
  PROVE  /\ Old!PatchMachine(n, m) => Writes(Theirs, Theirs', n, m)
         /\ Old!WriteBehind(n, m) => Loses(Theirs, Theirs', n, m)
BY DEF Old!PatchMachine, Old!WriteBehind, Old!StoreMachine, Writes, Loses, Stores, Theirs

LEMMA OldHandles ==
  ASSUME TypeOK, PassTyped(Theirs), Old!Handle
  PROVE  HandlesSignal(Theirs, Theirs')
<1>1. opc = "handle" /\ osig \in Requests /\ NodeOf[osig] \in Nodes
  BY OldInHand, OldHandleKinds, ConstantsAssumption DEF Signals
<1>2. Old!Decided = Want[osig] /\ Old!Call = CallBy(Theirs) /\ Old!Machine = CopyInHand(Theirs)
      /\ Old!Node = NodeInHand(Theirs) /\ Old!RequestOf(osig) = osig
  BY <1>1, OldInHand
<1>3. /\ Theirs.pc = "handle" /\ SameSignals(Theirs, Theirs') /\ Theirs'.read = Theirs.read
      /\ Theirs'.left = Theirs.left /\ Theirs'.pc = opc' /\ Theirs'.ans = oans' /\ Theirs.sig = osig
      /\ Theirs.fresh = ovfresh
      /\ SameRequests(Theirs, Theirs')
  BY <1>1, OldHandleKinds DEF Theirs, SameSignals, SameRequests, Old!passVars, Old!reqVars
<1>4. opc' \in {"signals", "answer"} /\ oans' \in {"none", "True", "False"} /\ (opc' = "answer" => oans' # "none")
  BY OldHandleKinds
<1>5. UNCHANGED <<Old!apiVars, Old!viewVars>> => SameCopies(Theirs, Theirs') /\ Unwritten(Theirs, Theirs')
  BY DEF SameCopies, Unwritten, SameRequests, Theirs, Old!viewVars, Old!apiVars
<1>6. \A obs : oobserved' = [oobserved EXCEPT ![Key(osig)] = obs] => Observes(Theirs, Theirs', obs)
  BY DEF Observes, Theirs
<1>7. CASE Old!Reported \/ Old!Skipped \/ Old!ReportedUnavailable \/ Old!HeldBack
  <2>1. UNCHANGED <<Old!apiVars, Old!viewVars>> /\ oobserved' = [oobserved EXCEPT ![Key(osig)] = Old!Call] /\ oans' # "True"
    BY <1>7, OldReads DEF Old!Reported, Old!Skipped, Old!ReportedUnavailable, Old!HeldBack,
        Old!Conclude, Old!Decline, Old!apiVars
  <2>2. QED BY <1>2, <1>3, <1>4, <1>5, <1>6, <2>1 DEF HandlesSignal
<1>8. CASE Old!RestartOver
  <2>1. UNCHANGED <<Old!apiVars, Old!viewVars>> /\ oobserved' = [oobserved EXCEPT ![Key(osig)] = Old!Call]
    BY <1>8, OldReads DEF Old!RestartOver, Old!Conclude, Old!apiVars
  <2>2. Completes(Theirs)
    BY <1>2, <1>3, <1>8, OldReads DEF Old!RestartOver, Old!Remediates, Old!Complete, Completes,
        Old!apiVars
  <2>3. QED BY <1>2, <1>3, <1>4, <1>5, <1>6, <2>1, <2>2 DEF HandlesSignal
<1>9. CASE Old!Escalate
  <2>1. Old!Machine.exists /\ Old!Decided # "Report" /\ MarkedAction(Old!Machine) = "Restart" /\ opc' = "signals"
    BY <1>9, OldReads, OldStores DEF Old!Escalate, Old!Remediates, Old!Escalates, Old!Conclude,
        Old!apiVars
  <2>2. CASE /\ ovfresh[NodeOf[osig]] /\ Old!PatchMachine(NodeOf[osig], Escalated(Old!Machine))
             /\ oobserved' = [oobserved EXCEPT ![Key(osig)] = Old!Call]
    <3>1. AsksFor(Theirs, Escalated(Old!Machine)) BY <1>2, <1>3, <2>1, <2>2 DEF AsksFor
    <3>2. Writes(Theirs, Theirs', NodeOf[osig], Escalated(Old!Machine)) BY <2>2, OldWrites
    <3>3. QED BY <1>2, <1>3, <1>4, <1>6, <2>1, <2>2, <3>1, <3>2 DEF HandlesSignal
  <2>3. CASE /\ ovfresh[NodeOf[osig]] /\ Old!WriteBehind(NodeOf[osig], Escalated(Old!Machine))
             /\ oobserved' = [oobserved EXCEPT ![Key(osig)] = NoCall]
    <3>1. AsksFor(Theirs, Escalated(Old!Machine)) BY <1>2, <1>3, <2>1, <2>3 DEF AsksFor
    <3>2. Loses(Theirs, Theirs', NodeOf[osig], Escalated(Old!Machine)) BY <2>3, OldWrites
    <3>3. QED BY <1>2, <1>3, <1>4, <1>6, <2>1, <2>3, <3>1, <3>2 DEF HandlesSignal
  <2>4. CASE /\ "escalate" \in Rejected \/ ~ovfresh[NodeOf[osig]]
             /\ oobserved' = [oobserved EXCEPT ![Key(osig)] = NoCall]
             /\ UNCHANGED <<Old!apiVars, Old!viewVars>>
    BY <1>2, <1>3, <1>4, <1>5, <1>6, <2>1, <2>4 DEF HandlesSignal
  <2>5. QED
    BY <1>9, <2>2, <2>3, <2>4, OldReads, OldStores DEF Old!Escalate, Old!Conclude, Old!apiVars
<1>10. CASE Old!Mark
  <2>1. Old!Machine.exists /\ Old!Decided # "Report" /\ Old!Machine.marked = FALSE /\ ~Old!NodeGone /\ opc' = "signals"
    BY <1>10, OldMarksUnmarked, OldReads DEF Old!Mark, Old!Conclude, Old!apiVars
  <2>2. AsksFor(Theirs, Old!MarkStored)
    <3>1. Old!Node.exists BY <1>1, <2>1 DEF Old!NodeGone
    <3>2. Old!AsRestart => Old!MarkWanted = Marked(Old!Machine, "Restart", Old!Node.boot, osig) /\ Want[osig] = "Restart"
      BY <1>2, <3>1, OldStores DEF Old!MarkWanted, Old!AsRestart, Old!apiVars
    <3>3. ~Old!AsRestart => Old!MarkWanted = Marked(Old!Machine, "Remediate", 0, NoRequest)
      BY OldStores DEF Old!MarkWanted, Old!apiVars
    <3>4. QED
      BY <1>2, <1>3, <2>1, <3>2, <3>3, OldStores DEF AsksFor, Old!MarkStored, Old!apiVars
  <2>3. CASE Old!PatchMachine(NodeOf[osig], Old!MarkStored) /\ oobserved' = [oobserved EXCEPT ![Key(osig)] = Old!Call]
    <3>1. Writes(Theirs, Theirs', NodeOf[osig], Old!MarkStored) BY <2>3, OldWrites
    <3>2. QED BY <1>2, <1>3, <1>4, <1>6, <2>1, <2>2, <2>3, <3>1 DEF HandlesSignal
  <2>4. CASE Old!WriteBehind(NodeOf[osig], Old!MarkStored) /\ oobserved' = [oobserved EXCEPT ![Key(osig)] = NoCall]
    <3>1. Loses(Theirs, Theirs', NodeOf[osig], Old!MarkStored) BY <2>4, OldWrites
    <3>2. QED BY <1>2, <1>3, <1>4, <1>6, <2>1, <2>2, <2>4, <3>1 DEF HandlesSignal
  <2>5. CASE UNCHANGED <<Old!apiVars, Old!viewVars>> /\ oobserved' = [oobserved EXCEPT ![Key(osig)] = NoCall]
    BY <1>2, <1>3, <1>4, <1>5, <1>6, <2>1, <2>5 DEF HandlesSignal
  <2>6. QED BY <1>10, <2>3, <2>4, <2>5, OldReads DEF Old!Mark, Old!Conclude, Old!apiVars
<1>11. QED BY <1>7, <1>8, <1>9, <1>10 DEF Old!Handle

LEMMA OldAnswers ==
  ASSUME Old!Answer
  PROVE  AnswersSignal(Theirs, Theirs')
<1>1. Theirs.pc = "answer" /\ SameSignals(Theirs, Theirs') /\ SameCopies(Theirs, Theirs') /\ Theirs'.ans = "none"
      /\ Theirs'.read = Theirs.read /\ Theirs'.observed = Theirs.observed /\ Theirs'.left = Theirs.left
      /\ Unwritten(Theirs, Theirs') /\ UNCHANGED raisedAt
  BY OldStores DEF Old!Answer, Theirs, SameSignals, SameCopies, Unwritten, SameRequests, Old!passVars,
      Old!viewVars, Old!apiVars
<1>2. Theirs.sig = osig /\ Theirs.ans = oans /\ Theirs'.pc = opc' /\ Theirs'.answered = oanswered'
      /\ Old!Machine = CopyInHand(Theirs)
  BY DEF Theirs, CopyInHand, Old!Machine
<1>3. \/ /\ request[osig] = "pending" /\ StoresRequest(Theirs, Theirs', osig, oans)
         /\ \/ opc' = "signals"
            \/ oans = "True" /\ opc' = "releaseAnswered" /\ oanswered' = RestartMarkOf(Old!Machine)
      \/ opc' = "signals" /\ UNCHANGED request /\ Theirs'.requests = Theirs.requests
  BY OldReads, OldStores DEF Old!Answer, Old!Answers, Old!StoreRequest, StoresRequest, Theirs
<1>4. QED BY <1>1, <1>2, <1>3, OldReads DEF AnswersSignal

LEMMA OldReleases ==
  ASSUME NEW n, Old!Release(n)
  PROVE  ReleasesOne(Theirs, Theirs', n)
<1>1. UNCHANGED <<Old!apiVars, Old!viewVars>> => SameCopies(Theirs, Theirs') /\ Unwritten(Theirs, Theirs')
  BY DEF SameCopies, Unwritten, SameRequests, Theirs, Old!viewVars, Old!apiVars
<1>2. Theirs.fresh = ovfresh /\ Theirs.view = oview BY DEF Theirs
<1>3. QED BY <1>1, <1>2, OldWrites, OldStores DEF Old!Release, ReleasesOne, Old!apiVars

LEMMA OldReleasesAnswered ==
  ASSUME Old!ReleaseAnswered
  PROVE  ReleasesSignal(Theirs, Theirs')
<1>1. Theirs.pc = "releaseAnswered" /\ SameSignals(Theirs, Theirs') /\ Theirs'.ans = Theirs.ans
      /\ Theirs'.read = Theirs.read /\ Theirs'.observed = Theirs.observed /\ Theirs'.left = Theirs.left
      /\ SameRequests(Theirs, Theirs') /\ Theirs'.pc = opc' /\ Theirs.sig = osig
      /\ Theirs'.answered = oanswered' /\ Theirs.answered = oanswered
  BY DEF Old!ReleaseAnswered, Theirs, SameSignals, SameRequests, Old!passVars, Old!reqVars, Old!apiVars
<1>2. UNCHANGED <<Old!apiVars, Old!viewVars>> => SameCopies(Theirs, Theirs') /\ Unwritten(Theirs, Theirs')
  BY DEF SameCopies, Unwritten, SameRequests, Theirs, Old!viewVars, Old!apiVars
<1>3. QED
  BY <1>1, <1>2, OldReleases DEF Old!ReleaseAnswered, ReleasesSignal, Old!reqVars,
      Old!apiVars

LEMMA OldRereads ==
  ASSUME Old!Reread
  PROVE  RereadsCopy(Theirs, Theirs')
<1>1. Theirs.pc = "reread" /\ SameSignals(Theirs, Theirs') /\ Theirs'.ans = Theirs.ans
      /\ Theirs'.read = Theirs.read /\ Theirs'.observed = Theirs.observed /\ Theirs'.left = Theirs.left
      /\ Unwritten(Theirs, Theirs') /\ SameRequests(Theirs, Theirs') /\ Theirs'.pc = opc' /\ Theirs.sig = osig
      /\ Theirs'.answered = oanswered' /\ Theirs.answered = oanswered
      /\ Theirs'.view = oview' /\ Theirs'.fresh = ovfresh' /\ Theirs.view = oview /\ Theirs.fresh = ovfresh
  BY OldReads DEF Old!Reread, Theirs, SameSignals, Old!passVars, Unwritten, SameRequests, Old!reqVars,
      Old!apiVars
<1>2. CASE omcache[NodeOf[osig]].exists
  BY <1>1, <1>2, OldReads DEF Old!Reread, RereadsCopy, Theirs, Old!tryVars, Old!reqVars
<1>3. CASE ~omcache[NodeOf[osig]].exists
  BY <1>1, <1>3, OldReads DEF Old!Reread, RereadsCopy, SameCopies, Theirs, Old!viewVars, Old!reqVars
<1>4. QED BY <1>2, <1>3

LEMMA OldChooses ==
  ASSUME Old!StartRelease
  PROVE  ChoosesReleases(Theirs, Theirs')
<1>1. \A n : Old!Held(n) <=> HeldBy(Theirs, n)
  BY OldReads DEF Old!Held, HeldBy, Old!Leftover, LeftoverIn, Theirs
<1>2. QED
  BY <1>1, OldReads DEF Old!StartRelease, ChoosesReleases, Theirs, SameSignals, SameCopies,
      Unwritten, SameRequests, Old!MayRelease,
              Old!passVars, Old!viewVars, Old!reqVars, Old!apiVars

LEMMA OldReleasesLeft ==
  ASSUME NEW n \in oleft, Old!ReleaseRestart(n)
  PROVE  ReleasesLeft(Theirs, Theirs')
<1>1. Theirs.pc = "release" /\ Theirs'.pc = "release" /\ SameSignals(Theirs, Theirs') /\ Theirs'.ans = Theirs.ans
      /\ Theirs'.read = Theirs.read /\ Theirs'.observed = Theirs.observed
      /\ n \in Theirs.left /\ Theirs'.left = Theirs.left \ {n} /\ SameRequests(Theirs, Theirs')
  BY DEF Old!ReleaseRestart, Theirs, SameSignals, SameRequests, Old!passVars, Old!reqVars
<1>2. UNCHANGED <<Old!apiVars, Old!viewVars>> => SameCopies(Theirs, Theirs') /\ Unwritten(Theirs, Theirs')
  BY DEF SameCopies, Unwritten, SameRequests, Theirs, Old!viewVars, Old!apiVars
<1>3. ReleasesOne(Theirs, Theirs', n)
  BY <1>2, OldReleases DEF Old!ReleaseRestart, ReleasesOne, Old!reqVars, Old!apiVars
<1>4. QED BY <1>1, <1>3 DEF ReleasesLeft

LEMMA OldSteps ==
  ASSUME OnlyRequests, TypeOK, PassTyped(Theirs), CachesEarned(Theirs), Old!Pass
  PROVE  Step(Theirs, Theirs')
<1>1. CASE Old!PassOver
  BY <1>1 DEF Old!PassOver, Step, Rests, Theirs, Old!nodeVars, Old!passVars, Old!viewVars, Old!tryVars, Unwritten, SameRequests,
      Old!reqVars, Old!apiVars
<1>2. CASE Old!Finish
  BY <1>2, OldReads DEF Old!Finish, Old!EndPass, Step, Ends, Theirs, Unwritten, SameRequests, Old!reqVars, Old!apiVars
<1>3. CASE \E s \in otodo : Old!Take(s) \/ Old!PassBy(s) \/ Old!Unreadable(s)
  BY <1>3, OldTakes DEF Step
<1>4. CASE \E n \in oleft : Old!ReleaseRestart(n) BY <1>4, OldReleasesLeft DEF Step
<1>5. CASE Old!Begin BY <1>5, OldBegins DEF Step
<1>6. CASE Old!Handle BY <1>6, OldHandles DEF Step
<1>7. CASE Old!Answer BY <1>7, OldAnswers DEF Step
<1>8. CASE Old!ReleaseAnswered BY <1>8, OldReleasesAnswered DEF Step
<1>9. CASE Old!Reread BY <1>9, OldRereads DEF Step
<1>10. CASE Old!StartRelease BY <1>10, OldChooses DEF Step
<1>11. QED BY <1>1, <1>2, <1>3, <1>4, <1>5, <1>6, <1>7, <1>8, <1>9, <1>10 DEF Old!Pass

-----------------------------------------------------------------------------
(* What a step of a leader writes *)

\* Requests stay raised and answered, and nodes boot on.
Ahead ==
  /\ \A n \in Nodes : node[n].boot <= node'[n].boot
  /\ \A r \in Requests :
       /\ request[r] # "unraised" => request'[r] # "unraised" /\ raisedAt'[r] = raisedAt[r]
       /\ request[r] = "True" => request'[r] = "True"

\* Earned, in the next state, of a Machine as it is then.
EarnedThen(n, m) ==
  /\ ~m.marked => m.action = "none" /\ m.boot = 0 /\ m.request = NoRequest
  /\ m.action = "Restart" =>
       /\ m.request \in Requests /\ NodeOf[m.request] = n /\ Want[m.request] = "Restart"
       /\ request'[m.request] # "unraised" /\ raisedAt'[m.request] <= m.boot
  /\ m.boot <= node'[n].boot

LEMMA EarnedKept ==
  ASSUME TypeOK, node' \in [Nodes -> NodeRecords], Ahead, NEW n \in Nodes, NEW m \in Machines, Earned(n, m)
  PROVE  EarnedThen(n, m)
<1>1. m.boot \in Nat /\ node[n].boot \in Nat /\ node'[n].boot \in Nat /\ node[n].boot <= node'[n].boot
  BY DEF Machines, TypeOK, ClustersTypeOK, NodeRecords, Ahead
<1>2. m.boot <= node'[n].boot BY <1>1 DEF Earned
<1>3. QED BY <1>2 DEF Earned, EarnedThen, RaisedBy, Ahead

LEMMA UnreadEarned ==
  ASSUME TypeOK, node' \in [Nodes -> NodeRecords], NEW n \in Nodes
  PROVE  EarnedThen(n, Unread) /\ Unread \in Machines
<1>1. node'[n].boot \in Nat BY DEF NodeRecords
<1>2. Unread.marked = FALSE /\ Unread.action = "none" /\ Unread.boot = 0 /\ Unread.request = NoRequest
  BY DEF Unread
<1>3. QED BY <1>1, <1>2, UnreadType DEF EarnedThen

LEMMA InHand ==
  ASSUME NEW L, PassTyped(L), TypeOK, L.pc \in {"handle", "answer", "releaseAnswered", "reread"}
  PROVE  /\ L.sig \in Requests /\ L.sig \in L.asking /\ L.sig \in Signals
         /\ NodeOf[L.sig] \in Nodes /\ Key(L.sig) \in Keys
         /\ CopyInHand(L) \in Machines /\ machine[NodeOf[L.sig]] \in Machines
         /\ Want[L.sig] \in Decisions
         /\ L.read \in Reads /\ NodeInHand(L) = L.read.nodes[NodeOf[L.sig]]
         /\ NodeInHand(L).boot \in Nat /\ BootRead(L, NodeOf[L.sig]) = NodeInHand(L).boot
<1>1. L.sig \in Requests /\ L.sig \in L.asking /\ L.sig \in Signals BY DEF PassTyped, Signals
<1>2. NodeOf[L.sig] \in Nodes /\ Want[L.sig] \in Decisions BY <1>1, ConstantsAssumption
<1>3. Key(L.sig) \in Keys BY <1>1, <1>2 DEF Key, Keys, Checks
<1>4. CopyInHand(L) \in Machines /\ machine[NodeOf[L.sig]] \in Machines
  BY <1>2 DEF PassTyped, CopyInHand, TypeOK, MachinesTypeOK
<1>5. L.read \in Reads BY DEF PassTyped
<1>6. NodeInHand(L).boot \in Nat BY <1>2, <1>5 DEF Reads, NodeRecords, NodeInHand
<1>7. QED BY <1>1, <1>2, <1>3, <1>4, <1>5, <1>6 DEF NodeInHand, BootRead

\* A patch of an unmarked Machine, field by field.
LEMMA PatchedFields ==
  ASSUME NEW c \in Machines, NEW w \in Machines, NEW cur \in Machines
  PROVE  /\ MergePatch(c, w, cur) \in Machines
         /\ MergePatch(c, w, cur).exists = cur.exists
         /\ MergePatch(c, w, cur).marked = IF c.marked # w.marked THEN w.marked ELSE cur.marked
         /\ MergePatch(c, w, cur).action = IF c.action # w.action THEN w.action ELSE cur.action
         /\ MergePatch(c, w, cur).boot = IF c.boot # w.boot THEN w.boot ELSE cur.boot
         /\ MergePatch(c, w, cur).request = IF c.request # w.request THEN w.request ELSE cur.request
<1>1. MergePatch(c, w, cur) \in Machines BY MergePatchType
<1>2. QED BY <1>1 DEF MergePatch, Machines

\* A mark that a leader asks for is the mark of the request in hand at the boot
\* it read, or a replacement mark.
LEMMA AskedFields ==
  ASSUME NEW L, NEW m, TypeOK, SharedInv, PassTyped(L), PassEarned(L), L.pc = "handle", AsksFor(L, m)
  PROVE  /\ m \in Machines /\ m.marked = TRUE /\ m.exists = machine[NodeOf[L.sig]].exists
         /\ \/ /\ ~CopyInHand(L).marked /\ m.action = "Restart" /\ Want[L.sig] = "Restart"
               /\ m.request = L.sig /\ m.boot = BootRead(L, NodeOf[L.sig])
            \/ m.action = "Remediate" /\ m.boot \in {0, machine[NodeOf[L.sig]].boot}
<1> DEFINE n == NodeOf[L.sig]
           c == CopyInHand(L)
           b == NodeInHand(L).boot
<1>1. /\ L.sig \in Requests /\ n \in Nodes /\ c \in Machines /\ machine[n] \in Machines /\ b \in Nat
      /\ BootRead(L, n) = b /\ L.sig # NoRequest
  BY InHand, NoRequestAssumption
<1>2. Earned(n, c) /\ 1 <= b /\ (L.fresh[n] => c = machine[n])
  BY <1>1 DEF PassEarned, CopyInHand
<1>3. ~c.marked => c.marked = FALSE /\ c.action = "none" /\ c.boot = 0 /\ c.request = NoRequest
  BY <1>1, <1>2 DEF Earned, Machines
<1>4. b # 0 /\ "Restart" \in Actions /\ "Remediate" \in Actions /\ 0 \in Nat
      /\ L.sig \in Requests \cup {NoRequest} /\ NoRequest \in Requests \cup {NoRequest}
  BY <1>1, <1>2 DEF Actions
<1> HIDE DEF n, c, b
<1>5. CASE /\ ~c.marked /\ Want[L.sig] = "Restart"
           /\ m = MergePatch(c, Marked(c, "Restart", b, L.sig), machine[n])
  <2>1. PICK w : w = Marked(c, "Restart", b, L.sig) OBVIOUS
  <2>2. w \in Machines /\ w.marked = TRUE /\ w.action = "Restart" /\ w.boot = b /\ w.request = L.sig
    <3>1. c \in Machines /\ b \in Nat /\ L.sig # NoRequest BY <1>1
    <3>2. w \in Machines BY <1>4, <2>1, <3>1, MarkedType
    <3>3. QED BY <1>4, <2>1, <3>1, <3>2 DEF Marked, Machines
  <2>3. m = MergePatch(c, w, machine[n]) BY <1>5, <2>1
  <2>4. m \in Machines /\ m.exists = machine[n].exists BY <1>1, <2>2, <2>3, PatchedFields
  <2>5. c.marked # w.marked /\ c.action # w.action /\ c.boot # w.boot /\ c.request # w.request
    BY <1>1, <1>3, <1>4, <1>5, <2>2
  <2>6. m.marked = TRUE /\ m.action = "Restart" /\ m.boot = b /\ m.request = L.sig
    BY <1>1, <2>2, <2>3, <2>5, PatchedFields
  <2>7. QED BY <1>1, <1>5, <2>4, <2>6 DEF n, c, b
<1>6. CASE ~c.marked /\ m = MergePatch(c, Marked(c, "Remediate", 0, NoRequest), machine[n])
  <2>1. PICK w : w = Marked(c, "Remediate", 0, NoRequest) OBVIOUS
  <2>2. w \in Machines /\ w.marked = TRUE /\ w.action = "Remediate" /\ w.boot = c.boot
    <3>1. c \in Machines BY <1>1
    <3>2. w \in Machines BY <1>4, <2>1, <3>1, MarkedType
    <3>3. QED BY <1>4, <2>1, <3>1, <3>2 DEF Marked, Machines
  <2>3. m = MergePatch(c, w, machine[n]) BY <1>6, <2>1
  <2>4. m \in Machines /\ m.exists = machine[n].exists BY <1>1, <2>2, <2>3, PatchedFields
  <2>5. c.marked # w.marked /\ c.action # w.action /\ c.boot = w.boot BY <1>1, <1>3, <1>6, <2>2
  <2>6. m.marked = TRUE /\ m.action = "Remediate" /\ m.boot = machine[n].boot
    BY <1>1, <2>2, <2>3, <2>5, PatchedFields
  <2>7. QED BY <1>1, <1>6, <2>4, <2>6 DEF n, c, b
<1>7. CASE L.fresh[n] /\ MarkedAction(c) = "Restart" /\ m = Escalated(c)
  <2>1. c.marked = TRUE BY <1>1, <1>7 DEF MarkedAction, Machines
  <2>2. m \in Machines /\ m.action = "Remediate" /\ m.boot = 0 /\ m.marked = TRUE /\ m.exists = c.exists
    BY <1>1, <1>7, <2>1, EscalatedType DEF Escalated, Machines
  <2>3. QED BY <1>2, <1>7, <2>2 DEF n, c, b
<1>8. QED BY <1>5, <1>6, <1>7 DEF AsksFor, n, c, b

\* The Machine that a leader writes to, and what it writes.
Patches(L, n, m) ==
  \/ L.pc = "handle" /\ n = NodeOf[L.sig] /\ CopyInHand(L).exists /\ AsksFor(L, m)
  \/ /\ L.fresh[n] /\ m = Released(L.view[n])
     /\ (L.pc = "releaseAnswered" /\ n = NodeOf[L.sig]) \/ (L.pc = "release" /\ n \in L.left)

LEMMA StepPatches ==
  ASSUME NEW L, NEW K, TypeOK, PassTyped(L), Step(L, K)
  PROVE  \/ Unwritten(L, K)
         \/ \E n \in Nodes : \E m : Patches(L, n, m) /\ (Writes(L, K, n, m) \/ Loses(L, K, n, m))
<1>1. CASE HandlesSignal(L, K)
  <2>1. NodeOf[L.sig] \in Nodes BY <1>1, InHand DEF HandlesSignal
  <2>2. QED BY <1>1, <2>1 DEF HandlesSignal, Patches
<1>2. CASE ReleasesSignal(L, K)
  <2>1. NodeOf[L.sig] \in Nodes BY <1>2, InHand DEF ReleasesSignal
  <2>2. QED BY <1>2, <2>1 DEF ReleasesSignal, ReleasesOne, Patches
<1>3. CASE ReleasesLeft(L, K)
  <2>1. L.left \subseteq Nodes BY DEF PassTyped
  <2>2. QED BY <1>3, <2>1 DEF ReleasesLeft, ReleasesOne, Patches
<1>4. QED
  BY <1>1, <1>2, <1>3 DEF Step, Begins, TakesNext, AnswersSignal, RereadsCopy, ChoosesReleases, Ends, Rests

LEMMA ReleasedFields ==
  ASSUME NEW m \in Machines
  PROVE  /\ Released(m) \in Machines /\ Released(m).marked = FALSE /\ Released(m).action = "none"
         /\ Released(m).boot = 0 /\ Released(m).request = NoRequest /\ Released(m).exists = m.exists
BY ReleasedType DEF Released, Machines

LEMMA PatchEarned ==
  ASSUME NEW L, NEW n \in Nodes, NEW m, TypeOK, SharedInv, PassTyped(L), PassEarned(L),
         Patches(L, n, m)
  PROVE  m \in Machines /\ Earned(n, m)
<1>1. node[n].boot \in Nat /\ machine[n] \in Machines /\ machine[n].boot \in Nat
  BY DEF TypeOK, ClustersTypeOK, NodeRecords, MachinesTypeOK, Machines
<1>2. CASE L.pc = "handle" /\ n = NodeOf[L.sig] /\ AsksFor(L, m)
  <2>1. L.sig \in Requests /\ L.sig \in L.asking BY <1>2, InHand
  <2>2. BootRead(L, n) <= node[n].boot /\ RaisedBy(L.sig, BootRead(L, n))
    BY <1>2, <2>1 DEF PassEarned
  <2>3. machine[n].boot <= node[n].boot BY DEF SharedInv, Earned
  <2>4. m \in Machines /\ m.marked = TRUE BY <1>2, AskedFields
  <2>5. CASE m.action = "Restart" /\ Want[L.sig] = "Restart" /\ m.request = L.sig /\ m.boot = BootRead(L, n)
    BY <1>2, <2>1, <2>2, <2>4, <2>5 DEF Earned
  <2>6. CASE m.action = "Remediate" /\ m.boot \in {0, machine[n].boot}
    BY <1>1, <2>3, <2>4, <2>6 DEF Earned
  <2>7. QED BY <1>2, <2>5, <2>6, AskedFields
<1>3. CASE m = Released(L.view[n])
  <2>1. L.view[n] \in Machines BY DEF PassTyped
  <2>2. m \in Machines /\ m.marked = FALSE /\ m.action = "none" /\ m.boot = 0 /\ m.request = NoRequest
    BY <1>3, <2>1, ReleasedFields
  <2>3. QED BY <1>1, <2>2 DEF Earned
<1>4. QED BY <1>2, <1>3 DEF Patches

LEMMA StepMachines ==
  ASSUME NEW L, NEW K, TypeOK, SharedInv, PassTyped(L), PassEarned(L), Step(L, K)
  PROVE  machine' \in [Nodes -> Machines] /\ \A n \in Nodes : Earned(n, machine'[n])
<1>1. machine \in [Nodes -> Machines] BY DEF TypeOK, MachinesTypeOK
<1>2. CASE Unwritten(L, K) BY <1>1, <1>2 DEF Unwritten, SharedInv
<1>3. ASSUME NEW n \in Nodes, NEW m, Patches(L, n, m), Writes(L, K, n, m) \/ Loses(L, K, n, m)
      PROVE  machine' \in [Nodes -> Machines] /\ \A k \in Nodes : Earned(k, machine'[k])
  <2>1. m \in Machines /\ Earned(n, m) BY <1>3, PatchEarned
  <2>2. machine' = [machine EXCEPT ![n] = m] BY <1>3 DEF Writes, Loses, Stores
  <2>3. \A k \in Nodes : machine'[k] = IF k = n THEN m ELSE machine[k] BY <1>1, <2>2
  <2>4. QED BY <1>1, <2>1, <2>2, <2>3 DEF SharedInv
<1>4. QED BY <1>2, <1>3, StepPatches

\* Where the informers of a leader have their contents from: what they had, or
\* what the API servers have.
Follows(L, K) ==
  /\ K.machines \in [Nodes -> Machines] /\ K.current \in [Nodes -> BOOLEAN]
  /\ K.requests \subseteq Requests /\ K.nodes = node'
  /\ "machines" \notin Lag => K.machines = machine'
  /\ \A n \in Nodes : /\ K.machines[n] \in {L.machines[n], machine'[n]}
                      /\ K.current[n] => K.machines[n] = machine'[n]
  /\ \A r \in K.requests : r \in L.requests \/ request'[r] = "pending"

LEMMA StepRequests ==
  ASSUME NEW L, NEW K, TypeOK, PassTyped(L), Step(L, K)
  PROVE  /\ raisedAt' = raisedAt /\ request' \in [Requests -> RequestStates] /\ K.requests \subseteq Requests
         /\ \A r \in Requests :
              \/ request'[r] = request[r]
              \/ /\ L.pc = "answer" /\ r = L.sig /\ request[r] = "pending"
                 /\ request'[r] = L.ans /\ L.ans \in {"True", "False"}
         /\ K.requests = L.requests \/ K.requests = {r \in Requests : request'[r] = "pending"}
<1>1. request \in [Requests -> RequestStates] /\ L.requests \subseteq Requests
  BY DEF TypeOK, ClustersTypeOK, PassTyped
<1>2. CASE AnswersSignal(L, K)
  <2>1. L.pc = "answer" /\ L.sig \in Requests /\ L.ans \in {"True", "False"}
    BY <1>2, InHand DEF AnswersSignal, PassTyped
  <2>2. \/ UNCHANGED request /\ K.requests = L.requests
        \/ request[L.sig] = "pending" /\ StoresRequest(L, K, L.sig, L.ans)
    BY <1>2 DEF AnswersSignal
  <2>3. raisedAt' = raisedAt BY <1>2 DEF AnswersSignal
  <2>4. QED BY <1>1, <2>1, <2>2, <2>3 DEF StoresRequest, RequestStates
<1>3. CASE SameRequests(L, K) BY <1>1, <1>3 DEF SameRequests
<1>4. QED
  BY <1>2, <1>3 DEF Step, Begins, TakesNext, HandlesSignal, ReleasesSignal, RereadsCopy, ChoosesReleases,
                    ReleasesLeft, Ends, Rests

LEMMA StepFollows ==
  ASSUME NEW L, NEW K, TypeOK, SharedInv, PassTyped(L), CachesEarned(L), PassEarned(L), Step(L, K),
         node' = node, K.nodes = L.nodes
  PROVE  Follows(L, K)
<1>1. /\ machine \in [Nodes -> Machines] /\ L.machines \in [Nodes -> Machines]
      /\ L.current \in [Nodes -> BOOLEAN] /\ machine' \in [Nodes -> Machines]
  BY StepMachines DEF TypeOK, MachinesTypeOK, PassTyped
<1>2. /\ K.machines \in [Nodes -> Machines] /\ K.current \in [Nodes -> BOOLEAN]
      /\ "machines" \notin Lag => K.machines = machine'
      /\ \A n \in Nodes : /\ K.machines[n] \in {L.machines[n], machine'[n]}
                          /\ K.current[n] => K.machines[n] = machine'[n]
  <2>1. CASE Unwritten(L, K) BY <1>1, <2>1 DEF Unwritten, CachesEarned
  <2>2. ASSUME NEW n \in Nodes, NEW m, Stores(L, K, n, m)
        PROVE  /\ K.machines \in [Nodes -> Machines] /\ K.current \in [Nodes -> BOOLEAN]
               /\ "machines" \notin Lag => K.machines = machine'
               /\ \A k \in Nodes : /\ K.machines[k] \in {L.machines[k], machine'[k]}
                                   /\ K.current[k] => K.machines[k] = machine'[k]
    <3>1. CASE "machines" \in Lag
      <4>1. K.machines = L.machines /\ K.current = [L.current EXCEPT ![n] = FALSE]
        BY <2>2, <3>1 DEF Stores
      <4>2. \A k \in Nodes : K.current[k] => k # n /\ L.current[k] BY <1>1, <4>1
      <4>3. \A k \in Nodes \ {n} : machine'[k] = machine[k] BY <1>1, <2>2 DEF Stores
      <4>4. QED BY <1>1, <3>1, <4>1, <4>2, <4>3 DEF CachesEarned
    <3>2. CASE "machines" \notin Lag BY <1>1, <2>2, <3>2 DEF Stores
    <3>3. QED BY <3>1, <3>2
  <2>3. QED BY <2>1, <2>2, StepPatches DEF Writes, Loses
<1>3. K.requests \subseteq Requests /\ \A r \in K.requests : r \in L.requests \/ request'[r] = "pending"
  BY StepRequests
<1>4. K.nodes = node' BY DEF CachesEarned
<1>5. QED BY <1>2, <1>3, <1>4 DEF Follows

LEMMA StepCopies ==
  ASSUME NEW L, NEW K, TypeOK, SharedInv, PassTyped(L), CachesEarned(L), PassEarned(L), Step(L, K)
  PROVE  /\ K.view \in [Nodes -> Machines] /\ K.fresh \in [Nodes -> BOOLEAN]
         /\ \A n \in Nodes :
              /\ K.view[n] \in {L.view[n], machine'[n], L.machines[n], Unread}
              /\ K.fresh[n] => K.view[n] = machine'[n]
<1> DEFINE Goal == /\ K.view \in [Nodes -> Machines] /\ K.fresh \in [Nodes -> BOOLEAN]
                   /\ \A n \in Nodes :
                        /\ K.view[n] \in {L.view[n], machine'[n], L.machines[n], Unread}
                        /\ K.fresh[n] => K.view[n] = machine'[n]
<1>1. /\ machine \in [Nodes -> Machines] /\ L.machines \in [Nodes -> Machines] /\ L.current \in [Nodes -> BOOLEAN]
      /\ L.view \in [Nodes -> Machines] /\ L.fresh \in [Nodes -> BOOLEAN]
  BY DEF TypeOK, MachinesTypeOK, PassTyped
<1>2. \A n \in Nodes : (L.fresh[n] => L.view[n] = machine[n]) /\ (L.current[n] => L.machines[n] = machine[n])
  BY DEF PassEarned, CachesEarned
<1>3. ASSUME SameCopies(L, K), Unwritten(L, K) PROVE Goal
  BY <1>1, <1>2, <1>3 DEF SameCopies, Unwritten
<1>4. ASSUME NEW n \in Nodes, NEW m, Patches(L, n, m), Writes(L, K, n, m) \/ Loses(L, K, n, m) PROVE Goal
  <2>1. m \in Machines BY <1>4, PatchEarned
  <2>2. Stores(L, K, n, m) BY <1>4 DEF Writes, Loses
  <2>3. \A k \in Nodes : machine'[k] = IF k = n THEN m ELSE machine[k] BY <1>1, <2>2 DEF Stores
  <2>4. CASE Writes(L, K, n, m)
    <3>1. /\ \A k \in Nodes : K.view[k] = IF k = n THEN m ELSE L.view[k]
          /\ \A k \in Nodes : K.fresh[k] = IF k = n THEN TRUE ELSE L.fresh[k]
          /\ K.view \in [Nodes -> Machines] /\ K.fresh \in [Nodes -> BOOLEAN]
      BY <1>1, <2>1, <2>4 DEF Writes
    <3>2. QED BY <1>2, <2>3, <3>1
  <2>5. CASE Loses(L, K, n, m)
    <3>1. /\ K.view = L.view
          /\ \A k \in Nodes : K.fresh[k] => k # n /\ L.fresh[k]
          /\ K.fresh \in [Nodes -> BOOLEAN]
      BY <1>1, <2>5 DEF Loses
    <3>2. QED BY <1>1, <1>2, <2>3, <3>1
  <2>6. QED BY <1>4, <2>4, <2>5
<1>5. CASE Begins(L, K) BY <1>1, <1>2, <1>5 DEF Begins, Unwritten
<1>6. CASE Ends(L, K) BY <1>1, <1>6, UnreadType DEF Ends
<1>7. CASE RereadsCopy(L, K)
  <2>1. NodeOf[L.sig] \in Nodes BY <1>7, InHand DEF RereadsCopy
  <2>2. CASE SameCopies(L, K) BY <1>3, <1>7, <2>2 DEF RereadsCopy
  <2>3. CASE /\ K.view = [L.view EXCEPT ![NodeOf[L.sig]] = L.machines[NodeOf[L.sig]]]
             /\ K.fresh = [L.fresh EXCEPT ![NodeOf[L.sig]] = L.current[NodeOf[L.sig]]]
    <3>1. /\ \A k \in Nodes : K.view[k] = IF k = NodeOf[L.sig] THEN L.machines[k] ELSE L.view[k]
          /\ \A k \in Nodes : K.fresh[k] = IF k = NodeOf[L.sig] THEN L.current[k] ELSE L.fresh[k]
          /\ K.view \in [Nodes -> Machines] /\ K.fresh \in [Nodes -> BOOLEAN]
      BY <1>1, <2>1, <2>3
    <3>2. machine' = machine BY <1>7 DEF RereadsCopy, Unwritten
    <3>3. QED BY <1>2, <3>1, <3>2
  <2>4. QED BY <1>7, <2>2, <2>3 DEF RereadsCopy
<1>8. CASE TakesNext(L, K) \/ AnswersSignal(L, K) \/ ChoosesReleases(L, K)
  BY <1>3, <1>8 DEF TakesNext, AnswersSignal, ChoosesReleases
<1>9. CASE Rests(L, K) BY <1>1, <1>2, <1>9 DEF Rests, Unwritten
<1>10. CASE HandlesSignal(L, K) \/ ReleasesSignal(L, K) \/ ReleasesLeft(L, K)
  <2>1. \/ SameCopies(L, K) /\ Unwritten(L, K)
        \/ \E n \in Nodes : \E m : Patches(L, n, m) /\ (Writes(L, K, n, m) \/ Loses(L, K, n, m))
    <3>1. L.pc \in {"handle", "releaseAnswered"} => NodeOf[L.sig] \in Nodes BY InHand
    <3>2. L.left \subseteq Nodes BY DEF PassTyped
    <3>3. QED BY <1>10, <3>1, <3>2 DEF HandlesSignal, ReleasesSignal, ReleasesLeft, ReleasesOne, Patches
  <2>2. QED BY <1>3, <1>4, <2>1
<1>11. QED BY <1>5, <1>6, <1>7, <1>8, <1>9, <1>10 DEF Step

-----------------------------------------------------------------------------
(* CreditOverlap: what a step of a leader keeps *)

LEMMA StepAhead ==
  ASSUME NEW L, NEW K, TypeOK, SharedInv, PassTyped(L), Step(L, K), node' = node
  PROVE  node' \in [Nodes -> NodeRecords] /\ Ahead
<1>1. node' \in [Nodes -> NodeRecords] BY DEF TypeOK, ClustersTypeOK
<1>2. \A n \in Nodes : node[n].boot \in Nat BY DEF TypeOK, ClustersTypeOK, NodeRecords
<1>3. \A n \in Nodes : node[n].boot <= node'[n].boot BY <1>2
<1>4. \A r \in Requests :
        /\ request[r] # "unraised" => request'[r] # "unraised" /\ raisedAt'[r] = raisedAt[r]
        /\ request[r] = "True" => request'[r] = "True"
  BY StepRequests
<1>5. QED BY <1>1, <1>3, <1>4 DEF Ahead

LEMMA StepShared ==
  ASSUME NEW L, NEW K, TypeOK, SharedInv, PassTyped(L), PassEarned(L), Step(L, K), node' = node
  PROVE  SharedInv'
<1>1. node' \in [Nodes -> NodeRecords] /\ Ahead BY StepAhead
<1>2. \A r \in Requests : request'[r] # "unraised" => raisedAt'[r] <= node'[NodeOf[r]].boot
  BY StepRequests DEF SharedInv
<1>3. RestartedForReal'
  <2>1. ASSUME NEW r \in Requests, request'[r] = "True" PROVE raisedAt'[r] < node'[NodeOf[r]].boot
    <3>1. CASE request[r] = "True" BY <3>1, StepRequests DEF SharedInv, RestartedForReal
    <3>2. CASE L.pc = "answer" /\ r = L.sig /\ L.ans = "True" BY <3>2, StepRequests DEF PassEarned
    <3>3. QED BY <2>1, <3>1, <3>2, StepRequests
  <2>2. QED BY <2>1 DEF RestartedForReal
<1>4. ASSUME NEW n \in Nodes PROVE EarnedThen(n, machine'[n])
  <2>1. machine'[n] \in Machines /\ Earned(n, machine'[n]) BY StepMachines
  <2>2. QED BY <1>1, <2>1, EarnedKept
<1>5. \A n \in Nodes : Earned(n, machine[n])' BY <1>4 DEF Earned, EarnedThen, RaisedBy
<1>6. \A n \in Nodes : 1 <= node'[n].boot BY DEF SharedInv
<1>7. QED BY <1>2, <1>3, <1>5, <1>6 DEF SharedInv

\* What an informer has was so once, and so is earned.
LEMMA CachesKept ==
  ASSUME NEW L, NEW K, TypeOK, node' \in [Nodes -> NodeRecords], Ahead, SharedInv', PassTyped(L),
         CachesEarned(L), Follows(L, K)
  PROVE  CachesEarned(K)'
<1>1. ASSUME NEW n \in Nodes PROVE Earned(n, K.machines[n])'
  <2>1. CASE K.machines[n] = L.machines[n]
    <3>1. L.machines[n] \in Machines /\ Earned(n, L.machines[n]) BY DEF PassTyped, CachesEarned
    <3>2. EarnedThen(n, K.machines[n]) BY <2>1, <3>1, EarnedKept
    <3>3. QED BY <3>2 DEF Earned, EarnedThen, RaisedBy
  <2>2. CASE K.machines[n] = machine'[n]
    <3>1. PICK m : m = machine'[n] OBVIOUS
    <3>2. EarnedThen(n, m) BY <3>1 DEF SharedInv, Earned, EarnedThen, RaisedBy
    <3>3. QED BY <2>2, <3>1, <3>2 DEF Earned, EarnedThen, RaisedBy
  <2>3. QED BY <2>1, <2>2 DEF Follows
<1>2. \A r \in K.requests : request'[r] # "unraised"
  <2>1. \A r \in L.requests : r \in Requests /\ request[r] # "unraised" BY DEF PassTyped, CachesEarned
  <2>2. QED BY <2>1 DEF Follows, Ahead
<1>3. QED BY <1>1, <1>2 DEF Follows, CachesEarned

LEMMA StepTyped ==
  ASSUME NEW L, NEW K, TypeOK, SharedInv, PassTyped(L), CachesEarned(L), PassEarned(L), Step(L, K),
         node' = node, K.nodes = L.nodes
  PROVE  PassTyped(K)
<1>1. /\ K.view \in [Nodes -> Machines] /\ K.fresh \in [Nodes -> BOOLEAN]
      /\ K.machines \in [Nodes -> Machines] /\ K.current \in [Nodes -> BOOLEAN]
      /\ K.requests \subseteq Requests
  BY StepCopies, StepFollows DEF Follows
<1>2. L.requests \subseteq Requests BY DEF PassTyped
<1>3. CASE Begins(L, K) BY <1>1, <1>2, <1>3 DEF Begins, PassTyped, PCs
<1>4. CASE TakesNext(L, K) BY <1>1, <1>4 DEF TakesNext, PassTyped, PCs
<1>5. CASE HandlesSignal(L, K)
  <2>1. L.pc = "handle" /\ Want[L.sig] \in Decisions /\ L.sig \in Requests /\ Key(L.sig) \in Keys
    BY <1>5, InHand DEF HandlesSignal
  <2>2. CallBy(L) \in Observations /\ NoCall \in Observations
    BY <2>1 DEF CallBy, NoCall, Observations, Decisions
  <2>3. K.observed \in [Keys -> Observations]
    BY <1>5, <2>1, <2>2 DEF HandlesSignal, Observes, PassTyped
  <2>4. QED BY <1>1, <1>5, <2>1, <2>3 DEF HandlesSignal, SameSignals, PassTyped, PCs
<1>6. CASE AnswersSignal(L, K) BY <1>1, <1>6 DEF AnswersSignal, SameSignals, PassTyped, PCs
<1>7. CASE ReleasesSignal(L, K) BY <1>1, <1>7 DEF ReleasesSignal, SameSignals, PassTyped, PCs
<1>8. CASE RereadsCopy(L, K) BY <1>1, <1>8 DEF RereadsCopy, SameSignals, PassTyped, PCs
<1>9. CASE ChoosesReleases(L, K) BY <1>1, <1>9 DEF ChoosesReleases, SameSignals, PassTyped, PCs
<1>10. CASE ReleasesLeft(L, K) BY <1>1, <1>10 DEF ReleasesLeft, SameSignals, PassTyped, PCs
<1>11. CASE Ends(L, K) BY <1>1, <1>11 DEF Ends, PassTyped, PCs, NoCall, Observations
<1>12. CASE Rests(L, K) BY <1>12 DEF Rests
<1>13. QED BY <1>3, <1>4, <1>5, <1>6, <1>7, <1>8, <1>9, <1>10, <1>11, <1>12 DEF Step

\* A finished restart that answers the request in hand is a boot after the
\* request was raised.
LEMMA CompletedForReal ==
  ASSUME NEW L, TypeOK, PassTyped(L), PassEarned(L), L.pc = "handle", Completes(L)
  PROVE  /\ raisedAt[L.sig] < node[NodeOf[L.sig]].boot /\ Releasable(CopyInHand(L))
         /\ RestartAnswers(CopyInHand(L), L.sig)
         /\ CallBy(L).call = "Restart"
<1> DEFINE n == NodeOf[L.sig]
           c == CopyInHand(L)
           b == NodeInHand(L).boot
<1>1. L.sig \in Requests /\ L.sig \in L.asking /\ n \in Nodes /\ c \in Machines /\ b \in Nat
      /\ BootRead(L, n) = b
  BY InHand
<1>2. Earned(n, c) /\ b <= node[n].boot /\ RaisedBy(L.sig, b) BY <1>1 DEF PassEarned, CopyInHand
<1>3. c.marked /\ c.action = "Restart" /\ b # c.boot /\ c.request \in {NoRequest, L.sig} /\ c.exists
  BY DEF Completes, RestartCompleted, RestartAnswers, MarkedAction
<1>4. c.request = L.sig BY <1>2, <1>3, NoRequestAssumption DEF Earned
<1>5. raisedAt[L.sig] <= c.boot /\ c.boot <= node[n].boot BY <1>2, <1>3, <1>4 DEF Earned, RaisedBy
<1>6. raisedAt[L.sig] <= b BY <1>2 DEF RaisedBy
<1>7. c.boot \in Nat /\ node[n].boot \in Nat /\ raisedAt[L.sig] \in Nat
  BY <1>1 DEF Machines, TypeOK, ClustersTypeOK, NodeRecords
<1> HIDE DEF n, c, b
<1>8. raisedAt[L.sig] < node[n].boot BY <1>1, <1>2, <1>3, <1>5, <1>6, <1>7
<1>9. QED BY <1>3, <1>8 DEF Completes, Releasable, RestartCompleted, CallBy, n, c, b

LEMMA StepEarned ==
  ASSUME NEW L, NEW K, TypeOK, SharedInv, PassTyped(L), CachesEarned(L), PassEarned(L), Step(L, K),
         node' = node
  PROVE  PassEarned(K)'
<1>1. node' \in [Nodes -> NodeRecords] /\ Ahead BY StepAhead
<1>2. ASSUME NEW n \in Nodes PROVE EarnedThen(n, K.view[n])
  <2>1. EarnedThen(n, machine'[n]) BY <1>1, StepMachines, EarnedKept
  <2>2. L.view[n] \in Machines /\ Earned(n, L.view[n]) /\ L.machines[n] \in Machines
        /\ Earned(n, L.machines[n])
    BY DEF PassTyped, PassEarned, CachesEarned
  <2>3. EarnedThen(n, L.view[n]) /\ EarnedThen(n, L.machines[n]) BY <1>1, <2>2, EarnedKept
  <2>4. EarnedThen(n, Unread) BY <1>1, UnreadEarned
  <2>5. QED BY <2>1, <2>3, <2>4, StepCopies
<1>3. \A n \in Nodes : Earned(n, K.view[n])' /\ (K.fresh[n] => K.view[n] = machine'[n])
  BY <1>2, StepCopies DEF Earned, EarnedThen, RaisedBy
<1>4. K.pc # "idle" =>
        /\ \A n \in Nodes : 1 <= BootRead(K, n) /\ BootRead(K, n) <= node[n].boot
        /\ \A s \in K.todo \cup K.asking : s \in Requests /\ RaisedBy(s, BootRead(K, NodeOf[s]))
  <2>1. CASE Begins(L, K)
    <3>1. K.read.nodes = node /\ K.todo = L.requests /\ K.asking = {}
      BY <2>1 DEF Begins, CachesEarned, PassTyped
    <3>2. \A n \in Nodes : BootRead(K, n) = node[n].boot /\ node[n].boot \in Nat
      BY <3>1 DEF BootRead, TypeOK, ClustersTypeOK, NodeRecords
    <3>3. \A s \in L.requests : s \in Requests /\ NodeOf[s] \in Nodes
      BY ConstantsAssumption DEF PassTyped, Signals
    <3>4. \A s \in L.requests : RaisedBy(s, node[NodeOf[s]].boot)
      BY <3>3 DEF RaisedBy, SharedInv, CachesEarned
    <3>5. QED BY <3>1, <3>2, <3>3, <3>4 DEF SharedInv
  <2>2. CASE K.pc # "idle" /\ L.pc # "idle" /\ K.read = L.read
             /\ K.todo \cup K.asking \subseteq L.todo \cup L.asking
    BY <2>2 DEF PassEarned, PassTyped, BootRead
  <2>3. K.pc # "idle" /\ ~Begins(L, K) =>
          L.pc # "idle" /\ K.read = L.read /\ K.todo \cup K.asking \subseteq L.todo \cup L.asking
    BY DEF Step, TakesNext, HandlesSignal, AnswersSignal, ReleasesSignal, RereadsCopy, ChoosesReleases,
           ReleasesLeft, Ends, Rests, SameSignals
  <2>4. QED BY <2>1, <2>2, <2>3
<1>5. \A s \in K.todo \cup K.asking : K.pc # "idle" => RaisedBy(s, BootRead(K, NodeOf[s]))'
  BY <1>1, <1>4 DEF RaisedBy, Ahead, BootRead
<1>6. K.pc = "answer" /\ K.ans = "True" => raisedAt'[K.sig] < node'[NodeOf[K.sig]].boot
  <2>1. ASSUME K.pc = "answer", K.ans = "True", HandlesSignal(L, K)
        PROVE  raisedAt[L.sig] < node[NodeOf[L.sig]].boot /\ K.sig = L.sig
    <3>1. L.pc = "handle" /\ K.sig = L.sig BY <2>1 DEF HandlesSignal, SameSignals
    <3>2. Completes(L) BY <2>1 DEF HandlesSignal
    <3>3. QED BY <3>1, <3>2, CompletedForReal
  <2>2. ASSUME K.pc = "answer", K.ans = "True", Rests(L, K)
        PROVE  raisedAt[L.sig] < node[NodeOf[L.sig]].boot /\ K.sig = L.sig
    BY <2>2 DEF Rests, PassEarned
  <2>3. K.pc = "answer" => HandlesSignal(L, K) \/ Rests(L, K)
    BY DEF Step, Begins, TakesNext, AnswersSignal, ReleasesSignal, RereadsCopy, ChoosesReleases,
           ReleasesLeft, Ends
  <2>4. QED BY <2>1, <2>2, <2>3, StepRequests
<1>7. QED BY <1>3, <1>4, <1>5, <1>6 DEF PassEarned, BootRead

LEMMA StepReleases ==
  ASSUME NEW L, NEW K, TypeOK, SharedInv, PassTyped(L), PassEarned(L), PassReleases(L), Step(L, K)
  PROVE  PassReleases(K)'
<1>1. CASE HandlesSignal(L, K)
  <2>1. L.pc = "handle" /\ K.sig = L.sig /\ Key(L.sig) \in Keys /\ K.pc \in {"signals", "answer"}
    BY <1>1, InHand DEF HandlesSignal, SameSignals
  <2>2. CASE K.pc = "answer" /\ K.ans = "True"
    <3>1. Completes(L) /\ K.view = L.view /\ Observes(L, K, CallBy(L))
      BY <1>1, <2>2 DEF HandlesSignal, SameCopies
    <3>2. Releasable(CopyInHand(K)) /\ RestartAnswers(CopyInHand(K), K.sig)
      BY <2>1, <3>1, CompletedForReal DEF CopyInHand
    <3>3. K.observed[Key(K.sig)].call = "Restart"
      BY <2>1, <3>1, CompletedForReal DEF Observes, PassTyped
    <3>4. QED BY <2>2, <3>2, <3>3 DEF PassReleases
  <2>3. CASE ~(K.pc = "answer" /\ K.ans = "True") BY <2>1, <2>3 DEF PassReleases
  <2>4. QED BY <2>2, <2>3
<1>2. CASE AnswersSignal(L, K)
  <2>1. /\ L.pc = "answer" /\ K.sig = L.sig /\ L.sig \in Requests /\ K.view = L.view
        /\ K.observed = L.observed
    BY <1>2, InHand DEF AnswersSignal, SameSignals, SameCopies
  <2>2. CASE K.pc = "releaseAnswered"
    <3>1. L.ans = "True" /\ StoresRequest(L, K, L.sig, "True") /\ K.answered = RestartMarkOf(CopyInHand(L))
      BY <1>2, <2>2 DEF AnswersSignal
    <3>2. request'[K.sig] = "True" BY <2>1, <3>1 DEF StoresRequest, TypeOK, ClustersTypeOK
    <3>3. Releasable(CopyInHand(L)) /\ RestartAnswers(CopyInHand(L), L.sig)
          /\ L.observed[Key(L.sig)].call = "Restart"
      BY <2>1, <3>1 DEF PassReleases
    <3>4. K.answered.action = "Restart" /\ K.answered.request \in {NoRequest, K.sig}
      BY <2>1, <3>1, <3>3 DEF Releasable, RestartAnswers, RestartMarkOf
    <3>5. RestartMarkOf(CopyInHand(K)) = K.answered BY <2>1, <3>1 DEF CopyInHand
    <3>6. QED BY <2>1, <2>2, <3>2, <3>3, <3>4, <3>5 DEF PassReleases
  <2>3. CASE K.pc = "signals" BY <2>3 DEF PassReleases
  <2>4. QED BY <1>2, <2>2, <2>3 DEF AnswersSignal
<1>3. CASE ReleasesSignal(L, K)
  <2>1. CASE K.pc = "signals" BY <2>1 DEF PassReleases
  <2>2. CASE K.pc = "reread"
    <3>1. L.pc = "releaseAnswered" /\ K.sig = L.sig /\ K.observed = L.observed /\ K.answered = L.answered
          /\ request' = request
      BY <1>3, <2>2 DEF ReleasesSignal, SameSignals, SameRequests
    <3>2. QED BY <2>2, <3>1 DEF PassReleases
  <2>3. QED BY <1>3, <2>1, <2>2 DEF ReleasesSignal
<1>4. CASE RereadsCopy(L, K)
  <2>1. CASE K.pc = "signals" BY <2>1 DEF PassReleases
  <2>2. CASE K.pc = "releaseAnswered"
    <3>1. L.pc = "reread" /\ K.sig = L.sig /\ K.observed = L.observed /\ K.answered = L.answered
          /\ request' = request /\ RestartMarkOf(L.machines[NodeOf[L.sig]]) = L.answered
          /\ K.view = [L.view EXCEPT ![NodeOf[L.sig]] = L.machines[NodeOf[L.sig]]]
      BY <1>4, <2>2 DEF RereadsCopy, SameSignals, SameRequests
    <3>2. NodeOf[L.sig] \in Nodes BY <3>1, InHand
    <3>3. CopyInHand(K) = L.machines[NodeOf[L.sig]] BY <3>1, <3>2 DEF CopyInHand, PassTyped
    <3>4. QED BY <2>2, <3>1, <3>3 DEF PassReleases
  <2>3. QED BY <1>4, <2>1, <2>2 DEF RereadsCopy
<1>5. CASE ChoosesReleases(L, K)
  <2>1. /\ K.pc = "release" /\ K.todo = {} /\ K.view = L.view /\ K.unreadable = L.unreadable
        /\ K.read = L.read /\ K.observed = L.observed /\ K.asking = L.asking
        /\ \A n \in K.left : ~L.unreadable /\ Releasable(L.view[n]) /\ ~HeldBy(L, n)
    BY <1>5 DEF ChoosesReleases, SameSignals, SameCopies
  <2>2. \A n : HeldBy(K, n) <=> HeldBy(L, n) BY <2>1 DEF HeldBy, LeftoverIn
  <2>3. QED BY <2>1, <2>2 DEF PassReleases
<1>6. CASE ReleasesLeft(L, K)
  <2>1. PICK n \in L.left : K.left = L.left \ {n} /\ ReleasesOne(L, K, n) BY <1>6 DEF ReleasesLeft
  <2>2. /\ L.pc = "release" /\ K.pc = "release" /\ K.todo = L.todo /\ K.unreadable = L.unreadable
        /\ K.read = L.read /\ K.observed = L.observed /\ K.asking = L.asking
    BY <1>6 DEF ReleasesLeft, SameSignals
  <2>3. \A k \in Nodes \ {n} : K.view[k] = L.view[k]
    BY <2>1 DEF ReleasesOne, SameCopies, Writes, Loses, PassTyped
  <2>4. \A k \in Nodes \ {n} : HeldBy(K, k) <=> HeldBy(L, k) BY <2>2, <2>3 DEF HeldBy, LeftoverIn
  <2>5. \A k \in K.left : k \in L.left /\ k \in Nodes \ {n} BY <2>1 DEF PassTyped
  <2>6. QED BY <2>2, <2>3, <2>4, <2>5 DEF PassReleases
<1>7. CASE Begins(L, K) \/ TakesNext(L, K) \/ Ends(L, K)
  <2>1. K.pc \in {"signals", "handle", "idle"} BY <1>7 DEF Begins, TakesNext, Ends
  <2>2. QED BY <2>1 DEF PassReleases
<1>8. CASE Rests(L, K) BY <1>8 DEF Rests, PassReleases, SameRequests
<1>9. QED BY <1>1, <1>2, <1>3, <1>4, <1>5, <1>6, <1>7, <1>8 DEF Step

\* A pass that does not move loses at most its resource versions, while its
\* informers go on.
Unmoved(L, K) ==
  /\ K.pc = L.pc /\ K.read = L.read /\ K.view = L.view /\ SameSignals(L, K) /\ K.ans = L.ans
  /\ K.observed = L.observed /\ K.answered = L.answered /\ K.left = L.left
  /\ K.fresh \in [Nodes -> BOOLEAN] /\ Follows(L, K)
  /\ \A n \in Nodes : K.fresh[n] => L.fresh[n] /\ machine'[n] = machine[n]

LEMMA UnmovedCredit ==
  ASSUME NEW L, NEW K, TypeOK, node' \in [Nodes -> NodeRecords], Ahead, SharedInv', CreditOf(L), Unmoved(L, K)
  PROVE  PassTyped(K) /\ CachesEarned(K)' /\ PassEarned(K)' /\ PassReleases(K)'
<1> PassTyped(L) /\ CachesEarned(L) /\ PassEarned(L) /\ PassReleases(L) BY DEF CreditOf
<1>1. PassTyped(K) /\ CachesEarned(K)'
  <2>1. PassTyped(K) BY DEF PassTyped, Unmoved, Follows, SameSignals
  <2>2. QED BY <2>1, CachesKept DEF Unmoved
<1>2. PassEarned(K)'
  <2>1. \A n \in Nodes : Earned(n, K.view[n])' /\ (K.fresh[n] => K.view[n] = machine'[n])
    <3>1. \A n \in Nodes : L.view[n] \in Machines /\ Earned(n, L.view[n]) BY DEF PassTyped, PassEarned
    <3>2. \A n \in Nodes : EarnedThen(n, K.view[n]) BY <3>1, EarnedKept DEF Unmoved
    <3>3. \A n \in Nodes : Earned(n, K.view[n])' BY <3>2 DEF Earned, EarnedThen, RaisedBy
    <3>4. QED BY <3>3 DEF Unmoved, PassEarned
  <2>2. \A n \in Nodes : L.pc # "idle" => BootRead(L, n) \in Nat
    BY DEF BootRead, PassTyped, Reads, NodeRecords
  <2>3. \A n \in Nodes : node[n].boot \in Nat /\ node'[n].boot \in Nat /\ node[n].boot <= node'[n].boot
    BY DEF TypeOK, ClustersTypeOK, NodeRecords, Ahead
  <2>4. K.pc # "idle" => \A n \in Nodes : 1 <= BootRead(K, n) /\ BootRead(K, n) <= node'[n].boot
    <3>1. ASSUME NEW n \in Nodes, K.pc # "idle"
          PROVE  1 <= BootRead(L, n) /\ BootRead(L, n) <= node[n].boot
      BY <3>1 DEF PassEarned, Unmoved
    <3>2. ASSUME NEW n \in Nodes, K.pc # "idle" PROVE BootRead(L, n) \in Nat /\ BootRead(L, n) <= node'[n].boot
      BY <2>2, <2>3, <3>1, <3>2 DEF Unmoved
    <3>3. QED BY <3>1, <3>2 DEF Unmoved, BootRead
  <2>5. ASSUME NEW s \in K.todo \cup K.asking, K.pc # "idle" PROVE RaisedBy(s, BootRead(K, NodeOf[s]))'
    <3>1. s \in Requests /\ RaisedBy(s, BootRead(L, NodeOf[s]))
      BY <2>5 DEF Unmoved, SameSignals, PassTyped, PassEarned
    <3>2. QED BY <3>1 DEF RaisedBy, Ahead, Unmoved, BootRead
  <2>6. ASSUME K.pc = "answer", K.ans = "True" PROVE raisedAt'[K.sig] < node'[NodeOf[K.sig]].boot
    <3>1. L.pc = "answer" /\ L.ans = "True" /\ K.sig = L.sig BY <2>6 DEF Unmoved, SameSignals
    <3>2. L.sig \in Requests /\ L.sig \in L.asking /\ NodeOf[L.sig] \in Nodes BY <3>1, InHand
    <3>3. raisedAt[L.sig] < node[NodeOf[L.sig]].boot /\ request[L.sig] # "unraised"
      BY <3>1, <3>2 DEF PassEarned, RaisedBy
    <3>4. raisedAt'[L.sig] = raisedAt[L.sig] /\ raisedAt[L.sig] \in Nat
      BY <3>2, <3>3 DEF Ahead, TypeOK, ClustersTypeOK
    <3>5. QED BY <2>3, <3>1, <3>2, <3>3, <3>4
  <2>7. QED BY <2>1, <2>4, <2>5, <2>6 DEF PassEarned, BootRead
<1>3. PassReleases(K)'
  <2>1. /\ K.pc = L.pc /\ K.ans = L.ans /\ K.sig = L.sig /\ K.observed = L.observed
        /\ K.answered = L.answered /\ K.todo = L.todo /\ K.left = L.left /\ K.unreadable = L.unreadable
        /\ K.view = L.view /\ K.asking = L.asking /\ K.read = L.read
    BY DEF Unmoved, SameSignals
  <2>2. CopyInHand(K) = CopyInHand(L) /\ \A n : HeldBy(K, n) <=> HeldBy(L, n)
    BY <2>1 DEF CopyInHand, HeldBy, LeftoverIn
  <2>3. L.pc \in {"releaseAnswered", "reread"} => request'[L.sig] = "True"
    BY InHand DEF PassReleases, Ahead
  <2>4. QED BY <2>1, <2>2, <2>3 DEF PassReleases
<1>4. QED BY <1>1, <1>2, <1>3

-----------------------------------------------------------------------------
(* CreditOverlap: every step *)

LEMMA StepCredit ==
  ASSUME NEW L, NEW K, TypeOK, SharedInv, CreditOf(L), Step(L, K), node' = node, K.nodes = L.nodes
  PROVE  /\ SharedInv' /\ Ahead /\ node' \in [Nodes -> NodeRecords]
         /\ PassTyped(K) /\ CachesEarned(K)' /\ PassEarned(K)' /\ PassReleases(K)'
<1>1. PassTyped(L) /\ CachesEarned(L) /\ PassEarned(L) /\ PassReleases(L) BY DEF CreditOf
<1>2. SharedInv' /\ Ahead /\ node' \in [Nodes -> NodeRecords] BY <1>1, StepShared, StepAhead
<1>3. PassTyped(K) /\ PassEarned(K)' /\ PassReleases(K)' BY <1>1, StepTyped, StepEarned, StepReleases
<1>4. CachesEarned(K)' BY <1>1, <1>2, StepFollows, CachesKept
<1>5. QED BY <1>2, <1>3, <1>4

LEMMA NewLeaves ==
  ASSUME Pass
  PROVE  UNCHANGED <<node, ncache, coverage, cluster, fallback, mode, dry>>
BY DEF Pass, Begin, PassOver, Take, PassBy, Unreadable, Handle, Reported, RestartOver, Escalate, Skipped,
       ReportedUnavailable, HeldBack, Mark, Conclude, Answer, ReleaseAnswered, Reread, StartRelease,
       ReleaseRestart, Finish, EndPass, hubVars, nodeVars

LEMMA OldLeaves ==
  ASSUME Old!Pass
  PROVE  UNCHANGED <<node, oncache, coverage, cluster, fallback, mode, dry, crashes>>
BY DEF Old!Pass, Old!Begin, Old!PassOver, Old!Take, Old!PassBy, Old!Unreadable, Old!Handle, Old!Reported,
       Old!RestartOver, Old!Escalate, Old!Skipped, Old!ReportedUnavailable, Old!HeldBack, Old!Mark,
       Old!Conclude, Old!Answer, Old!ReleaseAnswered, Old!Reread, Old!StartRelease, Old!ReleaseRestart,
       Old!Finish, Old!EndPass, Old!hubVars, Old!nodeVars

\* The leader whose step it is not.
LEMMA TheirsOvertaken ==
  ASSUME OnlyRequests, machine' \in [Nodes -> Machines], CreditOf(Theirs), Old!Overtaken, UNCHANGED oldVars
  PROVE  Unmoved(Theirs, Theirs')
<1>1. /\ ovfresh \in [Nodes -> BOOLEAN] /\ omfresh \in [Nodes -> BOOLEAN]
      /\ omcache \in [Nodes -> Machines] /\ orcache \subseteq Requests
  BY DEF CreditOf, PassTyped, Theirs
<1>2. ovfresh' = [n \in Nodes |-> ovfresh[n] /\ machine'[n] = machine[n]] BY DEF Old!Overtaken
<1>3. Follows(Theirs, Theirs')
  <2>1. oncache' = node' BY DEF Old!Overtaken, OnlyRequests
  <2>2. orcache' \subseteq Requests /\ \A r \in orcache' : r \in orcache \/ request'[r] = "pending"
    BY <1>1 DEF Old!Overtaken
  <2>3. CASE "machines" \in Lag
    <3>1. omcache' = omcache /\ omfresh' = [n \in Nodes |-> omfresh[n] /\ machine'[n] = machine[n]]
      BY <2>3 DEF Old!Overtaken
    <3>2. \A n \in Nodes : omfresh[n] => omcache[n] = machine[n] BY DEF CreditOf, CachesEarned, Theirs
    <3>3. omfresh' \in [Nodes -> BOOLEAN] BY <1>1, <3>1
    <3>4. QED BY <1>1, <2>1, <2>2, <2>3, <3>1, <3>2, <3>3 DEF Follows, Theirs
  <2>4. CASE "machines" \notin Lag
    <3>1. omcache' = machine' /\ omfresh' = omfresh BY <2>4 DEF Old!Overtaken
    <3>2. QED BY <1>1, <2>1, <2>2, <2>4, <3>1 DEF Follows, Theirs
  <2>5. QED BY <2>3, <2>4
<1>4. ovfresh' \in [Nodes -> BOOLEAN] BY <1>1, <1>2
<1>5. QED BY <1>2, <1>3, <1>4 DEF Unmoved, SameSignals, Theirs, oldVars

LEMMA MineOvertaken ==
  ASSUME OnlyRequests, machine' \in [Nodes -> Machines], CreditOf(Mine), Overtaken, UNCHANGED newVars
  PROVE  Unmoved(Mine, Mine')
<1>1. /\ vfresh \in [Nodes -> BOOLEAN] /\ mfresh \in [Nodes -> BOOLEAN]
      /\ mcache \in [Nodes -> Machines] /\ rcache \subseteq Requests
  BY DEF CreditOf, PassTyped, Mine
<1>2. vfresh' = [n \in Nodes |-> vfresh[n] /\ machine'[n] = machine[n]] BY DEF Overtaken
<1>3. Follows(Mine, Mine')
  <2>1. ncache' = node' BY DEF Overtaken, OnlyRequests
  <2>2. rcache' \subseteq Requests /\ \A r \in rcache' : r \in rcache \/ request'[r] = "pending"
    BY <1>1 DEF Overtaken
  <2>3. CASE "machines" \in Lag
    <3>1. mcache' = mcache /\ mfresh' = [n \in Nodes |-> mfresh[n] /\ machine'[n] = machine[n]]
      BY <2>3 DEF Overtaken
    <3>2. \A n \in Nodes : mfresh[n] => mcache[n] = machine[n] BY DEF CreditOf, CachesEarned, Mine
    <3>3. mfresh' \in [Nodes -> BOOLEAN] BY <1>1, <3>1
    <3>4. QED BY <1>1, <2>1, <2>2, <2>3, <3>1, <3>2, <3>3 DEF Follows, Mine
  <2>4. CASE "machines" \notin Lag
    <3>1. mcache' = machine' /\ mfresh' = mfresh BY <2>4 DEF Overtaken
    <3>2. QED BY <1>1, <2>1, <2>2, <2>4, <3>1 DEF Follows, Mine
  <2>5. QED BY <2>3, <2>4
<1>4. vfresh' \in [Nodes -> BOOLEAN] BY <1>1, <1>2
<1>5. QED BY <1>2, <1>3, <1>4 DEF Unmoved, SameSignals, Mine, newVars, passVars, tryVars

\* What holds of the pass that a leader goes on to holds of it then.
LEMMA MineThen ==
  ASSUME NEW K, K = Mine', PassTyped(K), CachesEarned(K)', PassEarned(K)', PassReleases(K)'
  PROVE  CreditOf(Mine)'
<1>1. PassTyped(Mine)' BY DEF PassTyped
<1>2. PassEarned(Mine)' BY DEF PassEarned, BootRead
<1>3. PassReleases(Mine)' BY DEF PassReleases, CopyInHand, HeldBy, LeftoverIn
<1>4. CachesEarned(Mine)' BY DEF CachesEarned
<1>5. QED BY <1>1, <1>2, <1>3, <1>4 DEF CreditOf

LEMMA TheirsThen ==
  ASSUME NEW K, K = Theirs', PassTyped(K), CachesEarned(K)', PassEarned(K)', PassReleases(K)'
  PROVE  CreditOf(Theirs)'
<1>1. PassTyped(Theirs)' BY DEF PassTyped
<1>2. PassEarned(Theirs)' BY DEF PassEarned, BootRead
<1>3. PassReleases(Theirs)' BY DEF PassReleases, CopyInHand, HeldBy, LeftoverIn
<1>4. CachesEarned(Theirs)' BY DEF CachesEarned
<1>5. QED BY <1>1, <1>2, <1>3, <1>4 DEF CreditOf

LEMMA MineStays ==
  ASSUME TypeOK, node' \in [Nodes -> NodeRecords], Ahead, SharedInv', CreditOf(Mine), Unmoved(Mine, Mine')
  PROVE  CreditOf(Mine)'
<1>1. PICK L : L = Mine OBVIOUS
<1>2. PICK K : K = Mine' OBVIOUS
<1>3. CreditOf(L) /\ Unmoved(L, K) BY <1>1, <1>2
<1>4. PassTyped(K) /\ CachesEarned(K)' /\ PassEarned(K)' /\ PassReleases(K)' BY <1>3, UnmovedCredit
<1>5. QED BY <1>2, <1>4, MineThen

LEMMA TheirsStay ==
  ASSUME TypeOK, node' \in [Nodes -> NodeRecords], Ahead, SharedInv', CreditOf(Theirs),
         Unmoved(Theirs, Theirs')
  PROVE  CreditOf(Theirs)'
<1>1. PICK L : L = Theirs OBVIOUS
<1>2. PICK K : K = Theirs' OBVIOUS
<1>3. CreditOf(L) /\ Unmoved(L, K) BY <1>1, <1>2
<1>4. PassTyped(K) /\ CachesEarned(K)' /\ PassEarned(K)' /\ PassReleases(K)' BY <1>3, UnmovedCredit
<1>5. QED BY <1>2, <1>4, TheirsThen

LEMMA NewPassCredit ==
  ASSUME OnlyRequests, CreditOverlap, NewPass
  PROVE  CreditOverlap' /\ Step(Mine, Mine') /\ Unmoved(Theirs, Theirs')
<1>1. /\ TypeOK /\ SharedInv /\ CreditOf(Mine) /\ CreditOf(Theirs) /\ Pass /\ TypeOK'
  BY TypeKept DEF CreditOverlap, NewPass, Next
<1>2. Step(Mine, Mine') BY <1>1, NewSteps DEF CreditOf
<1>3. node' = node /\ Mine'.nodes = Mine.nodes BY <1>1, NewLeaves DEF Mine
<1>4. PICK L : L = Mine OBVIOUS
<1>5. PICK K : K = Mine' OBVIOUS
<1>6. CreditOf(L) /\ Step(L, K) /\ K.nodes = L.nodes BY <1>1, <1>2, <1>3, <1>4, <1>5
<1>7. /\ SharedInv' /\ Ahead /\ node' \in [Nodes -> NodeRecords]
      /\ PassTyped(K) /\ CachesEarned(K)' /\ PassEarned(K)' /\ PassReleases(K)'
  BY <1>1, <1>3, <1>6, StepCredit
<1>8. CreditOf(Mine)' BY <1>5, <1>7, MineThen
<1>9. Unmoved(Theirs, Theirs')
  <2>1. machine' \in [Nodes -> Machines] BY <1>1 DEF TypeOK, MachinesTypeOK
  <2>2. QED BY <1>1, <2>1, TheirsOvertaken DEF NewPass
<1>10. CreditOf(Theirs)' BY <1>1, <1>7, <1>9, TheirsStay
<1>11. QED BY <1>1, <1>2, <1>7, <1>8, <1>9, <1>10 DEF CreditOverlap

\* The old leader's part in its own step.
LEMMA TheirsMove ==
  ASSUME TypeOK, SharedInv, CreditOf(Theirs), Step(Theirs, Theirs'), node' = node, oncache' = oncache
  PROVE  /\ SharedInv' /\ Ahead /\ node' \in [Nodes -> NodeRecords] /\ CreditOf(Theirs)'
         /\ machine' \in [Nodes -> Machines] /\ request' \in [Requests -> RequestStates]
         /\ raisedAt' = raisedAt
<1>1. PICK L : L = Theirs OBVIOUS
<1>2. PICK K : K = Theirs' OBVIOUS
<1>3. CreditOf(L) /\ Step(L, K) /\ K.nodes = L.nodes BY <1>1, <1>2 DEF Theirs
<1>4. /\ SharedInv' /\ Ahead /\ node' \in [Nodes -> NodeRecords]
      /\ PassTyped(K) /\ CachesEarned(K)' /\ PassEarned(K)' /\ PassReleases(K)'
  BY <1>3, StepCredit
<1>5. CreditOf(Theirs)' BY <1>2, <1>4, TheirsThen
<1>6. PassTyped(L) /\ PassEarned(L) BY <1>3 DEF CreditOf
<1>7. machine' \in [Nodes -> Machines] /\ request' \in [Requests -> RequestStates] /\ raisedAt' = raisedAt
  BY <1>3, <1>6, StepMachines, StepRequests
<1>8. QED BY <1>4, <1>5, <1>7

LEMMA OldPassCredit ==
  ASSUME OnlyRequests, CreditOverlap, OldPass
  PROVE  CreditOverlap' /\ Step(Theirs, Theirs') /\ Unmoved(Mine, Mine')
<1>1. TypeOK /\ SharedInv /\ CreditOf(Mine) /\ CreditOf(Theirs) BY DEF CreditOverlap
<1>2. Step(Theirs, Theirs') BY <1>1, OldSteps DEF OldPass, CreditOf
<1>3. UNCHANGED <<node, oncache, coverage, cluster, fallback, mode, dry, crashes, newVars>>
  BY OldLeaves DEF OldPass
<1>4. /\ SharedInv' /\ Ahead /\ node' \in [Nodes -> NodeRecords] /\ CreditOf(Theirs)'
      /\ machine' \in [Nodes -> Machines] /\ request' \in [Requests -> RequestStates]
      /\ raisedAt' = raisedAt
  BY <1>1, <1>2, <1>3, TheirsMove
<1>5. Unmoved(Mine, Mine') BY <1>1, <1>3, <1>4, MineOvertaken DEF OldPass
<1>6. CreditOf(Mine)' BY <1>1, <1>4, <1>5, MineStays
<1>7. TypeOK'
  <2>1. MachinesTypeOK' BY <1>4, <1>6 DEF MachinesTypeOK, CreditOf, PassTyped, Mine
  <2>2. PassTypeOK' BY <1>1, <1>3 DEF TypeOK, PassTypeOK, newVars, passVars, tryVars
  <2>3. ClustersTypeOK'
    <3>1. ncache' = node' /\ rcache' \subseteq Requests BY <1>6 DEF CreditOf, CachesEarned, PassTyped, Mine
    <3>2. QED BY <1>1, <1>3, <1>4, <3>1 DEF TypeOK, ClustersTypeOK
  <2>4. QED BY <2>1, <2>2, <2>3 DEF TypeOK
<1>8. QED BY <1>2, <1>4, <1>5, <1>6, <1>7 DEF CreditOverlap

\* Neither cluster changes, nor the new leader.
LEMMA QuietCredit ==
  ASSUME CreditOverlap, UNCHANGED vars
  PROVE  /\ TypeOK' /\ SharedInv' /\ Ahead /\ node' \in [Nodes -> NodeRecords] /\ CreditOf(Mine)'
         /\ Unmoved(Mine, Mine') /\ UNCHANGED <<machine, node, request, raisedAt>>
<1>1. TypeOK /\ SharedInv /\ CreditOf(Mine) BY DEF CreditOverlap
<1>2. UNCHANGED <<machine, node, request, raisedAt>> BY DEF vars, apiVars, nodeVars, reqVars
<1>3. TypeOK' BY <1>1, TypeKept
<1>4. SharedInv' BY <1>1, <1>2 DEF SharedInv, RestartedForReal, Earned, RaisedBy
<1>5. node' \in [Nodes -> NodeRecords] BY <1>3 DEF TypeOK, ClustersTypeOK
<1>6. Ahead
  <2>1. \A n \in Nodes : node[n].boot \in Nat BY <1>1 DEF TypeOK, ClustersTypeOK, NodeRecords
  <2>2. QED BY <1>2, <2>1 DEF Ahead
<1>7. Unmoved(Mine, Mine')
  <2>1. Mine' = Mine BY DEF Mine, vars, apiVars, nodeVars, reqVars, viewVars, passVars, tryVars
  <2>2. PICK L : L = Mine OBVIOUS
  <2>3. PICK K : K = Mine' OBVIOUS
  <2>4. K = L /\ CreditOf(L) BY <1>1, <2>1, <2>2, <2>3
  <2>5. Follows(L, K) BY <1>2, <2>4 DEF Follows, CreditOf, CachesEarned, PassTyped
  <2>6. Unmoved(L, K) BY <1>2, <2>4, <2>5 DEF Unmoved, SameSignals, CreditOf, PassTyped
  <2>7. QED BY <2>2, <2>3, <2>6
<1>8. CreditOf(Mine)' BY <1>1, <1>4, <1>5, <1>6, <1>7, MineStays
<1>9. QED BY <1>2, <1>3, <1>4, <1>5, <1>6, <1>7, <1>8

LEMMA OldEndsCredit ==
  ASSUME CreditOverlap, OldEnds
  PROVE  CreditOverlap' /\ Step(Theirs, Theirs') /\ Unmoved(Mine, Mine') /\ UNCHANGED machine
<1>1. UNCHANGED vars
  BY DEF OldEnds, Old!EndPass, Old!apiVars, Old!hubVars, Old!nodeVars, Old!reqVars, newCaches, newVars,
         vars, apiVars, hubVars, nodeVars, reqVars, viewVars
<1>2. Ends(Theirs, Theirs')
  BY OldReads DEF OldEnds, Old!EndPass, Ends, Theirs, Unwritten, SameRequests, Old!reqVars, Old!apiVars
<1>3. /\ TypeOK' /\ CreditOf(Mine)' /\ Unmoved(Mine, Mine') /\ UNCHANGED <<machine, node>>
  BY <1>1, QuietCredit
<1>4. oncache' = oncache BY DEF OldEnds, Old!EndPass, Old!nodeVars
<1>5. Step(Theirs, Theirs') BY <1>2 DEF Step
<1>6. SharedInv' /\ CreditOf(Theirs)' BY <1>3, <1>4, <1>5, TheirsMove DEF CreditOverlap
<1>7. QED BY <1>3, <1>5, <1>6 DEF CreditOverlap

\* The old leader's pass stays as it is.
LEMMA OldRestCredit ==
  ASSUME CreditOverlap, LeaseMoves \/ OldInformers \/ UNCHANGED allVars
  PROVE  /\ CreditOverlap' /\ Unmoved(Theirs, Theirs') /\ Unmoved(Mine, Mine')
         /\ UNCHANGED <<machine, request, raisedAt, opc, oleft, pc, left>>
<1>1. UNCHANGED <<vars, oldVars, ovfresh>> \/ (UNCHANGED vars /\ OldInformers)
  <2>1. CASE OldInformers
    <3>1. UNCHANGED vars
      BY <2>1 DEF OldInformers, Old!SyncMachine, Old!SyncNode, Old!GraceElapses, Old!SyncRequests,
         Old!EnvFrame, Old!apiVars, Old!hubVars, Old!nodeVars, Old!reqVars, newCaches, newVars,
         vars, apiVars, hubVars, nodeVars, reqVars, viewVars
    <3>2. QED BY <2>1, <3>1
  <2>2. QED BY <2>1 DEF LeaseMoves, allVars
<1>2. /\ TypeOK' /\ SharedInv' /\ Ahead /\ node' \in [Nodes -> NodeRecords] /\ CreditOf(Mine)'
      /\ Unmoved(Mine, Mine') /\ UNCHANGED <<machine, node, request, raisedAt>>
  BY <1>1, QuietCredit
<1>3. /\ omcache \in [Nodes -> Machines] /\ omfresh \in [Nodes -> BOOLEAN] /\ orcache \subseteq Requests
      /\ ovfresh \in [Nodes -> BOOLEAN] /\ oncache = node /\ machine \in [Nodes -> Machines]
      /\ \A n \in Nodes : omfresh[n] => omcache[n] = machine[n]
      /\ "machines" \notin Lag => omcache = machine
  BY DEF CreditOverlap, CreditOf, PassTyped, CachesEarned, Theirs, TypeOK, MachinesTypeOK
<1>4. UNCHANGED <<oldVars, ovfresh, oldCaches>> \/ OldInformers
  BY DEF LeaseMoves, allVars
<1>5. UNCHANGED <<opc, oread, oview, ovfresh, otodo, osig, oans, oobserved, oasking, ounreadable,
                  oanswered, oleft>>
  BY <1>4 DEF OldInformers, Old!SyncMachine, Old!SyncNode, Old!GraceElapses, Old!SyncRequests,
     Old!EnvFrame, Old!passVars, Old!tryVars, Old!viewVars, oldVars
<1>6. Follows(Theirs, Theirs')
  <2>1. ASSUME UNCHANGED oldCaches PROVE Follows(Theirs, Theirs')
    BY <1>2, <1>3, <2>1 DEF Follows, Theirs, oldCaches
  <2>2. ASSUME NEW n \in Nodes, Old!SyncMachine(n) PROVE Follows(Theirs, Theirs')
    <3>1. /\ omcache' = [omcache EXCEPT ![n] = machine[n]] /\ omfresh' = [omfresh EXCEPT ![n] = TRUE]
          /\ oncache' = oncache /\ orcache' = orcache
      BY <2>2 DEF Old!SyncMachine, Old!nodeVars, Old!reqVars
    <3>2. \A k \in Nodes : /\ omcache'[k] = IF k = n THEN machine[k] ELSE omcache[k]
                           /\ omfresh'[k] = IF k = n THEN TRUE ELSE omfresh[k]
      BY <1>3, <3>1
    <3>3. omcache' \in [Nodes -> Machines] /\ omfresh' \in [Nodes -> BOOLEAN] BY <1>3, <3>1
    <3>4. "machines" \notin Lag => omcache' = machine' BY <1>2, <1>3, <3>1
    <3>5. QED BY <1>2, <1>3, <3>1, <3>2, <3>3, <3>4 DEF Follows, Theirs
  <2>3. ASSUME NEW n \in Nodes, Old!SyncNode(n) PROVE FALSE BY <1>3, <2>3 DEF Old!SyncNode
  <2>4. ASSUME NEW n \in Nodes, Old!GraceElapses(n) PROVE UNCHANGED oldCaches
    BY <2>4 DEF Old!GraceElapses, Old!apiVars, Old!nodeVars, Old!reqVars, oldCaches
  <2>5. ASSUME Old!SyncRequests PROVE Follows(Theirs, Theirs')
    <3>1. orcache' = {r \in Requests : request[r] = "pending"} /\ UNCHANGED <<omcache, omfresh, oncache>>
      BY <2>5 DEF Old!SyncRequests, Old!apiVars, Old!nodeVars
    <3>2. QED BY <1>2, <1>3, <3>1 DEF Follows, Theirs
  <2>6. QED BY <1>4, <2>1, <2>2, <2>3, <2>4, <2>5 DEF OldInformers
<1>7. Unmoved(Theirs, Theirs') BY <1>2, <1>3, <1>5, <1>6 DEF Unmoved, SameSignals, Theirs
<1>8. CreditOf(Theirs)' BY <1>2, <1>7, TheirsStay DEF CreditOverlap
<1>9. UNCHANGED <<pc, left>> BY <1>1 DEF vars
<1>10. QED BY <1>2, <1>5, <1>7, <1>8, <1>9 DEF CreditOverlap

\* What everyone else does.
LEMMA OthersAhead ==
  ASSUME TypeOK, Environment
  PROVE  Ahead
<1>1. \A n \in Nodes : node[n].boot <= node'[n].boot BY EnvironmentSteps DEF NodesByOthers
<1>2. \A r \in Requests :
        /\ request[r] # "unraised" => request'[r] # "unraised" /\ raisedAt'[r] = raisedAt[r]
        /\ request[r] = "True" => request'[r] = "True"
  BY EnvironmentSteps DEF RequestsByOthers
<1>3. QED BY <1>1, <1>2 DEF Ahead

LEMMA OthersShared ==
  ASSUME OnlyRequests, TypeOK, TypeOK', SharedInv, Environment
  PROVE  SharedInv'
<1>1. Ahead BY OthersAhead
<1>2. \A n \in Nodes : node[n].boot \in Nat /\ node'[n].boot \in Nat /\ node[n].boot <= node'[n].boot
  BY <1>1 DEF TypeOK, ClustersTypeOK, NodeRecords, Ahead
<1>3. \A n \in Nodes : 1 <= node'[n].boot BY <1>2 DEF SharedInv
<1>4. \A r \in Requests : NodeOf[r] \in Nodes /\ raisedAt[r] \in Nat
  BY ConstantsAssumption DEF Signals, TypeOK, ClustersTypeOK
<1>5. \A r \in Requests : raisedAt'[r] = IF request[r] = "unraised" /\ request'[r] = "pending"
                                          THEN node[NodeOf[r]].boot ELSE raisedAt[r]
  BY EnvironmentSteps DEF RequestsByOthers
<1>6. ASSUME NEW r \in Requests, request'[r] # "unraised" PROVE raisedAt'[r] <= node'[NodeOf[r]].boot
  <2>1. CASE request[r] = "unraised"
    <3>1. raisedAt'[r] = node[NodeOf[r]].boot
      BY <1>5, <1>6, <2>1, EnvironmentSteps DEF RequestsByOthers
    <3>2. QED BY <1>2, <1>4, <3>1
  <2>2. CASE request[r] # "unraised"
    <3>1. raisedAt'[r] = raisedAt[r] /\ raisedAt[r] <= node[NodeOf[r]].boot
      BY <1>5, <2>2 DEF SharedInv
    <3>2. QED BY <1>2, <1>4, <3>1
  <2>3. QED BY <2>1, <2>2
<1>7. RestartedForReal'
  <2>1. ASSUME NEW r \in Requests, request'[r] = "True" PROVE raisedAt'[r] < node'[NodeOf[r]].boot
    <3>1. request[r] = "True" BY <2>1, EnvironmentSteps DEF RequestsByOthers
    <3>2. raisedAt'[r] = raisedAt[r] /\ raisedAt[r] < node[NodeOf[r]].boot
      BY <1>5, <3>1 DEF SharedInv, RestartedForReal
    <3>3. QED BY <1>2, <1>4, <3>2
  <2>2. QED BY <2>1 DEF RestartedForReal
<1>8. ASSUME NEW n \in Nodes PROVE EarnedThen(n, machine'[n])
  <2>1. machine[n] \in Machines /\ machine'[n] \in Machines /\ Earned(n, machine[n])
    BY DEF TypeOK, MachinesTypeOK, SharedInv
  <2>2. OthersWrite(n) BY EnvironmentSteps DEF MachinesByOthers
  <2>3. EarnedThen(n, machine[n]) BY <1>1, <2>1, EarnedKept DEF TypeOK, ClustersTypeOK
  <2>4. machine[n].marked => machine'[n].marked BY <2>2 DEF OthersWrite, OnlyRequests
  <2>5. QED BY <2>2, <2>3, <2>4 DEF OthersWrite, EarnedThen
<1>9. \A n \in Nodes : Earned(n, machine[n])' BY <1>8 DEF Earned, EarnedThen, RaisedBy
<1>10. QED BY <1>3, <1>6, <1>7, <1>9 DEF SharedInv

LEMMA OthersUnmoved ==
  ASSUME OnlyRequests, CreditOverlap, TypeOK', Others
  PROVE  Unmoved(Mine, Mine') /\ Unmoved(Theirs, Theirs')
<1>1. TypeOK /\ SharedInv /\ Environment /\ CreditOf(Mine) /\ CreditOf(Theirs)
  BY DEF CreditOverlap, Others
<1>2. MachinesByOthers /\ RequestsByOthers /\ NodesByOthers /\ EnvFrame BY <1>1, EnvironmentSteps
<1>3. /\ vfresh' \in [Nodes -> BOOLEAN] /\ machine' \in [Nodes -> Machines]
      /\ mcache' \in [Nodes -> Machines] /\ mfresh' \in [Nodes -> BOOLEAN] /\ rcache' \subseteq Requests
  BY DEF TypeOK, MachinesTypeOK, ClustersTypeOK
<1>4. Follows(Mine, Mine')
  <2>1. CopiesCurrent BY <1>1 DEF CopiesCurrent, CreditOf, CachesEarned, PassEarned, Mine
  <2>2. CopiesCurrent' BY <1>1, <2>1, CopiesKept DEF Next
  <2>3. \A n \in Nodes : mcache'[n] = mcache[n] \/ mcache'[n] = machine'[n]
    BY <1>1, CopiesFrom DEF Next
  <2>4. ncache = node BY <1>1 DEF CreditOf, CachesEarned, Mine
  <2>5. ncache' = node' BY <1>2, <2>4 DEF NodesByOthers, OnlyRequests
  <2>6. QED BY <1>2, <1>3, <2>2, <2>3, <2>5 DEF Follows, Mine, CopiesCurrent, RequestsByOthers
<1>5. Unmoved(Mine, Mine')
  BY <1>2, <1>3, <1>4 DEF Unmoved, MachinesByOthers, EnvFrame, SameSignals, Mine, passVars, tryVars
<1>6. Unmoved(Theirs, Theirs') BY <1>1, <1>3, TheirsOvertaken DEF Others
<1>7. QED BY <1>5, <1>6

LEMMA OthersCredit ==
  ASSUME OnlyRequests, CreditOverlap, Others
  PROVE  CreditOverlap' /\ Unmoved(Mine, Mine') /\ Unmoved(Theirs, Theirs')
<1>1. TypeOK /\ SharedInv /\ Environment /\ CreditOf(Mine) /\ CreditOf(Theirs)
  BY DEF CreditOverlap, Others
<1>2. TypeOK' BY <1>1, TypeKept DEF Next
<1>3. SharedInv' /\ Ahead /\ node' \in [Nodes -> NodeRecords]
  BY <1>1, <1>2, OthersShared, OthersAhead DEF TypeOK, ClustersTypeOK
<1>4. Unmoved(Mine, Mine') /\ Unmoved(Theirs, Theirs') BY <1>2, OthersUnmoved
<1>5. CreditOf(Mine)' /\ CreditOf(Theirs)' BY <1>1, <1>3, <1>4, MineStays, TheirsStay
<1>6. QED BY <1>2, <1>3, <1>4, <1>5 DEF CreditOverlap

LEMMA FirstCredit ==
  ASSUME OnlyRequests, InitOverlap
  PROVE  CreditOverlap
<1>1. Init BY DEF InitOverlap
<1>2. TypeOK BY <1>1, TypeInit
<1>3. Theirs = Mine BY DEF InitOverlap, Theirs, Mine
<1>4. \A n \in Nodes : /\ machine[n] = NewMachine(n) /\ mcache[n] = NewMachine(n)
                       /\ node[n].boot = 1
  BY <1>1 DEF Init, OnlyRequests
<1>5. \A n \in Nodes : Earned(n, NewMachine(n)) /\ Earned(n, Unread)
  <2>1. Unread.action = "none" /\ Unread.boot = 0 /\ Unread.request = NoRequest BY DEF Unread
  <2>2. \A n \in Nodes : /\ NewMachine(n).action = "none" /\ NewMachine(n).boot = 0
                         /\ NewMachine(n).request = NoRequest
    BY DEF Unread, NewMachine
  <2>3. QED BY <1>4, <2>1, <2>2 DEF Earned
<1>6. SharedInv
  <2>1. \A r \in Requests : request[r] = "unraised" BY <1>1 DEF Init
  <2>2. QED BY <1>4, <1>5, <2>1 DEF SharedInv, RestartedForReal
<1>7. PassTyped(Mine)
  <2>1. view \in [Nodes -> Machines] /\ vfresh \in [Nodes -> BOOLEAN] /\ observed \in [Keys -> Observations]
    BY <1>2 DEF TypeOK, MachinesTypeOK, PassTypeOK
  <2>2. mcache \in [Nodes -> Machines] /\ mfresh \in [Nodes -> BOOLEAN] /\ rcache \subseteq Requests
    BY <1>2 DEF TypeOK, MachinesTypeOK, ClustersTypeOK
  <2>3. QED BY <1>1, <2>1, <2>2 DEF Init, PassTyped, Mine, PCs
<1>8. PassEarned(Mine)
  <2>1. pc = "idle" /\ \A n \in Nodes : view[n] = Unread /\ vfresh[n] = FALSE BY <1>1 DEF Init
  <2>2. QED BY <1>5, <2>1 DEF PassEarned, Mine
<1>9. PassReleases(Mine) BY <1>1 DEF Init, PassReleases, Mine
<1>10. CachesEarned(Mine)
  <2>1. ncache = node /\ rcache = {} /\ mcache = machine BY <1>1 DEF Init
  <2>2. QED BY <1>4, <1>5, <2>1 DEF CachesEarned, Mine
<1>11. QED BY <1>2, <1>3, <1>6, <1>7, <1>8, <1>9, <1>10 DEF CreditOverlap, CreditOf

LEMMA CreditKeptByBoth ==
  ASSUME OnlyRequests, CreditOverlap, [NextOverlap]_allVars
  PROVE  CreditOverlap'
<1>1. CASE OldPass BY <1>1, OldPassCredit
<1>2. CASE NewPass BY <1>2, NewPassCredit
<1>3. CASE OldEnds BY <1>3, OldEndsCredit
<1>4. CASE Others BY <1>4, OthersCredit
<1>5. CASE LeaseMoves \/ OldInformers \/ UNCHANGED allVars BY <1>5, OldRestCredit
<1>6. QED BY <1>1, <1>2, <1>3, <1>4, <1>5 DEF NextOverlap

\* Around a change of leader, every copy of a Machine either leader goes by keeps
\* the request and the boot of its restart mark together, and the boot is one at
\* which the request was pending: the induction behind RestartsAreRealForBoth
\* (MarkForRemediation, RestartCompleted, Release, LeaderElection).
THEOREM MarksAreEarnedByBoth ==
  ASSUME OnlyRequests
  PROVE  SpecOverlap => []CreditOverlap
<1>1. InitOverlap => CreditOverlap BY FirstCredit
<1>2. CreditOverlap /\ [NextOverlap]_allVars => CreditOverlap' BY CreditKeptByBoth
<1>3. QED BY <1>1, <1>2, PTL DEF SpecOverlap

\* A request is answered True only when its node has restarted since the request
\* was released, also while an instance that lost its lease goes on with its pass
\* and answers next to the new leader (remediate, Answer, LeaderElection).
THEOREM RestartsAreRealForBoth ==
  ASSUME OnlyRequests
  PROVE  SpecOverlap => []RestartedForReal
<1>1. CreditOverlap => RestartedForReal BY DEF CreditOverlap, SharedInv
<1>2. QED BY <1>1, MarksAreEarnedByBoth, PTL

-----------------------------------------------------------------------------
(* OverlapInv: a leader calls for the Machine of a pending request it is done with *)

\* A request that was raised before and is pending after a step was pending.
PendingBefore ==
  \A r \in Requests : request'[r] = "pending" /\ request[r] # "unraised" => request[r] = "pending"

LEMMA MarkedRaised ==
  ASSUME SharedInv, NEW n \in Nodes, NEW r \in Requests, MarkFor(machine[n], r)
  PROVE  /\ NodeOf[r] = n /\ Want[r] = "Restart" /\ request[r] # "unraised" /\ machine[n].marked
         /\ machine[n].action = "Restart" /\ machine[n].request = r
<1>1. machine[n].marked /\ machine[n].action = "Restart" /\ machine[n].request = r
  BY DEF MarkFor, MarkedAction
<1>2. QED BY <1>1 DEF SharedInv, Earned, RaisedBy

LEMMA StepPendingBefore ==
  ASSUME NEW L, NEW K, TypeOK, PassTyped(L), Step(L, K)
  PROVE  PendingBefore /\ \A r \in Requests : request'[r] = "pending" => request[r] = "pending"
BY StepRequests DEF PendingBefore

\* Calls of other nodes' signals are left alone.
LEMMA CallsElsewhere ==
  ASSUME NEW L, NEW K, NEW obs, NEW n, TypeOK, PassTyped(L), L.pc = "handle", Observes(L, K, obs),
         n # NodeOf[L.sig], CalledBy(L, n)
  PROVE  CalledBy(K, n)
<1>1. PICK k \in Keys : k[1] = n /\ L.observed[k].call # "none" BY DEF CalledBy
<1>2. k # Key(L.sig) BY <1>1 DEF Key
<1>3. K.observed[k] = L.observed[k] BY <1>2 DEF Observes, PassTyped
<1>4. QED BY <1>1, <1>3 DEF CalledBy

LEMMA CallsHere ==
  ASSUME NEW L, NEW K, TypeOK, PassTyped(L), L.pc = "handle", Observes(L, K, CallBy(L)),
         CopyInHand(L).exists, Want[L.sig] # "Report"
  PROVE  CalledBy(K, NodeOf[L.sig])
<1>1. Key(L.sig) \in Keys /\ Key(L.sig)[1] = NodeOf[L.sig] /\ Want[L.sig] \in Decisions
  BY InHand DEF Key
<1>2. K.observed[Key(L.sig)] = CallBy(L) BY <1>1 DEF Observes, PassTyped
<1>3. CallBy(L).call # "none" BY <1>1 DEF CallBy, Decisions
<1>4. QED BY <1>1, <1>2, <1>3 DEF CalledBy

\* Every call is of a signal that is acted on.
ActedOn(L) ==
  \A k \in Keys : L.observed[k].call # "none" => \E s \in Signals : Key(s) = k /\ Want[s] # "Report"

LEMMA HandleHoldsCalls ==
  ASSUME SignalsHold, NEW L, NEW K, TypeOK, SharedInv, PassTyped(L), PassEarned(L), PassHolds(L),
         HandlesSignal(L, K), NEW r \in Requests, r \in K.asking, request'[r] = "pending",
         K.fresh[NodeOf[r]], machine'[NodeOf[r]].exists, MarkFor(machine'[NodeOf[r]], r)
  PROVE  CalledBy(K, NodeOf[r])
<1> DEFINE n == NodeOf[L.sig]
<1>1. /\ L.pc = "handle" /\ n \in Nodes /\ NodeOf[r] \in Nodes /\ L.sig \in Signals
      /\ r \in L.asking /\ request[r] = "pending"
  BY InHand, ConstantsAssumption DEF HandlesSignal, SameSignals, Signals, SameRequests
<1>2. Step(L, K) BY DEF Step
<1>3. /\ L.fresh[NodeOf[r]] /\ machine[NodeOf[r]].exists /\ MarkFor(machine[NodeOf[r]], r)
      => L.sig = r \/ CalledBy(L, NodeOf[r])
  BY <1>1 DEF PassHolds
<1>4. CASE SameCopies(L, K) /\ Unwritten(L, K) /\ Observes(L, K, CallBy(L))
  <2>1. L.fresh[NodeOf[r]] /\ machine[NodeOf[r]].exists /\ MarkFor(machine[NodeOf[r]], r)
    BY <1>4 DEF SameCopies, Unwritten
  <2>2. L.view[NodeOf[r]] = machine[NodeOf[r]] BY <1>1, <2>1 DEF PassEarned
  <2>3. Want[r] = "Restart" BY <1>1, <2>1, MarkedRaised
  <2>4. CASE L.sig = r
    <3>1. CopyInHand(L).exists BY <2>1, <2>2, <2>4 DEF CopyInHand
    <3>2. QED BY <1>1, <1>4, <2>3, <2>4, <3>1, CallsHere
  <2>5. CASE CalledBy(L, NodeOf[r]) /\ NodeOf[r] # n
    BY <1>1, <1>4, <2>5, CallsElsewhere
  <2>6. CASE CalledBy(L, NodeOf[r]) /\ NodeOf[r] = n
    <3>1. PICK k \in Keys : k[1] = NodeOf[r] /\ L.observed[k].call # "none" BY <2>6 DEF CalledBy
    <3>2. CASE k = Key(L.sig)
      <4>1. PICK s \in Signals : Key(s) = k /\ Want[s] # "Report" BY <3>1 DEF PassHolds
      <4>2. Want[L.sig] # "Report" BY <1>1, <3>2, <4>1 DEF SignalsHold
      <4>3. CopyInHand(L).exists BY <2>1, <2>2, <2>6 DEF CopyInHand
      <4>4. QED BY <1>1, <1>4, <2>6, <4>2, <4>3, CallsHere
    <3>3. CASE k # Key(L.sig)
      <4>1. K.observed[k] = L.observed[k] BY <1>4, <3>3 DEF Observes, PassTyped
      <4>2. QED BY <3>1, <4>1 DEF CalledBy
    <3>4. QED BY <3>2, <3>3
  <2>7. QED BY <1>3, <2>1, <2>4, <2>5, <2>6
<1>5. CASE /\ SameCopies(L, K) /\ Unwritten(L, K) /\ Observes(L, K, NoCall)
           /\ "escalate" \in Rejected \/ ~L.fresh[n] \/ ~CopyInHand(L).marked
  <2>1. L.fresh[NodeOf[r]] /\ machine[NodeOf[r]].exists /\ MarkFor(machine[NodeOf[r]], r)
    BY <1>5 DEF SameCopies, Unwritten
  <2>2. L.view[NodeOf[r]] = machine[NodeOf[r]] /\ machine[NodeOf[r]].marked
    BY <1>1, <2>1, MarkedRaised DEF PassEarned
  <2>3. NodeOf[r] # n BY <1>5, <2>1, <2>2 DEF SignalsHold, CopyInHand
  <2>4. CalledBy(L, NodeOf[r]) => CalledBy(K, NodeOf[r]) BY <1>1, <1>5, <2>3, CallsElsewhere
  <2>5. QED BY <1>3, <2>1, <2>3, <2>4
<1>6. ASSUME NEW m, CopyInHand(L).exists, Want[L.sig] # "Report",
             \/ Writes(L, K, n, m) /\ Observes(L, K, CallBy(L))
             \/ Loses(L, K, n, m) /\ Observes(L, K, NoCall)
      PROVE  CalledBy(K, NodeOf[r])
  <2>1. CASE NodeOf[r] = n
    <3>1. CASE Loses(L, K, n, m) BY <1>1, <2>1, <3>1 DEF Loses, PassTyped
    <3>2. CASE Observes(L, K, CallBy(L)) BY <1>1, <1>6, <2>1, <3>2, CallsHere
    <3>3. QED BY <1>6, <3>1, <3>2
  <2>2. CASE NodeOf[r] # n
    <3>1. machine'[NodeOf[r]] = machine[NodeOf[r]] /\ L.fresh[NodeOf[r]]
      BY <1>1, <1>6, <2>2 DEF Writes, Loses, Stores, TypeOK, MachinesTypeOK, PassTyped
    <3>2. CalledBy(L, NodeOf[r]) => CalledBy(K, NodeOf[r])
      BY <1>1, <1>6, <2>2, CallsElsewhere
    <3>3. QED BY <1>3, <2>2, <3>1, <3>2
  <2>3. QED BY <2>1, <2>2
<1>7. QED BY <1>4, <1>5, <1>6 DEF HandlesSignal

LEMMA StepActedOn ==
  ASSUME NEW L, NEW K, TypeOK, PassTyped(L), PassHolds(L), Step(L, K)
  PROVE  ActedOn(K)
<1>1. ActedOn(L) BY DEF PassHolds, ActedOn
<1>2. CASE HandlesSignal(L, K)
  <2>1. L.pc = "handle" /\ L.sig \in Signals /\ Key(L.sig) \in Keys BY <1>2, InHand DEF HandlesSignal
  <2>2. Observes(L, K, CallBy(L)) \/ Observes(L, K, NoCall) BY <1>2 DEF HandlesSignal
  <2>3. ASSUME NEW k \in Keys, K.observed[k].call # "none"
        PROVE  \E s \in Signals : Key(s) = k /\ Want[s] # "Report"
    <3>1. CASE k # Key(L.sig)
      <4>1. K.observed[k] = L.observed[k] BY <2>2, <3>1 DEF Observes, PassTyped
      <4>2. QED BY <1>1, <2>3, <4>1 DEF ActedOn
    <3>2. CASE k = Key(L.sig)
      <4>1. K.observed[k] \in {CallBy(L), NoCall} BY <2>1, <2>2, <3>2 DEF Observes, PassTyped
      <4>2. Want[L.sig] # "Report" BY <2>3, <4>1 DEF CallBy, NoCall
      <4>3. QED BY <2>1, <3>2, <4>2
    <3>3. QED BY <3>1, <3>2
  <2>4. QED BY <2>3 DEF ActedOn
<1>3. CASE Ends(L, K) BY <1>3 DEF Ends, ActedOn, NoCall
<1>4. CASE K.observed = L.observed BY <1>1, <1>4 DEF ActedOn
<1>5. QED
  BY <1>2, <1>3, <1>4 DEF Step, Begins, TakesNext, AnswersSignal, ReleasesSignal, RereadsCopy,
                          ChoosesReleases, ReleasesLeft, Rests

LEMMA StepCalls ==
  ASSUME SignalsHold, NEW L, NEW K, TypeOK, SharedInv, PassTyped(L), PassEarned(L), PassReleases(L),
         PassHolds(L), Step(L, K), NEW r \in Requests, r \in K.asking, request'[r] = "pending",
         ~(K.pc = "handle" /\ K.sig = r), K.fresh[NodeOf[r]],
         machine'[NodeOf[r]].exists, MarkFor(machine'[NodeOf[r]], r)
  PROVE  CalledBy(K, NodeOf[r])
<1>1. NodeOf[r] \in Nodes /\ request[r] = "pending"
  BY StepPendingBefore, ConstantsAssumption DEF Signals
<1>2. /\ r \in L.asking /\ L.pc # "handle" /\ L.fresh[NodeOf[r]]
      /\ machine'[NodeOf[r]] = machine[NodeOf[r]]
      => CalledBy(L, NodeOf[r])
  BY <1>1 DEF PassHolds
<1>3. CASE HandlesSignal(L, K) BY <1>3, HandleHoldsCalls
<1>4. CASE Begins(L, K) BY <1>4 DEF Begins, PassTyped
<1>5. CASE TakesNext(L, K)
  <2>1. CalledBy(L, NodeOf[r]) BY <1>2, <1>5 DEF TakesNext, SameCopies, Unwritten
  <2>2. QED BY <1>5, <2>1 DEF TakesNext, CalledBy
<1>6. CASE AnswersSignal(L, K) \/ ChoosesReleases(L, K)
  <2>1. CalledBy(L, NodeOf[r])
    BY <1>2, <1>6 DEF AnswersSignal, ChoosesReleases, SameSignals, SameCopies, Unwritten
  <2>2. QED BY <1>6, <2>1 DEF AnswersSignal, ChoosesReleases, SameSignals, CalledBy
<1>7. ASSUME NEW n \in Nodes, ReleasesOne(L, K, n), L.pc # "handle", r \in L.asking
      PROVE  CalledBy(L, NodeOf[r])
  <2>1. CASE SameCopies(L, K) /\ Unwritten(L, K)
    BY <1>2, <1>7, <2>1 DEF SameCopies, Unwritten
  <2>2. CASE L.fresh[n] /\ (Writes(L, K, n, Released(L.view[n])) \/ Loses(L, K, n, Released(L.view[n])))
    <3>1. L.view[n] \in Machines BY DEF PassTyped
    <3>2. CASE NodeOf[r] = n
      <4>1. machine'[n] = Released(L.view[n])
        BY <2>2 DEF Writes, Loses, Stores, TypeOK, MachinesTypeOK
      <4>2. QED BY <3>1, <3>2, <4>1, ReleasedFields DEF MarkFor, MarkedAction
    <3>3. CASE NodeOf[r] # n
      <4>1. machine'[NodeOf[r]] = machine[NodeOf[r]] /\ L.fresh[NodeOf[r]]
        BY <1>1, <2>2, <3>3 DEF Writes, Loses, Stores, TypeOK, MachinesTypeOK, PassTyped
      <4>2. QED BY <1>2, <1>7, <4>1
    <3>4. QED BY <3>2, <3>3
  <2>3. QED BY <1>7, <2>1, <2>2 DEF ReleasesOne
<1>8. CASE ReleasesSignal(L, K)
  <2>1. NodeOf[L.sig] \in Nodes /\ L.pc = "releaseAnswered" /\ r \in L.asking
    BY <1>8, InHand DEF ReleasesSignal, SameSignals
  <2>2. CASE ReleasesOne(L, K, NodeOf[L.sig])
    BY <1>7, <1>8, <2>1, <2>2 DEF ReleasesSignal, SameSignals, CalledBy
  <2>3. CASE SameCopies(L, K) /\ Unwritten(L, K)
    BY <1>2, <1>8, <2>1, <2>3 DEF ReleasesSignal, SameSignals, SameCopies, Unwritten, CalledBy
  <2>4. QED BY <1>8, <2>2, <2>3 DEF ReleasesSignal
<1>9. CASE ReleasesLeft(L, K)
  <2>1. PICK n \in L.left : ReleasesOne(L, K, n) BY <1>9 DEF ReleasesLeft
  <2>2. n \in Nodes /\ L.pc = "release" /\ r \in L.asking BY <1>9 DEF PassTyped, ReleasesLeft, SameSignals
  <2>3. CalledBy(L, NodeOf[r]) BY <1>7, <2>1, <2>2
  <2>4. QED BY <1>9, <2>3 DEF ReleasesLeft, SameSignals, CalledBy
<1>10. CASE RereadsCopy(L, K)
  <2>1. L.pc = "reread" /\ Key(L.sig) \in Keys /\ NodeOf[L.sig] \in Nodes /\ K.observed = L.observed
        /\ machine' = machine
    BY <1>10, InHand DEF RereadsCopy, Unwritten
  <2>2. CASE NodeOf[r] = NodeOf[L.sig]
    <3>1. L.observed[Key(L.sig)].call = "Restart" BY <2>1 DEF PassReleases
    <3>2. Key(L.sig)[1] = NodeOf[r] BY <2>2 DEF Key
    <3>3. QED BY <2>1, <3>1, <3>2 DEF CalledBy
  <2>3. CASE NodeOf[r] # NodeOf[L.sig]
    <3>1. L.fresh[NodeOf[r]]
      BY <1>1, <1>10, <2>1, <2>3 DEF RereadsCopy, SameCopies, PassTyped
    <3>2. QED BY <1>2, <1>10, <2>1, <3>1 DEF RereadsCopy, SameSignals, CalledBy
  <2>4. QED BY <2>2, <2>3
<1>11. CASE Rests(L, K) BY <1>1, <1>11 DEF Rests, Unwritten, PassHolds
<1>12. CASE Ends(L, K) BY <1>12 DEF Ends
<1>13. QED BY <1>3, <1>4, <1>5, <1>6, <1>8, <1>9, <1>10, <1>11, <1>12 DEF Step

LEMMA StepHolds ==
  ASSUME SignalsHold, NEW L, NEW K, TypeOK, SharedInv, PassTyped(L), PassEarned(L), PassReleases(L),
         PassHolds(L), Step(L, K)
  PROVE  PassHolds(K)'
<1>1. ActedOn(K) BY StepActedOn
<1>2. K.asking \subseteq Requests
  BY DEF PassTyped, Step, Begins, TakesNext, HandlesSignal, AnswersSignal, ReleasesSignal, RereadsCopy,
         ChoosesReleases, ReleasesLeft, Ends, Rests, SameSignals
<1>3. ASSUME NEW r \in K.asking, request'[r] = "pending", ~(K.pc = "handle" /\ K.sig = r),
             K.fresh[NodeOf[r]], machine'[NodeOf[r]].exists, MarkFor(machine'[NodeOf[r]], r)
      PROVE  CalledBy(K, NodeOf[r])
  BY <1>2, <1>3, StepCalls
<1>4. QED BY <1>1, <1>3 DEF PassHolds, ActedOn, MarkFor, MarkedAction, CalledBy

LEMMA UnmovedHolds ==
  ASSUME NEW L, NEW K, TypeOK, SharedInv, PassTyped(L), PassHolds(L), PendingBefore, Unmoved(L, K)
  PROVE  PassHolds(K)'
<1>1. ActedOn(K) BY DEF PassHolds, ActedOn, Unmoved
<1>2. ASSUME NEW r \in K.asking, request'[r] = "pending", ~(K.pc = "handle" /\ K.sig = r),
             K.fresh[NodeOf[r]], machine'[NodeOf[r]].exists, MarkFor(machine'[NodeOf[r]], r)
      PROVE  CalledBy(K, NodeOf[r])
  <2>1. r \in Requests /\ r \in L.asking /\ NodeOf[r] \in Nodes
    BY ConstantsAssumption DEF Unmoved, SameSignals, PassTyped, Signals
  <2>2. /\ L.fresh[NodeOf[r]] /\ machine'[NodeOf[r]] = machine[NodeOf[r]]
        /\ ~(L.pc = "handle" /\ L.sig = r)
    BY <1>2, <2>1 DEF Unmoved, SameSignals
  <2>3. request[r] = "pending" BY <1>2, <2>1, <2>2, MarkedRaised DEF PendingBefore
  <2>4. CalledBy(L, NodeOf[r]) BY <1>2, <2>1, <2>2, <2>3 DEF PassHolds
  <2>5. QED BY <2>4 DEF Unmoved, CalledBy
<1>3. QED BY <1>1, <1>2 DEF PassHolds, ActedOn, MarkFor, MarkedAction, CalledBy

\* What holds of the pass that a leader goes on to holds of it then.
LEMMA HoldsThen ==
  ASSUME NEW K, PassHolds(K)'
  PROVE  (K = Mine' => PassHolds(Mine)') /\ (K = Theirs' => PassHolds(Theirs)')
<1>1. K = Mine' => PassHolds(Mine)' BY DEF PassHolds, CalledBy, MarkFor, MarkedAction
<1>2. K = Theirs' => PassHolds(Theirs)' BY DEF PassHolds, CalledBy, MarkFor, MarkedAction
<1>3. QED BY <1>1, <1>2

LEMMA MineHolds ==
  ASSUME SignalsHold, OverlapInv, \/ Step(Mine, Mine')
                                  \/ PendingBefore /\ Unmoved(Mine, Mine')
  PROVE  PassHolds(Mine)' /\ (Step(Mine, Mine') => PendingBefore)
<1>1. PICK L : L = Mine OBVIOUS
<1>2. PICK K : K = Mine' OBVIOUS
<1>3. TypeOK /\ SharedInv /\ PassTyped(L) /\ PassEarned(L) /\ PassReleases(L) /\ PassHolds(L)
  BY <1>1 DEF OverlapInv, CreditOverlap, CreditOf
<1>4. Step(L, K) \/ (PendingBefore /\ Unmoved(L, K)) BY <1>1, <1>2
<1>5. PassHolds(K)' BY <1>3, <1>4, StepHolds, UnmovedHolds
<1>6. Step(Mine, Mine') => PendingBefore BY <1>1, <1>2, <1>3, StepPendingBefore
<1>7. QED BY <1>2, <1>5, <1>6, HoldsThen

LEMMA TheirsHold ==
  ASSUME SignalsHold, OverlapInv, \/ Step(Theirs, Theirs')
                                  \/ PendingBefore /\ Unmoved(Theirs, Theirs')
  PROVE  PassHolds(Theirs)' /\ (Step(Theirs, Theirs') => PendingBefore)
<1>1. PICK L : L = Theirs OBVIOUS
<1>2. PICK K : K = Theirs' OBVIOUS
<1>3. TypeOK /\ SharedInv /\ PassTyped(L) /\ PassEarned(L) /\ PassReleases(L) /\ PassHolds(L)
  BY <1>1 DEF OverlapInv, CreditOverlap, CreditOf
<1>4. Step(L, K) \/ (PendingBefore /\ Unmoved(L, K)) BY <1>1, <1>2
<1>5. PassHolds(K)' BY <1>3, <1>4, StepHolds, UnmovedHolds
<1>6. Step(Theirs, Theirs') => PendingBefore BY <1>1, <1>2, <1>3, StepPendingBefore
<1>7. QED BY <1>2, <1>5, <1>6, HoldsThen

LEMMA OverlapKept ==
  ASSUME OnlyRequests, SignalsHold, OverlapInv, [NextOverlap]_allVars
  PROVE  OverlapInv'
<1>1. CreditOverlap BY DEF OverlapInv
<1>2. CreditOverlap' BY <1>1, CreditKeptByBoth
<1>3. CASE OldPass
  <2>1. Step(Theirs, Theirs') /\ Unmoved(Mine, Mine') BY <1>1, <1>3, OldPassCredit
  <2>2. QED BY <1>2, <2>1, TheirsHold, MineHolds DEF OverlapInv
<1>4. CASE NewPass
  <2>1. Step(Mine, Mine') /\ Unmoved(Theirs, Theirs') BY <1>1, <1>4, NewPassCredit
  <2>2. QED BY <1>2, <2>1, TheirsHold, MineHolds DEF OverlapInv
<1>5. CASE OldEnds
  <2>1. Step(Theirs, Theirs') /\ Unmoved(Mine, Mine') BY <1>1, <1>5, OldEndsCredit
  <2>2. QED BY <1>2, <2>1, TheirsHold, MineHolds DEF OverlapInv
<1>6. CASE Others
  <2>1. Unmoved(Mine, Mine') /\ Unmoved(Theirs, Theirs') BY <1>1, <1>6, OthersCredit
  <2>2. PendingBefore
    BY <1>1, <1>6, EnvironmentSteps DEF RequestsByOthers, PendingBefore, Others, CreditOverlap
  <2>3. QED BY <1>2, <2>1, <2>2, TheirsHold, MineHolds DEF OverlapInv
<1>7. CASE LeaseMoves \/ OldInformers \/ UNCHANGED allVars
  <2>1. Unmoved(Mine, Mine') /\ Unmoved(Theirs, Theirs') /\ request' = request
    BY <1>1, <1>7, OldRestCredit
  <2>2. PendingBefore BY <2>1 DEF PendingBefore
  <2>3. QED BY <1>2, <2>1, <2>2, TheirsHold, MineHolds DEF OverlapInv
<1>8. QED BY <1>3, <1>4, <1>5, <1>6, <1>7 DEF NextOverlap

LEMMA FirstHold ==
  ASSUME InitOverlap
  PROVE  PassHolds(Mine) /\ PassHolds(Theirs)
<1>1. Init /\ Theirs = Mine BY DEF InitOverlap, Theirs, Mine
<1>2. PassHolds(Mine) BY <1>1 DEF Init, PassHolds, Mine, NoCall
<1>3. QED BY <1>1, <1>2

\* Around a change of leader, a leader that is done with a pending request, and
\* has the current copy of the Machine marked for it, has the Machine called for,
\* whichever of the two marked it: what either goes by before it releases
\* (releaseRestarts, releaseAnswered, LeaderElection).
THEOREM BothHoldTheirRequests ==
  ASSUME OnlyRequests, SignalsHold
  PROVE  SpecOverlap => []OverlapInv
<1>1. InitOverlap => OverlapInv BY FirstCredit, FirstHold DEF OverlapInv
<1>2. OverlapInv /\ [NextOverlap]_allVars => OverlapInv' BY OverlapKept
<1>3. QED BY <1>1, <1>2, PTL DEF SpecOverlap

-----------------------------------------------------------------------------
(* MarksSurviveOverlap *)

\* What the patch of a leader leaves of the mark of a pending request it has.
LEMMA PatchKeepsMark ==
  ASSUME NEW L, TypeOK, SharedInv, PassTyped(L), PassEarned(L), PassReleases(L), PassHolds(L),
         NEW n \in Nodes, NEW m, Patches(L, n, m),
         NEW r \in Requests, MarkFor(machine[n], r), request[r] = "pending", HasRequest(L, r)
  PROVE  MarkedAction(m) # "none"
<1>1. NodeOf[r] = n /\ machine[n].action = "Restart" /\ machine[n].request = r BY MarkedRaised
<1>2. CASE L.pc = "handle" /\ AsksFor(L, m)
  <2>1. m.marked = TRUE /\ m.action \in {"Restart", "Remediate"} BY <1>2, AskedFields
  <2>2. QED BY <2>1 DEF MarkedAction
<1>3. CASE L.pc = "releaseAnswered" /\ L.fresh[n] /\ n = NodeOf[L.sig]
  <2>1. L.view[n] = machine[n] BY <1>3 DEF PassEarned
  <2>2. L.answered.request = r BY <1>1, <1>3, <2>1 DEF PassReleases, CopyInHand, RestartMarkOf
  <2>3. L.sig = r /\ request[L.sig] = "True" BY <1>3, <2>2, NoRequestAssumption DEF PassReleases
  <2>4. QED BY <2>3
<1>4. CASE L.pc = "release" /\ L.fresh[n] /\ n \in L.left
  <2>1. L.view[n] = machine[n] BY <1>4 DEF PassEarned
  <2>2. L.todo = {} /\ ~L.unreadable /\ machine[n].exists /\ ~HeldBy(L, n)
    BY <1>4, <2>1 DEF PassReleases, Releasable
  <2>3. r \in L.asking BY <2>2 DEF HasRequest
  <2>4. CalledBy(L, n) BY <1>1, <1>4, <2>2, <2>3 DEF PassHolds
  <2>5. PICK k \in Keys : k[1] = n /\ L.observed[k].call # "none" BY <2>4 DEF CalledBy
  <2>6. LeftoverIn(L, n, L.observed[k]) BY <2>2, <2>5 DEF HeldBy
  <2>7. r \notin L.asking BY <1>1, <2>1, <2>6 DEF LeftoverIn
  <2>8. QED BY <2>3, <2>7
<1>5. QED BY <1>2, <1>3, <1>4 DEF Patches

\* A mark that somebody else set stays, and is changed only by a leader whose
\* copy is from before it.
LEMMA PatchKeepsOthers ==
  ASSUME NEW L, TypeOK, SharedInv, PassTyped(L), PassEarned(L), PassReleases(L),
         NEW n \in Nodes, NEW m, Patches(L, n, m), machine[n].marked, machine[n].action = "none"
  PROVE  m.marked /\ ~L.view[n].marked
<1>1. L.fresh[n] => MarkedAction(L.view[n]) # "Restart" BY DEF PassEarned, MarkedAction
<1>2. CASE L.pc = "handle" /\ n = NodeOf[L.sig] /\ AsksFor(L, m)
  <2>1. m.marked = TRUE BY <1>2, AskedFields
  <2>2. ~CopyInHand(L).marked BY <1>1, <1>2 DEF AsksFor, CopyInHand
  <2>3. QED BY <1>2, <2>1, <2>2 DEF CopyInHand
<1>3. CASE L.pc = "releaseAnswered" /\ L.fresh[n] /\ n = NodeOf[L.sig]
  <2>1. MarkedAction(L.view[n]) = "Restart" BY <1>3 DEF PassReleases, CopyInHand, RestartMarkOf
  <2>2. QED BY <1>1, <1>3, <2>1
<1>4. CASE L.pc = "release" /\ L.fresh[n] /\ n \in L.left
  <2>1. MarkedAction(L.view[n]) = "Restart" BY <1>4 DEF PassReleases, Releasable
  <2>2. QED BY <1>1, <1>4, <2>1
<1>5. QED BY <1>2, <1>3, <1>4 DEF Patches

\* A step of a leader takes neither off.
LEMMA StepKeepsMarks ==
  ASSUME NEW L, NEW K, TypeOK, SharedInv, CreditOf(L), PassHolds(L), Step(L, K)
  PROVE  KeepsMarks(L)
<1>1. PassTyped(L) /\ PassEarned(L) /\ PassReleases(L) BY DEF CreditOf
<1>2. ASSUME NEW n \in Nodes
      PROVE  \/ machine'[n] = machine[n] \/ \E m : Patches(L, n, m) /\ machine'[n] = m
  <2>1. CASE Unwritten(L, K) BY <2>1 DEF Unwritten
  <2>2. ASSUME NEW k \in Nodes, NEW m, Patches(L, k, m), Writes(L, K, k, m) \/ Loses(L, K, k, m)
        PROVE  \/ machine'[n] = machine[n] \/ \E w : Patches(L, n, w) /\ machine'[n] = w
    <3>1. machine'[n] = IF n = k THEN m ELSE machine[n]
      BY <2>2 DEF Writes, Loses, Stores, TypeOK, MachinesTypeOK
    <3>2. QED BY <2>2, <3>1
  <2>3. QED BY <1>1, <2>1, <2>2, StepPatches
<1>3. ASSUME NEW n \in Nodes, NEW r \in Requests,
             MarkFor(machine[n], r), request[r] = "pending", HasRequest(L, r)
      PROVE  MarkedAction(machine'[n]) # "none"
  <2>1. CASE machine'[n] = machine[n] BY <1>3, <2>1 DEF MarkFor, MarkedAction
  <2>2. ASSUME NEW m, Patches(L, n, m), machine'[n] = m PROVE MarkedAction(machine'[n]) # "none"
    BY <1>1, <1>3, <2>2, PatchKeepsMark
  <2>3. QED BY <1>2, <2>1, <2>2
<1>4. ASSUME NEW n \in Nodes, machine[n].marked, machine[n].action = "none"
      PROVE  machine'[n].marked /\ (machine'[n] # machine[n] => ~L.view[n].marked)
  <2>1. CASE machine'[n] = machine[n] BY <1>4, <2>1
  <2>2. ASSUME NEW m, Patches(L, n, m), machine'[n] = m PROVE machine'[n].marked /\ ~L.view[n].marked
    BY <1>1, <1>4, <2>2, PatchKeepsOthers
  <2>3. QED BY <1>2, <2>1, <2>2
<1>5. QED BY <1>3, <1>4 DEF KeepsMarks

LEMMA BothKeepMarks ==
  ASSUME OnlyRequests, OverlapInv, [NextOverlap]_allVars
  PROVE  (ByOperator => KeepsMarks(Mine)) /\ (ByOld => KeepsMarks(Theirs))
<1>1. CreditOverlap /\ TypeOK BY DEF OverlapInv, CreditOverlap
<1>2. CASE NewPass
  <2>1. Step(Mine, Mine') /\ ~ByOld
    BY <1>1, <1>2, NewPassCredit DEF NewPass, ByOld, oldVars
  <2>2. PICK L : L = Mine OBVIOUS
  <2>3. PICK K : K = Mine' OBVIOUS
  <2>4. KeepsMarks(L)
    BY <2>1, <2>2, <2>3, StepKeepsMarks DEF OverlapInv, CreditOverlap
  <2>5. QED BY <2>1, <2>2, <2>4
<1>3. CASE OldPass \/ OldEnds
  <2>1. Step(Theirs, Theirs') BY <1>1, <1>3, OldPassCredit, OldEndsCredit
  <2>2. ~ByOperator BY <1>3 DEF OldPass, OldEnds, ByOperator, newVars
  <2>3. PICK L : L = Theirs OBVIOUS
  <2>4. PICK K : K = Theirs' OBVIOUS
  <2>5. KeepsMarks(L)
    BY <2>1, <2>3, <2>4, StepKeepsMarks DEF OverlapInv, CreditOverlap
  <2>6. QED BY <2>2, <2>3, <2>5
<1>4. CASE Others
  <2>1. EnvFrame BY <1>1, <1>4, EnvironmentSteps DEF Others
  <2>2. QED BY <1>4, <2>1 DEF Others, ByOld, ByOperator, EnvFrame, oldVars
<1>5. CASE LeaseMoves \/ OldInformers \/ UNCHANGED allVars
  BY <1>1, <1>5, OldRestCredit DEF ByOld, ByOperator
<1>6. QED BY <1>2, <1>3, <1>4, <1>5 DEF NextOverlap

\* Neither leader takes the restart mark of a pending request off its Machine in
\* a pass that has the request or could not read one, whatever the other one does
\* in the middle of it, nor a mark somebody else set, which it makes its own only
\* with a copy from before the mark (releaseRestarts, releaseAnswered, Release,
\* MarkForRemediation, LeaderElection).
THEOREM MarksSurviveBoth ==
  ASSUME OnlyRequests, SignalsHold
  PROVE  SpecOverlap => MarksSurviveOverlap
<1>1. OverlapInv /\ [NextOverlap]_allVars =>
        [(ByOperator => KeepsMarks(Mine)) /\ (ByOld => KeepsMarks(Theirs))]_allVars
  BY BothKeepMarks
<1>2. QED BY <1>1, BothHoldTheirRequests, PTL DEF SpecOverlap, MarksSurviveOverlap

=============================================================================
