------------------------------ MODULE Overlap -------------------------------
(***************************************************************************)
(* Two instances of the operator around a change of leader.  An instance   *)
(* that lost its lease, because a renewal failed or its shutdown timed     *)
(* out, goes on with the pass it is in until its process ends, while the   *)
(* one that has the lease already runs passes of its own on the same       *)
(* Cluster.  They are two processes: each has informers of its own, which  *)
(* lag on their own, and a pass of its own.  Remediator's variables are    *)
(* the clusters, which the two share, and the new leader's.                *)
(***************************************************************************)
EXTENDS Remediator

VARIABLES
  lease,    \* who holds it: "old" or "new"
  omcache, omfresh, oncache, orcache,   \* the old leader's informer caches
  owait, opc, oread, oview, ovfresh, otodo, osig, oans, oobserved, oasking, ounreadable,
  oanswered, otries, oleft   \* the old leader's memory and pass

Old == INSTANCE Remediator WITH
  mcache <- omcache, mfresh <- omfresh, ncache <- oncache, rcache <- orcache,
  wait <- owait, pc <- opc, read <- oread, view <- oview, vfresh <- ovfresh, todo <- otodo,
  sig <- osig, ans <- oans, observed <- oobserved, asking <- oasking, unreadable <- ounreadable,
  answered <- oanswered, tries <- otries, left <- oleft

newCaches == <<mcache, mfresh, ncache, rcache>>
oldCaches == <<omcache, omfresh, oncache, orcache>>
newVars == <<wait, pc, read, view, passVars, ans, observed, tryVars, left>>
oldVars == <<owait, opc, oread, oview, otodo, osig, oans, oobserved, oasking, ounreadable,
             oanswered, otries, oleft>>
allVars == <<vars, lease, oldCaches, oldVars, ovfresh>>

\* The old leader goes on with its pass, and begins another only while it has
\* the lease.
OldPass ==
  /\ lease = "old" \/ opc # "idle"
  /\ Old!Pass
  /\ Overtaken
  /\ UNCHANGED <<lease, newVars>>

\* The new leader begins once it has the lease.
NewPass ==
  /\ lease = "new"
  /\ Pass
  /\ Old!Overtaken
  /\ UNCHANGED <<lease, oldVars>>

\* The lease runs out or is given up.
LeaseMoves ==
  /\ lease = "old" /\ lease' = "new"
  /\ UNCHANGED <<vars, oldCaches, oldVars, ovfresh>>

\* The process of the old leader ends.
OldEnds ==
  /\ lease = "new" /\ opc # "idle"
  /\ Old!EndPass
  /\ owait' = [n \in Nodes |-> "none"]
  /\ UNCHANGED <<lease, newCaches, newVars, vfresh, crashes>>

Others ==
  /\ Environment
  /\ Old!Overtaken
  /\ UNCHANGED <<lease, oldVars>>

\* The old leader's informers catch up, and its clock goes on.
OldInformers ==
  /\ \/ \E n \in Nodes : Old!SyncMachine(n) \/ Old!SyncNode(n) \/ Old!GraceElapses(n)
     \/ Old!SyncRequests
  /\ UNCHANGED <<lease, newCaches, newVars, vfresh>>

InitOverlap ==
  /\ Init /\ lease = "old"
  /\ omcache = mcache /\ omfresh = mfresh /\ oncache = ncache /\ orcache = rcache
  /\ owait = wait /\ opc = pc /\ oread = read /\ oview = view /\ ovfresh = vfresh
  /\ otodo = todo /\ osig = sig /\ oans = ans /\ oobserved = observed /\ oasking = asking
  /\ ounreadable = unreadable /\ oanswered = answered /\ otries = tries /\ oleft = left

NextOverlap == OldPass \/ NewPass \/ LeaseMoves \/ OldEnds \/ Others \/ OldInformers

SpecOverlap == InitOverlap /\ [][NextOverlap]_allVars

-----------------------------------------------------------------------------
(* The two passes are alike, so what is known of one is said of it as a value,
   with the caches it is fed from. *)

Mine ==
  [machines |-> mcache, current |-> mfresh, nodes |-> ncache, requests |-> rcache,
   pc |-> pc, read |-> read, view |-> view, fresh |-> vfresh, todo |-> todo, sig |-> sig,
   ans |-> ans, observed |-> observed, asking |-> asking, unreadable |-> unreadable,
   answered |-> answered, left |-> left]

Theirs ==
  [machines |-> omcache, current |-> omfresh, nodes |-> oncache, requests |-> orcache,
   pc |-> opc, read |-> oread, view |-> oview, fresh |-> ovfresh, todo |-> otodo, sig |-> osig,
   ans |-> oans, observed |-> oobserved, asking |-> oasking, unreadable |-> ounreadable,
   answered |-> oanswered, left |-> oleft]

\* The step is one of the old leader, as ByOperator of the new one.
ByOld == opc' # opc \/ oleft' # oleft

\* Pass L has the request, or knows that it read only some.
HasRequest(L, r) == r \in L.todo \cup L.asking \/ L.unreadable

\* A step of pass L keeps the mark of every pending request that L has, and
\* somebody else's mark: that one changes only where the copy is from before it.
KeepsMarks(L) ==
  \A n \in Nodes :
    /\ \A r \in Requests : MarkFor(machine[n], r) /\ request[r] = "pending" /\ HasRequest(L, r)
                           => MarkedAction(machine'[n]) # "none"
    /\ machine[n].marked /\ machine[n].action = "none" =>
         machine'[n].marked /\ (machine'[n] # machine[n] => ~L.view[n].marked)

\* Neither leader takes the restart mark of a pending request off its Machine in
\* a pass that has the request or could not read one, whichever of the two made
\* the mark and whatever the other does in the middle of the pass, nor a mark
\* somebody else set (releaseRestarts, releaseAnswered, Release).  A leader whose
\* pass collected the signals before the request was raised may take it off.
MarksSurviveOverlap ==
  [][(ByOperator => KeepsMarks(Mine)) /\ (ByOld => KeepsMarks(Theirs))]_allVars

-----------------------------------------------------------------------------
(* Why it holds, and RestartedForReal. *)

BootRead(L, n)  == L.read.nodes[n].boot
CopyInHand(L)   == L.view[NodeOf[L.sig]]
CalledBy(L, n)  == \E k \in Keys : k[1] = n /\ L.observed[k].call # "none"

\* As Leftover and Held, of pass L.
LeftoverIn(L, n, obs) ==
  /\ obs.call = "Restart" /\ obs.request # NoRequest
  /\ L.view[n].request # NoRequest /\ L.view[n].request \notin L.asking
  /\ RestartCompleted(L.view[n], L.read.nodes[n])

HeldBy(L, n) ==
  \E k \in Keys : k[1] = n /\ L.observed[k].call # "none" /\ ~LeftoverIn(L, n, L.observed[k])

PassTyped(L) ==
  /\ L.machines \in [Nodes -> Machines] /\ L.current \in [Nodes -> BOOLEAN]
  /\ L.requests \subseteq Requests
  /\ L.pc \in PCs /\ L.ans \in {"none", "True", "False"}
  /\ L.view \in [Nodes -> Machines] /\ L.fresh \in [Nodes -> BOOLEAN]
  /\ L.observed \in [Keys -> Observations]
  /\ L.todo \subseteq Requests /\ L.asking \subseteq Requests /\ L.left \subseteq Nodes
  /\ L.pc # "idle" => L.read \in Reads /\ L.read.mode = "ExternalRemediationRequest"
  /\ L.pc = "idle" => L.todo = {} /\ L.asking = {} /\ L.observed = [k \in Keys |-> NoCall]
  /\ L.pc \in {"handle", "answer", "releaseAnswered", "reread"} => L.sig \in L.asking
  /\ L.pc = "answer" => L.ans # "none"

\* As Credited, by the node and not by what one operator has read of it.
Earned(n, m) ==
  /\ ~m.marked => m.action = "none" /\ m.boot = 0 /\ m.request = NoRequest
  /\ m.action = "Restart" =>
       /\ m.request \in Requests /\ NodeOf[m.request] = n /\ Want[m.request] = "Restart"
       /\ RaisedBy(m.request, m.boot)
  /\ m.boot <= node[n].boot

\* What the two share.
SharedInv ==
  /\ \A r \in Requests : request[r] # "unraised" => raisedAt[r] <= node[NodeOf[r]].boot
  /\ RestartedForReal
  /\ \A n \in Nodes : 1 <= node[n].boot /\ Earned(n, machine[n])

\* The caches a pass is fed from: the nodes keep up, the requests were raised,
\* and a Machine with the resource version is the Machine.
CachesEarned(L) ==
  /\ L.nodes = node
  /\ \A r \in L.requests : request[r] # "unraised"
  /\ "machines" \notin Lag => L.machines = machine
  /\ \A n \in Nodes : Earned(n, L.machines[n]) /\ (L.current[n] => L.machines[n] = machine[n])

\* A pass goes by boots its nodes have had and by requests raised before them;
\* its copies are earned, and those with the resource version are the Machines.
PassEarned(L) ==
  /\ L.pc # "idle" =>
       /\ \A n \in Nodes : 1 <= BootRead(L, n) /\ BootRead(L, n) <= node[n].boot
       /\ \A s \in L.todo \cup L.asking : RaisedBy(s, BootRead(L, NodeOf[s]))
  /\ L.pc = "answer" /\ L.ans = "True" => raisedAt[L.sig] < node[NodeOf[L.sig]].boot
  /\ \A n \in Nodes : Earned(n, L.view[n]) /\ (L.fresh[n] => L.view[n] = machine[n])

\* As ReleasesKnown, of pass L.
PassReleases(L) ==
  /\ L.pc = "answer" /\ L.ans = "True" =>
       Releasable(CopyInHand(L)) /\ RestartAnswers(CopyInHand(L), L.sig)
  /\ (L.pc = "answer" /\ L.ans = "True") \/ L.pc \in {"releaseAnswered", "reread"} =>
       L.observed[Key(L.sig)].call = "Restart"
  /\ L.pc \in {"releaseAnswered", "reread"} =>
       /\ request[L.sig] = "True"
       /\ L.answered.action = "Restart" /\ L.answered.request \in {NoRequest, L.sig}
  /\ L.pc = "releaseAnswered" => RestartMarkOf(CopyInHand(L)) = L.answered
  /\ L.pc = "release" =>
       L.todo = {} /\ \A n \in L.left : ~L.unreadable /\ Releasable(L.view[n]) /\ ~HeldBy(L, n)

CreditOf(L) == PassTyped(L) /\ CachesEarned(L) /\ PassEarned(L) /\ PassReleases(L)

CreditOverlap == TypeOK /\ SharedInv /\ CreditOf(Mine) /\ CreditOf(Theirs)

\* A pass that is done with a pending request, and has the current copy of the
\* Machine marked for it, has the Machine called for.
PassHolds(L) ==
  /\ \A k \in Keys : L.observed[k].call # "none" => \E s \in Signals : Key(s) = k /\ Want[s] # "Report"
  /\ \A r \in L.asking :
       /\ request[r] = "pending" /\ ~(L.pc = "handle" /\ L.sig = r) /\ L.fresh[NodeOf[r]]
       /\ machine[NodeOf[r]].exists /\ MarkFor(machine[NodeOf[r]], r)
       => CalledBy(L, NodeOf[r])

\* Every mark is earned by a boot after its request was raised, whichever leader
\* made it, and no leader is about to release the mark of a pending request that
\* its pass has found.
OverlapInv == CreditOverlap /\ PassHolds(Mine) /\ PassHolds(Theirs)

=============================================================================
