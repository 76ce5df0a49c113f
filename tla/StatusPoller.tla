---------------------------- MODULE StatusPoller ----------------------------
(***************************************************************************)
(* How the sveltos adapter learns that sveltos moved.  Nothing watches the *)
(* ClusterSummaries: a poller looks at their resourceVersions on every     *)
(* tick and emits the ServiceSets that need a reconcile on a channel of    *)
(* bounded capacity, from where they get into the controller's workqueue.  *)
(* A ServiceSet that is in flight is polled with an exponential back-off,  *)
(* one that is fully deployed only when its ClusterSummary moves.          *)
(*                                                                         *)
(* Time is counted in ticks.  good stands for "sveltos and the cluster     *)
(* would both be judged Deployed by a reconcile that looks now".           *)
(***************************************************************************)
EXTENDS Naturals, FiniteSets, Sequences, SequencesExt

CONSTANTS
    Sets,            \* keys of ServiceSets
    Buffer,          \* capacity of the runner's event channel
    MaxBackoff,      \* enqueueMaxBackoff in ticks (enqueueBaseBackoff is one)
    MaxChanges,      \* bound on the changes of a ClusterSummary
    MaxPollerFaults  \* bound on failed lookups and reconciles, restarts, deletions

ASSUME StatusPollerAssumption ==
    /\ Buffer \in Nat \ {0}
    /\ MaxBackoff \in Nat \ {0}
    /\ MaxChanges \in Nat
    /\ MaxPollerFaults \in Nat

VARIABLES
    present,   \* the ServiceSets that exist
    rv,        \* resourceVersion of the ClusterSummary, 0 when there is none
    good,      \* would a reconcile judge every service Deployed?
    deployed,  \* serviceset.FullyDeployed of the status
    entries,   \* enqueueStates
    out,       \* what the tick under way still has to emit
    channel,   \* eventC
    queue,     \* the controller's workqueue
    work,      \* reconciles under way: what they read
    pollerFaults

world      == <<present, rv, good>>
poller     == <<entries, out, channel>>
pollerVars == <<world, deployed, poller, queue, work, pollerFaults>>

EnqueueState == [lastSeenSummaryRV : 0 .. MaxChanges,
                 currentBackoff    : 0 .. MaxBackoff,
                 wait              : 0 .. MaxBackoff]  \* ticks to nextEligibleTime
NewState == [lastSeenSummaryRV |-> 0, currentBackoff |-> 0, wait |-> 0]

NoReconcile == [rv |-> 0, good |-> FALSE]

PollerFault == pollerFaults < MaxPollerFaults /\ pollerFaults' = pollerFaults + 1

-----------------------------------------------------------------------------
(* The tick *)

Doubled(n) == IF 2 * n > MaxBackoff THEN MaxBackoff ELSE 2 * n

(* evaluate: is s emitted by this tick, and the state it leaves.           *)
Changed(s) == entries[s].lastSeenSummaryRV # rv[s]

(* Mutant: only a change of the ClusterSummary is a reason to look again.  *)
NeverDue(s) == FALSE
Due(s)     == ~deployed[s] /\ entries[s].wait <= 1

(* Mutant: a set that is deployed is done for good.                        *)
EmittedInFlight(s) == ~deployed[s] /\ (Changed(s) \/ Due(s))
Emitted(s) == Changed(s) \/ Due(s)

Evaluate(s) ==
    IF Changed(s)
    THEN [lastSeenSummaryRV |-> rv[s], currentBackoff |-> 1, wait |-> 1]
    ELSE IF Due(s)
    THEN LET backoff == Doubled(entries[s].currentBackoff)
         IN  [entries[s] EXCEPT !.currentBackoff = backoff, !.wait = backoff]
    ELSE [entries[s] EXCEPT !.wait = IF @ > 0 THEN @ - 1 ELSE 0]

(* enqueueClusterSummary: sets without a ClusterSummary, or whose lookup   *)
(* fails, are passed over; the states of sets that are gone are dropped.   *)
(* The source empties the channel long before the next tick.               *)
Tick ==
    /\ out = {} /\ channel = <<>>
    /\ \E missed \in SUBSET present :
         LET found == {s \in present \ missed : rv[s] # 0}
         IN  /\ IF missed = {} THEN UNCHANGED pollerFaults ELSE PollerFault
             /\ out' = {s \in found : Emitted(s)}
             /\ entries' = [s \in Sets |->
                              IF s \in found THEN Evaluate(s)
                              ELSE IF s \in present
                              THEN [entries[s] EXCEPT !.wait = IF @ > 0 THEN @ - 1 ELSE 0]
                              ELSE NewState]
    /\ UNCHANGED <<world, deployed, channel, queue, work>>

(* The send that does not block: a full channel drops the event.           *)
Emit(s) ==
    /\ s \in out
    /\ out' = out \ {s}
    /\ channel' = IF Len(channel) < Buffer THEN Append(channel, s) ELSE channel
    /\ UNCHANGED <<world, deployed, entries, queue, work, pollerFaults>>

(* The source moves an event on to the workqueue, which holds a key once.  *)
Drain ==
    /\ channel # <<>>
    /\ queue' = queue \union {Head(channel)}
    /\ channel' = Tail(channel)
    /\ UNCHANGED <<world, deployed, entries, out, work, pollerFaults>>

-----------------------------------------------------------------------------
(* The reconcile: it looks at the ClusterSummary, later writes the status. *)
(* A key that is queued meanwhile waits until the reconcile is done.       *)

ReconcileRead(s) ==
    /\ s \in queue /\ work[s] = NoReconcile
    /\ queue' = queue \ {s}
    /\ work' = IF s \in present /\ rv[s] # 0
               THEN [work EXCEPT ![s] = [rv |-> rv[s], good |-> good[s]]]
               ELSE work
    /\ UNCHANGED <<world, deployed, poller, pollerFaults>>

(* The watch on ServiceSets queues the set when its status changed.        *)
ReconcileWrite(s) ==
    /\ work[s] # NoReconcile
    /\ work' = [work EXCEPT ![s] = NoReconcile]
    /\ deployed' = [deployed EXCEPT ![s] = IF s \in present THEN work[s].good ELSE @]
    /\ queue' = IF deployed' # deployed THEN queue \union {s} ELSE queue
    /\ UNCHANGED <<world, poller, pollerFaults>>

(* An error, a conflict for one, puts the key back.                        *)
ReconcileFail(s) ==
    /\ work[s] # NoReconcile
    /\ PollerFault
    /\ work' = [work EXCEPT ![s] = NoReconcile]
    /\ queue' = queue \union {s}
    /\ UNCHANGED <<world, deployed, poller>>

-----------------------------------------------------------------------------
(* What goes on around them *)

(* Sveltos writes the ClusterSummary; only then may a service stop being   *)
(* Deployed, or the health of pods that die is noticed by nobody.          *)
SveltosChange(s) ==
    /\ s \in present /\ rv[s] < MaxChanges
    /\ rv' = [rv EXCEPT ![s] = @ + 1]
    /\ \E g \in BOOLEAN : good' = [good EXCEPT ![s] = g]
    /\ UNCHANGED <<present, deployed, poller, queue, work, pollerFaults>>

PodsRecover(s) ==
    /\ s \in present /\ rv[s] # 0 /\ ~good[s]
    /\ good' = [good EXCEPT ![s] = TRUE]
    /\ UNCHANGED <<present, rv, deployed, poller, queue, work, pollerFaults>>

(* A ServiceSet that is deleted, and one of the same name created again.   *)
(* The ClusterSummary goes with the one; another version of it comes with  *)
(* the other.                                                              *)
Delete(s) ==
    /\ s \in present /\ work[s] = NoReconcile
    /\ PollerFault
    /\ present' = present \ {s}
    /\ UNCHANGED <<rv, good, deployed, poller, queue, work>>

Create(s) ==
    /\ s \notin present /\ rv[s] < MaxChanges
    /\ present' = present \union {s}
    /\ rv' = [rv EXCEPT ![s] = @ + 1]
    /\ good' = [good EXCEPT ![s] = FALSE]
    /\ deployed' = [deployed EXCEPT ![s] = FALSE]
    /\ queue' = queue \union {s}
    /\ UNCHANGED <<poller, work, pollerFaults>>

(* A new process has no states; its informer lists every ServiceSet.       *)
Restart ==
    /\ PollerFault
    /\ entries' = [s \in Sets |-> NewState]
    /\ out' = {} /\ channel' = <<>>
    /\ work' = [s \in Sets |-> NoReconcile]
    /\ queue' = present
    /\ UNCHANGED <<world, deployed>>

-----------------------------------------------------------------------------
(* Specification *)

PollerInit ==
    /\ present = Sets
    /\ rv = [s \in Sets |-> 0]
    /\ good = [s \in Sets |-> FALSE]
    /\ deployed = [s \in Sets |-> FALSE]
    /\ entries = [s \in Sets |-> NewState]
    /\ out = {}
    /\ channel = <<>>
    /\ queue = Sets
    /\ work = [s \in Sets |-> NoReconcile]
    /\ pollerFaults = 0

PollerNext ==
    \/ Tick \/ Drain \/ Restart
    \/ \E s \in Sets :
         \/ Emit(s)
         \/ ReconcileRead(s) \/ ReconcileWrite(s) \/ ReconcileFail(s)
         \/ SveltosChange(s) \/ PodsRecover(s)
         \/ Delete(s) \/ Create(s)

(* Time passes, the runner and the source run, the workers take what is    *)
(* queued.                                                                 *)
PollerFairness ==
    /\ WF_pollerVars(Tick) /\ WF_pollerVars(Drain)
    /\ \A s \in Sets : /\ WF_pollerVars(Emit(s))
                       /\ WF_pollerVars(ReconcileRead(s))
                       /\ WF_pollerVars(ReconcileWrite(s))

PollerSpec == PollerInit /\ [][PollerNext]_pollerVars
PollerFairSpec == PollerSpec /\ PollerFairness

-----------------------------------------------------------------------------
(* Properties *)

(* Every variable stays in its type.                                       *)
PollerTypeOK ==
    /\ present \subseteq Sets
    /\ rv \in [Sets -> 0 .. MaxChanges]
    /\ good \in [Sets -> BOOLEAN]
    /\ deployed \in [Sets -> BOOLEAN]
    /\ entries \in [Sets -> EnqueueState]
    /\ out \subseteq Sets
    /\ channel \in Seq(Sets) /\ Len(channel) <= Buffer
    /\ queue \subseteq Sets
    /\ work \in [Sets -> [rv : 0 .. MaxChanges, good : BOOLEAN]]
    /\ pollerFaults \in 0 .. MaxPollerFaults

(* Something is going to bring s to a reconcile that sees it as it is now. *)
OnItsWay(s) ==
    \/ Changed(s)
    \/ s \in out \/ s \in ToSet(channel) \/ s \in queue
    \/ work[s].rv = rv[s]

(* "We unquiesce automatically when sveltos next bumps CS RV": a set that  *)
(* is reported as fully deployed and is not is never at rest, whatever     *)
(* races, failures, restarts and deletions went before.                    *)
StaleSuccessIsNoticed ==
    \A s \in present : (deployed[s] /\ ~good[s]) => OnItsWay(s)

(* The poller's entries, the bounded channel and the workqueue together    *)
(* lose no set.                                                            *)
PollerInv == PollerTypeOK /\ StaleSuccessIsNoticed

(* The back-off never silences a set in flight, and its status catches up  *)
(* with the cluster once that comes to rest.                               *)
StatusCatchesUp == \A s \in Sets : <>[](s \in present => deployed[s] = good[s])
=============================================================================
