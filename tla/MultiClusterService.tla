------------------------ MODULE MultiClusterService ------------------------
(***************************************************************************)
(* The MultiClusterService controller: one ServiceSet for each matching    *)
(* ClusterDeployment, and one for the management cluster when the object   *)
(* asks for it, created and updated in the order of spec.dependsOn.        *)
(*                                                                         *)
(* Passes for different objects run at the same time, each a sequence of   *)
(* API calls; users, the ClusterDeployment controller and the adapter that *)
(* deploys the ServiceSets move between two calls.  Every pass is followed *)
(* by another one, after ten seconds or at an error, so that no event has  *)
(* to be modelled.                                                         *)
(***************************************************************************)
EXTENDS Integers, FiniteSets

CONSTANTS
    MCS,         \* names of MultiClusterServices
    Cluster,     \* names of ClusterDeployments
    Label,       \* labels of ClusterDeployments, each has one
    Shapes,      \* the specs the objects are created with, functions on MCS
    MaxVersion,  \* bound on the versions asked for
    Labels,      \* the labels the ClusterDeployments are created with
    MaxChanges,  \* bound on upgrades, edits, deletions and faults together
    MaxFaults,   \* bound on all of them but the upgrades
    Mgmt         \* the management cluster, a target of its own

Target  == Cluster \union {Mgmt}
Version == 1 .. MaxVersion

(* MultiClusterServiceSpec, the services reduced to one version; ok says   *)
(* that the templates it names are valid.                                  *)
NoSelector == "none"
Specs == [version : Version, deps : SUBSET MCS, sel : Label \union {NoSelector},
          self : BOOLEAN, keep : BOOLEAN, ok : BOOLEAN]
NoSpec  == [version |-> 0]
NoSpecs == [d \in MCS |-> NoSpec]

ASSUME MCSAssumption ==
    /\ Shapes \subseteq [MCS -> Specs]
    /\ Labels \subseteq [Cluster -> Label]
    /\ Mgmt \notin Cluster
    /\ NoSelector \notin Label
    /\ IsFiniteSet(Cluster)
    /\ MaxVersion \in Nat /\ MaxChanges \in Nat /\ MaxFaults \in Nat

VARIABLES
    spec, phase, fin,  \* the objects: spec, live, deleting or gone, finalizer
    stat,              \* their stored status
    cd, label,         \* ClusterDeployments
    set,               \* version in the spec of a ServiceSet, 0 when absent
    rep,               \* version its status reports as deployed, 0 for none
    del,               \* is it being deleted?
    pc, snap, fresh,   \* a pass: next call, what it read, is that current?
    plan,              \* resolveDependencies
    view,              \* labels of the ClusterDeployments that were listed
    todo, aim,         \* targets left, the one to be written
    blocked,           \* targets found waiting
    failed,            \* did a check of the dependencies fail?
    landed,            \* history: <<object, target, version>> ever reported
    upgrades, faults

objects  == <<spec, phase, fin, stat>>
clusters == <<cd, label>>
sets     == <<set, rep, del, landed>>
reading  == <<snap, fresh, plan, view>>
pass     == <<pc, reading, todo, aim, blocked, failed>>
bounds   == <<upgrades, faults>>
vars     == <<objects, clusters, sets, pass, bounds>>

Entries == {"none", "waiting", "deployed", "blocked"}
Status  == [ready : BOOLEAN, dep : {"True", "False", "Unknown"},
            entries : [Target -> Entries]]
Steps   == {"idle", "validate", "cleanup", "resolve", "check", "write", "list",
            "status", "validateDelete", "deleteSets", "finalizer"}

Exists(m)   == phase[m] # "gone"
Placed(m)   == {t \in Target : set[<<m, t>>] # 0}
To(m, step) == pc' = [pc EXCEPT ![m] = step]

(* The labels of the ClusterDeployments that are not being deleted.        *)
Unlisted == [t \in Target |-> NoSelector]
Listed   == [t \in Target |-> IF t \in Cluster /\ cd[t] = "live" THEN label[t]
                              ELSE NoSelector]

(* A call fails, a service breaks, or somebody changes something.         *)
Disturb == faults < MaxFaults /\ upgrades + faults < MaxChanges /\ faults' = faults + 1

(* The pass is over, and what it read is forgotten.                        *)
Done(m) ==
    /\ To(m, "idle")
    /\ snap' = [snap EXCEPT ![m] = NoSpec]
    /\ plan' = [plan EXCEPT ![m] = NoSpecs]
    /\ fresh' = [fresh EXCEPT ![m] = FALSE]
    /\ todo' = [todo EXCEPT ![m] = {}]
    /\ aim' = [aim EXCEPT ![m] = Mgmt]
    /\ blocked' = [blocked EXCEPT ![m] = {}]
    /\ failed' = [failed EXCEPT ![m] = FALSE]
    /\ view' = [view EXCEPT ![m] = Unlisted]

(* updateStatus: refused when the object has changed since it was read.    *)
UpdateStatus(m, s) == stat' = IF fresh[m] THEN [stat EXCEPT ![m] = s] ELSE stat

Init ==
    /\ spec \in Shapes
    /\ phase = [m \in MCS |-> "live"]
    /\ fin = [m \in MCS |-> FALSE]
    /\ stat = [m \in MCS |-> [ready |-> FALSE, dep |-> "Unknown",
                              entries |-> [t \in Target |-> "none"]]]
    /\ cd = [c \in Cluster |-> "live"]
    /\ label \in Labels
    /\ set = [x \in MCS \X Target |-> 0]
    /\ rep = [x \in MCS \X Target |-> 0]
    /\ del = [x \in MCS \X Target |-> FALSE]
    /\ pc = [m \in MCS |-> "idle"]
    /\ snap = [m \in MCS |-> NoSpec]
    /\ fresh = [m \in MCS |-> FALSE]
    /\ plan = [m \in MCS |-> NoSpecs]
    /\ view = [m \in MCS |-> Unlisted]
    /\ todo = [m \in MCS |-> {}]
    /\ aim = [m \in MCS |-> Mgmt]
    /\ blocked = [m \in MCS |-> {}]
    /\ failed = [m \in MCS |-> FALSE]
    /\ landed = {}
    /\ upgrades = 0
    /\ faults = 0

-----------------------------------------------------------------------------
(* The pass that creates and updates *)

(* Reconcile reads the object and AddFinalizer puts the finalizer on it.   *)
Reconcile(m) ==
    /\ pc[m] = "idle" /\ Exists(m)
    /\ snap' = [snap EXCEPT ![m] = spec[m]]
    /\ fresh' = [fresh EXCEPT ![m] = TRUE]
    /\ plan' = [plan EXCEPT ![m] = NoSpecs]
    /\ \/ phase[m] = "deleting" /\ To(m, "validateDelete") /\ UNCHANGED fin
       \/ phase[m] = "live" /\ To(m, "validate") /\ fin' = [fin EXCEPT ![m] = TRUE]
    /\ UNCHANGED <<spec, phase, stat, clusters, sets, view, todo, aim, blocked, failed, bounds>>

(* A call of the pass fails and the pass with it.                          *)
PassFails(m) ==
    /\ pc[m] \in {"validate", "cleanup", "list", "status", "deleteSets"}
    /\ Disturb
    /\ Done(m)
    /\ UNCHANGED <<objects, clusters, sets, upgrades>>

(* generateMCSDependencyGraph: the object itself as it was read.           *)
Graph(m) == [n \in MCS |-> IF n = m THEN snap[m].deps
                           ELSE IF Exists(n) THEN spec[n].deps ELSE {}]

(* hasCycleFrom: the graph can be walked from m without an end.            *)
HasCycleFrom(m, g) ==
    \E w \in SUBSET MCS : m \in w /\ \A n \in w : g[n] \cap w # {}

(* ServicesHaveValidTemplates, ValidateMCSDependencyOverall                *)
Valid(m) ==
    /\ snap[m].ok
    /\ \A d \in snap[m].deps : Exists(d)
    /\ ~HasCycleFrom(m, Graph(m))

Validate(m) ==
    /\ pc[m] = "validate"
    /\ \/ /\ Valid(m)
          /\ todo' = [todo EXCEPT ![m] = IF snap[m].keep THEN {}
                                         ELSE {t \in Placed(m) : ~del[<<m, t>>]}]
          /\ To(m, IF todo'[m] = {} THEN "resolve" ELSE "cleanup")
          /\ UNCHANGED <<reading, aim, blocked, failed>>
       \/ /\ ~Valid(m)
          /\ Done(m)
    /\ UNCHANGED <<objects, clusters, sets, bounds>>

(* Does a selector match a target whose label is l?  An empty selector     *)
(* matches no ClusterDeployment.                                           *)
Matches(s, l) == s.sel # NoSelector /\ s.sel = l

ClusterMissing(m, t) == t \in Cluster /\ snap[m].sel # NoSelector /\ cd[t] = "gone"

(* Mutant: a selector or selfManagement that was removed deletes nothing.  *)
KeepOnEmpty(m, t) ==
    /\ pc[m] = "cleanup" /\ t \in todo[m]
    /\ ~ClusterMissing(m, t)
    /\ del' = IF set[<<m, t>>] # 0 /\ t # Mgmt /\ snap[m].sel \notin {NoSelector, label[t]}
              THEN [del EXCEPT ![<<m, t>>] = TRUE] ELSE del
    /\ todo' = [todo EXCEPT ![m] = @ \ {t}]
    /\ To(m, IF todo[m] = {t} THEN "resolve" ELSE "cleanup")
    /\ UNCHANGED <<objects, clusters, set, rep, landed, reading, aim, blocked, failed, bounds>>

(* cleanupServiceSets, for one ServiceSet of the list: delete it when its  *)
(* target does not match any more.                                         *)
CleanupServiceSet(m, t) ==
    /\ pc[m] = "cleanup" /\ t \in todo[m]
    /\ ~ClusterMissing(m, t)
    /\ del' = IF /\ set[<<m, t>>] # 0
                 /\ IF t = Mgmt THEN ~snap[m].self ELSE ~Matches(snap[m], label[t])
              THEN [del EXCEPT ![<<m, t>>] = TRUE] ELSE del
    /\ todo' = [todo EXCEPT ![m] = @ \ {t}]
    /\ To(m, IF todo[m] = {t} THEN "resolve" ELSE "cleanup")
    /\ UNCHANGED <<objects, clusters, set, rep, landed, reading, aim, blocked, failed, bounds>>

(* Its ClusterDeployment is not there: the pass fails.                     *)
CleanupFails(m, t) ==
    /\ pc[m] = "cleanup" /\ t \in todo[m]
    /\ ClusterMissing(m, t)
    /\ Done(m)
    /\ UNCHANGED <<objects, clusters, sets, bounds>>

(* resolveDependencies: one read of each for all targets.                  *)
ResolveDependencies(m) ==
    /\ pc[m] = "resolve"
    /\ plan' = [plan EXCEPT ![m] = [d \in MCS |->
                   IF d \in snap[m].deps /\ Exists(d) THEN spec[d] ELSE NoSpec]]
    /\ To(m, IF snap[m].self THEN "check" ELSE "list")
    /\ todo' = [todo EXCEPT ![m] = IF snap[m].self THEN {Mgmt} ELSE {}]
    /\ UNCHANGED <<objects, clusters, sets, snap, fresh, view, aim, blocked, failed, bounds>>

(* Does the dependency target t?  The management cluster by its flag, a    *)
(* ClusterDeployment by the labels it was listed with.                     *)
Targets(d, l, t) == IF t = Mgmt THEN d.self ELSE Matches(d, l)

(* deployedAtDesiredVersion, on the ServiceSet as it is now: nothing in    *)
(* flight between status and spec, nor between spec and what is wanted.    *)
AtDesiredVersion(d, t, want) ==
    set[<<d, t>>] # 0 /\ rep[<<d, t>>] = set[<<d, t>>] /\ set[<<d, t>>] = want

(* After the management cluster the ClusterDeployments are listed, after   *)
(* the last of them the status is made.                                    *)
Checked(m, t) ==
    /\ todo' = [todo EXCEPT ![m] = @ \ {t}]
    /\ To(m, IF t = Mgmt THEN "list"
             ELSE IF todo[m] = {t} THEN "status" ELSE "check")

Unread(m)     == {d \in snap[m].deps : plan[m][d] = NoSpec}
Relevant(m, t) == {d \in snap[m].deps \ Unread(m) : Targets(plan[m][d], view[m][t], t)}

(* Mutant: a dependency deployed at any version will do.                   *)
IgnoreVersions(m, t) == {d \in Relevant(m, t) : set[<<d, t>>] = 0 \/ rep[<<d, t>>] = 0}

(* The dependencies that have not finished on the target.                  *)
Behind(m, t) == {d \in Relevant(m, t) : ~AtDesiredVersion(d, t, plan[m][d].version)}

(* okToReconcileServiceSet: the target is written when nothing it depends  *)
(* on is behind there, waits when something is, and is left alone when one *)
(* of the reads failed; lost are the dependencies whose ServiceSet or      *)
(* templates could not be read.                                            *)
OkToReconcileServiceSet(m, t, lost) ==
    /\ pc[m] = "check" /\ t \in todo[m]
    /\ LET waits == Behind(m, t) \ lost # {}
           error == Unread(m) \union lost # {}
       IN  /\ blocked' = [blocked EXCEPT ![m] = IF waits THEN @ \union {t} ELSE @]
           /\ failed' = [failed EXCEPT ![m] = @ \/ error]
           /\ IF waits \/ error
              THEN Checked(m, t)
              ELSE To(m, "write") /\ UNCHANGED todo
           /\ aim' = [aim EXCEPT ![m] = IF waits \/ error THEN @ ELSE t]
    /\ UNCHANGED <<objects, clusters, sets, reading, upgrades>>

Check(m, t) == OkToReconcileServiceSet(m, t, {}) /\ UNCHANGED faults
CheckFails(m, t) ==
    /\ pc[m] = "check" /\ Disturb
    /\ \E d \in Relevant(m, t) : OkToReconcileServiceSet(m, t, {d})

(* createOrUpdateServiceSet: the ServiceSet is read and written, and a     *)
(* conflict is left to the next pass.  It may be one that is being         *)
(* deleted, and the ClusterDeployment may have gone since it was listed.   *)
CreateOrUpdateServiceSet(m) ==
    /\ pc[m] = "write"
    /\ set' = [set EXCEPT ![<<m, aim[m]>>] = snap[m].version]
    /\ Checked(m, aim[m])
    /\ aim' = [aim EXCEPT ![m] = Mgmt]
    /\ UNCHANGED <<objects, clusters, rep, del, landed, reading, blocked, failed, bounds>>

WriteFails(m) ==
    /\ pc[m] = "write"
    /\ Disturb
    /\ Checked(m, aim[m])
    /\ aim' = [aim EXCEPT ![m] = Mgmt]
    /\ UNCHANGED <<objects, clusters, sets, reading, blocked, failed, upgrades>>

ListClusters(m) ==
    /\ pc[m] = "list"
    /\ view' = [view EXCEPT ![m] = Listed]
    /\ todo' = [todo EXCEPT ![m] = {c \in Cluster : Matches(snap[m], Listed[c])}]
    /\ To(m, IF todo'[m] = {} THEN "status" ELSE "check")
    /\ UNCHANGED <<objects, clusters, sets, snap, fresh, plan, aim, blocked, failed, bounds>>

(* The targets this pass has found.                                        *)
Matching(m) == {c \in Cluster : Matches(snap[m], view[m][c])}
               \union (IF snap[m].self THEN {Mgmt} ELSE {})

(* setClustersCondition: the targets that count as ready, whatever version *)
(* their ServiceSet reports.                                               *)
ReadyDeployments(m) ==
    {t \in Matching(m) \ blocked[m] : set[<<m, t>>] # 0 /\ ~del[<<m, t>>] /\ rep[<<m, t>>] # 0}

(* setMatchingClusters: a target that waits is an entry without a          *)
(* ServiceSet, and overrides what its ServiceSet says.                     *)
MatchingClusters(m) ==
    [t \in Target |->
       IF t \in blocked[m] THEN "blocked"
       ELSE IF t \notin Matching(m) \/ set[<<m, t>>] = 0 \/ del[<<m, t>>] THEN "none"
       ELSE IF rep[<<m, t>>] = 0 THEN "waiting" ELSE "deployed"]

SetConditions(m) ==
    /\ pc[m] = "status"
    /\ UpdateStatus(m,
          [ready   |-> Cardinality(ReadyDeployments(m)) >= Cardinality(Matching(m)),
           dep     |-> IF failed[m] THEN "Unknown"
                       ELSE IF blocked[m] # {} THEN "False" ELSE "True",
           entries |-> MatchingClusters(m)])
    /\ Done(m)
    /\ UNCHANGED <<spec, phase, fin, clusters, sets, bounds>>

-----------------------------------------------------------------------------
(* The pass that deletes *)

Dependents(m) == {n \in MCS : Exists(n) /\ m \in spec[n].deps}

(* ValidateMCSDelete *)
ValidateDelete(m) ==
    /\ pc[m] = "validateDelete"
    /\ \/ /\ Dependents(m) = {}
          /\ To(m, "deleteSets")
          /\ UNCHANGED <<reading, todo, aim, blocked, failed>>
       \/ /\ Dependents(m) # {}
          /\ Done(m)
    /\ UNCHANGED <<objects, clusters, sets, bounds>>

(* Mutant: the finalizer goes with the request to delete the ServiceSets.  *)
DeleteAndForget(m) ==
    /\ pc[m] = "deleteSets"
    /\ del' = [x \in MCS \X Target |-> del[x] \/ (x[1] = m /\ set[x] # 0)]
    /\ To(m, "finalizer")
    /\ UNCHANGED <<objects, clusters, set, rep, landed, reading, todo, aim, blocked, failed, bounds>>

(* reconcileDelete: the ServiceSets are deleted, and as long as there are  *)
(* any the finalizer stays.  A Delete that fails is only logged.           *)
DeleteServiceSets(m) ==
    /\ pc[m] = "deleteSets"
    /\ \E lost \in {{}} \union {{t} : t \in Placed(m)} :
          /\ IF lost = {} THEN UNCHANGED faults ELSE Disturb
          /\ del' = [x \in MCS \X Target |->
                        del[x] \/ (x[1] = m /\ set[x] # 0 /\ x[2] \notin lost)]
    /\ \/ Placed(m) # {} /\ Done(m)
       \/ /\ Placed(m) = {} /\ To(m, "finalizer")
          /\ UNCHANGED <<reading, todo, aim, blocked, failed>>
    /\ UNCHANGED <<objects, clusters, set, rep, landed, upgrades>>

(* RemoveFinalizer: refused when the object has changed since it was read. *)
RemoveFinalizer(m) ==
    /\ pc[m] = "finalizer"
    /\ fin' = IF fresh[m] THEN [fin EXCEPT ![m] = FALSE] ELSE fin
    /\ phase' = IF fresh[m] THEN [phase EXCEPT ![m] = "gone"] ELSE phase
    /\ Done(m)
    /\ UNCHANGED <<spec, stat, clusters, sets, bounds>>

-----------------------------------------------------------------------------
(* Users *)

Touch(m) == fresh' = [fresh EXCEPT ![m] = FALSE]

EditSpec(m, s) ==
    /\ phase[m] = "live"
    /\ spec' = [spec EXCEPT ![m] = s]
    /\ Touch(m)
    /\ UNCHANGED <<phase, fin, stat, clusters, sets, pc, snap, plan, view, todo, aim,
                   blocked, failed>>

Upgrade(m) ==
    /\ spec[m].version < MaxVersion /\ UNCHANGED faults
    /\ upgrades + faults < MaxChanges /\ upgrades' = upgrades + 1
    /\ EditSpec(m, [spec[m] EXCEPT !.version = @ + 1])

(* Other clusters are selected, a dependency is added or dropped, a        *)
(* template becomes valid or invalid.                                      *)
UserEdit(m) ==
    /\ Disturb
    /\ \/ \E l \in Label \union {NoSelector} :
             l # spec[m].sel /\ EditSpec(m, [spec[m] EXCEPT !.sel = l])
       \/ \E d \in MCS : EditSpec(m, [spec[m] EXCEPT !.deps =
                               IF d \in @ THEN @ \ {d} ELSE @ \union {d}])
       \/ EditSpec(m, [spec[m] EXCEPT !.self = ~@])
       \/ EditSpec(m, [spec[m] EXCEPT !.ok = ~@])
    /\ UNCHANGED upgrades

UserDelete(m) ==
    /\ Disturb /\ phase[m] = "live"
    /\ phase' = [phase EXCEPT ![m] = IF fin[m] THEN "deleting" ELSE "gone"]
    /\ Touch(m)
    /\ UNCHANGED <<spec, fin, stat, clusters, sets, pc, snap, plan, view, todo, aim,
                   blocked, failed, upgrades>>

Relabel(c) ==
    /\ Disturb /\ cd[c] = "live"
    /\ \E l \in Label : l # label[c] /\ label' = [label EXCEPT ![c] = l]
    /\ UNCHANGED <<objects, cd, sets, pass, upgrades>>

-----------------------------------------------------------------------------
(* The ClusterDeployment controller, the garbage collector, the adapter *)

ClusterDelete(c) ==
    /\ Disturb /\ cd[c] = "live"
    /\ cd' = [cd EXCEPT ![c] = "deleting"]
    /\ UNCHANGED <<objects, label, sets, pass, upgrades>>

(* deleteServiceSets of the ClusterDeployment controller, and of the       *)
(* garbage collector when the owner is gone already.                       *)
ClusterDeleteServiceSets(c) ==
    /\ cd[c] # "live"
    /\ \E m \in MCS : set[<<m, c>>] # 0 /\ ~del[<<m, c>>]
    /\ del' = [x \in MCS \X Target |-> del[x] \/ (x[2] = c /\ set[x] # 0)]
    /\ UNCHANGED <<objects, clusters, set, rep, landed, pass, bounds>>

ClusterGone(c) ==
    /\ cd[c] = "deleting" /\ \A m \in MCS : set[<<m, c>>] = 0
    /\ cd' = [cd EXCEPT ![c] = "gone"]
    /\ UNCHANGED <<objects, label, sets, pass, bounds>>

AdapterDeploys(m, t) ==
    /\ set[<<m, t>>] # 0 /\ ~del[<<m, t>>] /\ rep[<<m, t>>] # set[<<m, t>>]
    /\ rep' = [rep EXCEPT ![<<m, t>>] = set[<<m, t>>]]
    /\ landed' = landed \union {<<m, t, set[<<m, t>>]>>}
    /\ UNCHANGED <<objects, clusters, set, del, pass, bounds>>

AdapterLoses(m, t) ==
    /\ rep[<<m, t>>] # 0 /\ Disturb
    /\ rep' = [rep EXCEPT ![<<m, t>>] = 0]
    /\ UNCHANGED <<objects, clusters, set, del, landed, pass, upgrades>>

AdapterUndeploys(m, t) ==
    /\ del[<<m, t>>]
    /\ set' = [set EXCEPT ![<<m, t>>] = 0]
    /\ rep' = [rep EXCEPT ![<<m, t>>] = 0]
    /\ del' = [del EXCEPT ![<<m, t>>] = FALSE]
    /\ UNCHANGED <<objects, clusters, landed, pass, bounds>>

-----------------------------------------------------------------------------
Step(m) ==
    \/ Reconcile(m) \/ Validate(m) \/ ResolveDependencies(m)
    \/ CreateOrUpdateServiceSet(m) \/ ListClusters(m) \/ SetConditions(m)
    \/ ValidateDelete(m) \/ DeleteServiceSets(m) \/ RemoveFinalizer(m)
    \/ \E t \in Target : CleanupServiceSet(m, t) \/ CleanupFails(m, t) \/ Check(m, t)

Next ==
    \/ \E m \in MCS : Step(m) \/ PassFails(m) \/ WriteFails(m) \/ Upgrade(m)
                      \/ UserEdit(m) \/ UserDelete(m)
    \/ \E m \in MCS, t \in Target : CheckFails(m, t) \/ AdapterDeploys(m, t)
                                  \/ AdapterLoses(m, t) \/ AdapterUndeploys(m, t)
    \/ \E c \in Cluster : Relabel(c) \/ ClusterDelete(c) \/ ClusterDeleteServiceSets(c)
                         \/ ClusterGone(c)

Spec == Init /\ [][Next]_vars

(* A pass that has started goes on, another one follows, and the other     *)
(* controllers do their part.                                              *)
FairSpec ==
    /\ Spec
    /\ \A m \in MCS : WF_vars(Step(m))
    /\ WF_vars(\E m \in MCS, t \in Target : AdapterDeploys(m, t) \/ AdapterUndeploys(m, t))
    /\ WF_vars(\E c \in Cluster : ClusterDeleteServiceSets(c) \/ ClusterGone(c))

-----------------------------------------------------------------------------
(* Properties *)

TypeOK ==
    /\ spec \in [MCS -> Specs]
    /\ phase \in [MCS -> {"live", "deleting", "gone"}]
    /\ fin \in [MCS -> BOOLEAN]
    /\ stat \in [MCS -> Status]
    /\ cd \in [Cluster -> {"live", "deleting", "gone"}]
    /\ label \in [Cluster -> Label]
    /\ set \in [MCS \X Target -> 0 .. MaxVersion]
    /\ rep \in [MCS \X Target -> 0 .. MaxVersion]
    /\ del \in [MCS \X Target -> BOOLEAN]
    /\ pc \in [MCS -> Steps]
    /\ snap \in [MCS -> Specs \union {NoSpec}]
    /\ fresh \in [MCS -> BOOLEAN]
    /\ plan \in [MCS -> [MCS -> Specs \union {NoSpec}]]
    /\ view \in [MCS -> [Target -> Label \union {NoSelector}]]
    /\ todo \in [MCS -> SUBSET Target]
    /\ aim \in [MCS -> Target]
    /\ blocked \in [MCS -> SUBSET Target]
    /\ failed \in [MCS -> BOOLEAN]
    /\ landed \subseteq MCS \X Target \X Version
    /\ upgrades \in 0 .. MaxChanges
    /\ faults \in 0 .. MaxFaults

(* What spec.dependsOn promises: okToReconcileServiceSet looks at the      *)
(* dependencies before the ServiceSet is written, and they may break, be   *)
(* edited or be withdrawn in between; still nothing is written that did    *)
(* not find them landed at the version wanted after the spec was read.     *)
Rollout == INSTANCE OrderedRollout WITH
    Item   <- MCS, Wish <- Specs, NoWish <- NoSpec, Aimed <- Targets,
    wish   <- [m \in MCS |-> IF Exists(m) THEN spec[m] ELSE NoSpec],
    know   <- Listed, goal <- snap, out <- set
InOrder == Rollout!Spec

(* reconcileDelete removes the finalizer last: an object that is gone      *)
(* leaves no ServiceSet, also when a pass was writing one while it was     *)
(* deleted.                                                                *)
NoSetOutlivesIt == \A m \in MCS : ~Exists(m) => Placed(m) = {}

(* The condition with the count of ready clusters and the list of matching *)
(* clusters, made by two functions of the same pass, agree; a ServiceSet   *)
(* left over from before a dependency broke is in neither.                 *)
StatusAgrees ==
    \A m \in MCS : stat[m].ready =>
        /\ \A t \in Target : stat[m].entries[t] \in {"none", "deployed"}
        /\ stat[m].dep # "False"

(* Every pass leaves the ServiceSets and the status it wrote about them    *)
(* consistent, whatever the passes of the other objects do.                *)
FanoutInv == TypeOK /\ NoSetOutlivesIt /\ StatusAgrees

(* Nothing m depends on, directly or not, is invalid, deleted or cyclic.   *)
Sound(m) ==
    /\ \E w \in SUBSET MCS :
          m \in w /\ \A n \in w : phase[n] = "live" /\ spec[n].ok /\ spec[n].deps \subseteq w
    /\ ~HasCycleFrom(m, [n \in MCS |-> spec[n].deps])

Wanted(m) == {t \in Target : Targets(spec[m], Listed[t], t)}

(* When the users are done, every sound object is deployed at its version  *)
(* to exactly the targets it matches, whatever has been changed, withdrawn *)
(* or failed before, and says so.  A deletion has ended, unless other      *)
(* objects depend on this one; objects that depend on each other keep each *)
(* other for ever.                                                         *)
Converges ==
    <>[](\A m \in MCS :
           /\ phase[m] = "deleting" => Dependents(m) # {}
           /\ Sound(m) =>
                /\ \A t \in Wanted(m) : rep[<<m, t>>] = spec[m].version /\ ~del[<<m, t>>]
                /\ spec[m].keep \/ Placed(m) \subseteq Wanted(m)
                /\ stat[m].ready /\ stat[m].dep = "True")
=============================================================================
