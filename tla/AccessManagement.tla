-------------------------- MODULE AccessManagement --------------------------
(***************************************************************************)
(* How the AccessManagement controller distributes objects of the system   *)
(* namespace to other namespaces, and takes back the copies that no rule   *)
(* asks for any more.                                                      *)
(*                                                                         *)
(* A reconcile takes one Kind after the other: it lists the sources and    *)
(* the managed copies, plans, and then makes one call per copy.  Others    *)
(* write between its calls.  Which Kinds it has to look at is the          *)
(* union of what the rules reference and of status.resources, which is     *)
(* written at the very end.  Kinds, and the copies of a Kind, do not       *)
(* influence each other: their order in the loops is left open.            *)
(***************************************************************************)
EXTENDS Naturals, FiniteSets

CONSTANTS
    Kinds,       \* GroupKinds that can be distributed
    Builtin,     \* the Kinds the manager's own ClusterRole covers
    Names,       \* names of source objects
    SystemNamespace,
    Namespaces,  \* the other namespaces
    RuleSets,    \* what a user may write to spec.accessRules
    MaxEdits,    \* bound on what users and other controllers do
    MaxFaults    \* bound on crashes and failed calls

(* One resource of a rule.  all: spec.names is omitted, and a selector is  *)
(* used; the one here matches everything.  The same for an empty ns.       *)
Rule == [kind  : Kinds,
         all   : BOOLEAN,
         names : SUBSET Names,
         ns    : SUBSET (Namespaces \union {SystemNamespace})]

ASSUME AccessManagementAssumption ==
    /\ SystemNamespace \notin Namespaces
    /\ Builtin \subseteq Kinds
    /\ RuleSets \subseteq SUBSET Rule
    /\ MaxEdits \in Nat
    /\ MaxFaults \in Nat

VARIABLES
    am,      \* the AccessManagement: uid, rules, and the Kinds of status.resources
    role,    \* the Kinds in the ClusterRole the controller maintains for itself
    source,  \* the objects in the system namespace
    nss,     \* the namespaces that exist
    obj,     \* the objects in them, by Kind and place
    rec,     \* the running reconcile
    edits, faults,
    unrecorded  \* history: Kinds of reconciles whose status was not stored

env  == <<source, nss>>
vars == <<am, role, env, obj, rec, edits, faults, unrecorded>>

Uids  == Nat \ {0}
Place == Namespaces \X Names

(* am is the uid of the AccessManagement an owner reference names, or 0;   *)
(* other stands for owner references to anything else.                     *)
Object   == [there : BOOLEAN, managed : BOOLEAN, am : {0} \union Uids, other : BOOLEAN]
NoObject == [there |-> FALSE, managed |-> FALSE, am |-> 0, other |-> FALSE]

(* An object with its owner reference replaced.                            *)
OwnedBy(o, uid) == [there |-> o.there, managed |-> o.managed, am |-> uid, other |-> o.other]

AccessMgmt == [uid : Uids, rules : RuleSets, tracked : SUBSET Kinds]

(* A source that is not ready cannot be copied yet: a ClusterTemplate      *)
(* needs the chart reference of its status.                                *)
SourceStates == {"none", "pending", "ready"}

Idle == [pc |-> "idle"]

(* A reconcile between two Kinds: the AccessManagement and the namespaces  *)
(* read at its start, the Kinds left, the ones with an error.              *)
Visiting == [pc : {"kinds"}, am : AccessMgmt, existing : SUBSET (Namespaces \union {SystemNamespace}),
             todo : SUBSET Kinds, failed : SUBSET Kinds]

(* And at work on one: the listing, and the plan as far as it is left.     *)
Copying  == [pc : {"copies"}, am : AccessMgmt, existing : SUBSET (Namespaces \union {SystemNamespace}),
             todo : SUBSET Kinds, failed : SUBSET Kinds,
             kind : Kinds, src : [Names -> SourceStates], listed : [Place -> Object],
             settle : SUBSET Place, release : SUBSET Place, remove : SUBSET Place]

Running(pc) == rec # Idle /\ rec.pc = pc

Fault == faults < MaxFaults /\ faults' = faults + 1
Edit  == edits < MaxEdits /\ edits' = edits + 1

-----------------------------------------------------------------------------
(* What the rules say *)

ReferencedGroupKinds(rules) == {r.kind : r \in rules}

TargetNamespaces(r, existing) ==
    (IF r.ns # {} THEN r.ns ELSE existing) \ {SystemNamespace}

ResolveNames(r, src) ==
    IF r.all THEN {n \in Names : src[n] # "none"} ELSE r.names

DesiredTargets(rules, existing, k, src) ==
    UNION {TargetNamespaces(r, existing) \X ResolveNames(r, src) :
           r \in {q \in rules : q.kind = k}}

(* staleManagedGroupKinds: still tracked, no longer referenced.            *)
StaleManagedGroupKinds(a) == a.tracked \ ReferencedGroupKinds(a.rules)

-----------------------------------------------------------------------------
(* What the controller may do *)

EnsureDynamicRBAC(a) == ReferencedGroupKinds(a.rules) \union StaleManagedGroupKinds(a)

BuildResourceRBACRules == {"get", "list", "watch", "create", "update", "delete"}

Allowed(k, verb) == k \in Builtin \/ (k \in role /\ verb \in BuildResourceRBACRules)

-----------------------------------------------------------------------------
(* The reconcile *)

(* Role and namespaces are settled first; the reconcile may end there.     *)
Begin ==
    /\ rec = Idle
    /\ \/ /\ role' = EnsureDynamicRBAC(am)
          /\ rec' = [pc |-> "kinds", am |-> am, existing |-> nss \union {SystemNamespace},
                     todo |-> EnsureDynamicRBAC(am), failed |-> {}]
          /\ UNCHANGED faults
       \/ /\ Fault
          /\ role' \in {role, EnsureDynamicRBAC(am)}
          /\ UNCHANGED rec
    /\ UNCHANGED <<am, env, obj, edits, unrecorded>>

KindFailed(k) == [pc |-> "kinds", am |-> rec.am, existing |-> rec.existing,
                  todo |-> rec.todo \ {k}, failed |-> rec.failed \union {k}]

(* collectGroupKindResources fails, or the Kind cannot be distributed.     *)
CollectFails(k) ==
    /\ Running("kinds") /\ k \in rec.todo
    /\ IF Allowed(k, "list") THEN Fault ELSE UNCHANGED faults
    /\ rec' = KindFailed(k)
    /\ UNCHANGED <<am, role, env, obj, edits, unrecorded>>

(* PlanGroupKind on the objects listed: what is desired is settled, the    *)
(* rest is released where something else owns it and removed otherwise.    *)
Collect(k) ==
    /\ Running("kinds") /\ k \in rec.todo
    /\ Allowed(k, "list")
    /\ LET desired == DesiredTargets(rec.am.rules, rec.existing, k, source[k])
           managed == {p \in Place : obj[k][p].managed}
       IN  rec' = [pc |-> "copies", am |-> rec.am, existing |-> rec.existing,
                   todo |-> rec.todo, failed |-> rec.failed,
                   kind |-> k, src |-> source[k], listed |-> obj[k],
                   settle  |-> desired,
                   release |-> {p \in managed \ desired : obj[k][p].other},
                   remove  |-> {p \in managed \ desired : ~obj[k][p].other}]
    /\ UNCHANGED <<am, role, env, obj, edits, faults, unrecorded>>

(* The same reconcile with less of its plan left.                          *)
Left(settle, release, remove, failed) ==
    [pc |-> "copies", am |-> rec.am, existing |-> rec.existing, todo |-> rec.todo,
     failed |-> failed, kind |-> rec.kind, src |-> rec.src, listed |-> rec.listed,
     settle |-> settle, release |-> release, remove |-> remove]

(* The copy of the listing is one of ours already.                         *)
Settled(p) == rec.listed[p].managed /\ rec.listed[p].am = rec.am.uid

(* Mutant: any object of that name is adopted.                             *)
AdoptAnything(o, k) ==
    IF o.am = rec.am.uid THEN {o}
    ELSE IF Allowed(k, "patch") THEN {OwnedBy(o, rec.am.uid)} ELSE {}

(* adoptManagedObject, on the object as it is now: the patch carries the   *)
(* resourceVersion read and is retried on a conflict.  Empty: it fails.    *)
AdoptManagedObject(o, k) ==
    IF ~o.managed \/ o.am = rec.am.uid THEN {o}
    ELSE IF Allowed(k, "patch") THEN {OwnedBy(o, rec.am.uid)} ELSE {}

(* What becomes of the object o when a copy is to be in its place.         *)
CreateManagedObject(o, k) ==
    IF o.there THEN AdoptManagedObject(o, k)
    ELSE {[there |-> TRUE, managed |-> TRUE, am |-> rec.am.uid, other |-> FALSE]}

(* distribute: one copy.  A name without a source is an error, and so is a *)
(* source that is not ready.                                               *)
Distribute(p) ==
    /\ Running("copies") /\ p \in rec.settle
    /\ LET k      == rec.kind
           ready  == rec.src[p[2]] = "ready"
           result == CreateManagedObject(obj[k][p], k)
           next   == Left(rec.settle \ {p}, rec.release, rec.remove, rec.failed)
           failed == Left(rec.settle \ {p}, rec.release, rec.remove, rec.failed \union {k})
       IN  IF rec.src[p[2]] # "none" /\ Settled(p)
           THEN rec' = next /\ UNCHANGED <<nss, obj, faults>>
           ELSE \/ /\ ready /\ result # {}
                   /\ nss' = nss \union {p[1]}
                   /\ \E o \in result : obj' = [obj EXCEPT ![k][p] = o]
                   /\ rec' = next
                   /\ UNCHANGED faults
                \/ /\ ~ready \/ result = {}
                   /\ nss' = IF rec.src[p[2]] = "none" THEN nss ELSE nss \union {p[1]}
                   /\ rec' = failed
                   /\ UNCHANGED <<obj, faults>>
                \/ /\ Fault
                   /\ nss' \in {nss, nss \union {p[1]}}
                   /\ rec' = failed
                   /\ UNCHANGED obj
    /\ UNCHANGED <<am, role, source, edits, unrecorded>>

(* cleanupManagedResources: what others own too is let go first.  The      *)
(* reference is dropped from the object as it is now.                      *)
ReleaseManagedObject(p) ==
    /\ Running("copies") /\ rec.settle = {} /\ p \in rec.release
    /\ LET k      == rec.kind
           ours   == rec.listed[p].am # 0 /\ obj[k][p].am # 0
           next   == Left({}, rec.release \ {p}, rec.remove, rec.failed)
           failed == Left({}, rec.release \ {p}, rec.remove, rec.failed \union {k})
       IN  \/ /\ ours => Allowed(k, "patch")
              /\ obj' = IF ours THEN [obj EXCEPT ![k][p] = OwnedBy(@, 0)] ELSE obj
              /\ rec' = next
              /\ UNCHANGED faults
           \/ /\ ours
              /\ rec' = failed
              /\ IF Allowed(k, "patch") THEN Fault ELSE UNCHANGED faults
              /\ UNCHANGED obj
    /\ UNCHANGED <<am, role, env, edits, unrecorded>>

(* The delete names the object and does not look at it again.              *)
DeleteManagedObject(p) ==
    /\ Running("copies") /\ rec.settle = {} /\ rec.release = {} /\ p \in rec.remove
    /\ \/ /\ obj' = [obj EXCEPT ![rec.kind][p] = NoObject]
          /\ rec' = Left({}, {}, rec.remove \ {p}, rec.failed)
          /\ UNCHANGED faults
       \/ /\ Fault
          /\ rec' = Left({}, {}, rec.remove \ {p}, rec.failed \union {rec.kind})
          /\ UNCHANGED obj
    /\ UNCHANGED <<am, role, env, edits, unrecorded>>

KindDone ==
    /\ Running("copies")
    /\ rec.settle = {} /\ rec.release = {} /\ rec.remove = {}
    /\ rec' = [pc |-> "kinds", am |-> rec.am, existing |-> rec.existing,
               todo |-> rec.todo \ {rec.kind}, failed |-> rec.failed]
    /\ UNCHANGED <<am, role, env, obj, edits, faults, unrecorded>>

(* Mutant: a Kind is forgotten with its last rule.                         *)
ForgetStale(a, failed) == ReferencedGroupKinds(a.rules)

(* status.resources: a stale Kind stays while its cleanup failed.          *)
FinalStatuses(a, failed) ==
    ReferencedGroupKinds(a.rules) \union (StaleManagedGroupKinds(a) \intersect failed)

(* The status update conflicts when the object was edited since the read.  *)
UpdateStatus ==
    /\ Running("kinds") /\ rec.todo = {}
    /\ rec' = Idle
    /\ IF am = rec.am
       THEN /\ am' = [am EXCEPT !.tracked = FinalStatuses(am, rec.failed)]
            /\ unrecorded' = unrecorded \ ReferencedGroupKinds(am.rules)
       ELSE /\ unrecorded' = unrecorded \union ReferencedGroupKinds(rec.am.rules)
            /\ UNCHANGED am
    /\ UNCHANGED <<role, env, obj, edits, faults>>

(* A crash; a status update that fails leaves the same behind.             *)
Crash ==
    /\ rec # Idle
    /\ Fault
    /\ rec' = Idle
    /\ unrecorded' = unrecorded \union ReferencedGroupKinds(rec.am.rules)
    /\ UNCHANGED <<am, role, env, obj, edits>>

-----------------------------------------------------------------------------
(* Users, other controllers and the garbage collector *)

EditRules ==
    /\ Edit
    /\ \E rules \in RuleSets \ {am.rules} : am' = [am EXCEPT !.rules = rules]
    /\ UNCHANGED <<role, env, obj, rec, faults, unrecorded>>

(* The AccessManagement is deleted and created again.                      *)
Recreate ==
    /\ Edit
    /\ \E rules \in RuleSets : am' = [uid |-> am.uid + 1, rules |-> rules, tracked |-> {}]
    /\ unrecorded' = unrecorded \union am.tracked
    /\ UNCHANGED <<role, env, obj, rec, faults>>

EditSource(k, n) ==
    /\ Edit
    /\ \E s \in SourceStates \ {source[k][n]} : source' = [source EXCEPT ![k][n] = s]
    /\ UNCHANGED <<am, role, nss, obj, rec, faults, unrecorded>>

CreateNamespace(ns) ==
    /\ Edit
    /\ nss' = nss \union {ns}
    /\ UNCHANGED <<am, role, source, obj, rec, faults, unrecorded>>

(* Another controller, of template chains for one, distributes a copy of   *)
(* its own or shares the one that is there; later it loses interest.       *)
OtherOwns(k, p) ==
    /\ Edit
    /\ obj[k][p].managed \/ (~obj[k][p].there /\ p[1] \in nss)
    /\ obj' = [obj EXCEPT ![k][p] = [there |-> TRUE, managed |-> TRUE, am |-> @.am, other |-> TRUE]]
    /\ UNCHANGED <<am, role, env, rec, faults, unrecorded>>

OtherLeaves(k, p) ==
    /\ Edit
    /\ obj[k][p].other
    /\ obj' = [obj EXCEPT ![k][p] = IF @.am = 0 THEN NoObject
                                  ELSE [there |-> TRUE, managed |-> @.managed, am |-> @.am, other |-> FALSE]]
    /\ UNCHANGED <<am, role, env, rec, faults, unrecorded>>

(* A user has an object of that name.                                      *)
Squat(k, p) ==
    /\ Edit
    /\ p[1] \in nss /\ ~obj[k][p].there
    /\ obj' = [obj EXCEPT ![k][p] = [there |-> TRUE, managed |-> FALSE, am |-> 0, other |-> FALSE]]
    /\ UNCHANGED <<am, role, env, rec, faults, unrecorded>>

(* References to an AccessManagement that is gone are dropped, and the     *)
(* object with the last of them.                                           *)
GarbageCollect(k, p) ==
    /\ obj[k][p].am \notin {0, am.uid}
    /\ obj' = [obj EXCEPT ![k][p] = IF @.other THEN OwnedBy(@, 0) ELSE NoObject]
    /\ UNCHANGED <<am, role, env, rec, edits, faults, unrecorded>>

-----------------------------------------------------------------------------
(* Specification *)

(* Copies may be left from a version that set no owner references.         *)
Init ==
    /\ \E rules \in RuleSets, tracked \in {{}, Kinds} :
         am = [uid |-> 1, rules |-> rules, tracked |-> tracked]
    /\ role = {}
    /\ source = [k \in Kinds |-> [n \in Names |-> "ready"]]
    /\ nss \in SUBSET Namespaces
    /\ obj = [k \in Kinds |-> [p \in Place |->
                IF p[1] \in nss /\ k \in am.tracked
                THEN [there |-> TRUE, managed |-> TRUE, am |-> 0, other |-> FALSE]
                ELSE NoObject]]
    /\ rec = Idle
    /\ edits = 0
    /\ faults = 0
    /\ unrecorded = {}

Reconcile ==
    \/ Begin \/ KindDone \/ UpdateStatus
    \/ \E k \in Kinds : Collect(k) \/ CollectFails(k)
    \/ \E p \in Place : Distribute(p) \/ ReleaseManagedObject(p) \/ DeleteManagedObject(p)

Next ==
    \/ Reconcile
    \/ Crash \/ EditRules \/ Recreate
    \/ \E ns \in Namespaces : CreateNamespace(ns)
    \/ \E k \in Kinds, n \in Names : EditSource(k, n)
    \/ \E k \in Kinds, p \in Place :
         OtherOwns(k, p) \/ OtherLeaves(k, p) \/ Squat(k, p) \/ GarbageCollect(k, p)

(* The poller queues the AccessManagement every two minutes.               *)
Fairness ==
    /\ WF_vars(Reconcile)
    /\ \A k \in Kinds, p \in Place : WF_vars(GarbageCollect(k, p))

Spec == Init /\ [][Next]_vars
FairSpec == Spec /\ Fairness

-----------------------------------------------------------------------------
(* Properties *)

(* Every variable stays in its type.                                       *)
TypeOK ==
    /\ am \in AccessMgmt
    /\ role \subseteq Kinds
    /\ source \in [Kinds -> [Names -> SourceStates]]
    /\ nss \subseteq Namespaces
    /\ obj \in [Kinds -> [Place -> Object]]
    /\ rec \in {Idle} \union Visiting \union Copying
    /\ edits \in 0 .. MaxEdits
    /\ faults \in 0 .. MaxFaults
    /\ unrecorded \subseteq Kinds

(* adoptManagedObject: "only objects carrying the managed label are ever   *)
(* touched".  An object that was given an owner reference to the           *)
(* AccessManagement would be deleted with it.                              *)
OnlyManagedOwned ==
    \A k \in Kinds, p \in Place : obj[k][p].am # 0 => obj[k][p].managed

Known(k) == k \in ReferencedGroupKinds(am.rules) \union am.tracked

(* "Read before it's overwritten": a Kind with copies of ours is known, by *)
(* the rules or the status or the reconcile at work, or else its copies    *)
(* are "orphaned forever".                                                 *)
CopiesTracked ==
    \A k \in Kinds :
       (\E p \in Place : obj[k][p].am = am.uid) =>
         \/ Known(k)
         \/ rec # Idle /\ k \in ReferencedGroupKinds(rec.am.rules) \union rec.am.tracked

Distributed(k) ==
    LET desired == DesiredTargets(am.rules, nss, k, source[k])
    IN  \A p \in Place :
          IF p \in desired
          THEN source[k][p[2]] = "ready" =>
                 obj[k][p].there /\ (obj[k][p].managed => obj[k][p].am = am.uid)
          ELSE obj[k][p].managed => obj[k][p].other /\ obj[k][p].am = 0

(* Once users and faults are quiet, every Kind has the copies the rules    *)
(* ask for, owned by the present AccessManagement, and no others; co-owned *)
(* ones are let go.  (For Kinds it may patch; not for a dropped Kind that  *)
(* an interrupted reconcile distributed: see CopiesTracked.)               *)
RulesTakeEffect ==
    <>[](\A k \in Builtin : (Known(k) \/ k \notin unrecorded) => Distributed(k))

(* The same of every Kind a rule references, patched or not.               *)
EveryKindTakesEffect ==
    <>[](\A k \in ReferencedGroupKinds(am.rules) : Distributed(k))
=============================================================================
