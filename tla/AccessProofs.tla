---------------------------- MODULE AccessProofs ----------------------------
(***************************************************************************)
(* The two controllers that give access and take it back.                  *)
(*                                                                         *)
(* AccessManagement: its type invariant, and that no object of somebody    *)
(* else is ever owned by the AccessManagement, for any Kinds, rules,       *)
(* namespaces and any number of edits and faults.                          *)
(*                                                                         *)
(* ChildRBAC: its type invariant and its ledger, for any set of objects    *)
(* and any number of edits and faults.  The two systems have nothing in    *)
(* common, no variable and no constant.                                    *)
(***************************************************************************)
EXTENDS AccessManagement, ChildRBAC, TLAPS

(* The Kinds of rules, of a plan and of a status are Kinds.                *)
LEMMA KindsOfRules ==
    ASSUME NEW a \in AccessMgmt, NEW failed \in SUBSET Kinds
    PROVE  /\ ReferencedGroupKinds(a.rules) \subseteq Kinds
           /\ EnsureDynamicRBAC(a) \subseteq Kinds
           /\ FinalStatuses(a, failed) \subseteq Kinds
  <1>1. a.rules \subseteq Rule /\ a.tracked \subseteq Kinds
      BY AccessManagementAssumption DEF AccessMgmt
  <1>2. ReferencedGroupKinds(a.rules) \subseteq Kinds
      BY <1>1 DEF ReferencedGroupKinds, Rule
  <1> QED
      BY <1>1, <1>2 DEF EnsureDynamicRBAC, FinalStatuses, StaleManagedGroupKinds

(* What the rules ask for are places.                                      *)
LEMMA TargetsArePlaces ==
    ASSUME NEW a \in AccessMgmt, NEW k, NEW src,
           NEW existing \in SUBSET (Namespaces \union {SystemNamespace})
    PROVE  DesiredTargets(a.rules, existing, k, src) \subseteq Place
  <1>1. a.rules \subseteq Rule
      BY AccessManagementAssumption DEF AccessMgmt
  <1>2. ASSUME NEW r \in a.rules
        PROVE  /\ TargetNamespaces(r, existing) \subseteq Namespaces
               /\ ResolveNames(r, src) \subseteq Names
      BY <1>1 DEF TargetNamespaces, ResolveNames, Rule
  <1> QED
      BY <1>2 DEF DesiredTargets, Place

(* An object that is written by the controller is an object, and a         *)
(* managed one if the AccessManagement owns it.                            *)
LEMMA ObjectWritten ==
    ASSUME NEW o \in Object, NEW k, rec.am.uid \in Uids,
           NEW w \in CreateManagedObject(o, k)
    PROVE  /\ w \in Object
           /\ (o.am # 0 => o.managed) => (w.am # 0 => w.managed)
  <1>1. CASE ~o.there
    <2>1. w = [there |-> TRUE, managed |-> TRUE, am |-> rec.am.uid, other |-> FALSE]
        BY <1>1 DEF CreateManagedObject
    <2> QED BY <2>1 DEF Object
  <1>2. CASE o.there
    <2>1. w = o \/ (o.managed /\ w = OwnedBy(o, rec.am.uid))
        BY <1>2 DEF CreateManagedObject, AdoptManagedObject
    <2> QED BY <2>1 DEF OwnedBy, Object
  <1> QED BY <1>1, <1>2

-----------------------------------------------------------------------------
(* Type correctness *)

(* A reconcile with less of its plan left is one.                          *)
LEMMA LeftTyped ==
    ASSUME rec \in Copying,
           NEW s \in SUBSET rec.settle, NEW rl \in SUBSET rec.release,
           NEW rm \in SUBSET rec.remove, NEW f \in {rec.failed, rec.failed \union {rec.kind}}
    PROVE  Left(s, rl, rm, f) \in Copying
  <1>1. /\ s \in SUBSET Place /\ rl \in SUBSET Place /\ rm \in SUBSET Place
        /\ f \in SUBSET Kinds
      BY DEF Copying
  <1> QED
      BY <1>1 DEF Left, Copying

LEMMA InitTypeOK == Init => TypeOK
  <1> SUFFICES ASSUME Init PROVE TypeOK
      OBVIOUS
  <1>1. am \in AccessMgmt
      BY DEF Init, AccessMgmt, Uids
  <1>2. obj \in [Kinds -> [Place -> Object]]
      BY DEF Init, Object, NoObject
  <1>3. source \in [Kinds -> [Names -> SourceStates]]
      BY DEF Init, SourceStates
  <1> QED
      BY <1>1, <1>2, <1>3, AccessManagementAssumption DEF Init, TypeOK

(* One entry of obj replaced by an object leaves obj in its type.          *)
LEMMA OneObject ==
    ASSUME obj \in [Kinds -> [Place -> Object]], NEW k \in Kinds, NEW p \in Place,
           NEW o \in Object, obj' = [obj EXCEPT ![k][p] = o]
    PROVE  obj' \in [Kinds -> [Place -> Object]]
  OBVIOUS

LEMMA NextTypeOK == TypeOK /\ [Next]_vars => TypeOK'
  <1> SUFFICES ASSUME TypeOK, [Next]_vars PROVE TypeOK'
      OBVIOUS
  <1>a. \A q \in 0 .. MaxFaults : q < MaxFaults => q + 1 \in 0 .. MaxFaults
      BY AccessManagementAssumption
  <1>b. \A q \in 0 .. MaxEdits : q < MaxEdits => q + 1 \in 0 .. MaxEdits
      BY AccessManagementAssumption
  <1>c. Fault => faults' \in 0 .. MaxFaults
      BY <1>a DEF Fault, TypeOK
  <1>d. Edit => edits' \in 0 .. MaxEdits
      BY <1>b DEF Edit, TypeOK
  <1>e. rec # Idle => /\ rec.am \in AccessMgmt
                      /\ rec.am.uid \in Uids
                      /\ rec.existing \subseteq Namespaces \union {SystemNamespace}
                      /\ rec.todo \subseteq Kinds
                      /\ rec.failed \subseteq Kinds
      BY DEF TypeOK, Visiting, Copying, AccessMgmt
  <1>f. Running("kinds") => rec \in Visiting
      BY DEF Running, TypeOK, Copying
  <1>g. Running("copies") => rec \in Copying
      BY DEF Running, TypeOK, Visiting
  <1>1. CASE Begin
    <2>1. EnsureDynamicRBAC(am) \subseteq Kinds
        BY KindsOfRules DEF TypeOK
    <2>2. rec' \in {Idle} \union Visiting
        BY <1>1, <2>1 DEF Begin, TypeOK, Visiting
    <2> QED BY <1>1, <1>c, <2>1, <2>2 DEF Begin, TypeOK, env
  <1>2. CASE KindDone
    <2>1. rec' \in Visiting
        BY <1>2, <1>g DEF KindDone, Visiting, Copying
    <2> QED BY <1>2, <2>1 DEF KindDone, TypeOK, env
  <1>3. CASE UpdateStatus
    <2>1. /\ FinalStatuses(am, rec.failed) \subseteq Kinds
          /\ ReferencedGroupKinds(rec.am.rules) \subseteq Kinds
        BY <1>3, <1>e, KindsOfRules DEF TypeOK, UpdateStatus, Running
    <2>2. am' \in AccessMgmt
        BY <1>3, <2>1 DEF UpdateStatus, TypeOK, AccessMgmt
    <2> QED BY <1>3, <2>1, <2>2 DEF UpdateStatus, TypeOK, env
  <1>4. ASSUME NEW k \in Kinds, Collect(k) PROVE TypeOK'
    <2>1. DesiredTargets(rec.am.rules, rec.existing, k, source[k]) \subseteq Place
        BY <1>4, <1>e, TargetsArePlaces DEF Collect, Running
    <2>2. source[k] \in [Names -> SourceStates] /\ obj[k] \in [Place -> Object]
        BY DEF TypeOK
    <2>3. rec' \in Copying
        BY <1>4, <1>e, <2>1, <2>2 DEF Collect, Running, Copying
    <2> QED BY <1>4, <2>3 DEF Collect, TypeOK, env
  <1>5. ASSUME NEW k \in Kinds, CollectFails(k) PROVE TypeOK'
    <2>1. rec' \in Visiting
        BY <1>5, <1>e DEF CollectFails, KindFailed, Running, Visiting
    <2> QED BY <1>5, <1>c, <2>1 DEF CollectFails, TypeOK, env
  <1>6. ASSUME NEW p \in Place, Distribute(p) PROVE TypeOK'
    <2> DEFINE k == rec.kind
    <2>1. rec \in Copying /\ k \in Kinds /\ p[1] \in Namespaces /\ obj[k][p] \in Object
        BY <1>6, <1>g DEF Distribute, Copying, Place, TypeOK
    <2>2. rec' \in Copying
      <3>1. \E f \in {rec.failed, rec.failed \union {rec.kind}} :
              rec' = Left(rec.settle \ {p}, rec.release, rec.remove, f)
          BY <1>6 DEF Distribute
      <3>2. rec.settle \ {p} \in SUBSET rec.settle
          OBVIOUS
      <3> QED BY <2>1, <3>1, <3>2, LeftTyped
    <2>3. obj' \in [Kinds -> [Place -> Object]]
        BY <1>6, <1>e, <2>1, ObjectWritten, OneObject DEF Distribute, Running, TypeOK
    <2>4. nss' \subseteq Namespaces
        BY <1>6, <2>1 DEF Distribute, TypeOK
    <2>5. faults' \in 0 .. MaxFaults
        BY <1>6, <1>c DEF Distribute, TypeOK
    <2> QED BY <1>6, <2>2, <2>3, <2>4, <2>5 DEF Distribute, TypeOK
  <1>7. ASSUME NEW p \in Place, ReleaseManagedObject(p) PROVE TypeOK'
    <2>1. rec \in Copying /\ rec.kind \in Kinds
        BY <1>7, <1>g DEF ReleaseManagedObject, Copying
    <2>2. rec' \in Copying
      <3>1. \E f \in {rec.failed, rec.failed \union {rec.kind}} :
              rec' = Left({}, rec.release \ {p}, rec.remove, f)
          BY <1>7 DEF ReleaseManagedObject
      <3>2. /\ {} \in SUBSET rec.settle /\ rec.release \ {p} \in SUBSET rec.release
            /\ rec.remove \in SUBSET rec.remove
          OBVIOUS
      <3> QED BY <2>1, <3>1, <3>2, LeftTyped
    <2>3. obj' \in [Kinds -> [Place -> Object]]
      <3>1. OwnedBy(obj[rec.kind][p], 0) \in Object
          BY <2>1 DEF TypeOK, OwnedBy, Object
      <3>2. \/ UNCHANGED obj
            \/ obj' = [obj EXCEPT ![rec.kind][p] = OwnedBy(obj[rec.kind][p], 0)]
          BY <1>7 DEF ReleaseManagedObject
      <3> QED BY <2>1, <3>1, <3>2, OneObject DEF TypeOK
    <2>4. faults' \in 0 .. MaxFaults
        BY <1>7, <1>c DEF ReleaseManagedObject, TypeOK
    <2> QED BY <1>7, <2>2, <2>3, <2>4 DEF ReleaseManagedObject, TypeOK, env
  <1>8. ASSUME NEW p \in Place, DeleteManagedObject(p) PROVE TypeOK'
    <2>1. rec \in Copying /\ rec.kind \in Kinds
        BY <1>8, <1>g DEF DeleteManagedObject, Copying
    <2>2. rec' \in Copying
      <3>1. \E f \in {rec.failed, rec.failed \union {rec.kind}} :
              rec' = Left({}, {}, rec.remove \ {p}, f)
          BY <1>8 DEF DeleteManagedObject
      <3>2. /\ {} \in SUBSET rec.settle /\ {} \in SUBSET rec.release
            /\ rec.remove \ {p} \in SUBSET rec.remove
          OBVIOUS
      <3> QED BY <2>1, <3>1, <3>2, LeftTyped
    <2>3. obj' \in [Kinds -> [Place -> Object]]
      <3>1. NoObject \in Object
          BY DEF NoObject, Object
      <3>2. UNCHANGED obj \/ obj' = [obj EXCEPT ![rec.kind][p] = NoObject]
          BY <1>8 DEF DeleteManagedObject
      <3> QED BY <2>1, <3>1, <3>2, OneObject DEF TypeOK
    <2>4. faults' \in 0 .. MaxFaults
        BY <1>8, <1>c DEF DeleteManagedObject, TypeOK
    <2> QED BY <1>8, <2>2, <2>3, <2>4 DEF DeleteManagedObject, TypeOK, env
  <1>9. CASE Crash
    <2>1. ReferencedGroupKinds(rec.am.rules) \subseteq Kinds
        BY <1>9, <1>e, KindsOfRules DEF Crash
    <2> QED BY <1>9, <1>c, <2>1 DEF Crash, TypeOK, env
  <1>10. CASE EditRules
      BY <1>10, <1>d DEF EditRules, TypeOK, AccessMgmt, env
  <1>11. CASE Recreate
    <2>1. am' \in AccessMgmt
        BY <1>11 DEF Recreate, TypeOK, AccessMgmt, Uids
    <2>2. am.tracked \subseteq Kinds
        BY DEF TypeOK, AccessMgmt
    <2> QED BY <1>11, <1>d, <2>1, <2>2 DEF Recreate, TypeOK, env
  <1>12. ASSUME NEW ns \in Namespaces, CreateNamespace(ns) PROVE TypeOK'
      BY <1>12, <1>d DEF CreateNamespace, TypeOK
  <1>13. ASSUME NEW k \in Kinds, NEW n \in Names, EditSource(k, n) PROVE TypeOK'
      BY <1>13, <1>d DEF EditSource, TypeOK
  <1>14. ASSUME NEW k \in Kinds, NEW p \in Place, OtherOwns(k, p) PROVE TypeOK'
      BY <1>14, <1>d DEF OtherOwns, TypeOK, Object, env
  <1>15. ASSUME NEW k \in Kinds, NEW p \in Place, OtherLeaves(k, p) PROVE TypeOK'
      BY <1>15, <1>d DEF OtherLeaves, TypeOK, Object, NoObject, env
  <1>16. ASSUME NEW k \in Kinds, NEW p \in Place, Squat(k, p) PROVE TypeOK'
      BY <1>16, <1>d DEF Squat, TypeOK, Object, NoObject, env
  <1>17. ASSUME NEW k \in Kinds, NEW p \in Place, GarbageCollect(k, p) PROVE TypeOK'
      BY <1>17 DEF GarbageCollect, TypeOK, Object, NoObject, OwnedBy, env
  <1>18. CASE UNCHANGED vars
      BY <1>18 DEF vars, env, TypeOK
  <1> QED
      BY <1>1, <1>2, <1>3, <1>4, <1>5, <1>6, <1>7, <1>8, <1>9, <1>10, <1>11, <1>12,
         <1>13, <1>14, <1>15, <1>16, <1>17, <1>18 DEF Next, Reconcile

(* Every variable of AccessManagement stays in its type.                   *)
THEOREM TypeCorrect == Spec => []TypeOK
  BY InitTypeOK, NextTypeOK, PTL DEF Spec

-----------------------------------------------------------------------------
(* Ownership *)

LEMMA NextOwnership ==
    TypeOK /\ OnlyManagedOwned /\ [Next]_vars => OnlyManagedOwned'
  <1> SUFFICES ASSUME TypeOK, OnlyManagedOwned, [Next]_vars PROVE OnlyManagedOwned'
      OBVIOUS
  <1>1. obj \in [Kinds -> [Place -> Object]]
      BY DEF TypeOK
  <1>2. ASSUME UNCHANGED obj PROVE OnlyManagedOwned'
      BY <1>2 DEF OnlyManagedOwned
  <1>3. ASSUME NEW k \in Kinds, NEW p \in Place, NEW o,
               obj' = [obj EXCEPT ![k][p] = o], o.am # 0 => o.managed
        PROVE  OnlyManagedOwned'
      BY <1>1, <1>3 DEF OnlyManagedOwned
  <1>4. ASSUME NEW p \in Place, Distribute(p) PROVE OnlyManagedOwned'
    <2>1. rec \in Copying
        BY <1>4 DEF Distribute, Running, TypeOK, Visiting
    <2>2. rec.kind \in Kinds /\ rec.am.uid \in Uids /\ obj[rec.kind][p] \in Object
        BY <1>1, <2>1 DEF Copying, AccessMgmt
    <2>3. obj[rec.kind][p].am # 0 => obj[rec.kind][p].managed
        BY <2>2 DEF OnlyManagedOwned
    <2>4. ASSUME NEW o \in CreateManagedObject(obj[rec.kind][p], rec.kind)
          PROVE  o.am # 0 => o.managed
        BY <2>2, <2>3, <2>4, ObjectWritten
    <2>5. \/ UNCHANGED obj
          \/ \E o \in CreateManagedObject(obj[rec.kind][p], rec.kind) :
                obj' = [obj EXCEPT ![rec.kind][p] = o]
        BY <1>4 DEF Distribute
    <2> QED BY <1>2, <1>3, <2>2, <2>4, <2>5
  <1>5. ASSUME NEW p \in Place, ReleaseManagedObject(p) PROVE OnlyManagedOwned'
    <2>1. rec.kind \in Kinds
        BY <1>5 DEF ReleaseManagedObject, Running, TypeOK, Visiting, Copying
    <2>2. \/ UNCHANGED obj
          \/ obj' = [obj EXCEPT ![rec.kind][p] = OwnedBy(obj[rec.kind][p], 0)]
        BY <1>5 DEF ReleaseManagedObject
    <2>3. OwnedBy(obj[rec.kind][p], 0).am = 0
        BY DEF OwnedBy
    <2> QED BY <1>2, <1>3, <2>1, <2>2, <2>3
  <1>6. ASSUME NEW p \in Place, DeleteManagedObject(p) PROVE OnlyManagedOwned'
    <2>1. rec.kind \in Kinds
        BY <1>6 DEF DeleteManagedObject, Running, TypeOK, Visiting, Copying
    <2>2. UNCHANGED obj \/ obj' = [obj EXCEPT ![rec.kind][p] = NoObject]
        BY <1>6 DEF DeleteManagedObject
    <2>3. NoObject.am = 0
        BY DEF NoObject
    <2> QED BY <1>2, <1>3, <2>1, <2>2, <2>3
  <1>7. ASSUME NEW k \in Kinds, NEW p \in Place, OtherOwns(k, p) PROVE OnlyManagedOwned'
      BY <1>1, <1>7 DEF OtherOwns, OnlyManagedOwned
  <1>8. ASSUME NEW k \in Kinds, NEW p \in Place, OtherLeaves(k, p) PROVE OnlyManagedOwned'
      BY <1>1, <1>8 DEF OtherLeaves, OnlyManagedOwned, NoObject, Object
  <1>9. ASSUME NEW k \in Kinds, NEW p \in Place, Squat(k, p) PROVE OnlyManagedOwned'
      BY <1>1, <1>9 DEF Squat, OnlyManagedOwned, NoObject
  <1>10. ASSUME NEW k \in Kinds, NEW p \in Place, GarbageCollect(k, p)
         PROVE  OnlyManagedOwned'
      BY <1>1, <1>10 DEF GarbageCollect, OnlyManagedOwned, NoObject, Object, OwnedBy
  <1>11. ASSUME \/ Begin \/ KindDone \/ UpdateStatus \/ Crash \/ EditRules \/ Recreate
                \/ \E k \in Kinds : Collect(k) \/ CollectFails(k)
                \/ \E ns \in Namespaces : CreateNamespace(ns)
                \/ \E k \in Kinds, n \in Names : EditSource(k, n)
                \/ UNCHANGED vars
         PROVE  UNCHANGED obj
      BY <1>11 DEF Begin, KindDone, UpdateStatus, Crash, EditRules, Recreate, Collect,
                   CollectFails, CreateNamespace, EditSource, vars
  <1> QED
      BY <1>2, <1>4, <1>5, <1>6, <1>7, <1>8, <1>9, <1>10, <1>11 DEF Next, Reconcile

(* adoptManagedObject touches "only objects carrying the managed label":   *)
(* whoever writes in between, an object without it never gets an owner     *)
(* reference that would have it deleted with the AccessManagement.         *)
THEOREM OwnershipHolds == Spec => []OnlyManagedOwned
  <1>1. Init => OnlyManagedOwned
      BY DEF Init, OnlyManagedOwned, NoObject
  <1> QED
      BY <1>1, TypeCorrect, NextOwnership, PTL DEF Spec

-----------------------------------------------------------------------------
(* The child clusters: types *)

LEMMA Basics ==
    /\ NoPolicy \in Policy
    /\ NoReconcile \notin RBACReconcile
  BY ChildRBACAssumption
  DEF NoPolicy, Policy, NoReconcile, RBACReconcile

(* A running reconcile is a record, and its copies are ClusterDeployments. *)
LEMMA RunningType ==
    ASSUME ChildTypeOK, rbac # NoReconcile
    PROVE  /\ rbac \in RBACReconcile
           /\ rbac.cd \in ClusterDeployment
           /\ rbac.pol \in Policy
           /\ rbac.pol.objs \subseteq Objects
  <1>1. rbac \in RBACReconcile
      BY DEF ChildTypeOK
  <1>2. rbac.cd \in ClusterDeployment /\ rbac.pol \in Policy
      BY <1>1 DEF RBACReconcile
  <1> QED BY <1>1, <1>2 DEF Policy

LEMMA ReportType ==
    ASSUME ChildTypeOK, rbac # NoReconcile, NEW cond \in BOOLEAN, Report(cond)
    PROVE  rbac' \in RBACReconcile
  <1>1. rbac \in RBACReconcile
      BY RunningType
  <1> QED BY <1>1 DEF Report, RBACReconcile, ClusterDeployment

LEMMA FaultType ==
    ASSUME ChildTypeOK, ChildFault
    PROVE  childFaults' \in 0 .. MaxChildFaults
  BY ChildRBACAssumption DEF ChildTypeOK, ChildFault

LEMMA ChildInitTypeOK == ChildInit => ChildTypeOK
  <1> SUFFICES ASSUME ChildInit PROVE ChildTypeOK
      OBVIOUS
  <1>1. cd \in ClusterDeployment
      BY DEF ChildInit, ClusterDeployment
  <1>2. /\ synced \in 0 .. MaxPolicyEdits /\ policyEdits \in 0 .. MaxPolicyEdits
        /\ childFaults \in 0 .. MaxChildFaults
      BY ChildRBACAssumption DEF ChildInit
  <1> QED BY <1>1, <1>2, Basics DEF ChildInit, ChildTypeOK

(* Every step of a reconcile keeps the types.                              *)
LEMMA ReconcileTypeOK ==
    ASSUME ChildTypeOK, ReconcileStep
    PROVE  ChildTypeOK'
  <1>1. CASE BeginRBAC
    <2>1. rbac' \in RBACReconcile
        BY <1>1, Basics DEF BeginRBAC, ChildTypeOK, RBACReconcile
    <2> QED BY <1>1, <2>1 DEF BeginRBAC, ChildTypeOK, user, cluster
  <1>2. CASE SkipFresh
    <2>1. rbac' \in RBACReconcile
        BY <1>2, ReportType DEF SkipFresh, Reconciling
    <2> QED BY <1>2, <2>1 DEF SkipFresh, ChildTypeOK, user, cluster
  <1>3. CASE AwaitKubeconfig
    <2>1. (capi \/ rbac.cd.cond) \in BOOLEAN
        OBVIOUS
    <2>2. rbac' \in RBACReconcile
        BY <1>3, <2>1, ReportType DEF AwaitKubeconfig, MustSync, Reconciling
    <2> QED BY <1>3, <2>2 DEF AwaitKubeconfig, ChildTypeOK, user, cluster
  <1>4. CASE SyncUnavailable
    <2>1. rbac # NoReconcile /\ rbac.cd.cond \in BOOLEAN
        BY <1>4, RunningType
        DEF SyncUnavailable, MustSync, Reconciling, ClusterDeployment
    <2>2. PICK cond \in BOOLEAN : Report(cond)
        BY <1>4, <2>1 DEF SyncUnavailable
    <2>3. rbac' \in RBACReconcile
        BY <2>1, <2>2, ReportType
    <2>4. childFaults' \in 0 .. MaxChildFaults
        BY <1>4, FaultType DEF SyncUnavailable
    <2> QED
        BY <1>4, <2>3, <2>4
        DEF SyncUnavailable, ChildTypeOK, user, cluster
  <1>5. CASE MarkRBACGranted
    <2>1. rbac \in RBACReconcile
        BY <1>5, RunningType DEF MarkRBACGranted, MustSync, Reconciling
    <2>2. cd' \in ClusterDeployment
        BY <1>5 DEF MarkRBACGranted, ChildTypeOK, ClusterDeployment
    <2>3. rbac' \in RBACReconcile
        BY <1>5, <2>1, <2>2 DEF MarkRBACGranted, RBACReconcile
    <2> QED
        BY <1>5, <2>2, <2>3
        DEF MarkRBACGranted, ChildTypeOK, user, cluster
  <1>6. CASE Sync
    <2>1. rbac \in RBACReconcile /\ rbac.pol.objs \subseteq Objects
        BY <1>6, RunningType DEF Sync, Reconciling
    <2>2. rbac' \in RBACReconcile /\ child' \subseteq Objects
        BY <1>6, <2>1 DEF Sync, RBACReconcile, ChildTypeOK
    <2>3. childFaults' \in 0 .. MaxChildFaults
        BY <1>6, FaultType DEF Sync, ChildTypeOK
    <2> QED BY <1>6, <2>2, <2>3 DEF Sync, ChildTypeOK, user, cluster
  <1>7. CASE PruneStale
    <2>1. rbac.pol \in Policy
        BY <1>7, RunningType DEF PruneStale, Reconciling
    <2>2. rbac' \in RBACReconcile
        BY <1>7, ReportType DEF PruneStale, Reconciling
    <2>3. synced' \in 0 .. MaxPolicyEdits
        BY <1>7, <2>1, ChildRBACAssumption DEF PruneStale, Policy
    <2>4. child' \subseteq Objects
        BY <1>7 DEF PruneStale, ChildTypeOK
    <2>5. childFaults' \in 0 .. MaxChildFaults
        BY <1>7, FaultType DEF PruneStale, ChildTypeOK
    <2> QED
        BY <1>7, <2>2, <2>3, <2>4, <2>5
        DEF PruneStale, ChildTypeOK, user, cluster
  <1>8. CASE RevokeNothing
    <2>1. rbac.cd.ref \in BOOLEAN
        BY <1>8, RunningType
        DEF RevokeNothing, MayRevoke, Reconciling, ClusterDeployment
    <2>2. rbac' \in RBACReconcile
        BY <1>8, <2>1, ReportType DEF RevokeNothing, MayRevoke, Reconciling
    <2> QED BY <1>8, <2>2 DEF RevokeNothing, ChildTypeOK, user, cluster
  <1>9. CASE RevokeUnavailable
    <2>1. rbac.cd.cond \in BOOLEAN
        BY <1>9, RunningType
        DEF RevokeUnavailable, MayRevoke, Reconciling, ClusterDeployment
    <2>2. rbac' \in RBACReconcile
        BY <1>9, <2>1, ReportType
        DEF RevokeUnavailable, MayRevoke, Reconciling
    <2>3. childFaults' \in 0 .. MaxChildFaults
        BY <1>9, FaultType DEF RevokeUnavailable, ChildTypeOK
    <2> QED
        BY <1>9, <2>2, <2>3
        DEF RevokeUnavailable, ChildTypeOK, user, cluster
  <1>10. CASE Revoke
    <2>1. rbac \in RBACReconcile /\ rbac.cd \in ClusterDeployment
        BY <1>10, RunningType DEF Revoke, MayRevoke, Reconciling
    <2>2. rbac.cd.cond \in BOOLEAN /\ rbac.cd.ref \in BOOLEAN
        BY <2>1 DEF ClusterDeployment
    <2>3. Report(rbac.cd.cond) => rbac' \in RBACReconcile
        BY <1>10, <2>2, ReportType DEF Revoke, MayRevoke, Reconciling
    <2>4. [rbac EXCEPT !.pc = "status", !.cd.grant = FALSE, !.cd.cond = rbac.cd.ref]
            \in RBACReconcile
        BY <2>1, <2>2 DEF RBACReconcile, ClusterDeployment
    <2>5. rbac' \in RBACReconcile
        BY <1>10, <2>3, <2>4 DEF Revoke
    <2>6. child' \subseteq Objects /\ synced' \in 0 .. MaxPolicyEdits
        BY <1>10, ChildRBACAssumption DEF Revoke, ChildTypeOK
    <2>7. childFaults' \in 0 .. MaxChildFaults
        BY <1>10, FaultType DEF Revoke, ChildTypeOK
    <2> QED BY <1>10, <2>5, <2>6, <2>7 DEF Revoke, ChildTypeOK, user, cluster
  <1>11. CASE UpdateRBACStatus
    <2>1. rbac.cd \in ClusterDeployment
        BY <1>11, RunningType DEF UpdateRBACStatus, Reconciling
    <2>2. cd' \in ClusterDeployment
        BY <1>11, <2>1 DEF UpdateRBACStatus, ChildTypeOK, ClusterDeployment
    <2>3. childFaults' \in 0 .. MaxChildFaults
        BY <1>11, FaultType DEF UpdateRBACStatus, ChildTypeOK
    <2> QED BY <1>11, <2>2, <2>3 DEF UpdateRBACStatus, ChildTypeOK, user, cluster
  <1> QED
      BY <1>1, <1>2, <1>3, <1>4, <1>5, <1>6, <1>7, <1>8, <1>9, <1>10, <1>11
      DEF ReconcileStep

LEMMA EnvironmentTypeOK ==
    ASSUME ChildTypeOK, Environment
    PROVE  ChildTypeOK'
  <1>1. CASE SyncExpires
      BY <1>1, ChildRBACAssumption
      DEF SyncExpires, ChildTypeOK, user, cluster
  <1>2. CASE CacheCatchesUp
      BY <1>2 DEF CacheCatchesUp, ChildTypeOK, user, cluster
  <1>3. CASE ControllerCrash
      BY <1>3, FaultType, ChildRBACAssumption
      DEF ControllerCrash, ChildTypeOK, user, cluster
  <1>4. CASE KubeconfigLost
      BY <1>4, FaultType DEF KubeconfigLost, ChildTypeOK, user
  <1>5. CASE KubeconfigReady
      BY <1>5 DEF KubeconfigReady, ChildTypeOK, user
  <1>6. CASE ClusterGone
      BY <1>6, FaultType DEF ClusterGone, ChildTypeOK, user
  <1>7. CASE EditPolicy
    <2>1. policyEdits' \in 0 .. MaxPolicyEdits
        BY <1>7, ChildRBACAssumption DEF EditPolicy, ChildTypeOK
    <2>2. policy' \in Policy
        BY <1>7, <2>1, Basics DEF EditPolicy, Policy
    <2> QED BY <1>7, <2>1, <2>2 DEF EditPolicy, ChildTypeOK, cluster
  <1>8. CASE EditReference
    <2>1. policyEdits' \in 0 .. MaxPolicyEdits
        BY <1>8, ChildRBACAssumption DEF EditReference, ChildTypeOK
    <2>2. cd' \in ClusterDeployment
        BY <1>8 DEF EditReference, ChildTypeOK, ClusterDeployment
    <2> QED BY <1>8, <2>1, <2>2 DEF EditReference, ChildTypeOK, cluster
  <1> QED
      BY <1>1, <1>2, <1>3, <1>4, <1>5, <1>6, <1>7, <1>8 DEF Environment

LEMMA ChildNextTypeOK == ChildTypeOK /\ [ChildNext]_childVars => ChildTypeOK'
  <1>1. ASSUME ChildTypeOK, UNCHANGED childVars PROVE ChildTypeOK'
      BY <1>1 DEF ChildTypeOK, childVars, user, cluster
  <1> QED
      BY <1>1, ReconcileTypeOK, EnvironmentTypeOK DEF ChildNext

(* Every variable keeps its type, stale reads or not.                      *)
THEOREM ChildTypeCorrect == ChildSpec => []ChildTypeOK
  BY ChildInitTypeOK, ChildNextTypeOK, PTL DEF ChildSpec

-----------------------------------------------------------------------------
(* The ledger *)

LEMMA InitLedger == ChildInit => LedgerInv
  BY DEF ChildInit, LedgerInv, GrantRecorded, Reconciling

(* Reporting moves on to the status update and leaves the ledger alone.    *)
LEMMA ReportEffect ==
    ASSUME ChildTypeOK, rbac # NoReconcile, NEW cond \in BOOLEAN, Report(cond)
    PROVE  rbac'.pc = "status" /\ rbac'.cd.grant = rbac.cd.grant
  <1>1. rbac \in RBACReconcile /\ rbac.cd \in ClusterDeployment
      BY RunningType
  <1>2. rbac' = [rbac EXCEPT !.pc = "status", !.cd = [rbac.cd EXCEPT !.cond = cond]]
      BY <1>1 DEF Report, RBACReconcile
  <1>3. rbac'.pc = "status" /\ rbac'.cd = [rbac.cd EXCEPT !.cond = cond]
      BY <1>1, <1>2 DEF RBACReconcile
  <1> QED BY <1>1, <1>3 DEF ClusterDeployment

LEMMA ReconcileLedger ==
    ASSUME ~StaleReads, ChildTypeOK, LedgerInv, ReconcileStep
    PROVE  LedgerInv'
  <1>1. CASE BeginRBAC
      BY <1>1
      DEF BeginRBAC, cluster, LedgerInv, GrantRecorded, Reconciling,
          NoReconcile
  <1>2. CASE \/ SkipFresh \/ AwaitKubeconfig \/ SyncUnavailable
             \/ RevokeNothing \/ RevokeUnavailable
    <2>1. Reconciling("run") /\ rbac # NoReconcile /\ rbac.cd \in ClusterDeployment
        BY <1>2, RunningType
        DEF SkipFresh, AwaitKubeconfig, SyncUnavailable,
            RevokeNothing, RevokeUnavailable, MustSync, MayRevoke,
            Reconciling
    <2>2. rbac.cd.ref \in BOOLEAN /\ rbac.cd.cond \in BOOLEAN
          /\ (capi \/ rbac.cd.cond) \in BOOLEAN
        BY <2>1 DEF ClusterDeployment
    <2>3. PICK cond \in BOOLEAN : Report(cond)
        BY <1>2, <2>2
        DEF SkipFresh, AwaitKubeconfig, SyncUnavailable,
            RevokeNothing, RevokeUnavailable
    <2>4. UNCHANGED <<cd, child, capi>>
        BY <1>2
        DEF SkipFresh, AwaitKubeconfig, SyncUnavailable,
            RevokeNothing, RevokeUnavailable, cluster
    <2>5. rbac'.pc = "status" /\ rbac'.cd.grant = rbac.cd.grant
        BY <2>1, <2>3, ReportEffect
    <2> QED BY <2>1, <2>4, <2>5 DEF LedgerInv, GrantRecorded, Reconciling
  <1>3. CASE MarkRBACGranted
    <2>1. /\ Reconciling("run") /\ rbac \in RBACReconcile
          /\ rbac.cd \in ClusterDeployment
        BY <1>3, RunningType DEF MarkRBACGranted, MustSync, Reconciling
    <2>2. /\ rbac'.pc = "sync"
          /\ cd'.grant
          /\ rbac'.cd.grant
          /\ UNCHANGED <<child, capi>>
      <3>1. UNCHANGED <<child, capi>>
          BY <1>3 DEF MarkRBACGranted, cluster
      <3>2. CASE rbac.cd.grant
        <4>1. rbac' = [rbac EXCEPT !.pc = "sync"] /\ cd' = cd
            BY <1>3, <3>2 DEF MarkRBACGranted
        <4>2. rbac'.pc = "sync" /\ rbac'.cd = rbac.cd
            BY <2>1, <4>1 DEF RBACReconcile
        <4>3. cd.grant
            BY <2>1, <3>2 DEF LedgerInv
        <4> QED BY <3>1, <3>2, <4>1, <4>2, <4>3
      <3>3. CASE ~rbac.cd.grant
        <4>1. /\ cd' = [cd EXCEPT !.grant = TRUE]
              /\ rbac' = [rbac EXCEPT !.pc = "sync", !.base = cd', !.cd = cd']
            BY <1>3, <3>3 DEF MarkRBACGranted
        <4>2. cd \in ClusterDeployment
            BY DEF ChildTypeOK
        <4>3. cd'.grant
            BY <4>1, <4>2 DEF ClusterDeployment
        <4>4. rbac'.pc = "sync" /\ rbac'.cd = cd'
            BY <2>1, <4>1 DEF RBACReconcile
        <4> QED BY <3>1, <4>3, <4>4
      <3> QED BY <3>2, <3>3
    <2> QED BY <2>2 DEF LedgerInv, GrantRecorded, Reconciling
  <1>4. CASE Sync
    <2>1. Reconciling("sync") /\ rbac \in RBACReconcile
        BY <1>4, RunningType DEF Sync, Reconciling
    <2>2. rbac'.pc = "prune" /\ rbac'.cd = rbac.cd /\ UNCHANGED <<cd, capi>>
        BY <1>4, <2>1 DEF Sync, RBACReconcile, cluster
    <2>3. capi \/ child' = child
        BY <1>4 DEF Sync
    <2> QED BY <2>1, <2>2, <2>3 DEF LedgerInv, GrantRecorded, Reconciling
  <1>5. CASE PruneStale
    <2>1. Reconciling("prune") /\ rbac # NoReconcile
        BY <1>5 DEF PruneStale, Reconciling
    <2>2. rbac'.pc = "status" /\ rbac'.cd.grant = rbac.cd.grant
        BY <1>5, <2>1, ReportEffect DEF PruneStale
    <2>3. child' \subseteq child /\ UNCHANGED <<cd, capi>>
        BY <1>5 DEF PruneStale, cluster
    <2> QED BY <2>1, <2>2, <2>3 DEF LedgerInv, GrantRecorded, Reconciling
  <1>6. CASE Revoke
    <2>1. Reconciling("run") /\ rbac # NoReconcile /\ rbac \in RBACReconcile
        BY <1>6, RunningType DEF Revoke, MayRevoke, Reconciling
    <2>2. rbac.cd \in ClusterDeployment /\ rbac.cd.cond \in BOOLEAN
        BY <2>1, RunningType DEF ClusterDeployment
    <2>3. child' \subseteq child /\ UNCHANGED <<cd, capi>>
        BY <1>6 DEF Revoke, cluster
    <2>4. GrantRecorded' /\ (capi' \/ child' = {})
        BY <2>3 DEF LedgerInv, GrantRecorded
    <2>5. CASE kubeconfig /\ child' # {}
      <3>1. Report(rbac.cd.cond)
          BY <1>6, <2>5 DEF Revoke
      <3>2. rbac'.pc = "status" /\ rbac'.cd.grant = rbac.cd.grant
          BY <2>1, <2>2, <3>1, ReportEffect
      <3> QED
          BY <2>1, <2>3, <2>4, <3>2
          DEF LedgerInv, GrantRecorded, Reconciling
    <2>6. CASE ~(kubeconfig /\ child' # {})
      <3>1. rbac'.pc = "status"
          BY <1>6, <2>1, <2>6 DEF Revoke, RBACReconcile
      <3>2. kubeconfig \/ ~(rbac.cd.grant /\ capi)
          BY <1>6 DEF Revoke
      <3>3. child' = {}
          BY <2>1, <2>3, <2>6, <3>2 DEF LedgerInv, GrantRecorded
      <3> QED BY <2>4, <3>1, <3>3 DEF LedgerInv, Reconciling
    <2> QED BY <2>5, <2>6
  <1>7. CASE UpdateRBACStatus
    <2>1. Reconciling("status") /\ rbac.cd \in ClusterDeployment
        BY <1>7, RunningType DEF UpdateRBACStatus, Reconciling
    <2>2. rbac' = NoReconcile /\ UNCHANGED <<child, capi>>
        BY <1>7 DEF UpdateRBACStatus, cluster
    <2>3. cd'.grant = cd.grant \/ cd'.grant = rbac.cd.grant
        BY <1>7, <2>1 DEF UpdateRBACStatus, ChildTypeOK, ClusterDeployment
    <2> QED BY <2>1, <2>2, <2>3 DEF LedgerInv, GrantRecorded, Reconciling
  <1> QED
      BY <1>1, <1>2, <1>3, <1>4, <1>5, <1>6, <1>7 DEF ReconcileStep

LEMMA EnvironmentLedger ==
    ASSUME ChildTypeOK, LedgerInv, Environment
    PROVE  LedgerInv'
  <1>1. CASE \/ SyncExpires \/ CacheCatchesUp \/ EditPolicy
             \/ KubeconfigLost \/ KubeconfigReady
      BY <1>1
      DEF SyncExpires, CacheCatchesUp, KubeconfigLost,
          KubeconfigReady, EditPolicy, cluster, LedgerInv,
          GrantRecorded, Reconciling
  <1>2. CASE ControllerCrash
      BY <1>2
      DEF ControllerCrash, cluster, LedgerInv, GrantRecorded, Reconciling
  <1>3. CASE ClusterGone
      BY <1>3 DEF ClusterGone, LedgerInv, GrantRecorded, Reconciling
  <1>4. CASE EditReference
    <2>1. cd'.grant = cd.grant
        BY <1>4 DEF EditReference, ChildTypeOK, ClusterDeployment
    <2> QED
        BY <1>4, <2>1
        DEF EditReference, cluster, LedgerInv, GrantRecorded,
            Reconciling
  <1> QED BY <1>1, <1>2, <1>3, <1>4 DEF Environment

(* With fresh reads the ledger is right in every reachable state: whatever *)
(* crashes, conflicts, failed calls and edits come between, no managed     *)
(* object is in the child cluster without the record that revokes it.      *)
THEOREM LedgerHolds ==
    ASSUME ~StaleReads
    PROVE  ChildSpec => []GrantRecorded
  <1>1. ChildInit => ChildTypeOK /\ LedgerInv
      BY ChildInitTypeOK, InitLedger
  <1>2. ChildTypeOK /\ LedgerInv /\ [ChildNext]_childVars
          => ChildTypeOK' /\ LedgerInv'
    <2>1. ASSUME LedgerInv, UNCHANGED childVars PROVE LedgerInv'
        BY <2>1
        DEF childVars, cluster, LedgerInv, GrantRecorded, Reconciling
    <2> QED
        BY <2>1, ChildNextTypeOK, ReconcileLedger, EnvironmentLedger DEF ChildNext
  <1>3. LedgerInv => GrantRecorded
      BY DEF LedgerInv
  <1> QED
      BY <1>1, <1>2, <1>3, PTL DEF ChildSpec
=============================================================================
