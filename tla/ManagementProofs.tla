-------------------------- MODULE ManagementProofs --------------------------
(***************************************************************************)
(* Releases, the Management object and Regions, for any providers, Regions *)
(* and releases, any number of edits and faults, and any interleaving of   *)
(* the passes with users, Flux and velero.                                 *)
(***************************************************************************)
EXTENDS Management, FiniteSetTheorems, SequenceTheorems, TLAPS

(* The conjuncts of TypeOK, by the groups of variables that actions leave  *)
(* alone.                                                                  *)
TypeReleases ==
    /\ rel \in [Release -> {"absent", "created", "ready"}]
    /\ chart \in [Release -> {"none", "pending", "installed"}]
    /\ tpl \in [Release -> {"none", "invalid", "valid"}]
    /\ boot \in BOOLEAN /\ built \in Release
    /\ rqueue \subseteq Release
TypeObjects ==
    /\ want \in 0 .. MaxRelease /\ back \in BOOLEAN
    /\ prov \in [Owner -> SUBSET Provider]
    /\ gen \in [Owner -> 0 .. MaxChanges + 1]
    /\ phase \in [Owner -> {"absent", "live", "deleting", "gone"}]
    /\ fin \in [Owner -> BOOLEAN]
    /\ stat \in [Owner -> Status]
TypeHelm ==
    /\ hr \in [Owner \X Comp -> 0 .. MaxRelease]
    /\ inst \in [Owner \X Comp -> 0 .. MaxRelease]
    /\ del \in [Owner \X Comp -> BOOLEAN]
    /\ landed \subseteq Owner \X Comp \X Release
TypeProcess ==
    /\ mb \in [Backup \X Release -> {"none", "running", "done"}]
    /\ made \subseteq {"AccessManagement", "StateManagementProvider"}
    /\ started \in BOOLEAN
    /\ queue \subseteq Owner
TypePass ==
    /\ pc \in [Owner -> {"idle", "backup", "component", "status", "remove", "finalizer"}]
    /\ snap \in [Owner -> Snaps]
    /\ fresh \in [Owner -> BOOLEAN]
    /\ todo \in [Owner -> Seq(Comp)]
    /\ ok \in [Owner -> SUBSET Comp]
    /\ err \in [Owner -> BOOLEAN] /\ again \in [Owner -> BOOLEAN]

(* A pass has components left before it gets to them, and the generation   *)
(* counts edits.                                                           *)
TypeBounds ==
    /\ edits \in 0 .. MaxChanges /\ faults \in 0 .. MaxFaults
    /\ \A o \in Owner : gen[o] <= edits + 1
Left == \A o \in Owner : pc[o] \in {"backup", "component"} => todo[o] # << >>

TypeInv ==
    /\ TypeReleases /\ TypeObjects /\ TypeHelm
    /\ TypeProcess /\ TypePass /\ TypeBounds /\ Left

LEMMA TypeInvIsTypeOK == TypeInv => TypeOK
  BY DEF TypeInv, TypeReleases, TypeObjects, TypeHelm, TypeProcess, TypePass, TypeBounds,
         TypeOK

LEMMA Constants ==
    /\ MaxRelease \in Nat \ {0} /\ MaxChanges \in Nat /\ MaxFaults \in Nat
    /\ Mgmt \in Owner /\ Region \subseteq Owner /\ Mgmt \notin Region
    /\ 1 \in Release /\ Release \subseteq 0 .. MaxRelease
    /\ "kcm" \in Comp /\ "capi" \in Comp /\ Provider \subseteq Comp
    /\ NoSnap \in Snaps /\ NoStatus \in Status
  BY ManagementAssumption DEF Owner, Release, Comp, NoSnap, Snaps, NoStatus, Status

(* Groups that are left alone keep their types.                            *)
LEMMA Unchanged ==
    /\ UNCHANGED releases /\ TypeReleases => TypeReleases'
    /\ UNCHANGED objects /\ TypeObjects => TypeObjects'
    /\ UNCHANGED helm /\ TypeHelm => TypeHelm'
    /\ UNCHANGED <<process, queue>> /\ TypeProcess => TypeProcess'
    /\ UNCHANGED pass /\ TypePass => TypePass'
    /\ UNCHANGED pass /\ Left => Left'
    /\ UNCHANGED <<bounds, gen>> /\ TypeBounds => TypeBounds'
  BY DEF releases, objects, helm, process, pass, bounds, TypeReleases, TypeObjects, TypeHelm,
         TypeProcess, TypePass, TypeBounds, Left

(* A fault and an edit are counted.                                        *)
LEMMA Counted ==
    ASSUME TypeInv
    PROVE  /\ Fault /\ UNCHANGED <<edits, gen>> => TypeBounds'
           /\ Edit /\ UNCHANGED faults /\ (\A o \in Owner : gen'[o] <= gen[o] + 1 \/ gen'[o] = 1)
              /\ (\A o \in Owner : gen'[o] \in Nat) =>
                TypeBounds' /\ \A o \in Owner : gen'[o] \in 0 .. MaxChanges + 1
  <1>1. /\ edits \in Nat /\ faults \in Nat /\ edits <= MaxChanges /\ faults <= MaxFaults
        /\ \A o \in Owner : gen[o] \in Nat /\ gen[o] <= edits + 1
      BY Constants DEF TypeInv, TypeBounds, TypeObjects
  <1>2. ASSUME Fault, UNCHANGED <<edits, gen>> PROVE TypeBounds'
      BY <1>1, <1>2, Constants DEF Fault, TypeBounds
  <1>3. ASSUME Edit, UNCHANGED faults, \A o \in Owner : gen'[o] <= gen[o] + 1 \/ gen'[o] = 1,
               \A o \in Owner : gen'[o] \in Nat
        PROVE  TypeBounds' /\ \A o \in Owner : gen'[o] \in 0 .. MaxChanges + 1
      BY <1>1, <1>3, Constants DEF Edit, TypeBounds
  <1> QED BY <1>2, <1>3

LEMMA ForgetTypes ==
    ASSUME TypeInv, NEW o \in Owner, Forget(o)
    PROVE  TypePass' /\ Left'
  <1>1. << >> \in Seq(Comp)
      OBVIOUS
  <1>2. TypePass'
      BY <1>1, Constants DEF TypeInv, TypePass, Forget, To
  <1>3. Left'
      BY DEF TypeInv, TypePass, Left, Forget, To
  <1> QED BY <1>2, <1>3

LEMMA RestartedTypes ==
    ASSUME TypeInv, Restarted
    PROVE  /\ TypePass' /\ Left' /\ boot' \in BOOLEAN /\ rqueue' \subseteq Release
           /\ started' \in BOOLEAN /\ queue' \subseteq Owner
  <1>1. << >> \in Seq(Comp)
      OBVIOUS
  <1> QED BY <1>1, Constants DEF TypePass, Left, Restarted

LEMMA FailedStatusTypes ==
    ASSUME TypeInv, NEW o \in Owner, FailedStatus(o)
    PROVE  stat' \in [Owner -> Status]
  BY DEF TypeInv, TypeObjects, FailedStatus, Status

(* The components of a pass are components, and there are some.            *)
LEMMA Wrapped ==
    ASSUME NEW ps \in SUBSET Provider, NEW order \in WrappedComponents(ps)
    PROVE  order \in Seq(Comp) /\ order # << >>
  <1>1. Cardinality(ps) \in Nat
      BY ManagementAssumption, FS_Subset, FS_CardinalityType
  <1>2. PICK f \in [1 .. Cardinality(ps) -> ps] : order = Core \o f
      BY DEF WrappedComponents
  <1>3. f \in Seq(Comp)
      BY <1>1, Constants
  <1>4. Core \in Seq(Comp) /\ Len(Core) = 2
      BY Constants DEF Core
  <1> HIDE DEF Core
  <1>5. Core \o f \in Seq(Comp)
      BY <1>3, <1>4, ConcatProperties, Zenon
  <1>6. Core # << >>
      BY <1>4
  <1>7. Core \o f = << >> => Core = << >>
      BY <1>3, <1>4, ConcatSimplifications!concIsEmpty, Zenon
  <1> QED BY <1>2, <1>5, <1>6, <1>7

(* What is left of a list when its head has been taken.                    *)
LEMMA Consumed ==
    ASSUME NEW q \in Seq(Comp), q # << >>
    PROVE  /\ Head(q) \in Comp /\ Tail(q) \in Seq(Comp)
           /\ Len(q) # 1 => Tail(q) # << >>
  <1>1. Head(q) \in Comp /\ Tail(q) \in Seq(Comp) /\ Len(q) \in Nat
      OBVIOUS
  <1>2. Len(Tail(q)) = Len(q) - 1
      OBVIOUS
  <1>3. Tail(q) = << >> => Len(Tail(q)) = 0
      BY EmptySeq, Zenon
  <1> QED BY <1>1, <1>2, <1>3

LEMMA ComponentDoneTypes ==
    ASSUME TypeInv, NEW o \in Owner, pc[o] = "component",
           NEW s \in BOOLEAN, NEW f \in BOOLEAN, NEW w \in BOOLEAN, ComponentDone(o, s, f, w),
           UNCHANGED <<snap, fresh>>
    PROVE  TypePass' /\ Left' /\ Head(todo[o]) \in Comp
  <1>1. todo[o] \in Seq(Comp) /\ todo[o] # << >>
      BY DEF TypeInv, TypePass, Left
  <1>2. /\ Head(todo[o]) \in Comp /\ Tail(todo[o]) \in Seq(Comp)
        /\ Len(todo[o]) # 1 => Tail(todo[o]) # << >>
      BY <1>1, Consumed
  <1>4. TypePass'
      BY <1>2 DEF TypeInv, TypePass, ComponentDone, To
  <1>5. Left'
      BY <1>2 DEF TypeInv, TypePass, Left, ComponentDone, To
  <1> QED BY <1>2, <1>4, <1>5

-----------------------------------------------------------------------------
(* Type correctness, one lemma for each controller.                        *)

LEMMA ReleaseTypes ==
    ASSUME TypeInv, NEW r \in Release,
           \/ ReleaseStep(r) \/ CreateRelease(r) \/ FluxInstallsTemplates(r)
           \/ TemplateValidated(r) \/ TemplateInvalidated(r)
    PROVE  TypeInv'
  <1>1. TypeReleases'
      BY Constants DEF TypeInv, TypeReleases, ReleaseStep, SkipRelease, ReconcileKCMTemplates,
         ValidateProviderTemplates, CreateRelease, FluxInstallsTemplates, TemplateValidated,
         TemplateInvalidated
  <1>2. /\ UNCHANGED <<objects, helm, process, queue, pass>>
        /\ UNCHANGED bounds \/ (Fault /\ UNCHANGED edits)
      BY DEF ReleaseStep, SkipRelease, ReconcileKCMTemplates,
         ValidateProviderTemplates, CreateRelease, FluxInstallsTemplates, TemplateValidated,
         TemplateInvalidated
  <1>3. TypeBounds'
      BY <1>2, Counted, Unchanged DEF TypeInv, objects
  <1> QED BY <1>1, <1>2, <1>3, Unchanged DEF TypeInv

LEMMA EnsureManagementTypes ==
    ASSUME TypeInv, EnsureManagement
    PROVE  TypeInv'
  <1>1. TypeReleases'
      BY DEF TypeInv, TypeReleases, EnsureManagement
  <1>2. TypeObjects' /\ TypeBounds'
      BY Constants DEF TypeInv, TypeReleases, TypeObjects, TypeBounds, EnsureManagement, bounds
  <1>3. TypeProcess'
      BY Constants DEF TypeInv, TypeProcess, EnsureManagement, process
  <1> QED BY <1>1, <1>2, <1>3, Unchanged DEF TypeInv, EnsureManagement

LEMMA ReconcileTypes ==
    ASSUME TypeInv, NEW o \in Owner, Reconcile(o)
    PROVE  TypeInv'
  <1>1. queue' \subseteq Owner /\ UNCHANGED <<hr, inst, landed, ok, err, again>>
      BY DEF TypeInv, TypeProcess, Reconcile
  <1>2. TypeProcess'
      BY <1>1 DEF TypeInv, TypeProcess, Reconcile, process
  <1>3. TypeHelm' /\ TypePass' /\ Left'
    <2>1. CASE /\ Live(o) /\ fin[o]
               /\ snap' = [snap EXCEPT ![o] = [release |-> SpecRelease(o), prov |-> prov[o]]]
               /\ \E order \in WrappedComponents(prov[o]) : todo' = [todo EXCEPT ![o] = order]
               /\ Cleanup(o)
               /\ To(o, IF o = Mgmt THEN "backup" ELSE "component")
               /\ fresh' = [fresh EXCEPT ![o] = TRUE]
      <3>1. prov[o] \in SUBSET Provider
          BY DEF TypeInv, TypeObjects
      <3>2. PICK order \in WrappedComponents(prov[o]) : todo' = [todo EXCEPT ![o] = order]
          BY <2>1
      <3>3. order \in Seq(Comp) /\ order # << >>
          BY <3>1, Wrapped
      <3>4. TypeHelm'
          BY <1>1, <2>1 DEF TypeInv, TypeHelm, Cleanup
      <3>5. [release |-> SpecRelease(o), prov |-> prov[o]] \in Snaps
          BY <3>1 DEF TypeInv, TypeObjects, Snaps, SpecRelease
      <3>6. TypePass'
          BY <1>1, <2>1, <3>2, <3>3, <3>5 DEF TypeInv, TypePass, To
      <3>7. Left'
          BY <2>1, <3>2, <3>3 DEF TypeInv, TypePass, Left, To
      <3> QED BY <3>4, <3>6, <3>7
    <2>2. CASE /\ phase[o] = "deleting" /\ To(o, "remove")
               /\ fresh' = [fresh EXCEPT ![o] = TRUE]
               /\ UNCHANGED <<snap, todo, del>>
        BY <1>1, <2>2 DEF TypeInv, TypePass, TypeHelm, Left, To
    <2>3. CASE UNCHANGED <<snap, todo, pc, fresh, del>>
        BY <1>1, <2>3 DEF TypeInv, TypePass, TypeHelm, Left
    <2> QED BY <2>1, <2>2, <2>3 DEF Reconcile
  <1> QED BY <1>2, <1>3, Unchanged DEF TypeInv, Reconcile, objects

LEMMA PassTypes ==
    ASSUME TypeInv, NEW o \in Owner, AddFinalizer(o) \/ PassFails(o) \/ RemoveFinalizer(o)
    PROVE  TypeInv'
  <1>1. CASE AddFinalizer(o)
    <2>1. TypeObjects'
        BY <1>1 DEF TypeInv, TypeObjects, AddFinalizer
    <2> QED BY <1>1, <2>1, Unchanged DEF TypeInv, AddFinalizer
  <1>2. CASE PassFails(o)
    <2>1. TypePass' /\ Left'
        BY <1>2, ForgetTypes DEF PassFails
    <2>2. TypeObjects'
        BY <1>2, FailedStatusTypes DEF TypeInv, TypeObjects, PassFails
    <2>3. TypeProcess'
        BY <1>2 DEF TypeInv, TypeProcess, PassFails, process
    <2>4. TypeBounds'
        BY <1>2, Counted DEF PassFails
    <2> QED BY <1>2, <2>1, <2>2, <2>3, <2>4, Unchanged DEF TypeInv, PassFails
  <1>3. CASE RemoveFinalizer(o)
    <2>1. TypePass' /\ Left'
        BY <1>3, ForgetTypes DEF RemoveFinalizer
    <2>2. TypeObjects'
        BY <1>3 DEF TypeInv, TypeObjects, RemoveFinalizer
    <2>3. TypeProcess'
        BY <1>3 DEF TypeInv, TypeProcess, RemoveFinalizer, process
    <2> QED BY <1>3, <2>1, <2>2, <2>3, Unchanged DEF TypeInv, RemoveFinalizer
  <1> QED BY <1>1, <1>2, <1>3

LEMMA EnsureUpgradeBackupTypes ==
    ASSUME TypeInv, NEW o \in Owner, EnsureUpgradeBackup(o)
    PROVE  TypeInv'
  <1>1. mb' \in [Backup \X Release -> {"none", "running", "done"}]
      BY DEF TypeInv, TypeProcess, EnsureUpgradeBackup, Requested
  <1>2. CASE queue' = queue \union {o} /\ Forget(o) /\ UNCHANGED <<made, faults>>
    <2>1. TypePass' /\ Left'
        BY <1>2, ForgetTypes
    <2>2. TypeProcess'
        BY <1>1, <1>2 DEF TypeInv, TypeProcess, EnsureUpgradeBackup
    <2> QED BY <1>2, <2>1, <2>2, Unchanged DEF TypeInv, EnsureUpgradeBackup, bounds, objects
  <1>3. CASE /\ EnsureObjects /\ To(o, "component")
             /\ UNCHANGED <<queue, snap, fresh, todo, ok, err, again>>
    <2>1. TypePass' /\ Left'
        BY <1>3 DEF TypeInv, TypePass, Left, To, EnsureUpgradeBackup
    <2>2. made' \subseteq {"AccessManagement", "StateManagementProvider"}
        BY <1>3 DEF TypeInv, TypeProcess, EnsureObjects
    <2>3. TypeProcess'
        BY <1>1, <1>3, <2>2 DEF TypeInv, TypeProcess, EnsureUpgradeBackup
    <2>4. TypeBounds'
      <3>1. Fault \/ UNCHANGED faults
          BY <1>3 DEF EnsureObjects
      <3> QED BY <3>1, Counted, Unchanged DEF TypeInv, EnsureUpgradeBackup, bounds, objects
    <2> QED BY <2>1, <2>3, <2>4, Unchanged DEF TypeInv, EnsureUpgradeBackup
  <1> QED BY <1>2, <1>3 DEF EnsureUpgradeBackup

LEMMA ComponentTypes ==
    ASSUME TypeInv, NEW o \in Owner, DependencyNotReady(o) \/ ComponentFails(o)
    PROVE  TypeInv'
  <1>1. CASE DependencyNotReady(o)
    <2>1. TypePass' /\ Left'
        BY <1>1, ComponentDoneTypes DEF DependencyNotReady
    <2> QED BY <1>1, <2>1, Unchanged DEF TypeInv, DependencyNotReady, objects
  <1>2. CASE ComponentFails(o)
    <2>1. TypePass' /\ Left'
        BY <1>2, ComponentDoneTypes DEF ComponentFails
    <2>2. TypeBounds'
        BY <1>2, Counted, Unchanged DEF TypeInv, ComponentFails, bounds, objects
    <2> QED BY <1>2, <2>1, <2>2, Unchanged DEF TypeInv, ComponentFails
  <1> QED BY <1>1, <1>2

LEMMA HelmReleaseTypes ==
    ASSUME TypeInv, NEW o \in Owner, ReconcileHelmRelease(o)
    PROVE  TypeInv'
  <1> DEFINE c == Head(todo[o])
             r == snap[o].release
  <1>1. PICK seen \in BOOLEAN : ComponentDone(o, seen, FALSE, ~seen)
      BY DEF ReconcileHelmRelease, ProviderReady
  <1>2. TypePass' /\ Left' /\ c \in Comp
      BY <1>1, ComponentDoneTypes DEF ReconcileHelmRelease
  <1>3. r \in 0 .. MaxRelease
      BY DEF TypeInv, TypePass, Snaps
  <1>4. TypeHelm'
      BY <1>2, <1>3, Constants DEF TypeInv, TypeHelm, ReconcileHelmRelease
  <1> QED BY <1>2, <1>4, Unchanged DEF TypeInv, ReconcileHelmRelease, objects

LEMMA UpdateStatusTypes ==
    ASSUME TypeInv, NEW o \in Owner, UpdateStatus(o)
    PROVE  TypeInv'
  <1>1. TypePass' /\ Left'
      BY ForgetTypes DEF UpdateStatus
  <1>2. NewStatus(o) \in Status
    <2>1. /\ stat[o] \in Status /\ snap[o] \in Snaps /\ gen[o] \in 0 .. MaxChanges + 1
          /\ ok[o] \subseteq Comp
        BY DEF TypeInv, TypeObjects, TypePass
    <2>2. Recorded(o) \in 0 .. MaxRelease /\ Listed(o) \subseteq Comp /\ Ready(o) \in BOOLEAN
        BY <2>1, Constants DEF Recorded, Listed, Ready, Status, Snaps
    <2> QED BY <2>1, <2>2 DEF NewStatus, Status
  <1>3. TypeObjects'
      BY <1>2 DEF TypeInv, TypeObjects, UpdateStatus
  <1>4. TypeProcess'
      BY DEF TypeInv, TypeProcess, UpdateStatus
  <1> QED BY <1>1, <1>3, <1>4, Unchanged DEF TypeInv, UpdateStatus

LEMMA RemoveHelmReleasesTypes ==
    ASSUME TypeInv, NEW o \in Owner, RemoveHelmReleases(o)
    PROVE  TypeInv'
  <1>1. TypeReleases'
      BY Constants DEF TypeInv, TypeReleases, RemoveHelmReleases
  <1>2. TypeHelm'
      BY DEF TypeInv, TypeHelm, RemoveHelmReleases
  <1>3. TypePass' /\ Left'
      BY ForgetTypes DEF TypeInv, TypePass, Left, RemoveHelmReleases, To
  <1>4. TypeObjects'
      BY FailedStatusTypes DEF TypeInv, TypeObjects, RemoveHelmReleases
  <1>5. TypeProcess'
      BY DEF TypeInv, TypeProcess, RemoveHelmReleases, process
  <1> QED BY <1>1, <1>2, <1>3, <1>4, <1>5, Unchanged DEF TypeInv, RemoveHelmReleases

LEMMA UserTypes ==
    ASSUME TypeInv,
           \/ \E r \in Release : ChangeRelease(r)
           \/ \E o \in Owner : ChangeProviders(o) \/ Delete(o)
           \/ \E o \in Region : CreateRegion(o)
    PROVE  TypeInv'
  <1>1. TypePass' /\ Left'
      BY Constants DEF TypeInv, TypePass, Left, ChangeRelease, ChangeProviders, Delete,
         CreateRegion, Touch, pass
  <1>2. TypeProcess'
      BY Constants DEF TypeInv, TypeProcess, ChangeRelease, ChangeProviders, Delete,
         CreateRegion, process
  <1>3. gen \in [Owner -> 0 .. MaxChanges + 1]
      BY DEF TypeInv, TypeObjects
  <1>4. /\ \A o \in Owner : gen'[o] = gen[o] \/ gen'[o] = gen[o] + 1 \/ gen'[o] = 1
        /\ DOMAIN gen' = Owner /\ gen' = [o \in Owner |-> gen'[o]]
        /\ Edit /\ UNCHANGED faults
      BY <1>3, Constants DEF ChangeRelease, ChangeProviders, Delete, CreateRegion
  <1>5. TypeBounds' /\ gen' \in [Owner -> 0 .. MaxChanges + 1]
      BY <1>3, <1>4, Counted, Constants
  <1>6. TypeObjects'
    <2>1. CASE \E r \in Release : ChangeRelease(r)
        BY <1>5, <2>1, Constants DEF TypeInv, TypeObjects, ChangeRelease
    <2>2. CASE \E o \in Owner : ChangeProviders(o)
        BY <1>5, <2>2, Constants DEF TypeInv, TypeObjects, ChangeProviders
    <2>3. CASE \E o \in Owner : Delete(o)
        BY <1>5, <2>3 DEF TypeInv, TypeObjects, Delete
    <2>4. CASE \E o \in Region : CreateRegion(o)
        BY <1>5, <2>4, Constants DEF TypeInv, TypeObjects, CreateRegion
    <2> QED BY <2>1, <2>2, <2>3, <2>4
  <1>7. UNCHANGED <<releases, helm>>
      BY DEF ChangeRelease, ChangeProviders, Delete, CreateRegion
  <1> QED BY <1>1, <1>2, <1>5, <1>6, <1>7, Unchanged DEF TypeInv

LEMMA FluxTypes ==
    ASSUME TypeInv, NEW o \in Owner, NEW c \in Comp,
           FluxInstalls(o, c) \/ FluxUninstalls(o, c) \/ ComponentBreaks(o, c)
    PROVE  TypeInv'
  <1>1. TypeHelm'
    <2>1. hr[<<o, c>>] \in 0 .. MaxRelease /\ (hr[<<o, c>>] # 0 => hr[<<o, c>>] \in Release)
        BY Constants DEF TypeInv, TypeHelm, Release
    <2>2. CASE FluxInstalls(o, c)
        BY <2>1, <2>2, Constants DEF TypeInv, TypeHelm, FluxInstalls
    <2>3. CASE FluxUninstalls(o, c)
        BY <2>3, Constants DEF TypeInv, TypeHelm, FluxUninstalls
    <2>4. CASE ComponentBreaks(o, c)
        BY <2>4, Constants DEF TypeInv, TypeHelm, ComponentBreaks
    <2> QED BY <2>2, <2>3, <2>4
  <1>2. CASE FluxInstalls(o, c)
    <2>1. hr[<<o, c>>] \in Release
        BY <1>2, Constants DEF TypeInv, TypeHelm, FluxInstalls, Release
    <2>2. CASE Restarted /\ built' = hr[<<o, c>>]
      <3>1. TypeReleases' /\ TypeProcess' /\ TypePass' /\ Left'
          BY <1>2, <2>1, <2>2, RestartedTypes DEF TypeInv, TypeReleases, TypeProcess, FluxInstalls
      <3> QED BY <1>1, <1>2, <3>1, Unchanged DEF TypeInv, FluxInstalls, objects
    <2>3. CASE UNCHANGED <<boot, built, rqueue, started, queue, pass>>
      <3>1. TypeReleases' /\ TypeProcess'
          BY <1>2, <2>3 DEF TypeInv, TypeReleases, TypeProcess, FluxInstalls
      <3> QED BY <1>1, <1>2, <2>3, <3>1, Unchanged DEF TypeInv, FluxInstalls, objects
    <2> QED BY <1>2, <2>2, <2>3 DEF FluxInstalls
  <1>3. CASE FluxUninstalls(o, c)
      BY <1>1, <1>3, Unchanged DEF TypeInv, FluxUninstalls, objects
  <1>4. CASE ComponentBreaks(o, c)
    <2>1. TypeBounds'
        BY <1>4, Counted DEF ComponentBreaks, objects
    <2> QED BY <1>1, <1>4, <2>1, Unchanged DEF TypeInv, ComponentBreaks
  <1> QED BY <1>2, <1>3, <1>4

LEMMA ProcessTypes ==
    ASSUME TypeInv,
           Restart \/ \E b \in Backup, r \in Release : BackupCompletes(b, r)
    PROVE  TypeInv'
  <1>1. CASE Restart
    <2>1. TypeReleases' /\ TypeProcess' /\ TypePass' /\ Left'
        BY <1>1, RestartedTypes DEF TypeInv, TypeReleases, TypeProcess, Restart
    <2>2. TypeBounds'
        BY <1>1, Counted DEF Restart, objects
    <2> QED BY <1>1, <2>1, <2>2, Unchanged DEF TypeInv, Restart
  <1>2. CASE \E b \in Backup, r \in Release : BackupCompletes(b, r)
    <2>1. TypeProcess'
        BY <1>2 DEF TypeInv, TypeProcess, BackupCompletes
    <2> QED BY <1>2, <2>1, Unchanged DEF TypeInv, BackupCompletes, objects
  <1> QED BY <1>1, <1>2

(* Every variable stays in its type, whatever is edited, fails or restarts *)
(* in the middle of a pass.                                                *)
THEOREM ManagementTypeCorrect == Spec => [](TypeOK /\ TypeInv)
  <1>1. Init => TypeInv
    <2>1. << >> \in Seq(Comp)
        OBVIOUS
    <2> SUFFICES ASSUME Init PROVE TypeInv
        OBVIOUS
    <2>2. TypeReleases
        BY Constants DEF Init, TypeReleases
    <2>3. TypeObjects
      <3>1. 0 \in 0 .. MaxRelease /\ 0 \in 0 .. MaxChanges + 1
          BY Constants
      <3>2. stat \in [Owner -> Status]
          BY Constants DEF Init
      <3> QED BY <3>1, <3>2 DEF Init, TypeObjects
    <2>6. TypeBounds
        BY Constants DEF Init, TypeBounds
    <2>4. TypeHelm /\ TypeProcess
      <3>1. TypeHelm
          BY Constants DEF Init, TypeHelm
      <3>2. TypeProcess
          BY DEF Init, TypeProcess
      <3> QED BY <3>1, <3>2
    <2>5. TypePass /\ Left
        BY <2>1, Constants DEF Init, TypePass, Left
    <2> QED BY <2>2, <2>3, <2>4, <2>5, <2>6 DEF TypeInv
  <1>2. TypeInv /\ [Next]_vars => TypeInv'
    <2> SUFFICES ASSUME TypeInv, [Next]_vars PROVE TypeInv'
        OBVIOUS
    <2>1. CASE Next
        BY <2>1, ReleaseTypes, EnsureManagementTypes, ReconcileTypes, PassTypes,
           EnsureUpgradeBackupTypes, ComponentTypes, HelmReleaseTypes, UpdateStatusTypes,
           RemoveHelmReleasesTypes, UserTypes, FluxTypes, ProcessTypes DEF Next, Step
    <2>2. CASE UNCHANGED vars
        BY <2>2, Unchanged DEF vars, TypeInv, objects
    <2> QED BY <2>1, <2>2
  <1> QED BY <1>1, <1>2, TypeInvIsTypeOK, PTL DEF Spec

-----------------------------------------------------------------------------
(* The life of an object and of its passes *)

InPass == {"backup", "component", "status"}

(* The Management object comes first and goes last: Regions exist only     *)
(* while it is live.                                                       *)
ObjectsInv ==
    /\ boot => phase[Mgmt] = "absent"
    /\ phase[Mgmt] = "absent" => stat[Mgmt] = NoStatus /\ \A o \in Owner : phase[o] = "absent"
    /\ phase[Mgmt] # "absent" => want # 0
    /\ ~Live(Mgmt) => \A o \in Region : ~Exists(o)
    /\ stat[Mgmt].obs <= gen[Mgmt]

(* A pass is under way, and HelmReleases are there, only while the         *)
(* finalizer holds the object; what a pass has seen installed stays        *)
(* written to its end.                                                     *)
PassInv(o) ==
    /\ fin[o] => Exists(o)
    /\ phase[o] = "deleting" => fin[o]
    /\ pc[o] # "idle" => fin[o]
    /\ pc[o] \in {"remove", "finalizer"} => phase[o] = "deleting"
    /\ pc[o] \in InPass => snap[o].release # 0
    /\ pc[o] \notin {"component", "status"} => ok[o] = {}
    /\ \A c \in Comp : hr[<<o, c>>] # 0 => fin[o] /\ pc[o] # "finalizer"
    /\ \A c \in ok[o] : hr[<<o, c>>] = snap[o].release /\ ~del[<<o, c>>]

LifeInv == ObjectsInv /\ \A o \in Owner : PassInv(o)

(* Nothing of this is about Releases, backups and the queue.               *)
LEMMA LifeFrame ==
    ASSUME LifeInv, UNCHANGED <<boot, objects, hr, del, pc, snap, ok>>
    PROVE  LifeInv'
  BY DEF LifeInv, ObjectsInv, PassInv, Live, Exists, objects

(* A pass of o that ends, with nothing marked for deletion elsewhere.      *)
LEMMA ForgetLife ==
    ASSUME TypeInv, LifeInv, NEW o \in Owner, Forget(o), UNCHANGED <<phase, fin, hr>>,
           NEW p \in Owner,
           p = o \/ \A c \in ok[p] : del'[<<p, c>>] = del[<<p, c>>]
    PROVE  PassInv(p)'
  <1>1. PassInv(p)
      BY DEF LifeInv
  <1>2. CASE p = o
    <2>1. pc'[p] = "idle" /\ ok'[p] = {}
        BY <1>2 DEF TypeInv, TypePass, Forget, To
    <2> QED BY <1>1, <2>1 DEF PassInv, Exists, InPass
  <1>3. CASE p # o
    <2>1. pc'[p] = pc[p] /\ ok'[p] = ok[p] /\ snap'[p] = snap[p]
        BY <1>3 DEF TypeInv, TypePass, Forget, To
    <2> QED BY <1>1, <1>3, <2>1 DEF PassInv, Exists
  <1> QED BY <1>2, <1>3

LEMMA EnsureManagementLife ==
    ASSUME TypeInv, LifeInv, EnsureManagement
    PROVE  LifeInv'
  <1>1. phase[Mgmt] = "absent" /\ \A o \in Owner : phase[o] = "absent"
      BY DEF LifeInv, ObjectsInv, EnsureManagement
  <1>2. \A o \in Owner : o # Mgmt => phase'[o] = phase[o] /\ fin'[o] = fin[o]
      BY DEF TypeInv, TypeObjects, EnsureManagement
  <1>3. phase'[Mgmt] = "live" /\ fin'[Mgmt] /\ gen'[Mgmt] = 1 /\ want' \in Release
      BY Constants DEF TypeInv, TypeObjects, TypeReleases, EnsureManagement
  <1>4. ObjectsInv'
    <2>1. stat[Mgmt].obs = 0
        BY <1>1 DEF LifeInv, ObjectsInv, NoStatus
    <2> QED BY <1>3, <2>1, Constants DEF ObjectsInv, Live, EnsureManagement, Release
  <1>5. ASSUME NEW o \in Owner PROVE PassInv(o)'
    <2>1. PassInv(o) /\ ~fin[o]
        BY <1>1 DEF LifeInv, PassInv, Exists
    <2> QED BY <1>2, <1>3, <2>1 DEF PassInv, Exists, EnsureManagement, helm, pass, InPass
  <1> QED BY <1>4, <1>5 DEF LifeInv

LEMMA ReconcileLife ==
    ASSUME TypeInv, LifeInv, NEW o \in Owner, Reconcile(o)
    PROVE  LifeInv'
  <1>0. UNCHANGED <<boot, want, stat, gen, phase, fin, hr, ok>>
      BY DEF Reconcile, releases, objects
  <1>1. ObjectsInv'
      BY <1>0 DEF LifeInv, ObjectsInv, Live, Exists
  <1>2. ok[o] = {} /\ pc[o] = "idle"
      BY DEF LifeInv, PassInv, Reconcile
  <1>3. ASSUME NEW p \in Owner, p # o PROVE PassInv(p)'
    <2>0. Cleanup(o) => \A c \in Comp : del'[<<p, c>>] = del[<<p, c>>]
        BY <1>3 DEF Cleanup, TypeInv, TypeHelm
    <2>1. /\ pc'[p] = pc[p] /\ snap'[p] = snap[p]
          /\ \A c \in Comp : del'[<<p, c>>] = del[<<p, c>>]
        BY <1>3, <2>0 DEF Reconcile, To, TypeInv, TypePass
    <2>2. ok[p] \subseteq Comp
        BY DEF TypeInv, TypePass
    <2> QED BY <1>0, <2>1, <2>2 DEF LifeInv, PassInv, Exists
  <1>4. PassInv(o)'
    <2>0. PassInv(o)
        BY DEF LifeInv
    <2>1. CASE Live(o) /\ fin[o] /\ To(o, IF o = Mgmt THEN "backup" ELSE "component")
               /\ snap' = [snap EXCEPT ![o] = [release |-> SpecRelease(o), prov |-> prov[o]]]
      <3>1. snap'[o].release = want /\ pc'[o] \in {"backup", "component"}
          BY <2>1 DEF TypeInv, TypePass, SpecRelease, To
      <3>2. want # 0
          BY <2>1, Constants DEF LifeInv, ObjectsInv, Live
      <3> QED BY <1>0, <1>2, <2>0, <2>1, <3>1, <3>2 DEF PassInv, Exists
    <2>2. CASE phase[o] = "deleting" /\ To(o, "remove")
      <3>1. pc'[o] = "remove"
          BY <2>2 DEF TypeInv, TypePass, To
      <3> QED BY <1>0, <1>2, <2>0, <2>2, <3>1 DEF PassInv, Exists, InPass
    <2>3. CASE UNCHANGED <<snap, pc>>
        BY <1>0, <1>2, <2>0, <2>3 DEF PassInv, Exists
    <2> QED BY <2>1, <2>2, <2>3 DEF Reconcile
  <1> QED BY <1>1, <1>3, <1>4 DEF LifeInv

LEMMA AddFinalizerLife ==
    ASSUME TypeInv, LifeInv, NEW o \in Owner, AddFinalizer(o)
    PROVE  LifeInv'
  <1>1. ObjectsInv'
      BY DEF LifeInv, ObjectsInv, Live, Exists, AddFinalizer, releases
  <1>2. ASSUME NEW p \in Owner PROVE PassInv(p)'
    <2>1. PassInv(p) /\ fin' = [fin EXCEPT ![o] = TRUE] /\ Live(o) /\ fin \in [Owner -> BOOLEAN]
        BY DEF LifeInv, AddFinalizer, TypeInv, TypeObjects
    <2>2. UNCHANGED <<phase, hr, del, pc, snap, ok>>
        BY DEF AddFinalizer, helm, pass
    <2>3. fin'[p] = (p = o \/ fin[p])
        BY <2>1
    <2> QED BY <2>1, <2>2, <2>3 DEF PassInv, Exists, Live
  <1> QED BY <1>1, <1>2 DEF LifeInv

(* The status of the Management object moves only in UpdateStatus.         *)
LEMMA FailedStatusLife ==
    ASSUME TypeInv, NEW o \in Owner, FailedStatus(o)
    PROVE  stat'[Mgmt] = stat[Mgmt]
  BY Constants DEF TypeInv, TypeObjects, FailedStatus

LEMMA PassFailsLife ==
    ASSUME TypeInv, LifeInv, NEW o \in Owner, PassFails(o)
    PROVE  LifeInv'
  <1>0. UNCHANGED <<boot, want, gen, phase, fin, hr, del>> /\ Forget(o) /\ FailedStatus(o)
      BY DEF PassFails, releases, helm
  <1>1. ObjectsInv'
      BY <1>0, FailedStatusLife DEF LifeInv, ObjectsInv, Live, Exists
  <1>2. ASSUME NEW p \in Owner PROVE PassInv(p)'
      BY <1>0, ForgetLife
  <1> QED BY <1>1, <1>2 DEF LifeInv

LEMMA EnsureUpgradeBackupLife ==
    ASSUME TypeInv, LifeInv, NEW o \in Owner, EnsureUpgradeBackup(o)
    PROVE  LifeInv'
  <1>0. UNCHANGED <<boot, want, stat, gen, phase, fin, hr, del>> /\ pc[o] = "backup"
      BY DEF EnsureUpgradeBackup, releases, helm, objects
  <1>1. ObjectsInv'
      BY <1>0 DEF LifeInv, ObjectsInv, Live, Exists
  <1>2. ASSUME NEW p \in Owner PROVE PassInv(p)'
    <2>1. CASE Forget(o)
        BY <1>0, <2>1, ForgetLife
    <2>2. CASE To(o, "component") /\ UNCHANGED <<snap, ok>>
      <3>1. PassInv(p) /\ PassInv(o)
          BY DEF LifeInv
      <3>2. pc'[p] = IF p = o THEN "component" ELSE pc[p]
          BY <2>2 DEF TypeInv, TypePass, To
      <3> QED BY <1>0, <2>2, <3>1, <3>2 DEF PassInv, Exists, InPass
    <2> QED BY <2>1, <2>2 DEF EnsureUpgradeBackup
  <1> QED BY <1>1, <1>2 DEF LifeInv

LEMMA ComponentLife ==
    ASSUME TypeInv, LifeInv, NEW o \in Owner,
           DependencyNotReady(o) \/ ComponentFails(o) \/ ReconcileHelmRelease(o)
    PROVE  LifeInv'
  <1>0. UNCHANGED <<boot, want, stat, gen, phase, fin, del, snap>> /\ pc[o] = "component"
      BY DEF DependencyNotReady, ComponentFails, ReconcileHelmRelease, releases, helm, objects
  <1>1. ObjectsInv'
      BY <1>0 DEF LifeInv, ObjectsInv, Live, Exists
  <1>2. PICK seen \in BOOLEAN, f \in BOOLEAN, w \in BOOLEAN :
           /\ ComponentDone(o, seen, f, w)
           /\ \/ ~seen /\ UNCHANGED hr
              \/ /\ hr' = [hr EXCEPT ![<<o, Head(todo[o])>>] = snap[o].release]
                 /\ seen => ~del[<<o, Head(todo[o])>>]
    <2>1. CASE DependencyNotReady(o)
        BY <2>1 DEF DependencyNotReady, helm
    <2>2. CASE ComponentFails(o)
        BY <2>2 DEF ComponentFails, helm
    <2>3. CASE ReconcileHelmRelease(o)
      <3>1. PICK seen \in BOOLEAN : /\ ComponentDone(o, seen, FALSE, ~seen)
                                   /\ seen => ProviderReady(o, Head(todo[o]))
          BY <2>3 DEF ReconcileHelmRelease, ProviderReady
      <3> QED BY <2>3, <3>1 DEF ReconcileHelmRelease, ProviderReady
    <2> QED BY <2>1, <2>2, <2>3
  <1>3. Head(todo[o]) \in Comp
      BY <1>0, Consumed DEF TypeInv, TypePass, Left
  <1>4. ASSUME NEW p \in Owner, p # o PROVE PassInv(p)'
    <2>1. pc'[p] = pc[p] /\ ok'[p] = ok[p]
        BY <1>2, <1>4 DEF ComponentDone, To, TypeInv, TypePass
    <2>2. \A c \in Comp : hr'[<<p, c>>] = hr[<<p, c>>]
        BY <1>2, <1>3, <1>4 DEF TypeInv, TypeHelm
    <2>3. ok[p] \subseteq Comp
        BY DEF TypeInv, TypePass
    <2> QED BY <1>0, <2>1, <2>2, <2>3 DEF LifeInv, PassInv, Exists
  <1>5. PassInv(o)'
    <2> DEFINE h == Head(todo[o])
    <2>1. /\ pc'[o] \in {"component", "status"}
          /\ ok'[o] = IF seen THEN ok[o] \union {h} ELSE ok[o]
        BY <1>2 DEF ComponentDone, To, TypeInv, TypePass
    <2>2. UNCHANGED hr \/ hr'[<<o, h>>] = snap[o].release
        BY <1>2, <1>3 DEF TypeInv, TypeHelm
    <2> HIDE DEF h
    <2>3. \A c \in Comp : c # h => hr'[<<o, c>>] = hr[<<o, c>>]
        BY <1>2, <1>3 DEF TypeInv, TypeHelm, h
    <2>4. ok[o] \subseteq Comp /\ PassInv(o)
        BY DEF TypeInv, TypePass, LifeInv
    <2>6. seen => hr'[<<o, h>>] = snap[o].release /\ ~del[<<o, h>>]
        BY <1>2, <1>3 DEF TypeInv, TypeHelm, h
    <2>5. \A c \in ok'[o] : hr'[<<o, c>>] = snap[o].release /\ ~del[<<o, c>>]
        BY <2>1, <2>2, <2>3, <2>4, <2>6 DEF PassInv
    <2> QED BY <1>0, <2>1, <2>3, <2>4, <2>5 DEF PassInv, Exists, InPass
  <1> QED BY <1>1, <1>4, <1>5 DEF LifeInv

LEMMA UpdateStatusLife ==
    ASSUME TypeInv, LifeInv, NEW o \in Owner, UpdateStatus(o)
    PROVE  LifeInv'
  <1>0. UNCHANGED <<boot, want, gen, phase, fin, hr, del>> /\ Forget(o)
      BY DEF UpdateStatus, releases, helm
  <1>1. stat'[Mgmt] = stat[Mgmt] \/ (o = Mgmt /\ stat'[Mgmt] = NewStatus(Mgmt))
      BY Constants DEF UpdateStatus, TypeInv, TypeObjects
  <1>2. ObjectsInv'
    <2>1. CASE stat'[Mgmt] = stat[Mgmt]
        BY <1>0, <2>1 DEF LifeInv, ObjectsInv, Live, Exists
    <2>2. CASE o = Mgmt /\ stat'[Mgmt] = NewStatus(Mgmt)
      <3>1. fin[Mgmt] /\ phase[Mgmt] # "absent"
          BY <2>2 DEF UpdateStatus, LifeInv, PassInv, Exists
      <3>2. stat'[Mgmt].obs = gen[Mgmt] /\ gen[Mgmt] \in Nat
          BY <2>2, Constants DEF NewStatus, TypeInv, TypeObjects
      <3> QED BY <1>0, <3>1, <3>2 DEF LifeInv, ObjectsInv, Live, Exists
    <2> QED BY <1>1, <2>1, <2>2
  <1>3. ASSUME NEW p \in Owner PROVE PassInv(p)'
      BY <1>0, ForgetLife
  <1> QED BY <1>2, <1>3 DEF LifeInv

LEMMA RemoveHelmReleasesLife ==
    ASSUME TypeInv, LifeInv, NEW o \in Owner, RemoveHelmReleases(o)
    PROVE  LifeInv'
  <1>0. UNCHANGED <<boot, want, gen, phase, fin, hr>> /\ pc[o] = "remove"
      BY DEF RemoveHelmReleases
  <1>1. stat'[Mgmt] = stat[Mgmt]
      BY FailedStatusLife DEF RemoveHelmReleases
  <1>2. ObjectsInv'
      BY <1>0, <1>1 DEF LifeInv, ObjectsInv, Live, Exists
  <1>3. ASSUME NEW p \in Owner, p # o
        PROVE  \A c \in ok[p] : del'[<<p, c>>] = del[<<p, c>>]
    <2>1. CASE o = Mgmt
      <3>1. ~Live(Mgmt) /\ p \in Region
          BY <1>0, <1>3, <2>1 DEF LifeInv, PassInv, Live, Owner
      <3>2. ~fin[p] /\ ok[p] = {}
          BY <3>1 DEF LifeInv, ObjectsInv, PassInv
      <3> QED BY <3>2
    <2>2. CASE o # Mgmt
      <3>1. \A c \in Comp : <<p, c>> \notin Managed(o)
          BY <1>3, <2>2 DEF Managed
      <3>2. \A x \in Owner \X Comp : x \notin Managed(o) => del'[x] = del[x]
          BY DEF RemoveHelmReleases, TypeInv, TypeHelm
      <3> QED BY <3>1, <3>2 DEF TypeInv, TypePass
    <2> QED BY <2>1, <2>2
  <1>4. CASE Forget(o)
    <2>1. ASSUME NEW p \in Owner PROVE PassInv(p)'
        BY <1>0, <1>3, <1>4, <2>1, ForgetLife
    <2> QED BY <1>2, <2>1 DEF LifeInv
  <1>5. CASE /\ ~HelmReleasesLeft(o) /\ To(o, "finalizer") /\ UNCHANGED <<snap, ok>>
    <2>1. ASSUME NEW p \in Owner, p # o PROVE PassInv(p)'
      <3>1. pc'[p] = pc[p]
          BY <1>5, <2>1 DEF TypeInv, TypePass, To
      <3> QED BY <1>0, <1>3, <1>5, <2>1, <3>1 DEF LifeInv, PassInv, Exists
    <2>2. PassInv(o)'
      <3>1. pc'[o] = "finalizer"
          BY <1>5 DEF TypeInv, TypePass, To
      <3>2. \A c \in Comp : hr[<<o, c>>] = 0
          BY <1>5 DEF HelmReleasesLeft, Managed
      <3> QED BY <1>0, <1>5, <3>1, <3>2 DEF LifeInv, PassInv, Exists, InPass
    <2> QED BY <1>2, <2>1, <2>2 DEF LifeInv
  <1> QED BY <1>4, <1>5 DEF RemoveHelmReleases

LEMMA RemoveFinalizerLife ==
    ASSUME TypeInv, LifeInv, NEW o \in Owner, RemoveFinalizer(o)
    PROVE  LifeInv'
  <1>0. UNCHANGED <<boot, want, stat, gen, hr, del>> /\ pc[o] = "finalizer" /\ Forget(o)
      BY DEF RemoveFinalizer, releases, helm
  <1>1. PassInv(o) /\ phase[o] = "deleting" /\ \A c \in Comp : hr[<<o, c>>] = 0
      BY <1>0 DEF LifeInv, PassInv
  <1>2. CASE UNCHANGED <<phase, fin>>
    <2>1. ObjectsInv'
        BY <1>0, <1>2 DEF LifeInv, ObjectsInv, Live, Exists
    <2> QED BY <1>0, <1>2, <2>1, ForgetLife DEF LifeInv
  <1>3. CASE phase' = [phase EXCEPT ![o] = "gone"] /\ fin' = [fin EXCEPT ![o] = FALSE]
    <2>0. /\ phase'[o] = "gone" /\ ~fin'[o]
          /\ \A p \in Owner : p # o => phase'[p] = phase[p] /\ fin'[p] = fin[p]
        BY <1>3 DEF TypeInv, TypeObjects
    <2>1. ObjectsInv'
        BY <1>0, <1>1, <2>0, Constants DEF LifeInv, ObjectsInv, Live, Exists
    <2>2. ASSUME NEW p \in Owner, p # o PROVE PassInv(p)'
      <3>1. pc'[p] = pc[p] /\ ok'[p] = ok[p] /\ snap'[p] = snap[p]
          BY <1>0, <2>2 DEF TypeInv, TypePass, Forget, To
      <3> QED BY <1>0, <2>0, <2>2, <3>1 DEF LifeInv, PassInv, Exists
    <2>3. PassInv(o)'
      <3>1. pc'[o] = "idle" /\ ok'[o] = {}
          BY <1>0 DEF TypeInv, TypePass, Forget, To
      <3> QED BY <1>0, <1>1, <2>0, <3>1 DEF PassInv, Exists, InPass
    <2> QED BY <2>1, <2>2, <2>3 DEF LifeInv
  <1> QED BY <1>2, <1>3 DEF RemoveFinalizer

LEMMA UserLife ==
    ASSUME TypeInv, LifeInv,
           \/ \E r \in Release : ChangeRelease(r)
           \/ \E o \in Owner : ChangeProviders(o) \/ Delete(o)
           \/ \E o \in Region : CreateRegion(o)
    PROVE  LifeInv'
  <1>0. /\ UNCHANGED <<boot, stat, hr, del, pc, snap, ok, fin>>
        /\ want' \in {want} \union Release
        /\ gen[Mgmt] \in Nat /\ gen'[Mgmt] \in {gen[Mgmt], gen[Mgmt] + 1}
    <2>1. gen[Mgmt] \in Nat /\ Mgmt \notin Region /\ gen \in [Owner -> 0 .. MaxChanges + 1]
        BY Constants DEF TypeInv, TypeObjects
    <2> QED
        BY <2>1, Constants DEF ChangeRelease, ChangeProviders, Delete, CreateRegion, releases,
           helm, pass, Touch
  <1>1. \A o \in Owner :
          \/ phase'[o] = phase[o]
          \/ /\ phase[o] = "live" /\ phase'[o] = IF fin[o] THEN "deleting" ELSE "gone"
             /\ o = Mgmt => \A r \in Region : ~Exists(r) /\ phase'[r] = phase[r]
          \/ phase[o] = "absent" /\ phase'[o] = "live" /\ o # Mgmt /\ UNCHANGED phase[Mgmt]
             /\ Live(Mgmt)
    <2>1. CASE \E r \in Release : ChangeRelease(r)
        BY <2>1 DEF ChangeRelease
    <2>2. CASE \E o \in Owner : ChangeProviders(o)
        BY <2>2 DEF ChangeProviders
    <2>3. CASE \E o \in Owner : Delete(o)
        BY <2>3, Constants DEF TypeInv, TypeObjects, Delete, Live
    <2>4. CASE \E o \in Region : CreateRegion(o)
        BY <2>4, Constants DEF TypeInv, TypeObjects, CreateRegion, Live
    <2> QED BY <2>1, <2>2, <2>3, <2>4
  <1>2. ObjectsInv'
    <2>0. 0 \notin Release /\ Region \subseteq Owner /\ Mgmt \in Owner
          /\ Owner = {Mgmt} \union Region
        BY Constants DEF Release, Owner
    <2>1. (boot => phase[Mgmt] = "absent")'
        BY <1>0, <1>1, <2>0 DEF LifeInv, ObjectsInv, Live
    <2>2. (phase[Mgmt] = "absent" => stat[Mgmt] = NoStatus /\ \A o \in Owner : phase[o] = "absent")'
        BY <1>0, <1>1, <2>0 DEF LifeInv, ObjectsInv, Live
    <2>3. (phase[Mgmt] # "absent" => want # 0)'
        BY <1>0, <1>1, <2>0 DEF LifeInv, ObjectsInv, Live
    <2>4. (~Live(Mgmt) => \A o \in Region : ~Exists(o))'
        BY <1>1, <2>0 DEF LifeInv, ObjectsInv, Live, Exists
    <2>5. (stat[Mgmt].obs <= gen[Mgmt])'
      <3>1. stat[Mgmt].obs \in Nat
          BY Constants DEF TypeInv, TypeObjects, Status
      <3> QED BY <1>0, <3>1 DEF LifeInv, ObjectsInv
    <2> QED BY <2>1, <2>2, <2>3, <2>4, <2>5 DEF ObjectsInv
  <1>3. ASSUME NEW p \in Owner PROVE PassInv(p)'
    <2>1. PassInv(p)
        BY DEF LifeInv
    <2>2. (fin[p] => Exists(p))' /\ (phase[p] = "deleting" => fin[p])'
        BY <1>0, <1>1, <2>1 DEF PassInv, Exists
    <2>3. (pc[p] \in {"remove", "finalizer"} => phase[p] = "deleting")'
        BY <1>0, <1>1, <2>1 DEF PassInv, Exists
    <2> QED BY <1>0, <2>1, <2>2, <2>3 DEF PassInv
  <1> QED BY <1>2, <1>3 DEF LifeInv

LEMMA RestartedLife ==
    ASSUME TypeInv, LifeInv, Restarted, UNCHANGED <<objects, hr, del>>
    PROVE  LifeInv'
  <1>1. ObjectsInv'
      BY DEF LifeInv, ObjectsInv, Live, Exists, Restarted, objects
  <1>2. ASSUME NEW p \in Owner PROVE PassInv(p)'
    <2>1. pc'[p] = "idle" /\ ok'[p] = {}
        BY DEF Restarted
    <2> QED BY <2>1 DEF LifeInv, PassInv, Exists, objects, InPass
  <1> QED BY <1>1, <1>2 DEF LifeInv

LEMMA FluxLife ==
    ASSUME TypeInv, LifeInv, NEW o \in Owner, NEW c \in Comp,
           FluxInstalls(o, c) \/ FluxUninstalls(o, c) \/ ComponentBreaks(o, c)
    PROVE  LifeInv'
  <1>1. CASE FluxInstalls(o, c)
      BY <1>1, RestartedLife, LifeFrame DEF FluxInstalls, pass
  <1>2. CASE ComponentBreaks(o, c)
      BY <1>2, LifeFrame DEF ComponentBreaks, pass, releases
  <1>3. CASE FluxUninstalls(o, c)
    <2>0. UNCHANGED <<boot, objects, pc, snap, ok>> /\ del[<<o, c>>]
        BY <1>3 DEF FluxUninstalls, releases, pass
    <2>1. ObjectsInv'
        BY <2>0 DEF LifeInv, ObjectsInv, Live, Exists, objects
    <2>2. \A x \in Owner \X Comp : /\ hr'[x] = IF x = <<o, c>> THEN 0 ELSE hr[x]
                                   /\ del'[x] = IF x = <<o, c>> THEN FALSE ELSE del[x]
        BY <1>3 DEF FluxUninstalls, TypeInv, TypeHelm
    <2>3. ASSUME NEW p \in Owner PROVE PassInv(p)'
      <3>1. PassInv(p) /\ ok[p] \subseteq Comp
          BY DEF LifeInv, TypeInv, TypePass
      <3>2. \A d \in Comp : (hr[<<p, d>>] # 0)' => hr[<<p, d>>] # 0
          BY <2>2
      <3>3. \A d \in ok[p] : <<p, d>> # <<o, c>>
          BY <2>0, <3>1 DEF PassInv
      <3>4. \A d \in ok[p] : hr'[<<p, d>>] = hr[<<p, d>>] /\ del'[<<p, d>>] = del[<<p, d>>]
          BY <2>2, <3>1, <3>3
      <3> QED BY <2>0, <3>1, <3>2, <3>4 DEF PassInv, Exists, objects
    <2> QED BY <2>1, <2>3 DEF LifeInv
  <1> QED BY <1>1, <1>2, <1>3

(* Releases, the templates of releases and backups.                        *)
LEMMA OtherLife ==
    ASSUME TypeInv, LifeInv,
           \/ \E r \in Release : \/ ReleaseStep(r) \/ CreateRelease(r)
                                 \/ FluxInstallsTemplates(r) \/ TemplateValidated(r)
                                 \/ TemplateInvalidated(r)
           \/ Restart
           \/ \E b \in Backup, r \in Release : BackupCompletes(b, r)
           \/ UNCHANGED vars
    PROVE  LifeInv'
  <1>1. CASE Restart
      BY <1>1, RestartedLife DEF Restart, helm
  <1>2. CASE ~Restart
    <2>1. UNCHANGED <<boot, objects, hr, del, pc, snap, ok>>
        BY <1>2 DEF ReleaseStep, SkipRelease, ReconcileKCMTemplates, ValidateProviderTemplates,
           CreateRelease, FluxInstallsTemplates, TemplateValidated, TemplateInvalidated,
           BackupCompletes, vars, releases, helm, pass
    <2> QED BY <2>1, LifeFrame
  <1> QED BY <1>1, <1>2

LEMMA LifeHolds == Spec => []LifeInv
  <1>1. Init => LifeInv
    <2> SUFFICES ASSUME Init PROVE LifeInv
        OBVIOUS
    <2>1. ObjectsInv
        BY Constants DEF Init, ObjectsInv, Live, Exists, NoStatus
    <2>2. ASSUME NEW o \in Owner PROVE PassInv(o)
        BY DEF Init, PassInv, Exists, InPass
    <2> QED BY <2>1, <2>2 DEF LifeInv
  <1>2. TypeInv /\ LifeInv /\ [Next]_vars => LifeInv'
    <2> SUFFICES ASSUME TypeInv, LifeInv, [Next]_vars PROVE LifeInv'
        OBVIOUS
    <2> QED
        BY EnsureManagementLife, ReconcileLife, AddFinalizerLife, PassFailsLife,
           EnsureUpgradeBackupLife, ComponentLife, UpdateStatusLife, RemoveHelmReleasesLife,
           RemoveFinalizerLife, UserLife, FluxLife, OtherLife DEF Next, Step
  <1> QED BY <1>1, <1>2, ManagementTypeCorrect, PTL DEF Spec

-----------------------------------------------------------------------------
(* The Management object: what its status says, and its backups *)

(* Once read, the spec stays what the pass works from, or the generation   *)
(* has moved on.  What the status says is ready is written at the release  *)
(* of the spec and not about to be removed.                                *)
WrittenInv ==
    /\ pc[Mgmt] \in InPass /\ fresh[Mgmt] =>
          snap[Mgmt].release = want /\ snap[Mgmt].prov = prov[Mgmt]
    /\ pc[Mgmt] # "idle" /\ ~fresh[Mgmt] /\ Live(Mgmt) => stat[Mgmt].obs < gen[Mgmt]
    /\ Live(Mgmt) /\ stat[Mgmt].ready /\ stat[Mgmt].obs = gen[Mgmt] =>
          \A c \in {"kcm", "capi"} \union prov[Mgmt] :
             hr[<<Mgmt, c>>] = want /\ ~del[<<Mgmt, c>>]

(* A pass gets to the components with the backups of the recorded release  *)
(* completed.                                                              *)
BackedUp ==
    pc[Mgmt] \in {"component", "status"} /\ Upgrading =>
        \A b \in Backup : IsCompleted(b, stat[Mgmt].release)

MgmtInv == WrittenInv /\ BackedUp

(* A step that is none of the Management object's.                         *)
MgmtSame ==
    /\ want' = want /\ prov'[Mgmt] = prov[Mgmt] /\ gen'[Mgmt] = gen[Mgmt]
    /\ phase'[Mgmt] = phase[Mgmt] /\ stat'[Mgmt] = stat[Mgmt]
    /\ \A c \in Comp : /\ hr'[<<Mgmt, c>>] = hr[<<Mgmt, c>>]
                       /\ del'[<<Mgmt, c>>] = del[<<Mgmt, c>>]
PassSame ==
    /\ pc'[Mgmt] = pc[Mgmt] /\ snap'[Mgmt] = snap[Mgmt] /\ fresh'[Mgmt] = fresh[Mgmt]

DoneStays ==
    \A b \in Backup, r \in Release : IsCompleted(b, r) => IsCompleted(b, r)'

(* A backup that is completed stays so: its name is that of the release.   *)
LEMMA BackupsStay ==
    ASSUME TypeInv, [Next]_vars
    PROVE  DoneStays
  <1>1. CASE UNCHANGED mb
      BY <1>1 DEF DoneStays, IsCompleted
  <1>2. CASE \E o \in Owner : EnsureUpgradeBackup(o)
      BY <1>2 DEF EnsureUpgradeBackup, Requested, DoneStays, IsCompleted, TypeInv, TypeProcess
  <1>3. CASE \E b \in Backup, r \in Release : BackupCompletes(b, r)
      BY <1>3 DEF BackupCompletes, DoneStays, IsCompleted, TypeInv, TypeProcess
  <1>4. CASE Next
    <2>1. ASSUME NEW r \in Release,
                 \/ ReleaseStep(r) \/ CreateRelease(r) \/ ChangeRelease(r)
                 \/ FluxInstallsTemplates(r) \/ TemplateValidated(r) \/ TemplateInvalidated(r)
          PROVE  UNCHANGED mb
        BY <2>1 DEF ReleaseStep, SkipRelease, ReconcileKCMTemplates, ValidateProviderTemplates,
           CreateRelease, ChangeRelease, FluxInstallsTemplates, TemplateValidated,
           TemplateInvalidated, process
    <2>2. ASSUME NEW o \in Owner,
                 \/ Reconcile(o) \/ AddFinalizer(o)
                 \/ DependencyNotReady(o) \/ ComponentFails(o) \/ ReconcileHelmRelease(o)
                 \/ UpdateStatus(o) \/ RemoveHelmReleases(o) \/ RemoveFinalizer(o)
                 \/ PassFails(o) \/ ChangeProviders(o) \/ Delete(o) \/ CreateRegion(o)
          PROVE  UNCHANGED mb
        BY <2>2 DEF Reconcile, AddFinalizer, DependencyNotReady, ComponentFails,
           ReconcileHelmRelease, UpdateStatus, RemoveHelmReleases, RemoveFinalizer, PassFails,
           ChangeProviders, Delete, CreateRegion, process
    <2>3. ASSUME NEW o \in Owner, NEW c \in Comp,
                 FluxInstalls(o, c) \/ FluxUninstalls(o, c) \/ ComponentBreaks(o, c)
          PROVE  UNCHANGED mb
        BY <2>3 DEF FluxInstalls, FluxUninstalls, ComponentBreaks, process
    <2>4. EnsureManagement \/ Restart => UNCHANGED mb
        BY DEF EnsureManagement, Restart, process
    <2> QED BY <1>1, <1>2, <1>3, <1>4, <2>1, <2>2, <2>3, <2>4, Constants DEF Next, Step
  <1>5. CASE UNCHANGED vars
      BY <1>1, <1>5 DEF vars, process
  <1> QED BY <1>4, <1>5

LEMMA BackedUpFrame ==
    ASSUME TypeInv, MgmtInv, DoneStays, snap'[Mgmt] = snap[Mgmt], stat'[Mgmt] = stat[Mgmt],
           pc'[Mgmt] \in {"component", "status"} => pc[Mgmt] \in {"component", "status"}
    PROVE  BackedUp'
  <1>1. Upgrading => stat[Mgmt].release \in Release
      BY Constants DEF Upgrading, TypeInv, TypeObjects, Status, Release
  <1> QED BY <1>1 DEF MgmtInv, BackedUp, Upgrading, DoneStays, IsCompleted

LEMMA MgmtFrame ==
    ASSUME TypeInv, TypeInv', MgmtInv, DoneStays, MgmtSame, PassSame
    PROVE  MgmtInv'
  <1>1. prov[Mgmt] \subseteq Comp
      BY Constants DEF TypeInv, TypeObjects
  <1>2. WrittenInv'
      BY <1>1, Constants DEF MgmtInv, WrittenInv, MgmtSame, PassSame, Live
  <1> QED BY <1>2, BackedUpFrame DEF MgmtInv, MgmtSame, PassSame

(* A pass of the Management object that ends.                              *)
LEMMA MgmtIdle ==
    ASSUME TypeInv, MgmtInv, MgmtSame, pc'[Mgmt] = "idle"
    PROVE  MgmtInv'
  <1>1. prov[Mgmt] \subseteq Comp
      BY Constants DEF TypeInv, TypeObjects
  <1>2. WrittenInv'
      BY <1>1, Constants DEF MgmtInv, WrittenInv, MgmtSame, Live, InPass
  <1> QED BY <1>2 DEF MgmtInv, BackedUp

(* A Region's controller and users of a Region leave the Management object *)
(* alone.                                                                  *)
LEMMA RegionStep ==
    ASSUME TypeInv, NEW o \in Region,
           Step(o) \/ PassFails(o) \/ ChangeProviders(o) \/ Delete(o) \/ CreateRegion(o)
    PROVE  MgmtSame /\ PassSame
  <1>0. o \in Owner /\ o # Mgmt /\ Mgmt \in Owner
      BY Constants
  <1>1. /\ pc' = [pc EXCEPT ![o] = pc'[o]] /\ snap' = [snap EXCEPT ![o] = snap'[o]]
        /\ fresh' = [fresh EXCEPT ![o] = fresh'[o]]
    <2>1. CASE Reconcile(o)
        BY <1>0, <2>1 DEF TypeInv, TypePass, Reconcile, To
    <2>2. CASE Forget(o)
        BY <1>0, <2>2 DEF TypeInv, TypePass, Forget, To
    <2>3. CASE EnsureUpgradeBackup(o) \/ RemoveHelmReleases(o)
        BY <1>0, <2>2, <2>3 DEF TypeInv, TypePass, EnsureUpgradeBackup, RemoveHelmReleases, To
    <2>4. CASE DependencyNotReady(o) \/ ComponentFails(o) \/ ReconcileHelmRelease(o)
        BY <1>0, <2>4 DEF TypeInv, TypePass, DependencyNotReady, ComponentFails,
           ReconcileHelmRelease, ComponentDone, To
    <2>5. CASE AddFinalizer(o) \/ CreateRegion(o)
        BY <1>0, <2>5 DEF TypeInv, TypePass, AddFinalizer, CreateRegion, pass
    <2>6. CASE ChangeProviders(o) \/ Delete(o)
        BY <1>0, <2>6 DEF TypeInv, TypePass, ChangeProviders, Delete, Touch
    <2> QED BY <2>1, <2>2, <2>3, <2>4, <2>5, <2>6 DEF Step, PassFails, UpdateStatus, RemoveFinalizer
  <1>2. PassSame
      BY <1>0, <1>1 DEF TypeInv, TypePass, PassSame
  <1>3. /\ want' = want /\ prov'[Mgmt] = prov[Mgmt] /\ gen'[Mgmt] = gen[Mgmt]
        /\ phase'[Mgmt] = phase[Mgmt] /\ stat'[Mgmt] = stat[Mgmt]
    <2>1. CASE Step(o)
      <3>1. CASE RemoveHelmReleases(o) \/ UpdateStatus(o) \/ RemoveFinalizer(o)
          BY <1>0, <3>1, FailedStatusLife DEF TypeInv, TypeObjects, RemoveHelmReleases,
             UpdateStatus, RemoveFinalizer
      <3>2. CASE UNCHANGED objects
          BY <3>2 DEF objects
      <3>3. CASE AddFinalizer(o)
          BY <3>3 DEF AddFinalizer
      <3> QED
          BY <2>1, <3>1, <3>2, <3>3 DEF Step, Reconcile, EnsureUpgradeBackup,
             DependencyNotReady, ComponentFails, ReconcileHelmRelease
    <2>2. CASE PassFails(o)
        BY <1>0, <2>2, FailedStatusLife DEF PassFails
    <2>3. CASE ChangeProviders(o) \/ Delete(o) \/ CreateRegion(o)
        BY <1>0, <2>3 DEF TypeInv, TypeObjects, ChangeProviders, Delete, CreateRegion
    <2> QED BY <2>1, <2>2, <2>3
  <1>4. ASSUME NEW c \in Comp
        PROVE  hr'[<<Mgmt, c>>] = hr[<<Mgmt, c>>] /\ del'[<<Mgmt, c>>] = del[<<Mgmt, c>>]
    <2>1. <<Mgmt, c>> \in Owner \X Comp /\ <<Mgmt, c>> \notin Managed(o)
        BY <1>0 DEF Managed
    <2>2. CASE Reconcile(o)
        BY <1>0, <2>1, <2>2 DEF TypeInv, TypeHelm, Reconcile, Cleanup
    <2>3. CASE RemoveHelmReleases(o)
        BY <1>0, <2>1, <2>3 DEF TypeInv, TypeHelm, RemoveHelmReleases
    <2>4. CASE ReconcileHelmRelease(o)
        BY <1>0, <2>1, <2>4 DEF TypeInv, TypeHelm, ReconcileHelmRelease
    <2>5. CASE UNCHANGED helm
        BY <2>5 DEF helm
    <2> QED
        BY <2>2, <2>3, <2>4, <2>5 DEF Step, PassFails, ChangeProviders, Delete, CreateRegion,
           AddFinalizer, EnsureUpgradeBackup, DependencyNotReady, ComponentFails, UpdateStatus,
           RemoveFinalizer
  <1> QED BY <1>2, <1>3, <1>4 DEF MgmtSame

LEMMA MgmtReconcile ==
    ASSUME TypeInv, LifeInv, MgmtInv, DoneStays, Reconcile(Mgmt)
    PROVE  MgmtInv'
  <1>0. Mgmt \in Owner /\ pc[Mgmt] = "idle" /\ UNCHANGED <<want, prov, gen, phase, stat, hr>>
      BY Constants DEF Reconcile, objects
  <1>1. prov[Mgmt] \subseteq Provider /\ Provider \cap {"kcm", "capi"} = {}
      BY <1>0, ManagementAssumption DEF TypeInv, TypeObjects
  <1>2. CASE /\ Live(Mgmt)
             /\ snap' = [snap EXCEPT ![Mgmt] = [release |-> SpecRelease(Mgmt),
                                                prov    |-> prov[Mgmt]]]
             /\ Cleanup(Mgmt) /\ To(Mgmt, "backup") /\ fresh' = [fresh EXCEPT ![Mgmt] = TRUE]
    <2>1. /\ snap'[Mgmt].release = want /\ snap'[Mgmt].prov = prov[Mgmt]
          /\ pc'[Mgmt] = "backup" /\ fresh'[Mgmt]
        BY <1>0, <1>2 DEF TypeInv, TypePass, To, SpecRelease
    <2>2. \A c \in {"kcm", "capi"} \union prov[Mgmt] : del'[<<Mgmt, c>>] = del[<<Mgmt, c>>]
      <3>1. \A c \in {"kcm", "capi"} \union prov[Mgmt] :
              c \in Comp /\ c \notin Provider \ prov[Mgmt]
          BY <1>1, Constants
      <3> QED BY <1>0, <1>2, <3>1 DEF TypeInv, TypeHelm, Cleanup
    <2>3. WrittenInv'
        BY <1>0, <2>1, <2>2 DEF MgmtInv, WrittenInv, Live
    <2> QED BY <2>1, <2>3 DEF MgmtInv, BackedUp
  <1>3. CASE phase[Mgmt] = "deleting" /\ To(Mgmt, "remove")
    <2>1. pc'[Mgmt] = "remove"
        BY <1>0, <1>3 DEF TypeInv, TypePass, To
    <2>2. WrittenInv'
        BY <1>0, <1>3, <2>1 DEF WrittenInv, Live, InPass
    <2> QED BY <2>1, <2>2 DEF MgmtInv, BackedUp
  <1>4. CASE ~Exists(Mgmt) /\ UNCHANGED <<snap, todo, pc, fresh, del>>
    <2>1. WrittenInv'
        BY <1>0, <1>4 DEF WrittenInv, Live, Exists, InPass
    <2> QED BY <1>0, <1>4, <2>1 DEF MgmtInv, BackedUp
  <1> QED BY <1>2, <1>3, <1>4 DEF Reconcile

LEMMA MgmtForget ==
    ASSUME TypeInv, Forget(Mgmt)
    PROVE  pc'[Mgmt] = "idle"
  BY Constants DEF TypeInv, TypePass, Forget, To

LEMMA MgmtComponent ==
    ASSUME TypeInv, LifeInv, MgmtInv, DoneStays,
           \/ DependencyNotReady(Mgmt) \/ ComponentFails(Mgmt) \/ ReconcileHelmRelease(Mgmt)
    PROVE  MgmtInv'
  <1>0. /\ Mgmt \in Owner /\ pc[Mgmt] = "component"
        /\ UNCHANGED <<want, prov, gen, phase, stat, snap, fresh, del>>
      BY Constants DEF DependencyNotReady, ComponentFails, ReconcileHelmRelease, objects, helm
  <1>1. pc'[Mgmt] \in {"component", "status"}
      BY <1>0 DEF DependencyNotReady, ComponentFails, ReconcileHelmRelease, ComponentDone, To,
         TypeInv, TypePass
  <1>2. BackedUp'
      BY <1>0, <1>1, BackedUpFrame
  <1>3. \A c \in Comp : hr'[<<Mgmt, c>>] \in {hr[<<Mgmt, c>>], snap[Mgmt].release}
      BY <1>0 DEF DependencyNotReady, ComponentFails, ReconcileHelmRelease, helm, TypeInv, TypeHelm
  <1>4. {"kcm", "capi"} \union prov[Mgmt] \subseteq Comp
      BY Constants DEF TypeInv, TypeObjects
  <1>5. stat[Mgmt].obs \in Int /\ gen[Mgmt] \in Int
      BY Constants DEF TypeInv, TypeObjects, Status
  <1>6. WrittenInv'
      BY <1>0, <1>1, <1>3, <1>4, <1>5 DEF MgmtInv, WrittenInv, Live, InPass
  <1> QED BY <1>2, <1>6 DEF MgmtInv

LEMMA MgmtUpdateStatus ==
    ASSUME TypeInv, LifeInv, MgmtInv, UpdateStatus(Mgmt)
    PROVE  MgmtInv'
  <1>0. /\ Mgmt \in Owner /\ pc[Mgmt] = "status" /\ pc'[Mgmt] = "idle"
        /\ UNCHANGED <<want, prov, gen, phase, hr, del>>
      BY Constants, MgmtForget DEF UpdateStatus, helm
  <1>1. {"kcm", "capi"} \union prov[Mgmt] \subseteq Comp
      BY Constants DEF TypeInv, TypeObjects
  <1>2. CASE ~fresh[Mgmt]
      BY <1>0, <1>2, MgmtIdle DEF UpdateStatus, MgmtSame
  <1>3. CASE fresh[Mgmt]
    <2>1. stat'[Mgmt] = NewStatus(Mgmt)
        BY <1>0, <1>3 DEF UpdateStatus, TypeInv, TypeObjects
    <2>2. snap[Mgmt].release = want /\ snap[Mgmt].prov = prov[Mgmt]
        BY <1>0, <1>3 DEF MgmtInv, WrittenInv, InPass
    <2>3. stat'[Mgmt].ready => {"kcm", "capi"} \union prov[Mgmt] \subseteq ok[Mgmt]
      <3>1. stat'[Mgmt].ready = Ready(Mgmt)
          BY <2>1 DEF NewStatus
      <3> QED BY <2>2, <3>1 DEF Ready, Listed
    <2>4. \A c \in ok[Mgmt] : hr[<<Mgmt, c>>] = want /\ ~del[<<Mgmt, c>>]
        BY <1>0, <2>2 DEF LifeInv, PassInv
    <2>5. WrittenInv'
        BY <1>0, <2>3, <2>4 DEF WrittenInv, Live, InPass
    <2> QED BY <1>0, <2>5 DEF MgmtInv, BackedUp
  <1> QED BY <1>2, <1>3

LEMMA MgmtRemove ==
    ASSUME TypeInv, LifeInv, MgmtInv, DoneStays,
           RemoveHelmReleases(Mgmt) \/ RemoveFinalizer(Mgmt)
    PROVE  MgmtInv'
  <1>1. phase[Mgmt] = "deleting" /\ Mgmt \in Owner
      BY Constants DEF LifeInv, PassInv, RemoveHelmReleases, RemoveFinalizer
  <1>2. ~Live(Mgmt)'
      BY <1>1 DEF RemoveHelmReleases, RemoveFinalizer, TypeInv, TypeObjects, Live
  <1>3. pc'[Mgmt] \in {"idle", "finalizer"}
      BY <1>1, MgmtForget DEF RemoveHelmReleases, RemoveFinalizer, TypeInv, TypePass, To
  <1>4. WrittenInv'
      BY <1>2, <1>3 DEF WrittenInv, InPass
  <1> QED BY <1>3, <1>4 DEF MgmtInv, BackedUp

LEMMA MgmtPass ==
    ASSUME TypeInv, LifeInv, MgmtInv, DoneStays,
           AddFinalizer(Mgmt) \/ PassFails(Mgmt) \/ EnsureUpgradeBackup(Mgmt)
    PROVE  MgmtInv'
  <1>1. CASE AddFinalizer(Mgmt)
    <2>1. MgmtSame /\ PassSame
        BY <1>1 DEF AddFinalizer, MgmtSame, PassSame, helm, pass
    <2>2. WrittenInv'
        BY <2>1, Constants DEF MgmtInv, WrittenInv, MgmtSame, PassSame, Live, TypeInv, TypeObjects
    <2> QED BY <2>1, <2>2, BackedUpFrame DEF MgmtInv, MgmtSame, PassSame
  <1>2. CASE PassFails(Mgmt)
    <2>1. MgmtSame
        BY <1>2, FailedStatusLife, Constants DEF PassFails, MgmtSame, helm
    <2> QED BY <1>2, <2>1, MgmtForget, MgmtIdle DEF PassFails
  <1>3. CASE EnsureUpgradeBackup(Mgmt)
    <2>1. MgmtSame
        BY <1>3 DEF EnsureUpgradeBackup, MgmtSame, helm, objects
    <2>2. CASE Forget(Mgmt)
        BY <2>1, <2>2, MgmtForget, MgmtIdle
    <2>3. CASE /\ Upgrading => \A b \in Backup : IsCompleted(b, stat[Mgmt].release)
               /\ To(Mgmt, "component") /\ UNCHANGED <<snap, fresh>>
      <3>1. pc[Mgmt] = "backup" /\ pc'[Mgmt] = "component"
          BY <1>3, <2>3, Constants DEF EnsureUpgradeBackup, To, TypeInv, TypePass
      <3>2. WrittenInv'
          BY <2>1, <2>3, <3>1, Constants DEF MgmtInv, WrittenInv, MgmtSame, Live, InPass,
             TypeInv, TypeObjects
      <3>3. Upgrading => stat[Mgmt].release \in Release
          BY Constants DEF Upgrading, TypeInv, TypeObjects, Status, Release
      <3>4. BackedUp'
          BY <2>1, <2>3, <3>3 DEF BackedUp, Upgrading, MgmtSame, DoneStays, IsCompleted
      <3> QED BY <3>2, <3>4 DEF MgmtInv
    <2> QED BY <1>3, <2>2, <2>3 DEF EnsureUpgradeBackup
  <1> QED BY <1>1, <1>2, <1>3

LEMMA MgmtUser ==
    ASSUME TypeInv, LifeInv, MgmtInv, DoneStays,
           \/ EnsureManagement \/ (\E r \in Release : ChangeRelease(r))
           \/ ChangeProviders(Mgmt) \/ Delete(Mgmt)
    PROVE  MgmtInv'
  <1>0. Mgmt \in Owner /\ stat[Mgmt].obs \in Nat /\ gen[Mgmt] \in Nat
        /\ stat[Mgmt].obs <= gen[Mgmt]
      BY Constants DEF TypeInv, TypeObjects, Status, LifeInv, ObjectsInv
  <1>1. /\ pc' = pc /\ snap' = snap /\ stat' = stat
      BY DEF EnsureManagement, ChangeRelease, ChangeProviders, Delete, Touch, pass
  <1>2. BackedUp'
      BY <1>1, BackedUpFrame
  <1>3. CASE EnsureManagement
    <2>1. stat[Mgmt] = NoStatus /\ phase[Mgmt] = "absent"
        BY <1>3 DEF EnsureManagement, LifeInv, ObjectsInv
    <2>2. pc[Mgmt] = "idle"
        BY <1>0, <2>1 DEF LifeInv, PassInv, Exists
    <2>3. WrittenInv'
        BY <1>1, <2>1, <2>2 DEF WrittenInv, InPass, NoStatus
    <2> QED BY <1>2, <2>3 DEF MgmtInv
  <1>4. CASE Delete(Mgmt)
    <2>1. ~Live(Mgmt)' /\ ~fresh'[Mgmt]
        BY <1>0, <1>4 DEF Delete, Live, Touch, TypeInv, TypeObjects, TypePass
    <2>2. WrittenInv'
        BY <2>1 DEF WrittenInv
    <2> QED BY <1>2, <2>2 DEF MgmtInv
  <1>5. CASE (\E r \in Release : ChangeRelease(r)) \/ ChangeProviders(Mgmt)
    <2>1. gen'[Mgmt] = gen[Mgmt] + 1 /\ ~fresh'[Mgmt]
        BY <1>0, <1>5 DEF ChangeRelease, ChangeProviders, Touch, TypeInv, TypeObjects, TypePass
    <2>2. WrittenInv'
        BY <1>0, <1>1, <2>1 DEF WrittenInv
    <2> QED BY <1>2, <2>2 DEF MgmtInv
  <1> QED BY <1>3, <1>4, <1>5

LEMMA MgmtRestarted ==
    ASSUME TypeInv, MgmtInv, Restarted, UNCHANGED <<objects, hr, del>>
    PROVE  MgmtInv'
  <1>1. MgmtSame /\ pc'[Mgmt] = "idle"
      BY Constants DEF Restarted, MgmtSame, objects
  <1> QED BY <1>1, MgmtIdle

LEMMA MgmtFlux ==
    ASSUME TypeInv, TypeInv', LifeInv, MgmtInv, DoneStays, NEW o \in Owner, NEW c \in Comp,
           FluxInstalls(o, c) \/ FluxUninstalls(o, c) \/ ComponentBreaks(o, c)
    PROVE  MgmtInv'
  <1>1. CASE FluxInstalls(o, c)
    <2>1. CASE Restarted
        BY <1>1, <2>1, MgmtRestarted DEF FluxInstalls
    <2>2. CASE UNCHANGED pass
      <3>1. MgmtSame /\ PassSame
          BY <1>1, <2>2 DEF FluxInstalls, MgmtSame, PassSame, objects, pass
      <3> QED BY <3>1, MgmtFrame
    <2> QED BY <1>1, <2>1, <2>2 DEF FluxInstalls
  <1>2. CASE ComponentBreaks(o, c)
    <2>1. MgmtSame /\ PassSame
        BY <1>2 DEF ComponentBreaks, MgmtSame, PassSame, objects, pass
    <2> QED BY <2>1, MgmtFrame
  <1>3. CASE FluxUninstalls(o, c)
    <2>1. del[<<o, c>>] /\ UNCHANGED <<objects, pass>>
        BY <1>3 DEF FluxUninstalls
    <2>2. \A x \in Owner \X Comp : ~del[x] => hr'[x] = hr[x] /\ ~del'[x]
        BY <1>3 DEF FluxUninstalls, TypeInv, TypeHelm
    <2>3. \A d \in {"kcm", "capi"} \union prov[Mgmt] : <<Mgmt, d>> \in Owner \X Comp
        BY Constants DEF TypeInv, TypeObjects
    <2>4. WrittenInv'
        BY <2>1, <2>2, <2>3 DEF MgmtInv, WrittenInv, Live, objects, pass
    <2> QED BY <2>1, <2>4, BackedUpFrame DEF MgmtInv, objects, pass
  <1> QED BY <1>1, <1>2, <1>3

LEMMA MgmtOther ==
    ASSUME TypeInv, TypeInv', LifeInv, MgmtInv, DoneStays,
           \/ \E r \in Release : \/ ReleaseStep(r) \/ CreateRelease(r)
                                 \/ FluxInstallsTemplates(r) \/ TemplateValidated(r)
                                 \/ TemplateInvalidated(r)
           \/ Restart
           \/ \E b \in Backup, r \in Release : BackupCompletes(b, r)
           \/ UNCHANGED vars
    PROVE  MgmtInv'
  <1>1. CASE Restart
      BY <1>1, MgmtRestarted DEF Restart, helm
  <1>2. CASE ~Restart
    <2>1. UNCHANGED <<objects, helm, pass>>
        BY <1>2 DEF ReleaseStep, SkipRelease, ReconcileKCMTemplates, ValidateProviderTemplates,
           CreateRelease, FluxInstallsTemplates, TemplateValidated, TemplateInvalidated,
           BackupCompletes, vars
    <2>2. MgmtSame /\ PassSame
        BY <2>1 DEF MgmtSame, PassSame, objects, helm, pass
    <2> QED BY <2>2, MgmtFrame
  <1> QED BY <1>1, <1>2

LEMMA MgmtHolds == Spec => []MgmtInv
  <1>1. Init => MgmtInv
      BY Constants DEF Init, MgmtInv, WrittenInv, BackedUp, Live, InPass
  <1>2. TypeInv /\ TypeInv' /\ LifeInv /\ MgmtInv /\ [Next]_vars => MgmtInv'
    <2> SUFFICES ASSUME TypeInv, TypeInv', LifeInv, MgmtInv, [Next]_vars PROVE MgmtInv'
        OBVIOUS
    <2>1. DoneStays
        BY BackupsStay
    <2>2. ASSUME NEW o \in Region,
                 Step(o) \/ PassFails(o) \/ ChangeProviders(o) \/ Delete(o) \/ CreateRegion(o)
          PROVE  MgmtInv'
        BY <2>1, <2>2, RegionStep, MgmtFrame
    <2>3. Step(Mgmt) \/ PassFails(Mgmt) \/ ChangeProviders(Mgmt) \/ Delete(Mgmt) => MgmtInv'
        BY <2>1, MgmtReconcile, MgmtComponent, MgmtUpdateStatus, MgmtRemove, MgmtPass, MgmtUser
           DEF Step
    <2>4. ASSUME NEW o \in Owner, Step(o) \/ PassFails(o) \/ ChangeProviders(o) \/ Delete(o)
          PROVE  MgmtInv'
        BY <2>2, <2>3, <2>4 DEF Owner
    <2> QED BY <2>1, <2>2, <2>4, MgmtFlux, MgmtOther, MgmtUser DEF Next
  <1> QED BY <1>1, <1>2, LifeHolds, ManagementTypeCorrect, PTL DEF Spec

-----------------------------------------------------------------------------
(* What any step may do to HelmReleases, passes and the spec *)

(* The steps that write no HelmRelease and start no pass.                  *)
LEMMA QuietStep ==
    ASSUME TypeInv,
           \/ \E r \in Release : \/ ReleaseStep(r) \/ CreateRelease(r)
                                 \/ FluxInstallsTemplates(r) \/ TemplateValidated(r)
                                 \/ TemplateInvalidated(r)
           \/ \E b \in Backup, r \in Release : BackupCompletes(b, r)
           \/ UNCHANGED vars
    PROVE  UNCHANGED <<objects, helm, pass>>
  BY DEF ReleaseStep, SkipRelease, ReconcileKCMTemplates, ValidateProviderTemplates,
     CreateRelease, FluxInstallsTemplates, TemplateValidated, TemplateInvalidated,
     BackupCompletes, vars

(* A HelmRelease is written by a pass that got to its component, and       *)
(* removed when it is marked.                                              *)
LEMMA HelmReleaseMoves ==
    ASSUME TypeInv, [Next]_vars
    PROVE  \/ UNCHANGED hr
           \/ \E o \in Owner : ReconcileHelmRelease(o)
           \/ \E o \in Owner, c \in Comp : FluxUninstalls(o, c)
  <1>1. ASSUME NEW o \in Owner, Step(o), ~ReconcileHelmRelease(o) PROVE UNCHANGED hr
      BY <1>1 DEF Step, Reconcile, AddFinalizer, EnsureUpgradeBackup, DependencyNotReady,
         ComponentFails, UpdateStatus, RemoveHelmReleases, RemoveFinalizer, helm
  <1>2. ASSUME NEW o \in Owner,
               PassFails(o) \/ ChangeProviders(o) \/ Delete(o) \/ CreateRegion(o)
        PROVE  UNCHANGED hr
      BY <1>2 DEF PassFails, ChangeProviders, Delete, CreateRegion, helm
  <1>3. ASSUME NEW o \in Owner, NEW c \in Comp, FluxInstalls(o, c) \/ ComponentBreaks(o, c)
        PROVE  UNCHANGED hr
      BY <1>3 DEF FluxInstalls, ComponentBreaks
  <1>4. EnsureManagement \/ Restart \/ (\E r \in Release : ChangeRelease(r)) => UNCHANGED hr
      BY DEF EnsureManagement, Restart, ChangeRelease, helm
  <1>5. UNCHANGED helm => UNCHANGED hr
      BY DEF helm
  <1> QED BY <1>1, <1>2, <1>3, <1>4, <1>5, QuietStep, Constants DEF Next

(* A component is installed by Flux; what was installed is on record.      *)
LEMMA InstalledMoves ==
    ASSUME TypeInv, [Next]_vars
    PROVE  \/ \E o \in Owner, c \in Comp : FluxInstalls(o, c)
           \/ landed' = landed /\ \A x \in Owner \X Comp : inst'[x] \in {0, inst[x]}
  <1> DEFINE Fewer == landed' = landed /\ \A x \in Owner \X Comp : inst'[x] \in {0, inst[x]}
  <1>0. inst \in [Owner \X Comp -> 0 .. MaxRelease]
      BY DEF TypeInv, TypeHelm
  <1>1. ASSUME NEW o \in Owner, Step(o) PROVE Fewer
    <2>1. CASE ReconcileHelmRelease(o)
        BY <1>0, <2>1 DEF ReconcileHelmRelease
    <2>2. CASE ~ReconcileHelmRelease(o)
        BY <1>1, <2>2 DEF Step, Reconcile, AddFinalizer, EnsureUpgradeBackup,
           DependencyNotReady, ComponentFails, UpdateStatus, RemoveHelmReleases,
           RemoveFinalizer, helm
    <2> QED BY <2>1, <2>2
  <1>2. ASSUME NEW o \in Owner,
               PassFails(o) \/ ChangeProviders(o) \/ Delete(o) \/ CreateRegion(o)
        PROVE  Fewer
      BY <1>2 DEF PassFails, ChangeProviders, Delete, CreateRegion, helm
  <1>3. ASSUME NEW o \in Owner, NEW c \in Comp, FluxUninstalls(o, c) \/ ComponentBreaks(o, c)
        PROVE  Fewer
      BY <1>0, <1>3 DEF FluxUninstalls, ComponentBreaks
  <1>4. EnsureManagement \/ Restart \/ (\E r \in Release : ChangeRelease(r)) => Fewer
      BY DEF EnsureManagement, Restart, ChangeRelease, helm
  <1>5. UNCHANGED helm => Fewer
      BY DEF helm
  <1> QED BY <1>1, <1>2, <1>3, <1>4, <1>5, QuietStep, Constants DEF Next

(* The release of the spec is set by the first Management object and by    *)
(* users.                                                                  *)
LEMMA WantMoves ==
    ASSUME TypeInv, [Next]_vars
    PROVE  \/ UNCHANGED <<want, back>>
           \/ EnsureManagement
           \/ \E r \in Release : ChangeRelease(r)
  <1>1. ASSUME NEW o \in Owner, Step(o) PROVE UNCHANGED <<want, back>>
      BY <1>1 DEF Step, Reconcile, AddFinalizer, EnsureUpgradeBackup, DependencyNotReady,
         ComponentFails, ReconcileHelmRelease, UpdateStatus, RemoveHelmReleases,
         RemoveFinalizer, objects
  <1>2. ASSUME NEW o \in Owner,
               PassFails(o) \/ ChangeProviders(o) \/ Delete(o) \/ CreateRegion(o)
        PROVE  UNCHANGED <<want, back>>
      BY <1>2 DEF PassFails, ChangeProviders, Delete, CreateRegion
  <1>3. ASSUME NEW o \in Owner, NEW c \in Comp,
               FluxInstalls(o, c) \/ FluxUninstalls(o, c) \/ ComponentBreaks(o, c)
        PROVE  UNCHANGED <<want, back>>
      BY <1>3 DEF FluxInstalls, FluxUninstalls, ComponentBreaks, objects
  <1>4. Restart => UNCHANGED <<want, back>>
      BY DEF Restart, objects
  <1>5. UNCHANGED objects => UNCHANGED <<want, back>>
      BY DEF objects
  <1> QED BY <1>1, <1>2, <1>3, <1>4, <1>5, QuietStep, Constants DEF Next

(* A pass works from what it has read, and reads the release of the spec.  *)
Continues(o) == pc[o] \in InPass /\ snap'[o] = snap[o]
Starts(o) == /\ Live(o) /\ pc[o] = "idle" /\ snap'[o].release = want
             /\ UNCHANGED <<objects, hr>>

LEMMA PassMoves ==
    ASSUME TypeInv, [Next]_vars, NEW p \in Owner
    PROVE  pc'[p] \in InPass => Continues(p) \/ Starts(p)
  <1> DEFINE G == pc'[p] \in InPass => Continues(p) \/ Starts(p)
  <1>0. /\ pc \in [Owner -> {"idle", "backup", "component", "status", "remove", "finalizer"}]
        /\ snap \in [Owner -> Snaps]
      BY DEF TypeInv, TypePass
  <1>a. UNCHANGED <<pc, snap>> => G
      BY DEF Continues
  <1>b. ASSUME NEW o \in Owner, Forget(o) PROVE G
      BY <1>0, <1>b DEF Forget, To, Continues, InPass
  <1>c. Restarted => G
      BY DEF Restarted, InPass
  <1>d. ASSUME NEW o \in Owner, NEW step \in {"component", "status", "remove", "finalizer"},
               To(o, step), UNCHANGED snap, step \in InPass => pc[o] \in InPass
        PROVE  G
      BY <1>0, <1>d DEF To, Continues, InPass
  <1>1. ASSUME NEW o \in Owner, Step(o) PROVE G
    <2>1. CASE Reconcile(o)
      <3>1. CASE /\ Live(o)
                 /\ snap' = [snap EXCEPT ![o] = [release |-> SpecRelease(o),
                                                 prov    |-> prov[o]]]
                 /\ To(o, IF o = Mgmt THEN "backup" ELSE "component")
        <4>1. pc[o] = "idle" /\ UNCHANGED <<objects, hr>>
            BY <2>1 DEF Reconcile
        <4>2. CASE p = o
            BY <1>0, <3>1, <4>1, <4>2 DEF Starts, SpecRelease
        <4>3. CASE p # o
            BY <1>0, <3>1, <4>3 DEF Continues, To
        <4> QED BY <4>2, <4>3
      <3>2. CASE To(o, "remove") /\ UNCHANGED snap
          BY <1>d, <3>2 DEF InPass
      <3>3. CASE UNCHANGED <<pc, snap>>
          BY <1>a, <3>3
      <3> QED BY <2>1, <3>1, <3>2, <3>3 DEF Reconcile
    <2>2. CASE AddFinalizer(o)
        BY <1>a, <2>2 DEF AddFinalizer, pass
    <2>3. CASE EnsureUpgradeBackup(o)
        BY <1>b, <1>d, <2>3 DEF EnsureUpgradeBackup, InPass
    <2>4. CASE DependencyNotReady(o) \/ ComponentFails(o) \/ ReconcileHelmRelease(o)
      <3>1. /\ pc[o] = "component" /\ UNCHANGED snap
            /\ To(o, IF Len(todo[o]) = 1 THEN "status" ELSE "component")
          BY <2>4 DEF DependencyNotReady, ComponentFails, ReconcileHelmRelease, ComponentDone
      <3> QED BY <1>d, <3>1 DEF InPass
    <2>5. CASE UpdateStatus(o) \/ RemoveFinalizer(o)
        BY <1>b, <2>5 DEF UpdateStatus, RemoveFinalizer
    <2>6. CASE RemoveHelmReleases(o)
        BY <1>b, <1>d, <2>6 DEF RemoveHelmReleases, InPass
    <2> QED BY <1>1, <2>1, <2>2, <2>3, <2>4, <2>5, <2>6 DEF Step
  <1>2. ASSUME NEW o \in Owner,
               PassFails(o) \/ ChangeProviders(o) \/ Delete(o) \/ CreateRegion(o)
        PROVE  G
      BY <1>2, <1>a, <1>b DEF PassFails, ChangeProviders, Delete, CreateRegion, Touch, pass
  <1>3. ASSUME NEW o \in Owner, NEW c \in Comp,
               FluxInstalls(o, c) \/ FluxUninstalls(o, c) \/ ComponentBreaks(o, c)
        PROVE  G
      BY <1>3, <1>a, <1>c DEF FluxInstalls, FluxUninstalls, ComponentBreaks, pass
  <1>4. EnsureManagement \/ Restart \/ (\E r \in Release : ChangeRelease(r)) => G
      BY <1>a, <1>c DEF EnsureManagement, Restart, ChangeRelease, Touch, pass
  <1>5. UNCHANGED pass => G
      BY <1>a DEF pass
  <1> HIDE DEF G
  <1>6. G
      BY <1>1, <1>2, <1>3, <1>4, <1>5, QuietStep, Constants DEF Next
  <1> QED BY <1>6 DEF G

-----------------------------------------------------------------------------
(* The order of components *)

LEMMA Depends ==
    /\ DependsOn("kcm") = {} /\ DependsOn("capi") = {"kcm"}
    /\ \A c \in Comp : /\ DependsOn(c) \subseteq {"kcm", "capi"} /\ c \notin DependsOn(c)
                       /\ DependsOn(c) \subseteq Comp /\ DependsOn(c) \cap Provider = {}
  BY ManagementAssumption DEF DependsOn, Comp

(* While the spec only goes forward nothing is ahead of it, nor of what    *)
(* the pass under way has read, and what a component of the release asked  *)
(* for depends on is at that release unless it is gone.                    *)
Ordered(o) ==
    /\ pc[o] \in InPass => snap[o].release <= want
    /\ \A c \in Comp :
          /\ hr[<<o, c>>] <= want
          /\ pc[o] \in InPass => hr[<<o, c>>] <= snap[o].release
          /\ hr[<<o, c>>] = want /\ want # 0 =>
                \A d \in DependsOn(c) : hr[<<o, d>>] \in {0, want}

OrderInv == ~back => \A o \in Owner : Ordered(o)

OnRecord ==
    \A o \in Owner, c \in Comp : inst[<<o, c>>] # 0 => <<o, c, inst[<<o, c>>]>> \in landed

LEMMA RecordStep ==
    ASSUME TypeInv, OnRecord, [Next]_vars
    PROVE  OnRecord'
  <1>1. CASE landed' = landed /\ \A x \in Owner \X Comp : inst'[x] \in {0, inst[x]}
    <2> SUFFICES ASSUME NEW o \in Owner, NEW c \in Comp, inst'[<<o, c>>] # 0
                 PROVE  <<o, c, inst'[<<o, c>>]>> \in landed
        BY <1>1 DEF OnRecord
    <2> QED BY <1>1 DEF OnRecord
  <1>2. ASSUME NEW o \in Owner, NEW c \in Comp, FluxInstalls(o, c) PROVE OnRecord'
    <2> SUFFICES ASSUME NEW p \in Owner, NEW d \in Comp, inst'[<<p, d>>] # 0
                 PROVE  <<p, d, inst'[<<p, d>>]>> \in landed'
        BY DEF OnRecord
    <2>1. CASE <<p, d>> = <<o, c>>
        BY <1>2, <2>1 DEF FluxInstalls, TypeInv, TypeHelm
    <2>2. CASE <<p, d>> # <<o, c>>
        BY <1>2, <2>2 DEF FluxInstalls, TypeInv, TypeHelm, OnRecord
    <2> QED BY <2>1, <2>2
  <1> QED BY <1>1, <1>2, InstalledMoves

LEMMA OrderStep ==
    ASSUME TypeInv, TypeInv', LifeInv, OrderInv, [Next]_vars
    PROVE  OrderInv'
  <1>0. /\ want \in Nat /\ want' \in Nat
        /\ \A o \in Owner : snap[o].release \in Nat /\ snap'[o].release \in Nat
        /\ \A x \in Owner \X Comp : hr[x] \in Nat /\ hr'[x] \in Nat
      BY Constants DEF TypeInv, TypeObjects, TypePass, TypeHelm, Snaps
  <1> SUFFICES ASSUME ~back', NEW o \in Owner PROVE Ordered(o)'
      BY DEF OrderInv
  <1>1. pc'[o] \in InPass => Continues(o) \/ Starts(o)
      BY PassMoves
  <1>2. CASE EnsureManagement
    <2>1. ~fin[o] /\ pc[o] = "idle" /\ \A c \in Comp : hr[<<o, c>>] = 0
        BY <1>2 DEF EnsureManagement, LifeInv, ObjectsInv, PassInv, Exists
    <2>2. pc'[o] = "idle" /\ hr' = hr /\ want' # 0
        BY <1>2, <2>1, Constants DEF EnsureManagement, pass, helm, TypeInv, TypeReleases, Release
    <2> QED BY <1>0, <2>1, <2>2 DEF InPass, Ordered
  <1>3. ASSUME NEW r \in Release, ChangeRelease(r) PROVE Ordered(o)'
    <2>1. UNCHANGED <<hr, pc, snap>> /\ want' = r /\ r # want
        BY <1>3 DEF ChangeRelease, helm, Touch
    <2>2. ~back /\ ~(r < want)
      <3>1. back' = (back \/ r < want)
          BY <1>3 DEF ChangeRelease
      <3> QED BY <3>1
    <2>3. want' > want
        BY <1>0, <2>1, <2>2
    <2> QED BY <1>0, <2>1, <2>2, <2>3, Depends DEF OrderInv, Ordered
  <1>4. CASE UNCHANGED <<want, back>>
    <2>0. ~back /\ want' = want /\ Ordered(o)
        BY <1>4 DEF OrderInv
    <2>4. pc'[o] \in InPass => snap'[o].release <= want
        BY <1>0, <1>1, <2>0 DEF Ordered, Continues, Starts
    <2>1. CASE UNCHANGED hr
        BY <1>0, <1>1, <2>0, <2>1, <2>4 DEF Ordered, Continues, Starts
    <2>2. ASSUME NEW p \in Owner, NEW e \in Comp, FluxUninstalls(p, e) PROVE Ordered(o)'
      <3>1. \A c \in Comp : hr'[<<o, c>>] \in {0, hr[<<o, c>>]}
          BY <2>2 DEF FluxUninstalls, TypeInv, TypeHelm
      <3>2. pc'[o] = pc[o] /\ snap'[o] = snap[o]
          BY <2>2 DEF FluxUninstalls, pass
      <3> QED BY <1>0, <2>0, <3>1, <3>2, Depends DEF Ordered
    <2>3. ASSUME NEW p \in Owner, ReconcileHelmRelease(p) PROVE Ordered(o)'
      <3> DEFINE h == Head(todo[p])
                 r == snap[p].release
      <3>1. /\ h \in Comp /\ DependsOn(h) \subseteq ok[p] /\ snap' = snap
            /\ pc[p] = "component"
            /\ \A x \in Owner \X Comp : hr'[x] = IF x = <<p, h>> THEN r ELSE hr[x]
          BY <2>3, Consumed DEF ReconcileHelmRelease, TypeInv, TypeHelm, TypePass, Left
      <3>2. \A d \in DependsOn(h) : hr[<<p, d>>] = r /\ d # h /\ d \in Comp
          BY <3>1, Depends DEF LifeInv, PassInv
      <3> HIDE DEF h, r
      <3>3. CASE o # p
        <4>1. \A c \in Comp : hr'[<<o, c>>] = hr[<<o, c>>]
            BY <3>1, <3>3
        <4>2. pc'[o] \in InPass => pc[o] \in InPass /\ snap'[o] = snap[o]
            BY <2>3, <3>3 DEF ReconcileHelmRelease, ComponentDone, To, TypeInv, TypePass
        <4> QED BY <1>0, <2>0, <4>1, <4>2, Depends DEF Ordered
      <3>4. CASE o = p
        <4>1. /\ pc[o] \in InPass /\ r <= want /\ r \in Nat
              /\ \A c \in Comp : hr[<<o, c>>] <= r
            BY <1>0, <2>0, <3>1, <3>4 DEF Ordered, InPass, r
        <4>2. /\ hr'[<<o, h>>] = r
              /\ \A c \in Comp : c # h => hr'[<<o, c>>] = hr[<<o, c>>]
            BY <3>1, <3>4
        <4>3. snap'[o].release = r
            BY <3>1, <3>4 DEF r
        <4>4. \A c \in Comp : hr'[<<o, c>>] <= r
            BY <4>1, <4>2
        <4>5. ASSUME NEW c \in Comp, hr'[<<o, c>>] = want, want # 0, NEW d \in DependsOn(c)
              PROVE  hr'[<<o, d>>] \in {0, want}
          <5>1. r = want /\ d \in Comp
              BY <1>0, <4>1, <4>4, <4>5, Depends
          <5>2. CASE c = h
              BY <3>2, <3>4, <4>2, <4>5, <5>1, <5>2
          <5>3. CASE c # h /\ d = h
              BY <4>2, <5>1, <5>3
          <5>4. CASE c # h /\ d # h
              BY <2>0, <4>2, <4>5, <5>1, <5>4 DEF Ordered
          <5> QED BY <5>2, <5>3, <5>4
        <4> QED BY <1>0, <2>0, <2>4, <4>1, <4>3, <4>4, <4>5 DEF Ordered
      <3> QED BY <3>3, <3>4
    <2> QED BY <2>1, <2>2, <2>3, HelmReleaseMoves
  <1> QED BY <1>2, <1>3, <1>4, WantMoves

(* What is marked in a Region has nothing there that depends on it, and    *)
(* kcm and capi are marked only when no pass can bring that back.          *)
RemovalInv ==
    \A o \in Region, c \in Comp :
       del[<<o, c>>] =>
         /\ Dependents(o, c) = {}
         /\ c \notin Provider => phase[o] \in {"deleting", "gone"} /\ pc[o] \notin InPass

(* A Region that is deleted does not come back.                            *)
LEMMA PhaseMoves ==
    ASSUME TypeInv, LifeInv, [Next]_vars, NEW o \in Region, phase[o] \in {"deleting", "gone"}
    PROVE  phase'[o] \in {"deleting", "gone"}
  <1>0. o \in Owner /\ o # Mgmt /\ phase \in [Owner -> {"absent", "live", "deleting", "gone"}]
      BY Constants DEF TypeInv, TypeObjects
  <1>1. ASSUME NEW p \in Owner, Step(p)
        PROVE  phase' = phase \/ phase' = [phase EXCEPT ![p] = "gone"]
      BY <1>1 DEF Step, Reconcile, AddFinalizer, EnsureUpgradeBackup, DependencyNotReady,
         ComponentFails, ReconcileHelmRelease, UpdateStatus, RemoveHelmReleases,
         RemoveFinalizer, objects
  <1>2. ASSUME NEW p \in Owner, PassFails(p) \/ ChangeProviders(p) PROVE phase' = phase
      BY <1>2 DEF PassFails, ChangeProviders
  <1>3. ASSUME NEW p \in Owner, Delete(p)
        PROVE  \E v \in {"deleting", "gone"} : phase' = [phase EXCEPT ![p] = v]
      BY <1>3 DEF Delete
  <1>4. ASSUME NEW p \in Region, CreateRegion(p)
        PROVE  phase[p] = "absent" /\ phase' = [phase EXCEPT ![p] = "live"]
      BY <1>4 DEF CreateRegion
  <1>5. ASSUME NEW p \in Owner, NEW c \in Comp,
               FluxInstalls(p, c) \/ FluxUninstalls(p, c) \/ ComponentBreaks(p, c)
        PROVE  phase' = phase
      BY <1>5 DEF FluxInstalls, FluxUninstalls, ComponentBreaks, objects
  <1>6. Restart \/ (\E r \in Release : ChangeRelease(r)) => phase' = phase
      BY DEF Restart, ChangeRelease, objects
  <1>7. EnsureManagement => phase' = [phase EXCEPT ![Mgmt] = "live"]
      BY DEF EnsureManagement
  <1>8. UNCHANGED objects => phase' = phase
      BY DEF objects
  <1>9. ASSUME NEW p \in Owner, Step(p) \/ PassFails(p) \/ ChangeProviders(p) \/ Delete(p)
        PROVE  phase'[o] \in {"deleting", "gone"}
      BY <1>0, <1>1, <1>2, <1>3, <1>9
  <1>10. ASSUME NEW p \in Region, CreateRegion(p) PROVE phase'[o] \in {"deleting", "gone"}
      BY <1>0, <1>4, <1>10, Constants
  <1> QED BY <1>0, <1>5, <1>6, <1>7, <1>8, <1>9, <1>10, QuietStep DEF Next

(* A HelmRelease of a Region is marked by a pass of that Region.           *)
LEMMA MarkMoves ==
    ASSUME TypeInv, LifeInv, [Next]_vars, NEW o \in Region, NEW c \in Comp,
           del'[<<o, c>>], ~del[<<o, c>>]
    PROVE  /\ UNCHANGED hr
           /\ \/ c \in Provider
              \/ /\ Dependents(o, c) = {} /\ phase[o] = "deleting" /\ pc[o] = "remove"
  <1>0. /\ o \in Owner /\ o # Mgmt /\ Mgmt \in Owner /\ del \in [Owner \X Comp -> BOOLEAN]
        /\ <<o, c>> \in Owner \X Comp
      BY Constants DEF TypeInv, TypeHelm
  <1>1. ASSUME NEW p \in Owner, Step(p), ~Reconcile(p), ~RemoveHelmReleases(p) PROVE FALSE
      BY <1>0, <1>1 DEF Step, AddFinalizer, EnsureUpgradeBackup, DependencyNotReady,
         ComponentFails, ReconcileHelmRelease, UpdateStatus, RemoveFinalizer, helm
  <1>2. ASSUME NEW p \in Owner, Reconcile(p) PROVE UNCHANGED hr /\ c \in Provider
      BY <1>0, <1>2 DEF Reconcile, Cleanup
  <1>3. ASSUME NEW p \in Owner, RemoveHelmReleases(p)
        PROVE  UNCHANGED hr /\ Dependents(o, c) = {} /\ phase[o] = "deleting" /\ pc[o] = "remove"
    <2>1. /\ <<o, c>> \in Managed(p) /\ hr[<<o, c>>] # 0
          /\ p = Mgmt \/ Dependents(p, c) = {}
          /\ pc[p] = "remove" /\ UNCHANGED hr
        BY <1>0, <1>3 DEF RemoveHelmReleases
    <2>2. phase[p] = "deleting"
        BY <2>1 DEF LifeInv, PassInv
    <2>3. fin[o] /\ Exists(o)
        BY <1>0, <2>1 DEF LifeInv, PassInv
    <2>4. p # Mgmt
        BY <2>2, <2>3 DEF LifeInv, ObjectsInv, Live
    <2>5. p = o
        BY <2>1, <2>4 DEF Managed
    <2> QED BY <2>1, <2>2, <2>4, <2>5
  <1>4. ASSUME NEW p \in Owner,
               PassFails(p) \/ ChangeProviders(p) \/ Delete(p) \/ CreateRegion(p)
        PROVE  FALSE
      BY <1>4 DEF PassFails, ChangeProviders, Delete, CreateRegion, helm
  <1>5. ASSUME NEW p \in Owner, NEW e \in Comp,
               FluxInstalls(p, e) \/ FluxUninstalls(p, e) \/ ComponentBreaks(p, e)
        PROVE  FALSE
      BY <1>0, <1>5 DEF FluxInstalls, FluxUninstalls, ComponentBreaks
  <1>6. ~(EnsureManagement \/ Restart \/ \E r \in Release : ChangeRelease(r))
      BY DEF EnsureManagement, Restart, ChangeRelease, helm
  <1>7. ~UNCHANGED helm
      BY DEF helm
  <1> QED BY <1>1, <1>2, <1>3, <1>4, <1>5, <1>6, <1>7, QuietStep, Constants DEF Next

LEMMA RemovalStep ==
    ASSUME TypeInv, LifeInv, RemovalInv, [Next]_vars
    PROVE  RemovalInv'
  <1> SUFFICES ASSUME NEW o \in Region, NEW c \in Comp, del'[<<o, c>>]
               PROVE  /\ Dependents(o, c)' = {}
                      /\ c \notin Provider =>
                           phase'[o] \in {"deleting", "gone"} /\ pc'[o] \notin InPass
      BY DEF RemovalInv
  <1>0. o \in Owner /\ o # Mgmt
      BY Constants
  <1>1. CASE del[<<o, c>>]
    <2>1. Dependents(o, c) = {} /\ (c \notin Provider => /\ phase[o] \in {"deleting", "gone"}
                                                         /\ pc[o] \notin InPass)
        BY <1>1 DEF RemovalInv
    <2>2. ASSUME NEW d \in Comp, c \in DependsOn(d) PROVE hr'[<<o, d>>] = 0
      <3>1. hr[<<o, d>>] = 0 /\ pc[o] \notin InPass
          BY <2>1, <2>2, Depends DEF Dependents, Placed
      <3>2. ASSUME NEW p \in Owner, ReconcileHelmRelease(p) PROVE hr'[<<o, d>>] = hr[<<o, d>>]
          BY <1>0, <3>1, <3>2 DEF ReconcileHelmRelease, TypeInv, TypeHelm, InPass
      <3>3. ASSUME NEW p \in Owner, NEW e \in Comp, FluxUninstalls(p, e)
            PROVE  hr'[<<o, d>>] \in {0, hr[<<o, d>>]}
          BY <1>0, <3>3 DEF FluxUninstalls, TypeInv, TypeHelm
      <3> QED BY <3>1, <3>2, <3>3, HelmReleaseMoves
    <2>3. Dependents(o, c)' = {}
        BY <2>2 DEF Dependents, Placed
    <2>4. ASSUME c \notin Provider
          PROVE  phase'[o] \in {"deleting", "gone"} /\ pc'[o] \notin InPass
        BY <1>0, <2>1, <2>4, PhaseMoves, PassMoves DEF Continues, Starts, Live
    <2> QED BY <2>3, <2>4
  <1>2. CASE ~del[<<o, c>>]
    <2>1. /\ UNCHANGED hr
          /\ \/ c \in Provider
             \/ /\ Dependents(o, c) = {} /\ phase[o] = "deleting" /\ pc[o] = "remove"
        BY <1>2, MarkMoves
    <2>2. Dependents(o, c)' = {}
        BY <2>1, Depends DEF Dependents, Placed
    <2>3. ASSUME c \notin Provider
          PROVE  phase'[o] \in {"deleting", "gone"} /\ pc'[o] \notin InPass
        BY <1>0, <2>1, <2>3, PhaseMoves, PassMoves DEF Continues, Starts, InPass
    <2> QED BY <2>2, <2>3
  <1> QED BY <1>1, <1>2

LEMMA OrderHolds == Spec => [](OnRecord /\ OrderInv /\ RemovalInv)
  <1>1. Init => OnRecord /\ OrderInv /\ RemovalInv
      BY Constants DEF Init, OnRecord, OrderInv, Ordered, RemovalInv, InPass, Owner
  <1>2. TypeInv /\ TypeInv' /\ LifeInv /\ OnRecord /\ OrderInv /\ RemovalInv /\ [Next]_vars
          => (OnRecord /\ OrderInv /\ RemovalInv)'
      BY RecordStep, OrderStep, RemovalStep
  <1> QED BY <1>1, <1>2, LifeHolds, ManagementTypeCorrect, PTL DEF Spec

-----------------------------------------------------------------------------
(* A Management object that says it is ready and has observed its          *)
(* generation has every component of its spec written at its release, and  *)
(* no HelmRelease outlives the object it was written for, for any          *)
(* providers, Regions and releases and whatever is edited, fails or is     *)
(* restarted between the calls of a pass.                                  *)
THEOREM ReleaseSafe == Spec => []ReleaseInv
  <1>1. TypeOK /\ LifeInv /\ MgmtInv => ReleaseInv
    <2> SUFFICES ASSUME TypeOK, LifeInv, MgmtInv PROVE ReleaseInv
        OBVIOUS
    <2>1. ReadyMeansWritten
        BY DEF MgmtInv, WrittenInv, ReadyMeansWritten
    <2>2. NothingOutlivesIt
        BY DEF LifeInv, PassInv, Exists, NothingOutlivesIt, Placed
    <2> QED BY <2>1, <2>2 DEF ReleaseInv
  <1> QED BY <1>1, ManagementTypeCorrect, LifeHolds, MgmtHolds, PTL

(* ensureUpgradeBackup comes first: no HelmRelease of the management       *)
(* cluster leaves the recorded release before all of its backups are       *)
(* completed, for any number of backups and releases.                      *)
THEOREM BackupsComeFirst == Spec => BackupFirst
  <1> DEFINE Guarded ==
        \A c \in Comp :
          /\ hr'[<<Mgmt, c>>] \notin {0, hr[<<Mgmt, c>>], stat[Mgmt].release}
          /\ stat[Mgmt].release # 0
          => \A b \in Backup : mb[<<b, stat[Mgmt].release>>] = "done"
  <1>1. TypeInv /\ MgmtInv /\ [Next]_vars => Guarded
    <2> SUFFICES ASSUME TypeInv, MgmtInv, [Next]_vars, NEW c \in Comp,
                        hr'[<<Mgmt, c>>] \notin {0, hr[<<Mgmt, c>>], stat[Mgmt].release},
                        stat[Mgmt].release # 0
                 PROVE  \A b \in Backup : mb[<<b, stat[Mgmt].release>>] = "done"
        OBVIOUS
    <2>0. <<Mgmt, c>> \in Owner \X Comp
        BY Constants
    <2>1. ~\E p \in Owner, e \in Comp : FluxUninstalls(p, e)
        BY <2>0 DEF FluxUninstalls, TypeInv, TypeHelm
    <2>2. PICK p \in Owner : ReconcileHelmRelease(p)
        BY <2>1, HelmReleaseMoves
    <2>3. p = Mgmt /\ hr'[<<Mgmt, c>>] = snap[Mgmt].release /\ pc[Mgmt] = "component"
        BY <2>0, <2>2 DEF ReconcileHelmRelease, TypeInv, TypeHelm
    <2> QED BY <2>3 DEF MgmtInv, BackedUp, Upgrading, IsCompleted
  <1> QED BY <1>1, ManagementTypeCorrect, MgmtHolds, PTL DEF Spec, BackupFirst

(* The components of a release come one after the other, for any providers *)
(* and Regions, even when checkProviderStatus reads a HelmRelease from     *)
(* before the upgrade; and removeHelmReleases takes what others depend on  *)
(* after them.                                                             *)
THEOREM ComponentsInOrder == Spec => InOrder
  <1>1. ASSUME TypeInv, LifeInv, OnRecord, OrderInv, RemovalInv, [Next]_vars,
               NEW o \in Owner, NEW c \in Comp
        PROVE  LET r == inst'[<<o, c>>] IN
               /\ ~back /\ r = want /\ r # 0 /\ <<o, c, r>> \notin landed =>
                     \A d \in DependsOn(c) : <<o, d, r>> \in landed
               /\ o \in Region /\ hr[<<o, c>>] # 0 /\ hr'[<<o, c>>] = 0 =>
                     ~\E d \in Placed(o) : c \in DependsOn(d)
    <2>0. /\ <<o, c>> \in Owner \X Comp /\ inst \in [Owner \X Comp -> 0 .. MaxRelease]
          /\ hr \in [Owner \X Comp -> 0 .. MaxRelease]
        BY <1>1 DEF TypeInv, TypeHelm
    <2>1. ASSUME ~back, inst'[<<o, c>>] = want, want # 0, <<o, c, want>> \notin landed,
                 NEW d \in DependsOn(c)
          PROVE  <<o, d, want>> \in landed
      <3>1. inst'[<<o, c>>] \notin {0, inst[<<o, c>>]}
          BY <1>1, <2>1 DEF OnRecord
      <3>2. PICK p \in Owner, e \in Comp : FluxInstalls(p, e)
          BY <1>1, <2>0, <3>1, InstalledMoves
      <3>3. p = o /\ e = c /\ hr[<<o, c>>] = want
          BY <2>0, <2>1, <3>1, <3>2 DEF FluxInstalls
      <3>4. d \in Comp /\ ProviderReady(o, d)
          BY <2>1, <3>2, <3>3, Depends DEF FluxInstalls, HelmReleaseDependsOn
      <3>5. hr[<<o, d>>] = want
          BY <1>1, <2>1, <3>3, <3>4 DEF OrderInv, Ordered, ProviderReady
      <3> QED BY <1>1, <2>1, <3>4, <3>5 DEF OnRecord, ProviderReady
    <2>2. ASSUME o \in Region, hr[<<o, c>>] # 0, hr'[<<o, c>>] = 0
          PROVE  ~\E d \in Placed(o) : c \in DependsOn(d)
      <3>1. ASSUME NEW p \in Owner, ReconcileHelmRelease(p) PROVE FALSE
        <4>1. snap[p].release # 0
            BY <1>1, <3>1 DEF ReconcileHelmRelease, LifeInv, PassInv, InPass
        <4> QED BY <2>0, <2>2, <3>1, <4>1 DEF ReconcileHelmRelease
      <3>2. PICK p \in Owner, e \in Comp : FluxUninstalls(p, e)
          BY <1>1, <2>2, <3>1, HelmReleaseMoves
      <3>3. del[<<o, c>>]
          BY <2>0, <2>2, <3>2 DEF FluxUninstalls
      <3> QED BY <1>1, <2>2, <3>3 DEF RemovalInv, Dependents
    <2> QED BY <2>1, <2>2
  <1>2. TypeInv /\ LifeInv /\ OnRecord /\ OrderInv /\ RemovalInv /\ [Next]_vars =>
          \A o \in Owner, c \in Comp :
             LET r == inst'[<<o, c>>] IN
             /\ ~back /\ r = want /\ r # 0 /\ <<o, c, r>> \notin landed =>
                   \A d \in DependsOn(c) : <<o, d, r>> \in landed
             /\ o \in Region /\ hr[<<o, c>>] # 0 /\ hr'[<<o, c>>] = 0 =>
                   ~\E d \in Placed(o) : c \in DependsOn(d)
      BY <1>1
  <1> QED BY <1>2, ManagementTypeCorrect, LifeHolds, OrderHolds, PTL DEF Spec, InOrder
=============================================================================
