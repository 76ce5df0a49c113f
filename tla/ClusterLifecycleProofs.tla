----------------------- MODULE ClusterLifecycleProofs -----------------------
(***************************************************************************)
(* LifecycleInv, VersionWasAccepted and ClusterGoesAfterServices of module *)
(* ClusterLifecycle, for every configuration of the ClusterDeployment and  *)
(* any number of edits, failed calls and restarts.                         *)
(***************************************************************************)
EXTENDS ClusterLifecycle, TLAPS

(* Every edit moves the object, and the template at most as often; the     *)
(* deletion is one more.                                                   *)
CountersInv ==
    /\ spec.deleting => spec.edits >= 1
    /\ ~spec.deleting => spec.edits <= MaxEdits
    /\ tpl.version <= spec.edits + 1

(* The finalizer keeps the object, and without it nothing has been made:   *)
(* every call that makes something comes after the one that sets it, and   *)
(* only the last call of a delete pass takes it away.                      *)
Quiet == {"idle", "addFinalizer", "end"}

FinalizerInv ==
    /\ spec.fin => spec.present
    /\ spec.present /\ spec.deleting => spec.fin
    /\ pc \notin Quiet => spec.fin
    /\ ~spec.fin => /\ hr = "absent" /\ capi = "absent" /\ cds = "absent" /\ ss = "absent"

(* The adapter has written a Profile only for a ServiceSet with its        *)
(* finalizer, and such a one goes last.                                    *)
AdapterInv == ss \in {"absent", "new"} => profile = "absent" /\ apc = "idle"

(* What a delete pass has found gone stays gone: nobody else makes it.     *)
AfterServices   == {"cleanup", "helmRelease", "clusterDataSource", "cluster", "finalizer"}
AfterRelease    == {"clusterDataSource", "cluster", "finalizer"}
AfterDataSource == {"cluster", "finalizer"}

DeletePassInv ==
    /\ pc \in AfterServices => ss \in {"absent", "marked"} /\ (~ssExists => ss = "absent")
    /\ pc \in AfterRelease => hr = "absent" /\ ss = "absent"
    /\ pc \in AfterDataSource => cds = "absent"
    /\ pc = "finalizer" => capi = "absent"
    /\ cds # "absent" => conf.kine

(* The values with the addresses were in the spec the pass has read.       *)
AddressInv ==
    /\ conf.ipam /\ pc \in {"validate", "resources", "helm"} => snap.values
    /\ AddressesBeforeCluster

VersionInv == {status.version, mem.version} \subseteq accepted \union {0}

LifecycleIInv == TypeOK /\ CountersInv /\ FinalizerInv /\ AdapterInv /\ DeletePassInv
                        /\ AddressInv /\ VersionInv

-----------------------------------------------------------------------------
(* The parts of the type invariant                                         *)

ObjectOK   == conf \in Configs /\ spec \in Spec0 /\ status \in Status
                /\ tpl \in [valid : BOOLEAN, version : 1 .. MaxEdits + 1]
PassOK     == pc \in Steps /\ snap \in Spec0 /\ mem \in Status /\ ssExists \in BOOLEAN
ClusterOK  == /\ hr \in {"absent", "pending", "ready", "terminating"} /\ hrIpam \in BOOLEAN
              /\ capi \in {"absent", "provisioning", "ready", "terminating"}
              /\ machines \in BOOLEAN /\ infra \in BOOLEAN
MadeOK     == /\ cds \in {"absent", "notReady", "ready", "terminating"}
              /\ claim \in {"absent", "unbound", "bound"}
              /\ ipam \in {"absent", "Pending", "Bound"}
              /\ secret \in {"absent", "bare", "owned"}
ServicesOK == /\ ss \in {"absent", "new", "live", "marked"} /\ ssStates \in BOOLEAN
              /\ apc \in {"idle", "profile"} /\ profile \in {"absent", "present", "terminating"}
              /\ cloud \subseteq CloudResources
HistoryOK  == accepted \subseteq 1 .. MaxEdits + 1 /\ faults \in 0 .. MaxFaults

LEMMA TypeParts ==
    TypeOK <=> /\ ObjectOK /\ PassOK /\ ClusterOK /\ MadeOK /\ ServicesOK /\ HistoryOK
               /\ queued \in BOOLEAN
BY DEF TypeOK, ObjectOK, PassOK, ClusterOK, MadeOK, ServicesOK, HistoryOK

LEMMA TypeAfter ==
    ASSUME ObjectOK', PassOK', ClusterOK', MadeOK', ServicesOK', HistoryOK', queued' \in BOOLEAN
    PROVE  TypeOK'
BY DEF TypeOK, ObjectOK, PassOK, ClusterOK, MadeOK, ServicesOK, HistoryOK

LEMMA Frames ==
    ASSUME TypeOK
    PROVE  /\ UNCHANGED <<object, tpl>> => ObjectOK'
           /\ UNCHANGED pass => PassOK'
           /\ UNCHANGED cluster => ClusterOK'
           /\ UNCHANGED <<cds, address, secret>> => MadeOK'
           /\ UNCHANGED services => ServicesOK'
           /\ UNCHANGED <<accepted, faults>> => HistoryOK'
           /\ UNCHANGED queued => queued' \in BOOLEAN
BY TypeParts DEF ObjectOK, PassOK, ClusterOK, MadeOK, ServicesOK, HistoryOK,
                 object, pass, cluster, address, services

LEMMA FaultType ==
    ASSUME TypeOK, CountersInv, Fault, accepted' = accepted PROVE HistoryOK'
<1>1. /\ faults \in Nat /\ MaxFaults \in Nat /\ spec.edits \in Nat /\ spec.deleting \in BOOLEAN
  BY ClusterLifecycleAssumption DEF TypeOK, Spec0
<1>2. faults < MaxFaults
  BY <1>1 DEF CountersInv, Fault, Disturbed
<1> QED
  BY <1>1, <1>2 DEF TypeOK, HistoryOK, Fault

LEMMA NewType == NewSpec \in Spec0 /\ NewStatus \in Status /\ NewStatus.version = 0
BY ClusterLifecycleAssumption
   DEF NewSpec, NewStatus, Spec0, Status, Three, Summary, Reasons

-----------------------------------------------------------------------------
(* The conditions                                                          *)

LEMMA ReadyType ==
    ASSUME NEW s \in Status
    PROVE  UpdateReadyCondition(s) \in Status /\ UpdateReadyCondition(s).version = s.version
BY DEF UpdateReadyCondition, Status, Three

LEMMA CapiType ==
    ASSUME NEW s \in Status, NEW deleting \in BOOLEAN
    PROVE  /\ AggregateCapiConditions(s, deleting) \in Status
           /\ AggregateCapiConditions(s, deleting).version = s.version
BY DEF AggregateCapiConditions, ClusterSummary, Status, Summary

LEMMA InitType ==
    ASSUME NEW s \in Status, NEW dryRun \in BOOLEAN
    PROVE  /\ InitClusterConditions(s, dryRun) \in Status
           /\ InitClusterConditions(s, dryRun).version = s.version
BY DEF InitClusterConditions, Status, Three

LEMMA DeletingType ==
    ASSUME NEW s \in Status, NEW next, NEW done \in BOOLEAN
    PROVE  /\ EnsureDeletingCondition(s, next, done) \in Status
           /\ EnsureDeletingCondition(s, next, done).version = s.version
BY DEF EnsureDeletingCondition, Status, Reasons

LEMMA TemplateType ==
    ASSUME TypeOK, NEW s \in Status
    PROVE  /\ Refused(s) \in Status /\ Refused(s).version = s.version
           /\ Accepted(s) \in Status /\ Accepted(s).version = tpl.version
           /\ GetClusterScope(s) \in Status /\ GetClusterScope(s).version = s.version
<1>1. tpl.version \in 0 .. MaxEdits + 1
  BY ClusterLifecycleAssumption DEF TypeOK
<1>2. Refused(s) \in Status /\ Refused(s).version = s.version
  BY DEF Refused, Status, Three
<1>3. Accepted(s) \in Status /\ Accepted(s).version = tpl.version
  BY <1>1 DEF Accepted, Status, Three
<1>4. \A b \in BOOLEAN : [s EXCEPT !.auth = b] \in Status /\ [s EXCEPT !.auth = b].version = s.version
  BY DEF Status
<1>5. GetClusterScope(s) = [s EXCEPT !.auth = s.auth \/ spec.auth]
  BY DEF GetClusterScope
<1> QED
  BY <1>2, <1>3, <1>4, <1>5

-----------------------------------------------------------------------------
(* The invariant, but for the types and the counters.                      *)
WorkInv == FinalizerInv /\ AdapterInv /\ DeletePassInv /\ AddressInv /\ VersionInv

LEMMA Parts ==
    /\ LifecycleIInv <=> TypeOK /\ CountersInv /\ WorkInv
    /\ TypeOK' /\ CountersInv' /\ WorkInv' => LifecycleIInv'
BY DEF LifecycleIInv, WorkInv

LEMMA CountersStay ==
    ASSUME CountersInv, UNCHANGED <<spec, tpl>> PROVE CountersInv'
BY DEF CountersInv

(* The pass ends, and whoever it leaves alone stays as it is.              *)
LEMMA DoneType == Done => PassOK' /\ pc' = "idle" /\ mem'.version = 0
BY NewType DEF Done, PassOK, Steps

LEMMA WorkEnds ==
    ASSUME WorkInv, pc' \in {"idle", "end"}, apc' = apc \/ apc' = "idle",
           UNCHANGED <<conf, cluster, cds, ss, profile, accepted>>,
           spec'.fin = spec.fin, spec'.present = spec.present, spec'.deleting = spec.deleting,
           {status'.version, mem'.version} \subseteq accepted \union {0}
    PROVE  WorkInv'
<1>1. FinalizerInv' /\ AdapterInv'
  BY DEF WorkInv, FinalizerInv, AdapterInv, Quiet, cluster
<1>2. DeletePassInv' /\ AddressInv' /\ VersionInv'
  BY DEF WorkInv, DeletePassInv, AddressInv, VersionInv, AddressesBeforeCluster,
         AfterServices, AfterRelease, AfterDataSource, cluster
<1> QED
  BY <1>1, <1>2 DEF WorkInv

-----------------------------------------------------------------------------
(* The update pass                                                         *)

LEMMA ReconcileInductive == ASSUME LifecycleIInv, Reconcile PROVE LifecycleIInv'
<1>t. TypeOK /\ CountersInv /\ WorkInv
  BY Parts
<1>1. UNCHANGED <<object, tpl, cluster, cds, address, secret, services, accepted, faults>>
      /\ queued' \in BOOLEAN
  BY DEF Reconcile
<1>2. /\ ObjectOK' /\ ClusterOK' /\ MadeOK' /\ ServicesOK' /\ HistoryOK' /\ CountersInv'
  BY <1>t, <1>1, Frames, CountersStay DEF object
<1>3. CASE spec.present
  <2>1. /\ pc = "idle" /\ snap' = spec /\ mem' = GetClusterScope(status) /\ UNCHANGED ssExists
        /\ pc' \in {"release", "addFinalizer", "ipam"}
        /\ pc' # "addFinalizer" => spec.fin \/ spec.deleting
    BY <1>3 DEF Reconcile
  <2>2. mem' \in Status /\ mem'.version = status.version
    BY <1>t, <2>1, TemplateType, TypeParts DEF ObjectOK
  <2>3. PassOK'
    BY <1>t, <2>1, <2>2, TypeParts DEF PassOK, ObjectOK, Steps
  <2>4. WorkInv'
    BY <1>t, <1>1, <1>3, <2>1, <2>2
       DEF WorkInv, FinalizerInv, AdapterInv, DeletePassInv, AddressInv, VersionInv,
           AddressesBeforeCluster, Quiet, AfterServices, AfterRelease, AfterDataSource,
           object, cluster, services
  <2> QED
    BY <1>1, <1>2, <2>3, <2>4, TypeAfter, Parts
<1>4. CASE ~spec.present
  <2>1. Done
    BY <1>4 DEF Reconcile
  <2>2. PassOK' /\ pc' = "idle" /\ mem'.version = 0
    BY <2>1, DoneType
  <2>3. WorkInv'
    BY <1>t, <1>1, <2>2, WorkEnds DEF WorkInv, VersionInv, object, services
  <2> QED
    BY <1>1, <1>2, <2>2, <2>3, TypeAfter, Parts
<1> QED
  BY <1>3, <1>4

LEMMA AddFinalizerInductive == ASSUME LifecycleIInv, AddFinalizer PROVE LifecycleIInv'
<1>t. TypeOK /\ CountersInv /\ WorkInv
  BY Parts
<1>1. /\ UNCHANGED <<conf, status, tpl, cluster, cds, address, secret, services, accepted, faults>>
      /\ Done /\ queued' = TRUE
      /\ spec' = spec \/ (spec.present /\ spec' = [spec EXCEPT !.fin = TRUE])
  BY DEF AddFinalizer, Current
<1>2. PassOK' /\ pc' = "idle" /\ mem'.version = 0
  BY <1>1, DoneType
<1>3. /\ spec' \in Spec0 /\ spec'.edits = spec.edits /\ spec'.present = spec.present
      /\ spec'.deleting = spec.deleting /\ (spec.fin => spec'.fin) /\ (spec'.fin => spec.fin \/ spec.present)
  BY <1>t, <1>1 DEF TypeOK, Spec0
<1>4. ObjectOK' /\ CountersInv'
  BY <1>t, <1>1, <1>3, TypeParts DEF ObjectOK, CountersInv
<1>5. ClusterOK' /\ MadeOK' /\ ServicesOK' /\ HistoryOK'
  BY <1>t, <1>1, Frames
<1>6. WorkInv'
  BY <1>t, <1>1, <1>2, <1>3
     DEF WorkInv, FinalizerInv, AdapterInv, DeletePassInv, AddressInv, VersionInv,
         AddressesBeforeCluster, Quiet, AfterServices, AfterRelease, AfterDataSource,
         cluster, services
<1> QED
  BY <1>1, <1>2, <1>4, <1>5, <1>6, TypeAfter, Parts

LEMMA IPAMInductive == ASSUME LifecycleIInv, ProcessClusterIPAM PROVE LifecycleIInv'
<1>t. TypeOK /\ CountersInv /\ WorkInv
  BY Parts
<1>1. UNCHANGED <<conf, status, tpl, snap, mem, ssExists, cluster, cds, ipam, secret, services,
                  accepted, faults>>
  BY DEF ProcessClusterIPAM
<1>2. /\ claim' = claim \/ claim' = "unbound"
      /\ spec' = spec \/ spec' = [spec EXCEPT !.values = TRUE]
      /\ pc = "ipam" /\ pc' \in {"validate", "end"} /\ queued' \in BOOLEAN
  BY <1>t DEF ProcessClusterIPAM, TypeOK
<1>3. /\ spec' \in Spec0 /\ spec'.edits = spec.edits /\ spec'.present = spec.present
      /\ spec'.deleting = spec.deleting /\ spec'.fin = spec.fin
  BY <1>t, <1>2 DEF TypeOK, Spec0
<1>4. ObjectOK' /\ PassOK' /\ CountersInv'
  BY <1>t, <1>1, <1>2, <1>3, TypeParts DEF ObjectOK, PassOK, CountersInv, Steps
<1>5. ClusterOK' /\ MadeOK' /\ ServicesOK' /\ HistoryOK'
  BY <1>t, <1>1, <1>2, Frames, TypeParts DEF MadeOK
<1>6. WorkInv'
  <2>1. CASE pc' = "end"
    BY <1>t, <1>1, <1>3, <2>1, WorkEnds DEF WorkInv, VersionInv, services
  <2>2. CASE pc' = "validate"
    <3>1. conf.ipam => snap.values
      BY <1>2, <2>2 DEF ProcessClusterIPAM, AddressesKnown
    <3> QED
      BY <1>t, <1>1, <1>2, <1>3, <2>2, <3>1
         DEF WorkInv, FinalizerInv, AdapterInv, DeletePassInv, AddressInv, VersionInv,
             AddressesBeforeCluster, Quiet, AfterServices, AfterRelease, AfterDataSource,
             cluster, services
  <2> QED
    BY <1>2, <2>1, <2>2
<1> QED
  BY <1>2, <1>4, <1>5, <1>6, TypeAfter, Parts

(* Only a template that passes adds to the versions that may be claimed.   *)
LEMMA ValidateInductive == ASSUME LifecycleIInv, ValidateTemplate PROVE LifecycleIInv'
<1>t. TypeOK /\ CountersInv /\ WorkInv
  BY Parts
<1> DEFINE s == InitClusterConditions(mem, snap.dryRun)
<1>1. /\ UNCHANGED <<object, tpl, snap, ssExists, cluster, cds, address, secret, services, faults>>
      /\ pc = "validate" /\ pc' \in {"services", "resources"} /\ queued' \in BOOLEAN
  BY <1>t DEF ValidateTemplate, TypeOK
<1>2. \/ mem' = Accepted(s) /\ accepted' = accepted \union {tpl.version}
      \/ mem' = Refused(s) /\ UNCHANGED accepted
  BY DEF ValidateTemplate
<1>3. s \in Status /\ s.version = mem.version
  BY <1>t, InitType DEF TypeOK, Spec0
<1> HIDE DEF s
<1>4. mem' \in Status /\ mem'.version \in accepted' \union {0} /\ accepted \subseteq accepted'
  BY <1>t, <1>2, <1>3, TemplateType DEF WorkInv, VersionInv
<1>5. HistoryOK'
  BY <1>t, <1>1, <1>2, TypeParts DEF HistoryOK, ObjectOK
<1>6. PassOK'
  BY <1>t, <1>1, <1>4, TypeParts DEF PassOK, Steps
<1>7. ObjectOK' /\ ClusterOK' /\ MadeOK' /\ ServicesOK' /\ CountersInv'
  BY <1>t, <1>1, Frames, CountersStay DEF object
<1>8. FinalizerInv' /\ AdapterInv' /\ DeletePassInv'
  BY <1>t, <1>1 DEF WorkInv, FinalizerInv, AdapterInv, DeletePassInv,
                    Quiet, AfterServices, AfterRelease, AfterDataSource, object, cluster, services
<1>9. AddressInv' /\ VersionInv'
  BY <1>t, <1>1, <1>4 DEF WorkInv, AddressInv, VersionInv, AddressesBeforeCluster, object, cluster
<1> QED
  BY <1>1, <1>5, <1>6, <1>7, <1>8, <1>9, TypeAfter, Parts DEF WorkInv

LEMMA ResourcesInductive == ASSUME LifecycleIInv, EnsureClusterResources PROVE LifecycleIInv'
<1>t. TypeOK /\ CountersInv /\ WorkInv
  BY Parts
<1>1. /\ UNCHANGED <<object, tpl, snap, ssExists, cluster, address, services, accepted, faults>>
      /\ pc = "resources" /\ pc' \in {"services", "helm"}
      /\ cds' = cds \/ (conf.kine /\ cds' = "notReady")
      /\ secret' \in {secret, "absent", "bare", "owned"}
  BY DEF EnsureClusterResources, EnsureAuthConfigSecret, DataSourceMissing
<1>2. queued' \in BOOLEAN
  BY <1>t, Zenon DEF EnsureClusterResources, TypeOK
<1>3. mem' \in Status /\ mem'.version = mem.version
  BY <1>t DEF EnsureClusterResources, TypeOK, Status, Spec0, Three
<1>4. PassOK' /\ MadeOK'
  BY <1>t, <1>1, <1>3, TypeParts DEF PassOK, MadeOK, Steps, address
<1>5. ObjectOK' /\ ClusterOK' /\ ServicesOK' /\ HistoryOK' /\ CountersInv'
  BY <1>t, <1>1, Frames, CountersStay DEF object
<1>6. WorkInv'
  BY <1>t, <1>1, <1>3
     DEF WorkInv, FinalizerInv, AdapterInv, DeletePassInv, AddressInv, VersionInv,
         AddressesBeforeCluster, Quiet, AfterServices, AfterRelease, AfterDataSource,
         object, cluster, services
<1> QED
  BY <1>2, <1>4, <1>5, <1>6, TypeAfter, Parts

LEMMA HelmInductive == ASSUME LifecycleIInv, ReconcileHelmRelease PROVE LifecycleIInv'
<1>t. TypeOK /\ CountersInv /\ WorkInv
  BY Parts
<1> DEFINE s == [mem EXCEPT !.helm = IF hr = "absent" THEN @
                                     ELSE IF hr = "ready" THEN "True" ELSE "Unknown"]
<1>1. /\ UNCHANGED <<object, tpl, snap, ssExists, capi, machines, infra, cds, address, secret,
                     services, accepted, faults>>
      /\ pc = "helm" /\ pc' = "services" /\ hrIpam' = snap.values
      /\ mem' = AggregateCapiConditions(s, FALSE)
  BY DEF ReconcileHelmRelease, FillHelmValues
<1>2. hr' \in {hr, "pending"}
  BY DEF ReconcileHelmRelease, Released
<1>3. queued' \in BOOLEAN
  BY <1>t, Zenon DEF ReconcileHelmRelease, TypeOK
<1>4. s \in Status /\ s.version = mem.version
  BY <1>t DEF TypeOK, Status, Three
<1> HIDE DEF s
<1>5. mem' \in Status /\ mem'.version = mem.version
  BY <1>1, <1>4, CapiType
<1>6. PassOK' /\ ClusterOK'
  <2>1. PassOK'
    BY <1>t, <1>1, <1>5, TypeParts DEF PassOK, Steps
  <2>2. snap.values \in BOOLEAN
    BY <1>t DEF TypeOK, Spec0
  <2>3. ClusterOK'
    BY <1>t, <1>1, <1>2, <2>2, TypeParts DEF ClusterOK
  <2> QED
    BY <2>1, <2>3
<1>7. ObjectOK' /\ MadeOK' /\ ServicesOK' /\ HistoryOK' /\ CountersInv'
  BY <1>t, <1>1, Frames, CountersStay DEF object
<1>8. WorkInv'
  BY <1>t, <1>1, <1>2, <1>5
     DEF WorkInv, FinalizerInv, AdapterInv, DeletePassInv, AddressInv, VersionInv,
         AddressesBeforeCluster, Quiet, AfterServices, AfterRelease, AfterDataSource,
         object, services
<1> QED
  BY <1>3, <1>6, <1>7, <1>8, TypeAfter, Parts

LEMMA ServicesInductive == ASSUME LifecycleIInv, UpdateServices PROVE LifecycleIInv'
<1>t. TypeOK /\ CountersInv /\ WorkInv
  BY Parts
<1>1. /\ UNCHANGED <<object, tpl, queued, snap, mem, ssExists, cluster, cds, address, secret,
                     ssStates, apc, profile, cloud, accepted, faults>>
      /\ pc = "services" /\ pc' = "end" /\ (ss' = ss \/ (ss = "absent" /\ ss' = "new"))
  BY DEF UpdateServices
<1>2. PassOK' /\ ServicesOK'
  BY <1>t, <1>1, TypeParts DEF PassOK, ServicesOK, Steps
<1>3. ObjectOK' /\ ClusterOK' /\ MadeOK' /\ HistoryOK' /\ queued' \in BOOLEAN /\ CountersInv'
  BY <1>t, <1>1, Frames, CountersStay DEF object
<1>4. WorkInv'
  BY <1>t, <1>1
     DEF WorkInv, FinalizerInv, AdapterInv, DeletePassInv, AddressInv, VersionInv,
         AddressesBeforeCluster, Quiet, AfterServices, AfterRelease, AfterDataSource,
         object, cluster
<1> QED
  BY <1>2, <1>3, <1>4, TypeAfter, Parts

LEMMA StatusInductive == ASSUME LifecycleIInv, UpdateStatus PROVE LifecycleIInv'
<1>t. TypeOK /\ CountersInv /\ WorkInv
  BY Parts
<1>1. /\ UNCHANGED <<conf, spec, tpl, cluster, cds, address, secret, services, accepted, faults>>
      /\ Done /\ (status' = UpdateReadyCondition(mem) \/ status' = status)
  BY DEF UpdateStatus
<1>2. queued' \in BOOLEAN
  BY <1>t, Zenon DEF UpdateStatus, TypeOK
<1>3. status' \in Status /\ status'.version \in {status.version, mem.version}
  BY <1>t, <1>1, ReadyType DEF TypeOK
<1>4. PassOK' /\ pc' = "idle" /\ mem'.version = 0
  BY <1>1, DoneType
<1>5. ObjectOK' /\ ClusterOK' /\ MadeOK' /\ ServicesOK' /\ HistoryOK' /\ CountersInv'
  BY <1>t, <1>1, <1>3, Frames, TypeParts, CountersStay DEF ObjectOK
<1>6. WorkInv'
  BY <1>t, <1>1, <1>3, <1>4, WorkEnds DEF WorkInv, VersionInv, services
<1> QED
  BY <1>2, <1>4, <1>5, <1>6, TypeAfter, Parts

LEMMA FailsInductive == ASSUME LifecycleIInv, PassFails \/ Restart PROVE LifecycleIInv'
<1>t. TypeOK /\ CountersInv /\ WorkInv
  BY Parts
<1>1. /\ UNCHANGED <<object, tpl, cluster, cds, address, secret, ss, ssStates, profile, cloud,
                     accepted>>
      /\ Fault /\ queued' = TRUE /\ (apc' = apc \/ apc' = "idle")
  BY DEF PassFails, Restart, services
<1>2. PassOK' /\ pc' \in {"idle", "end"} /\ mem'.version \in {0, mem.version}
  <2>1. CASE PassFails
    <3>1. /\ mem' = [mem EXCEPT !.deleting = IF snap.deleting THEN "Failed" ELSE @]
          /\ pc' = "end" /\ UNCHANGED <<snap, ssExists>>
      BY <2>1 DEF PassFails
    <3>2. mem' \in Status /\ mem'.version = mem.version
      BY <1>t, <3>1 DEF TypeOK, Status, Reasons
    <3> QED
      BY <1>t, <3>1, <3>2, TypeParts DEF PassOK, Steps
  <2>2. CASE Restart
    BY <2>2, DoneType DEF Restart
  <2> QED
    BY <2>1, <2>2
<1>3. ServicesOK' /\ HistoryOK'
  BY <1>t, <1>1, TypeParts, FaultType DEF ServicesOK
<1>4. ObjectOK' /\ ClusterOK' /\ MadeOK' /\ CountersInv'
  BY <1>t, <1>1, Frames, CountersStay DEF object
<1>5. WorkInv'
  BY <1>t, <1>1, <1>2, WorkEnds DEF WorkInv, VersionInv, object
<1> QED
  BY <1>1, <1>2, <1>3, <1>4, <1>5, TypeAfter, Parts

-----------------------------------------------------------------------------
(* The delete pass                                                         *)

LEMMA WaitType ==
    ASSUME TypeOK, NEW next, NEW s \in Status, Wait(next, s), UNCHANGED <<snap, ssExists>>
    PROVE  PassOK' /\ pc' = "end" /\ queued' = TRUE /\ mem'.version = s.version
<1>1. (~conf.cleanup \/ status.cloudDeleted = "True") \in BOOLEAN
  OBVIOUS
<1>2. mem' \in Status /\ mem'.version = s.version
  BY <1>1, DeletingType DEF Wait
<1> QED
  BY <1>2, TypeParts DEF Wait, PassOK, Steps

LEMMA ReleaseInductive == ASSUME LifecycleIInv, ReleaseProviderCluster PROVE LifecycleIInv'
<1>t. TypeOK /\ CountersInv /\ WorkInv
  BY Parts
<1>1. /\ UNCHANGED <<object, tpl, queued, snap, ssExists, hr, hrIpam, capi, machines, cds, address,
                     secret, services, accepted, faults>>
      /\ pc = "release" /\ pc' = "serviceSets" /\ mem' = AggregateCapiConditions(mem, TRUE)
      /\ infra' = (infra /\ (capi = "absent" \/ machines))
  BY DEF ReleaseProviderCluster
<1>2. mem' \in Status /\ mem'.version = mem.version
  BY <1>t, <1>1, CapiType DEF TypeOK
<1>3. infra' \in BOOLEAN
  BY <1>t, <1>1 DEF TypeOK
<1>4. PassOK' /\ ClusterOK'
  BY <1>t, <1>1, <1>2, <1>3, TypeParts DEF PassOK, ClusterOK, Steps
<1>5. ObjectOK' /\ MadeOK' /\ ServicesOK' /\ HistoryOK' /\ queued' \in BOOLEAN /\ CountersInv'
  BY <1>t, <1>1, Frames, CountersStay DEF object
<1>6. WorkInv'
  BY <1>t, <1>1, <1>2
     DEF WorkInv, FinalizerInv, AdapterInv, DeletePassInv, AddressInv, VersionInv,
         AddressesBeforeCluster, Quiet, AfterServices, AfterRelease, AfterDataSource,
         object, services
<1> QED
  BY <1>4, <1>5, <1>6, TypeAfter, Parts

(* A ServiceSet without the finalizer of the adapter has no Profile yet.   *)
LEMMA ServiceSetsInductive == ASSUME LifecycleIInv, DeleteServiceSets PROVE LifecycleIInv'
<1>t. TypeOK /\ CountersInv /\ WorkInv
  BY Parts
<1>1. /\ UNCHANGED <<object, tpl, snap, cluster, cds, address, secret, ssStates, apc, profile,
                     cloud, accepted, faults, mem, queued>>
      /\ pc = "serviceSets" /\ pc' = "cleanup" /\ ssExists' = (ss # "absent")
      /\ ss' = IF ss \in {"live", "marked"} THEN "marked" ELSE "absent"
  BY DEF DeleteServiceSets, Proceed
<1>2. PassOK' /\ ServicesOK'
  BY <1>t, <1>1, TypeParts DEF PassOK, ServicesOK, Steps
<1>3. ObjectOK' /\ ClusterOK' /\ MadeOK' /\ HistoryOK' /\ queued' \in BOOLEAN /\ CountersInv'
  BY <1>t, <1>1, Frames, CountersStay DEF object
<1>4. WorkInv'
  BY <1>t, <1>1
     DEF WorkInv, FinalizerInv, AdapterInv, DeletePassInv, AddressInv, VersionInv,
         AddressesBeforeCluster, Quiet, AfterServices, AfterRelease, AfterDataSource,
         object, cluster, TypeOK
<1> QED
  BY <1>2, <1>3, <1>4, TypeAfter, Parts

LEMMA ChildResourcesInductive == ASSUME LifecycleIInv, DeleteChildResources PROVE LifecycleIInv'
<1>t. TypeOK /\ CountersInv /\ WorkInv
  BY Parts
<1>1. /\ UNCHANGED <<object, tpl, snap, ssExists, cluster, cds, address, secret, ss, ssStates, apc,
                     profile, accepted>>
      /\ pc = "cleanup" /\ (UNCHANGED faults \/ Fault)
  BY DEF DeleteChildResources
<1>2. cloud' \subseteq CloudResources
  BY <1>t DEF DeleteChildResources, TypeOK, LoadBalancersLeft, VolumesLeft
<1>3. \A b \in {"True", "False"} : /\ [mem EXCEPT !.cloudDeleted = b] \in Status
                                   /\ [mem EXCEPT !.cloudDeleted = b].version = mem.version
  BY <1>t DEF TypeOK, Status, Three
<1>4. PassOK' /\ pc' \in {"helmRelease", "end"} /\ mem'.version = mem.version /\ queued' \in BOOLEAN
  <2>1. CASE Wait("cleanup", [mem EXCEPT !.cloudDeleted = "False"])
    BY <1>t, <1>1, <1>3, <2>1, WaitType
  <2>2. CASE /\ pc' = "helmRelease" /\ UNCHANGED queued
             /\ mem' = mem \/ mem' = [mem EXCEPT !.cloudDeleted = "True"]
    BY <1>t, <1>1, <1>3, <2>2, TypeParts DEF PassOK, Steps
  <2> QED
    BY <2>1, <2>2 DEF DeleteChildResources, Proceed
<1>5. ServicesOK' /\ HistoryOK'
  BY <1>t, <1>1, <1>2, TypeParts, Frames, FaultType DEF ServicesOK
<1>6. ObjectOK' /\ ClusterOK' /\ MadeOK' /\ CountersInv'
  BY <1>t, <1>1, Frames, CountersStay DEF object
<1>7. WorkInv'
  BY <1>t, <1>1, <1>4
     DEF WorkInv, FinalizerInv, AdapterInv, DeletePassInv, AddressInv, VersionInv,
         AddressesBeforeCluster, Quiet, AfterServices, AfterRelease, AfterDataSource,
         object, cluster
<1> QED
  BY <1>4, <1>5, <1>6, <1>7, TypeAfter, Parts

LEMMA HelmReleaseInductive == ASSUME LifecycleIInv, DeleteHelmRelease PROVE LifecycleIInv'
<1>t. TypeOK /\ CountersInv /\ WorkInv
  BY Parts
<1>1. /\ UNCHANGED <<object, tpl, snap, ssExists, hrIpam, capi, machines, infra, cds, address,
                     secret, services, accepted, faults>>
      /\ pc = "helmRelease" /\ hr' = (IF hr = "absent" THEN hr ELSE "terminating")
  BY DEF DeleteHelmRelease
<1>2. /\ PassOK' /\ mem'.version = mem.version /\ queued' \in BOOLEAN
      /\ \/ pc' = "end"
         \/ pc' = "clusterDataSource" /\ hr = "absent" /\ ~ssExists
  <2>1. CASE Wait("helmRelease", mem) \/ Wait("serviceSets", mem)
    BY <1>t, <1>1, <2>1, WaitType DEF TypeOK
  <2>2. CASE hr = "absent" /\ ~ssExists /\ Proceed("clusterDataSource")
    BY <1>t, <1>1, <2>2, TypeParts DEF Proceed, PassOK, Steps
  <2> QED
    BY <2>1, <2>2 DEF DeleteHelmRelease
<1>3. ClusterOK'
  BY <1>t, <1>1, TypeParts DEF ClusterOK
<1>4. ObjectOK' /\ MadeOK' /\ ServicesOK' /\ HistoryOK' /\ CountersInv'
  BY <1>t, <1>1, Frames, CountersStay DEF object
<1>5. WorkInv'
  BY <1>t, <1>1, <1>2
     DEF WorkInv, FinalizerInv, AdapterInv, DeletePassInv, AddressInv, VersionInv,
         AddressesBeforeCluster, Quiet, AfterServices, AfterRelease, AfterDataSource,
         object, services
<1> QED
  BY <1>2, <1>3, <1>4, <1>5, TypeAfter, Parts

LEMMA DataSourceInductive == ASSUME LifecycleIInv, DeleteClusterDataSource PROVE LifecycleIInv'
<1>t. TypeOK /\ CountersInv /\ WorkInv
  BY Parts
<1>1. /\ UNCHANGED <<object, tpl, snap, ssExists, cluster, address, secret, services, accepted,
                     faults>>
      /\ pc = "clusterDataSource"
      /\ cds' = (IF conf.kine /\ cds # "absent" THEN "terminating" ELSE cds)
  BY DEF DeleteClusterDataSource
<1>2. /\ PassOK' /\ mem'.version = mem.version /\ queued' \in BOOLEAN
      /\ \/ pc' = "end"
         \/ pc' = "cluster" /\ ~(conf.kine /\ cds # "absent")
  <2>1. CASE Wait("clusterDataSource", mem)
    BY <1>t, <1>1, <2>1, WaitType DEF TypeOK
  <2>2. CASE ~(conf.kine /\ cds # "absent") /\ Proceed("cluster")
    BY <1>t, <1>1, <2>2, TypeParts DEF Proceed, PassOK, Steps
  <2> QED
    BY <2>1, <2>2 DEF DeleteClusterDataSource
<1>3. MadeOK'
  BY <1>t, <1>1, TypeParts DEF MadeOK, address
<1>4. ObjectOK' /\ ClusterOK' /\ ServicesOK' /\ HistoryOK' /\ CountersInv'
  BY <1>t, <1>1, Frames, CountersStay DEF object
<1>5. WorkInv'
  BY <1>t, <1>1, <1>2
     DEF WorkInv, FinalizerInv, AdapterInv, DeletePassInv, AddressInv, VersionInv,
         AddressesBeforeCluster, Quiet, AfterServices, AfterRelease, AfterDataSource,
         object, cluster, services
<1> QED
  BY <1>2, <1>3, <1>4, <1>5, TypeAfter, Parts

LEMMA CapiClusterInductive == ASSUME LifecycleIInv, GetPartialCapiCluster PROVE LifecycleIInv'
<1>t. TypeOK /\ CountersInv /\ WorkInv
  BY Parts
<1>1. /\ UNCHANGED <<object, tpl, snap, ssExists, cluster, cds, address, secret, services, accepted,
                     faults>>
      /\ pc = "cluster"
  BY DEF GetPartialCapiCluster
<1>2. /\ PassOK' /\ mem'.version = mem.version /\ queued' \in BOOLEAN
      /\ pc' = "end" \/ (pc' = "finalizer" /\ capi = "absent")
  <2>1. CASE Wait("cluster", mem)
    BY <1>t, <1>1, <2>1, WaitType DEF TypeOK
  <2>2. CASE capi = "absent" /\ Proceed("finalizer")
    BY <1>t, <1>1, <2>2, TypeParts DEF Proceed, PassOK, Steps
  <2> QED
    BY <2>1, <2>2 DEF GetPartialCapiCluster
<1>3. ObjectOK' /\ ClusterOK' /\ MadeOK' /\ ServicesOK' /\ HistoryOK' /\ CountersInv'
  BY <1>t, <1>1, Frames, CountersStay DEF object
<1>4. WorkInv'
  BY <1>t, <1>1, <1>2
     DEF WorkInv, FinalizerInv, AdapterInv, DeletePassInv, AddressInv, VersionInv,
         AddressesBeforeCluster, Quiet, AfterServices, AfterRelease, AfterDataSource,
         object, cluster, services
<1> QED
  BY <1>2, <1>3, <1>4, TypeAfter, Parts

LEMMA RemoveFinalizerInductive == ASSUME LifecycleIInv, RemoveFinalizer PROVE LifecycleIInv'
<1>t. TypeOK /\ CountersInv /\ WorkInv
  BY Parts
<1>1. /\ UNCHANGED <<conf, status, tpl, cluster, cds, address, secret, services, accepted, faults>>
      /\ pc = "finalizer"
  BY DEF RemoveFinalizer
<1>2. ClusterOK' /\ MadeOK' /\ ServicesOK' /\ HistoryOK'
  BY <1>t, <1>1, Frames
<1>3. CASE Current
  <2>1. /\ spec' = [spec EXCEPT !.fin = FALSE, !.present = FALSE] /\ Done /\ UNCHANGED queued
    BY <1>3 DEF RemoveFinalizer
  <2>2. PassOK' /\ pc' = "idle" /\ mem'.version = 0 /\ queued' \in BOOLEAN
    BY <1>t, <2>1, DoneType, Frames
  <2>3. /\ spec' \in Spec0 /\ spec'.edits = spec.edits /\ spec'.deleting = spec.deleting
        /\ ~spec'.present /\ ~spec'.fin
    BY <1>t, <2>1 DEF TypeOK, Spec0
  <2>4. ObjectOK' /\ CountersInv'
    BY <1>t, <1>1, <2>3, TypeParts DEF ObjectOK, CountersInv
  <2>5. hr = "absent" /\ capi = "absent" /\ cds = "absent" /\ ss = "absent"
    BY <1>t, <1>1 DEF WorkInv, DeletePassInv, AfterRelease, AfterDataSource
  <2>6. WorkInv'
    BY <1>t, <1>1, <2>2, <2>3, <2>5
       DEF WorkInv, FinalizerInv, AdapterInv, DeletePassInv, AddressInv, VersionInv,
           AddressesBeforeCluster, Quiet, AfterServices, AfterRelease, AfterDataSource,
           cluster, services
  <2> QED
    BY <1>2, <2>2, <2>4, <2>6, TypeAfter, Parts
<1>4. CASE ~Current
  <2>1. /\ mem' = [mem EXCEPT !.deleting = "Failed"] /\ pc' = "end" /\ queued' = TRUE
        /\ UNCHANGED <<spec, snap, ssExists>>
    BY <1>4 DEF RemoveFinalizer
  <2>2. mem' \in Status /\ mem'.version = mem.version
    BY <1>t, <2>1 DEF TypeOK, Status, Reasons
  <2>3. PassOK' /\ ObjectOK' /\ CountersInv'
    BY <1>t, <1>1, <2>1, <2>2, TypeParts, CountersStay DEF PassOK, ObjectOK, Steps
  <2>4. WorkInv'
    BY <1>t, <1>1, <2>1, <2>2, WorkEnds DEF WorkInv, VersionInv, services
  <2> QED
    BY <1>2, <2>1, <2>3, <2>4, TypeAfter, Parts
<1> QED
  BY <1>3, <1>4

-----------------------------------------------------------------------------
(* The adapter, the other controllers and the user                         *)

(* Nobody but the passes makes a HelmRelease, a ServiceSet or a            *)
(* ClusterDataSource, and the CAPI Cluster comes with the HelmRelease.     *)
LEMMA WorkOutside ==
    ASSUME WorkInv, UNCHANGED <<conf, status, pass, accepted>>,
           spec'.fin = spec.fin, spec'.present = spec.present, spec'.deleting = spec.deleting,
           hr = "absent" => hr' = "absent" /\ (capi = "absent" => capi' = "absent"),
           hr' # "absent" => hrIpam' = hrIpam,
           cds = "absent" => cds' = "absent",
           ss \in {"absent", "marked"} => ss' \in {"absent", ss},
           AdapterInv'
    PROVE  WorkInv'
<1>1. FinalizerInv' /\ VersionInv'
  BY DEF WorkInv, FinalizerInv, VersionInv, Quiet, pass
<1>2. DeletePassInv' /\ AddressInv'
  BY DEF WorkInv, DeletePassInv, AddressInv, AddressesBeforeCluster,
         AfterServices, AfterRelease, AfterDataSource, pass
<1> QED
  BY <1>1, <1>2 DEF WorkInv

LEMMA AdapterInductive == ASSUME LifecycleIInv, Adapter PROVE LifecycleIInv'
<1>t. TypeOK /\ CountersInv /\ WorkInv
  BY Parts
<1>1. UNCHANGED adapterRest
  BY DEF Adapter, AdapterReconcile, AdapterWriteProfile, AdapterReconcileDelete
<1>2. ServicesOK' /\ queued' \in BOOLEAN
  BY <1>t, <1>1, TypeParts
     DEF Adapter, AdapterReconcile, AdapterWriteProfile, AdapterReconcileDelete, Enqueue,
         ServicesOK, adapterRest
<1>3. AdapterInv' /\ (ss \in {"absent", "marked"} => ss' \in {"absent", ss})
  BY <1>t DEF Adapter, AdapterReconcile, AdapterWriteProfile, AdapterReconcileDelete,
              WorkInv, AdapterInv
<1>4. /\ ObjectOK' /\ PassOK' /\ ClusterOK' /\ MadeOK' /\ HistoryOK' /\ CountersInv'
      /\ UNCHANGED <<object, pass, cluster, cds, accepted>>
  BY <1>t, <1>1, Frames, CountersStay DEF adapterRest, object
<1>5. WorkInv'
  BY <1>t, <1>3, <1>4, WorkOutside DEF object, cluster
<1> QED
  BY <1>2, <1>4, <1>5, TypeAfter, Parts

LEMMA IpamInductive == ASSUME LifecycleIInv, Ipam \/ CapiClusterPollEnqueue PROVE LifecycleIInv'
<1>t. TypeOK /\ CountersInv /\ WorkInv
  BY Parts
<1>1. /\ UNCHANGED <<object, tpl, pass, cluster, cds, secret, services, accepted, faults>>
      /\ queued' \in BOOLEAN
  BY <1>t DEF Ipam, ReconcileIPAMClaim, ReconcileClusterIPAM, CapiClusterPollEnqueue, ipamRest,
              address, TypeOK
<1>2. MadeOK'
  BY <1>t, <1>1, TypeParts
     DEF Ipam, ReconcileIPAMClaim, ReconcileClusterIPAM, CapiClusterPollEnqueue, address, MadeOK
<1>3. /\ ObjectOK' /\ PassOK' /\ ClusterOK' /\ ServicesOK' /\ HistoryOK' /\ CountersInv'
  BY <1>t, <1>1, Frames, CountersStay DEF object
<1>4. WorkInv'
  BY <1>t, <1>1, WorkOutside DEF object, cluster, services, WorkInv, AdapterInv
<1> QED
  BY <1>1, <1>2, <1>3, <1>4, TypeAfter, Parts

LEMMA ClusterInductive ==
    ASSUME LifecycleIInv, Flux \/ Capi \/ DeletedOutOfBand PROVE LifecycleIInv'
<1>t. TypeOK /\ CountersInv /\ WorkInv
  BY Parts
<1>1. /\ UNCHANGED <<object, tpl, pass, cds, address, services, accepted>>
      /\ queued' \in BOOLEAN /\ (UNCHANGED faults \/ Fault)
  BY <1>t DEF Flux, Capi, FluxInstalls, FluxUninstalls, CapiProvisions, CapiDeletes,
              DeletedOutOfBand, Enqueue, TypeOK
<1>2. ClusterOK'
  BY <1>t, TypeParts DEF Flux, Capi, FluxInstalls, FluxUninstalls, CapiProvisions, CapiDeletes,
                         DeletedOutOfBand, ClusterOK
<1>3. secret' \in {secret, "absent"}
  BY DEF Flux, Capi, FluxInstalls, FluxUninstalls, CapiProvisions, CapiDeletes, DeletedOutOfBand
<1>4. /\ hr = "absent" => hr' = "absent" /\ (capi = "absent" => capi' = "absent")
      /\ hr' # "absent" => hrIpam' = hrIpam
  BY DEF Flux, Capi, FluxInstalls, FluxUninstalls, CapiProvisions, CapiDeletes, DeletedOutOfBand
<1>5. MadeOK' /\ HistoryOK'
  BY <1>t, <1>1, <1>3, Frames, TypeParts, FaultType DEF MadeOK, address
<1>6. ObjectOK' /\ PassOK' /\ ServicesOK' /\ CountersInv'
  BY <1>t, <1>1, Frames, CountersStay DEF object
<1>7. WorkInv'
  BY <1>t, <1>1, <1>4, WorkOutside DEF object, services, WorkInv, AdapterInv
<1> QED
  BY <1>1, <1>2, <1>5, <1>6, <1>7, TypeAfter, Parts

LEMMA OthersInductive == ASSUME LifecycleIInv, Others PROVE LifecycleIInv'
<1>t. TypeOK /\ CountersInv /\ WorkInv
  BY Parts
<1>1. /\ UNCHANGED <<object, tpl, pass, cluster, address, secret, ss, ssStates, apc, accepted,
                     faults>>
      /\ queued' \in BOOLEAN
  BY <1>t DEF Others, SveltosDeploys, SveltosUndeploys, DataSourceMoves, services, Enqueue, TypeOK
<1>2. MadeOK' /\ ServicesOK'
  BY <1>t, <1>1, TypeParts
     DEF Others, SveltosDeploys, SveltosUndeploys, DataSourceMoves, services, address,
         MadeOK, ServicesOK
<1>3. (cds = "absent" => cds' = "absent") /\ (profile = "absent" => profile' = "absent")
  BY DEF Others, SveltosDeploys, SveltosUndeploys, DataSourceMoves, services
<1>4. ObjectOK' /\ PassOK' /\ ClusterOK' /\ HistoryOK' /\ CountersInv'
  BY <1>t, <1>1, Frames, CountersStay DEF object
<1>5. WorkInv'
  BY <1>t, <1>1, <1>3, WorkOutside DEF object, cluster, WorkInv, AdapterInv
<1> QED
  BY <1>1, <1>2, <1>4, <1>5, TypeAfter, Parts

LEMMA EditInductive == ASSUME LifecycleIInv, EditSpec \/ EditTemplate PROVE LifecycleIInv'
<1>t. TypeOK /\ CountersInv /\ WorkInv
  BY Parts
<1>1. spec \in Spec0 /\ MaxEdits \in Nat /\ spec.edits \in Nat
  BY <1>t, ClusterLifecycleAssumption DEF TypeOK, Spec0
<1>2. PICK s \in Spec0 :
         /\ Edit(s) /\ s.edits = spec.edits /\ s.present = spec.present /\ s.fin = spec.fin
         /\ s.deleting = spec.deleting
  <2>1. \A b \in BOOLEAN : /\ [spec EXCEPT !.dryRun = b] \in Spec0
                           /\ [spec EXCEPT !.auth = b] \in Spec0
    BY <1>1 DEF Spec0
  <2>2. \A b : /\ [spec EXCEPT !.dryRun = b].edits = spec.edits
               /\ [spec EXCEPT !.dryRun = b].present = spec.present
               /\ [spec EXCEPT !.dryRun = b].fin = spec.fin
               /\ [spec EXCEPT !.dryRun = b].deleting = spec.deleting
               /\ [spec EXCEPT !.auth = b].edits = spec.edits
               /\ [spec EXCEPT !.auth = b].present = spec.present
               /\ [spec EXCEPT !.auth = b].fin = spec.fin
               /\ [spec EXCEPT !.auth = b].deleting = spec.deleting
    BY <1>1 DEF Spec0
  <2>3. (~spec.dryRun) \in BOOLEAN /\ (~spec.auth) \in BOOLEAN
    OBVIOUS
  <2>4. \/ Edit([spec EXCEPT !.dryRun = ~spec.dryRun])
        \/ Edit([spec EXCEPT !.auth = ~spec.auth])
        \/ Edit(spec)
    BY DEF EditSpec, EditTemplate
  <2> QED
    BY <1>1, <2>1, <2>2, <2>3, <2>4, Zenon
<1>3. /\ spec.edits < MaxEdits /\ spec' = [s EXCEPT !.edits = @ + 1] /\ queued' = TRUE
      /\ UNCHANGED <<conf, status, pass, cluster, cds, address, secret, services, accepted, faults>>
  BY <1>2 DEF Edit, Enqueue
<1>4. /\ spec' \in Spec0 /\ spec'.edits = spec.edits + 1 /\ spec'.present = spec.present
      /\ spec'.fin = spec.fin /\ spec'.deleting = spec.deleting
  BY <1>1, <1>2, <1>3 DEF Spec0
<1>5. /\ tpl' \in [valid : BOOLEAN, version : 1 .. MaxEdits + 1]
      /\ tpl'.version <= spec.edits + 2
  <2>1. /\ tpl \in [valid : BOOLEAN, version : 1 .. MaxEdits + 1] /\ tpl.version \in Nat
        /\ tpl.version <= spec.edits + 1 /\ tpl.version <= MaxEdits
    BY <1>t, <1>1, <1>3 DEF TypeOK, CountersInv
  <2>2. tpl' = tpl \/ \E v \in BOOLEAN : tpl' = [valid |-> v, version |-> tpl.version + 1]
    BY DEF EditSpec, EditTemplate
  <2> QED
    BY <1>1, <2>1, <2>2
<1>6. ObjectOK' /\ CountersInv'
  BY <1>t, <1>1, <1>3, <1>4, <1>5, TypeParts DEF ObjectOK, CountersInv
<1>7. PassOK' /\ ClusterOK' /\ MadeOK' /\ ServicesOK' /\ HistoryOK'
  BY <1>t, <1>3, Frames
<1>8. WorkInv'
  BY <1>t, <1>3, <1>4, WorkOutside DEF cluster, services, WorkInv, AdapterInv
<1> QED
  BY <1>3, <1>6, <1>7, <1>8, TypeAfter, Parts

LEMMA DeleteInductive == ASSUME LifecycleIInv, Delete PROVE LifecycleIInv'
<1>t. TypeOK /\ CountersInv /\ WorkInv
  BY Parts
<1>1. spec \in Spec0 /\ MaxEdits \in Nat /\ spec.edits \in Nat
  BY <1>t, ClusterLifecycleAssumption DEF TypeOK, Spec0
<1>2. /\ spec.present /\ ~spec.deleting /\ queued' = TRUE
      /\ spec' = [spec EXCEPT !.edits = @ + 1, !.deleting = TRUE, !.present = spec.fin]
      /\ UNCHANGED <<conf, status, tpl, pass, cluster, cds, address, secret, services, accepted,
                     faults>>
  BY DEF Delete, Enqueue
<1>3. spec.edits <= MaxEdits
  BY <1>t, <1>2 DEF CountersInv
<1>4. /\ spec' \in Spec0 /\ spec'.edits = spec.edits + 1 /\ spec'.present = spec.fin
      /\ spec'.fin = spec.fin /\ spec'.deleting
  <2>1. spec.fin \in BOOLEAN /\ spec.edits + 1 \in 0 .. MaxEdits + 1
    BY <1>1, <1>3 DEF Spec0
  <2> QED
    BY <1>1, <1>2, <2>1 DEF Spec0
<1>5. tpl.version \in Nat
  BY <1>t DEF TypeOK
<1>6. ObjectOK' /\ CountersInv'
  BY <1>t, <1>1, <1>2, <1>4, <1>5, TypeParts DEF ObjectOK, CountersInv
<1>7. PassOK' /\ ClusterOK' /\ MadeOK' /\ ServicesOK' /\ HistoryOK'
  BY <1>t, <1>2, Frames
<1>8. WorkInv'
  BY <1>t, <1>2, <1>4
     DEF WorkInv, FinalizerInv, AdapterInv, DeletePassInv, AddressInv, VersionInv,
         AddressesBeforeCluster, pass, cluster, services
<1> QED
  BY <1>2, <1>6, <1>7, <1>8, TypeAfter, Parts

-----------------------------------------------------------------------------
LEMMA InitIInv == Init => LifecycleIInv
<1> SUFFICES ASSUME Init PROVE LifecycleIInv
  OBVIOUS
<1>1. ObjectOK /\ PassOK
  <2>1. 1 \in 1 .. MaxEdits + 1
    BY ClusterLifecycleAssumption
  <2>2. tpl \in [valid : BOOLEAN, version : 1 .. MaxEdits + 1]
    BY <2>1 DEF Init
  <2>3. ObjectOK
    BY NewType, <2>2 DEF Init, ObjectOK
  <2>4. PassOK
    BY NewType, Zenon DEF Init, PassOK, Steps
  <2> QED
    BY <2>3, <2>4
<1>2. ClusterOK /\ MadeOK /\ ServicesOK /\ HistoryOK /\ queued \in BOOLEAN
  <2>1. HistoryOK
    BY ClusterLifecycleAssumption DEF Init, HistoryOK
  <2>2. ClusterOK /\ MadeOK
    BY Zenon DEF Init, ClusterOK, MadeOK
  <2>3. ServicesOK /\ queued \in BOOLEAN
    BY Zenon DEF Init, ServicesOK
  <2> QED
    BY <2>1, <2>2, <2>3
<1>3. /\ spec.edits = 0 /\ ~spec.deleting /\ ~spec.fin /\ spec.present
      /\ status.version = 0 /\ mem.version = 0 /\ tpl.version = 1
  BY DEF Init, NewSpec, NewStatus
<1>4. CountersInv
  BY <1>3, ClusterLifecycleAssumption DEF CountersInv
<1>5. WorkInv
  BY <1>3 DEF Init, WorkInv, FinalizerInv, AdapterInv, DeletePassInv, AddressInv, VersionInv,
              AddressesBeforeCluster, Quiet, AfterServices, AfterRelease, AfterDataSource
<1> QED
  BY <1>1, <1>2, <1>4, <1>5, TypeParts, Parts

LEMMA StutterInductive == ASSUME LifecycleIInv, UNCHANGED vars PROVE LifecycleIInv'
<1>t. TypeOK /\ CountersInv /\ WorkInv
  BY Parts
<1>1. UNCHANGED <<object, tpl, queued, pass, cluster, cds, address, secret, services, accepted,
                  faults>>
  BY DEF vars
<1>2. TypeOK' /\ CountersInv'
  BY <1>t, <1>1, Frames, TypeAfter, CountersStay DEF object
<1>3. WorkInv'
  BY <1>t, <1>1, WorkOutside DEF object, cluster, services, WorkInv, AdapterInv
<1> QED
  BY <1>2, <1>3, Parts

LEMMA StepInductive == LifecycleIInv /\ [Next]_vars => LifecycleIInv'
<1> SUFFICES ASSUME LifecycleIInv, Next PROVE LifecycleIInv'
  BY StutterInductive
<1>1. CASE PassStep
  <2>1. CASE AddFinalizer \/ ProcessClusterIPAM \/ ValidateTemplate \/ EnsureClusterResources
    BY <2>1, AddFinalizerInductive, IPAMInductive, ValidateInductive, ResourcesInductive
  <2>2. CASE ReconcileHelmRelease \/ UpdateServices \/ UpdateStatus
    BY <2>2, HelmInductive, ServicesInductive, StatusInductive
  <2>3. CASE ReleaseProviderCluster \/ DeleteServiceSets \/ DeleteChildResources
    BY <2>3, ReleaseInductive, ServiceSetsInductive, ChildResourcesInductive
  <2>4. CASE DeleteHelmRelease \/ DeleteClusterDataSource \/ GetPartialCapiCluster
             \/ RemoveFinalizer
    BY <2>4, HelmReleaseInductive, DataSourceInductive, CapiClusterInductive,
       RemoveFinalizerInductive
  <2> QED
    BY <1>1, <2>1, <2>2, <2>3, <2>4 DEF PassStep
<1>2. CASE Reconcile \/ PassFails \/ Restart
  BY <1>2, ReconcileInductive, FailsInductive
<1>3. CASE Adapter \/ CapiClusterPollEnqueue \/ Ipam \/ Others
  BY <1>3, AdapterInductive, IpamInductive, OthersInductive
<1>4. CASE Flux \/ Capi \/ DeletedOutOfBand
  BY <1>4, ClusterInductive
<1>5. CASE User
  BY <1>5, EditInductive, DeleteInductive DEF User
<1> QED
  BY <1>1, <1>2, <1>3, <1>4, <1>5 DEF Next

(* The order of reconcileUpdate and reconcileDelete, call by call, with    *)
(* the adapter, flux, CAPI, IPAM and the user in between and with failed   *)
(* calls and restarts: when a ClusterDeployment is gone nothing it made is *)
(* left, a Profile never outlives its ServiceSet, and no HelmRelease is    *)
(* written without the addresses that were claimed for it.                 *)
THEOREM LifecycleSafe == Spec => []LifecycleInv
<1>1. LifecycleIInv => LifecycleInv
  <2> SUFFICES ASSUME LifecycleIInv PROVE NothingOutlivesIt /\ ProfileHasItsSet
    BY DEF LifecycleInv, LifecycleIInv, AddressInv
  <2> QED
    BY DEF LifecycleIInv, FinalizerInv, AdapterInv, NothingOutlivesIt, ProfileHasItsSet
<1> QED
  BY <1>1, InitIInv, StepInductive, PTL DEF Spec

(* updateStatus writes what updateCluster left in memory, perhaps after    *)
(* the template has been edited: it claims only Kubernetes versions of     *)
(* templates the validation has passed.                                    *)
THEOREM VersionSafe == Spec => []VersionWasAccepted
<1>1. LifecycleIInv => VersionWasAccepted
  BY DEF LifecycleIInv, VersionInv, VersionWasAccepted
<1> QED
  BY <1>1, InitIInv, StepInductive, PTL DEF Spec

(* reconcileDelete asks flux to uninstall the cluster only in a pass that  *)
(* has marked the ServiceSet or found none, and updateServices of another  *)
(* pass cannot make one in between.                                        *)
THEOREM ServicesGoFirst == Spec => ClusterGoesAfterServices
<1>1. LifecycleIInv /\ [Next]_vars
        => [hr # "terminating" /\ hr' = "terminating" => ss \in {"absent", "marked"}]_vars
  <2> SUFFICES ASSUME LifecycleIInv, Next, hr # "terminating", hr' = "terminating"
               PROVE  ss \in {"absent", "marked"}
    OBVIOUS
  <2>1. CASE DeleteHelmRelease
    BY <2>1 DEF DeleteHelmRelease, LifecycleIInv, DeletePassInv, AfterServices
  <2>2. CASE ReconcileHelmRelease \/ Flux
    BY <2>2 DEF ReconcileHelmRelease, Released, Flux, FluxInstalls, FluxUninstalls
  <2>3. CASE \/ Reconcile \/ PassFails \/ Restart \/ Capi \/ DeletedOutOfBand
             \/ AddFinalizer \/ ProcessClusterIPAM \/ ValidateTemplate \/ EnsureClusterResources
             \/ UpdateServices \/ UpdateStatus
    BY <2>3 DEF Reconcile, PassFails, Restart, Capi, CapiProvisions, CapiDeletes,
                DeletedOutOfBand, AddFinalizer, ProcessClusterIPAM, ValidateTemplate,
                EnsureClusterResources, UpdateServices, UpdateStatus, cluster
  <2>4. CASE \/ ReleaseProviderCluster \/ DeleteServiceSets \/ DeleteChildResources
             \/ DeleteClusterDataSource \/ GetPartialCapiCluster \/ RemoveFinalizer
    BY <2>4 DEF ReleaseProviderCluster, DeleteServiceSets, DeleteChildResources,
                DeleteClusterDataSource, GetPartialCapiCluster, RemoveFinalizer, cluster
  <2>5. CASE Adapter \/ Ipam \/ CapiClusterPollEnqueue \/ Others \/ User
    BY <2>5 DEF Adapter, AdapterReconcile, AdapterWriteProfile, AdapterReconcileDelete,
                adapterRest, Ipam, ReconcileIPAMClaim, ReconcileClusterIPAM, ipamRest,
                CapiClusterPollEnqueue, Others, SveltosDeploys, SveltosUndeploys,
                DataSourceMoves, User, EditSpec, EditTemplate, Edit, Delete, cluster
  <2> QED
    BY <2>1, <2>2, <2>3, <2>4, <2>5 DEF Next, PassStep
<1> QED
  BY <1>1, InitIInv, StepInductive, PTL DEF Spec, ClusterGoesAfterServices

=============================================================================
