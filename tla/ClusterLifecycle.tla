-------------------------- MODULE ClusterLifecycle --------------------------
(***************************************************************************)
(* The life of one ClusterDeployment: the controller's update and delete   *)
(* passes, the objects it makes (HelmRelease, ServiceSet, ClusterData-     *)
(* Source, IPAM claim, Secret with the authentication configuration), the  *)
(* adapter that deletes the ServiceSet, the poller that notices what CAPI  *)
(* does, and, external to this code, flux, CAPI and sveltos.               *)
(*                                                                         *)
(* A pass reads the ClusterDeployment once and then makes one API call     *)
(* after the other; everybody else moves between two calls.  The status is *)
(* built in memory and written by the last call, which the API server      *)
(* refuses when the object has moved since it was read.                    *)
(***************************************************************************)
EXTENDS Integers

CONSTANTS
    Configs,    \* the choices of a user at creation: records of Config
    MaxEdits,   \* bound on the edits of the ClusterDeployment and its template
    MaxFaults   \* bound on those and on failed calls, restarts, timeouts and
                \* out-of-band deletions together

Config == [cleanup : BOOLEAN, kine : BOOLEAN, ipam : BOOLEAN]

ASSUME ClusterLifecycleAssumption ==
    /\ Configs \subseteq Config
    /\ MaxEdits \in Nat
    /\ MaxFaults \in Nat

VARIABLES
    conf,      \* spec.cleanupOnDeletion, spec.dataSource, spec.ipamClaim
    spec,      \* the rest of the spec the user edits, and the metadata
    status,    \* what is stored
    tpl,       \* is the ClusterTemplate valid, and its Kubernetes version
    queued,    \* is the key in the workqueue?
    pc,        \* the call the pass makes next
    snap,      \* the spec the pass read
    mem,       \* the status in memory
    ssExists,  \* did deleteServiceSets find any?
    hr,        \* HelmRelease
    hrIpam,    \* do its values carry the allocated addresses?
    capi,      \* CAPI Cluster
    machines,  \* has it Machines?
    infra,     \* does the infrastructure Cluster hold the blocking finalizer?
    cds,       \* ClusterDataSource
    claim,     \* ClusterIPAMClaim
    ipam,      \* status.phase of the ClusterIPAM
    secret,    \* Secret with the AuthenticationConfiguration
    ss,        \* ServiceSet
    ssStates,  \* are all of its service states Deleting?
    apc,       \* the adapter: idle, or about to write the Profile
    profile,   \* sveltos Profile
    cloud,     \* the cloud resources made by the services
    accepted,  \* history: versions of templates that passed the validation
    faults

object   == <<conf, spec, status>>
pass     == <<pc, snap, mem, ssExists>>
cluster  == <<hr, hrIpam, capi, machines, infra>>
address  == <<claim, ipam>>
services == <<ss, ssStates, apc, profile, cloud>>
vars     == <<object, tpl, queued, pass, cluster, cds, address, secret,
              services, accepted, faults>>

Spec0   == [edits  : 0 .. MaxEdits + 1, present : BOOLEAN, deleting : BOOLEAN,
            fin    : BOOLEAN, dryRun : BOOLEAN, auth : BOOLEAN, values : BOOLEAN]
Reasons == {"none", "Deleting", "Failed", "WaitingForCloudResourcesDeletion",
            "WaitingForClusterDeletion", "WaitingForHelmReleaseDeletion",
            "WaitingForServiceSetsDeletion", "WaitingForClusterDataSourceDeletion",
            "DeletionCompleted"}
Summary == {"none", "Provisioning", "Ready", "Deleting", "DeletionCompleted",
            "CAPIClusterMissing"}
CloudResources == {"LoadBalancer", "PersistentVolume"}
Three   == {"absent", "True", "Unknown", "False"}

(* ClusterDeploymentStatus, with the conditions that differ in effect.     *)
Status == [template : Three, helm : Three, capi : Summary, dataSource : Three,
           auth : BOOLEAN, cloudDeleted : Three, deleting : Reasons,
           version : 0 .. MaxEdits + 1, ready : Three]
NewStatus == [template |-> "absent", helm |-> "absent", capi |-> "none",
              dataSource |-> "absent", auth |-> FALSE, cloudDeleted |-> "absent",
              deleting |-> "none", version |-> 0, ready |-> "absent"]

NewSpec == [edits |-> 0, present |-> TRUE, deleting |-> FALSE, fin |-> FALSE,
            dryRun |-> FALSE, auth |-> TRUE, values |-> FALSE]

Steps == {"idle", "addFinalizer", "ipam", "validate", "resources", "helm", "services",
          "end", "release", "serviceSets", "cleanup", "helmRelease",
          "clusterDataSource", "cluster", "finalizer"}

(* The pass is over: what it read and knew is forgotten.                   *)
Done == pc' = "idle" /\ snap' = NewSpec /\ mem' = NewStatus /\ ssExists' = FALSE

(* The deletion itself is no disturbance.                                  *)
Disturbed == faults + spec.edits - (IF spec.deleting THEN 1 ELSE 0)

(* SetupWithManager: a change of the ClusterDeployment, of its template,   *)
(* of the HelmRelease, the ServiceSet or the ClusterDataSource queues the  *)
(* key; the CAPI Cluster and the Profile are not watched.                  *)
Enqueue == queued' = TRUE

Fault == Disturbed < MaxFaults /\ faults' = faults + 1

-----------------------------------------------------------------------------
(* Conditions *)

Conditions(s) == {s.template, s.helm, s.dataSource, s.cloudDeleted}

(* handleClusterDeploymentFailedConditions: a condition that is False is   *)
(* an error or, for the summary of the CAPI Cluster, a warning.            *)
HasErrors(s)   == "False" \in Conditions(s)
HasWarnings(s) == s.capi \notin {"none", "Ready", "DeletionCompleted"}

UpdateReadyCondition(s) ==
    [s EXCEPT !.ready =
       IF s.deleting # "none" \/ HasErrors(s) \/ HasWarnings(s) THEN "False"
       ELSE IF "Unknown" \in Conditions(s) THEN "Unknown" ELSE "True"]

(* GetCAPIClusterSummaryCondition: while the ClusterDeployment is deleted  *)
(* only the Deleting condition of the Cluster counts.                      *)
ClusterSummary(deleting) ==
    IF deleting \/ capi = "terminating" THEN "Deleting"
    ELSE IF capi = "ready" THEN "Ready" ELSE "Provisioning"

(* aggregateCapiConditions *)
AggregateCapiConditions(s, deleting) ==
    [s EXCEPT !.capi =
       IF capi # "absent" THEN ClusterSummary(deleting)
       ELSE CASE s.capi = "none"     -> "none"
              [] s.capi = "Deleting" -> "DeletionCompleted"
              [] s.capi \in {"CAPIClusterMissing", "DeletionCompleted"} -> s.capi
              [] OTHER               -> "CAPIClusterMissing"]

(* initClusterConditions *)
InitClusterConditions(s, dryRun) ==
    LET init(c) == IF c = "absent" THEN "Unknown" ELSE c
    IN  [s EXCEPT !.template = init(@),
                  !.helm     = IF dryRun THEN @ ELSE init(@),
                  !.ready    = init(@)]

(* ensureDeletingCondition when the pass ends without an error: next is    *)
(* the call that was not made.                                             *)
EnsureDeletingCondition(s, next, cloudDone) ==
    [s EXCEPT !.deleting =
       CASE ~cloudDone                                -> "WaitingForCloudResourcesDeletion"
         [] cloudDone /\ s.capi \notin {"none", "DeletionCompleted", "CAPIClusterMissing"}
                                                      -> "WaitingForClusterDeletion"
         [] OTHER -> CASE next = "helmRelease"        -> "WaitingForHelmReleaseDeletion"
                       [] next = "serviceSets"        -> "WaitingForServiceSetsDeletion"
                       [] next = "clusterDataSource"  -> "WaitingForClusterDataSourceDeletion"
                       [] OTHER                       -> "DeletionCompleted"]

-----------------------------------------------------------------------------
(* The update pass *)

Init ==
    /\ conf \in Configs
    /\ spec = NewSpec
    /\ status = NewStatus
    /\ tpl = [valid |-> TRUE, version |-> 1]
    /\ queued = TRUE
    /\ pc = "idle" /\ snap = NewSpec /\ mem = NewStatus /\ ssExists = FALSE
    /\ hr = "absent" /\ hrIpam = FALSE
    /\ capi = "absent" /\ machines = FALSE /\ infra = FALSE
    /\ cds = "absent" /\ claim = "absent" /\ ipam = "absent" /\ secret = "absent"
    /\ ss = "absent" /\ ssStates = TRUE /\ apc = "idle" /\ profile = "absent"
    /\ cloud = {} /\ accepted = {} /\ faults = 0

(* The API server refuses a write of a version that is no longer current.  *)
Current == spec.present /\ spec.edits = snap.edits

(* getClusterScope finds the objects the spec names, and says so.          *)
GetClusterScope(s) == [s EXCEPT !.auth = @ \/ spec.auth]

(* Reconcile up to reconcileUpdate or reconcileDelete.                     *)
Reconcile ==
    /\ queued /\ pc = "idle"
    /\ queued' = FALSE
    /\ IF spec.present
       THEN /\ snap' = spec
            /\ mem' = GetClusterScope(status)
            /\ pc' = IF spec.deleting THEN "release"
                     ELSE IF ~spec.fin THEN "addFinalizer" ELSE "ipam"
            /\ UNCHANGED ssExists
       ELSE Done
    /\ UNCHANGED <<object, tpl, cluster, cds, address, secret, services,
                   accepted, faults>>

AddFinalizer ==
    /\ pc = "addFinalizer"
    /\ spec' = IF Current THEN [spec EXCEPT !.fin = TRUE] ELSE spec
    /\ Done /\ queued' = TRUE
    /\ UNCHANGED <<conf, status, tpl, cluster, cds, address, secret, services,
                   accepted, faults>>

ClaimBound == claim = "bound"

AddressesKnown == ~conf.ipam \/ (ClaimBound /\ snap.values)

(* processClusterIPAM: create the claim, wait until it is bound, copy the  *)
(* addresses into the values of the spec; each ends the pass.              *)
ProcessClusterIPAM ==
    /\ pc = "ipam"
    /\ \/ /\ AddressesKnown
          /\ pc' = "validate"
          /\ UNCHANGED <<claim, spec, queued>>
       \/ /\ conf.ipam /\ ~ClaimBound
          /\ claim' = IF claim = "absent" THEN "unbound" ELSE claim
          /\ pc' = "end" /\ queued' = TRUE
          /\ UNCHANGED spec
       \/ /\ conf.ipam /\ ClaimBound /\ ~snap.values
          /\ spec' = IF Current THEN [spec EXCEPT !.values = TRUE] ELSE spec
          /\ pc' = "end" /\ queued' = TRUE
          /\ UNCHANGED claim
    /\ UNCHANGED <<conf, status, tpl, snap, mem, ssExists, cluster, cds, ipam,
                   secret, services, accepted, faults>>

(* Mutant: the version is recorded before the template is validated.       *)
RefusedTooLate(s) == [s EXCEPT !.template = "False", !.version = tpl.version]

(* The status of a pass whose template was refused, and of one it passed.  *)
Refused(s)  == [s EXCEPT !.template = "False"]

Accepted(s) == [s EXCEPT !.template = "True", !.version = tpl.version]

(* updateCluster up to handleDryRun *)
ValidateTemplate ==
    /\ pc = "validate"
    /\ LET s == InitClusterConditions(mem, snap.dryRun)
       IN  IF tpl.valid
           THEN /\ mem' = Accepted(s)
                /\ accepted' = accepted \union {tpl.version}
                /\ pc' = IF snap.dryRun THEN "services" ELSE "resources"
                /\ UNCHANGED queued
           ELSE /\ mem' = Refused(s)
                /\ queued' = TRUE
                /\ pc' = "services"
                /\ UNCHANGED accepted
    /\ UNCHANGED <<object, tpl, snap, ssExists, cluster, cds, address, secret,
                   services, faults>>

(* Mutant: the owner is set only when the Secret is made.                  *)
SecretMadeOnce ==
    secret' = IF snap.auth
              THEN IF secret # "absent" THEN secret
                   ELSE IF capi # "absent" THEN "owned" ELSE "bare"
              ELSE IF mem.auth THEN "absent" ELSE secret

(* ensureAuthConfigSecret; ensureAuditPolicyConfigMap has the same shape.  *)
(* The Secret gets the CAPI Cluster as its owner once there is one.        *)
EnsureAuthConfigSecret ==
    secret' = IF snap.auth
              THEN IF capi # "absent" THEN "owned"
                   ELSE IF secret = "absent" THEN "bare" ELSE secret
              ELSE IF mem.auth THEN "absent" ELSE secret

(* ensureDataSourceReferences, ensureClusterDataSourceRegionalSecrets      *)
DataSourceMissing == conf.kine /\ cds \in {"absent", "notReady"}

EnsureClusterResources ==
    /\ pc = "resources"
    /\ EnsureAuthConfigSecret
    /\ mem' = [mem EXCEPT !.auth = snap.auth,
                          !.dataSource = IF DataSourceMissing THEN "False"
                                         ELSE IF conf.kine THEN "True" ELSE @]
    /\ cds' = IF DataSourceMissing THEN "notReady" ELSE cds
    /\ queued' = (queued \/ DataSourceMissing)
    /\ pc' = IF DataSourceMissing THEN "services" ELSE "helm"
    /\ UNCHANGED <<object, tpl, snap, ssExists, cluster, address, services,
                   accepted, faults>>

(* fillHelmValues: the values of the spec as it was read, the addresses    *)
(* among them.                                                             *)
FillHelmValues == snap.values

(* helm.ReconcileHelmRelease creates or updates.                           *)
Released == IF hr = "absent" THEN "pending" ELSE hr

(* reconcileHelmRelease: write the HelmRelease, report it and the CAPI     *)
(* Cluster, come back until both are ready.                                *)
ReconcileHelmRelease ==
    /\ pc = "helm"
    /\ hr' = Released
    /\ hrIpam' = FillHelmValues
    /\ mem' = AggregateCapiConditions(
                [mem EXCEPT !.helm = IF hr = "absent" THEN @
                                     ELSE IF hr = "ready" THEN "True" ELSE "Unknown"],
                FALSE)
    /\ queued' = (queued \/ hr # "ready" \/ mem'.capi \notin
                    {"none", "Ready", "CAPIClusterMissing", "DeletionCompleted"})
    /\ pc' = "services"
    /\ UNCHANGED <<object, tpl, snap, ssExists, capi, machines, infra, cds, address,
                   secret, services, accepted, faults>>

(* updateServices: the ServiceSet is made whatever updateCluster did, but  *)
(* not while the services do not suit the Kubernetes version.              *)
UpdateServices ==
    /\ pc = "services"
    /\ \E suits \in BOOLEAN : ss' = IF suits /\ ss = "absent" THEN "new" ELSE ss
    /\ pc' = "end"
    /\ UNCHANGED <<object, tpl, queued, snap, mem, ssExists, cluster, cds, address,
                   secret, ssStates, apc, profile, cloud, accepted, faults>>

(* updateStatus, deferred: the end of every pass.                          *)
UpdateStatus ==
    /\ pc = "end"
    /\ status' = IF Current THEN UpdateReadyCondition(mem) ELSE status
    /\ queued' = (queued \/ ~Current)
    /\ Done
    /\ UNCHANGED <<conf, spec, tpl, cluster, cds, address,
                   secret, services, accepted, faults>>

(* A call fails: the pass ends there and is retried.                       *)
PassFails ==
    /\ pc \notin {"idle", "end"} /\ Fault
    /\ mem' = [mem EXCEPT !.deleting = IF snap.deleting THEN "Failed" ELSE @]
    /\ pc' = "end" /\ queued' = TRUE
    /\ UNCHANGED <<object, tpl, snap, ssExists, cluster, cds, address, secret,
                   services, accepted>>

(* The controller restarts: the pass is lost, and every object queued.     *)
Restart ==
    /\ pc # "idle" \/ apc # "idle"
    /\ Fault
    /\ Done /\ apc' = "idle" /\ queued' = TRUE
    /\ UNCHANGED <<object, tpl, cluster, cds, address, secret,
                   ss, ssStates, profile, cloud, accepted>>

-----------------------------------------------------------------------------
(* The delete pass, reconcileDelete *)

(* The pass ends before the call next and comes back later.                *)
Wait(next, s) ==
    /\ mem' = EnsureDeletingCondition(s, next,
                ~conf.cleanup \/ status.cloudDeleted = "True")
    /\ pc' = "end" /\ queued' = TRUE

Proceed(next) == pc' = next /\ UNCHANGED <<mem, queued>>

(* Mutant: the infrastructure is left to its own finalizers.               *)
KeepProviderCluster ==
    /\ pc = "release"
    /\ mem' = AggregateCapiConditions(mem, TRUE)
    /\ pc' = "serviceSets"
    /\ UNCHANGED <<object, tpl, queued, snap, ssExists, cluster, cds, address,
                   secret, services, accepted, faults>>

(* aggregateCapiConditions and releaseProviderCluster look at the CAPI     *)
(* Cluster; its infrastructure may go once it has no Machines.             *)
ReleaseProviderCluster ==
    /\ pc = "release"
    /\ mem' = AggregateCapiConditions(mem, TRUE)
    /\ infra' = (infra /\ (capi = "absent" \/ machines))
    /\ pc' = "serviceSets"
    /\ UNCHANGED <<object, tpl, queued, snap, ssExists, hr, hrIpam, capi, machines,
                   cds, address, secret, services, accepted, faults>>

(* Mutant: the ServiceSets are left to the garbage collector.              *)
LateServiceSets ==
    /\ pc = "serviceSets"
    /\ ssExists' = (ss # "absent")
    /\ ss' = IF hr # "absent" THEN ss
             ELSE IF ss \in {"live", "marked"} THEN "marked" ELSE "absent"
    /\ Proceed("cleanup")
    /\ UNCHANGED <<object, tpl, snap, cluster, cds, address, secret, ssStates, apc,
                   profile, cloud, accepted, faults>>

(* deleteServiceSets: one without the adapter's finalizer is gone at once. *)
DeleteServiceSets ==
    /\ pc = "serviceSets"
    /\ ssExists' = (ss # "absent")
    /\ ss' = IF ss \in {"live", "marked"} THEN "marked" ELSE "absent"
    /\ Proceed("cleanup")
    /\ UNCHANGED <<object, tpl, snap, cluster, cds, address, secret, ssStates, apc,
                   profile, cloud, accepted, faults>>

(* DeleteAllExceptAndWait, DeletePVCsAndOwnersAndWait: what one of the two *)
(* concurrent removals leaves when its ten seconds are over; the second    *)
(* one also deletes the workloads that hold a claim, or they make another. *)
LoadBalancersLeft == {{}, cloud \intersect {"LoadBalancer"}}
VolumesLeft       == {{}, cloud \intersect {"PersistentVolume"}}

(* childClientFor: there is a kubeconfig.                                  *)
ChildReachable == capi \in {"ready", "terminating"}

(* deleteChildResources: once, as far as there is a kubeconfig, and again  *)
(* after a removal that ran out of time.                                   *)
DeleteChildResources ==
    /\ pc = "cleanup"
    /\ \/ /\ ~conf.cleanup \/ mem.cloudDeleted = "True"
          /\ Proceed("helmRelease")
          /\ UNCHANGED <<cloud, faults>>
       \/ /\ conf.cleanup /\ mem.cloudDeleted # "True"
          /\ cloud' = IF ChildReachable THEN {} ELSE cloud
          /\ mem' = [mem EXCEPT !.cloudDeleted = "True"]
          /\ pc' = "helmRelease"
          /\ UNCHANGED <<queued, faults>>
       \/ /\ conf.cleanup /\ mem.cloudDeleted # "True" /\ ChildReachable
          /\ Fault
          /\ \E lb \in LoadBalancersLeft, pv \in VolumesLeft :
               lb \union pv # {} /\ cloud' = lb \union pv
          /\ Wait("cleanup", [mem EXCEPT !.cloudDeleted = "False"])
    /\ UNCHANGED <<object, tpl, snap, ssExists, cluster, cds, address, secret, ss,
                   ssStates, apc, profile, accepted>>

DeleteHelmRelease ==
    /\ pc = "helmRelease"
    /\ hr' = IF hr = "absent" THEN hr ELSE "terminating"
    /\ IF hr # "absent" THEN Wait("helmRelease", mem)
       ELSE IF ssExists THEN Wait("serviceSets", mem)
       ELSE Proceed("clusterDataSource")
    /\ UNCHANGED <<object, tpl, snap, ssExists, hrIpam, capi, machines, infra, cds,
                   address, secret, services, accepted, faults>>

DeleteClusterDataSource ==
    /\ pc = "clusterDataSource"
    /\ cds' = IF conf.kine /\ cds # "absent" THEN "terminating" ELSE cds
    /\ IF conf.kine /\ cds # "absent" THEN Wait("clusterDataSource", mem)
       ELSE Proceed("cluster")
    /\ UNCHANGED <<object, tpl, snap, ssExists, cluster, address, secret, services,
                   accepted, faults>>

(* Mutant: the last look at the CAPI Cluster is dropped.                   *)
IgnoreCluster ==
    /\ pc = "cluster"
    /\ Proceed("finalizer")
    /\ UNCHANGED <<object, tpl, snap, ssExists, cluster, cds, address, secret,
                   services, accepted, faults>>

GetPartialCapiCluster ==
    /\ pc = "cluster"
    /\ IF capi # "absent" THEN Wait("cluster", mem) ELSE Proceed("finalizer")
    /\ UNCHANGED <<object, tpl, snap, ssExists, cluster, cds, address, secret,
                   services, accepted, faults>>

(* Without its finalizer the object is gone; a conflict is an error.       *)
RemoveFinalizer ==
    /\ pc = "finalizer"
    /\ IF Current
       THEN /\ spec' = [spec EXCEPT !.fin = FALSE, !.present = FALSE]
            /\ Done
            /\ UNCHANGED queued
       ELSE /\ mem' = [mem EXCEPT !.deleting = "Failed"]
            /\ pc' = "end" /\ queued' = TRUE
            /\ UNCHANGED <<spec, snap, ssExists>>
    /\ UNCHANGED <<conf, status, tpl, cluster, cds, address, secret,
                   services, accepted, faults>>

-----------------------------------------------------------------------------
(* The adapter, as far as the life of the ServiceSet goes *)

adapterRest == <<object, tpl, pass, cluster, cds, address, secret, cloud, accepted, faults>>

(* The finalizer first; then the pass of a set that was not deleted when   *)
(* it was read writes the Profile, and the states sveltos reports.         *)
AdapterReconcile ==
    /\ apc = "idle"
    /\ \/ ss = "new"  /\ ss' = "live" /\ UNCHANGED apc
       \/ ss = "live" /\ (profile = "absent" \/ ssStates) /\ apc' = "profile" /\ UNCHANGED ss
    /\ UNCHANGED <<adapterRest, queued, ssStates, profile>>

AdapterWriteProfile ==
    /\ apc = "profile"
    /\ apc' = "idle"
    /\ profile' = IF profile = "absent" THEN "present" ELSE profile
    /\ ssStates' = FALSE
    /\ UNCHANGED <<adapterRest, queued, ss>>

(* reconcileDelete of the ServiceSet: the states, the Profile, and, when   *)
(* that is gone, the finalizer.                                            *)
AdapterReconcileDelete ==
    /\ apc = "idle" /\ ss = "marked"
    /\ \/ /\ ~ssStates /\ ssStates' = TRUE
          /\ Enqueue
          /\ UNCHANGED <<ss, profile>>
       \/ /\ ssStates /\ profile = "present"
          /\ profile' = "terminating"
          /\ UNCHANGED <<queued, ss, ssStates>>
       \/ /\ ssStates /\ profile = "absent"
          /\ ss' = "absent" /\ Enqueue
          /\ UNCHANGED <<ssStates, profile>>
    /\ UNCHANGED <<adapterRest, apc>>

-----------------------------------------------------------------------------
(* The poller of CAPI Clusters *)

(* capiClusterConditionDrifted *)
Drifted ==
    IF capi = "absent"
    THEN status.capi \notin {"none", "CAPIClusterMissing", "DeletionCompleted"}
    ELSE status.capi # ClusterSummary(FALSE)

(* Mutant: a Cluster that is gone is nothing to report.                    *)
PollPresent ==
    /\ spec.present /\ ~spec.deleting /\ ~spec.dryRun
    /\ capi # "absent" /\ Drifted
    /\ ~queued /\ queued' = TRUE
    /\ UNCHANGED <<object, tpl, pass, cluster, cds, address, secret, services,
                   accepted, faults>>

CapiClusterPollEnqueue ==
    /\ spec.present /\ ~spec.deleting /\ ~spec.dryRun
    /\ Drifted
    /\ ~queued /\ queued' = TRUE
    /\ UNCHANGED <<object, tpl, pass, cluster, cds, address, secret, services,
                   accepted, faults>>

-----------------------------------------------------------------------------
(* The IPAM controllers *)

ipamRest == <<object, tpl, queued, pass, cluster, cds, secret, services, accepted, faults>>

(* ClusterIPAMClaimReconciler: make the ClusterIPAM, then report its phase *)
(* as status.bound.                                                        *)
ReconcileIPAMClaim ==
    /\ claim # "absent"
    /\ ipam' = IF ipam = "absent" THEN "Pending" ELSE ipam
    /\ claim' = IF ipam' = "Bound" THEN "bound" ELSE "unbound"
    /\ <<ipam', claim'>> # <<ipam, claim>>
    /\ UNCHANGED ipamRest

(* ClusterIPAMReconciler: the adapter of the provider has the addresses.   *)
ReconcileClusterIPAM ==
    /\ ipam = "Pending"
    /\ ipam' = "Bound"
    /\ UNCHANGED <<ipamRest, claim>>

-----------------------------------------------------------------------------
(* Flux, CAPI, sveltos and the ClusterDataSource controller: external *)

FluxInstalls ==
    /\ hr = "pending"
    /\ IF capi = "absent"
       THEN /\ capi' = "provisioning"
            /\ infra' \in BOOLEAN
            /\ UNCHANGED hr
       ELSE hr' = "ready" /\ UNCHANGED <<capi, infra>>
    /\ Enqueue
    /\ UNCHANGED <<object, tpl, pass, hrIpam, machines, cds, address, secret,
                   services, accepted, faults>>

(* The HelmRelease goes after it has asked for the deletion of the Cluster.*)
FluxUninstalls ==
    /\ hr = "terminating"
    /\ IF capi \in {"provisioning", "ready"}
       THEN capi' = "terminating" /\ UNCHANGED <<hr, hrIpam>>
       ELSE hr' = "absent" /\ hrIpam' = FALSE /\ UNCHANGED capi
    /\ Enqueue
    /\ UNCHANGED <<object, tpl, pass, machines, infra, cds, address, secret,
                   services, accepted, faults>>

CapiProvisions ==
    /\ capi = "provisioning"
    /\ machines' = TRUE
    /\ capi' = IF machines THEN "ready" ELSE capi
    /\ UNCHANGED <<object, tpl, queued, pass, hr, hrIpam, infra, cds, address, secret,
                   services, accepted, faults>>

(* The Machines first; the Cluster when its infrastructure may go.  The    *)
(* Secret it owns goes with it.                                            *)
CapiDeletes ==
    /\ capi = "terminating"
    /\ IF machines
       THEN machines' = FALSE /\ UNCHANGED <<capi, secret>>
       ELSE /\ ~infra
            /\ capi' = "absent"
            /\ secret' = IF secret = "owned" THEN "absent" ELSE secret
            /\ UNCHANGED machines
    /\ UNCHANGED <<object, tpl, queued, pass, hr, hrIpam, infra, cds, address,
                   services, accepted, faults>>

(* Somebody deletes the CAPI Cluster behind the controller's back.         *)
DeletedOutOfBand ==
    /\ capi \in {"provisioning", "ready"} /\ Fault
    /\ capi' = "terminating"
    /\ UNCHANGED <<object, tpl, queued, pass, hr, hrIpam, machines, infra, cds,
                   address, secret, services, accepted>>

SveltosDeploys ==
    /\ profile = "present" /\ capi = "ready" /\ cloud # CloudResources
    /\ cloud' = CloudResources
    /\ UNCHANGED <<object, tpl, queued, pass, cluster, cds, address, secret, ss,
                   ssStates, apc, profile, accepted, faults>>

SveltosUndeploys ==
    /\ profile = "terminating"
    /\ profile' = "absent"
    /\ UNCHANGED <<object, tpl, queued, pass, cluster, cds, address, secret, ss,
                   ssStates, apc, cloud, accepted, faults>>

DataSourceMoves ==
    /\ cds \in {"notReady", "terminating"}
    /\ cds' = IF cds = "notReady" THEN "ready" ELSE "absent"
    /\ Enqueue
    /\ UNCHANGED <<object, tpl, pass, cluster, address, secret, services, accepted,
                   faults>>

-----------------------------------------------------------------------------
(* The user *)

Edit(s) ==
    /\ spec.present /\ spec.edits < MaxEdits /\ Disturbed < MaxFaults
    /\ spec' = [s EXCEPT !.edits = @ + 1]
    /\ Enqueue
    /\ UNCHANGED <<conf, status, pass, cluster, cds, address, secret, services,
                   accepted, faults>>

EditSpec ==
    /\ \/ Edit([spec EXCEPT !.dryRun = ~@])
       \/ Edit([spec EXCEPT !.auth = ~@])
    /\ UNCHANGED tpl

(* A template that is not valid is not yet known to be, or no longer.      *)
EditTemplate ==
    /\ Edit(spec)
    /\ \E v \in BOOLEAN : tpl' = [valid |-> v, version |-> tpl.version + 1]

Delete ==
    /\ spec.present /\ ~spec.deleting
    /\ spec' = [spec EXCEPT !.edits = @ + 1, !.deleting = TRUE, !.present = spec.fin]
    /\ Enqueue
    /\ UNCHANGED <<conf, status, tpl, pass, cluster, cds, address, secret, services,
                   accepted, faults>>

-----------------------------------------------------------------------------
PassStep ==
    \/ AddFinalizer \/ ProcessClusterIPAM \/ ValidateTemplate
    \/ EnsureClusterResources
    \/ ReconcileHelmRelease \/ UpdateServices \/ UpdateStatus
    \/ ReleaseProviderCluster \/ DeleteServiceSets
    \/ DeleteChildResources \/ DeleteHelmRelease \/ DeleteClusterDataSource
    \/ GetPartialCapiCluster \/ RemoveFinalizer

Adapter == AdapterReconcile \/ AdapterWriteProfile \/ AdapterReconcileDelete
Ipam    == ReconcileIPAMClaim \/ ReconcileClusterIPAM
Flux    == FluxInstalls \/ FluxUninstalls
Capi    == CapiProvisions \/ CapiDeletes
Others  == SveltosDeploys \/ SveltosUndeploys \/ DataSourceMoves
User    == EditSpec \/ EditTemplate \/ Delete

Next ==
    \/ Reconcile \/ PassStep \/ PassFails \/ Restart
    \/ Adapter \/ CapiClusterPollEnqueue \/ Ipam
    \/ Flux \/ Capi \/ DeletedOutOfBand \/ Others \/ User

Spec == Init /\ [][Next]_vars

(* The workqueue hands every key out, a pass runs to its end, the poller   *)
(* ticks, and the controllers around do what they are asked for.           *)
FairSpec ==
    /\ Spec
    /\ WF_vars(Reconcile) /\ WF_vars(PassStep)
    /\ WF_vars(Adapter) /\ WF_vars(CapiClusterPollEnqueue)
    /\ WF_vars(Flux) /\ WF_vars(Capi)
    /\ WF_vars(SveltosUndeploys) /\ WF_vars(DataSourceMoves)

-----------------------------------------------------------------------------
TypeOK ==
    /\ conf \in Configs /\ spec \in Spec0 /\ status \in Status
    /\ tpl \in [valid : BOOLEAN, version : 1 .. MaxEdits + 1]
    /\ queued \in BOOLEAN /\ pc \in Steps /\ snap \in Spec0 /\ mem \in Status
    /\ ssExists \in BOOLEAN /\ hr \in {"absent", "pending", "ready", "terminating"}
    /\ hrIpam \in BOOLEAN
    /\ capi \in {"absent", "provisioning", "ready", "terminating"}
    /\ machines \in BOOLEAN /\ infra \in BOOLEAN
    /\ cds \in {"absent", "notReady", "ready", "terminating"}
    /\ claim \in {"absent", "unbound", "bound"} /\ ipam \in {"absent", "Pending", "Bound"}
    /\ secret \in {"absent", "bare", "owned"}
    /\ ss \in {"absent", "new", "live", "marked"} /\ ssStates \in BOOLEAN
    /\ apc \in {"idle", "profile"} /\ profile \in {"absent", "present", "terminating"}
    /\ cloud \subseteq CloudResources /\ accepted \subseteq 1 .. MaxEdits + 1
    /\ faults \in 0 .. MaxFaults

(* reconcileDelete removes the finalizer last: when the ClusterDeployment  *)
(* is gone so are its HelmRelease, CAPI Cluster, ServiceSet, Profile and   *)
(* ClusterDataSource, although each was looked at by another call.         *)
NothingOutlivesIt ==
    ~spec.present => /\ hr = "absent" /\ capi = "absent" /\ cds = "absent"
                     /\ ss = "absent" /\ profile = "absent"

(* The adapter keeps the ServiceSet until its Profile is gone, also when   *)
(* the deletion comes in the middle of a pass that writes the Profile.     *)
ProfileHasItsSet == ss = "absent" => profile = "absent" /\ apc = "idle"

(* The cluster is not made before its addresses are allocated and in the   *)
(* values of its HelmRelease.                                              *)
AddressesBeforeCluster == conf.ipam /\ hr # "absent" => hrIpam

(* Across the passes of the controller and of the adapter, the parts of a  *)
(* cluster exist only together with what they need: reconcileUpdate makes  *)
(* them in order, reconcileDelete removes them in order.                   *)
LifecycleInv == TypeOK /\ NothingOutlivesIt /\ ProfileHasItsSet /\ AddressesBeforeCluster

(* The status claims only Kubernetes versions of templates that the        *)
(* controller has accepted.                                                *)
VersionWasAccepted == status.version \in accepted \union {0}

(* reconcileDelete uninstalls the cluster only when the ServiceSet is on   *)
(* its way out, so that nothing is deployed to a cluster that goes.        *)
ClusterGoesAfterServices ==
    [][hr # "terminating" /\ hr' = "terminating" => ss \in {"absent", "marked"}]_vars

(* A ClusterDeployment that is deleted is gone some day, whatever its      *)
(* passes, the adapter and CAPI were doing.                                *)
DeletionEnds == <>[](spec.deleting => ~spec.present)

Settled ==
    /\ spec.present /\ spec.fin /\ ~spec.deleting /\ ~spec.dryRun /\ tpl.valid
    /\ conf.ipam => spec.values /\ claim = "bound"
    /\ conf.kine => cds = "ready"

(* Nothing watches the CAPI Cluster: the status follows it all the same,   *)
(* also when it disappears after everything was ready.                     *)
StatusFollowsCluster == <>[]Settled => <>[](~Drifted)

(* A Secret made before the CAPI Cluster gets it as its owner, so that it  *)
(* is collected with it.                                                   *)
SecretGetsItsOwner ==
    <>[](Settled /\ spec.auth /\ capi \in {"provisioning", "ready"})
        => []<>(secret = "owned")

(* The comment in reconcileDelete: the cloud resources are removed after   *)
(* the Profiles are marked for deletion, so that no new ones appear.       *)
NothingDeployedAfterCleanup ==
    [][spec.present /\ status.cloudDeleted = "True" /\ cloud = {} => cloud' = {}]_vars

=============================================================================
