----------------------------- MODULE ServiceSet -----------------------------
(***************************************************************************)
(* The rollout of the services of one cluster: the owner of a ServiceSet   *)
(* (a ClusterDeployment or a MultiClusterService) computes its spec, the   *)
(* sveltos adapter turns the spec into a Profile and reports what became   *)
(* of it in the status, and the status decides what the owner may put in   *)
(* the spec next.                                                          *)
(*                                                                         *)
(* Versions stand for the ServiceTemplates that carry them, ordered as     *)
(* semver orders them; 0 is "no version".  An object that does not exist   *)
(* yet is one with no services.  All services are Helm services: the       *)
(* verifier leaves the other kinds alone.                                  *)
(*                                                                         *)
(* A reconcile reads its objects, works on the copy and writes it back     *)
(* under the resourceVersion it read.  Reading is one step and writing     *)
(* another; the write conflicts unless the object is still the one read.   *)
(* A reconcile that fails before it writes anything is a stuttering step.  *)
(***************************************************************************)
EXTENDS Naturals, FiniteSets

CONSTANTS
    Services,      \* keys (namespace/name) of services
    Versions,      \* versions of their templates
    Values,        \* helm values
    Supported,     \* versions the template chain lists
    Hop,           \* Hop[cur][des]: the next hops from cur towards des
    Chart,         \* Chart[v]: the chart that the template of v installs
    DesiredSpecs,  \* what the owner's user may write
    MaxEdits,      \* bound on the edits of the owner's spec
    MaxFaults      \* bound on failed applies, failed checks, sick pods

NoVersion == 0

Desired == [on      : BOOLEAN,          \* listed in spec.serviceSpec.services
            ver     : Versions,
            vals    : Values,
            deps    : SUBSET Services,  \* dependsOn
            chain   : BOOLEAN,          \* templateChain is set
            disable : BOOLEAN]

ASSUME ServiceSetAssumption ==
    /\ Versions \subseteq Nat \ {0}
    /\ Values \subseteq Nat \ {0}
    /\ Supported \subseteq Versions
    /\ Hop \in [Versions -> [Versions -> SUBSET Versions]]
    /\ Chart \in [Versions -> Nat \ {0}]
    /\ DesiredSpecs \subseteq [Services -> Desired]
    /\ MaxEdits \in Nat
    /\ MaxFaults \in Nat

ServiceStates == {"None", "NotDeployed", "Provisioning", "Deployed", "Failed"}
FeatureStates == {"None", "Provisioning", "Provisioned", "Failed"}

SpecEntry   == [ver : Versions \union {NoVersion}, vals : Values \union {0}]
StatusEntry == [state : ServiceStates,
                ver   : Versions \union {NoVersion},
                hash  : Nat \X Nat]
Release     == [ver    : Versions \union {NoVersion},
                vals   : Values \union {0},
                ready  : BOOLEAN,
                failed : BOOLEAN]

NoHash    == <<0, 0>>
NoEntry   == [ver |-> NoVersion, vals |-> 0]
NoStatus  == [state |-> "None", ver |-> NoVersion, hash |-> NoHash]
NoRelease == [ver |-> NoVersion, vals |-> 0, ready |-> FALSE, failed |-> FALSE]

SpecOf    == [Services -> SpecEntry]
StatusOf  == [Services -> StatusEntry]
DesiredOf == [Services -> Desired]
ChartsOf  == [Services -> Versions \union {NoVersion}]

VARIABLES
    desired,   \* spec.serviceSpec.services of the owner
    spec,      \* spec.services of the ServiceSet
    status,    \* status.services of the ServiceSet
    owner,     \* the owner's reconcile and its copies of the three above
    adapter,   \* the adapter's reconcile: its copies of spec and status, and
               \* the status it is working on
    charts,    \* clusterConfigCache: the charts sveltos last said it installed
    profile,   \* the Profile the adapter maintains
    want,      \* ClusterSummary: the Profile sveltos is working on
    feature,   \* ClusterSummary: status of the Helm feature
    release,   \* the releases on the cluster, and their pods
    edits,     \* edits of the owner's spec so far
    faults     \* faults so far

serviceSet == <<spec, status>>
sveltos    == <<want, feature, release>>
vars == <<desired, serviceSet, owner, adapter, charts, profile, sveltos, edits, faults>>

Idle     == [pc |-> "idle"]
NoCharts == [s \in {} |-> NoVersion]

-----------------------------------------------------------------------------
(* Owner: which services may move *)

DesiredKeys(des) == {s \in Services : des[s].on}

(* A dependsOn that names a service outside the list is an error.          *)
DependenciesPresent(des) ==
    \A s \in DesiredKeys(des) : des[s].deps \subseteq DesiredKeys(des)

(* Stored services whose template the chain does not know are an error.    *)
UpgradePathsKnown(des, sp) ==
    \A s \in DesiredKeys(des) :
        (des[s].chain /\ sp[s].ver # NoVersion) => sp[s].ver \in Supported

(* Mutant: Deployed at whatever version.                                   *)
DeployedAtAnyVersion(des, sp, st, s) == st[s].state = "Deployed"

AtDesiredVersion(des, sp, st, s) ==
    /\ st[s].state = "Deployed"
    /\ st[s].ver = sp[s].ver
    /\ sp[s].ver = des[s].ver

(* Mutant: the dependencies of a finished service do not matter.           *)
DeployedDirectly(des, sp, st) ==
    {s \in DesiredKeys(des) : AtDesiredVersion(des, sp, st, s)}

(* The loop that drops services with a dropped dependency stops at the     *)
(* largest set of finished services closed under dependsOn.                *)
DeployedServices(des, sp, st) ==
    UNION {S \in SUBSET DesiredKeys(des) :
             \A s \in S : /\ AtDesiredVersion(des, sp, st, s)
                          /\ des[s].deps \subseteq S}

FilterServiceDependencies(des, sp, st) ==
    {s \in DesiredKeys(des) : des[s].deps \subseteq DeployedServices(des, sp, st)}

-----------------------------------------------------------------------------
(* Owner: what they move to *)

DeployedVersion(st, s) ==
    IF st[s].state = "Deployed" THEN st[s].ver ELSE NoVersion

(* Mutant: the spec moves on without waiting.                              *)
NeverInFlight(sp, st, s) == FALSE

InFlight(sp, st, s) ==
    sp[s].ver # NoVersion /\ sp[s].ver # DeployedVersion(st, s)

(* Mutant: straight to the desired version.                                *)
StraightToDesired(d, cur) == {d.ver}

(* The first hops of the routes from version cur: along the chain, or the  *)
(* version itself where there is none.                                     *)
NextUpgradeStep(d, cur) ==
    IF d.chain THEN Hop[cur][d.ver] ELSE {d.ver} \intersect {cur}

(* The chain only describes upgrades: a downgrade is always available.     *)
UpgradeAvailable(d, cur) == d.ver < cur \/ NextUpgradeStep(d, cur) # {}

(* The version a service that is not in flight gets.  Where no upgrade is  *)
(* available the code emits the desired version, not the stored one.       *)
TargetVersions(d, cur) ==
    IF cur = NoVersion \/ ~UpgradeAvailable(d, cur) \/ NextUpgradeStep(d, cur) = {}
    THEN {d.ver}
    ELSE NextUpgradeStep(d, cur)

(* The entry ServicesToDeploy emits for an eligible service; a disabled    *)
(* one keeps what is stored, which BuildServicesList carries over.         *)
ServicesToDeploy(des, sp, st, s, target) ==
    IF InFlight(sp, st, s) THEN [sp[s] EXCEPT !.vals = des[s].vals]
    ELSE IF des[s].disable THEN sp[s]
    ELSE [ver |-> target, vals |-> des[s].vals]

BuildServicesList(des, sp, st, target) ==
    [s \in Services |->
        IF ~des[s].on THEN NoEntry
        ELSE IF s \in FilterServiceDependencies(des, sp, st)
        THEN ServicesToDeploy(des, sp, st, s, target[s])
        ELSE sp[s]]

(* The owner's reconcile reads the owner and the ServiceSet.               *)
OwnerRead ==
    /\ owner = Idle
    /\ owner' = [pc |-> "read", des |-> desired, spec |-> spec, status |-> status]
    /\ UNCHANGED <<desired, serviceSet, adapter, charts, profile, sveltos, edits, faults>>

(* An Update succeeds when nobody wrote the ServiceSet since it was read.  *)
Unmodified(sp, st) == sp = spec /\ st = status

(* GetServiceSetWithOperation on what was read, then the write.  A         *)
(* conflict is swallowed; so is AlreadyExists.                             *)
OwnerWrite ==
    /\ owner # Idle
    /\ owner' = Idle
    /\ IF /\ DependenciesPresent(owner.des)
          /\ UpgradePathsKnown(owner.des, owner.spec)
          /\ Unmodified(owner.spec, owner.status)
       THEN \E target \in [Services -> Versions] :
              /\ \A s \in Services :
                   target[s] \in TargetVersions(owner.des[s], owner.spec[s].ver)
              /\ spec' = BuildServicesList(owner.des, owner.spec, owner.status, target)
       ELSE UNCHANGED spec
    /\ UNCHANGED <<desired, status, adapter, charts, profile, sveltos, edits, faults>>

(* The user edits the owner.                                               *)
UserEdit ==
    /\ edits < MaxEdits
    /\ desired' \in DesiredSpecs \ {desired}
    /\ edits' = edits + 1
    /\ UNCHANGED <<serviceSet, owner, adapter, charts, profile, sveltos, faults>>

-----------------------------------------------------------------------------
(* The sveltos adapter *)

AdapterRead ==
    /\ adapter = Idle
    /\ adapter' = [pc |-> "ensure", spec |-> spec, read |-> status, status |-> status]
    /\ UNCHANGED <<desired, serviceSet, owner, charts, profile, sveltos, edits, faults>>

(* getHelmCharts: a service the status does not list yet starts there as   *)
(* Provisioning, without a version.                                        *)
Seeded(sp, st) ==
    [s \in Services |->
        IF sp[s] # NoEntry /\ st[s] = NoStatus
        THEN [NoStatus EXCEPT !.state = "Provisioning"]
        ELSE st[s]]

AdapterEnsureProfile ==
    /\ adapter # Idle /\ adapter.pc = "ensure"
    /\ profile' = adapter.spec
    /\ adapter' = [adapter EXCEPT !.pc = "collect",
                                  !.status = Seeded(adapter.spec, adapter.status)]
    /\ UNCHANGED <<desired, serviceSet, owner, charts, sveltos, edits, faults>>

(* The state of a service as sveltos reports it.  It is the status of the  *)
(* whole Helm feature that tells an apply in progress from a finished one. *)
FeatureHelm(s) ==
    IF want[s] = NoEntry                THEN "NotDeployed"
    ELSE IF release[s].failed           THEN "Failed"
    ELSE IF feature = "Provisioning"    THEN "Provisioning"
    ELSE IF release[s].ver = NoVersion  THEN "NotDeployed"
    ELSE "Deployed"

(* servicesStateFromSummary: services the spec dropped are forgotten, the  *)
(* version and the hash are carried over.                                  *)
ServicesStateFromSummary(sp, st) ==
    [s \in Services |->
        IF sp[s] = NoEntry THEN NoStatus ELSE [st[s] EXCEPT !.state = FeatureHelm(s)]]

(* Without a ClusterSummary there is nothing to collect.                   *)
AdapterCollect ==
    /\ adapter # Idle /\ adapter.pc = "collect"
    /\ adapter' = [adapter EXCEPT
                     !.pc = "verify",
                     !.status = IF feature = "None" THEN adapter.status
                                ELSE ServicesStateFromSummary(adapter.spec, adapter.status)]
    /\ UNCHANGED <<desired, serviceSet, owner, charts, profile, sveltos, edits, faults>>

(* The Profile cannot be written or the ClusterSummary not be read: the    *)
(* reconcile ends, and what it has of the status by then is stored.        *)
AdapterFail ==
    /\ adapter # Idle /\ adapter.pc \in {"ensure", "collect"}
    /\ faults < MaxFaults
    /\ faults' = faults + 1
    /\ adapter' = Idle
    /\ status' = IF Unmodified(adapter.spec, adapter.read) THEN adapter.status ELSE status
    /\ UNCHANGED <<desired, spec, owner, charts, profile, sveltos, edits>>

(* findOwnedClusterConfiguration: the cached charts, or else the current   *)
(* ones.                                                                   *)
ChartsSeen ==
    IF charts # NoCharts THEN charts ELSE [s \in Services |-> release[s].ver]

(* computeServiceHash over the charts seen and the values applied by now.  *)
ComputeServiceHash(s) ==
    IF want[s] = NoEntry \/ ChartsSeen[s] = NoVersion
    THEN NoHash
    ELSE <<Chart[ChartsSeen[s]], release[s].vals>>

(* verifyHelmServiceOnCluster: resources of the release, all of them fine. *)
Healthy(s) == release[s].ver # NoVersion /\ release[s].ready

(* Mutants: pods that are fine confirm whatever version the spec asks for; *)
(* a service that was confirmed once is never confirmed again.             *)
ConfirmOnHealth(st, s, version) ==
    IF Healthy(s) THEN [state |-> "Deployed", ver |-> version, hash |-> ComputeServiceHash(s)]
    ELSE [st EXCEPT !.state = "Provisioning"]

ConfirmOnce(st, s, version) ==
    LET final == IF Healthy(s) THEN st.state ELSE "Provisioning"
    IN  IF final = "Deployed" /\ st.hash = NoHash
        THEN [state |-> final, ver |-> version, hash |-> ComputeServiceHash(s)]
        ELSE [st EXCEPT !.state = final]

(* The final state of a service that sveltos reports as st, and the stamp  *)
(* of hash and version when both agree and the hash has moved.             *)
VerifyServiceState(st, s, version) ==
    LET hash     == ComputeServiceHash(s)
        combined == IF ~Healthy(s) THEN "Provisioning"
                    ELSE IF hash # NoHash /\ hash = st.hash THEN "Deployed"
                    ELSE st.state
        final    == IF hash = NoHash THEN "Provisioning" ELSE combined
    IN  IF st.state \notin {"Deployed", "Provisioning"} THEN st
        ELSE IF final = "Deployed" /\ hash # st.hash
        THEN [state |-> final, ver |-> version, hash |-> hash]
        ELSE [st EXCEPT !.state = final]

(* verifyServiceStates, then the status update of the deferred function.   *)
(* The services whose check fails keep the state that sveltos reports.     *)
AdapterVerify ==
    /\ adapter # Idle /\ adapter.pc = "verify"
    /\ adapter' = Idle
    /\ charts' = IF feature = "None" THEN charts ELSE ChartsSeen
    /\ \E unchecked \in SUBSET Services :
         /\ unchecked # {} => faults < MaxFaults
         /\ faults' = IF unchecked # {} THEN faults + 1 ELSE faults
         /\ status' = IF Unmodified(adapter.spec, adapter.read)
                      THEN [s \in Services |->
                              IF s \in unchecked THEN adapter.status[s]
                              ELSE VerifyServiceState(adapter.status[s], s,
                                                      adapter.spec[s].ver)]
                      ELSE status
    /\ UNCHANGED <<desired, spec, owner, profile, sveltos, edits>>

(* sweepClusterConfigCache drops what is older than the TTL.               *)
SweepClusterConfigCache ==
    /\ charts # NoCharts
    /\ charts' = NoCharts
    /\ UNCHANGED <<desired, serviceSet, owner, adapter, profile, sveltos, edits, faults>>

-----------------------------------------------------------------------------
(* Sveltos and the cluster, as the adapter sees them *)

Pending(s) == want[s] # NoEntry /\ [ver |-> release[s].ver, vals |-> release[s].vals] # want[s]

(* Sveltos takes up a new Profile and uninstalls what is gone from it.     *)
SveltosObserve ==
    /\ want # profile
    /\ want' = profile
    /\ feature' = "Provisioning"
    /\ release' = [s \in Services |->
                     IF profile[s] = NoEntry THEN NoRelease
                     ELSE [release[s] EXCEPT !.failed = FALSE]]
    /\ UNCHANGED <<desired, serviceSet, owner, adapter, charts, profile, edits, faults>>

SveltosApply(s) ==
    /\ feature = "Provisioning"
    /\ Pending(s)
    /\ release' = [release EXCEPT ![s] = [ver |-> want[s].ver, vals |-> want[s].vals,
                                          ready |-> FALSE, failed |-> FALSE]]
    /\ UNCHANGED <<desired, serviceSet, owner, adapter, charts, profile, want, feature,
                   edits, faults>>

SveltosFail(s) ==
    /\ faults < MaxFaults
    /\ feature = "Provisioning"
    /\ Pending(s)
    /\ release' = [release EXCEPT ![s].failed = TRUE]
    /\ feature' = "Failed"
    /\ faults' = faults + 1
    /\ UNCHANGED <<desired, serviceSet, owner, adapter, charts, profile, want, edits>>

SveltosRetry ==
    /\ feature = "Failed"
    /\ feature' = "Provisioning"
    /\ release' = [s \in Services |-> [release[s] EXCEPT !.failed = FALSE]]
    /\ UNCHANGED <<desired, serviceSet, owner, adapter, charts, profile, want, edits, faults>>

SveltosFinish ==
    /\ feature = "Provisioning"
    /\ \A s \in Services : ~Pending(s)
    /\ feature' = "Provisioned"
    /\ UNCHANGED <<desired, serviceSet, owner, adapter, charts, profile, want, release,
                   edits, faults>>

PodsReady(s) ==
    /\ release[s].ver # NoVersion /\ ~release[s].ready
    /\ release' = [release EXCEPT ![s].ready = TRUE]
    /\ UNCHANGED <<desired, serviceSet, owner, adapter, charts, profile, want, feature,
                   edits, faults>>

PodsUnready(s) ==
    /\ faults < MaxFaults
    /\ release[s].ready
    /\ release' = [release EXCEPT ![s].ready = FALSE]
    /\ faults' = faults + 1
    /\ UNCHANGED <<desired, serviceSet, owner, adapter, charts, profile, want, feature, edits>>

-----------------------------------------------------------------------------
(* Specification *)

Init ==
    /\ desired \in DesiredSpecs
    /\ spec = [s \in Services |-> NoEntry]
    /\ status = [s \in Services |-> NoStatus]
    /\ owner = Idle
    /\ adapter = Idle
    /\ charts = NoCharts
    /\ profile = [s \in Services |-> NoEntry]
    /\ want = [s \in Services |-> NoEntry]
    /\ feature = "None"
    /\ release = [s \in Services |-> NoRelease]
    /\ edits = 0
    /\ faults = 0

Next ==
    \/ OwnerRead
    \/ OwnerWrite
    \/ UserEdit
    \/ AdapterRead
    \/ AdapterEnsureProfile
    \/ AdapterCollect
    \/ AdapterVerify
    \/ AdapterFail
    \/ SweepClusterConfigCache
    \/ SveltosObserve
    \/ SveltosRetry
    \/ SveltosFinish
    \/ \E s \in Services :
         \/ SveltosApply(s)
         \/ SveltosFail(s)
         \/ PodsReady(s)
         \/ PodsUnready(s)

(* Every reconcile is queued again, by events, the poller or a timer, and  *)
(* sveltos keeps working; users and faults promise nothing.                *)
Fairness ==
    /\ WF_vars(OwnerRead) /\ WF_vars(OwnerWrite)
    /\ WF_vars(AdapterRead) /\ WF_vars(AdapterEnsureProfile)
    /\ WF_vars(AdapterCollect) /\ WF_vars(AdapterVerify)
    /\ WF_vars(SweepClusterConfigCache)
    /\ WF_vars(SveltosObserve) /\ WF_vars(SveltosRetry) /\ WF_vars(SveltosFinish)
    /\ \A s \in Services : WF_vars(SveltosApply(s)) /\ WF_vars(PodsReady(s))

Spec == Init /\ [][Next]_vars

FairSpec == Spec /\ Fairness

-----------------------------------------------------------------------------
(* Properties *)

(* Every variable stays in its type; a reconcile works on copies of the    *)
(* types of what it read.                                                  *)
TypeOK ==
    /\ desired \in DesiredOf
    /\ spec \in SpecOf
    /\ status \in StatusOf
    /\ owner \in {Idle} \union
         [pc : {"read"}, des : DesiredOf, spec : SpecOf, status : StatusOf]
    /\ adapter \in {Idle} \union
         [pc : {"ensure", "collect", "verify"}, spec : SpecOf, read : StatusOf,
          status : StatusOf]
    /\ charts \in {NoCharts} \union ChartsOf
    /\ profile \in SpecOf
    /\ want \in SpecOf
    /\ feature \in FeatureStates
    /\ release \in [Services -> Release]
    /\ edits \in 0 .. MaxEdits
    /\ faults \in 0 .. MaxFaults

(* What s directly or transitively depends on: the smallest set with its   *)
(* dependencies that is closed under dependsOn.                            *)
Dependencies(des, s) ==
    {d \in Services :
       \A S \in SUBSET Services :
         (des[s].deps \subseteq S /\ \A t \in S : des[t].deps \subseteq S) => d \in S}

(* FilterServiceDependencies: a service is added, upgraded or mutated only *)
(* while every service it directly or transitively depends on is Deployed, *)
(* with no upgrade in flight and none queued.  The judgement holds for the *)
(* ServiceSet at the moment of the write, not just for the copy read.      *)
DependenciesFirst ==
    [][\A s \in Services :
         (spec'[s] # spec[s] /\ spec'[s] # NoEntry) =>
           \A d \in Dependencies(owner.des, s) :
             AtDesiredVersion(owner.des, spec, status, d)]_vars

(* ServicesToDeploy: a service "is not advanced to the next upgrade step   *)
(* until the in-flight version is fully deployed".                         *)
InFlightHeld ==
    [][\A s \in Services :
         (spec[s].ver # NoVersion /\ spec'[s].ver \notin {spec[s].ver, NoVersion}) =>
           DeployedVersion(status, s) = spec[s].ver]_vars

(* verifyServiceStates: Status.Version means "verified on cluster", so a   *)
(* version enters the status while the cluster runs it.                    *)
ConfirmedIsRunning ==
    [][\A s \in Services :
         status'[s].ver \notin {status[s].ver, NoVersion} =>
           release[s].ver = status'[s].ver]_vars

(* The cluster itself walks the chain hop by hop, whatever the delay       *)
(* between spec, Profile, sveltos and status.                              *)
ClusterTakesEveryHop ==
    [][\A s \in Services :
         LET from == release[s].ver
             to   == release'[s].ver
         IN  (from # NoVersion /\ from < to) =>
               to \in UNION {Hop[from][des] : des \in Versions}]_vars

(* Of services that move together, a dependent never runs a newer version  *)
(* than anything it directly or transitively depends on: "upgrades         *)
(* propagate down the dependency chain in the declared order".  (Where     *)
(* the edits only raise versions.)                                         *)
DependentsNeverAhead ==
    \A s \in Services : \A d \in Dependencies(desired, s) :
       desired[s].ver = desired[d].ver => release[s].ver <= release[d].ver

(* "If upgrade is not available, keep the current stored version".         *)
UnavailableUpgradeHeld ==
    [][\A s \in Services :
         (/\ owner # Idle
          /\ owner.des[s].on /\ owner.des[s].chain
          /\ spec[s].ver # NoVersion
          /\ ~UpgradeAvailable(owner.des[s], spec[s].ver))
         => spec'[s].ver = spec[s].ver]_vars

RolledOut ==
    \A s \in Services :
       IF ~desired[s].on THEN spec[s] = NoEntry /\ release[s] = NoRelease
       ELSE \/ desired[s].disable
            \/ /\ AtDesiredVersion(desired, spec, status, s)
               /\ release[s].ver = desired[s].ver
               /\ release[s].vals = desired[s].vals

(* The rollout ends: after the last edit and the last fault every service  *)
(* runs at the desired version, is reported so, and stays so.              *)
Converges == <>[]RolledOut
=============================================================================
