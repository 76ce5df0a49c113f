-------------------------- MODULE ServiceSetProofs --------------------------
(***************************************************************************)
(* ServiceSet's type invariant, the two promises of the owner and two of   *)
(* the adapter, for any number of services, versions, edits and faults and *)
(* for any dependency graph, cyclic ones included.                         *)
(*                                                                         *)
(* The last section is about StatusPoller, the adapter's own source of     *)
(* events, which has variables of its own.                                 *)
(***************************************************************************)
EXTENDS ServiceSet, StatusPoller, FiniteSetTheorems, TLAPS

(* The entries that the operators of the model produce have their types.   *)
LEMMA EntryTypes ==
    /\ NoEntry \in SpecEntry
    /\ NoStatus \in StatusEntry
    /\ NoRelease \in Release
    /\ NoHash \in Nat \X Nat
  BY DEF NoEntry, SpecEntry, NoStatus, StatusEntry, NoRelease, Release, NoHash,
         NoVersion, ServiceStates

(* What BuildServicesList returns is a spec.                               *)
LEMMA BuildServicesListType ==
    ASSUME NEW des \in DesiredOf, NEW sp \in SpecOf, NEW st \in StatusOf,
           NEW target \in [Services -> Versions]
    PROVE  BuildServicesList(des, sp, st, target) \in SpecOf
  <1> SUFFICES ASSUME NEW s \in Services
               PROVE  BuildServicesList(des, sp, st, target)[s] \in SpecEntry
      BY DEF BuildServicesList, SpecOf
  <1>1. /\ des[s] \in Desired
        /\ sp[s] \in SpecEntry
        /\ target[s] \in Versions
      BY DEF DesiredOf, SpecOf
  <1>2. [sp[s] EXCEPT !.vals = des[s].vals] \in SpecEntry
      BY <1>1 DEF SpecEntry, Desired
  <1>3. [ver |-> target[s], vals |-> des[s].vals] \in SpecEntry
      BY <1>1 DEF SpecEntry, Desired
  <1>4. ServicesToDeploy(des, sp, st, s, target[s]) \in SpecEntry
      BY <1>1, <1>2, <1>3 DEF ServicesToDeploy
  <1> QED
      BY <1>1, <1>4, EntryTypes DEF BuildServicesList

(* The verifier turns a status entry into a status entry.                  *)
LEMMA ServiceHashType ==
    ASSUME TypeOK, NEW s \in Services
    PROVE  ComputeServiceHash(s) \in Nat \X Nat
  <1>1. release[s] \in Release
      BY DEF TypeOK
  <1>2. ChartsSeen[s] \in Versions \union {NoVersion}
    <2>1. CASE charts = NoCharts
        BY <1>1, <2>1 DEF ChartsSeen, Release
    <2>2. CASE charts # NoCharts
        BY <2>2 DEF ChartsSeen, TypeOK, ChartsOf
    <2> QED BY <2>1, <2>2
  <1>3. release[s].vals \in Nat
    <2>1. release[s].vals \in Values \union {0}
        BY <1>1 DEF Release
    <2>2. Values \union {0} \subseteq Nat
        BY ServiceSetAssumption
    <2> QED BY <2>1, <2>2, Zenon
  <1>4. CASE ChartsSeen[s] = NoVersion
      BY <1>4, EntryTypes DEF ComputeServiceHash
  <1>5. CASE ChartsSeen[s] # NoVersion
    <2>1. Chart[ChartsSeen[s]] \in Nat
        BY <1>2, <1>5, ServiceSetAssumption
    <2> QED BY <1>3, <2>1, EntryTypes DEF ComputeServiceHash
  <1> QED BY <1>4, <1>5

LEMMA VerifyServiceStateType ==
    ASSUME TypeOK, NEW st \in StatusEntry, NEW s \in Services,
           NEW version \in Versions \union {NoVersion}
    PROVE  VerifyServiceState(st, s, version) \in StatusEntry
  <1>1. ComputeServiceHash(s) \in Nat \X Nat
      BY ServiceHashType
  <1> QED
      BY <1>1 DEF VerifyServiceState, StatusEntry, ServiceStates

-----------------------------------------------------------------------------
(* Type correctness *)

LEMMA InitTypeOK == Init => TypeOK
  <1> SUFFICES ASSUME Init PROVE TypeOK
      OBVIOUS
  <1>1. desired \in DesiredOf
      BY ServiceSetAssumption DEF Init, DesiredOf
  <1>2. /\ spec \in SpecOf /\ profile \in SpecOf /\ want \in SpecOf
        /\ status \in StatusOf
        /\ release \in [Services -> Release]
      BY EntryTypes DEF Init, SpecOf, StatusOf
  <1>3. edits \in 0 .. MaxEdits /\ faults \in 0 .. MaxFaults
      BY ServiceSetAssumption DEF Init
  <1> QED
      BY <1>1, <1>2, <1>3 DEF Init, TypeOK, FeatureStates

LEMMA OwnerTypeOK ==
    TypeOK /\ (OwnerRead \/ OwnerWrite \/ UserEdit) => TypeOK'
  <1> SUFFICES ASSUME TypeOK, OwnerRead \/ OwnerWrite \/ UserEdit PROVE TypeOK'
      OBVIOUS
  <1>1. CASE OwnerRead
      BY <1>1 DEF TypeOK, OwnerRead, serviceSet, sveltos
  <1>2. CASE OwnerWrite
    <2>1. /\ owner.des \in DesiredOf
          /\ owner.spec \in SpecOf
          /\ owner.status \in StatusOf
        BY <1>2 DEF TypeOK, OwnerWrite
    <2>2. spec' \in SpecOf
        BY <1>2, <2>1, BuildServicesListType DEF OwnerWrite, TypeOK
    <2> QED
        BY <1>2, <2>2 DEF TypeOK, OwnerWrite, sveltos
  <1>3. CASE UserEdit
    <2>1. desired' \in DesiredOf
        BY <1>3, ServiceSetAssumption DEF UserEdit, DesiredOf
    <2>2. edits' \in 0 .. MaxEdits
        BY <1>3, ServiceSetAssumption DEF UserEdit, TypeOK
    <2> QED
        BY <1>3, <2>1, <2>2 DEF TypeOK, UserEdit, serviceSet, sveltos
  <1> QED BY <1>1, <1>2, <1>3

LEMMA AdapterTypeOK ==
    TypeOK /\ (\/ AdapterRead \/ AdapterEnsureProfile \/ AdapterCollect
               \/ AdapterVerify \/ AdapterFail \/ SweepClusterConfigCache) => TypeOK'
  <1> SUFFICES ASSUME TypeOK,
                      \/ AdapterRead \/ AdapterEnsureProfile \/ AdapterCollect
                      \/ AdapterVerify \/ AdapterFail \/ SweepClusterConfigCache
               PROVE  TypeOK'
      OBVIOUS
  <1>1. CASE AdapterRead
      BY <1>1 DEF TypeOK, AdapterRead, serviceSet, sveltos
  <1>2. CASE AdapterEnsureProfile
    <2>1. adapter \in [pc : {"ensure", "collect", "verify"}, spec : SpecOf,
                       read : StatusOf, status : StatusOf]
        BY <1>2 DEF TypeOK, AdapterEnsureProfile
    <2>2. [NoStatus EXCEPT !.state = "Provisioning"] \in StatusEntry
        BY EntryTypes DEF StatusEntry, ServiceStates
    <2>3. Seeded(adapter.spec, adapter.status) \in StatusOf
        BY <2>1, <2>2 DEF Seeded, StatusOf
    <2> QED
        BY <1>2, <2>1, <2>3 DEF TypeOK, AdapterEnsureProfile, serviceSet, sveltos
  <1>3. CASE AdapterCollect
    <2>1. adapter \in [pc : {"ensure", "collect", "verify"}, spec : SpecOf,
                       read : StatusOf, status : StatusOf]
        BY <1>3 DEF TypeOK, AdapterCollect
    <2>2. \A s \in Services : FeatureHelm(s) \in ServiceStates
        BY DEF FeatureHelm, ServiceStates
    <2>3. \A s \in Services :
            [adapter.status[s] EXCEPT !.state = FeatureHelm(s)] \in StatusEntry
        BY <2>1, <2>2 DEF StatusOf, StatusEntry
    <2>4. ServicesStateFromSummary(adapter.spec, adapter.status) \in StatusOf
        BY <2>3, EntryTypes DEF ServicesStateFromSummary, StatusOf
    <2> QED
        BY <1>3, <2>1, <2>4 DEF TypeOK, AdapterCollect, serviceSet, sveltos
  <1>4. CASE AdapterVerify
    <2>1. adapter \in [pc : {"ensure", "collect", "verify"}, spec : SpecOf,
                       read : StatusOf, status : StatusOf]
        BY <1>4 DEF TypeOK, AdapterVerify
    <2>2. \A s \in Services :
            VerifyServiceState(adapter.status[s], s, adapter.spec[s].ver) \in StatusEntry
        BY <2>1, VerifyServiceStateType DEF StatusOf, SpecOf, SpecEntry
    <2>3. status' \in StatusOf
        BY <1>4, <2>1, <2>2 DEF AdapterVerify, StatusOf, TypeOK
    <2>4. faults' \in 0 .. MaxFaults
        BY <1>4, ServiceSetAssumption DEF AdapterVerify, TypeOK
    <2>5. charts' \in {NoCharts} \union ChartsOf
        BY <1>4 DEF AdapterVerify, ChartsSeen, ChartsOf, TypeOK, Release
    <2> QED
        BY <1>4, <2>3, <2>4, <2>5 DEF TypeOK, AdapterVerify, sveltos
  <1>5. CASE SweepClusterConfigCache
      BY <1>5 DEF TypeOK, SweepClusterConfigCache, serviceSet, sveltos
  <1>6. CASE AdapterFail
    <2>1. adapter.status \in StatusOf
        BY <1>6 DEF TypeOK, AdapterFail
    <2>2. faults' \in 0 .. MaxFaults
        BY <1>6, ServiceSetAssumption DEF AdapterFail, TypeOK
    <2> QED
        BY <1>6, <2>1, <2>2 DEF TypeOK, AdapterFail, sveltos
  <1> QED BY <1>1, <1>2, <1>3, <1>4, <1>5, <1>6

LEMMA SveltosTypeOK ==
    ASSUME TypeOK,
           \/ SveltosObserve \/ SveltosRetry \/ SveltosFinish
           \/ \E s \in Services : \/ SveltosApply(s) \/ SveltosFail(s)
                                  \/ PodsReady(s) \/ PodsUnready(s)
    PROVE  TypeOK'
  <1>1. CASE SveltosObserve
    <2>1. release' \in [Services -> Release]
        BY <1>1, EntryTypes DEF SveltosObserve, TypeOK, Release
    <2> QED
        BY <1>1, <2>1 DEF TypeOK, SveltosObserve, serviceSet, FeatureStates
  <1>2. CASE SveltosRetry
    <2>1. release' \in [Services -> Release]
        BY <1>2 DEF SveltosRetry, TypeOK, Release
    <2> QED
        BY <1>2, <2>1 DEF TypeOK, SveltosRetry, serviceSet, FeatureStates
  <1>3. CASE SveltosFinish
      BY <1>3 DEF TypeOK, SveltosFinish, serviceSet, FeatureStates
  <1>4. ASSUME NEW s \in Services,
               \/ SveltosApply(s) \/ SveltosFail(s) \/ PodsReady(s) \/ PodsUnready(s)
        PROVE  TypeOK'
    <2>1. CASE SveltosApply(s)
      <3>1. want[s] \in SpecEntry
          BY DEF TypeOK, SpecOf
      <3>2. release' \in [Services -> Release]
          BY <2>1, <3>1 DEF SveltosApply, TypeOK, Release, SpecEntry
      <3> QED
          BY <2>1, <3>2 DEF TypeOK, SveltosApply, serviceSet
    <2>2. CASE SveltosFail(s)
      <3>1. release' \in [Services -> Release]
          BY <2>2 DEF SveltosFail, TypeOK, Release
      <3>2. faults' \in 0 .. MaxFaults
          BY <2>2, ServiceSetAssumption DEF SveltosFail, TypeOK
      <3> QED
          BY <2>2, <3>1, <3>2 DEF TypeOK, SveltosFail, serviceSet, FeatureStates
    <2>3. CASE PodsReady(s)
      <3>1. release' \in [Services -> Release]
          BY <2>3 DEF PodsReady, TypeOK, Release
      <3> QED
          BY <2>3, <3>1 DEF TypeOK, PodsReady, serviceSet
    <2>4. CASE PodsUnready(s)
      <3>1. release' \in [Services -> Release]
        <4>1. release' = [release EXCEPT ![s].ready = FALSE]
            BY <2>4 DEF PodsUnready
        <4>2. release \in [Services -> Release]
            BY DEF TypeOK, Release
        <4> QED BY <4>1, <4>2 DEF Release
      <3>2. faults' \in 0 .. MaxFaults
          BY <2>4, ServiceSetAssumption DEF PodsUnready, TypeOK
      <3> QED
          BY <2>4, <3>1, <3>2 DEF TypeOK, PodsUnready, serviceSet
    <2> QED BY <1>4, <2>1, <2>2, <2>3, <2>4
  <1> QED BY <1>1, <1>2, <1>3, <1>4

LEMMA NextTypeOK == TypeOK /\ [Next]_vars => TypeOK'
  <1> SUFFICES ASSUME TypeOK, [Next]_vars PROVE TypeOK'
      OBVIOUS
  <1>1. CASE UNCHANGED vars
      BY <1>1 DEF vars, serviceSet, sveltos, TypeOK
  <1>2. CASE Next
      BY <1>2, OwnerTypeOK, AdapterTypeOK, SveltosTypeOK DEF Next
  <1> QED BY <1>1, <1>2

(* Whatever the services, the templates, the edits and the faults, every   *)
(* variable keeps its type.                                                *)
THEOREM TypeCorrect == Spec => []TypeOK
  <1>1. Init => TypeOK
      BY InitTypeOK
  <1>2. TypeOK /\ [Next]_vars => TypeOK'
      BY NextTypeOK
  <1> QED
      BY <1>1, <1>2, PTL DEF Spec

-----------------------------------------------------------------------------
(* The promises of the owner *)

(* Only the owner's write changes the spec, and it writes what it computed *)
(* from the ServiceSet as it is.                                           *)
LEMMA SpecWriter ==
    ASSUME TypeOK, [Next]_vars
    PROVE  \/ UNCHANGED spec
           \/ /\ owner.des \in DesiredOf
              /\ DependenciesPresent(owner.des)
              /\ \E target \in [Services -> Versions] :
                   spec' = BuildServicesList(owner.des, spec, status, target)
  <1>1. CASE UNCHANGED vars
      BY <1>1 DEF vars, serviceSet
  <1>2. CASE OwnerWrite
      BY <1>2 DEF OwnerWrite, Unmodified, TypeOK
  <1>3. CASE \/ OwnerRead \/ UserEdit \/ AdapterRead \/ AdapterEnsureProfile
             \/ AdapterCollect \/ SweepClusterConfigCache
      BY <1>3 DEF OwnerRead, UserEdit, AdapterRead, AdapterEnsureProfile, AdapterCollect,
                  SweepClusterConfigCache, serviceSet
  <1>4. CASE AdapterVerify \/ AdapterFail
      BY <1>4 DEF AdapterVerify, AdapterFail
  <1>5. CASE SveltosObserve \/ SveltosRetry \/ SveltosFinish
      BY <1>5 DEF SveltosObserve, SveltosRetry, SveltosFinish, serviceSet
  <1>6. ASSUME NEW s \in Services,
               \/ SveltosApply(s) \/ SveltosFail(s) \/ PodsReady(s) \/ PodsUnready(s)
        PROVE  UNCHANGED spec
      BY <1>6 DEF SveltosApply, SveltosFail, PodsReady, PodsUnready, serviceSet
  <1> QED
      BY <1>1, <1>2, <1>3, <1>4, <1>5, <1>6 DEF Next

(* The fixpoint is closed under dependsOn and holds finished services      *)
(* only, whatever the dependency graph.                                    *)
LEMMA DeployedServicesClosed ==
    ASSUME NEW des, NEW sp, NEW st
    PROVE  /\ DeployedServices(des, sp, st) \subseteq Services
           /\ \A t \in DeployedServices(des, sp, st) :
                /\ AtDesiredVersion(des, sp, st, t)
                /\ des[t].deps \subseteq DeployedServices(des, sp, st)
  <1> DEFINE Closed == {S \in SUBSET DesiredKeys(des) :
                          \A s \in S : /\ AtDesiredVersion(des, sp, st, s)
                                       /\ des[s].deps \subseteq S}
  <1>1. DeployedServices(des, sp, st) = UNION Closed
      BY DEF DeployedServices
  <1>2. \A S \in Closed : S \subseteq Services
      BY DEF DesiredKeys
  <1>3. ASSUME NEW t \in UNION Closed
        PROVE  AtDesiredVersion(des, sp, st, t) /\ des[t].deps \subseteq UNION Closed
    <2>1. PICK S \in Closed : t \in S
        BY <1>3
    <2>2. AtDesiredVersion(des, sp, st, t) /\ des[t].deps \subseteq S
        BY <2>1
    <2> QED BY <2>1, <2>2
  <1> HIDE DEF Closed
  <1> QED BY <1>1, <1>2, <1>3

(* Every transitive dependency of an eligible service is finished.         *)
LEMMA EligibleDependencies ==
    ASSUME NEW des, NEW sp, NEW st,
           NEW s \in FilterServiceDependencies(des, sp, st),
           NEW d \in Dependencies(des, s)
    PROVE  AtDesiredVersion(des, sp, st, d)
  <1> DEFINE D == DeployedServices(des, sp, st)
  <1>1. D \in SUBSET Services /\ \A t \in D : des[t].deps \subseteq D
      BY DeployedServicesClosed
  <1>2. des[s].deps \subseteq D
      BY DEF FilterServiceDependencies
  <1>3. d \in D
      BY <1>1, <1>2 DEF Dependencies
  <1> QED BY <1>3, DeployedServicesClosed

(* No step adds, upgrades or mutates a service before everything that it   *)
(* directly or transitively depends on is finished.                        *)
THEOREM GateHolds == Spec => DependenciesFirst
  <1>1. ASSUME TypeOK, [Next]_vars, NEW s \in Services,
               spec'[s] # spec[s], spec'[s] # NoEntry,
               NEW d \in Dependencies(owner.des, s)
        PROVE  AtDesiredVersion(owner.des, spec, status, d)
    <2>1. PICK target \in [Services -> Versions] :
            spec' = BuildServicesList(owner.des, spec, status, target)
        BY <1>1, SpecWriter
    <2>2. s \in FilterServiceDependencies(owner.des, spec, status)
        BY <1>1, <2>1 DEF BuildServicesList
    <2> QED BY <2>2, EligibleDependencies
  <1>2. TypeOK /\ [Next]_vars =>
          \A s \in Services :
            (spec'[s] # spec[s] /\ spec'[s] # NoEntry) =>
              \A d \in Dependencies(owner.des, s) :
                AtDesiredVersion(owner.des, spec, status, d)
      BY <1>1
  <1> QED
      BY <1>2, TypeCorrect, PTL DEF Spec, DependenciesFirst

(* No step replaces the stored version of a service before that version is *)
(* reported Deployed.                                                      *)
THEOREM HoldHolds == Spec => InFlightHeld
  <1>1. ASSUME TypeOK, [Next]_vars, NEW s \in Services,
               spec[s].ver # NoVersion,
               spec'[s].ver \notin {spec[s].ver, NoVersion}
        PROVE  DeployedVersion(status, s) = spec[s].ver
    <2>1. PICK target \in [Services -> Versions] :
            spec' = BuildServicesList(owner.des, spec, status, target)
        BY <1>1, SpecWriter
    <2>2. spec[s] \in SpecEntry
        BY <1>1 DEF TypeOK, SpecOf
    <2>3. spec'[s].ver = spec[s].ver \/ spec'[s].ver = NoVersion \/ ~InFlight(spec, status, s)
        BY <2>1, <2>2 DEF BuildServicesList, ServicesToDeploy, NoEntry, SpecEntry
    <2> QED BY <1>1, <2>3 DEF InFlight
  <1>2. TypeOK /\ [Next]_vars =>
          \A s \in Services :
            (spec[s].ver # NoVersion /\ spec'[s].ver \notin {spec[s].ver, NoVersion}) =>
              DeployedVersion(status, s) = spec[s].ver
      BY <1>1
  <1> QED
      BY <1>2, TypeCorrect, PTL DEF Spec, InFlightHeld

-----------------------------------------------------------------------------
(* From the spec to the cluster.  One new version of a service travels at  *)
(* a time: spec, copy of the adapter, Profile, ClusterSummary, release and *)
(* cached chart have the version the status confirms or the one of the     *)
(* spec, and the later ones get the new version after the earlier ones.    *)

(* The user edits versions, dependencies, chains and what is disabled, but *)
(* neither values nor which services are listed.                           *)
OnlyVersionsMove ==
    \A d, e \in DesiredSpecs, s \in Services : d[s].vals = e[s].vals /\ d[s].on = e[s].on

(* Services follow a chain with a route from every version to every later  *)
(* one.                                                                    *)
RoutesExist ==
    /\ \A d \in DesiredSpecs, s \in Services : d[s].chain
    /\ \A cur, des \in Versions : cur < des => Hop[cur][des] # {}

SpecsInv ==
    /\ desired \in DesiredSpecs
    /\ owner # Idle => owner.des \in DesiredSpecs

OldNew(s) == {status[s].ver, spec[s].ver}

InPipe(s) ==
    /\ adapter # Idle => adapter.spec[s].ver \in OldNew(s)
    /\ profile[s].ver \in OldNew(s)
    /\ want[s].ver \in OldNew(s)
    /\ release[s].ver \in OldNew(s)
    /\ charts # NoCharts => charts[s] \in OldNew(s)

InTurn(s) ==
    LET new == spec[s].ver
    IN  /\ charts # NoCharts /\ charts[s] = new => release[s].ver = new
        /\ release[s].ver = new => want[s].ver = new
        /\ want[s].ver = new => profile[s].ver = new
        /\ profile[s].ver = new /\ adapter # Idle => adapter.spec[s].ver = new

(* Entries have the values the user asked for, from the beginning.         *)
Entered(e, s) == IF e.ver = NoVersion THEN e = NoEntry ELSE e.vals = desired[s].vals

ValuesInv(s) ==
    /\ Entered(spec[s], s) /\ Entered(profile[s], s) /\ Entered(want[s], s)
    /\ adapter # Idle => Entered(adapter.spec[s], s)
    /\ release[s].ver # NoVersion => release[s].vals = desired[s].vals

(* The hash is that of the confirmed version.                              *)
HashOf(s, v) == IF v = NoVersion THEN NoHash ELSE <<Chart[v], desired[s].vals>>

StampInv(s) ==
    /\ status[s].hash = HashOf(s, status[s].ver)
    /\ spec[s].ver = NoVersion => status[s].ver = NoVersion
    /\ spec[s].ver # NoVersion => desired[s].on
    /\ adapter # Idle => /\ adapter.status[s].ver = adapter.read[s].ver
                         /\ adapter.status[s].hash = adapter.read[s].hash
                         /\ adapter.spec[s].ver = NoVersion =>
                              adapter.read[s].ver = NoVersion /\ adapter.read[s].hash = NoHash

PipeInv     == \A s \in Services : InPipe(s) /\ InTurn(s) /\ ValuesInv(s) /\ StampInv(s)
RolloutIInv == TypeOK /\ SpecsInv /\ PipeInv

(* The copies of a reconcile of the adapter.                               *)
LEMMA AdapterCopies ==
    ASSUME TypeOK, adapter # Idle
    PROVE  /\ adapter \in [pc : {"ensure", "collect", "verify"}, spec : SpecOf,
                           read : StatusOf, status : StatusOf]
           /\ adapter.spec \in SpecOf /\ adapter.read \in StatusOf /\ adapter.status \in StatusOf
           /\ \A s \in Services : /\ adapter.spec[s] \in SpecEntry
                                  /\ adapter.read[s] \in StatusEntry
                                  /\ adapter.status[s] \in StatusEntry
  <1>1. adapter \in [pc : {"ensure", "collect", "verify"}, spec : SpecOf,
                     read : StatusOf, status : StatusOf]
      BY DEF TypeOK
  <1> QED
      BY <1>1 DEF SpecOf, StatusOf

LEMMA VersionNat ==
    ASSUME NEW v \in Versions \union {NoVersion}
    PROVE  v \in Nat
  <1>1. CASE v = NoVersion
      BY <1>1 DEF NoVersion
  <1>2. CASE v \in Versions
      BY <1>2, ServiceSetAssumption
  <1> QED BY <1>1, <1>2

LEMMA PipeInit == Init => SpecsInv /\ PipeInv
  <1> SUFFICES ASSUME Init PROVE SpecsInv /\ PipeInv
      OBVIOUS
  <1>1. SpecsInv
      BY DEF Init, SpecsInv
  <1>2. ASSUME NEW s \in Services
        PROVE  InPipe(s) /\ InTurn(s) /\ ValuesInv(s) /\ StampInv(s)
      BY DEF Init, InPipe, InTurn, ValuesInv, StampInv, Entered, OldNew, HashOf,
             NoEntry, NoStatus, NoRelease, NoVersion
  <1> QED
      BY <1>1, <1>2 DEF PipeInv

(* A new version enters the spec when the one before is everywhere.        *)
LEMMA OwnerPipe ==
    ASSUME OnlyVersionsMove, RolloutIInv, OwnerRead \/ OwnerWrite \/ UserEdit
    PROVE  SpecsInv' /\ PipeInv'
  <1>t. TypeOK /\ SpecsInv /\ PipeInv
      BY DEF RolloutIInv
  <1>1. CASE OwnerRead
    <2>1. UNCHANGED <<desired, spec, status, adapter, charts, profile, want, release>>
        BY <1>1 DEF OwnerRead, serviceSet, sveltos
    <2>2. SpecsInv'
        BY <1>t, <1>1, <2>1 DEF OwnerRead, SpecsInv
    <2>3. PipeInv'
        BY <1>t, <2>1 DEF PipeInv, InPipe, InTurn, ValuesInv, StampInv, Entered, OldNew, HashOf
    <2> QED BY <2>2, <2>3
  <1>2. CASE UserEdit
    <2>1. /\ UNCHANGED <<spec, status, owner, adapter, charts, profile, want, release>>
          /\ desired' \in DesiredSpecs
        BY <1>2 DEF UserEdit, serviceSet, sveltos
    <2>2. \A s \in Services : desired'[s].vals = desired[s].vals /\ desired'[s].on = desired[s].on
        BY <1>t, <2>1 DEF SpecsInv, OnlyVersionsMove
    <2>3. SpecsInv'
        BY <1>t, <2>1 DEF SpecsInv
    <2>4. PipeInv'
        BY <1>t, <2>1, <2>2
           DEF PipeInv, InPipe, InTurn, ValuesInv, StampInv, Entered, OldNew, HashOf
    <2> QED BY <2>3, <2>4
  <1>3. CASE OwnerWrite
    <2>1. /\ UNCHANGED <<desired, status, adapter, charts, profile, want, release>>
          /\ owner' = Idle
        BY <1>3 DEF OwnerWrite, sveltos
    <2>2. SpecsInv'
        BY <1>t, <2>1 DEF SpecsInv
    <2>3. CASE UNCHANGED spec
      <3>1. PipeInv'
          BY <1>t, <2>1, <2>3
             DEF PipeInv, InPipe, InTurn, ValuesInv, StampInv, Entered, OldNew, HashOf
      <3> QED BY <2>2, <3>1
    <2>4. ASSUME NEW target \in [Services -> Versions],
                 spec' = BuildServicesList(owner.des, spec, status, target),
                 owner # Idle, NEW s \in Services
          PROVE  (InPipe(s) /\ InTurn(s) /\ ValuesInv(s) /\ StampInv(s))'
      <3>1. owner.des[s].vals = desired[s].vals /\ owner.des[s].on = desired[s].on
          BY <1>t, <2>4 DEF SpecsInv, OnlyVersionsMove
      <3>2. InPipe(s) /\ InTurn(s) /\ ValuesInv(s) /\ StampInv(s)
          BY <1>t DEF PipeInv
      <3>3. spec[s] \in SpecEntry /\ target[s] \in Versions /\ NoVersion \notin Versions
          BY <1>t, <2>4, ServiceSetAssumption DEF TypeOK, SpecOf, NoVersion
      <3>4. spec'[s] \in {spec[s], NoEntry, [spec[s] EXCEPT !.vals = desired[s].vals],
                          [ver |-> target[s], vals |-> desired[s].vals]}
          BY <2>4, <3>1 DEF BuildServicesList, ServicesToDeploy
      <3>5. /\ spec'[s].ver = NoVersion => spec[s].ver = NoVersion
            /\ spec'[s].ver # spec[s].ver => /\ spec[s].ver = status[s].ver /\ desired[s].on
                                             /\ spec'[s].ver # NoVersion
            /\ Entered(spec[s], s)' /\ spec'[s].ver \in Versions \union {NoVersion}
        <4>1. CASE ~owner.des[s].on
          <5>1. spec'[s] = NoEntry /\ spec[s].ver = NoVersion
              BY <2>4, <3>1, <3>2, <4>1 DEF BuildServicesList, StampInv
          <5> QED BY <5>1 DEF Entered, NoEntry
        <4>2. CASE spec'[s] = spec[s] /\ owner.des[s].on
            BY <2>1, <3>2, <3>3, <4>2 DEF Entered, ValuesInv, SpecEntry
        <4>3. CASE InFlight(spec, status, s) /\ spec'[s] = [spec[s] EXCEPT !.vals = desired[s].vals]
            BY <2>1, <3>3, <4>3 DEF Entered, InFlight, SpecEntry
        <4>4. CASE /\ ~InFlight(spec, status, s) /\ owner.des[s].on
                   /\ spec'[s] = [ver |-> target[s], vals |-> desired[s].vals]
          <5>1. spec[s].ver = status[s].ver
              BY <3>2, <4>4 DEF InFlight, DeployedVersion, StampInv
          <5> QED BY <2>1, <3>1, <3>3, <4>4, <5>1 DEF Entered
        <4> QED
            BY <2>4, <3>1, <4>1, <4>2, <4>3, <4>4 DEF BuildServicesList, ServicesToDeploy
      <3>6. CASE spec'[s].ver = spec[s].ver
          BY <2>1, <3>2, <3>5, <3>6
             DEF InPipe, InTurn, ValuesInv, StampInv, Entered, OldNew, HashOf
      <3>7. CASE spec'[s].ver # spec[s].ver
        <4>1. /\ adapter # Idle => adapter.spec[s].ver = status[s].ver
              /\ profile[s].ver = status[s].ver /\ want[s].ver = status[s].ver
              /\ release[s].ver = status[s].ver
              /\ charts # NoCharts => charts[s] = status[s].ver
            BY <3>2, <3>5, <3>7 DEF InPipe, OldNew
        <4>2. spec'[s].ver # status[s].ver
            BY <3>5, <3>7
        <4>3. InPipe(s)'
            BY <2>1, <4>1 DEF InPipe, OldNew
        <4>4. InTurn(s)'
            BY <2>1, <4>1, <4>2 DEF InTurn
        <4>5. ValuesInv(s)' /\ StampInv(s)'
            BY <2>1, <3>2, <3>5, <3>7 DEF ValuesInv, StampInv, Entered, HashOf
        <4> QED BY <4>3, <4>4, <4>5
      <3> QED BY <3>6, <3>7
    <2>5. \/ UNCHANGED spec
          \/ /\ owner # Idle
             /\ \E target \in [Services -> Versions] :
                  spec' = BuildServicesList(owner.des, spec, status, target)
        BY <1>3 DEF OwnerWrite, Unmodified
    <2> QED
        BY <2>2, <2>3, <2>4, <2>5 DEF PipeInv
  <1> QED BY <1>1, <1>2, <1>3

(* The stamp: a hash that moved is that of the version on the cluster,     *)
(* which is then the version of the spec.                                  *)
LEMMA StampedVersion ==
    ASSUME RolloutIInv, adapter # Idle, Unmodified(adapter.spec, adapter.read),
           NEW s \in Services, NEW st,
           st = VerifyServiceState(adapter.status[s], s, adapter.spec[s].ver)
    PROVE  \/ st.ver = status[s].ver /\ st.hash = status[s].hash
           \/ /\ st.ver = spec[s].ver /\ st.hash = HashOf(s, st.ver)
              /\ release[s].ver = spec[s].ver /\ ChartsSeen[s] = spec[s].ver
              /\ spec[s].ver # NoVersion
  <1>t. /\ TypeOK /\ InPipe(s) /\ InTurn(s) /\ ValuesInv(s) /\ StampInv(s)
        /\ adapter.spec = spec /\ adapter.read = status
      BY DEF RolloutIInv, PipeInv, Unmodified
  <1>1. /\ adapter.status[s] \in StatusEntry /\ status[s] \in StatusEntry
        /\ release[s] \in Release /\ spec[s] \in SpecEntry
      BY <1>t, AdapterCopies DEF TypeOK, StatusOf, SpecOf
  <1>2. adapter.status[s].ver = status[s].ver /\ adapter.status[s].hash = status[s].hash
      BY <1>t DEF StampInv
  <1>3. CASE st.ver = adapter.status[s].ver /\ st.hash = adapter.status[s].hash
      BY <1>2, <1>3
  <1>4. CASE /\ st.ver = adapter.spec[s].ver /\ st.hash = ComputeServiceHash(s)
             /\ ComputeServiceHash(s) \notin {NoHash, adapter.status[s].hash}
    <2>1. ChartsSeen[s] # NoVersion
        BY <1>4 DEF ComputeServiceHash
    <2>2. ChartsSeen[s] \in OldNew(s) /\ (ChartsSeen[s] = spec[s].ver => release[s].ver = spec[s].ver)
      <3>1. CASE charts # NoCharts
          BY <1>t, <3>1 DEF ChartsSeen, InPipe, InTurn
      <3>2. CASE charts = NoCharts
          BY <1>t, <3>2 DEF ChartsSeen, InPipe
      <3> QED BY <3>1, <3>2
    <2>3. release[s].ver # NoVersion
      <3>1. CASE ChartsSeen[s] = spec[s].ver
          BY <2>1, <2>2, <3>1
      <3>2. CASE ChartsSeen[s] = status[s].ver
        <4>1. status[s].ver # NoVersion /\ spec[s].ver # NoVersion
            BY <1>t, <2>1, <3>2 DEF StampInv
        <4> QED BY <1>t, <4>1 DEF InPipe, OldNew
      <3> QED BY <2>2, <3>1, <3>2 DEF OldNew
    <2>4. ComputeServiceHash(s) = HashOf(s, ChartsSeen[s])
        BY <1>t, <1>4, <2>1, <2>3 DEF ComputeServiceHash, HashOf, ValuesInv
    <2>5. ChartsSeen[s] # status[s].ver
        BY <1>t, <1>2, <1>4, <2>4 DEF StampInv
    <2> QED BY <1>t, <1>4, <2>1, <2>2, <2>4, <2>5 DEF OldNew
  <1>5. \/ st.ver = adapter.status[s].ver /\ st.hash = adapter.status[s].hash
        \/ /\ st.ver = adapter.spec[s].ver /\ st.hash = ComputeServiceHash(s)
           /\ ComputeServiceHash(s) \notin {NoHash, adapter.status[s].hash}
      BY <1>1 DEF VerifyServiceState, StatusEntry
  <1> QED BY <1>3, <1>4, <1>5

LEMMA AdapterPipe ==
    ASSUME RolloutIInv,
           \/ AdapterRead \/ AdapterEnsureProfile \/ AdapterCollect
           \/ AdapterVerify \/ AdapterFail \/ SweepClusterConfigCache
    PROVE  SpecsInv' /\ PipeInv'
  <1>t. TypeOK /\ SpecsInv /\ PipeInv
      BY DEF RolloutIInv
  <1>u. UNCHANGED <<desired, spec, owner, want, release>>
      BY DEF AdapterRead, AdapterEnsureProfile, AdapterCollect, AdapterVerify, AdapterFail,
             SweepClusterConfigCache, serviceSet, sveltos
  <1>v. SpecsInv'
      BY <1>t, <1>u DEF SpecsInv
  <1> SUFFICES ASSUME NEW s \in Services
               PROVE  (InPipe(s) /\ InTurn(s) /\ ValuesInv(s) /\ StampInv(s))'
      BY <1>v DEF PipeInv
  <1>s. InPipe(s) /\ InTurn(s) /\ ValuesInv(s) /\ StampInv(s)
      BY <1>t DEF PipeInv
  <1>1. CASE AdapterRead
    <2>1. /\ UNCHANGED <<status, charts, profile>>
          /\ adapter' = [pc |-> "ensure", spec |-> spec, read |-> status, status |-> status]
        BY <1>1 DEF AdapterRead, serviceSet
    <2> QED
        BY <1>s, <1>u, <2>1
           DEF InPipe, InTurn, ValuesInv, StampInv, Entered, OldNew, HashOf
  <1>2. CASE AdapterEnsureProfile
    <2>1. /\ UNCHANGED <<status, charts>> /\ adapter # Idle /\ adapter' # Idle
          /\ profile' = adapter.spec
          /\ adapter'.spec = adapter.spec /\ adapter'.read = adapter.read
          /\ adapter'.status = Seeded(adapter.spec, adapter.status)
        BY <1>t, <1>2, AdapterCopies DEF AdapterEnsureProfile, serviceSet, Idle
    <2>2. /\ adapter'.status[s].ver = adapter.status[s].ver
          /\ adapter'.status[s].hash = adapter.status[s].hash
        BY <2>1 DEF Seeded, NoStatus
    <2> QED
        BY <1>s, <1>u, <2>1, <2>2
           DEF InPipe, InTurn, ValuesInv, StampInv, Entered, OldNew, HashOf
  <1>3. CASE AdapterCollect
    <2>1. /\ UNCHANGED <<status, charts, profile>> /\ adapter # Idle /\ adapter' # Idle
          /\ adapter'.spec = adapter.spec /\ adapter'.read = adapter.read
          /\ adapter'.status \in {adapter.status,
                                  ServicesStateFromSummary(adapter.spec, adapter.status)}
        BY <1>t, <1>3, AdapterCopies DEF AdapterCollect, serviceSet, Idle
    <2>2. adapter.status[s] \in StatusEntry
        BY <1>t, <2>1, AdapterCopies
    <2>3. adapter.spec[s] = NoEntry =>
            /\ adapter.read[s].ver = NoVersion /\ adapter.read[s].hash = NoHash
        BY <1>s, <2>1 DEF StampInv, NoEntry
    <2>4. /\ adapter'.status[s].ver = adapter.read[s].ver
          /\ adapter'.status[s].hash = adapter.read[s].hash
        BY <1>s, <2>1, <2>2, <2>3 DEF ServicesStateFromSummary, NoStatus, StatusEntry, StampInv
    <2> QED
        BY <1>s, <1>u, <2>1, <2>4
           DEF InPipe, InTurn, ValuesInv, StampInv, Entered, OldNew, HashOf
  <1>4. CASE AdapterFail
    <2>1. UNCHANGED <<charts, profile>> /\ adapter # Idle /\ adapter' = Idle
        BY <1>4 DEF AdapterFail
    <2>2. status'[s].ver = status[s].ver /\ status'[s].hash = status[s].hash
        BY <1>s, <1>4 DEF AdapterFail, Unmodified, StampInv
    <2> QED
        BY <1>s, <1>u, <2>1, <2>2
           DEF InPipe, InTurn, ValuesInv, StampInv, Entered, OldNew, HashOf
  <1>5. CASE SweepClusterConfigCache
    <2>1. UNCHANGED <<status, adapter, profile>> /\ charts' = NoCharts
        BY <1>5 DEF SweepClusterConfigCache, serviceSet
    <2> QED
        BY <1>s, <1>u, <2>1
           DEF InPipe, InTurn, ValuesInv, StampInv, Entered, OldNew, HashOf
  <1>6. CASE AdapterVerify
    <2>1. /\ profile' = profile /\ adapter # Idle /\ adapter' = Idle
          /\ charts' \in {charts, ChartsSeen}
        BY <1>6 DEF AdapterVerify
    <2>2. charts' # NoCharts => charts'[s] \in {ChartsSeen[s]}
        BY <2>1 DEF ChartsSeen
    <2>3. /\ ChartsSeen[s] \in OldNew(s)
          /\ ChartsSeen[s] = spec[s].ver => release[s].ver = spec[s].ver
        BY <1>s DEF ChartsSeen, InPipe, InTurn
    <2>4. \/ status'[s].ver = status[s].ver /\ status'[s].hash = status[s].hash
          \/ /\ status'[s].ver = spec[s].ver /\ status'[s].hash = HashOf(s, status'[s].ver)
             /\ release[s].ver = spec[s].ver /\ ChartsSeen[s] = spec[s].ver
             /\ spec[s].ver # NoVersion
      <3>1. CASE status' = status
          BY <3>1
      <3>2. CASE /\ Unmodified(adapter.spec, adapter.read)
                 /\ status'[s] \in {adapter.status[s],
                                   VerifyServiceState(adapter.status[s], s, adapter.spec[s].ver)}
          BY <1>s, <2>1, <3>2, StampedVersion DEF StampInv, Unmodified
      <3> QED
          BY <1>6, <3>1, <3>2 DEF AdapterVerify
    <2>5. CASE status'[s].ver = status[s].ver /\ status'[s].hash = status[s].hash
        BY <1>s, <1>u, <2>1, <2>2, <2>3, <2>5
           DEF InPipe, InTurn, ValuesInv, StampInv, Entered, OldNew, HashOf
    <2>6. CASE /\ status'[s].ver = spec[s].ver /\ status'[s].hash = HashOf(s, status'[s].ver)
               /\ release[s].ver = spec[s].ver /\ ChartsSeen[s] = spec[s].ver
               /\ spec[s].ver # NoVersion
        BY <1>s, <1>u, <2>1, <2>2, <2>6
           DEF InPipe, InTurn, ValuesInv, StampInv, Entered, OldNew, HashOf
    <2> QED BY <2>4, <2>5, <2>6
  <1> QED BY <1>1, <1>2, <1>3, <1>4, <1>5, <1>6

LEMMA SveltosPipe ==
    ASSUME RolloutIInv,
           \/ SveltosObserve \/ SveltosRetry \/ SveltosFinish
           \/ \E s \in Services : \/ SveltosApply(s) \/ SveltosFail(s)
                                  \/ PodsReady(s) \/ PodsUnready(s)
    PROVE  SpecsInv' /\ PipeInv'
  <1>t. TypeOK /\ SpecsInv /\ PipeInv
      BY DEF RolloutIInv
  <1>u. UNCHANGED <<desired, spec, status, owner, adapter, charts, profile>>
      BY DEF SveltosObserve, SveltosRetry, SveltosFinish, SveltosApply, SveltosFail,
             PodsReady, PodsUnready, serviceSet
  <1>v. SpecsInv'
      BY <1>t, <1>u DEF SpecsInv
  <1> SUFFICES ASSUME NEW s \in Services
               PROVE  (InPipe(s) /\ InTurn(s) /\ ValuesInv(s) /\ StampInv(s))'
      BY <1>v DEF PipeInv
  <1>s. /\ InPipe(s) /\ InTurn(s) /\ ValuesInv(s) /\ StampInv(s)
        /\ release[s] \in Release /\ release \in [Services -> Release]
        /\ want[s] \in SpecEntry /\ profile[s] \in SpecEntry
      BY <1>t DEF PipeInv, TypeOK, SpecOf
  <1>1. CASE SveltosObserve
    <2>1. /\ want' = profile
          /\ release'[s] = IF profile[s] = NoEntry THEN NoRelease
                           ELSE [release[s] EXCEPT !.failed = FALSE]
        BY <1>1 DEF SveltosObserve
    <2>2. /\ release'[s].vals = release[s].vals \/ release'[s].ver = NoVersion
          /\ release'[s].ver = release[s].ver
      <3>1. CASE profile[s] # NoEntry
          BY <1>s, <2>1, <3>1 DEF Release
      <3>2. CASE profile[s] = NoEntry
        <4>1. profile[s].ver = NoVersion /\ release'[s].ver = NoVersion
            BY <2>1, <3>2 DEF NoEntry, NoRelease
        <4>2. release[s].ver = NoVersion
            BY <1>s, <4>1 DEF InPipe, InTurn, OldNew, StampInv
        <4> QED BY <4>1, <4>2
      <3> QED BY <3>1, <3>2
    <2> QED
        BY <1>s, <1>u, <2>1, <2>2
           DEF InPipe, InTurn, ValuesInv, StampInv, Entered, OldNew, HashOf
  <1>2. ASSUME SveltosApply(s) PROVE (InPipe(s) /\ InTurn(s) /\ ValuesInv(s) /\ StampInv(s))'
    <2>1. /\ want' = want
          /\ release'[s].ver = want[s].ver /\ release'[s].vals = want[s].vals
        BY <1>s, <1>2 DEF SveltosApply
    <2> QED
        BY <1>s, <1>u, <2>1
           DEF InPipe, InTurn, ValuesInv, StampInv, Entered, OldNew, HashOf
  <1>3. CASE /\ want' = want
             /\ release'[s].ver = release[s].ver /\ release'[s].vals = release[s].vals
      BY <1>s, <1>u, <1>3 DEF InPipe, InTurn, ValuesInv, StampInv, Entered, OldNew, HashOf
  <1>4. CASE SveltosRetry \/ SveltosFinish
      BY <1>s, <1>3, <1>4 DEF SveltosRetry, SveltosFinish, Release
  <1>5. ASSUME NEW t \in Services, t # s, SveltosApply(t)
        PROVE  /\ want' = want
               /\ release'[s].ver = release[s].ver /\ release'[s].vals = release[s].vals
      BY <1>s, <1>5 DEF SveltosApply
  <1>6. ASSUME NEW t \in Services, SveltosFail(t) \/ PodsReady(t) \/ PodsUnready(t)
        PROVE  /\ want' = want
               /\ release'[s].ver = release[s].ver /\ release'[s].vals = release[s].vals
    <2>1. release[t] \in Release
        BY <1>s
    <2> QED
        BY <1>s, <1>6, <2>1 DEF SveltosFail, PodsReady, PodsUnready, Release
  <1> QED BY <1>1, <1>2, <1>3, <1>4, <1>5, <1>6

LEMMA PipeInductive ==
    ASSUME OnlyVersionsMove
    PROVE  RolloutIInv /\ [Next]_vars => RolloutIInv'
  <1> SUFFICES ASSUME RolloutIInv, [Next]_vars PROVE RolloutIInv'
      OBVIOUS
  <1>1. TypeOK'
      BY NextTypeOK DEF RolloutIInv
  <1>2. CASE UNCHANGED vars
    <2>1. UNCHANGED <<desired, spec, status, owner, adapter, charts, profile, want, release>>
        BY <1>2 DEF vars, serviceSet, sveltos
    <2>2. SpecsInv' /\ PipeInv'
        BY <2>1 DEF RolloutIInv, SpecsInv, PipeInv, InPipe, InTurn, ValuesInv, StampInv,
                    Entered, OldNew, HashOf
    <2> QED BY <1>1, <2>2 DEF RolloutIInv
  <1>3. CASE Next
      BY <1>1, <1>3, OwnerPipe, AdapterPipe, SveltosPipe DEF Next, RolloutIInv
  <1> QED BY <1>2, <1>3

(* A version that enters the status comes from the verifier.               *)
LEMMA StatusWriter ==
    ASSUME RolloutIInv, [Next]_vars, NEW s \in Services, status'[s].ver # status[s].ver
    PROVE  /\ AdapterVerify /\ adapter # Idle /\ Unmodified(adapter.spec, adapter.read)
           /\ status'[s] = VerifyServiceState(adapter.status[s], s, adapter.spec[s].ver)
  <1>1. status' # status
      OBVIOUS
  <1>2. adapter # Idle => adapter.status[s].ver = adapter.read[s].ver
      BY DEF RolloutIInv, PipeInv, StampInv
  <1>3. AdapterVerify \/ AdapterFail
      BY <1>1 DEF Next, vars, serviceSet, OwnerRead, OwnerWrite, UserEdit, AdapterRead,
                  AdapterEnsureProfile, AdapterCollect, SweepClusterConfigCache,
                  SveltosObserve, SveltosRetry, SveltosFinish, SveltosApply, SveltosFail,
                  PodsReady, PodsUnready
  <1>4. CASE AdapterFail
      BY <1>1, <1>2, <1>4 DEF AdapterFail, Unmodified
  <1>5. CASE AdapterVerify
    <2>1. /\ adapter # Idle /\ Unmodified(adapter.spec, adapter.read)
          /\ status'[s] \in {adapter.status[s],
                             VerifyServiceState(adapter.status[s], s, adapter.spec[s].ver)}
        BY <1>1, <1>5 DEF AdapterVerify
    <2> QED BY <1>2, <1>5, <2>1 DEF Unmodified
  <1> QED BY <1>3, <1>4, <1>5

(* verifyServiceStates stamps a version only while the cluster runs it, in *)
(* spite of a cached ClusterConfiguration, a ClusterSummary that is behind *)
(* and a spec that moved, as long as users change versions but not values  *)
(* and remove no services.                                                 *)
THEOREM StampHolds ==
    ASSUME OnlyVersionsMove
    PROVE  Spec => ConfirmedIsRunning
  <1>1. Init => RolloutIInv
      BY InitTypeOK, PipeInit DEF RolloutIInv
  <1>2. RolloutIInv /\ [Next]_vars => RolloutIInv'
      BY PipeInductive
  <1>3. ASSUME RolloutIInv, [Next]_vars, NEW s \in Services,
               status'[s].ver \notin {status[s].ver, NoVersion}
        PROVE  release[s].ver = status'[s].ver
      BY <1>3, StatusWriter, StampedVersion
  <1>4. RolloutIInv /\ [Next]_vars =>
          \A s \in Services :
            status'[s].ver \notin {status[s].ver, NoVersion} => release[s].ver = status'[s].ver
      BY <1>3
  <1> QED
      BY <1>1, <1>2, <1>4, PTL DEF Spec, ConfirmedIsRunning

(* A release gets another version only by an apply, and that is the one    *)
(* the ClusterSummary asks for.                                            *)
LEMMA ReleaseWriter ==
    ASSUME RolloutIInv, [Next]_vars, NEW s \in Services
    PROVE  release'[s].ver \in {release[s].ver, want[s].ver}
  <1>s. /\ InPipe(s) /\ InTurn(s) /\ StampInv(s)
        /\ release \in [Services -> Release] /\ release[s] \in Release
      BY DEF RolloutIInv, PipeInv, TypeOK
  <1>1. \/ UNCHANGED release
        \/ SveltosObserve \/ SveltosRetry
        \/ \E t \in Services : \/ SveltosApply(t) \/ SveltosFail(t)
                               \/ PodsReady(t) \/ PodsUnready(t)
      BY DEF Next, vars, sveltos, OwnerRead, OwnerWrite, UserEdit, AdapterRead,
             AdapterEnsureProfile, AdapterCollect, AdapterVerify, AdapterFail,
             SweepClusterConfigCache, SveltosFinish
  <1>2. CASE SveltosObserve
    <2>1. CASE profile[s] # NoEntry
        BY <1>s, <1>2, <2>1 DEF SveltosObserve, Release
    <2>2. CASE profile[s] = NoEntry
      <3>1. profile[s].ver = NoVersion /\ release'[s].ver = NoVersion
          BY <1>2, <2>2 DEF SveltosObserve, NoEntry, NoRelease
      <3>2. release[s].ver = NoVersion
          BY <1>s, <3>1 DEF InPipe, InTurn, OldNew, StampInv
      <3> QED BY <3>1, <3>2
    <2> QED BY <2>1, <2>2
  <1>3. CASE SveltosRetry
      BY <1>s, <1>3 DEF SveltosRetry, Release
  <1>4. ASSUME NEW t \in Services, SveltosFail(t) \/ PodsReady(t) \/ PodsUnready(t)
        PROVE  release'[s].ver = release[s].ver
    <2>1. release[t] \in Release
        BY <1>s
    <2> QED BY <1>s, <1>4, <2>1 DEF SveltosFail, PodsReady, PodsUnready, Release
  <1>5. ASSUME NEW t \in Services, SveltosApply(t)
        PROVE  release'[s].ver \in {release[s].ver, want[s].ver}
      BY <1>s, <1>5 DEF SveltosApply
  <1> QED BY <1>1, <1>2, <1>3, <1>4, <1>5

(* A new version that travels is a hop from the one that is confirmed.     *)
IsHop(from, to) == to \in UNION {Hop[from][des] : des \in Versions}

HopInv ==
    \A s \in Services :
       (status[s].ver # NoVersion /\ status[s].ver < spec[s].ver) =>
          IsHop(status[s].ver, spec[s].ver)

(* The version nextUpgradeStep leads to is a hop or a downgrade.           *)
LEMMA TargetIsHop ==
    ASSUME RoutesExist, NEW des \in DesiredSpecs, NEW s \in Services, NEW cur \in Versions,
           NEW to \in TargetVersions(des[s], cur), cur < to
    PROVE  IsHop(cur, to)
  <1>1. des[s].chain /\ des[s].ver \in Versions /\ cur \in Nat /\ des[s].ver \in Nat
      BY ServiceSetAssumption DEF RoutesExist, Desired
  <1>2. NextUpgradeStep(des[s], cur) = Hop[cur][des[s].ver]
      BY <1>1 DEF NextUpgradeStep
  <1>3. CASE Hop[cur][des[s].ver] = {}
    <2>1. to = des[s].ver /\ ~(cur < des[s].ver)
        BY <1>1, <1>2, <1>3 DEF TargetVersions, RoutesExist
    <2> QED BY <2>1
  <1>4. CASE Hop[cur][des[s].ver] # {}
    <2>1. to \in Hop[cur][des[s].ver]
      <3>1. cur # NoVersion /\ UpgradeAvailable(des[s], cur)
          BY <1>2, <1>4, ServiceSetAssumption DEF NoVersion, UpgradeAvailable
      <3> QED BY <1>2, <1>4, <3>1 DEF TargetVersions
    <2> QED BY <1>1, <2>1 DEF IsHop
  <1> QED BY <1>3, <1>4

LEMMA HopInductive ==
    ASSUME RoutesExist, RolloutIInv, HopInv, [Next]_vars
    PROVE  HopInv'
  <1> SUFFICES ASSUME NEW s \in Services,
                      status'[s].ver # NoVersion, status'[s].ver < spec'[s].ver
               PROVE  IsHop(status'[s].ver, spec'[s].ver)
      BY DEF HopInv, IsHop
  <1>t. /\ TypeOK /\ StampInv(s) /\ spec[s] \in SpecEntry /\ status[s] \in StatusEntry
        /\ NoVersion \notin Versions
      BY ServiceSetAssumption DEF RolloutIInv, PipeInv, TypeOK, SpecOf, StatusOf, NoVersion
  <1>1. CASE spec' = spec
    <2>1. CASE status'[s].ver = status[s].ver
        BY <1>1, <2>1 DEF HopInv
    <2>2. CASE status'[s].ver # status[s].ver
      <3>1. status'[s].ver = spec[s].ver
          BY <2>2, StatusWriter, StampedVersion
      <3>2. spec[s].ver \in Nat
          BY <1>t, VersionNat DEF SpecEntry
      <3> QED BY <1>1, <3>1, <3>2
    <2> QED BY <2>1, <2>2
  <1>2. CASE spec' # spec
    <2>1. OwnerWrite
        BY <1>2 DEF Next, vars, serviceSet, OwnerRead, UserEdit, AdapterRead,
                    AdapterEnsureProfile, AdapterCollect, AdapterVerify, AdapterFail,
                    SweepClusterConfigCache, SveltosObserve, SveltosRetry, SveltosFinish,
                    SveltosApply, SveltosFail, PodsReady, PodsUnready
    <2>2. PICK target \in [Services -> Versions] :
            /\ target[s] \in TargetVersions(owner.des[s], spec[s].ver)
            /\ spec' = BuildServicesList(owner.des, spec, status, target)
        BY <1>2, <2>1 DEF OwnerWrite, Unmodified
    <2>3. status' = status /\ owner.des \in DesiredSpecs
        BY <2>1 DEF OwnerWrite, RolloutIInv, SpecsInv
    <2>4. spec'[s].ver \in {spec[s].ver, NoVersion, target[s]}
        BY <1>t, <2>2 DEF BuildServicesList, ServicesToDeploy, NoEntry, SpecEntry
    <2>5. CASE spec'[s].ver = spec[s].ver
        BY <2>3, <2>5 DEF HopInv
    <2>6. CASE spec'[s].ver = NoVersion
      <3>1. status[s].ver \in Nat
          BY <1>t, VersionNat DEF StatusEntry
      <3> QED BY <2>3, <2>6, <3>1 DEF NoVersion
    <2>7. CASE spec'[s].ver = target[s] /\ spec'[s].ver \notin {spec[s].ver, NoVersion}
      <3>1. ~InFlight(spec, status, s)
          BY <1>t, <2>2, <2>7 DEF BuildServicesList, ServicesToDeploy, NoEntry, SpecEntry
      <3>2. status[s].ver = spec[s].ver /\ spec[s].ver \in Versions
          BY <1>t, <2>3, <3>1 DEF InFlight, DeployedVersion, StampInv, StatusEntry
      <3> QED BY <2>2, <2>3, <2>7, <3>2, TargetIsHop
    <2> QED BY <2>4, <2>5, <2>6, <2>7
  <1> QED BY <1>1, <1>2

(* The cluster walks the chain hop by hop, however far spec, Profile,      *)
(* sveltos and status are apart, under the condition of StampHolds and on  *)
(* chains that lead from every version to every later one.                 *)
THEOREM HopsHold ==
    ASSUME OnlyVersionsMove, RoutesExist
    PROVE  Spec => ClusterTakesEveryHop
  <1>1. Init => RolloutIInv /\ HopInv
    <2>1. Init => HopInv
        BY DEF Init, HopInv, NoStatus
    <2> QED BY <2>1, InitTypeOK, PipeInit DEF RolloutIInv
  <1>2. RolloutIInv /\ HopInv /\ [Next]_vars => (RolloutIInv /\ HopInv)'
      BY PipeInductive, HopInductive
  <1>3. ASSUME RolloutIInv, HopInv, [Next]_vars, NEW s \in Services,
               release[s].ver # NoVersion, release[s].ver < release'[s].ver
        PROVE  release'[s].ver \in UNION {Hop[release[s].ver][des] : des \in Versions}
    <2>1. /\ InPipe(s) /\ InTurn(s)
          /\ release \in [Services -> Release] /\ release[s] \in Release
        BY <1>3 DEF RolloutIInv, PipeInv, TypeOK
    <2>2. release[s].ver \in Nat /\ release'[s].ver # release[s].ver
      <3>1. release[s].ver \in Nat
          BY <2>1, VersionNat DEF Release
      <3> QED BY <1>3, <3>1
    <2>3. release'[s].ver = want[s].ver
        BY <1>3, <2>2, ReleaseWriter
    <2>4. release[s].ver = status[s].ver /\ release'[s].ver = spec[s].ver
        BY <2>1, <2>2, <2>3 DEF InPipe, InTurn, OldNew
    <2> QED BY <1>3, <2>4 DEF HopInv, IsHop
  <1>4. RolloutIInv /\ HopInv /\ [Next]_vars =>
          \A s \in Services :
            LET from == release[s].ver
                to   == release'[s].ver
            IN  (from # NoVersion /\ from < to) =>
                  to \in UNION {Hop[from][des] : des \in Versions}
      BY <1>3
  <1> QED
      BY <1>1, <1>2, <1>4, PTL DEF Spec, ClusterTakesEveryHop

-----------------------------------------------------------------------------
(* The order among services that are upgraded together                     *)

(* The user does not change what depends on what.                          *)
FixedDependencies ==
    \A d, e \in DesiredSpecs, s \in Services : d[s].deps = e[s].deps

(* Hops lead upwards, and not beyond the version they are taken for.       *)
HopsLead ==
    \A cur, des \in Versions : cur <= des =>
        \A v \in Hop[cur][des] : cur <= v /\ v <= des

(* Versions are only raised, and no service is set to the version of one   *)
(* it depends on that it did not share before.                             *)
UpgradesOnly ==
    \A s \in Services :
        /\ desired[s].ver <= desired'[s].ver
        /\ \A d \in Dependencies(desired, s) :
              desired'[s].ver = desired'[d].ver => desired[s].ver = desired[d].ver

(* s depends on d and is to have the same version.                         *)
Together(s, d) == d \in Dependencies(desired, s) /\ desired[s].ver = desired[d].ver

RisingInv ==
    \A s \in Services :
        /\ status[s].ver <= spec[s].ver
        /\ spec[s].ver <= desired[s].ver
        /\ owner # Idle => /\ spec[s].ver <= owner.des[s].ver
                           /\ owner.des[s].ver <= desired[s].ver

(* The spec of s asks only for what the cluster already runs of d.  A pass *)
(* of the owner that read an earlier list has them together as well.       *)
OrderInv ==
    \A s, d \in Services : Together(s, d) =>
        /\ spec[s].ver <= release[d].ver
        /\ owner # Idle => owner.des[s].ver = owner.des[d].ver

LEMMA SameDependencies ==
    ASSUME NEW des, NEW e, \A t \in Services : des[t].deps = e[t].deps, NEW s \in Services
    PROVE  Dependencies(des, s) = Dependencies(e, s)
  BY DEF Dependencies

(* The types of all versions at once.                                      *)
LEMMA VersionTypes ==
    ASSUME TypeOK, NEW s \in Services
    PROVE  /\ spec[s].ver \in Versions \union {NoVersion} /\ spec[s].ver \in Nat
           /\ status[s].ver \in Versions \union {NoVersion} /\ status[s].ver \in Nat
           /\ release[s].ver \in Versions \union {NoVersion} /\ release[s].ver \in Nat
           /\ desired[s].ver \in Versions /\ desired[s].ver \in Nat
           /\ owner # Idle => owner.des[s].ver \in Versions /\ owner.des[s].ver \in Nat
  <1>1. spec[s] \in SpecEntry /\ status[s] \in StatusEntry /\ release[s] \in Release
        /\ desired[s] \in Desired /\ (owner # Idle => owner.des[s] \in Desired)
      BY DEF TypeOK, SpecOf, StatusOf, DesiredOf
  <1>2. /\ spec[s].ver \in Versions \union {NoVersion}
        /\ status[s].ver \in Versions \union {NoVersion}
        /\ release[s].ver \in Versions \union {NoVersion}
        /\ desired[s].ver \in Versions
        /\ owner # Idle => owner.des[s].ver \in Versions
      BY <1>1 DEF SpecEntry, StatusEntry, Release, Desired
  <1> QED BY <1>2, VersionNat

(* What the owner's write makes of an entry that changes.                  *)
LEMMA SpecRises ==
    ASSUME OnlyVersionsMove, HopsLead, RolloutIInv, RisingInv, [Next]_vars,
           NEW s \in Services, spec'[s].ver # spec[s].ver
    PROVE  /\ OwnerWrite /\ owner # Idle
           /\ spec[s].ver <= spec'[s].ver /\ spec'[s].ver <= owner.des[s].ver
           /\ \A d \in Dependencies(owner.des, s) :
                AtDesiredVersion(owner.des, spec, status, d)
  <1>t. TypeOK /\ SpecsInv /\ StampInv(s) /\ spec[s] \in SpecEntry /\ NoVersion \notin Versions
      BY ServiceSetAssumption DEF RolloutIInv, PipeInv, TypeOK, SpecOf, NoVersion
  <1>1. OwnerWrite
      BY DEF Next, vars, serviceSet, OwnerRead, UserEdit, AdapterRead,
             AdapterEnsureProfile, AdapterCollect, AdapterVerify, AdapterFail,
             SweepClusterConfigCache, SveltosObserve, SveltosRetry, SveltosFinish,
             SveltosApply, SveltosFail, PodsReady, PodsUnready
  <1>2. PICK target \in [Services -> Versions] :
          /\ target[s] \in TargetVersions(owner.des[s], spec[s].ver)
          /\ spec' = BuildServicesList(owner.des, spec, status, target)
      BY <1>1 DEF OwnerWrite, Unmodified
  <1>3. /\ owner # Idle /\ owner.des \in DesiredSpecs
        /\ owner.des[s].on = desired[s].on
      BY <1>t, <1>1 DEF OwnerWrite, SpecsInv, OnlyVersionsMove
  <1>4. owner.des[s].on
    <2>1. CASE ~owner.des[s].on
      <3>1. spec'[s].ver = NoVersion /\ spec[s].ver = NoVersion
          BY <1>t, <1>2, <1>3, <2>1 DEF BuildServicesList, NoEntry, StampInv
      <3> QED BY <3>1
    <2> QED BY <2>1
  <1>5. s \in FilterServiceDependencies(owner.des, spec, status)
      BY <1>2, <1>4 DEF BuildServicesList
  <1>6. spec'[s].ver = target[s] /\ target[s] \in Versions
      BY <1>t, <1>2, <1>4, <1>5 DEF BuildServicesList, ServicesToDeploy, SpecEntry
  <1>7. /\ spec[s].ver \in Versions \union {NoVersion} /\ spec[s].ver \in Nat
        /\ target[s] \in Nat /\ owner.des[s].ver \in Versions /\ owner.des[s].ver \in Nat
        /\ spec[s].ver <= owner.des[s].ver
      BY <1>t, <1>3, <1>6, VersionTypes, VersionNat DEF RisingInv
  <1>8. \/ target[s] = owner.des[s].ver
        \/ spec[s].ver \in Versions /\ target[s] \in Hop[spec[s].ver][owner.des[s].ver]
      BY <1>2, <1>7 DEF TargetVersions, NextUpgradeStep
  <1>9. spec[s].ver <= target[s] /\ target[s] <= owner.des[s].ver
      BY <1>7, <1>8 DEF HopsLead
  <1> QED BY <1>1, <1>3, <1>5, <1>6, <1>9, EligibleDependencies

(* The release of a service is never taken back.                           *)
LEMMA ReleaseRises ==
    ASSUME RolloutIInv, RisingInv, [Next]_vars, NEW s \in Services
    PROVE  release[s].ver <= release'[s].ver /\ release[s].ver <= spec[s].ver
  <1>1. /\ InPipe(s) /\ InTurn(s) /\ status[s].ver <= spec[s].ver
        /\ spec[s].ver \in Nat /\ status[s].ver \in Nat
      BY VersionTypes DEF RolloutIInv, PipeInv, RisingInv
  <1>2. release'[s].ver \in {release[s].ver, want[s].ver}
      BY ReleaseWriter
  <1> QED BY <1>1, <1>2 DEF InPipe, InTurn, OldNew

LEMMA OrderInductive ==
    ASSUME OnlyVersionsMove, FixedDependencies, HopsLead,
           RolloutIInv, RolloutIInv', RisingInv, OrderInv, [Next]_vars, [UpgradesOnly]_vars
    PROVE  RisingInv' /\ OrderInv'
  <1>t. TypeOK /\ TypeOK' /\ SpecsInv /\ SpecsInv'
      BY DEF RolloutIInv
  <1>a. ASSUME NEW s \in Services
        PROVE  /\ spec[s].ver \in Nat /\ status[s].ver \in Nat /\ release[s].ver \in Nat
               /\ desired[s].ver \in Nat /\ (owner # Idle => owner.des[s].ver \in Nat)
               /\ spec'[s].ver \in Nat /\ status'[s].ver \in Nat /\ release'[s].ver \in Nat
               /\ desired'[s].ver \in Nat /\ (owner' # Idle => owner'.des[s].ver \in Nat)
    <2>1. TypeOK => /\ spec[s].ver \in Nat /\ status[s].ver \in Nat /\ release[s].ver \in Nat
                    /\ desired[s].ver \in Nat /\ (owner # Idle => owner.des[s].ver \in Nat)
        BY VersionTypes
    <2>2. (TypeOK => /\ spec[s].ver \in Nat /\ status[s].ver \in Nat /\ release[s].ver \in Nat
                     /\ desired[s].ver \in Nat /\ (owner # Idle => owner.des[s].ver \in Nat))'
        BY VersionTypes, PTL
    <2> QED BY <1>t, <2>1, <2>2
  <1>d. ASSUME NEW s \in Services, NEW des \in DesiredSpecs
        PROVE  Dependencies(desired, s) = Dependencies(des, s) /\ Dependencies(desired, s) \subseteq Services
    <2>1. \A t \in Services : desired[t].deps = des[t].deps
        BY <1>t DEF SpecsInv, FixedDependencies
    <2>2. Dependencies(desired, s) \subseteq Services
        BY DEF Dependencies
    <2> QED BY <2>1, <2>2, SameDependencies
  <1>r. \A s \in Services : release[s].ver <= release'[s].ver
      BY ReleaseRises
  <1>1. CASE UserEdit
    <2>1. UNCHANGED <<spec, status, owner, release>> /\ UpgradesOnly /\ desired' \in DesiredSpecs
      <3>1. /\ UNCHANGED <<spec, status, owner, release>>
            /\ desired' \in DesiredSpecs /\ desired' # desired
          BY <1>1 DEF UserEdit, serviceSet, sveltos
      <3> QED BY <3>1 DEF vars
    <2>2. ASSUME NEW s \in Services, NEW d \in Services, Together(s, d)' PROVE Together(s, d)
      <3>1. d \in Dependencies(desired', s) /\ desired'[s].ver = desired'[d].ver
          BY <2>2 DEF Together, Dependencies
      <3> QED BY <1>d, <2>1, <3>1 DEF Together, UpgradesOnly
    <2>3. RisingInv'
        BY <1>a, <2>1 DEF RisingInv, UpgradesOnly
    <2>4. OrderInv'
        BY <2>1, <2>2 DEF OrderInv
    <2> QED BY <2>3, <2>4
  <1>2. CASE OwnerRead
    <2>1. /\ UNCHANGED <<desired, spec, status, release>>
          /\ owner' # Idle => owner'.des = desired
        BY <1>2 DEF OwnerRead, serviceSet, sveltos
    <2>2. RisingInv'
        BY <1>a, <2>1 DEF RisingInv
    <2>3. OrderInv'
        BY <2>1 DEF OrderInv, Together, Dependencies
    <2> QED BY <2>2, <2>3
  <1>3. CASE desired' = desired /\ owner' \in {owner, Idle} /\ (spec' = spec \/ owner' = Idle)
    <2>1. \A s, d \in Services : Together(s, d)' <=> Together(s, d)
        BY <1>3 DEF Together, Dependencies
    <2>2. ASSUME NEW s \in Services
          PROVE  /\ spec[s].ver <= spec'[s].ver /\ spec'[s].ver <= desired[s].ver
                 /\ status'[s].ver <= spec'[s].ver
      <3>1. spec[s].ver <= spec'[s].ver /\ spec'[s].ver <= desired[s].ver
        <4>1. CASE spec'[s].ver = spec[s].ver
            BY <1>a, <4>1 DEF RisingInv
        <4>2. CASE spec'[s].ver # spec[s].ver
          <5>1. /\ owner # Idle /\ spec[s].ver <= spec'[s].ver
                /\ spec'[s].ver <= owner.des[s].ver
              BY <4>2, SpecRises
          <5>2. owner.des[s].ver <= desired[s].ver
              BY <5>1 DEF RisingInv
          <5> QED BY <1>a, <5>1, <5>2
        <4> QED BY <4>1, <4>2
      <3>2. status'[s].ver <= spec[s].ver
        <4>1. CASE status'[s].ver = status[s].ver
            BY <4>1 DEF RisingInv
        <4>2. CASE status'[s].ver # status[s].ver
          <5>1. status'[s].ver = spec[s].ver
              BY <4>2, StatusWriter, StampedVersion
          <5> QED BY <1>a, <5>1
        <4> QED BY <4>1, <4>2
      <3> QED BY <1>a, <3>1, <3>2
    <2>3. RisingInv'
        BY <1>3, <2>2 DEF RisingInv
    <2>4. ASSUME NEW s \in Services, NEW d \in Services, Together(s, d)
          PROVE  spec'[s].ver <= release'[d].ver
      <3>1. spec[s].ver <= release[d].ver /\ release[d].ver <= release'[d].ver
          BY <1>r, <2>4 DEF OrderInv
      <3>2. CASE spec'[s].ver = spec[s].ver
          BY <1>a, <3>1, <3>2
      <3>3. CASE spec'[s].ver # spec[s].ver
        <4>1. /\ owner # Idle /\ spec'[s].ver <= owner.des[s].ver
              /\ \A e \in Dependencies(owner.des, s) :
                   AtDesiredVersion(owner.des, spec, status, e)
            BY <3>3, SpecRises
        <4>2. owner.des \in DesiredSpecs /\ owner.des[s].ver = owner.des[d].ver
            BY <1>t, <2>4, <4>1 DEF SpecsInv, OrderInv
        <4>3. d \in Dependencies(owner.des, s)
            BY <1>d, <2>4, <4>2 DEF Together
        <4>4. status[d].ver = spec[d].ver /\ spec[d].ver = owner.des[d].ver
            BY <4>1, <4>3 DEF AtDesiredVersion
        <4>5. release[d].ver = spec[d].ver
            BY <4>4 DEF RolloutIInv, PipeInv, InPipe, OldNew
        <4>6. spec'[s].ver <= release[d].ver
            BY <4>1, <4>2, <4>4, <4>5
        <4> QED BY <1>a, <3>1, <4>6
      <3> QED BY <3>2, <3>3
    <2>5. OrderInv'
        BY <1>3, <2>1, <2>4 DEF OrderInv
    <2> QED BY <2>3, <2>5
  <1>4. \/ UserEdit \/ OwnerRead
        \/ desired' = desired /\ owner' \in {owner, Idle} /\ (spec' = spec \/ owner' = Idle)
      BY DEF Next, vars, serviceSet, OwnerWrite, AdapterRead, AdapterEnsureProfile,
             AdapterCollect, AdapterVerify, AdapterFail, SweepClusterConfigCache,
             SveltosObserve, SveltosRetry, SveltosFinish, SveltosApply, SveltosFail,
             PodsReady, PodsUnready
  <1> QED BY <1>1, <1>2, <1>3, <1>4

(* FilterServiceDependencies, the in-flight hold and the confirmation by   *)
(* the adapter together: of services that are upgraded together, none runs *)
(* a newer version than one it directly or transitively depends on, at any *)
(* moment and for any dependency graph.                                    *)
THEOREM OrderHolds ==
    ASSUME OnlyVersionsMove, FixedDependencies, HopsLead
    PROVE  Spec /\ [][UpgradesOnly]_vars => []DependentsNeverAhead
  <1>1. Init => RolloutIInv /\ RisingInv /\ OrderInv
    <2>1. ASSUME Init PROVE RisingInv /\ OrderInv
      <3>1. ASSUME NEW s \in Services
            PROVE  /\ status[s].ver = 0 /\ spec[s].ver = 0 /\ release[s].ver = 0
                   /\ desired[s].ver \in Nat /\ owner = Idle
          BY <2>1, InitTypeOK, VersionTypes
             DEF Init, NoStatus, NoEntry, NoRelease, NoVersion
      <3> QED BY <3>1 DEF RisingInv, OrderInv
    <2> QED BY <2>1, InitTypeOK, PipeInit DEF RolloutIInv
  <1>2. /\ RolloutIInv /\ RisingInv /\ OrderInv /\ [Next]_vars /\ [UpgradesOnly]_vars
        => (RolloutIInv /\ RisingInv /\ OrderInv)'
      BY PipeInductive, OrderInductive
  <1>3. RolloutIInv /\ RisingInv /\ OrderInv => DependentsNeverAhead
    <2> SUFFICES ASSUME RolloutIInv, RisingInv, OrderInv, NEW s \in Services,
                        NEW d \in Dependencies(desired, s), desired[s].ver = desired[d].ver
                 PROVE  release[s].ver <= release[d].ver
        BY DEF DependentsNeverAhead
    <2>1. d \in Services /\ Together(s, d)
        BY DEF Dependencies, Together
    <2>2. /\ spec[s].ver <= release[d].ver /\ status[s].ver <= spec[s].ver
          /\ release[s].ver \in {status[s].ver, spec[s].ver}
        BY <2>1 DEF OrderInv, RisingInv, RolloutIInv, PipeInv, InPipe, OldNew
    <2>3. /\ spec[s].ver \in Nat /\ status[s].ver \in Nat /\ release[d].ver \in Nat
        BY <2>1, VersionTypes DEF RolloutIInv
    <2> QED BY <2>2, <2>3
  <1> QED
      BY <1>1, <1>2, <1>3, PTL DEF Spec

-----------------------------------------------------------------------------
(* The poller loses no ServiceSet, for any number of them that the event   *)
(* channel has room for, any back-off and any number of changes and        *)
(* faults.                                                                 *)

(* What the poller and a reconcile have seen is not newer than what there  *)
(* is, and what a reconcile has seen of the current version still holds:   *)
(* only a change of the ClusterSummary makes a service stop being Deployed.*)
SeenBefore ==
    \A s \in Sets :
       /\ entries[s].lastSeenSummaryRV <= rv[s]
       /\ work[s].rv <= rv[s]
       /\ s \in present /\ work[s].rv = rv[s] /\ work[s].good => good[s]

(* What a tick emits fits into the channel it starts with.                 *)
RoomLeft == Len(channel) + Cardinality(out) <= Cardinality(Sets)

PollerIInv == PollerInv /\ SeenBefore /\ RoomLeft

(* A send leaves what is in the channel there and adds the event.          *)
LEMMA Sent ==
    ASSUME NEW q \in Seq(Sets), NEW e \in Sets
    PROVE  /\ Append(q, e) \in Seq(Sets) /\ Len(Append(q, e)) = Len(q) + 1
           /\ e \in ToSet(Append(q, e))
           /\ ToSet(q) \subseteq ToSet(Append(q, e))
  <1>1. Append(q, e) \in Seq(Sets) /\ Len(Append(q, e)) = Len(q) + 1
      OBVIOUS
  <1>2. Append(q, e)[Len(q) + 1] = e /\ \A i \in 1 .. Len(q) : Append(q, e)[i] = q[i]
      OBVIOUS
  <1>3. DOMAIN q = 1 .. Len(q) /\ DOMAIN Append(q, e) = 1 .. Len(q) + 1
      OBVIOUS
  <1>4. Len(q) \in Nat
      OBVIOUS
  <1> QED
      BY <1>1, <1>2, <1>3, <1>4 DEF ToSet

(* A receive takes the first event out and leaves the others.              *)
LEMMA Received ==
    ASSUME NEW q \in Seq(Sets), q # <<>>
    PROVE  /\ Head(q) \in Sets /\ Tail(q) \in Seq(Sets) /\ Len(Tail(q)) = Len(q) - 1
           /\ ToSet(q) \subseteq {Head(q)} \union ToSet(Tail(q))
  <1>1. Head(q) \in Sets /\ Tail(q) \in Seq(Sets) /\ Len(Tail(q)) = Len(q) - 1
      OBVIOUS
  <1>2. ASSUME NEW i \in DOMAIN q
        PROVE  q[i] = Head(q) \/ (i - 1 \in DOMAIN Tail(q) /\ Tail(q)[i - 1] = q[i])
      OBVIOUS
  <1> QED
      BY <1>1, <1>2 DEF ToSet

(* A tick leaves a state of the poller for every set, and one that is not  *)
(* emitted keeps the resourceVersion it has.                               *)
LEMMA TickTypes ==
    ASSUME PollerTypeOK, NEW s \in Sets
    PROVE  /\ Evaluate(s) \in EnqueueState
           /\ [entries[s] EXCEPT !.wait = IF @ > 0 THEN @ - 1 ELSE 0] \in EnqueueState
           /\ NewState \in EnqueueState
           /\ Evaluate(s).lastSeenSummaryRV = rv[s]
  <1>1. /\ entries[s] \in EnqueueState /\ rv[s] \in 0 .. MaxChanges
        /\ MaxBackoff \in Nat \ {0} /\ MaxChanges \in Nat
      BY StatusPollerAssumption DEF PollerTypeOK
  <1>2. NewState \in EnqueueState
      BY <1>1 DEF NewState, EnqueueState
  <1>3. [entries[s] EXCEPT !.wait = IF @ > 0 THEN @ - 1 ELSE 0] \in EnqueueState
      BY <1>1 DEF EnqueueState
  <1>4. CASE Changed(s)
    <2>1. Evaluate(s) = [lastSeenSummaryRV |-> rv[s], currentBackoff |-> 1, wait |-> 1]
        BY <1>4 DEF Evaluate
    <2> QED BY <2>1, <1>1, <1>2, <1>3 DEF EnqueueState
  <1>5. CASE ~Changed(s) /\ Due(s)
    <2> DEFINE backoff == Doubled(entries[s].currentBackoff)
    <2>1. Evaluate(s) = [entries[s] EXCEPT !.currentBackoff = backoff, !.wait = backoff]
        BY <1>5 DEF Evaluate
    <2>2. backoff \in 0 .. MaxBackoff
        BY <1>1 DEF EnqueueState, Doubled
    <2> HIDE DEF backoff
    <2> QED BY <2>1, <2>2, <1>1, <1>2, <1>3, <1>5 DEF EnqueueState, Changed
  <1>6. CASE ~Changed(s) /\ ~Due(s)
    <2>1. Evaluate(s) = [entries[s] EXCEPT !.wait = IF @ > 0 THEN @ - 1 ELSE 0]
        BY <1>6 DEF Evaluate
    <2> QED BY <2>1, <1>1, <1>2, <1>3, <1>6 DEF EnqueueState, Changed
  <1> QED BY <1>4, <1>5, <1>6

(* What PollerIInv says of one set, and what it says of the channel.       *)
Noticed(s) ==
    /\ entries[s].lastSeenSummaryRV <= rv[s]
    /\ work[s].rv <= rv[s]
    /\ s \in present /\ work[s].rv = rv[s] /\ work[s].good => good[s]
    /\ s \in present /\ deployed[s] /\ ~good[s] => OnItsWay(s)

LEMMA ByTheSet == PollerTypeOK => (PollerIInv <=> RoomLeft /\ \A s \in Sets : Noticed(s))
  BY DEF PollerTypeOK, PollerIInv, PollerInv, StaleSuccessIsNoticed,
         SeenBefore, Noticed

LEMMA ByTheSetAfter ==
    ASSUME PollerTypeOK', RoomLeft', \A s \in Sets : Noticed(s)'
    PROVE  PollerIInv'
  BY DEF PollerTypeOK, PollerIInv, PollerInv, StaleSuccessIsNoticed,
         SeenBefore, Noticed

LEMMA TickKeeps ==
    ASSUME PollerIInv, IsFiniteSet(Sets), Tick
    PROVE  PollerIInv'
  <1> USE DEF world, poller
  <1>0. PollerTypeOK /\ RoomLeft /\ \A s \in Sets : Noticed(s)
      BY ByTheSet DEF PollerIInv, PollerInv
  <1>1. PICK missed \in SUBSET present :
          LET found == {s \in present \ missed : rv[s] # 0}
          IN  /\ IF missed = {} THEN UNCHANGED pollerFaults ELSE PollerFault
              /\ out' = {s \in found : Emitted(s)}
              /\ entries' = [s \in Sets |->
                               IF s \in found THEN Evaluate(s)
                               ELSE IF s \in present
                               THEN [entries[s] EXCEPT !.wait = IF @ > 0 THEN @ - 1 ELSE 0]
                               ELSE NewState]
      BY DEF Tick
  <1> DEFINE found == {s \in present \ missed : rv[s] # 0}
  <1>2. /\ out = {} /\ channel = <<>> /\ out' \subseteq Sets
        /\ pollerFaults' \in 0 .. MaxPollerFaults
        /\ UNCHANGED <<present, rv, good, deployed, channel, queue, work>>
      BY <1>0, <1>1, StatusPollerAssumption
      DEF Tick, PollerTypeOK, PollerFault
  <1>3. entries' \in [Sets -> EnqueueState]
      BY <1>0, <1>1, TickTypes
  <1>4. PollerTypeOK'
      BY <1>0, <1>2, <1>3 DEF PollerTypeOK
  <1>5. RoomLeft'
    <2>1. Cardinality(out') <= Cardinality(Sets) /\ Cardinality(out') \in Nat
        BY <1>2, FS_Subset, FS_CardinalityType
    <2> QED BY <1>2, <2>1 DEF RoomLeft
  <1>6. ASSUME NEW s \in Sets PROVE Noticed(s)'
    <2>1. CASE s \in found
      <3>1. entries'[s].lastSeenSummaryRV = rv[s]
          BY <1>0, <1>1, <2>1, TickTypes
      <3>2. Changed(s) => s \in out'
          BY <1>1, <2>1 DEF Emitted
      <3> QED
          BY <1>0, <1>2, <3>1, <3>2
          DEF Noticed, OnItsWay, Changed, PollerTypeOK, ToSet
    <2>2. CASE s \in present \ found
      <3>1. entries'[s].lastSeenSummaryRV = entries[s].lastSeenSummaryRV
          BY <1>0, <1>1, <2>2 DEF PollerTypeOK, EnqueueState
      <3> QED
          BY <1>0, <1>2, <3>1 DEF Noticed, OnItsWay, Changed, ToSet
    <2>3. CASE s \notin present
      <3>1. entries'[s].lastSeenSummaryRV = 0
          BY <1>1, <2>3 DEF NewState
      <3> QED
          BY <1>0, <1>2, <2>3, <3>1 DEF Noticed, PollerTypeOK
    <2> QED BY <2>1, <2>2, <2>3
  <1> QED BY <1>4, <1>5, <1>6, ByTheSetAfter

LEMMA EmitKeeps ==
    ASSUME PollerIInv,
           IsFiniteSet(Sets), Cardinality(Sets) <= Buffer,
           NEW e \in Sets, Emit(e)
    PROVE  PollerIInv'
  <1> USE DEF world, poller
  <1>0. PollerTypeOK /\ RoomLeft /\ \A s \in Sets : Noticed(s)
      BY ByTheSet DEF PollerIInv, PollerInv
  <1>1. IsFiniteSet(out) /\ Cardinality(out) \in Nat /\ Cardinality(out) # 0
      BY <1>0, FS_Subset, FS_CardinalityType, FS_EmptySet DEF PollerTypeOK, Emit
  <1>2. Cardinality(out') = Cardinality(out) - 1
      BY <1>1, FS_RemoveElement DEF Emit
  <1>3. Len(channel) < Buffer
      BY <1>0, <1>1, FS_CardinalityType, StatusPollerAssumption
      DEF RoomLeft, PollerTypeOK
  <1>4. channel' = Append(channel, e)
      BY <1>3 DEF Emit
  <1>5. /\ channel' \in Seq(Sets) /\ Len(channel') = Len(channel) + 1
        /\ e \in ToSet(channel')
        /\ ToSet(channel) \subseteq ToSet(channel')
      BY <1>0, <1>4, Sent DEF PollerTypeOK
  <1>6. PollerTypeOK'
      BY <1>0, <1>3, <1>5, StatusPollerAssumption DEF PollerTypeOK, Emit
  <1>7. RoomLeft'
      BY <1>0, <1>1, <1>2, <1>5 DEF RoomLeft, PollerTypeOK
  <1>8. ASSUME NEW s \in Sets PROVE Noticed(s)'
      BY <1>0, <1>5 DEF Noticed, OnItsWay, Changed, Emit
  <1> QED BY <1>6, <1>7, <1>8, ByTheSetAfter

LEMMA DrainKeeps ==
    ASSUME PollerIInv, IsFiniteSet(Sets), Drain
    PROVE  PollerIInv'
  <1> USE DEF world, poller
  <1>0. PollerTypeOK /\ RoomLeft /\ \A s \in Sets : Noticed(s)
      BY ByTheSet DEF PollerIInv, PollerInv
  <1>1. /\ Head(channel) \in Sets /\ channel' \in Seq(Sets)
        /\ Len(channel') = Len(channel) - 1
        /\ ToSet(channel) \subseteq {Head(channel)} \union ToSet(channel')
      BY <1>0, Received DEF PollerTypeOK, Drain
  <1>2. Len(channel) \in Nat /\ Len(channel) <= Buffer
      BY <1>0 DEF PollerTypeOK
  <1>3. PollerTypeOK'
      BY <1>0, <1>1, <1>2, StatusPollerAssumption DEF PollerTypeOK, Drain
  <1>4. RoomLeft'
    <2>1. out' = out /\ Cardinality(out) \in Nat /\ Cardinality(Sets) \in Nat
        BY <1>0, FS_Subset, FS_CardinalityType DEF Drain, PollerTypeOK
    <2> QED BY <1>0, <1>1, <1>2, <2>1 DEF RoomLeft
  <1>5. ASSUME NEW s \in Sets PROVE Noticed(s)'
      BY <1>0, <1>1 DEF Noticed, OnItsWay, Changed, Drain
  <1> QED BY <1>3, <1>4, <1>5, ByTheSetAfter

(* What concerns one set e only touches neither the channel nor what is to *)
(* be emitted, and leaves the others as they are.                          *)
LEMMA SetKeeps ==
    ASSUME PollerIInv, NEW e \in Sets,
           \/ ReconcileRead(e) \/ ReconcileWrite(e) \/ ReconcileFail(e)
           \/ SveltosChange(e) \/ PodsRecover(e)
           \/ Delete(e) \/ Create(e)
    PROVE  PollerIInv'
  <1> USE DEF world, poller
  <1>0. PollerTypeOK /\ RoomLeft /\ \A s \in Sets : Noticed(s)
      BY ByTheSet DEF PollerIInv, PollerInv
  <1>1. UNCHANGED <<entries, out, channel>>
      BY DEF ReconcileRead, ReconcileWrite, ReconcileFail,
             SveltosChange, PodsRecover, Delete, Create
  <1>2. RoomLeft'
      BY <1>0, <1>1 DEF RoomLeft
  <1>3. PollerFault => pollerFaults' \in 0 .. MaxPollerFaults
      BY <1>0, StatusPollerAssumption DEF PollerFault, PollerTypeOK
  <1>4. rv[e] < MaxChanges => rv[e] + 1 \in 0 .. MaxChanges
      BY <1>0, StatusPollerAssumption DEF PollerTypeOK
  <1>5. /\ NoReconcile \in [rv : 0 .. MaxChanges, good : BOOLEAN]
        /\ NoReconcile.rv = 0 /\ NoReconcile.good = FALSE
      BY StatusPollerAssumption DEF NoReconcile
  <1>6. CASE ReconcileRead(e)
    <2>1. PollerTypeOK'
        BY <1>0, <1>1, <1>6 DEF PollerTypeOK, ReconcileRead
    <2>2. ASSUME NEW s \in Sets PROVE Noticed(s)'
        BY <1>0, <1>1, <1>5, <1>6, <2>2
        DEF Noticed, OnItsWay, Changed, ReconcileRead, PollerTypeOK
    <2> QED BY <1>2, <2>1, <2>2, ByTheSetAfter
  <1>7. CASE ReconcileWrite(e)
    <2>1. PollerTypeOK'
        BY <1>0, <1>1, <1>5, <1>7 DEF PollerTypeOK, ReconcileWrite
    <2>2. ASSUME NEW s \in Sets, s # e PROVE Noticed(s)'
        BY <1>0, <1>1, <1>7, <2>2
        DEF Noticed, OnItsWay, Changed, ReconcileWrite, PollerTypeOK
    <2>3. Noticed(e)'
        BY <1>0, <1>1, <1>5, <1>7
        DEF Noticed, OnItsWay, Changed, ReconcileWrite, PollerTypeOK
    <2> QED BY <1>2, <2>1, <2>2, <2>3, ByTheSetAfter
  <1>8. CASE ReconcileFail(e)
    <2>1. PollerTypeOK'
        BY <1>0, <1>1, <1>3, <1>5, <1>8 DEF PollerTypeOK, ReconcileFail
    <2>2. ASSUME NEW s \in Sets PROVE Noticed(s)'
        BY <1>0, <1>1, <1>5, <1>8, <2>2
        DEF Noticed, OnItsWay, Changed, ReconcileFail, PollerTypeOK
    <2> QED BY <1>2, <2>1, <2>2, ByTheSetAfter
  <1>9. CASE SveltosChange(e)
    <2>1. PollerTypeOK'
        BY <1>0, <1>1, <1>4, <1>9 DEF PollerTypeOK, SveltosChange
    <2>2. ASSUME NEW s \in Sets, s # e PROVE Noticed(s)'
        BY <1>0, <1>1, <1>9, <2>2
        DEF Noticed, OnItsWay, Changed, SveltosChange, PollerTypeOK
    <2>3. Noticed(e)'
        BY <1>0, <1>1, <1>9
        DEF Noticed, OnItsWay, Changed, SveltosChange, PollerTypeOK,
            EnqueueState
    <2> QED BY <1>2, <2>1, <2>2, <2>3, ByTheSetAfter
  <1>10. CASE PodsRecover(e)
    <2>1. PollerTypeOK'
        BY <1>0, <1>1, <1>10 DEF PollerTypeOK, PodsRecover
    <2>2. ASSUME NEW s \in Sets PROVE Noticed(s)'
        BY <1>0, <1>1, <1>10, <2>2
        DEF Noticed, OnItsWay, Changed, PodsRecover, PollerTypeOK
    <2> QED BY <1>2, <2>1, <2>2, ByTheSetAfter
  <1>11. CASE Delete(e)
    <2>1. PollerTypeOK'
        BY <1>0, <1>1, <1>3, <1>11 DEF PollerTypeOK, Delete
    <2>2. ASSUME NEW s \in Sets PROVE Noticed(s)'
        BY <1>0, <1>1, <1>11, <2>2
        DEF Noticed, OnItsWay, Changed, Delete
    <2> QED BY <1>2, <2>1, <2>2, ByTheSetAfter
  <1>12. CASE Create(e)
    <2>1. PollerTypeOK'
        BY <1>0, <1>1, <1>4, <1>12 DEF PollerTypeOK, Create
    <2>2. ASSUME NEW s \in Sets, s # e PROVE Noticed(s)'
        BY <1>0, <1>1, <1>12, <2>2
        DEF Noticed, OnItsWay, Changed, Create, PollerTypeOK
    <2>3. Noticed(e)'
        BY <1>0, <1>1, <1>12 DEF Noticed, Create, PollerTypeOK, EnqueueState
    <2> QED BY <1>2, <2>1, <2>2, <2>3, ByTheSetAfter
  <1> QED BY <1>6, <1>7, <1>8, <1>9, <1>10, <1>11, <1>12

LEMMA RestartKeeps ==
    ASSUME PollerIInv, IsFiniteSet(Sets), Restart
    PROVE  PollerIInv'
  <1> USE DEF world, poller
  <1>0. PollerTypeOK
      BY DEF PollerIInv, PollerInv
  <1>1. NewState \in EnqueueState /\ NewState.lastSeenSummaryRV = 0
      BY StatusPollerAssumption DEF NewState, EnqueueState
  <1>2. /\ NoReconcile \in [rv : 0 .. MaxChanges, good : BOOLEAN]
        /\ NoReconcile.rv = 0 /\ NoReconcile.good = FALSE
      BY StatusPollerAssumption DEF NoReconcile
  <1>3. channel' \in Seq(Sets) /\ Len(channel') = 0 /\ pollerFaults' \in 0 .. MaxPollerFaults
      BY <1>0, StatusPollerAssumption DEF Restart, PollerFault, PollerTypeOK
  <1>4. PollerTypeOK'
      BY <1>0, <1>1, <1>2, <1>3, StatusPollerAssumption
      DEF PollerTypeOK, Restart
  <1>5. RoomLeft'
    <2>1. Cardinality(out') = 0 /\ Cardinality(Sets) \in Nat
        BY FS_EmptySet, FS_CardinalityType DEF Restart
    <2> QED BY <1>3, <2>1 DEF RoomLeft
  <1>6. ASSUME NEW s \in Sets PROVE Noticed(s)'
    <2>1. /\ entries'[s] = NewState /\ work'[s] = NoReconcile /\ rv'[s] \in Nat
          /\ queue' = present'
        BY <1>0 DEF Restart, PollerTypeOK
    <2> QED BY <1>1, <1>2, <2>1 DEF Noticed, OnItsWay
  <1> QED BY <1>4, <1>5, <1>6, ByTheSetAfter

(* "We unquiesce automatically when sveltos next bumps CS RV": whatever    *)
(* races, failures, restarts and deletions went before, a set that is      *)
(* reported as fully deployed and is not is on its way to a reconcile that *)
(* sees it, for any number of sets that enqueueClusterSummary has room for *)
(* in the channel.                                                         *)
THEOREM PollerSafe ==
    ASSUME IsFiniteSet(Sets), Cardinality(Sets) <= Buffer
    PROVE  PollerSpec => []PollerInv
  <1>1. PollerInit => PollerIInv
    <2> SUFFICES ASSUME PollerInit PROVE PollerIInv
        OBVIOUS
    <2>1. NewState \in EnqueueState /\ NewState.lastSeenSummaryRV = 0
        BY StatusPollerAssumption DEF NewState, EnqueueState
    <2>2. /\ NoReconcile \in [rv : 0 .. MaxChanges, good : BOOLEAN]
          /\ NoReconcile.rv = 0 /\ NoReconcile.good = FALSE
        BY StatusPollerAssumption DEF NoReconcile
    <2>3. PollerTypeOK
        BY <2>1, <2>2, StatusPollerAssumption DEF PollerInit, PollerTypeOK
    <2>4. RoomLeft
        BY FS_EmptySet, FS_CardinalityType DEF PollerInit, RoomLeft
    <2>5. \A s \in Sets : Noticed(s)
        BY <2>1, <2>2 DEF PollerInit, Noticed
    <2> QED BY <2>3, <2>4, <2>5, ByTheSet
  <1>2. PollerIInv /\ [PollerNext]_pollerVars => PollerIInv'
    <2> SUFFICES ASSUME PollerIInv, [PollerNext]_pollerVars PROVE PollerIInv'
        OBVIOUS
    <2>1. CASE PollerNext
        BY <2>1, TickKeeps, DrainKeeps, RestartKeeps, EmitKeeps, SetKeeps DEF PollerNext
    <2>2. CASE UNCHANGED pollerVars
        BY <2>2
        DEF pollerVars, world, poller, PollerIInv, PollerInv,
            PollerTypeOK, SeenBefore, RoomLeft, StaleSuccessIsNoticed,
            OnItsWay, Changed
    <2> QED BY <2>1, <2>2
  <1>3. PollerIInv => PollerInv
      BY DEF PollerIInv
  <1> QED BY <1>1, <1>2, <1>3, PTL DEF PollerSpec
=============================================================================
